--------------------------- MODULE ToolPermission ---------------------------
(***************************************************************************)
(* Whether a tool call may run: Agent.checkToolCallGuardrails, the two     *)
(* guardrails built on BaseToolPermissionGuardrail, the rules they share   *)
(* (GuardrailRulesStore), the rules' file, and everyone who changes rules  *)
(* while a call is being checked: the user who answers a request, the      *)
(* REST API, an update of the agent.                                       *)
(*                                                                         *)
(* A session checks one call at a time (AgentRun: OneRunPerSession).  The  *)
(* guardrails are consulted in the order of bootstrap, with awaits in      *)
(* between, so rules may change between two of them.  Each change of a     *)
(* rule writes the whole store with fs.writeFile, which truncates the file *)
(* first and does not serialise writers.                                   *)
(***************************************************************************)
EXTENDS Naturals

CONSTANTS
    Sessions,       \* session ids
    NumGuardrails,  \* the guardrails 1..NumGuardrails, in the order of bootstrap
    Calls,          \* tool calls, up to what the guardrails tell apart
    Keys,           \* rule keys: a tool name, the first word of a command
    Patterns,       \* glob patterns a global or an agent's rule may be stored under
    KeyOf,          \* KeyOf[g][c]: getRuleKey of guardrail g, None when it does not apply
    Covers,         \* Covers[p]: the keys picomatch(p) accepts
    None,           \* undefined, null
    Api,            \* the REST API as a writer of rules
    Torn,           \* a rules' file that does not parse
    MaxWrites       \* bound: changes of rules

Guardrails == 1..NumGuardrails
Stored == Keys \cup Patterns
Decisions == {"approve_always", "deny_always"}
Modes == {"standard", "fail", "safe_skip"}   \* skip makes no check at all
Writers == Sessions \cup {Api}

ASSUME ToolPermissionAssumption ==
    /\ NumGuardrails \in Nat /\ MaxWrites \in Nat
    /\ KeyOf \in [Guardrails -> [Calls -> Keys \cup {None}]]
    /\ Covers \in [Patterns -> SUBSET Keys]
    /\ None \notin Keys \cup Patterns \cup Decisions \cup Calls
    /\ Api \notin Sessions
    /\ Keys \cap Patterns = {}

RuleMaps == [Guardrails -> [Stored -> Decisions \cup {None}]]
SessionMaps == [Sessions -> [Guardrails -> [Keys -> Decisions \cup {None}]]]
RulesData == [global : RuleMaps, session : SessionMaps]

VARIABLES
    up,          \* the process runs
    rules,       \* GuardrailRulesStore: global and sessions
    agentRules,  \* config.guardrailRules of the agent
    disk,        \* the rules' file
    saves,       \* the writeFile in flight of each writer
    check,       \* the call each session is checking
    writes,      \* changes of rules so far
    barred,      \* history: the guardrails whose rule has said deny since the check began
    blessed,     \* history: the guardrails whose rule said approve at some time of the check
    consent,     \* history: the guardrails of whose request of this check the user approved
    told,        \* history: <<s, g, k>> that the agent was told is denied for its session,
                 \* when the session was not deleted meanwhile
    clean        \* history: no two writes of the file overlapped, none failed

fileVars == <<disk, saves, clean>>
ruleVars == <<rules, agentRules, writes>>
history == <<barred, blessed, consent, told>>
vars == <<up, ruleVars, fileVars, check, history>>

NoCheck == [call |-> None, mode |-> "fail", at |-> 0, approved |-> FALSE, stage |-> "none"]
Stages == {"consulting", "yielded", "waiting", "saving_allow", "saving_deny", "granted"}
Checks == [call : Calls, mode : Modes, at : 1..NumGuardrails + 1, approved : BOOLEAN, stage : Stages]

NoSave == [data |-> Torn, mixed |-> FALSE]
Saves == [data : RulesData, mixed : BOOLEAN]

NoRules == [global  |-> [g \in Guardrails |-> [k \in Stored |-> None]],
            session |-> [s \in Sessions |-> [g \in Guardrails |-> [k \in Keys |-> None]]]]

TypeOK ==
    /\ up \in BOOLEAN
    /\ rules \in RulesData
    /\ agentRules \in RuleMaps
    /\ disk \in RulesData \cup {Torn}
    /\ saves \in [Writers -> Saves \cup {NoSave}]
    /\ check \in [Sessions -> Checks \cup {NoCheck}]
    /\ writes \in 0..MaxWrites
    /\ barred \in [Sessions -> SUBSET Guardrails]
    /\ blessed \in [Sessions -> SUBSET Guardrails]
    /\ consent \in [Sessions -> SUBSET Guardrails]
    /\ told \subseteq Sessions \X Guardrails \X Keys
    /\ clean \in BOOLEAN

Init ==
    /\ up = TRUE
    /\ rules = NoRules
    /\ agentRules = NoRules.global
    /\ disk = NoRules
    /\ saves = [w \in Writers |-> NoSave]
    /\ check = [s \in Sessions |-> NoCheck]
    /\ writes = 0
    /\ barred = [s \in Sessions |-> {}]
    /\ blessed = [s \in Sessions |-> {}]
    /\ consent = [s \in Sessions |-> {}]
    /\ told = {}
    /\ clean = TRUE

(***************************************************************************)
(* A definition whose name starts with Bad is a bug the code does not      *)
(* have; no action uses it.                                                *)
(***************************************************************************)

\* GuardrailRulesStore.resolveDecision: the exact key, else the patterns that
\* match it, among which a denial wins.
ResolveDecision(map, k) ==
    LET hits == {map[p] : p \in {q \in Patterns : k \in Covers[q]}} IN
    IF map[k] # None THEN map[k]
    ELSE IF "deny_always" \in hits THEN "deny_always"
    ELSE IF "approve_always" \in hits THEN "approve_always"
    ELSE None

\* The order of the lookups turned round: the session's rule before the others.
BadRuleIn(rs, ag, s, g, k) ==
    IF rs.session[s][g][k] # None THEN rs.session[s][g][k]
    ELSE IF ResolveDecision(ag[g], k) # None THEN ResolveDecision(ag[g], k)
    ELSE ResolveDecision(rs.global[g], k)

\* GuardrailRulesStore.getRule: global, then the agent's, then the session's.
RuleIn(rs, ag, s, g, k) ==
    IF ResolveDecision(rs.global[g], k) # None THEN ResolveDecision(rs.global[g], k)
    ELSE IF ResolveDecision(ag[g], k) # None THEN ResolveDecision(ag[g], k)
    ELSE rs.session[s][g][k]

\* Every rule that matches the key k, as <<level, exactness, decision>>.
Claims(rs, ag, s, g, k) ==
    LET matching == {k} \cup {p \in Patterns : k \in Covers[p]}
        exact(r) == IF r = k THEN 1 ELSE 0
    IN {<<3, exact(r), rs.global[g][r]>> : r \in matching}
       \cup {<<2, exact(r), ag[g][r]>> : r \in matching}
       \cup {<<1, 1, rs.session[s][g][k]>>}

\* How users are told rules rank: global over agent over session, an exact key over
\* a pattern, a denial over an approval.
Says(d, rs, ag, s, g, k) ==
    \E c \in Claims(rs, ag, s, g, k) :
        /\ c[3] = d
        /\ \A e \in Claims(rs, ag, s, g, k) :
             \/ e[3] = None
             \/ e[1] < c[1]
             \/ e[1] = c[1] /\ e[2] < c[2]
             \/ e[1] = c[1] /\ e[2] = c[2] /\ (e[3] = d \/ d = "deny_always")

\* The guardrails that a call concerns and whose rule is d.
Saying(d, rs, ag, s, c) ==
    {g \in Guardrails : KeyOf[g][c] # None /\ Says(d, rs, ag, s, g, KeyOf[g][c])}

\* Bookkeeping of the history variables when rules become rs and ag.
Follow(rs, ag) ==
    /\ barred' = [s \in Sessions |->
         IF check[s] = NoCheck THEN {}
         ELSE barred[s] \cap Saying("deny_always", rs, ag, s, check[s].call)]
    /\ blessed' = [s \in Sessions |->
         IF check[s] = NoCheck THEN {}
         ELSE blessed[s] \cup Saying("approve_always", rs, ag, s, check[s].call)]

\* A write of the rules as they were before the change.
BadPersist(w, rs) ==
    LET others == {v \in Writers \ {w} : saves[v] # NoSave} IN
    /\ saves' = [v \in Writers |->
         IF v = w THEN [data |-> rules, mixed |-> others # {}]
         ELSE IF v \in others THEN [saves[v] EXCEPT !.mixed = TRUE]
         ELSE NoSave]
    /\ clean' = (clean /\ others = {})
    /\ UNCHANGED disk

\* GuardrailRulesStore.persist by writer w: the snapshot is taken at once, the
\* write takes its time.
Persist(w, rs) ==
    LET others == {v \in Writers \ {w} : saves[v] # NoSave} IN
    /\ saves' = [v \in Writers |->
         IF v = w THEN [data |-> rs, mixed |-> others # {}]
         ELSE IF v \in others THEN [saves[v] EXCEPT !.mixed = TRUE]
         ELSE NoSave]
    /\ clean' = (clean /\ others = {})
    /\ UNCHANGED disk

ForgetCheck(s) ==
    /\ check' = [check EXCEPT ![s] = NoCheck]
    /\ barred' = [barred EXCEPT ![s] = {}]
    /\ blessed' = [blessed EXCEPT ![s] = {}]
    /\ consent' = [consent EXCEPT ![s] = {}]

-----------------------------------------------------------------------------
(***************************************************************************)
(* Checking a call.                                                        *)
(***************************************************************************)
Begin(s, c, m) ==
    /\ up
    /\ check[s] = NoCheck
    /\ check' = [check EXCEPT ![s] =
         [call |-> c, mode |-> m, at |-> 1, approved |-> FALSE, stage |-> "consulting"]]
    /\ barred' = [barred EXCEPT ![s] = Saying("deny_always", rules, agentRules, s, c)]
    /\ blessed' = [blessed EXCEPT ![s] = Saying("approve_always", rules, agentRules, s, c)]
    /\ UNCHANGED <<up, ruleVars, fileVars, consent, told>>

\* The guardrail whose turn it is, the key it finds in the call, and the rule.
Key(s) == KeyOf[check[s].at][check[s].call]
Rule(s) == RuleIn(rules, agentRules, s, check[s].at, Key(s))
Consulting(s) == up /\ check[s].stage = "consulting" /\ check[s].at \in Guardrails
Undecided(s) == Key(s) # None /\ Rule(s) = None

\* No key, an approving rule, a mode that lets undecided calls pass, or a request
\* that is approved at once because the user approved one of this call before.
Allows(s) ==
    /\ Consulting(s)
    /\ \/ Key(s) = None
       \/ Key(s) # None /\ Rule(s) = "approve_always"
       \/ Undecided(s) /\ check[s].mode = "safe_skip"
       \/ Undecided(s) /\ check[s].mode = "standard" /\ check[s].approved
    /\ check' = [check EXCEPT ![s].at = @ + 1]
    /\ UNCHANGED <<up, ruleVars, fileVars, history>>

\* A denying rule blocks the call; nobody to ask fails the run.
Denies(s) ==
    /\ Consulting(s)
    /\ Key(s) # None
    /\ \/ Rule(s) = "deny_always"
       \/ Rule(s) = None /\ check[s].mode = "fail"
    /\ ForgetCheck(s)
    /\ UNCHANGED <<up, ruleVars, fileVars, told>>

\* A request put to the user in every mode.
BadAsks(s) ==
    /\ Consulting(s)
    /\ Undecided(s) /\ ~check[s].approved
    /\ check' = [check EXCEPT ![s].stage = "yielded"]
    /\ UNCHANGED <<up, ruleVars, fileVars, history>>

\* The guardrail yields a request.
Asks(s) ==
    /\ Consulting(s)
    /\ Undecided(s) /\ check[s].mode = "standard" /\ ~check[s].approved
    /\ check' = [check EXCEPT ![s].stage = "yielded"]
    /\ UNCHANGED <<up, ruleVars, fileVars, history>>

\* The consumer of the events has taken the request and asks for the next event.
Registers(s) ==
    /\ up
    /\ check[s].stage = "yielded"
    /\ check' = [check EXCEPT ![s].stage = "waiting"]
    /\ UNCHANGED <<up, ruleVars, fileVars, history>>

\* The consumer throws instead: the generators return.
Abandoned(s) ==
    /\ up
    /\ check[s].stage = "yielded"
    /\ ForgetCheck(s)
    /\ UNCHANGED <<up, ruleVars, fileVars, told>>

\* All guardrails let the call through.
AllowsAll(s) ==
    /\ up
    /\ check[s].stage = "consulting" /\ check[s].at = NumGuardrails + 1
    /\ check' = [check EXCEPT ![s].stage = "granted"]
    /\ UNCHANGED <<up, ruleVars, fileVars, history>>

\* ToolOrchestrator.execute has started the tool.
Executes(s) ==
    /\ up
    /\ check[s].stage = "granted"
    /\ ForgetCheck(s)
    /\ UNCHANGED <<up, ruleVars, fileVars, told>>

(***************************************************************************)
(* The user's answer to a registered request.                              *)
(***************************************************************************)
Waiting(s) == up /\ check[s].stage = "waiting"

ApprovesOnce(s) ==
    /\ Waiting(s)
    /\ check' = [check EXCEPT ![s].stage = "consulting", ![s].at = @ + 1, ![s].approved = TRUE]
    /\ consent' = [consent EXCEPT ![s] = @ \cup {check[s].at}]
    /\ UNCHANGED <<up, ruleVars, fileVars, barred, blessed, told>>

\* DENY, or ABORTED by a stop of the session.
DeniesOnce(s) ==
    /\ Waiting(s)
    /\ ForgetCheck(s)
    /\ UNCHANGED <<up, ruleVars, fileVars, told>>

\* A decision that is remembered: the store changes, and the check waits for it
\* to be written.
Always(s, d) ==
    LET g  == check[s].at
        rs == [rules EXCEPT !.session[s][g][Key(s)] = d]
    IN
    /\ Waiting(s)
    /\ writes < MaxWrites /\ writes' = writes + 1
    /\ rules' = rs
    /\ Persist(s, rs)
    /\ Follow(rs, agentRules)
    /\ check' = [check EXCEPT ![s].stage = IF d = "approve_always" THEN "saving_allow" ELSE "saving_deny"]
    /\ consent' = IF d = "approve_always" THEN [consent EXCEPT ![s] = @ \cup {check[s].at}] ELSE consent
    /\ UNCHANGED <<up, agentRules, told>>

(***************************************************************************)
(* The file.                                                               *)
(***************************************************************************)
\* What a check does when the write it waits for has ended.
Resume(w) ==
    CASE w \in Sessions /\ check[w].stage = "saving_allow" ->
           /\ check' = [check EXCEPT ![w].stage = "consulting", ![w].at = @ + 1, ![w].approved = TRUE]
           /\ UNCHANGED history
      [] w \in Sessions /\ check[w].stage = "saving_deny" ->
           /\ told' = IF rules.session[w][check[w].at][Key(w)] = "deny_always"
                      THEN told \cup {<<w, check[w].at, Key(w)>>} ELSE told
           /\ ForgetCheck(w)
      [] OTHER -> UNCHANGED <<check, history>>

\* The write ends; bytes of another one that was in flight may have got in.
Saved(w) ==
    /\ up
    /\ saves[w] # NoSave
    /\ disk' \in {saves[w].data} \cup (IF saves[w].mixed THEN {Torn} ELSE {})
    /\ saves' = [saves EXCEPT ![w] = NoSave]
    /\ Resume(w)
    /\ UNCHANGED <<up, ruleVars, clean>>

\* The write fails: the run fails, or the API answers with an error.
SaveFails(w) ==
    /\ up
    /\ saves[w] # NoSave
    /\ disk' \in {disk, Torn}
    /\ saves' = [saves EXCEPT ![w] = NoSave]
    /\ clean' = FALSE
    /\ IF w \in Sessions THEN ForgetCheck(w) /\ UNCHANGED told ELSE UNCHANGED <<check, history>>
    /\ UNCHANGED <<up, ruleVars>>

(***************************************************************************)
(* Those who change rules from outside.                                    *)
(***************************************************************************)
ApiWrites(rs) ==
    /\ up
    /\ saves[Api] = NoSave
    /\ writes < MaxWrites /\ writes' = writes + 1
    /\ rules' = rs
    /\ Persist(Api, rs)
    /\ Follow(rs, agentRules)
    /\ UNCHANGED <<up, agentRules, check, consent>>

SetGlobalRule(g, k, d) ==
    ApiWrites([rules EXCEPT !.global[g][k] = d]) /\ UNCHANGED told

DeleteGlobalRule(g, k) ==
    /\ \E j \in Stored : rules.global[g][j] # None
    /\ ApiWrites([rules EXCEPT !.global[g][k] = None])
    /\ UNCHANGED told

\* The session is deleted, and what its agent was told goes with it.
ClearSessionRules(s) ==
    /\ rules.session[s] # NoRules.session[s]
    /\ ApiWrites([rules EXCEPT !.session[s] = NoRules.session[s]])
    /\ told' = {t \in told : t[1] # s}

\* Agent.update; the agents' file is not the rules' file.
UpdateAgent(g, k, d) ==
    LET ag == [agentRules EXCEPT ![g][k] = d] IN
    /\ up
    /\ writes < MaxWrites /\ writes' = writes + 1
    /\ agentRules' = ag
    /\ Follow(rules, ag)
    /\ UNCHANGED <<up, rules, fileVars, check, consent, told>>

(***************************************************************************)
(* The process dies with writes in flight, and comes back if the file      *)
(* parses.                                                                 *)
(***************************************************************************)
Crash ==
    LET inFlight == {w \in Writers : saves[w] # NoSave} IN
    /\ up
    /\ up' = FALSE
    /\ disk' \in {disk} \cup {saves[w].data : w \in inFlight} \cup (IF inFlight = {} THEN {} ELSE {Torn})
    /\ saves' = [w \in Writers |-> NoSave]
    /\ check' = [s \in Sessions |-> NoCheck]
    /\ barred' = [s \in Sessions |-> {}]
    /\ blessed' = [s \in Sessions |-> {}]
    /\ consent' = [s \in Sessions |-> {}]
    /\ UNCHANGED <<ruleVars, told, clean>>

Boot ==
    /\ ~up
    /\ disk # Torn
    /\ up' = TRUE
    /\ rules' = disk
    /\ UNCHANGED <<agentRules, writes, fileVars, check, history>>

-----------------------------------------------------------------------------
\* What the process does by itself.
CheckStep(s) ==
    Allows(s) \/ Denies(s) \/ Asks(s) \/ Registers(s) \/ AllowsAll(s)

Next ==
    \/ \E s \in Sessions, c \in Calls, m \in Modes : Begin(s, c, m)
    \/ \E s \in Sessions : CheckStep(s)
    \/ \E s \in Sessions : Executes(s) \/ Abandoned(s) \/ ApprovesOnce(s) \/ DeniesOnce(s)
    \/ \E s \in Sessions, d \in Decisions : Always(s, d)
    \/ \E w \in Writers : Saved(w) \/ SaveFails(w)
    \/ \E g \in Guardrails, k \in Stored, d \in Decisions : SetGlobalRule(g, k, d)
    \/ \E g \in Guardrails, k \in Stored : DeleteGlobalRule(g, k)
    \/ \E s \in Sessions : ClearSessionRules(s)
    \/ \E g \in Guardrails, k \in Stored, d \in Decisions \cup {None} : UpdateAgent(g, k, d)
    \/ Crash \/ Boot

Spec == Init /\ [][Next]_vars

FairSpec == Spec /\ \A s \in Sessions : WF_vars(CheckStep(s))

-----------------------------------------------------------------------------
(***************************************************************************)
(* Properties.                                                             *)
(***************************************************************************)

\* No tool runs against a rule: when a rule has said deny from the moment the
\* check began, through every change of the rules since, neither an answer of the
\* user, nor an approval of another guardrail's request, nor a mode without a
\* user lets the call through.
NeverAgainstTheRules ==
    \A s \in Sessions : check[s].stage = "granted" => barred[s] = {}

\* With a user to ask, every guardrail that let the call through had a rule that
\* said so during the check, or the user approved its request or an earlier one
\* of the same call; an approval of another call is never used.
RuleOrConsent ==
    \A s \in Sessions : check[s].stage = "granted" /\ check[s].mode = "standard" =>
        \A g \in Guardrails :
            \/ KeyOf[g][check[s].call] = None
            \/ g \in blessed[s]
            \/ \E h \in consent[s] : h <= g

\* Every call that went through was allowed: no rule forbade it, and each
\* guardrail that could speak had a rule or the user's word for it.
CallsAreLawful == TypeOK /\ NeverAgainstTheRules /\ RuleOrConsent

Denied(rs, t) == \A x \in t : rs.session[x[1]][x[2]][x[3]] = "deny_always"

\* Without overlapping or failed writes, a denial the agent was told of is in the
\* store, also after a crash and a restart.
DenialsAreRemembered ==
    up /\ clean => Denied(rules, told)

\* A check without a user to ask comes to its end by itself.
UnattendedCheckEnds ==
    \A s \in Sessions :
        (check[s].stage = "consulting" /\ check[s].mode # "standard")
            ~> (check[s].stage \in {"none", "granted"})

\* What the agent is told with a permanent denial: the tool has been permanently
\* denied for this session.
PermanentlyDenied ==
    up => Denied(rules, told)
=============================================================================
