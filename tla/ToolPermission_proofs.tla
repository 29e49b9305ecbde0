------------------------ MODULE ToolPermission_proofs ------------------------
(***************************************************************************)
(* ToolPermission for every number of sessions and guardrails, all keys,   *)
(* patterns and rules: no call that was let through was against a rule or  *)
(* without a reason, and a denial the agent was told of is remembered.     *)
(*                                                                         *)
(* Three facts make this inductive.  A guardrail whose rule keeps saying   *)
(* deny is still ahead of the check (BarredAhead), what the check has      *)
(* passed had a reason (PassedForAReason), and whatever a restart may read *)
(* holds the denials that were told (Remembered).                          *)
(***************************************************************************)
EXTENDS ToolPermission, TLAPS

Asking == {"yielded", "waiting"}
OnKey == Asking \cup {"saving_allow", "saving_deny"}

\* Where a check can be: at a guardrail that applies, while it has to do with the user,
\* with no rule of its session while it asks; behind the last one when it is granted;
\* nowhere when the process is down.
Placed(s) ==
    /\ ~up => check[s] = NoCheck
    /\ check[s].stage \in OnKey => check[s].at \in Guardrails /\ Key(s) \in Keys
    /\ check[s].stage \in Asking => rules.session[s][check[s].at][Key(s)] = None
    /\ check[s].stage = "granted" => check[s].at = NumGuardrails + 1

BarredAhead(s) ==
    \A g \in barred[s] :
        /\ check[s] # NoCheck
        /\ g \in Saying("deny_always", rules, agentRules, s, check[s].call)
        /\ g >= check[s].at
        /\ check[s].stage \in OnKey => g > check[s].at

PassedForAReason(s) ==
    check[s] # NoCheck =>
        /\ Saying("approve_always", rules, agentRules, s, check[s].call) \subseteq blessed[s]
        /\ check[s].mode = "standard" =>
             /\ \A g \in Guardrails : g < check[s].at =>
                  \/ KeyOf[g][check[s].call] = None
                  \/ g \in blessed[s]
                  \/ \E h \in consent[s] : h <= g
             /\ check[s].approved => \E h \in consent[s] : h < check[s].at
        /\ check[s].stage = "saving_allow" => check[s].at \in consent[s]

InOrder(s) == Placed(s) /\ BarredAhead(s) /\ PassedForAReason(s)

Remembered ==
    /\ ~up => \A w \in Writers : saves[w] = NoSave
    /\ clean =>
         /\ up => Denied(rules, told)
         /\ disk # Torn => Denied(disk, told)
         /\ \A w \in Writers : saves[w] # NoSave => saves[w] = [data |-> rules, mixed |-> FALSE]

IInv == TypeOK /\ (\A s \in Sessions : InOrder(s)) /\ Remembered

USE ToolPermissionAssumption DEF Guardrails, Stored, Decisions, Writers

-----------------------------------------------------------------------------
(***************************************************************************)
(* The lookups of the store against how users are told rules rank.         *)
(***************************************************************************)
Matching(k) == {k} \cup {p \in Patterns : k \in Covers[p]}
Exact(r, k) == IF r = k THEN 1 ELSE 0

\* What one map of rules says of a key.
LEMMA MapDecides ==
    ASSUME NEW map \in [Stored -> Decisions \cup {None}], NEW k \in Keys
    PROVE  /\ ResolveDecision(map, k) = None <=> \A r \in Matching(k) : map[r] = None
           /\ ResolveDecision(map, k) = "deny_always" <=>
                \/ map[k] = "deny_always"
                \/ map[k] = None /\ \E r \in Matching(k) : map[r] = "deny_always"
           /\ ResolveDecision(map, k) = "approve_always" <=>
                \/ map[k] = "approve_always"
                \/ /\ map[k] = None
                   /\ \E r \in Matching(k) : map[r] = "approve_always"
                   /\ \A r \in Matching(k) : map[r] # "deny_always"
<1> DEFINE hits == {map[p] : p \in {q \in Patterns : k \in Covers[q]}}
<1>1. \A d \in Decisions : d \in hits <=> \E p \in Patterns : k \in Covers[p] /\ map[p] = d
  OBVIOUS
<1>2. \A r \in Matching(k) : map[r] \in Decisions \cup {None}
  BY DEF Matching
<1>3. k \in Matching(k) /\ \A r \in Matching(k) : r # k => r \in Patterns /\ k \in Covers[r]
  BY DEF Matching
<1>4. \A p \in Patterns : k \in Covers[p] => p \in Matching(k)
  BY DEF Matching
<1>5. ResolveDecision(map, k) =
        IF map[k] # None THEN map[k]
        ELSE IF "deny_always" \in hits THEN "deny_always"
        ELSE IF "approve_always" \in hits THEN "approve_always" ELSE None
  BY DEF ResolveDecision
<1> HIDE DEF hits
<1>6. CASE map[k] # None
  BY <1>2, <1>3, <1>5, <1>6
<1>7. CASE map[k] = None
  <2>1. \A d \in Decisions : d \in hits <=> \E r \in Matching(k) : map[r] = d
    BY <1>1, <1>3, <1>4, <1>7
  <2>2. (\A r \in Matching(k) : map[r] = None) <=>
            "deny_always" \notin hits /\ "approve_always" \notin hits
    BY <1>2, <2>1
  <2> QED BY <1>5, <1>7, <2>1, <2>2
<1> QED BY <1>6, <1>7

\* What matches a key on the three levels is a claim.
LEMMA ClaimsAre ==
    ASSUME NEW rs, NEW ag, NEW s, NEW g, NEW k
    PROVE  /\ \A r \in Matching(k) :
                /\ <<3, Exact(r, k), rs.global[g][r]>> \in Claims(rs, ag, s, g, k)
                /\ <<2, Exact(r, k), ag[g][r]>> \in Claims(rs, ag, s, g, k)
           /\ <<1, 1, rs.session[s][g][k]>> \in Claims(rs, ag, s, g, k)
BY DEF Claims, Matching, Exact

\* One claim prevails over another for the decision d.
Yields(e, c, d) ==
    \/ e[3] = None
    \/ e[1] < c[1]
    \/ e[1] = c[1] /\ e[2] < c[2]
    \/ e[1] = c[1] /\ e[2] = c[2] /\ (e[3] = d \/ d = "deny_always")

\* A rule that says deny is the one the store finds.
LEMMA DenialDecides ==
    ASSUME NEW rs \in RulesData, NEW ag \in RuleMaps, NEW s \in Sessions,
           NEW g \in Guardrails, NEW k \in Keys, Says("deny_always", rs, ag, s, g, k)
    PROVE  RuleIn(rs, ag, s, g, k) = "deny_always"
<1> DEFINE C == Claims(rs, ag, s, g, k)
<1>1. PICK c \in C : c[3] = "deny_always" /\ \A e \in C : Yields(e, c, "deny_always")
  BY DEF Says, Yields
<1>2. /\ rs.global[g] \in [Stored -> Decisions \cup {None}]
      /\ ag[g] \in [Stored -> Decisions \cup {None}]
  BY DEF RulesData, RuleMaps
<1>3. k \in Matching(k) /\ Exact(k, k) = 1 /\ \A r \in Matching(k) : r # k => Exact(r, k) = 0
  BY DEF Matching, Exact
<1>4. None # "deny_always"
  OBVIOUS
<1>5. CASE \E r \in Matching(k) : c = <<3, Exact(r, k), rs.global[g][r]>>
  <2>1. PICK r \in Matching(k) : c = <<3, Exact(r, k), rs.global[g][r]>>
    BY <1>5
  <2>2. rs.global[g][r] = "deny_always"
    BY <1>1, <2>1
  <2>3. r # k => rs.global[g][k] = None
    <3>1. Yields(<<3, 1, rs.global[g][k]>>, c, "deny_always")
      BY <1>1, <1>3, ClaimsAre
    <3> QED BY <3>1, <2>1, <1>3 DEF Yields
  <2>4. ResolveDecision(rs.global[g], k) = "deny_always"
    BY <1>2, <2>2, <2>3, MapDecides
  <2> QED BY <2>4, <1>4 DEF RuleIn
<1>6. CASE \E r \in Matching(k) : c = <<2, Exact(r, k), ag[g][r]>>
  <2>1. PICK r \in Matching(k) : c = <<2, Exact(r, k), ag[g][r]>>
    BY <1>6
  <2>2. ag[g][r] = "deny_always"
    BY <1>1, <2>1
  <2>3. \A q \in Matching(k) : rs.global[g][q] = None
    <3>1. SUFFICES ASSUME NEW q \in Matching(k) PROVE rs.global[g][q] = None
      OBVIOUS
    <3>2. Yields(<<3, Exact(q, k), rs.global[g][q]>>, c, "deny_always")
      BY <1>1, ClaimsAre
    <3> QED BY <3>2, <2>1 DEF Yields
  <2>4. r # k => ag[g][k] = None
    <3>1. Yields(<<2, 1, ag[g][k]>>, c, "deny_always")
      BY <1>1, <1>3, ClaimsAre
    <3> QED BY <3>1, <2>1, <1>3 DEF Yields
  <2>5. /\ ResolveDecision(rs.global[g], k) = None
        /\ ResolveDecision(ag[g], k) = "deny_always"
    BY <1>2, <2>2, <2>3, <2>4, MapDecides
  <2> QED BY <2>5, <1>4 DEF RuleIn
<1>7. CASE c = <<1, 1, rs.session[s][g][k]>>
  <2>1. rs.session[s][g][k] = "deny_always"
    BY <1>1, <1>7
  <2>2. \A q \in Matching(k) : rs.global[g][q] = None /\ ag[g][q] = None
    <3>1. SUFFICES ASSUME NEW q \in Matching(k)
                   PROVE  rs.global[g][q] = None /\ ag[g][q] = None
      OBVIOUS
    <3>2. /\ Yields(<<3, Exact(q, k), rs.global[g][q]>>, c, "deny_always")
          /\ Yields(<<2, Exact(q, k), ag[g][q]>>, c, "deny_always")
      BY <1>1, ClaimsAre
    <3> QED BY <3>2, <1>7 DEF Yields
  <2>3. ResolveDecision(rs.global[g], k) = None /\ ResolveDecision(ag[g], k) = None
    BY <1>2, <2>2, MapDecides
  <2> QED BY <2>1, <2>3 DEF RuleIn
<1>8. \/ \E r \in Matching(k) : c = <<3, Exact(r, k), rs.global[g][r]>>
      \/ \E r \in Matching(k) : c = <<2, Exact(r, k), ag[g][r]>>
      \/ c = <<1, 1, rs.session[s][g][k]>>
  BY DEF Claims, Matching, Exact
<1> QED BY <1>5, <1>6, <1>7, <1>8

\* An approval the store finds is what the rules say.
LEMMA ApprovalIsSaid ==
    ASSUME NEW rs \in RulesData, NEW ag \in RuleMaps, NEW s \in Sessions,
           NEW g \in Guardrails, NEW k \in Keys,
           RuleIn(rs, ag, s, g, k) = "approve_always"
    PROVE  Says("approve_always", rs, ag, s, g, k)
<1> DEFINE C == Claims(rs, ag, s, g, k)
           wins(c) == c[3] = "approve_always" /\ \A e \in C : Yields(e, c, "approve_always")
<1>1. /\ rs.global[g] \in [Stored -> Decisions \cup {None}]
      /\ ag[g] \in [Stored -> Decisions \cup {None}]
      /\ \A r \in Matching(k) : r \in Stored
  BY DEF RulesData, RuleMaps, Matching
<1>2. k \in Matching(k) /\ \A r \in Matching(k) : Exact(r, k) = (IF r = k THEN 1 ELSE 0)
  BY DEF Matching, Exact
<1>3. SUFFICES \E c \in C : wins(c)
  BY DEF Says, Yields
<1>4. ASSUME NEW e \in C
      PROVE  \/ \E r \in Matching(k) : e = <<3, Exact(r, k), rs.global[g][r]>>
             \/ \E r \in Matching(k) : e = <<2, Exact(r, k), ag[g][r]>>
             \/ e = <<1, 1, rs.session[s][g][k]>>
  BY DEF Claims, Matching, Exact

\* The best claim of one level wins when nothing above it says anything.
<1>5. CASE ResolveDecision(rs.global[g], k) = "approve_always"
  <2>1. PICK r \in Matching(k) :
           /\ rs.global[g][r] = "approve_always"
           /\ r # k => /\ rs.global[g][k] = None
                       /\ \A q \in Matching(k) : rs.global[g][q] # "deny_always"
    BY <1>1, <1>2, <1>5, MapDecides
  <2> DEFINE c == <<3, Exact(r, k), rs.global[g][r]>>
  <2>2. c \in C
    BY ClaimsAre
  <2>3. ASSUME NEW e \in C PROVE Yields(e, c, "approve_always")
    <3>1. CASE \E q \in Matching(k) : e = <<3, Exact(q, k), rs.global[g][q]>>
      <4>1. PICK q \in Matching(k) : e = <<3, Exact(q, k), rs.global[g][q]>>
        BY <3>1
      <4>2. rs.global[g][q] \in Decisions \cup {None}
        BY <1>1
      <4> QED BY <4>1, <4>2, <2>1, <1>2 DEF Yields
    <3>2. CASE e[1] < 3
      BY <3>2 DEF Yields
    <3> QED BY <3>1, <3>2, <1>4
  <2> QED BY <2>1, <2>2, <2>3
<1>6. CASE /\ ResolveDecision(rs.global[g], k) = None
           /\ ResolveDecision(ag[g], k) = "approve_always"
  <2>1. PICK r \in Matching(k) :
           /\ ag[g][r] = "approve_always"
           /\ r # k => /\ ag[g][k] = None
                       /\ \A q \in Matching(k) : ag[g][q] # "deny_always"
    BY <1>1, <1>2, <1>6, MapDecides
  <2>2. \A q \in Matching(k) : rs.global[g][q] = None
    BY <1>1, <1>6, MapDecides
  <2> DEFINE c == <<2, Exact(r, k), ag[g][r]>>
  <2>3. c \in C
    BY ClaimsAre
  <2>4. ASSUME NEW e \in C PROVE Yields(e, c, "approve_always")
    <3>1. CASE \E q \in Matching(k) : e = <<3, Exact(q, k), rs.global[g][q]>>
      BY <3>1, <2>2 DEF Yields
    <3>2. CASE \E q \in Matching(k) : e = <<2, Exact(q, k), ag[g][q]>>
      <4>1. PICK q \in Matching(k) : e = <<2, Exact(q, k), ag[g][q]>>
        BY <3>2
      <4>2. ag[g][q] \in Decisions \cup {None}
        BY <1>1
      <4> QED BY <4>1, <4>2, <2>1, <1>2 DEF Yields
    <3>3. CASE e[1] < 2
      BY <3>3 DEF Yields
    <3> QED BY <3>1, <3>2, <3>3, <1>4
  <2> QED BY <2>1, <2>3, <2>4
<1>7. CASE /\ ResolveDecision(rs.global[g], k) = None
           /\ ResolveDecision(ag[g], k) = None
           /\ rs.session[s][g][k] = "approve_always"
  <2>1. \A q \in Matching(k) : rs.global[g][q] = None /\ ag[g][q] = None
    <3>1. \A q \in Matching(k) : rs.global[g][q] = None
      BY <1>1, <1>7, MapDecides
    <3>2. \A q \in Matching(k) : ag[g][q] = None
      BY <1>1, <1>7, MapDecides
    <3> QED BY <3>1, <3>2
  <2> DEFINE c == <<1, 1, rs.session[s][g][k]>>
  <2>2. c \in C
    BY ClaimsAre
  <2>3. ASSUME NEW e \in C PROVE Yields(e, c, "approve_always")
    BY <2>1, <1>4, <1>7 DEF Yields
  <2> QED BY <1>7, <2>2, <2>3
<1> QED BY <1>5, <1>6, <1>7 DEF RuleIn

\* A guardrail whose rule says deny blocks the call it applies to, and one that lets it
\* through by a rule was told so.
LEMMA RuleAgrees ==
    ASSUME TypeOK, NEW s \in Sessions, check[s] # NoCheck, check[s].at \in Guardrails
    PROVE  LET g == check[s].at
               saying(d) == Saying(d, rules, agentRules, s, check[s].call)
           IN /\ g \in saying("deny_always") => Key(s) # None /\ Rule(s) = "deny_always"
              /\ Key(s) # None /\ Rule(s) = "approve_always" => g \in saying("approve_always")
<1>1. check[s].call \in Calls
  BY DEF TypeOK, Checks
<1>2. Key(s) \in Keys \cup {None}
  BY <1>1 DEF Key
<1> QED BY <1>2, DenialDecides, ApprovalIsSaid DEF TypeOK, Saying, Key, Rule

-----------------------------------------------------------------------------
(***************************************************************************)
(* Steps that concern the check of one session, or change the rules.       *)
(***************************************************************************)
SameCheck(t) ==
    /\ check'[t] = check[t] /\ barred'[t] = barred[t]
    /\ blessed'[t] = blessed[t] /\ consent'[t] = consent[t]

\* A session that a step leaves alone, under the same rules, stays in order.
LEMMA OthersStay ==
    ASSUME IInv, NEW t \in Sessions, SameCheck(t), UNCHANGED <<up, rules, agentRules>>
    PROVE  InOrder(t)'
<1>1. InOrder(t)
  BY DEF IInv
<1>2. Key(t)' = Key(t)
  BY DEF SameCheck, Key
<1>3. Placed(t)'
  BY <1>1, <1>2 DEF InOrder, Placed, SameCheck
<1>4. BarredAhead(t)'
  BY <1>1 DEF InOrder, BarredAhead, SameCheck
<1>5. PassedForAReason(t)'
  BY <1>1 DEF InOrder, PassedForAReason, SameCheck
<1> QED BY <1>3, <1>4, <1>5 DEF InOrder

\* What is remembered does not depend on the checks.
LEMMA FileStays ==
    ASSUME IInv, UNCHANGED <<up, rules, fileVars, told>>
    PROVE  Remembered'
BY DEF IInv, Remembered, fileVars, Denied

\* A check that ends is in order whatever happens to the rules.
LEMMA Forgotten ==
    ASSUME IInv, NEW s \in Sessions, ForgetCheck(s)
    PROVE  /\ check' \in [Sessions -> Checks \cup {NoCheck}]
           /\ barred' \in [Sessions -> SUBSET Guardrails]
           /\ blessed' \in [Sessions -> SUBSET Guardrails]
           /\ consent' \in [Sessions -> SUBSET Guardrails]
           /\ \A t \in Sessions \ {s} : SameCheck(t)
           /\ InOrder(s)'
<1>1. /\ check'[s] = NoCheck /\ barred'[s] = {}
      /\ \A t \in Sessions \ {s} : SameCheck(t)
  BY DEF IInv, TypeOK, ForgetCheck, SameCheck
<1>2. check'[s].stage \notin OnKey \cup {"granted"}
  BY <1>1 DEF NoCheck, OnKey, Asking
<1>3. InOrder(s)'
  BY <1>1, <1>2 DEF InOrder, Placed, BarredAhead, PassedForAReason, OnKey
<1> QED BY <1>1, <1>3 DEF IInv, TypeOK, ForgetCheck

LEMMA Ends ==
    ASSUME IInv, NEW s \in Sessions, ForgetCheck(s), UNCHANGED <<up, ruleVars, fileVars, told>>
    PROVE  IInv'
<1>1. TypeOK'
  BY Forgotten DEF IInv, TypeOK, ruleVars, fileVars
<1>2. ASSUME NEW t \in Sessions PROVE InOrder(t)'
  BY Forgotten, OthersStay DEF ruleVars
<1>3. Remembered'
  BY FileStays DEF ruleVars
<1> QED BY <1>1, <1>2, <1>3 DEF IInv

\* A check that goes on.
LEMMA GoesOn ==
    ASSUME IInv, NEW s \in Sessions, UNCHANGED <<up, ruleVars, fileVars, told>>,
           NEW new \in Checks, check' = [check EXCEPT ![s] = new],
           barred' \in [Sessions -> SUBSET Guardrails],
           blessed' \in [Sessions -> SUBSET Guardrails],
           consent' \in [Sessions -> SUBSET Guardrails],
           \A t \in Sessions \ {s} : barred'[t] = barred[t] /\ blessed'[t] = blessed[t]
                                       /\ consent'[t] = consent[t],
           InOrder(s)'
    PROVE  IInv'
<1>1. TypeOK'
  BY DEF IInv, TypeOK, ruleVars, fileVars
<1>2. ASSUME NEW t \in Sessions PROVE InOrder(t)'
  <2>1. CASE t # s
    <3>1. SameCheck(t)
      BY <2>1 DEF SameCheck, IInv, TypeOK
    <3> QED BY <3>1, OthersStay DEF ruleVars
  <2> QED BY <2>1
<1>3. Remembered'
  BY FileStays DEF ruleVars
<1> QED BY <1>1, <1>2, <1>3 DEF IInv

-----------------------------------------------------------------------------
(***************************************************************************)
(* A call is checked.                                                      *)
(***************************************************************************)
LEMMA NoCheckIsNone ==
    ASSUME TypeOK, NEW s \in Sessions, check[s].stage # "none"
    PROVE  check[s] \in Checks /\ check[s] # NoCheck
BY DEF TypeOK, NoCheck, Checks

LEMMA BeginKeeps ==
    ASSUME IInv, NEW s \in Sessions, NEW c \in Calls, NEW m \in Modes, Begin(s, c, m)
    PROVE  IInv'
<1> DEFINE new == [call |-> c, mode |-> m, at |-> 1, approved |-> FALSE, stage |-> "consulting"]
<1>1. new \in Checks /\ new # NoCheck
  BY DEF Checks, Stages, NoCheck
<1>2. /\ check'[s] = new /\ up
      /\ barred'[s] = Saying("deny_always", rules, agentRules, s, c)
      /\ blessed'[s] = Saying("approve_always", rules, agentRules, s, c)
  BY DEF Begin, IInv, TypeOK
<1>3. \A d : Saying(d, rules, agentRules, s, c) \subseteq Guardrails
  BY DEF Saying
<1>4. up' = up /\ rules' = rules /\ agentRules' = agentRules
  BY DEF Begin, ruleVars
<1>5. InOrder(s)'
  <2>1. Placed(s)'
    BY <1>2, <1>4 DEF Placed, OnKey, Asking
  <2>2. BarredAhead(s)'
    BY <1>1, <1>2, <1>3, <1>4 DEF BarredAhead, OnKey, Asking
  <2>3. PassedForAReason(s)'
    BY <1>1, <1>2, <1>4 DEF PassedForAReason
  <2> QED BY <2>1, <2>2, <2>3 DEF InOrder
<1>6. /\ barred' \in [Sessions -> SUBSET Guardrails]
      /\ blessed' \in [Sessions -> SUBSET Guardrails]
      /\ consent' \in [Sessions -> SUBSET Guardrails]
      /\ \A t \in Sessions \ {s} : barred'[t] = barred[t] /\ blessed'[t] = blessed[t]
                                     /\ consent'[t] = consent[t]
  BY <1>3 DEF Begin, IInv, TypeOK
<1> HIDE DEF new
<1>7. check' = [check EXCEPT ![s] = new] /\ UNCHANGED <<up, ruleVars, fileVars, told>>
  BY DEF Begin, new
<1> QED BY <1>1, <1>5, <1>6, <1>7, GoesOn

\* Guardrail by guardrail: whoever lets the call through has a reason, and does not
\* have a rule against it.
LEMMA AllowsKeeps ==
    ASSUME IInv, NEW s \in Sessions, Allows(s)
    PROVE  IInv'
<1> DEFINE new == [check[s] EXCEPT !.at = @ + 1]
<1>1. /\ check[s] \in Checks /\ check[s] # NoCheck /\ InOrder(s)
      /\ check[s].at \in Guardrails /\ check[s].stage = "consulting"
  BY NoCheckIsNone DEF IInv, Allows, Consulting
<1>2. /\ new \in Checks /\ new # NoCheck
      /\ new.at = check[s].at + 1 /\ new.call = check[s].call /\ new.mode = check[s].mode
      /\ new.approved = check[s].approved /\ new.stage = "consulting"
  BY <1>1 DEF Checks, NoCheck
<1>3. /\ check'[s] = new /\ check' = [check EXCEPT ![s] = new]
      /\ UNCHANGED <<up, ruleVars, fileVars, told, barred, blessed, consent>>
  BY DEF Allows, IInv, TypeOK, history
<1> HIDE DEF new
<1>4. check[s].at \notin barred[s]
  BY <1>1, RuleAgrees DEF IInv, InOrder, BarredAhead, Allows, Undecided
<1>5. check[s].mode = "standard" =>
        \/ Key(s) = None
        \/ check[s].at \in blessed[s]
        \/ check[s].approved
  <2>1. CASE Key(s) # None /\ Rule(s) = "approve_always"
    BY <1>1, <2>1, RuleAgrees DEF IInv, InOrder, PassedForAReason
  <2> QED BY <2>1 DEF Allows
<1>6. Placed(s)'
  <2>1. up
    BY DEF Allows, Consulting
  <2> QED BY <1>2, <1>3, <2>1 DEF Placed, OnKey, Asking
<1>7. BarredAhead(s)'
  <2>1. barred[s] \subseteq Guardrails
    BY DEF IInv, TypeOK
  <2> QED BY <1>1, <1>2, <1>3, <1>4, <2>1 DEF InOrder, BarredAhead, OnKey, Asking, ruleVars
<1>8. PassedForAReason(s)'
  <2>1. consent[s] \subseteq Guardrails
    BY DEF IInv, TypeOK
  <2>2. \A g \in Guardrails : g < new.at <=> g < check[s].at \/ g = check[s].at
    BY <1>1, <1>2
  <2> QED BY <1>1, <1>2, <1>3, <1>5, <2>1, <2>2 DEF InOrder, PassedForAReason, ruleVars, Key
<1> QED BY <1>2, <1>3, <1>6, <1>7, <1>8, GoesOn DEF InOrder, IInv, TypeOK

\* Steps that change only the stage.
LEMMA StageKeeps ==
    ASSUME IInv, NEW s \in Sessions, up, check[s].stage # "none",
           NEW to \in Stages \ {"saving_allow"}, check' = [check EXCEPT ![s].stage = to],
           UNCHANGED <<up, ruleVars, fileVars, history>>,
           to \in OnKey => /\ check[s].at \in Guardrails /\ Key(s) \in Keys
                           /\ check[s].at \notin barred[s],
           to \in Asking => rules.session[s][check[s].at][Key(s)] = None,
           to = "granted" => check[s].at = NumGuardrails + 1
    PROVE  IInv'
<1> DEFINE new == [check[s] EXCEPT !.stage = to]
<1>1. check[s] \in Checks /\ check[s] # NoCheck /\ InOrder(s)
  BY NoCheckIsNone DEF IInv
<1>2. /\ new \in Checks /\ new # NoCheck /\ new.stage = to
      /\ new.at = check[s].at /\ new.call = check[s].call /\ new.mode = check[s].mode
      /\ new.approved = check[s].approved
  BY <1>1 DEF Checks, NoCheck
<1>3. /\ check'[s] = new /\ check' = [check EXCEPT ![s] = new]
      /\ UNCHANGED <<up, ruleVars, fileVars, told, barred, blessed, consent>>
  BY DEF IInv, TypeOK, history
<1> HIDE DEF new
<1>4. Placed(s)'
  <2>1. Key(s)' = Key(s) /\ check'[s].stage = to /\ check'[s].at = check[s].at
    BY <1>2, <1>3 DEF Key
  <2>2. up' /\ rules' = rules
    BY <1>3 DEF ruleVars
  <2> QED BY <2>1, <2>2 DEF Placed
<1>5. BarredAhead(s)'
  <2>1. barred[s] \subseteq Guardrails /\ check[s].at \in Nat
    BY <1>1 DEF IInv, TypeOK, Checks
  <2> QED BY <1>1, <1>2, <1>3, <2>1 DEF InOrder, BarredAhead, ruleVars
<1>6. PassedForAReason(s)'
  BY <1>1, <1>2, <1>3 DEF InOrder, PassedForAReason, ruleVars
<1> QED BY <1>2, <1>3, <1>4, <1>5, <1>6, GoesOn DEF InOrder, IInv, TypeOK

LEMMA CheckStepKeeps ==
    ASSUME IInv, NEW s \in Sessions, CheckStep(s)
    PROVE  IInv'
<1>1. CASE Allows(s)
  BY <1>1, AllowsKeeps
<1>2. CASE Denies(s)
  BY <1>2, Ends DEF Denies
<1>3. CASE Asks(s)
  <2>1. /\ check[s] \in Checks /\ check[s] # NoCheck /\ InOrder(s)
        /\ check[s].stage = "consulting" /\ check[s].at \in Guardrails /\ up
    BY <1>3, NoCheckIsNone DEF IInv, Asks, Consulting
  <2>2. Key(s) \in Keys
    BY <1>3, <2>1 DEF Asks, Undecided, Key, Checks
  <2>3. /\ Rule(s) = None /\ Key(s) # None
    BY <1>3 DEF Asks, Undecided
  <2>4. check[s].at \notin barred[s]
    BY <2>1, <2>3, RuleAgrees DEF IInv, InOrder, BarredAhead
  <2>5. rules.session[s][check[s].at][Key(s)] = None
    BY <2>3 DEF Rule, RuleIn
  <2>6. check' = [check EXCEPT ![s].stage = "yielded"] /\ UNCHANGED <<up, ruleVars, fileVars, history>>
    BY <1>3 DEF Asks
  <2> QED BY <2>1, <2>2, <2>4, <2>5, <2>6, StageKeeps DEF Stages, Asking, OnKey
<1>4. CASE Registers(s)
  <2>1. /\ up /\ check[s].stage = "yielded"
        /\ check' = [check EXCEPT ![s].stage = "waiting"] /\ UNCHANGED <<up, ruleVars, fileVars, history>>
    BY <1>4 DEF Registers
  <2>2. InOrder(s) /\ check[s] \in Checks
    BY <2>1, NoCheckIsNone DEF IInv
  <2>3. /\ check[s].at \in Guardrails /\ Key(s) \in Keys
        /\ rules.session[s][check[s].at][Key(s)] = None
    BY <2>1, <2>2 DEF InOrder, Placed, Asking, OnKey
  <2>4. check[s].at \notin barred[s]
    BY <2>1, <2>2, <2>3 DEF InOrder, BarredAhead, Asking, OnKey
  <2> QED BY <2>1, <2>3, <2>4, StageKeeps DEF Stages, Asking, OnKey
<1>5. CASE AllowsAll(s)
  BY <1>5, StageKeeps DEF AllowsAll, Stages, Asking, OnKey
<1> QED BY <1>1, <1>2, <1>3, <1>4, <1>5 DEF CheckStep

Advances(s) ==
    check' = [check EXCEPT ![s].stage = "consulting", ![s].at = @ + 1, ![s].approved = TRUE]

\* The user's word counts for the guardrail that asked: the check is in order at the next.
LEMMA AdvanceKeeps ==
    ASSUME IInv, NEW s \in Sessions, check[s].stage \in OnKey, Advances(s),
           consent' \in [Sessions -> SUBSET Guardrails],
           consent[s] \subseteq consent'[s], check[s].at \in consent'[s],
           UNCHANGED <<up, rules, agentRules, barred, blessed>>
    PROVE  /\ check' \in [Sessions -> Checks \cup {NoCheck}]
           /\ \A t \in Sessions \ {s} : check'[t] = check[t]
           /\ InOrder(s)'
<1> DEFINE again == [check[s] EXCEPT !.stage = "consulting"]
           next == [again EXCEPT !.at = check[s].at + 1]
           new == [next EXCEPT !.approved = TRUE]
<1>1. /\ check[s] \in Checks /\ check[s] # NoCheck /\ InOrder(s)
      /\ check[s].at \in Guardrails /\ up
  <2>1. check[s].stage # "none"
    BY DEF OnKey, Asking
  <2> QED BY <2>1, NoCheckIsNone DEF IInv, InOrder, Placed
<1>2. /\ new \in Checks /\ new # NoCheck
      /\ new.at = check[s].at + 1 /\ new.call = check[s].call /\ new.mode = check[s].mode
      /\ new.stage = "consulting"
  <2>1. /\ again \in Checks /\ again.stage = "consulting"
        /\ again.call = check[s].call /\ again.mode = check[s].mode
    BY <1>1 DEF Checks, Stages
  <2> HIDE DEF again
  <2>2. /\ next \in Checks /\ next.at = check[s].at + 1 /\ next.stage = "consulting"
        /\ next.call = check[s].call /\ next.mode = check[s].mode
    BY <1>1, <2>1 DEF Checks
  <2> HIDE DEF next
  <2>3. /\ new \in Checks /\ new.at = check[s].at + 1 /\ new.stage = "consulting"
        /\ new.call = check[s].call /\ new.mode = check[s].mode
    BY <2>2 DEF Checks
  <2> QED BY <2>3 DEF NoCheck
<1>3. check \in [Sessions -> Checks \cup {NoCheck}]
  BY DEF IInv, TypeOK
<1>4. check' = [check EXCEPT ![s] = new]
  BY <1>3 DEF Advances
<1> HIDE DEF new, next, again
<1>5. check'[s] = new /\ \A t \in Sessions \ {s} : check'[t] = check[t]
  BY <1>3, <1>4
<1>6. check' \in [Sessions -> Checks \cup {NoCheck}]
  BY <1>2, <1>3, <1>4
<1>7. Placed(s)'
  BY <1>1, <1>2, <1>5 DEF Placed, OnKey, Asking
<1>8. BarredAhead(s)'
  <2>1. barred[s] \subseteq Guardrails
    BY DEF IInv, TypeOK
  <2> QED BY <1>1, <1>2, <1>5, <2>1 DEF InOrder, BarredAhead, OnKey, Asking
<1>9. PassedForAReason(s)'
  <2>1. \A g \in Guardrails : g < new.at <=> g < check[s].at \/ g = check[s].at
    BY <1>1, <1>2
  <2>2. check[s].at < new.at /\ check[s].at <= check[s].at
    BY <1>1, <1>2
  <2> QED BY <1>1, <1>2, <1>5, <2>1, <2>2 DEF InOrder, PassedForAReason
<1> QED BY <1>5, <1>6, <1>7, <1>8, <1>9 DEF InOrder

LEMMA ApprovesOnceKeeps ==
    ASSUME IInv, NEW s \in Sessions, ApprovesOnce(s)
    PROVE  IInv'
<1>1. /\ check[s].stage \in OnKey /\ Advances(s)
      /\ UNCHANGED <<up, rules, agentRules, writes, fileVars, barred, blessed, told>>
  BY DEF ApprovesOnce, Waiting, OnKey, Asking, Advances, ruleVars
<1>2. check[s].at \in Guardrails
  BY <1>1 DEF IInv, InOrder, Placed
<1>3. /\ consent' \in [Sessions -> SUBSET Guardrails]
      /\ consent[s] \subseteq consent'[s] /\ check[s].at \in consent'[s]
      /\ \A t \in Sessions \ {s} : consent'[t] = consent[t]
  BY <1>2 DEF ApprovesOnce, IInv, TypeOK
<1>4. /\ check' \in [Sessions -> Checks \cup {NoCheck}]
      /\ \A t \in Sessions \ {s} : check'[t] = check[t]
      /\ InOrder(s)'
  BY <1>1, <1>3, AdvanceKeeps
<1>5. TypeOK'
  BY <1>1, <1>3, <1>4 DEF IInv, TypeOK, fileVars
<1>6. ASSUME NEW t \in Sessions PROVE InOrder(t)'
  BY <1>1, <1>3, <1>4, OthersStay DEF SameCheck
<1>7. Remembered'
  BY <1>1, FileStays
<1> QED BY <1>5, <1>6, <1>7 DEF IInv

-----------------------------------------------------------------------------
(***************************************************************************)
(* Rules change, and the file is written.                                  *)
(***************************************************************************)
LEMMA Followed ==
    ASSUME TypeOK, NEW rs \in RulesData, NEW ag \in RuleMaps, Follow(rs, ag)
    PROVE  /\ barred' \in [Sessions -> SUBSET Guardrails]
           /\ blessed' \in [Sessions -> SUBSET Guardrails]
           /\ \A t \in Sessions :
                /\ check[t] = NoCheck => barred'[t] = {}
                /\ check[t] # NoCheck =>
                     /\ barred'[t] = barred[t] \cap Saying("deny_always", rs, ag, t, check[t].call)
                     /\ blessed'[t] = blessed[t] \cup Saying("approve_always", rs, ag, t, check[t].call)
<1>1. \A d, t, c : Saying(d, rs, ag, t, c) \subseteq Guardrails
  BY DEF Saying
<1> QED BY <1>1 DEF Follow, TypeOK

\* A check that has not moved is in order under the new rules, if the question it
\* has put to the user is still open.
LEMMA RulesChange ==
    ASSUME IInv, NEW rs \in RulesData, NEW ag \in RuleMaps, Follow(rs, ag),
           rules' = rs, agentRules' = ag, up, up', NEW t \in Sessions,
           check'[t] = check[t], consent'[t] = consent[t],
           check[t].stage \in Asking => rs.session[t][check[t].at][Key(t)] = None
    PROVE  InOrder(t)'
<1>1. InOrder(t)
  BY DEF IInv
<1>2. Key(t)' = Key(t)
  BY DEF Key
<1>3. /\ check[t] = NoCheck => barred'[t] = {}
      /\ check[t] # NoCheck =>
           /\ barred'[t] = barred[t] \cap Saying("deny_always", rs, ag, t, check[t].call)
           /\ blessed'[t] = blessed[t] \cup Saying("approve_always", rs, ag, t, check[t].call)
  BY Followed DEF IInv
<1>4. Placed(t)'
  BY <1>1, <1>2 DEF InOrder, Placed
<1>5. BarredAhead(t)'
  BY <1>1, <1>3 DEF InOrder, BarredAhead
<1>6. PassedForAReason(t)'
  BY <1>1, <1>3 DEF InOrder, PassedForAReason
<1> QED BY <1>4, <1>5, <1>6 DEF InOrder

\* When a write begins and no other is under way, it carries the rules as they are.
LEMMA Persisted ==
    ASSUME TypeOK, NEW w \in Writers, NEW rs \in RulesData, Persist(w, rs)
    PROVE  /\ saves' \in [Writers -> Saves \cup {NoSave}]
           /\ clean' \in BOOLEAN /\ disk' = disk
           /\ clean' => /\ clean
                        /\ \A v \in Writers : saves'[v] # NoSave =>
                             saves'[v] = [data |-> rs, mixed |-> FALSE]
<1> DEFINE others == {v \in Writers \ {w} : saves[v] # NoSave}
<1>1. \A v \in others : saves[v] \in Saves
  BY DEF TypeOK
<1>2. (others # {}) \in BOOLEAN
  OBVIOUS
<1>3. \A v \in others : [saves[v] EXCEPT !.mixed = TRUE] \in Saves
  BY <1>1 DEF Saves
<1>4. [data |-> rs, mixed |-> others # {}] \in Saves
  BY <1>2 DEF Saves
<1>5. saves' \in [Writers -> Saves \cup {NoSave}]
  BY <1>3, <1>4 DEF Persist
<1>6. clean' = (clean /\ others = {}) /\ disk' = disk
  BY DEF Persist
<1>7. ASSUME others = {}, NEW v \in Writers, saves'[v] # NoSave
      PROVE  saves'[v] = [data |-> rs, mixed |-> FALSE]
  BY <1>7 DEF Persist
<1> QED BY <1>5, <1>6, <1>7 DEF TypeOK

\* What changes when w begins to write the rules rs, and what that means for the file.
LEMMA WritesKeep ==
    ASSUME IInv, NEW w \in Writers, NEW rs \in RulesData, up, up' = up, rules' = rs,
           Persist(w, rs), told' \subseteq told, Denied(rules, told) => Denied(rs, told')
    PROVE  Remembered'
<1>1. /\ disk' = disk
      /\ clean' => /\ clean
                   /\ \A v \in Writers : saves'[v] # NoSave =>
                        saves'[v] = [data |-> rs, mixed |-> FALSE]
  BY Persisted DEF IInv
<1>2. CASE ~clean'
  BY <1>2 DEF Remembered
<1>3. CASE clean'
  <2>1. Denied(rs, told') /\ (disk # Torn => Denied(disk, told))
    BY <1>1, <1>3 DEF IInv, Remembered
  <2>2. disk # Torn => Denied(disk, told')
    BY <2>1 DEF Denied
  <2> QED BY <1>1, <2>1, <2>2 DEF Remembered
<1> QED BY <1>2, <1>3

SetSessionRule(rs, s, g, k, d) == [rs EXCEPT !.session[s][g][k] = d]

SameButFor(new, rs, s, g, k) ==
    \A t \in Sessions, h \in Guardrails, j \in Keys :
        t # s \/ h # g \/ j # k => new.session[t][h][j] = rs.session[t][h][j]

\* A rule of a session is set: the others stay, and the rules are well typed.
LEMMA SessionRules ==
    ASSUME NEW rs \in RulesData, NEW s \in Sessions, NEW g \in Guardrails, NEW k \in Keys,
           NEW d \in Decisions \cup {None}, NEW new, new = SetSessionRule(rs, s, g, k, d)
    PROVE  /\ new \in RulesData
           /\ new.session[s][g][k] = d
           /\ SameButFor(new, rs, s, g, k)
<1> DEFINE ofGuardrail == [rs.session[s][g] EXCEPT ![k] = d]
           ofSession == [rs.session[s] EXCEPT ![g] = ofGuardrail]
           sessions == [rs.session EXCEPT ![s] = ofSession]
<1>1. rs.session \in SessionMaps /\ rs.global \in RuleMaps
  BY DEF RulesData
<1>2. /\ rs.session[s] \in [Guardrails -> [Keys -> Decisions \cup {None}]]
      /\ rs.session[s][g] \in [Keys -> Decisions \cup {None}]
  BY <1>1 DEF SessionMaps
<1>3. /\ ofGuardrail \in [Keys -> Decisions \cup {None}] /\ ofGuardrail[k] = d
      /\ \A j \in Keys \ {k} : ofGuardrail[j] = rs.session[s][g][j]
  BY <1>2
<1> HIDE DEF ofGuardrail
<1>4. /\ ofSession \in [Guardrails -> [Keys -> Decisions \cup {None}]]
      /\ ofSession[g] = ofGuardrail
      /\ \A h \in Guardrails \ {g} : ofSession[h] = rs.session[s][h]
  BY <1>2, <1>3
<1> HIDE DEF ofSession
<1>5. /\ sessions \in SessionMaps /\ sessions[s] = ofSession
      /\ \A t \in Sessions \ {s} : sessions[t] = rs.session[t]
  BY <1>1, <1>4 DEF SessionMaps
<1>6. new = [rs EXCEPT !.session = sessions]
  BY DEF ofSession, ofGuardrail, SetSessionRule
<1> HIDE DEF sessions
<1>7. new \in RulesData /\ new.session = sessions
  BY <1>1, <1>5, <1>6 DEF RulesData
<1> QED BY <1>3, <1>4, <1>5, <1>7 DEF SameButFor

\* Always: the session's rule is set, and the check waits for the write.
LEMMA AlwaysKeeps ==
    ASSUME IInv, NEW s \in Sessions, NEW d \in Decisions, Always(s, d)
    PROVE  IInv'
<1> DEFINE g == check[s].at
           to == IF d = "approve_always" THEN "saving_allow" ELSE "saving_deny"
           rs == [rules EXCEPT !.session[s][g][Key(s)] = d]
           new == [check[s] EXCEPT !.stage = to]
<1>1. /\ check[s] \in Checks /\ check[s] # NoCheck /\ InOrder(s)
      /\ check[s].stage = "waiting" /\ up
      /\ g \in Guardrails /\ Key(s) \in Keys /\ rules.session[s][g][Key(s)] = None
  BY NoCheckIsNone DEF IInv, InOrder, Placed, Always, Waiting, OnKey, Asking
<1>2. /\ rs \in RulesData
      /\ \A t \in Sessions, h \in Guardrails, j \in Keys :
           t # s \/ h # g \/ j # Key(s) => rs.session[t][h][j] = rules.session[t][h][j]
  <2>1. rs = SetSessionRule(rules, s, g, Key(s), d) /\ rules \in RulesData
    BY DEF IInv, TypeOK, SetSessionRule
  <2>2. g \in Guardrails /\ Key(s) \in Keys /\ d \in Decisions \cup {None}
    BY <1>1
  <2> HIDE DEF rs, g, to, new
  <2>3. rs \in RulesData
    BY <2>1, <2>2, SessionRules
  <2>4. SameButFor(rs, rules, s, g, Key(s))
    BY <2>1, <2>2, SessionRules
  <2> QED BY <2>3, <2>4 DEF SameButFor
<1>3. /\ rules' = rs /\ Persist(s, rs) /\ Follow(rs, agentRules) /\ writes' \in 0..MaxWrites
      /\ UNCHANGED <<up, agentRules, told>>
      /\ check' = [check EXCEPT ![s] = new]
      /\ consent' = IF d = "approve_always" THEN [consent EXCEPT ![s] = @ \cup {g}] ELSE consent
  BY DEF Always, IInv, TypeOK
<1> HIDE DEF rs
<1>4. /\ new \in Checks /\ new # NoCheck /\ new.stage = to /\ to \in OnKey \ Asking
      /\ new.at = g /\ new.call = check[s].call /\ new.mode = check[s].mode
      /\ new.approved = check[s].approved
  BY <1>1 DEF Checks, Stages, NoCheck, OnKey, Asking
<1> HIDE DEF new
<1>5. /\ check'[s] = new /\ \A t \in Sessions \ {s} : check'[t] = check[t]
      /\ check' \in [Sessions -> Checks \cup {NoCheck}]
  BY <1>3, <1>4 DEF IInv, TypeOK
<1>6. /\ consent' \in [Sessions -> SUBSET Guardrails]
      /\ consent[s] \subseteq consent'[s]
      /\ to = "saving_allow" => g \in consent'[s]
      /\ \A t \in Sessions \ {s} : consent'[t] = consent[t]
  BY <1>1, <1>3 DEF IInv, TypeOK
<1>7. /\ barred' \in [Sessions -> SUBSET Guardrails]
      /\ blessed' \in [Sessions -> SUBSET Guardrails]
      /\ barred'[s] = barred[s] \cap Saying("deny_always", rs, agentRules, s, check[s].call)
      /\ blessed'[s] = blessed[s] \cup Saying("approve_always", rs, agentRules, s, check[s].call)
  BY <1>1, <1>2, <1>3, Followed DEF IInv, TypeOK
<1>8. TypeOK'
  BY <1>2, <1>3, <1>5, <1>6, <1>7, Persisted DEF IInv, TypeOK
<1>9. InOrder(s)'
  <2>1. Placed(s)'
    BY <1>1, <1>3, <1>4, <1>5 DEF Placed, Key, OnKey, Asking
  <2>2. BarredAhead(s)'
    BY <1>1, <1>3, <1>4, <1>5, <1>7 DEF InOrder, BarredAhead, OnKey, Asking
  <2>3. PassedForAReason(s)'
    BY <1>1, <1>3, <1>4, <1>5, <1>6, <1>7 DEF InOrder, PassedForAReason
  <2> QED BY <2>1, <2>2, <2>3 DEF InOrder
<1>10. ASSUME NEW t \in Sessions \ {s} PROVE InOrder(t)'
  <2>1. check[t].stage \in Asking => check[t].at \in Guardrails /\ Key(t) \in Keys
                                       /\ rules.session[t][check[t].at][Key(t)] = None
    BY DEF IInv, InOrder, Placed, OnKey
  <2>2. check[t].stage \in Asking => rs.session[t][check[t].at][Key(t)] = None
    BY <1>2, <2>1
  <2> QED BY <1>1, <1>2, <1>3, <1>5, <1>6, <2>2, RulesChange DEF IInv, TypeOK
<1>11. Remembered'
  <2>1. ASSUME Denied(rules, told) PROVE Denied(rs, told)
    <3>1. ASSUME NEW x \in told PROVE rs.session[x[1]][x[2]][x[3]] = "deny_always"
      <4>1. x \in Sessions \X Guardrails \X Keys
        BY DEF IInv, TypeOK
      <4>2. rules.session[x[1]][x[2]][x[3]] = "deny_always"
        BY <2>1 DEF Denied
      <4>3. x[1] # s \/ x[2] # g \/ x[3] # Key(s)
        BY <1>1, <4>2
      <4> QED BY <1>2, <4>1, <4>2, <4>3
    <3> QED BY <3>1 DEF Denied
  <2> QED BY <1>1, <1>2, <1>3, <2>1, WritesKeep
<1> QED BY <1>8, <1>9, <1>10, <1>11 DEF IInv

\* The REST API changes the rules; no session gets a rule of its own from it.
LEMMA ApiKeeps ==
    ASSUME IInv, NEW rs \in RulesData, ApiWrites(rs), told' \subseteq told,
           Denied(rules, told) => Denied(rs, told'),
           \A s \in Sessions : rs.session[s] \in {rules.session[s], NoRules.session[s]}
    PROVE  IInv'
<1>1. /\ up /\ up' = up /\ rules' = rs /\ Persist(Api, rs) /\ Follow(rs, agentRules)
      /\ UNCHANGED <<agentRules, check, consent>> /\ writes' \in 0..MaxWrites
  BY DEF ApiWrites, IInv, TypeOK
<1>2. TypeOK'
  BY <1>1, Persisted, Followed DEF IInv, TypeOK
<1>3. ASSUME NEW t \in Sessions PROVE InOrder(t)'
  <2>1. check[t].stage \in Asking => check[t].at \in Guardrails /\ Key(t) \in Keys
                                       /\ rules.session[t][check[t].at][Key(t)] = None
    BY DEF IInv, InOrder, Placed, OnKey
  <2>2. check[t].stage \in Asking => rs.session[t][check[t].at][Key(t)] = None
    BY <2>1 DEF NoRules
  <2> QED BY <1>1, <2>2, RulesChange DEF IInv, TypeOK
<1>4. Remembered'
  BY <1>1, WritesKeep
<1> QED BY <1>2, <1>3, <1>4 DEF IInv

LEMMA MapUpdate ==
    ASSUME NEW map \in RuleMaps, NEW g \in Guardrails, NEW k \in Stored,
           NEW d \in Decisions \cup {None}
    PROVE  [map EXCEPT ![g][k] = d] \in RuleMaps
BY DEF RuleMaps

LEMMA SetGlobalKeeps ==
    ASSUME IInv, NEW g \in Guardrails, NEW k \in Stored, NEW d \in Decisions \cup {None},
           ApiWrites([rules EXCEPT !.global[g][k] = d]), told' = told
    PROVE  IInv'
<1> DEFINE map == [rules.global EXCEPT ![g][k] = d]
           rs == [rules EXCEPT !.global = map]
<1>1. rules \in RulesData /\ rules.global \in RuleMaps
  BY DEF IInv, TypeOK, RulesData
<1>2. map \in RuleMaps
  BY <1>1, MapUpdate
<1>3. ApiWrites(rs)
  OBVIOUS
<1> HIDE DEF map
<1>4. rs \in RulesData /\ rs.session = rules.session
  BY <1>1, <1>2 DEF RulesData
<1> HIDE DEF rs
<1>5. Denied(rules, told) => Denied(rs, told')
  BY <1>4 DEF Denied
<1> QED BY <1>3, <1>4, <1>5, ApiKeeps

LEMMA ClearKeeps ==
    ASSUME IInv, NEW s \in Sessions, ClearSessionRules(s)
    PROVE  IInv'
<1> DEFINE none == NoRules.session[s]
           sessions == [rules.session EXCEPT ![s] = none]
           rs == [rules EXCEPT !.session = sessions]
<1>1. rules \in RulesData /\ rules.session \in SessionMaps
  BY DEF IInv, TypeOK, RulesData
<1>2. none \in [Guardrails -> [Keys -> Decisions \cup {None}]]
  BY DEF NoRules
<1>3. ApiWrites(rs) /\ told' = {t \in told : t[1] # s}
  BY DEF ClearSessionRules
<1>4. /\ sessions \in SessionMaps
      /\ sessions[s] = NoRules.session[s]
      /\ \A t \in Sessions \ {s} : sessions[t] = rules.session[t]
  BY <1>1, <1>2 DEF SessionMaps
<1> HIDE DEF none, sessions
<1>5. rs \in RulesData /\ rs.session = sessions
  BY <1>1, <1>4 DEF RulesData
<1> HIDE DEF rs
<1>6. \A t \in Sessions : rs.session[t] \in {rules.session[t], NoRules.session[t]}
  BY <1>4, <1>5
<1>7. ASSUME Denied(rules, told) PROVE Denied(rs, told')
  <2>1. \A x \in told' : x \in told /\ x[1] \in Sessions \ {s}
    BY <1>3 DEF IInv, TypeOK
  <2> QED BY <1>4, <1>5, <1>7, <2>1 DEF Denied
<1> QED BY <1>3, <1>5, <1>6, <1>7, ApiKeeps

LEMMA UpdateAgentKeeps ==
    ASSUME IInv, NEW g \in Guardrails, NEW k \in Stored, NEW d \in Decisions \cup {None},
           UpdateAgent(g, k, d)
    PROVE  IInv'
<1> DEFINE ag == [agentRules EXCEPT ![g][k] = d]
<1>1. ag \in RuleMaps
  BY MapUpdate DEF IInv, TypeOK
<1>2. /\ up /\ agentRules' = ag /\ Follow(rules, ag) /\ writes' \in 0..MaxWrites
      /\ UNCHANGED <<up, rules, fileVars, check, consent, told>>
  BY DEF UpdateAgent, IInv, TypeOK
<1> HIDE DEF ag
<1>3. TypeOK'
  BY <1>1, <1>2, Followed DEF IInv, TypeOK, fileVars
<1>4. ASSUME NEW t \in Sessions PROVE InOrder(t)'
  <2>1. check[t].stage \in Asking => rules.session[t][check[t].at][Key(t)] = None
    BY DEF IInv, InOrder, Placed
  <2> QED BY <1>1, <1>2, <2>1, RulesChange DEF IInv, TypeOK
<1>5. Remembered'
  BY <1>2, FileStays
<1> QED BY <1>3, <1>4, <1>5 DEF IInv

-----------------------------------------------------------------------------
(***************************************************************************)
(* A write ends, the process dies and comes back.                          *)
(***************************************************************************)
LEMMA SavedKeeps ==
    ASSUME IInv, NEW w \in Writers, Saved(w)
    PROVE  IInv'
<1>1. /\ up /\ saves[w] # NoSave /\ UNCHANGED <<up, ruleVars, clean>>
      /\ disk' \in {saves[w].data} \cup (IF saves[w].mixed THEN {Torn} ELSE {})
      /\ saves' = [saves EXCEPT ![w] = NoSave] /\ Resume(w)
  BY DEF Saved
<1>2. saves[w] \in Saves /\ saves' \in [Writers -> Saves \cup {NoSave}] /\ disk' \in RulesData \cup {Torn}
  BY <1>1 DEF IInv, TypeOK, Saves
<1>3. /\ check' \in [Sessions -> Checks \cup {NoCheck}]
      /\ barred' \in [Sessions -> SUBSET Guardrails]
      /\ blessed' \in [Sessions -> SUBSET Guardrails]
      /\ consent' \in [Sessions -> SUBSET Guardrails]
      /\ told' \subseteq Sessions \X Guardrails \X Keys
      /\ \A x \in told' : x \in told \/ rules.session[x[1]][x[2]][x[3]] = "deny_always"
      /\ \A t \in Sessions : InOrder(t)'
  <2>1. CASE w \in Sessions /\ check[w].stage = "saving_allow"
    <3>1. Advances(w) /\ UNCHANGED history /\ check[w].stage \in OnKey
      BY <1>1, <2>1 DEF Resume, Advances, OnKey
    <3>2. check[w].at \in consent[w]
      BY <2>1, NoCheckIsNone DEF IInv, InOrder, PassedForAReason
    <3>3. UNCHANGED <<barred, blessed, consent, told>> /\ consent \in [Sessions -> SUBSET Guardrails]
      BY <3>1 DEF history, IInv, TypeOK
    <3>4. /\ check' \in [Sessions -> Checks \cup {NoCheck}]
          /\ \A t \in Sessions \ {w} : check'[t] = check[t]
          /\ InOrder(w)'
      BY <1>1, <2>1, <3>1, <3>2, <3>3, AdvanceKeeps DEF ruleVars
    <3>5. \A t \in Sessions \ {w} : InOrder(t)'
      BY <1>1, <3>3, <3>4, OthersStay DEF SameCheck, ruleVars
    <3> QED BY <3>3, <3>4, <3>5 DEF IInv, TypeOK
  <2>2. CASE w \in Sessions /\ check[w].stage = "saving_deny"
    <3>1. /\ ForgetCheck(w)
          /\ told' = IF rules.session[w][check[w].at][Key(w)] = "deny_always"
                     THEN told \cup {<<w, check[w].at, Key(w)>>} ELSE told
      BY <1>1, <2>2 DEF Resume
    <3>2. check[w].at \in Guardrails /\ Key(w) \in Keys
      BY <2>2 DEF IInv, InOrder, Placed, OnKey
    <3>3. \A t \in Sessions : InOrder(t)'
      BY <1>1, <2>2, <3>1, Forgotten, OthersStay DEF ruleVars
    <3> QED BY <2>2, <3>1, <3>2, <3>3, Forgotten DEF IInv, TypeOK
  <2>3. CASE /\ ~(w \in Sessions /\ check[w].stage = "saving_allow")
             /\ ~(w \in Sessions /\ check[w].stage = "saving_deny")
    <3>1. UNCHANGED <<check, history>>
      BY <1>1, <2>3 DEF Resume
    <3> QED BY <1>1, <3>1, OthersStay DEF IInv, TypeOK, SameCheck, history, ruleVars
  <2> QED BY <2>1, <2>2, <2>3
<1>4. TypeOK'
  BY <1>1, <1>2, <1>3 DEF IInv, TypeOK, ruleVars
<1>5. Remembered'
  <2>1. CASE ~clean
    BY <1>1, <2>1 DEF Remembered
  <2>2. CASE clean
    <3>1. Denied(rules, told) /\ saves[w] = [data |-> rules, mixed |-> FALSE]
      BY <1>1, <2>2 DEF IInv, Remembered
    <3>2. Denied(rules, told')
      BY <1>3, <3>1 DEF Denied
    <3>3. disk' = rules
      BY <1>1, <3>1
    <3>4. \A v \in Writers : saves'[v] # NoSave => saves'[v] = [data |-> rules, mixed |-> FALSE]
      BY <1>1, <2>2 DEF IInv, TypeOK, Remembered
    <3> QED BY <1>1, <3>2, <3>3, <3>4 DEF Remembered, ruleVars
  <2> QED BY <2>1, <2>2 DEF IInv, TypeOK
<1> QED BY <1>3, <1>4, <1>5 DEF IInv

LEMMA SaveFailsKeeps ==
    ASSUME IInv, NEW w \in Writers, SaveFails(w)
    PROVE  IInv'
<1>1. /\ up /\ UNCHANGED <<up, ruleVars>> /\ clean' = FALSE
      /\ disk' \in {disk, Torn} /\ saves' = [saves EXCEPT ![w] = NoSave]
      /\ told' = told
      /\ \/ w \in Sessions /\ ForgetCheck(w)
         \/ UNCHANGED <<check, history>>
  BY DEF SaveFails, history
<1>2. saves' \in [Writers -> Saves \cup {NoSave}] /\ disk' \in RulesData \cup {Torn}
  BY <1>1 DEF IInv, TypeOK
<1>3. TypeOK' /\ \A t \in Sessions : InOrder(t)'
  <2>1. CASE w \in Sessions /\ ForgetCheck(w)
    BY <1>1, <1>2, <2>1, Forgotten, OthersStay DEF IInv, TypeOK, ruleVars
  <2>2. CASE UNCHANGED <<check, history>>
    BY <1>1, <1>2, <2>2, OthersStay DEF IInv, TypeOK, ruleVars, history, SameCheck
  <2> QED BY <1>1, <2>1, <2>2
<1>4. Remembered'
  BY <1>1 DEF Remembered
<1> QED BY <1>3, <1>4 DEF IInv

\* A process that is down checks nothing.
LEMMA Idle ==
    ASSUME NEW s \in Sessions, check'[s] = NoCheck, barred'[s] = {}
    PROVE  InOrder(s)'
<1>1. check'[s].stage = "none"
  BY DEF NoCheck
<1> QED BY <1>1 DEF InOrder, Placed, BarredAhead, PassedForAReason, OnKey, Asking

LEMMA CrashKeeps ==
    ASSUME IInv, Crash
    PROVE  IInv'
<1>1. /\ up /\ up' = FALSE /\ saves' = [w \in Writers |-> NoSave]
      /\ check' = [s \in Sessions |-> NoCheck] /\ barred' = [s \in Sessions |-> {}]
      /\ blessed' = [s \in Sessions |-> {}] /\ consent' = [s \in Sessions |-> {}]
      /\ UNCHANGED <<ruleVars, told, clean>>
      /\ \/ disk' = disk
         \/ \E w \in Writers : saves[w] # NoSave /\ disk' = saves[w].data
         \/ disk' = Torn
  BY DEF Crash
<1>2. disk' \in RulesData \cup {Torn}
  BY <1>1 DEF IInv, TypeOK, Saves
<1>3. TypeOK'
  BY <1>1, <1>2 DEF IInv, TypeOK, ruleVars
<1>4. ASSUME NEW s \in Sessions PROVE InOrder(s)'
  BY <1>1, Idle
<1>5. Remembered'
  <2>1. clean /\ disk' # Torn => disk' = disk \/ disk' = rules
    BY <1>1 DEF IInv, Remembered
  <2> QED BY <1>1, <2>1 DEF IInv, Remembered
<1> QED BY <1>3, <1>4, <1>5 DEF IInv

LEMMA BootKeeps ==
    ASSUME IInv, Boot
    PROVE  IInv'
<1>1. /\ ~up /\ disk # Torn /\ up' = TRUE /\ rules' = disk
      /\ UNCHANGED <<agentRules, writes, fileVars, check, barred, blessed, consent, told>>
  BY DEF Boot, history
<1>2. TypeOK'
  BY <1>1 DEF IInv, TypeOK, fileVars
<1>3. ASSUME NEW s \in Sessions PROVE InOrder(s)'
  <2>1. check[s] = NoCheck /\ barred[s] = {}
    BY <1>1 DEF IInv, InOrder, Placed, BarredAhead, TypeOK
  <2> QED BY <1>1, <2>1, Idle
<1>4. Remembered'
  BY <1>1 DEF IInv, Remembered, fileVars
<1> QED BY <1>2, <1>3, <1>4 DEF IInv

LEMMA Initially == Init => IInv
<1> SUFFICES ASSUME Init PROVE IInv
  OBVIOUS
<1>1. NoRules \in RulesData /\ NoRules.global \in RuleMaps
  BY DEF NoRules, RulesData, RuleMaps, SessionMaps
<1>2. TypeOK
  BY <1>1 DEF Init, TypeOK
<1>3. ASSUME NEW s \in Sessions PROVE InOrder(s)
  <2>1. check[s] = NoCheck /\ barred[s] = {} /\ check[s].stage = "none" /\ up
    BY DEF Init, NoCheck
  <2> QED BY <2>1 DEF InOrder, Placed, BarredAhead, PassedForAReason, OnKey, Asking
<1>4. Remembered
  BY DEF Init, Remembered, Denied
<1> QED BY <1>2, <1>3, <1>4 DEF IInv

LEMMA StepKeeps == IInv /\ [Next]_vars => IInv'
<1> SUFFICES ASSUME IInv, [Next]_vars PROVE IInv'
  OBVIOUS
<1>1. ASSUME NEW s \in Sessions, NEW c \in Calls, NEW m \in Modes, Begin(s, c, m) PROVE IInv'
  BY <1>1, BeginKeeps
<1>2. ASSUME NEW s \in Sessions, CheckStep(s) PROVE IInv'
  BY <1>2, CheckStepKeeps
<1>3. ASSUME NEW s \in Sessions, Executes(s) \/ Abandoned(s) \/ DeniesOnce(s) PROVE IInv'
  BY <1>3, Ends DEF Executes, Abandoned, DeniesOnce
<1>4. ASSUME NEW s \in Sessions, ApprovesOnce(s) PROVE IInv'
  BY <1>4, ApprovesOnceKeeps
<1>5. ASSUME NEW s \in Sessions, NEW d \in Decisions, Always(s, d) PROVE IInv'
  BY <1>5, AlwaysKeeps
<1>6. ASSUME NEW w \in Writers, Saved(w) \/ SaveFails(w) PROVE IInv'
  BY <1>6, SavedKeeps, SaveFailsKeeps
<1>7. ASSUME NEW g \in Guardrails, NEW k \in Stored, NEW d \in Decisions, SetGlobalRule(g, k, d)
      PROVE  IInv'
  BY <1>7, SetGlobalKeeps DEF SetGlobalRule
<1>8. ASSUME NEW g \in Guardrails, NEW k \in Stored, DeleteGlobalRule(g, k) PROVE IInv'
  BY <1>8, SetGlobalKeeps DEF DeleteGlobalRule
<1>9. ASSUME NEW s \in Sessions, ClearSessionRules(s) PROVE IInv'
  BY <1>9, ClearKeeps
<1>10. ASSUME NEW g \in Guardrails, NEW k \in Stored, NEW d \in Decisions \cup {None},
              UpdateAgent(g, k, d)
       PROVE  IInv'
  BY <1>10, UpdateAgentKeeps
<1>11. CASE Crash
  BY <1>11, CrashKeeps
<1>12. CASE Boot
  BY <1>12, BootKeeps
<1>13. CASE UNCHANGED vars
  <2>1. UNCHANGED <<up, rules, agentRules, writes, disk, saves, clean, check, barred, blessed, consent, told>>
    BY <1>13 DEF vars, ruleVars, fileVars, history
  <2>2. TypeOK'
    BY <2>1 DEF IInv, TypeOK
  <2> QED BY <2>1, <2>2, OthersStay, FileStays DEF IInv, SameCheck, fileVars
<1> QED BY <1>1, <1>2, <1>3, <1>4, <1>5, <1>6, <1>7, <1>8, <1>9, <1>10, <1>11, <1>12, <1>13 DEF Next

-----------------------------------------------------------------------------
LEMMA Invariance == Spec => []IInv
BY Initially, StepKeeps, PTL DEF Spec

\* No tool runs against a rule that stood throughout its check, and none without a
\* rule or the user's word from every guardrail it concerns.
THEOREM Lawful == Spec => []CallsAreLawful
<1>1. IInv => CallsAreLawful
  <2> SUFFICES ASSUME IInv PROVE CallsAreLawful
    OBVIOUS
  <2>1. ASSUME NEW s \in Sessions, check[s].stage = "granted"
        PROVE  /\ check[s] # NoCheck /\ InOrder(s) /\ barred[s] \subseteq Guardrails
               /\ \A g \in Guardrails : g < check[s].at /\ ~(g >= check[s].at)
    BY <2>1, NoCheckIsNone DEF IInv, TypeOK, InOrder, Placed
  <2>2. NeverAgainstTheRules
    BY <2>1 DEF NeverAgainstTheRules, InOrder, BarredAhead
  <2>3. RuleOrConsent
    BY <2>1 DEF RuleOrConsent, InOrder, PassedForAReason
  <2> QED BY <2>2, <2>3 DEF CallsAreLawful, IInv
<1> QED BY <1>1, Invariance, PTL

\* A denial the agent was told is permanent outlives crashes, as long as no two writes
\* of the rules' file overlapped and none failed.
THEOREM DenialsStay == Spec => []DenialsAreRemembered
<1>1. IInv => DenialsAreRemembered
  BY DEF IInv, Remembered, DenialsAreRemembered
<1> QED BY <1>1, Invariance, PTL
=============================================================================
