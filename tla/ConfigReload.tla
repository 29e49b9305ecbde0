----------------------------- MODULE ConfigReload -----------------------------
(***************************************************************************)
(* Hot reload of agents, skills and workflows: the file watcher and the    *)
(* updaters AgentConfigUpdater, SkillsUpdater and WorkFlowUpdater, the REST *)
(* handlers and tools that change the same files and registries, and the   *)
(* start of the process.                                                   *)
(*                                                                         *)
(* Agents share one file, a list of entries; a skill and a workflow have a *)
(* file each, whose content is a number.  writeFile is awaited and nothing *)
(* orders two of them: a file is torn from the start of a write to its     *)
(* end, and writes that met leave one content, or none that can be parsed. *)
(*                                                                         *)
(* A running agent holds objects, not names: the version of a skill or     *)
(* workflow it was given, and the number of the Agent object that was      *)
(* registered as its sub-agent.                                            *)
(***************************************************************************)
EXTENDS Naturals, Sequences, SequencesExt

CONSTANTS
    Agents,       \* ids of agents
    Skills,       \* names of skills
    Flows,        \* ids of workflows
    Drafts,       \* bound: the entries anybody may write
    Beginnings,   \* bound: the agents' files the process may find, or somebody mends
    Seed,         \* defaultAgents, written when the agents' file has no entry
    AgentsFile,   \* the name of the agents' file
    NoPrint,      \* no fingerprint
    MaxChanges,   \* bound: changes by hand, by the API and by tools
    MaxHandlers,  \* bound: handlers of one process under way together
    MaxRestarts   \* bound: restarts

Parts == Skills \cup Flows
Names == Agents \cup Parts
Files == Parts \cup {AgentsFile}
Categories == {Agents, Skills, Flows}

Versions == 1..2
Missing  == 0    \* no file; not registered; not held
Torn     == 3    \* a file that is being written

Entry == [id : Agents, text : Versions, uses : SUBSET Names]
Agent == [object : Nat, text : Versions, holds : [Names -> Nat]]

ASSUME ConfigReloadAssumption ==
    /\ Agents \cap Skills = {} /\ Agents \cap Flows = {} /\ Skills \cap Flows = {}
    /\ AgentsFile \notin Parts
    /\ NoPrint \notin Entry \cup Versions
    /\ Drafts \subseteq Entry
    \* An id that is listed twice is left out: only a hand could write it.
    /\ Beginnings \subseteq {list \in Seq(Drafts) :
           \A i, j \in DOMAIN list : list[i].id = list[j].id => i = j}
    /\ Seed \in Beginnings

VARIABLES
    entries,     \* the agents' file: RawAgentConfig by position, as it could be parsed last
    half,        \* load throws for the agents' file: it is being written, or writes met on it
    content,     \* the files of skills and workflows
    registries,  \* SkillRegistry and WorkFlowRegistry
    agents,      \* AgentRegistry: what is registered, by id
    built,       \* how often Agent objects were made so far, to tell them apart
    prints,      \* the updaters' fingerprints
    pending,     \* events of a file that were not emitted yet
    handlers,    \* handlers that have read their file, in the order of their events
    ops,         \* requests and tool calls between two awaits, by number
    writing,     \* those that are writing the agents' file
    met,         \* those whose write of a file met another's
    changes,     \* changes so far
    restarts,    \* restarts so far
    unseen,      \* history: names the API changed in a registry, until their updater takes them over
    severed,     \* history: names whose object the API took out of the registry under its holders
    raced        \* history: an older reading was applied after a newer one, or after what it rests on

store == <<entries, half>>
disk == <<store, content>>
writes == <<writing, met>>
memory == <<registries, agents, built, prints>>
history == <<unseen, severed, raced>>
reloadVars == <<disk, memory, pending, handlers, ops, writes, changes, restarts, history>>

-----------------------------------------------------------------------------
(***************************************************************************)
(* Operators of the updaters and the repositories.                         *)
(***************************************************************************)
Ids(list) == {list[i].id : i \in DOMAIN list}
PlaceOf(list, a) == CHOOSE i \in DOMAIN list : list[i].id = a
EntryOf(list, a) == list[PlaceOf(list, a)]

\* JsonRawAgentConfigRepository.create: in its place, or at the end.
Put(list, e) ==
    IF e.id \in Ids(list)
    THEN [i \in DOMAIN list |-> IF list[i].id = e.id THEN e ELSE list[i]]
    ELSE Append(list, e)
Without(list, a) == RemoveAt(list, PlaceOf(list, a))

\* JsonRawAgentConfigRepository.update: the old entry keeps what the new one has no key for.
Patched(old, e) ==
    [e EXCEPT !.uses = @ \cup {n \in old.uses : \A K \in Categories : n \in K => @ \cap K = {}}]

\* What is registered under a name: a version, or the number of an object.
Registered(n, parts, objects) ==
    IF n \in Parts THEN parts[n] ELSE IF n \in DOMAIN objects THEN objects[n] ELSE Missing
Objects(as) == [a \in DOMAIN as |-> as[a].object]

\* hydrateAgentConfig: a name that nothing is registered for is left out.
Hydrated(e, parts, objects) ==
    [object |-> built + 1, text |-> e.text,
     holds |-> [n \in Names |-> IF n \in e.uses THEN Registered(n, parts, objects) ELSE Missing]]

\* Agent.update with a hydrated config, which has no key for an empty category:
\* the agent keeps what it had there.
Merged(old, new) ==
    [old EXCEPT !.text = new.text, !.holds = [n \in Names |->
        LET K == CHOOSE K \in Categories : n \in K IN
        IF \E m \in K : new.holds[m] # Missing THEN new.holds[n] ELSE @[n]]]

\* AgentRegistry.register, or Agent.update when the agent is there.
Enrolled(as, a, new) == [b \in DOMAIN as \cup {a} |-> IF b = a THEN new ELSE as[b]]
Updated(as, a, new) == IF a \in DOMAIN as THEN Merged(as[a], new) ELSE new
Drop(as, gone) == [a \in DOMAIN as \ gone |-> as[a]]
Counted(as) == IF DOMAIN as \subseteq DOMAIN agents THEN built ELSE built + 1

\* Whoever holds one of the names holds something else from now on.
Given(as, ns, new) ==
    [a \in DOMAIN as |-> [as[a] EXCEPT !.holds =
        [n \in Names |-> IF n \in ns /\ @[n] # Missing THEN new[n] ELSE @[n]]]]
\* Unregistering without telling the agents.
BadTakenFrom(as, ns) == as
TakenFrom(as, ns) == Given(as, ns, [n \in ns |-> Missing])

\* Forgetting the objects but not the fingerprints.
BadForgotten(ns) == prints
Forgotten(ns) == [n \in Names |-> IF n \in ns THEN NoPrint ELSE prints[n]]
Readable(p) == IF content[p] = Torn THEN Missing ELSE content[p]

\* chokidar, after a write and after a removal: what was not emitted yet is replaced.
Written(f) == [pending EXCEPT ![f] =
    IF @ # <<>> /\ Head(@) = "unlink" THEN <<"unlink", "upsert">> ELSE <<"upsert">>]
Removed(f) == [pending EXCEPT ![f] = <<"unlink">>]

-----------------------------------------------------------------------------
(***************************************************************************)
(* The start: skills, then agents in the order of their file, then         *)
(* workflows, which no agent can hold yet.  Fingerprints are empty and the *)
(* watcher ignores what is there.                                          *)
(***************************************************************************)
Booted(list) ==
    LET skills == [p \in Parts |-> IF p \in Skills THEN Readable(p) ELSE Missing]
        before(a) == [b \in {list[i].id : i \in 1..PlaceOf(list, a) - 1} |-> 1]
    IN  [a \in Ids(list) |->
            [Hydrated(EntryOf(list, a), skills, before(a)) EXCEPT !.object = 1]]

Boot(list) ==
    /\ registries' = [p \in Parts |-> Readable(p)]
    /\ agents' = Booted(list) /\ built' = 1
    /\ prints' = [n \in Names |-> NoPrint]
    /\ pending' = [f \in Files |-> <<>>]
    /\ handlers' = <<>> /\ ops' = [i \in {} |-> <<>>] /\ writing' = {} /\ met' = {}
    /\ unseen' = {} /\ severed' = {} /\ raced' = FALSE

ReloadInit ==
    /\ entries \in Beginnings /\ half = FALSE
    /\ content = [p \in Parts |-> 1]
    /\ registries = content
    /\ built = 1 /\ agents = Booted(entries)
    /\ prints = [n \in Names |-> NoPrint]
    /\ pending = [f \in Files |-> <<>>]
    /\ handlers = <<>> /\ ops = [i \in {} |-> <<>>] /\ writing = {} /\ met = {}
    /\ changes = 0 /\ restarts = 0
    /\ unseen = {} /\ severed = {} /\ raced = FALSE

\* A crash and the next start, which an agents' file that load throws for prevents until
\* somebody mends it (index.ts:293), and which writes the default agents where there is none.
Restart ==
    /\ restarts < MaxRestarts
    /\ restarts' = restarts + 1
    /\ \E list \in IF half THEN Beginnings ELSE IF entries = <<>> THEN {Seed} ELSE {entries} :
          Boot(list) /\ entries' = list
    /\ half' = FALSE
    /\ UNCHANGED <<content, changes>>

Change == changes < MaxChanges /\ changes' = changes + 1

-----------------------------------------------------------------------------
(***************************************************************************)
(* Writes of one file by requests and tools, and changes by hand, which    *)
(* replace what a file holds, but not while a request is writing it.       *)
(***************************************************************************)
Writers(f) ==
    {i \in DOMAIN ops : IF f = AgentsFile THEN i \in writing
                        ELSE ops[i].kind = "part" /\ ops[i].name = f}

\* The write of the op i begins while others of the file are under way.
Meet(f, i) == met' = IF Writers(f) = {} THEN met ELSE met \cup Writers(f) \cup {i}

EditEntry(e) ==
    /\ Writers(AgentsFile) = {} /\ Change
    /\ entries' = Put(entries, e) /\ (entries' # entries \/ half) /\ half' = FALSE
    /\ pending' = Written(AgentsFile)
    /\ UNCHANGED <<content, memory, handlers, ops, writes, restarts, history>>

RemoveEntry(a) ==
    /\ a \in Ids(entries) /\ Writers(AgentsFile) = {} /\ Change
    /\ entries' = Without(entries, a) /\ half' = FALSE
    /\ pending' = Written(AgentsFile)
    /\ UNCHANGED <<content, memory, handlers, ops, writes, restarts, history>>

RemoveAgentsFile ==
    /\ entries # <<>> /\ Writers(AgentsFile) = {} /\ Change
    /\ entries' = <<>> /\ half' = FALSE
    /\ pending' = Removed(AgentsFile)
    /\ UNCHANGED <<content, memory, handlers, ops, writes, restarts, history>>

EditPart(p, v) ==
    /\ content[p] # v /\ Writers(p) = {} /\ Change
    /\ content' = [content EXCEPT ![p] = v]
    /\ pending' = IF v = Missing THEN Removed(p) ELSE Written(p)
    /\ UNCHANGED <<store, memory, handlers, ops, writes, restarts, history>>

-----------------------------------------------------------------------------
(***************************************************************************)
(* FileWatcher.handleEvent calls the updater and does not wait for it.  An *)
(* ADD or CHANGE reads its file, or all workflows, and is applied later.   *)
(***************************************************************************)
Emit(f, kind) ==
    /\ pending[f] # <<>> /\ Head(pending[f]) = kind
    /\ pending' = [pending EXCEPT ![f] = Tail(@)]

Reading(f) ==
    IF f = AgentsFile THEN entries
    ELSE IF f \in Skills THEN Readable(f)
    ELSE [g \in Flows |-> Readable(g)]

Read(f) ==
    /\ Len(handlers) < MaxHandlers /\ (f = AgentsFile => ~half)
    /\ Emit(f, "upsert")
    /\ handlers' = Append(handlers, [file |-> f, seen |-> Reading(f), late |-> FALSE])
    /\ UNCHANGED <<disk, memory, ops, writes, changes, restarts, history>>

\* AgentConfigUpdater.handleUpsert: findAll throws, and no handler is left to apply anything.
ReadFails ==
    /\ half /\ Emit(AgentsFile, "upsert")
    /\ UNCHANGED <<disk, memory, handlers, ops, writes, changes, restarts, history>>

\* Handlers of the same updater.
Updater(f) == IF f \in Flows THEN Flows ELSE {f}

\* Handlers of the updater of f before the i-th are overtaken.
Overtaken(f, i) ==
    [j \in DOMAIN handlers |->
        [handlers[j] EXCEPT !.late = @ \/ (j < i /\ handlers[j].file \in Updater(f))]]

Served(i) ==
    LET h == handlers[i] IN
    /\ handlers' = RemoveAt(Overtaken(h.file, i), i)
    /\ raced' = (raced \/ (h.late /\ h.seen # Reading(h.file)))

Unlinked(f) == Emit(f, "unlink") /\ handlers' = Overtaken(f, Len(handlers) + 1)

\* AgentConfigUpdater.handleUpsert: the entries whose fingerprint is another, in their
\* order; an agent is given the sub-agents that are registered when its turn comes.
ApplyAgents(i) ==
    LET list == handlers[i].seen
        new == {a \in Ids(list) : prints[a] # EntryOf(list, a)}
        before(a) == {b \in new : PlaceOf(list, b) < PlaceOf(list, a)}
        known(a) == [b \in DOMAIN agents \cup before(a) |->
                        IF b \in DOMAIN agents THEN agents[b].object ELSE built + 1]
        hydrated(a) == Hydrated(EntryOf(list, a), registries, known(a))
        upserted == [a \in DOMAIN agents \cup new |->
                        IF a \in new THEN Updated(agents, a, hydrated(a)) ELSE agents[a]]
        gone == DOMAIN upserted \ Ids(list)
    IN /\ handlers[i].file = AgentsFile
       /\ Served(i)
       /\ agents' = TakenFrom(Drop(upserted, gone), gone)
       /\ built' = Counted(upserted)
       /\ prints' = [n \in Names |-> IF n \in gone THEN NoPrint
                                     ELSE IF n \in Ids(list) THEN EntryOf(list, n) ELSE prints[n]]
       /\ unseen' = unseen \ (gone \cup new)
       /\ UNCHANGED <<disk, registries, pending, ops, writes, changes, restarts, severed>>

\* SkillsUpdater.handleUpsert: nothing for a file that cannot be read, or that it knows.
ApplySkill(i) ==
    LET s == handlers[i].file
        v == handlers[i].seen
    IN /\ s \in Skills
       /\ Served(i)
       /\ IF v = Missing \/ prints[s] = v
          THEN UNCHANGED <<registries, agents, prints, unseen>>
          ELSE /\ registries' = [registries EXCEPT ![s] = v]
               /\ prints' = [prints EXCEPT ![s] = v]
               /\ agents' = Given(agents, {s}, [n \in {s} |-> v])
               /\ unseen' = unseen \ {s}
       /\ UNCHANGED <<disk, built, pending, ops, writes, changes, restarts, severed>>

\* WorkFlowUpdater.handleUpsert: an agent that holds a changed workflow gets all of its
\* workflows again, as they are registered.
ApplyFlows(i) ==
    LET seen == handlers[i].seen
        changed == {g \in Flows : IF seen[g] = Missing THEN registries[g] # Missing
                                  ELSE prints[g] # seen[g]}
        now == [p \in Parts |-> IF p \in changed THEN seen[p] ELSE registries[p]]
        touched == {a \in DOMAIN agents : \E g \in changed : agents[a].holds[g] # Missing}
        left == TakenFrom(agents, {g \in Flows : seen[g] = Missing})
        given == Given(left, {g \in Flows : now[g] # Missing}, now)
    IN /\ handlers[i].file \in Flows
       /\ Served(i)
       /\ registries' = now
       /\ prints' = [n \in Names |-> IF n \in changed THEN IF seen[n] = Missing THEN NoPrint ELSE seen[n]
                                     ELSE prints[n]]
       /\ agents' = [a \in DOMAIN agents |-> IF a \in touched THEN given[a] ELSE agents[a]]
       /\ unseen' = unseen \ changed
       /\ UNCHANGED <<disk, built, pending, ops, writes, changes, restarts, severed>>

\* The three handleUnlink do not await anything.  A skill that is not registered any more
\* is left alone; any workflow's file takes all workflows along.
UnlinkAgents ==
    /\ Unlinked(AgentsFile)
    /\ agents' = [a \in {} |-> Missing]
    /\ prints' = Forgotten(DOMAIN agents)
    /\ unseen' = unseen \ DOMAIN agents
    /\ UNCHANGED <<disk, registries, built, ops, writes, changes, restarts, severed, raced>>

UnlinkSkill(s) ==
    /\ Unlinked(s)
    /\ IF registries[s] = Missing
       THEN UNCHANGED <<registries, agents, prints, unseen>>
       ELSE /\ registries' = [registries EXCEPT ![s] = Missing]
            /\ prints' = Forgotten({s})
            /\ agents' = TakenFrom(agents, {s})
            /\ unseen' = unseen \ {s}
    /\ UNCHANGED <<disk, built, ops, writes, changes, restarts, severed, raced>>

UnlinkFlow(f) ==
    LET known == {g \in Flows : registries[g] # Missing} IN
    /\ Unlinked(f)
    /\ registries' = [p \in Parts |-> IF p \in Flows THEN Missing ELSE registries[p]]
    /\ prints' = Forgotten(known)
    /\ agents' = TakenFrom(agents, Flows)
    /\ unseen' = unseen \ known
    /\ UNCHANGED <<disk, built, ops, writes, changes, restarts, severed, raced>>

-----------------------------------------------------------------------------
(***************************************************************************)
(* REST handlers and tools.  They change a file and then the registry,     *)
(* without the updaters' fingerprints.                                     *)
(***************************************************************************)
Begin(o) == ops' = [i \in DOMAIN ops \cup {changes'} |-> IF i \in DOMAIN ops THEN ops[i] ELSE o]
OpEnds(i) ==
    /\ ops' = [j \in DOMAIN ops \ {i} |-> ops[j]]
    /\ writing' = writing \ {i} /\ met' = met \ {i}

\* JsonRawAgentConfigRepository.persist: the write begins after the file was read, perhaps
\* by others too; when it ends, the file holds its list, or what another write made of it.
PersistBegins(i) ==
    /\ ops[i].kind # "part" /\ i \notin writing
    /\ writing' = writing \cup {i} /\ Meet(AgentsFile, i) /\ half' = TRUE
    /\ UNCHANGED <<entries, content, memory, pending, handlers, ops, changes, restarts, history>>

Persisted(i, list) ==
    /\ i \in writing /\ OpEnds(i)
    /\ \/ entries' = list /\ half' = FALSE
       \/ i \in met /\ UNCHANGED store
    /\ pending' = Written(AgentsFile)

\* createWorkFlow, updateWorkFlow, installSkill, skill_create, skill_update, workflow_*.
PutPart(p, v) ==
    /\ Change
    /\ content' = [content EXCEPT ![p] = Torn]
    /\ Begin([kind |-> "part", name |-> p, version |-> v]) /\ Meet(p, changes')
    /\ UNCHANGED <<store, memory, pending, handlers, writing, restarts, history>>

PutPartEnds(i) ==
    LET p == ops[i].name
        v == ops[i].version
    IN /\ ops[i].kind = "part" /\ OpEnds(i)
       /\ \/ content' = [content EXCEPT ![p] = v]
          \/ i \in met /\ UNCHANGED content
       /\ pending' = IF content'[p] = Missing THEN pending ELSE Written(p)
       /\ registries' = [registries EXCEPT ![p] = v]
       /\ unseen' = unseen \cup {p}
       /\ UNCHANGED <<store, agents, built, prints, handlers, changes, restarts, severed, raced>>

\* deleteSkill, deleteWorkFlow, skill_delete, workflow_delete.
DeletePart(p) ==
    /\ content[p] \in Versions /\ Change
    /\ content' = [content EXCEPT ![p] = Missing]
    /\ pending' = Removed(p)
    /\ registries' = [registries EXCEPT ![p] = Missing]
    /\ unseen' = unseen \cup {p}
    /\ severed' = severed \cup ({p} \cap Skills)
    /\ UNCHANGED <<store, agents, built, prints, handlers, ops, writes, restarts, raced>>

\* createAgent and agent_create (fresh), updateAgent: the agent is hydrated first, from the
\* request alone, then the file is read and written back, then the agent is registered or
\* updated.
PutAgent(e, fresh) ==
    /\ ~half /\ IF fresh THEN e.id \notin DOMAIN agents ELSE e.id \in Ids(entries)
    /\ Change
    /\ Begin([kind |-> "put", entry |-> e, fresh |-> fresh, seen |-> entries,
              agent |-> Hydrated(e, registries, Objects(agents))])
    /\ UNCHANGED <<disk, memory, pending, handlers, writes, restarts, history>>

PutAgentEnds(i) ==
    LET o == ops[i]
        a == o.entry.id
        new == [o.agent EXCEPT !.object = built + 1]
        register == o.fresh \/ a \notin DOMAIN agents
        written == IF o.fresh THEN o.entry ELSE Patched(EntryOf(o.seen, a), o.entry)
    IN /\ o.kind = "put" /\ Persisted(i, Put(o.seen, written))
       /\ agents' = Enrolled(agents, a, IF register THEN new ELSE Updated(agents, a, new))
       /\ built' = IF register THEN built + 1 ELSE built
       /\ unseen' = unseen \cup {a}
       /\ severed' = IF register /\ a \in DOMAIN agents THEN severed \cup {a} ELSE severed
       /\ raced' = (raced \/ o.agent.holds # Hydrated(o.entry, registries, Objects(agents)).holds)
       /\ UNCHANGED <<content, registries, prints, handlers, changes, restarts>>

\* deleteAgent, agent_delete.
DeleteAgent(a) ==
    /\ ~half /\ a \in Ids(entries) /\ Change
    /\ Begin([kind |-> "delete", name |-> a, seen |-> entries])
    /\ UNCHANGED <<disk, memory, pending, handlers, writes, restarts, history>>

DeleteAgentEnds(i) ==
    LET a == ops[i].name IN
    /\ ops[i].kind = "delete" /\ Persisted(i, Without(ops[i].seen, a))
    /\ agents' = Drop(agents, {a})
    /\ unseen' = unseen \cup {a}
    /\ severed' = severed \cup {a}
    /\ UNCHANGED <<content, registries, built, prints, handlers, changes, restarts, raced>>

\* workflow_register and workflow_unregister: the running agent first, then its entry, which
\* update does not find, or cannot read.
Rewire(a, f) ==
    LET held == agents[a].holds[f] # Missing
        to == IF held THEN Missing ELSE registries[f]
    IN /\ a \in DOMAIN agents /\ (held \/ registries[f] # Missing) /\ Change
       /\ agents' = [agents EXCEPT ![a].holds[f] = to]
       /\ IF ~half /\ a \in Ids(entries)
          THEN Begin([kind |-> "rewire", name |-> a, seen |-> entries,
                      flows |-> {g \in Flows : agents'[a].holds[g] # Missing}])
          ELSE UNCHANGED ops
       /\ UNCHANGED <<disk, registries, built, prints, pending, handlers, writes, restarts, history>>

RewireEnds(i) ==
    LET o == ops[i]
        patched == [EntryOf(o.seen, o.name) EXCEPT !.uses = (@ \ Flows) \cup o.flows]
    IN /\ o.kind = "rewire" /\ Persisted(i, Put(o.seen, patched))
       /\ UNCHANGED <<content, memory, handlers, changes, restarts, history>>

-----------------------------------------------------------------------------
ByHand ==
    \/ \E e \in Drafts : EditEntry(e)
    \/ \E a \in Agents : RemoveEntry(a)
    \/ RemoveAgentsFile
    \/ \E p \in Parts, v \in {Missing} \cup Versions : EditPart(p, v)

ByRequest ==
    \/ \E p \in Parts, v \in Versions : PutPart(p, v)
    \/ \E p \in Parts : DeletePart(p)
    \/ \E e \in Drafts, fresh \in BOOLEAN : PutAgent(e, fresh)
    \/ \E a \in Agents : DeleteAgent(a)
    \/ \E a \in Agents, f \in Flows : Rewire(a, f)
    \/ \E i \in DOMAIN ops :
          PersistBegins(i) \/ PutPartEnds(i) \/ PutAgentEnds(i) \/ DeleteAgentEnds(i) \/ RewireEnds(i)

Watcher ==
    \/ \E f \in Files : Read(f)
    \/ ReadFails
    \/ \E i \in DOMAIN handlers : ApplyAgents(i) \/ ApplySkill(i) \/ ApplyFlows(i)
    \/ UnlinkAgents
    \/ \E s \in Skills : UnlinkSkill(s)
    \/ \E f \in Flows : UnlinkFlow(f)

ReloadNext == ByHand \/ ByRequest \/ Watcher \/ Restart

ReloadSpec == ReloadInit /\ [][ReloadNext]_reloadVars

-----------------------------------------------------------------------------
(***************************************************************************)
(* Properties.                                                             *)
(***************************************************************************)
ReloadTypeOK ==
    /\ entries \in Seq(Entry) /\ half \in BOOLEAN /\ content \in [Parts -> 0..3]
    /\ registries \in [Parts -> 0..2]
    /\ built \in Nat /\ DOMAIN agents \subseteq Agents /\ \A a \in DOMAIN agents : agents[a] \in Agent
    /\ {unseen, severed} \subseteq SUBSET Names

\* Nothing is under way between the files and the registries.
AtRest == handlers = <<>> /\ DOMAIN ops = {} /\ \A f \in Files : pending[f] = <<>>

\* When nothing is under way, what is registered is what the files say: every entry's
\* agent and no other, every skill, and no workflow its file does not hold; through
\* handlers that overlap, requests and tools that change file and registries on their own,
\* and restarts; but for a name the API changed while its updater's fingerprint already
\* was, or again became, that of its file (AgentConfigUpdater.ts:38, SkillsUpdater.ts:35),
\* and for a file that writes which met left so that it cannot be parsed
\* (JsonRawAgentConfigRepository.ts:75-79).
RegistriesFollowFiles ==
    AtRest /\ ~raced =>
        /\ ~half => \A a \in Agents \ unseen :
              /\ a \in DOMAIN agents <=> a \in Ids(entries)
              /\ a \in DOMAIN agents => agents[a].text = EntryOf(entries, a).text
        /\ \A s \in Skills \ unseen : content[s] # Torn => registries[s] = Readable(s)
        /\ \A f \in Flows \ unseen : registries[f] \in {Missing, Readable(f)}

\* The registries are well formed at all times, and follow the files in the end.
RegistriesAreTrue == ReloadTypeOK /\ RegistriesFollowFiles

\* When nothing is under way, an agent works with what is registered: no skill, workflow
\* or sub-agent that has changed or is gone, although agents hold the objects and three
\* updaters change them; but for what the API deleted, which the updater then does not
\* find in the registry any more (SkillsUpdater.ts:65, AgentConfigUpdater.ts:57).
HeldIsRegistered ==
    AtRest /\ ~raced =>
        \A a \in DOMAIN agents, n \in Names \ (severed \cup unseen) :
            agents[a].holds[n] \in {Missing, Registered(n, registries, Objects(agents))}

\* "Agents, MCP servers, channels, workflows and scheduled tasks are described
\* declaratively in JSON files ... and picked up live" (README.md:68): an agent whose
\* entry was taken over holds what the entry names, as far as it is registered.
FileIsLive ==
    AtRest /\ ~raced /\ ~half =>
        \A a \in DOMAIN agents : prints[a] # NoPrint =>
            agents[a].holds = Hydrated(EntryOf(entries, a), registries, Objects(agents)).holds
=============================================================================
