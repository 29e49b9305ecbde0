---------------------------- MODULE Execution_proofs ----------------------------
(***************************************************************************)
(* The two interpreters: the runner that walks a workflow's graph, and the *)
(* strategy that walks a plan.  The first part is about WorkFlowRun, for   *)
(* every graph, and every number of turns; the second about PlanExecution. *)
(***************************************************************************)
EXTENDS WorkFlowRun, PlanExecution, SequenceTheorems, FiniteSetTheorems, WellFoundedInduction, TLAPS

-----------------------------------------------------------------------------
(***************************************************************************)
(* A run of a workflow.  What is proved of it:                             *)
(*   - a node that has begun is not begun again for an execution id (Turns:*)
(*     the stream that works is the last of its execution, and the entry   *)
(*     knows of it; only an entry that has recorded nothing is pending);   *)
(*   - a completed run has left nothing behind.  That takes what each      *)
(*     output has come to: the stream that put it out is over its work     *)
(*     (Sends), the entries behind it have received it (Delivered), who is *)
(*     ready and never ran is still to be asked by somebody who forwards   *)
(*     (Asked), and a loop whose branch has come back has taken a later    *)
(*     pass or is over (Returned);                                         *)
(*   - that all streams have then ended rests on Tree: who is above is     *)
(*     done only after who is below; that the file is whole, on FileIsTrue:*)
(*     a file is mixed only while somebody writes;                         *)
(*   - the turns of a loop are in order if the loops of the graph are      *)
(*     nested: then the id of an execution is the place of its node        *)
(*     (Placed), and only the branch of a pass can come back to its loop.  *)
(***************************************************************************)

-----------------------------------------------------------------------------
(***************************************************************************)
(* The steps of a run, as what they do to the streams and the executions.   *)
(***************************************************************************)
WalkPhases == Waiting \cup Yielding \cup Over \cup {"node", "branches"}

X(f) == <<f[1], f[2]>>

StreamType(entries, streams) ==
    [parent : DOMAIN streams \cup {Root}, above : SUBSET DOMAIN streams,
     next : SUBSET DOMAIN entries, aborts : BOOLEAN, phase : WalkPhases]

EntryType == [status : Statuses, got : SUBSET Ports, turn : Nat]

StreamsFit ==
    /\ DOMAIN stream \subseteq Nodes \X Ids \X Nat
    /\ \A f \in DOMAIN stream :
          X(f) \in DOMAIN execution /\ stream[f] \in StreamType(execution, stream)

EntriesFit ==
    /\ DOMAIN execution \subseteq Nodes \X Ids
    /\ \A x \in DOMAIN execution : execution[x] \in EntryType

SentFits == \A o \in sent : o = <<o[1], o[2], o[3], o[4]>> /\ <<o[1], o[2], o[3]>> \in DOMAIN stream

RestFits ==
    /\ run \in [phase : {"new", "starting", "merging", "closing", "ended"}, status : Statuses]
    /\ stopped \in BOOLEAN
    /\ orphans \subseteq sessions /\ sessions \subseteq DOMAIN stream
    /\ file \in Statuses \cup {Torn, "mixed"}

\* WalkTypeOK, in the parts the steps change.
LEMMA FitsTogether == WalkTypeOK <=> StreamsFit /\ EntriesFit /\ SentFits /\ RestFits
  BY DEF WalkTypeOK, StreamsFit, EntriesFit, SentFits, RestFits, StreamType, EntryType, X, WalkPhases

\* A stream comes to another phase; the other streams stay as they are.
Moves(f, from, to) ==
    /\ f \in DOMAIN stream /\ DOMAIN stream' = DOMAIN stream
    /\ \A g \in DOMAIN stream \ {f} : stream'[g] = stream[g]
    /\ stream[f].phase \in from /\ stream'[f].phase \in to
    /\ stream'[f].parent = stream[f].parent /\ stream'[f].above = stream[f].above

\* An update lands, a node is begun, goes on or yields, or the catch throws on.
Settles(f) ==
    /\ Moves(f, Waiting \cup Yielding \cup {"node"}, Yielding \cup {"node", "threw"})
    /\ <<stream[f].phase, stream'[f].phase>> \in
         {<<"starting", "started">>, <<"started", "node">>, <<"node", "event">>,
          <<"event", "node">>, <<"ending", "ended">>, <<"failing", "failed">>,
          <<"failing", "threw">>, <<"failed", "threw">>}
    /\ stream'[f].next = stream[f].next
    /\ UNCHANGED <<execution, sent>>

Finishes(f) ==
    /\ Moves(f, {"ended", "branches"}, {"done"})
    /\ stream[f].phase = "branches" => \A g \in Children(f) : stream[g].phase = "done"
    /\ stream[f].phase = "ended" => \A c \in Connections : c.from # f[1]
    /\ stream'[f].next = stream[f].next
    /\ UNCHANGED <<execution, sent>>

\* An execution's status, and no other's.
Sets(x, status) ==
    /\ DOMAIN execution' = DOMAIN execution
    /\ \A y \in DOMAIN execution \ {x} : execution'[y] = execution[y]
    /\ execution'[x].status = status /\ execution'[x].got = execution[x].got

Fails(f) ==
    /\ Moves(f, {"started", "event", "node", "branches"}, {"failing"})
    /\ stream'[f].next = stream[f].next
    /\ Sets(X(f), "failed") /\ execution'[X(f)].turn = execution[X(f)].turn
    /\ sent' = sent

Ends(f) ==
    /\ Moves(f, {"node"}, {"ending"})
    /\ stream'[f].next = stream[f].next
    /\ \E port \in Outputs(f[1], execution[X(f)].turn) :
          /\ Sets(X(f), IF NewBranch(f[1], port) THEN "pending" ELSE "completed")
          /\ execution'[X(f)].turn = execution[X(f)].turn + (IF f[1] \in Loops THEN 1 ELSE 0)
          /\ sent' = sent \cup {<<f[1], f[2], f[3], port>>}

Behind(f) == {Receiver(f, c) : c \in Taken(f)}
Got(f, x)  == {c.into : c \in {d \in Taken(f) : Receiver(f, d) = x}}

Forwards(f) ==
    /\ Moves(f, {"ended"}, {"forwarding"})
    /\ stream'[f].next = Behind(f)
    /\ DOMAIN execution' = DOMAIN execution \cup Behind(f)
    /\ \A x \in DOMAIN execution :
          /\ execution'[x].status = execution[x].status
          /\ execution'[x].turn = execution[x].turn
          /\ execution'[x].got = execution[x].got \cup Got(f, x)
    /\ \A x \in Behind(f) \ DOMAIN execution :
          execution'[x] = [status |-> "pending", got |-> Got(f, x), turn |-> 0]
    /\ sent' = sent

Stays ==
    UNCHANGED <<execution, stream, sent>> /\ (stopped => stopped')

Advances(f) == Settles(f) \/ Finishes(f) \/ Fails(f) \/ Ends(f) \/ Forwards(f)


LEMMA GoMoves ==
  ASSUME NEW f, NEW p, NEW q, At(f, p), Go(f, q), f \in DOMAIN stream => stream[f] \in StreamType(execution, stream)
  PROVE  Moves(f, {p}, {q}) /\ stream'[f].next = stream[f].next
  BY DEF At, Go, Moves, StreamType

LEMMA StepOf ==
  ASSUME StreamsFit, EntriesFit, NEW f \in DOMAIN stream, Step(f) \/ NodeEvent(f) \/ NodeEnds(f) \/ NodeThrows(f)
  PROVE  Advances(f) \/ Branch(f)
<1>1. stream[f] \in StreamType(execution, stream) /\ X(f) \in DOMAIN execution
      /\ \A x \in DOMAIN execution : execution[x] \in EntryType
  BY DEF StreamsFit, EntriesFit
<1>. USE <1>1
<1>go. ASSUME NEW p, NEW q, At(f, p), Go(f, q)
       PROVE  Moves(f, {p}, {q}) /\ stream'[f].next = stream[f].next
  BY <1>go, GoMoves
<1>fail. ASSUME NEW aborts, Fail(f, aborts), sent' = sent,
                stream[f].phase \in {"started", "event", "node", "branches"}
         PROVE  Fails(f)
  <2>1. Moves(f, {"started", "event", "node", "branches"}, {"failing"}) /\ stream'[f].next = stream[f].next
    BY <1>fail DEF Fail, Moves, StreamType
  <2>2. execution' = [execution EXCEPT ![X(f)].status = "failed"]
    BY <1>fail DEF Fail, X
  <2>3. Sets(X(f), "failed") /\ execution'[X(f)].turn = execution[X(f)].turn
    BY <2>2 DEF Sets, EntryType
  <2>. QED  BY <2>1, <2>3, <1>fail DEF Fails
<1>set. ASSUME NEW p, NEW q, At(f, p), Go(f, q), UNCHANGED <<execution, sent>>,
               <<p, q>> \in {<<"starting", "started">>, <<"started", "node">>, <<"node", "event">>,
                             <<"event", "node">>, <<"ending", "ended">>, <<"failing", "failed">>,
                             <<"failing", "threw">>, <<"failed", "threw">>}
        PROVE  Settles(f)
  <2>1. Moves(f, {p}, {q}) /\ stream'[f].next = stream[f].next
    BY <1>set, <1>go
  <2>2. stream[f].phase = p /\ stream'[f].phase = q
    BY <2>1 DEF Moves
  <2>3. p \in Waiting \cup Yielding \cup {"node"} /\ q \in Yielding \cup {"node", "threw"}
    BY <1>set DEF Waiting, Yielding
  <2>. QED  BY <2>1, <2>2, <2>3, <1>set DEF Settles, Moves
<1>2. CASE StartSaved(f)
  BY <1>2, <1>set DEF StartSaved, Advances
<1>3. CASE BeginNode(f)
  <2>1. CASE stopped
    BY <1>3, <2>1, <1>fail DEF BeginNode, Advances, At
  <2>2. CASE ~stopped
    BY <1>3, <2>2, <1>set DEF BeginNode, Advances
  <2>. QED  BY <2>1, <2>2
<1>4. CASE NodeEvent(f)
  BY <1>4, <1>set DEF NodeEvent, Advances
<1>5. CASE NodeGoesOn(f)
  <2>1. CASE stopped
    BY <1>5, <2>1, <1>fail DEF NodeGoesOn, Advances, At
  <2>2. CASE ~stopped
    BY <1>5, <2>2, <1>set DEF NodeGoesOn, Advances
  <2>. QED  BY <2>1, <2>2
<1>6. CASE NodeAborted(f)
  BY <1>6, <1>fail DEF NodeAborted, Advances, At
<1>7. CASE NodeThrows(f)
  BY <1>7, <1>fail DEF NodeThrows, Advances, At
<1>8. CASE EndSaved(f)
  BY <1>8, <1>set DEF EndSaved, Advances
<1>9. CASE FailSaved(f)
  <2>1. CASE stream[f].aborts
    BY <1>9, <2>1, <1>set DEF FailSaved, Advances
  <2>2. CASE ~stream[f].aborts
    BY <1>9, <2>2, <1>set DEF FailSaved, Advances
  <2>. QED  BY <2>1, <2>2
<1>10. CASE Rethrow(f)
  BY <1>10, <1>set DEF Rethrow, Advances
<1>11. CASE BranchThrew(f)
  BY <1>11, <1>fail DEF BranchThrew, Advances, At
<1>12. CASE BranchesDone(f)
  <2>1. Moves(f, {"branches"}, {"done"}) /\ stream'[f].next = stream[f].next
    BY <1>12, <1>go DEF BranchesDone
  <2>. QED  BY <2>1, <1>12 DEF BranchesDone, Finishes, Advances, Moves
<1>13. CASE Forward(f)
  <2>1. CASE \A c \in Connections : c.from # f[1]
    <3>1. Moves(f, {"ended"}, {"done"}) /\ stream'[f].next = stream[f].next
      BY <1>13, <2>1, <1>go DEF Forward
    <3>. QED  BY <3>1, <2>1, <1>13 DEF Forward, Finishes, Advances, Moves
  <2>2. CASE ~\A c \in Connections : c.from # f[1]
    <3>0. /\ f \in DOMAIN stream /\ stream[f].phase = "ended"
          /\ stream' = [stream EXCEPT ![f].phase = "forwarding", ![f].next = Behind(f)]
      BY <1>13, <2>2 DEF Forward, At, Behind
    <3>1. Moves(f, {"ended"}, {"forwarding"}) /\ stream'[f].next = Behind(f)
      BY <3>0 DEF Moves, StreamType
    <3>2. /\ execution' = [x \in DOMAIN execution \cup Behind(f) |->
                  IF x \notin DOMAIN execution
                  THEN [status |-> "pending", got |-> Got(f, x), turn |-> 0]
                  ELSE [execution[x] EXCEPT !.got = @ \cup Got(f, x)]]
          /\ sent' = sent
      BY <1>13, <2>2 DEF Forward, Behind, Got
    <3>3. \A x \in DOMAIN execution :
             /\ execution'[x].status = execution[x].status
             /\ execution'[x].turn = execution[x].turn
             /\ execution'[x].got = execution[x].got \cup Got(f, x)
      BY <3>2 DEF EntryType
    <3>. QED  BY <3>1, <3>2, <3>3 DEF Forwards, Advances
  <2>. QED  BY <2>1, <2>2
<1>14. CASE NodeEnds(f)
  <2>1. Moves(f, {"node"}, {"ending"}) /\ stream'[f].next = stream[f].next
    BY <1>14, <1>go DEF NodeEnds
  <2>2. PICK port \in Outputs(f[1], execution[X(f)].turn) :
          /\ execution' = [execution EXCEPT
                ![X(f)].status = IF NewBranch(f[1], port) THEN "pending" ELSE "completed",
                ![X(f)].turn = IF f[1] \in Loops THEN @ + 1 ELSE @]
          /\ sent' = sent \cup {<<f[1], f[2], f[3], port>>}
    BY <1>14 DEF NodeEnds, X
  <2>3. Sets(X(f), IF NewBranch(f[1], port) THEN "pending" ELSE "completed")
    BY <2>2 DEF Sets, EntryType
  <2>4. execution'[X(f)].turn = execution[X(f)].turn + (IF f[1] \in Loops THEN 1 ELSE 0)
    <3>1. CASE f[1] \in Loops
      BY <2>2, <3>1 DEF EntryType
    <3>2. CASE f[1] \notin Loops
      <4>1. execution[X(f)].turn \in Nat /\ execution[X(f)].turn + 0 = execution[X(f)].turn
        BY DEF EntryType
      <4>. QED  BY <2>2, <3>2, <4>1 DEF EntryType
    <3>. QED  BY <3>1, <3>2
  <2>. QED  BY <2>1, <2>2, <2>3, <2>4 DEF Ends, Advances
<1>15. CASE Branch(f)
  BY <1>15 DEF Advances
<1>. QED
  BY <1>2, <1>3, <1>4, <1>5, <1>6, <1>7, <1>8, <1>9, <1>10, <1>11, <1>12, <1>13, <1>14, <1>15 DEF Step

LEMMA StepsAre ==
  ASSUME StreamsFit, EntriesFit, [WalkNext]_walkVars
  PROVE  /\ stopped => stopped'
         /\ Stays \/ OpenRun \/ \E f \in DOMAIN stream : Advances(f) \/ Branch(f)
<1>1. CASE \E f \in DOMAIN stream : Step(f) \/ NodeEvent(f) \/ NodeEnds(f) \/ NodeThrows(f)
  <2>1. PICK f \in DOMAIN stream : Step(f) \/ NodeEvent(f) \/ NodeEnds(f) \/ NodeThrows(f)
    BY <1>1
  <2>2. Advances(f) \/ Branch(f)
    BY <2>1, StepOf
  <2>3. stopped' = stopped
    BY <2>1 DEF Step, StartSaved, BeginNode, NodeGoesOn, NodeAborted, EndSaved, Forward, Branch,
       BranchesDone, BranchThrew, FailSaved, Rethrow, NodeEvent, NodeEnds, NodeThrows
  <2>. QED  BY <2>2, <2>3
<1>2. CASE OpenRun
  BY <1>2 DEF OpenRun
<1>3. CASE Begin \/ CloseRun \/ EndRun \/ Stop \/ UNCHANGED walkVars
            \/ \E f \in DOMAIN stream : OrphanEnds(f)
  BY <1>3 DEF Begin, CloseRun, EndRun, Stop, OrphanEnds, Stays, walkVars
<1>. QED  BY <1>1, <1>2, <1>3 DEF WalkNext, RunStep

-----------------------------------------------------------------------------
(***************************************************************************)
(* The passes of an execution are numbered from one, so a stream that is    *)
(* opened is a new one.                                                     *)
(***************************************************************************)
Numbered ==
    \A x \in Nodes \X Ids :
        /\ IsFiniteSet(Of(x))
        /\ \A f \in Of(x) : f[3] \in 1..Passes(x)
        /\ \A k \in 1..Passes(x) : <<x[1], x[2], k>> \in DOMAIN stream

NewStream(x) == <<x[1], x[2], Passes(x) + 1>>

LEMMA PairIs ==
  ASSUME NEW x \in Nodes \X Ids
  PROVE  x = <<x[1], x[2]>> /\ x[1] \in Nodes /\ x[2] \in Ids
  OBVIOUS

LEMMA TripleIs ==
  ASSUME NEW f \in Nodes \X Ids \X Nat
  PROVE  /\ f = <<f[1], f[2], f[3]>> /\ f[1] \in Nodes /\ f[2] \in Ids /\ f[3] \in Nat
         /\ X(f) \in Nodes \X Ids
  BY DEF X

LEMMA PassesIsNat ==
  ASSUME Numbered, NEW x \in Nodes \X Ids
  PROVE  Passes(x) \in Nat
  BY FS_CardinalityType DEF Numbered, Passes

LEMMA OfSame ==
  ASSUME DOMAIN stream' = DOMAIN stream
  PROVE  /\ \A x : Of(x)' = Of(x) /\ Passes(x)' = Passes(x)
         /\ Numbered => Numbered'
<1>1. \A x : Of(x)' = Of(x)
  BY DEF Of
<1>2. \A x : Passes(x)' = Passes(x)
  BY <1>1 DEF Passes
<1>. QED  BY <1>1, <1>2 DEF Numbered

LEMMA NewIsNew ==
  ASSUME Numbered, NEW x \in Nodes \X Ids
  PROVE  NewStream(x) \notin DOMAIN stream /\ X(NewStream(x)) = x
<1>0. Passes(x) \in Nat
  BY PassesIsNat
<1>1. X(NewStream(x)) = x
  BY PairIs DEF X, NewStream
<1>2. ASSUME NewStream(x) \in DOMAIN stream  PROVE FALSE
  <2>1. NewStream(x) \in Of(x)
    BY <1>1, <1>2 DEF Of, X
  <2>2. NewStream(x)[3] \in 1..Passes(x)
    BY <2>1 DEF Numbered
  <2>3. NewStream(x)[3] = Passes(x) + 1
    BY DEF NewStream
  <2>. QED  BY <2>2, <2>3, <1>0
<1>. QED  BY <1>1, <1>2

LEMMA OfGrows ==
  ASSUME Numbered, NEW go \in SUBSET (Nodes \X Ids),
         DOMAIN stream' = DOMAIN stream \cup {NewStream(x) : x \in go},
         NEW x \in Nodes \X Ids
  PROVE  /\ x \in go => Of(x)' = Of(x) \cup {NewStream(x)} /\ Passes(x)' = Passes(x) + 1
         /\ x \notin go => Of(x)' = Of(x) /\ Passes(x)' = Passes(x)
<1>0. Passes(x) \in Nat /\ IsFiniteSet(Of(x)) /\ NewStream(x) \notin Of(x)
  BY PassesIsNat, NewIsNew DEF Numbered, Of
<1>1. \A y \in go : X(NewStream(y)) = y
  BY NewIsNew
<1>2. ASSUME x \in go  PROVE Of(x)' = Of(x) \cup {NewStream(x)}
  BY <1>1, <1>2 DEF Of, X
<1>3. ASSUME x \notin go  PROVE Of(x)' = Of(x)
  BY <1>1, <1>3 DEF Of, X
<1>4. ASSUME x \in go  PROVE Passes(x)' = Passes(x) + 1
  <2>1. Cardinality(Of(x) \cup {NewStream(x)}) = Cardinality(Of(x)) + 1
    BY <1>0, FS_AddElement
  <2>. QED  BY <1>2, <1>4, <2>1 DEF Passes
<1>5. ASSUME x \notin go  PROVE Passes(x)' = Passes(x)
  BY <1>3, <1>5 DEF Passes
<1>. QED  BY <1>2, <1>3, <1>4, <1>5

LEMMA NumberedGrows ==
  ASSUME Numbered, NEW go \in SUBSET (Nodes \X Ids),
         DOMAIN stream' = DOMAIN stream \cup {NewStream(x) : x \in go}
  PROVE  Numbered'
<1>. SUFFICES ASSUME NEW x \in Nodes \X Ids
             PROVE  /\ IsFiniteSet(Of(x)')
                    /\ \A f \in Of(x)' : f[3] \in 1..Passes(x)'
                    /\ \A k \in 1..Passes(x)' : <<x[1], x[2], k>> \in DOMAIN stream'
  BY DEF Numbered
<1>0. /\ Passes(x) \in Nat /\ IsFiniteSet(Of(x))
      /\ \A f \in Of(x) : f[3] \in 1..Passes(x)
      /\ \A k \in 1..Passes(x) : <<x[1], x[2], k>> \in DOMAIN stream
  BY PassesIsNat DEF Numbered
<1>1. CASE x \in go
  <2>1. Of(x)' = Of(x) \cup {NewStream(x)} /\ Passes(x)' = Passes(x) + 1
    BY <1>1, OfGrows
  <2>2. NewStream(x)[3] = Passes(x) + 1
    BY DEF NewStream
  <2>3. \A f \in Of(x)' : f[3] \in 1..Passes(x)'
    BY <1>0, <2>1, <2>2
  <2>4. ASSUME NEW k \in 1..Passes(x)'  PROVE <<x[1], x[2], k>> \in DOMAIN stream'
    <3>1. CASE k = Passes(x) + 1
      BY <3>1, <1>1 DEF NewStream
    <3>2. CASE k \in 1..Passes(x)
      BY <3>2, <1>0
    <3>. QED  BY <3>1, <3>2, <2>1, <1>0
  <2>5. IsFiniteSet(Of(x)')
    BY <1>0, <2>1, FS_AddElement
  <2>. QED  BY <2>3, <2>4, <2>5
<1>2. CASE x \notin go
  BY <1>0, <1>2, OfGrows
<1>. QED  BY <1>1, <1>2

-----------------------------------------------------------------------------
\* What Open does, once the streams it opens are known to be new: to the executions from
\* `entries`, and beside the streams there were.
Opened(go, throws, parent, above, entries) ==
    /\ throws \subseteq go
    /\ DOMAIN execution' = DOMAIN entries
    /\ \A x \in DOMAIN entries :
          /\ execution'[x].got = entries[x].got /\ execution'[x].turn = entries[x].turn
          /\ execution'[x].status = IF x \in go \ throws THEN "running" ELSE entries[x].status
    /\ DOMAIN stream' = DOMAIN stream \cup {NewStream(x) : x \in go}
    /\ \A x \in go :
          stream'[NewStream(x)] =
             [parent |-> parent, above |-> above, next |-> {}, aborts |-> FALSE,
              phase |-> IF x \in throws THEN "threw" ELSE "starting"]

Going(pending, entries) == {x \in pending : Startable(x, entries)}

LEMMA OpenIs ==
  ASSUME Numbered, NEW parent, NEW above, NEW entries, NEW streams,
         NEW pending \in SUBSET (Nodes \X Ids), pending \subseteq DOMAIN entries,
         \A x \in DOMAIN entries : entries[x] \in EntryType,
         DOMAIN streams = DOMAIN stream,
         Open(parent, above, pending, entries, streams)
  PROVE  /\ \E throws : Opened(Going(pending, entries), throws, parent, above, entries)
         /\ \A g \in DOMAIN stream : stream'[g] = streams[g]
         /\ \A x \in DOMAIN execution' : execution'[x] \in EntryType
<1>. DEFINE go == Going(pending, entries)
<1>1. PICK throws \in SUBSET {x \in go : x[1] \in Fragile} :
        /\ execution' = [x \in DOMAIN entries |->
                           IF x \in go \ throws THEN [entries[x] EXCEPT !.status = "running"]
                           ELSE entries[x]]
        /\ stream' = [f \in DOMAIN streams \cup {NewStream(x) : x \in go} |->
               IF f \in DOMAIN streams THEN streams[f]
               ELSE [parent |-> parent, above |-> above, next |-> {}, aborts |-> FALSE,
                     phase |-> IF <<f[1], f[2]>> \in throws THEN "threw" ELSE "starting"]]
  BY DEF Open, NewStream, Going
<1>2. \A x \in go : NewStream(x) \notin DOMAIN stream /\ <<NewStream(x)[1], NewStream(x)[2]>> = x
  BY NewIsNew DEF X, Going
<1>3. \A x \in DOMAIN entries :
          /\ execution'[x].got = entries[x].got /\ execution'[x].turn = entries[x].turn
          /\ execution'[x].status = IF x \in go \ throws THEN "running" ELSE entries[x].status
          /\ execution'[x] \in EntryType
  BY <1>1 DEF EntryType, Statuses
<1>4. \A x \in go :
          stream'[NewStream(x)] =
             [parent |-> parent, above |-> above, next |-> {}, aborts |-> FALSE,
              phase |-> IF x \in throws THEN "threw" ELSE "starting"]
  BY <1>1, <1>2
<1>5. Opened(go, throws, parent, above, entries)
  BY <1>1, <1>3, <1>4 DEF Opened
<1>6. \A g \in DOMAIN stream : stream'[g] = streams[g]
  BY <1>1
<1>. QED  BY <1>1, <1>3, <1>5, <1>6

-----------------------------------------------------------------------------
(***************************************************************************)
(* Types.                                                                  *)
(***************************************************************************)
\* Nothing has happened before the run's first update has landed.
Early ==
    run.phase \in {"new", "starting"} =>
        /\ DOMAIN stream = {} /\ DOMAIN execution = {} /\ sent = {}
        /\ sessions = {} /\ orphans = {} /\ file = "pending"

GaveUp == {"failing", "failed", "threw"}

\* A session is held while its node works, or has been left behind by a stream that gave up.
Holding ==
    /\ \A f \in sessions : stream[f].phase \in GaveUp \cup {"node", "event"}
    /\ \A f \in orphans : stream[f].phase \in GaveUp

WalkFits == Holding /\ StreamsFit /\ EntriesFit /\ SentFits /\ RestFits /\ Numbered /\ Early

Branches(f, throws) ==
    /\ f \in DOMAIN stream /\ stream[f].phase = "forwarding"
    /\ Opened(Going(stream[f].next, execution), throws, f, stream[f].above \cup {f}, execution)
    /\ \A g \in DOMAIN stream \ {f} : stream'[g] = stream[g]
    /\ stream'[f].phase = "branches" /\ stream'[f].parent = stream[f].parent
    /\ stream'[f].above = stream[f].above /\ stream'[f].next = stream[f].next
    /\ stream'[f].aborts = stream[f].aborts
    /\ sent' = sent /\ stopped' = stopped

LEMMA BranchIs ==
  ASSUME WalkFits, NEW f, Branch(f)
  PROVE  /\ \E throws : Branches(f, throws)
         /\ \A x \in DOMAIN execution' : execution'[x] \in EntryType
<1>1. /\ f \in DOMAIN stream /\ stream[f].phase = "forwarding"
      /\ Open(f, stream[f].above \cup {f}, stream[f].next, execution,
              [stream EXCEPT ![f].phase = "branches"])
      /\ sent' = sent /\ stopped' = stopped
  BY DEF Branch, At
<1>2. stream[f] \in StreamType(execution, stream) /\ stream[f].next \subseteq Nodes \X Ids
  BY <1>1 DEF WalkFits, StreamsFit, EntriesFit, StreamType
<1>. DEFINE streams == [stream EXCEPT ![f].phase = "branches"]
<1>3. DOMAIN streams = DOMAIN stream
  OBVIOUS
<1>4. \A g \in DOMAIN stream \ {f} : streams[g] = stream[g]
  OBVIOUS
<1>5. /\ streams[f].phase = "branches" /\ streams[f].parent = stream[f].parent
      /\ streams[f].above = stream[f].above /\ streams[f].next = stream[f].next
      /\ streams[f].aborts = stream[f].aborts
  BY <1>1, <1>2 DEF StreamType
<1>6. stream[f].next \subseteq DOMAIN execution
  BY <1>2 DEF StreamType
<1>7. Numbered /\ (\A x \in DOMAIN execution : execution[x] \in EntryType)
  BY DEF WalkFits, EntriesFit
<1>8. Open(f, stream[f].above \cup {f}, stream[f].next, execution, streams)
  BY <1>1
<1>. HIDE DEF streams
<1>9. /\ \E throws : Opened(Going(stream[f].next, execution), throws, f, stream[f].above \cup {f}, execution)
      /\ \A g \in DOMAIN stream : stream'[g] = streams[g]
      /\ \A x \in DOMAIN execution' : execution'[x] \in EntryType
  BY <1>2, <1>3, <1>6, <1>7, <1>8, OpenIs
<1>. QED  BY <1>1, <1>4, <1>5, <1>9 DEF Branches

\* The start nodes, with the input.
First == {n \in Nodes : Kind[n] = "start"} \X {<<>>}
FirstEntries == [x \in First |-> [status |-> "pending", got |-> {"$input"}, turn |-> 0]]

Starts(throws) ==
    /\ DOMAIN stream = {} /\ DOMAIN execution = {} /\ sent = {}
    /\ Opened(Going(First, FirstEntries), throws, Root, {}, FirstEntries)
    /\ sent' = sent /\ stopped' = stopped

LEMMA OpenRunIs ==
  ASSUME WalkFits, OpenRun
  PROVE  /\ \E throws : Starts(throws)
         /\ \A x \in DOMAIN execution' : execution'[x] \in EntryType
         /\ First \subseteq Nodes \X Ids
<1>1. First \subseteq Nodes \X Ids
  <2>1. <<>> \in Ids
    BY DEF Ids
  <2>. QED  BY <2>1 DEF First
<1>2. /\ run.phase = "starting" /\ sent' = sent /\ stopped' = stopped
      /\ Open(Root, {}, First, FirstEntries, stream)
  BY DEF OpenRun, First, FirstEntries
<1>3. DOMAIN stream = {} /\ DOMAIN execution = {} /\ sent = {}
  BY <1>2 DEF WalkFits, Early
<1>4. DOMAIN FirstEntries = First /\ \A x \in First : FirstEntries[x] \in EntryType
  BY DEF FirstEntries, EntryType, Statuses, Ports
<1>5. /\ \E throws : Opened(Going(First, FirstEntries), throws, Root, {}, FirstEntries)
      /\ \A x \in DOMAIN execution' : execution'[x] \in EntryType
  BY <1>1, <1>2, <1>4, OpenIs DEF WalkFits
<1>. QED  BY <1>1, <1>2, <1>3, <1>5 DEF Starts

\* In every other step of a stream the streams and their executions stay where they are.
LEMMA StepSpans ==
  ASSUME NEW f, Advances(f)
  PROVE  /\ f \in DOMAIN stream /\ DOMAIN stream' = DOMAIN stream
         /\ \A g \in DOMAIN stream \ {f} : stream'[g] = stream[g]
         /\ stream'[f].parent = stream[f].parent /\ stream'[f].above = stream[f].above
  BY DEF Advances, Settles, Finishes, Fails, Ends, Forwards, Moves

LEMMA FrontIs ==
  ASSUME NEW S, NEW s \in Seq(S), s # <<>>
  PROVE  /\ Front(s) \in Seq(S) /\ Len(Front(s)) = Len(s) - 1 /\ Last(s) \in S
         /\ \A i \in 1..(Len(s) - 1) : Front(s)[i] = s[i]
         /\ s = Append(Front(s), Last(s)) /\ Len(s) \in Nat /\ Len(s) > 0
<1>1. Len(s) \in Nat /\ Len(s) > 0
  BY EmptySeq
<1>2. Front(s) \in Seq(S) /\ Len(Front(s)) = Len(s) - 1 /\ \A i \in 1..(Len(s) - 1) : Front(s)[i] = s[i]
  <2>. DEFINE n == Len(s) - 1
  <2>0. n \in Int /\ n >= 0 /\ 1 \in Int /\ \A i \in 1..n : s[i] \in S
    BY <1>1
  <2>. HIDE DEF n
  <2>1. /\ SubSeq(s, 1, n) \in Seq(S)
        /\ Len(SubSeq(s, 1, n)) = IF 1 <= n THEN n - 1 + 1 ELSE 0
        /\ \A i \in 1..(n - 1 + 1) : SubSeq(s, 1, n)[i] = s[1 + i - 1]
    BY <2>0, SubSeqProperties
  <2>3. Len(SubSeq(s, 1, n)) = n /\ \A i \in 1..n : SubSeq(s, 1, n)[i] = s[i]
    <3>1. n - 1 + 1 = n
      BY <2>0
    <3>2. \A i \in 1..n : 1 + i - 1 = i
      BY <2>0
    <3>3. Len(SubSeq(s, 1, n)) = n
      BY <2>0, <2>1
    <3>4. \A i \in 1..n : SubSeq(s, 1, n)[i] = s[1 + i - 1]
      BY <2>1, <3>1
    <3>. QED  BY <3>2, <3>3, <3>4
  <2>2. SubSeq(s, 1, Len(s) - 1) \in Seq(S) /\ Len(SubSeq(s, 1, Len(s) - 1)) = Len(s) - 1
        /\ \A i \in 1..(Len(s) - 1) : SubSeq(s, 1, Len(s) - 1)[i] = s[i]
    BY <2>1, <2>3 DEF n
  <2>. QED  BY <2>2 DEF Front
<1>3. Last(s) \in S
  BY <1>1, ElementOfSeq DEF Last
<1>4. s = Append(Front(s), Last(s))
  <2>1. Append(Front(s), Last(s)) \in Seq(S) /\ Len(Append(Front(s), Last(s))) = Len(s)
    BY <1>1, <1>2, <1>3, AppendProperties
  <2>2. \A i \in 1..Len(s) : Append(Front(s), Last(s))[i] = s[i]
    <3>. SUFFICES ASSUME NEW i \in 1..Len(s)  PROVE Append(Front(s), Last(s))[i] = s[i]
      OBVIOUS
    <3>1. CASE i = Len(s)
      BY <3>1, <1>1, <1>2, <1>3, AppendProperties DEF Last
    <3>2. CASE i # Len(s)
      BY <3>2, <1>1, <1>2, <1>3, AppendProperties
    <3>. QED  BY <3>1, <3>2
  <2>. QED  BY <2>1, <2>2, SeqEqual
<1>. QED  BY <1>1, <1>2, <1>3, <1>4

LEMMA AppendIs ==
  ASSUME NEW S, NEW s \in Seq(S), NEW e \in S
  PROVE  /\ Append(s, e) \in Seq(S) /\ Append(s, e) # <<>>
         /\ Len(Append(s, e)) = Len(s) + 1
         /\ Front(Append(s, e)) = s /\ Last(Append(s, e)) = e
         /\ \A i \in 1..Len(s) : Append(s, e)[i] = s[i]
<1>. DEFINE t == Append(s, e)
<1>1. Len(s) \in Nat
  OBVIOUS
<1>2. /\ t \in Seq(S) /\ t # <<>> /\ Len(t) = Len(s) + 1 /\ t[Len(s) + 1] = e
      /\ \A i \in 1..Len(s) : t[i] = s[i]
  BY <1>1, AppendProperties
<1>. HIDE DEF t
<1>3. Last(t) = e
  BY <1>2 DEF Last
<1>4. Front(t) = s
  BY <1>1, <1>2, FrontIs, SeqEqual
<1>. QED  BY <1>2, <1>3, <1>4 DEF t

LEMMA ReceiverFits ==
  ASSUME NEW f, f[1] \in Nodes, f[2] \in Ids, f[3] \in Nat, NEW c \in Connections
  PROVE  Receiver(f, c) \in Nodes \X Ids
<1>1. c.to \in Nodes
  BY WorkFlowRunAssumption
<1>2. Append(f[2], <<c, f[3]>>) \in Ids
  <2>1. <<c, f[3]>> \in Connections \X Nat
    OBVIOUS
  <2>. QED  BY <2>1, AppendIs DEF Ids
<1>3. f[2] # <<>> => Front(f[2]) \in Ids
  BY FrontIs DEF Ids
<1>. QED  BY <1>1, <1>2, <1>3 DEF Receiver

LEMMA RestKeeps ==
  ASSUME WalkFits, [WalkNext]_walkVars, DOMAIN stream \subseteq DOMAIN stream'
  PROVE  RestFits'
<1>0. RestFits /\ Torn \notin Statuses \cup {"mixed"} /\ {"pending", "running", "completed", "failed"} \subseteq Statuses
  BY WorkFlowRunAssumption DEF WalkFits, Statuses
<1>. USE <1>0
<1>1. ASSUME NEW f, NEW status \in Statuses, Lands(f, status)
      PROVE  file' \in Statuses \cup {Torn, "mixed"}
  BY <1>1 DEF Lands
<1>2. ASSUME NEW f, Saved(f)
      PROVE  file' \in Statuses \cup {Torn, "mixed"}
  BY <1>1, <1>2 DEF Saved, RestFits
<1>3. CASE UNCHANGED walkVars \/ Begin \/ CloseRun \/ Stop
  <2>1. UNCHANGED <<stream, sessions, orphans, file>> /\ stopped' \in BOOLEAN
    BY <1>3 DEF walkVars, Begin, CloseRun, Stop, RestFits
  <2>2. run' \in [phase : {"new", "starting", "merging", "closing", "ended"}, status : Statuses]
    <3>1. CASE run' = run
      BY <3>1 DEF RestFits
    <3>2. CASE \E status \in Statuses : run' = [phase |-> "starting", status |-> status]
                                     \/ run' = [phase |-> "closing", status |-> status]
      BY <3>2
    <3>3. run' = run \/ \E status \in Statuses : run' = [phase |-> "starting", status |-> status]
                                     \/ run' = [phase |-> "closing", status |-> status]
      BY <1>3 DEF walkVars, Begin, CloseRun, Stop
    <3>. QED  BY <3>1, <3>2, <3>3
  <2>. QED  BY <2>1, <2>2 DEF RestFits
<1>4. CASE EndRun
  <2>1. file' \in Statuses \cup {Torn, "mixed"}
    BY <1>4, <1>1 DEF EndRun, RestFits
  <2>. QED  BY <1>4, <2>1 DEF EndRun, RestFits
<1>5. CASE OpenRun
  <2>1. file' \in Statuses \cup {Torn, "mixed"}
    BY <1>5, <1>1 DEF OpenRun, RestFits
  <2>. QED  BY <1>5, <2>1 DEF OpenRun, RestFits
<1>6. ASSUME NEW f \in DOMAIN stream, StartSaved(f) \/ EndSaved(f) \/ FailSaved(f) \/ Branch(f)
      PROVE  RestFits'
  <2>1. file' \in Statuses \cup {Torn, "mixed"}
    BY <1>6, <1>2 DEF StartSaved, EndSaved, FailSaved, Branch
  <2>. QED  BY <1>6, <2>1 DEF StartSaved, EndSaved, FailSaved, Branch, RestFits
<1>7. ASSUME NEW f \in DOMAIN stream, BeginNode(f)
      PROVE  RestFits'
  <2>1. /\ sessions' = sessions \/ sessions' = sessions \cup {g \in {f} : Kind[f[1]] = "agent"}
        /\ UNCHANGED <<run, stopped, orphans, file>>
    BY <1>7 DEF BeginNode
  <2>. QED  BY <2>1 DEF RestFits
<1>7a. ASSUME NEW f \in DOMAIN stream, NodeEvent(f) \/ NodeGoesOn(f) \/ Forward(f)
                 \/ BranchesDone(f) \/ BranchThrew(f) \/ Rethrow(f) \/ NodeAborted(f) \/ OrphanEnds(f)
      PROVE  RestFits'
  BY <1>7a DEF NodeEvent, NodeGoesOn, Forward, BranchesDone, BranchThrew, Rethrow,
               NodeAborted, OrphanEnds, RestFits
<1>8. ASSUME NEW f \in DOMAIN stream, NodeEnds(f) \/ NodeThrows(f)
      PROVE  RestFits'
  <2>1. f \notin orphans
    BY <1>8 DEF NodeEnds, NodeThrows, At, WalkFits, Holding, GaveUp
  <2>. QED  BY <1>8, <2>1 DEF NodeEnds, NodeThrows, RestFits
<1>. QED
  BY <1>3, <1>4, <1>5, <1>6, <1>7, <1>7a, <1>8 DEF WalkNext, RunStep, Step

LEMMA HoldingKeeps ==
  ASSUME WalkFits, [WalkNext]_walkVars
  PROVE  Holding'
<1>0. /\ Holding /\ StreamsFit /\ EntriesFit /\ orphans \subseteq sessions /\ sessions \subseteq DOMAIN stream
  BY DEF WalkFits, RestFits
<1>1. ASSUME UNCHANGED <<stream, sessions>>, orphans' \subseteq orphans  PROVE Holding'
  BY <1>0, <1>1 DEF Holding
<1>2. CASE UNCHANGED walkVars \/ Begin \/ CloseRun \/ EndRun \/ Stop
  BY <1>1, <1>2 DEF walkVars, Begin, CloseRun, EndRun, Stop
<1>3. CASE OpenRun
  <2>1. sessions' = {} /\ orphans' = {}
    BY <1>3 DEF OpenRun, WalkFits, Early
  <2>. QED  BY <2>1 DEF Holding
<1>4. ASSUME NEW f \in DOMAIN stream, Branch(f)  PROVE Holding'
  <2>1. PICK throws : Branches(f, throws)
    BY <1>4, BranchIs
  <2>2. UNCHANGED <<sessions, orphans>>
    BY <1>4 DEF Branch
  <2>3. f \notin sessions
    BY <1>0, <2>1 DEF Branches, Holding, GaveUp
  <2>4. \A g \in sessions : stream'[g] = stream[g]
    BY <1>0, <2>1, <2>3 DEF Branches
  <2>. QED  BY <1>0, <2>2, <2>4 DEF Holding
<1>5. ASSUME NEW f \in DOMAIN stream, OrphanEnds(f)  PROVE Holding'
  <2>1. sessions' \subseteq sessions /\ orphans' \subseteq orphans /\ stream' = stream
    BY <1>5 DEF OrphanEnds
  <2>. QED  BY <1>0, <2>1 DEF Holding
<1>6. ASSUME NEW f \in DOMAIN stream, Step(f) \/ NodeEvent(f) \/ NodeEnds(f) \/ NodeThrows(f), ~Branch(f)
      PROVE  Holding'
  <2>0. Advances(f)
    BY <1>0, <1>6, StepOf
  <2>1. \A g \in DOMAIN stream \ {f} : stream'[g] = stream[g]
    BY <1>6, <2>0, StepSpans
  <2>2. sessions' \subseteq sessions \cup {f} /\ orphans' \subseteq orphans \cup {f}
    BY <1>6 DEF Step, StartSaved, BeginNode, NodeGoesOn, NodeAborted, EndSaved, Forward,
       BranchesDone, BranchThrew, FailSaved, Rethrow, NodeEvent, NodeEnds, NodeThrows
  <2>. DEFINE Held == /\ f \in sessions' => stream'[f].phase \in GaveUp \cup {"node", "event"}
                      /\ f \in orphans' => stream'[f].phase \in GaveUp
  <2>. SUFFICES Held
    BY <1>0, <2>1, <2>2 DEF Holding
  <2>s. stream[f] \in StreamType(execution, stream)
    BY <1>0 DEF StreamsFit
  <2>h. /\ f \in sessions => stream[f].phase \in GaveUp \cup {"node", "event"}
        /\ f \in orphans => stream[f].phase \in GaveUp
    BY <1>0 DEF Holding
  <2>g. \A p, q : At(f, p) /\ Go(f, q) => stream[f].phase = p /\ stream'[f].phase = q
    BY <2>s DEF At, Go, StreamType
  <2>f. \A a : Fail(f, a) => stream'[f].phase = "failing"
    BY <2>s DEF Fail, StreamType
  <2>3. CASE StartSaved(f) \/ EndSaved(f)
    <3>1. f \notin sessions /\ f \notin orphans /\ UNCHANGED <<sessions, orphans>>
      BY <2>3, <2>h DEF StartSaved, EndSaved, At, GaveUp
    <3>. QED  BY <3>1
  <2>4. CASE Forward(f) \/ BranchesDone(f) \/ BranchThrew(f)
    <3>1. f \notin sessions /\ f \notin orphans /\ UNCHANGED <<sessions, orphans>>
      BY <2>4, <2>h DEF Forward, BranchesDone, BranchThrew, At, GaveUp
    <3>. QED  BY <3>1
  <2>5. CASE BeginNode(f)
    <3>1. f \notin sessions /\ f \notin orphans /\ orphans' = orphans
      BY <2>5, <2>h DEF BeginNode, At, GaveUp
    <3>2. CASE stopped
      BY <2>5, <3>1, <3>2 DEF BeginNode
    <3>3. CASE ~stopped
      BY <2>5, <2>g, <3>1, <3>3 DEF BeginNode
    <3>. QED  BY <3>2, <3>3
  <2>6. CASE NodeEvent(f)
    BY <2>6, <2>g, <2>h DEF NodeEvent, GaveUp
  <2>7. CASE NodeGoesOn(f)
    <3>1. f \notin orphans /\ orphans' = orphans
      BY <2>7, <2>h DEF NodeGoesOn, At, GaveUp
    <3>2. CASE stopped
      BY <2>7, <2>f, <3>1, <3>2 DEF NodeGoesOn, GaveUp
    <3>3. CASE ~stopped
      BY <2>7, <2>g, <3>1, <3>3 DEF NodeGoesOn
    <3>. QED  BY <3>2, <3>3
  <2>8. CASE NodeEnds(f) \/ NodeThrows(f)
    <3>1. f \notin orphans /\ orphans' = orphans /\ f \notin sessions'
      BY <2>8, <2>h DEF NodeEnds, NodeThrows, At, GaveUp
    <3>. QED  BY <3>1
  <2>9. CASE NodeAborted(f)
    BY <2>9, <2>f DEF NodeAborted, GaveUp
  <2>10. CASE FailSaved(f)
    <3>1. stream'[f].phase \in {"threw", "failed"}
      BY <2>10, <2>g DEF FailSaved
    <3>. QED  BY <3>1 DEF GaveUp
  <2>11. CASE Rethrow(f)
    BY <2>11, <2>g DEF Rethrow, GaveUp
  <2>. QED
    BY <1>6, <2>3, <2>4, <2>5, <2>6, <2>7, <2>8, <2>9, <2>10, <2>11 DEF Step
<1>. QED
  BY <1>2, <1>3, <1>4, <1>5, <1>6 DEF WalkNext, RunStep, Step

\* What an opening leaves, in the terms of the streams and executions there were.
LEMMA OpenedFits ==
  ASSUME WalkFits, NEW go, NEW throws, NEW parent, NEW above, NEW entries,
         Opened(go, throws, parent, above, entries),
         go \subseteq DOMAIN entries, DOMAIN entries \subseteq Nodes \X Ids,
         DOMAIN execution \subseteq DOMAIN entries,
         \A x \in DOMAIN execution' : execution'[x] \in EntryType,
         parent \in DOMAIN stream \cup {Root}, above \subseteq DOMAIN stream,
         \A g \in DOMAIN stream :
             stream'[g] \in [parent : DOMAIN stream \cup {Root}, above : SUBSET DOMAIN stream,
                             next : SUBSET DOMAIN execution, aborts : BOOLEAN, phase : WalkPhases],
         sent' = sent
  PROVE  StreamsFit' /\ EntriesFit' /\ SentFits' /\ Numbered'
<1>0. StreamsFit /\ EntriesFit /\ SentFits /\ Numbered
  BY DEF WalkFits
<1>. USE <1>0
<1>1. /\ DOMAIN execution' = DOMAIN entries
      /\ DOMAIN stream' = DOMAIN stream \cup {NewStream(x) : x \in go}
      /\ \A x \in go :
          stream'[NewStream(x)] =
             [parent |-> parent, above |-> above, next |-> {}, aborts |-> FALSE,
              phase |-> IF x \in throws THEN "threw" ELSE "starting"]
  BY DEF Opened
<1>2. go \in SUBSET (Nodes \X Ids)
  OBVIOUS
<1>3. Numbered'
  BY <1>1, <1>2, NumberedGrows
<1>4. \A x \in go : NewStream(x) \in Nodes \X Ids \X Nat /\ X(NewStream(x)) = x
  BY <1>2, PassesIsNat, NewIsNew, PairIs DEF NewStream
<1>5. EntriesFit'
  BY <1>1 DEF EntriesFit
<1>6. SentFits'
  BY <1>1 DEF SentFits
<1>7. ASSUME NEW g \in DOMAIN stream'
      PROVE  g \in Nodes \X Ids \X Nat /\ X(g) \in DOMAIN execution' /\ stream'[g] \in StreamType(execution, stream)'
  <2>1. CASE g \in DOMAIN stream
    <3>1. g \in Nodes \X Ids \X Nat /\ X(g) \in DOMAIN execution'
      BY <2>1, <1>1 DEF StreamsFit
    <3>2. DOMAIN stream \subseteq DOMAIN stream' /\ DOMAIN execution \subseteq DOMAIN execution'
      BY <1>1
    <3>3. stream'[g] \in [parent : DOMAIN stream \cup {Root}, above : SUBSET DOMAIN stream,
                          next : SUBSET DOMAIN execution, aborts : BOOLEAN, phase : WalkPhases]
      BY <2>1
    <3>4. stream'[g] \in StreamType(execution, stream)'
      BY <3>2, <3>3 DEF StreamType
    <3>. QED  BY <3>1, <3>4
  <2>2. CASE g \notin DOMAIN stream
    <3>1. PICK x \in go : g = NewStream(x)
      BY <1>1, <2>2
    <3>2. g \in Nodes \X Ids \X Nat /\ X(g) \in DOMAIN execution'
      BY <1>1, <1>4, <3>1
    <3>3. /\ parent \in DOMAIN stream' \cup {Root} /\ above \in SUBSET DOMAIN stream'
          /\ "threw" \in WalkPhases /\ "starting" \in WalkPhases
      BY <1>1 DEF WalkPhases, Waiting, Yielding, Over
    <3>4. stream'[g] \in StreamType(execution, stream)'
      <4>. DEFINE p == IF x \in throws THEN "threw" ELSE "starting"
      <4>1. p \in WalkPhases
        BY <3>3
      <4>2. stream'[g] = [parent |-> parent, above |-> above, next |-> {}, aborts |-> FALSE, phase |-> p]
        BY <1>1, <3>1
      <4>. HIDE DEF p
      <4>. QED  BY <4>1, <4>2, <3>3 DEF StreamType
    <3>. QED  BY <3>2, <3>4
  <2>. QED  BY <2>1, <2>2
<1>8. StreamsFit'
  BY <1>7 DEF StreamsFit
<1>. QED  BY <1>3, <1>5, <1>6, <1>8

LEMMA BehindFits ==
  ASSUME StreamsFit, NEW f \in DOMAIN stream
  PROVE  Behind(f) \subseteq Nodes \X Ids /\ \A x : Got(f, x) \subseteq Ports
<1>1. f \in Nodes \X Ids \X Nat
  BY DEF StreamsFit
<1>2. \A c \in Connections : Receiver(f, c) \in Nodes \X Ids /\ c.into \in Ports
  BY <1>1, TripleIs, ReceiverFits, WorkFlowRunAssumption
<1>. QED  BY <1>2 DEF Behind, Got, Taken


LEMMA StepFits ==
  ASSUME WalkFits, NEW f \in DOMAIN stream,
         Step(f) \/ NodeEvent(f) \/ NodeEnds(f) \/ NodeThrows(f), ~Branch(f)
  PROVE  StreamsFit' /\ EntriesFit' /\ SentFits' /\ Numbered'
<1>0. StreamsFit /\ EntriesFit /\ SentFits /\ Numbered
  BY DEF WalkFits
<1>. USE <1>0
<1>1. Advances(f)
  BY StepOf
<1>2. /\ DOMAIN stream' = DOMAIN stream
      /\ \A g \in DOMAIN stream \ {f} : stream'[g] = stream[g]
      /\ stream'[f].parent = stream[f].parent /\ stream'[f].above = stream[f].above
  BY <1>1, StepSpans
<1>3. Numbered'
  BY <1>2, OfSame
<1>4. stream[f] \in StreamType(execution, stream) /\ X(f) \in DOMAIN execution
  BY DEF StreamsFit
<1>5. \A x \in DOMAIN execution : execution[x] \in EntryType
  BY DEF EntriesFit
<1>6. Behind(f) \subseteq Nodes \X Ids /\ \A x : Got(f, x) \subseteq Ports
  BY BehindFits
<1>. DEFINE Status(e) == \E s \in Statuses : e = [execution EXCEPT ![X(f)].status = s]
            Result(e) == \E s \in Statuses, n \in Nat :
                e = [execution EXCEPT ![X(f)].status = s, ![X(f)].turn = n]
            Deliver(e) == e = [x \in DOMAIN execution \cup Behind(f) |->
                  IF x \notin DOMAIN execution
                  THEN [status |-> "pending", got |-> Got(f, x), turn |-> 0]
                  ELSE [execution[x] EXCEPT !.got = @ \cup Got(f, x)]]
            Phase(t) == \E q \in WalkPhases : t = [stream EXCEPT ![f].phase = q]
            Failed(t) == \E a \in BOOLEAN : t = [stream EXCEPT ![f].phase = "failing", ![f].aborts = a]
            After(t) == t = [stream EXCEPT ![f].phase = "forwarding", ![f].next = Behind(f)]
            Fine == \/ UNCHANGED execution /\ (Phase(stream') \/ Failed(stream'))
                    \/ Status(execution') /\ Failed(stream')
                    \/ Result(execution') /\ Phase(stream')
                    \/ Deliver(execution') /\ After(stream')
<1>7. /\ {"started", "node", "event", "ended", "done", "failed", "threw", "ending"} \subseteq WalkPhases
      /\ {"pending", "completed", "failed"} \subseteq Statuses
  BY DEF WalkPhases, Waiting, Yielding, Over, Statuses
<1>8. ASSUME NEW a \in BOOLEAN, Fail(f, a)  PROVE Fine
  BY <1>7, <1>8 DEF Fail, X
<1>9. ASSUME NEW q \in WalkPhases, Go(f, q), UNCHANGED execution  PROVE Fine
  BY <1>9 DEF Go
<1>10. ASSUME StartSaved(f) \/ NodeEvent(f) \/ EndSaved(f) \/ BranchesDone(f) \/ FailSaved(f) \/ Rethrow(f)  PROVE Fine
  BY <1>7, <1>9, <1>10 DEF StartSaved, NodeEvent, EndSaved, BranchesDone, FailSaved, Rethrow
<1>11. ASSUME BeginNode(f) \/ NodeGoesOn(f)  PROVE Fine
  <2>1. Fail(f, TRUE) \/ (Go(f, "node") /\ UNCHANGED execution)
    BY <1>11 DEF BeginNode, NodeGoesOn
  <2>. QED  BY <2>1, <1>7, <1>8, <1>9
<1>12. ASSUME NodeThrows(f) \/ NodeAborted(f)  PROVE Fine
  BY <1>8, <1>12 DEF NodeThrows, NodeAborted
<1>13. ASSUME BranchThrew(f)  PROVE Fine
  <2>1. PICK g \in Children(f) : Fail(f, stream[g].aborts)
    BY <1>13 DEF BranchThrew
  <2>2. stream[g].aborts \in BOOLEAN
    BY DEF StreamsFit, StreamType, Children
  <2>. QED  BY <2>1, <2>2, <1>8
<1>14. ASSUME NodeEnds(f)  PROVE Fine
  <2>1. PICK port \in Outputs(f[1], execution[X(f)].turn) :
          execution' = [execution EXCEPT
                ![X(f)].status = IF NewBranch(f[1], port) THEN "pending" ELSE "completed",
                ![X(f)].turn = IF f[1] \in Loops THEN @ + 1 ELSE @]
    BY <1>14 DEF NodeEnds, X
  <2>2. execution[X(f)].turn \in Nat
    BY <1>4, <1>5 DEF EntryType
  <2>. DEFINE s == IF NewBranch(f[1], port) THEN "pending" ELSE "completed"
              n == IF f[1] \in Loops THEN execution[X(f)].turn + 1 ELSE execution[X(f)].turn
  <2>3. execution' = [execution EXCEPT ![X(f)].status = s, ![X(f)].turn = n]
    BY <2>1, <1>4
  <2>4. s \in Statuses /\ n \in Nat
    BY <2>2, <1>7
  <2>5. Go(f, "ending")
    BY <1>14 DEF NodeEnds
  <2>. HIDE DEF s, n
  <2>6. Result(execution')
    BY <2>3, <2>4
  <2>7. Phase(stream')
    BY <2>5, <1>7 DEF Go
  <2>. QED  BY <2>6, <2>7
<1>15. ASSUME Forward(f)  PROVE Fine
  <2>1. CASE \A c \in Connections : c.from # f[1]
    BY <1>15, <2>1, <1>7, <1>9 DEF Forward
  <2>2. CASE ~\A c \in Connections : c.from # f[1]
    <3>1. Deliver(execution') /\ After(stream')
      BY <1>15, <2>2 DEF Forward, Behind, Got
    <3>. QED  BY <3>1
  <2>. QED  BY <2>1, <2>2
<1>16. Fine
  BY <1>10, <1>11, <1>12, <1>13, <1>14, <1>15 DEF Step
<1>17. EntriesFit' /\ DOMAIN execution \subseteq DOMAIN execution'
       /\ (Deliver(execution') => Behind(f) \subseteq DOMAIN execution')
  <2>1. CASE UNCHANGED execution
    BY <2>1 DEF EntriesFit
  <2>2. CASE Status(execution')
    BY <2>2, <1>4, <1>5 DEF EntriesFit, EntryType
  <2>3. CASE Result(execution')
    BY <2>3, <1>4, <1>5 DEF EntriesFit, EntryType
  <2>4. CASE Deliver(execution')
    <3>1. DOMAIN execution' = DOMAIN execution \cup Behind(f)
      BY <2>4
    <3>2. \A x \in DOMAIN execution' : execution'[x] \in EntryType
      BY <2>4, <1>5, <1>6, <1>7 DEF EntryType
    <3>. QED  BY <3>1, <3>2, <1>6 DEF EntriesFit
  <2>. QED  BY <1>16, <2>1, <2>2, <2>3, <2>4
<1>18. stream'[f] \in StreamType(execution, stream)'
  <2>. HIDE DEF Deliver
  <2>1. /\ stream[f].next \subseteq DOMAIN execution'
        /\ "failing" \in WalkPhases /\ "forwarding" \in WalkPhases
    BY <1>4, <1>17 DEF StreamType, WalkPhases, Waiting
  <2>2. CASE Phase(stream')
    BY <2>1, <2>2, <1>2, <1>4 DEF StreamType
  <2>3. CASE Failed(stream')
    BY <2>1, <2>3, <1>2, <1>4 DEF StreamType
  <2>4. CASE Deliver(execution') /\ After(stream')
    BY <2>1, <2>4, <1>2, <1>4, <1>17 DEF StreamType
  <2>. QED  BY <1>16, <2>2, <2>3, <2>4
<1>19. \A g \in DOMAIN stream : stream'[g] \in StreamType(execution, stream)' /\ X(g) \in DOMAIN execution'
  <2>. SUFFICES ASSUME NEW g \in DOMAIN stream, g # f
               PROVE  stream'[g] \in StreamType(execution, stream)' /\ X(g) \in DOMAIN execution'
    BY <1>4, <1>17, <1>18
  <2>1. stream'[g] = stream[g] /\ stream[g] \in StreamType(execution, stream) /\ X(g) \in DOMAIN execution
    BY <1>2 DEF StreamsFit
  <2>. QED  BY <2>1, <1>2, <1>17 DEF StreamType
<1>20. StreamsFit'
  BY <1>2, <1>19 DEF StreamsFit
<1>21. SentFits'
  <2>1. CASE sent' = sent
    BY <2>1, <1>2 DEF SentFits
  <2>2. CASE Ends(f)
    <3>1. PICK port : sent' = sent \cup {<<f[1], f[2], f[3], port>>}
      BY <2>2 DEF Ends
    <3>2. f = <<f[1], f[2], f[3]>>
      BY TripleIs DEF StreamsFit
    <3>. DEFINE new == <<f[1], f[2], f[3], port>>
    <3>3. new = <<new[1], new[2], new[3], new[4]>> /\ <<new[1], new[2], new[3]>> = f
      BY <3>2
    <3>4. sent' = sent \cup {new} /\ f \in DOMAIN stream'
      BY <3>1, <1>2
    <3>. HIDE DEF new
    <3>. QED  BY <3>3, <3>4, <1>2 DEF SentFits
  <2>. QED  BY <2>1, <2>2, <1>1 DEF Advances, Settles, Finishes, Fails, Forwards
<1>. QED  BY <1>3, <1>17, <1>20, <1>21

LEMMA BranchFits ==
  ASSUME WalkFits, NEW f \in DOMAIN stream, Branch(f)
  PROVE  StreamsFit' /\ EntriesFit' /\ SentFits' /\ Numbered'
<1>1. PICK throws : Branches(f, throws)
  BY BranchIs
<1>2. \A x \in DOMAIN execution' : execution'[x] \in EntryType
  BY BranchIs
<1>3. \A g \in DOMAIN stream : stream[g] \in StreamType(execution, stream)
  BY DEF WalkFits, StreamsFit
<1>. DEFINE Old == [parent : DOMAIN stream \cup {Root}, above : SUBSET DOMAIN stream,
                    next : SUBSET DOMAIN execution, aborts : BOOLEAN, phase : WalkPhases]
<1>4. stream'[f] \in Old
  <2>1. Branch(f) => stream'[f] = [stream[f] EXCEPT !.phase = "branches"]
    BY DEF Branch, Open
  <2>. QED  BY <2>1, <1>3 DEF StreamType, WalkPhases
<1>5. \A g \in DOMAIN stream : stream'[g] \in Old
  BY <1>1, <1>3, <1>4 DEF Branches, StreamType
<1>6. /\ stream[f].next \subseteq DOMAIN execution /\ stream[f].above \cup {f} \subseteq DOMAIN stream
      /\ DOMAIN execution \subseteq Nodes \X Ids
  BY <1>3 DEF StreamType, WalkFits, EntriesFit
<1>7. /\ Going(stream[f].next, execution) \subseteq DOMAIN execution
      /\ Opened(Going(stream[f].next, execution), throws, f, stream[f].above \cup {f}, execution)
      /\ sent' = sent
  BY <1>1, <1>6 DEF Branches, Going
<1>. QED  BY <1>2, <1>5, <1>6, <1>7, OpenedFits

LEMMA OpenRunFits ==
  ASSUME WalkFits, OpenRun
  PROVE  StreamsFit' /\ EntriesFit' /\ SentFits' /\ Numbered'
<1>1. PICK throws : Starts(throws)
  BY OpenRunIs
<1>2. /\ \A x \in DOMAIN execution' : execution'[x] \in EntryType
      /\ First \subseteq Nodes \X Ids
  BY OpenRunIs
<1>3. DOMAIN FirstEntries = First
  BY DEF FirstEntries
<1>4. /\ Opened(Going(First, FirstEntries), throws, Root, {}, FirstEntries)
      /\ DOMAIN stream = {} /\ DOMAIN execution = {} /\ sent' = sent
      /\ Going(First, FirstEntries) \subseteq First
  BY <1>1 DEF Starts, Going
<1>. QED  BY <1>2, <1>3, <1>4, OpenedFits

LEMMA EarlyKeeps ==
  ASSUME WalkFits, [WalkNext]_walkVars
  PROVE  Early'
<1>0. Early /\ StreamsFit /\ EntriesFit
  BY DEF WalkFits
<1>1. CASE UNCHANGED walkVars
  BY <1>0, <1>1 DEF walkVars, Early
<1>2. CASE Begin \/ CloseRun \/ EndRun \/ Stop \/ OpenRun
  <2>1. CASE Begin
    BY <1>0, <2>1 DEF Begin, Early
  <2>2. CASE CloseRun \/ EndRun \/ OpenRun
    <3>1. run'.phase \in {"closing", "ended", "merging"}
      BY <2>2 DEF CloseRun, EndRun, OpenRun, WalkFits, RestFits
    <3>. QED  BY <3>1 DEF Early
  <2>3. CASE Stop
    BY <1>0, <2>3 DEF Stop, Early
  <2>. QED  BY <1>2, <2>1, <2>2, <2>3
<1>3. CASE \E f \in DOMAIN stream : Step(f) \/ NodeEvent(f) \/ NodeEnds(f) \/ NodeThrows(f) \/ OrphanEnds(f)
  <2>1. PICK f \in DOMAIN stream : Step(f) \/ NodeEvent(f) \/ NodeEnds(f) \/ NodeThrows(f) \/ OrphanEnds(f)
    BY <1>3
  <2>2. run' = run
    BY <2>1 DEF Step, StartSaved, BeginNode, NodeGoesOn, NodeAborted, EndSaved, Forward, Branch,
       BranchesDone, BranchThrew, FailSaved, Rethrow, NodeEvent, NodeEnds, NodeThrows, OrphanEnds
  <2>. QED  BY <1>0, <2>1, <2>2 DEF Early
<1>. QED  BY <1>1, <1>2, <1>3 DEF WalkNext, RunStep

LEMMA WalkFitsKeeps ==
  ASSUME WalkFits, [WalkNext]_walkVars
  PROVE  WalkFits'
<1>1. StreamsFit' /\ EntriesFit' /\ SentFits' /\ Numbered' /\ DOMAIN stream \subseteq DOMAIN stream'
  <2>0. StreamsFit /\ EntriesFit /\ SentFits /\ Numbered
    BY DEF WalkFits
  <2>1. CASE UNCHANGED <<execution, stream, sent>>
    <3>1. Numbered'
      BY <2>0, <2>1, OfSame
    <3>. QED  BY <2>0, <2>1, <3>1 DEF StreamsFit, EntriesFit, SentFits, StreamType
  <2>2. CASE OpenRun
    BY <2>2, OpenRunFits DEF OpenRun, WalkFits, Early
  <2>3. ASSUME NEW f \in DOMAIN stream, Branch(f)  PROVE StreamsFit' /\ EntriesFit' /\ SentFits' /\ Numbered' /\ DOMAIN stream \subseteq DOMAIN stream'
    <3>1. DOMAIN stream \subseteq DOMAIN stream'
      BY <2>3, BranchIs DEF Branches, Opened
    <3>. QED  BY <2>3, <3>1, BranchFits
  <2>4. ASSUME NEW f \in DOMAIN stream,
               Step(f) \/ NodeEvent(f) \/ NodeEnds(f) \/ NodeThrows(f), ~Branch(f)
        PROVE  StreamsFit' /\ EntriesFit' /\ SentFits' /\ Numbered' /\ DOMAIN stream \subseteq DOMAIN stream'
    <3>1. DOMAIN stream \subseteq DOMAIN stream'
      BY <2>0, <2>4, StepOf, StepSpans
    <3>. QED  BY <2>4, <3>1, StepFits
  <2>5. ASSUME UNCHANGED walkVars \/ Begin \/ CloseRun \/ EndRun \/ Stop
                  \/ \E f \in DOMAIN stream : OrphanEnds(f)
        PROVE  UNCHANGED <<execution, stream, sent>>
    BY <2>5 DEF walkVars, Begin, CloseRun, EndRun, Stop, OrphanEnds
  <2>. QED  BY <2>1, <2>2, <2>3, <2>4, <2>5 DEF WalkNext, RunStep, Step
<1>. QED  BY <1>1, RestKeeps, HoldingKeeps, EarlyKeeps DEF WalkFits

LEMMA WalkFitsInitially ==
  ASSUME WalkInit
  PROVE  WalkFits
<1>1. DOMAIN stream = {} /\ DOMAIN execution = {}
  BY DEF WalkInit
<1>2. \A x : Of(x) = {} /\ Passes(x) = 0
  BY <1>1, FS_EmptySet DEF Of, Passes
<1>3. Numbered
  BY <1>2, FS_EmptySet DEF Numbered
<1>4. RestFits
  BY <1>1 DEF WalkInit, RestFits, Statuses
<1>. QED
  BY <1>1, <1>3, <1>4 DEF WalkInit, WalkFits, StreamsFit, EntriesFit, SentFits, Holding, Early

-----------------------------------------------------------------------------
(***************************************************************************)
(* Executions and the streams that run them.                               *)
(***************************************************************************)
\* The stream that works is the last one, and the entry knows of it.
OneTurn ==
    \A f \in DOMAIN stream : stream[f].phase \in Working =>
        /\ f[3] = Passes(X(f)) /\ execution[X(f)].status \in {"running", "failed"}

RunningRuns ==
    \A x \in DOMAIN execution : execution[x].status = "running" =>
        \E f \in Of(x) : stream[f].phase \in Working

FailedFailed ==
    \A x \in DOMAIN execution : execution[x].status = "failed" =>
        \E f \in Of(x) : stream[f].phase \in GaveUp

\* A node that is no loop is pending until it begins, and then no more.
BegunOnce ==
    \A f \in DOMAIN stream : f[1] \notin Loops /\ stream[f].phase # "threw" =>
        execution[X(f)].status # "pending"

NoneTwice ==
    \A f, g \in DOMAIN stream : f # g /\ X(f) = X(g) =>
        f[1] \in Loops \/ stream[f].phase = "threw" \/ stream[g].phase = "threw"

Turns == OneTurn /\ RunningRuns /\ FailedFailed /\ BegunOnce /\ NoneTwice

\* What a step of a stream does to its phase and to the statuses.
Marks(f) ==
    /\ \A y \in DOMAIN execution \ {X(f)} : execution'[y].status = execution[y].status
    /\ \A y \in DOMAIN execution' \ DOMAIN execution : execution'[y].status = "pending"
    /\ \/ /\ execution'[X(f)].status = execution[X(f)].status
          /\ (stream[f].phase \in Working <=> stream'[f].phase \in Working)
          /\ (stream[f].phase \in GaveUp <=> stream'[f].phase \in GaveUp)
       \/ execution'[X(f)].status = "failed" /\ stream'[f].phase = "failing"
       \/ /\ stream[f].phase = "node" /\ stream'[f].phase = "ending"
          /\ execution'[X(f)].status \in {"pending", "completed"}
          /\ f[1] \notin Loops => execution'[X(f)].status = "completed"

LEMMA StepMarks ==
  ASSUME WalkFits, NEW f, Advances(f)
  PROVE  Marks(f) /\ stream[f].phase # "threw" /\ DOMAIN execution \subseteq DOMAIN execution'
<1>1. f \in DOMAIN stream /\ X(f) \in DOMAIN execution
  BY StepSpans DEF WalkFits, StreamsFit
<1>2. CASE Settles(f)
  BY <1>1, <1>2 DEF Settles, Marks, Working, GaveUp
<1>3. CASE Finishes(f)
  BY <1>1, <1>3 DEF Finishes, Moves, Marks, Working, GaveUp
<1>4. CASE Fails(f)
  BY <1>1, <1>4 DEF Fails, Moves, Sets, Marks
<1>5. CASE Ends(f)
  BY <1>1, <1>5 DEF Ends, Moves, Sets, Marks, NewBranch
<1>6. CASE Forwards(f)
  BY <1>1, <1>6 DEF Forwards, Moves, Marks, Working, GaveUp
<1>. QED  BY <1>2, <1>3, <1>4, <1>5, <1>6 DEF Advances

LEMMA TurnsStep ==
  ASSUME WalkFits, Turns, NEW f, Advances(f)
  PROVE  Turns'
<1>1. /\ f \in DOMAIN stream /\ DOMAIN stream' = DOMAIN stream
      /\ \A g \in DOMAIN stream \ {f} : stream'[g] = stream[g]
  BY StepSpans
<1>2. Marks(f) /\ stream[f].phase # "threw" /\ DOMAIN execution \subseteq DOMAIN execution'
  BY StepMarks
<1>3. \A x : Of(x)' = Of(x) /\ Passes(x)' = Passes(x)
  BY <1>1, OfSame
<1>4. /\ \A g \in DOMAIN stream : X(g) \in DOMAIN execution /\ g \in Nodes \X Ids \X Nat
      /\ \A x : Of(x) = {g \in DOMAIN stream : X(g) = x}
  BY DEF WalkFits, StreamsFit, Of, X
<1>5. \A g \in DOMAIN stream : stream[g].phase \in Working /\ stream[f].phase \in Working /\ X(g) = X(f) => g = f
  <2>. SUFFICES ASSUME NEW g \in DOMAIN stream, stream[g].phase \in Working, stream[f].phase \in Working, X(g) = X(f)
               PROVE  g = f
    OBVIOUS
  <2>1. g[3] = f[3]
    BY <1>1 DEF Turns, OneTurn
  <2>2. g = <<g[1], g[2], g[3]>> /\ f = <<f[1], f[2], f[3]>>
    BY <1>1, <1>4, TripleIs
  <2>. QED  BY <2>1, <2>2 DEF X
<1>6. "node" \in Working /\ "failing" \in GaveUp /\ "failing" \notin Working /\ "ending" \notin Working
      /\ "ending" \notin GaveUp /\ "node" \notin GaveUp /\ "threw" \in GaveUp
  BY DEF Working, GaveUp
<1>7. OneTurn'
  <2>. SUFFICES ASSUME NEW g \in DOMAIN stream, stream'[g].phase \in Working
               PROVE  g[3] = Passes(X(g)) /\ execution'[X(g)].status \in {"running", "failed"}
    BY <1>1, <1>3 DEF OneTurn, X
  <2>1. CASE g = f
    BY <2>1, <1>1, <1>2, <1>6 DEF Marks, Turns, OneTurn
  <2>2. CASE g # f
    <3>1. stream[g].phase \in Working
      BY <1>1, <2>2
    <3>2. g[3] = Passes(X(g)) /\ execution[X(g)].status \in {"running", "failed"}
      BY <3>1 DEF Turns, OneTurn
    <3>3. CASE X(g) = X(f)
      BY <3>1, <3>2, <3>3, <2>2, <1>2, <1>5, <1>6 DEF Marks
    <3>4. CASE X(g) # X(f)
      BY <3>2, <3>4, <1>2, <1>4 DEF Marks
    <3>. QED  BY <3>3, <3>4
  <2>. QED  BY <2>1, <2>2
<1>8. RunningRuns'
  <2>. SUFFICES ASSUME NEW x \in DOMAIN execution', execution'[x].status = "running"
               PROVE  \E g \in Of(x) : stream'[g].phase \in Working
    BY <1>3 DEF RunningRuns
  <2>1. x \in DOMAIN execution /\ execution[x].status = "running"
    BY <1>2 DEF Marks
  <2>2. PICK g \in Of(x) : stream[g].phase \in Working
    BY <2>1 DEF Turns, RunningRuns
  <2>3. CASE g = f
    BY <2>2, <2>3, <1>2, <1>4 DEF Marks
  <2>4. CASE g # f
    BY <2>2, <2>4, <1>1, <1>4
  <2>. QED  BY <2>3, <2>4
<1>9. FailedFailed'
  <2>. SUFFICES ASSUME NEW x \in DOMAIN execution', execution'[x].status = "failed"
               PROVE  \E g \in Of(x) : stream'[g].phase \in GaveUp
    BY <1>3 DEF FailedFailed
  <2>1. CASE x \in DOMAIN execution /\ execution[x].status = "failed"
    <3>1. PICK g \in Of(x) : stream[g].phase \in GaveUp
      BY <2>1 DEF Turns, FailedFailed
    <3>2. CASE g = f
      BY <3>1, <3>2, <1>2, <1>4, <1>6 DEF Marks
    <3>3. CASE g # f
      BY <3>1, <3>3, <1>1, <1>4
    <3>. QED  BY <3>2, <3>3
  <2>2. CASE ~(x \in DOMAIN execution /\ execution[x].status = "failed")
    <3>1. x = X(f) /\ stream'[f].phase = "failing"
      BY <2>2, <1>2, <1>4 DEF Marks
    <3>. QED  BY <3>1, <1>1, <1>4, <1>6
  <2>. QED  BY <2>1, <2>2
<1>10. BegunOnce'
  <2>. SUFFICES ASSUME NEW g \in DOMAIN stream, g[1] \notin Loops, stream'[g].phase # "threw"
               PROVE  execution'[X(g)].status # "pending"
    BY <1>1 DEF BegunOnce, X
  <2>1. stream[g].phase # "threw"
    BY <1>1, <1>2
  <2>2. execution[X(g)].status # "pending"
    BY <2>1 DEF Turns, BegunOnce
  <2>3. CASE X(g) = X(f)
    BY <2>2, <2>3, <1>2 DEF Marks, X
  <2>4. CASE X(g) # X(f)
    BY <2>2, <2>4, <1>2, <1>4 DEF Marks
  <2>. QED  BY <2>3, <2>4
<1>11. NoneTwice'
  <2>1. \A g \in DOMAIN stream : stream[g].phase = "threw" => stream'[g].phase = "threw"
    BY <1>1, <1>2
  <2>. QED  BY <2>1, <1>1 DEF Turns, NoneTwice, X
<1>. QED  BY <1>7, <1>8, <1>9, <1>10, <1>11 DEF Turns

-----------------------------------------------------------------------------
\* What Branch and OpenRun have in common: of the entries that can start, those in `go` do.
Opens(go, throws, parent, above, entries) ==
    /\ Opened(go, throws, parent, above, entries)
    /\ \A x \in go : entries[x].status = "pending"
    /\ go \subseteq DOMAIN entries /\ DOMAIN entries \subseteq Nodes \X Ids
    /\ DOMAIN execution \subseteq DOMAIN entries
    /\ \A x \in DOMAIN execution : entries[x] = execution[x]
    /\ \A x \in DOMAIN entries \ DOMAIN execution : entries[x].status = "pending"
    /\ \A g \in DOMAIN stream :
          /\ stream'[g].parent = stream[g].parent /\ stream'[g].above = stream[g].above
          /\ stream'[g].next = stream[g].next
          /\ \/ stream'[g].phase = stream[g].phase
             \/ stream[g].phase = "forwarding" /\ stream'[g].phase = "branches"
    /\ sent' = sent /\ stopped' = stopped

LEMMA BranchOpens ==
  ASSUME WalkFits, NEW f, NEW throws, Branches(f, throws)
  PROVE  Opens(Going(stream[f].next, execution), throws, f, stream[f].above \cup {f}, execution)
<1>1. /\ f \in DOMAIN stream /\ stream[f].phase = "forwarding"
      /\ Opened(Going(stream[f].next, execution), throws, f, stream[f].above \cup {f}, execution)
      /\ \A g \in DOMAIN stream \ {f} : stream'[g] = stream[g]
      /\ stream'[f].phase = "branches" /\ stream'[f].parent = stream[f].parent
      /\ stream'[f].above = stream[f].above /\ stream'[f].next = stream[f].next
      /\ sent' = sent /\ stopped' = stopped
  BY DEF Branches
<1>2. stream[f].next \subseteq DOMAIN execution /\ DOMAIN execution \subseteq Nodes \X Ids
  BY <1>1 DEF WalkFits, StreamsFit, EntriesFit, StreamType
<1>3. \A x \in Going(stream[f].next, execution) : x \in DOMAIN execution /\ execution[x].status = "pending"
  BY <1>2 DEF Going, Startable
<1>. QED  BY <1>1, <1>2, <1>3 DEF Opens

LEMMA StartsOpens ==
  ASSUME WalkFits, NEW throws, Starts(throws)
  PROVE  Opens(Going(First, FirstEntries), throws, Root, {}, FirstEntries)
<1>1. First \subseteq Nodes \X Ids
  <2>1. <<>> \in Ids
    BY DEF Ids
  <2>. QED  BY <2>1 DEF First
<1>2. DOMAIN FirstEntries = First /\ \A x \in First : FirstEntries[x].status = "pending"
  BY DEF FirstEntries
<1>3. Going(First, FirstEntries) \subseteq First
  BY DEF Going
<1>. QED  BY <1>1, <1>2, <1>3 DEF Opens, Starts

\* Every step of a run: nothing for the streams, a stream advances, or streams are opened.
LEMMA Course ==
  ASSUME WalkFits, [WalkNext]_walkVars
  PROVE  /\ stopped => stopped'
         /\ \/ Stays
            \/ \E throws : Starts(throws)
            \/ \E f \in DOMAIN stream : Advances(f)
            \/ \E f, throws : Branches(f, throws)
<1>1. StreamsFit /\ EntriesFit
  BY DEF WalkFits
<1>2. (stopped => stopped') /\ (Stays \/ OpenRun \/ \E f \in DOMAIN stream : Advances(f) \/ Branch(f))
  BY <1>1, StepsAre
<1>3. ASSUME OpenRun  PROVE \E throws : Starts(throws)
  BY <1>3, OpenRunIs
<1>4. ASSUME NEW f, Branch(f)  PROVE \E throws : Branches(f, throws)
  BY <1>4, BranchIs
<1>. QED  BY <1>2, <1>3, <1>4

LEMMA TurnsOpen ==
  ASSUME WalkFits, Turns, NEW go, NEW throws, NEW parent, NEW above, NEW entries,
         Opens(go, throws, parent, above, entries)
  PROVE  Turns'
<1>1. /\ DOMAIN execution' = DOMAIN entries /\ throws \subseteq go
      /\ \A x \in DOMAIN entries :
            execution'[x].status = IF x \in go \ throws THEN "running" ELSE entries[x].status
      /\ DOMAIN stream' = DOMAIN stream \cup {NewStream(x) : x \in go}
      /\ \A x \in go : /\ x \in throws => stream'[NewStream(x)].phase = "threw"
                       /\ x \notin throws => stream'[NewStream(x)].phase = "starting"
  <2>. USE DEF Opens, Opened
  <2>1. ASSUME NEW x \in throws  PROVE stream'[NewStream(x)].phase = "threw"
    <3>1. stream'[NewStream(x)] = [parent |-> parent, above |-> above, next |-> {}, aborts |-> FALSE,
                                   phase |-> "threw"]
      BY <2>1
    <3>. QED  BY <3>1
  <2>2. ASSUME NEW x \in go, x \notin throws  PROVE stream'[NewStream(x)].phase = "starting"
    <3>1. stream'[NewStream(x)] = [parent |-> parent, above |-> above, next |-> {}, aborts |-> FALSE,
                                   phase |-> "starting"]
      BY <2>2
    <3>. QED  BY <3>1
  <2>. QED  BY <2>1, <2>2
<1>2. /\ \A x \in go : entries[x].status = "pending"
      /\ go \subseteq DOMAIN entries /\ go \in SUBSET (Nodes \X Ids)
      /\ DOMAIN execution \subseteq DOMAIN entries
      /\ \A x \in DOMAIN execution : entries[x].status = execution[x].status
      /\ \A x \in DOMAIN entries \ DOMAIN execution : entries[x].status = "pending"
  BY DEF Opens
<1>3. \A g \in DOMAIN stream : \/ stream'[g].phase = stream[g].phase
                               \/ stream[g].phase = "forwarding" /\ stream'[g].phase = "branches"
  BY DEF Opens
<1>4. \A g \in DOMAIN stream : /\ stream'[g].phase \in Working <=> stream[g].phase \in Working
                               /\ stream'[g].phase \in GaveUp <=> stream[g].phase \in GaveUp
                               /\ stream'[g].phase = "threw" <=> stream[g].phase = "threw"
  BY <1>3 DEF Working, GaveUp
<1>5. /\ \A g \in DOMAIN stream : X(g) \in DOMAIN execution /\ g \in Nodes \X Ids \X Nat /\ X(g) \in Nodes \X Ids
      /\ Numbered
  BY TripleIs DEF WalkFits, StreamsFit
<1>6. \A x \in go : NewStream(x) \notin DOMAIN stream /\ X(NewStream(x)) = x /\ NewStream(x)[3] = Passes(x) + 1
  BY <1>2, <1>5, NewIsNew DEF NewStream
<1>7. \A x \in Nodes \X Ids :
         /\ x \in go => Of(x)' = Of(x) \cup {NewStream(x)} /\ Passes(x)' = Passes(x) + 1
         /\ x \notin go => Of(x)' = Of(x) /\ Passes(x)' = Passes(x)
  BY <1>1, <1>2, <1>5, OfGrows
<1>8. "starting" \in Working /\ "threw" \notin Working /\ "starting" \notin GaveUp
  BY DEF Working, GaveUp
<1>9. /\ \A x : Of(x) = {g \in DOMAIN stream : X(g) = x}
      /\ DOMAIN entries \subseteq Nodes \X Ids
  BY DEF Of, X, Opens
<1>10. \A g \in DOMAIN stream' \ DOMAIN stream :
          \E x \in go : /\ g = NewStream(x) /\ X(g) = x /\ g[3] = Passes(x) + 1
                        /\ (x \in throws => stream'[g].phase = "threw") /\ (x \notin throws => stream'[g].phase = "starting")
  BY <1>1, <1>6
<1>11. OneTurn'
  <2>. SUFFICES ASSUME NEW g \in DOMAIN stream', stream'[g].phase \in Working
               PROVE  g[3] = Passes(X(g))' /\ execution'[X(g)].status \in {"running", "failed"}
    BY DEF OneTurn, X
  <2>1. CASE g \in DOMAIN stream
    <3>1. g[3] = Passes(X(g)) /\ execution[X(g)].status \in {"running", "failed"}
      BY <2>1, <1>4 DEF Turns, OneTurn
    <3>2. X(g) \notin go
      BY <3>1, <2>1, <1>2, <1>5
    <3>. QED  BY <3>1, <3>2, <2>1, <1>1, <1>2, <1>5, <1>7
  <2>2. CASE g \notin DOMAIN stream
    <3>1. PICK x \in go : /\ X(g) = x /\ g[3] = Passes(x) + 1
                          /\ (x \in throws => stream'[g].phase = "threw") /\ (x \notin throws => stream'[g].phase = "starting")
      BY <2>2, <1>10
    <3>2. x \in go \ throws
      BY <3>1, <1>8
    <3>3. execution'[x].status = "running"
      BY <3>2, <1>1, <1>2
    <3>. QED  BY <3>1, <3>3, <1>2, <1>7
  <2>. QED  BY <2>1, <2>2
<1>12. RunningRuns'
  <2>. SUFFICES ASSUME NEW x \in DOMAIN execution', execution'[x].status = "running"
               PROVE  \E g \in Of(x)' : stream'[g].phase \in Working
    BY DEF RunningRuns
  <2>0. x \in Nodes \X Ids
    BY <1>1, <1>9
  <2>1. CASE x \in go \ throws
    <3>1. stream'[NewStream(x)].phase = "starting"
      BY <2>1, <1>1
    <3>. QED  BY <3>1, <2>0, <2>1, <1>7, <1>8
  <2>2. CASE x \notin go \ throws
    <3>1. x \in DOMAIN execution /\ execution[x].status = "running"
      BY <2>2, <1>1, <1>2
    <3>2. PICK g \in Of(x) : stream[g].phase \in Working
      BY <3>1 DEF Turns, RunningRuns
    <3>3. g \in Of(x)'
      BY <3>2, <2>0, <1>7
    <3>. QED  BY <3>2, <3>3, <1>4, <1>9
  <2>. QED  BY <2>1, <2>2
<1>13. FailedFailed'
  <2>. SUFFICES ASSUME NEW x \in DOMAIN execution', execution'[x].status = "failed"
               PROVE  \E g \in Of(x)' : stream'[g].phase \in GaveUp
    BY DEF FailedFailed
  <2>0. x \in Nodes \X Ids
    BY <1>1, <1>9
  <2>1. x \in DOMAIN execution /\ execution[x].status = "failed"
    BY <1>1, <1>2
  <2>2. PICK g \in Of(x) : stream[g].phase \in GaveUp
    BY <2>1 DEF Turns, FailedFailed
  <2>3. g \in Of(x)'
    BY <2>2, <2>0, <1>7
  <2>. QED  BY <2>2, <2>3, <1>4, <1>9
<1>14. BegunOnce'
  <2>. SUFFICES ASSUME NEW g \in DOMAIN stream', g[1] \notin Loops, stream'[g].phase # "threw"
               PROVE  execution'[X(g)].status # "pending"
    BY DEF BegunOnce, X
  <2>1. CASE g \in DOMAIN stream
    <3>1. execution[X(g)].status # "pending"
      BY <2>1, <1>4 DEF Turns, BegunOnce
    <3>. QED  BY <3>1, <2>1, <1>1, <1>2, <1>5
  <2>2. CASE g \notin DOMAIN stream
    <3>1. PICK x \in go : X(g) = x /\ (x \in throws => stream'[g].phase = "threw") /\ (x \notin throws => stream'[g].phase = "starting")
      BY <2>2, <1>10
    <3>. QED  BY <3>1, <1>1, <1>2
  <2>. QED  BY <2>1, <2>2
<1>15. NoneTwice'
  <2>1. ASSUME NEW f \in DOMAIN stream, NEW x \in go, X(f) = x, f[1] \notin Loops
        PROVE  stream'[f].phase = "threw"
    <3>1. execution[X(f)].status = "pending"
      BY <2>1, <1>2, <1>5
    <3>. QED  BY <3>1, <2>1, <1>4 DEF Turns, BegunOnce
  <2>. SUFFICES ASSUME NEW f \in DOMAIN stream', NEW g \in DOMAIN stream', f # g, X(f) = X(g),
                       f[1] \notin Loops
               PROVE  stream'[f].phase = "threw" \/ stream'[g].phase = "threw"
    BY DEF NoneTwice, X
  <2>e. f[1] = g[1]
    BY DEF X
  <2>2. CASE f \in DOMAIN stream /\ g \in DOMAIN stream
    BY <2>2, <1>4 DEF Turns, NoneTwice
  <2>3. CASE f \in DOMAIN stream /\ g \notin DOMAIN stream
    BY <2>1, <2>3, <1>10
  <2>4. CASE f \notin DOMAIN stream /\ g \in DOMAIN stream
    BY <2>1, <2>4, <2>e, <1>10
  <2>5. CASE f \notin DOMAIN stream /\ g \notin DOMAIN stream
    BY <2>5, <1>10
  <2>. QED  BY <2>2, <2>3, <2>4, <2>5
<1>. QED  BY <1>11, <1>12, <1>13, <1>14, <1>15 DEF Turns

LEMMA TurnsKeep ==
  ASSUME WalkFits, Turns, [WalkNext]_walkVars
  PROVE  Turns'
<1>1. CASE Stays
  <2>1. \A x : Of(x)' = Of(x) /\ Passes(x)' = Passes(x)
    BY <1>1, OfSame DEF Stays
  <2>2. UNCHANGED <<execution, stream>>
    BY <1>1 DEF Stays
  <2>. QED  BY <2>1, <2>2 DEF Turns, OneTurn, RunningRuns, FailedFailed, BegunOnce, NoneTwice, X
<1>2. ASSUME NEW throws, Starts(throws)  PROVE Turns'
  BY <1>2, StartsOpens, TurnsOpen
<1>3. ASSUME NEW f, NEW throws, Branches(f, throws)  PROVE Turns'
  BY <1>3, BranchOpens, TurnsOpen
<1>. QED  BY <1>1, <1>2, <1>3, Course, TurnsStep

\* The one who works is alone.
LEMMA OneWorks ==
  ASSUME WalkFits, Turns, NEW f \in DOMAIN stream, NEW g \in DOMAIN stream, X(f) = X(g),
         stream[f].phase \in Working, stream[g].phase \in Working
  PROVE  f = g
<1>1. f[3] = g[3]
  BY DEF Turns, OneTurn
<1>2. f = <<f[1], f[2], f[3]>> /\ g = <<g[1], g[2], g[3]>>
  BY TripleIs DEF WalkFits, StreamsFit
<1>. QED  BY <1>1, <1>2 DEF X

LEMMA TurnsAreOne ==
  ASSUME WalkFits, Turns
  PROVE  NoNodeTwice
  BY OneWorks DEF NoNodeTwice, Turns, NoneTwice, X

-----------------------------------------------------------------------------
(***************************************************************************)
(* The tree of streams.                                                    *)
(***************************************************************************)
\* The ancestors of a stream lead from its parent to the run, one after the other.
Lineage ==
    \A g \in DOMAIN stream :
        /\ \A h \in stream[g].above :
              h = stream[g].parent \/ \E k \in stream[g].above : stream[k].parent = h
        /\ stream[g].parent = Root \/ \E k \in stream[g].above : stream[k].parent = Root

\* They merge, or have ended; and have ended only after what is behind them.
Parted == {"branches", "done"} \cup GaveUp

Outlasts ==
    \A g \in DOMAIN stream : \A h \in stream[g].above :
        /\ stream[h].phase \in Parted
        /\ stream[h].phase = "done" => stream[g].phase = "done"

Tree == Lineage /\ Outlasts

\* What becomes of the phase of a stream that advances.
LEMMA AdvanceIs ==
  ASSUME NEW f, Advances(f)
  PROVE  /\ stream[f].phase \in Parted => stream'[f].phase \in Parted
         /\ stream[f].phase \notin {"done", "threw"}
         /\ stream'[f].phase = "done" => Finishes(f)
<1>1. CASE Settles(f)
  BY <1>1 DEF Settles, Parted, GaveUp
<1>2. CASE Finishes(f)
  BY <1>2 DEF Finishes, Moves, Parted, GaveUp
<1>3. CASE Fails(f)
  BY <1>3 DEF Fails, Moves, Parted, GaveUp
<1>4. CASE Ends(f)
  BY <1>4 DEF Ends, Moves, Parted, GaveUp
<1>5. CASE Forwards(f)
  BY <1>5 DEF Forwards, Moves, Parted, GaveUp
<1>. QED  BY <1>1, <1>2, <1>3, <1>4, <1>5 DEF Advances

LEMMA TreeStep ==
  ASSUME WalkFits, Tree, NEW f, Advances(f)
  PROVE  Tree'
<1>1. /\ f \in DOMAIN stream /\ DOMAIN stream' = DOMAIN stream
      /\ \A g \in DOMAIN stream \ {f} : stream'[g] = stream[g]
      /\ stream'[f].parent = stream[f].parent /\ stream'[f].above = stream[f].above
  BY StepSpans
<1>2. \A g \in DOMAIN stream : stream'[g].parent = stream[g].parent /\ stream'[g].above = stream[g].above
  BY <1>1
<1>3. \A g \in DOMAIN stream : stream[g].above \subseteq DOMAIN stream
  BY DEF WalkFits, StreamsFit, StreamType
<1>4. Lineage'
  <2>. SUFFICES ASSUME NEW g \in DOMAIN stream
               PROVE  /\ \A h \in stream[g].above :
                            h = stream[g].parent \/ \E k \in stream[g].above : stream'[k].parent = h
                      /\ stream[g].parent = Root \/ \E k \in stream[g].above : stream'[k].parent = Root
    BY <1>1, <1>2 DEF Lineage
  <2>1. \A k \in stream[g].above : stream'[k].parent = stream[k].parent
    BY <1>2, <1>3
  <2>. QED  BY <2>1 DEF Tree, Lineage
<1>5. ASSUME NEW g \in DOMAIN stream, NEW h \in stream[g].above
      PROVE  stream'[h].phase \in Parted
  <2>1. h \in DOMAIN stream /\ stream[h].phase \in Parted
    BY <1>3 DEF Tree, Outlasts
  <2>. QED  BY <2>1, <1>1, AdvanceIs
<1>6. ASSUME NEW g \in DOMAIN stream, NEW h \in stream[g].above, stream'[h].phase = "done"
      PROVE  stream'[g].phase = "done"
  <2>0. h \in DOMAIN stream /\ stream[h].phase \in Parted
    BY <1>3, <1>6 DEF Tree, Outlasts
  <2>. SUFFICES stream[g].phase = "done"
    BY <1>1, AdvanceIs
  <2>1. CASE stream[h].phase = "done"
    BY <2>1, <1>6 DEF Tree, Outlasts
  <2>2. CASE stream[h].phase # "done"
    <3>1. h = f /\ Finishes(f)
      BY <2>0, <2>2, <1>1, <1>6, AdvanceIs
    <3>2. stream[f].phase = "branches"
      BY <3>1, <2>0 DEF Finishes, Moves, Parted, GaveUp
    <3>3. \A k \in Children(f) : stream[k].phase = "done"
      BY <3>1, <3>2 DEF Finishes
    <3>4. CASE h = stream[g].parent
      BY <3>1, <3>3, <3>4 DEF Children
    <3>5. CASE h # stream[g].parent
      <4>1. PICK k \in stream[g].above : stream[k].parent = h
        BY <3>5, <1>6 DEF Tree, Lineage
      <4>2. stream[k].phase = "done"
        BY <4>1, <3>1, <3>3, <1>3 DEF Children
      <4>. QED  BY <4>1, <4>2 DEF Tree, Outlasts
    <3>. QED  BY <3>4, <3>5
  <2>. QED  BY <2>1, <2>2
<1>7. Outlasts'
  BY <1>1, <1>2, <1>5, <1>6 DEF Outlasts
<1>. QED  BY <1>4, <1>7 DEF Tree

\* What is known of the streams an opening adds.
NewOnes(go, parent, above) ==
    /\ DOMAIN stream' = DOMAIN stream \cup {NewStream(x) : x \in go}
    /\ \A x \in go :
          /\ NewStream(x) \notin DOMAIN stream /\ X(NewStream(x)) = x
          /\ NewStream(x)[3] = Passes(x) + 1
    /\ \A g \in DOMAIN stream' \ DOMAIN stream : \E x \in go :
          /\ g = NewStream(x) /\ X(g) = x
          /\ stream'[g].parent = parent /\ stream'[g].above = above
          /\ stream'[g].next = {} /\ stream'[g].phase \in {"starting", "threw"}

LEMMA OpensAre ==
  ASSUME WalkFits, NEW go, NEW throws, NEW parent, NEW above, NEW entries,
         Opens(go, throws, parent, above, entries)
  PROVE  NewOnes(go, parent, above)
<1>1. /\ DOMAIN stream' = DOMAIN stream \cup {NewStream(x) : x \in go}
      /\ \A x \in go :
          stream'[NewStream(x)] =
             [parent |-> parent, above |-> above, next |-> {}, aborts |-> FALSE,
              phase |-> IF x \in throws THEN "threw" ELSE "starting"]
  BY DEF Opens, Opened
<1>2. go \in SUBSET (Nodes \X Ids) /\ Numbered
  BY DEF Opens, WalkFits
<1>3. \A x \in go : NewStream(x) \notin DOMAIN stream /\ X(NewStream(x)) = x
  BY <1>2, NewIsNew
<1>4. \A x \in go : NewStream(x)[3] = Passes(x) + 1
  BY DEF NewStream
<1>5. ASSUME NEW x \in go, NEW g, g = NewStream(x)
      PROVE  /\ stream'[g].parent = parent /\ stream'[g].above = above
             /\ stream'[g].next = {} /\ stream'[g].phase \in {"starting", "threw"}
  <2>1. CASE x \in throws
    <3>1. stream'[g] = [parent |-> parent, above |-> above, next |-> {}, aborts |-> FALSE, phase |-> "threw"]
      BY <2>1, <1>1, <1>5
    <3>. QED  BY <3>1
  <2>2. CASE x \notin throws
    <3>1. stream'[g] = [parent |-> parent, above |-> above, next |-> {}, aborts |-> FALSE, phase |-> "starting"]
      BY <2>2, <1>1, <1>5
    <3>. QED  BY <3>1
  <2>. QED  BY <2>1, <2>2
<1>. QED  BY <1>1, <1>3, <1>4, <1>5 DEF NewOnes

LEMMA TreeBranch ==
  ASSUME WalkFits, Tree, NEW f, NEW throws, Branches(f, throws)
  PROVE  Tree'
<1>. DEFINE go == Going(stream[f].next, execution)
<1>1. Opens(go, throws, f, stream[f].above \cup {f}, execution)
  BY BranchOpens
<1>. HIDE DEF go
<1>2. /\ f \in DOMAIN stream /\ stream[f].phase = "forwarding" /\ stream'[f].phase = "branches"
      /\ \A g \in DOMAIN stream \ {f} : stream'[g] = stream[g]
      /\ stream'[f].parent = stream[f].parent /\ stream'[f].above = stream[f].above
  BY DEF Branches
<1>3. /\ DOMAIN stream \subseteq DOMAIN stream'
      /\ \A g \in DOMAIN stream' \ DOMAIN stream :
            stream'[g].parent = f /\ stream'[g].above = stream[f].above \cup {f}
  <2>1. NewOnes(go, f, stream[f].above \cup {f})
    BY <1>1, OpensAre
  <2>. QED  BY <2>1 DEF NewOnes
<1>4. \A g \in DOMAIN stream : stream[g].above \subseteq DOMAIN stream
  BY DEF WalkFits, StreamsFit, StreamType
<1>5. \A g \in DOMAIN stream : stream'[g].parent = stream[g].parent /\ stream'[g].above = stream[g].above
  BY <1>2
<1>6. \A h \in stream[f].above : stream[h].phase \in Parted /\ stream[h].phase # "done"
  BY <1>2 DEF Tree, Outlasts
<1>7. Lineage'
  <2>. SUFFICES ASSUME NEW g \in DOMAIN stream'
               PROVE  /\ \A h \in stream'[g].above :
                            h = stream'[g].parent \/ \E k \in stream'[g].above : stream'[k].parent = h
                      /\ stream'[g].parent = Root \/ \E k \in stream'[g].above : stream'[k].parent = Root
    BY DEF Lineage
  <2>1. CASE g \in DOMAIN stream
    <3>1. \A k \in stream[g].above : stream'[k].parent = stream[k].parent
      BY <2>1, <1>4, <1>5
    <3>. QED  BY <2>1, <3>1, <1>5 DEF Tree, Lineage
  <2>2. CASE g \notin DOMAIN stream
    <3>1. stream'[g].parent = f /\ stream'[g].above = stream[f].above \cup {f}
      BY <2>2, <1>3
    <3>2. \A k \in stream[f].above \cup {f} : stream'[k].parent = stream[k].parent
      BY <1>2, <1>4, <1>5
    <3>3. /\ \A h \in stream[f].above :
                h = stream[f].parent \/ \E k \in stream[f].above : stream[k].parent = h
          /\ stream[f].parent = Root \/ \E k \in stream[f].above : stream[k].parent = Root
      BY <1>2 DEF Tree, Lineage
    <3>. QED  BY <3>1, <3>2, <3>3
  <2>. QED  BY <2>1, <2>2
<1>8. Outlasts'
  <2>0. "branches" \in Parted /\ "forwarding" \notin Parted
    BY DEF Parted, GaveUp
  <2>. SUFFICES ASSUME NEW g \in DOMAIN stream', NEW h \in stream'[g].above
               PROVE  /\ stream'[h].phase \in Parted
                      /\ stream'[h].phase = "done" => stream'[g].phase = "done"
    BY DEF Outlasts
  <2>1. CASE g \in DOMAIN stream
    <3>1. h \in stream[g].above /\ h \in DOMAIN stream
      BY <2>1, <1>4, <1>5
    <3>2. stream[h].phase \in Parted /\ (stream[h].phase = "done" => stream[g].phase = "done")
      BY <2>1, <3>1 DEF Tree, Outlasts
    <3>3. h # f /\ stream'[h] = stream[h]
      BY <3>1, <3>2, <2>0, <1>2
    <3>. QED  BY <2>1, <3>2, <3>3, <1>2
  <2>2. CASE g \notin DOMAIN stream
    <3>1. h \in stream[f].above \cup {f}
      BY <2>2, <1>3
    <3>. QED  BY <3>1, <2>0, <1>2, <1>4, <1>6
  <2>. QED  BY <2>1, <2>2
<1>. QED  BY <1>7, <1>8 DEF Tree

LEMMA TreeKeeps ==
  ASSUME WalkFits, Tree, [WalkNext]_walkVars
  PROVE  Tree'
<1>1. CASE Stays
  BY <1>1 DEF Stays, Tree, Lineage, Outlasts
<1>2. ASSUME NEW throws, Starts(throws)  PROVE Tree'
  <2>. DEFINE go == Going(First, FirstEntries)
  <2>2. Opens(go, throws, Root, {}, FirstEntries)
    BY <1>2, StartsOpens
  <2>3. NewOnes(go, Root, {})
    BY <2>2, OpensAre
  <2>1. \A g \in DOMAIN stream' : stream'[g].parent = Root /\ stream'[g].above = {}
    BY <1>2, <2>3 DEF Starts, NewOnes
  <2>. QED  BY <2>1 DEF Tree, Lineage, Outlasts
<1>. QED  BY <1>1, <1>2, Course, TreeStep, TreeBranch

-----------------------------------------------------------------------------
(***************************************************************************)
(* The run's status and its file.                                          *)
(***************************************************************************)
\* An update lands, and its writer is through; or the file stays and writers only join.
Written ==
    \/ file' = file /\ Writers \subseteq Writers'
    \/ \E w \in Writers, status \in Statuses : Lands(w, status) /\ Writers \ {w} \subseteq Writers'

LEMMA WritersAre ==
  ASSUME WalkFits, [WalkNext]_walkVars
  PROVE  Written
<1>0. StreamsFit /\ EntriesFit /\ run.status \in Statuses /\ {"running"} \subseteq Statuses
  BY DEF WalkFits, RestFits, Statuses
<1>1. CASE UNCHANGED walkVars \/ Stop \/ \E f \in DOMAIN stream : OrphanEnds(f)
  BY <1>1 DEF walkVars, Stop, OrphanEnds, Written, Writers
<1>2. CASE Begin \/ CloseRun
  <2>1. file' = file /\ stream' = stream /\ run.phase \notin {"starting", "closing"}
    BY <1>2 DEF Begin, CloseRun
  <2>. QED  BY <2>1 DEF Written, Writers
<1>3. CASE EndRun
  <2>1. Root \in Writers /\ Lands(Root, run.status) /\ stream' = stream
    BY <1>3 DEF EndRun, Writers
  <2>2. Writers \ {Root} \subseteq Writers'
    BY <2>1 DEF Writers
  <2>. QED  BY <2>1, <2>2, <1>0 DEF Written
<1>4. CASE OpenRun
  <2>1. Root \in Writers /\ Lands(Root, "running") /\ DOMAIN stream = {}
    BY <1>4 DEF OpenRun, Writers, WalkFits, Early
  <2>2. Writers \ {Root} = {}
    BY <2>1 DEF Writers
  <2>. QED  BY <2>1, <2>2, <1>0 DEF Written
<1>5. ASSUME NEW f \in DOMAIN stream, Step(f) \/ NodeEvent(f) \/ NodeEnds(f) \/ NodeThrows(f)
      PROVE  Written
  <2>1. run' = run /\ DOMAIN stream \subseteq DOMAIN stream' /\ \A g \in DOMAIN stream \ {f} : stream'[g] = stream[g]
    <3>1. run' = run
      BY <1>5 DEF Step, StartSaved, BeginNode, NodeGoesOn, NodeAborted, EndSaved, Forward, Branch,
       BranchesDone, BranchThrew, FailSaved, Rethrow, NodeEvent, NodeEnds, NodeThrows
    <3>2. Advances(f) \/ Branch(f)
      BY <1>0, <1>5, StepOf
    <3>3. CASE Advances(f)
      BY <3>1, <3>3, StepSpans
    <3>4. CASE Branch(f)
      BY <3>1, <3>4, BranchIs DEF Branches, Opened
    <3>. QED  BY <3>2, <3>3, <3>4
  <2>2. Writers \ {f} \subseteq Writers'
    BY <2>1 DEF Writers
  <2>3. CASE StartSaved(f) \/ EndSaved(f) \/ FailSaved(f) \/ Branch(f)
    <3>1. f \in Writers /\ Saved(f)
      BY <2>3 DEF StartSaved, EndSaved, FailSaved, Branch, At, Writers, Waiting
    <3>. QED  BY <3>1, <2>2, <1>0 DEF Written, Saved
  <2>4. CASE ~(StartSaved(f) \/ EndSaved(f) \/ FailSaved(f) \/ Branch(f))
    <3>1. file' = file /\ stream[f].phase \notin Waiting
      BY <1>5, <2>4 DEF Step, BeginNode, NodeGoesOn, NodeAborted, Forward, At, Waiting,
       BranchesDone, BranchThrew, Rethrow, NodeEvent, NodeEnds, NodeThrows
    <3>2. f \notin Writers \/ (f = Root /\ run.phase \in {"starting", "closing"})
      BY <3>1 DEF Writers
    <3>3. f \in Writers => f \in Writers'
      BY <3>2, <2>1 DEF Writers
    <3>. QED  BY <3>1, <3>3, <2>2 DEF Written
  <2>. QED  BY <2>3, <2>4
<1>. QED  BY <1>1, <1>2, <1>3, <1>4, <1>5 DEF WalkNext, RunStep, Step

\* Completed means that every stream has ended, and the file is whole once all have.
FileIsTrue ==
    /\ run.phase \in {"starting", "merging"} => run.status = "running"
    /\ run.status = "completed" =>
          run.phase \in {"closing", "ended"} /\ file # "mixed" /\ \A f \in DOMAIN stream : stream[f].phase = "done"
    /\ file = "mixed" => Writers # {}
    /\ Completed => file = "completed"

LEMMA FileKeeps ==
  ASSUME WalkFits, Tree, FileIsTrue, [WalkNext]_walkVars
  PROVE  FileIsTrue'
<1>0. /\ run \in [phase : {"new", "starting", "merging", "closing", "ended"}, status : Statuses]
      /\ Torn # "mixed" /\ "mixed" \notin Statuses
  BY WorkFlowRunAssumption DEF WalkFits, RestFits, Statuses
<1>1. file' = "mixed" => Writers' # {}
  <2>1. CASE file' = file /\ Writers \subseteq Writers'
    BY <2>1 DEF FileIsTrue
  <2>2. ASSUME NEW w \in Writers, NEW status \in Statuses, Lands(w, status), Writers \ {w} \subseteq Writers'
        PROVE  file' = "mixed" => Writers' # {}
    BY <2>2, <1>0 DEF Lands
  <2>. QED  BY <2>1, <2>2, WritersAre DEF Written
<1>2. CASE Begin \/ OpenRun
  <2>1. run'.phase \in {"starting", "merging"} /\ run'.status = "running"
    BY <1>2, <1>0 DEF Begin, OpenRun, FileIsTrue
  <2>. QED  BY <2>1, <1>1 DEF FileIsTrue, Completed
<1>3. CASE CloseRun
  <2>0. run'.phase = "closing" /\ stream' = stream /\ run.phase = "merging"
    BY <1>3 DEF CloseRun
  <2>1. CASE \A f \in Children(Root) : stream[f].phase = "done"
    <3>1. \A f \in DOMAIN stream : stream[f].phase = "done"
      <4>. SUFFICES ASSUME NEW f \in DOMAIN stream  PROVE stream[f].phase = "done"
        OBVIOUS
      <4>1. CASE stream[f].parent = Root
        BY <2>1, <4>1 DEF Children
      <4>2. CASE stream[f].parent # Root
        <5>1. PICK k \in stream[f].above : stream[k].parent = Root
          BY <4>2 DEF Tree, Lineage
        <5>2. k \in DOMAIN stream
          BY DEF WalkFits, StreamsFit, StreamType
        <5>3. stream[k].phase = "done"
          BY <2>1, <5>1, <5>2 DEF Children
        <5>. QED  BY <5>1, <5>3 DEF Tree, Outlasts
      <4>. QED  BY <4>1, <4>2
    <3>2. Writers = {}
      BY <2>0, <3>1 DEF Writers, Waiting
    <3>3. file' # "mixed"
      BY <1>3, <3>2 DEF CloseRun, FileIsTrue
    <3>. QED  BY <2>0, <3>1, <3>3, <1>1 DEF FileIsTrue, Completed
  <2>2. CASE run'.status = "failed"
    BY <2>0, <2>2, <1>1 DEF FileIsTrue, Completed
  <2>. QED  BY <1>3, <2>1, <2>2 DEF CloseRun
<1>4. CASE EndRun
  <2>0. /\ run.phase = "closing" /\ run'.phase = "ended" /\ run'.status = run.status /\ stream' = stream
        /\ Lands(Root, run.status)
    BY <1>4, <1>0 DEF EndRun
  <2>1. ASSUME run.status = "completed"  PROVE file' = "completed" /\ file' # "mixed" /\ \A f \in DOMAIN stream : stream[f].phase = "done"
    <3>1. \A f \in DOMAIN stream : stream[f].phase = "done"
      BY <2>1 DEF FileIsTrue
    <3>2. "done" \notin Waiting
      BY DEF Waiting
    <3>3. Writers = {Root}
      BY <2>0, <3>1, <3>2 DEF Writers
    <3>4. file # "mixed"
      BY <2>1 DEF FileIsTrue
    <3>. QED  BY <2>0, <2>1, <3>1, <3>3, <3>4 DEF Lands
  <2>. QED  BY <2>0, <2>1, <1>1 DEF FileIsTrue, Completed
<1>5. CASE UNCHANGED walkVars \/ Stop \/ \E f \in DOMAIN stream : OrphanEnds(f)
  <2>1. UNCHANGED <<run, stream, file>>
    BY <1>5 DEF walkVars, Stop, OrphanEnds
  <2>. QED  BY <2>1, <1>1 DEF FileIsTrue, Completed
<1>6. ASSUME NEW f \in DOMAIN stream, Step(f) \/ NodeEvent(f) \/ NodeEnds(f) \/ NodeThrows(f)
      PROVE  FileIsTrue'
  <2>1. run' = run
    BY <1>6 DEF Step, StartSaved, BeginNode, NodeGoesOn, NodeAborted, EndSaved, Forward, Branch,
       BranchesDone, BranchThrew, FailSaved, Rethrow, NodeEvent, NodeEnds, NodeThrows
  <2>2. stream[f].phase # "done"
    BY <1>6 DEF Step, StartSaved, BeginNode, NodeGoesOn, NodeAborted, EndSaved, Forward, Branch, At,
       BranchesDone, BranchThrew, FailSaved, Rethrow, NodeEvent, NodeEnds, NodeThrows, Waiting
  <2>3. run.status # "completed"
    BY <2>2 DEF FileIsTrue
  <2>. QED  BY <2>1, <2>3, <1>1 DEF FileIsTrue, Completed
<1>. QED  BY <1>2, <1>3, <1>4, <1>5, <1>6 DEF WalkNext, RunStep, Step

\* What the streams, the executions, the sessions and the file say together at the end.
LEMMA WholeAtTheEnd ==
  ASSUME WalkFits, Turns, FileIsTrue
  PROVE  CompletedIsWhole
<1>. SUFFICES ASSUME Completed
             PROVE  /\ \A x \in DOMAIN execution : execution[x].status \in {"pending", "completed"}
                    /\ \A f \in DOMAIN stream : stream[f].phase = "done"
                    /\ sessions = {} /\ file = "completed"
  BY DEF CompletedIsWhole
<1>1. (\A f \in DOMAIN stream : stream[f].phase = "done") /\ file = "completed"
  BY DEF FileIsTrue, Completed
<1>2. "done" \notin Working /\ "done" \notin GaveUp /\ "done" \notin GaveUp \cup {"node", "event"}
  BY DEF Working, GaveUp
<1>3. sessions = {}
  BY <1>1, <1>2 DEF WalkFits, Holding, RestFits
<1>4. \A x \in DOMAIN execution : execution[x].status \in {"pending", "completed"}
  <2>1. \A x \in DOMAIN execution : \A f \in Of(x) : stream[f].phase = "done"
    BY <1>1 DEF Of
  <2>2. \A x \in DOMAIN execution : execution[x].status \in Statuses
    BY DEF WalkFits, EntriesFit, EntryType
  <2>3. \A x \in DOMAIN execution : execution[x].status # "running" /\ execution[x].status # "failed"
    BY <2>1, <1>2 DEF Turns, RunningRuns, FailedFailed
  <2>. QED  BY <2>2, <2>3 DEF Statuses
<1>. QED  BY <1>1, <1>3, <1>4

-----------------------------------------------------------------------------
(***************************************************************************)
(* The outputs.                                                            *)
(***************************************************************************)
Src(o) == <<o[1], o[2], o[3]>>

\* A stream puts out one output, when it has worked.
SentOnce ==
    /\ \A o \in sent : stream[Src(o)].phase \notin Working
    /\ \A o, q \in sent : Src(o) = Src(q) => o = q

\* An output that opens no new branch is the execution's last: nothing of it works again.
LastSend ==
    \A o \in sent : ~NewBranch(o[1], o[4]) =>
        /\ execution[X(o)].status \in {"completed", "failed"}
        /\ \A g \in Of(X(o)) : stream[g].phase \notin Working
        /\ \A q \in sent : X(q) = X(o) /\ ~NewBranch(q[1], q[4]) => q = o

\* A stream that forwards has the entries behind it before it.
NextIs ==
    \A g \in DOMAIN stream : stream[g].phase = "forwarding" => stream[g].next = Behind(g)

Sends == SentOnce /\ LastSend /\ NextIs

LEMMA SourceFits ==
  ASSUME WalkFits, NEW o \in sent
  PROVE  /\ Src(o) \in DOMAIN stream /\ X(Src(o)) = X(o) /\ X(o) \in DOMAIN execution
         /\ o[1] \in Nodes /\ o[2] \in Ids /\ o[3] \in Nat /\ o = <<o[1], o[2], o[3], o[4]>>
         /\ Src(o)[1] = o[1] /\ Src(o)[2] = o[2] /\ Src(o)[3] = o[3]
         /\ Src(o) \in Of(X(o)) /\ X(o) \in Nodes \X Ids
<1>1. Src(o) \in DOMAIN stream /\ o = <<o[1], o[2], o[3], o[4]>>
  BY DEF WalkFits, SentFits, Src
<1>2. Src(o) \in Nodes \X Ids \X Nat /\ X(Src(o)) \in DOMAIN execution
  BY <1>1 DEF WalkFits, StreamsFit
<1>3. Src(o)[1] = o[1] /\ Src(o)[2] = o[2] /\ Src(o)[3] = o[3]
  BY DEF Src
<1>4. o[1] \in Nodes /\ o[2] \in Ids /\ o[3] \in Nat /\ X(Src(o)) = X(o)
  BY <1>2, <1>3 DEF X
<1>. QED  BY <1>1, <1>2, <1>3, <1>4 DEF Of, X

\* What a stream that advances does to the outputs and to who works.
Puts(f) ==
    /\ \A g \in DOMAIN stream : stream'[g].phase \in Working => stream[g].phase \in Working
    /\ \/ sent' = sent
       \/ Ends(f) /\ f \notin {Src(o) : o \in sent}
             /\ \A o \in sent : X(o) = X(f) => NewBranch(o[1], o[4])

LEMMA PutsIs ==
  ASSUME WalkFits, Sends, NEW f, Advances(f)
  PROVE  Puts(f)
<1>1. /\ f \in DOMAIN stream /\ DOMAIN stream' = DOMAIN stream
      /\ \A g \in DOMAIN stream \ {f} : stream'[g] = stream[g]
  BY StepSpans
<1>2. CASE Settles(f)
  <2>1. stream'[f].phase \in Working => stream[f].phase \in Working
    BY <1>2 DEF Settles, Working
  <2>. QED  BY <2>1, <1>1, <1>2 DEF Puts, Settles
<1>3. CASE Finishes(f) \/ Fails(f) \/ Forwards(f)
  <2>1. stream'[f].phase \notin Working /\ sent' = sent
    BY <1>3 DEF Finishes, Fails, Forwards, Moves, Working
  <2>. QED  BY <2>1, <1>1 DEF Puts
<1>4. CASE Ends(f)
  <2>1. stream'[f].phase \notin Working /\ stream[f].phase \in Working
    BY <1>4 DEF Ends, Moves, Working
  <2>2. f \notin {Src(o) : o \in sent}
    BY <2>1 DEF Sends, SentOnce
  <2>3. ASSUME NEW o \in sent, X(o) = X(f)  PROVE NewBranch(o[1], o[4])
    <3>1. f \in Of(X(o))
      BY <2>3, <1>1 DEF Of, X
    <3>. QED  BY <3>1, <2>1 DEF Sends, LastSend
  <2>. QED  BY <2>1, <2>2, <2>3, <1>1, <1>4 DEF Puts
<1>. QED  BY <1>2, <1>3, <1>4 DEF Advances

\* The output a node puts out.
LEMMA EndsPut ==
  ASSUME WalkFits, NEW f \in DOMAIN stream, Ends(f)
  PROVE  \E port \in Outputs(f[1], execution[X(f)].turn) : \E o :
            /\ o = <<f[1], f[2], f[3], port>> /\ sent' = sent \cup {o}
            /\ o[1] = f[1] /\ o[2] = f[2] /\ o[3] = f[3] /\ o[4] = port
            /\ Src(o) = f /\ X(o) = X(f)
            /\ execution'[X(f)].status = IF NewBranch(f[1], port) THEN "pending" ELSE "completed"
            /\ execution'[X(f)].turn = execution[X(f)].turn + (IF f[1] \in Loops THEN 1 ELSE 0)
<1>1. PICK port \in Outputs(f[1], execution[X(f)].turn) :
         /\ Sets(X(f), IF NewBranch(f[1], port) THEN "pending" ELSE "completed")
         /\ execution'[X(f)].turn = execution[X(f)].turn + (IF f[1] \in Loops THEN 1 ELSE 0)
         /\ sent' = sent \cup {<<f[1], f[2], f[3], port>>}
  BY DEF Ends
<1>2. f = <<f[1], f[2], f[3]>>
  BY TripleIs DEF WalkFits, StreamsFit
<1>. DEFINE o == <<f[1], f[2], f[3], port>>
<1>3. o[1] = f[1] /\ o[2] = f[2] /\ o[3] = f[3] /\ o[4] = port
  OBVIOUS
<1>. HIDE DEF o
<1>4. Src(o) = f /\ X(o) = X(f)
  BY <1>2, <1>3 DEF Src, X
<1>5. sent' = sent \cup {o}
  BY <1>1 DEF o
<1>6. o = <<f[1], f[2], f[3], port>>
  BY DEF o
<1>7. execution'[X(f)].status = IF NewBranch(f[1], port) THEN "pending" ELSE "completed"
  BY <1>1 DEF Sets
<1>. QED  BY <1>1, <1>3, <1>4, <1>5, <1>6, <1>7

LEMMA SentOnceStep ==
  ASSUME WalkFits, Sends, NEW f, Advances(f)
  PROVE  SentOnce'
<1>1. f \in DOMAIN stream /\ Puts(f)
  BY StepSpans, PutsIs
<1>2. \A o \in sent : Src(o) \in DOMAIN stream
  BY SourceFits
<1>3. CASE sent' = sent
  BY <1>1, <1>2, <1>3 DEF Puts, Sends, SentOnce, Src
<1>4. CASE sent' # sent
  <2>1. Ends(f) /\ f \notin {Src(o) : o \in sent}
    BY <1>1, <1>4 DEF Puts
  <2>2. PICK new : sent' = sent \cup {new} /\ Src(new) = f
    BY <1>1, <2>1, EndsPut
  <2>3. stream'[f].phase \notin Working
    BY <2>1 DEF Ends, Moves, Working
  <2>4. \A o \in sent' : stream'[Src(o)].phase \notin Working
    BY <1>1, <1>2, <2>2, <2>3 DEF Puts, Sends, SentOnce
  <2>5. \A o, q \in sent' : Src(o) = Src(q) => o = q
    BY <2>1, <2>2 DEF Sends, SentOnce
  <2>. QED  BY <2>4, <2>5 DEF SentOnce, Src
<1>. QED  BY <1>3, <1>4

LEMMA LastSendStep ==
  ASSUME WalkFits, Turns, Sends, NEW f, Advances(f)
  PROVE  LastSend'
<1>1. /\ f \in DOMAIN stream /\ Puts(f) /\ DOMAIN stream' = DOMAIN stream
      /\ \A g \in DOMAIN stream \ {f} : stream'[g] = stream[g]
  BY StepSpans, PutsIs
<1>2. \A x : Of(x)' = Of(x)
  BY <1>1, OfSame
<1>3. /\ \A x : \A g \in Of(x) : g \in DOMAIN stream /\ X(g) = x
      /\ \A g \in DOMAIN stream : g \in Of(X(g))
  BY DEF Of, X
<1>4. Marks(f) /\ DOMAIN execution \subseteq DOMAIN execution'
  BY StepMarks
<1>5. \A o \in sent : X(o) \in DOMAIN execution
  BY SourceFits
<1>6. ASSUME NEW o \in sent, ~NewBranch(o[1], o[4]), X(o) # X(f) \/ ~Ends(f)
      PROVE  /\ execution'[X(o)].status \in {"completed", "failed"}
             /\ \A g \in Of(X(o)) : stream'[g].phase \notin Working
  <2>1. execution[X(o)].status \in {"completed", "failed"} /\ \A g \in Of(X(o)) : stream[g].phase \notin Working
    BY <1>6 DEF Sends, LastSend
  <2>2. \A g \in Of(X(o)) : stream'[g].phase \notin Working
    BY <2>1, <1>1, <1>3 DEF Puts
  <2>3. execution'[X(o)].status \in {"completed", "failed"}
    <3>1. CASE X(o) # X(f)
      BY <3>1, <2>1, <1>4, <1>5 DEF Marks
    <3>2. CASE X(o) = X(f)
      <4>1. stream[f].phase # "node"
        BY <3>2, <2>1, <1>1, <1>3 DEF Working
      <4>. QED  BY <3>2, <4>1, <2>1, <1>4 DEF Marks
    <3>. QED  BY <3>1, <3>2
  <2>. QED  BY <2>2, <2>3
<1>7. CASE sent' = sent
  <2>. SUFFICES ASSUME NEW o \in sent, ~NewBranch(o[1], o[4])
               PROVE  /\ execution'[X(o)].status \in {"completed", "failed"}
                      /\ \A g \in Of(X(o)) : stream'[g].phase \notin Working
                      /\ \A q \in sent : X(q) = X(o) /\ ~NewBranch(q[1], q[4]) => q = o
    BY <1>2, <1>7 DEF LastSend, X
  <2>1. X(o) # X(f) \/ ~Ends(f)
    <3>1. ASSUME X(o) = X(f), Ends(f)  PROVE FALSE
      <4>1. stream[f].phase \in Working
        BY <3>1 DEF Ends, Moves, Working
      <4>. QED  BY <3>1, <4>1, <1>1, <1>3 DEF Sends, LastSend
    <3>. QED  BY <3>1
  <2>. QED  BY <2>1, <1>6 DEF Sends, LastSend
<1>8. CASE sent' # sent
  <2>1. Ends(f) /\ \A o \in sent : X(o) = X(f) => NewBranch(o[1], o[4])
    BY <1>1, <1>8 DEF Puts
  <2>2. PICK port \in Outputs(f[1], execution[X(f)].turn) : \E o :
            /\ sent' = sent \cup {o} /\ o[1] = f[1] /\ o[4] = port /\ X(o) = X(f)
            /\ execution'[X(f)].status = IF NewBranch(f[1], port) THEN "pending" ELSE "completed"
    BY <1>1, <2>1, EndsPut
  <2>3. PICK new :
            /\ sent' = sent \cup {new} /\ new[1] = f[1] /\ new[4] = port /\ X(new) = X(f)
            /\ execution'[X(f)].status = IF NewBranch(f[1], port) THEN "pending" ELSE "completed"
    BY <2>2
  <2>4. \A g \in Of(X(f)) : stream'[g].phase \notin Working
    <3>. SUFFICES ASSUME NEW g \in Of(X(f)), stream'[g].phase \in Working  PROVE FALSE
      OBVIOUS
    <3>1. stream[f].phase \in Working /\ stream'[f].phase \notin Working
      BY <2>1 DEF Ends, Moves, Working
    <3>2. g \in DOMAIN stream /\ X(g) = X(f) /\ stream[g].phase \in Working
      BY <1>1, <1>3 DEF Puts
    <3>. QED  BY <3>1, <3>2, <1>1, OneWorks
  <2>. SUFFICES ASSUME NEW o \in sent', ~NewBranch(o[1], o[4])
               PROVE  /\ execution'[X(o)].status \in {"completed", "failed"}
                      /\ \A g \in Of(X(o)) : stream'[g].phase \notin Working
                      /\ \A q \in sent' : X(q) = X(o) /\ ~NewBranch(q[1], q[4]) => q = o
    BY <1>2 DEF LastSend, X
  <2>5. CASE o = new
    BY <2>5, <2>1, <2>3, <2>4
  <2>6. CASE o # new
    <3>1. o \in sent /\ X(o) # X(f)
      BY <2>1, <2>3, <2>6
    <3>2. \A q \in sent : X(q) = X(o) /\ ~NewBranch(q[1], q[4]) => q = o
      BY <3>1 DEF Sends, LastSend
    <3>. QED  BY <3>1, <3>2, <2>3, <1>6
  <2>. QED  BY <2>5, <2>6
<1>. QED  BY <1>7, <1>8

\* Who has sent is not disturbed by the outputs of others.
LEMMA BehindSame ==
  ASSUME WalkFits, NEW f \in DOMAIN stream, NEW g \in DOMAIN stream,
         sent' = sent \/ (g # f /\ Ends(f))
  PROVE  Taken(g)' = Taken(g) /\ Behind(g)' = Behind(g)
<1>1. \A port : <<g[1], g[2], g[3], port>> \in sent' <=> <<g[1], g[2], g[3], port>> \in sent
  <2>1. CASE sent' = sent
    BY <2>1
  <2>2. CASE g # f /\ Ends(f)
    <3>1. PICK p : sent' = sent \cup {<<f[1], f[2], f[3], p>>}
      BY <2>2 DEF Ends
    <3>2. f = <<f[1], f[2], f[3]>> /\ g = <<g[1], g[2], g[3]>>
      BY TripleIs DEF WalkFits, StreamsFit
    <3>. QED  BY <2>2, <3>1, <3>2
  <2>. QED  BY <2>1, <2>2
<1>2. Taken(g)' = Taken(g)
  BY <1>1 DEF Taken
<1>3. Behind(g)' = Behind(g)
  BY <1>2 DEF Behind, Receiver
<1>. QED  BY <1>2, <1>3

LEMMA NextIsStep ==
  ASSUME WalkFits, Sends, NEW f, Advances(f)
  PROVE  NextIs'
<1>1. /\ f \in DOMAIN stream /\ Puts(f) /\ DOMAIN stream' = DOMAIN stream
      /\ \A g \in DOMAIN stream \ {f} : stream'[g] = stream[g]
  BY StepSpans, PutsIs
<1>. SUFFICES ASSUME NEW g \in DOMAIN stream, stream'[g].phase = "forwarding"
             PROVE  stream'[g].next = Behind(g)'
  BY <1>1 DEF NextIs
<1>2. CASE g = f
  <2>1. Forwards(f)
    BY <1>2 DEF Advances, Settles, Finishes, Fails, Ends, Moves, Yielding
  <2>. QED  BY <2>1, <1>1, <1>2, BehindSame DEF Forwards
<1>3. CASE g # f
  <2>1. Behind(g)' = Behind(g)
    BY <1>1, <1>3, BehindSame DEF Puts
  <2>. QED  BY <2>1, <1>1, <1>3 DEF Sends, NextIs
<1>. QED  BY <1>2, <1>3

LEMMA SendsOpen ==
  ASSUME WalkFits, Sends, NEW go, NEW throws, NEW parent, NEW above, NEW entries,
         Opens(go, throws, parent, above, entries)
  PROVE  Sends'
<1>1. NewOnes(go, parent, above)
  BY OpensAre
<1>2. /\ sent' = sent
      /\ \A g \in DOMAIN stream : \/ stream'[g].phase = stream[g].phase
                                  \/ stream[g].phase = "forwarding" /\ stream'[g].phase = "branches"
      /\ \A g \in DOMAIN stream : stream'[g].next = stream[g].next
  BY DEF Opens
<1>3. \A g \in DOMAIN stream : /\ stream'[g].phase \in Working => stream[g].phase \in Working
                               /\ stream'[g].phase = "forwarding" => stream[g].phase = "forwarding"
  BY <1>2 DEF Working
<1>4. \A o \in sent : Src(o) \in DOMAIN stream /\ X(o) \in DOMAIN execution
  BY SourceFits
<1>5. SentOnce'
  BY <1>2, <1>3, <1>4 DEF Sends, SentOnce, Src
<1>6. NextIs'
  <2>. SUFFICES ASSUME NEW g \in DOMAIN stream', stream'[g].phase = "forwarding"
               PROVE  stream'[g].next = Behind(g)'
    BY DEF NextIs
  <2>1. g \in DOMAIN stream
    BY <1>1 DEF NewOnes
  <2>2. Behind(g)' = Behind(g)
    BY <2>1, <1>2, BehindSame
  <2>. QED  BY <2>1, <2>2, <1>2, <1>3 DEF Sends, NextIs
<1>7. LastSend'
  <2>. SUFFICES ASSUME NEW o \in sent, ~NewBranch(o[1], o[4])
               PROVE  /\ execution'[X(o)].status \in {"completed", "failed"}
                      /\ \A g \in Of(X(o))' : stream'[g].phase \notin Working
                      /\ \A q \in sent : X(q) = X(o) /\ ~NewBranch(q[1], q[4]) => q = o
    BY <1>2 DEF LastSend, X
  <2>1. /\ execution[X(o)].status \in {"completed", "failed"}
        /\ \A g \in Of(X(o)) : stream[g].phase \notin Working
        /\ \A q \in sent : X(q) = X(o) /\ ~NewBranch(q[1], q[4]) => q = o
    BY DEF Sends, LastSend
  <2>2. X(o) \in DOMAIN execution /\ X(o) \notin go
    BY <2>1, <1>4 DEF Opens
  <2>3. execution'[X(o)].status = execution[X(o)].status
    BY <2>2 DEF Opens, Opened
  <2>4. \A g \in Of(X(o))' : g \in Of(X(o)) /\ g \in DOMAIN stream
    BY <2>2, <1>1 DEF Of, X, NewOnes
  <2>. QED  BY <2>1, <2>3, <2>4, <1>3
<1>. QED  BY <1>5, <1>6, <1>7 DEF Sends

LEMMA SendsKeep ==
  ASSUME WalkFits, Turns, Sends, [WalkNext]_walkVars
  PROVE  Sends'
<1>1. CASE Stays
  <2>1. UNCHANGED <<execution, stream, sent>>
    BY <1>1 DEF Stays
  <2>2. \A x : Of(x)' = Of(x)
    BY <2>1, OfSame
  <2>3. \A g : Behind(g)' = Behind(g)
    BY <2>1 DEF Behind, Taken, Receiver
  <2>. QED  BY <2>1, <2>2, <2>3 DEF Sends, SentOnce, LastSend, NextIs, Src, X
<1>2. ASSUME NEW throws, Starts(throws)  PROVE Sends'
  BY <1>2, StartsOpens, SendsOpen
<1>3. ASSUME NEW f, NEW throws, Branches(f, throws)  PROVE Sends'
  BY <1>3, BranchOpens, SendsOpen
<1>4. ASSUME NEW f \in DOMAIN stream, Advances(f)  PROVE Sends'
  BY <1>4, SentOnceStep, LastSendStep, NextIsStep DEF Sends
<1>. QED  BY <1>1, <1>2, <1>3, <1>4, Course

-----------------------------------------------------------------------------
(***************************************************************************)
(* The execution ids.                                                      *)
(***************************************************************************)
\* The output that opened the branch an execution id is of.
Opener(id) == <<Last(id)[1].from, Front(id), Last(id)[2], Last(id)[1].port>>

PathOf(id) ==
    id # <<>> => Opener(id) \in sent /\ NewBranch(Last(id)[1].from, Last(id)[1].port)

Paths == \A x \in DOMAIN execution : PathOf(x[2])

LEMMA ReceiverPath ==
  ASSUME WalkFits, Paths, NEW f \in DOMAIN stream, NEW c \in Taken(f)
  PROVE  PathOf(Receiver(f, c)[2])
<1>0. /\ f[1] \in Nodes /\ f[2] \in Seq(Connections \X Nat) /\ f[3] \in Nat /\ X(f) \in DOMAIN execution
      /\ c \in Connections /\ c.from = f[1] /\ <<f[1], f[2], f[3], c.port>> \in sent
  BY TripleIs DEF WalkFits, StreamsFit, Taken, Ids
<1>1. PathOf(f[2])
  <2>1. X(f)[2] = f[2]
    BY DEF X
  <2>. QED  BY <1>0, <2>1 DEF Paths
<1>2. CASE NewBranch(f[1], c.port)
  <2>. DEFINE id == Append(f[2], <<c, f[3]>>)
  <2>1. Front(id) = f[2] /\ Last(id) = <<c, f[3]>>
    BY <1>0, AppendIs
  <2>2. Receiver(f, c)[2] = id
    BY <1>2 DEF Receiver
  <2>. HIDE DEF id
  <2>3. Opener(id) = <<f[1], f[2], f[3], c.port>>
    BY <2>1, <1>0 DEF Opener
  <2>. QED  BY <1>0, <1>2, <2>1, <2>2, <2>3 DEF PathOf
<1>3. CASE ~NewBranch(f[1], c.port) /\ f[2] # <<>> /\ Last(f[2])[1].from = c.to
  <2>1. Receiver(f, c)[2] = Front(f[2])
    BY <1>3 DEF Receiver
  <2>2. Opener(f[2]) \in sent
    BY <1>1, <1>3 DEF PathOf
  <2>3. X(Opener(f[2])) \in DOMAIN execution
    BY <2>2, SourceFits
  <2>4. X(Opener(f[2]))[2] = Front(f[2])
    BY DEF Opener, X
  <2>. QED  BY <2>1, <2>3, <2>4 DEF Paths
<1>4. CASE ~NewBranch(f[1], c.port) /\ ~(f[2] # <<>> /\ Last(f[2])[1].from = c.to)
  BY <1>1, <1>4 DEF Receiver
<1>. QED  BY <1>2, <1>3, <1>4

\* Executions stay, and what they have received; only deliveries add to it.
Gains(f) ==
    /\ sent \subseteq sent'
    /\ \A x \in DOMAIN execution : x \in DOMAIN execution' /\ execution[x].got \subseteq execution'[x].got
    /\ \/ Forwards(f)
       \/ /\ DOMAIN execution' = DOMAIN execution
          /\ \A x \in DOMAIN execution : execution'[x].got = execution[x].got

LEMMA GainsIs ==
  ASSUME NEW f, Advances(f), X(f) \in DOMAIN execution
  PROVE  Gains(f)
  BY DEF Advances, Settles, Finishes, Fails, Ends, Forwards, Sets, Gains

LEMMA PathsKeep ==
  ASSUME WalkFits, Paths, [WalkNext]_walkVars
  PROVE  Paths'
<1>1. CASE Stays
  BY <1>1 DEF Stays, Paths, PathOf, Opener
<1>2. ASSUME NEW throws, Starts(throws)  PROVE Paths'
  <2>1. DOMAIN execution' = First
    BY <1>2 DEF Starts, Opened, FirstEntries
  <2>2. \A x \in First : x[2] = <<>>
    BY DEF First
  <2>. QED  BY <2>1, <2>2 DEF Paths, PathOf
<1>3. ASSUME NEW f, NEW throws, Branches(f, throws)  PROVE Paths'
  <2>1. DOMAIN execution' = DOMAIN execution /\ sent' = sent
    BY <1>3 DEF Branches, Opened
  <2>. QED  BY <2>1 DEF Paths, PathOf, Opener
<1>4. ASSUME NEW f \in DOMAIN stream, Advances(f)  PROVE Paths'
  <2>1. Gains(f)
    BY <1>4, GainsIs DEF WalkFits, StreamsFit
  <2>2. \A id : PathOf(id) => PathOf(id)'
    BY <2>1 DEF Gains, PathOf, Opener
  <2>. SUFFICES ASSUME NEW x \in DOMAIN execution', x \notin DOMAIN execution  PROVE PathOf(x[2])
    BY <2>2 DEF Paths
  <2>3. x \in Behind(f)
    BY <2>1 DEF Gains, Forwards
  <2>. QED  BY <2>3, <1>4, ReceiverPath DEF Behind
<1>. QED  BY <1>1, <1>2, <1>3, <1>4, Course

-----------------------------------------------------------------------------
(***************************************************************************)
(* The deliveries.                                                         *)
(***************************************************************************)
\* A connection takes an output.
Carries(c, o) == c \in Connections /\ c.from = o[1] /\ c.port = o[4]

LEMMA CarriesIs ==
  ASSUME WalkFits, NEW o \in sent, NEW c, Carries(c, o)
  PROVE  /\ c \in Taken(Src(o)) /\ Receiver(o, c) = Receiver(Src(o), c)
         /\ Receiver(o, c) \in Behind(Src(o)) /\ c.into \in Got(Src(o), Receiver(o, c))
<1>1. /\ o = <<o[1], o[2], o[3], o[4]>>
      /\ Src(o)[1] = o[1] /\ Src(o)[2] = o[2] /\ Src(o)[3] = o[3]
  BY SourceFits
<1>2. <<o[1], o[2], o[3], c.port>> \in sent
  BY <1>1 DEF Carries
<1>3. c \in Taken(Src(o))
  BY <1>1, <1>2 DEF Taken, Carries
<1>4. Receiver(o, c) = Receiver(Src(o), c)
  BY <1>1 DEF Receiver
<1>. QED  BY <1>3, <1>4 DEF Behind, Got

LEMMA TakenIs ==
  ASSUME WalkFits, NEW f \in DOMAIN stream, NEW c \in Taken(f)
  PROVE  \E o \in sent : Carries(c, o) /\ Src(o) = f /\ Receiver(o, c) = Receiver(f, c)
<1>. DEFINE o == <<f[1], f[2], f[3], c.port>>
<1>1. o \in sent /\ c \in Connections /\ c.from = f[1] /\ f = <<f[1], f[2], f[3]>>
  BY TripleIs DEF Taken, WalkFits, StreamsFit
<1>2. o[1] = f[1] /\ o[2] = f[2] /\ o[3] = f[3] /\ o[4] = c.port
  OBVIOUS
<1>. HIDE DEF o
<1>. QED  BY <1>1, <1>2 DEF Carries, Src, Receiver

Arrives(o, c) ==
    Receiver(o, c) \in DOMAIN execution /\ c.into \in execution[Receiver(o, c)].got

Delivered ==
    \A o \in sent : \A c \in Connections :
        Carries(c, o) /\ stream[Src(o)].phase \in {"forwarding", "branches", "done"} => Arrives(o, c)

LEMMA DeliveredKeeps ==
  ASSUME WalkFits, Sends, Delivered, [WalkNext]_walkVars
  PROVE  Delivered'
<1>0. \A o \in sent : Src(o) \in DOMAIN stream
  BY SourceFits
<1>1. CASE Stays
  BY <1>1 DEF Stays, Delivered, Carries, Arrives, Receiver, Src
<1>2. ASSUME NEW throws, Starts(throws)  PROVE Delivered'
  BY <1>2 DEF Starts, Delivered
<1>3. ASSUME NEW f, NEW throws, Branches(f, throws)  PROVE Delivered'
  <2>1. /\ sent' = sent /\ DOMAIN execution' = DOMAIN execution
        /\ \A x \in DOMAIN execution : execution'[x].got = execution[x].got
        /\ \A g \in DOMAIN stream \ {f} : stream'[g] = stream[g]
        /\ stream[f].phase = "forwarding"
    BY <1>3 DEF Branches, Opened
  <2>. SUFFICES ASSUME NEW o \in sent, NEW c \in Connections, Carries(c, o),
                       stream'[Src(o)].phase \in {"forwarding", "branches", "done"}
               PROVE  Arrives(o, c)'
    BY <2>1 DEF Delivered, Carries, Src
  <2>2. stream[Src(o)].phase \in {"forwarding", "branches", "done"}
    BY <2>1, <1>0
  <2>3. Arrives(o, c)
    BY <2>2 DEF Delivered
  <2>. QED  BY <2>1, <2>3 DEF Arrives, Receiver
<1>4. ASSUME NEW f \in DOMAIN stream, Advances(f)  PROVE Delivered'
  <2>1. /\ Gains(f) /\ Puts(f) /\ \A g \in DOMAIN stream \ {f} : stream'[g] = stream[g]
    BY <1>4, GainsIs, PutsIs, StepSpans DEF WalkFits, StreamsFit
  <2>. SUFFICES ASSUME NEW o \in sent', NEW c \in Connections, Carries(c, o),
                       stream'[Src(o)].phase \in {"forwarding", "branches", "done"}
               PROVE  Arrives(o, c)'
    BY DEF Delivered, Carries, Src
  <2>2. o \in sent
    <3>1. CASE sent' = sent
      BY <3>1
    <3>2. CASE sent' # sent
      <4>1. Ends(f)
        BY <2>1, <3>2 DEF Puts
      <4>2. PICK new : sent' = sent \cup {new} /\ Src(new) = f
        BY <4>1, EndsPut
      <4>3. stream'[f].phase = "ending"
        BY <4>1 DEF Ends, Moves
      <4>. QED  BY <4>2, <4>3
    <3>. QED  BY <3>1, <3>2
  <2>3. CASE Arrives(o, c)
    BY <2>1, <2>3 DEF Gains, Arrives, Receiver
  <2>4. CASE ~Arrives(o, c)
    <3>1. stream[Src(o)].phase \notin {"forwarding", "branches", "done"}
      BY <2>2, <2>4 DEF Delivered
    <3>2. Src(o) = f
      BY <3>1, <2>1, <2>2, <1>0
    <3>3. Finishes(f) \/ Forwards(f)
      BY <3>2, <1>4 DEF Advances, Settles, Fails, Ends, Moves, Yielding
    <3>4. CASE Finishes(f)
      <4>1. stream[f].phase = "ended"
        BY <3>1, <3>2, <3>4 DEF Finishes, Moves
      <4>2. c.from # f[1]
        BY <3>4, <4>1 DEF Finishes
      <4>. QED  BY <4>2, <3>2, <2>2, SourceFits DEF Carries
    <3>5. CASE Forwards(f)
      <4>1. Receiver(o, c) \in Behind(f) /\ c.into \in Got(f, Receiver(o, c))
        BY <2>2, <3>2, CarriesIs
      <4>2. Receiver(o, c) \in DOMAIN execution'
        BY <3>5, <4>1 DEF Forwards
      <4>3. c.into \in execution'[Receiver(o, c)].got
        BY <3>5, <4>1 DEF Forwards
      <4>. QED  BY <4>2, <4>3 DEF Arrives, Receiver
    <3>. QED  BY <3>3, <3>4, <3>5
  <2>. QED  BY <2>3, <2>4
<1>. QED  BY <1>1, <1>2, <1>3, <1>4, Course

\* An entry that is ready and has not begun is about to be tried.
Asked ==
    \A x \in DOMAIN execution :
        execution[x].status = "pending" /\ Ready(x[1], execution[x].got) /\ Of(x) = {} =>
            stopped \/ \E g \in DOMAIN stream : stream[g].phase = "forwarding" /\ x \in stream[g].next

LEMMA AskedKeeps ==
  ASSUME WalkFits, Asked, [WalkNext]_walkVars
  PROVE  Asked'
<1>0. stopped => stopped'
  BY Course
<1>1. CASE Stays
  <2>1. UNCHANGED <<execution, stream>>
    BY <1>1 DEF Stays
  <2>2. \A x : Of(x)' = Of(x)
    BY <2>1, OfSame
  <2>. QED  BY <2>1, <2>2, <1>0 DEF Asked, Ready
<1>2. ASSUME NEW throws, Starts(throws)  PROVE Asked'
  <2>. DEFINE go == Going(First, FirstEntries)
  <2>1. NewOnes(go, Root, {})
    BY <1>2, StartsOpens, OpensAre
  <2>2. DOMAIN execution' = First
    BY <1>2 DEF Starts, Opened, FirstEntries
  <2>. SUFFICES ASSUME NEW x \in First, Of(x)' = {}  PROVE stopped'
    BY <2>2 DEF Asked
  <2>3. x \notin go
    <3>1. ASSUME x \in go  PROVE FALSE
      <4>1. NewStream(x) \in DOMAIN stream' /\ X(NewStream(x)) = x
        BY <2>1, <3>1 DEF NewOnes
      <4>. QED  BY <4>1 DEF Of, X
    <3>. QED  BY <3>1
  <2>4. FirstEntries[x].status = "pending" /\ "$input" \in FirstEntries[x].got /\ Kind[x[1]] = "start"
    BY DEF FirstEntries, First
  <2>5. Ready(x[1], FirstEntries[x].got)
    BY <2>4, Zenon DEF Ready, Loops
  <2>. QED  BY <2>3, <2>4, <2>5, <1>2 DEF Going, Startable, Starts
<1>3. ASSUME NEW f, NEW throws, Branches(f, throws)  PROVE Asked'
  <2>. DEFINE go == Going(stream[f].next, execution)
  <2>1. NewOnes(go, f, stream[f].above \cup {f})
    BY <1>3, BranchOpens, OpensAre
  <2>2. /\ DOMAIN execution' = DOMAIN execution
        /\ \A x \in DOMAIN execution : /\ execution'[x].got = execution[x].got
                                       /\ x \notin go => execution'[x].status = execution[x].status
        /\ \A g \in DOMAIN stream \ {f} : stream'[g] = stream[g]
    BY <1>3 DEF Branches, Opened
  <2>. SUFFICES ASSUME NEW x \in DOMAIN execution, execution'[x].status = "pending",
                       Ready(x[1], execution[x].got), Of(x)' = {}, ~stopped'
               PROVE  \E g \in DOMAIN stream' : stream'[g].phase = "forwarding" /\ x \in stream'[g].next
    BY <2>2 DEF Asked, Ready
  <2>3. x \notin go
    <3>1. ASSUME x \in go  PROVE FALSE
      <4>1. NewStream(x) \in DOMAIN stream' /\ X(NewStream(x)) = x
        BY <2>1, <3>1 DEF NewOnes
      <4>. QED  BY <4>1 DEF Of, X
    <3>. QED  BY <3>1
  <2>4. execution[x].status = "pending" /\ ~stopped
    BY <2>2, <2>3, <1>0
  <2>5. Of(x) = {} /\ DOMAIN stream \subseteq DOMAIN stream'
    BY <2>1 DEF NewOnes, Of
  <2>6. PICK g \in DOMAIN stream : stream[g].phase = "forwarding" /\ x \in stream[g].next
    BY <2>4, <2>5 DEF Asked
  <2>7. g # f
    BY <2>3, <2>4, <2>6 DEF Going, Startable
  <2>. QED  BY <2>2, <2>5, <2>6, <2>7
<1>4. ASSUME NEW f \in DOMAIN stream, Advances(f)  PROVE Asked'
  <2>1. /\ Gains(f) /\ \A g \in DOMAIN stream \ {f} : stream'[g] = stream[g]
        /\ DOMAIN stream' = DOMAIN stream
    BY <1>4, GainsIs, StepSpans DEF WalkFits, StreamsFit
  <2>2. Marks(f) /\ \A x : Of(x)' = Of(x)
    BY <1>4, <2>1, StepMarks, OfSame
  <2>. SUFFICES ASSUME NEW x \in DOMAIN execution', execution'[x].status = "pending",
                       Ready(x[1], execution'[x].got), Of(x) = {}, ~stopped'
               PROVE  \E g \in DOMAIN stream : stream'[g].phase = "forwarding" /\ x \in stream'[g].next
    BY <2>1, <2>2 DEF Asked, Ready
  <2>3. x # X(f)
    BY DEF Of, X
  <2>4. CASE Forwards(f) /\ x \in Behind(f)
    BY <2>4 DEF Forwards, Moves
  <2>5. CASE ~(Forwards(f) /\ x \in Behind(f))
    <3>1. x \in DOMAIN execution /\ execution'[x].got = execution[x].got
      <4>1. CASE Forwards(f)
        <5>1. x \in DOMAIN execution
          BY <2>5, <4>1 DEF Forwards
        <5>2. Got(f, x) = {}
          BY <2>5, <4>1 DEF Got, Behind
        <5>3. execution'[x].got = execution[x].got \cup Got(f, x)
          BY <5>1, <4>1 DEF Forwards
        <5>. QED  BY <5>1, <5>2, <5>3
      <4>2. CASE ~Forwards(f)
        BY <2>1, <4>2 DEF Gains
      <4>. QED  BY <4>1, <4>2
    <3>2. execution[x].status = "pending"
      BY <3>1, <2>2, <2>3 DEF Marks
    <3>3. PICK g \in DOMAIN stream : stream[g].phase = "forwarding" /\ x \in stream[g].next
      BY <3>1, <3>2, <1>0 DEF Asked
    <3>4. stream[f].phase # "forwarding"
      BY <1>4 DEF Advances, Settles, Finishes, Fails, Ends, Forwards, Moves
    <3>. QED  BY <3>3, <3>4, <2>1
  <2>. QED  BY <2>4, <2>5
<1>. QED  BY <1>1, <1>2, <1>3, <1>4, Course

-----------------------------------------------------------------------------
(***************************************************************************)
(* What comes back to a loop.                                              *)
(***************************************************************************)
\* The connection takes the output back to the loop's execution x, from the branch of its pass.
Back(o, c, x, pass) ==
    /\ Carries(c, o) /\ c.into = "loop" /\ Receiver(o, c) = x
    /\ \E d \in Connections : d.from = x[1] /\ o[2] = Append(x[2], <<d, pass>>)

LEMMA CameBackIs ==
  ASSUME NEW x, NEW pass
  PROVE  CameBack(x, pass) <=> \E o \in sent : \E c \in Connections : Back(o, c, x, pass)
  BY DEF CameBack, Back, Carries

\* That pass has been taken, and its output was the loop's.
LEMMA BackIs ==
  ASSUME WalkFits, Paths, Sends, NEW o \in sent, NEW c, NEW x \in Nodes \X Ids, NEW pass \in Nat,
         Back(o, c, x, pass)
  PROVE  /\ x[1] \in Loops /\ pass \in 1..Passes(x)
         /\ <<x[1], x[2], pass>> \in DOMAIN stream
         /\ stream[<<x[1], x[2], pass>>].phase \notin Working
<1>1. PICK d \in Connections : d.from = x[1] /\ o[2] = Append(x[2], <<d, pass>>)
  BY DEF Back
<1>2. X(o) \in DOMAIN execution /\ X(o)[2] = o[2]
  BY SourceFits DEF X
<1>3. PathOf(o[2])
  BY <1>2 DEF Paths
<1>4. x[2] \in Seq(Connections \X Nat) /\ <<d, pass>> \in Connections \X Nat
  BY DEF Ids
<1>5. o[2] # <<>> /\ Front(o[2]) = x[2] /\ Last(o[2]) = <<d, pass>>
  BY <1>1, <1>4, AppendIs
<1>. DEFINE q == <<x[1], x[2], pass, d.port>>
<1>6. q \in sent /\ NewBranch(x[1], d.port)
  <2>1. Last(o[2])[1] = d /\ Last(o[2])[2] = pass
    BY <1>5
  <2>2. Opener(o[2]) = q /\ Last(o[2])[1].from = x[1]
    BY <1>1, <1>5, <2>1 DEF Opener
  <2>. QED  BY <1>3, <1>5, <2>1, <2>2 DEF PathOf
<1>7. q[1] = x[1] /\ q[2] = x[2] /\ q[3] = pass
  OBVIOUS
<1>. HIDE DEF q
<1>8. Src(q) \in DOMAIN stream /\ Src(q) \in Of(X(q)) /\ Src(q)[3] = pass
  BY <1>6, <1>7, SourceFits
<1>9. X(q) = x /\ Src(q) = <<x[1], x[2], pass>>
  BY <1>7, PairIs DEF X, Src
<1>10. pass \in 1..Passes(x)
  BY <1>8, <1>9 DEF WalkFits, Numbered
<1>11. stream[Src(q)].phase \notin Working
  BY <1>6 DEF Sends, SentOnce
<1>. QED  BY <1>6, <1>8, <1>9, <1>10, <1>11 DEF NewBranch

\* A loop whose branch has come back takes its next turn, unless it is over or the run stopped.
Returned ==
    \A o \in sent : \A c \in Connections : \A x \in DOMAIN execution : \A pass \in Nat :
        Back(o, c, x, pass) /\ stream[Src(o)].phase \in {"branches", "done"} =>
            stopped \/ Passes(x) > pass \/ execution[x].status \in {"completed", "failed"}

\* Who works has a later pass than the one that has come back.
LEMMA WorksLater ==
  ASSUME WalkFits, Turns, Paths, Sends, NEW o \in sent, NEW c, NEW x \in Nodes \X Ids, NEW pass \in Nat,
         Back(o, c, x, pass), NEW f \in Of(x), stream[f].phase \in Working
  PROVE  Passes(x) > pass
<1>1. /\ pass \in 1..Passes(x) /\ <<x[1], x[2], pass>> \in DOMAIN stream
      /\ stream[<<x[1], x[2], pass>>].phase \notin Working
  BY BackIs
<1>2. f \in DOMAIN stream /\ X(f) = x /\ f = <<f[1], f[2], f[3]>> /\ f[3] \in Nat
  BY TripleIs DEF Of, X, WalkFits, StreamsFit
<1>3. f = <<x[1], x[2], f[3]>>
  BY <1>2 DEF X
<1>4. f[3] # pass
  BY <1>1, <1>3
<1>5. f[3] = Passes(x)
  BY <1>2 DEF Turns, OneTurn
<1>. QED  BY <1>1, <1>2, <1>4, <1>5

LEMMA ReturnedStep ==
  ASSUME WalkFits, Turns, Paths, Sends, Delivered, Returned, stopped => stopped',
         NEW f, Advances(f)
  PROVE  Returned'
<1>1. /\ f \in DOMAIN stream /\ Puts(f) /\ Marks(f) /\ DOMAIN stream' = DOMAIN stream
      /\ \A g \in DOMAIN stream \ {f} : stream'[g] = stream[g]
  BY StepSpans, PutsIs, StepMarks
<1>2. \A x : Of(x)' = Of(x) /\ Passes(x)' = Passes(x)
  BY <1>1, OfSame
<1>. SUFFICES ASSUME NEW o \in sent', NEW c \in Connections, NEW x \in DOMAIN execution', NEW pass \in Nat,
                     Back(o, c, x, pass), stream'[Src(o)].phase \in {"branches", "done"}, ~stopped
             PROVE  Passes(x) > pass \/ execution'[x].status \in {"completed", "failed"}
  BY <1>2 DEF Returned, Back, Carries, Receiver, Src
<1>3. o \in sent
  <2>1. CASE sent' = sent
    BY <2>1
  <2>2. CASE sent' # sent
    <3>1. Ends(f)
      BY <1>1, <2>2 DEF Puts
    <3>2. PICK new : sent' = sent \cup {new} /\ Src(new) = f
      BY <1>1, <3>1, EndsPut
    <3>3. stream'[f].phase = "ending"
      BY <3>1 DEF Ends, Moves
    <3>. QED  BY <3>2, <3>3
  <2>. QED  BY <2>1, <2>2
<1>4. Src(o) \in DOMAIN stream /\ Src(o)[1] = o[1]
  BY <1>3, SourceFits
<1>5. stream[Src(o)].phase \in {"branches", "done"}
  <2>1. CASE Src(o) # f
    BY <2>1, <1>1, <1>4
  <2>2. CASE Src(o) = f
    <3>1. Finishes(f)
      BY <2>2 DEF Advances, Settles, Fails, Ends, Forwards, Moves, Yielding
    <3>2. c.from = f[1]
      BY <2>2, <1>4 DEF Back, Carries
    <3>. QED  BY <2>2, <3>1, <3>2 DEF Finishes, Moves
  <2>. QED  BY <2>1, <2>2
<1>6. x \in DOMAIN execution /\ x \in Nodes \X Ids
  <2>1. Arrives(o, c)
    BY <1>3, <1>5 DEF Delivered, Back
  <2>. QED  BY <2>1 DEF Arrives, Back, WalkFits, EntriesFit
<1>7. Passes(x) > pass \/ execution[x].status \in {"completed", "failed"}
  BY <1>3, <1>5, <1>6 DEF Returned
<1>8. CASE x # X(f)
  BY <1>6, <1>7, <1>8, <1>1 DEF Marks
<1>9. CASE x = X(f) /\ stream[f].phase = "node"
  <2>1. f \in Of(x) /\ stream[f].phase \in Working
    BY <1>1, <1>9 DEF Of, X, Working
  <2>. QED  BY <2>1, <1>3, <1>6, WorksLater
<1>10. CASE x = X(f) /\ stream[f].phase # "node"
  BY <1>7, <1>10, <1>1 DEF Marks
<1>. QED  BY <1>8, <1>9, <1>10

LEMMA ReturnedBranch ==
  ASSUME WalkFits, Turns, Paths, Sends, Delivered, Returned, NEW f, NEW throws, Branches(f, throws)
  PROVE  Returned'
<1>. DEFINE go == Going(stream[f].next, execution)
<1>1. /\ Opens(go, throws, f, stream[f].above \cup {f}, execution) /\ NewOnes(go, f, stream[f].above \cup {f})
  BY BranchOpens, OpensAre
<1>2. /\ f \in DOMAIN stream /\ stream[f].phase = "forwarding" /\ stopped' = stopped /\ sent' = sent
      /\ DOMAIN execution' = DOMAIN execution
      /\ \A x \in DOMAIN execution : x \notin go => execution'[x].status = execution[x].status
      /\ \A g \in DOMAIN stream \ {f} : stream'[g] = stream[g]
  BY DEF Branches, Opened
<1>3. \A x \in Nodes \X Ids : /\ x \in go => Passes(x)' = Passes(x) + 1
                              /\ x \notin go => Passes(x)' = Passes(x)
  <2>1. go \in SUBSET (Nodes \X Ids) /\ Numbered
    BY <1>1 DEF Opens, WalkFits
  <2>. QED  BY <2>1, <1>1, OfGrows DEF NewOnes
<1>. SUFFICES ASSUME NEW o \in sent, NEW c \in Connections, NEW x \in DOMAIN execution, NEW pass \in Nat,
                     Back(o, c, x, pass), stream'[Src(o)].phase \in {"branches", "done"}, ~stopped
             PROVE  Passes(x)' > pass \/ execution'[x].status \in {"completed", "failed"}
  BY <1>2 DEF Returned, Back, Carries, Receiver, Src
<1>4. Src(o) \in DOMAIN stream /\ x \in Nodes \X Ids
  BY SourceFits DEF WalkFits, EntriesFit
<1>5. /\ x[1] \in Loops /\ pass \in 1..Passes(x) /\ Passes(x) \in Nat
  BY <1>4, BackIs, PassesIsNat DEF WalkFits
<1>6. CASE x \in go
  BY <1>3, <1>4, <1>5, <1>6
<1>7. CASE x \notin go /\ Src(o) # f
  <2>1. stream[Src(o)].phase \in {"branches", "done"}
    BY <1>2, <1>4, <1>7
  <2>2. Passes(x) > pass \/ execution[x].status \in {"completed", "failed"}
    BY <2>1 DEF Returned
  <2>. QED  BY <2>2, <1>2, <1>3, <1>4, <1>7
<1>8. CASE x \notin go /\ Src(o) = f
  <2>1. x \in stream[f].next
    BY <1>2, <1>8, CarriesIs DEF Sends, NextIs, Back
  <2>2. "loop" \in execution[x].got
    BY <1>2, <1>8 DEF Delivered, Arrives, Back
  <2>3. Ready(x[1], execution[x].got)
    BY <2>2, <1>5 DEF Ready, Loops
  <2>4. execution[x].status # "pending"
    BY <2>1, <2>3, <1>8 DEF Going, Startable
  <2>5. CASE execution[x].status = "running"
    <3>1. PICK g \in Of(x) : stream[g].phase \in Working
      BY <2>5 DEF Turns, RunningRuns
    <3>2. Passes(x) > pass
      BY <3>1, <1>4, WorksLater
    <3>. QED  BY <3>2, <1>3, <1>4, <1>8
  <2>6. CASE execution[x].status \in {"completed", "failed"}
    BY <2>6, <1>2, <1>8
  <2>. QED  BY <2>4, <2>5, <2>6 DEF WalkFits, EntriesFit, EntryType, Statuses
<1>. QED  BY <1>6, <1>7, <1>8

LEMMA ReturnedKeeps ==
  ASSUME WalkFits, Turns, Paths, Sends, Delivered, Returned, [WalkNext]_walkVars
  PROVE  Returned'
<1>0. stopped => stopped'
  BY Course
<1>1. CASE Stays
  <2>1. UNCHANGED <<execution, stream, sent>>
    BY <1>1 DEF Stays
  <2>2. \A x : Passes(x)' = Passes(x)
    BY <2>1, OfSame
  <2>. QED  BY <2>1, <2>2, <1>0 DEF Returned, Back, Carries, Receiver, Src
<1>2. ASSUME NEW throws, Starts(throws)  PROVE Returned'
  BY <1>2 DEF Starts, Returned
<1>. QED  BY <1>0, <1>1, <1>2, Course, ReturnedStep, ReturnedBranch

LEMMA NothingIsLeft ==
  ASSUME WalkFits, Turns, FileIsTrue, Sends, Paths, Delivered, Asked, Returned
  PROVE  NothingLeftBehind
<1>. SUFFICES ASSUME Completed, ~stopped, NEW o \in sent, NEW c \in Connections, Carries(c, o)
             PROVE  LET x == Receiver(o, c) IN
                    /\ x \in DOMAIN execution /\ c.into \in execution[x].got
                    /\ Ready(c.to, execution[x].got) =>
                          \/ execution[x].status = "completed"
                          \/ c.to \in Loops /\ ~CameBack(x, Passes(x))
  BY DEF NothingLeftBehind, Carries
<1>. DEFINE x == Receiver(o, c)
<1>1. \A f \in DOMAIN stream : stream[f].phase = "done"
  BY DEF FileIsTrue, Completed
<1>2. Arrives(o, c)
  BY <1>1, SourceFits DEF Delivered
<1>3. x \in DOMAIN execution /\ c.into \in execution[x].got /\ x[1] = c.to /\ x \in Nodes \X Ids
  <2>1. Receiver(o, c)[1] = c.to
    BY DEF Receiver
  <2>. QED  BY <1>2, <2>1 DEF Arrives, WalkFits, EntriesFit
<1>4. execution[x].status \in {"pending", "completed"}
  BY <1>3, WholeAtTheEnd DEF CompletedIsWhole
<1>5. ASSUME Ready(c.to, execution[x].got), execution[x].status = "pending"
      PROVE  c.to \in Loops /\ ~CameBack(x, Passes(x))
  <2>. HIDE DEF x
  <2>1. Of(x) # {}
    BY <1>1, <1>3, <1>5 DEF Asked
  <2>2. PICK f \in DOMAIN stream : X(f) = x
    BY <2>1 DEF Of, X
  <2>3. c.to \in Loops
    <3>1. stream[f].phase # "threw" /\ f[1] = c.to
      BY <1>1, <1>3, <2>2 DEF X
    <3>. QED  BY <3>1, <2>2, <1>5 DEF Turns, BegunOnce
  <2>4. ~CameBack(x, Passes(x))
    <3>. SUFFICES ASSUME NEW q \in sent, NEW d \in Connections, Back(q, d, x, Passes(x))  PROVE FALSE
      BY CameBackIs
    <3>1. Passes(x) \in Nat
      BY <1>3, PassesIsNat DEF WalkFits
    <3>2. stream[Src(q)].phase \in {"branches", "done"}
      BY <1>1, SourceFits
    <3>3. Passes(x) > Passes(x) \/ execution[x].status \in {"completed", "failed"}
      BY <3>1, <3>2, <1>3 DEF Returned
    <3>. QED  BY <3>1, <3>3, <1>5
  <2>. QED  BY <2>3, <2>4
<1>. QED  BY <1>3, <1>4, <1>5

-----------------------------------------------------------------------------
(***************************************************************************)
(* The turns of a for loop.                                                *)
(***************************************************************************)
LoopSends(x) == {o \in sent : X(o) = x /\ o[4] = "loop"}
DoneSent(x)  == \E o \in sent : X(o) = x /\ o[4] = "done"

\* It has sent into its branch as often as its state counts, until it is done.
CountsTurns(x) ==
    /\ IsFiniteSet(LoopSends(x))
    /\ DoneSent(x) => Cardinality(LoopSends(x)) = Iterations[x[1]]
    /\ ~DoneSent(x) => /\ Cardinality(LoopSends(x)) = execution[x].turn
                       /\ execution[x].turn <= Iterations[x[1]]
    /\ execution[x].status = "completed" => DoneSent(x)

ForTurns == \A x \in DOMAIN execution : Kind[x[1]] = "for" => CountsTurns(x)

LEMMA ForOutputs ==
  ASSUME NEW n \in Nodes, NEW turn, Kind[n] = "for"
  PROVE  /\ n \in Loops /\ Iterations[n] \in Nat
         /\ turn + 1 <= Iterations[n] => Outputs(n, turn) = {"loop"}
         /\ ~(turn + 1 <= Iterations[n]) => Outputs(n, turn) = {"done"}
         /\ NewBranch(n, "loop") /\ ~NewBranch(n, "done")
<1>1. n \in Loops
  BY DEF Loops
<1>2. Iterations[n] \in Nat
  BY <1>1, WorkFlowRunAssumption
<1>3. Outputs(n, turn) = IF turn + 1 <= Iterations[n] THEN {"loop"} ELSE {"done"}
  BY DEF Outputs
<1>. QED  BY <1>1, <1>2, <1>3 DEF NewBranch

LEMMA ForTurnsSame ==
  ASSUME WalkFits, ForTurns, NEW f, Advances(f), ~Ends(f), sent' = sent
  PROVE  ForTurns'
<1>1. f \in DOMAIN stream /\ X(f) \in DOMAIN execution
  BY StepSpans DEF WalkFits, StreamsFit
<1>2. ASSUME NEW x \in DOMAIN execution
      PROVE  /\ x \in DOMAIN execution' /\ execution'[x].turn = execution[x].turn
             /\ execution'[x].status \in {execution[x].status, "failed"}
  <2>1. CASE Settles(f)
    BY <2>1 DEF Settles
  <2>2. CASE Finishes(f)
    BY <2>2 DEF Finishes
  <2>3. CASE Fails(f)
    BY <2>3, <1>1 DEF Fails, Sets
  <2>4. CASE Forwards(f)
    BY <2>4 DEF Forwards
  <2>. QED  BY <2>1, <2>2, <2>3, <2>4 DEF Advances
<1>3. ASSUME NEW x \in DOMAIN execution' \ DOMAIN execution
      PROVE  execution'[x].turn = 0 /\ execution'[x].status = "pending"
  <2>1. CASE Forwards(f)
    BY <2>1 DEF Forwards
  <2>2. CASE ~Forwards(f)
    BY <2>2 DEF Advances, Settles, Finishes, Fails, Sets
  <2>. QED  BY <2>1, <2>2
<1>4. \A x : LoopSends(x)' = LoopSends(x) /\ (DoneSent(x)' <=> DoneSent(x))
  BY DEF LoopSends, DoneSent, X
<1>. SUFFICES ASSUME NEW x \in DOMAIN execution', Kind[x[1]] = "for"
             PROVE  CountsTurns(x)'
  BY DEF ForTurns
<1>5. CASE x \in DOMAIN execution
  <2>1. CountsTurns(x)
    BY <1>5 DEF ForTurns
  <2>2. execution'[x].status = "completed" => execution[x].status = "completed"
    BY <1>2, <1>5
  <2>. QED  BY <2>1, <2>2, <1>2, <1>4, <1>5 DEF CountsTurns
<1>6. CASE x \notin DOMAIN execution
  <2>1. \A o \in sent : X(o) # x
    BY <1>6, SourceFits
  <2>2. LoopSends(x) = {} /\ ~DoneSent(x)
    BY <2>1 DEF LoopSends, DoneSent
  <2>3. execution'[x].turn = 0 /\ execution'[x].status = "pending" /\ x[1] \in Nodes
    <3>1. Forwards(f)
      BY <1>6 DEF Advances, Settles, Finishes, Fails, Sets
    <3>2. x \in Nodes \X Ids
      BY <3>1, <1>1, <1>6, BehindFits DEF Forwards, WalkFits
    <3>. QED  BY <3>2, <1>3, <1>6
  <2>4. Iterations[x[1]] \in Nat
    BY <2>3, ForOutputs
  <2>5. 0 <= Iterations[x[1]]
    BY <2>4
  <2>. QED  BY <2>2, <2>3, <2>5, <1>4, FS_EmptySet DEF CountsTurns
<1>. QED  BY <1>5, <1>6

LEMMA ForTurnsEnds ==
  ASSUME WalkFits, Sends, ForTurns, NEW f \in DOMAIN stream, Advances(f), Ends(f)
  PROVE  ForTurns'
<1>1. X(f) \in DOMAIN execution /\ f[1] \in Nodes /\ X(f)[1] = f[1]
  BY TripleIs DEF WalkFits, StreamsFit, X
<1>2. PICK port \in Outputs(f[1], execution[X(f)].turn) : \E o :
            /\ sent' = sent \cup {o} /\ o[4] = port /\ Src(o) = f /\ X(o) = X(f)
            /\ execution'[X(f)].status = IF NewBranch(f[1], port) THEN "pending" ELSE "completed"
            /\ execution'[X(f)].turn = execution[X(f)].turn + (IF f[1] \in Loops THEN 1 ELSE 0)
  BY EndsPut
<1>3. PICK new : 
            /\ sent' = sent \cup {new} /\ new[4] = port /\ Src(new) = f /\ X(new) = X(f)
            /\ execution'[X(f)].status = IF NewBranch(f[1], port) THEN "pending" ELSE "completed"
            /\ execution'[X(f)].turn = execution[X(f)].turn + (IF f[1] \in Loops THEN 1 ELSE 0)
  BY <1>2
<1>4. /\ DOMAIN execution' = DOMAIN execution
      /\ \A y \in DOMAIN execution \ {X(f)} : execution'[y] = execution[y]
  BY DEF Ends, Sets
<1>5. new \notin sent
  <2>1. stream[f].phase \in Working
    BY DEF Ends, Moves, Working
  <2>. QED  BY <2>1, <1>3 DEF Sends, SentOnce
<1>6. \A o \in sent : X(o) = X(f) => NewBranch(o[1], o[4])
  <2>1. stream[f].phase \in Working /\ f \in Of(X(f))
    BY DEF Ends, Moves, Working, Of, X
  <2>2. ASSUME NEW o \in sent, X(o) = X(f)  PROVE NewBranch(o[1], o[4])
    BY <2>1, <2>2 DEF Sends, LastSend
  <2>. QED  BY <2>2
<1>. SUFFICES ASSUME NEW x \in DOMAIN execution, Kind[x[1]] = "for"
             PROVE  CountsTurns(x)'
  BY <1>4 DEF ForTurns
<1>7. CountsTurns(x)
  BY DEF ForTurns
<1>8. CASE x # X(f)
  <2>1. LoopSends(x)' = LoopSends(x) /\ (DoneSent(x)' <=> DoneSent(x)) /\ execution'[x] = execution[x]
    BY <1>3, <1>4, <1>8 DEF LoopSends, DoneSent, X
  <2>. QED  BY <2>1, <1>7 DEF CountsTurns
<1>9. CASE x = X(f)
  <2>1. ~DoneSent(x)
    BY <1>6, <1>9 DEF DoneSent, NewBranch
  <2>2. /\ IsFiniteSet(LoopSends(x)) /\ Cardinality(LoopSends(x)) = execution[x].turn
        /\ execution[x].turn <= Iterations[x[1]] /\ execution[x].turn \in Nat
    BY <2>1, <1>7 DEF CountsTurns, WalkFits, EntriesFit, EntryType
  <2>3. /\ f[1] \in Loops /\ Iterations[f[1]] \in Nat
        /\ execution[x].turn + 1 <= Iterations[f[1]] => port = "loop" /\ NewBranch(f[1], port)
        /\ ~(execution[x].turn + 1 <= Iterations[f[1]]) => port = "done" /\ ~NewBranch(f[1], port)
    BY <1>1, <1>2, <1>9, ForOutputs
  <2>4. CASE port = "loop"
    <3>1. LoopSends(x)' = LoopSends(x) \cup {new} /\ ~DoneSent(x)'
      BY <2>1, <2>4, <1>3, <1>9 DEF LoopSends, DoneSent, X
    <3>2. new \notin LoopSends(x)
      BY <1>5 DEF LoopSends
    <3>3. IsFiniteSet(LoopSends(x)') /\ Cardinality(LoopSends(x)') = execution[x].turn + 1
      BY <3>1, <3>2, <2>2, FS_AddElement
    <3>4. execution'[x].turn = execution[x].turn + 1 /\ execution'[x].status = "pending"
      BY <2>3, <2>4, <1>3, <1>9
    <3>5. execution[x].turn + 1 <= Iterations[x[1]]
      BY <2>3, <2>4, <1>1, <1>9
    <3>. QED  BY <3>1, <3>3, <3>4, <3>5 DEF CountsTurns
  <2>5. CASE port = "done"
    <3>1. LoopSends(x)' = LoopSends(x) /\ DoneSent(x)'
      BY <2>5, <1>3, <1>9 DEF LoopSends, DoneSent, X
    <3>2. execution[x].turn = Iterations[x[1]]
      BY <2>2, <2>3, <2>5, <1>1, <1>9
    <3>. QED  BY <3>1, <3>2, <2>2 DEF CountsTurns
  <2>. QED  BY <2>3, <2>4, <2>5
<1>. QED  BY <1>8, <1>9

LEMMA ForTurnsKeep ==
  ASSUME WalkFits, Sends, ForTurns, [WalkNext]_walkVars
  PROVE  ForTurns'
<1>1. CASE Stays
  BY <1>1 DEF Stays, ForTurns, CountsTurns, LoopSends, DoneSent, X
<1>2. ASSUME NEW throws, Starts(throws)  PROVE ForTurns'
  <2>1. DOMAIN execution' = First
    BY <1>2 DEF Starts, Opened, FirstEntries
  <2>. QED  BY <2>1 DEF First, ForTurns
<1>3. ASSUME NEW f, NEW throws, Branches(f, throws)  PROVE ForTurns'
  <2>1. /\ DOMAIN execution' = DOMAIN execution /\ sent' = sent
        /\ \A x \in DOMAIN execution :
              /\ execution'[x].turn = execution[x].turn
              /\ execution'[x].status = "completed" => execution[x].status = "completed"
    BY <1>3 DEF Branches, Opened
  <2>2. \A x : LoopSends(x)' = LoopSends(x) /\ (DoneSent(x)' <=> DoneSent(x))
    BY <2>1 DEF LoopSends, DoneSent, X
  <2>. QED  BY <2>1, <2>2 DEF ForTurns, CountsTurns
<1>4. ASSUME NEW f \in DOMAIN stream, Advances(f)  PROVE ForTurns'
  <2>1. CASE Ends(f)
    BY <2>1, <1>4, ForTurnsEnds
  <2>2. CASE ~Ends(f)
    BY <2>2, <1>4, PutsIs, ForTurnsSame DEF Puts
  <2>. QED  BY <2>1, <2>2
<1>. QED  BY <1>1, <1>2, <1>3, <1>4, Course

-----------------------------------------------------------------------------
(***************************************************************************)
(* The place of an execution in a graph whose loops are nested.            *)
(***************************************************************************)
\* The connections of an execution id.
Conns(id) == [i \in 1..Len(id) |-> id[i][1]]

LEMMA ConnsFit ==
  ASSUME NEW id \in Ids
  PROVE  Conns(id) \in Seq(Connections) /\ Len(Conns(id)) = Len(id)
<1>1. id \in Seq(Connections \X Nat) /\ Len(id) \in Nat
  BY DEF Ids
<1>2. \A i \in 1..Len(id) : id[i] \in Connections \X Nat
  BY <1>1, ElementOfSeq
<1>3. \A i \in 1..Len(id) : id[i][1] \in Connections
  BY <1>2
<1>4. Conns(id) \in [1..Len(id) -> Connections]
  BY <1>3 DEF Conns
<1>5. Conns(id) \in Seq(Connections)
  BY <1>1, <1>4, SeqDef
<1>. QED  BY <1>1, <1>4, <1>5, LenProperties

LEMMA ConnsAppend ==
  ASSUME NEW id \in Ids, NEW e \in Connections \X Nat
  PROVE  Conns(Append(id, e)) = Append(Conns(id), e[1])
<1>. DEFINE longer == Append(id, e)
<1>1. /\ longer \in Ids /\ Len(longer) = Len(id) + 1 /\ longer[Len(id) + 1] = e
      /\ \A i \in 1..Len(id) : longer[i] = id[i]
      /\ Len(id) \in Nat
  BY AppendProperties DEF Ids
<1>. HIDE DEF longer
<1>2. Conns(longer) \in Seq(Connections) /\ Len(Conns(longer)) = Len(id) + 1
      /\ Conns(id) \in Seq(Connections) /\ Len(Conns(id)) = Len(id) /\ e[1] \in Connections
  BY <1>1, ConnsFit
<1>3. /\ Append(Conns(id), e[1]) \in Seq(Connections)
      /\ Len(Append(Conns(id), e[1])) = Len(id) + 1
      /\ Append(Conns(id), e[1])[Len(id) + 1] = e[1]
      /\ \A i \in 1..Len(id) : Append(Conns(id), e[1])[i] = Conns(id)[i]
  BY <1>2, AppendProperties
<1>4. ASSUME NEW i \in 1..(Len(id) + 1)  PROVE Conns(longer)[i] = Append(Conns(id), e[1])[i]
  <2>1. Conns(longer)[i] = longer[i][1]
    BY <1>1 DEF Conns
  <2>2. CASE i = Len(id) + 1
    BY <2>1, <2>2, <1>1, <1>3
  <2>3. CASE i # Len(id) + 1
    <3>1. i \in 1..Len(id)
      BY <2>3, <1>1
    <3>2. Conns(id)[i] = id[i][1]
      BY <3>1 DEF Conns
    <3>. QED  BY <3>1, <3>2, <2>1, <1>1, <1>3
  <2>. QED  BY <2>2, <2>3
<1>5. Conns(longer) = Append(Conns(id), e[1])
  <2>1. \A i \in 1..Len(Conns(longer)) : Conns(longer)[i] = Append(Conns(id), e[1])[i]
    BY <1>2, <1>4
  <2>. QED  BY <2>1, <1>2, <1>3, SeqEqual
<1>. QED  BY <1>5 DEF longer

LEMMA ConnsFront ==
  ASSUME NEW id \in Ids, id # <<>>
  PROVE  /\ Front(id) \in Ids /\ Last(id) \in Connections \X Nat
         /\ Conns(id) # <<>> /\ Front(Conns(id)) = Conns(Front(id)) /\ Last(Conns(id)) = Last(id)[1]
<1>1. /\ Front(id) \in Ids /\ Last(id) \in Connections \X Nat
      /\ id = Append(Front(id), Last(id))
  BY FrontIs DEF Ids
<1>2. Conns(id) = Append(Conns(Front(id)), Last(id)[1])
  BY <1>1, ConnsAppend
<1>3. Conns(Front(id)) \in Seq(Connections) /\ Last(id)[1] \in Connections
  BY <1>1, ConnsFit
<1>. QED  BY <1>1, <1>2, <1>3, AppendIs

LEMMA ConnsEmpty == Conns(<<>>) = <<>>
<1>1. <<>> \in Ids /\ Len(<<>>) = 0
  BY DEF Ids
<1>2. Conns(<<>>) \in Seq(Connections) /\ Len(Conns(<<>>)) = 0
  BY <1>1, ConnsFit
<1>. QED  BY <1>2, EmptySeq

Placed(place) == \A x \in DOMAIN execution : place[x[1]] = Conns(x[2])

\* What a connection of a nested graph does with the id of an execution.
LEMMA PlaceIs ==
  ASSUME WalkFits, NEW place, Nested(place), Placed(place), NEW f \in DOMAIN stream, NEW c \in Taken(f)
  PROVE  /\ place[c.to] = Conns(Receiver(f, c)[2])
         /\ c.into = "loop" => /\ ~NewBranch(f[1], c.port) /\ Receiver(f, c)[2] = Front(f[2])
                               /\ f[2] # <<>> /\ Last(f[2])[1].from = c.to
         /\ c.into # "loop" /\ ~NewBranch(f[1], c.port) => Receiver(f, c)[2] = f[2]
<1>0. /\ f[1] \in Nodes /\ f[2] \in Ids /\ f[3] \in Nat /\ X(f) \in DOMAIN execution
      /\ c \in Connections /\ c.from = f[1]
  BY TripleIs DEF WalkFits, StreamsFit, Taken
<1>1. place[f[1]] = Conns(f[2])
  <2>1. X(f)[1] = f[1] /\ X(f)[2] = f[2]
    BY DEF X
  <2>. QED  BY <1>0, <2>1 DEF Placed
<1>. DEFINE back == Conns(f[2]) # <<>> /\ Last(Conns(f[2])).from = c.to
<1>2. back <=> f[2] # <<>> /\ Last(f[2])[1].from = c.to
  <2>1. CASE f[2] = <<>>
    BY <2>1, ConnsEmpty
  <2>2. CASE f[2] # <<>>
    BY <2>2, <1>0, ConnsFront
  <2>. QED  BY <2>1, <2>2
<1>3. IF NewBranch(f[1], c.port)
      THEN place[c.to] = Append(Conns(f[2]), c) /\ c.into # "loop"
      ELSE /\ place[c.to] = IF back THEN Front(Conns(f[2])) ELSE Conns(f[2])
           /\ c.into = "loop" <=> back
  BY <1>0, <1>1 DEF Nested
<1>. HIDE DEF back
<1>4. CASE NewBranch(f[1], c.port)
  <2>1. Receiver(f, c)[2] = Append(f[2], <<c, f[3]>>)
    BY <1>4 DEF Receiver
  <2>2. <<c, f[3]>> \in Connections \X Nat /\ <<c, f[3]>>[1] = c
    BY <1>0
  <2>3. Conns(Append(f[2], <<c, f[3]>>)) = Append(Conns(f[2]), c)
    BY <1>0, <2>2, ConnsAppend
  <2>. QED  BY <1>3, <1>4, <2>1, <2>3
<1>5. CASE ~NewBranch(f[1], c.port) /\ back
  <2>1. Receiver(f, c)[2] = Front(f[2])
    BY <1>2, <1>5 DEF Receiver
  <2>2. Front(Conns(f[2])) = Conns(Front(f[2]))
    BY <1>0, <1>2, <1>5, ConnsFront
  <2>. QED  BY <1>2, <1>3, <1>5, <2>1, <2>2
<1>6. CASE ~NewBranch(f[1], c.port) /\ ~back
  <2>1. Receiver(f, c)[2] = f[2]
    BY <1>2, <1>6 DEF Receiver
  <2>. QED  BY <1>3, <1>6, <2>1
<1>. QED  BY <1>4, <1>5, <1>6

LEMMA PlacedKeeps ==
  ASSUME WalkFits, NEW place, Nested(place), Placed(place), [WalkNext]_walkVars
  PROVE  Placed(place)'
<1>1. CASE Stays
  BY <1>1 DEF Stays, Placed
<1>2. ASSUME NEW throws, Starts(throws)  PROVE Placed(place)'
  <2>1. DOMAIN execution' = First
    BY <1>2 DEF Starts, Opened, FirstEntries
  <2>2. \A x \in First : x[1] \in Nodes /\ Kind[x[1]] = "start" /\ x[2] = <<>>
    BY DEF First
  <2>3. \A x \in First : place[x[1]] = <<>>
    BY <2>2 DEF Nested
  <2>. QED  BY <2>1, <2>2, <2>3, ConnsEmpty DEF Placed
<1>3. ASSUME NEW f, NEW throws, Branches(f, throws)  PROVE Placed(place)'
  BY <1>3 DEF Branches, Opened, Placed
<1>4. ASSUME NEW f \in DOMAIN stream, Advances(f)  PROVE Placed(place)'
  <2>1. Gains(f)
    BY <1>4, GainsIs DEF WalkFits, StreamsFit
  <2>. SUFFICES ASSUME NEW x \in DOMAIN execution', x \notin DOMAIN execution  PROVE place[x[1]] = Conns(x[2])
    BY DEF Placed
  <2>2. PICK c \in Taken(f) : x = Receiver(f, c)
    BY <2>1 DEF Gains, Forwards, Behind
  <2>3. x[1] = c.to
    BY <2>2 DEF Receiver
  <2>4. place[c.to] = Conns(Receiver(f, c)[2])
    BY <1>4, PlaceIs
  <2>. QED  BY <2>2, <2>3, <2>4
<1>. QED  BY <1>1, <1>2, <1>3, <1>4, Course

-----------------------------------------------------------------------------
(***************************************************************************)
(* The order of a loop's turns.                                            *)
(***************************************************************************)
\* A loop that has begun was fed from before it, and each later turn by the branch of the last.
Fed(x) ==
    \E o \in sent : \E c \in Connections :
        /\ Carries(c, o) /\ c.into # "loop" /\ Receiver(o, c) = x
        /\ stream[Src(o)].phase \in Parted

FedAgain(x, pass) ==
    \E o \in sent : \E c \in Connections :
        Back(o, c, x, pass) /\ stream[Src(o)].phase \in Parted

InOrder ==
    \A f \in DOMAIN stream : f[1] \in Loops =>
        Fed(X(f)) /\ (f[3] > 1 => FedAgain(X(f), f[3] - 1))

\* What has fed a loop stays.
LEMMA FedStays ==
  ASSUME WalkFits, sent \subseteq sent',
         \A g \in DOMAIN stream : stream[g].phase \in Parted => stream'[g].phase \in Parted
  PROVE  /\ \A x : Fed(x) => Fed(x)'
         /\ \A x, pass : FedAgain(x, pass) => FedAgain(x, pass)'
<1>1. \A o \in sent : stream[Src(o)].phase \in Parted => stream'[Src(o)].phase \in Parted
  BY SourceFits
<1>2. ASSUME NEW x, Fed(x)  PROVE Fed(x)'
  BY <1>1, <1>2 DEF Fed, Carries, Receiver, Src
<1>3. ASSUME NEW x, NEW pass, FedAgain(x, pass)  PROVE FedAgain(x, pass)'
  BY <1>1, <1>3 DEF FedAgain, Back, Carries, Receiver, Src
<1>. QED  BY <1>2, <1>3

\* Two outputs on one connection that opens no new branch, from one execution, are one.
LEMMA SameOutput ==
  ASSUME WalkFits, Sends, NEW o \in sent, NEW q \in sent, NEW c, Carries(c, o), Carries(c, q),
         ~NewBranch(o[1], c.port), o[2] = q[2]
  PROVE  o = q
<1>1. o[1] = q[1] /\ o[4] = q[4] /\ o[4] = c.port /\ X(o) = X(q)
  BY DEF Carries, X
<1>. QED  BY <1>1 DEF Sends, LastSend

LEMMA FirstTurnIs ==
  ASSUME WalkFits, Sends, InOrder, NEW place, Nested(place), Placed(place),
         NEW o \in sent, NEW c, Carries(c, o), c.into # "loop", c.to \in Loops,
         stream[Src(o)].phase = "forwarding"
  PROVE  Passes(Receiver(o, c)) = 0
<1>. DEFINE x == Receiver(o, c)
<1>1. /\ Src(o) \in DOMAIN stream /\ o[2] \in Ids /\ o[3] \in Nat /\ c \in Connections /\ c.into = "value"
      /\ x \in Nodes \X Ids /\ x[1] = c.to /\ o[1] \in Nodes
  <2>1. c \in Connections /\ c.into \in {"value", "loop"}
    BY WorkFlowRunAssumption DEF Carries
  <2>2. Src(o) \in DOMAIN stream /\ o[2] \in Ids /\ o[3] \in Nat /\ o[1] \in Nodes
    BY SourceFits
  <2>3. x \in Nodes \X Ids
    BY <2>1, <2>2, ReceiverFits
  <2>4. x[1] = c.to
    BY DEF Receiver
  <2>. QED  BY <2>1, <2>2, <2>3, <2>4
<1>2. Passes(x) \in Nat
  BY <1>1, PassesIsNat DEF WalkFits
<1>3. ASSUME Passes(x) > 0  PROVE FALSE
  <2>. HIDE DEF x
  <2>0. x = Receiver(o, c)
    BY DEF x
  <2>. DEFINE f == <<x[1], x[2], 1>>
  <2>1. f \in DOMAIN stream
    BY <1>1, <1>2, <1>3 DEF WalkFits, Numbered
  <2>2. f[1] \in Loops /\ X(f) = x
    BY <1>1, PairIs DEF X
  <2>. HIDE DEF f
  <2>3. Fed(x)
    BY <2>1, <2>2 DEF InOrder
  <2>4. PICK q \in sent, d \in Connections :
           /\ Carries(d, q) /\ d.into # "loop" /\ Receiver(q, d) = x /\ stream[Src(q)].phase \in Parted
    BY <2>3 DEF Fed
  <2>5. d = c
    <3>1. d.to = c.to
      BY <1>1, <2>4 DEF Receiver
    <3>. QED  BY <1>1, <2>4, <3>1, WorkFlowRunAssumption
  <2>6. Src(o) # Src(q)
    BY <2>4 DEF Parted, GaveUp
  <2>7. q[1] = o[1] /\ q[2] \in Ids /\ q[3] \in Nat
    BY <2>4, <2>5, SourceFits DEF Carries
  <2>8. CASE NewBranch(o[1], c.port)
    <3>1. Append(o[2], <<c, o[3]>>) = Append(q[2], <<c, q[3]>>)
      BY <2>0, <2>4, <2>5, <2>7, <2>8 DEF Receiver
    <3>2. /\ <<c, o[3]>> \in Connections \X Nat /\ <<c, q[3]>> \in Connections \X Nat
          /\ o[2] \in Seq(Connections \X Nat) /\ q[2] \in Seq(Connections \X Nat)
      BY <1>1, <2>7 DEF Ids
    <3>3. /\ Front(Append(o[2], <<c, o[3]>>)) = o[2] /\ Last(Append(o[2], <<c, o[3]>>)) = <<c, o[3]>>
          /\ Front(Append(q[2], <<c, q[3]>>)) = q[2] /\ Last(Append(q[2], <<c, q[3]>>)) = <<c, q[3]>>
      BY <3>2, AppendIs
    <3>4. o[2] = q[2]
      BY <3>1, <3>3
    <3>5. <<c, o[3]>> = <<c, q[3]>>
      BY <3>1, <3>3
    <3>6. <<c, o[3]>>[2] = o[3] /\ <<c, q[3]>>[2] = q[3]
      OBVIOUS
    <3>7. o[3] = q[3]
      BY <3>5, <3>6
    <3>. QED  BY <3>4, <3>7, <2>6, <2>7 DEF Src
  <2>9. CASE ~NewBranch(o[1], c.port)
    <3>1. x[2] = o[2]
      <4>1. c \in Taken(Src(o)) /\ Receiver(o, c) = Receiver(Src(o), c) /\ Src(o)[1] = o[1] /\ Src(o)[2] = o[2]
        BY CarriesIs, SourceFits
      <4>. QED  BY <4>1, <1>1, <2>0, <2>9, PlaceIs
    <3>2. x[2] = q[2]
      <4>1. c \in Taken(Src(q)) /\ Receiver(q, c) = Receiver(Src(q), c) /\ Src(q)[1] = q[1] /\ Src(q)[2] = q[2]
            /\ Src(q) \in DOMAIN stream
        BY <2>4, <2>5, CarriesIs, SourceFits
      <4>. QED  BY <4>1, <1>1, <2>4, <2>5, <2>7, <2>9, PlaceIs
    <3>. QED  BY <3>1, <3>2, <2>4, <2>5, <2>6, <2>9, SameOutput
  <2>. QED  BY <2>8, <2>9
<1>. QED  BY <1>2, <1>3

LEMMA LaterTurnIs ==
  ASSUME WalkFits, Paths, Sends, InOrder, NEW place, Nested(place), Placed(place),
         NEW o \in sent, NEW c, Carries(c, o), c.into = "loop", c.to \in Loops,
         stream[Src(o)].phase = "forwarding"
  PROVE  /\ Back(o, c, Receiver(o, c), Passes(Receiver(o, c)))
         /\ Passes(Receiver(o, c)) \in Nat /\ Passes(Receiver(o, c)) > 0
<1>. DEFINE x == Receiver(o, c)
<1>1. /\ Src(o) \in DOMAIN stream /\ o[2] \in Ids /\ o[3] \in Nat /\ c \in Connections
      /\ x \in Nodes \X Ids /\ x[1] = c.to /\ o[1] \in Nodes
  <2>1. c \in Connections
    BY DEF Carries
  <2>2. Src(o) \in DOMAIN stream /\ o[2] \in Ids /\ o[3] \in Nat /\ o[1] \in Nodes
    BY SourceFits
  <2>3. x \in Nodes \X Ids
    BY <2>1, <2>2, ReceiverFits
  <2>4. x[1] = c.to
    BY DEF Receiver
  <2>. QED  BY <2>1, <2>2, <2>3, <2>4
<1>. HIDE DEF x
<1>0. x = Receiver(o, c)
  BY DEF x
<1>2. /\ ~NewBranch(o[1], c.port) /\ x[2] = Front(o[2]) /\ o[2] # <<>> /\ Last(o[2])[1].from = c.to
  <2>1. c \in Taken(Src(o)) /\ Receiver(o, c) = Receiver(Src(o), c) /\ Src(o)[1] = o[1] /\ Src(o)[2] = o[2]
    BY CarriesIs, SourceFits
  <2>. QED  BY <2>1, <1>0, <1>1, PlaceIs
<1>. DEFINE d == Last(o[2])[1]
            pass == Last(o[2])[2]
<1>3. /\ d \in Connections /\ pass \in Nat /\ o[2] = Append(x[2], <<d, pass>>)
  <2>1. Last(o[2]) \in Connections \X Nat /\ o[2] = Append(Front(o[2]), Last(o[2]))
    BY <1>1, <1>2, FrontIs DEF Ids
  <2>2. Last(o[2]) = <<d, pass>>
    BY <2>1
  <2>. QED  BY <2>1, <2>2, <1>2
<1>4. d.from = x[1]
  BY <1>1, <1>2
<1>. HIDE DEF d, pass
<1>5. Back(o, c, x, pass)
  BY <1>0, <1>3, <1>4 DEF Back
<1>6. pass \in 1..Passes(x) /\ Passes(x) \in Nat
  BY <1>1, <1>3, <1>5, BackIs, PassesIsNat DEF WalkFits
<1>7. ASSUME pass # Passes(x)  PROVE FALSE
  <2>. DEFINE f == <<x[1], x[2], pass + 1>>
  <2>0. pass + 1 \in 1..Passes(x) /\ pass + 1 > 1 /\ pass + 1 - 1 = pass
    BY <1>3, <1>6, <1>7
  <2>1. f \in DOMAIN stream
    BY <1>1, <2>0 DEF WalkFits, Numbered
  <2>2. f[1] \in Loops /\ X(f) = x /\ f[3] = pass + 1
    BY <1>1, PairIs DEF X
  <2>. HIDE DEF f
  <2>3. FedAgain(x, pass)
    <3>1. f[3] > 1 /\ f[3] - 1 = pass
      BY <1>3, <2>0, <2>2
    <3>. QED  BY <2>1, <2>2, <3>1 DEF InOrder
  <2>4. PICK q \in sent, b \in Connections : Back(q, b, x, pass) /\ stream[Src(q)].phase \in Parted
    BY <2>3 DEF FedAgain
  <2>5. b = c
    <3>1. b.to = c.to /\ b.into = "loop"
      BY <1>1, <2>4 DEF Back, Receiver
    <3>. QED  BY <1>1, <3>1, WorkFlowRunAssumption
  <2>6. Src(o) # Src(q)
    BY <2>4 DEF Parted, GaveUp
  <2>7. q[1] = o[1] /\ q[2] \in Ids /\ X(q) \in DOMAIN execution /\ X(o) \in DOMAIN execution
        /\ X(q) = <<q[1], q[2]>> /\ X(o) = <<o[1], o[2]>>
    BY <2>4, <2>5, SourceFits DEF Carries, Back, X
  <2>8. PICK e \in Connections : q[2] = Append(x[2], <<e, pass>>)
    BY <2>4 DEF Back
  <2>9. Conns(q[2]) = Conns(o[2])
    <3>1. X(q)[1] = q[1] /\ X(q)[2] = q[2] /\ X(o)[1] = o[1] /\ X(o)[2] = o[2]
      BY DEF X
    <3>. QED  BY <2>7, <3>1 DEF Placed
  <2>10. e = d
    <3>1. x[2] \in Ids /\ <<e, pass>> \in Connections \X Nat /\ <<d, pass>> \in Connections \X Nat
      BY <1>1, <1>3
    <3>2. /\ Append(x[2], <<e, pass>>) # <<>> /\ Last(Append(x[2], <<e, pass>>)) = <<e, pass>>
          /\ Append(x[2], <<d, pass>>) # <<>> /\ Last(Append(x[2], <<d, pass>>)) = <<d, pass>>
      BY <3>1, AppendIs DEF Ids
    <3>3. /\ q[2] # <<>> /\ Last(q[2]) = <<e, pass>> /\ Last(q[2])[1] = e
          /\ o[2] # <<>> /\ Last(o[2]) = <<d, pass>> /\ Last(o[2])[1] = d
      BY <3>2, <2>8, <1>3
    <3>4. Last(Conns(q[2])) = Last(q[2])[1] /\ Last(Conns(o[2])) = Last(o[2])[1]
      BY <3>3, <2>7, <1>1, ConnsFront
    <3>. QED  BY <3>3, <3>4, <2>9
  <2>11. q[2] = o[2]
    BY <2>8, <2>10, <1>3
  <2>. QED  BY <2>4, <2>5, <2>6, <2>11, <1>2, SameOutput DEF Back
<1>8. pass = Passes(x)
  BY <1>7
<1>. QED  BY <1>0, <1>3, <1>5, <1>6, <1>8

LEMMA InOrderBranch ==
  ASSUME WalkFits, Paths, Sends, InOrder, NEW place, Nested(place), Placed(place),
         NEW f, NEW throws, Branches(f, throws)
  PROVE  InOrder'
<1>. DEFINE go == Going(stream[f].next, execution)
<1>1. Opens(go, throws, f, stream[f].above \cup {f}, execution) /\ NewOnes(go, f, stream[f].above \cup {f})
  BY BranchOpens, OpensAre
<1>2. /\ f \in DOMAIN stream /\ stream[f].phase = "forwarding" /\ stream'[f].phase = "branches"
      /\ sent' = sent /\ \A g \in DOMAIN stream \ {f} : stream'[g] = stream[g]
  BY DEF Branches
<1>3. /\ \A x : Fed(x) => Fed(x)'
      /\ \A x, pass : FedAgain(x, pass) => FedAgain(x, pass)'
  <2>1. "branches" \in Parted
    BY DEF Parted
  <2>. QED  BY <2>1, <1>2, FedStays
<1>4. \A g \in DOMAIN stream' \ DOMAIN stream :
         \E x \in go : X(g) = x /\ g[3] = Passes(x) + 1 /\ g[1] = x[1]
  <2>1. \A x : NewStream(x)[3] = Passes(x) + 1 /\ NewStream(x)[1] = x[1]
    BY DEF NewStream
  <2>. QED  BY <2>1, <1>1 DEF NewOnes
<1>. SUFFICES ASSUME NEW g \in DOMAIN stream', g[1] \in Loops
             PROVE  Fed(X(g))' /\ (g[3] > 1 => FedAgain(X(g), g[3] - 1)')
  BY DEF InOrder, X
<1>5. CASE g \in DOMAIN stream
  BY <1>3, <1>5 DEF InOrder
<1>6. CASE g \notin DOMAIN stream
  <2>1. PICK x \in go : X(g) = x /\ g[3] = Passes(x) + 1 /\ g[1] = x[1]
    BY <1>4, <1>6
  <2>2. x \in Behind(f)
    BY <2>1, <1>2 DEF Going, Sends, NextIs
  <2>3. PICK c \in Taken(f) : x = Receiver(f, c)
    BY <2>2 DEF Behind
  <2>4. PICK o \in sent : Carries(c, o) /\ Src(o) = f /\ Receiver(o, c) = x
    BY <2>3, <1>2, TakenIs
  <2>5. c.to \in Loops /\ c \in Connections
    BY <2>1, <2>3, <2>4 DEF Receiver, Carries
  <2>6. stream'[Src(o)].phase \in Parted
    BY <2>4, <1>2 DEF Parted
  <2>7. CASE c.into # "loop"
    <3>1. Passes(x) = 0
      BY <2>4, <2>5, <2>7, <1>2, FirstTurnIs
    <3>2. Fed(x)'
      BY <2>4, <2>5, <2>6, <2>7, <1>2 DEF Fed, Carries, Receiver, Src
    <3>. QED  BY <3>1, <3>2, <2>1
  <2>8. CASE c.into = "loop"
    <3>1. Back(o, c, x, Passes(x)) /\ Passes(x) \in Nat /\ Passes(x) > 0
      BY <2>4, <2>5, <2>8, <1>2, LaterTurnIs
    <3>0. PICK pass \in Nat : pass = Passes(x)
      BY <3>1
    <3>2. FedAgain(x, pass)'
      BY <3>0, <3>1, <2>5, <2>6, <1>2 DEF FedAgain, Back, Carries, Receiver, Src
    <3>3. Fed(x)
      <4>. DEFINE h == <<x[1], x[2], 1>>
      <4>1. x \in Nodes \X Ids
        BY <1>1 DEF Opens
      <4>2. h \in DOMAIN stream
        BY <3>1, <4>1 DEF WalkFits, Numbered
      <4>3. X(h) = x /\ h[1] \in Loops
        BY <2>1, <4>1, PairIs DEF X
      <4>. HIDE DEF h
      <4>. QED  BY <4>2, <4>3 DEF InOrder
    <3>4. g[3] - 1 = pass
      BY <2>1, <3>0, <3>1
    <3>. QED  BY <3>2, <3>3, <3>4, <2>1, <1>3
  <2>. QED  BY <2>7, <2>8
<1>. QED  BY <1>5, <1>6

LEMMA InOrderKeeps ==
  ASSUME WalkFits, Paths, Sends, InOrder, NEW place, Nested(place), Placed(place), [WalkNext]_walkVars
  PROVE  InOrder'
<1>1. CASE Stays
  <2>1. \A x : Fed(x)' <=> Fed(x)
    BY <1>1 DEF Stays, Fed, Carries, Receiver, Src
  <2>2. \A x, pass : FedAgain(x, pass)' <=> FedAgain(x, pass)
    BY <1>1 DEF Stays, FedAgain, Back, Carries, Receiver, Src
  <2>. QED  BY <1>1, <2>1, <2>2 DEF Stays, InOrder, X
<1>2. ASSUME NEW throws, Starts(throws)  PROVE InOrder'
  <2>. DEFINE go == Going(First, FirstEntries)
  <2>1. NewOnes(go, Root, {})
    BY <1>2, StartsOpens, OpensAre
  <2>2. \A g \in DOMAIN stream' : \E x \in First : g[1] = x[1]
    <3>1. \A x : NewStream(x)[1] = x[1]
      BY DEF NewStream
    <3>. QED  BY <3>1, <2>1, <1>2 DEF NewOnes, Starts, Going
  <2>3. \A x \in First : x[1] \notin Loops
    BY DEF First, Loops
  <2>. QED  BY <2>2, <2>3 DEF InOrder
<1>3. ASSUME NEW f \in DOMAIN stream, Advances(f)  PROVE InOrder'
  <2>1. /\ Gains(f) /\ DOMAIN stream' = DOMAIN stream
        /\ \A g \in DOMAIN stream \ {f} : stream'[g] = stream[g]
    BY <1>3, GainsIs, StepSpans DEF WalkFits, StreamsFit
  <2>2. /\ \A x : Fed(x) => Fed(x)'
        /\ \A x, pass : FedAgain(x, pass) => FedAgain(x, pass)'
    BY <1>3, <2>1, AdvanceIs, FedStays DEF Gains
  <2>. QED  BY <2>1, <2>2 DEF InOrder, X
<1>. QED  BY <1>1, <1>2, <1>3, Course, InOrderBranch

LEMMA TurnsAreInOrder ==
  ASSUME ForTurns, InOrder
  PROVE  LoopsTakeTurns
<1>1. ASSUME NEW f \in DOMAIN stream, f[1] \in Loops, f[3] > 1
      PROVE  CameBack(<<f[1], f[2]>>, f[3] - 1)
  <2>1. FedAgain(X(f), f[3] - 1)
    BY <1>1 DEF InOrder
  <2>. QED  BY <2>1, CameBackIs DEF FedAgain, X
<1>2. ASSUME NEW x \in DOMAIN execution, Kind[x[1]] = "for", execution[x].status = "completed"
      PROVE  Cardinality({o \in sent : <<o[1], o[2]>> = x /\ o[4] = "loop"}) = Iterations[x[1]]
  BY <1>2 DEF ForTurns, CountsTurns, LoopSends, X
<1>. QED  BY <1>1, <1>2 DEF LoopsTakeTurns

-----------------------------------------------------------------------------
(***************************************************************************)
(* The inductive invariant.                                                *)
(***************************************************************************)
WalkInv ==
    /\ WalkFits /\ Turns /\ Tree /\ FileIsTrue
    /\ Sends /\ Paths /\ Delivered /\ Asked /\ Returned /\ ForTurns

LEMMA WalkInvInitially ==
  ASSUME WalkInit
  PROVE  WalkInv
<1>1. /\ DOMAIN stream = {} /\ DOMAIN execution = {} /\ sent = {} /\ file = "pending"
      /\ run = [phase |-> "new", status |-> "pending"]
  BY DEF WalkInit
<1>2. Turns
  BY <1>1 DEF Turns, OneTurn, RunningRuns, FailedFailed, BegunOnce, NoneTwice
<1>3. Tree
  BY <1>1 DEF Tree, Lineage, Outlasts
<1>4. FileIsTrue
  BY <1>1 DEF FileIsTrue, Completed
<1>5. Sends
  BY <1>1 DEF Sends, SentOnce, LastSend, NextIs
<1>6. Paths /\ Delivered /\ Asked /\ Returned /\ ForTurns
  BY <1>1 DEF Paths, Delivered, Asked, Returned, ForTurns
<1>. QED  BY <1>2, <1>3, <1>4, <1>5, <1>6, WalkFitsInitially DEF WalkInv

LEMMA WalkInvKeeps ==
  ASSUME WalkInv, [WalkNext]_walkVars
  PROVE  WalkInv'
<1>1. /\ WalkFits /\ Turns /\ Tree /\ FileIsTrue
      /\ Sends /\ Paths /\ Delivered /\ Asked /\ Returned /\ ForTurns
  BY DEF WalkInv
<1>2. WalkFits' /\ Turns' /\ Tree' /\ FileIsTrue'
  BY <1>1, WalkFitsKeeps, TurnsKeep, TreeKeeps, FileKeeps
<1>3. Sends' /\ Paths' /\ Delivered' /\ Asked'
  BY <1>1, SendsKeep, PathsKeep, DeliveredKeeps, AskedKeeps
<1>4. Returned' /\ ForTurns'
  BY <1>1, ReturnedKeeps, ForTurnsKeep
<1>. QED  BY <1>2, <1>3, <1>4 DEF WalkInv

LEMMA WalkInvStays == WalkSpec => []WalkInv
<1>. QED  BY WalkInvInitially, WalkInvKeeps, PTL DEF WalkSpec

LEMMA WalkInvTypes ==
  ASSUME WalkInv
  PROVE  WalkTypeOK
BY FitsTogether DEF WalkInv, WalkFits

(* A node that has begun is not begun again for the same execution id, and one stream at a *)
(* time works for it, whatever the graph is: nested or not.                                *)
THEOREM NodesRunOnce == WalkSpec => [](WalkTypeOK /\ NoNodeTwice)
<1>1. WalkInv => WalkTypeOK /\ NoNodeTwice
  BY WalkInvTypes, TurnsAreOne DEF WalkInv
<1>. QED  BY <1>1, WalkInvStays, PTL

(* A run that says it completed has done all of its work: the outputs are delivered, who   *)
(* is ready has run, nothing works or is being written, and the file says so.              *)
THEOREM CompletedStaysTrue == WalkSpec => []CompletedIsTrue
<1>1. WalkInv => CompletedIsTrue
  BY NothingIsLeft, WholeAtTheEnd DEF WalkInv, CompletedIsTrue
<1>. QED  BY <1>1, WalkInvStays, PTL

\* With the place of every node, the ids of the executions are known.
PlacedInv(place) == WalkInv /\ Placed(place) /\ InOrder

LEMMA PlacedInitially ==
  ASSUME NEW place, WalkInit
  PROVE  PlacedInv(place)
<1>1. DOMAIN stream = {} /\ DOMAIN execution = {}
  BY DEF WalkInit
<1>. QED  BY <1>1, WalkInvInitially DEF PlacedInv, Placed, InOrder

LEMMA PlacedInvKeeps ==
  ASSUME NEW place, Nested(place), PlacedInv(place), [WalkNext]_walkVars
  PROVE  PlacedInv(place)'
<1>1. WalkInv /\ Placed(place) /\ InOrder /\ WalkFits /\ Paths /\ Sends
  BY DEF PlacedInv, WalkInv
<1>2. WalkInv'
  BY <1>1, WalkInvKeeps
<1>3. Placed(place)'
  BY <1>1, PlacedKeeps
<1>4. InOrder'
  BY <1>1, InOrderKeeps
<1>. QED  BY <1>2, <1>3, <1>4 DEF PlacedInv

(* In a graph whose loops are nested, a loop takes its turns in order, each after the one  *)
(* before has come back, and a for loop that completes has taken every one of them.        *)
THEOREM WalkStaysSound ==
  ASSUME NEW CONSTANT place, Nested(place)
  PROVE  WalkSpec => []WalkIsSound
<1>1. PlacedInv(place) => WalkIsSound
  BY WalkInvTypes, TurnsAreOne, TurnsAreInOrder DEF PlacedInv, WalkInv, WalkIsSound
<1>2. WalkInit => PlacedInv(place)
  BY PlacedInitially
<1>3. PlacedInv(place) /\ [WalkNext]_walkVars => PlacedInv(place)'
  BY PlacedInvKeeps
<1>. QED  BY <1>1, <1>2, <1>3, PTL DEF WalkSpec

-----------------------------------------------------------------------------
(***************************************************************************)
(* A stopped run.                                                          *)
(***************************************************************************)
\* The streams that do not work yet, and do in the next state.
NoneBegins == \A f \in DOMAIN stream : stream'[f].phase = "node" => stream[f].phase = "node"

LEMMA BeginsOnlyBy ==
  ASSUME WalkFits, NEW f \in DOMAIN stream, stopped, Step(f) \/ NodeEvent(f) \/ NodeEnds(f) \/ NodeThrows(f)
  PROVE  stream'[f].phase # "node"
<1>1. stream[f] \in StreamType(execution, stream)
  BY DEF WalkFits, StreamsFit
<1>2. ASSUME NEW phase, Go(f, phase)  PROVE stream'[f].phase = phase
  BY <1>1, <1>2 DEF Go, StreamType
<1>3. ASSUME NEW aborts, Fail(f, aborts)  PROVE stream'[f].phase = "failing"
  BY <1>1, <1>3 DEF Fail, StreamType
<1>4. CASE \/ BeginNode(f) \/ NodeGoesOn(f) \/ NodeAborted(f) \/ NodeThrows(f) \/ BranchThrew(f)
  BY <1>3, <1>4 DEF BeginNode, NodeGoesOn, NodeAborted, NodeThrows, BranchThrew
<1>5. CASE \/ StartSaved(f) \/ NodeEvent(f) \/ NodeEnds(f) \/ EndSaved(f)
           \/ BranchesDone(f) \/ Rethrow(f)
  BY <1>2, <1>5 DEF StartSaved, NodeEvent, NodeEnds, EndSaved, BranchesDone, Rethrow
<1>6. CASE FailSaved(f)
  BY <1>2, <1>6 DEF FailSaved
<1>7. CASE Forward(f)
  BY <1>1, <1>7 DEF Forward, Go, StreamType
<1>8. CASE Branch(f)
  <2>1. PICK throws : Branches(f, throws)
    BY <1>8, BranchIs
  <2>. QED  BY <2>1 DEF Branches
<1>. QED  BY <1>4, <1>5, <1>6, <1>7, <1>8 DEF Step

LEMMA NoneBeginsStopped ==
  ASSUME WalkFits, [WalkNext]_walkVars, stopped
  PROVE  NoneBegins
<1>1. CASE \E f \in DOMAIN stream : Step(f) \/ NodeEvent(f) \/ NodeEnds(f) \/ NodeThrows(f)
  <2>1. PICK f \in DOMAIN stream : Step(f) \/ NodeEvent(f) \/ NodeEnds(f) \/ NodeThrows(f)
    BY <1>1
  <2>2. \A g \in DOMAIN stream \ {f} : stream'[g] = stream[g]
    <3>1. CASE Advances(f)
      BY <3>1, StepSpans
    <3>2. CASE Branch(f)
      <4>1. PICK throws : Branches(f, throws)
        BY <3>2, BranchIs
      <4>. QED  BY <4>1 DEF Branches
    <3>. QED  BY <2>1, <3>1, <3>2, StepOf DEF WalkFits
  <2>3. stream'[f].phase # "node"
    BY <2>1, BeginsOnlyBy
  <2>. QED  BY <2>2, <2>3 DEF NoneBegins
<1>2. CASE OpenRun
  BY <1>2, OpenRunIs DEF Starts, NoneBegins
<1>3. CASE Begin \/ CloseRun \/ EndRun \/ Stop \/ UNCHANGED walkVars
            \/ \E f \in DOMAIN stream : OrphanEnds(f)
  BY <1>3 DEF Begin, CloseRun, EndRun, Stop, OrphanEnds, NoneBegins, walkVars
<1>. QED  BY <1>1, <1>2, <1>3 DEF WalkNext, RunStep

(* Once a run is stopped no node begins to work, and no agent goes on after an event.      *)
THEOREM StoppedBeginsNothing == WalkSpec => NoWorkAfterStop
<1>1. WalkInv /\ [WalkNext]_walkVars
        => [stopped => \A f \in DOMAIN stream : stream'[f].phase = "node" => stream[f].phase = "node"]_walkVars
  BY NoneBeginsStopped DEF WalkInv, NoneBegins
<1>. QED  BY <1>1, WalkInvStays, PTL DEF WalkSpec, NoWorkAfterStop

-----------------------------------------------------------------------------
(***************************************************************************)
(* PlanExecution for every budget, every set of drafts and tool calls the  *)
(* model may write, and every limit on attempts and retries: the budget    *)
(* holds in every phase, a run does not end in silence, and plan, position *)
(* and what the chat shows agree through every judgement and revision.     *)
(*                                                                         *)
(* WithinBudget alone is not inductive.  What makes it so is where a       *)
(* response may be open (OpenInSubtask: only in the ReAct loop, or when    *)
(* the run failed in it), and that a run which goes on after its first     *)
(* request has iterations left (RoomLeft): the check after each charge is  *)
(* what keeps that true.                                                   *)
(*                                                                         *)
(* PlanIsTrue needs to know how a plan is built: its leaves are in the     *)
(* order of their ids, and there is no top level step without leaves       *)
(* (Spans).  Otherwise counting the steps kept would not give the number   *)
(* the revised ones go on from.                                            *)
(***************************************************************************)

Phases == Subtasks \cup Structured \cup Closing \cup Ended

Shape ==
    /\ pc \in Phases
    /\ open \in BOOLEAN /\ told \in BOOLEAN
    /\ limits \in Limits
    /\ budget \in [iterations : Nat, calls : Nat]

OpenInSubtask == open => pc \in Subtasks \cup {"failed"}

\* The budget has room left in both limits; it is used up at most.
Room ==
    /\ \A n \in limits.iterations : budget.iterations < n
    /\ \A n \in limits.calls : budget.calls < n
UsedUp == \A n \in limits.iterations : budget.iterations <= n \/ budget.iterations <= 1

RoomLeft ==
    pc \notin Ended /\ budget.iterations > 0 => \A n \in limits.iterations : budget.iterations < n

IInv == Shape /\ OpenInSubtask /\ RoomLeft /\ WithinBudget /\ EndsWithAMessage

USE BoundsArePositive DEF BoundsArePositive

-----------------------------------------------------------------------------
\* The limits are numbers.
LEMMA LimitsFit ==
    ASSUME Shape
    PROVE  /\ \A n \in limits.iterations : n \in Nat
           /\ \A n \in limits.calls : n \in Nat
BY LimitsAreNumbers DEF Shape

\* What charging an iteration does to the budget and where the run goes on:
\* only with room in both limits, or it has failed.
LEMMA Charged ==
    ASSUME Shape, RoomLeft, pc \notin Ended, NEW next, Charge(next)
    PROVE  /\ budget' \in [iterations : Nat, calls : Nat] /\ limits' = limits
           /\ UsedUp'
           /\ pc' = "failed" \/ (pc' = next /\ Room')
<1>1. /\ budget' \in [iterations : Nat, calls : Nat] /\ limits' = limits
      /\ budget'.iterations = Counted(budget.iterations, limits.iterations)
      /\ pc' = IF Exceeded(budget') THEN "failed" ELSE next
  BY DEF Charge, Counted, Shape
<1>2. UsedUp'
  <2> SUFFICES ASSUME NEW n \in limits.iterations
               PROVE  budget'.iterations <= n \/ budget'.iterations <= 1
    BY <1>1 DEF UsedUp
  <2>1. n \in Nat /\ budget.iterations \in Nat /\ budget'.iterations = budget.iterations + 1
    BY <1>1, LimitsFit DEF Counted, Shape
  <2>2. budget.iterations > 0 => budget.iterations < n
    BY DEF RoomLeft
  <2> QED BY <2>1, <2>2
<1>3. ~Exceeded(budget') => Room'
  BY <1>1, LimitsFit DEF Exceeded, Room
<1> QED BY <1>1, <1>2, <1>3

\* Outside a response the budget, used up at most, is not overdrawn, and with
\* room in it the run may go on.
LEMMA ChargedIsWithin ==
    ASSUME Shape', UsedUp', ~open', pc' \in Ended \/ Room'
    PROVE  RoomLeft' /\ WithinBudget'
<1>1. budget'.iterations + (IF open' THEN 1 ELSE 0) = budget'.iterations
  BY DEF Shape
<1>2. \A n \in limits'.iterations : budget'.iterations <= n \/ budget'.iterations <= 1
  BY DEF UsedUp
<1>3. pc' \notin Ended => /\ \A n \in limits'.calls : budget'.calls < n
                         /\ \A n \in limits'.iterations : budget'.iterations < n
  BY DEF Room
<1> QED BY <1>1, <1>2, <1>3 DEF RoomLeft, WithinBudget

\* A step that charges an iteration outside a response keeps the invariant,
\* if the next phase is one, and no silent end.
LEMMA AnswerKeeps ==
    ASSUME IInv, NEW next \in Phases \ {"failed"}, Answer(next),
           pc \in Structured \cup Closing,
           told' \in BOOLEAN, pc' = "done" => told'
    PROVE  IInv'
<1>1. /\ pc \notin Ended /\ ~open /\ Charge(next) /\ open' = open
  BY DEF IInv, Shape, OpenInSubtask, Structured, Closing, Ended, Subtasks, Answer, Response
<1>2. /\ budget' \in [iterations : Nat, calls : Nat] /\ limits' = limits
      /\ UsedUp' /\ (pc' = "failed" \/ (pc' = next /\ Room'))
  BY <1>1, Charged DEF IInv
<1>3. Shape' /\ OpenInSubtask'
  BY <1>1, <1>2 DEF IInv, Shape, OpenInSubtask, Phases, Ended
<1>4. RoomLeft' /\ WithinBudget'
  <2>1. ~open' /\ (pc' \in Ended \/ Room')
    BY <1>1, <1>2 DEF Ended
  <2> QED BY <1>2, <1>3, <2>1, ChargedIsWithin
<1> QED BY <1>3, <1>4 DEF IInv, EndsWithAMessage

\* The places an answer leads to are phases.
LEMMA PhaseNames ==
    /\ {"gate", "build", "step", "judge", "replan", "fallback", "summary", "done"}
           \subseteq Phases \ {"failed"}
    /\ Structured \subseteq Phases \ {"failed"} /\ Subtasks \subseteq Phases \ {"failed"}
BY DEF Phases, Subtasks, Structured, Closing, Ended

-----------------------------------------------------------------------------
\* One lemma for each part of Next.
LEMMA SubtaskKeeps == ASSUME IInv, Subtask PROVE IInv'
<1>1. ASSUME IterationEnds PROVE IInv'
  <2> DEFINE next == IF ~finished THEN pc ELSE IF pc = "prepare" THEN "gate" ELSE "judge"
  <2>1. /\ pc \in Subtasks /\ open /\ open' = FALSE /\ told' = told /\ Charge(next)
    BY <1>1 DEF IterationEnds
  <2>2. next \in Phases \ {"failed"} /\ next # "done"
    BY <2>1, PhaseNames DEF Subtasks
  <2>3. pc \notin Ended
    BY <2>1 DEF Subtasks, Ended
  <2> HIDE DEF next
  <2>4. /\ budget' \in [iterations : Nat, calls : Nat] /\ limits' = limits
        /\ UsedUp' /\ (pc' = "failed" \/ (pc' = next /\ Room'))
    BY <2>1, <2>3, Charged DEF IInv
  <2>5. Shape' /\ OpenInSubtask' /\ EndsWithAMessage'
    BY <2>1, <2>2, <2>4 DEF IInv, Shape, OpenInSubtask, EndsWithAMessage, Phases, Ended
  <2>6. RoomLeft' /\ WithinBudget'
    <3>1. ~open' /\ (pc' \in Ended \/ Room')
      BY <2>1, <2>4 DEF Ended
    <3> QED BY <2>4, <2>5, <3>1, ChargedIsWithin
  <2> QED BY <2>5, <2>6 DEF IInv
<1>2. ASSUME NEW text \in BOOLEAN, NEW calls \in Batches, Respond(text, calls) PROVE IInv'
  <2>1. /\ pc \in Subtasks /\ pc' = pc /\ ~open /\ open' = TRUE
        /\ told' = (told \/ text) /\ budget' = budget /\ limits' = limits
    BY <1>2 DEF Respond
  <2>2. Shape' /\ OpenInSubtask' /\ RoomLeft' /\ EndsWithAMessage'
    BY <2>1 DEF IInv, Shape, OpenInSubtask, RoomLeft, EndsWithAMessage, Subtasks
  <2>3. ASSUME NEW n \in limits.iterations
        PROVE  budget.iterations + 1 <= n \/ budget.iterations + 1 <= 1
    <3>1. n \in Nat /\ budget.iterations \in Nat
      BY LimitsFit DEF IInv, Shape
    <3>2. budget.iterations > 0 => budget.iterations < n
      BY <2>1 DEF IInv, RoomLeft, Subtasks, Ended
    <3> QED BY <3>1, <3>2
  <2>4. WithinBudget'
    BY <2>1, <2>3 DEF WithinBudget
  <2> QED BY <2>2, <2>4 DEF IInv
<1>3. ASSUME NEW allowed \in BOOLEAN, CallTool(allowed) PROVE IInv'
  <2>1. /\ pc \in Subtasks /\ pc' = pc /\ open /\ open' = open /\ told' = told
        /\ budget' \in [iterations : Nat, calls : Nat] /\ limits' = limits
        /\ budget'.iterations = budget.iterations
    BY <1>3 DEF CallTool, Counted, IInv, Shape
  <2> QED
    BY <2>1 DEF IInv, Shape, OpenInSubtask, RoomLeft, WithinBudget, EndsWithAMessage
<1> QED BY <1>1, <1>2, <1>3 DEF Subtask

LEMMA PlanningKeeps == ASSUME IInv, Planning PROVE IInv'
<1>1. ASSUME Garbled PROVE IInv'
  <2> DEFINE next == IF round < MaxStructured THEN pc ELSE "failed"
  <2>1. /\ pc \in Structured /\ Charge(next) /\ open' = open /\ told' = told
    BY <1>1 DEF Garbled, Response
  <2>2. pc \notin Ended /\ ~open
    BY <2>1 DEF IInv, Shape, OpenInSubtask, Structured, Subtasks, Ended
  <2>3. next \in Structured \cup {"failed"}
    BY <2>1
  <2> HIDE DEF next
  <2>4. /\ budget' \in [iterations : Nat, calls : Nat] /\ limits' = limits
        /\ UsedUp' /\ (pc' = "failed" \/ (pc' = next /\ Room'))
    BY <2>1, <2>2, Charged DEF IInv
  <2>5. Shape' /\ OpenInSubtask' /\ EndsWithAMessage'
    BY <2>1, <2>2, <2>3, <2>4
       DEF IInv, Shape, OpenInSubtask, EndsWithAMessage, Phases, Structured, Ended
  <2>6. RoomLeft' /\ WithinBudget'
    <3>1. ~open' /\ (pc' \in Ended \/ Room')
      BY <2>1, <2>2, <2>4 DEF Ended
    <3> QED BY <2>4, <2>5, <3>1, ChargedIsWithin
  <2> QED BY <2>5, <2>6 DEF IInv
<1>2. ASSUME NEW proceed \in BOOLEAN, Gate(proceed) PROVE IInv'
  <2> DEFINE next == IF proceed THEN "build" ELSE IF told THEN "done" ELSE "fallback"
  <2>1. pc \in Structured /\ Answer(next) /\ told' = told
    BY <1>2 DEF Gate, Structured
  <2>2. next \in Phases \ {"failed"} /\ (next = "done" => told)
    BY PhaseNames
  <2> HIDE DEF next
  <2>3. pc' \in {next, "failed"}
    BY <2>1 DEF Answer, Charge
  <2> QED BY <2>1, <2>2, <2>3, AnswerKeeps DEF IInv, Shape
<1>3. ASSUME NEW draft \in Drafts, BuildPlan(draft) \/ Replan(draft) PROVE IInv'
  <2>1. pc \in Structured /\ Answer("step")
    BY <1>3 DEF BuildPlan, Replan, Structured
  <2>2. pc' \in {"step", "failed"}
    BY <2>1 DEF Answer, Charge
  <2>3. told' \in BOOLEAN
    BY <1>3 DEF BuildPlan, Replan, WorkOn, IInv, Shape
  <2> QED BY <2>1, <2>2, <2>3, AnswerKeeps, PhaseNames
<1> QED BY <1>1, <1>2, <1>3 DEF Planning

LEMMA JudgeKeeps == ASSUME IInv, Judge PROVE IInv'
<1>1. ASSUME JudgeUnheard PROVE IInv'
  <2>1. pc \in Structured /\ Answer("judge") /\ pc' = "failed" /\ told' = told
    BY <1>1 DEF JudgeUnheard, Structured
  <2> QED BY <2>1, AnswerKeeps, PhaseNames DEF IInv, Shape
<1>2. ASSUME NEW report \in Reports, AllDone(report) PROVE IInv'
  <2>1. pc \in Structured /\ Answer("summary") /\ told' = told
    BY <1>2 DEF AllDone, Heard, Structured
  <2>2. pc' \in {"summary", "failed"}
    BY <2>1 DEF Answer, Charge
  <2> QED BY <2>1, <2>2, AnswerKeeps, PhaseNames DEF IInv, Shape
<1>3. ASSUME NEW report \in Reports, SomeDone(report) PROVE IInv'
  <2>1. pc \in Structured /\ Answer("step") /\ told' = FALSE
    BY <1>3 DEF SomeDone, Heard, Structured
  <2>2. pc' \in {"step", "failed"}
    BY <2>1 DEF Answer, Charge
  <2> QED BY <2>1, <2>2, AnswerKeeps, PhaseNames
<1>4. ASSUME NEW report \in Reports, Waits(report) PROVE IInv'
  <2> DEFINE next == IF told THEN "done" ELSE "fallback"
  <2>1. pc \in Structured /\ Answer(next) /\ told' = told
    BY <1>4 DEF Waits, Heard, Structured
  <2>2. next \in Phases \ {"failed"} /\ (next = "done" => told)
    BY PhaseNames
  <2> HIDE DEF next
  <2>3. pc' \in {next, "failed"}
    BY <2>1 DEF Answer, Charge
  <2> QED BY <2>1, <2>2, <2>3, AnswerKeeps DEF IInv, Shape
<1>5. ASSUME NEW report \in Reports, FailedStep(report) \/ Incomplete(report) PROVE IInv'
  <2>1. PICK next \in {"step", "replan"} : Answer(next)
    BY <1>5 DEF FailedStep, Incomplete, Heard
  <2>2. pc \in Structured /\ told' \in BOOLEAN
    BY <1>5 DEF FailedStep, Incomplete, LeafFails, Structured, IInv, Shape
  <2>3. pc' \in {next, "failed"}
    BY <2>1 DEF Answer, Charge
  <2> QED BY <2>1, <2>2, <2>3, AnswerKeeps, PhaseNames
<1> QED BY <1>1, <1>2, <1>3, <1>4, <1>5 DEF Judge

LEMMA EndingKeeps == ASSUME IInv, Close \/ Throw PROVE IInv'
<1>1. ASSUME Close PROVE IInv'
  <2>1. /\ pc \in Closing /\ Answer("done")
        /\ told' = (told \/ pc' = "done")
    BY <1>1 DEF Close
  <2> QED BY <2>1, AnswerKeeps, PhaseNames DEF IInv, Shape
<1>2. ASSUME Throw PROVE IInv'
  <2>1. pc' = "failed" /\ open' = open /\ told' = told /\ budget' = budget /\ limits' = limits
    BY <1>2 DEF Throw, Response
  <2> QED
    BY <2>1 DEF IInv, Shape, OpenInSubtask, RoomLeft, WithinBudget, EndsWithAMessage,
                Phases, Ended
<1> QED BY <1>1, <1>2

-----------------------------------------------------------------------------
THEOREM Invariance == Spec => []IInv
<1>1. Init => IInv
  <2> SUFFICES ASSUME Init PROVE IInv
    OBVIOUS
  <2>1. /\ pc = "prepare" /\ open = FALSE /\ told = FALSE /\ limits \in Limits
        /\ budget \in [iterations : Nat, calls : Nat] /\ budget.iterations = 0
    BY DEF Init
  <2>2. Shape /\ OpenInSubtask /\ EndsWithAMessage
    BY <2>1 DEF Shape, OpenInSubtask, EndsWithAMessage, Phases, Subtasks
  <2>3. RoomLeft /\ WithinBudget
    BY <2>1 DEF RoomLeft, WithinBudget
  <2> QED BY <2>2, <2>3 DEF IInv
<1>2. IInv /\ [Next]_vars => IInv'
  <2> SUFFICES ASSUME IInv, [Next]_vars PROVE IInv'
    OBVIOUS
  <2>1. CASE Next
    BY <2>1, SubtaskKeeps, PlanningKeeps, JudgeKeeps, EndingKeeps DEF Next
  <2>2. CASE UNCHANGED vars
    BY <2>2 DEF vars, Response, IInv, Shape, OpenInSubtask, RoomLeft, WithinBudget,
                EndsWithAMessage
  <2> QED BY <2>1, <2>2
<1> QED BY <1>1, <1>2, PTL DEF Spec

\* After its first request a run never asks the model more often than its
\* budget has iterations, nor again once the tool calls are spent, by tools
\* forced on it or by the model's: for every budget, with both limits, one or
\* none, every number of forced calls and every plan (Budget.check,
\* Agent.ts:191-201 and 509-523).
THEOREM BudgetHolds == Spec => []WithinBudget
<1>1. IInv => WithinBudget
  BY DEF IInv
<1> QED BY <1>1, Invariance, PTL

\* A run that ends normally has told the user something since its last
\* subtask began (ensureFinalMessage, finalizeSummary).
THEOREM NeverSilent == Spec => []EndsWithAMessage
<1>1. IInv => EndsWithAMessage
  BY DEF IInv
<1> QED BY <1>1, Invariance, PTL

-----------------------------------------------------------------------------
(***************************************************************************)
(* The plan: how far the work has come.                                    *)
(***************************************************************************)
LeafRecord == [top : Nat \ {0}, sub : Nat, status : LeafStatus]

Sorted(p) ==
    \A i, j \in 1..Len(p) : i < j =>
        p[i].top < p[j].top \/ (p[i].top = p[j].top /\ p[i].sub < p[j].sub)

\* The leaves of the top level steps a + 1 to b, in order.
Spans(p, a, b) ==
    /\ Sorted(p)
    /\ \A k \in 1..Len(p) : p[k].top \in a + 1 .. b
    /\ \A t \in a + 1 .. b : \E k \in 1..Len(p) : p[k].top = t

\* A plan of which the first n leaves are done.
Reached(p, n) ==
    /\ p \in Seq(LeafRecord) /\ n \in 0..Len(p)
    /\ \E m \in Nat : Spans(p, 0, m)
    /\ \A k \in 1..Len(p) : p[k].status = "completed" <=> k <= n

Ranges ==
    /\ attempt \in 0..MaxStepAttempts
    /\ round \in 1..MaxStructured + 1 /\ (pc \in Structured => round <= MaxStructured)
    /\ finished \in BOOLEAN /\ shown \in [started : Nat, total : Nat]
    /\ index \in Nat /\ frontier \in Nat

\* What is true of the plan where the run stands.
Stage ==
    /\ pc \in {"prepare", "gate", "build"} => plan = << >>
    /\ pc \in {"step", "judge"} =>
          /\ Active <= Len(plan) /\ plan[Active].status = "in_progress"
          /\ shown.total = Len(plan) /\ shown.started \in 1..Active
    /\ pc = "replan" => frontier = 0 /\ Active <= Len(plan) /\ plan[Active].status = "failed"

PlanInv == Ranges /\ Reached(plan, index + frontier) /\ Stage

-----------------------------------------------------------------------------
\* Induction over sets of numbers, which the provers can instantiate.
LEMMA LeastOf ==
    ASSUME NEW S \in SUBSET Nat, S # {}
    PROVE  \E m \in S : \A n \in S : m <= n
<1> DEFINE R == OpToRel(<, Nat)
<1>1. PICK m \in S : \A n \in S : ~(<<n, m>> \in R)
  <2>1. IsWellFoundedOn(R, Nat)
    BY NatLessThanWellFounded
  <2> HIDE DEF R
  <2> QED BY <2>1, WFMin
<1>2. \A n \in S : ~(n < m)
  BY <1>1 DEF OpToRel
<1>3. \A n \in S : n \in Nat /\ m \in Nat
  OBVIOUS
<1> HIDE DEF R
<1> QED BY <1>2, <1>3

LEMMA Induction ==
    ASSUME NEW S, 0 \in S, \A n \in Nat : n \in S => n + 1 \in S
    PROVE  Nat \subseteq S
<1> SUFFICES ASSUME ~(Nat \subseteq S) PROVE FALSE
  OBVIOUS
<1>1. PICK m \in Nat \ S : \A n \in Nat \ S : m <= n
  <2>1. Nat \ S \in SUBSET Nat /\ Nat \ S # {}
    OBVIOUS
  <2> QED BY <2>1, LeastOf
<1>2. m # 0 /\ m - 1 \in Nat /\ m - 1 \notin Nat \ S
  BY <1>1
<1>3. (m - 1) + 1 \in S
  BY <1>2
<1> QED BY <1>1, <1>2, <1>3

\* Min and Max are what they are called.
LEMMA MinIs ==
    ASSUME NEW S \in SUBSET Nat, S # {}
    PROVE  Min(S) \in S /\ \A n \in S : Min(S) <= n
BY LeastOf DEF Min

LEMMA MaxIs ==
    ASSUME NEW b \in Nat, NEW S \in SUBSET (0..b), S # {}
    PROVE  Max(S) \in S /\ \A n \in S : n <= Max(S)
<1> DEFINE D == {d \in 0..b : b - d \in S}
<1>1. D \in SUBSET Nat /\ D # {}
  <2>1. PICK n \in S : TRUE
    OBVIOUS
  <2>2. b - n \in 0..b /\ b - (b - n) = n
    OBVIOUS
  <2>3. b - n \in D
    BY <2>2
  <2>4. D \in SUBSET Nat
    OBVIOUS
  <2> QED BY <2>3, <2>4
<1>2. PICK d \in D : \A e \in D : d <= e
  <2> HIDE DEF D
  <2> QED BY <1>1, LeastOf
<1>3. \A n \in S : n <= b - d
  <2> TAKE n \in S
  <2>1. b - n \in 0..b /\ b - (b - n) = n
    OBVIOUS
  <2>2. d <= b - n
    BY <1>2, <2>1
  <2> QED BY <2>2
<1>4. b - d \in S
  OBVIOUS
<1> QED BY <1>3, <1>4 DEF Max

-----------------------------------------------------------------------------
(* Sequences of leaves                                                     *)

LEMMA PlanFacts ==
    ASSUME NEW p \in Seq(LeafRecord)
    PROVE  /\ Len(p) \in Nat /\ DOMAIN p = 1..Len(p)
           /\ \A k \in 1..Len(p) :
                 /\ p[k] \in LeafRecord /\ p[k].top \in Nat \ {0} /\ p[k].sub \in Nat
                 /\ p[k].status \in LeafStatus
<1>1. \A k \in 1..Len(p) : p[k] \in LeafRecord
  BY ElementOfSeq
<1> QED BY <1>1, LenProperties DEF LeafRecord

\* The status of a leaf has no part in where it stands.
LEMMA SpansSame ==
    ASSUME NEW p, NEW q, NEW a, NEW b, Spans(p, a, b), Len(p) = Len(q),
           \A k \in 1..Len(p) : q[k].top = p[k].top /\ q[k].sub = p[k].sub
    PROVE  Spans(q, a, b)
BY DEF Spans, Sorted

\* Two plans that follow each other.
LEMMA Joined ==
    ASSUME NEW p \in Seq(LeafRecord), NEW q \in Seq(LeafRecord),
           NEW a \in Nat, NEW b \in Nat, NEW c \in Nat, a <= b, b <= c,
           Spans(p, a, b), Spans(q, b, c)
    PROVE  Spans(p \o q, a, c)
<1> DEFINE r == p \o q
<1>1. /\ r \in Seq(LeafRecord) /\ Len(r) = Len(p) + Len(q)
      /\ \A i \in 1..Len(p) + Len(q) : r[i] = IF i <= Len(p) THEN p[i] ELSE q[i - Len(p)]
  BY ConcatProperties
<1>2. Len(p) \in Nat /\ Len(q) \in Nat
  BY LenProperties
<1> HIDE DEF r
<1>3. \A i \in 1..Len(p) : i \in 1..Len(r) /\ r[i] = p[i]
  BY <1>1, <1>2
<1>4. \A i \in 1..Len(q) : Len(p) + i \in 1..Len(r) /\ r[Len(p) + i] = q[i]
  <2> TAKE i \in 1..Len(q)
  <2>1. Len(p) + i \in 1..Len(p) + Len(q) /\ ~(Len(p) + i <= Len(p)) /\ (Len(p) + i) - Len(p) = i
    BY <1>2
  <2> QED BY <1>1, <2>1
<1>5. \A k \in 1..Len(r) : k \in 1..Len(p) \/ \E i \in 1..Len(q) : k = Len(p) + i
  <2> TAKE k \in 1..Len(r)
  <2> SUFFICES ASSUME ~(k \in 1..Len(p)) PROVE \E i \in 1..Len(q) : k = Len(p) + i
    OBVIOUS
  <2>1. k - Len(p) \in 1..Len(q) /\ k = Len(p) + (k - Len(p))
    BY <1>1, <1>2
  <2> QED BY <2>1
<1>6. \A k \in 1..Len(r) : r[k].top \in a + 1 .. c
  <2> TAKE k \in 1..Len(r)
  <2>1. CASE k \in 1..Len(p)
    <3>1. p[k].top \in a + 1 .. b
      BY <2>1 DEF Spans
    <3> QED BY <3>1, <2>1, <1>3
  <2>2. CASE \E i \in 1..Len(q) : k = Len(p) + i
    <3>1. PICK i \in 1..Len(q) : k = Len(p) + i
      BY <2>2
    <3>2. q[i].top \in b + 1 .. c
      BY DEF Spans
    <3>3. r[k] = q[i]
      BY <3>1, <1>4
    <3>4. r[k].top \in b + 1 .. c /\ b + 1 .. c \subseteq a + 1 .. c
      BY <3>2, <3>3
    <3> QED BY <3>4
  <2> QED BY <2>1, <2>2, <1>5
<1>7. ASSUME NEW t \in a + 1 .. c PROVE \E k \in 1..Len(r) : r[k].top = t
  <2>1. CASE t \in a + 1 .. b
    <3>1. PICK k \in 1..Len(p) : p[k].top = t
      BY <2>1 DEF Spans
    <3> QED BY <3>1, <1>3
  <2>2. CASE t \in b + 1 .. c
    <3>1. PICK i \in 1..Len(q) : q[i].top = t
      BY <2>2 DEF Spans
    <3> QED BY <3>1, <1>4
  <2> QED BY <2>1, <2>2
<1>8. Sorted(r)
  <2> SUFFICES ASSUME NEW i \in 1..Len(r), NEW j \in 1..Len(r), i < j
               PROVE  r[i].top < r[j].top \/ (r[i].top = r[j].top /\ r[i].sub < r[j].sub)
    BY DEF Sorted
  <2>1. CASE i \in 1..Len(p) /\ j \in 1..Len(p)
    BY <2>1, <1>3 DEF Spans, Sorted
  <2>2. CASE i \in 1..Len(p) /\ ~(j \in 1..Len(p))
    <3>1. PICK l \in 1..Len(q) : j = Len(p) + l
      BY <2>2, <1>5
    <3>2. p[i].top \in a + 1 .. b /\ q[l].top \in b + 1 .. c
      BY <2>2 DEF Spans
    <3> QED BY <3>1, <3>2, <2>2, <1>3, <1>4
  <2>3. CASE ~(i \in 1..Len(p))
    <3>1. PICK l \in 1..Len(q) : i = Len(p) + l
      BY <2>3, <1>5
    <3>2. j \notin 1..Len(p)
      BY <3>1, <1>2
    <3>3. PICK n \in 1..Len(q) : j = Len(p) + n
      BY <3>2, <1>5
    <3>4. l < n
      BY <3>1, <3>3, <1>2
    <3>5. q[l].top < q[n].top \/ (q[l].top = q[n].top /\ q[l].sub < q[n].sub)
      BY <3>4 DEF Spans, Sorted
    <3> QED BY <3>1, <3>3, <3>5, <1>4
  <2> QED BY <2>1, <2>2, <2>3
<1> QED BY <1>6, <1>7, <1>8 DEF Spans, r

-----------------------------------------------------------------------------
(* What the planning operators make of a plan                              *)

\* The leaves of one step span it.
LEMMA StepLeavesIs ==
    ASSUME NEW top \in Nat, NEW subs \in Nat
    PROVE  /\ StepLeaves(top + 1, subs) \in Seq(LeafRecord)
           /\ \A k \in 1..Len(StepLeaves(top + 1, subs)) :
                 StepLeaves(top + 1, subs)[k].status = "pending"
           /\ Spans(StepLeaves(top + 1, subs), top, top + 1)
<1>1. \A j \in Nat : Leaf(top + 1, j) \in LeafRecord
  BY DEF Leaf, LeafRecord, LeafStatus
<1>2. CASE subs = 0
  <2>1. StepLeaves(top + 1, subs) = <<Leaf(top + 1, 0)>>
    BY <1>2 DEF StepLeaves
  <2>2. <<Leaf(top + 1, 0)>> \in Seq(LeafRecord)
    BY <1>1
  <2>3. Spans(<<Leaf(top + 1, 0)>>, top, top + 1)
    BY DEF Spans, Sorted, Leaf
  <2>4. \A k \in 1..Len(<<Leaf(top + 1, 0)>>) : <<Leaf(top + 1, 0)>>[k].status = "pending"
    BY DEF Leaf
  <2> QED BY <2>1, <2>2, <2>3, <2>4, Zenon
<1>3. CASE subs # 0
  <2> DEFINE p == [j \in 1..subs |-> Leaf(top + 1, j)]
  <2>1. StepLeaves(top + 1, subs) = p
    BY <1>3 DEF StepLeaves
  <2>2. p \in Seq(LeafRecord) /\ Len(p) = subs
    BY <1>1
  <2>3. \A j \in 1..Len(p) : p[j].top = top + 1 /\ p[j].sub = j /\ p[j].status = "pending"
    BY <2>2 DEF Leaf
  <2> HIDE DEF p
  <2>4. 1 \in 1..Len(p)
    BY <1>3, <2>2
  <2>5. Spans(p, top, top + 1)
    BY <2>2, <2>3, <2>4 DEF Spans, Sorted
  <2> QED BY <2>1, <2>2, <2>3, <2>5
<1> QED BY <1>2, <1>3

\* The recursion of Hydrate has a solution, and Hydrate is its last value.
LEMMA HydrateSteps ==
    ASSUME NEW draft \in Seq(Nat), NEW kept \in Nat
    PROVE  \E f : /\ f[0] = << >> /\ Hydrate(draft, kept) = f[Len(draft)]
                  /\ \A n \in 1..Len(draft) :
                        f[n] = f[n - 1] \o StepLeaves(kept + n, draft[n])
<1> DEFINE Follow(f, k) ==
             [n \in 0 .. k |-> IF n = 0 THEN << >> ELSE f[n - 1] \o StepLeaves(kept + n, draft[n])]
           Solves(f, k) == f = Follow(f, k)
           S == {k \in Nat : \E f : Solves(f, k)}
<1>0. ASSUME NEW k \in Nat, NEW f, Solves(f, k)
      PROVE  /\ f[0] = << >>
             /\ \A n \in 1..k : f[n] = f[n - 1] \o StepLeaves(kept + n, draft[n])
  <2>1. Follow(f, k)[0] = << >>
    OBVIOUS
  <2>2. \A n \in 1..k : Follow(f, k)[n] = f[n - 1] \o StepLeaves(kept + n, draft[n])
    OBVIOUS
  <2>3. f = Follow(f, k)
    BY <1>0
  <2> HIDE DEF Follow
  <2> QED BY <2>1, <2>2, <2>3
<1>1. 0 \in S
  <2>1. Solves([n \in 0..0 |-> << >>], 0)
    OBVIOUS
  <2> QED BY <2>1
<1>2. ASSUME NEW k \in Nat, k \in S PROVE k + 1 \in S
  <2>1. PICK f : Solves(f, k)
    BY <1>2
  <2> DEFINE last == f[k] \o StepLeaves(kept + (k + 1), draft[k + 1])
             g == [n \in 0..k + 1 |-> IF n = k + 1 THEN last ELSE f[n]]
  <2> HIDE DEF last
  <2>2. \A n \in 0..k : g[n] = f[n]
    OBVIOUS
  <2>3. g[k + 1] = g[k] \o StepLeaves(kept + (k + 1), draft[k + 1])
    BY DEF last
  <2>4. g[0] = << >>
    BY <1>0, <2>1, <2>2
  <2>5. ASSUME NEW n \in 1..k
        PROVE  g[n] = g[n - 1] \o StepLeaves(kept + n, draft[n])
    <3>1. f[n] = f[n - 1] \o StepLeaves(kept + n, draft[n])
      BY <1>0, <2>1
    <3>2. g[n] = f[n] /\ g[n - 1] = f[n - 1]
      BY <2>2
    <3> QED BY <3>1, <3>2
  <2> DEFINE h == Follow(g, k + 1)
  <2>6. \A n \in 0..k + 1 : g[n] = h[n]
    <3> TAKE n \in 0..k + 1
    <3>1. n = 0 \/ n = k + 1 \/ n \in 1..k
      OBVIOUS
    <3>2. k + 1 # 0 /\ (k + 1) - 1 = k
      OBVIOUS
    <3> HIDE DEF g
    <3> QED BY <3>1, <3>2, <2>3, <2>4, <2>5
  <2>7. g = [n \in 0..k + 1 |-> g[n]] /\ h = [n \in 0..k + 1 |-> h[n]]
    OBVIOUS
  <2>8. g = h
    <3> HIDE DEF g, h
    <3> QED BY <2>6, <2>7
  <2>9. Solves(g, k + 1)
    <3> HIDE DEF g, Follow
    <3> QED BY <2>8
  <2>10. \E f1 : Solves(f1, k + 1)
    <3> HIDE DEF g, Solves
    <3> QED BY <2>9
  <2> HIDE DEF Solves
  <2> QED BY <2>10
<1>3. Len(draft) \in S
  <2> HIDE DEF S
  <2> QED BY <1>1, <1>2, Induction, LenProperties
<1> DEFINE f == CHOOSE f : Solves(f, Len(draft))
<1>4. Solves(f, Len(draft))
  BY <1>3
<1>5. Hydrate(draft, kept) = f[Len(draft)]
  BY DEF Hydrate
<1>6. Len(draft) \in Nat
  OBVIOUS
<1> HIDE DEF f, Solves
<1>7. f[0] = << >>
  BY <1>0, <1>4, <1>6
<1>8. \A n \in 1..Len(draft) : f[n] = f[n - 1] \o StepLeaves(kept + n, draft[n])
  BY <1>0, <1>4, <1>6
<1> QED BY <1>5, <1>7, <1>8

\* A draft becomes that many steps, whose leaves are all to do, and at least one.
LEMMA HydrateIs ==
    ASSUME NEW draft \in Drafts, NEW kept \in Nat
    PROVE  /\ Hydrate(draft, kept) \in Seq(LeafRecord) /\ Len(Hydrate(draft, kept)) > 0
           /\ \A k \in 1..Len(Hydrate(draft, kept)) : Hydrate(draft, kept)[k].status = "pending"
           /\ \E m \in Nat : m >= kept /\ Spans(Hydrate(draft, kept), kept, m)
<1>0. /\ draft \in Seq(Nat) /\ Len(draft) \in Nat /\ Len(draft) > 0
      /\ \A n \in 1..Len(draft) : draft[n] \in Nat
  <2>1. draft \in Seq(Nat) /\ draft # << >>
    BY DraftsHaveSteps
  <2> QED BY <2>1, ElementOfSeq, EmptySeq, LenProperties
<1>1. PICK f : /\ f[0] = << >> /\ Hydrate(draft, kept) = f[Len(draft)]
               /\ \A n \in 1..Len(draft) :
                     f[n] = f[n - 1] \o StepLeaves(kept + n, draft[n])
  BY <1>0, HydrateSteps
<1> DEFINE Good(p, n) ==
             /\ p \in Seq(LeafRecord) /\ Spans(p, kept, kept + n)
             /\ \A k \in 1..Len(p) : p[k].status = "pending"
           S == {n \in Nat : n <= Len(draft) => Good(f[n], n)}
<1>2. 0 \in S
  <2>1. Good(<< >>, 0)
    <3>1. Len(<< >>) = 0 /\ 1..0 = {} /\ kept + 1 .. kept + 0 = {}
      OBVIOUS
    <3>2. Spans(<< >>, kept, kept + 0)
      BY <3>1 DEF Spans, Sorted
    <3> QED BY <3>1, <3>2
  <2> HIDE DEF Good
  <2> QED BY <1>1, <2>1
<1>3. ASSUME NEW n \in Nat, n \in S PROVE n + 1 \in S
  <2> SUFFICES ASSUME n + 1 <= Len(draft) PROVE Good(f[n + 1], n + 1)
    <3> HIDE DEF Good
    <3> QED OBVIOUS
  <2>1. n + 1 \in 1..Len(draft) /\ (n + 1) - 1 = n /\ n <= Len(draft)
    BY <1>0
  <2>2. Good(f[n], n)
    <3> HIDE DEF Good
    <3> QED BY <1>3, <2>1
  <2> DEFINE p == f[n]
             q == StepLeaves((kept + n) + 1, draft[n + 1])
  <2>3. f[n + 1] = p \o q
    <3>1. kept + (n + 1) = (kept + n) + 1
      OBVIOUS
    <3> QED BY <1>1, <2>1, <3>1
  <2>4. /\ q \in Seq(LeafRecord) /\ Spans(q, kept + n, (kept + n) + 1)
        /\ \A k \in 1..Len(q) : q[k].status = "pending"
    <3>1. kept + n \in Nat /\ draft[n + 1] \in Nat
      BY <1>0, <2>1
    <3> QED BY <3>1, StepLeavesIs
  <2> HIDE DEF p, q
  <2>5. Spans(p \o q, kept, (kept + n) + 1)
    <3>1. /\ kept + n \in Nat /\ (kept + n) + 1 \in Nat /\ kept <= kept + n
          /\ kept + n <= (kept + n) + 1
      OBVIOUS
    <3> QED BY <2>2, <2>4, <3>1, Joined DEF p
  <2>6. \A k \in 1..Len(p \o q) : (p \o q)[k].status = "pending"
    <3>1. p \in Seq(LeafRecord) /\ \A k \in 1..Len(p) : p[k].status = "pending"
      BY <2>2 DEF p
    <3>2. Len(p) \in Nat /\ Len(q) \in Nat
      BY <3>1, <2>4, LenProperties
    <3>3. /\ Len(p \o q) = Len(p) + Len(q)
          /\ \A i \in 1..Len(p) + Len(q) : (p \o q)[i] = IF i <= Len(p) THEN p[i] ELSE q[i - Len(p)]
      BY <3>1, <2>4, ConcatProperties
    <3>4. ASSUME NEW k \in 1..Len(p) + Len(q) PROVE (p \o q)[k].status = "pending"
      <4>1. CASE k <= Len(p)
        BY <4>1, <3>1, <3>2, <3>3
      <4>2. CASE ~(k <= Len(p))
        <5>1. k - Len(p) \in 1..Len(q)
          BY <4>2, <3>2
        <5> QED BY <4>2, <5>1, <2>4, <3>3
      <4> QED BY <4>1, <4>2
    <3> QED BY <3>3, <3>4
  <2>7. p \o q \in Seq(LeafRecord)
    BY <2>2, <2>4, ConcatProperties DEF p
  <2>8. (kept + n) + 1 = kept + (n + 1)
    OBVIOUS
  <2> QED BY <2>3, <2>5, <2>6, <2>7, <2>8
<1>4. Good(f[Len(draft)], Len(draft))
  <2>1. Len(draft) \in S
    <3> HIDE DEF S
    <3> QED BY <1>0, <1>2, <1>3, Induction
  <2> HIDE DEF Good
  <2> QED BY <1>0, <2>1
<1> DEFINE r == Hydrate(draft, kept)
<1>5. Good(r, Len(draft))
  BY <1>1, <1>4
<1>6. kept + Len(draft) \in Nat /\ kept + 1 \in kept + 1 .. kept + Len(draft)
  BY <1>0
<1> HIDE DEF r
<1>7. Len(r) > 0
  <2>1. PICK k \in 1..Len(r) : r[k].top = kept + 1
    BY <1>5, <1>6 DEF Spans
  <2> QED BY <2>1, <1>5, LenProperties
<1>8. kept + Len(draft) >= kept
  BY <1>0
<1> QED BY <1>5, <1>6, <1>7, <1>8 DEF r

LEMMA IntervalCount ==
    ASSUME NEW n \in Nat
    PROVE  Cardinality(1..n) = n
<1>1. Cardinality(1..n) = IF 1 > n THEN 0 ELSE n - 1 + 1
  BY FS_Interval
<1> QED BY <1>1

LEMMA CountIs ==
    ASSUME NEW p, NEW n, Reached(p, n)
    PROVE  Count(p) = n
<1>1. p \in Seq(LeafRecord) /\ n \in Nat /\ n <= Len(p) /\ Len(p) \in Nat
  BY LenProperties DEF Reached
<1>2. {k \in DOMAIN p : p[k].status = "completed"} = 1..n
  BY <1>1 DEF Reached
<1> QED BY <1>1, <1>2, IntervalCount DEF Count

LEMMA NextPendingIs ==
    ASSUME NEW p, NEW n, Reached(p, n), n < Len(p)
    PROVE  NextPending(p) = n
<1> DEFINE S == {k \in DOMAIN p : p[k].status # "completed"}
<1>1. p \in Seq(LeafRecord) /\ n \in Nat /\ n + 1 <= Len(p) /\ Len(p) \in Nat
  BY LenProperties DEF Reached
<1>2. DOMAIN p = 1..Len(p) /\ \A k \in 1..Len(p) : p[k].status # "completed" <=> k > n
  BY <1>1 DEF Reached
<1>3. S = n + 1 .. Len(p)
  BY <1>1, <1>2
<1>4. S \in SUBSET Nat /\ n + 1 \in S /\ \A k \in S : n + 1 <= k
  BY <1>1, <1>3
<1> HIDE DEF S
<1>5. Min(S) \in S /\ Min(S) <= n + 1
  BY <1>4, MinIs
<1>6. Min(S) = n + 1
  BY <1>1, <1>3, <1>5
<1> QED BY <1>1, <1>6 DEF NextPending, S

LEMMA TopStepsIs ==
    ASSUME NEW p \in Seq(LeafRecord), NEW b \in Nat, Spans(p, 0, b)
    PROVE  TopSteps(p) = b
<1>1. {p[k].top : k \in DOMAIN p} = 1..b
  <2>1. DOMAIN p = 1..Len(p)
    BY LenProperties
  <2>2. /\ \A k \in 1..Len(p) : p[k].top \in 0 + 1 .. b
        /\ \A t \in 0 + 1 .. b : \E k \in 1..Len(p) : p[k].top = t
    BY DEF Spans
  <2> QED BY <2>1, <2>2
<1> QED BY <1>1, IntervalCount DEF TopSteps

\* What a revision keeps of a plan: all that stands before the step of the first leaf
\* that is not done.
KeptPart(kept, p, n, top) ==
    /\ kept \in Seq(LeafRecord) /\ Spans(kept, 0, top - 1)
    /\ Len(kept) <= n
    /\ \A k \in 1..Len(kept) : kept[k] = p[k]
    /\ \A k \in 1..Len(p) : p[k].top < top => k <= Len(kept)

LEMMA KeptIs ==
    ASSUME NEW n, Reached(plan, n), n = index, n + 1 <= Len(plan)
    PROVE  KeptPart(Kept, plan, n, plan[n + 1].top)
<1> DEFINE top == plan[n + 1].top
           S == {k \in DOMAIN plan : plan[k].top = top}
           first == Min(S)
           kept == SubSeq(plan, 1, first - 1)
<1>1. plan \in Seq(LeafRecord) /\ n \in Nat /\ Len(plan) \in Nat /\ n + 1 \in 1..Len(plan)
  BY LenProperties DEF Reached
<1>2. /\ DOMAIN plan = 1..Len(plan)
      /\ \A k \in 1..Len(plan) : plan[k] \in LeafRecord /\ plan[k].top \in Nat \ {0}
  BY <1>1, PlanFacts
<1>3. PICK m \in Nat : Spans(plan, 0, m)
  BY DEF Reached
<1>4. top \in 1..m
  BY <1>1, <1>3 DEF Spans
<1> HIDE DEF top, S, first
<1>5. \A i, j \in 1..Len(plan) : i < j => plan[i].top <= plan[j].top
  <2> TAKE i, j \in 1..Len(plan)
  <2> HAVE i < j
  <2>1. plan[i].top \in Nat /\ plan[j].top \in Nat
    BY <1>2
  <2>2. plan[i].top < plan[j].top \/ plan[i].top = plan[j].top
    BY <1>3 DEF Spans, Sorted
  <2> QED BY <2>1, <2>2
<1>6. first \in S /\ \A k \in S : first <= k
  <2>1. n + 1 \in S
    BY <1>1, <1>2 DEF S, top
  <2>2. S \in SUBSET Nat
    BY <1>2 DEF S
  <2> QED BY <2>1, <2>2, MinIs DEF first
<1>7. first \in 1..Len(plan) /\ plan[first].top = top /\ first <= n + 1
  <2>1. n + 1 \in S
    BY <1>1, <1>2 DEF S, top
  <2>2. first \in DOMAIN plan /\ plan[first].top = top
    BY <1>6 DEF S
  <2> QED BY <2>1, <2>2, <1>2, <1>6
<1>8. \A k \in 1..Len(plan) : plan[k].top < top <=> k < first
  <2> TAKE k \in 1..Len(plan)
  <2>1. plan[k].top \in Nat /\ top \in Nat
    BY <1>2, <1>4
  <2>2. ASSUME plan[k].top < top PROVE k < first
    <3>1. k # first /\ ~(first < k)
      BY <2>1, <2>2, <1>5, <1>7
    <3> QED BY <3>1, <1>7
  <2>3. ASSUME k < first PROVE plan[k].top < top
    <3>1. k \notin S
      BY <1>6, <1>7, <2>3
    <3>2. plan[k].top # top
      BY <3>1, <1>2 DEF S
    <3>3. plan[k].top <= top
      BY <1>5, <1>7, <2>3
    <3> QED BY <3>2, <3>3, <2>1
  <2> QED BY <2>2, <2>3
<1>9. /\ kept \in Seq(LeafRecord) /\ Len(kept) = first - 1
      /\ \A k \in 1..first - 1 : kept[k] = plan[k]
  <2>1. \A i \in 1 .. first - 1 : plan[i] \in LeafRecord
    BY <1>2, <1>7
  <2>2. /\ SubSeq(plan, 1, first - 1) \in Seq(LeafRecord)
        /\ Len(SubSeq(plan, 1, first - 1)) = IF 1 <= first - 1 THEN first - 1 - 1 + 1 ELSE 0
        /\ \A i \in 1 .. first - 1 - 1 + 1 : SubSeq(plan, 1, first - 1)[i] = plan[1 + i - 1]
    BY <2>1, <1>7, SubSeqProperties
  <2> QED BY <2>2, <1>7
<1> HIDE DEF kept
<1>10. \A k \in 1..Len(kept) : k \in 1..Len(plan) /\ k < first /\ kept[k] = plan[k]
  BY <1>7, <1>9
<1>11. Spans(kept, 0, top - 1)
  <2>1. Sorted(kept)
    BY <1>10, <1>3 DEF Spans, Sorted
  <2>2. \A k \in 1..Len(kept) : kept[k].top \in 0 + 1 .. top - 1
    BY <1>10, <1>8, <1>2, <1>4
  <2>3. ASSUME NEW t \in 0 + 1 .. top - 1 PROVE \E k \in 1..Len(kept) : kept[k].top = t
    <3>1. PICK k \in 1..Len(plan) : plan[k].top = t
      BY <1>3, <1>4 DEF Spans
    <3>2. k < first
      BY <3>1, <1>4, <1>8
    <3> QED BY <3>1, <3>2, <1>7, <1>9
  <2> QED BY <2>1, <2>2, <2>3 DEF Spans
<1>12. Len(kept) <= n /\ \A k \in 1..Len(plan) : plan[k].top < top => k <= Len(kept)
  BY <1>1, <1>7, <1>8, <1>9
<1>13. Kept = kept
  BY DEF Kept, kept, first, S, top
<1> QED BY <1>9, <1>10, <1>11, <1>12, <1>13 DEF KeptPart, top

\* Leaves that differ in their status only.
LEMMA Restated ==
    ASSUME NEW p, NEW n, Reached(p, n), NEW q, NEW c \in 0..Len(p),
           q \in Seq(LeafRecord), Len(q) = Len(p),
           \A k \in 1..Len(p) : /\ q[k].top = p[k].top /\ q[k].sub = p[k].sub
                                /\ q[k].status = "completed" <=> k <= c
    PROVE  Reached(q, c)
<1>1. PICK m \in Nat : Spans(p, 0, m)
  BY DEF Reached
<1>2. Spans(q, 0, m)
  BY <1>1, SpansSame
<1> QED BY <1>2 DEF Reached

\* The first leaf that is not done starts or fails.
Turned(q, p, n, status) ==
    /\ Reached(q, n) /\ Len(q) = Len(p) /\ q[n + 1].status = status
    /\ \A k \in 1..n : q[k] = p[k]

LEMMA TurnedIs ==
    ASSUME NEW p, NEW n, Reached(p, n), n < Len(p),
           NEW status \in LeafStatus \ {"completed"}
    PROVE  Turned([p EXCEPT ![n + 1].status = status], p, n, status)
<1> DEFINE q == [p EXCEPT ![n + 1].status = status]
<1>1. /\ p \in Seq(LeafRecord) /\ Len(p) \in Nat /\ n \in Nat /\ n + 1 \in 1..Len(p)
      /\ DOMAIN p = 1..Len(p) /\ \A k \in 1..Len(p) : p[k].status = "completed" <=> k <= n
  BY PlanFacts DEF Reached
<1>2. \A k \in 1..Len(p) : p[k] \in LeafRecord
  BY <1>1, PlanFacts
<1>3. q[n + 1] = [p[n + 1] EXCEPT !.status = status]
  BY <1>1
<1>4. /\ q[n + 1] \in LeafRecord /\ q[n + 1].status = status
      /\ q[n + 1].top = p[n + 1].top /\ q[n + 1].sub = p[n + 1].sub
  BY <1>1, <1>2, <1>3 DEF LeafRecord
<1>5. \A k \in 1..Len(p) : k # n + 1 => q[k] = p[k]
  BY <1>1
<1>6. q \in Seq(LeafRecord) /\ Len(q) = Len(p)
  <2>1. \A k \in 1..Len(p) : q[k] \in LeafRecord
    BY <1>2, <1>4, <1>5
  <2>2. q = [k \in 1..Len(p) |-> q[k]]
    BY <1>1
  <2> HIDE DEF q
  <2> QED BY <2>1, <2>2, <1>1
<1> HIDE DEF q
<1>7. \A k \in 1..Len(p) : /\ q[k].top = p[k].top /\ q[k].sub = p[k].sub
                           /\ q[k].status = "completed" <=> k <= n
  <2> TAKE k \in 1..Len(p)
  <2>1. CASE k = n + 1
    BY <2>1, <1>1, <1>4
  <2>2. CASE k # n + 1
    BY <2>2, <1>1, <1>5
  <2> QED BY <2>1, <2>2
<1>8. Reached(q, n)
  <2>1. n \in 0..Len(p)
    BY <1>1
  <2> QED BY <2>1, <1>6, <1>7, Restated
<1>9. \A k \in 1..n : q[k] = p[k]
  BY <1>1, <1>5
<1> QED BY <1>4, <1>6, <1>8, <1>9 DEF Turned, q

\* A judgement confirms leaves of the plan only.
LEMMA ConfirmedIs ==
    ASSUME PlanInv, NEW report \in Reports
    PROVE  Confirmed(report) \in Nat /\ index + frontier + Confirmed(report) <= Len(plan)
<1> DEFINE Matches(i) == /\ index + frontier + i \in DOMAIN plan
                         /\ report[i] = Id(plan[index + frontier + i])
           S == {0} \cup {n \in DOMAIN report : \A i \in 1 .. n : Matches(i)}
<1>1. PICK m \in Nat : DOMAIN report = 1..m
  BY DEF Reports, SeqOf
<1>2. index + frontier \in Nat /\ index + frontier <= Len(plan) /\ DOMAIN plan = 1..Len(plan)
  BY LenProperties DEF PlanInv, Ranges, Reached
<1>3. \A n \in S : n \in 0..m /\ (n > 0 => Matches(n))
  BY <1>1
<1>4. Confirmed(report) = Max(S)
  BY DEF Confirmed
<1> HIDE DEF Matches
<1>5. Max(S) \in S
  <2>1. S \in SUBSET (0..m) /\ S # {}
    BY <1>3
  <2> HIDE DEF S
  <2> QED BY <2>1, MaxIs
<1> HIDE DEF S
<1>6. Max(S) \in 0..m /\ (Max(S) > 0 => Matches(Max(S)))
  BY <1>3, <1>5
<1>7. Max(S) > 0 => index + frontier + Max(S) <= Len(plan)
  BY <1>2, <1>6 DEF Matches
<1> QED BY <1>2, <1>4, <1>6, <1>7

LEMMA MarkedIs ==
    ASSUME PlanInv, NEW report \in Reports
    PROVE  /\ Reached(Marked(report), index + frontier + Confirmed(report))
           /\ Len(Marked(report)) = Len(plan)
           /\ \A k \in 1..index + frontier : Marked(report)[k] = plan[k]
<1> DEFINE n == index + frontier
           c == Confirmed(report)
           q == Marked(report)
<1>1. n \in Nat /\ c \in Nat /\ n + c <= Len(plan) /\ n + c \in 0..Len(plan)
  BY ConfirmedIs DEF PlanInv, Ranges
<1>2. /\ plan \in Seq(LeafRecord) /\ Len(plan) \in Nat /\ DOMAIN plan = 1..Len(plan)
      /\ \A k \in 1..Len(plan) : plan[k].status = "completed" <=> k <= n
  BY PlanFacts DEF PlanInv, Reached
<1>3. \A k \in 1..Len(plan) : plan[k] \in LeafRecord
  BY <1>2, PlanFacts
<1>4. q = [k \in 1..Len(plan) |-> IF k \in n + 1 .. n + c
                                  THEN [plan[k] EXCEPT !.status = "completed"] ELSE plan[k]]
  BY <1>2 DEF Marked
<1> HIDE DEF n, c, q
<1>5. \A k \in 1..Len(plan) : k \in n + 1 .. n + c =>
        /\ q[k] \in LeafRecord /\ q[k].status = "completed"
        /\ q[k].top = plan[k].top /\ q[k].sub = plan[k].sub
  BY <1>3, <1>4 DEF LeafRecord, LeafStatus
<1>6. \A k \in 1..Len(plan) : k \notin n + 1 .. n + c => q[k] = plan[k]
  BY <1>4
<1>7. q \in Seq(LeafRecord) /\ Len(q) = Len(plan)
  <2>1. \A k \in 1..Len(plan) : q[k] \in LeafRecord
    BY <1>3, <1>5, <1>6
  <2>2. q = [k \in 1..Len(plan) |-> q[k]]
    BY <1>4
  <2> QED BY <2>1, <2>2, <1>2
<1>8. \A k \in 1..Len(plan) : /\ q[k].top = plan[k].top /\ q[k].sub = plan[k].sub
                              /\ q[k].status = "completed" <=> k <= n + c
  <2> TAKE k \in 1..Len(plan)
  <2>1. CASE k \in n + 1 .. n + c
    BY <2>1, <1>1, <1>5
  <2>2. CASE k \notin n + 1 .. n + c
    BY <2>2, <1>1, <1>2, <1>6
  <2> QED BY <2>1, <2>2
<1>9. Reached(q, n + c)
  <2>1. Reached(plan, n)
    BY DEF PlanInv, n
  <2> QED BY <2>1, <1>1, <1>7, <1>8, Restated
<1>10. \A k \in 1..n : q[k] = plan[k]
  BY <1>1, <1>2, <1>6
<1> QED BY <1>7, <1>9, <1>10 DEF n, c, q

-----------------------------------------------------------------------------
(* The steps.  A leaf that is done stays as it is in all of them but one.  *)

Unlost == \A k \in DOMAIN plan : Done(k) => k \in DOMAIN plan' /\ plan'[k] = plan[k]

LEMMA UnlostKeeps == ASSUME PlanInv, Unlost PROVE TopSteps_Kept
BY DEF Unlost, TopSteps_Kept

\* A step that leaves the plan alone.
LEMMA SamePlan ==
    ASSUME PlanInv, UNCHANGED <<plan, index, frontier>>, Ranges', Stage'
    PROVE  PlanInv' /\ TopSteps_Kept
<1>1. Reached(plan', index' + frontier')
  BY DEF PlanInv
<1>2. Unlost
  BY DEF Unlost
<1> QED BY <1>1, <1>2, UnlostKeeps DEF PlanInv

\* Where an answer leads.
LEMMA AnswerLeads ==
    ASSUME Ranges, NEW next, Answer(next)
    PROVE  pc' \in {next, "failed"} /\ round' = 1 /\ finished' = finished
BY DEF Answer, Response, Charge

LEMMA NoPhase ==
    /\ "failed" \notin Structured /\ "done" \notin Structured
    /\ "fallback" \notin Structured /\ "summary" \notin Structured
    /\ "step" \notin Structured
BY DEF Structured

\* Work begins on the leaves of a plan.
LEMMA WorkOnKeeps ==
    ASSUME PlanInv, NEW leaves, NEW from, Reached(leaves, from), from < Len(leaves),
           Answer("step"), WorkOn(leaves, from)
    PROVE  /\ PlanInv'
           /\ \/ plan' = plan
              \/ Len(plan') = Len(leaves) /\ \A k \in 1..from : plan'[k] = leaves[k]
<1>1. pc' \in {"step", "failed"} /\ round' = 1 /\ finished' = finished
  BY AnswerLeads DEF PlanInv
<1>2. CASE pc' = "failed"
  <2>1. UNCHANGED <<plan, index, frontier, attempt, shown>>
    BY <1>2 DEF WorkOn, Progress
  <2>2. Ranges' /\ Stage'
    BY <1>1, <1>2, <2>1, NoPhase DEF PlanInv, Ranges, Stage
  <2> QED BY <2>1, <2>2, SamePlan
<1>3. CASE pc' # "failed"
  <2>1. /\ plan' = Begun(leaves, from + 1)
        /\ index' = from /\ frontier' = 0 /\ attempt' = 1
        /\ shown' = StepShown(PlanShown(leaves))
    BY <1>3 DEF WorkOn
  <2>2. pc' = "step" /\ from \in Nat /\ Len(leaves) \in Nat
    BY <1>1, <1>3, LenProperties DEF Reached
  <2>3. Turned(plan', leaves, from, "in_progress")
    <3>1. "in_progress" \in LeafStatus \ {"completed"}
      BY DEF LeafStatus
    <3>2. Turned([leaves EXCEPT ![from + 1].status = "in_progress"], leaves, from, "in_progress")
      BY <3>1, TurnedIs
    <3> QED BY <3>2, <2>1 DEF Begun
  <2>4. Reached(plan', index' + frontier')
    <3>1. index' + frontier' = from
      BY <2>1, <2>2
    <3> QED BY <3>1, <2>3 DEF Turned
  <2>5. shown' = [started |-> from + 1, total |-> Len(leaves)]
    BY <2>1, CountIs DEF StepShown, PlanShown
  <2>6. Ranges'
    <3>1. 1 \in 0..MaxStepAttempts /\ 1 \in 1..MaxStructured + 1
      OBVIOUS
    <3>2. shown' \in [started : Nat, total : Nat]
      BY <2>2, <2>5
    <3> QED BY <3>1, <3>2, <1>1, <2>1, <2>2, NoPhase DEF PlanInv, Ranges
  <2>7. Active' = from + 1
    BY <2>1, <2>2 DEF Active
  <2>8. Stage'
    <3>1. Active' <= Len(plan') /\ plan'[Active'].status = "in_progress"
      BY <2>2, <2>3, <2>7 DEF Turned
    <3>2. shown'.total = Len(plan') /\ shown'.started \in 1..Active'
      BY <2>2, <2>3, <2>5, <2>7 DEF Turned
    <3> QED BY <3>1, <3>2, <2>2 DEF Stage
  <2> QED BY <2>3, <2>4, <2>6, <2>8 DEF PlanInv, Turned
<1> QED BY <1>2, <1>3

LEMMA BuildPlanKeeps ==
    ASSUME PlanInv, NEW draft \in Drafts, BuildPlan(draft)
    PROVE  PlanInv' /\ TopSteps_Kept
<1> DEFINE leaves == Hydrate(draft, 0)
<1>1. pc = "build" /\ Answer("step") /\ WorkOn(leaves, 0)
  BY DEF BuildPlan
<1>2. /\ leaves \in Seq(LeafRecord) /\ Len(leaves) > 0
      /\ \A k \in 1..Len(leaves) : leaves[k].status = "pending"
      /\ \E m \in Nat : Spans(leaves, 0, m)
  BY HydrateIs
<1> HIDE DEF leaves
<1>3. Len(leaves) \in Nat
  BY <1>2, LenProperties
<1>4. Reached(leaves, 0)
  BY <1>2, <1>3 DEF Reached
<1>5. PlanInv'
  BY <1>1, <1>2, <1>4, WorkOnKeeps
<1>6. plan = << >>
  BY <1>1 DEF PlanInv, Stage
<1> QED BY <1>5, <1>6 DEF TopSteps_Kept

\* What a revision leaves of the plan and what it adds make a plan, on whose first new
\* leaf the work goes on.
LEMMA RevisedIs ==
    ASSUME NEW n, Reached(plan, n), n = index, n + 1 <= Len(plan), NEW draft \in Drafts
    PROVE  /\ Reached(Revised(draft), Len(Kept)) /\ Len(Kept) < Len(Revised(draft))
           /\ \A k \in 1..Len(Kept) : Revised(draft)[k] = plan[k]
<1> DEFINE kept == Kept
           top == plan[n + 1].top
           new == Hydrate(draft, top - 1)
           all == kept \o new
<1>1. /\ plan \in Seq(LeafRecord) /\ n \in Nat /\ n + 1 \in 1..Len(plan) /\ Len(plan) \in Nat
      /\ \A k \in 1..Len(plan) : plan[k].status = "completed" <=> k <= n
  BY LenProperties DEF Reached
<1>2. top \in Nat \ {0} /\ top - 1 \in Nat
  BY <1>1, PlanFacts
<1>3. KeptPart(kept, plan, n, top)
  BY KeptIs
<1>4. /\ new \in Seq(LeafRecord) /\ Len(new) > 0
      /\ \A k \in 1..Len(new) : new[k].status = "pending"
      /\ \E m \in Nat : m >= top - 1 /\ Spans(new, top - 1, m)
  BY <1>2, HydrateIs
<1>5. Revised(draft) = all
  <2>1. TopSteps(Kept) = top - 1
    BY <1>2, <1>3, TopStepsIs DEF KeptPart
  <2> QED BY <2>1 DEF Revised
<1> HIDE DEF kept, new, top
<1>6. kept \in Seq(LeafRecord) /\ Len(kept) \in Nat /\ Len(new) \in Nat
  BY <1>3, <1>4, LenProperties DEF KeptPart
<1>7. /\ all \in Seq(LeafRecord) /\ Len(all) = Len(kept) + Len(new)
      /\ \A i \in 1 .. Len(kept) + Len(new) :
            all[i] = IF i <= Len(kept) THEN kept[i] ELSE new[i - Len(kept)]
  BY <1>4, <1>6, ConcatProperties
<1>8. \E m \in Nat : Spans(all, 0, m)
  <2>1. PICK m \in Nat : m >= top - 1 /\ Spans(new, top - 1, m)
    BY <1>4
  <2>2. Spans(kept, 0, top - 1) /\ 0 <= top - 1 /\ top - 1 <= m
    BY <2>1, <1>2, <1>3 DEF KeptPart
  <2>3. Spans(kept \o new, 0, m)
    BY <2>1, <2>2, <1>2, <1>4, <1>6, Joined
  <2> QED BY <2>3
<1> HIDE DEF all
<1>9. \A k \in 1..Len(kept) : all[k] = plan[k] /\ plan[k].status = "completed"
  <2> TAKE k \in 1..Len(kept)
  <2>1. kept[k] = plan[k] /\ k <= n
    BY <1>1, <1>3, <1>6 DEF KeptPart
  <2>2. all[k] = kept[k]
    BY <1>6, <1>7
  <2>3. k \in 1..Len(plan)
    BY <2>1, <1>1
  <2> QED BY <2>1, <2>2, <2>3, <1>1
<1>10. \A k \in 1..Len(all) : all[k].status = "completed" <=> k <= Len(kept)
  <2> TAKE k \in 1..Len(all)
  <2>1. CASE k <= Len(kept)
    BY <2>1, <1>9, <1>6, <1>7
  <2>2. CASE ~(k <= Len(kept))
    <3>1. k - Len(kept) \in 1..Len(new) /\ all[k] = new[k - Len(kept)]
      BY <2>2, <1>6, <1>7
    <3> QED BY <3>1, <2>2, <1>4
  <2> QED BY <2>1, <2>2
<1>11. Len(kept) \in 0..Len(all) /\ Len(kept) < Len(all)
  BY <1>4, <1>6, <1>7
<1>12. Reached(all, Len(kept))
  BY <1>7, <1>8, <1>10, <1>11 DEF Reached
<1> QED BY <1>5, <1>9, <1>11, <1>12 DEF kept

LEMMA ReplanKeeps ==
    ASSUME PlanInv, NEW draft \in Drafts, Replan(draft)
    PROVE  PlanInv' /\ TopSteps_Kept
<1> DEFINE leaves == Revised(draft)
           from == Len(Kept)
<1>1. /\ pc = "replan" /\ frontier = 0 /\ Active <= Len(plan)
      /\ plan[Active].status = "failed"
  BY DEF Replan, PlanInv, Stage
<1>2. /\ index \in Nat /\ Active = index + 1 /\ index + frontier = index
  BY <1>1 DEF PlanInv, Ranges, Active
<1>3. Reached(plan, index)
  BY <1>2 DEF PlanInv
<1>4. /\ Reached(leaves, from) /\ from < Len(leaves)
      /\ \A k \in 1..from : leaves[k] = plan[k]
  BY <1>1, <1>2, <1>3, RevisedIs
<1>5. KeptPart(Kept, plan, index, plan[index + 1].top)
  BY <1>1, <1>2, <1>3, KeptIs
<1> HIDE DEF leaves, from
<1>6. NextPending(leaves) = from
  BY <1>4, NextPendingIs
<1>7. Answer("step") /\ WorkOn(leaves, from)
  BY <1>6 DEF Replan, leaves
<1>8. /\ PlanInv'
      /\ \/ plan' = plan
         \/ Len(plan') = Len(leaves) /\ \A k \in 1..from : plan'[k] = leaves[k]
  BY <1>4, <1>7, WorkOnKeeps
<1>9. ASSUME NEW k \in DOMAIN plan, \A j \in DOMAIN plan : plan[j].top = plan[k].top => Done(j)
      PROVE  k \in DOMAIN plan' /\ plan'[k] = plan[k]
  <2>1. /\ plan \in Seq(LeafRecord) /\ DOMAIN plan = 1..Len(plan) /\ Len(plan) \in Nat
        /\ \A j \in 1..Len(plan) : plan[j].top \in Nat
        /\ \A j \in 1..Len(plan) : plan[j].status = "completed" <=> j <= index
    BY <1>3, PlanFacts DEF Reached
  <2>2. k \in 1..Len(plan) /\ index + 1 \in 1..Len(plan) /\ k <= index
    BY <2>1, <1>9, <1>1, <1>2 DEF Done
  <2>3. plan[k].top # plan[index + 1].top
    <3>1. ~Done(index + 1)
      BY <1>1, <1>2 DEF Done
    <3> QED BY <3>1, <2>1, <2>2, <1>9
  <2>4. plan[k].top <= plan[index + 1].top
    <3>1. Sorted(plan)
      BY <1>3 DEF Reached, Spans
    <3>2. k < index + 1
      BY <2>2, <1>2
    <3> QED BY <3>1, <3>2, <2>1, <2>2 DEF Sorted
  <2>5. k \in 1..from
    <3>1. plan[k].top < plan[index + 1].top
      BY <2>1, <2>2, <2>3, <2>4
    <3>2. k <= Len(Kept) /\ Len(Kept) \in Nat
      BY <3>1, <2>2, <1>5, LenProperties DEF KeptPart
    <3> QED BY <3>2, <2>2 DEF from
  <2>6. CASE plan' = plan
    BY <2>6
  <2>7. CASE Len(plan') = Len(leaves) /\ \A l \in 1..from : plan'[l] = leaves[l]
    <3>1. plan'[k] = plan[k]
      BY <2>5, <2>7, <1>4
    <3>2. DOMAIN plan' = 1..Len(leaves) /\ Len(leaves) \in Nat
      BY <1>8, <2>7, LenProperties DEF PlanInv, Reached
    <3>3. from \in Nat
      BY <1>4 DEF Reached
    <3> QED BY <3>1, <3>2, <3>3, <2>5, <1>4
  <2> QED BY <2>6, <2>7, <1>8
<1> QED BY <1>8, <1>9 DEF TopSteps_Kept

\* The chat shows numbers.
LEMMA PlanShownIs ==
    ASSUME NEW p, NEW n, Reached(p, n)
    PROVE  PlanShown(p) \in [started : Nat, total : Nat]
<1>1. Count(p) = n /\ n \in Nat /\ Len(p) \in Nat
  BY CountIs, LenProperties DEF Reached
<1> QED BY <1>1 DEF PlanShown

\* The steps within a subtask, and those that only ask again or end the run.
LEMMA OthersKeep ==
    ASSUME PlanInv,
           \/ IterationEnds
           \/ \E text \in BOOLEAN, calls \in Batches : Respond(text, calls)
           \/ \E allowed \in BOOLEAN : CallTool(allowed)
           \/ Garbled
           \/ \E proceed \in BOOLEAN : Gate(proceed)
           \/ JudgeUnheard \/ Close \/ Throw
    PROVE  PlanInv' /\ TopSteps_Kept
<1>0. Ranges /\ Stage
  BY DEF PlanInv
<1>1. CASE IterationEnds
  <2>1. /\ UNCHANGED <<plan, index, frontier, attempt, shown>>
        /\ round' = 1 /\ finished' = FALSE /\ pc \in {"prepare", "step"}
        /\ pc' \in {pc, "gate", "judge", "failed"}
        /\ (pc' = "judge" => pc = "step") /\ (pc' = "gate" => pc = "prepare")
    BY <1>1 DEF IterationEnds, Progress, Charge, Subtasks
  <2>2. Ranges'
    <3>1. 1 \in 1..MaxStructured + 1 /\ 1 <= MaxStructured
      OBVIOUS
    <3>2. finished' \in BOOLEAN
      BY <2>1
    <3> QED BY <1>0, <2>1, <3>1, <3>2 DEF Ranges
  <2>3. Stage'
    BY <1>0, <2>1 DEF Stage, Active
  <2> QED BY <2>1, <2>2, <2>3, SamePlan
<1>2. CASE \/ \E text \in BOOLEAN, calls \in Batches : Respond(text, calls)
           \/ \E allowed \in BOOLEAN : CallTool(allowed)
  <2>1. /\ UNCHANGED <<plan, index, frontier, attempt, shown, round, pc>>
        /\ finished' \in BOOLEAN
    BY <1>2 DEF Respond, CallTool, Progress
  <2>2. Ranges' /\ Stage'
    BY <1>0, <2>1 DEF Ranges, Stage, Active
  <2> QED BY <2>1, <2>2, SamePlan
<1>3. CASE Garbled
  <2>1. /\ UNCHANGED <<plan, index, frontier, attempt, shown, finished>>
        /\ pc \in Structured /\ round' = round + 1
        /\ pc' = "failed" \/ (pc' = pc /\ round < MaxStructured)
    BY <1>3 DEF Garbled, Progress, Response, Charge
  <2>2. Ranges'
    BY <1>0, <2>1, NoPhase DEF Ranges
  <2>3. Stage'
    BY <1>0, <2>1 DEF Stage, Active
  <2> QED BY <2>1, <2>2, <2>3, SamePlan
<1>4. CASE \E proceed \in BOOLEAN : Gate(proceed)
  <2>1. PICK proceed \in BOOLEAN : Gate(proceed)
    BY <1>4
  <2>2. /\ UNCHANGED <<plan, index, frontier, attempt, shown, finished>>
        /\ pc = "gate" /\ round' = 1 /\ pc' \in {"build", "done", "fallback", "failed"}
    BY <2>1 DEF Gate, Progress, Answer, Response, Charge
  <2>3. Ranges' /\ Stage'
    BY <1>0, <2>2 DEF Ranges, Stage
  <2> QED BY <2>2, <2>3, SamePlan
<1>5. CASE JudgeUnheard \/ Throw
  <2>1. /\ UNCHANGED <<plan, index, frontier, attempt, shown, finished>>
        /\ pc' = "failed" /\ round' \in {1, round}
    BY <1>5 DEF JudgeUnheard, Throw, Progress, Answer, Response
  <2>2. Ranges' /\ Stage'
    BY <1>0, <2>1, NoPhase DEF Ranges, Stage
  <2> QED BY <2>1, <2>2, SamePlan
<1>6. CASE Close
  <2>1. /\ UNCHANGED <<plan, index, frontier, attempt, finished>>
        /\ shown' = PlanShown(plan) \/ shown' = shown
        /\ pc' \in {"done", "failed"} /\ round' = 1
    BY <1>6 DEF Close, Progress, Answer, Response, Charge
  <2>2. shown' \in [started : Nat, total : Nat]
    BY <1>0, <2>1, PlanShownIs DEF PlanInv, Ranges
  <2>3. Ranges' /\ Stage'
    BY <1>0, <2>1, <2>2, NoPhase DEF Ranges, Stage
  <2> QED BY <2>1, <2>3, SamePlan
<1> QED BY <1>1, <1>2, <1>3, <1>4, <1>5, <1>6

\* What is true of every judgement.
LEMMA Judged ==
    ASSUME PlanInv, pc = "judge"
    PROVE  /\ plan \in Seq(LeafRecord) /\ Len(plan) \in Nat /\ DOMAIN plan = 1..Len(plan)
           /\ index \in Nat /\ frontier \in Nat /\ index + frontier < Len(plan)
           /\ Active = index + frontier + 1
           /\ \A k \in 1..Len(plan) : Done(k) <=> k <= index + frontier
BY LenProperties DEF PlanInv, Ranges, Reached, Stage, Active, Done

LEMMA AllDoneKeeps ==
    ASSUME PlanInv, NEW report \in Reports, AllDone(report)
    PROVE  PlanInv' /\ TopSteps_Kept
<1>1. /\ pc = "judge" /\ Answer("summary") /\ pc' # "failed"
      /\ index + frontier + Confirmed(report) = Len(plan)
      /\ plan' = Marked(report) /\ index' = Len(plan) /\ frontier' = 0
      /\ shown' = PlanShown(plan') /\ attempt' = attempt
  BY DEF AllDone, Heard
<1>2. pc' = "summary" /\ round' = 1 /\ finished' = finished
  BY <1>1, AnswerLeads DEF PlanInv
<1>3. /\ Reached(plan', Len(plan)) /\ Len(plan') = Len(plan)
      /\ \A k \in 1..index + frontier : plan'[k] = plan[k]
  BY <1>1, MarkedIs
<1>4. index' + frontier' = Len(plan) /\ Len(plan) \in Nat
  BY <1>1, Judged
<1>5. shown' \in [started : Nat, total : Nat]
  BY <1>1, <1>3, PlanShownIs
<1>6. Ranges' /\ Stage'
  BY <1>1, <1>2, <1>4, <1>5, NoPhase DEF PlanInv, Ranges, Stage
<1>7. DOMAIN plan' = DOMAIN plan
  BY <1>1, <1>3, Judged, LenProperties DEF Reached
<1>8. Unlost
  BY <1>1, <1>3, <1>7, Judged DEF Unlost
<1> QED BY <1>3, <1>4, <1>6, <1>8, UnlostKeeps DEF PlanInv

LEMMA SomeDoneKeeps ==
    ASSUME PlanInv, NEW report \in Reports, SomeDone(report)
    PROVE  PlanInv' /\ TopSteps_Kept
<1> DEFINE n == index + frontier
           c == Confirmed(report)
<1>1. /\ pc = "judge" /\ Answer("step") /\ pc' # "failed"
      /\ c > 0 /\ n + c < Len(plan)
      /\ frontier' = frontier + c /\ plan' = Begun(Marked(report), index + frontier' + 1)
      /\ attempt' = 1 /\ shown' = StepShown(shown) /\ index' = index
  BY DEF SomeDone, Heard
<1>2. pc' = "step" /\ round' = 1 /\ finished' = finished
  BY <1>1, AnswerLeads DEF PlanInv
<1>3. /\ Reached(Marked(report), n + c) /\ Len(Marked(report)) = Len(plan)
      /\ \A k \in 1..n : Marked(report)[k] = plan[k]
  BY MarkedIs
<1>4. /\ c \in Nat /\ n \in Nat /\ index \in Nat /\ frontier \in Nat /\ Len(plan) \in Nat
      /\ DOMAIN plan = 1..Len(plan) /\ Active = n + 1
      /\ \A k \in 1..Len(plan) : Done(k) <=> k <= n
  BY <1>1, Judged, ConfirmedIs
<1>5. index' + frontier' = n + c /\ index + frontier' + 1 = (n + c) + 1
  BY <1>1, <1>4
<1> HIDE DEF c
<1>6. Turned(plan', Marked(report), n + c, "in_progress")
  <2>1. "in_progress" \in LeafStatus \ {"completed"} /\ n + c < Len(Marked(report))
    BY <1>1, <1>3 DEF LeafStatus
  <2>2. plan' = [Marked(report) EXCEPT ![(n + c) + 1].status = "in_progress"]
    BY <1>1, <1>5 DEF Begun
  <2> HIDE DEF n
  <2> QED BY <2>1, <2>2, <1>3, TurnedIs
<1>7. /\ Reached(plan', n + c) /\ Len(plan') = Len(plan)
      /\ plan'[(n + c) + 1].status = "in_progress"
      /\ \A k \in 1..n : plan'[k] = plan[k]
  BY <1>3, <1>4, <1>6 DEF Turned
<1>8. Active' = (n + c) + 1
  BY <1>5 DEF Active
<1>9. /\ shown \in [started : Nat, total : Nat]
      /\ shown.total = Len(plan) /\ shown.started \in 1..n + 1
  BY <1>1, <1>4 DEF PlanInv, Ranges, Stage
<1>10. shown' = [started |-> shown.started + 1, total |-> shown.total]
  BY <1>1, <1>9 DEF StepShown
<1> HIDE DEF n
<1>11. Ranges'
  <2>1. 1 \in 0..MaxStepAttempts /\ 1 \in 1..MaxStructured + 1 /\ frontier' \in Nat
    BY <1>1, <1>4
  <2>2. shown' \in [started : Nat, total : Nat]
    BY <1>9, <1>10
  <2> QED BY <2>1, <2>2, <1>1, <1>2, <1>4, NoPhase DEF PlanInv, Ranges
<1>12. Stage'
  <2>1. Active' <= Len(plan') /\ plan'[Active'].status = "in_progress"
    BY <1>1, <1>4, <1>7, <1>8
  <2>2. shown'.total = Len(plan') /\ shown'.started \in 1..Active'
    BY <1>1, <1>4, <1>7, <1>8, <1>9, <1>10
  <2> QED BY <2>1, <2>2, <1>2 DEF Stage
<1>13. DOMAIN plan' = DOMAIN plan
  BY <1>4, <1>7, LenProperties DEF Reached
<1>14. Unlost
  BY <1>4, <1>7, <1>13 DEF Unlost
<1>15. Reached(plan', index' + frontier')
  BY <1>5, <1>7
<1> QED BY <1>11, <1>12, <1>14, <1>15, UnlostKeeps DEF PlanInv

LEMMA WaitsKeeps ==
    ASSUME PlanInv, NEW report \in Reports, Waits(report)
    PROVE  PlanInv' /\ TopSteps_Kept
<1>1. PICK next \in {"done", "fallback"} :
        /\ pc = "judge" /\ Answer(next) /\ pc' # "failed"
        /\ index' = index + frontier /\ frontier' = 0
        /\ shown' = PlanShown(plan) \/ shown' = shown
        /\ plan' = plan /\ attempt' = attempt
  BY DEF Waits, Heard
<1>2. pc' \in {"done", "fallback"} /\ round' = 1 /\ finished' = finished
  BY <1>1, AnswerLeads DEF PlanInv
<1>3. index' + frontier' = index + frontier /\ index + frontier \in Nat
  BY <1>1, Judged
<1>4. shown' \in [started : Nat, total : Nat]
  BY <1>1, PlanShownIs DEF PlanInv, Ranges
<1>5. Ranges' /\ Stage'
  BY <1>1, <1>2, <1>3, <1>4, NoPhase DEF PlanInv, Ranges, Stage
<1>6. Unlost
  BY <1>1 DEF Unlost
<1>7. Reached(plan', index' + frontier')
  BY <1>1, <1>3 DEF PlanInv
<1> QED BY <1>5, <1>6, <1>7, UnlostKeeps DEF PlanInv

LEMMA LeafFailsKeeps ==
    ASSUME PlanInv, pc = "judge", Heard("replan"), LeafFails
    PROVE  PlanInv' /\ TopSteps_Kept
<1> DEFINE n == index + frontier
<1>1. /\ Answer("replan") /\ pc' # "failed"
      /\ plan' = [plan EXCEPT ![n + 1].status = "failed"]
      /\ index' = n /\ frontier' = 0 /\ attempt' = attempt /\ shown' = shown
  BY DEF Heard, LeafFails, Active
<1>2. pc' = "replan" /\ round' = 1 /\ finished' = finished
  BY <1>1, AnswerLeads DEF PlanInv
<1>3. /\ n \in Nat /\ n < Len(plan) /\ Len(plan) \in Nat /\ DOMAIN plan = 1..Len(plan)
      /\ \A k \in 1..Len(plan) : Done(k) <=> k <= n
  BY Judged
<1>4. Reached(plan, n)
  BY DEF PlanInv
<1> HIDE DEF n
<1>5. Turned(plan', plan, n, "failed")
  <2>1. "failed" \in LeafStatus \ {"completed"}
    BY DEF LeafStatus
  <2> QED BY <2>1, <1>1, <1>3, <1>4, TurnedIs
<1>6. index' + frontier' = n /\ Active' = n + 1
  BY <1>1, <1>3 DEF Active
<1>7. Ranges'
  <2>1. 1 \in 1..MaxStructured + 1 /\ 1 <= MaxStructured
    OBVIOUS
  <2> QED BY <2>1, <1>1, <1>2, <1>3 DEF PlanInv, Ranges
<1>8. Stage'
  <2>1. Active' <= Len(plan') /\ plan'[Active'].status = "failed"
    BY <1>3, <1>5, <1>6 DEF Turned
  <2> QED BY <2>1, <1>1, <1>2 DEF Stage
<1>9. DOMAIN plan' = DOMAIN plan
  BY <1>1
<1>10. Unlost
  BY <1>3, <1>5, <1>9 DEF Unlost, Turned
<1>11. Reached(plan', index' + frontier')
  BY <1>5, <1>6 DEF Turned
<1> QED BY <1>7, <1>8, <1>10, <1>11, UnlostKeeps DEF PlanInv

LEMMA IncompleteKeeps ==
    ASSUME PlanInv, NEW report \in Reports, Incomplete(report)
    PROVE  PlanInv' /\ TopSteps_Kept
<1>1. CASE attempt < MaxStepAttempts
  <2>1. /\ pc = "judge" /\ Answer("step") /\ pc' # "failed"
        /\ attempt' = attempt + 1 /\ UNCHANGED <<plan, index, frontier, shown>>
    BY <1>1 DEF Incomplete, Heard
  <2>2. pc' = "step" /\ round' = 1 /\ finished' = finished
    BY <2>1, AnswerLeads DEF PlanInv
  <2>3. Ranges'
    BY <1>1, <2>1, <2>2, NoPhase DEF PlanInv, Ranges
  <2>4. Stage'
    BY <2>1, <2>2 DEF PlanInv, Stage, Active
  <2> QED BY <2>1, <2>3, <2>4, SamePlan
<1>2. CASE ~(attempt < MaxStepAttempts)
  BY <1>2, LeafFailsKeeps DEF Incomplete
<1> QED BY <1>1, <1>2

-----------------------------------------------------------------------------
LEMMA PlanStep ==
    ASSUME PlanInv, [Next]_vars
    PROVE  PlanInv' /\ TopSteps_Kept
<1>1. CASE Subtask
  BY <1>1, OthersKeep DEF Subtask
<1>2. CASE Planning
  BY <1>2, OthersKeep, BuildPlanKeeps, ReplanKeeps DEF Planning
<1>3. CASE Judge
  <2>1. CASE JudgeUnheard
    BY <2>1, OthersKeep
  <2>2. ASSUME NEW report \in Reports, FailedStep(report) PROVE PlanInv' /\ TopSteps_Kept
    BY <2>2, LeafFailsKeeps DEF FailedStep
  <2> QED
    BY <1>3, <2>1, <2>2, AllDoneKeeps, SomeDoneKeeps, WaitsKeeps, IncompleteKeeps DEF Judge
<1>4. CASE Close \/ Throw
  BY <1>4, OthersKeep
<1>5. CASE UNCHANGED vars
  <2>1. UNCHANGED <<pc, plan, index, frontier, attempt, round, finished, shown>>
    BY <1>5 DEF vars
  <2>2. Ranges' /\ Stage'
    BY <2>1 DEF PlanInv, Ranges, Stage, Active
  <2> QED BY <2>1, <2>2, SamePlan
<1> QED BY <1>1, <1>2, <1>3, <1>4, <1>5 DEF Next

LEMMA PlanInitially == Init => PlanInv
<1> SUFFICES ASSUME Init PROVE PlanInv
  OBVIOUS
<1>1. pc = "prepare" /\ plan = << >> /\ index = 0 /\ frontier = 0
  BY DEF Init
<1>2. Spans(<< >>, 0, 0)
  BY EmptySeq DEF Spans, Sorted
<1>3. Reached(<< >>, 0)
  BY <1>2, EmptySeq DEF Reached
<1>4. Ranges
  <2>1. attempt = 0 /\ round = 1 /\ 0 \in 0..MaxStepAttempts /\ 1 \in 1..MaxStructured + 1
    BY DEF Init
  <2>2. finished \in BOOLEAN
    BY DEF Init
  <2>3. shown \in [started : Nat, total : Nat]
    BY DEF Init
  <2> QED BY <1>1, <2>1, <2>2, <2>3 DEF Ranges, Structured
<1>5. Stage
  BY <1>1 DEF Stage
<1> QED BY <1>1, <1>3, <1>4, <1>5 DEF PlanInv

THEOREM PlanInvariance == Spec => []PlanInv
<1>1. PlanInv /\ [Next]_vars => PlanInv'
  BY PlanStep
<1> QED BY <1>1, PlanInitially, PTL DEF Spec

\* The plan, the position in it, the ids of its leaves and what the chat shows agree,
\* for every draft the model may write and every judgement it may give: no leaf is
\* skipped or worked on twice (PlanAndExecuteStrategy.ts:93-125, 294-324).
THEOREM PlanStaysTrue == Spec => []PlanIsTrue
<1>1. IInv /\ PlanInv => PlanIsTrue
  <2> SUFFICES ASSUME IInv, PlanInv PROVE PlanIsTrue
    OBVIOUS
  <2>1. /\ plan \in Seq(LeafRecord) /\ Len(plan) \in Nat /\ DOMAIN plan = 1..Len(plan)
        /\ index \in Nat /\ frontier \in Nat /\ index + frontier <= Len(plan)
        /\ \A k \in 1..Len(plan) : plan[k].status = "completed" <=> k <= index + frontier
    BY LenProperties DEF PlanInv, Ranges, Reached
  <2>2. \A k \in 1..Len(plan) : /\ plan[k].top \in Nat \ {0} /\ plan[k].sub \in Nat
                                /\ plan[k].status \in LeafStatus
    BY <2>1, PlanFacts
  <2>3. TypeOK
    <3>1. pc \in Phases /\ open \in BOOLEAN /\ told \in BOOLEAN
          /\ limits \in Limits /\ budget \in [iterations : Nat, calls : Nat]
      BY DEF IInv, Shape
    <3>2. index \in 0 .. Len(plan) /\ frontier \in 0 .. Len(plan)
      BY <2>1
    <3> QED BY <2>1, <2>2, <3>1, <3>2 DEF TypeOK, PlanInv, Ranges, Phases
  <2>4. FrontierIsReal
    <3>1. pc \in {"step", "judge", "replan"} => Active \in DOMAIN plan
      BY <2>1 DEF PlanInv, Stage, Active
    <3> QED BY <2>1, <3>1 DEF PlanInv, Stage, FrontierIsReal, Done
  <2>5. IdsAreDistinct
    <3> SUFFICES ASSUME NEW i \in 1..Len(plan), NEW j \in 1..Len(plan),
                        Id(plan[i]) = Id(plan[j]), i # j
                 PROVE  FALSE
      BY <2>1 DEF IdsAreDistinct
    <3>1. plan[i].top = plan[j].top /\ plan[i].sub = plan[j].sub
      BY DEF Id
    <3>2. Sorted(plan)
      BY DEF PlanInv, Reached, Spans
    <3>3. i < j \/ j < i
      BY <2>1
    <3> QED BY <2>2, <3>1, <3>2, <3>3 DEF Sorted
  <2>6. ShownIsReached
    BY DEF PlanInv, Stage, ShownIsReached
  <2> QED BY <2>3, <2>4, <2>5, <2>6 DEF PlanIsTrue
<1> QED BY <1>1, Invariance, PlanInvariance, PTL

\* A top level step all of whose leaves are done stays in every later plan, where it
\* was and with its results (replan, PlanAndExecuteStrategy.ts:226-252).
THEOREM TopStepsStay == Spec => CompletedTopStepsKept
<1>1. PlanInv /\ [Next]_vars => [TopSteps_Kept]_vars
  BY PlanStep
<1> QED BY <1>1, PlanInvariance, PTL DEF Spec, CompletedTopStepsKept
=============================================================================
