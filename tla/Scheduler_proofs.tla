-------------------------- MODULE Scheduler_proofs --------------------------
(***************************************************************************)
(* The Scheduler for any number of tasks, operations, firings, crashes and *)
(* deletions: TaskRun first, then TaskSchedule.                            *)
(*                                                                         *)
(* TaskRun's invariant says what an execution may rely on in each phase     *)
(* (RunOK): that its record has no outcome yet, that what it said is in the *)
(* chat, that the session it works in is the one of its task, and that its  *)
(* task is gone only if the deletion has seen it.  That of TaskSchedule     *)
(* says what an operation on the tasks' file brings about (OnItsWay), and   *)
(* that no entry is due for what was fired or forbidden (Obeyed).           *)
(***************************************************************************)
EXTENDS TaskRun, TaskSchedule, SequenceTheorems, FiniteSetTheorems, TLAPS

Final(r) == Recorded(r) /\ record[r].status \in Finals
Said(x) == x.status = "completed" /\ x.outcome # "skip" /\ x.task \notin Silent

InMemory(r) == r \in chat.memory
\* Nobody who wrote alone is missing in the file, nor in what is being written to it.
InFile(r) ==
    r \notin met => /\ chat.disk \notin {None, Torn} => r \in chat.disk
                    /\ \A w \in Runs : copy[w] # None => r \in copy[w]
Saving == \E q \in Live : exec[q].phase = "save"

\* What holds of run r when its execution is at e.
RunOK(r, e) ==
    /\ r <= fires
    /\ e.status # "interrupted"
    /\ e.phase = "create" => record[r] = None
    /\ Recorded(r) => record[r].task = e.task
    /\ e.phase # "prune" => ~Final(r)
    /\ e.phase = "prune" => r \notin Unsettled
    /\ e.phase \in {"check", "save", "saving"} => InMemory(r)
    /\ e.phase = "saving" => InFile(r)
    /\ e.phase \in {"channel", "find", "write"} /\ Said(e) => InMemory(r) /\ InFile(r)
    /\ e.task \in Persistent /\ e.phase \in {"send", "stream"} => e.session # None
    /\ e.task \in Persistent \ dropped /\ e.session # None => e.session = own[e.task]
    /\ e.task \notin tasks => r \in caught[e.task]

\* What a record that is there says: a chat that is gone comes back only if somebody is
\* about to write it, and then with all that was said in it.
RecordOK(r) ==
    /\ r <= fires
    /\ record[r].status = "interrupted" => r \in killed \cup threw
    /\ Said(record[r]) =>
         /\ InFile(r)
         /\ r \notin met /\ (chat.disk # None \/ Saving) => InMemory(r)

WrittenIsThere == \A w \in Runs : copy[w] # None => chat.disk # None

Alone ==
    \A r, q \in Live :
        /\ exec[r].task \in Persistent \ dropped /\ exec[q].task = exec[r].task
        /\ exec[r].phase = "stream" /\ exec[q].phase = "stream"
        => r = q

Down ==
    up # "on" => /\ Live = {} /\ \A t \in Tasks : deletion[t] = "none"
                 /\ Unsettled \subseteq killed \cup threw

\* What is left of a deleted task, while it is deleted and afterwards.
Cleaned(t) ==
    /\ t \notin Persistent => own[t] = None /\ t \notin ownFile
    /\ t \notin tasks \cup killed =>
         /\ deletion[t] = "none" => RecordsOf(t) \subseteq caught[t]
         /\ caught[t] = {} => own[t] = None /\ (deletion[t] # "session" => t \notin ownFile)

IInv ==
    /\ TypeOK
    /\ \A r \in Live : RunOK(r, exec[r])
    /\ \A r \in Runs : Recorded(r) => RecordOK(r)
    /\ WrittenIsThere /\ Alone /\ Down /\ RunningIsUnderWay
    /\ \A r \in Runs : r > fires => record[r] = None
    /\ ownFile # {} => fires > 0
    /\ \A t \in Tasks : Cleaned(t)
    /\ HistoryBounded

-----------------------------------------------------------------------------
(***************************************************************************)
(* Basics.                                                                 *)
(***************************************************************************)
LEMMA Bounds ==
    /\ MaxRuns \in Nat /\ MaxCrashes \in Nat /\ MaxDeletes \in Nat /\ Keep \in Nat \ {0}
    /\ None # Torn /\ None \notin Nat /\ Torn \notin Nat
    /\ Workflow \subseteq Tasks /\ Persistent \subseteq Tasks /\ Silent \subseteq Tasks
    /\ Workflow \cap Persistent = {}
  BY TaskRunAssumption

LEMMA LiveIsExec ==
    ASSUME TypeOK, NEW r \in Live
    PROVE  r \in Runs /\ exec[r] \in Exec /\ exec[r].task \in Tasks /\ exec[r] # Idle
  BY DEF TypeOK, Live, Exec

LEMMA ExecIsLive == \A x \in Exec : x # Idle /\ x.phase # "idle"
  BY DEF Exec, Idle, Phases

LEMMA RecordedIsRecord ==
    ASSUME TypeOK, NEW r \in Runs, Recorded(r)
    PROVE  record[r] \in Record /\ record[r].task \in Tasks
  BY DEF TypeOK, Recorded, Record

-----------------------------------------------------------------------------
(***************************************************************************)
(* Steps of an execution that touch nothing but it.                        *)
(***************************************************************************)
LEMMA Goes ==
    ASSUME IInv, up = "on", NEW r \in Live, NEW new \in Exec, new.task = exec[r].task,
           exec' = [exec EXCEPT ![r] = new], RunOK(r, new),
           new.phase = "save" => chat.disk # None,
           new.phase = "stream" /\ new.task \in Persistent \ dropped =>
               \A q \in Live : exec[q].task = new.task /\ exec[q].phase = "stream" => q = r,
           UNCHANGED <<process, asked, tasks, record, sessions, deletion, history>>
    PROVE  IInv'
<1>1. /\ UNCHANGED <<up, crashes, fires, deletes, tasks, record, own, ownFile, chat, copy, deletion>>
      /\ UNCHANGED <<threw, killed, caught, dropped, early, met>>
  BY DEF process, asked, sessions, history
<1>2. r \in Runs /\ exec[r] \in Exec /\ exec \in [Runs -> Exec \cup {Idle}]
  BY LiveIsExec DEF IInv, TypeOK
<1>3. exec'[r] = new /\ \A q \in Runs \ {r} : exec'[q] = exec[q]
  BY <1>2
<1>4. Live' = Live
  BY <1>2, <1>3, ExecIsLive DEF Live
<1>5. TypeOK'
  BY <1>1, <1>2 DEF IInv, TypeOK
<1>6. /\ Unsettled' = Unsettled /\ \A q \in Runs : Recorded(q)' = Recorded(q) /\ Final(q)' = Final(q)
      /\ \A t \in Tasks : RecordsOf(t)' = RecordsOf(t)
  BY <1>1 DEF Unsettled, Recorded, Final, RecordsOf
<1>7. \A q \in Live' : RunOK(q, exec[q])'
  <2>1. SUFFICES ASSUME NEW q \in Live PROVE RunOK(q, exec[q])'
    BY <1>4
  <2>2. RunOK(q, exec'[q])
    <3>1. CASE q = r
      BY <3>1, <1>3
    <3>2. CASE q # r
      BY <3>2, <1>3, LiveIsExec DEF IInv
    <3> QED BY <3>1, <3>2
  <2> QED BY <2>2, <1>1, <1>6, LiveIsExec DEF IInv, RunOK, InMemory, InFile
<1>8. Saving' => Saving \/ chat.disk # None
  BY <1>3, <1>4, LiveIsExec DEF IInv, Saving
<1>9. \A q \in Runs : Recorded(q)' => RecordOK(q)'
  BY <1>1, <1>6, <1>8 DEF IInv, RecordOK, InMemory, InFile
<1>10. Alone'
  <2>1. SUFFICES ASSUME NEW q1 \in Live, NEW q2 \in Live,
                        exec'[q1].task \in Persistent \ dropped, exec'[q2].task = exec'[q1].task,
                        exec'[q1].phase = "stream", exec'[q2].phase = "stream"
                 PROVE  q1 = q2
    BY <1>1, <1>4 DEF Alone
  <2>2. \A q \in Live \ {r} : exec'[q] = exec[q]
    BY <1>3, LiveIsExec DEF IInv
  <2>3. CASE q1 = r \/ q2 = r
    BY <2>1, <2>2, <2>3, <1>3
  <2>4. CASE q1 # r /\ q2 # r
    BY <2>1, <2>2, <2>4 DEF IInv, Alone
  <2> QED BY <2>3, <2>4
<1>11. WrittenIsThere' /\ Down' /\ RunningIsUnderWay'
  BY <1>1, <1>4, <1>6 DEF IInv, WrittenIsThere, Down, RunningIsUnderWay
<1>12. \A t \in Tasks : Cleaned(t)'
  BY <1>1, <1>6 DEF IInv, Cleaned
<1>13. HistoryBounded'
  BY <1>1, <1>4, <1>6 DEF IInv, HistoryBounded
<1> QED BY <1>1, <1>5, <1>7, <1>9, <1>10, <1>11, <1>12, <1>13 DEF IInv

\* An execution throws: its record stays as it is.
LEMMA Ends ==
    ASSUME IInv, up = "on", NEW r \in Live, Throw(r),
           UNCHANGED <<process, asked, tasks, record, sessions, deletion, killed, caught, dropped, early, met>>
    PROVE  IInv'
<1>1. UNCHANGED <<up, crashes, fires, deletes, tasks, record, own, ownFile, chat, copy, deletion,
                  killed, caught, dropped, early, met>>
  BY DEF process, asked, sessions
<1>2. r \in Runs /\ exec \in [Runs -> Exec \cup {Idle}] /\ threw' = threw \cup {r}
  BY LiveIsExec DEF IInv, TypeOK, Throw
<1>3. exec'[r] = Idle /\ \A q \in Runs \ {r} : exec'[q] = exec[q]
  BY <1>2 DEF Throw
<1>4. Live' = Live \ {r}
  BY <1>3 DEF Live
<1>5. TypeOK'
  <2>1. exec' \in [Runs -> Exec \cup {Idle}]
    BY <1>2 DEF Throw
  <2> QED BY <2>1, <1>1, <1>2 DEF IInv, TypeOK
<1>6. /\ Unsettled' = Unsettled /\ \A q \in Runs : Recorded(q)' = Recorded(q) /\ Final(q)' = Final(q)
      /\ \A t \in Tasks : RecordsOf(t)' = RecordsOf(t)
  BY <1>1 DEF Unsettled, Recorded, Final, RecordsOf
<1>7. \A q \in Live' : RunOK(q, exec[q])'
  <2>1. SUFFICES ASSUME NEW q \in Live \ {r} PROVE RunOK(q, exec[q])'
    BY <1>4
  <2>2. RunOK(q, exec'[q])
    BY <1>3, LiveIsExec DEF IInv
  <2> QED BY <2>2, <1>1, <1>6, LiveIsExec DEF IInv, RunOK, InMemory, InFile
<1>8. Saving' => Saving
  BY <1>3, <1>4, LiveIsExec DEF IInv, Saving
<1>9. \A q \in Runs : Recorded(q)' => RecordOK(q)'
  BY <1>1, <1>2, <1>6, <1>8 DEF IInv, RecordOK, InMemory, InFile
<1>10. Alone'
  <2>1. \A q \in Live \ {r} : exec'[q] = exec[q]
    BY <1>3, LiveIsExec DEF IInv
  <2> QED BY <2>1, <1>1, <1>4 DEF IInv, Alone
<1>11. WrittenIsThere' /\ Down' /\ RunningIsUnderWay'
  BY <1>1, <1>2, <1>4, <1>6 DEF IInv, WrittenIsThere, Down, RunningIsUnderWay
<1>12. \A t \in Tasks : Cleaned(t)'
  BY <1>1, <1>6 DEF IInv, Cleaned
<1>13. HistoryBounded'
  <2>1. (Live \cup early \cup threw \cup killed)' = Live \cup early \cup threw \cup killed
    BY <1>1, <1>2, <1>4
  <2> QED BY <2>1, <1>6 DEF IInv, HistoryBounded
<1> QED BY <1>1, <1>5, <1>7, <1>9, <1>10, <1>11, <1>12, <1>13 DEF IInv

\* The execution at its next phase.
LEMMA GoIs ==
    ASSUME TypeOK, NEW r \in Live, NEW phase \in Phases, Go(r, phase)
    PROVE  \E new \in Exec :
             /\ exec' = [exec EXCEPT ![r] = new]
             /\ new.phase = phase /\ new.task = exec[r].task /\ new.session = exec[r].session
             /\ new.status = exec[r].status /\ new.outcome = exec[r].outcome
             /\ new.early = exec[r].early
<1> DEFINE new == [exec[r] EXCEPT !.phase = phase]
<1>1. r \in Runs /\ exec[r] \in Exec
  BY LiveIsExec
<1>2. /\ new \in Exec /\ new.phase = phase /\ new.task = exec[r].task /\ new.session = exec[r].session
      /\ new.status = exec[r].status /\ new.outcome = exec[r].outcome /\ new.early = exec[r].early
  BY <1>1 DEF Exec
<1>3. exec' = [exec EXCEPT ![r] = new]
  BY <1>1 DEF Go
<1> QED BY <1>2, <1>3

\* The execution with what its record will say.
LEMMA SettleIs ==
    ASSUME TypeOK, NEW r \in Live, NEW phase \in Phases, NEW status \in Finals, NEW outcome \in Outcomes,
           Settle(r, phase, status, outcome)
    PROVE  \E new \in Exec :
             /\ exec' = [exec EXCEPT ![r] = new]
             /\ new.phase = phase /\ new.task = exec[r].task /\ new.session = exec[r].session
             /\ new.status = status /\ new.outcome = outcome
<1> DEFINE new == [exec[r] EXCEPT !.phase = phase, !.status = status, !.outcome = outcome]
<1>1. r \in Runs /\ exec[r] \in Exec
  BY LiveIsExec
<1>2. /\ new \in Exec /\ new.phase = phase /\ new.task = exec[r].task /\ new.session = exec[r].session
      /\ new.status = status /\ new.outcome = outcome
  BY <1>1 DEF Exec
<1>3. exec' = [exec EXCEPT ![r] = new]
  BY <1>1 DEF Settle
<1> QED BY <1>2, <1>3

LEMMA RefuseIs ==
    ASSUME TypeOK, NEW r \in Live, Refuse(r)
    PROVE  \E new \in Exec :
             /\ exec' = [exec EXCEPT ![r] = new]
             /\ new.phase = "find" /\ new.task = exec[r].task /\ new.session = exec[r].session
             /\ new.status = "failed"
<1> DEFINE new == [exec[r] EXCEPT !.phase = "find", !.status = "failed", !.outcome = "error",
                                  !.early = TRUE]
<1>1. r \in Runs /\ exec[r] \in Exec
  BY LiveIsExec
<1>2. /\ new \in Exec /\ new.phase = "find" /\ new.task = exec[r].task
      /\ new.session = exec[r].session /\ new.status = "failed"
  BY <1>1 DEF Exec, Phases, Finals, Outcomes
<1>3. exec' = [exec EXCEPT ![r] = new]
  BY <1>1 DEF Refuse
<1> QED BY <1>2, <1>3

\* What the invariant says of an execution that is at a phase.
LEMMA AtIs ==
    ASSUME IInv, NEW r \in Runs, NEW phase, At(r, phase)
    PROVE  up = "on" /\ r \in Live /\ exec[r] \in Exec /\ exec[r].phase = phase /\ RunOK(r, exec[r])
  BY LiveIsExec DEF IInv, At

\* The steps of an execution that wait or decide.
LEMMA DecisionKeeps ==
    ASSUME IInv, NEW r \in Runs,
           \/ ResolveDestination(r) \/ Send(r) \/ StreamEnds(r) \/ CheckChat(r)
           \/ ChannelSend(r) \/ FindRecord(r)
    PROVE  IInv'
<1> USE DEF Phases, Finals, Outcomes
<1>1. CASE ResolveDestination(r)
  <2>1. /\ up = "on" /\ r \in Live /\ exec[r] \in Exec /\ exec[r].phase = "resolve"
        /\ RunOK(r, exec[r])
    BY <1>1, AtIs DEF ResolveDestination
  <2>2. UNCHANGED <<process, asked, tasks, record, sessions, deletion, history>>
    BY <1>1 DEF ResolveDestination
  <2>3. CASE Refuse(r)
    <3>1. PICK new \in Exec :
             /\ exec' = [exec EXCEPT ![r] = new]
             /\ new.phase = "find" /\ new.task = exec[r].task /\ new.session = exec[r].session
             /\ new.status = "failed"
      BY <2>1, <2>3, RefuseIs DEF IInv
    <3>2. RunOK(r, new)
      BY <2>1, <3>1 DEF RunOK, Said
    <3> QED BY <2>1, <2>2, <3>1, <3>2, Goes
  <2>4. CASE exec[r].task \in Workflow /\ Go(r, "stream")
    <3>1. PICK new \in Exec :
             /\ exec' = [exec EXCEPT ![r] = new]
             /\ new.phase = "stream" /\ new.task = exec[r].task /\ new.session = exec[r].session
             /\ new.status = exec[r].status
      BY <2>1, <2>4, GoIs DEF IInv
    <3>2. RunOK(r, new) /\ new.task \notin Persistent
      BY <2>1, <2>4, <3>1, Bounds DEF RunOK
    <3> QED BY <2>1, <2>2, <3>1, <3>2, Goes
  <2>5. CASE Go(r, "session")
    <3>1. PICK new \in Exec :
             /\ exec' = [exec EXCEPT ![r] = new]
             /\ new.phase = "session" /\ new.task = exec[r].task /\ new.session = exec[r].session
             /\ new.status = exec[r].status
      BY <2>1, <2>5, GoIs DEF IInv
    <3>2. RunOK(r, new)
      BY <2>1, <3>1 DEF RunOK
    <3> QED BY <2>1, <2>2, <3>1, <3>2, Goes
  <2> QED BY <1>1, <2>3, <2>4, <2>5 DEF ResolveDestination
<1>2. CASE Send(r)
  <2>1. /\ up = "on" /\ r \in Live /\ exec[r] \in Exec /\ exec[r].phase = "send"
        /\ RunOK(r, exec[r])
    BY <1>2, AtIs DEF Send
  <2>2. UNCHANGED <<process, asked, tasks, record, sessions, deletion, history>>
    BY <1>2 DEF Send
  <2>3. CASE \E q \in Live : exec[q].phase = "stream" /\ exec[q].session = exec[r].session
    <3>1. PICK new \in Exec :
             /\ exec' = [exec EXCEPT ![r] = new]
             /\ new.phase = "find" /\ new.task = exec[r].task /\ new.session = exec[r].session
             /\ new.status = "skipped" /\ new.outcome = "skip"
      BY <1>2, <2>1, <2>3, SettleIs DEF IInv, Send
    <3>2. RunOK(r, new)
      BY <2>1, <3>1 DEF RunOK, Said
    <3> QED BY <2>1, <2>2, <3>1, <3>2, Goes
  <2>4. CASE ~\E q \in Live : exec[q].phase = "stream" /\ exec[q].session = exec[r].session
    <3>1. PICK new \in Exec :
             /\ exec' = [exec EXCEPT ![r] = new]
             /\ new.phase = "stream" /\ new.task = exec[r].task /\ new.session = exec[r].session
             /\ new.status = exec[r].status
      BY <1>2, <2>1, <2>4, GoIs DEF IInv, Send
    <3>2. RunOK(r, new)
      BY <2>1, <3>1 DEF RunOK
    <3>3. ASSUME new.task \in Persistent \ dropped, NEW q \in Live, exec[q].task = new.task,
                 exec[q].phase = "stream"
          PROVE  q = r
      <4>1. exec[r].session = own[new.task]
        BY <2>1, <3>1, <3>3 DEF RunOK
      <4>2. exec[q].session = own[new.task]
        BY <3>3 DEF IInv, RunOK
      <4> QED BY <2>4, <3>3, <4>1, <4>2
    <3> QED BY <2>1, <2>2, <3>1, <3>2, <3>3, Goes
  <2> QED BY <2>3, <2>4
<1>3. CASE StreamEnds(r)
  <2>1. /\ up = "on" /\ r \in Live /\ exec[r] \in Exec /\ exec[r].phase = "stream"
        /\ RunOK(r, exec[r])
    BY <1>3, AtIs DEF StreamEnds
  <2>2. CASE Throw(r)
    BY <1>3, <2>1, <2>2, Ends DEF StreamEnds
  <2>3. CASE ~Throw(r)
    <3>1. UNCHANGED <<process, asked, tasks, record, sessions, deletion, history>>
      BY <1>3, <2>3 DEF StreamEnds, history
    <3>2. PICK status \in {"completed", "failed"}, outcome \in Outcomes :
             Settle(r, IF HasChat(r) THEN "deliver" ELSE "find", status, outcome)
      <4>1. CASE HasChat(r)
        BY <1>3, <2>3, <4>1 DEF StreamEnds
      <4>2. CASE ~HasChat(r)
        BY <1>3, <2>3, <4>2 DEF StreamEnds
      <4> QED BY <4>1, <4>2
    <3>3. PICK new \in Exec :
             /\ exec' = [exec EXCEPT ![r] = new]
             /\ new.phase = (IF HasChat(r) THEN "deliver" ELSE "find")
             /\ new.task = exec[r].task /\ new.session = exec[r].session
             /\ new.status = status /\ new.outcome = outcome
      BY <2>1, <3>2, SettleIs DEF IInv
    <3>4. RunOK(r, new)
      BY <2>1, <3>3 DEF RunOK, Said, HasChat
    <3> QED BY <2>1, <3>1, <3>3, <3>4, Goes
  <2> QED BY <2>2, <2>3
<1>4. CASE CheckChat(r)
  <2>1. /\ up = "on" /\ r \in Live /\ exec[r] \in Exec /\ exec[r].phase = "check"
        /\ RunOK(r, exec[r])
    BY <1>4, AtIs DEF CheckChat
  <2>2. CASE chat.disk \in {None, Torn}
    BY <1>4, <2>1, <2>2, Ends DEF CheckChat
  <2>3. CASE chat.disk \notin {None, Torn}
    <3>1. UNCHANGED <<process, asked, tasks, record, sessions, deletion, history>>
      BY <1>4, <2>3 DEF CheckChat, history
    <3>2. PICK new \in Exec :
             /\ exec' = [exec EXCEPT ![r] = new]
             /\ new.phase = "save" /\ new.task = exec[r].task /\ new.session = exec[r].session
             /\ new.status = exec[r].status
      BY <1>4, <2>1, <2>3, GoIs DEF IInv, CheckChat
    <3>3. RunOK(r, new)
      BY <2>1, <3>2 DEF RunOK
    <3> QED BY <2>1, <2>3, <3>1, <3>2, <3>3, Goes
  <2> QED BY <2>2, <2>3
<1>5. CASE ChannelSend(r)
  <2>1. /\ up = "on" /\ r \in Live /\ exec[r] \in Exec /\ exec[r].phase = "channel"
        /\ RunOK(r, exec[r])
    BY <1>5, AtIs DEF ChannelSend
  <2>2. CASE Throw(r)
    BY <1>5, <2>1, <2>2, Ends DEF ChannelSend
  <2>3. CASE Go(r, "find") /\ threw' = threw
    <3>1. UNCHANGED <<process, asked, tasks, record, sessions, deletion, history>>
      BY <1>5, <2>3 DEF ChannelSend, history
    <3>2. PICK new \in Exec :
             /\ exec' = [exec EXCEPT ![r] = new]
             /\ new.phase = "find" /\ new.task = exec[r].task /\ new.session = exec[r].session
             /\ new.status = exec[r].status /\ new.outcome = exec[r].outcome
      BY <2>1, <2>3, GoIs DEF IInv
    <3>3. RunOK(r, new)
      BY <2>1, <3>2 DEF RunOK, Said
    <3> QED BY <2>1, <3>1, <3>2, <3>3, Goes
  <2> QED BY <1>5, <2>2, <2>3 DEF ChannelSend
<1>6. CASE FindRecord(r)
  <2>1. /\ up = "on" /\ r \in Live /\ exec[r] \in Exec /\ exec[r].phase = "find"
        /\ RunOK(r, exec[r])
    BY <1>6, AtIs DEF FindRecord
  <2>2. CASE ~Recorded(r)
    BY <1>6, <2>1, <2>2, Ends DEF FindRecord
  <2>3. CASE Recorded(r)
    <3>1. UNCHANGED <<process, asked, tasks, record, sessions, deletion, history>>
      BY <1>6, <2>3 DEF FindRecord, history
    <3>2. PICK new \in Exec :
             /\ exec' = [exec EXCEPT ![r] = new]
             /\ new.phase = "write" /\ new.task = exec[r].task /\ new.session = exec[r].session
             /\ new.status = exec[r].status /\ new.outcome = exec[r].outcome
      BY <1>6, <2>1, <2>3, GoIs DEF IInv, FindRecord
    <3>3. RunOK(r, new)
      BY <2>1, <3>2 DEF RunOK, Said
    <3> QED BY <2>1, <3>1, <3>2, <3>3, Goes
  <2> QED BY <2>2, <2>3
<1> QED BY <1>1, <1>2, <1>3, <1>4, <1>5, <1>6

-----------------------------------------------------------------------------
(***************************************************************************)
(* The records of a task are bounded.                                      *)
(***************************************************************************)
Done(t) == RecordsOf(t) \ (Live \cup early \cup threw \cup killed)

LEMMA RecordsAreFinite == \A t : IsFiniteSet(RecordsOf(t)) /\ RecordsOf(t) \subseteq Runs
<1>1. IsFiniteSet(Runs)
  BY Bounds, FS_Interval DEF Runs
<1> QED BY <1>1, FS_Subset DEF RecordsOf

\* Less is left of the records that count.
LEMMA DoneShrinks ==
    ASSUME HistoryBounded, NEW t \in Tasks, NEW D, D \subseteq Done(t)
    PROVE  Cardinality(D) <= Keep
<1>1. IsFiniteSet(Done(t))
  BY RecordsAreFinite, FS_Difference DEF Done
<1>2. Cardinality(Done(t)) <= Keep /\ Cardinality(Done(t)) \in Nat
  BY <1>1, FS_CardinalityType DEF HistoryBounded, Done
<1>3. IsFiniteSet(D) /\ Cardinality(D) <= Cardinality(Done(t)) /\ Cardinality(D) \in Nat
  BY <1>1, FS_Subset, FS_CardinalityType
<1> QED BY <1>2, <1>3, Bounds

\* What pruneOldest leaves: of n records those with fewer than Keep newer ones.
LEMMA NewestAreFew ==
    ASSUME NEW S \in SUBSET Nat, IsFiniteSet(S)
    PROVE  LET newest == {r \in S : Cardinality({q \in S : q > r}) < Keep}
           IN  IsFiniteSet(newest) /\ Cardinality(newest) <= Keep
<1> DEFINE newer(r) == {q \in S : q > r}
           newest == {r \in S : Cardinality(newer(r)) < Keep}
           f == [r \in newest |-> Cardinality(newer(r))]
<1>1. \A r : IsFiniteSet(newer(r)) /\ Cardinality(newer(r)) \in Nat
  BY FS_Subset, FS_CardinalityType
<1>2. f \in [newest -> 0 .. Keep - 1]
  BY <1>1, Bounds
<1>3. ASSUME NEW r \in newest, NEW q \in newest, r < q
      PROVE  f[r] # f[q]
  <2>1. newer(q) \subseteq newer(r) /\ newer(q) # newer(r)
    <3>1. q \in newer(r) /\ q \notin newer(q)
      BY <1>3
    <3>2. \A x \in newer(q) : x \in newer(r)
      BY <1>3
    <3> QED BY <3>1, <3>2
  <2>2. Cardinality(newer(r)) = Cardinality(newer(q)) => newer(r) = newer(q)
    <3> HIDE DEF newer
    <3> QED BY <2>1, <1>1, FS_Subset
  <2> QED BY <2>1, <2>2
<1>4. f \in Injection(newest, 0 .. Keep - 1)
  <2>1. ASSUME NEW r \in newest, NEW q \in newest, f[r] = f[q] PROVE r = q
    <3>1. r \in Nat /\ q \in Nat
      OBVIOUS
    <3>2. ~(r < q) /\ ~(q < r)
      BY <1>3, <2>1
    <3> QED BY <3>1, <3>2
  <2> QED BY <1>2, <2>1 DEF Injection, IsInjective
<1>5. IsFiniteSet(0 .. Keep - 1) /\ Cardinality(0 .. Keep - 1) = Keep
  BY Bounds, FS_Interval
<1> QED BY <1>4, <1>5, FS_Injection

-----------------------------------------------------------------------------
(***************************************************************************)
(* The beginning of an execution.                                          *)
(***************************************************************************)
LEMMA FireKeeps ==
    ASSUME IInv, NEW t \in Tasks, Fire(t)
    PROVE  IInv'
<1>0. PICK r : r = fires + 1
  OBVIOUS
<1> DEFINE new == [task |-> t, phase |-> "create", session |-> None,
                   status |-> "completed", outcome |-> "skip", early |-> FALSE]
<1>1. /\ UNCHANGED <<up, crashes, deletes, tasks, record, own, ownFile, chat, copy, deletion>>
      /\ UNCHANGED <<threw, killed, caught, dropped, early, met>>
  BY DEF Fire, process, sessions, history
<1>2. /\ r \in Runs /\ fires' = r /\ r > fires /\ fires \in Nat /\ t \in tasks /\ up = "on"
      /\ exec \in [Runs -> Exec \cup {Idle}]
  BY <1>0, Bounds DEF Fire, Runs, IInv, TypeOK
<1>3. /\ new \in Exec /\ new.phase = "create" /\ new.task = t /\ new.session = None
      /\ new.status = "completed"
  BY DEF Exec, Phases, Finals, Outcomes
<1>4. exec'[r] = new /\ exec' = [exec EXCEPT ![r] = new] /\ \A q \in Runs \ {r} : exec'[q] = exec[q]
  BY <1>0, <1>2 DEF Fire
<1> HIDE DEF new
<1>5. r \notin Live /\ Live' = Live \cup {r}
  <2>1. r \notin Live
    BY <1>2, LiveIsExec DEF IInv, RunOK, TypeOK, Runs
  <2> QED BY <2>1, <1>2, <1>3, <1>4, ExecIsLive DEF Live
<1>6. record[r] = None /\ ~Recorded(r)
  BY <1>2 DEF IInv, Recorded
<1>7. TypeOK'
  <2>1. exec' \in [Runs -> Exec \cup {Idle}]
    BY <1>2, <1>3, <1>4
  <2>2. fires' \in 0..MaxRuns
    BY <1>2, Bounds DEF Runs
  <2> QED BY <2>1, <2>2, <1>1 DEF IInv, TypeOK
<1>8. /\ Unsettled' = Unsettled /\ \A q \in Runs : Recorded(q)' = Recorded(q) /\ Final(q)' = Final(q)
      /\ \A u \in Tasks : RecordsOf(u)' = RecordsOf(u)
  BY <1>1 DEF Unsettled, Recorded, Final, RecordsOf
<1>9. \A q \in Live' : RunOK(q, exec[q])'
  <2>1. RunOK(r, exec[r])'
    BY <1>1, <1>2, <1>3, <1>4, <1>6, <1>8 DEF RunOK, Final, Runs
  <2>2. ASSUME NEW q \in Live PROVE RunOK(q, exec[q])'
    <3>1. exec'[q] = exec[q] /\ RunOK(q, exec[q]) /\ q \in Runs
      BY <1>4, <1>5, LiveIsExec DEF IInv
    <3>2. q <= fires'
      BY <3>1, <1>2 DEF RunOK, Runs
    <3> QED BY <3>1, <3>2, <1>1, <1>8 DEF RunOK, InMemory, InFile
  <2>3. SUFFICES ASSUME NEW q \in Live' PROVE RunOK(q, exec[q])'
    OBVIOUS
  <2>4. CASE q = r
    BY <2>1, <2>4
  <2>5. CASE q # r
    BY <2>2, <2>5, <1>5
  <2> QED BY <2>4, <2>5
<1>10. Saving' => Saving
  BY <1>3, <1>4, <1>5, LiveIsExec DEF IInv, Saving
<1>11. \A q \in Runs : Recorded(q)' => RecordOK(q)'
  <2>1. \A q \in Runs : q <= fires => q <= fires'
    BY <1>2 DEF Runs
  <2> QED BY <2>1, <1>1, <1>8, <1>10 DEF IInv, RecordOK, InMemory, InFile
<1>12. Alone'
  <2>1. \A q \in Live : exec'[q] = exec[q]
    BY <1>4, <1>5, LiveIsExec DEF IInv
  <2> QED BY <2>1, <1>1, <1>3, <1>4, <1>5 DEF IInv, Alone
<1>13. WrittenIsThere' /\ Down' /\ RunningIsUnderWay'
  BY <1>1, <1>2, <1>5, <1>8 DEF IInv, WrittenIsThere, Down, RunningIsUnderWay
<1>14. \A q \in Runs : q > fires' => record'[q] = None
  BY <1>1, <1>2 DEF IInv, Runs
<1>15. \A u \in Tasks : Cleaned(u)'
  BY <1>1, <1>8 DEF IInv, Cleaned
<1>16. HistoryBounded'
  <2>1. ASSUME NEW u \in Tasks PROVE Done(u)' \subseteq Done(u)
    BY <1>1, <1>5, <1>8 DEF Done
  <2> QED BY <2>1, DoneShrinks DEF IInv, HistoryBounded, Done
<1>17. (ownFile # {} => fires > 0)'
  BY <1>1, <1>2 DEF Runs
<1> QED BY <1>7, <1>9, <1>11, <1>12, <1>13, <1>14, <1>15, <1>16, <1>17 DEF IInv

LEMMA CreateKeeps ==
    ASSUME IInv, NEW r \in Runs, CreateRecord(r)
    PROVE  IInv'
<1>1. /\ UNCHANGED <<up, crashes, fires, deletes, tasks, own, ownFile, chat, copy, deletion>>
      /\ UNCHANGED <<threw, killed, caught, dropped, early, met>>
  BY DEF CreateRecord, process, asked, sessions, history
<1>2. /\ up = "on" /\ r \in Live /\ exec[r] \in Exec /\ exec[r].phase = "create" /\ RunOK(r, exec[r])
  BY AtIs DEF CreateRecord
<1>3. PICK new \in Exec :
         /\ exec' = [exec EXCEPT ![r] = new]
         /\ new.phase = "resolve" /\ new.task = exec[r].task /\ new.session = exec[r].session
         /\ new.status = exec[r].status
  BY <1>2, GoIs DEF IInv, CreateRecord, Phases
<1>4. /\ exec \in [Runs -> Exec \cup {Idle}] /\ exec'[r] = new
      /\ \A q \in Runs \ {r} : exec'[q] = exec[q]
  BY <1>3 DEF IInv, TypeOK
<1>5. Live' = Live
  BY <1>2, <1>4, ExecIsLive DEF Live
<1> DEFINE rec == [task |-> exec[r].task, status |-> "running", outcome |-> None]
<1>6. rec \in Record /\ rec.task = exec[r].task /\ rec.status = "running"
  BY <1>2 DEF Exec, Record
<1>7. /\ record \in [Runs -> Record \cup {None, Torn}] /\ record'[r] = rec
      /\ record' = [record EXCEPT ![r] = rec] /\ \A q \in Runs \ {r} : record'[q] = record[q]
  BY DEF CreateRecord, IInv, TypeOK
<1> HIDE DEF rec
<1>8. TypeOK'
  <2>1. exec' \in [Runs -> Exec \cup {Idle}] /\ record' \in [Runs -> Record \cup {None, Torn}]
    BY <1>3, <1>4, <1>6, <1>7
  <2> QED BY <2>1, <1>1 DEF IInv, TypeOK
<1>9. \A q \in Runs \ {r} : /\ Recorded(q)' = Recorded(q) /\ Final(q)' = Final(q)
                            /\ q \in Unsettled' <=> q \in Unsettled
  BY <1>7 DEF Recorded, Final, Unsettled
<1>10. \A t \in Tasks : RecordsOf(t)' \subseteq RecordsOf(t) \cup {q \in {r} : exec[r].task = t}
  BY <1>6, <1>7 DEF RecordsOf, Recorded
<1>11. \A q \in Live' : RunOK(q, exec[q])'
  <2>1. RunOK(r, new)
    BY <1>2, <1>3 DEF RunOK
  <2>2. ~Final(r)'
    BY <1>6, <1>7 DEF Final, Finals
  <2>3. RunOK(r, exec[r])'
    BY <2>1, <2>2, <1>1, <1>3, <1>4, <1>6, <1>7 DEF RunOK, InMemory, InFile
  <2>4. ASSUME NEW q \in Live, q # r PROVE RunOK(q, exec[q])'
    <3>1. exec'[q] = exec[q] /\ RunOK(q, exec[q]) /\ q \in Runs /\ record'[q] = record[q]
      BY <2>4, <1>4, <1>7, LiveIsExec DEF IInv
    <3> QED BY <2>4, <3>1, <1>1, <1>9 DEF RunOK, InMemory, InFile
  <2> QED BY <2>3, <2>4, <1>5
<1>12. Saving' => Saving
  BY <1>3, <1>4, <1>5, LiveIsExec DEF IInv, Saving
<1>13. \A q \in Runs : Recorded(q)' => RecordOK(q)'
  <2>1. RecordOK(r)'
    BY <1>1, <1>2, <1>6, <1>7 DEF RecordOK, Said, RunOK
  <2>2. ASSUME NEW q \in Runs \ {r}, Recorded(q)' PROVE RecordOK(q)'
    BY <2>2, <1>1, <1>7, <1>9, <1>12 DEF IInv, RecordOK, InMemory, InFile
  <2> QED BY <2>1, <2>2
<1>14. Alone'
  <2>1. \A q \in Live \ {r} : exec'[q] = exec[q]
    BY <1>4, LiveIsExec DEF IInv
  <2> QED BY <2>1, <1>1, <1>3, <1>4, <1>5 DEF IInv, Alone
<1>15. WrittenIsThere' /\ Down' /\ RunningIsUnderWay'
  <2>1. Unsettled' \subseteq Unsettled \cup {r}
    BY <1>9 DEF Unsettled
  <2> QED BY <2>1, <1>1, <1>2, <1>5 DEF IInv, WrittenIsThere, Down, RunningIsUnderWay
<1>16. \A q \in Runs : q > fires' => record'[q] = None
  BY <1>1, <1>2, <1>7 DEF IInv, RunOK, Runs, TypeOK
<1>17. \A t \in Tasks : Cleaned(t)'
  <2>1. exec[r].task \notin tasks => r \in caught[exec[r].task]
    BY <1>2 DEF RunOK
  <2> QED BY <2>1, <1>1, <1>10 DEF IInv, Cleaned
<1>18. HistoryBounded'
  <2>1. ASSUME NEW t \in Tasks PROVE Done(t)' \subseteq Done(t)
    BY <1>1, <1>2, <1>5, <1>10 DEF Done
  <2> QED BY <2>1, DoneShrinks DEF IInv, HistoryBounded, Done
<1> QED BY <1>1, <1>8, <1>11, <1>13, <1>14, <1>15, <1>16, <1>17, <1>18 DEF IInv

\* A task's session is found, or created in its place.
LEMMA SessionKeeps ==
    ASSUME IInv, NEW r \in Runs, ResolveSession(r)
    PROVE  IInv'
<1> DEFINE t == exec[r].task
           found == t \in Persistent /\ own[t] # None
           makes == t \in Persistent /\ own[t] = None
           mine == IF found THEN own[t] ELSE r
           new == [exec[r] EXCEPT !.phase = "send", !.session = mine]
<1>1. /\ UNCHANGED <<up, crashes, fires, deletes, tasks, record, chat, copy, deletion>>
      /\ UNCHANGED <<threw, killed, caught, dropped, early, met>>
  BY DEF ResolveSession, process, asked, history
<1>2. /\ up = "on" /\ r \in Live /\ exec[r] \in Exec /\ exec[r].phase = "session"
      /\ RunOK(r, exec[r]) /\ t \in Tasks
  BY AtIs, LiveIsExec DEF ResolveSession, IInv
<1>3. /\ own' = IF makes THEN [own EXCEPT ![t] = r] ELSE own
      /\ ownFile' = IF makes THEN ownFile \cup {t} ELSE ownFile
      /\ exec' = [exec EXCEPT ![r] = new]
  BY <1>2 DEF ResolveSession
<1>4. own \in [Tasks -> Runs \cup {None}] /\ exec \in [Runs -> Exec \cup {Idle}] /\ r # None
  BY Bounds DEF IInv, TypeOK, Runs
<1>5. mine \in Runs /\ (t \in Persistent => own'[t] = mine) /\ \A u \in Tasks \ {t} : own'[u] = own[u]
  BY <1>2, <1>3, <1>4
<1>6. /\ new \in Exec /\ new.phase = "send" /\ new.task = t /\ new.session = mine
      /\ new.status = exec[r].status
  BY <1>2, <1>5 DEF Exec, Phases
<1> HIDE DEF new, mine
<1>7. exec'[r] = new /\ \A q \in Runs \ {r} : exec'[q] = exec[q]
  BY <1>3, <1>4
<1>8. Live' = Live
  BY <1>2, <1>6, <1>7, ExecIsLive DEF Live
<1>9. TypeOK'
  <2>1. exec' \in [Runs -> Exec \cup {Idle}]
    BY <1>3, <1>4, <1>6
  <2>2. own' \in [Tasks -> Runs \cup {None}] /\ ownFile' \subseteq Tasks
    BY <1>2, <1>3, <1>4 DEF IInv, TypeOK
  <2> QED BY <2>1, <2>2, <1>1 DEF IInv, TypeOK
<1>10. /\ Unsettled' = Unsettled /\ \A q \in Runs : Recorded(q)' = Recorded(q) /\ Final(q)' = Final(q)
       /\ \A u \in Tasks : RecordsOf(u)' = RecordsOf(u)
  BY <1>1 DEF Unsettled, Recorded, Final, RecordsOf
<1>11. \A q \in Live' : RunOK(q, exec[q])'
  <2>1. RunOK(r, exec[r])'
    <3>1. mine # None
      BY <1>5, Bounds DEF Runs
    <3>2. exec'[r].task = t /\ exec'[r].session = mine /\ exec'[r].phase = "send"
          /\ exec'[r].status = exec[r].status
      BY <1>6, <1>7
    <3> QED BY <3>1, <3>2, <1>1, <1>2, <1>5, <1>10 DEF RunOK
  <2>2. ASSUME NEW q \in Live, q # r PROVE RunOK(q, exec[q])'
    <3>1. exec'[q] = exec[q] /\ RunOK(q, exec[q]) /\ q \in Runs /\ exec[q].task \in Tasks
      BY <2>2, <1>7, LiveIsExec DEF IInv
    <3>2. exec[q].task \in Persistent \ dropped /\ exec[q].session # None
            => exec[q].session = own'[exec[q].task]
      <4>1. CASE exec[q].task = t
        BY <3>1, <4>1, <1>3 DEF RunOK
      <4>2. CASE exec[q].task # t
        BY <3>1, <4>2, <1>5 DEF RunOK
      <4> QED BY <4>1, <4>2
    <3> QED BY <3>1, <3>2, <1>1, <1>10 DEF RunOK, InMemory, InFile
  <2> QED BY <2>1, <2>2, <1>8
<1>12. Saving' => Saving
  BY <1>6, <1>7, <1>8, LiveIsExec DEF IInv, Saving
<1>13. \A q \in Runs : Recorded(q)' => RecordOK(q)'
  BY <1>1, <1>10, <1>12 DEF IInv, RecordOK, InMemory, InFile
<1>14. Alone'
  <2>1. \A q \in Live \ {r} : exec'[q] = exec[q]
    BY <1>7, LiveIsExec DEF IInv
  <2> QED BY <2>1, <1>1, <1>6, <1>7, <1>8 DEF IInv, Alone
<1>15. WrittenIsThere' /\ Down' /\ RunningIsUnderWay'
  BY <1>1, <1>2, <1>8, <1>10 DEF IInv, WrittenIsThere, Down, RunningIsUnderWay
<1>16. \A u \in Tasks : Cleaned(u)'
  <2>1. t \notin tasks => r \in caught[t]
    BY <1>2 DEF RunOK
  <2>2. SUFFICES ASSUME NEW u \in Tasks PROVE Cleaned(u)'
    OBVIOUS
  <2>3. CASE u = t
    BY <2>1, <2>3, <1>1, <1>3, <1>10 DEF IInv, Cleaned
  <2>4. CASE u # t
    BY <2>4, <1>1, <1>3, <1>5, <1>10 DEF IInv, Cleaned
  <2> QED BY <2>3, <2>4
<1>17. HistoryBounded'
  BY <1>1, <1>8, <1>10 DEF IInv, HistoryBounded
<1>18. (\A q \in Runs : q > fires => record[q] = None)' /\ fires' > 0
  BY <1>1, <1>2 DEF IInv, RunOK, Runs, TypeOK
<1> QED BY <1>9, <1>11, <1>13, <1>14, <1>15, <1>16, <1>17, <1>18 DEF IInv

-----------------------------------------------------------------------------
(***************************************************************************)
(* The delivery, the only step of an execution that writes the chat.       *)
(***************************************************************************)
ChatTyped ==
    /\ chat \in [cached : BOOLEAN, memory : SUBSET Runs, disk : (SUBSET Runs) \cup {None, Torn},
                going : BOOLEAN]
    /\ copy \in [Runs -> (SUBSET Runs) \cup {None}] /\ met \in SUBSET Runs

LEMMA DeliverIs ==
    ASSUME ChatTyped, WrittenIsThere, NEW r \in Runs, UNCHANGED <<copy, met>>,
           chat' = [chat EXCEPT !.memory = @ \cup {r}, !.cached = TRUE]
    PROVE  /\ ChatTyped' /\ WrittenIsThere' /\ chat.memory \subseteq chat'.memory
           /\ r \in chat'.memory /\ met \subseteq met'
           /\ chat'.disk # None => chat.disk # None
           /\ \A q \in Runs : InFile(q) => InFile(q)'
<1>1. ChatTyped' /\ chat'.disk = chat.disk /\ chat'.memory = chat.memory \cup {r}
  BY DEF ChatTyped
<1> QED BY <1>1 DEF WrittenIsThere, InFile

\* A save copies all that was said.
LEMMA SaveChatIs ==
    ASSUME ChatTyped, WrittenIsThere, NEW r \in Runs, r \in chat.memory,
           chat' = [chat EXCEPT !.disk = Torn], copy' = [copy EXCEPT ![r] = chat.memory],
           LET others == {q \in Runs : copy[q] # None} IN
             met' = IF others = {} THEN met ELSE met \cup others \cup {r}
    PROVE  /\ ChatTyped' /\ WrittenIsThere' /\ chat.memory \subseteq chat'.memory
           /\ r \in chat'.memory /\ met \subseteq met' /\ InFile(r)'
           /\ \A q \in Runs : InFile(q) /\ (q \notin met => InMemory(q)) => InFile(q)'
<1>1. /\ chat' \in [cached : BOOLEAN, memory : SUBSET Runs,
                    disk : (SUBSET Runs) \cup {None, Torn}, going : BOOLEAN]
      /\ chat'.disk = Torn /\ chat'.memory = chat.memory /\ chat.memory \in SUBSET Runs
  BY DEF ChatTyped
<1>2. /\ copy' \in [Runs -> (SUBSET Runs) \cup {None}] /\ copy'[r] = chat.memory
      /\ \A q \in Runs \ {r} : copy'[q] = copy[q]
  BY <1>1 DEF ChatTyped
<1>3. /\ met' \in SUBSET Runs /\ met \subseteq met'
      /\ r \notin met' => \A q \in Runs : copy[q] = None
  BY DEF ChatTyped
<1>4. WrittenIsThere'
  BY <1>1, Bounds DEF WrittenIsThere
<1>5. InFile(r)'
  BY <1>1, <1>2, <1>3 DEF InFile
<1>6. \A q \in Runs : InFile(q) /\ (q \notin met => InMemory(q)) => InFile(q)'
  BY <1>1, <1>2, <1>3 DEF InFile, InMemory
<1> QED BY <1>1, <1>2, <1>3, <1>4, <1>5, <1>6 DEF ChatTyped

\* What is left of a write has what its copy had, or does not parse.
LEMMA ChatSavedIs ==
    ASSUME ChatTyped, WrittenIsThere, NEW r \in Runs, r \in chat.memory,
           NEW left \in {copy[r], Torn, chat.disk}, UNCHANGED met,
           copy[r] = None => left = chat.disk,
           chat' = [chat EXCEPT !.disk = left], copy' = [copy EXCEPT ![r] = None]
    PROVE  /\ ChatTyped' /\ WrittenIsThere' /\ chat.memory \subseteq chat'.memory
           /\ r \in chat'.memory /\ met \subseteq met'
           /\ chat'.disk # None => chat.disk # None
           /\ \A q \in Runs : InFile(q) => InFile(q)'
<1>1. /\ left \in (SUBSET Runs) \cup {None, Torn}
      /\ left \notin {None, Torn} => left = chat.disk \/ (left = copy[r] /\ copy[r] # None)
      /\ (left # None <=> chat.disk # None)
  BY Bounds DEF ChatTyped, WrittenIsThere
<1>2. /\ chat' \in [cached : BOOLEAN, memory : SUBSET Runs,
                    disk : (SUBSET Runs) \cup {None, Torn}, going : BOOLEAN]
      /\ chat'.disk = left /\ chat'.memory = chat.memory
  BY <1>1 DEF ChatTyped
<1>3. /\ copy' \in [Runs -> (SUBSET Runs) \cup {None}] /\ copy'[r] = None
      /\ \A q \in Runs \ {r} : copy'[q] = copy[q]
  BY DEF ChatTyped
<1>4. WrittenIsThere'
  BY <1>1, <1>2, <1>3 DEF WrittenIsThere
<1>5. \A q \in Runs : InFile(q) => InFile(q)'
  BY <1>1, <1>2, <1>3 DEF InFile
<1> QED BY <1>1, <1>2, <1>3, <1>4, <1>5 DEF ChatTyped

\* What was said stays said, and a save writes all of it.
LEMMA ChatKeeps ==
    ASSUME IInv, NEW r \in Runs,
           (Deliver(r) /\ exec[r].outcome # "skip") \/ SaveChat(r) \/ ChatSaved(r)
    PROVE  IInv'
<1>1. /\ UNCHANGED <<up, crashes, fires, deletes, tasks, record, own, ownFile, deletion>>
      /\ UNCHANGED <<threw, killed, caught, dropped, early>>
  BY DEF Deliver, SaveChat, ChatSaved, process, asked, history
<1>2. /\ up = "on" /\ r \in Live /\ exec[r] \in Exec /\ RunOK(r, exec[r])
      /\ \/ exec[r].phase = "deliver" /\ Deliver(r)
         \/ exec[r].phase = "save" /\ SaveChat(r)
         \/ exec[r].phase = "saving" /\ ChatSaved(r)
  BY AtIs DEF Deliver, SaveChat, ChatSaved
<1>3. ChatTyped /\ WrittenIsThere
  BY DEF IInv, TypeOK, ChatTyped
<1>4. PICK new \in Exec :
         /\ exec' = [exec EXCEPT ![r] = new]
         /\ \/ new.phase = "check" /\ exec[r].phase = "deliver"
            \/ new.phase = "saving" /\ exec[r].phase = "save"
            \/ new.phase = "channel" /\ exec[r].phase = "saving"
         /\ new.task = exec[r].task /\ new.session = exec[r].session
         /\ new.status = exec[r].status /\ new.outcome = exec[r].outcome
  <2>1. CASE Deliver(r) /\ exec[r].outcome # "skip" /\ exec[r].phase = "deliver"
    BY <2>1, <1>2, GoIs DEF IInv, Deliver, Phases
  <2>2. CASE SaveChat(r) /\ exec[r].phase = "save"
    BY <2>2, <1>2, GoIs DEF IInv, SaveChat, Phases
  <2>3. CASE ChatSaved(r) /\ exec[r].phase = "saving"
    BY <2>3, <1>2, GoIs DEF IInv, ChatSaved, Phases
  <2>4. (exec[r].phase = "deliver" => exec[r].outcome # "skip" /\ Deliver(r))
    BY <1>2 DEF SaveChat, ChatSaved, At
  <2> QED BY <1>2, <2>1, <2>2, <2>3, <2>4
<1>5. /\ exec \in [Runs -> Exec \cup {Idle}] /\ exec'[r] = new
      /\ \A q \in Runs \ {r} : exec'[q] = exec[q]
  BY <1>4 DEF IInv, TypeOK
<1>6. Live' = Live
  BY <1>2, <1>5, ExecIsLive DEF Live
<1>7. /\ ChatTyped' /\ WrittenIsThere' /\ chat.memory \subseteq chat'.memory
      /\ r \in chat'.memory /\ met \subseteq met'
      /\ chat'.disk # None => chat.disk # None \/ Saving
      /\ new.phase \in {"saving", "channel"} => InFile(r)'
      /\ \A q \in Runs : InFile(q) /\ (q \notin met /\ Saving => InMemory(q)) => InFile(q)'
  <2>1. CASE exec[r].phase = "deliver"
    <3>1. chat' = [chat EXCEPT !.memory = @ \cup {r}, !.cached = TRUE] /\ UNCHANGED <<copy, met>>
      BY <2>1, <1>2 DEF Deliver, SaveChat, ChatSaved, At, history
    <3> QED BY <2>1, <3>1, <1>3, <1>4, DeliverIs
  <2>2. CASE exec[r].phase = "save"
    <3>1. /\ chat' = [chat EXCEPT !.disk = Torn] /\ copy' = [copy EXCEPT ![r] = chat.memory]
          /\ LET others == {q \in Runs : copy[q] # None} IN
               met' = IF others = {} THEN met ELSE met \cup others \cup {r}
      BY <2>2, <1>2 DEF SaveChat
    <3>2. r \in chat.memory /\ Saving
      BY <2>2, <1>2 DEF RunOK, InMemory, Saving
    <3> QED BY <3>1, <3>2, <1>3, SaveChatIs
  <2>3. CASE exec[r].phase = "saving"
    <3>1. PICK left \in {copy[r], Torn, chat.disk} :
            /\ copy[r] = None => left = chat.disk
            /\ chat' = [chat EXCEPT !.disk = left]
            /\ copy' = [copy EXCEPT ![r] = None] /\ UNCHANGED met
      BY <2>3, <1>2 DEF ChatSaved, history
    <3>2. r \in chat.memory /\ InFile(r)
      BY <2>3, <1>2 DEF RunOK, InMemory
    <3> QED BY <3>1, <3>2, <1>3, ChatSavedIs
  <2> QED BY <1>2, <2>1, <2>2, <2>3
<1>8. \A q : InMemory(q) => InMemory(q)'
  BY <1>7 DEF InMemory
<1>9. TypeOK'
  <2>1. exec' \in [Runs -> Exec \cup {Idle}]
    BY <1>4, <1>5
  <2> QED BY <2>1, <1>1, <1>7 DEF IInv, TypeOK, ChatTyped
<1>10. /\ Unsettled' = Unsettled /\ \A q \in Runs : Recorded(q)' = Recorded(q) /\ Final(q)' = Final(q)
       /\ \A u \in Tasks : RecordsOf(u)' = RecordsOf(u)
  BY <1>1 DEF Unsettled, Recorded, Final, RecordsOf
<1>11. \A q \in Live' : RunOK(q, exec[q])'
  <2>1. RunOK(r, exec[r])'
    <3>1. InMemory(r)' /\ (new.phase \in {"saving", "channel"} => InFile(r)')
      BY <1>7 DEF InMemory
    <3> QED BY <3>1, <1>1, <1>2, <1>4, <1>5, <1>10 DEF RunOK
  <2>2. ASSUME NEW q \in Live, q # r PROVE RunOK(q, exec[q])'
    <3>1. exec'[q] = exec[q] /\ RunOK(q, exec[q]) /\ q \in Runs
      BY <2>2, <1>5, LiveIsExec DEF IInv
    <3>2. InMemory(q) /\ InFile(q) => InFile(q)'
      BY <3>1, <1>7
    <3>3. InMemory(q) => InMemory(q)'
      BY <1>8
    <3> QED BY <3>1, <3>2, <3>3, <1>1, <1>10 DEF RunOK
  <2> QED BY <2>1, <2>2, <1>6
<1>12. Saving' => Saving
  BY <1>4, <1>5, <1>6, LiveIsExec DEF IInv, Saving
<1>13. \A q \in Runs : Recorded(q)' => RecordOK(q)'
  <2>1. SUFFICES ASSUME NEW q \in Runs, Recorded(q)' PROVE RecordOK(q)'
    OBVIOUS
  <2>2. RecordOK(q)
    BY <2>1, <1>10 DEF IInv
  <2>3. Said(record[q]) =>
          InFile(q)' /\ (q \notin met' /\ (chat'.disk # None \/ Saving') => InMemory(q)')
    BY <2>2, <1>7, <1>8, <1>12 DEF RecordOK
  <2> QED BY <2>2, <2>3, <1>1 DEF RecordOK
<1>14. Alone'
  <2>1. \A q \in Live \ {r} : exec'[q] = exec[q]
    BY <1>5, LiveIsExec DEF IInv
  <2> QED BY <2>1, <1>1, <1>4, <1>5, <1>6 DEF IInv, Alone
<1>15. WrittenIsThere' /\ Down' /\ RunningIsUnderWay'
  BY <1>1, <1>2, <1>6, <1>7, <1>10 DEF IInv, Down, RunningIsUnderWay
<1>16. \A u \in Tasks : Cleaned(u)'
  BY <1>1, <1>10 DEF IInv, Cleaned
<1>17. HistoryBounded'
  BY <1>1, <1>6, <1>10 DEF IInv, HistoryBounded
<1> QED BY <1>1, <1>9, <1>11, <1>13, <1>14, <1>15, <1>16, <1>17 DEF IInv

LEMMA DeliverKeeps ==
    ASSUME IInv, NEW r \in Runs, Deliver(r) \/ SaveChat(r) \/ ChatSaved(r)
    PROVE  IInv'
<1>1. CASE Deliver(r) /\ exec[r].outcome = "skip"
  <2>1. /\ up = "on" /\ r \in Live /\ exec[r] \in Exec /\ RunOK(r, exec[r])
        /\ exec[r].phase = "deliver"
    BY <1>1, AtIs DEF Deliver
  <2>2. UNCHANGED <<process, asked, tasks, record, sessions, deletion, history>>
    BY <1>1 DEF Deliver, sessions
  <2>3. PICK new \in Exec :
           /\ exec' = [exec EXCEPT ![r] = new]
           /\ new.phase = "channel" /\ new.task = exec[r].task /\ new.session = exec[r].session
           /\ new.status = exec[r].status /\ new.outcome = exec[r].outcome
    BY <1>1, <2>1, GoIs DEF IInv, Deliver, Phases
  <2>4. RunOK(r, new)
    BY <1>1, <2>1, <2>3 DEF RunOK, Said
  <2> QED BY <2>1, <2>2, <2>3, <2>4, Goes
<1> QED BY <1>1, ChatKeeps

-----------------------------------------------------------------------------
(***************************************************************************)
(* The end of an execution: the outcome is written, old records go.        *)
(***************************************************************************)
LEMMA WriteKeeps ==
    ASSUME IInv, NEW r \in Runs, WriteRecord(r)
    PROVE  IInv'
<1>1. /\ UNCHANGED <<up, crashes, fires, deletes, tasks, own, ownFile, chat, copy, deletion>>
      /\ UNCHANGED <<threw, killed, caught, dropped, met>>
  BY DEF WriteRecord, process, asked, sessions
<1>2. /\ up = "on" /\ r \in Live /\ exec[r] \in Exec /\ exec[r].phase = "write" /\ RunOK(r, exec[r])
  BY AtIs DEF WriteRecord
<1>3. /\ exec' \in [Runs -> Exec \cup {Idle}] /\ early \subseteq early' /\ early' \subseteq Runs
      /\ \A q \in Runs \ {r} : exec'[q] = exec[q]
      /\ \/ exec'[r] = Idle /\ r \in early'
         \/ /\ exec'[r] \in Exec /\ exec'[r].phase = "prune" /\ exec'[r].task = exec[r].task
            /\ exec'[r].session = exec[r].session /\ exec'[r].status = exec[r].status
  <2>1. exec \in [Runs -> Exec \cup {Idle}] /\ early \subseteq Runs
    BY DEF IInv, TypeOK
  <2>2. CASE exec[r].early
    BY <2>1, <2>2 DEF WriteRecord
  <2>3. CASE ~exec[r].early
    <3>1. PICK new \in Exec :
             /\ exec' = [exec EXCEPT ![r] = new]
             /\ new.phase = "prune" /\ new.task = exec[r].task /\ new.session = exec[r].session
             /\ new.status = exec[r].status
      BY <1>2, <2>3, GoIs DEF IInv, WriteRecord, Phases
    <3>2. early' = early
      BY <2>3 DEF WriteRecord
    <3> QED BY <2>1, <3>1, <3>2
  <2> QED BY <2>2, <2>3
<1>4. Live' \subseteq Live /\ Live \subseteq Live' \cup {r} /\ r \in Live' \cup early'
  BY <1>2, <1>3, ExecIsLive DEF Live
<1>5. PICK rec \in Record :
         /\ rec.task = exec[r].task /\ rec.status = exec[r].status /\ rec.outcome = exec[r].outcome
         /\ record' = [record EXCEPT ![r] = rec]
  <2> DEFINE rec == [task |-> exec[r].task, status |-> exec[r].status, outcome |-> exec[r].outcome]
  <2>1. rec \in Record
    BY <1>2 DEF Exec, Record
  <2>2. record' = [record EXCEPT ![r] = rec]
    BY DEF WriteRecord
  <2> QED BY <2>1, <2>2
<1>6. /\ record \in [Runs -> Record \cup {None, Torn}] /\ record'[r] = rec
      /\ \A q \in Runs \ {r} : record'[q] = record[q]
  BY <1>5 DEF IInv, TypeOK
<1>7. TypeOK'
  <2>1. record' \in [Runs -> Record \cup {None, Torn}]
    BY <1>5, <1>6
  <2> QED BY <2>1, <1>1, <1>3 DEF IInv, TypeOK
<1>8. \A q \in Runs \ {r} : /\ Recorded(q)' = Recorded(q) /\ Final(q)' = Final(q)
                            /\ q \in Unsettled' <=> q \in Unsettled
  BY <1>6 DEF Recorded, Final, Unsettled
<1>9. r \notin Unsettled'
  <2>1. rec.status # "running"
    BY <1>2, <1>5 DEF Exec, Finals
  <2> QED BY <2>1, <1>6 DEF Unsettled
<1>10. \A t \in Tasks : RecordsOf(t)' \subseteq RecordsOf(t) \cup {q \in {r} : exec[r].task = t}
  BY <1>5, <1>6 DEF RecordsOf, Recorded
<1>11. \A q \in Live' : RunOK(q, exec[q])'
  <2>1. r \in Live' => RunOK(r, exec[r])'
    <3>1. r \in Live' => exec'[r] # Idle
      BY DEF Live
    <3> QED BY <3>1, <1>1, <1>2, <1>3, <1>5, <1>6, <1>9 DEF RunOK
  <2>2. ASSUME NEW q \in Live', q # r PROVE RunOK(q, exec[q])'
    <3>1. exec'[q] = exec[q] /\ RunOK(q, exec[q]) /\ q \in Runs /\ record'[q] = record[q]
      BY <2>2, <1>3, <1>4, <1>6, LiveIsExec DEF IInv
    <3> QED BY <2>2, <3>1, <1>1, <1>8 DEF RunOK, InMemory, InFile
  <2> QED BY <2>1, <2>2
<1>12. Saving' => Saving
  <2>1. ASSUME NEW q \in Live', exec'[q].phase = "save" PROVE q \in Live /\ exec[q].phase = "save"
    <3>1. q # r
      BY <2>1, <1>3 DEF Live, Idle
    <3> QED BY <2>1, <3>1, <1>3, <1>4 DEF Live
  <2> QED BY <2>1 DEF Saving
<1>13. \A q \in Runs : Recorded(q)' => RecordOK(q)'
  <2>1. RecordOK(r)'
    <3>1. Said(rec) => InMemory(r)' /\ InFile(r)'
      BY <1>1, <1>2, <1>5 DEF RunOK, Said, InMemory, InFile
    <3> QED BY <3>1, <1>1, <1>2, <1>5, <1>6 DEF RecordOK, RunOK
  <2>2. ASSUME NEW q \in Runs \ {r}, Recorded(q)' PROVE RecordOK(q)'
    BY <2>2, <1>1, <1>6, <1>8, <1>12 DEF IInv, RecordOK, InMemory, InFile
  <2> QED BY <2>1, <2>2
<1>14. Alone'
  <2>1. SUFFICES ASSUME NEW q1 \in Live', NEW q2 \in Live',
                        exec'[q1].task \in Persistent \ dropped, exec'[q2].task = exec'[q1].task,
                        exec'[q1].phase = "stream", exec'[q2].phase = "stream"
                 PROVE  q1 = q2
    BY <1>1 DEF Alone
  <2>2. ASSUME NEW q \in Live', exec'[q].phase = "stream" PROVE q \in Live /\ exec'[q] = exec[q]
    <3>1. q # r
      BY <2>2, <1>3 DEF Live, Idle
    <3> QED BY <2>2, <3>1, <1>3, <1>4 DEF Live
  <2> QED BY <2>1, <2>2 DEF IInv, Alone
<1>15. WrittenIsThere' /\ Down' /\ RunningIsUnderWay'
  <2>1. Unsettled' \subseteq Unsettled \ {r}
    BY <1>8, <1>9 DEF Unsettled
  <2> QED BY <2>1, <1>1, <1>2, <1>4 DEF IInv, WrittenIsThere, Down, RunningIsUnderWay
<1>16. \A q \in Runs : q > fires' => record'[q] = None
  BY <1>1, <1>2, <1>6 DEF IInv, RunOK, Runs, TypeOK
<1>17. \A t \in Tasks : Cleaned(t)'
  <2>1. exec[r].task \notin tasks => r \in caught[exec[r].task]
    BY <1>2 DEF RunOK
  <2> QED BY <2>1, <1>1, <1>10 DEF IInv, Cleaned
<1>18. HistoryBounded'
  <2>1. ASSUME NEW t \in Tasks PROVE Done(t)' \subseteq Done(t)
    BY <1>1, <1>3, <1>4, <1>10 DEF Done
  <2> QED BY <2>1, DoneShrinks DEF IInv, HistoryBounded, Done
<1> QED BY <1>1, <1>7, <1>11, <1>13, <1>14, <1>15, <1>16, <1>17, <1>18 DEF IInv

\* Records go, or are torn: nothing more is said by those that stay.
LEMMA RecordsGo ==
    ASSUME TypeOK, \A q \in Runs : record'[q] = record[q] \/ record'[q] \in {None, Torn}
    PROVE  /\ \A q \in Runs : /\ Recorded(q)' => Recorded(q) /\ record'[q] = record[q]
                              /\ Final(q)' => Final(q)
           /\ Unsettled' \subseteq Unsettled
           /\ \A t \in Tasks : RecordsOf(t)' \subseteq RecordsOf(t)
<1>1. \A q \in Runs : Recorded(q)' => Recorded(q) /\ record'[q] = record[q]
  BY DEF Recorded
<1> QED BY <1>1 DEF Final, Unsettled, RecordsOf

LEMMA PruneKeeps ==
    ASSUME IInv, NEW r \in Runs, Prune(r)
    PROVE  IInv'
<1> DEFINE t == exec[r].task
<1>1. /\ UNCHANGED <<up, crashes, fires, deletes, tasks, own, ownFile, chat, copy, deletion>>
      /\ UNCHANGED <<threw, killed, caught, dropped, early, met>>
  BY DEF Prune, process, asked, sessions, history
<1>2. /\ up = "on" /\ r \in Live /\ exec[r] \in Exec /\ exec[r].phase = "prune" /\ RunOK(r, exec[r])
      /\ t \in Tasks
  BY AtIs, LiveIsExec DEF Prune, IInv
<1>3. /\ exec' \in [Runs -> Exec \cup {Idle}] /\ exec'[r] = Idle
      /\ \A q \in Runs \ {r} : exec'[q] = exec[q]
  BY DEF Prune, IInv, TypeOK
<1>4. Live' = Live \ {r}
  BY <1>3 DEF Live
<1>5. /\ \A q \in Runs : record'[q] = IF q \in Excess(t) THEN None ELSE record[q]
      /\ record' \in [Runs -> Record \cup {None, Torn}]
  BY DEF Prune, IInv, TypeOK
<1>6. /\ \A q \in Runs : /\ Recorded(q)' => Recorded(q) /\ record'[q] = record[q]
                         /\ Final(q)' => Final(q)
      /\ Unsettled' \subseteq Unsettled
      /\ \A u \in Tasks : RecordsOf(u)' \subseteq RecordsOf(u)
  BY <1>5, RecordsGo DEF IInv
<1>7. TypeOK'
  BY <1>1, <1>3, <1>5 DEF IInv, TypeOK
<1>8. \A q \in Live' : RunOK(q, exec[q])'
  <2>1. SUFFICES ASSUME NEW q \in Live \ {r} PROVE RunOK(q, exec[q])'
    BY <1>4
  <2>2. exec'[q] = exec[q] /\ RunOK(q, exec[q]) /\ q \in Runs
    BY <1>3, LiveIsExec DEF IInv
  <2>3. record[q] = None => record'[q] = None
    BY <2>2, <1>5
  <2> QED BY <2>2, <2>3, <1>1, <1>6 DEF RunOK, InMemory, InFile
<1>9. Saving' => Saving
  BY <1>3, <1>4, LiveIsExec DEF IInv, Saving
<1>10. \A q \in Runs : Recorded(q)' => RecordOK(q)'
  BY <1>1, <1>6, <1>9 DEF IInv, RecordOK, InMemory, InFile
<1>11. Alone'
  <2>1. \A q \in Live \ {r} : exec'[q] = exec[q]
    BY <1>3, LiveIsExec DEF IInv
  <2> QED BY <2>1, <1>1, <1>4 DEF IInv, Alone
<1>12. WrittenIsThere' /\ Down' /\ RunningIsUnderWay'
  <2>1. r \notin Unsettled
    BY <1>2 DEF RunOK
  <2> QED BY <2>1, <1>1, <1>2, <1>4, <1>6 DEF IInv, WrittenIsThere, Down, RunningIsUnderWay
<1>13. \A q \in Runs : q > fires' => record'[q] = None
  BY <1>1, <1>5 DEF IInv
<1>14. \A u \in Tasks : Cleaned(u)'
  BY <1>1, <1>6 DEF IInv, Cleaned
<1>15. HistoryBounded'
  <2>1. SUFFICES ASSUME NEW u \in Tasks PROVE Cardinality(Done(u)') <= Keep
    BY DEF HistoryBounded, Done
  <2>2. CASE u # t
    <3>1. r \notin RecordsOf(u)
      BY <2>2, <1>2 DEF RecordsOf, RunOK
    <3>2. Done(u)' \subseteq Done(u)
      BY <3>1, <1>1, <1>4, <1>6 DEF Done
    <3> QED BY <3>2, DoneShrinks DEF IInv
  <2>3. CASE u = t
    <3> DEFINE S == RecordsOf(t)
               newest == {q \in S : Cardinality({p \in S : p > q}) < Keep}
    <3>1. IsFiniteSet(S) /\ S \subseteq Nat
      BY RecordsAreFinite DEF Runs
    <3>2. IsFiniteSet(newest) /\ Cardinality(newest) <= Keep
      <4> HIDE DEF S
      <4> QED BY <3>1, NewestAreFew
    <3>3. \A q \in S : Cardinality({p \in S : p > q}) \in Nat
      <4> HIDE DEF S
      <4>1. \A q : {p \in S : p > q} \subseteq S
        OBVIOUS
      <4> QED BY <4>1, <3>1, FS_Subset, FS_CardinalityType
    <3>4. Done(u)' \subseteq newest
      <4>1. SUFFICES ASSUME NEW q \in RecordsOf(u)' PROVE q \in newest
        BY DEF Done
      <4>2. q \in S /\ q \in Runs /\ Recorded(q)'
        BY <2>3, <1>6 DEF RecordsOf
      <4>3. q \notin Excess(t)
        BY <4>2, <1>5 DEF Recorded
      <4> QED BY <4>2, <4>3, <3>3, Bounds DEF Excess
    <3> HIDE DEF newest
    <3>5. IsFiniteSet(Done(u)') /\ Cardinality(Done(u)') <= Cardinality(newest)
      BY <3>2, <3>4, FS_Subset
    <3> QED BY <3>2, <3>5, FS_CardinalityType, Bounds
  <2> QED BY <2>2, <2>3
<1> QED BY <1>1, <1>7, <1>8, <1>10, <1>11, <1>12, <1>13, <1>14, <1>15 DEF IInv

-----------------------------------------------------------------------------
(***************************************************************************)
(* Deletions.                                                              *)
(***************************************************************************)
LEMMA DeletedOnce ==
    ASSUME TypeOK, AskDelete
    PROVE  deletes' \in 0..MaxDeletes
  BY Bounds DEF TypeOK, AskDelete

LEMMA DeleteTaskKeeps ==
    ASSUME IInv, NEW t \in Tasks, DeleteTask(t)
    PROVE  IInv'
<1>1. /\ UNCHANGED <<up, crashes, fires, exec, record, ownFile, chat, copy>>
      /\ UNCHANGED <<threw, killed, early, met>> /\ up = "on"
  BY DEF DeleteTask, process
<1>2. /\ tasks' = tasks \ {t}
      /\ caught \in [Tasks -> SUBSET Runs] /\ caught' = [caught EXCEPT ![t] = {r \in Live : exec[r].task = t}]
      /\ caught'[t] = {r \in Live : exec[r].task = t}
      /\ \A u \in Tasks \ {t} : caught'[u] = caught[u]
  BY DEF DeleteTask, IInv, TypeOK
<1>3. /\ own' \in [Tasks -> Runs \cup {None}] /\ dropped' \subseteq Tasks /\ dropped \subseteq dropped'
      /\ deletion' \in [Tasks -> {"none", "session", "records"}]
      /\ \A u \in Tasks \ {t} : own'[u] = own[u] /\ deletion'[u] = deletion[u]
      /\ \/ t \in Persistent /\ own'[t] = None /\ t \in dropped' /\ deletion'[t] = "session"
         \/ t \notin Persistent /\ own' = own /\ deletion'[t] = "records"
  BY DEF DeleteTask, IInv, TypeOK
<1>4. Live' = Live /\ Saving' = Saving
  BY <1>1 DEF Live, Saving
<1>5. TypeOK'
  <2>1. caught' \in [Tasks -> SUBSET Runs]
    BY <1>2 DEF Live
  <2>2. deletes' \in 0..MaxDeletes
    BY DeletedOnce DEF IInv, DeleteTask
  <2> QED BY <2>1, <2>2, <1>1, <1>2, <1>3 DEF IInv, TypeOK
<1>6. /\ Unsettled' = Unsettled /\ \A q \in Runs : Recorded(q)' = Recorded(q) /\ Final(q)' = Final(q)
      /\ \A u \in Tasks : RecordsOf(u)' = RecordsOf(u)
  BY <1>1 DEF Unsettled, Recorded, Final, RecordsOf
<1>7. \A q \in Live' : RunOK(q, exec[q])'
  <2>1. SUFFICES ASSUME NEW q \in Live PROVE RunOK(q, exec[q])'
    BY <1>4
  <2>2. RunOK(q, exec[q]) /\ q \in Runs /\ exec[q].task \in Tasks
    BY LiveIsExec DEF IInv
  <2>3. exec[q].task \notin tasks' => q \in caught'[exec[q].task]
    BY <2>2, <1>2 DEF RunOK
  <2>4. exec[q].task \in Persistent \ dropped' /\ exec[q].session # None
          => exec[q].session = own'[exec[q].task]
    <3>1. CASE exec[q].task = t
      BY <2>2, <3>1, <1>3 DEF RunOK
    <3>2. CASE exec[q].task # t
      BY <2>2, <3>2, <1>3 DEF RunOK
    <3> QED BY <3>1, <3>2
  <2> QED BY <2>2, <2>3, <2>4, <1>1, <1>6 DEF RunOK, InMemory, InFile
<1>8. \A q \in Runs : Recorded(q)' => RecordOK(q)'
  BY <1>1, <1>4, <1>6 DEF IInv, RecordOK, InMemory, InFile
<1>9. Alone'
  BY <1>1, <1>3, <1>4 DEF IInv, Alone
<1>10. WrittenIsThere' /\ Down' /\ RunningIsUnderWay'
  BY <1>1, <1>4, <1>6 DEF IInv, WrittenIsThere, Down, RunningIsUnderWay
<1>11. \A u \in Tasks : Cleaned(u)'
  <2>1. SUFFICES ASSUME NEW u \in Tasks PROVE Cleaned(u)'
    OBVIOUS
  <2>2. CASE u = t
    BY <2>2, <1>1, <1>3 DEF IInv, Cleaned
  <2>3. CASE u # t
    <3>1. /\ own'[u] = own[u] /\ deletion'[u] = deletion[u] /\ caught'[u] = caught[u]
          /\ u \in tasks' <=> u \in tasks
      BY <2>3, <1>2, <1>3
    <3> QED BY <3>1, <1>1, <1>6 DEF IInv, Cleaned
  <2> QED BY <2>2, <2>3
<1>12. HistoryBounded'
  BY <1>1, <1>4, <1>6 DEF IInv, HistoryBounded
<1> QED BY <1>1, <1>5, <1>7, <1>8, <1>9, <1>10, <1>11, <1>12 DEF IInv

LEMMA DeleteOwnFileKeeps ==
    ASSUME IInv, NEW t \in Tasks, DeleteOwnFile(t)
    PROVE  IInv'
<1>1. /\ UNCHANGED <<up, crashes, fires, deletes, tasks, exec, record, own, chat, copy>>
      /\ UNCHANGED <<threw, killed, caught, dropped, early, met>> /\ up = "on"
  BY DEF DeleteOwnFile, process, asked, history
<1>2. /\ ownFile' = ownFile \ {t} /\ deletion' \in [Tasks -> {"none", "session", "records"}]
      /\ deletion'[t] = "records" /\ \A u \in Tasks \ {t} : deletion'[u] = deletion[u]
  BY DEF DeleteOwnFile, IInv, TypeOK
<1>3. Live' = Live /\ Saving' = Saving
  BY <1>1 DEF Live, Saving
<1>4. TypeOK'
  BY <1>1, <1>2 DEF IInv, TypeOK
<1>5. /\ Unsettled' = Unsettled /\ \A q \in Runs : Recorded(q)' = Recorded(q) /\ Final(q)' = Final(q)
      /\ \A u \in Tasks : RecordsOf(u)' = RecordsOf(u)
  BY <1>1 DEF Unsettled, Recorded, Final, RecordsOf
<1>6. \A q \in Live' : RunOK(q, exec[q])'
  BY <1>1, <1>3, <1>5, LiveIsExec DEF IInv, RunOK, InMemory, InFile
<1>7. \A q \in Runs : Recorded(q)' => RecordOK(q)'
  BY <1>1, <1>3, <1>5 DEF IInv, RecordOK, InMemory, InFile
<1>8. Alone' /\ WrittenIsThere' /\ Down' /\ RunningIsUnderWay' /\ HistoryBounded'
  BY <1>1, <1>3, <1>5 DEF IInv, Alone, WrittenIsThere, Down, RunningIsUnderWay, HistoryBounded
<1>9. \A u \in Tasks : Cleaned(u)'
  <2>1. SUFFICES ASSUME NEW u \in Tasks PROVE Cleaned(u)'
    OBVIOUS
  <2>2. CASE u = t
    BY <2>2, <1>1, <1>2 DEF IInv, Cleaned
  <2>3. CASE u # t
    BY <2>3, <1>1, <1>2, <1>5 DEF IInv, Cleaned
  <2> QED BY <2>2, <2>3
<1> QED BY <1>1, <1>2, <1>4, <1>6, <1>7, <1>8, <1>9 DEF IInv

LEMMA DeleteRecordsKeeps ==
    ASSUME IInv, NEW t \in Tasks, DeleteRecords(t)
    PROVE  IInv'
<1>1. /\ UNCHANGED <<up, crashes, fires, deletes, tasks, exec, own, ownFile, chat, copy>>
      /\ UNCHANGED <<threw, killed, caught, dropped, early, met>> /\ up = "on"
  BY DEF DeleteRecords, process, asked, sessions, history
<1>2. /\ deletion[t] = "records" /\ deletion' \in [Tasks -> {"none", "session", "records"}]
      /\ \A u \in Tasks \ {t} : deletion'[u] = deletion[u]
  BY DEF DeleteRecords, IInv, TypeOK
<1>3. /\ record' \in [Runs -> Record \cup {None, Torn}]
      /\ \A q \in Runs : record'[q] = IF q \in RecordsOf(t) THEN None ELSE record[q]
  BY DEF DeleteRecords, IInv, TypeOK
<1>4. /\ \A q \in Runs : /\ Recorded(q)' => Recorded(q) /\ record'[q] = record[q]
                         /\ Final(q)' => Final(q)
      /\ Unsettled' \subseteq Unsettled
      /\ \A u \in Tasks : RecordsOf(u)' \subseteq RecordsOf(u)
  BY <1>3, RecordsGo DEF IInv
<1>5. RecordsOf(t)' = {}
  BY <1>3, <1>4 DEF RecordsOf, Recorded
<1>6. Live' = Live /\ Saving' = Saving
  BY <1>1 DEF Live, Saving
<1>7. TypeOK'
  BY <1>1, <1>2, <1>3 DEF IInv, TypeOK
<1>8. \A q \in Live' : RunOK(q, exec[q])'
  <2>1. SUFFICES ASSUME NEW q \in Live PROVE RunOK(q, exec[q])'
    BY <1>6
  <2>2. RunOK(q, exec[q]) /\ q \in Runs /\ (record[q] = None => record'[q] = None)
    BY <1>3, LiveIsExec DEF IInv
  <2> QED BY <2>2, <1>1, <1>4 DEF RunOK, InMemory, InFile
<1>9. \A q \in Runs : Recorded(q)' => RecordOK(q)'
  BY <1>1, <1>4, <1>6 DEF IInv, RecordOK, InMemory, InFile
<1>10. Alone' /\ WrittenIsThere' /\ Down' /\ RunningIsUnderWay'
  BY <1>1, <1>4, <1>6 DEF IInv, Alone, WrittenIsThere, Down, RunningIsUnderWay
<1>11. \A q \in Runs : q > fires' => record'[q] = None
  BY <1>1, <1>3 DEF IInv
<1>12. \A u \in Tasks : Cleaned(u)'
  <2>1. SUFFICES ASSUME NEW u \in Tasks PROVE Cleaned(u)'
    OBVIOUS
  <2>2. CASE u = t
    BY <2>2, <1>1, <1>2, <1>5 DEF IInv, Cleaned
  <2>3. CASE u # t
    BY <2>3, <1>1, <1>2, <1>4 DEF IInv, Cleaned
  <2> QED BY <2>2, <2>3
<1>13. HistoryBounded'
  <2>1. ASSUME NEW u \in Tasks PROVE Done(u)' \subseteq Done(u)
    BY <1>1, <1>4, <1>6 DEF Done
  <2> QED BY <2>1, DoneShrinks DEF IInv, HistoryBounded, Done
<1> QED BY <1>1, <1>7, <1>8, <1>9, <1>10, <1>11, <1>12, <1>13 DEF IInv

LEMMA DeleteChatKeeps ==
    ASSUME IInv, DeleteChat \/ DeleteChatFile
    PROVE  IInv'
<1>1. /\ UNCHANGED <<up, crashes, fires, tasks, exec, record, own, ownFile, deletion>>
      /\ UNCHANGED <<threw, killed, caught, dropped, early, met>> /\ up = "on"
  BY DEF DeleteChat, DeleteChatFile, process, asked, history
<1>2. /\ chat' \in [cached : BOOLEAN, memory : SUBSET Runs, disk : (SUBSET Runs) \cup {None, Torn},
                    going : BOOLEAN]
      /\ copy' \in [Runs -> (SUBSET Runs) \cup {None}] /\ chat'.memory = chat.memory
      /\ \/ chat'.disk = chat.disk /\ copy' = copy
         \/ chat'.disk = None /\ \A r \in Runs : copy'[r] = None
  BY DEF DeleteChat, DeleteChatFile, IInv, TypeOK
<1>3. Live' = Live /\ Saving' = Saving
  BY <1>1 DEF Live, Saving
<1>4. TypeOK'
  <2>1. deletes' \in 0..MaxDeletes
    BY DeletedOnce DEF IInv, TypeOK, DeleteChat, DeleteChatFile, asked
  <2> QED BY <2>1, <1>1, <1>2 DEF IInv, TypeOK
<1>5. /\ Unsettled' = Unsettled /\ \A q \in Runs : Recorded(q)' = Recorded(q) /\ Final(q)' = Final(q)
      /\ \A u \in Tasks : RecordsOf(u)' = RecordsOf(u)
  BY <1>1 DEF Unsettled, Recorded, Final, RecordsOf
<1>6. \A q \in Runs : InFile(q) => InFile(q)'
  BY <1>1, <1>2 DEF InFile
<1>7. \A q \in Live' : RunOK(q, exec[q])'
  BY <1>1, <1>2, <1>3, <1>5, <1>6, LiveIsExec DEF IInv, RunOK, InMemory
<1>8. \A q \in Runs : Recorded(q)' => RecordOK(q)'
  BY <1>1, <1>2, <1>3, <1>5, <1>6 DEF IInv, RecordOK, InMemory
<1>9. Alone' /\ WrittenIsThere' /\ Down' /\ RunningIsUnderWay' /\ HistoryBounded'
  BY <1>1, <1>2, <1>3, <1>5 DEF IInv, Alone, WrittenIsThere, Down, RunningIsUnderWay, HistoryBounded
<1>10. \A u \in Tasks : Cleaned(u)'
  BY <1>1, <1>5 DEF IInv, Cleaned
<1> QED BY <1>1, <1>4, <1>7, <1>8, <1>9, <1>10 DEF IInv

LEMMA DeleteOwnKeeps ==
    ASSUME IInv, NEW t \in Tasks, DeleteOwn(t)
    PROVE  IInv'
<1>1. /\ UNCHANGED <<up, crashes, fires, tasks, exec, record, chat, copy, deletion>>
      /\ UNCHANGED <<threw, killed, caught, early, met>> /\ up = "on"
  BY DEF DeleteOwn, process
<1>2. /\ ownFile' = ownFile \ {t} /\ dropped' = dropped \cup {t}
      /\ own' \in [Tasks -> Runs \cup {None}] /\ own'[t] = None
      /\ \A u \in Tasks \ {t} : own'[u] = own[u]
  BY DEF DeleteOwn, IInv, TypeOK
<1>3. Live' = Live /\ Saving' = Saving
  BY <1>1 DEF Live, Saving
<1>4. TypeOK'
  <2>1. deletes' \in 0..MaxDeletes
    BY DeletedOnce DEF IInv, DeleteOwn
  <2> QED BY <2>1, <1>1, <1>2 DEF IInv, TypeOK
<1>5. /\ Unsettled' = Unsettled /\ \A q \in Runs : Recorded(q)' = Recorded(q) /\ Final(q)' = Final(q)
      /\ \A u \in Tasks : RecordsOf(u)' = RecordsOf(u)
  BY <1>1 DEF Unsettled, Recorded, Final, RecordsOf
<1>6. \A q \in Live' : RunOK(q, exec[q])'
  <2>1. SUFFICES ASSUME NEW q \in Live PROVE RunOK(q, exec[q])'
    BY <1>3
  <2>2. RunOK(q, exec[q]) /\ q \in Runs /\ exec[q].task \in Tasks
    BY LiveIsExec DEF IInv
  <2>3. exec[q].task \in Persistent \ dropped' /\ exec[q].session # None
          => exec[q].session = own'[exec[q].task]
    BY <2>2, <1>2 DEF RunOK
  <2> QED BY <2>2, <2>3, <1>1, <1>5 DEF RunOK, InMemory, InFile
<1>7. \A q \in Runs : Recorded(q)' => RecordOK(q)'
  BY <1>1, <1>3, <1>5 DEF IInv, RecordOK, InMemory, InFile
<1>8. Alone' /\ WrittenIsThere' /\ Down' /\ RunningIsUnderWay' /\ HistoryBounded'
  BY <1>1, <1>2, <1>3, <1>5 DEF IInv, Alone, WrittenIsThere, Down, RunningIsUnderWay, HistoryBounded
<1>9. \A u \in Tasks : Cleaned(u)'
  <2>1. \A u \in Tasks : (own[u] = None => own'[u] = None) /\ (u \notin ownFile => u \notin ownFile')
    BY <1>2
  <2> QED BY <2>1, <1>1, <1>5 DEF IInv, Cleaned
<1> QED BY <1>1, <1>2, <1>4, <1>6, <1>7, <1>8, <1>9 DEF IInv

-----------------------------------------------------------------------------
(***************************************************************************)
(* Crashes, and the start of the process.                                  *)
(***************************************************************************)
LEMMA CrashKeeps ==
    ASSUME IInv, Crash
    PROVE  IInv'
<1>1. /\ UNCHANGED <<fires, deletes, tasks, own, ownFile, threw, caught, dropped, early, met>>
      /\ chat' \in [cached : BOOLEAN, memory : SUBSET Runs, disk : (SUBSET Runs) \cup {None, Torn},
                    going : BOOLEAN]
      /\ chat'.disk = chat.disk /\ chat'.memory = chat.memory /\ copy' = [r \in Runs |-> None]
  BY DEF Crash, asked, IInv, TypeOK
<1>2. /\ up' = "off" /\ crashes' \in 0..MaxCrashes
      /\ killed' = killed \cup Live \cup {t \in Tasks : deletion[t] # "none"}
      /\ exec' = [r \in Runs |-> Idle] /\ Live' = {} /\ deletion' = [t \in Tasks |-> "none"]
  BY Bounds DEF Crash, Live, IInv, TypeOK
<1>3. PICK torn \in SUBSET (Live \cup Unsettled) :
         record' = [r \in Runs |-> IF r \in torn THEN Torn ELSE record[r]]
  BY DEF Crash
<1>4. /\ record' \in [Runs -> Record \cup {None, Torn}]
      /\ \A q \in Runs : record'[q] = IF q \in torn THEN Torn ELSE record[q]
  BY <1>3 DEF IInv, TypeOK
<1>5. /\ \A q \in Runs : /\ Recorded(q)' => Recorded(q) /\ record'[q] = record[q]
                         /\ Final(q)' => Final(q)
      /\ Unsettled' \subseteq Unsettled
      /\ \A u \in Tasks : RecordsOf(u)' \subseteq RecordsOf(u)
  BY <1>4, RecordsGo DEF IInv
<1>6. TypeOK'
  BY <1>1, <1>2, <1>4 DEF IInv, TypeOK, Live
<1>7. /\ \A q \in Live' : RunOK(q, exec[q])'
      /\ Alone' /\ WrittenIsThere' /\ RunningIsUnderWay'
  BY <1>1, <1>2, Bounds DEF IInv, Alone, WrittenIsThere, RunningIsUnderWay
<1>8. ~Saving'
  BY <1>2 DEF Saving
<1>9. \A q \in Runs : Recorded(q)' => RecordOK(q)'
  BY <1>1, <1>2, <1>5, <1>8 DEF IInv, RecordOK, InMemory, InFile
<1>10. Down'
  <2>1. Unsettled \subseteq Live \cup threw \cup killed
    BY DEF IInv, RunningIsUnderWay, Down
  <2> QED BY <2>1, <1>1, <1>2, <1>5 DEF Down
<1>11. \A q \in Runs : q > fires' => record'[q] = None
  <2>1. \A q \in torn : q <= fires
    BY LiveIsExec DEF IInv, RunOK, RecordOK, Unsettled
  <2> QED BY <2>1, <1>1, <1>4 DEF IInv, Runs, TypeOK
<1>12. \A u \in Tasks : Cleaned(u)'
  <2>1. SUFFICES ASSUME NEW u \in Tasks PROVE Cleaned(u)'
    OBVIOUS
  <2>2. u \notin killed' => u \notin killed /\ deletion[u] = "none"
    BY <1>2
  <2> QED BY <2>2, <1>1, <1>2, <1>5 DEF IInv, Cleaned
<1>13. HistoryBounded'
  <2>1. ASSUME NEW u \in Tasks PROVE Done(u)' \subseteq Done(u)
    BY <1>1, <1>2, <1>5 DEF Done
  <2> QED BY <2>1, DoneShrinks DEF IInv, HistoryBounded, Done
<1> QED BY <1>1, <1>6, <1>7, <1>9, <1>10, <1>11, <1>12, <1>13 DEF IInv

LEMMA RestartKeeps ==
    ASSUME IInv, Restart
    PROVE  IInv'
<1>1. /\ UNCHANGED <<crashes, fires, deletes, tasks, exec, record, ownFile, copy, deletion>>
      /\ UNCHANGED <<threw, killed, caught, dropped, early, met>> /\ up # "on" /\ up' = "recovering"
  BY DEF Restart, asked, history
<1>2. Live = {} /\ Live' = {} /\ ~Saving /\ ~Saving'
  <2>1. Live = {}
    BY <1>1 DEF IInv, Down
  <2> QED BY <2>1, <1>1 DEF Live, Saving
<1>3. /\ own' \in [Tasks -> Runs \cup {None}] /\ \A t \in Tasks : t \notin ownFile => own'[t] = None
  <2>1. own' = [t \in Tasks |-> IF t \in ownFile THEN fires ELSE None]
    BY DEF Restart
  <2>2. ownFile # {} => fires \in Runs
    BY DEF IInv, TypeOK, Runs
  <2> QED BY <2>1, <2>2
<1>4. /\ chat' \in [cached : BOOLEAN, memory : SUBSET Runs, disk : (SUBSET Runs) \cup {None, Torn},
                    going : BOOLEAN]
      /\ chat'.disk = chat.disk /\ chat.disk # Torn /\ (chat.disk # None => chat'.memory = chat.disk)
  BY DEF Restart, IInv, TypeOK
<1>5. TypeOK'
  BY <1>1, <1>3, <1>4 DEF IInv, TypeOK
<1>6. /\ Unsettled' = Unsettled /\ \A q \in Runs : Recorded(q)' = Recorded(q)
      /\ \A u \in Tasks : RecordsOf(u)' = RecordsOf(u)
  BY <1>1 DEF Unsettled, Recorded, RecordsOf
<1>7. \A q \in Runs : Recorded(q)' => RecordOK(q)'
  BY <1>1, <1>2, <1>4, <1>6 DEF IInv, RecordOK, InMemory, InFile
<1>8. Alone' /\ WrittenIsThere' /\ RunningIsUnderWay' /\ HistoryBounded'
  BY <1>1, <1>2, <1>4, <1>6 DEF IInv, Alone, WrittenIsThere, RunningIsUnderWay, HistoryBounded
<1>9. Down'
  BY <1>1, <1>2, <1>6 DEF IInv, Down
<1>10. \A u \in Tasks : Cleaned(u)'
  <2>1. \A u \in Tasks : deletion[u] = "none"
    BY <1>1 DEF IInv, Down
  <2> QED BY <2>1, <1>1, <1>3, <1>6 DEF IInv, Cleaned
<1> QED BY <1>1, <1>2, <1>5, <1>7, <1>8, <1>9, <1>10 DEF IInv

LEMMA RecoverKeeps ==
    ASSUME IInv, NEW r \in Runs, Recover(r)
    PROVE  IInv'
<1>1. /\ UNCHANGED <<up, crashes, fires, deletes, tasks, exec, own, ownFile, chat, copy, deletion>>
      /\ UNCHANGED <<threw, killed, caught, dropped, early, met>> /\ up # "on" /\ r \in Unsettled
  BY DEF Recover, process, asked, sessions, history
<1>2. Live = {} /\ Live' = {} /\ Saving' = Saving
  <2>1. Live = {}
    BY <1>1 DEF IInv, Down
  <2> QED BY <2>1, <1>1 DEF Live, Saving
<1>3. record[r] \in Record /\ Recorded(r)
  BY <1>1, RecordedIsRecord DEF IInv, Unsettled
<1>4. PICK rec \in Record :
         /\ rec.task = record[r].task /\ rec.status = "interrupted"
         /\ record' = [record EXCEPT ![r] = rec]
  <2> DEFINE rec == [record[r] EXCEPT !.status = "interrupted"]
  <2>1. rec \in Record /\ rec.task = record[r].task /\ rec.status = "interrupted"
    BY <1>3 DEF Record, Finals
  <2>2. record' = [record EXCEPT ![r] = rec]
    BY DEF Recover
  <2> QED BY <2>1, <2>2
<1>5. /\ record' \in [Runs -> Record \cup {None, Torn}] /\ record'[r] = rec
      /\ \A q \in Runs \ {r} : record'[q] = record[q]
  BY <1>4 DEF IInv, TypeOK
<1>6. TypeOK'
  BY <1>1, <1>5 DEF IInv, TypeOK
<1>7. \A q \in Runs : Recorded(q)' => Recorded(q)
  BY <1>3, <1>5 DEF Recorded
<1>8. Unsettled' \subseteq Unsettled
  BY <1>4, <1>5, <1>7 DEF Unsettled
<1>9. \A u \in Tasks : RecordsOf(u)' \subseteq RecordsOf(u)
  BY <1>4, <1>5, <1>7 DEF RecordsOf
<1>10. \A q \in Runs : Recorded(q)' => RecordOK(q)'
  <2>1. RecordOK(r)'
    <3>1. r \in killed \cup threw /\ r <= fires
      BY <1>1, <1>3 DEF IInv, Down, RecordOK
    <3> QED BY <3>1, <1>1, <1>4, <1>5 DEF RecordOK, Said
  <2>2. ASSUME NEW q \in Runs \ {r}, Recorded(q)' PROVE RecordOK(q)'
    BY <2>2, <1>1, <1>2, <1>5, <1>7 DEF IInv, RecordOK, InMemory, InFile
  <2> QED BY <2>1, <2>2
<1>11. Alone' /\ WrittenIsThere' /\ Down' /\ RunningIsUnderWay'
  BY <1>1, <1>2, <1>8 DEF IInv, Alone, WrittenIsThere, Down, RunningIsUnderWay
<1>12. \A q \in Runs : q > fires' => record'[q] = None
  <2>1. ~(r > fires)
    BY <1>3 DEF IInv, Recorded
  <2> QED BY <2>1, <1>1, <1>5 DEF IInv
<1>13. \A u \in Tasks : Cleaned(u)'
  BY <1>1, <1>9 DEF IInv, Cleaned
<1>14. HistoryBounded'
  <2>1. ASSUME NEW u \in Tasks PROVE Done(u)' \subseteq Done(u)
    BY <1>1, <1>2, <1>9 DEF Done
  <2> QED BY <2>1, DoneShrinks DEF IInv, HistoryBounded, Done
<1> QED BY <1>1, <1>2, <1>6, <1>10, <1>11, <1>12, <1>13, <1>14 DEF IInv

LEMMA RecoveryEndsKeeps ==
    ASSUME IInv, RecoveryEnds
    PROVE  IInv'
<1>1. /\ UNCHANGED <<crashes, fires, deletes, tasks, exec, record, own, ownFile, chat, copy, deletion>>
      /\ UNCHANGED <<threw, killed, caught, dropped, early, met>> /\ up' = "on" /\ Unsettled = {}
  BY DEF RecoveryEnds, asked, sessions, history
<1>2. /\ Live' = Live /\ Saving' = Saving /\ Unsettled' = {}
      /\ \A q \in Runs : Recorded(q)' = Recorded(q) /\ Final(q)' = Final(q)
      /\ \A u \in Tasks : RecordsOf(u)' = RecordsOf(u)
  BY <1>1 DEF Live, Saving, Unsettled, Recorded, Final, RecordsOf
<1>3. TypeOK'
  BY <1>1 DEF IInv, TypeOK
<1>4. \A q \in Live' : RunOK(q, exec[q])'
  BY <1>1, <1>2, LiveIsExec DEF IInv, RunOK, InMemory, InFile
<1>5. \A q \in Runs : Recorded(q)' => RecordOK(q)'
  BY <1>1, <1>2 DEF IInv, RecordOK, InMemory, InFile
<1>6. Alone' /\ WrittenIsThere' /\ Down' /\ RunningIsUnderWay' /\ HistoryBounded'
  BY <1>1, <1>2 DEF IInv, Alone, WrittenIsThere, Down, RunningIsUnderWay, HistoryBounded
<1>7. \A u \in Tasks : Cleaned(u)'
  BY <1>1, <1>2 DEF IInv, Cleaned
<1> QED BY <1>1, <1>3, <1>4, <1>5, <1>6, <1>7 DEF IInv

-----------------------------------------------------------------------------
(***************************************************************************)
(* The invariant.                                                          *)
(***************************************************************************)
LEMMA InitHolds == Init => IInv
<1> SUFFICES ASSUME Init PROVE IInv
  OBVIOUS
<1>1. Live = {} /\ Unsettled = {} /\ \A r \in Runs : ~Recorded(r)
  BY DEF Init, Live, Unsettled, Recorded
<1>2. \A t : RecordsOf(t) = {}
  BY <1>1 DEF RecordsOf
<1>3. TypeOK
  BY Bounds DEF Init, TypeOK
<1>4. WrittenIsThere /\ Alone /\ Down /\ RunningIsUnderWay
  BY <1>1 DEF Init, WrittenIsThere, Alone, Down, RunningIsUnderWay
<1>5. \A t \in Tasks : Cleaned(t)
  BY <1>2 DEF Init, Cleaned
<1>6. HistoryBounded
  <2>1. \A t \in Tasks : RecordsOf(t) \ (Live \cup early \cup threw \cup killed) = {}
    BY <1>2
  <2>2. Cardinality({}) = 0 /\ Keep \in Nat
    BY FS_EmptySet, Bounds
  <2>3. \A t \in Tasks : Cardinality(RecordsOf(t) \ (Live \cup early \cup threw \cup killed)) <= Keep
    <3> SUFFICES ASSUME NEW t \in Tasks
                 PROVE  Cardinality(RecordsOf(t) \ (Live \cup early \cup threw \cup killed)) <= Keep
      OBVIOUS
    <3>1. RecordsOf(t) \ (Live \cup early \cup threw \cup killed) = {}
      BY <2>1
    <3>2. Cardinality(RecordsOf(t) \ (Live \cup early \cup threw \cup killed)) = 0
      BY <2>2, <3>1
    <3> QED BY <2>2, <3>2
  <2> QED BY <2>3 DEF HistoryBounded
<1> QED BY <1>1, <1>3, <1>4, <1>5, <1>6 DEF Init, IInv

LEMMA StutterKeeps ==
    ASSUME IInv, UNCHANGED vars
    PROVE  IInv'
<1>1. /\ UNCHANGED <<up, crashes, fires, deletes, tasks, exec, record, own, ownFile, chat, copy, deletion>>
      /\ UNCHANGED <<threw, killed, caught, dropped, early, met>>
  BY DEF vars, process, asked, sessions, history
<1>2. /\ Live' = Live /\ Saving' = Saving /\ Unsettled' = Unsettled
      /\ \A q \in Runs : Recorded(q)' = Recorded(q) /\ Final(q)' = Final(q)
      /\ \A u \in Tasks : RecordsOf(u)' = RecordsOf(u)
  BY <1>1 DEF Live, Saving, Unsettled, Recorded, Final, RecordsOf
<1>3. TypeOK'
  BY <1>1 DEF IInv, TypeOK
<1>4. \A q \in Live' : RunOK(q, exec[q])'
  BY <1>1, <1>2, LiveIsExec DEF IInv, RunOK, InMemory, InFile
<1>5. \A q \in Runs : Recorded(q)' => RecordOK(q)'
  BY <1>1, <1>2 DEF IInv, RecordOK, InMemory, InFile
<1>6. Alone' /\ WrittenIsThere' /\ Down' /\ RunningIsUnderWay' /\ HistoryBounded'
  BY <1>1, <1>2 DEF IInv, Alone, WrittenIsThere, Down, RunningIsUnderWay, HistoryBounded
<1>7. \A u \in Tasks : Cleaned(u)'
  BY <1>1, <1>2 DEF IInv, Cleaned
<1> QED BY <1>1, <1>3, <1>4, <1>5, <1>6, <1>7 DEF IInv

LEMMA StepKeeps == IInv /\ [Next]_vars => IInv'
<1> SUFFICES ASSUME IInv, [Next]_vars PROVE IInv'
  OBVIOUS
<1>1. ASSUME NEW t \in Tasks, Fire(t) PROVE IInv'
  BY <1>1, FireKeeps
<1>2. ASSUME NEW t \in Tasks, Deletions(t) PROVE IInv'
  BY <1>2, DeleteTaskKeeps, DeleteOwnFileKeeps, DeleteRecordsKeeps, DeleteOwnKeeps DEF Deletions
<1>3. ASSUME NEW r \in Runs, Step(r) PROVE IInv'
  BY <1>3, CreateKeeps, DecisionKeeps, SessionKeeps, DeliverKeeps, WriteKeeps, PruneKeeps DEF Step
<1>4. ASSUME NEW r \in Runs, Recover(r) PROVE IInv'
  BY <1>4, RecoverKeeps
<1>5. CASE DeleteChat \/ DeleteChatFile \/ Crash \/ Restart \/ RecoveryEnds
  BY <1>5, DeleteChatKeeps, CrashKeeps, RestartKeeps, RecoveryEndsKeeps
<1>6. CASE UNCHANGED vars
  BY <1>6, StutterKeeps
<1> QED BY <1>1, <1>2, <1>3, <1>4, <1>5, <1>6 DEF Next

LEMMA Invariance == Spec => []IInv
  BY InitHolds, StepKeeps, PTL DEF Spec

-----------------------------------------------------------------------------
\* At any time what a record says of its run is so: it is under way or threw if it is
\* "running", a fault cut it short if it is "interrupted", and its message is in the
\* chat's file, if that parses and no other write met its own, if it is "completed";
\* and no two runs speak in one session at a time.
THEOREM RecordsStayTrue == Spec => []RecordsAreTrue
<1>1. IInv => RecordsAreTrue
  <2> SUFFICES ASSUME IInv PROVE RecordsAreTrue
    OBVIOUS
  <2>1. InterruptedByFault /\ CompletedWasDelivered
    BY DEF IInv, RecordOK, InterruptedByFault, CompletedWasDelivered, Said, InFile
  <2>2. OneAtATime
    <3>1. SUFFICES ASSUME NEW t \in Persistent \ dropped
                   PROVE  Cardinality({r \in Live : exec[r].task = t /\ exec[r].phase = "stream"}) <= 1
      BY DEF OneAtATime
    <3> DEFINE S == {r \in Live : exec[r].task = t /\ exec[r].phase = "stream"}
    <3>2. \A r, q \in S : r = q
      BY DEF IInv, Alone
    <3> SUFFICES Cardinality(S) <= 1
      OBVIOUS
    <3> HIDE DEF S
    <3>3. CASE S = {}
      <4>1. Cardinality({}) = 0
        BY FS_EmptySet
      <4> QED BY <3>3, <4>1
    <3>4. CASE S # {}
      <4>1. PICK r \in S : TRUE
        BY <3>4
      <4>2. S = {r}
        BY <4>1, <3>2
      <4>3. Cardinality({r}) = 1
        BY FS_Singleton
      <4> QED BY <4>2, <4>3
    <3> QED BY <3>3, <3>4
  <2> QED BY <2>1, <2>2 DEF IInv, RecordsAreTrue
<1> QED BY <1>1, Invariance, PTL

\* Neither records nor sessions pile up: of a deleted task nothing remains but what the
\* runs under way leave, and of a task that lives the newest Keep records.
THEOREM NothingEverPilesUp == Spec => []NothingPilesUp
<1>1. IInv => NothingPilesUp
  <2>1. IInv => DeletedLeavesNothing
    BY DEF IInv, Cleaned, DeletedLeavesNothing
  <2> QED BY <2>1 DEF IInv, NothingPilesUp
<1> QED BY <1>1, Invariance, PTL

\* No step turns an outcome that was recorded into another one.
THEOREM OutcomesAreFinal == Spec => FinalStays
<1>1. IInv /\ [Next]_vars =>
        [\A r \in Runs : Recorded(r) /\ record[r].status \in Finals /\ Recorded(r)'
            => record'[r] = record[r]]_vars
  <2> SUFFICES ASSUME IInv, Next, NEW q \in Runs, Final(q), Recorded(q)'
               PROVE  record'[q] = record[q]
    BY DEF Final
  <2>1. record \in [Runs -> Record \cup {None, Torn}]
    BY DEF IInv, TypeOK
  <2>2. CASE record' = record
    BY <2>2
  <2>3. ASSUME NEW r \in Runs, CreateRecord(r) \/ WriteRecord(r) PROVE record'[q] = record[q]
    <3>1. r \in Live /\ RunOK(r, exec[r]) /\ exec[r].phase \in {"create", "write"}
      BY <2>3, AtIs DEF CreateRecord, WriteRecord
    <3>2. r # q
      BY <3>1 DEF RunOK, Final, Recorded
    <3> QED BY <2>1, <2>3, <3>2 DEF CreateRecord, WriteRecord
  <2>4. ASSUME NEW r \in Runs, Prune(r) PROVE record'[q] = record[q]
    BY <2>4 DEF Prune, Recorded
  <2>5. ASSUME NEW t \in Tasks, DeleteRecords(t) PROVE record'[q] = record[q]
    BY <2>5 DEF DeleteRecords, Recorded
  <2>6. ASSUME NEW r \in Runs, Recover(r) PROVE record'[q] = record[q]
    <3>1. r # q
      BY <2>6 DEF Recover, Unsettled, Final, Finals
    <3> QED BY <2>1, <2>6, <3>1 DEF Recover
  <2>7. CASE Crash
    BY <2>7 DEF Crash, Recorded
  <2>8. ASSUME NEW r \in Runs, Step(r) PROVE record'[q] = record[q]
    BY <2>3, <2>4, <2>8 DEF Step, ResolveDestination, ResolveSession, Send, StreamEnds, Deliver,
                            CheckChat, SaveChat, ChatSaved, ChannelSend,
                            FindRecord
  <2>9. ASSUME NEW t \in Tasks, Fire(t) \/ Deletions(t) PROVE record'[q] = record[q]
    BY <2>5, <2>9 DEF Fire, Deletions, DeleteTask, DeleteOwnFile, DeleteOwn
  <2>10. CASE DeleteChat \/ DeleteChatFile \/ Restart \/ RecoveryEnds
    BY <2>10 DEF DeleteChat, DeleteChatFile, Restart, RecoveryEnds
  <2> QED BY <2>6, <2>7, <2>8, <2>9, <2>10 DEF Next
<1>2. Spec => [][Next]_vars
  BY DEF Spec
<1> QED BY <1>1, <1>2, Invariance, PTL DEF FinalStays

-----------------------------------------------------------------------------
(***************************************************************************)
(* TaskSchedule: its invariant.                                            *)
(***************************************************************************)
\* The operation an operation on the file can be in each phase.
OpOK(op) ==
    /\ op.kind = "delete" <=> op.to = None
    /\ op.phase = "find" => op.kind = "patch"
    /\ op.phase = "load" /\ op.kind = "patch" => op.found # None
    /\ op.phase = "write" => op.data \in Content

\* What the file holds once op is over, if nobody else writes to it.
Aim(op) == IF op.tick THEN registry ELSE [registry EXCEPT ![op.task] = op.to]

\* The operation that is under way, alone, brings the file there.
OnItsWay(op) ==
    /\ ~op.mixed
    /\ op.phase = "write" => op.data = Aim(op)
    /\ op.phase # "write" => [file EXCEPT ![op.task] = op.to] = Aim(op)
    /\ op.phase # "write" /\ op.kind = "patch" =>
         /\ file[op.task] # None
         /\ "cron" \notin op.fields => op.to.cron = file[op.task].cron
         /\ "at" \notin op.fields => op.to.at = file[op.task].at
         /\ "enabled" \notin op.fields => op.to.enabled = file[op.task].enabled
    /\ op.phase = "load" /\ op.kind = "patch" => op.found = file[op.task]

OneByOne ==
    /\ \A o, p \in Busy : o = p
    /\ Len(reads) <= 1 /\ (reads # <<>> => Busy = {})

InStep ==
    /\ file # Torn
    /\ Busy = {} => registry = file
    /\ \A o \in Busy : OnItsWay(ops[o])
    /\ \A i \in 1..Len(reads) : reads[i] = file

Halted == ~alive => Busy = {} /\ reads = <<>> /\ ~changed

\* What the timer goes by, now or after the next start.
Known == IF alive THEN registry ELSE file

\* No entry is due for an occurrence that fired, or against what its caller was told.
Obeyed(entries) ==
    \A t \in Tasks :
        /\ entries[t] # None => entries[t].at \notin fired[t]
        /\ orders[t] = "gone" => entries[t] = None
        /\ orders[t] = "paused" /\ entries[t] # None => ~entries[t].enabled
        /\ orders[t] = "new" => entries[t] = None /\ fired[t] = {}

\* Nor will the operation bring one.
Told(op) ==
    ~op.tick =>
        /\ orders[op.task] # "new"
        /\ op.to # None => "cron" \in op.fields \/ op.to.at \notin fired[op.task]

Orderly ==
    /\ faults = {} /\ file # Torn
    /\ \A t \in Tasks : fired[t] \subseteq 0..now
    /\ Obeyed(Known)
    /\ \A o \in Busy : Told(ops[o])

TimerInv ==
    /\ TimerTypeOK
    /\ \A o \in Busy : OpOK(ops[o])
    /\ Halted
    /\ calm => OneByOne /\ (alive => InStep)
    /\ calm /\ whole => Orderly

-----------------------------------------------------------------------------
(***************************************************************************)
(* Operations and their beginning.                                         *)
(***************************************************************************)
LEMMA TimerBounds ==
    /\ MaxTime \in Nat /\ MaxReads \in Nat /\ MaxOps \in Nat
    /\ None \notin Task /\ Torn \notin Content
  BY TaskScheduleAssumption

LEMMA OpIsSome == ASSUME NEW op \in Op PROVE op # NoOp
<1>1. DOMAIN op = {"kind", "task", "fields", "to", "tick", "phase", "found", "data", "mixed"}
  BY DEF Op
<1>2. DOMAIN NoOp = {"task"}
  BY DEF NoOp
<1> QED BY <1>1, <1>2

Kinds == {"create", "patch", "delete"}
Fields == {"at", "enabled", "cron"}

LEMMA NewOpIs ==
    ASSUME NEW kind \in Kinds, NEW t \in Tasks, NEW fields \in SUBSET Fields,
           NEW to \in Task \cup {None}, NEW tick \in BOOLEAN
    PROVE  /\ NewOp(kind, t, fields, to, tick) \in Op
           /\ (kind = "delete" <=> to = None) => OpOK(NewOp(kind, t, fields, to, tick))
  BY DEF NewOp, Op, OpPhases, Kinds, Fields, OpOK

\* What is begun takes free places.
LEMMA Begun ==
    ASSUME TimerTypeOK, NEW new, new \subseteq Op, Begin(new)
    PROVE  /\ ops' \in [Slots -> Op \cup {NoOp}] /\ calm' \in BOOLEAN
           /\ \A o \in Slots : ops'[o] \in new \/ ops'[o] = ops[o]
           /\ calm' => calm /\ Quiet
<1> DEFINE free == {o \in Slots : ops[o] = NoOp}
           slot == CHOOSE f \in Injection(new, free) : TRUE
           Later(o) == IF \E op \in new : slot[op] = o
                      THEN CHOOSE op \in new : slot[op] = o ELSE ops[o]
<1>1. ops' = [o \in Slots |-> Later(o)]
  BY DEF Begin
<1>2. \A o \in Slots : Later(o) \in new \/ Later(o) = ops[o]
  OBVIOUS
<1>3. calm' = (calm /\ Quiet /\ \A op1, op2 \in new : op1 = op2)
  BY DEF Begin
<1> HIDE DEF Later
<1>4. \A o \in Slots : Later(o) \in Op \cup {NoOp}
  BY <1>2 DEF TimerTypeOK
<1> QED BY <1>1, <1>2, <1>3, <1>4 DEF TimerTypeOK

\* An operation that begins alone.
LEMMA BegunAlone ==
    ASSUME TimerTypeOK, NEW new, new \subseteq Op, new # {}, Begin(new), calm'
    PROVE  \E op \in new : /\ new = {op}
                           /\ \E o \in Slots : Busy' = {o} /\ ops'[o] = op
<1>1. PICK op \in new : new = {op}
  BY DEF Begin
<1> DEFINE free == {o \in Slots : ops[o] = NoOp}
           slot == CHOOSE f \in Injection(new, free) : TRUE
<1>2. calm' = (calm /\ Quiet /\ \A op1, op2 \in new : op1 = op2)
  BY DEF Begin
<1>3. free = Slots
  BY <1>2 DEF Quiet, Busy
<1>4. free # {}
  <2>1. Cardinality(new) <= Cardinality(free)
    BY DEF Begin
  <2>2. Cardinality(new) = 1 /\ Cardinality({}) = 0
    BY <1>1, FS_Singleton, FS_EmptySet
  <2> QED BY <2>1, <2>2
<1>5. slot \in Injection(new, free)
  <2>1. PICK s \in free : TRUE
    BY <1>4
  <2>2. [x \in new |-> s] \in Injection(new, free)
    BY <1>1, <2>1 DEF Injection, IsInjective
  <2> QED BY <2>2
<1>6. slot[op] \in free
  BY <1>5 DEF Injection
<1> DEFINE Later(o) == IF \E x \in new : slot[x] = o
                       THEN CHOOSE x \in new : slot[x] = o ELSE ops[o]
<1>7. ops' = [o \in Slots |-> Later(o)]
  BY DEF Begin
<1> HIDE DEF slot
<1>8. \A o \in Slots : Later(o) = IF o = slot[op] THEN op ELSE ops[o]
  BY <1>1
<1> HIDE DEF Later
<1>9. \A o \in Slots : ops'[o] = IF o = slot[op] THEN op ELSE NoOp
  BY <1>3, <1>7, <1>8
<1>10. op # NoOp
  BY OpIsSome
<1>11. Busy' = {slot[op]} /\ ops'[slot[op]] = op
  BY <1>3, <1>6, <1>9, <1>10 DEF Busy
<1> QED BY <1>1, <1>3, <1>6, <1>11

-----------------------------------------------------------------------------
(***************************************************************************)
(* The steps of an operation.                                              *)
(***************************************************************************)
LEMMA OpTurns ==
    ASSUME TimerTypeOK, NEW o \in Busy, NEW new \in Op \cup {NoOp}, ops' = [ops EXCEPT ![o] = new]
    PROVE  /\ ops' \in [Slots -> Op \cup {NoOp}]
           /\ ops'[o] = new /\ \A p \in Slots \ {o} : ops'[p] = ops[p]
           /\ new = NoOp => Busy' = Busy \ {o}
           /\ new \in Op => Busy' = Busy
<1>1. ops \in [Slots -> Op \cup {NoOp}] /\ o \in Slots
  BY DEF TimerTypeOK, Busy
<1>2. new \in Op => new # NoOp
  BY OpIsSome
<1> QED BY <1>1, <1>2 DEF Busy

\* What is known of an operation under way.
LEMMA OpFacts ==
    ASSUME TimerInv, NEW o \in Busy
    PROVE  ops[o] \in Op /\ OpOK(ops[o])
  BY DEF TimerInv, TimerTypeOK, Busy

LEMMA FindKeeps == ASSUME TimerInv, NEW o \in Slots, Find(o) PROVE TimerInv'
<1> DEFINE op == ops[o]
           new == IF file[op.task] = None THEN NoOp
                  ELSE [op EXCEPT !.phase = "load", !.found = file[op.task]]
<1>1. /\ alive /\ o \in Busy /\ op.phase = "find" /\ file # Torn
      /\ ops' = [ops EXCEPT ![o] = new]
      /\ UNCHANGED <<clock, registry, file, updater, requests, timerHistory, calm, whole>>
  BY DEF Find
<1>2. op \in Op /\ OpOK(op) /\ op.kind = "patch" /\ op.task \in Tasks
  BY <1>1, OpFacts DEF OpOK, Op
<1>3. file \in Content /\ TimerTypeOK
  BY <1>1 DEF TimerInv, TimerTypeOK
<1>4. file[op.task] # None =>
         /\ new \in Op /\ OpOK(new) /\ new.phase = "load" /\ new.found = file[op.task]
         /\ new.kind = op.kind /\ new.task = op.task /\ new.fields = op.fields /\ new.to = op.to
         /\ new.tick = op.tick /\ new.mixed = op.mixed
  BY <1>2, <1>3 DEF Op, OpPhases, OpOK, Content
<1>5. new \in Op \cup {NoOp}
  BY <1>4
<1> HIDE DEF new
<1>6. /\ ops' \in [Slots -> Op \cup {NoOp}]
      /\ ops'[o] = new /\ \A p \in Slots \ {o} : ops'[p] = ops[p]
      /\ new = NoOp => Busy' = Busy \ {o}
      /\ new \in Op => Busy' = Busy
  BY <1>1, <1>3, <1>5, OpTurns
<1>7. file[op.task] = None => new = NoOp
  BY DEF new
<1>8. Busy' \subseteq Busy /\ Busy \subseteq Slots
  BY <1>5, <1>6 DEF Busy
<1>9. TimerTypeOK'
  BY <1>1, <1>3, <1>6 DEF TimerTypeOK, clock, updater, timerHistory
<1>10. \A p \in Busy' : OpOK(ops'[p])
  <2>1. \A p \in Busy' : ops'[p] # NoOp
    BY DEF Busy
  <2> QED BY <2>1, <1>4, <1>5, <1>6, <1>7, <1>8, OpFacts
<1>11. Halted'
  BY <1>1 DEF Halted, clock
<1>12. ASSUME calm' PROVE OneByOne' /\ InStep'
  <2>1. OneByOne /\ InStep
    BY <1>1, <1>12 DEF TimerInv
  <2>2. Busy = {o} /\ OnItsWay(op)
    BY <1>1, <2>1 DEF OneByOne, InStep
  <2>3. file[op.task] # None
    BY <2>2, <1>1, <1>2 DEF OnItsWay
  <2>4. Busy' = {o}
    BY <1>4, <1>6, <2>2, <2>3
  <2>5. OneByOne'
    BY <1>1, <2>1, <2>2, <2>4 DEF OneByOne, updater
  <2>6. OnItsWay(ops[o])'
    BY <1>1, <1>2, <1>4, <1>6, <2>2, <2>3 DEF OnItsWay, Aim
  <2> QED BY <1>1, <2>1, <2>4, <2>5, <2>6 DEF InStep, updater
<1>13. ASSUME calm', whole' PROVE Orderly'
  <2>1. Orderly
    BY <1>1, <1>13 DEF TimerInv
  <2>2. \A p \in Busy' : Told(ops[p])'
    <3>1. \A p \in Busy' : ops'[p] # NoOp
      BY DEF Busy
    <3>2. \A p \in Busy' : Told(ops'[p])
      BY <3>1, <1>1, <1>4, <1>6, <1>7, <1>8, <2>1 DEF Told, Orderly
    <3> QED BY <3>2, <1>1 DEF Told, timerHistory
  <2> QED BY <1>1, <2>1, <2>2 DEF Orderly, Obeyed, Known, timerHistory, clock
<1> QED BY <1>9, <1>10, <1>11, <1>12, <1>13 DEF TimerInv

LEMMA RewrittenIs ==
    ASSUME NEW op \in Op, OpOK(op), op.phase = "load", file \in Content
    PROVE  /\ Rewritten(op, file) \in Content
           /\ OnItsWay(op) => Rewritten(op, file) = Aim(op)
<1> DEFINE patched == [cron    |-> IF "cron" \in op.fields THEN op.to.cron ELSE op.found.cron,
                       at      |-> IF "at" \in op.fields THEN op.to.at ELSE op.found.at,
                       enabled |-> IF "enabled" \in op.fields THEN op.to.enabled
                                   ELSE op.found.enabled]
<1>1. op.task \in Tasks /\ op.kind \in Kinds /\ op.to \in Task \cup {None} /\ op.found \in Task \cup {None}
  BY DEF Op, Kinds
<1>2. op.kind = "patch" => op.to \in Task /\ op.found \in Task
  BY <1>1 DEF OpOK
<1>3. op.kind = "patch" => patched \in Task
  BY <1>2 DEF Task
<1>4. Rewritten(op, file) = [file EXCEPT ![op.task] = CASE op.kind = "delete" -> None
                                                       [] op.kind = "create" -> op.to
                                                       [] OTHER -> patched]
  BY DEF Rewritten
<1>5. ASSUME op.kind = "patch", OnItsWay(op) PROVE patched = op.to
  <2>1. /\ "cron" \notin op.fields => op.to.cron = op.found.cron
        /\ "at" \notin op.fields => op.to.at = op.found.at
        /\ "enabled" \notin op.fields => op.to.enabled = op.found.enabled
    BY <1>5 DEF OnItsWay
  <2>2. patched = [cron |-> op.to.cron, at |-> op.to.at, enabled |-> op.to.enabled]
    BY <2>1
  <2> QED BY <1>2, <1>5, <2>2 DEF Task
<1> HIDE DEF patched
<1>6. Rewritten(op, file) \in Content
  BY <1>1, <1>2, <1>3, <1>4 DEF Content, Kinds
<1>7. ASSUME OnItsWay(op) PROVE Rewritten(op, file) = Aim(op)
  <2>1. Aim(op) = [file EXCEPT ![op.task] = op.to]
    BY <1>7 DEF OnItsWay
  <2>2. op.kind = "delete" => op.to = None
    BY DEF OpOK
  <2> QED BY <1>1, <1>4, <1>5, <1>7, <2>1, <2>2 DEF Kinds
<1> QED BY <1>6, <1>7

LEMMA LoadKeeps == ASSUME TimerInv, NEW o \in Slots, Load(o) PROVE TimerInv'
<1> DEFINE op == ops[o]
           new == [op EXCEPT !.phase = "write", !.data = Rewritten(op, file), !.mixed = (Writing # {})]
<1>1. /\ alive /\ o \in Busy /\ op.phase = "load" /\ file # Torn
      /\ ops' = [p \in Slots |->
                   IF p = o THEN new
                   ELSE IF p \in Writing THEN [ops[p] EXCEPT !.mixed = TRUE] ELSE ops[p]]
      /\ UNCHANGED <<clock, registry, file, updater, requests, timerHistory, calm, whole>>
  BY DEF Load
<1>2. op \in Op /\ OpOK(op) /\ op.task \in Tasks
  BY <1>1, OpFacts DEF Op
<1>3. file \in Content /\ TimerTypeOK
  BY <1>1 DEF TimerInv, TimerTypeOK
<1>4. Rewritten(op, file) \in Content /\ (OnItsWay(op) => Rewritten(op, file) = Aim(op))
  BY <1>1, <1>2, <1>3, RewrittenIs
<1>5. /\ new \in Op /\ OpOK(new) /\ new.phase = "write" /\ new.data = Rewritten(op, file)
      /\ new.kind = op.kind /\ new.task = op.task /\ new.fields = op.fields /\ new.to = op.to
      /\ new.tick = op.tick /\ new.mixed = (Writing # {})
  BY <1>2, <1>4 DEF Op, OpPhases, OpOK
<1> HIDE DEF new
<1>6. \A p \in Busy : [ops[p] EXCEPT !.mixed = TRUE] \in Op /\ OpOK([ops[p] EXCEPT !.mixed = TRUE])
                      /\ (Told(ops[p]) => Told([ops[p] EXCEPT !.mixed = TRUE]))
  BY OpFacts DEF Op, OpOK, Told
<1>7. \A p \in Busy : ops[p] \in Op /\ OpOK(ops[p])
  BY OpFacts
<1>8. /\ \A p \in Slots \ Busy : ops'[p] = NoOp /\ ops[p] = NoOp
      /\ \A p \in Busy : ops'[p] \in Op /\ OpOK(ops'[p])
      /\ \A p \in Busy \ {o} : Told(ops[p]) => Told(ops'[p])
  <2>1. Writing \subseteq Busy /\ Busy \subseteq Slots
    BY DEF Writing, Busy
  <2>2. \A p \in Slots \ Busy : ops'[p] = NoOp /\ ops[p] = NoOp
    BY <1>1, <2>1 DEF Busy
  <2>3. \A p \in Busy : \/ p = o /\ ops'[p] = new
                        \/ p # o /\ ops'[p] \in {[ops[p] EXCEPT !.mixed = TRUE], ops[p]}
    BY <1>1, <2>1
  <2> QED BY <1>5, <1>6, <1>7, <2>2, <2>3
<1>9. Busy' = Busy /\ ops' \in [Slots -> Op \cup {NoOp}] /\ ops'[o] = new
  <2>1. \A p \in Busy : ops'[p] # NoOp
    BY <1>8, OpIsSome
  <2>2. \A p \in Slots : ops'[p] \in Op \cup {NoOp}
    BY <1>8
  <2>3. DOMAIN ops' = Slots /\ ops' = [p \in Slots |-> ops'[p]]
    BY <1>1
  <2> QED BY <1>1, <1>8, <2>1, <2>2, <2>3 DEF Busy
<1>10. TimerTypeOK'
  BY <1>1, <1>3, <1>9 DEF TimerTypeOK, clock, updater, timerHistory
<1>11. \A p \in Busy' : OpOK(ops'[p])
  BY <1>8, <1>9
<1>12. Halted'
  BY <1>1 DEF Halted, clock
<1>13. ASSUME calm' PROVE OneByOne' /\ InStep'
  <2>1. OneByOne /\ InStep
    BY <1>1, <1>13 DEF TimerInv
  <2>2. Busy = {o} /\ OnItsWay(op)
    BY <1>1, <2>1 DEF OneByOne, InStep
  <2>3. Writing = {}
    BY <2>2, <1>1 DEF Writing
  <2>4. OneByOne'
    BY <1>1, <1>9, <2>1 DEF OneByOne, updater
  <2>5. OnItsWay(ops[o])'
    BY <1>1, <1>4, <1>5, <1>9, <2>2, <2>3 DEF OnItsWay, Aim
  <2> QED BY <1>1, <1>9, <2>1, <2>2, <2>4, <2>5 DEF InStep, updater
<1>14. ASSUME calm', whole' PROVE Orderly'
  <2>1. Orderly
    BY <1>1, <1>14 DEF TimerInv
  <2>2. \A p \in Busy' : Told(ops[p])'
    <3>1. \A p \in Busy : Told(ops'[p])
      BY <1>1, <1>5, <1>8, <1>9, <2>1 DEF Told, Orderly
    <3> QED BY <3>1, <1>1, <1>9 DEF Told, timerHistory
  <2> QED BY <1>1, <2>1, <2>2 DEF Orderly, Obeyed, Known, timerHistory, clock
<1> QED BY <1>10, <1>11, <1>12, <1>13, <1>14 DEF TimerInv

\* An operation that is alone never finds half a file.
LEMMA ReadFailsKeeps == ASSUME TimerInv, NEW o \in Slots, ReadFails(o) PROVE TimerInv'
<1>1. /\ alive /\ o \in Busy /\ ops[o].phase # "write" /\ (file = Torn \/ Writing # {})
      /\ ops' = [ops EXCEPT ![o] = NoOp]
      /\ UNCHANGED <<clock, registry, file, updater, requests, timerHistory, calm, whole>>
  BY DEF ReadFails
<1>2. TimerTypeOK
  BY DEF TimerInv
<1>3. /\ ops' \in [Slots -> Op \cup {NoOp}] /\ Busy' = Busy \ {o}
      /\ \A p \in Slots \ {o} : ops'[p] = ops[p]
  BY <1>1, <1>2, OpTurns
<1>4. ~calm
  <2> SUFFICES ASSUME calm PROVE FALSE
    OBVIOUS
  <2>1. OneByOne /\ InStep
    BY <1>1 DEF TimerInv
  <2> QED BY <1>1, <2>1 DEF OneByOne, InStep, Writing
<1>5. TimerTypeOK'
  BY <1>1, <1>2, <1>3 DEF TimerTypeOK, clock, updater, timerHistory
<1>6. \A p \in Busy' : OpOK(ops'[p])
  BY <1>3, OpFacts DEF Busy
<1>7. Halted'
  BY <1>1 DEF Halted, clock
<1> QED BY <1>1, <1>4, <1>5, <1>6, <1>7 DEF TimerInv

LEMMA WrittenKeeps == ASSUME TimerInv, NEW o \in Slots, Written(o) PROVE TimerInv'
<1> DEFINE op == ops[o]
           answer == IF op.to = None THEN "gone" ELSE IF op.to.enabled THEN "on" ELSE "paused"
<1>1. /\ alive /\ o \in Busy /\ op.phase = "write"
      /\ file' \in {op.data} \cup (IF op.mixed THEN {Torn} ELSE {})
      /\ ops' = [ops EXCEPT ![o] = NoOp]
      /\ registry' = IF op.tick THEN registry ELSE [registry EXCEPT ![op.task] = op.to]
      /\ orders' = IF op.tick THEN orders ELSE [orders EXCEPT ![op.task] = answer]
      /\ fired' = IF "cron" \in op.fields THEN [fired EXCEPT ![op.task] = {}] ELSE fired
      /\ changed' = TRUE
      /\ UNCHANGED <<clock, reads, prints, requests, faults, calm, whole>>
  BY DEF Written, Writing
<1>2. TimerTypeOK /\ op \in Op /\ op.data \in Content /\ op.task \in Tasks /\ op.to \in Task \cup {None}
  BY <1>1, OpFacts DEF TimerInv, Op, OpOK
<1>3. /\ ops' \in [Slots -> Op \cup {NoOp}] /\ Busy' = Busy \ {o}
      /\ \A p \in Slots \ {o} : ops'[p] = ops[p]
  BY <1>1, <1>2, OpTurns
<1>4. answer \in {"on", "paused", "gone"}
  OBVIOUS
<1> HIDE DEF answer
<1>5. TimerTypeOK'
  <2>1. file' \in Content \cup {Torn}
    BY <1>1, <1>2
  <2>2. registry' \in Content
    BY <1>1, <1>2 DEF TimerTypeOK, Content
  <2>3. orders' \in [Tasks -> {"new", "asked", "on", "paused", "gone"}]
    BY <1>1, <1>2, <1>4 DEF TimerTypeOK
  <2>4. fired' \in [Tasks -> SUBSET Times]
    BY <1>1, <1>2 DEF TimerTypeOK
  <2> QED BY <1>1, <1>2, <1>3, <2>1, <2>2, <2>3, <2>4 DEF TimerTypeOK, clock
<1>6. \A p \in Busy' : OpOK(ops'[p])
  BY <1>3, OpFacts DEF Busy
<1>7. Halted'
  BY <1>1 DEF Halted, clock
<1>8. ASSUME calm'
      PROVE  OneByOne /\ InStep /\ Busy' = {} /\ file' = Aim(op) /\ registry' = Aim(op)
             /\ file' # Torn
  <2>1. OneByOne /\ InStep
    BY <1>1, <1>8 DEF TimerInv
  <2>2. Busy = {o} /\ OnItsWay(op)
    BY <1>1, <2>1 DEF OneByOne, InStep
  <2>3. file' = op.data /\ op.data = Aim(op)
    BY <1>1, <2>2 DEF OnItsWay
  <2> QED BY <1>1, <1>2, <1>3, <2>1, <2>2, <2>3, TimerBounds DEF Aim
<1>9. ASSUME calm' PROVE OneByOne' /\ InStep'
  <2>1. reads' = <<>>
    BY <1>1, <1>8, <1>9 DEF OneByOne
  <2> QED BY <1>8, <1>9, <2>1 DEF OneByOne, InStep
<1>10. ASSUME calm', whole' PROVE Orderly'
  <2>1. Orderly
    BY <1>1, <1>10 DEF TimerInv
  <2>2. Obeyed(registry) /\ Told(op)
    BY <1>1, <2>1 DEF Orderly, Known
  <2>3. \A t \in Tasks : fired'[t] \subseteq fired[t] /\ (t = op.task /\ "cron" \in op.fields => fired'[t] = {})
    BY <1>1, <1>2 DEF TimerTypeOK
  <2>4. Obeyed(registry)'
    <3> SUFFICES ASSUME NEW t \in Tasks
                 PROVE  /\ registry'[t] # None => registry'[t].at \notin fired'[t]
                        /\ orders'[t] = "gone" => registry'[t] = None
                        /\ orders'[t] = "paused" /\ registry'[t] # None => ~registry'[t].enabled
                        /\ orders'[t] = "new" => registry'[t] = None /\ fired'[t] = {}
      BY DEF Obeyed
    <3>1. CASE op.tick \/ t # op.task
      <4>1. registry'[t] = registry[t] /\ orders'[t] = orders[t]
        BY <1>1, <1>2, <3>1 DEF TimerTypeOK, Content
      <4> QED BY <2>2, <2>3, <4>1 DEF Obeyed
    <3>2. CASE ~op.tick /\ t = op.task
      <4>1. registry'[t] = op.to /\ orders'[t] = answer
        BY <1>1, <1>2, <3>2 DEF TimerTypeOK, Content
      <4> QED BY <2>2, <2>3, <3>2, <4>1 DEF Told, answer
    <3> QED BY <3>1, <3>2
  <2>5. \A t \in Tasks : fired'[t] \subseteq 0..now'
    BY <1>1, <2>1, <2>3 DEF Orderly, clock
  <2> QED BY <1>1, <1>8, <1>10, <2>1, <2>4, <2>5 DEF Orderly, Known, clock
<1> QED BY <1>5, <1>6, <1>7, <1>9, <1>10 DEF TimerInv

-----------------------------------------------------------------------------
(***************************************************************************)
(* The timer.                                                              *)
(***************************************************************************)
LEMMA RescheduledIs ==
    ASSUME TimerTypeOK, NEW t \in Tasks, Due(t)
    PROVE  /\ registry[t] \in Task /\ registry[t].at \in 0..now
           /\ Rescheduled(t) \in Task \cup {None}
           /\ registry[t].cron => /\ Rescheduled(t) \in Task /\ Rescheduled(t).at = now + 1
                                  /\ Rescheduled(t).cron = registry[t].cron
                                  /\ Rescheduled(t).enabled = registry[t].enabled
           /\ ~registry[t].cron => Rescheduled(t) = None
<1>1. registry[t] \in Task /\ registry[t].at <= now /\ now \in 0..MaxTime /\ MaxTime \in Nat
  BY TimerBounds DEF TimerTypeOK, Content, Due
<1>2. registry[t].at \in Nat /\ now + 1 \in Times
  BY <1>1 DEF Task, Times
<1>3. [registry[t] EXCEPT !.at = now + 1] \in Task
  BY <1>1, <1>2 DEF Task
<1>4. registry[t].at \in 0..now
  BY <1>1, <1>2
<1> QED BY <1>1, <1>3, <1>4 DEF Rescheduled, Task

TickOp(t) ==
    NewOp(IF registry[t].cron THEN "patch" ELSE "delete", t, {"at"}, Rescheduled(t), TRUE)

LEMMA TickOpIs ==
    ASSUME TimerTypeOK, NEW t \in Tasks, Due(t)
    PROVE  /\ TickOp(t) \in Op /\ OpOK(TickOp(t)) /\ TickOp(t).task = t /\ TickOp(t).tick
           /\ TickOp(t).to = Rescheduled(t) /\ TickOp(t).fields = {"at"}
           /\ TickOp(t).phase # "write" /\ ~TickOp(t).mixed
           /\ TickOp(t).kind = "patch" => registry[t].cron /\ TickOp(t).phase = "find"
<1>1. IF registry[t].cron THEN Rescheduled(t) \in Task ELSE Rescheduled(t) = None
  BY RescheduledIs
<1> DEFINE kind == IF registry[t].cron THEN "patch" ELSE "delete"
<1>2. kind \in Kinds /\ (kind = "delete" <=> Rescheduled(t) = None)
  BY <1>1, TimerBounds DEF Kinds
<1>3. TickOp(t) \in Op /\ OpOK(TickOp(t))
  BY <1>1, <1>2, NewOpIs DEF TickOp, Fields
<1> QED BY <1>3 DEF TickOp, NewOp

LEMMA TickKeeps == ASSUME TimerInv, Tick PROVE TimerInv'
<1> DEFINE due == {t \in Tasks : Due(t)}
           new == {TickOp(t) : t \in due}
<1>1. /\ alive /\ due # {} /\ Fires(due) /\ Begin(new)
      /\ registry' = [t \in Tasks |-> IF t \in due THEN Rescheduled(t) ELSE registry[t]]
      /\ UNCHANGED <<clock, file, updater, requests, whole>>
  BY DEF Tick, TickOp
<1>2. TimerTypeOK
  BY DEF TimerInv
<1>3. new \subseteq Op /\ new # {} /\ \A op \in new : OpOK(op)
  BY <1>1, <1>2, TickOpIs
<1>4. /\ ops' \in [Slots -> Op \cup {NoOp}] /\ calm' \in BOOLEAN
      /\ \A o \in Slots : ops'[o] \in new \/ ops'[o] = ops[o]
      /\ calm' => calm /\ Quiet
  BY <1>1, <1>2, <1>3, Begun
<1>5. /\ fired' = [t \in Tasks |-> fired[t] \cup {registry[u].at : u \in due \cap {t}}]
      /\ \A t \in Tasks \ due : fired'[t] = fired[t]
      /\ \A t \in due : fired'[t] = fired[t] \cup {registry[t].at}
      /\ orders' = orders
  <2>1. fired' = [t \in Tasks |-> fired[t] \cup {registry[u].at : u \in due \cap {t}}] /\ orders' = orders
    BY <1>1 DEF Fires
  <2>2. \A t \in Tasks \ due : {registry[u].at : u \in due \cap {t}} = {}
    OBVIOUS
  <2>3. \A t \in due : {registry[u].at : u \in due \cap {t}} = {registry[t].at}
    OBVIOUS
  <2> QED BY <2>1, <2>2, <2>3
<1>6. faults' = faults \cup
         {f \in [task : due, kind : {"again", "refused"}, cron : BOOLEAN] :
            /\ f.cron = registry[f.task].cron
            /\ IF f.kind = "again" THEN registry[f.task].at \in fired[f.task]
               ELSE orders[f.task] \in {"paused", "gone"}}
  BY <1>1 DEF Fires
<1>7. \A t \in Tasks : registry'[t] = IF t \in due THEN Rescheduled(t) ELSE registry[t]
  BY <1>1
<1>8. TimerTypeOK'
  <2>1. registry' \in Content
    <3>1. \A t \in Tasks : registry[t] \in Task \cup {None}
      BY <1>2 DEF TimerTypeOK, Content
    <3>2. \A t \in due : Rescheduled(t) \in Task \cup {None}
      BY <1>2, RescheduledIs
    <3> QED BY <1>1, <3>1, <3>2 DEF Content
  <2>2. fired' \in [Tasks -> SUBSET Times]
    <3>1. \A t \in due : registry[t].at \in Times
      BY <1>2, RescheduledIs DEF Task
    <3>2. \A t \in Tasks : fired'[t] \subseteq Times
      BY <1>2, <1>5, <3>1 DEF TimerTypeOK
    <3> QED BY <1>5, <3>2
  <2>3. faults' \subseteq [task : Tasks, kind : {"again", "refused"}, cron : BOOLEAN]
    <3>1. [task : due, kind : {"again", "refused"}, cron : BOOLEAN]
            \subseteq [task : Tasks, kind : {"again", "refused"}, cron : BOOLEAN]
      OBVIOUS
    <3> QED BY <1>2, <1>6, <3>1 DEF TimerTypeOK
  <2> QED BY <1>1, <1>2, <1>4, <1>5, <2>1, <2>2, <2>3 DEF TimerTypeOK, clock, updater
<1>9. \A p \in Busy' : OpOK(ops'[p])
  BY <1>3, <1>4, OpFacts DEF Busy
<1>10. Halted'
  BY <1>1 DEF Halted, clock
<1> HIDE DEF new, due
<1>11. ASSUME calm'
       PROVE  /\ calm /\ OneByOne /\ InStep /\ registry = file /\ reads = <<>>
              /\ \E t \in due : /\ due = {t}
                                /\ \E o \in Slots : Busy' = {o} /\ ops'[o] = TickOp(t)
  <2>1. calm /\ OneByOne /\ InStep /\ registry = file /\ reads = <<>>
    BY <1>1, <1>4, <1>11 DEF TimerInv, InStep, Quiet
  <2>2. PICK op \in new : new = {op} /\ \E o \in Slots : Busy' = {o} /\ ops'[o] = op
    BY <1>1, <1>2, <1>3, <1>11, BegunAlone
  <2>3. PICK t \in due : op = TickOp(t)
    BY <2>2 DEF new
  <2>4. \A u \in due : u = t
    <3> SUFFICES ASSUME NEW u \in due PROVE u = t
      OBVIOUS
    <3>1. TickOp(u) = TickOp(t)
      BY <2>2, <2>3 DEF new
    <3> QED BY <1>2, <3>1, TickOpIs DEF due
  <2> QED BY <2>1, <2>2, <2>3, <2>4
<1>12. ASSUME calm' PROVE OneByOne' /\ InStep'
  <2>1. PICK t \in due, o \in Slots : due = {t} /\ Busy' = {o} /\ ops'[o] = TickOp(t)
    BY <1>11, <1>12
  <2>2. t \in Tasks /\ Due(t)
    BY DEF due
  <2>3. reads' = <<>> /\ file' = file /\ registry = file /\ registry \in Content
    BY <1>1, <1>2, <1>11, <1>12 DEF updater, TimerTypeOK
  <2>4. OneByOne'
    BY <2>1, <2>3 DEF OneByOne
  <2>5. registry' = [file EXCEPT ![t] = Rescheduled(t)]
    BY <1>1, <2>1, <2>3 DEF Content
  <2>6. registry[t] # None
    BY <2>2 DEF Due
  <2>7. /\ TickOp(t).task = t /\ TickOp(t).tick /\ TickOp(t).to = Rescheduled(t)
        /\ TickOp(t).fields = {"at"} /\ TickOp(t).phase # "write" /\ ~TickOp(t).mixed
        /\ TickOp(t).kind = "patch" => registry[t].cron /\ TickOp(t).phase = "find"
    BY <1>2, <2>2, TickOpIs
  <2>8. registry[t].cron => /\ Rescheduled(t).cron = registry[t].cron
                            /\ Rescheduled(t).enabled = registry[t].enabled
    BY <1>2, <2>2, RescheduledIs
  <2>9. OnItsWay(ops[o])'
    BY <2>1, <2>3, <2>5, <2>6, <2>7, <2>8 DEF OnItsWay, Aim
  <2> QED BY <1>11, <1>12, <2>1, <2>3, <2>4, <2>9 DEF InStep
<1>13. ASSUME calm', whole' PROVE Orderly'
  <2>1. Orderly /\ Obeyed(registry) /\ file' = file
    BY <1>1, <1>11, <1>13 DEF TimerInv, Orderly, Known
  <2>2. \A t \in due : /\ t \in Tasks /\ Due(t) /\ registry[t] \in Task
                       /\ registry[t].at \in 0..now /\ registry[t].at \notin fired[t]
                       /\ orders[t] \notin {"paused", "gone", "new"}
    BY <1>2, <2>1, RescheduledIs DEF due, Obeyed, Due
  <2>3. faults' = {}
    <3>1. faults = {}
      BY <2>1 DEF Orderly
    <3> QED BY <1>6, <2>2, <3>1
  <2>4. \A t \in Tasks : fired'[t] \subseteq 0..now'
    BY <1>1, <1>5, <2>1, <2>2 DEF Orderly, clock
  <2>5. Obeyed(registry)'
    <3> SUFFICES ASSUME NEW t \in Tasks
                 PROVE  /\ registry'[t] # None => registry'[t].at \notin fired'[t]
                        /\ orders'[t] = "gone" => registry'[t] = None
                        /\ orders'[t] = "paused" /\ registry'[t] # None => ~registry'[t].enabled
                        /\ orders'[t] = "new" => registry'[t] = None /\ fired'[t] = {}
      BY DEF Obeyed
    <3>1. CASE t \notin due
      BY <1>5, <1>7, <2>1, <3>1 DEF Obeyed
    <3>2. CASE t \in due
      <4>1. now' + 1 \notin fired'[t] /\ now' = now
        BY <1>1, <1>2, <2>4, TimerBounds DEF clock, TimerTypeOK
      <4>2. registry'[t] = Rescheduled(t)
        BY <1>7, <3>2
      <4>3. registry'[t] # None => registry'[t].at = now + 1
        BY <1>2, <2>2, <3>2, <4>2, RescheduledIs
      <4> QED BY <1>5, <2>2, <3>2, <4>1, <4>3
    <3> QED BY <3>1, <3>2
  <2>6. \A p \in Busy' : Told(ops[p])'
    <3>1. PICK t \in due, o \in Slots : due = {t} /\ Busy' = {o} /\ ops'[o] = TickOp(t)
      BY <1>11, <1>13
    <3> QED BY <1>2, <2>2, <3>1, TickOpIs DEF Told
  <2> QED BY <1>1, <2>1, <2>3, <2>4, <2>5, <2>6 DEF Orderly, Known, clock
<1> QED BY <1>8, <1>9, <1>10, <1>12, <1>13 DEF TimerInv

-----------------------------------------------------------------------------
(***************************************************************************)
(* The API and the schedule tools.                                         *)
(***************************************************************************)

\* An operation as it begins changes what it may of the registry's entry.
FromRegistry(op) ==
    /\ op \in Op /\ OpOK(op) /\ ~op.tick /\ ~op.mixed /\ op.phase # "write"
    /\ op.kind = "patch" =>
         /\ registry[op.task] # None /\ op.phase = "find"
         /\ "cron" \notin op.fields => op.to.cron = registry[op.task].cron
         /\ "at" \notin op.fields => op.to.at = registry[op.task].at
         /\ "enabled" \notin op.fields => op.to.enabled = registry[op.task].enabled

\* No operation moves a task back to an occurrence that fired.
Renews(op) ==
    Obeyed(registry) /\ (\A t \in Tasks : fired[t] \subseteq 0..now) =>
        \/ op.to = None
        \/ "cron" \in op.fields
        \/ op.to.at \notin fired[op.task]

LEMMA AskKeeps ==
    ASSUME TimerInv, NEW op, FromRegistry(op), Renews(op), Ask(op)
    PROVE  TimerInv'
<1>1. /\ alive /\ requests < MaxOps /\ requests' = requests + 1
      /\ orders' = [orders EXCEPT ![op.task] = IF @ = "new" THEN "asked" ELSE @]
      /\ Begin({op})
      /\ UNCHANGED <<clock, registry, file, updater, fired, faults, whole>>
  BY DEF Ask
<1>2. TimerTypeOK /\ op \in Op /\ op.task \in Tasks /\ OpOK(op) /\ {op} \subseteq Op
  BY DEF TimerInv, FromRegistry, Op
<1>3. /\ ops' \in [Slots -> Op \cup {NoOp}] /\ calm' \in BOOLEAN
      /\ \A o \in Slots : ops'[o] \in {op} \/ ops'[o] = ops[o]
      /\ calm' => calm /\ Quiet
  BY <1>1, <1>2, Begun
<1>4. TimerTypeOK'
  <2>1. requests' \in 0..MaxOps
    BY <1>1, <1>2, TimerBounds DEF TimerTypeOK
  <2>2. orders' \in [Tasks -> {"new", "asked", "on", "paused", "gone"}]
    BY <1>1, <1>2 DEF TimerTypeOK
  <2> QED BY <1>1, <1>2, <1>3, <2>1, <2>2 DEF TimerTypeOK, clock, updater
<1>5. \A p \in Busy' : OpOK(ops'[p])
  BY <1>2, <1>3, OpFacts DEF Busy
<1>6. Halted'
  BY <1>1 DEF Halted, clock
<1>7. ASSUME calm'
      PROVE  /\ calm /\ OneByOne /\ InStep /\ registry = file /\ reads = <<>>
             /\ \E o \in Slots : Busy' = {o} /\ ops'[o] = op
  <2>1. calm /\ OneByOne /\ InStep /\ registry = file /\ reads = <<>>
    BY <1>1, <1>3, <1>7 DEF TimerInv, InStep, Quiet
  <2>2. \E x \in {op} : {op} = {x} /\ \E o \in Slots : Busy' = {o} /\ ops'[o] = x
    BY <1>1, <1>2, <1>7, BegunAlone
  <2> QED BY <2>1, <2>2
<1>8. ASSUME calm' PROVE OneByOne' /\ InStep'
  <2>1. PICK o \in Slots : Busy' = {o} /\ ops'[o] = op
    BY <1>7, <1>8
  <2>2. reads' = <<>> /\ file' = file /\ registry' = file /\ registry = file
    BY <1>1, <1>7, <1>8 DEF updater
  <2>3. OneByOne'
    BY <2>1, <2>2 DEF OneByOne
  <2>4. OnItsWay(ops[o])'
    BY <2>1, <2>2 DEF OnItsWay, Aim, FromRegistry
  <2> QED BY <1>7, <1>8, <2>1, <2>2, <2>3, <2>4 DEF InStep
<1>9. ASSUME calm', whole' PROVE Orderly'
  <2>1. Orderly /\ Obeyed(registry) /\ registry' = registry /\ fired' = fired
    BY <1>1, <1>7, <1>9 DEF TimerInv, Orderly, Known
  <2>2. /\ orders'[op.task] # "new"
        /\ \A t \in Tasks : \/ orders'[t] = orders[t]
                            \/ orders[t] = "new" /\ orders'[t] = "asked"
    BY <1>1, <1>2 DEF TimerTypeOK
  <2>3. Obeyed(registry)'
    BY <2>1, <2>2 DEF Obeyed
  <2>4. PICK o \in Slots : Busy' = {o} /\ ops'[o] = op
    BY <1>7, <1>9
  <2>5. Told(ops[o])'
    BY <2>1, <2>2, <2>4 DEF Told, Renews, Orderly
  <2> QED BY <1>1, <2>1, <2>3, <2>4, <2>5 DEF Orderly, Known, clock
<1> QED BY <1>4, <1>5, <1>6, <1>8, <1>9 DEF TimerInv

LEMMA InitialIs ==
    ASSUME TimerTypeOK, NEW cron \in BOOLEAN, NEW at \in Times
    PROVE  Initial(cron, at) \in Times /\ (Initial(cron, at) = at \/ Initial(cron, at) \notin 0..now)
  BY TimerBounds DEF TimerTypeOK, Initial, Times

\* What is known of an entry of the registry that is there.
LEMMA EntryIs ==
    ASSUME TimerTypeOK, NEW t \in Tasks, registry[t] # None
    PROVE  /\ registry[t] \in Task /\ registry[t].cron \in BOOLEAN /\ registry[t].at \in Times
           /\ registry[t].enabled \in BOOLEAN
  BY DEF TimerTypeOK, Content, Task

LEMMA CreateTaskKeeps ==
    ASSUME TimerInv, NEW t \in Tasks, NEW cron \in BOOLEAN, NEW at \in Times, Create(t, cron, at)
    PROVE  TimerInv'
<1> DEFINE to == [cron |-> cron, at |-> Initial(cron, at), enabled |-> TRUE]
           op == NewOp("create", t, {}, to, FALSE)
<1>1. orders[t] = "new" /\ Ask(op)
  BY DEF Create
<1>2. to \in Task
  BY InitialIs DEF TimerInv, Task
<1> HIDE DEF to
<1>3. op \in Op /\ OpOK(op)
  BY <1>2, NewOpIs, TimerBounds DEF Kinds, Fields
<1>4. FromRegistry(op)
  BY <1>3 DEF FromRegistry, NewOp
<1>5. Renews(op)
  BY <1>1 DEF Renews, NewOp, Obeyed
<1> QED BY <1>1, <1>4, <1>5, AskKeeps

LEMMA PatchKeeps ==
    ASSUME TimerInv, NEW t \in Tasks, registry[t] # None, NEW to \in Task,
           NEW fields \in SUBSET Fields, Ask(NewOp("patch", t, fields, to, FALSE)),
           /\ "cron" \notin fields => to.cron = registry[t].cron
           /\ "at" \notin fields => to.at = registry[t].at
           /\ "enabled" \notin fields => to.enabled = registry[t].enabled,
           \/ "cron" \in fields
           \/ to.at = registry[t].at
           \/ to.at \notin 0..now
    PROVE  TimerInv'
<1> DEFINE op == NewOp("patch", t, fields, to, FALSE)
<1>1. op \in Op /\ OpOK(op)
  BY NewOpIs, TimerBounds DEF Kinds
<1>2. FromRegistry(op)
  BY <1>1 DEF FromRegistry, NewOp
<1>3. Renews(op)
  BY DEF Renews, NewOp, Obeyed
<1> QED BY <1>2, <1>3, AskKeeps

LEMMA UpdateKeeps ==
    ASSUME TimerInv, NEW t \in Tasks, NEW cron \in BOOLEAN, NEW at \in Times, Update(t, cron, at)
    PROVE  TimerInv'
<1>1. registry[t] # None
  BY DEF Update
<1>2. PICK to \in {[registry[t] EXCEPT !.cron = cron, !.at = Initial(cron, at)], registry[t]} :
         Ask(NewOp("patch", t, Fields, to, FALSE))
  BY DEF Update, Fields
<1>3. to \in Task
  <2>1. registry[t] \in Task /\ Initial(cron, at) \in Times
    BY <1>1, EntryIs, InitialIs DEF TimerInv
  <2>2. [registry[t] EXCEPT !.cron = cron, !.at = Initial(cron, at)] \in Task
    BY <2>1 DEF Task
  <2> QED BY <2>1, <2>2
<1> QED BY <1>1, <1>2, <1>3, PatchKeeps DEF Fields

LEMMA PauseKeeps == ASSUME TimerInv, NEW t \in Tasks, Pause(t) PROVE TimerInv'
<1> DEFINE to == [registry[t] EXCEPT !.enabled = FALSE]
<1>1. registry[t] # None /\ Ask(NewOp("patch", t, {"enabled"}, to, FALSE))
  BY DEF Pause
<1>2. to \in Task /\ to.cron = registry[t].cron /\ to.at = registry[t].at
  BY <1>1, EntryIs DEF TimerInv, Task
<1> HIDE DEF to
<1> QED BY <1>1, <1>2, PatchKeeps DEF Fields

LEMMA ResumeKeeps == ASSUME TimerInv, NEW t \in Tasks, Resume(t) PROVE TimerInv'
<1> DEFINE first == Initial(registry[t].cron, registry[t].at)
           to == [registry[t] EXCEPT !.at = first, !.enabled = TRUE]
<1>1. registry[t] # None /\ Ask(NewOp("patch", t, {"at", "enabled"}, to, FALSE))
  BY DEF Resume
<1>2. first \in Times /\ (first = registry[t].at \/ first \notin 0..now)
  BY <1>1, EntryIs, InitialIs DEF TimerInv
<1> HIDE DEF first
<1>3. to \in Task /\ to.cron = registry[t].cron /\ to.at = first
  BY <1>1, <1>2, EntryIs DEF TimerInv, Task
<1> HIDE DEF to
<1> QED BY <1>1, <1>2, <1>3, PatchKeeps DEF Fields

LEMMA DeleteKeeps == ASSUME TimerInv, NEW t \in Tasks, Delete(t) PROVE TimerInv'
<1> DEFINE op == NewOp("delete", t, {}, None, FALSE)
<1>1. Ask(op)
  BY DEF Delete
<1>2. op \in Op /\ OpOK(op)
  BY NewOpIs DEF Kinds, Fields
<1>3. FromRegistry(op) /\ Renews(op)
  BY <1>2 DEF FromRegistry, Renews, NewOp
<1> QED BY <1>1, <1>3, AskKeeps

-----------------------------------------------------------------------------
(***************************************************************************)
(* The updater, the clock, crash and start.                                *)
(***************************************************************************)
LEMMA SeqFacts == ASSUME TimerTypeOK PROVE Len(reads) \in Nat /\ DOMAIN reads = 1..Len(reads)
                                           /\ \A i \in 1..Len(reads) : reads[i] \in Content
  BY LenProperties, ElementOfSeq DEF TimerTypeOK

LEMMA NoticeKeeps == ASSUME TimerInv, Notice PROVE TimerInv'
<1>1. /\ alive /\ changed /\ Len(reads) < MaxReads /\ changed' = FALSE
      /\ \/ file # Torn /\ reads' = Append(reads, file)
         \/ (file = Torn \/ Writing # {}) /\ reads' = reads
      /\ calm' = (calm /\ Quiet)
      /\ UNCHANGED <<clock, registry, file, ops, prints, requests, timerHistory, whole>>
  BY DEF Notice
<1>2. TimerTypeOK /\ Len(reads) \in Nat /\ MaxReads \in Nat
  BY SeqFacts, TimerBounds DEF TimerInv
<1>3. reads' \in Seq(Content) /\ Len(reads') <= MaxReads
  <2>1. CASE file # Torn /\ reads' = Append(reads, file)
    <3>1. file \in Content /\ reads \in Seq(Content)
      BY <1>2, <2>1 DEF TimerTypeOK
    <3>2. reads' \in Seq(Content) /\ Len(reads') = Len(reads) + 1
      BY <2>1, <3>1, AppendProperties
    <3> QED BY <1>1, <1>2, <3>2
  <2>2. CASE reads' = reads
    BY <1>2, <2>2 DEF TimerTypeOK
  <2> QED BY <1>1, <2>1, <2>2
<1>4. TimerTypeOK'
  <2>1. changed' \in BOOLEAN /\ calm' \in BOOLEAN
    BY <1>1, <1>2
  <2> QED BY <1>1, <1>2, <1>3, <2>1 DEF TimerTypeOK, clock, timerHistory
<1>5. \A p \in Busy' : OpOK(ops'[p])
  BY <1>1, OpFacts DEF Busy
<1>6. Halted'
  BY <1>1 DEF Halted, clock
<1>7. ASSUME calm' PROVE OneByOne' /\ InStep'
  <2>1. calm /\ Busy = {} /\ reads = <<>> /\ InStep /\ Busy' = {}
    BY <1>1, <1>7 DEF TimerInv, Quiet, Busy
  <2>2. reads' = Append(reads, file) /\ file' = file /\ registry' = registry
    BY <1>1, <2>1 DEF InStep, Writing
  <2>3. reads' = <<file>>
    BY <2>1, <2>2
  <2>4. Len(reads') = 1 /\ reads'[1] = file
    BY <2>3
  <2> QED BY <2>1, <2>2, <2>4 DEF OneByOne, InStep
<1>8. ASSUME calm', whole' PROVE Orderly'
  <2>1. Orderly
    BY <1>1, <1>8 DEF TimerInv
  <2>2. Busy' = {}
    BY <1>1, <1>8 DEF Quiet, Busy
  <2> QED BY <1>1, <2>1, <2>2 DEF Orderly, Obeyed, Known, timerHistory, clock
<1> QED BY <1>4, <1>5, <1>6, <1>7, <1>8 DEF TimerInv

LEMMA Removed ==
    ASSUME NEW S, NEW s \in Seq(S), NEW i \in 1..Len(s)
    PROVE  RemoveAt(s, i) \in Seq(S) /\ Len(RemoveAt(s, i)) = Len(s) - 1
<1>1. Len(s) \in Nat
  BY LenProperties
<1>2. SubSeq(s, 1, i - 1) \in Seq(S) /\ Len(SubSeq(s, 1, i - 1)) = i - 1
  BY <1>1, SubSeqProperties
<1>3. SubSeq(s, i + 1, Len(s)) \in Seq(S) /\ Len(SubSeq(s, i + 1, Len(s))) = Len(s) - i
  BY <1>1, SubSeqProperties
<1>4. RemoveAt(s, i) = SubSeq(s, 1, i - 1) \o SubSeq(s, i + 1, Len(s))
  BY DEF RemoveAt
<1> DEFINE a == SubSeq(s, 1, i - 1)
           b == SubSeq(s, i + 1, Len(s))
<1>5. a \in Seq(S) /\ b \in Seq(S) /\ RemoveAt(s, i) = a \o b
  BY <1>2, <1>3, <1>4
<1>6. Len(a) = i - 1 /\ Len(b) = Len(s) - i
  BY <1>2, <1>3
<1> HIDE DEF a, b
<1>7. a \o b \in Seq(S) /\ Len(a \o b) = Len(a) + Len(b)
  BY <1>5, ConcatProperties
<1>8. i \in Int /\ i - 1 + (Len(s) - i) = Len(s) - 1
  BY <1>1
<1> QED BY <1>5, <1>6, <1>7, <1>8

LEMMA ApplyKeeps == ASSUME TimerInv, NEW i \in DOMAIN reads, Apply(i) PROVE TimerInv'
<1> DEFINE entries == reads[i]
<1>1. /\ alive
      /\ registry' = [t \in Tasks |->
           IF entries[t] = None THEN None
           ELSE IF entries[t] = prints[t] THEN registry[t]
           ELSE entries[t]]
      /\ prints' = [t \in Tasks |->
           IF entries[t] # None THEN entries[t]
           ELSE IF registry[t] # None THEN None
           ELSE prints[t]]
      /\ reads' = RemoveAt(reads, i)
      /\ UNCHANGED <<clock, file, ops, changed, requests, timerHistory, calm, whole>>
  BY DEF Apply
<1>2. /\ TimerTypeOK /\ Len(reads) \in Nat /\ i \in 1..Len(reads) /\ entries \in Content
      /\ Len(reads) <= MaxReads /\ MaxReads \in Nat
  BY SeqFacts, TimerBounds DEF TimerInv, TimerTypeOK
<1>3. reads' \in Seq(Content) /\ Len(reads') = Len(reads) - 1
  BY <1>1, <1>2, Removed DEF TimerTypeOK
<1>4. TimerTypeOK'
  <2>1. Len(reads') <= MaxReads
    BY <1>2, <1>3
  <2>2. registry' \in Content /\ prints' \in Content
    BY <1>1, <1>2 DEF TimerTypeOK, Content
  <2> QED BY <1>1, <1>2, <1>3, <2>1, <2>2 DEF TimerTypeOK, clock, timerHistory
<1>5. \A p \in Busy' : OpOK(ops'[p])
  BY <1>1, OpFacts DEF Busy
<1>6. Halted'
  BY <1>1 DEF Halted, clock
<1>7. Busy' = Busy
  BY <1>1 DEF Busy
<1>8. ASSUME calm
      PROVE  OneByOne /\ InStep /\ Busy = {} /\ registry' = registry /\ registry = file
             /\ Len(reads) = 1
  <2>1. OneByOne /\ InStep
    BY <1>1, <1>8 DEF TimerInv
  <2>2. Busy = {} /\ Len(reads) = 1
    <3>1. reads # <<>>
      BY <1>2
    <3>2. Len(reads) <= 1 /\ Busy = {}
      BY <2>1, <3>1 DEF OneByOne
    <3>3. Len(reads) \in Nat
      BY <1>2
    <3>4. Len(reads) >= 1
      BY <1>2
    <3> DEFINE n == Len(reads)
    <3> HIDE DEF n
    <3>5. n \in Nat /\ n <= 1 /\ n >= 1 => n = 1
      OBVIOUS
    <3> QED BY <3>2, <3>3, <3>4, <3>5 DEF n
  <2>3. registry = file /\ entries = file
    BY <1>2, <2>1, <2>2 DEF InStep
  <2>4. \A t \in Tasks : registry'[t] = registry[t]
    BY <1>1, <2>3
  <2>5. registry' = registry
    BY <1>1, <1>2, <2>4 DEF TimerTypeOK, Content
  <2> QED BY <2>1, <2>2, <2>3, <2>5
<1>9. ASSUME calm' PROVE OneByOne' /\ InStep'
  <2>1. Len(reads') = 0
    <3>1. Len(reads) = 1
      BY <1>1, <1>8, <1>9
    <3> QED BY <1>3, <3>1
  <2> QED BY <1>1, <1>7, <1>8, <1>9, <2>1 DEF OneByOne, InStep
<1>10. ASSUME calm', whole' PROVE Orderly'
  <2>1. Orderly
    BY <1>1, <1>10 DEF TimerInv
  <2> QED BY <1>1, <1>7, <1>8, <1>10, <2>1 DEF Orderly, Obeyed, Known, timerHistory, clock
<1> QED BY <1>4, <1>5, <1>6, <1>9, <1>10 DEF TimerInv

LEMMA PassesKeeps == ASSUME TimerInv, Passes PROVE TimerInv'
<1>1. /\ now < MaxTime /\ now' = now + 1
      /\ UNCHANGED <<alive, registry, file, ops, updater, requests, timerHistory, calm, whole>>
  BY DEF Passes
<1>2. TimerTypeOK /\ now \in 0..MaxTime /\ now' \in 0..MaxTime
  BY <1>1, TimerBounds DEF TimerInv, TimerTypeOK
<1>3. TimerTypeOK' /\ Busy' = Busy
  BY <1>1, <1>2 DEF TimerTypeOK, updater, timerHistory, Busy
<1>4. (\A p \in Busy : OpOK(ops[p]))' /\ Halted'
  BY <1>1, <1>3 DEF TimerInv, Halted, updater
<1>5. ASSUME calm' PROVE OneByOne' /\ (alive' => InStep')
  BY <1>1, <1>3, <1>5 DEF TimerInv, OneByOne, InStep, OnItsWay, Aim, updater
<1>6. ASSUME calm', whole' PROVE Orderly'
  <2>1. Orderly
    BY <1>1, <1>6 DEF TimerInv
  <2>2. 0..now \subseteq 0..now'
    BY <1>1, <1>2, TimerBounds
  <2>3. \A t \in Tasks : fired'[t] \subseteq 0..now'
    BY <1>1, <2>1, <2>2 DEF Orderly, timerHistory
  <2> QED BY <1>1, <1>3, <2>1, <2>3 DEF Orderly, Obeyed, Known, Told, timerHistory
<1> QED BY <1>3, <1>4, <1>5, <1>6 DEF TimerInv

LEMMA TimerCrashKeeps == ASSUME TimerInv, TimerCrash PROVE TimerInv'
<1>1. /\ alive /\ alive' = FALSE
      /\ file' \in {file} \cup {ops[o].data : o \in Writing} \cup (IF Writing = {} THEN {} ELSE {Torn})
      /\ ops' = [o \in Slots |-> NoOp]
      /\ registry' = Nothing /\ changed' = FALSE /\ reads' = <<>> /\ prints' = Nothing
      /\ whole' = (whole /\ Quiet)
      /\ UNCHANGED <<now, requests, timerHistory, calm>>
  BY DEF TimerCrash
<1>2. TimerTypeOK /\ Busy' = {}
  BY <1>1 DEF TimerInv, Busy
<1>3. TimerTypeOK'
  <2>1. \A o \in Writing : ops[o].data \in Content
    BY OpFacts DEF OpOK, Writing
  <2>2. file' \in Content \cup {Torn}
    BY <1>1, <1>2, <2>1 DEF TimerTypeOK
  <2>3. Nothing \in Content
    BY DEF Nothing, Content
  <2>4. reads' \in Seq(Content) /\ Len(reads') <= MaxReads
    BY <1>1, TimerBounds
  <2>5. whole' \in BOOLEAN /\ alive' \in BOOLEAN /\ changed' \in BOOLEAN
    BY <1>1, <1>2 DEF TimerTypeOK
  <2> QED BY <1>1, <1>2, <2>2, <2>3, <2>4, <2>5 DEF TimerTypeOK, timerHistory
<1>4. Halted' /\ OneByOne'
  BY <1>1, <1>2 DEF Halted, OneByOne
<1>5. ASSUME calm', whole' PROVE Orderly'
  <2>1. Orderly /\ Busy = {} /\ InStep
    BY <1>1, <1>5 DEF TimerInv, Quiet
  <2>2. file' = file /\ registry = file
    BY <1>1, <2>1 DEF Writing, InStep
  <2> QED BY <1>1, <1>2, <2>1, <2>2 DEF Orderly, Obeyed, Known, timerHistory
<1> QED BY <1>1, <1>2, <1>3, <1>4, <1>5 DEF TimerInv

LEMMA BootKeeps == ASSUME TimerInv, Boot PROVE TimerInv'
<1>1. /\ ~alive /\ file # Torn /\ alive' = TRUE /\ registry' = file
      /\ UNCHANGED <<now, file, ops, updater, requests, timerHistory, calm, whole>>
  BY DEF Boot
<1>2. TimerTypeOK /\ Busy = {} /\ reads = <<>> /\ ~changed
  BY <1>1 DEF TimerInv, Halted
<1>3. TimerTypeOK' /\ Busy' = {} /\ reads' = <<>> /\ file' = file
  BY <1>1, <1>2 DEF TimerTypeOK, updater, timerHistory, Busy
<1>4. Halted' /\ OneByOne' /\ InStep'
  BY <1>1, <1>3 DEF Halted, OneByOne, InStep
<1>5. ASSUME calm', whole' PROVE Orderly'
  <2>1. Orderly
    BY <1>1, <1>5 DEF TimerInv
  <2> QED BY <1>1, <1>3, <2>1 DEF Orderly, Obeyed, Known, timerHistory
<1> QED BY <1>1, <1>3, <1>4, <1>5 DEF TimerInv

LEMMA TimerUnchanged == ASSUME TimerInv, UNCHANGED timerVars PROVE TimerInv'
<1>1. /\ UNCHANGED <<alive, now, registry, file, ops, changed, reads, prints, requests>>
      /\ UNCHANGED <<orders, fired, faults, calm, whole>>
  BY DEF timerVars, clock, updater, timerHistory
<1>2. TimerTypeOK' /\ Busy' = Busy
  BY <1>1 DEF TimerInv, TimerTypeOK, Busy
<1>3. (\A p \in Busy : OpOK(ops[p]))' /\ Halted'
  BY <1>1, <1>2 DEF TimerInv, Halted
<1>4. ASSUME calm' PROVE OneByOne' /\ (alive' => InStep')
  BY <1>1, <1>2, <1>4 DEF TimerInv, OneByOne, InStep, OnItsWay, Aim
<1>5. ASSUME calm', whole' PROVE Orderly'
  BY <1>1, <1>2, <1>5 DEF TimerInv, Orderly, Obeyed, Known, Told
<1> QED BY <1>2, <1>3, <1>4, <1>5 DEF TimerInv

LEMMA TimerInitially == TimerInit => TimerInv
<1> SUFFICES ASSUME TimerInit PROVE TimerInv
  OBVIOUS
<1>1. Busy = {} /\ reads = <<>> /\ alive /\ ~changed /\ Len(reads) = 0
  BY DEF TimerInit, Busy
<1>2. Nothing \in Content /\ \A t \in Tasks : Nothing[t] = None
  BY DEF Nothing, Content
<1>3. TimerTypeOK
  <2>1. reads \in Seq(Content) /\ Len(reads) <= MaxReads /\ now \in 0..MaxTime /\ requests \in 0..MaxOps
    BY <1>1, TimerBounds DEF TimerInit
  <2> QED BY <1>2, <2>1 DEF TimerTypeOK, TimerInit
<1>4. Halted /\ OneByOne /\ InStep
  BY <1>1, <1>2, TimerBounds DEF TimerInit, Halted, OneByOne, InStep
<1>5. Orderly
  BY <1>1, <1>2, TimerBounds DEF TimerInit, Orderly, Obeyed, Known
<1> QED BY <1>1, <1>3, <1>4, <1>5 DEF TimerInv

-----------------------------------------------------------------------------
(***************************************************************************)
(* The theorems.                                                           *)
(***************************************************************************)

\* The invariant holds, whoever reads and writes the tasks' file.
THEOREM TimerInvariance == TimerSpec => []TimerInv
<1>1. TimerInv /\ [TimerNext]_timerVars => TimerInv'
  <2> SUFFICES ASSUME TimerInv, [TimerNext]_timerVars PROVE TimerInv'
    OBVIOUS
  <2>1. CASE \E o \in Slots : Find(o) \/ Load(o) \/ ReadFails(o) \/ Written(o)
    BY <2>1, FindKeeps, LoadKeeps, ReadFailsKeeps, WrittenKeeps
  <2>2. CASE \E t \in Tasks : Pause(t) \/ Resume(t) \/ Delete(t)
    BY <2>2, PauseKeeps, ResumeKeeps, DeleteKeeps
  <2>3. CASE \E t \in Tasks, cron \in BOOLEAN, at \in Times : Create(t, cron, at) \/ Update(t, cron, at)
    BY <2>3, CreateTaskKeeps, UpdateKeeps
  <2>4. CASE Notice
    BY <2>4, NoticeKeeps
  <2>5. CASE \E i \in DOMAIN reads : Apply(i)
    BY <2>5, ApplyKeeps
  <2>6. CASE Tick \/ Passes \/ TimerCrash \/ Boot
    BY <2>6, TickKeeps, PassesKeeps, TimerCrashKeeps, BootKeeps
  <2>7. CASE UNCHANGED timerVars
    BY <2>7, TimerUnchanged
  <2> QED BY <2>1, <2>2, <2>3, <2>4, <2>5, <2>6, <2>7 DEF TimerNext
<1> QED BY <1>1, TimerInitially, PTL DEF TimerSpec

\* The timer's registry is well formed, and when nothing is under way it says what the
\* file says, if those who use the file never met (Scheduler.ts:97-131,
\* ScheduledTaskUpdater.ts:13-43, JsonScheduledTaskRepository.ts:23-82).
THEOREM TimerStaysTrue == TimerSpec => []TimerIsTrue
<1>1. TimerInv => TimerIsTrue
  BY DEF TimerInv, TimerIsTrue, Converges, InStep, Quiet
<1> QED BY <1>1, TimerInvariance, PTL

\* No occurrence fires twice, and none of a task its caller was told is paused or
\* gone, if in addition no crash came in the middle (Scheduler.ts:97-131).
THEOREM AlwaysFiresAsOrdered == TimerSpec => []FiresAsOrdered
<1>1. TimerInv => FiresAsOrdered
  BY DEF TimerInv, FiresAsOrdered, Orderly
<1> QED BY <1>1, TimerInvariance, PTL
=============================================================================
