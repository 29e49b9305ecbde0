--------------------------- MODULE Streams_proofs ---------------------------
(***************************************************************************)
(* The two streams of the server, for any number of everything: the events *)
(* of a session on their way to its clients (SessionStream), and a model's *)
(* reply on its way to the agent (ModelStream).                            *)
(*                                                                         *)
(* The bus tracks the streams because an entry is only ever replaced when  *)
(* no stream of its session is under way (StreamsTracked); a response      *)
(* takes its session along without hurting a run because none can have     *)
(* begun before the response has come to its end (Settled).                *)
(*                                                                         *)
(* A reply is heard in order because every piece is in one place: on the   *)
(* wire, in the packet, in the chunk, or taken.  The lines join without a  *)
(* gap (Joins), so what was taken is always a beginning of what was sent   *)
(* (GotIs), and the strategy holds each piece that was taken in exactly    *)
(* one message or call (TextsAreTrue, CallsAreTrue).                       *)
(***************************************************************************)
EXTENDS SessionStream, ModelStream, SequenceTheorems, FiniteSetTheorems, TLAPS

-----------------------------------------------------------------------------
(***************************************************************************)
(* SessionStream.                                                          *)
(***************************************************************************)
Begun == 1 .. started
LiveOf(s) == {i \in Streams : Under(i) /\ stream[i].key = s}

\* The streams are numbered as they start, the entries of the bus are streams of their
\* own keys, and the response that started a stream reads it.
Numbered ==
    /\ \A i \in Streams : stream[i] # Absent <=> i \in Begun
    /\ \A k \in Keys : entry[k] # None => entry[k] \in Begun /\ stream[entry[k]].key = k
    /\ \A c \in Readers : reader[c] # Nobody =>
         /\ reader[c].of \in Begun
         /\ c \in Streams => reader[c].of = c /\ stream[c].key \in Sessions

\* The agent works for a stream exactly while that stream is open.
HolderIsOpen ==
    \A i \in Streams, s \in Sessions :
        holder[s] = i <=> stream[i].status = "open" /\ stream[i].key = s

StreamsTracked == \A s \in Sessions \ delivered : \A i \in LiveOf(s) : entry[s] = i

\* A session with a stream under way is in the cache, and no response that is about to
\* take it away is left.
Settled ==
    \A s \in Sessions \ delivered : \A i \in LiveOf(s) :
        /\ s \notin deleted => s \in cached
        /\ \A c \in Streams : Reading(c) /\ stream[c].key = s => Under(c)

\* What a client was sent and is still to be sent of a stream.
Served(r, st) ==
    /\ r.got \o r.queue = [e \in 1..st.length |-> e]
    /\ r.phase # "reading" => Len(r.got) = st.length /\ st.status = "done"

AllServed == \A c \in Readers : reader[c] # Nobody => Served(reader[c], stream[reader[c].of])

IInv ==
    /\ BusTyped /\ Numbered /\ HolderIsOpen /\ NoStaleEntry
    /\ StreamsTracked /\ Settled /\ AllServed

\* Only a request takes a session that is kept out of the cache.
KeptAreCached == \A s \in Sessions \ (Temporary \cup deleted) : s \in cached

\* A response whose save is under way waits for it.
RepliesWait ==
    \A w \in Savers : save[w] # NoSave /\ save[w].for = "response"
                       => w \in Streams /\ reader[w].phase = "saving"

StoreInv == FilesTyped /\ KeptAreCached /\ RepliesWait

-----------------------------------------------------------------------------
(***************************************************************************)
(* Streams, readers and holders.                                           *)
(***************************************************************************)
LEMMA Bounds ==
    /\ MaxStreams \in Nat /\ MaxJoins \in Nat /\ MaxEvents \in Nat /\ MaxMeddling \in Nat
    /\ None \notin Nat /\ Other \notin Nat /\ None # Other
    /\ Sessions \subseteq Keys /\ Flows \subseteq Keys /\ Sessions \cap Flows = {}
  BY SessionStreamAssumption DEF Keys

LEMMA Kinds ==
    /\ \A i \in Streams, st \in Stream : st # Absent
    /\ \A r \in Reader : r # Nobody
    /\ Absent.status = "absent" /\ Nobody.phase = "absent"
  BY DEF Stream, Absent, Reader, Nobody

LEMMA SaveKinds == NoSave.phase = "none" /\ \A v \in Save : v # NoSave
  BY DEF Save, NoSave

LEMMA ResponsesRead == Streams \subseteq Readers
  BY Bounds DEF Streams, Readers

\* A stream of a known status is a record, and one of those that were started.
LEMMA KnownStream ==
    ASSUME IInv, NEW i \in Streams, stream[i].status \in {"new", "open", "done"}
    PROVE  stream[i] \in Stream /\ i \in Begun
  BY Kinds DEF IInv, BusTyped, Numbered

LEMMA KnownReader ==
    ASSUME IInv, NEW c \in Readers, reader[c] # Nobody
    PROVE  /\ reader[c] \in Reader /\ reader[c].of \in Streams
           /\ stream[reader[c].of] \in Stream
  BY Kinds, Bounds DEF IInv, BusTyped, Numbered, Begun, Streams

\* One stream of a session at most is under way, unless something was delivered to it.
LEMMA OneLive ==
    ASSUME IInv, NEW s \in Sessions \ delivered, NEW i \in LiveOf(s), NEW j \in LiveOf(s)
    PROVE  i = j
  BY DEF IInv, StreamsTracked

LEMMA Tracked ==
    ASSUME IInv, NEW s \in Sessions \ delivered
    PROVE  entry[s] # None <=> LiveOf(s) # {}
  BY Bounds DEF IInv, Numbered, NoStaleEntry, StreamsTracked, LiveOf, Streams, Begun, BusTyped

-----------------------------------------------------------------------------
(***************************************************************************)
(* The steps.                                                              *)
(***************************************************************************)
\* A message of an idle session, or the start of a workflow run.
LEMMA StartKeeps ==
    ASSUME IInv, NEW k \in Keys, Start(k), UNCHANGED <<joined, meddled, holder, cached, history>>,
           \/ /\ k \in Sessions /\ k \in cached /\ ~IsActive(k)
              /\ reader' = [reader EXCEPT ![started + 1] = Subscribed(started + 1, 0)]
           \/ k \in Flows /\ reader' = reader
    PROVE  IInv'
<1>0. PICK i : i = started + 1
  OBVIOUS
<1> DEFINE new == [key |-> k, status |-> "new", length |-> 0]
<1>1. /\ i \in Streams /\ i \in Readers /\ i \notin Begun /\ started' = i
      /\ Begun' = Begun \cup {i} /\ started \in Nat
  BY <1>0, Bounds DEF IInv, BusTyped, Start, Streams, Readers, Begun
<1>2. /\ entry' = [entry EXCEPT ![k] = i] /\ stream' = [stream EXCEPT ![i] = new]
      /\ entry \in [Keys -> Streams \cup {None}] /\ stream \in [Streams -> Stream \cup {Absent}]
  BY <1>0 DEF IInv, BusTyped, Start
<1>3. new \in Stream /\ new.status = "new" /\ new.key = k /\ new.length = 0 /\ new # Absent
  BY Bounds, Kinds DEF Stream
<1>4. stream[i] = Absent /\ \A j \in Streams \ {i} : stream'[j] = stream[j]
  BY <1>1, <1>2 DEF IInv, Numbered
<1>5. stream'[i] = new /\ entry'[k] = i /\ \A q \in Keys \ {k} : entry'[q] = entry[q]
  BY <1>1, <1>2
<1> HIDE DEF new
<1> DEFINE sub == Subscribed(i, 0)
<1>6. sub \in Reader /\ sub.of = i /\ sub.got = <<>> /\ sub.queue = <<>> /\ sub.phase = "reading"
  <2>1. [e \in 1..0 |-> e] = <<>>
    OBVIOUS
  <2> QED BY <1>1, <2>1 DEF Subscribed, Reader
<1> HIDE DEF sub
<1>7. reader \in [Readers -> Reader \cup {Nobody}]
  BY DEF IInv, BusTyped
<1>8. \A c \in Readers : \/ reader'[c] = reader[c] /\ (k \in Sessions => c # i)
                         \/ c = i /\ k \in Sessions /\ reader'[c] = sub
  BY <1>0, <1>1, <1>7, Bounds DEF sub
<1>9. BusTyped'
  <2>1. reader' \in [Readers -> Reader \cup {Nobody}]
    BY <1>0, <1>1, <1>6, <1>7 DEF sub
  <2>2. entry' \in [Keys -> Streams \cup {None}] /\ stream' \in [Streams -> Stream \cup {Absent}]
    BY <1>1, <1>2, <1>3
  <2>3. started' \in 0..MaxStreams
    BY <1>1, Bounds DEF Streams
  <2> QED BY <2>1, <2>2, <2>3 DEF IInv, BusTyped, history
<1>10. Numbered'
  <2>1. \A j \in Streams : stream'[j] # Absent <=> j \in Begun'
    BY <1>1, <1>3, <1>4, <1>5 DEF IInv, Numbered
  <2>2. ASSUME NEW q \in Keys, entry'[q] # None
        PROVE  entry'[q] \in Begun' /\ stream'[entry'[q]].key = q
    <3>1. CASE q = k
      BY <3>1, <1>1, <1>3, <1>5
    <3>2. CASE q # k
      BY <3>2, <2>2, <1>1, <1>2, <1>4, <1>5 DEF IInv, Numbered
    <3> QED BY <3>1, <3>2
  <2>3. ASSUME NEW c \in Readers, reader'[c] # Nobody
        PROVE  /\ reader'[c].of \in Begun'
               /\ c \in Streams => reader'[c].of = c /\ stream'[c].key \in Sessions
    <3>1. CASE c = i
      <4>1. reader[c] = Nobody
        BY <3>1, <1>1 DEF IInv, Numbered
      <4>2. reader'[c] = sub
        BY <2>3, <4>1, <1>8
      <4>3. k \in Sessions
        BY <2>3, <4>1, <1>8
      <4> QED BY <3>1, <4>2, <4>3, <1>1, <1>3, <1>5, <1>6
    <3>2. CASE c # i
      BY <2>3, <3>2, <1>1, <1>4, <1>8 DEF IInv, Numbered
    <3> QED BY <3>1, <3>2
  <2> QED BY <2>1, <2>2, <2>3 DEF Numbered
<1>11. HolderIsOpen'
  <2>1. SUFFICES ASSUME NEW j \in Streams, NEW s \in Sessions
                 PROVE  holder[s] = j <=> stream'[j].status = "open" /\ stream'[j].key = s
    BY DEF HolderIsOpen
  <2>2. CASE j = i
    BY <2>2, <1>3, <1>4, <1>5, Kinds DEF IInv, HolderIsOpen
  <2>3. CASE j # i
    BY <2>3, <1>4 DEF IInv, HolderIsOpen
  <2> QED BY <2>2, <2>3
<1>12. \A j \in Streams \ {i} : Under(j)' <=> Under(j)
  BY <1>4 DEF Under
<1>13. Under(i)' /\ ~Under(i)
  BY <1>3, <1>4, <1>5, Kinds DEF Under
<1>14. NoStaleEntry'
  <2>1. SUFFICES ASSUME NEW s \in Sessions, entry'[s] # None
                 PROVE  \E j \in Streams : j = entry'[s] /\ Under(j)'
    BY DEF NoStaleEntry, Under
  <2>2. CASE s = k
    BY <2>2, <1>1, <1>5, <1>13
  <2>3. CASE s # k
    <3>1. entry'[s] = entry[s] /\ entry[s] \in Streams \ {i} /\ Under(entry[s])
      BY <2>1, <2>3, <1>1, <1>2, <1>5, Bounds DEF IInv, NoStaleEntry, Numbered
    <3> QED BY <3>1, <1>12 DEF Under
  <2> QED BY <2>2, <2>3
<1>15. \A s \in Sessions : s # k => LiveOf(s)' = LiveOf(s)
  <2>1. SUFFICES ASSUME NEW s \in Sessions, s # k, NEW j \in Streams
                 PROVE  Under(j)' /\ stream'[j].key = s <=> Under(j) /\ stream[j].key = s
    BY DEF LiveOf, Under
  <2>2. CASE j = i
    BY <2>1, <2>2, <1>3, <1>5, <1>13
  <2>3. CASE j # i
    BY <2>3, <1>4, <1>12
  <2> QED BY <2>2, <2>3
<1>16. k \in Sessions \ delivered => LiveOf(k)' = {i}
  <2>1. k \in Sessions => entry[k] = None
    BY Bounds DEF IsActive, IInv, NoStaleEntry
  <2>2. k \in Sessions \ delivered => LiveOf(k) = {}
    BY <2>1, Tracked
  <2>3. SUFFICES ASSUME k \in Sessions \ delivered, NEW j \in Streams
                 PROVE  Under(j)' /\ stream'[j].key = k <=> j = i
    BY <1>1 DEF LiveOf, Under
  <2>4. CASE j = i
    BY <2>4, <1>3, <1>5, <1>13
  <2>5. CASE j # i
    BY <2>2, <2>3, <2>5, <1>4, <1>12 DEF LiveOf
  <2> QED BY <2>4, <2>5
<1>17. StreamsTracked'
  BY <1>5, <1>15, <1>16, Bounds DEF IInv, StreamsTracked, history
<1>18. Settled'
  <2>1. SUFFICES ASSUME NEW s \in Sessions \ delivered, NEW j \in LiveOf(s)'
                 PROVE  /\ s \notin deleted => s \in cached
                        /\ \A c \in Streams : Reading(c)' /\ stream'[c].key = s => Under(c)'
    BY DEF Settled, history
  <2>2. \A c \in Streams \ {i} : Reading(c)' => Reading(c)
    <3> SUFFICES ASSUME NEW c \in Streams, c # i, Reading(c)' PROVE Reading(c)
      OBVIOUS
    <3>1. reader'[c] = reader[c]
      BY <1>8, ResponsesRead
    <3> QED BY <3>1 DEF Reading
  <2>3. CASE s = k
    <3>1. \A c \in Streams \ {i} : Reading(c) => Under(c)
      <4> SUFFICES ASSUME NEW c \in Streams, Reading(c) PROVE Under(c)
        OBVIOUS
      <4>1. reader[c] # Nobody
        BY Kinds DEF Reading
      <4>2. reader[c].of = c /\ (Reading(c) => Under(reader[c].of))
        BY <4>1, ResponsesRead DEF IInv, Numbered, Start, Drained
      <4> QED BY <4>2
    <3>2. k \in cached
      BY <2>3, Bounds
    <3> QED BY <2>2, <2>3, <3>1, <3>2, <1>12, <1>13
  <2>4. CASE s # k
    <3>1. j \in LiveOf(s)
      BY <2>4, <1>15
    <3>2. \A c \in Streams \ {i} : stream'[c].key = s /\ Reading(c) => Under(c)
      BY <3>1, <1>4 DEF IInv, Settled
    <3>3. s \notin deleted => s \in cached
      BY <3>1 DEF IInv, Settled
    <3> QED BY <2>2, <2>4, <3>2, <3>3, <1>12, <1>13
  <2> QED BY <2>3, <2>4
<1>19. AllServed'
  <2>1. SUFFICES ASSUME NEW c \in Readers, reader'[c] # Nobody
                 PROVE  Served(reader'[c], stream'[reader'[c].of])
    BY DEF AllServed
  <2>2. CASE reader'[c] = reader[c]
    <3>1. reader[c].of \in Streams \ {i}
      BY <2>1, <2>2, <1>1, KnownReader DEF IInv, Numbered
    <3> QED BY <2>1, <2>2, <3>1, <1>4 DEF IInv, AllServed
  <2>3. CASE reader'[c] = sub
    <3>1. <<>> \o <<>> = [e \in 1..0 |-> e]
      OBVIOUS
    <3> QED BY <2>3, <3>1, <1>3, <1>5, <1>6 DEF Served
  <2> QED BY <2>2, <2>3, <1>8
<1> QED BY <1>9, <1>10, <1>11, <1>14, <1>17, <1>18, <1>19 DEF IInv

\* A client joins a stream that is on the bus.
LEMMA JoinKeeps ==
    ASSUME IInv, NEW i \in Begun, joined < MaxJoins, joined' = joined + 1,
           reader' = [reader EXCEPT ![MaxStreams + joined + 1] = Subscribed(i, stream[i].length)],
           UNCHANGED <<bus, meddled, holder, cached, history>>
    PROVE  IInv'
<1> DEFINE n == stream[i].length
           sub == Subscribed(i, n)
           me == MaxStreams + joined + 1
<1>1. i \in Streams /\ stream[i] \in Stream /\ n \in 0..MaxEvents
  BY Bounds, Kinds DEF IInv, BusTyped, Numbered, Begun, Streams, Stream
<1>2. me \in Readers \ Streams /\ joined \in 0..MaxJoins
  BY Bounds DEF IInv, BusTyped, Readers, Streams
<1>3. [e \in 1..n |-> e] \in Seq(1..MaxEvents) /\ [e \in 1..n |-> e] \o <<>> = [e \in 1..n |-> e]
  BY <1>1, Bounds
<1>4. /\ sub \in Reader /\ sub.of = i /\ sub.got = [e \in 1..n |-> e] /\ sub.queue = <<>>
      /\ sub.phase = "reading"
  BY <1>1, <1>3 DEF Subscribed, Reader
<1>5. reader \in [Readers -> Reader \cup {Nobody}] /\ reader' = [reader EXCEPT ![me] = sub]
  BY DEF IInv, BusTyped
<1>6. UNCHANGED <<entry, stream, started, holder, cached, delivered, deleted, meddled>>
  BY DEF bus, history
<1> HIDE DEF n, sub, me
<1>7. BusTyped'
  <2>1. reader' \in [Readers -> Reader \cup {Nobody}]
    BY <1>4, <1>5
  <2>2. joined' \in 0..MaxJoins
    BY <1>2, Bounds
  <2> QED BY <2>1, <2>2, <1>6 DEF IInv, BusTyped
<1>8. Numbered'
  BY <1>2, <1>4, <1>5, <1>6 DEF IInv, Numbered, Begun
<1>9. HolderIsOpen' /\ NoStaleEntry' /\ StreamsTracked'
  BY <1>6 DEF IInv, HolderIsOpen, NoStaleEntry, StreamsTracked, LiveOf, Under
<1>10. Settled'
  <2>1. \A c \in Streams : Reading(c)' => Reading(c)
    BY <1>2, <1>5 DEF Reading, Streams, Readers
  <2> QED BY <2>1, <1>6 DEF IInv, Settled, LiveOf, Under
<1>11. AllServed'
  <2>1. \A c \in Readers \ {me} : reader'[c] = reader[c]
    BY <1>5
  <2>2. reader'[me] = sub
    BY <1>2, <1>5
  <2>3. Served(sub, stream[i])
    BY <1>3, <1>4 DEF Served, n
  <2> QED BY <2>1, <2>2, <2>3, <1>4, <1>6 DEF IInv, AllServed
<1> QED BY <1>7, <1>8, <1>9, <1>10, <1>11 DEF IInv

\* Deliveries, deletions, the saves and the runs of others.
LEMMA MeddlingKeeps ==
    ASSUME IInv, NEW s \in Sessions,
           UNCHANGED <<stream, started, joined, reader>>, meddled' \in 0..MaxMeddling,
           \/ UNCHANGED <<entry, delivered>>
           \/ entry' = [entry EXCEPT ![s] = None] /\ delivered' = delivered \cup {s},
           deleted' \in SUBSET Sessions, deleted \subseteq deleted',
           cached' \in SUBSET Sessions, \A t \in Sessions \ deleted' : t \in cached => t \in cached',
           holder' \in [Sessions -> Streams \cup {None, Other}],
           \A t \in Sessions, i \in Streams : holder'[t] = i <=> holder[t] = i
    PROVE  IInv'
<1>1. \A i \in Streams : Under(i)' = Under(i)
  BY DEF Under
<1>2. \/ entry' = entry
      \/ entry' = [entry EXCEPT ![s] = None] /\ delivered' = delivered \cup {s}
  OBVIOUS
<1>3. delivered' \in SUBSET Sessions /\ delivered \subseteq delivered'
  BY DEF IInv, BusTyped
<1>6. entry' \in [Keys -> Streams \cup {None}] /\ \A k \in Keys : entry'[k] \in {entry[k], None}
  BY <1>2, Bounds DEF IInv, BusTyped
<1>7. \A t \in Sessions \ delivered' : entry'[t] = entry[t]
  BY <1>2, <1>3, Bounds DEF IInv, BusTyped
<1>8. \A t \in Sessions : LiveOf(t)' = LiveOf(t)
  BY <1>1 DEF LiveOf
<1>9. BusTyped'
  BY <1>3, <1>6 DEF IInv, BusTyped
<1>10. Numbered'
  BY <1>6 DEF IInv, Numbered, Begun
<1>11. HolderIsOpen'
  BY DEF IInv, HolderIsOpen
<1>12. NoStaleEntry'
  BY <1>1, <1>6, Bounds DEF IInv, NoStaleEntry, Under
<1>13. StreamsTracked'
  BY <1>3, <1>7, <1>8 DEF IInv, StreamsTracked
<1>14. Settled'
  BY <1>1, <1>3, <1>8 DEF IInv, Settled, Reading, Under
<1>15. AllServed'
  BY DEF IInv, AllServed
<1> QED BY <1>9, <1>10, <1>11, <1>12, <1>13, <1>14, <1>15 DEF IInv

\* A client that joins is none of those that started a stream.
LEMMA JoinsAside ==
    ASSUME IInv, NEW sub, joined < MaxJoins,
           reader' = [reader EXCEPT ![MaxStreams + joined + 1] = sub] \/ reader' = reader
    PROVE  \A c \in Streams : reader'[c] = reader[c]
<1>1. MaxStreams + joined + 1 \notin Streams
  BY Bounds DEF Streams, IInv, BusTyped
<1> QED BY <1>1, ResponsesRead DEF IInv, BusTyped

\* The agent takes the session of a stream.
LEMMA BeginKeeps ==
    ASSUME IInv, NEW i \in Streams, stream[i].status = "new",
           stream' = [stream EXCEPT ![i].status = "open"],
           stream[i].key \in Sessions => holder[stream[i].key] = None,
           holder' = IF stream[i].key \in Sessions THEN [holder EXCEPT ![stream[i].key] = i]
                     ELSE holder,
           UNCHANGED <<entry, started, joined, meddled, reader, cached, history>>
    PROVE  IInv'
<1>1. stream[i] \in Stream /\ i \in Begun /\ stream[i].key \in Keys
  BY KnownStream DEF Stream
<1> DEFINE opens == [stream[i] EXCEPT !.status = "open"]
<1>2. /\ opens \in Stream /\ opens # Absent /\ opens.status = "open" /\ opens.key = stream[i].key
      /\ opens.length = stream[i].length
  BY <1>1, Kinds DEF Stream
<1>3. /\ stream'[i] = opens /\ \A j \in Streams \ {i} : stream'[j] = stream[j]
      /\ stream' \in [Streams -> Stream \cup {Absent}]
  BY <1>2 DEF IInv, BusTyped
<1> HIDE DEF opens
<1>4. \A j \in Streams : Under(j)' = Under(j) /\ stream'[j].key = stream[j].key
                         /\ stream'[j].length = stream[j].length
  <2>1. SUFFICES ASSUME NEW j \in Streams
                 PROVE  Under(j)' = Under(j) /\ stream'[j].key = stream[j].key
                        /\ stream'[j].length = stream[j].length
    OBVIOUS
  <2> QED BY <1>2, <1>3 DEF Under
<1>5. \A t \in Sessions : LiveOf(t)' = LiveOf(t)
  BY <1>4 DEF LiveOf
<1>6. UNCHANGED <<delivered, deleted>>
  BY DEF history
<1>7. BusTyped'
  <2>1. holder' \in [Sessions -> Streams \cup {None, Other}]
    BY DEF IInv, BusTyped
  <2> QED BY <2>1, <1>3, <1>6 DEF IInv, BusTyped
<1>8. Numbered'
  <2>1. \A j \in Streams : stream'[j] # Absent <=> j \in Begun
    BY <1>1, <1>2, <1>3 DEF IInv, Numbered
  <2>2. \A k \in Keys : entry[k] # None => stream'[entry[k]].key = stream[entry[k]].key
    BY <1>4 DEF IInv, BusTyped
  <2> QED BY <2>1, <2>2 DEF IInv, Numbered, Begun
<1>9. HolderIsOpen'
  <2>1. SUFFICES ASSUME NEW j \in Streams, NEW t \in Sessions
                 PROVE  holder'[t] = j <=> stream'[j].status = "open" /\ stream'[j].key = t
    BY DEF HolderIsOpen
  <2>2. CASE j = i
    <3>1. holder[t] # i
      BY DEF IInv, HolderIsOpen
    <3> QED BY <2>2, <3>1, <1>2, <1>3 DEF IInv, BusTyped
  <2>3. CASE j # i
    <3>1. holder'[t] = j <=> holder[t] = j
      BY <2>3, Bounds DEF IInv, BusTyped, Streams
    <3> QED BY <2>3, <3>1, <1>3 DEF IInv, HolderIsOpen
  <2> QED BY <2>2, <2>3
<1>10. NoStaleEntry'
  <2>1. \A t \in Sessions : entry[t] # None => entry[t] \in Streams /\ Under(entry[t])
    BY Bounds DEF IInv, BusTyped, NoStaleEntry
  <2> QED BY <2>1, <1>4 DEF NoStaleEntry, Under
<1>11. StreamsTracked'
  BY <1>5, <1>6 DEF IInv, StreamsTracked
<1>12. Settled'
  BY <1>4, <1>5, <1>6 DEF IInv, Settled, Reading
<1>13. AllServed'
  <2>1. SUFFICES ASSUME NEW c \in Readers, reader[c] # Nobody
                 PROVE  Served(reader[c], stream'[reader[c].of])
    BY DEF AllServed
  <2>2. reader[c].of \in Streams
    BY <2>1, KnownReader
  <2> QED BY <2>1, <2>2, <1>3, <1>4 DEF IInv, AllServed, Served
<1> QED BY <1>7, <1>8, <1>9, <1>10, <1>11, <1>12, <1>13 DEF IInv

\* A stream is over: refused, or at the end of its run.
LEMMA CompleteKeeps ==
    ASSUME IInv, NEW i \in Streams, Under(i), Complete(i),
           holder' \in [Sessions -> Streams \cup {None, Other}],
           \A s \in Sessions : holder'[s] = IF holder[s] = i THEN None ELSE holder[s],
           UNCHANGED <<started, joined, meddled, reader, cached, history>>
    PROVE  IInv'
<1>1. stream[i] \in Stream /\ i \in Begun /\ stream[i].key \in Keys
  BY KnownStream DEF Stream, Under
<1> DEFINE over == [stream[i] EXCEPT !.status = "done"]
<1>2. /\ over \in Stream /\ over # Absent /\ over.status = "done" /\ over.key = stream[i].key
      /\ over.length = stream[i].length
  BY <1>1, Kinds DEF Stream
<1>3. /\ stream'[i] = over /\ \A j \in Streams \ {i} : stream'[j] = stream[j]
      /\ stream' \in [Streams -> Stream \cup {Absent}]
  BY <1>2 DEF IInv, BusTyped, Complete
<1> HIDE DEF over
<1>4. \A j \in Streams : /\ stream'[j].key = stream[j].key /\ stream'[j].length = stream[j].length
                         /\ j = i => stream'[j].status = "done"
                         /\ stream[j].status = "done" => stream'[j].status = "done"
                         /\ Under(j)' <=> (Under(j) /\ j # i)
  <2>1. SUFFICES ASSUME NEW j \in Streams
                 PROVE  /\ stream'[j].key = stream[j].key /\ stream'[j].length = stream[j].length
                        /\ j = i => stream'[j].status = "done"
                        /\ stream[j].status = "done" => stream'[j].status = "done"
                        /\ Under(j)' <=> (Under(j) /\ j # i)
    OBVIOUS
  <2> QED BY <1>2, <1>3 DEF Under
<1>5. \A t \in Sessions : LiveOf(t)' = LiveOf(t) \ {i}
  BY <1>4 DEF LiveOf
<1>6. UNCHANGED <<delivered, deleted>>
  BY DEF history
<1>7. /\ entry' \in [Keys -> Streams \cup {None}]
      /\ \A k \in Keys : entry'[k] = IF k \in Sessions /\ k = stream[i].key THEN None ELSE entry[k]
  BY <1>1 DEF IInv, BusTyped, Complete
<1>8. BusTyped'
  BY <1>3, <1>6, <1>7 DEF IInv, BusTyped
<1>9. Numbered'
  <2>1. \A j \in Streams : stream'[j] # Absent <=> j \in Begun
    BY <1>1, <1>2, <1>3 DEF IInv, Numbered
  <2>2. \A k \in Keys : entry'[k] # None =>
            entry'[k] = entry[k] /\ stream'[entry[k]].key = stream[entry[k]].key
    BY <1>4, <1>7 DEF IInv, BusTyped
  <2>3. \A c \in Streams : stream'[c].key = stream[c].key
    BY <1>4
  <2> QED BY <2>1, <2>2, <2>3 DEF IInv, Numbered, Begun
<1>10. HolderIsOpen'
  <2>1. SUFFICES ASSUME NEW j \in Streams, NEW t \in Sessions
                 PROVE  holder'[t] = j <=> stream'[j].status = "open" /\ stream'[j].key = t
    BY DEF HolderIsOpen
  <2>2. CASE j = i
    BY <2>2, <1>4, Bounds DEF Streams
  <2>3. CASE j # i
    BY <2>3, <1>3, Bounds DEF IInv, HolderIsOpen, Streams
  <2> QED BY <2>2, <2>3
<1>11. NoStaleEntry'
  <2>1. \A t \in Sessions : entry'[t] # None =>
           entry'[t] = entry[t] /\ entry[t] \in Streams \ {i} /\ Under(entry[t])
    BY <1>7, Bounds DEF IInv, BusTyped, NoStaleEntry, Numbered
  <2> QED BY <2>1, <1>4 DEF NoStaleEntry, Under
<1>12. StreamsTracked'
  <2>1. SUFFICES ASSUME NEW t \in Sessions \ delivered, NEW j \in LiveOf(t) \ {i}
                 PROVE  entry'[t] = j
    BY <1>5, <1>6 DEF StreamsTracked
  <2>2. t # stream[i].key
    BY <2>1, OneLive DEF LiveOf
  <2> QED BY <2>1, <2>2, <1>7, Bounds DEF IInv, StreamsTracked
<1>13. Settled'
  <2>1. SUFFICES ASSUME NEW t \in Sessions \ delivered, NEW j \in LiveOf(t) \ {i}
                 PROVE  /\ t \notin deleted => t \in cached
                        /\ \A c \in Streams : Reading(c) /\ stream'[c].key = t => Under(c)'
    BY <1>5, <1>6 DEF Settled, Reading
  <2>2. t # stream[i].key
    BY <2>1, OneLive DEF LiveOf
  <2> QED BY <2>1, <2>2, <1>4 DEF IInv, Settled
<1>14. AllServed'
  <2>1. SUFFICES ASSUME NEW c \in Readers, reader[c] # Nobody
                 PROVE  Served(reader[c], stream'[reader[c].of])
    BY DEF AllServed
  <2>2. reader[c].of \in Streams
    BY <2>1, KnownReader
  <2> QED BY <2>1, <2>2, <1>4 DEF IInv, AllServed, Served
<1> QED BY <1>8, <1>9, <1>10, <1>11, <1>12, <1>13, <1>14 DEF IInv

\* A sequence and one with something more at its end, put together.
LEMMA AppendLast ==
    ASSUME NEW S, NEW p \in Seq(S), NEW q \in Seq(S), NEW x \in S
    PROVE  p \o Append(q, x) = Append(p \o q, x)
<1>1. <<x>> \in Seq(S) /\ p \o q \in Seq(S)
  OBVIOUS
<1>2. Append(q, x) = q \o <<x>> /\ Append(p \o q, x) = (p \o q) \o <<x>>
  BY <1>1, AppendIsConcat
<1>3. (p \o q) \o <<x>> = p \o (q \o <<x>>)
  BY <1>1, ConcatAssociative
<1> QED BY <1>2, <1>3

LEMMA AppendEvent ==
    ASSUME NEW p \in Seq(1..MaxEvents), NEW q \in Seq(1..MaxEvents), NEW x \in 1..MaxEvents
    PROVE  p \o Append(q, x) = Append(p \o q, x)
<1> DEFINE S == 1..MaxEvents
<1>1. p \in Seq(S) /\ q \in Seq(S) /\ x \in S
  OBVIOUS
<1> HIDE DEF S
<1> QED BY <1>1, AppendLast

\* A sequence that counts to n counts to n + 1 with one more.
LEMMA Counting ==
    ASSUME NEW n \in Nat, NEW S, 1..n + 1 \subseteq S, NEW r \in Seq(S), r = [e \in 1..n |-> e]
    PROVE  Append(r, n + 1) = [e \in 1..n + 1 |-> e]
<1> DEFINE t == [e \in 1..n + 1 |-> e]
<1>1. Len(r) = n /\ (\A e \in 1..n : r[e] = e) /\ n + 1 \in S
  OBVIOUS
<1>2. t \in Seq(S) /\ Len(t) = n + 1 /\ \A e \in 1..n + 1 : t[e] = e
  OBVIOUS
<1> HIDE DEF t
<1>3. /\ Append(r, n + 1) \in Seq(S) /\ Len(Append(r, n + 1)) = n + 1
      /\ \A e \in 1..n : Append(r, n + 1)[e] = r[e]
      /\ Append(r, n + 1)[n + 1] = n + 1
  BY <1>1, AppendProperties
<1>4. \A e \in 1..n + 1 : Append(r, n + 1)[e] = t[e]
  BY <1>1, <1>2, <1>3
<1>5. Append(r, n + 1) = t
  BY <1>2, <1>3, <1>4, SeqEqual
<1> QED BY <1>5 DEF t

\* What is queued moves over to what was sent.
LEMMA HeadMoves ==
    ASSUME NEW S, NEW p \in Seq(S), NEW q \in Seq(S), q # <<>>
    PROVE  /\ Head(q) \in S /\ Tail(q) \in Seq(S) /\ Append(p, Head(q)) \in Seq(S)
           /\ Append(p, Head(q)) \o Tail(q) = p \o q
<1>1. Head(q) \in S /\ Tail(q) \in Seq(S) /\ <<Head(q)>> \in Seq(S)
  OBVIOUS
<1>2. q = <<Head(q)>> \o Tail(q)
  OBVIOUS
<1>3. Append(p, Head(q)) = p \o <<Head(q)>>
  BY <1>1, AppendIsConcat
<1>4. (p \o <<Head(q)>>) \o Tail(q) = p \o (<<Head(q)>> \o Tail(q))
  BY <1>1, ConcatAssociative
<1> QED BY <1>1, <1>2, <1>3, <1>4

\* The agent says something: it is buffered, and queued for whoever reads.
LEMMA EmitKeeps ==
    ASSUME IInv, NEW i \in Streams, Emit(i)
    PROVE  IInv'
<1> DEFINE n == stream[i].length
           more == [stream[i] EXCEPT !.length = n + 1]
           told(c) == [reader[c] EXCEPT !.queue = Append(@, n + 1)]
<1>1. stream[i] \in Stream /\ i \in Begun /\ n \in Nat /\ n + 1 \in 1..MaxEvents
  BY KnownStream, Bounds DEF Emit, Stream
<1>2. /\ more \in Stream /\ more # Absent /\ more.status = stream[i].status
      /\ more.key = stream[i].key /\ more.length = n + 1
  BY <1>1, Kinds, Bounds DEF Stream
<1>3. /\ stream'[i] = more /\ (\A j \in Streams \ {i} : stream'[j] = stream[j])
      /\ stream' \in [Streams -> Stream \cup {Absent}]
  BY <1>2 DEF IInv, BusTyped, Emit
<1>4. \A j \in Streams : /\ stream'[j].key = stream[j].key
                         /\ stream'[j].status = stream[j].status
                         /\ Under(j)' <=> Under(j)
  <2>1. SUFFICES ASSUME NEW j \in Streams
                 PROVE  /\ stream'[j].key = stream[j].key
                        /\ stream'[j].status = stream[j].status
                        /\ Under(j)' <=> Under(j)
    OBVIOUS
  <2> QED BY <1>2, <1>3 DEF Under
<1>5. UNCHANGED <<entry, started, joined, meddled, holder, cached, delivered, deleted>>
  BY DEF Emit, history
<1>6. reader' = [c \in Readers |-> IF c \in ReadersOf(i) THEN told(c) ELSE reader[c]]
  BY DEF Emit
<1>7. ASSUME NEW c \in ReadersOf(i)
      PROVE  /\ c \in Readers /\ reader[c] # Nobody /\ reader[c] \in Reader /\ reader[c].of = i
             /\ told(c) \in Reader /\ told(c).of = i /\ told(c).phase = "reading"
             /\ told(c).got = reader[c].got /\ told(c).queue = Append(reader[c].queue, n + 1)
  <2>1. c \in Readers /\ reader[c].phase = "reading" /\ reader[c].of = i
    BY DEF ReadersOf, Reading
  <2>2. reader[c] \in Reader /\ reader[c] # Nobody
    BY <2>1, Kinds, KnownReader
  <2>3. Append(reader[c].queue, n + 1) \in Seq(1..MaxEvents)
    BY <2>2, <1>1 DEF Reader
  <2> QED BY <2>1, <2>2, <2>3 DEF Reader
<1> HIDE DEF told, more
<1>8. \A c \in Readers : \/ c \in ReadersOf(i) /\ reader'[c] = told(c)
                         \/ c \notin ReadersOf(i) /\ reader'[c] = reader[c]
  BY <1>6
<1>9. \A c \in Readers : /\ reader'[c] = Nobody <=> reader[c] = Nobody
                         /\ reader'[c] # Nobody => reader'[c].of = reader[c].of
                         /\ Reading(c)' <=> Reading(c)
  <2>1. SUFFICES ASSUME NEW c \in Readers
                 PROVE  /\ reader'[c] = Nobody <=> reader[c] = Nobody
                        /\ reader'[c] # Nobody => reader'[c].of = reader[c].of
                        /\ Reading(c)' <=> Reading(c)
    OBVIOUS
  <2>2. CASE c \in ReadersOf(i)
    BY <2>2, <1>7, <1>8, Kinds DEF Reading, ReadersOf
  <2>3. CASE c \notin ReadersOf(i)
    BY <2>3, <1>8 DEF Reading
  <2> QED BY <2>2, <2>3
<1>10. BusTyped'
  <2>1. reader' \in [Readers -> Reader \cup {Nobody}]
    BY <1>6, <1>7 DEF IInv, BusTyped
  <2> QED BY <2>1, <1>3, <1>5 DEF IInv, BusTyped
<1>11. Numbered'
  <2>1. \A j \in Streams : stream'[j] # Absent <=> j \in Begun
    BY <1>1, <1>2, <1>3 DEF IInv, Numbered
  <2>2. \A k \in Keys : entry[k] # None => stream'[entry[k]].key = stream[entry[k]].key
    BY <1>4 DEF IInv, BusTyped
  <2>3. \A c \in Streams : stream'[c].key = stream[c].key
    BY <1>4
  <2> QED BY <2>1, <2>2, <2>3, <1>5, <1>9 DEF IInv, Numbered, Begun
<1>12. HolderIsOpen'
  BY <1>4, <1>5 DEF IInv, HolderIsOpen
<1>13. \A t \in Sessions : LiveOf(t)' = LiveOf(t)
  BY <1>4 DEF LiveOf
<1>14. NoStaleEntry'
  <2>1. \A t \in Sessions : entry[t] # None => entry[t] \in Streams /\ Under(entry[t])
    BY Bounds DEF IInv, BusTyped, NoStaleEntry
  <2> QED BY <2>1, <1>4, <1>5 DEF NoStaleEntry, Under
<1>15. StreamsTracked'
  BY <1>5, <1>13 DEF IInv, StreamsTracked
<1>16. Settled'
  <2>1. SUFFICES ASSUME NEW t \in Sessions \ delivered, NEW j \in LiveOf(t)
                 PROVE  /\ t \notin deleted => t \in cached
                        /\ \A c \in Streams : Reading(c)' /\ stream'[c].key = t => Under(c)'
    BY <1>5, <1>13 DEF Settled
  <2> QED BY <2>1, <1>4, <1>9, ResponsesRead DEF IInv, Settled
<1>17. AllServed'
  <2>1. SUFFICES ASSUME NEW c \in Readers, reader'[c] # Nobody
                 PROVE  Served(reader'[c], stream'[reader'[c].of])
    BY DEF AllServed
  <2>2. CASE c \in ReadersOf(i)
    <3>1. reader[c].got \o Append(reader[c].queue, n + 1) = [e \in 1..n + 1 |-> e]
      <4>1. reader[c].got \in Seq(1..MaxEvents) /\ reader[c].queue \in Seq(1..MaxEvents)
        BY <2>2, <1>7 DEF Reader
      <4>2. reader[c].got \o reader[c].queue = [e \in 1..n |-> e]
        BY <2>2, <1>7 DEF IInv, AllServed, Served
      <4> HIDE DEF n
      <4>3. 1..n + 1 \subseteq 1..MaxEvents /\ n + 1 \in 1..MaxEvents
        BY <1>1, Bounds
      <4>4. reader[c].got \o Append(reader[c].queue, n + 1)
              = Append(reader[c].got \o reader[c].queue, n + 1)
        BY <4>1, <4>3, AppendEvent
      <4>5. reader[c].got \o reader[c].queue \in Seq(1..MaxEvents)
        BY <4>1
      <4> QED BY <4>2, <4>3, <4>4, <4>5, <1>1, Counting
    <3> QED BY <2>2, <3>1, <1>2, <1>3, <1>7, <1>8 DEF Served
  <2>3. CASE c \notin ReadersOf(i)
    <3>1. reader'[c] = reader[c] /\ reader[c] # Nobody
      BY <2>1, <2>3, <1>8
    <3>2. reader[c].of # i
      <4>1. CASE Reading(c)
        BY <2>3, <4>1 DEF ReadersOf
      <4>2. CASE ~Reading(c)
        BY <4>2, <3>1 DEF IInv, AllServed, Served, Reading, Emit
      <4> QED BY <4>1, <4>2
    <3>3. stream'[reader[c].of] = stream[reader[c].of]
      BY <3>1, <3>2, <1>3, KnownReader
    <3> QED BY <3>1, <3>3 DEF IInv, AllServed
  <2> QED BY <2>2, <2>3
<1> QED BY <1>10, <1>11, <1>12, <1>14, <1>15, <1>16, <1>17 DEF IInv

\* A reader goes on: it is sent what is queued for it, comes to its end, or saves.
LEMMA ReaderKeeps ==
    ASSUME IInv, NEW c \in Readers, reader[c] # Nobody, NEW new \in Reader,
           reader' = [reader EXCEPT ![c] = new], new.of = reader[c].of,
           new.got \o new.queue = reader[c].got \o reader[c].queue,
           new.phase = "reading" => Reading(c),
           new.phase # "reading" => /\ Len(new.got) = stream[new.of].length
                                    /\ stream[new.of].status = "done",
           UNCHANGED <<bus, joined, meddled, holder, history>>,
           cached' \subseteq Sessions,
           \A s \in Sessions \ (delivered \cup deleted) :
               s \in cached /\ LiveOf(s) # {} => s \in cached'
    PROVE  IInv'
<1>1. UNCHANGED <<entry, stream, started, joined, meddled, holder, delivered, deleted>>
  BY DEF bus, history
<1>2. reader'[c] = new /\ (\A d \in Readers \ {c} : reader'[d] = reader[d]) /\ new # Nobody
  BY Kinds DEF IInv, BusTyped
<1>3. \A d \in Readers : Reading(d)' => Reading(d)
  BY <1>2 DEF Reading
<1>4. BusTyped'
  <2>1. reader' \in [Readers -> Reader \cup {Nobody}]
    BY DEF IInv, BusTyped
  <2> QED BY <2>1, <1>1 DEF IInv, BusTyped
<1>5. Numbered'
  BY <1>1, <1>2 DEF IInv, Numbered, Begun
<1>6. HolderIsOpen' /\ NoStaleEntry' /\ StreamsTracked'
  BY <1>1 DEF IInv, HolderIsOpen, NoStaleEntry, StreamsTracked, LiveOf, Under
<1>7. Settled'
  <2>1. SUFFICES ASSUME NEW s \in Sessions \ delivered, NEW i \in LiveOf(s)
                 PROVE  /\ s \notin deleted => s \in cached'
                        /\ \A d \in Streams : Reading(d)' /\ stream[d].key = s => Under(d)
    BY <1>1 DEF Settled, LiveOf, Under
  <2>2. s \notin deleted => s \in cached
    BY DEF IInv, Settled
  <2> QED BY <2>2, <1>3, ResponsesRead DEF IInv, Settled
<1>8. AllServed'
  <2>1. Served(new, stream[new.of])
    BY DEF IInv, AllServed, Served, Reading
  <2> QED BY <2>1, <1>1, <1>2 DEF IInv, AllServed
<1> QED BY <1>4, <1>5, <1>6, <1>7, <1>8 DEF IInv

-----------------------------------------------------------------------------
(***************************************************************************)
(* The theorems.                                                           *)
(***************************************************************************)
LEMMA InitHolds == Init => IInv /\ StoreInv
<1> SUFFICES ASSUME Init PROVE IInv /\ StoreInv
  OBVIOUS
<1>1. BusTyped
  BY Bounds DEF Init, BusTyped, Readers, Streams
<1>2. /\ \A i \in Streams : stream[i] = Absent /\ ~Under(i) /\ stream[i].status # "open"
      /\ \A c \in Readers : reader[c] = Nobody
      /\ started = 0
  BY Kinds DEF Init, Under
<1>3. Numbered
  BY <1>2 DEF Init, Numbered, Begun
<1>4. HolderIsOpen
  BY <1>2, Bounds DEF Init, HolderIsOpen, Streams
<1>5. NoStaleEntry /\ StreamsTracked /\ Settled
  BY <1>2, Bounds DEF Init, NoStaleEntry, StreamsTracked, Settled, LiveOf
<1>6. AllServed
  BY <1>2 DEF AllServed
<1>7. StoreInv
  BY DEF Init, StoreInv, FilesTyped, KeptAreCached, RepliesWait
<1> QED BY <1>1, <1>3, <1>4, <1>5, <1>6, <1>7 DEF IInv

LEMMA NothingChanges ==
    ASSUME IInv, UNCHANGED <<bus, meddled, reader, holder, cached, history>>, joined' \in 0..MaxJoins
    PROVE  IInv'
<1>1. UNCHANGED <<entry, stream, started, delivered, deleted>>
  BY DEF bus, history
<1>2. BusTyped'
  BY <1>1 DEF IInv, BusTyped
<1>3. Numbered' /\ HolderIsOpen' /\ NoStaleEntry'
  BY <1>1 DEF IInv, Numbered, Begun, HolderIsOpen, NoStaleEntry, Under
<1>4. StreamsTracked' /\ Settled'
  BY <1>1 DEF IInv, StreamsTracked, Settled, LiveOf, Under, Reading
<1>5. AllServed'
  BY <1>1 DEF IInv, AllServed
<1> QED BY <1>2, <1>3, <1>4, <1>5 DEF IInv

LEMMA StepKeeps == IInv /\ StoreInv /\ [Next]_vars => IInv'
<1> SUFFICES ASSUME IInv, StoreInv, [Next]_vars PROVE IInv'
  OBVIOUS
<1>1. ASSUME NEW s \in Sessions, Post(s) PROVE IInv'
  BY <1>1, StartKeeps, Bounds DEF Post
<1>2. ASSUME NEW f \in Flows, StartRun(f) PROVE IInv'
  BY <1>2, StartKeeps, Bounds DEF StartRun
<1>3. ASSUME NEW k \in Keys, entry[k] # None PROVE entry[k] \in Begun
  BY <1>3 DEF IInv, Numbered
<1>4. ASSUME NEW s \in Sessions, Join(s) PROVE IInv'
  <2>1. CASE IsActive(s) /\ s \in cached
    <3>1. PICK i \in Begun : i = entry[s]
      BY <2>1, <1>3, Bounds DEF IsActive
    <3> QED BY <1>4, <2>1, <3>1, JoinKeeps DEF Join
  <2>2. CASE ~(IsActive(s) /\ s \in cached)
    <3>1. joined' \in 0..MaxJoins
      BY <1>4, Bounds DEF Join, IInv, BusTyped
    <3> QED BY <1>4, <2>2, <3>1, NothingChanges DEF Join
  <2> QED BY <2>1, <2>2
<1>5. ASSUME NEW f \in Flows, JoinRun(f) PROVE IInv'
  <2>1. PICK i \in Begun : i = entry[f]
    BY <1>5, <1>3, Bounds DEF JoinRun
  <2> QED BY <1>5, <2>1, JoinKeeps DEF JoinRun
<1>6. ASSUME NEW s \in Sessions,
             Deliver(s) \/ Change(s) \/ DeleteSession(s) \/ OtherTakes(s) \/ OtherEnds(s)
      PROVE  IInv'
  <2>1. UNCHANGED <<stream, started, joined, reader>> /\ meddled' \in 0..MaxMeddling
    BY <1>6, Bounds
    DEF Deliver, Change, DeleteSession, OtherTakes, OtherEnds, Meddle, Send, bus, IInv, BusTyped
  <2>2. \/ UNCHANGED <<entry, delivered>>
        \/ entry' = [entry EXCEPT ![s] = None] /\ delivered' = delivered \cup {s}
    BY <1>6 DEF Deliver, Change, DeleteSession, OtherTakes, OtherEnds, Send, bus, history
  <2>3. deleted' \in SUBSET Sessions /\ deleted \subseteq deleted'
    BY <1>6 DEF Deliver, Change, DeleteSession, OtherTakes, OtherEnds, Send, history, IInv, BusTyped
  <2>4. /\ cached' \in SUBSET Sessions
        /\ \A t \in Sessions \ deleted' : t \in cached => t \in cached'
    BY <1>6 DEF Deliver, Change, DeleteSession, OtherTakes, OtherEnds, IInv, BusTyped
  <2>5. holder' \in [Sessions -> Streams \cup {None, Other}]
    BY <1>6 DEF Deliver, Change, DeleteSession, OtherTakes, OtherEnds, IInv, BusTyped
  <2>6. \A t \in Sessions, i \in Streams : holder'[t] = i <=> holder[t] = i
    BY <1>6, Bounds
    DEF Deliver, Change, DeleteSession, OtherTakes, OtherEnds, IInv, BusTyped, Streams
  <2> QED BY <2>1, <2>2, <2>3, <2>4, <2>5, <2>6, MeddlingKeeps
<1>7. ASSUME NEW i \in Streams, Begin(i) PROVE IInv'
  <2>1. CASE ~(stream[i].key \in Sessions /\ holder[stream[i].key] # None)
    BY <1>7, <2>1, BeginKeeps DEF Begin
  <2>2. CASE stream[i].key \in Sessions /\ holder[stream[i].key] # None
    <3>1. Under(i) /\ Complete(i) /\ holder' = holder
      BY <1>7, <2>2 DEF Begin, Under
    <3>2. \A s \in Sessions : holder[s] # i
      BY <1>7 DEF Begin, IInv, HolderIsOpen
    <3> QED BY <1>7, <3>1, <3>2, CompleteKeeps DEF Begin, IInv, BusTyped
  <2> QED BY <2>1, <2>2
<1>8. ASSUME NEW i \in Streams, Emit(i) PROVE IInv'
  BY <1>8, EmitKeeps
<1>9. ASSUME NEW i \in Streams, Finish(i) PROVE IInv'
  <2>1. Under(i) /\ Complete(i)
    BY <1>9 DEF Finish, Under
  <2>2. holder' \in [Sessions -> Streams \cup {None, Other}]
    BY <1>9 DEF Finish, IInv, BusTyped
  <2>3. \A s \in Sessions : holder[s] = i <=> stream[i].key = s
    BY <1>9 DEF Finish, IInv, HolderIsOpen
  <2>4. \A s \in Sessions : holder'[s] = IF holder[s] = i THEN None ELSE holder[s]
    BY <1>9, <2>3 DEF Finish, IInv, BusTyped
  <2> QED BY <1>9, <2>1, <2>2, <2>4, CompleteKeeps DEF Finish
<1>10. ASSUME NEW c \in Readers, reader[c] # Nobody
       PROVE  /\ reader[c] \in Reader /\ reader[c].got \in Seq(1..MaxEvents)
              /\ reader[c].queue \in Seq(1..MaxEvents)
  BY <1>10, KnownReader DEF Reader
<1>11. \A c \in Readers : Reading(c) \/ reader[c].phase = "saving" => reader[c] # Nobody
  BY Kinds DEF Reading
<1>12. ASSUME NEW c \in Readers, Pull(c) PROVE IInv'
  <2> DEFINE r == reader[c]
             new == [r EXCEPT !.got = Append(@, Head(r.queue)), !.queue = Tail(@)]
  <2>1. r \in Reader /\ r # Nobody /\ r.queue # <<>> /\ r.phase = "reading"
    BY <1>10, <1>11, <1>12 DEF Pull, Reading
  <2>2. /\ Head(r.queue) \in 1..MaxEvents /\ Tail(r.queue) \in Seq(1..MaxEvents)
        /\ Append(r.got, Head(r.queue)) \in Seq(1..MaxEvents)
        /\ Append(r.got, Head(r.queue)) \o Tail(r.queue) = r.got \o r.queue
    <3>1. r.got \in Seq(1..MaxEvents) /\ r.queue \in Seq(1..MaxEvents)
      BY <1>10, <2>1
    <3> QED BY <2>1, <3>1, HeadMoves
  <2>3. /\ new \in Reader /\ new.of = r.of /\ new.phase = r.phase
        /\ new.got \o new.queue = r.got \o r.queue
    BY <2>1, <2>2 DEF Reader
  <2>4. reader' = [reader EXCEPT ![c] = new]
    BY <1>12 DEF Pull
  <2>5. cached' = cached /\ cached \subseteq Sessions
    BY <1>12 DEF Pull, IInv, BusTyped
  <2> HIDE DEF new
  <2> QED BY <1>12, <2>1, <2>3, <2>4, <2>5, ReaderKeeps DEF Pull, Reading
<1>13. ASSUME NEW c \in Readers, ReadEnds(c) PROVE IInv'
  <2> DEFINE r == reader[c]
             k == stream[r.of].key
  <2>1. r \in Reader /\ r # Nobody /\ r.queue = <<>> /\ stream[r.of].status = "done"
    BY <1>10, <1>11, <1>13 DEF ReadEnds
  <2>2. PICK to \in {"ended", "saving"} :
           /\ reader' = [reader EXCEPT ![c].phase = to]
           /\ cached' = cached \/ cached' = cached \cup {k} \/ cached' = cached \ {k}
           /\ c \notin Streams => cached' = cached
           /\ c \in Streams => k \in Sessions
    <3>1. c \in Streams => k \in Sessions
      BY <2>1 DEF IInv, Numbered
    <3> QED BY <1>13, <3>1 DEF ReadEnds
  <2> DEFINE new == [r EXCEPT !.phase = to]
  <2>3. /\ new \in Reader /\ new.of = r.of /\ new.phase = to
        /\ new.got = r.got /\ new.queue = r.queue
    BY <2>1 DEF Reader
  <2>4. Len(new.got) = stream[r.of].length
    <3>1. r.got \o <<>> = [e \in 1..stream[r.of].length |-> e]
      BY <2>1 DEF IInv, AllServed, Served
    <3>2. r.got \o <<>> = r.got /\ stream[r.of].length \in Nat
      BY <1>10, <2>1, KnownReader, Bounds DEF Stream
    <3> QED BY <3>1, <3>2, <2>3
  <2>5. ASSUME NEW s \in Sessions \ (delivered \cup deleted), s \in cached, LiveOf(s) # {}
        PROVE  s \in cached'
    <3>1. CASE c \in Streams /\ s = k
      <4>1. Under(c) /\ r.of = c
        BY <1>13, <2>1, <2>5, <3>1 DEF IInv, Settled, Numbered, ReadEnds
      <4> QED BY <4>1, <2>1 DEF Under
    <3>2. CASE ~(c \in Streams /\ s = k)
      BY <2>2, <2>5, <3>2
    <3> QED BY <3>1, <3>2
  <2>6. cached' \subseteq Sessions
    BY <2>2 DEF IInv, BusTyped
  <2>7. reader' = [reader EXCEPT ![c] = new]
    BY <2>2
  <2> HIDE DEF new
  <2>8. UNCHANGED <<bus, joined, meddled, holder, history>>
    BY <1>13 DEF ReadEnds
  <2> QED BY <2>1, <2>3, <2>4, <2>5, <2>6, <2>7, <2>8, ReaderKeeps
<1>14. ASSUME NEW w \in Savers, NEW to \in {"ended", "hung"},
              save[w] \in Save, save[w].for = "response", Replied(w, to),
              UNCHANGED <<bus, joined, meddled, holder, cached, history>>
       PROVE  IInv'
  <2> DEFINE r == reader[w]
  <2>1. w \in Readers /\ r.phase = "saving"
    BY <1>14, SaveKinds, ResponsesRead DEF StoreInv, RepliesWait
  <2>2. r \in Reader /\ r # Nobody
    BY <1>10, <1>11, <2>1
  <2>3. reader' = [reader EXCEPT ![w].phase = to]
    BY <1>14 DEF Replied
  <2> DEFINE new == [r EXCEPT !.phase = to]
  <2>4. /\ new \in Reader /\ new.of = r.of /\ new.phase = to
        /\ new.got = r.got /\ new.queue = r.queue
    BY <2>2 DEF Reader
  <2>5. Len(new.got) = stream[r.of].length /\ stream[r.of].status = "done"
    BY <2>1, <2>2, <2>4 DEF IInv, AllServed, Served
  <2>6. cached' = cached /\ cached \subseteq Sessions
    BY <1>14 DEF IInv, BusTyped
  <2>7. reader' = [reader EXCEPT ![w] = new]
    BY <2>3
  <2> HIDE DEF new
  <2> QED BY <1>14, <2>1, <2>2, <2>4, <2>5, <2>6, <2>7, ReaderKeeps
<1>15. ASSUME NEW s \in Sessions, Unlink(s) PROVE IInv'
  BY <1>15, NothingChanges DEF Unlink, IInv, BusTyped
<1>16. ASSUME NEW w \in Savers, Look(w) \/ Write(w) \/ SaveEnds(w) PROVE IInv'
  <2>1. save[w] \in Save
    BY <1>16, SaveKinds DEF Look, Write, SaveEnds, StoreInv, FilesTyped
  <2>2. save[w].for \in {"response", "delivery", "change"} /\ save[w].of \in Sessions
    BY <2>1 DEF Save
  <2>3. CASE Look(w) /\ reader' # reader
    BY <1>14, <2>1, <2>3 DEF Look, Replied
  <2>4. CASE Look(w) /\ reader' = reader
    BY <2>4, NothingChanges DEF Look, IInv, BusTyped
  <2>5. CASE Write(w)
    BY <2>5, NothingChanges DEF Write, IInv, BusTyped
  <2>6. CASE SaveEnds(w) /\ save[w].for = "response"
    BY <1>14, <2>1, <2>6 DEF SaveEnds
  <2>7. CASE SaveEnds(w) /\ save[w].for = "change"
    BY <2>7, NothingChanges DEF SaveEnds, Replied, IInv, BusTyped
  <2>8. CASE SaveEnds(w) /\ save[w].for = "delivery"
    <3>1. Send(save[w].of) /\ UNCHANGED <<joined, meddled, reader, holder, cached>>
      BY <2>8 DEF SaveEnds, Replied
    <3> QED BY <2>2, <3>1, MeddlingKeeps DEF Send, IInv, BusTyped
  <2> QED BY <1>16, <2>2, <2>3, <2>4, <2>5, <2>6, <2>7, <2>8
<1>17. CASE UNCHANGED vars
  BY <1>17, NothingChanges DEF vars, IInv, BusTyped
<1> QED BY <1>1, <1>2, <1>4, <1>5, <1>6, <1>7, <1>8, <1>9, <1>12, <1>13, <1>15, <1>16, <1>17 DEF Next

\* Where neither the saves nor the responses that wait for them are touched.
LEMMA FilesAside ==
    ASSUME IInv, StoreInv, UNCHANGED files,
           deleted \subseteq deleted',
           \A s \in Sessions \ (Temporary \cup deleted') : s \in cached => s \in cached',
           \A c \in Streams : reader[c].phase = "saving" => reader'[c].phase = "saving"
    PROVE  StoreInv'
<1>1. UNCHANGED <<save, file, unlinks, met>>
  BY DEF files
<1>2. FilesTyped' /\ RepliesWait'
  BY <1>1 DEF StoreInv, FilesTyped, RepliesWait
<1>3. KeptAreCached'
  BY DEF StoreInv, KeptAreCached
<1> QED BY <1>2, <1>3 DEF StoreInv

\* A save of a session begins.
LEMMA StartSaveKeeps ==
    ASSUME IInv, StoreInv, NEW w \in Savers, NEW s \in Sessions \ Temporary,
           NEW for \in {"response", "delivery", "change"}, StartSave(w, s, for),
           UNCHANGED deleted, cached \subseteq cached',
           for = "response" => w \in Streams /\ reader'[w].phase = "saving",
           \A c \in Streams : reader[c].phase = "saving" => reader'[c].phase = "saving"
    PROVE  StoreInv'
<1> DEFINE new == [of |-> s, for |-> for, phase |-> "looking"]
<1>1. new \in Save /\ new.for = for
  BY DEF Save
<1>2. save' = [save EXCEPT ![w] = new] /\ met' \in {met, met \cup {s}} /\ UNCHANGED <<file, unlinks>>
  BY DEF StartSave
<1> HIDE DEF new
<1>3. FilesTyped'
  BY <1>1, <1>2 DEF StoreInv, FilesTyped
<1>4. RepliesWait'
  BY <1>1, <1>2 DEF StoreInv, FilesTyped, RepliesWait
<1>5. KeptAreCached'
  BY DEF StoreInv, KeptAreCached
<1> QED BY <1>3, <1>4, <1>5 DEF StoreInv

\* A save goes on, or the file of one is deleted: each save stays what it is for.
LEMMA SaveKeeps ==
    ASSUME IInv, StoreInv,
           UNCHANGED <<met, cached, deleted>>, unlinks' \subseteq unlinks,
           file' \in [Sessions -> {"whole", "torn", "none"}],
           save' \in [Savers -> Save \cup {NoSave}],
           \A w \in Savers : save'[w] # NoSave =>
               save[w] # NoSave /\ save'[w].for = save[w].for,
           \A c \in Readers : c \in Savers /\ save'[c] # NoSave => reader'[c] = reader[c]
    PROVE  StoreInv'
<1>1. FilesTyped' /\ KeptAreCached'
  BY DEF StoreInv, FilesTyped, KeptAreCached
<1>2. RepliesWait'
  BY ResponsesRead DEF StoreInv, RepliesWait
<1> QED BY <1>1, <1>2 DEF StoreInv

LEMMA StoreKeeps == IInv /\ StoreInv /\ [Next]_vars => StoreInv'
<1> SUFFICES ASSUME IInv, StoreInv, [Next]_vars PROVE StoreInv'
  OBVIOUS
<1>0. /\ reader \in [Readers -> Reader \cup {Nobody}]
      /\ \A c \in Readers : reader[c].phase = "saving" => reader[c] \in Reader
  BY Kinds DEF IInv, BusTyped
<1>1. ASSUME NEW s \in Sessions, Post(s) PROVE StoreInv'
  <2>1. started + 1 \in Streams /\ started + 1 \notin Begun
    BY <1>1, Bounds DEF Post, Start, Streams, Begun, IInv, BusTyped
  <2>2. reader[started + 1] = Nobody
    BY <2>1, ResponsesRead DEF IInv, Numbered
  <2>3. \A c \in Streams : reader[c].phase = "saving" => reader'[c].phase = "saving"
    BY <1>0, <1>1, <2>2, Kinds, ResponsesRead DEF Post
  <2> QED BY <1>1, <2>3, FilesAside DEF Post, history
<1>2. ASSUME NEW f \in Flows, StartRun(f) \/ JoinRun(f) PROVE StoreInv'
  <2>1. \A c \in Streams : reader'[c] = reader[c]
    BY <1>2, JoinsAside DEF StartRun, JoinRun
  <2> QED BY <1>2, <2>1, FilesAside DEF StartRun, JoinRun, history
<1>3. ASSUME NEW s \in Sessions, Join(s) PROVE StoreInv'
  <2>1. \A c \in Streams : reader'[c] = reader[c]
    BY <1>3, JoinsAside DEF Join
  <2> QED BY <1>3, <2>1, FilesAside DEF Join, history
<1>4. ASSUME NEW s \in Sessions, OtherTakes(s) \/ OtherEnds(s) PROVE StoreInv'
  BY <1>4, FilesAside DEF OtherTakes, OtherEnds, history
<1>5. ASSUME NEW s \in Sessions, DeleteSession(s) PROVE StoreInv'
  <2>1. FilesTyped' /\ KeptAreCached'
    BY <1>5 DEF DeleteSession, StoreInv, FilesTyped, KeptAreCached
  <2>2. RepliesWait'
    BY <1>5 DEF DeleteSession, StoreInv, RepliesWait
  <2> QED BY <2>1, <2>2 DEF StoreInv
<1>6. ASSUME NEW s \in Sessions, Deliver(s) PROVE StoreInv'
  <2>1. CASE s \in Temporary
    BY <1>6, <2>1, FilesAside DEF Deliver, Send
  <2>2. CASE s \notin Temporary
    <3>1. MaxStreams + meddled + 1 \in Savers
      BY <1>6, Bounds DEF Deliver, Meddle, Savers, IInv, BusTyped
    <3> QED BY <1>6, <2>2, <3>1, StartSaveKeeps DEF Deliver, history
  <2> QED BY <2>1, <2>2
<1>7. ASSUME NEW s \in Sessions, Change(s) PROVE StoreInv'
  <2>1. MaxStreams + meddled + 1 \in Savers
    BY <1>7, Bounds DEF Change, Meddle, Savers, IInv, BusTyped
  <2> QED BY <1>7, <2>1, StartSaveKeeps DEF Change, history
<1>8. ASSUME NEW i \in Streams, Begin(i) \/ Finish(i) PROVE StoreInv'
  BY <1>8, FilesAside DEF Begin, Finish, history
<1>9. ASSUME NEW i \in Streams, Emit(i) PROVE StoreInv'
  <2>1. \A c \in Streams : reader[c].phase = "saving" => reader'[c] = reader[c]
    BY <1>9, ResponsesRead DEF Emit, ReadersOf, Reading
  <2> QED BY <1>9, <2>1, FilesAside DEF Emit, history
<1>10. ASSUME NEW c \in Readers, Pull(c) PROVE StoreInv'
  <2>1. \A d \in Streams : reader[d].phase = "saving" => reader'[d] = reader[d]
    BY <1>0, <1>10, ResponsesRead DEF Pull, Reading
  <2> QED BY <1>10, <2>1, FilesAside DEF Pull, history
<1>11. ASSUME NEW c \in Readers, ReadEnds(c) PROVE StoreInv'
  <2> DEFINE s == stream[reader[c].of].key
             keeps == c \in Streams /\ s \notin Temporary
  <2>1. reader[c] \in Reader /\ reader[c].phase = "reading" /\ reader[c] # Nobody
    BY <1>0, <1>11, Kinds DEF ReadEnds, Reading
  <2>2. c \in Streams => s \in Sessions
    BY <2>1 DEF IInv, Numbered
  <2>3. \A d \in Streams : reader[d].phase = "saving" => reader'[d] = reader[d]
    BY <1>0, <1>11, <2>1, ResponsesRead DEF ReadEnds
  <2>4. CASE keeps
    <3>1. c \in Savers
      BY <2>4, Bounds DEF Savers, Streams
    <3>2. reader' = [reader EXCEPT ![c].phase = "saving"] /\ cached' = cached \cup {s}
          /\ StartSave(c, s, "response") /\ UNCHANGED deleted
      BY <1>11, <2>4 DEF ReadEnds, history
    <3>3. reader'[c].phase = "saving"
      BY <1>0, <2>1, <3>2 DEF Reader
    <3> HIDE DEF s
    <3> QED BY <2>2, <2>3, <2>4, <3>1, <3>2, <3>3, StartSaveKeeps
  <2>5. CASE ~keeps
    <3>1. UNCHANGED files /\ cached' \in {cached, cached \ {s}} /\ UNCHANGED deleted
          /\ (cached' # cached => s \in Temporary)
      BY <1>11, <2>5 DEF ReadEnds, history
    <3> QED BY <2>3, <3>1, FilesAside
  <2> QED BY <2>4, <2>5
<1>12. ASSUME NEW w \in Savers, Look(w) \/ Write(w) \/ SaveEnds(w)
       PROVE  save[w] \in Save /\ save[w] # NoSave /\ save[w].of \in Sessions
  <2>1. save[w] \in Save
    BY <1>12, SaveKinds DEF Look, Write, SaveEnds, StoreInv, FilesTyped
  <2> QED BY <2>1, SaveKinds DEF Save
<1>13. ASSUME NEW w \in Savers, NEW to, Replied(w, to)
       PROVE  \A c \in Readers \ {w} : reader'[c] = reader[c]
  BY <1>0, <1>13 DEF Replied
<1>14. ASSUME NEW w \in Savers, NEW to \in {"storing", "writing", "mixing", "lost"},
              save[w] \in Save
       PROVE  /\ [save[w] EXCEPT !.phase = to] \in Save
              /\ [save[w] EXCEPT !.phase = to].for = save[w].for
  BY <1>14 DEF Save
<1>15. ASSUME NEW w \in Savers, Look(w) PROVE StoreInv'
  <2>1. CASE save' = [save EXCEPT ![w].phase = "storing"] /\ reader' = reader
    <3> DEFINE new == [save[w] EXCEPT !.phase = "storing"]
    <3>1. new \in Save /\ new.for = save[w].for /\ save[w] # NoSave
      BY <1>12, <1>14, <1>15
    <3>2. save' = [save EXCEPT ![w] = new] /\ save \in [Savers -> Save \cup {NoSave}]
      BY <2>1 DEF StoreInv, FilesTyped
    <3> HIDE DEF new
    <3>3. UNCHANGED <<met, cached, deleted, unlinks, file>>
      BY <1>15 DEF Look, history
    <3> QED BY <2>1, <3>1, <3>2, <3>3, SaveKeeps, SaveKinds DEF StoreInv, FilesTyped
  <2>2. CASE save' = [save EXCEPT ![w] = NoSave] /\ Replied(w, "hung")
    <3>1. UNCHANGED <<met, cached, deleted, unlinks, file>>
      BY <1>15 DEF Look, history
    <3>2. \A c \in Readers \ {w} : reader'[c] = reader[c]
      BY <1>13, <2>2
    <3> QED BY <2>2, <3>1, <3>2, SaveKeeps DEF StoreInv, FilesTyped
  <2> QED BY <1>15, <2>1, <2>2 DEF Look
<1>16. ASSUME NEW w \in Savers, Write(w) PROVE StoreInv'
  <2>1. UNCHANGED <<met, cached, deleted, unlinks, reader>>
    BY <1>16 DEF Write, history
  <2>2. file' \in [Sessions -> {"whole", "torn", "none"}]
    BY <1>16 DEF Write, StoreInv, FilesTyped
  <2>3. ASSUME NEW v \in Savers
        PROVE  \/ save'[v] = save[v]
               \/ /\ save[v] \in Save
                  /\ save'[v] = [save[v] EXCEPT !.phase = "writing"]
                     \/ save'[v] = [save[v] EXCEPT !.phase = "mixing"]
    BY <1>12, <1>16 DEF Write, WritersOf, SavesOf, StoreInv, FilesTyped
  <2>4. \A v \in Savers : /\ save'[v] \in Save \cup {NoSave}
                          /\ save'[v] # NoSave => save[v] # NoSave /\ save'[v].for = save[v].for
    BY <1>14, <2>3, SaveKinds DEF StoreInv, FilesTyped
  <2>5. save' \in [Savers -> Save \cup {NoSave}]
    BY <1>16, <2>4 DEF Write
  <2> QED BY <2>1, <2>2, <2>4, <2>5, SaveKeeps
<1>17. ASSUME NEW w \in Savers, SaveEnds(w) PROVE StoreInv'
  <2>1. UNCHANGED <<met, cached, deleted, unlinks>>
    BY <1>17 DEF SaveEnds, Send, history
  <2>2. file' \in [Sessions -> {"whole", "torn", "none"}]
    BY <1>12, <1>17 DEF SaveEnds, StoreInv, FilesTyped
  <2>3. \A c \in Readers \ {w} : reader'[c] = reader[c]
    BY <1>13, <1>17 DEF SaveEnds
  <2>4. save' = [save EXCEPT ![w] = NoSave]
    BY <1>17 DEF SaveEnds
  <2> QED BY <2>1, <2>2, <2>3, <2>4, SaveKeeps DEF StoreInv, FilesTyped
<1>18. ASSUME NEW s \in Sessions, Unlink(s) PROVE StoreInv'
  <2>1. UNCHANGED <<met, cached, deleted, reader>> /\ unlinks' \subseteq unlinks
    BY <1>18 DEF Unlink, history
  <2>2. file' \in [Sessions -> {"whole", "torn", "none"}]
    BY <1>18 DEF Unlink, StoreInv, FilesTyped
  <2>3. ASSUME NEW v \in Savers
        PROVE  \/ save'[v] = save[v]
               \/ save[v] \in Save /\ save'[v] = [save[v] EXCEPT !.phase = "lost"]
    BY <1>18 DEF Unlink, WritersOf, SavesOf, StoreInv, FilesTyped
  <2>4. \A v \in Savers : /\ save'[v] \in Save \cup {NoSave}
                          /\ save'[v] # NoSave => save[v] # NoSave /\ save'[v].for = save[v].for
    BY <1>14, <2>3, SaveKinds DEF StoreInv, FilesTyped
  <2>5. save' \in [Savers -> Save \cup {NoSave}]
    BY <1>18, <2>4 DEF Unlink
  <2> QED BY <2>1, <2>2, <2>4, <2>5, SaveKeeps
<1>19. CASE UNCHANGED vars
  BY <1>19, FilesAside DEF vars, history
<1> QED BY <1>1, <1>2, <1>3, <1>4, <1>5, <1>6, <1>7, <1>8, <1>9, <1>10, <1>11,
           <1>15, <1>16, <1>17, <1>18, <1>19 DEF Next

LEMMA Invariance == Spec => [](IInv /\ StoreInv)
<1>1. Init => IInv /\ StoreInv
  BY InitHolds
<1>2. IInv /\ StoreInv /\ [Next]_vars => (IInv /\ StoreInv)'
  BY StepKeeps, StoreKeeps
<1> QED BY <1>1, <1>2, PTL DEF Spec

\* Every reader of a stream of AgentSessionEventBus or WorkFlowRunEventBus is sent the
\* events from the first on, each once and in order, and all of them before its end.
THEOREM EventsAreAllSent == Spec => []NoEventLost
<1>1. IInv => NoEventLost
  BY DEF IInv, AllServed, Served, NoEventLost, Reading
<1> QED BY <1>1, Invariance, PTL

\* AgentSessionEventBus.entries holds exactly the streams that are under way, one of a
\* session at most, unless the scheduler delivered something to the session.
THEOREM BusStaysCurrent == Spec => []BusIsCurrent
<1>1. IInv /\ StoreInv => BusIsCurrent
  <2> SUFFICES ASSUME IInv, StoreInv PROVE BusIsCurrent
    OBVIOUS
  <2>1. ASSUME NEW s \in Sessions \ delivered
        PROVE  /\ Cardinality(LiveOf(s)) <= 1
               /\ \A i \in LiveOf(s) : entry[s] = i
               /\ LiveOf(s) = {} => entry[s] = None
    <3>1. LiveOf(s) = {} \/ \E i : LiveOf(s) = {i}
      <4>1. \A i, j \in LiveOf(s) : i = j
        BY OneLive
      <4> QED BY <4>1
    <3>2. Cardinality(LiveOf(s)) <= 1
      <4>1. CASE LiveOf(s) = {}
        BY <4>1, FS_EmptySet
      <4>2. CASE \E i : LiveOf(s) = {i}
        <5>1. PICK i : LiveOf(s) = {i}
          BY <4>2
        <5>2. Cardinality({i}) = 1
          BY FS_Singleton
        <5> QED BY <5>1, <5>2
      <4> QED BY <3>1, <4>1, <4>2
    <3> QED BY <3>2, Tracked DEF IInv, StreamsTracked
  <2>2. BusTracksGeneration
    BY <2>1 DEF BusTracksGeneration, LiveOf
  <2> QED BY <2>2 DEF BusIsCurrent, TypeOK, IInv, StoreInv
<1> QED BY <1>1, Invariance, PTL

\* A response that ends never takes its session out of the cache under a run of that
\* session: WebChannelResponse removes a temporary session only when its run is over.
THEOREM SessionsOutliveRuns == Spec => []SessionOutlivesRun
<1>1. IInv /\ StoreInv => SessionOutlivesRun
  <2> SUFFICES ASSUME IInv, StoreInv, NEW s \in Sessions \ deleted, holder[s] \in Streams,
                      s \in delivered => s \notin Temporary
               PROVE  s \in cached
    BY DEF SessionOutlivesRun
  <2>1. CASE s \in Temporary
    <3>1. holder[s] \in LiveOf(s)
      BY DEF IInv, HolderIsOpen, LiveOf, Under
    <3> QED BY <2>1, <3>1 DEF IInv, Settled
  <2>2. CASE s \notin Temporary
    BY <2>2 DEF StoreInv, KeptAreCached
  <2> QED BY <2>1, <2>2
<1> QED BY <1>1, Invariance, PTL

-----------------------------------------------------------------------------
(***************************************************************************)
(* ModelStream.                                                            *)
(***************************************************************************)
\* Where the consumer is, or will be when the agent comes back.
Spot == IF at = "given" THEN back ELSE at

Pieces == [type : {"thinking", "text", "call"}, index : Nat, name : Tools \cup {Nothing},
           last : BOOLEAN]
Lines  == [from : Nat, to : Nat, finish : BOOLEAN, usage : 0..2, chunk : BOOLEAN]
Call   == [index : Nat, name : Tools, pieces : Seq(Nat)]
Shown  == [type : {"thinking", "text"}, pieces : Seq(Nat)]

SentFits ==
    /\ provider \in {OpenAI, OpenRouter, Ollama, LMStudio}
    /\ sent \in Seq(Pieces) /\ Len(sent) <= MaxPieces
    /\ \A i \in DOMAIN sent : sent[i].type = "call" /\ sent[i].name = Nothing =>
          \E j \in 1 .. i - 1 : sent[j].type = "call" /\ sent[j].index = sent[i].index
    /\ \A i \in DOMAIN sent : sent[i].last => finished /\ i = Len(sent)

PhaseFits ==
    /\ Spot \in {"idle", "connecting", "waiting", "sorting", "holding", "ending", "left", "failed",
                 "done"}
    /\ at = "given" => back \in {"sorting", "holding", "ending"}
    /\ timer \in {"on", "fired", "off"} /\ failure \in Errors \cup {Nothing}
    /\ stopped \in BOOLEAN /\ open \in BOOLEAN
    /\ written \in 0 .. MaxChunks /\ iteration \in 0 .. MaxIterations
    /\ Spot # "failed" => failure = Nothing
    /\ Spot = "failed" => failure # Nothing
    /\ Spot \in {"connecting", "waiting", "sorting", "holding"} => timer # "off"
    /\ Spot \in {"ending", "done"} => timer = "off"
    /\ Spot \notin {"idle", "left"} => iteration > 0
    /\ Spot = "idle" => timer = "off"

\* The pieces of one line begin where those of the line before end.
Joins(q, end) ==
    \A i \in DOMAIN q :
        /\ q[i].from <= q[i].to /\ q[i].to <= Len(sent)
        /\ q[i].finish => \A p \in q[i].from + 1 .. q[i].to : sent[p].last
        /\ q[i].to = IF i < Len(q) THEN q[i + 1].from ELSE end

Until  == IF wire # << >> THEN wire[1].from ELSE Len(sent)
Sorted == IF lines # << >> THEN lines[1].from ELSE Until

PipeFits ==
    /\ wire \in Seq(Lines) /\ lines \in Seq(Lines) /\ buffer \in 0..1 /\ torn \in BOOLEAN
    /\ cut \in BOOLEAN /\ finished \in BOOLEAN
    /\ Joins(wire, Len(sent)) /\ Joins(lines, Until)
    /\ \A i \in todo : i \in 1 .. Sorted /\ Handed(i)
    /\ torn => cut
    /\ Spot = "holding" => todo # {}
    /\ Spot \notin {"holding", "left"} => todo = {}
    /\ Spot \in {"connecting", "waiting", "ending"} => lines = << >>

\* A reply that is over was read to its end.
IsDrained == Received => todo = {} /\ lines = << >> /\ (~cut => wire = << >>)

\* The lines report a usage, and the last one they report is that; or they report none.
Reports(q, tokens) ==
    \E i \in DOMAIN q : /\ q[i].usage = tokens /\ tokens # 0
                       /\ \A j \in DOMAIN q : j > i => q[j].usage = 0
IsSilent(q) == \A i \in DOMAIN q : q[i].usage = 0

\* The usage the server last reported is on its way, or was taken.
UsageComes ==
    /\ usage \in 0..2 /\ (~finished => usage = 0)
    /\ \/ Reports(wire, usage)
       \/ IsSilent(wire) /\ Reports(lines, usage)
       \/ IsSilent(wire) /\ IsSilent(lines) /\ react.usage = usage

React == [thinking : Seq(Nat), text : Seq(Nat), calls : Seq(Call),
          state : {"idle", "thinking", "text", "call"}, usage : 0..2]

ReactFits == react \in React /\ said \in Seq(Shown) /\ charged \in Nat /\ charged = owed

\* What the strategy has taken: a beginning of what is handed on.
Got == {i \in 1 .. Sorted : Handed(i)} \ todo
GotIs ==
    /\ \A i \in Got, j \in todo : i < j
    /\ \E n \in 0 .. Sorted : Got = {i \in 1 .. n : Handed(i)}

InText(n) == \/ \E i \in DOMAIN said : n \in Range(said[i].pieces)
             \/ n \in Range(react.thinking) \/ n \in Range(react.text)

TextsAreTrue ==
    /\ react.thinking # << >> => react.state = "thinking"
    /\ react.text # << >> => react.state = "text"
    /\ Increasing(react.thinking) /\ Increasing(react.text)
    /\ \A i \in DOMAIN said : said[i].pieces # << >> /\ Increasing(said[i].pieces)
    /\ \A i \in DOMAIN said : \A m \in Range(said[i].pieces) :
          /\ \A j \in DOMAIN said : i < j => \A n \in Range(said[j].pieces) : m < n
          /\ \A n \in Range(react.thinking) \cup Range(react.text) : m < n
    /\ \A n : InText(n) <=> n \in Got /\ sent[n].type # "call"

\* A call lies between two pieces.
Parted(m, n) == \E p \in m .. n : sent[p].type = "call"

\* What the strategy is collecting, after what it gave last.
Follows(type, pieces) ==
    react.state = type =>
        /\ pieces # << >> /\ said # << >> /\ Last(said).type = type =>
              Parted(Last(Last(said).pieces), Head(pieces))
        /\ pieces = << >> =>
              /\ said # << >> /\ Last(said).type = type
              /\ Spot \notin {"connecting", "waiting", "sorting"}
              /\ Spot = "holding" => \A i \in todo : Comes(i) => sent[i].type # type

WholeSoFar ==
    /\ MessagesAreWhole
    /\ react.state = "idle" => said = << >>
    /\ react.state = "call" /\ said # << >> =>
          \E p \in Got : sent[p].type = "call" /\ Last(Last(said).pieces) < p
    /\ Follows("thinking", react.thinking) /\ Follows("text", react.text)

CallsAreTrue ==
    /\ \A c \in DOMAIN react.calls :
          LET call == react.calls[c] IN
          /\ call.pieces # << >> /\ Increasing(call.pieces)
          /\ call.name = sent[Head(call.pieces)].name
          /\ \A n : n \in Range(call.pieces) <=>
                n \in Got /\ sent[n].type = "call" /\ sent[n].index = call.index
          /\ \A d \in 1 .. c - 1 :
                Head(react.calls[d].pieces) < Head(call.pieces) /\ react.calls[d].index # call.index
    /\ \A n \in Got : sent[n].type = "call" =>
          \E c \in DOMAIN react.calls : react.calls[c].index = sent[n].index

RanFits ==
    /\ ran \in Seq(Call) /\ Len(ran) <= Len(react.calls)
    /\ \A c \in DOMAIN ran : ran[c] = react.calls[c]
    /\ ran # << >> => Received

ReplyInv ==
    /\ SentFits /\ PhaseFits /\ PipeFits /\ IsDrained /\ UsageComes /\ ReactFits
    /\ GotIs /\ TextsAreTrue /\ WholeSoFar /\ CallsAreTrue /\ RanFits

-----------------------------------------------------------------------------
(***************************************************************************)
(* Sequences.                                                              *)
(***************************************************************************)
LEMMA AppendedIs ==
  ASSUME NEW S, NEW s \in Seq(S), NEW e \in S
  PROVE  /\ Append(s, e) \in Seq(S) /\ Append(s, e) # << >> /\ Last(Append(s, e)) = e
         /\ Len(Append(s, e)) = Len(s) + 1 /\ Len(s) \in Nat
         /\ DOMAIN s = 1 .. Len(s) /\ DOMAIN Append(s, e) = 1 .. Len(s) + 1
         /\ \A i \in 1 .. Len(s) : Append(s, e)[i] = s[i]
         /\ Append(s, e)[Len(s) + 1] = e
         /\ Range(Append(s, e)) = Range(s) \cup {e}
         /\ s # << >> => Head(Append(s, e)) = Head(s)
         /\ s = << >> => Head(Append(s, e)) = e
<1>1. /\ Append(s, e) \in Seq(S) /\ Append(s, e) # << >>
      /\ Len(Append(s, e)) = Len(s) + 1
      /\ \A i \in 1 .. Len(s) : Append(s, e)[i] = s[i]
      /\ Append(s, e)[Len(s) + 1] = e
  BY AppendProperties
<1>2. Len(s) \in Nat /\ DOMAIN s = 1 .. Len(s) /\ DOMAIN Append(s, e) = 1 .. Len(s) + 1
  BY <1>1, LenProperties
<1>3. Last(Append(s, e)) = e
  BY <1>1 DEF Last
<1>4. Range(Append(s, e)) = Range(s) \cup {e}
  BY <1>1, <1>2 DEF Range
<1>5. Head(Append(s, e)) = Append(s, e)[1]
  BY <1>1, HeadTailProperties
<1>6. s # << >> => Head(s) = s[1] /\ Len(s) > 0
  BY EmptySeq, HeadTailProperties, <1>2
<1>7. s = << >> => Len(s) = 0
  BY EmptySeq
<1>. QED  BY <1>1, <1>2, <1>3, <1>4, <1>5, <1>6, <1>7

LEMMA SequenceIs ==
  ASSUME NEW S, NEW s \in Seq(S)
  PROVE  /\ Len(s) \in Nat /\ DOMAIN s = 1 .. Len(s)
         /\ \A i \in 1 .. Len(s) : s[i] \in S
         /\ s = << >> <=> Len(s) = 0
         /\ s # << >> => /\ Head(s) = s[1] /\ 1 \in DOMAIN s /\ Len(s) > 0
                         /\ Last(s) = s[Len(s)] /\ Len(s) \in DOMAIN s
                         /\ Head(s) \in S /\ Last(s) \in S
                         /\ Head(s) \in Range(s) /\ Last(s) \in Range(s)
         /\ \A x \in Range(s) : x \in S
<1>1. Len(s) \in Nat /\ DOMAIN s = 1 .. Len(s) /\ (s = << >> <=> Len(s) = 0)
  BY LenProperties, EmptySeq
<1>2. \A i \in 1 .. Len(s) : s[i] \in S
  BY ElementOfSeq
<1>3. s # << >> => Head(s) = s[1]
  BY HeadTailProperties
<1>. QED  BY <1>1, <1>2, <1>3 DEF Last, Range

LEMMA TailedIs ==
  ASSUME NEW S, NEW s \in Seq(S), s # << >>
  PROVE  /\ Tail(s) \in Seq(S) /\ Len(Tail(s)) = Len(s) - 1
         /\ DOMAIN Tail(s) = 1 .. Len(s) - 1
         /\ \A i \in 1 .. Len(s) - 1 : Tail(s)[i] = s[i + 1]
  BY HeadTailProperties, LenProperties, EmptySeq

LEMMA IntervalsAre == \A a, b \in Nat : 1 .. a = 1 .. b => a = b
<1>1. \A a, b \in Nat : 1 .. a = 1 .. b => (a # 0 => a \in 1 .. b) /\ (b # 0 => b \in 1 .. a)
  OBVIOUS
<1>. QED  BY <1>1

LEMMA FunctionIsSeq ==
  ASSUME NEW S, NEW n \in Nat, NEW f \in [1 .. n -> S]
  PROVE  f \in Seq(S) /\ Len(f) = n /\ DOMAIN f = 1 .. n /\ (f = << >> <=> n = 0)
<1>1. f \in Seq(S) /\ DOMAIN f = 1 .. n
  BY SeqDef
<1>2. Len(f) \in Nat /\ DOMAIN f = 1 .. Len(f)
  BY <1>1, LenProperties
<1>3. Len(f) = n
  BY <1>1, <1>2, IntervalsAre
<1>4. f = << >> <=> Len(f) = 0
  BY <1>1, EmptySeq
<1>. QED  BY <1>1, <1>3, <1>4, Zenon

LEMMA FrontIs ==
  ASSUME NEW S, NEW s \in Seq(S), NEW m \in 0 .. Len(s)
  PROVE  \E p : /\ p = SubSeq(s, 1, m)
                /\ p \in Seq(S) /\ Len(p) = m /\ DOMAIN p = 1 .. m /\ (p = << >> <=> m = 0)
                /\ \A i \in 1 .. m : p[i] = s[i]
<1>. DEFINE p == [i \in 1 .. m |-> s[i]]
<1>1. Len(s) \in Nat /\ m \in Nat /\ m <= Len(s)
  BY LenProperties
<1>2. SubSeq(s, 1, m) = p
  BY <1>1
<1>3. \A i \in 1 .. Len(s) : s[i] \in S
  BY ElementOfSeq
<1>4. p \in [1 .. m -> S]
  BY <1>1, <1>3
<1>5. \A i \in 1 .. m : p[i] = s[i]
  OBVIOUS
<1>. HIDE DEF p
<1>6. p \in Seq(S) /\ Len(p) = m /\ DOMAIN p = 1 .. m /\ (p = << >> <=> m = 0)
  BY <1>1, <1>4, FunctionIsSeq
<1>. QED  BY <1>2, <1>5, <1>6, Zenon

After(s, m) == SubSeq(s, m + 1, Len(s))

LEMMA BackIs ==
  ASSUME NEW S, NEW s \in Seq(S), NEW m \in 0 .. Len(s)
  PROVE  \E d \in Nat :
           /\ d = Len(s) - m
           /\ After(s, m) \in Seq(S) /\ Len(After(s, m)) = d /\ DOMAIN After(s, m) = 1 .. d
           /\ After(s, m) = << >> <=> d = 0
           /\ \A i \in 1 .. d : After(s, m)[i] = s[m + i]
<1>. DEFINE d == Len(s) - m  q == [i \in 1 .. d |-> s[m + i]]
<1>1. Len(s) \in Nat /\ m \in Nat /\ m <= Len(s) /\ d \in Nat
  BY LenProperties
<1>2. After(s, m) = q
  <2>1. SubSeq(s, m + 1, Len(s)) = [i \in 1 .. (1 + Len(s) - (m + 1)) |-> s[i + (m + 1) - 1]]
    OBVIOUS
  <2>2. 1 + Len(s) - (m + 1) = Len(s) - m /\ \A i \in 1 .. Len(s) - m : i + (m + 1) - 1 = m + i
    BY <1>1
  <2>. QED  BY <2>1, <2>2 DEF After
<1>3. \A i \in 1 .. Len(s) : s[i] \in S
  BY ElementOfSeq
<1>4. q \in [1 .. d -> S]
  BY <1>1, <1>3
<1>5. \A i \in 1 .. d : q[i] = s[m + i]
  OBVIOUS
<1>. HIDE DEF q
<1>6. q \in Seq(S) /\ Len(q) = d /\ DOMAIN q = 1 .. d /\ (q = << >> <=> d = 0)
  <2>. HIDE DEF d
  <2>. QED  BY <1>1, <1>4, FunctionIsSeq
<1>. QED  BY <1>1, <1>2, <1>5, <1>6, Zenon

-----------------------------------------------------------------------------
(***************************************************************************)
(* What the server writes.                                                 *)
(***************************************************************************)
Puttings == SendPieces \/ SendNothing \/ SendFinish \/ SendUsage \/ SendError

LEMMA IndexIsNew ==
  ASSUME SentFits
  PROVE  /\ Cardinality(CallsSent) \in Nat
         /\ \A i \in CallsSent : i \in Nat /\ \E j \in DOMAIN sent : sent[j].type = "call" /\ sent[j].index = i
<1>. DEFINE D == {j \in DOMAIN sent : sent[j].type = "call"}
<1>1. DOMAIN sent = 1 .. Len(sent) /\ Len(sent) \in Nat /\ \A i \in 1 .. Len(sent) : sent[i] \in Pieces
  BY SequenceIs DEF SentFits
<1>2. IsFiniteSet(D)
  <2>1. IsFiniteSet(1 .. Len(sent)) /\ D \subseteq 1 .. Len(sent)
    BY <1>1, FS_Interval
  <2>. QED  BY <2>1, FS_Subset
<1>3. IsFiniteSet({sent[i].index : i \in D})
  <2>. DEFINE f == [i \in D |-> sent[i].index]  T == {sent[i].index : i \in D}
  <2>1. f \in Surjection(D, T)
    BY DEF Surjection
  <2>. QED  BY <2>1, <1>2, FS_Surjection
<1>4. CallsSent = {sent[i].index : i \in D}
  BY DEF CallsSent
<1>5. Cardinality(CallsSent) \in Nat
  BY <1>3, <1>4, FS_CardinalityType
<1>. QED  BY <1>1, <1>5 DEF CallsSent, Pieces

\* What a piece that is new may be.
Continuing(p) == \E j \in DOMAIN sent : sent[j].type = "call" /\ sent[j].index = p.index
Fits(p) == p \in Pieces /\ (p.type = "call" /\ p.name = Nothing => Continuing(p))

LEMMA OneIs ==
  ASSUME SentFits, NEW p \in OnePiece
  PROVE  Fits(p) /\ ~p.last /\ Fits([p EXCEPT !.last = TRUE]) /\ [p EXCEPT !.last = TRUE].last
<1>1. Fits(Spoke("thinking")) /\ ~Spoke("thinking").last /\ Fits(Spoke("text")) /\ ~Spoke("text").last
  <2>1. /\ Spoke("thinking") \in Pieces /\ Spoke("thinking").type = "thinking" /\ ~Spoke("thinking").last
        /\ Spoke("text") \in Pieces /\ Spoke("text").type = "text" /\ ~Spoke("text").last
    BY DEF Spoke, Piece, Pieces
  <2>. QED  BY <2>1 DEF Fits
<1>2. \A q \in BeginsCall : q \in Pieces /\ q.name # Nothing /\ ~q.last
  <2>. SUFFICES ASSUME NEW name \in Tools
                PROVE  LET q == Piece("call", Cardinality(CallsSent), name)
                       IN  q \in Pieces /\ q.name # Nothing /\ ~q.last
    BY DEF BeginsCall
  <2>1. Cardinality(CallsSent) \in Nat /\ name # Nothing
    BY IndexIsNew, ModelStreamAssumption
  <2>. QED  BY <2>1 DEF Piece, Pieces
<1>3. \A q \in Continues : q \in Pieces /\ Continuing(q) /\ ~q.last
  <2>. SUFFICES ASSUME NEW i \in CallsSent
                PROVE  LET q == Piece("call", i, Nothing)
                       IN  q \in Pieces /\ Continuing(q) /\ ~q.last
    BY DEF Continues
  <2>1. i \in Nat /\ \E j \in DOMAIN sent : sent[j].type = "call" /\ sent[j].index = i
    BY IndexIsNew
  <2>2. Piece("call", i, Nothing) \in Pieces /\ Piece("call", i, Nothing).index = i
        /\ ~Piece("call", i, Nothing).last
    BY <2>1 DEF Piece, Pieces
  <2>. QED  BY <2>1, <2>2 DEF Continuing
<1>4. Fits(p) /\ ~p.last
  BY <1>1, <1>2, <1>3 DEF OnePiece, Fits
<1>5. p \in Pieces
  BY <1>4 DEF Fits
<1>. DEFINE q == [p EXCEPT !.last = TRUE]
<1>6. q \in Pieces /\ q.type = p.type /\ q.name = p.name /\ q.index = p.index /\ q.last
  BY <1>5 DEF Pieces
<1>. HIDE DEF q
<1>7. Fits(q) /\ q.last
  BY <1>4, <1>6 DEF Fits, Continuing
<1>. QED  BY <1>4, <1>7 DEF q

LEMMA PiecesAre ==
  ASSUME SentFits,
         NEW pieces \in {<<p>> : p \in OnePiece} \cup {<<Spoke("text"), call>> : call \in BeginsCall}
  PROVE  /\ pieces \in Seq(Pieces) /\ Len(pieces) \in 1..2
         /\ \A i \in 1 .. Len(pieces) : Fits(pieces[i]) /\ ~pieces[i].last
<1>1. CASE \E p \in OnePiece : pieces = <<p>>
  <2>1. PICK p \in OnePiece : pieces = <<p>>
    BY <1>1
  <2>2. Fits(p) /\ ~p.last /\ p \in Pieces
    BY OneIs DEF Fits
  <2>3. pieces \in Seq(Pieces) /\ Len(pieces) = 1 /\ pieces[1] = p
    BY <2>1, <2>2
  <2>. QED  BY <2>2, <2>3
<1>2. CASE \E call \in BeginsCall : pieces = <<Spoke("text"), call>>
  <2>1. PICK call \in BeginsCall : pieces = <<Spoke("text"), call>>
    BY <1>2
  <2>2. call \in OnePiece /\ Spoke("text") \in OnePiece
    BY DEF OnePiece
  <2>3. Fits(call) /\ ~call.last /\ Fits(Spoke("text")) /\ ~Spoke("text").last
    BY <2>2, OneIs
  <2>4. call \in Pieces /\ Spoke("text") \in Pieces
    BY <2>3 DEF Fits
  <2>5. pieces \in Seq(Pieces) /\ Len(pieces) = 2 /\ pieces[1] = Spoke("text") /\ pieces[2] = call
    BY <2>1, <2>4
  <2>. QED  BY <2>3, <2>5
<1>. QED  BY <1>1, <1>2

LEMMA LastPieceIs ==
  ASSUME SentFits, NEW pieces \in {<< >>} \cup {<<[p EXCEPT !.last = TRUE]>> : p \in OnePiece}
  PROVE  /\ pieces \in Seq(Pieces) /\ Len(pieces) \in 0..1
         /\ \A i \in 1 .. Len(pieces) : Fits(pieces[i]) /\ pieces[i].last
<1>1. CASE pieces = << >>
  BY <1>1
<1>2. CASE \E p \in OnePiece : pieces = <<[p EXCEPT !.last = TRUE]>>
  <2>1. PICK p \in OnePiece : pieces = <<[p EXCEPT !.last = TRUE]>>
    BY <1>2
  <2>. DEFINE q == [p EXCEPT !.last = TRUE]
  <2>2. Fits(q) /\ q.last
    BY OneIs
  <2>. HIDE DEF q
  <2>3. q \in Pieces
    BY <2>2 DEF Fits
  <2>4. pieces = <<q>>
    BY <2>1 DEF q
  <2>5. pieces \in Seq(Pieces) /\ Len(pieces) = 1 /\ pieces[1] = q
    BY <2>3, <2>4
  <2>. QED  BY <2>2, <2>5
<1>. QED  BY <1>1, <1>2

\* The reply grows by pieces that fit, until it is finished.
LEMMA SentGrows ==
  ASSUME SentFits, ~finished, finished' \in BOOLEAN, provider' = provider,
         NEW pieces \in Seq(Pieces), Len(pieces) \in Nat, Len(sent) + Len(pieces) <= MaxPieces,
         sent' = sent \o pieces, Len(pieces) > 1 => ~finished',
         \A i \in 1 .. Len(pieces) : Fits(pieces[i]) /\ (pieces[i].last <=> finished')
  PROVE  /\ SentFits' /\ Len(sent') = Len(sent) + Len(pieces)
         /\ \A i \in 1 .. Len(sent) : sent'[i] = sent[i]
         /\ finished' => \A p \in Len(sent) + 1 .. Len(sent') : sent'[p].last
<1>1. /\ sent \in Seq(Pieces) /\ Len(sent) \in Nat /\ DOMAIN sent = 1 .. Len(sent)
  BY SequenceIs DEF SentFits
<1>2. /\ sent' \in Seq(Pieces) /\ Len(sent') = Len(sent) + Len(pieces)
      /\ \A i \in 1 .. Len(sent') : sent'[i] = IF i <= Len(sent) THEN sent[i] ELSE pieces[i - Len(sent)]
  BY <1>1, ConcatProperties
<1>3. DOMAIN sent' = 1 .. Len(sent')
  BY <1>2, SequenceIs
<1>4. ASSUME NEW i \in DOMAIN sent', i <= Len(sent)  PROVE i \in DOMAIN sent /\ sent'[i] = sent[i]
  BY <1>1, <1>2, <1>3, <1>4
<1>5. ASSUME NEW i \in DOMAIN sent', i > Len(sent)
      PROVE  /\ i - Len(sent) \in 1 .. Len(pieces) /\ sent'[i] = pieces[i - Len(sent)]
             /\ Fits(sent'[i]) /\ (sent'[i].last <=> finished')
  BY <1>1, <1>2, <1>3, <1>5
<1>6. ASSUME NEW i \in DOMAIN sent', sent'[i].type = "call", sent'[i].name = Nothing
      PROVE  \E j \in 1 .. i - 1 : sent'[j].type = "call" /\ sent'[j].index = sent'[i].index
  <2>1. CASE i <= Len(sent)
    <3>1. i \in DOMAIN sent /\ sent[i] = sent'[i]
      BY <2>1, <1>4
    <3>2. PICK j \in 1 .. i - 1 : sent[j].type = "call" /\ sent[j].index = sent[i].index
      BY <3>1, <1>6 DEF SentFits
    <3>. QED  BY <3>1, <3>2, <2>1, <1>1, <1>2
  <2>2. CASE i > Len(sent)
    <3>1. PICK j \in DOMAIN sent : sent[j].type = "call" /\ sent[j].index = sent'[i].index
      BY <2>2, <1>5, <1>6 DEF Fits, Continuing
    <3>. QED  BY <3>1, <2>2, <1>1, <1>2, <1>3
  <2>. QED  BY <2>1, <2>2, <1>1, <1>2, <1>3
<1>7. ASSUME NEW i \in DOMAIN sent', sent'[i].last  PROVE finished' /\ i = Len(sent')
  <2>1. i > Len(sent)
    <3>1. SUFFICES ASSUME i <= Len(sent)  PROVE FALSE
      BY <1>1, <1>3
    <3>2. i \in DOMAIN sent /\ sent[i].last
      BY <3>1, <1>4, <1>7
    <3>. QED  BY <3>2 DEF SentFits
  <2>2. finished'
    BY <2>1, <1>5, <1>7
  <2>3. Len(pieces) <= 1
    BY <2>2
  <2>. QED  BY <2>1, <2>2, <2>3, <1>1, <1>2, <1>3
<1>8. SentFits'
  BY <1>1, <1>2, <1>6, <1>7 DEF SentFits
<1>9. \A i \in 1 .. Len(sent) : sent'[i] = sent[i]
  BY <1>1, <1>2
<1>10. finished' => \A p \in Len(sent) + 1 .. Len(sent') : sent'[p].last
  BY <1>1, <1>2, <1>3, <1>5
<1>. QED  BY <1>2, <1>8, <1>9, <1>10

\* Whatever is written: a line at the end of the wire, with the pieces that are new.
PutIs(line) ==
    /\ SentFits' /\ Len(sent') \in Nat /\ Len(sent) <= Len(sent')
    /\ \A i \in 1 .. Len(sent) : sent'[i] = sent[i]
    /\ wire' = Append(wire, line) /\ line.from = Len(sent) /\ line.to = Len(sent')
    /\ line.finish => \A p \in Len(sent) + 1 .. Len(sent') : sent'[p].last
    /\ usage' \in 0..2 /\ finished' \in BOOLEAN /\ (~finished' => usage' = 0)
    /\ \/ line.usage = 0 /\ usage' = usage
       \/ line.usage = usage' /\ usage' # 0
    /\ at = "waiting" /\ written' \in 0 .. MaxChunks
    /\ UNCHANGED <<provider, at, back, stopped, failure, timer, open, torn, closed, buffer, lines,
                   todo, react, result, cut>>

LEMMA PuttingIs ==
  ASSUME SentFits, PhaseFits, PipeFits, UsageComes, Puttings
  PROVE  \E line \in Lines : PutIs(line)
<1>1. Len(sent) \in Nat /\ written \in Nat /\ MaxChunks \in Nat
  BY SequenceIs, ModelStreamAssumption DEF SentFits, PhaseFits
<1>2. usage \in 0..2 /\ finished \in BOOLEAN /\ (~finished => usage = 0)
  BY DEF UsageComes, PipeFits
\* A line, once the reply has grown by its pieces.
<1>3. ASSUME NEW k \in Nat, NEW f \in BOOLEAN, NEW t \in 0..2, NEW c \in BOOLEAN,
             NEW line,
             line = [from |-> Len(sent), to |-> Len(sent) + k, finish |-> f, usage |-> t, chunk |-> c],
             Puts(line), SentFits', Len(sent') = Len(sent) + k, \A i \in 1 .. Len(sent) : sent'[i] = sent[i],
             f => \A p \in Len(sent) + 1 .. Len(sent') : sent'[p].last,
             usage' \in 0..2, finished' \in BOOLEAN, ~finished' => usage' = 0,
             (t = 0 /\ usage' = usage) \/ (t = usage' /\ usage' # 0)
      PROVE  \E l \in Lines : PutIs(l)
  <2>2. /\ line \in Lines /\ line.from = Len(sent) /\ line.to = Len(sent') /\ line.usage = t
        /\ (line.finish <=> f)
    BY <1>1, <1>3 DEF Lines
  <2>3. at = "waiting" /\ written' \in 0 .. MaxChunks /\ wire' = Append(wire, line)
    BY <1>1, <1>3 DEF Puts, Writes
  <2>4. UNCHANGED <<provider, at, back, stopped, failure, timer, open, torn, closed, buffer, lines,
                   todo, react, result, cut>>
    BY <1>3 DEF Puts
  <2>5. Len(sent') \in Nat /\ Len(sent) <= Len(sent')
    BY <1>1, <1>3
  <2>6. PutIs(line)
    BY <1>3, <2>2, <2>3, <2>4, <2>5 DEF PutIs
  <2>. QED  BY <2>2, <2>6
<1>4. \A k, f, t : Chunk(k, f, t) =
          [from |-> Len(sent), to |-> Len(sent) + k, finish |-> f, usage |-> t, chunk |-> TRUE]
  BY Zenon DEF Chunk
<1>5. CASE SendPieces
  <2>1. PICK pieces \in {<<p>> : p \in OnePiece} \cup {<<Spoke("text"), call>> : call \in BeginsCall} :
          /\ Len(sent) + Len(pieces) <= MaxPieces
          /\ Puts(Chunk(Len(pieces), FALSE, 0))
          /\ sent' = sent \o pieces
    BY <1>5 DEF SendPieces
  <2>2. ~finished /\ finished' = finished /\ usage' = usage
    BY <1>5 DEF SendPieces
  <2>3. /\ pieces \in Seq(Pieces) /\ Len(pieces) \in Nat
        /\ \A i \in 1 .. Len(pieces) : Fits(pieces[i]) /\ (pieces[i].last <=> finished')
    BY <2>2, PiecesAre
  <2>4. provider' = provider /\ finished' \in BOOLEAN /\ ~finished'
    BY <2>1, <2>2, <1>2 DEF Puts
  <2>5. /\ SentFits' /\ Len(sent') = Len(sent) + Len(pieces)
        /\ \A i \in 1 .. Len(sent) : sent'[i] = sent[i]
    BY <2>1, <2>2, <2>3, <2>4, SentGrows
  <2>6. Puts([from |-> Len(sent), to |-> Len(sent) + Len(pieces), finish |-> FALSE, usage |-> 0,
              chunk |-> TRUE])
    BY <2>1, <1>4, Zenon
  <2>. QED  BY <1>2, <1>3, <2>2, <2>3, <2>4, <2>5, <2>6
<1>6. CASE SendFinish
  <2>1. PICK tokens \in {0, 1}, pieces \in {<< >>} \cup {<<[p EXCEPT !.last = TRUE]>> : p \in OnePiece} :
          /\ Len(sent) + Len(pieces) <= MaxPieces
          /\ Puts(Chunk(Len(pieces), TRUE, tokens))
          /\ sent' = sent \o pieces
          /\ usage' = tokens
    BY <1>6 DEF SendFinish
  <2>2. ~finished /\ finished' = TRUE /\ usage = 0
    BY <1>6, <1>2 DEF SendFinish
  <2>3. /\ pieces \in Seq(Pieces) /\ Len(pieces) \in 0..1
        /\ \A i \in 1 .. Len(pieces) : Fits(pieces[i]) /\ (pieces[i].last <=> finished')
    BY <2>2, LastPieceIs
  <2>4. provider' = provider /\ finished' \in BOOLEAN /\ finished' /\ Len(pieces) \in Nat
        /\ ~(Len(pieces) > 1)
    BY <2>1, <2>2, <2>3 DEF Puts
  <2>5. /\ SentFits' /\ Len(sent') = Len(sent) + Len(pieces)
        /\ \A i \in 1 .. Len(sent) : sent'[i] = sent[i]
        /\ \A p \in Len(sent) + 1 .. Len(sent') : sent'[p].last
    BY <2>1, <2>2, <2>3, <2>4, SentGrows
  <2>6. Puts([from |-> Len(sent), to |-> Len(sent) + Len(pieces), finish |-> TRUE, usage |-> tokens,
              chunk |-> TRUE])
    BY <2>1, <1>4, Zenon
  <2>7. tokens \in 0..2 /\ usage' \in 0..2 /\ ((tokens = 0 /\ usage' = usage) \/ (tokens = usage' /\ usage' # 0))
    BY <2>1, <2>2
  <2>. QED  BY <1>3, <2>4, <2>5, <2>6, <2>7
\* A line without pieces.
<1>7. ASSUME NEW t \in 0..2, NEW c \in BOOLEAN,
             Puts([from |-> Len(sent), to |-> Len(sent) + 0, finish |-> FALSE, usage |-> t, chunk |-> c]),
             UNCHANGED <<sent, finished>>, usage' \in 0..2, ~finished => usage' = 0,
             (t = 0 /\ usage' = usage) \/ (t = usage' /\ usage' # 0)
      PROVE  \E line \in Lines : PutIs(line)
  <2>1. provider' = provider
    BY <1>7 DEF Puts
  <2>2. SentFits'
    BY <1>7, <2>1 DEF SentFits
  <2>3. Len(sent') = Len(sent) + 0 /\ \A i \in 1 .. Len(sent) : sent'[i] = sent[i]
    BY <1>1, <1>7
  <2>4. finished' \in BOOLEAN /\ (~finished' => usage' = 0)
    BY <1>2, <1>7
  <2>5. 0 \in Nat /\ FALSE \in BOOLEAN
    OBVIOUS
  <2>. QED  BY <1>3, <1>7, <2>2, <2>3, <2>4, <2>5
<1>8. CASE SendNothing
  <2>1. /\ Puts([from |-> Len(sent), to |-> Len(sent) + 0, finish |-> FALSE, usage |-> 0, chunk |-> TRUE])
        /\ UNCHANGED <<sent, finished>> /\ usage' = usage
    BY <1>4, <1>8, Zenon DEF SendNothing
  <2>2. usage' \in 0..2 /\ (~finished => usage' = 0) /\ 0 \in 0..2 /\ TRUE \in BOOLEAN /\ FALSE \in BOOLEAN
    BY <1>2, <2>1
  <2>. QED  BY <1>7, <2>1, <2>2
<1>9. CASE SendUsage
  <2>1. /\ Puts([from |-> Len(sent), to |-> Len(sent) + 0, finish |-> FALSE, usage |-> 2, chunk |-> TRUE])
        /\ UNCHANGED <<sent, finished>> /\ usage' = 2 /\ finished
    BY <1>4, <1>9, Zenon DEF SendUsage
  <2>2. usage' \in 0..2 /\ (~finished => usage' = 0) /\ 2 \in 0..2 /\ usage' # 0 /\ TRUE \in BOOLEAN
    BY <2>1
  <2>. QED  BY <1>7, <2>1, <2>2
<1>10. CASE SendError
  <2>1. /\ Puts([from |-> Len(sent), to |-> Len(sent) + 0, finish |-> FALSE, usage |-> 0, chunk |-> FALSE])
        /\ UNCHANGED <<sent, finished>> /\ usage' = usage
    <3>1. Malformed =
            [from |-> Len(sent), to |-> Len(sent) + 0, finish |-> FALSE, usage |-> 0, chunk |-> FALSE]
      BY <1>1 DEF Malformed
    <3>. QED  BY <1>10, <3>1, Zenon DEF SendError
  <2>2. usage' \in 0..2 /\ (~finished => usage' = 0) /\ 0 \in 0..2 /\ TRUE \in BOOLEAN /\ FALSE \in BOOLEAN
    BY <1>2, <2>1
  <2>. QED  BY <1>7, <2>1, <2>2
<1>. QED  BY <1>5, <1>6, <1>8, <1>9, <1>10 DEF Puttings

-----------------------------------------------------------------------------
(***************************************************************************)
(* The way of the lines.                                                   *)
(***************************************************************************)
LEMMA PlacesAre ==
  ASSUME SentFits, PipeFits
  PROVE  /\ Len(sent) \in Nat /\ DOMAIN sent = 1 .. Len(sent)
         /\ \A i \in 1 .. Len(sent) : sent[i] \in Pieces
         /\ Until \in 0 .. Len(sent) /\ Sorted \in 0 .. Len(sent)
         /\ \A i \in Got : i \in 1 .. Sorted /\ i \in 1 .. Len(sent)
         /\ \A i \in todo : i \in 1 .. Sorted /\ i \in 1 .. Len(sent) /\ Handed(i)
<1>1. /\ Len(sent) \in Nat /\ DOMAIN sent = 1 .. Len(sent)
      /\ \A i \in 1 .. Len(sent) : sent[i] \in Pieces
  BY SequenceIs DEF SentFits
<1>2. ASSUME NEW q \in Seq(Lines), NEW end, Joins(q, end), q # << >>
      PROVE  q[1].from \in 0 .. Len(sent)
  <2>1. 1 \in DOMAIN q /\ q[1] \in Lines
    BY <1>2, SequenceIs
  <2>2. q[1].from <= q[1].to /\ q[1].to <= Len(sent) /\ q[1].from \in Nat /\ q[1].to \in Nat
    BY <1>2, <2>1 DEF Joins, Lines
  <2>. QED  BY <1>1, <2>2
<1>3. Until \in 0 .. Len(sent)
  BY <1>1, <1>2 DEF PipeFits, Until
<1>4. Sorted \in 0 .. Len(sent)
  BY <1>2, <1>3 DEF PipeFits, Sorted
<1>5. \A i \in Got : i \in 1 .. Sorted
  BY DEF Got
<1>6. \A i \in todo : i \in 1 .. Sorted /\ Handed(i)
  BY DEF PipeFits
<1>7. \A i \in 1 .. Sorted : i \in 1 .. Len(sent)
  BY <1>1, <1>4
<1>. QED  BY <1>1, <1>3, <1>4, <1>5, <1>6, <1>7

\* No piece is lost, none comes twice.
Steady ==
    /\ Sorted' \in Nat /\ Sorted <= Sorted' /\ Got' = Got /\ UNCHANGED provider
    /\ \A i \in 1 .. Len(sent) : sent'[i] = sent[i]

LEMMA PuttingJoins ==
  ASSUME SentFits, PhaseFits, PipeFits, NEW line \in Lines, PutIs(line)
  PROVE  PipeFits' /\ Steady /\ todo = {} /\ lines = << >>
<1>1. at = "waiting" /\ Spot = "waiting" /\ Spot' = "waiting" /\ lines = << >> /\ todo = {}
  BY DEF PutIs, Spot, PipeFits
<1>2. /\ Len(sent) \in Nat /\ Len(sent') \in Nat /\ Len(sent) <= Len(sent')
      /\ \A i \in 1 .. Len(sent) : sent'[i] = sent[i]
      /\ wire' = Append(wire, line) /\ line.from = Len(sent) /\ line.to = Len(sent')
      /\ line.finish => \A p \in Len(sent) + 1 .. Len(sent') : sent'[p].last
      /\ UNCHANGED <<provider, torn, buffer, lines, todo, cut>> /\ finished' \in BOOLEAN
  BY PlacesAre DEF PutIs
<1>3. /\ wire' \in Seq(Lines) /\ wire' # << >> /\ Len(wire') = Len(wire) + 1 /\ Len(wire) \in Nat
      /\ DOMAIN wire = 1 .. Len(wire) /\ DOMAIN wire' = 1 .. Len(wire) + 1
      /\ \A i \in 1 .. Len(wire) : wire'[i] = wire[i]
      /\ wire'[Len(wire) + 1] = line
      /\ wire = << >> <=> Len(wire) = 0
  BY <1>2, AppendedIs, SequenceIs DEF PipeFits
<1>4. Until' = Until /\ Sorted' = Until /\ Sorted = Until
  BY <1>1, <1>2, <1>3 DEF Until, Sorted
<1>5. Joins(wire, Len(sent))'
  <2>1. Joins(wire, Len(sent)) /\ \A i \in 1 .. Len(wire) : wire[i] \in Lines
    BY SequenceIs DEF PipeFits
  <2>. SUFFICES ASSUME NEW i \in 1 .. Len(wire) + 1
                PROVE  /\ wire'[i].from <= wire'[i].to /\ wire'[i].to <= Len(sent')
                       /\ wire'[i].finish => \A p \in wire'[i].from + 1 .. wire'[i].to : sent'[p].last
                       /\ wire'[i].to = IF i < Len(wire') THEN wire'[i + 1].from ELSE Len(sent')
    BY <1>3 DEF Joins
  <2>2. CASE i = Len(wire) + 1
    BY <2>2, <1>2, <1>3
  <2>3. CASE i < Len(wire) + 1
    <3>1. i \in 1 .. Len(wire) /\ wire'[i] = wire[i] /\ wire[i].to \in Nat
      BY <2>1, <2>3, <1>3 DEF Lines
    <3>2. wire'[i + 1].from = IF i < Len(wire) THEN wire[i + 1].from ELSE Len(sent)
      BY <3>1, <1>2, <1>3
    <3>3. /\ wire[i].from <= wire[i].to /\ wire[i].to <= Len(sent)
          /\ wire[i].finish => \A p \in wire[i].from + 1 .. wire[i].to : sent[p].last
          /\ wire[i].to = IF i < Len(wire) THEN wire[i + 1].from ELSE Len(sent)
      BY <2>1, <3>1, <1>3 DEF Joins
    <3>4. wire[i].to <= Len(sent')
      BY <3>1, <3>3, <1>2
    <3>5. i < Len(wire')
      BY <2>3, <1>3
    <3>6. wire'[i].finish => \A p \in wire'[i].from + 1 .. wire'[i].to : sent'[p].last
      <4>1. wire[i].from \in Nat /\ wire[i].to \in Nat
        BY <2>1, <3>1 DEF Lines
      <4>2. \A p \in wire[i].from + 1 .. wire[i].to : p \in 1 .. Len(sent)
        BY <3>3, <4>1, <1>2
      <4>. QED  BY <3>1, <3>3, <4>2, <1>2
    <3>. QED  BY <3>1, <3>2, <3>3, <3>4, <3>5, <3>6
  <2>. QED  BY <2>2, <2>3, <1>3
<1>6. Joins(lines, Until)'
  BY <1>1, <1>2, SequenceIs DEF Joins
<1>7. PipeFits'
  BY <1>1, <1>2, <1>3, <1>5, <1>6 DEF PipeFits
<1>8. \A i \in 1 .. Sorted : i \in 1 .. Len(sent) /\ sent'[i] = sent[i]
  BY <1>2, PlacesAre
<1>9. Got' = Got
  <2>1. \A i \in 1 .. Sorted : Handed(i)' <=> Handed(i)
    BY <1>8, <1>2 DEF Handed
  <2>. QED  BY <2>1, <1>2, <1>4 DEF Got
<1>. QED  BY <1>1, <1>2, <1>4, <1>7, <1>9, PlacesAre DEF Steady

LEMMA ReadJoins ==
  ASSUME SentFits, PhaseFits, PipeFits, Read
  PROVE  /\ PipeFits' /\ Steady /\ Until' \in Nat /\ todo = {} /\ lines = << >>
         /\ \E m \in Nat :
               /\ Len(wire) \in Nat /\ m <= Len(wire) /\ DOMAIN wire = 1 .. Len(wire)
               /\ DOMAIN lines' = 1 .. m /\ DOMAIN wire' = 1 .. Len(wire) - m
               /\ \A i \in 1 .. m : lines'[i] = wire[i]
               /\ \A i \in 1 .. Len(wire) - m : wire'[i] = wire[m + i]
<1>1. at = "waiting" /\ Spot = "waiting" /\ at' = "sorting" /\ Spot' = "sorting" /\ lines = << >> /\ todo = {}
  BY DEF Read, Spot, PipeFits
<1>2. wire \in Seq(Lines) /\ Len(wire) \in Nat /\ DOMAIN wire = 1 .. Len(wire) /\ (wire = << >> <=> Len(wire) = 0)
  BY SequenceIs DEF PipeFits
<1>3. PICK k \in 1 .. Unread :
        /\ lines'  = Parsed(buffer + k)
        /\ wire'   = SubSeq(wire, (buffer + k) \div 2 + 1, Len(wire))
        /\ buffer' = (buffer + k) % 2
  BY DEF Read
<1>4. \E m \in 0 .. Len(wire) :
        buffer' \in 0..1 /\ lines' = SubSeq(wire, 1, m) /\ wire' = SubSeq(wire, m + 1, Len(wire))
  <2>1. buffer \in 0..1 /\ k \in Nat /\ Unread <= 2 * Len(wire) - buffer /\ k <= Unread /\ Unread \in Int
    BY <1>2, <1>3 DEF PipeFits, Unread
  <2>2. buffer + k \in Nat /\ buffer + k <= 2 * Len(wire)
    BY <2>1, <1>2
  <2>3. \A n \in Nat, l \in Nat : n <= 2 * l => n \div 2 \in 0 .. l /\ n % 2 \in 0..1
    OBVIOUS
  <2>4. (buffer + k) \div 2 \in 0 .. Len(wire) /\ (buffer + k) % 2 \in 0..1
    BY <2>2, <2>3, <1>2
  <2>. QED  BY <2>4, <1>3 DEF Parsed
<1>5. PICK m \in 0 .. Len(wire) :
        buffer' \in 0..1 /\ lines' = SubSeq(wire, 1, m) /\ wire' = SubSeq(wire, m + 1, Len(wire))
  BY <1>4
<1>6. UNCHANGED <<provider, sent, torn, cut, finished, todo>>
  BY DEF Read
<1>7. /\ lines' \in Seq(Lines) /\ Len(lines') = m /\ DOMAIN lines' = 1 .. m
      /\ lines' = << >> <=> m = 0
      /\ \A i \in 1 .. m : lines'[i] = wire[i]
  <2>0. wire \in Seq(Lines) /\ m \in 0 .. Len(wire)
    BY <1>2
  <2>1. PICK p : /\ p = SubSeq(wire, 1, m)
                 /\ p \in Seq(Lines) /\ Len(p) = m /\ DOMAIN p = 1 .. m /\ (p = << >> <=> m = 0)
                 /\ \A i \in 1 .. m : p[i] = wire[i]
    BY <2>0, FrontIs, ZenonT(30)
  <2>2. lines' = p
    BY <2>1, <1>5, Zenon
  <2>. QED  BY <2>1, <2>2, Zenon
<1>8. /\ wire' \in Seq(Lines) /\ Len(wire') = Len(wire) - m /\ DOMAIN wire' = 1 .. Len(wire) - m
      /\ wire' = << >> <=> Len(wire) - m = 0
      /\ \A i \in 1 .. Len(wire) - m : wire'[i] = wire[m + i]
  <2>0. wire \in Seq(Lines) /\ m \in 0 .. Len(wire)
    BY <1>2
  <2>1. wire' = After(wire, m)
    BY <1>5 DEF After
  <2>2. PICK d \in Nat :
           /\ d = Len(wire) - m
           /\ After(wire, m) \in Seq(Lines) /\ Len(After(wire, m)) = d /\ DOMAIN After(wire, m) = 1 .. d
           /\ After(wire, m) = << >> <=> d = 0
           /\ \A i \in 1 .. d : After(wire, m)[i] = wire[m + i]
    BY <2>0, BackIs
  <2>. QED  BY <2>1, <2>2, Zenon
<1>9. lines' \in Seq(Lines) /\ wire' \in Seq(Lines)
  BY <1>7, <1>8
<1>10. /\ Len(lines') = m /\ Len(wire') = Len(wire) - m
       /\ DOMAIN lines' = 1 .. m /\ DOMAIN wire' = 1 .. Len(wire) - m
       /\ \A i \in 1 .. m : lines'[i] = wire[i]
       /\ \A i \in 1 .. Len(wire) - m : wire'[i] = wire[m + i]
  BY <1>7, <1>8, Zenon
<1>11. DOMAIN wire = 1 .. Len(wire)
  BY <1>2
<1>12. (lines' = << >> <=> m = 0) /\ (wire' = << >> <=> Len(wire) - m = 0) /\ (wire = << >> <=> Len(wire) = 0)
  BY <1>2, <1>7, <1>8, Zenon
<1>13. m \in Nat /\ m <= Len(wire) /\ Len(wire) \in Nat
  BY <1>2
<1>14. Until' = IF m < Len(wire) THEN wire[m + 1].from ELSE Len(sent)
  <2>1. CASE m = Len(wire)
    <3>1. Len(wire) - m = 0
      BY <2>1, <1>13
    <3>2. wire' = << >>
      BY <3>1, <1>12, Zenon
    <3>3. Until' = Len(sent)
      BY <3>2, <1>6 DEF Until
    <3>. QED  BY <2>1, <1>13, <3>3
  <2>2. CASE m < Len(wire)
    <3>0. wire' # << >>
      <4>1. Len(wire) - m # 0
        BY <2>2, <1>13
      <4>. QED  BY <4>1, <1>12, Zenon
    <3>1. wire'[1] = wire[m + 1]
      BY <2>2, <1>13, <1>10
    <3>. QED  BY <2>2, <3>0, <3>1 DEF Until
  <2>. QED  BY <2>1, <2>2, <1>13
<1>15. Sorted = Until /\ Sorted' = Until
  <2>1. CASE m = 0
    BY <2>1, <1>1, <1>2, <1>12, <1>14 DEF Sorted, Until
  <2>2. CASE m > 0
    <3>1. lines' # << >> /\ wire # << >>
      <4>1. m # 0 /\ Len(wire) # 0
        BY <2>2, <1>13
      <4>. QED  BY <4>1, <1>12, Zenon
    <3>2. lines'[1] = wire[1]
      BY <2>2, <1>13, <1>10
    <3>. QED  BY <1>1, <3>1, <3>2 DEF Sorted, Until
  <2>. QED  BY <2>1, <2>2, <1>13
<1>16. Joins(wire, Len(sent))
  BY DEF PipeFits
<1>17. Joins(wire, Len(sent))'
  <2>. SUFFICES ASSUME NEW i \in 1 .. Len(wire) - m
                PROVE  /\ wire'[i].from <= wire'[i].to /\ wire'[i].to <= Len(sent)
                       /\ wire'[i].finish => \A p \in wire'[i].from + 1 .. wire'[i].to : sent[p].last
                       /\ wire'[i].to = IF i < Len(wire') THEN wire'[i + 1].from ELSE Len(sent)
    BY <1>6, <1>10 DEF Joins
  <2>1. m + i \in DOMAIN wire /\ wire'[i] = wire[m + i] /\ (i < Len(wire') <=> m + i < Len(wire))
    BY <1>13, <1>10, <1>11
  <2>2. i < Len(wire') => wire'[i + 1] = wire[(m + i) + 1]
    BY <1>13, <1>10, <1>11
  <2>. QED  BY <1>16, <2>1, <2>2 DEF Joins
<1>18. Joins(lines, Until)'
  <2>. SUFFICES ASSUME NEW i \in 1 .. m
                PROVE  /\ lines'[i].from <= lines'[i].to /\ lines'[i].to <= Len(sent)
                       /\ lines'[i].finish => \A p \in lines'[i].from + 1 .. lines'[i].to : sent[p].last
                       /\ lines'[i].to = IF i < Len(lines') THEN lines'[i + 1].from ELSE Until'
    BY <1>6, <1>10 DEF Joins
  <2>1. i \in DOMAIN wire /\ lines'[i] = wire[i]
    BY <1>13, <1>10, <1>11
  <2>2. i < m => lines'[i + 1] = wire[i + 1] /\ i < Len(wire)
    BY <1>13, <1>10, <1>11
  <2>3. i = m => Until' = IF i < Len(wire) THEN wire[i + 1].from ELSE Len(sent)
    BY <1>14
  <2>4. i < m \/ i = m
    BY <1>13
  <2>. QED  BY <1>10, <1>16, <2>1, <2>2, <2>3, <2>4 DEF Joins
<1>19. PipeFits'
  BY <1>1, <1>5, <1>6, <1>9, <1>17, <1>18 DEF PipeFits
<1>20. Got' = Got
  BY <1>6, <1>15 DEF Got, Handed
<1>21. Sorted \in Nat
  BY PlacesAre
<1>22. Until' \in Nat
  <2>1. ASSUME m < Len(wire)  PROVE wire[m + 1] \in Lines
    BY <2>1, <1>2, <1>13, SequenceIs
  <2>. QED  BY <2>1, <1>14, PlacesAre DEF Lines
<1>23. \E n \in Nat :
          /\ Len(wire) \in Nat /\ n <= Len(wire) /\ DOMAIN wire = 1 .. Len(wire)
          /\ DOMAIN lines' = 1 .. n /\ DOMAIN wire' = 1 .. Len(wire) - n
          /\ \A i \in 1 .. n : lines'[i] = wire[i]
          /\ \A i \in 1 .. Len(wire) - n : wire'[i] = wire[n + i]
  BY <1>13, <1>10, <1>11, Zenon
<1>24. Steady
  BY <1>6, <1>15, <1>20, <1>21 DEF Steady
<1>. QED  BY <1>1, <1>19, <1>22, <1>23, <1>24, Zenon

LEMMA SortJoins ==
  ASSUME SentFits, PhaseFits, PipeFits, Sort
  PROVE  PipeFits' /\ Steady /\ todo = {} /\ \A i \in todo', j \in Got : j < i
<1>1. /\ at = "sorting" /\ Spot = "sorting" /\ todo = {} /\ lines # << >>
      /\ UNCHANGED <<provider, sent, wire, torn, buffer, cut, finished>>
      /\ lines' = Tail(lines) /\ todo' = PiecesOf(lines[1])
      /\ at' = IF todo' = {} THEN "sorting" ELSE "holding"
  <2>1. lines \in Seq(Lines)
    BY DEF PipeFits
  <2>2. lines # << >> => Head(lines) = lines[1]
    BY <2>1, SequenceIs
  <2>. QED  BY <2>2 DEF Sort, Spot, PipeFits, server
<1>2. /\ lines \in Seq(Lines) /\ Len(lines) \in Nat /\ Len(lines) > 0 /\ DOMAIN lines = 1 .. Len(lines)
      /\ lines[1] \in Lines
  BY <1>1, SequenceIs DEF PipeFits
<1>3. /\ lines' \in Seq(Lines) /\ Len(lines') = Len(lines) - 1 /\ DOMAIN lines' = 1 .. Len(lines) - 1
      /\ \A i \in 1 .. Len(lines) - 1 : lines'[i] = lines[i + 1]
  BY <1>1, <1>2, TailedIs
<1>4. lines' = << >> <=> Len(lines) = 1
  BY <1>2, <1>3, SequenceIs
<1>5. Until' = Until /\ Joins(wire, Len(sent))' /\ Joins(lines, Until)
  BY <1>1 DEF Until, PipeFits, Joins
<1>6. /\ lines[1].from <= lines[1].to /\ lines[1].to <= Len(sent)
      /\ lines[1].finish => \A p \in lines[1].from + 1 .. lines[1].to : sent[p].last
      /\ lines[1].to = IF 1 < Len(lines) THEN lines[2].from ELSE Until
  BY <1>2, <1>5 DEF Joins
<1>7. Sorted = lines[1].from /\ Sorted' = lines[1].to /\ Sorted \in Nat /\ Sorted' \in Nat
  <2>1. Sorted = lines[1].from /\ lines[1].from \in Nat /\ lines[1].to \in Nat
    BY <1>1, <1>2 DEF Sorted, Lines
  <2>2. CASE Len(lines) = 1
    BY <2>1, <2>2, <1>4, <1>5, <1>6 DEF Sorted
  <2>3. CASE Len(lines) > 1
    <3>1. lines'[1] = lines[2]
      BY <2>3, <1>2, <1>3
    <3>2. Sorted' = lines'[1].from
      BY <2>3, <1>4, <1>2 DEF Sorted
    <3>. QED  BY <2>1, <2>3, <3>1, <3>2, <1>6
  <2>. QED  BY <2>2, <2>3, <1>2
<1>8. Joins(lines, Until)'
  <2>. SUFFICES ASSUME NEW i \in 1 .. Len(lines) - 1
                PROVE  /\ lines'[i].from <= lines'[i].to /\ lines'[i].to <= Len(sent)
                       /\ lines'[i].finish => \A p \in lines'[i].from + 1 .. lines'[i].to : sent[p].last
                       /\ lines'[i].to = IF i < Len(lines') THEN lines'[i + 1].from ELSE Until
    BY <1>1, <1>3, <1>5 DEF Joins
  <2>1. i + 1 \in DOMAIN lines /\ lines'[i] = lines[i + 1] /\ (i < Len(lines') <=> i + 1 < Len(lines))
    BY <1>2, <1>3
  <2>2. i < Len(lines') => lines'[i + 1] = lines[(i + 1) + 1]
    BY <1>2, <1>3
  <2>. QED  BY <1>5, <2>1, <2>2 DEF Joins
<1>9. todo' = {i \in Sorted + 1 .. Sorted' : Handed(i)}
  <2>1. lines[1].finish => \A p \in Sorted + 1 .. Sorted' : ~Handed(p)
    BY <1>6, <1>7 DEF Handed
  <2>. QED  BY <1>1, <1>7, <2>1 DEF PiecesOf
<1>10. \A i : Handed(i)' <=> Handed(i)
  BY <1>1 DEF Handed
<1>11. Got = {i \in 1 .. Sorted : Handed(i)}
  BY <1>1 DEF Got
<1>12. Got' = {i \in 1 .. Sorted' : Handed(i)} \ todo'
  BY <1>10 DEF Got
<1>13. Sorted <= Sorted'
  BY <1>6, <1>7
<1>14. Got' = Got
  BY <1>7, <1>9, <1>11, <1>12, <1>13
<1>15. \A i \in todo' : i \in 1 .. Sorted' /\ Handed(i)' /\ \A j \in Got : j < i
  BY <1>7, <1>9, <1>10, <1>11
<1>16. at' = "holding" => todo' # {}
  BY <1>1
<1>17. Spot' = at'
  BY <1>1 DEF Spot
<1>18. PipeFits'
  BY <1>1, <1>3, <1>5, <1>8, <1>15, <1>17 DEF PipeFits
<1>. QED  BY <1>1, <1>7, <1>13, <1>14, <1>15, <1>18 DEF Steady

\* What is on its way, and what has arrived, stays as it is.
Still == UNCHANGED <<provider, sent, finished, wire, lines, todo>>

StillSteps ==
    \/ Close \/ CloseEarly \/ Connects \/ Refused \/ ConnectFails \/ Fire \/ ReadFails \/ SortFails
    \/ ReadOn \/ StreamEnds \/ Resume \/ Flush \/ FlushRest \/ RunCall \/ Iterate \/ Stop \/ Leave

LEMMA StepsAre == ReplyNext => Puttings \/ Read \/ Sort \/ Take \/ Requests \/ StillSteps
  BY DEF ReplyNext, Server, Consumer, Puttings, StillSteps

LEMMA StillJoins ==
  ASSUME SentFits, PhaseFits, PipeFits, StillSteps
  PROVE  /\ PipeFits' /\ Still /\ Steady
         /\ Spot' = "holding" => Spot = "holding"
         /\ Spot' \in {"connecting", "waiting", "sorting"} => Spot \in {"connecting", "waiting", "sorting"}
<1>1. /\ UNCHANGED <<provider, sent, wire, lines, buffer, todo, finished>>
      /\ torn' \in BOOLEAN /\ cut' \in BOOLEAN /\ (torn' => cut')
      /\ Spot' = "holding" => Spot = "holding"
      /\ Spot' \notin {"holding", "left"} => Spot \notin {"holding", "left"}
      /\ Spot' \in {"connecting", "waiting", "ending"} =>
            Spot \in {"connecting", "waiting", "ending"} \/ lines = << >>
      /\ Spot' \in {"connecting", "waiting", "sorting"} => Spot \in {"connecting", "waiting", "sorting"}
  <2>. USE DEF PhaseFits, PipeFits, Spot
  <2>1. CASE Close
    BY <2>1 DEF Close, Closes, Writes
  <2>2. CASE CloseEarly
    BY <2>2 DEF CloseEarly, Closes, Writes
  <2>3. CASE Connects
    BY <2>3 DEF Connects
  <2>4. CASE Refused
    BY <2>4 DEF Refused, Fails
  <2>5. CASE ConnectFails
    BY <2>5 DEF ConnectFails, Fails
  <2>6. CASE Fire
    BY <2>6 DEF Fire
  <2>7. CASE ReadFails
    BY <2>7 DEF ReadFails, Fails
  <2>8. CASE ReadOn
    BY <2>8 DEF ReadOn, server
  <2>9. CASE StreamEnds
    BY <2>9 DEF StreamEnds, server
  <2>10. CASE Resume
    BY <2>10 DEF Resume, server
  <2>11. CASE Flush
    BY <2>11 DEF Flush, Give, server
  <2>12. CASE FlushRest
    BY <2>12 DEF FlushRest, Give, server
  <2>13. CASE RunCall
    BY <2>13 DEF RunCall, Give, server
  <2>14. CASE Iterate
    BY <2>14 DEF Iterate, server
  <2>15. CASE Stop
    BY <2>15 DEF Stop, server
  <2>16. CASE Leave
    BY <2>16 DEF Leave, server
  <2>17. CASE SortFails
    BY <2>17 DEF SortFails, Fails
  <2>. QED  BY <2>1, <2>2, <2>3, <2>4, <2>5, <2>6, <2>7, <2>8, <2>9, <2>10, <2>11, <2>12, <2>13, <2>14,
               <2>15, <2>16, <2>17 DEF StillSteps
<1>2. Until' = Until /\ Sorted' = Sorted /\ Got' = Got
  BY <1>1 DEF Until, Sorted, Got, Handed
<1>3. Joins(wire, Len(sent))' /\ Joins(lines, Until)'
  BY <1>1, <1>2 DEF PipeFits, Joins
<1>4. \A i \in todo : Handed(i)' <=> Handed(i)
  BY <1>1 DEF Handed
<1>5. PipeFits'
  BY <1>1, <1>2, <1>3, <1>4 DEF PipeFits
<1>. QED  BY <1>1, <1>2, <1>5, PlacesAre DEF Still, Steady

LEMMA TakeIs ==
  ASSUME SentFits, PhaseFits, PipeFits, GotIs, Take
  PROVE  \E i \in todo :
           /\ Comes(i) /\ ~StaleThinking(sent[i].type) /\ ~StaleText(sent[i].type)
           /\ i \in 1 .. Len(sent) /\ Handed(i) /\ (\A j \in Got : j < i)
           /\ react' = Took(i) /\ todo' = todo \ {i} /\ Got' = Got \cup {i}
           /\ PipeFits' /\ GotIs' /\ Sorted' = Sorted
           /\ Spot = "holding" /\ Spot' = (IF todo' = {} THEN "sorting" ELSE "holding")
           /\ UNCHANGED <<server, stopped, failure, timer, buffer, lines, result>>
<1>1. PICK i \in todo :
        /\ Comes(i) /\ ~StaleThinking(sent[i].type) /\ ~StaleText(sent[i].type)
        /\ react' = Took(i)
        /\ todo' = todo \ {i}
  BY DEF Take
<1>2. UNCHANGED <<server, stopped, failure, timer, buffer, lines, result>> /\ at = "holding"
  BY DEF Take
<1>3. Spot = "holding" /\ Spot' = (IF todo' = {} THEN "sorting" ELSE "holding")
  BY DEF Take, Give, Spot
<1>4. UNCHANGED <<provider, sent, wire, torn, lines, buffer, finished, cut>>
  BY <1>2 DEF server
<1>5. Until' = Until /\ Sorted' = Sorted /\ \A j : Handed(j)' <=> Handed(j)
  BY <1>4 DEF Until, Sorted, Handed
<1>6. /\ Sorted \in Nat /\ \A j \in todo : j \in 1 .. Sorted /\ j \in 1 .. Len(sent) /\ Handed(j)
      /\ \A j \in Got : j \in 1 .. Sorted
  BY PlacesAre
<1>7. Got = {j \in 1 .. Sorted : Handed(j)} \ todo /\ Got' = {j \in 1 .. Sorted : Handed(j)} \ todo'
  BY <1>5 DEF Got
<1>8. Got' = Got \cup {i}
  BY <1>1, <1>6, <1>7
<1>9. \A j \in Got : j < i
  BY <1>1 DEF GotIs
<1>10. \A j \in todo : i <= j
  BY <1>1 DEF Comes
<1>11. \A g \in Got', j \in todo' : g < j
  <2>. SUFFICES ASSUME NEW g \in Got', NEW j \in todo'  PROVE g < j
    OBVIOUS
  <2>1. j \in todo /\ j # i /\ i \in Nat /\ j \in Nat /\ i <= j
    BY <1>1, <1>6, <1>10
  <2>2. CASE g = i
    BY <2>1, <2>2
  <2>3. CASE g \in Got
    BY <2>1, <2>3 DEF GotIs
  <2>. QED  BY <2>2, <2>3, <1>8
<1>12. Got' = {j \in 1 .. i : Handed(j)}
  <2>1. ASSUME NEW j \in 1 .. i, Handed(j)  PROVE j \in Got \cup {i}
    <3>1. j \in 1 .. Sorted
      BY <2>1, <1>1, <1>6
    <3>2. j \in todo => j = i
      BY <1>1, <1>6, <1>10
    <3>. QED  BY <2>1, <3>1, <3>2, <1>7
  <2>2. ASSUME NEW j \in Got \cup {i}  PROVE j \in 1 .. i /\ Handed(j)
    BY <1>1, <1>6, <1>7, <1>9
  <2>. QED  BY <2>1, <2>2, <1>8
<1>13. GotIs'
  <2>1. i \in 0 .. Sorted' /\ \A j : Handed(j)' <=> Handed(j)
    BY <1>1, <1>5, <1>6
  <2>2. {j \in 1 .. i : Handed(j)'} = {j \in 1 .. i : Handed(j)}
    BY <2>1
  <2>. QED  BY <1>11, <1>12, <2>1, <2>2 DEF GotIs
<1>14. Joins(wire, Len(sent))' /\ Joins(lines, Until)'
  BY <1>4, <1>5 DEF PipeFits, Joins
<1>15. \A j \in todo' : j \in 1 .. Sorted' /\ Handed(j)'
  BY <1>1, <1>5, <1>6
<1>16. PipeFits'
  BY <1>3, <1>4, <1>14, <1>15 DEF PipeFits
<1>. QED  BY <1>1, <1>2, <1>3, <1>5, <1>6, <1>8, <1>9, <1>13, <1>16

\* A request begins with nothing sent, nothing taken.
LEMMA RequestIs ==
  ASSUME Requests
  PROVE  /\ sent' = << >> /\ Sorted' = 0 /\ Got' = {} /\ todo' = todo
         /\ wire' = << >> /\ lines' = << >> /\ Spot = "idle" /\ Spot' = "connecting"
<1>1. sent' = << >> /\ wire' = << >> /\ lines' = << >> /\ todo' = todo /\ at = "idle" /\ at' = "connecting"
  BY DEF Requests
<1>2. Sorted' = 0
  BY <1>1 DEF Sorted, Until
<1>3. Got' = {}
  BY <1>2 DEF Got
<1>. QED  BY <1>1, <1>2, <1>3 DEF Spot

LEMMA PipeStaysFit ==
  ASSUME SentFits, PhaseFits, PipeFits, UsageComes, GotIs, ReplyNext
  PROVE  PipeFits'
<1>1. CASE Puttings
  BY <1>1, PuttingIs, PuttingJoins
<1>2. CASE Read
  BY <1>2, ReadJoins
<1>3. CASE Sort
  BY <1>3, SortJoins
<1>4. CASE Take
  BY <1>4, TakeIs
<1>5. CASE StillSteps
  BY <1>5, StillJoins
<1>6. CASE Requests
  <2>1. /\ wire' = << >> /\ lines' = << >> /\ torn' = FALSE /\ buffer' = 0 /\ cut' = FALSE /\ finished' = FALSE
        /\ todo' = todo /\ todo = {} /\ Spot' = "connecting"
    BY <1>6, RequestIs DEF Requests, PipeFits
  <2>2. \A end : Joins(wire, end)' /\ Joins(lines, end)'
    BY <2>1 DEF Joins
  <2>3. Joins(wire, Len(sent))' /\ Joins(lines, Until)'
    BY <2>1 DEF Joins
  <2>4. wire' \in Seq(Lines) /\ lines' \in Seq(Lines)
    BY <2>1
  <2>5. torn' \in BOOLEAN /\ ~torn' /\ cut' \in BOOLEAN /\ finished' \in BOOLEAN
    BY <2>1, Zenon
  <2>6. todo' = {}
    BY <2>1, Zenon
  <2>7. buffer' \in 0..1
    <3>1. buffer' = 0
      BY <2>1, Zenon
    <3>. QED  BY <3>1
  <2>. QED  BY <2>1, <2>3, <2>4, <2>5, <2>6, <2>7 DEF PipeFits
<1>. QED  BY <1>1, <1>2, <1>3, <1>4, <1>5, <1>6, StepsAre

LEMMA GotStays ==
  ASSUME SentFits, PhaseFits, PipeFits, UsageComes, GotIs, ReplyNext
  PROVE  GotIs' /\ (Take \/ Requests \/ Steady)
<1>1. ASSUME Steady, \A i \in todo', j \in Got : j < i  PROVE GotIs'
  <2>1. PICK n \in 0 .. Sorted : Got = {i \in 1 .. n : Handed(i)}
    BY DEF GotIs
  <2>2. n \in 0 .. Sorted' /\ \A i \in 1 .. n : i \in 1 .. Len(sent)
    BY <1>1, PlacesAre DEF Steady
  <2>3. \A i \in 1 .. n : Handed(i)' <=> Handed(i)
    BY <2>2, <1>1 DEF Steady, Handed
  <2>4. Got' = {i \in 1 .. n : Handed(i)'}
    BY <2>1, <2>3, <1>1 DEF Steady
  <2>. QED  BY <2>2, <2>4, <1>1 DEF GotIs, Steady
<1>2. CASE Puttings
  <2>1. PICK line \in Lines : PutIs(line)
    BY <1>2, PuttingIs
  <2>2. Steady /\ todo' = {}
    BY <2>1, PuttingJoins DEF PutIs
  <2>. QED  BY <2>2, <1>1
<1>3. CASE Read
  <2>1. Steady /\ todo' = {}
    BY <1>3, ReadJoins DEF Read
  <2>. QED  BY <2>1, <1>1
<1>4. CASE Sort
  BY <1>4, <1>1, SortJoins
<1>5. CASE Take
  BY <1>5, TakeIs
<1>6. CASE StillSteps
  <2>1. Steady /\ todo' = todo
    BY <1>6, StillJoins DEF Still
  <2>. QED  BY <2>1, <1>1 DEF GotIs
<1>7. CASE Requests
  <2>1. Sorted' = 0 /\ Got' = {}
    BY <1>7, RequestIs
  <2>. QED  BY <1>7, <2>1 DEF GotIs
<1>. QED  BY <1>2, <1>3, <1>4, <1>5, <1>6, <1>7, StepsAre

-----------------------------------------------------------------------------
(***************************************************************************)
(* What is sent, and where the consumer is.                                *)
(***************************************************************************)
LEMMA SentStaysFit ==
  ASSUME SentFits, PhaseFits, PipeFits, UsageComes, ReplyNext
  PROVE  SentFits'
<1>1. CASE Puttings
  BY <1>1, PuttingIs DEF PutIs
<1>2. CASE UNCHANGED <<provider, sent, finished>>
  BY <1>2 DEF SentFits
<1>3. CASE Read \/ Sort \/ Take
  BY <1>3, <1>2 DEF Read, Sort, Take, server
<1>4. CASE StillSteps
  BY <1>4, <1>2, StillJoins DEF Still
<1>5. CASE Requests
  <2>1. provider' = provider /\ sent' = << >>
    BY <1>5 DEF Requests
  <2>2. sent' \in Seq(Pieces) /\ Len(sent') = 0 /\ DOMAIN sent' = {}
    BY <2>1
  <2>3. 0 <= MaxPieces
    BY ModelStreamAssumption
  <2>. QED  BY <2>1, <2>2, <2>3 DEF SentFits
<1>. QED  BY <1>1, <1>3, <1>4, <1>5, StepsAre

LEMMA PhaseStaysFit ==
  ASSUME SentFits, PhaseFits, PipeFits, UsageComes, ReplyNext
  PROVE  PhaseFits'
<1>. USE DEF PhaseFits, Spot
<1>1. CASE Puttings
  BY <1>1, PuttingIs DEF PutIs, result
<1>2. CASE Read
  BY <1>2 DEF Read, result
<1>3. CASE Sort
  BY <1>3 DEF Sort, result, server
<1>4. CASE Take
  BY <1>4 DEF Take, Give, result, server
<1>5. CASE Requests
  <2>1. /\ at' = "connecting" /\ at = "idle" /\ timer' = "on" /\ open' = TRUE
        /\ UNCHANGED <<back, stopped, failure, written>>
    BY <1>5 DEF Requests
  <2>2. iteration' \in 0 .. MaxIterations /\ iteration' > 0
    BY <1>5, ModelStreamAssumption DEF Requests
  <2>. QED  BY <2>1, <2>2
<1>6. CASE Close \/ CloseEarly
  BY <1>6 DEF Close, CloseEarly, Closes, Writes, result
<1>7. CASE Connects
  BY <1>7 DEF Connects, result
<1>8. ASSUME NEW error \in Errors, Fails(error), open' = FALSE, at \in {"connecting", "waiting"}
      PROVE  PhaseFits'
  <2>1. error # Nothing
    BY <1>8, ModelStreamAssumption
  <2>. QED  BY <1>8, <2>1 DEF Fails, result
<1>9. CASE Refused
  BY <1>9, <1>8 DEF Refused, Errors
<1>10. CASE ConnectFails
  BY <1>10, <1>8 DEF ConnectFails, Errors
<1>11. CASE ReadFails
  BY <1>11, <1>8 DEF ReadFails, Errors
<1>12. CASE Fire
  BY <1>12 DEF Fire, Abortable, result
<1>13. CASE ReadOn
  BY <1>13 DEF ReadOn, server, result
<1>14. CASE StreamEnds
  BY <1>14 DEF StreamEnds, server, result
<1>15. CASE Resume
  BY <1>15 DEF Resume, server, result
<1>16. CASE Flush
  BY <1>16 DEF Flush, Give, server
<1>17. CASE FlushRest
  BY <1>17 DEF FlushRest, Give, server
<1>18. CASE RunCall
  BY <1>18 DEF RunCall, Give, server
<1>19. CASE Iterate
  BY <1>19 DEF Iterate, server
<1>20. CASE Stop
  BY <1>20 DEF Stop, server, result
<1>21. CASE Leave
  BY <1>21 DEF Leave, server, result
<1>22. CASE SortFails
  <2>1. at = "sorting" /\ Fails("malformed") /\ open' = open
    BY <1>22 DEF SortFails
  <2>2. "malformed" \in Errors /\ Nothing # "malformed"
    BY ModelStreamAssumption DEF Errors
  <2>. QED  BY <2>1, <2>2 DEF Fails, result
<1>. QED  BY <1>1, <1>2, <1>3, <1>4, <1>5, <1>6, <1>7, <1>9, <1>10, <1>11, <1>12, <1>13, <1>14, <1>15,
             <1>16, <1>17, <1>18, <1>19, <1>20, <1>21, <1>22, StepsAre DEF StillSteps

\* Once a reply was received, only the next request makes it another.
LEMMA ReceivedStays ==
  ASSUME SentFits, PhaseFits, PipeFits, UsageComes, ReplyNext
  PROVE  /\ Received => Received' \/ Requests
         /\ Received' => Received \/ StreamEnds
         /\ Requests => ~Received'
         /\ Received => ~Puttings /\ ~Read /\ ~Sort /\ ~Take /\ ~Close /\ ~CloseEarly
         /\ Spot \in {"ending", "done"} => Received
<1>. USE DEF PhaseFits, Spot, Received
<1>1. Spot \in {"ending", "done"} => Received
  OBVIOUS
<1>2. Received => Spot \notin {"connecting", "waiting", "sorting", "holding", "failed"}
  OBVIOUS
<1>3. Puttings => at = "waiting" /\ UNCHANGED <<iteration, timer, failure>>
  BY PuttingIs DEF PutIs, result
<1>4. Read => at = "waiting" /\ UNCHANGED <<iteration, timer, failure>>
  BY DEF Read, result
<1>5. Sort => at = "sorting" /\ UNCHANGED <<iteration, timer, failure>>
  BY DEF Sort, result
<1>6. Take => at = "holding" /\ UNCHANGED <<iteration, timer, failure>>
  BY DEF Take, result
<1>7. Close \/ CloseEarly => at = "waiting" /\ UNCHANGED <<iteration, timer, failure>>
  BY DEF Close, CloseEarly, Closes, Writes, result
<1>8. Requests => timer' = "on"
  BY DEF Requests
<1>9. Connects \/ ReadOn \/ Resume \/ Flush \/ FlushRest \/ RunCall \/ Iterate \/ Stop \/ Leave =>
        UNCHANGED <<iteration, timer, failure>>
  BY DEF Connects, ReadOn, Resume, Flush, FlushRest, RunCall, Iterate, Stop, Leave, result
<1>10. StreamEnds => UNCHANGED <<iteration, failure>> /\ timer = "on" /\ timer' = "off"
  BY DEF StreamEnds, result
<1>11. Fire => timer = "on" /\ timer' = "fired"
  BY DEF Fire
<1>12. ASSUME NEW error \in Errors, Fails(error)  PROVE failure' # Nothing
  BY <1>12, ModelStreamAssumption DEF Fails
<1>13. Refused \/ ConnectFails \/ ReadFails \/ SortFails =>
         at \in {"connecting", "waiting", "sorting"} /\ failure' # Nothing
  BY <1>12 DEF Refused, ConnectFails, ReadFails, SortFails, Errors
<1>14. UNCHANGED <<iteration, timer, failure>> => Received' = Received
  OBVIOUS
<1>15. CASE Puttings \/ Read \/ Sort \/ Take \/ Close \/ CloseEarly
  BY <1>15, <1>1, <1>2, <1>3, <1>4, <1>5, <1>6, <1>7, <1>8, <1>14
<1>16. CASE Requests \/ StreamEnds \/ Fire \/ Refused \/ ConnectFails \/ ReadFails \/ SortFails
  BY <1>16, <1>1, <1>2, <1>3, <1>4, <1>5, <1>6, <1>7, <1>8, <1>10, <1>11, <1>13
<1>17. CASE Connects \/ ReadOn \/ Resume \/ Flush \/ FlushRest \/ RunCall \/ Iterate \/ Stop \/ Leave
  BY <1>17, <1>1, <1>2, <1>3, <1>4, <1>5, <1>6, <1>7, <1>8, <1>9, <1>14
<1>. QED  BY <1>15, <1>16, <1>17, StepsAre DEF StillSteps

LEMMA StaysDrained ==
  ASSUME SentFits, PhaseFits, PipeFits, UsageComes, IsDrained, ReplyNext
  PROVE  IsDrained'
<1>. SUFFICES ASSUME Received'  PROVE todo' = {} /\ lines' = << >> /\ (~cut' => wire' = << >>)
  BY DEF IsDrained
<1>1. CASE StreamEnds
  <2>1. at = "waiting" /\ Unread = 0 /\ UNCHANGED <<todo, lines, wire, cut>>
    BY <1>1 DEF StreamEnds, server
  <2>2. todo = {} /\ lines = << >> /\ buffer \in 0..1 /\ (torn => cut)
    BY <2>1 DEF PipeFits, Spot
  <2>3. wire \in Seq(Lines) /\ Len(wire) \in Nat
    BY SequenceIs DEF PipeFits
  <2>4. ~cut => Len(wire) = 0
    BY <2>1, <2>2, <2>3 DEF Unread
  <2>5. Len(wire) = 0 => wire = << >>
    BY <2>3
  <2>. QED  BY <2>1, <2>2, <2>4, <2>5
<1>2. CASE ~StreamEnds
  <2>1. Received /\ ~Requests /\ ~Puttings /\ ~Read /\ ~Sort /\ ~Take /\ ~Close /\ ~CloseEarly
    BY <1>2, ReceivedStays
  <2>2. StillSteps
    BY <2>1, StepsAre
  <2>3. UNCHANGED <<todo, lines, wire>>
    BY <2>2, StillJoins DEF Still
  <2>4. cut' = cut
    BY <2>1, <2>2 DEF StillSteps, Connects, Refused, ConnectFails, Fire, ReadFails, SortFails, Fails, ReadOn,
          StreamEnds, Resume, Flush, FlushRest, RunCall, Iterate, Stop, Leave, server
  <2>. QED  BY <2>1, <2>3, <2>4 DEF IsDrained
<1>. QED  BY <1>1, <1>2

-----------------------------------------------------------------------------
(***************************************************************************)
(* What a step does to the locals of the strategy.                         *)
(***************************************************************************)
\* Nothing that is shown or run.
Untouched ==
    /\ said' = said /\ react' \in React
    /\ react'.thinking = react.thinking /\ react'.text = react.text
    /\ react'.calls = react.calls /\ react'.state = react.state

\* A step of the others.
Aside ==
    /\ Untouched /\ Steady
    /\ \/ Spot \in {"connecting", "waiting", "sorting"}
       \/ /\ todo' = todo /\ (Spot' = "holding" => Spot = "holding")
          /\ Spot' \notin {"connecting", "waiting", "sorting"}

\* Thinking or text is given to the agent, and the other of them is empty.
FlushIs(type, pieces) ==
    /\ pieces = (IF type = "thinking" THEN react.thinking ELSE react.text)
    /\ pieces # << >> /\ react.state = type
    /\ (IF type = "thinking" THEN react.text ELSE react.thinking) = << >>
    /\ said' = Append(said, [type |-> type, pieces |-> pieces])
    /\ react' \in React /\ react'.thinking = << >> /\ react'.text = << >>
    /\ react'.calls = react.calls /\ react'.state = type /\ react'.usage = react.usage
    /\ Spot' = Spot /\ Spot \in {"holding", "ending"}
    /\ Spot = "holding" => \E i \in todo : Comes(i) /\ sent[i].type # type
    /\ UNCHANGED <<server, stopped, failure, timer, buffer, lines, todo, ran, charged, owed, iteration>>

LEMMA FlushingIs ==
  ASSUME ReactFits, TextsAreTrue, Flush \/ FlushRest
  PROVE  \E type \in {"thinking", "text"}, pieces \in Seq(Nat) : FlushIs(type, pieces)
<1>1. react \in React /\ (react.thinking # << >> => react.state = "thinking")
      /\ (react.text # << >> => react.state = "text")
  BY DEF ReactFits, TextsAreTrue
<1>2. /\ Spot' = Spot /\ Spot \in {"holding", "ending"}
      /\ UNCHANGED <<server, stopped, failure, timer, buffer, lines, todo, ran, charged, owed, iteration>>
  BY DEF Flush, FlushRest, Give, Spot
<1>3. ASSUME FlushThinking, react.thinking # << >>,
             Spot = "holding" => \E i \in todo : Comes(i) /\ sent[i].type # "thinking"
      PROVE  FlushIs("thinking", react.thinking)
  BY <1>1, <1>2, <1>3 DEF FlushThinking, FlushIs, React
<1>4. ASSUME FlushText, react.text # << >>,
             Spot = "holding" => \E i \in todo : Comes(i) /\ sent[i].type # "text"
      PROVE  FlushIs("text", react.text)
  BY <1>1, <1>2, <1>4 DEF FlushText, FlushIs, React
<1>5. react.thinking \in Seq(Nat) /\ react.text \in Seq(Nat)
  BY <1>1 DEF React
<1>6. \/ FlushThinking /\ react.thinking # << >>
         /\ (Spot = "holding" => \E i \in todo : Comes(i) /\ sent[i].type # "thinking")
      \/ FlushText /\ react.text # << >>
         /\ (Spot = "holding" => \E i \in todo : Comes(i) /\ sent[i].type # "text")
  <2>1. CASE Flush
    BY <2>1 DEF Flush, StaleThinking, StaleText
  <2>2. CASE FlushRest
    <3>1. Spot # "holding"
      BY <2>2 DEF FlushRest, Spot
    <3>. QED  BY <2>2, <3>1 DEF FlushRest
  <2>. QED  BY <2>1, <2>2
<1>. QED  BY <1>3, <1>4, <1>5, <1>6

LEMMA StillReacts ==
  ASSUME StillSteps
  PROVE  /\ UNCHANGED <<usage, finished>>
         /\ Flush \/ FlushRest \/ UNCHANGED <<react, said>>
  BY DEF StillSteps, Close, CloseEarly, Closes, Connects, Refused, ConnectFails, Fire, ReadFails, SortFails,
       Fails, ReadOn, StreamEnds, Resume, Flush, FlushRest, RunCall, Iterate, Stop, Leave, result, server

LEMMA AsideIs ==
  ASSUME SentFits, PhaseFits, PipeFits, UsageComes, ReactFits, ReplyNext
  PROVE  Take \/ Requests \/ Flush \/ FlushRest \/ Aside
<1>0. react \in React
  BY DEF ReactFits
<1>1. CASE Puttings
  <2>1. PICK line \in Lines : PutIs(line)
    BY <1>1, PuttingIs
  <2>2. at = "waiting" /\ UNCHANGED <<react, said>> /\ Steady
    BY <2>1, PuttingJoins DEF PutIs, result
  <2>. QED  BY <1>0, <2>2, <2>1 DEF Aside, Untouched, Spot
<1>2. CASE Read
  <2>1. at = "waiting" /\ UNCHANGED <<react, said>> /\ Steady
    BY <1>2, ReadJoins DEF Read, result
  <2>. QED  BY <1>0, <2>1 DEF Aside, Untouched, Spot
<1>3. CASE Sort
  <2>1. at = "sorting" /\ said' = said /\ Steady
    BY <1>3, SortJoins DEF Sort, result
  <2>2. react' = [react EXCEPT !.usage = Reported(Head(lines))] /\ Reported(Head(lines)) \in 0..2
    <3>1. lines # << >> /\ lines \in Seq(Lines)
      BY <1>3 DEF Sort, PipeFits
    <3>2. Head(lines) \in Lines
      BY <3>1
    <3>. QED  BY <1>0, <1>3, <3>2 DEF Sort, Reported, Lines, React
  <2>. QED  BY <1>0, <2>1, <2>2 DEF Aside, Untouched, Spot, React
<1>4. CASE StillSteps /\ ~Flush /\ ~FlushRest
  <2>1. react' = react /\ said' = said
    BY <1>4, StillReacts
  <2>2. Steady /\ todo' = todo /\ (Spot' = "holding" => Spot = "holding")
        /\ (Spot' \in {"connecting", "waiting", "sorting"} => Spot \in {"connecting", "waiting", "sorting"})
    BY <1>4, StillJoins DEF Still
  <2>. QED  BY <1>0, <2>1, <2>2 DEF Aside, Untouched
<1>. QED  BY <1>1, <1>2, <1>3, <1>4, StepsAre

LEMMA UsageStays ==
  ASSUME SentFits, PhaseFits, PipeFits, UsageComes, ReactFits, TextsAreTrue, GotIs, ReplyNext
  PROVE  UsageComes'
<1>0. wire \in Seq(Lines) /\ lines \in Seq(Lines) /\ react \in React
  BY DEF PipeFits, ReactFits
<1>1. CASE Puttings
  <2>1. PICK line \in Lines : PutIs(line)
    BY <1>1, PuttingIs
  <2>2. /\ wire' = Append(wire, line) /\ lines' = lines /\ react' = react
        /\ usage' \in 0..2 /\ (~finished' => usage' = 0)
        /\ (line.usage = 0 /\ usage' = usage) \/ (line.usage = usage' /\ usage' # 0)
    BY <2>1 DEF PutIs
  <2>3. /\ Len(wire) \in Nat /\ DOMAIN wire = 1 .. Len(wire) /\ DOMAIN wire' = 1 .. Len(wire) + 1
        /\ \A i \in 1 .. Len(wire) : wire'[i] = wire[i]
        /\ wire'[Len(wire) + 1] = line
    BY <1>0, <2>2, AppendedIs, SequenceIs
  <2>4. ASSUME line.usage = usage', usage' # 0  PROVE Reports(wire', usage')
    <3>1. Len(wire) + 1 \in DOMAIN wire' /\ wire'[Len(wire) + 1].usage = usage'
      BY <2>3, <2>4
    <3>2. \A j \in DOMAIN wire' : ~(j > Len(wire) + 1)
      BY <2>3
    <3>. QED  BY <3>1, <3>2, <2>4 DEF Reports
  <2>5. ASSUME line.usage = 0, usage' = usage, Reports(wire, usage)  PROVE Reports(wire', usage')
    <3>1. PICK i \in DOMAIN wire : wire[i].usage = usage /\ usage # 0 /\ \A j \in DOMAIN wire : j > i => wire[j].usage = 0
      BY <2>5 DEF Reports
    <3>2. i \in DOMAIN wire' /\ wire'[i].usage = usage'
      BY <3>1, <2>3, <2>5
    <3>3. \A j \in DOMAIN wire' : j > i => wire'[j].usage = 0
      BY <3>1, <2>3, <2>5
    <3>. QED  BY <3>1, <3>2, <3>3, <2>5 DEF Reports
  <2>6. ASSUME line.usage = 0, IsSilent(wire)  PROVE IsSilent(wire')
    BY <2>3, <2>6 DEF IsSilent
  <2>. QED  BY <2>2, <2>4, <2>5, <2>6 DEF UsageComes
<1>2. CASE Read
  <2>1. lines = << >>
    BY <1>2, ReadJoins
  <2>2. UNCHANGED <<usage, finished, react>>
    BY <1>2 DEF Read, server
  <2>4. PICK m \in Nat :
          /\ Len(wire) \in Nat /\ m <= Len(wire) /\ DOMAIN wire = 1 .. Len(wire)
          /\ DOMAIN lines' = 1 .. m /\ DOMAIN wire' = 1 .. Len(wire) - m
          /\ \A i \in 1 .. m : lines'[i] = wire[i]
          /\ \A i \in 1 .. Len(wire) - m : wire'[i] = wire[m + i]
    BY <1>2, ReadJoins
  <2>5. ~Reports(lines, usage)
    BY <2>1 DEF Reports
  <2>6. ASSUME Reports(wire, usage)
        PROVE  Reports(wire', usage) \/ (IsSilent(wire') /\ Reports(lines', usage))
    <3>1. PICK i \in DOMAIN wire : wire[i].usage = usage /\ usage # 0 /\ \A j \in DOMAIN wire : j > i => wire[j].usage = 0
      BY <2>6 DEF Reports
    <3>2. CASE i > m
      <4>1. i - m \in DOMAIN wire' /\ wire'[i - m] = wire[i]
        BY <2>4, <3>2
      <4>2. \A j \in DOMAIN wire' : j > i - m => m + j \in DOMAIN wire /\ m + j > i /\ wire'[j] = wire[m + j]
        BY <2>4
      <4>. QED  BY <3>1, <4>1, <4>2 DEF Reports
    <3>3. CASE ~(i > m)
      <4>1. i \in DOMAIN lines' /\ lines'[i] = wire[i]
        BY <2>4, <3>3
      <4>2. \A j \in DOMAIN lines' : j > i => j \in DOMAIN wire /\ lines'[j] = wire[j]
        BY <2>4
      <4>3. \A j \in DOMAIN wire' : m + j \in DOMAIN wire /\ m + j > i /\ wire'[j] = wire[m + j]
        BY <2>4, <3>3
      <4>. QED  BY <3>1, <4>1, <4>2, <4>3 DEF Reports, IsSilent
    <3>. QED  BY <3>2, <3>3
  <2>7. ASSUME IsSilent(wire)  PROVE IsSilent(wire') /\ IsSilent(lines')
    <3>1. \A j \in DOMAIN wire' : m + j \in DOMAIN wire /\ wire'[j] = wire[m + j]
      BY <2>4
    <3>2. \A j \in DOMAIN lines' : j \in DOMAIN wire /\ lines'[j] = wire[j]
      BY <2>4
    <3>. QED  BY <2>7, <3>1, <3>2 DEF IsSilent
  <2>. QED  BY <2>2, <2>5, <2>6, <2>7 DEF UsageComes
<1>3. CASE Sort
  <2>1. lines # << >> /\ lines' = Tail(lines) /\ react' = [react EXCEPT !.usage = Reported(Head(lines))]
        /\ UNCHANGED <<wire, usage, finished>>
    BY <1>3 DEF Sort, server
  <2>2. /\ Head(lines) = lines[1] /\ 1 \in DOMAIN lines /\ Len(lines) \in Nat /\ DOMAIN lines = 1 .. Len(lines)
        /\ lines[1].usage \in 0..2
    <3>1. Head(lines) = lines[1] /\ 1 \in DOMAIN lines /\ Len(lines) \in Nat /\ DOMAIN lines = 1 .. Len(lines)
      BY <1>0, <2>1, SequenceIs
    <3>2. lines[1] \in Lines
      BY <1>0, <3>1, SequenceIs
    <3>. QED  BY <3>1, <3>2 DEF Lines
  <2>3. /\ DOMAIN lines' = 1 .. Len(lines) - 1
        /\ \A i \in 1 .. Len(lines) - 1 : lines'[i] = lines[i + 1]
    BY <1>0, <2>1, TailedIs
  <2>4. react'.usage = IF lines[1].usage # 0 THEN lines[1].usage ELSE react.usage
    BY <1>0, <2>1, <2>2 DEF Reported, React
  <2>5. ASSUME Reports(lines, usage)
        PROVE  Reports(lines', usage) \/ (IsSilent(lines') /\ react'.usage = usage)
    <3>1. PICK i \in DOMAIN lines : lines[i].usage = usage /\ usage # 0 /\ \A j \in DOMAIN lines : j > i => lines[j].usage = 0
      BY <2>5 DEF Reports
    <3>2. CASE i = 1
      <4>1. \A j \in DOMAIN lines' : j + 1 \in DOMAIN lines /\ j + 1 > i /\ lines'[j] = lines[j + 1]
        BY <2>2, <2>3, <3>2
      <4>. QED  BY <2>4, <3>1, <3>2, <4>1 DEF IsSilent
    <3>3. CASE i # 1
      <4>1. i - 1 \in DOMAIN lines' /\ lines'[i - 1] = lines[i]
        BY <2>2, <2>3, <3>3
      <4>2. \A j \in DOMAIN lines' : j > i - 1 => j + 1 \in DOMAIN lines /\ j + 1 > i /\ lines'[j] = lines[j + 1]
        BY <2>2, <2>3
      <4>. QED  BY <3>1, <4>1, <4>2 DEF Reports
    <3>. QED  BY <3>2, <3>3
  <2>6. ASSUME IsSilent(lines)  PROVE IsSilent(lines') /\ react'.usage = react.usage
    <3>1. \A j \in DOMAIN lines' : j + 1 \in DOMAIN lines /\ lines'[j] = lines[j + 1]
      BY <2>2, <2>3
    <3>. QED  BY <2>2, <2>4, <2>6, <3>1 DEF IsSilent
  <2>. QED  BY <2>1, <2>5, <2>6 DEF UsageComes
<1>4. ASSUME UNCHANGED <<wire, lines, usage, finished>>, react'.usage = react.usage  PROVE UsageComes'
  BY <1>4 DEF UsageComes
<1>5. CASE Take
  <2>1. UNCHANGED <<wire, lines, usage, finished>>
    BY <1>5 DEF Take, server
  <2>2. PICK i \in todo : react' = Took(i) /\ i \in 1 .. Len(sent)
    BY <1>5, TakeIs
  <2>3. sent[i].type \in {"thinking", "text", "call"}
    BY <2>2, PlacesAre DEF Pieces
  <2>4. react'.usage = react.usage
    BY <1>0, <2>2, <2>3 DEF Took, React
  <2>. QED  BY <2>1, <2>4, <1>4
<1>6. CASE Requests
  <2>1. wire' = << >> /\ lines' = << >> /\ usage' = 0 /\ react'.usage = 0
    BY <1>6 DEF Requests, Fresh
  <2>2. IsSilent(wire') /\ IsSilent(lines')
    BY <2>1 DEF IsSilent
  <2>. QED  BY <2>1, <2>2 DEF UsageComes
<1>7. CASE StillSteps
  <2>1. UNCHANGED <<wire, lines, usage, finished>>
    BY <1>7, StillJoins, StillReacts DEF Still
  <2>2. react'.usage = react.usage
    BY <1>7, StillReacts, FlushingIs DEF FlushIs
  <2>. QED  BY <2>1, <2>2, <1>4
<1>. QED  BY <1>1, <1>2, <1>3, <1>5, <1>6, <1>7, StepsAre

-----------------------------------------------------------------------------
(***************************************************************************)
(* The strategy takes a piece.                                             *)
(***************************************************************************)
\* The piece begins a call.
BeginsCallWith(i) ==
    /\ sent[i].name \in Tools
    /\ \A n \in Got : sent[n].type = "call" => sent[n].index # sent[i].index
    /\ \A c \in DOMAIN react.calls : react.calls[c].index # sent[i].index
    /\ Called(i) = Append(react.calls, [index |-> sent[i].index, name |-> sent[i].name, pieces |-> <<i>>])

\* The piece goes on with a call.
ContinuesCall(i, c) ==
    /\ c \in DOMAIN react.calls /\ react.calls[c].index = sent[i].index
    /\ DOMAIN Called(i) = DOMAIN react.calls
    /\ \A d \in DOMAIN react.calls : d # c => Called(i)[d] = react.calls[d]
    /\ Called(i)[c] = [index |-> react.calls[c].index, name |-> react.calls[c].name,
                       pieces |-> Append(react.calls[c].pieces, i)]

LEMMA CalledIs ==
  ASSUME SentFits, PipeFits, ReactFits, CallsAreTrue, NEW i \in todo, Comes(i), sent[i].type = "call"
  PROVE  /\ Called(i) \in Seq(Call)
         /\ \/ BeginsCallWith(i)
            \/ \E c \in DOMAIN react.calls : ContinuesCall(i, c)
<1>1. react.calls \in Seq(Call)
  BY DEF ReactFits, React
<1>2. /\ Len(react.calls) \in Nat /\ DOMAIN react.calls = 1 .. Len(react.calls)
      /\ \A c \in DOMAIN react.calls : react.calls[c] \in Call
  BY <1>1, SequenceIs
<1>3. i \in 1 .. Len(sent) /\ i \in 1 .. Sorted /\ i \in Nat /\ sent[i] \in Pieces /\ Len(sent) \in Nat
      /\ Sorted \in 0 .. Len(sent) /\ DOMAIN sent = 1 .. Len(sent)
  BY PlacesAre
<1>4. CASE CallOf(i) = {}
  <2>1. \A c \in DOMAIN react.calls : react.calls[c].index # sent[i].index
    BY <1>4 DEF CallOf
  <2>2. \A n \in Got : sent[n].type = "call" => sent[n].index # sent[i].index
    BY <2>1 DEF CallsAreTrue
  <2>3. sent[i].name # Nothing
    <3>1. SUFFICES ASSUME sent[i].name = Nothing  PROVE FALSE
      OBVIOUS
    <3>2. PICK j \in 1 .. i - 1 : sent[j].type = "call" /\ sent[j].index = sent[i].index
      BY <3>1, <1>3 DEF SentFits
    <3>3. j \in 1 .. Sorted /\ j < i
      BY <1>3, <3>2
    <3>4. j \notin todo
      BY <3>3, <1>3 DEF Comes
    <3>5. j \in DOMAIN sent /\ j # Len(sent)
      <4>1. i \in 1 .. Len(sent) /\ Len(sent) \in Nat
        BY <1>3, Zenon
      <4>2. DOMAIN sent = 1 .. Len(sent)
        BY <1>3, Zenon
      <4>3. j \in 1 .. Len(sent) /\ j # Len(sent)
        BY <4>1
      <4>. QED  BY <4>2, <4>3, Zenon
    <3>6. ~sent[j].last
      BY <3>5 DEF SentFits
    <3>7. j \in Got
      BY <3>2, <3>3, <3>4, <3>6 DEF Got, Handed
    <3>. QED  BY <3>2, <3>7, <2>2
  <2>4. sent[i].name \in Tools /\ sent[i].index \in Nat
    BY <2>3, <1>3 DEF Pieces
  <2>5. Called(i) = Append(react.calls, [index |-> sent[i].index, name |-> sent[i].name, pieces |-> <<i>>])
    BY <1>4 DEF Called
  <2>6. [index |-> sent[i].index, name |-> sent[i].name, pieces |-> <<i>>] \in Call
    BY <2>4, <1>3 DEF Call
  <2>7. Called(i) \in Seq(Call)
    BY <2>5, <2>6, <1>1, AppendedIs
  <2>. QED  BY <2>1, <2>2, <2>4, <2>5, <2>7 DEF BeginsCallWith
<1>5. CASE CallOf(i) # {}
  <2>1. PICK c \in DOMAIN react.calls : react.calls[c].index = sent[i].index
    BY <1>5 DEF CallOf
  <2>2. \A d \in DOMAIN react.calls : d # c => react.calls[d].index # sent[i].index
    <3>. SUFFICES ASSUME NEW d \in DOMAIN react.calls, d # c  PROVE react.calls[d].index # sent[i].index
      OBVIOUS
    <3>1. d \in 1 .. c - 1 \/ c \in 1 .. d - 1
      BY <1>2
    <3>. QED  BY <3>1, <2>1 DEF CallsAreTrue
  <2>3. CallOf(i) = {c}
    BY <2>1, <2>2 DEF CallOf
  <2>4. Called(i) = [d \in DOMAIN react.calls |->
            IF d = c THEN [react.calls[d] EXCEPT !.pieces = Append(@, i)] ELSE react.calls[d]]
    BY <1>5, <2>3 DEF Called
  <2>5. react.calls[c] \in Call
    BY <2>1, <1>2
  <2>6. [react.calls[c] EXCEPT !.pieces = Append(@, i)] =
            [index |-> react.calls[c].index, name |-> react.calls[c].name, pieces |-> Append(react.calls[c].pieces, i)]
    <3>1. \A x \in Call : \A s : [x EXCEPT !.pieces = s] = [index |-> x.index, name |-> x.name, pieces |-> s]
      BY DEF Call
    <3>. QED  BY <2>5, <3>1
  <2>7. ContinuesCall(i, c)
    BY <2>1, <2>4, <2>6 DEF ContinuesCall
  <2>8. Append(react.calls[c].pieces, i) \in Seq(Nat)
    <3>1. react.calls[c].pieces \in Seq(Nat)
      BY <2>5 DEF Call
    <3>. QED  BY <3>1, <1>3, AppendedIs
  <2>9. Called(i)[c] \in Call
    BY <2>5, <2>7, <2>8 DEF ContinuesCall, Call
  <2>10. Called(i) \in [1 .. Len(react.calls) -> Call]
    BY <1>2, <2>4, <2>7, <2>9 DEF ContinuesCall
  <2>11. Called(i) \in Seq(Call)
    BY <1>2, <2>10, FunctionIsSeq
  <2>. QED  BY <2>1, <2>7, <2>11
<1>. QED  BY <1>4, <1>5

Takes(i) ==
    /\ i \in todo /\ Comes(i) /\ i \in 1 .. Len(sent) /\ (\A j \in Got : j < i) /\ Got' = Got \cup {i}
    /\ Spot = "holding" /\ UNCHANGED <<provider, sent, said, ran, charged, owed>>
    /\ sent[i].type \in {"thinking", "text", "call"}
    /\ react' \in React /\ react'.state = sent[i].type
    /\ IF sent[i].type = "thinking" THEN react'.thinking = Append(react.thinking, i)
       ELSE react.thinking = << >> /\ react'.thinking = << >>
    /\ IF sent[i].type = "text" THEN react'.text = Append(react.text, i)
       ELSE react.text = << >> /\ react'.text = << >>
    /\ react'.calls = IF sent[i].type = "call" THEN Called(i) ELSE react.calls

LEMMA TakingIs ==
  ASSUME SentFits, PhaseFits, PipeFits, ReactFits, GotIs, TextsAreTrue, CallsAreTrue, Take
  PROVE  \E i \in todo : Takes(i)
<1>1. PICK i \in todo :
           /\ Comes(i) /\ ~StaleThinking(sent[i].type) /\ ~StaleText(sent[i].type)
           /\ i \in 1 .. Len(sent) /\ (\A j \in Got : j < i)
           /\ react' = Took(i) /\ Got' = Got \cup {i}
           /\ Spot = "holding"
           /\ UNCHANGED <<server, stopped, failure, timer, buffer, lines, result>>
  BY TakeIs
<1>2. sent[i].type \in {"thinking", "text", "call"} /\ i \in Nat
  BY <1>1, PlacesAre DEF Pieces
<1>3. react \in React /\ (react.thinking # << >> => react.state = "thinking")
      /\ (react.text # << >> => react.state = "text")
  BY DEF ReactFits, TextsAreTrue
<1>4. /\ sent[i].type # "thinking" => react.thinking = << >>
      /\ sent[i].type # "text" => react.text = << >>
  BY <1>1, <1>3 DEF StaleThinking, StaleText
<1>5. Append(react.thinking, i) \in Seq(Nat) /\ Append(react.text, i) \in Seq(Nat)
  <2>1. react.thinking \in Seq(Nat) /\ react.text \in Seq(Nat)
    BY <1>3 DEF React
  <2>. QED  BY <2>1, <1>2, AppendedIs
<1>6. sent[i].type = "call" => Called(i) \in Seq(Call)
  BY <1>1, CalledIs
<1>7. UNCHANGED <<provider, sent, said, ran, charged, owed>>
  BY <1>1 DEF server, result
<1>8. CASE sent[i].type = "thinking"
  <2>1. react' = [react EXCEPT !.state = "thinking", !.thinking = Append(react.thinking, i)]
    BY <1>1, <1>8, <1>3 DEF Took, React
  <2>2. react' \in React /\ react'.state = "thinking" /\ react'.thinking = Append(react.thinking, i)
        /\ react'.text = react.text /\ react'.calls = react.calls
    BY <2>1, <1>3, <1>5 DEF React
  <2>. QED  BY <2>2, <1>1, <1>4, <1>7, <1>8 DEF Takes
<1>9. CASE sent[i].type = "text"
  <2>1. react' = [react EXCEPT !.state = "text", !.text = Append(react.text, i)]
    BY <1>1, <1>9, <1>3 DEF Took, React
  <2>2. react' \in React /\ react'.state = "text" /\ react'.text = Append(react.text, i)
        /\ react'.thinking = react.thinking /\ react'.calls = react.calls
    BY <2>1, <1>3, <1>5 DEF React
  <2>. QED  BY <2>2, <1>1, <1>4, <1>7, <1>9 DEF Takes
<1>10. CASE sent[i].type = "call"
  <2>1. react' = [react EXCEPT !.state = "call", !.calls = Called(i)]
    BY <1>1, <1>10 DEF Took
  <2>2. react' \in React /\ react'.state = "call" /\ react'.calls = Called(i)
        /\ react'.thinking = react.thinking /\ react'.text = react.text
    BY <2>1, <1>3, <1>6, <1>10 DEF React
  <2>. QED  BY <2>2, <1>1, <1>4, <1>7, <1>10 DEF Takes
<1>. QED  BY <1>2, <1>8, <1>9, <1>10

LEMMA ReactStaysFit ==
  ASSUME ReplyInv, ReplyNext
  PROVE  ReactFits'
<1>0. ReactFits
  BY DEF ReplyInv
<1>1. CASE Take
  <2>1. PICK i \in todo : Takes(i)
    BY <1>1, TakingIs DEF ReplyInv
  <2>. QED  BY <1>0, <2>1 DEF ReactFits, Takes
<1>2. CASE Requests
  <2>1. react' = Fresh /\ said' = << >> /\ UNCHANGED <<charged, owed>>
    BY <1>2 DEF Requests
  <2>2. Fresh \in React
    BY DEF Fresh, React
  <2>. QED  BY <1>0, <2>1, <2>2 DEF ReactFits
<1>3. CASE Flush \/ FlushRest
  <2>1. PICK type \in {"thinking", "text"}, pieces \in Seq(Nat) : FlushIs(type, pieces)
    BY <1>3, FlushingIs DEF ReplyInv
  <2>2. said' = Append(said, [type |-> type, pieces |-> pieces]) /\ [type |-> type, pieces |-> pieces] \in Shown
    BY <2>1 DEF FlushIs, Shown
  <2>3. said' \in Seq(Shown)
    BY <1>0, <2>2, AppendedIs DEF ReactFits
  <2>. QED  BY <1>0, <2>1, <2>3 DEF ReactFits, FlushIs
<1>4. CASE Iterate
  <2>1. UNCHANGED <<react, said>> /\ charged' = charged + react.usage
        /\ owed' = owed + (IF cut THEN react.usage ELSE usage) /\ Spot = "ending"
    BY <1>4 DEF Iterate, Spot
  <2>2. Received
    BY <1>4, <2>1, ReceivedStays DEF ReplyInv
  <2>3. ~cut => wire = << >> /\ lines = << >>
    BY <2>2 DEF IsDrained, ReplyInv
  <2>4. ~cut => react.usage = usage
    BY <2>3 DEF UsageComes, Reports, ReplyInv
  <2>5. react.usage \in Nat
    BY <1>0 DEF ReactFits, React
  <2>. QED  BY <1>0, <2>1, <2>4, <2>5 DEF ReactFits
<1>5. CASE Aside /\ ~Iterate
  <2>1. UNCHANGED <<charged, owed>>
    <3>1. CASE Puttings
      BY <3>1, PuttingIs DEF ReplyInv, PutIs, result
    <3>2. CASE Requests
      BY <3>2 DEF Requests
    <3>. QED  BY <3>1, <3>2, <1>5, StepsAre DEF StillSteps, Read, Sort, Take, Close, CloseEarly, Closes, Connects, Refused,
          ConnectFails, Fire, ReadFails, SortFails, Fails, ReadOn, StreamEnds, Resume, Flush, FlushRest, RunCall,
          Stop, Leave, result
  <2>. QED  BY <1>0, <1>5, <2>1 DEF ReactFits, Aside, Untouched
<1>6. Take \/ Requests \/ Flush \/ FlushRest \/ Aside
  BY AsideIs DEF ReplyInv
<1>. QED  BY <1>1, <1>2, <1>3, <1>4, <1>5, <1>6

-----------------------------------------------------------------------------
(***************************************************************************)
(* What is shown.                                                          *)
(***************************************************************************)
LEMMA IncreasesOn ==
  ASSUME NEW s \in Seq(Nat), Increasing(s), NEW i \in Nat, \A x \in Range(s) : x < i
  PROVE  Increasing(Append(s, i))
<1>1. /\ Len(s) \in Nat /\ DOMAIN s = 1 .. Len(s) /\ DOMAIN Append(s, i) = 1 .. Len(s) + 1
      /\ \A k \in 1 .. Len(s) : Append(s, i)[k] = s[k]
      /\ Append(s, i)[Len(s) + 1] = i
  BY AppendedIs
<1>2. \A k \in 1 .. Len(s) : s[k] < i
  BY <1>1 DEF Range
<1>. SUFFICES ASSUME NEW j \in 1 .. Len(s) + 1, NEW k \in 1 .. Len(s) + 1, j < k
              PROVE  Append(s, i)[j] < Append(s, i)[k]
  BY <1>1 DEF Increasing
<1>3. j \in 1 .. Len(s) /\ Append(s, i)[j] = s[j]
  BY <1>1
<1>4. CASE k \in 1 .. Len(s)
  BY <1>1, <1>3, <1>4 DEF Increasing
<1>5. CASE k = Len(s) + 1
  BY <1>1, <1>2, <1>3, <1>5
<1>. QED  BY <1>1, <1>4, <1>5

LEMMA NothingIsIncreasing == Increasing(<< >>) /\ Range(<< >>) = {} /\ << >> \in Seq(Nat)
  BY DEF Increasing, Range

\* Every decision has a first piece and a last, and the strategy has taken them.
LEMMA EndsAreGot ==
  ASSUME SentFits, PipeFits, ReactFits, TextsAreTrue
  PROVE  /\ Len(said) \in Nat /\ DOMAIN said = 1 .. Len(said)
         /\ \A i \in DOMAIN said : said[i] \in Shown /\ said[i].pieces \in Seq(Nat)
         /\ \A i \in DOMAIN said : Head(said[i].pieces) \in Got /\ Last(said[i].pieces) \in Got
         /\ react.thinking # << >> => Head(react.thinking) \in Got
         /\ react.text # << >> => Head(react.text) \in Got
         /\ \A i \in Got : i \in 1 .. Len(sent) /\ i \in Nat
<1>1. /\ Len(said) \in Nat /\ DOMAIN said = 1 .. Len(said)
      /\ \A i \in DOMAIN said : said[i] \in Shown
  BY SequenceIs DEF ReactFits
<1>2. \A i \in DOMAIN said : said[i].pieces \in Seq(Nat)
  BY <1>1 DEF Shown
<1>3. react.thinking \in Seq(Nat) /\ react.text \in Seq(Nat)
  BY DEF ReactFits, React
<1>4. \A i \in DOMAIN said : Head(said[i].pieces) \in Range(said[i].pieces) /\ Last(said[i].pieces) \in Range(said[i].pieces)
  <2>. SUFFICES ASSUME NEW i \in DOMAIN said
                PROVE  Head(said[i].pieces) \in Range(said[i].pieces) /\ Last(said[i].pieces) \in Range(said[i].pieces)
    OBVIOUS
  <2>1. said[i].pieces \in Seq(Nat) /\ said[i].pieces # << >>
    BY <1>2 DEF TextsAreTrue
  <2>. QED  BY <2>1, SequenceIs
<1>5. /\ react.thinking # << >> => Head(react.thinking) \in Range(react.thinking)
      /\ react.text # << >> => Head(react.text) \in Range(react.text)
  BY <1>3, SequenceIs
<1>6. \A n : InText(n) => n \in Got
  BY DEF TextsAreTrue
<1>7. \A i \in Got : i \in 1 .. Len(sent) /\ i \in Nat
  BY PlacesAre
<1>. QED  BY <1>1, <1>2, <1>4, <1>5, <1>6, <1>7 DEF InText

LEMMA TakenTextIsTrue ==
  ASSUME SentFits, PipeFits, ReactFits, TextsAreTrue, NEW i \in todo, Takes(i)
  PROVE  TextsAreTrue'
<1>1. /\ i \in Nat /\ i \notin Got /\ (\A n \in Got : n < i /\ n \in Nat) /\ Got' = Got \cup {i}
      /\ said' = said /\ sent' = sent
  BY PlacesAre DEF Takes
<1>2. react.thinking \in Seq(Nat) /\ react.text \in Seq(Nat)
  BY DEF ReactFits, React
<1>3. /\ \A n : InText(n) => n < i
      /\ \A n \in Range(react.thinking) \cup Range(react.text) : InText(n)
      /\ \A k \in DOMAIN said : \A m \in Range(said[k].pieces) : InText(m)
  BY <1>1 DEF TextsAreTrue, InText
<1>4. \E type \in {"thinking", "text"}, pile \in Seq(Nat), more \in Seq(Nat) :
         /\ sent[i].type # "call" => more = Append(pile, i)
         /\ sent[i].type = "call" => more = pile
         /\ Increasing(pile) /\ (\A n \in Range(pile) : InText(n))
         /\ Range(react.thinking) \cup Range(react.text) = Range(pile)
         /\ Range(react'.thinking) \cup Range(react'.text) = Range(more)
         /\ Increasing(more) => Increasing(react'.thinking) /\ Increasing(react'.text)
  <2>1. CASE sent[i].type = "thinking"
    <3>1. react'.thinking = Append(react.thinking, i) /\ react.text = << >> /\ react'.text = << >>
      BY <2>1 DEF Takes
    <3>2. Append(react.thinking, i) \in Seq(Nat)
      BY <1>1, <1>2, AppendedIs
    <3>. QED  BY <2>1, <3>1, <3>2, <1>2, <1>3, NothingIsIncreasing DEF TextsAreTrue
  <2>2. CASE sent[i].type = "text"
    <3>1. react'.text = Append(react.text, i) /\ react.thinking = << >> /\ react'.thinking = << >>
      BY <2>2 DEF Takes
    <3>2. Append(react.text, i) \in Seq(Nat)
      BY <1>1, <1>2, AppendedIs
    <3>. QED  BY <2>2, <3>1, <3>2, <1>2, <1>3, NothingIsIncreasing DEF TextsAreTrue
  <2>3. CASE sent[i].type = "call"
    <3>1. react'.text = << >> /\ react'.thinking = << >> /\ react.text = << >> /\ react.thinking = << >>
      BY <2>3 DEF Takes
    <3>. QED  BY <2>3, <3>1, NothingIsIncreasing
  <2>. QED  BY <2>1, <2>2, <2>3 DEF Takes
<1>5. PICK pile \in Seq(Nat), more \in Seq(Nat) :
         /\ sent[i].type # "call" => more = Append(pile, i)
         /\ sent[i].type = "call" => more = pile
         /\ Increasing(pile) /\ (\A n \in Range(pile) : InText(n))
         /\ Range(react.thinking) \cup Range(react.text) = Range(pile)
         /\ Range(react'.thinking) \cup Range(react'.text) = Range(more)
         /\ Increasing(more) => Increasing(react'.thinking) /\ Increasing(react'.text)
  BY <1>4
<1>6. Increasing(more) /\ Range(more) = Range(pile) \cup (IF sent[i].type = "call" THEN {} ELSE {i})
  <2>1. CASE sent[i].type = "call"
    BY <2>1, <1>5
  <2>2. CASE sent[i].type # "call"
    <3>1. more = Append(pile, i) /\ \A x \in Range(pile) : x < i
      BY <2>2, <1>3, <1>5
    <3>2. Increasing(Append(pile, i))
      BY <3>1, <1>1, <1>5, IncreasesOn
    <3>3. Range(Append(pile, i)) = Range(pile) \cup {i}
      BY <1>1, AppendedIs
    <3>. QED  BY <2>2, <3>1, <3>2, <3>3
  <2>. QED  BY <2>1, <2>2
<1>7. /\ react'.thinking # << >> => react'.state = "thinking"
      /\ react'.text # << >> => react'.state = "text"
  BY DEF Takes
<1>8. \A k \in DOMAIN said : said[k].pieces # << >> /\ Increasing(said[k].pieces)
  BY DEF TextsAreTrue
<1>9. ASSUME NEW k \in DOMAIN said, NEW m \in Range(said[k].pieces)
      PROVE  /\ \A j \in DOMAIN said : k < j => \A n \in Range(said[j].pieces) : m < n
             /\ \A n \in Range(react'.thinking) \cup Range(react'.text) : m < n
  <2>1. \A n \in Range(pile) : m < n
    BY <1>5 DEF TextsAreTrue
  <2>2. m < i
    BY <1>3
  <2>. QED  BY <2>1, <2>2, <1>5, <1>6 DEF TextsAreTrue
<1>10. ASSUME NEW n  PROVE InText(n)' <=> n \in Got' /\ sent'[n].type # "call"
  <2>1. InText(n)' <=> (\E k \in DOMAIN said : n \in Range(said[k].pieces)) \/ n \in Range(more)
    BY <1>1, <1>5 DEF InText
  <2>2. InText(n) <=> (\E k \in DOMAIN said : n \in Range(said[k].pieces)) \/ n \in Range(pile)
    BY <1>5 DEF InText
  <2>3. InText(n) <=> n \in Got /\ sent[n].type # "call"
    BY DEF TextsAreTrue
  <2>. QED  BY <2>1, <2>2, <2>3, <1>1, <1>6
<1>. QED  BY <1>1, <1>5, <1>6, <1>7, <1>8, <1>9, <1>10 DEF TextsAreTrue

LEMMA FlushedTextIsTrue ==
  ASSUME SentFits, PipeFits, ReactFits, TextsAreTrue, StillSteps,
         Steady, NEW type \in {"thinking", "text"}, NEW pieces \in Seq(Nat), FlushIs(type, pieces)
  PROVE  TextsAreTrue'
<1>1. /\ said' = Append(said, [type |-> type, pieces |-> pieces])
      /\ react'.thinking = << >> /\ react'.text = << >> /\ pieces # << >> /\ sent' = sent /\ Got' = Got
  BY DEF FlushIs, server, Steady
<1>2. Range(react.thinking) \cup Range(react.text) = Range(pieces) /\ Increasing(pieces)
  BY NothingIsIncreasing DEF FlushIs, TextsAreTrue
<1>3. said \in Seq(Shown) /\ [type |-> type, pieces |-> pieces] \in Shown
  BY DEF ReactFits, Shown
<1>4. /\ Len(said) \in Nat /\ DOMAIN said = 1 .. Len(said) /\ DOMAIN said' = 1 .. Len(said) + 1
      /\ \A k \in 1 .. Len(said) : said'[k] = said[k]
      /\ said'[Len(said) + 1].pieces = pieces
  BY <1>1, <1>3, AppendedIs
<1>5. \A k \in DOMAIN said' : said'[k].pieces # << >> /\ Increasing(said'[k].pieces)
  <2>1. \A k \in DOMAIN said : said[k].pieces # << >> /\ Increasing(said[k].pieces)
    BY DEF TextsAreTrue
  <2>. QED  BY <2>1, <1>1, <1>2, <1>4
<1>6. ASSUME NEW k \in DOMAIN said', NEW m \in Range(said'[k].pieces)
      PROVE  \A j \in DOMAIN said' : k < j => \A n \in Range(said'[j].pieces) : m < n
  <2>. SUFFICES ASSUME NEW j \in DOMAIN said', k < j, NEW n \in Range(said'[j].pieces)  PROVE m < n
    OBVIOUS
  <2>1. k \in DOMAIN said /\ m \in Range(said[k].pieces)
    BY <1>4
  <2>2. CASE j \in DOMAIN said
    BY <2>1, <2>2, <1>4 DEF TextsAreTrue
  <2>3. CASE j = Len(said) + 1
    <3>1. n \in Range(pieces)
      BY <2>3, <1>4
    <3>. QED  BY <2>1, <3>1, <1>2 DEF TextsAreTrue
  <2>. QED  BY <2>2, <2>3, <1>4
<1>7. ASSUME NEW n  PROVE InText(n)' <=> n \in Got' /\ sent'[n].type # "call"
  <2>1. (\E k \in DOMAIN said' : n \in Range(said'[k].pieces)) <=>
            (\E k \in DOMAIN said : n \in Range(said[k].pieces)) \/ n \in Range(pieces)
    <3>1. ASSUME NEW k \in DOMAIN said', n \in Range(said'[k].pieces)
          PROVE  (\E l \in DOMAIN said : n \in Range(said[l].pieces)) \/ n \in Range(pieces)
      BY <3>1, <1>4
    <3>2. ASSUME NEW k \in DOMAIN said, n \in Range(said[k].pieces)
          PROVE  \E l \in DOMAIN said' : n \in Range(said'[l].pieces)
      BY <3>2, <1>4
    <3>3. Len(said) + 1 \in DOMAIN said'
      BY <1>4
    <3>. QED  BY <3>1, <3>2, <3>3, <1>4
  <2>2. InText(n)' <=> \E k \in DOMAIN said' : n \in Range(said'[k].pieces)
    BY <1>1, NothingIsIncreasing DEF InText
  <2>3. InText(n) <=> (\E k \in DOMAIN said : n \in Range(said[k].pieces)) \/ n \in Range(pieces)
    BY <1>2 DEF InText
  <2>. QED  BY <2>1, <2>2, <2>3, <1>1 DEF TextsAreTrue
<1>. QED  BY <1>1, <1>5, <1>6, <1>7, NothingIsIncreasing DEF TextsAreTrue

LEMMA TextsStayTrue ==
  ASSUME ReplyInv, ReplyNext
  PROVE  TextsAreTrue'
<1>0. SentFits /\ PhaseFits /\ PipeFits /\ UsageComes /\ ReactFits /\ GotIs /\ TextsAreTrue /\ CallsAreTrue
  BY DEF ReplyInv
<1>1. CASE Take
  BY <1>0, <1>1, TakingIs, TakenTextIsTrue
<1>2. CASE Flush \/ FlushRest
  <2>1. StillSteps /\ Steady
    BY <1>0, <1>2, StillJoins DEF StillSteps
  <2>. QED  BY <1>0, <1>2, <2>1, FlushingIs, FlushedTextIsTrue
<1>3. CASE Requests
  <2>1. said' = << >> /\ react'.thinking = << >> /\ react'.text = << >>
    BY <1>3 DEF Requests, Fresh
  <2>2. Got' = {}
    BY <1>3, RequestIs
  <2>3. \A n : ~InText(n)'
    BY <2>1, NothingIsIncreasing DEF InText
  <2>4. DOMAIN said' = {}
    BY <2>1
  <2>. QED  BY <2>1, <2>2, <2>3, <2>4, NothingIsIncreasing DEF TextsAreTrue
<1>4. CASE Aside
  <2>1. said' = said /\ react'.thinking = react.thinking /\ react'.text = react.text /\ react'.state = react.state
        /\ Got' = Got /\ \A n \in Got : sent'[n] = sent[n]
    BY <1>0, <1>4, PlacesAre DEF Aside, Untouched, Steady
  <2>2. \A n : InText(n)' <=> InText(n)
    BY <2>1 DEF InText
  <2>3. \A n : InText(n)' <=> n \in Got' /\ sent'[n].type # "call"
    BY <1>0, <2>1, <2>2 DEF TextsAreTrue
  <2>. QED  BY <1>0, <2>1, <2>3 DEF TextsAreTrue
<1>. QED  BY <1>0, <1>1, <1>2, <1>3, <1>4, AsideIs

-----------------------------------------------------------------------------
(***************************************************************************)
(* Where one message ends and the next begins.                             *)
(***************************************************************************)
LEMMA PartedStays ==
  ASSUME SentFits, PipeFits, NEW m \in 1 .. Len(sent), NEW n \in 1 .. Len(sent), Parted(m, n),
         \A i \in 1 .. Len(sent) : sent'[i] = sent[i]
  PROVE  \E p \in m .. n : sent'[p].type = "call"
<1>1. PICK p \in m .. n : sent[p].type = "call"
  BY DEF Parted
<1>2. p \in 1 .. Len(sent)
  BY <1>1, PlacesAre
<1>. QED  BY <1>1, <1>2

LEMMA MessagesAsideWhole ==
  ASSUME SentFits, PhaseFits, PipeFits, ReactFits, TextsAreTrue, WholeSoFar, Aside
  PROVE  WholeSoFar'
<1>1. /\ said' = said /\ react'.thinking = react.thinking /\ react'.text = react.text /\ react'.state = react.state
      /\ Got' = Got /\ \A i \in 1 .. Len(sent) : sent'[i] = sent[i]
  BY DEF Aside, Untouched, Steady
<1>2. MessagesAreWhole'
  <2>. SUFFICES ASSUME NEW i \in 1 .. Len(said) - 1, said[i].type = said[i + 1].type
                PROVE  \E p \in Last(said[i].pieces) .. Head(said[i + 1].pieces) : sent'[p].type = "call"
    BY <1>1 DEF MessagesAreWhole
  <2>1. i \in DOMAIN said /\ i + 1 \in DOMAIN said
    BY EndsAreGot
  <2>2. Last(said[i].pieces) \in 1 .. Len(sent) /\ Head(said[i + 1].pieces) \in 1 .. Len(sent)
    BY <2>1, EndsAreGot
  <2>3. Parted(Last(said[i].pieces), Head(said[i + 1].pieces))
    BY DEF WholeSoFar, MessagesAreWhole, Parted
  <2>. QED  BY <1>1, <2>2, <2>3, PartedStays
<1>3. /\ react'.state = "idle" => said' = << >>
      /\ react'.state = "call" /\ said' # << >> =>
            \E p \in Got' : sent'[p].type = "call" /\ Last(Last(said').pieces) < p
  BY <1>1, PlacesAre DEF WholeSoFar
<1>4. ASSUME NEW type \in {"thinking", "text"}, NEW pieces, Follows(type, pieces), react'.state = type,
             pieces # << >> => Head(pieces) \in Got
      PROVE  /\ pieces # << >> /\ said' # << >> /\ Last(said').type = type =>
                  \E p \in Last(Last(said').pieces) .. Head(pieces) : sent'[p].type = "call"
             /\ pieces = << >> =>
                  /\ said' # << >> /\ Last(said').type = type
                  /\ Spot' \notin {"connecting", "waiting", "sorting"}
                  /\ Spot' = "holding" => \A i \in todo' : Comes(i)' => sent'[i].type # type
  <2>1. ASSUME pieces # << >>, said # << >>, Last(said).type = type
        PROVE  \E p \in Last(Last(said).pieces) .. Head(pieces) : sent'[p].type = "call"
    <3>1. Last(said) = said[Len(said)] /\ Len(said) \in DOMAIN said
      BY <2>1, SequenceIs DEF ReactFits
    <3>2. Last(Last(said).pieces) \in 1 .. Len(sent) /\ Head(pieces) \in 1 .. Len(sent)
      BY <3>1, <2>1, <1>4, EndsAreGot
    <3>3. Parted(Last(Last(said).pieces), Head(pieces))
      BY <1>1, <1>4, <2>1 DEF Follows
    <3>. QED  BY <1>1, <3>2, <3>3, PartedStays
  <2>2. ASSUME pieces = << >>
        PROVE  /\ said # << >> /\ Last(said).type = type
               /\ Spot' \notin {"connecting", "waiting", "sorting"}
               /\ Spot' = "holding" => \A i \in todo' : Comes(i)' => sent'[i].type # type
    <3>1. /\ said # << >> /\ Last(said).type = type
          /\ Spot \notin {"connecting", "waiting", "sorting"}
          /\ Spot = "holding" => \A i \in todo : Comes(i) => sent[i].type # type
      BY <1>1, <1>4, <2>2 DEF Follows
    <3>2. /\ todo' = todo /\ (Spot' = "holding" => Spot = "holding")
          /\ Spot' \notin {"connecting", "waiting", "sorting"}
      BY <3>1 DEF Aside
    <3>3. \A i \in todo' : Comes(i)' <=> Comes(i)
      BY <3>2 DEF Comes
    <3>4. \A i \in todo : sent'[i] = sent[i]
      BY <1>1, PlacesAre
    <3>. QED  BY <3>1, <3>2, <3>3, <3>4
  <2>. QED  BY <1>1, <2>1, <2>2
<1>5. Follows("thinking", react.thinking)'
  <2>1. Follows("thinking", react.thinking) /\ (react.thinking # << >> => Head(react.thinking) \in Got)
    BY EndsAreGot DEF WholeSoFar
  <2>. QED  BY <1>1, <2>1, <1>4 DEF Follows, Parted
<1>6. Follows("text", react.text)'
  <2>1. Follows("text", react.text) /\ (react.text # << >> => Head(react.text) \in Got)
    BY EndsAreGot DEF WholeSoFar
  <2>. QED  BY <1>1, <2>1, <1>4 DEF Follows, Parted
<1>. QED  BY <1>2, <1>3, <1>5, <1>6 DEF WholeSoFar

LEMMA MessagesTakenWhole ==
  ASSUME SentFits, PhaseFits, PipeFits, ReactFits, TextsAreTrue, WholeSoFar,
         NEW i \in todo, Takes(i)
  PROVE  WholeSoFar'
<1>1. /\ said' = said /\ sent' = sent /\ Got' = Got \cup {i} /\ i \in Nat /\ (\A n \in Got : n < i /\ n \in Nat)
      /\ Spot = "holding" /\ Comes(i) /\ react'.state = sent[i].type
      /\ sent[i].type \in {"thinking", "text", "call"}
  BY PlacesAre DEF Takes
<1>2. MessagesAreWhole'
  BY <1>1 DEF WholeSoFar, MessagesAreWhole
<1>3. said # << >> => /\ Last(said) = said[Len(said)] /\ Len(said) \in DOMAIN said
                      /\ Last(Last(said).pieces) \in Got /\ Last(Last(said).pieces) < i
  <2>1. said # << >> => Last(said) = said[Len(said)] /\ Len(said) \in DOMAIN said
    BY SequenceIs DEF ReactFits
  <2>. QED  BY <2>1, <1>1, EndsAreGot
<1>4. /\ react'.state = "idle" => said' = << >>
      /\ react'.state = "call" /\ said' # << >> =>
            \E p \in Got' : sent'[p].type = "call" /\ Last(Last(said').pieces) < p
  BY <1>1, <1>3
<1>5. /\ react.thinking \in Seq(Nat) /\ react.text \in Seq(Nat)
      /\ react.state \in {"idle", "thinking", "text", "call"}
      /\ react.thinking # << >> => react.state = "thinking"
      /\ react.text # << >> => react.state = "text"
  BY DEF ReactFits, React, TextsAreTrue
<1>6. ASSUME NEW type \in {"thinking", "text"}, NEW other \in {"thinking", "text"}, type # other,
             NEW pile \in Seq(Nat), sent[i].type = type,
             Follows(type, pile), Follows(other, << >>), pile # << >> => react.state = type,
             said # << >>, Last(said).type = type
      PROVE  \E p \in Last(Last(said).pieces) .. Head(Append(pile, i)) : sent[p].type = "call"
  <2>1. CASE pile # << >>
    <3>1. Head(Append(pile, i)) = Head(pile)
      BY <2>1, <1>1, AppendedIs
    <3>. QED  BY <1>6, <2>1, <3>1 DEF Follows, Parted
  <2>2. CASE pile = << >>
    <3>1. react.state # type
      BY <1>1, <1>6, <2>2 DEF Follows
    <3>2. react.state # other
      BY <1>6 DEF Follows
    <3>3. react.state # "idle"
      BY <1>6 DEF WholeSoFar
    <3>4. react.state = "call"
      BY <3>1, <3>2, <3>3, <1>5, <1>6
    <3>5. PICK p \in Got : sent[p].type = "call" /\ Last(Last(said).pieces) < p
      BY <3>4, <1>6 DEF WholeSoFar
    <3>6. Head(Append(pile, i)) = i
      BY <2>2, <1>1, AppendedIs
    <3>7. p \in Last(Last(said).pieces) .. i
      BY <3>5, <1>1, <1>3, <1>6
    <3>. QED  BY <3>5, <3>6, <3>7
  <2>. QED  BY <2>1, <2>2
<1>7. Follows("thinking", react.thinking) /\ Follows("text", react.text)
  BY DEF WholeSoFar
<1>8. CASE sent[i].type = "thinking"
  <2>1. react'.thinking = Append(react.thinking, i) /\ react.text = << >>
    BY <1>8 DEF Takes
  <2>2. react'.thinking # << >>
    <3>0. i \in Nat /\ react.thinking \in Seq(Nat)
      BY <1>1, <1>5
    <3>1. Append(react.thinking, i) # << >>
      BY <3>0, AppendedIs
    <3>. QED  BY <2>1, <3>1
  <2>3. said # << >> /\ Last(said).type = "thinking" =>
           \E p \in Last(Last(said).pieces) .. Head(react'.thinking) : sent[p].type = "call"
    BY <2>1, <1>5, <1>6, <1>7, <1>8
  <2>4. Follows("thinking", react.thinking)'
    BY <2>2, <2>3, <1>1 DEF Follows, Parted
  <2>5. Follows("text", react.text)'
    BY <1>1, <1>8 DEF Follows
  <2>. QED  BY <1>2, <1>4, <2>4, <2>5 DEF WholeSoFar
<1>9. CASE sent[i].type = "text"
  <2>1. react'.text = Append(react.text, i) /\ react.thinking = << >>
    BY <1>9 DEF Takes
  <2>2. react'.text # << >>
    <3>0. i \in Nat /\ react.text \in Seq(Nat)
      BY <1>1, <1>5
    <3>1. Append(react.text, i) # << >>
      BY <3>0, AppendedIs
    <3>. QED  BY <2>1, <3>1
  <2>3. said # << >> /\ Last(said).type = "text" =>
           \E p \in Last(Last(said).pieces) .. Head(react'.text) : sent[p].type = "call"
    BY <2>1, <1>5, <1>6, <1>7, <1>9
  <2>4. Follows("text", react.text)'
    BY <2>2, <2>3, <1>1 DEF Follows, Parted
  <2>5. Follows("thinking", react.thinking)'
    BY <1>1, <1>9 DEF Follows
  <2>. QED  BY <1>2, <1>4, <2>4, <2>5 DEF WholeSoFar
<1>10. CASE sent[i].type = "call"
  <2>1. Follows("thinking", react.thinking)' /\ Follows("text", react.text)'
    BY <1>1, <1>10 DEF Follows
  <2>. QED  BY <1>2, <1>4, <2>1 DEF WholeSoFar
<1>. QED  BY <1>1, <1>8, <1>9, <1>10

LEMMA MessagesFlushedWhole ==
  ASSUME SentFits, PipeFits, ReactFits, TextsAreTrue, WholeSoFar,
         NEW type \in {"thinking", "text"}, NEW pieces \in Seq(Nat), FlushIs(type, pieces)
  PROVE  WholeSoFar'
<1>1. /\ said' = Append(said, [type |-> type, pieces |-> pieces])
      /\ pieces # << >> /\ sent' = sent /\ todo' = todo /\ react.state = type
      /\ react'.thinking = << >> /\ react'.text = << >> /\ react'.state = type
      /\ Spot' = Spot /\ Spot \in {"holding", "ending"}
      /\ Spot = "holding" => \E i \in todo : Comes(i) /\ sent[i].type # type
  BY DEF FlushIs, server
<1>2. said \in Seq(Shown) /\ [type |-> type, pieces |-> pieces] \in Shown
  BY DEF ReactFits, Shown
<1>3. /\ Len(said) \in Nat /\ DOMAIN said = 1 .. Len(said) /\ Len(said') = Len(said) + 1 /\ said' # << >>
      /\ \A k \in 1 .. Len(said) : said'[k] = said[k]
      /\ said'[Len(said) + 1] = [type |-> type, pieces |-> pieces]
      /\ Last(said') = [type |-> type, pieces |-> pieces]
  BY <1>1, <1>2, AppendedIs
<1>4. said # << >> => Last(said) = said[Len(said)]
  BY <1>2, SequenceIs
<1>5. Follows(type, pieces)
  BY DEF FlushIs, WholeSoFar
<1>6. MessagesAreWhole'
  <2>. SUFFICES ASSUME NEW i \in 1 .. Len(said), said'[i].type = said'[i + 1].type
                PROVE  \E p \in Last(said'[i].pieces) .. Head(said'[i + 1].pieces) : sent[p].type = "call"
    BY <1>1, <1>3 DEF MessagesAreWhole
  <2>1. CASE i < Len(said)
    <3>1. i \in 1 .. Len(said) - 1 /\ said'[i] = said[i] /\ said'[i + 1] = said[i + 1]
      BY <2>1, <1>3
    <3>. QED  BY <3>1 DEF WholeSoFar, MessagesAreWhole
  <2>2. CASE i = Len(said)
    <3>1. said'[i] = said[Len(said)] /\ said'[i + 1] = [type |-> type, pieces |-> pieces] /\ Len(said) > 0
      BY <2>2, <1>3
    <3>2. said # << >>
      BY <3>1, <1>2, SequenceIs
    <3>3. Last(said).type = type
      BY <3>1, <3>2, <1>4
    <3>. QED  BY <3>1, <3>2, <3>3, <1>1, <1>4, <1>5 DEF Follows, Parted
  <2>. QED  BY <2>1, <2>2, <1>3
<1>7. Spot = "holding" => \A i \in todo : Comes(i) => sent[i].type # type
  <2>. SUFFICES ASSUME Spot = "holding", NEW i \in todo, Comes(i)  PROVE sent[i].type # type
    OBVIOUS
  <2>1. PICK j \in todo : Comes(j) /\ sent[j].type # type
    BY <1>1
  <2>2. i = j
    BY <2>1, PlacesAre DEF Comes
  <2>. QED  BY <2>1, <2>2
<1>8. \A i : Comes(i)' <=> Comes(i)
  BY <1>1 DEF Comes
<1>9. Follows("thinking", react.thinking)'
  BY <1>1, <1>3, <1>7, <1>8 DEF Follows
<1>10. Follows("text", react.text)'
  BY <1>1, <1>3, <1>7, <1>8 DEF Follows
<1>. QED  BY <1>1, <1>6, <1>9, <1>10 DEF WholeSoFar

LEMMA MessagesStayWhole ==
  ASSUME ReplyInv, ReplyNext
  PROVE  WholeSoFar'
<1>0. SentFits /\ PhaseFits /\ PipeFits /\ UsageComes /\ ReactFits /\ GotIs /\ TextsAreTrue /\ CallsAreTrue
      /\ WholeSoFar
  BY DEF ReplyInv
<1>1. CASE Take
  BY <1>0, <1>1, TakingIs, MessagesTakenWhole
<1>2. CASE Flush \/ FlushRest
  BY <1>0, <1>2, FlushingIs, MessagesFlushedWhole
<1>3. CASE Requests
  <2>1. said' = << >> /\ react'.state = "idle"
    BY <1>3 DEF Requests, Fresh
  <2>2. MessagesAreWhole'
    BY <2>1 DEF MessagesAreWhole
  <2>. QED  BY <2>1, <2>2 DEF WholeSoFar, Follows
<1>4. CASE Aside
  BY <1>0, <1>4, MessagesAsideWhole
<1>. QED  BY <1>0, <1>1, <1>2, <1>3, <1>4, AsideIs

-----------------------------------------------------------------------------
(***************************************************************************)
(* What is run.                                                            *)
(***************************************************************************)
LEMMA CallEndsAreGot ==
  ASSUME ReactFits, CallsAreTrue
  PROVE  /\ react.calls \in Seq(Call) /\ Len(react.calls) \in Nat /\ DOMAIN react.calls = 1 .. Len(react.calls)
         /\ \A c \in DOMAIN react.calls :
               /\ react.calls[c] \in Call /\ react.calls[c].pieces \in Seq(Nat)
               /\ Head(react.calls[c].pieces) \in Range(react.calls[c].pieces)
               /\ Head(react.calls[c].pieces) \in Got
<1>1. /\ react.calls \in Seq(Call) /\ Len(react.calls) \in Nat /\ DOMAIN react.calls = 1 .. Len(react.calls)
      /\ \A c \in DOMAIN react.calls : react.calls[c] \in Call
  BY SequenceIs DEF ReactFits, React
<1>2. ASSUME NEW c \in DOMAIN react.calls
      PROVE  /\ react.calls[c].pieces \in Seq(Nat)
             /\ Head(react.calls[c].pieces) \in Range(react.calls[c].pieces)
             /\ Head(react.calls[c].pieces) \in Got
  <2>1. react.calls[c].pieces \in Seq(Nat) /\ react.calls[c].pieces # << >>
    BY <1>1 DEF CallsAreTrue, Call
  <2>2. Head(react.calls[c].pieces) \in Range(react.calls[c].pieces)
    BY <2>1, SequenceIs
  <2>. QED  BY <2>1, <2>2 DEF CallsAreTrue
<1>. QED  BY <1>1, <1>2

LEMMA CallsKeptTrue ==
  ASSUME ReactFits, CallsAreTrue, react'.calls = react.calls, Got' = Got, \A n \in Got : sent'[n] = sent[n]
  PROVE  CallsAreTrue'
<1>1. \A c \in DOMAIN react.calls : sent'[Head(react.calls[c].pieces)] = sent[Head(react.calls[c].pieces)]
  BY CallEndsAreGot
<1>. QED  BY <1>1 DEF CallsAreTrue

LEMMA CallsBegunTrue ==
  ASSUME SentFits, PipeFits, ReactFits, CallsAreTrue, NEW i \in todo, Takes(i), sent[i].type = "call",
         BeginsCallWith(i)
  PROVE  CallsAreTrue'
<1>1. /\ sent' = sent /\ Got' = Got \cup {i} /\ i \in Nat /\ i \notin Got /\ (\A n \in Got : n < i /\ n \in Nat)
      /\ react'.calls = Append(react.calls, [index |-> sent[i].index, name |-> sent[i].name, pieces |-> <<i>>])
      /\ sent[i] \in Pieces
  BY PlacesAre DEF Takes, BeginsCallWith
<1>. DEFINE new == [index |-> sent[i].index, name |-> sent[i].name, pieces |-> <<i>>]
<1>2. new \in Call /\ new.index = sent[i].index /\ new.name = sent[i].name /\ new.pieces = <<i>>
  BY <1>1 DEF BeginsCallWith, Call, Pieces
<1>. HIDE DEF new
<1>3. /\ Len(react.calls) \in Nat /\ DOMAIN react.calls = 1 .. Len(react.calls)
      /\ DOMAIN react'.calls = 1 .. Len(react.calls) + 1
      /\ \A c \in 1 .. Len(react.calls) : react'.calls[c] = react.calls[c]
      /\ react'.calls[Len(react.calls) + 1] = new
  <2>1. react.calls \in Seq(Call) /\ react'.calls = Append(react.calls, new)
    BY <1>1, CallEndsAreGot DEF new
  <2>. QED  BY <1>2, <2>1, AppendedIs
<1>4. Range(<<i>>) = {i} /\ Head(<<i>>) = i /\ <<i>> # << >> /\ Increasing(<<i>>)
  BY DEF Range, Increasing
<1>5. \A n \in Got : sent[n].type = "call" => sent[n].index # sent[i].index
  BY DEF BeginsCallWith
<1>6. ASSUME NEW c \in DOMAIN react.calls
      PROVE  LET call == react'.calls[c] IN
             /\ call.pieces # << >> /\ Increasing(call.pieces)
             /\ call.name = sent[Head(call.pieces)].name
             /\ \A n : n \in Range(call.pieces) <=>
                   n \in Got' /\ sent[n].type = "call" /\ sent[n].index = call.index
             /\ \A d \in 1 .. c - 1 :
                   Head(react'.calls[d].pieces) < Head(call.pieces) /\ react'.calls[d].index # call.index
  <2>1. react'.calls[c] = react.calls[c] /\ \A d \in 1 .. c - 1 : react'.calls[d] = react.calls[d]
    BY <1>3
  <2>2. react.calls[c].index # sent[i].index
    BY DEF BeginsCallWith
  <2>3. \A n : n \in Range(react.calls[c].pieces) <=>
                   n \in Got' /\ sent[n].type = "call" /\ sent[n].index = react.calls[c].index
    BY <1>1, <2>2 DEF CallsAreTrue
  <2>. QED  BY <2>1, <2>3 DEF CallsAreTrue
<1>7. LET call == new  c == Len(react.calls) + 1 IN
      /\ call.pieces # << >> /\ Increasing(call.pieces)
      /\ call.name = sent[Head(call.pieces)].name
      /\ \A n : n \in Range(call.pieces) <=>
            n \in Got' /\ sent[n].type = "call" /\ sent[n].index = call.index
      /\ \A d \in 1 .. c - 1 :
            Head(react'.calls[d].pieces) < Head(call.pieces) /\ react'.calls[d].index # call.index
  <2>1. \A n : n \in Range(new.pieces) <=> n \in Got' /\ sent[n].type = "call" /\ sent[n].index = new.index
    BY <1>1, <1>2, <1>4, <1>5
  <2>2. ASSUME NEW d \in 1 .. (Len(react.calls) + 1) - 1
        PROVE  Head(react'.calls[d].pieces) < Head(new.pieces) /\ react'.calls[d].index # new.index
    <3>1. d \in DOMAIN react.calls /\ react'.calls[d] = react.calls[d]
      BY <1>3
    <3>2. Head(react.calls[d].pieces) \in Got /\ react.calls[d].index # sent[i].index
      BY <3>1, CallEndsAreGot DEF BeginsCallWith
    <3>. QED  BY <3>1, <3>2, <1>1, <1>2, <1>4
  <2>. QED  BY <1>2, <1>4, <2>1, <2>2
<1>8. ASSUME NEW n \in Got', sent[n].type = "call"
      PROVE  \E c \in DOMAIN react'.calls : react'.calls[c].index = sent[n].index
  <2>1. CASE n = i
    <3>1. Len(react.calls) + 1 \in DOMAIN react'.calls
      BY <1>3
    <3>. QED  BY <2>1, <3>1, <1>2, <1>3
  <2>2. CASE n \in Got
    <3>1. PICK c \in DOMAIN react.calls : react.calls[c].index = sent[n].index
      BY <1>8, <2>2 DEF CallsAreTrue
    <3>2. c \in DOMAIN react'.calls /\ react'.calls[c] = react.calls[c]
      BY <1>3
    <3>. QED  BY <3>1, <3>2
  <2>. QED  BY <2>1, <2>2, <1>1
<1>9. \A c \in DOMAIN react'.calls : c \in DOMAIN react.calls \/ c = Len(react.calls) + 1
  BY <1>3
<1>. QED  BY <1>1, <1>3, <1>6, <1>7, <1>8, <1>9 DEF CallsAreTrue

LEMMA CallsContinuedTrue ==
  ASSUME SentFits, PipeFits, ReactFits, CallsAreTrue, NEW i \in todo, Takes(i), sent[i].type = "call",
         NEW e \in DOMAIN react.calls, ContinuesCall(i, e)
  PROVE  CallsAreTrue'
<1>1. /\ sent' = sent /\ Got' = Got \cup {i} /\ i \in Nat /\ i \notin Got /\ (\A n \in Got : n < i /\ n \in Nat)
      /\ react'.calls = Called(i)
  BY PlacesAre DEF Takes
<1>2. /\ DOMAIN react'.calls = DOMAIN react.calls
      /\ \A d \in DOMAIN react.calls : d # e => react'.calls[d] = react.calls[d]
      /\ react'.calls[e].index = react.calls[e].index /\ react'.calls[e].name = react.calls[e].name
      /\ react'.calls[e].pieces = Append(react.calls[e].pieces, i)
      /\ react.calls[e].index = sent[i].index
  BY <1>1 DEF ContinuesCall
<1>3. /\ react.calls[e].pieces \in Seq(Nat) /\ react.calls[e].pieces # << >>
      /\ Increasing(react.calls[e].pieces) /\ \A n \in Range(react.calls[e].pieces) : n \in Got
  BY CallEndsAreGot DEF CallsAreTrue
<1>4. /\ react'.calls[e].pieces # << >> /\ Head(react'.calls[e].pieces) = Head(react.calls[e].pieces)
      /\ Range(react'.calls[e].pieces) = Range(react.calls[e].pieces) \cup {i}
  BY <1>1, <1>2, <1>3, AppendedIs
<1>5. Increasing(react'.calls[e].pieces)
  BY <1>1, <1>2, <1>3, IncreasesOn
<1>6. \A d \in DOMAIN react.calls : d # e => react.calls[d].index # sent[i].index
  <2>. SUFFICES ASSUME NEW d \in DOMAIN react.calls, d # e  PROVE react.calls[d].index # sent[i].index
    OBVIOUS
  <2>1. d \in 1 .. e - 1 \/ e \in 1 .. d - 1
    BY CallEndsAreGot
  <2>. QED  BY <2>1, <1>2 DEF CallsAreTrue
<1>7. \A d \in DOMAIN react.calls :
        /\ Head(react'.calls[d].pieces) = Head(react.calls[d].pieces)
        /\ react'.calls[d].index = react.calls[d].index /\ react'.calls[d].name = react.calls[d].name
        /\ react'.calls[d].pieces # << >> /\ Increasing(react'.calls[d].pieces)
  BY <1>2, <1>4, <1>5 DEF CallsAreTrue
<1>8. ASSUME NEW c \in DOMAIN react.calls, NEW n
      PROVE  n \in Range(react'.calls[c].pieces) <=>
                n \in Got' /\ sent[n].type = "call" /\ sent[n].index = react.calls[c].index
  <2>1. n \in Range(react.calls[c].pieces) <=>
                n \in Got /\ sent[n].type = "call" /\ sent[n].index = react.calls[c].index
    BY DEF CallsAreTrue
  <2>2. CASE c = e
    BY <2>1, <2>2, <1>1, <1>2, <1>4
  <2>3. CASE c # e
    BY <2>1, <2>3, <1>1, <1>2, <1>6
  <2>. QED  BY <2>2, <2>3
<1>9. \A c \in DOMAIN react.calls : \A d \in 1 .. c - 1 :
        /\ d \in DOMAIN react.calls
        /\ Head(react.calls[d].pieces) < Head(react.calls[c].pieces)
        /\ react.calls[d].index # react.calls[c].index
  <2>1. \A c \in DOMAIN react.calls : \A d \in 1 .. c - 1 : d \in DOMAIN react.calls
    BY CallEndsAreGot
  <2>. QED  BY <2>1 DEF CallsAreTrue
<1>10. \A c \in DOMAIN react.calls : react.calls[c].name = sent[Head(react.calls[c].pieces)].name
  BY DEF CallsAreTrue
<1>11. \A n \in Got' : sent[n].type = "call" =>
          \E c \in DOMAIN react.calls : react.calls[c].index = sent[n].index
  BY <1>1, <1>2 DEF CallsAreTrue
<1>. QED  BY <1>1, <1>2, <1>7, <1>8, <1>9, <1>10, <1>11 DEF CallsAreTrue

LEMMA CallsStayTrue ==
  ASSUME ReplyInv, ReplyNext
  PROVE  CallsAreTrue'
<1>0. SentFits /\ PhaseFits /\ PipeFits /\ UsageComes /\ ReactFits /\ GotIs /\ TextsAreTrue /\ CallsAreTrue
  BY DEF ReplyInv
<1>1. CASE Take
  <2>1. PICK i \in todo : Takes(i)
    BY <1>0, <1>1, TakingIs
  <2>2. CASE sent[i].type = "call"
    BY <1>0, <2>1, <2>2, CalledIs, CallsBegunTrue, CallsContinuedTrue DEF Takes
  <2>3. CASE sent[i].type # "call"
    <3>1. sent' = sent /\ Got' = Got \cup {i} /\ react'.calls = react.calls
      BY <2>1, <2>3 DEF Takes
    <3>. QED  BY <1>0, <2>3, <3>1 DEF CallsAreTrue
  <2>. QED  BY <2>2, <2>3
<1>2. CASE Flush \/ FlushRest
  <2>1. Steady /\ react'.calls = react.calls
    <3>1. StillSteps
      BY <1>2 DEF StillSteps
    <3>. QED  BY <1>0, <1>2, <3>1, StillJoins, FlushingIs DEF FlushIs
  <2>. QED  BY <1>0, <2>1, CallsKeptTrue, PlacesAre DEF Steady
<1>3. CASE Requests
  <2>1. react'.calls = << >> /\ Got' = {}
    BY <1>3, RequestIs DEF Requests, Fresh
  <2>2. DOMAIN react'.calls = {}
    BY <2>1
  <2>. QED  BY <2>1, <2>2 DEF CallsAreTrue
<1>4. CASE Aside
  BY <1>0, <1>4, CallsKeptTrue, PlacesAre DEF Aside, Untouched, Steady
<1>. QED  BY <1>0, <1>1, <1>2, <1>3, <1>4, AsideIs

LEMMA RanStaysFit ==
  ASSUME ReplyInv, ReplyNext
  PROVE  RanFits'
<1>0. SentFits /\ PhaseFits /\ PipeFits /\ UsageComes /\ ReactFits /\ GotIs /\ TextsAreTrue /\ CallsAreTrue
      /\ RanFits
  BY DEF ReplyInv
<1>1. CASE Requests
  <2>1. ran' = << >> /\ react'.calls = << >>
    BY <1>1 DEF Requests, Fresh
  <2>. QED  BY <2>1 DEF RanFits
<1>2. CASE RunCall
  <2>1. ran' = Append(ran, react.calls[Len(ran) + 1]) /\ react' = react /\ ~AllRan /\ Spot = "ending"
    BY <1>2 DEF RunCall, Spot
  <2>2. Received'
    <3>1. ~Requests
      BY <2>1, RequestIs
    <3>. QED  BY <1>0, <2>1, <3>1, ReceivedStays
  <2>3. Len(ran) \in Nat /\ Len(react.calls) \in Nat /\ Len(ran) <= Len(react.calls) /\ Len(ran) # Len(react.calls)
        /\ react.calls \in Seq(Call) /\ ran \in Seq(Call) /\ DOMAIN ran = 1 .. Len(ran)
    <3>1. ran \in Seq(Call) /\ Len(ran) <= Len(react.calls)
      BY <1>0 DEF RanFits
    <3>2. Len(ran) # Len(react.calls)
      BY <2>1 DEF AllRan
    <3>. QED  BY <1>0, <3>1, <3>2, SequenceIs, CallEndsAreGot
  <2>4. react.calls[Len(ran) + 1] \in Call
    BY <2>3, SequenceIs
  <2>5. /\ ran' \in Seq(Call) /\ Len(ran') = Len(ran) + 1 /\ DOMAIN ran' = 1 .. Len(ran) + 1
        /\ \A c \in 1 .. Len(ran) : ran'[c] = ran[c]
        /\ ran'[Len(ran) + 1] = react.calls[Len(ran) + 1]
    BY <2>1, <2>3, <2>4, AppendedIs
  <2>6. \A c \in DOMAIN ran' : ran'[c] = react.calls[c]
    BY <1>0, <2>3, <2>5 DEF RanFits
  <2>. QED  BY <2>1, <2>2, <2>3, <2>5, <2>6 DEF RanFits
<1>3. CASE ~Requests /\ ~RunCall
  <2>1. ran' = ran
    <3>1. CASE Puttings
      BY <1>0, <3>1, PuttingIs DEF PutIs, result
    <3>. QED  BY <1>3, <3>1, StepsAre DEF StillSteps, Read, Sort, Take, Close, CloseEarly, Closes, Connects, Refused,
          ConnectFails, Fire, ReadFails, SortFails, Fails, ReadOn, StreamEnds, Resume, Flush, FlushRest, Iterate,
          Stop, Leave, result
  <2>2. CASE Take
    <3>1. ~Received
      BY <1>0, <2>2, ReceivedStays
    <3>2. ran = << >>
      BY <1>0, <3>1 DEF RanFits
    <3>3. PICK i \in todo : Takes(i)
      BY <1>0, <2>2, TakingIs
    <3>4. Len(react'.calls) \in Nat
      BY <3>3, SequenceIs DEF Takes, React
    <3>5. ran' \in Seq(Call) /\ Len(ran') = 0 /\ DOMAIN ran' = {}
      BY <2>1, <3>2
    <3>. QED  BY <2>1, <3>2, <3>4, <3>5 DEF RanFits
  <2>3. CASE ~Take
    <3>1. react'.calls = react.calls
      BY <1>0, <1>3, <2>3, AsideIs, FlushingIs DEF FlushIs, Aside, Untouched
    <3>2. Received => Received'
      BY <1>0, <1>3, ReceivedStays
    <3>. QED  BY <1>0, <2>1, <3>1, <3>2 DEF RanFits
  <2>. QED  BY <2>2, <2>3
<1>. QED  BY <1>1, <1>2, <1>3

-----------------------------------------------------------------------------
(***************************************************************************)
(* The run begins, goes on, and what it shows and runs is what was sent.   *)
(***************************************************************************)
LEMMA ReplyBegins == ReplyInit => ReplyInv
<1>. SUFFICES ASSUME ReplyInit  PROVE ReplyInv
  OBVIOUS
<1>1. /\ at = "idle" /\ back = "idle" /\ Spot = "idle" /\ timer = "off" /\ failure = Nothing
      /\ stopped = FALSE /\ open = FALSE /\ torn = FALSE /\ cut = FALSE /\ finished = FALSE
      /\ wire = << >> /\ lines = << >> /\ todo = {} /\ sent = << >> /\ said = << >> /\ ran = << >>
      /\ react = Fresh /\ provider \in {OpenAI, OpenRouter, Ollama, LMStudio}
  BY DEF ReplyInit, Spot
<1>2. buffer = 0 /\ charged = 0 /\ owed = 0 /\ usage = 0 /\ written = 0 /\ iteration = 0
  BY DEF ReplyInit
<1>3. Fresh \in React /\ Fresh.thinking = << >> /\ Fresh.text = << >> /\ Fresh.calls = << >>
      /\ Fresh.state = "idle" /\ Fresh.usage = 0
  BY DEF Fresh, React
<1>4. Sorted = 0 /\ Got = {}
  <2>1. Sorted = 0
    BY <1>1 DEF Sorted, Until
  <2>. QED  BY <2>1 DEF Got
<1>5. SentFits
  <2>1. sent \in Seq(Pieces) /\ Len(sent) = 0 /\ DOMAIN sent = {}
    BY <1>1
  <2>. QED  BY <1>1, <2>1, ModelStreamAssumption DEF SentFits
<1>6. PhaseFits
  <2>1. written \in 0 .. MaxChunks /\ iteration \in 0 .. MaxIterations
    BY <1>2, ModelStreamAssumption
  <2>. QED  BY <1>1, <2>1 DEF PhaseFits
<1>7. PipeFits
  <2>1. wire \in Seq(Lines) /\ lines \in Seq(Lines)
    BY <1>1
  <2>2. buffer \in 0..1
    BY <1>2
  <2>3. Joins(wire, Len(sent)) /\ Joins(lines, Until)
    BY <1>1 DEF Joins
  <2>. QED  BY <1>1, <2>1, <2>2, <2>3 DEF PipeFits
<1>8. IsDrained
  BY <1>2 DEF IsDrained, Received
<1>9. UsageComes
  <2>1. IsSilent(wire) /\ IsSilent(lines)
    BY <1>1 DEF IsSilent
  <2>2. usage \in 0..2 /\ usage = 0 /\ react.usage = usage
    BY <1>1, <1>2, <1>3
  <2>. QED  BY <2>1, <2>2 DEF UsageComes
<1>10. ReactFits
  BY <1>1, <1>2, <1>3 DEF ReactFits
<1>11. GotIs
  BY <1>4 DEF GotIs
<1>12. DOMAIN said = {} /\ react.thinking = << >> /\ react.text = << >> /\ DOMAIN react.calls = {}
       /\ react.state = "idle"
  BY <1>1, <1>3
<1>13. TextsAreTrue
  BY <1>4, <1>12, NothingIsIncreasing DEF TextsAreTrue, InText
<1>14. WholeSoFar
  <2>1. MessagesAreWhole
    BY <1>1 DEF MessagesAreWhole
  <2>. QED  BY <1>1, <1>12, <2>1 DEF WholeSoFar, Follows
<1>15. CallsAreTrue
  BY <1>4, <1>12 DEF CallsAreTrue
<1>16. RanFits
  BY <1>1, <1>3 DEF RanFits
<1>. QED  BY <1>5, <1>6, <1>7, <1>8, <1>9, <1>10, <1>11, <1>13, <1>14, <1>15, <1>16 DEF ReplyInv

LEMMA ReplyGoesOn == ReplyInv /\ [ReplyNext]_replyVars => ReplyInv'
<1>. SUFFICES ASSUME ReplyInv, [ReplyNext]_replyVars  PROVE ReplyInv'
  OBVIOUS
<1>1. CASE ReplyNext
  <2>1. SentFits' /\ PhaseFits' /\ PipeFits' /\ IsDrained' /\ UsageComes' /\ GotIs'
    BY <1>1, SentStaysFit, PhaseStaysFit, PipeStaysFit, StaysDrained, UsageStays, GotStays DEF ReplyInv
  <2>. QED  BY <1>1, <2>1, ReactStaysFit, TextsStayTrue, MessagesStayWhole, CallsStayTrue, RanStaysFit
            DEF ReplyInv
<1>2. CASE UNCHANGED replyVars
  <2>1. UNCHANGED <<server, result, at, back, stopped, failure, timer, buffer, lines, todo, react>>
    BY <1>2 DEF replyVars
  <2>2. /\ UNCHANGED <<provider, open, wire, torn, closed, sent, usage, finished, written, cut>>
        /\ UNCHANGED <<said, ran, charged, owed, iteration>>
    BY <2>1 DEF server, result
  <2>3. Spot' = Spot /\ Until' = Until /\ Sorted' = Sorted /\ Got' = Got /\ Received' = Received
        /\ (\A i : Handed(i)' <=> Handed(i)) /\ (\A i : Comes(i)' <=> Comes(i)) /\ (\A i : InText(i)' <=> InText(i))
    BY <2>1, <2>2 DEF Spot, Until, Sorted, Got, Handed, Comes, InText, Received
  <2>4. SentFits' /\ PhaseFits'
    BY <2>1, <2>2, <2>3 DEF ReplyInv, SentFits, PhaseFits
  <2>5. PipeFits' /\ IsDrained'
    BY <2>1, <2>2, <2>3 DEF ReplyInv, PipeFits, IsDrained, Joins
  <2>6. UsageComes' /\ ReactFits' /\ GotIs'
    BY <2>1, <2>2, <2>3 DEF ReplyInv, UsageComes, ReactFits, GotIs
  <2>7. TextsAreTrue' /\ CallsAreTrue' /\ RanFits'
    BY <2>1, <2>2, <2>3 DEF ReplyInv, TextsAreTrue, CallsAreTrue, RanFits
  <2>8. WholeSoFar'
    BY <2>1, <2>2, <2>3 DEF ReplyInv, WholeSoFar, MessagesAreWhole, Follows, Parted
  <2>. QED  BY <2>4, <2>5, <2>6, <2>7, <2>8 DEF ReplyInv
<1>. QED  BY <1>1, <1>2

\* What is shown, decision by decision, and what will be next.
LEMMA TextsHold ==
  ASSUME ReplyInv
  PROVE  /\ DOMAIN Texts = 1 .. Len(said) + 2 /\ Len(said) \in Nat /\ DOMAIN said = 1 .. Len(said)
         /\ \A i \in 1 .. Len(said) : Texts[i] = said[i].pieces
         /\ Texts[Len(said) + 1] = react.thinking /\ Texts[Len(said) + 2] = react.text
<1>. DEFINE shown == [i \in DOMAIN said |-> said[i].pieces]  next == <<react.thinking, react.text>>
<1>1. /\ Len(said) \in Nat /\ DOMAIN said = 1 .. Len(said)
      /\ \A i \in DOMAIN said : said[i].pieces \in Seq(Nat)
  BY EndsAreGot DEF ReplyInv
<1>2. react.thinking \in Seq(Nat) /\ react.text \in Seq(Nat)
  BY DEF ReplyInv, ReactFits, React
<1>3. shown \in [1 .. Len(said) -> Seq(Nat)] /\ \A i \in 1 .. Len(said) : shown[i] = said[i].pieces
  BY <1>1
<1>4. next \in Seq(Seq(Nat)) /\ Len(next) = 2 /\ next[1] = react.thinking /\ next[2] = react.text
  BY <1>2
<1>5. Texts = shown \o next
  BY DEF Texts
<1>. HIDE DEF shown, next
<1>6. shown \in Seq(Seq(Nat)) /\ Len(shown) = Len(said)
  BY <1>1, <1>3, FunctionIsSeq
<1>7. /\ Texts \in Seq(Seq(Nat)) /\ Len(Texts) = Len(said) + 2
      /\ \A i \in 1 .. Len(Texts) : Texts[i] = IF i <= Len(said) THEN shown[i] ELSE next[i - Len(said)]
  <2>1. \A S : \A s, t \in Seq(S) :
           /\ s \o t \in Seq(S) /\ Len(s \o t) = Len(s) + Len(t)
           /\ \A i \in 1 .. Len(s) + Len(t) : (s \o t)[i] = IF i <= Len(s) THEN s[i] ELSE t[i - Len(s)]
    BY ConcatProperties
  <2>2. /\ shown \o next \in Seq(Seq(Nat)) /\ Len(shown \o next) = Len(shown) + Len(next)
        /\ \A i \in 1 .. Len(shown) + Len(next) :
              (shown \o next)[i] = IF i <= Len(shown) THEN shown[i] ELSE next[i - Len(shown)]
    BY <1>4, <1>6, <2>1, Zenon
  <2>. QED  BY <1>4, <1>5, <1>6, <2>2, Zenon
<1>8. DOMAIN Texts = 1 .. Len(said) + 2
  BY <1>7, SequenceIs
<1>9. \A i \in 1 .. Len(said) : Texts[i] = said[i].pieces
  BY <1>1, <1>3, <1>7
<1>10. Texts[Len(said) + 1] = next[1] /\ Texts[Len(said) + 2] = next[2]
  <2>1. ASSUME NEW k \in 1..2  PROVE Texts[Len(said) + k] = next[k]
    <3>1. Len(said) + k \in 1 .. Len(Texts) /\ ~(Len(said) + k <= Len(said)) /\ (Len(said) + k) - Len(said) = k
      <4>1. Len(Texts) = Len(said) + 2
        BY <1>7
      <4>. QED  BY <4>1, <1>1
    <3>. QED  BY <3>1, <1>7, Zenon
  <2>. QED  BY <2>1
<1>. QED  BY <1>1, <1>4, <1>8, <1>9, <1>10

LEMMA HeardIs ==
  ASSUME ReplyInv
  PROVE  /\ \A n : n \in Heard <=> n \in Got /\ sent[n].type # "call"
         /\ \A i \in DOMAIN Texts : Increasing(Texts[i])
         /\ \A i, j \in DOMAIN Texts : i < j => \A m \in Range(Texts[i]), n \in Range(Texts[j]) : m < n
<1>0. TextsAreTrue
  BY DEF ReplyInv
<1>1. /\ DOMAIN Texts = 1 .. Len(said) + 2 /\ Len(said) \in Nat /\ DOMAIN said = 1 .. Len(said)
      /\ \A i \in 1 .. Len(said) : Texts[i] = said[i].pieces
      /\ Texts[Len(said) + 1] = react.thinking /\ Texts[Len(said) + 2] = react.text
  BY TextsHold
<1>2. \A i \in DOMAIN Texts : i \in DOMAIN said \/ i = Len(said) + 1 \/ i = Len(said) + 2
  BY <1>1
<1>3. ASSUME NEW n  PROVE n \in Heard <=> InText(n)
  <2>1. n \in Heard <=> \E i \in DOMAIN Texts : n \in Range(Texts[i])
    BY DEF Heard
  <2>2. Len(said) + 1 \in DOMAIN Texts /\ Len(said) + 2 \in DOMAIN Texts /\ \A i \in DOMAIN said : i \in DOMAIN Texts
    BY <1>1
  <2>. QED  BY <1>1, <1>2, <2>1, <2>2 DEF InText
<1>4. \A i \in DOMAIN Texts : Increasing(Texts[i])
  BY <1>0, <1>1, <1>2 DEF TextsAreTrue
<1>5. ASSUME NEW i \in DOMAIN Texts, NEW j \in DOMAIN Texts, i < j,
             NEW m \in Range(Texts[i]), NEW n \in Range(Texts[j])
      PROVE  m < n
  <2>1. CASE i \in DOMAIN said
    BY <2>1, <1>0, <1>1, <1>2, <1>5 DEF TextsAreTrue
  <2>2. CASE i = Len(said) + 1
    <3>1. m \in Range(react.thinking) /\ n \in Range(react.text)
      <4>1. j = Len(said) + 2
        BY <2>2, <1>1, <1>5
      <4>. QED  BY <2>2, <4>1, <1>1
    <3>2. react.thinking # << >> /\ react.text # << >>
      BY <3>1, NothingIsIncreasing
    <3>. QED  BY <3>2, <1>0 DEF TextsAreTrue
  <2>3. i # Len(said) + 2
    BY <1>1, <1>5
  <2>. QED  BY <2>1, <2>2, <2>3, <1>2
<1>. QED  BY <1>0, <1>3, <1>4, <1>5 DEF TextsAreTrue

LEMMA RepliesHold == ReplyInv => RepliesAreTrue
<1>. SUFFICES ASSUME ReplyInv  PROVE RepliesAreTrue
  OBVIOUS
<1>0. SentFits /\ PhaseFits /\ PipeFits /\ IsDrained /\ ReactFits /\ GotIs /\ CallsAreTrue /\ RanFits
      /\ WholeSoFar
  BY DEF ReplyInv
<1>1. /\ Len(sent) \in Nat /\ Sorted \in 0 .. Len(sent)
      /\ \A i \in Got : i \in 1 .. Sorted /\ i \in 1 .. Len(sent)
  BY <1>0, PlacesAre
<1>2. ReplyTypeOK
  <2>1. Spot \in {"idle", "connecting", "waiting", "sorting", "holding", "ending", "left", "failed", "done"}
    BY <1>0 DEF PhaseFits
  <2>2. at \in {"idle", "connecting", "waiting", "sorting", "holding", "given", "ending", "left", "failed", "done"}
    BY <2>1 DEF Spot
  <2>3. written <= MaxChunks /\ iteration <= MaxIterations
    BY <1>0 DEF PhaseFits
  <2>. QED  BY <1>0, <2>2, <2>3 DEF ReplyTypeOK, PhaseFits, SentFits
<1>3. PICK l \in 0 .. Sorted : Got = {i \in 1 .. l : Handed(i)}
  BY <1>0 DEF GotIs
<1>4. l \in 0 .. Len(sent)
  BY <1>1
<1>5. Heard = Told(l)
  BY <1>3, HeardIs DEF Told
<1>6. HeardInOrder
  BY <1>4, <1>5, HeardIs DEF HeardInOrder
<1>7. Received /\ ~cut => Got = {i \in 1 .. Len(sent) : Handed(i)}
  <2>. SUFFICES ASSUME Received, ~cut  PROVE Got = {i \in 1 .. Len(sent) : Handed(i)}
    OBVIOUS
  <2>1. todo = {} /\ lines = << >> /\ wire = << >>
    BY <1>0 DEF IsDrained
  <2>2. Sorted = Len(sent)
    BY <2>1 DEF Sorted, Until
  <2>. QED  BY <2>1, <2>2 DEF Got
<1>8. NothingLost
  BY <1>7, HeardIs DEF NothingLost, Told
<1>9. \A c \in DOMAIN ran : c \in DOMAIN react.calls /\ ran[c] = react.calls[c]
        /\ \A d \in 1 .. c - 1 : d \in DOMAIN ran
  <2>1. /\ DOMAIN ran = 1 .. Len(ran) /\ Len(ran) \in Nat
        /\ DOMAIN react.calls = 1 .. Len(react.calls) /\ Len(react.calls) \in Nat
    BY <1>0, SequenceIs, CallEndsAreGot DEF RanFits
  <2>. QED  BY <1>0, <2>1 DEF RanFits
<1>10. ASSUME NEW c \in DOMAIN ran
       PROVE  /\ Increasing(ran[c].pieces)
              /\ ran[c].name # Nothing /\ ran[c].name = sent[Head(ran[c].pieces)].name
              /\ \E n \in 0 .. Len(sent) : Range(ran[c].pieces) = Asked(ran[c].index, n)
              /\ ~cut => Range(ran[c].pieces) = Asked(ran[c].index, Len(sent))
              /\ \A d \in 1 .. c - 1 : Head(ran[d].pieces) < Head(ran[c].pieces)
  <2>1. c \in DOMAIN react.calls /\ ran[c] = react.calls[c] /\ \A d \in 1 .. c - 1 : ran[d] = react.calls[d]
    BY <1>9
  <2>2. /\ Increasing(ran[c].pieces) /\ ran[c].name = sent[Head(ran[c].pieces)].name
        /\ \A n : n \in Range(ran[c].pieces) <=> n \in Got /\ sent[n].type = "call" /\ sent[n].index = ran[c].index
        /\ \A d \in 1 .. c - 1 : Head(ran[d].pieces) < Head(ran[c].pieces)
    BY <1>0, <2>1 DEF CallsAreTrue
  <2>3. ran[c].name # Nothing
    <3>1. ran[c].name \in Tools
      BY <1>0, <2>1, CallEndsAreGot DEF Call
    <3>. QED  BY <3>1, ModelStreamAssumption
  <2>4. ASSUME NEW n \in Nat, Got = {i \in 1 .. n : Handed(i)}
        PROVE  Range(ran[c].pieces) = Asked(ran[c].index, n)
    BY <2>2, <2>4 DEF Asked, Handed
  <2>5. l \in Nat /\ Range(ran[c].pieces) = Asked(ran[c].index, l)
    BY <1>1, <1>3, <1>4, <2>4
  <2>6. Received
    <3>1. ran # << >>
      OBVIOUS
    <3>. QED  BY <1>0, <3>1 DEF RanFits
  <2>7. ~cut => Range(ran[c].pieces) = Asked(ran[c].index, Len(sent))
    BY <1>1, <1>7, <2>4, <2>6
  <2>. QED  BY <1>4, <2>2, <2>3, <2>5, <2>7
<1>11. CallsAreWhole
  BY <1>0, <1>10 DEF CallsAreWhole, RanFits
<1>12. ChargedOnce /\ MessagesAreWhole
  BY <1>0 DEF ReactFits, ChargedOnce, WholeSoFar
<1>. QED  BY <1>2, <1>6, <1>8, <1>11, <1>12 DEF RepliesAreTrue

\* What the run shows, runs and charges is what the model wrote, however the network
\* cuts the lines, wherever the server falls silent, and whenever the run is stopped
\* (OpenAIProvider.ts:96-160, ReActStrategy.ts:93-200).
THEOREM RepliesStayTrue == ReplySpec => []RepliesAreTrue
<1>1. ReplySpec => []ReplyInv
  BY ReplyBegins, ReplyGoesOn, PTL DEF ReplySpec
<1>. QED  BY <1>1, RepliesHold, PTL
=============================================================================
