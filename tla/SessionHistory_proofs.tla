----------------------- MODULE SessionHistory_proofs -----------------------
(***************************************************************************)
(* SessionHistory for any number of messages, deliveries and saves, and    *)
(* any number of messages that the optimizers preserve.                    *)
(***************************************************************************)
EXTENDS SessionHistory, SequenceTheorems, WellFoundedInduction, TLAPS

-----------------------------------------------------------------------------
(***************************************************************************)
(* The inductive invariant.                                                *)
(***************************************************************************)
\* One of the numbers in D came between the call that m answers and m.
Between(m, D) == \E d \in D : m.of < d /\ \A n \in m.covers : d < n

Ordered(ms) ==
    \A i, j \in DOMAIN ms : i < j => \A m \in ms[i].covers, n \in ms[j].covers : m < n

\* A message on its own, when n messages were added.
Meant(m, n) ==
    /\ m.covers # {} /\ m.covers \subseteq 1..n
    /\ m.kind \in {"call", "result"} => \E k \in m.covers : m.covers = {k}
    /\ m.kind = "result" => \A k \in m.covers : m.of < k

\* A result directly follows its call unless a delivery came between them.
Paired(ms, D) ==
    \A i \in DOMAIN ms : ms[i].kind = "result" /\ ~Between(ms[i], D) =>
        i > 1 /\ ms[i - 1].kind = "call" /\ ms[i].of \in ms[i - 1].covers

\* The messages of earlier runs are in front.
PastIs(ms, p) == \A i \in DOMAIN ms : ms[i].current <=> i > p

\* What every list of this session's messages satisfies, in memory, in a run's hands
\* and on disk, when n messages were added and the scheduler added those in D.
Sound(ms, n, D) ==
    /\ ms \in Seq(Message)
    /\ Ordered(ms)
    /\ \A i \in DOMAIN ms : Meant(ms[i], n)
    /\ Paired(ms, D)
    /\ \E p \in 0..Len(ms) : PastIs(ms, p)

AllAnswered(ms, but) ==
    \A i \in DOMAIN ms : ms[i].kind = "call" => ms[i].covers \subseteq Answered(ms) \cup {but}

\* Between two runs, what was added since the last one is not a call or a result.
Settled(ms) == \A i \in DOMAIN ms : ms[i].current => ms[i].kind = "said"

Lists ==
    /\ Sound(msgs, added, delivered) /\ Sound(snapshot, added, delivered)
    /\ Sound(disk, added, delivered)
    /\ \A i \in DOMAIN writes : Sound(writes[i].data, added, delivered)

Answers ==
    /\ pc # "unwinding" => AllAnswered(msgs, open)
    /\ AllAnswered(snapshot, 0) /\ Settled(snapshot)
    /\ pc \in {"idle", "prompting", "prepared", "optimizing"} => Settled(msgs)

\* The call that waits for its result is the last message, or will be interrupted.
Opened ==
    open # 0 =>
      /\ open <= added
      /\ (\E d \in delivered : open < d)
           \/ (Len(msgs) > 0 /\ msgs[Len(msgs)].kind = "call" /\ msgs[Len(msgs)].covers = {open})

Kept ==
    /\ up => expected \ delivered \subseteq Covered(msgs)
    /\ pc \in {"prompting", "optimizing"} => expected \ delivered \subseteq Covered(snapshot)

Down == ~up => pc = "idle" /\ reads = 0 /\ writes = <<>>

IInv ==
    /\ TypeOK /\ delivered \subseteq 1..added
    /\ Lists /\ Answers /\ Opened /\ Kept /\ Down
    /\ CallsAreAnswered /\ PairsStayTogether

\* What the file will hold when the only write there is has ended.
Settling == IF writes = <<>> THEN disk ELSE writes[1].data
Saved ==
    /\ clean => Len(writes) <= 1 /\ \A i \in DOMAIN writes : ~writes[i].mixed
    /\ up /\ clean => ~torn
    /\ up /\ clean /\ pc = "idle" /\ reads = 0 => Commit(Settling) = Commit(msgs)

-----------------------------------------------------------------------------
(***************************************************************************)
(* Induction, from the fact that < is well founded: over sets of numbers,  *)
(* which the provers can instantiate.                                      *)
(***************************************************************************)
LEMMA LeastOf ==
    ASSUME NEW S \in SUBSET Nat, S # {}
    PROVE  \E m \in S : \A n \in S : m <= n
<1> DEFINE R == OpToRel(<, Nat)
<1>1. PICK m \in S : \A n \in S : ~(<<n, m>> \in R)
  <2>1. IsWellFoundedOn(R, Nat)
    BY NatLessThanWellFounded
  <2> HIDE DEF R
  <2> QED BY <2>1, WFMin
<1>2. \A n \in S : ~(n < m)
  BY <1>1 DEF OpToRel
<1>3. \A n \in S : n \in Nat /\ m \in Nat
  OBVIOUS
<1> HIDE DEF R
<1> QED BY <1>2, <1>3

LEMMA Induction ==
    ASSUME NEW S, 0 \in S, \A n \in Nat : n \in S => n + 1 \in S
    PROVE  Nat \subseteq S
<1> SUFFICES ASSUME ~(Nat \subseteq S) PROVE FALSE
  OBVIOUS
<1>1. PICK m \in Nat \ S : \A n \in Nat \ S : m <= n
  <2>1. Nat \ S \in SUBSET Nat /\ Nat \ S # {}
    OBVIOUS
  <2> QED BY <2>1, LeastOf
<1>2. m # 0 /\ m - 1 \in Nat /\ m - 1 \notin Nat \ S
  BY <1>1
<1>3. (m - 1) + 1 \in S
  BY <1>2
<1> QED BY <1>1, <1>2, <1>3

-----------------------------------------------------------------------------
(***************************************************************************)
(* Picked.                                                                 *)
(***************************************************************************)
\* The recursion of Picked has a solution, and Picked is its last value.
LEMMA PickedSteps ==
    ASSUME NEW T, NEW s \in Seq(T), NEW I
    PROVE  \E f : /\ f[0] = <<>> /\ Picked(s, I) = f[Len(s)]
                  /\ \A n \in 1..Len(s) :
                        f[n] = IF n \in I THEN Append(f[n - 1], s[n]) ELSE f[n - 1]
<1> DEFINE Follow(f, k) ==
             [n \in 0..k |-> IF n = 0 THEN <<>>
                             ELSE IF n \in I THEN Append(f[n - 1], s[n]) ELSE f[n - 1]]
           Solves(f, k) == f = Follow(f, k)
           S == {k \in Nat : \E f : Solves(f, k)}
<1>0. ASSUME NEW k \in Nat, NEW f, Solves(f, k)
      PROVE  /\ f[0] = <<>>
             /\ \A n \in 1..k : f[n] = IF n \in I THEN Append(f[n - 1], s[n]) ELSE f[n - 1]
  <2>1. Follow(f, k)[0] = <<>>
    OBVIOUS
  <2>2. \A n \in 1..k :
          Follow(f, k)[n] = IF n \in I THEN Append(f[n - 1], s[n]) ELSE f[n - 1]
    OBVIOUS
  <2>3. f = Follow(f, k)
    BY <1>0
  <2> HIDE DEF Follow
  <2> QED BY <2>1, <2>2, <2>3
<1>1. 0 \in S
  <2>1. Solves([n \in 0..0 |-> <<>>], 0)
    OBVIOUS
  <2> QED BY <2>1
<1>2. ASSUME NEW k \in Nat, k \in S PROVE k + 1 \in S
  <2>1. PICK f : Solves(f, k)
    BY <1>2
  <2> DEFINE g == [n \in 0..k + 1 |->
                     IF n = k + 1 THEN IF k + 1 \in I THEN Append(f[k], s[k + 1]) ELSE f[k]
                     ELSE f[n]]
  <2>2. \A n \in 0..k : g[n] = f[n]
    OBVIOUS
  <2>3. g[k + 1] = IF k + 1 \in I THEN Append(g[k], s[k + 1]) ELSE g[k]
    OBVIOUS
  <2>4. g[0] = <<>>
    BY <1>0, <2>1, <2>2
  <2>5. ASSUME NEW n \in 1..k
        PROVE  g[n] = IF n \in I THEN Append(g[n - 1], s[n]) ELSE g[n - 1]
    <3>1. f[n] = IF n \in I THEN Append(f[n - 1], s[n]) ELSE f[n - 1]
      BY <1>0, <2>1
    <3>2. g[n] = f[n] /\ g[n - 1] = f[n - 1]
      BY <2>2
    <3> QED BY <3>1, <3>2
  <2> DEFINE h == Follow(g, k + 1)
  <2>6. \A n \in 0..k + 1 : g[n] = h[n]
    <3> TAKE n \in 0..k + 1
    <3>1. n = 0 \/ n = k + 1 \/ n \in 1..k
      OBVIOUS
    <3>2. k + 1 # 0 /\ (k + 1) - 1 = k
      OBVIOUS
    <3> HIDE DEF g
    <3> QED BY <3>1, <3>2, <2>3, <2>4, <2>5
  <2>7. g = [n \in 0..k + 1 |-> g[n]] /\ h = [n \in 0..k + 1 |-> h[n]]
    OBVIOUS
  <2>8. g = h
    <3> HIDE DEF g, h
    <3> QED BY <2>6, <2>7
  <2>9. Solves(g, k + 1)
    <3> HIDE DEF g, Follow
    <3> QED BY <2>8
  <2>10. \E f1 : Solves(f1, k + 1)
    <3> HIDE DEF g, Solves
    <3> QED BY <2>9
  <2> HIDE DEF Solves
  <2> QED BY <2>10
<1>3. Len(s) \in S
  <2> HIDE DEF S
  <2> QED BY <1>1, <1>2, Induction, LenProperties
<1> DEFINE f == CHOOSE f : Solves(f, Len(s))
<1>4. Solves(f, Len(s))
  BY <1>3
<1>5. Picked(s, I) = f[Len(s)]
  BY DEF Picked
<1>6. Len(s) \in Nat
  OBVIOUS
<1> HIDE DEF f, Solves
<1> QED BY <1>0, <1>4, <1>5, <1>6

\* f lists the positions of I in order, and r holds what s has there.
Picks(f, r, s, I) ==
    /\ f \in [1..Len(r) -> I]
    /\ \A k, l \in 1..Len(r) : k < l => f[k] < f[l]
    /\ \A i \in I : \E k \in 1..Len(r) : f[k] = i
    /\ \A k \in 1..Len(r) : r[k] = s[f[k]]

\* What is picked is at the given positions, all of it, in order.
LEMMA PickedIs ==
    ASSUME NEW T, NEW s \in Seq(T), NEW I \in SUBSET (1..Len(s))
    PROVE  Picked(s, I) \in Seq(T) /\ \E f : Picks(f, Picked(s, I), s, I)
<1>1. PICK got : /\ got[0] = <<>> /\ Picked(s, I) = got[Len(s)]
                 /\ \A n \in 1..Len(s) :
                       got[n] = IF n \in I THEN Append(got[n - 1], s[n]) ELSE got[n - 1]
  BY PickedSteps
<1> DEFINE Done(n) == got[n] \in Seq(T) /\ \E f : Picks(f, got[n], s, I \cap 1..n)
           S == {n \in Nat : n <= Len(s) => Done(n)}
<1>2. 0 \in S
  <2>1. <<>> \in Seq(T) /\ Len(<<>>) = 0 /\ 1..0 = {} /\ I \cap 1..0 = {}
    OBVIOUS
  <2>2. Picks([k \in {} |-> 0], <<>>, s, {})
    BY <2>1 DEF Picks
  <2> QED BY <1>1, <2>1, <2>2
<1>3. ASSUME NEW n \in Nat, n \in S PROVE n + 1 \in S
  <2> SUFFICES ASSUME n + 1 <= Len(s) PROVE Done(n + 1)
    <3> HIDE DEF Done
    <3> QED OBVIOUS
  <2>1. n <= Len(s) /\ n + 1 \in 1..Len(s) /\ (n + 1) - 1 = n
    OBVIOUS
  <2>2. Done(n)
    BY <1>3, <2>1
  <2>3. PICK f : Picks(f, got[n], s, I \cap 1..n)
    BY <2>2
  <2>4. CASE n + 1 \notin I
    <3>1. got[n + 1] = got[n]
      BY <1>1, <2>1, <2>4
    <3>2. I \cap 1..n + 1 = I \cap 1..n
      BY <2>4
    <3> QED BY <2>2, <3>1, <3>2
  <2>5. CASE n + 1 \in I
    <3> DEFINE r == got[n]
               r1 == got[n + 1]
               J == I \cap 1..n
               g == [k \in 1..Len(r) + 1 |-> IF k <= Len(r) THEN f[k] ELSE n + 1]
    <3>1. r1 = Append(r, s[n + 1]) /\ r \in Seq(T) /\ s[n + 1] \in T /\ Picks(f, r, s, J)
      <4>1. r1 = Append(r, s[n + 1])
        BY <1>1, <2>1, <2>5
      <4>2. s[n + 1] \in T
        BY <2>1, ElementOfSeq
      <4> QED BY <4>1, <4>2, <2>2, <2>3
    <3>2. I \cap 1..n + 1 = J \cup {n + 1}
      BY <2>5
    <3>3. J \subseteq 1..n
      OBVIOUS
    <3> HIDE DEF r, r1, J
    <3>4. /\ r1 \in Seq(T) /\ Len(r1) = Len(r) + 1 /\ Len(r) \in Nat
          /\ r1[Len(r) + 1] = s[n + 1] /\ \A k \in 1..Len(r) : r1[k] = r[k]
      BY <3>1, AppendProperties, LenProperties
    <3>5. \A k \in 1..Len(r) : g[k] = f[k] /\ f[k] \in J
      <4>1. f \in [1..Len(r) -> J]
        BY <3>1 DEF Picks
      <4> QED BY <4>1, <3>4
    <3>6. g[Len(r) + 1] = n + 1
      BY <3>4
    <3>7. g \in [1..Len(r1) -> J \cup {n + 1}]
      <4>1. \A k \in 1..Len(r) + 1 : k \in 1..Len(r) \/ k = Len(r) + 1
        BY <3>4
      <4>2. \A k \in 1..Len(r) + 1 : g[k] \in J \cup {n + 1}
        <5> HIDE DEF g
        <5> QED BY <4>1, <3>5, <3>6
      <4>3. g = [k \in 1..Len(r) + 1 |-> g[k]]
        OBVIOUS
      <4> HIDE DEF g
      <4> QED BY <4>2, <4>3, <3>4
    <3> HIDE DEF g
    <3>8. \A k, l \in 1..Len(r1) : k < l => g[k] < g[l]
      <4> SUFFICES ASSUME NEW k \in 1..Len(r1), NEW l \in 1..Len(r1), k < l PROVE g[k] < g[l]
        OBVIOUS
      <4>1. k \in 1..Len(r)
        BY <3>4
      <4>2. CASE l \in 1..Len(r)
        BY <4>1, <4>2, <3>5, <3>1 DEF Picks
      <4>3. CASE l = Len(r) + 1
        <5>1. g[k] \in 1..n
          BY <4>1, <3>5, <3>3
        <5> QED BY <5>1, <4>3, <3>6
      <4> QED BY <4>2, <4>3, <3>4
    <3>9. \A i \in J \cup {n + 1} : \E k \in 1..Len(r1) : g[k] = i
      <4>1. ASSUME NEW i \in J PROVE \E k \in 1..Len(r1) : g[k] = i
        <5>1. PICK k \in 1..Len(r) : f[k] = i
          BY <3>1 DEF Picks
        <5> QED BY <5>1, <3>4, <3>5
      <4>2. Len(r) + 1 \in 1..Len(r1)
        BY <3>4
      <4> QED BY <4>1, <4>2, <3>6
    <3>10. \A k \in 1..Len(r1) : r1[k] = s[g[k]]
      <4> TAKE k \in 1..Len(r1)
      <4>1. CASE k \in 1..Len(r)
        BY <4>1, <3>4, <3>5, <3>1 DEF Picks
      <4>2. CASE k = Len(r) + 1
        BY <4>2, <3>4, <3>6
      <4> QED BY <4>1, <4>2, <3>4
    <3>11. Picks(g, r1, s, J \cup {n + 1})
      BY <3>7, <3>8, <3>9, <3>10 DEF Picks
    <3> QED BY <3>11, <3>2, <3>4 DEF r1
  <2> QED BY <2>4, <2>5
<1>4. Len(s) \in S
  <2> HIDE DEF S
  <2> QED BY <1>2, <1>3, Induction, LenProperties
<1>5. I \cap 1..Len(s) = I
  OBVIOUS
<1>6. Done(Len(s))
  <2> HIDE DEF Done
  <2> QED BY <1>4
<1> HIDE DEF S
<1> QED BY <1>1, <1>5, <1>6

\* What is picked between two positions is Array.slice.
LEMMA PickedInterval ==
    ASSUME NEW T, NEW s \in Seq(T), NEW a \in 1..Len(s) + 1, NEW b \in a - 1..Len(s)
    PROVE  Picked(s, a..b) = SubSeq(s, a, b)
<1>1. PICK got : /\ got[0] = <<>> /\ Picked(s, a..b) = got[Len(s)]
                 /\ \A n \in 1..Len(s) :
                       got[n] = IF n \in a..b THEN Append(got[n - 1], s[n]) ELSE got[n - 1]
  BY PickedSteps
<1> DEFINE part(n) == IF n <= b THEN SubSeq(s, a, n) ELSE SubSeq(s, a, b)
           S == {n \in Nat : n <= Len(s) => got[n] = part(n)}
<1>0. Len(s) \in Nat /\ a \in Nat /\ b \in Nat /\ a >= 1 /\ b <= Len(s)
  BY LenProperties
<1>2. 0 \in S
  <2>1. part(0) = <<>>
    BY <1>0, SubSeqEmpty
  <2> HIDE DEF part
  <2> QED BY <1>1, <2>1
<1>3. ASSUME NEW n \in Nat, n \in S PROVE n + 1 \in S
  <2> SUFFICES ASSUME n + 1 <= Len(s) PROVE got[n + 1] = part(n + 1)
    OBVIOUS
  <2>1. n + 1 \in 1..Len(s) /\ (n + 1) - 1 = n /\ got[n] = part(n)
    BY <1>3
  <2>2. CASE n + 1 < a
    <3>1. got[n + 1] = got[n]
      BY <1>1, <2>1, <2>2
    <3>2. part(n) = <<>> /\ part(n + 1) = <<>>
      BY <2>2, SubSeqEmpty
    <3> QED BY <2>1, <3>1, <3>2
  <2>3. CASE n + 1 \in a..b
    <3>1. got[n + 1] = Append(SubSeq(s, a, n), s[n + 1])
      <4>1. part(n) = SubSeq(s, a, n)
        BY <1>0, <2>3
      <4> HIDE DEF part
      <4> QED BY <1>1, <2>1, <2>3, <4>1
    <3>2. SubSeq(s, a, n + 1) = SubSeq(s, a, (n + 1) - 1) \o <<s[n + 1]>>
      <4>1. a \in 1..Len(s) /\ n + 1 \in a..Len(s)
        BY <2>1, <2>3
      <4> QED BY <4>1, SubSeqRecursiveSecond
    <3>3. SubSeq(s, a, n) \in Seq(T)
      <4>1. \A i \in a..n : s[i] \in T
        BY <2>3
      <4> QED BY <4>1, SubSeqProperties
    <3>4. Append(SubSeq(s, a, n), s[n + 1]) = SubSeq(s, a, n) \o <<s[n + 1]>>
      BY <3>3, <2>1, AppendIsConcat
    <3> QED BY <2>1, <2>3, <3>1, <3>2, <3>4
  <2>4. CASE n + 1 > b
    <3>1. got[n + 1] = got[n]
      BY <1>1, <2>1, <2>4
    <3> QED BY <2>1, <3>1, <2>4
  <2> QED BY <2>2, <2>3, <2>4, <2>1
<1>4. Len(s) \in S
  <2> HIDE DEF S
  <2> QED BY <1>2, <1>3, Induction, LenProperties
<1>5. got[Len(s)] = part(Len(s))
  <2> HIDE DEF part
  <2> QED BY <1>0, <1>4
<1>6. part(Len(s)) = SubSeq(s, a, b)
  BY <1>0
<1> HIDE DEF S, part
<1> QED BY <1>1, <1>5, <1>6

-----------------------------------------------------------------------------
(***************************************************************************)
(* What the operations do to a list.                                       *)
(***************************************************************************)
LEMMA ListFacts ==
    ASSUME NEW ms \in Seq(Message)
    PROVE  /\ Len(ms) \in Nat /\ DOMAIN ms = 1..Len(ms)
           /\ \A i \in 1..Len(ms) : ms[i] \in Message
BY LenProperties, ElementOfSeq

LEMMA MessageFacts ==
    ASSUME NEW m \in Message
    PROVE  /\ m.covers \subseteq Numbers /\ m.kind \in {"said", "call", "result", "summary"}
           /\ m.of \in 0..MaxMessages /\ m.current \in BOOLEAN
BY DEF Message

LEMMA AnsweredIs ==
    ASSUME NEW ms, NEW n
    PROVE  n \in Answered(ms) <=> \E i \in DOMAIN ms : ms[i].kind = "result" /\ ms[i].of = n
BY DEF Answered, ToSet

LEMMA CoveredIs ==
    ASSUME NEW ms, NEW n
    PROVE  n \in Covered(ms) <=> \E i \in DOMAIN ms : n \in ms[i].covers
BY DEF Covered, ToSet

\* More messages and more deliveries take nothing from a list.
LEMMA SoundLater ==
    ASSUME NEW ms, NEW n \in Nat, NEW D, Sound(ms, n, D),
           NEW k \in Nat, n <= k, NEW E, D \subseteq E
    PROVE  Sound(ms, k, E)
<1>1. \A i \in DOMAIN ms : Meant(ms[i], k)
  BY DEF Sound, Meant
<1>2. Paired(ms, E)
  BY DEF Sound, Paired, Between
<1> QED BY <1>1, <1>2 DEF Sound

LEMMA EmptySound ==
    ASSUME NEW n, NEW D
    PROVE  Sound(<<>>, n, D) /\ AllAnswered(<<>>, 0) /\ Settled(<<>>) /\ Covered(<<>>) = {}
BY EmptySeq DEF Sound, Ordered, Paired, PastIs, AllAnswered, Settled, Covered, ToSet

\* A message that was just added is behind all others.
LEMMA AppendSound ==
    ASSUME NEW ms, NEW n \in Nat, NEW D, Sound(ms, n, D), NEW E, D \subseteq E,
           NEW m \in Message, m.covers = {n + 1}, m.current, m.kind \in {"said", "call", "result"},
           m.kind = "result" => /\ m.of < n + 1
                                /\ \/ Between(m, E)
                                   \/ Len(ms) > 0 /\ ms[Len(ms)].kind = "call"
                                        /\ m.of \in ms[Len(ms)].covers
    PROVE  Sound(Append(ms, m), n + 1, E)
<1> DEFINE t == Append(ms, m)
<1>1. /\ ms \in Seq(Message) /\ Ordered(ms) /\ \A i \in 1..Len(ms) : Meant(ms[i], n + 1)
      /\ Paired(ms, E)
  BY SoundLater, ListFacts DEF Sound
<1>2. Len(ms) \in Nat /\ DOMAIN ms = 1..Len(ms)
  BY <1>1, ListFacts
<1>3. /\ t \in Seq(Message) /\ Len(t) = Len(ms) + 1 /\ t[Len(ms) + 1] = m
      /\ \A i \in 1..Len(ms) : t[i] = ms[i]
  BY <1>1, AppendProperties
<1>4. DOMAIN t = 1..Len(ms) + 1
  BY <1>3, ListFacts
<1> HIDE DEF t
<1>5. \A i \in DOMAIN t : i \in 1..Len(ms) \/ i = Len(ms) + 1
  BY <1>2, <1>4
<1>6. Meant(m, n + 1)
  BY DEF Meant
<1>7. \A i \in DOMAIN t : Meant(t[i], n + 1)
  BY <1>1, <1>3, <1>5, <1>6
<1>8. Ordered(t)
  <2> SUFFICES ASSUME NEW i \in DOMAIN t, NEW j \in DOMAIN t, i < j,
                      NEW x \in t[i].covers, NEW y \in t[j].covers
               PROVE  x < y
    BY DEF Ordered
  <2>1. i \in 1..Len(ms)
    BY <1>2, <1>4
  <2>2. CASE j \in 1..Len(ms)
    BY <2>1, <2>2, <1>1, <1>2, <1>3 DEF Ordered
  <2>3. CASE j = Len(ms) + 1
    <3>1. x \in 1..n
      BY <2>1, <1>2, <1>3 DEF Sound, Meant
    <3> QED BY <3>1, <2>3, <1>3
  <2> QED BY <2>2, <2>3, <1>5
<1>9. Paired(t, E)
  <2> SUFFICES ASSUME NEW i \in DOMAIN t, t[i].kind = "result", ~Between(t[i], E)
               PROVE  i > 1 /\ t[i - 1].kind = "call" /\ t[i].of \in t[i - 1].covers
    BY DEF Paired
  <2>1. CASE i \in 1..Len(ms)
    <3>1. i > 1 /\ ms[i - 1].kind = "call" /\ ms[i].of \in ms[i - 1].covers
      BY <2>1, <1>1, <1>2, <1>3 DEF Paired
    <3>2. i - 1 \in 1..Len(ms)
      BY <3>1, <2>1, <1>2
    <3> QED BY <3>1, <3>2, <2>1, <1>3
  <2>2. CASE i = Len(ms) + 1
    <3>1. /\ t[i] = m /\ Len(ms) > 0
          /\ ms[Len(ms)].kind = "call" /\ m.of \in ms[Len(ms)].covers
      BY <2>2, <1>3
    <3>2. i > 1 /\ i - 1 = Len(ms) /\ i - 1 \in 1..Len(ms)
      BY <3>1, <2>2, <1>2
    <3> QED BY <3>1, <3>2, <1>3
  <2> QED BY <2>1, <2>2, <1>5
<1>10. \E p \in 0..Len(t) : PastIs(t, p)
  <2>1. PICK p \in 0..Len(ms) : PastIs(ms, p)
    BY DEF Sound
  <2>2. \A i \in DOMAIN t : t[i].current <=> i > p
    <3> TAKE i \in DOMAIN t
    <3>1. CASE i \in 1..Len(ms)
      BY <3>1, <2>1, <1>2, <1>3 DEF PastIs
    <3>2. CASE i = Len(ms) + 1
      <4>1. t[i].current
        BY <3>2, <1>3
      <4>2. i > p
        BY <3>2, <1>2
      <4> QED BY <4>1, <4>2
    <3> QED BY <3>1, <3>2, <1>5
  <2>3. p \in 0..Len(t)
    BY <1>2, <1>3
  <2> QED BY <2>2, <2>3 DEF PastIs
<1> QED BY <1>3, <1>7, <1>8, <1>9, <1>10 DEF Sound, t

LEMMA AppendCovers ==
    ASSUME NEW ms \in Seq(Message), NEW m \in Message, m.kind # "summary"
    PROVE  /\ Covered(Append(ms, m)) = Covered(ms) \cup m.covers
           /\ m.kind = "said" /\ Settled(ms) => Settled(Append(ms, m))
           /\ Answered(Append(ms, m)) =
                 Answered(ms) \cup (IF m.kind = "result" THEN {m.of} ELSE {})
           /\ \A k, l : AllAnswered(ms, k)
                 /\ (m.kind = "call" => m.covers = {l} /\ k = 0 /\ ~(\E i \in DOMAIN ms : 0 \in ms[i].covers))
                 /\ (m.kind = "result" => m.of = k)
                 /\ (m.kind = "said" => k = l)
                   => AllAnswered(Append(ms, m), l)
<1> DEFINE t == Append(ms, m)
<1>1. Len(ms) \in Nat /\ DOMAIN ms = 1..Len(ms)
  BY ListFacts
<1>2. /\ t \in Seq(Message) /\ Len(t) = Len(ms) + 1 /\ t[Len(ms) + 1] = m
      /\ \A i \in 1..Len(ms) : t[i] = ms[i]
  BY AppendProperties
<1>3. DOMAIN t = 1..Len(ms) + 1
  BY <1>2, ListFacts
<1> HIDE DEF t
<1>4. \A i \in DOMAIN t : i \in DOMAIN ms \/ i = Len(ms) + 1
  BY <1>1, <1>3
<1>5. DOMAIN ms \subseteq DOMAIN t /\ Len(ms) + 1 \in DOMAIN t
  BY <1>1, <1>3
<1>6. \A i \in DOMAIN ms : t[i] = ms[i]
  BY <1>1, <1>2
<1>7. Covered(t) = Covered(ms) \cup m.covers
  BY <1>2, <1>4, <1>5, <1>6, CoveredIs
<1>8. m.kind = "said" /\ Settled(ms) => Settled(t)
  BY <1>2, <1>4, <1>6 DEF Settled
<1>9. Answered(t) = Answered(ms) \cup (IF m.kind = "result" THEN {m.of} ELSE {})
  <2>1. ASSUME NEW n \in Answered(t)
        PROVE  n \in Answered(ms) \/ (m.kind = "result" /\ m.of = n)
    BY <2>1, <1>2, <1>4, <1>6, AnsweredIs
  <2>2. ASSUME NEW n \in Answered(ms) PROVE n \in Answered(t)
    BY <2>2, <1>5, <1>6, AnsweredIs
  <2>3. m.kind = "result" => m.of \in Answered(t)
    BY <1>2, <1>5, AnsweredIs
  <2> QED BY <2>1, <2>2, <2>3
<1>10. ASSUME NEW k, NEW l, AllAnswered(ms, k),
              m.kind = "call" =>
                m.covers = {l} /\ k = 0 /\ ~(\E i \in DOMAIN ms : 0 \in ms[i].covers),
              m.kind = "result" => m.of = k, m.kind = "said" => k = l
       PROVE  AllAnswered(t, l)
  <2> SUFFICES ASSUME NEW i \in DOMAIN t, t[i].kind = "call", NEW x \in t[i].covers
               PROVE  x \in Answered(t) \cup {l}
    BY DEF AllAnswered
  <2>1. CASE i \in DOMAIN ms
    <3>1. x \in Answered(ms) \cup {k}
      BY <2>1, <1>6, <1>10 DEF AllAnswered
    <3>2. x \in Answered(ms) => x \in Answered(t)
      BY <1>9
    <3>3. m.kind \in {"said", "call", "result", "summary"}
      BY MessageFacts
    <3>4. CASE m.kind = "call"
      BY <3>1, <3>2, <3>4, <2>1, <1>6, <1>10
    <3>5. CASE m.kind = "result"
      BY <3>1, <3>2, <3>5, <1>9, <1>10
    <3>6. CASE m.kind = "said"
      BY <3>1, <3>2, <3>6, <1>10
    <3> QED BY <3>3, <3>4, <3>5, <3>6
  <2>2. CASE i = Len(ms) + 1
    BY <2>2, <1>2, <1>10
  <2> QED BY <2>1, <2>2, <1>4
<1> QED BY <1>7, <1>8, <1>9, <1>10 DEF t

-----------------------------------------------------------------------------
(***************************************************************************)
(* Commit: the open calls go, the rest is past.                            *)
(***************************************************************************)
\* f lists the positions that Commit keeps.
CommitOf(f, c, ms) ==
    /\ f \in [1..Len(c) -> DOMAIN ms \ Orphans(ms)]
    /\ \A k, l \in 1..Len(c) : k < l => f[k] < f[l]
    /\ \A i \in DOMAIN ms \ Orphans(ms) : \E k \in 1..Len(c) : f[k] = i
    /\ \A k \in 1..Len(c) : c[k] = [ms[f[k]] EXCEPT !.current = FALSE]

LEMMA CommitPicks ==
    ASSUME NEW ms \in Seq(Message)
    PROVE  Commit(ms) \in Seq(Message) /\ \E f : CommitOf(f, Commit(ms), ms)
<1> DEFINE I == DOMAIN ms \ Orphans(ms)
           r == StripOrphans(ms)
           c == Commit(ms)
<1>1. Len(ms) \in Nat /\ DOMAIN ms = 1..Len(ms) /\ \A i \in 1..Len(ms) : ms[i] \in Message
  BY ListFacts
<1>2. I \in SUBSET (1..Len(ms)) /\ r = Picked(ms, I)
  BY <1>1 DEF StripOrphans
<1>3. r \in Seq(Message) /\ \E f : Picks(f, r, ms, I)
  <2> HIDE DEF I, r
  <2> QED BY <1>2, PickedIs
<1>4. PICK f : Picks(f, r, ms, I)
  BY <1>3
<1>5. c = [i \in DOMAIN r |-> [r[i] EXCEPT !.current = FALSE]]
  BY DEF Commit
<1> HIDE DEF r, c
<1>6. Len(r) \in Nat /\ DOMAIN r = 1..Len(r) /\ \A i \in 1..Len(r) : r[i] \in Message
  BY <1>3, ListFacts
<1>7. \A i \in 1..Len(r) : [r[i] EXCEPT !.current = FALSE] \in Message
  BY <1>6 DEF Message
<1>8. c \in Seq(Message)
  <2> DEFINE e(i) == [r[i] EXCEPT !.current = FALSE]
  <2>1. \A i \in 1..Len(r) : e(i) \in Message
    BY <1>7
  <2>2. [i \in 1..Len(r) |-> e(i)] \in Seq(Message)
    <3> HIDE DEF e
    <3> QED BY <2>1, <1>6, IsASeq
  <2> QED BY <2>2, <1>5, <1>6
<1>9. DOMAIN c = 1..Len(c) /\ Len(c) \in Nat
  BY <1>8, ListFacts
<1>10. 1..Len(c) = 1..Len(r)
  BY <1>5, <1>6, <1>9
<1>11. \A k \in 1..Len(c) : c[k] = [ms[f[k]] EXCEPT !.current = FALSE]
  <2>1. \A k \in 1..Len(r) : r[k] = ms[f[k]]
    BY <1>4 DEF Picks
  <2> QED BY <2>1, <1>5, <1>6, <1>10
<1>12. /\ f \in [1..Len(r) -> I]
       /\ \A k, l \in 1..Len(r) : k < l => f[k] < f[l]
       /\ \A i \in I : \E k \in 1..Len(r) : f[k] = i
  BY <1>4 DEF Picks
<1>13. CommitOf(f, c, ms)
  BY <1>10, <1>11, <1>12 DEF CommitOf
<1> QED BY <1>8, <1>13 DEF c

\* The same, in the terms the other lemmas use.
LEMMA CommitKeeps ==
    ASSUME NEW ms \in Seq(Message), NEW f, CommitOf(f, Commit(ms), ms)
    PROVE  /\ DOMAIN Commit(ms) = 1..Len(Commit(ms)) /\ Len(Commit(ms)) \in Nat
           /\ \A k \in DOMAIN Commit(ms) :
                /\ f[k] \in 1..Len(ms) \ Orphans(ms)
                /\ Commit(ms)[k].covers = ms[f[k]].covers
                /\ Commit(ms)[k].kind = ms[f[k]].kind
                /\ Commit(ms)[k].of = ms[f[k]].of
                /\ ~Commit(ms)[k].current
           /\ \A i \in 1..Len(ms) \ Orphans(ms) : \E k \in DOMAIN Commit(ms) : f[k] = i
           /\ Answered(Commit(ms)) = Answered(ms)
<1> DEFINE c == Commit(ms)
<1>1. c \in Seq(Message) /\ CommitOf(f, c, ms)
  BY CommitPicks
<1> HIDE DEF c
<1>2. DOMAIN c = 1..Len(c) /\ Len(c) \in Nat /\ DOMAIN ms = 1..Len(ms)
  BY <1>1, ListFacts
<1>3. f \in [1..Len(c) -> DOMAIN ms \ Orphans(ms)]
  BY <1>1 DEF CommitOf
<1>4. \A k \in DOMAIN c :
        /\ f[k] \in 1..Len(ms) \ Orphans(ms)
        /\ c[k].covers = ms[f[k]].covers /\ c[k].kind = ms[f[k]].kind
        /\ c[k].of = ms[f[k]].of /\ ~c[k].current
  <2> TAKE k \in DOMAIN c
  <2>1. f[k] \in 1..Len(ms) \ Orphans(ms)
    BY <1>2, <1>3
  <2>2. ms[f[k]] \in Message /\ c[k] = [ms[f[k]] EXCEPT !.current = FALSE]
    BY <1>1, <1>2, <2>1, ListFacts DEF CommitOf
  <2> QED BY <2>1, <2>2 DEF Message
<1>5. \A i \in 1..Len(ms) \ Orphans(ms) : \E k \in DOMAIN c : f[k] = i
  BY <1>1, <1>2 DEF CommitOf
<1>6. ASSUME NEW n \in Answered(c) PROVE n \in Answered(ms)
  <2>1. PICK k \in DOMAIN c : c[k].kind = "result" /\ c[k].of = n
    BY <1>6, AnsweredIs
  <2>2. f[k] \in DOMAIN ms /\ ms[f[k]].kind = "result" /\ ms[f[k]].of = n
    BY <2>1, <1>2, <1>4
  <2> QED BY <2>2, AnsweredIs
<1>7. ASSUME NEW n \in Answered(ms) PROVE n \in Answered(c)
  <2>1. PICK i \in DOMAIN ms : ms[i].kind = "result" /\ ms[i].of = n
    BY <1>7, AnsweredIs
  <2>2. i \in 1..Len(ms) \ Orphans(ms)
    BY <2>1, <1>2 DEF Orphans, IsOrphan
  <2>3. PICK k \in DOMAIN c : f[k] = i
    BY <2>2, <1>5
  <2>4. c[k].kind = "result" /\ c[k].of = n
    BY <2>1, <2>3, <1>4
  <2> QED BY <2>4, AnsweredIs
<1>8. Answered(c) = Answered(ms)
  BY <1>6, <1>7
<1> QED BY <1>2, <1>4, <1>5, <1>8 DEF c

\* What was committed is sound, answered and past.
LEMMA CommitSound ==
    ASSUME NEW ms, NEW n, NEW D, Sound(ms, n, D)
    PROVE  Sound(Commit(ms), n, D) /\ AllAnswered(Commit(ms), 0) /\ Settled(Commit(ms))
<1> DEFINE c == Commit(ms)
<1>1. ms \in Seq(Message) /\ c \in Seq(Message)
  BY CommitPicks DEF Sound
<1>2. PICK f : CommitOf(f, c, ms)
  BY <1>1, CommitPicks
<1>3. /\ DOMAIN c = 1..Len(c) /\ Len(c) \in Nat
      /\ \A k \in DOMAIN c :
           /\ f[k] \in 1..Len(ms) \ Orphans(ms)
           /\ c[k].covers = ms[f[k]].covers /\ c[k].kind = ms[f[k]].kind
           /\ c[k].of = ms[f[k]].of /\ ~c[k].current
      /\ \A i \in 1..Len(ms) \ Orphans(ms) : \E k \in DOMAIN c : f[k] = i
      /\ Answered(c) = Answered(ms)
  BY <1>1, <1>2, CommitKeeps
<1>4. \A k, l \in DOMAIN c : k < l => f[k] < f[l]
  BY <1>2, <1>3 DEF CommitOf
<1> HIDE DEF c
<1>5. DOMAIN ms = 1..Len(ms) /\ Len(ms) \in Nat
  BY <1>1, ListFacts
<1>6. Ordered(c)
  <2> SUFFICES ASSUME NEW i \in DOMAIN c, NEW j \in DOMAIN c, i < j,
                      NEW x \in c[i].covers, NEW y \in c[j].covers
               PROVE  x < y
    BY DEF Ordered
  <2>1. f[i] < f[j] /\ f[i] \in DOMAIN ms /\ f[j] \in DOMAIN ms
    BY <1>3, <1>4, <1>5
  <2>2. x \in ms[f[i]].covers /\ y \in ms[f[j]].covers
    BY <1>3
  <2> QED BY <2>1, <2>2 DEF Sound, Ordered
<1>7. \A k \in DOMAIN c : Meant(c[k], n)
  <2> TAKE k \in DOMAIN c
  <2>1. Meant(ms[f[k]], n)
    BY <1>3, <1>5 DEF Sound
  <2> QED BY <2>1, <1>3 DEF Meant
<1>8. Paired(c, D)
  <2> SUFFICES ASSUME NEW k \in DOMAIN c, c[k].kind = "result", ~Between(c[k], D)
               PROVE  k > 1 /\ c[k - 1].kind = "call" /\ c[k].of \in c[k - 1].covers
    BY DEF Paired
  <2> DEFINE i == f[k]
  <2>1. i \in DOMAIN ms /\ ms[i].kind = "result" /\ ms[i].of = c[k].of
    BY <1>3, <1>5
  <2>2. ~Between(ms[i], D)
    BY <1>3 DEF Between
  <2>3. i > 1 /\ ms[i - 1].kind = "call" /\ ms[i].of \in ms[i - 1].covers
    BY <2>1, <2>2 DEF Sound, Paired
  <2>4. i - 1 \in 1..Len(ms)
    BY <2>1, <2>3, <1>5
  <2>5. i - 1 \notin Orphans(ms)
    <3>1. ms[i].of \in Answered(ms)
      BY <2>1, AnsweredIs
    <3> QED BY <3>1, <2>3 DEF Orphans, IsOrphan
  <2>6. PICK l \in DOMAIN c : f[l] = i - 1
    BY <2>4, <2>5, <1>3
  <2>7. l = k - 1
    <3>1. k \in Nat /\ l \in Nat /\ i \in Nat
      BY <1>3, <1>5, <2>1
    <3>2. l < k
      <4>1. f[l] < f[k]
        BY <2>6, <3>1
      <4>2. ~(k < l)
        BY <4>1, <1>4, <2>6, <3>1
      <4>3. k # l
        BY <4>1, <2>6, <3>1
      <4> QED BY <4>2, <4>3, <3>1
    <3>3. ASSUME l < k - 1 PROVE FALSE
      <4>1. k - 1 \in DOMAIN c
        BY <3>1, <3>3, <1>3
      <4>2. f[l] < f[k - 1] /\ f[k - 1] < f[k] /\ f[k - 1] \in Nat
        BY <4>1, <3>1, <3>3, <1>3, <1>4, <1>5
      <4> QED BY <4>2, <2>6, <3>1
    <3> QED BY <3>1, <3>2, <3>3
  <2>8. k > 1
    BY <2>7, <1>3
  <2>9. c[l].kind = "call" /\ c[l].covers = ms[i - 1].covers
    BY <2>3, <2>6, <1>3
  <2> QED BY <2>1, <2>3, <2>7, <2>8, <2>9
<1>9. PastIs(c, Len(c)) /\ Len(c) \in 0..Len(c)
  BY <1>3 DEF PastIs
<1>10. AllAnswered(c, 0)
  <2> SUFFICES ASSUME NEW k \in DOMAIN c, c[k].kind = "call", NEW x \in c[k].covers
               PROVE  x \in Answered(c)
    BY DEF AllAnswered
  <2>1. f[k] \in DOMAIN ms /\ f[k] \notin Orphans(ms)
    BY <1>3, <1>5
  <2>2. ms[f[k]].kind = "call" /\ x \in ms[f[k]].covers
    BY <1>3
  <2>3. ms[f[k]].covers \cap Answered(ms) # {}
    BY <2>1, <2>2 DEF Orphans, IsOrphan
  <2>4. ms[f[k]].covers = {x}
    BY <2>1, <2>2 DEF Sound, Meant
  <2> QED BY <2>3, <2>4, <1>3
<1>11. Settled(c)
  BY <1>3 DEF Settled
<1> QED BY <1>1, <1>6, <1>7, <1>8, <1>9, <1>10, <1>11 DEF Sound, c

\* Only what open calls cover goes.
LEMMA CommitCovers ==
    ASSUME NEW ms \in Seq(Message)
    PROVE  /\ Covered(ms) \ UNION {ms[i].covers : i \in Orphans(ms)} \subseteq Covered(Commit(ms))
           /\ Covered(StripOrphans(ms)) \subseteq Covered(Commit(ms))
<1>1. PICK f : CommitOf(f, Commit(ms), ms)
  BY CommitPicks
<1>2. /\ \A k \in DOMAIN Commit(ms) : Commit(ms)[k].covers = ms[f[k]].covers
      /\ \A i \in 1..Len(ms) \ Orphans(ms) : \E k \in DOMAIN Commit(ms) : f[k] = i
  BY <1>1, CommitKeeps
<1>3. ASSUME NEW x \in Covered(ms), x \notin UNION {ms[i].covers : i \in Orphans(ms)}
      PROVE  x \in Covered(Commit(ms))
  <2>1. PICK i \in DOMAIN ms : x \in ms[i].covers
    BY <1>3, CoveredIs
  <2>2. i \in 1..Len(ms) \ Orphans(ms)
    BY <2>1, <1>3, ListFacts
  <2>3. PICK k \in DOMAIN Commit(ms) : f[k] = i
    BY <2>2, <1>2
  <2>4. x \in Commit(ms)[k].covers
    BY <2>1, <2>3, <1>2
  <2> QED BY <2>4, CoveredIs
<1>4. ASSUME NEW x \in Covered(StripOrphans(ms)) PROVE x \in Covered(Commit(ms))
  <2> DEFINE r == StripOrphans(ms)
  <2>1. PICK k \in DOMAIN r : x \in r[k].covers
    BY <1>4, CoveredIs
  <2>2. r \in Seq(Message)
    <3>1. DOMAIN ms \ Orphans(ms) \in SUBSET (1..Len(ms))
      BY ListFacts
    <3> QED BY <3>1, PickedIs DEF StripOrphans
  <2>3. r[k] \in Message /\ Commit(ms) = [i \in DOMAIN r |-> [r[i] EXCEPT !.current = FALSE]]
    BY <2>1, <2>2, ListFacts DEF Commit
  <2>4. k \in DOMAIN Commit(ms) /\ x \in Commit(ms)[k].covers
    BY <2>1, <2>3 DEF Message
  <2> QED BY <2>4, CoveredIs
<1> QED BY <1>3, <1>4

\* A second commit finds nothing to do.
LEMMA CommitAgain ==
    ASSUME NEW ms, NEW n, NEW D, Sound(ms, n, D)
    PROVE  Commit(Commit(ms)) = Commit(ms)
<1> DEFINE c == Commit(ms)
<1>1. c \in Seq(Message) /\ Sound(c, n, D) /\ AllAnswered(c, 0)
  BY CommitSound DEF Sound
<1>2. PICK f : CommitOf(f, c, ms)
  BY CommitPicks DEF Sound
<1>3. \A k \in DOMAIN c : ~c[k].current
  BY <1>2, CommitKeeps DEF Sound
<1> HIDE DEF c
<1>4. DOMAIN c = 1..Len(c) /\ Len(c) \in Nat /\ \A i \in 1..Len(c) : c[i] \in Message
  BY <1>1, ListFacts
<1>5. Orphans(c) = {}
  <2> SUFFICES ASSUME NEW k \in DOMAIN c, c[k].kind = "call", c[k].covers \cap Answered(c) = {}
               PROVE  FALSE
    BY DEF Orphans, IsOrphan
  <2>1. c[k].covers # {} /\ 0 \notin c[k].covers
    <3>1. c[k].covers # {} /\ c[k].covers \subseteq Numbers
      BY <1>1, <1>4, MessageFacts DEF Sound, Meant
    <3> QED BY <3>1, SessionHistoryAssumption DEF Numbers
  <2>2. c[k].covers \subseteq Answered(c) \cup {0}
    BY <1>1 DEF AllAnswered
  <2> QED BY <2>1, <2>2
<1>6. StripOrphans(c) = c
  <2>1. DOMAIN c \ Orphans(c) = 1..Len(c)
    BY <1>4, <1>5
  <2>2. Picked(c, 1..Len(c)) = SubSeq(c, 1, Len(c))
    <3>1. 1 \in 1..Len(c) + 1 /\ Len(c) \in 1 - 1..Len(c)
      BY <1>4
    <3> QED BY <1>1, <3>1, PickedInterval
  <2> QED BY <2>1, <2>2, <1>1, SubSeqFull DEF StripOrphans
<1>7. \A i \in DOMAIN c : [c[i] EXCEPT !.current = FALSE] = c[i]
  BY <1>3, <1>4 DEF Message
<1>8. Commit(c) = [i \in DOMAIN c |-> c[i]]
  BY <1>6, <1>7 DEF Commit
<1>9. c = [i \in DOMAIN c |-> c[i]]
  BY <1>1, <1>4, LenProperties
<1> QED BY <1>8, <1>9 DEF c

-----------------------------------------------------------------------------
(***************************************************************************)
(* The optimizers.                                                         *)
(***************************************************************************)
\* The past is a prefix, so the compressor moves nothing.
LEMMA PastIsPrefix ==
    ASSUME NEW ms \in Seq(Message), NEW p \in 0..Len(ms), PastIs(ms, p)
    PROVE  /\ Past(ms) = SubSeq(ms, 1, p) /\ Current(ms) = SubSeq(ms, p + 1, Len(ms))
           /\ Compressed(ms) = ms
<1>1. Len(ms) \in Nat /\ DOMAIN ms = 1..Len(ms)
  BY ListFacts
<1>2. {i \in DOMAIN ms : ~ms[i].current} = 1..p
  BY <1>1 DEF PastIs
<1>3. {i \in DOMAIN ms : ms[i].current} = p + 1..Len(ms)
  BY <1>1 DEF PastIs
<1>4. Past(ms) = SubSeq(ms, 1, p)
  <2>1. 1 \in 1..Len(ms) + 1 /\ p \in 1 - 1..Len(ms)
    BY <1>1
  <2> QED BY <1>2, <2>1, PickedInterval DEF Past
<1>5. Current(ms) = SubSeq(ms, p + 1, Len(ms))
  <2>1. p + 1 \in 1..Len(ms) + 1 /\ Len(ms) \in (p + 1) - 1..Len(ms)
    BY <1>1
  <2> QED BY <1>3, <2>1, PickedInterval DEF Current
<1>6. SubSeq(ms, 1, p) \o SubSeq(ms, p + 1, Len(ms)) = ms
  <2>1. 1 \in 1..Len(ms) + 1 /\ p \in 1 - 1..Len(ms) /\ Len(ms) \in p..Len(ms)
    BY <1>1
  <2> QED BY <2>1, ConcatAdjacentSubSeq, SubSeqFull
<1> QED BY <1>4, <1>5, <1>6 DEF Compressed

\* The split moves back over calls only, and stops behind a message that is not a call
\* whose result is preserved.
LEMMA SafeSplitIs ==
    ASSUME NEW past, NEW upTo \in Nat
    PROVE  /\ SafeSplit(past, upTo) \in 0..upTo
           /\ \A i \in SafeSplit(past, upTo) + 1..upTo : past[i].kind = "call"
           /\ SafeSplit(past, upTo) # 0 /\ past[SafeSplit(past, upTo)].kind = "call" =>
                past[SafeSplit(past, upTo)].covers
                  \cap Answered(SubSeq(past, upTo + 1, Len(past))) = {}
<1> DEFINE preserved == Answered(SubSeq(past, upTo + 1, Len(past)))
           cut(i) == past[i].kind = "call" /\ past[i].covers \cap preserved # {}
           stops(n, k) == (\A i \in n + 1..k : cut(i)) /\ (n = 0 \/ ~cut(n))
           S == {k \in Nat : \E n \in 0..k : stops(n, k)}
<1>1. SafeSplit(past, upTo) = CHOOSE n \in 0..upTo : stops(n, upTo)
  BY DEF SafeSplit
<1> HIDE DEF cut
<1>2. 0 \in S
  <2>1. stops(0, 0)
    OBVIOUS
  <2> QED BY <2>1
<1>3. ASSUME NEW k \in Nat, k \in S PROVE k + 1 \in S
  <2>1. CASE ~cut(k + 1)
    <3>1. stops(k + 1, k + 1)
      BY <2>1
    <3> QED BY <3>1
  <2>2. CASE cut(k + 1)
    <3>1. PICK n \in 0..k : stops(n, k)
      BY <1>3
    <3>2. stops(n, k + 1)
      <4>1. \A i \in n + 1..k + 1 : i \in n + 1..k \/ i = k + 1
        OBVIOUS
      <4> QED BY <4>1, <3>1, <2>2
    <3> QED BY <3>2
  <2> QED BY <2>1, <2>2
<1>4. upTo \in S
  <2> HIDE DEF S
  <2> QED BY <1>2, <1>3, Induction
<1>5. \E n \in 0..upTo : stops(n, upTo)
  BY <1>4
<1>6. SafeSplit(past, upTo) \in 0..upTo /\ stops(SafeSplit(past, upTo), upTo)
  <2> HIDE DEF stops
  <2> QED BY <1>1, <1>5
<1> HIDE DEF preserved, SafeSplit
<1>7. /\ SafeSplit(past, upTo) \in 0..upTo
      /\ \A i \in SafeSplit(past, upTo) + 1..upTo : cut(i)
      /\ SafeSplit(past, upTo) = 0 \/ ~cut(SafeSplit(past, upTo))
  BY <1>6
<1> QED BY <1>7 DEF cut, preserved

\* What an optimizer may put in the place of ms.
Replaces(t, ms, n, D) ==
    Sound(t, n, D) /\ AllAnswered(t, 0) /\ Settled(t) /\ Covered(t) = Covered(ms)

\* A list whose first messages a summary replaces, split where no pair is cut.
LEMMA Replaced ==
    ASSUME NEW ms, NEW n, NEW D, Sound(ms, n, D), AllAnswered(ms, 0), Settled(ms),
           NEW p \in 0..Len(ms), PastIs(ms, p), NEW split \in 1..p,
           split < Len(ms) /\ ms[split + 1].kind = "result" /\ ~Between(ms[split + 1], D)
             => ms[split].kind # "call" \/ ms[split + 1].of \notin ms[split].covers,
           NEW summary \in Message, summary.kind = "summary", ~summary.current,
           summary.covers = Covered(SubSeq(ms, 1, split)),
           NEW t, t = <<summary>> \o SubSeq(ms, split + 1, Len(ms))
    PROVE  Replaces(t, ms, n, D)
<1>1. ms \in Seq(Message) /\ Len(ms) \in Nat /\ DOMAIN ms = 1..Len(ms)
      /\ \A i \in 1..Len(ms) : ms[i] \in Message
  BY ListFacts DEF Sound
<1>0. split \in Nat /\ p \in Nat /\ 1 <= split /\ split <= p /\ p <= Len(ms)
  BY <1>1
<1>2. /\ SubSeq(ms, split + 1, Len(ms)) \in Seq(Message)
      /\ Len(SubSeq(ms, split + 1, Len(ms))) = Len(ms) - split
      /\ \A k \in 1..Len(ms) - split : SubSeq(ms, split + 1, Len(ms))[k] = ms[split + k]
  <2>1. split + 1 \in Int /\ Len(ms) \in Int /\ split \in Int /\ split <= Len(ms)
    BY <1>1
  <2>2. \A i \in split + 1..Len(ms) : ms[i] \in Message
    BY <1>1, <2>1
  <2>3. /\ SubSeq(ms, split + 1, Len(ms)) \in Seq(Message)
        /\ Len(SubSeq(ms, split + 1, Len(ms))) =
             IF split + 1 <= Len(ms) THEN Len(ms) - (split + 1) + 1 ELSE 0
        /\ \A i \in 1..Len(ms) - (split + 1) + 1 :
             SubSeq(ms, split + 1, Len(ms))[i] = ms[(split + 1) + i - 1]
    BY <2>1, <2>2, SubSeqProperties
  <2>4. \A k \in 1..Len(ms) - split :
          k \in 1..Len(ms) - (split + 1) + 1 /\ (split + 1) + k - 1 = split + k
    <3>1. Len(ms) - (split + 1) + 1 = Len(ms) - split
      BY <1>0, <1>1
    <3>2. \A k \in Nat : (split + 1) + k - 1 = split + k
      BY <1>0
    <3> QED BY <3>1, <3>2, <1>0, <1>1
  <2> QED BY <2>1, <2>3, <2>4
<1>3. <<summary>> \in Seq(Message) /\ Len(<<summary>>) = 1 /\ <<summary>>[1] = summary
  OBVIOUS
<1>4. /\ t \in Seq(Message) /\ Len(t) = 1 + (Len(ms) - split) /\ t[1] = summary
      /\ \A k \in 2..Len(t) : t[k] = ms[split + k - 1]
  <2>1. /\ t \in Seq(Message) /\ Len(t) = 1 + (Len(ms) - split)
        /\ \A k \in 1..1 + (Len(ms) - split) :
             t[k] = IF k <= 1 THEN <<summary>>[k] ELSE SubSeq(ms, split + 1, Len(ms))[k - 1]
    BY <1>2, <1>3, ConcatProperties
  <2>2. t[1] = summary
    BY <2>1, <1>1, <1>3
  <2>3. \A k \in 2..Len(t) : t[k] = ms[split + k - 1]
    <3> TAKE k \in 2..Len(t)
    <3>1. t[k] = SubSeq(ms, split + 1, Len(ms))[k - 1] /\ k - 1 \in 1..Len(ms) - split
      BY <2>1, <1>1
    <3>2. split + (k - 1) = split + k - 1
      BY <1>1
    <3> QED BY <3>1, <3>2, <1>2
  <2> QED BY <2>1, <2>2, <2>3
<1>5. /\ DOMAIN t = 1..Len(t) /\ Len(t) \in Nat /\ Len(t) >= 1
      /\ \A k \in 2..Len(t) : split + k - 1 \in split + 1..Len(ms) /\ split + k - 1 \in DOMAIN ms
      /\ \A k \in DOMAIN t : k = 1 \/ k \in 2..Len(t)
      /\ 1 \in DOMAIN t
  <2>1. DOMAIN t = 1..Len(t)
    BY <1>4, ListFacts
  <2> QED BY <2>1, <1>4, <1>1
<1>6. \A i \in split + 1..Len(ms) :
        i - split + 1 \in 2..Len(t) /\ i - split + 1 \in DOMAIN t /\ t[i - split + 1] = ms[i]
  <2> TAKE i \in split + 1..Len(ms)
  <2>1. i - split + 1 \in 2..Len(t) /\ i - split + 1 \in DOMAIN t
    BY <1>1, <1>4, <1>5
  <2>2. split + (i - split + 1) - 1 = i
    BY <1>1
  <2> QED BY <2>1, <2>2, <1>4
<1>7. \A x : x \in summary.covers <=> \E i \in 1..split : x \in ms[i].covers
  <2>1. /\ SubSeq(ms, 1, split) \in Seq(Message) /\ Len(SubSeq(ms, 1, split)) = split
        /\ \A i \in 1..split : SubSeq(ms, 1, split)[i] = ms[i]
    <3>1. 1 \in Int /\ split \in Int /\ 1 <= split /\ split <= Len(ms)
          /\ \A i \in 1..split : ms[i] \in Message
      BY <1>1
    <3>2. split - 1 + 1 = split /\ \A i \in 1..split : 1 + i - 1 = i
      BY <3>1
    <3> QED BY <3>1, <3>2, SubSeqProperties
  <2>2. DOMAIN SubSeq(ms, 1, split) = 1..split
    BY <2>1, ListFacts
  <2> QED BY <2>1, <2>2, CoveredIs
<1>8. \A i \in 1..split : i \in DOMAIN ms
  BY <1>1
<1>9. Ordered(t)
  <2> SUFFICES ASSUME NEW k \in DOMAIN t, NEW l \in DOMAIN t, k < l,
                      NEW x \in t[k].covers, NEW y \in t[l].covers
               PROVE  x < y
    BY DEF Ordered
  <2>1. l \in 2..Len(t) /\ y \in ms[split + l - 1].covers
    <3>1. l \in 2..Len(t)
      BY <1>5
    <3>2. t[l] = ms[split + l - 1]
      BY <1>4, <3>1
    <3> QED BY <3>1, <3>2
  <2>2. CASE k = 1
    <3>1. PICK i \in 1..split : x \in ms[i].covers
      BY <2>2, <1>4, <1>7
    <3>2. i \in DOMAIN ms /\ split + l - 1 \in DOMAIN ms /\ i < split + l - 1
      BY <2>1, <1>5, <1>8
    <3> QED BY <2>1, <3>1, <3>2 DEF Sound, Ordered
  <2>3. CASE k \in 2..Len(t)
    <3>1. x \in ms[split + k - 1].covers
      BY <2>3, <1>4
    <3>2. split + k - 1 \in DOMAIN ms /\ split + l - 1 \in DOMAIN ms
      BY <2>1, <2>3, <1>5
    <3>3. split + k - 1 < split + l - 1
      BY <2>1, <2>3, <1>0
    <3> QED BY <2>1, <3>1, <3>2, <3>3 DEF Sound, Ordered
  <2> QED BY <2>2, <2>3, <1>5
<1>10. \A k \in DOMAIN t : Meant(t[k], n)
  <2> TAKE k \in DOMAIN t
  <2>1. CASE k \in 2..Len(t)
    BY <2>1, <1>4, <1>5 DEF Sound
  <2>2. CASE k = 1
    <3>1. Meant(ms[1], n) /\ 1 \in 1..split
      BY <1>8 DEF Sound
    <3>2. summary.covers # {}
      BY <3>1, <1>7 DEF Meant
    <3>3. summary.covers \subseteq 1..n
      <4> SUFFICES ASSUME NEW x \in summary.covers PROVE x \in 1..n
        OBVIOUS
      <4>1. PICK i \in 1..split : x \in ms[i].covers
        BY <1>7
      <4> QED BY <4>1, <1>8 DEF Sound, Meant
    <3> QED BY <3>2, <3>3, <2>2, <1>4 DEF Meant
  <2> QED BY <2>1, <2>2, <1>5
<1>11. Paired(t, D)
  <2> SUFFICES ASSUME NEW k \in DOMAIN t, t[k].kind = "result", ~Between(t[k], D)
               PROVE  k > 1 /\ t[k - 1].kind = "call" /\ t[k].of \in t[k - 1].covers
    BY DEF Paired
  <2> DEFINE i == split + k - 1
  <2>1. k \in 2..Len(t) /\ t[k] = ms[i]
    BY <1>4, <1>5
  <2>2. i \in DOMAIN ms /\ ms[i - 1].kind = "call" /\ ms[i].of \in ms[i - 1].covers
    BY <2>1, <1>5 DEF Sound, Paired
  <2>3. CASE k = 2
    <3>1. i = split + 1 /\ i - 1 = split /\ split < Len(ms)
      BY <2>1, <2>3, <1>0, <1>1, <1>5
    <3> QED BY <3>1, <2>1, <2>2
  <2>4. CASE k # 2
    <3>1. k - 1 \in 2..Len(t) /\ split + (k - 1) - 1 = i - 1
      <4>1. Len(t) \in Nat /\ k \in 2..Len(t)
        BY <2>1, <1>5
      <4>2. k - 1 \in 2..Len(t)
        BY <2>4, <4>1
      <4>3. \A x \in Nat : split + (x - 1) - 1 = (split + x - 1) - 1
        BY <1>0
      <4>4. k \in Nat
        BY <4>1
      <4> QED BY <4>2, <4>3, <4>4
    <3>2. t[k - 1] = ms[i - 1]
      BY <3>1, <1>4
    <3>3. k > 1
      BY <2>1, <1>5
    <3> HIDE DEF i
    <3> QED BY <2>1, <2>2, <3>2, <3>3
  <2> QED BY <2>3, <2>4
<1>12. \E q \in 0..Len(t) : PastIs(t, q)
  <2> DEFINE q == p - split + 1
  <2>1. q \in 0..Len(t)
    BY <1>1, <1>4
  <2>2. ASSUME NEW k \in DOMAIN t PROVE t[k].current <=> k > q
    <3>1. CASE k = 1
      BY <3>1, <1>4, <1>1
    <3>2. CASE k \in 2..Len(t)
      <4>1. t[k].current <=> split + k - 1 > p
        BY <3>2, <1>4, <1>5 DEF PastIs
      <4>2. split + k - 1 > p <=> k > q
        BY <3>2, <1>1, <1>4
      <4> QED BY <4>1, <4>2
    <3> QED BY <3>1, <3>2, <1>5
  <2> QED BY <2>1, <2>2 DEF PastIs
<1>13. AllAnswered(t, 0)
  <2> SUFFICES ASSUME NEW k \in DOMAIN t, t[k].kind = "call", NEW x \in t[k].covers
               PROVE  x \in Answered(t)
    BY DEF AllAnswered
  <2> DEFINE i == split + k - 1
  <2>1. k \in 2..Len(t) /\ t[k] = ms[i] /\ i \in split + 1..Len(ms) /\ i \in DOMAIN ms
    BY <1>4, <1>5
  <2>2. x \in Answered(ms)
    <3>1. x \in Answered(ms) \cup {0}
      BY <2>1 DEF AllAnswered
    <3>2. x # 0
      <4>1. x \in Numbers
        BY <2>1, <1>1, MessageFacts
      <4> QED BY <4>1, SessionHistoryAssumption DEF Numbers
    <3> QED BY <3>1, <3>2
  <2>3. PICK j \in DOMAIN ms : ms[j].kind = "result" /\ ms[j].of = x
    BY <2>2, AnsweredIs
  <2>4. PICK y \in ms[j].covers : x < y
    BY <2>3 DEF Sound, Meant
  <2>5. i < j
    <3>1. i # j
      BY <2>1, <2>3
    <3>2. ASSUME j < i PROVE FALSE
      <4>1. y < x
        BY <3>2, <2>1, <2>4 DEF Sound, Ordered
      <4>2. x \in Nat /\ y \in Nat
        <5>1. x \in Numbers /\ y \in Numbers
          BY <2>1, <2>4, <1>1, MessageFacts
        <5> QED BY <5>1, SessionHistoryAssumption DEF Numbers
      <4> QED BY <4>1, <4>2, <2>4
    <3> QED BY <3>1, <3>2, <2>1, <1>1
  <2>6. j \in split + 1..Len(ms)
    BY <2>1, <2>5, <1>1
  <2>7. j - split + 1 \in DOMAIN t /\ t[j - split + 1] = ms[j]
    BY <2>6, <1>6
  <2>8. t[j - split + 1].kind = "result" /\ t[j - split + 1].of = x
    BY <2>3, <2>7
  <2> QED BY <2>7, <2>8, AnsweredIs
<1>14. Settled(t)
  <2> SUFFICES ASSUME NEW k \in DOMAIN t, t[k].current PROVE t[k].kind = "said"
    BY DEF Settled
  <2>1. k \in 2..Len(t)
    BY <1>4, <1>5
  <2>2. t[k] = ms[split + k - 1] /\ split + k - 1 \in DOMAIN ms
    BY <2>1, <1>4, <1>5
  <2>3. ms[split + k - 1].current
    BY <2>2
  <2> QED BY <2>2, <2>3 DEF Settled
<1>15. Covered(t) = Covered(ms)
  <2>1. ASSUME NEW x \in Covered(t) PROVE x \in Covered(ms)
    <3>1. PICK k \in DOMAIN t : x \in t[k].covers
      BY <2>1, CoveredIs
    <3>2. CASE k = 1
      BY <3>1, <3>2, <1>4, <1>7, <1>8, CoveredIs
    <3>3. CASE k \in 2..Len(t)
      BY <3>1, <3>3, <1>4, <1>5, CoveredIs
    <3> QED BY <3>2, <3>3, <1>5
  <2>2. ASSUME NEW x \in Covered(ms) PROVE x \in Covered(t)
    <3>1. PICK i \in DOMAIN ms : x \in ms[i].covers
      BY <2>2, CoveredIs
    <3>2. CASE i \in 1..split
      <4>1. x \in t[1].covers /\ 1 \in DOMAIN t
        BY <3>1, <3>2, <1>4, <1>5, <1>7
      <4> QED BY <4>1, CoveredIs
    <3>3. CASE i \in split + 1..Len(ms)
      <4>1. i - split + 1 \in DOMAIN t /\ t[i - split + 1] = ms[i]
        BY <3>3, <1>5, <1>6
      <4> QED BY <4>1, <3>1, CoveredIs
    <3>4. i \in 1..split \/ i \in split + 1..Len(ms)
      BY <3>1, <1>1
    <3> QED BY <3>2, <3>3, <3>4
  <2> QED BY <2>1, <2>2
<1> QED BY <1>4, <1>9, <1>10, <1>11, <1>12, <1>13, <1>14, <1>15 DEF Sound, Replaces

\* Whatever the usage makes session.optimize do, nothing is lost or cut apart.
LEMMA OptimizedSound ==
    ASSUME NEW ms, NEW n, NEW D, Sound(ms, n, D), AllAnswered(ms, 0), Settled(ms),
           NEW t \in {ms, Compressed(ms), Summarized(Compressed(ms))}
    PROVE  Replaces(t, ms, n, D)
<1>1. ms \in Seq(Message) /\ Len(ms) \in Nat /\ DOMAIN ms = 1..Len(ms)
      /\ \A i \in 1..Len(ms) : ms[i] \in Message
  BY ListFacts DEF Sound
<1>2. PICK p \in 0..Len(ms) : PastIs(ms, p)
  BY DEF Sound
<1>3. /\ Past(ms) = SubSeq(ms, 1, p) /\ Current(ms) = SubSeq(ms, p + 1, Len(ms))
      /\ Compressed(ms) = ms
  BY <1>1, <1>2, PastIsPrefix
<1> DEFINE past == SubSeq(ms, 1, p)
           last == p - Preserve
           split == IF p <= Preserve THEN 0 ELSE SafeSplit(past, last)
           summary == [covers |-> Covered(SubSeq(past, 1, split)), kind |-> "summary",
                       of |-> 0, current |-> FALSE]
<1>4. p \in Nat /\ p <= Len(ms) /\ Preserve \in Nat
  BY <1>1, SessionHistoryAssumption
<1>5. past \in Seq(Message) /\ Len(past) = p /\ \A i \in 1..p : past[i] = ms[i]
  <2>1. 1 \in Int /\ p \in Int /\ \A i \in 1..p : ms[i] \in Message
    BY <1>1, <1>4
  <2>2. /\ past \in Seq(Message) /\ Len(past) = IF 1 <= p THEN p - 1 + 1 ELSE 0
        /\ \A i \in 1..p - 1 + 1 : past[i] = ms[1 + i - 1]
    BY <2>1, SubSeqProperties
  <2>3. p - 1 + 1 = p /\ \A i \in 1..p : 1 + i - 1 = i
    BY <1>4
  <2> QED BY <2>2, <2>3, <1>4
<1>6. Summarized(ms) = IF split = 0 THEN ms
                       ELSE <<summary>> \o SubSeq(past, split + 1, Len(past)) \o Current(ms)
  BY <1>3, <1>5 DEF Summarized
<1>7. CASE t = ms
  BY <1>7 DEF Replaces
<1>8. CASE t = Summarized(ms) /\ split # 0
  <2>1. p > Preserve /\ last \in Nat /\ last <= p /\ split = SafeSplit(past, last)
    BY <1>8, <1>4
  <2> HIDE DEF past
  <2>2. /\ split \in 1..last /\ \A i \in split + 1..last : past[i].kind = "call"
        /\ past[split].kind = "call" =>
             past[split].covers \cap Answered(SubSeq(past, last + 1, Len(past))) = {}
    BY <2>1, <1>8, SafeSplitIs
  <2> HIDE DEF split, last
  <2>3. split \in 1..p /\ split \in 1..Len(ms) /\ last \in Nat /\ last <= p
    BY <2>1, <2>2, <1>4
  <2>4. SubSeq(past, 1, split) = SubSeq(ms, 1, split)
    <3>1. 1 \in 1..Len(ms) /\ p \in 1..Len(ms) /\ 1 \in 1..p - 1 + 1 /\ split \in 1..p - 1 + 1
          /\ 1 + 1 - 1 = 1 /\ 1 + split - 1 = split
      BY <2>3, <1>4
    <3> QED BY <3>1, <1>1, SubSeqOfSubSeq DEF past
  <2>5. SubSeq(past, split + 1, Len(past)) = SubSeq(ms, split + 1, p)
    <3>1. CASE split = p
      <4>1. SubSeq(past, split + 1, Len(past)) = <<>> /\ SubSeq(ms, split + 1, p) = <<>>
        BY <3>1, <1>4, <1>5, SubSeqEmpty
      <4> QED BY <4>1
    <3>2. CASE split < p
      <4>1. 1 \in 1..Len(ms) /\ p \in 1..Len(ms) /\ split + 1 \in 1..p - 1 + 1 /\ p \in 1..p - 1 + 1
            /\ 1 + (split + 1) - 1 = split + 1 /\ 1 + p - 1 = p
        BY <2>3, <3>2, <1>4
      <4> QED BY <4>1, <1>1, <1>5, SubSeqOfSubSeq DEF past
    <3> QED BY <3>1, <3>2, <2>3, <1>4
  <2>6. summary \in Message /\ summary.kind = "summary" /\ ~summary.current
        /\ summary.covers = Covered(SubSeq(ms, 1, split))
    <3>1. Covered(SubSeq(ms, 1, split)) \subseteq Numbers
      <4>1. SubSeq(ms, 1, split) \in Seq(Message)
        <5>1. \A i \in 1..split : ms[i] \in Message
          BY <1>1, <2>3
        <5> QED BY <5>1, <2>3, SubSeqProperties
      <4>2. \A i \in DOMAIN SubSeq(ms, 1, split) : SubSeq(ms, 1, split)[i].covers \subseteq Numbers
        BY <4>1, ListFacts, MessageFacts
      <4> QED BY <4>2, CoveredIs
    <3>2. 0 \in 0..MaxMessages
      BY SessionHistoryAssumption
    <3> QED BY <3>1, <3>2, <2>4 DEF Message
  <2> HIDE DEF summary
  <2>7. t = <<summary>> \o SubSeq(ms, split + 1, Len(ms))
    <3>1. SubSeq(ms, split + 1, p) \in Seq(Message) /\ SubSeq(ms, p + 1, Len(ms)) \in Seq(Message)
      <4>1. /\ \A i \in split + 1..p : ms[i] \in Message
            /\ \A i \in p + 1..Len(ms) : ms[i] \in Message
        BY <1>1, <1>4, <2>3
      <4> QED BY <4>1, <1>4, <1>1, <2>3, SubSeqProperties
    <3>2. SubSeq(ms, split + 1, p) \o SubSeq(ms, p + 1, Len(ms)) = SubSeq(ms, split + 1, Len(ms))
      <4>1. split + 1 \in 1..Len(ms) + 1 /\ p \in (split + 1) - 1..Len(ms) /\ Len(ms) \in p..Len(ms)
        BY <1>1, <1>4, <2>3
      <4> QED BY <4>1, <1>1, ConcatAdjacentSubSeq
    <3>3. <<summary>> \in Seq(Message)
      BY <2>6
    <3>4. (<<summary>> \o SubSeq(ms, split + 1, p)) \o SubSeq(ms, p + 1, Len(ms)) =
            <<summary>> \o (SubSeq(ms, split + 1, p) \o SubSeq(ms, p + 1, Len(ms)))
      <4> DEFINE a == <<summary>>
                 b == SubSeq(ms, split + 1, p)
                 c == SubSeq(ms, p + 1, Len(ms))
      <4>1. a \in Seq(Message) /\ b \in Seq(Message) /\ c \in Seq(Message)
        BY <3>1, <3>3
      <4> HIDE DEF a, b, c
      <4>2. (a \o b) \o c = a \o (b \o c)
        BY <4>1, ConcatAssociative
      <4> QED BY <4>2 DEF a, b, c
    <3>5. split # 0
      BY <2>3
    <3> QED BY <3>2, <3>4, <3>5, <2>5, <1>3, <1>6, <1>8
  <2>8. split < Len(ms) /\ ms[split + 1].kind = "result" /\ ~Between(ms[split + 1], D)
          => ms[split].kind # "call" \/ ms[split + 1].of \notin ms[split].covers
    <3> SUFFICES ASSUME split < Len(ms), ms[split + 1].kind = "result",
                        ms[split].kind = "call", ms[split + 1].of \in ms[split].covers
                 PROVE  FALSE
      OBVIOUS
    <3>1. split + 1 \in DOMAIN ms
      BY <1>1, <2>3
    <3>2. split + 1 <= p
      <4>1. ~ms[split + 1].current
        BY <3>1 DEF Settled
      <4> QED BY <3>1, <4>1, <1>1, <1>2, <1>4 DEF PastIs
    <3>3. past[split] = ms[split] /\ past[split + 1] = ms[split + 1]
      BY <2>3, <3>2, <1>4, <1>5
    <3>4. split = last
      <4>1. split + 1 \notin split + 1..last
        BY <2>2, <3>3
      <4> QED BY <4>1, <2>2, <2>3
    <3>5. ms[split + 1].of \in Answered(SubSeq(past, last + 1, Len(past)))
      <4> DEFINE r == SubSeq(past, last + 1, Len(past))
      <4>1. last + 1 \in Int /\ p \in Int /\ last + 1 <= p /\ 1 \in 1..p - (last + 1) + 1
            /\ (last + 1) + 1 - 1 = last + 1 /\ p - (last + 1) + 1 >= 1
        BY <3>2, <3>4, <2>3, <1>4
      <4>2. \A i \in last + 1..p : past[i] \in Message
        BY <1>5, <2>3, ListFacts
      <4>3. r \in Seq(Message) /\ Len(r) = p - (last + 1) + 1 /\ r[1] = past[last + 1]
        BY <4>1, <4>2, <1>5, SubSeqProperties
      <4> HIDE DEF r
      <4>4. 1 \in DOMAIN r
        BY <4>1, <4>3, ListFacts
      <4>5. r[1].kind = "result" /\ r[1].of = ms[split + 1].of
        BY <4>3, <3>3, <3>4
      <4> QED BY <4>4, <4>5, AnsweredIs DEF r
    <3>6. past[split].covers \cap Answered(SubSeq(past, last + 1, Len(past))) = {}
      BY <2>2, <3>3
    <3> QED BY <3>3, <3>5, <3>6
  <2>9. split \in 1..p
    BY <2>3
  <2> QED BY <2>6, <2>7, <2>8, <2>9, <1>2, Replaced
<1> QED BY <1>3, <1>6, <1>7, <1>8

-----------------------------------------------------------------------------
(***************************************************************************)
(* The steps.                                                              *)
(***************************************************************************)
LEMMA Numbered ==
    ASSUME TypeOK
    PROVE  added \in Nat /\ open \in Nat /\ MaxMessages \in Nat /\ 0 \in 0..MaxMessages
BY SessionHistoryAssumption DEF TypeOK

\* What a step that writes no file leaves of the files.
LEMMA FilesLater ==
    ASSUME TypeOK, Lists, UNCHANGED <<disk, writes>>,
           added' \in Nat, added <= added', delivered \subseteq delivered'
    PROVE  /\ Sound(disk', added', delivered')
           /\ \A i \in DOMAIN writes' : Sound(writes'[i].data, added', delivered')
<1>1. added \in Nat
  BY Numbered
<1>2. Sound(disk, added', delivered')
  BY <1>1, SoundLater DEF Lists
<1>3. ASSUME NEW i \in DOMAIN writes PROVE Sound(writes[i].data, added', delivered')
  BY <1>1, SoundLater DEF Lists
<1> QED BY <1>2, <1>3

\* What a run gave its strategy stays coherent whatever is delivered.
LEMMA WireLater ==
    ASSUME CallsAreAnswered, PairsStayTogether, wire' \in {wire, <<>>},
           delivered \subseteq delivered'
    PROVE  CallsAreAnswered' /\ PairsStayTogether'
<1>1. CASE wire' = <<>>
  BY <1>1, EmptySeq DEF CallsAreAnswered, PairsStayTogether
<1>2. CASE wire' = wire
  BY <1>2 DEF CallsAreAnswered, PairsStayTogether, Interrupted
<1> QED BY <1>1, <1>2

\* An added message, whoever adds it.
LEMMA Added ==
    ASSUME IInv, NEW kind \in {"said", "call", "result"}, NEW of \in 0..MaxMessages,
           Append1(kind, of), delivered \subseteq delivered', UNCHANGED <<snapshot, disk, writes>>,
           kind = "result" => of = open /\ open # 0
    PROVE  /\ Lists' /\ msgs' \in Seq(Message) /\ added' \in 0..MaxMessages
           /\ added' = added + 1 /\ added' \in Numbers /\ expected' = expected \cup {added'}
           /\ expected' \subseteq Numbers
           /\ Covered(msgs') = Covered(msgs) \cup {added'}
           /\ Len(msgs') > 0 /\ msgs'[Len(msgs')].kind = kind /\ msgs'[Len(msgs')].covers = {added'}
           /\ kind = "said" /\ Settled(msgs) => Settled(msgs')
           /\ \A k, l : AllAnswered(msgs, k) /\ (kind = "call" => l = added' /\ k = 0)
                         /\ (kind = "result" => of = k) /\ (kind = "said" => k = l)
                           => AllAnswered(msgs', l)
<1> DEFINE m == [covers |-> {added + 1}, kind |-> kind, of |-> of, current |-> TRUE]
<1>1. /\ added \in Nat /\ added < MaxMessages /\ MaxMessages \in Nat /\ open \in Nat
      /\ msgs' = Append(msgs, m) /\ added' = added + 1 /\ expected' = expected \cup {added + 1}
  BY Numbered DEF IInv, Append1
<1>2. added + 1 \in Numbers /\ added' \in 0..MaxMessages /\ expected \subseteq Numbers
  BY <1>1 DEF Numbers, IInv, TypeOK
<1>3. /\ m \in Message /\ m.covers = {added + 1} /\ m.current /\ m.kind = kind /\ m.of = of
  BY <1>2 DEF Message
<1> HIDE DEF m
<1>4. Sound(msgs, added, delivered) /\ msgs \in Seq(Message)
  BY DEF IInv, Lists, Sound
<1>5. m.kind = "result" =>
        /\ m.of < added + 1
        /\ Between(m, delivered') \/ (Len(msgs) > 0 /\ msgs[Len(msgs)].kind = "call"
                                       /\ m.of \in msgs[Len(msgs)].covers)
  <2> SUFFICES ASSUME kind = "result"
               PROVE  /\ m.of < added + 1
                      /\ Between(m, delivered') \/ (Len(msgs) > 0 /\ msgs[Len(msgs)].kind = "call"
                                                     /\ m.of \in msgs[Len(msgs)].covers)
    BY <1>3
  <2>1. m.of = open /\ open <= added
    BY <1>3 DEF IInv, Opened
  <2>2. ASSUME NEW d \in delivered, open < d PROVE Between(m, delivered')
    <3>1. d \in delivered' /\ d \in 1..added
      BY DEF IInv
    <3> QED BY <3>1, <2>1, <2>2, <1>1, <1>3 DEF Between
  <2> QED BY <2>1, <2>2, <1>1 DEF IInv, Opened
<1>6. Sound(msgs', added', delivered')
  BY <1>1, <1>3, <1>4, <1>5, AppendSound
<1>7. Sound(snapshot', added', delivered')
  <2>1. snapshot' = snapshot /\ Sound(snapshot, added, delivered)
    BY DEF IInv, Lists
  <2>2. added' \in Nat /\ added <= added'
    BY <1>1
  <2>3. Sound(snapshot, added', delivered')
    BY <2>1, <2>2, <1>1, SoundLater
  <2> QED BY <2>1, <2>3
<1>8. Lists'
  BY <1>1, <1>6, <1>7, FilesLater DEF IInv, Lists
<1>9. Covered(msgs') = Covered(msgs) \cup {added'} /\ (kind = "said" /\ Settled(msgs) => Settled(msgs'))
  BY <1>1, <1>3, <1>4, AppendCovers
<1>10. /\ msgs' \in Seq(Message) /\ Len(msgs') = Len(msgs) + 1 /\ msgs'[Len(msgs) + 1] = m
       /\ Len(msgs) \in Nat
  BY <1>1, <1>3, <1>4, AppendProperties, ListFacts
<1>11. Len(msgs') > 0 /\ msgs'[Len(msgs')].kind = kind /\ msgs'[Len(msgs')].covers = {added'}
  BY <1>1, <1>3, <1>10
<1>12. ASSUME NEW k, NEW l, AllAnswered(msgs, k), kind = "call" => l = added' /\ k = 0,
              kind = "result" => of = k, kind = "said" => k = l
       PROVE  AllAnswered(msgs', l)
  <2>1. ~(\E i \in DOMAIN msgs : 0 \in msgs[i].covers)
    <3>1. \A i \in DOMAIN msgs : msgs[i].covers \subseteq Numbers
      BY <1>4, ListFacts, MessageFacts
    <3>2. 0 \notin Numbers
      BY <1>1 DEF Numbers
    <3> QED BY <3>1, <3>2
  <2>2. m.kind = "call" => m.covers = {l} /\ k = 0
    BY <1>1, <1>3, <1>12
  <2>3. (m.kind = "result" => m.of = k) /\ (m.kind = "said" => k = l) /\ m.kind # "summary"
    BY <1>3, <1>12
  <2> QED BY <2>1, <2>2, <2>3, <1>1, <1>3, <1>4, <1>12, AppendCovers
<1>13. expected' \subseteq Numbers
  BY <1>1, <1>2
<1>14. \A k, l : AllAnswered(msgs, k) /\ (kind = "call" => l = added' /\ k = 0)
                   /\ (kind = "result" => of = k) /\ (kind = "said" => k = l)
                     => AllAnswered(msgs', l)
  BY <1>12
<1>15. added' \in Numbers
  BY <1>1, <1>2
<1>16. expected' = expected \cup {added'}
  BY <1>1
<1> QED BY <1>1, <1>2, <1>8, <1>9, <1>10, <1>11, <1>13, <1>14, <1>15, <1>16

LEMMA Initially == Init => IInv
<1> SUFFICES ASSUME Init PROVE IInv
  OBVIOUS
<1>0. 0 \in 0..MaxMessages /\ MaxMessages \in Nat /\ <<>> \in Seq(Message)
      /\ <<>> \in Seq([data : Seq(Message), mixed : BOOLEAN]) /\ DOMAIN <<>> = {}
  BY SessionHistoryAssumption
<1>1. TypeOK
  BY <1>0 DEF Init, TypeOK, PCs
<1>2. Lists /\ Answers
  BY <1>0, EmptySound DEF Init, Lists, Answers
<1>3. Opened /\ Kept /\ Down /\ delivered \subseteq 1..added
  BY DEF Init, Opened, Kept, Down
<1>4. CallsAreAnswered /\ PairsStayTogether
  BY <1>0 DEF Init, CallsAreAnswered, PairsStayTogether
<1> QED BY <1>1, <1>2, <1>3, <1>4 DEF IInv

\* Steps that only take the messages or put them back.
LEMMA StartStep == IInv /\ Start => IInv'
<1> SUFFICES ASSUME IInv, Start PROVE IInv'
  OBVIOUS
<1>1. /\ up /\ pc = "idle" /\ pc' = "prompting" /\ snapshot' = msgs
      /\ UNCHANGED <<up, msgs, open, wire, disk, torn, reads, writes, clean, added, expected, delivered>>
  BY DEF Start, fileVars, history
<1>2. open = 0 /\ PCs = PCs'
  BY <1>1 DEF IInv, TypeOK, PCs
<1>3. TypeOK'
  BY <1>1, <1>2 DEF IInv, TypeOK, PCs
<1>4. Lists'
  BY <1>1 DEF IInv, Lists
<1>5. Answers'
  BY <1>1, <1>2 DEF IInv, Answers
<1>6. Opened' /\ Kept' /\ Down' /\ (delivered \subseteq 1..added)'
  BY <1>1, <1>2 DEF IInv, Opened, Kept, Down
<1>7. CallsAreAnswered' /\ PairsStayTogether'
  BY <1>1, WireLater DEF IInv
<1> QED BY <1>3, <1>4, <1>5, <1>6, <1>7 DEF IInv

LEMMA PromptsBuiltStep == IInv /\ PromptsBuilt => IInv'
<1> SUFFICES ASSUME IInv, PromptsBuilt PROVE IInv'
  OBVIOUS
<1>1. /\ up /\ pc = "prompting" /\ pc' = "prepared" /\ msgs' = snapshot /\ snapshot' = <<>>
      /\ UNCHANGED <<up, open, wire, disk, torn, reads, writes, clean, added, expected, delivered>>
  BY DEF PromptsBuilt, fileVars, history
<1>2. open = 0 /\ <<>> \in Seq(Message)
  BY <1>1 DEF IInv, TypeOK
<1>3. TypeOK'
  BY <1>1, <1>2 DEF IInv, TypeOK, PCs
<1>4. Lists'
  BY <1>1, EmptySound DEF IInv, Lists
<1>5. Answers'
  BY <1>1, <1>2, EmptySound DEF IInv, Answers
<1>6. Opened' /\ Kept' /\ Down' /\ (delivered \subseteq 1..added)'
  BY <1>1, <1>2 DEF IInv, Opened, Kept, Down
<1>7. CallsAreAnswered' /\ PairsStayTogether'
  BY <1>1, WireLater DEF IInv
<1> QED BY <1>3, <1>4, <1>5, <1>6, <1>7 DEF IInv

LEMMA OptimizeStartsStep == IInv /\ OptimizeStarts => IInv'
<1> SUFFICES ASSUME IInv, OptimizeStarts PROVE IInv'
  OBVIOUS
<1>1. /\ up /\ pc = "prepared" /\ pc' = "optimizing" /\ snapshot' = msgs
      /\ UNCHANGED <<up, msgs, open, wire, disk, torn, reads, writes, clean, added, expected, delivered>>
  BY DEF OptimizeStarts, fileVars, history
<1>2. open = 0
  BY <1>1 DEF IInv, TypeOK
<1>3. TypeOK'
  BY <1>1, <1>2 DEF IInv, TypeOK, PCs
<1>4. Lists'
  BY <1>1 DEF IInv, Lists
<1>5. Answers'
  BY <1>1, <1>2 DEF IInv, Answers
<1>6. Opened' /\ Kept' /\ Down' /\ (delivered \subseteq 1..added)'
  BY <1>1, <1>2 DEF IInv, Opened, Kept, Down
<1>7. CallsAreAnswered' /\ PairsStayTogether'
  BY <1>1, WireLater DEF IInv
<1> QED BY <1>3, <1>4, <1>5, <1>6, <1>7 DEF IInv

LEMMA OptimizeEndsStep == IInv /\ OptimizeEnds => IInv'
<1> SUFFICES ASSUME IInv, OptimizeEnds PROVE IInv'
  OBVIOUS
<1>1. /\ up /\ pc = "optimizing" /\ pc' = "optimized" /\ snapshot' = <<>>
      /\ msgs' \in {snapshot, Compressed(snapshot), Summarized(Compressed(snapshot))}
      /\ UNCHANGED <<up, open, wire, disk, torn, reads, writes, clean, added, expected, delivered>>
  BY DEF OptimizeEnds, fileVars, history
<1>2. open = 0 /\ <<>> \in Seq(Message)
  BY <1>1 DEF IInv, TypeOK
<1>3. Replaces(msgs', snapshot, added, delivered)
  <2>1. Sound(snapshot, added, delivered) /\ AllAnswered(snapshot, 0) /\ Settled(snapshot)
    BY <1>1 DEF IInv, Lists, Answers
  <2> QED BY <2>1, <1>1, OptimizedSound
<1>4. msgs' \in Seq(Message)
  BY <1>3 DEF Replaces, Sound
<1>5. TypeOK'
  BY <1>1, <1>2, <1>4 DEF IInv, TypeOK, PCs
<1>6. Lists'
  BY <1>1, <1>3, EmptySound DEF IInv, Lists, Replaces
<1>7. Answers'
  BY <1>1, <1>2, <1>3, EmptySound DEF IInv, Answers, Replaces
<1>8. Opened' /\ Kept' /\ Down' /\ (delivered \subseteq 1..added)'
  BY <1>1, <1>2, <1>3 DEF IInv, Opened, Kept, Down, Replaces
<1>9. CallsAreAnswered' /\ PairsStayTogether'
  BY <1>1, WireLater DEF IInv
<1> QED BY <1>5, <1>6, <1>7, <1>8, <1>9 DEF IInv

\* The user's message, or one of the strategy's.
LEMMA SaysStep == IInv /\ (UserMessage \/ Say) => IInv'
<1> SUFFICES ASSUME IInv, UserMessage \/ Say PROVE IInv'
  OBVIOUS
<1>1. /\ up /\ pc \in {"optimized", "looping"} /\ pc' \in {"forcing", "looping"} /\ Append1("said", 0)
      /\ UNCHANGED <<up, snapshot, open, wire, disk, torn, reads, writes, clean, delivered>>
  BY DEF UserMessage, Say, fileVars
<1>2. open = 0 /\ 0 \in 0..MaxMessages /\ added \in Nat
  BY <1>1, Numbered DEF IInv, TypeOK
<1>3. /\ Lists' /\ msgs' \in Seq(Message) /\ added' \in 0..MaxMessages /\ added' = added + 1
      /\ expected' = expected \cup {added'} /\ expected' \subseteq Numbers
      /\ Covered(msgs') = Covered(msgs) \cup {added'}
      /\ AllAnswered(msgs, 0) => AllAnswered(msgs', 0)
  BY <1>1, <1>2, Added
<1>4. TypeOK'
  BY <1>1, <1>2, <1>3 DEF IInv, TypeOK, PCs
<1>5. Answers'
  BY <1>1, <1>2, <1>3 DEF IInv, Answers
<1>6. Opened' /\ Kept' /\ Down' /\ (delivered \subseteq 1..added)'
  BY <1>1, <1>2, <1>3 DEF IInv, Opened, Kept, Down
<1>7. CallsAreAnswered' /\ PairsStayTogether'
  BY <1>1, WireLater DEF IInv
<1> QED BY <1>3, <1>4, <1>5, <1>6, <1>7 DEF IInv

LEMMA ThinkStep == IInv /\ Think => IInv'
<1> SUFFICES ASSUME IInv, Think PROVE IInv'
  OBVIOUS
<1>1. /\ up /\ pc = "forcing" /\ pc' = "looping" /\ wire' = msgs
      /\ UNCHANGED <<up, msgs, snapshot, open, disk, torn, reads, writes, clean, added, expected, delivered>>
  BY DEF Think, fileVars, history
<1>2. open = 0
  BY <1>1 DEF IInv, TypeOK
<1>3. TypeOK'
  BY <1>1, <1>2 DEF IInv, TypeOK, PCs
<1>4. Lists' /\ Answers'
  BY <1>1 DEF IInv, Lists, Answers
<1>5. Opened' /\ Kept' /\ Down' /\ (delivered \subseteq 1..added)'
  BY <1>1, <1>2 DEF IInv, Opened, Kept, Down
<1>6. CallsAreAnswered'
  <2>1. AllAnswered(msgs, 0) /\ msgs \in Seq(Message)
    BY <1>1, <1>2 DEF IInv, Answers, TypeOK
  <2>2. \A i \in DOMAIN msgs : 0 \notin msgs[i].covers
    <3>1. \A i \in DOMAIN msgs : msgs[i].covers \subseteq Numbers
      BY <2>1, ListFacts, MessageFacts
    <3> QED BY <3>1, SessionHistoryAssumption DEF Numbers
  <2> QED BY <2>1, <2>2, <1>1 DEF AllAnswered, CallsAreAnswered
<1>7. PairsStayTogether'
  <2> SUFFICES ASSUME NEW i \in DOMAIN msgs, msgs[i].kind = "result",
                      ~\E d \in delivered : msgs[i].of < d /\ \A n \in msgs[i].covers : d < n
               PROVE  \E j \in 1..i - 1 : msgs[j].kind = "call" /\ msgs[i].of \in msgs[j].covers
    BY <1>1 DEF PairsStayTogether, Interrupted
  <2>1. i > 1 /\ msgs[i - 1].kind = "call" /\ msgs[i].of \in msgs[i - 1].covers
    BY DEF IInv, Lists, Sound, Paired, Between
  <2>2. i \in Nat
    BY ListFacts DEF IInv, TypeOK
  <2>3. i - 1 \in 1..i - 1
    BY <2>1, <2>2
  <2> QED BY <2>1, <2>3
<1> QED BY <1>3, <1>4, <1>5, <1>6, <1>7 DEF IInv

LEMMA CallStep == IInv /\ Call => IInv'
<1> SUFFICES ASSUME IInv, Call PROVE IInv'
  OBVIOUS
<1>1. /\ up /\ pc \in {"forcing", "looping"} /\ pc' \in {"forced_call", "call"}
      /\ Append1("call", 0) /\ open' = added + 1
      /\ UNCHANGED <<up, snapshot, wire, disk, torn, reads, writes, clean, delivered>>
  BY DEF Call, fileVars
<1>2. open = 0 /\ 0 \in 0..MaxMessages /\ added \in Nat
  BY <1>1, Numbered DEF IInv, TypeOK
<1>3. /\ Lists' /\ msgs' \in Seq(Message) /\ added' \in 0..MaxMessages /\ added' = added + 1
      /\ expected' = expected \cup {added'} /\ expected' \subseteq Numbers
      /\ Covered(msgs') = Covered(msgs) \cup {added'}
      /\ Len(msgs') > 0 /\ msgs'[Len(msgs')].kind = "call" /\ msgs'[Len(msgs')].covers = {added'}
      /\ AllAnswered(msgs, 0) => AllAnswered(msgs', added')
  BY <1>1, <1>2, Added
<1>4. open' = added' /\ open' # 0
  BY <1>1, <1>2, <1>3
<1>5. TypeOK'
  BY <1>1, <1>3, <1>4 DEF IInv, TypeOK, PCs
<1>6. Answers'
  BY <1>1, <1>2, <1>3, <1>4 DEF IInv, Answers
<1>7. Opened'
  BY <1>2, <1>3, <1>4 DEF Opened
<1>8. Kept' /\ Down' /\ (delivered \subseteq 1..added)'
  BY <1>1, <1>2, <1>3 DEF IInv, Kept, Down
<1>9. CallsAreAnswered' /\ PairsStayTogether'
  BY <1>1, WireLater DEF IInv
<1> QED BY <1>3, <1>5, <1>6, <1>7, <1>8, <1>9 DEF IInv

LEMMA ResultStep == IInv /\ Result => IInv'
<1> SUFFICES ASSUME IInv, Result PROVE IInv'
  OBVIOUS
<1>1. /\ up /\ pc \in {"forced_call", "call"} /\ pc' \in {"forcing", "looping"}
      /\ Append1("result", open) /\ open' = 0
      /\ UNCHANGED <<up, snapshot, wire, disk, torn, reads, writes, clean, delivered>>
  BY DEF Result, fileVars
<1>2. open # 0 /\ open \in 0..MaxMessages /\ 0 \in 0..MaxMessages /\ added \in Nat
  BY <1>1, Numbered DEF IInv, TypeOK
<1>3. /\ Lists' /\ msgs' \in Seq(Message) /\ added' \in 0..MaxMessages /\ added' = added + 1
      /\ expected' = expected \cup {added'} /\ expected' \subseteq Numbers
      /\ Covered(msgs') = Covered(msgs) \cup {added'}
      /\ AllAnswered(msgs, open) => AllAnswered(msgs', 0)
  BY <1>1, <1>2, Added
<1>4. TypeOK'
  BY <1>1, <1>2, <1>3 DEF IInv, TypeOK, PCs
<1>5. Answers'
  BY <1>1, <1>2, <1>3 DEF IInv, Answers
<1>6. Opened' /\ Kept' /\ Down' /\ (delivered \subseteq 1..added)'
  BY <1>1, <1>2, <1>3 DEF IInv, Opened, Kept, Down
<1>7. CallsAreAnswered' /\ PairsStayTogether'
  BY <1>1, WireLater DEF IInv
<1> QED BY <1>3, <1>4, <1>5, <1>6, <1>7 DEF IInv

LEMMA RunEndsStep == IInv /\ RunEnds => IInv'
<1> SUFFICES ASSUME IInv, RunEnds PROVE IInv'
  OBVIOUS
<1>1. /\ up /\ pc' = "unwinding" /\ open' = 0 /\ wire' = <<>> /\ snapshot' = <<>>
      /\ UNCHANGED <<up, msgs, disk, torn, reads, writes, clean, added, expected, delivered>>
  BY DEF RunEnds, fileVars, history
<1>2. 0 \in 0..MaxMessages /\ <<>> \in Seq(Message)
  BY Numbered DEF IInv
<1>3. TypeOK'
  BY <1>1, <1>2 DEF IInv, TypeOK, PCs
<1>4. Lists' /\ Answers'
  BY <1>1, EmptySound DEF IInv, Lists, Answers
<1>5. Opened' /\ Kept' /\ Down' /\ (delivered \subseteq 1..added)'
  BY <1>1 DEF IInv, Opened, Kept, Down
<1>6. CallsAreAnswered' /\ PairsStayTogether'
  BY <1>1, WireLater DEF IInv
<1> QED BY <1>3, <1>4, <1>5, <1>6 DEF IInv

\* What the commit withdraws is what the open calls cover.
LEMMA FinishStep == IInv /\ Finish => IInv'
<1> SUFFICES ASSUME IInv, Finish PROVE IInv'
  OBVIOUS
<1>1. /\ up /\ pc = "unwinding" /\ pc' = "idle" /\ msgs' = Commit(msgs)
      /\ expected' = expected \ UNION {msgs[i].covers : i \in Orphans(msgs)}
      /\ reads' = reads + (IF Saving THEN 1 ELSE 0)
      /\ UNCHANGED <<up, snapshot, open, wire, disk, torn, writes, clean, added, delivered>>
  BY DEF Finish
<1>2. open = 0 /\ reads \in Nat /\ reads' \in Nat /\ msgs \in Seq(Message)
  BY <1>1 DEF IInv, TypeOK
<1>3. Sound(msgs', added, delivered) /\ AllAnswered(msgs', 0) /\ Settled(msgs')
  BY <1>1, CommitSound DEF IInv, Lists
<1>4. msgs' \in Seq(Message)
  BY <1>3 DEF Sound
<1>5. expected' \ delivered' \subseteq Covered(msgs')
  <2>1. expected \ delivered \subseteq Covered(msgs)
    BY <1>1 DEF IInv, Kept
  <2>2. Covered(msgs) \ UNION {msgs[i].covers : i \in Orphans(msgs)} \subseteq Covered(msgs')
    BY <1>1, <1>2, CommitCovers
  <2>3. delivered' = delivered
    BY <1>1
  <2> QED BY <2>1, <2>2, <2>3, <1>1
<1>6. TypeOK'
  BY <1>1, <1>2, <1>4 DEF IInv, TypeOK, PCs
<1>7. Lists'
  BY <1>1, <1>3 DEF IInv, Lists
<1>8. Answers'
  BY <1>1, <1>2, <1>3 DEF IInv, Answers
<1>9. Opened' /\ Kept' /\ Down' /\ (delivered \subseteq 1..added)'
  BY <1>1, <1>2, <1>5 DEF IInv, Opened, Kept, Down
<1>10. CallsAreAnswered' /\ PairsStayTogether'
  BY <1>1, WireLater DEF IInv
<1> QED BY <1>6, <1>7, <1>8, <1>9, <1>10 DEF IInv

\* A delivery, at any moment of the run.
LEMMA DeliverStep == IInv /\ Deliver => IInv'
<1> SUFFICES ASSUME IInv, Deliver PROVE IInv'
  OBVIOUS
<1>1. /\ up /\ Append1("said", 0) /\ delivered' = delivered \cup {added + 1} /\ reads' = reads + 1
      /\ UNCHANGED <<up, pc, snapshot, open, wire, disk, torn, writes, clean>>
  BY DEF Deliver
<1>2. added \in Nat /\ 0 \in 0..MaxMessages /\ delivered \subseteq delivered' /\ reads' \in Nat
  BY <1>1, Numbered DEF IInv, TypeOK
<1>3. /\ Lists' /\ msgs' \in Seq(Message) /\ added' \in 0..MaxMessages /\ added' = added + 1
      /\ added' \in Numbers /\ expected' = expected \cup {added'} /\ expected' \subseteq Numbers
      /\ Covered(msgs') = Covered(msgs) \cup {added'}
      /\ Settled(msgs) => Settled(msgs')
      /\ AllAnswered(msgs, open) => AllAnswered(msgs', open)
  BY <1>1, <1>2, Added
<1>4. delivered' \subseteq Numbers /\ delivered' \subseteq 1..added'
  BY <1>1, <1>2, <1>3 DEF IInv, TypeOK
<1>5. TypeOK'
  BY <1>1, <1>2, <1>3, <1>4 DEF IInv, TypeOK, PCs
<1>6. Answers'
  BY <1>1, <1>3 DEF IInv, Answers
<1>7. Opened'
  <2> SUFFICES ASSUME open # 0
               PROVE  open <= added' /\ \E d \in delivered' : open < d
    BY <1>1 DEF Opened
  <2>1. open <= added /\ open \in Nat
    BY Numbered DEF IInv, Opened
  <2>2. added' \in delivered' /\ open < added' /\ open <= added'
    BY <2>1, <1>1, <1>2, <1>3
  <2> QED BY <2>2
<1>8. Kept'
  BY <1>1, <1>3 DEF IInv, Kept
<1>9. Down'
  BY <1>1 DEF Down
<1>10. CallsAreAnswered' /\ PairsStayTogether'
  BY <1>1, <1>2, WireLater DEF IInv
<1> QED BY <1>3, <1>4, <1>5, <1>6, <1>7, <1>8, <1>9, <1>10 DEF IInv

Write == [data : Seq(Message), mixed : BOOLEAN]

\* A step of the file: the messages in memory and the run stay as they are.
LEMMA FileStep ==
    ASSUME IInv, UNCHANGED <<up, pc, msgs, snapshot, open, wire, added, expected, delivered>>, up,
           reads' \in Nat, {torn', clean'} \subseteq BOOLEAN,
           writes' \in Seq(Write), Sound(disk', added, delivered),
           \A i \in DOMAIN writes' : Sound(writes'[i].data, added, delivered)
    PROVE  IInv'
<1>1. disk' \in Seq(Message)
  BY DEF Sound
<1>2. TypeOK'
  BY <1>1 DEF IInv, TypeOK, Write
<1>3. Lists' /\ Answers'
  BY DEF IInv, Lists, Answers
<1>4. Opened' /\ Kept' /\ Down' /\ (delivered \subseteq 1..added)'
  BY DEF IInv, Opened, Kept, Down
<1>5. CallsAreAnswered' /\ PairsStayTogether'
  BY WireLater DEF IInv
<1> QED BY <1>2, <1>3, <1>4, <1>5 DEF IInv

LEMMA SavesStep == IInv /\ (ApiSaves \/ SaveFails) => IInv'
<1> SUFFICES ASSUME IInv, ApiSaves \/ SaveFails PROVE IInv'
  OBVIOUS
<1>1. /\ up /\ reads' \in Nat /\ clean' \in BOOLEAN
      /\ UNCHANGED <<up, pc, msgs, snapshot, open, wire, disk, torn, writes, added, expected, delivered>>
  <2>1. reads \in Nat /\ clean \in BOOLEAN
    BY DEF IInv, TypeOK
  <2>2. CASE ApiSaves
    BY <2>1, <2>2 DEF ApiSaves, runVars, history
  <2>3. CASE SaveFails
    <3>1. reads > 0 /\ reads' = reads - 1 /\ clean' = FALSE
      BY <2>3 DEF SaveFails
    <3>2. up /\ UNCHANGED <<up, runVars, disk, torn, writes, history>>
      BY <2>3 DEF SaveFails
    <3>3. reads' \in Nat
      BY <2>1, <3>1
    <3>4. clean' \in BOOLEAN
      BY <3>1
    <3> QED BY <3>2, <3>3, <3>4 DEF runVars, history
  <2> QED BY <2>2, <2>3
<1>2. writes' \in Seq(Write) /\ torn' \in BOOLEAN
  BY <1>1 DEF IInv, TypeOK, Write
<1>3. Sound(disk', added, delivered) /\ \A i \in DOMAIN writes' : Sound(writes'[i].data, added, delivered)
  BY <1>1 DEF IInv, Lists
<1> QED BY <1>1, <1>2, <1>3, FileStep

LEMMA SaveWritesStep == IInv /\ SaveWrites => IInv'
<1> SUFFICES ASSUME IInv, SaveWrites PROVE IInv'
  OBVIOUS
<1> DEFINE marked == [i \in DOMAIN writes |-> [writes[i] EXCEPT !.mixed = TRUE]]
           new == [data |-> msgs, mixed |-> writes # <<>>]
<1>1. /\ up /\ reads' \in Nat /\ clean' \in BOOLEAN /\ writes' = Append(marked, new)
      /\ UNCHANGED <<up, pc, msgs, snapshot, open, wire, disk, torn, added, expected, delivered>>
  BY DEF SaveWrites, runVars, history, IInv, TypeOK
<1>2. writes \in Seq(Write) /\ torn' \in BOOLEAN /\ new \in Write
  BY <1>1 DEF IInv, TypeOK, Write
<1>3. Len(writes) \in Nat /\ DOMAIN writes = 1..Len(writes) /\ \A i \in 1..Len(writes) : writes[i] \in Write
  BY <1>2, LenProperties, ElementOfSeq
<1>4. \A i \in 1..Len(writes) : /\ [writes[i] EXCEPT !.mixed = TRUE] \in Write
                                /\ [writes[i] EXCEPT !.mixed = TRUE].data = writes[i].data
  BY <1>3 DEF Write
<1>5. marked \in Seq(Write) /\ \A i \in 1..Len(writes) : marked[i].data = writes[i].data
  <2> DEFINE e(i) == [writes[i] EXCEPT !.mixed = TRUE]
  <2>1. \A i \in 1..Len(writes) : e(i) \in Write
    BY <1>4
  <2>2. [i \in 1..Len(writes) |-> e(i)] \in Seq(Write)
    <3> HIDE DEF e
    <3> QED BY <2>1, <1>3, IsASeq
  <2>3. marked \in Seq(Write)
    BY <2>2, <1>3
  <2>4. \A i \in 1..Len(writes) : marked[i].data = writes[i].data
    BY <1>3, <1>4
  <2> QED BY <2>3, <2>4
<1>6. DOMAIN marked = 1..Len(writes) /\ Len(marked) = Len(writes)
  <2>1. DOMAIN marked = 1..Len(writes)
    BY <1>3
  <2>2. DOMAIN marked = 1..Len(marked) /\ Len(marked) \in Nat
    BY <1>5, LenProperties
  <2> QED BY <2>1, <2>2, <1>3
<1> HIDE DEF marked, new
<1>7. /\ writes' \in Seq(Write) /\ Len(writes') = Len(writes) + 1
      /\ \A i \in 1..Len(writes) : writes'[i] = marked[i]
      /\ writes'[Len(writes) + 1] = new
  BY <1>1, <1>2, <1>5, <1>6, AppendProperties
<1>8. DOMAIN writes' = 1..Len(writes) + 1
  BY <1>7, LenProperties
<1>9. ASSUME NEW i \in DOMAIN writes' PROVE Sound(writes'[i].data, added, delivered)
  <2>1. CASE i \in 1..Len(writes)
    <3>1. writes'[i].data = writes[i].data
      BY <2>1, <1>5, <1>7
    <3> QED BY <2>1, <3>1, <1>3 DEF IInv, Lists
  <2>2. CASE i = Len(writes) + 1
    <3>1. writes'[i].data = msgs
      BY <2>2, <1>7 DEF new
    <3> QED BY <3>1 DEF IInv, Lists
  <2> QED BY <2>1, <2>2, <1>3, <1>8
<1>10. Sound(disk', added, delivered)
  BY <1>1 DEF IInv, Lists
<1> QED BY <1>1, <1>2, <1>7, <1>9, <1>10, FileStep

\* RemoveAt keeps what it does not remove.
LEMMA Removed ==
    ASSUME NEW T, NEW s \in Seq(T), NEW i \in DOMAIN s
    PROVE  /\ RemoveAt(s, i) \in Seq(T)
           /\ \A k \in DOMAIN RemoveAt(s, i) : \E j \in DOMAIN s : RemoveAt(s, i)[k] = s[j]
           /\ Len(s) = 1 => RemoveAt(s, i) = <<>>
<1> DEFINE a == SubSeq(s, 1, i - 1)
           b == SubSeq(s, i + 1, Len(s))
<1>1. Len(s) \in Nat /\ DOMAIN s = 1..Len(s) /\ (\A j \in 1..Len(s) : s[j] \in T) /\ i \in 1..Len(s)
  BY LenProperties, ElementOfSeq
<1>2. /\ a \in Seq(T) /\ Len(a) = i - 1 /\ \A k \in 1..i - 1 : a[k] = s[k]
  <2>1. 1 \in Int /\ i - 1 \in Int /\ \A j \in 1..i - 1 : s[j] \in T
    BY <1>1
  <2>2. /\ a \in Seq(T) /\ Len(a) = IF 1 <= i - 1 THEN i - 1 - 1 + 1 ELSE 0
        /\ \A k \in 1..i - 1 - 1 + 1 : a[k] = s[1 + k - 1]
    BY <2>1, SubSeqProperties
  <2>3. i - 1 - 1 + 1 = i - 1 /\ (i - 1 < 1 => i - 1 = 0) /\ \A k \in 1..i - 1 : 1 + k - 1 = k
    BY <1>1
  <2> QED BY <2>2, <2>3, <1>1
<1>3. /\ b \in Seq(T) /\ Len(b) = Len(s) - i /\ \A k \in 1..Len(s) - i : b[k] = s[i + k]
  <2>1. i + 1 \in Int /\ Len(s) \in Int /\ \A j \in i + 1..Len(s) : s[j] \in T
    BY <1>1
  <2>2. /\ b \in Seq(T) /\ Len(b) = IF i + 1 <= Len(s) THEN Len(s) - (i + 1) + 1 ELSE 0
        /\ \A k \in 1..Len(s) - (i + 1) + 1 : b[k] = s[(i + 1) + k - 1]
    BY <2>1, SubSeqProperties
  <2>3. Len(s) - (i + 1) + 1 = Len(s) - i /\ (~(i + 1 <= Len(s)) => Len(s) - i = 0)
    BY <1>1
  <2>4. \A k \in 1..Len(s) - i : (i + 1) + k - 1 = i + k
    BY <1>1
  <2>5. Len(b) = Len(s) - i
    BY <2>2, <2>3
  <2>6. \A k \in 1..Len(s) - i : b[k] = s[i + k]
    <3> HIDE DEF b
    <3> QED BY <2>2, <2>3, <2>4
  <2> QED BY <2>2, <2>5, <2>6
<1> HIDE DEF a, b
<1>4. /\ RemoveAt(s, i) \in Seq(T) /\ Len(RemoveAt(s, i)) = (i - 1) + (Len(s) - i)
      /\ \A k \in 1..(i - 1) + (Len(s) - i) :
           RemoveAt(s, i)[k] = IF k <= i - 1 THEN a[k] ELSE b[k - (i - 1)]
  <2>1. RemoveAt(s, i) = a \o b
    BY DEF RemoveAt, a, b
  <2>2. /\ a \o b \in Seq(T) /\ Len(a \o b) = Len(a) + Len(b)
        /\ \A k \in 1..Len(a) + Len(b) : (a \o b)[k] = IF k <= Len(a) THEN a[k] ELSE b[k - Len(a)]
    BY <1>2, <1>3, ConcatProperties
  <2> QED BY <2>1, <2>2, <1>2, <1>3
<1>5. DOMAIN RemoveAt(s, i) = 1..Len(RemoveAt(s, i))
  BY <1>4, LenProperties
<1>6. ASSUME NEW k \in DOMAIN RemoveAt(s, i) PROVE \E j \in DOMAIN s : RemoveAt(s, i)[k] = s[j]
  <2>1. k \in 1..(i - 1) + (Len(s) - i)
    BY <1>4, <1>5
  <2>2. CASE k <= i - 1
    <3>1. k \in 1..i - 1 /\ k \in DOMAIN s
      BY <2>1, <2>2, <1>1
    <3> QED BY <3>1, <2>1, <2>2, <1>2, <1>4
  <2>3. CASE ~(k <= i - 1)
    <3>1. k - (i - 1) \in 1..Len(s) - i /\ i + (k - (i - 1)) \in DOMAIN s
      BY <2>1, <2>3, <1>1
    <3>2. RemoveAt(s, i)[k] = b[k - (i - 1)]
      BY <2>1, <2>3, <1>4
    <3> QED BY <3>1, <3>2, <1>3
  <2> QED BY <2>2, <2>3
<1>7. Len(s) = 1 => RemoveAt(s, i) = <<>>
  <2> SUFFICES ASSUME Len(s) = 1 PROVE RemoveAt(s, i) = <<>>
    OBVIOUS
  <2>1. Len(RemoveAt(s, i)) = 0
    BY <1>1, <1>4
  <2> QED BY <2>1, <1>4, EmptySeq
<1> QED BY <1>4, <1>6, <1>7

LEMMA SaveEndsStep == IInv /\ SaveEnds => IInv'
<1> SUFFICES ASSUME IInv, SaveEnds PROVE IInv'
  OBVIOUS
<1>1. PICK i \in DOMAIN writes : disk' \in {disk, writes[i].data} /\ writes' = RemoveAt(writes, i)
                               /\ torn' \in BOOLEAN
  BY DEF SaveEnds
<1>2. up /\ UNCHANGED <<up, pc, msgs, snapshot, open, wire, reads, clean, added, expected, delivered>>
  BY DEF SaveEnds, runVars, history
<1>3. writes \in Seq(Write) /\ reads' \in Nat /\ {torn', clean'} \subseteq BOOLEAN
  BY <1>1, <1>2 DEF IInv, TypeOK, Write
<1>4. /\ writes' \in Seq(Write)
      /\ \A k \in DOMAIN writes' : \E j \in DOMAIN writes : writes'[k] = writes[j]
  BY <1>1, <1>3, Removed
<1>5. Sound(disk', added, delivered) /\ \A k \in DOMAIN writes' : Sound(writes'[k].data, added, delivered)
  BY <1>1, <1>4 DEF IInv, Lists
<1> QED BY <1>2, <1>3, <1>4, <1>5, FileStep

LEMMA CrashStep == IInv /\ Crash => IInv'
<1> SUFFICES ASSUME IInv, Crash PROVE IInv'
  OBVIOUS
<1>1. /\ up' = FALSE /\ torn' \in BOOLEAN /\ disk' \in {disk} \cup {writes[i].data : i \in DOMAIN writes}
      /\ reads' = 0 /\ writes' = <<>>
      /\ pc' = "idle" /\ open' = 0 /\ wire' = <<>> /\ snapshot' = <<>> /\ msgs' = <<>>
      /\ UNCHANGED <<clean, added, expected, delivered>>
  BY DEF Crash, history, IInv, TypeOK
<1>2. Sound(disk', added, delivered)
  BY <1>1 DEF IInv, Lists
<1>3. /\ disk' \in Seq(Message) /\ <<>> \in Seq(Message) /\ 0 \in 0..MaxMessages
      /\ <<>> \in Seq([data : Seq(Message), mixed : BOOLEAN]) /\ DOMAIN <<>> = {}
  BY <1>2, Numbered DEF Sound, IInv
<1>4. TypeOK'
  BY <1>1, <1>3 DEF IInv, TypeOK, PCs
<1>5. Lists' /\ Answers'
  BY <1>1, <1>2, <1>3, EmptySound DEF Lists, Answers
<1>6. Opened' /\ Kept' /\ Down' /\ (delivered \subseteq 1..added)'
  BY <1>1 DEF IInv, Opened, Kept, Down
<1>7. CallsAreAnswered' /\ PairsStayTogether'
  BY <1>1, WireLater DEF IInv
<1> QED BY <1>4, <1>5, <1>6, <1>7 DEF IInv

\* A start commits what the file holds, whenever it was written.
LEMMA BootStep == IInv /\ Boot => IInv'
<1> SUFFICES ASSUME IInv, Boot PROVE IInv'
  OBVIOUS
<1>1. /\ ~up /\ up' = TRUE /\ msgs' = Commit(disk) /\ expected' = Covered(StripOrphans(disk))
      /\ UNCHANGED <<pc, snapshot, open, wire, disk, torn, reads, writes, clean, added, delivered>>
  BY DEF Boot, fileVars
<1>2. pc = "idle" /\ open = 0 /\ disk \in Seq(Message)
  BY <1>1 DEF IInv, Down, TypeOK
<1>3. Sound(msgs', added, delivered) /\ AllAnswered(msgs', 0) /\ Settled(msgs')
  BY <1>1, CommitSound DEF IInv, Lists
<1>4. expected' \subseteq Covered(msgs')
  BY <1>1, <1>2, CommitCovers
<1>5. msgs' \in Seq(Message) /\ expected' \subseteq Numbers
  <2>1. msgs' \in Seq(Message)
    BY <1>3 DEF Sound
  <2>2. \A i \in DOMAIN msgs' : msgs'[i].covers \subseteq Numbers
    BY <2>1, ListFacts, MessageFacts
  <2>3. Covered(msgs') \subseteq Numbers
    BY <2>2, CoveredIs
  <2> QED BY <2>1, <2>3, <1>4
<1>6. TypeOK'
  BY <1>1, <1>2, <1>5 DEF IInv, TypeOK, PCs
<1>7. Lists'
  BY <1>1, <1>3 DEF IInv, Lists
<1>8. Answers'
  BY <1>1, <1>2, <1>3 DEF IInv, Answers
<1>9. Opened' /\ Kept' /\ Down' /\ (delivered \subseteq 1..added)'
  BY <1>1, <1>2, <1>4 DEF IInv, Opened, Kept, Down
<1>10. CallsAreAnswered' /\ PairsStayTogether'
  BY <1>1, WireLater DEF IInv
<1> QED BY <1>6, <1>7, <1>8, <1>9, <1>10 DEF IInv

LEMMA Stutter == IInv /\ UNCHANGED vars => IInv'
BY DEF IInv, TypeOK, Lists, Answers, Opened, Kept, Down, CallsAreAnswered, PairsStayTogether,
       Interrupted, vars, runVars, fileVars, history

LEMMA Step == IInv /\ [Next]_vars => IInv'
BY StartStep, PromptsBuiltStep, OptimizeStartsStep, OptimizeEndsStep, SaysStep, ThinkStep, CallStep,
   ResultStep, RunEndsStep, FinishStep, DeliverStep, SavesStep, SaveWritesStep, SaveEndsStep,
   CrashStep, BootStep, Stutter
   DEF Next

LEMMA Always == Spec => []IInv
BY Initially, Step, PTL DEF Spec

-----------------------------------------------------------------------------
(***************************************************************************)
(* The file.                                                               *)
(***************************************************************************)
\* When whoever sends a run saves the session, the only write under way holds the
\* messages that are there, or a save that will write them is still to come.
LEMMA SavedInitially == Init => Saved
<1> SUFFICES ASSUME Init PROVE Saved
  OBVIOUS
<1>1. Len(writes) = 0 /\ Settling = msgs /\ DOMAIN writes = {} /\ ~torn
  BY EmptySeq DEF Init, Settling
<1> QED BY <1>1 DEF Saved

LEMMA SavedStep ==
    ASSUME Saving, IInv, Saved, [Next]_vars
    PROVE  Saved'
<1>1. writes \in Seq(Write) /\ Len(writes) \in Nat /\ reads \in Nat
  <2>1. writes \in Seq(Write) /\ reads \in Nat
    BY DEF IInv, TypeOK, Write
  <2> QED BY <2>1, LenProperties
\* Nothing about the file changes, and the session does not become quiet.
<1>2. ASSUME UNCHANGED <<disk, writes>>, clean' => clean, up' /\ clean' => up /\ torn' = torn,
             up' /\ clean' /\ pc' = "idle" /\ reads' = 0 =>
               up /\ pc = "idle" /\ reads = 0 /\ msgs' = msgs
      PROVE  Saved'
  <2>1. Settling' = Settling
    BY <1>2 DEF Settling
  <2> QED BY <1>2, <2>1 DEF Saved
<1>3. CASE \/ Start \/ PromptsBuilt \/ OptimizeStarts \/ OptimizeEnds \/ UserMessage \/ Think
           \/ Say \/ Call \/ Result \/ RunEnds
  <2>1. UNCHANGED <<disk, writes, clean, up, torn>>
    BY <1>3 DEF Start, PromptsBuilt, OptimizeStarts, OptimizeEnds, UserMessage, Think, Say, Call,
                Result, RunEnds, fileVars
  <2>2. pc' # "idle"
    BY <1>3 DEF Start, PromptsBuilt, OptimizeStarts, OptimizeEnds, UserMessage, Think, Say, Call,
                Result, RunEnds
  <2> QED BY <2>1, <2>2, <1>2
<1>4. CASE Finish \/ Deliver \/ ApiSaves
  <2>1. UNCHANGED <<disk, writes, clean, up, torn>>
    BY <1>4 DEF Finish, Deliver, ApiSaves, fileVars
  <2>2. reads' = reads + 1
    BY <1>4 DEF Finish, Deliver, ApiSaves
  <2>3. reads' # 0
    BY <2>2, <1>1
  <2> QED BY <2>1, <2>3, <1>2
<1>5. CASE SaveFails
  <2>1. UNCHANGED <<disk, writes>> /\ clean' = FALSE
    BY <1>5 DEF SaveFails
  <2> QED BY <2>1, <1>2
<1>6. CASE SaveWrites
  <2> SUFFICES ASSUME clean' PROVE /\ Len(writes') <= 1 /\ Settling' = msgs'
                                   /\ \A i \in DOMAIN writes' : ~writes'[i].mixed
    <3>1. up /\ UNCHANGED <<up, torn>> /\ (clean' => clean)
      BY <1>6 DEF SaveWrites
    <3> QED BY <3>1 DEF Saved
  <2>1. /\ writes = <<>> /\ msgs' = msgs
        /\ writes' = Append([i \in DOMAIN writes |-> [writes[i] EXCEPT !.mixed = TRUE]],
                            [data |-> msgs, mixed |-> FALSE])
    BY <1>6 DEF SaveWrites, runVars
  <2>2. [i \in DOMAIN writes |-> [writes[i] EXCEPT !.mixed = TRUE]] = <<>>
    BY <2>1
  <2> DEFINE new == [data |-> msgs, mixed |-> FALSE]
  <2>3. new \in Write /\ new.data = msgs /\ ~new.mixed
    BY DEF Write, IInv, TypeOK
  <2> HIDE DEF new
  <2>4. writes' = Append(<<>>, new)
    BY <2>1, <2>2 DEF new
  <2>5. <<>> \in Seq(Write) /\ Len(<<>>) = 0
    BY EmptySeq
  <2>6. Len(writes') = 1 /\ writes'[1] = new /\ writes' # <<>> /\ DOMAIN writes' = 1..1
    BY <2>3, <2>4, <2>5, AppendProperties
  <2> QED BY <2>1, <2>3, <2>6 DEF Settling
<1>7. CASE SaveEnds
  <2> SUFFICES ASSUME clean' PROVE Saved'
    BY DEF Saved
  <2>1. PICK i \in DOMAIN writes :
            /\ writes' = RemoveAt(writes, i)
            /\ (disk' = writes[i].data /\ torn' = FALSE) \/ writes[i].mixed
    BY <1>7 DEF SaveEnds
  <2>2. UNCHANGED <<up, pc, msgs, reads, clean>>
    BY <1>7 DEF SaveEnds, runVars
  <2>0. disk' = writes[i].data /\ torn' = FALSE
    BY <2>1, <2>2 DEF Saved
  <2>3. Len(writes) <= 1 /\ i \in 1..Len(writes)
    BY <2>1, <2>2, <1>1, LenProperties DEF Saved
  <2>4. Len(writes) = 1 /\ i = 1 /\ writes # <<>>
    <3>1. Len(writes) = 1 /\ i = 1
      <4>1. \A n \in Nat : n <= 1 /\ i \in 1..n => n = 1 /\ i = 1
        OBVIOUS
      <4>2. Len(writes) \in Nat /\ Len(writes) <= 1 /\ i \in 1..Len(writes)
        BY <2>3, <1>1
      <4> QED BY <4>1, <4>2
    <3> QED BY <3>1, EmptySeq
  <2>5. writes' = <<>> /\ Len(writes') = 0 /\ DOMAIN writes' = {}
    BY <2>1, <2>4, <1>1, Removed, EmptySeq
  <2>6. Settling' = writes[1].data /\ Settling = writes[1].data
    BY <2>0, <2>4, <2>5 DEF Settling
  <2> QED BY <2>0, <2>2, <2>5, <2>6 DEF Saved
<1>8. CASE Crash
  <2>1. up' = FALSE /\ writes' = <<>> /\ Len(writes') = 0 /\ DOMAIN writes' = {}
    BY <1>8, EmptySeq DEF Crash
  <2> QED BY <2>1 DEF Saved
<1>9. CASE Boot
  <2>1. writes = <<>> /\ UNCHANGED <<disk, writes, clean, torn>> /\ ~torn /\ msgs' = Commit(disk)
    BY <1>9 DEF Boot, fileVars, IInv, Down
  <2>2. Settling' = disk /\ Len(writes') = 0 /\ DOMAIN writes' = {}
    BY <2>1, EmptySeq DEF Settling
  <2>3. Commit(Commit(disk)) = Commit(disk)
    BY CommitAgain DEF IInv, Lists
  <2> QED BY <2>1, <2>2, <2>3 DEF Saved
<1>10. CASE UNCHANGED vars
  BY <1>10, <1>2 DEF vars, runVars, fileVars
<1> QED BY <1>3, <1>4, <1>5, <1>6, <1>7, <1>8, <1>9, <1>10 DEF Next

-----------------------------------------------------------------------------
(***************************************************************************)
(* Theorems.                                                               *)
(***************************************************************************)
\* Whatever is delivered, stopped, summarised, saved or lost in a crash: what a run
\* gives its strategy (Agent.executeLoop) has every call answered, and every result
\* behind its call unless a delivery came between them; and the messages of the
\* session stay in the order in which they were added.
THEOREM WireStaysCoherent == Spec => []WireIsCoherent
<1>1. IInv => WireIsCoherent
  BY DEF IInv, WireIsCoherent, Lists, Sound, Ordered, InOrder
<1> QED BY <1>1, Always, PTL

\* No message of a run is lost to system prompts that are rebuilt, to an optimizer
\* (SessionSummarizer, ToolCallCompressor) or to the commit; only a call that has no
\* result is withdrawn (Session.commitSession).
THEOREM OwnMessagesStay == Spec => []OwnMessagesKept
<1>1. IInv => OwnMessagesKept
  BY DEF IInv, Kept, OwnMessagesKept
<1> QED BY <1>1, Always, PTL

\* Where the session is saved after each run (channels; the scheduler does not,
\* Saving = FALSE), a quiet session's file brings back its messages, unless two writes
\* of it overlapped (JsonSessionRepository.persist).
THEOREM QuietIsDurable ==
    ASSUME Saving
    PROVE  Spec => []DurableWhenQuiet
<1>1. IInv /\ Saved /\ [Next]_vars => Saved'
  BY SavedStep
<1>2. Spec => []Saved
  BY <1>1, SavedInitially, Always, PTL DEF Spec
<1>3. Saved => DurableWhenQuiet
  BY DEF Saved, Settling, DurableWhenQuiet
<1> QED BY <1>2, <1>3, PTL
=============================================================================
