--------------------------- MODULE EventStoreProofs --------------------------
(***************************************************************************)
(* Proofs about the private event store, for every number of processes,    *)
(* threads and events: the queue of its admission gate agrees with the     *)
(* threads and nobody overtakes a waiter; its file lists the records in    *)
(* the order of writing, its results are true of the file, and it          *)
(* implements the durable log.                                             *)
(***************************************************************************)
EXTENDS EventStore, AdmissionGate, FiniteSetTheorems, SequenceTheorems, NaturalsInduction, TLAPS

-----------------------------------------------------------------------------
(* Queues of threads *)

\* A sequence without repetitions keeps that, and loses one element, when the
\* element at one position is taken out.
LEMMA RemoveAtFacts ==
    ASSUME NEW S, NEW s \in Seq(S), IsInjective(s), NEW i \in DOMAIN s
    PROVE  /\ RemoveAt(s, i) \in Seq(S) /\ IsInjective(RemoveAt(s, i))
           /\ ToSet(RemoveAt(s, i)) = ToSet(s) \ {s[i]}
<1> DEFINE a == SubSeq(s, 1, i - 1)
           b == SubSeq(s, i + 1, Len(s))
           r == RemoveAt(s, i)
<1>1. /\ Len(s) \in Nat /\ DOMAIN s = 1..Len(s) /\ i \in 1..Len(s)
      /\ \A j \in 1..Len(s) : s[j] \in S
  BY LenProperties, ElementOfSeq
<1>2. /\ a \in Seq(S) /\ Len(a) = i - 1 /\ \A j \in 1..(i - 1) : a[j] = s[j]
  BY <1>1, SubSeqProperties
<1>3. /\ b \in Seq(S) /\ Len(b) = Len(s) - i /\ \A j \in 1..(Len(s) - i) : b[j] = s[i + j]
  <2>1. \A j \in (i + 1)..Len(s) : s[j] \in S
    BY <1>1
  <2>2. /\ b \in Seq(S)
        /\ Len(b) = IF i + 1 <= Len(s) THEN Len(s) - (i + 1) + 1 ELSE 0
        /\ \A j \in 1..(Len(s) - (i + 1) + 1) : b[j] = s[i + 1 + j - 1]
    BY <1>1, <2>1, SubSeqProperties
  <2> HIDE DEF b
  <2>3. Len(b) = Len(s) - i
    BY <1>1, <2>2
  <2>4. ASSUME NEW j \in 1..(Len(s) - i) PROVE b[j] = s[i + j]
    <3>1. j \in 1..(Len(s) - (i + 1) + 1) /\ i + 1 + j - 1 = i + j
      BY <1>1
    <3> QED
      BY <2>2, <3>1
  <2> QED
    BY <2>2, <2>3, <2>4
<1>4. r = a \o b
  BY DEF RemoveAt
<1> HIDE DEF a, b, r
<1>5. /\ r \in Seq(S) /\ Len(r) = Len(s) - 1
      /\ \A j \in 1..(Len(s) - 1) : r[j] = IF j <= i - 1 THEN a[j] ELSE b[j - (i - 1)]
  <2>1. /\ r \in Seq(S) /\ Len(r) = Len(a) + Len(b)
        /\ \A j \in 1..Len(a) + Len(b) : r[j] = IF j <= Len(a) THEN a[j] ELSE b[j - Len(a)]
    BY <1>2, <1>3, <1>4, ConcatProperties
  <2>2. Len(a) + Len(b) = Len(s) - 1
    BY <1>1, <1>2, <1>3
  <2> QED
    BY <1>2, <2>1, <2>2
<1>6. ASSUME NEW j \in 1..(Len(s) - 1) PROVE r[j] = s[IF j < i THEN j ELSE j + 1]
  <2>1. CASE j < i
    BY <1>1, <1>2, <1>5, <2>1
  <2>2. CASE j >= i
    <3>1. j - (i - 1) \in 1..(Len(s) - i) /\ i + (j - (i - 1)) = j + 1
      BY <1>1, <2>2
    <3>2. r[j] = b[j - (i - 1)]
      <4>1. ~(j <= i - 1)
        BY <1>1, <2>2
      <4> QED
        BY ONLY <1>5, <4>1, j \in 1..(Len(s) - 1)
    <3> QED
      BY <1>1, <1>3, <2>2, <3>1, <3>2
  <2> QED
    BY <1>1, <2>1, <2>2
<1>7. DOMAIN r = 1..(Len(s) - 1)
  BY <1>5, LenProperties
<1>8. IsInjective(r)
  <2> SUFFICES ASSUME NEW j \in 1..(Len(s) - 1), NEW k \in 1..(Len(s) - 1), r[j] = r[k] PROVE j = k
    BY <1>7 DEF IsInjective
  <2> DEFINE At(n) == IF n < i THEN n ELSE n + 1
  <2>1. At(j) \in 1..Len(s) /\ At(k) \in 1..Len(s) /\ s[At(j)] = s[At(k)]
    BY <1>1, <1>6
  <2>2. At(j) = At(k)
    BY <1>1, <2>1 DEF IsInjective
  <2> QED
    BY <1>1, <2>2
<1>9. ToSet(r) = ToSet(s) \ {s[i]}
  <2>1. \A j \in 1..(Len(s) - 1) : r[j] \in ToSet(s) \ {s[i]}
    BY <1>1, <1>6 DEF IsInjective, ToSet
  <2>2. ASSUME NEW k \in 1..Len(s), k # i PROVE s[k] \in ToSet(r)
    <3>1. CASE k < i
      BY <1>1, <1>6, <1>7, <3>1 DEF ToSet
    <3>2. CASE k > i
      <4>1. k - 1 \in DOMAIN r /\ r[k - 1] = s[k]
        BY <1>1, <1>6, <1>7, <3>2
      <4> QED
        BY <4>1 DEF ToSet
    <3> QED
      BY <1>1, <2>2, <3>1, <3>2
  <2> QED
    BY <1>1, <1>7, <2>1, <2>2 DEF ToSet
<1> QED
  BY <1>5, <1>8, <1>9 DEF r

\* The same for popleft() ...
LEMMA TailFacts ==
    ASSUME NEW S, NEW s \in Seq(S), IsInjective(s), s # <<>>
    PROVE  Tail(s) \in Seq(S) /\ IsInjective(Tail(s)) /\ ToSet(Tail(s)) = ToSet(s) \ {Head(s)}
<1>1. /\ Tail(s) \in Seq(S) /\ Len(Tail(s)) = Len(s) - 1 /\ Len(s) \in Nat \ {0}
      /\ \A j \in 1..Len(Tail(s)) : Tail(s)[j] = s[j + 1]
  BY HeadTailProperties, EmptySeq
<1>2. DOMAIN s = 1..Len(s) /\ DOMAIN Tail(s) = 1..(Len(s) - 1) /\ Head(s) = s[1]
  BY <1>1, LenProperties
<1>3. IsInjective(Tail(s))
  BY <1>1, <1>2 DEF IsInjective
<1>4. \A j \in 1..(Len(s) - 1) : Tail(s)[j] \in ToSet(s) \ {Head(s)}
  BY <1>1, <1>2 DEF IsInjective, ToSet
<1>5. ASSUME NEW k \in 1..Len(s), k # 1 PROVE s[k] \in ToSet(Tail(s))
  <2>1. k - 1 \in DOMAIN Tail(s) /\ Tail(s)[k - 1] = s[k]
    BY <1>1, <1>2, <1>5
  <2> QED
    BY <2>1 DEF ToSet
<1>6. ToSet(Tail(s)) = ToSet(s) \ {Head(s)}
  BY <1>2, <1>4, <1>5 DEF ToSet
<1> QED
  BY <1>1, <1>3, <1>6

\* ... and for append() of a new token.
LEMMA AppendFacts ==
    ASSUME NEW S, NEW s \in Seq(S), IsInjective(s), NEW e \in S, e \notin ToSet(s)
    PROVE  /\ Append(s, e) \in Seq(S) /\ IsInjective(Append(s, e))
           /\ ToSet(Append(s, e)) = ToSet(s) \cup {e}
           /\ Head(Append(s, e)) = IF s = <<>> THEN e ELSE Head(s)
<1>1. /\ Append(s, e) \in Seq(S) /\ Len(Append(s, e)) = Len(s) + 1 /\ Len(s) \in Nat
      /\ Append(s, e)[Len(s) + 1] = e
      /\ \A j \in 1..Len(s) : Append(s, e)[j] = s[j]
  BY AppendProperties, LenProperties
<1>2. DOMAIN s = 1..Len(s) /\ DOMAIN Append(s, e) = 1..(Len(s) + 1)
  BY <1>1, LenProperties
<1>3. \A j \in 1..Len(s) : s[j] # e
  BY <1>2 DEF ToSet
<1>4. IsInjective(Append(s, e))
  BY <1>1, <1>2, <1>3 DEF IsInjective
<1>5. ToSet(Append(s, e)) = ToSet(s) \cup {e}
  BY <1>1, <1>2 DEF ToSet
<1>6. Head(Append(s, e)) = IF s = <<>> THEN e ELSE Head(s)
  BY AppendProperties
<1> QED
  BY <1>1, <1>4, <1>5, <1>6

-----------------------------------------------------------------------------
(* The admission gate *)

\* Before the first acquire() the gate is free and nobody waits.
LEMMA InitQueue == GateInit => QueueOK
<1> SUFFICES ASSUME GateInit PROVE QueueOK
  OBVIOUS
<1>1. waiters \in Seq(Threads) /\ DOMAIN waiters = {}
  BY EmptySeq, LenProperties DEF GateInit
<1>2. ToSet(waiters) = {} /\ IsInjective(waiters)
  BY <1>1 DEF ToSet, IsInjective
<1>3. held = FALSE /\ held \in BOOLEAN
  BY DEF GateInit
<1> QED
  BY <1>1, <1>2, <1>3 DEF GateInit, QueueOK

\* Every section under the condition's lock keeps the queue, the gate and the threads
\* in agreement; in particular a timeout takes its own token with it.
LEMMA QueueStep == QueueOK /\ [GateNext]_gateVars => QueueOK'
<1> SUFFICES ASSUME QueueOK, [GateNext]_gateVars PROVE QueueOK'
  OBVIOUS
<1>1. ASSUME NEW h \in Threads, Enter(h) PROVE QueueOK'
  <2>1. place[h] = "out" /\ h \notin ToSet(waiters) /\ late' = late
    BY <1>1 DEF Enter, QueueOK
  <2>2. CASE Blocked(h, Append(waiters, h))
    <3>1. /\ waiters' = Append(waiters, h) /\ place' = [place EXCEPT ![h] = "waiting"]
          /\ asleep' = asleep \cup {h} /\ held' = held
      BY <1>1, <2>2 DEF Enter
    <3>2. /\ waiters' \in Seq(Threads) /\ IsInjective(waiters')
          /\ ToSet(waiters') = ToSet(waiters) \cup {h}
      BY <2>1, <3>1, AppendFacts DEF QueueOK
    <3> QED
      BY <2>1, <3>1, <3>2 DEF QueueOK
  <2>3. CASE ~Blocked(h, Append(waiters, h))
    <3>1. /\ waiters' = waiters /\ place' = [place EXCEPT ![h] = "in"]
          /\ asleep' = asleep /\ held' = TRUE
      BY <1>1, <2>3 DEF Enter
    <3>2. ~held
      BY <2>3 DEF Blocked
    <3>3. held' \in BOOLEAN
      BY <3>1
    <3> QED
      BY <2>1, <3>1, <3>2, <3>3 DEF QueueOK
  <2> QED
    BY <2>2, <2>3
<1>2. ASSUME NEW h \in Threads, Admit(h) PROVE QueueOK'
  <2>1. /\ place[h] = "waiting" /\ h \notin asleep /\ ~held /\ Head(waiters) = h
        /\ waiters' = Tail(waiters) /\ held' = TRUE /\ place' = [place EXCEPT ![h] = "in"]
        /\ late' = late \ {h} /\ asleep' = asleep
    BY <1>2 DEF Admit, Blocked
  <2>2. waiters # <<>>
    <3>1. h \in ToSet(waiters)
      BY <2>1 DEF QueueOK
    <3>2. ToSet(<<>>) = {}
      BY DEF ToSet
    <3> QED
      BY <3>1, <3>2
  <2>3. /\ waiters' \in Seq(Threads) /\ IsInjective(waiters')
        /\ ToSet(waiters') = ToSet(waiters) \ {h}
    BY <2>1, <2>2, TailFacts DEF QueueOK
  <2>4. held' \in BOOLEAN
    BY <2>1
  <2> QED
    BY <2>1, <2>3, <2>4 DEF QueueOK
<1>3. ASSUME NEW h \in Threads, SleepAgain(h) PROVE QueueOK'
  BY <1>3 DEF SleepAgain, QueueOK
<1>4. ASSUME NEW h \in Threads, GiveUp(h) PROVE QueueOK'
  <2>1. /\ place[h] = "waiting" /\ h \notin asleep
        /\ place' = [place EXCEPT ![h] = "out"] /\ asleep' = {} /\ late' = late \ {h} /\ held' = held
    BY <1>4 DEF GiveUp
  <2>2. PICK i \in DOMAIN waiters : waiters[i] = h /\ waiters' = RemoveAt(waiters, i)
    BY <1>4 DEF GiveUp
  <2>3. /\ waiters' \in Seq(Threads) /\ IsInjective(waiters')
        /\ ToSet(waiters') = ToSet(waiters) \ {h}
    BY <2>2, RemoveAtFacts DEF QueueOK
  <2> QED
    BY <2>1, <2>3 DEF QueueOK
<1>5. ASSUME NEW h \in Threads, Release(h) PROVE QueueOK'
  <2>1. held' = FALSE /\ held' \in BOOLEAN
    BY <1>5 DEF Release
  <2> QED
    BY <1>5, <2>1 DEF Release, QueueOK
<1>6. ASSUME NEW h \in Threads, Deadline(h) PROVE QueueOK'
  BY <1>6 DEF Deadline, QueueOK
<1>7. CASE UNCHANGED gateVars
  BY <1>7 DEF gateVars, QueueOK
<1> QED
  BY <1>1, <1>2, <1>3, <1>4, <1>5, <1>6, <1>7 DEF GateNext, Resume

\* The queue holds exactly the waiting threads, each once, and the gate is held
\* exactly when one thread is in: no token is left behind by a timeout.
THEOREM QueueCorrect == GateSpec => []QueueOK
BY InitQueue, QueueStep, PTL DEF GateSpec

\* The gate is first in, first out: who gets in was first, or found nobody waiting.
THEOREM NoOvertakingTheorem == GateSpec => NoOvertaking
<1> DEFINE FirstIn(h) == place[h] # "in" /\ place'[h] = "in" => waiters = <<>> \/ Head(waiters) = h
<1>1. QueueOK /\ [GateNext]_gateVars => [\A h \in Threads : FirstIn(h)]_gateVars
  <2> SUFFICES ASSUME QueueOK, NEW g \in Threads, Enter(g) \/ Resume(g) \/ Release(g) \/ Deadline(g),
                      NEW h \in Threads
               PROVE  FirstIn(h)
    BY DEF GateNext
  <2>1. CASE Enter(g)
    <3>1. place[g] = "out" /\ g \notin ToSet(waiters)
      BY <2>1 DEF Enter, QueueOK
    <3>2. Head(Append(waiters, g)) = IF waiters = <<>> THEN g ELSE Head(waiters)
      BY <3>1, AppendFacts DEF QueueOK
    <3> QED
      BY <2>1, <3>1, <3>2 DEF Enter, Blocked, QueueOK
  <2>2. CASE Admit(g)
    BY <2>2 DEF Admit, Blocked, QueueOK
  <2>3. CASE SleepAgain(g) \/ GiveUp(g) \/ Release(g) \/ Deadline(g)
    BY <2>3 DEF SleepAgain, GiveUp, Release, Deadline, QueueOK
  <2> QED
    BY <2>1, <2>2, <2>3 DEF Resume
<1> QED
  BY QueueCorrect, <1>1, PTL DEF GateSpec, NoOvertaking
-----------------------------------------------------------------------------
(* Loops *)

\* A set of natural numbers that is not empty has a least element.
LEMMA LeastNumber ==
    ASSUME NEW S \in SUBSET Nat, S # {}
    PROVE  \E n \in S : \A m \in S : n <= m
<1>1. IsWellFoundedOn(OpToRel(<, Nat), Nat)
  BY NatLessThanWellFounded
<1>2. \E n \in S : \A m \in S : ~(<<m, n>> \in OpToRel(<, Nat))
  BY <1>1, WFMin
<1>3. \A m, n \in Nat : m < n => <<m, n>> \in OpToRel(<, Nat)
  BY DEF OpToRel
<1>4. PICK n \in S : \A m \in S : ~(<<m, n>> \in OpToRel(<, Nat))
  BY <1>2
<1>5. \A m \in S : m \in Nat /\ n \in Nat /\ ~(m < n)
  BY <1>3, <1>4
<1> QED
  BY <1>5

\* What a loop of n rounds computes that begins with x and changes it by the functions
\* of step, round by round.
Runs(step, x, n, g) == g = [k \in 0..n |-> IF k = 0 THEN x ELSE step[k][g[k - 1]]]

\* A loop over N things computes something.
LEMMA LoopRuns ==
    ASSUME NEW X, NEW x \in X, NEW N \in Nat, NEW step \in [1..N -> [X -> X]]
    PROVE  \E g \in [0..N -> X] : Runs(step, x, N, g)
<1> DEFINE Good(n) == \E g \in [0..n -> X] : Runs(step, x, n, g)
           Bad == {n \in 0..N : ~Good(n)}
<1> SUFFICES ASSUME Bad # {}
             PROVE  FALSE
  OBVIOUS
<1>1. Bad \in SUBSET Nat
  OBVIOUS
<1> HIDE DEF Good
<1>2. PICK n \in Bad : \A m \in Bad : n <= m
  BY <1>1, LeastNumber
<1>3. n \in 0..N /\ n \in Nat /\ ~Good(n)
  OBVIOUS
<1>4. CASE n = 0
  <2> DEFINE g == [k \in 0..0 |-> x]
  <2>1. g \in [0..0 -> X] /\ Runs(step, x, 0, g)
    BY DEF Runs
  <2> QED
    BY <1>3, <1>4, <2>1 DEF Good
<1>5. CASE n # 0
  <2>1. n - 1 \in 0..N /\ ~(n <= n - 1) /\ n \in 1..N
    BY <1>3, <1>5
  <2>2. Good(n - 1)
    BY <1>2, <2>1
  <2>3. PICK g \in [0..(n - 1) -> X] : Runs(step, x, n - 1, g)
    BY <2>2 DEF Good
  <2> DEFINE v == step[n][g[n - 1]]
             h == [k \in 0..n |-> IF k = n THEN v ELSE g[k]]
  <2>4. v \in X
    <3>1. step[n] \in [X -> X]
      BY <2>1
    <3>2. n - 1 \in 0..(n - 1)
      BY <2>1
    <3>3. g[n - 1] \in X
      BY <3>2
    <3> QED
      BY <3>1, <3>3
  <2>5. h \in [0..n -> X]
    <3>1. \A k \in 0..n : k # n => k \in 0..(n - 1)
      BY <1>3
    <3> HIDE DEF v
    <3> QED
      BY <2>4, <3>1
  <2>6. \A k \in 0..n : h[k] = IF k = 0 THEN x ELSE step[k][h[k - 1]]
    <3> SUFFICES ASSUME NEW k \in 0..n
                 PROVE  h[k] = IF k = 0 THEN x ELSE step[k][h[k - 1]]
      OBVIOUS
    <3>1. CASE k = n
      <4>1. k - 1 \in 0..n /\ k - 1 # n /\ k # 0
        BY <1>3, <1>5, <3>1
      <4>2. h[k - 1] = g[n - 1] /\ h[k] = v
        BY <3>1, <4>1
      <4> QED
        BY <3>1, <4>1, <4>2
    <3>2. CASE k # n
      <4>1. k \in 0..(n - 1) /\ (k # 0 => k - 1 \in 0..n /\ k - 1 # n)
        BY <1>3, <3>2
      <4>2. h[k] = g[k] /\ (k # 0 => h[k - 1] = g[k - 1])
        BY <3>2, <4>1
      <4>3. g[k] = IF k = 0 THEN x ELSE step[k][g[k - 1]]
        BY <2>3, <4>1 DEF Runs
      <4> QED
        BY <4>2, <4>3
    <3> QED
      BY <3>1, <3>2
  <2>7. Runs(step, x, n, h)
    BY <2>6 DEF Runs
  <2> QED
    BY <1>3, <2>5, <2>7 DEF Good
<1> QED
  BY <1>4, <1>5

\* The running totals of N numbers.
Totals(N, v, g) ==
    /\ g \in [0..N -> Nat] /\ g[0] = 0
    /\ \A n \in 1..N : g[n] = g[n - 1] + v[n]

\* Numbers have running totals.
LEMMA TotalsExist ==
    ASSUME NEW N \in Nat, NEW v \in [1..N -> Nat]
    PROVE  \E g : /\ Totals(N, v, g)
                  /\ g = [n \in 0..N |-> IF n = 0 THEN 0 ELSE g[n - 1] + v[n]]
<1> DEFINE step == [k \in 1..N |-> [x \in Nat |-> x + v[k]]]
<1>1. step \in [1..N -> [Nat -> Nat]]
  OBVIOUS
<1>2. 0 \in Nat
  OBVIOUS
<1> HIDE DEF step
<1>3. PICK g \in [0..N -> Nat] : Runs(step, 0, N, g)
  BY <1>1, <1>2, LoopRuns
<1>4. \A n \in 1..N : n - 1 \in 0..N /\ step[n][g[n - 1]] = g[n - 1] + v[n]
  <2> SUFFICES ASSUME NEW n \in 1..N
               PROVE  n - 1 \in 0..N /\ step[n][g[n - 1]] = g[n - 1] + v[n]
    OBVIOUS
  <2>1. n - 1 \in 0..N
    OBVIOUS
  <2>2. g[n - 1] \in Nat
    BY <2>1
  <2> QED
    BY <2>1, <2>2 DEF step
<1>5. \A n \in 0..N : g[n] = IF n = 0 THEN 0 ELSE g[n - 1] + v[n]
  <2>1. \A n \in 0..N : n # 0 => n \in 1..N
    OBVIOUS
  <2>2. \A n \in 0..N : g[n] = IF n = 0 THEN 0 ELSE step[n][g[n - 1]]
    BY <1>3 DEF Runs
  <2> QED
    BY <1>4, <2>1, <2>2
<1>6. g = [n \in 0..N |-> IF n = 0 THEN 0 ELSE g[n - 1] + v[n]]
  BY <1>5
<1>7. Totals(N, v, g)
  <2>1. 0 \in 0..N /\ \A n \in 1..N : n \in 0..N /\ n # 0
    OBVIOUS
  <2> QED
    BY <1>5, <2>1 DEF Totals
<1> QED
  BY <1>6, <1>7

\* Whatever satisfies the recursion of a loop that adds up are the running totals.
LEMMA SumIsTotals ==
    ASSUME NEW N \in Nat, NEW v \in [1..N -> Nat], NEW g,
           g = [n \in 0..N |-> IF n = 0 THEN 0 ELSE g[n - 1] + v[n]]
    PROVE  Totals(N, v, g)
<1>1. \A n \in 0..N : g[n] = IF n = 0 THEN 0 ELSE g[n - 1] + v[n]
  OBVIOUS
<1>2. \A n \in 0..N : g[n] \in Nat
  <2> DEFINE Bad == {n \in 0..N : g[n] \notin Nat}
  <2> SUFFICES ASSUME Bad # {}
               PROVE  FALSE
    OBVIOUS
  <2>1. Bad \in SUBSET Nat
    OBVIOUS
  <2>2. PICK n \in Bad : \A m \in Bad : n <= m
    BY <2>1, LeastNumber
  <2>3. n \in 0..N /\ g[n] \notin Nat
    OBVIOUS
  <2>4. n # 0
    BY <1>1, <2>3
  <2>5. n \in 1..N /\ n - 1 \in 0..N /\ ~(n <= n - 1)
    BY <2>3, <2>4
  <2>6. g[n - 1] \in Nat
    BY <2>2, <2>5
  <2>7. v[n] \in Nat /\ g[n] = g[n - 1] + v[n]
    BY <1>1, <2>3, <2>4, <2>5
  <2> QED
    BY <2>3, <2>6, <2>7
<1>3. g = [n \in 0..N |-> g[n]]
  OBVIOUS
<1>4. g \in [0..N -> Nat]
  BY <1>2, <1>3
<1>5. 0 \in 0..N /\ \A n \in 1..N : n \in 0..N /\ n # 0
  OBVIOUS
<1>6. g[0] = 0 /\ \A n \in 1..N : g[n] = g[n - 1] + v[n]
  BY <1>1, <1>5
<1> QED
  BY <1>4, <1>6 DEF Totals

-----------------------------------------------------------------------------
(* Sizes *)

Stamped == [id : Events, at : Nat]

\* The entries are events with a time.
LEMMA EntriesTyped ==
    ASSUME order \in Seq(Stamped)
    PROVE  /\ Len(order) \in Nat /\ DOMAIN order = 1..Len(order)
           /\ \A n \in 1..Len(order) : order[n].id \in Events /\ order[n].at \in Nat
<1>1. Len(order) \in Nat /\ DOMAIN order = 1..Len(order) /\ \A n \in 1..Len(order) : order[n] \in Stamped
  OBVIOUS
<1>2. \A e \in Stamped : e.id \in Events /\ e.at \in Nat
  BY DEF Stamped
<1> QED
  BY <1>1, <1>2

\* What the entries at positions S weigh, one by one.
Weights(S) == [n \in 1..Len(order) |-> IF n \in S THEN SizeOf[order[n].id] ELSE 0]

\* The size of a set of entries is the total of their weights.
LEMMA SizeIsTotal ==
    ASSUME order \in Seq(Stamped), NEW S
    PROVE  \E g : Totals(Len(order), Weights(S), g) /\ Promise!Size(S) = g[Len(order)]
<1> DEFINE N == Len(order)
           v == Weights(S)
           Sums(g) == g = [n \in 0..N |-> IF n = 0 THEN 0
                                          ELSE g[n - 1] + (IF n \in S THEN SizeOf[order[n].id] ELSE 0)]
           sum == CHOOSE g : Sums(g)
<1>1. N \in Nat /\ \A n \in 1..N : order[n].id \in Events
  BY EntriesTyped
<1>2. \A e \in Events : SizeOf[e] \in Nat
  BY PolicyAssumption
<1>3. v \in [1..N -> Nat]
  BY <1>1, <1>2 DEF Weights
<1>4. Promise!Size(S) = sum[N]
  BY DEF Promise!Size
<1>5. \A n \in 0..N : n # 0 => v[n] = IF n \in S THEN SizeOf[order[n].id] ELSE 0
  BY <1>1 DEF Weights
<1> HIDE DEF v, N, sum
<1>6. PICK g : g = [n \in 0..N |-> IF n = 0 THEN 0 ELSE g[n - 1] + v[n]]
  BY <1>1, <1>3, TotalsExist
<1>7. Sums(g)
  <2>1. \A n \in 0..N : (IF n = 0 THEN 0 ELSE g[n - 1] + v[n])
            = (IF n = 0 THEN 0 ELSE g[n - 1] + (IF n \in S THEN SizeOf[order[n].id] ELSE 0))
    BY <1>5
  <2> QED
    BY <1>6, <2>1
<1>8. Sums(sum)
  BY <1>7 DEF sum
<1>9. sum = [n \in 0..N |-> IF n = 0 THEN 0 ELSE sum[n - 1] + v[n]]
  <2>1. \A n \in 0..N : (IF n = 0 THEN 0 ELSE sum[n - 1] + v[n])
            = (IF n = 0 THEN 0 ELSE sum[n - 1] + (IF n \in S THEN SizeOf[order[n].id] ELSE 0))
    BY <1>5
  <2> QED
    BY <1>8, <2>1
<1>10. Totals(N, v, sum)
  BY <1>1, <1>3, <1>9, SumIsTotals
<1> QED
  BY <1>4, <1>10 DEF N, v

\* The bytes of a sequence of lines are the total of their sizes.
LEMMA BytesAreTotal ==
    ASSUME NEW q \in Seq(Line), \A i \in 1..Len(q) : q[i].id \in Events
    PROVE  \E g : /\ Totals(Len(q), [n \in 1..Len(q) |-> SizeOf[q[n].id]], g)
                  /\ BytesOf(q) = g[Len(q)]
<1> DEFINE N == Len(q)
           v == [n \in 1..N |-> SizeOf[q[n].id]]
           Sums(g) == g = [n \in 0..N |-> IF n = 0 THEN 0 ELSE g[n - 1] + SizeOf[q[n].id]]
           sum == CHOOSE g : Sums(g)
<1>1. N \in Nat
  OBVIOUS
<1>2. \A e \in Events : SizeOf[e] \in Nat
  BY PolicyAssumption
<1>3. v \in [1..N -> Nat]
  BY <1>2
<1>4. BytesOf(q) = sum[N]
  BY DEF BytesOf
<1>5. \A n \in 0..N : n # 0 => v[n] = SizeOf[q[n].id]
  BY <1>1
<1> HIDE DEF v, N, sum
<1>6. PICK g : g = [n \in 0..N |-> IF n = 0 THEN 0 ELSE g[n - 1] + v[n]]
  BY <1>1, <1>3, TotalsExist
<1>7. Sums(g)
  <2>1. \A n \in 0..N : (IF n = 0 THEN 0 ELSE g[n - 1] + v[n])
            = (IF n = 0 THEN 0 ELSE g[n - 1] + SizeOf[q[n].id])
    BY <1>5
  <2> QED
    BY <1>6, <2>1
<1>8. Sums(sum)
  BY <1>7 DEF sum
<1>9. sum = [n \in 0..N |-> IF n = 0 THEN 0 ELSE sum[n - 1] + v[n]]
  <2>1. \A n \in 0..N : (IF n = 0 THEN 0 ELSE sum[n - 1] + v[n])
            = (IF n = 0 THEN 0 ELSE sum[n - 1] + SizeOf[q[n].id])
    BY <1>5
  <2> QED
    BY <1>8, <2>1
<1>10. Totals(N, v, sum)
  BY <1>1, <1>3, <1>9, SumIsTotals
<1> QED
  BY <1>4, <1>10 DEF N, v

\* No lines have no bytes.
LEMMA NothingIsEmpty == BytesOf(<<>>) = 0
<1>1. <<>> \in Seq(Line) /\ Len(<<>>) = 0
  OBVIOUS
<1>2. \A i \in 1..Len(<<>>) : <<>>[i].id \in Events
  BY <1>1
<1> HIDE DEF Line
<1>3. PICK g : /\ Totals(Len(<<>>), [n \in 1..Len(<<>>) |-> SizeOf[<<>>[n].id]], g)
               /\ BytesOf(<<>>) = g[Len(<<>>)]
  BY <1>1, <1>2, BytesAreTotal
<1> QED
  BY <1>1, <1>3 DEF Totals

\* Weights are numbers.
LEMMA WeightsTyped ==
    ASSUME order \in Seq(Stamped), NEW S
    PROVE  \A n \in 1..Len(order) :
               /\ Weights(S)[n] = IF n \in S THEN SizeOf[order[n].id] ELSE 0
               /\ Weights(S)[n] \in Nat
               /\ SizeOf[order[n].id] \in Nat
<1>1. \A n \in 1..Len(order) : order[n].id \in Events
  BY EntriesTyped
<1>2. \A e \in Events : SizeOf[e] \in Nat
  BY PolicyAssumption
<1> QED
  BY <1>1, <1>2 DEF Weights

\* Nothing has no size, a size is a number, and more entries are not smaller.
LEMMA SizeGrows ==
    ASSUME order \in Seq(Stamped), NEW S, NEW T, S \subseteq T
    PROVE  Promise!Size(S) \in Nat /\ Promise!Size(T) \in Nat /\ Promise!Size(S) <= Promise!Size(T)
<1> DEFINE N == Len(order)
           v == Weights(S)
           w == Weights(T)
<1>1. PICK g : Totals(N, v, g) /\ Promise!Size(S) = g[N]
  BY SizeIsTotal
<1>2. PICK h : Totals(N, w, h) /\ Promise!Size(T) = h[N]
  BY SizeIsTotal
<1>3. N \in Nat
  BY EntriesTyped
<1>4. \A n \in 1..N : v[n] \in Nat /\ w[n] \in Nat /\ v[n] <= w[n]
  BY WeightsTyped
<1> HIDE DEF N, v, w
<1>5. \A n \in 0..N : g[n] \in Nat /\ h[n] \in Nat
  BY <1>1, <1>2 DEF Totals
<1>6. \A n \in 0..N : g[n] <= h[n]
  <2> DEFINE Bad == {n \in 0..N : ~(g[n] <= h[n])}
  <2> SUFFICES ASSUME Bad # {}
               PROVE  FALSE
    OBVIOUS
  <2>1. Bad \in SUBSET Nat
    BY <1>3
  <2>2. PICK n \in Bad : \A m \in Bad : n <= m
    BY <2>1, LeastNumber
  <2>3. n \in 0..N /\ ~(g[n] <= h[n])
    OBVIOUS
  <2>4. n # 0
    BY <1>1, <1>2, <2>3 DEF Totals
  <2>5. n \in 1..N /\ n - 1 \in 0..N /\ ~(n <= n - 1)
    BY <1>3, <2>3, <2>4
  <2>6. g[n - 1] <= h[n - 1] /\ g[n - 1] \in Nat /\ h[n - 1] \in Nat
    BY <1>5, <2>2, <2>5
  <2>7. g[n] = g[n - 1] + v[n] /\ h[n] = h[n - 1] + w[n]
    BY <1>1, <1>2, <2>5 DEF Totals
  <2> QED
    BY <1>4, <2>3, <2>5, <2>6, <2>7
<1>7. N \in 0..N
  BY <1>3
<1> QED
  BY <1>1, <1>2, <1>5, <1>6, <1>7

\* One more entry adds its size.
LEMMA SizeAdds ==
    ASSUME order \in Seq(Stamped), NEW S, NEW b \in 1..Len(order), b \notin S
    PROVE  Promise!Size(S \cup {b}) = Promise!Size(S) + SizeOf[order[b].id]
<1> DEFINE N == Len(order)
           T == S \cup {b}
           v == Weights(S)
           w == Weights(T)
           z == SizeOf[order[b].id]
<1>1. PICK g : Totals(N, v, g) /\ Promise!Size(S) = g[N]
  BY SizeIsTotal
<1>2. PICK h : Totals(N, w, h) /\ Promise!Size(T) = h[N]
  BY SizeIsTotal
<1>3. N \in Nat /\ b \in 1..N /\ z \in Nat
  BY EntriesTyped, WeightsTyped
<1>4. \A n \in 1..N : v[n] \in Nat /\ w[n] \in Nat /\ w[n] = v[n] + (IF n = b THEN z ELSE 0)
  <2> SUFFICES ASSUME NEW n \in 1..N
               PROVE  v[n] \in Nat /\ w[n] \in Nat /\ w[n] = v[n] + (IF n = b THEN z ELSE 0)
    OBVIOUS
  <2>1. /\ v[n] = IF n \in S THEN SizeOf[order[n].id] ELSE 0
        /\ w[n] = IF n \in T THEN SizeOf[order[n].id] ELSE 0
        /\ v[n] \in Nat /\ w[n] \in Nat
    BY WeightsTyped
  <2>2. CASE n = b
    BY <1>3, <2>1, <2>2
  <2>3. CASE n # b
    <3>1. n \in T <=> n \in S
      BY <2>3
    <3>2. w[n] = v[n]
      BY <2>1, <3>1
    <3> QED
      BY <2>1, <2>3, <3>2
  <2> QED
    BY <2>2, <2>3
<1> HIDE DEF N, v, w, z, T
<1>5. \A n \in 0..N : g[n] \in Nat /\ h[n] \in Nat
  BY <1>1, <1>2 DEF Totals
<1>6. \A n \in 0..N : h[n] = g[n] + (IF n >= b THEN z ELSE 0)
  <2> DEFINE Bad == {n \in 0..N : h[n] # g[n] + (IF n >= b THEN z ELSE 0)}
  <2> SUFFICES ASSUME Bad # {}
               PROVE  FALSE
    OBVIOUS
  <2>1. Bad \in SUBSET Nat
    BY <1>3
  <2>2. PICK n \in Bad : \A m \in Bad : n <= m
    BY <2>1, LeastNumber
  <2>3. n \in 0..N /\ h[n] # g[n] + (IF n >= b THEN z ELSE 0)
    OBVIOUS
  <2>4. n # 0
    <3>1. g[0] = 0 /\ h[0] = 0 /\ ~(0 >= b)
      BY <1>1, <1>2, <1>3 DEF Totals
    <3> QED
      BY <2>3, <3>1
  <2>5. n \in 1..N /\ n - 1 \in 0..N /\ ~(n <= n - 1)
    BY <1>3, <2>3, <2>4
  <2>6. h[n - 1] = g[n - 1] + (IF n - 1 >= b THEN z ELSE 0) /\ g[n - 1] \in Nat /\ h[n - 1] \in Nat
    BY <1>5, <2>2, <2>5
  <2>7. g[n] = g[n - 1] + v[n] /\ h[n] = h[n - 1] + w[n]
    BY <1>1, <1>2, <2>5 DEF Totals
  <2>8. w[n] = v[n] + (IF n = b THEN z ELSE 0) /\ v[n] \in Nat /\ w[n] \in Nat
    BY <1>4, <2>5
  <2>9. CASE n = b
    <3>1. ~(n - 1 >= b) /\ n >= b
      BY <1>3, <2>5, <2>9
    <3>2. h[n - 1] = g[n - 1] + 0 /\ w[n] = v[n] + z /\ h[n] # g[n] + z
      BY <2>3, <2>6, <2>8, <2>9, <3>1
    <3>3. h[n] = (g[n - 1] + 0) + (v[n] + z) /\ g[n] = g[n - 1] + v[n]
      BY ONLY <2>7, <3>2
    <3>4. g[n - 1] \in Nat /\ v[n] \in Nat /\ z \in Nat
      BY <1>3, <2>6, <2>8
    <3>5. (g[n - 1] + 0) + (v[n] + z) = (g[n - 1] + v[n]) + z
      BY ONLY <3>4
    <3> QED
      BY ONLY <3>2, <3>3, <3>5
  <2>10. CASE n > b
    <3>1. n - 1 >= b /\ n >= b /\ n # b
      BY <1>3, <2>5, <2>10
    <3> QED
      BY <1>3, <2>3, <2>6, <2>7, <2>8, <3>1
  <2>11. CASE n < b
    <3>1. ~(n - 1 >= b) /\ ~(n >= b) /\ n # b
      BY <1>3, <2>5, <2>11
    <3> QED
      BY <2>3, <2>6, <2>7, <2>8, <3>1
  <2> QED
    BY <1>3, <2>5, <2>9, <2>10, <2>11
<1>7. N \in 0..N /\ N >= b
  BY <1>3
<1> QED
  BY <1>1, <1>2, <1>6, <1>7 DEF T, z

\* Nothing has no size.
LEMMA SizeOfNothing ==
    ASSUME order \in Seq(Stamped)
    PROVE  Promise!Size({}) = 0
<1> DEFINE N == Len(order)
           v == Weights({})
<1>1. PICK g : Totals(N, v, g) /\ Promise!Size({}) = g[N]
  BY SizeIsTotal
<1>2. N \in Nat /\ \A n \in 1..N : v[n] = 0
  BY EntriesTyped, WeightsTyped
<1> HIDE DEF N, v
<1> DEFINE Bad == {n \in 0..N : g[n] # 0}
<1>3. CASE Bad = {}
  <2>1. N \in 0..N
    BY <1>2
  <2> QED
    BY <1>1, <1>3, <2>1
<1>4. CASE Bad # {}
  <2>1. Bad \in SUBSET Nat
    BY <1>2
  <2>2. PICK n \in Bad : \A m \in Bad : n <= m
    BY <1>4, <2>1, LeastNumber
  <2>3. n \in 0..N /\ g[n] # 0
    OBVIOUS
  <2>4. n # 0
    BY <1>1, <2>3 DEF Totals
  <2>5. n \in 1..N /\ n - 1 \in 0..N /\ ~(n <= n - 1)
    BY <1>2, <2>3, <2>4
  <2>6. g[n - 1] = 0
    BY <2>2, <2>5
  <2>7. g[n] = g[n - 1] + v[n] /\ v[n] = 0
    BY <1>1, <1>2, <2>5 DEF Totals
  <2> QED
    BY <2>3, <2>6, <2>7
<1> QED
  BY <1>3, <1>4

-----------------------------------------------------------------------------
(* What the scan has kept, by its places in the order of writing *)

\* The lines of q stand at the places m of the order, in the same order.
Placed(q, m) ==
    /\ m \in [1..Len(q) -> 1..Len(order)]
    /\ \A k \in 1..Len(q) : order[m[k]] = Readable(q[k])
    /\ \A j, k \in 1..Len(q) : j < k => m[j] < m[k]

\* The places of the first n lines.
Places(m, n) == {m[k] : k \in 1..n}

\* Placed lines carry events.
LEMMA PlacedTyped ==
    ASSUME order \in Seq(Stamped), NEW q \in Seq(Line), NEW m, Placed(q, m)
    PROVE  /\ Len(q) \in Nat /\ Len(order) \in Nat
           /\ \A k \in 1..Len(q) : /\ m[k] \in 1..Len(order)
                                   /\ q[k].id = order[m[k]].id
                                   /\ q[k].id \in Events /\ SizeOf[q[k].id] \in Nat
<1>1. Len(q) \in Nat /\ Len(order) \in Nat
  BY EntriesTyped
<1>2. \A k \in 1..Len(q) : m[k] \in 1..Len(order) /\ order[m[k]] = Readable(q[k])
  BY DEF Placed
<1>3. ASSUME NEW k \in 1..Len(q)
      PROVE  order[m[k]].id = q[k].id
  <2>1. \A l : Readable(l).id = l.id
    BY DEF Readable
  <2> QED
    BY <1>2, <2>1
<1>4. \A k \in 1..Len(order) : order[k].id \in Events
  BY EntriesTyped
<1>5. \A e \in Events : SizeOf[e] \in Nat
  BY PolicyAssumption
<1> QED
  BY <1>1, <1>2, <1>3, <1>4, <1>5

\* The lines are as many and as large as the entries at their places.
LEMMA PlacedCount ==
    ASSUME order \in Seq(Stamped), NEW q \in Seq(Line), NEW m, Placed(q, m)
    PROVE  /\ Len(q) = Cardinality(Places(m, Len(q)))
           /\ BytesOf(q) = Promise!Size(Places(m, Len(q)))
<1> DEFINE N == Len(q)
           v == [n \in 1..N |-> SizeOf[q[n].id]]
           P(n) == Places(m, n)
<1>1. N \in Nat /\ \A k \in 1..N : /\ m[k] \in 1..Len(order) /\ q[k].id = order[m[k]].id
                                   /\ v[k] = SizeOf[order[m[k]].id] /\ v[k] \in Nat
  <2>1. N \in Nat /\ \A k \in 1..N : /\ m[k] \in 1..Len(order) /\ q[k].id = order[m[k]].id
                                     /\ SizeOf[q[k].id] \in Nat
    BY PlacedTyped
  <2> HIDE DEF N
  <2>2. \A k \in 1..N : v[k] = SizeOf[q[k].id]
    OBVIOUS
  <2> HIDE DEF v
  <2> QED
    BY <2>1, <2>2
<1>2. PICK g : Totals(N, v, g) /\ BytesOf(q) = g[N]
  <2>1. \A k \in 1..Len(q) : q[k].id \in Events
    BY PlacedTyped
  <2> QED
    BY <2>1, BytesAreTotal
<1>3. \A j, k \in 1..N : j < k => m[j] < m[k]
  BY DEF Placed
<1> DEFINE Counted(n) == /\ IsFiniteSet(P(n)) /\ Cardinality(P(n)) = n
                         /\ g[n] = Promise!Size(P(n))
<1> HIDE DEF N, v
<1>4. Counted(0)
  <2>1. P(0) = {}
    BY DEF Places
  <2> HIDE DEF P
  <2>2. g[0] = 0
    BY <1>2 DEF Totals
  <2> QED
    BY <2>1, <2>2, FS_EmptySet, SizeOfNothing
<1>5. ASSUME NEW n \in 1..N, Counted(n - 1)
      PROVE  Counted(n)
  <2>1. n - 1 \in Nat /\ n \in Nat /\ n \in 1..N /\ N \in Nat
    BY <1>1
  <2>2. P(n) = P(n - 1) \cup {m[n]}
    <3>1. \A k \in 1..n : k \in 1..(n - 1) \/ k = n
      BY <2>1
    <3>2. \A k \in 1..(n - 1) : k \in 1..n
      BY <2>1
    <3> QED
      BY <2>1, <3>1, <3>2 DEF Places
  <2>3. m[n] \notin P(n - 1)
    <3>1. ASSUME NEW k \in 1..(n - 1)
          PROVE  m[k] # m[n]
      <4>1. k \in 1..N /\ k < n
        BY <2>1
      <4>2. m[k] < m[n] /\ m[k] \in Nat /\ m[n] \in Nat
        BY <1>1, <1>3, <4>1, EntriesTyped
      <4> QED
        BY <4>2
    <3> QED
      BY <3>1 DEF Places
  <2> HIDE DEF P
  <2>4. IsFiniteSet(P(n)) /\ Cardinality(P(n)) = Cardinality(P(n - 1)) + 1
    BY <1>5, <2>2, <2>3, FS_AddElement
  <2>5. Cardinality(P(n)) = n
    BY <1>5, <2>1, <2>4
  <2>6. Promise!Size(P(n)) = Promise!Size(P(n - 1)) + SizeOf[order[m[n]].id]
    <3>1. order \in Seq(Stamped) /\ m[n] \in 1..Len(order)
      BY <1>1, <2>2
    <3> QED
      BY ONLY <2>2, <2>3, <3>1, SizeAdds
  <2>7. g[n] = g[n - 1] + v[n]
    BY <1>2 DEF Totals
  <2>8. g[n] = Promise!Size(P(n))
    BY <1>1, <1>5, <2>6, <2>7
  <2> QED
    BY <2>4, <2>5, <2>8
<1> HIDE DEF Counted
<1>6. \A n \in 0..N : Counted(n)
  <2> DEFINE Bad == {n \in 0..N : ~Counted(n)}
  <2> SUFFICES ASSUME Bad # {}
               PROVE  FALSE
    OBVIOUS
  <2>1. Bad \in SUBSET Nat
    BY <1>1
  <2>2. PICK n \in Bad : \A k \in Bad : n <= k
    BY <2>1, LeastNumber
  <2>3. n \in 0..N /\ ~Counted(n)
    OBVIOUS
  <2>4. n # 0
    BY <1>4, <2>3
  <2>5. n \in 1..N /\ n - 1 \in 0..N /\ ~(n <= n - 1)
    BY <1>1, <2>3, <2>4
  <2>6. Counted(n - 1)
    BY <2>2, <2>5
  <2> QED
    BY <1>5, <2>3, <2>5, <2>6
<1>7. Counted(N)
  BY <1>1, <1>6
<1> QED
  BY <1>2, <1>7 DEF Counted, N

\* So the bounds hold of both or of neither.
LEMMA PlacedFits ==
    ASSUME order \in Seq(Stamped), NEW q \in Seq(Line), NEW m, Placed(q, m)
    PROVE  Within(q) <=> Promise!Fits(Places(m, Len(q)))
<1> DEFINE S == Places(m, Len(q))
<1>1. Len(q) = Cardinality(S) /\ BytesOf(q) = Promise!Size(S)
  BY PlacedCount
<1> HIDE DEF S
<1>2. Promise!Cardinality(S) = Cardinality(S)
  BY DEF Promise!Cardinality, Cardinality
<1>3. Within(q) <=> Promise!Fits(S)
  BY <1>1, <1>2 DEF Within, Promise!Fits
<1> QED
  BY <1>3 DEF S

\* Fewer entries fit as well.
LEMMA FewerFit ==
    ASSUME order \in Seq(Stamped), NEW T \in SUBSET (1..Len(order)), NEW S \in SUBSET T,
           Promise!Fits(T)
    PROVE  Promise!Fits(S)
<1>1. IsFiniteSet(T)
  <2>1. 1 \in Int /\ Len(order) \in Int
    BY EntriesTyped
  <2>2. IsFiniteSet(1..Len(order))
    BY ONLY <2>1, FS_Interval
  <2> QED
    BY <2>2, FS_Subset
<1>2. Cardinality(S) \in Nat /\ Cardinality(T) \in Nat /\ Cardinality(S) <= Cardinality(T)
  BY <1>1, FS_Subset, FS_CardinalityType
<1>3. Promise!Size(S) \in Nat /\ Promise!Size(T) \in Nat /\ Promise!Size(S) <= Promise!Size(T)
  BY SizeGrows
<1>4. Promise!Cardinality(S) = Cardinality(S) /\ Promise!Cardinality(T) = Cardinality(T)
  BY DEF Promise!Cardinality, Cardinality
<1>5. Cardinality(T) <= MaxRecords /\ Promise!Size(T) <= MaxBytes
  BY <1>4 DEF Promise!Fits
<1>6. MaxRecords \in Nat /\ MaxBytes \in Nat
  BY PolicyAssumption
<1>7. Cardinality(S) <= MaxRecords /\ Promise!Size(S) <= MaxBytes
  BY <1>2, <1>3, <1>5, <1>6
<1> QED
  BY <1>4, <1>7 DEF Promise!Fits

\* Dropping n lines from the left of the deque.
LEMMA WithoutFacts ==
    ASSUME NEW q \in Seq(Line), NEW n \in 0..Len(q)
    PROVE  /\ Without(q, n) \in Seq(Line)
           /\ Len(Without(q, n)) = Len(q) - n
           /\ \A k \in 1..(Len(q) - n) : Without(q, n)[k] = q[k + n]
<1>1. Len(q) \in Nat /\ n \in Nat /\ n <= Len(q)
  OBVIOUS
<1>2. \A k \in (n + 1)..Len(q) : q[k] \in Line
  BY <1>1
<1>3. n + 1 \in Int /\ Len(q) \in Int
  BY <1>1
<1>4. /\ SubSeq(q, n + 1, Len(q)) \in Seq(Line)
      /\ Len(SubSeq(q, n + 1, Len(q))) = IF n + 1 <= Len(q) THEN Len(q) - (n + 1) + 1 ELSE 0
      /\ \A k \in 1..(Len(q) - (n + 1) + 1) : SubSeq(q, n + 1, Len(q))[k] = q[n + 1 + k - 1]
  BY <1>1, <1>2, <1>3, SubSeqProperties
<1>5. \A k \in 1..(Len(q) - n) : k \in 1..(Len(q) - (n + 1) + 1) /\ n + 1 + k - 1 = k + n
  BY <1>1
<1> DEFINE r == SubSeq(q, n + 1, Len(q))
<1>6. Without(q, n) = r
  BY DEF Without
<1> HIDE DEF r
<1>7. Len(r) = Len(q) - n
  BY <1>1, <1>4 DEF r
<1>8. \A k \in 1..(Len(q) - n) : r[k] = q[k + n]
  BY <1>4, <1>5 DEF r
<1> QED
  BY <1>4, <1>6, <1>7, <1>8 DEF r

\* The loop that trims the deque stops: an empty one is within the bounds.
LEMMA TrimStops ==
    ASSUME NEW q \in Seq(Line)
    PROVE  \E n \in 0..Len(q) : /\ Trim(q) = Without(q, n)
                                /\ Within(Without(q, n))
                                /\ \A j \in 0..(n - 1) : ~Within(Without(q, j))
<1> DEFINE Enough == {n \in 0..Len(q) : Within(Without(q, n))}
           Stop(n) == Within(Without(q, n)) /\ \A j \in 0..(n - 1) : ~Within(Without(q, j))
<1>1. Len(q) \in Nat /\ Len(q) \in 0..Len(q)
  OBVIOUS
<1>2. Within(Without(q, Len(q)))
  <2>1. Without(q, Len(q)) \in Seq(Line) /\ Len(Without(q, Len(q))) = Len(q) - Len(q)
    BY <1>1, WithoutFacts
  <2>2. Without(q, Len(q)) = <<>>
    BY <1>1, <2>1, EmptySeq
  <2>3. Len(<<>>) = 0 /\ 0 <= MaxRecords /\ 0 <= MaxBytes
    BY PolicyAssumption
  <2>4. Within(<<>>)
    BY <2>3, NothingIsEmpty DEF Within
  <2> QED
    BY <2>2, <2>4
<1>3. Enough # {} /\ Enough \in SUBSET Nat
  BY <1>1, <1>2
<1>4. PICK n \in Enough : \A j \in Enough : n <= j
  BY <1>3, LeastNumber
<1>5. n \in 0..Len(q) /\ Stop(n)
  <2>1. n \in 0..Len(q) /\ Within(Without(q, n))
    OBVIOUS
  <2>2. ASSUME NEW j \in 0..(n - 1)
        PROVE  ~Within(Without(q, j))
    <3>1. j \in 0..Len(q) /\ ~(n <= j)
      BY <1>1, <2>1
    <3>2. j \notin Enough
      BY <1>4, <3>1
    <3> QED
      BY <3>1, <3>2
  <2> QED
    BY <2>1, <2>2
<1> HIDE DEF Stop
<1>6. \E i \in 0..Len(q) : Stop(i)
  BY <1>5
<1>7. Trim(q) = Without(q, CHOOSE i \in 0..Len(q) : Stop(i))
  BY DEF Trim, Stop
<1> DEFINE c == CHOOSE i \in 0..Len(q) : Stop(i)
<1>8. c \in 0..Len(q) /\ Stop(c)
  BY <1>6
<1>9. Trim(q) = Without(q, c)
  BY <1>7
<1> HIDE DEF c
<1> QED
  BY <1>8, <1>9 DEF Stop

\* t is within the bounds, and the end of q.
EndOf(q, t) ==
    /\ t \in Seq(Line) /\ Within(t)
    /\ \E c \in 0..Len(q) : Len(t) = Len(q) - c /\ \A k \in 1..(Len(q) - c) : t[k] = q[k + c]

LEMMA TrimFacts ==
    ASSUME NEW q \in Seq(Line)
    PROVE  EndOf(q, Trim(q))
<1>1. PICK c \in 0..Len(q) : Trim(q) = Without(q, c) /\ Within(Without(q, c))
  BY TrimStops
<1> DEFINE t == Without(q, c)
<1>2. /\ t \in Seq(Line) /\ Len(t) = Len(q) - c
      /\ \A k \in 1..(Len(q) - c) : t[k] = q[k + c]
  BY WithoutFacts
<1>3. Trim(q) = t /\ Within(t)
  BY <1>1
<1> HIDE DEF t
<1>4. EndOf(q, t)
  BY <1>2, <1>3 DEF EndOf
<1> QED
  BY <1>3, <1>4

\* What is left of q without its first n lines keeps the places after them.
PlacedFrom(q, m, n) ==
    \E o : /\ Placed(Without(q, n), o)
           /\ Places(o, Len(Without(q, n))) = {m[k] : k \in (n + 1)..Len(q)}

\* What is left on the right stays at its places.
LEMMA WithoutPlaced ==
    ASSUME order \in Seq(Stamped), NEW q \in Seq(Line), NEW m, Placed(q, m), NEW n \in 0..Len(q)
    PROVE  PlacedFrom(q, m, n)
<1> DEFINE r == Without(q, n)
           o == [k \in 1..(Len(q) - n) |-> m[k + n]]
<1>1. Len(q) \in Nat /\ n \in Nat /\ n <= Len(q)
  OBVIOUS
<1>2. Len(r) = Len(q) - n /\ \A k \in 1..(Len(q) - n) : r[k] = q[k + n]
  BY WithoutFacts
<1>3. \A k \in 1..(Len(q) - n) : k + n \in 1..Len(q) /\ k + n \in (n + 1)..Len(q)
  BY <1>1
<1>4. \A k \in 1..Len(q) : m[k] \in 1..Len(order) /\ order[m[k]] = Readable(q[k])
  BY DEF Placed
<1>5. \A j, k \in 1..Len(q) : j < k => m[j] < m[k]
  BY DEF Placed
<1> HIDE DEF r
<1>6. Placed(r, o)
  <2>1. o \in [1..Len(r) -> 1..Len(order)]
    BY <1>2, <1>3, <1>4
  <2>2. \A k \in 1..Len(r) : order[o[k]] = Readable(r[k])
    BY <1>2, <1>3, <1>4
  <2>3. ASSUME NEW j \in 1..Len(r), NEW k \in 1..Len(r), j < k
        PROVE  o[j] < o[k]
    <3>1. j + n \in 1..Len(q) /\ k + n \in 1..Len(q) /\ j + n < k + n
      BY <1>1, <1>2, <2>3
    <3>2. m[j + n] < m[k + n]
      BY <1>5, <3>1
    <3> QED
      BY <1>2, <3>2
  <2> QED
    BY <2>1, <2>2, <2>3 DEF Placed
<1>7. Places(o, Len(r)) = {m[k] : k \in (n + 1)..Len(q)}
  <2>1. \A k \in 1..Len(r) : o[k] \in {m[j] : j \in (n + 1)..Len(q)}
    BY <1>2, <1>3
  <2>2. ASSUME NEW j \in (n + 1)..Len(q)
        PROVE  m[j] \in Places(o, Len(r))
    <3>1. j - n \in 1..(Len(q) - n) /\ (j - n) + n = j
      BY <1>1
    <3>2. o[j - n] = m[j]
      BY <3>1
    <3> HIDE DEF o
    <3> QED
      BY <1>2, <3>1, <3>2 DEF Places
  <2> HIDE DEF o
  <2> QED
    BY <2>1, <2>2 DEF Places
<1> HIDE DEF o
<1> QED
  BY <1>6, <1>7 DEF r, PlacedFrom

\* The entries of F that stay with everything newer in F.
Newest(F) == {a \in F : Promise!Fits(Promise!From(F, a))}

\* A line whose place is behind all others is added to the deque on the right.
LEMMA AppendPlaced ==
    ASSUME order \in Seq(Stamped), NEW q \in Seq(Line), NEW m, Placed(q, m),
           NEW l \in Line, NEW s \in 1..Len(order), order[s] = Readable(l),
           \A a \in Places(m, Len(q)) : a < s
    PROVE  LET o == [k \in 1..(Len(q) + 1) |-> IF k = Len(q) + 1 THEN s ELSE m[k]]
           IN  /\ Append(q, l) \in Seq(Line) /\ Len(Append(q, l)) = Len(q) + 1
               /\ Placed(Append(q, l), o)
<1> DEFINE L == Len(q)
           o == [k \in 1..(L + 1) |-> IF k = L + 1 THEN s ELSE m[k]]
           p == Append(q, l)
<1>1. L \in Nat /\ p \in Seq(Line) /\ Len(p) = L + 1 /\ p[L + 1] = l /\ \A k \in 1..L : p[k] = q[k]
  OBVIOUS
<1>2. \A k \in 1..(L + 1) : k = L + 1 \/ k \in 1..L
  BY <1>1
<1>3. \A k \in 1..L : m[k] \in 1..Len(order) /\ order[m[k]] = Readable(q[k]) /\ m[k] < s
  BY DEF Placed, Places
<1>4. \A j, k \in 1..L : j < k => m[j] < m[k]
  BY DEF Placed
<1> HIDE DEF p
<1>5. \A k \in 1..L : k \in 1..(L + 1) /\ k # L + 1 /\ k < L + 1
  BY <1>1
<1>6. o[L + 1] = s /\ \A k \in 1..L : o[k] = m[k]
  BY <1>1, <1>5
<1>7. o \in [1..(L + 1) -> 1..Len(order)]
  BY <1>2, <1>3
<1> HIDE DEF o, L
<1>8. \A k \in 1..(L + 1) : order[o[k]] = Readable(p[k])
  BY <1>1, <1>2, <1>3, <1>6
<1>9. ASSUME NEW j \in 1..(L + 1), NEW k \in 1..(L + 1), j < k
      PROVE  o[j] < o[k]
  <2>1. j \in 1..L
    BY <1>1, <1>9
  <2>2. CASE k = L + 1
    BY <1>3, <1>6, <2>1, <2>2
  <2>3. CASE k \in 1..L
    BY <1>4, <1>6, <1>9, <2>1, <2>3
  <2> QED
    BY <1>2, <2>2, <2>3
<1>10. Placed(p, o)
  BY <1>1, <1>7, <1>8, <1>9 DEF Placed
<1> QED
  BY <1>1, <1>10 DEF o, L, p

\* Trimmed, q has the newest of the places F.
TrimmedTo(q, F) ==
    \E o : Placed(Trim(q), o) /\ Places(o, Len(Trim(q))) = Newest(F)

\* If the deque holds the newest of F, one more line and the trimming make it hold the
\* newest of F and that line.
LEMMA TrimPlaced ==
    ASSUME order \in Seq(Stamped), NEW q \in Seq(Line), NEW m, Placed(q, m),
           NEW F \in SUBSET (1..Len(order)), Places(m, Len(q)) = Newest(F),
           NEW l \in Line, NEW s \in 1..Len(order), order[s] = Readable(l), \A a \in F : a < s
    PROVE  TrimmedTo(Append(q, l), F \cup {s})
<1> DEFINE L == Len(q)
           p == Append(q, l)
           G == F \cup {s}
           o == [k \in 1..(L + 1) |-> IF k = L + 1 THEN s ELSE m[k]]
           From(S, a) == Promise!From(S, a)
<1>1. L \in Nat /\ L + 1 \in 1..(L + 1) /\ \A k \in 1..L : k \in 1..(L + 1) /\ k # L + 1
  OBVIOUS
<1>2. \A k \in 1..L : m[k] \in Newest(F) /\ m[k] \in F
  BY DEF Places, Newest
<1>3. p \in Seq(Line) /\ Len(p) = L + 1 /\ Placed(p, o)
  <2>1. \A a \in Places(m, Len(q)) : a < s
    BY DEF Newest
  <2> QED
    BY <2>1, AppendPlaced
<1>4. o[L + 1] = s /\ \A k \in 1..L : o[k] = m[k]
  BY <1>1
<1>5. \A S, a : From(S, a) = {j \in S : j >= a}
  BY DEF Promise!From
<1>6. \A a \in G : a \in Nat /\ a \in 1..Len(order)
  BY EntriesTyped
<1>7. G \in SUBSET (1..Len(order))
  BY <1>6
<1>8. \A k \in 1..(L + 1) : k = L + 1 \/ k \in 1..L
  BY <1>1
<1>9. \A a \in F : (\E j \in 1..L : a = m[j]) <=> Promise!Fits(From(F, a))
  BY DEF Places, Newest
<1> HIDE DEF o, p, L, G, From
<1>10. \A j, k \in 1..(L + 1) : j < k => o[j] < o[k]
  BY <1>3 DEF Placed
<1>11. \A k \in 1..(L + 1) : o[k] \in G
  BY <1>2, <1>4, <1>8 DEF G
<1>12. \A j, k \in 1..(L + 1) : j <= k => o[j] <= o[k]
  <2> SUFFICES ASSUME NEW j \in 1..(L + 1), NEW k \in 1..(L + 1), j <= k
               PROVE  o[j] <= o[k]
    OBVIOUS
  <2>1. o[j] \in Nat /\ o[k] \in Nat
    BY <1>6, <1>11
  <2>2. CASE j = k
    BY <2>1, <2>2
  <2>3. CASE j < k
    BY <1>10, <2>1, <2>3
  <2>4. j \in Int /\ k \in Int
    OBVIOUS
  <2> QED
    BY <2>2, <2>3, <2>4
<1>13. ASSUME NEW k \in 1..(L + 1)
       PROVE  From(G, o[k]) = {o[j] : j \in k..(L + 1)}
  <2>1. ASSUME NEW j \in k..(L + 1)
        PROVE  o[j] \in From(G, o[k])
    <3>1. j \in 1..(L + 1) /\ k <= j
      BY <1>1
    <3>2. o[j] \in G /\ o[k] <= o[j] /\ o[j] \in Nat /\ o[k] \in Nat
      BY <1>6, <1>11, <1>12, <3>1
    <3>3. o[j] >= o[k]
      BY <3>2
    <3> QED
      BY <1>5, <3>2, <3>3
  <2>2. ASSUME NEW a \in From(G, o[k])
        PROVE  \E j \in k..(L + 1) : a = o[j]
    <3>1. a \in G /\ a >= o[k] /\ a \in Nat /\ o[k] \in Nat
      BY <1>5, <1>6, <1>11
    <3>2. CASE a = s
      <4>1. L + 1 \in k..(L + 1)
        BY <1>1
      <4> QED
        BY <1>4, <3>2, <4>1
    <3>3. CASE a # s
      <4>1. a \in F /\ a < s /\ s \in Nat
        BY <3>1, <3>3, EntriesTyped DEF G
      <4>2. k # L + 1
        BY <1>4, <3>1, <4>1
      <4>3. k \in 1..L /\ o[k] = m[k] /\ m[k] \in F
        BY <1>2, <1>4, <1>8, <4>2
      <4>4. Promise!Fits(From(F, m[k]))
        BY <1>9, <4>3
      <4>5. From(F, a) \in SUBSET From(F, m[k]) /\ From(F, m[k]) \in SUBSET (1..Len(order))
        <5>1. \A j \in F : j \in Nat /\ j \in 1..Len(order)
          BY <1>6 DEF G
        <5>2. \A j \in F : j >= a => j >= m[k]
          BY <3>1, <4>3, <5>1
        <5> QED
          BY <1>5, <5>1, <5>2
      <4>6. Promise!Fits(From(F, a))
        BY <4>4, <4>5, FewerFit
      <4>7. PICK j \in 1..L : a = m[j]
        BY <1>9, <4>1, <4>6
      <4>8. a = o[j] /\ j \in 1..(L + 1) /\ k \in 1..(L + 1)
        BY <1>1, <1>4, <4>7
      <4>9. ~(j < k)
        BY <1>10, <3>1, <4>8
      <4>10. j \in k..(L + 1)
        BY <1>1, <4>8, <4>9
      <4> QED
        BY <4>8, <4>10
    <3> QED
      BY <3>2, <3>3
  <2> QED
    BY <2>1, <2>2
<1>14. PICK n \in 0..Len(p) : /\ Trim(p) = Without(p, n)
                              /\ Within(Without(p, n))
                              /\ \A j \in 0..(n - 1) : ~Within(Without(p, j))
  BY <1>3, TrimStops
<1>15. ASSUME NEW k \in 1..(L + 1)
       PROVE  Promise!Fits(From(G, o[k])) <=> Within(Without(p, k - 1))
  <2>1. k - 1 \in 0..Len(p) /\ (k - 1) + 1 = k
    BY <1>1, <1>3
  <2>2. PICK u : /\ Placed(Without(p, k - 1), u)
                 /\ Places(u, Len(Without(p, k - 1))) = {o[j] : j \in ((k - 1) + 1)..Len(p)}
    <3> DEFINE i == k - 1
    <3>1. i \in 0..Len(p)
      BY <2>1
    <3> HIDE DEF i
    <3>2. PlacedFrom(p, o, i)
      BY ONLY <1>3, <3>1, order \in Seq(Stamped), WithoutPlaced
    <3> QED
      BY <3>2 DEF i, PlacedFrom
  <2>3. Places(u, Len(Without(p, k - 1))) = From(G, o[k])
    BY <1>3, <1>13, <2>1, <2>2
  <2>4. Without(p, k - 1) \in Seq(Line)
    BY <1>3, <2>1, WithoutFacts
  <2>5. Within(Without(p, k - 1)) <=> Promise!Fits(Places(u, Len(Without(p, k - 1))))
    BY <2>2, <2>4, PlacedFits
  <2> QED
    BY <2>3, <2>5
<1>16. ASSUME NEW k \in 1..(L + 1)
       PROVE  Promise!Fits(From(G, o[k])) <=> k \in (n + 1)..(L + 1)
  <2>1. CASE k <= n
    <3>1. k - 1 \in 0..(n - 1) /\ k \notin (n + 1)..(L + 1)
      BY <1>1, <1>3, <2>1
    <3> QED
      BY <1>14, <1>15, <3>1
  <2>2. CASE k > n
    <3>1. n + 1 \in 1..(L + 1) /\ n + 1 <= k /\ (n + 1) - 1 = n /\ k \in (n + 1)..(L + 1)
      BY <1>1, <1>3, <2>2
    <3>2. Promise!Fits(From(G, o[n + 1]))
      <4>1. Promise!Fits(From(G, o[n + 1])) <=> Within(Without(p, (n + 1) - 1))
        BY <1>15, <3>1
      <4> QED
        BY <1>14, <3>1, <4>1
    <3>3. o[n + 1] <= o[k] /\ o[n + 1] \in Nat /\ o[k] \in Nat
      BY <1>6, <1>11, <1>12, <3>1
    <3>4. From(G, o[k]) \in SUBSET From(G, o[n + 1]) /\ From(G, o[n + 1]) \in SUBSET (1..Len(order))
      <4>1. \A j \in G : j >= o[k] => j >= o[n + 1]
        BY <1>6, <3>3
      <4> QED
        BY <1>5, <1>7, <4>1
    <3>5. Promise!Fits(From(G, o[k]))
      BY <3>2, <3>4, FewerFit
    <3> QED
      BY <3>1, <3>5
  <2> QED
    BY <1>1, <1>3, <2>1, <2>2
<1>17. ASSUME NEW a \in G, \A k \in 1..(L + 1) : a # o[k]
       PROVE  ~Promise!Fits(From(G, a))
  <2>1. a \in F
    BY <1>1, <1>4, <1>17 DEF G
  <2>2. \A j \in 1..L : a # m[j]
    BY <1>1, <1>4, <1>17
  <2>3. ~Promise!Fits(From(F, a))
    BY <1>9, <2>1, <2>2
  <2>4. From(F, a) \in SUBSET From(G, a) /\ From(G, a) \in SUBSET (1..Len(order))
    BY <1>5, <1>7 DEF G
  <2> QED
    BY <2>3, <2>4, FewerFit
<1>18. Newest(G) = {o[k] : k \in (n + 1)..(L + 1)}
  <2>1. \A a \in G : a \in Newest(G) <=> Promise!Fits(From(G, a))
    BY DEF Newest, From
  <2>2. \A k \in (n + 1)..(L + 1) : k \in 1..(L + 1)
    BY <1>1, <1>3
  <2>3. \A k \in (n + 1)..(L + 1) : o[k] \in Newest(G)
    BY <1>11, <1>16, <2>1, <2>2
  <2>4. ASSUME NEW a \in Newest(G)
        PROVE  \E k \in (n + 1)..(L + 1) : a = o[k]
    <3>1. a \in G /\ Promise!Fits(From(G, a))
      BY <2>1 DEF Newest
    <3>2. PICK k \in 1..(L + 1) : a = o[k]
      BY <1>17, <3>1
    <3> QED
      BY <1>16, <3>1, <3>2
  <2> QED
    BY <2>3, <2>4
<1>19. PICK u : /\ Placed(Without(p, n), u)
                /\ Places(u, Len(Without(p, n))) = {o[k] : k \in (n + 1)..Len(p)}
  <2>1. order \in Seq(Stamped)
    OBVIOUS
  <2>2. PlacedFrom(p, o, n)
    BY ONLY <1>3, <1>14, <2>1, WithoutPlaced
  <2> QED
    BY <2>2 DEF PlacedFrom
<1>20. Placed(Trim(p), u) /\ Places(u, Len(Trim(p))) = Newest(G)
  BY <1>3, <1>14, <1>18, <1>19
<1> QED
  BY <1>20 DEF p, G, TrimmedTo

-----------------------------------------------------------------------------
(* The scan *)

\* Every event is written once.
Once(o) == \A a, b \in DOMAIN o : o[a].id = o[b].id => a = b

\* The place of a readable line is unique and before those of the lines behind it.
LEMMA PlacesInOrder ==
    ASSUME NEW o, Once(o), NEW f, Listed(f, o), NEW i \in Whole(f), NEW k \in Whole(f), i < k,
           NEW a \in DOMAIN o, o[a] = Readable(f[i]), NEW b \in DOMAIN o, o[b] = Readable(f[k])
    PROVE  a < b
<1>1. PICK c \in DOMAIN o : /\ o[c] = Readable(f[i])
                            /\ \E d \in DOMAIN o : c < d /\ o[d] = Readable(f[k])
  BY DEF Listed
<1>2. PICK d \in DOMAIN o : c < d /\ o[d] = Readable(f[k])
  BY <1>1
<1>3. o[a] = o[c] /\ o[b] = o[d]
  BY <1>1, <1>2
<1>4. a = c /\ b = d
  BY <1>3 DEF Once
<1> QED
  BY <1>2, <1>4

\* The places of those of the first n lines that have not expired at time t.
Unexpired(t, n) ==
    {a \in 1..Len(order) : \E i \in 1..n : Keeps(file[i], t) /\ order[a] = Readable(file[i])}

\* What the scan has kept of the first n lines.
Scanned(q, t, n) ==
    /\ q \in Seq(Line) /\ Len(q) <= n
    /\ \A i \in 1..Len(q) : Keeps(q[i], t)
    /\ Within(q)
    /\ Len(q) = n => \A i \in 1..n : q[i] = file[i]
    /\ \E m : Placed(q, m) /\ Places(m, Len(q)) = Newest(Unexpired(t, n))

\* At the start it has kept nothing.
LEMMA ScanStarts ==
    ASSUME order \in Seq(Stamped), NEW t
    PROVE  Scanned(<<>>, t, 0)
<1> DEFINE m == [k \in 1..0 |-> 1]
           q == <<>>
<1>1. q \in Seq(Line) /\ Len(q) = 0 /\ 1..0 = {}
  OBVIOUS
<1>2. Within(q)
  <2>1. 0 <= MaxRecords /\ 0 <= MaxBytes
    BY PolicyAssumption
  <2> QED
    BY <1>1, <2>1, NothingIsEmpty DEF Within
<1>3. Unexpired(t, 0) = {}
  BY <1>1 DEF Unexpired
<1>4. Newest(Unexpired(t, 0)) = {}
  BY <1>3 DEF Newest
<1> HIDE DEF q
<1>5. Placed(q, m)
  BY <1>1 DEF Placed
<1>6. Places(m, Len(q)) = {}
  BY <1>1 DEF Places
<1> HIDE DEF m
<1>7. \A i \in 1..Len(q) : Keeps(q[i], t)
  BY <1>1
<1>8. \A i \in 1..0 : q[i] = file[i]
  BY <1>1
<1>9. Scanned(q, t, 0)
  <2>1. Len(q) <= 0
    BY <1>1
  <2> QED
    BY ONLY <1>1, <1>2, <1>4, <1>5, <1>6, <1>7, <1>8, <2>1 DEF Scanned
<1> QED
  BY <1>9 DEF q

\* A malformed or expired line changes nothing, another one is added and the rest trimmed.
LEMMA ScanGoesOn ==
    ASSUME order \in Seq(Stamped), Once(order), file \in Seq(Line), Listed(file, order),
           NEW t, NEW n \in 1..Len(file), NEW q, Scanned(q, t, n - 1)
    PROVE  Scanned(IF Keeps(file[n], t) THEN Trim(Append(q, file[n])) ELSE q, t, n)
<1>1. n \in Nat /\ n - 1 \in Nat /\ DOMAIN file = 1..Len(file)
      /\ (\A i \in 1..n : i \in 1..(n - 1) \/ i = n)
      /\ \A i \in 1..(n - 1) : i \in 1..n /\ i \in DOMAIN file /\ i < n
  OBVIOUS
<1>2. q \in Seq(Line) /\ Len(q) \in Nat /\ Len(q) <= n - 1
  BY DEF Scanned
<1>3. PICK m : Placed(q, m) /\ Places(m, Len(q)) = Newest(Unexpired(t, n - 1))
  BY DEF Scanned
<1>4. CASE ~Keeps(file[n], t)
  <2>1. Unexpired(t, n) = Unexpired(t, n - 1)
    BY <1>1, <1>4 DEF Unexpired
  <2>2. Len(q) <= n /\ Len(q) # n
    BY <1>1, <1>2
  <2>3. Scanned(q, t, n)
    BY <1>2, <1>3, <2>1, <2>2 DEF Scanned
  <2> QED
    BY <1>4, <2>3
<1>5. CASE Keeps(file[n], t)
  <2> DEFINE l == file[n]
             p == Append(q, l)
             T == Trim(p)
             F == Unexpired(t, n - 1)
  <2>1. l \in Line /\ n \in Whole(file)
    BY <1>1, <1>5 DEF Whole, Keeps
  <2>2. PICK s \in DOMAIN order : order[s] = Readable(l)
    BY <2>1 DEF Listed
  <2>3. s \in 1..Len(order) /\ DOMAIN order = 1..Len(order)
    BY EntriesTyped
  <2>4. \A a \in 1..Len(order) : order[a] = Readable(l) => a = s
    BY <2>2, <2>3 DEF Once
  <2>5. Unexpired(t, n) = F \cup {s}
    BY <1>1, <1>5, <2>2, <2>3, <2>4 DEF Unexpired
  <2>6. F \in SUBSET (1..Len(order))
    BY DEF Unexpired
  <2>7. ASSUME NEW a \in F
        PROVE  a < s
    <3>1. PICK i \in 1..(n - 1) : Keeps(file[i], t) /\ order[a] = Readable(file[i])
      BY DEF Unexpired
    <3>2. i \in Whole(file) /\ i < n /\ a \in DOMAIN order
      BY <1>1, <2>3, <2>6, <3>1 DEF Whole, Keeps
    <3> QED
      BY <2>1, <2>2, <3>1, <3>2, PlacesInOrder
  <2>8. p \in Seq(Line) /\ Len(p) = Len(q) + 1 /\ p[Len(q) + 1] = l
        /\ \A i \in 1..Len(q) : p[i] = q[i]
    BY <1>2, <2>1
  <2> HIDE DEF l, F, p
  <2>9. \E o : Placed(T, o) /\ Places(o, Len(T)) = Newest(F \cup {s})
    <3>1. Places(m, Len(q)) = Newest(F)
      BY <1>3 DEF F
    <3>2. \A a \in F : a < s
      BY <2>7
    <3>3. order \in Seq(Stamped) /\ q \in Seq(Line) /\ Placed(q, m) /\ order[s] = Readable(l)
      BY <1>2, <1>3, <2>2
    <3>4. l \in Line /\ s \in 1..Len(order) /\ F \in SUBSET (1..Len(order))
      BY <2>1, <2>3, <2>6
    <3>5. TrimmedTo(Append(q, l), F \cup {s})
      BY ONLY <3>1, <3>2, <3>3, <3>4, TrimPlaced
    <3> QED
      BY <3>5 DEF p, TrimmedTo
  <2>10. \A i \in 1..Len(p) : Keeps(p[i], t)
    <3>1. \A i \in 1..Len(q) : Keeps(q[i], t)
      BY DEF Scanned
    <3>2. \A i \in 1..Len(p) : i \in 1..Len(q) \/ i = Len(q) + 1
      BY <1>2, <2>8
    <3> QED
      BY <1>5, <2>8, <3>1, <3>2 DEF l
  <2>11. EndOf(p, T)
    <3>1. p \in Seq(Line)
      BY <2>8
    <3> QED
      BY ONLY <3>1, TrimFacts
  <2> HIDE DEF T
  <2>12. PICK c \in 0..Len(p) : /\ T \in Seq(Line) /\ Len(T) = Len(p) - c /\ Within(T)
                                /\ \A i \in 1..(Len(p) - c) : T[i] = p[i + c]
    BY <2>11 DEF EndOf
  <2>13. Len(T) <= n /\ (Len(T) = n => c = 0 /\ Len(q) = n - 1)
    BY <1>1, <1>2, <2>8, <2>12
  <2>14. \A i \in 1..Len(T) : Keeps(T[i], t)
    <3>1. \A i \in 1..(Len(p) - c) : i + c \in 1..Len(p)
      BY <1>2, <2>8
    <3> QED
      BY <2>10, <2>12, <3>1
  <2>15. ASSUME Len(T) = n, NEW i \in 1..n
         PROVE  T[i] = file[i]
    <3>1. c = 0 /\ Len(q) = n - 1 /\ i \in 1..(Len(p) - c) /\ i + c = i
      BY <1>1, <2>8, <2>12, <2>13, <2>15
    <3>2. T[i] = p[i]
      BY <2>12, <3>1
    <3>3. CASE i = n
      <4>1. i = Len(q) + 1
        BY <1>1, <3>1, <3>3
      <4> QED
        BY <2>8, <3>2, <3>3, <4>1 DEF l
    <3>4. CASE i \in 1..(n - 1)
      <4>1. q[i] = file[i]
        BY <3>1, <3>4 DEF Scanned
      <4> QED
        BY <2>8, <3>1, <3>2, <3>4, <4>1
    <3> QED
      BY <1>1, <3>3, <3>4
  <2>16. Scanned(T, t, n)
    BY <2>5, <2>9, <2>12, <2>13, <2>14, <2>15 DEF Scanned
  <2> QED
    BY <1>5, <2>16 DEF T, p, l
<1> QED
  BY <1>4, <1>5

\* The scan keeps the newest unexpired lines that fit, in their order.
LEMMA ScanFacts ==
    ASSUME order \in Seq(Stamped), Once(order), file \in Seq(Line), Listed(file, order), NEW t
    PROVE  Scanned(Scan(t), t, Len(file))
<1> DEFINE N == Len(file)
           Passes(g) == g = [n \in 0..N |-> IF n = 0 THEN <<>>
                                            ELSE IF Keeps(file[n], t) THEN Trim(Append(g[n - 1], file[n]))
                                            ELSE g[n - 1]]
           kept == CHOOSE g : Passes(g)
           step == [n \in 1..N |-> [q \in Seq(Line) |->
                        IF Keeps(file[n], t) THEN Trim(Append(q, file[n])) ELSE q]]
<1>1. N \in Nat /\ <<>> \in Seq(Line) /\ \A n \in 1..N : file[n] \in Line
  OBVIOUS
<1>2. Scan(t) = kept[N]
  BY DEF Scan
<1>3. \A q \in Seq(Line) : Trim(q) \in Seq(Line)
  BY TrimStops, WithoutFacts
<1>4. step \in [1..N -> [Seq(Line) -> Seq(Line)]]
  <2>1. ASSUME NEW n \in 1..N, NEW q \in Seq(Line)
        PROVE  (IF Keeps(file[n], t) THEN Trim(Append(q, file[n])) ELSE q) \in Seq(Line)
    <3>1. Append(q, file[n]) \in Seq(Line)
      BY <1>1
    <3> QED
      BY <1>3, <3>1
  <2> QED
    BY <2>1
<1>5. \A n \in 1..N : \A q \in Seq(Line) :
          step[n][q] = IF Keeps(file[n], t) THEN Trim(Append(q, file[n])) ELSE q
  OBVIOUS
<1> HIDE DEF step, N, kept
<1>6. PICK g \in [0..N -> Seq(Line)] : Runs(step, <<>>, N, g)
  BY <1>1, <1>4, LoopRuns
<1>7. Passes(g)
  <2>1. \A n \in 0..N : n # 0 => n \in 1..N /\ n - 1 \in 0..N
    BY <1>1
  <2>2. \A n \in 0..N : n # 0 => g[n - 1] \in Seq(Line)
    BY <1>6, <2>1
  <2>3. \A n \in 0..N : (IF n = 0 THEN <<>> ELSE step[n][g[n - 1]])
            = (IF n = 0 THEN <<>> ELSE IF Keeps(file[n], t) THEN Trim(Append(g[n - 1], file[n]))
                                  ELSE g[n - 1])
    BY <1>5, <2>1, <2>2
  <2> QED
    BY <1>6, <2>3 DEF Runs
<1>8. Passes(kept)
  BY <1>7 DEF kept
<1>9. \A n \in 0..N : kept[n] = IF n = 0 THEN <<>>
                                ELSE IF Keeps(file[n], t) THEN Trim(Append(kept[n - 1], file[n]))
                                ELSE kept[n - 1]
  BY <1>8
<1> HIDE DEF Passes
<1>10. \A n \in 0..N : Scanned(kept[n], t, n)
  <2> DEFINE Bad == {n \in 0..N : ~Scanned(kept[n], t, n)}
  <2> SUFFICES ASSUME Bad # {}
               PROVE  FALSE
    OBVIOUS
  <2>1. Bad \in SUBSET Nat
    BY <1>1
  <2>2. PICK n \in Bad : \A k \in Bad : n <= k
    BY <2>1, LeastNumber
  <2>3. n \in 0..N /\ ~Scanned(kept[n], t, n)
    OBVIOUS
  <2>4. n # 0
    BY <1>1, <1>9, <2>3, ScanStarts
  <2>5. n \in 1..N /\ n - 1 \in 0..N /\ ~(n <= n - 1)
    BY <1>1, <2>3, <2>4
  <2>6. Scanned(kept[n - 1], t, n - 1)
    BY <2>2, <2>5
  <2>7. Scanned(IF Keeps(file[n], t) THEN Trim(Append(kept[n - 1], file[n])) ELSE kept[n - 1], t, n)
    BY <2>5, <2>6, ScanGoesOn DEF N
  <2> QED
    BY <1>9, <2>3, <2>4, <2>7
<1>11. N \in 0..N
  BY <1>1
<1> QED
  BY <1>2, <1>10, <1>11 DEF N

-----------------------------------------------------------------------------
(* The order of writing *)

\* What a line that is added adds to the readable ones.
LEMMA LinesAppended ==
    ASSUME NEW q \in Seq(Line), NEW l \in Line
    PROVE  LinesOf(Append(q, l)) = LinesOf(q) \cup (IF l.whole THEN {Readable(l)} ELSE {})
<1> DEFINE p == Append(q, l)
<1>1. /\ Len(q) \in Nat /\ DOMAIN q = 1..Len(q) /\ DOMAIN p = 1..(Len(q) + 1)
      /\ p[Len(q) + 1] = l /\ \A i \in 1..Len(q) : p[i] = q[i]
      /\ \A i \in 1..(Len(q) + 1) : i \in 1..Len(q) \/ i = Len(q) + 1
      /\ \A i \in 1..Len(q) : i \in 1..(Len(q) + 1)
      /\ Len(q) + 1 \in 1..(Len(q) + 1)
  OBVIOUS
<1> HIDE DEF p
<1>2. \A i \in Whole(q) : i \in Whole(p) /\ p[i] = q[i]
  BY <1>1 DEF Whole
<1>3. \A i \in Whole(p) : (i \in Whole(q) /\ p[i] = q[i]) \/ (l.whole /\ p[i] = l)
  BY <1>1 DEF Whole
<1>4. l.whole => \E i \in Whole(p) : p[i] = l
  BY <1>1 DEF Whole
<1>5. LinesOf(p) = LinesOf(q) \cup (IF l.whole THEN {Readable(l)} ELSE {})
  <2>1. ASSUME NEW r \in LinesOf(p)
        PROVE  r \in LinesOf(q) \cup (IF l.whole THEN {Readable(l)} ELSE {})
    <3>1. PICK i \in Whole(p) : r = Readable(p[i])
      BY DEF LinesOf
    <3> QED
      BY <1>3, <3>1 DEF LinesOf
  <2>2. ASSUME NEW r \in LinesOf(q)
        PROVE  r \in LinesOf(p)
    <3>1. PICK i \in Whole(q) : r = Readable(q[i])
      BY DEF LinesOf
    <3> QED
      BY <1>2, <3>1 DEF LinesOf
  <2>3. l.whole => Readable(l) \in LinesOf(p)
    BY <1>4 DEF LinesOf
  <2> QED
    BY <2>1, <2>2, <2>3
<1> QED
  BY <1>5 DEF p

\* A torn tail has no place.
LEMMA ListedTorn ==
    ASSUME NEW f \in Seq(Line), NEW o, Listed(f, o), NEW l \in Line, ~l.whole
    PROVE  Listed(Append(f, l), o)
<1> DEFINE g == Append(f, l)
<1>1. \A i \in Whole(g) : i \in Whole(f) /\ g[i] = f[i]
  <2>1. /\ Len(f) \in Nat /\ DOMAIN f = 1..Len(f) /\ DOMAIN g = 1..(Len(f) + 1)
        /\ g[Len(f) + 1] = l /\ \A i \in 1..Len(f) : g[i] = f[i]
        /\ \A i \in 1..(Len(f) + 1) : i \in 1..Len(f) \/ i = Len(f) + 1
    OBVIOUS
  <2> HIDE DEF g
  <2> QED
    BY <2>1 DEF Whole
<1> HIDE DEF g
<1>2. Listed(g, o)
  BY <1>1 DEF Listed
<1> QED
  BY <1>2 DEF g

\* A record that is written comes last in the file and in the order.
LEMMA ListedWhole ==
    ASSUME NEW f \in Seq(Line), NEW o \in Seq(Stamped), Listed(f, o),
           NEW l \in Line, Readable(l) \in Stamped
    PROVE  Listed(Append(f, l), Append(o, Readable(l)))
<1> DEFINE g == Append(f, l)
           r == Readable(l)
           p == Append(o, r)
<1>1. \A i \in Whole(g) : (i \in Whole(f) /\ g[i] = f[i]) \/ (i = Len(f) + 1 /\ g[i] = l)
  <2>1. /\ Len(f) \in Nat /\ DOMAIN f = 1..Len(f) /\ DOMAIN g = 1..(Len(f) + 1)
        /\ g[Len(f) + 1] = l /\ \A i \in 1..Len(f) : g[i] = f[i]
        /\ \A i \in 1..(Len(f) + 1) : i \in 1..Len(f) \/ i = Len(f) + 1
    OBVIOUS
  <2> HIDE DEF g
  <2> QED
    BY <2>1 DEF Whole
<1>2. \A i \in Whole(g) : ~(Len(f) + 1 < i)
  <2>1. Len(f) \in Nat /\ \A i \in 1..(Len(f) + 1) : ~(Len(f) + 1 < i)
    OBVIOUS
  <2>2. DOMAIN g = 1..(Len(f) + 1)
    OBVIOUS
  <2> QED
    BY <2>1, <2>2 DEF Whole
<1>3. /\ \A a \in DOMAIN o : a \in DOMAIN p /\ p[a] = o[a] /\ a < Len(o) + 1
      /\ Len(o) + 1 \in DOMAIN p /\ p[Len(o) + 1] = r
  <2> HIDE DEF r
  <2>1. r \in Stamped /\ Len(o) \in Nat /\ DOMAIN o = 1..Len(o)
    BY DEF r
  <2>2. DOMAIN p = 1..(Len(o) + 1) /\ p[Len(o) + 1] = r /\ \A a \in 1..Len(o) : p[a] = o[a]
    BY <2>1
  <2> HIDE DEF p
  <2>3. \A a \in 1..Len(o) : a \in 1..(Len(o) + 1) /\ a < Len(o) + 1
    BY <2>1
  <2>4. Len(o) + 1 \in 1..(Len(o) + 1)
    BY <2>1
  <2> QED
    BY <2>1, <2>2, <2>3, <2>4
<1> HIDE DEF g, p, r
<1>4. ASSUME NEW i \in Whole(g)
      PROVE  \E a \in DOMAIN p : /\ p[a] = Readable(g[i])
                                 /\ \A k \in Whole(g) : i < k =>
                                        \E b \in DOMAIN p : a < b /\ p[b] = Readable(g[k])
  <2>1. CASE i = Len(f) + 1 /\ g[i] = l
    BY <1>2, <1>3, <2>1 DEF r
  <2>2. CASE i \in Whole(f) /\ g[i] = f[i]
    <3>1. PICK a \in DOMAIN o : /\ o[a] = Readable(f[i])
                                /\ \A k \in Whole(f) : i < k =>
                                       \E b \in DOMAIN o : a < b /\ o[b] = Readable(f[k])
      BY <2>2 DEF Listed
    <3>2. a \in DOMAIN p /\ p[a] = Readable(g[i])
      BY <1>3, <2>2, <3>1
    <3>3. ASSUME NEW k \in Whole(g), i < k
          PROVE  \E b \in DOMAIN p : a < b /\ p[b] = Readable(g[k])
      <4>1. CASE k = Len(f) + 1 /\ g[k] = l
        BY <1>3, <4>1 DEF r
      <4>2. CASE k \in Whole(f) /\ g[k] = f[k]
        <5>1. PICK b \in DOMAIN o : a < b /\ o[b] = Readable(f[k])
          BY <3>1, <3>3, <4>2
        <5> QED
          BY <1>3, <4>2, <5>1
      <4> QED
        BY <1>1, <4>1, <4>2
    <3> QED
      BY <3>2, <3>3
  <2> QED
    BY <1>1, <2>1, <2>2
<1>5. Listed(g, p)
  BY <1>4 DEF Listed
<1> QED
  BY <1>5 DEF g, p, r

\* The lines of a file keep their places when the order grows.
LEMMA ListedLater ==
    ASSUME NEW f, NEW o \in Seq(Stamped), Listed(f, o), NEW r \in Stamped
    PROVE  Listed(f, Append(o, r))
<1> DEFINE p == Append(o, r)
<1>1. \A a \in DOMAIN o : a \in DOMAIN p /\ p[a] = o[a]
  <2>1. Len(o) \in Nat /\ DOMAIN o = 1..Len(o) /\ DOMAIN p = 1..(Len(o) + 1)
        /\ \A a \in 1..Len(o) : p[a] = o[a] /\ a \in 1..(Len(o) + 1)
    OBVIOUS
  <2> QED
    BY <2>1
<1> HIDE DEF p
<1>2. ASSUME NEW i \in Whole(f)
      PROVE  \E a \in DOMAIN p : /\ p[a] = Readable(f[i])
                                 /\ \A k \in Whole(f) : i < k =>
                                        \E b \in DOMAIN p : a < b /\ p[b] = Readable(f[k])
  <2>1. PICK a \in DOMAIN o : /\ o[a] = Readable(f[i])
                              /\ \A k \in Whole(f) : i < k =>
                                     \E b \in DOMAIN o : a < b /\ o[b] = Readable(f[k])
    BY DEF Listed
  <2> QED
    BY <1>1, <2>1
<1>3. Listed(f, p)
  BY <1>2 DEF Listed
<1> QED
  BY <1>3 DEF p

\* What the scan has kept is listed.
LEMMA PlacedListed ==
    ASSUME order \in Seq(Stamped), NEW q \in Seq(Line), NEW m, Placed(q, m)
    PROVE  Listed(q, order)
<1>1. DOMAIN q = 1..Len(q) /\ DOMAIN order = 1..Len(order)
  OBVIOUS
<1>2. \A i \in Whole(q) : i \in 1..Len(q)
  BY <1>1 DEF Whole
<1>3. \A k \in 1..Len(q) : m[k] \in DOMAIN order /\ order[m[k]] = Readable(q[k])
  BY <1>1 DEF Placed
<1>4. \A j, k \in 1..Len(q) : j < k => m[j] < m[k]
  BY DEF Placed
<1> QED
  BY <1>2, <1>3, <1>4 DEF Listed

\* An event that was not written may be.
LEMMA OnceLater ==
    ASSUME NEW o \in Seq(Stamped), Once(o), NEW r \in Stamped, \A a \in DOMAIN o : o[a].id # r.id
    PROVE  Once(Append(o, r))
<1> DEFINE p == Append(o, r)
<1>1. \A a \in DOMAIN p : (a \in DOMAIN o /\ p[a] = o[a]) \/ (a = Len(o) + 1 /\ p[a] = r)
  <2>1. Len(o) \in Nat /\ DOMAIN o = 1..Len(o) /\ DOMAIN p = 1..(Len(o) + 1)
        /\ p[Len(o) + 1] = r /\ (\A a \in 1..Len(o) : p[a] = o[a])
        /\ \A a \in 1..(Len(o) + 1) : a \in 1..Len(o) \/ a = Len(o) + 1
    OBVIOUS
  <2> QED
    BY <2>1
<1> HIDE DEF p
<1>2. Once(p)
  BY <1>1 DEF Once
<1> QED
  BY <1>2 DEF p

-----------------------------------------------------------------------------
(* The calls *)

Steps == {"idle", "flock"} \cup InStore

Calls == [op : {"none", "append", "compact", "read"}, ev : Events \cup {NoEvent}, now : Nat,
          verdict : {"none", "ok", "unsatisfied", "raise"}]

\* What a call is when it stands at p.
CallOK(p, c) ==
    /\ p = "idle" => c = NoCall
    /\ p # "idle" => c.now \in Times /\ (c.op = "append" <=> c.ev \in Events)
    /\ p \in {"write", "sync"} => c.op = "append"
    /\ p = "dirsync" => c.op # "read" /\ c.verdict = "ok"

Located(p, f) == \A w \in Workers : p[w] \in InStore <=> f = w

\* Two calls never append the same event.
Distinct(c) == \A v, w \in Workers : v # w /\ c[v].ev = c[w].ev => c[v].ev = NoEvent

\* Where the workers are, and the lock.
Control ==
    /\ pc \in [Workers -> Steps] /\ call \in [Workers -> Calls] /\ flock \in Workers \cup {NoWorker}
    /\ Located(pc, flock)
    /\ \A w \in Workers : CallOK(pc[w], call[w])
    /\ Distinct(call)

\* The call of w with another verdict.
WithVerdict(w, v) == [call[w] EXCEPT !.verdict = v]

LEMMA CallFields ==
    \A c \in Calls : /\ c.op \in {"none", "append", "compact", "read"}
                     /\ c.ev \in Events \cup {NoEvent} /\ c.now \in Nat
                     /\ c.verdict \in {"none", "ok", "unsatisfied", "raise"}
  BY DEF Calls

LEMMA NoCallFields ==
    NoCall \in Calls /\ NoCall.ev = NoEvent /\ NoCall.op = "none" /\ NoCall.verdict = "none"
  BY DEF NoCall, Calls

LEMMA VerdictFields ==
    ASSUME NEW w, call[w] \in Calls, NEW v \in {"none", "ok", "unsatisfied", "raise"}
    PROVE  LET c == WithVerdict(w, v)
           IN  /\ c \in Calls /\ c.op = call[w].op /\ c.ev = call[w].ev
               /\ c.now = call[w].now /\ c.verdict = v
  BY DEF WithVerdict, Calls

\* A worker that moves, alone, takes the control to the control.
Moves(w, p, c) ==
    /\ pc' = [pc EXCEPT ![w] = p]
    /\ call' = [call EXCEPT ![w] = c]

LEMMA MovesFacts ==
    ASSUME Control, NEW w \in Workers, NEW p \in Steps, NEW c \in Calls, Moves(w, p, c)
    PROVE  /\ pc' \in [Workers -> Steps] /\ call' \in [Workers -> Calls]
           /\ pc'[w] = p /\ call'[w] = c
           /\ \A v \in Workers : v # w => pc'[v] = pc[v] /\ call'[v] = call[v]
  BY DEF Moves, Control

LEMMA ControlMoves ==
    ASSUME Control, NEW w \in Workers, NEW p \in Steps, NEW c \in Calls, Moves(w, p, c),
           CallOK(p, c), flock' \in Workers \cup {NoWorker}, p \in InStore <=> flock' = w,
           \A v \in Workers : v # w => (flock' = v <=> flock = v),
           c.ev = NoEvent \/ c.ev = call[w].ev \/ \A v \in Workers : call[v].ev # c.ev
    PROVE  Control'
<1>1. /\ pc' \in [Workers -> Steps] /\ call' \in [Workers -> Calls]
      /\ pc'[w] = p /\ call'[w] = c
      /\ \A v \in Workers : v # w => pc'[v] = pc[v] /\ call'[v] = call[v]
  BY MovesFacts
<1>2. Located(pc', flock')
  BY <1>1 DEF Located, Control
<1>3. \A v \in Workers : CallOK(pc'[v], call'[v])
  BY <1>1 DEF Control
<1>4. Distinct(call')
  BY <1>1 DEF Distinct, Control
<1> QED
  BY <1>1, <1>2, <1>3, <1>4 DEF Control

\* A worker that goes on with its call.
LEMMA Stays ==
    ASSUME Control, NEW w \in Workers, NEW p, Goto(w, p), call' = call
    PROVE  Moves(w, p, call[w])
<1>1. call' = [call EXCEPT ![w] = call[w]]
  BY DEF Control
<1> QED
  BY <1>1 DEF Moves, Goto

\* A worker that knows what it will report.
LEMMA Reports ==
    ASSUME Control, NEW w \in Workers, NEW p, NEW v, Goto(w, p),
           call' = [call EXCEPT ![w].verdict = v]
    PROVE  Moves(w, p, WithVerdict(w, v))
  BY DEF Moves, Goto, WithVerdict

\* A worker whose call ends.
LEMMA Ends ==
    ASSUME NEW w \in Workers, End(w)
    PROVE  Moves(w, "idle", NoCall)
  BY DEF Moves, End, Goto

\* The control where the lock is not touched and the worker goes on or reports.
LEMMA GoesOn ==
    ASSUME Control, NEW w \in Workers, NEW p \in InStore, pc[w] \in InStore, flock' = flock,
           p \in {"write", "sync"} => call[w].op = "append",
           p = "dirsync" => call[w].op # "read" /\ call[w].verdict = "ok",
           Goto(w, p), call' = call
    PROVE  /\ Control' /\ pc'[w] = p /\ call'[w] = call[w] /\ flock' = w
           /\ \A v \in Workers : v # w => pc'[v] = pc[v] /\ call'[v] = call[v]
<1>1. Moves(w, p, call[w])
  BY Stays
<1>2. call[w] \in Calls /\ p \in Steps /\ p \notin {"idle", "flock"} /\ flock' = w
      /\ flock' \in Workers \cup {NoWorker}
  BY DEF Control, Located, Steps, InStore
<1>3. CallOK(p, call[w])
  <2>1. CallOK(pc[w], call[w]) /\ pc[w] # "idle"
    BY DEF Control, InStore
  <2> QED
    BY <1>2, <2>1 DEF CallOK
<1>4. Control'
  BY <1>1, <1>2, <1>3, ControlMoves
<1> QED
  BY <1>1, <1>2, <1>4, MovesFacts

LEMMA ReportsOn ==
    ASSUME Control, NEW w \in Workers, NEW p \in {"dirsync", "unlock"}, pc[w] \in InStore,
           flock' = flock, NEW v \in {"none", "ok", "unsatisfied", "raise"},
           p = "dirsync" => call[w].op # "read" /\ v = "ok",
           Goto(w, p), call' = [call EXCEPT ![w].verdict = v]
    PROVE  /\ Control' /\ pc'[w] = p /\ call'[w] = WithVerdict(w, v) /\ flock' = w
           /\ \A u \in Workers : u # w => pc'[u] = pc[u] /\ call'[u] = call[u]
<1> DEFINE c == WithVerdict(w, v)
<1>1. Moves(w, p, c)
  BY Reports
<1>2. call[w] \in Calls /\ p \in Steps /\ p \in InStore
      /\ p \notin {"idle", "flock", "write", "sync"} /\ flock' = w
      /\ flock' \in Workers \cup {NoWorker}
  BY DEF Control, Located, Steps, InStore
<1>3. /\ c \in Calls /\ c.op = call[w].op /\ c.ev = call[w].ev
      /\ c.now = call[w].now /\ c.verdict = v
  BY <1>2, VerdictFields
<1> HIDE DEF c
<1>4. CallOK(p, c)
  <2>1. CallOK(pc[w], call[w]) /\ pc[w] # "idle"
    BY DEF Control, InStore
  <2> QED
    BY <1>2, <1>3, <2>1 DEF CallOK
<1>5. Control'
  BY <1>1, <1>2, <1>3, <1>4, ControlMoves
<1> QED
  BY <1>1, <1>2, <1>3, <1>5, MovesFacts DEF c

\* The control where the call ends.
LEMMA EndsIdle ==
    ASSUME Control, NEW w \in Workers, End(w), flock' \in Workers \cup {NoWorker}, flock' # w,
           \A v \in Workers : v # w => (flock' = v <=> flock = v)
    PROVE  /\ Control' /\ pc'[w] = "idle" /\ call'[w] = NoCall
           /\ \A v \in Workers : v # w => pc'[v] = pc[v] /\ call'[v] = call[v]
<1>1. Moves(w, "idle", NoCall)
  BY Ends
<1>2. "idle" \in Steps /\ "idle" \notin InStore
  BY DEF Steps, InStore
<1>3. CallOK("idle", NoCall)
  BY DEF CallOK
<1>4. Control'
  BY <1>1, <1>2, <1>3, NoCallFields, ControlMoves
<1> QED
  BY <1>1, <1>2, <1>4, NoCallFields, MovesFacts

-----------------------------------------------------------------------------
(* The inductive invariant *)

Files ==
    /\ file \in Seq(Line) /\ ended \in BOOLEAN /\ disk \in Seq(Line) \X BOOLEAN
    /\ acked \in SUBSET Events /\ order \in Seq(Stamped)

Ordered == Once(order) /\ Listed(file, order) /\ Listed(disk[1], order)

NotWritten(e) == \A a \in DOMAIN order : order[a].id # e

\* A call that has still to write appends a new event.
Unwritten == \A w \in Workers : pc[w] \in {"flock", "write"} => NotWritten(call[w].ev)

\* What a result of retention_satisfied says of the file.
Sound(t) == ended /\ (\A i \in DOMAIN file : Keeps(file[i], t)) /\ Within(file)

Claims(p, c) == p \in {"dirsync", "unlock"} /\ c.op # "read" /\ c.verdict = "ok"

Verdicts == \A w \in Workers : Claims(pc[w], call[w]) => Sound(call[w].now)

Entries == {order[a] : a \in DOMAIN order}

\* What a power loss cannot take from the promise.
OnDisk == LinesOf(disk[1]) \cup purged

Stored(e) == \E l \in LinesOf(file) \cup purged : l.id = e

Secure(e) == \A l \in LinesOf(file) : l.id = e => l \in OnDisk

\* A call that wrote its record, and has not failed.
Written(p, c) ==
    /\ c.op = "append"
    /\ p \in {"sync", "scan", "dirsync"} \/ (p = "unlock" /\ c.verdict # "raise")

\* A record that was written is there, and once it is synced a power loss cannot take it.
Records ==
    \A w \in Workers : Written(pc[w], call[w]) =>
        Stored(call[w].ev) /\ (pc[w] # "sync" => Secure(call[w].ev))

\* The disk is behind the file, and not in what was acknowledged.
Durable ==
    /\ purged \in SUBSET Entries
    /\ LinesOf(disk[1]) \in SUBSET (LinesOf(file) \cup purged)
    /\ \A e \in acked : (\E a \in DOMAIN order : order[a].id = e) /\ Secure(e)

Content == Files /\ Ordered /\ Unwritten /\ Verdicts /\ Records /\ Durable

IInv == Control /\ Content

LEMMA StoreInit == Init => IInv
<1> SUFFICES ASSUME Init
             PROVE  IInv
  OBVIOUS
<1> USE DEF Init
<1>1. Control
  <2>1. "idle" \in Steps /\ "idle" \notin InStore
    BY DEF Steps, InStore
  <2>2. pc \in [Workers -> Steps] /\ \A w \in Workers : pc[w] = "idle"
    BY <2>1
  <2>3. call \in [Workers -> Calls] /\ \A w \in Workers : call[w] = NoCall
    BY NoCallFields
  <2>4. Located(pc, flock)
    BY <2>1, <2>2, NamesAssumption DEF Located
  <2>5. \A w \in Workers : CallOK(pc[w], call[w])
    BY <2>2, <2>3 DEF CallOK
  <2>6. Distinct(call)
    BY <2>3, NoCallFields DEF Distinct
  <2> QED
    BY <2>2, <2>3, <2>4, <2>5, <2>6 DEF Control
<1>2. file = <<>> /\ order = <<>> /\ disk[1] = <<>> /\ DOMAIN order = {} /\ DOMAIN file = {}
  OBVIOUS
<1>3. Files
  <2>1. file \in Seq(Line) /\ order \in Seq(Stamped)
    BY <1>2
  <2>2. disk \in Seq(Line) \X BOOLEAN
    <3>1. disk = <<file, ended>> /\ ended \in BOOLEAN
      OBVIOUS
    <3> QED
      BY ONLY <2>1, <3>1
  <2>3. ended \in BOOLEAN /\ acked \in SUBSET Events
    OBVIOUS
  <2> QED
    BY ONLY <2>1, <2>2, <2>3 DEF Files
<1>4. Whole(file) = {} /\ Whole(disk[1]) = {}
  BY <1>2 DEF Whole
<1>5. Ordered
  BY <1>2, <1>4 DEF Ordered, Once, Listed
<1>6. \A w \in Workers : pc[w] = "idle"
  OBVIOUS
<1>7. Unwritten /\ Verdicts /\ Records
  BY <1>6 DEF Unwritten, Verdicts, Records, Claims, Written
<1>8. LinesOf(disk[1]) = {}
  BY <1>4 DEF LinesOf
<1>9. Durable
  BY <1>8 DEF Durable
<1> QED
  BY <1>1, <1>3, <1>5, <1>7, <1>9 DEF IInv, Content

\* A step that leaves the store alone.
LEMMA QuietStep ==
    ASSUME Content, UNCHANGED <<store, hist>>, NEW w \in Workers,
           \A v \in Workers : v # w => pc'[v] = pc[v] /\ call'[v] = call[v],
           pc'[w] \in {"flock", "write"} => NotWritten(call'[w].ev),
           Claims(pc'[w], call'[w]) => Sound(call'[w].now),
           Written(pc'[w], call'[w]) =>
               Stored(call'[w].ev) /\ (pc'[w] # "sync" => Secure(call'[w].ev))
    PROVE  Content'
<1>1. /\ file' = file /\ ended' = ended /\ disk' = disk /\ acked' = acked
      /\ order' = order /\ purged' = purged
  BY DEF store, hist
<1>2. Files' /\ Ordered'
  BY <1>1 DEF Files, Ordered, Content
<1>3. Unwritten'
  BY <1>1 DEF Unwritten, NotWritten, Content
<1>4. Verdicts'
  BY <1>1 DEF Verdicts, Sound, Content
<1>5. Records'
  BY <1>1 DEF Records, Stored, Secure, OnDisk, Content
<1>6. Durable'
  BY <1>1 DEF Durable, Entries, Secure, OnDisk, Content
<1> QED
  BY <1>2, <1>3, <1>4, <1>5, <1>6 DEF Content

\* The others are outside the store, where they claim nothing.
Outside(w) ==
    \A v \in Workers : v # w => /\ pc'[v] = pc[v] /\ call'[v] = call[v]
                                /\ pc'[v] \notin InStore

LEMMA OutsideFacts ==
    ASSUME NEW p, p \notin InStore, NEW c
    PROVE  ~Claims(p, c) /\ ~Written(p, c) /\ p # "write"
  BY DEF Claims, Written, InStore

\* The whole lines of a listed file are entries.
LEMMA ListedEntries ==
    ASSUME NEW f, Listed(f, order)
    PROVE  LinesOf(f) \in SUBSET Entries
  BY DEF Listed, LinesOf, Entries

\* A step that adds a record.
LEMMA InsertStep ==
    ASSUME Content, NEW w \in Workers, NEW e \in Events, NEW t \in Nat, NEW l \in Line,
           l = [id |-> e, at |-> t, whole |-> TRUE], NotWritten(e),
           file' = Append(file, l), order' = Append(order, Readable(l)), ended' \in BOOLEAN,
           disk' = disk, acked' = acked, purged' = purged, Outside(w),
           \A v \in Workers : v # w => call[v].ev # e,
           pc'[w] \notin {"flock", "write"}, ~Claims(pc'[w], call'[w]),
           Written(pc'[w], call'[w]) => pc'[w] = "sync" /\ call'[w].ev = e
    PROVE  Content' /\ LinesOf(file') = LinesOf(file) \cup {Readable(l)}
<1> DEFINE r == Readable(l)
<1>1. file \in Seq(Line) /\ order \in Seq(Stamped) /\ disk \in Seq(Line) \X BOOLEAN
      /\ acked \in SUBSET Events
  BY DEF Content, Files
<1>2. l.whole /\ l.id = e /\ r = [id |-> e, at |-> t] /\ r.id = e
  BY DEF Readable
<1>3. r \in Stamped
  BY <1>2 DEF Stamped
<1> HIDE DEF r
<1>4. file' \in Seq(Line) /\ order' \in Seq(Stamped)
  BY <1>1, <1>3 DEF r
<1>5. LinesOf(file') = LinesOf(file) \cup {r}
  BY <1>1, <1>2, LinesAppended DEF r
<1>6. /\ \A a \in DOMAIN order' : (a \in DOMAIN order /\ order'[a] = order[a]) \/ order'[a] = r
      /\ \A a \in DOMAIN order : a \in DOMAIN order' /\ order'[a] = order[a]
      /\ \E a \in DOMAIN order' : order'[a] = r
  <2>1. order' = Append(order, r)
    BY DEF r
  <2>2. /\ Len(order) \in Nat /\ DOMAIN order = 1..Len(order) /\ DOMAIN order' = 1..(Len(order) + 1)
        /\ order'[Len(order) + 1] = r /\ \A a \in 1..Len(order) : order'[a] = order[a]
    BY <1>1, <1>3, <2>1
  <2>3. /\ \A a \in 1..(Len(order) + 1) : a \in 1..Len(order) \/ a = Len(order) + 1
        /\ \A a \in 1..Len(order) : a \in 1..(Len(order) + 1)
        /\ Len(order) + 1 \in 1..(Len(order) + 1)
    BY <2>2
  <2> QED
    BY <2>2, <2>3
<1>7. Files'
  BY <1>1, <1>4 DEF Files
<1>8. Ordered'
  <2>1. Once(order')
    BY <1>1, <1>2, <1>3, OnceLater DEF Content, Ordered, NotWritten, r
  <2>2. Listed(file', order')
    BY <1>1, <1>3, ListedWhole DEF Content, Ordered, r
  <2>3. Listed(disk[1], order')
    BY <1>1, <1>3, ListedLater DEF Content, Ordered, r
  <2> QED
    BY <2>1, <2>2, <2>3 DEF Ordered
<1>9. Unwritten'
  <2>1. ASSUME NEW v \in Workers, pc'[v] \in {"flock", "write"}, NEW a \in DOMAIN order'
        PROVE  order'[a].id # call'[v].ev
    <3>1. v # w /\ pc[v] \in {"flock", "write"} /\ call'[v] = call[v]
      BY <2>1 DEF Outside
    <3>2. call[v].ev # e /\ \A b \in DOMAIN order : order[b].id # call[v].ev
      BY <3>1 DEF Content, Unwritten, NotWritten
    <3>3. order'[a].id = e \/ \E b \in DOMAIN order : order'[a] = order[b]
      BY <1>2, <1>6, <2>1
    <3> QED
      BY <3>1, <3>2, <3>3
  <2> QED
    BY <2>1 DEF Unwritten, NotWritten
<1>10. \A v \in Workers : ~Claims(pc'[v], call'[v]) /\ (Written(pc'[v], call'[v]) => v = w)
  BY OutsideFacts DEF Outside
<1>11. Verdicts'
  BY <1>10 DEF Verdicts
<1>12. Records'
  BY <1>2, <1>5, <1>10 DEF Records, Stored
<1>13. Durable'
  <2>1. purged' \in SUBSET Entries'
    BY <1>6 DEF Content, Durable, Entries
  <2>2. LinesOf(disk'[1]) \in SUBSET (LinesOf(file') \cup purged')
    BY <1>5 DEF Content, Durable
  <2>3. ASSUME NEW a \in acked
        PROVE  (\E b \in DOMAIN order' : order'[b].id = a)
               /\ \A k \in LinesOf(file') : k.id = a => k \in LinesOf(disk'[1]) \cup purged'
    <3>1. (\E b \in DOMAIN order : order[b].id = a) /\ Secure(a)
      BY DEF Content, Durable
    <3>2. a # r.id
      BY <1>2, <3>1 DEF NotWritten
    <3> QED
      BY <1>5, <1>6, <3>1, <3>2 DEF Secure, OnDisk
  <2> QED
    BY <2>1, <2>2, <2>3 DEF Durable, Secure, OnDisk
<1> QED
  BY <1>5, <1>7, <1>8, <1>9, <1>11, <1>12, <1>13 DEF Content, r

\* A step that leaves a torn tail, or only its separator.
LEMMA TearStep ==
    ASSUME Content, NEW w \in Workers, file' = file \/ file' = Append(file, Torn),
           ended' \in BOOLEAN, disk' = disk, UNCHANGED hist, Outside(w),
           pc'[w] \notin {"flock", "write"}, ~Claims(pc'[w], call'[w]), ~Written(pc'[w], call'[w])
    PROVE  Content' /\ LinesOf(file') = LinesOf(file)
<1>1. /\ file \in Seq(Line) /\ order \in Seq(Stamped) /\ disk \in Seq(Line) \X BOOLEAN
      /\ acked \in SUBSET Events /\ acked' = acked /\ order' = order /\ purged' = purged
  BY DEF Content, Files, hist
<1>2. Torn \in Line /\ ~Torn.whole
  BY DEF Torn, Line
<1>3. file' \in Seq(Line)
  <2> HIDE DEF Torn
  <2>1. Append(file, Torn) \in Seq(Line)
    BY <1>1, <1>2
  <2> QED
    BY <1>1, <2>1
<1>4. LinesOf(file') = LinesOf(file)
  BY <1>1, <1>2, LinesAppended
<1>5. Listed(file', order)
  BY <1>1, <1>2, ListedTorn DEF Content, Ordered
<1>6. Files' /\ Ordered'
  BY <1>1, <1>3, <1>5 DEF Content, Files, Ordered
<1>7. Unwritten'
  BY <1>1 DEF Content, Unwritten, NotWritten, Outside
<1>8. \A v \in Workers : ~Claims(pc'[v], call'[v]) /\ ~Written(pc'[v], call'[v])
  BY OutsideFacts DEF Outside
<1>9. Verdicts' /\ Records'
  BY <1>8 DEF Verdicts, Records
<1>10. Durable'
  BY <1>1, <1>4 DEF Content, Durable, Entries, Secure, OnDisk
<1> QED
  BY <1>4, <1>6, <1>7, <1>9, <1>10 DEF Content

\* A step that makes the file durable as it is.
LEMMA SyncStep ==
    ASSUME Content, NEW w \in Workers, disk' = <<file, ended>>, file' = file, ended' = ended,
           UNCHANGED hist, Outside(w), pc'[w] \notin {"flock", "write"},
           Claims(pc'[w], call'[w]) => Sound(call'[w].now),
           Written(pc'[w], call'[w]) => Stored(call'[w].ev)
    PROVE  Content'
<1>1. /\ file \in Seq(Line) /\ order \in Seq(Stamped) /\ ended \in BOOLEAN
      /\ acked \in SUBSET Events /\ acked' = acked /\ order' = order /\ purged' = purged
  BY DEF Content, Files, hist
<1>2. disk'[1] = file /\ disk' \in Seq(Line) \X BOOLEAN
  BY <1>1
<1>3. Files' /\ Ordered'
  BY <1>1, <1>2 DEF Content, Files, Ordered
<1>4. Unwritten'
  BY <1>1 DEF Content, Unwritten, NotWritten, Outside
<1>5. \A v \in Workers : v # w => ~Claims(pc'[v], call'[v]) /\ ~Written(pc'[v], call'[v])
  BY OutsideFacts DEF Outside
<1>6. Verdicts'
  BY <1>1, <1>5 DEF Verdicts, Sound
<1>7. Records'
  BY <1>1, <1>2, <1>5 DEF Records, Stored, Secure, OnDisk
<1>8. Durable'
  BY <1>1, <1>2 DEF Content, Durable, Entries, Secure, OnDisk
<1> QED
  BY <1>3, <1>4, <1>6, <1>7, <1>8 DEF Content

\* What the scan returns: the entries that the log retains.
LEMMA ScanReturns ==
    ASSUME Files, Ordered, NEW t
    PROVE  /\ Scan(t) \in Seq(Line) /\ Listed(Scan(t), order) /\ Within(Scan(t))
           /\ \A i \in DOMAIN Scan(t) : Keeps(Scan(t)[i], t)
           /\ Len(Scan(t)) = Len(file) => Scan(t) = file
           /\ LinesOf(Scan(t)) \in SUBSET LinesOf(file)
           /\ LinesOf(Scan(t)) = {order[k] : k \in Newest(Promise!Fresh(t))}
<1> DEFINE q == Scan(t)
<1>1. order \in Seq(Stamped) /\ Once(order) /\ file \in Seq(Line) /\ Listed(file, order)
  BY DEF Files, Ordered
<1>2. Scanned(q, t, Len(file))
  BY <1>1, ScanFacts
<1> HIDE DEF q
<1>3. q \in Seq(Line) /\ Within(q) /\ \A i \in 1..Len(q) : Keeps(q[i], t)
  BY <1>2 DEF Scanned
<1>4. PICK m : Placed(q, m) /\ Places(m, Len(q)) = Newest(Unexpired(t, Len(file)))
  BY <1>2 DEF Scanned
<1>5. Listed(q, order)
  BY <1>1, <1>3, <1>4, PlacedListed
<1>6. /\ DOMAIN q = 1..Len(q) /\ DOMAIN file = 1..Len(file) /\ DOMAIN order = 1..Len(order)
  BY <1>1, <1>3
<1>7. Len(q) = Len(file) => q = file
  <2>1. Len(q) = Len(file) => \A i \in 1..Len(file) : q[i] = file[i]
    BY <1>2 DEF Scanned
  <2> QED
    BY <1>1, <1>3, <2>1, SeqEqual
<1>8. Whole(q) = 1..Len(q)
  BY <1>3, <1>6 DEF Whole, Keeps
<1>9. LinesOf(q) = {order[a] : a \in Places(m, Len(q))}
  <2>1. \A k \in 1..Len(q) : order[m[k]] = Readable(q[k])
    BY <1>4 DEF Placed
  <2>2. LinesOf(q) = {Readable(q[k]) : k \in 1..Len(q)}
    BY <1>8 DEF LinesOf
  <2> QED
    BY <2>1, <2>2 DEF Places
<1>10. Unexpired(t, Len(file)) = Promise!Fresh(t)
  <2>1. ASSUME NEW a \in 1..Len(order), NEW i \in 1..Len(file),
               Keeps(file[i], t), order[a] = Readable(file[i])
        PROVE  order[a] \in LinesOf(file) /\ order[a].at + MaxAge >= t
    <3>1. i \in Whole(file)
      BY <1>6, <2>1 DEF Whole, Keeps
    <3>2. order[a].at = file[i].at
      BY <2>1 DEF Readable
    <3> QED
      BY <2>1, <3>1, <3>2 DEF LinesOf, Keeps
  <2>2. ASSUME NEW a \in 1..Len(order), order[a] \in LinesOf(file), order[a].at + MaxAge >= t
        PROVE  \E i \in 1..Len(file) : Keeps(file[i], t) /\ order[a] = Readable(file[i])
    <3>1. PICK i \in Whole(file) : order[a] = Readable(file[i])
      BY <2>2 DEF LinesOf
    <3>2. i \in 1..Len(file) /\ file[i].whole /\ order[a].at = file[i].at
      BY <1>6, <3>1 DEF Whole, Readable
    <3> QED
      BY <2>2, <3>1, <3>2 DEF Keeps
  <2> QED
    BY <1>6, <2>1, <2>2 DEF Unexpired, Promise!Fresh
<1>11. LinesOf(q) = {order[k] : k \in Newest(Promise!Fresh(t))}
  BY <1>4, <1>9, <1>10
<1>12. \A k \in Newest(Promise!Fresh(t)) : order[k] \in LinesOf(file)
  BY DEF Newest, Promise!Fresh
<1>13. LinesOf(q) \in SUBSET LinesOf(file)
  BY <1>11, <1>12
<1> QED
  BY <1>3, <1>5, <1>6, <1>7, <1>11, <1>13 DEF q

\* The step that replaces the file by what the scan kept.
LEMMA ReplaceStep ==
    ASSUME Content, NEW w \in Workers, NEW t, file' = Scan(t), ended' = TRUE, disk' = disk,
           acked' = acked, order' = order, purged' = purged \cup (LinesOf(file) \ LinesOf(file')),
           Outside(w), pc'[w] \notin {"flock", "write", "sync"}, call'[w].now = t,
           Written(pc'[w], call'[w]) => Stored(call'[w].ev) /\ Secure(call'[w].ev)
    PROVE  Content'
<1>1. /\ Scan(t) \in Seq(Line) /\ Listed(Scan(t), order) /\ Within(Scan(t))
      /\ \A i \in DOMAIN Scan(t) : Keeps(Scan(t)[i], t)
      /\ LinesOf(Scan(t)) \in SUBSET LinesOf(file)
  BY ScanReturns DEF Content
<1>2. LinesOf(file') \in SUBSET LinesOf(file) /\ LinesOf(file) \in SUBSET Entries
  BY <1>1, ListedEntries DEF Content, Ordered
<1>3. /\ purged' = purged \cup (LinesOf(file) \ LinesOf(file'))
      /\ LinesOf(file) \cup purged = LinesOf(file') \cup purged'
      /\ disk' = disk /\ order' = order /\ acked' = acked
  BY <1>2
<1>4. Files' /\ Ordered'
  BY <1>1, <1>3 DEF Content, Files, Ordered
<1>5. Unwritten'
  BY <1>3 DEF Content, Unwritten, NotWritten, Outside
<1>6. \A v \in Workers : v # w => ~Claims(pc'[v], call'[v]) /\ ~Written(pc'[v], call'[v])
  BY OutsideFacts DEF Outside
<1>7. Sound(t)'
  BY <1>1 DEF Sound
<1>8. Verdicts'
  BY <1>6, <1>7 DEF Verdicts, Sound
<1>9. \A e : Secure(e) => \A k \in LinesOf(file') : k.id = e => k \in LinesOf(disk'[1]) \cup purged'
  BY <1>2, <1>3 DEF Secure, OnDisk
<1>10. Records'
  <2>1. \A e : Stored(e) => \E k \in LinesOf(file') \cup purged' : k.id = e
    BY <1>3 DEF Stored
  <2> QED
    BY <1>6, <1>9, <2>1 DEF Records, Stored, Secure, OnDisk
<1>11. Durable'
  <2>1. purged' \in SUBSET Entries'
    BY <1>2, <1>3 DEF Content, Durable, Entries
  <2>2. LinesOf(disk'[1]) \in SUBSET (LinesOf(file') \cup purged')
    BY <1>3 DEF Content, Durable
  <2>3. \A e \in acked : (\E a \in DOMAIN order : order[a].id = e) /\ Secure(e)
    BY DEF Content, Durable
  <2> QED
    BY <1>3, <1>9, <2>1, <2>2, <2>3 DEF Durable, Secure, OnDisk
<1> QED
  BY <1>4, <1>5, <1>8, <1>10, <1>11 DEF Content

\* A power loss: nobody is left.
LEMMA LossStep ==
    ASSUME Content, disk' \in {disk, <<file, ended>>}, file' = disk'[1], ended' = disk'[2],
           UNCHANGED hist, \A v \in Workers : pc'[v] = "idle"
    PROVE  Content'
<1>1. /\ file \in Seq(Line) /\ order \in Seq(Stamped) /\ ended \in BOOLEAN
      /\ disk \in Seq(Line) \X BOOLEAN
      /\ acked \in SUBSET Events /\ acked' = acked /\ order' = order /\ purged' = purged
  BY DEF Content, Files, hist
<1>2. disk' \in Seq(Line) \X BOOLEAN /\ disk'[1] \in {disk[1], file}
  BY <1>1
<1>3. file' \in Seq(Line) /\ ended' \in BOOLEAN
  BY <1>2
<1>4. Files' /\ Ordered'
  BY <1>1, <1>2, <1>3 DEF Content, Files, Ordered
<1>5. Unwritten' /\ Verdicts' /\ Records'
  BY DEF Unwritten, Verdicts, Records, Claims, Written
<1>6. Durable'
  <2>1. LinesOf(file') = LinesOf(disk'[1])
    OBVIOUS
  <2> QED
    BY <1>1, <2>1 DEF Content, Durable, Entries, Secure, OnDisk
<1> QED
  BY <1>4, <1>5, <1>6 DEF Content

-----------------------------------------------------------------------------
(* The steps *)

\* A step of the store is a step of the log, or none.
Refines == [Promise!DNext]_(Promise!dvars)

LEMMA Unseen ==
    ASSUME LinesOf(file') = LinesOf(file), UNCHANGED hist
    PROVE  Refines
  BY DEF Refines, hist, Promise!dvars

\* While a worker holds the lock the others are outside.
LEMMA OthersOutside ==
    ASSUME Control', NEW w \in Workers, flock' = w,
           \A v \in Workers : v # w => pc'[v] = pc[v] /\ call'[v] = call[v]
    PROVE  Outside(w)
  BY DEF Control, Located, Outside

\* What the invariant says of one worker.
LEMMA WorkerFacts ==
    ASSUME IInv, NEW w \in Workers
    PROVE  /\ Control /\ Content /\ CallOK(pc[w], call[w]) /\ call[w] \in Calls
           /\ pc[w] \in {"flock", "write"} => NotWritten(call[w].ev)
           /\ Claims(pc[w], call[w]) => Sound(call[w].now)
           /\ Written(pc[w], call[w]) =>
                  Stored(call[w].ev) /\ (pc[w] # "sync" => Secure(call[w].ev))
  BY DEF IInv, Control, Content, Unwritten, Verdicts, Records

\* The record that a worker writes.
LEMMA RecordFacts ==
    ASSUME IInv, NEW w \in Workers, pc[w] = "write"
    PROVE  /\ call[w].ev \in Events /\ call[w].now \in Times /\ call[w].now \in Nat
           /\ Record(w) \in Line /\ Record(w).whole
           /\ Record(w) = [id |-> call[w].ev, at |-> call[w].now, whole |-> TRUE]
           /\ Readable(Record(w)) = [id |-> call[w].ev, at |-> call[w].now]
           /\ NotWritten(call[w].ev)
           /\ \A v \in Workers : v # w => call[v].ev # call[w].ev
<1>1. CallOK(pc[w], call[w]) /\ NotWritten(call[w].ev)
  BY WorkerFacts
<1>2. call[w].ev \in Events /\ call[w].now \in Times
  BY <1>1 DEF CallOK
<1>3. call[w].now \in Nat
  BY <1>2, PolicyAssumption
<1>4. Record(w) = [id |-> call[w].ev, at |-> call[w].now, whole |-> TRUE]
  BY DEF Record
<1>5. Record(w) \in Line /\ Record(w).whole
  BY <1>2, <1>3, <1>4 DEF Line
<1>6. Readable(Record(w)) = [id |-> call[w].ev, at |-> call[w].now]
  BY <1>4 DEF Readable
<1>7. \A v \in Workers : v # w => call[v].ev # call[w].ev
  BY <1>2, NamesAssumption DEF IInv, Control, Distinct
<1> QED
  BY <1>1, <1>2, <1>3, <1>4, <1>5, <1>6, <1>7

\* A record that was written is an insertion.
LEMMA InsertRefines ==
    ASSUME IInv, NEW w \in Workers, pc[w] = "write",
           order' = Append(order, Readable(Record(w))), acked' = acked, purged' = purged,
           LinesOf(file') = LinesOf(file) \cup {Readable(Record(w))}
    PROVE  Refines
<1> DEFINE e == call[w].ev
           t == call[w].now
           r == [id |-> e, at |-> t]
<1>1. e \in Events /\ t \in Times /\ Readable(Record(w)) = r /\ NotWritten(e)
  BY RecordFacts
<1> HIDE DEF e, t
<1>2. r.id = e
  OBVIOUS
<1>3. Promise!Insert(r)
  BY <1>1, <1>2 DEF Promise!Insert, NotWritten
<1>4. Promise!DNext
  BY <1>1, <1>3 DEF Promise!DNext
<1> QED
  BY <1>4 DEF Refines

LEMMA WriteStep ==
    ASSUME IInv, NEW w \in Workers, Write(w) \/ WriteTorn(w, TRUE)
    PROVE  IInv' /\ Refines
<1>1. Control /\ Content /\ pc[w] = "write" /\ ended \in BOOLEAN
  BY DEF IInv, Write, WriteTorn, Content, Files
<1>2. /\ file' = Append(file, Record(w)) /\ order' = Append(order, Readable(Record(w)))
      /\ ended' \in BOOLEAN /\ disk' = disk /\ acked' = acked /\ purged' = purged
  BY <1>1 DEF Write, WriteTorn, WriteLine
<1>3. call[w] \in Calls /\ CallOK(pc[w], call[w]) /\ "write" \in InStore
  BY WorkerFacts DEF InStore
<1>4. /\ Control' /\ flock' = w
      /\ \A v \in Workers : v # w => pc'[v] = pc[v] /\ call'[v] = call[v]
      /\ pc'[w] \notin {"flock", "write"} /\ ~Claims(pc'[w], call'[w])
      /\ Written(pc'[w], call'[w]) => pc'[w] = "sync" /\ call'[w].ev = call[w].ev
  <2>1. CASE Write(w)
    <3>1. /\ Goto(w, "sync") /\ call' = call /\ flock' = flock /\ "sync" \in InStore
      BY <2>1 DEF Write, InStore
    <3>2. call[w].op = "append"
      BY <1>1, <1>3 DEF CallOK
    <3>3. /\ Control' /\ pc'[w] = "sync" /\ call'[w] = call[w] /\ flock' = w
          /\ \A v \in Workers : v # w => pc'[v] = pc[v] /\ call'[v] = call[v]
      BY <1>1, <1>3, <3>1, <3>2, GoesOn
    <3> QED
      BY <3>3 DEF Claims
  <2>2. CASE WriteTorn(w, TRUE)
    <3>1. /\ Goto(w, "unlock") /\ call' = [call EXCEPT ![w].verdict = "raise"] /\ flock' = flock
      BY <2>2 DEF WriteTorn
    <3>2. /\ Control' /\ pc'[w] = "unlock" /\ call'[w] = WithVerdict(w, "raise") /\ flock' = w
          /\ \A v \in Workers : v # w => pc'[v] = pc[v] /\ call'[v] = call[v]
      BY <1>1, <1>3, <3>1, ReportsOn
    <3>3. call'[w].verdict = "raise"
      BY <1>3, <3>2, VerdictFields
    <3> QED
      BY <3>2, <3>3 DEF Claims, Written
  <2> QED
    BY <2>1, <2>2
<1>5. Outside(w)
  BY <1>4, OthersOutside
<1>6. /\ call[w].ev \in Events /\ call[w].now \in Nat /\ Record(w) \in Line
      /\ Record(w) = [id |-> call[w].ev, at |-> call[w].now, whole |-> TRUE]
      /\ NotWritten(call[w].ev) /\ \A v \in Workers : v # w => call[v].ev # call[w].ev
  BY <1>1, RecordFacts
<1>7. Content' /\ LinesOf(file') = LinesOf(file) \cup {Readable(Record(w))}
  BY <1>1, <1>2, <1>4, <1>5, <1>6, InsertStep
<1>8. Refines
  BY <1>1, <1>2, <1>7, InsertRefines
<1> QED
  BY <1>4, <1>7, <1>8 DEF IInv

LEMMA TornStep ==
    ASSUME IInv, NEW w \in Workers, WriteTorn(w, FALSE) \/ WriteNothing(w)
    PROVE  IInv' /\ Refines
<1>1. Control /\ Content /\ pc[w] = "write" /\ ended \in BOOLEAN
  BY DEF IInv, WriteTorn, WriteNothing, Content, Files
<1>2. /\ file' = file \/ file' = Append(file, Torn)
      /\ ended' \in BOOLEAN /\ disk' = disk /\ UNCHANGED hist
  BY <1>1 DEF WriteTorn, WriteNothing, WriteLine, hist
<1>3. /\ Goto(w, "unlock") /\ call' = [call EXCEPT ![w].verdict = "raise"] /\ flock' = flock
      /\ "write" \in InStore /\ call[w] \in Calls
  BY WorkerFacts DEF WriteTorn, WriteNothing, InStore
<1>4. /\ Control' /\ pc'[w] = "unlock" /\ call'[w] = WithVerdict(w, "raise") /\ flock' = w
      /\ \A v \in Workers : v # w => pc'[v] = pc[v] /\ call'[v] = call[v]
  BY <1>1, <1>3, ReportsOn
<1>5. call'[w].verdict = "raise"
  BY <1>3, <1>4, VerdictFields
<1>6. pc'[w] \notin {"flock", "write"} /\ ~Claims(pc'[w], call'[w]) /\ ~Written(pc'[w], call'[w])
  BY <1>4, <1>5 DEF Claims, Written
<1>7. Outside(w)
  BY <1>4, OthersOutside
<1>8. Content' /\ LinesOf(file') = LinesOf(file)
  BY <1>1, <1>2, <1>6, <1>7, TearStep
<1> QED
  BY <1>2, <1>4, <1>8, Unseen DEF IInv

LEMMA SyncedStep ==
    ASSUME IInv, NEW w \in Workers, Sync(w) \/ DirSync(w)
    PROVE  IInv' /\ Refines
<1>1. Control /\ Content /\ CallOK(pc[w], call[w]) /\ call[w] \in Calls
      /\ (Claims(pc[w], call[w]) => Sound(call[w].now))
      /\ (Written(pc[w], call[w]) => Stored(call[w].ev))
  BY WorkerFacts
<1>2. disk' = <<file, ended>> /\ file' = file /\ ended' = ended /\ UNCHANGED hist
  BY DEF Sync, DirSync, hist
<1>3. /\ Control' /\ flock' = w /\ pc'[w] \notin {"flock", "write"}
      /\ \A v \in Workers : v # w => pc'[v] = pc[v] /\ call'[v] = call[v]
      /\ Claims(pc'[w], call'[w]) => Claims(pc[w], call[w])
      /\ Written(pc'[w], call'[w]) => Written(pc[w], call[w])
      /\ call'[w] = call[w]
  <2>1. CASE Sync(w)
    <3>1. /\ Goto(w, "scan") /\ call' = call /\ flock' = flock /\ pc[w] = "sync"
          /\ "scan" \in InStore /\ "sync" \in InStore
      BY <2>1 DEF Sync, InStore
    <3>2. /\ Control' /\ pc'[w] = "scan" /\ call'[w] = call[w] /\ flock' = w
          /\ \A v \in Workers : v # w => pc'[v] = pc[v] /\ call'[v] = call[v]
      BY <1>1, <3>1, GoesOn
    <3> QED
      BY <3>1, <3>2 DEF Claims, Written
  <2>2. CASE DirSync(w)
    <3>1. /\ Goto(w, "unlock") /\ call' = call /\ flock' = flock /\ pc[w] = "dirsync"
          /\ "unlock" \in InStore /\ "dirsync" \in InStore
      BY <2>2 DEF DirSync, InStore
    <3>2. /\ Control' /\ pc'[w] = "unlock" /\ call'[w] = call[w] /\ flock' = w
          /\ \A v \in Workers : v # w => pc'[v] = pc[v] /\ call'[v] = call[v]
      BY <1>1, <3>1, GoesOn
    <3> QED
      BY <3>1, <3>2 DEF Claims, Written
  <2> QED
    BY <2>1, <2>2
<1>4. Outside(w)
  BY <1>3, OthersOutside
<1>5. /\ Claims(pc'[w], call'[w]) => Sound(call'[w].now)
      /\ Written(pc'[w], call'[w]) => Stored(call'[w].ev)
  BY <1>1, <1>3
<1>6. Content'
  BY <1>1, <1>2, <1>3, <1>4, <1>5, SyncStep
<1> QED
  BY <1>2, <1>3, <1>6, Unseen DEF IInv

\* The steps that only settle what the call will report.
LEMMA ReportStep ==
    ASSUME IInv, NEW w \in Workers, SyncFails(w) \/ Keep(w) \/ ReplaceFails(w) \/ ScanFails(w)
    PROVE  IInv' /\ Refines
<1>1. Control /\ Content /\ CallOK(pc[w], call[w]) /\ call[w] \in Calls
      /\ (Written(pc[w], call[w]) => Stored(call[w].ev) /\ (pc[w] # "sync" => Secure(call[w].ev)))
  BY WorkerFacts
<1>2. /\ Goto(w, "unlock") /\ flock' = flock /\ UNCHANGED <<store, hist>> /\ pc[w] \in InStore
      /\ \E v \in {"none", "ok", "unsatisfied", "raise"} :
             /\ call' = [call EXCEPT ![w].verdict = v]
             /\ v = "ok" => Keep(w)
             /\ pc[w] = "scan" \/ v = "raise"
  <2>1. CASE SyncFails(w)
    BY <2>1 DEF SyncFails, InStore
  <2>2. CASE Keep(w)
    BY <2>2 DEF Keep, InStore
  <2>3. CASE ReplaceFails(w)
    BY <2>3 DEF ReplaceFails, InStore
  <2>4. CASE ScanFails(w)
    BY <2>4 DEF ScanFails, InStore
  <2> QED
    BY <2>1, <2>2, <2>3, <2>4
<1>3. PICK v \in {"none", "ok", "unsatisfied", "raise"} :
          /\ call' = [call EXCEPT ![w].verdict = v]
          /\ v = "ok" => Keep(w)
          /\ pc[w] = "scan" \/ v = "raise"
  BY <1>2
<1>4. /\ Control' /\ pc'[w] = "unlock" /\ call'[w] = WithVerdict(w, v) /\ flock' = w
      /\ \A u \in Workers : u # w => pc'[u] = pc[u] /\ call'[u] = call[u]
  BY <1>1, <1>2, <1>3, ReportsOn
<1>5. /\ call'[w].op = call[w].op /\ call'[w].ev = call[w].ev
      /\ call'[w].now = call[w].now /\ call'[w].verdict = v
  BY <1>1, <1>4, VerdictFields
<1>6. Claims(pc'[w], call'[w]) => Sound(call'[w].now)
  <2> SUFFICES ASSUME Claims(pc'[w], call'[w])
               PROVE  Sound(call'[w].now)
    OBVIOUS
  <2>1. Keep(w) /\ call[w].op # "read"
    BY <1>3, <1>5 DEF Claims
  <2>2. ended /\ Len(Scan(call[w].now)) = Len(file)
    BY <2>1 DEF Keep, CompactionNeeded
  <2>3. /\ Scan(call[w].now) = file /\ Within(Scan(call[w].now))
        /\ \A i \in DOMAIN Scan(call[w].now) : Keeps(Scan(call[w].now)[i], call[w].now)
    BY <1>1, <2>2, ScanReturns DEF Content
  <2> QED
    BY <1>5, <2>2, <2>3 DEF Sound
<1>7. Written(pc'[w], call'[w]) =>
          Stored(call'[w].ev) /\ (pc'[w] # "sync" => Secure(call'[w].ev))
  <2> SUFFICES ASSUME Written(pc'[w], call'[w])
               PROVE  Stored(call'[w].ev) /\ Secure(call'[w].ev)
    OBVIOUS
  <2>1. pc[w] = "scan" /\ call[w].op = "append"
    BY <1>3, <1>4, <1>5 DEF Written
  <2> QED
    BY <1>1, <1>5, <2>1 DEF Written
<1>8. pc'[w] \notin {"flock", "write"}
  BY <1>4
<1>9. Content'
  BY <1>1, <1>2, <1>4, <1>6, <1>7, <1>8, QuietStep
<1>10. LinesOf(file') = LinesOf(file) /\ UNCHANGED hist
  BY <1>2 DEF store
<1> QED
  BY <1>4, <1>9, <1>10, Unseen DEF IInv

\* Retention.
LEMMA ReplacedStep ==
    ASSUME IInv, NEW w \in Workers, Replace(w)
    PROVE  IInv' /\ Refines
<1> DEFINE t == call[w].now
<1>1. Control /\ Content /\ CallOK(pc[w], call[w]) /\ call[w] \in Calls
      /\ (Written(pc[w], call[w]) => Stored(call[w].ev) /\ (pc[w] # "sync" => Secure(call[w].ev)))
  BY WorkerFacts
<1>2. /\ pc[w] = "scan" /\ call[w].op # "read" /\ file' = Scan(t) /\ ended' = TRUE
      /\ disk' = disk /\ acked' = acked /\ order' = order /\ flock' = flock
      /\ purged' = purged \cup (LinesOf(file) \ LinesOf(file'))
      /\ Goto(w, "dirsync") /\ call' = [call EXCEPT ![w].verdict = "ok"] /\ pc[w] \in InStore
  BY DEF Replace, InStore
<1>3. /\ Control' /\ pc'[w] = "dirsync" /\ call'[w] = WithVerdict(w, "ok") /\ flock' = w
      /\ \A u \in Workers : u # w => pc'[u] = pc[u] /\ call'[u] = call[u]
  BY <1>1, <1>2, ReportsOn
<1>4. call'[w].op = call[w].op /\ call'[w].ev = call[w].ev /\ call'[w].now = t
  BY <1>1, <1>3, VerdictFields
<1>5. t \in Times
  BY <1>1, <1>2 DEF CallOK
<1> HIDE DEF t
<1>6. Outside(w)
  BY <1>3, OthersOutside
<1>7. Written(pc'[w], call'[w]) => Stored(call'[w].ev) /\ Secure(call'[w].ev)
  BY <1>1, <1>2, <1>4 DEF Written
<1>8. pc'[w] \notin {"flock", "write", "sync"}
  BY <1>3
<1>9. Content'
  BY <1>1, <1>2, <1>4, <1>6, <1>7, <1>8, ReplaceStep
<1>10. LinesOf(file') = {order[k] : k \in Newest(Promise!Fresh(t))}
  BY <1>1, <1>2, ScanReturns DEF Content
<1>11. Newest(Promise!Fresh(t))
           = {j \in Promise!Fresh(t) : Promise!Fits(Promise!From(Promise!Fresh(t), j))}
  BY DEF Newest
<1>12. Promise!Retain(t)
  BY <1>2, <1>10, <1>11 DEF Promise!Retain
<1>13. Refines
  BY <1>5, <1>12 DEF Refines, Promise!DNext
<1> QED
  BY <1>3, <1>9, <1>13 DEF IInv

\* The call returns; the log acknowledges what was appended.
LEMMA UnlockStep ==
    ASSUME IInv, NEW w \in Workers, Unlock(w)
    PROVE  IInv' /\ Refines
<1> DEFINE e == call[w].ev
<1>1. Control /\ Content /\ CallOK(pc[w], call[w]) /\ call[w] \in Calls
      /\ (Written(pc[w], call[w]) => Stored(e) /\ (pc[w] # "sync" => Secure(e)))
  BY WorkerFacts
<1>2. /\ pc[w] = "unlock" /\ flock' = NoWorker /\ UNCHANGED <<store, order, purged>> /\ End(w)
      /\ acked' = IF Written(pc[w], call[w]) THEN acked \cup {e} ELSE acked
  BY DEF Unlock, Written
<1>3. flock = w /\ NoWorker \notin Workers /\ CallOK(pc[w], call[w])
  BY <1>1, <1>2, NamesAssumption DEF Control, Located, InStore
<1>4. /\ Control' /\ pc'[w] = "idle" /\ call'[w] = NoCall
      /\ \A v \in Workers : v # w => pc'[v] = pc[v] /\ call'[v] = call[v]
  BY <1>1, <1>2, <1>3, EndsIdle
<1>5. Written(pc[w], call[w]) => e \in Events /\ Stored(e) /\ Secure(e)
  BY <1>1, <1>2 DEF Written, CallOK
<1> HIDE DEF e
<1>6. /\ file' = file /\ ended' = ended /\ disk' = disk /\ order' = order /\ purged' = purged
  BY <1>2 DEF store
<1>7. Content'
  <2>1. Files' /\ Ordered'
    BY <1>1, <1>2, <1>5, <1>6 DEF Content, Files, Ordered
  <2>2. ~Claims(pc'[w], call'[w]) /\ ~Written(pc'[w], call'[w]) /\ pc'[w] \notin {"flock", "write"}
    BY <1>4 DEF Claims, Written
  <2>3. Unwritten'
    BY <1>1, <1>4, <1>6, <2>2 DEF Content, Unwritten, NotWritten
  <2>4. Verdicts'
    BY <1>1, <1>4, <1>6, <2>2 DEF Content, Verdicts, Sound
  <2>5. Records'
    BY <1>1, <1>4, <1>6, <2>2 DEF Content, Records, Stored, Secure, OnDisk
  <2>6. \A a \in acked' : (\E b \in DOMAIN order : order[b].id = a) /\ Secure(a)
    <3>1. \A a \in acked : (\E b \in DOMAIN order : order[b].id = a) /\ Secure(a)
      BY <1>1 DEF Content, Durable
    <3>2. LinesOf(file) \cup purged \in SUBSET Entries
      BY <1>1, ListedEntries DEF Content, Ordered, Durable
    <3>3. Written(pc[w], call[w]) => (\E b \in DOMAIN order : order[b].id = e) /\ Secure(e)
      BY <1>5, <3>2 DEF Stored, Entries
    <3> QED
      BY <1>2, <3>1, <3>3
  <2>7. Durable'
    BY <1>1, <1>6, <2>6 DEF Content, Durable, Entries, Secure, OnDisk
  <2> QED
    BY <2>1, <2>3, <2>4, <2>5, <2>7 DEF Content
<1>8. Refines
  <2>1. CASE Written(pc[w], call[w])
    <3>1. acked' = acked \cup {e} /\ e \in Events /\ Stored(e)
      BY <1>2, <1>5, <2>1
    <3>2. LinesOf(file') = LinesOf(file) /\ order' = order /\ purged' = purged
      BY <1>6
    <3>3. Promise!Acknowledge(e)
      BY <3>1, <3>2 DEF Promise!Acknowledge, Stored
    <3> QED
      BY <3>1, <3>3 DEF Refines, Promise!DNext
  <2>2. CASE ~Written(pc[w], call[w])
    <3>1. LinesOf(file') = LinesOf(file) /\ UNCHANGED hist
      BY <1>2, <1>6, <2>2 DEF hist
    <3> QED
      BY <3>1, Unseen
  <2> QED
    BY <2>1, <2>2
<1> QED
  BY <1>4, <1>7, <1>8 DEF IInv

\* The lock is taken, or not in time.
LEMMA LockStep ==
    ASSUME IInv, NEW w \in Workers, TakeFlock(w) \/ FlockFails(w)
    PROVE  IInv' /\ Refines
<1>1. Control /\ Content /\ CallOK(pc[w], call[w]) /\ call[w] \in Calls
      /\ (pc[w] \in {"flock", "write"} => NotWritten(call[w].ev))
  BY WorkerFacts
<1>2. pc[w] = "flock" /\ UNCHANGED <<store, hist>> /\ "flock" \notin InStore
  BY DEF TakeFlock, FlockFails, InStore
<1>3. /\ Control' /\ pc'[w] \in {"write", "scan", "idle"}
      /\ \A v \in Workers : v # w => pc'[v] = pc[v] /\ call'[v] = call[v]
      /\ pc'[w] = "write" => call'[w] = call[w]
      /\ ~Written(pc'[w], call'[w]) \/ (pc'[w] = "scan" /\ call'[w].op = "append")
      /\ pc'[w] = "scan" => call'[w].op # "append"
  <2>1. CASE TakeFlock(w)
    <3> DEFINE p == IF call[w].op = "append" THEN "write" ELSE "scan"
    <3>1. Goto(w, p) /\ call' = call /\ flock = NoWorker /\ flock' = w
      BY <2>1 DEF TakeFlock
    <3>2. p \in {"write", "scan"} /\ (p = "write" <=> call[w].op = "append")
      OBVIOUS
    <3> HIDE DEF p
    <3>3. Moves(w, p, call[w])
      BY <1>1, <3>1, Stays
    <3>4. p \in Steps /\ p \in InStore
      BY <3>2 DEF Steps, InStore
    <3>5. CallOK(p, call[w])
      BY <1>1, <1>2, <3>2 DEF CallOK
    <3>6. \A v \in Workers : v # w => (flock' = v <=> flock = v)
      BY <3>1, NamesAssumption
    <3>7. flock' \in Workers \cup {NoWorker} /\ (p \in InStore <=> flock' = w)
      BY <3>1, <3>4
    <3>8. Control'
      BY <1>1, <3>3, <3>4, <3>5, <3>6, <3>7, ControlMoves
    <3>9. /\ pc'[w] = p /\ call'[w] = call[w]
          /\ \A v \in Workers : v # w => pc'[v] = pc[v] /\ call'[v] = call[v]
      BY <1>1, <3>3, <3>4, MovesFacts
    <3> QED
      BY <3>2, <3>8, <3>9 DEF Written
  <2>2. CASE FlockFails(w)
    <3>1. End(w) /\ flock' = flock /\ flock # w /\ flock' \in Workers \cup {NoWorker}
      BY <1>1, <1>2, <2>2 DEF FlockFails, Control, Located
    <3>2. /\ Control' /\ pc'[w] = "idle" /\ call'[w] = NoCall
          /\ \A v \in Workers : v # w => pc'[v] = pc[v] /\ call'[v] = call[v]
      BY <1>1, <3>1, EndsIdle
    <3> QED
      BY <3>2 DEF Written
  <2> QED
    BY <2>1, <2>2
<1>4. ~Written(pc'[w], call'[w]) /\ ~Claims(pc'[w], call'[w])
  BY <1>3 DEF Claims
<1>5. pc'[w] \in {"flock", "write"} => NotWritten(call'[w].ev)
  BY <1>1, <1>2, <1>3
<1>6. Content'
  BY <1>1, <1>2, <1>3, <1>4, <1>5, QuietStep
<1>7. LinesOf(file') = LinesOf(file) /\ UNCHANGED hist
  BY <1>2 DEF store
<1> QED
  BY <1>3, <1>6, <1>7, Unseen DEF IInv

\* A call begins.
LEMMA CallStep ==
    ASSUME IInv, NEW w \in Workers, NEW t \in Times,
           (\E e \in Events : Call(w, "append", e, t)) \/ \E kind \in Kinds : Call(w, kind, NoEvent, t)
    PROVE  IInv' /\ Refines
<1>1. PICK kind \in Kinds \cup {"append"}, e \in Events \cup {NoEvent} :
          Call(w, kind, e, t) /\ (kind = "append" <=> e \in Events)
  <2>1. CASE \E e \in Events : Call(w, "append", e, t)
    BY <2>1
  <2>2. CASE \E kind \in Kinds : Call(w, kind, NoEvent, t)
    BY <2>2, KindsAssumption, NamesAssumption
  <2> QED
    BY <2>1, <2>2
<1> DEFINE c == [op |-> kind, ev |-> e, now |-> t, verdict |-> "none"]
<1>2. Control /\ Content
  BY DEF IInv
<1>3. /\ pc[w] = "idle" /\ Goto(w, "flock") /\ call' = [call EXCEPT ![w] = c] /\ flock' = flock
      /\ UNCHANGED <<store, hist>>
      /\ e \in Events => (\A v \in Workers : call[v].ev # e) /\ NotWritten(e)
  BY <1>1 DEF Call, NotWritten
<1>4. t \in Nat /\ kind \in {"append", "compact", "read"}
  BY KindsAssumption, PolicyAssumption
<1>5. c \in Calls /\ c.op = kind /\ c.ev = e /\ c.now = t
  BY <1>4 DEF Calls
<1> HIDE DEF c
<1>6. Moves(w, "flock", c)
  BY <1>3 DEF Moves, Goto
<1>7. "flock" \in Steps /\ "flock" \notin InStore /\ "idle" \notin InStore
  BY DEF Steps, InStore
<1>8. CallOK("flock", c)
  BY <1>1, <1>5 DEF CallOK
<1>9. flock' \in Workers \cup {NoWorker} /\ flock' # w
  BY <1>2, <1>3, <1>7 DEF Control, Located
<1>10. c.ev = NoEvent \/ \A v \in Workers : call[v].ev # c.ev
  BY <1>1, <1>3, <1>5
<1>11. \A v \in Workers : v # w => (flock' = v <=> flock = v)
  BY <1>3
<1>12. Control'
  BY <1>2, <1>5, <1>6, <1>7, <1>8, <1>9, <1>10, <1>11, ControlMoves
<1>13. /\ pc'[w] = "flock" /\ call'[w] = c
       /\ \A v \in Workers : v # w => pc'[v] = pc[v] /\ call'[v] = call[v]
  BY <1>2, <1>5, <1>6, <1>7, MovesFacts
<1>14. ~Written(pc'[w], call'[w]) /\ ~Claims(pc'[w], call'[w])
  BY <1>13 DEF Claims, Written
<1>15. NotWritten(c.ev)
  <2>1. CASE e \in Events
    BY <1>3, <1>5, <2>1
  <2>2. CASE e = NoEvent
    <3>1. order \in Seq(Stamped)
      BY <1>2 DEF Content, Files
    <3> QED
      BY <1>5, <2>2, <3>1, EntriesTyped, NamesAssumption DEF NotWritten
  <2> QED
    BY <2>1, <2>2
<1>16. Content'
  BY <1>2, <1>3, <1>13, <1>14, <1>15, QuietStep
<1>17. LinesOf(file') = LinesOf(file) /\ UNCHANGED hist
  BY <1>3 DEF store
<1> QED
  BY <1>12, <1>16, <1>17, Unseen DEF IInv

\* Processes die; the operating system drops their lock.
LEMMA KillFacts ==
    ASSUME Control, NEW ws \in SUBSET Workers, Kill(ws)
    PROVE  /\ Control'
           /\ \A v \in ws : pc'[v] = "idle" /\ call'[v] = NoCall
           /\ \A v \in Workers : v \notin ws => pc'[v] = pc[v] /\ call'[v] = call[v]
<1>1. "idle" \in Steps /\ "idle" \notin InStore
  BY DEF Steps, InStore
<1>2. /\ pc \in [Workers -> Steps] /\ call \in [Workers -> Calls]
      /\ flock \in Workers \cup {NoWorker}
  BY DEF Control
<1>3. /\ pc' = [w \in Workers |-> IF w \in ws THEN "idle" ELSE pc[w]]
      /\ call' = [w \in Workers |-> IF w \in ws THEN NoCall ELSE call[w]]
      /\ flock' = IF flock \in ws THEN NoWorker ELSE flock
  BY DEF Kill
<1>4. pc' \in [Workers -> Steps]
  BY <1>1, <1>2, <1>3
<1>5. call' \in [Workers -> Calls]
  BY <1>2, <1>3, NoCallFields
<1>6. /\ \A v \in ws : pc'[v] = "idle" /\ call'[v] = NoCall
      /\ \A v \in Workers : v \notin ws => pc'[v] = pc[v] /\ call'[v] = call[v]
  BY <1>3
<1>7. flock' \in Workers \cup {NoWorker}
  BY <1>2, <1>3
<1>8. Located(pc', flock')
  <2>1. ASSUME NEW v \in Workers
        PROVE  pc'[v] \in InStore <=> flock' = v
    <3>1. pc[v] \in InStore <=> flock = v
      BY DEF Control, Located
    <3>2. CASE v \in ws
      BY <1>1, <1>3, <1>6, <3>2, NamesAssumption
    <3>3. CASE v \notin ws
      BY <1>3, <1>6, <3>1, <3>3, NamesAssumption
    <3> QED
      BY <3>2, <3>3
  <2> QED
    BY <2>1 DEF Located
<1>9. \A v \in Workers : CallOK(pc'[v], call'[v])
  <2>1. CallOK("idle", NoCall)
    BY DEF CallOK
  <2> QED
    BY <1>6, <2>1 DEF Control
<1>10. Distinct(call')
  BY <1>6, NoCallFields DEF Control, Distinct
<1> QED
  BY <1>4, <1>5, <1>6, <1>7, <1>8, <1>9, <1>10 DEF Control

LEMMA CrashStep ==
    ASSUME IInv, NEW w \in Workers, Crash(w)
    PROVE  IInv' /\ Refines
<1>1. Control /\ Content /\ Kill({w}) /\ UNCHANGED <<store, hist>>
  BY DEF IInv, Crash, Kill
<1>2. /\ Control' /\ pc'[w] = "idle" /\ call'[w] = NoCall
      /\ \A v \in Workers : v # w => pc'[v] = pc[v] /\ call'[v] = call[v]
  <2>1. {w} \in SUBSET Workers
    OBVIOUS
  <2> QED
    BY <1>1, <2>1, KillFacts
<1>3. ~Claims(pc'[w], call'[w]) /\ ~Written(pc'[w], call'[w]) /\ pc'[w] \notin {"flock", "write"}
  BY <1>2 DEF Claims, Written
<1>4. Content'
  BY <1>1, <1>2, <1>3, QuietStep
<1>5. LinesOf(file') = LinesOf(file) /\ UNCHANGED hist
  BY <1>1 DEF store
<1> QED
  BY <1>2, <1>4, <1>5, Unseen DEF IInv

\* The log loses at most what was neither acknowledged nor synced.
LEMMA PowerStep ==
    ASSUME IInv, PowerLoss
    PROVE  IInv' /\ Refines
<1>1. /\ Control /\ Content /\ Kill(Workers) /\ UNCHANGED hist
      /\ disk' \in {disk, <<file, ended>>} /\ file' = disk'[1] /\ ended' = disk'[2]
  BY DEF IInv, PowerLoss, Kill
<1>2. Control' /\ \A v \in Workers : pc'[v] = "idle"
  <2>1. Workers \in SUBSET Workers
    OBVIOUS
  <2> QED
    BY <1>1, <2>1, KillFacts
<1>3. Content'
  BY <1>1, <1>2, LossStep
<1>4. file' \in {disk[1], file} /\ order' = order /\ acked' = acked /\ purged' = purged
  BY <1>1 DEF hist
<1>5. LinesOf(file') \in SUBSET (LinesOf(file) \cup purged)
  BY <1>1, <1>4 DEF Content, Durable
<1>6. \A l \in LinesOf(file) : l.id \in acked /\ l \notin purged => l \in LinesOf(file')
  BY <1>1, <1>4 DEF Content, Durable, Secure, OnDisk
<1>7. Promise!PowerCut
  BY <1>4, <1>5, <1>6 DEF Promise!PowerCut
<1> QED
  BY <1>2, <1>3, <1>7 DEF IInv, Refines, Promise!DNext

\* A step of a worker that has begun.
LEMMA WorkerStep ==
    ASSUME IInv, NEW w \in Workers, Step(w)
    PROVE  IInv' /\ Refines
<1>1. CASE TakeFlock(w) \/ FlockFails(w)
  BY <1>1, LockStep
<1>2. CASE Write(w) \/ WriteTorn(w, TRUE)
  BY <1>2, WriteStep
<1>3. CASE WriteTorn(w, FALSE) \/ WriteNothing(w)
  BY <1>3, TornStep
<1>4. CASE Sync(w) \/ DirSync(w)
  BY <1>4, SyncedStep
<1>5. CASE SyncFails(w) \/ Keep(w) \/ ReplaceFails(w) \/ ScanFails(w)
  BY <1>5, ReportStep
<1>6. CASE Replace(w)
  BY <1>6, ReplacedStep
<1>7. CASE Unlock(w)
  BY <1>7, UnlockStep
<1>8. \A whole \in BOOLEAN : WriteTorn(w, whole) => WriteTorn(w, TRUE) \/ WriteTorn(w, FALSE)
  <2>1. ASSUME NEW whole \in BOOLEAN, WriteTorn(w, whole)
        PROVE  WriteTorn(w, TRUE) \/ WriteTorn(w, FALSE)
    <3>1. whole = TRUE \/ whole = FALSE
      OBVIOUS
    <3> QED
      BY <2>1, <3>1
  <2> QED
    BY <2>1
<1> QED
  BY <1>1, <1>2, <1>3, <1>4, <1>5, <1>6, <1>7, <1>8 DEF Step

LEMMA StoreStep ==
    ASSUME IInv, [Next]_vars
    PROVE  IInv' /\ Refines
<1>1. CASE \E w \in Workers, t \in Times :
               (\E e \in Events : Call(w, "append", e, t))
               \/ \E kind \in Kinds : Call(w, kind, NoEvent, t)
  <2>1. PICK w \in Workers, t \in Times :
               (\E e \in Events : Call(w, "append", e, t))
               \/ \E kind \in Kinds : Call(w, kind, NoEvent, t)
    BY <1>1
  <2> QED
    BY <2>1, CallStep
<1>2. CASE \E w \in Workers : Step(w)
  BY <1>2, WorkerStep
<1>3. CASE \E w \in Workers : Crash(w)
  BY <1>3, CrashStep
<1>4. CASE PowerLoss
  BY <1>4, PowerStep
<1>5. CASE UNCHANGED vars
  <2>1. /\ pc' = pc /\ call' = call /\ flock' = flock /\ file' = file /\ ended' = ended
        /\ disk' = disk /\ acked' = acked /\ order' = order /\ purged' = purged
    BY <1>5 DEF vars, ctl, store, hist
  <2>2. Control'
    BY <2>1 DEF IInv, Control
  <2>3. Files' /\ Ordered' /\ Unwritten' /\ Verdicts'
    BY <2>1 DEF IInv, Content, Files, Ordered, Unwritten, NotWritten, Verdicts, Sound
  <2>4. Records' /\ Durable'
    BY <2>1 DEF IInv, Content, Records, Durable, Entries, Stored, Secure, OnDisk
  <2>5. LinesOf(file') = LinesOf(file) /\ UNCHANGED hist
    BY <2>1 DEF hist
  <2> QED
    BY <2>2, <2>3, <2>4, <2>5, Unseen DEF IInv, Content
<1> QED
  BY <1>1, <1>2, <1>3, <1>4, <1>5 DEF Next

LEMMA StoreInductive == Spec => []IInv
  BY StoreInit, StoreStep, PTL DEF Spec

-----------------------------------------------------------------------------
(* Theorems *)

\* The type invariant and the order: one process at a time is in the store, no event is
\* written twice, and the lines of the file are in the order of writing, whatever was
\* torn, compacted or lost (append(), _needs_separator(), _scan(), _atomic_replace()).
THEOREM InOrderTheorem == Spec => []InOrder
<1>1. IInv => InOrder
  <2> SUFFICES ASSUME IInv
               PROVE  InOrder
    OBVIOUS
  <2>1. /\ pc \in [Workers -> {"idle", "flock"} \cup InStore]
        /\ call \in [Workers -> [op : {"none", "append", "compact", "read"},
                                 ev : Events \cup {NoEvent}, now : Nat,
                                 verdict : {"none", "ok", "unsatisfied", "raise"}]]
        /\ flock \in Workers \cup {NoWorker}
        /\ \A w \in Workers : pc[w] \in InStore <=> flock = w
    BY DEF IInv, Control, Located, Steps, Calls
  <2>2. TypeOK
    BY <2>1 DEF TypeOK, IInv, Content, Files, Stamped
  <2> QED
    BY <2>2 DEF InOrder, IInv, Content, Ordered, Once
<1> QED
  BY StoreInductive, <1>1, PTL

\* retention_satisfied is true of the file as it is when the lock is given up
\* (append(), compact(), _scan()).
THEOREM VerdictTheorem == Spec => []VerdictHolds
<1>1. IInv => VerdictHolds
  BY DEF IInv, Content, Verdicts, Claims, Sound, VerdictHolds
<1> QED
  BY StoreInductive, <1>1, PTL

\* The store implements the durable log: an acknowledged event is lost to retention
\* only, and retention keeps the longest newest suffix that fits the bounds
\* (append(), compact(), _scan(), os.fsync() and os.replace()).
THEOREM ImplementsLogTheorem == Spec => ImplementsLog
<1>1. Init => Promise!DInit
  <2>1. Init => Whole(file) = {}
    BY DEF Init, Whole
  <2>2. Init => LinesOf(file) = {}
    BY <2>1 DEF LinesOf
  <2> QED
    BY <2>2 DEF Init, Promise!DInit
<1>2. IInv /\ [Next]_vars => [Promise!DNext]_(Promise!dvars)
  BY StoreStep DEF Refines
<1> QED
  BY StoreInductive, <1>1, <1>2, PTL DEF Spec, ImplementsLog, Promise!DSpec
=============================================================================
