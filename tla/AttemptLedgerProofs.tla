------------------------- MODULE AttemptLedgerProofs -------------------------
(***************************************************************************)
(* Proofs about the attempt ledger: the ledger stays well formed and has   *)
(* room for every mutation of unknown outcome, such a mutation does not    *)
(* run again unobserved, and what reconciles it was observed after it, for *)
(* every number of threads and signatures, every limit and any Sees.       *)
(***************************************************************************)
EXTENDS AttemptLedger, FiniteSetTheorems, TLAPS

-----------------------------------------------------------------------------
(* The inductive invariant *)

\* The entries that bar a retry, and those of mutations among them.
Uncertain(l) == {i \in DOMAIN l : NonRetryable(l[i])}
Owed(l) == {i \in Uncertain(l) : l[i].sig \in Writes}

\* After an entry that bars a retry its signature was not executed again: only
\* skips and denials follow.  A pure observation never bars its retry.
Tidy(l) ==
    \A i \in Uncertain(l) :
        /\ l[i].sig \notin Reads
        /\ \A j \in DOMAIN l : j > i /\ l[j].sig = l[i].sig => l[j].status \in {"skipped", "denied"}

\* A ledger whose mutations of unknown outcome are among the first n effects.
Sound(l, n) ==
    /\ l \in Seq(Entry)
    /\ Tidy(l)
    /\ \A i \in DOMAIN l : l[i].at <= n

\* Every one of the open mutations still bars its retry.
Covers(l, o) ==
    \A s \in o : \E i \in DOMAIN l :
        l[i].sig = s /\ l[i].status = "unknown_outcome" /\ ~l[i].reconciled

Job == [pc : {"idle", "lookup", "reserve", "approve", "judge", "record", "trim", "done", "save"},
        sig : Signatures \cup {"none"}, status : Status \cup {"none"}, retry : BOOLEAN,
        invoked : BOOLEAN, slot : BOOLEAN, abandoned : BOOLEAN, saw : Nat]

\* What a dispatch knows at each of its steps.
Coherent(j, n) ==
    /\ j.pc \in {"lookup", "reserve", "approve", "judge", "record"} => j.sig \in Signatures
    /\ j.pc \in {"idle", "lookup", "reserve", "save"} => ~j.slot
    /\ j.pc \in {"approve", "judge"} /\ j.sig \in Writes => j.slot
    /\ j.pc \in {"lookup", "reserve", "approve"} /\ j.sig \in Writes => n < MaxEffects
    /\ j.pc = "judge" => j.invoked
    /\ j.pc \in {"lookup", "reserve", "approve"} => ~j.invoked
    /\ j.pc \in {"judge", "record"} /\ j.invoked => j.saw <= n /\ (~j.abandoned => j.saw = n)
    /\ j.pc = "record" =>
          /\ j.status \in Status
          /\ j.status \in {"worked", "unknown_outcome"} => j.invoked
          /\ j.status \in {"skipped", "denied"} => ~j.invoked
          /\ j.status = "unknown_outcome" => j.sig \in Writes /\ j.slot
          /\ j.status = "failed" /\ ~j.retry => j.sig \notin Reads /\ (j.sig \in Writes => j.slot)

\* The lookup has let the action of the main thread pass.
Cleared(j) ==
    \/ j.pc \in {"reserve", "approve", "judge"}
    \/ j.pc = "record" /\ j.status \notin {"skipped", "denied"}

\* The main thread may still add an entry that bars a retry.
Pending(j) == j.slot /\ j.pc \in {"approve", "judge", "record"}

JobsInv ==
    /\ effects \in 0..MaxEffects
    /\ job \in [Threads -> Job]
    /\ \A t \in Threads : Coherent(job[t], effects)
    /\ \A w \in Workers : /\ job[w].pc # "save" /\ ~job[w].slot
                          /\ job[w].pc # "idle" => job[w].sig \in Reads
    /\ Batch # {} => job[Main].pc = "idle"
    /\ slots = IF job[Main].slot THEN 1 ELSE 0

LedgerInv ==
    /\ Sound(ledger, effects)
    /\ \A i \in Uncertain(ledger) : Cleared(job[Main]) => ledger[i].sig # job[Main].sig
    /\ Cardinality(Owed(ledger)) + (IF Pending(job[Main]) THEN 1 ELSE 0) <= Limit
    /\ Len(ledger) > Limit /\ Unlocked => Uncertain(ledger) = DOMAIN ledger

SavedInv ==
    /\ Sound(saved, effects)
    /\ Len(saved) <= Limit

OpenInv ==
    /\ open \subseteq Writes
    /\ Covers(ledger, open)
    /\ job[Main].pc = "save" => Covers(saved, open)

IInv == JobsInv /\ LedgerInv /\ SavedInv /\ OpenInv

-----------------------------------------------------------------------------
(* The entries at chosen positions *)

\* A later element of a finite set of numbers has more elements up to it.
LEMMA RankGrows ==
    ASSUME NEW S \in SUBSET Nat, IsFiniteSet(S), NEW i \in S, NEW k \in S, i < k
    PROVE  Cardinality({j \in S : j <= i}) < Cardinality({j \in S : j <= k})
<1>1. {j \in S : j <= i} \in SUBSET {j \in S : j <= k}
  <2>1. \A j \in S : j <= i => j <= k
    OBVIOUS
  <2> QED
    BY <2>1
<1>2. /\ k \in {j \in S : j <= k}
      /\ k \notin {j \in S : j <= i}
  OBVIOUS
<1>3. IsFiniteSet({j \in S : j <= k})
  BY FS_Subset, {j \in S : j <= k} \in SUBSET S
<1>4. /\ Cardinality({j \in S : j <= i}) <= Cardinality({j \in S : j <= k})
      /\ Cardinality({j \in S : j <= k}) # Cardinality({j \in S : j <= i})
  BY <1>1, <1>2, <1>3, FS_Subset
<1>5. /\ Cardinality({j \in S : j <= i}) \in Nat
      /\ Cardinality({j \in S : j <= k}) \in Nat
  BY <1>1, <1>3, FS_Subset, FS_CardinalityType
<1> QED
  BY <1>4, <1>5

\* Every element has a rank, and every rank up to the size an element.
LEMMA RankOnto ==
    ASSUME NEW S \in SUBSET Nat, IsFiniteSet(S)
    PROVE  /\ Cardinality(S) \in Nat
           /\ \A i \in S : Cardinality({j \in S : j <= i}) \in 1..Cardinality(S)
           /\ \A k \in 1..Cardinality(S) : \E i \in S : Cardinality({j \in S : j <= i}) = k
<1> DEFINE rank == [i \in S |-> Cardinality({j \in S : j <= i})]
<1>1. Cardinality(S) \in Nat
  BY FS_CardinalityType
<1>2. ASSUME NEW i \in S
      PROVE  Cardinality({j \in S : j <= i}) \in 1..Cardinality(S)
  <2>1. {j \in S : j <= i} \in SUBSET S
    OBVIOUS
  <2>2. /\ IsFiniteSet({j \in S : j <= i})
        /\ Cardinality({j \in S : j <= i}) <= Cardinality(S)
        /\ Cardinality({j \in S : j <= i}) \in Nat
    BY <2>1, FS_Subset, FS_CardinalityType
  <2>3. {j \in S : j <= i} # {}
    OBVIOUS
  <2>4. Cardinality({j \in S : j <= i}) # 0
    BY <2>2, <2>3, FS_EmptySet
  <2> QED
    BY <1>1, <2>2, <2>4
<1>3. rank \in [S -> 1..Cardinality(S)]
  BY <1>2
<1>4. ASSUME NEW a \in S, NEW b \in S, rank[a] = rank[b]
      PROVE  a = b
  <2>1. CASE a < b
    BY <1>2, <1>4, <2>1, RankGrows
  <2>2. CASE b < a
    BY <1>2, <1>4, <2>2, RankGrows
  <2> QED
    BY <2>1, <2>2
<1>5. rank \in Injection(S, 1..Cardinality(S))
  <2>1. \A a, b \in S : rank[a] = rank[b] => a = b
    BY <1>4
  <2> HIDE DEF rank
  <2> QED
    BY <1>3, <2>1 DEF Injection, IsInjective
<1>6. /\ IsFiniteSet(1..Cardinality(S))
      /\ Cardinality(1..Cardinality(S)) = Cardinality(S)
  <2>1. 1 \in Int /\ Cardinality(S) \in Int
    BY <1>1
  <2>2. Cardinality(1..Cardinality(S)) = IF 1 > Cardinality(S) THEN 0 ELSE Cardinality(S) - 1 + 1
    BY <2>1, FS_Interval
  <2> QED
    BY <1>1, <2>1, <2>2, FS_Interval
<1>7. rank \in Surjection(S, 1..Cardinality(S))
  BY <1>5, <1>6, FS_Injection
<1> QED
  BY <1>1, <1>2, <1>7 DEF Surjection

\* Kept(l, S) lists the entries of l at S, each once and in their order.
LEMMA KeptEnumerates ==
    ASSUME NEW l \in Seq(Entry), NEW S \in SUBSET DOMAIN l
    PROVE  /\ IsFiniteSet(S) /\ Cardinality(S) \in Nat
           /\ \E g \in [1..Cardinality(S) -> S] :
                 /\ Kept(l, S) = [k \in 1..Cardinality(S) |-> l[g[k]]]
                 /\ \A a, b \in 1..Cardinality(S) : a < b => g[a] < g[b]
                 /\ \A i \in S : \E k \in 1..Cardinality(S) : g[k] = i
<1>1. S \in SUBSET Nat /\ IsFiniteSet(S)
  <2>1. DOMAIN l = 1..Len(l) /\ Len(l) \in Nat
    OBVIOUS
  <2>2. IsFiniteSet(1..Len(l))
    BY <2>1, FS_Interval, 1 \in Int, Len(l) \in Int
  <2>3. IsFiniteSet(S)
    BY <2>1, <2>2, FS_Subset
  <2> QED
    BY <2>1, <2>3
<1> DEFINE n == Cardinality(S)
           rank(i) == Cardinality({j \in S : j <= i})
           g == [k \in 1..n |-> CHOOSE i \in S : rank(i) = k]
<1>2. /\ n \in Nat
      /\ \A i \in S : rank(i) \in 1..n
      /\ \A k \in 1..n : \E i \in S : rank(i) = k
  BY <1>1, RankOnto
<1>3. \A i, k \in S : i < k => rank(i) < rank(k)
  BY <1>1, RankGrows
<1>4. Kept(l, S) = [k \in 1..n |-> l[g[k]]]
  BY DEF Kept
<1> HIDE DEF n, rank
<1>5. \A k \in 1..n : g[k] \in S /\ rank(g[k]) = k
  BY <1>2
<1>6. g \in [1..n -> S]
  BY <1>5
<1> HIDE DEF g
<1>7. ASSUME NEW a \in 1..n, NEW b \in 1..n, a < b
      PROVE  g[a] < g[b]
  <2>1. g[a] \in Nat /\ g[b] \in Nat /\ g[a] \in S /\ g[b] \in S /\ rank(g[a]) = a /\ rank(g[b]) = b
    BY <1>1, <1>5
  <2>2. g[a] # g[b]
    BY <1>2, <1>7, <2>1
  <2>3. ~(g[b] < g[a])
    BY <1>2, <1>3, <1>7, <2>1
  <2> QED
    BY <2>1, <2>2, <2>3
<1>8. ASSUME NEW i \in S
      PROVE  \E k \in 1..n : g[k] = i
  <2>1. rank(i) \in 1..n /\ g[rank(i)] \in S /\ rank(g[rank(i)]) = rank(i)
    BY <1>2, <1>5
  <2>2. g[rank(i)] \in Nat /\ i \in Nat
    BY <1>1, <2>1
  <2>3. ~(g[rank(i)] < i) /\ ~(i < g[rank(i)])
    BY <1>2, <1>3, <2>1
  <2> QED
    BY <2>1, <2>2, <2>3
<1> QED
  BY <1>1, <1>2, <1>4, <1>6, <1>7, <1>8 DEF n

-----------------------------------------------------------------------------
(* The operations of the ledger *)

\* Nothing bars a retry in m that did not in l, and m is a sound ledger too.
Thinned(l, m, n) ==
    /\ Sound(m, n)
    /\ Cardinality(Owed(m)) <= Cardinality(Owed(l))
    /\ \A k \in Uncertain(m) : \E i \in Uncertain(l) : m[k].sig = l[i].sig

\* In a tidy ledger the barriers are the entries that bar a retry.
LEMMA BarriersAreUncertain ==
    ASSUME NEW l \in Seq(Entry), Tidy(l)
    PROVE  Barriers(l) = Uncertain(l)
<1>1. DOMAIN l = 1..Len(l) /\ Len(l) \in Nat
  OBVIOUS
<1>2. \A e \in Entry : e.status \in {"skipped", "denied"} => ~NonRetryable(e)
  BY DEF NonRetryable
<1>3. \A i \in DOMAIN l : l[i] \in Entry
  OBVIOUS
<1>4. ASSUME NEW i \in Uncertain(l), NEW j \in (i + 1)..Len(l), l[j].sig = l[i].sig
      PROVE  l[j].status \in {"skipped", "denied"} /\ ~NonRetryable(l[j])
  <2>1. i \in 1..Len(l) /\ j \in DOMAIN l /\ j > i
    BY <1>1 DEF Uncertain
  <2>2. l[j].status \in {"skipped", "denied"}
    BY <1>4, <2>1 DEF Tidy
  <2> QED
    BY <1>2, <1>3, <2>1, <2>2
<1> QED
  BY <1>4 DEF Barriers, Uncertain

\* The two sets of positions are finite.
LEMMA PositionsFinite ==
    ASSUME NEW l \in Seq(Entry)
    PROVE  /\ Uncertain(l) \in SUBSET DOMAIN l /\ Owed(l) \in SUBSET Uncertain(l)
           /\ IsFiniteSet(DOMAIN l) /\ Cardinality(DOMAIN l) = Len(l)
           /\ IsFiniteSet(Uncertain(l)) /\ IsFiniteSet(Owed(l))
           /\ Cardinality(Uncertain(l)) \in Nat /\ Cardinality(Owed(l)) \in Nat
           /\ Cardinality(Owed(l)) <= Cardinality(Uncertain(l))
           /\ Cardinality(Owed(l)) <= Len(l)
<1>1. DOMAIN l = 1..Len(l) /\ Len(l) \in Nat
  OBVIOUS
<1>2. IsFiniteSet(1..Len(l)) /\ Cardinality(1..Len(l)) = Len(l)
  <2>1. 1 \in Int /\ Len(l) \in Int /\ Len(l) \in Nat
    BY <1>1
  <2>2. /\ IsFiniteSet(1..Len(l))
        /\ Cardinality(1..Len(l)) = IF 1 > Len(l) THEN 0 ELSE Len(l) - 1 + 1
    BY ONLY <2>1, FS_Interval
  <2> QED
    BY ONLY <2>1, <2>2
<1>3. Uncertain(l) \in SUBSET DOMAIN l /\ Owed(l) \in SUBSET Uncertain(l) /\ Owed(l) \in SUBSET DOMAIN l
  BY DEF Uncertain, Owed
<1>4. /\ IsFiniteSet(Uncertain(l)) /\ IsFiniteSet(Owed(l))
      /\ Cardinality(Owed(l)) <= Cardinality(DOMAIN l)
  BY <1>1, <1>2, <1>3, FS_Subset
<1>5. Cardinality(Owed(l)) <= Cardinality(Uncertain(l))
  BY <1>3, <1>4, FS_Subset
<1> QED
  BY <1>1, <1>2, <1>3, <1>4, <1>5, FS_CardinalityType

\* A selection of the entries of a sound ledger is a sound ledger.
LEMMA KeptThins ==
    ASSUME NEW n \in Nat, NEW l, Sound(l, n), NEW S \in SUBSET DOMAIN l
    PROVE  /\ Thinned(l, Kept(l, S), n)
           /\ Len(Kept(l, S)) = Cardinality(S)
           /\ S \subseteq Uncertain(l) => Uncertain(Kept(l, S)) = DOMAIN Kept(l, S)
<1>1. l \in Seq(Entry)
  BY DEF Sound
<1> DEFINE m == Kept(l, S)
           c == Cardinality(S)
<1>2. PICK g \in [1..c -> S] :
          /\ m = [k \in 1..c |-> l[g[k]]]
          /\ \A a, b \in 1..c : a < b => g[a] < g[b]
  BY <1>1, KeptEnumerates
<1>3. c \in Nat
  BY <1>1, KeptEnumerates
<1> HIDE DEF m, c
<1>4. \A k \in 1..c : g[k] \in S /\ g[k] \in DOMAIN l /\ m[k] = l[g[k]] /\ m[k] \in Entry
  BY <1>1, <1>2
<1>5. m \in Seq(Entry) /\ Len(m) = c /\ DOMAIN m = 1..c
  <2>1. m \in [1..c -> Entry]
    BY <1>2, <1>4
  <2>2. m \in Seq(Entry)
    BY <1>3, <2>1
  <2>3. DOMAIN m = 1..c
    BY <2>1
  <2>4. DOMAIN m = 1..Len(m) /\ Len(m) \in Nat
    BY <2>2
  <2> QED
    BY <1>3, <2>2, <2>3, <2>4
<1>6. \A k \in Uncertain(m) : k \in 1..c /\ g[k] \in Uncertain(l) /\ m[k] = l[g[k]]
  BY <1>4, <1>5 DEF Uncertain
<1>7. Tidy(m)
  <2> SUFFICES ASSUME NEW k \in Uncertain(m)
               PROVE  /\ m[k].sig \notin Reads
                      /\ \A j \in DOMAIN m : j > k /\ m[j].sig = m[k].sig => m[j].status \in {"skipped", "denied"}
    BY DEF Tidy
  <2>1. Tidy(l) /\ g[k] \in Uncertain(l) /\ k \in 1..c /\ m[k] = l[g[k]]
    BY <1>6 DEF Sound
  <2>2. m[k].sig \notin Reads
    BY <2>1 DEF Tidy
  <2>3. ASSUME NEW j \in DOMAIN m, j > k, m[j].sig = m[k].sig
        PROVE  m[j].status \in {"skipped", "denied"}
    <3>1. g[k] < g[j] /\ m[j] = l[g[j]] /\ g[j] \in DOMAIN l
      BY <1>2, <1>3, <1>4, <1>5, <2>1, <2>3
    <3>2. g[j] > g[k]
      BY <1>1, <2>1, <3>1 DEF Uncertain
    <3> QED
      BY <2>1, <2>3, <3>1, <3>2 DEF Tidy
  <2> QED
    BY <2>2, <2>3
<1>8. Sound(m, n)
  BY <1>4, <1>5, <1>7 DEF Sound
<1>9. Cardinality(Owed(m)) <= Cardinality(Owed(l))
  <2> DEFINE h == [k \in Owed(m) |-> g[k]]
  <2>1. \A k \in Owed(m) : k \in 1..c /\ g[k] \in Owed(l)
    BY <1>6 DEF Owed
  <2>2. \A a, b \in Owed(m) : g[a] = g[b] => a = b
    <3> SUFFICES ASSUME NEW a \in Owed(m), NEW b \in Owed(m), g[a] = g[b], a # b
                 PROVE  FALSE
      OBVIOUS
    <3>1. a \in 1..c /\ b \in 1..c /\ g[a] \in Nat /\ g[b] \in Nat
      BY <1>1, <1>4, <2>1
    <3>2. a < b \/ b < a
      BY <3>1, <1>3
    <3> QED
      BY <1>2, <3>1, <3>2
  <2>3. h \in Injection(Owed(m), Owed(l))
    <3>1. h \in [Owed(m) -> Owed(l)]
      BY <2>1
    <3>2. \A a, b \in Owed(m) : h[a] = h[b] => a = b
      BY <2>2
    <3> HIDE DEF h
    <3> QED
      BY <3>1, <3>2 DEF Injection, IsInjective
  <2>4. IsFiniteSet(Owed(l))
    BY <1>1, PositionsFinite
  <2> QED
    BY <2>3, <2>4, FS_Injection
<1>10. \A k \in Uncertain(m) : \E i \in Uncertain(l) : m[k].sig = l[i].sig
  BY <1>6
<1>11. ASSUME S \subseteq Uncertain(l)
       PROVE  Uncertain(m) = DOMAIN m
  BY <1>4, <1>5, <1>11 DEF Uncertain
<1> QED
  BY <1>5, <1>8, <1>9, <1>10, <1>11 DEF Thinned, m, c

\* A selection that takes the entries that bar a retry covers what they cover.
LEMMA KeptCovers ==
    ASSUME NEW l \in Seq(Entry), NEW S \in SUBSET DOMAIN l, Uncertain(l) \subseteq S,
           NEW o, Covers(l, o)
    PROVE  Covers(Kept(l, S), o)
<1> DEFINE c == Cardinality(S)
<1>1. PICK g \in [1..c -> S] :
          /\ Kept(l, S) = [k \in 1..c |-> l[g[k]]]
          /\ \A i \in S : \E k \in 1..c : g[k] = i
  BY KeptEnumerates
<1> SUFFICES ASSUME NEW s \in o
             PROVE  \E k \in DOMAIN Kept(l, S) :
                        /\ Kept(l, S)[k].sig = s /\ Kept(l, S)[k].status = "unknown_outcome"
                        /\ ~Kept(l, S)[k].reconciled
  BY DEF Covers
<1>2. PICK i \in DOMAIN l : l[i].sig = s /\ l[i].status = "unknown_outcome" /\ ~l[i].reconciled
  BY DEF Covers
<1>3. i \in S
  BY <1>2 DEF Uncertain, NonRetryable
<1>4. PICK k \in 1..c : g[k] = i
  BY <1>1, <1>3
<1>5. k \in DOMAIN Kept(l, S) /\ Kept(l, S)[k] = l[i]
  BY <1>1, <1>4
<1> QED
  BY <1>2, <1>5

\* Positions counted from the newest: those of rank at most a are at most a.
LEMMA NewestFew ==
    ASSUME NEW R \in SUBSET Nat, IsFiniteSet(R), NEW a \in Nat
    PROVE  /\ IsFiniteSet({i \in R : Cardinality({j \in R : j >= i}) <= a})
           /\ Cardinality({i \in R : Cardinality({j \in R : j >= i}) <= a}) <= a
<1> DEFINE rank(i) == Cardinality({j \in R : j >= i})
           N == {i \in R : rank(i) <= a}
           h == [i \in N |-> rank(i)]
<1>1. ASSUME NEW i \in R
      PROVE  IsFiniteSet({j \in R : j >= i}) /\ rank(i) \in Nat /\ rank(i) # 0
  <2>1. {j \in R : j >= i} \in SUBSET R
    OBVIOUS
  <2>2. i \in {j \in R : j >= i}
    OBVIOUS
  <2>3. IsFiniteSet({j \in R : j >= i})
    BY <2>1, FS_Subset
  <2> QED
    BY <2>2, <2>3, FS_EmptySet, FS_CardinalityType
<1>2. ASSUME NEW i \in R, NEW k \in R, i < k
      PROVE  rank(i) # rank(k)
  <2>1. {j \in R : j >= k} \in SUBSET {j \in R : j >= i}
    <3>1. \A j \in R : j >= k => j >= i
      BY <1>2
    <3> QED
      BY <3>1
  <2>2. i \in {j \in R : j >= i} /\ i \notin {j \in R : j >= k}
    BY <1>2
  <2> QED
    BY <1>1, <2>1, <2>2, FS_Subset
<1>3. \A i, k \in R : rank(i) = rank(k) => i = k
  <2> SUFFICES ASSUME NEW i \in R, NEW k \in R, rank(i) = rank(k), i # k
               PROVE  FALSE
    OBVIOUS
  <2>1. i < k \/ k < i
    OBVIOUS
  <2> QED
    BY <1>2, <2>1
<1>4. \A i \in R : rank(i) \in Nat /\ rank(i) # 0
  BY <1>1
<1> HIDE DEF rank
<1>5. h \in [N -> 1..a]
  <2>1. \A i \in N : rank(i) \in 1..a
    BY <1>4
  <2> QED
    BY <2>1
<1>6. \A i, k \in N : h[i] = h[k] => i = k
  BY <1>3
<1> HIDE DEF h, N
<1>7. h \in Injection(N, 1..a)
  BY <1>5, <1>6 DEF Injection, IsInjective
<1>8. IsFiniteSet(1..a) /\ Cardinality(1..a) = a
  <2>1. Cardinality(1..a) = IF 1 > a THEN 0 ELSE a - 1 + 1
    BY FS_Interval, 1 \in Int, a \in Int
  <2> QED
    BY <2>1, FS_Interval, 1 \in Int, a \in Int
<1>9. IsFiniteSet(N) /\ Cardinality(N) <= a
  BY <1>7, <1>8, FS_Injection
<1> QED
  BY <1>9 DEF N, rank

\* Retain keeps every entry that bars a retry, and beyond the limit no other.
LEMMA RetainKeeps ==
    ASSUME NEW l \in Seq(Entry), Tidy(l)
    PROVE  \E S \in SUBSET DOMAIN l :
              /\ Retain(l) = Kept(l, S)
              /\ Uncertain(l) \subseteq S
              /\ Cardinality(S) > Limit => S = Uncertain(l)
<1> DEFINE B == Uncertain(l)
           R == DOMAIN l \ B
           a == IF Limit > Cardinality(B) THEN Limit - Cardinality(B) ELSE 0
           N == {i \in R : Cardinality({j \in R : j >= i}) <= a}
<1>1. Retain(l) = Kept(l, B \cup N)
  BY BarriersAreUncertain DEF Retain
<1>2. /\ B \in SUBSET DOMAIN l /\ IsFiniteSet(B) /\ Cardinality(B) \in Nat
      /\ IsFiniteSet(DOMAIN l) /\ R \in SUBSET DOMAIN l
  BY PositionsFinite
<1>3. IsFiniteSet(R) /\ R \in SUBSET Nat
  <2>1. DOMAIN l = 1..Len(l) /\ Len(l) \in Nat
    OBVIOUS
  <2>2. R \in SUBSET Nat
    BY <1>2, <2>1
  <2> HIDE DEF R
  <2> QED
    BY <1>2, <2>2, FS_Subset
<1>4. a \in Nat /\ Limit \in Nat
  BY <1>2, LimitAssumption
<1> HIDE DEF B, R, a
<1>5. IsFiniteSet(N) /\ Cardinality(N) <= a
  BY <1>3, <1>4, NewestFew
<1>6. B \cap N = {} /\ B \cup N \in SUBSET DOMAIN l
  BY <1>2 DEF R
<1>7. Cardinality(N) \in Nat /\ Cardinality(B \cap N) = 0
  BY <1>5, <1>6, FS_CardinalityType, FS_EmptySet
<1> HIDE DEF N
<1>8. Cardinality(B \cup N) = Cardinality(B) + Cardinality(N)
  <2>1. Cardinality(B \cup N) = Cardinality(B) + Cardinality(N) - Cardinality(B \cap N)
    BY <1>2, <1>5, FS_Union
  <2> QED
    BY <1>2, <1>7, <2>1
<1>9. ASSUME Cardinality(B \cup N) > Limit
      PROVE  B \cup N = B
  <2>1. a = 0
    BY <1>2, <1>4, <1>5, <1>7, <1>8, <1>9 DEF a
  <2>2. N = {}
    BY <1>5, <1>7, <2>1, FS_EmptySet
  <2> QED
    BY <2>2
<1> QED
  BY <1>1, <1>6, <1>9 DEF B

\* What a trimmed ledger is.
LEMMA RetainSound ==
    ASSUME NEW n \in Nat, NEW l, Sound(l, n)
    PROVE  /\ Thinned(l, Retain(l), n)
           /\ Len(Retain(l)) > Limit => Uncertain(Retain(l)) = DOMAIN Retain(l)
           /\ \A o : Covers(l, o) => Covers(Retain(l), o)
<1>1. l \in Seq(Entry) /\ Tidy(l)
  BY DEF Sound
<1>2. PICK S \in SUBSET DOMAIN l :
          /\ Retain(l) = Kept(l, S)
          /\ Uncertain(l) \subseteq S
          /\ Cardinality(S) > Limit => S = Uncertain(l)
  BY <1>1, RetainKeeps
<1>3. /\ Thinned(l, Kept(l, S), n)
      /\ Len(Kept(l, S)) = Cardinality(S)
      /\ S \subseteq Uncertain(l) => Uncertain(Kept(l, S)) = DOMAIN Kept(l, S)
  BY KeptThins
<1>4. \A o : Covers(l, o) => Covers(Kept(l, S), o)
  BY <1>1, <1>2, KeptCovers
<1> QED
  BY <1>2, <1>3, <1>4

\* A purge drops no entry that bars a retry.
LEMMA PurgeSound ==
    ASSUME NEW n \in Nat, NEW l, Sound(l, n)
    PROVE  /\ Thinned(l, Purge(l), n)
           /\ \A o : Covers(l, o) => Covers(Purge(l), o)
<1> DEFINE S == {i \in DOMAIN l : l[i].status \notin {"failed", "skipped"} \/ NonRetryable(l[i])}
<1>1. S \in SUBSET DOMAIN l /\ Uncertain(l) \subseteq S /\ l \in Seq(Entry)
  BY DEF Uncertain, Sound
<1>2. Purge(l) = Kept(l, S)
  BY DEF Purge
<1> HIDE DEF S
<1> QED
  BY <1>1, <1>2, KeptThins, KeptCovers

\* An observation opens the way again for the mutations it sees, no other.
LEMMA ReconcileSound ==
    ASSUME NEW n \in Nat, NEW l, Sound(l, n), NEW r \in Reads
    PROVE  /\ Thinned(l, Reconcile(l, r), n)
           /\ \A o : Covers(l, o) => Covers(Reconcile(l, r), o \ Sees[r])
<1> DEFINE m == Reconcile(l, r)
<1>1. l \in Seq(Entry) /\ DOMAIN l = 1..Len(l) /\ Len(l) \in Nat
  BY DEF Sound
<1>2. /\ DOMAIN m = DOMAIN l
      /\ \A i \in DOMAIN l : m[i] = IF l[i].status = "unknown_outcome" /\ l[i].sig \in Sees[r]
                                    THEN [l[i] EXCEPT !.reconciled = TRUE] ELSE l[i]
  BY DEF Reconcile
<1> HIDE DEF m
<1>3. \A i \in DOMAIN l :
         /\ l[i] \in Entry /\ m[i] \in Entry
         /\ m[i].sig = l[i].sig /\ m[i].status = l[i].status /\ m[i].at = l[i].at /\ m[i].retry = l[i].retry
         /\ l[i].reconciled => m[i].reconciled
         /\ l[i].sig \notin Sees[r] => m[i] = l[i]
  <2> SUFFICES ASSUME NEW i \in DOMAIN l, NEW e, e = l[i]
               PROVE  /\ e \in Entry /\ m[i] \in Entry
                      /\ m[i].sig = e.sig /\ m[i].status = e.status /\ m[i].at = e.at /\ m[i].retry = e.retry
                      /\ e.reconciled => m[i].reconciled
                      /\ e.sig \notin Sees[r] => m[i] = e
    OBVIOUS
  <2>1. e \in Entry
    BY <1>1
  <2>2. m[i] = IF e.status = "unknown_outcome" /\ e.sig \in Sees[r] THEN [e EXCEPT !.reconciled = TRUE] ELSE e
    BY <1>2
  <2>3. CASE e.status = "unknown_outcome" /\ e.sig \in Sees[r]
    <3>1. m[i] = [e EXCEPT !.reconciled = TRUE]
      BY <2>2, <2>3
    <3> QED
      BY ONLY <2>1, <2>3, <3>1 DEF Entry
  <2>4. CASE ~(e.status = "unknown_outcome" /\ e.sig \in Sees[r])
    <3>1. m[i] = e
      BY <2>2, <2>4
    <3> QED
      BY ONLY <2>1, <3>1
  <2> QED
    BY ONLY <2>3, <2>4
<1>4. m \in Seq(Entry)
  <2>1. m = [i \in 1..Len(l) |-> m[i]]
    BY <1>1, <1>2 DEF m, Reconcile
  <2>2. m \in [1..Len(l) -> Entry]
    BY <1>1, <1>3, <2>1
  <2> QED
    BY <1>1, <2>2
<1>5. Uncertain(m) \subseteq Uncertain(l)
  BY <1>2, <1>3 DEF Uncertain, NonRetryable
<1>6. Owed(m) \in SUBSET Owed(l)
  <2>1. \A i \in Uncertain(m) : i \in DOMAIN l
    BY <1>2 DEF Uncertain
  <2> QED
    BY <1>3, <1>5, <2>1 DEF Owed
<1>7. Tidy(m)
  <2>1. \A i \in Uncertain(m) : i \in DOMAIN l /\ i \in Uncertain(l)
    BY <1>2, <1>5 DEF Uncertain
  <2> QED
    BY <1>2, <1>3, <2>1 DEF Tidy, Sound
<1>8. Sound(m, n)
  BY <1>2, <1>3, <1>4, <1>7 DEF Sound
<1>9. Cardinality(Owed(m)) <= Cardinality(Owed(l))
  BY <1>1, <1>6, PositionsFinite, FS_Subset
<1>10. \A k \in Uncertain(m) : \E i \in Uncertain(l) : m[k].sig = l[i].sig
  <2>1. \A i \in Uncertain(m) : i \in DOMAIN l /\ i \in Uncertain(l)
    BY <1>2, <1>5 DEF Uncertain
  <2> QED
    BY <1>3, <2>1
<1>11. \A o : Covers(l, o) => Covers(m, o \ Sees[r])
  BY <1>2, <1>3 DEF Covers
<1> QED
  BY <1>8, <1>9, <1>10, <1>11 DEF Thinned, m

\* What a saved ledger keeps: the newest entries, and with them the open mutations
\* that are not cut off.
LEMMA RetainNewestSound ==
    ASSUME NEW n \in Nat, NEW l, Sound(l, n)
    PROVE  /\ Sound(RetainNewest(l), n)
           /\ Len(RetainNewest(l)) <= Limit
           /\ \A o : Covers(l, o) =>
                 Covers(RetainNewest(l), o \ {l[i].sig : i \in 1..(Len(l) - Limit)})
<1> DEFINE d == IF Len(l) > Limit THEN Len(l) - Limit ELSE 0
           m == RetainNewest(l)
<1>1. l \in Seq(Entry) /\ DOMAIN l = 1..Len(l) /\ Len(l) \in Nat /\ Limit \in Nat
  BY LimitAssumption DEF Sound
<1>2. d \in Nat /\ d <= Len(l) /\ Len(l) - d <= Limit
  BY <1>1
<1>3. /\ m \in Seq(Entry) /\ Len(m) = Len(l) - d
      /\ \A i \in 1..(Len(l) - d) : m[i] = l[i + d]
  <2>1. m = SubSeq(l, 1 + d, Len(l))
    BY DEF RetainNewest
  <2> HIDE DEF d, m
  <2>2. 1 + d \in Nat /\ 1 + d >= 1 /\ \A i \in (1 + d)..Len(l) : i \in 1..Len(l)
    BY <1>1, <1>2
  <2>3. Len(l) - (1 + d) + 1 = Len(l) - d /\ Len(l) - d \in Nat
    BY <1>1, <1>2
  <2>4. m = [i \in 1..(Len(l) - d) |-> l[i + d]]
    <3>1. m = [i \in 1..(Len(l) - (1 + d) + 1) |-> l[i + (1 + d) - 1]]
      BY <1>1, <2>1, <2>2 DEF SubSeq
    <3>2. \A i \in 1..(Len(l) - d) : i + (1 + d) - 1 = i + d
      BY <1>1, <1>2
    <3> QED
      BY <2>3, <3>1, <3>2
  <2>5. \A i \in 1..(Len(l) - d) : l[i + d] \in Entry
    BY <1>1, <1>2
  <2>6. m \in [1..(Len(l) - d) -> Entry]
    BY <2>4, <2>5
  <2>7. m \in Seq(Entry)
    BY <2>3, <2>6
  <2>8. DOMAIN m = 1..(Len(l) - d) /\ DOMAIN m = 1..Len(m) /\ Len(m) \in Nat
    <3>1. DOMAIN m = 1..(Len(l) - d)
      BY <2>4
    <3>2. DOMAIN m = 1..Len(m) /\ Len(m) \in Nat
      BY ONLY <2>7
    <3> QED
      BY <3>1, <3>2
  <2> QED
    BY <2>3, <2>4, <2>7, <2>8
<1> HIDE DEF m
<1>4. DOMAIN m = 1..(Len(l) - d)
  BY <1>3
<1>5. \A i \in 1..(Len(l) - d) : i + d \in DOMAIN l
  BY <1>1, <1>2
<1>6. \A s \in 1..(Len(l) - Limit) : s <= d
  BY <1>1
<1>7. \A i \in DOMAIN l : i > d => i - d \in DOMAIN m /\ m[i - d] = l[i]
  <2> SUFFICES ASSUME NEW i \in DOMAIN l, i > d
               PROVE  i - d \in DOMAIN m /\ m[i - d] = l[i]
    OBVIOUS
  <2> HIDE DEF d
  <2>1. i - d \in 1..(Len(l) - d) /\ (i - d) + d = i
    BY <1>1, <1>2
  <2> QED
    BY <1>3, <1>4, <2>1
<1>8. \A i \in DOMAIN l : i \in Nat /\ (i <= d => i \in 1..(Len(l) - Limit))
  BY <1>1
<1> HIDE DEF d
<1>9. Sound(m, n)
  <2>1. Tidy(m)
    <3> SUFFICES ASSUME NEW k \in Uncertain(m)
                 PROVE  /\ m[k].sig \notin Reads
                        /\ \A j \in DOMAIN m : j > k /\ m[j].sig = m[k].sig => m[j].status \in {"skipped", "denied"}
      BY DEF Tidy
    <3>1. k \in DOMAIN m /\ k + d \in DOMAIN l /\ m[k] = l[k + d] /\ k + d \in Uncertain(l)
      BY <1>3, <1>4, <1>5 DEF Uncertain
    <3>2. m[k].sig \notin Reads
      BY <3>1 DEF Sound, Tidy
    <3>3. ASSUME NEW j \in DOMAIN m, j > k, m[j].sig = m[k].sig
          PROVE  m[j].status \in {"skipped", "denied"}
      <4>1. j + d > k + d /\ j + d \in DOMAIN l /\ m[j] = l[j + d]
        BY <1>1, <1>2, <1>3, <1>4, <1>5, <3>1, <3>3
      <4> QED
        BY <3>1, <3>3, <4>1 DEF Sound, Tidy
    <3> QED
      BY <3>2, <3>3
  <2>2. \A k \in DOMAIN m : m[k].at <= n
    BY <1>3, <1>4, <1>5 DEF Sound
  <2> QED
    BY <1>3, <2>1, <2>2 DEF Sound
<1>10. ASSUME NEW o, Covers(l, o)
       PROVE  Covers(m, o \ {l[i].sig : i \in 1..(Len(l) - Limit)})
  <2> SUFFICES ASSUME NEW s \in o, s \notin {l[i].sig : i \in 1..(Len(l) - Limit)}
               PROVE  \E k \in DOMAIN m :
                          m[k].sig = s /\ m[k].status = "unknown_outcome" /\ ~m[k].reconciled
    BY DEF Covers
  <2>1. PICK i \in DOMAIN l : l[i].sig = s /\ l[i].status = "unknown_outcome" /\ ~l[i].reconciled
    BY <1>10 DEF Covers
  <2>2. i \notin 1..(Len(l) - Limit)
    BY <2>1
  <2>3. i > d
    BY <1>2, <1>8, <2>2
  <2> QED
    BY <1>7, <2>1, <2>3
<1> QED
  BY <1>2, <1>3, <1>9, <1>10 DEF m

\* What bars a retry in m did so in l, or is an entry of s.
FromOrOf(m, l, s) ==
    \A k \in Uncertain(m) : m[k].sig = s \/ \E i \in Uncertain(l) : m[k].sig = l[i].sig

\* One more entry: it bars a retry only of what nothing barred before.
LEMMA AppendSound ==
    ASSUME NEW n \in Nat, NEW l, Sound(l, n), NEW e \in Entry, e.at <= n,
           NEW m, m = Append(l, e),
           NonRetryable(e) => e.sig \notin Reads,
           e.status \notin {"skipped", "denied"} => \A i \in Uncertain(l) : l[i].sig # e.sig
    PROVE  /\ Sound(m, n)
           /\ Cardinality(Owed(m)) <=
                 Cardinality(Owed(l)) + (IF NonRetryable(e) /\ e.sig \in Writes THEN 1 ELSE 0)
           /\ FromOrOf(m, l, e.sig)
           /\ \A o : Covers(l, o) => Covers(m, o)
           /\ \A o : Covers(l, o) /\ e.status = "unknown_outcome" /\ ~e.reconciled =>
                 Covers(m, o \cup {e.sig})
<1> DEFINE c == Len(l) + 1
<1>1. l \in Seq(Entry) /\ DOMAIN l = 1..Len(l) /\ Len(l) \in Nat
  BY DEF Sound
<1>2. /\ m \in Seq(Entry) /\ c \in Nat /\ DOMAIN m = DOMAIN l \cup {c} /\ m[c] = e
      /\ \A i \in DOMAIN l : i \in Nat /\ i < c /\ m[i] = l[i]
  <2>1. m \in Seq(Entry) /\ Len(m) = c /\ m[c] = e /\ \A i \in 1..Len(l) : m[i] = l[i]
    BY <1>1
  <2>2. DOMAIN m = 1..Len(m)
    BY <2>1
  <2>3. 1..c = 1..Len(l) \cup {c}
    BY <1>1
  <2>4. \A i \in 1..Len(l) : i \in Nat /\ i < c
    BY <1>1
  <2> QED
    BY <1>1, <2>1, <2>2, <2>3, <2>4
<1> HIDE DEF c
<1>3. /\ \A i \in Uncertain(m) : i \in Uncertain(l) \/ (i = c /\ NonRetryable(e))
      /\ \A i \in Uncertain(l) : i \in DOMAIN l
  BY <1>2 DEF Uncertain
<1>4. Tidy(m)
  <2> SUFFICES ASSUME NEW k \in Uncertain(m)
               PROVE  /\ m[k].sig \notin Reads
                      /\ \A j \in DOMAIN m : j > k /\ m[j].sig = m[k].sig => m[j].status \in {"skipped", "denied"}
    BY DEF Tidy
  <2>1. CASE k \in Uncertain(l)
    <3>1. k \in DOMAIN l /\ m[k] = l[k] /\ Tidy(l)
      BY <1>2, <1>3, <2>1 DEF Sound
    <3>2. \A j \in DOMAIN l : j > k /\ l[j].sig = l[k].sig => l[j].status \in {"skipped", "denied"}
      BY <2>1, <3>1 DEF Tidy
    <3>3. e.sig = l[k].sig => e.status \in {"skipped", "denied"}
      BY <2>1
    <3>4. l[k].sig \notin Reads
      BY <2>1, <3>1 DEF Tidy
    <3> QED
      BY <1>2, <3>1, <3>2, <3>3, <3>4
  <2>2. CASE k = c /\ NonRetryable(e)
    <3>1. \A j \in DOMAIN m : ~(j > k)
      BY <1>2, <2>2
    <3> QED
      BY <1>2, <2>2, <3>1
  <2> QED
    BY <1>3, <2>1, <2>2
<1>5. Sound(m, n)
  BY <1>2, <1>4 DEF Sound
<1>6. Cardinality(Owed(m)) <=
          Cardinality(Owed(l)) + (IF NonRetryable(e) /\ e.sig \in Writes THEN 1 ELSE 0)
  <2>1. IsFiniteSet(Owed(l)) /\ Cardinality(Owed(l)) \in Nat
    BY <1>1, PositionsFinite
  <2>2. CASE NonRetryable(e) /\ e.sig \in Writes
    <3>1. Owed(m) \in SUBSET (Owed(l) \cup {c})
      BY <1>2, <1>3 DEF Owed
    <3>2. /\ IsFiniteSet(Owed(l) \cup {c})
          /\ Cardinality(Owed(l) \cup {c}) = IF c \in Owed(l) THEN Cardinality(Owed(l)) ELSE Cardinality(Owed(l)) + 1
      BY <2>1, FS_AddElement
    <3>3. Cardinality(Owed(m)) <= Cardinality(Owed(l) \cup {c}) /\ IsFiniteSet(Owed(m))
      BY <3>1, <3>2, FS_Subset
    <3>4. Cardinality(Owed(m)) \in Nat
      BY <3>3, FS_CardinalityType
    <3> QED
      BY <2>1, <2>2, <3>2, <3>3, <3>4
  <2>3. CASE ~(NonRetryable(e) /\ e.sig \in Writes)
    <3>1. Owed(m) \in SUBSET Owed(l)
      BY <1>2, <1>3, <2>3 DEF Owed
    <3>2. Cardinality(Owed(m)) <= Cardinality(Owed(l))
      BY <2>1, <3>1, FS_Subset
    <3> QED
      BY <2>1, <2>3, <3>2
  <2> QED
    BY <2>2, <2>3
<1>7. FromOrOf(m, l, e.sig)
  BY <1>2, <1>3 DEF FromOrOf
<1>8. \A o : Covers(l, o) => Covers(m, o)
  BY <1>2 DEF Covers
<1>9. \A o : Covers(l, o) /\ e.status = "unknown_outcome" /\ ~e.reconciled => Covers(m, o \cup {e.sig})
  BY <1>2 DEF Covers
<1> QED
  BY <1>5, <1>6, <1>7, <1>8, <1>9

\* The open mutations after the record of e.
StillOpen(o, e) ==
    IF e.status = "unknown_outcome" THEN o \cup {e.sig}
    ELSE IF e.status = "worked" /\ e.sig \in Reads THEN o \ Sees[e.sig]
    ELSE o

\* The ledger after the record of e, before it is trimmed.
LEMMA RecordedSound ==
    ASSUME NEW n \in Nat, NEW l, Sound(l, n), NEW e \in Entry, e.at <= n, ~e.reconciled,
           NEW changed \in BOOLEAN,
           NonRetryable(e) => e.sig \notin Reads,
           e.status \notin {"skipped", "denied"} => \A i \in Uncertain(l) : l[i].sig # e.sig
    PROVE  /\ Sound(Recorded(l, e, changed), n)
           /\ Cardinality(Owed(Recorded(l, e, changed))) <=
                 Cardinality(Owed(l)) + (IF NonRetryable(e) /\ e.sig \in Writes THEN 1 ELSE 0)
           /\ FromOrOf(Recorded(l, e, changed), l, e.sig)
           /\ \A o : Covers(l, o) => Covers(Recorded(l, e, changed), StillOpen(o, e))
<1> DEFINE p == IF changed THEN Purge(l) ELSE l
           r == IF e.status = "worked" /\ e.sig \in Reads THEN Reconcile(p, e.sig) ELSE p
           m == Recorded(l, e, changed)
<1>1. m = IF Coalesced(p, e) THEN p ELSE Append(r, e)
  BY DEF Recorded
<1>2. Coalesced(p, e) => e.status \in {"skipped", "denied"}
  BY DEF Coalesced
<1>3. Thinned(l, p, n) /\ \A o : Covers(l, o) => Covers(p, o)
  <2>1. Thinned(l, l, n)
    <3>1. Cardinality(Owed(l)) \in Nat
      BY PositionsFinite DEF Sound
    <3> QED
      BY <3>1 DEF Thinned
  <2> QED
    BY <2>1, PurgeSound
<1> HIDE DEF p
<1>4. Sound(p, n)
  BY <1>3 DEF Thinned
<1>5. /\ Thinned(p, r, n)
      /\ \A o : Covers(p, o) =>
            Covers(r, IF e.status = "worked" /\ e.sig \in Reads THEN o \ Sees[e.sig] ELSE o)
  <2>1. Thinned(p, p, n)
    <3>1. Cardinality(Owed(p)) \in Nat
      BY <1>4, PositionsFinite DEF Sound
    <3> QED
      BY <1>4, <3>1 DEF Thinned
  <2> QED
    BY <1>4, <2>1, ReconcileSound
<1> HIDE DEF r, m
<1>6. /\ Cardinality(Owed(l)) \in Nat /\ Cardinality(Owed(p)) \in Nat /\ Cardinality(Owed(r)) \in Nat
      /\ Cardinality(Owed(p)) <= Cardinality(Owed(l)) /\ Cardinality(Owed(r)) <= Cardinality(Owed(l))
      /\ Sound(r, n)
  <2>1. Sound(r, n)
    BY <1>5 DEF Thinned
  <2>2. l \in Seq(Entry) /\ p \in Seq(Entry) /\ r \in Seq(Entry)
    BY <1>4, <2>1 DEF Sound
  <2>3. Cardinality(Owed(l)) \in Nat /\ Cardinality(Owed(p)) \in Nat /\ Cardinality(Owed(r)) \in Nat
    BY <2>2, PositionsFinite
  <2>4. Cardinality(Owed(p)) <= Cardinality(Owed(l)) /\ Cardinality(Owed(r)) <= Cardinality(Owed(p))
    BY <1>3, <1>5 DEF Thinned
  <2> QED
    BY <2>1, <2>3, <2>4
<1>7. /\ \A k \in Uncertain(p) : \E i \in Uncertain(l) : p[k].sig = l[i].sig
      /\ \A k \in Uncertain(r) : \E i \in Uncertain(l) : r[k].sig = l[i].sig
  BY <1>3, <1>5 DEF Thinned
<1>8. CASE Coalesced(p, e)
  <2>1. m = p /\ e.status \in {"skipped", "denied"}
    BY <1>1, <1>2, <1>8
  <2>2. \A o : StillOpen(o, e) = o
    BY <2>1 DEF StillOpen
  <2>3. Cardinality(Owed(m)) <= Cardinality(Owed(l)) + (IF NonRetryable(e) /\ e.sig \in Writes THEN 1 ELSE 0)
    BY <1>6, <2>1
  <2>4. FromOrOf(m, l, e.sig)
    BY <1>7, <2>1 DEF FromOrOf
  <2> QED
    BY <1>3, <1>4, <2>1, <2>2, <2>3, <2>4 DEF m
<1>9. CASE ~Coalesced(p, e)
  <2>1. m = Append(r, e)
    BY <1>1, <1>9
  <2>2. e.status \notin {"skipped", "denied"} => \A i \in Uncertain(r) : r[i].sig # e.sig
    BY <1>7
  <2>3. /\ Sound(m, n)
        /\ Cardinality(Owed(m)) <=
              Cardinality(Owed(r)) + (IF NonRetryable(e) /\ e.sig \in Writes THEN 1 ELSE 0)
        /\ FromOrOf(m, r, e.sig)
        /\ \A o : Covers(r, o) => Covers(m, o)
        /\ \A o : Covers(r, o) /\ e.status = "unknown_outcome" /\ ~e.reconciled => Covers(m, o \cup {e.sig})
    <3>1. /\ n \in Nat /\ Sound(r, n) /\ e \in Entry /\ e.at <= n /\ m = Append(r, e)
          /\ NonRetryable(e) => e.sig \notin Reads
          /\ e.status \notin {"skipped", "denied"} => \A i \in Uncertain(r) : r[i].sig # e.sig
      BY <1>6, <2>1, <2>2
    <3>2. FromOrOf(m, r, e.sig)
      BY ONLY <3>1, AppendSound
    <3>3. /\ Sound(m, n)
          /\ Cardinality(Owed(m)) <=
                Cardinality(Owed(r)) + (IF NonRetryable(e) /\ e.sig \in Writes THEN 1 ELSE 0)
      BY ONLY <3>1, AppendSound
    <3>4. /\ \A o : Covers(r, o) => Covers(m, o)
          /\ \A o : Covers(r, o) /\ e.status = "unknown_outcome" /\ ~e.reconciled => Covers(m, o \cup {e.sig})
      BY ONLY <3>1, AppendSound
    <3> QED
      BY <3>2, <3>3, <3>4
  <2>4. Cardinality(Owed(m)) <= Cardinality(Owed(l)) + (IF NonRetryable(e) /\ e.sig \in Writes THEN 1 ELSE 0)
    <3>1. Cardinality(Owed(m)) \in Nat
      BY <2>3, PositionsFinite DEF Sound
    <3> QED
      BY <1>6, <2>3, <3>1
  <2>5. FromOrOf(m, l, e.sig)
    BY <1>7, <2>3 DEF FromOrOf
  <2>6. ASSUME NEW o, Covers(l, o)
        PROVE  Covers(m, StillOpen(o, e))
    <3>1. Covers(r, IF e.status = "worked" /\ e.sig \in Reads THEN o \ Sees[e.sig] ELSE o)
      BY <1>3, <1>5, <2>6
    <3> QED
      BY <2>3, <3>1 DEF StillOpen
  <2> QED
    BY <2>3, <2>4, <2>5, <2>6 DEF m
<1> QED
  BY <1>8, <1>9

-----------------------------------------------------------------------------
(* The dispatches *)

\* A step in which one dispatch moves on and no mutation takes effect.
LEMMA JobMoves ==
    ASSUME JobsInv, NEW t \in Threads, NEW j \in Job,
           job' = [job EXCEPT ![t] = j], effects' = effects, Coherent(j, effects),
           t \in Workers => /\ j.pc # "save" /\ ~j.slot
                            /\ j.pc # "idle" => j.sig \in Reads,
           t \in Workers /\ j.pc # "idle" /\ ~j.abandoned => job[Main].pc = "idle",
           t = Main /\ j.pc # "idle" => Batch = {},
           slots' = IF t = Main THEN (IF j.slot THEN 1 ELSE 0) ELSE slots
    PROVE  JobsInv'
<1>1. job \in [Threads -> Job] /\ Main \in Threads /\ Workers \subseteq Threads
  BY DEF JobsInv, Threads
<1>2. /\ job' \in [Threads -> Job] /\ job'[t] = j
      /\ \A u \in Threads : u # t => job'[u] = job[u]
  BY <1>1
<1>3. \A u \in Threads : Coherent(job'[u], effects)
  BY <1>2 DEF JobsInv
<1>4. \A w \in Workers : /\ job'[w].pc # "save" /\ ~job'[w].slot
                         /\ job'[w].pc # "idle" => job'[w].sig \in Reads
  BY <1>1, <1>2 DEF JobsInv
<1>5. (Batch # {})' => job'[Main].pc = "idle"
  <2>1. \A w \in Workers : w # t /\ job'[w].pc # "idle" /\ ~job'[w].abandoned => w \in Batch
    BY <1>1, <1>2 DEF Batch
  <2>2. CASE t = Main
    <3>1. \A w \in Workers : w # t
      BY <2>2, MainAssumption
    <3> QED
      BY <1>2, <2>1, <2>2, <3>1 DEF Batch
  <2>3. CASE t # Main
    <3>1. job'[Main] = job[Main] /\ t \in Workers
      BY <1>1, <1>2, <2>3 DEF Threads
    <3>2. Batch # {} => job[Main].pc = "idle"
      BY DEF JobsInv
    <3>3. ASSUME NEW w \in Workers, job'[w].pc # "idle", ~job'[w].abandoned
          PROVE  job[Main].pc = "idle"
      <4>1. CASE w = t
        BY <1>2, <3>1, <3>3, <4>1
      <4>2. CASE w # t
        BY <2>1, <3>2, <3>3, <4>2
      <4> QED
        BY <4>1, <4>2
    <3> QED
      BY <3>1, <3>3 DEF Batch
  <2> QED
    BY <2>2, <2>3
<1>6. slots' = IF job'[Main].slot THEN 1 ELSE 0
  BY <1>1, <1>2 DEF JobsInv
<1>7. effects' \in 0..MaxEffects
  BY DEF JobsInv
<1> QED
  BY <1>2, <1>3, <1>4, <1>5, <1>6, <1>7 DEF JobsInv

\* A dispatch whose slot does not change moves on.
LEMMA JobGoesOn ==
    ASSUME JobsInv, NEW t \in Threads, NEW j \in Job,
           job' = [job EXCEPT ![t] = j], effects' = effects, slots' = slots, Coherent(j, effects),
           job[t].pc \notin {"idle", "save"}, j.pc \notin {"idle", "save"},
           j.slot = job[t].slot, j.sig = job[t].sig, j.abandoned = job[t].abandoned
    PROVE  JobsInv'
<1>1. job \in [Threads -> Job] /\ slots = IF job[Main].slot THEN 1 ELSE 0
  BY DEF JobsInv
<1>2. t \in Workers => /\ j.pc # "save" /\ ~j.slot
                       /\ j.pc # "idle" => j.sig \in Reads
  BY DEF JobsInv
<1>3. t \in Workers /\ ~j.abandoned => job[Main].pc = "idle"
  <2>1. t \in Workers /\ ~j.abandoned => t \in Batch
    BY DEF Batch
  <2> QED
    BY <2>1 DEF JobsInv
<1>4. t = Main => Batch = {}
  BY DEF JobsInv
<1>5. slots' = IF t = Main THEN (IF j.slot THEN 1 ELSE 0) ELSE slots
  BY <1>1
<1> QED
  BY <1>2, <1>3, <1>4, <1>5, JobMoves

\* A dispatch starts.
LEMMA JobsDispatch ==
    ASSUME JobsInv, \/ \E s \in Signatures : Dispatch(s)
                    \/ \E w \in Workers, r \in Reads : Submit(w, r)
    PROVE  JobsInv'
<1>1. ASSUME NEW t \in Threads, NEW s \in Signatures,
             job' = [job EXCEPT ![t] = [Idle EXCEPT !.pc = "lookup", !.sig = s]],
             s \in Writes => effects < MaxEffects, UNCHANGED <<effects, slots>>,
             job[t].pc = "idle", job[Main].pc = "idle",
             t \in Workers => s \in Reads, t = Main => Batch = {}
      PROVE  JobsInv'
  <2> DEFINE j == [Idle EXCEPT !.pc = "lookup", !.sig = s]
  <2>1. /\ j \in Job /\ j.pc = "lookup" /\ j.sig = s /\ ~j.slot
        /\ Coherent(j, effects)
    BY <1>1 DEF Idle, Job, Coherent
  <2> HIDE DEF j
  <2>2. job' = [job EXCEPT ![t] = j] /\ effects' = effects /\ slots' = slots
    BY <1>1 DEF j
  <2>3. Coherent(job[t], effects) /\ slots = IF job[Main].slot THEN 1 ELSE 0
    BY DEF JobsInv
  <2>4. slots' = IF t = Main THEN (IF j.slot THEN 1 ELSE 0) ELSE slots
    BY <1>1, <2>1, <2>2, <2>3 DEF Coherent
  <2> QED
    BY <1>1, <2>1, <2>2, <2>4, JobMoves
<1>2. ASSUME NEW s \in Signatures, Dispatch(s)
      PROVE  JobsInv'
  <2>1. Main \in Threads /\ Main \notin Workers
    BY MainAssumption DEF Threads
  <2> QED
    BY <1>1, <1>2, <2>1 DEF Dispatch
<1>3. ASSUME NEW w \in Workers, NEW r \in Reads, Submit(w, r)
      PROVE  JobsInv'
  <2>1. w \in Threads /\ w # Main /\ r \in Signatures /\ r \notin Writes
    BY MainAssumption, KindAssumption DEF Threads, Signatures
  <2> QED
    BY <1>1, <1>3, <2>1 DEF Submit
<1> QED
  BY <1>2, <1>3

\* The steps of a dispatch up to its outcome, but for the reservation of a slot
\* and the call of the tool.
LEMMA JobsWithin ==
    ASSUME JobsInv, NEW t \in Threads,
           PreflightDenies(t) \/ Lookup(t) \/ NotInvoked(t) \/ Judge(t) \/ Trim(t)
    PROVE  JobsInv'
<1>0. job \in [Threads -> Job] /\ job[t] \in Job /\ Coherent(job[t], effects)
  BY DEF JobsInv
<1>1. ASSUME NEW status \in Status, NEW retry \in BOOLEAN, Outcome(t, status, retry),
             effects' = effects, slots' = slots,
             Coherent([job[t] EXCEPT !.pc = "record", !.status = status, !.retry = retry], effects),
             job[t].pc \notin {"idle", "save"}
      PROVE  JobsInv'
  <2> DEFINE j == [job[t] EXCEPT !.pc = "record", !.status = status, !.retry = retry]
  <2>1. /\ j \in Job /\ j.pc = "record" /\ j.sig = job[t].sig
        /\ j.slot = job[t].slot /\ j.abandoned = job[t].abandoned
    BY <1>0 DEF Job
  <2>2. job' = [job EXCEPT ![t] = j]
    BY <1>0, <1>1 DEF Outcome
  <2> HIDE DEF j
  <2>3. Coherent(j, effects)
    BY <1>1 DEF j
  <2> QED
    BY <1>1, <2>1, <2>2, <2>3, JobGoesOn
<1>2. ASSUME NEW pc \in {"reserve", "done"}, Goto(t, pc), effects' = effects, slots' = slots,
             Coherent([job[t] EXCEPT !.pc = pc], effects), job[t].pc \notin {"idle", "save"}
      PROVE  JobsInv'
  <2> DEFINE j == [job[t] EXCEPT !.pc = pc]
  <2>1. /\ j \in Job /\ j.pc = pc /\ j.sig = job[t].sig
        /\ j.slot = job[t].slot /\ j.abandoned = job[t].abandoned
    BY <1>0 DEF Job
  <2>2. job' = [job EXCEPT ![t] = j]
    BY <1>0, <1>2 DEF Goto
  <2> HIDE DEF j
  <2>3. Coherent(j, effects)
    BY <1>2 DEF j
  <2> QED
    BY <1>2, <2>1, <2>2, <2>3, JobGoesOn
<1>3. CASE PreflightDenies(t)
  <2>1. Coherent([job[t] EXCEPT !.pc = "record", !.status = "denied", !.retry = FALSE], effects)
    <3>1. job[t].pc = "lookup" /\ ~job[t].invoked
      BY <1>0, <1>3 DEF PreflightDenies, Coherent
    <3> QED
      BY <1>0, <3>1 DEF Coherent, Job, Status
  <2> QED
    BY <1>1, <1>3, <2>1 DEF PreflightDenies, Status
<1>4. CASE Lookup(t)
  <2>1. /\ Coherent([job[t] EXCEPT !.pc = "record", !.status = "skipped", !.retry = FALSE], effects)
        /\ Coherent([job[t] EXCEPT !.pc = "reserve"], effects)
    <3>1. job[t].pc = "lookup" /\ ~job[t].invoked
      BY <1>0, <1>4 DEF Lookup, Coherent
    <3> QED
      BY <1>0, <3>1 DEF Coherent, Job, Status
  <2> QED
    BY <1>1, <1>2, <1>4, <2>1 DEF Lookup, Status
<1>5. CASE NotInvoked(t)
  <2>1. job[t].pc = "approve" /\ ~job[t].invoked /\ (job[t].sig \in Writes => job[t].slot)
    BY <1>0, <1>5 DEF NotInvoked, Coherent
  <2>2. Coherent([job[t] EXCEPT !.pc = "record", !.status = "denied", !.retry = FALSE], effects)
    BY <1>0, <2>1 DEF Coherent, Job, Status
  <2>3. Coherent([job[t] EXCEPT !.pc = "record", !.status = "cancelled", !.retry = TRUE], effects)
    BY <1>0, <2>1 DEF Coherent, Job, Status
  <2>4. Coherent([job[t] EXCEPT !.pc = "record", !.status = "failed", !.retry = TRUE], effects)
    BY <1>0, <2>1 DEF Coherent, Job, Status
  <2> QED
    BY <1>1, <1>5, <2>1, <2>2, <2>3, <2>4 DEF NotInvoked, Status
<1>6. CASE Judge(t)
  <2>1. /\ job[t].pc = "judge" /\ job[t].invoked /\ (job[t].sig \in Writes => job[t].slot)
        /\ job[t].sig \in Signatures /\ job[t].saw <= effects
        /\ ~job[t].abandoned => job[t].saw = effects
    BY <1>0, <1>6 DEF Judge, Coherent
  <2>2. Coherent([job[t] EXCEPT !.pc = "record", !.status = "worked", !.retry = FALSE], effects)
    BY <1>0, <2>1 DEF Coherent, Job, Status
  <2>3. job[t].sig \in Writes =>
            /\ Coherent([job[t] EXCEPT !.pc = "record", !.status = "unknown_outcome", !.retry = FALSE], effects)
            /\ Coherent([job[t] EXCEPT !.pc = "record", !.status = "failed", !.retry = FALSE], effects)
    BY <1>0, <2>1, KindAssumption DEF Coherent, Job, Status
  <2>4. ASSUME NEW status \in {"failed", "cancelled"}, job[t].sig \notin Writes
        PROVE  Coherent([job[t] EXCEPT !.pc = "record", !.status = status,
                                       !.retry = (job[t].sig \in Reads)], effects)
    BY <1>0, <2>1, <2>4 DEF Coherent, Job, Status
  <2>5. CASE job[t].sig \in Writes
    BY <1>1, <1>6, <2>1, <2>2, <2>3, <2>5 DEF Judge, Status
  <2>6. CASE job[t].sig \notin Writes
    <3>1. PICK status \in {"failed", "cancelled", "worked"} :
              \/ status = "worked" /\ Outcome(t, "worked", FALSE)
              \/ status # "worked" /\ Outcome(t, status, job[t].sig \in Reads)
      BY <1>6, <2>6 DEF Judge
    <3>2. effects' = effects /\ slots' = slots
      BY <1>6 DEF Judge
    <3>3. CASE status = "worked"
      BY <1>1, <2>1, <2>2, <3>1, <3>2, <3>3 DEF Status
    <3>4. CASE status # "worked"
      <4>1. (job[t].sig \in Reads) \in BOOLEAN /\ status \in Status
        BY <3>1 DEF Status
      <4>2. Outcome(t, status, job[t].sig \in Reads)
        BY <3>1, <3>4
      <4>3. Coherent([job[t] EXCEPT !.pc = "record", !.status = status,
                                    !.retry = (job[t].sig \in Reads)], effects)
        BY <2>4, <2>6, <3>1, <3>4
      <4> QED
        BY <1>1, <2>1, <3>2, <4>1, <4>2, <4>3
    <3> QED
      BY <3>3, <3>4
  <2> QED
    BY <2>5, <2>6
<1>7. CASE Trim(t)
  <2>1. Coherent([job[t] EXCEPT !.pc = "done"], effects) /\ job[t].pc = "trim"
    BY <1>0, <1>7 DEF Trim, Coherent, Job
  <2> QED
    BY <1>2, <1>7, <2>1 DEF Trim
<1> QED
  BY <1>3, <1>4, <1>5, <1>6, <1>7

\* The reservation, the record and the return of a dispatch, and a save.
LEMMA JobsSlots ==
    ASSUME JobsInv, NEW t \in Threads,
           \/ Reserve(t) \/ Record(t) \/ Return(t)
           \/ t = Main /\ (Save \/ SaveAssigns)
    PROVE  JobsInv'
<1>0. /\ job \in [Threads -> Job] /\ job[t] \in Job /\ Coherent(job[t], effects)
      /\ t \in Workers => ~job[t].slot /\ (job[t].pc # "idle" => job[t].sig \in Reads)
      /\ slots = IF job[Main].slot THEN 1 ELSE 0
      /\ Main \in Threads /\ (t \in Workers <=> t # Main)
  BY MainAssumption DEF JobsInv, Threads
<1>1. ASSUME NEW j \in Job, job' = [job EXCEPT ![t] = j], effects' = effects, slots' = slots,
             Coherent(j, effects), j.pc = "record", j.slot = job[t].slot, j.sig = job[t].sig,
             j.abandoned = job[t].abandoned, job[t].pc = "reserve"
      PROVE  JobsInv'
  BY <1>1, JobGoesOn
<1>2. CASE Reserve(t)
  <2>1. /\ job[t].pc = "reserve" /\ job[t].sig \in Signatures /\ ~job[t].slot /\ ~job[t].invoked
        /\ job[t].sig \in Writes => effects < MaxEffects
        /\ effects' = effects
    BY <1>0, <1>2 DEF Reserve, Coherent
  <2>2. CASE job[t].sig \notin Writes
    <3> DEFINE j == [job[t] EXCEPT !.pc = "approve"]
    <3>1. /\ j \in Job /\ j.pc = "approve" /\ j.slot = job[t].slot /\ j.sig = job[t].sig
          /\ j.abandoned = job[t].abandoned /\ Coherent(j, effects)
      BY <1>0, <2>1, <2>2 DEF Job, Coherent
    <3>2. job' = [job EXCEPT ![t] = j] /\ slots' = slots
      BY <1>0, <1>2, <2>2 DEF Reserve, Goto
    <3> HIDE DEF j
    <3> QED
      BY <2>1, <3>1, <3>2, JobGoesOn
  <2>3. CASE job[t].sig \in Writes /\ Cardinality(Barriers(ledger)) + slots < Limit
    <3> DEFINE j == [job[t] EXCEPT !.pc = "approve", !.slot = TRUE]
    <3>1. /\ j \in Job /\ j.pc = "approve" /\ j.slot /\ j.sig = job[t].sig
          /\ j.abandoned = job[t].abandoned /\ Coherent(j, effects)
      BY <1>0, <2>1, <2>3 DEF Job, Coherent
    <3>2. job' = [job EXCEPT ![t] = j] /\ slots' = slots + 1
      BY <1>0, <1>2, <2>3 DEF Reserve
    <3> HIDE DEF j
    <3>3. t = Main /\ t \notin Workers
      BY <1>0, <2>1, <2>3, KindAssumption
    <3>4. slots' = 1
      BY <1>0, <2>1, <3>2, <3>3
    <3>5. Batch = {}
      BY <2>1, <3>3 DEF JobsInv
    <3> QED
      BY <2>1, <3>1, <3>2, <3>3, <3>4, <3>5, JobMoves
  <2>4. CASE job[t].sig \in Writes /\ ~(Cardinality(Barriers(ledger)) + slots < Limit)
    <3> DEFINE j == [job[t] EXCEPT !.pc = "record", !.status = "denied", !.retry = FALSE]
    <3>1. /\ j \in Job /\ j.pc = "record" /\ j.slot = job[t].slot /\ j.sig = job[t].sig
          /\ j.abandoned = job[t].abandoned /\ Coherent(j, effects)
      BY <1>0, <2>1, <2>4 DEF Job, Coherent, Status
    <3>2. job' = [job EXCEPT ![t] = j] /\ slots' = slots
      BY <1>0, <1>2, <2>4 DEF Reserve, Outcome
    <3> HIDE DEF j
    <3> QED
      BY <1>1, <2>1, <3>1, <3>2
  <2> QED
    BY <2>2, <2>3, <2>4
<1>3. CASE Record(t)
  <2>1. PICK pc \in {"done", "trim"} :
            job' = [job EXCEPT ![t] = [Idle EXCEPT !.pc = pc, !.sig = job[t].sig,
                                       !.slot = job[t].slot, !.abandoned = job[t].abandoned]]
    BY <1>3 DEF Record
  <2> DEFINE j == [Idle EXCEPT !.pc = pc, !.sig = job[t].sig,
                               !.slot = job[t].slot, !.abandoned = job[t].abandoned]
  <2>2. job[t].pc = "record" /\ effects' = effects /\ slots' = slots
    BY <1>3 DEF Record
  <2>3. /\ j \in Job /\ j.pc \in {"done", "trim"} /\ j.slot = job[t].slot /\ j.sig = job[t].sig
        /\ j.abandoned = job[t].abandoned
    BY <1>0, <2>1 DEF Idle, Job
  <2>4. job' = [job EXCEPT ![t] = j]
    BY <2>1
  <2> HIDE DEF j
  <2>5. Coherent(j, effects)
    BY <2>3 DEF Coherent
  <2> QED
    BY <2>2, <2>3, <2>4, <2>5, JobGoesOn
<1>4. CASE Return(t)
  <2>1. /\ job[t].pc = "done" /\ effects' = effects /\ job' = [job EXCEPT ![t] = Idle]
        /\ slots' = IF job[t].slot THEN slots - 1 ELSE slots
    BY <1>4 DEF Return
  <2>2. /\ Idle \in Job /\ Idle.pc = "idle" /\ ~Idle.slot /\ Coherent(Idle, effects)
    BY DEF Idle, Job, Coherent
  <2>3. slots' = IF t = Main THEN (IF Idle.slot THEN 1 ELSE 0) ELSE slots
    BY <1>0, <2>1, <2>2
  <2> QED
    BY <2>1, <2>2, <2>3, JobMoves
<1>5. CASE t = Main /\ Save
  <2> DEFINE j == [job[t] EXCEPT !.pc = "save"]
  <2>1. job[t].pc = "idle" /\ Batch = {} /\ effects' = effects /\ slots' = slots
    BY <1>5 DEF Save
  <2>2. /\ j \in Job /\ j.pc = "save" /\ j.slot = job[t].slot /\ Coherent(j, effects) /\ ~j.slot
    BY <1>0, <2>1 DEF Job, Coherent
  <2>3. job' = [job EXCEPT ![t] = j]
    BY <1>0, <1>5 DEF Save, Goto
  <2> HIDE DEF j
  <2>4. slots' = IF t = Main THEN (IF j.slot THEN 1 ELSE 0) ELSE slots
    BY <1>0, <1>5, <2>1, <2>2
  <2> QED
    BY <1>0, <1>5, <2>1, <2>2, <2>3, <2>4, JobMoves
<1>6. CASE t = Main /\ SaveAssigns
  <2> DEFINE j == [job[t] EXCEPT !.pc = "idle"]
  <2>1. job[t].pc = "save" /\ effects' = effects /\ slots' = slots
    BY <1>6 DEF SaveAssigns
  <2>2. /\ j \in Job /\ j.pc = "idle" /\ j.slot = job[t].slot /\ Coherent(j, effects) /\ ~j.slot
    BY <1>0, <2>1 DEF Job, Coherent
  <2>3. job' = [job EXCEPT ![t] = j]
    BY <1>0, <1>6 DEF SaveAssigns, Goto
  <2> HIDE DEF j
  <2>4. slots' = IF t = Main THEN (IF j.slot THEN 1 ELSE 0) ELSE slots
    BY <1>0, <1>6, <2>1, <2>2
  <2> QED
    BY <1>0, <1>6, <2>1, <2>2, <2>3, <2>4, JobMoves
<1> QED
  BY <1>2, <1>3, <1>4, <1>5, <1>6

\* The tool runs: where it is a mutation, no observation is under way that the
\* main thread waits for.
LEMMA JobsInvoke ==
    ASSUME JobsInv, NEW t \in Threads, Invoke(t)
    PROVE  /\ JobsInv'
           /\ effects' \in Nat /\ effects <= effects'
<1>0. /\ job \in [Threads -> Job] /\ job[t] \in Job /\ Coherent(job[t], effects)
      /\ t \in Workers => ~job[t].slot /\ (job[t].pc # "idle" => job[t].sig \in Reads)
      /\ slots = IF job[Main].slot THEN 1 ELSE 0
      /\ Main \in Threads /\ (t \in Workers <=> t # Main)
      /\ effects \in 0..MaxEffects /\ MaxEffects \in Nat
  BY MainAssumption, LimitAssumption DEF JobsInv, Threads
<1> DEFINE j == [job[t] EXCEPT !.pc = "judge", !.invoked = TRUE, !.saw = effects']
<1>1. /\ job[t].pc = "approve" /\ job[t].sig \in Signatures
      /\ job[t].sig \in Writes => job[t].slot /\ effects < MaxEffects
      /\ effects' = IF job[t].sig \in Writes THEN effects + 1 ELSE effects
      /\ slots' = slots
  BY <1>0 DEF Invoke, Coherent
<1>2. effects' \in 0..MaxEffects /\ effects' \in Nat /\ effects <= effects'
  BY <1>0, <1>1
<1>3. job' = [job EXCEPT ![t] = j]
  BY <1>0 DEF Invoke
<1>4. /\ j \in Job /\ j.pc = "judge" /\ j.slot = job[t].slot /\ j.sig = job[t].sig
      /\ j.abandoned = job[t].abandoned /\ Coherent(j, effects')
  <2>1. /\ j \in Job /\ j.pc = "judge" /\ j.slot = job[t].slot /\ j.sig = job[t].sig
        /\ j.abandoned = job[t].abandoned /\ j.invoked /\ j.saw = effects'
    BY <1>0, <1>2 DEF Job
  <2> HIDE DEF j
  <2>2. Coherent(j, effects')
    BY <1>1, <1>2, <2>1 DEF Coherent
  <2> QED
    BY <2>1, <2>2
<1> HIDE DEF j
<1>5. CASE job[t].sig \notin Writes
  <2>1. effects' = effects
    BY <1>1, <1>5
  <2>2. JobsInv'
    BY <1>1, <1>3, <1>4, <2>1, JobGoesOn
  <2> QED
    BY <1>2, <2>2
<1>6. CASE job[t].sig \in Writes
  <2>1. t = Main
    BY <1>0, <1>1, <1>6, KindAssumption
  <2>2. Batch = {}
    BY <1>1, <2>1 DEF JobsInv
  <2>3. /\ job' \in [Threads -> Job] /\ job'[t] = j
        /\ \A u \in Threads : u # t => job'[u] = job[u]
    BY <1>0, <1>3, <1>4
  <2>4. ASSUME NEW u \in Threads, u # t
        PROVE  Coherent(job'[u], effects')
    <3>1. u \in Workers /\ job'[u] = job[u] /\ Coherent(job[u], effects) /\ job[u] \in Job
      BY <2>1, <2>3, <2>4, <1>0 DEF Threads, JobsInv
    <3>2. job[u].pc # "idle" => job[u].sig \in Reads /\ job[u].abandoned
      BY <2>2, <3>1 DEF JobsInv, Batch
    <3>3. job[u].pc # "idle" => job[u].sig \notin Writes
      BY <3>2, KindAssumption
    <3>4. job[u].saw \in Nat /\ effects \in Nat
      BY <1>0, <3>1 DEF Job
    <3> QED
      BY <1>2, <3>1, <3>2, <3>3, <3>4 DEF Coherent
  <2>5. \A u \in Threads : Coherent(job'[u], effects')
    BY <1>4, <2>3, <2>4
  <2>6. \A w \in Workers : job'[w] = job[w]
    BY <2>1, <2>3, MainAssumption DEF Threads
  <2>7. (Batch # {})' => job'[Main].pc = "idle"
    BY <2>2, <2>6 DEF Batch
  <2>8. slots' = IF job'[Main].slot THEN 1 ELSE 0
    BY <1>0, <1>1, <1>4, <2>1, <2>3
  <2>9. \A w \in Workers : /\ job'[w].pc # "save" /\ ~job'[w].slot
                           /\ job'[w].pc # "idle" => job'[w].sig \in Reads
    BY <2>6 DEF JobsInv
  <2>10. JobsInv'
    BY <1>2, <2>3, <2>5, <2>7, <2>8, <2>9 DEF JobsInv
  <2> QED
    BY <1>2, <2>10
<1> QED
  BY <1>5, <1>6

\* An interrupt abandons the pool.
LEMMA JobsAbandon ==
    ASSUME JobsInv, Abandon
    PROVE  /\ JobsInv' /\ job'[Main] = job[Main] /\ job[Main].pc = "idle"
           /\ \A t \in Threads : job'[t].pc = job[t].pc
<1>0. /\ job \in [Threads -> Job] /\ Main \in Threads /\ Main \notin Batch
      /\ Workers \subseteq Threads
      /\ effects' = effects /\ slots' = slots
  BY MainAssumption DEF JobsInv, Threads, Batch, Abandon
<1>1. ASSUME NEW t \in Threads
      PROVE  /\ job'[t] \in Job
             /\ job'[t].pc = job[t].pc /\ job'[t].sig = job[t].sig /\ job'[t].status = job[t].status
             /\ job'[t].retry = job[t].retry /\ job'[t].invoked = job[t].invoked
             /\ job'[t].slot = job[t].slot /\ job'[t].saw = job[t].saw
             /\ job'[t].abandoned = (job[t].abandoned \/ t \in Batch)
  <2>1. job[t] \in Job /\ job'[t] = IF t \in Batch THEN [job[t] EXCEPT !.abandoned = TRUE] ELSE job[t]
    BY <1>0 DEF Abandon
  <2>2. CASE t \in Batch
    BY <2>1, <2>2 DEF Job
  <2>3. CASE t \notin Batch
    BY <2>1, <2>3 DEF Job
  <2> QED
    BY <2>2, <2>3
<1>2. job' = [t \in Threads |-> IF t \in Batch THEN [job[t] EXCEPT !.abandoned = TRUE] ELSE job[t]]
  BY DEF Abandon
<1>3. job' \in [Threads -> Job] /\ job'[Main] = job[Main]
  <2>1. DOMAIN job' = Threads /\ \A t \in Threads : job'[t] \in Job
    BY <1>1, <1>2
  <2> QED
    BY <1>0, <1>2, <2>1
<1>4. ASSUME NEW t \in Threads
      PROVE  Coherent(job'[t], effects)
  <2>1. Coherent(job[t], effects)
    BY DEF JobsInv
  <2>2. ~job'[t].abandoned => ~job[t].abandoned
    BY <1>1
  <2> QED
    BY <1>1, <2>1, <2>2 DEF Coherent
<1>5. \A w \in Workers : /\ job'[w].pc # "save" /\ ~job'[w].slot
                         /\ job'[w].pc # "idle" => job'[w].sig \in Reads
  BY <1>0, <1>1 DEF JobsInv
<1>6. (Batch # {})' => job'[Main].pc = "idle"
  <2>1. job[Main].pc = "idle"
    BY DEF JobsInv, Abandon
  <2> QED
    BY <1>3, <2>1
<1>7. JobsInv'
  BY <1>0, <1>3, <1>4, <1>5, <1>6 DEF JobsInv
<1>8. job[Main].pc = "idle"
  BY DEF JobsInv, Abandon
<1> QED
  BY <1>1, <1>3, <1>7, <1>8

-----------------------------------------------------------------------------
(* The ledger under the steps of the dispatches *)

\* A sound ledger stays sound while mutations take effect.
LEMMA SoundLater ==
    ASSUME NEW n \in Nat, NEW m \in Nat, n <= m, NEW l, Sound(l, n)
    PROVE  Sound(l, m)
<1>1. \A i \in DOMAIN l : l[i].at \in Nat
  <2>1. \A i \in DOMAIN l : l[i] \in Entry
    BY DEF Sound
  <2>2. \A e \in Entry : e.at \in Nat
    BY DEF Entry
  <2> QED
    BY <2>1, <2>2
<1> QED
  BY <1>1 DEF Sound

\* A step that leaves ledger and saves alone.
LEMMA QuietKeeps ==
    ASSUME IInv, JobsInv', UNCHANGED <<ledger, saved, open>>,
           effects' \in Nat, effects <= effects',
           Cleared(job'[Main]) => \/ Cleared(job[Main]) /\ job'[Main].sig = job[Main].sig
                                  \/ \A i \in Uncertain(ledger) : ledger[i].sig # job'[Main].sig,
           Pending(job'[Main]) => Pending(job[Main]) \/ Cardinality(Owed(ledger)) + 1 <= Limit,
           \A t \in Threads : job[t].pc = "trim" => job'[t].pc = "trim",
           job'[Main].pc = "save" => job[Main].pc = "save"
    PROVE  IInv'
<1>0. effects \in Nat
  BY DEF IInv, JobsInv
<1>1. Sound(ledger, effects') /\ Sound(saved, effects')
  BY <1>0, SoundLater DEF IInv, LedgerInv, SavedInv
<1>2. Unlocked' => Unlocked
  BY DEF Unlocked
<1>3. \A i \in Uncertain(ledger) : Cleared(job'[Main]) => ledger[i].sig # job'[Main].sig
  BY DEF IInv, LedgerInv
<1>4. Cardinality(Owed(ledger)) + (IF Pending(job'[Main]) THEN 1 ELSE 0) <= Limit
  <2>1. /\ Cardinality(Owed(ledger)) \in Nat /\ Limit \in Nat
        /\ Cardinality(Owed(ledger)) + (IF Pending(job[Main]) THEN 1 ELSE 0) <= Limit
    BY PositionsFinite, LimitAssumption DEF IInv, LedgerInv, Sound
  <2> QED
    BY <2>1
<1>5. Len(ledger) > Limit /\ Unlocked' => Uncertain(ledger) = DOMAIN ledger
  BY <1>2 DEF IInv, LedgerInv
<1>6. LedgerInv'
  BY <1>1, <1>3, <1>4, <1>5 DEF LedgerInv
<1>7. SavedInv'
  BY <1>1 DEF IInv, SavedInv
<1>8. OpenInv'
  BY DEF IInv, OpenInv
<1> QED
  BY <1>6, <1>7, <1>8 DEF IInv

\* The lookup lets an action pass only where nothing bars it.
LEMMA BarredIsBlocked ==
    ASSUME NEW l \in Seq(Entry), Tidy(l), NEW i \in Uncertain(l)
    PROVE  i \in Blocking(l, l[i].sig)
<1>1. i \in DOMAIN l /\ NonRetryable(l[i]) /\ DOMAIN l = 1..Len(l) /\ Len(l) \in Nat
  BY DEF Uncertain
<1>2. i \in Decisive(l, l[i].sig)
  BY <1>1 DEF Decisive, NonRetryable
<1>3. ASSUME NEW j \in Decisive(l, l[i].sig)
      PROVE  j <= i
  <2>1. j \in DOMAIN l /\ l[j].sig = l[i].sig /\ l[j].status \notin {"skipped", "denied"}
    BY DEF Decisive
  <2>2. ~(j > i)
    BY <2>1 DEF Tidy
  <2> QED
    BY <1>1, <2>1, <2>2
<1> QED
  BY <1>1, <1>2, <1>3 DEF Blocking

\* Where a dispatch goes, and what it takes along.
MovesTo(t, pcs) ==
    /\ \A u \in Threads : u # t => job'[u] = job[u]
    /\ job'[t].pc \in pcs /\ job'[t].sig = job[t].sig

LEMMA QuietMoves ==
    ASSUME NEW t \in Threads, job \in [Threads -> Job]
    PROVE  /\ PreflightDenies(t) => /\ job[t].pc = "lookup" /\ MovesTo(t, {"record"})
                                    /\ job'[t].slot = job[t].slot /\ job'[t].status = "denied"
           /\ Lookup(t) => /\ job[t].pc = "lookup" /\ job'[t].slot = job[t].slot
                           /\ \/ MovesTo(t, {"record"}) /\ job'[t].status = "skipped"
                              \/ MovesTo(t, {"reserve"}) /\ Blocking(ledger, job[t].sig) = {}
           /\ Reserve(t) => /\ job[t].pc = "reserve"
                            /\ \/ /\ MovesTo(t, {"approve"}) /\ job[t].sig \in Writes
                                  /\ Cardinality(Barriers(ledger)) + slots < Limit
                               \/ MovesTo(t, {"approve"}) /\ job'[t].slot = job[t].slot
                               \/ /\ MovesTo(t, {"record"})
                                  /\ job'[t].slot = job[t].slot /\ job'[t].status = "denied"
           /\ NotInvoked(t) => /\ job[t].pc = "approve" /\ MovesTo(t, {"record"})
                               /\ job'[t].slot = job[t].slot
           /\ Invoke(t) => /\ job[t].pc = "approve" /\ MovesTo(t, {"judge"})
                           /\ job'[t].slot = job[t].slot
           /\ Judge(t) => /\ job[t].pc = "judge" /\ MovesTo(t, {"record"})
                          /\ job'[t].slot = job[t].slot
           /\ Return(t) => /\ job[t].pc = "done" /\ job'[t].pc = "idle" /\ ~job'[t].slot
                           /\ \A u \in Threads : u # t => job'[u] = job[u]
           /\ Trim(t) => /\ job[t].pc = "trim" /\ MovesTo(t, {"done"})
<1>1. ASSUME NEW status, NEW retry, Outcome(t, status, retry)
      PROVE  MovesTo(t, {"record"}) /\ job'[t].slot = job[t].slot /\ job'[t].status = status
  BY <1>1 DEF Outcome, MovesTo, Job
<1>2. ASSUME NEW pc, Goto(t, pc)
      PROVE  MovesTo(t, {pc}) /\ job'[t].slot = job[t].slot
  BY <1>2 DEF Goto, MovesTo, Job
<1>3. ASSUME PreflightDenies(t)
      PROVE  /\ job[t].pc = "lookup" /\ MovesTo(t, {"record"})
             /\ job'[t].slot = job[t].slot /\ job'[t].status = "denied"
  BY <1>1, <1>3 DEF PreflightDenies
<1>4. ASSUME Lookup(t)
      PROVE  /\ job[t].pc = "lookup" /\ job'[t].slot = job[t].slot
             /\ \/ MovesTo(t, {"record"}) /\ job'[t].status = "skipped"
                \/ MovesTo(t, {"reserve"}) /\ Blocking(ledger, job[t].sig) = {}
  BY <1>1, <1>2, <1>4 DEF Lookup
<1>5. ASSUME Reserve(t)
      PROVE  /\ job[t].pc = "reserve"
             /\ \/ /\ MovesTo(t, {"approve"}) /\ job[t].sig \in Writes
                   /\ Cardinality(Barriers(ledger)) + slots < Limit
                \/ MovesTo(t, {"approve"}) /\ job'[t].slot = job[t].slot
                \/ /\ MovesTo(t, {"record"})
                   /\ job'[t].slot = job[t].slot /\ job'[t].status = "denied"
  <2>1. job[t].pc = "reserve"
    BY <1>5 DEF Reserve
  <2>2. CASE job[t].sig \notin Writes
    BY <1>2, <1>5, <2>1, <2>2 DEF Reserve
  <2>3. CASE job[t].sig \in Writes /\ Cardinality(Barriers(ledger)) + slots < Limit
    <3>1. job' = [job EXCEPT ![t].pc = "approve", ![t].slot = TRUE]
      BY <1>5, <2>3 DEF Reserve
    <3>2. MovesTo(t, {"approve"})
      BY <3>1 DEF MovesTo, Job
    <3> QED
      BY <2>1, <2>3, <3>2
  <2>4. CASE job[t].sig \in Writes /\ ~(Cardinality(Barriers(ledger)) + slots < Limit)
    BY <1>1, <1>5, <2>1, <2>4 DEF Reserve
  <2> QED
    BY <2>2, <2>3, <2>4
<1>6. ASSUME NotInvoked(t)
      PROVE  job[t].pc = "approve" /\ MovesTo(t, {"record"}) /\ job'[t].slot = job[t].slot
  BY <1>1, <1>6 DEF NotInvoked
<1>7. ASSUME Invoke(t)
      PROVE  job[t].pc = "approve" /\ MovesTo(t, {"judge"}) /\ job'[t].slot = job[t].slot
  BY <1>7 DEF Invoke, MovesTo, Job
<1>8. ASSUME Judge(t)
      PROVE  job[t].pc = "judge" /\ MovesTo(t, {"record"}) /\ job'[t].slot = job[t].slot
  BY <1>1, <1>8 DEF Judge
<1>9. ASSUME Return(t)
      PROVE  /\ job[t].pc = "done" /\ job'[t].pc = "idle" /\ ~job'[t].slot
             /\ \A u \in Threads : u # t => job'[u] = job[u]
  BY <1>9 DEF Return, Idle
<1>10. ASSUME Trim(t)
       PROVE  job[t].pc = "trim" /\ MovesTo(t, {"done"})
  BY <1>2, <1>10 DEF Trim
<1> QED
  BY <1>3, <1>4, <1>5, <1>6, <1>7, <1>8, <1>9, <1>10

\* The steps of a dispatch that leave the ledger alone.
LEMMA QuietSteps ==
    ASSUME IInv, NEW t \in Threads,
           \/ PreflightDenies(t) \/ Lookup(t) \/ Reserve(t) \/ NotInvoked(t)
           \/ Invoke(t) \/ Judge(t) \/ Return(t)
    PROVE  IInv'
<1>0. /\ JobsInv /\ job \in [Threads -> Job] /\ Main \in Threads /\ effects \in Nat
      /\ \A u \in Threads : job[u] \in Job /\ Coherent(job[u], effects)
      /\ ledger \in Seq(Entry) /\ Tidy(ledger)
  BY DEF IInv, JobsInv, LedgerInv, Sound, Threads
<1>1. JobsInv' /\ effects' \in Nat /\ effects <= effects'
  <2>1. CASE Invoke(t)
    BY <1>0, <2>1, JobsInvoke
  <2>2. CASE ~Invoke(t)
    <3>1. effects' = effects
      BY <2>2 DEF PreflightDenies, Lookup, Reserve, NotInvoked, Judge, Return
    <3>2. JobsInv'
      BY <1>0, <2>2, JobsWithin, JobsSlots
    <3> QED
      BY <1>0, <3>1, <3>2
  <2> QED
    BY <2>1, <2>2
<1>2. UNCHANGED <<ledger, saved, open>>
  BY DEF PreflightDenies, Lookup, Reserve, NotInvoked, Invoke, Judge, Return
<1>3. /\ \A u \in Threads : u # t => job'[u] = job[u]
      /\ job[t].pc # "trim" /\ job'[t].pc # "save"
  BY <1>0, QuietMoves DEF MovesTo
<1>4. \A u \in Threads : job[u].pc = "trim" => job'[u].pc = "trim"
  BY <1>3
<1>5. job'[Main].pc = "save" => job[Main].pc = "save"
  BY <1>0, <1>3
<1>6. Cleared(job'[Main]) => \/ Cleared(job[Main]) /\ job'[Main].sig = job[Main].sig
                             \/ \A i \in Uncertain(ledger) : ledger[i].sig # job'[Main].sig
  <2>1. CASE t # Main
    BY <1>3, <2>1, <1>0
  <2>2. CASE t = Main /\ PreflightDenies(t)
    BY <1>0, <2>2, QuietMoves DEF MovesTo, Cleared
  <2>3. CASE t = Main /\ Lookup(t)
    <3>1. CASE MovesTo(t, {"record"}) /\ job'[t].status = "skipped"
      BY <2>3, <3>1 DEF MovesTo, Cleared
    <3>2. CASE MovesTo(t, {"reserve"}) /\ Blocking(ledger, job[t].sig) = {}
      <4>1. \A i \in Uncertain(ledger) : ledger[i].sig # job[t].sig
        BY <1>0, <3>2, BarredIsBlocked
      <4> QED
        BY <2>3, <3>2, <4>1 DEF MovesTo
    <3> QED
      BY <1>0, <2>3, <3>1, <3>2, QuietMoves
  <2>4. CASE t = Main /\ (Reserve(t) \/ NotInvoked(t) \/ Invoke(t) \/ Judge(t))
    <3>1. job'[t].sig = job[t].sig /\ job[t].pc \in {"reserve", "approve", "judge"}
      BY <1>0, <2>4, QuietMoves DEF MovesTo
    <3> QED
      BY <2>4, <3>1 DEF Cleared
  <2>5. CASE t = Main /\ Return(t)
    BY <1>0, <2>5, QuietMoves DEF Cleared
  <2> QED
    BY <2>1, <2>2, <2>3, <2>4, <2>5
<1>7. Pending(job'[Main]) => Pending(job[Main]) \/ Cardinality(Owed(ledger)) + 1 <= Limit
  <2>1. CASE t # Main
    BY <1>3, <2>1, <1>0
  <2>2. CASE t = Main /\ (PreflightDenies(t) \/ Lookup(t))
    <3>1. job[t].pc = "lookup" /\ job'[t].slot = job[t].slot
      BY <1>0, <2>2, QuietMoves
    <3> QED
      BY <1>0, <2>2, <3>1 DEF Pending, Coherent
  <2>3. CASE t = Main /\ Reserve(t)
    <3>1. job[t].pc = "reserve" /\ ~job[Main].slot /\ slots = 0
      BY <1>0, <2>3 DEF Reserve, Coherent, JobsInv
    <3>2. CASE Cardinality(Barriers(ledger)) + slots < Limit
      <4>1. Barriers(ledger) = Uncertain(ledger)
        BY <1>0, BarriersAreUncertain
      <4>2. /\ Cardinality(Owed(ledger)) <= Cardinality(Uncertain(ledger))
            /\ Cardinality(Owed(ledger)) \in Nat /\ Cardinality(Uncertain(ledger)) \in Nat
            /\ Limit \in Nat
        BY <1>0, PositionsFinite, LimitAssumption
      <4> QED
        BY <3>1, <3>2, <4>1, <4>2
    <3>3. CASE job'[t].slot = job[t].slot
      BY <2>3, <3>1, <3>3 DEF Pending
    <3> QED
      BY <1>0, <2>3, <3>2, <3>3, QuietMoves
  <2>4. CASE t = Main /\ (NotInvoked(t) \/ Invoke(t) \/ Judge(t))
    <3>1. job'[t].slot = job[t].slot /\ job[t].pc \in {"approve", "judge"}
      BY <1>0, <2>4, QuietMoves
    <3> QED
      BY <2>4, <3>1 DEF Pending
  <2>5. CASE t = Main /\ Return(t)
    BY <1>0, <2>5, QuietMoves DEF Pending
  <2> QED
    BY <2>1, <2>2, <2>3, <2>4, <2>5
<1> QED
  BY <1>1, <1>2, <1>4, <1>5, <1>6, <1>7, QuietKeeps

-----------------------------------------------------------------------------
(* The ledger under its own operations *)

\* A record: the ledger after it, trimmed or not yet.
LEMMA RecordKeeps ==
    ASSUME IInv, NEW t \in Threads, Record(t)
    PROVE  IInv'
<1> DEFINE j == job[t]
           e == [sig |-> j.sig, status |-> j.status, retry |-> j.retry,
                 reconciled |-> FALSE, fresh |-> j.status = "failed",
                 at |-> IF j.status = "unknown_outcome" THEN j.saw ELSE 0]
           n == effects
<1>0. /\ JobsInv /\ job \in [Threads -> Job] /\ Main \in Threads /\ n \in Nat
      /\ j \in Job /\ Coherent(j, n) /\ j.pc = "record"
      /\ t # Main => t \in Workers /\ j.sig \in Reads /\ j.sig \notin Writes
      /\ Sound(ledger, n) /\ ledger \in Seq(Entry) /\ Tidy(ledger)
  <2>1. JobsInv /\ j.pc = "record" /\ Sound(ledger, n) /\ Main \in Threads
    BY DEF IInv, LedgerInv, Record, Threads
  <2>2. /\ job \in [Threads -> Job] /\ n \in Nat /\ j \in Job /\ Coherent(j, n)
        /\ t # Main => t \in Workers /\ j.sig \in Reads
    BY <2>1 DEF JobsInv, Threads
  <2> QED
    BY <2>1, <2>2, KindAssumption DEF Sound
<1>1. PICK changed \in (IF j.invoked /\ j.sig \in Writes THEN BOOLEAN ELSE {FALSE}) :
          ledger' = IF t = Main /\ ~Coalesced(ledger, e) THEN Retain(Recorded(ledger, e, changed))
                                                         ELSE Recorded(ledger, e, changed)
  BY DEF Record
<1>2. /\ e.sig = j.sig /\ e.status = j.status /\ e.retry = j.retry /\ ~e.reconciled
      /\ e.at = IF j.status = "unknown_outcome" THEN j.saw ELSE 0
  OBVIOUS
<1>3. /\ open' = StillOpen(open, e)
      /\ Unlocked /\ saved' = saved /\ effects' = n
      /\ job' = [job EXCEPT ![t] = [Idle EXCEPT !.pc = IF t = Main \/ Coalesced(ledger, e) THEN "done" ELSE "trim",
                                                !.sig = j.sig, !.slot = j.slot, !.abandoned = j.abandoned]]
  BY DEF Record, StillOpen
<1>4. e \in Entry
  BY <1>0 DEF Coherent, Job, Entry
<1> HIDE DEF e, j, n
<1>5. /\ e.at <= n
      /\ NonRetryable(e) => e.sig \notin Reads /\ (e.sig \in Writes => j.slot)
      /\ e.status = "unknown_outcome" => e.sig \in Writes
      /\ e.status \in {"skipped", "denied"} => ~j.invoked
  <2>1. j.saw \in Nat
    BY <1>0 DEF Job
  <2> QED
    BY <1>0, <1>2, <2>1, KindAssumption DEF Coherent, NonRetryable
<1>6. e.status \notin {"skipped", "denied"} => \A i \in Uncertain(ledger) : ledger[i].sig # e.sig
  <2>1. CASE t = Main
    BY <1>0, <1>2, <2>1 DEF IInv, LedgerInv, Cleared, j
  <2>2. CASE t # Main
    BY <1>0, <1>2, <2>2 DEF Tidy
  <2> QED
    BY <2>1, <2>2
<1> DEFINE m == Recorded(ledger, e, changed)
           one == IF NonRetryable(e) /\ e.sig \in Writes THEN 1 ELSE 0
<1>7. changed \in BOOLEAN
  BY <1>1
<1>8. /\ Sound(m, n)
      /\ Cardinality(Owed(m)) <= Cardinality(Owed(ledger)) + one
      /\ FromOrOf(m, ledger, e.sig)
      /\ Covers(ledger, open) => Covers(m, StillOpen(open, e))
  BY <1>0, <1>2, <1>4, <1>5, <1>6, <1>7, RecordedSound
<1>9. Coalesced(ledger, e) => m = ledger
  <2>1. Coalesced(ledger, e) => e.status \in {"skipped", "denied"}
    BY DEF Coalesced
  <2>2. Coalesced(ledger, e) => ~changed
    BY <1>1, <1>5, <2>1
  <2> QED
    BY <2>2 DEF Recorded
<1> HIDE DEF m, one
<1>10. /\ Sound(ledger', n)
       /\ Cardinality(Owed(ledger')) <= Cardinality(Owed(ledger)) + one
       /\ FromOrOf(ledger', ledger, e.sig)
       /\ Covers(ledger', open')
  <2>0. Covers(m, open')
    BY <1>3, <1>8 DEF IInv, OpenInv
  <2>1. CASE t = Main /\ ~Coalesced(ledger, e)
    <3>1. ledger' = Retain(m)
      BY <1>1, <2>1 DEF m
    <3>2. Thinned(m, Retain(m), n) /\ Covers(Retain(m), open')
      BY <1>0, <1>8, <2>0, RetainSound
    <3>3. /\ Sound(Retain(m), n) /\ Cardinality(Owed(Retain(m))) <= Cardinality(Owed(m))
          /\ \A k \in Uncertain(Retain(m)) : \E i \in Uncertain(m) : Retain(m)[k].sig = m[i].sig
      BY <3>2 DEF Thinned
    <3>4. FromOrOf(Retain(m), ledger, e.sig)
      BY <1>8, <3>3 DEF FromOrOf
    <3>5. /\ Cardinality(Owed(Retain(m))) \in Nat /\ Cardinality(Owed(m)) \in Nat
          /\ Cardinality(Owed(ledger)) \in Nat /\ one \in Nat
      BY <1>0, <1>8, <3>3, PositionsFinite DEF Sound, one
    <3>6. Cardinality(Owed(Retain(m))) <= Cardinality(Owed(ledger)) + one
      BY <1>8, <3>3, <3>5
    <3> QED
      BY <3>1, <3>2, <3>3, <3>4, <3>6
  <2>2. CASE ~(t = Main /\ ~Coalesced(ledger, e))
    <3>1. ledger' = m
      BY <1>1, <2>2 DEF m
    <3> QED
      BY <1>8, <2>0, <3>1
  <2> QED
    BY <2>1, <2>2
<1>11. JobsInv'
  BY <1>0, JobsSlots
<1>12. /\ \A u \in Threads : u # t => job'[u] = job[u]
       /\ job'[t].pc = IF t = Main \/ Coalesced(ledger, e) THEN "done" ELSE "trim"
  BY <1>0, <1>3 DEF Idle
<1>13. \A k \in Uncertain(ledger') : Cleared(job'[Main]) => ledger'[k].sig # job'[Main].sig
  <2>1. CASE t = Main
    BY <1>12, <2>1 DEF Cleared
  <2>2. CASE t # Main
    <3>1. job'[Main] = job[Main]
      BY <1>0, <1>12, <2>2
    <3>2. \A k \in Uncertain(ledger') : ledger'[k].sig # e.sig
      BY <1>0, <1>2, <1>10, <2>2 DEF Sound, Tidy
    <3>3. \A k \in Uncertain(ledger') : \E i \in Uncertain(ledger) : ledger'[k].sig = ledger[i].sig
      BY <1>10, <3>2 DEF FromOrOf
    <3> QED
      BY <3>1, <3>3 DEF IInv, LedgerInv
  <2> QED
    BY <2>1, <2>2
<1>14. Cardinality(Owed(ledger')) + (IF Pending(job'[Main]) THEN 1 ELSE 0) <= Limit
  <2>0. /\ Cardinality(Owed(ledger)) \in Nat /\ Cardinality(Owed(ledger')) \in Nat /\ Limit \in Nat
        /\ Cardinality(Owed(ledger)) + (IF Pending(job[Main]) THEN 1 ELSE 0) <= Limit
    BY <1>0, <1>10, PositionsFinite, LimitAssumption DEF IInv, LedgerInv, Sound
  <2>1. CASE t = Main
    <3>1. ~Pending(job'[Main])
      BY <1>12, <2>1 DEF Pending
    <3>2. one = 1 => Pending(job[Main])
      BY <1>0, <1>2, <1>5, <2>1 DEF Pending, one, j
    <3>3. one \in {0, 1}
      BY DEF one
    <3> QED
      BY <1>10, <2>0, <3>1, <3>2, <3>3
  <2>2. CASE t # Main
    <3>1. job'[Main] = job[Main]
      BY <1>0, <1>12, <2>2
    <3>2. one = 0
      BY <1>0, <1>2, <2>2 DEF one
    <3> QED
      BY <1>10, <2>0, <3>1, <3>2
  <2> QED
    BY <2>1, <2>2
<1>15. Len(ledger') > Limit /\ Unlocked' => Uncertain(ledger') = DOMAIN ledger'
  <2>1. CASE Coalesced(ledger, e)
    <3>1. ledger' = ledger
      BY <1>1, <1>9, <2>1 DEF m
    <3> QED
      BY <1>3, <3>1 DEF IInv, LedgerInv
  <2>2. CASE ~Coalesced(ledger, e) /\ t = Main
    <3>1. ledger' = Retain(m)
      BY <1>1, <2>2 DEF m
    <3> QED
      BY <1>0, <1>8, <3>1, RetainSound
  <2>3. CASE ~Coalesced(ledger, e) /\ t # Main
    BY <1>12, <2>3 DEF Unlocked
  <2> QED
    BY <2>1, <2>2, <2>3
<1>16. LedgerInv'
  BY <1>3, <1>10, <1>13, <1>14, <1>15 DEF LedgerInv
<1>17. SavedInv'
  BY <1>3 DEF IInv, SavedInv, n
<1>18. OpenInv'
  <2>1. open' \subseteq Writes
    BY <1>3, <1>5 DEF StillOpen, IInv, OpenInv
  <2>2. job'[Main].pc = "save" => Covers(saved', open')
    <3>1. CASE t = Main
      BY <1>12, <3>1
    <3>2. CASE t # Main
      <4>1. e.status # "unknown_outcome" /\ job'[Main] = job[Main]
        BY <1>0, <1>2, <1>5, <1>12, <3>2
      <4>2. open' \subseteq open
        BY <1>3, <4>1 DEF StillOpen
      <4> QED
        BY <1>3, <4>1, <4>2 DEF IInv, OpenInv, Covers
    <3> QED
      BY <3>1, <3>2
  <2> QED
    BY <1>10, <2>1, <2>2 DEF OpenInv
<1> QED
  BY <1>11, <1>16, <1>17, <1>18 DEF IInv

\* The trimming that a worker owes.
LEMMA TrimKeeps ==
    ASSUME IInv, NEW t \in Threads, Trim(t)
    PROVE  IInv'
<1>0. /\ JobsInv /\ job \in [Threads -> Job] /\ Main \in Threads /\ effects \in Nat
      /\ Sound(ledger, effects) /\ ledger \in Seq(Entry)
  BY DEF IInv, JobsInv, LedgerInv, Sound, Threads
<1>1. JobsInv'
  BY <1>0, JobsWithin
<1>2. /\ job[t].pc = "trim" /\ MovesTo(t, {"done"})
      /\ ledger' = Retain(ledger) /\ effects' = effects /\ saved' = saved /\ open' = open
  BY <1>0, QuietMoves DEF Trim
<1>3. /\ Thinned(ledger, ledger', effects)
      /\ Len(ledger') > Limit => Uncertain(ledger') = DOMAIN ledger'
      /\ Covers(ledger', open)
  BY <1>0, <1>2, RetainSound DEF IInv, OpenInv
<1>4. /\ Cleared(job'[Main]) => Cleared(job[Main]) /\ job'[Main].sig = job[Main].sig
      /\ Pending(job'[Main]) => Pending(job[Main])
      /\ job'[Main].pc = "save" => job[Main].pc = "save"
  BY <1>0, <1>2 DEF MovesTo, Cleared, Pending
<1>5. LedgerInv'
  <2>1. Sound(ledger', effects')
    BY <1>2, <1>3 DEF Thinned
  <2>2. \A k \in Uncertain(ledger') : Cleared(job'[Main]) => ledger'[k].sig # job'[Main].sig
    BY <1>3, <1>4 DEF Thinned, IInv, LedgerInv
  <2>3. Cardinality(Owed(ledger')) + (IF Pending(job'[Main]) THEN 1 ELSE 0) <= Limit
    <3>1. /\ Cardinality(Owed(ledger)) \in Nat /\ Cardinality(Owed(ledger')) \in Nat /\ Limit \in Nat
          /\ Cardinality(Owed(ledger)) + (IF Pending(job[Main]) THEN 1 ELSE 0) <= Limit
          /\ Cardinality(Owed(ledger')) <= Cardinality(Owed(ledger))
      BY <1>0, <1>3, <2>1, PositionsFinite, LimitAssumption DEF IInv, LedgerInv, Sound, Thinned
    <3> QED
      BY <1>4, <3>1
  <2> QED
    BY <1>3, <2>1, <2>2, <2>3 DEF LedgerInv
<1>6. SavedInv' /\ OpenInv'
  BY <1>2, <1>3, <1>4 DEF IInv, SavedInv, OpenInv
<1> QED
  BY <1>1, <1>5, <1>6 DEF IInv

\* A dispatch starts, or an interrupt abandons the pool.
LEMMA StartsAndInterruptsKeep ==
    ASSUME IInv, \/ \E s \in Signatures : Dispatch(s)
                 \/ \E w \in Workers, r \in Reads : Submit(w, r)
                 \/ Abandon
    PROVE  IInv'
<1>0. JobsInv /\ job \in [Threads -> Job] /\ Main \in Threads /\ Workers \subseteq Threads /\ effects \in Nat
  BY DEF IInv, JobsInv, Threads
<1>1. ASSUME NEW t \in Threads, NEW s, job[t].pc = "idle",
             job' = [job EXCEPT ![t] = [Idle EXCEPT !.pc = "lookup", !.sig = s]],
             UNCHANGED <<ledger, effects, saved, open>>, JobsInv'
      PROVE  IInv'
  <2>1. /\ \A u \in Threads : u # t => job'[u] = job[u]
        /\ job'[t].pc = "lookup"
    BY <1>0, <1>1 DEF Idle
  <2>2. /\ \A u \in Threads : job[u].pc = "trim" => job'[u].pc = "trim"
        /\ job'[Main].pc = "save" => job[Main].pc = "save"
        /\ Cleared(job'[Main]) => Cleared(job[Main]) /\ job'[Main].sig = job[Main].sig
        /\ Pending(job'[Main]) => Pending(job[Main])
    BY <1>0, <1>1, <2>1 DEF Cleared, Pending
  <2> QED
    BY <1>0, <1>1, <2>2, QuietKeeps
<1>2. CASE \E s \in Signatures : Dispatch(s)
  <2>1. JobsInv'
    BY <1>0, <1>2, JobsDispatch
  <2> QED
    BY <1>0, <1>1, <1>2, <2>1 DEF Dispatch
<1>3. CASE \E w \in Workers, r \in Reads : Submit(w, r)
  <2>1. JobsInv'
    BY <1>0, <1>3, JobsDispatch
  <2> QED
    BY <1>0, <1>1, <1>3, <2>1 DEF Submit
<1>4. CASE Abandon
  <2>1. /\ JobsInv' /\ job'[Main] = job[Main]
        /\ \A t \in Threads : job'[t].pc = job[t].pc
    BY <1>0, <1>4, JobsAbandon
  <2>2. UNCHANGED <<ledger, saved, open, effects>>
    BY <1>4 DEF Abandon
  <2> QED
    BY <1>0, <2>1, <2>2, QuietKeeps
<1> QED
  BY <1>2, <1>3, <1>4

\* Failures grow old: nothing that bars a retry depends on it.
LEMMA AgeKeeps ==
    ASSUME IInv, Age
    PROVE  IInv'
<1>1. /\ ledger \in Seq(Entry) /\ DOMAIN ledger = 1..Len(ledger) /\ Len(ledger) \in Nat
      /\ UNCHANGED <<slots, job, effects, saved, open>>
  BY DEF IInv, LedgerInv, Sound, Age
<1>2. ledger' = [i \in DOMAIN ledger |-> [ledger[i] EXCEPT !.fresh = FALSE]]
  BY DEF Age
<1>3. ASSUME NEW i \in DOMAIN ledger
      PROVE  /\ ledger'[i] \in Entry /\ ledger'[i].sig = ledger[i].sig
             /\ ledger'[i].status = ledger[i].status /\ ledger'[i].at = ledger[i].at
             /\ ledger'[i].reconciled = ledger[i].reconciled /\ ledger'[i].retry = ledger[i].retry
  <2>1. ledger[i] \in Entry /\ ledger'[i] = [ledger[i] EXCEPT !.fresh = FALSE]
    BY <1>1, <1>2
  <2> QED
    BY <2>1 DEF Entry
<1>4. ledger' \in Seq(Entry) /\ DOMAIN ledger' = DOMAIN ledger /\ Len(ledger') = Len(ledger)
  <2>1. DOMAIN ledger' = DOMAIN ledger
    BY <1>2
  <2>2. ledger' \in [1..Len(ledger) -> Entry]
    BY <1>1, <1>2, <1>3
  <2>3. ledger' \in Seq(Entry)
    BY <1>1, <2>2
  <2>4. DOMAIN ledger' = 1..Len(ledger') /\ Len(ledger') \in Nat
    BY <2>3
  <2> QED
    BY <1>1, <2>1, <2>3, <2>4
<1>5. \A i \in DOMAIN ledger : NonRetryable(ledger'[i]) <=> NonRetryable(ledger[i])
  BY <1>3 DEF NonRetryable
<1>6. Uncertain(ledger') = Uncertain(ledger)
  BY <1>4, <1>5 DEF Uncertain
<1>7. Owed(ledger') = Owed(ledger)
  <2>1. \A i \in Uncertain(ledger) : ledger'[i].sig = ledger[i].sig
    BY <1>3 DEF Uncertain
  <2> QED
    BY <1>6, <2>1 DEF Owed
<1>8. Sound(ledger', effects)
  <2>1. Sound(ledger, effects) /\ \A i \in Uncertain(ledger) : i \in DOMAIN ledger
    BY DEF IInv, LedgerInv, Uncertain
  <2>2. Tidy(ledger')
    BY <1>3, <1>4, <1>6, <2>1 DEF Sound, Tidy
  <2> QED
    BY <1>3, <1>4, <2>1, <2>2 DEF Sound
<1>9. LedgerInv'
  <2>1. \A i \in Uncertain(ledger') : Cleared(job[Main]) => ledger'[i].sig # job[Main].sig
    BY <1>3, <1>6 DEF IInv, LedgerInv, Uncertain
  <2>2. Len(ledger') > Limit /\ Unlocked => Uncertain(ledger') = DOMAIN ledger'
    BY <1>4, <1>6 DEF IInv, LedgerInv
  <2>3. Cardinality(Owed(ledger')) + (IF Pending(job[Main]) THEN 1 ELSE 0) <= Limit
    BY <1>7 DEF IInv, LedgerInv
  <2>4. Unlocked' => Unlocked
    BY <1>1 DEF Unlocked
  <2> QED
    BY <1>1, <1>8, <2>1, <2>2, <2>3, <2>4 DEF LedgerInv
<1>10. Covers(ledger', open)
  <2>1. Covers(ledger, open)
    BY DEF IInv, OpenInv
  <2> QED
    BY <1>3, <1>4, <2>1 DEF Covers
<1>11. JobsInv'
  BY <1>1 DEF IInv, JobsInv, Batch
<1> QED
  BY <1>1, <1>9, <1>10, <1>11 DEF IInv, SavedInv, OpenInv

\* A save reads the ledger, and assigns what it read; the user clears it.
LEMMA SaveKeeps ==
    ASSUME IInv, Save \/ SaveAssigns \/ Clear
    PROVE  IInv'
<1>0. /\ JobsInv /\ job \in [Threads -> Job] /\ Main \in Threads /\ effects \in Nat /\ Limit \in Nat
      /\ Sound(ledger, effects) /\ Sound(saved, effects) /\ ledger \in Seq(Entry) /\ saved \in Seq(Entry)
  BY LimitAssumption DEF IInv, JobsInv, LedgerInv, SavedInv, Sound, Threads
<1>1. Sound(<<>>, effects) /\ Len(<<>>) = 0 /\ Uncertain(<<>>) = {} /\ Owed(<<>>) = {}
  <2>1. <<>> \in Seq(Entry) /\ DOMAIN <<>> = {} /\ Len(<<>>) = 0
    OBVIOUS
  <2>2. Uncertain(<<>>) = {}
    BY <2>1 DEF Uncertain
  <2>3. Owed(<<>>) = {}
    BY <2>2 DEF Owed
  <2> QED
    BY <2>1, <2>2, <2>3 DEF Sound, Tidy
<1>2. CASE Save
  <2>1. /\ job[Main].pc = "idle" /\ saved' = RetainNewest(ledger)
        /\ open' = open \ {ledger[i].sig : i \in 1..(Len(ledger) - Limit)}
        /\ job' = [job EXCEPT ![Main].pc = "save"]
        /\ UNCHANGED <<ledger, slots, effects>>
    BY <1>2 DEF Save, Goto
  <2>2. JobsInv'
    BY <1>0, <1>2, JobsSlots
  <2>3. job'[Main].pc = "save" /\ \A u \in Threads : u # Main => job'[u] = job[u]
    BY <1>0, <2>1 DEF Job
  <2>4. /\ Sound(saved', effects) /\ Len(saved') <= Limit /\ Covers(saved', open')
    BY <1>0, <2>1, RetainNewestSound DEF IInv, OpenInv
  <2>5. open' \subseteq open
    BY <2>1
  <2>6. ~Cleared(job'[Main]) /\ ~Pending(job'[Main]) /\ (Unlocked' => Unlocked)
    BY <1>0, <2>1, <2>3 DEF Cleared, Pending, Unlocked
  <2>7. LedgerInv'
    <3>1. /\ Cardinality(Owed(ledger)) \in Nat
          /\ Cardinality(Owed(ledger)) + (IF Pending(job[Main]) THEN 1 ELSE 0) <= Limit
      BY <1>0, PositionsFinite DEF IInv, LedgerInv
    <3>2. Cardinality(Owed(ledger)) + 0 <= Limit
      BY <1>0, <3>1
    <3> QED
      BY <2>1, <2>6, <3>2 DEF IInv, LedgerInv
  <2>8. OpenInv'
    BY <2>1, <2>4, <2>5 DEF IInv, OpenInv, Covers
  <2> QED
    BY <2>1, <2>2, <2>4, <2>7, <2>8 DEF IInv, SavedInv
<1>3. CASE SaveAssigns
  <2>1. /\ job[Main].pc = "save" /\ ledger' = saved /\ saved' = <<>>
        /\ job' = [job EXCEPT ![Main].pc = "idle"]
        /\ UNCHANGED <<slots, effects, open>>
    BY <1>3 DEF SaveAssigns, Goto
  <2>2. JobsInv'
    BY <1>0, <1>3, JobsSlots
  <2>3. job'[Main].pc = "idle"
    BY <1>0, <2>1 DEF Job
  <2>4. ~Cleared(job'[Main]) /\ ~Pending(job'[Main]) /\ job'[Main].pc # "save"
    BY <2>3 DEF Cleared, Pending
  <2>5. /\ Len(saved) <= Limit /\ Len(saved) \in Nat
        /\ Cardinality(Owed(saved)) <= Len(saved) /\ Cardinality(Owed(saved)) \in Nat
    BY <1>0, PositionsFinite DEF IInv, SavedInv
  <2>6. LedgerInv'
    <3>1. Cardinality(Owed(saved)) + 0 <= Limit /\ ~(Len(saved) > Limit)
      BY <1>0, <2>5
    <3> QED
      BY <1>0, <2>1, <2>4, <3>1 DEF LedgerInv
  <2>7. OpenInv' /\ SavedInv'
    BY <1>0, <1>1, <2>1, <2>4 DEF IInv, OpenInv, SavedInv
  <2> QED
    BY <2>2, <2>6, <2>7 DEF IInv
<1>4. CASE Clear
  <2>1. /\ job[Main].pc = "idle" /\ ledger' = <<>> /\ open' = {}
        /\ UNCHANGED <<slots, job, effects, saved>>
    BY <1>4 DEF Clear
  <2>2. JobsInv'
    BY <1>0, <2>1 DEF JobsInv, Batch
  <2>3. ~Cleared(job[Main]) /\ ~Pending(job[Main])
    BY <2>1 DEF Cleared, Pending
  <2>4. LedgerInv'
    <3>0. Cardinality(Owed(<<>>)) = 0
      BY <1>1, FS_EmptySet
    <3>1. Cardinality(Owed(<<>>)) + 0 <= Limit /\ ~(Len(<<>>) > Limit)
      BY <1>0, <1>1, <3>0
    <3> QED
      BY <1>1, <2>1, <2>3, <3>1 DEF LedgerInv
  <2>5. OpenInv' /\ SavedInv'
    BY <2>1 DEF IInv, OpenInv, SavedInv, Covers
  <2> QED
    BY <2>2, <2>4, <2>5 DEF IInv
<1> QED
  BY <1>2, <1>3, <1>4

-----------------------------------------------------------------------------
(* The theorems *)

LEMMA InitEstablishes == Init => IInv
<1> SUFFICES ASSUME Init
             PROVE  IInv
  OBVIOUS
<1>1. /\ ledger = <<>> /\ saved = <<>> /\ slots = 0 /\ effects = 0 /\ open = {}
      /\ job = [t \in Threads |-> Idle] /\ Main \in Threads /\ Workers \subseteq Threads
      /\ Limit \in Nat /\ MaxEffects \in Nat
  BY LimitAssumption DEF Init, Threads
<1>2. /\ Idle \in Job /\ Idle.pc = "idle" /\ ~Idle.slot /\ Coherent(Idle, 0)
  BY DEF Idle, Job, Coherent
<1> HIDE DEF Idle
<1>3. \A t \in Threads : job[t] = Idle
  BY <1>1
<1>4. JobsInv
  BY <1>1, <1>2, <1>3 DEF JobsInv, Batch
<1>5. <<>> \in Seq(Entry) /\ DOMAIN <<>> = {} /\ Len(<<>>) = 0
  OBVIOUS
<1>6. Uncertain(<<>>) = {}
  BY <1>5 DEF Uncertain
<1>7. Owed(<<>>) = {}
  BY <1>6 DEF Owed
<1>8. Sound(<<>>, 0)
  BY <1>5, <1>6 DEF Sound, Tidy
<1>9. LedgerInv
  <2>0. Cardinality(Owed(<<>>)) = 0
    BY <1>7, FS_EmptySet
  <2>1. ~Pending(job[Main]) /\ Cardinality(Owed(<<>>)) + 0 <= Limit /\ ~(Len(<<>>) > Limit)
    BY <1>1, <1>2, <1>3, <1>5, <2>0 DEF Pending
  <2> QED
    BY <1>1, <1>6, <1>8, <2>1 DEF LedgerInv
<1>10. SavedInv /\ OpenInv
  BY <1>1, <1>5, <1>8 DEF SavedInv, OpenInv, Covers
<1> QED
  BY <1>4, <1>9, <1>10 DEF IInv

LEMMA NextKeeps == IInv /\ [Next]_vars => IInv'
<1> SUFFICES ASSUME IInv, [Next]_vars
             PROVE  IInv'
  OBVIOUS
<1>1. CASE \/ \E s \in Signatures : Dispatch(s)
           \/ \E w \in Workers, r \in Reads : Submit(w, r)
           \/ Abandon
  BY <1>1, StartsAndInterruptsKeep
<1>2. ASSUME NEW t \in Threads, Step(t)
      PROVE  IInv'
  <2>1. CASE Record(t)
    BY <2>1, RecordKeeps
  <2>2. CASE Trim(t)
    BY <2>2, TrimKeeps
  <2> QED
    BY <1>2, <2>1, <2>2, QuietSteps DEF Step
<1>3. CASE Age
  BY <1>3, AgeKeeps
<1>4. CASE Save \/ SaveAssigns \/ Clear
  BY <1>4, SaveKeeps
<1>5. CASE UNCHANGED vars
  BY <1>5 DEF vars, IInv, JobsInv, LedgerInv, SavedInv, OpenInv, Batch, Unlocked
<1> QED
  BY <1>1, <1>2, <1>3, <1>4, <1>5 DEF Next

\* IInv holds in every reachable state: the ledger and what a save has read of it
\* are tidy, there is room for the mutation under way, and what is open bars itself.
THEOREM LedgerInvariant == Spec => []IInv
  BY InitEstablishes, NextKeeps, PTL DEF Spec

\* record_tool_attempt() and reserve_retry_capacity() keep the ledger well formed:
\* at most ATTEMPT_LEDGER_LIMIT barriers of mutations, and beyond the limit
\* nothing but barriers.
THEOREM LedgerStaysBounded == Spec => []LedgerBounded
<1>1. IInv => LedgerBounded
  <2> SUFFICES ASSUME IInv
               PROVE  LedgerBounded
    OBVIOUS
  <2>1. /\ ledger \in Seq(Entry) /\ Tidy(ledger) /\ job \in [Threads -> Job] /\ Limit \in Nat
        /\ Main \in Threads /\ Main \notin Workers
    BY LimitAssumption, MainAssumption DEF IInv, LedgerInv, JobsInv, Sound, Threads
  <2>2. {t \in Threads : job[t].slot} = IF job[Main].slot THEN {Main} ELSE {}
    BY <2>1 DEF IInv, JobsInv, Threads
  <2>3. slots = Cardinality({t \in Threads : job[t].slot})
    <3>1. CASE job[Main].slot
      BY <2>2, <3>1, FS_Singleton DEF IInv, JobsInv
    <3>2. CASE ~job[Main].slot
      BY <2>2, <3>2, FS_EmptySet DEF IInv, JobsInv
    <3> QED
      BY <3>1, <3>2
  <2>4. \A t \in Threads : job[t].pc \in {"idle", "lookup", "reserve", "approve", "judge",
                                          "record", "trim", "done", "save"}
    BY <2>1 DEF Job
  <2>5. TypeOK
    BY <2>1, <2>3, <2>4 DEF TypeOK, IInv, JobsInv, OpenInv
  <2>6. Barriers(ledger) = Uncertain(ledger)
    BY <2>1, BarriersAreUncertain
  <2>7. Cardinality({i \in Barriers(ledger) : ledger[i].sig \in Writes}) <= Limit
    <3>1. {i \in Barriers(ledger) : ledger[i].sig \in Writes} = Owed(ledger)
      BY <2>6 DEF Owed
    <3>2. /\ Cardinality(Owed(ledger)) \in Nat
          /\ Cardinality(Owed(ledger)) + (IF Pending(job[Main]) THEN 1 ELSE 0) <= Limit
      BY <2>1, PositionsFinite DEF IInv, LedgerInv
    <3>3. Cardinality(Owed(ledger)) <= Limit
      BY <2>1, <3>2
    <3> QED
      BY <3>1, <3>3
  <2> QED
    BY <2>5, <2>6, <2>7 DEF LedgerBounded, IInv, LedgerInv
<1> QED
  BY <1>1, LedgerInvariant, PTL

\* dispatch_action() calls the tool of no mutation whose earlier outcome is
\* unknown and unobserved, whatever has been recorded, purged, evicted, saved
\* or abandoned since.
THEOREM RetriesAreObserved == Spec => []NoBlindRetry
<1>1. IInv => NoBlindRetry
  <2> SUFFICES ASSUME IInv, job[Main].sig \in open
               PROVE  job[Main].pc \notin {"approve", "judge"}
    BY DEF NoBlindRetry
  <2>1. PICK i \in DOMAIN ledger : /\ ledger[i].sig = job[Main].sig
                                   /\ ledger[i].status = "unknown_outcome" /\ ~ledger[i].reconciled
    BY DEF IInv, OpenInv, Covers
  <2>2. i \in Uncertain(ledger)
    BY <2>1 DEF Uncertain, NonRetryable
  <2> QED
    BY <2>1, <2>2 DEF IInv, LedgerInv, Cleared
<1> QED
  BY <1>1, LedgerInvariant, PTL

\* _reconcile_uncertain_attempts() of an observation the main thread waited for
\* reconciles only effects that the observation followed.
THEOREM ReconcilesWhatItSaw == Spec => StaleOnlyIfAbandoned
<1>1. ASSUME IInv, NEW t \in Threads, job[t].pc = "record", job[t].status = "worked", ~job[t].abandoned,
             NEW i \in DOMAIN ledger
      PROVE  ledger[i].at <= job[t].saw
  <2>1. Coherent(job[t], effects) /\ ledger[i].at <= effects
    <3>1. JobsInv /\ Sound(ledger, effects)
      BY <1>1 DEF IInv, LedgerInv
    <3> QED
      BY <3>1 DEF JobsInv, Sound
  <2>2. job[t].saw = effects
    BY <1>1, <2>1 DEF Coherent
  <2> QED
    BY <2>1, <2>2
<1>2. IInv => \A t \in Threads : job[t].pc = "record" /\ job'[t].pc # "record"
          /\ job[t].sig \in Reads /\ job[t].status = "worked" /\ ~job[t].abandoned =>
              \A i \in DOMAIN ledger :
                  ledger[i].status = "unknown_outcome" /\ ~ledger[i].reconciled
                  /\ ledger[i].sig \in Sees[job[t].sig] => ledger[i].at <= job[t].saw
  BY <1>1
<1> QED
  BY <1>2, LedgerInvariant, PTL DEF StaleOnlyIfAbandoned
=============================================================================
