--------------------------- MODULE TranscriptProofs --------------------------
(***************************************************************************)
(* Proofs about the conversation with the provider.                        *)
(***************************************************************************)
EXTENDS Transcript, FiniteSetTheorems, SequenceTheorems, NaturalsInduction, TLAPS

-----------------------------------------------------------------------------
(* Call ids *)

\* A set of natural numbers that is not empty has a least element.
LEMMA LeastNumber ==
    ASSUME NEW S \in SUBSET Nat, S # {}
    PROVE  \E n \in S : \A m \in S : n <= m
<1>1. IsWellFoundedOn(OpToRel(<, Nat), Nat)
  BY NatLessThanWellFounded
<1>2. \E n \in S : \A m \in S : ~(<<m, n>> \in OpToRel(<, Nat))
  BY <1>1, WFMin
<1>3. \A m, n \in Nat : m < n => <<m, n>> \in OpToRel(<, Nat)
  BY DEF OpToRel
<1>4. PICK n \in S : \A m \in S : ~(<<m, n>> \in OpToRel(<, Nat))
  BY <1>2
<1>5. \A m \in S : m \in Nat /\ n \in Nat /\ ~(m < n)
  BY <1>3, <1>4
<1> QED
  BY <1>5

\* However many ids are used, the search for an unused suffix succeeds.
LEMMA UnusedIsFresh ==
    ASSUME NEW id \in CallIds, NEW used, IsFiniteSet(used)
    PROVE  Unused(id, used) \in CallIds \ used
<1> DEFINE Suffixed(n) == <<id[1], id[2], id[3], id[4] + n>>
           N == Cardinality(used)
           Free == {n \in 0..N : Suffixed(n) \notin used}
<1>0. N \in Nat /\ \A n \in Nat : Suffixed(n) \in CallIds
  BY FS_CardinalityType DEF CallIds
<1>1. Free # {}
  <2> SUFFICES ASSUME Free = {}
               PROVE  FALSE
    OBVIOUS
  <2> DEFINE f == [n \in 0..N |-> Suffixed(n)]
  <2>1. f \in [0..N -> used]
    OBVIOUS
  <2>2. IsFiniteSet(0..N) /\ Cardinality(0..N) = N + 1
    <3>0. 0 \in Int /\ N \in Int /\ N \in Nat
      BY <1>0
    <3> HIDE DEF N
    <3>1. IsFiniteSet(0..N) /\ Cardinality(0..N) = IF 0 > N THEN 0 ELSE N - 0 + 1
      BY ONLY <3>0, FS_Interval
    <3> QED
      BY <3>0, <3>1
  <2>3. PICK x, y \in 0..N : x # y /\ f[x] = f[y]
    <3>1. N \in Nat /\ Cardinality(used) < Cardinality(0..N)
      BY <1>0, <2>2
    <3> HIDE DEF f, N
    <3> QED
      BY ONLY <2>1, <2>2, <3>1, IsFiniteSet(used), FS_PigeonHole
  <2>4. id[4] \in Nat /\ Suffixed(x) = Suffixed(y)
    BY <2>3 DEF CallIds
  <2>5. id[4] + x = id[4] + y
    BY <2>4
  <2> QED
    BY <1>0, <2>3, <2>4, <2>5
<1>2. PICK n \in Free : \A m \in Free : n <= m
  BY <1>0, <1>1, LeastNumber, Free \in SUBSET Nat
<1>3. \A m \in 0..(n - 1) : Suffixed(m) \in used
  <2>1. \A m \in 0..(n - 1) : m \in 0..N /\ ~(n <= m)
    BY <1>0
  <2> QED
    BY <1>2, <2>1
<1>4. Unused(id, used) = Suffixed(CHOOSE k \in 0..N : /\ Suffixed(k) \notin used
                                                     /\ \A m \in 0..(k - 1) : Suffixed(m) \in used)
  BY DEF Unused
<1>5. n \in 0..N /\ Suffixed(n) \notin used
  OBVIOUS
<1> HIDE DEF Suffixed, N
<1>6. PICK k \in 0..N : Unused(id, used) = Suffixed(k) /\ Suffixed(k) \notin used
  BY <1>3, <1>4, <1>5
<1> QED
  BY <1>0, <1>6

\* What the loop over a reply has given to the calls so far.
Fresh(l, n, acc) ==
    /\ acc.ids \in Seq(CallIds) /\ Len(acc.ids) = n
    /\ IsInjective(acc.ids)
    /\ ToSet(acc.ids) \cap l.seen = {}
    /\ acc.violated \in BOOLEAN

\* One more call gets an id that is new in this turn.
LEMMA IdentifiedIsFresh ==
    ASSUME NEW l, l.id \in Nat, l.round \in Nat, IsFiniteSet(l.seen),
           NEW n \in Nat, NEW acc, Fresh(l, n, acc), NEW id \in CallIds
    PROVE  Fresh(l, n + 1, Identified(l, acc, id))
<1> DEFINE used == l.seen \cup ToSet(acc.ids)
           dup == id # NoId /\ id \in used
           own == IF id = NoId \/ dup THEN Synthetic(l, Len(acc.ids)) ELSE id
           new == Unused(own, used)
<1>1. Identified(l, acc, id) = [ids |-> Append(acc.ids, new), violated |-> acc.violated \/ dup]
  BY DEF Identified
<1>2. acc.ids \in Seq(CallIds) /\ Len(acc.ids) = n /\ DOMAIN acc.ids = 1..n
  BY DEF Fresh
<1>3. IsFiniteSet(used)
  <2> DEFINE s == acc.ids
  <2>1. s \in Surjection(1..n, ToSet(s))
    BY <1>2 DEF Surjection, ToSet
  <2>2. IsFiniteSet(1..n)
    BY FS_Interval, 1 \in Int, n \in Int
  <2>3. IsFiniteSet(ToSet(s))
    BY <2>1, <2>2, FS_Surjection
  <2> QED
    BY <2>3, FS_Union
<1>4. own \in CallIds
  <2>1. Synthetic(l, Len(acc.ids)) \in CallIds
    BY <1>2 DEF Synthetic, CallIds
  <2> QED
    BY <2>1
<1> HIDE DEF own, used
<1>5. new \in CallIds /\ new \notin used
  BY <1>3, <1>4, UnusedIsFresh
<1> HIDE DEF new
<1> DEFINE s == acc.ids
           t == Append(acc.ids, new)
<1>6. /\ t \in Seq(CallIds) /\ Len(t) = n + 1 /\ DOMAIN t = 1..(n + 1) /\ t[n + 1] = new
      /\ \A i \in 1..n : t[i] = s[i]
  BY <1>2, <1>5
<1>7. \A i \in 1..(n + 1) : i \in 1..n \/ i = n + 1
  OBVIOUS
<1>8. \A i \in 1..n : s[i] # new
  BY <1>2, <1>5 DEF used, ToSet
<1>9. \A i, k \in 1..n : s[i] = s[k] => i = k
  BY <1>2 DEF Fresh, IsInjective
<1> HIDE DEF t, s
<1>10. \A i, k \in 1..(n + 1) : t[i] = t[k] => i = k
  BY <1>6, <1>7, <1>8, <1>9
<1>11. IsInjective(t)
  BY <1>6, <1>10 DEF IsInjective
<1>12. ToSet(t) \cap l.seen = {}
  <2>1. \A i \in 1..n : s[i] \notin l.seen
    BY <1>2 DEF Fresh, ToSet, s
  <2>2. new \notin l.seen
    BY <1>5 DEF used
  <2> QED
    BY <1>6, <1>7, <2>1, <2>2 DEF ToSet
<1>13. Identified(l, acc, id).ids = t /\ Identified(l, acc, id).violated \in BOOLEAN
  BY <1>1 DEF t
<1> QED
  BY <1>6, <1>11, <1>12, <1>13 DEF Fresh

\* The ids of a reply: as many as it has calls, all different, none used before.
LEMMA AssignIsFresh ==
    ASSUME NEW l, l.id \in Nat, l.round \in Nat, IsFiniteSet(l.seen), NEW ids \in Seq(CallIds)
    PROVE  Fresh(l, Len(ids), Assign(l, ids))
<1> DEFINE N == Len(ids)
           Nothing == [ids |-> <<>>, violated |-> FALSE]
           Runs(n, g) == g = [k \in 0..n |-> IF k = 0 THEN Nothing ELSE Identified(l, g[k - 1], ids[k])]
           upTo == CHOOSE g : Runs(N, g)
<1>1. N \in Nat /\ \A k \in 1..N : ids[k] \in CallIds
  OBVIOUS
<1>2. \E g : Runs(N, g)
  <2> DEFINE Bad == {n \in 0..N : ~ \E g : Runs(n, g)}
  <2> SUFFICES ASSUME Bad # {}
               PROVE  FALSE
    BY <1>1
  <2>1. PICK n \in Bad : \A m \in Bad : n <= m
    BY <1>1, LeastNumber, Bad \in SUBSET Nat
  <2>2. n \in 0..N /\ ~ \E g : Runs(n, g)
    OBVIOUS
  <2>3. CASE n = 0
    <3> DEFINE g == [k \in 0..0 |-> Nothing]
    <3>1. Runs(0, g)
      OBVIOUS
    <3> QED
      BY <2>2, <2>3, <3>1
  <2>4. CASE n # 0
    <3>1. n - 1 \in 0..N /\ ~(n <= n - 1)
      BY <1>1, <2>2, <2>4
    <3>2. PICK g : Runs(n - 1, g)
      BY <2>1, <3>1
    <3> DEFINE h == [k \in 0..n |-> IF k = n THEN Identified(l, g[n - 1], ids[n]) ELSE g[k]]
    <3>3. \A k \in 0..n : h[k] = IF k = 0 THEN Nothing ELSE Identified(l, h[k - 1], ids[k])
      <4> SUFFICES ASSUME NEW k \in 0..n
                   PROVE  h[k] = IF k = 0 THEN Nothing ELSE Identified(l, h[k - 1], ids[k])
        OBVIOUS
      <4>1. CASE k = n
        BY <1>1, <2>2, <2>4, <3>1, <4>1
      <4>2. CASE k # n
        <5>1. k \in 0..(n - 1) /\ h[k] = g[k] /\ (k # 0 => h[k - 1] = g[k - 1])
          BY <1>1, <2>2, <4>2
        <5> QED
          BY <3>2, <5>1
      <4> QED
        BY <4>1, <4>2
    <3>4. Runs(n, h)
      BY <3>3
    <3> QED
      BY <2>2, <3>4
  <2> QED
    BY <2>3, <2>4
<1>3. Runs(N, upTo)
  BY <1>2
<1>4. Assign(l, ids) = upTo[N]
  BY DEF Assign
<1> HIDE DEF upTo
<1>5. \A n \in 0..N : Fresh(l, n, upTo[n])
  <2> DEFINE Bad == {n \in 0..N : ~Fresh(l, n, upTo[n])}
  <2> SUFFICES ASSUME Bad # {}
               PROVE  FALSE
    OBVIOUS
  <2>1. PICK n \in Bad : \A m \in Bad : n <= m
    BY <1>1, LeastNumber, Bad \in SUBSET Nat
  <2>2. n \in 0..N /\ ~Fresh(l, n, upTo[n])
    OBVIOUS
  <2>3. CASE n = 0
    <3>1. upTo[0] = Nothing
      BY <1>1, <1>3
    <3>2. Fresh(l, 0, Nothing)
      BY DEF Fresh, IsInjective, ToSet
    <3> QED
      BY <2>2, <2>3, <3>1, <3>2
  <2>4. CASE n # 0
    <3>1. n - 1 \in 0..N /\ ~(n <= n - 1) /\ n \in 1..N /\ n - 1 \in Nat /\ (n - 1) + 1 = n
      BY <1>1, <2>2, <2>4
    <3>2. Fresh(l, n - 1, upTo[n - 1])
      BY <2>1, <3>1
    <3>3. upTo[n] = Identified(l, upTo[n - 1], ids[n])
      BY <1>3, <2>2, <2>4
    <3>4. Fresh(l, (n - 1) + 1, Identified(l, upTo[n - 1], ids[n]))
      BY <1>1, <3>1, <3>2, IdentifiedIsFresh
    <3> QED
      BY <2>2, <3>1, <3>3, <3>4
  <2> QED
    BY <2>3, <2>4
<1> QED
  BY <1>1, <1>4, <1>5

-----------------------------------------------------------------------------
(* The loop state *)

Phases == {"ready", "model_inflight", "model_complete", "tools_inflight"} \cup Terminal

Loops == [id : Nat, phase : Phases, round : Nat, expected : Seq(CallIds), violated : BOOLEAN,
          seen : SUBSET CallIds, dispatched : SUBSET CallIds, completed : SUBSET CallIds,
          mutations : SUBSET CallIds, uncertain : SUBSET CallIds]

\* The ids of a reply are different ones; what was dispatched is one of them,
\* what has a result was dispatched.
Well(l) ==
    /\ l \in Loops
    /\ IsInjective(l.expected)
    /\ IsFiniteSet(l.seen)
    /\ ToSet(l.expected) \subseteq l.seen
    /\ l.dispatched \subseteq ToSet(l.expected)
    /\ l.completed \subseteq l.dispatched
    /\ l.mutations \subseteq l.dispatched
    /\ l.uncertain \subseteq l.seen
    /\ l.phase = "model_inflight" => l.dispatched = {}

LEMMA NewLoopWell ==
    ASSUME NEW n \in Nat
    PROVE  Well(NewLoop(n)) /\ NewLoop(n).phase = "ready" /\ NewLoop(n).seen = {}
<1>1. IsInjective(<<>>) /\ ToSet(<<>>) = {} /\ <<>> \in Seq(CallIds)
  BY DEF IsInjective, ToSet
<1>2. IsFiniteSet({})
  BY FS_EmptySet
<1> QED
  BY <1>1, <1>2 DEF NewLoop, Well, Loops, Phases

\* begin_model_round()
LEMMA BeginWell ==
    ASSUME NEW l, Well(l), NEW n \in Nat, NEW m, m = Begin(l, n)
    PROVE  /\ Well(m)
           /\ m.phase = "model_inflight"
           /\ m.seen = l.seen /\ m.uncertain = l.uncertain
<1>1. IsInjective(<<>>) /\ ToSet(<<>>) = {} /\ <<>> \in Seq(CallIds)
  BY DEF IsInjective, ToSet
<1> QED
  BY <1>1 DEF Begin, Well, Loops, Phases

\* complete_model_round()
LEMMA CompleteWell ==
    ASSUME NEW l, Well(l), l.phase = "model_inflight",
           NEW ids \in Seq(CallIds), NEW m, m = Complete(l, ids)
    PROVE  /\ Well(m)
           /\ m.phase = "model_complete"
           /\ m.expected \in Seq(CallIds) /\ Len(m.expected) = Len(ids)
           /\ ToSet(m.expected) \cap l.seen = {}
           /\ l.seen \subseteq m.seen /\ m.uncertain = l.uncertain
           /\ m.dispatched = {} /\ m.completed = {}
<1> DEFINE a == Assign(l, ids)
<1>1. Fresh(l, Len(ids), a)
  BY AssignIsFresh DEF Well, Loops
<1> HIDE DEF a
<1>2. /\ a.ids \in Seq(CallIds) /\ Len(a.ids) = Len(ids) /\ a.violated \in BOOLEAN
      /\ IsInjective(a.ids) /\ ToSet(a.ids) \cap l.seen = {}
  BY <1>1 DEF Fresh
<1>3. ToSet(a.ids) \subseteq CallIds /\ IsFiniteSet(ToSet(a.ids))
  <2>1. ToSet(a.ids) \subseteq CallIds
    BY <1>2 DEF ToSet
  <2>2. a.ids \in Surjection(1..Len(a.ids), ToSet(a.ids))
    BY <1>2 DEF Surjection, ToSet
  <2>3. IsFiniteSet(1..Len(a.ids))
    <3>1. 1 \in Int /\ Len(a.ids) \in Int
      BY <1>2
    <3> QED
      BY <3>1, FS_Interval
  <2> QED
    BY <2>1, <2>2, <2>3, FS_Surjection
<1>4. IsFiniteSet(l.seen \cup ToSet(a.ids))
  BY <1>3, FS_Union DEF Well
<1>5. m = [l EXCEPT !.phase = "model_complete", !.expected = a.ids, !.violated = a.violated,
                    !.seen = l.seen \cup ToSet(a.ids)]
  BY DEF Complete, a
<1> DEFINE used == l.seen \cup ToSet(a.ids)
<1>8. l \in Loops /\ used \in SUBSET CallIds /\ "model_complete" \in Phases
  BY <1>3 DEF Well, Loops, Phases
<1>9. a.ids \in Seq(CallIds) /\ a.violated \in BOOLEAN
  BY <1>2
<1>10. m = [l EXCEPT !.phase = "model_complete", !.expected = a.ids, !.violated = a.violated,
                     !.seen = used]
  BY <1>5
<1> HIDE DEF used
<1>6. /\ m.phase = "model_complete" /\ m.expected = a.ids
      /\ m.violated = a.violated /\ m.seen = used
      /\ m.dispatched = l.dispatched /\ m.completed = l.completed /\ m.mutations = l.mutations
      /\ m.uncertain = l.uncertain
      /\ m \in Loops
  <2>1. m \in Loops
    BY <1>8, <1>9, <1>10 DEF Loops
  <2> QED
    BY ONLY <1>8, <1>10, <2>1 DEF Loops
<1>7. l.dispatched = {} /\ l.completed = {} /\ l.mutations = {} /\ l.uncertain \subseteq l.seen
  BY DEF Well
<1> QED
  BY <1>2, <1>4, <1>6, <1>7 DEF Well, used

\* A change of phase: finish_without_tools(), begin_tool_batch(), finish_tool_batch().
LEMMA PhaseWell ==
    ASSUME NEW l, Well(l), NEW p \in Phases \ {"model_inflight"}, NEW m, m = [l EXCEPT !.phase = p]
    PROVE  /\ Well(m) /\ m.phase = p
           /\ m.expected = l.expected /\ m.violated = l.violated
           /\ m.seen = l.seen /\ m.uncertain = l.uncertain
           /\ m.dispatched = l.dispatched /\ m.completed = l.completed
<1>1. /\ m \in Loops /\ m.phase = p
      /\ m.expected = l.expected /\ m.violated = l.violated
      /\ m.seen = l.seen /\ m.uncertain = l.uncertain
      /\ m.dispatched = l.dispatched /\ m.completed = l.completed /\ m.mutations = l.mutations
  BY DEF Well, Loops
<1> QED
  BY <1>1 DEF Well

\* record_tool_result()
LEMMA ResultWell ==
    ASSUME NEW l, Well(l), l.phase # "model_inflight", NEW id \in l.dispatched,
           NEW u \in BOOLEAN, NEW m, m = RecordResult(l, id, u)
    PROVE  /\ Well(m) /\ m.phase = l.phase
           /\ m.expected = l.expected /\ m.violated = l.violated
           /\ m.seen = l.seen
           /\ m.dispatched = l.dispatched /\ m.completed = l.completed \cup {id}
           /\ l.uncertain \subseteq m.uncertain
           /\ u /\ id \in l.mutations => id \in m.uncertain
<1>1. id \in CallIds /\ id \in l.seen
  BY DEF Well, Loops
<1>2. /\ m \in Loops /\ m.phase = l.phase
      /\ m.expected = l.expected /\ m.violated = l.violated
      /\ m.seen = l.seen
      /\ m.dispatched = l.dispatched /\ m.completed = l.completed \cup {id}
      /\ m.mutations = l.mutations
      /\ m.uncertain = IF u /\ id \in l.mutations THEN l.uncertain \cup {id} ELSE l.uncertain
  BY <1>1 DEF Well, Loops, RecordResult
<1> QED
  BY <1>1, <1>2 DEF Well

\* interrupt(), and cancel(), which may follow it.
LEMMA InterruptedWell ==
    ASSUME NEW l, Well(l), NEW p \in Terminal, NEW m, m \in {Interrupted(l, p), Cancelled(l)}
    PROVE  Well(m) /\ m.seen = l.seen /\ l.uncertain \subseteq m.uncertain
<1> DEFINE Stopped(k) == /\ Well(k) /\ k.phase \in Terminal
                         /\ k.seen = l.seen /\ l.uncertain \subseteq k.uncertain
<1>1. \A q \in Terminal : Stopped(Interrupted(l, q))
  <2> SUFFICES ASSUME NEW q \in Terminal
               PROVE  Stopped(Interrupted(l, q))
    OBVIOUS
  <2>1. CASE l.phase \in Terminal
    BY <2>1 DEF Interrupted
  <2>2. CASE l.phase \notin Terminal
    <3> DEFINE k == Interrupted(l, q)
               new == IF l.phase = "tools_inflight" THEN (l.dispatched \ l.completed) \cap l.mutations
                      ELSE {}
    <3>1. new \subseteq l.seen /\ new \subseteq CallIds
      BY DEF Well, Loops
    <3>2. k = [l EXCEPT !.phase = q, !.uncertain = l.uncertain \cup new]
      BY <2>2 DEF Interrupted, Well, Loops
    <3> HIDE DEF k, new
    <3>3. /\ k \in Loops /\ k.phase = q
          /\ k.expected = l.expected /\ k.violated = l.violated
          /\ k.seen = l.seen /\ k.uncertain = l.uncertain \cup new
          /\ k.dispatched = l.dispatched /\ k.completed = l.completed /\ k.mutations = l.mutations
      BY <3>1, <3>2 DEF Well, Loops, Phases
    <3>4. k.phase # "model_inflight"
      BY <3>3 DEF Terminal
    <3> QED
      BY <3>1, <3>3, <3>4 DEF Well, k
  <2> QED
    BY <2>1, <2>2
<1>2. Stopped(Cancelled(l))
  <2> DEFINE i == Interrupted(l, "interrupted")
  <2>1. Stopped(i)
    BY <1>1 DEF Terminal
  <2>2. Cancelled(l) = [i EXCEPT !.phase = "cancelled"]
    BY DEF Cancelled
  <2>3. "cancelled" \in Phases \ {"model_inflight"} /\ "cancelled" \in Terminal
    BY DEF Phases, Terminal
  <2> HIDE DEF i
  <2> QED
    BY <2>1, <2>2, <2>3, PhaseWell
<1> QED
  BY <1>1, <1>2

-----------------------------------------------------------------------------
(* The turn and its batches *)

Batching == {"batch", "tool", "consume"}
Message == [role : {"user", "assistant", "tool"}, calls : Seq(CallIds), id : CallIds,
            prunable : BOOLEAN]
Call == [id : CallIds, kind : {"read", "write"}]

\* The first n ids of a reply.
Sofar(e, n) == {e[i] : i \in 1..n}

\* Nothing is under way.
Between == batch = <<>> /\ next = 1 /\ results = <<>> /\ pool = FALSE

\* The calls of the reply are taken one after the other: when a call is due it is
\* not dispatched, when its result is due it is dispatched and has none.
InOrderOfBatch ==
    /\ pc = "batch" => /\ loop.dispatched = Sofar(loop.expected, next - 1)
                       /\ loop.completed = IF pool THEN {} ELSE Sofar(loop.expected, next - 1)
                       /\ pool => \A i \in next..Len(batch) : results[i] = "none"
    /\ pc = "tool" => /\ ~pool /\ next <= Len(batch)
                      /\ loop.dispatched = Sofar(loop.expected, next)
                      /\ loop.completed = Sofar(loop.expected, next - 1)
                      /\ batch[next].kind = "write" => batch[next].id \in loop.mutations
    /\ pc = "consume" => /\ pool
                         /\ loop.dispatched = Sofar(loop.expected, Len(batch))
                         /\ loop.completed = Sofar(loop.expected, next - 1)

\* A call that has not been dispatched, or that the pool has not finished, has not run.
NotYetRun ==
    /\ \A i \in 1..Len(batch) : (IF pool THEN results[i] # "done" ELSE next <= i) =>
           loop.expected[i] \notin ToSet(ran)
    /\ loop.violated => ToSet(ran) \cap ToSet(loop.expected) = {}

\* The batch is the reply that the loop expects results for.
InBatch ==
    /\ batch \in Seq(Call) /\ results \in Seq({"none", "queued", "done"})
    /\ Len(batch) = Len(loop.expected) /\ Len(results) = Len(batch)
    /\ \A i \in 1..Len(batch) : batch[i].id = loop.expected[i]
    /\ next \in 1..(Len(batch) + 1)
    /\ pool => ~loop.violated
    /\ InOrderOfBatch
    /\ NotYetRun

\* The phase that the loop state is in at each point of the turn.
InPhase(p, ph) ==
    /\ p = "head" => ph = "ready"
    /\ p = "stream" => ph = "model_inflight"
    /\ p \in Batching => ph = "tools_inflight"

Base ==
    /\ turn \in 0..MaxTurns
    /\ pc \in {"idle", "head", "stream", "batch", "tool", "consume"}
    /\ Well(loop) /\ InPhase(pc, loop.phase)
    /\ error = FALSE
    /\ pool \in BOOLEAN
    /\ ran \in Seq(CallIds) /\ IsInjective(ran) /\ ToSet(ran) \subseteq loop.seen
    /\ unclear \subseteq loop.uncertain

TurnInv == Base /\ (IF pc \in Batching THEN InBatch ELSE Between)

LEMMA TurnInitially == Init => TurnInv
<1> SUFFICES ASSUME Init
             PROVE  TurnInv
  OBVIOUS
<1>1. Well(NewLoop(0)) /\ 0 \in 0..MaxTurns
  BY NewLoopWell, BoundsAssumption
<1>2. IsInjective(<<>>) /\ ToSet(<<>>) = {} /\ <<>> \in Seq(CallIds)
  BY DEF IsInjective, ToSet
<1>3. NewLoop(0).phase = "ready"
  BY DEF NewLoop
<1> QED
  BY <1>1, <1>2, <1>3 DEF Init, TurnInv, Base, Between, Batching, InPhase

\* A step to a state with nothing under way.
LEMMA OutsideKeeps ==
    ASSUME TurnInv,
           turn' \in 0..MaxTurns, pc' \in {"idle", "head", "stream"},
           Well(loop'), InPhase(pc', loop.phase'), error' = FALSE,
           batch' = <<>>, next' = 1, results' = <<>>, pool' = FALSE,
           \/ ran' = <<>>
           \/ ran' = ran /\ loop.seen \subseteq loop'.seen,
           \/ unclear' = {}
           \/ unclear' = unclear /\ loop.uncertain \subseteq loop'.uncertain
    PROVE  TurnInv'
<1>1. IsInjective(<<>>) /\ ToSet(<<>>) = {} /\ <<>> \in Seq(CallIds)
  BY DEF IsInjective, ToSet
<1>2. ran' \in Seq(CallIds) /\ IsInjective(ran') /\ ToSet(ran') \subseteq loop'.seen
  BY <1>1 DEF TurnInv, Base
<1>3. unclear' \subseteq loop'.uncertain
  BY DEF TurnInv, Base
<1>4. pc' \notin Batching
  BY DEF Batching
<1> QED
  BY <1>2, <1>3, <1>4 DEF TurnInv, Base, Between

LEMMA EndTurnIsBetween ==
    ASSUME EndTurn
    PROVE  /\ pc' = "idle" /\ batch' = <<>> /\ next' = 1 /\ results' = <<>> /\ pool' = FALSE
           /\ pc' \in {"idle", "head", "stream"} /\ InPhase(pc', loop.phase')
  BY DEF EndTurn, InPhase, Batching

\* The steps of a turn outside its batches, but for replies that call tools.
LEMMA OutsideSteps ==
    ASSUME TurnInv,
           \/ StartTurn
           \/ \E fin, tight \in BOOLEAN : Request(fin, tight)
           \/ Stop
           \/ \E fin, tight \in BOOLEAN : ContextFails(fin, tight)
           \/ \E partial \in BOOLEAN :
                 StreamFails(partial, "interrupted") \/ StreamFails(partial, "timed_out")
           \/ \E partial \in BOOLEAN : StreamInterrupted(partial)
    PROVE  TurnInv'
<1>0. /\ turn \in 0..MaxTurns /\ MaxTurns \in Nat /\ Well(loop) /\ error = FALSE
      /\ InPhase(pc, loop.phase)
      /\ loop.round \in Nat
      /\ pc \notin Batching => Between
      /\ {"idle", "head", "stream"} \cap Batching = {}
  BY BoundsAssumption DEF TurnInv, Base, Well, Loops, Batching
<1>1. CASE StartTurn
  <2>1. /\ turn' \in Nat /\ turn' \in 0..MaxTurns
        /\ loop' = NewLoop(turn') /\ ran' = <<>> /\ unclear' = {}
        /\ pc' = "head" /\ pc = "idle"
        /\ UNCHANGED <<batch, pool, next, results, error>>
    BY <1>0, <1>1 DEF StartTurn
  <2>2. Well(loop') /\ loop'.phase = "ready"
    BY <2>1, NewLoopWell
  <2>3. batch' = <<>> /\ next' = 1 /\ results' = <<>> /\ pool' = FALSE
    BY <1>0, <2>1 DEF Between
  <2> QED
    BY <1>0, <2>1, <2>2, <2>3, OutsideKeeps DEF InPhase, Batching
<1>2. CASE \E fin, tight \in BOOLEAN : Request(fin, tight)
  <2>1. PICK fin, tight \in BOOLEAN : Request(fin, tight)
    BY <1>2
  <2> DEFINE m == Begin(loop, loop.round + 1)
  <2>2. /\ pc = "head" /\ pc' = "stream"
        /\ Protocol(MayBegin(loop, loop.round + 1), m)
        /\ UNCHANGED <<turn, batch, pool, next, results, ran, unclear>>
    BY <2>1 DEF Request
  <2>3. loop.phase = "ready"
    BY <1>0, <2>2 DEF InPhase
  <2>4. MayBegin(loop, loop.round + 1)
    BY <1>0, <2>3 DEF MayBegin
  <2>5. loop' = m /\ error' = FALSE
    BY <1>0, <2>2, <2>4 DEF Protocol
  <2>6. Well(m) /\ m.phase = "model_inflight" /\ m.seen = loop.seen /\ m.uncertain = loop.uncertain
    <3>1. loop.round + 1 \in Nat /\ Well(loop)
      BY <1>0
    <3> QED
      BY ONLY <3>1, BeginWell
  <2> HIDE DEF m
  <2>7. batch' = <<>> /\ next' = 1 /\ results' = <<>> /\ pool' = FALSE
    BY <1>0, <2>2 DEF Between
  <2> QED
    BY <1>0, <2>2, <2>5, <2>6, <2>7, OutsideKeeps DEF InPhase, Batching
<1>3. CASE Stop
  <2>1. EndTurn /\ UNCHANGED <<turn, loop, error, ran, unclear>>
    BY <1>3 DEF Stop
  <2> QED
    BY <1>0, <2>1, EndTurnIsBetween, OutsideKeeps
<1>4. CASE \E fin, tight \in BOOLEAN : ContextFails(fin, tight)
  <2>1. EndTurn /\ UNCHANGED <<turn, loop, error, ran, unclear>>
    BY <1>4 DEF ContextFails
  <2> QED
    BY <1>0, <2>1, EndTurnIsBetween, OutsideKeeps
<1>5. CASE \E partial \in BOOLEAN :
              StreamFails(partial, "interrupted") \/ StreamFails(partial, "timed_out")
  <2>1. PICK p \in Terminal : /\ loop' = Interrupted(loop, p)
                              /\ EndTurn /\ UNCHANGED <<turn, error, ran, unclear>>
    BY <1>5 DEF StreamFails, Terminal
  <2>2. Well(loop') /\ loop'.seen = loop.seen /\ loop.uncertain \subseteq loop'.uncertain
    BY <1>0, <2>1, InterruptedWell
  <2> QED
    BY <1>0, <2>1, <2>2, EndTurnIsBetween, OutsideKeeps
<1>6. CASE \E partial \in BOOLEAN : StreamInterrupted(partial)
  <2>1. EndTurn /\ UNCHANGED <<turn, loop, error, ran, unclear>>
    BY <1>6 DEF StreamInterrupted
  <2> QED
    BY <1>0, <2>1, EndTurnIsBetween, OutsideKeeps
<1> QED
  BY <1>1, <1>2, <1>3, <1>4, <1>5, <1>6

\* The calls of a reply.
LEMMA CallsTyped ==
    ASSUME NEW calls \in Calls
    PROVE  /\ calls \in Seq(Call) /\ Len(calls) \in Nat \ {0}
           /\ Ids(calls) \in Seq(CallIds) /\ Len(Ids(calls)) = Len(calls)
<1>1. ProviderIds \cup {NoId} \subseteq CallIds
  BY IdsAssumption, NoIdAssumption
<1> DEFINE Sent == [id : ProviderIds \cup {NoId}, kind : {"read", "write"}]
<1>2. PICK n \in 1..MaxCalls : calls \in [1..n -> Sent]
  BY DEF Calls
<1>3. n \in Nat \ {0} /\ MaxCalls \in Nat
  BY BoundsAssumption
<1>4. \A c \in Sent : c \in Call /\ c.id \in CallIds
  BY <1>1 DEF Call
<1> HIDE DEF Sent
<1>5. DOMAIN calls = 1..n /\ \A i \in 1..n : calls[i] \in Call /\ calls[i].id \in CallIds
  BY <1>2, <1>4
<1>6. calls \in [1..n -> Call]
  BY <1>2, <1>4
<1>7. calls \in Seq(Call) /\ Len(calls) = n
  BY <1>3, <1>6
<1>8. Ids(calls) \in [1..n -> CallIds]
  BY <1>5 DEF Ids
<1>9. Ids(calls) \in Seq(CallIds) /\ Len(Ids(calls)) = n
  BY <1>3, <1>8
<1> QED
  BY <1>3, <1>7, <1>9

\* A reply without tool calls.
LEMMA AnswerKeeps ==
    ASSUME TurnInv, NEW nudge \in BOOLEAN, Answer(nudge)
    PROVE  TurnInv'
<1> DEFINE l == Complete(loop, <<>>)
           m == Ready(l)
<1>0. /\ turn \in 0..MaxTurns /\ Well(loop) /\ error = FALSE /\ pc = "stream"
      /\ loop.phase = "model_inflight"
      /\ Between
  BY DEF TurnInv, Base, Batching, Answer, InPhase
<1>1. <<>> \in Seq(CallIds) /\ Len(<<>>) = 0
  OBVIOUS
<1>2. /\ Well(l) /\ l.phase = "model_complete" /\ l.expected \in Seq(CallIds) /\ Len(l.expected) = 0
      /\ loop.seen \subseteq l.seen /\ l.uncertain = loop.uncertain
  BY ONLY <1>0, <1>1, CompleteWell
<1>3. l.expected = <<>>
  BY <1>2
<1> HIDE DEF l
<1>4. Well(m) /\ m.phase = "ready" /\ m.seen = l.seen /\ m.uncertain = l.uncertain
  <2>1. "ready" \in Phases \ {"model_inflight"} /\ m = [l EXCEPT !.phase = "ready"]
    BY DEF Phases, Ready
  <2> HIDE DEF m
  <2> QED
    BY ONLY <1>2, <2>1, PhaseWell
<1>5. /\ Protocol(MayComplete(loop) /\ MayFinishWithoutTools(l), m)
      /\ IF nudge THEN pc' = "head" /\ UNCHANGED <<final, batch, pool, next, results, stopped>>
         ELSE EndTurn
      /\ UNCHANGED <<turn, ran, unclear>>
  BY DEF Answer, l
<1> HIDE DEF m
<1>6. MayComplete(loop) /\ MayFinishWithoutTools(l)
  BY <1>0, <1>2, <1>3 DEF MayComplete, MayFinishWithoutTools
<1>7. loop' = m /\ error' = FALSE
  BY <1>0, <1>5, <1>6 DEF Protocol
<1>8. /\ batch' = <<>> /\ next' = 1 /\ results' = <<>> /\ pool' = FALSE
      /\ pc' \in {"idle", "head", "stream"} /\ InPhase(pc', loop.phase')
  <2>1. CASE nudge
    BY <1>0, <1>4, <1>5, <1>7, <2>1 DEF Between, InPhase, Batching
  <2>2. CASE ~nudge
    BY <1>5, <2>2, EndTurnIsBetween
  <2> QED
    BY <2>1, <2>2
<1> QED
  BY <1>0, <1>2, <1>4, <1>5, <1>7, <1>8, OutsideKeeps

LEMMA FinalizationRefusedKeeps ==
    ASSUME TurnInv, NEW calls \in Calls, FinalizationRefused(calls)
    PROVE  TurnInv'
<1> DEFINE l == Complete(loop, Ids(calls))
           m == Cancelled(l)
<1>0. /\ turn \in 0..MaxTurns /\ Well(loop) /\ error = FALSE
      /\ loop.phase = "model_inflight"
  BY DEF TurnInv, Base, FinalizationRefused, InPhase
<1>1. Ids(calls) \in Seq(CallIds)
  BY CallsTyped
<1>2. /\ Well(l) /\ loop.seen \subseteq l.seen /\ l.uncertain = loop.uncertain
  BY ONLY <1>0, <1>1, CompleteWell
<1>3. /\ Protocol(MayComplete(loop), m) /\ EndTurn
      /\ UNCHANGED <<turn, ran, unclear>>
  BY DEF FinalizationRefused
<1> HIDE DEF l
<1>4. Well(m) /\ m.seen = l.seen /\ l.uncertain \subseteq m.uncertain
  <2>1. "cancelled" \in Terminal
    BY DEF Terminal
  <2> QED
    BY <1>2, <2>1, InterruptedWell
<1> HIDE DEF m
<1>5. loop' = m /\ error' = FALSE
  BY <1>0, <1>3 DEF Protocol, MayComplete
<1> QED
  BY <1>0, <1>2, <1>3, <1>4, <1>5, EndTurnIsBetween, OutsideKeeps

LEMMA EscapesKeeps ==
    ASSUME TurnInv, Escapes
    PROVE  TurnInv'
<1>1. EndTurn /\ UNCHANGED <<turn, loop, error, ran, unclear>>
  BY DEF Escapes
<1> QED
  BY <1>1, EndTurnIsBetween, OutsideKeeps DEF TurnInv, Base

\* finish_tool_batch(): every call has been dispatched and has its result.
LEMMA EndBatchKeeps ==
    ASSUME TurnInv, NEW on \in BOOLEAN, NEW prompts \in 0..MaxPrompts, EndBatch(on, prompts)
    PROVE  TurnInv'
<1> DEFINE m == IF stopped THEN Cancelled(Ready(loop)) ELSE Ready(loop)
<1>0. /\ turn \in 0..MaxTurns /\ Well(loop) /\ error = FALSE
      /\ loop.phase = "tools_inflight"
      /\ InBatch
      /\ loop.expected \in Seq(CallIds)
  BY DEF TurnInv, Base, EndBatch, InPhase, Batching, Well, Loops
<1>1. /\ Protocol(MayFinishBatch(loop), m)
      /\ ~(next <= Len(batch)) /\ (pc = "consume" \/ (pc = "batch" /\ ~pool))
      /\ stopped => ~on
      /\ IF on THEN /\ pc' = "head"
                    /\ batch' = <<>> /\ pool' = FALSE /\ next' = 1 /\ results' = <<>>
                    /\ UNCHANGED <<final, stopped>>
         ELSE EndTurn
      /\ UNCHANGED <<turn, ran, unclear>>
  BY DEF EndBatch, More
<1>2. MayFinishBatch(loop)
  <2>1. Len(batch) \in Nat /\ Len(batch) = Len(loop.expected) /\ next - 1 = Len(batch)
    BY <1>0, <1>1 DEF InBatch
  <2>2. ToSet(loop.expected) = Sofar(loop.expected, Len(batch))
    BY <1>0, <2>1 DEF ToSet, Sofar
  <2>3. /\ loop.dispatched = Sofar(loop.expected, Len(batch))
        /\ loop.completed = Sofar(loop.expected, Len(batch))
    BY <1>0, <1>1, <2>1 DEF InBatch, InOrderOfBatch
  <2> QED
    BY <1>0, <2>2, <2>3 DEF MayFinishBatch
<1>3. LET r == Ready(loop) IN
      Well(r) /\ r.phase = "ready" /\ r.seen = loop.seen /\ r.uncertain = loop.uncertain
  <2>1. "ready" \in Phases \ {"model_inflight"} /\ Ready(loop) = [loop EXCEPT !.phase = "ready"]
    BY DEF Phases, Ready
  <2> QED
    BY ONLY <1>0, <2>1, PhaseWell
<1>4. /\ Well(m) /\ m.seen = loop.seen /\ loop.uncertain \subseteq m.uncertain
      /\ on => m.phase = "ready"
  <2>1. CASE stopped
    <3>1. "cancelled" \in Terminal
      BY DEF Terminal
    <3>2. m = Cancelled(Ready(loop)) /\ ~on
      BY <1>1, <2>1
    <3> QED
      BY <1>3, <3>1, <3>2, InterruptedWell
  <2>2. CASE ~stopped
    BY <1>3, <2>2
  <2> QED
    BY <2>1, <2>2
<1> HIDE DEF m
<1>5. loop' = m /\ error' = FALSE
  BY <1>0, <1>1, <1>2 DEF Protocol
<1>6. /\ batch' = <<>> /\ next' = 1 /\ results' = <<>> /\ pool' = FALSE
      /\ pc' \in {"idle", "head", "stream"} /\ InPhase(pc', loop.phase')
  <2>1. CASE on
    BY <1>1, <1>4, <1>5, <2>1 DEF InPhase, Batching
  <2>2. CASE ~on
    BY <1>1, <2>2, EndTurnIsBetween
  <2> QED
    BY <2>1, <2>2
<1> QED
  BY <1>0, <1>1, <1>4, <1>5, <1>6, OutsideKeeps

-----------------------------------------------------------------------------
(* Steps of a batch *)

LEMMA SofarGrows ==
    ASSUME NEW e \in Seq(CallIds), IsInjective(e)
    PROVE  /\ Sofar(e, 0) = {} /\ Sofar(e, Len(e)) = ToSet(e)
           /\ \A n \in 1..Len(e) : /\ Sofar(e, n) = Sofar(e, n - 1) \cup {e[n]}
                                   /\ e[n] \notin Sofar(e, n - 1)
                                   /\ e[n] \in ToSet(e)
<1>1. Len(e) \in Nat /\ DOMAIN e = 1..Len(e)
  OBVIOUS
<1>2. \A i, k \in 1..Len(e) : e[i] = e[k] => i = k
  BY <1>1 DEF IsInjective
<1>3. Sofar(e, 0) = {} /\ Sofar(e, Len(e)) = ToSet(e)
  BY <1>1 DEF Sofar, ToSet
<1>4. ASSUME NEW n \in 1..Len(e)
      PROVE  /\ Sofar(e, n) = Sofar(e, n - 1) \cup {e[n]}
             /\ e[n] \notin Sofar(e, n - 1)
             /\ e[n] \in ToSet(e)
  <2>1. \A i \in 1..n : i \in 1..(n - 1) \/ i = n
    BY <1>1
  <2>2. \A i \in 1..(n - 1) : i \in 1..n /\ i \in 1..Len(e) /\ i # n
    BY <1>1
  <2>3. Sofar(e, n) = Sofar(e, n - 1) \cup {e[n]}
    BY <2>1, <2>2 DEF Sofar
  <2>4. e[n] \notin Sofar(e, n - 1)
    BY <1>2, <2>2 DEF Sofar
  <2> QED
    BY <1>1, <2>3, <2>4 DEF ToSet
<1> QED
  BY <1>3, <1>4

\* A reply that calls tools: none of its ids was used before.
LEMMA ToolCallsKeeps ==
    ASSUME TurnInv, NEW calls \in Calls, NEW parallel \in BOOLEAN, ToolCalls(calls, parallel)
    PROVE  TurnInv'
<1> DEFINE l == Complete(loop, Ids(calls))
           m == BeginBatch(l)
           N == Len(calls)
<1>0. /\ turn \in 0..MaxTurns /\ Well(loop) /\ error = FALSE
      /\ loop.phase = "model_inflight"
      /\ ran \in Seq(CallIds) /\ IsInjective(ran) /\ ToSet(ran) \subseteq loop.seen
      /\ unclear \subseteq loop.uncertain
  BY DEF TurnInv, Base, ToolCalls, InPhase
<1>1. /\ calls \in Seq(Call) /\ N \in Nat \ {0} /\ DOMAIN calls = 1..N
      /\ Ids(calls) \in Seq(CallIds) /\ Len(Ids(calls)) = N
  BY CallsTyped
<1>2. /\ Well(l) /\ l.phase = "model_complete"
      /\ l.expected \in Seq(CallIds) /\ Len(l.expected) = N
      /\ ToSet(l.expected) \cap loop.seen = {}
      /\ loop.seen \subseteq l.seen /\ l.uncertain = loop.uncertain
      /\ l.dispatched = {} /\ l.completed = {}
  BY ONLY <1>0, <1>1, CompleteWell
<1>3. /\ parallel => PoolAllowed(l, calls)
      /\ Protocol(MayComplete(loop) /\ MayBeginBatch(l), m)
      /\ batch' = [i \in DOMAIN calls |-> [id |-> l.expected[i], kind |-> calls[i].kind]]
      /\ pool' = parallel
      /\ next' = 1 /\ results' = [i \in DOMAIN calls |-> "none"]
      /\ pc' = "batch"
      /\ UNCHANGED <<turn, ran, unclear>>
  BY DEF ToolCalls
<1> HIDE DEF l
<1>4. /\ Well(m) /\ m.phase = "tools_inflight"
      /\ m.expected = l.expected /\ m.violated = l.violated
      /\ m.seen = l.seen /\ m.uncertain = l.uncertain
      /\ m.dispatched = l.dispatched /\ m.completed = l.completed
  <2>1. "tools_inflight" \in Phases \ {"model_inflight"} /\ m = [l EXCEPT !.phase = "tools_inflight"]
    BY DEF Phases, BeginBatch
  <2> HIDE DEF m
  <2> QED
    BY ONLY <1>2, <2>1, PhaseWell
<1> HIDE DEF m
<1>5. MayComplete(loop) /\ MayBeginBatch(l)
  BY <1>0, <1>1, <1>2 DEF MayComplete, MayBeginBatch
<1>6. loop' = m /\ error' = FALSE
  BY <1>0, <1>3, <1>5 DEF Protocol
<1>7. Base'
  <2>1. InPhase("batch", "tools_inflight")
    BY DEF InPhase
  <2>2. ToSet(ran) \subseteq m.seen /\ unclear \subseteq m.uncertain
    BY <1>0, <1>2, <1>4
  <2> QED
    BY <1>0, <1>3, <1>4, <1>6, <2>1, <2>2 DEF Base
<1>8. InBatch'
  <2> DEFINE b == [i \in 1..N |-> [id |-> l.expected[i], kind |-> calls[i].kind]]
             r == [i \in 1..N |-> "none"]
  <2>1. \A i \in 1..N : calls[i].kind \in {"read", "write"} /\ l.expected[i] \in CallIds
    <3>1. \A i \in 1..N : calls[i] \in Call
      BY <1>1
    <3>2. \A i \in 1..N : l.expected[i] \in CallIds
      BY <1>2
    <3> QED
      BY <3>1, <3>2 DEF Call
  <2>2. b \in [1..N -> Call] /\ r \in [1..N -> {"none", "queued", "done"}]
    BY <2>1 DEF Call
  <2>3. /\ b \in Seq(Call) /\ Len(b) = N /\ \A i \in 1..N : b[i].id = l.expected[i]
        /\ r \in Seq({"none", "queued", "done"}) /\ Len(r) = N /\ \A i \in 1..N : r[i] = "none"
    BY <1>1, <2>2
  <2>4. batch' = b /\ results' = r /\ next' = 1 /\ pool' = parallel /\ pc' = "batch"
    BY <1>1, <1>3
  <2> HIDE DEF b, r
  <2>5. Sofar(l.expected, 0) = {} /\ 1 - 1 = 0 /\ 1 \in 1..(N + 1)
    BY <1>1, <1>2 DEF Sofar
  <2>6. InOrderOfBatch'
    BY <1>2, <1>4, <1>6, <2>3, <2>4, <2>5 DEF InOrderOfBatch
  <2>7. ToSet(ran) \cap ToSet(l.expected) = {}
    BY <1>0, <1>2
  <2>8. \A i \in 1..N : l.expected[i] \notin ToSet(ran)
    <3>1. DOMAIN l.expected = 1..N
      BY <1>2
    <3> QED
      BY <2>7, <3>1 DEF ToSet
  <2>9. NotYetRun'
    BY <1>3, <1>4, <1>6, <2>3, <2>4, <2>7, <2>8 DEF NotYetRun
  <2>10. parallel => ~l.violated
    BY <1>3 DEF PoolAllowed
  <2> QED
    BY <1>2, <1>4, <1>6, <2>3, <2>4, <2>5, <2>6, <2>9, <2>10 DEF InBatch
<1> QED
  BY <1>3, <1>7, <1>8 DEF TurnInv, Batching

\* What a step of a batch starts from.
LEMMA BatchState ==
    ASSUME TurnInv, pc \in Batching
    PROVE  /\ Base /\ InBatch /\ InOrderOfBatch /\ NotYetRun
           /\ Well(loop) /\ loop.phase = "tools_inflight" /\ error = FALSE
           /\ loop.expected \in Seq(CallIds) /\ IsInjective(loop.expected)
           /\ DOMAIN loop.expected = 1..Len(batch) /\ Len(batch) \in Nat
           /\ loop.dispatched \subseteq CallIds /\ loop.completed \subseteq CallIds
           /\ DOMAIN results = 1..Len(batch) /\ DOMAIN batch = 1..Len(batch)
           /\ ToSet(loop.expected) = {loop.expected[i] : i \in 1..Len(batch)}
           /\ next \in 1..(Len(batch) + 1) /\ next \in Nat
           /\ pool \in BOOLEAN
<1>1. Base /\ InBatch /\ InOrderOfBatch /\ NotYetRun /\ loop.phase = "tools_inflight"
  BY DEF TurnInv, Base, InBatch, InPhase
<1>2. Well(loop) /\ loop.expected \in Seq(CallIds) /\ IsInjective(loop.expected) /\ error = FALSE
  BY <1>1 DEF Base, Well, Loops
<1>3. loop.dispatched \subseteq CallIds /\ loop.completed \subseteq CallIds
  BY <1>2 DEF Well, Loops
<1>4. /\ batch \in Seq(Call) /\ results \in Seq({"none", "queued", "done"})
      /\ Len(batch) = Len(loop.expected) /\ Len(results) = Len(batch)
      /\ next \in 1..(Len(batch) + 1)
  BY <1>1 DEF InBatch
<1>5. DOMAIN loop.expected = 1..Len(batch) /\ Len(batch) \in Nat /\ DOMAIN results = 1..Len(batch)
      /\ DOMAIN batch = 1..Len(batch)
  BY <1>2, <1>4
<1>6. ToSet(loop.expected) = {loop.expected[i] : i \in 1..Len(batch)}
  BY <1>5 DEF ToSet
<1>7. next \in Nat /\ pool \in BOOLEAN
  BY <1>1, <1>4, <1>5 DEF Base
<1> QED
  BY <1>1, <1>2, <1>3, <1>4, <1>5, <1>6, <1>7

LEMMA DispatchKeeps ==
    ASSUME TurnInv, Dispatch
    PROVE  TurnInv'
<1> DEFINE c == batch[next]
           e == loop.expected
           m == RecordDispatch(loop, c.id, c.kind = "write")
<1>1. /\ pc = "batch" /\ next <= Len(batch)
      /\ Protocol(MayDispatch(loop, c.id), m)
      /\ IF pool THEN /\ results' = [results EXCEPT ![next] = "queued"]
                      /\ next' = next + 1
                      /\ UNCHANGED pc
                 ELSE pc' = "tool" /\ UNCHANGED <<results, next>>
      /\ UNCHANGED <<turn, history, batch, pool, ran, unclear>>
  BY DEF Dispatch, More
<1>2. /\ Base /\ InBatch /\ InOrderOfBatch /\ NotYetRun
      /\ Well(loop) /\ loop.phase = "tools_inflight" /\ error = FALSE
      /\ e \in Seq(CallIds) /\ IsInjective(e)
      /\ DOMAIN e = 1..Len(batch) /\ Len(batch) \in Nat
      /\ DOMAIN results = 1..Len(batch)
      /\ ToSet(e) = {e[i] : i \in 1..Len(batch)}
      /\ next \in 1..(Len(batch) + 1) /\ next \in Nat
      /\ pool \in BOOLEAN
  BY <1>1, BatchState DEF Batching
<1>3. next \in 1..Len(batch) /\ c.id = e[next] /\ Len(e) = Len(batch)
  BY <1>1, <1>2 DEF InBatch
<1>4. /\ Sofar(e, next) = Sofar(e, next - 1) \cup {c.id}
      /\ c.id \notin Sofar(e, next - 1) /\ c.id \in ToSet(e)
  BY <1>2, <1>3, SofarGrows
<1>5. /\ loop.dispatched = Sofar(e, next - 1)
      /\ loop.completed = IF pool THEN {} ELSE Sofar(e, next - 1)
      /\ pool => \A i \in next..Len(batch) : results[i] = "none"
  BY <1>1, <1>2 DEF InOrderOfBatch
<1>6. MayDispatch(loop, c.id)
  BY <1>2, <1>4, <1>5 DEF MayDispatch
<1>7. /\ Well(m) /\ m.phase = "tools_inflight"
      /\ m.expected = loop.expected /\ m.violated = loop.violated
      /\ m.seen = loop.seen /\ m.uncertain = loop.uncertain
      /\ m.dispatched = loop.dispatched \cup {c.id} /\ m.completed = loop.completed
      /\ c.kind = "write" => c.id \in m.mutations
  <2> DEFINE k == IF c.kind = "write" THEN loop.mutations \cup {c.id} ELSE loop.mutations
             id == c.id
  <2>1. loop.phase # "model_inflight" /\ k \in {loop.mutations, loop.mutations \cup {id}}
    BY <1>2
  <2>2. m = [loop EXCEPT !.dispatched = loop.dispatched \cup {id}, !.mutations = k]
    BY <1>2 DEF RecordDispatch, Well, Loops
  <2>3. id \in ToSet(loop.expected) /\ id \in CallIds
    BY <1>2, <1>4 DEF Well, Loops
  <2> HIDE DEF m, k, id
  <2>4. /\ Well(m) /\ m.phase = loop.phase
        /\ m.expected = loop.expected /\ m.violated = loop.violated
        /\ m.seen = loop.seen /\ m.uncertain = loop.uncertain
        /\ m.dispatched = loop.dispatched \cup {id} /\ m.completed = loop.completed
        /\ m.mutations = k
    <3>1. /\ m \in Loops /\ m.phase = loop.phase
          /\ m.expected = loop.expected /\ m.violated = loop.violated
          /\ m.seen = loop.seen /\ m.uncertain = loop.uncertain
          /\ m.dispatched = loop.dispatched \cup {id} /\ m.completed = loop.completed
          /\ m.mutations = k
      BY <1>2, <2>1, <2>2, <2>3 DEF Well, Loops
    <3> QED
      BY <1>2, <2>1, <2>3, <3>1 DEF Well
  <2> QED
    BY <1>2, <2>4 DEF k, id
<1> HIDE DEF m
<1>8. loop' = m /\ error' = FALSE
  BY <1>1, <1>2, <1>6 DEF Protocol
<1>9. pc' \in Batching /\ pc' \in {"batch", "tool"} /\ batch' = batch
  BY <1>1 DEF Batching
<1>10. Base'
  BY <1>1, <1>2, <1>7, <1>8, <1>9 DEF Base, InPhase
<1>11. CASE pool
  <2>1. /\ results' = [results EXCEPT ![next] = "queued"] /\ next' = next + 1
        /\ pc' = "batch" /\ pool'
    BY <1>1, <1>11
  <2>2. /\ results' \in Seq({"none", "queued", "done"}) /\ Len(results') = Len(batch)
        /\ results'[next] = "queued"
        /\ \A i \in 1..Len(batch) : i # next => results'[i] = results[i]
    BY <1>2, <1>3, <2>1 DEF InBatch
  <2>3. next' - 1 = next /\ next' \in 1..(Len(batch) + 1)
    BY <1>2, <1>3, <2>1
  <2>4. \A i \in next'..Len(batch) : i \in next..Len(batch) /\ i \in 1..Len(batch) /\ i # next
    BY <1>2, <1>3, <2>1
  <2>5. \A i \in next'..Len(batch) : results'[i] = "none"
    BY <1>5, <1>11, <2>2, <2>4
  <2>6. InOrderOfBatch'
    BY <1>1, <1>4, <1>5, <1>7, <1>8, <1>11, <2>1, <2>3, <2>5 DEF InOrderOfBatch
  <2>7. results[next] = "none"
    BY <1>2, <1>3, <1>5, <1>11
  <2>8. NotYetRun'
    BY <1>1, <1>2, <1>7, <1>8, <1>11, <2>1, <2>2, <2>7 DEF NotYetRun
  <2> QED
    BY <1>1, <1>2, <1>7, <1>8, <1>9, <1>10, <2>1, <2>2, <2>3, <2>6, <2>8 DEF TurnInv, InBatch
<1>12. CASE ~pool
  <2>1. pc' = "tool" /\ UNCHANGED <<results, next>> /\ ~pool'
    BY <1>1, <1>12
  <2>2. InOrderOfBatch'
    BY <1>1, <1>3, <1>4, <1>5, <1>7, <1>8, <1>12, <2>1 DEF InOrderOfBatch
  <2>3. NotYetRun'
    BY <1>1, <1>2, <1>7, <1>8, <1>12, <2>1 DEF NotYetRun
  <2> QED
    BY <1>1, <1>2, <1>7, <1>8, <1>9, <1>10, <2>1, <2>2, <2>3 DEF TurnInv, InBatch
<1> QED
  BY <1>2, <1>11, <1>12

\* A tool runs one more call, whose id has not run in this turn.
LEMMA RanOnce ==
    ASSUME NEW r \in Seq(CallIds), IsInjective(r), NEW id \in CallIds, id \notin ToSet(r),
           NEW s, s = Append(r, id)
    PROVE  /\ s \in Seq(CallIds) /\ IsInjective(s)
           /\ ToSet(s) = ToSet(r) \cup {id}
<1>1. /\ s \in Seq(CallIds) /\ Len(s) = Len(r) + 1 /\ DOMAIN s = 1..(Len(r) + 1)
      /\ Len(r) \in Nat /\ DOMAIN r = 1..Len(r)
      /\ s[Len(r) + 1] = id /\ \A i \in 1..Len(r) : s[i] = r[i]
  OBVIOUS
<1>2. \A i \in 1..(Len(r) + 1) : i \in 1..Len(r) \/ i = Len(r) + 1
  BY <1>1
<1>3. \A i \in 1..Len(r) : r[i] # id /\ i \in 1..(Len(r) + 1) /\ i # Len(r) + 1
  BY <1>1 DEF ToSet
<1>4. \A i, k \in 1..Len(r) : r[i] = r[k] => i = k
  BY <1>1 DEF IsInjective
<1>5. \A i, k \in 1..(Len(r) + 1) : s[i] = s[k] => i = k
  BY <1>1, <1>2, <1>3, <1>4
<1>6. IsInjective(s)
  BY <1>1, <1>5 DEF IsInjective
<1>7. ToSet(s) = ToSet(r) \cup {id}
  BY <1>1, <1>2, <1>3 DEF ToSet
<1> QED
  BY <1>1, <1>6, <1>7

\* A result for the call that is due is accepted.
LEMMA ResultAccepted ==
    ASSUME TurnInv, pc \in {"tool", "consume"}, next <= Len(batch), NEW u \in BOOLEAN,
           Consume(batch[next], u)
    PROVE  /\ Well(loop') /\ loop'.phase = "tools_inflight" /\ error' = FALSE
           /\ loop'.expected = loop.expected /\ loop'.violated = loop.violated
           /\ loop'.seen = loop.seen
           /\ loop'.dispatched = loop.dispatched
           /\ loop'.completed = Sofar(loop.expected, next)
           /\ loop.uncertain \subseteq loop'.uncertain
           /\ u /\ batch[next].id \in loop.mutations => batch[next].id \in loop'.uncertain
           /\ history' = Append(history, Result(batch[next]))
<1> DEFINE id == batch[next].id
           e == loop.expected
           m == RecordResult(loop, id, u)
<1>1. /\ InBatch /\ InOrderOfBatch
      /\ Well(loop) /\ loop.phase = "tools_inflight" /\ error = FALSE
      /\ e \in Seq(CallIds) /\ IsInjective(e)
      /\ DOMAIN e = 1..Len(batch) /\ Len(batch) \in Nat
      /\ next \in 1..(Len(batch) + 1) /\ next \in Nat
  BY BatchState DEF Batching
<1>2. next \in 1..Len(batch) /\ id = e[next] /\ Len(e) = Len(batch)
  BY <1>1 DEF InBatch
<1>3. /\ Sofar(e, next) = Sofar(e, next - 1) \cup {id}
      /\ id \notin Sofar(e, next - 1)
      /\ Sofar(e, Len(batch)) = ToSet(e) /\ id \in ToSet(e)
      /\ id \in Sofar(e, next)
  BY <1>1, <1>2, SofarGrows
<1>4. loop.completed = Sofar(e, next - 1) /\ id \in loop.dispatched
  BY <1>1, <1>3 DEF InOrderOfBatch
<1>5. MayResult(loop, id)
  BY <1>1, <1>3, <1>4 DEF MayResult
<1>6. Protocol(MayResult(loop, id), m) /\ history' = Append(history, Result(batch[next]))
  BY DEF Consume
<1>7. loop' = m /\ error' = FALSE
  BY <1>1, <1>5, <1>6 DEF Protocol
<1>8. loop.phase # "model_inflight"
  BY <1>1
<1>9. /\ Well(m) /\ m.phase = loop.phase
      /\ m.expected = loop.expected /\ m.violated = loop.violated
      /\ m.seen = loop.seen
      /\ m.dispatched = loop.dispatched /\ m.completed = loop.completed \cup {id}
      /\ loop.uncertain \subseteq m.uncertain
      /\ u /\ id \in loop.mutations => id \in m.uncertain
  BY <1>1, <1>4, <1>8, ResultWell
<1> HIDE DEF m
<1> QED
  BY <1>1, <1>3, <1>4, <1>6, <1>7, <1>9

LEMMA ToolReturnsKeeps ==
    ASSUME TurnInv, NEW runs \in BOOLEAN, NEW unknown \in BOOLEAN, NEW caught \in BOOLEAN,
           ToolReturns(runs, unknown, caught)
    PROVE  TurnInv'
<1> DEFINE c == batch[next]
           e == loop.expected
<1>1. /\ pc = "tool" /\ pc' = "batch"
      /\ runs => ~loop.violated
      /\ unknown => runs /\ c.kind = "write"
      /\ ran' = IF runs THEN Append(ran, c.id) ELSE ran
      /\ unclear' = IF unknown THEN unclear \cup {c.id} ELSE unclear
      /\ Consume(c, unknown)
      /\ next' = next + 1
      /\ UNCHANGED <<turn, batch, pool, results>>
  BY DEF ToolReturns
<1>2. /\ Base /\ InBatch /\ InOrderOfBatch /\ NotYetRun
      /\ Well(loop)
      /\ e \in Seq(CallIds) /\ IsInjective(e)
      /\ DOMAIN e = 1..Len(batch) /\ Len(batch) \in Nat
      /\ ToSet(e) = {e[i] : i \in 1..Len(batch)}
      /\ next \in 1..(Len(batch) + 1) /\ next \in Nat
  BY <1>1, BatchState DEF Batching
<1>3. /\ ~pool /\ next <= Len(batch)
      /\ loop.dispatched = Sofar(e, next)
      /\ c.kind = "write" => c.id \in loop.mutations
  BY <1>1, <1>2 DEF InOrderOfBatch
<1>4. next \in 1..Len(batch) /\ c.id = e[next] /\ c.id \in ToSet(e)
  BY <1>2, <1>3 DEF InBatch
<1>5. /\ Well(loop') /\ loop'.phase = "tools_inflight" /\ error' = FALSE
      /\ loop'.expected = e /\ loop'.violated = loop.violated
      /\ loop'.seen = loop.seen
      /\ loop'.dispatched = loop.dispatched
      /\ loop'.completed = Sofar(e, next)
      /\ loop.uncertain \subseteq loop'.uncertain
      /\ unknown /\ c.id \in loop.mutations => c.id \in loop'.uncertain
  BY <1>1, <1>3, ResultAccepted
<1>6. unclear' \subseteq loop'.uncertain
  <2>1. unclear \subseteq loop.uncertain
    BY <1>2 DEF Base
  <2> QED
    BY <1>1, <1>3, <1>5, <2>1
<1>7. c.id \notin ToSet(ran)
  BY <1>2, <1>3, <1>4 DEF NotYetRun
<1>8. /\ ran' \in Seq(CallIds) /\ IsInjective(ran')
      /\ ToSet(ran') \subseteq ToSet(ran) \cup {c.id}
      /\ loop.violated => ran' = ran
  <2>1. ran \in Seq(CallIds) /\ IsInjective(ran) /\ c.id \in CallIds
    BY <1>2, <1>4 DEF Base
  <2>2. CASE runs
    <3>1. ran' = Append(ran, c.id)
      BY <1>1, <2>2
    <3>2. ran' \in Seq(CallIds) /\ IsInjective(ran') /\ ToSet(ran') = ToSet(ran) \cup {c.id}
      BY <1>7, <2>1, <3>1, RanOnce
    <3> QED
      BY <1>1, <2>2, <3>2
  <2>3. CASE ~runs
    BY <1>1, <2>1, <2>3
  <2> QED
    BY <2>2, <2>3
<1>9. c.id \in loop.seen /\ ToSet(ran) \subseteq loop.seen
  BY <1>2, <1>4 DEF Base, Well
<1>10. Base'
  <2>1. InPhase("batch", "tools_inflight")
    BY DEF InPhase
  <2> QED
    BY <1>1, <1>2, <1>5, <1>6, <1>8, <1>9, <2>1 DEF Base
<1>11. next' - 1 = next /\ next' \in 1..(Len(batch) + 1)
  BY <1>1, <1>2, <1>4
<1>12. InOrderOfBatch'
  BY <1>1, <1>3, <1>5, <1>11 DEF InOrderOfBatch
<1>13. NotYetRun'
  <2>1. \A i \in 1..Len(batch) : next' <= i => next <= i /\ e[i] # c.id
    BY <1>1, <1>2, <1>4 DEF IsInjective
  <2>2. \A i \in 1..Len(batch) : next <= i => e[i] \notin ToSet(ran)
    BY <1>2, <1>3 DEF NotYetRun
  <2>3. \A i \in 1..Len(batch) : next' <= i => e[i] \notin ToSet(ran')
    BY <1>8, <2>1, <2>2
  <2>4. loop.violated => ToSet(ran') \cap ToSet(e) = {}
    BY <1>2, <1>8 DEF NotYetRun
  <2> QED
    BY <1>1, <1>3, <1>5, <2>3, <2>4 DEF NotYetRun
<1> QED
  BY <1>1, <1>2, <1>3, <1>5, <1>10, <1>11, <1>12, <1>13 DEF TurnInv, InBatch, Batching

LEMMA PoolRunsKeeps ==
    ASSUME TurnInv, NEW i \in 1..MaxCalls, NEW runs \in BOOLEAN, PoolRuns(i, runs)
    PROVE  TurnInv'
<1> DEFINE e == loop.expected
<1>1. /\ pc = "batch" /\ pool
      /\ i \in DOMAIN results /\ results[i] = "queued"
      /\ results' = [results EXCEPT ![i] = "done"]
      /\ ran' = IF runs THEN Append(ran, batch[i].id) ELSE ran
      /\ UNCHANGED <<turn, pc, loop, batch, pool, next, error, unclear>>
  BY DEF PoolRuns
<1>2. /\ Base /\ InBatch /\ InOrderOfBatch /\ NotYetRun
      /\ Well(loop)
      /\ e \in Seq(CallIds) /\ IsInjective(e)
      /\ DOMAIN e = 1..Len(batch) /\ Len(batch) \in Nat
      /\ DOMAIN results = 1..Len(batch)
      /\ ToSet(e) = {e[k] : k \in 1..Len(batch)}
      /\ next \in Nat
  BY <1>1, BatchState DEF Batching
<1>3. i \in 1..Len(batch) /\ batch[i].id = e[i] /\ e[i] \in ToSet(e) /\ ~loop.violated
  BY <1>1, <1>2 DEF InBatch
<1>4. e[i] \notin ToSet(ran)
  BY <1>1, <1>2, <1>3 DEF NotYetRun
<1>5. /\ ran' \in Seq(CallIds) /\ IsInjective(ran')
      /\ ToSet(ran') \subseteq ToSet(ran) \cup {e[i]}
  <2>1. ran \in Seq(CallIds) /\ IsInjective(ran) /\ e[i] \in CallIds
    BY <1>2, <1>3 DEF Base
  <2>2. CASE runs
    <3>1. ran' = Append(ran, e[i])
      BY <1>1, <1>3, <2>2
    <3>2. ran' \in Seq(CallIds) /\ IsInjective(ran') /\ ToSet(ran') = ToSet(ran) \cup {e[i]}
      BY <1>4, <2>1, <3>1, RanOnce
    <3> QED
      BY <3>2
  <2>3. CASE ~runs
    BY <1>1, <2>1, <2>3
  <2> QED
    BY <2>2, <2>3
<1>6. e[i] \in loop.seen /\ ToSet(ran) \subseteq loop.seen
  BY <1>2, <1>3 DEF Base, Well
<1>7. Base'
  BY <1>1, <1>2, <1>5, <1>6 DEF Base
<1>8. /\ results' \in Seq({"none", "queued", "done"}) /\ Len(results') = Len(batch)
      /\ results'[i] = "done"
      /\ \A k \in 1..Len(batch) : k # i => results'[k] = results[k]
  BY <1>1, <1>2, <1>3 DEF InBatch
<1>9. \A k \in next..Len(batch) : k # i /\ k \in 1..Len(batch)
  <2>1. \A k \in next..Len(batch) : results[k] = "none"
    BY <1>1, <1>2 DEF InOrderOfBatch
  <2>2. 1 <= next
    BY <1>2 DEF InBatch
  <2> QED
    BY <1>1, <1>2, <2>1, <2>2
<1>10. InOrderOfBatch'
  BY <1>1, <1>2, <1>8, <1>9 DEF InOrderOfBatch
<1>11. NotYetRun'
  <2>1. \A k \in 1..Len(batch) : results'[k] # "done" => k # i /\ results[k] # "done"
    BY <1>8
  <2>2. \A k \in 1..Len(batch) : k # i => e[k] # e[i]
    BY <1>2, <1>3 DEF IsInjective
  <2>3. \A k \in 1..Len(batch) : results[k] # "done" => e[k] \notin ToSet(ran)
    BY <1>1, <1>2 DEF NotYetRun
  <2>4. \A k \in 1..Len(batch) : results'[k] # "done" => e[k] \notin ToSet(ran')
    BY <1>5, <2>1, <2>2, <2>3
  <2> QED
    BY <1>1, <1>3, <2>4 DEF NotYetRun
<1> QED
  BY <1>1, <1>2, <1>7, <1>8, <1>10, <1>11 DEF TurnInv, InBatch, Batching

LEMMA CollectKeeps ==
    ASSUME TurnInv, NEW interrupted \in BOOLEAN, Collect(interrupted)
    PROVE  TurnInv'
<1>1. /\ pc = "batch" /\ pool /\ ~(next <= Len(batch)) /\ next' = 1 /\ pc' = "consume"
      /\ UNCHANGED <<turn, loop, batch, pool, results, error, ran, unclear>>
  BY DEF Collect, More
<1>2. /\ Base /\ InBatch /\ InOrderOfBatch /\ NotYetRun
      /\ loop.phase = "tools_inflight"
      /\ Len(batch) \in Nat /\ next \in 1..(Len(batch) + 1)
  BY <1>1, BatchState DEF Batching
<1>3. next - 1 = Len(batch) /\ next' - 1 = 0 /\ next' \in 1..(Len(batch) + 1)
  BY <1>1, <1>2
<1>4. loop.dispatched = Sofar(loop.expected, Len(batch)) /\ loop.completed = {}
      /\ Sofar(loop.expected, 0) = {}
  BY <1>1, <1>2, <1>3 DEF InOrderOfBatch, Sofar
<1>5. InOrderOfBatch'
  BY <1>1, <1>3, <1>4 DEF InOrderOfBatch
<1>6. NotYetRun'
  BY <1>1, <1>2 DEF NotYetRun
<1>7. Base'
  BY <1>1, <1>2 DEF Base, InPhase, Batching
<1> QED
  BY <1>1, <1>2, <1>3, <1>5, <1>6, <1>7 DEF TurnInv, InBatch, Batching

LEMMA ConsumePooledKeeps ==
    ASSUME TurnInv, ConsumePooled
    PROVE  TurnInv'
<1>1. /\ pc = "consume" /\ next <= Len(batch) /\ next' = next + 1
      /\ Consume(batch[next], FALSE)
      /\ UNCHANGED <<turn, pc, batch, pool, results, ran, unclear>>
  BY DEF ConsumePooled, More
<1>2. /\ Base /\ InBatch /\ InOrderOfBatch /\ NotYetRun
      /\ Len(batch) \in Nat /\ next \in 1..(Len(batch) + 1) /\ next \in Nat
  BY <1>1, BatchState DEF Batching
<1>3. /\ Well(loop') /\ loop'.phase = "tools_inflight" /\ error' = FALSE
      /\ loop'.expected = loop.expected /\ loop'.violated = loop.violated
      /\ loop'.seen = loop.seen
      /\ loop'.dispatched = loop.dispatched
      /\ loop'.completed = Sofar(loop.expected, next)
      /\ loop.uncertain \subseteq loop'.uncertain
  BY <1>1, ResultAccepted
<1>4. next' - 1 = next /\ next' \in 1..(Len(batch) + 1)
  BY <1>1, <1>2
<1>5. pool /\ loop.dispatched = Sofar(loop.expected, Len(batch))
  BY <1>1, <1>2 DEF InOrderOfBatch
<1>6. InOrderOfBatch'
  BY <1>1, <1>3, <1>4, <1>5 DEF InOrderOfBatch
<1>7. NotYetRun'
  BY <1>1, <1>2, <1>3, <1>5 DEF NotYetRun
<1>8. Base'
  BY <1>1, <1>2, <1>3 DEF Base, InPhase, Batching
<1> QED
  BY <1>1, <1>2, <1>3, <1>4, <1>6, <1>7, <1>8 DEF TurnInv, InBatch, Batching

LEMMA TurnStutters ==
    ASSUME TurnInv, UNCHANGED vars
    PROVE  TurnInv'
BY DEF TurnInv, Base, Between, InBatch, InOrderOfBatch, NotYetRun, vars

LEMMA TurnKeeps == TurnInv /\ [Next]_vars => TurnInv'
<1> SUFFICES ASSUME TurnInv, [Next]_vars
             PROVE  TurnInv'
  OBVIOUS
<1>1. CASE \/ StartTurn
           \/ \E fin, tight \in BOOLEAN : Request(fin, tight)
           \/ Stop
           \/ \E fin, tight \in BOOLEAN : ContextFails(fin, tight)
           \/ \E partial \in BOOLEAN :
                 StreamFails(partial, "interrupted") \/ StreamFails(partial, "timed_out")
           \/ \E partial \in BOOLEAN : StreamInterrupted(partial)
  BY <1>1, OutsideSteps
<1>2. CASE \E nudge \in BOOLEAN : Answer(nudge)
  BY <1>2, AnswerKeeps
<1>3. CASE \E calls \in Calls : FinalizationRefused(calls)
  BY <1>3, FinalizationRefusedKeeps
<1>4. CASE \E calls \in Calls, parallel \in BOOLEAN : ToolCalls(calls, parallel)
  BY <1>4, ToolCallsKeeps
<1>5. CASE Dispatch
  BY <1>5, DispatchKeeps
<1>6. CASE \E runs, unknown, caught \in BOOLEAN : ToolReturns(runs, unknown, caught)
  BY <1>6, ToolReturnsKeeps
<1>7. CASE \E i \in 1..MaxCalls, runs \in BOOLEAN : PoolRuns(i, runs)
  BY <1>7, PoolRunsKeeps
<1>8. CASE \E interrupted \in BOOLEAN : Collect(interrupted)
  BY <1>8, CollectKeeps
<1>9. CASE ConsumePooled
  BY <1>9, ConsumePooledKeeps
<1>10. CASE \E on \in BOOLEAN, prompts \in 0..MaxPrompts : EndBatch(on, prompts)
  BY <1>10, EndBatchKeeps
<1>11. CASE Escapes
  BY <1>11, EscapesKeeps
<1>12. CASE UNCHANGED vars
  BY <1>12, TurnStutters
<1> QED
  BY <1>1, <1>2, <1>3, <1>4, <1>5, <1>6, <1>7, <1>8, <1>9, <1>10, <1>11, <1>12 DEF Next

-----------------------------------------------------------------------------
(* What the turn promises *)

\* Whatever a provider sends and however the calls of a batch interleave, the
\* batch under way is the reply the loop state waits for, taken in order.
THEOREM TurnInvariant == Spec => []TurnInv
<1>1. Init => TurnInv
  BY TurnInitially
<1>2. TurnInv /\ [Next]_vars => TurnInv'
  BY TurnKeeps
<1> QED
  BY <1>1, <1>2, PTL DEF Spec

\* No tool call runs twice in a turn, whatever ids the provider repeats, and a
\* batch with a repeated id runs nothing.
THEOREM NoCallRunsTwice == Spec => []RunOnce
<1>1. TurnInv => RunOnce
  BY DEF TurnInv, Base, InBatch, NotYetRun, RunOnce, Batching
<1> QED
  BY <1>1, TurnInvariant, PTL

\* A mutation whose outcome is unknown stays known to the loop state until the
\* turn ends, and rules out a fallback to another provider.
THEOREM UncertaintyIsKept == Spec => []UncertaintyKept
<1>1. TurnInv => UncertaintyKept
  BY DEF TurnInv, Base, UncertaintyKept, FallbackSafe
<1> QED
  BY <1>1, TurnInvariant, PTL

-----------------------------------------------------------------------------
(* The elements at chosen positions *)

\* The place of i among the elements of S.
Rank(S, i) == Cardinality({j \in S : j <= i})

LEMMA RankGrows ==
    ASSUME NEW S \in SUBSET Nat, IsFiniteSet(S), NEW i \in S, NEW k \in S, i < k
    PROVE  Rank(S, i) < Rank(S, k)
<1> DEFINE A == {j \in S : j <= i}
           B == {j \in S : j <= k}
<1>1. \A j \in S : j <= i => j <= k
  OBVIOUS
<1>2. A \in SUBSET B /\ B \in SUBSET S /\ k \in B /\ k \notin A
  <2>1. i \in Nat /\ k \in Nat
    OBVIOUS
  <2>2. \A j \in A : j \in B
    BY <1>1
  <2>3. k \in B /\ k \notin A
    BY <2>1
  <2> QED
    BY <2>2, <2>3
<1> HIDE DEF A, B
<1>3. IsFiniteSet(B)
  BY <1>2, FS_Subset
<1>4. IsFiniteSet(A) /\ Cardinality(A) <= Cardinality(B) /\ Cardinality(A) # Cardinality(B)
  BY <1>2, <1>3, FS_Subset
<1>5. Cardinality(A) \in Nat /\ Cardinality(B) \in Nat
  BY <1>3, <1>4, FS_CardinalityType
<1> QED
  BY <1>4, <1>5 DEF Rank, A, B

\* Nth(S, _) lists the elements of S.
LEMMA NthEnumerates ==
    ASSUME NEW S \in SUBSET Nat, IsFiniteSet(S)
    PROVE  /\ Cardinality(S) \in Nat
           /\ \A i \in S : Rank(S, i) \in 1..Cardinality(S) /\ Nth(S, Rank(S, i)) = i
           /\ \A k \in 1..Cardinality(S) : Nth(S, k) \in S /\ Rank(S, Nth(S, k)) = k
<1> DEFINE n == Cardinality(S)
           rank == [i \in S |-> Rank(S, i)]
<1>1. n \in Nat
  BY FS_CardinalityType
<1>2. ASSUME NEW i \in S
      PROVE  Rank(S, i) \in 1..n
  <2> DEFINE A == {j \in S : j <= i}
  <2>1. A \in SUBSET S /\ A # {}
    OBVIOUS
  <2> HIDE DEF A
  <2>2. IsFiniteSet(A) /\ Cardinality(A) <= n /\ Cardinality(A) \in Nat /\ Cardinality(A) # 0
    BY <2>1, FS_Subset, FS_CardinalityType, FS_EmptySet
  <2> QED
    BY <1>1, <2>2 DEF Rank, A
<1>3. \A a, b \in S : a < b => Rank(S, a) < Rank(S, b)
  BY RankGrows
<1>4. ASSUME NEW a \in S, NEW b \in S, Rank(S, a) = Rank(S, b)
      PROVE  a = b
  <2>1. a \in Nat /\ b \in Nat /\ Rank(S, a) \in Int /\ Rank(S, b) \in Int
    BY <1>2
  <2> QED
    BY <1>3, <1>4, <2>1
<1>5. rank \in [S -> 1..n]
  BY <1>2
<1>6. \A a, b \in S : rank[a] = rank[b] => a = b
  BY <1>4
<1>7. \A i \in S : rank[i] = Rank(S, i)
  OBVIOUS
<1> HIDE DEF rank
<1>8. rank \in Injection(S, 1..n)
  BY <1>5, <1>6 DEF Injection, IsInjective
<1>9. IsFiniteSet(1..n) /\ Cardinality(1..n) = n
  <2>1. 1 \in Int /\ n \in Int
    BY <1>1
  <2> HIDE DEF n
  <2>2. IsFiniteSet(1..n) /\ Cardinality(1..n) = IF 1 > n THEN 0 ELSE n - 1 + 1
    BY ONLY <2>1, FS_Interval
  <2> QED
    BY <1>1, <2>2
<1>10. rank \in Surjection(S, 1..n)
  BY <1>8, <1>9, FS_Injection
<1>11. \A k \in 1..n : \E i \in S : Rank(S, i) = k
  BY <1>7, <1>10 DEF Surjection
<1>12. \A k : Nth(S, k) = CHOOSE i \in S : Rank(S, i) = k
  BY DEF Nth, Rank
<1>13. ASSUME NEW k \in 1..n
       PROVE  Nth(S, k) \in S /\ Rank(S, Nth(S, k)) = k
  <2>1. \E i \in S : Rank(S, i) = k
    BY <1>11
  <2> QED
    BY <1>12, <2>1
<1>14. \A i \in S : Nth(S, Rank(S, i)) = i
  <2> SUFFICES ASSUME NEW i \in S
               PROVE  Nth(S, Rank(S, i)) = i
    OBVIOUS
  <2>1. Nth(S, Rank(S, i)) \in S /\ Rank(S, Nth(S, Rank(S, i))) = Rank(S, i)
    BY <1>2, <1>13
  <2> QED
    BY <1>4, <2>1
<1> QED
  BY <1>1, <1>2, <1>13, <1>14 DEF n

\* Kept(s, S) lists the elements of s at S.
LEMMA KeptLists ==
    ASSUME NEW T, NEW s \in Seq(T), NEW S \in SUBSET DOMAIN s
    PROVE  /\ S \in SUBSET Nat /\ IsFiniteSet(S) /\ Cardinality(S) \in Nat
           /\ Kept(s, S) \in Seq(T) /\ Len(Kept(s, S)) = Cardinality(S)
           /\ \A i \in S : Rank(S, i) \in 1..Cardinality(S) /\ Nth(S, Rank(S, i)) = i
           /\ \A k \in 1..Cardinality(S) : /\ Nth(S, k) \in S /\ Rank(S, Nth(S, k)) = k
                                           /\ Kept(s, S)[k] = s[Nth(S, k)]
<1>1. DOMAIN s = 1..Len(s) /\ Len(s) \in Nat
  OBVIOUS
<1>2. S \in SUBSET Nat /\ IsFiniteSet(S)
  <2>1. 1 \in Int /\ Len(s) \in Int
    BY <1>1
  <2>2. IsFiniteSet(1..Len(s))
    BY <2>1, FS_Interval
  <2> QED
    BY <1>1, <2>2, FS_Subset
<1>3. /\ Cardinality(S) \in Nat
      /\ \A i \in S : Rank(S, i) \in 1..Cardinality(S) /\ Nth(S, Rank(S, i)) = i
      /\ \A k \in 1..Cardinality(S) : Nth(S, k) \in S /\ Rank(S, Nth(S, k)) = k
  BY <1>2, NthEnumerates
<1> DEFINE n == Cardinality(S)
           t == [k \in 1..n |-> s[Nth(S, k)]]
<1>4. \A k \in 1..n : s[Nth(S, k)] \in T
  BY <1>1, <1>3
<1>5. t \in [1..n -> T]
  BY <1>4
<1>6. Kept(s, S) = t
  BY DEF Kept
<1>7. \A k \in 1..n : t[k] = s[Nth(S, k)]
  OBVIOUS
<1> HIDE DEF t, n
<1>8. t \in Seq(T) /\ Len(t) = n
  BY <1>3, <1>5 DEF n
<1> QED
  BY <1>2, <1>3, <1>6, <1>7, <1>8 DEF n

\* C says which of the c positions after j are in S.
Follows(S, j, C, c) == \A d \in 1..c : d \in C <=> j + d \in S
CountsOn(S, j, C, c) == Rank(S, j + c) = Rank(S, j) + Rank(C, c)

\* And so it counts them.
LEMMA RankAfter ==
    ASSUME NEW S, S \subseteq Nat, IsFiniteSet(S), NEW j \in S,
           NEW C, C \subseteq Nat \ {0}, IsFiniteSet(C), NEW c \in C,
           Follows(S, j, C, c)
    PROVE  CountsOn(S, j, C, c)
<1> DEFINE A == {x \in S : x <= j}
           B == {x \in S : j < x /\ x <= j + c}
           D == {d \in C : d <= c}
           AB == {x \in S : x <= j + c}
           f == [d \in D |-> j + d]
<1>1. j \in Nat /\ c \in Nat
  OBVIOUS
<1>0. \A d \in 1..c : d \in C <=> j + d \in S
  BY DEF Follows
<1>2. \A d \in D : d \in Nat /\ d \in 1..c /\ j + d \in B
  BY <1>0, <1>1
<1>3. \A x \in B : x - j \in D /\ j + (x - j) = x
  <2> SUFFICES ASSUME NEW x \in B
               PROVE  x - j \in D /\ j + (x - j) = x
    OBVIOUS
  <2>1. x \in Nat /\ x \in S /\ j < x /\ x <= j + c
    OBVIOUS
  <2>2. x - j \in 1..c /\ j + (x - j) = x
    BY <1>1, <2>1
  <2> QED
    BY <1>0, <2>1, <2>2
<1>4. f \in [D -> B] /\ \A d \in D : f[d] = j + d
  BY <1>2
<1>5. AB = A \cup B /\ A \cap B = {}
  <2>1. \A x \in S : x <= j + c <=> x <= j \/ (j < x /\ x <= j + c)
    BY <1>1
  <2>2. \A x \in S : ~(x <= j /\ j < x)
    BY <1>1
  <2> QED
    BY <2>1, <2>2
<1>6. A \in SUBSET S /\ B \in SUBSET S /\ D \in SUBSET C
  OBVIOUS
<1>7. Rank(S, j + c) = Cardinality(AB) /\ Rank(S, j) = Cardinality(A) /\ Rank(C, c) = Cardinality(D)
  BY DEF Rank
<1> HIDE DEF A, B, D, AB, f
<1>8. IsFiniteSet(A) /\ IsFiniteSet(B) /\ IsFiniteSet(D)
  BY <1>6, FS_Subset
<1>9. f \in Bijection(D, B)
  <2>1. \A a, b \in D : f[a] = f[b] => a = b
    BY <1>1, <1>2, <1>4
  <2>2. \A x \in B : \E d \in D : f[d] = x
    BY <1>3, <1>4
  <2> QED
    BY <1>4, <2>1, <2>2 DEF Bijection, Injection, Surjection, IsInjective
<1>10. Cardinality(B) = Cardinality(D)
  <2>1. ExistsBijection(D, B)
    BY <1>9 DEF ExistsBijection
  <2> QED
    BY <1>8, <2>1, FS_Bijection
<1>11. Cardinality(AB) = Cardinality(A) + Cardinality(B) - Cardinality(A \cap B)
  BY <1>5, <1>8, FS_Union
<1>12. Cardinality(A \cap B) = 0 /\ Cardinality(A) \in Nat /\ Cardinality(B) \in Nat
  BY <1>5, <1>8, FS_EmptySet, FS_CardinalityType
<1> QED
  BY <1>7, <1>10, <1>11, <1>12 DEF CountsOn

-----------------------------------------------------------------------------
(* Balanced histories *)

\* A history that can be cut and extended: it is balanced, no message calls
\* twice with one id, and only assistant messages call.
Good(h) ==
    /\ h \in Seq(Message)
    /\ \A i \in DOMAIN h : /\ IsInjective(h[i].calls)
                           /\ h[i].role # "assistant" => h[i].calls = <<>>
    /\ Balanced(h)

\* A message that neither calls nor answers a call.
Plain(m) == m \in Message /\ m.calls = <<>> /\ m.role # "tool"

LEMMA EmptyGood == Good(<<>>)
BY DEF Good, Balanced

\* A message calls and answers as it should.
Fits(h, i) ==
    /\ h[i].role # "assistant" => Len(h[i].calls) = 0
    /\ \A c, d \in 1..Len(h[i].calls) : h[i].calls[c] = h[i].calls[d] => c = d
    /\ \A c \in 1..Len(h[i].calls) : /\ i + c \in 1..Len(h)
                                     /\ h[i + c].role = "tool"
                                     /\ h[i + c].id = h[i].calls[c]
    /\ h[i].role = "tool" => \E j \in 1..(i - 1) : i - j \in 1..Len(h[j].calls)

LEMMA MessageTyped ==
    ASSUME NEW h \in Seq(Message), NEW i \in 1..Len(h)
    PROVE  /\ h[i] \in Message /\ h[i].calls \in Seq(CallIds) /\ h[i].id \in CallIds
           /\ DOMAIN h[i].calls = 1..Len(h[i].calls) /\ Len(h[i].calls) \in Nat
<1>1. h[i] \in Message
  OBVIOUS
<1>2. h[i].calls \in Seq(CallIds) /\ h[i].id \in CallIds
  BY <1>1 DEF Message
<1> QED
  BY <1>1, <1>2

LEMMA GoodFits ==
    ASSUME NEW h, Good(h)
    PROVE  /\ h \in Seq(Message) /\ DOMAIN h = 1..Len(h) /\ Len(h) \in Nat
           /\ \A i \in 1..Len(h) : Fits(h, i)
<1>1. h \in Seq(Message) /\ DOMAIN h = 1..Len(h) /\ Len(h) \in Nat
  BY DEF Good
<1>2. ASSUME NEW i \in 1..Len(h)
      PROVE  /\ h[i].calls \in Seq(CallIds)
             /\ DOMAIN h[i].calls = 1..Len(h[i].calls) /\ Len(h[i].calls) \in Nat
  BY <1>1, MessageTyped
<1>3. ASSUME NEW i \in 1..Len(h)
      PROVE  /\ h[i].role # "assistant" => Len(h[i].calls) = 0
             /\ \A c, d \in 1..Len(h[i].calls) : h[i].calls[c] = h[i].calls[d] => c = d
  BY <1>1, <1>2 DEF Good, IsInjective
<1>4. ASSUME NEW i \in 1..Len(h), NEW c \in 1..Len(h[i].calls)
      PROVE  /\ i + c \in 1..Len(h)
             /\ h[i + c].role = "tool"
             /\ h[i + c].id = h[i].calls[c]
  BY <1>1, <1>2 DEF Good, Balanced
<1>5. ASSUME NEW i \in 1..Len(h), h[i].role = "tool"
      PROVE  \E j \in 1..(i - 1) : i - j \in 1..Len(h[j].calls)
  <2>1. PICK j \in 1..(i - 1) : i - j \in DOMAIN h[j].calls
    BY <1>1, <1>5 DEF Good, Balanced
  <2>2. j \in 1..Len(h)
    BY <1>1
  <2> QED
    BY <1>2, <2>1, <2>2
<1>6. \A i \in 1..Len(h) : Fits(h, i)
  BY <1>3, <1>4, <1>5 DEF Fits
<1> QED
  BY <1>1, <1>6

LEMMA FitsGood ==
    ASSUME NEW h \in Seq(Message), \A i \in 1..Len(h) : Fits(h, i)
    PROVE  Good(h)
<1>1. DOMAIN h = 1..Len(h) /\ Len(h) \in Nat
  OBVIOUS
<1>2. ASSUME NEW i \in 1..Len(h)
      PROVE  h[i].calls \in Seq(CallIds) /\ DOMAIN h[i].calls = 1..Len(h[i].calls)
  BY MessageTyped
<1>3. \A i \in DOMAIN h : /\ IsInjective(h[i].calls)
                          /\ h[i].role # "assistant" => h[i].calls = <<>>
  <2> SUFFICES ASSUME NEW i \in 1..Len(h)
               PROVE  /\ IsInjective(h[i].calls)
                      /\ h[i].role # "assistant" => h[i].calls = <<>>
    BY <1>1
  <2>1. /\ h[i].role # "assistant" => Len(h[i].calls) = 0
        /\ \A c, d \in 1..Len(h[i].calls) : h[i].calls[c] = h[i].calls[d] => c = d
    BY DEF Fits
  <2>2. h[i].calls \in Seq(CallIds) /\ DOMAIN h[i].calls = 1..Len(h[i].calls)
    BY <1>2
  <2>3. IsInjective(h[i].calls)
    BY ONLY <2>1, <2>2 DEF IsInjective
  <2>4. Len(h[i].calls) = 0 => h[i].calls = <<>>
    BY <2>2
  <2> QED
    BY <2>1, <2>3, <2>4
<1>4. ASSUME NEW i \in DOMAIN h, NEW k \in DOMAIN h[i].calls
      PROVE  i + k \in DOMAIN h /\ h[i + k].role = "tool" /\ h[i + k].id = h[i].calls[k]
  <2>1. i \in 1..Len(h) /\ k \in 1..Len(h[i].calls) /\ Fits(h, i)
    BY <1>1, <1>2, <1>4
  <2> QED
    BY <1>1, <2>1 DEF Fits
<1>5. ASSUME NEW i \in DOMAIN h, h[i].role = "tool"
      PROVE  \E j \in 1..(i - 1) : i - j \in DOMAIN h[j].calls
  <2>1. PICK j \in 1..(i - 1) : i - j \in 1..Len(h[j].calls)
    BY <1>1, <1>5 DEF Fits
  <2>2. j \in 1..Len(h)
    BY <1>1
  <2> QED
    BY <1>2, <2>1, <2>2
<1> QED
  BY <1>3, <1>4, <1>5 DEF Good, Balanced

\* What follows a message does not change that it fits.
LEMMA PrefixFits ==
    ASSUME NEW h \in Seq(Message), NEW g \in Seq(Message), Len(h) <= Len(g),
           \A i \in 1..Len(h) : g[i] = h[i],
           NEW i \in 1..Len(h), Fits(h, i)
    PROVE  Fits(g, i)
<1>1. Len(h) \in Nat /\ Len(g) \in Nat
  OBVIOUS
<1>2. g[i] = h[i] /\ \A j \in 1..(i - 1) : g[j] = h[j]
  BY <1>1
<1>3. \A k \in 1..Len(h) : g[k] = h[k] /\ k \in 1..Len(g)
  BY <1>1
<1>4. Fits(h, i)
  OBVIOUS
<1> QED
  BY ONLY <1>2, <1>3, <1>4 DEF Fits

\* Messages that neither call nor answer may follow anything.
LEMMA GoodThenPlain ==
    ASSUME NEW h, Good(h), NEW g \in Seq(Message), Len(h) <= Len(g),
           \A i \in 1..Len(h) : g[i] = h[i],
           \A i \in (Len(h) + 1)..Len(g) : Plain(g[i])
    PROVE  Good(g)
<1>1. Len(h) \in Nat /\ Len(g) \in Nat
  BY GoodFits
<1>2. \A i \in 1..Len(g) : i \in 1..Len(h) \/ i \in (Len(h) + 1)..Len(g)
  BY <1>1
<1> SUFFICES ASSUME NEW i \in 1..Len(g)
             PROVE  Fits(g, i)
  BY FitsGood
<1>3. CASE i \in 1..Len(h)
  BY <1>3, GoodFits, PrefixFits
<1>4. CASE i \in (Len(h) + 1)..Len(g)
  <2>1. g[i].calls = <<>> /\ g[i].role # "tool" /\ Len(<<>>) = 0
    BY <1>4 DEF Plain
  <2> QED
    BY <2>1 DEF Fits
<1> QED
  BY <1>2, <1>3, <1>4

\* g is h with a reply that calls ids, and the results of its calls.
Replies(h, ids, g) ==
    /\ g \in Seq(Message) /\ Len(g) = Len(h) + 1 + Len(ids)
    /\ \A i \in 1..Len(h) : g[i] = h[i]
    /\ g[Len(h) + 1].role = "assistant" /\ g[Len(h) + 1].calls = ids
    /\ \A c \in 1..Len(ids) : /\ g[Len(h) + 1 + c].role = "tool"
                              /\ g[Len(h) + 1 + c].calls = <<>>
                              /\ g[Len(h) + 1 + c].id = ids[c]

LEMMA GoodThenReply ==
    ASSUME NEW h, Good(h), NEW ids \in Seq(CallIds), IsInjective(ids),
           NEW g, Replies(h, ids, g)
    PROVE  Good(g)
<1> DEFINE L == Len(h)
           n == Len(ids)
<1>0. /\ g \in Seq(Message) /\ Len(g) = Len(h) + 1 + Len(ids)
      /\ \A i \in 1..Len(h) : g[i] = h[i]
      /\ g[Len(h) + 1].role = "assistant" /\ g[Len(h) + 1].calls = ids
      /\ \A c \in 1..Len(ids) : /\ g[Len(h) + 1 + c].role = "tool"
                                /\ g[Len(h) + 1 + c].calls = <<>>
                                /\ g[Len(h) + 1 + c].id = ids[c]
  BY DEF Replies
<1>1. L \in Nat /\ n \in Nat /\ Len(g) = L + 1 + n
  BY <1>0, GoodFits
<1>2. \A c, d \in 1..n : ids[c] = ids[d] => c = d
  BY DEF IsInjective
<1> SUFFICES ASSUME NEW i \in 1..Len(g)
             PROVE  Fits(g, i)
  BY <1>0, FitsGood
<1>3. CASE i \in 1..L
  <2>1. h \in Seq(Message) /\ Fits(h, i) /\ Len(h) <= Len(g)
    BY <1>1, <1>3, GoodFits
  <2> QED
    BY <1>0, <1>3, <2>1, PrefixFits
<1>4. CASE i = L + 1
  <2>1. g[i].calls = ids /\ g[i].role = "assistant"
    BY <1>0, <1>4
  <2>2. \A c \in 1..n : /\ i + c \in 1..Len(g)
                        /\ g[i + c].role = "tool"
                        /\ g[i + c].id = ids[c]
    BY <1>0, <1>1, <1>4
  <2> QED
    BY <1>2, <2>1, <2>2 DEF Fits
<1>5. CASE i \in (L + 2)..(L + 1 + n)
  <2>1. i - (L + 1) \in 1..n /\ i = L + 1 + (i - (L + 1)) /\ L + 1 \in 1..(i - 1)
    BY <1>1, <1>5
  <2>2. g[i].calls = <<>> /\ g[i].role = "tool" /\ Len(<<>>) = 0
    BY <1>0, <2>1
  <2>3. i - (L + 1) \in 1..Len(g[L + 1].calls)
    BY <1>0, <2>1
  <2> QED
    BY <2>1, <2>2, <2>3 DEF Fits
<1>6. i \in 1..L \/ i = L + 1 \/ i \in (L + 2)..(L + 1 + n)
  <2>1. i \in Nat /\ 1 <= i /\ i <= L + 1 + n
    BY <1>1
  <2> HIDE DEF L, n
  <2> QED
    BY <1>1, <2>1
<1> QED
  BY <1>3, <1>4, <1>5, <1>6

\* _split_for_compaction() leaves a good history good: the first message it keeps
\* answers no call.
LEMMA CompactGood ==
    ASSUME NEW h, h \in Seq(Message)
    PROVE  Compact(h) \in Seq(Message) /\ (Good(h) => Good(Compact(h)))
<1>0. CompactKeep \in Nat \ {0} /\ Len(h) \in Nat
  BY BoundsAssumption
<1>1. CASE Len(h) <= CompactKeep
  BY <1>1 DEF Compact
<1>2. CASE ~(Len(h) <= CompactKeep)
  <2> DEFINE from == Len(h) - CompactKeep + 1
             Starts(s) == /\ s = 1 \/ h[s].role # "tool"
                          /\ \A t \in (s + 1)..from : h[t].role = "tool"
             start == CHOOSE s \in 1..from : Starts(s)
             N == Len(h)
  <2>1. from \in Nat /\ 1 <= from /\ from <= N /\ N \in Nat
    BY <1>0, <1>2
  <2>2. Compact(h) = SubSeq(h, start, N)
    BY <1>2 DEF Compact
  <2>3. start \in 1..from /\ Starts(start)
    <3> DEFINE Dist == {d \in 0..(from - 1) : from - d = 1 \/ h[from - d].role # "tool"}
    <3>1. from - 1 \in Dist /\ Dist \in SUBSET Nat
      BY <2>1
    <3>2. PICK d \in Dist : \A k \in Dist : d <= k
      BY <3>1, LeastNumber
    <3> DEFINE s == from - d
    <3>3. s \in 1..from /\ (s = 1 \/ h[s].role # "tool")
      BY <2>1, <3>2
    <3>4. \A t \in (s + 1)..from : h[t].role = "tool"
      <4> SUFFICES ASSUME NEW t \in (s + 1)..from
                   PROVE  h[t].role = "tool"
        OBVIOUS
      <4>1. from - t \in 0..(from - 1) /\ ~(d <= from - t) /\ from - (from - t) = t
        BY <2>1, <3>2
      <4>2. from - t \notin Dist
        BY <3>2, <4>1
      <4> QED
        BY <4>1, <4>2
    <3>5. Starts(s)
      BY <3>3, <3>4
    <3> QED
      BY <3>3, <3>5
  <2> HIDE DEF start, from
  <2> DEFINE g == SubSeq(h, start, N)
             at(i) == i + start - 1
  <2>4. start \in Nat /\ 1 <= start /\ start <= N
    BY <2>1, <2>3
  <2>5. /\ g \in Seq(Message) /\ Len(g) = N - start + 1
        /\ \A i \in 1..Len(g) : g[i] = h[at(i)] /\ at(i) \in 1..N
    <3>1. g \in Seq(Message) /\ Len(g) = N - start + 1
      BY <2>1, <2>4
    <3>2. \A i \in 1..(N - start + 1) : g[i] = h[i + start - 1]
      BY <2>1, <2>4
    <3>3. \A i \in 1..(N - start + 1) : i + start - 1 \in 1..N
      BY <2>1, <2>4
    <3> QED
      BY <3>1, <3>2, <3>3
  <2>6. ASSUME Good(h)
        PROVE  Good(g)
    <3> HIDE DEF g
    <3>0. Len(g) \in Nat
      BY <2>1, <2>4, <2>5
    <3> SUFFICES ASSUME NEW i \in 1..Len(g)
                 PROVE  Fits(g, i)
      BY <2>5, FitsGood
    <3> DEFINE I == i + start - 1
    <3>1. g[i] = h[I] /\ I \in 1..N /\ start <= I /\ I - start + 1 = i /\ I \in Nat
      <4>1. i \in Nat /\ 1 <= i /\ i <= N - start + 1
        BY <2>5, <3>0
      <4>2. g[i] = h[I] /\ I \in 1..N
        BY <2>5
      <4> QED
        BY <2>1, <2>4, <4>1, <4>2
    <3>2. Fits(h, I) /\ Len(h[I].calls) \in Nat
      BY <2>6, <3>1, GoodFits, MessageTyped
    <3>3. ASSUME NEW c \in 1..Len(g[i].calls)
          PROVE  /\ i + c \in 1..Len(g)
                 /\ g[i + c].role = "tool"
                 /\ g[i + c].id = g[i].calls[c]
      <4>1. /\ I + c \in 1..N /\ h[I + c].role = "tool" /\ h[I + c].id = h[I].calls[c] /\ c \in Nat
        BY <3>1, <3>2 DEF Fits
      <4>2. i + c \in 1..Len(g) /\ (i + c) + start - 1 = I + c
        <5>1. I + c <= N /\ I + c >= start + c /\ I \in Nat /\ i = I - start + 1 /\ 1 <= c
              /\ i \in Nat /\ 1 <= i
          BY <2>1, <2>4, <3>0, <3>1, <4>1
        <5> HIDE DEF I
        <5> QED
          BY <2>1, <2>4, <2>5, <4>1, <5>1
      <4>3. g[i + c] = h[I + c]
        BY <2>5, <4>2
      <4> QED
        BY <3>1, <4>1, <4>2, <4>3
    <3>4. ASSUME g[i].role = "tool"
          PROVE  \E j \in 1..(i - 1) : i - j \in 1..Len(g[j].calls)
      <4>1. PICK J \in 1..(I - 1) : I - J \in 1..Len(h[J].calls)
        BY <3>1, <3>2, <3>4 DEF Fits
      <4>2. J \in 1..N /\ J \in Nat /\ I \in Nat
        BY <3>1, <2>1
      <4>3. Len(h[J].calls) \in Nat /\ \A c \in 1..Len(h[J].calls) : h[J + c].role = "tool"
        <5>1. Fits(h, J)
          BY <2>6, <4>2, GoodFits
        <5> QED
          BY <2>6, <4>2, <5>1, GoodFits, MessageTyped DEF Fits
      <4>4. start <= J
        <5> SUFFICES ASSUME J < start
                     PROVE  FALSE
          BY <2>4, <4>2
        <5>1. start - J \in 1..Len(h[J].calls) /\ J + (start - J) = start
          <6>1. I - J \in Nat /\ I - J <= Len(h[J].calls) /\ start - J <= I - J /\ start - J >= 1
                /\ start - J \in Int
            BY <2>4, <3>1, <4>1, <4>2, <4>3
          <6>2. J + (start - J) = start
            BY <2>4, <4>2
          <6>3. start - J <= Len(h[J].calls)
            BY <4>3, <6>1
          <6> QED
            BY ONLY <4>3, <6>1, <6>2, <6>3
        <5>2. h[start].role = "tool" /\ start # 1
          <6>1. h[J + (start - J)].role = "tool"
            BY <4>3, <5>1
          <6> QED
            BY <2>4, <4>2, <5>1, <6>1
        <5> QED
          BY <2>3, <5>2
      <4> DEFINE j == J - start + 1
      <4>5. j \in 1..(i - 1) /\ j \in 1..Len(g) /\ j + start - 1 = J /\ i - j = I - J
        BY <2>1, <2>4, <2>5, <3>0, <3>1, <4>1, <4>2, <4>4
      <4>6. g[j] = h[J]
        BY <2>5, <4>5
      <4> QED
        BY <4>1, <4>5, <4>6
    <3> QED
      BY <3>1, <3>2, <3>3, <3>4 DEF Fits
  <2> QED
    BY <2>2, <2>5, <2>6
<1> QED
  BY <1>1, <1>2

-----------------------------------------------------------------------------
(* Pruning *)

\* A result belongs to the one message before it that calls with its id.
LEMMA OwnerIs ==
    ASSUME NEW h, Good(h), NEW i \in 1..Len(h), h[i].role = "tool",
           NEW j \in 1..(i - 1), i - j \in 1..Len(h[j].calls)
    PROVE  HasOwner(h, i) /\ Owner(h, i) = j /\ h[i].id = h[j].calls[i - j]
<1>1. /\ h \in Seq(Message) /\ Len(h) \in Nat /\ i \in Nat /\ j \in Nat /\ j \in 1..Len(h) /\ j < i
      /\ \A k \in 1..Len(h) : Fits(h, k) /\ Len(h[k].calls) \in Nat
                              /\ DOMAIN h[k].calls = 1..Len(h[k].calls)
  BY GoodFits, MessageTyped
<1>2. j + (i - j) = i
  BY <1>1
<1>3. \A c \in 1..Len(h[j].calls) : h[j + c].role = "tool" /\ h[j + c].id = h[j].calls[c]
  BY <1>1 DEF Fits
<1>4. h[i].id = h[j].calls[i - j]
  <2>1. h[j + (i - j)].id = h[j].calls[i - j]
    BY <1>3
  <2> QED
    BY <1>2, <2>1
<1>5. h[i].id \in ToSet(h[j].calls)
  BY <1>1, <1>4 DEF ToSet
<1>6. ASSUME NEW k \in (j + 1)..(i - 1)
      PROVE  h[i].id \notin ToSet(h[k].calls)
  <2>1. k \in Nat /\ k \in 1..Len(h) /\ k - j \in 1..Len(h[j].calls) /\ j + (k - j) = k
    <3>1. k - j \in Int /\ 1 <= k - j /\ k - j <= i - j /\ i - j <= Len(h[j].calls)
      BY <1>1
    <3>2. k - j <= Len(h[j].calls) /\ k \in 1..Len(h) /\ j + (k - j) = k /\ k \in Nat
      BY <1>1, <3>1
    <3> QED
      BY <1>1, <3>1, <3>2
  <2>2. h[j + (k - j)].role = "tool"
    BY <1>3, <2>1
  <2>3. h[k].role = "tool"
    BY <2>1, <2>2
  <2>4. Len(h[k].calls) = 0
    BY <1>1, <2>1, <2>3 DEF Fits
  <2>5. DOMAIN h[k].calls = {}
    BY <1>1, <2>1, <2>4
  <2> QED
    BY <2>5 DEF ToSet
<1> DEFINE Owns(q) == /\ h[i].id \in ToSet(h[q].calls)
                      /\ \A k \in (q + 1)..(i - 1) : h[i].id \notin ToSet(h[k].calls)
<1>7. Owns(j)
  BY <1>5, <1>6
<1>8. \A q \in 1..(i - 1) : Owns(q) => q = j
  <2> SUFFICES ASSUME NEW q \in 1..(i - 1), Owns(q), q # j
               PROVE  FALSE
    OBVIOUS
  <2>1. CASE q < j
    <3>1. j \in (q + 1)..(i - 1)
      BY <1>1, <2>1
    <3> QED
      BY <1>5, <3>1
  <2>2. CASE j < q
    <3>1. q \in (j + 1)..(i - 1)
      BY <1>1, <2>2
    <3> QED
      BY <1>6, <3>1
  <2> QED
    BY <1>1, <2>1, <2>2
<1>9. Owner(h, i) = CHOOSE q \in 1..(i - 1) : Owns(q)
  BY DEF Owner
<1> HIDE DEF Owns
<1>10. Owner(h, i) = j
  BY <1>7, <1>8, <1>9
<1>11. HasOwner(h, i)
  BY <1>5 DEF HasOwner
<1> QED
  BY <1>4, <1>10, <1>11

\* A call is stripped exactly when its result goes.
LEMMA StrippedIs ==
    ASSUME NEW h, Good(h), NEW j \in 1..Len(h), NEW c \in 1..Len(h[j].calls)
    PROVE  h[j].calls[c] \in Stripped(h, j) <=> j + c \in Gone(h)
<1>1. /\ h \in Seq(Message) /\ Len(h) \in Nat /\ PruneKeep \in Nat
      /\ Fits(h, j) /\ Len(h[j].calls) \in Nat /\ j \in Nat /\ c \in Nat
  BY GoodFits, MessageTyped, BoundsAssumption
<1>2. /\ j + c \in 1..Len(h) /\ h[j + c].role = "tool" /\ h[j + c].id = h[j].calls[c]
      /\ \A d \in 1..Len(h[j].calls) : h[j].calls[c] = h[j].calls[d] => c = d
  BY <1>1 DEF Fits
<1>3. \A i \in Gone(h) : i \in 1..Len(h) /\ i \in Nat /\ h[i].role = "tool"
  BY <1>1 DEF Gone
<1>4. ASSUME j + c \in Gone(h)
      PROVE  h[j].calls[c] \in Stripped(h, j)
  <2>1. j \in 1..((j + c) - 1) /\ (j + c) - j = c
    BY <1>1
  <2>2. (j + c) - j \in 1..Len(h[j].calls)
    BY <2>1
  <2>3. HasOwner(h, j + c) /\ Owner(h, j + c) = j
    BY <1>2, <2>1, <2>2, OwnerIs
  <2> QED
    BY <1>2, <1>4, <2>3 DEF Stripped
<1>5. ASSUME h[j].calls[c] \in Stripped(h, j)
      PROVE  j + c \in Gone(h)
  <2>1. PICK i \in Gone(h) : HasOwner(h, i) /\ Owner(h, i) = j /\ h[i].id = h[j].calls[c]
    BY <1>5 DEF Stripped
  <2>2. i \in 1..Len(h) /\ i \in Nat /\ h[i].role = "tool"
    BY <1>3
  <2>3. Fits(h, i)
    BY <2>2, GoodFits
  <2>4. PICK q \in 1..(i - 1) : i - q \in 1..Len(h[q].calls)
    BY <2>2, <2>3 DEF Fits
  <2>5. Owner(h, i) = q /\ h[i].id = h[q].calls[i - q]
    BY <2>2, <2>4, OwnerIs
  <2>6. q = j /\ i - j \in 1..Len(h[j].calls) /\ h[j].calls[c] = h[j].calls[i - j]
    BY <2>1, <2>4, <2>5
  <2>7. c = i - j
    BY <1>2, <2>6
  <2>8. i = j + c
    BY <1>1, <2>2, <2>7
  <2> QED
    BY <2>8
<1> QED
  BY <1>4, <1>5

\* The calls of message i that keep their results.
StillCalled(h, i) == {c \in DOMAIN h[i].calls : h[i].calls[c] \notin Stripped(h, i)}

\* Pruning lists the messages that stay, each with the calls that stay.
LEMMA PruneLists ==
    ASSUME NEW h \in Seq(Message), ~(Len(h) <= PruneAfter \/ PruneKeep >= Len(h)),
           NEW S, S = (1..Len(h)) \ Gone(h)
    PROVE  /\ S \in SUBSET Nat /\ IsFiniteSet(S) /\ Cardinality(S) \in Nat
           /\ Prune(h) \in Seq(Message) /\ Len(Prune(h)) = Cardinality(S)
           /\ \A i \in S : Rank(S, i) \in 1..Cardinality(S) /\ Nth(S, Rank(S, i)) = i
           /\ \A a \in 1..Cardinality(S) :
                 /\ Nth(S, a) \in S /\ Rank(S, Nth(S, a)) = a
                 /\ Prune(h)[a].role = h[Nth(S, a)].role
                 /\ Prune(h)[a].id = h[Nth(S, a)].id
                 /\ Prune(h)[a].calls = Kept(h[Nth(S, a)].calls, StillCalled(h, Nth(S, a)))
<1> DEFINE left(i) == [h[i] EXCEPT !.calls = Kept(h[i].calls, StillCalled(h, i))]
           s == [i \in 1..Len(h) |-> left(i)]
<1>1. DOMAIN h = 1..Len(h) /\ Len(h) \in Nat
  OBVIOUS
<1>2. ASSUME NEW i \in 1..Len(h)
      PROVE  /\ left(i) \in Message
             /\ left(i).role = h[i].role /\ left(i).id = h[i].id
             /\ left(i).calls = Kept(h[i].calls, StillCalled(h, i))
  <2> DEFINE k == Kept(h[i].calls, StillCalled(h, i))
  <2>1. h[i] \in Message /\ h[i].calls \in Seq(CallIds)
    BY MessageTyped
  <2>2. StillCalled(h, i) \in SUBSET DOMAIN h[i].calls
    BY DEF StillCalled
  <2>3. k \in Seq(CallIds)
    BY <2>1, <2>2, KeptLists
  <2> HIDE DEF k
  <2>4. LET m == [h[i] EXCEPT !.calls = k] IN
        m \in Message /\ m.role = h[i].role /\ m.id = h[i].id /\ m.calls = k
    BY <2>1, <2>3 DEF Message
  <2> QED
    BY <2>4 DEF k
<1>3. Prune(h) = Kept(s, S)
  BY <1>1 DEF Prune, StillCalled
<1> HIDE DEF left
<1>4. s \in Seq(Message) /\ DOMAIN s = 1..Len(h) /\ \A i \in 1..Len(h) : s[i] = left(i)
  <2>1. s \in [1..Len(h) -> Message]
    BY <1>2
  <2> QED
    BY <1>1, <2>1
<1> HIDE DEF s
<1>5. S \in SUBSET DOMAIN s
  BY <1>4
<1>6. /\ S \in SUBSET Nat /\ IsFiniteSet(S) /\ Cardinality(S) \in Nat
      /\ Kept(s, S) \in Seq(Message) /\ Len(Kept(s, S)) = Cardinality(S)
      /\ \A i \in S : Rank(S, i) \in 1..Cardinality(S) /\ Nth(S, Rank(S, i)) = i
      /\ \A a \in 1..Cardinality(S) : /\ Nth(S, a) \in S /\ Rank(S, Nth(S, a)) = a
                                      /\ Kept(s, S)[a] = s[Nth(S, a)]
  BY ONLY <1>4, <1>5, KeptLists
<1>7. ASSUME NEW a \in 1..Cardinality(S)
      PROVE  /\ Prune(h)[a].role = h[Nth(S, a)].role
             /\ Prune(h)[a].id = h[Nth(S, a)].id
             /\ Prune(h)[a].calls = Kept(h[Nth(S, a)].calls, StillCalled(h, Nth(S, a)))
  <2>1. Nth(S, a) \in 1..Len(h)
    BY <1>6
  <2>2. Prune(h)[a] = left(Nth(S, a))
    BY <1>3, <1>4, <1>6, <2>1
  <2> QED
    BY <1>2, <2>1, <2>2
<1> QED
  BY <1>3, <1>6, <1>7

\* The calls C of message i stay with the messages S.
Counts(h, S, i, C) ==
    /\ C \subseteq 1..Len(h[i].calls) /\ Cardinality(C) \in Nat
    /\ Kept(h[i].calls, C) \in Seq(CallIds) /\ Len(Kept(h[i].calls, C)) = Cardinality(C)
    /\ \A c \in 1..Len(h[i].calls) : c \in C <=> i + c \in S
    /\ \A c \in C : /\ Rank(C, c) \in 1..Cardinality(C) /\ Nth(C, Rank(C, c)) = c
                    /\ Rank(S, i + c) = Rank(S, i) + Rank(C, c)
    /\ \A k \in 1..Cardinality(C) : /\ Nth(C, k) \in C /\ Rank(C, Nth(C, k)) = k
                                    /\ Kept(h[i].calls, C)[k] = h[i].calls[Nth(C, k)]

\* The calls that stay are those whose results stay, and they count them.
LEMMA CallsLeft ==
    ASSUME NEW h, Good(h), NEW S, S = (1..Len(h)) \ Gone(h),
           S \subseteq Nat, IsFiniteSet(S), NEW i \in S, NEW C, C = StillCalled(h, i)
    PROVE  Counts(h, S, i, C)
<1>1. /\ i \in 1..Len(h) /\ i \in Nat /\ h \in Seq(Message) /\ Fits(h, i)
      /\ h[i].calls \in Seq(CallIds) /\ Len(h[i].calls) \in Nat
      /\ DOMAIN h[i].calls = 1..Len(h[i].calls)
  BY GoodFits, MessageTyped
<1>2. C \in SUBSET DOMAIN h[i].calls
  BY DEF StillCalled
<1>3. /\ C \in SUBSET Nat /\ IsFiniteSet(C) /\ Cardinality(C) \in Nat
      /\ Kept(h[i].calls, C) \in Seq(CallIds) /\ Len(Kept(h[i].calls, C)) = Cardinality(C)
      /\ \A c \in C : Rank(C, c) \in 1..Cardinality(C) /\ Nth(C, Rank(C, c)) = c
      /\ \A k \in 1..Cardinality(C) : /\ Nth(C, k) \in C /\ Rank(C, Nth(C, k)) = k
                                      /\ Kept(h[i].calls, C)[k] = h[i].calls[Nth(C, k)]
  BY ONLY <1>1, <1>2, KeptLists
<1>4. ASSUME NEW c \in 1..Len(h[i].calls)
      PROVE  c \in C <=> i + c \in S
  <2>1. h[i].calls[c] \in Stripped(h, i) <=> i + c \in Gone(h)
    BY <1>1, StrippedIs
  <2>2. i + c \in 1..Len(h)
    BY <1>1 DEF Fits
  <2>3. c \in C <=> h[i].calls[c] \notin Stripped(h, i)
    BY <1>1 DEF StillCalled
  <2> QED
    BY <2>1, <2>2, <2>3
<1>5. ASSUME NEW c \in C
      PROVE  Rank(S, i + c) = Rank(S, i) + Rank(C, c)
  <2>1. c \in 1..Len(h[i].calls) /\ c \in Nat
    BY <1>1, <1>2
  <2>2. \A d \in 1..c : d \in 1..Len(h[i].calls)
    BY <1>1, <2>1
  <2>3. \A d \in 1..c : d \in C <=> i + d \in S
    BY <1>4, <2>2
  <2>4. C \subseteq Nat \ {0} /\ S \subseteq Nat /\ IsFiniteSet(S) /\ IsFiniteSet(C)
        /\ i \in S /\ c \in C
    BY <1>1, <1>2, <1>3
  <2>5. Follows(S, i, C, c)
    BY <2>3 DEF Follows
  <2>6. CountsOn(S, i, C, c)
    BY ONLY <2>4, <2>5, RankAfter
  <2> QED
    BY <2>6 DEF CountsOn
<1>6. C \subseteq 1..Len(h[i].calls)
  BY <1>1, <1>2
<1> QED
  BY <1>3, <1>4, <1>5, <1>6 DEF Counts

\* prune_stale_tool_messages() leaves a good history good.
LEMMA PruneGood ==
    ASSUME NEW h \in Seq(Message)
    PROVE  Prune(h) \in Seq(Message) /\ (Good(h) => Good(Prune(h)))
<1>1. CASE Len(h) <= PruneAfter \/ PruneKeep >= Len(h)
  BY <1>1 DEF Prune
<1>2. CASE ~(Len(h) <= PruneAfter \/ PruneKeep >= Len(h))
  <2> DEFINE S == (1..Len(h)) \ Gone(h)
             n == Cardinality(S)
             p == Prune(h)
  <2>1. /\ S \in SUBSET Nat /\ IsFiniteSet(S) /\ n \in Nat
        /\ p \in Seq(Message) /\ Len(p) = n
        /\ \A i \in S : Rank(S, i) \in 1..n /\ Nth(S, Rank(S, i)) = i
        /\ \A a \in 1..n :
              /\ Nth(S, a) \in S /\ Rank(S, Nth(S, a)) = a
              /\ p[a].role = h[Nth(S, a)].role
              /\ p[a].id = h[Nth(S, a)].id
              /\ p[a].calls = Kept(h[Nth(S, a)].calls, StillCalled(h, Nth(S, a)))
    BY <1>2, PruneLists
  <2>2. \A i \in S : i \in 1..Len(h) /\ i \in Nat
    BY <2>1
  <2>3. \A i \in 1..Len(h) : h[i].role # "tool" => i \in S
    BY DEF Gone
  <2>4. S = (1..Len(h)) \ Gone(h)
    OBVIOUS
  <2> HIDE DEF S, n, p
  <2> SUFFICES ASSUME Good(h)
               PROVE  Good(p)
    BY <2>1 DEF p
  <2> SUFFICES ASSUME NEW a \in 1..n
               PROVE  Fits(p, a)
    BY <2>1, FitsGood
  <2> DEFINE i == Nth(S, a)
             C == StillCalled(h, i)
  <2>5. /\ i \in S /\ Rank(S, i) = a /\ a \in Nat
        /\ p[a].role = h[i].role /\ p[a].id = h[i].id /\ p[a].calls = Kept(h[i].calls, C)
    BY <2>1
  <2> HIDE DEF i
  <2>6. /\ C \subseteq 1..Len(h[i].calls) /\ Cardinality(C) \in Nat
        /\ Len(p[a].calls) = Cardinality(C)
        /\ \A c \in 1..Len(h[i].calls) : c \in C <=> i + c \in S
        /\ \A c \in C : /\ Rank(C, c) \in 1..Cardinality(C) /\ Nth(C, Rank(C, c)) = c
                        /\ Rank(S, i + c) = a + Rank(C, c)
        /\ \A k \in 1..Cardinality(C) : /\ Nth(C, k) \in C /\ Rank(C, Nth(C, k)) = k
                                        /\ p[a].calls[k] = h[i].calls[Nth(C, k)]
    <3>1. S \subseteq Nat /\ IsFiniteSet(S) /\ i \in S /\ Good(h) /\ C = StillCalled(h, i)
      BY <2>1, <2>5
    <3> HIDE DEF C
    <3>2. Counts(h, S, i, C)
      BY ONLY <2>4, <3>1, CallsLeft
    <3> QED
      BY <2>5, <3>2 DEF Counts
  <2>7. Fits(h, i) /\ Len(h[i].calls) \in Nat /\ i \in 1..Len(h) /\ i \in Nat
    BY <2>2, <2>5, GoodFits, MessageTyped
  <2> HIDE DEF C
  <2>8. p[a].role # "assistant" => Len(p[a].calls) = 0
    <3> SUFFICES ASSUME p[a].role # "assistant"
                 PROVE  Cardinality(C) = 0
      BY <2>6
    <3>1. Len(h[i].calls) = 0
      BY <2>5, <2>7 DEF Fits
    <3>2. C = {}
      BY <2>6, <3>1
    <3> QED
      BY <3>2, FS_EmptySet
  <2>9. ASSUME NEW k \in 1..Len(p[a].calls), NEW l \in 1..Len(p[a].calls),
               p[a].calls[k] = p[a].calls[l]
        PROVE  k = l
    <3>1. h[i].calls[Nth(C, k)] = h[i].calls[Nth(C, l)]
      BY <2>6, <2>9
    <3>2. Nth(C, k) \in 1..Len(h[i].calls) /\ Nth(C, l) \in 1..Len(h[i].calls)
      BY <2>6
    <3>3. Nth(C, k) = Nth(C, l)
      BY <2>7, <3>1, <3>2 DEF Fits
    <3> QED
      BY <2>6, <3>3
  <2>10. ASSUME NEW k \in 1..Len(p[a].calls)
         PROVE  /\ a + k \in 1..Len(p)
                /\ p[a + k].role = "tool"
                /\ p[a + k].id = p[a].calls[k]
    <3> DEFINE c == Nth(C, k)
    <3>1. c \in C /\ Rank(C, c) = k /\ p[a].calls[k] = h[i].calls[c]
      BY <2>6
    <3> HIDE DEF c
    <3>2. c \in 1..Len(h[i].calls) /\ i + c \in S /\ Rank(S, i + c) = a + k
      BY <2>6, <3>1
    <3>3. a + k \in 1..n /\ Nth(S, a + k) = i + c
      BY <2>1, <3>2
    <3>4. p[a + k].role = h[i + c].role /\ p[a + k].id = h[i + c].id
      BY <2>1, <3>3
    <3>5. h[i + c].role = "tool" /\ h[i + c].id = h[i].calls[c]
      BY <2>7, <3>2 DEF Fits
    <3> QED
      BY <2>1, <3>1, <3>3, <3>4, <3>5
  <2>11. ASSUME p[a].role = "tool"
         PROVE  \E b \in 1..(a - 1) : a - b \in 1..Len(p[b].calls)
    <3>1. h[i].role = "tool"
      BY <2>5, <2>11
    <3>2. PICK j \in 1..(i - 1) : i - j \in 1..Len(h[j].calls)
      BY <2>7, <3>1 DEF Fits
    <3>3. j \in 1..Len(h) /\ j \in Nat /\ j + (i - j) = i
      BY <2>7
    <3>4. Fits(h, j) /\ Len(h[j].calls) \in Nat
      BY <3>3, GoodFits, MessageTyped
    <3>5. h[j].role = "assistant"
      BY <3>2, <3>4 DEF Fits
    <3>6. j \in S
      BY <2>3, <3>3, <3>5
    <3> DEFINE D == StillCalled(h, j)
               d == i - j
               b == Rank(S, j)
    <3>7. /\ D \subseteq 1..Len(h[j].calls) /\ Cardinality(D) \in Nat
          /\ Len(Kept(h[j].calls, D)) = Cardinality(D)
          /\ \A c \in 1..Len(h[j].calls) : c \in D <=> j + c \in S
          /\ \A c \in D : /\ Rank(D, c) \in 1..Cardinality(D)
                          /\ Rank(S, j + c) = b + Rank(D, c)
      <4>1. S \subseteq Nat /\ IsFiniteSet(S) /\ j \in S /\ Good(h) /\ D = StillCalled(h, j)
        BY <2>1, <3>6
      <4> HIDE DEF D
      <4>2. Counts(h, S, j, D)
        BY ONLY <2>4, <4>1, CallsLeft
      <4> QED
        BY <4>2 DEF Counts
    <3>8. b \in 1..n /\ Nth(S, b) = j
      BY <2>1, <3>6
    <3>9. p[b].calls = Kept(h[j].calls, D)
      BY <2>1, <3>8
    <3> HIDE DEF D, b
    <3>10. d \in D
      BY <2>5, <3>2, <3>3, <3>7
    <3>11. a = b + Rank(D, d) /\ Rank(D, d) \in 1..Cardinality(D)
      BY <2>5, <3>3, <3>7, <3>10
    <3>12. a - b = Rank(D, d) /\ b \in 1..(a - 1)
      BY <2>1, <3>7, <3>8, <3>11
    <3>13. a - b \in 1..Len(p[b].calls)
      BY <3>7, <3>9, <3>11, <3>12
    <3> QED
      BY <3>12, <3>13
  <2> QED
    BY <2>8, <2>9, <2>10, <2>11 DEF Fits
<1> QED
  BY <1>1, <1>2

-----------------------------------------------------------------------------
(* The history through a turn *)

\* g is what a step makes of the history h.
Preserved(h, g) == g \in Seq(Message) /\ (Good(h) => Good(g))

LEMMA MessagesTyped ==
    /\ User \in Message /\ Plain(User)
    /\ Assistant(<<>>) \in Message /\ Plain(Assistant(<<>>))
    /\ \A ids \in Seq(CallIds) : /\ Assistant(ids) \in Message
                                 /\ Assistant(ids).role = "assistant" /\ Assistant(ids).calls = ids
    /\ \A call \in Call : /\ Result(call) \in Message
                          /\ Result(call).role = "tool" /\ Result(call).calls = <<>>
                          /\ Result(call).id = call.id
<1>1. NoId \in CallIds /\ <<>> \in Seq(CallIds)
  BY NoIdAssumption
<1>2. ASSUME NEW ids \in Seq(CallIds)
      PROVE  /\ Assistant(ids) \in Message
             /\ Assistant(ids).role = "assistant" /\ Assistant(ids).calls = ids
  BY <1>1 DEF Assistant, Message
<1>3. ASSUME NEW call \in Call
      PROVE  /\ Result(call) \in Message
             /\ Result(call).role = "tool" /\ Result(call).calls = <<>>
             /\ Result(call).id = call.id
  <2>1. call.id \in CallIds /\ (call.kind = "read") \in BOOLEAN
    BY DEF Call
  <2> QED
    BY <1>1, <2>1 DEF Result, Message
<1>4. User \in Message /\ Plain(User)
  BY <1>1 DEF User, Message, Plain
<1>5. Assistant(<<>>) \in Message /\ Plain(Assistant(<<>>))
  BY <1>1, <1>2 DEF Plain
<1> QED
  BY <1>2, <1>3, <1>4, <1>5

LEMMA PlainPreserved ==
    ASSUME NEW h \in Seq(Message), NEW s \in Seq(Message), \A i \in 1..Len(s) : Plain(s[i])
    PROVE  Preserved(h, h \o s)
<1> DEFINE g == h \o s
<1>1. /\ g \in Seq(Message) /\ Len(g) = Len(h) + Len(s) /\ Len(h) \in Nat /\ Len(s) \in Nat
      /\ \A i \in 1..Len(h) : g[i] = h[i]
      /\ \A i \in (Len(h) + 1)..(Len(h) + Len(s)) : g[i] = s[i - Len(h)] /\ i - Len(h) \in 1..Len(s)
  OBVIOUS
<1> HIDE DEF g
<1>2. \A i \in (Len(h) + 1)..Len(g) : Plain(g[i])
  BY <1>1
<1>3. Len(h) <= Len(g)
  BY <1>1
<1>4. Good(h) => Good(g)
  BY <1>1, <1>2, <1>3, GoodThenPlain
<1> QED
  BY <1>1, <1>4 DEF Preserved, g

LEMMA AppendPreserved ==
    ASSUME NEW h \in Seq(Message), NEW m, Plain(m)
    PROVE  Preserved(h, Append(h, m))
<1>1. m \in Message
  BY DEF Plain
<1>2. <<m>> \in Seq(Message) /\ Len(<<m>>) = 1 /\ <<m>>[1] = m
  BY <1>1
<1>3. Append(h, m) = h \o <<m>>
  BY <1>1
<1>4. \A i \in 1..Len(<<m>>) : Plain(<<m>>[i])
  BY <1>2
<1> QED
  BY <1>2, <1>3, <1>4, PlainPreserved

\* The head of the loop: an internal prompt, pruning and compaction.
LEMMA PreparedPreserved ==
    ASSUME NEW fin \in BOOLEAN, NEW tight \in BOOLEAN, history \in Seq(Message)
    PROVE  Preserved(history, Prepared(fin, tight))
<1> DEFINE asked == IF fin THEN Append(history, User) ELSE history
           pruned == Prune(asked)
<1>1. Preserved(history, asked)
  <2>1. CASE fin
    <3>1. Preserved(history, Append(history, User))
      BY MessagesTyped, AppendPreserved
    <3> QED
      BY <2>1, <3>1
  <2>2. CASE ~fin
    BY <2>2 DEF Preserved
  <2> QED
    BY <2>1, <2>2
<1>2. Prepared(fin, tight) = IF tight THEN Compact(pruned) ELSE pruned
  BY DEF Prepared
<1> HIDE DEF asked
<1>3. Preserved(history, pruned)
  BY <1>1, PruneGood DEF Preserved
<1> HIDE DEF pruned
<1>4. Preserved(history, Compact(pruned))
  BY <1>3, CompactGood DEF Preserved
<1> QED
  BY <1>2, <1>3, <1>4

\* The history with the results that are still due, k of them being there.
Completed(h, b, k) ==
    [i \in 1..(Len(h) + (Len(b) - k)) |->
        IF i <= Len(h) THEN h[i] ELSE Result(b[i - Len(h) + k])]

LEMMA NothingDue ==
    ASSUME NEW h \in Seq(Message), NEW b \in Seq(Call)
    PROVE  Completed(h, b, Len(b)) = h
<1>1. Len(h) \in Nat /\ Len(b) \in Nat /\ Len(h) + (Len(b) - Len(b)) = Len(h)
  OBVIOUS
<1>2. Completed(h, b, Len(b)) = [i \in 1..Len(h) |-> h[i]]
  BY <1>1 DEF Completed
<1> QED
  BY <1>2

\* Consuming a result is no news for the completed history.
LEMMA OneLessDue ==
    ASSUME NEW h \in Seq(Message), NEW b \in Seq(Call), NEW n \in 1..Len(b)
    PROVE  /\ Append(h, Result(b[n])) \in Seq(Message)
           /\ Completed(Append(h, Result(b[n])), b, n) = Completed(h, b, n - 1)
<1> DEFINE r == Result(b[n])
           g == Append(h, r)
           L == Len(h)
           N == Len(b)
<1>1. L \in Nat /\ N \in Nat /\ n \in Nat /\ n <= N
  OBVIOUS
<1>2. r \in Message
  <2>1. b[n] \in Call
    OBVIOUS
  <2> QED
    BY <2>1, MessagesTyped
<1>3. g \in Seq(Message) /\ Len(g) = L + 1 /\ g[L + 1] = r /\ \A i \in 1..L : g[i] = h[i]
  BY <1>2
<1>4. Len(g) + (N - n) = L + (N - (n - 1))
  BY <1>1, <1>3
<1> HIDE DEF g, N
<1>5. ASSUME NEW i \in 1..(L + (N - (n - 1)))
      PROVE  (IF i <= Len(g) THEN g[i] ELSE Result(b[i - Len(g) + n]))
                 = (IF i <= L THEN h[i] ELSE Result(b[i - L + (n - 1)]))
  <2>1. CASE i <= L
    BY <1>1, <1>3, <2>1
  <2>2. CASE i = L + 1
    <3>1. i - L + (n - 1) = n /\ ~(i <= L) /\ i <= Len(g)
      BY <1>1, <1>3, <2>2
    <3> QED
      BY <1>3, <2>2, <3>1
  <2>3. CASE i > L + 1
    <3>1. i - Len(g) + n = i - L + (n - 1) /\ ~(i <= L) /\ ~(i <= Len(g))
      BY <1>1, <1>3, <2>3
    <3> QED
      BY <3>1
  <2>4. i <= L \/ i = L + 1 \/ i > L + 1
    <3>1. i \in Int /\ L \in Int
      BY <1>1
    <3> QED
      BY ONLY <3>1
  <2> QED
    BY ONLY <2>1, <2>2, <2>3, <2>4
<1>6. Completed(g, b, n) = Completed(h, b, n - 1)
  BY <1>4, <1>5 DEF Completed, N
<1> QED
  BY <1>3, <1>6 DEF g

\* A reply, completed with the results of all of its calls.
LEMMA ReplyCompleted ==
    ASSUME NEW h \in Seq(Message), NEW ids \in Seq(CallIds), IsInjective(ids),
           NEW b \in Seq(Call), Len(b) = Len(ids), \A i \in 1..Len(b) : b[i].id = ids[i]
    PROVE  /\ Append(h, Assistant(ids)) \in Seq(Message)
           /\ Good(h) => Good(Completed(Append(h, Assistant(ids)), b, 0))
<1> DEFINE m == Assistant(ids)
           a == Append(h, m)
           L == Len(h)
           n == Len(ids)
           g == Completed(a, b, 0)
<1>1. L \in Nat /\ n \in Nat /\ Len(b) = n
  OBVIOUS
<1>2. m \in Message /\ m.role = "assistant" /\ m.calls = ids
  BY MessagesTyped
<1> HIDE DEF m
<1>3. a \in Seq(Message) /\ Len(a) = L + 1 /\ a[L + 1] = m /\ \A i \in 1..L : a[i] = h[i]
  BY <1>2
<1>4. \A c \in 1..n : /\ b[c] \in Call
                      /\ Result(b[c]) \in Message /\ Result(b[c]).role = "tool"
                      /\ Result(b[c]).calls = <<>> /\ Result(b[c]).id = ids[c]
  BY <1>1, MessagesTyped
<1> HIDE DEF a
<1>5. g = [i \in 1..(L + 1 + n) |-> IF i <= L + 1 THEN a[i] ELSE Result(b[i - (L + 1)])]
  <2>1. Len(a) + (Len(b) - 0) = L + 1 + n /\ \A i \in 1..(L + 1 + n) : i - Len(a) + 0 = i - (L + 1)
    BY <1>1, <1>3
  <2> QED
    BY <1>3, <2>1 DEF Completed
<1> HIDE DEF g
<1>6. \A i \in 1..(L + 1 + n) : i \in 1..(L + 1) \/ (i - (L + 1) \in 1..n /\ ~(i <= L + 1))
  <2> SUFFICES ASSUME NEW i \in 1..(L + 1 + n), ~(i \in 1..(L + 1))
               PROVE  i - (L + 1) \in 1..n /\ ~(i <= L + 1)
    OBVIOUS
  <2> HIDE DEF L, n
  <2> QED
    BY <1>1
<1>7. \A i \in 1..(L + 1) : a[i] \in Message
  BY <1>3
<1>8. g \in [1..(L + 1 + n) -> Message]
  <2>1. ASSUME NEW i \in 1..(L + 1 + n)
        PROVE  (IF i <= L + 1 THEN a[i] ELSE Result(b[i - (L + 1)])) \in Message
    BY <1>1, <1>4, <1>6, <1>7
  <2> QED
    BY <1>5, <2>1
<1>9. g \in Seq(Message) /\ Len(g) = L + 1 + n
  <2>1. L + 1 + n \in Nat
    BY <1>1
  <2> HIDE DEF L, n
  <2> QED
    BY <1>8, <2>1
<1>10. \A i \in 1..L : g[i] = h[i]
  <2>1. \A i \in 1..L : i \in 1..(L + 1 + n) /\ i <= L + 1
    BY <1>1
  <2> QED
    BY <1>3, <1>5, <2>1
<1>11. g[L + 1].role = "assistant" /\ g[L + 1].calls = ids
  <2>1. L + 1 \in 1..(L + 1 + n) /\ L + 1 <= L + 1
    BY <1>1
  <2> QED
    BY <1>2, <1>3, <1>5, <2>1
<1>12. \A c \in 1..n : /\ g[L + 1 + c].role = "tool"
                       /\ g[L + 1 + c].calls = <<>>
                       /\ g[L + 1 + c].id = ids[c]
  <2>1. \A c \in 1..n : /\ L + 1 + c \in 1..(L + 1 + n) /\ ~(L + 1 + c <= L + 1)
                        /\ (L + 1 + c) - (L + 1) = c
    BY <1>1
  <2>2. \A c \in 1..n : g[L + 1 + c] = Result(b[c])
    BY <1>5, <2>1
  <2> QED
    BY <1>4, <2>2
<1>13. Good(h) => Good(g)
  <2> SUFFICES ASSUME Good(h)
               PROVE  Good(g)
    OBVIOUS
  <2>1. Good(h) /\ ids \in Seq(CallIds) /\ IsInjective(ids)
    OBVIOUS
  <2>2. Replies(h, ids, g)
    BY <1>9, <1>10, <1>11, <1>12 DEF Replies
  <2> QED
    BY ONLY <2>1, <2>2, GoodThenReply
<1> QED
  BY <1>3, <1>13 DEF g, a, m

\* The results of the batch under way that the history has already.
Taken == IF pc = "batch" /\ pool THEN 0 ELSE next - 1

\* The history is good, or will be with the results that are still due, unless a
\* batch was left or a finalization round asked for tools.
HistoryInv ==
    /\ history \in Seq(Message)
    /\ broken = "no" => Good(Completed(history, batch, Taken))

LEMMA HistoryInitially == Init => HistoryInv
<1> SUFFICES ASSUME Init
             PROVE  HistoryInv
  OBVIOUS
<1>1. history = <<>> /\ batch = <<>> /\ next = 1 /\ pc = "idle"
  BY DEF Init
<1>2. <<>> \in Seq(Message) /\ <<>> \in Seq(Call) /\ Len(<<>>) = 0
  OBVIOUS
<1>3. Completed(<<>>, <<>>, 0) = <<>>
  BY <1>2, NothingDue
<1>4. Taken = 0
  BY <1>1 DEF Taken
<1> QED
  BY <1>1, <1>2, <1>3, <1>4, EmptyGood DEF HistoryInv

\* With nothing under way the history itself is good.
LEMMA GoodAtRest ==
    ASSUME TurnInv, HistoryInv, pc \notin Batching
    PROVE  history \in Seq(Message) /\ (broken = "no" => Good(history))
<1>1. batch = <<>> /\ next = 1 /\ pc # "batch" /\ history \in Seq(Message)
  BY DEF TurnInv, Between, Batching, HistoryInv
<1>2. <<>> \in Seq(Call) /\ Len(<<>>) = 0
  OBVIOUS
<1>3. Completed(history, <<>>, 0) = history
  BY <1>1, <1>2, NothingDue
<1>4. Taken = 0
  BY <1>1 DEF Taken
<1> QED
  BY <1>1, <1>3, <1>4 DEF HistoryInv

LEMMA RestsGood ==
    ASSUME TurnInv', pc' \notin Batching,
           history' \in Seq(Message), broken' = "no" => Good(history')
    PROVE  HistoryInv'
<1>1. batch' = <<>> /\ next' = 1 /\ pc' # "batch"
  BY DEF TurnInv, Between, Batching
<1>2. <<>> \in Seq(Call) /\ Len(<<>>) = 0
  OBVIOUS
<1>3. Completed(history', <<>>, 0) = history'
  BY <1>2, NothingDue
<1>4. Taken' = 0
  BY <1>1 DEF Taken
<1> QED
  BY <1>1, <1>3, <1>4 DEF HistoryInv

\* Steps outside a batch, and the end of one.
LEMMA HistoryOutside ==
    ASSUME TurnInv, TurnInv', HistoryInv,
           \/ StartTurn
           \/ \E fin, tight \in BOOLEAN : Request(fin, tight)
           \/ Stop
           \/ \E fin, tight \in BOOLEAN : ContextFails(fin, tight)
           \/ \E partial \in BOOLEAN :
                 StreamFails(partial, "interrupted") \/ StreamFails(partial, "timed_out")
           \/ \E partial \in BOOLEAN : StreamInterrupted(partial)
           \/ \E nudge \in BOOLEAN : Answer(nudge)
           \/ \E calls \in Calls : FinalizationRefused(calls)
           \/ Escapes
    PROVE  HistoryInv'
<1> DEFINE Rests == pc' \notin Batching /\ history' \in Seq(Message)
                    /\ (broken' = "no" => Good(history'))
<1> SUFFICES Rests
  BY RestsGood
<1>0. history \in Seq(Message) /\ (pc \notin Batching => (broken = "no" => Good(history)))
      /\ {"idle", "head", "stream"} \cap Batching = {}
  BY GoodAtRest DEF HistoryInv, Batching
<1>1. ASSUME EndTurn
      PROVE  pc' \notin Batching
  BY <1>1, EndTurnIsBetween DEF Batching
<1>2. ASSUME pc \notin Batching, pc' \notin Batching, Preserved(history, history'), broken' = broken
      PROVE  Rests
  BY <1>0, <1>2 DEF Preserved
<1>3. Preserved(history, history)
  BY <1>0 DEF Preserved
<1>4. ASSUME NEW partial \in BOOLEAN,
             history' = IF partial THEN Append(history, Assistant(<<>>)) ELSE history
      PROVE  Preserved(history, history')
  <2>1. Preserved(history, Append(history, Assistant(<<>>)))
    BY <1>0, MessagesTyped, AppendPreserved
  <2> QED
    BY <1>3, <1>4, <2>1
<1>5. CASE StartTurn
  <2>1. pc = "idle" /\ pc' = "head" /\ history' = Append(history, User) /\ broken' = broken
    BY <1>5 DEF StartTurn
  <2>2. Preserved(history, Append(history, User))
    BY <1>0, MessagesTyped, AppendPreserved
  <2> QED
    BY <1>0, <1>2, <2>1, <2>2
<1>6. CASE \E fin, tight \in BOOLEAN : Request(fin, tight)
  <2>1. PICK fin, tight \in BOOLEAN : /\ pc = "head" /\ pc' = "stream" /\ broken' = broken
                                      /\ history' = Prepared(fin, tight)
    BY <1>6 DEF Request
  <2>2. Preserved(history, Prepared(fin, tight))
    BY <1>0, PreparedPreserved
  <2> QED
    BY <1>0, <1>2, <2>1, <2>2
<1>7. CASE Stop
  <2>1. pc = "head" /\ EndTurn /\ history' = history /\ broken' = broken
    BY <1>7 DEF Stop
  <2> QED
    BY <1>0, <1>1, <1>2, <1>3, <2>1
<1>8. CASE \E fin, tight \in BOOLEAN : ContextFails(fin, tight)
  <2>1. PICK fin, tight \in BOOLEAN : /\ pc = "head" /\ EndTurn /\ broken' = broken
                                      /\ history' = Prepared(fin, tight)
    BY <1>8 DEF ContextFails
  <2>2. Preserved(history, Prepared(fin, tight))
    BY <1>0, PreparedPreserved
  <2> QED
    BY <1>0, <1>1, <1>2, <2>1, <2>2
<1>9. CASE \/ \E partial \in BOOLEAN :
                 StreamFails(partial, "interrupted") \/ StreamFails(partial, "timed_out")
           \/ \E partial \in BOOLEAN : StreamInterrupted(partial)
  <2>1. PICK partial \in BOOLEAN :
           /\ pc = "stream" /\ EndTurn /\ broken' = broken
           /\ history' = IF partial THEN Append(history, Assistant(<<>>)) ELSE history
    BY <1>9 DEF StreamFails, StreamInterrupted
  <2> QED
    BY <1>0, <1>1, <1>2, <1>4, <2>1
<1>10. CASE \E nudge \in BOOLEAN : Answer(nudge)
  <2>1. PICK nudge \in BOOLEAN :
           /\ pc = "stream" /\ broken' = broken
           /\ history' = Append(history, Assistant(<<>>)) \o (IF nudge THEN <<User>> ELSE <<>>)
           /\ pc' = "head" \/ EndTurn
    BY <1>10 DEF Answer
  <2> DEFINE answered == Append(history, Assistant(<<>>))
             s == IF nudge THEN <<User>> ELSE <<>>
  <2>2. Preserved(history, answered)
    BY <1>0, MessagesTyped, AppendPreserved
  <2>3. s \in Seq(Message) /\ \A i \in 1..Len(s) : Plain(s[i])
    BY MessagesTyped
  <2> HIDE DEF answered, s
  <2>4. Preserved(answered, answered \o s)
    BY <2>2, <2>3, PlainPreserved DEF Preserved
  <2>5. Preserved(history, answered \o s)
    BY <2>2, <2>4 DEF Preserved
  <2>6. history' = answered \o s
    BY <2>1 DEF answered, s
  <2> QED
    BY <1>0, <1>1, <1>2, <2>1, <2>5, <2>6
<1>11. CASE \E calls \in Calls : FinalizationRefused(calls)
  <2>1. PICK calls \in Calls :
           /\ pc = "stream" /\ EndTurn /\ broken' # "no"
           /\ history' = Append(history, Assistant(Complete(loop, Ids(calls)).expected))
    BY <1>11 DEF FinalizationRefused
  <2>2. Well(loop) /\ loop.phase = "model_inflight" /\ Ids(calls) \in Seq(CallIds)
    BY <2>1, CallsTyped DEF TurnInv, Base, InPhase
  <2> DEFINE m == Complete(loop, Ids(calls))
  <2>3. m.expected \in Seq(CallIds)
    BY ONLY <2>2, CompleteWell
  <2>4. Assistant(m.expected) \in Message
    BY <2>3, MessagesTyped
  <2>5. Append(history, Assistant(m.expected)) \in Seq(Message)
    BY <1>0, <2>4
  <2> QED
    BY <1>1, <2>1, <2>5
<1>12. CASE Escapes
  <2>1. EndTurn /\ history' = history /\ broken' # "no"
    BY <1>12 DEF Escapes
  <2> QED
    BY <1>0, <1>1, <2>1
<1> QED
  BY <1>5, <1>6, <1>7, <1>8, <1>9, <1>10, <1>11, <1>12

\* A reply that calls: its results are due.
LEMMA HistoryToolCalls ==
    ASSUME TurnInv, TurnInv', HistoryInv,
           NEW calls \in Calls, NEW parallel \in BOOLEAN, ToolCalls(calls, parallel)
    PROVE  HistoryInv'
<1> DEFINE l == Complete(loop, Ids(calls))
           ids == l.expected
<1>1. /\ pc = "stream" /\ pc' = "batch" /\ next' = 1 /\ broken' = broken
      /\ Protocol(MayComplete(loop) /\ MayBeginBatch(l), BeginBatch(l))
      /\ history' = Append(history, Assistant(ids))
      /\ batch' = [i \in DOMAIN calls |-> [id |-> ids[i], kind |-> calls[i].kind]]
  BY DEF ToolCalls
<1>2. Well(loop) /\ loop.phase = "model_inflight" /\ Ids(calls) \in Seq(CallIds)
      /\ Len(Ids(calls)) = Len(calls) /\ Len(calls) \in Nat \ {0} /\ DOMAIN calls = 1..Len(calls)
  BY <1>1, CallsTyped DEF TurnInv, Base, InPhase
<1>3. Well(l) /\ ids \in Seq(CallIds) /\ Len(ids) = Len(calls)
  BY ONLY <1>2, CompleteWell
<1>4. IsInjective(ids)
  BY <1>3 DEF Well
<1> HIDE DEF l
<1>5. batch' \in Seq(Call) /\ pc' \in Batching
  BY <1>1 DEF TurnInv, InBatch, Batching
<1>6. Len(batch') = Len(ids) /\ \A i \in 1..Len(batch') : batch'[i].id = ids[i]
  BY <1>1, <1>2, <1>3
<1>7. history \in Seq(Message) /\ (broken = "no" => Good(history))
  <2>1. pc \notin Batching
    BY <1>1 DEF Batching
  <2> QED
    BY <2>1, GoodAtRest
<1>8. Taken' = 0
  BY <1>1 DEF Taken
<1> DEFINE b == batch'
<1>9. b \in Seq(Call) /\ Len(b) = Len(ids) /\ \A i \in 1..Len(b) : b[i].id = ids[i]
  BY <1>5, <1>6
<1> HIDE DEF b
<1>10. /\ Append(history, Assistant(ids)) \in Seq(Message)
       /\ Good(history) => Good(Completed(Append(history, Assistant(ids)), b, 0))
  BY ONLY <1>3, <1>4, <1>7, <1>9, ReplyCompleted
<1> QED
  BY <1>1, <1>7, <1>8, <1>10 DEF HistoryInv, b

\* A result that is consumed was due.
LEMMA HistoryConsumes ==
    ASSUME TurnInv, HistoryInv, pc \in {"tool", "consume"}, next <= Len(batch),
           history' = Append(history, Result(batch[next])), batch' = batch,
           broken' = broken, next' = next + 1,
           pc' = "consume" \/ (pc' = "batch" /\ ~pool')
    PROVE  HistoryInv'
<1>1. /\ batch \in Seq(Call) /\ next \in 1..Len(batch) /\ next \in Nat
  <2>1. next \in Nat /\ next \in 1..(Len(batch) + 1) /\ Len(batch) \in Nat /\ InBatch
    BY BatchState DEF Batching
  <2> QED
    BY <2>1 DEF InBatch
<1>2. history \in Seq(Message)
  BY DEF HistoryInv
<1>3. /\ Append(history, Result(batch[next])) \in Seq(Message)
      /\ Completed(Append(history, Result(batch[next])), batch, next)
             = Completed(history, batch, next - 1)
  BY <1>1, <1>2, OneLessDue
<1>4. Taken = next - 1 /\ Taken' = next
  BY <1>1 DEF Taken
<1> QED
  BY <1>3, <1>4 DEF HistoryInv

\* The other steps of a batch leave the history, and what is due, alone.
LEMMA HistoryStays ==
    ASSUME HistoryInv, UNCHANGED <<history, batch, broken>>, Taken' = Taken
    PROVE  HistoryInv'
BY DEF HistoryInv

\* At the end of a batch nothing is due.
LEMMA HistoryEndBatch ==
    ASSUME TurnInv, TurnInv', HistoryInv,
           NEW on \in BOOLEAN, NEW prompts \in 0..MaxPrompts, EndBatch(on, prompts)
    PROVE  HistoryInv'
<1> DEFINE s == [i \in 1..prompts |-> User]
<1>1. /\ ~(next <= Len(batch)) /\ (pc = "consume" \/ (pc = "batch" /\ ~pool))
      /\ history' = history \o s /\ broken' = broken
      /\ pc' = "head" \/ EndTurn
  BY DEF EndBatch, More
<1>2. pc' \notin Batching
  BY <1>1, EndTurnIsBetween DEF Batching
<1>3. batch \in Seq(Call) /\ next - 1 = Len(batch)
  <2>1. next \in Nat /\ next \in 1..(Len(batch) + 1) /\ Len(batch) \in Nat /\ InBatch
    BY <1>1, BatchState DEF Batching
  <2> QED
    BY <1>1, <2>1 DEF InBatch
<1>4. Taken = Len(batch)
  BY <1>1, <1>3 DEF Taken
<1>5. history \in Seq(Message) /\ Completed(history, batch, Len(batch)) = history
  BY <1>3, NothingDue DEF HistoryInv
<1>6. broken = "no" => Good(history)
  BY <1>4, <1>5 DEF HistoryInv
<1>7. s \in Seq(Message) /\ \A i \in 1..Len(s) : Plain(s[i])
  <2>1. prompts \in Nat
    BY BoundsAssumption
  <2>2. s \in [1..prompts -> Message] /\ \A i \in 1..prompts : Plain(s[i])
    BY MessagesTyped
  <2> HIDE DEF s
  <2>3. s \in Seq(Message) /\ Len(s) = prompts
    BY <2>1, <2>2
  <2> QED
    BY <2>2, <2>3
<1> HIDE DEF s
<1>8. Preserved(history, history \o s)
  BY <1>5, <1>7, PlainPreserved
<1> QED
  BY <1>1, <1>2, <1>6, <1>8, RestsGood DEF Preserved

LEMMA HistoryKeeps == TurnInv /\ TurnInv' /\ HistoryInv /\ [Next]_vars => HistoryInv'
<1> SUFFICES ASSUME TurnInv, TurnInv', HistoryInv, [Next]_vars
             PROVE  HistoryInv'
  OBVIOUS
<1>1. CASE \/ StartTurn
           \/ \E fin, tight \in BOOLEAN : Request(fin, tight)
           \/ Stop
           \/ \E fin, tight \in BOOLEAN : ContextFails(fin, tight)
           \/ \E partial \in BOOLEAN :
                 StreamFails(partial, "interrupted") \/ StreamFails(partial, "timed_out")
           \/ \E partial \in BOOLEAN : StreamInterrupted(partial)
           \/ \E nudge \in BOOLEAN : Answer(nudge)
           \/ \E calls \in Calls : FinalizationRefused(calls)
           \/ Escapes
  BY <1>1, HistoryOutside
<1>2. CASE \E calls \in Calls, parallel \in BOOLEAN : ToolCalls(calls, parallel)
  BY <1>2, HistoryToolCalls
<1>3. CASE Dispatch
  <2>1. /\ UNCHANGED <<history, batch, broken, pool>> /\ pc = "batch"
        /\ IF pool THEN UNCHANGED pc ELSE pc' = "tool" /\ UNCHANGED next
    BY <1>3 DEF Dispatch
  <2>2. Taken' = Taken
    BY <2>1 DEF Taken
  <2> QED
    BY <2>1, <2>2, HistoryStays
<1>4. CASE \E runs, unknown, caught \in BOOLEAN : ToolReturns(runs, unknown, caught)
  <2>1. /\ pc = "tool" /\ pc' = "batch" /\ next' = next + 1
        /\ history' = Append(history, Result(batch[next]))
        /\ UNCHANGED <<batch, pool, broken>>
    BY <1>4 DEF ToolReturns, Consume
  <2>2. ~pool /\ next <= Len(batch)
    BY <2>1 DEF TurnInv, InBatch, InOrderOfBatch, Batching
  <2> QED
    BY <2>1, <2>2, HistoryConsumes
<1>5. CASE \E i \in 1..MaxCalls, runs \in BOOLEAN : PoolRuns(i, runs)
  <2>1. UNCHANGED <<history, batch, broken, pool, pc, next>>
    BY <1>5 DEF PoolRuns
  <2>2. Taken' = Taken
    BY <2>1 DEF Taken
  <2> QED
    BY <2>1, <2>2, HistoryStays
<1>6. CASE \E interrupted \in BOOLEAN : Collect(interrupted)
  <2>1. /\ UNCHANGED <<history, batch, broken, pool>>
        /\ pc = "batch" /\ pool /\ pc' = "consume" /\ next' = 1
    BY <1>6 DEF Collect
  <2>2. Taken' = Taken
    BY <2>1 DEF Taken
  <2> QED
    BY <2>1, <2>2, HistoryStays
<1>7. CASE ConsumePooled
  <2>1. /\ pc = "consume" /\ pc' = "consume" /\ next' = next + 1 /\ next <= Len(batch)
        /\ history' = Append(history, Result(batch[next]))
        /\ UNCHANGED <<batch, pool, broken>>
    BY <1>7 DEF ConsumePooled, Consume, More
  <2> QED
    BY <2>1, HistoryConsumes
<1>8. CASE \E on \in BOOLEAN, prompts \in 0..MaxPrompts : EndBatch(on, prompts)
  BY <1>8, HistoryEndBatch
<1>9. CASE UNCHANGED vars
  <2>1. UNCHANGED <<history, batch, broken, pool, pc, next>>
    BY <1>9 DEF vars
  <2>2. Taken' = Taken
    BY <2>1 DEF Taken
  <2> QED
    BY <2>1, <2>2, HistoryStays
<1> QED
  BY <1>1, <1>2, <1>3, <1>4, <1>5, <1>6, <1>7, <1>8, <1>9 DEF Next

-----------------------------------------------------------------------------
(* What the conversation promises *)

LEMMA ConversationInvariant == Spec => [](TurnInv /\ HistoryInv)
<1>1. Init => TurnInv /\ HistoryInv
  BY TurnInitially, HistoryInitially
<1>2. (TurnInv /\ HistoryInv) /\ [Next]_vars => (TurnInv /\ HistoryInv)'
  BY TurnKeeps, HistoryKeeps
<1> QED
  BY <1>1, <1>2, PTL DEF Spec

\* The types are right, and no order of dispatches, results, interrupts and
\* abandoned observations that the turn produces makes the loop state raise.
THEOREM ProtocolIsRespected == Spec => []ProtocolRespected
<1>1. TurnInv /\ HistoryInv => ProtocolRespected
  <2> SUFFICES ASSUME TurnInv, HistoryInv
               PROVE  ProtocolRespected
    OBVIOUS
  <2>1. /\ turn \in 0..MaxTurns
        /\ pc \in {"idle", "head", "stream", "batch", "tool", "consume"}
        /\ loop.phase \in Phases
        /\ loop.dispatched \subseteq ToSet(loop.expected) /\ loop.completed \subseteq loop.dispatched
        /\ loop.mutations \subseteq loop.dispatched /\ loop.uncertain \subseteq loop.seen
        /\ error = FALSE
    BY DEF TurnInv, Base, Well, Loops
  <2>2. \A i \in DOMAIN history : history[i].role \in {"user", "assistant", "tool"}
    <3>1. \A i \in DOMAIN history : history[i] \in Message
      BY DEF HistoryInv
    <3> QED
      BY <3>1 DEF Message
  <2>3. next \in 1..(Len(batch) + 1) /\ DOMAIN results \subseteq DOMAIN batch
    <3>1. CASE pc \in Batching
      BY <3>1, BatchState
    <3>2. CASE pc \notin Batching
      <4>1. batch = <<>> /\ next = 1 /\ results = <<>> /\ Len(<<>>) = 0
        BY <3>2 DEF TurnInv, Between
      <4> QED
        BY <4>1
    <3> QED
      BY <3>1, <3>2
  <2> QED
    BY <2>1, <2>2, <2>3 DEF ProtocolRespected, TypeOK, Phases
<1> QED
  BY <1>1, ConversationInvariant, PTL

\* Pruning, compaction, pools, caught interrupts and earlier turns leave what is
\* sent to the provider balanced, unless an interrupt escaped from a batch or a
\* finalization round asked for tools.
THEOREM RequestsAreBalanced == Spec => []BalancedRequest
<1>1. TurnInv /\ HistoryInv => BalancedRequest
  <2> SUFFICES ASSUME TurnInv, HistoryInv, pc = "stream", broken = "no"
               PROVE  Balanced(history)
    BY DEF BalancedRequest
  <2>1. pc \notin Batching
    BY DEF Batching
  <2> QED
    BY <2>1, GoodAtRest DEF Good
<1> QED
  BY <1>1, ConversationInvariant, PTL
=============================================================================
