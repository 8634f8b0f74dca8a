------------------------ MODULE EffectDispatchProofs -------------------------
(***************************************************************************)
(* What EffectDispatch guarantees for every number of dispatchers, tool-   *)
(* call ids, actions and targets.  The leases and the fencing of calls     *)
(* hold without condition; what the ledger guarantees holds as long as its *)
(* retention has forgotten nothing (NothingForgotten).                     *)
(***************************************************************************)
EXTENDS EffectDispatch, SequenceTheorems, TLAPS

-----------------------------------------------------------------------------
(* Leases and calls: no condition *)

Pcs == {"idle", "lease", "fenced", "bound", "preparing", "prepared", "read", "append",
        "started", "returned", "claimed", "unclear", "release"}
Requests == [inv : Invocations, act : Actions]
Todos == Seq(EffectState)
PlanEffects == Effect \cup {<<>>}
Prevs == EffectState \cup {"none"}
Thens == {"started", "claimed", "unclear", "release"}
Plans == [todo : Todos, effect : PlanEffects, then : Thens, ok : Outcome, bad : Outcome,
          prev : Prevs, seq : Nat]
Keys == Invocations \X Actions

Types ==
    /\ pc \in [Workers -> Pcs] /\ req \in [Workers -> Requests] /\ token \in [Workers -> Nat]
    /\ plan \in [Workers -> Plans] /\ outcome \in [Workers -> Outcome]
    /\ ran \in [Workers -> BOOLEAN]
    /\ writer \in [Targets -> Workers \cup {NoWorker}] /\ fence \in [Targets -> Nat]
    /\ binder \in [Invocations -> Workers \cup {NoWorker}]
    /\ log \in Seq(Event) /\ unsynced \in 0..Len(log)
    /\ calls \in Seq(Effect) /\ applied \subseteq Keys

Target(w) == TargetOf[req[w].act]
Key(w) == <<req[w].inv, req[w].act>>

\* The worker is past the lease of its target and has not begun to release it.
Active(w) == pc[w] \notin {"idle", "lease", "release"}

LeaseInv == \A w \in Workers : Active(w) => writer[Target(w)] = w /\ token[w] = fence[Target(w)]

\* No call carries a token that was not given out.
CallsFenced == \A i \in DOMAIN calls : calls[i][3] <= fence[TargetOf[calls[i][2]]]

\* A worker knows whether it called the tool; until then its token is newer than
\* that of every call on its target.
RanOK(w) ==
    /\ pc[w] \in {"idle", "lease", "fenced", "bound", "preparing", "prepared", "started"} => ~ran[w]
    /\ pc[w] \in {"returned", "claimed", "unclear"} => ran[w]
    /\ pc[w] \in {"read", "append"} =>
           /\ plan[w].then = "started" => ~ran[w]
           /\ plan[w].then \in {"claimed", "unclear"} => ran[w]
    /\ ran[w] => \E i \in DOMAIN calls : calls[i] = Mine(w)
    /\ Active(w) /\ ~ran[w] =>
           \A i \in DOMAIN calls : TargetOf[calls[i][2]] = Target(w) => calls[i][3] < token[w]

\* What is about to be appended is an event.
AppendOK(w) == pc[w] = "append" => plan[w].effect \in Effect /\ Head(plan[w].todo) \in EffectState

\* The newest event of an effect among the first n.
NewestAt(l, n, m, e) == l[m].effect = e /\ \A k \in (m + 1)..n : l[k].effect # e

\* Of every effect some event is the newest, whatever a power loss cuts off.
Whole(l) == \A n \in 1..Len(l) : \A i \in 1..n : \E m \in i..n : NewestAt(l, n, m, l[i].effect)

Base == /\ Types /\ LeaseInv /\ CallsFenced /\ Whole(log)
        /\ \A w \in Workers : RanOK(w) /\ AppendOK(w)

-----------------------------------------------------------------------------
(* The ledger, before retention forgets anything *)

Room == Len(log) < MaxRecords

\* Every step finds room in the ledger, so that no append drops an event.
NothingForgotten == [][Room]_vars

OneEffect(l) ==
    \A i, j \in 1..Len(l) : l[i].effect[1] = l[j].effect[1] => l[i].effect = l[j].effect

\* The events of an effect form a chain that begins with "prepared" at most and
\* ends with the first settled state.
Chained(l) ==
    \A i, j \in 1..Len(l) : i < j /\ l[j].effect = l[i].effect =>
        /\ l[i].state \notin {"verified", "failed"} /\ l[j].state # "prepared"
        /\ (\A k \in (i + 1)..(j - 1) : l[k].effect # l[i].effect) =>
               l[j].seq = l[i].seq + 1 /\ l[j].prev = l[i].state

Settled(l, a) ==
    \A i \in 1..Len(l) :
        LET k == <<l[i].effect[1], l[i].effect[2]>>
        IN  (l[i].state = "verified" => k \in a) /\ (l[i].state = "failed" => k \notin a)

LogInv == OneEffect(log) /\ Chained(log) /\ Settled(log, applied)

Intended(e) == \E i \in 1..(Len(log) - unsynced) : log[i].effect = e /\ log[i].state # "prepared"

CallInv ==
    /\ \A i \in DOMAIN calls : Intended(calls[i])
    /\ \A i, j \in DOMAIN calls : calls[i][1] = calls[j][1] => i = j
    /\ \A k \in applied : \E i \in DOMAIN calls : calls[i][1] = k[1] /\ calls[i][2] = k[2]

\* An outcome that may be reported.
Honest(w, o) ==
    o # Untyped =>
        /\ ran[w] => o.invoked /\ ~o.retry
        /\ o.status = "succeeded" => Key(w) \in applied
        /\ o.status = "failed" /\ ~o.retry => Key(w) \notin applied \/ ~ran[w]

\* The worker's effect is in the ledger and has not failed.
Live(w) ==
    /\ \E i \in 1..Len(log) : log[i].effect = Mine(w)
    /\ \A i \in 1..Len(log) : log[i].effect = Mine(w) => log[i].state # "failed"

Fails == {<<"failed">>, <<"unknown", "failed">>}
Lists == {<<"started">>, <<"applied">>, <<"unknown">>, <<"verified">>} \cup Fails

\* A sequence of transitions a worker may begin: it says nothing untrue, and
\* another worker's effect is only failed.
JobOK(w, e, todo, then, ok, bad) ==
    /\ e[1] = req[w].inv /\ e[2] = req[w].act
    /\ todo \in Lists
    /\ e # Mine(w) => todo = <<"failed">>
    /\ todo = <<"started">> <=> then = "started"
    /\ todo = <<"started">> => Live(w)
    /\ todo = <<"verified">> => Key(w) \in applied
    /\ todo \in Fails => Key(w) \notin applied
    /\ Honest(w, ok) /\ Honest(w, bad)
    /\ then # "release" => ok = Untyped

WorkOK(w) ==
    /\ pc[w] \in {"bound", "preparing"} => binder[req[w].inv] = w
    /\ pc[w] = "preparing" => \A i \in 1..Len(log) : log[i].effect[1] # req[w].inv
    /\ pc[w] \in {"prepared", "started"} => Live(w)
    /\ pc[w] = "started" => Intended(Mine(w))
    /\ pc[w] \in {"read", "append"} =>
           JobOK(w, plan[w].effect, plan[w].todo, plan[w].then, plan[w].ok, plan[w].bad)
    /\ pc[w] = "append" =>
           \E m \in 1..Len(log) :
               /\ NewestAt(log, Len(log), m, plan[w].effect)
               /\ log[m].state = plan[w].prev /\ log[m].seq = plan[w].seq
               /\ Head(plan[w].todo) \in Allowed[plan[w].prev]
    /\ pc[w] = "release" => Honest(w, outcome[w])

Book == LogInv /\ CallInv /\ \A w \in Workers : WorkOK(w)

IInv == Base /\ Book

-----------------------------------------------------------------------------
(* The operators *)

LEMMA OutcomeFacts ==
    /\ Untyped \in Outcome /\ Stopped \in Outcome
    /\ Failed(TRUE) \in Outcome /\ Failed(FALSE) \in Outcome
    /\ Succeeded(TRUE) \in Outcome /\ Succeeded(FALSE) \in Outcome
    /\ KnownFailure(TRUE) \in Outcome /\ KnownFailure(FALSE) \in Outcome
BY DEF Untyped, Stopped, Failed, Succeeded, KnownFailure, Outcome

\* What each outcome claims.
LEMMA HonestFacts ==
    ASSUME NEW w
    PROVE  /\ Honest(w, Untyped) /\ Honest(w, Failed(TRUE))
           /\ ~ran[w] => /\ Honest(w, Stopped) /\ Honest(w, Failed(FALSE))
                         /\ Honest(w, KnownFailure(FALSE))
           /\ Key(w) \in applied => Honest(w, Succeeded(TRUE))
           /\ Key(w) \in applied /\ ~ran[w] => Honest(w, Succeeded(FALSE))
           /\ Key(w) \notin applied => Honest(w, KnownFailure(TRUE))
BY DEF Honest, Untyped, Stopped, Failed, Succeeded, KnownFailure

LEMMA ListFacts ==
    /\ Lists \subseteq Todos
    /\ \A t \in Lists : t # <<>> /\ (Len(t) > 1 <=> t = <<"unknown", "failed">>)
    /\ Head(<<"started">>) = "started" /\ Head(<<"applied">>) = "applied"
    /\ Head(<<"unknown">>) = "unknown" /\ Head(<<"verified">>) = "verified"
    /\ Head(<<"failed">>) = "failed" /\ Head(<<"unknown", "failed">>) = "unknown"
    /\ Tail(<<"unknown", "failed">>) = <<"failed">>
BY DEF Lists, Fails, Todos, EffectState

\* Which of the lists are equal is decided by their heads and lengths.
LEMMA ListsApart ==
    /\ <<"started">> \notin Fails /\ <<"applied">> \notin Fails /\ <<"unknown">> \notin Fails
    /\ <<"verified">> \notin Fails /\ <<"failed">> \in Fails /\ <<"unknown", "failed">> \in Fails
    /\ <<"started">> # <<"verified">> /\ <<"started">> # <<"applied">> /\ <<"started">> # <<"unknown">>
    /\ <<"verified">> # <<"applied">> /\ <<"verified">> # <<"unknown">>
    /\ <<"failed">> # <<"started">> /\ <<"failed">> # <<"verified">>
    /\ <<"unknown", "failed">> # <<"started">> /\ <<"unknown", "failed">> # <<"verified">>
    /\ <<"unknown", "failed">> # <<"failed">>
    /\ <<"started">> \in Lists /\ <<"applied">> \in Lists /\ <<"unknown">> \in Lists
    /\ <<"verified">> \in Lists /\ <<"failed">> \in Lists /\ <<"unknown", "failed">> \in Lists
BY DEF Fails, Lists

LEMMA NoPlanType == NoPlan \in Plans
<1>1. <<>> \in Todos /\ <<>> \in PlanEffects /\ "release" \in Thens /\ "none" \in Prevs
  BY DEF Todos, PlanEffects, Thens, Prevs
<1> QED
  BY <1>1, OutcomeFacts DEF NoPlan, Plans

LEMMA AllowedFacts ==
    /\ \A s \in EffectState : Allowed[s] \subseteq EffectState
    /\ \A s \in EffectState : "prepared" \notin Allowed[s]
    /\ Allowed["verified"] = {} /\ Allowed["failed"] = {}
BY DEF Allowed, EffectState

LEMMA MineType == ASSUME Types, NEW w \in Workers PROVE Mine(w) \in Effect
BY DEF Types, Requests, Mine, Effect

LEMMA MineParts ==
    ASSUME NEW w PROVE Mine(w)[1] = req[w].inv /\ Mine(w)[2] = req[w].act /\ Mine(w)[3] = token[w]
BY DEF Mine

LEMMA PreparedType == ASSUME Types, NEW w \in Workers PROVE Prepared(w) \in Event
BY MineType DEF Prepared, Event, EffectState

LEMMA TransitionType ==
    ASSUME Types, NEW w \in Workers, AppendOK(w), pc[w] = "append" PROVE Transition(w) \in Event
<1>1. plan[w].prev \in EffectState \cup {"none"} /\ plan[w].seq + 1 \in Nat
  BY DEF Types, Plans, Prevs
<1> QED
  BY <1>1 DEF Transition, Event, AppendOK

\* Before the log is full an append is an append.
LEMMA RetainedRoom == ASSUME NEW l \in Seq(Event), Len(l) <= MaxRecords PROVE Retained(l) = l
<1>1. Len(l) \in Nat /\ SubSeq(l, 1, Len(l)) = l
  BY LenProperties, SubSeqFull
<1>2. 1 + (IF Len(l) > MaxRecords THEN Len(l) - MaxRecords ELSE 0) = 1
  BY <1>1, BoundAssumption
<1> QED
  BY <1>1, <1>2 DEF Retained

-----------------------------------------------------------------------------
(* The kinds of steps *)

Keeps == UNCHANGED <<req, token, ran, writer, fence, calls, applied>>
Frees(w) == binder' = binder \/ Unbound(w)

\* The event a worker is about to append.
Pending(w) == IF pc[w] = "preparing" THEN Prepared(w) ELSE Transition(w)

\* To the report, whether or not an event under way is stored.
Ends(w, o) ==
    /\ pc[w] # "idle" /\ Finish(w, o)
    /\ Keeps /\ Frees(w)
    /\ \/ UNCHANGED book
       \/ pc[w] \in {"preparing", "append"} /\ AppendRaises(Pending(w))
    /\ Book => Honest(w, o)

\* To the transitions of an effect.
Begins(w, e, todo, then, ok, bad) ==
    /\ Active(w) /\ Record(w, e, todo, then, ok, bad)
    /\ Keeps /\ Frees(w) /\ UNCHANGED book
    /\ then = "started" => ~ran[w]
    /\ then \in {"claimed", "unclear"} => ran[w]
    /\ Book => JobOK(w, e, todo, then, ok, bad)

EndsWell(w) == \E o \in Outcome : Ends(w, o)
BeginsWell(w) ==
    \E e \in Effect, todo \in Todos, then \in Thens, ok \in Outcome, bad \in Outcome :
        Begins(w, e, todo, then, ok, bad)

\* Steps that give up before the tool is called.
LEMMA GivesUp ==
    ASSUME Base, NEW w \in Workers,
           \/ TargetUnavailable(w) \/ StopFenced(w) \/ BindFails(w) \/ PrepareRefuses(w)
           \/ PrepareRaises(w) \/ ValidateRaises(w)
    PROVE  EndsWell(w)
<1>1. pc[w] \in {"lease", "fenced", "bound", "preparing", "started"} /\ ~ran[w]
  BY DEF TargetUnavailable, StopFenced, BindFails, PrepareRefuses, PrepareRaises, ValidateRaises, Base, RanOK
<1>2. PICK o \in {Stopped, Failed(FALSE)} : Finish(w, o)
  BY DEF TargetUnavailable, StopFenced, BindFails, PrepareRefuses, PrepareRaises, ValidateRaises
<1>3. /\ Keeps /\ Frees(w)
      /\ UNCHANGED book \/ (pc[w] = "preparing" /\ AppendRaises(Prepared(w)))
  BY DEF TargetUnavailable, StopFenced, BindFails, PrepareRefuses, PrepareRaises, ValidateRaises,
         Keeps, Frees, lock, world
<1>4. Ends(w, o)
  BY <1>1, <1>2, <1>3, HonestFacts DEF Ends, Pending
<1> QED
  BY <1>4, OutcomeFacts DEF EndsWell

LEMMA RaisesInLedger ==
    ASSUME Base, NEW w \in Workers, ReadFails(w) \/ AppendFails(w) PROVE EndsWell(w)
<1>1. pc[w] \in {"read", "append"} /\ Finish(w, plan[w].bad)
  BY DEF ReadFails, AppendFails
<1>2. /\ Keeps /\ Frees(w)
      /\ UNCHANGED book \/ (pc[w] = "append" /\ AppendRaises(Transition(w)))
  BY DEF ReadFails, AppendFails, Keeps, Frees, lock, world
<1>3. Book => Honest(w, plan[w].bad)
  BY <1>1 DEF Book, WorkOK, JobOK
<1>4. Ends(w, plan[w].bad)
  BY <1>1, <1>2, <1>3 DEF Ends, Pending
<1> QED
  BY <1>4 DEF EndsWell, Base, Types, Plans

LEMMA InterruptEnds == ASSUME Base, NEW w \in Workers, Interrupt(w) PROVE EndsWell(w)
<1>1. pc[w] # "idle" /\ Finish(w, Untyped) /\ Keeps /\ Frees(w)
  BY DEF Interrupt, Keeps, Frees, world
<1>2. \/ UNCHANGED book
      \/ pc[w] = "preparing" /\ AppendRaises(Prepared(w))
      \/ pc[w] = "append" /\ AppendRaises(Transition(w))
  BY DEF Interrupt
<1>3. Ends(w, Untyped)
  BY <1>1, <1>2, HonestFacts DEF Ends, Pending
<1> QED
  BY <1>3, OutcomeFacts DEF EndsWell

\* The newest event of an effect is in the log, and none of it is newer.
LEMMA NewestFacts ==
    ASSUME NEW l \in Seq(Event), Whole(l), NEW e \in Effects(l)
    PROVE  /\ Newest(l, e) \in 1..Len(l) /\ NewestAt(l, Len(l), Newest(l, e), e)
           /\ Latest(l, e) \in Event
<1>1. Len(l) \in Nat /\ DOMAIN l = 1..Len(l) /\ \A i \in 1..Len(l) : l[i] \in Event
  BY LenProperties, ElementOfSeq
<1>2. PICK i \in 1..Len(l) : l[i].effect = e
  BY <1>1 DEF Effects
<1>3. PICK m \in 1..Len(l) : NewestAt(l, Len(l), m, e)
  <2>1. Len(l) \in 1..Len(l) /\ i \in 1..Len(l)
    BY <1>1, <1>2
  <2>2. \E m \in i..Len(l) : NewestAt(l, Len(l), m, l[i].effect)
    BY <2>1 DEF Whole
  <2> QED
    BY <1>1, <1>2, <2>2
<1>4. l[m].effect = e /\ \A j \in DOMAIN l : j > m => l[j].effect # e
  BY <1>1, <1>3 DEF NewestAt
<1>5. /\ Newest(l, e) \in DOMAIN l /\ l[Newest(l, e)].effect = e
      /\ \A j \in DOMAIN l : j > Newest(l, e) => l[j].effect # e
  BY <1>1, <1>4 DEF Newest
<1> QED
  BY <1>1, <1>5 DEF NewestAt, Latest

\* A settled state is the newest of its effect and true of it; a "prepared" one
\* means that there is nothing else.
LEMMA LatestFacts ==
    ASSUME Base, LogInv, NEW e \in Effects(log)
    PROVE  /\ Latest(log, e).state = "verified" => <<e[1], e[2]>> \in applied
           /\ Latest(log, e).state = "failed" => <<e[1], e[2]>> \notin applied
           /\ Latest(log, e).state = "prepared" =>
                  \A i \in 1..Len(log) : log[i].effect = e => log[i].state = "prepared"
<1> DEFINE m == Newest(log, e)
<1>1. m \in 1..Len(log) /\ NewestAt(log, Len(log), m, e) /\ Latest(log, e) = log[m] /\ Len(log) \in Nat
  BY NewestFacts, LenProperties DEF Base, Types, Latest
<1> HIDE DEF m
<1>2. log[m].effect = e /\ \A i \in 1..Len(log) : log[i].effect = e => i <= m
  BY <1>1 DEF NewestAt
<1>3. \A i \in 1..Len(log) : log[i].effect = e /\ i # m => log[m].state # "prepared"
  BY <1>1, <1>2 DEF LogInv, Chained
<1>4. /\ log[m].state = "verified" => <<e[1], e[2]>> \in applied
      /\ log[m].state = "failed" => <<e[1], e[2]>> \notin applied
  BY <1>1, <1>2 DEF LogInv, Settled
<1> QED
  BY <1>1, <1>2, <1>3, <1>4

\* A tool-call id that is in the ledger has the effect of its calls.
LEMMA CallOfKey ==
    ASSUME Base, Book, NEW i \in 1..Len(log), NEW j \in DOMAIN calls,
           calls[j][1] = log[i].effect[1]
    PROVE  calls[j] = log[i].effect
<1>1. Len(log) \in Nat /\ unsynced \in 0..Len(log)
  BY LenProperties DEF Base, Types
<1>2. PICK k \in 1..(Len(log) - unsynced) : log[k].effect = calls[j]
  BY DEF Book, CallInv, Intended
<1>3. k \in 1..Len(log)
  BY <1>1, <1>2
<1> QED
  BY <1>2, <1>3 DEF Book, LogInv, OneEffect

\* As long as its effect is in the ledger and its call is not made, a worker's
\* action has no effect.
LEMMA NotApplied ==
    ASSUME Base, Book, NEW i \in 1..Len(log), NEW k \in applied,
           k[1] = log[i].effect[1], \A j \in DOMAIN calls : calls[j] # log[i].effect
    PROVE  FALSE
<1>1. PICK j \in DOMAIN calls : calls[j][1] = k[1]
  BY DEF Book, CallInv
<1> QED
  BY <1>1, CallOfKey

\* An effect that is only prepared has not been called.
LEMMA PreparedNotCalled ==
    ASSUME Base, Book, NEW e, \A i \in 1..Len(log) : log[i].effect = e => log[i].state = "prepared"
    PROVE  \A j \in DOMAIN calls : calls[j] # e
<1>1. Len(log) \in Nat /\ unsynced \in 0..Len(log)
  BY LenProperties DEF Base, Types
<1> SUFFICES ASSUME NEW j \in DOMAIN calls, calls[j] = e PROVE FALSE
  OBVIOUS
<1>2. PICK k \in 1..(Len(log) - unsynced) : log[k].effect = e /\ log[k].state # "prepared"
  BY DEF Book, CallInv, Intended
<1>3. k \in 1..Len(log)
  BY <1>1, <1>2
<1> QED
  BY <1>2, <1>3

LEMMA MineNotCalled ==
    ASSUME Base, NEW w \in Workers, Active(w), ~ran[w] PROVE \A j \in DOMAIN calls : calls[j] # Mine(w)
<1> SUFFICES ASSUME NEW j \in DOMAIN calls, calls[j] = Mine(w) PROVE FALSE
  OBVIOUS
<1>1. calls[j][3] = token[w] /\ TargetOf[calls[j][2]] = Target(w)
  BY MineParts DEF Target
<1>2. calls[j][3] < token[w] /\ token[w] \in Nat
  BY <1>1 DEF Base, RanOK, Types
<1> QED
  BY <1>1, <1>2

LEMMA LiveNotApplied ==
    ASSUME Base, Book, NEW w \in Workers, Active(w), ~ran[w], Live(w) PROVE Key(w) \notin applied
<1>1. PICK i \in 1..Len(log) : log[i].effect = Mine(w)
  BY DEF Live
<1>2. Key(w)[1] = log[i].effect[1]
  BY <1>1, MineParts DEF Key
<1> QED
  BY <1>1, <1>2, MineNotCalled, NotApplied

LEMMA DeduplicateKind == ASSUME Base, NEW w \in Workers, Deduplicate(w) PROVE EndsWell(w) \/ BeginsWell(w)
<1>1. /\ pc[w] = "bound" /\ ~ran[w] /\ Keeps /\ Frees(w) /\ UNCHANGED book
      /\ Active(w)
  BY DEF Deduplicate, Keeps, Frees, world, Base, RanOK, Active
<1>2. PICK e \in Existing(w) :
           LET s == Latest(log, e).state IN
           \/ s = "verified" /\ Finish(w, Succeeded(FALSE))
           \/ s = "failed" /\ Finish(w, KnownFailure(FALSE))
           \/ /\ s = "prepared" /\ token[w] > e[3]
              /\ Record(w, e, <<"failed">>, "release", KnownFailure(FALSE), KnownFailure(FALSE))
           \/ s = "prepared" /\ token[w] <= e[3] /\ Finish(w, KnownFailure(FALSE))
           \/ s \in {"started", "applied", "unknown"} /\ Finish(w, Failed(TRUE))
  BY DEF Deduplicate
<1>3. e \in Effects(log) /\ e[1] = req[w].inv /\ e[2] = req[w].act /\ <<e[1], e[2]>> = Key(w)
  BY <1>2 DEF Existing, Key
<1>4. PICK i \in 1..Len(log) : log[i].effect = e
  BY <1>3, LenProperties DEF Effects, Base, Types
<1>5. e \in Effect
  <2>1. log[i] \in Event
    BY <1>4, ElementOfSeq DEF Base, Types
  <2> QED
    BY <1>4, <2>1 DEF Event
<1>6. CASE Latest(log, e).state = "verified" /\ Finish(w, Succeeded(FALSE))
  <2>1. Book => Honest(w, Succeeded(FALSE))
    BY <1>1, <1>3, <1>6, LatestFacts, HonestFacts DEF Book
  <2> QED
    BY <1>1, <1>6, <2>1, OutcomeFacts DEF EndsWell, Ends
<1>7. CASE Finish(w, KnownFailure(FALSE))
  BY <1>1, <1>7, HonestFacts, OutcomeFacts DEF EndsWell, Ends
<1>8. CASE Finish(w, Failed(TRUE))
  BY <1>1, <1>8, HonestFacts, OutcomeFacts DEF EndsWell, Ends
<1>9. CASE /\ Latest(log, e).state = "prepared"
           /\ Record(w, e, <<"failed">>, "release", KnownFailure(FALSE), KnownFailure(FALSE))
  <2>1. ASSUME Book PROVE Key(w) \notin applied
    <3>1. \A j \in DOMAIN calls : calls[j] # e
      BY <1>3, <1>9, <2>1, LatestFacts, PreparedNotCalled DEF Book
    <3>2. Key(w)[1] = log[i].effect[1]
      BY <1>3, <1>4 DEF Key
    <3> QED
      BY <1>4, <2>1, <3>1, <3>2, NotApplied
  <2>2. Book => JobOK(w, e, <<"failed">>, "release", KnownFailure(FALSE), KnownFailure(FALSE))
    BY <1>1, <1>3, <2>1, HonestFacts, ListsApart DEF JobOK
  <2>3. Begins(w, e, <<"failed">>, "release", KnownFailure(FALSE), KnownFailure(FALSE))
    BY <1>1, <1>9, <2>2 DEF Begins
  <2>4. <<"failed">> \in Todos /\ "release" \in Thens
    BY ListFacts, ListsApart DEF Thens
  <2> QED
    BY <1>5, <2>3, <2>4, OutcomeFacts DEF BeginsWell
<1> QED
  BY <1>2, <1>6, <1>7, <1>8, <1>9

\* A worker that records something about its own effect.
LEMMA RecordsOwn ==
    ASSUME Base, NEW w \in Workers, Active(w), Keeps, binder' = binder, UNCHANGED book,
           NEW todo \in Lists, NEW then \in Thens, NEW ok \in Outcome, NEW bad \in Outcome,
           Record(w, Mine(w), todo, then, ok, bad),
           todo = <<"started">> <=> then = "started",
           then = "started" => ~ran[w], then \in {"claimed", "unclear"} => ran[w],
           Book => /\ todo = <<"started">> => Live(w)
                   /\ todo = <<"verified">> => Key(w) \in applied
                   /\ todo \in Fails => Key(w) \notin applied
                   /\ Honest(w, ok) /\ Honest(w, bad),
           then # "release" => ok = Untyped
    PROVE  BeginsWell(w)
<1>1. Book => JobOK(w, Mine(w), todo, then, ok, bad)
  BY MineParts DEF JobOK
<1>2. Begins(w, Mine(w), todo, then, ok, bad)
  BY <1>1 DEF Begins, Frees
<1>3. Mine(w) \in Effect /\ todo \in Todos
  BY MineType, ListFacts DEF Base
<1> QED
  BY <1>2, <1>3 DEF BeginsWell

LEMMA StopBeforeCallKind ==
    ASSUME Base, NEW w \in Workers, StopBeforeCall(w) PROVE BeginsWell(w)
<1>1. /\ pc[w] \in {"prepared", "started"} /\ ~ran[w] /\ Active(w)
      /\ Keeps /\ binder' = binder /\ UNCHANGED book
  BY DEF StopBeforeCall, Keeps, lock, world, Base, RanOK, Active
<1>2. PICK ok \in {Stopped, Failed(FALSE)} :
          Record(w, Mine(w), <<"failed">>, "release", ok, Failed(FALSE))
  BY DEF StopBeforeCall
<1>3. Book => Key(w) \notin applied
  BY <1>1, LiveNotApplied DEF Book, WorkOK
<1>4. Honest(w, ok) /\ Honest(w, Failed(FALSE)) /\ ok \in Outcome /\ Failed(FALSE) \in Outcome
  BY <1>1, <1>2, HonestFacts, OutcomeFacts
<1>5. "release" \in Thens
  BY DEF Thens
<1> QED
  BY <1>1, <1>2, <1>3, <1>4, <1>5, ListsApart, RecordsOwn

LEMMA RecordStartKind ==
    ASSUME Base, NEW w \in Workers, RecordStart(w) PROVE BeginsWell(w)
<1>1. /\ pc[w] = "prepared" /\ ~ran[w] /\ Active(w)
      /\ Keeps /\ binder' = binder /\ UNCHANGED book
      /\ Record(w, Mine(w), <<"started">>, "started", Untyped, Failed(FALSE))
  BY DEF RecordStart, Keeps, lock, world, Base, RanOK, Active
<1>2. Book => Live(w)
  BY <1>1 DEF Book, WorkOK
<1>3. Honest(w, Untyped) /\ Honest(w, Failed(FALSE)) /\ Untyped \in Outcome /\ Failed(FALSE) \in Outcome
  BY <1>1, HonestFacts, OutcomeFacts
<1>4. "started" \in Thens
  BY DEF Thens
<1> QED
  BY <1>1, <1>2, <1>3, <1>4, ListsApart, RecordsOwn

\* What is recorded after the call.
LEMMA AfterCallKind ==
    ASSUME Base, NEW w \in Workers,
           \/ StaleAfterCall(w) \/ RecordReply(w) \/ Confirm(w) \/ Refute(w)
           \/ (LeaveUnknown(w) /\ pc[w] = "claimed")
    PROVE  BeginsWell(w)
<1>1. /\ pc[w] \in {"returned", "claimed", "unclear"} /\ ran[w] /\ Active(w)
      /\ Keeps /\ binder' = binder /\ UNCHANGED book
  BY DEF StaleAfterCall, RecordReply, Confirm, Refute, LeaveUnknown, Keeps, lock, world, Base, RanOK, Active
<1>2. \/ Record(w, Mine(w), <<"unknown">>, "release", Failed(TRUE), Failed(TRUE))
      \/ Record(w, Mine(w), <<"applied">>, "claimed", Untyped, Failed(TRUE))
      \/ Record(w, Mine(w), <<"unknown">>, "unclear", Untyped, Failed(TRUE))
      \/ /\ Key(w) \in applied
         /\ Record(w, Mine(w), <<"verified">>, "release", Succeeded(TRUE), Failed(TRUE))
      \/ /\ Key(w) \notin applied
         /\ \E todo \in Fails : Record(w, Mine(w), todo, "release", KnownFailure(TRUE), Failed(TRUE))
  BY ListsApart DEF StaleAfterCall, RecordReply, Confirm, Refute, LeaveUnknown, Key
<1>3. /\ Honest(w, Untyped) /\ Honest(w, Failed(TRUE)) /\ Untyped \in Outcome /\ Failed(TRUE) \in Outcome
      /\ Succeeded(TRUE) \in Outcome /\ KnownFailure(TRUE) \in Outcome
      /\ Key(w) \in applied => Honest(w, Succeeded(TRUE))
      /\ Key(w) \notin applied => Honest(w, KnownFailure(TRUE))
  BY HonestFacts, OutcomeFacts
<1>4. {"release", "claimed", "unclear"} \subseteq Thens
  BY DEF Thens
<1>5. CASE Record(w, Mine(w), <<"unknown">>, "release", Failed(TRUE), Failed(TRUE))
  BY <1>1, <1>3, <1>4, <1>5, ListsApart, RecordsOwn
<1>6. CASE Record(w, Mine(w), <<"applied">>, "claimed", Untyped, Failed(TRUE))
  BY <1>1, <1>3, <1>4, <1>6, ListsApart, RecordsOwn
<1>7. CASE Record(w, Mine(w), <<"unknown">>, "unclear", Untyped, Failed(TRUE))
  BY <1>1, <1>3, <1>4, <1>7, ListsApart, RecordsOwn
<1>8. CASE /\ Key(w) \in applied
           /\ Record(w, Mine(w), <<"verified">>, "release", Succeeded(TRUE), Failed(TRUE))
  BY <1>1, <1>3, <1>4, <1>8, ListsApart, RecordsOwn
<1>9. ASSUME Key(w) \notin applied, NEW todo \in Fails,
             Record(w, Mine(w), todo, "release", KnownFailure(TRUE), Failed(TRUE))
      PROVE  BeginsWell(w)
  <2>1. todo \in Lists /\ todo # <<"started">> /\ todo # <<"verified">>
    BY <1>9, ListsApart DEF Lists
  <2> QED
    BY <1>1, <1>3, <1>4, <1>9, <2>1, RecordsOwn
<1> QED
  BY <1>2, <1>5, <1>6, <1>7, <1>8, <1>9

LEMMA LeaveUnknownKind ==
    ASSUME Base, NEW w \in Workers, LeaveUnknown(w) PROVE EndsWell(w) \/ BeginsWell(w)
<1>1. CASE pc[w] = "claimed"
  BY <1>1, AfterCallKind
<1>2. CASE pc[w] # "claimed"
  <2>1. pc[w] = "unclear" /\ Finish(w, Failed(TRUE)) /\ Keeps /\ Frees(w) /\ UNCHANGED book
    BY <1>2 DEF LeaveUnknown, Keeps, Frees, lock, world
  <2> QED
    BY <2>1, HonestFacts, OutcomeFacts DEF EndsWell, Ends
<1> QED
  BY <1>1, <1>2

\* Every step of a dispatch is of one of ten kinds.
LEMMA Kinds ==
    ASSUME Base, NEW w \in Workers, Ledger(w) \/ Run(w) \/ Interrupt(w)
    PROVE  \/ EndsWell(w) \/ BeginsWell(w)
           \/ AcquireTarget(w) \/ BindInvocation(w) \/ PrepareReads(w) \/ PrepareStores(w)
           \/ ReadLedger(w) \/ AppendReturns(w) \/ Invoke(w) \/ Report(w)
BY GivesUp, RaisesInLedger, InterruptEnds, DeduplicateKind, StopBeforeCallKind, RecordStartKind,
   AfterCallKind, LeaveUnknownKind DEF Ledger, Run

-----------------------------------------------------------------------------
(* The log *)

LEMMA WholeAppend ==
    ASSUME NEW l \in Seq(Event), Whole(l), NEW x \in Event PROVE Whole(Append(l, x))
<1> DEFINE a == Append(l, x)
<1>1. Len(l) \in Nat /\ Len(a) = Len(l) + 1 /\ a[Len(l) + 1] = x /\ \A i \in 1..Len(l) : a[i] = l[i]
  BY AppendProperties, LenProperties
<1> HIDE DEF a
<1> SUFFICES ASSUME NEW n \in 1..Len(a), NEW i \in 1..n
             PROVE  \E m \in i..n : NewestAt(a, n, m, a[i].effect)
  BY DEF Whole, a
<1>2. CASE n <= Len(l)
  <2>1. n \in 1..Len(l) /\ i \in 1..n /\ i \in 1..Len(l) /\ n \in Nat
    BY <1>1, <1>2
  <2>2. PICK m \in i..n : NewestAt(l, n, m, l[i].effect)
    BY <2>1 DEF Whole
  <2>3. m \in 1..Len(l) /\ \A k \in (m + 1)..n : k \in 1..Len(l)
    BY <1>1, <2>1
  <2>4. a[i] = l[i] /\ a[m] = l[m] /\ \A k \in (m + 1)..n : a[k] = l[k]
    BY <1>1, <2>1, <2>3
  <2> QED
    BY <2>2, <2>4 DEF NewestAt
<1>3. CASE n = Len(l) + 1 /\ x.effect = a[i].effect
  BY <1>1, <1>3 DEF NewestAt
<1>4. CASE n = Len(l) + 1 /\ x.effect # a[i].effect
  <2>1. i \in 1..Len(l) /\ Len(l) \in 1..Len(l)
    BY <1>1, <1>4
  <2>2. PICK m \in i..Len(l) : NewestAt(l, Len(l), m, l[i].effect)
    BY <2>1 DEF Whole
  <2>3. m \in 1..Len(l) /\ \A k \in (m + 1)..n : k \in (m + 1)..Len(l) \/ k = Len(l) + 1
    BY <1>1, <1>4, <2>1
  <2>4. \A k \in (m + 1)..Len(l) : k \in 1..Len(l)
    BY <1>1, <2>3
  <2>5. a[i] = l[i] /\ a[m] = l[m] /\ \A k \in (m + 1)..Len(l) : a[k] = l[k]
    BY <1>1, <2>1, <2>3, <2>4
  <2>6. \A k \in (m + 1)..n : a[k].effect # a[i].effect
    BY <1>1, <1>4, <2>2, <2>3, <2>5 DEF NewestAt
  <2>7. m \in i..n
    BY <1>1, <1>4, <2>2
  <2> QED
    BY <2>2, <2>5, <2>6, <2>7 DEF NewestAt
<1> QED
  BY <1>1, <1>2, <1>3, <1>4

LEMMA SubSeqFacts ==
    ASSUME NEW l \in Seq(Event), NEW a \in Nat \ {0}, NEW b \in 0..Len(l)
    PROVE  /\ SubSeq(l, a, b) \in Seq(Event)
           /\ Len(SubSeq(l, a, b)) = IF a <= b THEN b - a + 1 ELSE 0
           /\ \A i \in 1..Len(SubSeq(l, a, b)) : SubSeq(l, a, b)[i] = l[a + i - 1]
<1>1. Len(l) \in Nat /\ \A i \in 1..Len(l) : l[i] \in Event
  BY LenProperties, ElementOfSeq
<1>2. \A i \in a..b : l[i] \in Event
  BY <1>1
<1>3. a \in Int /\ b \in Int
  BY <1>1
<1> QED
  BY <1>1, <1>2, <1>3, SubSeqProperties

LEMMA WholeSubSeq ==
    ASSUME NEW l \in Seq(Event), Whole(l), NEW a \in Nat \ {0}, NEW b \in 0..Len(l)
    PROVE  Whole(SubSeq(l, a, b))
<1> DEFINE s == SubSeq(l, a, b)
<1>1. /\ Len(l) \in Nat /\ Len(s) = IF a <= b THEN b - a + 1 ELSE 0
      /\ \A i \in 1..Len(s) : s[i] = l[a + i - 1]
  BY SubSeqFacts, LenProperties
<1> HIDE DEF s
<1> SUFFICES ASSUME NEW n \in 1..Len(s), NEW i \in 1..n
             PROVE  \E m \in i..n : NewestAt(s, n, m, s[i].effect)
  BY DEF Whole, s
<1>2. a + n - 1 \in 1..Len(l) /\ a + i - 1 \in 1..(a + n - 1)
  BY <1>1
<1>3. PICK m \in (a + i - 1)..(a + n - 1) : NewestAt(l, a + n - 1, m, l[a + i - 1].effect)
  BY <1>2 DEF Whole
<1> DEFINE c == m - a + 1
<1>4. /\ i \in Nat /\ n \in Nat /\ a \in Nat /\ m \in Int
      /\ c \in Int /\ c \in i..n /\ a + c - 1 = m
  BY <1>1, <1>3
<1> HIDE DEF c
<1>5. \A k \in (c + 1)..n : k \in 1..Len(s) /\ a + k - 1 \in (m + 1)..(a + n - 1)
  BY <1>1, <1>4
<1>6. s[i] = l[a + i - 1] /\ s[c] = l[m]
  <2>1. i \in 1..Len(s) /\ c \in 1..Len(s)
    BY <1>4
  <2>2. s[c] = l[a + c - 1]
    BY <1>1, <2>1
  <2> QED
    BY <1>1, <1>4, <2>1, <2>2
<1>7. \A k \in (c + 1)..n : s[k].effect # s[i].effect
  BY <1>1, <1>3, <1>5, <1>6 DEF NewestAt
<1>8. NewestAt(s, n, c, s[i].effect)
  BY <1>3, <1>6, <1>7 DEF NewestAt
<1> QED
  BY <1>4, <1>8

LogOK(l, u) == l \in Seq(Event) /\ u \in 0..Len(l) /\ Whole(l)

LEMMA StoredOK ==
    ASSUME LogOK(log, unsynced), NEW x \in Event, AppendStored(x) PROVE LogOK(log', unsynced')
<1> DEFINE a == Append(log, x)
           n == 1 + (IF Len(a) > MaxRecords THEN Len(a) - MaxRecords ELSE 0)
<1>1. a \in Seq(Event) /\ Whole(a) /\ Len(a) \in Nat
  BY AppendProperties, WholeAppend, LenProperties DEF LogOK
<1> HIDE DEF a
<1>2. n \in Nat \ {0} /\ Len(a) \in 0..Len(a)
  BY <1>1, BoundAssumption
<1>3. log' = SubSeq(a, n, Len(a)) /\ unsynced' = 0
  BY DEF AppendStored, Retained, a
<1> HIDE DEF n
<1>4. log' \in Seq(Event) /\ Whole(log')
  BY <1>1, <1>2, <1>3, SubSeqFacts, WholeSubSeq
<1>5. 0 \in 0..Len(log')
  BY <1>4, LenProperties
<1> QED
  BY <1>3, <1>4, <1>5 DEF LogOK

LEMMA RaisedOK ==
    ASSUME LogOK(log, unsynced), NEW x \in Event, AppendRaises(x) PROVE LogOK(log', unsynced')
<1>1. CASE UNCHANGED book
  BY <1>1 DEF book, LogOK
<1>2. CASE log' = Append(log, x) /\ unsynced' = unsynced + 1
  <2>1. /\ Append(log, x) \in Seq(Event) /\ Whole(Append(log, x)) /\ Len(log) \in Nat
        /\ Len(Append(log, x)) = Len(log) + 1
    BY AppendProperties, WholeAppend, LenProperties DEF LogOK
  <2>2. unsynced + 1 \in 0..(Len(log) + 1)
    BY <2>1 DEF LogOK
  <2> QED
    BY <1>2, <2>1, <2>2 DEF LogOK
<1> QED
  BY <1>1, <1>2 DEF AppendRaises

-----------------------------------------------------------------------------
(* The unconditional invariant, kind by kind *)

LocalTypes ==
    /\ pc \in [Workers -> Pcs] /\ req \in [Workers -> Requests] /\ token \in [Workers -> Nat]
    /\ plan \in [Workers -> Plans] /\ outcome \in [Workers -> Outcome]
    /\ ran \in [Workers -> BOOLEAN]

\* Nothing of another worker changes.
Aside(w) ==
    \A v \in Workers \ {w} :
        /\ pc'[v] = pc[v] /\ req'[v] = req[v] /\ token'[v] = token[v] /\ plan'[v] = plan[v]
        /\ outcome'[v] = outcome[v] /\ ran'[v] = ran[v]

LEMMA BinderFacts ==
    ASSUME Types, NEW w \in Workers, Frees(w)
    PROVE  /\ binder' \in [Invocations -> Workers \cup {NoWorker}]
           /\ \A i \in Invocations : binder'[i] = binder[i] \/ binder[i] = w
BY DEF Types, Frees, Unbound

LEMMA LocalBase ==
    ASSUME Base, NEW w \in Workers, LocalTypes', Aside(w), Keeps,
           binder' \in [Invocations -> Workers \cup {NoWorker}], LogOK(log', unsynced'),
           Active(w)' => Active(w),
           RanOK(w)', AppendOK(w)'
    PROVE  Base'
<1>1. Types'
  BY DEF Base, Types, LocalTypes, Keeps, LogOK
<1>2. CallsFenced'
  BY DEF Base, CallsFenced, Keeps
<1>3. LeaseInv'
  <2>1. \A v \in Workers : Active(v)' => Active(v)
    BY DEF Aside, Active
  <2> QED
    BY <2>1 DEF Base, LeaseInv, Keeps, Target
<1>4. ASSUME NEW v \in Workers, v # w PROVE RanOK(v)' /\ AppendOK(v)'
  <2>1. RanOK(v) /\ AppendOK(v) /\ pc'[v] = pc[v] /\ plan'[v] = plan[v]
    BY <1>4 DEF Base, Aside
  <2> QED
    BY <2>1 DEF RanOK, AppendOK, Keeps, Active, Target, Mine
<1> QED
  BY <1>1, <1>2, <1>3, <1>4 DEF Base, LogOK

LEMMA LogOKNow == ASSUME Base PROVE LogOK(log, unsynced)
BY DEF Base, Types, LogOK

LEMMA PcNames ==
    /\ {"idle", "lease", "fenced", "bound", "preparing", "prepared", "read", "append",
        "started", "returned", "claimed", "unclear", "release"} = Pcs
    /\ Thens \subseteq Pcs
BY DEF Pcs, Thens

LEMMA EndsBase == ASSUME Base, NEW w \in Workers, EndsWell(w) PROVE Base'
<1>1. PICK o \in Outcome : Ends(w, o)
  BY DEF EndsWell
<1>2. /\ pc' = [pc EXCEPT ![w] = "release"] /\ plan' = [plan EXCEPT ![w] = NoPlan]
      /\ outcome' = [outcome EXCEPT ![w] = o] /\ Keeps /\ Frees(w)
  BY <1>1 DEF Ends, Finish, Goto
<1>3. LocalTypes' /\ Aside(w) /\ pc'[w] = "release"
  BY <1>2, NoPlanType, PcNames DEF Base, Types, LocalTypes, Aside, Keeps
<1>4. LogOK(log', unsynced')
  <2>1. CASE UNCHANGED book
    BY <2>1, LogOKNow DEF book
  <2>2. CASE pc[w] \in {"preparing", "append"} /\ AppendRaises(Pending(w))
    <3>1. Pending(w) \in Event
      BY <2>2, PreparedType, TransitionType DEF Pending, Base
    <3> QED
      BY <2>2, <3>1, LogOKNow, RaisedOK
  <2> QED
    BY <1>1, <2>1, <2>2 DEF Ends
<1>5. RanOK(w)' /\ AppendOK(w)' /\ ~Active(w)'
  <2>1. ran[w] => \E i \in DOMAIN calls : calls[i] = Mine(w)
    BY DEF Base, RanOK
  <2> QED
    BY <1>2, <1>3, <2>1 DEF RanOK, AppendOK, Active, Keeps, Mine
<1> QED
  BY <1>2, <1>3, <1>4, <1>5, BinderFacts, LocalBase DEF Base

LEMMA BeginsBase == ASSUME Base, NEW w \in Workers, BeginsWell(w) PROVE Base'
<1>1. PICK e \in Effect, todo \in Todos, then \in Thens, ok \in Outcome, bad \in Outcome :
          Begins(w, e, todo, then, ok, bad)
  BY DEF BeginsWell
<1> DEFINE p == [NoPlan EXCEPT !.todo = todo, !.effect = e, !.then = then, !.ok = ok, !.bad = bad]
<1>2. /\ pc' = [pc EXCEPT ![w] = "read"] /\ plan' = [plan EXCEPT ![w] = p]
      /\ UNCHANGED <<outcome, log, unsynced>> /\ Keeps /\ Frees(w) /\ Active(w)
  BY <1>1 DEF Begins, Record, Goto, book
<1>3. p \in Plans /\ p.then = then
  <2>1. e \in PlanEffects
    BY DEF PlanEffects
  <2> QED
    BY <2>1, NoPlanType DEF Plans
<1> HIDE DEF p
<1>4. LocalTypes' /\ Aside(w) /\ pc'[w] = "read" /\ plan'[w] = p
  BY <1>2, <1>3, PcNames DEF Base, Types, LocalTypes, Aside, Keeps
<1>5. RanOK(w)' /\ AppendOK(w)'
  <2>1. /\ ran[w] => \E i \in DOMAIN calls : calls[i] = Mine(w)
        /\ ~ran[w] =>
             \A i \in DOMAIN calls : TargetOf[calls[i][2]] = Target(w) => calls[i][3] < token[w]
    BY <1>2 DEF Base, RanOK
  <2>2. (then = "started" => ~ran[w]) /\ (then \in {"claimed", "unclear"} => ran[w])
    BY <1>1 DEF Begins
  <2> QED
    BY <1>2, <1>3, <1>4, <2>1, <2>2 DEF RanOK, AppendOK, Active, Keeps, Mine, Target
<1>6. LogOK(log', unsynced')
  BY <1>2, LogOKNow
<1> QED
  BY <1>2, <1>4, <1>5, <1>6, BinderFacts, LocalBase DEF Base

\* Steps of a worker before its call that change nothing but where it is.
LEMMA MovesBase ==
    ASSUME Base, NEW w \in Workers, pc[w] \in {"fenced", "bound"},
           \E l \in {"bound", "preparing"} : pc' = [pc EXCEPT ![w] = l],
           binder' \in [Invocations -> Workers \cup {NoWorker}],
           UNCHANGED <<req, token, plan, outcome, ran, writer, fence, log, unsynced, calls, applied>>
    PROVE  Base'
<1>1. LocalTypes' /\ Aside(w) /\ Keeps /\ pc'[w] \in {"bound", "preparing"} /\ Active(w)
  BY PcNames DEF Base, Types, LocalTypes, Aside, Keeps, Active
<1>2. RanOK(w)
  BY DEF Base
<1>3. RanOK(w)' /\ AppendOK(w)'
  BY <1>1, <1>2 DEF RanOK, AppendOK, Active, Mine, Target
<1>4. LogOK(log', unsynced')
  BY LogOKNow
<1> QED
  BY <1>1, <1>3, <1>4, LocalBase

LEMMA BindBase == ASSUME Base, NEW w \in Workers, BindInvocation(w) PROVE Base'
<1>1. /\ pc[w] = "fenced" /\ pc' = [pc EXCEPT ![w] = "bound"]
      /\ binder' = [binder EXCEPT ![req[w].inv] = w]
      /\ UNCHANGED <<req, token, plan, outcome, ran, writer, fence, log, unsynced, calls, applied>>
  BY DEF BindInvocation, Goto, book, world
<1>2. binder' \in [Invocations -> Workers \cup {NoWorker}]
  BY <1>1 DEF Base, Types
<1> QED
  BY <1>1, <1>2, MovesBase

LEMMA PrepareReadsBase == ASSUME Base, NEW w \in Workers, PrepareReads(w) PROVE Base'
<1>1. /\ pc[w] = "bound" /\ pc' = [pc EXCEPT ![w] = "preparing"] /\ binder' = binder
      /\ UNCHANGED <<req, token, plan, outcome, ran, writer, fence, log, unsynced, calls, applied>>
  BY DEF PrepareReads, Goto, book, world, lock
<1>2. binder' \in [Invocations -> Workers \cup {NoWorker}]
  BY <1>1 DEF Base, Types
<1> QED
  BY <1>1, <1>2, MovesBase

LEMMA PrepareStoresBase == ASSUME Base, NEW w \in Workers, PrepareStores(w) PROVE Base'
<1>1. /\ pc[w] = "preparing" /\ pc' = [pc EXCEPT ![w] = "prepared"]
      /\ UNCHANGED <<plan, outcome>> /\ Keeps /\ Frees(w) /\ AppendStored(Prepared(w))
  BY DEF PrepareStores, Goto, world, Keeps, Frees
<1>2. LocalTypes' /\ Aside(w) /\ pc'[w] = "prepared" /\ Active(w)
  BY <1>1, PcNames DEF Base, Types, LocalTypes, Aside, Keeps, Active
<1>3. RanOK(w)
  BY DEF Base
<1>4. RanOK(w)' /\ AppendOK(w)'
  BY <1>1, <1>2, <1>3 DEF RanOK, AppendOK, Active, Mine, Target, Keeps
<1>5. LogOK(log', unsynced')
  BY <1>1, LogOKNow, PreparedType, StoredOK DEF Base
<1> QED
  BY <1>1, <1>2, <1>4, <1>5, BinderFacts, LocalBase DEF Base

LEMMA ReadBase == ASSUME Base, NEW w \in Workers, ReadLedger(w) PROVE Base'
<1> DEFINE e == plan[w].effect
           r == Latest(log, e)
<1>1. /\ pc[w] = "read" /\ pc' = [pc EXCEPT ![w] = "append"] /\ e \in Effects(log)
      /\ Head(plan[w].todo) \in Allowed[r.state]
      /\ plan' = [plan EXCEPT ![w].prev = r.state, ![w].seq = r.seq]
      /\ UNCHANGED <<outcome, binder, log, unsynced>> /\ Keeps
  BY DEF ReadLedger, Goto, book, world, lock, Keeps
<1>2. r \in Event
  BY <1>1, NewestFacts DEF Base, Types
<1>3. e \in Effect
  <2>1. PICK i \in DOMAIN log : log[i].effect = e
    BY <1>1 DEF Effects
  <2>2. log[i] \in Event
    BY LenProperties, ElementOfSeq DEF Base, Types
  <2> QED
    BY <2>1, <2>2 DEF Event
<1>4. r.state \in EffectState /\ r.state \in Prevs /\ r.seq \in Nat /\ Head(plan[w].todo) \in EffectState
  <2>1. r.state \in EffectState /\ r.seq \in Nat
    BY <1>2 DEF Event
  <2> QED
    BY <1>1, <2>1, AllowedFacts DEF Prevs
<1> HIDE DEF r
<1>5. /\ plan' \in [Workers -> Plans] /\ plan'[w].then = plan[w].then /\ plan'[w].effect = e
      /\ plan'[w].todo = plan[w].todo
      /\ \A v \in Workers \ {w} : plan'[v] = plan[v]
  <2>1. plan \in [Workers -> Plans]
    BY DEF Base, Types
  <2> QED
    BY <1>1, <1>4, <2>1 DEF Plans
<1>6. LocalTypes' /\ Aside(w) /\ pc'[w] = "append" /\ Active(w)
  BY <1>1, <1>5, PcNames DEF Base, Types, LocalTypes, Aside, Keeps, Active
<1>7. RanOK(w)
  BY DEF Base
<1>8. RanOK(w)' /\ AppendOK(w)'
  BY <1>1, <1>3, <1>4, <1>5, <1>6, <1>7 DEF RanOK, AppendOK, Active, Mine, Target, Keeps
<1>9. LogOK(log', unsynced') /\ binder' \in [Invocations -> Workers \cup {NoWorker}]
  BY <1>1, LogOKNow DEF Base, Types
<1> QED
  BY <1>1, <1>6, <1>8, <1>9, LocalBase

LEMMA AppendReturnsBase == ASSUME Base, NEW w \in Workers, AppendReturns(w) PROVE Base'
<1>1. /\ pc[w] = "append" /\ AppendStored(Transition(w)) /\ UNCHANGED binder /\ Keeps
      /\ \/ /\ Len(plan[w].todo) > 1
            /\ plan' = [plan EXCEPT ![w].todo = Tail(@)]
            /\ pc' = [pc EXCEPT ![w] = "read"] /\ UNCHANGED outcome
         \/ /\ plan' = [plan EXCEPT ![w] = NoPlan]
            /\ outcome' = [outcome EXCEPT ![w] = plan[w].ok]
            /\ pc' = [pc EXCEPT ![w] = plan[w].then]
  BY DEF AppendReturns, Goto, Keeps, lock, world
<1>2. plan[w] \in Plans /\ RanOK(w) /\ plan \in [Workers -> Plans]
  BY DEF Base, Types
<1>3. LogOK(log', unsynced') /\ binder' \in [Invocations -> Workers \cup {NoWorker}]
  BY <1>1, LogOKNow, TransitionType, StoredOK DEF Base, Types
<1>4. CASE /\ Len(plan[w].todo) > 1
           /\ plan' = [plan EXCEPT ![w].todo = Tail(@)]
           /\ pc' = [pc EXCEPT ![w] = "read"] /\ UNCHANGED outcome
  <2>1. Tail(plan[w].todo) \in Todos
    <3>1. plan[w].todo \in Seq(EffectState) /\ plan[w].todo # <<>>
      BY <1>2, <1>4, EmptySeq DEF Plans, Todos
    <3> QED
      BY <3>1, HeadTailProperties DEF Todos
  <2>2. /\ plan' \in [Workers -> Plans] /\ plan'[w].then = plan[w].then
        /\ \A v \in Workers \ {w} : plan'[v] = plan[v]
    BY <1>2, <1>4, <2>1 DEF Plans
  <2>3. LocalTypes' /\ Aside(w) /\ pc'[w] = "read" /\ Active(w)
    BY <1>1, <1>4, <2>2, PcNames DEF Base, Types, LocalTypes, Aside, Keeps, Active
  <2>4. RanOK(w)' /\ AppendOK(w)'
    BY <1>1, <1>2, <2>2, <2>3 DEF RanOK, AppendOK, Active, Mine, Target, Keeps
  <2> QED
    BY <1>1, <1>3, <2>3, <2>4, LocalBase
<1>5. CASE /\ plan' = [plan EXCEPT ![w] = NoPlan]
           /\ outcome' = [outcome EXCEPT ![w] = plan[w].ok]
           /\ pc' = [pc EXCEPT ![w] = plan[w].then]
  <2>1. plan[w].ok \in Outcome /\ plan[w].then \in Thens
    BY <1>2 DEF Plans
  <2>2. LocalTypes' /\ Aside(w) /\ pc'[w] = plan[w].then /\ Active(w)
    BY <1>1, <1>5, <2>1, PcNames, NoPlanType DEF Base, Types, LocalTypes, Aside, Keeps, Active
  <2>3. RanOK(w)' /\ AppendOK(w)'
    BY <1>1, <1>2, <2>1, <2>2 DEF RanOK, AppendOK, Active, Mine, Target, Keeps, Thens
  <2> QED
    BY <1>1, <1>3, <2>2, <2>3, LocalBase
<1> QED
  BY <1>1, <1>4, <1>5

LEMMA AcquireBase == ASSUME Base, NEW w \in Workers, AcquireTarget(w) PROVE Base'
<1> DEFINE t == Target(w)
<1>1. /\ pc[w] = "lease" /\ writer[t] = NoWorker
      /\ fence' = [fence EXCEPT ![t] = fence[t] + 1] /\ writer' = [writer EXCEPT ![t] = w]
      /\ token' = [token EXCEPT ![w] = fence'[t]] /\ pc' = [pc EXCEPT ![w] = "fenced"]
      /\ UNCHANGED <<req, plan, outcome, ran, binder, log, unsynced, calls, applied>>
  BY DEF AcquireTarget, Leases!Grant, Goto, Target, book, world
<1>2. t \in Targets /\ fence[t] \in Nat /\ fence'[t] = fence[t] + 1
  BY <1>1, TargetOfAssumption DEF Base, Types, Requests, Target
<1> HIDE DEF t
<1>3. Types' /\ Aside(w) /\ pc'[w] = "fenced" /\ token'[w] = fence[t] + 1 /\ ~ran'[w]
  BY <1>1, <1>2, PcNames DEF Base, Types, Aside, RanOK
<1>4. \A u \in Targets : u # t => fence'[u] = fence[u] /\ writer'[u] = writer[u]
  BY <1>1 DEF Base, Types
<1>5. \A v \in Workers : Target(v)' = Target(v) /\ Target(v) \in Targets
  BY <1>1, TargetOfAssumption DEF Target, Base, Types, Requests
<1>6. \A i \in DOMAIN calls : calls[i] \in Effect /\ TargetOf[calls[i][2]] \in Targets
  <2>1. \A i \in DOMAIN calls : calls[i] \in Effect
    BY LenProperties, ElementOfSeq DEF Base, Types
  <2> QED
    BY <2>1, TargetOfAssumption DEF Effect
<1>7. \A i \in DOMAIN calls : calls[i][3] \in Nat
  BY <1>6 DEF Effect
<1>8. LeaseInv'
  <2> SUFFICES ASSUME NEW v \in Workers, Active(v)'
               PROVE  (writer[Target(v)] = v)' /\ (token[v] = fence[Target(v)])'
    BY DEF LeaseInv
  <2>1. CASE v = w
    BY <1>1, <1>2, <1>3, <1>5, <2>1 DEF t, Base, Types
  <2>2. CASE v # w
    <3>1. Active(v) /\ writer[Target(v)] = v /\ token[v] = fence[Target(v)] /\ token'[v] = token[v]
      BY <1>3, <2>2 DEF Aside, Active, Base, LeaseInv
    <3>2. Target(v) # t
      BY <1>1, <3>1, NoWorkerAssumption
    <3> QED
      BY <1>4, <1>5, <3>1, <3>2
  <2> QED
    BY <2>1, <2>2
<1>9. CallsFenced'
  <2> SUFFICES ASSUME NEW i \in DOMAIN calls PROVE calls[i][3] <= fence'[TargetOf[calls[i][2]]]
    BY <1>1 DEF CallsFenced
  <2>1. calls[i][3] <= fence[TargetOf[calls[i][2]]]
    BY DEF Base, CallsFenced
  <2> QED
    BY <1>2, <1>4, <1>6, <1>7, <2>1
<1>10. RanOK(w)' /\ AppendOK(w)'
  <2>1. \A i \in DOMAIN calls : TargetOf[calls[i][2]] = t => calls[i][3] <= fence[t]
    BY DEF Base, CallsFenced
  <2>2. \A i \in DOMAIN calls : TargetOf[calls[i][2]] = t => calls[i][3] < token'[w]
    BY <1>2, <1>3, <1>7, <2>1
  <2> QED
    BY <1>1, <1>3, <1>5, <2>2 DEF RanOK, AppendOK, Active, t
<1>11. ASSUME NEW v \in Workers, v # w PROVE RanOK(v)' /\ AppendOK(v)'
  <2>1. RanOK(v) /\ AppendOK(v)
    BY DEF Base
  <2> QED
    BY <1>1, <1>3, <1>5, <1>11, <2>1 DEF RanOK, AppendOK, Active, Mine, Aside
<1> QED
  BY <1>1, <1>3, <1>8, <1>9, <1>10, <1>11 DEF Base

\* The call comes from the writer of its target and carries the newest token.
LEMMA InvokeFacts ==
    ASSUME Base, NEW w \in Workers, Invoke(w)
    PROVE  /\ pc[w] = "started" /\ Active(w) /\ ~ran[w] /\ pc' = [pc EXCEPT ![w] = "returned"]
           /\ ran' = [ran EXCEPT ![w] = TRUE] /\ calls' = Append(calls, Mine(w))
           /\ applied' \in {applied, applied \cup {Key(w)}}
           /\ UNCHANGED <<req, token, plan, outcome, writer, fence, binder, log, unsynced>>
           /\ calls' \in Seq(Effect) /\ Len(calls) \in Nat /\ DOMAIN calls = 1..Len(calls)
           /\ DOMAIN calls' = 1..(Len(calls) + 1)
           /\ calls'[Len(calls) + 1] = Mine(w) /\ \A i \in 1..Len(calls) : calls'[i] = calls[i]
           /\ Mine(w) \in Effect
<1>1. /\ pc[w] = "started" /\ Active(w) /\ ~ran[w] /\ pc' = [pc EXCEPT ![w] = "returned"]
      /\ ran' = [ran EXCEPT ![w] = TRUE] /\ calls' = Append(calls, Mine(w))
      /\ applied' \in {applied, applied \cup {Key(w)}}
      /\ UNCHANGED <<req, token, plan, outcome, writer, fence, binder, log, unsynced>>
  BY DEF Invoke, Goto, Active, Key, lock, book, Base, RanOK
<1>2. Mine(w) \in Effect /\ calls \in Seq(Effect)
  BY MineType DEF Base, Types
<1>3. /\ calls' \in Seq(Effect) /\ Len(calls) \in Nat /\ Len(calls') = Len(calls) + 1
      /\ calls'[Len(calls) + 1] = Mine(w) /\ \A i \in 1..Len(calls) : calls'[i] = calls[i]
  BY <1>1, <1>2, AppendProperties, LenProperties
<1> QED
  BY <1>1, <1>2, <1>3, LenProperties

LEMMA InvokeBase == ASSUME Base, NEW w \in Workers, Invoke(w) PROVE Base'
<1> USE InvokeFacts
<1>1. Types' /\ Aside(w) /\ pc'[w] = "returned" /\ ran'[w] = TRUE
  <2>1. Key(w) \in Keys
    BY DEF Base, Types, Requests, Key, Keys
  <2>2. applied \subseteq Keys
    BY DEF Base, Types
  <2>3. applied' = applied \/ applied' = applied \cup {Key(w)}
    OBVIOUS
  <2>4. applied' \subseteq Keys
    BY ONLY <2>1, <2>2, <2>3
  <2>5. pc' \in [Workers -> Pcs] /\ pc'[w] = "returned"
    BY PcNames DEF Base, Types
  <2>6. ran' \in [Workers -> BOOLEAN] /\ ran'[w] = TRUE
    <3>1. ran \in [Workers -> BOOLEAN] /\ ran' = [ran EXCEPT ![w] = TRUE]
      BY DEF Base, Types
    <3> QED
      BY ONLY <3>1, w \in Workers
  <2>7. Aside(w)
    BY DEF Base, Types, Aside
  <2> QED
    BY <2>4, <2>5, <2>6, <2>7 DEF Base, Types
<1>2. writer[Target(w)] = w /\ token[w] = fence[Target(w)] /\ token[w] \in Nat
  BY DEF Base, LeaseInv, Types
<1>3. \A v \in Workers : Active(v)' <=> Active(v)
  BY <1>1 DEF Aside, Active
<1>4. LeaseInv'
  BY <1>3 DEF Base, LeaseInv, Target
<1>5. Mine(w)[3] = token[w] /\ TargetOf[Mine(w)[2]] = Target(w)
  BY MineParts DEF Target
<1>6. CallsFenced'
  <2> SUFFICES ASSUME NEW i \in 1..(Len(calls) + 1) PROVE calls'[i][3] <= fence[TargetOf[calls'[i][2]]]
    BY DEF CallsFenced
  <2>1. CASE i = Len(calls) + 1
    BY <1>2, <1>5, <2>1
  <2>2. CASE i \in 1..Len(calls)
    BY <2>2 DEF Base, CallsFenced
  <2> QED
    BY <2>1, <2>2
<1>7. RanOK(w)' /\ AppendOK(w)'
  <2>1. \E i \in DOMAIN calls' : calls'[i] = Mine(w)
    OBVIOUS
  <2>2. Mine(w)' = Mine(w)
    BY DEF Mine
  <2> QED
    BY <1>1, <2>1, <2>2 DEF RanOK, AppendOK, Active
<1>8. ASSUME NEW v \in Workers, v # w PROVE RanOK(v)' /\ AppendOK(v)'
  <2>1. /\ RanOK(v) /\ AppendOK(v) /\ pc'[v] = pc[v] /\ ran'[v] = ran[v] /\ Mine(v)' = Mine(v)
        /\ Target(v)' = Target(v) /\ plan' = plan /\ token' = token
    BY <1>1, <1>8 DEF Base, Aside, Mine, Target
  <2>2. Active(v) => Target(v) # Target(w)
    BY <1>2, <1>8 DEF Base, LeaseInv
  <2>3. (\E i \in DOMAIN calls : calls[i] = Mine(v)) => \E i \in DOMAIN calls' : calls'[i] = Mine(v)
    OBVIOUS
  <2>4. ASSUME Active(v), ~ran[v], NEW i \in DOMAIN calls', TargetOf[calls'[i][2]] = Target(v)
        PROVE  calls'[i][3] < token[v]
    <3>1. i \in 1..Len(calls)
      BY <1>5, <2>2, <2>4
    <3> QED
      BY <2>1, <2>4, <3>1 DEF RanOK
  <2> QED
    BY <1>3, <2>1, <2>3, <2>4 DEF RanOK, AppendOK
<1> QED
  BY <1>1, <1>4, <1>6, <1>7, <1>8 DEF Base

LEMMA DispatchBase ==
    ASSUME Base, NEW w \in Workers, NEW r \in Requests, Dispatch(w, r) PROVE Base'
<1>1. /\ pc[w] = "idle" /\ pc' = [pc EXCEPT ![w] = "lease"] /\ req' = [req EXCEPT ![w] = r]
      /\ outcome' = [outcome EXCEPT ![w] = Untyped] /\ ran' = [ran EXCEPT ![w] = FALSE]
      /\ UNCHANGED <<token, plan, writer, fence, binder, log, unsynced, calls, applied>>
  BY DEF Dispatch, Goto, lock, book, world
<1>2. Types' /\ Aside(w) /\ pc'[w] = "lease" /\ ~ran'[w]
  BY <1>1, PcNames, OutcomeFacts DEF Base, Types, Aside
<1>3. LeaseInv'
  BY <1>1, <1>2 DEF Base, LeaseInv, Active, Target, Aside
<1>4. CallsFenced'
  BY <1>1 DEF Base, CallsFenced
<1>5. RanOK(w)' /\ AppendOK(w)'
  BY <1>2 DEF RanOK, AppendOK, Active
<1>6. ASSUME NEW v \in Workers, v # w PROVE RanOK(v)' /\ AppendOK(v)'
  <2>1. RanOK(v) /\ AppendOK(v)
    BY DEF Base
  <2> QED
    BY <1>1, <1>2, <1>6, <2>1 DEF RanOK, AppendOK, Active, Mine, Target, Aside
<1> QED
  BY <1>1, <1>2, <1>3, <1>4, <1>5, <1>6 DEF Base

LEMMA ReportBase == ASSUME Base, NEW w \in Workers, Report(w) PROVE Base'
<1>1. /\ pc[w] = "release" /\ pc' = [pc EXCEPT ![w] = "idle"] /\ token' = [token EXCEPT ![w] = 0]
      /\ outcome' = [outcome EXCEPT ![w] = Untyped] /\ ran' = [ran EXCEPT ![w] = FALSE]
      /\ writer' = [t \in Targets |-> IF writer[t] = w THEN NoWorker ELSE writer[t]]
      /\ UNCHANGED <<req, plan, fence, binder, log, unsynced, calls, applied>>
  BY DEF Report, Goto, book, world, Leases!Drop
<1>2. /\ writer' \in [Targets -> Workers \cup {NoWorker}]
      /\ \A t \in Targets : writer[t] # w => writer'[t] = writer[t]
  BY <1>1 DEF Base, Types
<1>3. Types' /\ Aside(w) /\ pc'[w] = "idle" /\ ~ran'[w]
  BY <1>1, <1>2, PcNames, OutcomeFacts DEF Base, Types, Aside
<1>4. LeaseInv'
  <2> SUFFICES ASSUME NEW v \in Workers, Active(v)'
               PROVE  (writer[Target(v)] = v)' /\ (token[v] = fence[Target(v)])'
    BY DEF LeaseInv
  <2>1. v # w /\ Active(v) /\ token'[v] = token[v] /\ Target(v)' = Target(v) /\ Target(v) \in Targets
    BY <1>1, <1>3, TargetOfAssumption DEF Active, Aside, Target, Base, Types, Requests
  <2> QED
    BY <1>1, <1>2, <2>1 DEF Base, LeaseInv
<1>5. CallsFenced'
  BY <1>1 DEF Base, CallsFenced
<1>6. RanOK(w)' /\ AppendOK(w)'
  BY <1>3 DEF RanOK, AppendOK, Active
<1>7. ASSUME NEW v \in Workers, v # w PROVE RanOK(v)' /\ AppendOK(v)'
  <2>1. RanOK(v) /\ AppendOK(v)
    BY DEF Base
  <2> QED
    BY <1>1, <1>3, <1>7, <2>1 DEF RanOK, AppendOK, Active, Mine, Target, Aside
<1> QED
  BY <1>1, <1>3, <1>4, <1>5, <1>6, <1>7 DEF Base

\* The processes of ws die.
LEMMA KillBase ==
    ASSUME Base, NEW ws \in SUBSET Workers, Kill(ws), LogOK(log', unsynced') PROVE Base'
<1>1. /\ pc' = [w \in Workers |-> IF w \in ws THEN "idle" ELSE pc[w]]
      /\ token' = [w \in Workers |-> IF w \in ws THEN 0 ELSE token[w]]
      /\ plan' = [w \in Workers |-> IF w \in ws THEN NoPlan ELSE plan[w]]
      /\ outcome' = [w \in Workers |-> IF w \in ws THEN Untyped ELSE outcome[w]]
      /\ ran' = [w \in Workers |-> IF w \in ws THEN FALSE ELSE ran[w]]
      /\ binder' = [i \in Invocations |-> IF binder[i] \in ws THEN NoWorker ELSE binder[i]]
      /\ writer' = [t \in Targets |-> IF writer[t] \in ws THEN NoWorker ELSE writer[t]]
      /\ UNCHANGED <<req, fence, calls, applied>>
  BY DEF Kill, Leases!Drop, world
<1>2. writer' \in [Targets -> Workers \cup {NoWorker}] /\ binder' \in [Invocations -> Workers \cup {NoWorker}]
  BY <1>1 DEF Base, Types
<1>3. LocalTypes'
  BY <1>1, PcNames, OutcomeFacts, NoPlanType DEF Base, Types, LocalTypes
<1>4. Types'
  BY <1>1, <1>2, <1>3 DEF Types, LocalTypes, LogOK, Base
<1>5. /\ \A w \in ws : pc'[w] = "idle" /\ ~ran'[w]
      /\ \A w \in Workers \ ws : /\ pc'[w] = pc[w] /\ token'[w] = token[w] /\ plan'[w] = plan[w]
                                 /\ ran'[w] = ran[w]
  BY <1>1
<1>6. LeaseInv'
  <2> SUFFICES ASSUME NEW v \in Workers, Active(v)'
               PROVE  (writer[Target(v)] = v)' /\ (token[v] = fence[Target(v)])'
    BY DEF LeaseInv
  <2>1. v \notin ws /\ Active(v) /\ token'[v] = token[v] /\ Target(v)' = Target(v) /\ Target(v) \in Targets
    BY <1>1, <1>5, TargetOfAssumption DEF Active, Target, Base, Types, Requests
  <2> QED
    BY <1>1, <2>1 DEF Base, LeaseInv
<1>7. CallsFenced'
  BY <1>1 DEF Base, CallsFenced
<1>8. ASSUME NEW v \in Workers PROVE RanOK(v)' /\ AppendOK(v)'
  <2>1. RanOK(v) /\ AppendOK(v)
    BY DEF Base
  <2>2. CASE v \in ws
    BY <1>5, <2>2 DEF RanOK, AppendOK, Active
  <2>3. CASE v \notin ws
    BY <1>1, <1>5, <2>1, <2>3 DEF RanOK, AppendOK, Active, Mine, Target
  <2> QED
    BY <2>2, <2>3
<1> QED
  BY <1>4, <1>6, <1>7, <1>8 DEF Base, LogOK

\* What a power loss leaves of the log.
LEMMA CutFacts ==
    ASSUME Base, PowerLoss
    PROVE  \E n \in Nat : /\ Len(log) - unsynced <= n /\ n <= Len(log) /\ Len(log) \in Nat
                          /\ unsynced' = 0 /\ log' \in Seq(Event) /\ Len(log') = n /\ Whole(log')
                          /\ \A i \in 1..n : log'[i] = log[i]
<1>1. PICK k \in 0..unsynced : log' = SubSeq(log, 1, Len(log) - k)
  BY DEF PowerLoss
<1>2. Len(log) \in Nat /\ unsynced \in 0..Len(log) /\ log \in Seq(Event) /\ Whole(log) /\ unsynced' = 0
  BY LenProperties DEF Base, Types, PowerLoss
<1> DEFINE n == Len(log) - k
<1>3. n \in 0..Len(log) /\ n \in Nat /\ Len(log) - unsynced <= n /\ n <= Len(log)
  BY <1>1, <1>2
<1>4. log' = SubSeq(log, 1, n) /\ 1 \in Nat \ {0}
  BY <1>1
<1> HIDE DEF n
<1>5. log' \in Seq(Event) /\ Whole(log')
  BY <1>2, <1>3, <1>4, SubSeqFacts, WholeSubSeq
<1>6. Len(log') = IF 1 <= n THEN n - 1 + 1 ELSE 0
  BY <1>2, <1>3, <1>4, SubSeqFacts
<1>7. Len(log') = n
  BY <1>3, <1>6
<1>8. \A i \in 1..Len(log') : log'[i] = log[1 + i - 1]
  BY <1>2, <1>3, <1>4, SubSeqFacts
<1>9. \A i \in 1..n : log'[i] = log[i]
  BY <1>3, <1>7, <1>8
<1> QED
  BY <1>2, <1>3, <1>5, <1>7, <1>9

LEMMA InitBase == Init => Base
<1> SUFFICES ASSUME Init PROVE Base
  OBVIOUS
<1>1. /\ pc = [w \in Workers |-> "idle"] /\ token = [w \in Workers |-> 0]
      /\ plan = [w \in Workers |-> NoPlan] /\ outcome = [w \in Workers |-> Untyped]
      /\ ran = [w \in Workers |-> FALSE] /\ req \in [Workers -> Requests]
      /\ writer = [t \in Targets |-> NoWorker] /\ fence = [t \in Targets |-> 0]
      /\ binder = [i \in Invocations |-> NoWorker]
      /\ log = <<>> /\ unsynced = 0 /\ calls = <<>> /\ applied = {}
  <2>1. {[inv |-> i, act |-> a] : i \in Invocations, a \in Actions} \subseteq Requests
    BY DEF Requests
  <2> QED
    BY <2>1 DEF Init, Leases!FInit
<1>2. <<>> \in Seq(Event) /\ <<>> \in Seq(Effect) /\ Len(<<>>) = 0 /\ DOMAIN <<>> = {}
  BY EmptySeq
<1>3. LocalTypes
  BY <1>1, PcNames, NoPlanType, OutcomeFacts DEF LocalTypes
<1>4. Types
  BY <1>1, <1>2, <1>3 DEF Types, LocalTypes
<1>5. LeaseInv /\ CallsFenced /\ Whole(log)
  BY <1>1, <1>2 DEF LeaseInv, Active, CallsFenced, Whole
<1>6. \A w \in Workers : RanOK(w) /\ AppendOK(w)
  BY <1>1 DEF RanOK, AppendOK, Active
<1> QED
  BY <1>4, <1>5, <1>6 DEF Base

LEMMA BaseStep == Base /\ [Next]_vars => Base'
<1> SUFFICES ASSUME Base, [Next]_vars PROVE Base'
  OBVIOUS
<1>1. ASSUME NEW w \in Workers, NEW i \in Invocations, NEW a \in Actions,
             Dispatch(w, [inv |-> i, act |-> a])
      PROVE  Base'
  <2>1. [inv |-> i, act |-> a] \in Requests
    BY DEF Requests
  <2> QED
    BY <1>1, <2>1, DispatchBase
<1>2. ASSUME NEW w \in Workers, Ledger(w) \/ Run(w) \/ Interrupt(w) PROVE Base'
  BY <1>2, Kinds, EndsBase, BeginsBase, AcquireBase, BindBase, PrepareReadsBase, PrepareStoresBase,
     ReadBase, AppendReturnsBase, InvokeBase, ReportBase
<1>3. ASSUME NEW w \in Workers, Crash(w) PROVE Base'
  <2>1. Kill({w}) /\ LogOK(log', unsynced') /\ {w} \in SUBSET Workers
    BY <1>3, LogOKNow DEF Crash, book
  <2> QED
    BY <2>1, KillBase
<1>4. CASE PowerLoss
  <2>1. LogOK(log', unsynced')
    <3>1. log' \in Seq(Event) /\ Whole(log') /\ unsynced' = 0
      BY <1>4, CutFacts
    <3>2. 0 \in 0..Len(log')
      BY <3>1, LenProperties
    <3> QED
      BY <3>1, <3>2 DEF LogOK
  <2> QED
    BY <1>4, <2>1, KillBase DEF PowerLoss
<1>5. CASE UNCHANGED vars
  <2>1. UNCHANGED <<pc, req, token, plan, outcome, ran, writer, fence, binder, log, unsynced, calls, applied>>
    BY <1>5 DEF vars, lock, book, world
  <2> QED
    BY <2>1 DEF Base, Types, LeaseInv, CallsFenced, RanOK, AppendOK, Active, Target, Mine
<1> QED
  BY <1>1, <1>2, <1>3, <1>4, <1>5 DEF Next

\* The invariant of the leases and calls.
THEOREM BaseInvariance == Spec => []Base
BY InitBase, BaseStep, PTL DEF Spec

\* The leases are kept in order, also when retention forgets: a worker past the
\* lease is the writer of its target and has the newest token.
THEOREM TypeCorrect == Spec => []TypeOK
<1>1. Base => TypeOK
  <2> SUFFICES ASSUME Base PROVE TypeOK
    OBVIOUS
  <2>1. \A w \in Workers : pc[w] \notin {"idle", "lease", "release"} =>
            LET t == TargetOf[req[w].act] IN writer[t] = w /\ token[w] = fence[t]
    BY DEF Base, LeaseInv, Active, Target
  <2> QED
    BY <2>1 DEF Base, Types, TypeOK, Pcs, Leases!FTypeOK
<1> QED
  BY <1>1, BaseInvariance, PTL

\* Only Invoke calls the tool.
LEMMA CallStep ==
    ASSUME Base, [Next]_vars, calls' # calls PROVE \E w \in Workers : Invoke(w)
<1>1. ASSUME NEW w \in Workers, EndsWell(w) PROVE calls' = calls
  BY <1>1 DEF EndsWell, Ends, Keeps
<1>2. ASSUME NEW w \in Workers, BeginsWell(w) PROVE calls' = calls
  BY <1>2 DEF BeginsWell, Begins, Keeps
<1>3. ASSUME NEW w \in Workers,
             \/ AcquireTarget(w) \/ BindInvocation(w) \/ PrepareReads(w) \/ PrepareStores(w)
             \/ ReadLedger(w) \/ AppendReturns(w) \/ Report(w)
      PROVE  calls' = calls
  BY <1>3 DEF AcquireTarget, BindInvocation, PrepareReads, PrepareStores, ReadLedger,
              AppendReturns, Report, world
<1>4. ASSUME NEW w \in Workers, Ledger(w) \/ Run(w) \/ Interrupt(w) PROVE calls' = calls \/ Invoke(w)
  BY <1>1, <1>2, <1>3, <1>4, Kinds
<1>5. ASSUME NEW w \in Workers, NEW r, Dispatch(w, r) PROVE calls' = calls
  BY <1>5 DEF Dispatch, world
<1>6. ASSUME NEW ws, Kill(ws) PROVE calls' = calls
  BY <1>6 DEF Kill, world
<1>7. (UNCHANGED vars) => calls' = calls
  BY DEF vars, world
<1> QED
  BY <1>4, <1>5, <1>6, <1>7 DEF Next, Crash, PowerLoss

\* A call carries a token larger than all calls on its target before, and comes
\* from the writer of the target, whatever dispatches, crashes and power losses
\* interleave and whatever the ledger has forgotten.
THEOREM FencedCallsTheorem == Spec => FencedCalls
<1> DEFINE Fenced == calls' # calls =>
          LET c == Last(calls') IN
          /\ \A d \in ToSet(calls) : TargetOf[d[2]] = TargetOf[c[2]] => d[3] < c[3]
          /\ c[3] = fence[TargetOf[c[2]]]
          /\ writer[TargetOf[c[2]]] # NoWorker
<1>1. Base /\ [Next]_vars => Fenced
  <2> SUFFICES ASSUME Base, [Next]_vars, calls' # calls
               PROVE  LET c == Last(calls') IN
                      /\ \A d \in ToSet(calls) : TargetOf[d[2]] = TargetOf[c[2]] => d[3] < c[3]
                      /\ c[3] = fence[TargetOf[c[2]]]
                      /\ writer[TargetOf[c[2]]] # NoWorker
    OBVIOUS
  <2>1. PICK w \in Workers : Invoke(w)
    BY CallStep
  <2>2. /\ Active(w) /\ ~ran[w] /\ calls' \in Seq(Effect) /\ DOMAIN calls' = 1..(Len(calls) + 1)
        /\ calls'[Len(calls) + 1] = Mine(w) /\ Len(calls) \in Nat
    BY <2>1, InvokeFacts
  <2>3. Len(calls') = Len(calls) + 1
    BY <2>2, LenProperties
  <2>4. Last(calls') = Mine(w)
    BY <2>2, <2>3 DEF Last
  <2>5. Mine(w)[3] = token[w] /\ TargetOf[Mine(w)[2]] = Target(w)
    BY MineParts DEF Target
  <2>6. writer[Target(w)] = w /\ token[w] = fence[Target(w)]
    BY <2>2 DEF Base, LeaseInv
  <2>7. \A i \in DOMAIN calls : TargetOf[calls[i][2]] = Target(w) => calls[i][3] < token[w]
    BY <2>2 DEF Base, RanOK
  <2> QED
    BY <2>4, <2>5, <2>6, <2>7, NoWorkerAssumption DEF ToSet
<1> QED
  BY <1>1, BaseInvariance, PTL DEF Spec, FencedCalls

-----------------------------------------------------------------------------
(* The ledger, kind by kind *)

\* The event continues the chain of its effect, or begins the only effect of its
\* tool-call id.
Fits(l, x) ==
    \/ x.state = "prepared" /\ \A i \in 1..Len(l) : l[i].effect[1] # x.effect[1]
    \/ \E m \in 1..Len(l) :
           /\ NewestAt(l, Len(l), m, x.effect)
           /\ l[m].state \notin {"verified", "failed"} /\ x.state # "prepared"
           /\ x.seq = l[m].seq + 1 /\ x.prev = l[m].state

LEMMA FitsAppend ==
    ASSUME NEW l \in Seq(Event), OneEffect(l), Chained(l), NEW x \in Event, Fits(l, x)
    PROVE  OneEffect(Append(l, x)) /\ Chained(Append(l, x))
<1> DEFINE a == Append(l, x)
           n == Len(l)
<1>1. n \in Nat /\ Len(a) = n + 1 /\ a[n + 1] = x /\ \A i \in 1..n : a[i] = l[i]
  BY AppendProperties, LenProperties
<1> HIDE DEF a
<1>2. \A i \in 1..n : l[i].effect[1] = x.effect[1] => l[i].effect = x.effect
  <2>1. CASE \A i \in 1..n : l[i].effect[1] # x.effect[1]
    BY <2>1
  <2>2. CASE \E m \in 1..n : l[m].effect = x.effect
    BY <2>2 DEF OneEffect
  <2> QED
    BY <2>1, <2>2 DEF Fits, NewestAt
<1>3. OneEffect(a)
  <2> SUFFICES ASSUME NEW i \in 1..(n + 1), NEW j \in 1..(n + 1), a[i].effect[1] = a[j].effect[1]
               PROVE  a[i].effect = a[j].effect
    BY <1>1 DEF OneEffect
  <2>1. (i \in 1..n \/ i = n + 1) /\ (j \in 1..n \/ j = n + 1)
    BY <1>1
  <2> QED
    BY <1>1, <1>2, <2>1 DEF OneEffect
<1>4. ASSUME NEW i \in 1..n, l[i].effect = x.effect
      PROVE  /\ l[i].state \notin {"verified", "failed"} /\ x.state # "prepared"
             /\ (\A k \in (i + 1)..n : l[k].effect # l[i].effect) =>
                    x.seq = l[i].seq + 1 /\ x.prev = l[i].state
  <2>1. PICK m \in 1..n : /\ NewestAt(l, n, m, x.effect)
                          /\ l[m].state \notin {"verified", "failed"} /\ x.state # "prepared"
                          /\ x.seq = l[m].seq + 1 /\ x.prev = l[m].state
    BY <1>4 DEF Fits
  <2>2. l[m].effect = x.effect /\ i <= m
    BY <1>1, <1>4, <2>1 DEF NewestAt
  <2>3. i < m => l[i].state \notin {"verified", "failed"}
    BY <1>4, <2>2 DEF Chained
  <2>4. (\A k \in (i + 1)..n : l[k].effect # l[i].effect) => i = m
    BY <1>1, <1>4, <2>2
  <2> QED
    BY <1>1, <2>1, <2>2, <2>3, <2>4
<1>5. Chained(a)
  <2> SUFFICES ASSUME NEW i \in 1..(n + 1), NEW j \in 1..(n + 1), i < j, a[j].effect = a[i].effect
               PROVE  /\ a[i].state \notin {"verified", "failed"} /\ a[j].state # "prepared"
                      /\ (\A k \in (i + 1)..(j - 1) : a[k].effect # a[i].effect) =>
                             a[j].seq = a[i].seq + 1 /\ a[j].prev = a[i].state
    BY <1>1 DEF Chained
  <2>1. i \in 1..n /\ a[i] = l[i] /\ (\A k \in (i + 1)..(j - 1) : k \in 1..n /\ a[k] = l[k])
    BY <1>1
  <2>2. CASE j \in 1..n
    <3>1. a[j] = l[j]
      BY <1>1, <2>2
    <3> QED
      BY <2>1, <2>2, <3>1 DEF Chained
  <2>3. CASE j = n + 1
    <3>1. a[j] = x /\ j - 1 = n
      BY <1>1, <2>3
    <3> QED
      BY <1>4, <2>1, <3>1
  <2> QED
    BY <1>1, <2>2, <2>3
<1> QED
  BY <1>3, <1>5 DEF a

\* Another worker's knowledge of the ledger: its own target's part of it has not
\* changed.
LEMMA OthersWork ==
    ASSUME Base, Book, NEW w \in Workers, NEW v \in Workers, v # w, Aside(w), WorkOK(v),
           binder[req[v].inv] = v => binder'[req[v].inv] = v,
           UNCHANGED <<log, unsynced, calls, applied>>
    PROVE  WorkOK(v)'
<1>1. /\ pc'[v] = pc[v] /\ req'[v] = req[v] /\ token'[v] = token[v] /\ plan'[v] = plan[v]
      /\ outcome'[v] = outcome[v] /\ ran'[v] = ran[v]
  BY DEF Aside
<1> QED
  BY <1>1 DEF WorkOK, Live, Intended, JobOK, Mine, Key, Honest

LEMMA QuietBook ==
    ASSUME Base, Book, NEW w \in Workers, Aside(w), WorkOK(w)',
           \A v \in Workers \ {w} : binder[req[v].inv] = v => binder'[req[v].inv] = v,
           UNCHANGED <<log, unsynced, calls, applied>>
    PROVE  Book'
<1>1. LogInv' /\ CallInv'
  BY DEF Book, LogInv, CallInv, Intended
<1>2. \A v \in Workers \ {w} : WorkOK(v)'
  BY OthersWork DEF Book
<1> QED
  BY <1>1, <1>2 DEF Book

LEMMA FreesOthers ==
    ASSUME Base, NEW w \in Workers, Frees(w)
    PROVE  \A v \in Workers \ {w} : binder[req[v].inv] = v => binder'[req[v].inv] = v
<1>1. \A v \in Workers : req[v].inv \in Invocations
  BY DEF Base, Types, Requests
<1> QED
  BY <1>1, BinderFacts DEF Base

\* What an ended dispatch leaves to its worker.
LEMMA EndsLocal ==
    ASSUME Base, Book, NEW w \in Workers, NEW o \in Outcome, Ends(w, o)
    PROVE  /\ Aside(w) /\ pc'[w] = "release" /\ outcome'[w] = o /\ Keeps /\ Frees(w) /\ WorkOK(w)'
           /\ UNCHANGED <<calls, applied>>
           /\ \/ UNCHANGED <<log, unsynced>>
              \/ /\ pc[w] \in {"preparing", "append"}
                 /\ log' = Append(log, Pending(w)) /\ unsynced' = unsynced + 1
<1>1. /\ pc' = [pc EXCEPT ![w] = "release"] /\ plan' = [plan EXCEPT ![w] = NoPlan]
      /\ outcome' = [outcome EXCEPT ![w] = o] /\ Keeps /\ Frees(w) /\ Honest(w, o)
      /\ \/ UNCHANGED <<log, unsynced>>
         \/ /\ pc[w] \in {"preparing", "append"}
            /\ log' = Append(log, Pending(w)) /\ unsynced' = unsynced + 1
  BY DEF Ends, Finish, Goto, book, AppendRaises
<1>2. Aside(w) /\ pc'[w] = "release" /\ outcome'[w] = o
  BY <1>1 DEF Base, Types, Aside, Keeps
<1>3. Honest(w, o)'
  BY <1>1 DEF Honest, Key, Keeps
<1>4. Honest(w, outcome[w])'
  BY <1>2, <1>3
<1>5. WorkOK(w)'
  BY <1>2, <1>4 DEF WorkOK
<1> QED
  BY <1>1, <1>2, <1>5 DEF Keeps

LEMMA BeginsBook == ASSUME Base, Book, NEW w \in Workers, BeginsWell(w) PROVE Book'
<1>1. PICK e \in Effect, todo \in Todos, then \in Thens, ok \in Outcome, bad \in Outcome :
          Begins(w, e, todo, then, ok, bad)
  BY DEF BeginsWell
<1> DEFINE p == [NoPlan EXCEPT !.todo = todo, !.effect = e, !.then = then, !.ok = ok, !.bad = bad]
<1>2. /\ pc' = [pc EXCEPT ![w] = "read"] /\ plan' = [plan EXCEPT ![w] = p]
      /\ UNCHANGED <<outcome, log, unsynced>> /\ Keeps /\ Frees(w)
      /\ JobOK(w, e, todo, then, ok, bad)
  BY <1>1 DEF Begins, Record, Goto, book
<1>3. p.todo = todo /\ p.effect = e /\ p.then = then /\ p.ok = ok /\ p.bad = bad
  BY DEF NoPlan
<1> HIDE DEF p
<1>4. Aside(w) /\ pc'[w] = "read" /\ plan'[w] = p
  BY <1>2 DEF Base, Types, Aside, Keeps
<1>5. JobOK(w, e, todo, then, ok, bad)'
  BY <1>2 DEF JobOK, Honest, Key, Live, Mine, Keeps
<1>6. JobOK(w, plan[w].effect, plan[w].todo, plan[w].then, plan[w].ok, plan[w].bad)'
  BY <1>3, <1>4, <1>5
<1>7. WorkOK(w)'
  BY <1>4, <1>6 DEF WorkOK
<1> QED
  BY <1>2, <1>4, <1>7, FreesOthers, QuietBook DEF Keeps

LEMMA AcquireBook == ASSUME Base, Book, NEW w \in Workers, AcquireTarget(w) PROVE Book'
<1>1. /\ pc' = [pc EXCEPT ![w] = "fenced"] /\ token' = [token EXCEPT ![w] = token'[w]]
      /\ UNCHANGED <<req, plan, outcome, ran, binder, log, unsynced, calls, applied>>
  BY DEF AcquireTarget, Goto, book, world, Base, Types
<1>2. Aside(w) /\ pc'[w] = "fenced"
  BY <1>1 DEF Base, Types, Aside
<1>3. WorkOK(w)'
  BY <1>2 DEF WorkOK
<1> QED
  BY <1>1, <1>2, <1>3, QuietBook

LEMMA BindBook == ASSUME Base, Book, NEW w \in Workers, BindInvocation(w) PROVE Book'
<1>1. /\ pc' = [pc EXCEPT ![w] = "bound"] /\ binder[req[w].inv] = NoWorker
      /\ binder' = [binder EXCEPT ![req[w].inv] = w]
      /\ UNCHANGED <<req, token, plan, outcome, ran, log, unsynced, calls, applied>>
  BY DEF BindInvocation, Goto, book, world
<1>2. /\ Aside(w) /\ pc'[w] = "bound" /\ binder'[req[w].inv] = w
      /\ \A v \in Workers \ {w} : binder[req[v].inv] = v => binder'[req[v].inv] = v
  BY <1>1, NoWorkerAssumption DEF Base, Types, Aside, Requests
<1>3. WorkOK(w)'
  BY <1>1, <1>2 DEF WorkOK
<1> QED
  BY <1>1, <1>2, <1>3, QuietBook

LEMMA PrepareReadsBook == ASSUME Base, Book, NEW w \in Workers, PrepareReads(w) PROVE Book'
<1>1. /\ pc[w] = "bound" /\ pc' = [pc EXCEPT ![w] = "preparing"]
      /\ \A e \in Effects(log) : e[1] # req[w].inv
      /\ UNCHANGED <<req, token, plan, outcome, ran, binder, log, unsynced, calls, applied>>
  BY DEF PrepareReads, Goto, book, world, lock
<1>2. Aside(w) /\ pc'[w] = "preparing"
  BY <1>1 DEF Base, Types, Aside
<1>3. binder[req[w].inv] = w
  BY <1>1 DEF Book, WorkOK
<1>4. \A i \in 1..Len(log) : log[i].effect[1] # req[w].inv
  BY <1>1, LenProperties DEF Effects, Base, Types
<1>5. WorkOK(w)'
  BY <1>1, <1>2, <1>3, <1>4 DEF WorkOK
<1> QED
  BY <1>1, <1>2, <1>5, QuietBook

LEMMA ReadBook == ASSUME Base, Book, NEW w \in Workers, ReadLedger(w) PROVE Book'
<1> DEFINE e == plan[w].effect
           m == Newest(log, e)
<1>1. /\ pc[w] = "read" /\ pc' = [pc EXCEPT ![w] = "append"] /\ e \in Effects(log)
      /\ Head(plan[w].todo) \in Allowed[log[m].state]
      /\ plan' = [plan EXCEPT ![w].prev = log[m].state, ![w].seq = log[m].seq]
      /\ UNCHANGED <<req, token, outcome, ran, binder, log, unsynced, calls, applied>>
  BY DEF ReadLedger, Goto, book, world, lock, Latest
<1>2. m \in 1..Len(log) /\ NewestAt(log, Len(log), m, e)
  BY <1>1, NewestFacts DEF Base, Types
<1> HIDE DEF m
<1>3. /\ plan'[w].effect = e /\ plan'[w].todo = plan[w].todo /\ plan'[w].then = plan[w].then
      /\ plan'[w].ok = plan[w].ok /\ plan'[w].bad = plan[w].bad
      /\ plan'[w].prev = log[m].state /\ plan'[w].seq = log[m].seq
      /\ \A v \in Workers \ {w} : plan'[v] = plan[v]
  <2>1. plan \in [Workers -> Plans]
    BY DEF Base, Types
  <2> QED
    BY <1>1, <2>1 DEF Plans
<1>4. Aside(w) /\ pc'[w] = "append"
  BY <1>1, <1>3 DEF Base, Types, Aside
<1>5. JobOK(w, plan[w].effect, plan[w].todo, plan[w].then, plan[w].ok, plan[w].bad)
  BY <1>1 DEF Book, WorkOK
<1>6. JobOK(w, plan[w].effect, plan[w].todo, plan[w].then, plan[w].ok, plan[w].bad)'
  BY <1>1, <1>3, <1>5 DEF JobOK, Honest, Key, Live, Mine
<1>7. \E k \in 1..Len(log') :
          /\ NewestAt(log', Len(log'), k, plan'[w].effect)
          /\ log'[k].state = plan'[w].prev /\ log'[k].seq = plan'[w].seq
          /\ Head(plan'[w].todo) \in Allowed[plan'[w].prev]
  BY <1>1, <1>2, <1>3
<1>8. WorkOK(w)'
  BY <1>4, <1>6, <1>7 DEF WorkOK
<1> QED
  BY <1>1, <1>4, <1>8, QuietBook

LEMMA ReportBook == ASSUME Base, Book, NEW w \in Workers, Report(w) PROVE Book'
<1>1. /\ pc' = [pc EXCEPT ![w] = "idle"] /\ token' = [token EXCEPT ![w] = 0]
      /\ outcome' = [outcome EXCEPT ![w] = Untyped] /\ ran' = [ran EXCEPT ![w] = FALSE]
      /\ UNCHANGED <<req, plan, binder, log, unsynced, calls, applied>>
  BY DEF Report, Goto, book, world
<1>2. Aside(w) /\ pc'[w] = "idle"
  BY <1>1 DEF Base, Types, Aside
<1>3. WorkOK(w)'
  BY <1>2 DEF WorkOK
<1> QED
  BY <1>1, <1>2, <1>3, QuietBook

LEMMA DispatchBook == ASSUME Base, Book, NEW w \in Workers, NEW r, Dispatch(w, r) PROVE Book'
<1>1. /\ pc' = [pc EXCEPT ![w] = "lease"] /\ req' = [req EXCEPT ![w] = r]
      /\ outcome' = [outcome EXCEPT ![w] = Untyped] /\ ran' = [ran EXCEPT ![w] = FALSE]
      /\ UNCHANGED <<token, plan, binder, log, unsynced, calls, applied>>
  BY DEF Dispatch, Goto, book, world, lock
<1>2. Aside(w) /\ pc'[w] = "lease"
  BY <1>1 DEF Base, Types, Aside
<1>3. WorkOK(w)'
  BY <1>2 DEF WorkOK
<1> QED
  BY <1>1, <1>2, <1>3, QuietBook

LEMMA CrashBook == ASSUME Base, Book, NEW w \in Workers, Crash(w) PROVE Book'
<1>1. /\ pc' = [v \in Workers |-> IF v \in {w} THEN "idle" ELSE pc[v]]
      /\ token' = [v \in Workers |-> IF v \in {w} THEN 0 ELSE token[v]]
      /\ plan' = [v \in Workers |-> IF v \in {w} THEN NoPlan ELSE plan[v]]
      /\ outcome' = [v \in Workers |-> IF v \in {w} THEN Untyped ELSE outcome[v]]
      /\ ran' = [v \in Workers |-> IF v \in {w} THEN FALSE ELSE ran[v]]
      /\ binder' = [i \in Invocations |-> IF binder[i] \in {w} THEN NoWorker ELSE binder[i]]
      /\ UNCHANGED <<req, log, unsynced, calls, applied>>
  BY DEF Crash, Kill, book, world
<1>2. Aside(w) /\ pc'[w] = "idle"
  BY <1>1 DEF Aside
<1>3. \A v \in Workers \ {w} : binder[req[v].inv] = v => binder'[req[v].inv] = v
  BY <1>1 DEF Base, Types, Requests
<1>4. WorkOK(w)'
  BY <1>2 DEF WorkOK
<1> QED
  BY <1>1, <1>2, <1>3, <1>4, QuietBook

\* A worker appends the event it was about to append: LogInv and CallInv hold on,
\* and no other worker notices, for the event is of the writer's own target.
Appends(w, x) ==
    /\ x \in Event /\ log' = Append(log, x) /\ unsynced' \in {0, unsynced + 1}
    /\ UNCHANGED <<req, calls, applied>> /\ Active(w)
    /\ x.effect[2] = req[w].act /\ Fits(log, x)
    /\ x.state = "verified" => <<x.effect[1], x.effect[2]>> \in applied
    /\ x.state = "failed" => <<x.effect[1], x.effect[2]>> \notin applied

LEMMA AppendsLog ==
    ASSUME Base, NEW w \in Workers, NEW x, Appends(w, x)
    PROVE  /\ Len(log) \in Nat /\ unsynced \in 0..Len(log) /\ Len(log') = Len(log) + 1
           /\ log'[Len(log) + 1] = x /\ \A i \in 1..Len(log) : log'[i] = log[i]
           /\ Len(log) - unsynced <= Len(log') - unsynced' /\ Len(log') - unsynced' <= Len(log) + 1
           /\ unsynced' \in Nat /\ Len(log') \in Nat
           /\ 1..Len(log') = 1..Len(log) \cup {Len(log) + 1}
<1>1. log \in Seq(Event) /\ Len(log) \in Nat /\ unsynced \in 0..Len(log) /\ x \in Event
  BY LenProperties DEF Base, Types, Appends
<1>2. /\ Len(log') = Len(log) + 1
      /\ log'[Len(log) + 1] = x /\ \A i \in 1..Len(log) : log'[i] = log[i]
  BY <1>1, AppendProperties DEF Appends
<1>3. unsynced' = 0 \/ unsynced' = unsynced + 1
  BY DEF Appends
<1>4. /\ Len(log) - unsynced <= Len(log') - unsynced' /\ Len(log') - unsynced' <= Len(log) + 1
      /\ unsynced' \in Nat /\ Len(log') \in Nat
  BY <1>1, <1>2, <1>3
<1>5. 1..(Len(log) + 1) = 1..Len(log) \cup {Len(log) + 1}
  BY <1>1
<1> QED
  BY <1>1, <1>2, <1>4, <1>5

LEMMA IntendedKept ==
    ASSUME Base, NEW w \in Workers, NEW x, Appends(w, x), NEW e, Intended(e)
    PROVE  \E i \in 1..(Len(log') - unsynced') : log'[i].effect = e /\ log'[i].state # "prepared"
<1>1. PICK i \in 1..(Len(log) - unsynced) : log[i].effect = e /\ log[i].state # "prepared"
  BY DEF Intended
<1>2. i \in 1..Len(log) /\ i \in 1..(Len(log') - unsynced')
  BY <1>1, AppendsLog
<1>3. log'[i] = log[i]
  BY <1>2, AppendsLog
<1> QED
  BY <1>1, <1>2, <1>3

LEMMA AppendsLogInv ==
    ASSUME Base, Book, NEW w \in Workers, NEW x, Appends(w, x) PROVE LogInv' /\ CallInv'
<1>1. OneEffect(log') /\ Chained(log')
  BY FitsAppend DEF Base, Types, Book, LogInv, Appends
<1>2. Settled(log', applied')
  <2> SUFFICES ASSUME NEW i \in 1..Len(log')
               PROVE  LET k == <<log'[i].effect[1], log'[i].effect[2]>>
                      IN  /\ log'[i].state = "verified" => k \in applied
                          /\ log'[i].state = "failed" => k \notin applied
    BY DEF Settled, Appends
  <2>1. CASE i \in 1..Len(log)
    BY <2>1, AppendsLog DEF Book, LogInv, Settled
  <2>2. CASE i = Len(log) + 1
    BY <2>2, AppendsLog DEF Appends
  <2> QED
    BY <2>1, <2>2, AppendsLog
<1>3. LogInv'
  BY <1>1, <1>2 DEF LogInv
<1>4. ASSUME NEW i \in DOMAIN calls
      PROVE  \E k \in 1..(Len(log') - unsynced') : log'[k].effect = calls[i] /\ log'[k].state # "prepared"
  <2>1. Intended(calls[i])
    BY DEF Book, CallInv
  <2> QED
    BY <2>1, IntendedKept
<1>5. calls' = calls /\ applied' = applied
  BY DEF Appends
<1>6. \A i \in DOMAIN calls' : Intended(calls[i])'
  BY <1>4, <1>5 DEF Intended
<1>7. CallInv'
  BY <1>5, <1>6 DEF Book, CallInv
<1> QED
  BY <1>3, <1>7

LEMMA AppendsOthers ==
    ASSUME Base, Book, NEW w \in Workers, NEW x, Appends(w, x), NEW v \in Workers, v # w, Aside(w),
           binder[req[v].inv] = v => binder'[req[v].inv] = v,
           pc[v] = "preparing" => x.effect[1] # req[v].inv
    PROVE  WorkOK(v)'
<1>1. /\ pc'[v] = pc[v] /\ req'[v] = req[v] /\ token'[v] = token[v] /\ plan'[v] = plan[v]
      /\ outcome'[v] = outcome[v] /\ ran'[v] = ran[v] /\ applied' = applied
  BY DEF Aside, Appends
<1>2. WorkOK(v)
  BY DEF Book
<1>3. Active(v) => req[v].act # x.effect[2]
  BY DEF Base, LeaseInv, Target, Appends
<1>4. \A o : Honest(v, o)' <=> Honest(v, o)
  BY <1>1 DEF Honest, Key
<1>5. Mine(v)' = Mine(v) /\ Key(v)' = Key(v)
  BY <1>1 DEF Mine, Key
<1>6. Active(v) /\ Live(v) => Live(v)'
  <2> SUFFICES ASSUME Active(v), Live(v) PROVE Live(v)'
    OBVIOUS
  <2>1. x.effect # Mine(v)
    BY <1>3, MineParts
  <2> QED
    BY <1>5, <2>1, AppendsLog DEF Live
<1>7. Intended(Mine(v)) => Intended(Mine(v))'
  <2>1. Intended(Mine(v)) => \E i \in 1..(Len(log') - unsynced') :
                                 log'[i].effect = Mine(v) /\ log'[i].state # "prepared"
    BY IntendedKept
  <2> QED
    BY <1>5, <2>1 DEF Intended
<1>8. pc[v] \in {"read", "append"} =>
          JobOK(v, plan[v].effect, plan[v].todo, plan[v].then, plan[v].ok, plan[v].bad)'
  <2> SUFFICES ASSUME pc[v] \in {"read", "append"}
               PROVE  JobOK(v, plan[v].effect, plan[v].todo, plan[v].then, plan[v].ok, plan[v].bad)'
    OBVIOUS
  <2>1. JobOK(v, plan[v].effect, plan[v].todo, plan[v].then, plan[v].ok, plan[v].bad) /\ Active(v)
    BY <1>2 DEF WorkOK, Active
  <2> QED
    BY <1>1, <1>4, <1>5, <1>6, <2>1 DEF JobOK
<1>9. ASSUME pc[v] = "append"
      PROVE  \E m \in 1..Len(log') :
               /\ NewestAt(log', Len(log'), m, plan[v].effect)
               /\ log'[m].state = plan[v].prev /\ log'[m].seq = plan[v].seq
               /\ Head(plan[v].todo) \in Allowed[plan[v].prev]
  <2>1. PICK m \in 1..Len(log) :
               /\ NewestAt(log, Len(log), m, plan[v].effect)
               /\ log[m].state = plan[v].prev /\ log[m].seq = plan[v].seq
               /\ Head(plan[v].todo) \in Allowed[plan[v].prev]
    BY <1>2, <1>9 DEF WorkOK
  <2>2. plan[v].effect[2] = req[v].act /\ Active(v)
    BY <1>2, <1>9 DEF WorkOK, JobOK, Active
  <2>3. x.effect # plan[v].effect
    BY <1>3, <2>2
  <2>4. m \in 1..Len(log') /\ log'[m] = log[m]
    BY AppendsLog
  <2>5. \A k \in (m + 1)..Len(log') : k \in (m + 1)..Len(log) \/ k = Len(log) + 1
    BY AppendsLog
  <2>6. \A k \in (m + 1)..Len(log) : k \in 1..Len(log)
    BY AppendsLog
  <2>7. \A k \in (m + 1)..Len(log') : log'[k].effect # plan[v].effect
    BY <2>1, <2>3, <2>5, <2>6, AppendsLog DEF NewestAt
  <2>8. NewestAt(log', Len(log'), m, plan[v].effect)
    BY <2>1, <2>4, <2>7 DEF NewestAt
  <2> QED
    BY <2>1, <2>4, <2>8
<1>10. pc[v] = "preparing" => \A i \in 1..Len(log') : log'[i].effect[1] # req[v].inv
  BY <1>2, AppendsLog DEF WorkOK
<1>11. pc[v] = "release" => Honest(v, outcome[v])'
  BY <1>1, <1>2, <1>4 DEF WorkOK
<1>12. pc[v] \in {"prepared", "started"} => Active(v) /\ Live(v)
  BY <1>2 DEF WorkOK, Active
<1>13. pc[v] = "started" => Intended(Mine(v))
  BY <1>2 DEF WorkOK
<1>14. pc[v] \in {"bound", "preparing"} => binder'[req[v].inv] = v
  BY <1>2 DEF WorkOK
<1> QED
  BY <1>1, <1>6, <1>7, <1>8, <1>9, <1>10, <1>11, <1>12, <1>13, <1>14 DEF WorkOK

LEMMA AppendsBook ==
    ASSUME Base, Book, NEW w \in Workers, NEW x, Appends(w, x), Aside(w), WorkOK(w)',
           \A v \in Workers \ {w} : binder[req[v].inv] = v => binder'[req[v].inv] = v,
           \A v \in Workers \ {w} : pc[v] = "preparing" => x.effect[1] # req[v].inv
    PROVE  Book'
<1>1. \A v \in Workers \ {w} : WorkOK(v)'
  BY AppendsOthers
<1> QED
  BY <1>1, AppendsLogInv DEF Book

LEMMA StoredAppends ==
    ASSUME Base, Room, NEW x \in Event, AppendStored(x) PROVE log' = Append(log, x) /\ unsynced' = 0
<1>1. Append(log, x) \in Seq(Event) /\ Len(Append(log, x)) = Len(log) + 1 /\ Len(log) \in Nat
  BY AppendProperties, LenProperties DEF Base, Types
<1>2. Len(Append(log, x)) <= MaxRecords
  BY <1>1, BoundAssumption DEF Room
<1> QED
  BY <1>1, <1>2, RetainedRoom DEF AppendStored

\* The events a worker appends fit.
LEMMA PendingFits ==
    ASSUME Base, Book, NEW w \in Workers, pc[w] \in {"preparing", "append"},
           log' = Append(log, Pending(w)), unsynced' \in {0, unsynced + 1},
           UNCHANGED <<req, calls, applied>>
    PROVE  /\ Appends(w, Pending(w))
           /\ \A v \in Workers \ {w} : pc[v] = "preparing" => Pending(w).effect[1] # req[v].inv
<1>1. WorkOK(w) /\ Active(w)
  BY DEF Book, Active
<1>2. CASE pc[w] = "preparing"
  <2>1. /\ Pending(w) = Prepared(w) /\ Prepared(w) \in Event /\ Prepared(w).effect = Mine(w)
        /\ Prepared(w).state = "prepared"
    BY <1>2, PreparedType DEF Pending, Prepared, Base
  <2>2. \A i \in 1..Len(log) : log[i].effect[1] # req[w].inv
    BY <1>1, <1>2 DEF WorkOK
  <2>3. Fits(log, Prepared(w))
    BY <2>1, <2>2, MineParts DEF Fits
  <2>4. Appends(w, Pending(w))
    BY <1>1, <2>1, <2>3, MineParts DEF Appends
  <2>5. \A v \in Workers : pc[v] = "preparing" => binder[req[v].inv] = v
    BY DEF Book, WorkOK
  <2> QED
    BY <1>2, <2>1, <2>4, <2>5, MineParts
<1>3. CASE pc[w] = "append"
  <2> DEFINE e == plan[w].effect
             s == Head(plan[w].todo)
  <2>1. /\ Pending(w) = Transition(w) /\ Transition(w) \in Event /\ Transition(w).effect = e
        /\ Transition(w).state = s /\ Transition(w).prev = plan[w].prev
        /\ Transition(w).seq = plan[w].seq + 1
    BY <1>3, TransitionType DEF Pending, Transition, Base
  <2>2. PICK m \in 1..Len(log) :
               /\ NewestAt(log, Len(log), m, e)
               /\ log[m].state = plan[w].prev /\ log[m].seq = plan[w].seq
               /\ s \in Allowed[plan[w].prev]
    BY <1>1, <1>3 DEF WorkOK
  <2>3. log[m] \in Event /\ log[m].state \in EffectState
    <3>1. log[m] \in Event
      BY ElementOfSeq DEF Base, Types
    <3> QED
      BY <3>1 DEF Event
  <2>4. log[m].state \notin {"verified", "failed"} /\ s # "prepared"
    BY <2>2, <2>3, AllowedFacts
  <2>5. Fits(log, Transition(w))
    BY <2>1, <2>2, <2>4 DEF Fits
  <2>6. JobOK(w, e, plan[w].todo, plan[w].then, plan[w].ok, plan[w].bad)
    BY <1>1, <1>3 DEF WorkOK
  <2>7. e[1] = req[w].inv /\ e[2] = req[w].act /\ <<e[1], e[2]>> = Key(w)
    BY <2>6 DEF JobOK, Key
  <2>8. (s = "verified" => Key(w) \in applied) /\ (s = "failed" => Key(w) \notin applied)
    <3>1. plan[w].todo \in Lists
      BY <2>6 DEF JobOK
    <3>2. (s = "verified" => plan[w].todo = <<"verified">>) /\ (s = "failed" => plan[w].todo = <<"failed">>)
      BY <3>1, ListFacts DEF Lists, Fails
    <3> QED
      BY <2>6, <3>2, ListsApart DEF JobOK
  <2>9. Appends(w, Pending(w))
    BY <1>1, <2>1, <2>5, <2>7, <2>8 DEF Appends
  <2>10. \A v \in Workers : pc[v] = "preparing" => log[m].effect[1] # req[v].inv
    BY DEF Book, WorkOK
  <2> QED
    BY <2>1, <2>2, <2>9, <2>10 DEF NewestAt
<1> QED
  BY <1>2, <1>3

LEMMA EndsBook == ASSUME Base, Book, NEW w \in Workers, EndsWell(w) PROVE Book'
<1>1. PICK o \in Outcome : Ends(w, o)
  BY DEF EndsWell
<1>2. /\ Aside(w) /\ Keeps /\ Frees(w) /\ WorkOK(w)' /\ UNCHANGED <<req, calls, applied>>
      /\ \/ UNCHANGED <<log, unsynced>>
         \/ /\ pc[w] \in {"preparing", "append"}
            /\ log' = Append(log, Pending(w)) /\ unsynced' = unsynced + 1
  BY <1>1, EndsLocal DEF Keeps
<1>3. \A v \in Workers \ {w} : binder[req[v].inv] = v => binder'[req[v].inv] = v
  BY <1>2, FreesOthers
<1>4. CASE UNCHANGED <<log, unsynced>>
  BY <1>2, <1>3, <1>4, QuietBook
<1>5. CASE /\ pc[w] \in {"preparing", "append"}
           /\ log' = Append(log, Pending(w)) /\ unsynced' = unsynced + 1
  <2>1. /\ Appends(w, Pending(w))
        /\ \A v \in Workers \ {w} : pc[v] = "preparing" => Pending(w).effect[1] # req[v].inv
    BY <1>2, <1>5, PendingFits
  <2> QED
    BY <1>2, <1>3, <2>1, AppendsBook
<1> QED
  BY <1>2, <1>4, <1>5

LEMMA PrepareStoresBook ==
    ASSUME Base, Book, Room, NEW w \in Workers, PrepareStores(w) PROVE Book'
<1>1. /\ pc[w] = "preparing" /\ pc' = [pc EXCEPT ![w] = "prepared"] /\ AppendStored(Prepared(w))
      /\ UNCHANGED <<req, token, plan, outcome, ran, calls, applied>> /\ Frees(w)
  BY DEF PrepareStores, Goto, world, Frees
<1>2. /\ Pending(w) = Prepared(w) /\ Prepared(w) \in Event /\ Prepared(w).effect = Mine(w)
      /\ Prepared(w).state = "prepared"
  BY <1>1, PreparedType DEF Pending, Prepared, Base
<1>3. log' = Append(log, Pending(w)) /\ unsynced' = 0
  BY <1>1, <1>2, StoredAppends
<1>4. /\ Appends(w, Pending(w))
      /\ \A v \in Workers \ {w} : pc[v] = "preparing" => Pending(w).effect[1] # req[v].inv
  BY <1>1, <1>3, PendingFits
<1>5. Aside(w) /\ pc'[w] = "prepared"
  BY <1>1 DEF Base, Types, Aside
<1>6. Live(w)'
  <2>1. \A i \in 1..Len(log) : log[i].effect[1] # req[w].inv
    BY <1>1 DEF Book, WorkOK
  <2>2. \A i \in 1..Len(log) : log[i].effect # Mine(w)
    BY <2>1, MineParts
  <2>3. Mine(w)' = Mine(w)
    BY <1>1 DEF Mine
  <2>4. /\ log'[Len(log) + 1] = Pending(w) /\ \A i \in 1..Len(log) : log'[i] = log[i]
        /\ 1..Len(log') = 1..Len(log) \cup {Len(log) + 1}
    BY <1>4, AppendsLog
  <2> QED
    BY <1>2, <2>2, <2>3, <2>4 DEF Live
<1>7. WorkOK(w)'
  BY <1>5, <1>6 DEF WorkOK
<1> QED
  BY <1>1, <1>4, <1>5, <1>7, FreesOthers, AppendsBook

LEMMA AppendReturnsBook ==
    ASSUME Base, Book, Room, NEW w \in Workers, AppendReturns(w) PROVE Book'
<1> DEFINE p == plan[w]
<1>1. /\ pc[w] = "append" /\ AppendStored(Transition(w))
      /\ UNCHANGED <<req, token, ran, binder, calls, applied>>
      /\ IF Len(p.todo) > 1
         THEN /\ plan' = [plan EXCEPT ![w].todo = Tail(@)]
              /\ pc' = [pc EXCEPT ![w] = "read"] /\ UNCHANGED outcome
         ELSE /\ plan' = [plan EXCEPT ![w] = NoPlan]
              /\ outcome' = [outcome EXCEPT ![w] = p.ok]
              /\ pc' = [pc EXCEPT ![w] = p.then]
  BY DEF AppendReturns, Goto, lock, world
<1>2. /\ Pending(w) = Transition(w) /\ Transition(w) \in Event
      /\ Transition(w).effect = p.effect /\ Transition(w).state = Head(p.todo)
  BY <1>1, TransitionType DEF Pending, Transition, Base
<1>3. log' = Append(log, Pending(w)) /\ unsynced' = 0
  BY <1>1, <1>2, StoredAppends
<1>4. /\ Appends(w, Pending(w))
      /\ \A v \in Workers \ {w} : pc[v] = "preparing" => Pending(w).effect[1] # req[v].inv
  BY <1>1, <1>3, PendingFits
<1>5. /\ log'[Len(log) + 1] = Pending(w) /\ \A i \in 1..Len(log) : log'[i] = log[i]
      /\ 1..Len(log') = 1..Len(log) \cup {Len(log) + 1}
      /\ Len(log) \in Nat /\ Len(log') = Len(log) + 1
  BY <1>4, AppendsLog
<1>6. JobOK(w, p.effect, p.todo, p.then, p.ok, p.bad) /\ p \in Plans /\ plan \in [Workers -> Plans]
  BY <1>1 DEF Book, WorkOK, Base, Types
<1>7. p.todo \in Lists
  BY <1>6 DEF JobOK
<1>8. Mine(w)' = Mine(w) /\ Key(w)' = Key(w) /\ ran' = ran /\ applied' = applied
  BY <1>1 DEF Mine, Key
<1>9. CASE Len(p.todo) > 1
  <2>1. p.todo = <<"unknown", "failed">> /\ Tail(p.todo) = <<"failed">>
    BY <1>7, <1>9, ListFacts
  <2>2. /\ plan'[w].todo = <<"failed">> /\ plan'[w].effect = p.effect /\ plan'[w].then = p.then
        /\ plan'[w].ok = p.ok /\ plan'[w].bad = p.bad
        /\ \A v \in Workers \ {w} : plan'[v] = plan[v]
    BY <1>1, <1>6, <1>9, <2>1 DEF Plans
  <2>3. Aside(w) /\ pc'[w] = "read"
    BY <1>1, <1>9, <2>2 DEF Base, Types, Aside
  <2>4. p.effect = Mine(w) /\ p.then # "started" /\ Key(w) \notin applied
    BY <1>6, <2>1, ListsApart DEF JobOK
  <2>5. Honest(w, plan[w].ok)' /\ Honest(w, plan[w].bad)'
    BY <1>6, <1>8, <2>2 DEF JobOK, Honest
  <2>6. JobOK(w, plan[w].effect, plan[w].todo, plan[w].then, plan[w].ok, plan[w].bad)'
    BY <1>1, <1>6, <1>8, <2>2, <2>4, <2>5, ListsApart DEF JobOK
  <2>7. WorkOK(w)'
    BY <2>3, <2>6 DEF WorkOK
  <2> QED
    BY <1>1, <1>4, <2>3, <2>7, AppendsBook
<1>10. CASE ~(Len(p.todo) > 1)
  <2>1. p.then \in Thens
    BY <1>6 DEF Plans
  <2>2. Aside(w) /\ pc'[w] = p.then /\ outcome'[w] = p.ok
    BY <1>1, <1>10, <2>1 DEF Base, Types, Aside
  <2>3. p.then = "started" => Live(w)' /\ Intended(Mine(w))'
    <3> SUFFICES ASSUME p.then = "started" PROVE Live(w)' /\ Intended(Mine(w))'
      OBVIOUS
    <3>1. p.todo = <<"started">> /\ Live(w)
      BY <1>6 DEF JobOK
    <3>2. p.effect = Mine(w) /\ Head(p.todo) = "started"
      BY <1>6, <3>1, ListsApart, ListFacts DEF JobOK
    <3>3. Live(w)'
      BY <1>2, <1>5, <1>8, <3>1, <3>2 DEF Live
    <3>4. Len(log) + 1 \in 1..(Len(log') - unsynced')
      BY <1>3, <1>5
    <3>5. Intended(Mine(w))'
      BY <1>2, <1>5, <1>8, <3>2, <3>4 DEF Intended
    <3> QED
      BY <3>3, <3>5
  <2>4. Honest(w, outcome[w])'
    BY <1>6, <1>8, <2>2 DEF JobOK, Honest
  <2>5. WorkOK(w)'
    BY <2>1, <2>2, <2>3, <2>4 DEF WorkOK, Thens
  <2> QED
    BY <1>1, <1>4, <2>2, <2>5, AppendsBook
<1> QED
  BY <1>9, <1>10

\* The call: the first of its tool-call id, of an intended and live effect.  The
\* other workers are on other targets.
LEMMA InvokeBook == ASSUME Base, Book, NEW w \in Workers, Invoke(w) PROVE Book'
<1>1. /\ pc[w] = "started" /\ Active(w) /\ ~ran[w] /\ pc' = [pc EXCEPT ![w] = "returned"]
      /\ ran' = [ran EXCEPT ![w] = TRUE]
      /\ applied' \in {applied, applied \cup {Key(w)}}
      /\ UNCHANGED <<req, token, plan, outcome, binder, log, unsynced>>
      /\ Len(calls) \in Nat /\ DOMAIN calls = 1..Len(calls) /\ DOMAIN calls' = 1..(Len(calls) + 1)
      /\ calls'[Len(calls) + 1] = Mine(w) /\ \A i \in 1..Len(calls) : calls'[i] = calls[i]
  BY InvokeFacts
<1>2. Live(w) /\ Intended(Mine(w))
  BY <1>1 DEF Book, WorkOK
<1>3. PICK i \in 1..Len(log) : log[i].effect = Mine(w)
  BY <1>2 DEF Live
<1>4. \A j \in DOMAIN calls : calls[j][1] # req[w].inv
  <2> SUFFICES ASSUME NEW j \in DOMAIN calls, calls[j][1] = req[w].inv PROVE FALSE
    OBVIOUS
  <2>1. calls[j] = Mine(w)
    BY <1>3, CallOfKey, MineParts
  <2> QED
    BY <1>1, <2>1, MineNotCalled
<1>5. \A k \in applied : k \in applied'
  BY <1>1
<1>6. \A k : k \in applied' => k \in applied \/ k = Key(w)
  BY <1>1
<1>7. LogInv'
  <2>1. ASSUME NEW j \in 1..Len(log), <<log[j].effect[1], log[j].effect[2]>> = Key(w)
        PROVE  log[j].state # "failed"
    <3>1. log[j].effect[1] = log[i].effect[1]
      BY <1>3, <2>1, MineParts DEF Key
    <3>2. log[j].effect = Mine(w)
      BY <1>3, <3>1 DEF Book, LogInv, OneEffect
    <3> QED
      BY <1>2, <3>2 DEF Live
  <2>2. Settled(log, applied')
    BY <1>5, <1>6, <2>1 DEF Book, LogInv, Settled
  <2> QED
    BY <1>1, <2>2 DEF Book, LogInv
<1>8. CallInv'
  <2>1. \A j \in DOMAIN calls' : Intended(calls'[j])
    BY <1>1, <1>2 DEF Book, CallInv
  <2>2. \A j \in DOMAIN calls' : Intended(calls[j])'
    BY <1>1, <2>1 DEF Intended
  <2>3. ASSUME NEW j \in DOMAIN calls', NEW k \in DOMAIN calls', calls'[j][1] = calls'[k][1]
        PROVE  j = k
    BY <1>1, <1>4, <2>3, MineParts DEF Book, CallInv
  <2>4. ASSUME NEW k \in applied' PROVE \E j \in DOMAIN calls' : calls'[j][1] = k[1] /\ calls'[j][2] = k[2]
    <3>1. CASE k \in applied
      <4>1. PICK j \in DOMAIN calls : calls[j][1] = k[1] /\ calls[j][2] = k[2]
        BY <3>1 DEF Book, CallInv
      <4> QED
        BY <1>1, <4>1
    <3>2. CASE k = Key(w)
      BY <1>1, <3>2, MineParts DEF Key
    <3> QED
      BY <1>6, <3>1, <3>2
  <2> QED
    BY <2>2, <2>3, <2>4 DEF CallInv
<1>9. ASSUME NEW v \in Workers, v # w PROVE WorkOK(v)'
  <2>1. /\ pc'[v] = pc[v] /\ ran'[v] = ran[v] /\ Mine(v)' = Mine(v) /\ Key(v)' = Key(v)
        /\ WorkOK(v)
    BY <1>1, <1>9 DEF Base, Types, Mine, Key, Book
  <2>2. Active(v) => Key(v) # Key(w)
    BY <1>1, <1>9 DEF Base, LeaseInv, Target, Key
  <2>3. ran[v] => Key(v) # Key(w)
    <3>1. ran[v] => \E j \in DOMAIN calls : calls[j] = Mine(v)
      BY DEF Base, RanOK
    <3> QED
      BY <1>4, <3>1, MineParts DEF Key
  <2>4. \A o : Honest(v, o) => Honest(v, o)'
    BY <1>5, <1>6, <2>1, <2>3 DEF Honest
  <2>5. Live(v)' <=> Live(v)
    BY <1>1, <2>1 DEF Live
  <2>6. Intended(Mine(v))' <=> Intended(Mine(v))
    BY <1>1, <2>1 DEF Intended
  <2>7. pc[v] \in {"read", "append"} =>
            JobOK(v, plan[v].effect, plan[v].todo, plan[v].then, plan[v].ok, plan[v].bad)'
    <3> SUFFICES ASSUME pc[v] \in {"read", "append"}
                 PROVE  JobOK(v, plan[v].effect, plan[v].todo, plan[v].then, plan[v].ok, plan[v].bad)'
      OBVIOUS
    <3>1. /\ JobOK(v, plan[v].effect, plan[v].todo, plan[v].then, plan[v].ok, plan[v].bad)
          /\ Key(v) # Key(w)
      BY <2>1, <2>2 DEF WorkOK, Active
    <3> QED
      BY <1>1, <1>5, <1>6, <2>1, <2>4, <2>5, <3>1 DEF JobOK
  <2>8. pc[v] = "release" => Honest(v, outcome[v])'
    BY <1>1, <2>1, <2>4 DEF WorkOK
  <2> QED
    BY <1>1, <2>1, <2>5, <2>6, <2>7, <2>8 DEF WorkOK
<1>10. WorkOK(w)'
  <2>1. pc'[w] = "returned"
    BY <1>1 DEF Base, Types
  <2> QED
    BY <2>1 DEF WorkOK
<1> QED
  BY <1>7, <1>8, <1>9, <1>10 DEF Book

\* A power loss leaves a part of the log that holds the intent of every call.
LEMMA PowerLossBook == ASSUME Base, Book, PowerLoss PROVE Book'
<1>1. PICK n \in Nat : /\ Len(log) - unsynced <= n /\ n <= Len(log) /\ Len(log) \in Nat
                       /\ unsynced' = 0 /\ Len(log') = n
                       /\ \A i \in 1..n : log'[i] = log[i]
  BY CutFacts
<1>2. unsynced \in 0..Len(log) /\ calls' = calls /\ applied' = applied
  BY DEF Base, Types, PowerLoss, Kill, world
<1>3. \A i \in 1..n : i \in 1..Len(log)
  BY <1>1
<1>4. OneEffect(log') /\ Settled(log', applied')
  <2>1. OneEffect(log')
    BY <1>1, <1>3 DEF Book, LogInv, OneEffect
  <2>2. \A i \in 1..Len(log') : log'[i] = log[i] /\ i \in 1..Len(log)
    BY <1>1, <1>3
  <2>3. Settled(log', applied')
    BY <1>2, <2>2 DEF Book, LogInv, Settled
  <2> QED
    BY <2>1, <2>3
<1>5. Chained(log')
  <2> SUFFICES ASSUME NEW i \in 1..n, NEW j \in 1..n, i < j, log[j].effect = log[i].effect
               PROVE  /\ log[i].state \notin {"verified", "failed"} /\ log[j].state # "prepared"
                      /\ (\A k \in (i + 1)..(j - 1) : log'[k].effect # log[i].effect) =>
                             log[j].seq = log[i].seq + 1 /\ log[j].prev = log[i].state
    BY <1>1 DEF Chained
  <2>1. \A k \in (i + 1)..(j - 1) : log'[k] = log[k]
    BY <1>1
  <2> QED
    BY <1>3, <2>1 DEF Book, LogInv, Chained
<1>6. \A c \in DOMAIN calls' : Intended(calls[c])'
  <2> SUFFICES ASSUME NEW c \in DOMAIN calls PROVE Intended(calls[c])'
    BY <1>2
  <2>1. PICK i \in 1..(Len(log) - unsynced) : log[i].effect = calls[c] /\ log[i].state # "prepared"
    BY DEF Book, CallInv, Intended
  <2>2. i \in 1..n /\ i \in 1..(Len(log') - unsynced')
    BY <1>1, <1>2, <2>1
  <2> QED
    BY <1>1, <1>2, <2>1, <2>2 DEF Intended
<1>7. \A w \in Workers : pc'[w] = "idle"
  BY DEF PowerLoss, Kill
<1>8. \A w \in Workers : WorkOK(w)'
  BY <1>7 DEF WorkOK
<1>9. LogInv' /\ CallInv'
  BY <1>2, <1>4, <1>5, <1>6 DEF LogInv, Book, CallInv
<1> QED
  BY <1>8, <1>9 DEF Book

LEMMA InitBook == Init => Book
<1> SUFFICES ASSUME Init PROVE Book
  OBVIOUS
<1>1. /\ log = <<>> /\ unsynced = 0 /\ calls = <<>> /\ applied = {} /\ \A w \in Workers : pc[w] = "idle"
  BY DEF Init
<1>2. Len(log) = 0 /\ DOMAIN calls = {}
  BY <1>1, EmptySeq
<1>3. LogInv /\ CallInv
  BY <1>1, <1>2 DEF LogInv, OneEffect, Chained, Settled, CallInv
<1>4. \A w \in Workers : WorkOK(w)
  BY <1>1 DEF WorkOK
<1> QED
  BY <1>3, <1>4 DEF Book

LEMMA BookStep == Base /\ Book /\ [Next]_vars /\ [Room]_vars => Book'
<1> SUFFICES ASSUME Base, Book, [Next]_vars, [Room]_vars PROVE Book'
  OBVIOUS
<1>1. ASSUME NEW w \in Workers, NEW r, Dispatch(w, r) PROVE Book'
  BY <1>1, DispatchBook
<1>2. ASSUME Room, NEW w \in Workers, Ledger(w) \/ Run(w) \/ Interrupt(w) PROVE Book'
  BY <1>2, Kinds, EndsBook, BeginsBook, AcquireBook, BindBook, PrepareReadsBook, PrepareStoresBook,
     ReadBook, AppendReturnsBook, InvokeBook, ReportBook
<1>3. CASE UNCHANGED vars
  <2>1. UNCHANGED <<pc, req, token, plan, outcome, ran, binder, log, unsynced, calls, applied>>
    BY <1>3 DEF vars, lock, book, world
  <2>2. LogInv' /\ CallInv'
    BY <2>1 DEF Book, LogInv, CallInv, Intended
  <2>3. ASSUME NEW w \in Workers PROVE WorkOK(w)'
    <3>1. WorkOK(w)
      BY DEF Book
    <3> QED
      BY <2>1, <3>1 DEF WorkOK, JobOK, Honest, Live, Intended, Mine, Key
  <2> QED
    BY <2>2, <2>3 DEF Book
<1> QED
  BY <1>1, <1>2, <1>3, CrashBook, PowerLossBook DEF Next

-----------------------------------------------------------------------------
(* What the ledger guarantees *)

\* Whatever dispatches, replays, recoveries, interrupts, crashes and power
\* losses interleave: as long as retention forgets nothing, the ledger has one
\* well-formed chain per tool-call id that says nothing untrue, every call has a
\* durable intent, and every worker knows the truth about its effect.
THEOREM BookInvariance == Spec /\ NothingForgotten => []IInv
<1>1. Base /\ Book => IInv
  BY DEF IInv
<1> QED
  BY <1>1, BaseInvariance, InitBook, BookStep, PTL DEF Spec, NothingForgotten

\* A tool-call id leads to at most one call of the tool, also when it is
\* replayed concurrently, with changed arguments, or after a crash.
THEOREM AtMostOnceTheorem == Spec /\ NothingForgotten => []AtMostOnce
<1>1. IInv => AtMostOnce
  BY DEF IInv, Book, CallInv, AtMostOnce
<1> QED
  BY <1>1, BookInvariance, PTL

\* An effect recorded as verified took place; one recorded as failed did not, and
\* no worker is about to call it.
THEOREM SettledTruthfullyTheorem == Spec /\ NothingForgotten => []SettledTruthfully
<1>1. IInv => SettledTruthfully
  <2> SUFFICES ASSUME IInv, NEW e \in Effects(log)
               PROVE  /\ Latest(log, e).state = "verified" => <<e[1], e[2]>> \in applied
                      /\ Latest(log, e).state = "failed" =>
                            /\ <<e[1], e[2]>> \notin applied
                            /\ \A w \in Workers : pc[w] = "started" => Mine(w) # e
    BY DEF SettledTruthfully
  <2>1. Base /\ Book /\ LogInv
    BY DEF IInv, Book
  <2>2. /\ Latest(log, e).state = "verified" => <<e[1], e[2]>> \in applied
        /\ Latest(log, e).state = "failed" => <<e[1], e[2]>> \notin applied
    BY <2>1, LatestFacts
  <2>3. ASSUME NEW w \in Workers, pc[w] = "started", Mine(w) = e
        PROVE  Latest(log, e).state # "failed"
    <3>1. Live(w)
      BY <2>1, <2>3 DEF Book, WorkOK
    <3>2. /\ Newest(log, e) \in 1..Len(log)
          /\ NewestAt(log, Len(log), Newest(log, e), e)
      BY <2>1, NewestFacts DEF Base, Types
    <3> QED
      BY <2>3, <3>1, <3>2 DEF Live, NewestAt, Latest
  <2> QED
    BY <2>2, <2>3
<1> QED
  BY <1>1, BookInvariance, PTL

\* Write-ahead: the start of every effect whose tool was called is in the part of
\* the log that survives a power loss.
THEOREM IntentDurableTheorem == Spec /\ NothingForgotten => []IntentDurable
<1>1. IInv => IntentDurable
  BY DEF IInv, Book, CallInv, Intended, IntentDurable, ToSet
<1> QED
  BY <1>1, BookInvariance, PTL

\* What a dispatch reports is true: "not invoked" and "may be retried" mean that
\* it did not call the tool, success that the effect took place, and a known
\* failure that this dispatch left no effect.
THEOREM ReportHonestTheorem == Spec /\ NothingForgotten => []ReportHonest
<1>1. IInv => ReportHonest
  BY DEF IInv, Book, WorkOK, Honest, Key, ReportHonest
<1> QED
  BY <1>1, BookInvariance, PTL

\* The ledger stays readable: no broken chain, no tool-call id with two effects.
THEOREM LedgerConsistentTheorem == Spec /\ NothingForgotten => []LedgerConsistent
<1>1. IInv => ~Corrupt(log)
  <2> SUFFICES ASSUME IInv PROVE ~Corrupt(log)
    OBVIOUS
  <2>1. OneEffect(log) /\ Chained(log) /\ DOMAIN log = 1..Len(log)
    BY LenProperties DEF IInv, Book, LogInv, Base, Types
  <2>2. \A i, j \in DOMAIN log :
            /\ i < j /\ log[j].effect = log[i].effect
            /\ \A k \in (i + 1)..(j - 1) : log[k].effect # log[i].effect
            => log[j].seq = log[i].seq + 1 /\ log[j].prev = log[i].state
    BY <2>1 DEF Chained
  <2>3. \A d, e \in Effects(log) : d[1] = e[1] => d = e
    BY <2>1 DEF Effects, OneEffect
  <2> QED
    BY <2>2, <2>3 DEF Corrupt
<1> QED
  BY <1>1, TypeCorrect, BookInvariance, PTL DEF LedgerConsistent
=============================================================================
