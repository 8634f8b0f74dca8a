--------------------------- MODULE ProviderProtocol --------------------------
(***************************************************************************)
(* The provider-neutral state machine of one model/tool loop:              *)
(* algo_cli/nathan_provider_protocol.py (ProviderToolLoopState).           *)
(*                                                                         *)
(* A loop is a record; each method is an operator from loops to loops, and *)
(* where the method raises ProviderToolProtocolError unless a condition    *)
(* holds, the condition is an operator of its own (May...).  A call id is  *)
(* a tuple <<loop, round, index, x>>, x counting the "-x" suffixes; ids of *)
(* the provider's own making use a loop number that no turn has.           *)
(***************************************************************************)
EXTENDS Naturals, SequencesExt, FiniteSets

CONSTANT NoId      \* a tool call that came without a usable id

CallIds == Nat \X Nat \X Nat \X Nat

ASSUME NoIdAssumption == NoId \in CallIds

\* A fresh loop; loop ids are random, hence one per turn.
NewLoop(n) == [id |-> n, phase |-> "ready", round |-> 0, expected |-> <<>>, violated |-> FALSE,
               seen |-> {}, dispatched |-> {}, completed |-> {}, mutations |-> {},
               uncertain |-> {}]

MayBegin(l, n) == l.phase = "ready" /\ n > l.round

\* begin_model_round(); rounds are counted from one here.
Begin(l, n) == [l EXCEPT !.phase = "model_inflight", !.round = n, !.expected = <<>>,
                         !.violated = FALSE, !.dispatched = {}, !.completed = {},
                         !.mutations = {}]

Synthetic(l, i) == <<l.id, l.round, i, 0>>

\* The id with as many "-x" suffixes as it takes to be new.
Unused(id, used) ==
    LET Suffixed(n) == <<id[1], id[2], id[3], id[4] + n>> IN
    Suffixed(CHOOSE n \in 0..Cardinality(used) :
                 /\ Suffixed(n) \notin used
                 /\ \A m \in 0..(n - 1) : Suffixed(m) \in used)

\* Seeded fault: an id is only compared with those of its own batch.
AssignInBatch(l, ids) ==
    FoldLeft(LAMBDA acc, id :
                 LET used == ToSet(acc.ids)
                     dup  == id # NoId /\ id \in used
                     own  == IF id = NoId \/ dup THEN Synthetic(l, Len(acc.ids)) ELSE id
                 IN  [ids |-> Append(acc.ids, Unused(own, used)), violated |-> acc.violated \/ dup],
             [ids |-> <<>>, violated |-> FALSE], ids)

\* The next call of a reply: an id that is missing, or already used in this turn,
\* is replaced by one of our own.
Identified(l, acc, id) ==
    LET used == l.seen \cup ToSet(acc.ids)
        dup  == id # NoId /\ id \in used
        own  == IF id = NoId \/ dup THEN Synthetic(l, Len(acc.ids)) ELSE id
    IN  [ids |-> Append(acc.ids, Unused(own, used)), violated |-> acc.violated \/ dup]

\* The loop of complete_model_round() over the calls of a reply.
Assign(l, ids) ==
    LET upTo[n \in 0..Len(ids)] ==
            IF n = 0 THEN [ids |-> <<>>, violated |-> FALSE]
            ELSE Identified(l, upTo[n - 1], ids[n])
    IN  upTo[Len(ids)]

MayComplete(l) == l.phase = "model_inflight"

Complete(l, ids) ==
    LET a == Assign(l, ids) IN
    [l EXCEPT !.phase = "model_complete", !.expected = a.ids, !.violated = a.violated,
              !.seen = @ \cup ToSet(a.ids)]

MayFinishWithoutTools(l) == l.phase = "model_complete" /\ l.expected = <<>>

MayBeginBatch(l) == l.phase = "model_complete" /\ l.expected # <<>>

BeginBatch(l) == [l EXCEPT !.phase = "tools_inflight"]

MayDispatch(l, id) ==
    l.phase = "tools_inflight" /\ id \in ToSet(l.expected) /\ id \notin l.dispatched

RecordDispatch(l, id, mutating) ==
    [l EXCEPT !.dispatched = @ \cup {id},
              !.mutations = IF mutating THEN @ \cup {id} ELSE @]

MayResult(l, id) ==
    l.phase = "tools_inflight" /\ id \in l.dispatched /\ id \notin l.completed

\* Seeded fault: any result at all settles a mutation.
RecordResultForgets(l, id, unknown) == [l EXCEPT !.completed = @ \cup {id}]

RecordResult(l, id, unknown) ==
    [l EXCEPT !.completed = @ \cup {id},
              !.uncertain = IF unknown /\ id \in l.mutations THEN @ \cup {id} ELSE @]

MayFinishBatch(l) == /\ l.phase = "tools_inflight"
                     /\ l.dispatched = ToSet(l.expected)
                     /\ l.completed = ToSet(l.expected)

\* finish_without_tools(), finish_tool_batch()
Ready(l) == [l EXCEPT !.phase = "ready"]

Terminal == {"interrupted", "timed_out", "cancelled"}

\* interrupt(): mutations without a result are uncertain.
Interrupted(l, phase) ==
    IF l.phase \in Terminal THEN l
    ELSE [l EXCEPT !.phase = phase,
                   !.uncertain = IF l.phase = "tools_inflight"
                                 THEN @ \cup ((l.dispatched \ l.completed) \cap l.mutations)
                                 ELSE @]

Cancelled(l) == [Interrupted(l, "interrupted") EXCEPT !.phase = "cancelled"]

\* assert_provider_fallback_safe()
FallbackSafe(l) == l.uncertain = {} /\ l.dispatched \subseteq l.completed
=============================================================================
