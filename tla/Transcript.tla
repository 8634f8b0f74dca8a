----------------------------- MODULE Transcript ------------------------------
(***************************************************************************)
(* The conversation with the provider: the turn of algo_cli/main.py        *)
(* (_agent_loop_body), as far as it shapes the message history, over the   *)
(* protocol state of ProviderProtocol.                                     *)
(*                                                                         *)
(* A turn alternates model rounds and tool batches.  A batch runs in the   *)
(* main thread, call by call, or in a pool of threads when all of its      *)
(* calls are distinct pure observations; Ctrl-C may strike anywhere.  Each *)
(* round first prunes and perhaps compacts the history                     *)
(* (algo_cli/context_budget.py).  What the budgets decide (whether a round *)
(* is a finalization round, whether a turn goes on) is module TurnLoop's   *)
(* and a free choice here.                                                 *)
(***************************************************************************)
EXTENDS ProviderProtocol

CONSTANTS ProviderIds,   \* call ids a provider may send
          MaxCalls,      \* bound on the calls of one reply
          MaxTurns, MaxRounds,      \* bounds on the turns, and the rounds of a turn:
                                    \* each turn has one less than the turn before
          MaxPrompts,    \* bound on the internal prompts after a batch (2 in the code)
          PruneAfter, PruneKeep,    \* prune_after_messages, prune_keep_recent
          CompactKeep               \* the messages compaction keeps

ASSUME IdsAssumption == ProviderIds \subseteq CallIds
ASSUME BoundsAssumption == /\ {MaxCalls, MaxTurns, MaxRounds, CompactKeep} \subseteq Nat \ {0}
                           /\ {MaxPrompts, PruneAfter, PruneKeep} \subseteq Nat

VARIABLES turn,      \* the number of turns so far
          pc,        \* where the turn is
          loop,      \* loop_state
          history,   \* cfg.messages
          final,     \* finalization_turn
          batch,     \* the calls under way: their ids and kinds
          pool,      \* the batch runs in the thread pool
          next,      \* the next call to dispatch or to consume
          results,   \* results[i]: what the pool has for call i
          stopped,   \* batch_cancellation.cancelled
          error,     \* history: the loop raised ProviderToolProtocolError
          ran,       \* history: the ids of the tools that ran in this turn
          unclear,   \* history: mutations of this turn with an unknown outcome
          broken     \* history: why the history may miss results

vars == <<turn, pc, loop, history, final, batch, pool, next, results, stopped, error, ran,
          unclear, broken>>

User == [role |-> "user", calls |-> <<>>, id |-> NoId, prunable |-> FALSE]
Assistant(ids) == [role |-> "assistant", calls |-> ids, id |-> NoId, prunable |-> FALSE]
Result(call) == [role |-> "tool", calls |-> <<>>, id |-> call.id, prunable |-> call.kind = "read"]

-----------------------------------------------------------------------------
(* context_budget.py *)

\* The assistant message whose call the result at i answers.
Owner(h, i) ==
    CHOOSE j \in 1..(i - 1) :
        /\ h[i].id \in ToSet(h[j].calls)
        /\ \A k \in (j + 1)..(i - 1) : h[i].id \notin ToSet(h[k].calls)

HasOwner(h, i) == \E j \in 1..(i - 1) : h[i].id \in ToSet(h[j].calls)

\* The k-th of a set of positions, and the elements at them in their order.
Nth(S, k) == CHOOSE i \in S : Cardinality({j \in S : j <= i}) = k
Kept(s, S) == [k \in 1..Cardinality(S) |-> s[Nth(S, k)]]

\* prune_stale_tool_messages(): old read-only results go, with their calls.
Gone(h) == {i \in 1..(Len(h) - PruneKeep) : h[i].role = "tool" /\ h[i].prunable}

Stripped(h, j) == {h[i].id : i \in {k \in Gone(h) : HasOwner(h, k) /\ Owner(h, k) = j}}

Prune(h) ==
    LET StillCalled(i) == {c \in DOMAIN h[i].calls : h[i].calls[c] \notin Stripped(h, i)}
    IN  IF Len(h) <= PruneAfter \/ PruneKeep >= Len(h) THEN h
        ELSE Kept([i \in DOMAIN h |-> [h[i] EXCEPT !.calls = Kept(@, StillCalled(i))]],
                  DOMAIN h \ Gone(h))

\* Seeded fault: the kept part may begin with a result.
CompactAnywhere(h) ==
    IF Len(h) <= CompactKeep THEN h ELSE SubSeq(h, Len(h) - CompactKeep + 1, Len(h))

\* _split_for_compaction(): the kept part does not begin with a result.
Compact(h) ==
    IF Len(h) <= CompactKeep THEN h
    ELSE LET from == Len(h) - CompactKeep + 1
             start == CHOOSE s \in 1..from :
                          /\ s = 1 \/ h[s].role # "tool"
                          /\ \A t \in (s + 1)..from : h[t].role = "tool"
         IN  SubSeq(h, start, Len(h))

-----------------------------------------------------------------------------

Init ==
    /\ turn = 0 /\ pc = "idle" /\ loop = NewLoop(0) /\ history = <<>>
    /\ final = FALSE /\ batch = <<>> /\ pool = FALSE /\ next = 1 /\ results = <<>>
    /\ stopped = FALSE /\ error = FALSE /\ ran = <<>> /\ unclear = {} /\ broken = "no"

\* A method of the loop state: it changes the loop, or it raises.
Protocol(may, l) ==
    /\ loop' = IF may THEN l ELSE loop
    /\ error' = (error \/ ~may)

\* The turn is over; batch variables return to their initial values.
EndTurn ==
    /\ pc' = "idle"
    /\ batch' = <<>> /\ pool' = FALSE /\ next' = 1 /\ results' = <<>> /\ stopped' = FALSE
    /\ final' = FALSE

StartTurn ==
    /\ pc = "idle" /\ turn < MaxTurns
    /\ turn' = turn + 1
    /\ loop' = NewLoop(turn')
    /\ history' = Append(history, User)
    /\ ran' = <<>> /\ unclear' = {}
    /\ pc' = "head"
    /\ UNCHANGED <<final, batch, pool, next, results, stopped, error, broken>>

\* The history as the head of the loop leaves it: an internal prompt for a
\* finalization round, pruning, and compaction when the context is tight.
Prepared(fin, tight) ==
    LET pruned == Prune(IF fin THEN Append(history, User) ELSE history) IN
    IF tight THEN Compact(pruned) ELSE pruned

Request(fin, tight) ==
    /\ pc = "head" /\ turn + loop.round <= MaxRounds
    /\ history' = Prepared(fin, tight)
    /\ final' = fin
    /\ Protocol(MayBegin(loop, loop.round + 1), Begin(loop, loop.round + 1))
    /\ pc' = "stream"
    /\ UNCHANGED <<turn, batch, pool, next, results, stopped, ran, unclear, broken>>

\* A budget ends the turn before a request.
Stop ==
    /\ pc = "head"
    /\ EndTurn
    /\ UNCHANGED <<turn, loop, history, error, ran, unclear, broken>>

\* The system prompt cannot be built, before or after compaction.
ContextFails(fin, tight) ==
    /\ pc = "head"
    /\ history' = Prepared(fin, tight)
    /\ EndTurn
    /\ UNCHANGED <<turn, loop, error, ran, unclear, broken>>

\* The stream fails: partial text is kept, calls of a failed stream are not.
StreamFails(partial, phase) ==
    /\ pc = "stream"
    /\ loop' = Interrupted(loop, phase)
    /\ history' = IF partial THEN Append(history, Assistant(<<>>)) ELSE history
    /\ EndTurn
    /\ UNCHANGED <<turn, error, ran, unclear, broken>>

\* Ctrl-C during the stream.
StreamInterrupted(partial) ==
    /\ pc = "stream"
    /\ history' = IF partial THEN Append(history, Assistant(<<>>)) ELSE history
    /\ EndTurn
    /\ UNCHANGED <<turn, loop, error, ran, unclear, broken>>

\* The model answers without a tool call (or with the declared final-answer
\* call); a withheld answer is followed by an internal prompt.
Answer(nudge) ==
    LET l == Complete(loop, <<>>) IN
    /\ pc = "stream"
    /\ Protocol(MayComplete(loop) /\ MayFinishWithoutTools(l), Ready(l))
    /\ history' = Append(history, Assistant(<<>>)) \o (IF nudge THEN <<User>> ELSE <<>>)
    /\ IF nudge THEN pc' = "head" /\ UNCHANGED <<final, batch, pool, next, results, stopped>>
       ELSE EndTurn
    /\ UNCHANGED <<turn, ran, unclear, broken>>

Ids(calls) == [i \in DOMAIN calls |-> calls[i].id]

\* A finalization round that asks for tools is cancelled; its message stays.
FinalizationRefused(calls) ==
    LET l == Complete(loop, Ids(calls)) IN
    /\ pc = "stream" /\ final
    /\ Protocol(MayComplete(loop), Cancelled(l))
    /\ history' = Append(history, Assistant(l.expected))
    /\ broken' = IF broken = "no" THEN "finalization" ELSE broken
    /\ EndTurn
    /\ UNCHANGED <<turn, ran, unclear>>

\* No ceiling code, and _parallel_dispatch_allowed() (which also compares the
\* calls' arguments, not modelled).
PoolAllowed(l, calls) ==
    ~l.violated /\ Len(calls) > 1 /\ \A i \in DOMAIN calls : calls[i].kind = "read"

ToolCalls(calls, parallel) ==
    LET l == Complete(loop, Ids(calls)) IN
    /\ pc = "stream" /\ ~final
    /\ parallel => PoolAllowed(l, calls)
    /\ Protocol(MayComplete(loop) /\ MayBeginBatch(l), BeginBatch(l))
    /\ history' = Append(history, Assistant(l.expected))
    /\ batch' = [i \in DOMAIN calls |-> [id |-> l.expected[i], kind |-> calls[i].kind]]
    /\ pool' = parallel
    /\ next' = 1 /\ results' = [i \in DOMAIN calls |-> "none"] /\ stopped' = FALSE
    /\ pc' = "batch"
    /\ UNCHANGED <<turn, final, ran, unclear, broken>>

-----------------------------------------------------------------------------
(* Tool batches *)

More == next <= Len(batch)

\* record_protocol_dispatch(), before the call is dispatched or submitted.
Dispatch ==
    LET c == batch[next] IN
    /\ pc = "batch" /\ More
    /\ Protocol(MayDispatch(loop, c.id), RecordDispatch(loop, c.id, c.kind = "write"))
    /\ IF pool THEN /\ results' = [results EXCEPT ![next] = "queued"]
                    /\ next' = next + 1
                    /\ UNCHANGED pc
               ELSE pc' = "tool" /\ UNCHANGED <<results, next>>
    /\ UNCHANGED <<turn, history, final, batch, pool, stopped, ran, unclear, broken>>

\* consume_dispatch() / consume_unfinished()
Consume(c, unknown) ==
    /\ history' = Append(history, Result(c))
    /\ Protocol(MayResult(loop, c.id), RecordResult(loop, c.id, unknown))

\* dispatch_action() returned.  It does not run the tool when the ids of the
\* batch were in doubt, after an interrupt of the batch, or on a denial; an
\* interrupt that it catches itself stops the batch.
ToolReturns(runs, unknown, caught) ==
    LET c == batch[next] IN
    /\ pc = "tool"
    /\ runs => ~loop.violated /\ ~stopped
    /\ unknown => runs /\ c.kind = "write"
    /\ ran' = IF runs THEN Append(ran, c.id) ELSE ran
    /\ unclear' = IF unknown THEN unclear \cup {c.id} ELSE unclear
    /\ stopped' = (stopped \/ caught)
    /\ Consume(c, unknown)
    /\ next' = next + 1
    /\ pc' = "batch"
    /\ UNCHANGED <<turn, final, batch, pool, results, broken>>

\* A thread of the pool finishes a call.
PoolRuns(i, runs) ==
    /\ pc = "batch" /\ pool
    /\ i \in DOMAIN results /\ results[i] = "queued"
    /\ results' = [results EXCEPT ![i] = "done"]
    /\ ran' = IF runs THEN Append(ran, batch[i].id) ELSE ran
    /\ UNCHANGED <<turn, pc, loop, history, final, batch, pool, next, stopped, error, unclear, broken>>

\* as_completed() is exhausted, or Ctrl-C: _drain_interrupted_batch() takes
\* what is finished and gives up the rest.
Collect(interrupted) ==
    /\ pc = "batch" /\ pool /\ ~More
    /\ interrupted \/ \A i \in DOMAIN results : results[i] = "done"
    /\ stopped' = interrupted
    /\ next' = 1
    /\ pc' = "consume"
    /\ UNCHANGED <<turn, loop, history, final, batch, pool, results, error, ran, unclear, broken>>

\* Seeded fault: a call the pool gave up gets no result.
ConsumePooledDone ==
    /\ pc = "consume" /\ More
    /\ next' = next + 1
    /\ IF results[next] = "done" THEN Consume(batch[next], FALSE) ELSE UNCHANGED <<history, loop, error>>
    /\ UNCHANGED <<turn, pc, final, batch, pool, results, stopped, ran, unclear, broken>>

\* In the order of the batch, finished or not.
ConsumePooled ==
    /\ pc = "consume" /\ More
    /\ results[next] = "done" \/ stopped
    /\ next' = next + 1
    /\ Consume(batch[next], FALSE)
    /\ UNCHANGED <<turn, pc, final, batch, pool, results, stopped, ran, unclear, broken>>

\* finish_tool_batch(); an interrupted batch ends the turn, and so may the
\* lack of progress.  A recovery boundary and a reflection note may follow.
EndBatch(on, prompts) ==
    /\ ~More /\ (pc = "consume" \/ (pc = "batch" /\ ~pool))
    /\ stopped => ~on
    /\ prompts > 0 => on
    /\ Protocol(MayFinishBatch(loop), IF stopped THEN Cancelled(Ready(loop)) ELSE Ready(loop))
    /\ history' = history \o [i \in 1..prompts |-> User]
    /\ IF on THEN /\ pc' = "head"
                  /\ batch' = <<>> /\ pool' = FALSE /\ next' = 1 /\ results' = <<>>
                  /\ UNCHANGED <<final, stopped>>
       ELSE EndTurn
    /\ UNCHANGED <<turn, ran, unclear, broken>>

\* Ctrl-C between the dispatches, while one waits for a lease or writes a
\* receipt, or while the pool is filled: nothing catches it inside the batch.
Escapes ==
    /\ pc \in {"batch", "tool", "consume"}
    /\ pc = "batch" /\ pool => More
    /\ broken' = IF broken = "no" THEN "interrupt" ELSE broken
    /\ EndTurn
    /\ UNCHANGED <<turn, loop, history, error, ran, unclear>>

-----------------------------------------------------------------------------

Calls == UNION {[1..n -> [id : ProviderIds \cup {NoId}, kind : {"read", "write"}]] : n \in 1..MaxCalls}

Next ==
    \/ StartTurn
    \/ \E fin, tight \in BOOLEAN : Request(fin, tight)
    \/ Stop
    \/ \E fin, tight \in BOOLEAN : ContextFails(fin, tight)
    \/ \E partial \in BOOLEAN : StreamFails(partial, "interrupted") \/ StreamFails(partial, "timed_out")
    \/ \E partial \in BOOLEAN : StreamInterrupted(partial)
    \/ \E nudge \in BOOLEAN : Answer(nudge)
    \/ \E calls \in Calls : FinalizationRefused(calls)
    \/ \E calls \in Calls, parallel \in BOOLEAN : ToolCalls(calls, parallel)
    \/ Dispatch
    \/ \E runs, unknown, caught \in BOOLEAN : ToolReturns(runs, unknown, caught)
    \/ \E i \in 1..MaxCalls, runs \in BOOLEAN : PoolRuns(i, runs)
    \/ \E interrupted \in BOOLEAN : Collect(interrupted)
    \/ ConsumePooled
    \/ \E on \in BOOLEAN, prompts \in 0..MaxPrompts : EndBatch(on, prompts)
    \/ Escapes

Spec == Init /\ [][Next]_vars

-----------------------------------------------------------------------------
(* Properties *)

\* Type invariant.
TypeOK ==
    /\ turn \in 0..MaxTurns
    /\ pc \in {"idle", "head", "stream", "batch", "tool", "consume"}
    /\ loop.phase \in {"ready", "model_inflight", "model_complete", "tools_inflight"} \cup Terminal
    /\ loop.dispatched \subseteq ToSet(loop.expected) /\ loop.completed \subseteq loop.dispatched
    /\ loop.mutations \subseteq loop.dispatched /\ loop.uncertain \subseteq loop.seen
    /\ \A i \in DOMAIN history : history[i].role \in {"user", "assistant", "tool"}
    /\ next \in 1..(Len(batch) + 1)
    /\ DOMAIN results \subseteq DOMAIN batch

\* The loop state is well formed, and
\* every order of dispatches, results, interrupts and abandoned observations
\* that the turn produces is one the loop state accepts: it never raises
\* ProviderToolProtocolError on our own account.
ProtocolRespected == TypeOK /\ ~error

\* Each assistant message is followed at once by one result for each of its
\* calls, in order, and every result follows its call.
Balanced(h) ==
    /\ \A i \in DOMAIN h : \A k \in DOMAIN h[i].calls :
           i + k \in DOMAIN h /\ h[i + k].role = "tool" /\ h[i + k].id = h[i].calls[k]
    /\ \A i \in DOMAIN h : h[i].role = "tool" =>
           \E j \in 1..(i - 1) : i - j \in DOMAIN h[j].calls

\* What is sent to the provider is balanced, through pruning, compaction,
\* parallel batches, caught interrupts and earlier turns, unless an interrupt
\* escaped from a batch or a finalization round asked for tools.
BalancedRequest == pc = "stream" /\ broken = "no" => Balanced(history)

\* No call id runs twice in a turn, however often a provider repeats it, and a
\* batch with a repeated id runs nothing (the whole batch is quarantined).
RunOnce ==
    /\ IsInjective(ran)
    /\ loop.violated /\ pc \in {"batch", "tool", "consume"} =>
           ToSet(ran) \cap ToSet(loop.expected) = {}

\* No mutation with an unknown outcome is forgotten before the turn ends: the
\* loop state refuses a fallback to another provider from then on.
UncertaintyKept ==
    /\ unclear \subseteq loop.uncertain
    /\ unclear # {} => ~FallbackSafe(loop)

=============================================================================
