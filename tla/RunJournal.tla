----------------------------- MODULE RunJournal ------------------------------
(***************************************************************************)
(* The journal of an Agent run (algo_cli/agent_run_journal.py): which      *)
(* event may follow which, and what a later process concludes from them.   *)
(*                                                                         *)
(* The journal is read twice, by two functions that do not share code.     *)
(* _validate_event_sequence() accepts or rejects an event; resume_state()  *)
(* computes from where, and whether, a run may be resumed.  Both are folds *)
(* over the events, so the journal is kept as the two folds: a grammar     *)
(* state and a reader state.  For every event that the grammar looks at    *)
(* there is a predicate May... and the state after it; the two events that *)
(* move the boundary have an operator for the reader as well.              *)
(*                                                                         *)
(* The end of a block is named by the block's ordinal and the session it   *)
(* ran in, which identifies its event as the sequence number does.  The    *)
(* hash chain, the payloads and the digests are not modelled.              *)
(***************************************************************************)
EXTENDS Integers, SequencesExt, FiniteSets

CONSTANTS Blocks,     \* how many blocks the contract has
          Changing    \* the ordinals of the blocks with requires_change

ASSUME ContractAssumption == Blocks \in Nat \ {0} /\ Changing \subseteq 0..(Blocks - 1)

None == -1

Verifiers == {"output", "change"}     \* block_output or final_output; post_mutation

\* A model round is <<ordinal, round, attempt>>.
NoRound == <<>>

NoBatch == [at |-> NoRound, expected |-> 0, intents |-> 0, results |-> {}]

NotVerified == [v \in Verifiers |-> None]

\* The local variables of _validate_event_sequence() after run_started.
\* verified[v] is the workspace in which verifier v passed.
NewGrammar ==
    [session |-> 0, active |-> None, round |-> NoRound, batch |-> NoBatch,
     verified |-> NotVerified, mutating |-> {}, completed |-> <<>>, next |-> 0,
     gap |-> FALSE, recovering |-> FALSE, terminal |-> FALSE]

\* Before run_started there is no journal.
NoJournal == [NewGrammar EXCEPT !.session = None]

\* The local variables of resume_state().
NewReader == [completed |-> <<>>, gap |-> FALSE, mutating |-> {}, status |-> "open"]

Exists(g) == g.session # None

\* last_verified_sequence and last_workspace; the workspace at the start is 0.
LastVerified(completed) == IF completed = <<>> THEN <<>> ELSE Last(completed).at
LastWorkspace(completed) == IF completed = <<>> THEN 0 ELSE Last(completed).ws

\* uncertain_mutation_steps.  A mutating intent without a result counts too; its
\* ordinal is among these, since only a verified block takes its ordinal out and
\* no block ends with an intent unanswered.
Uncertain(r) == r.mutating # {}

CanResume(r) == r.status = "open" /\ ~Uncertain(r)

-----------------------------------------------------------------------------
(* The grammar *)

Open(g) == Exists(g) /\ ~g.terminal

\* batch_is_closed(), recorded_intents_are_closed()
BatchClosed(g) == g.batch.intents = g.batch.expected /\ Cardinality(g.batch.results) = g.batch.expected
IntentsClosed(g) == Cardinality(g.batch.results) = g.batch.intents

Settled(g) == g.round = NoRound /\ BatchClosed(g)

\* What block_started, run_resumed and block_finished reset.
Cleared(g) ==
    [g EXCEPT !.round = NoRound, !.batch = NoBatch, !.verified = NotVerified, !.recovering = FALSE]

MayResume(g, next, last) ==
    /\ Open(g)
    /\ next = Len(g.completed) /\ last = LastVerified(g.completed)
    /\ g.round = NoRound /\ IntentsClosed(g) /\ g.mutating = {}

\* run_resumed
Resumed(g) ==
    [Cleared(g) EXCEPT !.session = @ + 1, !.active = None, !.gap = FALSE, !.next = Len(g.completed)]

\* context_bound
MayBindContext(g) == Open(g) /\ g.active = None

MayStartBlock(g, o) == Open(g) /\ g.active = None /\ o = g.next

BlockStarted(g, o) == [Cleared(g) EXCEPT !.active = o]

MayStartRound(g, at) ==
    /\ Open(g) /\ g.active = at[1] /\ Settled(g)
    /\ (at[3] > 0) = g.recovering

RoundStarted(g, at) == [g EXCEPT !.round = at, !.batch = NoBatch]

MayCompleteRound(g, at) == Open(g) /\ g.round = at

RoundCompleted(g, at, calls) ==
    [g EXCEPT !.round = NoRound,
              !.batch = IF calls = 0 THEN NoBatch
                        ELSE [at |-> at, expected |-> calls, intents |-> 0, results |-> {}]]

MayIntend(g, at, index) ==
    /\ Open(g) /\ g.batch # NoBatch /\ g.batch.at = at
    /\ g.batch.results = {} /\ g.batch.intents < g.batch.expected /\ index = g.batch.intents

\* tool_intent
Intended(g, mutating) ==
    [g EXCEPT !.batch.intents = @ + 1,
              !.mutating = IF mutating THEN @ \cup {g.batch.at[1]} ELSE @]

MayResult(g, index) == Open(g) /\ index \in 0..(g.batch.intents - 1) \ g.batch.results

\* tool_result
ResultRecorded(g, index) ==
    LET after == [g EXCEPT !.batch.results = @ \cup {index}]
    IN  IF BatchClosed(after) THEN [after EXCEPT !.batch = NoBatch] ELSE after

MayStartRecovery(g, o) == Open(g) /\ g.active = o /\ ~g.recovering /\ Settled(g)

RecoveryStarted(g) == [g EXCEPT !.recovering = TRUE]

MayFinishRecovery(g, o) == Open(g) /\ g.active = o /\ g.recovering /\ Settled(g)

RecoveryFinished(g) == [g EXCEPT !.recovering = FALSE]

MayVerify(g, o) == Open(g) /\ g.active = o /\ g.round = NoRound /\ IntentsClosed(g)

\* verifier_result: the newest result of each verifier counts.
VerifierRecorded(g, v, passed, ws) == [g EXCEPT !.verified[v] = IF passed THEN ws ELSE None]

Required(o) == {"output"} \cup (IF o \in Changing THEN {"change"} ELSE {})

MayFinishBlock(g, o, complete, ws) ==
    /\ Open(g) /\ g.active = o /\ g.round = NoRound /\ IntentsClosed(g) /\ ~g.recovering
    /\ complete => BatchClosed(g) /\ \A v \in Required(o) : g.verified[v] = ws

Boundary(g, o, ws) == [at |-> <<o, g.session>>, ws |-> ws]

\* block_finished: only a verified block right behind the boundary moves it; any
\* other leaves a gap.
BlockFinished(g, o, complete, ws) ==
    LET moves == complete /\ ~g.gap /\ o = Len(g.completed)
    IN  [Cleared(g) EXCEPT
            !.active = None, !.next = o + 1, !.gap = ~moves,
            !.completed = IF moves THEN Append(@, Boundary(g, o, ws)) ELSE @,
            !.mutating = IF moves THEN @ \ {o} ELSE @]

MayFinishRun(g, last) ==
    /\ Open(g) /\ g.active = None /\ g.round = NoRound /\ g.batch = NoBatch
    /\ last = LastVerified(g.completed)

RunFinished(g) == [g EXCEPT !.terminal = TRUE]

-----------------------------------------------------------------------------
(* The reader *)

IntentRead(r, o, mutating) == [r EXCEPT !.mutating = IF mutating THEN @ \cup {o} ELSE @]

\* resume_state() on block_finished.  run_resumed is no event to it: a gap stays.
BlockRead(r, session, o, complete, ws) ==
    LET moves == complete /\ ~r.gap /\ o = Len(r.completed)
        skips == IF complete THEN ~moves ELSE o = Len(r.completed)
    IN  [r EXCEPT !.gap = @ \/ skips,
                  !.completed = IF moves THEN Append(@, [at |-> <<o, session>>, ws |-> ws]) ELSE @,
                  !.mutating = IF moves THEN @ \ {o} ELSE @]

RunRead(r, status) == [r EXCEPT !.status = status]

\* _hydrate_verified_blocks(): the thread must hold every verified block, with the
\* content the journal vouches for.
Hydrates(blocks, completed) ==
    /\ Len(blocks) >= Len(completed)
    /\ \A k \in 1..Len(completed) : blocks[k] = [at |-> completed[k].at, status |-> "complete"]
=============================================================================
