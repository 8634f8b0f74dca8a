------------------------------ MODULE TurnLoop -------------------------------
(***************************************************************************)
(* When a turn goes on, stops, and counts as completed: the budgets and    *)
(* the completion gate of algo_cli/main.py (_agent_loop_body), over the    *)
(* evidence of algo_cli/execution_guardrails.py.                           *)
(*                                                                         *)
(* A turn opens an evidence scope, then alternates model rounds and tool   *)
(* batches.  Text without a tool call ends the turn only if every recorded *)
(* workspace mutation is followed by a passing verifier; otherwise the     *)
(* model is told to verify, for a limited number of rounds.  How messages  *)
(* and calls are paired is module Transcript's, what an action does is     *)
(* EffectDispatch's; here a batch is its progress and its evidence.        *)
(***************************************************************************)
EXTENDS Naturals, Sequences

CONSTANTS Modes,           \* whether a turn may be without limits (YOLO): {FALSE}, BOOLEAN
          MaxIterations,   \* work_iteration_limit()
          RecoveryLimit,   \* MAX_COMPLETION_RECOVERY_ROUNDS
          Keys,            \* signatures of actions
          MaxEvents        \* bound on the evidence of one batch

ASSUME LimitsAssumption == /\ Modes \subseteq BOOLEAN
                           /\ MaxIterations \in Nat \ {0}
                           /\ {RecoveryLimit, MaxEvents} \subseteq Nat

VARIABLES pc,          \* where the turn is
          unlimited,   \* the turn has no work and no recovery limit
          round,       \* the loop variable; stays 0 without a limit
          final,       \* finalization_turn
          nudged,      \* completion_nudged
          recoveries,  \* completion_recovery_rounds; stays 0 without a limit
          idle,        \* no_progress_tool_rounds
          blocked,     \* blocked_action_counts
          pending,     \* the kinds of recorded mutations since the last verifier
          completed,   \* turn_completed_normally
          said,        \* what the last assistant text ends with
          exit,        \* how the turn ended
          fresh,       \* history: that text is from this turn
          unverified,  \* history: the mutations no verifier has covered yet
          batches,     \* history: tool batches of this turn, in a limited turn
          after,       \* history: model rounds since the nudge, in a limited turn
          denials      \* history: how often each action was blocked in this turn

budget  == <<unlimited, round, final, nudged, recoveries, idle, blocked>>
ended   == <<completed, exit>>
ghosts  == <<unverified, batches, after, denials>>
turnVars == <<pc, budget, pending, said, fresh, ended, ghosts>>

StallLimit == 3

Mutations == {"file", "shell"}     \* an edit of known paths, a mutating shell command
Markers   == {"none", "plain", "complete", "blocked"}   \* none: no text at all

Counted(n) == IF unlimited THEN 0 ELSE n

\* History counters stop just above the value a property compares them with.
Tally(n, limit) == IF n > limit THEN n ELSE n + 1

Init ==
    /\ pc = "idle" /\ unlimited = FALSE
    /\ round = 0 /\ final = FALSE /\ nudged = FALSE /\ recoveries = 0 /\ idle = 0
    /\ blocked = [k \in Keys |-> 0] /\ pending = {}
    /\ completed = FALSE /\ said = "none" /\ exit = "none"
    /\ fresh = FALSE /\ unverified = {} /\ batches = 0 /\ after = 0 /\ denials = [k \in Keys |-> 0]

\* A fresh turn, in the mode the user has chosen; begin_execution_scope() may
\* refuse it.
StartTurn(ok) ==
    /\ pc = "idle"
    /\ unlimited' \in Modes
    /\ pc' = IF ok THEN "head" ELSE "done"
    /\ exit' = IF ok THEN "none" ELSE "returned"
    /\ round' = 0 /\ final' = FALSE /\ nudged' = FALSE /\ recoveries' = 0
    /\ idle' = 0 /\ blocked' = [k \in Keys |-> 0] /\ pending' = {} /\ completed' = FALSE
    /\ fresh' = FALSE /\ unverified' = {} /\ batches' = 0 /\ after' = 0 /\ denials' = [k \in Keys |-> 0]
    /\ UNCHANGED said

Done(how) == pc' = "done" /\ exit' = how

\* Seeded fault: rounds are not counted.
NextRoundStill ==
    /\ pc' = "head"
    /\ UNCHANGED <<round, completed, exit>>

NextRound ==
    /\ pc' = "head"
    /\ round' = Counted(round + 1)
    /\ UNCHANGED ended

\* The assistant message, if it has any text.
Hears(text) ==
    /\ said' = IF text = "none" THEN said ELSE text
    /\ fresh' = (fresh \/ text # "none")

-----------------------------------------------------------------------------
(* The head of a round *)

\* completion_decision(): no mutation is newer than the last verifier.
Allowed == pending = {}

OutOfRecovery == nudged /\ ~unlimited /\ recoveries >= RecoveryLimit

OutOfWork == ~unlimited /\ round = MaxIterations

\* Seeded fault: a clean diff is taken to cover shell commands as well.
AutoVerifiesAll(clean) == Allowed \/ clean

\* auto_verify_working_tree(): a clean diff covers edits of tracked paths, and
\* nothing else.
AutoVerifies(clean) == Allowed \/ (clean /\ "shell" \notin pending)

\* The evidence after auto_verify_working_tree() has run.
AutoVerified(clean) ==
    /\ pending' = IF AutoVerifies(clean) THEN {} ELSE pending
    /\ unverified' = IF AutoVerifies(clean) /\ ~Allowed THEN unverified \ {"file"}
                     ELSE unverified

\* A round out of its recovery budget tries the structural verifier first.
TriesVerifier == OutOfRecovery /\ ~OutOfWork

MayFinalize(clean) ==
    /\ idle = 0
    /\ IF TriesVerifier THEN AutoVerifies(clean) ELSE Allowed

EvidenceAtHead(clean) ==
    IF TriesVerifier THEN AutoVerified(clean) ELSE UNCHANGED <<pending, unverified>>

\* Out of budget, with a verifier missing or with every action blocked.
BudgetEnds(clean) ==
    /\ pc = "head" /\ (OutOfRecovery \/ OutOfWork)
    /\ ~MayFinalize(clean)
    /\ EvidenceAtHead(clean)
    /\ Done("returned")
    /\ UNCHANGED <<budget, completed, said, fresh, batches, after, denials>>

Request(clean) ==
    /\ pc = "head"
    /\ OutOfRecovery \/ OutOfWork => MayFinalize(clean)
    /\ EvidenceAtHead(clean)
    /\ final' = (OutOfRecovery \/ OutOfWork)
    /\ recoveries' = Counted(IF nudged /\ ~final' THEN recoveries + 1 ELSE recoveries)
    /\ after' = Counted(IF nudged THEN Tally(after, RecoveryLimit + 1) ELSE 0)
    /\ pc' = "reply"
    /\ UNCHANGED <<unlimited, round, nudged, idle, blocked, completed, said, fresh, exit,
                   batches, denials>>

-----------------------------------------------------------------------------
(* The reply *)

\* The stream fails: it raises if nothing was received; otherwise it returns,
\* and partial text is kept unless the retries were exhausted.
StreamFails(text, how) ==
    /\ pc = "reply"
    /\ how = "raised" => text = "none"
    /\ Hears(text)
    /\ Done(how)
    /\ UNCHANGED <<budget, pending, completed, ghosts>>

\* A reply without tool calls to an unfinished gate: prompt for verification
\* once, then verify structurally or go on within both budgets.
Withheld(clean) ==
    IF ~nudged
    THEN /\ UNCHANGED <<pending, unverified, recoveries>>
         /\ IF ~unlimited /\ round + 1 >= MaxIterations
            THEN Done("returned") /\ UNCHANGED <<completed, nudged, round>>
            ELSE nudged' = TRUE /\ NextRound
    ELSE /\ AutoVerified(clean)
         /\ UNCHANGED <<nudged, recoveries>>
         /\ IF AutoVerifies(clean)
            THEN completed' = TRUE /\ Done("returned") /\ UNCHANGED round
            ELSE IF unlimited \/ (round + 1 < MaxIterations /\ recoveries < RecoveryLimit)
                 THEN NextRound
                 ELSE Done("returned") /\ UNCHANGED <<completed, round>>

Answer(text, clean) ==
    /\ pc = "reply"
    /\ Hears(text)
    /\ IF text = "none" \/ Allowed
       THEN /\ completed' = (text # "none")
            /\ Done("returned")
            /\ UNCHANGED <<round, nudged, recoveries, pending, unverified>>
       ELSE Withheld(clean)
    /\ UNCHANGED <<unlimited, final, idle, blocked, batches, after, denials>>

\* A finalization round that asks for tools.
FinalizationRefused(text) ==
    /\ pc = "reply" /\ final
    /\ Hears(text)
    /\ Done("returned")
    /\ UNCHANGED <<budget, pending, completed, ghosts>>

\* Seeded fault: a finalization round may use tools.
ToolCallsAlways(text) ==
    /\ pc = "reply"
    /\ Hears(text)
    /\ batches' = Counted(Tally(batches, MaxIterations))
    /\ pc' = "tools"
    /\ UNCHANGED <<budget, pending, ended, unverified, after, denials>>

ToolCalls(text) ==
    /\ pc = "reply" /\ ~final
    /\ Hears(text)
    /\ batches' = Counted(Tally(batches, MaxIterations))
    /\ pc' = "tools"
    /\ UNCHANGED <<budget, pending, ended, unverified, after, denials>>

-----------------------------------------------------------------------------
(* The tool batch *)

\* Mutations and passing verifiers of a batch, in the order of their recording: a
\* verifier covers what was recorded before it.
Evidence(old, events) ==
    LET Uncovered(i) == \A j \in DOMAIN events : j > i => events[j] # "verify"
    IN  {events[i] : i \in {i \in DOMAIN events : events[i] # "verify" /\ Uncovered(i)}}
        \cup {m \in old : Uncovered(0)}

\* Seeded fault: progress of any action excuses the blocked ones.
RepeatedUnlessProgress(executed, refused) ==
    [k \in Keys |-> IF executed THEN 0 ELSE IF k \in refused THEN blocked[k] + 1 ELSE blocked[k]]

\* blocked_action_counts: progress is counted per action.
Repeated(executed, refused) ==
    [k \in Keys |-> IF k \in refused THEN blocked[k] + 1 ELSE blocked[k]]

\* The batch is over: `executed` tells whether any action ran, `refused` the
\* actions that were denied or skipped, `events` the evidence.
Batch(executed, refused, events) ==
    /\ pc = "tools"
    /\ events # <<>> => executed
    /\ pending' = Evidence(pending, events)
    /\ unverified' = Evidence(unverified, events)
    /\ idle' = IF executed THEN 0 ELSE idle + 1
    /\ blocked' = Repeated(executed, refused)
    /\ denials' = [k \in Keys |-> IF k \in refused THEN denials[k] + 1 ELSE denials[k]]
    /\ IF idle' >= StallLimit \/ \E k \in refused : blocked'[k] >= StallLimit
       THEN Done("returned") /\ UNCHANGED <<round, completed>>
       ELSE NextRound
    /\ UNCHANGED <<unlimited, final, nudged, recoveries, said, fresh, batches, after>>

\* Ctrl-C, anywhere; the text of an interrupted stream is kept and marked.
Interrupt(text) ==
    /\ pc \in {"head", "reply", "tools"}
    /\ IF pc = "reply" THEN Hears(text) ELSE UNCHANGED <<said, fresh>>
    /\ Done("interrupted")
    /\ UNCHANGED <<budget, pending, completed, ghosts>>

\* The system prompt cannot be built (returned if protected memory is needed).
ContextFails(how) ==
    /\ pc = "head"
    /\ Done(how)
    /\ UNCHANGED <<budget, pending, completed, said, fresh, ghosts>>

\* end_execution_scope() fails: the turn does not count as completed.
ScopeFails ==
    /\ pc = "done" /\ completed
    /\ completed' = FALSE
    /\ UNCHANGED <<pc, budget, pending, said, fresh, exit, ghosts>>

EndTurn ==
    /\ pc = "done"
    /\ pc' = "idle"
    /\ UNCHANGED <<budget, pending, ended, said, fresh, ghosts>>

Events == UNION {[1..n -> Mutations \cup {"verify"}] : n \in 0..MaxEvents}

Step ==
    \/ \E clean \in BOOLEAN : BudgetEnds(clean)
    \/ \E clean \in BOOLEAN : Request(clean)
    \/ \E text \in Markers, how \in {"returned", "raised"} : StreamFails(text, how)
    \/ \E text \in Markers, clean \in BOOLEAN : Answer(text, clean)
    \/ \E text \in Markers : FinalizationRefused(text)
    \/ \E text \in Markers : ToolCalls(text)
    \/ \E executed \in BOOLEAN, refused \in SUBSET Keys, events \in Events :
           Batch(executed, refused, events)
    \/ \E text \in Markers : Interrupt(text)
    \/ \E how \in {"returned", "raised"} : ContextFails(how)

Next ==
    \/ \E ok \in BOOLEAN : StartTurn(ok)
    \/ Step
    \/ ScopeFails
    \/ EndTurn

\* The model or its transport answers and tools return; nobody has to type.
Fairness == WF_turnVars(Step)

Spec == Init /\ [][Next]_turnVars /\ Fairness

-----------------------------------------------------------------------------
(* Properties *)

\* Type invariant.
TypeOK ==
    /\ pc \in {"idle", "head", "reply", "tools", "done"}
    /\ unlimited \in BOOLEAN
    /\ round \in 0..MaxIterations
    /\ final \in BOOLEAN /\ nudged \in BOOLEAN /\ completed \in BOOLEAN
    /\ recoveries \in 0..RecoveryLimit
    /\ idle \in 0..StallLimit
    /\ blocked \in [Keys -> 0..StallLimit]
    /\ pending \subseteq Mutations /\ unverified \subseteq Mutations
    /\ said \in Markers
    /\ exit \in {"none", "returned", "raised", "interrupted"}

\* A turn that counts as completed (whose run is recorded, whose memory is
\* captured) has no recorded mutation that a verifier able to see it has not
\* covered, however nudges, recovery rounds, automatic checks and further
\* mutations were ordered.
CompletionVerified == completed => unverified = {}

\* The ceilings of a turn are strict, whatever the model does in between: at most
\* MaxIterations rounds use tools, and the one extra round that finalization is
\* granted does not; after the first withheld answer there are at most
\* RecoveryLimit rounds and one finalization round.
CeilingStrict == batches <= MaxIterations /\ after <= RecoveryLimit + 1

\* No action is refused more often than the stall limit in one turn, also when
\* other actions of its batches make progress.
NoHammering == \A k \in Keys : denials[k] <= StallLimit

\* Every turn with a budget comes to an end.
TurnEnds == pc = "head" /\ ~unlimited ~> pc = "done"
=============================================================================
