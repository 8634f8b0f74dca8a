---------------------------- MODULE AgentPipeline ----------------------------
(***************************************************************************)
(* An Agent run: the blocks of a contract, executed one after the other by *)
(* run_agent_pipeline() of algo_cli/agent_pipeline.py, checkpointed in the *)
(* journal of module RunJournal and in the record of the Agent thread, and *)
(* resumed by any process after a crash, an error or Ctrl-C.               *)
(*                                                                         *)
(* One process executes, under the execution lease; another may have read  *)
(* the thread record and wait for the lease with what it read.  A process  *)
(* has no other state of its own, so the two need no names.                *)
(* Every journal append and every write of the thread record can fail; an  *)
(* append that fails may have been stored all the same.                    *)
(***************************************************************************)
EXTENDS RunJournal

CONSTANTS MaxRounds,   \* iteration_limit of a block
          Batches,     \* the tool calls of one reply: for each, whether it mutates
          MaxResumes,  \* bound on the sessions after the first
          MaxFaults,   \* bound on the failing writes
          MaxEdits     \* bound on the workspace versions

ASSUME BoundsAssumption ==
    /\ {MaxRounds, MaxResumes, MaxFaults, MaxEdits} \subseteq Nat
    /\ \A b \in Batches : b \in Seq(BOOLEAN) /\ b # <<>>

VARIABLES grammar, reader,   \* the journal, as its two readers see it
          thread,            \* the record of the Agent thread
          ws,                \* the version of the workspace
          run,               \* the local state of the process with the execution lease
          asked,             \* what another one read before it asks for the lease
          faults,
          touched,           \* history: the block attempts that invoked a mutation
          torn               \* history: attempts whose block_finished was stored and raised

journal == <<grammar, reader>>
ghosts == <<touched, torn>>
vars == <<journal, thread, ws, run, asked, faults, ghosts>>

BlockStatus == {"none", "complete", "partial", "failed", "cancelled"}
InBlock == {"round", "chat", "intent", "tool", "result", "unwind"}
Phases == InBlock \cup {"link", "bind", "start", "check", "recover", "recovered", "stage",
                        "verify", "finish", "settle", "close", "idle"}

\* status: of the block under way, "none" between blocks; end: how the loop was left.
NewRun(done) ==
    [pc |-> "link", done |-> done, status |-> "none", phase |-> "main", round |-> 0,
     calls |-> <<>>, steps |-> 0, index |-> 0, withheld |-> FALSE, base |-> 0,
     end |-> "none", final |-> "none"]

NoRun == [NewRun(<<>>) EXCEPT !.pc = "idle"]

NotAsked == [blocks |-> <<>>, ws |-> None]

Init ==
    /\ grammar = NoJournal /\ reader = NewReader
    /\ thread = [status |-> "none", blocks |-> <<>>]
    /\ ws = 0 /\ run = NoRun
    /\ asked = NotAsked
    /\ faults = 0 /\ touched = {} /\ torn = {}

\* The execution lease is held.
Leased == run.pc # "idle"

Ordinal == Len(run.done)
Attempt == <<Ordinal, grammar.session>>
Round == <<Ordinal, run.round, IF run.phase = "main" THEN 0 ELSE 1>>
Fault == faults < MaxFaults /\ faults' = faults + 1

\* _append(): an event the grammar refuses is not stored and raises; a failure of
\* the store may come before or after the event is durable.
Append_(may, g, r, ok) ==
    \/ ok /\ may /\ grammar' = g /\ reader' = r /\ UNCHANGED faults
    \/ ~ok /\ ~may /\ UNCHANGED <<journal, faults>>
    \/ ~ok /\ may /\ Fault /\ \/ UNCHANGED journal
                              \/ grammar' = g /\ reader' = r

\* Events that resume_state() does not look at.
Log(may, g, ok) == Append_(may, g, reader, ok)

At(phase) == run.pc = phase
\* The variables of a tool batch are dead behind it.
NoCalls(r) == [r EXCEPT !.calls = <<>>, !.steps = 0, !.index = 0, !.withheld = FALSE]
Goto(phase) == run' = [run EXCEPT !.pc = phase]
Block(status, phase) == run' = [run EXCEPT !.status = status, !.pc = phase]
Exit == run' = NoRun
Quiet == UNCHANGED <<thread, ws, asked, ghosts>>

-----------------------------------------------------------------------------
(* Starting and resuming *)

\* A fresh run: create() and the lease.
Create(ok) ==
    /\ ~Leased /\ ~Exists(grammar)
    /\ \/ ok /\ UNCHANGED faults /\ grammar' = NewGrammar /\ run' = NewRun(<<>>)
       \/ ~ok /\ Fault /\ grammar' \in {grammar, NewGrammar} /\ UNCHANGED run
    /\ UNCHANGED <<reader, thread, ws, asked, ghosts>>

\* /agent resume: the thread record and the snapshot of the workspace are read
\* before the lease is asked for.
Ask ==
    /\ asked = NotAsked
    /\ thread.status # "none" /\ CanResume(reader)
    /\ asked' = [blocks |-> thread.blocks, ws |-> ws]
    /\ UNCHANGED <<journal, thread, ws, run, faults, ghosts>>

\* _validate_resume_contract() and _hydrate_verified_blocks(), under the lease.
Valid(a) ==
    /\ CanResume(reader)
    /\ a.ws = LastWorkspace(reader.completed)
    /\ Hydrates(a.blocks, reader.completed)

Resume(ok) ==
    /\ ~Leased /\ asked # NotAsked /\ Valid(asked) /\ grammar.session < MaxResumes
    /\ Log(MayResume(grammar, Len(reader.completed), LastVerified(reader.completed)),
           Resumed(grammar), ok)
    /\ asked' = NotAsked
    /\ IF ok THEN run' = NewRun(SubSeq(asked.blocks, 1, Len(reader.completed)))
             ELSE UNCHANGED run
    /\ UNCHANGED <<thread, ws, ghosts>>

\* The lease is busy, or the resume is not valid any more.
Refuse ==
    /\ asked # NotAsked
    /\ Leased \/ ~Valid(asked)
    /\ asked' = NotAsked
    /\ UNCHANGED <<journal, thread, ws, run, faults, ghosts>>

\* _start_thread_record(): create_thread() or begin_turn().
Link ==
    /\ At("link")
    /\ thread' = [thread EXCEPT !.status = IF @ = "none" THEN "queued" ELSE "running"]
    /\ Goto("bind")
    /\ UNCHANGED <<journal, ws, asked, faults, ghosts>>

\* Without a thread record the run is closed as failed, without a boundary.
LinkFails ==
    /\ At("link") /\ Fault
    /\ \/ MayFinishRun(grammar, <<>>) /\ grammar' = RunFinished(grammar)
                                      /\ reader' = RunRead(reader, "failed")
       \/ UNCHANGED journal
    /\ Exit
    /\ UNCHANGED <<thread, ws, asked, ghosts>>

BindContext(ok) ==
    /\ At("bind")
    /\ Log(MayBindContext(grammar), grammar, ok)
    /\ IF ok THEN Goto("start") ELSE run' = [run EXCEPT !.end = "unbound", !.pc = "settle"]
    /\ Quiet

-----------------------------------------------------------------------------
(* A block: run_agent_block() *)

StartBlock(ok) ==
    /\ At("start") /\ Ordinal < Blocks
    /\ Log(MayStartBlock(grammar, Ordinal), BlockStarted(grammar, Ordinal), ok)
    /\ run' = [run EXCEPT !.phase = "main", !.round = 0, !.base = ws,
                          !.status = IF ok THEN "none" ELSE "failed",
                          !.pc = IF ok THEN "round" ELSE "settle"]
    /\ Quiet

AllDone == At("start") /\ Ordinal = Blocks /\ Goto("settle") /\ Quiet /\ UNCHANGED <<journal, faults>>

StartRound(ok) ==
    /\ At("round") /\ run.round < MaxRounds
    /\ Log(MayStartRound(grammar, Round), RoundStarted(grammar, Round), ok)
    /\ IF ok THEN Goto("chat") ELSE Block("failed", "check")
    /\ Quiet

\* A contract violation, a budget or the iteration limit ends the block early.
StopEarly ==
    /\ At("round")
    /\ Block("partial", "check")
    /\ Quiet /\ UNCHANGED <<journal, faults>>

\* Text without tool calls: the block is over, or is nudged to verify first.
Answer(ok) ==
    /\ At("chat")
    /\ Log(MayCompleteRound(grammar, Round), RoundCompleted(grammar, Round, 0), ok)
    /\ IF ok THEN \/ \E status \in {"complete", "partial", "failed"} : Block(status, "check")
                  \/ run' = [run EXCEPT !.round = @ + 1, !.pc = "round"]
             ELSE Block("failed", "check")
    /\ Quiet

\* Tool calls, each mutating or not; over the budget of the contract they are
\* refused without a trace in the journal.
ToolCalls(calls, ok) ==
    /\ At("chat")
    /\ Log(MayCompleteRound(grammar, Round), RoundCompleted(grammar, Round, Len(calls)), ok)
    /\ IF ok THEN \/ run' = [run EXCEPT !.calls = calls, !.steps = 0, !.index = 0, !.pc = "intent"]
                  \/ Block("partial", "check")
             ELSE Block("failed", "check")
    /\ Quiet

\* The provider fails: the exception leaves the pipeline, the round stays open.
ChatFails ==
    /\ At("chat")
    /\ run' = [run EXCEPT !.status = "failed", !.end = "raised", !.pc = "check"]
    /\ Quiet /\ UNCHANGED <<journal, faults>>

\* Seeded fault: a call whose intent was not recorded is run all the same.
IntendBestEffort(ok) ==
    /\ At("intent")
    /\ LET k == run.steps
           mutating == run.calls[k + 1]
       IN  /\ Append_(MayIntend(grammar, Round, k), Intended(grammar, mutating),
                      IntentRead(reader, Ordinal, mutating), ok)
           /\ run' = [run EXCEPT !.steps = k + 1,
                                 !.pc = IF k + 1 < Len(run.calls) THEN "intent" ELSE "tool"]
    /\ Quiet

\* Intents of the whole batch come first; with the last one the policy decides
\* whether the batch is quarantined.
Intend(ok) ==
    /\ At("intent")
    /\ LET k == run.steps
           mutating == run.calls[k + 1]
       IN  /\ Append_(MayIntend(grammar, Round, k), Intended(grammar, mutating),
                      IntentRead(reader, Ordinal, mutating), ok)
           /\ IF ~ok
              THEN Block("failed", "unwind")
              ELSE IF k + 1 < Len(run.calls)
              THEN run' = [run EXCEPT !.steps = k + 1]
              ELSE \E quarantined \in BOOLEAN, status \in {"none", "failed"} :
                       /\ status = "failed" => quarantined
                       /\ run' = [run EXCEPT !.steps = k + 1, !.withheld = quarantined,
                                             !.status = status, !.pc = "tool"]
    /\ Quiet

\* An intent failed: those recorded before it are answered as not invoked.
Unwind(ok) ==
    /\ At("unwind") /\ run.index < run.steps
    /\ Log(MayResult(grammar, run.index), ResultRecorded(grammar, run.index), ok)
    /\ IF ok THEN run' = [run EXCEPT !.index = @ + 1] ELSE Goto("check")
    /\ Quiet

Unwound == At("unwind") /\ run.index = run.steps /\ Goto("check") /\ Quiet /\ UNCHANGED <<journal, faults>>

Mutating == run.calls[run.index + 1]

\* A call is refused, or invoked; Ctrl-C during it withholds the rest.
Invoke ==
    /\ At("tool")
    /\ \E invoked, interrupted \in BOOLEAN :
           /\ invoked => ~run.withheld
           /\ interrupted => invoked
           /\ touched' = IF invoked /\ Mutating THEN touched \cup {Attempt} ELSE touched
           /\ ws' \in IF invoked /\ Mutating /\ ws < MaxEdits THEN {ws, ws + 1} ELSE {ws}
           /\ run' = [run EXCEPT !.withheld = @ \/ interrupted, !.pc = "result",
                                 !.end = IF interrupted THEN "cancelled" ELSE @]
    /\ UNCHANGED <<journal, thread, asked, faults, torn>>

\* append_journal_result(): a failure withholds the rest of the batch.
RecordResult(ok) ==
    /\ At("result")
    /\ Log(MayResult(grammar, run.index), ResultRecorded(grammar, run.index), ok)
    /\ LET more == run.index + 1 < Len(run.calls)
           status == IF ok THEN run.status ELSE "failed"
           leaves == run.end = "cancelled" \/ status = "failed"
       IN  run' = [(IF more THEN run ELSE NoCalls(run)) EXCEPT
               !.index = IF more THEN @ + 1 ELSE @, !.withheld = @ \/ (more /\ ~ok),
               !.status = IF run.end = "cancelled" /\ ~more THEN "cancelled" ELSE status,
               !.round = IF more \/ leaves THEN @ ELSE @ + 1,
               !.pc = IF more THEN "tool" ELSE IF leaves THEN "check" ELSE "round"]
    /\ Quiet

-----------------------------------------------------------------------------
(* After a block: completion_check(), recovery and the checkpoint *)

\* Where the pipeline goes after a block, or a part of its recovery, with a status.
After(status) ==
    CASE run.end # "none"    -> {"settle"}
      [] run.phase = "plan"  -> {IF status = "complete" THEN "round" ELSE "recovered"}
      [] run.phase = "retry" -> {"recovered"}
      [] status \in {"failed", "cancelled"} -> {"settle"}
      [] status = "partial" /\ Ordinal \in Changing -> {"recover", "stage"}
      [] OTHER -> {"stage"}

\* A plan that succeeded is followed by the retry, one that did not leaves the
\* block partial.
Checked(status) ==
    \E pc \in After(status) :
        run' = IF run.phase = "plan" /\ run.end = "none"
               THEN [NoCalls(run) EXCEPT !.pc = pc, !.round = 0,
                                !.phase = IF pc = "round" THEN "retry" ELSE "plan",
                                !.status = IF pc = "round" THEN "none" ELSE "partial",
                                !.base = IF Ordinal = 0 THEN @ ELSE ws]
               ELSE [NoCalls(run) EXCEPT !.pc = pc, !.round = 0, !.status = status]

\* _enforce_block_output_verification()
Enforced(status) == IF status = "complete" THEN {"complete", "partial"} ELSE {status}

\* A block that must change something is complete only with a delta to show.
CheckChange(ok) ==
    /\ At("check") /\ Ordinal \in Changing /\ run.phase # "plan"
    /\ LET status == IF run.status = "complete" /\ ws = run.base THEN "partial" ELSE run.status
       IN  /\ Log(MayVerify(grammar, Ordinal),
                  VerifierRecorded(grammar, "change", status = "complete", ws), ok)
           /\ IF ok THEN \E s \in Enforced(status) : Checked(s) ELSE Checked("failed")
    /\ Quiet

\* For the others a mutation_audit event may be written, which no reader uses.
CheckOutput ==
    /\ At("check") /\ (Ordinal \in Changing => run.phase = "plan")
    /\ \E s \in Enforced(run.status) : Checked(s)
    /\ Quiet /\ UNCHANGED <<journal, faults>>

\* run_typed_recovery(): a plan, then a retry, once.
Recover(ok) ==
    /\ At("recover")
    /\ Log(MayStartRecovery(grammar, Ordinal), RecoveryStarted(grammar), ok)
    /\ IF ok THEN run' = [run EXCEPT !.phase = "plan", !.round = 0, !.status = "none", !.pc = "round"]
             ELSE Block("failed", "settle")
    /\ Quiet

Recovered(ok) ==
    /\ At("recovered")
    /\ Log(MayFinishRecovery(grammar, Ordinal), RecoveryFinished(grammar), ok)
    /\ LET status == IF ok THEN run.status ELSE "failed"
       IN  Block(status, IF status \in {"complete", "partial"} THEN "stage" ELSE "settle")
    /\ Quiet

Record(status) == [at |-> Attempt, status |-> status]

\* Seeded fault: the thread learns of a block only at the end of the run.
StageLater ==
    /\ At("stage")
    /\ thread' = [thread EXCEPT !.status = "running"]
    /\ Goto("verify")
    /\ UNCHANGED <<journal, ws, asked, faults, ghosts>>

\* append_pipeline_block(): the context goes to the thread before the journal
\* vouches for it.
Stage ==
    /\ At("stage")
    /\ \E status \in IF run.phase = "retry" THEN Enforced(run.status) ELSE {run.status} :
           /\ thread' = [status |-> "running", blocks |-> Append(run.done, Record(status))]
           /\ Block(status, "verify")
    /\ UNCHANGED <<journal, ws, asked, faults, ghosts>>

StageFails ==
    /\ At("stage") /\ Fault
    /\ Block("failed", "settle")
    /\ Quiet /\ UNCHANGED journal

VerifyOutput(ok) ==
    /\ At("verify")
    /\ Log(MayVerify(grammar, Ordinal),
           VerifierRecorded(grammar, "output", run.status = "complete", ws), ok)
    /\ IF ok THEN Goto("finish") ELSE Block("failed", "settle")
    /\ Quiet

\* The boundary; without verification the pipeline stops behind the block.
FinishBlock(ok) ==
    /\ At("finish")
    /\ LET o == Ordinal
           complete == run.status = "complete"
       IN  /\ Append_(MayFinishBlock(grammar, o, complete, ws), BlockFinished(grammar, o, complete, ws),
                      BlockRead(reader, grammar.session, o, complete, ws), ok)
           /\ torn' = IF ~ok /\ reader' # reader THEN torn \cup {Attempt} ELSE torn
           /\ IF ok THEN \E pc \in {"start"} \cup (IF complete THEN {} ELSE {"settle"}) :
                             run' = [run EXCEPT !.done = Append(@, Record(run.status)),
                                                !.status = "none", !.pc = pc]
                    ELSE Block("failed", "settle")
    /\ UNCHANGED <<thread, ws, asked, touched>>

-----------------------------------------------------------------------------
(* The end of a run: the finally clause *)

\* completed, and the block that stopped the pipeline.
Persisted == IF run.status = "none" THEN run.done ELSE Append(run.done, Record(run.status))

Outcome ==
    CASE run.end = "cancelled" -> "cancelled"
      [] run.end \in {"raised", "unbound"} -> "failed"
      [] run.status = "failed" -> "failed"
      [] \E k \in 1..Len(Persisted) : Persisted[k].status = "partial" -> "partial"
      [] Ordinal = Blocks -> "complete"
      [] OTHER -> "partial"

\* Seeded fault: the outcome of the loop is the outcome of the run.
FinalLoop == Outcome

\* What the journal cannot vouch for is not complete.
Final ==
    IF Uncertain(reader) \/ (Outcome = "complete" /\ Len(reader.completed) # Blocks)
    THEN "failed" ELSE Outcome

Settle ==
    /\ At("settle")
    /\ thread' = [status |-> Final, blocks |-> IF run.end = "unbound" THEN run.done ELSE Persisted]
    /\ run' = [run EXCEPT !.final = Final, !.pc = "close"]
    /\ UNCHANGED <<journal, ws, asked, faults, ghosts>>

\* The thread cannot be finished: the journal is left open for a recovery, unless
\* the run had not begun.
SettleFails ==
    /\ At("settle") /\ Fault
    /\ IF run.end = "unbound"
       THEN run' = [run EXCEPT !.final = "failed", !.pc = "close"]
       ELSE Exit
    /\ UNCHANGED <<journal, thread, ws, asked, ghosts>>

LeaveOpen == At("close") /\ Uncertain(reader) /\ Exit /\ UNCHANGED <<journal, thread, ws, asked, faults, ghosts>>

\* run_finished; if it raises the thread is finished once more, as failed, which a
\* cancelled thread refuses.
Close(ok) ==
    /\ At("close") /\ ~Uncertain(reader)
    /\ Append_(MayFinishRun(grammar, LastVerified(reader.completed)), RunFinished(grammar),
               RunRead(reader, run.final), ok)
    /\ \/ UNCHANGED thread
       \/ /\ ~ok /\ run.end # "unbound" /\ thread.status # "cancelled"
          /\ thread' = [thread EXCEPT !.status = "failed"]
    /\ Exit
    /\ UNCHANGED <<ws, asked, ghosts>>

\* Ctrl-C in the block, or between its end and its checkpoint.
Interrupt ==
    /\ run.pc \in InBlock \cup {"start", "check", "recover", "recovered", "stage", "verify", "finish"}
    /\ run' = [run EXCEPT !.end = "cancelled",
                          !.status = IF run.pc \in InBlock THEN "cancelled" ELSE @,
                          !.pc = IF run.pc \in InBlock THEN "check" ELSE "settle"]
    /\ Quiet /\ UNCHANGED <<journal, faults>>

\* The process dies; its locks go with it.
Crash ==
    /\ Leased
    /\ Exit
    /\ UNCHANGED <<journal, thread, ws, asked, faults, ghosts>>

-----------------------------------------------------------------------------
\* What the lease holder does by itself.
Work ==
    \/ Link \/ LinkFails \/ AllDone \/ StopEarly \/ ChatFails \/ Unwound \/ Invoke \/ CheckOutput
    \/ Stage \/ StageFails \/ Settle \/ SettleFails \/ LeaveOpen
    \/ \E ok \in BOOLEAN :
           \/ BindContext(ok) \/ StartBlock(ok) \/ StartRound(ok) \/ Answer(ok) \/ Intend(ok)
           \/ Unwind(ok) \/ RecordResult(ok) \/ CheckChange(ok) \/ Recover(ok) \/ Recovered(ok)
           \/ VerifyOutput(ok) \/ FinishBlock(ok) \/ Close(ok)
           \/ \E calls \in Batches : ToolCalls(calls, ok)

Next ==
    \/ Work \/ Interrupt \/ Crash
    \/ Ask \/ Refuse
    \/ \E ok \in BOOLEAN : Create(ok) \/ Resume(ok)

Spec == Init /\ [][Next]_vars

-----------------------------------------------------------------------------
(* Properties *)

VerifiedAttempts == {grammar.completed[k].at : k \in 1..Len(grammar.completed)}

TypeOK ==
    /\ Leased = (run # NoRun)
    /\ run.pc \in Phases /\ run.status \in BlockStatus /\ Len(run.done) <= Blocks
    /\ grammar.session \in None..MaxResumes /\ grammar.mutating \subseteq 0..(Blocks - 1)
    /\ thread.status \in BlockStatus \cup {"queued", "running"}
    /\ ws \in 0..MaxEdits /\ faults \in 0..MaxFaults
    /\ reader.status \in BlockStatus \cup {"open"}

\* The run is well formed, and a mutation is never left behind: once a run has been resumed, every mutating
\* call that an earlier session really invoked belongs to a block that this session
\* counts as verified, whatever was lost between the intent, the call, the result
\* and the boundary.  So no resume repeats a mutation (_validate_resume_contract,
\* run_resumed).
NothingReplayed ==
    /\ TypeOK
    /\ \A a \in touched : a[2] < grammar.session => a \in VerifiedAttempts

\* A run that is complete, for its thread or in its journal, is verified to the
\* last block by both readers of the journal, and every mutation it ever invoked
\* lies behind a boundary.
CompletionBacked ==
    (thread.status = "complete" \/ reader.status = "complete") =>
        /\ Len(grammar.completed) = Blocks /\ reader.completed = grammar.completed
        /\ touched \subseteq VerifiedAttempts

\* A run that stopped can go on: when resume_state() calls it resumable, the record
\* of the thread still holds the content of every verified block (it is staged
\* before the journal vouches for it), the workspace is the verified one, and the
\* journal accepts the resume.  Three things stand against it: the last session
\* stopped inside a model round or with an intent unanswered; the two readers
\* disagree about the boundary; a boundary was stored although its append raised.
ResumeWorks ==
    ~Leased /\ thread.status # "none" /\ CanResume(reader) =>
        \/ /\ Valid([blocks |-> thread.blocks, ws |-> ws])
           /\ MayResume(grammar, Len(reader.completed), LastVerified(reader.completed))
        \/ grammar.round # NoRound \/ ~IntentsClosed(grammar)
        \/ reader.completed # grammar.completed
        \/ torn # {}

\* resume_state() names the boundary that the grammar will accept.
BoundaryAgrees == reader.completed = grammar.completed
=============================================================================
