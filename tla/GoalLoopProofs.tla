---------------------------- MODULE GoalLoopProofs ----------------------------
(***************************************************************************)
(* What TurnLoop guarantees for every budget, set of actions and amount of *)
(* evidence: a completed turn is verified, its ceilings are strict and no  *)
(* action is hammered.  And what GoalLoop, which drives such turns,        *)
(* guarantees for every number of rounds: the saved goal can be loaded, it *)
(* is complete because the model said so, it stays as it was settled, and  *)
(* its turns keep the guarantees of module TurnLoop.                       *)
(***************************************************************************)
EXTENDS GoalLoop, TLAPS

-----------------------------------------------------------------------------
(* A turn *)

\* The gate never sees less than there is to verify, and a turn completes behind it.
EvidenceInv ==
    /\ unverified \subseteq pending
    /\ completed => pc \in {"done", "idle"} /\ unverified = {}

\* A tool batch belongs to a round below the ceiling.
WorkInv ==
    /\ batches \in Nat /\ batches <= MaxIterations
    /\ unlimited => batches = 0 /\ round = 0
    /\ pc \in {"head", "reply"} => batches <= round
    /\ pc = "tools" => batches <= round + 1
    /\ pc = "tools" \/ (pc = "reply" /\ ~final) => unlimited \/ round < MaxIterations

\* A round after the first withheld answer uses the recovery budget up, or is final.
RecoveryInv ==
    /\ after \in Nat /\ after <= RecoveryLimit + 1
    /\ unlimited => after = 0 /\ recoveries = 0
    /\ pc \in {"head", "tools"} => after <= recoveries
    /\ pc = "reply" => after <= recoveries + IF final THEN 1 ELSE 0
    /\ pc = "reply" /\ final => OutOfRecovery \/ OutOfWork

\* The turn ends in the batch in which an action is blocked for the last time.
StallInv ==
    /\ denials = blocked
    /\ pc \in {"head", "reply", "tools"} =>
           idle < StallLimit /\ \A k \in Keys : blocked[k] < StallLimit

IInv == TypeOK /\ EvidenceInv /\ WorkInv /\ RecoveryInv /\ StallInv

-----------------------------------------------------------------------------

\* A batch records mutations only, and covers no less for having less to cover.
LEMMA EvidenceFacts ==
    ASSUME NEW old \in SUBSET Mutations, NEW less \in SUBSET old, NEW events \in Events
    PROVE  /\ Evidence(old, events) \subseteq Mutations
           /\ Evidence(less, events) \subseteq Evidence(old, events)
<1>1. \A i \in DOMAIN events : events[i] \in Mutations \cup {"verify"}
  BY DEF Events
<1> QED
  BY <1>1 DEF Evidence

\* Every step of a turn keeps the types of its state.
LEMMA TypeStep == IInv /\ [Next]_turnVars => TypeOK'
<1> SUFFICES ASSUME IInv, [Next]_turnVars PROVE TypeOK'
  OBVIOUS
<1> USE LimitsAssumption DEF IInv, TypeOK, Markers, StallLimit, budget, ended, ghosts
<1>1. ASSUME NEW ok \in BOOLEAN, StartTurn(ok) PROVE TypeOK'
  <2>1. unlimited' \in BOOLEAN
    BY <1>1, LimitsAssumption, Zenon DEF StartTurn
  <2>2. final' \in BOOLEAN /\ nudged' \in BOOLEAN /\ completed' \in BOOLEAN
    BY <1>1 DEF StartTurn
  <2>3. pc' \in {"head", "done"} /\ exit' \in {"none", "returned"} /\ said' = said
    BY <1>1 DEF StartTurn
  <2>4. /\ round' = 0 /\ recoveries' = 0 /\ idle' = 0 /\ blocked' = [k \in Keys |-> 0]
        /\ pending' = {} /\ unverified' = {}
    BY <1>1 DEF StartTurn
  <2> QED
    BY <2>1, <2>2, <2>3, <2>4
<1>2. ASSUME NEW clean \in BOOLEAN, BudgetEnds(clean) PROVE TypeOK'
  BY <1>2 DEF BudgetEnds, Done, EvidenceAtHead, AutoVerified
<1>3. ASSUME NEW clean \in BOOLEAN, Request(clean) PROVE TypeOK'
  BY <1>3 DEF Request, EvidenceAtHead, AutoVerified, Counted, Tally, OutOfRecovery, OutOfWork, WorkInv, RecoveryInv
<1>4. ASSUME NEW text \in Markers, NEW how \in {"returned", "raised"}, StreamFails(text, how) PROVE TypeOK'
  BY <1>4 DEF StreamFails, Hears, Done
<1>5. ASSUME NEW text \in Markers, NEW clean \in BOOLEAN, Answer(text, clean) PROVE TypeOK'
  <2>1. said' \in Markers
    BY <1>5 DEF Answer, Hears
  <2>2. completed' \in BOOLEAN /\ nudged' \in BOOLEAN
    BY <1>5 DEF Answer, Withheld, NextRound, Done
  <2>3. pending' \subseteq Mutations /\ unverified' \subseteq Mutations
    BY <1>5 DEF Answer, Withheld, AutoVerified
  <2>4. round' \in 0..MaxIterations
    BY <1>5 DEF Answer, Withheld, NextRound, Counted, WorkInv
  <2>5. pc' \in {"head", "done"} /\ exit' \in {exit, "returned"} /\ recoveries' = recoveries
    BY <1>5 DEF Answer, Withheld, NextRound, Done
  <2> QED
    BY <1>5, <2>1, <2>2, <2>3, <2>4, <2>5 DEF Answer
<1>6. ASSUME NEW text \in Markers, FinalizationRefused(text) PROVE TypeOK'
  BY <1>6 DEF FinalizationRefused, Hears, Done
<1>7. ASSUME NEW text \in Markers, ToolCalls(text) PROVE TypeOK'
  BY <1>7 DEF ToolCalls, Hears, Counted, Tally
<1>8. ASSUME NEW executed \in BOOLEAN, NEW refused \in SUBSET Keys, NEW events \in Events, Batch(executed, refused, events) PROVE TypeOK'
  <2>1. pending' \subseteq Mutations /\ unverified' \subseteq Mutations
    BY <1>8, EvidenceFacts DEF Batch
  <2>2. idle' \in 0..StallLimit /\ blocked' \in [Keys -> 0..StallLimit]
    BY <1>8 DEF Batch, Repeated, StallInv
  <2>3. round' \in 0..MaxIterations
    BY <1>8 DEF Batch, NextRound, Counted, WorkInv
  <2> QED
    BY <1>8, <2>1, <2>2, <2>3 DEF Batch, Done, NextRound
<1>9. ASSUME NEW text \in Markers, Interrupt(text) PROVE TypeOK'
  BY <1>9 DEF Interrupt, Hears, Done
<1>10. ASSUME NEW how \in {"returned", "raised"}, ContextFails(how) PROVE TypeOK'
  BY <1>10 DEF ContextFails, Done
<1>11. CASE ScopeFails
  BY <1>11 DEF ScopeFails
<1>12. CASE EndTurn
  BY <1>12 DEF EndTurn
<1>13. CASE UNCHANGED turnVars
  BY <1>13 DEF turnVars
<1> QED
  BY <1>1, <1>2, <1>3, <1>4, <1>5, <1>6, <1>7, <1>8, <1>9, <1>10, <1>11, <1>12, <1>13 DEF Next, Step

\* Every mutation that the history counts as unverified is one the gate sees, and a
\* turn completes only when the gate sees none.
LEMMA EvidenceStep == IInv /\ [Next]_turnVars => EvidenceInv'
<1> SUFFICES ASSUME IInv, [Next]_turnVars PROVE EvidenceInv'
  OBVIOUS
<1> USE DEF IInv, TypeOK, EvidenceInv, budget, ended, ghosts
<1>1. ASSUME NEW ok \in BOOLEAN, StartTurn(ok) PROVE EvidenceInv'
  BY <1>1 DEF StartTurn
<1>2. ASSUME NEW clean \in BOOLEAN, BudgetEnds(clean) PROVE EvidenceInv'
  BY <1>2 DEF BudgetEnds, Done, EvidenceAtHead, AutoVerified, AutoVerifies, Allowed, Mutations
<1>3. ASSUME NEW clean \in BOOLEAN, Request(clean) PROVE EvidenceInv'
  BY <1>3 DEF Request, EvidenceAtHead, AutoVerified, Counted, Tally, AutoVerifies, Allowed, Mutations
<1>4. ASSUME NEW text \in Markers, NEW how \in {"returned", "raised"}, StreamFails(text, how) PROVE EvidenceInv'
  BY <1>4 DEF StreamFails, Hears, Done
<1>5. ASSUME NEW text \in Markers, NEW clean \in BOOLEAN, Answer(text, clean) PROVE EvidenceInv'
  BY <1>5 DEF Answer, Hears, Done, Withheld, AutoVerified, NextRound, Counted, AutoVerifies, Allowed, Mutations
<1>6. ASSUME NEW text \in Markers, FinalizationRefused(text) PROVE EvidenceInv'
  BY <1>6 DEF FinalizationRefused, Hears, Done
<1>7. ASSUME NEW text \in Markers, ToolCalls(text) PROVE EvidenceInv'
  BY <1>7 DEF ToolCalls, Hears, Counted, Tally
<1>8. ASSUME NEW executed \in BOOLEAN, NEW refused \in SUBSET Keys, NEW events \in Events, Batch(executed, refused, events) PROVE EvidenceInv'
  <2>1. unverified' \subseteq pending'
    BY <1>8, EvidenceFacts DEF Batch
  <2>2. ~completed /\ completed' = completed
    BY <1>8 DEF Batch, NextRound, Done
  <2> QED
    BY <2>1, <2>2
<1>9. ASSUME NEW text \in Markers, Interrupt(text) PROVE EvidenceInv'
  BY <1>9 DEF Interrupt, Hears, Done
<1>10. ASSUME NEW how \in {"returned", "raised"}, ContextFails(how) PROVE EvidenceInv'
  BY <1>10 DEF ContextFails, Done
<1>11. CASE ScopeFails
  BY <1>11 DEF ScopeFails
<1>12. CASE EndTurn
  BY <1>12 DEF EndTurn
<1>13. CASE UNCHANGED turnVars
  BY <1>13 DEF turnVars
<1> QED
  BY <1>1, <1>2, <1>3, <1>4, <1>5, <1>6, <1>7, <1>8, <1>9, <1>10, <1>11, <1>12, <1>13 DEF Next, Step

\* A round uses tools at most once, and the round at the ceiling is a finalization.
LEMMA WorkStep == IInv /\ [Next]_turnVars => WorkInv'
<1> SUFFICES ASSUME IInv, [Next]_turnVars PROVE WorkInv'
  OBVIOUS
<1> USE LimitsAssumption DEF IInv, TypeOK, WorkInv, budget, ended, ghosts
<1>1. ASSUME NEW ok \in BOOLEAN, StartTurn(ok) PROVE WorkInv'
  BY <1>1 DEF StartTurn
<1>2. ASSUME NEW clean \in BOOLEAN, BudgetEnds(clean) PROVE WorkInv'
  BY <1>2 DEF BudgetEnds, Done, EvidenceAtHead, AutoVerified
<1>3. ASSUME NEW clean \in BOOLEAN, Request(clean) PROVE WorkInv'
  <2>1. /\ pc = "head" /\ pc' = "reply" /\ UNCHANGED <<unlimited, round, batches>>
        /\ ~final' => ~OutOfWork
    BY <1>3 DEF Request
  <2> QED
    BY <2>1 DEF OutOfWork
<1>4. ASSUME NEW text \in Markers, NEW how \in {"returned", "raised"}, StreamFails(text, how) PROVE WorkInv'
  BY <1>4 DEF StreamFails, Hears, Done
<1>5. ASSUME NEW text \in Markers, NEW clean \in BOOLEAN, Answer(text, clean) PROVE WorkInv'
  BY <1>5 DEF Answer, Hears, Done, Withheld, AutoVerified, NextRound, Counted
<1>6. ASSUME NEW text \in Markers, FinalizationRefused(text) PROVE WorkInv'
  BY <1>6 DEF FinalizationRefused, Hears, Done
<1>7. ASSUME NEW text \in Markers, ToolCalls(text) PROVE WorkInv'
  BY <1>7 DEF ToolCalls, Hears, Counted, Tally
<1>8. ASSUME NEW executed \in BOOLEAN, NEW refused \in SUBSET Keys, NEW events \in Events, Batch(executed, refused, events) PROVE WorkInv'
  BY <1>8 DEF Batch, Done, NextRound, Counted, Repeated
<1>9. ASSUME NEW text \in Markers, Interrupt(text) PROVE WorkInv'
  BY <1>9 DEF Interrupt, Hears, Done
<1>10. ASSUME NEW how \in {"returned", "raised"}, ContextFails(how) PROVE WorkInv'
  BY <1>10 DEF ContextFails, Done
<1>11. CASE ScopeFails
  BY <1>11 DEF ScopeFails
<1>12. CASE EndTurn
  BY <1>12 DEF EndTurn
<1>13. CASE UNCHANGED turnVars
  BY <1>13 DEF turnVars
<1> QED
  BY <1>1, <1>2, <1>3, <1>4, <1>5, <1>6, <1>7, <1>8, <1>9, <1>10, <1>11, <1>12, <1>13 DEF Next, Step

\* After the nudge every round counts as a recovery, up to the finalization.
LEMMA RecoveryStep == IInv /\ [Next]_turnVars => RecoveryInv'
<1> SUFFICES ASSUME IInv, [Next]_turnVars PROVE RecoveryInv'
  OBVIOUS
<1> USE LimitsAssumption DEF IInv, TypeOK, RecoveryInv, budget, ended, ghosts
<1>1. ASSUME NEW ok \in BOOLEAN, StartTurn(ok) PROVE RecoveryInv'
  BY <1>1 DEF StartTurn
<1>2. ASSUME NEW clean \in BOOLEAN, BudgetEnds(clean) PROVE RecoveryInv'
  BY <1>2 DEF BudgetEnds, Done, EvidenceAtHead, AutoVerified
<1>3. ASSUME NEW clean \in BOOLEAN, Request(clean) PROVE RecoveryInv'
  <2>1. /\ pc = "head" /\ pc' = "reply" /\ UNCHANGED <<unlimited, round, nudged>>
        /\ final' <=> OutOfRecovery \/ OutOfWork
    BY <1>3 DEF Request
  <2>2. recoveries' = IF unlimited THEN 0 ELSE IF nudged /\ ~final' THEN recoveries + 1 ELSE recoveries
    BY <1>3 DEF Request, Counted
  <2>3. after' = IF unlimited \/ ~nudged THEN 0
                 ELSE IF after > RecoveryLimit + 1 THEN after ELSE after + 1
    BY <1>3 DEF Request, Counted, Tally
  <2>4. nudged /\ ~final' /\ ~unlimited => recoveries < RecoveryLimit
    BY <2>1 DEF OutOfRecovery
  <2>5. OutOfRecovery' \/ OutOfWork' \/ ~final'
    BY <2>1, <2>2 DEF OutOfRecovery, OutOfWork
  <2> QED
    BY <2>1, <2>2, <2>3, <2>4, <2>5
<1>4. ASSUME NEW text \in Markers, NEW how \in {"returned", "raised"}, StreamFails(text, how) PROVE RecoveryInv'
  BY <1>4 DEF StreamFails, Hears, Done
<1>5. ASSUME NEW text \in Markers, NEW clean \in BOOLEAN, Answer(text, clean) PROVE RecoveryInv'
  BY <1>5 DEF Answer, Hears, Done, Withheld, AutoVerified, NextRound, Counted, OutOfWork, OutOfRecovery
<1>6. ASSUME NEW text \in Markers, FinalizationRefused(text) PROVE RecoveryInv'
  BY <1>6 DEF FinalizationRefused, Hears, Done
<1>7. ASSUME NEW text \in Markers, ToolCalls(text) PROVE RecoveryInv'
  BY <1>7 DEF ToolCalls, Hears, Counted, Tally
<1>8. ASSUME NEW executed \in BOOLEAN, NEW refused \in SUBSET Keys, NEW events \in Events, Batch(executed, refused, events) PROVE RecoveryInv'
  BY <1>8 DEF Batch, Done, NextRound, Counted, Repeated
<1>9. ASSUME NEW text \in Markers, Interrupt(text) PROVE RecoveryInv'
  BY <1>9 DEF Interrupt, Hears, Done
<1>10. ASSUME NEW how \in {"returned", "raised"}, ContextFails(how) PROVE RecoveryInv'
  BY <1>10 DEF ContextFails, Done
<1>11. CASE ScopeFails
  BY <1>11 DEF ScopeFails
<1>12. CASE EndTurn
  BY <1>12 DEF EndTurn
<1>13. CASE UNCHANGED turnVars
  BY <1>13 DEF turnVars, OutOfRecovery, OutOfWork
<1> QED
  BY <1>1, <1>2, <1>3, <1>4, <1>5, <1>6, <1>7, <1>8, <1>9, <1>10, <1>11, <1>12, <1>13 DEF Next, Step

\* A batch that blocks an action for the third time, or nothing but, ends the turn.
LEMMA StallStep == IInv /\ [Next]_turnVars => StallInv'
<1> SUFFICES ASSUME IInv, [Next]_turnVars PROVE StallInv'
  OBVIOUS
<1> USE DEF IInv, TypeOK, StallInv, StallLimit, budget, ended, ghosts
<1>1. ASSUME NEW ok \in BOOLEAN, StartTurn(ok) PROVE StallInv'
  BY <1>1 DEF StartTurn
<1>2. ASSUME NEW clean \in BOOLEAN, BudgetEnds(clean) PROVE StallInv'
  BY <1>2 DEF BudgetEnds, Done, EvidenceAtHead, AutoVerified
<1>3. ASSUME NEW clean \in BOOLEAN, Request(clean) PROVE StallInv'
  BY <1>3 DEF Request, EvidenceAtHead, AutoVerified, Counted, Tally
<1>4. ASSUME NEW text \in Markers, NEW how \in {"returned", "raised"}, StreamFails(text, how) PROVE StallInv'
  BY <1>4 DEF StreamFails, Hears, Done
<1>5. ASSUME NEW text \in Markers, NEW clean \in BOOLEAN, Answer(text, clean) PROVE StallInv'
  BY <1>5 DEF Answer, Hears, Done, Withheld, AutoVerified, NextRound, Counted
<1>6. ASSUME NEW text \in Markers, FinalizationRefused(text) PROVE StallInv'
  BY <1>6 DEF FinalizationRefused, Hears, Done
<1>7. ASSUME NEW text \in Markers, ToolCalls(text) PROVE StallInv'
  BY <1>7 DEF ToolCalls, Hears, Counted, Tally
<1>8. ASSUME NEW executed \in BOOLEAN, NEW refused \in SUBSET Keys, NEW events \in Events, Batch(executed, refused, events) PROVE StallInv'
  BY <1>8 DEF Batch, Done, NextRound, Counted, Repeated
<1>9. ASSUME NEW text \in Markers, Interrupt(text) PROVE StallInv'
  BY <1>9 DEF Interrupt, Hears, Done
<1>10. ASSUME NEW how \in {"returned", "raised"}, ContextFails(how) PROVE StallInv'
  BY <1>10 DEF ContextFails, Done
<1>11. CASE ScopeFails
  BY <1>11 DEF ScopeFails
<1>12. CASE EndTurn
  BY <1>12 DEF EndTurn
<1>13. CASE UNCHANGED turnVars
  BY <1>13 DEF turnVars
<1> QED
  BY <1>1, <1>2, <1>3, <1>4, <1>5, <1>6, <1>7, <1>8, <1>9, <1>10, <1>11, <1>12, <1>13 DEF Next, Step

\* The first turn of a session has no budget used and nothing to verify.
LEMMA InitIInv == Init => IInv
<1> SUFFICES ASSUME Init PROVE IInv
  OBVIOUS
<1> USE LimitsAssumption DEF Init
<1>1. TypeOK
  <2>1. {unlimited, final, nudged, completed} \subseteq BOOLEAN
    OBVIOUS
  <2>2. blocked \in [Keys -> 0..StallLimit] /\ idle \in 0..StallLimit
    BY DEF StallLimit
  <2>3. round \in 0..MaxIterations /\ recoveries \in 0..RecoveryLimit
    OBVIOUS
  <2> QED
    BY <2>1, <2>2, <2>3 DEF TypeOK, Markers
<1>2. EvidenceInv /\ WorkInv /\ RecoveryInv /\ StallInv
  BY DEF EvidenceInv, WorkInv, RecoveryInv, StallInv
<1> QED
  BY <1>1, <1>2 DEF IInv

\* Every step of a turn keeps the invariant, in goal mode (module GoalLoop) as well.
LEMMA TurnStepIInv == IInv /\ [Next]_turnVars => IInv'
BY TypeStep, EvidenceStep, WorkStep, RecoveryStep, StallStep DEF IInv

\* The inductive invariant of the turn.
THEOREM Invariance == Spec => []IInv
BY InitIInv, TurnStepIInv, PTL DEF Spec

\* The state of a turn keeps its types and stays within its limits.
THEOREM TypeCorrect == Spec => []TypeOK
<1>1. IInv => TypeOK
  BY DEF IInv
<1> QED
  BY Invariance, <1>1, PTL

\* The completion gate of _agent_loop_body(): a turn that counts as completed has no
\* mutation left that a verifier able to see it has not covered.
THEOREM CompletionVerifiedTheorem == Spec => []CompletionVerified
<1>1. IInv => CompletionVerified
  BY DEF IInv, EvidenceInv, CompletionVerified
<1> QED
  BY Invariance, <1>1, PTL

\* The work and recovery ceilings of _agent_loop_body() hold for every budget.
THEOREM CeilingStrictTheorem == Spec => []CeilingStrict
<1>1. IInv => CeilingStrict
  BY DEF IInv, WorkInv, RecoveryInv, CeilingStrict
<1> QED
  BY Invariance, <1>1, PTL

\* The stall limit of _agent_loop_body() holds for every action by itself.
THEOREM NoHammeringTheorem == Spec => []NoHammering
<1>1. IInv => NoHammering
  BY DEF IInv, TypeOK, StallInv, NoHammering, StallLimit
<1> QED
  BY Invariance, <1>1, PTL

-----------------------------------------------------------------------------
(* Goal mode *)

Goals == [status : {"none", "running", "stopped", "complete", "blocked"},
          done : 0..MaxRecord, max : 0..MaxRecord]

\* Progress stays within the rounds of a goal, in memory and on disk, and a round
\* that runs is one that is left.
ProgressInv ==
    /\ record \in Goals /\ disk \in Goals /\ driving \in BOOLEAN
    /\ record.done <= record.max /\ disk.done <= disk.max
    /\ driving => Open(record) /\ Open(disk)
    /\ driving /\ pc # "idle" => record.done < record.max

GoalIInv == IInv /\ ProgressInv /\ MarkedByModel

-----------------------------------------------------------------------------

\* Between turns no goal has started and nothing is on disk.
LEMMA GoalInitIInv == GoalInit => GoalIInv
<1> SUFFICES ASSUME GoalInit PROVE GoalIInv
  OBVIOUS
<1>1. IInv
  BY InitIInv DEF GoalInit
<1>2. NoGoal \in Goals /\ NoGoal.done <= NoGoal.max /\ NoGoal.status = "none"
  BY GoalAssumption DEF NoGoal, Goals
<1>3. record = NoGoal /\ disk = NoGoal /\ driving = FALSE
  BY DEF GoalInit
<1>4. driving \in BOOLEAN
  BY <1>3
<1> QED
  BY <1>1, <1>2, <1>3, <1>4 DEF GoalIInv, ProgressInv, MarkedByModel

\* A round of goal mode is a turn like any other; a process that ends forgets it.
LEMMA GoalTurnStep == IInv /\ [GoalNext]_vars => IInv'
<1> SUFFICES ASSUME IInv, [GoalNext]_vars PROVE IInv'
  OBVIOUS
<1>1. CASE [Next]_turnVars
  BY <1>1, TurnStepIInv
<1>2. CASE Restart
  <2>1. pc' = "idle" /\ said' = "none" /\ UNCHANGED <<budget, pending, ended, ghosts>>
    BY <1>2 DEF Restart
  <2>2. TypeOK'
    BY <2>1 DEF IInv, TypeOK, Markers, budget, ended, ghosts
  <2>3. EvidenceInv' /\ WorkInv' /\ RecoveryInv' /\ StallInv'
    BY <2>1 DEF IInv, EvidenceInv, WorkInv, RecoveryInv, StallInv, budget, ended, ghosts
  <2> QED
    BY <2>2, <2>3 DEF IInv
<1>3. GoalNext => [Next]_turnVars \/ Restart
  BY DEF GoalNext, Start, Resume, Clear, Turn, TurnStep, Idle, RoundInterrupted, RoundOver,
     CapReached, RoundRaised, Next
<1>4. UNCHANGED vars => [Next]_turnVars
  BY DEF vars
<1> QED
  BY <1>1, <1>2, <1>3, <1>4

\* A step of a turn is one of a turn that was started.
LEMMA Underway == Step \/ ScopeFails => pc # "idle"
BY DEF Step, BudgetEnds, Request, StreamFails, Answer, FinalizationRefused, ToolCalls, Batch,
   Interrupt, ContextFails, ScopeFails

\* What add_round() does to a goal with a round left.
LEMMA RoundedFacts ==
    ASSUME record \in Goals, record.done < record.max,
           NEW s \in {"running", "stopped", "complete", "blocked"}
    PROVE  Rounded(s) \in Goals /\ Rounded(s).done <= Rounded(s).max /\ Rounded(s).status = s
<1>1. record.done + 1 \in 0..MaxRecord /\ record.done + 1 <= record.max
  BY GoalAssumption DEF Goals
<1> QED
  BY <1>1 DEF Goals, Rounded

\* Saving, failing to save, resuming with more rounds, crashing: progress stays
\* within its budget, and the goal that is driven is open on disk as well.
LEMMA ProgressStep == ProgressInv /\ [GoalNext]_vars => ProgressInv'
<1> SUFFICES ASSUME ProgressInv, [GoalNext]_vars PROVE ProgressInv'
  OBVIOUS
<1>n. NoGoal \in Goals /\ NoGoal.done <= NoGoal.max
  BY GoalAssumption DEF NoGoal, Goals
<1>1. ASSUME NEW n \in 1..MaxGoalRounds, NEW saved \in BOOLEAN, Start(n, saved) PROVE ProgressInv'
  <2>1. NewGoal(n) \in Goals /\ NewGoal(n).done <= NewGoal(n).max /\ Open(NewGoal(n))
    BY GoalAssumption DEF NewGoal, Goals, Open
  <2>2. pc' = "idle"
    BY <1>1 DEF Start, turnVars
  <2>3. CASE saved
    <3>1. record' = NewGoal(n) /\ disk' = NewGoal(n) /\ driving' = TRUE
      BY <1>1, <2>3 DEF Start, Persist
    <3>2. driving' \in BOOLEAN
      BY <3>1
    <3> QED
      BY <2>1, <2>2, <3>1, <3>2 DEF ProgressInv
  <2>4. CASE ~saved
    <3>1. record' = NoGoal /\ disk' = disk /\ driving' = FALSE
      BY <1>1, <2>4 DEF Start, Persist
    <3>2. driving' \in BOOLEAN
      BY <3>1
    <3> QED
      BY <1>n, <3>1, <3>2 DEF ProgressInv
  <2> QED
    BY <2>3, <2>4
<1>2. ASSUME NEW rounds \in 0..MaxGoalRounds, Resume(rounds) PROVE ProgressInv'
  <2>1. /\ pc' = "idle" /\ disk' = disk /\ Open(disk)
        /\ disk.done + rounds <= MaxRecord
        /\ record' = IF rounds = 0 THEN disk ELSE [disk EXCEPT !.max = disk.done + rounds]
    BY <1>2 DEF Resume, turnVars
  <2>2. record' \in Goals /\ record'.done <= record'.max /\ Open(record')
    BY <2>1, GoalAssumption DEF ProgressInv, Goals, Open
  <2>3. driving' \in BOOLEAN
    BY <1>2 DEF Resume
  <2> QED
    BY <2>1, <2>2, <2>3 DEF ProgressInv
<1>3. CASE Clear
  <2>1. UNCHANGED <<pc, driving, record>> /\ ~driving /\ disk' = NoGoal
    BY <1>3 DEF Clear, turnVars
  <2> QED
    BY <1>n, <2>1 DEF ProgressInv
<1>4. ASSUME NEW ok \in BOOLEAN, Turn(ok) PROVE ProgressInv'
  <2>1. UNCHANGED <<driving, record, disk>> /\ (driving => record.done < record.max)
    BY <1>4 DEF Turn, goalVars
  <2> QED
    BY <2>1 DEF ProgressInv
<1>5. CASE TurnStep
  BY <1>5, Underway DEF TurnStep, ProgressInv, goalVars
<1>6. CASE Idle
  BY <1>6 DEF Idle, EndTurn, ProgressInv, goalVars
<1>7. ASSUME NEW saved \in BOOLEAN, RoundInterrupted(saved) PROVE ProgressInv'
  <2>1. driving /\ pc = "done" /\ pc' = "idle" /\ driving' = FALSE /\ record' = Rounded("stopped")
    BY <1>7 DEF RoundInterrupted, EndTurn
  <2>2. disk' \in {disk, record'}
    BY <1>7 DEF RoundInterrupted, Persist
  <2>3. record' \in Goals /\ record'.done <= record'.max
    BY <2>1, RoundedFacts DEF ProgressInv
  <2>4. driving' \in BOOLEAN
    BY <2>1
  <2> QED
    BY <2>1, <2>2, <2>3, <2>4 DEF ProgressInv
<1>8. ASSUME NEW saved \in BOOLEAN, RoundOver(saved) PROVE ProgressInv'
  <2>1. driving /\ pc = "done" /\ pc' = "idle" /\ record' = Rounded(Verdict)
    BY <1>8 DEF RoundOver, EndTurn
  <2>2. Verdict \in {"complete", "blocked", "running"}
    BY DEF Verdict
  <2>3. record' \in Goals /\ record'.done <= record'.max /\ record'.status = Verdict
    BY <2>1, <2>2, RoundedFacts DEF ProgressInv
  <2>4. disk' = IF saved THEN record' ELSE disk
    BY <1>8 DEF RoundOver, Persist
  <2>5. driving' \in BOOLEAN /\ (driving' => saved /\ Verdict = "running")
    BY <1>8 DEF RoundOver
  <2> QED
    BY <2>1, <2>3, <2>4, <2>5 DEF ProgressInv, Open
<1>9. ASSUME NEW saved \in BOOLEAN, CapReached(saved) PROVE ProgressInv'
  <2>1. driving' = FALSE /\ record' = [record EXCEPT !.status = "stopped"]
    BY <1>9 DEF CapReached
  <2>2. disk' \in {disk, record'}
    BY <1>9 DEF CapReached, Persist
  <2>3. record' \in Goals /\ record'.done <= record'.max
    BY <2>1 DEF ProgressInv, Goals
  <2>4. driving' \in BOOLEAN
    BY <2>1
  <2> QED
    BY <2>1, <2>2, <2>3, <2>4 DEF ProgressInv
<1>10. CASE RoundRaised \/ Restart
  <2>1. driving' = FALSE /\ disk' = disk /\ record' \in {record, NoGoal}
    BY <1>10 DEF RoundRaised, Restart
  <2>2. driving' \in BOOLEAN
    BY <2>1
  <2> QED
    BY <1>n, <2>1, <2>2 DEF ProgressInv
<1>11. CASE UNCHANGED vars
  BY <1>11 DEF vars, turnVars, goalVars, ProgressInv
<1> QED
  BY <1>1, <1>2, <1>3, <1>4, <1>5, <1>6, <1>7, <1>8, <1>9, <1>10, <1>11 DEF GoalNext

\* A goal becomes complete on disk by a verdict on the last text: of this turn, so
\* the model said it, or of an earlier one, so this turn returned none.
LEMMA MarkedStep == ProgressInv /\ MarkedByModel /\ [GoalNext]_vars => MarkedByModel'
<1> SUFFICES ASSUME ProgressInv, MarkedByModel, [GoalNext]_vars PROVE MarkedByModel'
  OBVIOUS
<1>1. ASSUME NEW n \in 1..MaxGoalRounds, NEW saved \in BOOLEAN, Start(n, saved) PROVE MarkedByModel'
  BY <1>1 DEF Start, Persist, NewGoal, MarkedByModel
<1>2. ASSUME NEW saved \in BOOLEAN, RoundInterrupted(saved) PROVE MarkedByModel'
  <2>1. disk' = disk \/ disk'.status = "stopped"
    BY <1>2 DEF RoundInterrupted, Persist, Rounded, ProgressInv, Goals
  <2> QED
    BY <1>2, <2>1 DEF RoundInterrupted, Heard, MarkedByModel
<1>3. ASSUME NEW saved \in BOOLEAN, RoundOver(saved) PROVE MarkedByModel'
  <2>1. disk' = disk \/ disk'.status = Verdict
    BY <1>3 DEF RoundOver, Persist, Rounded, ProgressInv, Goals
  <2>2. /\ heard' <=> heard \/ (fresh /\ said = "complete")
        /\ mute' <=> mute \/ ~fresh
    BY <1>3 DEF RoundOver, Heard
  <2> QED
    BY <2>1, <2>2 DEF Verdict, MarkedByModel
<1>4. ASSUME NEW saved \in BOOLEAN, CapReached(saved) PROVE MarkedByModel'
  <2>1. disk' = disk \/ disk'.status = "stopped"
    BY <1>4 DEF CapReached, Persist, ProgressInv, Goals
  <2> QED
    BY <1>4, <2>1 DEF CapReached, MarkedByModel
<1>5. CASE RoundRaised
  BY <1>5 DEF RoundRaised, Heard, MarkedByModel
<1>6. CASE Clear
  BY <1>6 DEF Clear, NoGoal, MarkedByModel
<1>7. CASE UNCHANGED <<disk, heard, mute>>
  BY <1>7 DEF MarkedByModel
<1>8. ASSUME \/ \E rounds \in 0..MaxGoalRounds : Resume(rounds)
             \/ \E ok \in BOOLEAN : Turn(ok)
             \/ TurnStep \/ Idle \/ Restart \/ UNCHANGED vars
      PROVE  UNCHANGED <<disk, heard, mute>>
  BY <1>8 DEF Resume, Turn, TurnStep, Idle, Restart, vars, goalVars
<1> QED
  BY <1>1, <1>2, <1>3, <1>4, <1>5, <1>6, <1>7, <1>8 DEF GoalNext

\* The inductive invariant of goal mode.
THEOREM GoalInvariance == GoalSpec => []GoalIInv
<1>1. GoalIInv /\ [GoalNext]_vars => GoalIInv'
  BY GoalTurnStep, ProgressStep, MarkedStep DEF GoalIInv
<1> QED
  BY GoalInitIInv, <1>1, PTL DEF GoalSpec

\* load_goal() accepts whatever save_goal() left, after any mix of rounds, failed
\* saves, interrupts, resumes with more rounds and restarts.
THEOREM RecordLoadableTheorem == GoalSpec => []RecordLoadable
<1>1. GoalIInv => RecordLoadable
  BY DEF GoalIInv, IInv, ProgressInv, Goals, GoalTypeOK, RecordLoadable, Loadable
<1> QED
  BY GoalInvariance, <1>1, PTL

\* run_goal_loop() calls a goal complete because the model did, in the goal's own
\* turns, or because a turn of the goal returned without any text.
THEOREM MarkedByModelTheorem == GoalSpec => []MarkedByModel
<1>1. GoalIInv => MarkedByModel
  BY DEF GoalIInv
<1> QED
  BY GoalInvariance, <1>1, PTL

\* A settled goal is not driven, so no round, stop or cap of another one rewrites it.
THEOREM SettledStaysTheorem == GoalSpec => SettledStays
<1> DEFINE Stays == ~Open(disk) /\ disk' # disk /\ disk.status # "none" =>
                        disk' = NoGoal \/ disk'.done = 0
<1>1. GoalIInv /\ [GoalNext]_vars => [Stays]_vars
  <2> SUFFICES ASSUME ProgressInv, GoalNext, ~Open(disk), disk' # disk
               PROVE  disk' = NoGoal \/ disk'.done = 0
    BY DEF GoalIInv
  <2>1. ~driving
    BY DEF ProgressInv
  <2>2. ASSUME NEW n \in 1..MaxGoalRounds, NEW saved \in BOOLEAN, Start(n, saved)
        PROVE  disk'.done = 0
    BY <2>2 DEF Start, Persist, NewGoal
  <2>3. Clear => disk' = NoGoal
    BY DEF Clear
  <2>4. \/ Clear
        \/ \E n \in 1..MaxGoalRounds, saved \in BOOLEAN : Start(n, saved)
    BY <2>1 DEF GoalNext, Resume, Turn, TurnStep, Idle, RoundInterrupted, RoundOver, CapReached,
       RoundRaised, Restart, goalVars
  <2> QED
    BY <2>2, <2>3, <2>4
<1> QED
  BY GoalInvariance, <1>1, PTL DEF GoalSpec, SettledStays

\* The guarantees of a turn hold for the turns of goal mode.
THEOREM GoalTurnsVerified == GoalSpec => [](CompletionVerified /\ CeilingStrict /\ NoHammering)
<1>1. GoalIInv => CompletionVerified /\ CeilingStrict /\ NoHammering
  BY DEF GoalIInv, IInv, TypeOK, EvidenceInv, WorkInv, RecoveryInv, StallInv, StallLimit,
     CompletionVerified, CeilingStrict, NoHammering
<1> QED
  BY GoalInvariance, <1>1, PTL
=============================================================================
