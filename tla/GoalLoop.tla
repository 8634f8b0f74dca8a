------------------------------ MODULE GoalLoop -------------------------------
(***************************************************************************)
(* Goal mode: /goal runs turns (module TurnLoop) until the model marks the *)
(* goal complete or blocked, or its rounds are used up                     *)
(* (algo_cli/main.py: run_goal_loop, _drive_goal), and keeps one record on *)
(* disk to resume from (algo_cli/ada_task_ledger.py).                      *)
(***************************************************************************)
EXTENDS TurnLoop

CONSTANTS MaxGoalRounds,   \* bound on --rounds
          MaxRecord        \* bound on the rounds of one record

ASSUME GoalAssumption == MaxGoalRounds \in Nat \ {0} /\ MaxRecord \in Nat /\ MaxGoalRounds <= MaxRecord

VARIABLES driving,   \* _drive_goal is running
          record,    \* its record, in memory
          disk,      \* task_ledger.json
          heard,     \* history: a text of this goal's own turns ended with the marker
          mute       \* history: a turn of this goal returned without any text

goalVars == <<driving, record, disk, heard, mute>>
vars == <<turnVars, goalVars>>

NoGoal == [status |-> "none", done |-> 0, max |-> 0]
NewGoal(n) == [status |-> "running", done |-> 0, max |-> n]

Open(g) == g.status \in {"running", "stopped"}

\* What load_goal() accepts.
Loadable(g) == g.status # "none" /\ g.done <= g.max

GoalInit ==
    /\ Init
    /\ driving = FALSE /\ record = NoGoal /\ disk = NoGoal /\ heard = FALSE /\ mute = FALSE

\* save_goal() fails, or replaces the record atomically.
Persist(saved) == disk' = IF saved THEN record' ELSE disk

Start(n, saved) ==
    /\ ~driving /\ pc = "idle"
    /\ record' = IF saved THEN NewGoal(n) ELSE NoGoal
    /\ Persist(saved)
    /\ driving' = saved
    /\ heard' = (heard /\ ~saved) /\ mute' = (mute /\ ~saved)
    /\ UNCHANGED turnVars

\* Seeded fault: any saved goal can be resumed.
ResumeAny(rounds) ==
    /\ ~driving /\ pc = "idle"
    /\ Loadable(disk)
    /\ record' = IF rounds = 0 THEN disk ELSE [disk EXCEPT !.max = disk.done + rounds]
    /\ driving' = (record'.done < record'.max)
    /\ UNCHANGED <<turnVars, disk, heard, mute>>

\* Seeded fault: --rounds sets the total.
ResumeTotal(rounds) ==
    /\ ~driving /\ pc = "idle"
    /\ Loadable(disk) /\ Open(disk)
    /\ record' = IF rounds = 0 THEN disk ELSE [disk EXCEPT !.max = rounds]
    /\ driving' = TRUE
    /\ UNCHANGED <<turnVars, disk, heard, mute>>

\* /goal resume [--rounds N]; nothing happens without rounds left.
Resume(rounds) ==
    /\ ~driving /\ pc = "idle"
    /\ Loadable(disk) /\ Open(disk)
    /\ disk.done + rounds <= MaxRecord
    /\ record' = IF rounds = 0 THEN disk ELSE [disk EXCEPT !.max = disk.done + rounds]
    /\ driving' = (record'.done < record'.max)
    /\ UNCHANGED <<turnVars, disk, heard, mute>>

Clear ==
    /\ ~driving /\ pc = "idle"
    /\ disk' = NoGoal
    /\ UNCHANGED <<turnVars, driving, record, heard, mute>>

\* An ordinary turn, or the next round of the goal.
Turn(ok) ==
    /\ driving => record.done < record.max
    /\ StartTurn(ok)
    /\ UNCHANGED goalVars

TurnStep ==
    /\ Step \/ ScopeFails
    /\ UNCHANGED goalVars

Idle == EndTurn /\ ~driving /\ UNCHANGED goalVars

Heard == heard' = (heard \/ (fresh /\ said = "complete"))

\* Seeded fault: the round is not counted.
RoundedFree(status) == [record EXCEPT !.status = status]

\* add_round()
Rounded(status) == [record EXCEPT !.done = @ + 1, !.status = status]

\* Ctrl-C in the turn: the round counts, the goal is stopped.
RoundInterrupted(saved) ==
    /\ driving /\ EndTurn /\ exit = "interrupted"
    /\ record' = Rounded("stopped")
    /\ Persist(saved)
    /\ driving' = FALSE
    /\ Heard
    /\ UNCHANGED mute

\* The turn raised: so does goal mode, and the file keeps the last round.
RoundRaised ==
    /\ driving /\ EndTurn /\ exit = "raised"
    /\ driving' = FALSE
    /\ Heard
    /\ UNCHANGED <<record, disk, mute>>

\* Seeded fault: a text without a marker is taken for a completion.
VerdictLenient == IF said = "blocked" THEN "blocked" ELSE "complete"

Verdict == CASE said = "complete" -> "complete"
             [] said = "blocked"  -> "blocked"
             [] OTHER             -> "running"

\* The turn returned: the last assistant text decides.
RoundOver(saved) ==
    /\ driving /\ EndTurn /\ exit = "returned"
    /\ record' = Rounded(Verdict)
    /\ Persist(saved)
    /\ mute' = (mute \/ ~fresh)
    /\ Heard
    /\ driving' = (saved /\ Verdict = "running")

\* The loop over the remaining rounds is exhausted.
CapReached(saved) ==
    /\ driving /\ pc = "idle" /\ record.done >= record.max
    /\ record' = [record EXCEPT !.status = "stopped"]
    /\ Persist(saved)
    /\ driving' = FALSE
    /\ UNCHANGED <<turnVars, heard, mute>>

\* The process ends; the conversation is not restored, the file is.
Restart ==
    /\ pc' = "idle" /\ said' = "none" /\ fresh' = FALSE
    /\ driving' = FALSE /\ record' = NoGoal
    /\ UNCHANGED <<budget, pending, ended, ghosts, disk, heard, mute>>

GoalNext ==
    \/ \E n \in 1..MaxGoalRounds, saved \in BOOLEAN : Start(n, saved)
    \/ \E rounds \in 0..MaxGoalRounds : Resume(rounds)
    \/ Clear
    \/ \E ok \in BOOLEAN : Turn(ok)
    \/ TurnStep
    \/ Idle
    \/ \E saved \in BOOLEAN :
           RoundInterrupted(saved) \/ RoundOver(saved) \/ CapReached(saved)
    \/ RoundRaised
    \/ Restart

\* Goal mode starts its rounds and judges them by itself.
Drives ==
    \/ \E ok \in BOOLEAN : driving /\ Turn(ok)
    \/ \E saved \in BOOLEAN : RoundInterrupted(saved) \/ RoundOver(saved) \/ CapReached(saved)
    \/ RoundRaised

GoalSpec == GoalInit /\ [][GoalNext]_vars /\ WF_vars(TurnStep) /\ WF_vars(Drives)

-----------------------------------------------------------------------------
(* Properties *)

\* Type invariant; a goal is only driven while it is open.
GoalTypeOK ==
    /\ TypeOK
    /\ \A g \in {record, disk} :
           /\ g.status \in {"none", "running", "stopped", "complete", "blocked"}
           /\ g.done \in 0..MaxRecord /\ g.max \in 0..MaxRecord
    /\ driving \in BOOLEAN /\ (driving => Open(record))

\* The goal is well formed, and what is on disk can be loaded again, whatever crashed, failed to save or was
\* resumed with more rounds in between: progress never exceeds its budget.
RecordLoadable == GoalTypeOK /\ (disk.status # "none" => Loadable(disk))

\* A goal marked complete or blocked stays as it is until it is cleared or
\* replaced by a new goal.
SettledStays ==
    [][~Open(disk) /\ disk' # disk /\ disk.status # "none" =>
           disk' = NoGoal \/ disk'.done = 0]_vars

\* Goal mode gives the prompt back.
DriveEnds == driving ~> ~driving

\* A goal is complete because the model said so in one of the goal's own turns:
\* the marker of an earlier goal, of an ordinary turn or of a conversation before
\* a restart completes nothing, except through a turn that returned no text.
MarkedByModel == disk.status = "complete" => heard \/ mute
=============================================================================
