--------------------------- MODULE AdmissionGate -----------------------------
(***************************************************************************)
(* The FIFO admission gate of the private event store:                     *)
(* algo_cli/ada_private_event_store.py (_ThreadAdmissionGate).             *)
(*                                                                         *)
(* Threads queue a token under a condition variable and wait until the     *)
(* gate is free and their token is first.  A waiting thread sleeps until a *)
(* notify_all() or until its deadline; each section under the condition's  *)
(* lock is one step.                                                       *)
(***************************************************************************)
EXTENDS Naturals, SequencesExt

CONSTANT Threads      \* the threads of one process

VARIABLES place,      \* place[h]: "out", "waiting" or "in"
          waiters,    \* _waiters: the deque of tokens, named by their threads
          held,       \* _held: whether the gate is held
          asleep,     \* threads in Condition.wait() that nobody has notified
          late        \* threads whose deadline has passed

gateVars == <<place, waiters, held, asleep, late>>

GateInit ==
    /\ place = [h \in Threads |-> "out"]
    /\ waiters = <<>>
    /\ held = FALSE
    /\ asleep = {}
    /\ late = {}

\* Seeded fault: a thread that finds the gate free walks past the queue.
BlockedByHolder(h, q) == held

\* The condition of the while loop of acquire(): the thread has to wait.
Blocked(h, q) == held \/ Head(q) # h

\* acquire() up to its first wait(), or to its return.
Enter(h) ==
    /\ place[h] = "out"
    /\ IF Blocked(h, Append(waiters, h))
       THEN /\ waiters' = Append(waiters, h)
            /\ place' = [place EXCEPT ![h] = "waiting"]
            /\ asleep' = asleep \cup {h}
            /\ UNCHANGED held
       ELSE /\ place' = [place EXCEPT ![h] = "in"]
            /\ held' = TRUE
            /\ UNCHANGED <<waiters, asleep>>
    /\ UNCHANGED late

\* An awake waiter finds the gate free and its token first.
Admit(h) ==
    /\ place[h] = "waiting" /\ h \notin asleep
    /\ ~Blocked(h, waiters)
    /\ waiters' = Tail(waiters)
    /\ held' = TRUE
    /\ place' = [place EXCEPT ![h] = "in"]
    /\ late' = late \ {h}
    /\ UNCHANGED asleep

\* An awake waiter that is still blocked goes back to sleep.
SleepAgain(h) ==
    /\ place[h] = "waiting" /\ h \notin asleep
    /\ Blocked(h, waiters) /\ h \notin late
    /\ asleep' = asleep \cup {h}
    /\ UNCHANGED <<place, waiters, held, late>>

\* Seeded fault: the token of a thread that gives up stays in the queue.
GiveUpLeaks(h) ==
    /\ place[h] = "waiting" /\ h \notin asleep
    /\ Blocked(h, waiters) /\ h \in late
    /\ asleep' = {}
    /\ place' = [place EXCEPT ![h] = "out"]
    /\ late' = late \ {h}
    /\ UNCHANGED <<waiters, held>>

\* remaining <= 0: the token leaves the queue and everyone is notified.
GiveUp(h) ==
    /\ place[h] = "waiting" /\ h \notin asleep
    /\ Blocked(h, waiters) /\ h \in late
    /\ \E i \in DOMAIN waiters : waiters[i] = h /\ waiters' = RemoveAt(waiters, i)
    /\ asleep' = {}
    /\ place' = [place EXCEPT ![h] = "out"]
    /\ late' = late \ {h}
    /\ UNCHANGED held

\* Seeded fault: release() wakes nobody.
ReleaseQuietly(h) ==
    /\ place[h] = "in"
    /\ held' = FALSE
    /\ place' = [place EXCEPT ![h] = "out"]
    /\ UNCHANGED <<waiters, asleep, late>>

Release(h) ==
    /\ place[h] = "in"
    /\ held' = FALSE
    /\ asleep' = {}
    /\ place' = [place EXCEPT ![h] = "out"]
    /\ UNCHANGED <<waiters, late>>

\* The deadline of a waiter passes: its wait() returns by itself.
Deadline(h) ==
    /\ place[h] = "waiting" /\ h \notin late
    /\ late' = late \cup {h}
    /\ asleep' = asleep \ {h}
    /\ UNCHANGED <<place, waiters, held>>

Resume(h) == Admit(h) \/ SleepAgain(h) \/ GiveUp(h)

GateNext == \E h \in Threads : Enter(h) \/ Resume(h) \/ Release(h) \/ Deadline(h)

GateSpec == GateInit /\ [][GateNext]_gateVars

\* An awake thread runs, and the section the gate protects ends; deadlines
\* are not assumed to help.
FairGateSpec == GateSpec /\ \A h \in Threads : WF_gateVars(Resume(h)) /\ WF_gateVars(Release(h))

-----------------------------------------------------------------------------
(* Properties *)

\* Type invariant; the queue holds exactly the waiting threads, each once, and
\* the gate is held exactly when one thread is in: a token left behind by a
\* timeout would close the store to the process for good.
QueueOK ==
    /\ place \in [Threads -> {"out", "waiting", "in"}]
    /\ waiters \in Seq(Threads) /\ IsInjective(waiters)
    /\ ToSet(waiters) = {h \in Threads : place[h] = "waiting"}
    /\ held \in BOOLEAN
    /\ \A g, h \in Threads : place[g] = "in" /\ place[h] = "in" => g = h
    /\ held <=> \E h \in Threads : place[h] = "in"
    /\ asleep \subseteq ToSet(waiters) /\ late \subseteq ToSet(waiters)

\* A thread that calls acquire() just after a release() never overtakes the
\* threads that queued before it.
NoOvertaking ==
    [][\A h \in Threads : place[h] # "in" /\ place'[h] = "in"
                             => waiters = <<>> \/ Head(waiters) = h]_gateVars

\* Every waiter is admitted or gives up, even if no deadline ever passes.
WaitEnds == \A h \in Threads : place[h] = "waiting" ~> place[h] # "waiting"
=============================================================================
