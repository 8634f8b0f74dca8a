----------------------------- MODULE TargetFence -----------------------------
(***************************************************************************)
(* What the effect leases of algo_cli/henry_effect_control.py promise to   *)
(* the dispatcher: at any time at most one worker is the single writer of  *)
(* a target, and every new writer is given a fencing token strictly        *)
(* greater than every token given out for that target before.  Tokens may  *)
(* be skipped (an acquisition can fail after its token was persisted) but  *)
(* never repeated, whatever crashes.                                       *)
(***************************************************************************)
EXTENDS Naturals

CONSTANTS Workers,   \* the threads that dispatch effects
          Targets,   \* the effect targets
          NoWorker   \* "nobody"

VARIABLES writer,    \* writer[t]: the worker that holds target t, or NoWorker
          fence      \* fence[t]: the last fencing token given out for t

fvars == <<writer, fence>>

FTypeOK ==
    /\ writer \in [Targets -> Workers \cup {NoWorker}]
    /\ fence \in [Targets -> Nat]

FInit ==
    /\ writer = [t \in Targets |-> NoWorker]
    /\ fence = [t \in Targets |-> 0]

Grant(w, t) ==
    /\ writer[t] = NoWorker
    /\ writer' = [writer EXCEPT ![t] = w]
    /\ fence' = [fence EXCEPT ![t] = fence'[t]]
    /\ fence'[t] \in Nat
    /\ fence'[t] > fence[t]

\* The writers of some targets stop being writers: a release, or the death
\* of a process or of the whole machine.
Drop(ts) ==
    /\ writer' = [t \in Targets |-> IF t \in ts THEN NoWorker ELSE writer[t]]
    /\ UNCHANGED fence

FNext ==
    \/ \E w \in Workers, t \in Targets : Grant(w, t)
    \/ \E ts \in SUBSET Targets : Drop(ts)

FSpec == FInit /\ [][FNext]_fvars
=============================================================================
