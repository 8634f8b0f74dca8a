----------------------------- MODULE EffectLease -----------------------------
(***************************************************************************)
(* Cross-process single-writer effect leases with persistent fencing       *)
(* tokens: algo_cli/henry_effect_control.py (TargetLeaseManager).          *)
(*                                                                         *)
(* A lease on a target is an in-process thread lock, then an advisory file *)
(* lock, then a JSON state file that carries the last fencing token.  The  *)
(* state file is replaced atomically; the replacement survives a power     *)
(* loss only after the directory has been fsynced, so the module keeps the *)
(* file the processes see (state) and the one that is certain to be there  *)
(* after a power loss (durable) apart.                                     *)
(***************************************************************************)
EXTENDS Naturals

CONSTANTS Workers,       \* threads that acquire leases
          Processes,     \* the cooperating processes
          ProcOf,        \* the process each worker runs in
          Targets,       \* target digests
          NoWorker,      \* "nobody"
          LeaseSeconds,  \* the lifetime of a lease
          MaxToken,      \* bound on the fencing tokens (unbounded in the code)
          Times          \* what the wall clock may read

ASSUME NoWorkerAssumption == NoWorker \notin Workers
ASSUME ProcOfAssumption == ProcOf \in [Workers -> Processes]
ASSUME NatAssumption == /\ MaxToken \in Nat
                        /\ LeaseSeconds \in Nat \ {0}
                        /\ Times \subseteq Nat

VARIABLES pc,          \* pc[w]: where worker w is in acquire() / release()
          target,      \* target[w]: the target it is acquiring or holding
          threadLock,  \* threadLock[p][t]: holder of _thread_locks in process p
          flock,       \* flock[t]: holder of the advisory lock on <digest>.lock
          state,       \* state[t]: <digest>.json as the processes read it
          durable,     \* durable[t]: <digest>.json as fsynced with its directory
          lease,       \* lease[w]: the state the worker's TargetLease object holds
          clock,       \* the wall clock; it may step in either direction
          granted      \* history: the last token acquire() returned for a target

vars == <<pc, target, threadLock, flock, state, durable, lease, clock, granted>>

\* The state files _read_state() accepts.
LeaseState == {s \in [token : Nat, owner : Workers \cup {NoWorker},
                      issued : Nat, expires : Nat] : s.issued <= s.expires}

\* A state file without an owner.  "released" of the JSON is exactly "no
\* owner": _read_state() rejects any other combination.
Released(n) == [token |-> n, owner |-> NoWorker, issued |-> 0, expires |-> 0]

\* _read_state() of a file that does not exist yet.
Unleased == Released(0)

Init ==
    /\ pc = [w \in Workers |-> "idle"]
    /\ target \in [Workers -> Targets]
    /\ threadLock = [p \in Processes |-> [t \in Targets |-> NoWorker]]
    /\ flock = [t \in Targets |-> NoWorker]
    /\ state = [t \in Targets |-> Unleased]
    /\ durable = state
    /\ lease = [w \in Workers |-> Unleased]
    /\ clock \in Times
    /\ granted = [t \in Targets |-> 0]

Goto(w, l) == pc' = [pc EXCEPT ![w] = l]

-----------------------------------------------------------------------------
(* acquire() *)

\* Enter acquire(target) and queue for the in-process lock.
Acquire(w, t) ==
    /\ pc[w] = "idle"
    /\ target' = [target EXCEPT ![w] = t]
    /\ Goto(w, "gate")
    /\ UNCHANGED <<threadLock, flock, state, durable, lease, clock, granted>>

TakeThreadLock(w) ==
    /\ pc[w] = "gate"
    /\ threadLock[ProcOf[w]][target[w]] = NoWorker
    /\ threadLock' = [threadLock EXCEPT ![ProcOf[w]][target[w]] = w]
    /\ Goto(w, "flock")
    /\ UNCHANGED <<target, flock, state, durable, lease, clock, granted>>

\* thread_lock.acquire(timeout=...) returned False: EffectLeaseBusy.
ThreadLockTimeout(w) ==
    /\ pc[w] = "gate"
    /\ threadLock[ProcOf[w]][target[w]] # NoWorker
    /\ Goto(w, "idle")
    /\ UNCHANGED <<target, threadLock, flock, state, durable, lease, clock, granted>>

\* Seeded fault: the file lock is not waited for.
TakeFlockUnguarded(w) ==
    /\ pc[w] = "flock"
    /\ flock' = [flock EXCEPT ![target[w]] = w]
    /\ Goto(w, "locked")
    /\ UNCHANGED <<target, threadLock, state, durable, lease, clock, granted>>

TakeFlock(w) ==
    /\ pc[w] = "flock"
    /\ flock[target[w]] = NoWorker
    /\ flock' = [flock EXCEPT ![target[w]] = w]
    /\ Goto(w, "locked")
    /\ UNCHANGED <<target, threadLock, state, durable, lease, clock, granted>>

\* Seeded fault: no deadline on the file lock.
FlockWaitsForever(w) == FALSE /\ UNCHANGED vars

\* _lock_descriptor() passed its deadline (EffectLeaseBusy), or the lock file
\* could not be opened, or an interrupt: the handler of acquire() closes the
\* descriptor and releases the thread lock.
FlockFails(w) ==
    /\ pc[w] = "flock"
    /\ threadLock' = [threadLock EXCEPT ![ProcOf[w]][target[w]] = NoWorker]
    /\ Goto(w, "idle")
    /\ UNCHANGED <<target, flock, state, durable, lease, clock, granted>>

\* Seeded fault: the two instants are swapped in the state file.
PublishStateSwapped(w) ==
    LET t == target[w] IN
    /\ pc[w] = "locked"
    /\ state[t].token < MaxToken
    /\ state' = [state EXCEPT ![t] = [token   |-> state[t].token + 1,
                                      owner   |-> w,
                                      issued  |-> clock + LeaseSeconds,
                                      expires |-> clock]]
    /\ lease' = [lease EXCEPT ![w] = state'[t]]
    /\ Goto(w, "published")
    /\ UNCHANGED <<target, threadLock, flock, durable, clock, granted>>

\* _read_state(), the next token, and the os.replace() of _write_state().
PublishState(w) ==
    LET t == target[w] IN
    /\ pc[w] = "locked"
    /\ state[t].token < MaxToken
    /\ state' = [state EXCEPT ![t] = [token   |-> state[t].token + 1,
                                      owner   |-> w,
                                      issued  |-> clock,
                                      expires |-> clock + LeaseSeconds]]
    /\ lease' = [lease EXCEPT ![w] = state'[t]]
    /\ Goto(w, "published")
    /\ UNCHANGED <<target, threadLock, flock, durable, clock, granted>>

\* Seeded fault: acquire() returns before the directory is fsynced.
SyncStateSkipped(w) ==
    LET t == target[w] IN
    /\ pc[w] = "published"
    /\ granted' = [granted EXCEPT ![t] = lease[w].token]
    /\ Goto(w, "held")
    /\ UNCHANGED <<target, threadLock, flock, state, durable, lease, clock>>

\* _fsync_directory(), the last step of _write_state(); acquire() returns.
SyncState(w) ==
    LET t == target[w] IN
    /\ pc[w] = "published"
    /\ durable' = [durable EXCEPT ![t] = state[t]]
    /\ granted' = [granted EXCEPT ![t] = lease[w].token]
    /\ Goto(w, "held")
    /\ UNCHANGED <<target, threadLock, flock, state, lease, clock>>

Unlocked(w) ==
    /\ flock' = [flock EXCEPT ![target[w]] = NoWorker]
    /\ threadLock' = [threadLock EXCEPT ![ProcOf[w]][target[w]] = NoWorker]
    /\ lease' = [lease EXCEPT ![w] = Unleased]
    /\ Goto(w, "idle")

\* Any error under the file lock (unreadable state, a full disk, a failed
\* directory fsync after the replace, an interrupt): both locks are released
\* and no lease is returned, but a published state file stays.
AcquireFails(w) ==
    /\ pc[w] \in {"locked", "published"}
    /\ Unlocked(w)
    /\ UNCHANGED <<target, state, durable, clock, granted>>

-----------------------------------------------------------------------------
(* validate() and release() *)

\* validate(): the clock is inside the lease and the state file is still the
\* one this lease wrote.
Validate(w) ==
    /\ pc[w] = "held"
    /\ lease[w].issued <= clock
    /\ clock < lease[w].expires
    /\ state[target[w]] = lease[w]

\* release(): clear the owner if the state file still carries this lease.
ReleaseWrite(w) ==
    LET t == target[w] IN
    /\ pc[w] = "held"
    /\ state' = IF state[t].owner = lease[w].owner /\ state[t].token = lease[w].token
                THEN [state EXCEPT ![t] = Released(state[t].token)]
                ELSE state
    /\ Goto(w, "clearing")
    /\ UNCHANGED <<target, threadLock, flock, durable, lease, clock, granted>>

ReleaseSync(w) ==
    LET t == target[w] IN
    /\ pc[w] = "clearing"
    /\ durable' = [durable EXCEPT ![t] = state[t]]
    /\ Goto(w, "unlocking")
    /\ UNCHANGED <<target, threadLock, flock, state, lease, clock, granted>>

\* The state file could not be read or rewritten: the finally clause still
\* gives up both locks.
ReleaseFails(w) ==
    /\ pc[w] \in {"held", "clearing"}
    /\ Goto(w, "unlocking")
    /\ UNCHANGED <<target, threadLock, flock, state, durable, lease, clock, granted>>

\* The file lock goes first, the thread lock last.
UnlockFile(w) ==
    /\ pc[w] = "unlocking"
    /\ flock' = [flock EXCEPT ![target[w]] = NoWorker]
    /\ Goto(w, "unlocked")
    /\ UNCHANGED <<target, threadLock, state, durable, lease, clock, granted>>

UnlockThread(w) ==
    /\ pc[w] = "unlocked"
    /\ threadLock' = [threadLock EXCEPT ![ProcOf[w]][target[w]] = NoWorker]
    /\ lease' = [lease EXCEPT ![w] = Unleased]
    /\ Goto(w, "idle")
    /\ UNCHANGED <<target, flock, state, durable, clock, granted>>

-----------------------------------------------------------------------------
(* The environment *)

Tick ==
    /\ clock' \in Times
    /\ UNCHANGED <<pc, target, threadLock, flock, state, durable, lease, granted>>

\* The workers of ps die where they stand; the operating system drops their
\* file locks, and their thread locks vanish with the process.
Kill(ps) ==
    /\ pc' = [w \in Workers |-> IF ProcOf[w] \in ps THEN "idle" ELSE pc[w]]
    /\ lease' = [w \in Workers |-> IF ProcOf[w] \in ps THEN Unleased ELSE lease[w]]
    /\ threadLock' = [p \in Processes |-> IF p \in ps THEN [t \in Targets |-> NoWorker]
                                                      ELSE threadLock[p]]
    /\ flock' = [t \in Targets |-> IF flock[t] # NoWorker /\ ProcOf[flock[t]] \in ps
                                   THEN NoWorker ELSE flock[t]]
    /\ UNCHANGED <<target, clock, granted>>

Crash(p) ==
    /\ Kill({p})
    /\ UNCHANGED <<state, durable>>

\* Everything dies; a replace whose directory was not fsynced may be undone.
PowerLoss ==
    /\ Kill(Processes)
    /\ \E undone \in SUBSET Targets :
           state' = [t \in Targets |-> IF t \in undone THEN durable[t] ELSE state[t]]
    /\ durable' = state'

-----------------------------------------------------------------------------

Step(w) ==
    \/ TakeThreadLock(w) \/ ThreadLockTimeout(w)
    \/ TakeFlock(w) \/ FlockFails(w)
    \/ PublishState(w) \/ SyncState(w) \/ AcquireFails(w)

Release(w) ==
    \/ ReleaseWrite(w) \/ ReleaseSync(w) \/ ReleaseFails(w)
    \/ UnlockFile(w) \/ UnlockThread(w)

Next ==
    \/ \E w \in Workers, t \in Targets : Acquire(w, t)
    \/ \E w \in Workers : Step(w) \/ Release(w)
    \/ Tick
    \/ \E p \in Processes : Crash(p)
    \/ PowerLoss

Spec == Init /\ [][Next]_vars

\* A thread inside acquire() keeps running: its waits are bounded by
\* lock_timeout_seconds.  Nothing obliges a holder to release.
Fairness == \A w \in Workers : WF_vars(Step(w))

FairSpec == Spec /\ Fairness

-----------------------------------------------------------------------------
(* Properties *)

Labels == {"idle", "gate", "flock", "locked", "published", "held", "clearing",
           "unlocking", "unlocked"}

\* Type invariant of the lease manager: every state file on disk is one that
\* _read_state() accepts, so no crash makes a target unusable.
TypeOK ==
    /\ pc \in [Workers -> Labels]
    /\ target \in [Workers -> Targets]
    /\ threadLock \in [Processes -> [Targets -> Workers \cup {NoWorker}]]
    /\ flock \in [Targets -> Workers \cup {NoWorker}]
    /\ state \in [Targets -> LeaseState]
    /\ durable \in [Targets -> LeaseState]
    /\ lease \in [Workers -> LeaseState]
    /\ clock \in Nat
    /\ granted \in [Targets -> Nat]

\* The worker owns a TargetLease whose locks it has not given up.
Holding(w) == pc[w] \in {"held", "clearing"}

\* Two threads, of one process or of two, never hold a lease on the same
\* target at once, not even when the first lease has expired by the clock
\* (acquire() takes the thread lock and the file lock, never the expiry).
SingleHolder ==
    \A v, w \in Workers :
        v # w /\ Holding(v) /\ Holding(w) => target[v] # target[w]

\* While a worker holds a lease nobody rewrites the target's state file, so
\* validate() is decided by the clock alone: true exactly inside the lease.
ValidUntilExpiry ==
    \A w \in Workers : pc[w] = "held" =>
        (Validate(w) <=> lease[w].issued <= clock /\ clock < lease[w].expires)

\* acquire() never returns a token that is not larger than every token it
\* returned for the target before, even when a process crash or a power loss
\* fell between the os.replace() and the directory fsync of _write_state().
FreshToken ==
    [][\A w \in Workers : pc[w] = "published" /\ pc'[w] = "held"
                             => lease'[w].token > granted[target[w]]]_vars

\* The lease manager implements the single-writer fence the dispatcher
\* relies on.
Fence == INSTANCE TargetFence WITH
    writer <- [t \in Targets |-> IF flock[t] # NoWorker /\ Holding(flock[t])
                                 THEN flock[t] ELSE NoWorker],
    fence  <- granted

ImplementsFence == Fence!FSpec

\* acquire() returns or raises within its timeouts even when the holder of
\* the target never releases it.
BoundedWait == \A w \in Workers : pc[w] = "gate" ~> pc[w] \in {"held", "idle"}
=============================================================================
