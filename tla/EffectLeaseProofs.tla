-------------------------- MODULE EffectLeaseProofs --------------------------
(***************************************************************************)
(* What EffectLease guarantees for every number of workers, processes and  *)
(* targets: the type invariant, mutual exclusion on a target, the freshness *)
(* of fencing tokens across crashes, and the refinement of TargetFence.    *)
(***************************************************************************)
EXTENDS EffectLease, TLAPS

\* Where a worker of acquire() / release() owns the advisory file lock.
FileLocked == {"locked", "published", "held", "clearing", "unlocking"}

\* The file lock and the program counters agree.
LockInv ==
    /\ \A w \in Workers : pc[w] \in FileLocked => flock[target[w]] = w
    /\ \A t \in Targets : flock[t] # NoWorker =>
           target[flock[t]] = t /\ pc[flock[t]] \in FileLocked

\* No token is ever lost: what was granted is durable, and what is durable
\* is not ahead of what the processes read.
TokenOrder ==
    \A t \in Targets : /\ granted[t] <= durable[t].token
                       /\ durable[t].token <= state[t].token

\* The state file is the one the worker wrote, with a token not granted yet.
LeaseInv ==
    \A w \in Workers :
        /\ pc[w] \in {"published", "held"} => state[target[w]] = lease[w]
        /\ pc[w] = "published" => granted[target[w]] < lease[w].token

IInv == TypeOK /\ LockInv /\ TokenOrder /\ LeaseInv

-----------------------------------------------------------------------------

\* Before the first acquire() nothing is locked, published or given out.
LEMMA InitIInv == Init => IInv
<1> SUFFICES ASSUME Init PROVE IInv
  OBVIOUS
<1> USE NoWorkerAssumption, NatAssumption, ProcOfAssumption
<1>1. TypeOK
  BY DEF Init, TypeOK, Labels, Unleased, Released, LeaseState
<1>2. LockInv
  BY DEF Init, LockInv, FileLocked
<1>3. TokenOrder
  BY DEF Init, TokenOrder, Unleased, Released
<1>4. LeaseInv
  BY DEF Init, LeaseInv
<1> QED
  BY <1>1, <1>2, <1>3, <1>4 DEF IInv

\* Every step of the lease manager keeps the types of its state.
LEMMA TypeStep == TypeOK /\ [Next]_vars => TypeOK'
<1> SUFFICES ASSUME TypeOK, [Next]_vars PROVE TypeOK'
  OBVIOUS
<1> USE NoWorkerAssumption, NatAssumption, ProcOfAssumption DEF TypeOK, Labels, Goto
<1>1. ASSUME NEW w \in Workers, NEW t \in Targets, Acquire(w, t) PROVE TypeOK'
  BY <1>1 DEF Acquire
<1>2. ASSUME NEW w \in Workers, TakeThreadLock(w) PROVE TypeOK'
  BY <1>2 DEF TakeThreadLock
<1>3. ASSUME NEW w \in Workers, ThreadLockTimeout(w) PROVE TypeOK'
  BY <1>3 DEF ThreadLockTimeout
<1>4. ASSUME NEW w \in Workers, TakeFlock(w) PROVE TypeOK'
  BY <1>4 DEF TakeFlock
<1>5. ASSUME NEW w \in Workers, FlockFails(w) PROVE TypeOK'
  BY <1>5 DEF FlockFails
<1>6. ASSUME NEW w \in Workers, PublishState(w) PROVE TypeOK'
  BY <1>6 DEF PublishState, LeaseState
<1>7. ASSUME NEW w \in Workers, SyncState(w) PROVE TypeOK'
  BY <1>7 DEF SyncState, LeaseState
<1>8. ASSUME NEW w \in Workers, AcquireFails(w) PROVE TypeOK'
  BY <1>8 DEF AcquireFails, Unlocked, Unleased, Released, LeaseState
<1>9. ASSUME NEW w \in Workers, ReleaseWrite(w) PROVE TypeOK'
  BY <1>9 DEF ReleaseWrite, Unleased, Released, LeaseState
<1>10. ASSUME NEW w \in Workers, ReleaseSync(w) PROVE TypeOK'
  BY <1>10 DEF ReleaseSync
<1>11. ASSUME NEW w \in Workers, ReleaseFails(w) PROVE TypeOK'
  BY <1>11 DEF ReleaseFails
<1>12. ASSUME NEW w \in Workers, UnlockFile(w) PROVE TypeOK'
  BY <1>12 DEF UnlockFile
<1>13. ASSUME NEW w \in Workers, UnlockThread(w) PROVE TypeOK'
  BY <1>13 DEF UnlockThread, Unleased, Released, LeaseState
<1>14. CASE Tick
  BY <1>14 DEF Tick
<1>15. ASSUME NEW p \in Processes, Crash(p) PROVE TypeOK'
  BY <1>15 DEF Crash, Kill, Unleased, Released, LeaseState
<1>16. CASE PowerLoss
  BY <1>16 DEF PowerLoss, Kill, Unleased, Released, LeaseState
<1>17. CASE UNCHANGED vars
  BY <1>17 DEF vars
<1> QED
  BY <1>1, <1>2, <1>3, <1>4, <1>5, <1>6, <1>7, <1>8, <1>9, <1>10, <1>11,
     <1>12, <1>13, <1>14, <1>15, <1>16, <1>17 DEF Next, Step, Release

\* Every step keeps the file lock and the program counters in agreement.
LEMMA LockStep == TypeOK /\ LockInv /\ [Next]_vars => LockInv'
<1> SUFFICES ASSUME TypeOK, LockInv, [Next]_vars PROVE LockInv'
  OBVIOUS
<1> USE NoWorkerAssumption, ProcOfAssumption DEF TypeOK, LockInv, FileLocked, Goto
<1>1. ASSUME NEW w \in Workers, NEW t \in Targets, Acquire(w, t) PROVE LockInv'
  BY <1>1 DEF Acquire
<1>2. ASSUME NEW w \in Workers, TakeThreadLock(w) PROVE LockInv'
  BY <1>2 DEF TakeThreadLock
<1>3. ASSUME NEW w \in Workers, ThreadLockTimeout(w) PROVE LockInv'
  BY <1>3 DEF ThreadLockTimeout
<1>4. ASSUME NEW w \in Workers, TakeFlock(w) PROVE LockInv'
  BY <1>4 DEF TakeFlock
<1>5. ASSUME NEW w \in Workers, FlockFails(w) PROVE LockInv'
  BY <1>5 DEF FlockFails
<1>6. ASSUME NEW w \in Workers, PublishState(w) PROVE LockInv'
  BY <1>6 DEF PublishState
<1>7. ASSUME NEW w \in Workers, SyncState(w) PROVE LockInv'
  BY <1>7 DEF SyncState
<1>8. ASSUME NEW w \in Workers, AcquireFails(w) PROVE LockInv'
  BY <1>8 DEF AcquireFails, Unlocked
<1>9. ASSUME NEW w \in Workers, ReleaseWrite(w) PROVE LockInv'
  BY <1>9 DEF ReleaseWrite
<1>10. ASSUME NEW w \in Workers, ReleaseSync(w) PROVE LockInv'
  BY <1>10 DEF ReleaseSync
<1>11. ASSUME NEW w \in Workers, ReleaseFails(w) PROVE LockInv'
  BY <1>11 DEF ReleaseFails
<1>12. ASSUME NEW w \in Workers, UnlockFile(w) PROVE LockInv'
  BY <1>12 DEF UnlockFile
<1>13. ASSUME NEW w \in Workers, UnlockThread(w) PROVE LockInv'
  BY <1>13 DEF UnlockThread
<1>14. CASE Tick
  BY <1>14 DEF Tick
<1>15. ASSUME NEW p \in Processes, Crash(p) PROVE LockInv'
  BY <1>15 DEF Crash, Kill
<1>16. CASE PowerLoss
  BY <1>16 DEF PowerLoss, Kill
<1>17. CASE UNCHANGED vars
  BY <1>17 DEF vars
<1> QED
  BY <1>1, <1>2, <1>3, <1>4, <1>5, <1>6, <1>7, <1>8, <1>9, <1>10, <1>11,
     <1>12, <1>13, <1>14, <1>15, <1>16, <1>17 DEF Next, Step, Release

\* No step loses a granted token: only publishing raises the token of the
\* state file, and a power loss falls back to what is durable at worst.
LEMMA TokenStep ==
    TypeOK /\ TokenOrder /\ LeaseInv /\ [Next]_vars => TokenOrder'
<1> SUFFICES ASSUME TypeOK, TokenOrder, LeaseInv, [Next]_vars PROVE TokenOrder'
  OBVIOUS
<1> USE NatAssumption DEF TypeOK, TokenOrder, LeaseState
<1>1. CASE UNCHANGED <<state, durable, granted>>
  BY <1>1
<1>2. ASSUME NEW w \in Workers, PublishState(w) PROVE TokenOrder'
  BY <1>2 DEF PublishState
<1>3. ASSUME NEW w \in Workers, SyncState(w) PROVE TokenOrder'
  BY <1>3 DEF SyncState, LeaseInv
<1>4. ASSUME NEW w \in Workers, ReleaseWrite(w) PROVE TokenOrder'
  <2>1. \A t \in Targets : state'[t].token = state[t].token
    BY <1>4 DEF ReleaseWrite, Released
  <2> QED
    BY <1>4, <2>1 DEF ReleaseWrite
<1>5. ASSUME NEW w \in Workers, ReleaseSync(w) PROVE TokenOrder'
  BY <1>5 DEF ReleaseSync
<1>6. CASE PowerLoss
  BY <1>6 DEF PowerLoss, Kill
<1>7. ASSUME NEW w \in Workers, NEW t \in Targets, Acquire(w, t) PROVE TokenOrder'
  BY <1>1, <1>7 DEF Acquire
<1>8. ASSUME NEW w \in Workers,
             \/ TakeThreadLock(w) \/ ThreadLockTimeout(w) \/ TakeFlock(w)
             \/ FlockFails(w) \/ AcquireFails(w) \/ ReleaseFails(w)
             \/ UnlockFile(w) \/ UnlockThread(w)
      PROVE  TokenOrder'
  BY <1>1, <1>8 DEF TakeThreadLock, ThreadLockTimeout, TakeFlock, FlockFails,
     AcquireFails, ReleaseFails, UnlockFile, UnlockThread
<1>9. CASE Tick
  BY <1>1, <1>9 DEF Tick
<1>10. ASSUME NEW p \in Processes, Crash(p) PROVE TokenOrder'
  BY <1>1, <1>10 DEF Crash, Kill
<1>11. CASE UNCHANGED vars
  BY <1>1, <1>11 DEF vars
<1> QED
  BY <1>2, <1>3, <1>4, <1>5, <1>6, <1>7, <1>8, <1>9, <1>10, <1>11
     DEF Next, Step, Release

\* The state file a worker published stays its own until it releases: every
\* other writer of the file needs the file lock the worker holds.
LEMMA LeaseStep == IInv /\ [Next]_vars => LeaseInv'
<1> SUFFICES ASSUME IInv, [Next]_vars PROVE LeaseInv'
  OBVIOUS
<1> USE NoWorkerAssumption, NatAssumption DEF IInv, TypeOK, LeaseState, LeaseInv, Goto
<1>1. ASSUME NEW w \in Workers, NEW t \in Targets, Acquire(w, t) PROVE LeaseInv'
  BY <1>1 DEF Acquire
<1>2. ASSUME NEW w \in Workers, TakeThreadLock(w) PROVE LeaseInv'
  BY <1>2 DEF TakeThreadLock
<1>3. ASSUME NEW w \in Workers, ThreadLockTimeout(w) PROVE LeaseInv'
  BY <1>3 DEF ThreadLockTimeout
<1>4. ASSUME NEW w \in Workers, TakeFlock(w) PROVE LeaseInv'
  BY <1>4 DEF TakeFlock
<1>5. ASSUME NEW w \in Workers, FlockFails(w) PROVE LeaseInv'
  BY <1>5 DEF FlockFails
<1>6. ASSUME NEW w \in Workers, PublishState(w) PROVE LeaseInv'
  <2>1. \A v \in Workers \ {w} : pc[v] \in FileLocked => target[v] # target[w]
    BY <1>6 DEF PublishState, LockInv, FileLocked
  <2>2. granted[target[w]] < state[target[w]].token + 1
    BY DEF TokenOrder
  <2> QED
    BY <1>6, <2>1, <2>2 DEF PublishState, FileLocked
<1>7. ASSUME NEW w \in Workers, SyncState(w) PROVE LeaseInv'
  <2>1. \A v \in Workers \ {w} : pc[v] \in FileLocked => target[v] # target[w]
    BY <1>7 DEF SyncState, LockInv, FileLocked
  <2> QED
    BY <1>7, <2>1 DEF SyncState, FileLocked
<1>8. ASSUME NEW w \in Workers, AcquireFails(w) PROVE LeaseInv'
  BY <1>8 DEF AcquireFails, Unlocked
<1>9. ASSUME NEW w \in Workers, ReleaseWrite(w) PROVE LeaseInv'
  <2>1. \A v \in Workers \ {w} : pc[v] \in FileLocked => target[v] # target[w]
    BY <1>9 DEF ReleaseWrite, LockInv, FileLocked
  <2>2. \A t \in Targets \ {target[w]} : state'[t] = state[t]
    BY <1>9 DEF ReleaseWrite
  <2> QED
    BY <1>9, <2>1, <2>2 DEF ReleaseWrite, FileLocked
<1>10. ASSUME NEW w \in Workers, ReleaseSync(w) PROVE LeaseInv'
  BY <1>10 DEF ReleaseSync
<1>11. ASSUME NEW w \in Workers, ReleaseFails(w) PROVE LeaseInv'
  BY <1>11 DEF ReleaseFails
<1>12. ASSUME NEW w \in Workers, UnlockFile(w) PROVE LeaseInv'
  BY <1>12 DEF UnlockFile
<1>13. ASSUME NEW w \in Workers, UnlockThread(w) PROVE LeaseInv'
  BY <1>13 DEF UnlockThread
<1>14. CASE Tick
  BY <1>14 DEF Tick
<1>15. ASSUME NEW p \in Processes, Crash(p) PROVE LeaseInv'
  BY <1>15 DEF Crash, Kill
<1>16. CASE PowerLoss
  <2>1. \A w \in Workers : pc'[w] = "idle"
    BY <1>16, ProcOfAssumption DEF PowerLoss, Kill
  <2> QED
    BY <2>1
<1>17. CASE UNCHANGED vars
  BY <1>17 DEF vars
<1> QED
  BY <1>1, <1>2, <1>3, <1>4, <1>5, <1>6, <1>7, <1>8, <1>9, <1>10, <1>11,
     <1>12, <1>13, <1>14, <1>15, <1>16, <1>17 DEF Next, Step, Release

\* The invariant holds throughout: its four parts are kept together.
LEMMA Inductive == Spec => []IInv
<1>1. IInv /\ [Next]_vars => IInv'
  BY TypeStep, LockStep, TokenStep, LeaseStep DEF IInv
<1> QED
  BY InitIInv, <1>1, PTL DEF Spec

-----------------------------------------------------------------------------

\* The state of the lease manager keeps its types.
THEOREM TypeCorrect == Spec => []TypeOK
  BY Inductive, PTL DEF IInv

\* Single writer: acquire() never gives a target to a thread while another
\* thread of any process holds it.
THEOREM MutualExclusion == Spec => []SingleHolder
<1>1. IInv => SingleHolder
  BY DEF IInv, LockInv, TypeOK, SingleHolder, Holding, FileLocked
<1> QED
  BY Inductive, <1>1, PTL

\* Nobody rewrites the state file of a held target, so validate() is decided
\* by the clock alone.
THEOREM StateIntact == Spec => []ValidUntilExpiry
<1>1. IInv => ValidUntilExpiry
  BY DEF IInv, LeaseInv, ValidUntilExpiry, Validate
<1> QED
  BY Inductive, <1>1, PTL

\* Fencing: the token of a lease that acquire() returns is larger than every
\* token returned for its target before, whatever crashed in between.
THEOREM TokensIncrease == Spec => FreshToken
<1> DEFINE A == \A w \in Workers : pc[w] = "published" /\ pc'[w] = "held"
                                     => lease'[w].token > granted[target[w]]
<1>1. ASSUME IInv, [Next]_vars PROVE [A]_vars
  <2> SUFFICES ASSUME Next, NEW w \in Workers, pc[w] = "published", pc'[w] = "held"
               PROVE  lease'[w].token > granted[target[w]]
    BY <1>1
  <2> USE <1>1
  <2>1. UNCHANGED lease
    BY NoWorkerAssumption, ProcOfAssumption
       DEF IInv, TypeOK, Labels, Goto, Next, Step, Release, Acquire, TakeThreadLock,
       ThreadLockTimeout, TakeFlock, FlockFails, PublishState, SyncState,
       AcquireFails, Unlocked, ReleaseWrite, ReleaseSync, ReleaseFails, UnlockFile,
       UnlockThread, Tick, Crash, PowerLoss, Kill
  <2>2. granted[target[w]] < lease[w].token
    BY DEF IInv, LeaseInv
  <2> QED
    BY <2>1, <2>2 DEF IInv, TypeOK, LeaseState
<1> QED
  BY Inductive, <1>1, PTL DEF Spec, FreshToken

-----------------------------------------------------------------------------
(* The refinement of TargetFence. *)

\* The writer of a target as TargetFence sees it.
Writer == [t \in Targets |-> IF flock[t] # NoWorker /\ Holding(flock[t])
                             THEN flock[t] ELSE NoWorker]

\* A step that changes neither the fence nor who holds what is a stutter.
LEMMA SameHolders ==
    ASSUME IInv, Writer' = Writer, UNCHANGED granted
    PROVE  UNCHANGED Fence!fvars
  BY DEF Fence!fvars, Writer

\* A step that takes some targets from their holders is a Drop.
LEMMA LostHolders ==
    ASSUME NEW ts \in SUBSET Targets, UNCHANGED granted,
           Writer' = [t \in Targets |-> IF t \in ts THEN NoWorker ELSE Writer[t]]
    PROVE  Fence!FNext
<1>1. Fence!Drop(ts)
  BY DEF Fence!Drop, Writer
<1> QED
  BY <1>1 DEF Fence!FNext

\* A step that gives a free target to a worker, with a larger token, is a Grant.
LEMMA NewHolder ==
    ASSUME NEW w \in Workers, NEW t \in Targets, NEW n \in Nat,
           IInv, Writer[t] = NoWorker, n > granted[t],
           Writer' = [Writer EXCEPT ![t] = w],
           granted' = [granted EXCEPT ![t] = n]
    PROVE  Fence!FNext
<1>1. granted'[t] = n
  BY DEF IInv, TypeOK
<1>2. Fence!Grant(w, t)
  BY <1>1 DEF Fence!Grant, Writer
<1> QED
  BY <1>2 DEF Fence!FNext

\* acquire() and release() implement the single-writer fence: only the end of
\* a successful acquire() makes a writer, with a token never given out.
LEMMA FenceStep == IInv /\ [Next]_vars => [Fence!FNext]_(Fence!fvars)
<1> SUFFICES ASSUME IInv, [Next]_vars PROVE Fence!FNext \/ UNCHANGED Fence!fvars
  OBVIOUS
<1> USE NoWorkerAssumption, ProcOfAssumption DEF IInv, TypeOK, Labels, LockInv, FileLocked, Goto, Holding
<1>1. ASSUME NEW w \in Workers, NEW t \in Targets, Acquire(w, t) PROVE UNCHANGED Fence!fvars
  <2>1. Writer' = Writer
    BY <1>1 DEF Acquire, Writer
  <2> QED
    BY <1>1, <2>1, SameHolders DEF Acquire
<1>2. ASSUME NEW w \in Workers, TakeThreadLock(w) PROVE UNCHANGED Fence!fvars
  <2>1. Writer' = Writer
    BY <1>2 DEF TakeThreadLock, Writer
  <2> QED
    BY <1>2, <2>1, SameHolders DEF TakeThreadLock
<1>3. ASSUME NEW w \in Workers, ThreadLockTimeout(w) PROVE UNCHANGED Fence!fvars
  <2>1. Writer' = Writer
    BY <1>3 DEF ThreadLockTimeout, Writer
  <2> QED
    BY <1>3, <2>1, SameHolders DEF ThreadLockTimeout
<1>4. ASSUME NEW w \in Workers, TakeFlock(w) PROVE UNCHANGED Fence!fvars
  <2>1. Writer' = Writer
    BY <1>4 DEF TakeFlock, Writer
  <2> QED
    BY <1>4, <2>1, SameHolders DEF TakeFlock
<1>5. ASSUME NEW w \in Workers, FlockFails(w) PROVE UNCHANGED Fence!fvars
  <2>1. Writer' = Writer
    BY <1>5 DEF FlockFails, Writer
  <2> QED
    BY <1>5, <2>1, SameHolders DEF FlockFails
<1>6. ASSUME NEW w \in Workers, PublishState(w) PROVE UNCHANGED Fence!fvars
  <2>1. Writer' = Writer
    BY <1>6 DEF PublishState, Writer
  <2> QED
    BY <1>6, <2>1, SameHolders DEF PublishState
<1>7. ASSUME NEW w \in Workers, SyncState(w) PROVE Fence!FNext
  <2>1. flock[target[w]] = w /\ Writer[target[w]] = NoWorker
    BY <1>7 DEF SyncState, Writer
  <2>2. Writer' = [Writer EXCEPT ![target[w]] = w]
    <3>1. Writer'[target[w]] = w
      BY <1>7, <2>1 DEF SyncState, Writer
    <3>2. \A t \in Targets \ {target[w]} : Writer'[t] = Writer[t]
      BY <1>7 DEF SyncState, Writer
    <3>3. /\ Writer = [t \in Targets |-> Writer[t]]
          /\ Writer' = [t \in Targets |-> Writer'[t]]
      BY DEF Writer
    <3> QED
      BY <3>1, <3>2, <3>3
  <2>3. /\ granted' = [granted EXCEPT ![target[w]] = lease[w].token]
        /\ lease[w].token \in Nat
        /\ lease[w].token > granted[target[w]]
    BY <1>7 DEF SyncState, LeaseInv, LeaseState
  <2> QED
    BY <2>1, <2>2, <2>3, NewHolder
<1>8. ASSUME NEW w \in Workers, AcquireFails(w) PROVE UNCHANGED Fence!fvars
  <2>1. Writer' = Writer
    BY <1>8 DEF AcquireFails, Unlocked, Writer
  <2> QED
    BY <1>8, <2>1, SameHolders DEF AcquireFails
<1>9. ASSUME NEW w \in Workers, ReleaseWrite(w) PROVE UNCHANGED Fence!fvars
  <2>1. Writer' = Writer
    BY <1>9 DEF ReleaseWrite, Writer
  <2> QED
    BY <1>9, <2>1, SameHolders DEF ReleaseWrite
<1>10. ASSUME NEW w \in Workers, ReleaseSync(w) PROVE Fence!FNext
  <2>1. Writer' = [t \in Targets |-> IF t \in {target[w]} THEN NoWorker ELSE Writer[t]]
    BY <1>10 DEF ReleaseSync, Writer
  <2>2. {target[w]} \in SUBSET Targets
    OBVIOUS
  <2>3. UNCHANGED granted
    BY <1>10 DEF ReleaseSync
  <2> QED
    BY <2>1, <2>2, <2>3, LostHolders
<1>11. ASSUME NEW w \in Workers, ReleaseFails(w) PROVE Fence!FNext
  <2>1. Writer' = [t \in Targets |-> IF t \in {target[w]} THEN NoWorker ELSE Writer[t]]
    BY <1>11 DEF ReleaseFails, Writer
  <2>2. {target[w]} \in SUBSET Targets
    OBVIOUS
  <2>3. UNCHANGED granted
    BY <1>11 DEF ReleaseFails
  <2> QED
    BY <2>1, <2>2, <2>3, LostHolders
<1>12. ASSUME NEW w \in Workers, UnlockFile(w) PROVE UNCHANGED Fence!fvars
  <2>1. Writer' = Writer
    BY <1>12 DEF UnlockFile, Writer
  <2> QED
    BY <1>12, <2>1, SameHolders DEF UnlockFile
<1>13. ASSUME NEW w \in Workers, UnlockThread(w) PROVE UNCHANGED Fence!fvars
  <2>1. Writer' = Writer
    BY <1>13 DEF UnlockThread, Writer
  <2> QED
    BY <1>13, <2>1, SameHolders DEF UnlockThread
<1>14. CASE Tick
  BY <1>14, SameHolders DEF Tick, Writer
<1>15. ASSUME NEW ps \in SUBSET Processes, Kill(ps) PROVE Fence!FNext
  <2> DEFINE ts == {t \in Targets : flock[t] # NoWorker /\ ProcOf[flock[t]] \in ps}
  <2>1. Writer' = [t \in Targets |-> IF t \in ts THEN NoWorker ELSE Writer[t]]
    BY <1>15 DEF Kill, Writer
  <2>2. ts \in SUBSET Targets
    OBVIOUS
  <2>3. UNCHANGED granted
    BY <1>15 DEF Kill
  <2> HIDE DEF ts
  <2> QED
    BY <2>1, <2>2, <2>3, LostHolders
<1>16. ASSUME NEW p \in Processes, Crash(p) PROVE Fence!FNext
  BY <1>15, <1>16 DEF Crash
<1>17. CASE PowerLoss
  BY <1>15, <1>17 DEF PowerLoss
<1>18. CASE UNCHANGED vars
  BY <1>18, SameHolders DEF vars, Writer
<1> QED
  BY <1>1, <1>2, <1>3, <1>4, <1>5, <1>6, <1>7, <1>8, <1>9, <1>10, <1>11,
     <1>12, <1>13, <1>14, <1>16, <1>17, <1>18 DEF Next, Step, Release

\* The two-lock, write-then-fsync protocol of TargetLeaseManager implements
\* the single-writer fence, for every number of processes and targets.
THEOREM Refinement == Spec => ImplementsFence
<1>1. Init => Fence!FInit
  BY DEF Init, Fence!FInit
<1> QED
  BY Inductive, FenceStep, <1>1, PTL DEF Spec, ImplementsFence, Fence!FSpec
=============================================================================
