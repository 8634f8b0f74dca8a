------------------------- MODULE ControlRuntimeProofs -------------------------
(***************************************************************************)
(* What ControlRuntime guarantees for every number of processes, permits,  *)
(* clock readings, faults and recoveries: a permit is dispatched at most   *)
(* once and a grant no more often than it allows, a signed receipt tells   *)
(* the truth, and the receipts implement the anchored chain.               *)
(***************************************************************************)
EXTENDS ControlRuntime, FiniteSetTheorems, SequenceTheorems, TLAPS

\* Where a process works on a permit, and where it may still dispatch it.
Holding == {"start", "dispatch", "write", "reconcile", "receipt"}
Executing(q) == proc[q].pc \in {"start", "dispatch"}

Pcs == Holding \cup {"closed", "idle", "read", "load", "cas"}
PermitOrNone == Permits \cup {None}
Known == States \cup {"none"}
Outcomes == {"none", "applied", "verified", "failed", "unknown"}
Locals == [pc : Pcs, permit : PermitOrNone, known : Known, result : Outcomes,
           len : Nat, expected : Nat, mine : Nat, boot : BOOLEAN]
Effects == {NoEffect} \cup [state : States, version : Nat \ {0}, updated : Nat]

Types ==
    /\ effect \in [Permits -> Effects]
    /\ receipts \in Seq([permit : Permits, version : Nat, state : Receiptable])
    /\ anchor \in Nat /\ returned \in Nat /\ overtaken \subseteq Permits
    /\ proc \in [Procs -> Locals]
    /\ world \in [Permits -> [dispatched : Nat, applied : BOOLEAN]]

\* A process that works on a permit works on one that was claimed.
Claimed ==
    \A q \in Procs :
        /\ proc[q].permit # None <=> proc[q].pc \in Holding
        /\ proc[q].permit # None => effect[proc[q].permit] # NoEffect

\* The grant's use count.
Budget == IsFiniteSet(Used) /\ Cardinality(Used) <= MaxActions

\* What the adapter did leaves a durable trace: an effect past "prepared".
Traced ==
    \A p \in Permits :
        /\ world[p].dispatched <= 1
        /\ world[p].dispatched = 1 => effect[p].version > 1
        /\ world[p].applied => world[p].dispatched = 1
        /\ effect[p].state = "prepared" => effect[p].version = 1

\* A permit has one executor, which has not dispatched it.  Until a recovery
\* overtakes it the executor is alone with its effect and knows its state.
OneExecutor ==
    \A q \in Procs :
        Executing(q) =>
            LET p == proc[q].permit
            IN  /\ world[p].dispatched = 0
                /\ proc[q].pc = "dispatch" => effect[p].version > 1
                /\ \A o \in Procs \ {q} : Executing(o) => proc[o].permit # p
                /\ p \notin overtaken =>
                       /\ effect[p].state = IF proc[q].pc = "start" THEN "prepared" ELSE "started"
                       /\ \A o \in Procs \ {q} : proc[o].permit # p

\* "failed" is true of a permit that was not applied, and stays true unless the
\* permit was overtaken.
MayFail(p) == world[p].applied => p \in overtaken

\* What is recorded about an effect, and what a process is about to record, is true.
Truth ==
    /\ \A p \in Permits :
           /\ effect[p].state = "verified" => world[p].applied
           /\ effect[p].state = "failed" => MayFail(p)
    /\ \A q \in Procs :
           proc[q].pc = "write" =>
               /\ proc[q].result = "verified" => world[proc[q].permit].applied
               /\ proc[q].result = "failed" => MayFail(proc[q].permit)

\* A receipt repeats a state its effect has or had; a final one still has it.
Receipted ==
    \A i \in 1..Len(receipts) :
        LET r == receipts[i]
            e == effect[r.permit]
        IN  /\ e # NoEffect /\ r.version <= e.version
            /\ r.version = e.version => r.state = e.state
            /\ r.state \in Promise!Final => r.version = e.version

\* No process has seen more of the chain than there is, a process that may move
\* the head moves it forward, and a receipt is returned under the head.
Anchored ==
    /\ returned <= anchor /\ anchor <= Len(receipts)
    /\ \A q \in Procs :
           /\ proc[q].mine <= Len(receipts) /\ proc[q].len <= Len(receipts)
           /\ proc[q].pc \in {"load", "cas"} => proc[q].mine <= proc[q].len
           /\ proc[q].pc = "cas" => proc[q].expected < proc[q].len

IInv == /\ Types /\ Claimed /\ Budget /\ Traced /\ OneExecutor
        /\ Truth /\ Receipted /\ Anchored

-----------------------------------------------------------------------------

\* The constants the process records are made of.
LEMMA LocalFacts ==
    /\ Closed \in Locals
    /\ "start" \in Pcs /\ "dispatch" \in Pcs /\ "write" \in Pcs /\ "reconcile" \in Pcs
    /\ "receipt" \in Pcs /\ "closed" \in Pcs /\ "idle" \in Pcs /\ "read" \in Pcs
    /\ "load" \in Pcs /\ "cas" \in Pcs
    /\ \A p \in Permits : p \in PermitOrNone
    /\ \A s \in States : s \in Known
    /\ \A s \in Outcomes : s \in Known
    /\ "prepared" \in Known /\ "started" \in Known /\ "applied" \in Known
    /\ "none" \in Outcomes /\ "applied" \in Outcomes /\ "verified" \in Outcomes
    /\ "failed" \in Outcomes /\ "unknown" \in Outcomes
BY DEF Closed, Locals, Pcs, Holding, PermitOrNone, Known, States, Outcomes


\* Every step of the runtime keeps the types of its processes.
LEMMA ProcStep == Types /\ Claimed /\ [Next]_vars => (proc \in [Procs -> Locals])'
<1> SUFFICES ASSUME Types, Claimed, [Next]_vars PROVE (proc \in [Procs -> Locals])'
  OBVIOUS
<1>a. proc \in [Procs -> Locals] /\ anchor \in Nat /\ Len(receipts) \in Nat
  BY DEF Types
<1> USE <1>a DEF At
<1>1. ASSUME NEW q \in Procs, Refuse(q) PROVE (proc \in [Procs -> Locals])'
  <2>1. proc'[q] \in Locals
    BY <1>1, LocalFacts DEF Refuse, Locals
  <2>2. proc' = [proc EXCEPT ![q] = proc'[q]]
    BY <1>1 DEF Refuse
  <2> QED
    BY <2>1, <2>2
<1>2. ASSUME NEW q \in Procs, Dispatch(q) PROVE (proc \in [Procs -> Locals])'
  <2>1. PICK reply \in Outcomes : proc' = [proc EXCEPT ![q].pc = "write", ![q].result = reply]
    BY <1>2 DEF Dispatch, Outcomes
  <2>2. proc'[q] \in Locals
    BY <2>1, LocalFacts DEF Locals
  <2>3. proc' = [proc EXCEPT ![q] = proc'[q]]
    BY <2>1
  <2> QED
    BY <2>2, <2>3
<1>3. ASSUME NEW q \in Procs, Reconcile(q) PROVE (proc \in [Procs -> Locals])'
  <2>1. PICK result \in Outcomes, pc \in {"receipt", "write"} :
             proc' = [proc EXCEPT ![q].result = result, ![q].pc = pc]
    BY <1>3 DEF Reconcile, Outcomes
  <2>2. proc'[q] \in Locals
    BY <2>1, LocalFacts DEF Locals
  <2>3. proc' = [proc EXCEPT ![q] = proc'[q]]
    BY <2>1
  <2> QED
    BY <2>2, <2>3
<1>4. ASSUME NEW q \in Procs, Receipt(q) PROVE (proc \in [Procs -> Locals])'
  <2> DEFINE old == IndexOf(proc[q].permit, effect[proc[q].permit].version)
             mine == IF old # {} THEN CHOOSE i \in old : TRUE ELSE Len(receipts) + 1
  <2>1. mine \in Nat
    BY DEF IndexOf
  <2> HIDE DEF mine
  <2>2. proc' = [proc EXCEPT ![q] = [Idle(q) EXCEPT !.pc = "read", !.mine = mine]]
    BY <1>4 DEF Receipt, mine
  <2>3. Idle(q) \in Locals
    BY LocalFacts DEF Idle, Locals
  <2> QED
    BY <2>1, <2>2, <2>3, LocalFacts DEF Locals
<1>5. ASSUME NEW q \in Procs, Open(q) PROVE (proc \in [Procs -> Locals])'
  <2>1. proc'[q] \in Locals
    BY <1>5, LocalFacts DEF Open, Locals
  <2>2. proc' = [proc EXCEPT ![q] = proc'[q]]
    BY <1>5 DEF Open
  <2> QED
    BY <2>1, <2>2
<1>6. ASSUME NEW q \in Procs, ReadChain(q) PROVE (proc \in [Procs -> Locals])'
  <2>1. proc'[q] \in Locals
    BY <1>6, LocalFacts DEF ReadChain, Locals
  <2>2. proc' = [proc EXCEPT ![q] = proc'[q]]
    BY <1>6 DEF ReadChain
  <2> QED
    BY <2>1, <2>2
<1>7. ASSUME NEW q \in Procs, LoadBehind(q) PROVE (proc \in [Procs -> Locals])'
  <2>1. proc'[q] \in Locals
    BY <1>7, LocalFacts DEF LoadBehind, Locals
  <2>2. proc' = [proc EXCEPT ![q] = proc'[q]]
    BY <1>7 DEF LoadBehind
  <2> QED
    BY <2>1, <2>2
<1>8. ASSUME NEW q \in Procs, LoadAhead(q) PROVE (proc \in [Procs -> Locals])'
  <2>1. proc'[q] \in Locals
    BY <1>8, LocalFacts DEF LoadAhead, Locals
  <2>2. proc' = [proc EXCEPT ![q] = proc'[q]]
    BY <1>8 DEF LoadAhead
  <2> QED
    BY <2>1, <2>2
<1>9. ASSUME NEW q \in Procs, LoadSame(q) PROVE (proc \in [Procs -> Locals])'
  <2>1. proc'[q] \in Locals
    BY <1>9, LocalFacts DEF LoadSame, Idle, Locals
  <2>2. proc' = [proc EXCEPT ![q] = proc'[q]]
    BY <1>9 DEF LoadSame, Idle
  <2> QED
    BY <2>1, <2>2
<1>10. ASSUME NEW q \in Procs, CompareAndSet(q) PROVE (proc \in [Procs -> Locals])'
  <2>1. CASE anchor = proc[q].expected
    <3>1. proc' = [proc EXCEPT ![q].pc = "load", ![q].expected = 0, ![q].boot = FALSE]
      BY <1>10, <2>1 DEF CompareAndSet
    <3> QED
      BY <3>1, LocalFacts DEF Locals
  <2>2. CASE anchor # proc[q].expected
    <3>1. proc' = [proc EXCEPT ![q].pc = "load", ![q].expected = 0, ![q].len = Len(receipts)]
      BY <1>10, <2>2 DEF CompareAndSet
    <3> QED
      BY <3>1, LocalFacts DEF Locals
  <2> QED
    BY <2>1, <2>2
<1>11. ASSUME NEW q \in Procs, NEW p \in Permits, Recover(q, p) PROVE (proc \in [Procs -> Locals])'
  <2>1. effect[p].state \in States
    BY <1>11 DEF Recover, Types, Used, Effects, NoEffect
  <2>2. PICK result \in Outcomes, pc \in {"write", "receipt", "reconcile"} :
             proc' = [proc EXCEPT ![q].permit = p, ![q].known = effect[p].state,
                                  ![q].result = result, ![q].pc = pc]
    BY <1>11 DEF Recover, Outcomes
  <2>3. proc'[q] \in Locals
    BY <2>1, <2>2, LocalFacts DEF Locals
  <2>4. proc' = [proc EXCEPT ![q] = proc'[q]]
    BY <2>2
  <2> QED
    BY <2>3, <2>4
<1>12. ASSUME NEW q \in Procs, NEW t \in Times, Start(q, t) PROVE (proc \in [Procs -> Locals])'
  <2>1. proc'[q] \in Locals
    BY <1>12, LocalFacts DEF Start, Moves, Allowed, Locals
  <2>2. proc' = [proc EXCEPT ![q] = proc'[q]]
    BY <1>12 DEF Start, Moves, Allowed
  <2> QED
    BY <2>1, <2>2
<1>13. ASSUME NEW q \in Procs, NEW t \in Times, Write(q, t) PROVE (proc \in [Procs -> Locals])'
  <2>1. proc'[q] \in Locals
    BY <1>13, LocalFacts DEF Write, Moves, Allowed, NewState, Locals
  <2>2. proc' = [proc EXCEPT ![q] = proc'[q]]
    BY <1>13 DEF Write, Moves, Allowed, NewState
  <2> QED
    BY <2>1, <2>2
<1>14. ASSUME NEW q \in Procs, NEW p \in Permits, NEW t \in Times, Claim(q, p, t) PROVE (proc \in [Procs -> Locals])'
  <2>1. proc'[q] \in Locals
    BY <1>14, LocalFacts DEF Claim, Locals
  <2>2. proc' = [proc EXCEPT ![q] = proc'[q]]
    BY <1>14 DEF Claim
  <2> QED
    BY <2>1, <2>2
<1>15. ASSUME NEW q \in Procs, Reject(q) PROVE (proc \in [Procs -> Locals])'
  <2>1. proc'[q] \in Locals
    BY <1>15, LocalFacts DEF Reject, Raised, Idle, Locals
  <2>2. proc' = [proc EXCEPT ![q] = proc'[q]]
    BY <1>15 DEF Reject, Raised, Idle
  <2> QED
    BY <2>1, <2>2
<1>16. ASSUME NEW q \in Procs, Raise(q) PROVE (proc \in [Procs -> Locals])'
  <2>1. proc'[q] \in Locals
    BY <1>16, LocalFacts DEF Raise, Raised, Idle, Fault, Locals
  <2>2. proc' = [proc EXCEPT ![q] = proc'[q]]
    BY <1>16 DEF Raise, Raised, Idle, Fault
  <2> QED
    BY <2>1, <2>2
<1>17. ASSUME NEW q \in Procs, AnchorLost(q) PROVE (proc \in [Procs -> Locals])'
  <2>1. proc'[q] \in Locals
    BY <1>17, LocalFacts DEF AnchorLost, Raised, Idle, Fault, Candidate, Locals
  <2>2. proc' = [proc EXCEPT ![q] = proc'[q]]
    BY <1>17 DEF AnchorLost, Raised, Idle, Fault, Candidate
  <2> QED
    BY <2>1, <2>2
<1>18. ASSUME NEW q \in Procs, Crash(q) PROVE (proc \in [Procs -> Locals])'
  <2>1. proc'[q] \in Locals
    BY <1>18, LocalFacts DEF Crash, Fault, Locals
  <2>2. proc' = [proc EXCEPT ![q] = proc'[q]]
    BY <1>18 DEF Crash, Fault
  <2> QED
    BY <2>1, <2>2
<1>19. ASSUME NEW x \in Revocable, Revoke(x) PROVE (proc \in [Procs -> Locals])'
  BY <1>19 DEF Revoke, Fault
<1>20. CASE UNCHANGED vars
  BY <1>20 DEF vars, journal, bounds, hist
<1> QED
  BY <1>1, <1>2, <1>3, <1>4, <1>5, <1>6, <1>7, <1>8, <1>9, <1>10, <1>11, <1>12, <1>13, <1>14, <1>15, <1>16, <1>17, <1>18, <1>19, <1>20 DEF Next, Step

\* transition() moves one effect, along _ALLOWED_TRANSITIONS and to a new version.
LEMMA MovesFacts ==
    ASSUME Types, NEW p \in Permits, effect[p] # NoEffect, NEW new, NEW t \in Times, Moves(p, new, t)
    PROVE  /\ effect' \in [Permits -> Effects]
           /\ effect[p].state \in States \ Promise!Final
           /\ new \in States \ {"prepared"}
           /\ effect[p].state = "unknown" => new \in Promise!Final
           /\ new = "started" => effect[p].state = "prepared"
           /\ effect'[p] # NoEffect /\ effect'[p].state = new
           /\ effect[p].version \in Nat \ {0} /\ effect'[p].version = effect[p].version + 1
           /\ \A o \in Permits \ {p} : effect'[o] = effect[o]
<1>1. effect[p] \in [state : States, version : Nat \ {0}, updated : Nat]
  BY DEF Types, Effects
<1>2. effect[p].state \in States \ Promise!Final /\ new \in States \ {"prepared"}
  BY <1>1 DEF Moves, Allowed, States, Promise!Final
<1>3. /\ effect[p].state = "unknown" => new \in Promise!Final
      /\ new = "started" => effect[p].state = "prepared"
  BY <1>1 DEF Moves, Allowed, States, Promise!Final
<1> DEFINE upd == IF Allowed[new] = {} THEN 0 ELSE t
<1>4. upd \in Nat
  BY ConstantsAssumption
<1> HIDE DEF upd
<1>5. effect' = [effect EXCEPT ![p] = [state |-> new, version |-> effect[p].version + 1, updated |-> upd]]
  BY DEF Moves, upd
<1>6. [state |-> new, version |-> effect[p].version + 1, updated |-> upd]
          \in [state : States, version : Nat \ {0}, updated : Nat]
  BY <1>1, <1>2, <1>4
<1>7. effect' \in [Permits -> Effects] /\ effect'[p] # NoEffect
  BY <1>5, <1>6 DEF Types, Effects, NoEffect, States
<1> QED
  BY <1>1, <1>2, <1>3, <1>5, <1>7 DEF Types


\* Every step of the runtime keeps the types of its state.
LEMMA TypesStep == Types /\ Claimed /\ [Next]_vars => Types'
<1> SUFFICES ASSUME Types, Claimed, [Next]_vars PROVE Types'
  OBVIOUS
<1> USE ProcStep DEF Types, At, journal, hist
<1>1. ASSUME NEW q \in Procs, Refuse(q) PROVE Types'
  BY <1>1 DEF Refuse
<1>2. ASSUME NEW q \in Procs, Dispatch(q) PROVE Types'
  <2>1. PICK applied \in BOOLEAN :
             world' = [world EXCEPT ![proc[q].permit].dispatched = @ + 1,
                                    ![proc[q].permit].applied = @ \/ applied]
    BY <1>2 DEF Dispatch
  <2>2. proc[q].permit \in Permits
    BY <1>2 DEF Dispatch, Claimed, Holding, Locals, PermitOrNone
  <2> DEFINE b == world[proc[q].permit].applied \/ applied
  <2>3. b \in BOOLEAN
    OBVIOUS
  <2>4. world' = [world EXCEPT ![proc[q].permit].dispatched = @ + 1, ![proc[q].permit].applied = b]
    BY <2>1
  <2> HIDE DEF b
  <2>5. world' \in [Permits -> [dispatched : Nat, applied : BOOLEAN]]
    BY <2>2, <2>3, <2>4
  <2> QED
    BY <1>2, <2>5 DEF Dispatch
<1>3. ASSUME NEW q \in Procs, Reconcile(q) PROVE Types'
  BY <1>3 DEF Reconcile
<1>4. ASSUME NEW q \in Procs, Receipt(q) PROVE Types'
  <2>1. proc[q].permit \in Permits
    BY <1>4 DEF Receipt, Claimed, Holding, Locals, PermitOrNone
  <2>2. effect[proc[q].permit].version \in Nat
    BY <2>1, effect[proc[q].permit] \in Effects DEF Effects, NoEffect
  <2> DEFINE new == [permit |-> proc[q].permit, version |-> effect[proc[q].permit].version,
                     state |-> effect[proc[q].permit].state]
  <2>3. new \in [permit : Permits, version : Nat, state : Receiptable]
    BY <1>4, <2>1, <2>2 DEF Receipt
  <2> HIDE DEF new
  <2>4. receipts' = receipts \/ receipts' = Append(receipts, new)
    BY <1>4 DEF Receipt, new
  <2>5. receipts' \in Seq([permit : Permits, version : Nat, state : Receiptable])
    <3> DEFINE R == [permit : Permits, version : Nat, state : Receiptable]
    <3>1. receipts \in Seq(R) /\ new \in R
      BY <2>3
    <3> HIDE DEF R
    <3>2. receipts' \in Seq(R)
      BY ONLY <2>4, <3>1, AppendProperties
    <3> QED
      BY <3>2 DEF R
  <2> QED
    BY <1>4, <2>5 DEF Receipt
<1>5. ASSUME NEW q \in Procs, Open(q) PROVE Types'
  BY <1>5 DEF Open
<1>6. ASSUME NEW q \in Procs, ReadChain(q) PROVE Types'
  BY <1>6 DEF ReadChain
<1>7. ASSUME NEW q \in Procs, LoadBehind(q) PROVE Types'
  BY <1>7 DEF LoadBehind
<1>8. ASSUME NEW q \in Procs, LoadAhead(q) PROVE Types'
  BY <1>8 DEF LoadAhead
<1>9. ASSUME NEW q \in Procs, LoadSame(q) PROVE Types'
  <2>1. returned' \in Nat
    BY <1>9 DEF LoadSame, Locals
  <2> QED
    BY <1>9, <2>1 DEF LoadSame
<1>10. ASSUME NEW q \in Procs, CompareAndSet(q) PROVE Types'
  <2>1. anchor' \in Nat
    BY <1>10 DEF CompareAndSet, Candidate, Locals
  <2> QED
    BY <1>10, <2>1 DEF CompareAndSet
<1>11. ASSUME NEW q \in Procs, NEW p \in Permits, Recover(q, p) PROVE Types'
  BY <1>11 DEF Recover
<1>12. ASSUME NEW q \in Procs, NEW t \in Times, Start(q, t) PROVE Types'
  <2>1. proc[q].permit \in Permits /\ effect[proc[q].permit] # NoEffect
    BY <1>12 DEF Start, Claimed, Holding, Locals, PermitOrNone
  <2>2. effect' \in [Permits -> Effects]
    BY <1>12, <2>1, MovesFacts DEF Start
  <2> QED
    BY <1>12, <2>2 DEF Start
<1>13. ASSUME NEW q \in Procs, NEW t \in Times, Write(q, t) PROVE Types'
  <2>1. proc[q].permit \in Permits /\ effect[proc[q].permit] # NoEffect
    BY <1>13 DEF Write, Claimed, Holding, Locals, PermitOrNone
  <2>2. effect' \in [Permits -> Effects]
    BY <1>13, <2>1, MovesFacts DEF Write
  <2> QED
    BY <1>13, <2>2 DEF Write
<1>14. ASSUME NEW q \in Procs, NEW p \in Permits, NEW t \in Times, Claim(q, p, t) PROVE Types'
  <2>1. [state |-> "prepared", version |-> 1, updated |-> t] \in Effects
    BY ConstantsAssumption DEF Effects, States
  <2>2. effect' \in [Permits -> Effects]
    BY <1>14, <2>1 DEF Claim
  <2> QED
    BY <1>14, <2>2 DEF Claim
<1>15. ASSUME NEW q \in Procs, Reject(q) PROVE Types'
  BY <1>15 DEF Reject, Raised, Idle
<1>16. ASSUME NEW q \in Procs, Raise(q) PROVE Types'
  BY <1>16 DEF Raise, Raised, Idle, Fault
<1>17. ASSUME NEW q \in Procs, AnchorLost(q) PROVE Types'
  <2>1. anchor' \in Nat
    BY <1>17 DEF AnchorLost, Candidate, Locals
  <2> QED
    BY <1>17, <2>1 DEF AnchorLost
<1>18. ASSUME NEW q \in Procs, Crash(q) PROVE Types'
  BY <1>18 DEF Crash, Fault
<1>19. ASSUME NEW x \in Revocable, Revoke(x) PROVE Types'
  BY <1>19 DEF Revoke, Fault
<1>20. CASE UNCHANGED vars
  BY <1>20 DEF vars, journal, bounds, hist
<1> QED
  BY <1>1, <1>2, <1>3, <1>4, <1>5, <1>6, <1>7, <1>8, <1>9, <1>10, <1>11, <1>12, <1>13, <1>14, <1>15, <1>16, <1>17, <1>18, <1>19, <1>20 DEF Next, Step

\* A process takes up a permit with claim() or recover() and puts it down when the
\* call ends, and a claim is never undone.
LEMMA ClaimedStep == Types /\ Claimed /\ [Next]_vars => Claimed'
<1> SUFFICES ASSUME Types, Claimed, [Next]_vars PROVE Claimed'
  OBVIOUS
<1> USE ConstantsAssumption DEF Types, Claimed, Locals, At, Closed, Holding, journal, hist
<1>1. ASSUME NEW q \in Procs, Refuse(q) PROVE Claimed'
  BY <1>1 DEF Refuse
<1>2. ASSUME NEW q \in Procs, Dispatch(q) PROVE Claimed'
  BY <1>2 DEF Dispatch
<1>3. ASSUME NEW q \in Procs, Reconcile(q) PROVE Claimed'
  BY <1>3 DEF Reconcile
<1>4. ASSUME NEW q \in Procs, Receipt(q) PROVE Claimed'
  BY <1>4 DEF Receipt, Idle
<1>5. ASSUME NEW q \in Procs, Open(q) PROVE Claimed'
  BY <1>5 DEF Open
<1>6. ASSUME NEW q \in Procs, ReadChain(q) PROVE Claimed'
  BY <1>6 DEF ReadChain
<1>7. ASSUME NEW q \in Procs, LoadBehind(q) PROVE Claimed'
  BY <1>7 DEF LoadBehind
<1>8. ASSUME NEW q \in Procs, LoadAhead(q) PROVE Claimed'
  BY <1>8 DEF LoadAhead
<1>9. ASSUME NEW q \in Procs, LoadSame(q) PROVE Claimed'
  BY <1>9 DEF LoadSame, Idle
<1>10. ASSUME NEW q \in Procs, CompareAndSet(q) PROVE Claimed'
  <2>1. /\ proc[q].pc = "cas" /\ proc'[q].pc = "load" /\ proc'[q].permit = proc[q].permit
        /\ \A o \in Procs \ {q} : proc'[o] = proc[o]
        /\ effect' = effect
    BY <1>10 DEF CompareAndSet
  <2> QED
    BY <2>1
<1>11. ASSUME NEW q \in Procs, NEW p \in Permits, Recover(q, p) PROVE Claimed'
  BY <1>11 DEF Recover
<1>12. ASSUME NEW q \in Procs, NEW t \in Times, Start(q, t) PROVE Claimed'
  <2>1. proc[q].permit \in Permits /\ effect[proc[q].permit] # NoEffect
    BY <1>12 DEF Start, PermitOrNone
  <2>2. \A p \in Permits : effect[p] # NoEffect => effect'[p] # NoEffect
    BY <1>12, <2>1, MovesFacts DEF Start
  <2>3. \A o \in Procs :
           /\ proc'[o].permit = proc[o].permit
           /\ proc'[o].pc \in Holding <=> proc[o].pc \in Holding
           /\ proc[o].permit # None => proc[o].permit \in Permits
    BY <1>12 DEF Start, PermitOrNone
  <2> QED
    BY ONLY Claimed, <2>2, <2>3 DEF Claimed
<1>13. ASSUME NEW q \in Procs, NEW t \in Times, Write(q, t) PROVE Claimed'
  <2>1. proc[q].permit \in Permits /\ effect[proc[q].permit] # NoEffect
    BY <1>13 DEF Write, PermitOrNone
  <2>2. \A p \in Permits : effect[p] # NoEffect => effect'[p] # NoEffect
    BY <1>13, <2>1, MovesFacts DEF Write
  <2>3. \A o \in Procs :
           /\ proc'[o].permit = proc[o].permit
           /\ proc'[o].pc \in Holding <=> proc[o].pc \in Holding
           /\ proc[o].permit # None => proc[o].permit \in Permits
    BY <1>13 DEF Write, PermitOrNone
  <2> QED
    BY ONLY Claimed, <2>2, <2>3 DEF Claimed
<1>14. ASSUME NEW q \in Procs, NEW p \in Permits, NEW t \in Times, Claim(q, p, t) PROVE Claimed'
  <2>1. \A r \in Permits : effect[r] # NoEffect => effect'[r] # NoEffect
    BY <1>14 DEF Claim, NoEffect
  <2>2. effect'[p] # NoEffect /\ proc'[q].permit = p /\ proc'[q].pc = "start"
    BY <1>14 DEF Claim, NoEffect
  <2>3. \A o \in Procs \ {q} :
           proc'[o] = proc[o] /\ (proc[o].permit # None => proc[o].permit \in Permits)
    BY <1>14 DEF Claim, PermitOrNone
  <2> QED
    BY ONLY Claimed, ConstantsAssumption, p \in Permits, <2>1, <2>2, <2>3 DEF Claimed, Holding
<1>15. ASSUME NEW q \in Procs, Reject(q) PROVE Claimed'
  BY <1>15 DEF Reject, Raised, Idle
<1>16. ASSUME NEW q \in Procs, Raise(q) PROVE Claimed'
  BY <1>16 DEF Raise, Raised, Idle, Fault
<1>17. ASSUME NEW q \in Procs, AnchorLost(q) PROVE Claimed'
  BY <1>17 DEF AnchorLost, Raised, Idle, Fault, Candidate
<1>18. ASSUME NEW q \in Procs, Crash(q) PROVE Claimed'
  BY <1>18 DEF Crash, Fault
<1>19. ASSUME NEW x \in Revocable, Revoke(x) PROVE Claimed'
  BY <1>19 DEF Revoke, Fault
<1>20. CASE UNCHANGED vars
  BY <1>20 DEF vars, journal, bounds, hist
<1> QED
  BY <1>1, <1>2, <1>3, <1>4, <1>5, <1>6, <1>7, <1>8, <1>9, <1>10, <1>11, <1>12, <1>13, <1>14, <1>15, <1>16, <1>17, <1>18, <1>19, <1>20 DEF Next, Step

-----------------------------------------------------------------------------
(* What became of an effect does not depend on how a call ends, on the receipts or *)
(* on their anchor, so the steps there are looked at together.                     *)

\* A step of q outside of the permits: q holds none afterwards.
Leaves(q) ==
    /\ UNCHANGED <<effect, world, overtaken>>
    /\ proc'[q].pc \notin Holding /\ proc'[q].permit = None
    /\ \A o \in Procs \ {q} : proc'[o] = proc[o]

\* The steps that a permit is concerned with, and the ones it is not.
LEMMA Split ==
    ASSUME Types, Claimed, [Next]_vars
    PROVE  \/ \E q \in Procs : Leaves(q) \/ Refuse(q) \/ Dispatch(q) \/ Reconcile(q)
           \/ \E q \in Procs, p \in Permits : Recover(q, p)
           \/ \E q \in Procs, t \in Times : Start(q, t) \/ Write(q, t)
           \/ \E q \in Procs, p \in Permits, t \in Times : Claim(q, p, t)
           \/ UNCHANGED <<effect, proc, world, overtaken>>
<1> USE DEF Types, Claimed, Locals, Holding, Leaves, At, Closed, Idle, journal, hist
<1>1. ASSUME NEW q \in Procs, Receipt(q) PROVE Leaves(q)
  BY <1>1 DEF Receipt
<1>2. ASSUME NEW q \in Procs, Open(q) PROVE Leaves(q)
  BY <1>2 DEF Open
<1>3. ASSUME NEW q \in Procs, ReadChain(q) PROVE Leaves(q)
  BY <1>3 DEF ReadChain
<1>4. ASSUME NEW q \in Procs, LoadBehind(q) PROVE Leaves(q)
  BY <1>4 DEF LoadBehind
<1>5. ASSUME NEW q \in Procs, LoadAhead(q) PROVE Leaves(q)
  BY <1>5 DEF LoadAhead
<1>6. ASSUME NEW q \in Procs, LoadSame(q) PROVE Leaves(q)
  BY <1>6 DEF LoadSame
<1>7. ASSUME NEW q \in Procs, CompareAndSet(q) PROVE Leaves(q)
  <2>1. /\ proc[q].pc = "cas" /\ proc'[q].pc = "load" /\ proc'[q].permit = proc[q].permit
        /\ \A o \in Procs \ {q} : proc'[o] = proc[o]
        /\ UNCHANGED <<effect, world, overtaken>>
    BY <1>7 DEF CompareAndSet
  <2> QED
    BY <2>1
<1>8. ASSUME NEW q \in Procs, Reject(q) PROVE Leaves(q)
  BY <1>8 DEF Reject, Raised
<1>9. ASSUME NEW q \in Procs, Raise(q) PROVE Leaves(q)
  BY <1>9 DEF Raise, Raised
<1>10. ASSUME NEW q \in Procs, AnchorLost(q) PROVE Leaves(q)
  BY <1>10 DEF AnchorLost, Raised
<1>11. ASSUME NEW q \in Procs, Crash(q) PROVE Leaves(q)
  BY <1>11 DEF Crash
<1>12. ASSUME NEW x \in Revocable, Revoke(x) PROVE UNCHANGED <<effect, proc, world, overtaken>>
  BY <1>12 DEF Revoke
<1>13. CASE UNCHANGED vars
  BY <1>13 DEF vars
<1> HIDE DEF Types, Claimed, Locals, Holding, Leaves, At, Closed, Idle, journal, hist
<1> QED
  BY <1>1, <1>2, <1>3, <1>4, <1>5, <1>6, <1>7, <1>8, <1>9, <1>10, <1>11, <1>12, <1>13
     DEF Next, Step

\* The permit of a process that works on one.
LEMMA PermitFacts ==
    ASSUME Types, Claimed, NEW q \in Procs, proc[q].pc \in Holding
    PROVE  proc[q].permit \in Permits /\ effect[proc[q].permit] # NoEffect
BY DEF Types, Claimed, Locals, PermitOrNone

\* Only claim() uses the grant up, and it counts what it uses.
LEMMA BudgetStep == Types /\ Claimed /\ Budget /\ [Next]_vars => Budget'
<1> SUFFICES ASSUME Types, Claimed, Budget, [Next]_vars PROVE Budget'
  OBVIOUS
<1>1. ASSUME Used' = Used PROVE Budget'
  BY <1>1 DEF Budget
<1>2. ASSUME UNCHANGED effect PROVE Budget'
  BY <1>1, <1>2 DEF Used
<1>3. ASSUME NEW q \in Procs, NEW t \in Times, Start(q, t) \/ Write(q, t) PROVE Budget'
  <2>1. proc[q].permit \in Permits /\ effect[proc[q].permit] # NoEffect
    BY <1>3, PermitFacts DEF Start, Write, At, Holding
  <2>2. \A p \in Permits : effect'[p] # NoEffect <=> effect[p] # NoEffect
    BY <1>3, <2>1, MovesFacts DEF Start, Write
  <2> QED
    BY <1>1, <2>2 DEF Used
<1>4. ASSUME NEW q \in Procs, NEW p \in Permits, NEW t \in Times, Claim(q, p, t) PROVE Budget'
  <2>1. Used' = Used \cup {p}
    BY <1>4 DEF Claim, Used, NoEffect, Types
  <2>2. IsFiniteSet(Used) /\ p \notin Used /\ Cardinality(Used) < MaxActions
    BY <1>4 DEF Claim, Budget
  <2>3. IsFiniteSet(Used') /\ Cardinality(Used') = Cardinality(Used) + 1 /\ Cardinality(Used) \in Nat
    BY <2>1, <2>2, FS_AddElement, FS_CardinalityType
  <2> QED
    BY <2>2, <2>3, ConstantsAssumption DEF Budget
<1> QED
  BY Split, <1>2, <1>3, <1>4
     DEF Leaves, Refuse, Dispatch, Reconcile, Recover, journal

\* dispatch() runs for an executor only, whose effect is past "prepared".
LEMMA TracedStep == Types /\ Claimed /\ Traced /\ OneExecutor /\ [Next]_vars => Traced'
<1> SUFFICES ASSUME Types, Claimed, Traced, OneExecutor, [Next]_vars PROVE Traced'
  OBVIOUS
<1>1. ASSUME UNCHANGED <<effect, world>> PROVE Traced'
  BY <1>1 DEF Traced
<1>2. ASSUME NEW q \in Procs, Dispatch(q) PROVE Traced'
  <2>1. /\ proc[q].permit \in Permits
        /\ world[proc[q].permit].dispatched = 0
        /\ effect[proc[q].permit].version > 1
    BY <1>2, PermitFacts DEF Dispatch, At, Holding, OneExecutor, Executing
  <2>2. /\ world'[proc[q].permit].dispatched = world[proc[q].permit].dispatched + 1
        /\ \A p \in Permits \ {proc[q].permit} : world'[p] = world[p]
        /\ UNCHANGED effect
    BY <1>2, <2>1 DEF Dispatch, Types, journal
  <2> QED
    BY <2>1, <2>2 DEF Traced
<1>3. ASSUME NEW q \in Procs, NEW t \in Times, Start(q, t) \/ Write(q, t) PROVE Traced'
  <2>1. proc[q].permit \in Permits /\ effect[proc[q].permit] # NoEffect
    BY <1>3, PermitFacts DEF Start, Write, At, Holding
  <2>2. /\ effect'[proc[q].permit].state # "prepared"
        /\ effect[proc[q].permit].version \in Nat
        /\ effect'[proc[q].permit].version = effect[proc[q].permit].version + 1
        /\ \A o \in Permits \ {proc[q].permit} : effect'[o] = effect[o]
    BY <1>3, <2>1, MovesFacts DEF Start, Write
  <2>3. UNCHANGED world
    BY <1>3 DEF Start, Write
  <2> QED
    BY <2>1, <2>2, <2>3 DEF Traced
<1>4. ASSUME NEW q \in Procs, NEW p \in Permits, NEW t \in Times, Claim(q, p, t) PROVE Traced'
  <2>1. /\ effect'[p].state = "prepared" /\ effect'[p].version = 1
        /\ \A o \in Permits \ {p} : effect'[o] = effect[o]
        /\ effect[p].version = 0 /\ UNCHANGED world
    BY <1>4 DEF Claim, Types, Used, NoEffect
  <2> QED
    BY <2>1 DEF Traced
<1> QED
  BY Split, <1>1, <1>2, <1>3, <1>4 DEF Leaves, Refuse, Reconcile, Recover, journal

\* Only claim() makes an executor, of a permit nobody worked on, and only a step of
\* the executor itself or a recovery, which overtakes it, touches its effect.
LEMMA OneExecutorStep == Types /\ Claimed /\ Traced /\ OneExecutor /\ [Next]_vars => OneExecutor'
<1> SUFFICES ASSUME Types, Claimed, Traced, OneExecutor, [Next]_vars PROVE OneExecutor'
  OBVIOUS
<1>1. ASSUME NEW q \in Procs, UNCHANGED <<effect, world, overtaken>>,
             proc'[q].pc \notin {"start", "dispatch"}, proc'[q].permit \in {None, proc[q].permit},
             \A o \in Procs \ {q} : proc'[o] = proc[o]
      PROVE  OneExecutor'
  <2>1. \A o \in Procs : Executing(o) => proc[o].permit # None
    BY DEF Claimed, Executing, Holding
  <2> QED
    BY <1>1, <2>1 DEF OneExecutor, Executing
<1>2. ASSUME NEW q \in Procs, Leaves(q) PROVE OneExecutor'
  BY <1>1, <1>2 DEF Leaves, Holding
<1>3. ASSUME NEW q \in Procs, Refuse(q) \/ Reconcile(q) PROVE OneExecutor'
  <2>1. /\ UNCHANGED <<effect, world, overtaken>>
        /\ proc'[q].pc \notin {"start", "dispatch"} /\ proc'[q].permit = proc[q].permit
        /\ \A o \in Procs \ {q} : proc'[o] = proc[o]
    BY <1>3 DEF Refuse, Reconcile, Types, Locals, journal, hist
  <2> QED
    BY <1>1, <2>1
<1>4. ASSUME NEW q \in Procs, Dispatch(q) PROVE OneExecutor'
  <2>1. proc[q].permit \in Permits /\ Executing(q)
    BY <1>4, PermitFacts DEF Dispatch, At, Holding, Executing
  <2>2. /\ proc'[q].pc = "write" /\ proc'[q].permit = proc[q].permit
        /\ \A o \in Procs \ {q} : proc'[o] = proc[o]
        /\ UNCHANGED <<effect, overtaken>>
        /\ \A p \in Permits \ {proc[q].permit} : world'[p] = world[p]
    BY <1>4, <2>1 DEF Dispatch, Types, Locals, journal, hist
  <2>3. \A o \in Procs \ {q} : Executing(o) => proc[o].permit \in Permits \ {proc[q].permit}
    BY <2>1, PermitFacts DEF OneExecutor, Executing, Holding
  <2> QED
    BY <2>1, <2>2, <2>3 DEF OneExecutor, Executing
<1>5. ASSUME NEW q \in Procs, NEW p \in Permits, Recover(q, p) PROVE OneExecutor'
  <2>1. /\ proc'[q].pc \notin {"start", "dispatch"} /\ proc'[q].permit = p
        /\ \A o \in Procs \ {q} : proc'[o] = proc[o]
        /\ UNCHANGED <<effect, world>>
        /\ overtaken \subseteq overtaken'
    BY <1>5 DEF Recover, Types, Locals, journal
  <2>2. ASSUME NEW o \in Procs, Executing(o), proc[o].permit = p PROVE p \in overtaken'
    BY <1>5, <2>2 DEF Recover, Executing
  <2> QED
    BY <2>1, <2>2 DEF OneExecutor, Executing
<1>6. ASSUME NEW q \in Procs, NEW t \in Times, Start(q, t) PROVE OneExecutor'
  <2>1. proc[q].permit \in Permits /\ effect[proc[q].permit] # NoEffect /\ proc[q].pc = "start"
    BY <1>6, PermitFacts DEF Start, At, Holding
  <2>2. /\ effect'[proc[q].permit].state = "started"
        /\ effect[proc[q].permit].version \in Nat \ {0}
        /\ effect'[proc[q].permit].version = effect[proc[q].permit].version + 1
        /\ \A o \in Permits \ {proc[q].permit} : effect'[o] = effect[o]
    BY <1>6, <2>1, MovesFacts DEF Start
  <2>3. /\ proc'[q].pc = "dispatch" /\ proc'[q].permit = proc[q].permit
        /\ \A o \in Procs \ {q} : proc'[o] = proc[o]
        /\ UNCHANGED <<world, overtaken>>
    BY <1>6 DEF Start, Types, Locals, hist
  <2>4. \A o \in Procs \ {q} : Executing(o) => proc[o].permit \in Permits \ {proc[q].permit}
    BY <2>1, PermitFacts DEF OneExecutor, Executing, Holding
  <2> QED
    BY <2>1, <2>2, <2>3, <2>4 DEF OneExecutor, Executing
<1>7. ASSUME NEW q \in Procs, NEW t \in Times, Write(q, t) PROVE OneExecutor'
  <2>1. proc[q].permit \in Permits /\ effect[proc[q].permit] # NoEffect /\ proc[q].pc = "write"
    BY <1>7, PermitFacts DEF Write, At, Holding
  <2>2. /\ effect[proc[q].permit].version \in Nat \ {0}
        /\ effect'[proc[q].permit].version = effect[proc[q].permit].version + 1
        /\ \A o \in Permits \ {proc[q].permit} : effect'[o] = effect[o]
    BY <1>7, <2>1, MovesFacts DEF Write
  <2>3. /\ proc'[q].pc \in {"receipt", "reconcile", "write"} /\ proc'[q].permit = proc[q].permit
        /\ \A o \in Procs \ {q} : proc'[o] = proc[o]
        /\ UNCHANGED <<world, overtaken>>
    BY <1>7 DEF Write, Types, Locals, hist
  <2>4. ASSUME NEW o \in Procs, Executing(o) PROVE proc[o].permit \in Permits /\ o # q
    BY <2>1, <2>4, PermitFacts DEF Executing, Holding
  <2>5. ASSUME NEW o \in Procs, Executing(o), proc[o].permit = proc[q].permit
        PROVE  proc[q].permit \in overtaken
    BY <2>4, <2>5 DEF OneExecutor
  <2> QED
    BY <2>1, <2>2, <2>3, <2>4, <2>5 DEF OneExecutor, Executing
<1>8. ASSUME NEW q \in Procs, NEW p \in Permits, NEW t \in Times, Claim(q, p, t) PROVE OneExecutor'
  <2>1. /\ effect[p] = NoEffect
        /\ effect'[p].state = "prepared"
        /\ \A o \in Permits \ {p} : effect'[o] = effect[o]
        /\ UNCHANGED <<world, overtaken>>
    BY <1>8 DEF Claim, Types, Used, hist
  <2>2. /\ proc'[q].pc = "start" /\ proc'[q].permit = p
        /\ \A o \in Procs \ {q} : proc'[o] = proc[o]
    BY <1>8 DEF Claim, Types, Locals
  <2>3. world[p].dispatched = 0
    BY <2>1 DEF Traced, Types, NoEffect
  <2>4. \A o \in Procs : proc[o].permit # p /\ (Executing(o) => proc[o].permit \in Permits)
    BY <2>1, PermitFacts, ConstantsAssumption DEF Claimed, Executing, Holding
  <2> QED
    BY <2>1, <2>2, <2>3, <2>4 DEF OneExecutor, Executing
<1>9. CASE UNCHANGED <<effect, proc, world, overtaken>>
  BY <1>9 DEF OneExecutor, Executing
<1> QED
  BY Split, <1>2, <1>3, <1>4, <1>5, <1>6, <1>7, <1>8, <1>9

\* What a process learned of a permit without an executor stays true; with one, the
\* permit is overtaken, or the process is the executor.
LEMMA TruthStep ==
    Types /\ Claimed /\ Traced /\ OneExecutor /\ Truth /\ [Next]_vars => Truth'
<1> SUFFICES ASSUME Types, Claimed, Traced, OneExecutor, Truth, [Next]_vars PROVE Truth'
  OBVIOUS
<1>1. ASSUME NEW q \in Procs, Leaves(q) PROVE Truth'
  BY <1>1 DEF Truth, Leaves, MayFail, Holding
<1>2. ASSUME NEW q \in Procs, Refuse(q) PROVE Truth'
  <2>1. proc[q].permit \in Permits /\ Executing(q)
    BY <1>2, PermitFacts DEF Refuse, At, Holding, Executing
  <2>2. ~world[proc[q].permit].applied
    BY <2>1 DEF OneExecutor, Traced
  <2>3. /\ proc'[q].result = "failed" /\ proc'[q].permit = proc[q].permit
        /\ \A o \in Procs \ {q} : proc'[o] = proc[o]
        /\ UNCHANGED <<effect, world, overtaken>>
    BY <1>2 DEF Refuse, Types, Locals, journal, hist
  <2> QED
    BY <2>1, <2>2, <2>3 DEF Truth, MayFail
<1>3. ASSUME NEW q \in Procs, Dispatch(q) PROVE Truth'
  <2> DEFINE p == proc[q].permit
  <2>1. p \in Permits /\ Executing(q) /\ proc[q].pc = "dispatch"
    BY <1>3, PermitFacts DEF Dispatch, At, Holding, Executing
  <2>2. ~world[p].applied
    BY <2>1 DEF OneExecutor, Traced
  <2>3. PICK applied \in BOOLEAN, reply \in {"applied", "failed", "unknown"} :
            /\ reply # "unknown" => applied = (reply = "applied")
            /\ world' = [world EXCEPT ![p].dispatched = @ + 1, ![p].applied = @ \/ applied]
            /\ proc' = [proc EXCEPT ![q].pc = "write", ![q].result = reply]
    BY <1>3 DEF Dispatch
  <2>4. UNCHANGED <<effect, overtaken>>
    BY <1>3 DEF Dispatch, journal, hist
  <2>5. /\ proc'[q].result = reply /\ proc'[q].permit = p
        /\ \A o \in Procs \ {q} : proc'[o] = proc[o]
    BY <2>3 DEF Types, Locals
  <2>6. /\ world'[p].applied <=> applied
        /\ \A r \in Permits \ {p} : world'[r] = world[r]
    BY <2>1, <2>2, <2>3 DEF Types
  <2>7. ASSUME p \notin overtaken
        PROVE  effect[p].state = "started" /\ \A o \in Procs \ {q} : proc[o].permit # p
    BY <2>1, <2>7 DEF OneExecutor
  <2>8. effect[p].state # "verified"
    BY <2>1, <2>2 DEF Truth
  <2>9. \A o \in Procs \ {q} : proc[o].pc = "write" /\ proc[o].result = "verified" => proc[o].permit # p
    BY <2>2 DEF Truth
  <2>10. \A o \in Procs : proc[o].pc = "write" => proc[o].permit \in Permits
    BY PermitFacts DEF Holding
  <2>11. reply # "verified" /\ (reply = "failed" => ~applied)
    BY <2>3
  <2> HIDE DEF p
  <2>12. ASSUME NEW r \in Permits
         PROVE  /\ effect'[r].state = "verified" => world'[r].applied
                /\ effect'[r].state = "failed" => MayFail(r)'
    BY <2>4, <2>6, <2>7, <2>8 DEF Truth, MayFail
  <2>13. ASSUME NEW o \in Procs, proc'[o].pc = "write"
         PROVE  /\ proc'[o].result = "verified" => world'[proc'[o].permit].applied
                /\ proc'[o].result = "failed" => MayFail(proc[o].permit)'
    BY <2>1, <2>4, <2>5, <2>6, <2>7, <2>9, <2>10, <2>11, <2>13 DEF Truth, MayFail
  <2>14. \A o \in Procs : proc'[o].permit = proc[o].permit
    BY <2>5 DEF p
  <2> QED
    BY <2>12, <2>13, <2>14 DEF Truth, MayFail
<1>4. ASSUME NEW q \in Procs, Reconcile(q) PROVE Truth'
  <2>1. /\ proc'[q].result = "verified" => world[proc[q].permit].applied
        /\ proc'[q].result = "failed" => ~world[proc[q].permit].applied
        /\ proc'[q].permit = proc[q].permit
        /\ \A o \in Procs \ {q} : proc'[o] = proc[o]
        /\ UNCHANGED <<effect, world, overtaken>>
    BY <1>4 DEF Reconcile, Types, Locals, journal, hist
  <2> QED
    BY <2>1 DEF Truth, MayFail
<1>5. ASSUME NEW q \in Procs, NEW p \in Permits, Recover(q, p) PROVE Truth'
  <2>1. /\ proc'[q].permit = p
        /\ proc'[q].pc = "write" => effect[p].state = "prepared" /\ proc'[q].result = "failed"
        /\ \A o \in Procs \ {q} : proc'[o] = proc[o]
        /\ UNCHANGED <<effect, world>>
        /\ overtaken \subseteq overtaken'
    BY <1>5 DEF Recover, Types, Locals, journal
  <2>2. effect[p].state = "prepared" => ~world[p].applied
    BY DEF Traced
  <2> QED
    BY <2>1, <2>2 DEF Truth, MayFail
<1>6. ASSUME NEW q \in Procs, NEW t \in Times, Start(q, t) PROVE Truth'
  <2>1. proc[q].permit \in Permits /\ effect[proc[q].permit] # NoEffect
    BY <1>6, PermitFacts DEF Start, At, Holding
  <2>2. /\ effect'[proc[q].permit].state = "started"
        /\ \A o \in Permits \ {proc[q].permit} : effect'[o] = effect[o]
    BY <1>6, <2>1, MovesFacts DEF Start
  <2>3. /\ proc'[q].pc = "dispatch"
        /\ \A o \in Procs \ {q} : proc'[o] = proc[o]
        /\ UNCHANGED <<world, overtaken>>
    BY <1>6 DEF Start, Types, Locals, hist
  <2> QED
    BY <2>1, <2>2, <2>3 DEF Truth, MayFail
<1>7. ASSUME NEW q \in Procs, NEW t \in Times, Write(q, t) PROVE Truth'
  <2>1. proc[q].permit \in Permits /\ effect[proc[q].permit] # NoEffect /\ proc[q].pc = "write"
    BY <1>7, PermitFacts DEF Write, At, Holding
  <2>2. /\ effect'[proc[q].permit].state = NewState(q)
        /\ \A o \in Permits \ {proc[q].permit} : effect'[o] = effect[o]
    BY <1>7, <2>1, MovesFacts DEF Write
  <2>3. /\ proc'[q].permit = proc[q].permit
        /\ proc'[q].result \in {proc[q].result, "none"}
        /\ \A o \in Procs \ {q} : proc'[o] = proc[o]
        /\ UNCHANGED <<world, overtaken>>
    BY <1>7 DEF Write, Types, Locals, hist
  <2>4. NewState(q) \in {"applied", proc[q].result}
    BY DEF NewState
  <2> QED
    BY <2>1, <2>2, <2>3, <2>4 DEF Truth, MayFail
<1>8. ASSUME NEW q \in Procs, NEW p \in Permits, NEW t \in Times, Claim(q, p, t) PROVE Truth'
  <2>1. /\ effect'[p].state = "prepared"
        /\ \A o \in Permits \ {p} : effect'[o] = effect[o]
        /\ UNCHANGED <<world, overtaken>>
        /\ proc'[q].pc = "start"
        /\ \A o \in Procs \ {q} : proc'[o] = proc[o]
    BY <1>8 DEF Claim, Types, Locals, hist
  <2> QED
    BY <2>1 DEF Truth, MayFail
<1>9. CASE UNCHANGED <<effect, proc, world, overtaken>>
  BY <1>9 DEF Truth, MayFail
<1> QED
  BY Split, <1>1, <1>2, <1>3, <1>4, <1>5, <1>6, <1>7, <1>8, <1>9

-----------------------------------------------------------------------------
(* The receipts and their anchor *)

\* The types of a receipt.
LEMMA ReceiptTypes ==
    ASSUME Types, NEW i \in 1..Len(receipts)
    PROVE  receipts[i].permit \in Permits /\ receipts[i].version \in Nat
<1>1. receipts[i] \in [permit : Permits, version : Nat, state : Receiptable]
  BY ElementOfSeq DEF Types
<1> QED
  BY <1>1

\* finalize_receipt() appends a receipt of the effect as it is, or nothing.
LEMMA ReceiptFacts ==
    ASSUME Types, Claimed, NEW q \in Procs, Receipt(q)
    PROVE  LET p == proc[q].permit
               r == [permit |-> p, version |-> effect[p].version, state |-> effect[p].state]
           IN  /\ p \in Permits /\ effect[p] # NoEffect
               /\ \/ receipts' = receipts
                  \/ receipts' = Append(receipts, r) /\ IndexOf(p, effect[p].version) = {}
               /\ proc'[q].pc = "read" /\ proc'[q].len = 0
               /\ proc'[q].mine \in Nat /\ proc'[q].mine <= Len(receipts')
               /\ Len(receipts) <= Len(receipts')
               /\ \A o \in Procs \ {q} : proc'[o] = proc[o]
<1> DEFINE p == proc[q].permit
           old == IndexOf(p, effect[p].version)
           r == [permit |-> p, version |-> effect[p].version, state |-> effect[p].state]
           mine == IF old # {} THEN CHOOSE i \in old : TRUE ELSE Len(receipts) + 1
<1>1. p \in Permits /\ effect[p] # NoEffect
  BY PermitFacts DEF Receipt, At, Holding
<1>2. /\ old # {} => receipts' = receipts
      /\ old = {} => receipts' = Append(receipts, r)
  BY DEF Receipt
<1>3. Len(receipts) \in Nat /\ Len(receipts') = IF old = {} THEN Len(receipts) + 1 ELSE Len(receipts)
  BY <1>2 DEF Types
<1>4. mine \in Nat /\ mine <= Len(receipts')
  BY <1>3 DEF IndexOf
<1> HIDE DEF mine
<1>5. proc' = [proc EXCEPT ![q] = [Idle(q) EXCEPT !.pc = "read", !.mine = mine]]
  BY DEF Receipt, mine
<1>6. /\ proc'[q].pc = "read" /\ proc'[q].len = 0 /\ proc'[q].mine = mine
      /\ \A o \in Procs \ {q} : proc'[o] = proc[o]
  BY <1>5 DEF Idle, Closed, Types
<1>7. Len(receipts) <= Len(receipts')
  BY <1>3
<1>8. receipts' = receipts \/ (receipts' = Append(receipts, r) /\ old = {})
  <2> HIDE DEF old, r
  <2> QED
    BY <1>2
<1> QED
  BY ONLY <1>1, <1>4, <1>6, <1>7, <1>8

\* A receipt is written for the effect as it is; a settled effect does not move, and
\* an unsettled one moves to a version of its own.
LEMMA ReceiptedStep == Types /\ Claimed /\ Receipted /\ [Next]_vars => Receipted'
<1> SUFFICES ASSUME Types, Claimed, Receipted, [Next]_vars PROVE Receipted'
  OBVIOUS
<1>1. CASE UNCHANGED <<effect, receipts>>
  BY <1>1 DEF Receipted
<1>2. ASSUME NEW q \in Procs, Receipt(q) PROVE Receipted'
  <2> DEFINE p == proc[q].permit
             r == [permit |-> p, version |-> effect[p].version, state |-> effect[p].state]
  <2>1. UNCHANGED effect /\ p \in Permits /\ effect[p] # NoEffect
    BY <1>2, ReceiptFacts DEF Receipt
  <2>2. CASE receipts' = receipts
    BY <1>1, <2>1, <2>2
  <2>3. CASE receipts' = Append(receipts, r)
    <3>1. /\ Len(receipts') = Len(receipts) + 1 /\ Len(receipts) \in Nat
          /\ receipts'[Len(receipts) + 1] = r
          /\ \A i \in 1..Len(receipts) : receipts'[i] = receipts[i]
      BY <2>3 DEF Types
    <3>2. effect[p].version \in Nat
      BY <2>1 DEF Types, Effects
    <3>3. /\ r.permit = p /\ r.version = effect[p].version /\ r.state = effect[p].state
      OBVIOUS
    <3> HIDE DEF r
    <3> QED
      BY <2>1, <3>1, <3>2, <3>3 DEF Receipted
  <2> QED
    BY <1>2, <2>2, <2>3, ReceiptFacts
<1>3. ASSUME NEW q \in Procs, NEW t \in Times, Start(q, t) \/ Write(q, t) PROVE Receipted'
  <2> DEFINE p == proc[q].permit
  <2>1. p \in Permits /\ effect[p] # NoEffect
    BY <1>3, PermitFacts DEF Start, Write, At, Holding
  <2>2. /\ effect'[p] # NoEffect
        /\ effect[p].state \notin Promise!Final
        /\ effect[p].version \in Nat
        /\ effect'[p].version = effect[p].version + 1
        /\ \A o \in Permits \ {p} : effect'[o] = effect[o]
    BY <1>3, <2>1, MovesFacts DEF Start, Write
  <2>3. UNCHANGED receipts
    BY <1>3 DEF Start, Write
  <2> HIDE DEF p
  <2>4. ASSUME NEW i \in 1..Len(receipts)
        PROVE  receipts[i].permit \in Permits /\ receipts[i].version \in Nat
    BY ReceiptTypes
  <2>5. \A i \in 1..Len(receipts) : receipts[i].permit = p => receipts[i].state \notin Promise!Final
    BY <2>2 DEF Receipted
  <2>6. ASSUME NEW i \in 1..Len(receipts)
        PROVE  /\ effect'[receipts[i].permit] # NoEffect
               /\ receipts[i].version <= effect'[receipts[i].permit].version
               /\ receipts[i].version = effect'[receipts[i].permit].version =>
                      receipts[i].state = effect'[receipts[i].permit].state
               /\ receipts[i].state \in Promise!Final =>
                      receipts[i].version = effect'[receipts[i].permit].version
    <3>1. CASE receipts[i].permit = p
      BY <2>2, <2>4, <2>5, <3>1 DEF Receipted
    <3>2. CASE receipts[i].permit # p
      BY <2>2, <2>4, <3>2 DEF Receipted
    <3> QED
      BY <3>1, <3>2
  <2> QED
    BY <2>3, <2>6 DEF Receipted
<1>4. ASSUME NEW q \in Procs, NEW p \in Permits, NEW t \in Times, Claim(q, p, t) PROVE Receipted'
  <2>1. /\ effect[p] = NoEffect /\ UNCHANGED receipts
        /\ \A o \in Permits \ {p} : effect'[o] = effect[o]
    BY <1>4 DEF Claim, Types, Used
  <2>2. \A i \in 1..Len(receipts) : receipts[i].permit \in Permits \ {p}
    BY <2>1, ReceiptTypes DEF Receipted
  <2> QED
    BY <2>1, <2>2 DEF Receipted
<1>5. ASSUME NEW q \in Procs,
             \/ Refuse(q) \/ Dispatch(q) \/ Reconcile(q) \/ Open(q) \/ ReadChain(q) \/ LoadBehind(q)
             \/ LoadAhead(q) \/ LoadSame(q) \/ CompareAndSet(q) \/ Reject(q) \/ Raise(q)
             \/ AnchorLost(q) \/ Crash(q) \/ \E p \in Permits : Recover(q, p)
      PROVE  UNCHANGED <<effect, receipts>>
  BY <1>5 DEF Refuse, Dispatch, Reconcile, Open, ReadChain, LoadBehind, LoadAhead, LoadSame,
     CompareAndSet, Recover, Reject, Raise, AnchorLost, Crash, journal
<1>6. ASSUME UNCHANGED vars \/ \E x \in Revocable : Revoke(x) PROVE UNCHANGED <<effect, receipts>>
  BY <1>6 DEF Revoke, vars, journal
<1> QED
  BY <1>1, <1>2, <1>3, <1>4, <1>5, <1>6 DEF Next, Step

\* A step that leaves the chain, its head and the readers of the chain alone.
Quiet(q) ==
    /\ UNCHANGED <<receipts, anchor, returned>>
    /\ proc'[q].pc \notin {"load", "cas"}
    /\ proc'[q].mine \in {0, proc[q].mine} /\ proc'[q].len \in {0, proc[q].len}
    /\ \A o \in Procs \ {q} : proc'[o] = proc[o]

\* Everything outside of the receipts is quiet.
LEMMA QuietSplit ==
    ASSUME Types, [Next]_vars
    PROVE  \/ \E q \in Procs : \/ Quiet(q) \/ Receipt(q) \/ ReadChain(q) \/ LoadBehind(q) \/ LoadAhead(q)
                               \/ LoadSame(q) \/ CompareAndSet(q) \/ AnchorLost(q)
           \/ UNCHANGED <<receipts, anchor, returned, proc>>
<1> USE DEF Types, Locals, At, Closed, Idle, journal, hist, Quiet
<1>1. ASSUME NEW q \in Procs, Refuse(q) PROVE Quiet(q)
  BY <1>1 DEF Refuse
<1>2. ASSUME NEW q \in Procs, Dispatch(q) PROVE Quiet(q)
  BY <1>2 DEF Dispatch
<1>3. ASSUME NEW q \in Procs, Reconcile(q) PROVE Quiet(q)
  BY <1>3 DEF Reconcile
<1>4. ASSUME NEW q \in Procs, Open(q) PROVE Quiet(q)
  BY <1>4 DEF Open
<1>5. ASSUME NEW q \in Procs, NEW p \in Permits, Recover(q, p) PROVE Quiet(q)
  BY <1>5 DEF Recover
<1>6. ASSUME NEW q \in Procs, NEW t \in Times, Start(q, t) PROVE Quiet(q)
  BY <1>6 DEF Start
<1>7. ASSUME NEW q \in Procs, NEW t \in Times, Write(q, t) PROVE Quiet(q)
  <2>1. /\ proc'[q].pc \in {"receipt", "reconcile", "write"}
        /\ proc'[q].mine = proc[q].mine /\ proc'[q].len = proc[q].len
        /\ \A o \in Procs \ {q} : proc'[o] = proc[o]
        /\ UNCHANGED <<receipts, anchor, returned>>
    BY <1>7 DEF Write
  <2> QED
    BY <2>1
<1>8. ASSUME NEW q \in Procs, NEW p \in Permits, NEW t \in Times, Claim(q, p, t) PROVE Quiet(q)
  BY <1>8 DEF Claim
<1>9. ASSUME NEW q \in Procs, Reject(q) \/ Raise(q) PROVE Quiet(q)
  <2>1. proc' = [proc EXCEPT ![q] = Raised(q)] /\ UNCHANGED <<receipts, anchor, returned>>
    BY <1>9 DEF Reject, Raise
  <2> QED
    BY <2>1 DEF Raised
<1>10. ASSUME NEW q \in Procs, Crash(q) PROVE Quiet(q)
  BY <1>10 DEF Crash
<1>11. ASSUME NEW x \in Revocable, Revoke(x) PROVE UNCHANGED <<receipts, anchor, returned, proc>>
  BY <1>11 DEF Revoke
<1>12. CASE UNCHANGED vars
  BY <1>12 DEF vars
<1> HIDE DEF Types, Locals, At, Closed, Idle, journal, hist, Quiet
<1> QED
  BY <1>1, <1>2, <1>3, <1>4, <1>5, <1>6, <1>7, <1>8, <1>9, <1>10, <1>11, <1>12
     DEF Next, Step

\* A head that is replaced is replaced by a later one, within the chain.
LEMMA HeadFacts ==
    ASSUME Types, Anchored, NEW q \in Procs, At(q, "cas"), anchor = proc[q].expected
    PROVE  Candidate(q) \in (anchor + 1)..Len(receipts)
BY DEF Types, Locals, Anchored, At, Candidate

\* The chain only grows and the head only moves forward, so what a process knows of
\* them stays within both.
LEMMA AnchoredStep == Types /\ Claimed /\ Anchored /\ [Next]_vars => Anchored'
<1> SUFFICES ASSUME Types, Claimed, Anchored, [Next]_vars PROVE Anchored'
  OBVIOUS
<1>t. /\ anchor \in Nat /\ returned \in Nat /\ Len(receipts) \in Nat
      /\ \A q \in Procs : proc[q].mine \in Nat /\ proc[q].len \in Nat /\ proc[q].expected \in Nat
  BY DEF Types, Locals
<1>1. ASSUME NEW q \in Procs, Quiet(q) PROVE Anchored'
  BY <1>1, <1>t DEF Anchored, Quiet
<1>2. ASSUME NEW q \in Procs, Receipt(q) PROVE Anchored'
  <2>1. /\ proc'[q].pc = "read" /\ proc'[q].len = 0
        /\ proc'[q].mine \in Nat /\ proc'[q].mine <= Len(receipts')
        /\ Len(receipts) <= Len(receipts')
        /\ \A o \in Procs \ {q} : proc'[o] = proc[o]
    BY <1>2, ReceiptFacts
  <2>2. Len(receipts') \in Nat
    BY TypesStep DEF Types
  <2>3. UNCHANGED <<anchor, returned>>
    BY <1>2 DEF Receipt, hist
  <2> QED
    BY <1>t, <2>1, <2>2, <2>3 DEF Anchored
<1>3. ASSUME NEW q \in Procs, ReadChain(q) PROVE Anchored'
  <2>1. /\ proc'[q].pc = "load" /\ proc'[q].len = Len(receipts) /\ proc'[q].mine = proc[q].mine
        /\ \A o \in Procs \ {q} : proc'[o] = proc[o]
        /\ UNCHANGED <<receipts, anchor, returned>>
    BY <1>3 DEF ReadChain, Types, Locals, journal, hist
  <2> QED
    BY <1>t, <2>1 DEF Anchored
<1>4. ASSUME NEW q \in Procs, LoadBehind(q) PROVE Anchored'
  <2>1. /\ proc[q].pc = "load" /\ proc'[q].pc = "cas" /\ proc'[q].expected = anchor
        /\ proc'[q].len = proc[q].len /\ proc'[q].mine = proc[q].mine
        /\ \A o \in Procs \ {q} : proc'[o] = proc[o]
        /\ UNCHANGED <<receipts, anchor, returned>> /\ anchor < proc[q].len
    BY <1>4 DEF LoadBehind, At, Types, Locals, journal, hist
  <2> QED
    BY <1>t, <2>1 DEF Anchored
<1>5. ASSUME NEW q \in Procs, LoadAhead(q) PROVE Anchored'
  <2>1. /\ proc'[q].pc = "load" /\ proc'[q].len = Len(receipts) /\ proc'[q].mine = proc[q].mine
        /\ \A o \in Procs \ {q} : proc'[o] = proc[o]
        /\ UNCHANGED <<receipts, anchor, returned>>
    BY <1>5 DEF LoadAhead, At, Types, Locals, journal, hist
  <2> QED
    BY <1>t, <2>1 DEF Anchored
<1>6. ASSUME NEW q \in Procs, LoadSame(q) PROVE Anchored'
  <2>1. /\ proc[q].pc = "load" /\ anchor = proc[q].len /\ returned' \in {returned, proc[q].mine}
        /\ proc'[q].pc = "idle" /\ proc'[q].len = 0 /\ proc'[q].mine = 0
        /\ \A o \in Procs \ {q} : proc'[o] = proc[o]
        /\ UNCHANGED <<receipts, anchor>>
    BY <1>6 DEF LoadSame, At, Idle, Closed, Types, Locals, journal
  <2> QED
    BY <1>t, <2>1 DEF Anchored
<1>7. ASSUME NEW q \in Procs, CompareAndSet(q) PROVE Anchored'
  <2>1. /\ proc[q].pc = "cas" /\ proc'[q].pc = "load" /\ proc'[q].mine = proc[q].mine
        /\ proc'[q].len \in {proc[q].len, Len(receipts)}
        /\ \A o \in Procs \ {q} : proc'[o] = proc[o]
        /\ UNCHANGED <<receipts, returned>>
    BY <1>7 DEF CompareAndSet, At, Types, Locals, journal, hist
  <2>2. anchor' \in anchor..Len(receipts)
    BY <1>7, <1>t, HeadFacts DEF CompareAndSet, Anchored
  <2> QED
    BY <1>t, <2>1, <2>2 DEF Anchored
<1>8. ASSUME NEW q \in Procs, AnchorLost(q) PROVE Anchored'
  <2>1. /\ proc'[q].pc \in {"idle", "closed"} /\ proc'[q].mine = 0 /\ proc'[q].len = 0
        /\ \A o \in Procs \ {q} : proc'[o] = proc[o]
        /\ UNCHANGED <<receipts, returned>>
    BY <1>8 DEF AnchorLost, Raised, Idle, Closed, Types, Locals, journal, hist
  <2>2. anchor' \in anchor..Len(receipts)
    BY <1>8, <1>t, HeadFacts DEF AnchorLost
  <2> QED
    BY <1>t, <2>1, <2>2 DEF Anchored
<1>9. CASE UNCHANGED <<receipts, anchor, returned, proc>>
  BY <1>9 DEF Anchored
<1> QED
  BY QuietSplit, <1>1, <1>2, <1>3, <1>4, <1>5, <1>6, <1>7, <1>8, <1>9

-----------------------------------------------------------------------------
(* The theorems *)

\* Before a journal is opened nothing is claimed, dispatched or receipted.
LEMMA InitIInv == Init => IInv
<1> SUFFICES ASSUME Init PROVE IInv
  OBVIOUS
<1>1. Types
  <2>1. proc \in [Procs -> Locals]
    BY LocalFacts DEF Init
  <2> QED
    BY <2>1 DEF Init, Types, Effects
<1>2. Used = {} /\ \A q \in Procs : proc[q] = Closed
  BY DEF Init, Used
<1>3. Budget
  BY <1>2, FS_EmptySet, ConstantsAssumption DEF Budget
<1>4. Claimed /\ OneExecutor /\ Anchored
  BY <1>2 DEF Init, Closed, Claimed, Holding, OneExecutor, Executing, Anchored
<1>5. Traced /\ Truth /\ Receipted
  BY <1>2 DEF Init, Closed, NoEffect, Traced, Truth, Receipted
<1> QED
  BY <1>1, <1>3, <1>4, <1>5 DEF IInv

\* The inductive invariant of the control runtime.
THEOREM Invariance == Spec => []IInv
<1>1. IInv /\ [Next]_vars => IInv'
  BY TypesStep, ClaimedStep, BudgetStep, TracedStep, OneExecutorStep, TruthStep,
     ReceiptedStep, AnchoredStep DEF IInv
<1> QED
  BY InitIInv, <1>1, PTL DEF Spec

\* However executors and recoveries interleave, crash or are retried, the adapter is
\* called at most once for a permit, never before "started" is durable, and for no
\* more permits than the grant allows.
THEOREM DispatchedOnceTheorem == Spec => []DispatchedOnce
<1>1. IInv => DispatchedOnce
  <2> SUFFICES ASSUME IInv PROVE DispatchedOnce
    OBVIOUS
  <2>1. TypeOK
    BY DEF IInv, Types, Effects, Locals, PermitOrNone, Anchored, TypeOK
  <2>2. \A p \in Permits : world[p].dispatched <= 1 /\ (world[p].dispatched = 1 => effect[p].version > 1)
    BY DEF IInv, Traced
  <2> DEFINE D == {p \in Permits : world[p].dispatched > 0}
  <2>3. D \subseteq Used
    BY <2>2 DEF IInv, Types, Used, NoEffect
  <2>4. Cardinality(D) <= Cardinality(Used) /\ Cardinality(D) \in Nat /\ Cardinality(Used) \in Nat
    BY <2>3, FS_Subset, FS_CardinalityType DEF IInv, Budget
  <2>5. Cardinality(D) <= MaxActions
    BY <2>4, ConstantsAssumption DEF IInv, Budget
  <2> QED
    BY <2>1, <2>2, <2>5 DEF DispatchedOnce
<1> QED
  BY Invariance, <1>1, PTL

\* A signed receipt says of the world what is true of it: "verified" only of what was
\* applied, "failed" only of what was not, unless the effect was overtaken.
THEOREM ReceiptsTruthfulTheorem == Spec => []ReceiptsTruthful
<1>1. IInv => ReceiptsTruthful
  <2> SUFFICES ASSUME IInv, NEW i \in 1..Len(receipts)
               PROVE  /\ receipts[i].state = "verified" => world[receipts[i].permit].applied
                      /\ receipts[i].state = "failed" =>
                             ~world[receipts[i].permit].applied \/ receipts[i].permit \in overtaken
    BY DEF ReceiptsTruthful
  <2>1. receipts[i].permit \in Permits
    BY ReceiptTypes DEF IInv
  <2>2. receipts[i].state \in Promise!Final => effect[receipts[i].permit].state = receipts[i].state
    BY DEF IInv, Receipted
  <2> QED
    BY <2>1, <2>2 DEF IInv, Truth, MayFail, Promise!Final
<1> QED
  BY Invariance, <1>1, PTL

\* The journal's receipts and the external head implement the anchored chain: every
\* step of the runtime extends the chain, publishes a later head, hands out a receipt
\* under the head, or does none of the three.
THEOREM ImplementsChainTheorem == Spec => ImplementsChain
<1>1. Init => Promise!ChainInit
  BY DEF Init, Promise!ChainInit
<1>2. IInv /\ [Next]_vars => [Promise!ChainNext]_<<receipts, anchor, returned>>
  <2> SUFFICES ASSUME IInv, [Next]_vars
               PROVE  Promise!ChainNext \/ UNCHANGED <<receipts, anchor, returned>>
    OBVIOUS
  <2> USE DEF IInv
  <2>1. ASSUME NEW q \in Procs, Receipt(q)
        PROVE  Promise!ChainNext \/ UNCHANGED <<receipts, anchor, returned>>
    <3> DEFINE p == proc[q].permit
               r == [permit |-> p, version |-> effect[p].version, state |-> effect[p].state]
    <3>1. UNCHANGED <<anchor, returned>>
      BY <2>1 DEF Receipt, hist
    <3>2. CASE receipts' = Append(receipts, r) /\ IndexOf(p, effect[p].version) = {}
      <4>1. Len(receipts') = Len(receipts) + 1 /\ receipts'[Len(receipts')] = r
        BY <3>2 DEF Types
      <4>2. ASSUME NEW i \in 1..Len(receipts), receipts[i].permit = p
            PROVE  receipts[i].state \notin Promise!Final /\ receipts[i].version < effect[p].version
        <5>1. receipts[i].version # effect[p].version
          BY <3>2, <4>2 DEF IndexOf
        <5>2. receipts[i].version \in Nat /\ effect[p].version \in Nat
          BY <2>1, ReceiptFacts, ReceiptTypes DEF Types, Effects
        <5> QED
          BY <4>2, <5>1, <5>2 DEF Receipted
      <4>3. Promise!Extend(r)
        BY <3>1, <3>2, <4>2 DEF Promise!Extend
      <4> QED
        BY <4>1, <4>3 DEF Promise!ChainNext
    <3> QED
      BY <2>1, <3>1, <3>2, ReceiptFacts
  <2>2. ASSUME NEW q \in Procs, CompareAndSet(q) \/ AnchorLost(q)
        PROVE  Promise!ChainNext \/ UNCHANGED <<receipts, anchor, returned>>
    <3>1. UNCHANGED <<receipts, returned>>
      BY <2>2 DEF CompareAndSet, AnchorLost, journal, hist
    <3>2. UNCHANGED anchor \/ anchor' \in (anchor + 1)..Len(receipts)
      BY <2>2, HeadFacts DEF CompareAndSet, AnchorLost
    <3> QED
      BY <3>1, <3>2 DEF Promise!ChainNext, Promise!Publish
  <2>3. ASSUME NEW q \in Procs, LoadSame(q)
        PROVE  Promise!ChainNext \/ UNCHANGED <<receipts, anchor, returned>>
    <3>1. UNCHANGED <<receipts, anchor>> /\ proc[q].pc = "load" /\ anchor = proc[q].len
      BY <2>3 DEF LoadSame, At, journal
    <3>2. proc[q].mine \in Nat /\ proc[q].mine <= anchor /\ returned \in Nat
      BY <3>1 DEF Anchored, Types, Locals
    <3>3. UNCHANGED returned \/ returned' \in (returned + 1)..anchor
      BY <2>3, <3>2 DEF LoadSame, Types
    <3> QED
      BY <3>1, <3>3 DEF Promise!ChainNext, Promise!Tell
  <2>4. ASSUME NEW q \in Procs, Quiet(q) \/ ReadChain(q) \/ LoadBehind(q) \/ LoadAhead(q)
        PROVE  UNCHANGED <<receipts, anchor, returned>>
    BY <2>4 DEF Quiet, ReadChain, LoadBehind, LoadAhead, journal, hist
  <2> QED
    BY QuietSplit, <2>1, <2>2, <2>3, <2>4
<1> QED
  BY Invariance, <1>1, <1>2, PTL DEF Spec, ImplementsChain, Promise!ChainSpec
=============================================================================
