--------------------------- MODULE ControlRuntime ----------------------------
(***************************************************************************)
(* The control runtime (algo_cli/david_control_runtime.py) over its        *)
(* journal (algo_cli/ada_control_journal.py): a signed permit is claimed,  *)
(* checked again, dispatched to an adapter once, reconciled, and answered  *)
(* with a signed receipt whose head is anchored outside of the journal.    *)
(*                                                                         *)
(* Processes share the SQLite journal.  A transaction is one step (BEGIN   *)
(* IMMEDIATE, synchronous = FULL: what is committed survives a crash).     *)
(* Anything between two transactions may be interleaved with another       *)
(* process, which may execute another permit or recover the same effect.   *)
(* Every call reads a wall clock of its own, so times step either way.     *)
(*                                                                         *)
(* One grant, one session and one target are modelled; an effect is named  *)
(* by its permit.  Signatures and digests always verify.  The adapter is   *)
(* external: it may raise or answer anything that is not a lie.            *)
(***************************************************************************)
EXTENDS Integers, Sequences, FiniteSets

CONSTANTS Procs, Permits,
          Sequence,     \* Sequence[p]: request.sequence
          Target,       \* Target[p]: [epoch, fence, revision] of request.target
          Expiry,       \* Expiry[p]: permit.expires_at_ms
          MaxActions,   \* grant.maximum_action_count
          Times,        \* what clocks may read
          Revocable,    \* what the operator may revoke: permits, "grant"
          MaxFaults,    \* bound on crashes, raising calls and revocations
          MaxRecoveries,\* bound on calls of recover()
          None

ASSUME ConstantsAssumption ==
    /\ Sequence \in [Permits -> Nat] /\ Expiry \in [Permits -> Nat]
    /\ {MaxActions, MaxFaults, MaxRecoveries} \subseteq Nat /\ Times \subseteq Nat
    /\ Revocable \subseteq Permits \cup {"grant"} /\ None \notin Permits

VARIABLES effect,      \* ada_effects, by permit
          row,         \* ada_sessions and ada_targets: one session, one target
          revoked,     \* ada_revocations
          receipts,    \* ada_receipts, in order
          anchor,      \* how many receipts the external head covers; 0: no head
          proc,        \* the local state of a process
          world,       \* what the adapter did for a permit
          faults, recoveries,
          returned,    \* history: the newest receipt a caller got back
          overtaken    \* history: effects recovered while their executor could still dispatch

journal == <<effect, row, revoked, receipts>>
bounds == <<faults, recoveries>>
hist == <<returned, overtaken>>
vars == <<journal, anchor, proc, world, bounds, hist>>

States == {"prepared", "started", "applied", "verified", "failed", "unknown"}

\* _ALLOWED_TRANSITIONS
Allowed ==
    [s \in States |->
        CASE s = "prepared" -> {"started", "failed"}
          [] s = "started"  -> {"applied", "failed", "unknown"}
          [] s = "applied"  -> {"verified", "failed", "unknown"}
          [] s = "unknown"  -> {"verified", "failed"}
          [] OTHER          -> {}]

\* _RECEIPT_STATES
Receiptable == {"verified", "failed", "unknown"}

NoEffect == [state |-> "none", version |-> 0, updated |-> 0]

\* known: record.state as this process last saw it; result: what it is about to
\* write; len: length of the chain as read; expected: the head it will replace;
\* mine: the receipt to return; boot: _receipt_anchor_bootstrap_allowed.
Closed == [pc |-> "closed", permit |-> None, known |-> "none", result |-> "none",
           len |-> 0, expected |-> 0, mine |-> 0, boot |-> FALSE]

Init ==
    /\ effect = [p \in Permits |-> NoEffect]
    /\ row = [sequence |-> 0, target |-> [epoch |-> 0, fence |-> 0, revision |-> 0], at |-> 0]
    /\ revoked = {} /\ receipts = <<>> /\ anchor = 0
    /\ proc = [q \in Procs |-> Closed]
    /\ world = [p \in Permits |-> [dispatched |-> 0, applied |-> FALSE]]
    /\ returned = 0 /\ overtaken = {} /\ faults = 0 /\ recoveries = 0

At(q, pc) == proc[q].pc = pc

\* The call ends; the journal object of the process stays open.
Idle(q) == [Closed EXCEPT !.pc = "idle", !.boot = proc[q].boot]
Goto(q, pc) == proc' = [proc EXCEPT ![q].pc = pc]

\* The permits that were claimed: grant.used_count.
Used == {p \in Permits : effect[p] # NoEffect}

-----------------------------------------------------------------------------
(* ControlRuntime.execute() *)

\* The fence rules of claim(): no older generation, and a new epoch has a new fence.
Follows(new, old) ==
    /\ new.epoch >= old.epoch /\ new.fence >= old.fence
    /\ IF new.epoch = old.epoch THEN new.revision = old.revision ELSE new.fence > old.fence

\* verify_envelope_authority() and claim(): permit, usage, sequence and target are
\* consumed in one transaction.  A refused claim changes nothing.
Claim(q, p, t) ==
    /\ At(q, "idle")
    /\ t < Expiry[p] /\ revoked \cap {"grant", p} = {}
    /\ p \notin Used /\ Cardinality(Used) < MaxActions
    /\ Sequence[p] = row.sequence + 1
    /\ Follows(Target[p], row.target) /\ t >= row.at
    /\ row' = [sequence |-> Sequence[p], target |-> Target[p], at |-> t]
    /\ effect' = [effect EXCEPT ![p] = [state |-> "prepared", version |-> 1, updated |-> t]]
    /\ proc' = [proc EXCEPT ![q].pc = "start", ![q].permit = p, ![q].known = "prepared"]
    /\ UNCHANGED <<revoked, receipts, anchor, world, bounds, hist>>

\* What transition() does for every new state; the time of a settled effect is
\* not looked at again.
Moves(p, new, t) ==
    /\ new \in Allowed[effect[p].state] /\ t >= effect[p].updated
    /\ effect' = [effect EXCEPT ![p] = [state |-> new, version |-> @.version + 1,
                                        updated |-> IF Allowed[new] = {} THEN 0 ELSE t]]

\* Routes, snapshot and authority are still good, and transition(STARTED) agrees.
Start(q, t) ==
    LET p == proc[q].permit
    IN  /\ At(q, "start")
        /\ t < Expiry[p] /\ revoked \cap {"grant", p} = {}
        /\ row.target = Target[p]
        /\ Moves(p, "started", t)
        /\ proc' = [proc EXCEPT ![q].pc = "dispatch", ![q].known = "started"]
        /\ UNCHANGED <<row, revoked, receipts, anchor, world, bounds, hist>>

\* _fail_prepared(): the adapter, the authority or the journal has changed its mind.
Refuse(q) ==
    /\ At(q, "start")
    /\ proc' = [proc EXCEPT ![q].pc = "write", ![q].result = "failed"]
    /\ UNCHANGED <<journal, anchor, world, bounds, hist>>

\* Seeded fault: an exception of the adapter is taken for a rejection.
DispatchRaises(q) ==
    LET p == proc[q].permit
    IN  /\ At(q, "dispatch")
        /\ \E applied \in BOOLEAN, reply \in {"applied", "failed"} :
               /\ world' = [world EXCEPT ![p].dispatched = @ + 1, ![p].applied = @ \/ applied]
               /\ proc' = [proc EXCEPT ![q].pc = "write", ![q].result = reply]
        /\ UNCHANGED <<journal, anchor, bounds, hist>>

\* adapter.dispatch(): an exception, or an answer that makes no sense, counts as
\* unknown, and a rejection is believed.
Dispatch(q) ==
    LET p == proc[q].permit
    IN  /\ At(q, "dispatch")
        /\ \E applied \in BOOLEAN, reply \in {"applied", "failed", "unknown"} :
               /\ reply # "unknown" => applied = (reply = "applied")
               /\ world' = [world EXCEPT ![p].dispatched = @ + 1, ![p].applied = @ \/ applied]
               /\ proc' = [proc EXCEPT ![q].pc = "write", ![q].result = reply]
        /\ UNCHANGED <<journal, anchor, bounds, hist>>

\* A verified effect that is not known to be applied becomes applied first.
NewState(q) ==
    IF proc[q].result = "verified" /\ proc[q].known = "started" THEN "applied" ELSE proc[q].result

\* The transition behind a dispatch or a reconciliation.
Write(q, t) ==
    LET me == proc[q]
        new == NewState(q)
    IN  /\ At(q, "write")
        /\ Moves(me.permit, new, t)
        /\ proc' = [proc EXCEPT ![q].known = new,
               ![q].result = IF new = "applied" /\ @ = "applied" THEN "none" ELSE @,
               ![q].pc = IF new # "applied" THEN "receipt"
                         ELSE IF me.result = "applied" THEN "reconcile" ELSE "write"]
        /\ UNCHANGED <<row, revoked, receipts, anchor, world, bounds, hist>>

\* _reconcile(): the adapter is asked what became of the effect.  "verified" needs
\* a fresh postcondition, so it is only said of what was applied.
Reconcile(q) ==
    /\ At(q, "reconcile")
    /\ \E result \in {"unknown", IF world[proc[q].permit].applied THEN "verified" ELSE "failed"} :
           proc' = [proc EXCEPT ![q].result = result,
               ![q].pc = IF result = "unknown" /\ proc[q].known = "unknown" THEN "receipt" ELSE "write"]
    /\ UNCHANGED <<journal, anchor, world, bounds, hist>>

\* Seeded fault: a recovery takes a started effect up where the executor left it.
RecoverRedispatches(q, p) ==
    LET s == effect[p].state
    IN  /\ At(q, "idle") /\ p \in Used /\ s \in {"prepared", "started"}
        /\ recoveries < MaxRecoveries /\ recoveries' = recoveries + 1
        /\ proc' = [proc EXCEPT ![q].permit = p, ![q].known = s,
               ![q].pc = IF s = "prepared" THEN "start" ELSE "dispatch"]
        /\ UNCHANGED <<journal, anchor, world, faults, hist>>

\* ControlRuntime.recover(): nothing keeps it from an effect whose executor lives.
Recover(q, p) ==
    LET s == effect[p].state
    IN  /\ At(q, "idle") /\ p \in Used
        /\ recoveries < MaxRecoveries /\ recoveries' = recoveries + 1
        /\ proc' = [proc EXCEPT ![q].permit = p, ![q].known = s,
               ![q].result = IF s = "prepared" THEN "failed" ELSE "none",
               ![q].pc = CASE s = "prepared" -> "write"
                           [] s \in {"verified", "failed"} -> "receipt"
                           [] OTHER -> "reconcile"]
        /\ overtaken' = IF \E o \in Procs : proc[o].permit = p /\ proc[o].pc \in {"start", "dispatch"}
                        THEN overtaken \cup {p} ELSE overtaken
        /\ UNCHANGED <<journal, anchor, world, faults, returned>>

-----------------------------------------------------------------------------
(* Receipts and their anchor *)

IndexOf(p, version) ==
    {i \in 1..Len(receipts) : receipts[i].permit = p /\ receipts[i].version = version}

\* _finalize_receipt_unanchored(): one receipt for each version of an effect.
Receipt(q) ==
    LET p == proc[q].permit
        e == effect[p]
        old == IndexOf(p, e.version)
    IN  /\ At(q, "receipt") /\ e.state \in Receiptable
        /\ receipts' = IF old # {} THEN receipts
                       ELSE Append(receipts, [permit |-> p, version |-> e.version, state |-> e.state])
        /\ proc' = [proc EXCEPT ![q] = [Idle(q) EXCEPT
               !.pc = "read",
               !.mine = IF old # {} THEN CHOOSE i \in old : TRUE ELSE Len(receipts) + 1]]
        /\ UNCHANGED <<effect, row, revoked, anchor, world, bounds, hist>>

\* __init__(): a journal without receipts may get its first anchor.
Open(q) ==
    /\ At(q, "closed")
    /\ proc' = [proc EXCEPT ![q] = [Closed EXCEPT !.pc = "read", !.boot = receipts = <<>>]]
    /\ UNCHANGED <<journal, anchor, world, bounds, hist>>

\* _read_receipt_sequence()
ReadChain(q) ==
    /\ At(q, "read")
    /\ proc' = [proc EXCEPT ![q].pc = "load", ![q].len = Len(receipts)]
    /\ UNCHANGED <<journal, anchor, world, bounds, hist>>

\* The head is behind the chain that was read, or is missing and may be created.
LoadBehind(q) ==
    /\ At(q, "load") /\ anchor < proc[q].len
    /\ anchor = 0 => proc[q].boot
    /\ proc' = [proc EXCEPT ![q].pc = "cas", ![q].expected = anchor,
                            ![q].boot = @ /\ anchor = 0]
    /\ UNCHANGED <<journal, anchor, world, bounds, hist>>

\* The head is ahead: another process was faster, or the chain was rolled back.
LoadAhead(q) ==
    /\ At(q, "load") /\ anchor > proc[q].len
    /\ Len(receipts) # proc[q].len
    /\ proc' = [proc EXCEPT ![q].len = Len(receipts), ![q].boot = FALSE]
    /\ UNCHANGED <<journal, anchor, world, bounds, hist>>

\* The head is the end of the chain: the call returns.
LoadSame(q) ==
    /\ At(q, "load") /\ anchor = proc[q].len
    /\ proc' = [proc EXCEPT ![q] = [Idle(q) EXCEPT !.boot = @ /\ anchor = 0]]
    /\ returned' = IF proc[q].mine > returned THEN proc[q].mine ELSE returned
    /\ UNCHANGED <<journal, anchor, world, bounds, overtaken>>

Candidate(q) == IF proc[q].expected = 0 THEN 1 ELSE proc[q].len

\* Seeded fault: the head is written without a look at the one it replaces.
CompareAndSetBlind(q) ==
    /\ At(q, "cas")
    /\ anchor' = Candidate(q)
    /\ proc' = [proc EXCEPT ![q].pc = "load", ![q].expected = 0, ![q].boot = FALSE]
    /\ UNCHANGED <<journal, world, bounds, hist>>

\* compare_and_set() of the anchor store.
CompareAndSet(q) ==
    /\ At(q, "cas")
    /\ IF anchor = proc[q].expected
       THEN /\ anchor' = Candidate(q)
            /\ proc' = [proc EXCEPT ![q].pc = "load", ![q].expected = 0, ![q].boot = FALSE]
       ELSE /\ proc' = [proc EXCEPT ![q].pc = "load", ![q].expected = 0, ![q].len = Len(receipts)]
            /\ UNCHANGED anchor
    /\ UNCHANGED <<journal, world, bounds, hist>>

-----------------------------------------------------------------------------
(* Faults and the operator *)

Fault == faults < MaxFaults /\ faults' = faults + 1

\* What is left when a call raises: without an open journal, nothing.
Raised(q) == IF proc[q].permit = None /\ proc[q].mine = 0 THEN Closed ELSE Idle(q)

\* A call raises: its transition is not allowed or its clock went back, there is
\* nothing to give a receipt for, the anchor is missing or shows a rollback.
Reject(q) ==
    /\ \/ /\ At(q, "write")
          /\ LET e == effect[proc[q].permit]
             IN  NewState(q) \notin Allowed[e.state] \/ \E t \in Times : t < e.updated
       \/ At(q, "receipt") /\ effect[proc[q].permit].state \notin Receiptable
       \/ At(q, "load") /\ anchor = 0 /\ proc[q].len > 0 /\ ~proc[q].boot
       \/ At(q, "load") /\ anchor > proc[q].len /\ Len(receipts) = proc[q].len
    /\ proc' = [proc EXCEPT ![q] = Raised(q)]
    /\ UNCHANGED <<journal, anchor, world, bounds, hist>>

\* A call raises anywhere: the journal is locked, the anchor store is unavailable,
\* the eighth race is lost, Ctrl-C.
Raise(q) ==
    /\ proc[q].pc \notin {"idle", "closed"} /\ Fault
    /\ proc' = [proc EXCEPT ![q] = Raised(q)]
    /\ UNCHANGED <<journal, anchor, world, recoveries, hist>>

\* The anchor was written, and the write was reported as lost.
AnchorLost(q) ==
    /\ At(q, "cas") /\ anchor = proc[q].expected /\ Fault
    /\ anchor' = Candidate(q)
    /\ proc' = [proc EXCEPT ![q] = Raised(q)]
    /\ UNCHANGED <<journal, world, recoveries, hist>>

\* A process dies in a call.  (Between calls it has nothing to lose.)
Crash(q) ==
    /\ proc[q].pc \notin {"idle", "closed"} /\ Fault
    /\ proc' = [proc EXCEPT ![q] = Closed]
    /\ UNCHANGED <<journal, anchor, world, recoveries, hist>>

\* revoke() of the grant or of a permit.
Revoke(x) ==
    /\ x \notin revoked /\ Fault
    /\ revoked' = revoked \cup {x}
    /\ UNCHANGED <<effect, row, receipts, anchor, proc, world, recoveries, hist>>

-----------------------------------------------------------------------------
Step(q) ==
    \/ Refuse(q) \/ Dispatch(q) \/ Reconcile(q) \/ Receipt(q)
    \/ Open(q) \/ ReadChain(q) \/ LoadBehind(q) \/ LoadAhead(q) \/ LoadSame(q) \/ CompareAndSet(q)
    \/ \E p \in Permits : Recover(q, p)
    \/ \E t \in Times : Start(q, t) \/ Write(q, t) \/ \E p \in Permits : Claim(q, p, t)

Next ==
    \/ \E q \in Procs : Step(q) \/ Reject(q) \/ Raise(q) \/ AnchorLost(q) \/ Crash(q)
    \/ \E x \in Revocable : Revoke(x)

Spec == Init /\ [][Next]_vars

-----------------------------------------------------------------------------
(* Properties *)

TypeOK ==
    /\ \A p \in Permits : effect[p] = NoEffect \/ effect[p].state \in States
    /\ anchor \in 0..Len(receipts)
    /\ \A q \in Procs : proc[q].permit \in Permits \cup {None} /\ proc[q].mine \in 0..Len(receipts)

\* A permit is dispatched at most once and a grant at most MaxActions times, by
\* executors and recoveries in any order, and never without a durable "started".
DispatchedOnce ==
    /\ TypeOK
    /\ \A p \in Permits :
           /\ world[p].dispatched <= 1
           /\ world[p].dispatched = 1 => effect[p].version > 1
    /\ Cardinality({p \in Permits : world[p].dispatched > 0}) <= MaxActions

\* What a signed receipt says is true of the world: "verified" only of what was
\* applied, "failed" only of what was not.  A recovery beside a living executor
\* is the exception: it settles an effect as failed that is dispatched afterwards.
ReceiptsTruthful ==
    \A i \in 1..Len(receipts) :
        LET r == receipts[i]
        IN  /\ r.state = "verified" => world[r.permit].applied
            /\ r.state = "failed" => ~world[r.permit].applied \/ r.permit \in overtaken

\* The receipts and their anchor implement the anchored chain.
Promise == INSTANCE AnchoredChain WITH chain <- receipts, head <- anchor, told <- returned

ImplementsChain == Promise!ChainSpec
=============================================================================
