--------------------------- MODULE EffectDispatch ----------------------------
(***************************************************************************)
(* One externally visible effect, from the target lease to the report:     *)
(* algo_cli/james_dispatch.py (dispatch_action, _run_external_effect) over *)
(* the effect ledger of algo_cli/clara_effect_ledger.py.                   *)
(*                                                                         *)
(* Target leases are the single-writer fence of TargetFence (implemented   *)
(* by EffectLease); the ledger's events live in the log of DurableLog      *)
(* (implemented by EventStore): an append returns, or raises and leaves    *)
(* its event in the log or not, and only acknowledged events are certain   *)
(* to survive a power loss.  A ledger operation reads the log and appends  *)
(* to it in two steps: the RLock around them does not reach other          *)
(* processes.                                                              *)
(***************************************************************************)
EXTENDS Naturals, SequencesExt, FiniteSets

CONSTANTS Workers,       \* dispatchers, each in a process of its own
          Invocations,   \* stable tool-call ids, which may be replayed
          Actions,       \* resolved actions (name and arguments)
          Targets, TargetOf,   \* the target of an action
          NoWorker,
          MaxToken,      \* bound on the leases granted on a target
          MaxRecords     \* the ledger's retention (10,000 in the code)

ASSUME NoWorkerAssumption == NoWorker \notin Workers
ASSUME TargetOfAssumption == TargetOf \in [Actions -> Targets]
ASSUME BoundAssumption == MaxToken \in Nat /\ MaxRecords \in Nat \ {0}

VARIABLES pc,        \* where a worker is in dispatch_action()
          req,       \* req[w]: the invocation id and the action it dispatches
          token,     \* token[w]: the fencing token of its target lease
          plan,      \* plan[w]: the ledger writes under way and what follows
          outcome,   \* outcome[w]: the ActionOutcome about to be reported
          ran,       \* ran[w]: this dispatch has called the tool
          writer, fence,   \* the target leases (TargetFence)
          binder,    \* binder[i]: the holder of the invocation lease of i
          log,       \* the ledger's events, oldest first
          unsynced,  \* how many events at its end a power loss may take
          calls,     \* history: the tool calls <<invocation, action, token>>, in order
          applied    \* history: the <<invocation, action>> that took effect

lock  == <<writer, fence, binder>>
book  == <<log, unsynced>>
world == <<calls, applied>>
vars  == <<pc, req, token, plan, outcome, ran, lock, book, world>>

Leases == INSTANCE TargetFence

-----------------------------------------------------------------------------
(* The ledger: clara_effect_ledger.py *)

EffectState == {"prepared", "started", "applied", "verified", "failed", "unknown"}

\* _ALLOWED_TRANSITIONS
Allowed == [s \in EffectState |->
    CASE s = "prepared" -> {"started", "failed"}
      [] s = "started"  -> {"applied", "failed", "unknown"}
      [] s = "applied"  -> {"verified", "unknown"}
      [] s = "unknown"  -> {"verified", "failed"}
      [] OTHER          -> {}]

\* An effect id is fresh for each prepare(), as is the fencing token.
Effect == Invocations \X Actions \X Nat

Event == [effect : Effect, state : EffectState, prev : EffectState \cup {"none"},
          seq : Nat]

Effects(l) == {l[i].effect : i \in DOMAIN l}

\* The record of an effect is its newest event.
Newest(l, e) == CHOOSE i \in DOMAIN l :
    l[i].effect = e /\ \A j \in DOMAIN l : j > i => l[j].effect # e

Latest(l, e) == l[Newest(l, e)]

\* records() raises EffectLedgerCorrupt: a broken chain, or an invocation id
\* (hence also an idempotency key) that maps to two effects.
Corrupt(l) ==
    \/ \E i, j \in DOMAIN l :
           /\ i < j /\ l[j].effect = l[i].effect
           /\ \A k \in (i + 1)..(j - 1) : l[k].effect # l[i].effect
           /\ l[j].seq # l[i].seq + 1 \/ l[j].prev # l[i].state
    \/ \E d, e \in Effects(l) : d # e /\ d[1] = e[1]

\* _append(): the store's retention drops the oldest events.
Retained(l) == SubSeq(l, 1 + (IF Len(l) > MaxRecords THEN Len(l) - MaxRecords ELSE 0), Len(l))

Mine(w) == <<req[w].inv, req[w].act, token[w]>>

\* The effect recorded for the worker's idempotency key.
Existing(w) == {e \in Effects(log) : e[1] = req[w].inv /\ e[2] = req[w].act}

AppendStored(e) ==
    /\ log' = Retained(Append(log, e))
    /\ unsynced' = 0

\* The append raises: nothing was written, or the event is in the file.
AppendRaises(e) ==
    \/ UNCHANGED book
    \/ /\ log' = Append(log, e)
       /\ unsynced' = unsynced + 1

-----------------------------------------------------------------------------
(* Outcomes: arthur_outcomes.py (normalize_action_outcome) for an external, *)
(* non-idempotent action whose failures may hide an effect.                 *)

Untyped == [status |-> "none", invoked |-> FALSE, retry |-> FALSE]

Failed(invoked) == IF invoked
    THEN [status |-> "unknown", invoked |-> TRUE, retry |-> FALSE]
    ELSE [status |-> "failed", invoked |-> FALSE, retry |-> TRUE]

\* A signal before the dispatch: cancelled or timed out.
Stopped == [status |-> "stopped", invoked |-> FALSE, retry |-> TRUE]

Succeeded(invoked) == [status |-> "succeeded", invoked |-> invoked, retry |-> FALSE]

KnownFailure(invoked) == [status |-> "failed", invoked |-> invoked, retry |-> FALSE]

-----------------------------------------------------------------------------

NoPlan == [todo |-> <<>>, effect |-> <<>>, then |-> "release", ok |-> Untyped,
           bad |-> Untyped, prev |-> "none", seq |-> 0]

Init ==
    /\ pc = [w \in Workers |-> "idle"]
    /\ req \in [Workers -> {[inv |-> i, act |-> a] : i \in Invocations, a \in Actions}]
    /\ \A v, w \in Workers : req[v] = req[w]
    /\ token = [w \in Workers |-> 0]
    /\ plan = [w \in Workers |-> NoPlan]
    /\ outcome = [w \in Workers |-> Untyped]
    /\ ran = [w \in Workers |-> FALSE]
    /\ Leases!FInit
    /\ binder = [i \in Invocations |-> NoWorker]
    /\ log = <<>> /\ unsynced = 0
    /\ calls = <<>> /\ applied = {}

Goto(w, l) == pc' = [pc EXCEPT ![w] = l]

\* The dispatch is over but for the release of the lease and the report.
Finish(w, o) ==
    /\ outcome' = [outcome EXCEPT ![w] = o]
    /\ plan' = [plan EXCEPT ![w] = NoPlan]
    /\ Goto(w, "release")

\* Begin the ledger transitions of todo for an effect.
Record(w, e, todo, then, ok, bad) ==
    /\ plan' = [plan EXCEPT ![w] = [NoPlan EXCEPT !.todo = todo, !.effect = e,
                                        !.then = then, !.ok = ok, !.bad = bad]]
    /\ Goto(w, "read")
    /\ UNCHANGED outcome

-----------------------------------------------------------------------------
(* The target lease *)

\* An approved external mutation with a tool-call id.
Dispatch(w, r) ==
    /\ pc[w] = "idle"
    /\ req' = [req EXCEPT ![w] = r]
    /\ outcome' = [outcome EXCEPT ![w] = Untyped]
    /\ ran' = [ran EXCEPT ![w] = FALSE]
    /\ Goto(w, "lease")
    /\ UNCHANGED <<token, plan, lock, book, world>>

\* Seeded fault: the token of the lease is read before it is incremented.
AcquireTargetStale(w) ==
    LET t == TargetOf[req[w].act] IN
    /\ pc[w] = "lease"
    /\ fence[t] < MaxToken
    /\ fence' = [fence EXCEPT ![t] = @ + 1]
    /\ Leases!Grant(w, t)
    /\ token' = [token EXCEPT ![w] = fence[t]]
    /\ Goto(w, "fenced")
    /\ UNCHANGED <<req, plan, outcome, ran, binder, book, world>>

AcquireTarget(w) ==
    LET t == TargetOf[req[w].act] IN
    /\ pc[w] = "lease"
    /\ fence[t] < MaxToken
    /\ fence' = [fence EXCEPT ![t] = @ + 1]
    /\ Leases!Grant(w, t)
    /\ token' = [token EXCEPT ![w] = fence'[t]]
    /\ Goto(w, "fenced")
    /\ UNCHANGED <<req, plan, outcome, ran, binder, book, world>>

\* A signal, EffectLeaseBusy or any other error of acquire().
TargetUnavailable(w) ==
    /\ pc[w] = "lease"
    /\ \E o \in {Stopped, Failed(FALSE)} : Finish(w, o)
    /\ UNCHANGED <<req, token, ran, lock, book, world>>

\* A signal, or the fresh lease does not validate.
StopFenced(w) ==
    /\ pc[w] = "fenced"
    /\ \E o \in {Stopped, Failed(FALSE)} : Finish(w, o)
    /\ UNCHANGED <<req, token, ran, lock, book, world>>

-----------------------------------------------------------------------------
(* prepare() *)

\* Seeded fault: prepare() does not take the invocation lease.
BindUnguarded(w) ==
    /\ pc[w] = "fenced"
    /\ binder' = [binder EXCEPT ![req[w].inv] = w]
    /\ Goto(w, "bound")
    /\ UNCHANGED <<req, token, plan, outcome, ran, writer, fence, book, world>>

BindInvocation(w) ==
    /\ pc[w] = "fenced"
    /\ binder[req[w].inv] = NoWorker
    /\ binder' = [binder EXCEPT ![req[w].inv] = w]
    /\ Goto(w, "bound")
    /\ UNCHANGED <<req, token, plan, outcome, ran, writer, fence, book, world>>

Unbound(w) == binder' = [i \in Invocations |-> IF binder[i] = w THEN NoWorker ELSE binder[i]]

\* The invocation lease is busy.
BindFails(w) ==
    /\ pc[w] = "fenced"
    /\ Finish(w, Failed(FALSE))
    /\ UNCHANGED <<req, token, ran, lock, book, world>>

\* The ledger is unreadable or corrupt, or the id was bound to another action.
PrepareRefuses(w) ==
    /\ pc[w] = "bound"
    /\ Unbound(w)
    /\ Finish(w, Failed(FALSE))
    /\ UNCHANGED <<req, token, ran, writer, fence, book, world>>

\* No record with this key or this invocation id.
PrepareReads(w) ==
    /\ pc[w] = "bound"
    /\ ~Corrupt(log)
    /\ \A e \in Effects(log) : e[1] # req[w].inv
    /\ Goto(w, "preparing")
    /\ UNCHANGED <<req, token, plan, outcome, ran, lock, book, world>>

Prepared(w) == [effect |-> Mine(w), state |-> "prepared", prev |-> "none", seq |-> 0]

PrepareStores(w) ==
    /\ pc[w] = "preparing"
    /\ AppendStored(Prepared(w))
    /\ Unbound(w)
    /\ Goto(w, "prepared")
    /\ UNCHANGED <<req, token, plan, outcome, ran, writer, fence, world>>

PrepareRaises(w) ==
    /\ pc[w] = "preparing"
    /\ AppendRaises(Prepared(w))
    /\ Unbound(w)
    /\ Finish(w, Failed(FALSE))
    /\ UNCHANGED <<req, token, ran, writer, fence, world>>

\* The key has a record: _deduplicated_external_outcome().  A prepared effect
\* is recovered as failed under a strictly newer fence; its own token is used
\* for the transition.
Deduplicate(w) ==
    /\ pc[w] = "bound"
    /\ ~Corrupt(log)
    /\ Unbound(w)
    /\ \E e \in Existing(w) :
           LET s == Latest(log, e).state IN
           \/ s = "verified" /\ Finish(w, Succeeded(FALSE))
           \/ s = "failed" /\ Finish(w, KnownFailure(FALSE))
           \/ /\ s = "prepared" /\ token[w] > e[3]
              /\ Record(w, e, <<"failed">>, "release", KnownFailure(FALSE), KnownFailure(FALSE))
           \/ s = "prepared" /\ token[w] <= e[3] /\ Finish(w, KnownFailure(FALSE))
           \/ s \in {"started", "applied", "unknown"} /\ Finish(w, Failed(TRUE))
    /\ UNCHANGED <<req, token, ran, writer, fence, book, world>>

-----------------------------------------------------------------------------
(* transition(): read, check, append *)

ReadLedger(w) ==
    /\ pc[w] = "read"
    /\ ~Corrupt(log)
    /\ plan[w].effect \in Effects(log)
    /\ LET r == Latest(log, plan[w].effect) IN
       /\ Head(plan[w].todo) \in Allowed[r.state]
       /\ plan[w].effect # Mine(w) => r.state = "prepared"   \* recover_prepared()
       /\ plan' = [plan EXCEPT ![w].prev = r.state, ![w].seq = r.seq]
    /\ Goto(w, "append")
    /\ UNCHANGED <<req, token, outcome, ran, lock, book, world>>

\* The log cannot be read, the effect is gone or the transition not allowed.
ReadFails(w) ==
    /\ pc[w] = "read"
    /\ Finish(w, plan[w].bad)
    /\ UNCHANGED <<req, token, ran, lock, book, world>>

Transition(w) == [effect |-> plan[w].effect, state |-> Head(plan[w].todo),
                  prev |-> plan[w].prev, seq |-> plan[w].seq + 1]

\* The event is durable: the next transition, or what follows the last one.
AppendReturns(w) ==
    /\ pc[w] = "append"
    /\ AppendStored(Transition(w))
    /\ IF Len(plan[w].todo) > 1
       THEN /\ plan' = [plan EXCEPT ![w].todo = Tail(@)]
            /\ Goto(w, "read")
            /\ UNCHANGED outcome
       ELSE /\ plan' = [plan EXCEPT ![w] = NoPlan]
            /\ outcome' = [outcome EXCEPT ![w] = plan[w].ok]
            /\ Goto(w, plan[w].then)
    /\ UNCHANGED <<req, token, ran, lock, world>>

\* Seeded fault: a receipt that fails is reported as a tool never called.
AppendFailsHidden(w) ==
    /\ pc[w] = "append"
    /\ AppendRaises(Transition(w))
    /\ Finish(w, Failed(FALSE))
    /\ UNCHANGED <<req, token, ran, lock, world>>

\* Seeded fault: a receipt that fails is written again until it succeeds.
AppendRetries(w) ==
    /\ pc[w] = "append"
    /\ AppendRaises(Transition(w))
    /\ Goto(w, "read")
    /\ UNCHANGED <<req, token, plan, outcome, ran, lock, world>>

AppendFails(w) ==
    /\ pc[w] = "append"
    /\ AppendRaises(Transition(w))
    /\ Finish(w, plan[w].bad)
    /\ UNCHANGED <<req, token, ran, lock, world>>

-----------------------------------------------------------------------------
(* _run_external_effect() *)

\* A signal after prepare() or after the start receipt, or a lease that is no
\* longer valid before the call: the effect is recorded as failed.
StopBeforeCall(w) ==
    /\ pc[w] \in {"prepared", "started"}
    /\ \/ Record(w, Mine(w), <<"failed">>, "release", Stopped, Failed(FALSE))
       \/ /\ pc[w] = "started"
          /\ Record(w, Mine(w), <<"failed">>, "release", Failed(FALSE), Failed(FALSE))
    /\ UNCHANGED <<req, token, ran, lock, book, world>>

\* validate() itself raises before the call: the handler of dispatch_action().
ValidateRaises(w) ==
    /\ pc[w] = "started"
    /\ Finish(w, Failed(FALSE))
    /\ UNCHANGED <<req, token, ran, lock, book, world>>

RecordStart(w) ==
    /\ pc[w] = "prepared"
    /\ Record(w, Mine(w), <<"started">>, "started", Untyped, Failed(FALSE))
    /\ UNCHANGED <<req, token, ran, lock, book, world>>

\* Seeded fault: the tool is called before the start receipt is written.
InvokeEarly(w) ==
    /\ pc[w] \in {"prepared", "started"}
    /\ ran' = [ran EXCEPT ![w] = TRUE]
    /\ calls' = Append(calls, Mine(w))
    /\ applied' \in {applied, applied \cup {<<req[w].inv, req[w].act>>}}
    /\ Goto(w, "returned")
    /\ UNCHANGED <<req, token, plan, outcome, lock, book>>

\* The tool call; it takes effect or not, whatever it reports.
Invoke(w) ==
    /\ pc[w] = "started"
    /\ ran' = [ran EXCEPT ![w] = TRUE]
    /\ calls' = Append(calls, Mine(w))
    /\ applied' \in {applied, applied \cup {<<req[w].inv, req[w].act>>}}
    /\ Goto(w, "returned")
    /\ UNCHANGED <<req, token, plan, outcome, lock, book>>

\* Seeded fault: a lease lost during the call is recorded as a failed effect.
StaleAfterCallFails(w) ==
    /\ pc[w] = "returned"
    /\ Record(w, Mine(w), <<"failed">>, "release", Failed(TRUE), Failed(TRUE))
    /\ UNCHANGED <<req, token, ran, lock, book, world>>

\* The lease is no longer valid: no claim about the effect is recorded.
StaleAfterCall(w) ==
    /\ pc[w] = "returned"
    /\ Record(w, Mine(w), <<"unknown">>, "release", Failed(TRUE), Failed(TRUE))
    /\ UNCHANGED <<req, token, ran, lock, book, world>>

\* Seeded fault: a tool that reports a failure is called once more.
RecordReplyRetries(w) ==
    /\ pc[w] = "returned"
    /\ \/ /\ Record(w, Mine(w), <<"applied">>, "claimed", Untyped, Failed(TRUE))
       \/ Goto(w, "started") /\ UNCHANGED <<plan, outcome>>
    /\ UNCHANGED <<req, token, ran, lock, book, world>>

\* The tool reported success ("applied") or anything else ("unknown").
RecordReply(w) ==
    /\ pc[w] = "returned"
    /\ \/ Record(w, Mine(w), <<"applied">>, "claimed", Untyped, Failed(TRUE))
       \/ Record(w, Mine(w), <<"unknown">>, "unclear", Untyped, Failed(TRUE))
    /\ UNCHANGED <<req, token, ran, lock, book, world>>

\* The verifier observed the effect.  Verifiers are external and sound.
Confirm(w) ==
    /\ pc[w] \in {"claimed", "unclear"}
    /\ <<req[w].inv, req[w].act>> \in applied
    /\ Record(w, Mine(w), <<"verified">>, "release", Succeeded(TRUE), Failed(TRUE))
    /\ UNCHANGED <<req, token, ran, lock, book, world>>

\* The verifier observed that there is no effect.
Refute(w) ==
    /\ pc[w] \in {"claimed", "unclear"}
    /\ <<req[w].inv, req[w].act>> \notin applied
    /\ Record(w, Mine(w), IF pc[w] = "claimed" THEN <<"unknown", "failed">> ELSE <<"failed">>,
              "release", KnownFailure(TRUE), Failed(TRUE))
    /\ UNCHANGED <<req, token, ran, lock, book, world>>

\* No verifier, no answer, or an interrupted call or verifier.
LeaveUnknown(w) ==
    /\ \/ /\ pc[w] = "claimed"
          /\ Record(w, Mine(w), <<"unknown">>, "release", Failed(TRUE), Failed(TRUE))
       \/ /\ pc[w] = "unclear"
          /\ Finish(w, Failed(TRUE))
    /\ UNCHANGED <<req, token, ran, lock, book, world>>

\* The finally clause releases the lease; the outcome is reported.
Report(w) ==
    /\ pc[w] = "release"
    /\ Leases!Drop({t \in Targets : writer[t] = w})
    /\ token' = [token EXCEPT ![w] = 0]
    /\ outcome' = [outcome EXCEPT ![w] = Untyped]
    /\ ran' = [ran EXCEPT ![w] = FALSE]
    /\ Goto(w, "idle")
    /\ UNCHANGED <<req, plan, binder, book, world>>

-----------------------------------------------------------------------------
(* Interrupts, crashes, power loss *)

\* A KeyboardInterrupt outside the approval, the tool call and the verifier
\* passes every handler: the leases are released and nothing is reported.
Interrupt(w) ==
    /\ pc[w] # "idle"
    /\ Finish(w, Untyped)
    /\ Unbound(w)
    /\ \/ UNCHANGED book
       \/ pc[w] = "preparing" /\ AppendRaises(Prepared(w))
       \/ pc[w] = "append" /\ AppendRaises(Transition(w))
    /\ UNCHANGED <<req, token, ran, writer, fence, world>>

Kill(ws) ==
    /\ pc' = [w \in Workers |-> IF w \in ws THEN "idle" ELSE pc[w]]
    /\ token' = [w \in Workers |-> IF w \in ws THEN 0 ELSE token[w]]
    /\ plan' = [w \in Workers |-> IF w \in ws THEN NoPlan ELSE plan[w]]
    /\ outcome' = [w \in Workers |-> IF w \in ws THEN Untyped ELSE outcome[w]]
    /\ ran' = [w \in Workers |-> IF w \in ws THEN FALSE ELSE ran[w]]
    /\ binder' = [i \in Invocations |-> IF binder[i] \in ws THEN NoWorker ELSE binder[i]]
    /\ Leases!Drop({t \in Targets : writer[t] \in ws})
    /\ UNCHANGED <<req, world>>

Crash(w) == Kill({w}) /\ UNCHANGED book

PowerLoss ==
    /\ Kill(Workers)
    /\ \E n \in 0..unsynced : log' = SubSeq(log, 1, Len(log) - n)
    /\ unsynced' = 0

-----------------------------------------------------------------------------

Ledger(w) ==
    \/ PrepareRefuses(w) \/ PrepareReads(w) \/ PrepareStores(w) \/ PrepareRaises(w)
    \/ Deduplicate(w)
    \/ ReadLedger(w) \/ ReadFails(w) \/ AppendReturns(w) \/ AppendFails(w)

Run(w) ==
    \/ AcquireTarget(w) \/ TargetUnavailable(w) \/ StopFenced(w)
    \/ BindInvocation(w) \/ BindFails(w)
    \/ StopBeforeCall(w) \/ ValidateRaises(w) \/ RecordStart(w) \/ Invoke(w)
    \/ StaleAfterCall(w) \/ RecordReply(w)
    \/ Confirm(w) \/ Refute(w) \/ LeaveUnknown(w) \/ Report(w)

Next ==
    \/ \E w \in Workers, i \in Invocations, a \in Actions :
           Dispatch(w, [inv |-> i, act |-> a])
    \/ \E w \in Workers : Ledger(w) \/ Run(w) \/ Interrupt(w) \/ Crash(w)
    \/ PowerLoss

Spec == Init /\ [][Next]_vars

\* A dispatch that has begun keeps running: every wait in it is bounded.
FairSpec == Spec /\ \A w \in Workers : WF_vars(Ledger(w) \/ Run(w))

-----------------------------------------------------------------------------
(* Properties *)

Outcome == [status : {"none", "failed", "unknown", "stopped", "succeeded"},
            invoked : BOOLEAN, retry : BOOLEAN]

\* Type invariant; a worker past the lease owns its target and its token.
TypeOK ==
    /\ pc \in [Workers -> {"idle", "lease", "fenced", "bound", "preparing", "prepared",
                           "read", "append", "started", "returned", "claimed",
                           "unclear", "release"}]
    /\ outcome \in [Workers -> Outcome]
    /\ ran \in [Workers -> BOOLEAN]
    /\ Leases!FTypeOK
    /\ binder \in [Invocations -> Workers \cup {NoWorker}]
    /\ log \in Seq(Event)
    /\ unsynced \in 0..Len(log)
    /\ \A w \in Workers : pc[w] \notin {"idle", "lease", "release"} =>
           LET t == TargetOf[req[w].act] IN writer[t] = w /\ token[w] = fence[t]

\* Whatever dispatches, replays, recoveries, interrupts and crashes interleave,
\* the leases are kept in order and the ledger stays readable: no broken chain,
\* no invocation with two effects.
LedgerConsistent == TypeOK /\ ~Corrupt(log)

\* A tool-call id leads to at most one call of the tool, also when it is
\* replayed concurrently, with changed arguments, or after a crash.
AtMostOnce == \A i, j \in DOMAIN calls : calls[i][1] = calls[j][1] => i = j

\* A settled effect is settled truthfully: "verified" effects took place,
\* "failed" ones did not, and are not under way.
SettledTruthfully ==
    \A e \in Effects(log) :
        /\ Latest(log, e).state = "verified" => <<e[1], e[2]>> \in applied
        /\ Latest(log, e).state = "failed" =>
              /\ <<e[1], e[2]>> \notin applied
              /\ \A w \in Workers : pc[w] = "started" => Mine(w) # e

\* Write-ahead: an effect whose tool was called is past "prepared" in the part
\* of the log that survives a power loss, so recovery never calls it again.
IntentDurable ==
    \A c \in ToSet(calls) : \E i \in 1..(Len(log) - unsynced) :
        log[i].effect = c /\ log[i].state # "prepared"

\* What is reported is true: "not invoked" means that this dispatch did not
\* call the tool, only such a dispatch may be retried, success is verified in
\* the ledger, and a known failure left no effect behind.
ReportHonest ==
    \A w \in Workers : pc[w] = "release" /\ outcome[w] # Untyped =>
        LET k == <<req[w].inv, req[w].act>> IN
        /\ ran[w] => outcome[w].invoked /\ ~outcome[w].retry
        /\ outcome[w].status = "succeeded" => k \in applied
        /\ outcome[w].status = "failed" /\ ~outcome[w].retry => k \notin applied \/ ~ran[w]

\* Calls on a target carry increasing fencing tokens, and each is made by the
\* current writer of the target.
FencedCalls ==
    [][calls' # calls =>
          LET c == Last(calls') IN
          /\ \A d \in ToSet(calls) : TargetOf[d[2]] = TargetOf[c[2]] => d[3] < c[3]
          /\ c[3] = fence[TargetOf[c[2]]]
          /\ writer[TargetOf[c[2]]] # NoWorker]_vars

\* Every dispatch reports, or is cut short, within its bounded waits.
DispatchEnds == \A w \in Workers : pc[w] = "lease" ~> pc[w] = "idle"
=============================================================================
