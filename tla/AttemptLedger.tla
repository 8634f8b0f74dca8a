---------------------------- MODULE AttemptLedger ----------------------------
(***************************************************************************)
(* The attempt ledger of one session: algo_cli/nathan_runtime.py           *)
(* (find_failed_attempt, reserve_retry_capacity, record_tool_attempt), as  *)
(* james_dispatch.dispatch_action uses it and as main.py schedules it: one *)
(* batch at a time, a batch being a single action of the main thread or    *)
(* several observations in a thread pool.  An interrupted pool is          *)
(* abandoned: its observations may finish in the background.               *)
(***************************************************************************)
EXTENDS Naturals, Sequences, FiniteSets

CONSTANTS Main, Workers,  \* the main thread and the threads of the pool
          Writes,         \* signatures of mutations of the workspace
          Reads,          \* signatures of pure observations
          Probes,         \* observations that are not idempotent (paid queries)
          Sees,           \* Sees[r]: the writes whose target r observes
          Limit,          \* ATTEMPT_LEDGER_LIMIT (48)
          MaxEffects      \* bound on the number of mutations

Threads == Workers \cup {Main}
Signatures == Writes \cup Reads \cup Probes

ASSUME MainAssumption == Main \notin Workers
ASSUME KindAssumption == Writes \cap Reads = {}   \* a signature names its tool
ASSUME SeesAssumption == Sees \in [Reads -> SUBSET Writes]
ASSUME LimitAssumption == Limit \in Nat \ {0} /\ MaxEffects \in Nat

VARIABLES ledger,    \* cfg.attempt_ledger, oldest first
          slots,     \* cfg._nathan_retry_slots
          job,       \* job[t]: the dispatch of a thread
          effects,   \* history: the number of mutations so far
          saved,     \* what Config.save() has read and is about to assign
          open       \* history: writes of unknown outcome not observed since, nor cut off

vars == <<ledger, slots, job, effects, saved, open>>

Status == {"worked", "failed", "skipped", "denied", "unknown_outcome", "cancelled"}

\* fresh: a failure at most FAILED_ATTEMPT_SKIP_SECONDS old; at: the number of
\* effects when a mutation of unknown outcome ran.
Entry == [sig : Signatures, status : Status, retry : BOOLEAN,
          reconciled : BOOLEAN, fresh : BOOLEAN, at : Nat]

-----------------------------------------------------------------------------
(* The ledger's own operations *)

\* _is_nonretryable_attempt()
NonRetryable(e) == /\ ~e.reconciled
                   /\ e.status = "unknown_outcome" \/ (e.status = "failed" /\ ~e.retry)

\* _retry_barrier_indices()
Barriers(l) ==
    {i \in DOMAIN l :
        /\ NonRetryable(l[i])
        /\ \A j \in (i + 1)..Len(l) :
              l[j].sig = l[i].sig => l[j].status \in {"skipped", "denied"} /\ ~NonRetryable(l[j])}

\* The entries _find_failed_attempt_unlocked() does not pass over.
Decisive(l, s) == {i \in DOMAIN l : /\ l[i].sig = s
                                    /\ ~l[i].reconciled
                                    /\ l[i].status \notin {"skipped", "denied"}}

\* _find_failed_attempt_unlocked(): the newest decisive entry, if it blocks.
Blocking(l, s) ==
    {i \in Decisive(l, s) :
        /\ \A j \in Decisive(l, s) : j <= i
        /\ \/ NonRetryable(l[i])
           \/ /\ l[i].status = "failed" /\ l[i].fresh
              /\ \A j \in (i + 1)..Len(l) :
                    ~(l[j].sig = s /\ l[j].status = "skipped" /\ ~l[j].reconciled)}

\* sanitize_attempt_ledger() keeps the newest entries, whatever they are (and
\* as the trimming of a recorded attempt this is a seeded fault).
RetainNewest(l) == SubSeq(l, 1 + (IF Len(l) > Limit THEN Len(l) - Limit ELSE 0), Len(l))

\* The entries at the positions S, in their order.
Kept(l, S) ==
    [k \in 1..Cardinality(S) |-> l[CHOOSE i \in S : Cardinality({j \in S : j <= i}) = k]]

\* The barriers and as many of the newest other entries as there is room for.
Retain(l) ==
    LET barriers  == Barriers(l)
        recent    == DOMAIN l \ barriers
        available == IF Limit > Cardinality(barriers) THEN Limit - Cardinality(barriers) ELSE 0
    IN  Kept(l, barriers \cup
                {i \in recent : Cardinality({j \in recent : j >= i}) <= available})

\* A workspace mutation invalidates the cached failures that may be retried.
Purge(l) ==
    Kept(l, {i \in DOMAIN l : l[i].status \notin {"failed", "skipped"} \/ NonRetryable(l[i])})

\* _reconcile_uncertain_attempts()
Reconcile(l, r) == [i \in DOMAIN l |->
    IF l[i].status = "unknown_outcome" /\ l[i].sig \in Sees[r]
    THEN [l[i] EXCEPT !.reconciled = TRUE] ELSE l[i]]

\* _record_tool_attempt_unlocked(): a non-execution behind a barrier leaves no
\* entry; anything else is appended, and the ledger is trimmed in a second step.
Coalesced(l, e) ==
    e.status \in {"skipped", "denied"} /\ \E i \in Blocking(l, e.sig) : NonRetryable(l[i])

Recorded(l, e, changed) ==
    LET p == IF changed THEN Purge(l) ELSE l
        r == IF e.status = "worked" /\ e.sig \in Reads THEN Reconcile(p, e.sig) ELSE p
    IN  IF Coalesced(p, e) THEN p ELSE Append(r, e)

-----------------------------------------------------------------------------

Idle == [pc |-> "idle", sig |-> "none", status |-> "none", retry |-> FALSE,
         invoked |-> FALSE, slot |-> FALSE, abandoned |-> FALSE, saw |-> 0]

Init ==
    /\ ledger = <<>> /\ slots = 0
    /\ job = [t \in Threads |-> Idle]
    /\ effects = 0 /\ saved = <<>> /\ open = {}

\* _ATTEMPT_LEDGER_LOCK is free: nobody is between the append and the trimming.
Unlocked == \A t \in Threads : job[t].pc # "trim"

Goto(t, l) == job' = [job EXCEPT ![t].pc = l]

\* The dispatch ends with this outcome, which _finalize() records.
Outcome(t, status, retry) ==
    job' = [job EXCEPT ![t].pc = "record", ![t].status = status, ![t].retry = retry]

\* The workers of the batch the main thread is waiting for.
Batch == {w \in Workers : job[w].pc # "idle" /\ ~job[w].abandoned}

\* Seeded fault: the main thread does not wait for its observations.
DispatchEarly(s) ==
    /\ job[Main].pc = "idle"
    /\ s \in Writes => effects < MaxEffects
    /\ job' = [job EXCEPT ![Main] = [Idle EXCEPT !.pc = "lookup", !.sig = s]]
    /\ UNCHANGED <<ledger, slots, effects, saved, open>>

\* The main thread dispatches one action.
Dispatch(s) ==
    /\ job[Main].pc = "idle" /\ Batch = {}
    /\ s \in Writes => effects < MaxEffects
    /\ job' = [job EXCEPT ![Main] = [Idle EXCEPT !.pc = "lookup", !.sig = s]]
    /\ UNCHANGED <<ledger, slots, effects, saved, open>>

\* _parallel_dispatch_allowed(): a pool runs distinct pure observations.
Submit(w, r) ==
    /\ job[Main].pc = "idle"
    /\ job[w].pc = "idle"
    /\ \A v \in Batch : job[v].sig # r
    /\ job' = [job EXCEPT ![w] = [Idle EXCEPT !.pc = "lookup", !.sig = r]]
    /\ UNCHANGED <<ledger, slots, effects, saved, open>>

\* Preflight or the caller's policy ceiling denies the action.
PreflightDenies(t) ==
    /\ job[t].pc = "lookup"
    /\ Outcome(t, "denied", FALSE)
    /\ UNCHANGED <<ledger, slots, effects, saved, open>>

Lookup(t) ==
    /\ job[t].pc = "lookup" /\ Unlocked
    /\ IF Blocking(ledger, job[t].sig) # {} THEN Outcome(t, "skipped", FALSE) ELSE Goto(t, "reserve")
    /\ UNCHANGED <<ledger, slots, effects, saved, open>>

\* Seeded fault: the capacity left for uncertain outcomes is not consulted.
ReserveAlways(t) ==
    /\ job[t].pc = "reserve"
    /\ job' = [job EXCEPT ![t].pc = "approve", ![t].slot = job[t].sig \in Writes]
    /\ slots' = IF job[t].sig \in Writes THEN slots + 1 ELSE slots
    /\ UNCHANGED <<ledger, effects, saved, open>>

\* reserve_retry_capacity(): a mutation needs room for one more barrier.
Reserve(t) ==
    /\ job[t].pc = "reserve" /\ Unlocked
    /\ IF job[t].sig \notin Writes
       THEN Goto(t, "approve") /\ UNCHANGED slots
       ELSE IF Cardinality(Barriers(ledger)) + slots < Limit
       THEN /\ job' = [job EXCEPT ![t].pc = "approve", ![t].slot = TRUE]
            /\ slots' = slots + 1
       ELSE Outcome(t, "denied", FALSE) /\ UNCHANGED slots
    /\ UNCHANGED <<ledger, effects, saved, open>>

\* The approval is refused, a cancellation or an interrupt arrives before the
\* tool runs, or the target lease is not available.
NotInvoked(t) ==
    /\ job[t].pc = "approve"
    /\ \/ Outcome(t, "denied", FALSE)
       \/ Outcome(t, "cancelled", TRUE)
       \/ job[t].sig \in Writes /\ Outcome(t, "failed", TRUE)
    /\ UNCHANGED <<ledger, slots, effects, saved, open>>

\* The tool runs: a mutation may take effect, an observation sees those before.
Invoke(t) ==
    /\ job[t].pc = "approve"
    /\ effects' = IF job[t].sig \in Writes THEN effects + 1 ELSE effects
    /\ job' = [job EXCEPT ![t].pc = "judge", ![t].invoked = TRUE, ![t].saw = effects']
    /\ UNCHANGED <<ledger, slots, saved, open>>

\* The outcome of a tool that ran: _termination_outcome() after a cancellation,
\* normalize_action_outcome() otherwise.
Judge(t) ==
    /\ job[t].pc = "judge"
    /\ IF job[t].sig \in Writes
       THEN \/ Outcome(t, "worked", FALSE)
            \/ Outcome(t, "unknown_outcome", FALSE)
            \/ Outcome(t, "failed", FALSE)          \* known to have no effect
       ELSE IF job[t].abandoned
       THEN Outcome(t, "cancelled", job[t].sig \in Reads)
       ELSE Outcome(t, "worked", FALSE) \/ Outcome(t, "failed", job[t].sig \in Reads)
    /\ UNCHANGED <<ledger, slots, effects, saved, open>>

\* record_tool_attempt(), under _ATTEMPT_LEDGER_LOCK.  Only Config.save() reads the
\* ledger without the lock, and only in the main thread: a worker's append and its
\* trimming are two steps, those of the main thread are one.
Record(t) ==
    LET j == job[t]
        e == [sig |-> j.sig, status |-> j.status, retry |-> j.retry,
              reconciled |-> FALSE, fresh |-> j.status = "failed",
              at |-> IF j.status = "unknown_outcome" THEN j.saw ELSE 0]
        atOnce    == t = Main
        coalesced == Coalesced(ledger, e)
    IN
    /\ j.pc = "record" /\ Unlocked
    /\ \E changed \in (IF j.invoked /\ j.sig \in Writes THEN BOOLEAN ELSE {FALSE}) :
           ledger' = IF atOnce /\ ~coalesced THEN Retain(Recorded(ledger, e, changed))
                                             ELSE Recorded(ledger, e, changed)
    /\ job' = [job EXCEPT ![t] = [Idle EXCEPT !.pc = IF atOnce \/ coalesced THEN "done" ELSE "trim",
                                              !.sig = j.sig, !.slot = j.slot, !.abandoned = j.abandoned]]
    /\ open' = IF j.status = "unknown_outcome" THEN open \cup {j.sig}
               ELSE IF j.status = "worked" /\ j.sig \in Reads THEN open \ Sees[j.sig]
               ELSE open
    /\ UNCHANGED <<slots, effects, saved>>

Trim(t) ==
    /\ job[t].pc = "trim"
    /\ ledger' = Retain(ledger)
    /\ Goto(t, "done")
    /\ UNCHANGED <<slots, effects, saved, open>>

\* The slot is given back after the record; the dispatch returns.
Return(t) ==
    /\ job[t].pc = "done" /\ Unlocked
    /\ slots' = IF job[t].slot THEN slots - 1 ELSE slots
    /\ job' = [job EXCEPT ![t] = Idle]
    /\ UNCHANGED <<ledger, effects, saved, open>>

\* _drain_interrupted_batch(): Ctrl-C abandons the observations of the pool.
Abandon ==
    /\ Batch # {}
    /\ job' = [t \in Threads |-> IF t \in Batch THEN [job[t] EXCEPT !.abandoned = TRUE] ELSE job[t]]
    /\ UNCHANGED <<ledger, slots, effects, saved, open>>

\* The failures of the last two minutes become old; only a lookup can tell.
Age ==
    /\ \E t \in Threads : job[t].pc = "lookup"
    /\ \E i \in DOMAIN ledger : ledger[i].fresh
    /\ ledger' = [i \in DOMAIN ledger |-> [ledger[i] EXCEPT !.fresh = FALSE]]
    /\ UNCHANGED <<slots, job, effects, saved, open>>

\* Config.save() between two batches: it takes no lock, so an abandoned worker may
\* record or trim before and after each of its two steps.  Where the ledger is
\* longer than Limit the oldest entries are cut off, barriers of mutations too.
Save ==
    /\ job[Main].pc = "idle" /\ Batch = {} /\ ledger # <<>>
    /\ saved' = RetainNewest(ledger)
    /\ open' = open \ {ledger[i].sig : i \in 1..(Len(ledger) - Limit)}
    /\ Goto(Main, "save")
    /\ UNCHANGED <<ledger, slots, effects>>

SaveAssigns ==
    /\ job[Main].pc = "save"
    /\ ledger' = saved /\ saved' = <<>>
    /\ Goto(Main, "idle")
    /\ UNCHANGED <<slots, effects, open>>

\* The user's /clear.
Clear ==
    /\ job[Main].pc = "idle" /\ Batch = {} /\ ledger # <<>>
    /\ ledger' = <<>> /\ open' = {}
    /\ UNCHANGED <<slots, job, effects, saved>>

Step(t) ==
    \/ PreflightDenies(t) \/ Lookup(t) \/ Reserve(t) \/ NotInvoked(t)
    \/ Invoke(t) \/ Judge(t) \/ Record(t) \/ Trim(t) \/ Return(t)

Next ==
    \/ \E s \in Signatures : Dispatch(s)
    \/ \E w \in Workers, r \in Reads : Submit(w, r)
    \/ \E t \in Threads : Step(t)
    \/ Abandon \/ Age \/ Save \/ SaveAssigns \/ Clear

Spec == Init /\ [][Next]_vars

-----------------------------------------------------------------------------
(* Properties *)

\* Type invariant; the slots in use are those of the dispatches under way.
TypeOK ==
    /\ ledger \in Seq(Entry)
    /\ slots = Cardinality({t \in Threads : job[t].slot})
    /\ \A t \in Threads : job[t].pc \in {"idle", "lookup", "reserve", "approve", "judge",
                                         "record", "trim", "done", "save"}
    /\ effects \in 0..MaxEffects
    /\ open \subseteq Writes

\* The ledger is well formed and has room for every mutation of unknown outcome: it holds at most
\* Limit barriers of mutations, and above Limit nothing but barriers (those of
\* failed probes, for which reserve_retry_capacity() reserves no room).
LedgerBounded ==
    /\ TypeOK
    /\ Cardinality({i \in Barriers(ledger) : ledger[i].sig \in Writes}) <= Limit
    /\ Len(ledger) > Limit /\ Unlocked => Barriers(ledger) = DOMAIN ledger

\* A mutation whose outcome is unknown does not run again until an observation
\* of its target succeeds: no sequence of skips, denials, other attempts,
\* purges, evictions, lost updates and restarts opens the way to the tool.  One
\* thing does, and is set apart: a save that finds the ledger longer than Limit.
NoBlindRetry ==
    job[Main].sig \in open => job[Main].pc \notin {"approve", "judge"}

\* "Let one fresh in-scope observation mark uncertain workspace effects
\* retryable": what reconciles an effect was observed after it, unless the
\* observation is a leftover of an interrupted pool.
StaleOnlyIfAbandoned ==
    [][\A t \in Threads : job[t].pc = "record" /\ job'[t].pc # "record"
          /\ job[t].sig \in Reads /\ job[t].status = "worked" /\ ~job[t].abandoned =>
              \A i \in DOMAIN ledger :
                  ledger[i].status = "unknown_outcome" /\ ~ledger[i].reconciled
                  /\ ledger[i].sig \in Sees[job[t].sig] => ledger[i].at <= job[t].saw]_vars
=============================================================================
