------------------------- MODULE AgentPipelineProofs -------------------------
(***************************************************************************)
(* What the journal of an Agent run guarantees, for every contract, every  *)
(* batch of tool calls and any number of failing writes, crashes and       *)
(* sessions: no resume repeats a mutation, a complete run is backed by     *)
(* both readers of the journal, and a run that stopped cleanly can go on.  *)
(***************************************************************************)
EXTENDS AgentPipeline, FiniteSetTheorems, SequenceTheorems, TLAPS

Attempts == Nat \X Int
Records == [at : Attempts, status : BlockStatus]
Boundaries == [at : Attempts, ws : Nat]

Sessions == None..MaxResumes
OrdinalSets == SUBSET (0..(Blocks - 1))
BoundarySeqs == Seq(Boundaries)
RoundNames == Seq(Nat)
BatchStates == [at : RoundNames, expected : Nat, intents : Nat, results : SUBSET Nat]
VerifierStates == [Verifiers -> Int]

Grammars ==
    [session : Sessions, active : Int, round : RoundNames, batch : BatchStates,
     verified : VerifierStates, mutating : OrdinalSets, completed : BoundarySeqs, next : Nat,
     gap : BOOLEAN, recovering : BOOLEAN, terminal : BOOLEAN]

Readers ==
    [completed : BoundarySeqs, gap : BOOLEAN, mutating : OrdinalSets,
     status : BlockStatus \cup {"open"}]

DoneSeqs == Seq(Records)
CallSeqs == Seq(BOOLEAN)

Runs ==
    [pc : Phases, done : DoneSeqs, status : BlockStatus, phase : {"main", "plan", "retry"},
     round : Nat, calls : CallSeqs, steps : Nat, index : Nat, withheld : BOOLEAN,
     base : Nat, end : {"none", "cancelled", "raised", "unbound"}, final : BlockStatus]

\* The phases of a block, from its start to its checkpoint.
BlockPhases == InBlock \cup {"check", "recover", "recovered", "stage", "verify", "finish"}

Types ==
    /\ grammar \in Grammars /\ reader \in Readers /\ run \in Runs
    /\ thread \in [status : BlockStatus \cup {"queued", "running"}, blocks : DoneSeqs]
    /\ asked \in [blocks : DoneSeqs, ws : Int]
    /\ ws \in 0..MaxEdits /\ faults \in 0..MaxFaults
    /\ touched \subseteq Attempts /\ torn \subseteq Attempts

\* A run under way has a journal, and never more blocks than its contract.
LeaseInv ==
    /\ run.pc = "idle" => run = NoRun
    /\ run.pc # "idle" \/ thread.status # "none" => Exists(grammar)
    /\ ~Exists(grammar) => grammar = NoJournal
    /\ Ordinal <= Blocks
    /\ run.pc \in BlockPhases => Ordinal < Blocks

\* The two readers of the journal.  The grammar has a gap exactly when its next
\* block is not the one behind the boundary; resume_state() stands at the same
\* boundary, or has met a gap for good and stays behind.  It never takes a
\* mutation for verified that the grammar does not.
ReadersInv ==
    /\ grammar.next >= Len(grammar.completed)
    /\ grammar.gap = (grammar.next > Len(grammar.completed))
    /\ grammar.active \in {None, grammar.next}
    /\ Len(grammar.completed) <= Blocks
    /\ \/ reader.completed = grammar.completed
       \/ reader.gap /\ Len(reader.completed) < Len(grammar.completed)
    /\ grammar.mutating \subseteq reader.mutating
    /\ reader.status # "open" => run.pc = "idle"
    /\ grammar.terminal <=> reader.status # "open"

\* The calls of a batch: those behind steps are intended, and a mutating intent
\* is in the journal before any call of the batch runs.
CallsOK(r, mutating) ==
    r.pc \in {"intent", "tool", "result"} =>
        /\ r.steps <= Len(r.calls) /\ r.index < Len(r.calls)
        /\ r.pc = "intent" => r.steps < Len(r.calls)
        /\ r.pc # "intent" => r.steps = Len(r.calls)
        /\ \A k \in 1..r.steps : r.calls[k] => Len(r.done) \in mutating

CallsInv == CallsOK(run, grammar.mutating)

\* A mutation that was invoked lies behind a boundary or is still uncertain, and
\* after a resume nothing of an earlier session is uncertain.
TouchedInv ==
    /\ \A a \in touched : a[2] <= grammar.session
    /\ \A a \in touched : a \in VerifiedAttempts \/ a[1] \in grammar.mutating
    /\ \A a \in touched : a[2] < grammar.session => a \in VerifiedAttempts
    /\ ws = LastWorkspace(grammar.completed) \/ grammar.mutating # {}

Backed ==
    /\ Len(grammar.completed) = Blocks /\ reader.completed = grammar.completed
    /\ touched \subseteq VerifiedAttempts

Completed ==
    \/ thread.status = "complete" \/ reader.status = "complete"
    \/ run.pc = "close" /\ run.final = "complete"

\* Only a run that is over, or has not gone on yet, has a complete thread.
BackedInv ==
    /\ thread.status = "complete" => run.pc \in {"idle", "link", "close"}
    /\ Completed => Backed

\* Unless the readers fell apart or a boundary was stored behind an exception,
\* the process and the thread hold what the journal vouches for.
StagedInv ==
    /\ run.pc \in {"verify", "finish"} => thread.blocks = Append(run.done, Record(run.status))
    /\ torn = {} /\ reader.completed = grammar.completed =>
           /\ Hydrates(thread.blocks, grammar.completed)
           /\ run.pc # "idle" => Hydrates(run.done, grammar.completed)

IInv ==
    Types /\ LeaseInv /\ ReadersInv /\ CallsInv /\ TouchedInv /\ BackedInv /\ StagedInv

-----------------------------------------------------------------------------
(* The journal: what each event leaves alone *)

LEMMA Bounds == /\ Blocks \in Nat \ {0} /\ MaxResumes \in Nat /\ MaxFaults \in Nat /\ MaxEdits \in Nat
                /\ Batches \subseteq Seq(BOOLEAN) /\ \A b \in Batches : b # <<>>
BY BoundsAssumption, ContractAssumption

\* The events between two boundaries leave everything alone that a resume reads.
Same(g, h) ==
    /\ h.session = g.session /\ h.active = g.active /\ h.mutating = g.mutating
    /\ h.completed = g.completed /\ h.next = g.next /\ h.gap = g.gap /\ h.terminal = g.terminal

LEMMA Defaults ==
    /\ NoBatch \in BatchStates /\ NotVerified \in VerifierStates /\ NoRound \in RoundNames
    /\ {} \in OrdinalSets /\ <<>> \in BoundarySeqs /\ 0 \in Sessions /\ None \in Sessions
    /\ None \in Int /\ Sessions \subseteq Int
BY Bounds DEF NoBatch, NoRound, NotVerified, BatchStates, VerifierStates, RoundNames, OrdinalSets,
   BoundarySeqs, Sessions, None

LEMMA NewGrammarType == NewGrammar \in Grammars /\ NoJournal \in Grammars
<1>1. NewGrammar \in Grammars
  BY Defaults DEF NewGrammar, Grammars
<1> QED
  BY <1>1, Defaults DEF NoJournal, Grammars

LEMMA ClearedFacts == ASSUME NEW g \in Grammars PROVE Cleared(g) \in Grammars /\ Same(g, Cleared(g))
BY Defaults DEF Cleared, Grammars, Same

LEMMA RoundStartedFacts ==
    ASSUME NEW g \in Grammars, NEW at \in RoundNames
    PROVE  RoundStarted(g, at) \in Grammars /\ Same(g, RoundStarted(g, at))
BY Defaults DEF RoundStarted, Grammars, Same

LEMMA RoundCompletedFacts ==
    ASSUME NEW g \in Grammars, NEW at \in RoundNames, NEW calls \in Nat
    PROVE  RoundCompleted(g, at, calls) \in Grammars /\ Same(g, RoundCompleted(g, at, calls))
<1> DEFINE batch == IF calls = 0 THEN NoBatch
                    ELSE [at |-> at, expected |-> calls, intents |-> 0, results |-> {}]
<1>1. batch \in BatchStates
  BY Defaults DEF BatchStates
<1>2. RoundCompleted(g, at, calls) = [g EXCEPT !.round = NoRound, !.batch = batch]
  BY DEF RoundCompleted
<1> HIDE DEF batch
<1> QED
  BY <1>1, <1>2, Defaults DEF Grammars, Same

LEMMA ResultRecordedFacts ==
    ASSUME NEW g \in Grammars, NEW index \in Nat
    PROVE  ResultRecorded(g, index) \in Grammars /\ Same(g, ResultRecorded(g, index))
<1> DEFINE after == [g EXCEPT !.batch.results = @ \cup {index}]
<1>1. after \in Grammars /\ Same(g, after)
  <2>1. [g.batch EXCEPT !.results = @ \cup {index}] \in BatchStates
    BY DEF Grammars, BatchStates
  <2> QED
    BY <2>1 DEF Grammars, Same
<1>2. [after EXCEPT !.batch = NoBatch] \in Grammars /\ Same(after, [after EXCEPT !.batch = NoBatch])
  <2> HIDE DEF after
  <2> QED
    BY <1>1, Defaults DEF Grammars, Same
<1>3. ResultRecorded(g, index) \in {after, [after EXCEPT !.batch = NoBatch]}
  BY DEF ResultRecorded
<1> HIDE DEF after
<1> QED
  BY <1>1, <1>2, <1>3 DEF Same

LEMMA RecoveryFacts ==
    ASSUME NEW g \in Grammars
    PROVE  /\ RecoveryStarted(g) \in Grammars /\ Same(g, RecoveryStarted(g))
           /\ RecoveryFinished(g) \in Grammars /\ Same(g, RecoveryFinished(g))
BY DEF RecoveryStarted, RecoveryFinished, Grammars, Same

LEMMA VerifierFacts ==
    ASSUME NEW g \in Grammars, NEW v \in Verifiers, NEW passed \in BOOLEAN, NEW w \in Nat
    PROVE  VerifierRecorded(g, v, passed, w) \in Grammars /\ Same(g, VerifierRecorded(g, v, passed, w))
<1> DEFINE result == [g.verified EXCEPT ![v] = IF passed THEN w ELSE None]
<1>1. result \in VerifierStates
  BY Defaults DEF Grammars, VerifierStates
<1>2. VerifierRecorded(g, v, passed, w) = [g EXCEPT !.verified = result]
  BY DEF VerifierRecorded
<1> HIDE DEF result
<1> QED
  BY <1>1, <1>2 DEF Grammars, Same

\* The events that a resume does read.
LEMMA BlockStartedFacts ==
    ASSUME NEW g \in Grammars, NEW o \in Nat
    PROVE  /\ BlockStarted(g, o) \in Grammars
           /\ BlockStarted(g, o).active = o
           /\ Same(g, [BlockStarted(g, o) EXCEPT !.active = g.active])
<1>1. Cleared(g) \in Grammars /\ Same(g, Cleared(g))
  BY ClearedFacts
<1>2. BlockStarted(g, o) = [Cleared(g) EXCEPT !.active = o]
  BY DEF BlockStarted
<1> QED
  BY <1>1, <1>2 DEF Grammars, Same

LEMMA ResumedFacts ==
    ASSUME NEW g \in Grammars, g.session < MaxResumes
    PROVE  /\ Resumed(g) \in Grammars
           /\ Resumed(g).session = g.session + 1 /\ Resumed(g).active = None /\ ~Resumed(g).gap
           /\ Resumed(g).next = Len(g.completed) /\ Resumed(g).mutating = g.mutating
           /\ Resumed(g).completed = g.completed /\ Resumed(g).terminal = g.terminal
<1>1. Cleared(g) \in Grammars /\ Same(g, Cleared(g))
  BY ClearedFacts
<1>2. Len(g.completed) \in Nat /\ g.session \in Sessions
  BY DEF Grammars, BoundarySeqs
<1>3. g.session + 1 \in Sessions
  BY <1>2, Bounds DEF None, Sessions
<1>4. Resumed(g) = [Cleared(g) EXCEPT !.session = g.session + 1, !.active = None, !.gap = FALSE,
                                     !.next = Len(g.completed)]
  BY <1>1 DEF Resumed, Same
<1> QED
  BY <1>1, <1>2, <1>3, <1>4, Defaults DEF Grammars, Same

LEMMA IntendedFacts ==
    ASSUME NEW g \in Grammars, NEW mutating \in BOOLEAN, g.batch.at[1] \in 0..(Blocks - 1)
    PROVE  /\ Intended(g, mutating) \in Grammars
           /\ Intended(g, mutating).mutating = IF mutating THEN g.mutating \cup {g.batch.at[1]} ELSE g.mutating
           /\ Same(g, [Intended(g, mutating) EXCEPT !.mutating = g.mutating])
<1> DEFINE batch == [g.batch EXCEPT !.intents = @ + 1]
           m == IF mutating THEN g.mutating \cup {g.batch.at[1]} ELSE g.mutating
<1>1. batch \in BatchStates
  BY DEF Grammars, BatchStates
<1>2. m \in OrdinalSets
  BY DEF Grammars, OrdinalSets
<1>3. Intended(g, mutating) = [g EXCEPT !.batch = batch, !.mutating = m]
  BY DEF Intended
<1>4. m = IF mutating THEN g.mutating \cup {g.batch.at[1]} ELSE g.mutating
  OBVIOUS
<1> HIDE DEF batch, m
<1>5. Intended(g, mutating) \in Grammars /\ Intended(g, mutating).mutating = m
  BY <1>1, <1>2, <1>3 DEF Grammars
<1>6. Same(g, [Intended(g, mutating) EXCEPT !.mutating = g.mutating])
  BY <1>3, <1>5 DEF Grammars, Same
<1> QED
  BY <1>4, <1>5, <1>6

LEMMA RunFinishedFacts ==
    ASSUME NEW g \in Grammars
    PROVE  /\ RunFinished(g) \in Grammars /\ RunFinished(g).terminal
           /\ Same(g, [RunFinished(g) EXCEPT !.terminal = g.terminal])
BY DEF RunFinished, Grammars, Same

\* block_finished for the grammar.
FinishedAs(g, o, complete, w, h) ==
    LET moves == complete /\ ~g.gap /\ o = Len(g.completed)
    IN  /\ h \in Grammars /\ h.session = g.session /\ h.terminal = g.terminal
        /\ h.active = None /\ h.next = o + 1
        /\ moves => /\ ~h.gap /\ h.completed = Append(g.completed, [at |-> <<o, g.session>>, ws |-> w])
                    /\ h.mutating = g.mutating \ {o}
        /\ ~moves => h.gap /\ h.completed = g.completed /\ h.mutating = g.mutating

LEMMA BlockFinishedFacts ==
    ASSUME NEW g \in Grammars, NEW o \in Nat, NEW complete \in BOOLEAN, NEW w \in Nat
    PROVE  FinishedAs(g, o, complete, w, BlockFinished(g, o, complete, w))
<1> DEFINE h == BlockFinished(g, o, complete, w)
           moves == complete /\ ~g.gap /\ o = Len(g.completed)
           c == IF moves THEN Append(g.completed, Boundary(g, o, w)) ELSE g.completed
           m == IF moves THEN g.mutating \ {o} ELSE g.mutating
           gap == ~moves
<1>1. Cleared(g) \in Grammars /\ Same(g, Cleared(g))
  BY ClearedFacts
<1>2. g.completed \in Seq(Boundaries) /\ g.session \in Int /\ g.mutating \in OrdinalSets
  BY Defaults DEF Grammars, BoundarySeqs
<1>3. Boundary(g, o, w) \in Boundaries
  BY <1>2 DEF Boundary, Boundaries, Attempts
<1>4. Append(g.completed, Boundary(g, o, w)) \in BoundarySeqs
  BY <1>2, <1>3, AppendProperties DEF BoundarySeqs
<1>5. c \in BoundarySeqs /\ m \in OrdinalSets /\ gap \in BOOLEAN /\ o + 1 \in Nat
  BY <1>2, <1>4 DEF OrdinalSets, BoundarySeqs
<1>6. h = [Cleared(g) EXCEPT !.active = None, !.next = o + 1, !.gap = gap, !.completed = c, !.mutating = m]
  BY <1>1 DEF BlockFinished, Same
<1>7. /\ moves => c = Append(g.completed, Boundary(g, o, w)) /\ m = g.mutating \ {o}
      /\ ~moves => c = g.completed /\ m = g.mutating
      /\ gap <=> ~moves
  OBVIOUS
<1> HIDE DEF c, m, gap, h
<1>8. /\ h \in Grammars /\ h.session = g.session /\ h.terminal = g.terminal
      /\ h.active = None /\ h.next = o + 1 /\ h.gap = gap /\ h.completed = c /\ h.mutating = m
  <2> HIDE DEF moves
  <2> QED
    BY <1>1, <1>5, <1>6, Defaults DEF Grammars, Same
<1>9. Boundary(g, o, w) = [at |-> <<o, g.session>>, ws |-> w]
  BY DEF Boundary
<1>10. FinishedAs(g, o, complete, w, h)
  BY <1>7, <1>8, <1>9 DEF FinishedAs
<1> QED
  BY <1>10 DEF h

\* block_finished for resume_state().
ReadAs(r, s, o, complete, w, h) ==
    LET moves == complete /\ ~r.gap /\ o = Len(r.completed)
    IN  /\ h \in Readers /\ h.status = r.status /\ (r.gap => h.gap)
        /\ moves => /\ h.completed = Append(r.completed, [at |-> <<o, s>>, ws |-> w])
                    /\ h.mutating = r.mutating \ {o}
        /\ ~moves => h.completed = r.completed /\ h.mutating = r.mutating

LEMMA BlockReadFacts ==
    ASSUME NEW r \in Readers, NEW s \in Int, NEW o \in Nat, NEW complete \in BOOLEAN, NEW w \in Nat
    PROVE  ReadAs(r, s, o, complete, w, BlockRead(r, s, o, complete, w))
<1> DEFINE h == BlockRead(r, s, o, complete, w)
           moves == complete /\ ~r.gap /\ o = Len(r.completed)
           b == [at |-> <<o, s>>, ws |-> w]
           c == IF moves THEN Append(r.completed, b) ELSE r.completed
           m == IF moves THEN r.mutating \ {o} ELSE r.mutating
           gap == r.gap \/ (IF complete THEN ~moves ELSE o = Len(r.completed))
<1>1. b \in Boundaries /\ r.completed \in Seq(Boundaries) /\ r.mutating \in OrdinalSets
  BY DEF Boundaries, Attempts, Readers, BoundarySeqs
<1>2. Append(r.completed, b) \in BoundarySeqs
  BY <1>1, AppendProperties DEF BoundarySeqs
<1>3. c \in BoundarySeqs /\ m \in OrdinalSets
  BY <1>1, <1>2 DEF OrdinalSets, BoundarySeqs
<1>4. gap \in BOOLEAN /\ (r.gap => gap)
  OBVIOUS
<1>5. h = [r EXCEPT !.gap = gap, !.completed = c, !.mutating = m]
  BY DEF BlockRead
<1>6. /\ moves => c = Append(r.completed, b) /\ m = r.mutating \ {o}
      /\ ~moves => c = r.completed /\ m = r.mutating
  OBVIOUS
<1> HIDE DEF c, m, gap, b, h
<1>7. h \in Readers /\ h.status = r.status /\ h.gap = gap /\ h.completed = c /\ h.mutating = m
  <2> HIDE DEF moves
  <2> QED
    BY <1>3, <1>4, <1>5 DEF Readers
<1>8. ReadAs(r, s, o, complete, w, h)
  BY <1>4, <1>6, <1>7 DEF b, ReadAs
<1> QED
  BY <1>8 DEF h

LEMMA ReaderFacts ==
    ASSUME NEW r \in Readers
    PROVE  /\ \A o \in 0..(Blocks - 1), mutating \in BOOLEAN :
                  /\ IntentRead(r, o, mutating) \in Readers
                  /\ IntentRead(r, o, mutating) =
                         [r EXCEPT !.mutating = IF mutating THEN r.mutating \cup {o} ELSE r.mutating]
           /\ \A s \in BlockStatus : /\ RunRead(r, s) \in Readers
                                     /\ RunRead(r, s) = [r EXCEPT !.status = s]
BY DEF IntentRead, RunRead, Readers, OrdinalSets

-----------------------------------------------------------------------------
(* The steps inside a session *)

Outside == {"idle", "link", "close"}

\* A step between the start of a session and its end that records nothing a
\* resume reads, invokes nothing and leaves the thread alone.
Inside ==
    /\ grammar' \in Grammars /\ Same(grammar, grammar') /\ reader' = reader
    /\ Quiet /\ faults' \in 0..MaxFaults
    /\ run' \in Runs /\ run'.done = run.done
    /\ run.pc \notin Outside /\ run'.pc \notin Outside
    /\ run'.pc \in BlockPhases => run.pc \in BlockPhases
    /\ run'.pc \in {"verify", "finish"} => run.pc = "verify" /\ run'.status = run.status
    /\ CallsOK(run', grammar.mutating)

LEMMA FaultFacts == Types /\ (UNCHANGED faults \/ Fault) => faults' \in 0..MaxFaults
BY Bounds DEF Types, Fault

LEMMA SameRefl == Same(grammar, grammar)
BY DEF Same

\* The round, the ordinal and the attempt of the process.
LEMMA NameFacts ==
    ASSUME Types
    PROVE  /\ Ordinal \in Nat /\ Attempt \in Attempts
           /\ Round \in RoundNames /\ Round[1] = Ordinal
           /\ \A status \in BlockStatus : Record(status) \in Records
<1>1. Ordinal \in Nat /\ run.round \in Nat /\ grammar.session \in Int
  BY Defaults, LenProperties DEF Types, Runs, Grammars, Ordinal, DoneSeqs
<1> QED
  BY <1>1 DEF Attempt, Attempts, Round, RoundNames, Record, Records

\* The names of the phases and of the outcomes.
LEMMA Names ==
    /\ "round" \in Phases /\ "chat" \in Phases /\ "intent" \in Phases /\ "tool" \in Phases
    /\ "result" \in Phases /\ "unwind" \in Phases /\ "link" \in Phases /\ "bind" \in Phases
    /\ "start" \in Phases /\ "check" \in Phases /\ "recover" \in Phases /\ "recovered" \in Phases
    /\ "stage" \in Phases /\ "verify" \in Phases /\ "finish" \in Phases /\ "settle" \in Phases
    /\ "close" \in Phases /\ "idle" \in Phases
    /\ "none" \in BlockStatus /\ "complete" \in BlockStatus /\ "partial" \in BlockStatus
    /\ "failed" \in BlockStatus /\ "cancelled" \in BlockStatus
BY DEF Phases, InBlock, BlockStatus

\* What a process that works on a batch keeps of it.
LEMMA NoCallsFacts ==
    ASSUME NEW r \in Runs
    PROVE  /\ NoCalls(r) \in Runs /\ NoCalls(r).done = r.done /\ NoCalls(r).pc = r.pc
           /\ NoCalls(r).status = r.status /\ NoCalls(r).end = r.end
           /\ NoCalls(r).withheld = FALSE /\ NoCalls(r).round = r.round /\ NoCalls(r).phase = r.phase
           /\ NoCalls(r).base = r.base
<1>1. <<>> \in CallSeqs
  BY DEF CallSeqs
<1> QED
  BY <1>1 DEF NoCalls, Runs

\* completion_check() goes on in one of five ways.
LEMMA CheckedFacts ==
    ASSUME run \in Runs, ws \in Nat, NEW status \in BlockStatus, Checked(status)
    PROVE  /\ run' \in Runs /\ run'.done = run.done
           /\ run'.pc \in {"settle", "round", "recovered", "recover", "stage"}
<1>1. PICK pc \in After(status) :
        run' = IF run.phase = "plan" /\ run.end = "none"
               THEN [NoCalls(run) EXCEPT !.pc = pc, !.round = 0,
                                !.phase = IF pc = "round" THEN "retry" ELSE "plan",
                                !.status = IF pc = "round" THEN "none" ELSE "partial",
                                !.base = IF Ordinal = 0 THEN @ ELSE ws]
               ELSE [NoCalls(run) EXCEPT !.pc = pc, !.round = 0, !.status = status]
  BY DEF Checked
<1>2. pc \in {"settle", "round", "recovered", "recover", "stage"}
  BY <1>1 DEF After
<1>3. pc \in Phases
  BY <1>2, Names
<1>4. NoCalls(run) \in Runs /\ NoCalls(run).done = run.done
  BY NoCallsFacts
<1>5. run' \in Runs /\ run'.done = run.done /\ run'.pc = pc
  <2>1. CASE run.phase = "plan" /\ run.end = "none"
    <3> DEFINE f == IF pc = "round" THEN "retry" ELSE "plan"
               s == IF pc = "round" THEN "none" ELSE "partial"
               b == IF Ordinal = 0 THEN NoCalls(run).base ELSE ws
    <3>1. f \in {"main", "plan", "retry"} /\ s \in BlockStatus /\ b \in Nat
      BY <1>4, Names DEF Runs
    <3>2. run' = [NoCalls(run) EXCEPT !.pc = pc, !.round = 0, !.phase = f, !.status = s, !.base = b]
      BY <1>1, <1>4, <2>1 DEF Runs
    <3> HIDE DEF f, s, b
    <3> QED
      BY <1>3, <1>4, <3>1, <3>2 DEF Runs
  <2>2. CASE ~(run.phase = "plan" /\ run.end = "none")
    <3>1. run' = [NoCalls(run) EXCEPT !.pc = pc, !.round = 0, !.status = status]
      BY <1>1, <2>2
    <3> QED
      BY <1>3, <1>4, <3>1 DEF Runs
  <2> QED
    BY <2>1, <2>2
<1> QED
  BY <1>2, <1>5


\* Every step of the loop but those that move the boundary, invoke a call or
\* touch the thread is one of these.
LEMMA InsideSteps ==
    ASSUME Types, CallsInv
    PROVE  /\ AllDone \/ StopEarly \/ ChatFails \/ Unwound \/ CheckOutput \/ StageFails \/ Interrupt => Inside
           /\ \A ok \in BOOLEAN :
                  \/ BindContext(ok) \/ StartRound(ok) \/ Answer(ok) \/ Unwind(ok) \/ RecordResult(ok)
                  \/ CheckChange(ok) \/ Recover(ok) \/ Recovered(ok) \/ VerifyOutput(ok)
                  \/ \E calls \in Batches : ToolCalls(calls, ok)
                  => Inside
<1>t. grammar \in Grammars /\ run \in Runs /\ ws \in Nat
  BY Bounds DEF Types
<1>r. Round \in RoundNames /\ run.index \in Nat
  BY <1>t, NameFacts DEF Runs
<1>1. ASSUME NEW ok \in BOOLEAN, BindContext(ok) PROVE Inside
  <2> DEFINE g == grammar
  <2>h. g \in Grammars /\ Same(grammar, g)
    BY <1>t, SameRefl
  <2>1. (grammar' = g \/ grammar' = grammar) /\ reader' = reader /\ (UNCHANGED faults \/ Fault) /\ Quiet
    BY <1>1 DEF BindContext, Log, Append_, journal
  <2>2. grammar' \in Grammars /\ Same(grammar, grammar') /\ reader' = reader /\ faults' \in 0..MaxFaults
    <3> HIDE DEF g
    <3> QED
      BY <1>t, <2>h, <2>1, SameRefl, FaultFacts
  <2>c. run.pc = "bind"
    BY <1>1 DEF BindContext, At
  <2>d. \/ run' = [run EXCEPT !.pc = "start"]
        \/ run' = [run EXCEPT !.end = "unbound", !.pc = "settle"]
    BY <1>1 DEF BindContext, Block, Goto
  <2>3. run' \in Runs /\ run'.done = run.done /\ run.pc = "bind" /\ run'.pc \in {"start", "settle"}
    <3>1. CASE run' = [run EXCEPT !.pc = "start"]
      BY <1>t, <2>c, <3>1, Names DEF Runs
    <3>2. CASE run' = [run EXCEPT !.end = "unbound", !.pc = "settle"]
      BY <1>t, <2>c, <3>2, Names DEF Runs
    <3> QED
      BY <2>d, <3>1, <3>2
  <2>4. /\ run.pc \notin Outside /\ run'.pc \notin Outside
        /\ run'.pc \in BlockPhases => run.pc \in BlockPhases
        /\ run'.pc \in {"verify", "finish"} => run.pc = "verify" /\ run'.status = run.status
    BY <2>3 DEF BlockPhases, InBlock, Outside
  <2>5. CallsOK(run', grammar.mutating)
    BY <2>3 DEF CallsOK
  <2> QED
    BY <2>1, <2>2, <2>3, <2>4, <2>5 DEF Inside
<1>2. CASE AllDone
  <2>1. UNCHANGED journal /\ (UNCHANGED faults \/ Fault) /\ Quiet
    BY <1>2 DEF AllDone
  <2>2. grammar' \in Grammars /\ Same(grammar, grammar') /\ reader' = reader /\ faults' \in 0..MaxFaults
    BY <1>t, <2>1, SameRefl, FaultFacts DEF journal
  <2>3. run' \in Runs /\ run'.done = run.done /\ run.pc = "start" /\ run'.pc = "settle"
    BY <1>2, <1>t, <1>r, Names DEF AllDone, Block, Goto, At, Runs, InBlock
  <2>4. /\ run.pc \notin Outside /\ run'.pc \notin Outside
        /\ run'.pc \in BlockPhases => run.pc \in BlockPhases
        /\ run'.pc \in {"verify", "finish"} => run.pc = "verify" /\ run'.status = run.status
    BY <2>3 DEF BlockPhases, InBlock, Outside
  <2>5. CallsOK(run', grammar.mutating)
    BY <2>3 DEF CallsOK
  <2> QED
    BY <2>1, <2>2, <2>3, <2>4, <2>5 DEF Inside
<1>3. ASSUME NEW ok \in BOOLEAN, StartRound(ok) PROVE Inside
  <2> DEFINE g == RoundStarted(grammar, Round)
  <2>h. g \in Grammars /\ Same(grammar, g)
    BY <1>t, <1>r, RoundStartedFacts
  <2>1. (grammar' = g \/ grammar' = grammar) /\ reader' = reader /\ (UNCHANGED faults \/ Fault) /\ Quiet
    BY <1>3 DEF StartRound, Log, Append_, journal
  <2>2. grammar' \in Grammars /\ Same(grammar, grammar') /\ reader' = reader /\ faults' \in 0..MaxFaults
    <3> HIDE DEF g
    <3> QED
      BY <1>t, <2>h, <2>1, SameRefl, FaultFacts
  <2>c. run.pc = "round"
    BY <1>3 DEF StartRound, At
  <2>d. \/ run' = [run EXCEPT !.pc = "chat"]
        \/ run' = [run EXCEPT !.status = "failed", !.pc = "check"]
    BY <1>3 DEF StartRound, Block, Goto
  <2>3. run' \in Runs /\ run'.done = run.done /\ run.pc = "round" /\ run'.pc \in {"chat", "check"}
    <3>1. CASE run' = [run EXCEPT !.pc = "chat"]
      BY <1>t, <2>c, <3>1, Names DEF Runs
    <3>2. CASE run' = [run EXCEPT !.status = "failed", !.pc = "check"]
      BY <1>t, <2>c, <3>2, Names DEF Runs
    <3> QED
      BY <2>d, <3>1, <3>2
  <2>4. /\ run.pc \notin Outside /\ run'.pc \notin Outside
        /\ run'.pc \in BlockPhases => run.pc \in BlockPhases
        /\ run'.pc \in {"verify", "finish"} => run.pc = "verify" /\ run'.status = run.status
    BY <2>3 DEF BlockPhases, InBlock, Outside
  <2>5. CallsOK(run', grammar.mutating)
    BY <2>3 DEF CallsOK
  <2> QED
    BY <2>1, <2>2, <2>3, <2>4, <2>5 DEF Inside
<1>4. CASE StopEarly
  <2>1. UNCHANGED journal /\ (UNCHANGED faults \/ Fault) /\ Quiet
    BY <1>4 DEF StopEarly
  <2>2. grammar' \in Grammars /\ Same(grammar, grammar') /\ reader' = reader /\ faults' \in 0..MaxFaults
    BY <1>t, <2>1, SameRefl, FaultFacts DEF journal
  <2>3. run' \in Runs /\ run'.done = run.done /\ run.pc = "round" /\ run'.pc = "check"
    BY <1>4, <1>t, <1>r, Names DEF StopEarly, Block, Goto, At, Runs, InBlock
  <2>4. /\ run.pc \notin Outside /\ run'.pc \notin Outside
        /\ run'.pc \in BlockPhases => run.pc \in BlockPhases
        /\ run'.pc \in {"verify", "finish"} => run.pc = "verify" /\ run'.status = run.status
    BY <2>3 DEF BlockPhases, InBlock, Outside
  <2>5. CallsOK(run', grammar.mutating)
    BY <2>3 DEF CallsOK
  <2> QED
    BY <2>1, <2>2, <2>3, <2>4, <2>5 DEF Inside
<1>5. ASSUME NEW ok \in BOOLEAN, Answer(ok) PROVE Inside
  <2> DEFINE g == RoundCompleted(grammar, Round, 0)
  <2>h. g \in Grammars /\ Same(grammar, g)
    BY <1>t, <1>r, RoundCompletedFacts
  <2>1. (grammar' = g \/ grammar' = grammar) /\ reader' = reader /\ (UNCHANGED faults \/ Fault) /\ Quiet
    BY <1>5 DEF Answer, Log, Append_, journal
  <2>2. grammar' \in Grammars /\ Same(grammar, grammar') /\ reader' = reader /\ faults' \in 0..MaxFaults
    <3> HIDE DEF g
    <3> QED
      BY <1>t, <2>h, <2>1, SameRefl, FaultFacts
  <2>c. run.pc = "chat"
    BY <1>5 DEF Answer, At
  <2>d. \/ run' = [run EXCEPT !.status = "failed", !.pc = "check"]
        \/ \E status \in {"complete", "partial", "failed"} : run' = [run EXCEPT !.status = status, !.pc = "check"]
        \/ run' = [run EXCEPT !.round = @ + 1, !.pc = "round"]
    BY <1>5 DEF Answer, Block, Goto
  <2>3. run' \in Runs /\ run'.done = run.done /\ run.pc = "chat" /\ run'.pc \in {"check", "round"}
    <3>1. CASE run' = [run EXCEPT !.status = "failed", !.pc = "check"]
      BY <1>t, <2>c, <3>1, Names DEF Runs
    <3>2. CASE \E status \in {"complete", "partial", "failed"} : run' = [run EXCEPT !.status = status, !.pc = "check"]
      <4>1. PICK status \in {"complete", "partial", "failed"} : run' = [run EXCEPT !.status = status, !.pc = "check"]
        BY <3>2
      <4>2. status \in BlockStatus
        BY Names
      <4> QED
        BY <1>t, <2>c, <4>1, <4>2, Names DEF Runs
    <3>3. CASE run' = [run EXCEPT !.round = @ + 1, !.pc = "round"]
      <4> DEFINE n == run.round + 1
      <4>1. n \in Nat
        BY <1>t DEF Runs
      <4>2. run' = [run EXCEPT !.round = n, !.pc = "round"]
        BY <3>3
      <4> HIDE DEF n
      <4> QED
        BY <1>t, <2>c, <4>1, <4>2, Names DEF Runs
    <3> QED
      BY <2>d, <3>1, <3>2, <3>3
  <2>4. /\ run.pc \notin Outside /\ run'.pc \notin Outside
        /\ run'.pc \in BlockPhases => run.pc \in BlockPhases
        /\ run'.pc \in {"verify", "finish"} => run.pc = "verify" /\ run'.status = run.status
    BY <2>3 DEF BlockPhases, InBlock, Outside
  <2>5. CallsOK(run', grammar.mutating)
    BY <2>3 DEF CallsOK
  <2> QED
    BY <2>1, <2>2, <2>3, <2>4, <2>5 DEF Inside
<1>6. ASSUME NEW calls \in Batches, NEW ok \in BOOLEAN, ToolCalls(calls, ok) PROVE Inside
  <2> DEFINE g == RoundCompleted(grammar, Round, Len(calls))
  <2>g. Len(calls) \in Nat
    BY Bounds
  <2>h. g \in Grammars /\ Same(grammar, g)
    BY <2>g, <1>t, <1>r, RoundCompletedFacts
  <2>1. (grammar' = g \/ grammar' = grammar) /\ reader' = reader /\ (UNCHANGED faults \/ Fault) /\ Quiet
    BY <1>6 DEF ToolCalls, Log, Append_, journal
  <2>2. grammar' \in Grammars /\ Same(grammar, grammar') /\ reader' = reader /\ faults' \in 0..MaxFaults
    <3> HIDE DEF g
    <3> QED
      BY <1>t, <2>h, <2>1, SameRefl, FaultFacts
  <2>c. run.pc = "chat"
    BY <1>6 DEF ToolCalls, At
  <2>d. \/ run' = [run EXCEPT !.calls = calls, !.steps = 0, !.index = 0, !.pc = "intent"]
        \/ run' = [run EXCEPT !.status = "partial", !.pc = "check"]
        \/ run' = [run EXCEPT !.status = "failed", !.pc = "check"]
    BY <1>6 DEF ToolCalls, Block, Goto
  <2>3. run' \in Runs /\ run'.done = run.done /\ run.pc = "chat" /\ run'.pc \in {"intent", "check"}
    <3>1. CASE run' = [run EXCEPT !.calls = calls, !.steps = 0, !.index = 0, !.pc = "intent"]
      BY <1>t, <2>c, <3>1, Names, Bounds DEF Runs, CallSeqs
    <3>2. CASE run' = [run EXCEPT !.status = "partial", !.pc = "check"]
      BY <1>t, <2>c, <3>2, Names DEF Runs
    <3>3. CASE run' = [run EXCEPT !.status = "failed", !.pc = "check"]
      BY <1>t, <2>c, <3>3, Names DEF Runs
    <3> QED
      BY <2>d, <3>1, <3>2, <3>3
  <2>4. /\ run.pc \notin Outside /\ run'.pc \notin Outside
        /\ run'.pc \in BlockPhases => run.pc \in BlockPhases
        /\ run'.pc \in {"verify", "finish"} => run.pc = "verify" /\ run'.status = run.status
    BY <2>3 DEF BlockPhases, InBlock, Outside
  <2>5. CallsOK(run', grammar.mutating)
    <3>1. run'.pc = "intent" => run'.calls = calls /\ run'.steps = 0 /\ run'.index = 0
      BY <1>6, <1>t DEF ToolCalls, Runs, Block
    <3>2. calls \in Seq(BOOLEAN) /\ calls # <<>> /\ Len(calls) \in Nat /\ Len(calls) > 0
      BY Bounds, EmptySeq
    <3> QED
      BY <2>3, <3>1, <3>2 DEF CallsOK
  <2> QED
    BY <2>1, <2>2, <2>3, <2>4, <2>5 DEF Inside
<1>7. CASE ChatFails
  <2>1. UNCHANGED journal /\ (UNCHANGED faults \/ Fault) /\ Quiet
    BY <1>7 DEF ChatFails
  <2>2. grammar' \in Grammars /\ Same(grammar, grammar') /\ reader' = reader /\ faults' \in 0..MaxFaults
    BY <1>t, <2>1, SameRefl, FaultFacts DEF journal
  <2>3. run' \in Runs /\ run'.done = run.done /\ run.pc = "chat" /\ run'.pc = "check"
    BY <1>7, <1>t, <1>r, Names DEF ChatFails, Block, Goto, At, Runs, InBlock
  <2>4. /\ run.pc \notin Outside /\ run'.pc \notin Outside
        /\ run'.pc \in BlockPhases => run.pc \in BlockPhases
        /\ run'.pc \in {"verify", "finish"} => run.pc = "verify" /\ run'.status = run.status
    BY <2>3 DEF BlockPhases, InBlock, Outside
  <2>5. CallsOK(run', grammar.mutating)
    BY <2>3 DEF CallsOK
  <2> QED
    BY <2>1, <2>2, <2>3, <2>4, <2>5 DEF Inside
<1>8. ASSUME NEW ok \in BOOLEAN, Unwind(ok) PROVE Inside
  <2> DEFINE g == ResultRecorded(grammar, run.index)
  <2>h. g \in Grammars /\ Same(grammar, g)
    BY <1>t, <1>r, ResultRecordedFacts
  <2>1. (grammar' = g \/ grammar' = grammar) /\ reader' = reader /\ (UNCHANGED faults \/ Fault) /\ Quiet
    BY <1>8 DEF Unwind, Log, Append_, journal
  <2>2. grammar' \in Grammars /\ Same(grammar, grammar') /\ reader' = reader /\ faults' \in 0..MaxFaults
    <3> HIDE DEF g
    <3> QED
      BY <1>t, <2>h, <2>1, SameRefl, FaultFacts
  <2>3. run' \in Runs /\ run'.done = run.done /\ run.pc = "unwind" /\ run'.pc \in {"unwind", "check"}
    BY <1>8, <1>t, <1>r, Names DEF Unwind, Block, Goto, At, Runs, InBlock
  <2>4. /\ run.pc \notin Outside /\ run'.pc \notin Outside
        /\ run'.pc \in BlockPhases => run.pc \in BlockPhases
        /\ run'.pc \in {"verify", "finish"} => run.pc = "verify" /\ run'.status = run.status
    BY <2>3 DEF BlockPhases, InBlock, Outside
  <2>5. CallsOK(run', grammar.mutating)
    BY <2>3 DEF CallsOK
  <2> QED
    BY <2>1, <2>2, <2>3, <2>4, <2>5 DEF Inside
<1>9. CASE Unwound
  <2>1. UNCHANGED journal /\ (UNCHANGED faults \/ Fault) /\ Quiet
    BY <1>9 DEF Unwound
  <2>2. grammar' \in Grammars /\ Same(grammar, grammar') /\ reader' = reader /\ faults' \in 0..MaxFaults
    BY <1>t, <2>1, SameRefl, FaultFacts DEF journal
  <2>3. run' \in Runs /\ run'.done = run.done /\ run.pc = "unwind" /\ run'.pc = "check"
    BY <1>9, <1>t, <1>r, Names DEF Unwound, Block, Goto, At, Runs, InBlock
  <2>4. /\ run.pc \notin Outside /\ run'.pc \notin Outside
        /\ run'.pc \in BlockPhases => run.pc \in BlockPhases
        /\ run'.pc \in {"verify", "finish"} => run.pc = "verify" /\ run'.status = run.status
    BY <2>3 DEF BlockPhases, InBlock, Outside
  <2>5. CallsOK(run', grammar.mutating)
    BY <2>3 DEF CallsOK
  <2> QED
    BY <2>1, <2>2, <2>3, <2>4, <2>5 DEF Inside
<1>10. ASSUME NEW ok \in BOOLEAN, RecordResult(ok) PROVE Inside
  <2> DEFINE g == ResultRecorded(grammar, run.index)
  <2>h. g \in Grammars /\ Same(grammar, g)
    BY <1>t, <1>r, ResultRecordedFacts
  <2>1. (grammar' = g \/ grammar' = grammar) /\ reader' = reader /\ (UNCHANGED faults \/ Fault) /\ Quiet
    BY <1>10 DEF RecordResult, Log, Append_, journal
  <2>2. grammar' \in Grammars /\ Same(grammar, grammar') /\ reader' = reader /\ faults' \in 0..MaxFaults
    <3> HIDE DEF g
    <3> QED
      BY <1>t, <2>h, <2>1, SameRefl, FaultFacts
  <2> DEFINE more == run.index + 1 < Len(run.calls)
             status == IF ok THEN run.status ELSE "failed"
             leaves == run.end = "cancelled" \/ status = "failed"
  <2>a. /\ status \in BlockStatus /\ "cancelled" \in BlockStatus
        /\ run.index + 1 \in Nat /\ run.round + 1 \in Nat
    BY <1>t, Names DEF Runs
  <2>b. NoCalls(run) \in Runs /\ NoCalls(run).done = run.done /\ NoCalls(run).round = run.round
    BY <1>t, NoCallsFacts
  <2>c. At("result") /\ run' = [(IF more THEN run ELSE NoCalls(run)) EXCEPT
               !.index = IF more THEN @ + 1 ELSE @, !.withheld = @ \/ (more /\ ~ok),
               !.status = IF run.end = "cancelled" /\ ~more THEN "cancelled" ELSE status,
               !.round = IF more \/ leaves THEN @ ELSE @ + 1,
               !.pc = IF more THEN "tool" ELSE IF leaves THEN "check" ELSE "round"]
    BY <1>10 DEF RecordResult
  <2>3. /\ run' \in Runs /\ run'.done = run.done /\ run.pc = "result" /\ run'.pc \in {"tool", "check", "round"}
        /\ run'.pc = "tool" => /\ run.index + 1 < Len(run.calls) /\ run'.index = run.index + 1
                               /\ run'.calls = run.calls /\ run'.steps = run.steps
    <3> HIDE DEF status, leaves
    <3>1. CASE more
      <4>1. run' = [run EXCEPT !.index = @ + 1, !.withheld = @ \/ ~ok, !.status = status, !.pc = "tool"]
        BY <1>t, <2>c, <3>1 DEF Runs
      <4>2. (run.withheld \/ ~ok) \in BOOLEAN
        OBVIOUS
      <4> QED
        BY <1>t, <2>a, <2>c, <3>1, <4>1, <4>2, Names DEF Runs, At
    <3>2. CASE ~more
      <4> DEFINE s == IF run.end = "cancelled" THEN "cancelled" ELSE status
                 n == IF leaves THEN run.round ELSE run.round + 1
                 pc == IF leaves THEN "check" ELSE "round"
      <4>1. s \in BlockStatus /\ n \in Nat /\ pc \in Phases /\ pc \in {"check", "round"}
        BY <1>t, <2>a, Names DEF Runs
      <4>2. run' = [NoCalls(run) EXCEPT !.withheld = FALSE, !.status = s, !.round = n, !.pc = pc]
        BY <1>t, <2>b, <2>c, <3>2, NoCallsFacts DEF Runs
      <4> HIDE DEF s, n, pc
      <4> QED
        BY <2>b, <2>c, <4>1, <4>2 DEF Runs, At
    <3> QED
      BY <3>1, <3>2
  <2>4. /\ run.pc \notin Outside /\ run'.pc \notin Outside
        /\ run'.pc \in BlockPhases => run.pc \in BlockPhases
        /\ run'.pc \in {"verify", "finish"} => run.pc = "verify" /\ run'.status = run.status
    BY <2>3 DEF BlockPhases, InBlock, Outside
  <2>5. CallsOK(run', grammar.mutating)
    BY <2>3 DEF CallsOK, CallsInv
  <2> QED
    BY <2>1, <2>2, <2>3, <2>4, <2>5 DEF Inside
<1>11. ASSUME NEW ok \in BOOLEAN, CheckChange(ok) PROVE Inside
  <2> DEFINE passed == (IF run.status = "complete" /\ ws = run.base THEN "partial" ELSE run.status) = "complete"
             g == VerifierRecorded(grammar, "change", passed, ws)
  <2>g. passed \in BOOLEAN /\ "change" \in Verifiers
    BY DEF Verifiers
  <2>h. g \in Grammars /\ Same(grammar, g)
    BY <2>g, <1>t, VerifierFacts
  <2>1. (grammar' = g \/ grammar' = grammar) /\ reader' = reader /\ (UNCHANGED faults \/ Fault) /\ Quiet
    BY <1>11 DEF CheckChange, Log, Append_, journal
  <2>2. grammar' \in Grammars /\ Same(grammar, grammar') /\ reader' = reader /\ faults' \in 0..MaxFaults
    <3> HIDE DEF g
    <3> QED
      BY <1>t, <2>h, <2>1, SameRefl, FaultFacts
  <2>3. run' \in Runs /\ run'.done = run.done /\ run.pc = "check" /\ run'.pc \in {"settle", "round", "recovered", "recover", "stage"}
    <3>1. \A s \in BlockStatus : Checked(s) => run' \in Runs /\ run'.done = run.done /\ run'.pc \in {"settle", "round", "recovered", "recover", "stage"}
      BY <1>t, CheckedFacts
    <3>2. run.status \in BlockStatus
      BY <1>t DEF Runs
    <3>3. \E s \in BlockStatus : Checked(s)
      BY <1>11, <3>2, Names DEF CheckChange, Enforced
    <3> QED
      BY <1>11, <3>1, <3>3 DEF CheckChange, At
  <2>4. /\ run.pc \notin Outside /\ run'.pc \notin Outside
        /\ run'.pc \in BlockPhases => run.pc \in BlockPhases
        /\ run'.pc \in {"verify", "finish"} => run.pc = "verify" /\ run'.status = run.status
    BY <2>3 DEF BlockPhases, InBlock, Outside
  <2>5. CallsOK(run', grammar.mutating)
    BY <2>3 DEF CallsOK
  <2> QED
    BY <2>1, <2>2, <2>3, <2>4, <2>5 DEF Inside
<1>12. CASE CheckOutput
  <2>1. UNCHANGED journal /\ (UNCHANGED faults \/ Fault) /\ Quiet
    BY <1>12 DEF CheckOutput
  <2>2. grammar' \in Grammars /\ Same(grammar, grammar') /\ reader' = reader /\ faults' \in 0..MaxFaults
    BY <1>t, <2>1, SameRefl, FaultFacts DEF journal
  <2>3. run' \in Runs /\ run'.done = run.done /\ run.pc = "check" /\ run'.pc \in {"settle", "round", "recovered", "recover", "stage"}
    <3>1. \A s \in BlockStatus : Checked(s) => run' \in Runs /\ run'.done = run.done /\ run'.pc \in {"settle", "round", "recovered", "recover", "stage"}
      BY <1>t, CheckedFacts
    <3>2. run.status \in BlockStatus
      BY <1>t DEF Runs
    <3>3. \E s \in BlockStatus : Checked(s)
      BY <1>12, <3>2, Names DEF CheckOutput, Enforced
    <3> QED
      BY <1>12, <3>1, <3>3 DEF CheckOutput, At
  <2>4. /\ run.pc \notin Outside /\ run'.pc \notin Outside
        /\ run'.pc \in BlockPhases => run.pc \in BlockPhases
        /\ run'.pc \in {"verify", "finish"} => run.pc = "verify" /\ run'.status = run.status
    BY <2>3 DEF BlockPhases, InBlock, Outside
  <2>5. CallsOK(run', grammar.mutating)
    BY <2>3 DEF CallsOK
  <2> QED
    BY <2>1, <2>2, <2>3, <2>4, <2>5 DEF Inside
<1>13. ASSUME NEW ok \in BOOLEAN, Recover(ok) PROVE Inside
  <2> DEFINE g == RecoveryStarted(grammar)
  <2>h. g \in Grammars /\ Same(grammar, g)
    BY <1>t, <1>r, RecoveryFacts
  <2>1. (grammar' = g \/ grammar' = grammar) /\ reader' = reader /\ (UNCHANGED faults \/ Fault) /\ Quiet
    BY <1>13 DEF Recover, Log, Append_, journal
  <2>2. grammar' \in Grammars /\ Same(grammar, grammar') /\ reader' = reader /\ faults' \in 0..MaxFaults
    <3> HIDE DEF g
    <3> QED
      BY <1>t, <2>h, <2>1, SameRefl, FaultFacts
  <2>c. run.pc = "recover"
    BY <1>13 DEF Recover, At
  <2>d. \/ run' = [run EXCEPT !.phase = "plan", !.round = 0, !.status = "none", !.pc = "round"]
        \/ run' = [run EXCEPT !.status = "failed", !.pc = "settle"]
    BY <1>13 DEF Recover, Block, Goto
  <2>3. run' \in Runs /\ run'.done = run.done /\ run.pc = "recover" /\ run'.pc \in {"round", "settle"}
    <3>1. CASE run' = [run EXCEPT !.phase = "plan", !.round = 0, !.status = "none", !.pc = "round"]
      BY <1>t, <2>c, <3>1, Names DEF Runs
    <3>2. CASE run' = [run EXCEPT !.status = "failed", !.pc = "settle"]
      BY <1>t, <2>c, <3>2, Names DEF Runs
    <3> QED
      BY <2>d, <3>1, <3>2
  <2>4. /\ run.pc \notin Outside /\ run'.pc \notin Outside
        /\ run'.pc \in BlockPhases => run.pc \in BlockPhases
        /\ run'.pc \in {"verify", "finish"} => run.pc = "verify" /\ run'.status = run.status
    BY <2>3 DEF BlockPhases, InBlock, Outside
  <2>5. CallsOK(run', grammar.mutating)
    BY <2>3 DEF CallsOK
  <2> QED
    BY <2>1, <2>2, <2>3, <2>4, <2>5 DEF Inside
<1>14. ASSUME NEW ok \in BOOLEAN, Recovered(ok) PROVE Inside
  <2> DEFINE g == RecoveryFinished(grammar)
  <2>h. g \in Grammars /\ Same(grammar, g)
    BY <1>t, <1>r, RecoveryFacts
  <2>1. (grammar' = g \/ grammar' = grammar) /\ reader' = reader /\ (UNCHANGED faults \/ Fault) /\ Quiet
    BY <1>14 DEF Recovered, Log, Append_, journal
  <2>2. grammar' \in Grammars /\ Same(grammar, grammar') /\ reader' = reader /\ faults' \in 0..MaxFaults
    <3> HIDE DEF g
    <3> QED
      BY <1>t, <2>h, <2>1, SameRefl, FaultFacts
  <2>3. run' \in Runs /\ run'.done = run.done /\ run.pc = "recovered" /\ run'.pc \in {"stage", "settle"}
    BY <1>14, <1>t, <1>r, Names DEF Recovered, Block, Goto, At, Runs, InBlock
  <2>4. /\ run.pc \notin Outside /\ run'.pc \notin Outside
        /\ run'.pc \in BlockPhases => run.pc \in BlockPhases
        /\ run'.pc \in {"verify", "finish"} => run.pc = "verify" /\ run'.status = run.status
    BY <2>3 DEF BlockPhases, InBlock, Outside
  <2>5. CallsOK(run', grammar.mutating)
    BY <2>3 DEF CallsOK
  <2> QED
    BY <2>1, <2>2, <2>3, <2>4, <2>5 DEF Inside
<1>15. CASE StageFails
  <2>1. UNCHANGED journal /\ (UNCHANGED faults \/ Fault) /\ Quiet
    BY <1>15 DEF StageFails
  <2>2. grammar' \in Grammars /\ Same(grammar, grammar') /\ reader' = reader /\ faults' \in 0..MaxFaults
    BY <1>t, <2>1, SameRefl, FaultFacts DEF journal
  <2>3. run' \in Runs /\ run'.done = run.done /\ run.pc = "stage" /\ run'.pc = "settle"
    BY <1>15, <1>t, <1>r, Names DEF StageFails, Block, Goto, At, Runs, InBlock
  <2>4. /\ run.pc \notin Outside /\ run'.pc \notin Outside
        /\ run'.pc \in BlockPhases => run.pc \in BlockPhases
        /\ run'.pc \in {"verify", "finish"} => run.pc = "verify" /\ run'.status = run.status
    BY <2>3 DEF BlockPhases, InBlock, Outside
  <2>5. CallsOK(run', grammar.mutating)
    BY <2>3 DEF CallsOK
  <2> QED
    BY <2>1, <2>2, <2>3, <2>4, <2>5 DEF Inside
<1>16. ASSUME NEW ok \in BOOLEAN, VerifyOutput(ok) PROVE Inside
  <2> DEFINE g == VerifierRecorded(grammar, "output", run.status = "complete", ws)
  <2>g. (run.status = "complete") \in BOOLEAN /\ "output" \in Verifiers
    BY DEF Verifiers
  <2>h. g \in Grammars /\ Same(grammar, g)
    BY <2>g, <1>t, VerifierFacts
  <2>1. (grammar' = g \/ grammar' = grammar) /\ reader' = reader /\ (UNCHANGED faults \/ Fault) /\ Quiet
    BY <1>16 DEF VerifyOutput, Log, Append_, journal
  <2>2. grammar' \in Grammars /\ Same(grammar, grammar') /\ reader' = reader /\ faults' \in 0..MaxFaults
    <3> HIDE DEF g
    <3> QED
      BY <1>t, <2>h, <2>1, SameRefl, FaultFacts
  <2>c. run.pc = "verify"
    BY <1>16 DEF VerifyOutput, At
  <2>d. \/ run' = [run EXCEPT !.pc = "finish"]
        \/ run' = [run EXCEPT !.status = "failed", !.pc = "settle"]
    BY <1>16 DEF VerifyOutput, Block, Goto
  <2>3. run' \in Runs /\ run'.done = run.done /\ run.pc = "verify" /\ run'.pc \in {"finish", "settle"}
        /\ (run'.pc = "finish" => run'.status = run.status)
    <3>1. CASE run' = [run EXCEPT !.pc = "finish"]
      BY <1>t, <2>c, <3>1, Names DEF Runs
    <3>2. CASE run' = [run EXCEPT !.status = "failed", !.pc = "settle"]
      BY <1>t, <2>c, <3>2, Names DEF Runs
    <3> QED
      BY <2>d, <3>1, <3>2
  <2>4. /\ run.pc \notin Outside /\ run'.pc \notin Outside
        /\ run'.pc \in BlockPhases => run.pc \in BlockPhases
        /\ run'.pc \in {"verify", "finish"} => run.pc = "verify" /\ run'.status = run.status
    BY <2>3 DEF BlockPhases, InBlock, Outside
  <2>5. CallsOK(run', grammar.mutating)
    BY <2>3 DEF CallsOK
  <2> QED
    BY <2>1, <2>2, <2>3, <2>4, <2>5 DEF Inside
<1>17. CASE Interrupt
  <2>1. UNCHANGED journal /\ (UNCHANGED faults \/ Fault) /\ Quiet
    BY <1>17 DEF Interrupt
  <2>2. grammar' \in Grammars /\ Same(grammar, grammar') /\ reader' = reader /\ faults' \in 0..MaxFaults
    BY <1>t, <2>1, SameRefl, FaultFacts DEF journal
  <2>3. /\ run' \in Runs /\ run'.done = run.done /\ run'.pc \in {"check", "settle"}
        /\ run.pc \in InBlock \cup {"start", "check", "recover", "recovered", "stage", "verify", "finish"}
        /\ run'.pc = "check" => run.pc \in InBlock
    BY <1>17, <1>t, Names DEF Interrupt, Runs
  <2>4. /\ run.pc \notin Outside /\ run'.pc \notin Outside
        /\ run'.pc \in BlockPhases => run.pc \in BlockPhases
        /\ run'.pc \in {"verify", "finish"} => run.pc = "verify" /\ run'.status = run.status
    BY <2>3 DEF BlockPhases, InBlock, Outside
  <2>5. CallsOK(run', grammar.mutating)
    BY <2>3 DEF CallsOK
  <2> QED
    BY <2>1, <2>2, <2>3, <2>4, <2>5 DEF Inside
<1> QED
  BY <1>1, <1>2, <1>3, <1>4, <1>5, <1>6, <1>7, <1>8, <1>9, <1>10, <1>11, <1>12, <1>13, <1>14, <1>15, <1>16, <1>17

-----------------------------------------------------------------------------
(* The other steps: what each does to the state that outlives the process *)

Creates ==
    /\ Types' /\ run.pc = "idle" /\ ~Exists(grammar)
    /\ grammar' \in {grammar, NewGrammar}
    /\ \/ run' = run
       \/ run' = NewRun(<<>>) /\ grammar' = NewGrammar
    /\ UNCHANGED <<reader, thread, ws, touched, torn>>

Asks == Types' /\ UNCHANGED <<grammar, reader, run, thread, ws, touched, torn>>

Resumes ==
    /\ Types' /\ run.pc = "idle"
    /\ \/ UNCHANGED <<grammar, run>>
       \/ /\ Valid(asked) /\ grammar.session < MaxResumes
          /\ MayResume(grammar, Len(reader.completed), LastVerified(reader.completed))
          /\ grammar' = Resumed(grammar)
          /\ run' \in {run, NewRun(SubSeq(asked.blocks, 1, Len(reader.completed)))}
    /\ UNCHANGED <<reader, thread, ws, touched, torn>>

Links ==
    /\ Types' /\ run.pc = "link" /\ run'.pc = "bind" /\ run'.done = run.done
    /\ thread'.status \in {"queued", "running"} /\ thread'.blocks = thread.blocks
    /\ UNCHANGED <<grammar, reader, ws, touched, torn>>

\* The process ends: the journal is closed, or left as it is.
Leaves ==
    /\ Types' /\ run.pc # "idle" /\ run' = NoRun
    /\ \/ UNCHANGED <<grammar, reader>>
       \/ /\ grammar' = RunFinished(grammar)
          /\ \E s \in BlockStatus : /\ reader' = RunRead(reader, s)
                                    /\ s = "complete" => run.pc = "close" /\ run.final = "complete"
    /\ thread'.status \in {thread.status, "failed"} /\ thread'.blocks = thread.blocks
    /\ UNCHANGED <<ws, touched, torn>>

Starts ==
    /\ Types' /\ run.pc = "start" /\ Ordinal < Blocks
    /\ run'.pc \in {"round", "settle"} /\ run'.done = run.done
    /\ \/ grammar' = grammar
       \/ grammar.next = Ordinal /\ grammar' = BlockStarted(grammar, Ordinal)
    /\ UNCHANGED <<reader, thread, ws, touched, torn>>

Intends ==
    /\ Types' /\ run.pc = "intent"
    /\ run'.pc \in {"intent", "tool", "unwind"} /\ run'.done = run.done
    /\ \/ UNCHANGED <<grammar, reader>>
       \/ \E new \in {{}, {Ordinal}} :
              /\ Same(grammar, [grammar' EXCEPT !.mutating = grammar.mutating])
              /\ grammar'.mutating = grammar.mutating \cup new
              /\ reader' = [reader EXCEPT !.mutating = reader.mutating \cup new]
    /\ CallsOK(run', grammar'.mutating)
    /\ UNCHANGED <<thread, ws, touched, torn>>

Invokes ==
    /\ Types' /\ run.pc = "tool" /\ run'.pc = "result"
    /\ run'.done = run.done /\ run'.calls = run.calls /\ run'.steps = run.steps /\ run'.index = run.index
    /\ \/ UNCHANGED <<ws, touched>>
       \/ Ordinal \in grammar.mutating /\ touched' = touched \cup {Attempt}
    /\ UNCHANGED <<grammar, reader, thread, torn>>

Stages ==
    /\ Types' /\ run.pc = "stage" /\ run'.pc = "verify" /\ run'.done = run.done
    /\ thread' = [status |-> "running", blocks |-> Append(run.done, Record(run'.status))]
    /\ UNCHANGED <<grammar, reader, ws, touched, torn>>

Stored(complete) ==
    /\ grammar.active = Ordinal
    /\ grammar' = BlockFinished(grammar, Ordinal, complete, ws)
    /\ reader' = BlockRead(reader, grammar.session, Ordinal, complete, ws)

Finishes ==
    /\ Types' /\ run.pc = "finish"
    /\ \/ /\ Stored(run.status = "complete") /\ torn' = torn
          /\ run'.pc \in {"start", "settle"} /\ run'.done = Append(run.done, Record(run.status))
       \/ /\ UNCHANGED <<grammar, reader>> \/ Stored(run.status = "complete")
          /\ torn' = IF reader' # reader THEN torn \cup {Attempt} ELSE torn
          /\ run'.pc = "settle" /\ run'.done = run.done
    /\ UNCHANGED <<thread, ws, touched>>

Settles ==
    /\ Types' /\ run.pc = "settle" /\ run'.pc = "close" /\ run'.done = run.done
    /\ thread'.status = Final /\ run'.final = Final
    /\ thread'.blocks \in {run.done, Persisted}
    /\ UNCHANGED <<grammar, reader, ws, touched, torn>>

SettlesNot ==
    /\ Types' /\ run.pc = "settle" /\ run'.pc = "close" /\ run'.done = run.done
    /\ run'.final = "failed"
    /\ UNCHANGED <<grammar, reader, thread, ws, touched, torn>>

LEMMA InsideTypes == Types /\ Inside => Types'
BY DEF Types, Inside, Quiet, ghosts

LEMMA NewRunFacts ==
    /\ \A d \in DoneSeqs : NewRun(d) \in Runs /\ NewRun(d).pc = "link" /\ NewRun(d).done = d
    /\ NoRun \in Runs /\ NoRun.pc = "idle" /\ NoRun.done = <<>> /\ <<>> \in DoneSeqs
<1>1. <<>> \in CallSeqs /\ <<>> \in DoneSeqs
  BY DEF CallSeqs, DoneSeqs
<1>2. \A d \in DoneSeqs : NewRun(d) \in Runs /\ NewRun(d).pc = "link" /\ NewRun(d).done = d
  BY <1>1, Names DEF NewRun, Runs
<1>3. NoRun = [NewRun(<<>>) EXCEPT !.pc = "idle"]
  BY DEF NoRun
<1>4. NoRun \in Runs /\ NoRun.pc = "idle" /\ NoRun.done = <<>>
  BY <1>1, <1>2, <1>3, Names DEF Runs
<1> QED
  BY <1>1, <1>2, <1>4

LEMMA CreateStep == ASSUME Types, NEW ok \in BOOLEAN, Create(ok) PROVE Creates
<1>1. /\ run.pc = "idle" /\ ~Exists(grammar) /\ UNCHANGED <<reader, thread, ws, asked, touched, torn>>
      /\ (UNCHANGED faults \/ Fault)
      /\ grammar' \in {grammar, NewGrammar}
      /\ (run' = run \/ (run' = NewRun(<<>>) /\ grammar' = NewGrammar))
  BY DEF Create, Leased, ghosts
<1>2. NewRun(<<>>) \in Runs /\ NewGrammar \in Grammars
  BY NewRunFacts, NewGrammarType
<1>3. faults' \in 0..MaxFaults
  BY <1>1, FaultFacts
<1> QED
  BY <1>1, <1>2, <1>3 DEF Types, Creates

LEMMA AskStep == ASSUME Types, Ask \/ Refuse PROVE Asks
<1>1. UNCHANGED <<grammar, reader, run, thread, ws, faults, touched, torn>>
  BY DEF Ask, Refuse, journal, ghosts
<1>2. asked' \in [blocks : DoneSeqs, ws : Int]
  <2>1. asked' = [blocks |-> thread.blocks, ws |-> ws] \/ asked' = [blocks |-> <<>>, ws |-> None]
    BY DEF Ask, Refuse, NotAsked
  <2>2. thread.blocks \in DoneSeqs /\ ws \in Int /\ <<>> \in DoneSeqs
    BY Bounds, NewRunFacts DEF Types
  <2> QED
    BY <2>1, <2>2, Defaults
<1> QED
  BY <1>1, <1>2 DEF Types, Asks

LEMMA ResumeStep == ASSUME Types, NEW ok \in BOOLEAN, Resume(ok) PROVE Resumes
<1> DEFINE n == Len(reader.completed)
           may == MayResume(grammar, n, LastVerified(reader.completed))
<1>1. /\ run.pc = "idle" /\ UNCHANGED <<reader, thread, ws, touched, torn>> /\ asked' = NotAsked
      /\ Valid(asked) /\ grammar.session < MaxResumes /\ (UNCHANGED faults \/ Fault)
      /\ \/ UNCHANGED <<grammar, run>>
         \/ may /\ grammar' = Resumed(grammar) /\ run' \in {run, NewRun(SubSeq(asked.blocks, 1, n))}
  BY DEF Resume, Log, Append_, Leased, journal, ghosts
<1>2. faults' \in 0..MaxFaults
  BY <1>1, FaultFacts
<1>3. Resumed(grammar) \in Grammars
  BY <1>1, ResumedFacts DEF Types
<1>4. SubSeq(asked.blocks, 1, n) \in DoneSeqs
  <2>1. n \in Nat /\ n <= Len(asked.blocks) /\ asked.blocks \in Seq(Records)
    BY <1>1 DEF Valid, Hydrates, Types, Readers, BoundarySeqs, DoneSeqs
  <2> QED
    BY <2>1, SubSeqProperties DEF DoneSeqs
<1>5. NewRun(SubSeq(asked.blocks, 1, n)) \in Runs
  BY <1>4, NewRunFacts
<1>6. NotAsked \in [blocks : DoneSeqs, ws : Int]
  BY Defaults DEF NotAsked, DoneSeqs
<1>7. grammar' \in Grammars /\ run' \in Runs
  BY <1>1, <1>3, <1>5 DEF Types
<1>8. Types'
  BY <1>1, <1>2, <1>6, <1>7 DEF Types
<1> QED
  BY <1>1, <1>8 DEF Resumes

LEMMA LinkStep == ASSUME Types, Link PROVE Links
<1>1. /\ run.pc = "link" /\ run' = [run EXCEPT !.pc = "bind"]
      /\ thread' = [thread EXCEPT !.status = IF @ = "none" THEN "queued" ELSE "running"]
      /\ UNCHANGED <<grammar, reader, ws, asked, faults, touched, torn>>
  BY DEF Link, Goto, At, journal, ghosts
<1>2. run' \in Runs /\ run'.pc = "bind" /\ run'.done = run.done
  BY <1>1, Names DEF Types, Runs
<1>3. /\ thread' \in [status : BlockStatus \cup {"queued", "running"}, blocks : DoneSeqs]
      /\ thread'.status \in {"queued", "running"} /\ thread'.blocks = thread.blocks
  BY <1>1 DEF Types
<1> QED
  BY <1>1, <1>2, <1>3 DEF Types, Links

\* Five ways to leave.
LEMMA LeaveStep ==
    ASSUME Types, NEW ok \in BOOLEAN,
           LinkFails \/ LeaveOpen \/ Crash \/ Close(ok) \/ (SettleFails /\ run.end # "unbound")
    PROVE  Leaves
<1>1. run.pc # "idle" /\ run' = NoRun /\ (UNCHANGED faults \/ Fault) /\ UNCHANGED <<ws, asked, touched, torn>>
  BY DEF LinkFails, LeaveOpen, Crash, Close, SettleFails, Append_, Exit, At, Leased, ghosts
<1>2. \/ UNCHANGED <<grammar, reader>>
      \/ grammar' = RunFinished(grammar) /\ reader' = RunRead(reader, "failed")
      \/ grammar' = RunFinished(grammar) /\ reader' = RunRead(reader, run.final) /\ run.pc = "close"
  BY DEF LinkFails, LeaveOpen, Crash, Close, SettleFails, Append_, At, journal
<1>3. thread' = thread \/ thread' = [thread EXCEPT !.status = "failed"]
  BY DEF LinkFails, LeaveOpen, Crash, Close, SettleFails
<1>4. /\ thread' \in [status : BlockStatus \cup {"queued", "running"}, blocks : DoneSeqs]
      /\ thread'.status \in {thread.status, "failed"} /\ thread'.blocks = thread.blocks
  BY <1>3, Names DEF Types
<1>5. run.final \in BlockStatus /\ "failed" \in BlockStatus /\ grammar \in Grammars /\ reader \in Readers
  BY Names DEF Types, Runs
<1>6. \/ UNCHANGED <<grammar, reader>>
      \/ /\ grammar' = RunFinished(grammar)
         /\ \E s \in BlockStatus : /\ reader' = RunRead(reader, s)
                                   /\ s = "complete" => run.pc = "close" /\ run.final = "complete"
  BY <1>2, <1>5
<1>7. grammar' \in Grammars /\ reader' \in Readers
  <2>1. RunFinished(grammar) \in Grammars
    BY <1>5, RunFinishedFacts
  <2>2. \A s \in BlockStatus : RunRead(reader, s) \in Readers
    BY <1>5, ReaderFacts
  <2> QED
    BY <1>5, <1>6, <2>1, <2>2
<1>8. faults' \in 0..MaxFaults /\ NoRun \in Runs
  BY <1>1, FaultFacts, NewRunFacts
<1>9. Types'
  BY <1>1, <1>4, <1>7, <1>8 DEF Types
<1> QED
  BY <1>1, <1>4, <1>6, <1>9 DEF Leaves

LEMMA StartBlockStep == ASSUME Types, NEW ok \in BOOLEAN, StartBlock(ok) PROVE Starts
<1> DEFINE status == IF ok THEN "none" ELSE "failed"
           pc == IF ok THEN "round" ELSE "settle"
<1>1. /\ run.pc = "start" /\ Ordinal < Blocks /\ (UNCHANGED faults \/ Fault)
      /\ UNCHANGED <<reader, thread, ws, asked, touched, torn>>
  BY DEF StartBlock, Log, Append_, At, Quiet, journal, ghosts
<1>2. grammar' = grammar \/ (MayStartBlock(grammar, Ordinal) /\ grammar' = BlockStarted(grammar, Ordinal))
  BY DEF StartBlock, Log, Append_, journal
<1>3. run' = [run EXCEPT !.phase = "main", !.round = 0, !.base = ws, !.status = status, !.pc = pc]
  BY DEF StartBlock
<1>4. status \in BlockStatus /\ pc \in Phases /\ pc \in {"round", "settle"} /\ ws \in Nat
  BY Names, Bounds DEF Types
<1> HIDE DEF status, pc
<1>5. run' \in Runs /\ run'.done = run.done /\ run'.pc = pc
  BY <1>3, <1>4 DEF Types, Runs
<1>6. grammar' \in Grammars
  BY <1>2, NameFacts, BlockStartedFacts DEF Types
<1>7. faults' \in 0..MaxFaults
  BY <1>1, FaultFacts
<1>8. Types'
  BY <1>1, <1>5, <1>6, <1>7 DEF Types
<1> QED
  BY <1>1, <1>2, <1>4, <1>5, <1>8 DEF Starts, MayStartBlock

\* Intents: the name of the batch in the journal is the round of the process.
LEMMA IntendStep ==
    ASSUME Types, LeaseInv, CallsInv, NEW ok \in BOOLEAN, Intend(ok) PROVE Intends
<1> DEFINE k == run.steps
           m == run.calls[k + 1]
           new == IF m THEN {Ordinal} ELSE {}
<1>1. /\ run.pc = "intent" /\ (UNCHANGED faults \/ Fault)
      /\ UNCHANGED <<thread, ws, asked, touched, torn>>
  BY DEF Intend, Append_, At, Quiet, ghosts
<1>2. \/ UNCHANGED <<grammar, reader>> /\ ~ok
      \/ /\ MayIntend(grammar, Round, k)
         /\ grammar' = Intended(grammar, m) /\ reader' = IntentRead(reader, Ordinal, m)
  BY DEF Intend, Append_, journal
<1>3. /\ k \in Nat /\ k < Len(run.calls) /\ Len(run.calls) \in Nat /\ run.calls \in Seq(BOOLEAN)
      /\ run.index \in Nat /\ run.index < Len(run.calls)
      /\ \A j \in 1..k : run.calls[j] => Ordinal \in grammar.mutating
  BY <1>1 DEF CallsInv, CallsOK, Types, Runs, CallSeqs, Ordinal
<1>4. m \in BOOLEAN
  BY <1>3, ElementOfSeq
<1>5. Ordinal \in 0..(Blocks - 1)
  BY <1>1, NameFacts, Bounds DEF LeaseInv, BlockPhases, InBlock
<1>6. new \in {{}, {Ordinal}} /\ grammar.mutating \cup new = (IF m THEN grammar.mutating \cup {Ordinal} ELSE grammar.mutating)
      /\ reader.mutating \cup new = (IF m THEN reader.mutating \cup {Ordinal} ELSE reader.mutating)
  OBVIOUS
<1>7. ASSUME MayIntend(grammar, Round, k), grammar' = Intended(grammar, m), reader' = IntentRead(reader, Ordinal, m)
      PROVE  /\ grammar' \in Grammars /\ reader' \in Readers
             /\ Same(grammar, [grammar' EXCEPT !.mutating = grammar.mutating])
             /\ grammar'.mutating = grammar.mutating \cup new
             /\ reader' = [reader EXCEPT !.mutating = reader.mutating \cup new]
  <2>1. grammar.batch.at[1] = Ordinal
    BY <1>7, NameFacts DEF MayIntend
  <2>2. /\ grammar' \in Grammars
        /\ grammar'.mutating = IF m THEN grammar.mutating \cup {Ordinal} ELSE grammar.mutating
        /\ Same(grammar, [grammar' EXCEPT !.mutating = grammar.mutating])
    <3> HIDE DEF m
    <3> QED
      BY <1>4, <1>5, <1>7, <2>1, IntendedFacts DEF Types
  <2>3. /\ reader' \in Readers
        /\ reader' = [reader EXCEPT !.mutating = IF m THEN reader.mutating \cup {Ordinal} ELSE reader.mutating]
    <3> HIDE DEF m
    <3> QED
      BY <1>4, <1>5, <1>7, ReaderFacts DEF Types
  <2> QED
    BY <1>6, <2>2, <2>3
<1>8. \/ /\ ~ok /\ run' = [run EXCEPT !.status = "failed", !.pc = "unwind"]
      \/ /\ ok /\ k + 1 < Len(run.calls) /\ run' = [run EXCEPT !.steps = k + 1]
      \/ /\ ok /\ ~(k + 1 < Len(run.calls))
         /\ \E quarantined \in BOOLEAN, status \in {"none", "failed"} :
                run' = [run EXCEPT !.steps = k + 1, !.withheld = quarantined, !.status = status, !.pc = "tool"]
  BY DEF Intend, Block
<1>9. /\ run' \in Runs /\ run'.done = run.done /\ run'.pc \in {"intent", "tool", "unwind"}
      /\ run'.pc # "unwind" => /\ ok /\ run'.steps = k + 1 /\ run'.calls = run.calls /\ run'.index = run.index
                               /\ (run'.pc = "tool" => k + 1 = Len(run.calls))
                               /\ (run'.pc = "intent" => k + 1 < Len(run.calls))
  <2>1. k + 1 \in Nat /\ run \in Runs
    BY <1>3 DEF Types
  <2>2. CASE ~ok /\ run' = [run EXCEPT !.status = "failed", !.pc = "unwind"]
    BY <2>1, <2>2, Names DEF Runs
  <2>3. CASE ok /\ k + 1 < Len(run.calls) /\ run' = [run EXCEPT !.steps = k + 1]
    <3> HIDE DEF k
    <3> QED
      BY <1>1, <2>1, <2>3, Names DEF Runs
  <2>4. CASE ok /\ ~(k + 1 < Len(run.calls)) /\ \E quarantined \in BOOLEAN, status \in {"none", "failed"} :
                run' = [run EXCEPT !.steps = k + 1, !.withheld = quarantined, !.status = status, !.pc = "tool"]
    <3>1. k + 1 = Len(run.calls)
      BY <1>3, <2>4
    <3>2. PICK quarantined \in BOOLEAN, status \in {"none", "failed"} :
                run' = [run EXCEPT !.steps = k + 1, !.withheld = quarantined, !.status = status, !.pc = "tool"]
      BY <2>4
    <3> HIDE DEF k
    <3> QED
      BY <2>1, <2>4, <3>1, <3>2, Names DEF Runs
  <2> QED
    BY <1>8, <2>2, <2>3, <2>4
<1>10. CallsOK(run', grammar'.mutating)
  <2>1. SUFFICES ASSUME run'.pc \in {"intent", "tool"} PROVE CallsOK(run', grammar'.mutating)
    BY <1>9 DEF CallsOK
  <2>2. /\ ok /\ run'.steps = k + 1 /\ run'.calls = run.calls /\ run'.index = run.index /\ run'.done = run.done
        /\ (run'.pc = "tool" => k + 1 = Len(run.calls))
        /\ (run'.pc = "intent" => k + 1 < Len(run.calls))
    BY <1>9, <2>1
  <2>3. grammar'.mutating = grammar.mutating \cup new
    BY <1>2, <1>7, <2>2
  <2>4. ASSUME NEW j \in 1..(k + 1), run.calls[j] PROVE Len(run.done) \in grammar'.mutating
    <3>1. CASE j = k + 1
      BY <2>3, <2>4, <3>1 DEF Ordinal
    <3>2. CASE j # k + 1
      <4>1. j \in 1..k
        BY <1>3, <3>2
      <4> QED
        BY <1>3, <2>3, <2>4, <4>1 DEF Ordinal
    <3> QED
      BY <3>1, <3>2
  <2> HIDE DEF new, m, k
  <2> QED
    BY <1>3, <2>1, <2>2, <2>4 DEF CallsOK
<1>11. faults' \in 0..MaxFaults
  BY <1>1, FaultFacts
<1>12. grammar' \in Grammars /\ reader' \in Readers
  BY <1>2, <1>7 DEF Types
<1> HIDE DEF new, m, k
<1>13. Types'
  BY <1>1, <1>9, <1>11, <1>12 DEF Types
<1>14. \/ UNCHANGED <<grammar, reader>>
       \/ \E n \in {{}, {Ordinal}} :
              /\ Same(grammar, [grammar' EXCEPT !.mutating = grammar.mutating])
              /\ grammar'.mutating = grammar.mutating \cup n
              /\ reader' = [reader EXCEPT !.mutating = reader.mutating \cup n]
  BY <1>2, <1>6, <1>7
<1> QED
  BY <1>1, <1>9, <1>10, <1>13, <1>14 DEF Intends

\* A call that mutates is invoked only after the intents of its batch.
LEMMA InvokeStep == ASSUME Types, CallsInv, Invoke PROVE Invokes
<1>1. /\ run.pc = "tool" /\ UNCHANGED <<grammar, reader, thread, asked, faults, torn>>
  BY DEF Invoke, At, journal
<1>2. PICK invoked \in BOOLEAN, interrupted \in BOOLEAN :
           /\ touched' = IF invoked /\ Mutating THEN touched \cup {Attempt} ELSE touched
           /\ ws' \in IF invoked /\ Mutating /\ ws < MaxEdits THEN {ws, ws + 1} ELSE {ws}
           /\ run' = [run EXCEPT !.withheld = @ \/ interrupted, !.pc = "result",
                                 !.end = IF interrupted THEN "cancelled" ELSE @]
  BY DEF Invoke
<1>3. /\ run' \in Runs /\ run'.pc = "result" /\ run'.done = run.done /\ run'.calls = run.calls
      /\ run'.steps = run.steps /\ run'.index = run.index
  <2> DEFINE w == run.withheld \/ interrupted
             e == IF interrupted THEN "cancelled" ELSE run.end
  <2>1. run \in Runs /\ w \in BOOLEAN /\ e \in {"none", "cancelled", "raised", "unbound"}
    BY DEF Types, Runs
  <2>2. run' = [run EXCEPT !.withheld = w, !.pc = "result", !.end = e]
    BY <1>2
  <2> HIDE DEF w, e
  <2> QED
    BY <2>1, <2>2, Names DEF Runs
<1>4. Mutating => Ordinal \in grammar.mutating
  <2>1. /\ run.index \in Nat /\ run.steps = Len(run.calls) /\ run.index < run.steps /\ run.steps \in Nat
        /\ \A j \in 1..run.steps : run.calls[j] => Ordinal \in grammar.mutating
    BY <1>1 DEF CallsInv, CallsOK, Types, Runs, Ordinal
  <2>2. run.index + 1 \in 1..run.steps
    BY <2>1
  <2> QED
    BY <2>1, <2>2 DEF Mutating
<1>5. UNCHANGED <<ws, touched>> \/ (Ordinal \in grammar.mutating /\ touched' = touched \cup {Attempt})
  BY <1>2, <1>4
<1>6. ws' \in 0..MaxEdits
  <2>1. ws \in 0..MaxEdits
    BY DEF Types
  <2>2. ws' = ws \/ (ws < MaxEdits /\ ws' = ws + 1)
    BY <1>2
  <2> QED
    BY <2>1, <2>2, Bounds
<1>7. touched' \subseteq Attempts
  BY <1>5, NameFacts DEF Types
<1>8. Types'
  BY <1>1, <1>3, <1>6, <1>7 DEF Types
<1> QED
  BY <1>1, <1>3, <1>5, <1>8 DEF Invokes

LEMMA StageStep == ASSUME Types, Stage PROVE Stages
<1>1. PICK status \in IF run.phase = "retry" THEN Enforced(run.status) ELSE {run.status} :
           /\ thread' = [status |-> "running", blocks |-> Append(run.done, Record(status))]
           /\ run' = [run EXCEPT !.status = status, !.pc = "verify"]
  BY DEF Stage, Block
<1>2. run.pc = "stage" /\ UNCHANGED <<grammar, reader, ws, asked, faults, touched, torn>>
  BY DEF Stage, At, journal, ghosts
<1>3. run \in Runs /\ run.status \in BlockStatus /\ status \in BlockStatus /\ run.done \in Seq(Records)
  BY <1>1, Names DEF Enforced, Types, Runs, DoneSeqs
<1>4. run' \in Runs /\ run'.pc = "verify" /\ run'.done = run.done /\ run'.status = status
  BY <1>1, <1>3, Names DEF Runs
<1>5. Append(run.done, Record(status)) \in DoneSeqs
  BY <1>3, NameFacts, AppendProperties DEF DoneSeqs
<1>6. thread' \in [status : BlockStatus \cup {"queued", "running"}, blocks : DoneSeqs]
  BY <1>1, <1>5
<1>7. Types'
  BY <1>2, <1>4, <1>6 DEF Types
<1>8. thread' = [status |-> "running", blocks |-> Append(run.done, Record(run'.status))]
  BY <1>1, <1>4
<1> QED
  BY <1>2, <1>4, <1>7, <1>8 DEF Stages

\* block_finished, for both readers.
LEMMA StoredFacts ==
    ASSUME Types, NEW complete \in BOOLEAN, Stored(complete)
    PROVE  /\ FinishedAs(grammar, Ordinal, complete, ws, grammar')
           /\ ReadAs(reader, grammar.session, Ordinal, complete, ws, reader')
<1>1. ws \in Nat /\ Ordinal \in Nat
  BY NameFacts, Bounds DEF Types
<1>2. grammar.session \in Int /\ grammar \in Grammars /\ reader \in Readers
  BY Defaults DEF Types, Grammars
<1>3. grammar' = BlockFinished(grammar, Ordinal, complete, ws)
  BY DEF Stored
<1>4. reader' = BlockRead(reader, grammar.session, Ordinal, complete, ws)
  BY DEF Stored
<1>5. FinishedAs(grammar, Ordinal, complete, ws, BlockFinished(grammar, Ordinal, complete, ws))
  BY <1>1, <1>2, BlockFinishedFacts
<1>6. ReadAs(reader, grammar.session, Ordinal, complete, ws, BlockRead(reader, grammar.session, Ordinal, complete, ws))
  BY <1>1, <1>2, BlockReadFacts
<1> QED
  BY <1>3, <1>4, <1>5, <1>6

LEMMA FinishBlockStep == ASSUME Types, NEW ok \in BOOLEAN, FinishBlock(ok) PROVE Finishes
<1> DEFINE complete == run.status = "complete"
           done == Append(run.done, Record(run.status))
<1>1. run.pc = "finish" /\ UNCHANGED <<thread, ws, asked, touched>> /\ (UNCHANGED faults \/ Fault)
  BY DEF FinishBlock, Append_, At
<1>2. \/ UNCHANGED <<grammar, reader>> /\ ~ok
      \/ Stored(complete)
  BY DEF FinishBlock, Append_, journal, Stored, MayFinishBlock
<1>3. torn' = IF ~ok /\ reader' # reader THEN torn \cup {Attempt} ELSE torn
  BY DEF FinishBlock
<1>4. \/ ~ok /\ run' = [run EXCEPT !.status = "failed", !.pc = "settle"]
      \/ ok /\ \E pc \in {"start", "settle"} : run' = [run EXCEPT !.done = done, !.status = "none", !.pc = pc]
  BY DEF FinishBlock, Block
<1>5. run \in Runs /\ run.status \in BlockStatus /\ run.done \in Seq(Records)
  BY DEF Types, Runs, DoneSeqs
<1>6. done \in DoneSeqs
  BY <1>5, NameFacts, AppendProperties DEF DoneSeqs
<1>7. /\ run' \in Runs
      /\ \/ ~ok /\ run'.pc = "settle" /\ run'.done = run.done
         \/ ok /\ run'.pc \in {"start", "settle"} /\ run'.done = done
  <2>1. CASE ~ok /\ run' = [run EXCEPT !.status = "failed", !.pc = "settle"]
    BY <1>5, <2>1, Names DEF Runs
  <2>2. ASSUME ok, NEW pc \in {"start", "settle"}, run' = [run EXCEPT !.done = done, !.status = "none", !.pc = pc]
        PROVE  run' \in Runs /\ run'.pc = pc /\ run'.done = done
    <3> HIDE DEF done
    <3> QED
      BY <1>5, <1>6, <2>2, Names DEF Runs
  <2> QED
    BY <1>4, <2>1, <2>2
<1>8. grammar' \in Grammars /\ reader' \in Readers
  <2>1. CASE UNCHANGED <<grammar, reader>>
    BY <2>1 DEF Types
  <2>2. CASE Stored(complete)
    <3>1. complete \in BOOLEAN
      OBVIOUS
    <3> HIDE DEF complete
    <3> QED
      BY <2>2, <3>1, StoredFacts DEF FinishedAs, ReadAs
  <2> QED
    BY <1>2, <2>1, <2>2
<1>9. faults' \in 0..MaxFaults /\ torn' \subseteq Attempts
  BY <1>1, <1>3, FaultFacts, NameFacts DEF Types
<1>10. Types'
  BY <1>1, <1>7, <1>8, <1>9 DEF Types
<1>11. \/ /\ Stored(complete) /\ torn' = torn
          /\ run'.pc \in {"start", "settle"} /\ run'.done = done
       \/ /\ UNCHANGED <<grammar, reader>> \/ Stored(complete)
          /\ torn' = IF reader' # reader THEN torn \cup {Attempt} ELSE torn
          /\ run'.pc = "settle" /\ run'.done = run.done
  <2> HIDE DEF complete, done
  <2> QED
    BY <1>2, <1>3, <1>7
<1> QED
  BY <1>1, <1>10, <1>11 DEF Finishes

LEMMA OutcomeFacts ==
    /\ Outcome \in {"cancelled", "failed", "partial", "complete"}
    /\ Final \in {"cancelled", "failed", "partial", "complete"}
    /\ Final = "complete" => ~Uncertain(reader) /\ Len(reader.completed) = Blocks
<1>1. Outcome \in {"cancelled", "failed", "partial", "complete"}
  BY DEF Outcome
<1> QED
  BY <1>1 DEF Final

LEMMA SettleStep == ASSUME Types, Settle PROVE Settles
<1>1. /\ run.pc = "settle" /\ run' = [run EXCEPT !.final = Final, !.pc = "close"]
      /\ UNCHANGED <<grammar, reader, ws, asked, faults, touched, torn>>
  BY DEF Settle, At, journal, ghosts
<1>2. thread' = [status |-> Final, blocks |-> IF run.end = "unbound" THEN run.done ELSE Persisted]
  BY DEF Settle
<1>3. Final \in BlockStatus
  BY OutcomeFacts, Names
<1>4. run \in Runs /\ run.done \in DoneSeqs /\ run.status \in BlockStatus
  BY DEF Types, Runs
<1>5. Persisted \in DoneSeqs
  <2>1. Append(run.done, Record(run.status)) \in DoneSeqs
    BY <1>4, NameFacts, AppendProperties DEF DoneSeqs
  <2> QED
    BY <1>4, <2>1 DEF Persisted
<1>6. run' \in Runs /\ run'.pc = "close" /\ run'.done = run.done /\ run'.final = Final
  BY <1>1, <1>3, <1>4, Names DEF Runs
<1>7. /\ thread' \in [status : BlockStatus \cup {"queued", "running"}, blocks : DoneSeqs]
      /\ thread'.status = Final /\ thread'.blocks \in {run.done, Persisted}
  BY <1>2, <1>3, <1>4, <1>5
<1>8. Types'
  BY <1>1, <1>6, <1>7 DEF Types
<1> QED
  BY <1>1, <1>6, <1>7, <1>8 DEF Settles

LEMMA SettleFailsStep == ASSUME Types, SettleFails, run.end = "unbound" PROVE SettlesNot
<1>1. /\ run.pc = "settle" /\ run' = [run EXCEPT !.final = "failed", !.pc = "close"] /\ Fault
      /\ UNCHANGED <<grammar, reader, thread, ws, asked, touched, torn>>
  BY DEF SettleFails, At, journal, ghosts
<1>2. run' \in Runs /\ run'.pc = "close" /\ run'.done = run.done /\ run'.final = "failed"
  BY <1>1, Names DEF Types, Runs
<1>3. faults' \in 0..MaxFaults
  BY <1>1, FaultFacts
<1>4. Types'
  BY <1>1, <1>2, <1>3 DEF Types
<1> QED
  BY <1>1, <1>2, <1>4 DEF SettlesNot

Outline ==
    \/ (Types' /\ Inside) \/ Creates \/ Asks \/ Resumes \/ Links \/ Leaves \/ Starts
    \/ Intends \/ Invokes \/ Stages \/ Finishes \/ Settles \/ SettlesNot

\* Every step of the pipeline is one of these; one that changes nothing is like a
\* step of a process that only asks.
LEMMA StepOutline == ASSUME Types, LeaseInv, CallsInv, [Next]_vars PROVE Outline
<1>1. CASE UNCHANGED vars
  BY <1>1 DEF vars, journal, ghosts, Types, Asks, Outline
<1>2. CASE Next
  <2>1. Inside => Outline
    BY InsideTypes DEF Outline
  <2>2. CASE AllDone \/ StopEarly \/ ChatFails \/ Unwound \/ CheckOutput \/ StageFails \/ Interrupt
    BY <2>1, <2>2, InsideSteps
  <2>3. ASSUME NEW ok \in BOOLEAN,
               \/ BindContext(ok) \/ StartRound(ok) \/ Answer(ok) \/ Unwind(ok) \/ RecordResult(ok)
               \/ CheckChange(ok) \/ Recover(ok) \/ Recovered(ok) \/ VerifyOutput(ok)
               \/ \E calls \in Batches : ToolCalls(calls, ok)
        PROVE  Outline
    BY <2>1, <2>3, InsideSteps
  <2>4. CASE LinkFails \/ LeaveOpen \/ Crash
    BY <2>4, LeaveStep DEF Outline
  <2>5. CASE SettleFails
    BY <2>5, LeaveStep, SettleFailsStep DEF Outline
  <2>6. CASE Link \/ Invoke \/ Stage \/ Settle \/ Ask \/ Refuse
    BY <2>6, LinkStep, InvokeStep, StageStep, SettleStep, AskStep DEF Outline
  <2>7. ASSUME NEW ok \in BOOLEAN, StartBlock(ok) \/ Intend(ok) \/ FinishBlock(ok) \/ Create(ok) \/ Resume(ok)
        PROVE  Outline
    BY <2>7, StartBlockStep, IntendStep, FinishBlockStep, CreateStep, ResumeStep DEF Outline
  <2>8. ASSUME NEW ok \in BOOLEAN, Close(ok) PROVE Outline
    BY <2>8, LeaveStep DEF Outline
  <2> QED
    BY <1>2, <2>2, <2>3, <2>4, <2>5, <2>6, <2>7, <2>8 DEF Next, Work
<1> QED
  BY <1>1, <1>2

-----------------------------------------------------------------------------
(* The invariant is inductive *)

\* What a resumed process starts with: the verified blocks, as the thread held
\* them when it was asked.
LEMMA ResumedDone ==
    ASSUME Types, Valid(asked), NEW done, done = SubSeq(asked.blocks, 1, Len(reader.completed))
    PROVE  /\ NewRun(done).pc = "link" /\ NewRun(done).done = done /\ Len(done) = Len(reader.completed)
           /\ \A k \in 1..Len(reader.completed) : done[k] = asked.blocks[k]
<1>1. /\ asked.blocks \in Seq(Records) /\ Len(reader.completed) \in Nat
      /\ Len(reader.completed) <= Len(asked.blocks)
  BY DEF Valid, Hydrates, Types, Readers, BoundarySeqs, DoneSeqs
<1>2. /\ done \in Seq(Records) /\ Len(done) = Len(reader.completed)
      /\ \A k \in 1..Len(reader.completed) : done[k] = asked.blocks[k]
  BY <1>1, SubSeqProperties
<1> QED
  BY <1>2, NewRunFacts DEF DoneSeqs

\* Lengths are numbers, and a sequence has one more element after Append.
LEMMA Lengths ==
    ASSUME Types
    PROVE  /\ Len(grammar.completed) \in Nat /\ Len(reader.completed) \in Nat /\ Len(run.done) \in Nat
           /\ Len(thread.blocks) \in Nat /\ grammar.completed \in Seq(Boundaries)
           /\ reader.completed \in Seq(Boundaries) /\ run.done \in Seq(Records) /\ thread.blocks \in Seq(Records)
BY DEF Types, Grammars, Readers, Runs, BoundarySeqs, DoneSeqs

LEMMA SessionKept ==
    ASSUME Types, LeaseInv, Outline
    PROVE  /\ grammar'.session = grammar.session \/ Creates \/ Resumes
           /\ Resumes /\ grammar' # grammar => Exists(grammar')
<1>1. Inside \/ Asks \/ Links \/ Invokes \/ Stages \/ Settles \/ SettlesNot => grammar'.session = grammar.session
  BY DEF Inside, Same, Asks, Links, Invokes, Stages, Settles, SettlesNot
<1>2. Leaves => grammar'.session = grammar.session
  BY RunFinishedFacts DEF Leaves, Types, Same, RunFinished, Grammars
<1>3. Starts => grammar'.session = grammar.session
  <2>1. BlockStarted(grammar, Ordinal).session = grammar.session
    BY NameFacts DEF BlockStarted, Cleared, Types, Grammars
  <2> QED
    BY <2>1 DEF Starts
<1>4. Intends => grammar'.session = grammar.session
  BY DEF Intends, Types, Grammars, Same
<1>5. Finishes => grammar'.session = grammar.session
  <2>1. (run.status = "complete") \in BOOLEAN
    OBVIOUS
  <2>2. Stored(run.status = "complete") => grammar'.session = grammar.session
    BY <2>1, StoredFacts DEF FinishedAs
  <2> QED
    BY <2>2 DEF Finishes
<1>6. Resumes /\ grammar' # grammar => Exists(grammar')
  <2>1. SUFFICES ASSUME Resumes, grammar' # grammar PROVE Exists(grammar')
    OBVIOUS
  <2>2. grammar' = Resumed(grammar) /\ grammar.session < MaxResumes /\ Exists(grammar)
    BY <2>1 DEF Resumes, MayResume, Open
  <2>3. grammar'.session = grammar.session + 1 /\ grammar.session \in Sessions
    BY <2>2, ResumedFacts DEF Types, Grammars
  <2> QED
    BY <2>2, <2>3, Bounds DEF Sessions, None, Exists
<1> QED
  BY <1>1, <1>2, <1>3, <1>4, <1>5, <1>6 DEF Outline

LEMMA LeaseStep == ASSUME IInv, Outline PROVE LeaseInv'
<1> USE DEF IInv
<1>t. Len(run.done) \in Nat /\ Blocks \in Nat /\ NoRun.pc = "idle" /\ Len(NoRun.done) = 0
  BY Lengths, Bounds, NewRunFacts, EmptySeq
<1>1. /\ (run'.pc # "idle" \/ thread'.status # "none") => Exists(grammar')
      /\ ~Exists(grammar') => grammar' = NoJournal
  <2>1. CASE Creates
    BY <2>1, Defaults DEF Creates, LeaseInv, Exists, NewGrammar, None
  <2>2. CASE Resumes
    <3>1. CASE UNCHANGED <<grammar, run>>
      BY <2>2, <3>1 DEF Resumes, LeaseInv
    <3>2. CASE ~UNCHANGED <<grammar, run>>
      <4>1. Exists(grammar)
        BY <2>2, <3>2 DEF Resumes, MayResume, Open
      <4>2. Exists(grammar')
        BY <2>2, <4>1, SessionKept
      <4> QED
        BY <4>2
    <3> QED
      BY <3>1, <3>2
  <2>3. CASE grammar'.session = grammar.session /\ ~Creates /\ ~Resumes
    <3>1. Exists(grammar') = Exists(grammar)
      BY <2>3 DEF Exists
    <3>2. CASE run.pc # "idle"
      BY <3>1, <3>2 DEF LeaseInv
    <3>3. CASE run.pc = "idle"
      <4>1. Asks
        BY <2>3, <3>3 DEF Outline, Inside, Outside, Links, Leaves, Starts, Intends, Invokes, Stages, Finishes,
           Settles, SettlesNot
      <4> QED
        BY <4>1 DEF Asks, LeaseInv
    <3> QED
      BY <3>2, <3>3
  <2> QED
    BY <2>1, <2>2, <2>3, SessionKept
<1>2. /\ run'.pc = "idle" => run' = NoRun
      /\ Len(run'.done) <= Blocks
      /\ run'.pc \in BlockPhases => Len(run'.done) < Blocks
  <2>1. CASE Inside
    BY <2>1 DEF Inside, Outside, LeaseInv, Ordinal
  <2>2. CASE Creates
    <3>1. NewRun(<<>>).pc = "link" /\ NewRun(<<>>).done = <<>>
      BY NewRunFacts
    <3> QED
      BY <1>t, <2>2, <3>1 DEF Creates, LeaseInv, Ordinal, BlockPhases, InBlock
  <2>3. CASE Asks
    BY <2>3 DEF Asks, LeaseInv, Ordinal
  <2>4. CASE Resumes
    <3>1. CASE run' = run
      BY <2>4, <3>1 DEF LeaseInv, Ordinal
    <3>2. CASE run' # run
      <4>1. Valid(asked) /\ run' = NewRun(SubSeq(asked.blocks, 1, Len(reader.completed)))
        BY <2>4, <3>2 DEF Resumes
      <4>2. run'.pc = "link" /\ Len(run'.done) = Len(reader.completed)
        BY <4>1, ResumedDone
      <4>3. Len(reader.completed) <= Blocks
        BY Lengths, Bounds DEF ReadersInv
      <4> QED
        BY <4>2, <4>3 DEF BlockPhases, InBlock
    <3> QED
      BY <3>1, <3>2
  <2>5. CASE Leaves
    BY <1>t, <2>5 DEF Leaves, BlockPhases, InBlock
  <2>6. CASE Links \/ Starts \/ Intends \/ Invokes \/ Stages \/ Settles \/ SettlesNot
    BY <2>6 DEF Links, Starts, Intends, Invokes, Stages, Settles, SettlesNot, LeaseInv, Ordinal, BlockPhases, InBlock
  <2>7. CASE Finishes
    <3>1. Len(run.done) < Blocks
      BY <2>7 DEF Finishes, LeaseInv, BlockPhases, Ordinal
    <3>2. Len(run'.done) <= Len(run.done) + 1
      <4>1. run.status \in BlockStatus
        BY DEF Types, Runs
      <4>2. Len(Append(run.done, Record(run.status))) = Len(run.done) + 1
        BY <4>1, Lengths, NameFacts, AppendProperties
      <4> QED
        BY <1>t, <2>7, <4>2 DEF Finishes
    <3>3. run'.pc \in {"start", "settle"} /\ run' \in Runs
      BY <2>7 DEF Finishes, Types
    <3>4. Len(run'.done) \in Nat
      BY <3>3 DEF Runs, DoneSeqs
    <3> QED
      BY <1>t, <3>1, <3>2, <3>3, <3>4 DEF BlockPhases, InBlock
  <2> QED
    BY <2>1, <2>2, <2>3, <2>4, <2>5, <2>6, <2>7 DEF Outline
<1> QED
  BY <1>1, <1>2 DEF LeaseInv, Ordinal

\* The batch of a process changes with its own steps, the mutations in the
\* journal shrink only with a boundary.
LEMMA CallsStep == ASSUME IInv, Outline PROVE CallsInv'
<1> USE DEF IInv
<1>1. CASE Inside
  BY <1>1 DEF Inside, Same, CallsInv
<1>2. CASE Intends
  BY <1>2 DEF Intends, CallsInv
<1>3. CASE Invokes
  BY <1>3 DEF Invokes, CallsInv, CallsOK
<1>4. CASE Asks
  BY <1>4 DEF Asks, CallsInv
<1>5. CASE ~Inside /\ ~Intends /\ ~Invokes /\ ~Asks
  <2>1. run'.pc \notin {"intent", "tool", "result"}
    <3>1. CASE Creates \/ Resumes
      <4>1. run' = run \/ run'.pc = "link"
        BY <3>1, NewRunFacts, ResumedDone DEF Creates, Resumes
      <4>2. run.pc = "idle"
        BY <3>1 DEF Creates, Resumes
      <4> QED
        BY <4>1, <4>2
    <3>2. CASE Leaves
      BY <3>2, NewRunFacts DEF Leaves
    <3>3. CASE Links \/ Starts \/ Stages \/ Finishes \/ Settles \/ SettlesNot
      BY <3>3 DEF Links, Starts, Stages, Finishes, Settles, SettlesNot
    <3> QED
      BY <1>5, <3>1, <3>2, <3>3 DEF Outline
  <2> QED
    BY <2>1 DEF CallsInv, CallsOK
<1> QED
  BY <1>1, <1>2, <1>3, <1>4, <1>5

\* A block ends the same way for both readers, or resume_state() stays behind.
LEMMA ReadersFinish ==
    ASSUME IInv, NEW complete \in BOOLEAN, Stored(complete), Ordinal < Blocks
    PROVE  /\ grammar'.next >= Len(grammar'.completed)
           /\ grammar'.gap = (grammar'.next > Len(grammar'.completed))
           /\ Len(grammar'.completed) <= Blocks
           /\ \/ reader'.completed = grammar'.completed
              \/ reader'.gap /\ Len(reader'.completed) < Len(grammar'.completed)
           /\ grammar'.mutating \subseteq reader'.mutating
           /\ reader'.completed = grammar'.completed => reader.completed = grammar.completed
<1> DEFINE gm == complete /\ ~grammar.gap /\ Ordinal = Len(grammar.completed)
           rm == complete /\ ~reader.gap /\ Ordinal = Len(reader.completed)
           b == [at |-> <<Ordinal, grammar.session>>, ws |-> ws]
<1>1. FinishedAs(grammar, Ordinal, complete, ws, grammar')
  BY StoredFacts DEF IInv
<1>2. ReadAs(reader, grammar.session, Ordinal, complete, ws, reader')
  BY StoredFacts DEF IInv
<1>3. /\ grammar'.next = Ordinal + 1
      /\ gm => ~grammar'.gap /\ grammar'.completed = Append(grammar.completed, b)
                             /\ grammar'.mutating = grammar.mutating \ {Ordinal}
      /\ ~gm => grammar'.gap /\ grammar'.completed = grammar.completed /\ grammar'.mutating = grammar.mutating
      /\ grammar' \in Grammars
  BY <1>1 DEF FinishedAs
<1>4. /\ reader.gap => reader'.gap
      /\ rm => reader'.completed = Append(reader.completed, b) /\ reader'.mutating = reader.mutating \ {Ordinal}
      /\ ~rm => reader'.completed = reader.completed /\ reader'.mutating = reader.mutating
  BY <1>2 DEF ReadAs
<1>5. /\ Len(grammar.completed) \in Nat /\ Len(reader.completed) \in Nat /\ Ordinal \in Nat
      /\ grammar.completed \in Seq(Boundaries) /\ reader.completed \in Seq(Boundaries) /\ Blocks \in Nat
  BY Lengths, NameFacts, Bounds DEF IInv
<1>6. Ordinal = grammar.next
  BY <1>5 DEF Stored, IInv, ReadersInv, None
<1>7. b \in Boundaries
  <2>1. grammar.session \in Int
    BY Defaults DEF IInv, Types, Grammars
  <2>2. ws \in Nat
    BY Bounds DEF IInv, Types
  <2> QED
    BY <1>5, <2>1, <2>2 DEF Boundaries, Attempts
<1> HIDE DEF b
<1>8. Len(Append(grammar.completed, b)) = Len(grammar.completed) + 1
  BY <1>5, <1>7, AppendProperties
<1>9. Len(Append(reader.completed, b)) = Len(reader.completed) + 1
  BY <1>5, <1>7, AppendProperties
<1>10. /\ grammar.next >= Len(grammar.completed)
       /\ grammar.gap <=> (grammar.next > Len(grammar.completed))
       /\ \/ reader.completed = grammar.completed
          \/ reader.gap /\ Len(reader.completed) < Len(grammar.completed)
       /\ grammar.mutating \subseteq reader.mutating
       /\ Len(grammar.completed) <= Blocks
  BY DEF IInv, ReadersInv
<1>11. rm => gm
  BY <1>5, <1>6, <1>10
<1>12. /\ grammar'.next >= Len(grammar'.completed)
       /\ grammar'.gap <=> (grammar'.next > Len(grammar'.completed))
       /\ Len(grammar'.completed) <= Blocks
  BY <1>3, <1>5, <1>6, <1>8, <1>10
<1>13. grammar'.gap \in BOOLEAN
  BY <1>3 DEF Grammars
<1>14. CASE reader.completed = grammar.completed
  <2>1. reader'.completed = grammar'.completed \/ (reader'.gap /\ Len(reader'.completed) < Len(grammar'.completed))
    <3>1. CASE rm
      BY <1>3, <1>4, <1>11, <1>14, <3>1
    <3>2. CASE ~gm
      BY <1>3, <1>4, <1>11, <1>14, <3>2
    <3>3. CASE gm /\ ~rm
      <4>1. reader.gap /\ reader'.completed = grammar.completed /\ reader'.gap
        BY <1>4, <1>14, <3>3
      <4>2. Len(grammar'.completed) = Len(grammar.completed) + 1
        BY <1>3, <1>8, <3>3
      <4> QED
        BY <1>5, <4>1, <4>2
    <3> QED
      BY <3>1, <3>2, <3>3
  <2> QED
    BY <1>3, <1>4, <1>10, <1>11, <1>12, <1>13, <1>14, <2>1
<1>15. CASE reader.completed # grammar.completed
  <2>1. /\ ~rm /\ reader'.completed = reader.completed /\ reader'.mutating = reader.mutating /\ reader'.gap
        /\ Len(reader'.completed) < Len(grammar'.completed)
    BY <1>3, <1>4, <1>5, <1>8, <1>10, <1>15
  <2>2. grammar'.mutating \subseteq reader'.mutating
    BY <1>3, <1>10, <2>1
  <2>3. reader'.completed # grammar'.completed
    BY <1>3, <1>5, <1>8, <2>1
  <2> QED
    BY <1>12, <1>13, <2>1, <2>2, <2>3
<1> QED
  BY <1>14, <1>15

\* The other events leave the boundary alone.
LEMMA ReadersStep == ASSUME IInv, Outline PROVE ReadersInv'
<1> USE DEF IInv
<1>t. grammar \in Grammars /\ reader \in Readers /\ Ordinal \in Nat /\ Len(grammar.completed) \in Nat
  BY NameFacts, Lengths DEF Types
<1>1. CASE Inside
  <2>1. Same(grammar, grammar') /\ reader' = reader /\ run.pc # "idle"
    BY <1>1 DEF Inside, Outside
  <2> QED
    BY <2>1 DEF Same, ReadersInv
<1>2. CASE Creates
  <2>1. grammar = NoJournal /\ UNCHANGED reader
    BY <1>2 DEF Creates, LeaseInv
  <2>2. CASE grammar' = grammar
    <3>1. reader.status = "open"
      BY <2>1 DEF ReadersInv, NoJournal, NewGrammar
    <3> QED
      BY <2>1, <2>2, <3>1 DEF ReadersInv
  <2>3. CASE grammar' = NewGrammar
    <3>1. Same(grammar, [grammar' EXCEPT !.session = grammar.session]) /\ ~grammar'.terminal
      BY <2>1, <2>3, NewGrammarType DEF NoJournal, NewGrammar, Same
    <3>2. /\ grammar'.active = grammar.active /\ grammar'.mutating = grammar.mutating
          /\ grammar'.completed = grammar.completed /\ grammar'.next = grammar.next
          /\ grammar'.gap = grammar.gap /\ grammar'.terminal = grammar.terminal
      BY <2>1, <2>3 DEF NoJournal, NewGrammar
    <3> QED
      BY <2>1, <3>1, <3>2 DEF ReadersInv
  <2> QED
    BY <1>2, <2>2, <2>3 DEF Creates
<1>3. CASE Asks
  BY <1>3 DEF Asks, ReadersInv
<1>4. CASE Resumes
  <2>1. CASE UNCHANGED <<grammar, run>>
    BY <1>4, <2>1 DEF Resumes, ReadersInv
  <2>2. CASE ~UNCHANGED <<grammar, run>>
    <3>1. grammar' = Resumed(grammar) /\ grammar.session < MaxResumes /\ reader' = reader /\ Valid(asked)
      BY <1>4, <2>2 DEF Resumes
    <3>2. /\ grammar'.active = None /\ ~grammar'.gap /\ grammar'.next = Len(grammar.completed)
          /\ grammar'.mutating = grammar.mutating /\ grammar'.completed = grammar.completed
          /\ grammar'.terminal = grammar.terminal /\ grammar' \in Grammars
      BY <1>t, <3>1, ResumedFacts
    <3>3. reader.status = "open" /\ ~grammar.terminal
      BY <3>1 DEF Valid, CanResume, ReadersInv
    <3>4. grammar'.gap = (grammar'.next > Len(grammar'.completed))
      <4>1. grammar'.gap \in BOOLEAN
        BY <3>2 DEF Grammars
      <4> QED
        BY <1>t, <3>2, <4>1
    <3> QED
      BY <1>t, <3>1, <3>2, <3>3, <3>4 DEF ReadersInv
  <2> QED
    BY <2>1, <2>2
<1>5. CASE Links \/ Invokes \/ Stages \/ Settles \/ SettlesNot
  <2>1. UNCHANGED <<grammar, reader>> /\ run.pc # "idle"
    BY <1>5 DEF Links, Invokes, Stages, Settles, SettlesNot
  <2> QED
    BY <2>1 DEF ReadersInv
<1>6. CASE Leaves
  <2>1. run'.pc = "idle"
    BY <1>6, NewRunFacts DEF Leaves
  <2>2. CASE UNCHANGED <<grammar, reader>>
    BY <2>1, <2>2 DEF ReadersInv
  <2>3. CASE ~UNCHANGED <<grammar, reader>>
    <3>1. PICK s \in BlockStatus : grammar' = RunFinished(grammar) /\ reader' = RunRead(reader, s)
      BY <1>6, <2>3 DEF Leaves
    <3>2. reader'.completed = reader.completed /\ reader'.gap = reader.gap /\ reader'.mutating = reader.mutating
          /\ reader'.status = s
      BY <1>t, <3>1, ReaderFacts DEF Readers
    <3>3. /\ grammar'.active = grammar.active /\ grammar'.mutating = grammar.mutating
          /\ grammar'.completed = grammar.completed /\ grammar'.next = grammar.next
          /\ grammar'.gap = grammar.gap /\ grammar'.terminal
      BY <1>t, <3>1 DEF RunFinished, Grammars
    <3>4. s # "open"
      BY DEF BlockStatus
    <3> QED
      BY <2>1, <3>2, <3>3, <3>4 DEF ReadersInv
  <2> QED
    BY <2>2, <2>3
<1>7. CASE Starts
  <2>1. reader' = reader /\ run.pc # "idle"
    BY <1>7 DEF Starts
  <2>2. CASE grammar' = grammar
    BY <2>1, <2>2 DEF ReadersInv
  <2>3. CASE grammar' # grammar
    <3>1. grammar.next = Ordinal /\ grammar' = BlockStarted(grammar, Ordinal)
      BY <1>7, <2>3 DEF Starts
    <3>2. /\ grammar'.active = Ordinal /\ grammar'.mutating = grammar.mutating
          /\ grammar'.completed = grammar.completed /\ grammar'.next = grammar.next
          /\ grammar'.gap = grammar.gap /\ grammar'.terminal = grammar.terminal
      <4>1. Cleared(grammar) \in Grammars /\ Same(grammar, Cleared(grammar))
        BY <1>t, ClearedFacts
      <4> QED
        BY <1>t, <3>1, <4>1 DEF BlockStarted, Grammars, Same
    <3> QED
      BY <2>1, <3>1, <3>2 DEF ReadersInv
  <2> QED
    BY <2>2, <2>3
<1>8. CASE Intends
  <2>1. run.pc # "idle"
    BY <1>8 DEF Intends
  <2>2. CASE UNCHANGED <<grammar, reader>>
    BY <2>1, <2>2 DEF ReadersInv
  <2>3. CASE ~UNCHANGED <<grammar, reader>>
    <3>1. PICK new \in {{}, {Ordinal}} :
              /\ Same(grammar, [grammar' EXCEPT !.mutating = grammar.mutating])
              /\ grammar'.mutating = grammar.mutating \cup new
              /\ reader' = [reader EXCEPT !.mutating = reader.mutating \cup new]
      BY <1>8, <2>3 DEF Intends
    <3>2. grammar' \in Grammars
      BY <1>8 DEF Intends, Types
    <3>3. /\ grammar'.active = grammar.active /\ grammar'.completed = grammar.completed
          /\ grammar'.next = grammar.next /\ grammar'.gap = grammar.gap /\ grammar'.terminal = grammar.terminal
      BY <3>1, <3>2 DEF Same, Grammars
    <3>4. /\ reader'.completed = reader.completed /\ reader'.gap = reader.gap /\ reader'.status = reader.status
          /\ reader'.mutating = reader.mutating \cup new
      BY <1>t, <3>1 DEF Readers
    <3> QED
      BY <2>1, <3>1, <3>3, <3>4 DEF ReadersInv
  <2> QED
    BY <2>2, <2>3
<1>9. CASE Finishes
  <2>1. run.pc = "finish" /\ (UNCHANGED <<grammar, reader>> \/ Stored(run.status = "complete"))
    BY <1>9 DEF Finishes
  <2>2. CASE UNCHANGED <<grammar, reader>>
    BY <2>1, <2>2 DEF ReadersInv
  <2>3. CASE Stored(run.status = "complete")
    <3>1. Ordinal < Blocks /\ (run.status = "complete") \in BOOLEAN
      BY <2>1 DEF LeaseInv, BlockPhases
    <3>2. /\ grammar'.next >= Len(grammar'.completed)
          /\ grammar'.gap = (grammar'.next > Len(grammar'.completed))
          /\ Len(grammar'.completed) <= Blocks
          /\ \/ reader'.completed = grammar'.completed
             \/ reader'.gap /\ Len(reader'.completed) < Len(grammar'.completed)
          /\ grammar'.mutating \subseteq reader'.mutating
      BY <2>3, <3>1, ReadersFinish
    <3>3. grammar'.active = None /\ grammar'.terminal = grammar.terminal /\ reader'.status = reader.status
      BY <2>3, <3>1, StoredFacts DEF FinishedAs, ReadAs
    <3> QED
      BY <2>1, <3>2, <3>3 DEF ReadersInv
  <2> QED
    BY <2>1, <2>2, <2>3
<1> QED
  BY <1>1, <1>2, <1>3, <1>4, <1>5, <1>6, <1>7, <1>8, <1>9 DEF Outline

\* What most steps keep of the state that a later session reads.
Kept ==
    /\ UNCHANGED <<ws, touched, torn>>
    /\ grammar'.session = grammar.session /\ grammar'.completed = grammar.completed
    /\ grammar'.mutating = grammar.mutating /\ reader'.completed = reader.completed
    /\ reader'.mutating = reader.mutating

LEMMA KeptSteps ==
    ASSUME Types, Inside \/ Asks \/ Links \/ Leaves \/ Starts \/ Stages \/ Settles \/ SettlesNot
    PROVE  Kept
<1>t. grammar \in Grammars /\ reader \in Readers /\ Ordinal \in Nat
  BY NameFacts DEF Types
<1>1. CASE Inside
  BY <1>1 DEF Inside, Same, Quiet, ghosts, Kept
<1>2. CASE Asks \/ Links \/ Stages \/ Settles \/ SettlesNot
  BY <1>2 DEF Asks, Links, Stages, Settles, SettlesNot, Kept
<1>3. CASE Leaves
  <2>1. CASE UNCHANGED <<grammar, reader>>
    BY <1>3, <2>1 DEF Leaves, Kept
  <2>2. CASE ~UNCHANGED <<grammar, reader>>
    <3>1. PICK s \in BlockStatus : grammar' = RunFinished(grammar) /\ reader' = RunRead(reader, s)
      BY <1>3, <2>2 DEF Leaves
    <3>2. reader'.completed = reader.completed /\ reader'.mutating = reader.mutating
      BY <1>t, <3>1, ReaderFacts DEF Readers
    <3>3. /\ grammar'.session = grammar.session /\ grammar'.mutating = grammar.mutating
          /\ grammar'.completed = grammar.completed
      BY <1>t, <3>1 DEF RunFinished, Grammars
    <3> QED
      BY <1>3, <3>2, <3>3 DEF Leaves, Kept
  <2> QED
    BY <2>1, <2>2
<1>4. CASE Starts
  <2>1. Cleared(grammar) \in Grammars /\ Same(grammar, Cleared(grammar))
    BY <1>t, ClearedFacts
  <2>2. /\ BlockStarted(grammar, Ordinal).session = grammar.session
        /\ BlockStarted(grammar, Ordinal).mutating = grammar.mutating
        /\ BlockStarted(grammar, Ordinal).completed = grammar.completed
    BY <1>t, <2>1 DEF BlockStarted, Grammars, Same
  <2> QED
    BY <1>4, <2>2 DEF Starts, Kept
<1> QED
  BY <1>1, <1>2, <1>3, <1>4

LEMMA IntendsFacts ==
    ASSUME Types, Intends
    PROVE  /\ grammar'.session = grammar.session /\ grammar'.completed = grammar.completed
           /\ grammar.mutating \subseteq grammar'.mutating
           /\ reader'.completed = reader.completed /\ reader'.status = reader.status
<1>t. grammar \in Grammars /\ reader \in Readers
  BY DEF Types
<1>1. CASE UNCHANGED <<grammar, reader>>
  BY <1>1
<1>2. CASE ~UNCHANGED <<grammar, reader>>
  <2>1. PICK new \in {{}, {Ordinal}} :
            /\ Same(grammar, [grammar' EXCEPT !.mutating = grammar.mutating])
            /\ grammar'.mutating = grammar.mutating \cup new
            /\ reader' = [reader EXCEPT !.mutating = reader.mutating \cup new]
    BY <1>2 DEF Intends
  <2>2. grammar' \in Grammars
    BY DEF Intends, Types
  <2>3. grammar'.session = grammar.session /\ grammar'.completed = grammar.completed
    BY <2>1, <2>2 DEF Same, Grammars
  <2>4. reader'.completed = reader.completed /\ reader'.status = reader.status
    BY <1>t, <2>1 DEF Readers
  <2> QED
    BY <2>1, <2>3, <2>4
<1> QED
  BY <1>1, <1>2

LEMMA ResumesFacts ==
    ASSUME Types, Resumes, ~UNCHANGED <<grammar, run>>
    PROVE  /\ grammar'.session = grammar.session + 1 /\ grammar'.completed = grammar.completed
           /\ grammar.mutating = {} /\ grammar'.mutating = {} /\ Valid(asked)
           /\ run' \in {run, NewRun(SubSeq(asked.blocks, 1, Len(reader.completed)))}
<1>1. /\ grammar' = Resumed(grammar) /\ grammar.session < MaxResumes /\ Valid(asked) /\ grammar.mutating = {}
      /\ run' \in {run, NewRun(SubSeq(asked.blocks, 1, Len(reader.completed)))}
  BY DEF Resumes, MayResume
<1> QED
  BY <1>1, ResumedFacts DEF Types

\* A boundary makes its attempt a verified one.
LEMMA VerifiedGrows ==
    ASSUME Types, NEW b \in Boundaries, grammar'.completed = Append(grammar.completed, b)
    PROVE  VerifiedAttempts' = VerifiedAttempts \cup {b.at} /\ LastWorkspace(grammar'.completed) = b.ws
<1> DEFINE c == grammar.completed
           n == Len(c)
<1>1. c \in Seq(Boundaries) /\ n \in Nat
  BY Lengths
<1>2. /\ Append(c, b) \in Seq(Boundaries) /\ Len(Append(c, b)) = n + 1
      /\ \A k \in 1..n : Append(c, b)[k] = c[k]
      /\ Append(c, b)[n + 1] = b
  BY <1>1, AppendProperties
<1>3. 1..(n + 1) = (1..n) \cup {n + 1}
  BY <1>1
<1>4. VerifiedAttempts' = {Append(c, b)[k].at : k \in 1..(n + 1)}
  BY <1>2 DEF VerifiedAttempts
<1>5. VerifiedAttempts = {c[k].at : k \in 1..n}
  BY DEF VerifiedAttempts
<1>6. Append(c, b) # <<>> /\ Last(Append(c, b)) = b
  <2> DEFINE d == Append(c, b)
  <2>1. d \in Seq(Boundaries) /\ Len(d) = n + 1 /\ d[n + 1] = b
    BY <1>2
  <2> HIDE DEF c, n, d
  <2>2. d # <<>>
    BY <1>1, <2>1, EmptySeq
  <2>3. Last(d) = b
    BY <2>1 DEF Last
  <2> QED
    BY <2>2, <2>3 DEF d
<1> HIDE DEF c, n
<1>7. VerifiedAttempts' = VerifiedAttempts \cup {b.at}
  BY <1>2, <1>3, <1>4, <1>5
<1> QED
  BY <1>6, <1>7 DEF LastWorkspace, c

LEMMA VerifiedKept ==
    grammar'.completed = grammar.completed =>
        /\ VerifiedAttempts' = VerifiedAttempts
        /\ LastWorkspace(grammar'.completed) = LastWorkspace(grammar.completed)
BY DEF VerifiedAttempts

\* Mutations stay uncertain until their block is verified, and a session starts
\* only when none is.
LEMMA TouchedStep == ASSUME IInv, Outline PROVE TouchedInv'
<1> USE DEF IInv
<1>t. touched \subseteq Attempts /\ grammar.session \in Int /\ Attempt = <<Ordinal, grammar.session>>
  BY Defaults DEF Types, Grammars, Attempt
<1>1. CASE Inside \/ Asks \/ Links \/ Leaves \/ Starts \/ Stages \/ Settles \/ SettlesNot
  <2>1. Kept
    BY <1>1, KeptSteps
  <2> QED
    BY <2>1, VerifiedKept DEF Kept, TouchedInv
<1>2. CASE Creates
  <2>1. grammar = NoJournal /\ UNCHANGED <<touched, ws>> /\ grammar' \in {grammar, NewGrammar}
    BY <1>2 DEF Creates, LeaseInv
  <2>2. grammar.completed = <<>> /\ grammar.mutating = {}
    BY <2>1 DEF NoJournal, NewGrammar
  <2>3. grammar'.completed = <<>> /\ grammar'.mutating = {}
    BY <2>1, <2>2 DEF NewGrammar
  <2>4. VerifiedAttempts = {}
    BY <2>2 DEF VerifiedAttempts
  <2>5. touched = {}
    BY <2>2, <2>4 DEF TouchedInv
  <2> QED
    BY <2>1, <2>2, <2>3, <2>5 DEF TouchedInv
<1>3. CASE Resumes
  <2>1. UNCHANGED <<touched, ws>>
    BY <1>3 DEF Resumes
  <2>2. CASE UNCHANGED <<grammar, run>>
    BY <2>1, <2>2, VerifiedKept DEF TouchedInv
  <2>3. CASE ~UNCHANGED <<grammar, run>>
    <3>1. grammar'.session = grammar.session + 1 /\ grammar'.completed = grammar.completed /\ grammar.mutating = {}
      BY <1>3, <2>3, ResumesFacts
    <3>2. \A a \in touched : a \in VerifiedAttempts /\ a[2] <= grammar.session /\ a[2] \in Int
      BY <1>t, <3>1 DEF TouchedInv, Attempts
    <3> QED
      BY <1>t, <2>1, <3>1, <3>2, VerifiedKept DEF TouchedInv
  <2> QED
    BY <2>2, <2>3
<1>4. CASE Intends
  <2>1. UNCHANGED <<touched, ws>>
    BY <1>4 DEF Intends
  <2>2. /\ grammar'.session = grammar.session /\ grammar'.completed = grammar.completed
        /\ grammar.mutating \subseteq grammar'.mutating
    BY <1>4, IntendsFacts
  <2> QED
    BY <2>1, <2>2, VerifiedKept DEF TouchedInv
<1>5. CASE Invokes
  <2>1. UNCHANGED grammar
    BY <1>5 DEF Invokes
  <2>2. CASE UNCHANGED <<ws, touched>>
    BY <2>1, <2>2, VerifiedKept DEF TouchedInv
  <2>3. CASE Ordinal \in grammar.mutating /\ touched' = touched \cup {Attempt}
    BY <1>t, <2>1, <2>3, VerifiedKept DEF TouchedInv
  <2> QED
    BY <1>5, <2>2, <2>3 DEF Invokes
<1>6. CASE Finishes
  <2>1. UNCHANGED <<touched, ws>> /\ (UNCHANGED <<grammar, reader>> \/ Stored(run.status = "complete"))
    BY <1>6 DEF Finishes
  <2>2. CASE UNCHANGED <<grammar, reader>>
    BY <2>1, <2>2, VerifiedKept DEF TouchedInv
  <2>3. CASE Stored(run.status = "complete")
    <3> DEFINE complete == run.status = "complete"
               moves == complete /\ ~grammar.gap /\ Ordinal = Len(grammar.completed)
               b == [at |-> <<Ordinal, grammar.session>>, ws |-> ws]
    <3>1. complete \in BOOLEAN
      OBVIOUS
    <3>2. FinishedAs(grammar, Ordinal, complete, ws, grammar')
      BY <2>3, <3>1, StoredFacts
    <3>3. /\ grammar'.session = grammar.session
          /\ moves => /\ grammar'.completed = Append(grammar.completed, b)
                      /\ grammar'.mutating = grammar.mutating \ {Ordinal}
          /\ ~moves => grammar'.completed = grammar.completed /\ grammar'.mutating = grammar.mutating
      BY <3>2 DEF FinishedAs
    <3>4. CASE ~moves
      BY <2>1, <3>3, <3>4, VerifiedKept DEF TouchedInv
    <3>5. CASE moves
      <4>1. Ordinal \in Nat /\ ws \in Nat
        BY NameFacts, Bounds DEF Types
      <4>2. b \in Boundaries /\ b.at = Attempt /\ b.ws = ws
        BY <1>t, <4>1 DEF Boundaries, Attempts
      <4> HIDE DEF b, moves, complete
      <4>3. VerifiedAttempts' = VerifiedAttempts \cup {Attempt} /\ LastWorkspace(grammar'.completed) = ws
        BY <3>3, <3>5, <4>2, VerifiedGrows
      <4>4. ASSUME NEW a \in touched PROVE a \in VerifiedAttempts' \/ a[1] \in grammar'.mutating
        <5>1. CASE a \in VerifiedAttempts
          BY <4>3, <5>1
        <5>2. CASE a \notin VerifiedAttempts
          <6>1. a[1] \in grammar.mutating /\ a[2] = grammar.session
            BY <1>t, <5>2 DEF TouchedInv, Attempts
          <6>2. CASE a[1] = Ordinal
            <7>1. a = Attempt
              BY <1>t, <6>1, <6>2 DEF Attempts
            <7> QED
              BY <4>3, <7>1
          <6>3. CASE a[1] # Ordinal
            BY <3>3, <3>5, <6>1, <6>3
          <6> QED
            BY <6>2, <6>3
        <5> QED
          BY <5>1, <5>2
      <4> QED
        BY <2>1, <3>3, <4>3, <4>4 DEF TouchedInv
    <3> QED
      BY <3>4, <3>5
  <2> QED
    BY <2>1, <2>2, <2>3
<1> QED
  BY <1>1, <1>2, <1>3, <1>4, <1>5, <1>6 DEF Outline

\* Final is complete only for what the journal vouches for.
LEMMA SettledBacked == ASSUME IInv, Final = "complete" PROVE Backed
<1>1. reader.mutating = {} /\ Len(reader.completed) = Blocks
  BY OutcomeFacts DEF Uncertain
<1>2. grammar.mutating = {}
  BY <1>1 DEF IInv, ReadersInv
<1>3. reader.completed = grammar.completed
  BY <1>1, Lengths, Bounds DEF IInv, ReadersInv
<1>4. touched \subseteq VerifiedAttempts
  BY <1>2 DEF IInv, TouchedInv
<1> QED
  BY <1>1, <1>3, <1>4 DEF Backed

LEMMA BackedStep == ASSUME IInv, Outline PROVE BackedInv'
<1> USE DEF IInv
<1>b. ASSUME grammar'.completed = grammar.completed, reader'.completed = reader.completed, touched' = touched, Backed
      PROVE  Backed'
  BY <1>b, VerifiedKept DEF Backed
<1>1. CASE Inside \/ Asks \/ Links \/ Leaves \/ Starts \/ Stages \/ Settles \/ SettlesNot
  <2>k. Kept
    BY <1>1, KeptSteps
  <2>b. Backed => Backed'
    BY <1>b, <2>k DEF Kept
  <2>1. CASE Inside
    BY <2>b, <2>1 DEF Inside, Quiet, Outside, BackedInv, Completed
  <2>2. CASE Asks
    BY <2>b, <2>2 DEF Asks, BackedInv, Completed
  <2>3. CASE Links
    BY <2>b, <2>3 DEF Links, BackedInv, Completed
  <2>4. CASE Leaves
    <3>1. run'.pc = "idle" /\ (thread'.status = "complete" => thread.status = "complete")
      BY <2>4, NewRunFacts DEF Leaves
    <3>2. reader'.status = "complete" => Completed
      <4>1. CASE reader' = reader
        BY <4>1 DEF Completed
      <4>2. CASE reader' # reader
        <5>1. PICK s \in BlockStatus : /\ reader' = RunRead(reader, s)
                                       /\ s = "complete" => run.pc = "close" /\ run.final = "complete"
          BY <2>4, <4>2 DEF Leaves
        <5>2. reader'.status = s
          BY <5>1, ReaderFacts DEF Types, Readers
        <5> QED
          BY <5>1, <5>2 DEF Completed
      <4> QED
        BY <4>1, <4>2
    <3> QED
      BY <2>b, <3>1, <3>2 DEF BackedInv, Completed
  <2>5. CASE Starts
    BY <2>b, <2>5 DEF Starts, BackedInv, Completed
  <2>6. CASE Stages
    <3>1. thread'.status = "running" /\ run'.pc = "verify" /\ reader' = reader
      BY <2>6 DEF Stages
    <3> QED
      BY <2>b, <3>1 DEF BackedInv, Completed
  <2>7. CASE Settles
    <3>1. run'.pc = "close" /\ run'.final = Final /\ thread'.status = Final /\ reader' = reader
      BY <2>7 DEF Settles
    <3>2. Final = "complete" => Backed
      BY SettledBacked
    <3> QED
      BY <2>b, <3>1, <3>2 DEF BackedInv, Completed
  <2>8. CASE SettlesNot
    BY <2>b, <2>8 DEF SettlesNot, BackedInv, Completed
  <2> QED
    BY <1>1, <2>1, <2>2, <2>3, <2>4, <2>5, <2>6, <2>7, <2>8
<1>2. CASE Creates
  <2>1. grammar'.completed = grammar.completed
    BY <1>2 DEF Creates, LeaseInv, NoJournal, NewGrammar
  <2>2. run'.pc \in {"idle", "link"} /\ UNCHANGED <<reader, thread, touched>>
    BY <1>2, NewRunFacts DEF Creates
  <2> QED
    BY <1>b, <2>1, <2>2 DEF BackedInv, Completed
<1>3. CASE Resumes
  <2>1. UNCHANGED <<reader, thread, touched>> /\ run.pc = "idle"
    BY <1>3 DEF Resumes
  <2>2. grammar'.completed = grammar.completed /\ run'.pc \in {"idle", "link"}
    <3>1. CASE UNCHANGED <<grammar, run>>
      BY <2>1, <3>1
    <3>2. CASE ~UNCHANGED <<grammar, run>>
      BY <1>3, <2>1, <3>2, ResumesFacts, ResumedDone
    <3> QED
      BY <3>1, <3>2
  <2> QED
    BY <1>b, <2>1, <2>2 DEF BackedInv, Completed
<1>4. CASE Intends \/ Invokes \/ Finishes
  <2>1. run.pc \in {"intent", "tool", "finish"} /\ run'.pc \notin Outside /\ thread' = thread
    BY <1>4 DEF Intends, Invokes, Finishes, Outside
  <2>2. reader'.status = reader.status
    <3>1. CASE Intends
      BY <3>1, IntendsFacts
    <3>2. CASE Invokes
      BY <3>2 DEF Invokes
    <3>3. CASE Finishes
      <4>1. (run.status = "complete") \in BOOLEAN
        OBVIOUS
      <4>2. Stored(run.status = "complete") => reader'.status = reader.status
        BY <4>1, StoredFacts DEF ReadAs
      <4> QED
        BY <3>3, <4>2 DEF Finishes
    <3> QED
      BY <1>4, <3>1, <3>2, <3>3
  <2>3. reader.status = "open" /\ thread.status # "complete"
    BY <2>1 DEF ReadersInv, BackedInv
  <2> QED
    BY <2>1, <2>2, <2>3 DEF BackedInv, Completed, Outside
<1> QED
  BY <1>1, <1>2, <1>3, <1>4 DEF Outline

\* The record of a thread stays good when a block is put behind it, and becomes
\* good for a new boundary with the block of that boundary.
LEMMA HydratesAppend ==
    ASSUME NEW d \in Seq(Records), NEW c \in Seq(Boundaries), Hydrates(d, c), NEW x \in Records
    PROVE  /\ Hydrates(Append(d, x), c)
           /\ \A b \in Boundaries : Len(d) = Len(c) /\ x = [at |-> b.at, status |-> "complete"]
                                    => Hydrates(Append(d, x), Append(c, b))
<1>1. Len(d) \in Nat /\ Len(c) \in Nat /\ Len(d) >= Len(c)
      /\ \A k \in 1..Len(c) : d[k] = [at |-> c[k].at, status |-> "complete"]
  BY DEF Hydrates
<1>2. /\ Append(d, x) \in Seq(Records) /\ Len(Append(d, x)) = Len(d) + 1
      /\ \A k \in 1..Len(d) : Append(d, x)[k] = d[k]
      /\ Append(d, x)[Len(d) + 1] = x
  BY <1>1, AppendProperties
<1>3. Hydrates(Append(d, x), c)
  <2>1. \A k \in 1..Len(c) : k \in 1..Len(d)
    BY <1>1
  <2> QED
    BY <1>1, <1>2, <2>1 DEF Hydrates
<1>4. ASSUME NEW b \in Boundaries, Len(d) = Len(c), x = [at |-> b.at, status |-> "complete"]
      PROVE  Hydrates(Append(d, x), Append(c, b))
  <2>1. /\ Len(Append(c, b)) = Len(c) + 1
        /\ \A k \in 1..Len(c) : Append(c, b)[k] = c[k]
        /\ Append(c, b)[Len(c) + 1] = b
    BY <1>1, AppendProperties
  <2>2. ASSUME NEW k \in 1..(Len(c) + 1)
        PROVE  Append(d, x)[k] = [at |-> Append(c, b)[k].at, status |-> "complete"]
    <3>1. CASE k = Len(c) + 1
      BY <1>2, <1>4, <2>1, <3>1
    <3>2. CASE k # Len(c) + 1
      <4>1. k \in 1..Len(c) /\ k \in 1..Len(d)
        BY <1>1, <1>4, <3>2
      <4>2. Append(d, x)[k] = d[k] /\ Append(c, b)[k] = c[k] /\ d[k] = [at |-> c[k].at, status |-> "complete"]
        BY <1>1, <1>2, <2>1, <4>1
      <4> QED
        BY <4>2
    <3> QED
      BY <3>1, <3>2
  <2>3. Len(Append(d, x)) >= Len(Append(c, b))
    BY <1>1, <1>2, <1>4, <2>1
  <2> QED
    BY <2>1, <2>2, <2>3 DEF Hydrates
<1> QED
  BY <1>3, <1>4

\* The content of a block is in the thread before the journal vouches for it.
LEMMA StagedStep == ASSUME IInv, Outline PROVE StagedInv'
<1> USE DEF IInv
<1>t. /\ run.done \in Seq(Records) /\ grammar.completed \in Seq(Boundaries) /\ thread.blocks \in Seq(Records)
      /\ run.status \in BlockStatus
  BY Lengths DEF Types, Runs
<1>r. \A status \in BlockStatus : Record(status) \in Records
  BY NameFacts
<1>s. ASSUME run'.done = run.done, grammar'.session = grammar.session, NEW status
      PROVE  Record(status)' = Record(status)
  BY <1>s DEF Record, Attempt, Ordinal
<1>1. CASE Inside
  <2>1. /\ Kept /\ thread' = thread /\ run'.done = run.done /\ run.pc # "idle"
        /\ run'.pc \in {"verify", "finish"} => run.pc = "verify" /\ run'.status = run.status
    BY <1>1, KeptSteps DEF Inside, Quiet, Outside
  <2>2. run'.pc \in {"verify", "finish"} => thread'.blocks = Append(run'.done, Record(run.status)')
                                             /\ run'.status = run.status
    BY <1>s, <2>1 DEF StagedInv, Kept
  <2> QED
    BY <2>1, <2>2 DEF StagedInv, Kept, Record, Attempt, Ordinal
<1>2. CASE Asks
  BY <1>2 DEF Asks, StagedInv, Record, Attempt, Ordinal
<1>3. CASE Creates
  <2>1. grammar'.completed = <<>>
    BY <1>3 DEF Creates, LeaseInv, NoJournal, NewGrammar
  <2>2. run'.pc \in {"idle", "link"} /\ Types'
    BY <1>3, NewRunFacts DEF Creates
  <2>3. thread'.blocks \in Seq(Records) /\ run'.done \in Seq(Records)
    BY <2>2 DEF Types, Runs, DoneSeqs
  <2>4. Len(thread'.blocks) \in Nat /\ Len(run'.done) \in Nat
    BY <2>3
  <2>5. Hydrates(thread'.blocks, grammar'.completed) /\ Hydrates(run'.done, grammar'.completed)
    BY <2>1, <2>4 DEF Hydrates
  <2> QED
    BY <2>2, <2>5 DEF StagedInv
<1>4. CASE Resumes
  <2>1. UNCHANGED <<reader, thread, torn>> /\ run.pc = "idle"
    BY <1>4 DEF Resumes
  <2>2. CASE UNCHANGED <<grammar, run>>
    BY <2>1, <2>2 DEF StagedInv
  <2>3. CASE ~UNCHANGED <<grammar, run>>
    <3> DEFINE done == SubSeq(asked.blocks, 1, Len(reader.completed))
    <3>1. grammar'.completed = grammar.completed /\ Valid(asked) /\ run' \in {run, NewRun(done)}
      BY <1>4, <2>3, ResumesFacts
    <3>2. /\ NewRun(done).pc = "link" /\ NewRun(done).done = done /\ Len(done) = Len(reader.completed)
          /\ \A k \in 1..Len(reader.completed) : done[k] = asked.blocks[k]
      BY <3>1, ResumedDone
    <3>3. Hydrates(done, reader.completed)
      <4>1. /\ Len(reader.completed) \in Nat
            /\ \A k \in 1..Len(reader.completed) :
                   asked.blocks[k] = [at |-> reader.completed[k].at, status |-> "complete"]
        BY <3>1, Lengths DEF Valid, Hydrates
      <4> HIDE DEF done
      <4> QED
        BY <3>2, <4>1 DEF Hydrates
    <3> HIDE DEF done
    <3> QED
      BY <2>1, <3>1, <3>2, <3>3 DEF StagedInv
  <2> QED
    BY <2>2, <2>3
<1>5. CASE Links \/ Starts \/ SettlesNot
  <2>1. /\ Kept /\ thread'.blocks = thread.blocks /\ run'.done = run.done /\ run.pc # "idle"
        /\ run'.pc \notin {"verify", "finish"}
    BY <1>5, KeptSteps DEF Links, Starts, SettlesNot
  <2> QED
    BY <2>1 DEF StagedInv, Kept
<1>6. CASE Leaves
  <2>1. Kept /\ thread'.blocks = thread.blocks /\ run'.pc = "idle"
    BY <1>6, KeptSteps, NewRunFacts DEF Leaves
  <2> QED
    BY <2>1 DEF StagedInv, Kept
<1>7. CASE Intends
  <2>1. /\ grammar'.completed = grammar.completed /\ reader'.completed = reader.completed
        /\ UNCHANGED <<thread, torn>> /\ run'.done = run.done /\ run.pc # "idle"
        /\ run'.pc \notin {"verify", "finish"}
    BY <1>7, IntendsFacts DEF Intends
  <2> QED
    BY <2>1 DEF StagedInv
<1>8. CASE Invokes
  <2>1. /\ UNCHANGED <<grammar, reader, thread, torn>> /\ run'.done = run.done /\ run.pc # "idle"
        /\ run'.pc \notin {"verify", "finish"}
    BY <1>8 DEF Invokes
  <2> QED
    BY <2>1 DEF StagedInv
<1>9. CASE Stages
  <2>1. /\ Kept /\ run'.done = run.done /\ run.pc = "stage" /\ run' \in Runs
        /\ thread'.blocks = Append(run.done, Record(run'.status))
    BY <1>9, KeptSteps DEF Stages, Types
  <2>2. run'.status \in BlockStatus
    BY <2>1 DEF Runs
  <2>3. Record(run'.status) \in Records
    BY <1>r, <2>2
  <2>4. Hydrates(run.done, grammar.completed) => Hydrates(thread'.blocks, grammar.completed)
    BY <1>t, <2>1, <2>3, HydratesAppend
  <2>5. Record(run.status)' = Record(run'.status)
    BY <2>1 DEF Record, Attempt, Ordinal, Kept
  <2> QED
    BY <2>1, <2>4, <2>5 DEF StagedInv, Kept
<1>10. CASE Settles
  <2>1. /\ Kept /\ run'.done = run.done /\ run.pc = "settle" /\ run'.pc = "close"
        /\ thread'.blocks \in {run.done, Append(run.done, Record(run.status))}
    BY <1>10, KeptSteps DEF Settles, Persisted
  <2>2. Hydrates(run.done, grammar.completed) => Hydrates(thread'.blocks, grammar.completed)
    BY <1>r, <1>t, <2>1, HydratesAppend
  <2> QED
    BY <2>1, <2>2 DEF StagedInv, Kept
<1>11. CASE Finishes
  <2> DEFINE complete == run.status = "complete"
             moves == complete /\ ~grammar.gap /\ Ordinal = Len(grammar.completed)
             b == [at |-> <<Ordinal, grammar.session>>, ws |-> ws]
             x == Record(run.status)
  <2>1. run.pc = "finish" /\ thread' = thread /\ thread.blocks = Append(run.done, x) /\ x \in Records
    BY <1>11, <1>r, <1>t DEF Finishes, StagedInv
  <2>2. run'.pc \in {"start", "settle"}
    BY <1>11 DEF Finishes
  <2>3. SUFFICES ASSUME torn' = {}, reader'.completed = grammar'.completed
                 PROVE  Hydrates(thread.blocks, grammar'.completed) /\ Hydrates(run'.done, grammar'.completed)
    BY <2>1, <2>2 DEF StagedInv
  <2>4. complete \in BOOLEAN /\ Ordinal < Blocks
    BY <2>1 DEF LeaseInv, BlockPhases
  <2>5. torn = {} /\ reader.completed = grammar.completed
    <3>1. torn = {}
      BY <1>11, <2>3 DEF Finishes
    <3>2. CASE UNCHANGED <<grammar, reader>>
      BY <2>3, <3>1, <3>2
    <3>3. CASE Stored(complete)
      BY <2>3, <2>4, <3>1, <3>3, ReadersFinish
    <3> QED
      BY <1>11, <3>2, <3>3 DEF Finishes
  <2>6. Hydrates(thread.blocks, grammar.completed) /\ Hydrates(run.done, grammar.completed)
    BY <2>1, <2>5 DEF StagedInv
  <2>7. CASE Stored(complete) /\ run'.done = Append(run.done, x)
    <3>1. FinishedAs(grammar, Ordinal, complete, ws, grammar')
      BY <2>4, <2>7, StoredFacts
    <3>2. /\ moves => grammar'.completed = Append(grammar.completed, b)
          /\ ~moves => grammar'.completed = grammar.completed
      BY <3>1 DEF FinishedAs
    <3>3. CASE ~moves
      BY <1>t, <2>1, <2>6, <2>7, <3>2, <3>3, HydratesAppend
    <3>4. CASE moves
      <4>1. Ordinal \in Nat /\ ws \in Nat
        BY NameFacts, Bounds DEF Types
      <4>2. grammar.session \in Int
        BY Defaults DEF Types, Grammars
      <4>3. b \in Boundaries /\ b.at = Attempt
        BY <4>1, <4>2 DEF Boundaries, Attempts, Attempt
      <4>4. x = [at |-> b.at, status |-> "complete"] /\ Len(run.done) = Len(grammar.completed)
        BY <3>4, <4>3 DEF Record, Ordinal
      <4>5. grammar'.completed = Append(grammar.completed, b)
        BY <3>2, <3>4
      <4> HIDE DEF b, x, moves, complete
      <4> QED
        BY <1>t, <2>1, <2>6, <2>7, <4>3, <4>4, <4>5, HydratesAppend
    <3> QED
      BY <3>3, <3>4
  <2>8. CASE run'.done = run.done /\ torn' = IF reader' # reader THEN torn \cup {Attempt} ELSE torn
    <3>1. reader' = reader
      BY <2>3, <2>8
    <3>2. grammar'.completed = grammar.completed
      BY <2>3, <2>5, <3>1
    <3> QED
      BY <2>6, <2>8, <3>2
  <2> QED
    BY <1>11, <2>7, <2>8 DEF Finishes
<1> QED
  BY <1>1, <1>2, <1>3, <1>4, <1>5, <1>6, <1>7, <1>8, <1>9, <1>10, <1>11 DEF Outline

LEMMA OutlineTypes == Outline => Types'
BY DEF Outline, Creates, Asks, Resumes, Links, Leaves, Starts, Intends, Invokes, Stages, Finishes,
   Settles, SettlesNot

\* Before the first run.
LEMMA InitIInv == Init => IInv
<1> SUFFICES ASSUME Init PROVE IInv
  OBVIOUS
<1>1. /\ grammar = NoJournal /\ reader = NewReader /\ run = NoRun /\ ws = 0 /\ faults = 0
      /\ thread = [status |-> "none", blocks |-> <<>>] /\ asked = [blocks |-> <<>>, ws |-> None]
      /\ touched = {} /\ torn = {}
  BY DEF Init, NotAsked
<1>2. /\ grammar.session = None /\ grammar.active = None /\ grammar.mutating = {} /\ grammar.completed = <<>>
      /\ grammar.next = 0 /\ grammar.gap = FALSE /\ grammar.terminal = FALSE
  BY <1>1 DEF NoJournal, NewGrammar
<1>3. reader.completed = <<>> /\ reader.mutating = {} /\ reader.status = "open" /\ reader \in Readers
  BY <1>1, Defaults DEF NewReader, Readers
<1>4. run \in Runs /\ run.pc = "idle" /\ run.done = <<>> /\ Len(run.done) = 0
  BY <1>1, NewRunFacts
<1>5. Types
  <2>1. thread \in [status : BlockStatus \cup {"queued", "running"}, blocks : DoneSeqs]
    BY <1>1, Names, NewRunFacts
  <2>2. asked \in [blocks : DoneSeqs, ws : Int]
    BY <1>1, Defaults, NewRunFacts
  <2>3. ws \in 0..MaxEdits /\ faults \in 0..MaxFaults
    BY <1>1, Bounds
  <2> QED
    BY <1>1, <1>3, <1>4, <2>1, <2>2, <2>3, NewGrammarType DEF Types
<1>6. LeaseInv
  BY <1>1, <1>2, <1>4, Bounds DEF LeaseInv, Exists, Ordinal, BlockPhases, InBlock
<1>7. ReadersInv
  <2>1. Len(grammar.completed) = 0
    BY <1>2
  <2>2. grammar.gap = (grammar.next > Len(grammar.completed))
    <3>1. (grammar.next > Len(grammar.completed)) = FALSE
      BY <1>2, <2>1
    <3> QED
      BY <1>2, <3>1
  <2> QED
    BY <1>2, <1>3, <1>4, <2>1, <2>2, Bounds DEF ReadersInv
<1>8. CallsInv
  BY <1>4 DEF CallsInv, CallsOK
<1>9. TouchedInv
  BY <1>1, <1>2 DEF TouchedInv, LastWorkspace
<1>10. BackedInv
  BY <1>1, <1>3, <1>4 DEF BackedInv, Completed
<1>11. StagedInv
  BY <1>1, <1>2, <1>4 DEF StagedInv, Hydrates
<1> QED
  BY <1>5, <1>6, <1>7, <1>8, <1>9, <1>10, <1>11 DEF IInv

\* The inductive invariant of the pipeline.
THEOREM Invariance == Spec => []IInv
<1>1. IInv /\ [Next]_vars => IInv'
  <2> SUFFICES ASSUME IInv, [Next]_vars PROVE IInv'
    OBVIOUS
  <2>1. Outline
    BY StepOutline DEF IInv
  <2> QED
    BY <2>1, OutlineTypes, LeaseStep, ReadersStep, CallsStep, TouchedStep, BackedStep, StagedStep DEF IInv
<1> QED
  BY <1>1, InitIInv, PTL DEF Spec

LEMMA TypeOKHolds == IInv => TypeOK
<1> SUFFICES ASSUME IInv PROVE TypeOK
  OBVIOUS
<1>1. Leased = (run # NoRun)
  BY NewRunFacts DEF IInv, LeaseInv, Leased
<1>2. run.pc \in Phases /\ run.status \in BlockStatus /\ Len(run.done) <= Blocks
  BY DEF IInv, Types, Runs, LeaseInv, Ordinal
<1>3. /\ grammar.session \in None..MaxResumes /\ grammar.mutating \subseteq 0..(Blocks - 1)
      /\ reader.status \in BlockStatus \cup {"open"}
  BY DEF IInv, Types, Grammars, Readers, Sessions, OrdinalSets
<1>4. thread.status \in BlockStatus \cup {"queued", "running"} /\ ws \in 0..MaxEdits /\ faults \in 0..MaxFaults
  BY DEF IInv, Types
<1> QED
  BY <1>1, <1>2, <1>3, <1>4 DEF TypeOK

\* A run is resumed only over mutations that lie behind a verified block: whatever
\* was lost between the intent, the call, the result and the boundary, no session
\* repeats a mutating call of an earlier one.
THEOREM NothingReplayedTheorem == Spec => []NothingReplayed
<1>1. IInv => NothingReplayed
  BY TypeOKHolds DEF IInv, TouchedInv, NothingReplayed
<1> QED
  BY <1>1, Invariance, PTL

\* A run that its thread or its journal calls complete is verified to its last
\* block by both readers, and every mutation it invoked lies behind a boundary.
THEOREM CompletionBackedTheorem == Spec => []CompletionBacked
<1>1. IInv => CompletionBacked
  BY DEF IInv, BackedInv, Completed, Backed, CompletionBacked
<1> QED
  BY <1>1, Invariance, PTL

\* A run that resume_state() calls resumable can be resumed, but for the three
\* cases that ResumeWorks names.
THEOREM ResumeWorksTheorem == Spec => []ResumeWorks
<1>1. IInv => ResumeWorks
  <2> SUFFICES ASSUME IInv, ~Leased, thread.status # "none", CanResume(reader),
                      grammar.round = NoRound, IntentsClosed(grammar),
                      reader.completed = grammar.completed, torn = {}
               PROVE  /\ Valid([blocks |-> thread.blocks, ws |-> ws])
                      /\ MayResume(grammar, Len(reader.completed), LastVerified(reader.completed))
    BY DEF ResumeWorks
  <2>1. reader.status = "open" /\ reader.mutating = {}
    BY DEF CanResume, Uncertain
  <2>2. grammar.mutating = {} /\ Open(grammar)
    BY <2>1 DEF IInv, ReadersInv, LeaseInv, Open
  <2>3. ws = LastWorkspace(reader.completed)
    BY <2>2 DEF IInv, TouchedInv
  <2>4. Hydrates(thread.blocks, reader.completed)
    BY DEF IInv, StagedInv
  <2>5. MayResume(grammar, Len(reader.completed), LastVerified(reader.completed))
    BY <2>2 DEF MayResume
  <2> QED
    BY <2>3, <2>4, <2>5 DEF Valid
<1> QED
  BY <1>1, Invariance, PTL
=============================================================================
