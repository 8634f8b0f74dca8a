----------------------------- MODULE EventStore ------------------------------
(***************************************************************************)
(* The private, retention-bounded JSONL store:                             *)
(* algo_cli/ada_private_event_store.py (PrivateEventStore).                *)
(*                                                                         *)
(* A call is admitted by the gate of its process (module AdmissionGate),   *)
(* so a worker here is a process with its one admitted thread; it takes    *)
(* the advisory lock of the sidecar file.  append() closes a torn tail     *)
(* with a newline, writes the record, fsyncs, scans the file and, when     *)
(* anything has to go, replaces it atomically.  The file is a sequence of  *)
(* lines; "whole" says that the line decodes, "ended" that the last byte   *)
(* of the file is a newline.  A power loss falls back to what was fsynced. *)
(***************************************************************************)
EXTENDS Naturals, Sequences, FiniteSets

CONSTANTS Workers,     \* the cooperating processes
          NoWorker,
          Events,      \* the events callers append, each at most once
          NoEvent,
          Kinds,       \* the other operations that are called
          SizeOf,      \* SizeOf[e]: the length of the encoded event
          MaxRecords, MaxBytes, MaxAge,   \* RetentionPolicy
          MaxLines,    \* bound: nothing is appended to a file with that many lines
          Times        \* what the wall clock may read

ASSUME NamesAssumption == NoWorker \notin Workers /\ NoEvent \notin Events
ASSUME KindsAssumption == Kinds \subseteq {"compact", "read"}
ASSUME PolicyAssumption == /\ MaxRecords \in Nat \ {0} /\ MaxAge \in Nat \ {0}
                           /\ MaxBytes \in Nat /\ SizeOf \in [Events -> 1..MaxBytes]
                           /\ Times \subseteq Nat

VARIABLES pc,        \* where a worker is in its call
          call,      \* call[w]: the operation, the event it appends, the clock
                     \* as read when it began, and what it is about to report
          flock,     \* holder of the advisory lock on the sidecar
          file,      \* the lines of the store as the processes read them
          ended,     \* the file is empty or ends with a newline
          disk,      \* <<file, ended>> as last fsynced
          acked,     \* history: events whose append() returned
          order,     \* history: the lines that became readable, in order
          purged     \* history: the lines retention removed

ctl   == <<pc, call, flock>>
store == <<file, ended, disk>>
hist  == <<acked, order, purged>>
vars  == <<ctl, store, hist>>

Line == [id : Events \cup {NoEvent}, at : Nat, whole : BOOLEAN]

\* A line that does not decode.
Torn == [id |-> NoEvent, at |-> 0, whole |-> FALSE]

NoCall == [op |-> "none", ev |-> NoEvent, now |-> 0, verdict |-> "none"]

Init ==
    /\ pc = [w \in Workers |-> "idle"]
    /\ call = [w \in Workers |-> NoCall]
    /\ flock = NoWorker
    /\ file = <<>> /\ ended = TRUE /\ disk = <<file, ended>>
    /\ acked = {} /\ order = <<>> /\ purged = {}

Goto(w, l) == pc' = [pc EXCEPT ![w] = l]

-----------------------------------------------------------------------------
(* The sidecar lock: _locked() *)

\* append(), compact() or read_records() reads the clock, which may stand
\* anywhere, before it waits: stored_at is this reading.
Call(w, kind, e, t) ==
    /\ pc[w] = "idle"
    /\ kind = "append" <=> e # NoEvent
    /\ e \in Events => /\ Len(file) < MaxLines
                       /\ \A v \in Workers : call[v].ev # e
                       /\ \A i \in DOMAIN order : order[i].id # e
    /\ call' = [call EXCEPT ![w] = [op |-> kind, ev |-> e, now |-> t, verdict |-> "none"]]
    /\ Goto(w, "flock")
    /\ UNCHANGED <<flock, store, hist>>

\* The call returns or raises.
End(w) ==
    /\ call' = [call EXCEPT ![w] = NoCall]
    /\ Goto(w, "idle")

TakeFlock(w) ==
    /\ pc[w] = "flock"
    /\ flock = NoWorker
    /\ flock' = w
    /\ Goto(w, IF call[w].op = "append" THEN "write" ELSE "scan")
    /\ UNCHANGED <<call, store, hist>>

\* The lock file cannot be opened, or the flock wait passed its deadline.
FlockFails(w) ==
    /\ pc[w] = "flock"
    /\ End(w)
    /\ UNCHANGED <<flock, store, hist>>

-----------------------------------------------------------------------------
(* append(): _needs_separator() and _append_bytes() *)

Record(w) == [id |-> call[w].ev, at |-> call[w].now, whole |-> TRUE]

\* What the file holds once a line is added behind its last byte: without a
\* separator a torn tail and the new line are one line that does not decode.
WriteLine(l, separator) ==
    file' = IF ended \/ separator THEN Append(file, l)
            ELSE [file EXCEPT ![Len(file)] = Torn]

Readable(l) == [id |-> l.id, at |-> l.at]

\* Seeded fault: a torn tail is not closed before the record is appended.
WriteUnseparated(w) ==
    /\ pc[w] = "write"
    /\ WriteLine(Record(w), FALSE)
    /\ ended' = TRUE
    /\ order' = Append(order, Readable(Record(w)))
    /\ Goto(w, "sync")
    /\ UNCHANGED <<call, flock, disk, acked, purged>>

Write(w) ==
    /\ pc[w] = "write"
    /\ WriteLine(Record(w), ~ended)
    /\ ended' = TRUE
    /\ order' = Append(order, Readable(Record(w)))
    /\ Goto(w, "sync")
    /\ UNCHANGED <<call, flock, disk, acked, purged>>

\* os.write() fails or the process dies part way: nothing but the separator,
\* a torn line, or the whole record without its newline was written.
WriteTorn(w, whole) ==
    /\ pc[w] = "write"
    /\ WriteLine(IF whole THEN Record(w) ELSE Torn, ~ended)
    /\ ended' = FALSE
    /\ order' = IF whole THEN Append(order, Readable(Record(w))) ELSE order
    /\ call' = [call EXCEPT ![w].verdict = "raise"]
    /\ Goto(w, "unlock")
    /\ UNCHANGED <<flock, disk, acked, purged>>

WriteNothing(w) ==
    /\ pc[w] = "write"
    /\ ended' \in {ended, TRUE}
    /\ call' = [call EXCEPT ![w].verdict = "raise"]
    /\ Goto(w, "unlock")
    /\ UNCHANGED <<flock, file, disk, hist>>

Sync(w) ==
    /\ pc[w] = "sync"
    /\ disk' = <<file, ended>>
    /\ Goto(w, "scan")
    /\ UNCHANGED <<call, flock, file, ended, hist>>

\* os.fsync() raises: the record stays in the page cache.
SyncFails(w) ==
    /\ pc[w] = "sync"
    /\ call' = [call EXCEPT ![w].verdict = "raise"]
    /\ Goto(w, "unlock")
    /\ UNCHANGED <<flock, store, hist>>

-----------------------------------------------------------------------------
(* _scan(), _atomic_replace() and the result *)

BytesOf(q) ==
    LET sum[n \in 0..Len(q)] == IF n = 0 THEN 0 ELSE sum[n - 1] + SizeOf[q[n].id]
    IN  sum[Len(q)]

Within(q) == Len(q) <= MaxRecords /\ BytesOf(q) <= MaxBytes

Without(q, n) == SubSeq(q, n + 1, Len(q))

\* The loop that drops records from the left of the deque while it is over a
\* bound: the least number that has to go, goes.
Trim(q) ==
    LET n == CHOOSE i \in 0..Len(q) :
                 Within(Without(q, i)) /\ \A j \in 0..(i - 1) : ~Within(Without(q, j))
    IN  Without(q, n)

\* _scan(): the lines to keep, at time t.
Keeps(l, t) == l.whole /\ l.at + MaxAge >= t

Scan(t) ==
    LET kept[n \in 0..Len(file)] ==
            IF n = 0 THEN <<>>
            ELSE IF Keeps(file[n], t) THEN Trim(Append(kept[n - 1], file[n]))
            ELSE kept[n - 1]
    IN  kept[Len(file)]

Whole(f) == {i \in DOMAIN f : f[i].whole}

\* Seeded fault: malformed lines alone do not ask for a compaction.
CompactionNeededDropsOnly(t) ==
    Len(Scan(t)) # Cardinality(Whole(file))

\* A line is malformed or dropped, or the bytes differ (a missing newline).
CompactionNeeded(t) == ~ended \/ Len(Scan(t)) # Len(file)

LinesOf(q) == {Readable(q[i]) : i \in Whole(q)}

\* Nothing to compact (or a read): the call reports success.
Keep(w) ==
    /\ pc[w] = "scan"
    /\ call[w].op = "read" \/ ~CompactionNeeded(call[w].now)
    /\ call' = [call EXCEPT ![w].verdict = "ok"]
    /\ Goto(w, "unlock")
    /\ UNCHANGED <<flock, store, hist>>

\* Seeded fault: the kept lines overwrite the file in place, without truncation.
ReplaceUntruncated(w) ==
    /\ pc[w] = "scan"
    /\ call[w].op # "read" /\ CompactionNeeded(call[w].now)
    /\ LET kept == Scan(call[w].now)
       IN  file' = kept \o SubSeq(file, Len(kept) + 1, Len(file))
    /\ ended' = TRUE
    /\ purged' = purged \cup (LinesOf(file) \ LinesOf(file'))
    /\ call' = [call EXCEPT ![w].verdict = "ok"]
    /\ Goto(w, "dirsync")
    /\ UNCHANGED <<flock, disk, acked, order>>

\* os.replace() of the compacted file.
Replace(w) ==
    /\ pc[w] = "scan"
    /\ call[w].op # "read" /\ CompactionNeeded(call[w].now)
    /\ file' = Scan(call[w].now)
    /\ ended' = TRUE
    /\ purged' = purged \cup (LinesOf(file) \ LinesOf(file'))
    /\ call' = [call EXCEPT ![w].verdict = "ok"]
    /\ Goto(w, "dirsync")
    /\ UNCHANGED <<flock, disk, acked, order>>

\* _fsync_directory().  Its errors are ignored, for the file systems that do
\* not support it; there the replacement is taken to be durable as it is.
DirSync(w) ==
    /\ pc[w] = "dirsync"
    /\ disk' = <<file, ended>>
    /\ Goto(w, "unlock")
    /\ UNCHANGED <<call, flock, file, ended, hist>>

\* The replacement failed: append() keeps the record and reports success
\* with an error type; compact() raises.
ReplaceFails(w) ==
    /\ pc[w] = "scan"
    /\ call[w].op # "read" /\ CompactionNeeded(call[w].now)
    /\ call' = [call EXCEPT ![w].verdict = IF call[w].op = "append" THEN "unsatisfied" ELSE "raise"]
    /\ Goto(w, "unlock")
    /\ UNCHANGED <<flock, store, hist>>

\* The file cannot be read back: _scan() raises, outside any handler.
ScanFails(w) ==
    /\ pc[w] = "scan"
    /\ call' = [call EXCEPT ![w].verdict = "raise"]
    /\ Goto(w, "unlock")
    /\ UNCHANGED <<flock, store, hist>>

\* The finally clauses of _locked(); the caller gets the result.
Unlock(w) ==
    /\ pc[w] = "unlock"
    /\ flock' = NoWorker
    /\ acked' = IF call[w].op = "append" /\ call[w].verdict # "raise"
                THEN acked \cup {call[w].ev} ELSE acked
    /\ End(w)
    /\ UNCHANGED <<store, order, purged>>

-----------------------------------------------------------------------------
(* The environment *)

\* The processes of ws die; the operating system drops their file lock.
Kill(ws) ==
    /\ pc' = [w \in Workers |-> IF w \in ws THEN "idle" ELSE pc[w]]
    /\ call' = [w \in Workers |-> IF w \in ws THEN NoCall ELSE call[w]]
    /\ flock' = IF flock \in ws THEN NoWorker ELSE flock
    /\ UNCHANGED hist

Crash(w) == Kill({w}) /\ UNCHANGED store

\* What was not fsynced may be lost.
PowerLoss ==
    /\ Kill(Workers)
    /\ disk' \in {disk, <<file, ended>>}
    /\ file' = disk'[1] /\ ended' = disk'[2]

-----------------------------------------------------------------------------

Step(w) ==
    \/ TakeFlock(w) \/ FlockFails(w)
    \/ Write(w) \/ WriteNothing(w) \/ \E whole \in BOOLEAN : WriteTorn(w, whole)
    \/ Sync(w) \/ SyncFails(w)
    \/ Keep(w) \/ Replace(w) \/ DirSync(w) \/ ReplaceFails(w) \/ ScanFails(w)
    \/ Unlock(w)

Next ==
    \/ \E w \in Workers, t \in Times :
           \/ \E e \in Events : Call(w, "append", e, t)
           \/ \E kind \in Kinds : Call(w, kind, NoEvent, t)
    \/ \E w \in Workers : Step(w)
    \/ \E w \in Workers : Crash(w)
    \/ PowerLoss

Spec == Init /\ [][Next]_vars

-----------------------------------------------------------------------------
(* Properties *)

InStore == {"write", "sync", "scan", "dirsync", "unlock"}

\* Type invariant; only the holder of the sidecar lock is inside the store.
TypeOK ==
    /\ pc \in [Workers -> {"idle", "flock"} \cup InStore]
    /\ call \in [Workers -> [op : {"none", "append", "compact", "read"},
                             ev : Events \cup {NoEvent}, now : Nat,
                             verdict : {"none", "ok", "unsatisfied", "raise"}]]
    /\ flock \in Workers \cup {NoWorker}
    /\ file \in Seq(Line)
    /\ ended \in BOOLEAN
    /\ disk \in Seq(Line) \X BOOLEAN
    /\ acked \subseteq Events
    /\ order \in Seq([id : Events, at : Nat])
    /\ \A w \in Workers : pc[w] \in InStore <=> flock = w

\* Every whole line of a file has its place in the order of writing, before
\* that of the lines behind it.
Listed(f, o) ==
    \A i \in Whole(f) : \E a \in DOMAIN o :
        /\ o[a] = Readable(f[i])
        /\ \A k \in Whole(f) : i < k => \E b \in DOMAIN o : a < b /\ o[b] = Readable(f[k])

\* The store is well formed: no event is written twice, and the readable lines are in
\* the order in which they were written, none twice, whatever was torn, compacted or
\* lost in between.
InOrder ==
    /\ TypeOK
    /\ \A a, b \in DOMAIN order : order[a].id = order[b].id => a = b
    /\ Listed(file, order)

\* retention_satisfied in the result of append() or compact() is true of the
\* file as it is when the lock is given up: whole, terminated, unexpired lines
\* within both bounds.
VerdictHolds ==
    \A w \in Workers :
        pc[w] = "unlock" /\ call[w].op # "read" /\ call[w].verdict = "ok" =>
            /\ ended
            /\ \A i \in DOMAIN file : Keeps(file[i], call[w].now)
            /\ Within(file)

\* Two processes that append, compact, crash and lose power implement the
\* durable log: no acknowledged event is lost except to retention, and the
\* one-pass deque of _scan() keeps the longest newest suffix that fits.
Promise == INSTANCE DurableLog WITH live <- LinesOf(file)

ImplementsLog == Promise!DSpec
=============================================================================
