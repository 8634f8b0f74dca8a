----------------------------- MODULE DurableLog ------------------------------
(***************************************************************************)
(* What the private event store (algo_cli/ada_private_event_store.py)      *)
(* promises its callers: an acknowledged event stays in the log, in the    *)
(* order of its insertion, until retention purges it; retention keeps the  *)
(* longest newest suffix of the unexpired events that fits the bounds; an  *)
(* append that was not acknowledged may or may not be in the log.          *)
(***************************************************************************)
EXTENDS Naturals, Sequences, FiniteSets

CONSTANTS Events,      \* the events callers append, each at most once
          SizeOf,      \* SizeOf[e]: the encoded size of an event
          MaxRecords, MaxBytes, MaxAge,   \* RetentionPolicy
          Times        \* what the wall clock may read

VARIABLES order,       \* the entries ever inserted, each with its time, in order of insertion
          live,        \* the entries that are in the log
          acked,       \* the events whose append was acknowledged
          purged       \* the entries retention removed

dvars == <<order, live, acked, purged>>

\* The positions of the entries in the log that have not expired.
Fresh(now) == {k \in DOMAIN order : order[k] \in live /\ order[k].at + MaxAge >= now}

\* The size of the entries at a set of positions.
Size(S) ==
    LET sum[n \in 0..Len(order)] ==
            IF n = 0 THEN 0 ELSE sum[n - 1] + (IF n \in S THEN SizeOf[order[n].id] ELSE 0)
    IN  sum[Len(order)]

Fits(S) == Cardinality(S) <= MaxRecords /\ Size(S) <= MaxBytes

From(S, k) == {j \in S : j >= k}

DInit == order = <<>> /\ live = {} /\ acked = {} /\ purged = {}

Insert(l) ==
    /\ \A i \in DOMAIN order : order[i].id # l.id
    /\ order' = Append(order, l)
    /\ live' = live \cup {l}
    /\ UNCHANGED <<acked, purged>>

Acknowledge(e) ==
    /\ \E l \in live \cup purged : l.id = e
    /\ acked' = acked \cup {e}
    /\ UNCHANGED <<order, live, purged>>

\* Retention as of some reading of the clock: an unexpired entry stays if it and
\* the newer ones fit.
Retain(now) ==
    /\ live' = {order[k] : k \in {j \in Fresh(now) : Fits(From(Fresh(now), j))}}
    /\ purged' = purged \cup (live \ live')
    /\ UNCHANGED <<order, acked>>

\* A power loss takes only what was never acknowledged, and may undo a purge.
PowerCut ==
    /\ live' \in SUBSET (live \cup purged)
    /\ {l \in live : l.id \in acked /\ l \notin purged} \subseteq live'
    /\ UNCHANGED <<order, acked, purged>>

DNext ==
    \/ \E e \in Events, t \in Times : Insert([id |-> e, at |-> t])
    \/ \E e \in Events : Acknowledge(e)
    \/ \E now \in Times : Retain(now)
    \/ PowerCut

DSpec == DInit /\ [][DNext]_dvars
=============================================================================
