---------------------------- MODULE AnchoredChain ----------------------------
(***************************************************************************)
(* What the receipts of the control runtime promise, whoever executes,     *)
(* recovers, crashes or reads an old chain: one chain that only grows, in  *)
(* which an effect is settled once and an unknown outcome may be settled   *)
(* later; an external head that only moves forward along the chain; and no *)
(* receipt in a caller's hands that the head does not cover.               *)
(***************************************************************************)
EXTENDS Naturals, Sequences

VARIABLES chain,   \* the receipts, [permit, version, state]
          head,    \* how much of the chain is anchored outside
          told     \* the newest receipt that a caller holds

Final == {"verified", "failed"}

ChainInit == chain = <<>> /\ head = 0 /\ told = 0

\* A receipt follows the earlier ones of its effect, which were all "unknown".
Extend(r) ==
    /\ \A i \in 1..Len(chain) :
           chain[i].permit = r.permit =>
               chain[i].state \notin Final /\ chain[i].version < r.version
    /\ chain' = Append(chain, r)
    /\ UNCHANGED <<head, told>>

Publish ==
    /\ head' \in (head + 1)..Len(chain)
    /\ UNCHANGED <<chain, told>>

Tell ==
    /\ told' \in (told + 1)..head
    /\ UNCHANGED <<chain, head>>

ChainNext ==
    \/ Len(chain') = Len(chain) + 1 /\ Extend(chain'[Len(chain')])
    \/ Publish
    \/ Tell

ChainSpec == ChainInit /\ [][ChainNext]_<<chain, head, told>>
=============================================================================
