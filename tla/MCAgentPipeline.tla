--------------------------- MODULE MCAgentPipeline ---------------------------
(* Small instances of AgentPipeline; the configurations give the constants. *)
EXTENDS AgentPipeline

\* A read; and a read and a mutation, in either order.
MCBatches == {<<FALSE>>, <<FALSE, TRUE>>, <<TRUE, FALSE>>}

\* One call at a time.
MCSingle == {<<FALSE>>, <<TRUE>>}
=============================================================================
