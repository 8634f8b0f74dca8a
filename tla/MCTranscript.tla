---------------------------- MODULE MCTranscript -----------------------------
(* Values for Transcript: the provider sends no id, or the very id we would  *)
(* make up for the second call of the first turn's first reply.              *)
EXTENDS Transcript

Ours == {<<1, 1, 1, 0>>}
NoIdValue == <<0, 0, 0, 0>>
=============================================================================
