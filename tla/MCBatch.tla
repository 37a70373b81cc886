------------------------------- MODULE MCBatch -------------------------------
(* Two Pipelines: the first has a pas.toml with extensions, the second pi. *)
EXTENDS Batch

MCFiles == <<"one", "two">>
=============================================================================
