----------------------------- MODULE MCPipeline -----------------------------
(* Pipeline; the runs differ in their bounds and in what they check. *)
EXTENDS Pipeline
=============================================================================
