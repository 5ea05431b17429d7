----------------------------- MODULE MCPipeline -----------------------------
(* TLC instances of Pipeline.                                              *)
EXTENDS Pipeline

MCOneName == <<"file">>
MCDistinctNames == <<"file", "tcp">>
=============================================================================
