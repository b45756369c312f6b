------------------------------ MODULE MCPipeline ------------------------------
(* Small instances of Pipeline for TLC.                                    *)
EXTENDS Pipeline

CONSTANTS s1, c1, A, B
=============================================================================
