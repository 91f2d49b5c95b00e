----------------------------- MODULE MCPipeline -----------------------------
(* MissionPipeline with its two workers: the displays, whose handle() may     *)
(* hang, and the archive.                                                     *)
EXTENDS MissionPipeline

CONSTANTS broadcast, storage
=============================================================================
