---------------------------- MODULE MCFrameCache ----------------------------
(***************************************************************************)
(* An instance of FrameCache for TLC: two sources that share three workers,  *)
(* one file shorter than the cache and one that refills it.                *)
(***************************************************************************)
EXTENDS FrameCache, TLC

CONSTANTS h264, aac

MCSources == {h264, aac}
MCFileFrames == (h264 :> 5) @@ (aac :> 2)
=============================================================================
