------------------------ MODULE MC_CapturePipeline ------------------------
(* Small instances of CapturePipeline for TLC: more frames than buffers,   *)
(* and a pool that starts smaller than the traffic needs.                  *)
EXTENDS CapturePipeline, TLC

CONSTANTS w1, w2, b1, b2, b3, b4, f1, f2

MCInitial == <<b1, b2>>

WorkerSymmetry == Permutations(Workers)
=============================================================================
