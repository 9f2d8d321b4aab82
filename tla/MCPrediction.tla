----------------------------- MODULE MCPrediction -----------------------------
(* Instances of Prediction; a cfg has no negative numbers. *)
EXTENDS Prediction

MCUninitLatencies == {-3, 0, 20}
MCBufferDeltas == {-4, -1, 1, 3}
================================================================================
