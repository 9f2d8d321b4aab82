-------------------------------- MODULE MCRating --------------------------------
(* Instances of QualityRating; a cfg has no negative numbers. *)
EXTENDS QualityRating

MCLatencies == {-1, 1, 5, 10}
================================================================================
