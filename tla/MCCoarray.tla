----------------------------- MODULE MCCoarray -----------------------------
(* Small instance of XmpfCoarray; the coarrays of modules are              *)
(* interchangeable, and so are the local coarrays of the procedures.       *)
EXTENDS XmpfCoarray, TLC

Names == Permutations(Saved) \cup Permutations(Local)
=============================================================================
