------------------------ MODULE MCSourceOccurrences ------------------------
(* Instance of SourceOccurrences for TLC.                                  *)
EXTENDS SourceOccurrences

(* Samples are bounded and have as many rows as each other.                *)
SampleRows == [v \in Contents |-> 1]
=============================================================================
