------------------------- MODULE MCNumberedEvaluation -------------------------
(* Small values for NumberedEvaluation: three episodes whose order in the  *)
(* final file is not the order of their keys.                              *)
EXTENDS NumberedEvaluation

MCOrder == <<2, 3, 1>>
=============================================================================
