----------------------------- MODULE MCE5Assembly -----------------------------
(* Small values for E5Assembly: three parts of different sizes.            *)
EXTENDS E5Assembly

MCEnd == [p \in 0..NumParts |-> <<0, 2, 3, 5>>[p + 1]]
MCLeftovers == {<<>>, <<0, 0, 0>>}
MCOldStates == {<<2>>}
AnyOldIndex == {<<>>, Index, <<0, 0>>}
=============================================================================
