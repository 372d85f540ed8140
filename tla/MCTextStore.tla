---------------------------- MODULE MCTextStore ----------------------------
(* Two buffers that share four descriptors, whose names are symmetric. *)
EXTENDS TextStore, TLC
CONSTANTS b1, b2, x, d1, d2, d3, d4
MCStrings == {<<>>, <<x>>}
AnyHeap == Permutations(Descs)
=============================================================================
