------------------------------- MODULE MCMau -------------------------------
(* Instances of Mau for TLC.                                                *)
EXTENDS Mau, TLC

CONSTANTS m1, m2, m3, m4, p, q

Descriptors == {m1, m2, m3, m4}
Three == {m1, m2, m3}
Owners == {p, q}
NoAbs == {}
AllAbs == Base .. Base + Length - 1
Symmetry == Permutations(Descriptors) \cup Permutations(Owners)
=============================================================================
