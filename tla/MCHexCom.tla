------------------------------ MODULE MCHexCom ------------------------------
(* Bytes of two bits: an address space of sixteen, records of two bytes and    *)
(* windows of four.  Files of up to three records.                            *)
EXTENDS HexCom
Rec(a, t, d) == [addr |-> a, tt |-> t, data |-> d]
Records == {Rec(a, 0, d) : a \in {1, 2, 5, 13, 15}, d \in {<<2>>, <<1, 3, 1>>}}
             \cup {Rec(0, 1, <<>>), Rec(0, 0, <<>>), Rec(0, 2, <<1>>)}
Few == {Rec(2, 0, <<1, 3, 1>>), Rec(5, 0, <<2>>), Rec(11, 0, <<3, 2>>), Rec(0, 1, <<>>)}
MCHexFiles == [1 .. 2 -> Records] \cup [1 .. 3 -> Few] \cup {<<>>}
MCDigits == {0, 1}
=============================================================================
