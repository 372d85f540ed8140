----------------------------- MODULE MCConsole -----------------------------
(* Instances of Console for TLC: a screen and a printer, the command        *)
(* processor tmp, two programs of one priority and the input process pin.   *)
EXTENDS Console, TLC

CONSTANTS pin, tmp, a, b, crt, lpt

Procs == {pin, tmp, a, b}
Screens == {crt}
Printers == {lpt}
Cns == [p \in Proc |-> crt]
Lists == [p \in Proc |-> lpt]
Priors == [p \in Proc |-> IF p = pin THEN 20 ELSE IF p = tmp THEN 198 ELSE 200]
FlagsOf == [p \in Proc |-> IF p \in {pin, tmp} THEN {"sys", "keep"} ELSE {}]
TwoPrograms == Permutations({a, b})
=============================================================================
