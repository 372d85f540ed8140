--------------------------- MODULE MCFileCommands ---------------------------
(* Two commands that make files, DREDIX and HEXCOM.  They share no state: each *)
(* is explored while the other has not begun.                                  *)
EXTENDS Files, MCHexCom

\* Two buffers, a file and another with the same .BAK file.
CONSTANTS B1, B2, x, FA, FB, FBAK
MCBufs == <<B1, B2>>
MCBak(f) == FBAK
MCTexts0 == { <<x, NL, NL, EOF>>, <<x, x, x>> }
MCTyped == { << <<>>, <<x>> >>, << <<x, x>> >> }

FilesRest == disk = [f \in Names |-> Absent] /\ ro = {} /\ Init
HexRest == recs = <<>> /\ wrong = 0 /\ nopad = FALSE /\ HexInit

MCInit == (FilesRest /\ HexInit) \/ (Init /\ HexRest)
MCNext == \/ HexRest /\ Next /\ UNCHANGED hexvars
          \/ FilesRest /\ HexNext /\ UNCHANGED vars
MCSpec == MCInit /\ [][MCNext]_<<vars, hexvars>>
=============================================================================
