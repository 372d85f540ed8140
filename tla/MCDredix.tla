------------------------------ MODULE MCDredix ------------------------------
(* The keys of DREDIX, and its search.  They are explored one by one: each     *)
(* while the other has not begun.                                              *)
EXTENDS TextBuffer, Search

\* Two texts, and keys enough to mark, move and undo around them.
CONSTANTS B1, B2, a, b
MCLoaded == {<< <<>> >>, << <<a>>, <<Space, a>>, <<Tab>> >>}
\* Half of the keys count double.
MCCost(k) ==
  IF k \in {"up", "down", "buf", "dl", "app", "undo", "mark", "copy", "move", "bdel"} THEN 1
  ELSE IF k \in {"left", "right", "ins", "enter", "bs", "dc", "lit", "go"} THEN 2 ELSE 3

\* All patterns of up to two characters and some of three, on a few texts.
MCBytes == {a, b, Star, Quest, Escape, LitChar, ReplMark}
MCText == << <<a, a, b>>, <<b>> >>
MCTexts == { MCText, << <<b, Star, a>> >> }
Signs == {a, b, Star, Quest, Escape}
MCSources == [1 .. 1 -> Signs] \cup {<<a, b>>, <<b, a>>, <<a, a>>, <<a, Star>>, <<Star, b>>, <<Quest, a>>,
               <<Escape, Star>>, <<a, Escape>>, <<a, Star, b>>, <<Quest, Star, a>>, <<Star, a, Star>>, <<Quest, b, Escape>>}
MCRepls == { <<>>, <<a>>, <<ReplMark, b>> }

\* One of the states each begins in.
KeysRest == ed = InitEd([t \in Texts |-> << <<>> >>]) /\ Init
SearchRest == text = [i \in DOMAIN MCText |-> Noted(MCText[i])] /\ blnum = 1 /\ bpos = 1 /\ SearchInit

MCInit == Init /\ SearchInit /\ (KeysRest \/ SearchRest)
MCNext == \/ SearchRest /\ Next /\ UNCHANGED svars
          \/ KeysRest /\ SearchNext /\ UNCHANGED vars
MCSpec == MCInit /\ [][MCNext]_<<vars, svars>> /\ Fairness
=============================================================================
