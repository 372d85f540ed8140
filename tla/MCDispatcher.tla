---------------------------- MODULE MCDispatcher ----------------------------
(* Instances of Dispatcher for TLC: a, of the best priority, aborts b and   *)
(* creates it again; b and c are of one priority.                           *)
EXTENDS Dispatcher, TLC

CONSTANTS idle, a, b, c, plr, dq, fdc

Procs == {idle, a, b, c}
Priors == idle :> 255 @@ a :> 100 @@ b :> 200 @@ c :> 200
Lists == {plr, dq}
Flags == {fdc}

CallsIdle == {<<"dispatch", 0>>}
CallsA == {<<"abort", b>>, <<"create", b>>, <<"sleep", dq>>, <<"setprior", 90>>, <<"setprior", 210>>}
CallsB == {<<"delay", 2>>, <<"io", fdc>>, <<"sleep", plr>>, <<"terminate", 0>>}
CallsC == {<<"delay", 0>>, <<"wakeup", dq>>, <<"unsync", dq>>}
CallsOf == idle :> CallsIdle @@ a :> CallsA @@ b :> CallsB @@ c :> CallsC
=============================================================================
