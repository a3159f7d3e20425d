---------------------------- MODULE MCDispatcher ----------------------------
(* Small instances of Dispatcher.                                          *)
EXTENDS Dispatcher

CONSTANTS tstat, v1, v2, s1, s2

OneKey == {tstat}
TwoValues == {v1, v2}
TwoSockets == {s1, s2}
=============================================================================
