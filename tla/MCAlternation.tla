--------------------------- MODULE MCAlternation ---------------------------
(***************************************************************************)
(* Alternation for TLC: the ALTs the configurations choose from.           *)
(***************************************************************************)
EXTENDS Alternation

CONSTANTS c1, c2

Timeout  == [client |-> "occam", guards |-> <<c1, c2, TIMER>>]
Repeated == [client |-> "occam", guards |-> <<c1, c2, c1, SKIP>>]
ProcAlt  == [client |-> "ProcAlt", guards |-> <<c1, c2>>]

AllAlts     == {Timeout, Repeated, ProcAlt}
OnlyProcAlt == {ProcAlt}
=============================================================================
