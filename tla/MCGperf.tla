------------------------------- MODULE MCGperf -------------------------------
(***************************************************************************)
(* Gperf for TLC: the dictionaries are model values.                        *)
(***************************************************************************)
EXTENDS Gperf

CONSTANTS d1, d2

MCDicts == {d1, d2}

\* script/pperf and the tests, which save each object once before they make the next,
\* on a machine that is not busy; and any program on any machine.
MCUses == {[fresh |-> TRUE, prompt |-> TRUE, objects |-> 3, calls |-> 3],
           [fresh |-> FALSE, prompt |-> FALSE, objects |-> 2, calls |-> 2]}

\* Any program on a machine that is not busy.
MCAnyUse == {[fresh |-> FALSE, prompt |-> TRUE, objects |-> 2, calls |-> 1]}
=============================================================================
