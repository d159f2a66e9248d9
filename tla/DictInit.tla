------------------------------ MODULE DictInit ------------------------------
(***************************************************************************)
(* _dict_init of lib/Perfect/Hash.pm, which every method calls first: it    *)
(* turns the dictionary into a list of keys and, for a hashref, the list    *)
(* of their values.                                                         *)
(***************************************************************************)
EXTENDS Integers, Sequences

CONSTANTS
    Empty,      \* the empty string
    Undef,      \* Perl's undef
    PadUnit     \* sizes divisible by it get a dummy key, 8

\* sprintf("%b", $size) =~ /000+$/
Padded(ks) == Len(ks) > 0 /\ Len(ks) % PadUnit = 0

\* The list of keys, with the dummy key "" at the end.
PaddedKeys(ks) == IF Padded(ks) THEN Append(ks, Empty) ELSE ks

\* The values of a hashref, in the order of its keys; the dummy key gets -1.
PaddedValues(ks, vs) == IF vs # << >> /\ Padded(ks) THEN Append(vs, -1) ELSE vs
=============================================================================
