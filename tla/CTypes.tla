------------------------------- MODULE CTypes -------------------------------
(***************************************************************************)
(* What the C code that is generated (HanovLookups, PearsonC) and the C     *)
(* code of Hash.xs and cmph do with numbers: they are kept in a given       *)
(* number of bits, with or without a sign, and a read outside of an array   *)
(* gives anything.  The type of a generated array is chosen by u_csize and  *)
(* s_csize of C.pm, among types of given widths in bits.                    *)
(***************************************************************************)
EXTENDS Integers

CONSTANT
    Wild        \* what a read outside of an array may return: nothing is known of it

ASSUME WildAssumption == Wild \notin Int

Unsigned(x, w) == x % (2 ^ w)
Signed(x, w)   == ((x + 2 ^ (w - 1)) % (2 ^ w)) - 2 ^ (w - 1)

\* The narrowest type that passes the test of the code, or else "long".
Narrowest(widths, fitting) ==
    IF fitting = {} THEN CHOOSE w \in widths : \A x \in widths : x <= w
    ELSE CHOOSE w \in fitting : \A x \in fitting : w <= x

\* n itself is one too many for the type that is chosen at the limit.
u_csize(widths, n) == Narrowest(widths, {w \in widths : n <= 2 ^ w})
s_csize(widths, n) == Narrowest(widths, {w \in widths : n <= 2 ^ (w - 1)})
=============================================================================
