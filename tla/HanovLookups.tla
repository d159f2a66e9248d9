----------------------------- MODULE HanovLookups ----------------------------
(***************************************************************************)
(* The other lookups of a finished HanovPP table.                          *)
(*                                                                         *)
(* The C function that save_c of lib/Perfect/Hash/HanovPP.pm writes, with   *)
(* the C types that u_csize and s_csize of C.pm choose.  The numbers of     *)
(* the table are stored and read at the width of their types; char is       *)
(* signed, as on the build's usual targets.  The hash function is the same  *)
(* in C, where it computes modulo 2^32.                                     *)
(*                                                                         *)
(* lib/Perfect/Hash/Urban.pm with its XS half in Hash.xs: the tables G and  *)
(* V packed into one bit vector of 2 * size cells, read by iv_perfecthash.  *)
(* All cells have the same width, which new computes from the numbers in G  *)
(* alone.                                                                   *)
(***************************************************************************)
EXTENDS HanovPP, CTypes

CONSTANTS
    Widths,     \* the widths of char, short, int and long in bits: 8, 16, 32, 64
    Byte        \* the bits of a char, 8

ASSUME WidthAssumption ==
    Widths \subseteq Nat \ {0} /\ \E w \in Widths : \A x \in Widths : x <= w

\* A byte is cut into halves and quarters.
ASSUME ByteAssumption == Byte \in Nat /\ Byte >= 4 /\ Byte % 4 = 0

-----------------------------------------------------------------------------
(* The C function. *)

gtype == s_csize(Widths, size)      \* of G and d
vtype == u_csize(Widths, size)      \* of V and h, and without "unsigned " of v

\* The initialisers of the arrays: printf makes 0 of undef.
CG(h) == Signed(G[h], gtype)
CV(s) == IF V[s] = Undef THEN 0 ELSE Unsigned(V[s], vtype)

\* A mutant: the direct slot without the -1.
SlotInC_NoMinusOne(k) ==
    LET h == Unsigned(HashMod(k, 0), vtype)
        d0 == CG(h)
    IN  IF d0 < 0 THEN Unsigned(-d0, vtype)
        ELSE IF d0 = 0 THEN h
        ELSE Unsigned(HashMod(k, d0), vtype)

\* V[($vtype)-d-1]: the cast is applied to -d.
SlotInC(k) ==
    LET h == Unsigned(HashMod(k, 0), vtype)
        d0 == CG(h)
    IN  IF d0 < 0 THEN Unsigned(-d0, vtype) - 1
        ELSE IF d0 = 0 THEN h
        ELSE Unsigned(HashMod(k, d0), vtype)

\* The value v, and with the keys stored the check of length and bytes.
CLookup(k) ==
    LET s == SlotInC(k)
        v == IF s \in Slot THEN Signed(CV(s), vtype) ELSE Wild
    IN  IF dict.fp \/ v = Wild THEN v
        ELSE IF v \notin Slot THEN Wild
        ELSE IF keys[v + 1] = k THEN v ELSE -1

\* perfecthash and the C function say the same of key k.
SameAnswer(k) ==
    CLookup(k) = IF PerfectHash(k) = Undef THEN -1 ELSE PerfectHash(k)

\* The one seed that the lookup of k reads fits the type of G, and the value
\* that it finds fits the signed type of v.
FitsTypes(k) ==
    /\ G[HashMod(k, 0)] < 2 ^ (gtype - 1)
    /\ V[SlotOf(k)] # Undef => V[SlotOf(k)] < 2 ^ (vtype - 1)

(***************************************************************************)
(* The C function finds for a key what perfecthash finds, and -1 for       *)
(* undef, unless the key's own seed or value is too wide: other entries    *)
(* that do not fit do no harm, and the negated slots always fit, because   *)
(* sizes that are multiples of 8 are padded (HanovPP.pm:329-340).          *)
(***************************************************************************)
CAgreesWhenFitting ==
    pc = "done" /\ IndexValues =>
        \A k \in Key : (k \in UserKeys \/ ~dict.fp) /\ FitsTypes(k) => SameAnswer(k)

-----------------------------------------------------------------------------
(* The bit vector of Urban. *)

\* length(sprintf "%b", max(abs($min), $max)), plus one if $min < 0.
NeededBits ==
    LET digits == CHOOSE n \in 1 .. 40 :
            /\ \A b \in Slot : G[b] < 2 ^ n /\ -G[b] < 2 ^ n
            /\ n > 1 => \E b \in Slot : G[b] >= 2 ^ (n - 1) \/ -G[b] >= 2 ^ (n - 1)
    IN  IF \E b \in Slot : G[b] < 0 THEN digits + 1 ELSE digits

\* The widths tried, (2, 4, 8, 16, 32).  64 bits are out of reach: a table of
\* 2^31 keys or that many seeds.
Quarter == Byte \div 4
Half    == Byte \div 2
CellWidths == {Quarter, Half, Byte, 2 * Byte, 4 * Byte}

bits == CHOOSE w \in CellWidths :
            w >= NeededBits /\ \A x \in CellWidths : x < w => x < NeededBits

\* What new stores at an index: G, then V; zeros and undef are not stored.
ToStore(x) ==
    IF x < size THEN G[x]
    ELSE IF V[x - size] = Undef THEN 0 ELSE V[x - size]

\* The last nvecset into byte c when a byte is to hold two cells: it is written
\* as a whole.
HalfBytes(c) ==
    LET written == {y \in 0 .. 2 * size - 1 : y \div 2 = c /\ ToStore(y) # 0}
    IN  IF written = {} THEN 0
        ELSE Unsigned(ToStore(CHOOSE y \in written : \A z \in written : z <= y), Half)

\* vec() of what nvecset() stored, at an index of G or of V, which begins at
\* the byte size * bits / 8.  Narrower cells are not stored, and vec dies.
Vec(first, x) ==
    IF bits = Half THEN HalfBytes((first \div 2) + (x \div 2))
    ELSE IF bits = Byte THEN Unsigned(ToStore(first + x), Byte)
    ELSE Signed(ToStore(first + x), bits)

\* A mutant: the sign of narrow cells is not restored.
Seed_NoSign(h) == Vec(0, h)

\* The cell of G with its sign: at 32 bits the code compares with the largest
\* int and subtracts one less than 2^32, for a number that is signed already.
Seed(h) ==
    LET d0 == Vec(0, h)
    IN  IF bits = 4 * Byte
        THEN IF d0 = 2 ^ (bits - 1) - 1 THEN -(2 ^ (bits - 1)) ELSE d0
        ELSE IF d0 >= 2 ^ (bits - 1) THEN d0 - 2 ^ bits ELSE d0

\* The index into V that iv_perfecthash uses for k.
IndexOf(k) ==
    LET h == HashMod(k, 0)
        d0 == Seed(h)
    IN  IF d0 < 0 THEN -d0 - 1 ELSE IF d0 = 0 THEN h ELSE HashMod(k, d0)

\* iv_perfecthash, with the undef that perfecthash makes of -1.  With cells of
\* a quarter byte it does not return.
IvPerfectHash(k) ==
    IF bits < Half \/ IndexOf(k) \notin Slot THEN Wild
    ELSE LET v == Vec(size, IndexOf(k))
         IN  IF dict.fp THEN IF v = -1 THEN Undef ELSE v
             ELSE IF v \notin Slot THEN Wild
             ELSE IF keys[v + 1] = k THEN v ELSE Undef

\* The values of a hashref: new dies unless they are in 0..$size.
GoodValues == \A j \in 1 .. Len(dict.values) : dict.values[j] \in 0 .. size

-----------------------------------------------------------------------------
\* A one-key bucket was given the last slot, as it is when that is free: the
\* freelist is used from its end.
LastSlotInG == \E b \in Slot : G[b] = -size

\* A bit for the sign and room for the values.
SignFits ==
    (\E b \in Slot : G[b] < 0) \/ \A b \in Slot : G[b] < 2 ^ (bits - 1)

ValuesFit ==
    \A s \in Slot : V[s] # Undef => V[s] < 2 ^ (IF bits = Byte THEN Byte ELSE bits - 1)

(***************************************************************************)
(* A width computed from G alone loses nothing of G and V when the cells   *)
(* are at least bytes and the last slot is in G, since -(slot + 1) needs   *)
(* the bits of every value and the sign; or else when both happen to fit.  *)
(* Then the lookup in the bit vector answers what the lookup in the        *)
(* unpacked tables does, for every key of the dictionary and, with the     *)
(* keys stored, for every other one.                                       *)
(***************************************************************************)
PackedAgrees ==
    pc = "done" /\ GoodValues /\ (dict.fp \/ IndexValues) =>
        (bits >= Byte /\ (LastSlotInG \/ (SignFits /\ ValuesFit)) =>
            \A k \in Key : k \in UserKeys \/ ~dict.fp => IvPerfectHash(k) = PerfectHash(k))
=============================================================================
