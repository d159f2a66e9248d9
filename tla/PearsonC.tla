------------------------------ MODULE PearsonC ------------------------------
(***************************************************************************)
(* The lookup function that save_c of lib/Perfect/Hash/Pearson.pm writes    *)
(* for a finished Pearson or PearsonNP object, without -pic.  The table and *)
(* the hash are those of the object; what differs from perfecthash is how   *)
(* the strings are compared, with memcmp and a number of bytes.             *)
(***************************************************************************)
EXTENDS Pearson, CTypes

CONSTANT
    Widths      \* the widths of char, short, int and long in bits: 8, 16, 32, 64

ASSUME WidthAssumption ==
    Widths \subseteq Nat \ {0} /\ \E w \in Widths : \A x \in Widths : x <= w

\* A C string: 0 is read behind its last byte.
Byte(s, p) == IF p <= Len(s) THEN s[p] ELSE 0

\* !memcmp(s, t, n)
SameBytes(s, t, n) == \A p \in 1 .. n : Byte(s, p) = Byte(t, p)

Shorter(s, t) == IF Len(s) < Len(t) THEN Len(s) ELSE Len(t)

\* A mutant: the final \0 is not compared.
CompareLength_NoNul(s, t, nul) == IF nul THEN Len(s) ELSE Shorter(s, t)

\* How many bytes of s are compared with a string t of a collision list.
CompareLength(s, t, nul) == IF nul THEN Len(s) + 1 ELSE 1 + Shorter(s, t)

\* The check against the stored key t has no such final \0.
CheckKey(s, t, nul) ==
    s # Empty /\ SameBytes(t, s, IF nul THEN Len(s) ELSE Shorter(s, t))

\* The list of a slot; a perfect table has none.
CollisionList(h) == IF C = Undef THEN << >> ELSE C[h]

\* The type of Cs[] is chosen by the longest list with more than one key.
maxcoll == Max({0} \cup {Len(CollisionList(h)) : h \in {g \in Slots : Len(CollisionList(g)) > 1}})
ctype == u_csize(Widths, maxcoll)

\* Cs[h]: a list as long as the type's limit is stored with the length 0.
Cs(h) == Unsigned(Len(CollisionList(h)), ctype)

\* The C function, generated with or without -nul.
CLookup(s, nul) ==
    LET h == HashOf(H, s)
        list == CollisionList(h)
        hits == {p \in 1 .. Cs(h) : SameBytes(list[p].key, s, CompareLength(s, list[p].key, nul))}
        v == IF Cs(h) = 1 THEN list[1].value ELSE h
    IN  IF Cs(h) > 1 /\ hits # {} THEN list[Min(hits)].value
        ELSE IF dict.fp THEN v
        ELSE IF v \notin Slots THEN Wild
        ELSE IF CheckKey(s, keys[v + 1], nul) THEN v ELSE -1

-----------------------------------------------------------------------------
NoZeroByte(s) == \A p \in 1 .. Len(s) : s[p] # 0

\* The dummy key of a hashref has the value -1: a string that comes to its slot alone makes
\* the C code read keys[-1].
DummyValue == dict.values # << >> /\ Padded(dict.keys)

Prefix(s, t) == Len(s) <= Len(t) /\ \A p \in 1 .. Len(s) : s[p] = t[p]

\* The number of bytes compared does not tell s from the key t.
Alike(s, t, nul) == Prefix(s, t) \/ (~nul /\ Prefix(t, s))

\* The length of the list that is searched for s is what Cs[] says.
Fits(s) == Cs(HashOf(H, s)) = Len(CollisionList(HashOf(H, s)))

\* There are lists, the values are indices, and the keys are C strings.
ListsInC == /\ pc = "done" /\ C # Undef /\ (dict.fp \/ IndexValues)
            /\ \A j \in 1 .. size : NoZeroByte(keys[j])

(***************************************************************************)
(* With collision lists, the C function finds for each key of the          *)
(* dictionary what perfecthash finds, with -nul and without, although keys *)
(* that are prefixes of each other may share a slot, unless the length of  *)
(* its list does not fit the type of Cs[]; and it refuses a string that no *)
(* key is alike by the bytes that are compared, unless the dictionary is a *)
(* padded hashref (Pearson.pm:430-463).                                    *)
(***************************************************************************)
CFindsKeys ==
    ListsInC => \A nul \in BOOLEAN :
        /\ \A j \in 1 .. Len(dict.keys) :
                keys[j] # Empty /\ Fits(keys[j]) => CLookup(keys[j], nul) = PerfectHash(keys[j])
        /\ ~dict.fp /\ ~DummyValue => \A s \in Absent :
                NoZeroByte(s) /\ (\A j \in 1 .. size : ~Alike(s, keys[j], nul)) =>
                    CLookup(s, nul) = -1

(***************************************************************************)
(* "c lookup exists" (t/04save_c.t:71): the C function gives a key of the  *)
(* dictionary the number that perfecthash gives it.                        *)
(***************************************************************************)
CLookupExists ==
    ListsInC => \A nul \in BOOLEAN, j \in 1 .. Len(dict.keys) :
        keys[j] # Empty => CLookup(keys[j], nul) = PerfectHash(keys[j])
=============================================================================
