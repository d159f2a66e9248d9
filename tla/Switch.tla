------------------------------- MODULE Switch -------------------------------
(***************************************************************************)
(* lib/Perfect/Hash/Switch.pm: save_c writes a C function that finds a key  *)
(* with nested switches, on its length and then on the byte that tells most *)
(* of the keys apart, and the comparisons that memcmp_const_str of C.pm     *)
(* writes.  The code is modelled as a sequence of statements, and Exec is   *)
(* what a C compiler makes of it: a switch is entered at a label and runs   *)
(* on until a break or a return.                                            *)
(***************************************************************************)
EXTENDS Integers, Sequences, FiniteSets, FiniteSetsExt, SequencesExt

CONSTANTS
    Dicts,      \* the dictionaries: functions from keys, sequences of bytes, to values
    Arguments   \* the strings that the C function is called with

ASSUME DictAssumption ==
    /\ Arguments \subseteq Seq(Nat)
    /\ \A d \in Dicts : DOMAIN d \subseteq Seq(Nat) /\ \A k \in DOMAIN d : d[k] \in Nat

VARIABLES
    dict,       \* $ph->[0]
    code,       \* the C function: for each length a block of statements
    s,          \* the argument of its last call
    result      \* the result of it

vars == <<dict, code, s, result>>

NoCode == << >>
NotCalled == -9

-----------------------------------------------------------------------------
(* memcmp_const_str: a constant string of at most 36 bytes is compared in  *)
(* words of 16, 8, 4, 2 and 1 bytes, always the longest that fits.         *)

\* The words of a string of length l, as pairs of first and end.
Words(l) ==
    LET n[i \in 0 .. l - 1] == Max({w \in {1, 2, 4, 8, 16} : w <= l - i})
        first[j \in 0 .. l] ==
            IF j = 0 THEN 0
            ELSE IF first[j - 1] = l THEN l ELSE first[j - 1] + n[first[j - 1]]
    IN  {<<first[j], first[j + 1]>> : j \in 0 .. l - 1}

SameWord(a, b, w) == \A i \in w[1] + 1 .. w[2] : a[i] = b[i]

\* The condition that is generated for a constant key, which is as long as arg.
Matches(arg, key) ==
    LET l == Len(key)
    IN  /\ l > 0
        /\ IF l > 36 THEN arg = key ELSE \A w \in Words(l) : SameWord(arg, key, w)

-----------------------------------------------------------------------------
(* Statements of C. *)
Test(key)     == [op |-> "test", key |-> key]         \* if (...) return v;
Break         == [op |-> "break"]
Return        == [op |-> "return"]                    \* return -1;
Case(c)       == [op |-> "case", byte |-> c]
Default       == [op |-> "default"]
On(i, body)   == [op |-> "switch", at |-> i, body |-> body]

Members(keys) == {keys[p] : p \in 1 .. Len(keys)}
BytesAt(keys, i) == {k[i] : k \in Members(keys)}

\* The first position with the most different bytes.
SwitchAt(keys) ==
    LET differ(i) == Cardinality(BytesAt(keys, i))
    IN  CHOOSE i \in 1 .. Len(keys[1]) :
            /\ \A j \in 1 .. Len(keys[1]) : differ(j) <= differ(i)
            /\ \A j \in 1 .. i - 1 : differ(j) < differ(i)

\* The keys before position q: a new byte begins a case, and ends the one before.
Cases(sorted, i, q) ==
    FlattenSeq([p \in 1 .. q - 1 |->
        LET new == p = 1 \/ sorted[p - 1][i] # sorted[p][i]
        IN  (IF new /\ p > 1 THEN <<Break>> ELSE << >>)
            \o (IF new THEN <<Case(sorted[p][i])>> ELSE << >>)
            \o <<Test(sorted[p])>>])

\* Keys with byte c at position i, and the others.
With(keys, i, c)    == SelectSeq(keys, LAMBDA k : k[i] = c)
Without(keys, i, c) == SelectSeq(keys, LAMBDA k : k[i] # c)

\* A mutant: the switch over the other keys is left out after a split.
RECURSIVE DoSwitch_OneHalf(_, _, _)
DoSwitch_OneHalf(keys, last, indent) ==
    LET i == SwitchAt(keys)
        sorted == SortSeq(keys, LAMBDA a, b : a[i] < b[i])
        many == {p \in 1 .. Len(keys) : /\ Len(With(keys, i, sorted[p][i])) > 3
                                        /\ Len(With(keys, i, sorted[p][i])) < Len(keys)}
        end == IF last THEN <<Return>> ELSE << >>
    IN  IF many # {}
        THEN LET c == sorted[Min(many)][i]
             IN  <<On(i, Cases(sorted, i, Min(many))
                         \o <<Default>>
                         \o DoSwitch_OneHalf(With(keys, i, c), FALSE, indent + 1))>> \o end
        ELSE <<On(i, Cases(sorted, i, Len(keys) + 1)
                     \o (IF last THEN <<Default, Return>> ELSE << >>))>>
             \o (IF indent = 1 THEN end ELSE << >>)

\* A mutant: no return behind a switch that was split.
RECURSIVE DoSwitch_NoReturn(_, _, _)
DoSwitch_NoReturn(keys, last, indent) ==
    LET i == SwitchAt(keys)
        sorted == SortSeq(keys, LAMBDA a, b : a[i] < b[i])
        many == {p \in 1 .. Len(keys) : /\ Len(With(keys, i, sorted[p][i])) > 3
                                        /\ Len(With(keys, i, sorted[p][i])) < Len(keys)}
        end == IF last THEN <<Return>> ELSE << >>
    IN  IF many # {}
        THEN LET c == sorted[Min(many)][i]
             IN  <<On(i, Cases(sorted, i, Min(many))
                         \o <<Default>>
                         \o DoSwitch_NoReturn(With(keys, i, c), FALSE, indent + 1)
                         \o DoSwitch_NoReturn(Without(keys, i, c), last, indent + 1))>>
        ELSE <<On(i, Cases(sorted, i, Len(keys) + 1)
                     \o (IF last THEN <<Default, Return>> ELSE << >>))>>
             \o (IF indent = 1 THEN end ELSE << >>)

(***************************************************************************)
(* _do_switch: the keys in the order of the byte at position i.  When a    *)
(* byte occurs more than three times, its keys and then all the others get *)
(* switches of their own behind a default label, and nothing follows.      *)
(* Keys with the same byte stand in any order in the code; here as given.  *)
(***************************************************************************)
RECURSIVE DoSwitch(_, _, _)
DoSwitch(keys, last, indent) ==
    LET i == SwitchAt(keys)
        sorted == SortSeq(keys, LAMBDA a, b : a[i] < b[i])
        many == {p \in 1 .. Len(keys) : /\ Len(With(keys, i, sorted[p][i])) > 3
                                        /\ Len(With(keys, i, sorted[p][i])) < Len(keys)}
        end == IF last THEN <<Return>> ELSE << >>
    IN  IF many # {}
        THEN LET c == sorted[Min(many)][i]
             IN  <<On(i, Cases(sorted, i, Min(many))
                         \o <<Default>>
                         \o DoSwitch(With(keys, i, c), FALSE, indent + 1)
                         \o DoSwitch(Without(keys, i, c), last, indent + 1))>> \o end
        ELSE <<On(i, Cases(sorted, i, Len(keys) + 1)
                     \o (IF last THEN <<Default, Return>> ELSE << >>))>>
             \o (IF indent = 1 THEN end ELSE << >>)

\* _do_cand: the block for the keys of one length.
DoCand(keys) ==
    IF Len(keys) = 1 THEN <<Test(keys[1]), Return>> ELSE DoSwitch(keys, TRUE, 1)

\* The elements of a set as a sequence, in the order in which Perl hands them out.
Listed(S) == FoldSet(LAMBDA k, q : Append(q, k), << >>, S)

\* save_c: a block for each length but 0, in increasing order.
Lengths(d) == SortSeq(Listed({Len(k) : k \in DOMAIN d} \ {0}), <)

Generated(d) ==
    [b \in 1 .. Len(Lengths(d)) |->
        LET l == Lengths(d)[b]
        IN  [length |-> l, body |-> DoCand(Listed({k \in DOMAIN d : Len(k) = l}))]]

-----------------------------------------------------------------------------
(* The meaning of the code.  A statement returns a result or not. *)
Fell  == -2
Broke == -3

\* Where the switch is entered.
Entry(body, c) ==
    LET here == {p \in 1 .. Len(body) : body[p].op = "case" /\ body[p].byte = c}
        other == {p \in 1 .. Len(body) : body[p].op = "default"}
    IN  IF here # {} THEN Min(here) ELSE IF other # {} THEN Min(other) ELSE Len(body) + 1

RECURSIVE Exec(_, _, _)
Exec(body, arg, d) ==
    IF body = << >> THEN Fell
    ELSE LET st == Head(body)
             r == CASE st.op = "test" -> IF Matches(arg, st.key) THEN d[st.key] ELSE Fell
                    [] st.op = "break" -> Broke
                    [] st.op = "return" -> -1
                    [] st.op = "switch" ->
                        LET inner == Exec(SubSeq(st.body, Entry(st.body, arg[st.at]), Len(st.body)), arg, d)
                        IN  IF inner = Broke THEN Fell ELSE inner
                    [] OTHER -> Fell
         IN  IF r = Fell THEN Exec(Tail(body), arg, d) ELSE r

\* The block for the length of the argument.
Blocks(arg) == {b \in 1 .. Len(code) : code[b].length = Len(arg)}

-----------------------------------------------------------------------------
Init == dict \in Dicts /\ code = NoCode /\ s = << >> /\ result = NotCalled

SaveC ==
    /\ code = NoCode /\ DOMAIN dict \ {<< >>} # {}
    /\ code' = Generated(dict)
    /\ UNCHANGED <<dict, s, result>>

\* switch (l) { ... } return -1;  A block that does not return runs into the next.
Call(arg) ==
    /\ code # NoCode /\ result = NotCalled
    /\ s' = arg
    /\ result' = IF Blocks(arg) = {} THEN -1 ELSE Exec(code[Max(Blocks(arg))].body, arg, dict)
    /\ UNCHANGED <<dict, code>>

Next == SaveC \/ \E arg \in Arguments : Call(arg)

Spec == Init /\ [][Next]_vars

-----------------------------------------------------------------------------
(***************************************************************************)
(* The generated function returns the value of every key, however often    *)
(* its switches were split, and -1 for every other string: Switch always   *)
(* checks the keys (Switch.pm:138-223, 240).  An empty key has no value.   *)
(***************************************************************************)
FindsKeys ==
    result # NotCalled /\ result # Fell =>
        result = IF s \in DOMAIN dict /\ s # << >> THEN dict[s] ELSE -1

(***************************************************************************)
(* The block for one length always returns: the next label belongs to      *)
(* strings of another length, which it would compare beyond their end      *)
(* (Switch.pm:116-130, 195-197, 217-222).                                  *)
(***************************************************************************)
BlocksReturn == result \notin {Fell, Broke}
=============================================================================
