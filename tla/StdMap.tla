-------------------------------- MODULE StdMap -------------------------------
(***************************************************************************)
(* The associative container that mph_map.h says its classes replace: at   *)
(* most one element for each key, whatever was inserted, erased or         *)
(* rehashed before.                                                        *)
(***************************************************************************)
EXTENDS Integers, FiniteSets

CONSTANTS Key, Data, Absent

VARIABLES
    content,     \* the data of each key, or Absent
    result       \* what the last call returned

Stored == {k \in Key : content[k] # Absent}
Answer(op, k, a) == [call |-> op, key |-> k, answer |-> a]

Init ==
    /\ content = [k \in Key |-> Absent]
    /\ result = Answer("new", Absent, Absent)

\* The element found or inserted, and whether it was inserted.
Insert(k, d) ==
    IF content[k] = Absent
    THEN /\ content' = [content EXCEPT ![k] = d]
         /\ result' = Answer("insert", k, <<d, TRUE>>)
    ELSE /\ result' = Answer("insert", k, <<content[k], FALSE>>)
         /\ UNCHANGED content

Assign(k, d) ==
    /\ content[k] # Absent
    /\ content' = [content EXCEPT ![k] = d]
    /\ result' = Answer("=", Absent, Absent)

Find(k) == result' = Answer("find", k, content[k]) /\ UNCHANGED content

Erase(k) ==
    /\ content' = [content EXCEPT ![k] = Absent]
    /\ result' = Answer("erase", Absent, Absent)

Clear ==
    /\ content' = [k \in Key |-> Absent]
    /\ result' = Answer("clear", Absent, Absent)

Rehash == result' = Answer("rehash", Absent, Absent) /\ UNCHANGED content

Iterate ==
    /\ result' = [call |-> "iterate", size |-> Cardinality(Stored),
                  elements |-> {[key |-> k, data |-> content[k]] : k \in Stored}]
    /\ UNCHANGED content

Next ==
    \/ \E k \in Key, d \in Data : Insert(k, d) \/ Assign(k, d)
    \/ \E k \in Key : Find(k) \/ Erase(k)
    \/ Clear \/ Rehash \/ Iterate

Spec == Init /\ [][Next]_<<content, result>>
=============================================================================
