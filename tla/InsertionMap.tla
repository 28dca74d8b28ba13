---------------------------- MODULE InsertionMap ----------------------------
(***************************************************************************)
(* The keys of a JavaScript Map in their order of insertion, as a sequence *)
(* without repetitions.                                                    *)
(***************************************************************************)
EXTENDS Naturals, Sequences

\* The sequence s without its element at position i.
Cut(s, i) == [j \in 1 .. Len(s) - 1 |-> IF j < i THEN s[j] ELSE s[j + 1]]

Occurs(s, k) == \E i \in 1 .. Len(s) : s[i] = k

\* No repetitions.
Distinct(s) == \A i, j \in 1 .. Len(s) : s[i] = s[j] => i = j

\* Map.delete on the order of insertion.
Delete(s, k) ==
    IF Occurs(s, k)
    THEN Cut(s, CHOOSE i \in 1 .. Len(s) : s[i] = k)
    ELSE s

\* Map.set: a key that is already there keeps its place.
Set(s, k) == IF Occurs(s, k) THEN s ELSE Append(s, k)
=============================================================================
