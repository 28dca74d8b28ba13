-------------------------- MODULE WriteBehindStore --------------------------
(***************************************************************************)
(* What a write-behind save layer promises, whatever its queues and        *)
(* retries: a key is marked with ever newer payloads, and the store only   *)
(* ever takes a newer payload that was really marked.                      *)
(***************************************************************************)
EXTENDS Naturals

CONSTANTS Keys

VARIABLES latest,   \* latest[k]: number of the newest payload of k
          stored    \* stored[k]: number of the payload the store holds

vars == <<latest, stored>>

Init == latest = [k \in Keys |-> 0] /\ stored = [k \in Keys |-> 0]

Mark(k) ==
    /\ latest' = [latest EXCEPT ![k] = @ + 1]
    /\ UNCHANGED stored

\* Payloads between the stored one and the one persisted may be skipped.
Persist(k) ==
    /\ \E n \in stored[k] + 1 .. latest[k] : stored' = [stored EXCEPT ![k] = n]
    /\ UNCHANGED latest

Next == \E k \in Keys : Mark(k) \/ Persist(k)

Spec == Init /\ [][Next]_vars
=============================================================================
