------------------------------- MODULE KeyMap -------------------------------
(***************************************************************************)
(* What a hash table promises: a map from keys to values.  Inserting a key *)
(* may cost the entries of some of its rivals; a key without rivals is     *)
(* kept until it is deleted.                                               *)
(***************************************************************************)
CONSTANTS Keys, Values, None,
  Rivals      \* Rivals[k]: the keys whose entries an insertion of k may cost

VARIABLE map  \* the value of each key, or None

Init == map = [k \in Keys |-> None]

Insert(k, v) ==
  \E lost \in SUBSET Rivals[k] :
    map' = [j \in Keys |-> IF j = k THEN v ELSE IF j \in lost THEN None ELSE map[j]]

Delete(k) ==
  /\ map[k] # None
  /\ map' = [map EXCEPT ![k] = None]

Next == \E k \in Keys : Delete(k) \/ \E v \in Values : Insert(k, v)

Spec == Init /\ [][Next]_map
=============================================================================
