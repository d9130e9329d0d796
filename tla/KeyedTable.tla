----------------------------- MODULE KeyedTable -----------------------------
(***************************************************************************)
(* What each of the plug-in's tables promises to the command line, to the  *)
(* binary API and to the data plane: a partial map from keys to values, in *)
(* which an add binds a key that is not bound, a delete unbinds one that   *)
(* is, any other request changes nothing, and no request touches another   *)
(* key.  Pools, free stacks, indices and hash tables are how the code      *)
(* keeps the promise, not part of it.                                      *)
(***************************************************************************)
CONSTANTS
  Key,
  Value,
  None        \* what an unbound key is mapped to

VARIABLE table

Init == table = [k \in Key |-> None]

Add(k, v) ==
  /\ table[k] = None
  /\ table' = [table EXCEPT ![k] = v]

Del(k) ==
  /\ table[k] # None
  /\ table' = [table EXCEPT ![k] = None]

Next == \E k \in Key : Del(k) \/ \E v \in Value : Add(k, v)

Spec == Init /\ [][Next]_table
=============================================================================
