------------------------------ MODULE VppPool ------------------------------
(***************************************************************************)
(* The object pool of vppinfra (pool.h), which is not part of this         *)
(* repository: modelled from how nsh.c uses pool_get_aligned, pool_put,    *)
(* pool_elt_at_index and pool_foreach.                                     *)
(*                                                                         *)
(* A pool is a vector of elements and a stack of the indices that are      *)
(* free.  pool_get takes the index on top of that stack, or grows the      *)
(* vector when the stack is empty; pool_put pushes the index and leaves    *)
(* the bytes of the element as they were, so that whoever reads a freed    *)
(* index sees the element that was last stored there.                      *)
(*                                                                         *)
(* Indices are shifted by one throughout this project: the first element   *)
(* of a pool has index 1, and 0 stands for the ~0 (or the null entry       *)
(* pointer) by which the code says "none".                                 *)
(***************************************************************************)
EXTENDS Naturals, SequencesExt

PoolType(S) == [elts : Seq(S), free : Seq(Nat)]

EmptyPool == [elts |-> << >>, free |-> << >>]

Freed(p) == ToSet(p.free)

Live(p) == DOMAIN p.elts \ Freed(p)

\* What pool_foreach visits, in the order of the indices: a set of one sequence.
PoolForeach(p) ==
  {s \in [1 .. Cardinality(Live(p)) -> Live(p)] :
     /\ ToSet(s) = Live(p)
     /\ \A j, k \in DOMAIN s : j < k => s[j] < s[k]}

\* The index the next pool_get hands out.
NextIndex(p) == IF p.free = << >> THEN Len(p.elts) + 1 ELSE Last(p.free)

PoolGet(p, e) ==
  IF p.free = << >>
    THEN [elts |-> Append(p.elts, e), free |-> << >>]
    ELSE [elts |-> [p.elts EXCEPT ![Last(p.free)] = e], free |-> Front(p.free)]

PoolPut(p, i) == [elts |-> p.elts, free |-> Append(p.free, i)]

\* The free stack names elements of the pool, none of them twice.
PoolOK(p) ==
  /\ Freed(p) \subseteq DOMAIN p.elts
  /\ \A j, k \in DOMAIN p.free : p.free[j] = p.free[k] => j = k
=============================================================================
