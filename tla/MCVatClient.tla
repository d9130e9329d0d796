----------------------------- MODULE MCVatClient -----------------------------
(***************************************************************************)
(* An instance of VatClient: two words that are each other's in the two    *)
(* byte orders.                                                            *)
(***************************************************************************)
EXTENDS VatClient

MCWord == {1, 256}
MCntohl == [w \in MCWord |-> IF w = 1 THEN 256 ELSE 1]
MCModes == BOOLEAN
=============================================================================
