----------------------------- MODULE MCIoamTrace -----------------------------
(***************************************************************************)
(* A chain of three hops: a classifier; a forwarder that swaps and that    *)
(* classifies packets of its own with the same entry, or that the packets  *)
(* only pass through; and the end of the chain.                            *)
(***************************************************************************)
EXTENDS IoamTrace

MCBehind == << "short", "plain", "option" >>

MCRoles == << {"push"}, {"push", "transit", "swap"}, {"swap", "pop"} >>

\* The default ttl of 63, or one that leaves the length as it is.
MCTtls == << {0, 3}, {0}, {0} >>

\* Room for as many hops as there are, for fewer, and for wider records.
MCProfiles == {[elts |-> 3, size |-> 1], [elts |-> 1, size |-> 2]}
=============================================================================
