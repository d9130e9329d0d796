----------------------------- MODULE MCNshEntry -----------------------------
(***************************************************************************)
(* Small instances of NshEntry for TLC.                                    *)
(***************************************************************************)
EXTENDS NshEntry

CONSTANTS none, trace, context, k1, k2, k3

MCKey == {k1, k2}
MCMetadata == {none, trace, context}
MCTlvLen == [m \in MCMetadata |-> IF m = trace THEN 24 ELSE 0]

Cli(k, ttl, md_type, with_trace) ==
  [nsp_nsi |-> k, flags |-> 0, ttl |-> ttl, md_type |-> md_type, md |-> context,
   trace |-> with_trace]

\* ver_o_c carries bits below the flags, as the one of a dump does, and the
\* ttl bits above the six of the field.
Api(k, ver_o_c, ttl, length, md_type, md) ==
  [nsp_nsi |-> k, ver_o_c |-> ver_o_c, ttl |-> ttl, length |-> length,
   md_type |-> md_type, md |-> md]

MCCli == {Cli(k1, -1, 1, FALSE), Cli(k2, 62, 2, TRUE), Cli(k1, 5, 1, TRUE),
          Cli(k3, 62, 0, FALSE)}
MCApi == {Api(k1, 63, 63, 6, 1, context), Api(k1, 32, 129, 70, 2, trace),
          Api(k2, 16, 0, 2, 2, none), Api(k3, 15, 4, 6, 1, context)}
ThreeKeys == {k1, k2, k3}
=============================================================================
