------------------------------ MODULE MCNshMap ------------------------------
(***************************************************************************)
(* Small instances of NshMap for TLC.                                      *)
(***************************************************************************)
EXTENDS NshMap

Arg(k, node, sw) ==
  [nsp_nsi |-> k, mapped_nsp_nsi |-> k, nsh_action |-> "swap",
   sw_if_index |-> sw, rx_sw_if_index |-> 0, next_node |-> node]

\* Two service indices of path 1, and one with an nsi of zero.  The two keys
\* of path 1 share the transport interface 1, so that their sessions collide.
PathArgs == {Arg(<< 0, 0, 1, 1 >>, "VXLAN4", 1), Arg(<< 0, 0, 1, 2 >>, "VXLAN4", 1),
             Arg(<< 0, 0, 1, 0 >>, "VXLAN6", 1)}

\* One key with two transports, one without a session, and the key 0xFFFFFFFF
\* that tunnel_index_by_sw_if_index cannot tell from "no map".
EdgeArgs == {Arg(<< 0, 0, 1, 1 >>, "VXLAN4", 1), Arg(<< 0, 0, 1, 1 >>, "GRE4", 2),
             Arg(AllOnes, "VXLAN6", 2)}

TwoAdjs == << 1, 2 >>
=============================================================================
