----------------------------- MODULE MCPodCIDRs -----------------------------
(***************************************************************************)
(* Small instances of PodCIDRs.                                            *)
(***************************************************************************)
EXTENDS PodCIDRs

CONSTANTS x, y,            \* CiliumNodes
          a, b, c, d       \* CIDRs: a and b of IPv4, c and d of IPv6

DualStack == [v4 |-> {a, b}, v6 |-> {c, d}]

Both(u, v) == [v4 |-> u, v6 |-> v]

\* The first operator finds a node with CIDRs and one without, or none; or it
\* finds CIDRs that two nodes have in common.
MCStart ==
  {[n \in Node |-> IF n = x THEN o ELSE q] :
     o \in {Both(a, c)}, q \in {None, NoCIDRs, Both(a, d), Both(b, None), Both(a, c)}}
=============================================================================
