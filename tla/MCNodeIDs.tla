----------------------------- MODULE MCNodeIDs -----------------------------
(***************************************************************************)
(* Instances of NodeIDs: the local node L with its pawn p, and the remote   *)
(* nodes R, with its pawn q, and S.                                         *)
(***************************************************************************)
EXTENDS NodeIDs

CONSTANTS L, p, R, q, S,         \* nodes
          here, there, elsewhere, \* machines
          l1, l2, r1, r2, s1      \* addresses

MCHost == [n \in Node |-> CASE n \in {L, p} -> here
                            [] n \in {R, q} -> there
                            [] OTHER -> elsewhere]

\* Every machine has addresses of its own; a pawn lists its host's first one.
OwnAddrs == [n \in Node |-> CASE n = L -> {{l1}}
                              [] n = p -> {{l1}, {l1, l2}}
                              [] n = R -> {{r1}, {r1, r2}}
                              [] n = q -> {{r1}}
                              [] OTHER -> {{s1}}]

\* The addresses of R come and go, and may turn up at S.
MovingAddrs == [n \in Node |-> CASE n = L -> {{l1}}
                                 [] n = p -> {{l1}, {l1, l2}}
                                 [] n = R -> {{r1, r2}, {r2}, {r1}}
                                 [] OTHER -> {{s1}, {r1, s1}, {}}]

=============================================================================
