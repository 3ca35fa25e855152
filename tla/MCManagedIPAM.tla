--------------------------- MODULE MCManagedIPAM ---------------------------
(***************************************************************************)
(* Small instances of ManagedIPAM: the primary node h and one pawn, CIDRs  *)
(* of one or two addresses, so that addresses are reused at once.          *)
(***************************************************************************)
EXTENDS ManagedIPAM, TLC

CONSTANTS h, p1, p2, a1, a2, b1, c1, r1, r2, r3, A, B, C

\* One address per CIDR: every reuse of an address happens.
MCAddrs == (A :> {a1}) @@ (B :> {b1})
\* A third CIDR, so that a pawn's CIDR can change, and an excluded address.
MCAddrsThree == (A :> {a1, a2}) @@ (B :> {b1}) @@ (C :> {c1})
MCSymmetry == Permutations(Req)
=============================================================================
