--------------------------- MODULE MCManagedAgent --------------------------
(***************************************************************************)
(* A small instance of ManagedAgent: the host h and one pawn, whose        *)
(* CiliumNode may be deleted and made anew.                                *)
(***************************************************************************)
EXTENDS ManagedAgent

CONSTANTS h, p, A
=============================================================================
