----------------------------- MODULE MCWatchdog -----------------------------
(***************************************************************************)
(* Small instances of Watchdog.                                            *)
(***************************************************************************)
EXTENDS Watchdog, TLC

CONSTANTS x, y, z

MCSymmetry == Permutations(Name \ HostNetwork)
=============================================================================
