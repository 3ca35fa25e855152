------------------------- MODULE MCEndpointRestore -------------------------
(***************************************************************************)
(* Small instances of EndpointRestore.                                     *)
(***************************************************************************)
EXTENDS EndpointRestore

CONSTANTS e1, e2, e3, a1, a2, a3, i1, i2, i3
=============================================================================
