--------------------------- MODULE MCRandomBytes ---------------------------
(***************************************************************************)
(* A small buffer, so that requests end before, at and after its end, and  *)
(* a counter that comes round.                                             *)
(***************************************************************************)
EXTENDS RandomBytes

=============================================================================
