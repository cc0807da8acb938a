--------------------------- MODULE MCRegistryClient ---------------------------
(***************************************************************************)
(* RegistryClient with small tag lists.                                    *)
(***************************************************************************)
EXTENDS RegistryClient
=============================================================================
