----------------------- MODULE MCResourceControllers -----------------------
(***************************************************************************)
(* ResourceControllers on the small instances of MCRegistrar.              *)
(***************************************************************************)
EXTENDS ResourceControllers, MCRegistrar
=============================================================================
