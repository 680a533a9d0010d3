-------------------------- MODULE MCRegistryLogin --------------------------
(***************************************************************************)
(* An instance of RegistryLogin for TLC.  Four requests are enough for two *)
(* links that are confirmed, and for a third hit of a bucket, which is     *)
(* refused.                                                                *)
(***************************************************************************)
EXTENDS RegistryLogin, TLC

MCLimit == "source" :> 2 @@ "email" :> 2 @@ "confirm" :> 2
=============================================================================
