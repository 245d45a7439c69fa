---------------------------- MODULE MCClusterForm ----------------------------
(* ClusterForm with two machines, one of which may come back once.           *)
EXTENDS ClusterForm, TLC

CONSTANTS one, oneAgain, two

OneComesBack == one :> "m1" @@ oneAgain :> "m1" @@ two :> "m2"
=============================================================================
