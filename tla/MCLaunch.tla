------------------------------ MODULE MCLaunch ------------------------------
(* One launch for TLC; the troubles are bounded in the configurations. *)
EXTENDS Launch
=============================================================================
