--------------------------- MODULE MCSnipeLaunch ----------------------------
(* A small instance of SnipeLaunch for TLC. *)
EXTENDS SnipeLaunch
=============================================================================
