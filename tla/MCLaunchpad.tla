---------------------------- MODULE MCLaunchpad ----------------------------
(***************************************************************************)
(* Two cards and two attempts to go live: what one card left under way can  *)
(* be answered on the other.                                                *)
(***************************************************************************)
EXTENDS Launchpad
=============================================================================
