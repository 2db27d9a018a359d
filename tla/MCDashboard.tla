---------------------------- MODULE MCDashboard -----------------------------
(* An instance of Views and Dashboard for TLC. *)
EXTENDS Dashboard

CONSTANTS s1
=============================================================================
