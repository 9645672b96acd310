------------------------------- MODULE MCAuth -------------------------------
(* Constants of Auth as model values; see auth.cfg. *)
EXTENDS Auth

CONSTANTS ann
=============================================================================
