------------------------------ MODULE MCLinkAll ------------------------------
(* LinkAll over every graph of up to four chunks, stored or missing. *)
EXTENDS LinkAll
CONSTANTS a, b, c, d
=============================================================================
