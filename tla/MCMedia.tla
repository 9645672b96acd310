------------------------------ MODULE MCMedia -------------------------------
(* Constants of Media as model values; see media.cfg. *)
EXTENDS Media

CONSTANTS photo, scan
=============================================================================
