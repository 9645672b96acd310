------------------------------ MODULE MCNotify ------------------------------
(* ann owns the note, bob may be one of its readers; one socket or two. *)
EXTENDS Notify

CONSTANTS ann, bob, s1, s2

AnnsSocket  == s1 :> ann
BothSockets == s1 :> ann @@ s2 :> bob
=============================================================================
