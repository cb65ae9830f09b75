------------------------------- MODULE MCDial -------------------------------
(***************************************************************************)
(* Three dials: one that fails and retries, one whose answer is late, and  *)
(* one that puts the entry there in the first place.                       *)
(***************************************************************************)
EXTENDS Dial
=============================================================================
