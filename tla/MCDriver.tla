------------------------------ MODULE MCDriver ------------------------------
(***************************************************************************)
(* Three clients, one of which may fall silent, without a limit, with a    *)
(* limit of one as in the tests of driver.rs, and with one that leaves a   *)
(* single client waiting. The target may need both the first payload and   *)
(* what follows it.                                                         *)
(***************************************************************************)
EXTENDS Driver

MCLimits == 0..2
=============================================================================
