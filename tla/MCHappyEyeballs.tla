-------------------------- MODULE MCHappyEyeballs --------------------------
(***************************************************************************)
(* Every answer of up to four addresses.                                    *)
(***************************************************************************)
EXTENDS HappyEyeballs

MCAnswers == UNION {[1..n -> Families] : n \in 0..4}
=============================================================================
