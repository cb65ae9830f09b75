------------------------------ MODULE MCRelay ------------------------------
(***************************************************************************)
(* Both orders of the two limits, equal ones, and the zeros a config may   *)
(* give.                                                                    *)
(***************************************************************************)
EXTENDS Relay

Pair(idle, half) == [idle |-> idle, half |-> half]
MCTimeouts == {Pair(2, 1), Pair(1, 2), Pair(2, 2), Pair(2, 0), Pair(0, 1)}
MCSlow == {Pair(2, 1)}
=============================================================================
