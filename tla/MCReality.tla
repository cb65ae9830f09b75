----------------------------- MODULE MCReality ------------------------------
(***************************************************************************)
(* The libraries as they are, another order of draws, a second group that   *)
(* is started too, and four that connect must refuse.                       *)
(***************************************************************************)
EXTENDS Reality

Whole(steps) == [steps |-> steps, inside |-> Len(steps)]

AsIs == <<"hybrid", "sid", "random", "ext">>

MCLibraries ==
    {Whole(AsIs),
     Whole(<<"ext", "random", "x25519", "sid", "hybrid">>),
     \* a session ID that is not drawn, a group started twice
     Whole(<<"hybrid", "random", "ext">>),
     Whole(<<"hybrid", "sid", "hybrid", "random">>),
     \* a build put off until the first poll, altogether or from the random on
     [steps |-> AsIs, inside |-> 0],
     [steps |-> AsIs, inside |-> 2]}
=============================================================================
