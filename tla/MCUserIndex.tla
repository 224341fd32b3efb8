---------------------------- MODULE MCUserIndex ----------------------------
(***************************************************************************)
(* Instances of UserIndex for TLC.                                         *)
(***************************************************************************)
EXTENDS UserIndex

CONSTANTS a, b, c, u1, u2, v1, v2

\* a has two peers, b has a, c has none and only receives.
Chain == [r \in Regions |-> CASE r = a -> <<b, c>>
                              [] r = b -> <<a>>
                              [] OTHER -> <<>>]

Pair == [r \in Regions |-> IF r = a THEN <<b>> ELSE <<a>>]

OneEach == {<<a, u1, v1>>, <<b, u2, v2>>}

\* User u1 registers in a and moves while b reconciles.
Moves == {<<a, u1, v1>>, <<b, u1, v2>>}
=============================================================================
