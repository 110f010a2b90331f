---------------------------- MODULE MCRedemption ----------------------------
(***************************************************************************)
(* Constants of the small instances of Redemption: the boss b, who may     *)
(* upgrade the program, the redemption admin a and the redeemer u.         *)
(***************************************************************************)
EXTENDS Redemption

CONSTANTS b, a, u, onyc, usdc

\* Redemptions both ways, so that one offer pays out what the other takes in.
BothWays == {<<onyc, usdc>>, <<usdc, onyc>>}

\* ONyc has the finer unit.
MCScale == [m \in Mints |-> IF m = onyc THEN 2 ELSE 1]

\* The redeemer holds ONyc and the boss holds USDC.
MCBalance ==
    [o \in Owners |-> [m \in Mints |->
        IF o = u /\ m = onyc THEN 2
        ELSE IF o = b /\ m = usdc THEN 2 ELSE 0]]
=============================================================================
