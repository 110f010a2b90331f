----------------------------- MODULE MCExchange -----------------------------
(***************************************************************************)
(* Constants of the small instances of Exchange: the boss b, who may       *)
(* upgrade the program, the approver a and the user u.                     *)
(***************************************************************************)
EXTENDS Exchange

CONSTANTS b, a, u, onyc, usdc

\* The usual offer: USDC buys ONyc.
MCPairs == {<<usdc, onyc>>}

\* ONyc has the finer unit.
MCScale == [m \in Mints |-> IF m = onyc THEN 2 ELSE 1]

\* The user holds USDC and the boss holds ONyc.
MCBalance ==
    [o \in Owners |-> [m \in Mints |->
        IF o = u /\ m = usdc THEN 2
        ELSE IF o = b /\ m = onyc THEN 2 ELSE 0]]

\* a approved u until the first second; b never was an approver.
MCApprovals ==
    { [approver |-> a, user |-> u, expiry_unix |-> 1],
      [approver |-> b, user |-> u, expiry_unix |-> 2] }
=============================================================================
