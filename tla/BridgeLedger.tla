---------------------------- MODULE BridgeLedger ----------------------------
(***************************************************************************)
(* What a cross-chain transfer of USDC promises, whatever the scripts do:  *)
(* USDC leaves one chain by a burn, is in flight as one transfer, and      *)
(* enters the other chain once, in full.  Part of it may go to the fee     *)
(* recipient there.                                                        *)
(***************************************************************************)
EXTENDS Integers

CONSTANTS
    Chains,     \* the chains that USDC exists on
    Transfers   \* names of transfers

VARIABLES
    supply,     \* USDC in existence on each chain
    inFlight    \* burnt and not yet minted: the transfer's amount and target

NoTransfer == [amount |-> 0, to |-> "none"]

Init ==
    /\ supply \in [Chains -> Nat]
    /\ inFlight = [t \in Transfers |-> NoTransfer]

Burn(t, from, to, amount) ==
    /\ inFlight[t] = NoTransfer
    /\ from # to
    /\ amount > 0
    /\ amount <= supply[from]
    /\ supply' = [supply EXCEPT ![from] = @ - amount]
    /\ inFlight' = [inFlight EXCEPT ![t] = [amount |-> amount, to |-> to]]

Mint(t) ==
    /\ inFlight[t] # NoTransfer
    /\ supply' = [supply EXCEPT ![inFlight[t].to] = @ + inFlight[t].amount]
    /\ inFlight' = [inFlight EXCEPT ![t] = NoTransfer]

Next ==
    \E t \in Transfers :
        \/ \E from, to \in Chains :
             \E amount \in 1..supply[from] : Burn(t, from, to, amount)
        \/ Mint(t)

Spec == Init /\ [][Next]_<<supply, inFlight>>
=============================================================================
