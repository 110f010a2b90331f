---------------------------- MODULE TokenLedger ----------------------------
(***************************************************************************)
(* The token program's accounts as this program uses them, and the wrappers*)
(* of utils/token_utils.rs around its instructions.  A ledger is a record  *)
(* of balances and supplies; each operation returns a ledger, and one that *)
(* fails clears ok, which the rest of the instruction then inherits: the   *)
(* whole transaction reverts unless ok is still set at its end.            *)
(***************************************************************************)
EXTENDS Numeric, FiniteSets

CONSTANTS
    Mints,          \* token mints
    Owners,         \* owners of token accounts: keys and the program's vaults
    InitialBalance  \* what they hold at first

ASSUME LedgerAssumption ==
    /\ IsFiniteSet(Owners)
    /\ InitialBalance \in [Owners -> [Mints -> Nat]]

Ledger ==
    [ok : BOOLEAN, bal : [Owners -> [Mints -> Nat]], supply : [Mints -> Nat]]

\* The sum of a function's values: the number of single tokens, each one a
\* holder and a number.
Units(f) == UNION {{x} \X (1..f[x]) : x \in DOMAIN f}
Total(f) == Cardinality(Units(f))

\* What an owner holds of a mint, by owner; the supply is their total.
Holdings(bal, m) == [o \in Owners |-> bal[o][m]]

InitialLedger ==
    [ok |-> TRUE, bal |-> InitialBalance,
     supply |-> [m \in Mints |-> Total(Holdings(InitialBalance, m))]]

transfer_tokens(l, mint, from, to, amount) ==
    LET debited == [l.bal EXCEPT ![from][mint] = @ - amount]
    IN  [ok     |-> l.ok /\ l.bal[from][mint] >= amount,
         bal    |-> [debited EXCEPT ![to][mint] = @ + amount],
         supply |-> l.supply]

burn_tokens(l, mint, from, amount) ==
    [ok     |-> l.ok /\ l.bal[from][mint] >= amount,
     bal    |-> [l.bal EXCEPT ![from][mint] = @ - amount],
     supply |-> [l.supply EXCEPT ![mint] = @ - amount]]

\* Mutant: the cap bounds the minted amount, not the resulting supply.
mint_tokens_amount_only(l, mint, to, amount, max_supply) ==
    [ok     |-> /\ l.ok
                /\ l.supply[mint] + amount <= U64_MAX
                /\ max_supply > 0 => amount <= max_supply,
     bal    |-> [l.bal EXCEPT ![to][mint] = @ + amount],
     supply |-> [l.supply EXCEPT ![mint] = @ + amount]]

\* max_supply = 0 means no cap; the supply is a u64 in any case.
mint_tokens(l, mint, to, amount, max_supply) ==
    [ok     |-> /\ l.ok
                /\ l.supply[mint] + amount <= U64_MAX
                /\ max_supply > 0 => l.supply[mint] + amount <= max_supply,
     bal    |-> [l.bal EXCEPT ![to][mint] = @ + amount],
     supply |-> [l.supply EXCEPT ![mint] = @ + amount]]
=============================================================================
