--------------------------- MODULE MintAuthority ---------------------------
(***************************************************************************)
(* Who may mint a token, and the boss's instructions about it.  The        *)
(* authority of a mint decides whether an exchange mints and burns the     *)
(* token or moves it between accounts (program_controls_mint).  Composed   *)
(* with Governance, whose State account says who the boss is.              *)
(***************************************************************************)
EXTENDS TokenLedger

CONSTANTS
    Keys, NoKey, MAX_ADMINS, UpgradeAuthority, OnycMints, ProposableKeys,
    AdminKeys, ApproverKeys, RedemptionKeys, SupplyCaps,    \* of Governance
    ProgramAuthority,   \* the program's mint authority account
    MintAmounts         \* amounts that the boss may pass to mint_to

VARIABLES
    state,      \* the State account (module Governance)
    proposer,   \* of Governance
    ledger,     \* the token accounts
    authority   \* Mint.mint_authority of every mint

Gov == INSTANCE Governance

govVars == <<state, proposer>>

ASSUME AuthorityAssumption ==
    /\ Gov!GovernanceConstants
    /\ Keys \subseteq Owners
    /\ ProgramAuthority \notin Keys \cup {NoKey}
    /\ OnycMints \subseteq Mints
    /\ MintAmounts \subseteq U64

program_controls_mint(mint) == authority[mint] = ProgramAuthority

\* The transaction commits the token operations unless one of them failed.
Commit(l) == l.ok /\ ledger' = l
-----------------------------------------------------------------------------
transfer_mint_authority_to_boss(mint) ==
    /\ state.boss # NoKey
    /\ program_controls_mint(mint)
    /\ authority' = [authority EXCEPT ![mint] = state.boss]
    /\ UNCHANGED ledger

transfer_mint_authority_to_program(mint) ==
    /\ state.boss # NoKey
    /\ authority[mint] = state.boss
    /\ authority' = [authority EXCEPT ![mint] = ProgramAuthority]
    /\ UNCHANGED ledger

mint_to(amount) ==
    /\ state.boss # NoKey
    /\ program_controls_mint(state.onyc_mint)
    /\ Commit(mint_tokens(ledger, state.onyc_mint, state.boss, amount,
                          state.max_supply))
    /\ UNCHANGED authority

MintAuthorityStep ==
    \/ \E mint \in Mints : transfer_mint_authority_to_boss(mint)
    \/ \E mint \in Mints : transfer_mint_authority_to_program(mint)
    \/ \E amount \in MintAmounts : mint_to(amount)
=============================================================================
