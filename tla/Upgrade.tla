------------------------------- MODULE Upgrade -------------------------------
(***************************************************************************)
(* The upgrade of the deployed program by the numbered scripts of          *)
(* scripts/programV3upgrade.  Each script reads the chain, and either      *)
(* throws or prints a transaction, which the holder of the key executes    *)
(* later, when the chain may have changed.  Operators run the scripts in   *)
(* their order, but need not wait for one's transaction before they run    *)
(* the next; a transaction that fails or is thrown away is printed anew.   *)
(*                                                                         *)
(* The program is that of modules Governance and MintAuthority once it is  *)
(* upgraded; the program before, and the operators, are external.          *)
(***************************************************************************)
EXTENDS ScriptHelper, FiniteSets

CONSTANTS
    Squad,          \* the multisig: the boss before and after
    Deployer,       \* the program's upgrade authority
    ProgramMint,    \* the program's mint authority account
    NoKey,          \* Pubkey::default()
    MaxDiscards     \* printed transactions that are thrown away

ASSUME UpgradeAssumption ==
    /\ Cardinality({Squad, Deployer, ProgramMint, NoKey}) = 4
    /\ MaxDiscards \in Nat

Keys == {Squad, Deployer}
Scripts == 1..8
Stables == {"usdc", "usdg"}

VARIABLES
    state, proposer,    \* of Governance
    legacy,     \* the State account has the layout of the program before
    upgraded,   \* the program has been upgraded
    oldOffer,   \* the offer of the program before is still open
    offers,     \* pairs that an offer with its first vector has been made for, by token in
    accounts,   \* mints for which the permissionless authority has an account
    authority,  \* Mint.mint_authority of ONyc
    run,        \* scripts that have been run
    printed,    \* transactions printed, at most one of each script
    discards    \* transactions thrown away

gvars == <<state, proposer>>
vars == <<gvars, legacy, upgraded, oldOffer, offers, accounts, authority, run,
          printed, discards>>

G == INSTANCE Governance WITH
    MAX_ADMINS <- 1, UpgradeAuthority <- Deployer, OnycMints <- {"onyc"},
    ProposableKeys <- Keys, AdminKeys <- {}, ApproverKeys <- {}, RedemptionKeys <- {},
    SupplyCaps <- {}

Init ==
    /\ state = [G!ZeroState EXCEPT !.boss = Squad] /\ proposer = NoKey
    /\ legacy = TRUE /\ upgraded = FALSE /\ oldOffer = TRUE
    /\ offers = {} /\ authority = Squad
    /\ accounts \in SUBSET (Stables \cup {"onyc"})
    /\ run = {} /\ printed = {} /\ discards = 0

-----------------------------------------------------------------------------
(* The scripts: the transactions that one of them prints, none if it       *)
(* throws.  A transaction has one signer here, who also pays.              *)

Tx(n, signer, opens) == [script |-> n, signer |-> signer, opens |-> opens]

\* The boss is read with the new interface, which cannot read the old account.
getBoss == IF legacy \/ ~G!Initialized THEN {} ELSE {state.boss}

\* The old interface reads the old account and the offer.
getBossAccount == IF legacy THEN {state.boss} ELSE {}
getOffer == oldOffer

closeOffer ==
    {Tx(1, boss, {}) : boss \in
        IF getOffer /\ Resolves(I!closeOfferOne,
               {"offer", "offerSellTokenAccount", "offerBuy1TokenAccount",
                "bossBuy1TokenAccount", "bossSellTokenAccount", "state",
                "offerTokenAuthority", "boss"})
        THEN getBossAccount ELSE {}}

\* Mutant: the boss is read from the account.
createCloseStateTransaction_read ==
    {Tx(2, boss, {}) : boss \in IF buildCloseStateIx.complete THEN getBoss ELSE {}}

\* The boss is written in the script: the account is never read.
createCloseStateTransaction == IF buildCloseStateIx.complete THEN {Tx(2, Squad, {})} ELSE {}

createInitializeTransaction == IF buildInitializeIx.complete THEN {Tx(3, Deployer, {})} ELSE {}

createProposeBossTransaction ==
    {Tx(4, boss, {}) : boss \in IF buildProposeBossIx.complete THEN getBoss ELSE {}}

createAcceptBossTransaction ==
    IF getBoss # {} /\ state.proposed_boss = Squad /\ buildAcceptBossIx.complete
    THEN {Tx(5, Squad, {})} ELSE {}

\* Mutant: only the account of the token paid in is created.
buildCreatePermissionlessTokenAccountsIxs_in(stable) == {stable} \ accounts

\* The accounts that are missing now; creating one twice is no error.
buildCreatePermissionlessTokenAccountsIxs(stable) == {stable, "onyc"} \ accounts

createMakeOfferWithVectorTransaction(n, stable) ==
    {Tx(n, boss, buildCreatePermissionlessTokenAccountsIxs(stable)) :
        boss \in IF buildMakeOfferIx.complete /\ buildAddOfferVectorIx.complete
                 THEN getBoss ELSE {}}

createTransferMintAuthorityToProgramTransaction ==
    {Tx(8, boss, {}) : boss \in
        IF buildTransferMintAuthorityToProgramIx.complete THEN getBoss \cap {authority} ELSE {}}

Prints(n) ==
    CASE n = 1 -> closeOffer
      [] n = 2 -> createCloseStateTransaction
      [] n = 3 -> createInitializeTransaction
      [] n = 4 -> createProposeBossTransaction
      [] n = 5 -> createAcceptBossTransaction
      [] n = 6 -> createMakeOfferWithVectorTransaction(6, "usdc")
      [] n = 7 -> createMakeOfferWithVectorTransaction(7, "usdg")
      [] n = 8 -> createTransferMintAuthorityToProgramTransaction

-----------------------------------------------------------------------------
(* What the chain does with a transaction.                                 *)

\* The instructions that need the State account in its new layout.
ByBoss(t) == upgraded /\ ~legacy /\ G!Initialized /\ t.signer = state.boss

CloseOldOffer(t) ==
    /\ t.script = 1
    /\ ~upgraded /\ oldOffer /\ t.signer = state.boss
    /\ oldOffer' = FALSE
    /\ UNCHANGED <<gvars, legacy, offers, accounts, authority>>

\* close_state does not read the account beyond its boss, so that it can close
\* one of the old layout.
CloseState(t) ==
    /\ t.script = 2
    /\ upgraded /\ t.signer = state.boss
    /\ G!close_state
    /\ legacy' = FALSE
    /\ UNCHANGED <<oldOffer, offers, accounts, authority>>

ChangeState(t) ==
    /\ upgraded
    /\ \/ t.script = 3 /\ G!initialize(t.signer, "onyc")
       \/ t.script = 4 /\ ByBoss(t) /\ G!propose_boss(Squad)
       \/ t.script = 5 /\ ~legacy /\ G!accept_boss(t.signer)
    /\ UNCHANGED <<legacy, oldOffer, offers, accounts, authority>>

\* One transaction: the accounts, the offer and its first vector, or nothing.
MakeOffer(t) ==
    LET stable == IF t.script = 6 THEN "usdc" ELSE "usdg"
    IN  /\ t.script \in {6, 7}
        /\ ByBoss(t)
        /\ stable \notin offers
        /\ accounts' = accounts \cup t.opens
        /\ offers' = offers \cup {stable}
        /\ UNCHANGED <<gvars, legacy, oldOffer, authority>>

TransferMintAuthority(t) ==
    /\ t.script = 8
    /\ ByBoss(t)
    /\ authority = state.boss
    /\ authority' = ProgramMint
    /\ UNCHANGED <<gvars, legacy, oldOffer, offers, accounts>>

Applies(t) ==
    CloseOldOffer(t) \/ CloseState(t) \/ ChangeState(t) \/ MakeOffer(t) \/ TransferMintAuthority(t)

-----------------------------------------------------------------------------
(* The operators.                                                          *)

\* What a script is for has been achieved.
Achieved(n) ==
    CASE n = 1 -> ~oldOffer
      [] n = 2 -> ~legacy
      [] n = 3 -> ~legacy /\ G!Initialized
      [] n = 4 -> ~legacy /\ Squad \in {state.boss, state.proposed_boss}
      [] n = 5 -> ~legacy /\ state.boss = Squad
      [] n = 6 -> "usdc" \in offers
      [] n = 7 -> "usdg" \in offers
      [] n = 8 -> authority = ProgramMint

\* The scripts before it have been run; its own transaction is not pending.
Run(n) ==
    /\ 1..(n - 1) \subseteq run
    /\ ~Achieved(n)
    /\ \A t \in printed : t.script # n
    /\ Prints(n) # {}
    /\ run' = run \cup {n}
    /\ printed' = printed \cup Prints(n)
    /\ UNCHANGED <<gvars, legacy, upgraded, oldOffer, offers, accounts, authority, discards>>

Execute(n) ==
    \E t \in printed :
        /\ t.script = n
        /\ printed' = printed \ {t}
        /\ IF ENABLED Applies(t)
           THEN Applies(t)
           ELSE UNCHANGED <<gvars, legacy, oldOffer, offers, accounts, authority>>
        /\ UNCHANGED <<upgraded, run, discards>>

\* It was not executed before its blockhash was too old.
Discard ==
    /\ discards < MaxDiscards
    /\ \E t \in printed : printed' = printed \ {t}
    /\ discards' = discards + 1
    /\ UNCHANGED <<gvars, legacy, upgraded, oldOffer, offers, accounts, authority, run>>

\* Only the program before can close its offers.
UpgradeProgram ==
    /\ ~upgraded /\ ~oldOffer
    /\ upgraded' = TRUE
    /\ UNCHANGED <<gvars, legacy, oldOffer, offers, accounts, authority, run, printed,
                   discards>>

Next == (\E n \in Scripts : Run(n) \/ Execute(n)) \/ Discard \/ UpgradeProgram

\* The operators go on until the upgrade is done.
Fairness ==
    /\ \A n \in Scripts : WF_vars(Run(n)) /\ WF_vars(Execute(n))
    /\ WF_vars(UpgradeProgram)

Spec == Init /\ [][Next]_vars /\ Fairness

-----------------------------------------------------------------------------
(* Properties.                                                             *)

\* An offer made by the upgrade finds both accounts of the permissionless
\* authority, although its script looks for them when it prints and the two
\* offers share one (createMakeOfferWithVectorTransaction, buildCreate-
\* PermissionlessTokenAccountsIxs).  The vault's ONyc account and the boss's
\* account of the stable coin, which a trade needs too, no script creates.
IntermediaryIsReady ==
    \A stable \in offers : {stable, "onyc"} \subseteq accounts

\* Whatever order the transactions execute in, and however often one fails, the
\* upgrade arrives: the multisig is the boss of an account of the new layout, the
\* program mints ONyc, and both offers are there (scripts 001 to 008).
UpgradeCompletes ==
    <>[](/\ upgraded /\ ~legacy
         /\ state.boss = Squad
         /\ authority = ProgramMint
         /\ offers = Stables)
=============================================================================
