------------------------------ MODULE Interface ------------------------------
(***************************************************************************)
(* The accounts of every instruction of the program as its generated       *)
(* TypeScript interface lists them (target/types/onreapp.ts): which sign,  *)
(* which the caller must name, which have a fixed address, and which are   *)
(* derived from others.  An account whose address depends on its own       *)
(* contents cannot be derived before it is known.                          *)
(***************************************************************************)
EXTENDS AccountResolver, TLC

\* The address of an offer is derived from its two mints.
Pair == {"tokenInMint", "tokenOutMint"}

Programs == {"associatedTokenProgram", "systemProgram"}

\* An associated token account is derived from its owner, the token's program
\* and its mint: of the token paid in, and of the token paid out.
In(owner) == {owner, "tokenInProgram", "tokenInMint"}
Out(owner) == {owner, "tokenOutProgram", "tokenOutMint"}

VaultTokenAccounts(authority) ==
    [vaultTokenInAccount |-> In(authority), vaultTokenOutAccount |-> Out(authority)]

RedemptionVaultAccounts ==
    [redemptionVaultAuthority |-> {}] @@ VaultTokenAccounts("redemptionVaultAuthority")

UserTokenAccounts ==
    [userTokenInAccount |-> In("user"), userTokenOutAccount |-> Out("user")]

PermissionlessTokenAccounts ==
    [permissionlessTokenInAccount |-> In("permissionlessAuthority"),
     permissionlessTokenOutAccount |-> Out("permissionlessAuthority")]

BossTokenInAccount == [bossTokenInAccount |-> In("boss")]

\* The accounts that a redemption pays to.
PayoutAccounts == [userTokenOutAccount |-> Out("redeemer")] @@ BossTokenInAccount

\* The accounts between which a redeemer's tokens are locked and returned.
LockingAccounts ==
    [redeemerTokenAccount |-> {"redeemer", "tokenProgram", "tokenInMint"},
     vaultTokenAccount |-> {"redemptionVaultAuthority", "tokenProgram", "tokenInMint"}]

\* The boss signs, and the State account names it.
BossInstruction == Ix({"boss"}, {}, {}, [state |-> {}, boss |-> {"state"}])

\* The boss changes the offer of two mints.
OfferInstruction ==
    Ix({"boss"}, Pair, {}, [offer |-> Pair, state |-> {}, boss |-> {"state"}])

\* Anybody asks about the offer of two mints.
OfferView == Ix({}, Pair, {}, [offer |-> Pair])

\* The boss moves tokens between its own account and a vault.
OfferVaultTransfer ==
    Ix({"boss"}, {"tokenMint", "tokenProgram"}, Programs,
       [vaultAuthority |-> {}, state |-> {}, boss |-> {"state"},
        bossTokenAccount |-> {"boss", "tokenProgram", "tokenMint"},
        vaultTokenAccount |-> {"vaultAuthority", "tokenProgram", "tokenMint"}])

RedemptionVaultTransfer ==
    Ix({"boss"}, {"tokenMint", "tokenProgram"}, Programs,
       [redemptionVaultAuthority |-> {}, state |-> {}, boss |-> {"state"},
        bossTokenAccount |-> {"boss", "tokenProgram", "tokenMint"},
        vaultTokenAccount |-> {"redemptionVaultAuthority", "tokenProgram", "tokenMint"}])

acceptBoss ==
    Ix({"newBoss"}, {}, {}, [state |-> {}])

addAdmin == BossInstruction

addApprover == BossInstruction

addOfferVector == OfferInstruction

cancelRedemptionRequest ==
    Ix({"signer"}, {"redeemer", "redemptionAdmin", "tokenInMint", "tokenProgram"},
       Programs,
       [state |-> {}, redemptionOffer |-> {"redemptionOffer"},
        redemptionRequest |-> {"redemptionRequest"}, redemptionVaultAuthority |-> {}]
           @@ LockingAccounts)

clearAdmins == BossInstruction

closeState ==
    Ix({"boss"}, {"state"}, {"systemProgram"}, <<>>)

configureMaxSupply == BossInstruction

createRedemptionRequest ==
    Ix({"redeemer"}, {"tokenInMint", "tokenProgram"}, Programs,
       [state |-> {}, redemptionOffer |-> {"redemptionOffer"},
        redemptionRequest |-> {"redemptionOffer"}, redemptionVaultAuthority |-> {}]
           @@ LockingAccounts)

deleteAllOfferVectors == OfferInstruction

deleteOfferVector == OfferInstruction

fulfillRedemptionRequest ==
    Ix({"redemptionAdmin"}, Pair \cup {"offer", "tokenInProgram", "tokenOutProgram", "redeemer"},
       Programs,
       [state |-> {}, boss |-> {"state"}, redemptionOffer |-> {"redemptionOffer"},
        redemptionRequest |-> {"redemptionRequest"}, mintAuthority |-> {}]
           @@ RedemptionVaultAccounts @@ PayoutAccounts)

getApy == OfferView

getCirculatingSupply ==
    Ix({}, {"onycVaultAccount", "tokenProgram"}, {},
       [onycMint |-> {"state"}, state |-> {}, vaultAuthority |-> {}])

getNav == OfferView

getNavAdjustment == OfferView

getTvl ==
    Ix({}, Pair \cup {"vaultTokenOutAccount", "tokenOutProgram"}, {},
       [offer |-> Pair, vaultAuthority |-> {}])

initialize ==
    Ix({"boss"}, {"onycMint"}, {"program", "systemProgram"},
       [state |-> {}, mintAuthority |-> {}, offerVaultAuthority |-> {}])

initializePermissionlessAuthority ==
    Ix({"boss"}, {}, {"systemProgram"},
       [permissionlessAuthority |-> {}, state |-> {}, boss |-> {"state"}])

makeOffer ==
    Ix({"boss"}, Pair \cup {"tokenInProgram"}, Programs,
       [vaultAuthority |-> {},
        vaultTokenInAccount |-> In("vaultAuthority"),
        offer |-> Pair, state |-> {}, boss |-> {"state"}])

makeRedemptionOffer ==
    Ix({"signer"}, Pair \cup {"tokenInProgram", "tokenOutProgram"}, Programs,
       [state |-> {}, offer |-> {"tokenOutMint", "tokenInMint"}, redemptionOffer |-> Pair]
           @@ RedemptionVaultAccounts)

mintTo ==
    Ix({"boss"}, {"tokenProgram"}, Programs,
       [state |-> {}, boss |-> {"state"}, onycMint |-> {"state"},
        bossOnycAccount |-> {"boss", "tokenProgram", "onycMint"},
        mintAuthority |-> {}])

offerVaultDeposit == OfferVaultTransfer

offerVaultWithdraw == OfferVaultTransfer

proposeBoss == BossInstruction

redemptionVaultDeposit == RedemptionVaultTransfer

redemptionVaultWithdraw == RedemptionVaultTransfer

removeAdmin == BossInstruction

removeApprover == BossInstruction

setKillSwitch ==
    Ix({"signer"}, {}, {}, [state |-> {}])

setOnycMint ==
    Ix({"boss"}, {"onycMint"}, {}, [state |-> {}, boss |-> {"state"}])

setRedemptionAdmin == BossInstruction

takeOffer ==
    Ix({"user"}, Pair \cup {"tokenInProgram", "tokenOutProgram"},
       Programs \cup {"instructionsSysvar"},
       [offer |-> Pair, state |-> {}, boss |-> {"state"}, vaultAuthority |-> {},
        mintAuthority |-> {}]
           @@ VaultTokenAccounts("vaultAuthority") @@ UserTokenAccounts @@ BossTokenInAccount)

takeOfferPermissionless ==
    Ix({"user"}, Pair \cup {"vaultAuthority", "permissionlessAuthority", "tokenInProgram",
                        "tokenOutProgram", "mintAuthority"},
       Programs \cup {"instructionsSysvar"},
       [offer |-> Pair, state |-> {}, boss |-> {"state"}]
           @@ VaultTokenAccounts("vaultAuthority") @@ PermissionlessTokenAccounts
           @@ UserTokenAccounts @@ BossTokenInAccount)

transferMintAuthorityToBoss ==
    Ix({"boss"}, {"mint", "tokenProgram"}, {},
       [boss |-> {"state"}, state |-> {}, mintAuthority |-> {}])

transferMintAuthorityToProgram ==
    Ix({"boss"}, {"mint", "tokenProgram"}, {},
       [boss |-> {"state"}, state |-> {}, mintAuthority |-> {}])

updateOfferFee == OfferInstruction

updateRedemptionOfferFee ==
    Ix({"boss"}, {}, {},
       [redemptionOffer |-> {"redemptionOffer"}, state |-> {}, boss |-> {"state"}])

-----------------------------------------------------------------------------
\* The token accounts of an offer of the program before its upgrade, and those of
\* the boss: of the token sold, and of the token bought.
OldOfferAccounts ==
    [offerSellTokenAccount |-> {"offerTokenAuthority", "offer"},
     offerBuy1TokenAccount |-> {"offerTokenAuthority", "offer"}]
OldBossAccounts ==
    [bossSellTokenAccount |-> {"boss", "offer"}, bossBuy1TokenAccount |-> {"boss", "offer"}]

\* The instruction of the program before its upgrade (old-idl/onre_app.ts) that
\* returns an offer's tokens.  What it derives depends on the offer's contents,
\* so the client can read it once the offer is named.
closeOfferOne ==
    Ix({"boss"}, {"offer", "state"}, {"tokenProgram", "systemProgram"},
       [offerTokenAuthority |-> {"offer"}, boss |-> {"state"}]
           @@ OldOfferAccounts @@ OldBossAccounts)
=============================================================================
