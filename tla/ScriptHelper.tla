---------------------------- MODULE ScriptHelper ----------------------------
(***************************************************************************)
(* The builders of scripts/utils/script-helper.ts: for each instruction,   *)
(* the accounts that the helper names itself.  Anchor's client must find   *)
(* the rest (AccountResolver), or no transaction is built.                 *)
(***************************************************************************)
EXTENDS AccountResolver

I == INSTANCE Interface

\* A builder, from the instruction's accounts in the IDL and those given: whether
\* the client can complete them, so that .instruction() does not throw; and
\* whether the caller's key signs, as a signer that is not given is the wallet.
Builder(name, ix, given) ==
    [name |-> name, complete |-> Resolves(ix, given), callerSigns |-> ix.signers \subseteq given]

PairAnd(others) == {"tokenInMint", "tokenOutMint"} \cup others
Vault == {"tokenMint", "tokenProgram", "boss"}

buildMakeOfferIx ==
    Builder("makeOffer", I!makeOffer, PairAnd({"tokenInProgram", "boss"}))

buildAddOfferVectorIx == Builder("addOfferVector", I!addOfferVector, PairAnd({"boss"}))

buildUpdateOfferFeeIx == Builder("updateOfferFee", I!updateOfferFee, PairAnd({"boss"}))

buildDeleteOfferVectorIx ==
    Builder("deleteOfferVector", I!deleteOfferVector, PairAnd({"boss"}))

buildTakeOfferIx ==
    Builder("takeOffer", I!takeOffer,
        PairAnd({"user", "tokenInProgram", "tokenOutProgram"}))

buildTakeOfferPermissionlessIx ==
    Builder("takeOfferPermissionless", I!takeOfferPermissionless,
        PairAnd({"user", "vaultAuthority", "permissionlessAuthority", "mintAuthority",
             "tokenInProgram", "tokenOutProgram"}))

buildOfferVaultDepositIx == Builder("offerVaultDeposit", I!offerVaultDeposit, Vault)

buildOfferVaultWithdrawIx == Builder("offerVaultWithdraw", I!offerVaultWithdraw, Vault)

buildRedemptionVaultDepositIx ==
    Builder("redemptionVaultDeposit", I!redemptionVaultDeposit, Vault)

buildRedemptionVaultWithdrawIx ==
    Builder("redemptionVaultWithdraw", I!redemptionVaultWithdraw, Vault)

buildSetRedemptionAdminIx ==
    Builder("setRedemptionAdmin", I!setRedemptionAdmin, {"boss"})

buildDeleteAllOfferVectorsIx ==
    Builder("deleteAllOfferVectors", I!deleteAllOfferVectors, PairAnd({"boss"}))

buildClearAdminsIx == Builder("clearAdmins", I!clearAdmins, {"boss"})

buildAddAdminIx == Builder("addAdmin", I!addAdmin, {"boss"})

buildRemoveAdminIx == Builder("removeAdmin", I!removeAdmin, {"boss"})

buildProposeBossIx == Builder("proposeBoss", I!proposeBoss, {"boss"})

buildAcceptBossIx == Builder("acceptBoss", I!acceptBoss, {"newBoss"})

\* The key passed as the boss signs.
buildSetKillSwitchIx == Builder("setKillSwitch", I!setKillSwitch, {"signer"})

buildCloseStateIx == Builder("closeState", I!closeState, {"boss", "state"})

buildConfigureMaxSupplyIx ==
    Builder("configureMaxSupply", I!configureMaxSupply, {"boss"})

buildAddApproverIx == Builder("addApprover", I!addApprover, {"boss"})

buildRemoveApproverIx == Builder("removeApprover", I!removeApprover, {"boss"})

buildSetOnycMintIx == Builder("setOnycMint", I!setOnycMint, {"boss", "onycMint"})

buildInitializeIx ==
    Builder("initialize", I!initialize, {"boss", "program", "programData", "onycMint"})

buildInitializePermissionlessAuthorityIx ==
    Builder("initializePermissionlessAuthority", I!initializePermissionlessAuthority,
        {"boss"})

buildTransferMintAuthorityToProgramIx ==
    Builder("transferMintAuthorityToProgram", I!transferMintAuthorityToProgram,
        {"boss", "mint", "tokenProgram"})

buildTransferMintAuthorityToBossIx ==
    Builder("transferMintAuthorityToBoss", I!transferMintAuthorityToBoss,
        {"boss", "mint", "tokenProgram"})

\* Neither the boss nor the mint is given: the local wallet signs as the boss.
buildMintToIx == Builder("mintTo", I!mintTo, {"tokenProgram"})

buildMakeRedemptionOfferIx ==
    Builder("makeRedemptionOffer", I!makeRedemptionOffer,
        PairAnd({"tokenInProgram", "tokenOutProgram", "signer"}))

\* The request's account follows from the counter that the client reads in the
\* offer; the accounts that the builder derives itself are not used.
buildCreateRedemptionRequestIx ==
    Builder("createRedemptionRequest", I!createRedemptionRequest,
        {"redemptionOffer", "tokenInMint", "redeemer", "tokenProgram"})

buildFulfillRedemptionRequestIx ==
    Builder("fulfillRedemptionRequest", I!fulfillRedemptionRequest,
        {"redemptionOffer", "redemptionRequest", "redemptionAdmin"})

buildCancelRedemptionRequestIx ==
    Builder("cancelRedemptionRequest", I!cancelRedemptionRequest,
        {"redemptionOffer", "redemptionRequest", "signer"})

buildUpdateRedemptionOfferFeeIx ==
    Builder("updateRedemptionOfferFee", I!updateRedemptionOfferFee,
        {"redemptionOffer", "boss"})

=============================================================================
