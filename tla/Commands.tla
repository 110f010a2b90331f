------------------------------ MODULE Commands ------------------------------
(***************************************************************************)
(* The commands of the console (scripts/cli): the parameters each asks for *)
(* (params/), the options it registers (commands/) and what it builds      *)
(* (implementations/).  The console's steps are in module Console.         *)
(***************************************************************************)
EXTENDS ScriptHelper, Sequences

-----------------------------------------------------------------------------
(* Parameters.                                                             *)

Param(name, type, required, default) ==
    [name |-> name, type |-> type, required |-> required, default |-> default]

\* Required without a default, required with one, and optional.  Numbers are
\* in halves, so that one may be typed with a fraction: 2 stands for 1.
Ask(name, type) == Param(name, type, TRUE, {})
Propose(name, type, value) == Param(name, type, TRUE, {value})
Optional(name, type, value) == Param(name, type, FALSE, {value})

tokenPairParams == <<Propose("tokenIn", "mint", "usdc"), Propose("tokenOut", "mint", "onyc")>>
vaultParams == <<Ask("tokenMint", "mint"), Ask("amount", "amount")>>

initProgramParams == <<Propose("onycMint", "mint", "onyc")>>
initPermissionlessParams == <<Propose("name", "string", "text")>>

mintParams == <<Propose("mint", "mint", "onyc"), Ask("amount", "amount")>>
transferMintAuthorityParams == <<Propose("mint", "mint", "onyc")>>

makeOfferParams ==
    tokenPairParams \o
    <<Optional("fee", "basisPoints", 0), Optional("needsApproval", "boolean", FALSE),
      Optional("permissionless", "boolean", TRUE)>>
addVectorParams ==
    tokenPairParams \o
    <<Ask("baseTime", "timestamp"), Propose("basePrice", "amount", 2),
      Ask("apr", "apr"), Ask("duration", "duration")>>
deleteVectorParams == tokenPairParams \o <<Ask("startTime", "timestamp")>>
updateFeeParams == tokenPairParams \o <<Ask("fee", "basisPoints")>>
takeOfferParams ==
    tokenPairParams \o <<Ask("amount", "amount"), Propose("permissionless", "boolean", FALSE)>>

redemptionTokenPairParams ==
    <<Propose("tokenIn", "mint", "onyc"), Propose("tokenOut", "mint", "usdc")>>
redemptionOfferParams == redemptionTokenPairParams \o <<Optional("fee", "basisPoints", 0)>>
createRequestParams == redemptionTokenPairParams \o <<Ask("amount", "amount")>>
requestParams == redemptionTokenPairParams \o <<Ask("requestId", "string")>>
updateRedemptionFeeParams == redemptionTokenPairParams \o <<Ask("fee", "basisPoints")>>
listRequestsParams ==
    redemptionTokenPairParams \o <<Param("redeemer", "string", FALSE, {})>>

proposeBossParams == <<Ask("newBoss", "publicKey")>>
acceptBossParams == <<Ask("newBoss", "publicKey")>>
adminParams == <<Ask("admin", "publicKey")>>
approverParams == <<Ask("approver", "publicKey")>>
setOnycMintParams == <<Propose("mint", "mint", "onyc")>>
maxSupplyParams == <<Ask("amount", "amount")>>
redemptionAdminParams == <<Ask("redemptionAdmin", "publicKey")>>

-----------------------------------------------------------------------------
(* Implementations: parameters; the builder, which may depend on whether   *)
(* the permissionless flow is asked for; whose key signs and pays; when    *)
(* the operator must confirm; and the mints whose token program is looked  *)
(* up, which fails for a mint that the console does not know.              *)

Signed(params, builder, signer, payer) ==
    [sends |-> TRUE, params |-> params, builds |-> [standard |-> builder, permissionless |-> builder],
     signer |-> signer, payer |-> payer, confirm |-> "never", lookups |-> {}]

ByBoss(params, builder) == Signed(params, builder, "boss", "boss")
ByWallet(params, builder) == Signed(params, builder, "wallet", "wallet")

NoBuilder == Builder("none", Ix({}, {}, {}, <<>>), {})

\* A command that only reads accounts, or simulates a view of the program.
Reads(params) ==
    [sends |-> FALSE, params |-> params,
     builds |-> [standard |-> NoBuilder, permissionless |-> NoBuilder],
     signer |-> "none", payer |-> "none", confirm |-> "never", lookups |-> {}]
Views(params, builder) ==
    [Reads(params) EXCEPT !.builds.standard = builder]

executeInitProgram ==
    [Signed(initProgramParams, buildInitializeIx, "config", "config")
        EXCEPT !.confirm = "unlessDryRun"]
executeInitPermissionless ==
    ByBoss(initPermissionlessParams, buildInitializePermissionlessAuthorityIx)

executeMarketNav == Views(tokenPairParams, Builder("getNav", I!getNav, PairAnd({})))
executeMarketNavAdjustment ==
    Views(tokenPairParams, Builder("getNavAdjustment", I!getNavAdjustment, PairAnd({})))
executeMarketApy == Views(tokenPairParams, Builder("getApy", I!getApy, PairAnd({})))
executeMarketTvl ==
    [Views(tokenPairParams,
           Builder("getTvl", I!getTvl, PairAnd({"vaultTokenOutAccount", "tokenOutProgram"})))
        EXCEPT !.lookups = {"tokenOut"}]
executeMarketSupply ==
    Views(<<>>, Builder("getCirculatingSupply", I!getCirculatingSupply,
                        {"onycVaultAccount", "tokenProgram"}))

\* The transfer to the boss asks for the parameters of mint-to, an amount too.
executeMintAuthorityToBoss ==
    [ByBoss(mintParams, buildTransferMintAuthorityToBossIx) EXCEPT !.lookups = {"mint"}]
executeMintAuthorityToProgram ==
    [ByBoss(transferMintAuthorityParams, buildTransferMintAuthorityToProgramIx)
        EXCEPT !.confirm = "unlessDryRun", !.lookups = {"mint"}]
executeMintTo == ByBoss(mintParams, buildMintToIx)

executeOfferMake ==
    [ByBoss(makeOfferParams, buildMakeOfferIx) EXCEPT !.lookups = {"tokenIn", "tokenOut"}]
executeOfferFetch == Reads(tokenPairParams)
executeOfferTake ==
    [ByWallet(takeOfferParams, buildTakeOfferIx)
        EXCEPT !.builds.permissionless = buildTakeOfferPermissionlessIx,
               !.lookups = {"tokenIn", "tokenOut"}]
executeOfferAddVector == ByBoss(addVectorParams, buildAddOfferVectorIx)
executeOfferDeleteVector == ByBoss(deleteVectorParams, buildDeleteOfferVectorIx)
executeOfferDeleteAllVectors == ByBoss(tokenPairParams, buildDeleteAllOfferVectorsIx)
executeOfferUpdateFee == ByBoss(updateFeeParams, buildUpdateOfferFeeIx)

executeRedemptionMakeOffer ==
    [ByBoss(redemptionOfferParams, buildMakeRedemptionOfferIx)
        EXCEPT !.lookups = {"tokenIn", "tokenOut"}]
\* The parameters of this name that params/index.ts exports are the offers' pair.
executeRedemptionFetchOffer == Reads(tokenPairParams)
executeRedemptionFetchRequest == Reads(requestParams)
executeRedemptionListRequests == Reads(listRequestsParams)
executeRedemptionCreateRequest == ByWallet(createRequestParams, buildCreateRedemptionRequestIx)
executeRedemptionFulfill ==
    Signed(requestParams, buildFulfillRedemptionRequestIx, "redemptionAdmin", "boss")
executeRedemptionCancel == ByBoss(requestParams, buildCancelRedemptionRequestIx)
executeRedemptionUpdateFee == ByBoss(updateRedemptionFeeParams, buildUpdateRedemptionOfferFeeIx)

executeStateGet == Reads(<<>>)
executeStateProposeBoss == ByBoss(proposeBossParams, buildProposeBossIx)
executeStateAcceptBoss == Signed(acceptBossParams, buildAcceptBossIx, "newBoss", "newBoss")
executeStateAddAdmin == ByBoss(adminParams, buildAddAdminIx)
executeStateRemoveAdmin == ByBoss(adminParams, buildRemoveAdminIx)

\* Mutant: the operator is not asked.
executeStateClearAdmins_unasked == ByBoss(<<>>, buildClearAdminsIx)

executeStateClearAdmins ==
    [ByBoss(<<>>, buildClearAdminsIx) EXCEPT !.confirm = "interactive"]
executeStateAddApprover == ByBoss(approverParams, buildAddApproverIx)
executeStateRemoveApprover == ByBoss(approverParams, buildRemoveApproverIx)
executeStateSetOnycMint == ByBoss(setOnycMintParams, buildSetOnycMintIx)
executeStateKillSwitch ==
    [ByBoss(<<>>, buildSetKillSwitchIx) EXCEPT !.confirm = "interactive"]
executeStateMaxSupply == ByBoss(maxSupplyParams, buildConfigureMaxSupplyIx)
executeStateSetRedemptionAdmin == ByBoss(redemptionAdminParams, buildSetRedemptionAdminIx)
executeStateClose == [ByBoss(<<>>, buildCloseStateIx) EXCEPT !.confirm = "interactive"]

executeVaultDeposit ==
    [ByBoss(vaultParams, buildOfferVaultDepositIx) EXCEPT !.lookups = {"tokenMint"}]
executeVaultWithdraw ==
    [ByBoss(vaultParams, buildOfferVaultWithdrawIx) EXCEPT !.lookups = {"tokenMint"}]
executeVaultRedemptionDeposit ==
    [ByBoss(vaultParams, buildRedemptionVaultDepositIx) EXCEPT !.lookups = {"tokenMint"}]
executeVaultRedemptionWithdraw ==
    [ByBoss(vaultParams, buildRedemptionVaultWithdrawIx) EXCEPT !.lookups = {"tokenMint"}]

-----------------------------------------------------------------------------
(* Registered commands, with the names that their options have.            *)

Command(options, implementation) == [options |-> options, run |-> implementation]

PairOptions == {"tokenIn", "tokenOut"}

\* The option of set_redemption_admin does not have the parameter's name.
registerStateCommands ==
    [get |-> Command({}, executeStateGet),
     propose_boss |-> Command({"newBoss"}, executeStateProposeBoss),
     accept_boss |-> Command({"newBoss"}, executeStateAcceptBoss),
     add_admin |-> Command({"admin"}, executeStateAddAdmin),
     remove_admin |-> Command({"admin"}, executeStateRemoveAdmin),
     add_approver |-> Command({"approver"}, executeStateAddApprover),
     remove_approver |-> Command({"approver"}, executeStateRemoveApprover),
     set_onyc_mint |-> Command({"mint"}, executeStateSetOnycMint),
     kill_switch |-> Command({"enable", "disable"}, executeStateKillSwitch),
     max_supply |-> Command({"amount"}, executeStateMaxSupply),
     set_redemption_admin |-> Command({"admin"}, executeStateSetRedemptionAdmin),
     clear_admins |-> Command({}, executeStateClearAdmins),
     close |-> Command({}, executeStateClose)]

registerMarketCommands ==
    [nav |-> Command(PairOptions, executeMarketNav),
     nav_adjustment |-> Command(PairOptions, executeMarketNavAdjustment),
     apy |-> Command(PairOptions, executeMarketApy),
     tvl |-> Command(PairOptions, executeMarketTvl),
     supply |-> Command({}, executeMarketSupply)]

registerOfferCommands ==
    [make |-> Command(PairOptions \cup {"fee", "needsApproval", "permissionless"}, executeOfferMake),
     fetch |-> Command(PairOptions, executeOfferFetch),
     take |-> Command(PairOptions \cup {"amount", "permissionless"}, executeOfferTake),
     add_vector |-> Command(PairOptions \cup {"baseTime", "basePrice", "apr", "duration"},
                            executeOfferAddVector),
     delete_vector |-> Command(PairOptions \cup {"startTime"}, executeOfferDeleteVector),
     update_fee |-> Command(PairOptions \cup {"fee"}, executeOfferUpdateFee),
     delete_all_vectors |-> Command(PairOptions, executeOfferDeleteAllVectors)]

\* The option --token arrives as tokenMint.
registerVaultCommands ==
    [deposit |-> Command({"tokenMint", "amount"}, executeVaultDeposit),
     withdraw |-> Command({"tokenMint", "amount"}, executeVaultWithdraw),
     redemption_deposit |-> Command({"tokenMint", "amount"}, executeVaultRedemptionDeposit),
     redemption_withdraw |-> Command({"tokenMint", "amount"}, executeVaultRedemptionWithdraw)]

registerMintAuthorityCommands ==
    [mint_to |-> Command({"mint", "amount"}, executeMintTo),
     to_program |-> Command({"mint"}, executeMintAuthorityToProgram),
     to_boss |-> Command({"mint"}, executeMintAuthorityToBoss)]

registerRedemptionCommands ==
    [make_offer |-> Command(PairOptions \cup {"fee"}, executeRedemptionMakeOffer),
     fetch_offer |-> Command(PairOptions, executeRedemptionFetchOffer),
     update_fee |-> Command(PairOptions \cup {"fee"}, executeRedemptionUpdateFee),
     create_request |-> Command(PairOptions \cup {"amount"}, executeRedemptionCreateRequest),
     fetch_request |-> Command(PairOptions \cup {"requestId"}, executeRedemptionFetchRequest),
     fulfill |-> Command(PairOptions \cup {"requestId"}, executeRedemptionFulfill),
     cancel |-> Command(PairOptions \cup {"requestId"}, executeRedemptionCancel),
     list_requests |-> Command(PairOptions, executeRedemptionListRequests)]

registerInitCommands ==
    [program |-> Command({"onycMint"}, executeInitProgram),
     permissionless |-> Command({"name"}, executeInitPermissionless)]

main ==
    [state |-> registerStateCommands, market |-> registerMarketCommands,
     offer |-> registerOfferCommands, vault |-> registerVaultCommands,
     mint_authority |-> registerMintAuthorityCommands,
     redemption |-> registerRedemptionCommands, init |-> registerInitCommands]

\* A command is named by its group and its name in it.
CommandNames == UNION {{<<group, name>> : name \in DOMAIN main[group]} : group \in DOMAIN main}
=============================================================================
