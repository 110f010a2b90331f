---------------------------- MODULE ClientProofs -----------------------------
(***************************************************************************)
(* Theorems about the programs that an operator runs: a session of the     *)
(* console, and the upgrade scripts.                                       *)
(*                                                                         *)
(* For the console, with any number of hand-overs during a session and any *)
(* keys: the inductive invariant says at each step of the session what the *)
(* operator has been asked, what has been read from the State account and  *)
(* what has left this machine; it rests on facts about every registered    *)
(* command (whose key signs, when it is confirmed, what its parameters are *)
(* called), which are lemmas of their own.                                 *)
(*                                                                         *)
(* For the upgrade, at the end: what a printed transaction will open is    *)
(* enough for the intermediary of the offer it makes.                      *)
(***************************************************************************)
EXTENDS Console, TLAPS

\* The names of the parameters differ.
UniqueNames(params) ==
    \A i, j \in DOMAIN params : params[i].name = params[j].name => params[i] = params[j]

\* A builder of a command is dangerous exactly if the command is confirmed; a
\* command that the boss signs is paid by the boss, and its builder names the
\* signer unless it is that of mint-to.
GoodBuilder(r, b) ==
    /\ b.name \in Dangerous <=> r.confirm \in {"interactive", "unlessDryRun"}
    /\ r.signer = "boss" => r.payer = "boss" /\ (b.name = "mintTo" \/ b.callerSigns)

GoodCommand(r) ==
    /\ GoodBuilder(r, r.builds.standard)
    /\ GoodBuilder(r, r.builds.permissionless)
    /\ UniqueNames(r.params)
-----------------------------------------------------------------------------
(* The inductive invariant.                                                *)

Asking == {"idle", "prompt", "read", "count", "confirm"}
Building == {"payer", "build"}
Handling == {"select", "wallet", "send"}

\* The questions of confirmDangerousOperation that were answered with yes.
Agreed == IF MustConfirm(session) THEN 1 ELSE 0

ConsentsCounted ==
    /\ step \in Asking \cup Building \cup Handling \cup {"wait", "ended"}
    /\ step \in Asking => consents = 0
    /\ step \in Building \cup Handling => consents = Agreed
    /\ step = "wait" => consents = Agreed + 1
    /\ pending # {} \/ landed =>
         step \in {"wait", "ended"} /\ session.mode = "interactive" /\ consents = Agreed + 1

\* The session is the one that Start and the prompts left.
SessionKnown ==
    /\ session = [cmd |-> session.cmd, mode |-> session.mode, flags |-> session.flags,
                  disable |-> session.disable, param |-> session.param,
                  type |-> session.type, value |-> session.value,
                  malformed |-> session.malformed, prompted |-> session.prompted]
    /\ step # "idle" => session.cmd \in CommandNames
    /\ step \in {"idle", "prompt"} => ~session.prompted
    /\ step = "prompt" /\ session.param # "none" =>
         \E p \in ParamsOf(session.cmd) :
            p.name = session.param /\ p.type = session.type /\ session.value \in Inputs(p.type)
    /\ session.prompted /\ session.type \in NumericTypes /\ ~DropsNumber(session) =>
         2 * NumberArg(session) = session.value

\* The transaction is the session's, and a transaction is copied at the end only.
TransactionKnown ==
    /\ step \in Asking \cup Building => tx = {}
    /\ step \in Handling \cup {"wait"} => session.mode = "interactive"
    /\ step # "ended" => copied = {}
    /\ \A t \in tx : t.name = BuilderOf(session).name /\ t.number = NumberArg(session)

ForTheBoss(t) ==
    Impl(session.cmd).signer = "boss" /\ t.name # "mintTo"
        => {t.signer, t.payer} \subseteq bosses \ {NoKey}

\* What has been read of the boss is remembered.
BossesKnown ==
    /\ step # "idle" => state.boss \in bosses
    /\ step = "build" /\ Impl(session.cmd).payer = "boss" => payer \in bosses \ {NoKey}
    /\ \A t \in tx \cup copied : ForTheBoss(t)

Inv ==
    /\ SentMeansLanded
    /\ ConsentsCounted
    /\ SessionKnown
    /\ TransactionKnown
    /\ BossesKnown
-----------------------------------------------------------------------------
(* The builders and the commands.                                          *)

\* The keys of the instructions that the boss signs.
LEMMA InterfaceSigners ==
  /\ I!BossInstruction.signers = {"boss"}
  /\ I!OfferInstruction.signers = {"boss"}
  /\ I!OfferVaultTransfer.signers = {"boss"}
  /\ I!RedemptionVaultTransfer.signers = {"boss"}
  /\ I!makeOffer.signers = {"boss"}
  /\ I!closeState.signers = {"boss"}
  /\ I!setOnycMint.signers = {"boss"}
  /\ I!setKillSwitch.signers = {"signer"}
  /\ I!cancelRedemptionRequest.signers = {"signer"}
  /\ I!makeRedemptionOffer.signers = {"signer"}
  /\ I!initializePermissionlessAuthority.signers = {"boss"}
  /\ I!transferMintAuthorityToBoss.signers = {"boss"}
  /\ I!transferMintAuthorityToProgram.signers = {"boss"}
  /\ I!updateRedemptionOfferFee.signers = {"boss"}
  BY DEF I!BossInstruction, I!OfferInstruction, I!OfferVaultTransfer,
         I!RedemptionVaultTransfer, I!makeOffer, I!closeState, I!setOnycMint, I!setKillSwitch,
         I!cancelRedemptionRequest, I!makeRedemptionOffer, I!initializePermissionlessAuthority,
         I!transferMintAuthorityToBoss, I!transferMintAuthorityToProgram,
         I!updateRedemptionOfferFee, I!Ix

\* A builder whose accounts name the signer lets the caller sign.
LEMMA BuilderSpec ==
  ASSUME NEW name, NEW ix, NEW given
  PROVE  /\ Builder(name, ix, given).name = name
         /\ ix.signers \subseteq given => Builder(name, ix, given).callerSigns
  BY DEF Builder

BossBuilders ==
    {buildMakeOfferIx, buildAddOfferVectorIx, buildUpdateOfferFeeIx, buildDeleteOfferVectorIx,
     buildDeleteAllOfferVectorsIx, buildOfferVaultDepositIx, buildOfferVaultWithdrawIx,
     buildRedemptionVaultDepositIx, buildRedemptionVaultWithdrawIx, buildSetRedemptionAdminIx,
     buildAddAdminIx, buildRemoveAdminIx, buildProposeBossIx, buildConfigureMaxSupplyIx,
     buildAddApproverIx, buildRemoveApproverIx, buildSetOnycMintIx,
     buildInitializePermissionlessAuthorityIx, buildTransferMintAuthorityToBossIx,
     buildMakeRedemptionOfferIx, buildCancelRedemptionRequestIx,
     buildUpdateRedemptionOfferFeeIx}

DangerousBossBuilders ==
    {buildClearAdminsIx, buildSetKillSwitchIx, buildCloseStateIx,
     buildTransferMintAuthorityToProgramIx}

\* The caller signs what the builders of the boss's commands build, and those of
\* the dangerous commands are the dangerous ones.
LEMMA BossBuildersSign ==
  /\ \A b \in BossBuilders : b.callerSigns /\ b.name \notin Dangerous
  /\ \A b \in DangerousBossBuilders : b.callerSigns /\ b.name \in Dangerous
<1>1. /\ buildMakeOfferIx.callerSigns /\ buildMakeOfferIx.name = "makeOffer"
      /\ buildAddOfferVectorIx.callerSigns /\ buildAddOfferVectorIx.name = "addOfferVector"
      /\ buildUpdateOfferFeeIx.callerSigns /\ buildUpdateOfferFeeIx.name = "updateOfferFee"
      /\ buildDeleteOfferVectorIx.callerSigns
      /\ buildDeleteOfferVectorIx.name = "deleteOfferVector"
      /\ buildDeleteAllOfferVectorsIx.callerSigns
      /\ buildDeleteAllOfferVectorsIx.name = "deleteAllOfferVectors"
  BY InterfaceSigners, BuilderSpec
     DEF buildMakeOfferIx, buildAddOfferVectorIx, buildUpdateOfferFeeIx,
         buildDeleteOfferVectorIx, buildDeleteAllOfferVectorsIx, PairAnd,
         I!addOfferVector, I!updateOfferFee, I!deleteOfferVector, I!deleteAllOfferVectors
<1>2. /\ buildOfferVaultDepositIx.callerSigns
      /\ buildOfferVaultDepositIx.name = "offerVaultDeposit"
      /\ buildOfferVaultWithdrawIx.callerSigns
      /\ buildOfferVaultWithdrawIx.name = "offerVaultWithdraw"
      /\ buildRedemptionVaultDepositIx.callerSigns
      /\ buildRedemptionVaultDepositIx.name = "redemptionVaultDeposit"
      /\ buildRedemptionVaultWithdrawIx.callerSigns
      /\ buildRedemptionVaultWithdrawIx.name = "redemptionVaultWithdraw"
  BY InterfaceSigners, BuilderSpec
     DEF buildOfferVaultDepositIx, buildOfferVaultWithdrawIx, buildRedemptionVaultDepositIx,
         buildRedemptionVaultWithdrawIx, Vault, I!offerVaultDeposit, I!offerVaultWithdraw,
         I!redemptionVaultDeposit, I!redemptionVaultWithdraw
<1>3. /\ buildSetRedemptionAdminIx.callerSigns
      /\ buildSetRedemptionAdminIx.name = "setRedemptionAdmin"
      /\ buildAddAdminIx.callerSigns /\ buildAddAdminIx.name = "addAdmin"
      /\ buildRemoveAdminIx.callerSigns /\ buildRemoveAdminIx.name = "removeAdmin"
      /\ buildClearAdminsIx.callerSigns /\ buildClearAdminsIx.name = "clearAdmins"
      /\ buildProposeBossIx.callerSigns /\ buildProposeBossIx.name = "proposeBoss"
      /\ buildConfigureMaxSupplyIx.callerSigns
      /\ buildConfigureMaxSupplyIx.name = "configureMaxSupply"
      /\ buildAddApproverIx.callerSigns /\ buildAddApproverIx.name = "addApprover"
      /\ buildRemoveApproverIx.callerSigns /\ buildRemoveApproverIx.name = "removeApprover"
  BY InterfaceSigners, BuilderSpec
     DEF buildSetRedemptionAdminIx, buildAddAdminIx, buildRemoveAdminIx, buildClearAdminsIx,
         buildProposeBossIx, buildConfigureMaxSupplyIx, buildAddApproverIx,
         buildRemoveApproverIx, I!setRedemptionAdmin, I!addAdmin, I!removeAdmin,
         I!clearAdmins, I!proposeBoss, I!configureMaxSupply, I!addApprover, I!removeApprover
<1>4. /\ buildSetOnycMintIx.callerSigns /\ buildSetOnycMintIx.name = "setOnycMint"
      /\ buildSetKillSwitchIx.callerSigns /\ buildSetKillSwitchIx.name = "setKillSwitch"
      /\ buildCloseStateIx.callerSigns /\ buildCloseStateIx.name = "closeState"
      /\ buildInitializePermissionlessAuthorityIx.callerSigns
      /\ buildInitializePermissionlessAuthorityIx.name = "initializePermissionlessAuthority"
      /\ buildTransferMintAuthorityToBossIx.callerSigns
      /\ buildTransferMintAuthorityToBossIx.name = "transferMintAuthorityToBoss"
      /\ buildTransferMintAuthorityToProgramIx.callerSigns
      /\ buildTransferMintAuthorityToProgramIx.name = "transferMintAuthorityToProgram"
  BY InterfaceSigners, BuilderSpec
     DEF buildSetOnycMintIx, buildSetKillSwitchIx, buildCloseStateIx,
         buildInitializePermissionlessAuthorityIx, buildTransferMintAuthorityToBossIx,
         buildTransferMintAuthorityToProgramIx
<1>5. /\ buildMakeRedemptionOfferIx.callerSigns
      /\ buildMakeRedemptionOfferIx.name = "makeRedemptionOffer"
      /\ buildCancelRedemptionRequestIx.callerSigns
      /\ buildCancelRedemptionRequestIx.name = "cancelRedemptionRequest"
      /\ buildUpdateRedemptionOfferFeeIx.callerSigns
      /\ buildUpdateRedemptionOfferFeeIx.name = "updateRedemptionOfferFee"
  BY InterfaceSigners, BuilderSpec
     DEF buildMakeRedemptionOfferIx, buildCancelRedemptionRequestIx,
         buildUpdateRedemptionOfferFeeIx, PairAnd
<1>6. ASSUME NEW b \in BossBuilders PROVE b.callerSigns /\ b.name \notin Dangerous
  BY <1>1, <1>2, <1>3, <1>4, <1>5 DEF BossBuilders, Dangerous
<1>7. ASSUME NEW b \in DangerousBossBuilders PROVE b.callerSigns /\ b.name \in Dangerous
  BY <1>3, <1>4 DEF DangerousBossBuilders, Dangerous
<1> QED BY <1>6, <1>7

ParamLists ==
    {<<>>, tokenPairParams, vaultParams, initProgramParams, initPermissionlessParams,
     mintParams, transferMintAuthorityParams, makeOfferParams, addVectorParams,
     deleteVectorParams, updateFeeParams, takeOfferParams, redemptionOfferParams,
     createRequestParams, requestParams, updateRedemptionFeeParams, listRequestsParams,
     proposeBossParams, acceptBossParams, adminParams, approverParams, setOnycMintParams,
     maxSupplyParams, redemptionAdminParams}

\* No command has two parameters of one name.
LEMMA ParamNamesDiffer == \A params \in ParamLists : UniqueNames(params)
<1>1. UniqueNames(<<>>) /\ UniqueNames(tokenPairParams) /\ UniqueNames(vaultParams)
  BY DEF UniqueNames, tokenPairParams, vaultParams, Propose, Ask, Param
<1>2. /\ UniqueNames(initProgramParams) /\ UniqueNames(initPermissionlessParams)
      /\ UniqueNames(mintParams) /\ UniqueNames(transferMintAuthorityParams)
  BY DEF UniqueNames, initProgramParams, initPermissionlessParams, mintParams,
         transferMintAuthorityParams, Propose, Ask, Param
<1>3. UniqueNames(makeOfferParams)
  BY DEF UniqueNames, makeOfferParams, tokenPairParams, Optional, Propose, Param
<1>4. UniqueNames(addVectorParams)
  BY DEF UniqueNames, addVectorParams, tokenPairParams, Propose, Ask, Param
<1>5. UniqueNames(deleteVectorParams) /\ UniqueNames(updateFeeParams)
  BY DEF UniqueNames, deleteVectorParams, updateFeeParams, tokenPairParams, Propose, Ask, Param
<1>6. UniqueNames(takeOfferParams)
  BY DEF UniqueNames, takeOfferParams, tokenPairParams, Propose, Ask, Param
<1>7. UniqueNames(redemptionOfferParams) /\ UniqueNames(createRequestParams)
  BY DEF UniqueNames, redemptionOfferParams, createRequestParams, redemptionTokenPairParams,
         Optional, Propose, Ask, Param
<1>8. UniqueNames(requestParams) /\ UniqueNames(updateRedemptionFeeParams)
  BY DEF UniqueNames, requestParams, updateRedemptionFeeParams, redemptionTokenPairParams,
         Propose, Ask, Param
<1>9. UniqueNames(listRequestsParams)
  BY DEF UniqueNames, listRequestsParams, redemptionTokenPairParams, Propose, Param
<1>10. /\ UniqueNames(proposeBossParams) /\ UniqueNames(acceptBossParams)
       /\ UniqueNames(adminParams) /\ UniqueNames(approverParams)
       /\ UniqueNames(setOnycMintParams) /\ UniqueNames(maxSupplyParams)
       /\ UniqueNames(redemptionAdminParams)
  BY DEF UniqueNames, proposeBossParams, acceptBossParams, adminParams, approverParams,
         setOnycMintParams, maxSupplyParams, redemptionAdminParams, Propose, Ask, Param
<1> QED
  BY <1>1, <1>2, <1>3, <1>4, <1>5, <1>6, <1>7, <1>8, <1>9, <1>10 DEF ParamLists

\* The commands of the boss, confirmed or not.
LEMMA BossCommandIsGood ==
  ASSUME NEW params \in ParamLists, NEW b, NEW names
  PROVE  /\ b \in BossBuilders =>
              /\ GoodCommand(ByBoss(params, b))
              /\ GoodCommand([ByBoss(params, b) EXCEPT !.lookups = names])
         /\ b \in DangerousBossBuilders =>
              /\ GoodCommand([ByBoss(params, b) EXCEPT !.confirm = "interactive"])
              /\ GoodCommand([ByBoss(params, b) EXCEPT !.confirm = "unlessDryRun",
                                                       !.lookups = names])
<1>1. UniqueNames(params)
  BY ParamNamesDiffer
<1>2. ASSUME b \in BossBuilders
      PROVE  /\ GoodCommand(ByBoss(params, b))
             /\ GoodCommand([ByBoss(params, b) EXCEPT !.lookups = names])
  <2>1. b.callerSigns /\ b.name \notin Dangerous
    BY <1>2, BossBuildersSign
  <2> QED BY <1>1, <2>1 DEF GoodCommand, GoodBuilder, ByBoss, Signed
<1>3. ASSUME b \in DangerousBossBuilders
      PROVE  /\ GoodCommand([ByBoss(params, b) EXCEPT !.confirm = "interactive"])
             /\ GoodCommand([ByBoss(params, b) EXCEPT !.confirm = "unlessDryRun",
                                                      !.lookups = names])
  <2>1. b.callerSigns /\ b.name \in Dangerous
    BY <1>3, BossBuildersSign
  <2> QED BY <1>1, <2>1 DEF GoodCommand, GoodBuilder, ByBoss, Signed
<1> QED BY <1>2, <1>3

\* The commands that somebody else signs, and those that only read.
LEMMA OtherCommandIsGood ==
  ASSUME NEW params \in ParamLists, NEW b, b.name \notin Dangerous, NEW names
  PROVE  /\ \A signer, pays : signer # "boss" => GoodCommand(Signed(params, b, signer, pays))
         /\ GoodCommand(Reads(params))
         /\ GoodCommand(Views(params, b))
         /\ GoodCommand([Views(params, b) EXCEPT !.lookups = names])
<1>1. UniqueNames(params)
  BY ParamNamesDiffer
<1>2. NoBuilder.name \notin Dangerous
  BY BuilderSpec DEF NoBuilder, Dangerous
<1>3. ASSUME NEW signer, NEW pays, signer # "boss"
      PROVE  GoodCommand(Signed(params, b, signer, pays))
  BY <1>1, <1>3 DEF GoodCommand, GoodBuilder, Signed
<1>4. GoodCommand(Reads(params))
  BY <1>1, <1>2 DEF GoodCommand, GoodBuilder, Reads
<1>5. /\ GoodCommand(Views(params, b))
      /\ GoodCommand([Views(params, b) EXCEPT !.lookups = names])
  BY <1>1, <1>2 DEF GoodCommand, GoodBuilder, Views, Reads
<1> QED BY <1>3, <1>4, <1>5

LEMMA StateCommandsAreGood ==
  \A name \in DOMAIN registerStateCommands : GoodCommand(registerStateCommands[name].run)
<1>1. /\ GoodCommand(executeStateProposeBoss) /\ GoodCommand(executeStateAddAdmin)
      /\ GoodCommand(executeStateRemoveAdmin) /\ GoodCommand(executeStateAddApprover)
      /\ GoodCommand(executeStateRemoveApprover) /\ GoodCommand(executeStateSetOnycMint)
      /\ GoodCommand(executeStateMaxSupply) /\ GoodCommand(executeStateSetRedemptionAdmin)
  BY BossCommandIsGood
     DEF executeStateProposeBoss, executeStateAddAdmin, executeStateRemoveAdmin,
         executeStateAddApprover, executeStateRemoveApprover, executeStateSetOnycMint,
         executeStateMaxSupply, executeStateSetRedemptionAdmin, ParamLists, BossBuilders
<1>2. /\ GoodCommand(executeStateClearAdmins) /\ GoodCommand(executeStateKillSwitch)
      /\ GoodCommand(executeStateClose)
  BY BossCommandIsGood
     DEF executeStateClearAdmins, executeStateKillSwitch, executeStateClose, ParamLists,
         DangerousBossBuilders
<1>3. GoodCommand(executeStateGet) /\ GoodCommand(executeStateAcceptBoss)
  <2>1. buildAcceptBossIx.name \notin Dangerous
    BY BuilderSpec DEF buildAcceptBossIx, Dangerous
  <2> QED BY <2>1, OtherCommandIsGood
             DEF executeStateGet, executeStateAcceptBoss, ParamLists
<1> QED BY <1>1, <1>2, <1>3 DEF registerStateCommands, Command

LEMMA MarketCommandsAreGood ==
  \A name \in DOMAIN registerMarketCommands : GoodCommand(registerMarketCommands[name].run)
<1>1. \A name \in {"getNav", "getNavAdjustment", "getApy", "getTvl", "getCirculatingSupply"} :
        \A ix, given : Builder(name, ix, given).name \notin Dangerous
  BY BuilderSpec DEF Dangerous
<1>2. GoodCommand(executeMarketNav) /\ GoodCommand(executeMarketNavAdjustment)
  BY <1>1, OtherCommandIsGood DEF executeMarketNav, executeMarketNavAdjustment, ParamLists
<1>3. GoodCommand(executeMarketApy) /\ GoodCommand(executeMarketTvl)
  BY <1>1, OtherCommandIsGood DEF executeMarketApy, executeMarketTvl, ParamLists
<1>4. GoodCommand(executeMarketSupply)
  BY <1>1, OtherCommandIsGood DEF executeMarketSupply, ParamLists
<1> QED BY <1>2, <1>3, <1>4 DEF registerMarketCommands, Command

LEMMA OfferCommandsAreGood ==
  \A name \in DOMAIN registerOfferCommands : GoodCommand(registerOfferCommands[name].run)
<1>1. /\ GoodCommand(executeOfferMake) /\ GoodCommand(executeOfferAddVector)
      /\ GoodCommand(executeOfferDeleteVector) /\ GoodCommand(executeOfferUpdateFee)
      /\ GoodCommand(executeOfferDeleteAllVectors)
  BY BossCommandIsGood
     DEF executeOfferMake, executeOfferAddVector, executeOfferDeleteVector,
         executeOfferUpdateFee, executeOfferDeleteAllVectors, ParamLists, BossBuilders
<1>2. /\ buildTakeOfferIx.name \notin Dangerous
      /\ buildTakeOfferPermissionlessIx.name \notin Dangerous
  BY BuilderSpec DEF buildTakeOfferIx, buildTakeOfferPermissionlessIx, Dangerous
<1>3. GoodCommand(executeOfferFetch)
  BY <1>2, OtherCommandIsGood DEF executeOfferFetch, ParamLists
<1>4. GoodCommand(executeOfferTake)
  <2>1. UniqueNames(takeOfferParams)
    BY ParamNamesDiffer DEF ParamLists
  <2> QED BY <1>2, <2>1 DEF executeOfferTake, ByWallet, Signed, GoodCommand, GoodBuilder
<1> QED BY <1>1, <1>3, <1>4 DEF registerOfferCommands, Command

LEMMA VaultCommandsAreGood ==
  \A name \in DOMAIN registerVaultCommands : GoodCommand(registerVaultCommands[name].run)
<1>1. /\ GoodCommand(executeVaultDeposit) /\ GoodCommand(executeVaultWithdraw)
      /\ GoodCommand(executeVaultRedemptionDeposit)
      /\ GoodCommand(executeVaultRedemptionWithdraw)
  BY BossCommandIsGood
     DEF executeVaultDeposit, executeVaultWithdraw, executeVaultRedemptionDeposit,
         executeVaultRedemptionWithdraw, ParamLists, BossBuilders
<1> QED BY <1>1 DEF registerVaultCommands, Command

LEMMA MintAuthorityCommandsAreGood ==
  \A name \in DOMAIN registerMintAuthorityCommands :
    GoodCommand(registerMintAuthorityCommands[name].run)
<1>1. GoodCommand(executeMintAuthorityToBoss)
  BY BossCommandIsGood DEF executeMintAuthorityToBoss, ParamLists, BossBuilders
<1>2. GoodCommand(executeMintAuthorityToProgram)
  BY BossCommandIsGood DEF executeMintAuthorityToProgram, ParamLists, DangerousBossBuilders
<1>3. GoodCommand(executeMintTo)
  <2>1. UniqueNames(mintParams)
    BY ParamNamesDiffer DEF ParamLists
  <2>2. buildMintToIx.name = "mintTo"
    BY BuilderSpec DEF buildMintToIx
  <2> QED BY <2>1, <2>2
             DEF executeMintTo, ByBoss, Signed, GoodCommand, GoodBuilder, Dangerous
<1> QED BY <1>1, <1>2, <1>3 DEF registerMintAuthorityCommands, Command

LEMMA RedemptionCommandsAreGood ==
  \A name \in DOMAIN registerRedemptionCommands :
    GoodCommand(registerRedemptionCommands[name].run)
<1>1. /\ GoodCommand(executeRedemptionMakeOffer) /\ GoodCommand(executeRedemptionCancel)
      /\ GoodCommand(executeRedemptionUpdateFee)
  BY BossCommandIsGood
     DEF executeRedemptionMakeOffer, executeRedemptionCancel, executeRedemptionUpdateFee,
         ParamLists, BossBuilders
<1>2. /\ buildCreateRedemptionRequestIx.name \notin Dangerous
      /\ buildFulfillRedemptionRequestIx.name \notin Dangerous
  BY BuilderSpec DEF buildCreateRedemptionRequestIx, buildFulfillRedemptionRequestIx, Dangerous
<1>3. /\ GoodCommand(executeRedemptionFetchOffer) /\ GoodCommand(executeRedemptionFetchRequest)
      /\ GoodCommand(executeRedemptionListRequests)
  BY <1>2, OtherCommandIsGood
     DEF executeRedemptionFetchOffer, executeRedemptionFetchRequest,
         executeRedemptionListRequests, ParamLists
<1>4. /\ GoodCommand(executeRedemptionCreateRequest) /\ GoodCommand(executeRedemptionFulfill)
  BY <1>2, OtherCommandIsGood
     DEF executeRedemptionCreateRequest, executeRedemptionFulfill, ByWallet, ParamLists
<1> QED BY <1>1, <1>3, <1>4 DEF registerRedemptionCommands, Command

LEMMA InitCommandsAreGood ==
  \A name \in DOMAIN registerInitCommands : GoodCommand(registerInitCommands[name].run)
<1>1. GoodCommand(executeInitPermissionless)
  BY BossCommandIsGood DEF executeInitPermissionless, ParamLists, BossBuilders
<1>2. GoodCommand(executeInitProgram)
  <2>1. UniqueNames(initProgramParams)
    BY ParamNamesDiffer DEF ParamLists
  <2>2. buildInitializeIx.name = "initialize"
    BY BuilderSpec DEF buildInitializeIx
  <2> QED BY <2>1, <2>2 DEF executeInitProgram, Signed, GoodCommand, GoodBuilder, Dangerous
<1> QED BY <1>1, <1>2 DEF registerInitCommands, Command

\* Every registered command is good.
LEMMA CommandIsGood == ASSUME NEW c \in CommandNames PROVE GoodCommand(Impl(c))
<1>1. PICK group \in DOMAIN main : \E name \in DOMAIN main[group] : c = <<group, name>>
  BY DEF CommandNames
<1>2. PICK name \in DOMAIN main[group] : c = <<group, name>>
  BY <1>1
<1>3. Impl(c) = main[group][name].run
  BY <1>2 DEF Impl
<1>4. /\ DOMAIN main = {"state", "market", "offer", "vault", "mint_authority", "redemption",
                        "init"}
      /\ main["state"] = registerStateCommands /\ main["market"] = registerMarketCommands
      /\ main["offer"] = registerOfferCommands /\ main["vault"] = registerVaultCommands
      /\ main["mint_authority"] = registerMintAuthorityCommands
      /\ main["redemption"] = registerRedemptionCommands
      /\ main["init"] = registerInitCommands
  BY DEF main
<1> QED
  BY <1>3, <1>4, StateCommandsAreGood, MarketCommandsAreGood, OfferCommandsAreGood,
     VaultCommandsAreGood, MintAuthorityCommandsAreGood, RedemptionCommandsAreGood,
     InitCommandsAreGood
-----------------------------------------------------------------------------
(* Facts about a session.                                                  *)

\* What depends on the session alone stays with it.
LEMMA SameSession ==
  ASSUME session' = session
  PROVE  /\ Agreed' = Agreed
         /\ BuilderOf(session)' = BuilderOf(session)
         /\ NumberArg(session)' = NumberArg(session)
         /\ Impl(session.cmd)' = Impl(session.cmd)
<1>1. Impl(session.cmd)' = Impl(session.cmd)
  OBVIOUS
<1>2. BuilderOf(session)' = BuilderOf(session)
  OBVIOUS
<1>3. NumberArg(session)' = NumberArg(session)
  OBVIOUS
<1>4. Agreed' = Agreed
  BY DEF Agreed
<1> QED BY <1>1, <1>2, <1>3, <1>4

\* In interactive mode the operator is asked before a dangerous command.
LEMMA AgreedSpec ==
  ASSUME session.cmd \in CommandNames, session.mode = "interactive"
  PROVE  Agreed = IF BuilderOf(session).name \in Dangerous THEN 1 ELSE 0
<1> DEFINE r == Impl(session.cmd)
<1>1. GoodCommand(r)
  BY CommandIsGood
<1>2. BuilderOf(session) \in {r.builds.standard, r.builds.permissionless}
  BY DEF BuilderOf
<1>3. BuilderOf(session).name \in Dangerous <=> r.confirm \in {"interactive", "unlessDryRun"}
  BY <1>1, <1>2 DEF GoodCommand, GoodBuilder
<1>4. MustConfirm(session) <=> r.confirm \in {"interactive", "unlessDryRun"}
  <2>1. CASE r.confirm = "interactive"
    BY <2>1, Zenon DEF MustConfirm
  <2>2. CASE r.confirm = "unlessDryRun"
    <3>1. "interactive" # "dryRun" /\ r.confirm # "interactive"
      BY <2>2
    <3> QED BY <2>2, <3>1, Zenon DEF MustConfirm
  <2>3. CASE r.confirm \notin {"interactive", "unlessDryRun"}
    BY <2>3, Zenon DEF MustConfirm
  <2> QED BY <2>1, <2>2, <2>3
<1> QED BY <1>3, <1>4 DEF Agreed

\* A parameter is known by its name.
LEMMA ParamNamedSpec ==
  ASSUME NEW c \in CommandNames, NEW p \in ParamsOf(c)
  PROVE  ParamNamed(c, p.name) = p
<1>1. UniqueNames(Impl(c).params)
  BY CommandIsGood DEF GoodCommand
<1>2. \A q \in ParamsOf(c) : q.name = p.name => q = p
  BY <1>1 DEF ParamsOf, UniqueNames
<1>3. ParamNamed(c, p.name) \in ParamsOf(c) /\ ParamNamed(c, p.name).name = p.name
  BY Zenon DEF ParamNamed
<1> QED BY <1>2, <1>3

\* The encoding keeps a number that a prompt accepts.
LEMMA PromptedNumber ==
  ASSUME NEW p, p.type \in NumericTypes, NEW v \in Inputs(p.type), NEW malformed,
         promptForSingleParam(p, v, malformed)
  PROVE  ~malformed /\ 2 * Encoded(v) = v
<1>1. v \in Int
  <2>1. /\ p.type # "publicKey" /\ p.type # "mint" /\ p.type # "boolean"
        /\ p.type # "string" /\ p.type # "timestamp"
    BY DEF NumericTypes
  <2>2. Inputs(p.type) = {-2, 0, 1, 2, 4}
    BY <2>1, Zenon DEF Inputs
  <2> QED BY <2>2
<1>2. ~malformed /\ v % 2 = 0 /\ ValidNumber(p.type, v)
  <2>1. p.type \notin {"publicKey", "mint"} /\ p.type # "timestamp"
    BY DEF NumericTypes
  <2> QED BY <2>1, Zenon DEF promptForSingleParam
<1>3. v >= 0
  <2>1. CASE p.type = "amount"
    <3>1. validateAmount(v)
      BY <1>2, <2>1, Zenon DEF ValidNumber
    <3> QED BY <1>1, <3>1 DEF validateAmount
  <2>2. CASE p.type = "basisPoints"
    <3>1. validateBasisPoints(v)
      <4>1. p.type # "amount"
        BY <2>2
      <4> QED BY <1>2, <2>2, <4>1, Zenon DEF ValidNumber
    <3> QED BY <1>1, <3>1 DEF validateBasisPoints
  <2>3. CASE p.type = "apr"
    <3>1. validateApr(v)
      <4>1. p.type # "amount" /\ p.type # "basisPoints"
        BY <2>3
      <4> QED BY <1>2, <2>3, <4>1, Zenon DEF ValidNumber
    <3> QED BY <1>1, <3>1 DEF validateApr
  <2>4. CASE p.type = "duration"
    <3>1. validateDuration(v)
      <4>1. p.type # "amount" /\ p.type # "basisPoints" /\ p.type # "apr"
        BY <2>4
      <4> QED BY <1>2, <2>4, <4>1, Zenon DEF ValidNumber
    <3> QED BY <1>1, <3>1 DEF validateDuration
  <2> QED BY <2>1, <2>2, <2>3, <2>4 DEF NumericTypes
<1>4. 2 * (v \div 2) = v /\ v \div 2 >= 0
  BY <1>1, <1>2, <1>3
<1> QED BY <1>1, <1>2, <1>3, <1>4 DEF Encoded, transformValue
-----------------------------------------------------------------------------
(* The invariant holds initially and at every step.                        *)

LEMMA InvInit == Init => Inv
<1> SUFFICES ASSUME Init PROVE Inv
  OBVIOUS
<1>1. SentMeansLanded /\ ConsentsCounted
  BY DEF Init, SentMeansLanded, ConsentsCounted, Asking, Building, Handling
<1>2. SessionKnown
  BY DEF Init, SessionKnown, NoSession
<1>3. TransactionKnown /\ BossesKnown
  BY DEF Init, TransactionKnown, BossesKnown, Asking, Building, Handling
<1> QED BY <1>1, <1>2, <1>3 DEF Inv

\* Once the prompts are over, the session stays known.
LEMMA SessionStaysKnown ==
  ASSUME SessionKnown, session' = session, step # "idle", step' # "idle",
         step' = "prompt" => step = "prompt"
  PROVE  SessionKnown'
<1>1. NumberArg(session)' = NumberArg(session)
  BY SameSession
<1> QED BY <1>1 DEF SessionKnown

\* What was built for the boss remains so, and may be copied.
LEMMA BuiltStaysForTheBoss ==
  ASSUME BossesKnown, session' = session, tx' = tx, copied' \subseteq copied \cup tx,
         bosses \subseteq bosses'
  PROVE  \A t \in tx' \cup copied' : ForTheBoss(t)'
<1> SUFFICES ASSUME NEW t \in tx \cup copied PROVE ForTheBoss(t)'
  OBVIOUS
<1>1. ForTheBoss(t)
  BY DEF BossesKnown
<1> QED BY <1>1 DEF ForTheBoss

\* A session begins.
LEMMA InvStart == ASSUME Inv, Start PROVE Inv'
<1>1. /\ step = "idle" /\ step' = "prompt" /\ bosses' = {state.boss} /\ state' = state
      /\ UNCHANGED <<tx, outcome, pending, copied, landed, consents>>
  BY DEF Start, gvars
<1>2. tx = {} /\ copied = {} /\ pending = {} /\ ~landed /\ consents = 0
  BY <1>1 DEF Inv, TransactionKnown, ConsentsCounted, Asking
<1>3. PICK c \in CommandNames, mode \in Modes, flags \in BOOLEAN, disable \in BOOLEAN :
        /\ flags => Options(c) # {}
        /\ disable => flags /\ "disable" \in Options(c)
        /\ \/ session' = [NoSession EXCEPT !.cmd = c, !.mode = mode, !.flags = flags,
                                           !.disable = disable]
           \/ \E p \in ParamsOf(c) : \E v \in Inputs(p.type), malformed \in BOOLEAN :
                /\ IF malformed THEN CanBeMalformed(p) /\ v = Usual(p) ELSE v # Usual(p)
                /\ session' = [NoSession EXCEPT
                     !.cmd = c, !.mode = mode, !.flags = flags, !.param = p.name,
                     !.type = p.type, !.value = v, !.malformed = malformed]
  BY Zenon DEF Start
<1>4. SessionKnown'
  <2>1. CASE session' = [NoSession EXCEPT !.cmd = c, !.mode = mode, !.flags = flags,
                                          !.disable = disable]
    BY <1>1, <2>1 DEF SessionKnown, NoSession
  <2>2. ASSUME NEW p \in ParamsOf(c), NEW v \in Inputs(p.type), NEW malformed \in BOOLEAN,
               session' = [NoSession EXCEPT
                 !.cmd = c, !.mode = mode, !.flags = flags, !.param = p.name,
                 !.type = p.type, !.value = v, !.malformed = malformed]
        PROVE  SessionKnown'
    <3>1. /\ session'.cmd = c /\ session'.param = p.name /\ session'.type = p.type
          /\ session'.value = v /\ ~session'.prompted
          /\ session' = [cmd |-> session'.cmd, mode |-> session'.mode,
                         flags |-> session'.flags, disable |-> session'.disable,
                         param |-> session'.param, type |-> session'.type,
                         value |-> session'.value, malformed |-> session'.malformed,
                         prompted |-> session'.prompted]
      BY <2>2 DEF NoSession
    <3> QED BY <1>1, <3>1 DEF SessionKnown
  <2> QED BY <1>3, <2>1, <2>2
<1>5. SentMeansLanded' /\ ConsentsCounted'
  BY <1>1, <1>2 DEF Inv, SentMeansLanded, ConsentsCounted, Asking, Building, Handling
<1>6. TransactionKnown' /\ BossesKnown'
  BY <1>1, <1>2 DEF TransactionKnown, BossesKnown, Asking, Building, Handling
<1> QED BY <1>4, <1>5, <1>6 DEF Inv

\* The prompts: an unusual number is kept only if its prompt accepts it.
LEMMA InvPrompt == ASSUME Inv, promptForParams PROVE Inv'
<1> DEFINE s == session
           p == ParamNamed(s.cmd, s.param)
           usual == [s EXCEPT !.param = "none", !.type = "none", !.value = "",
                              !.malformed = FALSE]
<1>1. /\ step = "prompt" /\ step' \in {"read", "count", "confirm", "ended"}
      /\ outcome' \in {outcome, "error"} /\ state' = state /\ bosses' = bosses
      /\ UNCHANGED <<tx, pending, copied, landed, consents>>
  BY DEF promptForParams, Goes, End, Only, AfterPrompts, gvars
<1>2. \/ session' = s
      \/ session' = usual
      \/ /\ s.param # "none" /\ promptForSingleParam(p, s.value, s.malformed)
         /\ session' = [s EXCEPT !.prompted = TRUE]
  BY DEF promptForParams
<1>3. tx = {} /\ copied = {} /\ pending = {} /\ ~landed /\ consents = 0
  BY <1>1 DEF Inv, TransactionKnown, ConsentsCounted, Asking
<1>4. /\ SessionKnown /\ ~s.prompted /\ s.cmd \in CommandNames
      /\ s = [cmd |-> s.cmd, mode |-> s.mode, flags |-> s.flags, disable |-> s.disable,
              param |-> s.param, type |-> s.type, value |-> s.value,
              malformed |-> s.malformed, prompted |-> s.prompted]
  BY <1>1 DEF Inv, SessionKnown
<1>5. SessionKnown'
  <2>1. CASE session' = s
    <3> HIDE DEF s
    <3> QED BY <1>1, <1>4, <2>1, SessionStaysKnown DEF s
  <2>2. CASE session' = usual
    BY <1>1, <1>4, <2>2 DEF SessionKnown
  <2>3. CASE /\ s.param # "none" /\ promptForSingleParam(p, s.value, s.malformed)
             /\ session' = [s EXCEPT !.prompted = TRUE]
    <3>1. PICK q \in ParamsOf(s.cmd) :
            q.name = s.param /\ q.type = s.type /\ s.value \in Inputs(q.type)
      BY <1>1, <1>4, <2>3 DEF SessionKnown
    <3>2. p = q
      BY <1>4, <3>1, ParamNamedSpec
    <3>3. s.type \in NumericTypes => ~s.malformed /\ 2 * Encoded(s.value) = s.value
      BY <2>3, <3>1, <3>2, PromptedNumber
    <3>4. /\ session'.cmd = s.cmd /\ session'.type = s.type /\ session'.value = s.value
          /\ session'.malformed = s.malformed /\ session'.prompted
          /\ session' = [cmd |-> session'.cmd, mode |-> session'.mode,
                         flags |-> session'.flags, disable |-> session'.disable,
                         param |-> session'.param, type |-> session'.type,
                         value |-> session'.value, malformed |-> session'.malformed,
                         prompted |-> session'.prompted]
      BY <1>4, <2>3
    <3>5. session'.type \in NumericTypes /\ ~DropsNumber(session)'
            => 2 * NumberArg(session)' = session'.value
      BY <3>3, <3>4 DEF NumberArg
    <3> QED BY <1>1, <1>4, <3>4, <3>5 DEF SessionKnown
  <2> QED BY <1>2, <2>1, <2>2, <2>3
<1>6. SentMeansLanded' /\ ConsentsCounted'
  BY <1>1, <1>3 DEF Inv, SentMeansLanded, ConsentsCounted, Asking, Building, Handling
<1>7. TransactionKnown' /\ BossesKnown'
  BY <1>1, <1>3 DEF Inv, TransactionKnown, BossesKnown, Asking, Building, Handling
<1> QED BY <1>5, <1>6, <1>7 DEF Inv

\* The steps that print an answer, count the admins or ask the operator.
LEMMA InvAsk ==
  ASSUME Inv, Read \/ CountAdmins \/ confirmDangerousOperation PROVE Inv'
<1>1. /\ step \in {"read", "count", "confirm"} /\ step' \in {"confirm", "payer", "ended"}
      /\ outcome' = outcome \/ outcome' \in {"printed", "error", "nothing to do", "declined"}
      /\ state' = state /\ bosses' = bosses
      /\ UNCHANGED <<session, tx, pending, copied, landed>>
  BY DEF Read, CountAdmins, confirmDangerousOperation, Goes, End, Only, gvars
<1>2. /\ step' = "confirm" => consents' = consents
      /\ step' = "payer" =>
           IF MustConfirm(session) THEN consents' = consents + 1 ELSE consents' = consents
  BY DEF Read, CountAdmins, confirmDangerousOperation, Goes, End, Only
<1>3. tx = {} /\ copied = {} /\ pending = {} /\ ~landed /\ consents = 0
  BY <1>1 DEF Inv, TransactionKnown, ConsentsCounted, Asking
<1>4. SessionKnown'
  BY <1>1, SessionStaysKnown DEF Inv
<1>5. SentMeansLanded'
  BY <1>1 DEF Inv, SentMeansLanded
<1>6. ConsentsCounted'
  <2>1. step' = "payer" => consents' = Agreed'
    <3>1. step' = "payer" => consents' = Agreed
      BY <1>2, <1>3 DEF Agreed
    <3>2. Agreed' = Agreed
      BY <1>1, SameSession
    <3> QED BY <3>1, <3>2
  <2> QED BY <1>1, <1>2, <1>3, <2>1 DEF ConsentsCounted, Asking, Building, Handling
<1>7. TransactionKnown' /\ BossesKnown'
  BY <1>1, <1>3 DEF Inv, TransactionKnown, BossesKnown, Asking, Building, Handling
<1> QED BY <1>4, <1>5, <1>6, <1>7 DEF Inv

\* The key that a role has is the boss's when the role is.
LEMMA BossKey == ASSUME NEW s PROVE KeyOf("boss", s) = state.boss
  BY Zenon DEF KeyOf

\* The payer is read: the boss of this moment, if the boss pays.
LEMMA InvReadPayer == ASSUME Inv, ReadPayer PROVE Inv'
<1>1. /\ step = "payer" /\ step' \in {"build", "ended"}
      /\ outcome' \in {outcome, "error"} /\ state' = state /\ bosses' = bosses
      /\ UNCHANGED <<session, tx, pending, copied, landed, consents>>
  BY DEF ReadPayer, Goes, End, Only, gvars
<1>2. tx = {} /\ copied = {} /\ pending = {} /\ ~landed /\ consents = Agreed
  BY <1>1 DEF Inv, TransactionKnown, ConsentsCounted, Asking, Building
<1>3. SessionKnown'
  BY <1>1, SessionStaysKnown DEF Inv
<1>4. SentMeansLanded' /\ ConsentsCounted'
  <2>1. Agreed' = Agreed
    BY <1>1, SameSession
  <2> QED BY <1>1, <1>2, <2>1
          DEF Inv, SentMeansLanded, ConsentsCounted, Asking, Building, Handling
<1>5. TransactionKnown'
  BY <1>1, <1>2 DEF TransactionKnown, Asking, Building, Handling
<1>6. ASSUME step' = "build", Impl(session.cmd).payer = "boss"
      PROVE  payer' \in bosses' \ {NoKey}
  <2>1. payer' = KeyOf("boss", session)
    BY <1>6 DEF ReadPayer, End, Only
  <2>2. state.boss # NoKey
    BY <1>6 DEF ReadPayer, End, Only, NeedsState, G!Initialized
  <2>3. state.boss \in bosses
    BY <1>1 DEF Inv, BossesKnown
  <2> QED BY <1>1, <2>1, <2>2, <2>3, BossKey
<1>7. BossesKnown'
  BY <1>1, <1>2, <1>6 DEF Inv, BossesKnown
<1> QED BY <1>3, <1>4, <1>5, <1>7 DEF Inv

\* A transaction that the boss's command builds is signed and paid by keys that
\* were the boss: the second read may differ from the first.
LEMMA BuiltForTheBoss ==
  ASSUME Inv, step = "build", NeedsState(Impl(session.cmd).signer) => G!Initialized
  PROVE  ForTheBoss(Built(session))
<1> DEFINE r == Impl(session.cmd)
           b == BuilderOf(session)
           t == Built(session)
<1>1. SUFFICES ASSUME r.signer = "boss", t.name # "mintTo"
               PROVE  {t.signer, t.payer} \subseteq bosses \ {NoKey}
  BY DEF ForTheBoss
<1>2. t.name = b.name /\ t.signer = SignerOf(session) /\ t.payer = payer
  BY DEF Built
<1>3. GoodCommand(r)
  BY CommandIsGood DEF Inv, SessionKnown
<1>4. b \in {r.builds.standard, r.builds.permissionless}
  BY DEF BuilderOf
<1>5. r.payer = "boss" /\ b.callerSigns
  BY <1>1, <1>2, <1>3, <1>4 DEF GoodCommand, GoodBuilder
<1>6. t.signer = state.boss
  BY <1>1, <1>2, <1>5, BossKey DEF SignerOf
<1>7. state.boss # NoKey
  BY <1>1 DEF NeedsState, G!Initialized
<1> QED BY <1>2, <1>5, <1>6, <1>7 DEF Inv, BossesKnown

\* The transaction is built, and copied at once unless the session is interactive.
LEMMA InvBuild == ASSUME Inv, buildAndHandleTransaction PROVE Inv'
<1>1. /\ step = "build" /\ step' \in {"select", "ended"}
      /\ outcome' = outcome \/ outcome' \in {"error", "unresolved", "copied"}
      /\ state' = state /\ bosses' = bosses
      /\ UNCHANGED <<session, payer, pending, landed, consents>>
  BY DEF buildAndHandleTransaction, Goes, End, Only, gvars
<1>2. \/ tx' = tx /\ copied' = copied /\ step' = "ended"
      \/ /\ NeedsState(Impl(session.cmd).signer) => G!Initialized
         /\ tx' = {Built(session)}
         /\ (copied' \subseteq tx' /\ step' = "ended") \/ copied' = copied
         /\ step' = "select" => session.mode = "interactive"
  <2> DEFINE fails == \/ NeedsState(Impl(session.cmd).signer) /\ ~G!Initialized
                      \/ /\ Impl(session.cmd).signer = "redemptionAdmin"
                         /\ state.redemption_admin = NoKey
                      \/ ~LooksUp(session)
                      \/ Unencodable(session)
  <2>1. IF fails THEN End("error") /\ UNCHANGED <<tx, copied>>
        ELSE IF ~BuilderOf(session).complete
        THEN End("unresolved") /\ UNCHANGED <<tx, copied>>
        ELSE /\ tx' = {Built(session)}
             /\ IF session.mode = "interactive"
                THEN Goes("select") /\ UNCHANGED copied
                ELSE End("copied") /\ copied' = {Built(session)}
    BY Zenon DEF buildAndHandleTransaction
  <2>2. ~fails => (NeedsState(Impl(session.cmd).signer) => G!Initialized)
    OBVIOUS
  <2> HIDE DEF fails
  <2> QED BY <2>1, <2>2 DEF Goes, End, Only
<1>3. /\ tx = {} /\ copied = {} /\ pending = {} /\ ~landed /\ consents = Agreed
      /\ state.boss \in bosses
  BY <1>1 DEF Inv, TransactionKnown, ConsentsCounted, BossesKnown, Asking, Building
<1>4. SessionKnown'
  BY <1>1, SessionStaysKnown DEF Inv
<1>5. SentMeansLanded' /\ ConsentsCounted'
  <2>1. Agreed' = Agreed
    BY <1>1, SameSession
  <2> QED BY <1>1, <1>3, <2>1
          DEF Inv, SentMeansLanded, ConsentsCounted, Asking, Building, Handling
<1>6. TransactionKnown'
  <2>1. /\ BuilderOf(session)' = BuilderOf(session)
        /\ NumberArg(session)' = NumberArg(session)
    BY <1>1, SameSession
  <2>2. \A t \in tx' : t.name = BuilderOf(session).name /\ t.number = NumberArg(session)
    BY <1>2, <1>3 DEF Built
  <2> QED BY <1>1, <1>2, <1>3, <2>1, <2>2 DEF TransactionKnown, Asking, Building, Handling
<1>7. BossesKnown'
  <2>1. ASSUME NEW t \in tx' \cup copied' PROVE ForTheBoss(t)'
    <3>1. t = Built(session) /\ (NeedsState(Impl(session.cmd).signer) => G!Initialized)
      BY <1>2, <1>3
    <3>2. ForTheBoss(Built(session))
      BY <1>1, <3>1, BuiltForTheBoss
    <3>3. ForTheBoss(t)
      BY <3>1, <3>2
    <3> QED BY <1>1, <3>3 DEF ForTheBoss
  <2> QED BY <1>1, <1>3, <2>1 DEF BossesKnown
<1> QED BY <1>4, <1>5, <1>6, <1>7 DEF Inv

\* The operator copies the transaction or chooses a keypair.
LEMMA InvHandle == ASSUME Inv, handleTransaction \/ SelectWallet PROVE Inv'
<1>1. /\ step \in {"select", "wallet"} /\ step' \in {"wallet", "send", "ended"}
      /\ outcome' = outcome \/ outcome' \in {"copied", "cancelled"}
      /\ state' = state /\ bosses' = bosses
      /\ UNCHANGED <<session, tx, pending, landed, consents>>
      /\ copied' = copied \/ (copied' = tx /\ step' = "ended")
  <2>1. CASE handleTransaction
    BY <2>1 DEF handleTransaction, Goes, End, Only, gvars
  <2>2. CASE SelectWallet
    BY <2>2 DEF SelectWallet, Goes, End, Only, gvars
  <2> QED BY <2>1, <2>2
<1>2. /\ copied = {} /\ pending = {} /\ ~landed /\ consents = Agreed
      /\ session.mode = "interactive" /\ state.boss \in bosses
  BY <1>1 DEF Inv, TransactionKnown, ConsentsCounted, BossesKnown, Asking, Building, Handling
<1>3. SessionKnown'
  BY <1>1, SessionStaysKnown DEF Inv
<1>4. SentMeansLanded' /\ ConsentsCounted'
  <2>1. Agreed' = Agreed
    BY <1>1, SameSession
  <2> QED BY <1>1, <1>2, <2>1
          DEF Inv, SentMeansLanded, ConsentsCounted, Asking, Building, Handling
<1>5. TransactionKnown'
  BY <1>1, <1>2, SameSession DEF Inv, TransactionKnown, Asking, Building, Handling
<1>6. BossesKnown'
  <2>1. \A t \in tx' \cup copied' : ForTheBoss(t)'
    BY <1>1, BuiltStaysForTheBoss DEF Inv
  <2> QED BY <1>1, <1>2, <2>1 DEF BossesKnown
<1> QED BY <1>3, <1>4, <1>5, <1>6 DEF Inv

\* The operator signs and sends: the last question is answered here.
LEMMA InvSend == ASSUME Inv, signAndSendTransaction PROVE Inv'
<1>1. /\ step = "send" /\ outcome' \in {outcome, "cancelled"}
      /\ state' = state /\ bosses' = bosses
      /\ UNCHANGED <<session, tx, landed, copied>>
      /\ \/ step' = "ended" /\ pending' = pending
         \/ step' = "wait" /\ consents' = consents + 1
  BY DEF signAndSendTransaction, Goes, End, Only, gvars
<1>2. /\ copied = {} /\ pending = {} /\ ~landed /\ consents = Agreed
      /\ session.mode = "interactive" /\ state.boss \in bosses
  BY <1>1 DEF Inv, TransactionKnown, ConsentsCounted, BossesKnown, Asking, Building, Handling
<1>3. SessionKnown'
  BY <1>1, SessionStaysKnown DEF Inv
<1>4. SentMeansLanded' /\ ConsentsCounted'
  <2>1. Agreed' = Agreed
    BY <1>1, SameSession
  <2> QED BY <1>1, <1>2, <2>1
          DEF Inv, SentMeansLanded, ConsentsCounted, Asking, Building, Handling
<1>5. TransactionKnown'
  BY <1>1, <1>2, SameSession DEF Inv, TransactionKnown, Asking, Building, Handling
<1>6. BossesKnown'
  <2>1. \A t \in tx' \cup copied' : ForTheBoss(t)'
    BY <1>1, BuiltStaysForTheBoss DEF Inv
  <2> QED BY <1>1, <1>2, <2>1 DEF BossesKnown
<1> QED BY <1>3, <1>4, <1>5, <1>6 DEF Inv

\* The wait ends, with success only if the transaction has landed.
LEMMA InvAwait == ASSUME Inv, AwaitConfirmation PROVE Inv'
<1>1. /\ step = "wait" /\ step' = "ended"
      /\ outcome' = "sent" => landed
      /\ state' = state /\ bosses' = bosses
      /\ UNCHANGED <<session, tx, pending, landed, copied, consents>>
  BY DEF AwaitConfirmation, End, Only, gvars
<1>2. /\ copied = {} /\ consents = Agreed + 1
      /\ session.mode = "interactive" /\ state.boss \in bosses
  BY <1>1 DEF Inv, TransactionKnown, ConsentsCounted, BossesKnown, Asking, Building, Handling
<1>3. SessionKnown'
  BY <1>1, SessionStaysKnown DEF Inv
<1>4. SentMeansLanded' /\ ConsentsCounted'
  <2>1. Agreed' = Agreed
    BY <1>1, SameSession
  <2> QED BY <1>1, <1>2, <2>1
          DEF Inv, SentMeansLanded, ConsentsCounted, Asking, Building, Handling
<1>5. TransactionKnown'
  BY <1>1, <1>2, SameSession DEF Inv, TransactionKnown, Asking, Building, Handling
<1>6. BossesKnown'
  <2>1. \A t \in tx' \cup copied' : ForTheBoss(t)'
    BY <1>1, BuiltStaysForTheBoss DEF Inv
  <2> QED BY <1>1, <1>2, <2>1 DEF BossesKnown
<1> QED BY <1>3, <1>4, <1>5, <1>6 DEF Inv

\* The chain and the other parties: the session goes on as it was, and every key
\* that becomes the boss is remembered.
LEMMA InvChain ==
  ASSUME Inv, Land \/ Expire \/ SquadExecutes \/ HandOver PROVE Inv'
<1>1. /\ UNCHANGED <<session, step, payer, tx, outcome, consents>>
      /\ copied' \subseteq copied
      /\ pending' \subseteq pending
      /\ landed => landed'
      /\ landed' => landed \/ pending # {}
  BY DEF Land, Expire, SquadExecutes, HandOver, cvars
<1>2. step # "idle"
  BY DEF Inv, ConsentsCounted, TransactionKnown, Land, Expire, SquadExecutes, HandOver
<1>3. bosses \subseteq bosses' /\ state'.boss \in bosses'
  <2>1. CASE Land \/ SquadExecutes \/ HandOver
    <3>1. bosses' = bosses \cup {state'.boss}
      BY <2>1 DEF Land, SquadExecutes, HandOver, Remember
    <3> QED BY <3>1
  <2>2. CASE Expire
    <3>1. state' = state /\ bosses' = bosses
      BY <2>2 DEF Expire, gvars
    <3> QED BY <1>2, <3>1 DEF Inv, BossesKnown
  <2> QED BY <2>1, <2>2
<1>4. SessionKnown'
  BY <1>1, <1>2, SessionStaysKnown DEF Inv
<1>5. SentMeansLanded'
  BY <1>1 DEF Inv, SentMeansLanded
<1>6. ConsentsCounted'
  <2>1. Agreed' = Agreed
    BY <1>1, SameSession
  <2>2. (pending' # {} \/ landed') => (pending # {} \/ landed)
    BY <1>1
  <2> QED BY <1>1, <2>1, <2>2 DEF Inv, ConsentsCounted
<1>7. TransactionKnown'
  BY <1>1, SameSession DEF Inv, TransactionKnown
<1>8. BossesKnown'
  <2>1. \A t \in tx' \cup copied' : ForTheBoss(t)'
    BY <1>1, <1>3, BuiltStaysForTheBoss DEF Inv
  <2> QED BY <1>1, <1>3, <2>1, SameSession DEF Inv, BossesKnown
<1> QED BY <1>4, <1>5, <1>6, <1>7, <1>8 DEF Inv

\* No step breaks the invariant.
LEMMA InvNext == Inv /\ [Next]_vars => Inv'
<1> SUFFICES ASSUME Inv, [Next]_vars PROVE Inv'
  OBVIOUS
<1>1. CASE UNCHANGED vars
  <2>1. UNCHANGED <<state, session, step, payer, tx, outcome, pending, copied, landed,
                    consents, bosses>>
    BY <1>1 DEF vars, gvars, cvars
  <2>2. ConsentsCounted' /\ TransactionKnown' /\ SentMeansLanded'
    BY <2>1, SameSession DEF Inv, ConsentsCounted, TransactionKnown, SentMeansLanded
  <2>3. SessionKnown'
    BY <2>1, SameSession DEF Inv, SessionKnown
  <2>4. BossesKnown'
    <3>1. \A t \in tx' \cup copied' : ForTheBoss(t)'
      BY <2>1, BuiltStaysForTheBoss DEF Inv
    <3> QED BY <2>1, <3>1, SameSession DEF Inv, BossesKnown
  <2> QED BY <2>2, <2>3, <2>4 DEF Inv
<1>2. CASE Next
  BY <1>2, InvStart, InvPrompt, InvAsk, InvReadPayer, InvBuild, InvHandle, InvSend, InvAwait,
     InvChain DEF Next, SessionStep
<1> QED BY <1>1, <1>2

LEMMA InvHolds == Spec => []Inv
  BY InvInit, InvNext, PTL DEF Spec
-----------------------------------------------------------------------------
(* Theorems.                                                               *)

\* "Transaction confirmed!" is said only of what has landed: the outcome is set
\* while the confirmation is there, and nothing takes a landed transaction back.
THEOREM SentIsLanded == Spec => []SentMeansLanded
<1>1. Inv => SentMeansLanded
  BY DEF Inv
<1> QED BY <1>1, InvHolds, PTL

\* Nothing leaves this machine for the chain without the operator's consent, and
\* every dangerous command of the console needs it twice.
THEOREM ConsentIsNeeded == Spec => []DangerousNeedsConsent
<1>1. Inv => DangerousNeedsConsent
  <2> SUFFICES ASSUME Inv, pending # {} \/ landed
               PROVE  /\ session.mode = "interactive"
                      /\ \A t \in tx : consents = IF t.name \in Dangerous THEN 2 ELSE 1
    BY DEF DangerousNeedsConsent
  <2>1. session.mode = "interactive" /\ consents = Agreed + 1 /\ step # "idle"
    BY DEF Inv, ConsentsCounted
  <2>2. Agreed = IF BuilderOf(session).name \in Dangerous THEN 1 ELSE 0
    BY <2>1, AgreedSpec DEF Inv, SessionKnown
  <2>3. \A t \in tx : t.name = BuilderOf(session).name
    BY DEF Inv, TransactionKnown
  <2> QED BY <2>1, <2>2, <2>3
<1> QED BY <1>1, InvHolds, PTL

\* A number that a prompt has accepted arrives in the instruction unchanged, if
\* the command passes it on: all but mint-authority to-boss do.
THEOREM NumbersArriveAsTyped == Spec => []PromptedNumberAsTyped
<1>1. Inv => PromptedNumberAsTyped
  BY DEF Inv, SessionKnown, TransactionKnown, PromptedNumberAsTyped
<1> QED BY <1>1, InvHolds, PTL

\* Whatever hand-overs happen between the two reads, the multisig is only handed
\* transactions that bosses of this session sign and pay.
THEOREM CopiesAreForTheBoss == Spec => []CopiedForTheBoss
<1>1. Inv => CopiedForTheBoss
  BY DEF Inv, BossesKnown, ForTheBoss, CopiedForTheBoss
<1> QED BY <1>1, InvHolds, PTL
-----------------------------------------------------------------------------
(***************************************************************************)
(* The upgrade scripts.  Module Upgrade has names in common with Console,  *)
(* so it is instantiated; the State account and its keys are the same.     *)
(***************************************************************************)
CONSTANTS Deployer, ProgramMint, MaxDiscards

VARIABLES legacy, upgraded, oldOffer, offers, accounts, authority, run, printed, discards

U == INSTANCE Upgrade

Stable(n) == IF n = 6 THEN "usdc" ELSE "usdg"

\* A transaction that makes an offer opens the accounts that were missing when
\* it was printed; since then accounts have only been added.
OpensWhatIsMissing ==
    \A t \in printed :
        t.script \in {6, 7} => {Stable(t.script), "onyc"} \subseteq accounts \cup t.opens

UpgradeInv == U!IntermediaryIsReady /\ OpensWhatIsMissing

\* The transactions that a script prints carry its number, and those that make an
\* offer open what is missing now.
LEMMA PrintedSpec ==
  ASSUME NEW n \in U!Scripts, NEW t \in U!Prints(n)
  PROVE  t.script \in {6, 7} => {Stable(t.script), "onyc"} \subseteq accounts \cup t.opens
<1>1. \A m, signer, opens : U!Tx(m, signer, opens).script = m
                            /\ U!Tx(m, signer, opens).opens = opens
  BY DEF U!Tx
<1>2. n \in {1, 2, 3, 4, 5, 6, 7, 8}
  BY DEF U!Scripts
<1>3. CASE n \in {1, 2, 3, 4, 5, 8}
  <2>1. t.script \in {1, 2, 3, 4, 5, 8}
    <3>1. CASE n = 1
      <4>1. t \in U!closeOffer
        BY <3>1 DEF U!Prints
      <4> QED BY <1>1, <4>1 DEF U!closeOffer
    <3>2. CASE n = 2
      <4>1. t \in U!createCloseStateTransaction
        BY <3>2 DEF U!Prints
      <4> QED BY <1>1, <4>1 DEF U!createCloseStateTransaction
    <3>3. CASE n = 3
      <4>1. t \in U!createInitializeTransaction
        BY <3>3 DEF U!Prints
      <4> QED BY <1>1, <4>1 DEF U!createInitializeTransaction
    <3>4. CASE n = 4
      <4>1. t \in U!createProposeBossTransaction
        BY <3>4 DEF U!Prints
      <4> QED BY <1>1, <4>1 DEF U!createProposeBossTransaction
    <3>5. CASE n = 5
      <4>1. t \in U!createAcceptBossTransaction
        BY <3>5 DEF U!Prints
      <4> QED BY <1>1, <4>1 DEF U!createAcceptBossTransaction
    <3>6. CASE n = 8
      <4>1. t \in U!createTransferMintAuthorityToProgramTransaction
        BY <3>6 DEF U!Prints
      <4> QED BY <1>1, <4>1 DEF U!createTransferMintAuthorityToProgramTransaction
    <3> QED BY <1>3, <3>1, <3>2, <3>3, <3>4, <3>5, <3>6
  <2> QED BY <2>1
<1>4. CASE n \in {6, 7}
  <2>1. t \in U!createMakeOfferWithVectorTransaction(n, Stable(n))
    BY <1>4 DEF U!Prints, Stable
  <2>2. /\ t.script = n
        /\ t.opens = {Stable(n), "onyc"} \ accounts
    BY <1>1, <2>1 DEF U!createMakeOfferWithVectorTransaction,
                      U!buildCreatePermissionlessTokenAccountsIxs
  <2> QED BY <2>2
<1> QED BY <1>2, <1>3, <1>4

LEMMA UpgradeInvInit == U!Init => UpgradeInv
  BY DEF U!Init, UpgradeInv, OpensWhatIsMissing, U!IntermediaryIsReady

\* Accounts are never closed, and an offer comes with its intermediary's accounts.
LEMMA AppliesKeeps ==
  ASSUME UpgradeInv, NEW t \in printed,
         U!Applies(t) \/ UNCHANGED <<offers, accounts>>
  PROVE  U!IntermediaryIsReady' /\ accounts \subseteq accounts'
<1>1. CASE UNCHANGED <<offers, accounts>>
  BY <1>1 DEF UpgradeInv, U!IntermediaryIsReady
<1>2. CASE U!MakeOffer(t)
  <2>1. /\ t.script \in {6, 7}
        /\ accounts' = accounts \cup t.opens
        /\ offers' = offers \cup {Stable(t.script)}
    BY <1>2 DEF U!MakeOffer, Stable
  <2>2. {Stable(t.script), "onyc"} \subseteq accounts'
    BY <2>1 DEF UpgradeInv, OpensWhatIsMissing
  <2> QED BY <2>1, <2>2 DEF UpgradeInv, U!IntermediaryIsReady
<1>3. CASE \/ U!CloseOldOffer(t) \/ U!CloseState(t) \/ U!ChangeState(t)
           \/ U!TransferMintAuthority(t)
  <2>1. UNCHANGED <<offers, accounts>>
    BY <1>3 DEF U!CloseOldOffer, U!CloseState, U!ChangeState, U!TransferMintAuthority
  <2> QED BY <1>1, <2>1
<1> QED BY <1>1, <1>2, <1>3 DEF U!Applies

LEMMA UpgradeInvNext == UpgradeInv /\ [U!Next]_(U!vars) => UpgradeInv'
<1> SUFFICES ASSUME UpgradeInv, [U!Next]_(U!vars) PROVE UpgradeInv'
  OBVIOUS
<1>1. ASSUME NEW n \in U!Scripts, U!Run(n) PROVE UpgradeInv'
  <2>1. UNCHANGED <<offers, accounts>> /\ printed' = printed \cup U!Prints(n)
    BY <1>1 DEF U!Run
  <2>2. OpensWhatIsMissing'
    <3> SUFFICES ASSUME NEW t \in printed \cup U!Prints(n), t.script \in {6, 7}
                 PROVE  {Stable(t.script), "onyc"} \subseteq accounts \cup t.opens
      BY <2>1 DEF OpensWhatIsMissing
    <3> QED BY PrintedSpec DEF UpgradeInv, OpensWhatIsMissing
  <2> QED BY <2>1, <2>2 DEF UpgradeInv, U!IntermediaryIsReady
<1>2. ASSUME NEW n \in U!Scripts, U!Execute(n) PROVE UpgradeInv'
  <2>1. PICK t \in printed :
          /\ printed' = printed \ {t}
          /\ IF ENABLED U!Applies(t)
             THEN U!Applies(t)
             ELSE UNCHANGED <<U!gvars, legacy, oldOffer, offers, accounts, authority>>
    BY <1>2 DEF U!Execute
  <2>2. U!Applies(t) \/ UNCHANGED <<offers, accounts>>
    BY <2>1
  <2>3. U!IntermediaryIsReady' /\ accounts \subseteq accounts'
    BY <2>2, AppliesKeeps
  <2>4. OpensWhatIsMissing'
    BY <2>1, <2>3 DEF UpgradeInv, OpensWhatIsMissing
  <2> QED BY <2>3, <2>4 DEF UpgradeInv
<1>3. CASE U!Discard
  <2>1. UNCHANGED <<offers, accounts>> /\ printed' \subseteq printed
    BY <1>3 DEF U!Discard
  <2> QED BY <2>1 DEF UpgradeInv, OpensWhatIsMissing, U!IntermediaryIsReady
<1>4. CASE U!UpgradeProgram \/ UNCHANGED U!vars
  <2>1. UNCHANGED <<offers, accounts, printed>>
    BY <1>4 DEF U!UpgradeProgram, U!vars
  <2> QED BY <2>1 DEF UpgradeInv, OpensWhatIsMissing, U!IntermediaryIsReady
<1> QED BY <1>1, <1>2, <1>3, <1>4 DEF U!Next

\* Both accounts of the permissionless authority exist for every offer that the
\* upgrade has made, whatever happened between the moment the offer's transaction
\* was printed and the moment it executed.
THEOREM UpgradeIntermediaryIsReady == U!Spec => []U!IntermediaryIsReady
<1>1. UpgradeInv => U!IntermediaryIsReady
  BY DEF UpgradeInv
<1> QED BY <1>1, UpgradeInvInit, UpgradeInvNext, PTL DEF U!Spec
=============================================================================
