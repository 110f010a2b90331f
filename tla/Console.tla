------------------------------- MODULE Console -------------------------------
(***************************************************************************)
(* One session of the operators' console (scripts/cli), step by step: the  *)
(* prompts, the confirmation of a dangerous command, the two reads of the  *)
(* boss, the builder, and what the operator does with the transaction:     *)
(* print it, copy it for the multisig, or sign and send it.  The program's *)
(* State account is module Governance's; other parties hand the boss role  *)
(* over while the session runs, a copied transaction may be executed much  *)
(* later, and a sent one may land after the console has given up on it.    *)
(***************************************************************************)
EXTENDS Commands

CONSTANTS
    Squad,          \* the multisig, which is also the boss of network-config.ts
    Wallet,         \* the wallet of the Solana command line's configuration
    Spare,          \* another keypair on the operator's disk, of no role
    NoKey,          \* Pubkey::default()
    MaxHandOvers,   \* steps of other parties during a session
    MaxBasisPoints  \* 10000

ASSUME ConsoleAssumption ==
    /\ Squad # Wallet /\ NoKey \notin {Squad, Wallet} /\ Spare \notin {Squad, Wallet, NoKey}
    /\ MaxHandOvers \in Nat
    /\ MaxBasisPoints \in Nat \ {0}

Keys == {Squad, Wallet}
Mints == {"usdc", "onyc", "custom"}

VARIABLES
    state, proposer,    \* of Governance
    session,    \* the command line: command, mode, options, one unusual input
    step,       \* where the session is
    payer,      \* the payer, once it has been read
    tx,         \* the transaction built: a set, empty or of one element
    keypair,    \* the keypair that the operator chose to sign with
    outcome,    \* how the session ended
    pending,    \* a transaction sent, neither landed nor expired
    copied,     \* a transaction handed to the multisig and not yet executed
    landed,     \* what was sent has landed and succeeded
    consents,   \* history: questions that the operator answered with yes
    bosses,     \* history: bosses since the session began
    handOvers   \* steps that other parties took

gvars == <<state, proposer>>
cvars == <<session, step, payer, tx, keypair, outcome, pending, copied, landed, consents>>
vars == <<gvars, cvars, bosses, handOvers>>

G == INSTANCE Governance WITH
    MAX_ADMINS <- 1, UpgradeAuthority <- Squad, OnycMints <- Mints,
    ProposableKeys <- Keys, AdminKeys <- Keys, ApproverKeys <- Keys,
    RedemptionKeys <- Keys, SupplyCaps <- {0, 1, 2}

-----------------------------------------------------------------------------
(* Input.                                                                  *)

Modes == {"interactive", "json", "dryRun"}
NumericTypes == {"amount", "basisPoints", "apr", "duration"}

Impl(c) == main[c[1]][c[2]].run
Options(c) == main[c[1]][c[2]].options
ParamsOf(c) == {Impl(c).params[i] : i \in DOMAIN Impl(c).params}
ParamNamed(c, name) == CHOOSE p \in ParamsOf(c) : p.name = name

\* What an operator may type for a parameter, and what is usually typed.
Inputs(type) ==
    CASE type = "publicKey" -> Keys
      [] type = "mint" -> Mints
      [] type \in NumericTypes -> {-2, 0, 1, 2, 4}
      [] type = "boolean" -> BOOLEAN
      [] type = "string" -> {"text", ""}
      [] type = "timestamp" -> {"date"}

Usual(p) ==
    CASE p.default # {} -> CHOOSE v \in p.default : TRUE
      [] p.type = "publicKey" -> Wallet
      [] p.type = "mint" -> "usdc"
      [] p.type \in NumericTypes -> 2
      [] p.type = "timestamp" -> "date"
      [] OTHER -> ""

\* Text that is no key, no date or no number may be typed for these.
CanBeMalformed(p) == p.type \notin {"boolean"} /\ p.name # "name"

\* The value of a parameter: the unusual input is for one of them.
Arg(s, name) == IF s.param = name THEN s.value ELSE Usual(ParamNamed(s.cmd, name))

validatePublicKey(malformed) == ~malformed
validateBasisPoints(v) == v \in 0..(2 * MaxBasisPoints)

\* Mutant: only zero is refused.
validateAmount_nonzero(v) == v # 0

validateAmount(v) == v > 0
validateApr(v) == v >= 0
validateDuration(v) == v > 0
validateTimestamp(malformed) == ~malformed

ValidNumber(type, v) ==
    CASE type = "amount" -> validateAmount(v)
      [] type = "basisPoints" -> validateBasisPoints(v)
      [] type = "apr" -> validateApr(v)
      [] type = "duration" -> validateDuration(v)

\* A prompt asks again until the validator is satisfied; the number prompt of
\* the library takes whole numbers only.
promptForSingleParam(p, v, malformed) ==
    CASE p.type \in {"publicKey", "mint"} -> validatePublicKey(malformed)
      [] p.type = "timestamp" -> validateTimestamp(malformed)
      [] p.type \in NumericTypes -> ~malformed /\ v % 2 = 0 /\ ValidNumber(p.type, v)
      [] OTHER -> TRUE

\* A flag is converted, not validated.  parseInt drops the fraction.
transformValue(v) == IF v < 0 THEN -((-v) \div 2) ELSE v \div 2

\* The number in the instruction: BN and the encoder of u64 drop the sign.
Encoded(v) == IF transformValue(v) < 0 THEN -transformValue(v) ELSE transformValue(v)

\* A parameter comes from an option of its name, else from its default unless it
\* is required, else from a prompt.  opts.noInteractive is never set: commander
\* stores --no-interactive as interactive.
FromFlag(s, p) == s.flags /\ p.name \in Options(s.cmd)
Prompted(s, p) == ~FromFlag(s, p) /\ (p.required \/ p.default = {})

-----------------------------------------------------------------------------
(* Transactions.                                                           *)

KeyOf(role, s) ==
    CASE role = "boss" -> state.boss
      [] role = "redemptionAdmin" -> state.redemption_admin
      [] role = "newBoss" -> Arg(s, "newBoss")
      [] role = "config" -> Squad
      [] OTHER -> Wallet

NeedsState(role) == role \in {"boss", "redemptionAdmin"}

\* The parameters that reach the instruction, by type.
OfType(c, types) == {p \in ParamsOf(c) : p.type \in types}
KeyArg(s) ==
    IF OfType(s.cmd, {"publicKey"}) = {} THEN NoKey
    ELSE Arg(s, (CHOOSE p \in OfType(s.cmd, {"publicKey"}) : TRUE).name)
MintArg(s) ==
    IF s.cmd = <<"state", "set_onyc_mint">> THEN Arg(s, "mint")
    ELSE IF s.cmd = <<"init", "program">> THEN Arg(s, "onycMint") ELSE "onyc"

\* mint-authority to-boss shares the parameters of mint-to: it asks for an amount
\* and leaves it out of the instruction.
DropsNumber(s) == s.cmd = <<"mint_authority", "to_boss">>

NumberArg(s) ==
    IF ~DropsNumber(s) /\ ~s.malformed /\ s.type \in NumericTypes THEN Encoded(s.value) ELSE 1

\* Only taking an offer depends on the parameter.
Permissionless(s) == s.cmd = <<"offer", "take">> /\ Arg(s, "permissionless")

BuilderOf(s) ==
    IF Permissionless(s) THEN Impl(s.cmd).builds.permissionless ELSE Impl(s.cmd).builds.standard

\* Mutant: the wallet signs in the boss's place.
SignerOf_wallet(s) == Wallet

SignerOf(s) == IF BuilderOf(s).callerSigns THEN KeyOf(Impl(s.cmd).signer, s) ELSE Wallet

\* kill-switch passes enable: true whatever its options say.
Built(s) ==
    [name |-> BuilderOf(s).name, signer |-> SignerOf(s), payer |-> payer,
     key |-> KeyArg(s), mint |-> MintArg(s), number |-> NumberArg(s), enable |-> TRUE]

\* What the program does with it (Governance; the instructions of other
\* components leave the State account alone).
Execute(t) ==
    \/ t.name = "initialize" /\ G!initialize(t.signer, t.mint)
    \/ t.name = "acceptBoss" /\ G!accept_boss(t.signer)
    \/ t.name = "setKillSwitch" /\ G!set_kill_switch(t.signer, t.enable)
    \/ /\ t.signer = state.boss
       /\ \/ t.name = "closeState" /\ G!close_state
          \/ t.name = "proposeBoss" /\ G!propose_boss(t.key)
          \/ t.name = "addAdmin" /\ G!add_admin(t.key)
          \/ t.name = "removeAdmin" /\ G!remove_admin(t.key)
          \/ t.name = "clearAdmins" /\ G!clear_admins
          \/ t.name = "addApprover" /\ G!add_approver(t.key)
          \/ t.name = "removeApprover" /\ G!remove_approver(t.key)
          \/ t.name = "setRedemptionAdmin" /\ G!set_redemption_admin(t.key)
          \/ t.name = "configureMaxSupply" /\ G!configure_max_supply(t.number)
          \/ t.name = "setOnycMint" /\ G!set_onyc_mint(t.mint)
    \/ /\ t.name \notin {"initialize", "acceptBoss", "setKillSwitch", "closeState",
                         "proposeBoss", "addAdmin", "removeAdmin", "clearAdmins",
                         "addApprover", "removeApprover", "setRedemptionAdmin",
                         "configureMaxSupply", "setOnycMint"}
       /\ G!Initialized
       /\ UNCHANGED gvars

-----------------------------------------------------------------------------
(* The session.                                                            *)

NoSession ==
    [cmd |-> <<"none", "none">>, mode |-> "interactive", flags |-> FALSE, disable |-> FALSE,
     param |-> "none", type |-> "none", value |-> "", malformed |-> FALSE, prompted |-> FALSE]

\* The State account does not exist, or the multisig is the boss and the wallet
\* holds the other roles, or the wallet is the boss and they are free.
Init ==
    /\ \E boss \in {NoKey, Squad, Wallet} :
         LET holder == IF boss = Squad THEN Wallet ELSE NoKey IN
         state = IF boss = NoKey THEN G!ZeroState
                 ELSE [G!ZeroState EXCEPT !.boss = boss, !.onyc_mint = "onyc",
                                          !.admins[1] = holder, !.approver1 = holder,
                                          !.redemption_admin = holder]
    /\ proposer = NoKey
    /\ session = NoSession /\ step = "idle"
    /\ payer = NoKey /\ tx = {} /\ keypair = NoKey
    /\ outcome = "none" /\ pending = {} /\ copied = {} /\ landed = FALSE
    /\ consents = 0 /\ bosses = {} /\ handOvers = 0

\* All of the command's options are given, or none; one input is unusual.
Start ==
    /\ step = "idle"
    /\ \E c \in CommandNames, mode \in Modes, flags, disable \in BOOLEAN :
        /\ flags => Options(c) # {}
        /\ disable => flags /\ "disable" \in Options(c)
        /\ \/ session' = [NoSession EXCEPT !.cmd = c, !.mode = mode, !.flags = flags,
                                          !.disable = disable]
           \/ \E p \in ParamsOf(c) : \E v \in Inputs(p.type), malformed \in BOOLEAN :
                /\ IF malformed THEN CanBeMalformed(p) /\ v = Usual(p) ELSE v # Usual(p)
                /\ session' = [NoSession EXCEPT
                     !.cmd = c, !.mode = mode, !.flags = flags, !.param = p.name,
                     !.type = p.type, !.value = v, !.malformed = malformed]
    /\ step' = "prompt"
    /\ bosses' = {state.boss}
    /\ UNCHANGED <<gvars, payer, tx, keypair, outcome, pending, copied, landed, consents, handOvers>>

\* Nothing but the session's own control changes.
Only(next) ==
    /\ step' = next
    /\ UNCHANGED <<gvars, bosses, handOvers>>

End(how) ==
    /\ outcome' = how
    /\ Only("ended")

Goes(next) == Only(next) /\ UNCHANGED outcome

\* Where the command goes once it has its parameters.
AfterPrompts ==
    IF ~Impl(session.cmd).sends THEN "read"
    ELSE IF session.cmd = <<"state", "clear_admins">> THEN "count"
    ELSE "confirm"

\* An unusual input is converted if it came by a flag, and it counts only if it is
\* not replaced by a default.  A prompt that is refused is answered as usual.
promptForParams ==
    LET s == session
        p == ParamNamed(s.cmd, s.param)
        usual == [s EXCEPT !.param = "none", !.type = "none", !.value = "", !.malformed = FALSE]
    IN  /\ step = "prompt"
        /\ IF s.param = "none"
           THEN Goes(AfterPrompts) /\ UNCHANGED session
           ELSE IF FromFlag(s, p)
           THEN /\ IF s.malformed /\ p.type \in {"publicKey", "mint"}
                   THEN End("error") ELSE Goes(AfterPrompts)
                /\ UNCHANGED session
           ELSE /\ Goes(AfterPrompts)
                /\ session' =
                     IF Prompted(s, p) /\ promptForSingleParam(p, s.value, s.malformed)
                     THEN [s EXCEPT !.prompted = TRUE]
                     ELSE usual
        /\ UNCHANGED <<payer, tx, keypair, pending, copied, landed, consents>>

\* An unknown mint has no known token program or decimals.
LooksUp(s) == \A name \in Impl(s.cmd).lookups : Arg(s, name) # "custom"

\* Reads and views: the answer is printed, or an account is missing.  A redeemer
\* typed at the prompt stays text, which has no toBase58.
Read ==
    /\ step = "read"
    /\ LET s == session
           broken == \/ ~LooksUp(s)
                     \/ ~BuilderOf(s).complete
                     \/ s.malformed
                     \/ s.cmd = <<"redemption", "list_requests">> /\ Arg(s, "redeemer") # ""
                     \/ s.cmd = <<"state", "get">> /\ ~G!Initialized
       IN  \/ ~broken /\ End("printed")
           \/ (broken \/ s.cmd # <<"state", "get">>) /\ End("error")
    /\ UNCHANGED <<session, payer, tx, keypair, pending, copied, landed, consents>>

\* clear-admins counts the slots that do not hold the wallet; empty ones count.
CountAdmins ==
    /\ step = "count"
    /\ IF ~G!Initialized THEN End("error")
       ELSE IF session.mode # "json" /\ \A i \in DOMAIN state.admins : state.admins[i] = Wallet
       THEN End("nothing to do")
       ELSE Goes("confirm")
    /\ UNCHANGED <<session, payer, tx, keypair, pending, copied, landed, consents>>

MustConfirm(s) ==
    CASE Impl(s.cmd).confirm = "interactive" -> s.mode = "interactive"
      [] Impl(s.cmd).confirm = "unlessDryRun" -> s.mode # "dryRun"
      [] OTHER -> FALSE

confirmDangerousOperation ==
    /\ step = "confirm"
    /\ IF ~MustConfirm(session)
       THEN Goes("payer") /\ UNCHANGED consents
       ELSE \/ Goes("payer") /\ consents' = consents + 1
            \/ End("declined") /\ UNCHANGED consents
    /\ UNCHANGED <<session, payer, tx, keypair, pending, copied, landed>>

\* The payer is read before the instruction is built, and the boss again then.
ReadPayer ==
    /\ step = "payer"
    /\ IF NeedsState(Impl(session.cmd).payer) /\ ~G!Initialized
       THEN End("error") /\ UNCHANGED payer
       ELSE Goes("build") /\ payer' = KeyOf(Impl(session.cmd).payer, session)
    /\ UNCHANGED <<session, tx, keypair, pending, copied, landed, consents>>

\* A malformed number, date or identifier is NaN, which BN refuses; a negative
\* fee does not fit its u16.
Unencodable(s) ==
    \/ s.malformed
    \/ s.type = "basisPoints" /\ transformValue(s.value) < 0

buildAndHandleTransaction ==
    LET s == session
        signer == Impl(s.cmd).signer
    IN  /\ step = "build"
        /\ IF \/ NeedsState(signer) /\ ~G!Initialized
              \/ signer = "redemptionAdmin" /\ state.redemption_admin = NoKey
              \/ ~LooksUp(s)
              \/ Unencodable(s)
           THEN End("error") /\ UNCHANGED <<tx, copied>>
           ELSE IF ~BuilderOf(s).complete
           THEN End("unresolved") /\ UNCHANGED <<tx, copied>>
           ELSE /\ tx' = {Built(s)}
                /\ IF s.mode = "interactive"
                   THEN Goes("select") /\ UNCHANGED copied
                   ELSE End("copied") /\ copied' = {Built(s)}
        /\ UNCHANGED <<session, payer, keypair, pending, landed, consents>>

\* Copy for the multisig, sign locally, or cancel.
handleTransaction ==
    /\ step = "select"
    /\ \/ End("copied") /\ copied' = tx
       \/ Goes("wallet") /\ UNCHANGED copied
       \/ End("cancelled") /\ UNCHANGED copied
    /\ UNCHANGED <<session, payer, tx, keypair, pending, landed, consents>>

\* A keypair file, which may be of any key or missing.
SelectWallet ==
    /\ step = "wallet"
    /\ \/ Goes("send") /\ keypair' \in {Wallet, Spare}
       \/ End("cancelled") /\ UNCHANGED keypair
    /\ UNCHANGED <<session, payer, tx, pending, copied, landed, consents>>

\* The keypair must be the only signer; the preflight may refuse as well.
signAndSendTransaction ==
    /\ step = "send"
    /\ \/ End("cancelled") /\ UNCHANGED <<pending, consents>>
       \/ /\ consents' = consents + 1
          /\ \/ End("cancelled") /\ UNCHANGED pending
             \/ /\ \A t \in tx : {t.payer, t.signer} = {keypair}
                /\ pending' = tx
                /\ Goes("wait")
    /\ UNCHANGED <<session, payer, tx, keypair, copied, landed>>

\* Mutant: the wait has no timeout.
AwaitConfirmation_forever ==
    /\ step = "wait"
    /\ landed
    /\ End("sent")
    /\ UNCHANGED <<session, payer, tx, keypair, pending, copied, landed, consents>>

\* Mutant: an error while waiting is taken for success.
AwaitConfirmation_lenient ==
    /\ step = "wait"
    /\ End("sent")
    /\ UNCHANGED <<session, payer, tx, keypair, pending, copied, landed, consents>>

\* The confirmation arrives, or an error or a timeout ends the wait.
AwaitConfirmation ==
    /\ step = "wait"
    /\ \/ landed /\ End("sent")
       \/ End("cancelled")
    /\ UNCHANGED <<session, payer, tx, keypair, pending, copied, landed, consents>>

-----------------------------------------------------------------------------
(* The chain and the other parties.                                        *)

Remember == bosses' = bosses \cup {state'.boss}

Land ==
    /\ \E t \in pending : Execute(t)
    /\ pending' = {} /\ landed' = TRUE
    /\ Remember
    /\ UNCHANGED <<session, step, payer, tx, keypair, outcome, copied, consents, handOvers>>

\* It failed, or its blockhash is too old.
Expire ==
    /\ pending # {}
    /\ pending' = {}
    /\ UNCHANGED <<gvars, session, step, payer, tx, keypair, outcome, copied, landed, consents,
                   bosses, handOvers>>

\* The members of the multisig execute what was copied, now or much later.
SquadExecutes ==
    /\ \E t \in copied : t.signer = Squad /\ Execute(t)
    /\ copied' = {}
    /\ Remember
    /\ UNCHANGED <<session, step, payer, tx, keypair, outcome, pending, landed, consents, handOvers>>

\* The boss proposes the other key, and the key accepts, while the session runs:
\* who is the boss before it is up to Init, and after it no property asks.
HandOver ==
    /\ step \notin {"idle", "ended"}
    /\ handOvers < MaxHandOvers
    /\ \E k \in Keys \ {state.boss} : G!propose_boss(k) \/ G!accept_boss(k)
    /\ handOvers' = handOvers + 1
    /\ Remember
    /\ UNCHANGED cvars

-----------------------------------------------------------------------------
SessionStep ==
    \/ promptForParams \/ Read \/ CountAdmins \/ confirmDangerousOperation \/ ReadPayer
    \/ buildAndHandleTransaction \/ handleTransaction \/ SelectWallet
    \/ signAndSendTransaction \/ AwaitConfirmation

Next == Start \/ SessionStep \/ Land \/ Expire \/ SquadExecutes \/ HandOver

\* The operator answers, and so does the RPC node or its timeout.
Spec == Init /\ [][Next]_vars /\ WF_vars(SessionStep)

-----------------------------------------------------------------------------
(* Properties.                                                             *)

\* The console says "Transaction confirmed!" only of what has landed
\* (signAndSendTransaction).  The converse does not hold: after a timeout it
\* reports a failure, and the transaction may land all the same.
SentMeansLanded == outcome = "sent" => landed

Dangerous ==
    {"closeState", "clearAdmins", "setKillSwitch", "initialize", "transferMintAuthorityToProgram"}

\* Nothing leaves this machine for the chain without the operator's consent, and
\* a dangerous command needs it twice: confirmDangerousOperation before the
\* transaction is built, and the question before it is sent.
DangerousNeedsConsent ==
    pending # {} \/ landed =>
        /\ session.mode = "interactive"
        /\ \A t \in tx : consents = IF t.name \in Dangerous THEN 2 ELSE 1

\* A number typed at a prompt is the number in the instruction: whatever the
\* encoding would change, its sign or its fraction, the validators refuse
\* (validateAmount, validateBasisPoints, validateApr, validateDuration).  A
\* flag is not validated, and may be changed; and mint-authority to-boss asks for
\* an amount that it does not use.
PromptedNumberAsTyped ==
    \A t \in tx : session.prompted /\ session.type \in NumericTypes /\ ~DropsNumber(session)
                    => 2 * t.number = session.value

\* What a boss's command hands to the multisig is to be signed and paid by keys
\* that were the boss during the session, although the two reads of the boss may
\* differ (buildAndHandleTransaction, getBoss).  mint-to is the exception: its
\* builder does not name the boss.
CopiedForTheBoss ==
    \A t \in copied : Impl(session.cmd).signer = "boss" /\ t.name # "mintTo"
                        => {t.signer, t.payer} \subseteq bosses \ {NoKey}

\* Every session ends, whatever becomes of its transaction (main).
SessionEnds == step = "prompt" ~> step = "ended"

\* "Disable the kill switch" (the option --disable in commands/state.ts): the
\* transaction built for it disables the switch.  It enables it.
KillSwitchAsAsked == \A t \in tx : session.disable => ~t.enable

\* "Transaction builders - return unsigned transactions for signing"
\* (script-helper.ts): every builder finds its accounts.  The two that fulfil
\* and cancel a redemption request give too few.
BuildersResolve == outcome # "unresolved"
=============================================================================
