------------------------------- MODULE Bridge -------------------------------
(***************************************************************************)
(* The scripts that move USDC between Ethereum and Solana with Circle's    *)
(* cross-chain transfer protocol: cctp_v1/transfer_eth2sol.ts and          *)
(* transfer_sol2eth.ts, cctp_v2/transfer-v2.ts with evm.ts and solana.ts.  *)
(* Each run of a script is a process that sends transactions, waits for    *)
(* them and polls the attestation service.  Runs share the sender's        *)
(* account on Ethereum (its nonce and its allowances) and the wallets; a   *)
(* run may die at any await, and what it had sent may execute afterwards.  *)
(*                                                                         *)
(* The two chains, the mempool and the attestation service are not in the  *)
(* repository: they are modelled from what the scripts rely on.            *)
(***************************************************************************)
EXTENDS CctpInterface, Sequences, FiniteSets

CONSTANTS
    Runs,           \* executions of a script, at once or one after the other
    Assignments,    \* the jobs that the runs may be asked to do
    MaxRetries,     \* polls of the attestation service in version 1 (40)
    Funds           \* USDC that every source account starts with

Accounts == {"ethSender", "ethRecipient", "ethFees",
             "solSender", "solRecipient", "user", "solFees"}

Chain(a) == IF a \in {"ethSender", "ethRecipient", "ethFees"} THEN "eth" ELSE "sol"

\* Every source account on Ethereum is of the sender's key, except the payer
\* of the version 1 mint.
Keys == {"sender", "payer"}

Kinds == {"eth2solV1", "sol2ethV1", "evm2sol", "sol2evm"}

JobType == [kind : Kinds, amount : Nat, maxFee : Nat]

ASSUME BridgeAssumption ==
    /\ Assignments \subseteq [Runs -> JobType]
    /\ MaxRetries \in Nat \ {0}
    /\ Funds \in Nat

VARIABLES
    job,        \* the job of each run
    pc,         \* the next step of each run in its script
    failed,     \* runs that threw or were killed
    attempts,   \* polls a run has made
    nonce,      \* the nonce a run has read for its next transaction
    result,     \* what became of the transaction that a run waits for
    mempool,    \* Ethereum transactions not yet mined
    mined,      \* transactions mined for each key on Ethereum
    inflight,   \* Solana transactions that have not landed and may still do so
    chain       \* the ledgers of both chains and of the attestation service

vars == <<job, pc, failed, attempts, nonce, result, mempool, mined, inflight, chain>>

-----------------------------------------------------------------------------
(* The scripts: which transactions, in which order.                        *)

EthTx(op) == <<<<op, "nonce">>, <<op, "send">>, <<op, "wait">>>>
SolTx(op) == <<<<op, "send">>, <<op, "wait">>>>
Poll == <<<<"attestation", "poll">>>>

transfer_eth2sol ==
    EthTx("approve") \o <<<<"funds", "check">>, <<"account", "check">>>>
        \o SolTx("account") \o EthTx("burn") \o Poll \o SolTx("mint")

\* The mint is sent and its hash returned: nobody waits for it.
transfer_sol2eth == SolTx("burn") \o Poll \o <<<<"mint", "nonce">>, <<"mint", "send">>>>

transfer_v2_sol2evm == SolTx("burn") \o Poll \o EthTx("mint")
transfer_v2_evm2sol == EthTx("approve") \o EthTx("burn") \o Poll \o SolTx("mint")

Scripts ==
    [kind \in Kinds |->
        CASE kind = "eth2solV1" -> transfer_eth2sol
          [] kind = "sol2ethV1" -> transfer_sol2eth
          [] kind = "sol2evm" -> transfer_v2_sol2evm
          [] kind = "evm2sol" -> transfer_v2_evm2sol]

Script(r) == Scripts[job[r].kind]

Done(r) == pc[r] > Len(Script(r))
Running(r) == r \notin failed /\ ~Done(r)
At(r, op, phase) == Running(r) /\ Script(r)[pc[r]] = <<op, phase>>
InPhase(r, phase) == Running(r) /\ Script(r)[pc[r]][2] = phase
Op(r) == Script(r)[pc[r]][1]

Key(r) == IF job[r].kind = "sol2ethV1" THEN "payer" ELSE "sender"
Version(r) == IF job[r].kind \in {"eth2solV1", "sol2ethV1"} THEN 1 ELSE 2

Source(r) ==
    CASE job[r].kind \in {"eth2solV1", "evm2sol"} -> "ethSender"
      [] job[r].kind = "sol2ethV1" -> "solSender"
      [] OTHER -> "user"

Recipient(r) ==
    CASE job[r].kind = "eth2solV1" -> "solRecipient"
      [] job[r].kind = "evm2sol" -> "user"
      [] OTHER -> "ethRecipient"

FeeRecipient(r) == IF Chain(Recipient(r)) = "eth" THEN "ethFees" ELSE "solFees"

OnEth(r, op) ==
    \/ op = "approve"
    \/ op = "burn" /\ Chain(Source(r)) = "eth"
    \/ op = "mint" /\ Chain(Recipient(r)) = "eth"

-----------------------------------------------------------------------------
(* The chains, external: the ledgers that a transaction may leave behind,  *)
(* none when it fails.                                                     *)

\* Mutant: the messenger is approved for more than the run needs.
approve_more(c, r) == {[c EXCEPT !.allowance[Version(r)] = Funds + job[r].amount]}

approve(c, r) == {[c EXCEPT !.allowance[Version(r)] = job[r].amount]}

\* Version 2 refuses a fee that is not below the amount.
Burnable(c, r) ==
    /\ job[r].amount \in 1..c.balance[Source(r)]
    /\ Version(r) = 2 => job[r].maxFee < job[r].amount

Burn(c, r) == [c EXCEPT !.balance[Source(r)] = @ - job[r].amount, !.burnt = @ \cup {r}]

\* A burn on Ethereum spends the allowance of its version's messenger.
depositForBurnEvm(c, r) ==
    IF Burnable(c, r) /\ job[r].amount <= c.allowance[Version(r)]
    THEN {[Burn(c, r) EXCEPT !.allowance[Version(r)] = @ - job[r].amount]}
    ELSE {}

\* A burn on Solana leaves an account that holds the message.
depositForBurnSol(c, r) ==
    IF Burnable(c, r) THEN {[Burn(c, r) EXCEPT !.events = @ \cup {r}]} ELSE {}

Credit(balance, account, amount) == [balance EXCEPT ![account] = @ + amount]

\* The attested message is received once; the service sets the fee.
receiveMessage(c, r) ==
    IF r \notin c.attested \/ r \in c.minted \/ Recipient(r) \notin c.open
    THEN {}
    ELSE {[c EXCEPT
             !.balance = Credit(Credit(@, Recipient(r), job[r].amount - fee), FeeRecipient(r), fee),
             !.minted = @ \cup {r}] :
          fee \in 0..(IF Version(r) = 1 THEN 0 ELSE job[r].maxFee)}

createAssociatedTokenAccount(c, r) ==
    IF Recipient(r) \in c.open THEN {} ELSE {[c EXCEPT !.open = @ \cup {Recipient(r)}]}

Outcomes(c, op, r) ==
    CASE op = "approve" -> approve(c, r)
      [] op = "burn" -> IF OnEth(r, op) THEN depositForBurnEvm(c, r) ELSE depositForBurnSol(c, r)
      [] op = "mint" -> receiveMessage(c, r)
      [] op = "account" -> createAssociatedTokenAccount(c, r)

-----------------------------------------------------------------------------
Init ==
    /\ job \in Assignments
    /\ pc = [r \in Runs |-> 1]
    /\ failed = {}
    /\ attempts = [r \in Runs |-> 0]
    /\ nonce = [r \in Runs |-> 0]
    /\ result = [r \in Runs |-> "none"]
    /\ mempool = {}
    /\ mined = [k \in Keys |-> 0]
    /\ inflight = {}
    /\ \E missing \in SUBSET ({Recipient(r) : r \in Runs} \cap {"solRecipient", "user"}) :
         chain = [balance |-> [a \in Accounts |->
                                 IF a \in {"ethSender", "solSender", "user"} \ missing
                                 THEN Funds ELSE 0],
                  allowance |-> <<0, 0>>,
                  open |-> Accounts \ missing,
                  burnt |-> {}, attested |-> {}, minted |-> {}, events |-> {}]

Advance(r) == pc' = [pc EXCEPT ![r] = @ + 1]

Throw(r) == failed' = failed \cup {r}

-----------------------------------------------------------------------------
(* A run's steps.                                                          *)

\* Version 1 from Ethereum asks for the count of mined transactions; every
\* other transaction takes the wallet's default, which counts pending ones.
getTransactionCount(r) ==
    IF job[r].kind = "eth2solV1"
    THEN mined[Key(r)]
    ELSE mined[Key(r)] + Cardinality({t \in mempool : t.key = Key(r)})

ReadNonce(r) ==
    /\ InPhase(r, "nonce")
    /\ nonce' = [nonce EXCEPT ![r] = getTransactionCount(r)]
    /\ Advance(r)
    /\ UNCHANGED <<job, failed, attempts, result, mempool, mined, inflight, chain>>

\* A send that is refused throws, and the script ends; only the mint of
\* transfer_sol2eth catches the error, and the script ends as usual.
Refused(r) ==
    IF job[r].kind = "sol2ethV1" /\ Op(r) = "mint"
    THEN Advance(r) /\ UNCHANGED failed
    ELSE Throw(r) /\ UNCHANGED pc

\* The wallet estimates the gas first: a transaction that would revert, or
\* whose nonce is used, is never sent.  One whose nonce is pending is refused
\* too, unless the fee has risen enough for it to replace the other.
SendEth(r) ==
    LET tx == [key |-> Key(r), nonce |-> nonce[r], run |-> r, op |-> Op(r)]
        rivals == {t \in mempool : t.key = tx.key /\ t.nonce = tx.nonce}
        refusable == Outcomes(chain, tx.op, r) = {} \/ tx.nonce < mined[tx.key] \/ rivals # {}
        sendable == Outcomes(chain, tx.op, r) # {} /\ tx.nonce >= mined[tx.key]
    IN  /\ InPhase(r, "send")
        /\ OnEth(r, Op(r))
        /\ nonce' = [nonce EXCEPT ![r] = 0]
        /\ \/ refusable /\ Refused(r) /\ UNCHANGED <<mempool, result>>
           \/ /\ sendable
              /\ mempool' = (mempool \ rivals) \cup {tx}
              /\ result' = [q \in Runs |->
                              IF \E t \in rivals : t.run = q THEN "replaced" ELSE result[q]]
              /\ Advance(r)
              /\ UNCHANGED failed
        /\ UNCHANGED <<job, attempts, mined, inflight, chain>>

\* The client can complete the accounts of the call; a version 2 burn may carry a
\* hook.  An associated token account needs none.
Builds(r, op, hook) ==
    CASE op = "burn" -> BurnResolves(Version(r), hook)
      [] op = "mint" -> MintResolves(Version(r))
      [] OTHER -> TRUE

\* The preflight simulation refuses what would fail now.
SendSol(r) ==
    /\ InPhase(r, "send")
    /\ ~OnEth(r, Op(r))
    /\ \E hook \in BOOLEAN :
       IF ~Builds(r, Op(r), hook) \/ Outcomes(chain, Op(r), r) = {}
       THEN Throw(r) /\ UNCHANGED <<pc, inflight>>
       ELSE /\ inflight' = inflight \cup {[run |-> r, op |-> Op(r)]}
            /\ Advance(r)
            /\ UNCHANGED failed
    /\ UNCHANGED <<job, attempts, nonce, result, mempool, mined, chain>>

\* Mutant: any receipt will do.
Wait_any(r) ==
    /\ InPhase(r, "wait")
    /\ result[r] # "none"
    /\ result' = [result EXCEPT ![r] = "none"]
    /\ Advance(r)
    /\ UNCHANGED <<job, failed, attempts, nonce, mempool, mined, inflight, chain>>

\* Mutant: only success ends the wait.
Wait_success(r) ==
    /\ InPhase(r, "wait")
    /\ result[r] = "ok"
    /\ result' = [result EXCEPT ![r] = "none"]
    /\ Advance(r)
    /\ UNCHANGED <<job, failed, attempts, nonce, mempool, mined, inflight, chain>>

\* Mutant: a burn that is not confirmed in time is sent once more.
Wait_resend(r) ==
    /\ InPhase(r, "wait")
    /\ \/ /\ At(r, "burn", "wait")
          /\ OnEth(r, "burn")
          /\ attempts[r] = 0
          /\ pc' = [pc EXCEPT ![r] = @ - 2]
          /\ attempts' = [attempts EXCEPT ![r] = 1]
          /\ UNCHANGED failed
       \/ /\ result[r] # "none"
          /\ IF result[r] = "ok"
             THEN Advance(r) /\ UNCHANGED failed
             ELSE Throw(r) /\ UNCHANGED pc
          /\ UNCHANGED attempts
    /\ result' = [result EXCEPT ![r] = "none"]
    /\ UNCHANGED <<job, nonce, mempool, mined, inflight, chain>>

\* tx.wait() and the confirmation of .rpc(): anything but success throws.
Wait(r) ==
    /\ InPhase(r, "wait")
    /\ result[r] # "none"
    /\ result' = [result EXCEPT ![r] = "none"]
    /\ IF result[r] = "ok"
       THEN Advance(r) /\ UNCHANGED failed
       ELSE Throw(r) /\ UNCHANGED pc
    /\ UNCHANGED <<job, attempts, nonce, mempool, mined, inflight, chain>>

CheckFunds(r) ==
    /\ At(r, "funds", "check")
    /\ IF chain.allowance[1] < job[r].amount \/ chain.balance[Source(r)] < job[r].amount
       THEN Throw(r) /\ UNCHANGED pc
       ELSE Advance(r) /\ UNCHANGED failed
    /\ UNCHANGED <<job, attempts, nonce, result, mempool, mined, inflight, chain>>

\* The account is created, in two more steps, only if it is missing.
CheckAccount(r) ==
    /\ At(r, "account", "check")
    /\ pc' = [pc EXCEPT ![r] = IF Recipient(r) \in chain.open THEN @ + 3 ELSE @ + 1]
    /\ UNCHANGED <<job, failed, attempts, nonce, result, mempool, mined, inflight, chain>>

\* Mutant: the polls are not bounded.
getAttestation_unbounded(r) ==
    IF r \in chain.attested
    THEN Advance(r) /\ UNCHANGED <<failed, attempts>>
    ELSE attempts' = [attempts EXCEPT ![r] = @ + 1] /\ UNCHANGED <<failed, pc>>

\* Version 1: a pending or failing answer counts, and the script gives up
\* after maxRetries of them.  An answer that is complete ends the loop.
getAttestation(r) ==
    IF r \in chain.attested
    THEN Advance(r) /\ UNCHANGED <<failed, attempts>>
    ELSE /\ attempts' = [attempts EXCEPT ![r] = @ + 1]
         /\ IF attempts[r] + 1 = MaxRetries THEN Throw(r) ELSE UNCHANGED failed
         /\ UNCHANGED pc

\* Version 2 asks again for as long as the answer is pending.
fetchAttestation(r) ==
    /\ r \in chain.attested
    /\ Advance(r)
    /\ UNCHANGED <<failed, attempts>>

PollAttestation(r) ==
    /\ At(r, "attestation", "poll")
    /\ IF Version(r) = 1 THEN getAttestation(r) ELSE fetchAttestation(r)
    /\ UNCHANGED <<job, nonce, result, mempool, mined, inflight, chain>>

\* The process is killed, an RPC call fails, a confirmation times out, or the
\* service answers with an empty list: the run ends where it is.
Crash(r) ==
    /\ Running(r)
    /\ Throw(r)
    /\ UNCHANGED <<job, pc, attempts, nonce, result, mempool, mined, inflight, chain>>

-----------------------------------------------------------------------------
(* The environment, external.                                              *)

Report(r, op, c) ==
    result' = IF At(r, op, "wait")
              THEN [result EXCEPT ![r] = IF c = {} THEN "failed" ELSE "ok"]
              ELSE result

Becomes(c) == IF c = {} THEN UNCHANGED chain ELSE chain' \in c

\* Transactions of one key are mined in the order of their nonces; one that
\* reverts uses its nonce.
Mine(k) ==
    \E t \in mempool :
        /\ t.key = k
        /\ t.nonce = mined[k]
        /\ mempool' = mempool \ {t}
        /\ mined' = [mined EXCEPT ![k] = @ + 1]
        /\ Becomes(Outcomes(chain, t.op, t.run))
        /\ Report(t.run, t.op, Outcomes(chain, t.op, t.run))
        /\ UNCHANGED <<job, pc, failed, attempts, nonce, inflight>>

\* A Solana transaction lands, or its blockhash expires and it never does.
Land(r) ==
    \E t \in inflight :
        /\ t.run = r
        /\ inflight' = inflight \ {t}
        /\ \E c \in {Outcomes(chain, t.op, r), {}} : Becomes(c) /\ Report(r, t.op, c)
        /\ UNCHANGED <<job, pc, failed, attempts, nonce, mempool, mined>>

\* The service attests to a burn once it is final.
Attest(r) ==
    /\ r \in chain.burnt \ chain.attested
    /\ chain' = [chain EXCEPT !.attested = @ \cup {r}]
    /\ UNCHANGED <<job, pc, failed, attempts, nonce, result, mempool, mined, inflight>>

\* The destination caller is the zero address by default: anyone may deliver
\* an attested message, as an operator does for a run that died.
Receive(r) ==
    /\ chain' \in receiveMessage(chain, r)
    /\ UNCHANGED <<job, pc, failed, attempts, nonce, result, mempool, mined, inflight>>

\* The reclaim command of transfer-v2.ts: the rent of an attested message's
\* account on Solana, against the attestation.
reclaimEventAccount(r) ==
    /\ r \in chain.events \cap chain.attested
    /\ Version(r) = 2
    /\ ReclaimResolves
    /\ chain' = [chain EXCEPT !.events = @ \ {r}]
    /\ UNCHANGED <<job, pc, failed, attempts, nonce, result, mempool, mined, inflight>>

\* Somebody else opens a token account.
OpenAccount ==
    /\ \E a \in Accounts \ chain.open : chain' = [chain EXCEPT !.open = @ \cup {a}]
    /\ UNCHANGED <<job, pc, failed, attempts, nonce, result, mempool, mined, inflight>>

-----------------------------------------------------------------------------
Step(r) ==
    \/ ReadNonce(r) \/ SendEth(r) \/ SendSol(r) \/ Wait(r)
    \/ CheckFunds(r) \/ CheckAccount(r) \/ PollAttestation(r)

Next ==
    \/ \E r \in Runs :
         \/ Step(r) \/ Crash(r) \/ Land(r) \/ Attest(r) \/ Receive(r)
         \/ reclaimEventAccount(r)
    \/ \E k \in Keys : Mine(k)
    \/ OpenAccount

\* A live process takes its next step; both chains and the attestation
\* service make progress.  Nothing is assumed of operators.
Fairness ==
    /\ \A r \in Runs : WF_vars(Step(r)) /\ WF_vars(Land(r)) /\ WF_vars(Attest(r))
    /\ \A k \in Keys : WF_vars(Mine(k))

Spec == Init /\ [][Next]_vars /\ Fairness

-----------------------------------------------------------------------------
(* Properties.                                                             *)

Tx == [key : Keys, nonce : Nat, run : Runs, op : {"approve", "burn", "mint"}]

TypeOK ==
    /\ job \in Assignments
    /\ pc \in [Runs -> 1..14]
    /\ failed \subseteq Runs
    /\ attempts \in [Runs -> 0..MaxRetries]
    /\ nonce \in [Runs -> Nat]
    /\ result \in [Runs -> {"none", "ok", "failed", "replaced"}]
    /\ \A t \in mempool : t \in Tx /\ t.nonce >= mined[t.key]
    /\ mined \in [Keys -> Nat]
    /\ inflight \subseteq [run : Runs, op : {"account", "burn", "mint"}]
    /\ chain.balance \in [Accounts -> Nat]
    /\ chain.minted \subseteq chain.attested /\ chain.attested \subseteq chain.burnt

Supply(b) ==
    [k \in {"eth", "sol"} |->
        IF k = "eth" THEN b["ethSender"] + b["ethRecipient"] + b["ethFees"]
        ELSE b["solSender"] + b["solRecipient"] + b["user"] + b["solFees"]]

Ledger == INSTANCE BridgeLedger WITH
    Chains <- {"eth", "sol"},
    Transfers <- Runs,
    supply <- Supply(chain.balance),
    inFlight <- [r \in Runs |->
        IF r \in chain.burnt \ chain.minted
        THEN [amount |-> job[r].amount, to |-> Chain(Recipient(r))]
        ELSE [amount |-> 0, to |-> "none"]]

\* Whatever runs, crashes and operators do, USDC leaves one chain once for each
\* run and enters the other once, in full: no run burns twice and nothing is
\* minted that was not burnt (transfer-v2.ts main, transferUsdc).
LedgerSpec == Ledger!Spec

\* A script that ends without an error has delivered: its burn was minted
\* (the awaited mintUSDC and receiveMessageSol, receiveMessageEvm).  The
\* version 1 script towards Ethereum promises nothing: it does not wait.
DoneMeansMinted ==
    \A r \in Runs : Done(r) /\ job[r].kind # "sol2ethV1" => r \in chain.minted

\* The token messenger keeps no permission to spend once the runs that asked
\* for it have succeeded: what is left was approved for a run that has not
\* ended well (burnUSDC, approve).
LeftoverApprovalMeansUnfinishedRun ==
    \A v \in {1, 2} : chain.allowance[v] # 0 =>
        \E r \in Runs : /\ Version(r) = v
                         /\ Source(r) = "ethSender"
                         /\ ~Done(r)
                         /\ chain.allowance[v] <= job[r].amount

\* A script gives up a Solana transaction before it is sent only if the chain would
\* refuse it: the accounts that depositForBurnSol, receiveMessageSol and the
\* version 1 scripts name are enough for the client.
OnlyTheChainRefuses ==
    [][ \A r \in Runs : SendSol(r) /\ r \in failed' => Outcomes(chain, Op(r), r) = {} ]_vars

\* Every run ends, whatever becomes of its transactions: no script waits for
\* something that will not come.
RunsEnd == \A r \in Runs : <>(~Running(r))
=============================================================================
