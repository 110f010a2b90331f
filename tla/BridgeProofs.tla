---------------------------- MODULE BridgeProofs ----------------------------
(***************************************************************************)
(* The cross-chain transfer scripts for any number of runs, at once or one *)
(* after the other, of any kinds and amounts.  The inductive invariant     *)
(* says that a run has at most one transaction out, the one it waits for;  *)
(* that a good receipt is about that one; that a run whose burn executed   *)
(* is past sending it; and for whom the token messenger's allowance is.    *)
(* That the scripts implement BridgeLedger follows from it.                *)
(***************************************************************************)
EXTENDS Bridge, FiniteSetTheorems, TLAPS

\* The ledgers of both chains and of the attestation service.
ChainState ==
    [balance : [Accounts -> Nat], allowance : [1..2 -> Nat], open : SUBSET Accounts,
     burnt : SUBSET Runs, attested : SUBSET Runs, minted : SUBSET Runs,
     events : SUBSET Runs]

\* The runs' own state and that of the chains have their types; a version 1
\* run that has used up its polls has failed.
RunsTyped ==
    /\ job \in Assignments
    /\ pc \in [Runs -> Nat \ {0}] /\ \A r \in Runs : pc[r] <= Len(Script(r)) + 1
    /\ failed \subseteq Runs
    /\ attempts \in [Runs -> 0..MaxRetries]
    /\ \A r \in Runs \ failed : attempts[r] < MaxRetries
    /\ nonce \in [Runs -> Nat]
    /\ result \in [Runs -> {"none", "ok", "failed", "replaced"}]

ChainsTyped ==
    /\ mempool \subseteq Tx /\ IsFiniteSet(mempool)
    /\ mined \in [Keys -> Nat]
    /\ inflight \subseteq [run : Runs, op : {"account", "burn", "mint"}]
    /\ chain \in ChainState

\* A nonce is used once for each key.
NoncesDistinct ==
    /\ \A t \in mempool : t.nonce >= mined[t.key]
    /\ \A t, u \in mempool : t.key = u.key /\ t.nonce = u.nonce => t = u

\* The mint that transfer_sol2eth sends and does not wait for.
Unawaited(r, op) == job[r].kind = "sol2ethV1" /\ op = "mint"

\* A transaction that has not executed is the last that its run sent.
Awaits(r, op) ==
    IF Unawaited(r, op) THEN Done(r)
    ELSE ~Done(r) /\ Script(r)[pc[r]] = <<op, "wait">>

OneTransactionOut ==
    /\ \A t \in mempool : Awaits(t.run, t.op) /\ OnEth(t.run, t.op)
    /\ \A t \in inflight : Awaits(t.run, t.op) /\ ~OnEth(t.run, t.op)
    /\ \A t, u \in mempool : t.run = u.run => t = u

Out(r) == (\E t \in mempool : t.run = r) \/ (\E t \in inflight : t.run = r)

\* A good receipt is about the transaction that the run waits for.
ReceiptsAreCurrent ==
    \A r \in Runs : result[r] = "ok" =>
        /\ ~Done(r) /\ Script(r)[pc[r]][2] = "wait"
        /\ ~Out(r)
        /\ Script(r)[pc[r]] = <<"mint", "wait">> => r \in chain.minted

\* Where each script waits for its burn.
BurnWait(r) ==
    CASE job[r].kind = "eth2solV1" -> 10
      [] job[r].kind = "evm2sol" -> 6
      [] OTHER -> 2

\* A burn that executed has been sent, was possible, and is not out any more.
BurntOnce ==
    \A r \in chain.burnt :
        /\ pc[r] >= BurnWait(r)
        /\ job[r].amount > 0 /\ (Version(r) = 2 => job[r].maxFee < job[r].amount)
        /\ \A t \in mempool : t.run = r => t.op # "burn"
        /\ \A t \in inflight : t.run = r => t.op # "burn"

MessagesInOrder == chain.minted \subseteq chain.attested /\ chain.attested \subseteq chain.burnt

\* An allowance is for a run that has not burnt yet.
AllowanceIsForABurn ==
    \A v \in {1, 2} : chain.allowance[v] # 0 =>
        \E r \in Runs : /\ Version(r) = v
                        /\ Source(r) = "ethSender"
                        /\ r \notin chain.burnt
                        /\ chain.allowance[v] <= job[r].amount

Orderly ==
    /\ ChainsTyped
    /\ NoncesDistinct
    /\ OneTransactionOut
    /\ ReceiptsAreCurrent
    /\ BurntOnce
    /\ MessagesInOrder
    /\ AllowanceIsForABurn
    /\ DoneMeansMinted

Inv == RunsTyped /\ Orderly
-----------------------------------------------------------------------------
(***************************************************************************)
(* The scripts                                                             *)
(***************************************************************************)

\* What a job consists of.
LEMMA JobTyped ==
  ASSUME job \in Assignments, NEW r \in Runs
  PROVE  job[r].kind \in Kinds /\ job[r].amount \in Nat /\ job[r].maxFee \in Nat
<1>1. job \in [Runs -> JobType]
  BY BridgeAssumption
<1> QED BY <1>1 DEF JobType

\* No step changes a job, nor what depends on nothing else.
LEMMA JobFixed ==
  ASSUME job' = job, NEW r
  PROVE  /\ Script(r)' = Script(r)
         /\ Version(r)' = Version(r) /\ Source(r)' = Source(r)
         /\ Recipient(r)' = Recipient(r)
         /\ BurnWait(r)' = BurnWait(r)
         /\ \A op : (OnEth(r, op)' <=> OnEth(r, op)) /\ (Unawaited(r, op)' <=> Unawaited(r, op))
  BY DEF Script, Version, Source, Recipient, BurnWait, OnEth, Unawaited

\* What matters about the order of a script's steps.
LEMMA ScriptShape ==
  ASSUME job \in Assignments, NEW r \in Runs
  PROVE  /\ Len(Script(r)) \in 5..13
         /\ BurnWait(r) \in 1..13
         /\ job[r].kind # "sol2ethV1" => Script(r)[Len(Script(r))] = <<"mint", "wait">>
         /\ \A i \in 1..Len(Script(r)) :
              /\ Script(r)[i] = <<Script(r)[i][1], Script(r)[i][2]>>
              /\ Script(r)[i][2] = "send" =>
                   /\ Script(r)[i][1] \in {"approve", "burn", "mint", "account"}
                   /\ IF Unawaited(r, Script(r)[i][1]) THEN i = Len(Script(r))
                      ELSE /\ i < Len(Script(r))
                           /\ Script(r)[i + 1] = <<Script(r)[i][1], "wait">>
              /\ Script(r)[i] = <<"burn", "send">> => i < BurnWait(r)
              /\ Script(r)[i] = <<"burn", "wait">> => i = BurnWait(r)
              /\ Script(r)[i] = <<"approve", "wait">> =>
                   i < BurnWait(r) /\ job[r].kind \in {"eth2solV1", "evm2sol"}
              /\ Script(r)[i] = <<"account", "check">> => i + 3 <= Len(Script(r))
<1>1. job[r].kind \in Kinds
  BY JobTyped
<1>2. CASE job[r].kind = "eth2solV1"
  <2>1. Script(r) = transfer_eth2sol /\ BurnWait(r) = 10
    BY <1>2 DEF Script, Scripts, Kinds, BurnWait
  <2> QED BY <1>2, <2>1 DEF transfer_eth2sol, EthTx, SolTx, Poll, Unawaited
<1>3. CASE job[r].kind = "sol2ethV1"
  <2>1. Script(r) = transfer_sol2eth /\ BurnWait(r) = 2
    BY <1>3 DEF Script, Scripts, Kinds, BurnWait
  <2> QED BY <1>3, <2>1 DEF transfer_sol2eth, EthTx, SolTx, Poll, Unawaited
<1>4. CASE job[r].kind = "sol2evm"
  <2>1. Script(r) = transfer_v2_sol2evm /\ BurnWait(r) = 2
    BY <1>4 DEF Script, Scripts, Kinds, BurnWait
  <2> QED BY <1>4, <2>1 DEF transfer_v2_sol2evm, EthTx, SolTx, Poll, Unawaited
<1>5. CASE job[r].kind = "evm2sol"
  <2>1. Script(r) = transfer_v2_evm2sol /\ BurnWait(r) = 6
    BY <1>5 DEF Script, Scripts, Kinds, BurnWait
  <2> QED BY <1>5, <2>1 DEF transfer_v2_evm2sol, EthTx, SolTx, Poll, Unawaited
<1> QED BY <1>1, <1>2, <1>3, <1>4, <1>5 DEF Kinds

\* Where a job's USDC comes from and goes to.
LEMMA Ends ==
  ASSUME job \in Assignments, NEW r \in Runs
  PROVE  /\ Version(r) \in {1, 2}
         /\ Source(r) \in Accounts /\ Recipient(r) \in Accounts
         /\ FeeRecipient(r) \in Accounts /\ FeeRecipient(r) # Recipient(r)
         /\ Chain(Source(r)) \in {"eth", "sol"} /\ Chain(Recipient(r)) \in {"eth", "sol"}
         /\ Chain(Source(r)) # Chain(Recipient(r))
         /\ Chain(FeeRecipient(r)) = Chain(Recipient(r))
         /\ Chain(Source(r)) = "eth" <=> Source(r) = "ethSender"
         /\ Source(r) = "ethSender" => job[r].kind # "sol2ethV1"
<1>1. job[r].kind \in Kinds
  BY JobTyped
<1>2. Version(r) \in {1, 2}
  BY DEF Version
<1>3. CASE job[r].kind = "eth2solV1"
  <2>1. Source(r) = "ethSender" /\ Recipient(r) = "solRecipient"
    BY <1>3 DEF Source, Recipient
  <2> QED BY <1>2, <1>3, <2>1 DEF FeeRecipient, Chain, Accounts
<1>4. CASE job[r].kind = "evm2sol"
  <2>1. Source(r) = "ethSender" /\ Recipient(r) = "user"
    BY <1>4 DEF Source, Recipient
  <2> QED BY <1>2, <1>4, <2>1 DEF FeeRecipient, Chain, Accounts
<1>5. CASE job[r].kind = "sol2ethV1"
  <2>1. Source(r) = "solSender" /\ Recipient(r) = "ethRecipient"
    BY <1>5 DEF Source, Recipient
  <2> QED BY <1>2, <1>5, <2>1 DEF FeeRecipient, Chain, Accounts
<1>6. CASE job[r].kind = "sol2evm"
  <2>1. Source(r) = "user" /\ Recipient(r) = "ethRecipient"
    BY <1>6 DEF Source, Recipient
  <2> QED BY <1>2, <1>6, <2>1 DEF FeeRecipient, Chain, Accounts
<1> QED BY <1>1, <1>3, <1>4, <1>5, <1>6 DEF Kinds
-----------------------------------------------------------------------------
(***************************************************************************)
(* What a transaction makes of the chains                                  *)
(***************************************************************************)

\* The balances after a transaction.
Payments(c, n, op, r) ==
    /\ op \notin {"burn", "mint"} => n.balance = c.balance
    /\ op = "burn" =>
         n.balance = [c.balance EXCEPT ![Source(r)] = @ - job[r].amount]
    /\ op = "mint" => \E fee \in 0..job[r].amount :
         n.balance = Credit(Credit(c.balance, Recipient(r), job[r].amount - fee),
                            FeeRecipient(r), fee)

\* The allowances after a transaction: the messenger may spend what the run
\* needs, and no more than that once it has.
Allowances(c, n, op, r) ==
    \A v \in {1, 2} :
        \/ n.allowance[v] = c.allowance[v] /\ (op # "burn" \/ v # Version(r) \/ ~OnEth(r, op))
        \/ v = Version(r) /\ op = "approve" /\ n.allowance[v] = job[r].amount
        \/ /\ v = Version(r) /\ op = "burn" /\ OnEth(r, op)
           /\ n.allowance[v] = c.allowance[v] - job[r].amount

Executed(c, n, op, r) ==
    /\ n \in ChainState
    /\ n.attested = c.attested
    /\ n.burnt = IF op = "burn" THEN c.burnt \cup {r} ELSE c.burnt
    /\ n.minted = IF op = "mint" THEN c.minted \cup {r} ELSE c.minted
    /\ op = "burn" => Burnable(c, r)
    /\ op = "mint" => r \in c.attested /\ r \notin c.minted
    /\ Payments(c, n, op, r)
    /\ Allowances(c, n, op, r)

\* The fee that the service takes leaves the rest to the recipient.
FeeCovered(r) == Version(r) = 2 => job[r].maxFee < job[r].amount

\* An approval.
LEMMA ApproveSpec ==
  ASSUME job \in Assignments, NEW r \in Runs, NEW c \in ChainState, NEW n \in approve(c, r)
  PROVE  Executed(c, n, "approve", r)
<1>1. n = [c EXCEPT !.allowance[Version(r)] = job[r].amount]
  BY DEF approve
<1>2. job[r].amount \in Nat /\ Version(r) \in {1, 2}
  BY JobTyped, Ends
<1>3. c.allowance \in [1..2 -> Nat]
  BY DEF ChainState
<1>4. /\ n \in ChainState
      /\ n.attested = c.attested /\ n.burnt = c.burnt /\ n.minted = c.minted
      /\ n.balance = c.balance
      /\ n.allowance = [c.allowance EXCEPT ![Version(r)] = job[r].amount]
  BY <1>1, <1>2, <1>3 DEF ChainState
<1>5. Allowances(c, n, "approve", r)
  BY <1>2, <1>3, <1>4 DEF Allowances
<1>6. Payments(c, n, "approve", r)
  BY <1>4 DEF Payments
<1> QED BY <1>4, <1>5, <1>6 DEF Executed

\* A token account.
LEMMA AccountSpec ==
  ASSUME job \in Assignments, NEW r \in Runs, NEW c \in ChainState,
         NEW n \in createAssociatedTokenAccount(c, r)
  PROVE  Executed(c, n, "account", r)
<1>1. n = [c EXCEPT !.open = @ \cup {Recipient(r)}]
  BY DEF createAssociatedTokenAccount
<1>2. Recipient(r) \in Accounts
  BY Ends
<1>4. /\ n \in ChainState
      /\ n.attested = c.attested /\ n.burnt = c.burnt /\ n.minted = c.minted
      /\ n.balance = c.balance
      /\ n.allowance = c.allowance
  BY <1>1, <1>2 DEF ChainState
<1>5. Allowances(c, n, "account", r)
  BY <1>4 DEF Allowances
<1>6. Payments(c, n, "account", r)
  BY <1>4 DEF Payments
<1> QED BY <1>4, <1>5, <1>6 DEF Executed

\* What the burns of both chains have in common.
LEMMA BurnCommon ==
  ASSUME job \in Assignments, NEW r \in Runs, NEW c \in ChainState, Burnable(c, r)
  PROVE  /\ Burn(c, r) \in ChainState
         /\ Burn(c, r).attested = c.attested /\ Burn(c, r).minted = c.minted
         /\ Burn(c, r).burnt = c.burnt \cup {r}
         /\ Burn(c, r).allowance = c.allowance
         /\ Burn(c, r).balance = [c.balance EXCEPT ![Source(r)] = @ - job[r].amount]
<1> DEFINE paid == [c.balance EXCEPT ![Source(r)] = @ - job[r].amount]
<1>1. /\ c.balance \in [Accounts -> Nat] /\ c.burnt \subseteq Runs
      /\ Source(r) \in Accounts /\ job[r].amount \in Nat
      /\ c.balance[Source(r)] \in Nat
  BY JobTyped, Ends DEF ChainState
<1>2. job[r].amount <= c.balance[Source(r)]
  BY <1>1 DEF Burnable
<1>3. paid \in [Accounts -> Nat]
  BY <1>1, <1>2
<1> DEFINE mid == [c EXCEPT !.balance = paid]
<1>4. Burn(c, r) = [mid EXCEPT !.burnt = @ \cup {r}]
  BY <1>1 DEF Burn, ChainState
<1> HIDE DEF paid
<1>5. /\ mid \in ChainState
      /\ mid.attested = c.attested /\ mid.minted = c.minted /\ mid.burnt = c.burnt
      /\ mid.allowance = c.allowance /\ mid.balance = paid
  BY <1>3 DEF ChainState
<1> HIDE DEF mid
<1>6. /\ Burn(c, r) \in ChainState
      /\ Burn(c, r).attested = mid.attested /\ Burn(c, r).minted = mid.minted
      /\ Burn(c, r).burnt = mid.burnt \cup {r}
      /\ Burn(c, r).allowance = mid.allowance
      /\ Burn(c, r).balance = mid.balance
  BY <1>4, <1>5 DEF ChainState
<1> QED BY <1>5, <1>6 DEF paid

\* A burn, on the chain where the job's USDC is.
LEMMA BurnSpec ==
  ASSUME job \in Assignments, NEW r \in Runs, NEW c \in ChainState,
         NEW n \in Outcomes(c, "burn", r)
  PROVE  Executed(c, n, "burn", r)
<1>1. n \in IF OnEth(r, "burn") THEN depositForBurnEvm(c, r) ELSE depositForBurnSol(c, r)
  BY DEF Outcomes
<1>2. Burnable(c, r)
  BY <1>1 DEF depositForBurnEvm, depositForBurnSol
<1> DEFINE b == Burn(c, r)
<1>3. /\ b \in ChainState
      /\ b.attested = c.attested /\ b.minted = c.minted
      /\ b.burnt = c.burnt \cup {r}
      /\ b.allowance = c.allowance
      /\ b.balance = [c.balance EXCEPT ![Source(r)] = @ - job[r].amount]
  BY <1>2, BurnCommon
<1>4. /\ job[r].amount \in Nat /\ Version(r) \in {1, 2}
      /\ c.allowance \in [1..2 -> Nat] /\ c.allowance[Version(r)] \in Nat
  BY JobTyped, Ends DEF ChainState
<1>5. CASE OnEth(r, "burn")
  <2> DEFINE spent == [c.allowance EXCEPT ![Version(r)] = @ - job[r].amount]
  <2>1. /\ job[r].amount <= c.allowance[Version(r)]
        /\ n = [b EXCEPT !.allowance[Version(r)] = @ - job[r].amount]
    BY <1>1, <1>5 DEF depositForBurnEvm
  <2> HIDE DEF b
  <2>2. spent \in [1..2 -> Nat]
    BY <1>4, <2>1
  <2>3. n = [b EXCEPT !.allowance = spent]
    BY <1>3, <1>4, <2>1 DEF ChainState
  <2>4. \A v \in {1, 2} : spent[v] = IF v = Version(r) THEN c.allowance[v] - job[r].amount
                                     ELSE c.allowance[v]
    BY <1>4
  <2> HIDE DEF spent
  <2>5. /\ n \in ChainState
        /\ n.attested = b.attested /\ n.minted = b.minted /\ n.burnt = b.burnt
        /\ n.balance = b.balance /\ n.allowance = spent
    BY <1>3, <2>2, <2>3 DEF ChainState
  <2>6. Allowances(c, n, "burn", r)
    BY <1>5, <2>4, <2>5 DEF Allowances
  <2>7. Payments(c, n, "burn", r)
    BY <1>3, <2>5 DEF Payments
  <2> QED BY <1>2, <1>3, <2>5, <2>6, <2>7 DEF Executed
<1>6. CASE ~OnEth(r, "burn")
  <2>1. n = [b EXCEPT !.events = @ \cup {r}]
    BY <1>1, <1>6 DEF depositForBurnSol
  <2> HIDE DEF b
  <2>2. /\ n \in ChainState
        /\ n.attested = b.attested /\ n.minted = b.minted /\ n.burnt = b.burnt
        /\ n.balance = b.balance /\ n.allowance = b.allowance
    BY <1>3, <2>1 DEF ChainState
  <2>3. Allowances(c, n, "burn", r)
    BY <1>3, <1>6, <2>2 DEF Allowances
  <2>4. Payments(c, n, "burn", r)
    BY <1>3, <2>2 DEF Payments
  <2> QED BY <1>2, <1>3, <2>2, <2>3, <2>4 DEF Executed
<1> QED BY <1>5, <1>6

\* The receipt of an attested message.
LEMMA ReceiveSpec ==
  ASSUME job \in Assignments, NEW r \in Runs, NEW c \in ChainState,
         r \in c.attested => FeeCovered(r), NEW n \in receiveMessage(c, r)
  PROVE  Executed(c, n, "mint", r)
<1>1. r \in c.attested /\ r \notin c.minted
  BY DEF receiveMessage
<1>2. PICK fee \in 0..(IF Version(r) = 1 THEN 0 ELSE job[r].maxFee) :
        n = [c EXCEPT !.balance = Credit(Credit(@, Recipient(r), job[r].amount - fee),
                                         FeeRecipient(r), fee),
                      !.minted = @ \cup {r}]
  BY <1>1 DEF receiveMessage
<1>3. /\ job[r].amount \in Nat /\ job[r].maxFee \in Nat /\ Version(r) \in {1, 2}
      /\ Recipient(r) \in Accounts /\ FeeRecipient(r) \in Accounts
      /\ c.balance \in [Accounts -> Nat]
  BY JobTyped, Ends DEF ChainState
<1>4. fee \in 0..job[r].amount
  BY <1>1, <1>2, <1>3 DEF FeeCovered
<1> DEFINE credited == Credit(c.balance, Recipient(r), job[r].amount - fee)
           paid == Credit(credited, FeeRecipient(r), fee)
           mid == [c EXCEPT !.balance = paid]
<1>5. credited \in [Accounts -> Nat]
  BY <1>3, <1>4 DEF Credit
<1>6. paid \in [Accounts -> Nat]
  <2> HIDE DEF credited
  <2> QED BY <1>3, <1>4, <1>5 DEF Credit
<1>7. n = [mid EXCEPT !.minted = @ \cup {r}]
  BY <1>2 DEF ChainState
<1>8. /\ n \in ChainState
      /\ n.attested = c.attested /\ n.burnt = c.burnt /\ n.minted = c.minted \cup {r}
      /\ n.balance = paid /\ n.allowance = c.allowance
  <2> HIDE DEF paid
  <2>1. /\ mid \in ChainState
        /\ mid.attested = c.attested /\ mid.burnt = c.burnt /\ mid.minted = c.minted
        /\ mid.balance = paid /\ mid.allowance = c.allowance
    BY <1>6 DEF ChainState
  <2> HIDE DEF mid
  <2> QED BY <1>7, <2>1 DEF ChainState
<1>9. Payments(c, n, "mint", r)
  BY <1>4, <1>8 DEF Payments
<1>10. Allowances(c, n, "mint", r)
  BY <1>8 DEF Allowances
<1> QED BY <1>1, <1>8, <1>9, <1>10 DEF Executed

\* Every transaction that a run can send.
LEMMA OutcomeSpec ==
  ASSUME job \in Assignments, NEW r \in Runs, NEW c \in ChainState,
         r \in c.attested => FeeCovered(r),
         NEW op \in {"approve", "burn", "mint", "account"}, NEW n \in Outcomes(c, op, r)
  PROVE  Executed(c, n, op, r)
<1>1. CASE op = "approve"
  <2>1. n \in approve(c, r)
    BY <1>1 DEF Outcomes
  <2> QED BY <1>1, <2>1, ApproveSpec
<1>2. CASE op = "account"
  <2>1. n \in createAssociatedTokenAccount(c, r)
    BY <1>2 DEF Outcomes
  <2> QED BY <1>2, <2>1, AccountSpec
<1>3. CASE op = "mint"
  <2>1. n \in receiveMessage(c, r)
    BY <1>3 DEF Outcomes
  <2> QED BY <1>3, <2>1, ReceiveSpec
<1>4. CASE op = "burn"
  BY <1>4, BurnSpec
<1> QED BY <1>1, <1>2, <1>3, <1>4
-----------------------------------------------------------------------------
(***************************************************************************)
(* Steps of a run that send nothing                                        *)
(***************************************************************************)

\* Where every run is in its script.
LEMMA RunsPlaced ==
  ASSUME RunsTyped, NEW r \in Runs
  PROVE  /\ pc[r] \in Nat \ {0} /\ Len(Script(r)) \in Nat
         /\ pc[r] <= Len(Script(r)) + 1
         /\ ~Done(r) => pc[r] \in 1..Len(Script(r))
<1>1. Len(Script(r)) \in 5..13
  BY ScriptShape DEF RunsTyped
<1> QED BY <1>1 DEF RunsTyped, Done

\* A run that is not waiting has nothing out.
LEMMA NothingOut ==
  ASSUME Inv, NEW r \in Runs, ~Done(r), Script(r)[pc[r]][2] # "wait"
  PROVE  ~Out(r) /\ result[r] # "ok"
<1>1. \A op : Awaits(r, op) => Script(r)[pc[r]][2] = "wait"
  BY DEF Awaits
<1>2. ~Out(r)
  BY <1>1 DEF Inv, Orderly, OneTransactionOut, Out
<1>3. result[r] # "ok"
  BY DEF Inv, Orderly, ReceiptsAreCurrent
<1> QED BY <1>2, <1>3

\* A run moves on that has nothing out.
LEMMA RunMoves ==
  ASSUME Inv, job' = job, UNCHANGED <<mempool, mined, inflight, chain>>,
         NEW r \in Runs, ~Out(r),
         pc' \in [Runs -> Nat \ {0}], pc'[r] >= pc[r],
         \A q \in Runs \ {r} : pc'[q] = pc[q],
         result'[r] # "ok", \A q \in Runs \ {r} : result'[q] = result[q],
         Done(r)' /\ job[r].kind # "sol2ethV1" => r \in chain.minted
  PROVE  Orderly'
<1>1. /\ \A t \in mempool : t.run \in Runs \ {r}
      /\ \A t \in inflight : t.run \in Runs \ {r}
  BY DEF Inv, Orderly, ChainsTyped, Out, Tx
<1>2. \A q \in Runs : Script(q)' = Script(q)
  BY JobFixed
<1>3. \A q \in Runs \ {r} : Done(q)' <=> Done(q)
  BY <1>2 DEF Done
<1>4. \A q \in Runs \ {r} : \A op : Awaits(q, op)' <=> Awaits(q, op)
  <2> TAKE q \in Runs \ {r}
  <2> TAKE op
  <2>1. Unawaited(q, op)' <=> Unawaited(q, op)
    BY JobFixed
  <2> QED BY <1>2, <1>3, <2>1 DEF Awaits
<1>5. \A q, op : OnEth(q, op)' <=> OnEth(q, op)
  BY JobFixed
<1>6. ChainsTyped' /\ NoncesDistinct' /\ MessagesInOrder'
  BY DEF Inv, Orderly, ChainsTyped, NoncesDistinct, MessagesInOrder
<1>7. OneTransactionOut'
  BY <1>1, <1>4, <1>5 DEF Inv, Orderly, OneTransactionOut
<1>8. ReceiptsAreCurrent'
  BY <1>2, <1>3 DEF Inv, Orderly, ReceiptsAreCurrent, Out
<1>9. BurntOnce'
  <2> SUFFICES ASSUME NEW q \in chain.burnt
               PROVE  /\ pc'[q] >= BurnWait(q)'
                      /\ job'[q].amount > 0
                      /\ Version(q)' = 2 => job'[q].maxFee < job'[q].amount
                      /\ \A t \in mempool' : t.run = q => t.op # "burn"
                      /\ \A t \in inflight' : t.run = q => t.op # "burn"
    BY DEF BurntOnce
  <2>1. q \in Runs /\ BurnWait(q)' = BurnWait(q) /\ Version(q)' = Version(q)
    BY JobFixed DEF Inv, Orderly, ChainsTyped, ChainState
  <2>2. pc[q] \in Nat /\ pc'[q] >= pc[q] /\ BurnWait(q) \in Nat
    <3>1. job \in Assignments /\ pc \in [Runs -> Nat \ {0}]
      BY DEF Inv, RunsTyped
    <3>2. BurnWait(q) \in 1..13
      BY <2>1, <3>1, ScriptShape
    <3>3. pc[q] \in Nat
      BY <2>1, <3>1
    <3>4. pc'[q] >= pc[q]
      BY <2>1, <3>3
    <3> QED BY <3>2, <3>3, <3>4
  <2>3. pc[q] >= BurnWait(q)
    BY DEF Inv, Orderly, BurntOnce
  <2>4. pc'[q] >= BurnWait(q)'
    <3>1. pc'[q] \in Nat
      BY <2>1
    <3> QED BY <2>1, <2>2, <2>3, <3>1
  <2> QED BY <2>1, <2>4 DEF Inv, Orderly, BurntOnce
<1>10. AllowanceIsForABurn'
  <2>1. \A q \in Runs : Version(q)' = Version(q) /\ Source(q)' = Source(q)
    BY JobFixed
  <2> QED BY <2>1 DEF Inv, Orderly, AllowanceIsForABurn
<1>11. DoneMeansMinted'
  BY <1>3 DEF Inv, Orderly, DoneMeansMinted
<1> QED BY <1>6, <1>7, <1>8, <1>9, <1>10, <1>11 DEF Orderly

\* A run stops where it is.
LEMMA RunStops ==
  ASSUME Inv, job' = job, UNCHANGED <<pc, mempool, mined, inflight, chain>>,
         \A q \in Runs : result'[q] = "ok" => result[q] = "ok"
  PROVE  Orderly'
<1>1. \A q \in Runs : Script(q)' = Script(q) /\ Version(q)' = Version(q)
                      /\ Source(q)' = Source(q) /\ BurnWait(q)' = BurnWait(q)
  BY JobFixed
<1>2. \A q \in Runs : Done(q)' <=> Done(q)
  BY <1>1 DEF Done
<1>3. \A q \in Runs : \A op : (Awaits(q, op)' <=> Awaits(q, op)) /\ (OnEth(q, op)' <=> OnEth(q, op))
  <2> TAKE q \in Runs
  <2> TAKE op
  <2>1. (Unawaited(q, op)' <=> Unawaited(q, op)) /\ (OnEth(q, op)' <=> OnEth(q, op))
    BY JobFixed
  <2> QED BY <1>1, <1>2, <2>1 DEF Awaits
<1>4. ChainsTyped' /\ NoncesDistinct' /\ MessagesInOrder'
  BY DEF Inv, Orderly, ChainsTyped, NoncesDistinct, MessagesInOrder
<1>5. /\ \A t \in mempool : t.run \in Runs
      /\ \A t \in inflight : t.run \in Runs
      /\ chain.burnt \subseteq Runs
  BY DEF Inv, Orderly, ChainsTyped, Tx, ChainState
<1>6. OneTransactionOut'
  BY <1>3, <1>5 DEF Inv, Orderly, OneTransactionOut
<1>7. ReceiptsAreCurrent'
  BY <1>1, <1>2 DEF Inv, Orderly, ReceiptsAreCurrent, Out
<1>8. BurntOnce'
  BY <1>1, <1>5 DEF Inv, Orderly, BurntOnce
<1>9. AllowanceIsForABurn'
  BY <1>1 DEF Inv, Orderly, AllowanceIsForABurn
<1>10. DoneMeansMinted'
  BY <1>2 DEF Inv, Orderly, DoneMeansMinted
<1> QED BY <1>4, <1>6, <1>7, <1>8, <1>9, <1>10 DEF Orderly

\* A run takes the next step of its script.
LEMMA Advances ==
  ASSUME RunsTyped, NEW r \in Runs, ~Done(r), Advance(r), job' = job
  PROVE  /\ pc' \in [Runs -> Nat \ {0}]
         /\ \A q \in Runs : pc'[q] <= Len(Script(q)') + 1
         /\ pc'[r] = pc[r] + 1 /\ \A q \in Runs \ {r} : pc'[q] = pc[q]
         /\ Script(r)[pc[r]][2] # "wait" /\ job[r].kind # "sol2ethV1" => ~Done(r)'
<1>1. pc' = [pc EXCEPT ![r] = @ + 1] /\ pc \in [Runs -> Nat \ {0}]
  BY DEF Advance, RunsTyped
<1>2. /\ pc[r] \in 1..Len(Script(r)) /\ Len(Script(r)) \in Nat
      /\ \A q \in Runs : Script(q)' = Script(q) /\ pc[q] <= Len(Script(q)) + 1
  BY RunsPlaced, JobFixed
<1>3. pc'[r] = pc[r] + 1 /\ \A q \in Runs \ {r} : pc'[q] = pc[q]
  BY <1>1
<1>4. pc' \in [Runs -> Nat \ {0}]
  BY <1>1
<1>5. pc'[r] <= Len(Script(r)') + 1
  BY <1>2, <1>3
<1>6. \A q \in Runs : pc'[q] <= Len(Script(q)') + 1
  BY <1>2, <1>3, <1>5
<1>7. ASSUME Script(r)[pc[r]][2] # "wait", job[r].kind # "sol2ethV1" PROVE ~Done(r)'
  <2>1. Script(r)[Len(Script(r))] = <<"mint", "wait">>
    BY <1>7, ScriptShape DEF RunsTyped
  <2>2. Script(r)[Len(Script(r))][2] = "wait"
    BY <2>1
  <2>3. pc[r] # Len(Script(r))
    BY <1>7, <2>2
  <2> QED BY <1>2, <1>3, <2>3 DEF Done
<1> QED BY <1>3, <1>4, <1>6, <1>7

\* A step that does not wait for a transaction leads on.
LEMMA RunAdvances ==
  ASSUME Inv, NEW r \in Runs, ~Done(r), Script(r)[pc[r]][2] # "wait", Advance(r),
         job' = job, UNCHANGED <<result, mempool, mined, inflight, chain>>
  PROVE  Orderly'
<1>1. ~Out(r) /\ result[r] # "ok" /\ RunsTyped
  BY NothingOut DEF Inv
<1>2. /\ pc' \in [Runs -> Nat \ {0}] /\ pc'[r] = pc[r] + 1
      /\ \A q \in Runs \ {r} : pc'[q] = pc[q]
      /\ job[r].kind # "sol2ethV1" => ~Done(r)'
  BY <1>1, Advances
<1>3. pc'[r] >= pc[r]
  BY <1>1, <1>2 DEF RunsTyped
<1> QED BY <1>1, <1>2, <1>3, RunMoves

\* What the runs keep of their types when one of them takes a step.
LEMMA RunsStayTyped ==
  ASSUME RunsTyped, job' = job, failed \subseteq failed', failed' \subseteq Runs,
         pc' \in [Runs -> Nat \ {0}],
         \A q \in Runs : pc'[q] <= Len(Script(q)') + 1,
         attempts' = attempts, nonce' \in [Runs -> Nat],
         result' \in [Runs -> {"none", "ok", "failed", "replaced"}]
  PROVE  RunsTyped'
BY DEF RunsTyped

\* A run that stops stays where it is.
LEMMA StaysPlaced ==
  ASSUME RunsTyped, job' = job, pc' = pc
  PROVE  /\ pc' \in [Runs -> Nat \ {0}]
         /\ \A q \in Runs : pc'[q] <= Len(Script(q)') + 1
<1>1. \A q \in Runs : Script(q)' = Script(q)
  BY JobFixed
<1> QED BY <1>1 DEF RunsTyped

\* The count that a wallet asks for is a number.
LEMMA CountTyped ==
  ASSUME Inv, NEW r \in Runs PROVE getTransactionCount(r) \in Nat
<1> DEFINE own == {t \in mempool : t.key = Key(r)}
<1>1. IsFiniteSet(mempool) /\ own \subseteq mempool
  BY DEF Inv, Orderly, ChainsTyped
<1>2. Cardinality(own) \in Nat
  BY <1>1, FS_Subset, FS_CardinalityType
<1>3. mined[Key(r)] \in Nat
  BY DEF Inv, Orderly, ChainsTyped, Key, Keys
<1> HIDE DEF own
<1>4. mined[Key(r)] + Cardinality(own) \in Nat
  BY <1>2, <1>3
<1> QED BY <1>3, <1>4 DEF getTransactionCount, own

\* The steps that send nothing.
LEMMA QuietSteps ==
  ASSUME Inv, NEW r \in Runs,
         \/ ReadNonce(r) \/ Wait(r) \/ CheckFunds(r) \/ CheckAccount(r)
         \/ PollAttestation(r) \/ Crash(r)
  PROVE  Inv'
<1>0. RunsTyped /\ MaxRetries \in Nat
  BY BridgeAssumption DEF Inv
<1>1. CASE ReadNonce(r)
  <2>1. /\ ~Done(r) /\ Script(r)[pc[r]][2] = "nonce" /\ Advance(r) /\ job' = job
        /\ UNCHANGED <<failed, attempts, result, mempool, mined, inflight, chain>>
        /\ nonce' = [nonce EXCEPT ![r] = getTransactionCount(r)]
    BY <1>1 DEF ReadNonce, InPhase, Running
  <2>2. Orderly'
    BY <2>1, RunAdvances
  <2>3. nonce' \in [Runs -> Nat]
    BY <1>0, <2>1, CountTyped DEF RunsTyped
  <2>4. RunsTyped'
    BY <1>0, <2>1, <2>3, Advances, RunsStayTyped DEF RunsTyped
  <2> QED BY <2>2, <2>4 DEF Inv
<1>2. CASE Wait(r)
  <2>1. /\ ~Done(r) /\ Script(r)[pc[r]][2] = "wait" /\ job' = job
        /\ UNCHANGED <<attempts, nonce, mempool, mined, inflight, chain>>
        /\ result' = [result EXCEPT ![r] = "none"]
        /\ IF result[r] = "ok" THEN Advance(r) /\ UNCHANGED failed
           ELSE Throw(r) /\ UNCHANGED pc
    BY <1>2 DEF Wait, InPhase, Running
  <2>2. /\ result' \in [Runs -> {"none", "ok", "failed", "replaced"}]
        /\ result'[r] = "none" /\ \A q \in Runs \ {r} : result'[q] = result[q]
        /\ nonce' \in [Runs -> Nat] /\ failed \subseteq Runs
    BY <1>0, <2>1 DEF RunsTyped
  <2>3. CASE result[r] = "ok"
    <3>1. /\ pc' \in [Runs -> Nat \ {0}] /\ pc'[r] = pc[r] + 1
          /\ \A q \in Runs \ {r} : pc'[q] = pc[q]
          /\ \A q \in Runs : pc'[q] <= Len(Script(q)') + 1
      BY <1>0, <2>1, <2>3, Advances
    <3>2. ~Out(r) /\ (Script(r)[pc[r]] = <<"mint", "wait">> => r \in chain.minted)
      BY <2>3 DEF Inv, Orderly, ReceiptsAreCurrent
    <3>3. ASSUME Done(r)', job[r].kind # "sol2ethV1" PROVE r \in chain.minted
      <4>1. Script(r)' = Script(r) /\ pc[r] \in 1..Len(Script(r)) /\ Len(Script(r)) \in Nat
        BY <1>0, <2>1, JobFixed, RunsPlaced
      <4>2. pc[r] = Len(Script(r))
        BY <3>1, <3>3, <4>1 DEF Done
      <4>3. Script(r)[Len(Script(r))] = <<"mint", "wait">>
        BY <1>0, <3>3, ScriptShape DEF RunsTyped
      <4> QED BY <3>2, <4>2, <4>3
    <3>4. pc'[r] >= pc[r]
      BY <1>0, <3>1 DEF RunsTyped
    <3>5. Orderly'
      BY <2>1, <2>2, <3>1, <3>2, <3>3, <3>4, RunMoves
    <3>6. RunsTyped'
      BY <1>0, <2>1, <2>2, <2>3, <3>1, RunsStayTyped
    <3> QED BY <3>5, <3>6 DEF Inv
  <2>4. CASE result[r] # "ok"
    <3>1. pc' = pc /\ failed' = failed \cup {r}
      BY <2>1, <2>4 DEF Throw
    <3>2. \A q \in Runs : result'[q] = "ok" => result[q] = "ok"
      BY <2>2
    <3>3. Orderly'
      BY <2>1, <3>1, <3>2, RunStops
    <3>4. RunsTyped'
      BY <1>0, <2>1, <2>2, <3>1, StaysPlaced, RunsStayTyped
    <3> QED BY <3>3, <3>4 DEF Inv
  <2> QED BY <2>3, <2>4
<1>3. CASE CheckFunds(r)
  <2>1. /\ ~Done(r) /\ Script(r)[pc[r]] = <<"funds", "check">> /\ job' = job
        /\ UNCHANGED <<attempts, nonce, result, mempool, mined, inflight, chain>>
        /\ \/ Throw(r) /\ UNCHANGED pc
           \/ Advance(r) /\ UNCHANGED failed
    BY <1>3 DEF CheckFunds, At, Running
  <2>2. Script(r)[pc[r]][2] # "wait"
    BY <2>1
  <2>3. nonce' \in [Runs -> Nat] /\ failed \subseteq Runs
        /\ result' \in [Runs -> {"none", "ok", "failed", "replaced"}]
    BY <1>0, <2>1 DEF RunsTyped
  <2>4. CASE Advance(r) /\ UNCHANGED failed
    <3>1. Orderly'
      BY <2>1, <2>2, <2>4, RunAdvances
    <3>2. RunsTyped'
      BY <1>0, <2>1, <2>3, <2>4, Advances, RunsStayTyped
    <3> QED BY <3>1, <3>2 DEF Inv
  <2>5. CASE Throw(r) /\ UNCHANGED pc
    <3>1. failed' = failed \cup {r}
      BY <2>5 DEF Throw
    <3>2. Orderly'
      BY <2>1, <2>5, RunStops
    <3>3. RunsTyped'
      BY <1>0, <2>1, <2>3, <2>5, <3>1, StaysPlaced, RunsStayTyped
    <3> QED BY <3>2, <3>3 DEF Inv
  <2> QED BY <2>1, <2>4, <2>5
<1>4. CASE CheckAccount(r)
  <2>1. /\ ~Done(r) /\ Script(r)[pc[r]] = <<"account", "check">> /\ job' = job
        /\ UNCHANGED <<failed, attempts, nonce, result, mempool, mined, inflight, chain>>
        /\ pc' = [pc EXCEPT ![r] = IF Recipient(r) \in chain.open THEN @ + 3 ELSE @ + 1]
    BY <1>4 DEF CheckAccount, At, Running
  <2>2. pc[r] \in 1..Len(Script(r)) /\ Len(Script(r)) \in Nat
    BY <1>0, <2>1, RunsPlaced
  <2>3. pc[r] + 3 <= Len(Script(r))
    BY <1>0, <2>1, <2>2, ScriptShape DEF RunsTyped
  <2>4. /\ pc' \in [Runs -> Nat \ {0}] /\ pc'[r] \in {pc[r] + 1, pc[r] + 3}
        /\ \A q \in Runs \ {r} : pc'[q] = pc[q]
    BY <1>0, <2>1 DEF RunsTyped
  <2>5. \A q \in Runs : Script(q)' = Script(q)
    BY <2>1, JobFixed
  <2>6. pc'[r] >= pc[r] /\ pc'[r] <= Len(Script(r))
    BY <2>2, <2>3, <2>4
  <2>7. ~Done(r)'
    BY <2>2, <2>4, <2>5, <2>6 DEF Done
  <2>8. \A q \in Runs : pc'[q] <= Len(Script(q)') + 1
    <3>1. \A q \in Runs : pc[q] <= Len(Script(q)) + 1
      BY <1>0 DEF RunsTyped
    <3>2. pc'[r] \in Nat /\ pc'[r] <= Len(Script(r)) + 1
      BY <2>2, <2>4, <2>6
    <3> QED BY <2>4, <2>5, <3>1, <3>2
  <2>9. Script(r)[pc[r]][2] # "wait"
    BY <2>1
  <2>10. ~Out(r) /\ result[r] # "ok"
    BY <2>1, <2>9, NothingOut
  <2>11. Orderly'
    BY <2>1, <2>4, <2>6, <2>7, <2>10, RunMoves
  <2>12. RunsTyped'
    BY <1>0, <2>1, <2>4, <2>8, RunsStayTyped DEF RunsTyped
  <2> QED BY <2>11, <2>12 DEF Inv
<1>5. CASE PollAttestation(r)
  <2>1. /\ r \notin failed /\ ~Done(r) /\ Script(r)[pc[r]] = <<"attestation", "poll">>
        /\ job' = job
        /\ UNCHANGED <<nonce, result, mempool, mined, inflight, chain>>
        /\ \/ Advance(r) /\ UNCHANGED <<failed, attempts>>
           \/ /\ attempts' = [attempts EXCEPT ![r] = @ + 1]
              /\ IF attempts[r] + 1 = MaxRetries THEN Throw(r) ELSE UNCHANGED failed
              /\ UNCHANGED pc
    BY <1>5 DEF PollAttestation, At, Running, getAttestation, fetchAttestation
  <2>2. Script(r)[pc[r]][2] # "wait"
    BY <2>1
  <2>3. CASE Advance(r) /\ UNCHANGED <<failed, attempts>>
    <3>1. Orderly'
      BY <2>1, <2>2, <2>3, RunAdvances
    <3>2. RunsTyped'
      BY <1>0, <2>1, <2>3, Advances, RunsStayTyped DEF RunsTyped
    <3> QED BY <3>1, <3>2 DEF Inv
  <2>4. CASE /\ attempts' = [attempts EXCEPT ![r] = @ + 1]
             /\ IF attempts[r] + 1 = MaxRetries THEN Throw(r) ELSE UNCHANGED failed
             /\ UNCHANGED pc
    <3>1. Orderly'
      BY <2>1, <2>4, RunStops
    <3>2. /\ attempts \in [Runs -> 0..MaxRetries] /\ attempts[r] < MaxRetries
          /\ failed \subseteq Runs
          /\ \A q \in Runs \ failed : attempts[q] < MaxRetries
      BY <1>0, <2>1 DEF RunsTyped
    <3>3. attempts' \in [Runs -> 0..MaxRetries]
      BY <1>0, <2>4, <3>2
    <3>4. \A q \in Runs \ failed' : attempts'[q] < MaxRetries
      BY <1>0, <2>4, <3>2 DEF Throw
    <3>5. failed' \subseteq Runs
      BY <2>4, <3>2 DEF Throw
    <3>6. RunsTyped'
      <4>1. /\ pc' \in [Runs -> Nat \ {0}]
            /\ \A q \in Runs : pc'[q] <= Len(Script(q)') + 1
        BY <1>0, <2>1, <2>4, StaysPlaced
      <4> QED BY <1>0, <2>1, <3>3, <3>4, <3>5, <4>1 DEF RunsTyped
    <3> QED BY <3>1, <3>6 DEF Inv
  <2> QED BY <2>1, <2>3, <2>4
<1>6. CASE Crash(r)
  <2>1. /\ job' = job /\ failed' = failed \cup {r}
        /\ UNCHANGED <<pc, attempts, nonce, result, mempool, mined, inflight, chain>>
    BY <1>6 DEF Crash, Throw
  <2>2. Orderly'
    BY <2>1, RunStops
  <2>3. RunsTyped'
    BY <1>0, <2>1, StaysPlaced, RunsStayTyped DEF RunsTyped
  <2> QED BY <2>2, <2>3 DEF Inv
<1> QED BY <1>1, <1>2, <1>3, <1>4, <1>5, <1>6
-----------------------------------------------------------------------------
(***************************************************************************)
(* Sending a transaction                                                   *)
(***************************************************************************)

\* A run sends the transaction of its step and moves on.
LEMMA RunSends ==
  ASSUME Inv, NEW r \in Runs, ~Done(r), Script(r)[pc[r]][2] = "send", Advance(r),
         job' = job, chain' = chain, ChainsTyped', NoncesDistinct',
         \A t \in mempool' : \/ t \in mempool
                             \/ t.run = r /\ t.op = Op(r) /\ OnEth(r, Op(r)),
         \A t \in inflight' : \/ t \in inflight
                              \/ t.run = r /\ t.op = Op(r) /\ ~OnEth(r, Op(r)),
         \A t, u \in mempool' : t.run = u.run => t = u,
         \A q \in Runs : result'[q] = "ok" => result[q] = "ok"
  PROVE  Orderly'
<1>1. RunsTyped /\ ~Out(r) /\ result[r] # "ok"
  <2>1. Script(r)[pc[r]][2] # "wait"
    OBVIOUS
  <2> QED BY <2>1, NothingOut DEF Inv
<1>2. /\ pc' \in [Runs -> Nat \ {0}] /\ pc'[r] = pc[r] + 1
      /\ \A q \in Runs \ {r} : pc'[q] = pc[q]
  BY <1>1, Advances
<1>3. \A q \in Runs : Script(q)' = Script(q) /\ Version(q)' = Version(q)
                      /\ Source(q)' = Source(q) /\ BurnWait(q)' = BurnWait(q)
  BY JobFixed
<1>4. \A q \in Runs \ {r} : Done(q)' <=> Done(q)
  BY <1>2, <1>3 DEF Done
<1>5. \A q \in Runs \ {r} : \A op : Awaits(q, op)' <=> Awaits(q, op)
  <2> TAKE q \in Runs \ {r}
  <2> TAKE op
  <2>1. Unawaited(q, op)' <=> Unawaited(q, op)
    BY JobFixed
  <2> QED BY <1>2, <1>3, <1>4, <2>1 DEF Awaits
<1>6. \A q, op : OnEth(q, op)' <=> OnEth(q, op)
  BY JobFixed
<1>7. /\ \A t \in mempool : t.run \in Runs \ {r}
      /\ \A t \in inflight : t.run \in Runs \ {r}
  BY <1>1 DEF Inv, Orderly, ChainsTyped, Out, Tx
<1>8. pc[r] \in 1..Len(Script(r)) /\ Len(Script(r)) \in Nat
  BY <1>1, RunsPlaced
<1>9. /\ Script(r)[pc[r]] = <<Op(r), "send">>
      /\ IF Unawaited(r, Op(r)) THEN pc[r] = Len(Script(r))
         ELSE pc[r] < Len(Script(r)) /\ Script(r)[pc[r] + 1] = <<Op(r), "wait">>
      /\ Op(r) = "burn" => pc[r] < BurnWait(r)
      /\ BurnWait(r) \in Nat
  <2>1. job \in Assignments
    BY <1>1 DEF RunsTyped
  <2>2. Script(r)[pc[r]] = <<Op(r), "send">>
    BY <1>8, <2>1, ScriptShape DEF Op
  <2>3. IF Unawaited(r, Op(r)) THEN pc[r] = Len(Script(r))
        ELSE pc[r] < Len(Script(r)) /\ Script(r)[pc[r] + 1] = <<Op(r), "wait">>
    BY <1>8, <2>1, ScriptShape DEF Op
  <2>4. BurnWait(r) \in 1..13
    BY <2>1, ScriptShape
  <2>5. Op(r) = "burn" => pc[r] < BurnWait(r)
    BY <1>8, <2>1, <2>2, ScriptShape
  <2> QED BY <2>2, <2>3, <2>4, <2>5
<1>11. \A op : op = Op(r) => Awaits(r, op)'
  <2> SUFFICES ASSUME NEW op, op = Op(r) PROVE Awaits(r, op)'
    OBVIOUS
  <2>1. Unawaited(r, op)' <=> Unawaited(r, op)
    BY JobFixed
  <2>2. CASE Unawaited(r, op)
    <3>1. Done(r)'
      BY <1>2, <1>3, <1>8, <1>9, <2>2 DEF Done
    <3> QED BY <2>1, <2>2, <3>1 DEF Awaits
  <2>3. CASE ~Unawaited(r, op)
    <3>1. pc[r] < Len(Script(r)) /\ Script(r)[pc[r] + 1] = <<op, "wait">>
      BY <1>9, <2>3
    <3>2. ~Done(r)'
      BY <1>2, <1>3, <1>8, <3>1 DEF Done
    <3>3. Script(r)'[pc'[r]] = <<op, "wait">>
      BY <1>2, <1>3, <3>1
    <3> QED BY <2>1, <2>3, <3>2, <3>3 DEF Awaits
  <2> QED BY <2>2, <2>3
<1>12. OneTransactionOut'
  <2>1. ASSUME NEW t \in mempool' PROVE Awaits(t.run, t.op)' /\ OnEth(t.run, t.op)'
    <3>1. CASE t \in mempool
      BY <1>5, <1>6, <1>7, <3>1 DEF Inv, Orderly, OneTransactionOut
    <3>2. CASE t.run = r /\ t.op = Op(r) /\ OnEth(r, Op(r))
      BY <1>6, <1>11, <3>2
    <3> QED BY <3>1, <3>2
  <2>2. ASSUME NEW t \in inflight' PROVE Awaits(t.run, t.op)' /\ ~OnEth(t.run, t.op)'
    <3>1. CASE t \in inflight
      BY <1>5, <1>6, <1>7, <3>1 DEF Inv, Orderly, OneTransactionOut
    <3>2. CASE t.run = r /\ t.op = Op(r) /\ ~OnEth(r, Op(r))
      BY <1>6, <1>11, <3>2
    <3> QED BY <3>1, <3>2
  <2> QED BY <2>1, <2>2 DEF OneTransactionOut
<1>13. ReceiptsAreCurrent'
  <2> SUFFICES ASSUME NEW q \in Runs, result'[q] = "ok"
               PROVE  /\ ~Done(q)' /\ Script(q)'[pc'[q]][2] = "wait"
                      /\ ~Out(q)'
                      /\ Script(q)'[pc'[q]] = <<"mint", "wait">> => q \in chain'.minted
    BY DEF ReceiptsAreCurrent
  <2>1. result[q] = "ok" /\ q # r
    BY <1>1
  <2>2. /\ ~Done(q) /\ Script(q)[pc[q]][2] = "wait" /\ ~Out(q)
        /\ Script(q)[pc[q]] = <<"mint", "wait">> => q \in chain.minted
    BY <2>1 DEF Inv, Orderly, ReceiptsAreCurrent
  <2>3. ~Out(q)'
    BY <2>1, <2>2 DEF Out
  <2> QED BY <1>2, <1>3, <1>4, <2>1, <2>2, <2>3
<1>14. BurntOnce'
  <2> SUFFICES ASSUME NEW q \in chain.burnt
               PROVE  /\ pc'[q] >= BurnWait(q)'
                      /\ job'[q].amount > 0
                      /\ Version(q)' = 2 => job'[q].maxFee < job'[q].amount
                      /\ \A t \in mempool' : t.run = q => t.op # "burn"
                      /\ \A t \in inflight' : t.run = q => t.op # "burn"
    BY DEF BurntOnce
  <2>1. q \in Runs /\ job \in Assignments /\ pc \in [Runs -> Nat \ {0}]
    BY <1>1 DEF Inv, Orderly, ChainsTyped, ChainState, RunsTyped
  <2>2. BurnWait(q) \in 1..13
    BY <2>1, ScriptShape
  <2>3. /\ pc[q] >= BurnWait(q)
        /\ job[q].amount > 0 /\ (Version(q) = 2 => job[q].maxFee < job[q].amount)
        /\ \A t \in mempool : t.run = q => t.op # "burn"
        /\ \A t \in inflight : t.run = q => t.op # "burn"
    BY DEF Inv, Orderly, BurntOnce
  <2>4. pc'[q] >= BurnWait(q)'
    BY <1>2, <1>3, <2>1, <2>2, <2>3
  <2>5. q = r => Op(r) # "burn"
    <3>1. pc[q] \in Nat
      BY <2>1
    <3> QED BY <1>9, <2>2, <2>3, <3>1
  <2>6. /\ \A t \in mempool' : t.run = q => t.op # "burn"
        /\ \A t \in inflight' : t.run = q => t.op # "burn"
    BY <2>3, <2>5
  <2> QED BY <1>3, <2>1, <2>3, <2>4, <2>6
<1>15. MessagesInOrder' /\ AllowanceIsForABurn'
  BY <1>3 DEF Inv, Orderly, MessagesInOrder, AllowanceIsForABurn
<1>16. DoneMeansMinted'
  <2>1. ASSUME Done(r)' PROVE job[r].kind = "sol2ethV1"
    <3>1. Unawaited(r, Op(r))
      BY <1>2, <1>3, <1>8, <1>9, <2>1 DEF Done
    <3> QED BY <3>1 DEF Unawaited
  <2> QED BY <1>4, <2>1 DEF Inv, Orderly, DoneMeansMinted
<1> QED BY <1>12, <1>13, <1>14, <1>15, <1>16 DEF Orderly

\* A transaction to Ethereum is refused, replaces those with its nonce, or
\* joins the mempool.
LEMMA SendEthStep ==
  ASSUME Inv, NEW r \in Runs, SendEth(r) PROVE Inv'
<1> DEFINE tx == [key |-> Key(r), nonce |-> nonce[r], run |-> r, op |-> Op(r)]
           rivals == {t \in mempool : t.key = Key(r) /\ t.nonce = nonce[r]}
<1>1. /\ ~Done(r) /\ Script(r)[pc[r]][2] = "send" /\ OnEth(r, Op(r))
      /\ nonce' = [nonce EXCEPT ![r] = 0]
      /\ UNCHANGED <<job, attempts, mined, inflight, chain>>
      /\ \/ Refused(r) /\ UNCHANGED <<mempool, result>>
         \/ /\ nonce[r] >= mined[Key(r)]
            /\ mempool' = (mempool \ rivals) \cup {tx}
            /\ result' = [q \in Runs |->
                            IF \E t \in rivals : t.run = q THEN "replaced" ELSE result[q]]
            /\ Advance(r)
            /\ UNCHANGED failed
  BY DEF SendEth, InPhase, Running
<1>2. RunsTyped /\ ~Out(r) /\ Script(r)[pc[r]][2] # "wait"
  BY <1>1, NothingOut DEF Inv
<1>3. nonce' \in [Runs -> Nat] /\ failed \subseteq Runs
      /\ result \in [Runs -> {"none", "ok", "failed", "replaced"}]
  BY <1>1, <1>2 DEF RunsTyped
<1>4. CASE Refused(r) /\ UNCHANGED <<mempool, result>>
  <2>1. CASE Advance(r) /\ UNCHANGED failed
    <3>1. Orderly'
      BY <1>1, <1>2, <1>4, <2>1, RunAdvances
    <3>2. RunsTyped'
      BY <1>1, <1>2, <1>3, <1>4, <2>1, Advances, RunsStayTyped
    <3> QED BY <3>1, <3>2 DEF Inv
  <2>2. CASE Throw(r) /\ UNCHANGED pc
    <3>1. failed' = failed \cup {r}
      BY <2>2 DEF Throw
    <3>2. Orderly'
      BY <1>1, <1>4, <2>2, RunStops
    <3>3. RunsTyped'
      BY <1>1, <1>2, <1>3, <1>4, <2>2, <3>1, StaysPlaced, RunsStayTyped
    <3> QED BY <3>2, <3>3 DEF Inv
  <2> QED BY <1>4, <2>1, <2>2 DEF Refused
<1>5. CASE /\ nonce[r] >= mined[Key(r)]
           /\ mempool' = (mempool \ rivals) \cup {tx}
           /\ result' = [q \in Runs |->
                           IF \E t \in rivals : t.run = q THEN "replaced" ELSE result[q]]
           /\ Advance(r)
           /\ UNCHANGED failed
  <2>1. /\ mempool \subseteq Tx /\ IsFiniteSet(mempool) /\ mined \in [Keys -> Nat]
        /\ \A t \in mempool : t.nonce >= mined[t.key]
        /\ \A t, u \in mempool : t.key = u.key /\ t.nonce = u.nonce => t = u
        /\ \A t, u \in mempool : t.run = u.run => t = u
    BY DEF Inv, Orderly, ChainsTyped, NoncesDistinct, OneTransactionOut
  <2>2. tx \in Tx
    <3>1. Op(r) \in {"approve", "burn", "mint"}
      BY <1>1 DEF OnEth
    <3>2. Key(r) \in Keys /\ nonce[r] \in Nat
      BY <1>2 DEF Key, Keys, RunsTyped
    <3> QED BY <3>1, <3>2 DEF Tx
  <2>3. IsFiniteSet(mempool')
    <3>1. IsFiniteSet(mempool \ rivals)
      BY <2>1, FS_Subset
    <3> QED BY <1>5, <3>1, FS_AddElement
  <2>4. ChainsTyped'
    <3>1. mempool' \subseteq Tx
      BY <1>5, <2>1, <2>2
    <3> QED BY <1>1, <2>3, <3>1 DEF Inv, Orderly, ChainsTyped
  <2>5. \A t \in mempool' : t = tx \/ (t \in mempool /\ ~(t.key = tx.key /\ t.nonce = tx.nonce))
    BY <1>5
  <2>6. tx.key = Key(r) /\ tx.nonce = nonce[r] /\ tx.run = r /\ tx.op = Op(r)
    OBVIOUS
  <2>7. result' \in [Runs -> {"none", "ok", "failed", "replaced"}]
        /\ \A q \in Runs : result'[q] = "ok" => result[q] = "ok"
    BY <1>3, <1>5
  <2>8. \A t \in mempool : t.run # r
    BY <1>2 DEF Out
  <2> HIDE DEF tx, rivals
  <2>9. NoncesDistinct'
    BY <1>1, <1>5, <2>1, <2>5, <2>6 DEF NoncesDistinct
  <2>10. \A t, u \in mempool' : t.run = u.run => t = u
    BY <2>1, <2>5, <2>6, <2>8
  <2>11. \A t \in mempool' : t \in mempool \/ (t.run = r /\ t.op = Op(r) /\ OnEth(r, Op(r)))
    BY <1>1, <2>5, <2>6
  <2>12. Orderly'
    BY <1>1, <1>5, <2>4, <2>7, <2>9, <2>10, <2>11, RunSends
  <2>13. RunsTyped'
    BY <1>1, <1>2, <1>3, <1>5, <2>7, Advances, RunsStayTyped
  <2> QED BY <2>12, <2>13 DEF Inv
<1> QED BY <1>1, <1>4, <1>5

\* A transaction to Solana is given up or joins those in flight.
LEMMA SendSolStep ==
  ASSUME Inv, NEW r \in Runs, SendSol(r) PROVE Inv'
<1>1. /\ ~Done(r) /\ Script(r)[pc[r]][2] = "send" /\ ~OnEth(r, Op(r))
      /\ UNCHANGED <<job, attempts, nonce, result, mempool, mined, chain>>
      /\ \/ Throw(r) /\ UNCHANGED <<pc, inflight>>
         \/ /\ inflight' = inflight \cup {[run |-> r, op |-> Op(r)]}
            /\ Advance(r)
            /\ UNCHANGED failed
  BY DEF SendSol, InPhase, Running
<1>2. RunsTyped /\ ~Out(r) /\ Script(r)[pc[r]][2] # "wait"
  BY <1>1, NothingOut DEF Inv
<1>3. nonce' \in [Runs -> Nat] /\ failed \subseteq Runs
      /\ result' \in [Runs -> {"none", "ok", "failed", "replaced"}]
  BY <1>1, <1>2 DEF RunsTyped
<1>4. CASE Throw(r) /\ UNCHANGED <<pc, inflight>>
  <2>1. failed' = failed \cup {r}
    BY <1>4 DEF Throw
  <2>2. Orderly'
    BY <1>1, <1>4, RunStops
  <2>3. RunsTyped'
    BY <1>1, <1>2, <1>3, <1>4, <2>1, StaysPlaced, RunsStayTyped
  <2> QED BY <2>2, <2>3 DEF Inv
<1>5. CASE /\ inflight' = inflight \cup {[run |-> r, op |-> Op(r)]}
           /\ Advance(r)
           /\ UNCHANGED failed
  <2>1. Op(r) \in {"account", "burn", "mint"}
    <3>1. pc[r] \in 1..Len(Script(r)) /\ job \in Assignments
      BY <1>1, <1>2, RunsPlaced DEF RunsTyped
    <3>2. Op(r) \in {"approve", "burn", "mint", "account"}
      BY <1>1, <3>1, ScriptShape DEF Op
    <3> QED BY <1>1, <3>2 DEF OnEth
  <2>2. ChainsTyped' /\ NoncesDistinct'
    BY <1>1, <1>5, <2>1 DEF Inv, Orderly, ChainsTyped, NoncesDistinct
  <2>3. \A t \in inflight' : t \in inflight \/ (t.run = r /\ t.op = Op(r) /\ ~OnEth(r, Op(r)))
    BY <1>1, <1>5
  <2>4. \A t, u \in mempool' : t.run = u.run => t = u
    BY <1>1 DEF Inv, Orderly, OneTransactionOut
  <2>5. Orderly'
    BY <1>1, <1>5, <2>2, <2>3, <2>4, RunSends
  <2>6. RunsTyped'
    BY <1>1, <1>2, <1>3, <1>5, Advances, RunsStayTyped
  <2> QED BY <2>5, <2>6 DEF Inv
<1> QED BY <1>1, <1>4, <1>5
-----------------------------------------------------------------------------
(***************************************************************************)
(* The chains and the attestation service                                  *)
(***************************************************************************)

\* Runs stand still while the chains move on.
LEMMA ChainsMove ==
  ASSUME Inv, job' = job, pc' = pc, ChainsTyped', NoncesDistinct',
         mempool' \subseteq mempool, inflight' \subseteq inflight,
         chain.burnt \subseteq chain'.burnt, chain.minted \subseteq chain'.minted,
         MessagesInOrder', AllowanceIsForABurn',
         \A q \in chain'.burnt \ chain.burnt :
             /\ pc[q] >= BurnWait(q) /\ ~Out(q)'
             /\ job[q].amount > 0 /\ (Version(q) = 2 => job[q].maxFee < job[q].amount),
         \A q \in Runs : result'[q] = "ok" =>
             \/ result[q] = "ok"
             \/ /\ ~Done(q) /\ Script(q)[pc[q]][2] = "wait" /\ ~Out(q)'
                /\ Script(q)[pc[q]] = <<"mint", "wait">> => q \in chain'.minted
  PROVE  Orderly'
<1>1. \A q \in Runs : Script(q)' = Script(q) /\ Version(q)' = Version(q)
                      /\ Source(q)' = Source(q) /\ BurnWait(q)' = BurnWait(q)
  BY JobFixed
<1>2. \A q \in Runs : Done(q)' <=> Done(q)
  BY <1>1 DEF Done
<1>3. \A q \in Runs : \A op : (Awaits(q, op)' <=> Awaits(q, op)) /\ (OnEth(q, op)' <=> OnEth(q, op))
  <2> TAKE q \in Runs
  <2> TAKE op
  <2>1. (Unawaited(q, op)' <=> Unawaited(q, op)) /\ (OnEth(q, op)' <=> OnEth(q, op))
    BY JobFixed
  <2> QED BY <1>1, <1>2, <2>1 DEF Awaits
<1>4. /\ \A t \in mempool : t.run \in Runs
      /\ \A t \in inflight : t.run \in Runs
      /\ chain'.burnt \subseteq Runs
  BY DEF Inv, Orderly, ChainsTyped, Tx, ChainState
<1>5. OneTransactionOut'
  BY <1>3, <1>4 DEF Inv, Orderly, OneTransactionOut
<1>6. \A q \in Runs : Out(q)' => Out(q)
  BY DEF Out
<1>7. ReceiptsAreCurrent'
  <2> SUFFICES ASSUME NEW q \in Runs, result'[q] = "ok"
               PROVE  /\ ~Done(q)' /\ Script(q)'[pc'[q]][2] = "wait"
                      /\ ~Out(q)'
                      /\ Script(q)'[pc'[q]] = <<"mint", "wait">> => q \in chain'.minted
    BY DEF ReceiptsAreCurrent
  <2>1. CASE result[q] = "ok"
    <3>1. /\ ~Done(q) /\ Script(q)[pc[q]][2] = "wait" /\ ~Out(q)
          /\ Script(q)[pc[q]] = <<"mint", "wait">> => q \in chain.minted
      BY <2>1 DEF Inv, Orderly, ReceiptsAreCurrent
    <3> QED BY <1>1, <1>2, <1>6, <3>1
  <2>2. CASE result[q] # "ok"
    BY <1>1, <1>2, <2>2
  <2> QED BY <2>1, <2>2
<1>8. BurntOnce'
  <2> SUFFICES ASSUME NEW q \in chain'.burnt
               PROVE  /\ pc'[q] >= BurnWait(q)'
                      /\ job'[q].amount > 0
                      /\ Version(q)' = 2 => job'[q].maxFee < job'[q].amount
                      /\ \A t \in mempool' : t.run = q => t.op # "burn"
                      /\ \A t \in inflight' : t.run = q => t.op # "burn"
    BY DEF BurntOnce
  <2>1. CASE q \in chain.burnt
    BY <1>1, <1>4, <2>1 DEF Inv, Orderly, BurntOnce
  <2>2. CASE q \notin chain.burnt
    <3>1. ~Out(q)' /\ pc[q] >= BurnWait(q)
          /\ job[q].amount > 0 /\ (Version(q) = 2 => job[q].maxFee < job[q].amount)
      BY <2>2
    <3>2. (\A t \in mempool' : t.run # q) /\ (\A t \in inflight' : t.run # q)
      BY <3>1 DEF Out
    <3> QED BY <1>1, <1>4, <3>1, <3>2
  <2> QED BY <2>1, <2>2
<1>9. DoneMeansMinted'
  BY <1>2 DEF Inv, Orderly, DoneMeansMinted
<1> QED BY <1>5, <1>7, <1>8, <1>9 DEF Orderly

\* The allowances that an executed transaction leaves are for burns to come.
LEMMA AllowancesStayBound ==
  ASSUME Inv, job' = job, NEW r \in Runs, NEW op, Executed(chain, chain', op, r),
         op = "approve" => r \notin chain.burnt /\ Source(r) = "ethSender"
  PROVE  AllowanceIsForABurn'
<1> SUFFICES ASSUME NEW v \in {1, 2}, chain'.allowance[v] # 0
             PROVE  \E q \in Runs : /\ Version(q) = v /\ Source(q) = "ethSender"
                                    /\ q \notin chain'.burnt
                                    /\ chain'.allowance[v] <= job[q].amount
  <2>1. \A q \in Runs : Version(q)' = Version(q) /\ Source(q)' = Source(q)
    BY JobFixed
  <2> QED BY <2>1 DEF AllowanceIsForABurn
<1>1. /\ job \in Assignments /\ chain \in ChainState /\ chain' \in ChainState
      /\ chain'.burnt = IF op = "burn" THEN chain.burnt \cup {r} ELSE chain.burnt
      /\ op = "burn" => Burnable(chain, r)
  BY DEF Inv, RunsTyped, Orderly, ChainsTyped, Executed
<1>2. /\ chain.allowance[v] \in Nat /\ chain'.allowance[v] \in Nat
      /\ \A q \in Runs : job[q].amount \in Nat
  <2>1. chain.allowance \in [1..2 -> Nat] /\ chain'.allowance \in [1..2 -> Nat]
    BY <1>1 DEF ChainState
  <2> QED BY <1>1, <2>1, JobTyped
<1>3. chain.allowance[v] # 0 =>
        \E q \in Runs : /\ Version(q) = v /\ Source(q) = "ethSender"
                        /\ q \notin chain.burnt
                        /\ chain.allowance[v] <= job[q].amount
  BY DEF Inv, Orderly, AllowanceIsForABurn
<1>4. CASE /\ chain'.allowance[v] = chain.allowance[v]
           /\ op # "burn" \/ v # Version(r) \/ ~OnEth(r, op)
  <2>1. PICK q \in Runs : /\ Version(q) = v /\ Source(q) = "ethSender"
                          /\ q \notin chain.burnt
                          /\ chain.allowance[v] <= job[q].amount
    BY <1>3, <1>4
  <2>2. op = "burn" => q # r
    <3>1. Source(r) = "ethSender" => OnEth(r, "burn")
      BY DEF OnEth, Chain
    <3> QED BY <1>4, <2>1, <3>1
  <2> QED BY <1>1, <1>4, <2>1, <2>2
<1>5. CASE v = Version(r) /\ op = "approve" /\ chain'.allowance[v] = job[r].amount
  BY <1>1, <1>2, <1>5
<1>6. CASE /\ v = Version(r) /\ op = "burn" /\ OnEth(r, op)
           /\ chain'.allowance[v] = chain.allowance[v] - job[r].amount
  <2>1. chain.allowance[v] # 0
    BY <1>2, <1>6
  <2>2. PICK q \in Runs : /\ Version(q) = v /\ Source(q) = "ethSender"
                          /\ q \notin chain.burnt
                          /\ chain.allowance[v] <= job[q].amount
    BY <1>3, <2>1
  <2>3. q # r
    BY <1>2, <1>6, <2>2
  <2>4. chain'.allowance[v] <= job[q].amount
    BY <1>2, <1>6, <2>2
  <2> QED BY <1>1, <1>6, <2>2, <2>3, <2>4
<1> QED BY <1>4, <1>5, <1>6 DEF Executed, Allowances

\* The fee of an attested message is below what was burnt.
LEMMA AttestedCovers ==
  ASSUME Inv, NEW r \in chain.attested PROVE FeeCovered(r)
BY DEF Inv, Orderly, MessagesInOrder, BurntOnce, FeeCovered

\* A run waits for one transaction at a time.
LEMMA AwaitsOne ==
  ASSUME NEW r, NEW op1, NEW op2, Awaits(r, op1), Awaits(r, op2)
  PROVE  op1 = op2
BY DEF Awaits, Unawaited

\* A transaction that its run waits for executes, fails or is dropped.
LEMMA RunExecutes ==
  ASSUME Inv, NEW r \in Runs, NEW op \in {"approve", "burn", "mint", "account"},
         UNCHANGED <<job, pc, failed, attempts, nonce>>,
         Awaits(r, op), op = "burn" => r \notin chain.burnt,
         mempool' \subseteq mempool, inflight' \subseteq inflight, ~Out(r)',
         mined' \in [Keys -> Nat], NoncesDistinct',
         NEW c, c = Outcomes(chain, op, r) \/ c = {}, Becomes(c), Report(r, op, c)
  PROVE  Inv'
<1>1. /\ RunsTyped /\ job \in Assignments /\ chain \in ChainState
      /\ mempool \subseteq Tx /\ IsFiniteSet(mempool)
      /\ inflight \subseteq [run : Runs, op : {"account", "burn", "mint"}]
      /\ result \in [Runs -> {"none", "ok", "failed", "replaced"}]
  BY DEF Inv, RunsTyped, Orderly, ChainsTyped
<1>2. c = {} \/ Executed(chain, chain', op, r)
  <2>1. r \in chain.attested => FeeCovered(r)
    BY AttestedCovers
  <2>2. c # {} => chain' \in Outcomes(chain, op, r)
    BY DEF Becomes
  <2> QED BY <1>1, <2>1, <2>2, OutcomeSpec
<1>3. c = {} => chain' = chain
  BY DEF Becomes
<1>4. /\ result' \in [Runs -> {"none", "ok", "failed", "replaced"}]
      /\ \A q \in Runs \ {r} : result'[q] = result[q]
      /\ result'[r] = "ok" => result[r] = "ok" \/ (At(r, op, "wait") /\ c # {})
  BY <1>1 DEF Report
<1>5. RunsTyped'
  <2>1. /\ pc' \in [Runs -> Nat \ {0}]
        /\ \A q \in Runs : pc'[q] <= Len(Script(q)') + 1
    BY <1>1, StaysPlaced
  <2> QED BY <1>1, <1>4, <2>1, RunsStayTyped DEF RunsTyped
<1>6. /\ chain' \in ChainState /\ chain'.attested = chain.attested
      /\ chain.burnt \subseteq chain'.burnt /\ chain.minted \subseteq chain'.minted
      /\ \A q \in chain'.burnt \ chain.burnt : c # {} /\ q = r /\ op = "burn" /\ Burnable(chain, r)
      /\ \A q \in chain'.minted \ chain.minted : q = r /\ r \in chain.attested
      /\ op = "mint" /\ c # {} => r \in chain'.minted
  BY <1>1, <1>2, <1>3 DEF Executed
<1>7. ChainsTyped'
  <2>1. IsFiniteSet(mempool')
    BY <1>1, FS_Subset
  <2> QED BY <1>1, <1>6, <2>1 DEF ChainsTyped
<1>8. MessagesInOrder'
  BY <1>6 DEF Inv, Orderly, MessagesInOrder
<1>9. ~Done(r) => pc[r] \in 1..Len(Script(r))
  BY <1>1, RunsPlaced
<1>10. AllowanceIsForABurn'
  <2>1. CASE c = {}
    <3>1. \A q \in Runs : Version(q)' = Version(q) /\ Source(q)' = Source(q)
      BY JobFixed
    <3> QED BY <1>3, <2>1, <3>1 DEF Inv, Orderly, AllowanceIsForABurn
  <2>2. CASE c # {}
    <3>1. ASSUME op = "approve" PROVE r \notin chain.burnt /\ Source(r) = "ethSender"
      <4>1. ~Done(r) /\ Script(r)[pc[r]] = <<"approve", "wait">>
        BY <3>1 DEF Awaits, Unawaited
      <4>2. pc[r] < BurnWait(r) /\ job[r].kind \in {"eth2solV1", "evm2sol"}
        BY <1>1, <1>9, <4>1, ScriptShape
      <4>3. Source(r) = "ethSender"
        BY <4>2 DEF Source
      <4>4. pc[r] \in Nat /\ BurnWait(r) \in 1..13
        BY <1>1, <1>9, <4>1, ScriptShape
      <4>5. r \in chain.burnt => pc[r] >= BurnWait(r)
        BY DEF Inv, Orderly, BurntOnce
      <4> QED BY <4>2, <4>3, <4>4, <4>5
    <3> QED BY <1>2, <2>2, <3>1, AllowancesStayBound
  <2> QED BY <2>1, <2>2
<1>11. ASSUME NEW q \in chain'.burnt \ chain.burnt
       PROVE  /\ pc[q] >= BurnWait(q) /\ ~Out(q)'
              /\ job[q].amount > 0 /\ (Version(q) = 2 => job[q].maxFee < job[q].amount)
  <2>1. q = r /\ op = "burn" /\ Burnable(chain, r)
    BY <1>6, <1>11
  <2>2. ~Done(r) /\ Script(r)[pc[r]] = <<"burn", "wait">>
    BY <2>1 DEF Awaits, Unawaited
  <2>3. pc[r] = BurnWait(r) /\ BurnWait(r) \in 1..13
    BY <1>1, <1>9, <2>2, ScriptShape
  <2>4. /\ job[r].amount > 0
        /\ Version(r) = 2 => job[r].maxFee < job[r].amount
    <3>1. chain.balance[Source(r)] \in Nat
      BY <1>1, Ends DEF ChainState
    <3>2. job[r].amount \in 1..chain.balance[Source(r)]
          /\ (Version(r) = 2 => job[r].maxFee < job[r].amount)
      BY <2>1 DEF Burnable
    <3> QED BY <3>1, <3>2
  <2> QED BY <2>1, <2>3, <2>4
<1>12. ASSUME NEW q \in Runs, result'[q] = "ok", result[q] # "ok"
       PROVE  /\ ~Done(q) /\ Script(q)[pc[q]][2] = "wait" /\ ~Out(q)'
              /\ Script(q)[pc[q]] = <<"mint", "wait">> => q \in chain'.minted
  <2>1. q = r /\ At(r, op, "wait") /\ c # {}
    BY <1>4, <1>12
  <2>2. ~Done(r) /\ Script(r)[pc[r]] = <<op, "wait">>
    BY <2>1 DEF At, Running
  <2>3. Script(r)[pc[r]][2] = "wait" /\ (Script(r)[pc[r]] = <<"mint", "wait">> => op = "mint")
    BY <2>2
  <2> QED BY <1>6, <2>1, <2>2, <2>3
<1>13. Orderly'
  BY <1>6, <1>7, <1>8, <1>10, <1>11, <1>12, ChainsMove
<1> QED BY <1>5, <1>13 DEF Inv

\* Ethereum mines the next transaction of a key.
LEMMA MineStep ==
  ASSUME Inv, NEW k \in Keys, Mine(k) PROVE Inv'
<1>1. PICK t \in mempool :
        /\ t.key = k
        /\ t.nonce = mined[k]
        /\ mempool' = mempool \ {t}
        /\ mined' = [mined EXCEPT ![k] = @ + 1]
        /\ Becomes(Outcomes(chain, t.op, t.run))
        /\ Report(t.run, t.op, Outcomes(chain, t.op, t.run))
        /\ UNCHANGED <<job, pc, failed, attempts, nonce, inflight>>
  BY DEF Mine
<1>2. /\ \A u \in mempool : u \in Tx /\ u.key \in Keys /\ u.nonce \in Nat /\ u.run \in Runs
      /\ t.op \in {"approve", "burn", "mint", "account"}
      /\ mined \in [Keys -> Nat]
      /\ \A u \in mempool : u.nonce >= mined[u.key]
      /\ \A u, w \in mempool : u.key = w.key /\ u.nonce = w.nonce => u = w
      /\ \A u, w \in mempool : u.run = w.run => u = w
  BY DEF Inv, Orderly, ChainsTyped, NoncesDistinct, OneTransactionOut, Tx
<1>3. /\ Awaits(t.run, t.op) /\ OnEth(t.run, t.op)
      /\ \A u \in inflight : Awaits(u.run, u.op) /\ ~OnEth(u.run, u.op)
  BY DEF Inv, Orderly, OneTransactionOut
<1>4. ~Out(t.run)'
  <2>1. \A u \in mempool' : u.run # t.run
    BY <1>1, <1>2
  <2>2. \A u \in inflight' : u.run # t.run
    <3> SUFFICES ASSUME NEW u \in inflight, u.run = t.run PROVE FALSE
      BY <1>1
    <3>1. u.op = t.op
      BY <1>3, AwaitsOne
    <3> QED BY <1>3, <3>1
  <2> QED BY <2>1, <2>2 DEF Out
<1>5. t.op = "burn" => t.run \notin chain.burnt
  BY DEF Inv, Orderly, BurntOnce
<1>6. mined' \in [Keys -> Nat] /\ mined'[k] = mined[k] + 1 /\ mined[k] \in Nat
      /\ \A j \in Keys \ {k} : mined'[j] = mined[j]
  BY <1>1, <1>2
<1>7. NoncesDistinct'
  <2>1. ASSUME NEW u \in mempool' PROVE u.nonce >= mined'[u.key]
    <3>1. u \in mempool /\ u # t
      BY <1>1, <2>1
    <3>2. CASE u.key = k
      <4>1. u.nonce # mined[k] /\ u.nonce >= mined[k] /\ u.nonce \in Nat
        BY <1>1, <1>2, <3>1, <3>2
      <4> QED BY <1>6, <3>2, <4>1
    <3>3. CASE u.key # k
      BY <1>2, <1>6, <3>1, <3>3
    <3> QED BY <3>2, <3>3
  <2> QED BY <1>1, <1>2, <2>1 DEF NoncesDistinct
<1>8. mempool' \subseteq mempool /\ inflight' \subseteq inflight /\ t.run \in Runs
  BY <1>1, <1>2
<1> DEFINE c == Outcomes(chain, t.op, t.run)
<1>9. Becomes(c) /\ Report(t.run, t.op, c) /\ UNCHANGED <<job, pc, failed, attempts, nonce>>
  BY <1>1
<1> HIDE DEF c
<1> QED BY <1>2, <1>3, <1>4, <1>5, <1>6, <1>7, <1>8, <1>9, RunExecutes DEF c

\* A Solana transaction lands or is dropped.
LEMMA LandStep ==
  ASSUME Inv, NEW r \in Runs, Land(r) PROVE Inv'
<1>1. PICK t \in inflight :
        /\ t.run = r
        /\ inflight' = inflight \ {t}
        /\ \E c \in {Outcomes(chain, t.op, r), {}} : Becomes(c) /\ Report(r, t.op, c)
        /\ UNCHANGED <<job, pc, failed, attempts, nonce, mempool, mined>>
  BY DEF Land
<1>2. PICK c \in {Outcomes(chain, t.op, r), {}} : Becomes(c) /\ Report(r, t.op, c)
  BY <1>1
<1>3. /\ \A u \in mempool : Awaits(u.run, u.op) /\ OnEth(u.run, u.op)
      /\ \A u \in inflight : Awaits(u.run, u.op) /\ ~OnEth(u.run, u.op)
  BY DEF Inv, Orderly, OneTransactionOut
<1>4. /\ inflight \subseteq [run : Runs, op : {"account", "burn", "mint"}]
      /\ mined \in [Keys -> Nat] /\ NoncesDistinct
  BY DEF Inv, Orderly, ChainsTyped
<1>5. t.op \in {"approve", "burn", "mint", "account"}
  BY <1>4
<1>6. ~Out(r)'
  <2>1. ASSUME NEW u \in inflight, u.run = r PROVE u = t
    <3>1. u.op = t.op
      BY <1>1, <1>3, <2>1, AwaitsOne
    <3>2. u \in [run : Runs, op : {"account", "burn", "mint"}]
          /\ t \in [run : Runs, op : {"account", "burn", "mint"}]
      BY <1>4
    <3> QED BY <1>1, <2>1, <3>1, <3>2
  <2>2. \A u \in inflight' : u.run # r
    BY <1>1, <2>1
  <2>3. \A u \in mempool' : u.run # r
    <3> SUFFICES ASSUME NEW u \in mempool, u.run = r PROVE FALSE
      BY <1>1
    <3>1. u.op = t.op
      BY <1>1, <1>3, AwaitsOne
    <3> QED BY <1>1, <1>3, <3>1
  <2> QED BY <2>2, <2>3 DEF Out
<1>7. t.op = "burn" => r \notin chain.burnt
  BY <1>1 DEF Inv, Orderly, BurntOnce
<1>8. mempool' \subseteq mempool /\ inflight' \subseteq inflight /\ mined' \in [Keys -> Nat]
  BY <1>1, <1>4
<1>9. NoncesDistinct'
  BY <1>1, <1>4 DEF NoncesDistinct
<1>10. Awaits(r, t.op)
  BY <1>1, <1>3
<1>11. UNCHANGED <<job, pc, failed, attempts, nonce>>
  BY <1>1
<1>12. c = Outcomes(chain, t.op, r) \/ c = {}
  BY <1>2
<1> QED BY <1>2, <1>5, <1>6, <1>7, <1>8, <1>9, <1>10, <1>11, <1>12, RunExecutes

\* Somebody else acts on the chains: no burn and no allowance is theirs.
LEMMA OthersAct ==
  ASSUME Inv,
         UNCHANGED <<job, pc, failed, attempts, nonce, result, mempool, mined, inflight>>,
         chain' \in ChainState, chain'.burnt = chain.burnt,
         chain'.allowance = chain.allowance,
         chain.minted \subseteq chain'.minted, MessagesInOrder'
  PROVE  Inv'
<1>1. \A q \in Runs : Script(q)' = Script(q) /\ Version(q)' = Version(q)
                      /\ Source(q)' = Source(q)
  BY JobFixed
<1>2. AllowanceIsForABurn'
  BY <1>1 DEF Inv, Orderly, AllowanceIsForABurn
<1>3. ChainsTyped' /\ NoncesDistinct'
  BY DEF Inv, Orderly, ChainsTyped, NoncesDistinct
<1>4. Orderly'
  BY <1>2, <1>3, ChainsMove
<1>5. RunsTyped'
  BY <1>1 DEF Inv, RunsTyped
<1> QED BY <1>4, <1>5 DEF Inv

\* Attestation, delivery by anybody, reclaiming and opening accounts.
LEMMA OthersSteps ==
  ASSUME Inv,
         \/ \E r \in Runs : Attest(r) \/ Receive(r) \/ reclaimEventAccount(r)
         \/ OpenAccount
  PROVE  Inv'
<1>1. chain \in ChainState /\ MessagesInOrder /\ job \in Assignments
  BY DEF Inv, Orderly, ChainsTyped, RunsTyped
<1>2. UNCHANGED <<job, pc, failed, attempts, nonce, result, mempool, mined, inflight>>
  BY DEF Attest, Receive, reclaimEventAccount, OpenAccount
<1>3. CASE \E r \in Runs : Attest(r)
  <2>1. PICK r \in Runs : r \in chain.burnt /\ chain' = [chain EXCEPT !.attested = @ \cup {r}]
    BY <1>3 DEF Attest
  <2>2. /\ chain' \in ChainState /\ chain'.burnt = chain.burnt /\ chain'.minted = chain.minted
        /\ chain'.allowance = chain.allowance /\ chain'.attested = chain.attested \cup {r}
    BY <1>1, <2>1 DEF ChainState
  <2>3. MessagesInOrder'
    BY <1>1, <2>1, <2>2 DEF MessagesInOrder
  <2> QED BY <1>2, <2>2, <2>3, OthersAct
<1>4. CASE \E r \in Runs : Receive(r)
  <2>1. PICK r \in Runs : chain' \in receiveMessage(chain, r)
    BY <1>4 DEF Receive
  <2>2. r \in chain.attested => FeeCovered(r)
    BY AttestedCovers
  <2>3. Executed(chain, chain', "mint", r)
    BY <1>1, <2>1, <2>2, ReceiveSpec
  <2>4. /\ chain' \in ChainState /\ chain'.burnt = chain.burnt
        /\ chain'.attested = chain.attested /\ r \in chain.attested
        /\ chain'.minted = chain.minted \cup {r}
    BY <2>3 DEF Executed
  <2>5. MessagesInOrder'
    BY <1>1, <2>4 DEF MessagesInOrder
  <2>6. chain'.allowance = chain.allowance
    <3>1. \A v \in {1, 2} : chain'.allowance[v] = chain.allowance[v]
      BY <2>3 DEF Executed, Allowances
    <3>2. chain.allowance \in [1..2 -> Nat] /\ chain'.allowance \in [1..2 -> Nat]
      BY <1>1, <2>4 DEF ChainState
    <3>3. \A v \in 1..2 : chain'.allowance[v] = chain.allowance[v]
      BY <3>1
    <3> QED BY <3>2, <3>3
  <2> QED BY <1>2, <2>4, <2>5, <2>6, OthersAct
<1>5. CASE \E r \in Runs : reclaimEventAccount(r)
  <2>1. PICK r \in Runs : chain' = [chain EXCEPT !.events = @ \ {r}]
    BY <1>5 DEF reclaimEventAccount
  <2>2. /\ chain' \in ChainState /\ chain'.burnt = chain.burnt /\ chain'.minted = chain.minted
        /\ chain'.allowance = chain.allowance /\ chain'.attested = chain.attested
    BY <1>1, <2>1 DEF ChainState
  <2>3. MessagesInOrder'
    BY <1>1, <2>2 DEF MessagesInOrder
  <2> QED BY <1>2, <2>2, <2>3, OthersAct
<1>6. CASE OpenAccount
  <2>1. PICK a \in Accounts : chain' = [chain EXCEPT !.open = @ \cup {a}]
    BY <1>6 DEF OpenAccount
  <2>2. /\ chain' \in ChainState /\ chain'.burnt = chain.burnt /\ chain'.minted = chain.minted
        /\ chain'.allowance = chain.allowance /\ chain'.attested = chain.attested
    BY <1>1, <2>1 DEF ChainState
  <2>3. MessagesInOrder'
    BY <1>1, <2>2 DEF MessagesInOrder
  <2> QED BY <1>2, <2>2, <2>3, OthersAct
<1> QED BY <1>3, <1>4, <1>5, <1>6
-----------------------------------------------------------------------------
(***************************************************************************)
(* The invariant, and what follows from it                                 *)
(***************************************************************************)

LEMMA InvInit == ASSUME Init PROVE Inv
<1>1. /\ job \in Assignments /\ pc = [r \in Runs |-> 1] /\ failed = {}
      /\ attempts = [r \in Runs |-> 0] /\ nonce = [r \in Runs |-> 0]
      /\ result = [r \in Runs |-> "none"] /\ mempool = {}
      /\ mined = [k \in Keys |-> 0] /\ inflight = {}
  BY DEF Init
<1>2. \A r \in Runs : Len(Script(r)) \in 5..13
  BY <1>1, ScriptShape
<1>3. RunsTyped
  BY <1>1, <1>2, BridgeAssumption DEF RunsTyped
<1>4. PICK missing \in SUBSET ({Recipient(r) : r \in Runs} \cap {"solRecipient", "user"}) :
        chain = [balance |-> [a \in Accounts |->
                                IF a \in {"ethSender", "solSender", "user"} \ missing
                                THEN Funds ELSE 0],
                 allowance |-> <<0, 0>>,
                 open |-> Accounts \ missing,
                 burnt |-> {}, attested |-> {}, minted |-> {}, events |-> {}]
  BY DEF Init
<1> DEFINE purse == [a \in Accounts |->
                       IF a \in {"ethSender", "solSender", "user"} \ missing THEN Funds ELSE 0]
<1>5. purse \in [Accounts -> Nat]
  BY BridgeAssumption
<1>6. <<0, 0>> \in [1..2 -> Nat]
  OBVIOUS
<1>7. /\ chain \in ChainState /\ chain.burnt = {} /\ chain.attested = {} /\ chain.minted = {}
      /\ chain.allowance = <<0, 0>>
  <2> HIDE DEF purse
  <2>1. chain = [balance |-> purse, allowance |-> <<0, 0>>, open |-> Accounts \ missing,
                 burnt |-> {}, attested |-> {}, minted |-> {}, events |-> {}]
    BY <1>4 DEF purse
  <2>2. Accounts \ missing \subseteq Accounts
    OBVIOUS
  <2> QED BY <1>5, <1>6, <2>1, <2>2 DEF ChainState
<1>8. ASSUME NEW r \in Runs PROVE ~Done(r)
  <2> DEFINE len == Len(Script(r))
  <2>1. len \in 5..13 /\ pc[r] = 1
    BY <1>1, <1>2
  <2> HIDE DEF len
  <2>2. ~(pc[r] > len)
    BY <2>1
  <2> QED BY <2>2 DEF Done, len
<1>9. ChainsTyped
  BY <1>1, <1>7, FS_EmptySet DEF ChainsTyped
<1>10. NoncesDistinct /\ OneTransactionOut /\ ReceiptsAreCurrent
  BY <1>1 DEF NoncesDistinct, OneTransactionOut, ReceiptsAreCurrent
<1>11. BurntOnce /\ MessagesInOrder
  BY <1>7 DEF BurntOnce, MessagesInOrder
<1>12. AllowanceIsForABurn
  BY <1>7 DEF AllowanceIsForABurn
<1>13. DoneMeansMinted
  BY <1>8 DEF DoneMeansMinted
<1> QED BY <1>3, <1>9, <1>10, <1>11, <1>12, <1>13 DEF Inv, Orderly

LEMMA InvNext == ASSUME Inv, [Next]_vars PROVE Inv'
<1>1. CASE UNCHANGED vars
  <2>1. /\ UNCHANGED <<job, pc, failed, attempts, nonce, result, mempool, mined, inflight>>
        /\ chain' = chain
    BY <1>1 DEF vars
  <2>2. chain \in ChainState /\ MessagesInOrder
    BY DEF Inv, Orderly, ChainsTyped
  <2>3. MessagesInOrder'
    BY <2>1, <2>2 DEF MessagesInOrder
  <2> QED BY <2>1, <2>2, <2>3, OthersAct
<1>2. CASE Next
  <2>1. CASE \E r \in Runs : Step(r) \/ Crash(r)
    <3>1. PICK r \in Runs : Step(r) \/ Crash(r)
      BY <2>1
    <3> QED BY <3>1, QuietSteps, SendEthStep, SendSolStep DEF Step
  <2>2. CASE \E r \in Runs : Land(r)
    BY <2>2, LandStep
  <2>3. CASE \E k \in Keys : Mine(k)
    BY <2>3, MineStep
  <2>4. CASE \/ \E r \in Runs : Attest(r) \/ Receive(r) \/ reclaimEventAccount(r)
             \/ OpenAccount
    BY <2>4, OthersSteps
  <2> QED BY <1>2, <2>1, <2>2, <2>3, <2>4 DEF Next
<1> QED BY <1>1, <1>2

\* The invariant holds in every run of the scripts.
LEMMA RunsInvariant == Spec => []Inv
<1>1. Init => Inv
  BY InvInit
<1>2. Inv /\ [Next]_vars => Inv'
  BY InvNext
<1> QED BY <1>1, <1>2, PTL DEF Spec

\* The runs, both chains and the attestation service keep their types; a
\* nonce is never below the count of mined transactions, and nothing is
\* minted before it is attested nor attested before it is burnt.
THEOREM BridgeTypeCorrect == Spec => []TypeOK
<1>1. Inv => TypeOK
  <2> SUFFICES ASSUME Inv PROVE TypeOK
    OBVIOUS
  <2>1. RunsTyped /\ ChainsTyped /\ NoncesDistinct /\ MessagesInOrder
    BY DEF Inv, Orderly
  <2>2. pc \in [Runs -> 1..14]
    <3>1. \A r \in Runs : pc[r] \in 1..14
      <4> TAKE r \in Runs
      <4> DEFINE len == Len(Script(r))
      <4>1. len \in 5..13
        BY <2>1, ScriptShape DEF RunsTyped
      <4>2. pc[r] \in Nat \ {0} /\ pc[r] <= len + 1
        BY <2>1 DEF RunsTyped
      <4> HIDE DEF len
      <4> QED BY <4>1, <4>2
    <3> QED BY <2>1, <3>1 DEF RunsTyped
  <2>3. chain.balance \in [Accounts -> Nat]
    BY <2>1 DEF ChainsTyped, ChainState
  <2>4. \A t \in mempool : t \in Tx /\ t.nonce >= mined[t.key]
    BY <2>1 DEF ChainsTyped, NoncesDistinct
  <2> QED BY <2>1, <2>2, <2>3, <2>4 DEF TypeOK, RunsTyped, ChainsTyped, MessagesInOrder
<1> QED BY <1>1, RunsInvariant, PTL

\* A script that ends without an error has delivered its burn, whatever the
\* other runs, the mempool and the operators did meanwhile (the awaited
\* receipts of mintUSDC, receiveMessageSol and receiveMessageEvm).
THEOREM FinishedRunsAreMinted == Spec => []DoneMeansMinted
<1>1. Inv => DoneMeansMinted
  BY DEF Inv, Orderly
<1> QED BY <1>1, RunsInvariant, PTL

\* What the token messenger may still spend was approved for a run that has
\* not ended well (approve, burnUSDC), however many runs share the sender.
THEOREM AllowancesOutliveOnlyFailures == Spec => []LeftoverApprovalMeansUnfinishedRun
<1>1. Inv => LeftoverApprovalMeansUnfinishedRun
  <2> SUFFICES ASSUME Inv, NEW v \in {1, 2}, chain.allowance[v] # 0
               PROVE  \E r \in Runs : /\ Version(r) = v
                                      /\ Source(r) = "ethSender"
                                      /\ ~Done(r)
                                      /\ chain.allowance[v] <= job[r].amount
    BY DEF LeftoverApprovalMeansUnfinishedRun
  <2>1. PICK r \in Runs : /\ Version(r) = v
                          /\ Source(r) = "ethSender"
                          /\ r \notin chain.burnt
                          /\ chain.allowance[v] <= job[r].amount
    BY DEF Inv, Orderly, AllowanceIsForABurn
  <2>2. job[r].kind # "sol2ethV1"
    BY <2>1, Ends DEF Inv, RunsTyped
  <2>3. ~Done(r)
    BY <2>1, <2>2 DEF Inv, Orderly, DoneMeansMinted, MessagesInOrder
  <2> QED BY <2>1, <2>3
<1> QED BY <1>1, RunsInvariant, PTL
-----------------------------------------------------------------------------
(***************************************************************************)
(* The accounts that the scripts name                                      *)
(***************************************************************************)

\* The client knows what it is given, the wallet and the fixed addresses,
\* and what follows from those.
LEMMA Known ==
  ASSUME NEW ix, NEW given
  PROVE  LET first == given \cup ix.signers \cup ix.fixed
         IN  /\ first \subseteq Resolved(ix, given)
             /\ {a \in DOMAIN ix.derived : ix.derived[a] \subseteq first} \subseteq Resolved(ix, given)
BY DEF Resolved, Follow

\* A burn of either version can be built, with or without a hook.
LEMMA BurnsResolve ==
  ASSUME NEW version \in {1, 2}, NEW hook \in BOOLEAN
  PROVE  BurnResolves(version, hook)
<1>1. Resolves(depositForBurnV1, BurnAccounts)
  <2>1. Required(depositForBurnV1) \subseteq
          BurnAccounts \cup depositForBurnV1.signers \cup depositForBurnV1.fixed
    BY DEF depositForBurnV1, Ix, Required, BurnAccounts, Burners, TokenPrograms, Messengers,
           EventAccounts
  <2> QED BY <2>1, Known DEF Resolves
<1>2. Resolves(depositForBurnV2, BurnAccounts)
  <2> DEFINE first == BurnAccounts \cup depositForBurnV2.signers \cup depositForBurnV2.fixed
  <2>1. Required(depositForBurnV2) \subseteq first \cup {"denylistAccount"}
    BY DEF depositForBurnV2, Ix, Required, BurnAccounts, Burners, TokenPrograms, Messengers,
           EventAccounts
  <2>2. /\ "denylistAccount" \in DOMAIN depositForBurnV2.derived
        /\ depositForBurnV2.derived["denylistAccount"] \subseteq first
    BY DEF depositForBurnV2, Ix, BurnAccounts, Burners
  <2> QED BY <2>1, <2>2, Known DEF Resolves
<1> QED BY <1>1, <1>2 DEF BurnResolves, depositForBurnWithHook

\* So can the receipt of a message.
LEMMA MintsResolve ==
  ASSUME NEW version \in {1, 2} PROVE MintResolves(version)
<1>1. Resolves(receiveMessageV1, MintAccounts(1))
  <2>1. Required(receiveMessageV1) \subseteq
          MintAccounts(1) \cup receiveMessageV1.signers \cup receiveMessageV1.fixed
    BY DEF receiveMessageV1, Ix, Required, MintAccounts, EventAccounts
  <2> QED BY <2>1, Known DEF Resolves
<1>2. Resolves(receiveMessageV2, MintAccounts(2))
  <2>1. Required(receiveMessageV2) \subseteq
          MintAccounts(2) \cup receiveMessageV2.signers \cup receiveMessageV2.fixed
    BY DEF receiveMessageV2, Ix, Required, MintAccounts, EventAccounts
  <2> QED BY <2>1, Known DEF Resolves
<1> QED BY <1>1, <1>2 DEF MintResolves

\* A script gives up a Solana transaction unsent only if the chain would refuse
\* it: the accounts it names for a burn, a mint or a token account are enough
\* for the client, in both versions (depositForBurnSol, receiveMessageSol).
THEOREM ScriptsNameEnoughAccounts == Spec => OnlyTheChainRefuses
<1>1. ASSUME NEW r, NEW hook \in BOOLEAN PROVE Builds(r, Op(r), hook)
  <2>1. Version(r) \in {1, 2}
    BY DEF Version
  <2>2. BurnResolves(Version(r), hook) /\ MintResolves(Version(r))
    BY <2>1, BurnsResolve, MintsResolve
  <2> QED BY <2>2 DEF Builds
<1>2. ASSUME NEW r \in Runs, SendSol(r), r \in failed' PROVE Outcomes(chain, Op(r), r) = {}
  <2>1. r \notin failed
    BY <1>2 DEF SendSol, InPhase, Running
  <2>2. PICK hook \in BOOLEAN :
          IF ~Builds(r, Op(r), hook) \/ Outcomes(chain, Op(r), r) = {}
          THEN Throw(r) /\ UNCHANGED <<pc, inflight>>
          ELSE /\ inflight' = inflight \cup {[run |-> r, op |-> Op(r)]}
               /\ Advance(r)
               /\ UNCHANGED failed
    BY <1>2 DEF SendSol
  <2> QED BY <1>1, <1>2, <2>1, <2>2
<1>3. [Next]_vars =>
        [\A r \in Runs : SendSol(r) /\ r \in failed' => Outcomes(chain, Op(r), r) = {}]_vars
  BY <1>2
<1> QED BY <1>3, PTL DEF Spec, OnlyTheChainRefuses
-----------------------------------------------------------------------------
(***************************************************************************)
(* The scripts implement BridgeLedger                                      *)
(***************************************************************************)

\* The supplies that the accounts add up to.
LEMMA SupplyTyped ==
  ASSUME NEW b \in [Accounts -> Nat]
  PROVE  /\ Supply(b) \in [{"eth", "sol"} -> Nat]
         /\ \A a \in Accounts : Chain(a) \in {"eth", "sol"} /\ b[a] <= Supply(b)[Chain(a)]
<1>1. /\ b["ethSender"] \in Nat /\ b["ethRecipient"] \in Nat /\ b["ethFees"] \in Nat
      /\ b["solSender"] \in Nat /\ b["solRecipient"] \in Nat /\ b["user"] \in Nat
      /\ b["solFees"] \in Nat
  BY DEF Accounts
<1>2. Supply(b) \in [{"eth", "sol"} -> Nat]
  BY <1>1 DEF Supply
<1>3. ASSUME NEW a \in Accounts
      PROVE  Chain(a) \in {"eth", "sol"} /\ b[a] <= Supply(b)[Chain(a)]
  <2>1. CASE a \in {"ethSender", "ethRecipient", "ethFees"}
    <3>1. Chain(a) = "eth" /\ Supply(b)["eth"] = b["ethSender"] + b["ethRecipient"] + b["ethFees"]
      BY <2>1 DEF Chain, Supply
    <3> QED BY <1>1, <2>1, <3>1
  <2>2. CASE a \in {"solSender", "solRecipient", "user", "solFees"}
    <3>1. /\ Chain(a) = "sol"
          /\ Supply(b)["sol"] = b["solSender"] + b["solRecipient"] + b["user"] + b["solFees"]
      BY <2>2 DEF Chain, Supply
    <3> QED BY <1>1, <2>2, <3>1
  <2> QED BY <2>1, <2>2 DEF Accounts
<1> QED BY <1>2, <1>3

\* An account's change is its chain's change.
LEMMA SupplyChange ==
  ASSUME NEW b \in [Accounts -> Nat], NEW a \in Accounts, NEW x \in Int,
         NEW n \in [Accounts -> Nat], n[a] = b[a] + x,
         \A o \in Accounts \ {a} : n[o] = b[o]
  PROVE  Supply(n) = [Supply(b) EXCEPT ![Chain(a)] = @ + x]
<1>1. /\ b["ethSender"] \in Nat /\ b["ethRecipient"] \in Nat /\ b["ethFees"] \in Nat
      /\ b["solSender"] \in Nat /\ b["solRecipient"] \in Nat /\ b["user"] \in Nat
      /\ b["solFees"] \in Nat
  BY DEF Accounts
<1>2. /\ Supply(b)["eth"] = b["ethSender"] + b["ethRecipient"] + b["ethFees"]
      /\ Supply(b)["sol"] = b["solSender"] + b["solRecipient"] + b["user"] + b["solFees"]
      /\ Supply(n)["eth"] = n["ethSender"] + n["ethRecipient"] + n["ethFees"]
      /\ Supply(n)["sol"] = n["solSender"] + n["solRecipient"] + n["user"] + n["solFees"]
  BY DEF Supply
<1>3. \A o \in Accounts : n[o] = IF o = a THEN b[o] + x ELSE b[o]
  OBVIOUS
<1>4. /\ Supply(n)[Chain(a)] = Supply(b)[Chain(a)] + x
      /\ \A k \in {"eth", "sol"} \ {Chain(a)} : Supply(n)[k] = Supply(b)[k]
  <2>1. CASE a \in {"ethSender", "ethRecipient", "ethFees"}
    <3>1. Chain(a) = "eth"
      BY <2>1 DEF Chain
    <3>2. /\ n["solSender"] = b["solSender"] /\ n["solRecipient"] = b["solRecipient"]
          /\ n["user"] = b["user"] /\ n["solFees"] = b["solFees"]
      BY <1>3, <2>1 DEF Accounts
    <3>3. /\ n["ethSender"] = IF a = "ethSender" THEN b["ethSender"] + x ELSE b["ethSender"]
          /\ n["ethRecipient"] = IF a = "ethRecipient" THEN b["ethRecipient"] + x
                                 ELSE b["ethRecipient"]
          /\ n["ethFees"] = IF a = "ethFees" THEN b["ethFees"] + x ELSE b["ethFees"]
      BY <1>3 DEF Accounts
    <3>4. Supply(n)["eth"] = Supply(b)["eth"] + x
      BY <1>1, <1>2, <2>1, <3>3
    <3> QED BY <1>2, <3>1, <3>2, <3>4
  <2>2. CASE a \in {"solSender", "solRecipient", "user", "solFees"}
    <3>1. Chain(a) = "sol"
      BY <2>2 DEF Chain
    <3>2. /\ n["ethSender"] = b["ethSender"] /\ n["ethRecipient"] = b["ethRecipient"]
          /\ n["ethFees"] = b["ethFees"]
      BY <1>3, <2>2 DEF Accounts
    <3>3. /\ n["solSender"] = IF a = "solSender" THEN b["solSender"] + x ELSE b["solSender"]
          /\ n["solRecipient"] = IF a = "solRecipient" THEN b["solRecipient"] + x
                                 ELSE b["solRecipient"]
          /\ n["user"] = IF a = "user" THEN b["user"] + x ELSE b["user"]
          /\ n["solFees"] = IF a = "solFees" THEN b["solFees"] + x ELSE b["solFees"]
      BY <1>3 DEF Accounts
    <3>4. Supply(n)["sol"] = Supply(b)["sol"] + x
      BY <1>1, <1>2, <2>2, <3>3
    <3> QED BY <1>2, <3>1, <3>2, <3>4
  <2> QED BY <2>1, <2>2 DEF Accounts
<1>5. /\ Supply(b) \in [{"eth", "sol"} -> Nat] /\ Supply(n) \in [{"eth", "sol"} -> Nat]
      /\ Chain(a) \in {"eth", "sol"}
  BY SupplyTyped
<1> QED BY <1>4, <1>5

\* The transfers in flight, as LedgerSpec reads them off the chains.
Flight(r) == [amount |-> job[r].amount, to |-> Chain(Recipient(r))]

Flights ==
    [r \in Runs |->
        IF r \in chain.burnt \ chain.minted THEN Flight(r) ELSE [amount |-> 0, to |-> "none"]]

\* A burn that executes is a burn of the abstract ledger.
LEMMA BurnMaps ==
  ASSUME Inv, job' = job, NEW r \in Runs, r \notin chain.burnt,
         Executed(chain, chain', "burn", r)
  PROVE  Ledger!Next
<1> DEFINE from == Chain(Source(r))
           to == Chain(Recipient(r))
           amount == job[r].amount
           s == Supply(chain.balance)
<1>1. /\ job \in Assignments /\ MessagesInOrder
      /\ chain.balance \in [Accounts -> Nat] /\ chain'.balance \in [Accounts -> Nat]
  BY DEF Inv, RunsTyped, Orderly, ChainsTyped, ChainState, Executed
<1>2. /\ amount \in Nat /\ from \in {"eth", "sol"} /\ to \in {"eth", "sol"} /\ from # to
      /\ Source(r) \in Accounts
  BY <1>1, JobTyped, Ends
<1>3. /\ chain'.burnt = chain.burnt \cup {r} /\ chain'.minted = chain.minted
      /\ chain'.balance = [chain.balance EXCEPT ![Source(r)] = @ - amount]
      /\ amount \in 1..chain.balance[Source(r)]
  BY DEF Executed, Payments, Burnable
<1>4. s \in [{"eth", "sol"} -> Nat] /\ chain.balance[Source(r)] <= s[from]
  BY <1>1, <1>2, SupplyTyped
<1>5. amount \in 1..s[from]
  <2>1. chain.balance[Source(r)] \in Nat /\ s[from] \in Nat
    BY <1>1, <1>2, <1>4
  <2> QED BY <1>3, <1>4, <2>1
<1>6. Supply(chain'.balance) = [s EXCEPT ![from] = @ - amount]
  <2>1. chain.balance[Source(r)] \in Nat
    BY <1>1, <1>2
  <2>2. /\ chain'.balance[Source(r)] = chain.balance[Source(r)] + (-amount)
        /\ \A o \in Accounts \ {Source(r)} : chain'.balance[o] = chain.balance[o]
        /\ -amount \in Int
    BY <1>1, <1>2, <1>3, <2>1
  <2>3. Supply(chain'.balance) = [s EXCEPT ![from] = @ + (-amount)]
    BY <1>1, <1>2, <2>2, SupplyChange
  <2>4. s[from] + (-amount) = s[from] - amount
    BY <1>2, <1>4
  <2> QED BY <1>4, <2>3, <2>4
<1>7. Flights[r] = [amount |-> 0, to |-> "none"]
  BY DEF Flights
<1>8. Flights' = [Flights EXCEPT ![r] = [amount |-> amount, to |-> to]]
  <2>1. \A q \in Runs : Flight(q)' = Flight(q)
    <3>1. \A q \in Runs : Recipient(q)' = Recipient(q)
      BY JobFixed
    <3> QED BY <3>1 DEF Flight
  <2>2. r \notin chain.minted
    BY <1>1 DEF MessagesInOrder
  <2>3. Flight(r) = [amount |-> amount, to |-> to]
    BY DEF Flight
  <2> HIDE DEF amount, to
  <2> QED BY <1>3, <2>1, <2>2, <2>3 DEF Flights
<1>9. PICK f \in {"eth", "sol"}, g \in {"eth", "sol"}, x \in Nat :
        f = from /\ g = to /\ x = amount
  BY <1>2
<1>10. Ledger!Burn(r, f, g, x)
  <2>1. x > 0 /\ x <= s[f] /\ f # g
    BY <1>2, <1>4, <1>5, <1>9
  <2> QED BY <1>6, <1>7, <1>8, <1>9, <2>1 DEF Ledger!Burn, Ledger!NoTransfer, Flights, Flight
<1>11. x \in 1..Supply(chain.balance)[f]
  BY <1>5, <1>9
<1> QED BY <1>9, <1>10, <1>11, Zenon DEF Ledger!Next

\* A mint that executes is a mint of the abstract ledger, fee and all.
LEMMA MintMaps ==
  ASSUME Inv, job' = job, NEW r \in Runs, Executed(chain, chain', "mint", r)
  PROVE  Ledger!Next
<1> DEFINE to == Chain(Recipient(r))
           amount == job[r].amount
           b == chain.balance
           s == Supply(b)
<1>1. /\ job \in Assignments /\ MessagesInOrder
      /\ b \in [Accounts -> Nat] /\ chain'.balance \in [Accounts -> Nat]
      /\ chain'.burnt = chain.burnt /\ chain'.minted = chain.minted \cup {r}
      /\ r \in chain.attested /\ r \notin chain.minted
  BY DEF Inv, RunsTyped, Orderly, ChainsTyped, ChainState, Executed
<1>2. /\ amount \in Nat /\ to \in {"eth", "sol"}
      /\ Recipient(r) \in Accounts /\ FeeRecipient(r) \in Accounts
      /\ FeeRecipient(r) # Recipient(r)
      /\ Chain(FeeRecipient(r)) = to
  BY <1>1, JobTyped, Ends
<1>3. PICK fee \in 0..amount :
        chain'.balance = Credit(Credit(b, Recipient(r), amount - fee), FeeRecipient(r), fee)
  BY DEF Executed, Payments
<1> DEFINE credited == Credit(b, Recipient(r), amount - fee)
<1>4. credited \in [Accounts -> Nat]
  BY <1>1, <1>2, <1>3 DEF Credit
<1>5. Supply(credited) = [s EXCEPT ![to] = @ + (amount - fee)]
  <2>1. /\ credited[Recipient(r)] = b[Recipient(r)] + (amount - fee)
        /\ \A o \in Accounts \ {Recipient(r)} : credited[o] = b[o]
    BY <1>1, <1>2 DEF Credit
  <2>2. amount - fee \in Int
    BY <1>2, <1>3
  <2> HIDE DEF credited
  <2> QED BY <1>1, <1>2, <1>4, <2>1, <2>2, SupplyChange
<1>6. Supply(chain'.balance) = [Supply(credited) EXCEPT ![to] = @ + fee]
  <2> HIDE DEF credited
  <2>1. chain'.balance = Credit(credited, FeeRecipient(r), fee)
    BY <1>3 DEF credited
  <2>2. /\ chain'.balance[FeeRecipient(r)] = credited[FeeRecipient(r)] + fee
        /\ \A o \in Accounts \ {FeeRecipient(r)} : chain'.balance[o] = credited[o]
    BY <1>2, <1>4, <2>1 DEF Credit
  <2>3. fee \in Int
    BY <1>2, <1>3
  <2>4. Supply(chain'.balance) = [Supply(credited) EXCEPT ![Chain(FeeRecipient(r))] = @ + fee]
    BY <1>1, <1>2, <1>4, <2>2, <2>3, SupplyChange
  <2> QED BY <1>2, <2>4
<1>7. s \in [{"eth", "sol"} -> Nat]
  BY <1>1, SupplyTyped
<1>8. Supply(chain'.balance) = [s EXCEPT ![to] = @ + amount]
  <2>1. fee \in Nat /\ s[to] \in Nat
    BY <1>2, <1>3, <1>7
  <2>2. (s[to] + (amount - fee)) + fee = s[to] + amount
    BY <1>2, <2>1
  <2> HIDE DEF credited, amount, s, to
  <2> QED BY <1>2, <1>5, <1>6, <1>7, <2>2
<1>9. Flights[r] = Flight(r) /\ Flight(r).to = to /\ Flight(r).amount = amount
  BY <1>1 DEF Flights, Flight, MessagesInOrder
<1>10. Flight(r) # [amount |-> 0, to |-> "none"]
  BY <1>2, <1>9
<1>11. Flights' = [Flights EXCEPT ![r] = [amount |-> 0, to |-> "none"]]
  <2>1. \A q \in Runs : Flight(q)' = Flight(q)
    <3>1. \A q \in Runs : Recipient(q)' = Recipient(q)
      BY JobFixed
    <3> QED BY <3>1 DEF Flight
  <2> QED BY <1>1, <2>1 DEF Flights
<1>12. Supply(chain'.balance) = [s EXCEPT ![Flights[r].to] = @ + Flights[r].amount]
  BY <1>8, <1>9
<1>13. Ledger!Mint(r)
  BY <1>9, <1>10, <1>11, <1>12 DEF Ledger!Mint, Ledger!NoTransfer, Flights, Flight
<1> QED BY <1>13 DEF Ledger!Next

\* What the abstract ledger does not see.
LEMMA LedgerStands ==
  ASSUME job' = job, chain'.balance = chain.balance, chain'.burnt = chain.burnt,
         chain'.minted = chain.minted
  PROVE  UNCHANGED <<Supply(chain.balance), Flights>>
<1>1. \A q \in Runs : Flight(q)' = Flight(q)
  <2>1. \A q \in Runs : Recipient(q)' = Recipient(q)
    BY JobFixed
  <2> QED BY <2>1 DEF Flight
<1>2. Flights' = Flights
  BY <1>1 DEF Flights
<1>3. Supply(chain.balance)' = Supply(chain.balance)
  BY DEF Supply
<1> QED BY <1>2, <1>3

\* A transaction that executes.
LEMMA ExecutedMaps ==
  ASSUME Inv, job' = job, NEW r \in Runs, NEW op \in {"approve", "burn", "mint", "account"},
         op = "burn" => r \notin chain.burnt, Executed(chain, chain', op, r)
  PROVE  Ledger!Next \/ UNCHANGED <<Supply(chain.balance), Flights>>
<1>1. CASE op = "burn"
  BY <1>1, BurnMaps
<1>2. CASE op = "mint"
  BY <1>2, MintMaps
<1>3. CASE op \in {"approve", "account"}
  <2>1. chain'.balance = chain.balance /\ chain'.burnt = chain.burnt /\ chain'.minted = chain.minted
    BY <1>3 DEF Executed, Payments
  <2> QED BY <2>1, LedgerStands
<1> QED BY <1>1, <1>2, <1>3

\* One that executes, fails or is dropped.
LEMMA OutcomeMaps ==
  ASSUME Inv, job' = job, NEW r \in Runs, NEW op \in {"approve", "burn", "mint", "account"},
         op = "burn" => r \notin chain.burnt,
         NEW c, c = Outcomes(chain, op, r) \/ c = {}, Becomes(c)
  PROVE  Ledger!Next \/ UNCHANGED <<Supply(chain.balance), Flights>>
<1>1. CASE c = {}
  <2>1. chain' = chain
    BY <1>1 DEF Becomes
  <2> QED BY <2>1, LedgerStands
<1>2. CASE c # {}
  <2>1. chain' \in Outcomes(chain, op, r)
    BY <1>2 DEF Becomes
  <2>2. job \in Assignments /\ chain \in ChainState /\ (r \in chain.attested => FeeCovered(r))
    BY AttestedCovers DEF Inv, RunsTyped, Orderly, ChainsTyped
  <2>3. Executed(chain, chain', op, r)
    BY <2>1, <2>2, OutcomeSpec
  <2> QED BY <2>3, ExecutedMaps
<1> QED BY <1>1, <1>2

\* Every step of the scripts and of the chains is one of the abstract ledger,
\* or one that it does not see.
LEMMA StepMaps ==
  ASSUME Inv, [Next]_vars
  PROVE  Ledger!Next \/ UNCHANGED <<Supply(chain.balance), Flights>>
<1>0. chain \in ChainState /\ job \in Assignments
  BY DEF Inv, Orderly, ChainsTyped, RunsTyped
<1>1. CASE chain' = chain /\ job' = job
  BY <1>1, LedgerStands
<1>2. CASE \E r \in Runs : Land(r)
  <2>1. PICK r \in Runs, t \in inflight :
          /\ t.run = r
          /\ \E c \in {Outcomes(chain, t.op, r), {}} : Becomes(c)
          /\ job' = job
    BY <1>2 DEF Land
  <2>2. PICK c : (c = Outcomes(chain, t.op, r) \/ c = {}) /\ Becomes(c)
    BY <2>1
  <2>3. t.op \in {"approve", "burn", "mint", "account"}
    BY DEF Inv, Orderly, ChainsTyped
  <2>4. t.op = "burn" => r \notin chain.burnt
    BY <2>1 DEF Inv, Orderly, BurntOnce
  <2> QED BY <2>1, <2>2, <2>3, <2>4, OutcomeMaps
<1>3. CASE \E k \in Keys : Mine(k)
  <2>1. PICK t \in mempool : Becomes(Outcomes(chain, t.op, t.run)) /\ job' = job
    BY <1>3 DEF Mine
  <2>2. PICK c : c = Outcomes(chain, t.op, t.run) /\ Becomes(c)
    BY <2>1
  <2>3. t.op \in {"approve", "burn", "mint", "account"} /\ t.run \in Runs
    BY DEF Inv, Orderly, ChainsTyped, Tx
  <2>4. t.op = "burn" => t.run \notin chain.burnt
    BY DEF Inv, Orderly, BurntOnce
  <2> QED BY <2>1, <2>2, <2>3, <2>4, OutcomeMaps
<1>4. CASE \E r \in Runs : Receive(r)
  <2>1. PICK r \in Runs : chain' \in receiveMessage(chain, r) /\ job' = job
    BY <1>4 DEF Receive
  <2>2. r \in chain.attested => FeeCovered(r)
    BY AttestedCovers
  <2>3. Executed(chain, chain', "mint", r)
    BY <1>0, <2>1, <2>2, ReceiveSpec
  <2> QED BY <2>1, <2>3, ExecutedMaps
<1>5. CASE \/ \E r \in Runs : Attest(r) \/ reclaimEventAccount(r)
           \/ OpenAccount
  <2>1. /\ job' = job /\ chain'.balance = chain.balance
        /\ chain'.burnt = chain.burnt /\ chain'.minted = chain.minted
    BY <1>0, <1>5 DEF Attest, reclaimEventAccount, OpenAccount, ChainState
  <2> QED BY <2>1, LedgerStands
<1>6. ASSUME NEW r \in Runs, Step(r) \/ Crash(r) PROVE chain' = chain /\ job' = job
  BY <1>6 DEF Step, Crash, ReadNonce, SendEth, SendSol, Wait, CheckFunds, CheckAccount,
              PollAttestation
<1>7. UNCHANGED vars => chain' = chain /\ job' = job
  BY DEF vars
<1> QED BY <1>1, <1>2, <1>3, <1>4, <1>5, <1>6, <1>7 DEF Next

\* Whatever runs, crashes and operators do, USDC leaves one chain once for
\* each run and enters the other once, in full (transfer-v2.ts main,
\* transferUsdc): the scripts implement BridgeLedger.
THEOREM BridgeImplementsLedger == Spec => LedgerSpec
<1>1. Init => Ledger!Init
  <2> SUFFICES ASSUME Init PROVE Ledger!Init
    OBVIOUS
  <2>1. Inv
    BY InvInit
  <2>2. chain.balance \in [Accounts -> Nat]
    BY <2>1 DEF Inv, Orderly, ChainsTyped, ChainState
  <2>3. Supply(chain.balance) \in [{"eth", "sol"} -> Nat]
    BY <2>2, SupplyTyped
  <2>4. chain.burnt = {}
    BY DEF Init
  <2>5. Flights = [r \in Runs |-> [amount |-> 0, to |-> "none"]]
    BY <2>4 DEF Flights
  <2> QED BY <2>3, <2>5 DEF Ledger!Init, Ledger!NoTransfer, Flights, Flight
<1>2. Inv /\ [Next]_vars =>
        [Ledger!Next]_<<Supply(chain.balance),
                        [r \in Runs |->
                           IF r \in chain.burnt \ chain.minted
                           THEN [amount |-> job[r].amount, to |-> Chain(Recipient(r))]
                           ELSE [amount |-> 0, to |-> "none"]]>>
  BY StepMaps DEF Flights, Flight
<1> QED BY <1>1, <1>2, RunsInvariant, PTL DEF Spec, LedgerSpec, Ledger!Spec
=============================================================================
