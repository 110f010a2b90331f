----------------------------- MODULE Redemption -----------------------------
(***************************************************************************)
(* The redemption queue.  A redeemer locks token_in in the redemption      *)
(* vault and gets a numbered request; the redemption admin fulfils it at   *)
(* the price of that moment, or it is cancelled and refunded.  One vault   *)
(* per mint serves every redemption offer, and the boss deposits to it and *)
(* withdraws from it.  Composed with Governance (the State account) and    *)
(* MintAuthority; the price of the underlying offer is an input that       *)
(* changes by itself (module OfferSchedule says how).                      *)
(***************************************************************************)
EXTENDS MintAuthority, TokenMath

CONSTANTS
    RedemptionVault,    \* the redemption vault authority
    Pairs,              \* <<token_in, token_out>> whose inverse offer exists
    Scale,              \* 10^decimals of every mint
    Redeemers,          \* keys that request redemptions
    Amounts,            \* amounts that they request
    Fees,               \* fees in basis points that the boss passes
    Prices,             \* prices that the underlying offers reach
    VaultAmounts,       \* amounts that the boss deposits
    WithdrawAmounts,    \* amounts that the boss withdraws
    MAX_REQUESTS        \* bound on request_counter

ASSUME RedemptionAssumption ==
    /\ RedemptionVault \in Owners \ Keys
    /\ Pairs \subseteq Mints \X Mints
    /\ \A p \in Pairs : p[1] # p[2]
    /\ Scale \in [Mints -> Nat \ {0}]
    /\ Redeemers \subseteq Keys
    /\ Amounts \subseteq U64 /\ VaultAmounts \subseteq U64
    /\ WithdrawAmounts \subseteq U64
    /\ Fees \subseteq Nat
    /\ Prices \subseteq U64 \ {0}
    /\ MAX_REQUESTS \in 0..U64_MAX

VARIABLES
    redemption_offers,      \* the RedemptionOffer account of every pair
    requests,               \* the open RedemptionRequest accounts
    price,                  \* price of the underlying offer, Err if it has none
    liquidity               \* history: deposits - withdrawals - payouts, per mint

vars == <<govVars, ledger, authority, redemption_offers, requests, price, liquidity>>

NoOffer ==
    [made |-> FALSE, fee_basis_points |-> 0, executed_redemptions |-> 0,
     requested_redemptions |-> 0, request_counter |-> 0]

RedemptionOffer ==
    [made : BOOLEAN, fee_basis_points : 0..MAX_ALLOWED_FEE_BPS,
     executed_redemptions : 0..U128_MAX, requested_redemptions : 0..U128_MAX,
     request_counter : 0..U64_MAX]

RedemptionRequest ==
    [pair : Pairs, request_id : 0..U64_MAX, redeemer : Redeemers, amount : U64]

TypeOK ==
    /\ Gov!TypeOK
    /\ ledger \in Ledger /\ ledger.ok
    /\ authority \in [Mints -> Keys \cup {ProgramAuthority}]
    /\ redemption_offers \in [Pairs -> RedemptionOffer]
    /\ requests \subseteq RedemptionRequest
    /\ price \in [Pairs -> Prices \cup {Err}]
    /\ liquidity \in [Mints -> Int]

Init ==
    /\ Gov!Init
    /\ ledger = InitialLedger
    /\ authority \in [Mints -> {UpgradeAuthority, ProgramAuthority} \ {NoKey}]
    /\ redemption_offers = [p \in Pairs |-> NoOffer]
    /\ requests = {}
    /\ price = [p \in Pairs |-> Err]
    /\ liquidity = [m \in Mints |-> InitialBalance[RedemptionVault][m]]
-----------------------------------------------------------------------------
(***************************************************************************)
(* Redemption offers                                                       *)
(***************************************************************************)
make_redemption_offer(signer, pair, fee_basis_points) ==
    /\ signer \in {state.boss, state.redemption_admin}
    /\ ~redemption_offers[pair].made
    /\ fee_basis_points <= MAX_ALLOWED_FEE_BPS
    /\ redemption_offers' = [redemption_offers EXCEPT ![pair] =
           [NoOffer EXCEPT !.made = TRUE, !.fee_basis_points = fee_basis_points]]
    /\ UNCHANGED <<ledger, authority, requests, price, liquidity>>

\* Mutant: the fee is not bounded.
update_redemption_offer_fee_unbounded(pair, new_fee_basis_points) ==
    /\ state.boss # NoKey
    /\ redemption_offers[pair].made
    /\ new_fee_basis_points # redemption_offers[pair].fee_basis_points
    /\ redemption_offers' = [redemption_offers EXCEPT
           ![pair].fee_basis_points = new_fee_basis_points]
    /\ UNCHANGED <<ledger, authority, requests, price, liquidity>>

update_redemption_offer_fee(pair, new_fee_basis_points) ==
    /\ state.boss # NoKey
    /\ redemption_offers[pair].made
    /\ new_fee_basis_points <= MAX_ALLOWED_FEE_BPS
    /\ new_fee_basis_points # redemption_offers[pair].fee_basis_points
    /\ redemption_offers' = [redemption_offers EXCEPT
           ![pair].fee_basis_points = new_fee_basis_points]
    /\ UNCHANGED <<ledger, authority, requests, price, liquidity>>
-----------------------------------------------------------------------------
(***************************************************************************)
(* Requests                                                                *)
(***************************************************************************)
Running == state.boss # NoKey /\ ~state.is_killed

\* The accounts of a creation: the address of the new request is derived from
\* the counter, and nothing may exist there.
MayCreate(pair) ==
    /\ Running
    /\ redemption_offers[pair].made
    /\ \A r \in requests :
         <<r.pair, r.request_id>> # <<pair, redemption_offers[pair].request_counter>>

\* The tokens move to the vault and the request takes the next number.
create_redemption_request(redeemer, pair, amount) ==
    LET offer      == redemption_offers[pair]
        request_id == offer.request_counter
    IN  /\ MayCreate(pair)
        /\ request_id < MAX_REQUESTS
        /\ Commit(transfer_tokens(ledger, pair[1], redeemer, RedemptionVault, amount))
        /\ requests' = requests \cup
               {[pair |-> pair, request_id |-> request_id,
                 redeemer |-> redeemer, amount |-> amount]}
        /\ offer.requested_redemptions + amount <= U128_MAX
        /\ redemption_offers' = [redemption_offers EXCEPT
               ![pair].requested_redemptions = @ + amount,
               ![pair].request_counter = @ + 1]
        /\ UNCHANGED <<authority, price, liquidity>>

\* Mutant: the kill switch is not checked.
MayCancelWhileKilled(signer, request) ==
    /\ state.boss # NoKey
    /\ signer \in {state.boss, state.redemption_admin, request.redeemer}
    /\ state.redemption_admin # NoKey

\* Who may cancel.  The account that gets the rent must be the redemption
\* admin's and writable, which the default key never is.
MayCancel(signer, request) ==
    /\ Running
    /\ signer \in {state.boss, state.redemption_admin, request.redeemer}
    /\ state.redemption_admin # NoKey

\* Mutant: the total of pending requests is not reduced.
cancel_redemption_request_keeps_total(signer, request) ==
    /\ MayCancel(signer, request)
    /\ Commit(transfer_tokens(ledger, request.pair[1], RedemptionVault,
                              request.redeemer, request.amount))
    /\ requests' = requests \ {request}
    /\ UNCHANGED <<redemption_offers, authority, price, liquidity>>

\* Mutant: the number of the cancelled request is given back.
cancel_redemption_request_reclaims_id(signer, request) ==
    /\ MayCancel(signer, request)
    /\ Commit(transfer_tokens(ledger, request.pair[1], RedemptionVault,
                              request.redeemer, request.amount))
    /\ requests' = requests \ {request}
    /\ redemption_offers' = [redemption_offers EXCEPT
           ![request.pair].requested_redemptions = @ - request.amount,
           ![request.pair].request_counter = @ - 1]
    /\ UNCHANGED <<authority, price, liquidity>>

\* Mutant: the refund goes to whoever cancels.
cancel_redemption_request_to_signer(signer, request) ==
    /\ MayCancel(signer, request)
    /\ Commit(transfer_tokens(ledger, request.pair[1], RedemptionVault,
                              signer, request.amount))
    /\ requests' = requests \ {request}
    /\ redemption_offers' = [redemption_offers EXCEPT
           ![request.pair].requested_redemptions = @ - request.amount]
    /\ UNCHANGED <<authority, price, liquidity>>

cancel_redemption_request(signer, request) ==
    /\ MayCancel(signer, request)
    /\ Commit(transfer_tokens(ledger, request.pair[1], RedemptionVault,
                              request.redeemer, request.amount))
    /\ requests' = requests \ {request}
    /\ redemption_offers[request.pair].requested_redemptions >= request.amount
    /\ redemption_offers' = [redemption_offers EXCEPT
           ![request.pair].requested_redemptions = @ - request.amount]
    /\ UNCHANGED <<authority, price, liquidity>>

\* Mutant: the fee stays in the vault when the net amount is burnt.
SettleTokenInKeepsFee(l, mint, amounts) ==
    IF program_controls_mint(mint)
    THEN burn_tokens(l, mint, RedemptionVault, amounts.net)
    ELSE transfer_tokens(l, mint, RedemptionVault, state.boss, amounts.net + amounts.fee)

\* The token_in of a fulfilled request leaves the vault: the net amount is
\* burnt and the fee goes to the boss, or both go to the boss.
SettleTokenIn(l, mint, amounts) ==
    IF program_controls_mint(mint)
    THEN LET burnt == burn_tokens(l, mint, RedemptionVault, amounts.net)
         IN  IF amounts.fee = 0 THEN burnt
             ELSE transfer_tokens(burnt, mint, RedemptionVault, state.boss, amounts.fee)
    ELSE transfer_tokens(l, mint, RedemptionVault, state.boss, amounts.net + amounts.fee)

\* The redeemer is paid by minting, without a cap, or from the vault.
PayTokenOut(l, mint, redeemer, amount) ==
    IF program_controls_mint(mint)
    THEN mint_tokens(l, mint, redeemer, amount, 0)
    ELSE transfer_tokens(l, mint, RedemptionVault, redeemer, amount)

\* The accounts of a fulfilment: the redemption admin signs.
MayFulfill == Running /\ state.redemption_admin # NoKey

\* Price and fee are those of the moment of fulfilment, not of the request.
fulfill_redemption_request(request) ==
    LET mint_in  == request.pair[1]
        mint_out == request.pair[2]
        offer    == redemption_offers[request.pair]
        amounts  == calculate_fees(request.amount, offer.fee_basis_points)
        paid     == redemption_out_amount(amounts.net, price[request.pair],
                                          Scale[mint_in], Scale[mint_out])
    IN  /\ MayFulfill
        /\ price[request.pair] # Err
        /\ amounts.ok
        /\ paid # Err
        /\ Commit(PayTokenOut(SettleTokenIn(ledger, mint_in, amounts),
                              mint_out, request.redeemer, paid))
        /\ offer.executed_redemptions + request.amount <= U128_MAX
        /\ offer.requested_redemptions >= request.amount
        /\ redemption_offers' = [redemption_offers EXCEPT
               ![request.pair].executed_redemptions = @ + request.amount,
               ![request.pair].requested_redemptions = @ - request.amount]
        /\ requests' = requests \ {request}
        /\ liquidity' = [liquidity EXCEPT ![mint_out] =
               IF program_controls_mint(mint_out) THEN @ ELSE @ - paid]
        /\ UNCHANGED <<authority, price>>
-----------------------------------------------------------------------------
(***************************************************************************)
(* The redemption vault, and the world around                              *)
(***************************************************************************)
redemption_vault_deposit(mint, amount) ==
    /\ state.boss # NoKey
    /\ Commit(transfer_tokens(ledger, mint, state.boss, RedemptionVault, amount))
    /\ liquidity' = [liquidity EXCEPT ![mint] = @ + amount]
    /\ UNCHANGED <<authority, redemption_offers, requests, price>>

redemption_vault_withdraw(mint, amount) ==
    /\ state.boss # NoKey
    /\ Commit(transfer_tokens(ledger, mint, RedemptionVault, state.boss, amount))
    /\ liquidity' = [liquidity EXCEPT ![mint] = @ - amount]
    /\ UNCHANGED <<authority, redemption_offers, requests, price>>

\* The clock and the boss's vectors move the price of an underlying offer.
PriceMoves(pair, newPrice) ==
    /\ price' = [price EXCEPT ![pair] = newPrice]
    /\ UNCHANGED <<ledger, authority, redemption_offers, requests, liquidity>>
-----------------------------------------------------------------------------
OfferStep ==
    \/ \E k \in Keys, p \in Pairs, fee \in Fees : make_redemption_offer(k, p, fee)
    \/ \E p \in Pairs, fee \in Fees : update_redemption_offer_fee(p, fee)

Create ==
    \E k \in Redeemers, p \in Pairs, amount \in Amounts :
        create_redemption_request(k, p, amount)

Cancel == \E k \in Keys, r \in requests : cancel_redemption_request(k, r)

Fulfill == \E r \in requests : fulfill_redemption_request(r)

Deposit == \E m \in Mints, amount \in VaultAmounts : redemption_vault_deposit(m, amount)

Withdraw == \E m \in Mints, amount \in WithdrawAmounts : redemption_vault_withdraw(m, amount)

Reprice == \E p \in Pairs, v \in Prices \cup {Err} : PriceMoves(p, v)

RedemptionStep ==
    OfferStep \/ Create \/ Cancel \/ Fulfill \/ Deposit \/ Withdraw \/ Reprice

Next ==
    \/ RedemptionStep /\ UNCHANGED govVars
    \/ /\ MintAuthorityStep
       /\ UNCHANGED <<govVars, redemption_offers, requests, price, liquidity>>
    \/ /\ Gov!Next
       /\ UNCHANGED <<ledger, authority, redemption_offers, requests, price, liquidity>>

Spec == Init /\ [][Next]_vars
-----------------------------------------------------------------------------
(***************************************************************************)
(* Properties                                                              *)
(***************************************************************************)
Sum(S) == Total([r \in S |-> r.amount])

\* The tokens of one mint that open requests have locked.
Pending(mint) == Sum({r \in requests : r.pair[1] = mint})

\* requested_redemptions is the total of the open requests of the offer, so
\* the checked_sub in cancel and fulfil never fails and blocks a refund.
RequestedIsOpenTotal ==
    \A p \in Pairs : redemption_offers[p].requested_redemptions
                       = Sum({r \in requests : r.pair = p})

\* The vault's books balance for every mint: what it holds is what open
\* requests have locked plus what the boss put in net of what he took out
\* and of what was paid out of it, whichever way the mints are controlled
\* when a request is created, cancelled or fulfilled.
VaultReconciles ==
    \A m \in Mints : ledger.bal[RedemptionVault][m] = Pending(m) + liquidity[m]

\* The number of the next request is always free: creation derives the
\* account's address from request_counter, and fails if it exists.
NextIdIsFree ==
    \A r \in requests : r.request_id < redemption_offers[r.pair].request_counter

\* A request closes by exactly one settlement: it is refunded in full to its
\* redeemer, or its whole amount counts as executed and nothing is refunded.
SettledOnce ==
    [][ \A r \in requests \ requests' :
          LET before == redemption_offers[r.pair].executed_redemptions
              after  == redemption_offers'[r.pair].executed_redemptions
              refund == ledger'.bal[r.redeemer][r.pair[1]]
                          - ledger.bal[r.redeemer][r.pair[1]]
          IN  /\ requests' = requests \ {r}
              /\ \/ after = before /\ refund = r.amount
                 \/ /\ after = before + r.amount
                    /\ r.redeemer # state.boss => refund = 0 ]_vars

\* While the kill switch is on nobody but the boss gains or loses tokens.
KillSwitchFreezesUsers ==
    [][ state.is_killed => \A k \in Keys \ {state.boss} :
                               ledger'.bal[k] = ledger.bal[k] ]_vars

\* "Stores tokens that are locked until the redemption request is fulfilled
\* or cancelled" (the comment on the vault's account in
\* create_redemption_request.rs): the vault always holds what the open
\* requests have locked.  Withdrawals of the boss break it, and so does an offer
\* that pays out a mint that another one takes in.
LockedFundsCovered ==
    \A m \in Mints : ledger.bal[RedemptionVault][m] >= Pending(m)

\* "The request can be cancelled by the redeemer, redemption_admin, or boss"
\* (the comment on cancel_redemption_request): while the system runs and the
\* vault holds the tokens, the redeemer can cancel an open request.
RedeemerCanCancel ==
    \A r \in requests :
        Running /\ ledger.bal[RedemptionVault][r.pair[1]] >= r.amount
            => ENABLED cancel_redemption_request(r.redeemer, r)
=============================================================================
