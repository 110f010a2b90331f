------------------------------ MODULE Exchange ------------------------------
(***************************************************************************)
(* The primary market: offers, their fees, the two ways to take one, and   *)
(* the offer vault.  A trade either mints and burns or moves tokens,       *)
(* depending on who controls each mint at that moment; the permissionless  *)
(* way routes both legs through an intermediary account of the program.    *)
(* Composed with Governance and MintAuthority.  The price of an offer is   *)
(* an input that changes by itself (module OfferSchedule says how), and so *)
(* is the clock, against which approvals expire.                           *)
(***************************************************************************)
EXTENDS MintAuthority, TokenMath

CONSTANTS
    OfferVault,         \* the offer vault authority
    Intermediary,       \* the permissionless authority
    Pairs,              \* <<token_in, token_out>> that offers may be made for
    Scale,              \* 10^decimals of every mint
    Users,              \* keys that take offers
    Amounts,            \* amounts that they pay
    Fees,               \* fees in basis points that the boss passes
    Prices,             \* prices that offers reach
    VaultAmounts,       \* amounts that the boss deposits and withdraws
    Approvals,          \* signed messages: [approver, user, expiry_unix]
    MAX_TIME            \* the last clock reading

ASSUME ExchangeAssumption ==
    /\ {OfferVault, Intermediary} \subseteq Owners \ Keys
    /\ OfferVault # Intermediary
    /\ Pairs \subseteq Mints \X Mints
    /\ \A p \in Pairs : p[1] # p[2]
    /\ Scale \in [Mints -> Nat \ {0}]
    /\ Users \subseteq Keys
    /\ Amounts \subseteq U64 /\ VaultAmounts \subseteq U64
    /\ Fees \subseteq Nat
    /\ Prices \subseteq U64 \ {0}
    /\ Approvals \subseteq [approver : Keys, user : Keys, expiry_unix : U64]
    /\ MAX_TIME \in Nat \ {0}

VARIABLES
    offers,             \* fee and flags of the Offer account of every pair
    price,              \* current price of the offer, Err if it has none
    now                 \* Clock::unix_timestamp

vars == <<govVars, ledger, authority, offers, price, now>>

NoOffer ==
    [made |-> FALSE, fee_basis_points |-> 0, needs_approval |-> FALSE,
     allow_permissionless |-> FALSE]

Offer ==
    [made : BOOLEAN, fee_basis_points : 0..MAX_BASIS_POINTS,
     needs_approval : BOOLEAN, allow_permissionless : BOOLEAN]

TypeOK ==
    /\ Gov!TypeOK
    /\ ledger \in Ledger /\ ledger.ok
    /\ authority \in [Mints -> Keys \cup {ProgramAuthority}]
    /\ offers \in [Pairs -> Offer]
    /\ price \in [Pairs -> Prices \cup {Err}]
    /\ now \in 1..MAX_TIME

Init ==
    /\ Gov!Init
    /\ ledger = InitialLedger
    /\ authority \in [Mints -> {UpgradeAuthority, ProgramAuthority} \ {NoKey}]
    /\ offers = [p \in Pairs |-> NoOffer]
    /\ price = [p \in Pairs |-> Err]
    /\ now = 1
-----------------------------------------------------------------------------
(***************************************************************************)
(* Offers                                                                  *)
(***************************************************************************)
make_offer(pair, fee_basis_points, needs_approval, allow_permissionless) ==
    /\ state.boss # NoKey
    /\ ~offers[pair].made
    /\ fee_basis_points <= MAX_ALLOWED_FEE_BPS
    /\ offers' = [offers EXCEPT ![pair] =
           [made |-> TRUE, fee_basis_points |-> fee_basis_points,
            needs_approval |-> needs_approval,
            allow_permissionless |-> allow_permissionless]]
    /\ UNCHANGED <<ledger, authority, price, now>>

\* Mutant: any fee is accepted.
update_offer_fee_unchecked(pair, new_fee_basis_points) ==
    /\ state.boss # NoKey
    /\ offers[pair].made
    /\ offers' = [offers EXCEPT ![pair].fee_basis_points = new_fee_basis_points]
    /\ UNCHANGED <<ledger, authority, price, now>>

\* Unlike make_offer, up to 100%.
update_offer_fee(pair, new_fee_basis_points) ==
    /\ state.boss # NoKey
    /\ offers[pair].made
    /\ new_fee_basis_points <= MAX_BASIS_POINTS
    /\ offers' = [offers EXCEPT ![pair].fee_basis_points = new_fee_basis_points]
    /\ UNCHANGED <<ledger, authority, price, now>>
-----------------------------------------------------------------------------
(***************************************************************************)
(* Taking an offer                                                         *)
(***************************************************************************)

\* Either approver's signature on a message for this user that has not
\* expired; the program checks no other use of the message.
verify_approval_message_generic(user, msg) ==
    /\ now <= msg.expiry_unix
    /\ msg.user = user
    /\ msg.approver \in {state.approver1, state.approver2} \ {NoKey}

verify_offer_approval(offer, user, approval) ==
    offer.needs_approval =>
        \E msg \in approval : verify_approval_message_generic(user, msg)

\* process_offer_core: [ok, net, fee, out].
process_offer_core(pair, amount) ==
    LET amounts == calculate_fees(amount, offers[pair].fee_basis_points)
        out     == calculate_token_out_amount(amounts.net, price[pair],
                                              Scale[pair[1]], Scale[pair[2]])
    IN  [ok |-> price[pair] # Err /\ amounts.ok /\ out # Err,
         net |-> amounts.net, fee |-> amounts.fee, out |-> out]

\* Mutant: when the program does not control the mint only the net amount
\* is collected.
CollectTokenInNet(l, mint, source, result) ==
    IF program_controls_mint(mint)
    THEN LET paid  == transfer_tokens(l, mint, source, OfferVault, result.net)
             burnt == burn_tokens(paid, mint, OfferVault, result.net)
         IN  IF result.fee = 0 THEN burnt
             ELSE transfer_tokens(burnt, mint, source, state.boss, result.fee)
    ELSE transfer_tokens(l, mint, source, state.boss, result.net)

\* Mutant: the fee is burnt out of the vault with the net amount.
CollectTokenInBurnsFee(l, mint, source, result) ==
    IF program_controls_mint(mint)
    THEN LET paid  == transfer_tokens(l, mint, source, OfferVault, result.net)
             burnt == burn_tokens(paid, mint, OfferVault, result.net + result.fee)
         IN  IF result.fee = 0 THEN burnt
             ELSE transfer_tokens(burnt, mint, source, state.boss, result.fee)
    ELSE transfer_tokens(l, mint, source, state.boss, result.net + result.fee)

\* The payment: the net amount is burnt by way of the vault and the fee goes
\* to the boss, or both go to the boss.
CollectTokenIn(l, mint, source, result) ==
    IF program_controls_mint(mint)
    THEN LET paid  == transfer_tokens(l, mint, source, OfferVault, result.net)
             burnt == burn_tokens(paid, mint, OfferVault, result.net)
         IN  IF result.fee = 0 THEN burnt
             ELSE transfer_tokens(burnt, mint, source, state.boss, result.fee)
    ELSE transfer_tokens(l, mint, source, state.boss, result.net + result.fee)

\* The delivery: minted up to the cap, or out of the vault.
DeliverTokenOut(l, mint, destination, amount) ==
    IF program_controls_mint(mint)
    THEN mint_tokens(l, mint, destination, amount, state.max_supply)
    ELSE transfer_tokens(l, mint, OfferVault, destination, amount)

execute_token_operations(l, pair, source, destination, result) ==
    DeliverTokenOut(CollectTokenIn(l, pair[1], source, result),
                    pair[2], destination, result.out)

Running == state.boss # NoKey /\ ~state.is_killed

\* The accounts of a trade, direct and permissionless.
TakeOffer(pair) == Running /\ offers[pair].made

TakeOfferPermissionless(pair) == Running /\ offers[pair].made

take_offer(user, pair, amount, approval) ==
    LET result == process_offer_core(pair, amount)
    IN  /\ TakeOffer(pair)
        /\ verify_offer_approval(offers[pair], user, approval)
        /\ result.ok
        /\ Commit(execute_token_operations(ledger, pair, user, user, result))
        /\ UNCHANGED <<authority, offers, price, now>>

\* Mutant: the approval is not verified.
take_offer_permissionless_unapproved(user, pair, amount, approval) ==
    LET result == process_offer_core(pair, amount)
        routed == transfer_tokens(ledger, pair[1], user, Intermediary, amount)
        traded == execute_token_operations(routed, pair, Intermediary, Intermediary, result)
    IN  /\ TakeOfferPermissionless(pair)
        /\ offers[pair].allow_permissionless
        /\ result.ok
        /\ Commit(transfer_tokens(traded, pair[2], Intermediary, user, result.out))
        /\ UNCHANGED <<authority, offers, price, now>>

take_offer_permissionless(user, pair, amount, approval) ==
    LET result == process_offer_core(pair, amount)
        routed == transfer_tokens(ledger, pair[1], user, Intermediary, amount)
        traded == execute_token_operations(routed, pair, Intermediary, Intermediary, result)
    IN  /\ TakeOfferPermissionless(pair)
        /\ offers[pair].allow_permissionless
        /\ verify_offer_approval(offers[pair], user, approval)
        /\ result.ok
        /\ Commit(transfer_tokens(traded, pair[2], Intermediary, user, result.out))
        /\ UNCHANGED <<authority, offers, price, now>>
-----------------------------------------------------------------------------
(***************************************************************************)
(* The offer vault, and the world around                                   *)
(***************************************************************************)
offer_vault_deposit(mint, amount) ==
    /\ state.boss # NoKey
    /\ Commit(transfer_tokens(ledger, mint, state.boss, OfferVault, amount))
    /\ UNCHANGED <<authority, offers, price, now>>

offer_vault_withdraw(mint, amount) ==
    /\ state.boss # NoKey
    /\ Commit(transfer_tokens(ledger, mint, OfferVault, state.boss, amount))
    /\ UNCHANGED <<authority, offers, price, now>>

\* The clock and the boss's vectors move the price of an offer.
PriceMoves(pair, newPrice) ==
    /\ price' = [price EXCEPT ![pair] = newPrice]
    /\ UNCHANGED <<ledger, authority, offers, now>>

Tick ==
    /\ now < MAX_TIME
    /\ now' = now + 1
    /\ UNCHANGED <<ledger, authority, offers, price>>
-----------------------------------------------------------------------------
\* The approval message that comes with a trade: one signed message or none.
ApprovalOptions == {{}} \cup {{msg} : msg \in Approvals}

OfferStep ==
    \/ \E p \in Pairs, fee \in Fees, approval, open \in BOOLEAN :
           make_offer(p, fee, approval, open)
    \/ \E p \in Pairs, fee \in Fees : update_offer_fee(p, fee)

Take ==
    \E k \in Users, p \in Pairs, amount \in Amounts, approval \in ApprovalOptions :
        take_offer(k, p, amount, approval)

TakePermissionless ==
    \E k \in Users, p \in Pairs, amount \in Amounts, approval \in ApprovalOptions :
        take_offer_permissionless(k, p, amount, approval)

VaultStep ==
    \E m \in Mints, amount \in VaultAmounts :
        offer_vault_deposit(m, amount) \/ offer_vault_withdraw(m, amount)

Reprice == \E p \in Pairs, v \in Prices \cup {Err} : PriceMoves(p, v)

ExchangeStep ==
    OfferStep \/ Take \/ TakePermissionless \/ VaultStep \/ Reprice \/ Tick

Next ==
    \/ ExchangeStep /\ UNCHANGED govVars
    \/ MintAuthorityStep /\ UNCHANGED <<govVars, offers, price, now>>
    \/ Gov!Next /\ UNCHANGED <<ledger, authority, offers, price, now>>

Spec == Init /\ [][Next]_vars
-----------------------------------------------------------------------------
(***************************************************************************)
(* Properties                                                              *)
(***************************************************************************)

\* The intermediary is only passed through: whatever the fees, the prices
\* and the control of the mints, each permissionless trade leaves its
\* accounts as they were, so no user's tokens are stranded there and none
\* of them pays for another user's trade.
IntermediaryKeepsNothing ==
    [][ ledger'.bal[Intermediary] = ledger.bal[Intermediary] ]_vars

\* A permissionless trade is on the same terms as a direct one: every step
\* of take_offer_permissionless is a step that take_offer could have made
\* with the same arguments, approval included.
PermissionlessIsDirect ==
    [][ ledger' # ledger =>
          \A k \in Users, p \in Pairs, amount \in Amounts, approval \in ApprovalOptions :
              take_offer_permissionless(k, p, amount, approval)
                  => take_offer(k, p, amount, approval) ]_vars

\* A trade moves the payment exactly once: the user pays the amount, it is
\* split between the boss and the burn, and the vault's holding of token_in,
\* through which the burn goes, is untouched.
PaymentCountsOnce ==
    [][ ledger' # ledger =>
          \A k \in Users \ {state.boss}, p \in Pairs, amount \in Amounts,
             approval \in ApprovalOptions :
            take_offer(k, p, amount, approval) =>
              LET m     == p[1]
                  gain  == ledger'.bal[state.boss][m] - ledger.bal[state.boss][m]
                  burnt == ledger.supply[m] - ledger'.supply[m]
              IN  /\ ledger'.bal[k][m] = ledger.bal[k][m] - amount
                  /\ gain + burnt = amount
                  /\ ledger'.bal[OfferVault][m] = ledger.bal[OfferVault][m] ]_vars

\* No mint of the program raises a supply above the configured cap, by
\* mint_to or by a trade, however many mints add up.  A payout of a redemption is
\* exempt: fulfill_redemption_request passes no cap.
SupplyCapHolds ==
    [][ \A m \in Mints :
          ledger'.supply[m] > ledger.supply[m] /\ state.max_supply > 0
            => ledger'.supply[m] <= state.max_supply ]_vars
=============================================================================
