----------------------------- MODULE Governance -----------------------------
(***************************************************************************)
(* The State account: who the boss is, the two-step hand-over of that      *)
(* role, the admins who may pull the kill switch, the two approvers, the   *)
(* redemption admin, the supply cap and the ONyc mint; and the             *)
(* instructions that change them.  An instruction that fails changes       *)
(* nothing, so its requirements are guards.                                *)
(***************************************************************************)
EXTENDS Integers, FiniteSets

CONSTANTS
    Keys,               \* public keys that can sign
    NoKey,              \* Pubkey::default(): no account, it cannot sign
    MAX_ADMINS,         \* admin slots (20)
    UpgradeAuthority,   \* of the deployed program; NoKey when it is immutable
    OnycMints,          \* mints that the boss may declare to be ONyc
    ProposableKeys,     \* keys that the boss may pass to propose_boss
    AdminKeys,          \* ... to add_admin
    ApproverKeys,       \* ... to add_approver
    RedemptionKeys,     \* ... to set_redemption_admin
    SupplyCaps          \* ... to configure_max_supply

GovernanceConstants ==
    /\ NoKey \notin Keys
    /\ MAX_ADMINS \in Nat \ {0}
    /\ UpgradeAuthority \in Keys \cup {NoKey}
    /\ ProposableKeys \subseteq Keys
    /\ AdminKeys \subseteq Keys
    /\ ApproverKeys \subseteq Keys
    /\ RedemptionKeys \subseteq Keys \cup {NoKey}
    /\ SupplyCaps \subseteq Nat

ASSUME GovernanceAssumption == GovernanceConstants

VARIABLES
    state,      \* the State account; boss = NoKey while it does not exist
    proposer    \* history: the key that signed the pending proposal

vars == <<state, proposer>>

KeyOrNone == Keys \cup {NoKey}
AdminSlots == 1..MAX_ADMINS

\* A zeroed account: before initialize, and after close_state.
ZeroState ==
    [boss |-> NoKey, proposed_boss |-> NoKey, is_killed |-> FALSE,
     onyc_mint |-> NoKey, admins |-> [i \in AdminSlots |-> NoKey],
     approver1 |-> NoKey, approver2 |-> NoKey, max_supply |-> 0,
     redemption_admin |-> NoKey]

TypeOK ==
    /\ state \in [boss : KeyOrNone, proposed_boss : KeyOrNone,
                  is_killed : BOOLEAN, onyc_mint : OnycMints \cup {NoKey},
                  admins : [AdminSlots -> KeyOrNone],
                  approver1 : KeyOrNone, approver2 : KeyOrNone,
                  max_supply : SupplyCaps \cup {0}, redemption_admin : KeyOrNone]
    /\ proposer \in KeyOrNone

Init ==
    /\ state = ZeroState
    /\ proposer = NoKey

Initialized == state.boss # NoKey

Admins == {state.admins[i] : i \in AdminSlots} \ {NoKey}
Approvers == {state.approver1, state.approver2} \ {NoKey}

\* The boss signs an instruction that changes nothing but the given fields.
ByBoss(newState) ==
    /\ Initialized
    /\ state' = newState
-----------------------------------------------------------------------------
(***************************************************************************)
(* initialize, close_state                                                 *)
(***************************************************************************)

\* get_upgrade_authority: whoever may upgrade the program signs, or anybody
\* when nobody may.
MayInitialize(signer) == UpgradeAuthority \in {NoKey, signer}

\* Mutant: the wrong one of two keys is stored as the mint.
initialize_swapped(signer, mint) ==
    /\ ~Initialized
    /\ MayInitialize(signer)
    /\ state' = [ZeroState EXCEPT !.boss = signer, !.onyc_mint = signer]
    /\ proposer' = NoKey

\* The account must not exist yet.
initialize(signer, mint) ==
    /\ ~Initialized
    /\ MayInitialize(signer)
    /\ state' = [ZeroState EXCEPT !.boss = signer, !.onyc_mint = mint]
    /\ proposer' = NoKey

\* The account is drained, truncated and handed back to the system program.
close_state ==
    /\ Initialized
    /\ state' = ZeroState
    /\ proposer' = NoKey
-----------------------------------------------------------------------------
(***************************************************************************)
(* The two-step hand-over                                                  *)
(***************************************************************************)
propose_boss(new_boss) ==
    /\ ByBoss([state EXCEPT !.proposed_boss = new_boss])
    /\ new_boss # NoKey
    /\ proposer' = state.boss

\* Mutant: the proposal is not cleared.
accept_boss_kept(signer) ==
    /\ Initialized
    /\ state.proposed_boss = signer
    /\ state' = [state EXCEPT !.boss = signer]
    /\ UNCHANGED proposer

accept_boss(signer) ==
    /\ Initialized
    /\ state.proposed_boss = signer
    /\ state' = [state EXCEPT !.boss = signer, !.proposed_boss = NoKey]
    /\ proposer' = NoKey
-----------------------------------------------------------------------------
(***************************************************************************)
(* Admins and the kill switch                                              *)
(***************************************************************************)

\* The first slot that holds the key, as the loops over the array find it.
FirstSlot(key) ==
    CHOOSE i \in AdminSlots :
        /\ state.admins[i] = key
        /\ \A j \in AdminSlots : state.admins[j] = key => i <= j

HasSlot(key) == \E i \in AdminSlots : state.admins[i] = key

\* Mutant: an admin may be listed twice.
add_admin_twice(new_admin) ==
    /\ HasSlot(NoKey)
    /\ ByBoss([state EXCEPT !.admins[FirstSlot(NoKey)] = new_admin])
    /\ UNCHANGED proposer

add_admin(new_admin) ==
    /\ ~HasSlot(new_admin)
    /\ HasSlot(NoKey)
    /\ ByBoss([state EXCEPT !.admins[FirstSlot(NoKey)] = new_admin])
    /\ UNCHANGED proposer

\* Removing the default key clears an empty slot, which changes nothing.
remove_admin(admin_to_remove) ==
    /\ HasSlot(admin_to_remove)
    /\ ByBoss([state EXCEPT !.admins[FirstSlot(admin_to_remove)] = NoKey])
    /\ UNCHANGED proposer

clear_admins ==
    /\ ByBoss([state EXCEPT !.admins = [i \in AdminSlots |-> NoKey]])
    /\ UNCHANGED proposer

\* An admin may enable the switch, only the boss may disable it.
set_kill_switch(signer, enable) ==
    /\ Initialized
    /\ \/ signer = state.boss
       \/ enable /\ HasSlot(signer)
    /\ state' = [state EXCEPT !.is_killed = enable]
    /\ UNCHANGED proposer
-----------------------------------------------------------------------------
(***************************************************************************)
(* Approvers                                                               *)
(***************************************************************************)

\* Mutant: a key may fill both approver slots.
add_approver_twice(approver) ==
    /\ approver # NoKey
    /\ \/ /\ state.approver1 = NoKey
          /\ ByBoss([state EXCEPT !.approver1 = approver])
       \/ /\ state.approver1 # NoKey
          /\ state.approver2 = NoKey
          /\ ByBoss([state EXCEPT !.approver2 = approver])
    /\ UNCHANGED proposer

add_approver(approver) ==
    /\ approver # NoKey
    /\ approver \notin {state.approver1, state.approver2}
    /\ \/ /\ state.approver1 = NoKey
          /\ ByBoss([state EXCEPT !.approver1 = approver])
       \/ /\ state.approver1 # NoKey
          /\ state.approver2 = NoKey
          /\ ByBoss([state EXCEPT !.approver2 = approver])
    /\ UNCHANGED proposer

remove_approver(approver) ==
    /\ approver # NoKey
    /\ \/ /\ state.approver1 = approver
          /\ ByBoss([state EXCEPT !.approver1 = NoKey])
       \/ /\ state.approver1 # approver
          /\ state.approver2 = approver
          /\ ByBoss([state EXCEPT !.approver2 = NoKey])
    /\ UNCHANGED proposer
-----------------------------------------------------------------------------
(***************************************************************************)
(* Configuration                                                           *)
(***************************************************************************)
set_redemption_admin(new_redemption_admin) ==
    /\ new_redemption_admin # state.redemption_admin
    /\ ByBoss([state EXCEPT !.redemption_admin = new_redemption_admin])
    /\ UNCHANGED proposer

configure_max_supply(max_supply) ==
    /\ ByBoss([state EXCEPT !.max_supply = max_supply])
    /\ UNCHANGED proposer

set_onyc_mint(mint) ==
    /\ ByBoss([state EXCEPT !.onyc_mint = mint])
    /\ UNCHANGED proposer
-----------------------------------------------------------------------------
Lifecycle == (\E k \in Keys, m \in OnycMints : initialize(k, m)) \/ close_state

HandOver ==
    \/ \E k \in ProposableKeys : propose_boss(k)
    \/ \E k \in Keys : accept_boss(k)

AdminStep ==
    \/ \E k \in AdminKeys : add_admin(k)
    \/ \E k \in AdminKeys \cup {NoKey} : remove_admin(k)
    \/ clear_admins

KillSwitch == \E k \in Keys, enable \in BOOLEAN : set_kill_switch(k, enable)

ApproverStep == \E k \in ApproverKeys : add_approver(k) \/ remove_approver(k)

Configure ==
    \/ \E k \in RedemptionKeys : set_redemption_admin(k)
    \/ \E cap \in SupplyCaps : configure_max_supply(cap)
    \/ \E m \in OnycMints : set_onyc_mint(m)

Next ==
    \/ Lifecycle
    \/ HandOver
    \/ AdminStep
    \/ KillSwitch
    \/ ApproverStep
    \/ Configure

Spec == Init /\ [][Next]_vars
-----------------------------------------------------------------------------
(***************************************************************************)
(* Properties                                                              *)
(***************************************************************************)

\* A pending proposal is always the current boss's own: one that an earlier
\* boss signed does not survive the hand-over (accept_boss clears it) nor the
\* account (close_state), so nobody takes over on a former boss's word.
ProposalIsCurrentBosses ==
    state.proposed_boss # NoKey => proposer = state.boss

\* remove_admin takes the role away: it clears one slot, which is enough only
\* if add_admin never listed the key twice.
RemovedAdminIsGone ==
    [][ \A k \in AdminKeys : remove_admin(k) => k \notin Admins' ]_vars

\* remove_approver takes the role away: verify_offer_approval accepts either
\* slot, so a key listed in both would keep approving after its removal.
RemovedApproverIsGone ==
    [][ \A k \in ApproverKeys : remove_approver(k) => k \notin Approvers' ]_vars
=============================================================================
