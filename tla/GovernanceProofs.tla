-------------------------- MODULE GovernanceProofs --------------------------
(***************************************************************************)
(* Theorems about Governance for any set of keys and any number of slots.  *)
(* The inductive invariant adds to the type invariant and the property of  *)
(* the pending proposal that no key is listed twice as an admin or as an   *)
(* approver: revoking a role clears one slot only, so the role is gone     *)
(* afterwards exactly because of that.  While there is a boss the ONyc     *)
(* mint is declared, which the proofs about mint_to need.                  *)
(***************************************************************************)
EXTENDS Governance, TLAPS, WellFoundedInduction

\* No key fills two admin slots.
AdminsDistinct ==
    \A i, j \in AdminSlots :
        state.admins[i] # NoKey /\ state.admins[i] = state.admins[j] => i = j

\* No key fills both approver slots.
ApproversDistinct ==
    state.approver1 # NoKey => state.approver1 # state.approver2

\* While there is a boss there is an ONyc mint.
MintDeclared == state.boss # NoKey => state.onyc_mint \in OnycMints

Inv ==
    /\ TypeOK
    /\ ProposalIsCurrentBosses
    /\ AdminsDistinct
    /\ ApproversDistinct
    /\ MintDeclared

StateType ==
    [boss : KeyOrNone, proposed_boss : KeyOrNone,
     is_killed : BOOLEAN, onyc_mint : OnycMints \cup {NoKey},
     admins : [AdminSlots -> KeyOrNone],
     approver1 : KeyOrNone, approver2 : KeyOrNone,
     max_supply : SupplyCaps \cup {0}, redemption_admin : KeyOrNone]
-----------------------------------------------------------------------------
USE DEF GovernanceConstants

\* The loops over the admin array find the first slot that holds the key.
LEMMA FirstSlotSpec ==
  ASSUME NEW key, HasSlot(key)
  PROVE  FirstSlot(key) \in AdminSlots /\ state.admins[FirstSlot(key)] = key
<1> DEFINE S == {i \in AdminSlots : state.admins[i] = key}
<1>1. S \subseteq Nat /\ S # {}
  BY GovernanceAssumption DEF HasSlot, AdminSlots
<1>2. PICK i \in S : \A j \in S : i <= j
  <2> DEFINE less == {p \in Nat \X Nat : p[1] < p[2]}
  <2>1. IsWellFoundedOn(less, Nat)
    BY NatLessThanWellFounded, Zenon DEF OpToRel
  <2> HIDE DEF S
  <2>2. PICK i \in S : \A j \in S : ~ (<<j, i>> \in less)
    <3> HIDE DEF less
    <3> QED BY <1>1, <2>1, WFMin
  <2>3. \A j \in S : ~ (j < i)
    BY <1>1, <2>2
  <2> QED BY <1>1, <2>3
<1>3. \E k \in AdminSlots :
        /\ state.admins[k] = key
        /\ \A j \in AdminSlots : state.admins[j] = key => k <= j
  BY <1>2
<1> QED BY <1>3 DEF FirstSlot

\* A zeroed account has the type of the account and lists nobody.
LEMMA ZeroStateSpec ==
  /\ ZeroState \in StateType
  /\ ZeroState.boss = NoKey
  /\ ZeroState.proposed_boss = NoKey
  /\ ZeroState.approver1 = NoKey
  /\ \A i \in AdminSlots : ZeroState.admins[i] = NoKey
BY DEF ZeroState, StateType, KeyOrNone

\* The initial state satisfies the inductive invariant.
LEMMA InvInit == Init => Inv
BY ZeroStateSpec DEF Init, Inv, TypeOK, StateType, ProposalIsCurrentBosses,
                     AdminsDistinct, ApproversDistinct, MintDeclared, KeyOrNone

\* Every step preserves the inductive invariant.
LEMMA InvNext == Inv /\ [Next]_vars => Inv'
<1> SUFFICES ASSUME Inv, [Next]_vars PROVE Inv'
  OBVIOUS
<1> USE DEF Inv
<1>0. state \in StateType /\ proposer \in KeyOrNone
  BY DEF TypeOK, StateType
<1>T. ASSUME state' \in StateType, proposer' \in KeyOrNone
      PROVE  TypeOK'
  BY <1>T DEF TypeOK, StateType
<1>1. CASE Lifecycle
  <2>1. ASSUME NEW k \in Keys, NEW m \in OnycMints, initialize(k, m) PROVE Inv'
    <3>1. /\ state' \in StateType /\ proposer' = NoKey
          /\ state'.proposed_boss = NoKey
          /\ state'.approver1 = NoKey
          /\ state'.onyc_mint \in OnycMints
          /\ state'.admins = ZeroState.admins
      BY <2>1 DEF initialize, ZeroState, StateType, KeyOrNone
    <3> QED BY <1>0, <1>T, <3>1, ZeroStateSpec
            DEF ProposalIsCurrentBosses, AdminsDistinct, ApproversDistinct,
                MintDeclared, KeyOrNone
  <2>2. ASSUME close_state PROVE Inv'
    <3>1. state' = ZeroState /\ proposer' = NoKey
      BY <2>2 DEF close_state
    <3> QED BY <1>0, <1>T, <3>1, ZeroStateSpec
            DEF ProposalIsCurrentBosses, AdminsDistinct, ApproversDistinct,
                MintDeclared, KeyOrNone
  <2> QED BY <1>1, <2>1, <2>2 DEF Lifecycle
<1>2. CASE HandOver
  <2>1. PICK k \in Keys : propose_boss(k) \/ accept_boss(k)
    BY <1>2, GovernanceAssumption DEF HandOver
  <2>2. /\ state' \in StateType /\ proposer' \in KeyOrNone
        /\ state'.proposed_boss # NoKey => proposer' = state'.boss
        /\ state'.approver1 = state.approver1
        /\ state'.approver2 = state.approver2
        /\ state'.admins = state.admins
        /\ state.boss # NoKey /\ state'.onyc_mint = state.onyc_mint
    BY <1>0, <2>1 DEF propose_boss, accept_boss, ByBoss, Initialized, StateType,
                      KeyOrNone
  <2> QED BY <1>0, <1>T, <2>2
          DEF ProposalIsCurrentBosses, AdminsDistinct, ApproversDistinct, MintDeclared
<1>3. CASE AdminStep
  <2> DEFINE Kept ==
        /\ state' \in StateType /\ proposer' = proposer
        /\ state'.boss = state.boss
        /\ state'.onyc_mint = state.onyc_mint
        /\ state'.proposed_boss = state.proposed_boss
        /\ state'.approver1 = state.approver1
        /\ state'.approver2 = state.approver2
  <2>1. ASSUME Kept, AdminsDistinct' PROVE Inv'
    BY <1>0, <1>T, <2>1 DEF ProposalIsCurrentBosses, ApproversDistinct, MintDeclared
  <2>2. ASSUME NEW k \in AdminKeys, add_admin(k) PROVE Inv'
    <3>1. FirstSlot(NoKey) \in AdminSlots
      BY <2>2, FirstSlotSpec DEF add_admin
    <3>2. /\ state' = [state EXCEPT !.admins[FirstSlot(NoKey)] = k]
          /\ proposer' = proposer
          /\ k \in Keys
      BY <2>2, GovernanceAssumption DEF add_admin, ByBoss
    <3>3. Kept
      BY <1>0, <3>1, <3>2 DEF StateType, KeyOrNone
    <3>4. state'.admins = [state.admins EXCEPT ![FirstSlot(NoKey)] = k]
      BY <1>0, <3>2 DEF StateType
    <3>5. \A i \in AdminSlots : state.admins[i] # k
      BY <2>2 DEF add_admin, HasSlot
    <3>6. AdminsDistinct'
      BY <1>0, <3>1, <3>4, <3>5 DEF AdminsDistinct, StateType
    <3> QED BY <2>1, <3>3, <3>6
  <2>3. ASSUME NEW k \in AdminKeys \cup {NoKey}, remove_admin(k) PROVE Inv'
    <3>1. FirstSlot(k) \in AdminSlots
      BY <2>3, FirstSlotSpec DEF remove_admin
    <3>2. /\ state' = [state EXCEPT !.admins[FirstSlot(k)] = NoKey]
          /\ proposer' = proposer
      BY <2>3 DEF remove_admin, ByBoss
    <3>3. Kept
      BY <1>0, <3>1, <3>2 DEF StateType, KeyOrNone
    <3>4. state'.admins = [state.admins EXCEPT ![FirstSlot(k)] = NoKey]
      BY <1>0, <3>2 DEF StateType
    <3>5. AdminsDistinct'
      BY <1>0, <3>1, <3>4 DEF AdminsDistinct, StateType
    <3> QED BY <2>1, <3>3, <3>5
  <2>4. ASSUME clear_admins PROVE Inv'
    <3>1. /\ Kept
          /\ state'.admins = [i \in AdminSlots |-> NoKey]
      BY <1>0, <2>4 DEF clear_admins, ByBoss, StateType, KeyOrNone
    <3>2. AdminsDistinct'
      BY <3>1 DEF AdminsDistinct
    <3> QED BY <2>1, <3>1, <3>2
  <2> QED BY <1>3, <2>2, <2>3, <2>4 DEF AdminStep
<1>4. CASE ApproverStep
  <2>1. PICK k \in ApproverKeys : add_approver(k) \/ remove_approver(k)
    BY <1>4 DEF ApproverStep
  <2>2. k \in Keys
    BY GovernanceAssumption
  <2>3. /\ state' \in StateType /\ proposer' = proposer
        /\ state'.boss = state.boss
        /\ state'.onyc_mint = state.onyc_mint
        /\ state'.proposed_boss = state.proposed_boss
        /\ state'.admins = state.admins
    BY <1>0, <2>1, <2>2 DEF add_approver, remove_approver, ByBoss, StateType, KeyOrNone
  <2>4. ApproversDistinct'
    BY <1>0, <2>1, <2>2 DEF add_approver, remove_approver, ByBoss, StateType,
                            ApproversDistinct
  <2> QED BY <1>0, <1>T, <2>3, <2>4
          DEF ProposalIsCurrentBosses, AdminsDistinct, MintDeclared
<1>5. CASE KillSwitch \/ Configure \/ UNCHANGED vars
  <2>1. /\ state' \in StateType /\ proposer' = proposer
        /\ state'.boss = state.boss
        /\ state'.onyc_mint \in OnycMints \cup {state.onyc_mint}
        /\ state'.proposed_boss = state.proposed_boss
        /\ state'.approver1 = state.approver1
        /\ state'.approver2 = state.approver2
        /\ state'.admins = state.admins
    <3>1. CASE KillSwitch
      BY <1>0, <3>1 DEF KillSwitch, set_kill_switch, StateType
    <3>2. CASE Configure
      BY <1>0, <3>2, GovernanceAssumption
         DEF Configure, set_redemption_admin, configure_max_supply,
             set_onyc_mint, ByBoss, StateType, KeyOrNone
    <3>3. CASE UNCHANGED vars
      BY <1>0, <3>3 DEF vars
    <3> QED BY <1>5, <3>1, <3>2, <3>3
  <2> QED BY <1>0, <1>T, <2>1
          DEF ProposalIsCurrentBosses, AdminsDistinct, ApproversDistinct, MintDeclared
<1> QED BY <1>1, <1>2, <1>3, <1>4, <1>5 DEF Next
-----------------------------------------------------------------------------
\* The type invariant holds in every reachable state.
THEOREM TypeCorrect == Spec => []TypeOK
<1>1. Inv => TypeOK
  BY DEF Inv
<1> QED BY <1>1, InvInit, InvNext, PTL DEF Spec

\* A pending hand-over is always the current boss's own proposal.
THEOREM ProposalStaysCurrent == Spec => []ProposalIsCurrentBosses
<1>1. Inv => ProposalIsCurrentBosses
  BY DEF Inv
<1> QED BY <1>1, InvInit, InvNext, PTL DEF Spec

\* remove_admin leaves the key without the admin role.
THEOREM RemoveAdminRevokes == Spec => RemovedAdminIsGone
<1>1. ASSUME Inv, NEW k \in AdminKeys, remove_admin(k) PROVE k \notin Admins'
  <2>1. FirstSlot(k) \in AdminSlots /\ state.admins[FirstSlot(k)] = k
    BY <1>1, FirstSlotSpec DEF remove_admin
  <2>2. /\ state \in StateType /\ k # NoKey
        /\ state'.admins = [state.admins EXCEPT ![FirstSlot(k)] = NoKey]
    BY <1>1, GovernanceAssumption DEF remove_admin, ByBoss, Inv, TypeOK, StateType
  <2>3. \A i \in AdminSlots : state'.admins[i] # k
    BY <1>1, <2>1, <2>2 DEF Inv, AdminsDistinct, StateType
  <2> QED BY <2>3 DEF Admins
<1>2. Inv /\ [Next]_vars
        => [\A k \in AdminKeys : remove_admin(k) => k \notin Admins']_vars
  BY <1>1
<1> QED BY <1>2, InvInit, InvNext, PTL DEF Spec, RemovedAdminIsGone

\* remove_approver leaves the key without the approver role.
THEOREM RemoveApproverRevokes == Spec => RemovedApproverIsGone
<1>1. ASSUME Inv, NEW k \in ApproverKeys, remove_approver(k) PROVE k \notin Approvers'
  <2>1. state \in StateType
    BY <1>1 DEF Inv, TypeOK, StateType
  <2> QED BY <1>1, <2>1 DEF remove_approver, ByBoss, Inv, ApproversDistinct,
                            StateType, Approvers
<1>2. Inv /\ [Next]_vars
        => [\A k \in ApproverKeys : remove_approver(k) => k \notin Approvers']_vars
  BY <1>1
<1> QED BY <1>2, InvInit, InvNext, PTL DEF Spec, RemovedApproverIsGone
=============================================================================
