---------------------------- MODULE CctpInterface ----------------------------
(***************************************************************************)
(* The instructions of Circle's Solana programs that the bridge scripts    *)
(* call: their accounts as the interfaces under cctp_v1/types and          *)
(* cctp_v2/types list them, and the accounts that the scripts name.        *)
(* Anchor's client adds the accounts of an event by itself.                *)
(***************************************************************************)
EXTENDS AccountResolver

EventAccounts == {"eventAuthority", "program"}

TokenPrograms ==
    {"messageTransmitterProgram", "tokenMessengerMinterProgram", "tokenProgram", "systemProgram"}

Burners == {"owner", "eventRentPayer", "messageSentEventData"}

Messengers == {"messageTransmitter", "tokenMessenger", "remoteTokenMessenger", "tokenMinter"}

\* Version 1: the caller names every account.
depositForBurnV1 ==
    Ix(Burners,
       Messengers \cup TokenPrograms
           \cup {"senderAuthorityPda", "burnTokenAccount", "localToken", "burnTokenMint"},
       EventAccounts, <<>>)

receiveMessageV1 ==
    Ix({"payer", "caller"},
       {"authorityPda", "messageTransmitter", "usedNonces", "receiver", "systemProgram"},
       EventAccounts, <<>>)

\* Version 2 derives some, and asks for the account that would deny the owner.
depositForBurnV2 ==
    Ix(Burners, Messengers \cup {"burnTokenAccount", "burnTokenMint"},
       TokenPrograms \cup EventAccounts,
       [owner |-> {"burnTokenAccount"}, senderAuthorityPda |-> {},
        denylistAccount |-> {"owner"}, localToken |-> {"burnTokenMint"}])

depositForBurnWithHook == depositForBurnV2

receiveMessageV2 ==
    Ix({"payer", "caller"}, {"messageTransmitter", "usedNonce", "receiver"},
       EventAccounts \cup {"systemProgram"}, [authorityPda |-> {"receiver"}])

reclaimEventAccountV2 ==
    Ix({"payee"}, {"messageTransmitter", "messageSentEventData"}, {}, <<>>)

-----------------------------------------------------------------------------
(* What the scripts name.                                                  *)

\* Mutant: the token minter is forgotten.
BurnAccounts_few ==
    Burners \cup TokenPrograms \cup (Messengers \ {"tokenMinter"})
        \cup {"senderAuthorityPda", "burnTokenAccount", "localToken", "burnTokenMint"}

\* burnUSDC, depositForBurnSol and depositForBurnSolWithHook name the same.
BurnAccounts ==
    Burners \cup TokenPrograms \cup Messengers
        \cup {"senderAuthorityPda", "burnTokenAccount", "localToken", "burnTokenMint"}

MintAccounts(version) ==
    {"payer", "caller", "authorityPda", "messageTransmitter", "receiver", "systemProgram",
     IF version = 1 THEN "usedNonces" ELSE "usedNonce"}

ReclaimAccounts == {"payee", "messageTransmitter", "messageSentEventData"}

\* The client can complete the instruction of this version of the protocol.
BurnResolves(version, hook) ==
    Resolves(IF version = 1 THEN depositForBurnV1
             ELSE IF hook THEN depositForBurnWithHook ELSE depositForBurnV2, BurnAccounts)

MintResolves(version) ==
    Resolves(IF version = 1 THEN receiveMessageV1 ELSE receiveMessageV2, MintAccounts(version))

ReclaimResolves == Resolves(reclaimEventAccountV2, ReclaimAccounts)
=============================================================================
