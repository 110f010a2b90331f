------------------------------ MODULE MCBridge ------------------------------
(***************************************************************************)
(* Two runs, every pair of scripts; amounts that one wallet can pay once,  *)
(* but not for both runs.                                                  *)
(***************************************************************************)
EXTENDS Bridge, FiniteSetsExt

CONSTANTS r1, r2

Transfer(kind, amount, maxFee) == [kind |-> kind, amount |-> amount, maxFee |-> maxFee]

JobList ==
    <<Transfer("eth2solV1", 2, 0), Transfer("sol2ethV1", 2, 0),
      Transfer("evm2sol", 2, 1), Transfer("evm2sol", 1, 0), Transfer("sol2evm", 2, 1)>>

\* The runs are alike, so one of (a, b) and (b, a) is enough.
MCAssignments ==
    {[r \in {r1, r2} |-> JobList[IF r = r1 THEN Min(p) ELSE Max(p)]] :
        p \in {q \in SUBSET (1..5) : Cardinality(q) \in 1..2}}
=============================================================================
