---------------------------- MODULE AccountResolver ----------------------------
(***************************************************************************)
(* What Anchor's client does, external, between the accounts that a script *)
(* gives to an instruction and those that its IDL requires: signers that   *)
(* are not given become the local wallet, accounts with a fixed address    *)
(* are known, and program-derived or related accounts follow once all the  *)
(* accounts they are derived from are known.  Building fails if an account *)
(* is still missing.                                                       *)
(***************************************************************************)
EXTENDS Integers

\* An instruction's accounts: its signers, those of a fixed address, those that
\* follow from others, and those that only the caller can name.
Ix(signers, plain, fixed, derived) ==
    [signers |-> signers, plain |-> plain, fixed |-> fixed, derived |-> derived]

Required(ix) == ix.signers \cup ix.plain \cup ix.fixed \cup DOMAIN ix.derived

\* One round: what follows from the accounts known so far.
Follow(ix, known) ==
    known \cup {a \in DOMAIN ix.derived : ix.derived[a] \subseteq known}

\* The client stops when a round finds nothing; no chain of derivations here is
\* longer than four.
Resolved(ix, given) ==
    LET known1 == Follow(ix, given \cup ix.signers \cup ix.fixed)
        known2 == Follow(ix, known1)
        known3 == Follow(ix, known2)
    IN  Follow(ix, known3)

Resolves(ix, given) == Required(ix) \subseteq Resolved(ix, given)
=============================================================================
