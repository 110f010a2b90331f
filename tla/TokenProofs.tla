---------------------------- MODULE TokenProofs ----------------------------
(***************************************************************************)
(* Facts about the token operations, for any owners and mints: what each   *)
(* does to the balances and the supply, that a sequence of operations      *)
(* succeeds only if each of them did, and that no operation creates or     *)
(* destroys tokens unaccounted for; the bounds of fees; and what Exchange  *)
(* and Redemption take over from Governance and MintAuthority, which both  *)
(* compose.  The proofs of Exchange and Redemption rest on them.           *)
(***************************************************************************)
EXTENDS MintAuthority, TokenMath, FiniteSetTheorems, TLAPS

\* A ledger in the middle of an instruction, some of whose operations may have
\* failed: the amounts are integers.
RawLedger ==
    [ok : BOOLEAN, bal : [Owners -> [Mints -> Int]], supply : [Mints -> Int]]

\* The supply of a mint is what its holders hold together.
Conserved(l) == \A m \in Mints : l.supply[m] = Total(Holdings(l.bal, m))

\* A ledger between two instructions.
Sound(l) == l \in Ledger /\ l.ok /\ Conserved(l)

\* A ledger in the middle of an instruction is sound unless one of the
\* operations failed.
Consistent(l) == l \in RawLedger /\ (l.ok => Sound(l))

\* The amount, where the condition holds.
Part(cond, amount) == IF cond THEN amount ELSE 0
-----------------------------------------------------------------------------
\* The tokens of finitely many holders are finitely many.
LEMMA UnitsFinite ==
  ASSUME NEW D, IsFiniteSet(D), NEW f \in [D -> Nat]
  PROVE  IsFiniteSet(Units(f)) /\ Total(f) \in Nat
<1> DEFINE Piece == [x \in D |-> {x} \X (1..f[x])]
           Pieces == {{x} \X (1..f[x]) : x \in DOMAIN f}
<1>1. Piece \in Surjection(D, Pieces)
  BY DEF Surjection
<1>2. IsFiniteSet(Pieces)
  BY <1>1, FS_Surjection
<1>3. ASSUME NEW T \in Pieces PROVE IsFiniteSet(T)
  <2>1. PICK x \in D : T = {x} \X (1..f[x])
    OBVIOUS
  <2>2. IsFiniteSet({x})
    BY FS_Singleton, Zenon
  <2>3. 1 \in Int /\ f[x] \in Int
    OBVIOUS
  <2>4. IsFiniteSet(1..f[x])
    BY <2>3, FS_Interval, Zenon
  <2> QED BY <2>1, <2>2, <2>4, FS_Product, Zenon
<1>4. IsFiniteSet(UNION Pieces)
  BY <1>2, <1>3, FS_UNION
<1>5. IsFiniteSet(Units(f))
  BY <1>4 DEF Units
<1> QED BY <1>5, FS_CardinalityType DEF Total

\* Nobody holds nothing.
LEMMA TotalEmpty == ASSUME NEW f \in [{} -> Nat] PROVE Total(f) = 0
<1>1. Units(f) = {}
  BY DEF Units
<1> QED BY <1>1, FS_EmptySet DEF Total

\* The total of all holders is that of one of them and that of the others.
LEMMA TotalSplit ==
  ASSUME NEW D, IsFiniteSet(D), NEW f \in [D -> Nat], NEW x \in D,
         NEW g \in [D \ {x} -> Nat], \A y \in D \ {x} : g[y] = f[y]
  PROVE  Total(f) = Total(g) + f[x]
<1> DEFINE own == {x} \X (1..f[x])
<1>1. f[x] \in Nat
  OBVIOUS
<1>2. IsFiniteSet(own) /\ Cardinality(own) = f[x]
  <2>1. IsFiniteSet({x}) /\ Cardinality({x}) = 1
    BY FS_Singleton, Zenon
  <2>2. IsFiniteSet(1..f[x]) /\ Cardinality(1..f[x]) = f[x]
    BY <1>1, FS_Interval
  <2>3. IsFiniteSet(own) /\ Cardinality(own) = Cardinality({x}) * Cardinality(1..f[x])
    BY <2>1, <2>2, FS_Product, Zenon
  <2> HIDE DEF own
  <2> QED BY <1>1, <2>1, <2>2, <2>3
<1>3. IsFiniteSet(D \ {x})
  BY FS_RemoveElement
<1>4. IsFiniteSet(Units(g)) /\ Total(g) \in Nat
  BY <1>3, UnitsFinite
<1>5. Units(f) = Units(g) \cup own
  <2>1. ASSUME NEW u \in Units(f) PROVE u \in Units(g) \cup own
    <3>1. PICK y \in D : u \in {y} \X (1..f[y])
      BY DEF Units
    <3>2. CASE y = x
      BY <3>1, <3>2
    <3>3. CASE y # x
      BY <3>1, <3>3 DEF Units
    <3> QED BY <3>2, <3>3
  <2>2. Units(g) \subseteq Units(f) /\ own \subseteq Units(f)
    BY DEF Units
  <2> QED BY <2>1, <2>2
<1>6. Units(g) \cap own = {}
  BY DEF Units
<1> HIDE DEF own
<1>7. Cardinality(Units(g) \cup own)
        = Cardinality(Units(g)) + Cardinality(own) - Cardinality({})
  BY <1>2, <1>4, <1>6, FS_Union
<1> QED BY <1>1, <1>2, <1>4, <1>5, <1>7, FS_EmptySet DEF Total

\* A change of one holding changes the total by as much.
LEMMA TotalUpdate ==
  ASSUME NEW D, IsFiniteSet(D), NEW f \in [D -> Nat], NEW g \in [D -> Nat],
         NEW x \in D, \A y \in D \ {x} : g[y] = f[y]
  PROVE  Total(g) = Total(f) - f[x] + g[x]
<1> DEFINE rest == [y \in D \ {x} |-> f[y]]
<1>1. rest \in [D \ {x} -> Nat]
  OBVIOUS
<1>2. IsFiniteSet(D \ {x})
  BY FS_RemoveElement
<1>3. Total(f) = Total(rest) + f[x]
  BY <1>1, TotalSplit
<1>4. Total(g) = Total(rest) + g[x]
  BY <1>1, TotalSplit
<1>5. Total(rest) \in Nat /\ f[x] \in Nat /\ g[x] \in Nat
  BY <1>1, <1>2, UnitsFinite
<1> QED BY <1>3, <1>4, <1>5
-----------------------------------------------------------------------------
(***************************************************************************)
(* What an operation makes of a ledger l                                   *)
(***************************************************************************)
\* A holder may transfer to himself.
Moved(l, n, mint, from, to, amount) ==
    /\ n \in RawLedger
    /\ n.ok <=> l.ok /\ l.bal[from][mint] >= amount
    /\ n.supply = l.supply
    /\ \A o \in Owners, m \in Mints :
         n.bal[o][m] = l.bal[o][m] + Part(m = mint /\ o = to, amount)
                                   - Part(m = mint /\ o = from, amount)

Burnt(l, n, mint, from, amount) ==
    /\ n \in RawLedger
    /\ n.ok <=> l.ok /\ l.bal[from][mint] >= amount
    /\ \A m \in Mints : n.supply[m] = l.supply[m] - Part(m = mint, amount)
    /\ \A o \in Owners, m \in Mints :
         n.bal[o][m] = l.bal[o][m] - Part(m = mint /\ o = from, amount)

Minted(l, n, mint, to, amount, cap) ==
    /\ n \in RawLedger
    /\ n.ok <=> /\ l.ok
                /\ l.supply[mint] + amount <= U64_MAX
                /\ cap > 0 => l.supply[mint] + amount <= cap
    /\ \A m \in Mints : n.supply[m] = l.supply[m] + Part(m = mint, amount)
    /\ \A o \in Owners, m \in Mints :
         n.bal[o][m] = l.bal[o][m] + Part(m = mint /\ o = to, amount)

\* What a transfer does.
LEMMA TransferSpec ==
  ASSUME NEW l \in RawLedger, NEW mint \in Mints, NEW from \in Owners,
         NEW to \in Owners, NEW amount \in Int
  PROVE  Moved(l, transfer_tokens(l, mint, from, to, amount), mint, from, to, amount)
<1> DEFINE b1 == [l.bal EXCEPT ![from][mint] = @ - amount]
           b2 == [b1 EXCEPT ![to][mint] = @ + amount]
           ok == l.ok /\ l.bal[from][mint] >= amount
           n == transfer_tokens(l, mint, from, to, amount)
<1>1. /\ l.bal \in [Owners -> [Mints -> Int]]
      /\ l.supply \in [Mints -> Int]
      /\ l.ok \in BOOLEAN
  BY DEF RawLedger
<1>2. /\ b1 \in [Owners -> [Mints -> Int]]
      /\ \A o \in Owners, m \in Mints :
           b1[o][m] = l.bal[o][m] - Part(m = mint /\ o = from, amount)
  BY <1>1 DEF Part
<1>3. n = [ok |-> ok, bal |-> b2, supply |-> l.supply]
  BY <1>1 DEF transfer_tokens, RawLedger
<1> HIDE DEF b1
<1>4. /\ b2 \in [Owners -> [Mints -> Int]]
      /\ \A o \in Owners, m \in Mints :
           b2[o][m] = b1[o][m] + Part(m = mint /\ o = to, amount)
  BY <1>2 DEF Part
<1>5. \A o \in Owners, m \in Mints :
        /\ l.bal[o][m] \in Int
        /\ Part(m = mint /\ o = from, amount) \in Int
        /\ Part(m = mint /\ o = to, amount) \in Int
  BY <1>1 DEF Part
<1> HIDE DEF b2
<1>6. \A o \in Owners, m \in Mints :
        b2[o][m] = l.bal[o][m] + Part(m = mint /\ o = to, amount)
                               - Part(m = mint /\ o = from, amount)
  BY <1>2, <1>4, <1>5
<1>7. ok \in BOOLEAN
  OBVIOUS
<1> HIDE DEF ok
<1>8. n \in RawLedger /\ n.ok = ok /\ n.supply = l.supply /\ n.bal = b2
  BY <1>1, <1>3, <1>4, <1>7 DEF RawLedger
<1> HIDE DEF n
<1>9. Moved(l, n, mint, from, to, amount)
  BY <1>6, <1>8 DEF ok, Moved
<1> QED BY <1>9 DEF n

\* What a burn does.
LEMMA BurnSpec ==
  ASSUME NEW l \in RawLedger, NEW mint \in Mints, NEW from \in Owners,
         NEW amount \in Int
  PROVE  Burnt(l, burn_tokens(l, mint, from, amount), mint, from, amount)
<1> DEFINE b1 == [l.bal EXCEPT ![from][mint] = @ - amount]
           s1 == [l.supply EXCEPT ![mint] = @ - amount]
           ok == l.ok /\ l.bal[from][mint] >= amount
           n == burn_tokens(l, mint, from, amount)
<1>1. /\ l.bal \in [Owners -> [Mints -> Int]]
      /\ l.supply \in [Mints -> Int]
      /\ l.ok \in BOOLEAN
  BY DEF RawLedger
<1>2. /\ b1 \in [Owners -> [Mints -> Int]]
      /\ \A o \in Owners, m \in Mints :
           b1[o][m] = l.bal[o][m] - Part(m = mint /\ o = from, amount)
  BY <1>1 DEF Part
<1>3. /\ s1 \in [Mints -> Int]
      /\ \A m \in Mints : s1[m] = l.supply[m] - Part(m = mint, amount)
  BY <1>1 DEF Part
<1>4. n = [ok |-> ok, bal |-> b1, supply |-> s1]
  BY <1>1 DEF burn_tokens, RawLedger
<1>5. ok \in BOOLEAN
  OBVIOUS
<1> HIDE DEF ok, b1, s1
<1>6. n \in RawLedger /\ n.ok = ok /\ n.supply = s1 /\ n.bal = b1
  BY <1>1, <1>2, <1>3, <1>4, <1>5 DEF RawLedger
<1> HIDE DEF n
<1>7. Burnt(l, n, mint, from, amount)
  BY <1>2, <1>3, <1>6 DEF ok, Burnt
<1> QED BY <1>7 DEF n

\* What a mint does.
LEMMA MintSpec ==
  ASSUME NEW l \in RawLedger, NEW mint \in Mints, NEW to \in Owners,
         NEW amount \in Int, NEW cap \in Int
  PROVE  Minted(l, mint_tokens(l, mint, to, amount, cap), mint, to, amount, cap)
<1> DEFINE b1 == [l.bal EXCEPT ![to][mint] = @ + amount]
           s1 == [l.supply EXCEPT ![mint] = @ + amount]
           ok == /\ l.ok
                 /\ l.supply[mint] + amount <= U64_MAX
                 /\ cap > 0 => l.supply[mint] + amount <= cap
           n == mint_tokens(l, mint, to, amount, cap)
<1>1. /\ l.bal \in [Owners -> [Mints -> Int]]
      /\ l.supply \in [Mints -> Int]
      /\ l.ok \in BOOLEAN
  BY DEF RawLedger
<1>2. /\ b1 \in [Owners -> [Mints -> Int]]
      /\ \A o \in Owners, m \in Mints :
           b1[o][m] = l.bal[o][m] + Part(m = mint /\ o = to, amount)
  BY <1>1 DEF Part
<1>3. /\ s1 \in [Mints -> Int]
      /\ \A m \in Mints : s1[m] = l.supply[m] + Part(m = mint, amount)
  BY <1>1 DEF Part
<1>4. n = [ok |-> ok, bal |-> b1, supply |-> s1]
  BY <1>1 DEF mint_tokens, RawLedger
<1>5. ok \in BOOLEAN
  OBVIOUS
<1> HIDE DEF ok, b1, s1
<1>6. n \in RawLedger /\ n.ok = ok /\ n.supply = s1 /\ n.bal = b1
  BY <1>1, <1>2, <1>3, <1>4, <1>5 DEF RawLedger
<1> HIDE DEF n
<1>7. Minted(l, n, mint, to, amount, cap)
  BY <1>2, <1>3, <1>6 DEF ok, Minted
<1> QED BY <1>7 DEF n
-----------------------------------------------------------------------------
\* Two ledgers that agree everywhere are the same.
LEMMA LedgerEqual ==
  ASSUME NEW a \in RawLedger, NEW b \in RawLedger, a.ok <=> b.ok,
         \A m \in Mints : a.supply[m] = b.supply[m],
         \A o \in Owners, m \in Mints : a.bal[o][m] = b.bal[o][m]
  PROVE  a = b
<1>1. PICK aok \in BOOLEAN, abal \in [Owners -> [Mints -> Int]],
           asup \in [Mints -> Int] : a = [ok |-> aok, bal |-> abal, supply |-> asup]
  BY DEF RawLedger
<1>2. PICK bok \in BOOLEAN, bbal \in [Owners -> [Mints -> Int]],
           bsup \in [Mints -> Int] : b = [ok |-> bok, bal |-> bbal, supply |-> bsup]
  BY DEF RawLedger
<1>3. aok = bok /\ asup = bsup
  BY <1>1, <1>2
<1>4. abal = bbal
  <2>1. \A o \in Owners : abal[o] = bbal[o]
    BY <1>1, <1>2
  <2> QED BY <2>1
<1> QED BY <1>1, <1>2, <1>3, <1>4

\* A ledger is sound if nobody's balance is negative and its supplies are
\* what is held.
LEMMA SoundFromRaw ==
  ASSUME NEW l \in RawLedger, l.ok,
         \A o \in Owners, m \in Mints : l.bal[o][m] >= 0,
         Conserved(l)
  PROVE  Sound(l)
<1>1. PICK ok \in BOOLEAN, bal \in [Owners -> [Mints -> Int]],
           supply \in [Mints -> Int] : l = [ok |-> ok, bal |-> bal, supply |-> supply]
  BY DEF RawLedger
<1>2. bal \in [Owners -> [Mints -> Nat]]
  <2>1. \A o \in Owners : bal[o] \in [Mints -> Nat]
    BY <1>1
  <2> QED BY <2>1
<1>3. \A m \in Mints : supply[m] \in Nat
  <2> TAKE m \in Mints
  <2>1. Holdings(bal, m) \in [Owners -> Nat]
    BY <1>2 DEF Holdings
  <2>2. Total(Holdings(bal, m)) \in Nat
    BY <2>1, UnitsFinite, LedgerAssumption
  <2> QED BY <1>1, <2>2 DEF Conserved
<1> QED BY <1>1, <1>2, <1>3 DEF Sound, Ledger

\* A sound ledger is a ledger in the middle of an instruction.
LEMMA SoundIsConsistent ==
  ASSUME NEW l, Sound(l)
  PROVE  /\ Consistent(l)
         /\ l.bal \in [Owners -> [Mints -> Nat]]
         /\ \A o \in Owners, m \in Mints : l.bal[o][m] \in Nat
         /\ \A m \in Mints : l.supply[m] \in Nat
BY DEF Sound, Consistent, Ledger, RawLedger

\* One holder's change changes the supply by as much.
LEMMA HoldingUpdate ==
  ASSUME NEW f \in [Owners -> Nat], NEW g \in [Owners -> Nat], NEW x \in Owners,
         \A y \in Owners \ {x} : g[y] = f[y]
  PROVE  Total(g) = Total(f) - f[x] + g[x]
<1>1. IsFiniteSet(Owners)
  BY LedgerAssumption
<1> QED BY <1>1, TotalUpdate

\* A transfer conserves the supply, and fails rather than overdraw.
LEMMA TransferConsistent ==
  ASSUME NEW l, Consistent(l), NEW mint \in Mints, NEW from \in Owners,
         NEW to \in Owners, NEW amount \in Nat
  PROVE  Consistent(transfer_tokens(l, mint, from, to, amount))
<1> DEFINE n == transfer_tokens(l, mint, from, to, amount)
<1>1. /\ l \in RawLedger
      /\ n \in RawLedger
      /\ n.ok <=> l.ok /\ l.bal[from][mint] >= amount
      /\ n.supply = l.supply
      /\ \A o \in Owners, m \in Mints :
           n.bal[o][m] = l.bal[o][m] + Part(m = mint /\ o = to, amount)
                                     - Part(m = mint /\ o = from, amount)
  <2>1. l \in RawLedger /\ amount \in Int
    BY DEF Consistent
  <2>2. Moved(l, n, mint, from, to, amount)
    BY <2>1, TransferSpec
  <2> QED BY <2>1, <2>2 DEF Moved
<1> HIDE DEF n
<1>2. ASSUME n.ok PROVE Sound(n)
  <2>1. /\ Sound(l) /\ l.bal[from][mint] >= amount
        /\ \A o \in Owners, m \in Mints : l.bal[o][m] \in Nat
        /\ \A m \in Mints : l.supply[m] = Total(Holdings(l.bal, m))
    BY <1>1, <1>2, SoundIsConsistent DEF Consistent, Sound, Conserved
  <2>2. \A o \in Owners, m \in Mints : n.bal[o][m] \in Nat
    BY <1>1, <2>1 DEF Part
  <2>3. ASSUME NEW m \in Mints PROVE Total(Holdings(n.bal, m)) = Total(Holdings(l.bal, m))
    <3> DEFINE f == Holdings(l.bal, m)
               g == [o \in Owners |-> l.bal[o][m] - Part(m = mint /\ o = from, amount)]
               h == Holdings(n.bal, m)
    <3>1. /\ f \in [Owners -> Nat] /\ g \in [Owners -> Nat] /\ h \in [Owners -> Nat]
          /\ \A o \in Owners : f[o] = l.bal[o][m] /\ h[o] = n.bal[o][m]
      BY <2>1, <2>2 DEF Holdings, Part
    <3>2. /\ \A o \in Owners \ {from} : g[o] = f[o]
          /\ \A o \in Owners \ {to} : h[o] = g[o]
          /\ g[from] = f[from] - Part(m = mint, amount)
          /\ h[to] = g[to] + Part(m = mint, amount)
          /\ Part(m = mint, amount) \in Nat
      BY <1>1, <2>1, <3>1 DEF Part
    <3> HIDE DEF f, g, h
    <3>3. Total(g) = Total(f) - f[from] + g[from]
      BY <3>1, <3>2, HoldingUpdate
    <3>4. Total(h) = Total(g) - g[to] + h[to]
      BY <3>1, <3>2, HoldingUpdate
    <3>5. Total(f) \in Nat /\ Total(g) \in Nat /\ Total(h) \in Nat
      BY <3>1, UnitsFinite, LedgerAssumption
    <3>6. /\ f[from] \in Nat /\ g[from] \in Nat /\ g[to] \in Nat /\ h[to] \in Nat
      BY <3>1
    <3>7. Total(h) = Total(f)
      BY <3>2, <3>3, <3>4, <3>5, <3>6
    <3> QED BY <3>7 DEF f, h
  <2>4. Conserved(n)
    BY <1>1, <2>1, <2>3 DEF Conserved
  <2> QED BY <1>1, <1>2, <2>2, <2>4, SoundFromRaw
<1> QED BY <1>1, <1>2 DEF Consistent, n

\* A burn takes from the supply what it takes from the holder.
LEMMA BurnConsistent ==
  ASSUME NEW l, Consistent(l), NEW mint \in Mints, NEW from \in Owners,
         NEW amount \in Nat
  PROVE  Consistent(burn_tokens(l, mint, from, amount))
<1> DEFINE n == burn_tokens(l, mint, from, amount)
<1>1. /\ l \in RawLedger
      /\ n \in RawLedger
      /\ n.ok <=> l.ok /\ l.bal[from][mint] >= amount
      /\ \A m \in Mints : n.supply[m] = l.supply[m] - Part(m = mint, amount)
      /\ \A o \in Owners, m \in Mints :
           n.bal[o][m] = l.bal[o][m] - Part(m = mint /\ o = from, amount)
  <2>1. l \in RawLedger /\ amount \in Int
    BY DEF Consistent
  <2>2. Burnt(l, n, mint, from, amount)
    BY <2>1, BurnSpec
  <2> QED BY <2>1, <2>2 DEF Burnt
<1> HIDE DEF n
<1>2. ASSUME n.ok PROVE Sound(n)
  <2>1. /\ Sound(l) /\ l.bal[from][mint] >= amount
        /\ \A o \in Owners, m \in Mints : l.bal[o][m] \in Nat
        /\ \A m \in Mints : l.supply[m] = Total(Holdings(l.bal, m))
    BY <1>1, <1>2, SoundIsConsistent DEF Consistent, Sound, Conserved
  <2>2. \A o \in Owners, m \in Mints : n.bal[o][m] \in Nat
    BY <1>1, <2>1 DEF Part
  <2>3. ASSUME NEW m \in Mints
        PROVE  Total(Holdings(n.bal, m)) = Total(Holdings(l.bal, m)) - Part(m = mint, amount)
    <3> DEFINE f == Holdings(l.bal, m)
               g == Holdings(n.bal, m)
    <3>1. /\ f \in [Owners -> Nat] /\ g \in [Owners -> Nat]
          /\ \A o \in Owners : f[o] = l.bal[o][m] /\ g[o] = n.bal[o][m]
      BY <2>1, <2>2 DEF Holdings
    <3>2. /\ \A o \in Owners \ {from} : g[o] = f[o]
          /\ g[from] = f[from] - Part(m = mint, amount)
          /\ Part(m = mint, amount) \in Nat
      BY <1>1, <2>1, <3>1 DEF Part
    <3> HIDE DEF f, g
    <3>3. Total(g) = Total(f) - f[from] + g[from]
      BY <3>1, <3>2, HoldingUpdate
    <3>4. /\ Total(f) \in Nat /\ Total(g) \in Nat
          /\ f[from] \in Nat /\ g[from] \in Nat
      BY <3>1, UnitsFinite, LedgerAssumption
    <3>5. Total(g) = Total(f) - Part(m = mint, amount)
      BY <3>2, <3>3, <3>4
    <3> QED BY <3>5 DEF f, g
  <2>4. Conserved(n)
    BY <1>1, <2>1, <2>3 DEF Conserved
  <2> QED BY <1>1, <1>2, <2>2, <2>4, SoundFromRaw
<1> QED BY <1>1, <1>2 DEF Consistent, n

\* A mint adds to the supply what it gives the holder, up to the cap.
LEMMA MintConsistent ==
  ASSUME NEW l, Consistent(l), NEW mint \in Mints, NEW to \in Owners,
         NEW amount \in Nat, NEW cap \in Nat
  PROVE  Consistent(mint_tokens(l, mint, to, amount, cap))
<1> DEFINE n == mint_tokens(l, mint, to, amount, cap)
<1>1. /\ l \in RawLedger
      /\ n \in RawLedger
      /\ n.ok <=> (/\ l.ok
                   /\ l.supply[mint] + amount <= U64_MAX
                   /\ cap > 0 => l.supply[mint] + amount <= cap)
      /\ \A m \in Mints : n.supply[m] = l.supply[m] + Part(m = mint, amount)
      /\ \A o \in Owners, m \in Mints :
           n.bal[o][m] = l.bal[o][m] + Part(m = mint /\ o = to, amount)
  <2>1. l \in RawLedger /\ amount \in Int /\ cap \in Int
    BY DEF Consistent
  <2>2. Minted(l, n, mint, to, amount, cap)
    BY <2>1, MintSpec
  <2> QED BY <2>1, <2>2 DEF Minted
<1> HIDE DEF n
<1>2. ASSUME n.ok PROVE Sound(n)
  <2>1. /\ Sound(l)
        /\ \A o \in Owners, m \in Mints : l.bal[o][m] \in Nat
        /\ \A m \in Mints : l.supply[m] = Total(Holdings(l.bal, m))
    BY <1>1, <1>2, SoundIsConsistent DEF Consistent, Sound, Conserved
  <2>2. \A o \in Owners, m \in Mints : n.bal[o][m] \in Nat
    BY <1>1, <2>1 DEF Part
  <2>3. ASSUME NEW m \in Mints
        PROVE  Total(Holdings(n.bal, m)) = Total(Holdings(l.bal, m)) + Part(m = mint, amount)
    <3> DEFINE f == Holdings(l.bal, m)
               g == Holdings(n.bal, m)
    <3>1. /\ f \in [Owners -> Nat] /\ g \in [Owners -> Nat]
          /\ \A o \in Owners : f[o] = l.bal[o][m] /\ g[o] = n.bal[o][m]
      BY <2>1, <2>2 DEF Holdings
    <3>2. /\ \A o \in Owners \ {to} : g[o] = f[o]
          /\ g[to] = f[to] + Part(m = mint, amount)
          /\ Part(m = mint, amount) \in Nat
      BY <1>1, <2>1, <3>1 DEF Part
    <3> HIDE DEF f, g
    <3>3. Total(g) = Total(f) - f[to] + g[to]
      BY <3>1, <3>2, HoldingUpdate
    <3>4. /\ Total(f) \in Nat /\ Total(g) \in Nat
          /\ f[to] \in Nat /\ g[to] \in Nat
      BY <3>1, UnitsFinite, LedgerAssumption
    <3>5. Total(g) = Total(f) + Part(m = mint, amount)
      BY <3>2, <3>3, <3>4
    <3> QED BY <3>5 DEF f, g
  <2>4. Conserved(n)
    BY <1>1, <2>1, <2>3 DEF Conserved
  <2> QED BY <1>1, <1>2, <2>2, <2>4, SoundFromRaw
<1> QED BY <1>1, <1>2 DEF Consistent, n
-----------------------------------------------------------------------------
(***************************************************************************)
(* The State account, whose theorems are those of GovernanceProofs         *)
(***************************************************************************)
GP == INSTANCE GovernanceProofs

\* The assumptions of Governance hold of the constants it is composed with.
LEMMA GovernanceConstantsHold == GP!GovernanceConstants
  BY AuthorityAssumption DEF Gov!GovernanceConstants, GP!GovernanceConstants

\* The instructions of Governance composed here are those of its theorems.
LEMMA GovernanceSteps == Gov!Next => GP!Next
<1>1. Gov!Lifecycle => GP!Lifecycle
  BY DEF
    Gov!Lifecycle, GP!Lifecycle, Gov!initialize, GP!initialize,
    Gov!close_state, GP!close_state, Gov!Initialized, GP!Initialized,
    Gov!MayInitialize, GP!MayInitialize, Gov!ZeroState, GP!ZeroState,
    Gov!AdminSlots, GP!AdminSlots
<1>2. Gov!HandOver => GP!HandOver
  BY DEF
    Gov!HandOver, GP!HandOver, Gov!propose_boss, GP!propose_boss,
    Gov!accept_boss, GP!accept_boss, Gov!Initialized, GP!Initialized,
    Gov!ByBoss, GP!ByBoss
<1>3. Gov!AdminStep => GP!AdminStep
  BY DEF
    Gov!AdminStep, GP!AdminStep, Gov!add_admin, GP!add_admin,
    Gov!remove_admin, GP!remove_admin, Gov!clear_admins, GP!clear_admins,
    Gov!Initialized, GP!Initialized, Gov!ByBoss, GP!ByBoss, Gov!AdminSlots,
    GP!AdminSlots, Gov!FirstSlot, GP!FirstSlot, Gov!HasSlot, GP!HasSlot
<1>4. Gov!KillSwitch => GP!KillSwitch
  BY DEF
    Gov!KillSwitch, GP!KillSwitch, Gov!set_kill_switch, GP!set_kill_switch,
    Gov!Initialized, GP!Initialized, Gov!AdminSlots, GP!AdminSlots,
    Gov!HasSlot, GP!HasSlot
<1>5. Gov!ApproverStep => GP!ApproverStep
  BY DEF
    Gov!ApproverStep, GP!ApproverStep, Gov!add_approver, GP!add_approver,
    Gov!remove_approver, GP!remove_approver, Gov!Initialized, GP!Initialized,
    Gov!ByBoss, GP!ByBoss
<1>6. Gov!Configure => GP!Configure
  BY DEF
    Gov!Configure, GP!Configure, Gov!set_redemption_admin,
    GP!set_redemption_admin, Gov!configure_max_supply,
    GP!configure_max_supply, Gov!set_onyc_mint, GP!set_onyc_mint,
    Gov!Initialized, GP!Initialized, Gov!ByBoss, GP!ByBoss
<1> QED BY <1>1, <1>2, <1>3, <1>4, <1>5, <1>6 DEF Gov!Next, GP!Next

\* The State account starts in a state of its inductive invariant.
LEMMA GovernanceInit == Gov!Init => GP!Inv
<1>1. Gov!Init => GP!Init
  BY DEF Gov!Init, GP!Init, Gov!ZeroState, GP!ZeroState, Gov!AdminSlots, GP!AdminSlots
<1> QED BY <1>1, GP!InvInit, GovernanceConstantsHold

\* Every step preserves it: no other component writes the account.
LEMMA GovernanceNext == GP!Inv /\ (Gov!Next \/ UNCHANGED govVars) => GP!Inv'
<1>1. UNCHANGED govVars => UNCHANGED GP!vars
  BY DEF govVars, GP!vars
<1> QED BY <1>1, GovernanceSteps, GP!InvNext, GovernanceConstantsHold

\* What the other components read of the account.
LEMMA GovernanceTyped ==
  ASSUME GP!Inv
  PROVE  /\ Gov!TypeOK
         /\ state.boss \in Keys \cup {NoKey}
         /\ state.boss # NoKey => state.boss \in Owners
         /\ state.boss # NoKey => state.onyc_mint \in Mints
         /\ state.max_supply \in Nat
         /\ state.is_killed \in BOOLEAN
<1>1. GP!TypeOK /\ GP!MintDeclared
  BY DEF GP!Inv
<1>2. Gov!TypeOK
  BY <1>1 DEF GP!TypeOK, Gov!TypeOK, GP!KeyOrNone, Gov!KeyOrNone, GP!AdminSlots,
              Gov!AdminSlots
<1>3. /\ state.boss \in Keys \cup {NoKey}
      /\ state.max_supply \in SupplyCaps \cup {0}
      /\ state.is_killed \in BOOLEAN
  BY <1>1 DEF GP!TypeOK, GP!KeyOrNone
<1>4. SupplyCaps \subseteq Nat /\ Keys \subseteq Owners /\ OnycMints \subseteq Mints
  BY AuthorityAssumption DEF Gov!GovernanceConstants
<1>5. state.boss # NoKey => state.boss \in Owners /\ state.onyc_mint \in Mints
  BY <1>1, <1>3, <1>4 DEF GP!MintDeclared
<1>6. state.max_supply \in Nat
  <2>1. CASE state.max_supply \in SupplyCaps
    BY <1>4, <2>1
  <2>2. CASE state.max_supply = 0
    BY <2>2
  <2> QED BY <1>3, <2>1, <2>2
<1> QED BY <1>2, <1>3, <1>5, <1>6, Zenon
-----------------------------------------------------------------------------
AuthorityTyped == authority \in [Mints -> Keys \cup {ProgramAuthority}]

\* The ledger with which every history starts is sound.
LEMMA InitialSound == Sound(InitialLedger)
<1>1. \A m \in Mints : Total(Holdings(InitialBalance, m)) \in Nat
  BY UnitsFinite, LedgerAssumption DEF Holdings
<1> QED BY <1>1, LedgerAssumption DEF InitialLedger, Sound, Ledger, Conserved

\* The boss's instructions about mints keep the ledger sound.
LEMMA MintAuthorityPreserves ==
  ASSUME GP!Inv, Sound(ledger), AuthorityTyped, MintAuthorityStep
  PROVE  Sound(ledger') /\ AuthorityTyped'
<1>1. CASE \E mint \in Mints : transfer_mint_authority_to_boss(mint)
  BY <1>1, GovernanceTyped DEF transfer_mint_authority_to_boss, AuthorityTyped
<1>2. CASE \E mint \in Mints : transfer_mint_authority_to_program(mint)
  BY <1>2 DEF transfer_mint_authority_to_program, AuthorityTyped
<1>3. ASSUME NEW amount \in MintAmounts, mint_to(amount)
      PROVE  Sound(ledger') /\ AuthorityTyped'
  <2> DEFINE n == mint_tokens(ledger, state.onyc_mint, state.boss, amount, state.max_supply)
  <2>1. n.ok /\ ledger' = n /\ authority' = authority /\ state.boss # NoKey
    BY <1>3 DEF mint_to, Commit
  <2>2. amount \in Nat
    BY AuthorityAssumption, WidthAssumption DEF U64, U64_MAX
  <2>3. Consistent(n)
    BY <2>1, <2>2, GovernanceTyped, SoundIsConsistent, MintConsistent
  <2> QED BY <2>1, <2>3 DEF Consistent, AuthorityTyped
<1> QED BY <1>1, <1>2, <1>3 DEF MintAuthorityStep

\* They change nobody's balance but the boss's, and no supply beyond the cap.
LEMMA MintAuthorityEffect ==
  ASSUME GP!Inv, Sound(ledger), MintAuthorityStep
  PROVE  /\ \A m \in Mints :
              /\ ledger'.supply[m] > ledger.supply[m] /\ state.max_supply > 0
                   => ledger'.supply[m] <= state.max_supply
              /\ \A o \in Owners \ {state.boss} : ledger'.bal[o][m] = ledger.bal[o][m]
<1>0. /\ Consistent(ledger) /\ ledger \in RawLedger
      /\ \A o \in Owners, m \in Mints : ledger.bal[o][m] \in Int
      /\ \A m \in Mints : ledger.supply[m] \in Int
  BY SoundIsConsistent DEF Consistent, RawLedger
<1>1. CASE UNCHANGED ledger
  BY <1>0, <1>1
<1>2. ASSUME NEW amount \in MintAmounts, mint_to(amount), NEW m \in Mints
      PROVE  /\ ledger'.supply[m] > ledger.supply[m] /\ state.max_supply > 0
                  => ledger'.supply[m] <= state.max_supply
             /\ \A o \in Owners \ {state.boss} : ledger'.bal[o][m] = ledger.bal[o][m]
  <2> DEFINE n == mint_tokens(ledger, state.onyc_mint, state.boss, amount, state.max_supply)
  <2>1. n.ok /\ ledger' = n /\ state.boss # NoKey
    BY <1>2 DEF mint_to, Commit
  <2>2. /\ amount \in Int /\ state.max_supply \in Int
        /\ state.onyc_mint \in Mints /\ state.boss \in Owners
    BY <2>1, GovernanceTyped, AuthorityAssumption, WidthAssumption DEF U64, U64_MAX
  <2>3. Minted(ledger, n, state.onyc_mint, state.boss, amount, state.max_supply)
    BY <1>0, <2>2, MintSpec
  <2> HIDE DEF n
  <2> QED BY <1>0, <2>1, <2>2, <2>3 DEF Minted, Part
<1> QED BY <1>1, <1>2 DEF MintAuthorityStep, transfer_mint_authority_to_boss,
                          transfer_mint_authority_to_program
-----------------------------------------------------------------------------
\* A fee and what is left of the amount are amounts again.
LEMMA FeesSplit ==
  ASSUME NEW amount \in Nat, NEW bps \in Nat, calculate_fees(amount, bps).ok
  PROVE  /\ calculate_fees(amount, bps).fee \in Nat
         /\ calculate_fees(amount, bps).net \in Nat
         /\ calculate_fees(amount, bps).net + calculate_fees(amount, bps).fee = amount
<1> DEFINE x == amount * bps + (MAX_BASIS_POINTS - 1)
           fee == x \div MAX_BASIS_POINTS
<1>1. x \in Nat
  <2>1. amount * bps \in Nat
    OBVIOUS
  <2> QED BY <2>1, MathAssumption
<1>2. fee \in Nat
  <2> HIDE DEF x
  <2> QED BY <1>1, MathAssumption
<1>3. /\ calculate_fees(amount, bps).fee = fee
      /\ calculate_fees(amount, bps).net = amount - fee
  BY DEF calculate_fees
<1>4. calculate_fees(amount, bps).ok <=> fee <= amount
  BY Zenon DEF calculate_fees
<1> HIDE DEF fee
<1> QED BY <1>2, <1>3, <1>4

\* What a trade and what a redemption pay out is an amount.
LEMMA OutTyped ==
  ASSUME NEW amount \in Nat, NEW price \in Nat \ {0},
         NEW scale_in \in Nat \ {0}, NEW scale_out \in Nat \ {0}
  PROVE  /\ calculate_token_out_amount(amount, price, scale_in, scale_out) \in Nat \cup {Err}
         /\ redemption_out_amount(amount, price, scale_in, scale_out) \in Nat \cup {Err}
<1>1. \A n \in Nat, d \in Nat \ {0} : n \div d \in Nat
  OBVIOUS
<1>2. /\ amount * (scale_out * PRICE_SCALE) \in Nat
      /\ price * scale_in \in Nat \ {0}
      /\ amount * price * scale_out \in Nat
      /\ scale_in * PRICE_SCALE \in Nat \ {0}
  BY MathAssumption
<1>3. /\ (amount * (scale_out * PRICE_SCALE)) \div (price * scale_in) \in Nat
      /\ (amount * price * scale_out) \div (scale_in * PRICE_SCALE) \in Nat
  BY <1>1, <1>2
<1> QED BY <1>3, Zenon DEF calculate_token_out_amount, redemption_out_amount
=============================================================================
