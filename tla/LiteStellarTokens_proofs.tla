---------------------- MODULE LiteStellarTokens_proofs ----------------------
(***************************************************************************)
(* Proof that the facade's calls conserve tokens, for every finite set of  *)
(* accounts and of assets.  On top of FacadeInv: the balances add up to    *)
(* what was minted in the ledger and in every snapshot, since a return     *)
(* brings both back.                                                       *)
(***************************************************************************)
EXTENDS LiteStellar_proofs, FoldTheorems

\* TokensConserved, of any ledger.
Conserved(l) == \A t \in Assets : SumOf(Balances(l, t)) = l.minted[t]
Balanced(l) == LedgerOK(l) /\ Conserved(l)

TokensInv ==
  /\ Conserved(ledger)
  /\ \A id \in DOMAIN snapshots : Conserved(snapshots[id])

Holding(l, t) == {a \in Accounts : t \in Trustlines(l, a)}
-----------------------------------------------------------------------------
LEMMA BalancesTyped ==
  ASSUME NEW l \in Ledgers, NEW t \in Assets
  PROVE  /\ IsFiniteSet(Holding(l, t)) /\ Balances(l, t) \in [Holding(l, t) -> Int]
         /\ \A a \in Accounts : a \in Holding(l, t) <=> l.trustlines[a][t] # None
         /\ \A a \in Holding(l, t) : Balances(l, t)[a] = l.trustlines[a][t].balance
<1>1. Holding(l, t) \subseteq Accounts
  BY DEF Holding
<1>2. IsFiniteSet(Holding(l, t))
  BY <1>1, FacadeAssumption, FS_Subset
<1>3. \A a \in Accounts : a \in Holding(l, t) <=> l.trustlines[a][t] # None
  BY DEF Holding, Trustlines
<1>4. ASSUME NEW a \in Holding(l, t)
      PROVE  l.trustlines[a][t].balance \in Int
  <2>1. l.trustlines \in [Accounts -> [Assets -> TrustlineEntries \cup {None}]]
    BY DEF Ledgers
  <2>2. l.trustlines[a][t] \in TrustlineEntries
    BY <1>1, <1>3, <1>4, <2>1
  <2> QED BY <2>2, Bounds DEF TrustlineEntries
<1>5. Balances(l, t) = [a \in Holding(l, t) |-> l.trustlines[a][t].balance]
  BY DEF Balances, Holding
<1> QED BY <1>2, <1>3, <1>4, <1>5

\* A sum of which one element is new or changed.
Differ(D, f, a, E, g) ==
  /\ IsFiniteSet(D) /\ E = D \cup {a} /\ f \in [D -> Int] /\ g \in [E -> Int]
  /\ \A b \in D : b # a => g[b] = f[b]

LEMMA OneElement ==
  ASSUME NEW D, NEW f, NEW a, NEW E, NEW g, Differ(D, f, a, E, g)
  PROVE  /\ SumOf(g) = SumOf(f) + (g[a] - IF a \in D THEN f[a] ELSE 0)
         /\ SumOf(f) \in Int
<1> USE DEF Differ
<1>1. SumOf(f) \in Int /\ g[a] \in Int
  BY SumInt
<1>2. CASE a \notin D
  <2>1. SumOf(g) = SumOf(f) + g[a]
    BY <1>2, SumWith
  <2> QED BY <1>1, <1>2, <2>1
<1>3. CASE a \in D
  <2>1. E = D
    BY <1>3
  <2>2. SumOf(g) = SumOf(f) + (g[a] - f[a])
    BY <1>3, <2>1, SumChanged
  <2> QED BY <1>1, <1>3, <2>2
<1> QED BY <1>2, <1>3

\* One trustline is written: the sum changes by what it holds more than it did.
Writes(l, a, t, entry, m) == m.trustlines = [l.trustlines EXCEPT ![a][t] = entry]
HeldBefore(l, a, t) == IF l.trustlines[a][t] = None THEN 0 ELSE l.trustlines[a][t].balance

LEMMA OneTrustline ==
  ASSUME NEW l \in Ledgers, NEW m \in Ledgers, NEW a \in Accounts, NEW t \in Assets,
         NEW entry \in TrustlineEntries, Writes(l, a, t, entry, m)
  PROVE  /\ SumOf(Balances(m, t)) = SumOf(Balances(l, t)) + (entry.balance - HeldBefore(l, a, t))
         /\ \A u \in Assets : u # t => Balances(m, u) = Balances(l, u)
         /\ SumOf(Balances(l, t)) \in Int /\ entry.balance \in Int
<1> DEFINE D == Holding(l, t)
           E == Holding(m, t)
           f == Balances(l, t)
           g == Balances(m, t)
<1>1. l.trustlines \in [Accounts -> [Assets -> TrustlineEntries \cup {None}]]
  BY DEF Ledgers
<1>2. \A b \in Accounts, u \in Assets :
        m.trustlines[b][u] = IF b = a /\ u = t THEN entry ELSE l.trustlines[b][u]
  BY <1>1 DEF Writes
<1>3. entry # None /\ entry.balance \in Int
  BY EntriesAreNotNone, Bounds DEF TrustlineEntries
<1>4. ASSUME NEW u \in Assets, u # t
      PROVE  Balances(m, u) = Balances(l, u)
  <2>1. \A b \in Accounts : m.trustlines[b][u] = l.trustlines[b][u]
    BY <1>2, <1>4
  <2>2. Holding(m, u) = Holding(l, u) /\ Holding(l, u) \subseteq Accounts
    BY <2>1 DEF Holding, Trustlines
  <2>3. /\ Balances(m, u) = [b \in Holding(m, u) |-> m.trustlines[b][u].balance]
        /\ Balances(l, u) = [b \in Holding(l, u) |-> l.trustlines[b][u].balance]
    BY DEF Balances, Holding
  <2> QED BY <2>1, <2>2, <2>3
<1>5. /\ IsFiniteSet(D) /\ f \in [D -> Int] /\ IsFiniteSet(E) /\ g \in [E -> Int]
      /\ D \subseteq Accounts /\ E \subseteq Accounts
      /\ \A b \in D : f[b] = l.trustlines[b][t].balance
      /\ \A b \in E : g[b] = m.trustlines[b][t].balance
      /\ \A b \in Accounts : b \in D <=> l.trustlines[b][t] # None
      /\ \A b \in Accounts : b \in E <=> m.trustlines[b][t] # None
  BY BalancesTyped DEF Holding
<1> HIDE DEF D, E, f, g
<1>6. E = D \cup {a}
  BY <1>2, <1>3, <1>5
<1>7. /\ g[a] = entry.balance
      /\ \A b \in D : b # a => g[b] = f[b]
  BY <1>2, <1>5, <1>6
<1>8. HeldBefore(l, a, t) = IF a \in D THEN f[a] ELSE 0
  BY <1>5 DEF HeldBefore
<1>9. SumOf(g) = SumOf(f) + (g[a] - HeldBefore(l, a, t)) /\ SumOf(f) \in Int
  <2>1. Differ(D, f, a, E, g)
    BY <1>5, <1>6, <1>7 DEF Differ
  <2> QED BY <1>8, <2>1, OneElement
<1> QED BY <1>3, <1>4, <1>7, <1>9 DEF f, g

\* What leaves trustlines and mintings alone.
LEMMA SameTokens ==
  ASSUME NEW l, Balanced(l), NEW m, LedgerOK(m), m.trustlines = l.trustlines, m.minted = l.minted
  PROVE  Balanced(m)
<1>1. \A t \in Assets : Balances(m, t) = Balances(l, t)
  BY DEF Balances, Trustlines
<1> QED BY <1>1 DEF Balanced, Conserved

LEMMA FundedBalanced ==
  ASSUME NEW l, Balanced(l), NEW a \in Accounts
  PROVE  Balanced(Funded(l, a))
<1>1. LedgerOK(Funded(l, a)) /\ l \in Ledgers
  BY FundedQuiet DEF Balanced, Quiet, LedgerOK
<1>2. Funded(l, a).trustlines = l.trustlines /\ Funded(l, a).minted = l.minted
  BY <1>1 DEF Funded, Ledgers
<1> QED BY <1>1, <1>2, SameTokens

LEMMA SimulatedBalanced ==
  ASSUME NEW l, Balanced(l)
  PROVE  Balanced(Simulated(l))
<1>1. LedgerOK(Simulated(l)) /\ l \in Ledgers
  BY SimulatedQuiet DEF Balanced, Quiet, LedgerOK
<1>2. Simulated(l).trustlines = l.trustlines /\ Simulated(l).minted = l.minted
  BY <1>1 DEF Simulated, Ledgers
<1> QED BY <1>1, <1>2, SameTokens

LEMMA AssetDeployedBalanced ==
  ASSUME NEW l, Balanced(l), NEW t \in Assets
  PROVE  Balanced([l EXCEPT !.assets = @ \cup {t}])
<1> DEFINE m == [l EXCEPT !.assets = @ \cup {t}]
<1>1. LedgerOK(m) /\ l \in Ledgers
  BY AssetDeployedQuiet DEF Balanced, Quiet, LedgerOK
<1>2. m.trustlines = l.trustlines /\ m.minted = l.minted
  BY <1>1 DEF Ledgers
<1> HIDE DEF m
<1>3. Balanced(m)
  BY <1>1, <1>2, SameTokens
<1> QED BY <1>3 DEF m

LEMMA DeployedBalanced ==
  ASSUME NEW l, Balanced(l), NEW contract \in Contracts
  PROVE  Balanced(Deployed(l, contract))
<1>1. LedgerOK(Deployed(l, contract)) /\ l \in Ledgers
  BY ContractDeployed DEF Balanced, LedgerOK
<1>2. /\ Deployed(l, contract).trustlines = l.trustlines
      /\ Deployed(l, contract).minted = l.minted
  BY <1>1 DEF Deployed, Ledgers
<1> QED BY <1>1, <1>2, SameTokens

LEMMA EnforcedBalanced ==
  ASSUME NEW l, Balanced(l), NEW auth \in Authorizations
  PROVE  Balanced(EnforceAndSend(l, auth).ledger)
<1> DEFINE m == EnforceAndSend(l, auth).ledger
<1>1. Balanced(Simulated(l)) /\ LedgerOK(l)
  BY SimulatedBalanced DEF Balanced
<1>2. m = Simulated(l) \/ LedgerOK(m)
  BY <1>1, EnforceCases DEF UseOf
<1>3. m \in {Simulated(l), Used(Simulated(l), auth)}
  BY DEF EnforceAndSend, Accepted, EnforcedReads, SentFootprint
<1> HIDE DEF m
<1>4. m = Simulated(l) => Balanced(m)
  BY <1>1
<1>5. ASSUME LedgerOK(m), m = Used(Simulated(l), auth)
      PROVE  Balanced(m)
  <2> DEFINE n == Simulated(l)
  <2>1. n \in Ledgers /\ Balanced(n)
    BY <1>1 DEF Balanced, LedgerOK
  <2>2. m = Used(n, auth)
    BY <1>5
  <2> HIDE DEF n
  <2>3. m.trustlines = n.trustlines /\ m.minted = n.minted
    BY <2>1, <2>2 DEF Used, Ledgers
  <2> QED BY <1>5, <2>1, <2>3, SameTokens
<1>6. Balanced(m)
  BY <1>1, <1>2, <1>3, <1>4, <1>5
<1> QED BY <1>6 DEF m
-----------------------------------------------------------------------------
(***************************************************************************)
(* What writes trustlines.                                                 *)
(***************************************************************************)
LEMMA EstablishedBalanced ==
  ASSUME NEW l, Balanced(l), NEW a \in Accounts, NEW t \in Assets, NEW authorized \in BOOLEAN
  PROVE  Balanced(EstablishTrustline(l, a, t, authorized))
<1> DEFINE old == l.trustlines[a][t]
           entry == [balance |-> IF old = None THEN 0 ELSE old.balance, authorized |-> authorized]
           written == [l EXCEPT !.trustlines[a][t] = entry]
           m == EstablishTrustline(l, a, t, authorized)
<1>1. l \in Ledgers /\ LedgerOK(l) /\ Conserved(l)
  BY DEF Balanced, LedgerOK
<1>2. LedgerOK(m) /\ m \in Ledgers
  BY <1>1, EstablishQuiet DEF Quiet, LedgerOK
<1>3. old \in TrustlineEntries \cup {None}
  BY <1>1 DEF Ledgers
<1>4. entry \in TrustlineEntries
  BY <1>3, FacadeAssumption DEF TrustlineEntries
<1>5. entry.balance = HeldBefore(l, a, t)
  BY DEF HeldBefore
<1>6. \/ m = written
      \/ m = [written EXCEPT !.uncounted[a] = @ \cup {t}]
      \/ m = [written EXCEPT !.accounts[a] = @ + 1]
  BY DEF EstablishTrustline
<1> HIDE DEF m, entry
<1>7. /\ written.trustlines = [l.trustlines EXCEPT ![a][t] = entry]
      /\ written.minted = l.minted /\ written \in Ledgers
  BY <1>1, <1>4 DEF Ledgers
<1> HIDE DEF written
<1>8. m.trustlines = [l.trustlines EXCEPT ![a][t] = entry] /\ m.minted = l.minted
  BY <1>6, <1>7 DEF Ledgers
<1>9. /\ SumOf(Balances(m, t)) = SumOf(Balances(l, t)) + (entry.balance - HeldBefore(l, a, t))
      /\ \A u \in Assets : u # t => Balances(m, u) = Balances(l, u)
      /\ SumOf(Balances(l, t)) \in Int /\ entry.balance \in Int
  BY <1>1, <1>2, <1>4, <1>8, OneTrustline DEF Writes
<1>10. SumOf(Balances(m, t)) = SumOf(Balances(l, t))
  BY <1>5, <1>9
<1>11. Conserved(m)
  BY <1>1, <1>8, <1>9, <1>10 DEF Conserved
<1> QED BY <1>2, <1>11 DEF Balanced, m

LEMMA ReadyBalanced ==
  ASSUME NEW l, Balanced(l), NEW a \in Accounts, NEW t \in Assets
  PROVE  Balanced(Simulated(EstablishTrustlineIfMissing(l, a, t)))
<1>1. Balanced(EstablishTrustlineIfMissing(l, a, t))
  BY EstablishedBalanced DEF EstablishTrustlineIfMissing
<1> QED BY <1>1, SimulatedBalanced

LEMMA CreditedSums ==
  ASSUME NEW l, LedgerOK(l), NEW a \in Accounts, NEW t \in Assets, NEW amount \in Int,
         l.trustlines[a][t] # None, l.trustlines[a][t].balance + amount \in 0 .. LIMIT
  PROVE  /\ SumOf(Balances(Credited(l, a, t, amount), t)) = SumOf(Balances(l, t)) + amount
         /\ \A u \in Assets : u # t => Balances(Credited(l, a, t, amount), u) = Balances(l, u)
         /\ Credited(l, a, t, amount).minted = l.minted
         /\ LedgerOK(Credited(l, a, t, amount))
         /\ SumOf(Balances(l, t)) \in Int
<1> DEFINE old == l.trustlines[a][t]
           entry == [balance |-> old.balance + amount, authorized |-> old.authorized]
           m == Credited(l, a, t, amount)
<1>1. l.trustlines \in [Accounts -> [Assets -> TrustlineEntries \cup {None}]] /\ l \in Ledgers
  BY DEF LedgerOK, Ledgers
<1>2. old \in TrustlineEntries /\ entry \in TrustlineEntries
  BY <1>1 DEF TrustlineEntries
<1>3. old.balance \in Int /\ entry.balance = old.balance + amount
  BY <1>2, Bounds DEF TrustlineEntries
<1>4. [old EXCEPT !.balance = old.balance + amount] = entry
  BY <1>2 DEF TrustlineEntries
<1>5. m = [l EXCEPT !.trustlines[a][t] = [old EXCEPT !.balance = old.balance + amount]]
  BY DEF Credited
<1>6. m = [l EXCEPT !.trustlines[a][t] = entry]
  BY <1>4, <1>5
<1>7. LedgerOK(m) /\ m \in Ledgers
  BY CreditedQuiet DEF Quiet, LedgerOK
<1> HIDE DEF m, entry
<1>8. m.trustlines = [l.trustlines EXCEPT ![a][t] = entry] /\ m.minted = l.minted
  BY <1>1, <1>6 DEF Ledgers
<1>9. /\ SumOf(Balances(m, t)) = SumOf(Balances(l, t)) + (entry.balance - HeldBefore(l, a, t))
      /\ \A u \in Assets : u # t => Balances(m, u) = Balances(l, u)
      /\ SumOf(Balances(l, t)) \in Int
  BY <1>1, <1>2, <1>7, <1>8, OneTrustline DEF Writes
<1>10. HeldBefore(l, a, t) = old.balance
  BY DEF HeldBefore
<1>11. SumOf(Balances(m, t)) = SumOf(Balances(l, t)) + amount
  BY <1>3, <1>9, <1>10
<1> QED BY <1>7, <1>8, <1>9, <1>11 DEF m

LEMMA MintedBalanced ==
  ASSUME NEW l, Balanced(l), NEW a \in Accounts, NEW t \in Assets, NEW amount \in Nat,
         NEW m \in Minted(l, a, t, amount)
  PROVE  Balanced(m)
<1>1. LedgerOK(l) /\ l \in Ledgers /\ Conserved(l)
  BY DEF Balanced, LedgerOK
<1>2. LedgerOK(m)
  BY <1>1, MintedQuiet DEF Quiet
<1>3. CASE m = l
  BY <1>3
<1>4. CASE /\ MayReceive(l, a, t, amount)
           /\ m = [Credited(l, a, t, amount) EXCEPT !.minted[t] = @ + amount]
  <2> DEFINE n == Credited(l, a, t, amount)
  <2>1. l.trustlines[a][t] # None /\ l.trustlines[a][t].balance + amount \in 0 .. LIMIT
    <3>1. l.trustlines[a][t] \in TrustlineEntries \cup {None}
      BY <1>1 DEF Ledgers
    <3>2. l.trustlines[a][t] # None /\ l.trustlines[a][t].balance + amount <= LIMIT
      BY <1>4 DEF MayReceive
    <3>3. l.trustlines[a][t].balance \in Nat
      BY <3>1, <3>2, Bounds DEF TrustlineEntries
    <3> QED BY <3>2, <3>3, Bounds
  <2>2. amount \in Int
    OBVIOUS
  <2>3. /\ SumOf(Balances(n, t)) = SumOf(Balances(l, t)) + amount
        /\ \A u \in Assets : u # t => Balances(n, u) = Balances(l, u)
        /\ n.minted = l.minted /\ n \in Ledgers
    BY <1>1, <2>1, <2>2, CreditedSums DEF LedgerOK
  <2>4. m = [n EXCEPT !.minted[t] = @ + amount]
    BY <1>4
  <2> HIDE DEF n
  <2>5. m.trustlines = n.trustlines /\ m.minted = [l.minted EXCEPT ![t] = l.minted[t] + amount]
    BY <2>3, <2>4 DEF Ledgers
  <2>6. \A u \in Assets : Balances(m, u) = Balances(n, u)
    BY <2>5 DEF Balances, Trustlines
  <2>7. l.minted \in [Assets -> Nat]
    BY <1>1 DEF Ledgers
  <2>8. Conserved(m)
    <3> SUFFICES ASSUME NEW u \in Assets PROVE SumOf(Balances(m, u)) = m.minted[u]
      BY DEF Conserved
    <3>1. SumOf(Balances(l, u)) = l.minted[u]
      BY <1>1 DEF Conserved
    <3>2. CASE u = t
      BY <2>3, <2>5, <2>6, <2>7, <3>1, <3>2
    <3>3. CASE u # t
      BY <2>3, <2>5, <2>6, <2>7, <3>1, <3>3
    <3> QED BY <3>2, <3>3
  <2> QED BY <1>2, <2>8 DEF Balanced
<1> QED BY <1>3, <1>4 DEF Minted

LEMMA TransferBalanced ==
  ASSUME NEW l, Balanced(l), NEW a \in Accounts, NEW b \in Accounts, a # b, NEW t \in Assets,
         NEW amount \in Nat, MaySend(l, a, t, amount), MayReceive(l, b, t, amount)
  PROVE  Balanced(Credited(Credited(l, a, t, -amount), b, t, amount))
<1> DEFINE m == Credited(l, a, t, -amount)
           n == Credited(m, b, t, amount)
<1>0. LedgerOK(l) /\ l \in Ledgers /\ Conserved(l)
  BY DEF Balanced, LedgerOK
<1>1. /\ l.trustlines[a][t] \in TrustlineEntries \cup {None}
      /\ l.trustlines[b][t] \in TrustlineEntries \cup {None}
  BY <1>0 DEF Ledgers
<1>2. /\ l.trustlines[a][t] # None /\ l.trustlines[a][t].balance >= amount
      /\ l.trustlines[b][t] # None /\ l.trustlines[b][t].balance + amount <= LIMIT
  BY DEF MaySend, MayReceive
<1>3. /\ l.trustlines[a][t].balance \in 0 .. LIMIT /\ l.trustlines[b][t].balance \in 0 .. LIMIT
      /\ LIMIT \in Nat /\ -amount \in Int /\ amount \in Int
  BY <1>1, <1>2, Bounds DEF TrustlineEntries
<1>4. l.trustlines[a][t].balance + (-amount) \in 0 .. LIMIT
  BY <1>2, <1>3
<1>5. /\ SumOf(Balances(m, t)) = SumOf(Balances(l, t)) + (-amount)
      /\ \A u \in Assets : u # t => Balances(m, u) = Balances(l, u)
      /\ m.minted = l.minted /\ LedgerOK(m) /\ SumOf(Balances(l, t)) \in Int
  BY <1>0, <1>2, <1>3, <1>4, CreditedSums
<1>6. m.trustlines[b] = l.trustlines[b]
  BY <1>0, <1>2, <1>3, <1>4, CreditedQuiet
<1> HIDE DEF m
<1>7. m.trustlines[b][t] # None /\ m.trustlines[b][t].balance + amount \in 0 .. LIMIT
  BY <1>2, <1>3, <1>6
<1>8. /\ SumOf(Balances(n, t)) = SumOf(Balances(m, t)) + amount
      /\ \A u \in Assets : u # t => Balances(n, u) = Balances(m, u)
      /\ n.minted = m.minted /\ LedgerOK(n)
  BY <1>3, <1>5, <1>7, CreditedSums
<1> HIDE DEF n
<1>9. SumOf(Balances(n, t)) = SumOf(Balances(l, t))
  BY <1>5, <1>8
<1>10. Conserved(n)
  BY <1>0, <1>5, <1>8, <1>9 DEF Conserved
<1> QED BY <1>8, <1>10 DEF Balanced, m, n
-----------------------------------------------------------------------------
LEMMA SourcedBalanced ==
  ASSUME FacadeTypes, Balanced(ledger), NEW as \in wallets \cup {None}, NEW source,
         SourceOf(as, source)
  PROVE  source \in Accounts /\ Balanced(Sourced(as, source))
<1>1. source \in Accounts
  BY SourcedQuiet DEF Balanced
<1> QED BY <1>1, FundedBalanced DEF Sourced

LEMMA TokenCallsBalanced ==
  ASSUME FacadeTypes, Balanced(ledger), NEW t \in Assets
  PROVE  /\ DeployToken(t) => Balanced(ledger')
         /\ \A a \in Accounts : SetupWorld(a, t) => Balanced(ledger')
         /\ \A a \in Accounts, amount \in 1 .. LIMIT :
              /\ Mint(a, t, amount) => Balanced(ledger')
              /\ \A b \in Accounts : Transfer(a, b, t, amount) => Balanced(ledger')
<1>1. IssuerOf[t] \in Accounts /\ 1 .. LIMIT \subseteq Nat
  BY FacadeAssumption
<1>2. ASSUME DeployToken(t)
      PROVE  Balanced(ledger')
  <2> DEFINE paid == IF IssuerOf[t] \in wallets THEN ledger ELSE Funded(ledger, IssuerOf[t])
             l == Simulated(paid)
  <2>1. Balanced(paid)
    BY <1>1, FundedBalanced
  <2> HIDE DEF paid
  <2>2. Balanced(l)
    BY <2>1, SimulatedBalanced
  <2>3. ledger' = l \/ ledger' = [l EXCEPT !.assets = @ \cup {t}]
    BY <1>2 DEF DeployToken, paid
  <2> HIDE DEF l
  <2> QED BY <2>2, <2>3, AssetDeployedBalanced
<1>3. ASSUME NEW a \in Accounts, SetupWorld(a, t)
      PROVE  Balanced(ledger')
  <2> DEFINE paid == Funded(ledger, a)
             funded == Funded(paid, IssuerOf[t])
             seen == Simulated(funded)
             deployed == [seen EXCEPT !.assets = @ \cup {t}]
             trusted == Simulated(EstablishTrustlineIfMissing(deployed, a, t))
  <2>0. ledger' \in Minted(trusted, a, t, 1)
    BY <1>3 DEF SetupWorld
  <2>1. Balanced(paid)
    BY FundedBalanced
  <2> HIDE DEF paid
  <2>2. Balanced(funded)
    BY <1>1, <2>1, FundedBalanced
  <2> HIDE DEF funded
  <2>3. Balanced(seen)
    BY <2>2, SimulatedBalanced
  <2> HIDE DEF seen
  <2>4. Balanced(deployed)
    BY <2>3, AssetDeployedBalanced
  <2> HIDE DEF deployed
  <2>5. Balanced(trusted)
    BY <2>4, ReadyBalanced
  <2> HIDE DEF trusted
  <2> QED BY <2>0, <2>5, MintedBalanced
<1>4. ASSUME NEW a \in Accounts, NEW amount \in 1 .. LIMIT, Mint(a, t, amount)
      PROVE  Balanced(ledger')
  <2> DEFINE l == Simulated(EstablishTrustlineIfMissing(ledger, a, t))
  <2>1. Balanced(l)
    BY ReadyBalanced
  <2>2. ledger' \in Minted(l, a, t, amount) /\ amount \in Nat
    BY <1>1, <1>4 DEF Mint
  <2> HIDE DEF l
  <2> QED BY <2>1, <2>2, MintedBalanced
<1>5. ASSUME NEW a \in Accounts, NEW amount \in 1 .. LIMIT, NEW b \in Accounts,
             Transfer(a, b, t, amount)
      PROVE  Balanced(ledger')
  <2> DEFINE l == Simulated(EstablishTrustlineIfMissing(ledger, b, t))
  <2>1. Balanced(l)
    BY ReadyBalanced
  <2>2. /\ a # b /\ amount \in Nat
        /\ \/ ledger' = l
           \/ /\ MaySend(l, a, t, amount) /\ MayReceive(l, b, t, amount)
              /\ ledger' = Credited(Credited(l, a, t, -amount), b, t, amount)
    BY <1>1, <1>5 DEF Transfer
  <2> HIDE DEF l
  <2> QED BY <2>1, <2>2, TransferBalanced
<1> QED BY <1>2, <1>3, <1>4, <1>5

LEMMA QuietCallsBalanced ==
  ASSUME FacadeTypes, Balanced(ledger), QuietCall
  PROVE  Balanced(ledger')
<1>1. ASSUME NEW a \in Accounts, Fund(a) \/ WithPayer(a)
      PROVE  Balanced(ledger')
  BY <1>1, FundedBalanced DEF Fund, WithPayer
<1>2. ASSUME NEW t \in Assets, NEW a \in Accounts, NEW authorized \in BOOLEAN,
             Trust(a, t, authorized)
      PROVE  Balanced(ledger')
  BY <1>2, EstablishedBalanced DEF Trust
<1>3. CASE Snapshot \/ EnterSandbox
  BY <1>3 DEF Snapshot, EnterSandbox
<1>4. ASSUME NEW r \in RoundTrips, Begin(r) \/ SignerFails(r)
      PROVE  Balanced(ledger')
  BY <1>4, SimulatedBalanced DEF Begin, SignerFails
<1>5. ASSUME NEW t \in Assets,
             \/ DeployToken(t) \/ \E a \in Accounts : SetupWorld(a, t)
             \/ \E a \in Accounts, amount \in 1 .. LIMIT :
                  Mint(a, t, amount) \/ \E b \in Accounts : Transfer(a, b, t, amount)
      PROVE  Balanced(ledger')
  BY <1>5, TokenCallsBalanced
<1> QED BY <1>1, <1>2, <1>3, <1>4, <1>5 DEF QuietCall

LEMMA DeployBalanced ==
  ASSUME FacadeTypes, Balanced(ledger), DeployCall
  PROVE  Balanced(ledger')
<1>1. PICK as \in wallets \cup {None}, salt \in ExplicitSalts \cup {None} : Deploy(as, salt)
  BY DEF DeployCall
<1>2. PICK source \in SourcesOf(as) :
        /\ SourceOf(as, source)
        /\ ledger' = Deployed(Simulated(Sourced(as, source)), ContractOf(source, salt))
  BY <1>1 DEF Deploy
<1> DEFINE l == Sourced(as, source)
           contract == ContractOf(source, salt)
<1>3. source \in Accounts /\ Balanced(l)
  BY <1>2, SourcedBalanced
<1>4. contract \in Contracts
  BY <1>3, FacadeAssumption DEF FacadeTypes, ContractOf, NextSalt, Contracts
<1> HIDE DEF l, contract
<1>5. Balanced(Simulated(l))
  BY <1>3, SimulatedBalanced
<1> QED BY <1>2, <1>4, <1>5, DeployedBalanced DEF l, contract

LEMMA InvokeBalanced ==
  ASSUME FacadeTypes, Balanced(ledger), InvokeCall
  PROVE  Balanced(ledger')
<1>1. PICK as \in wallets \cup {None} : Invoke(as)
  BY DEF InvokeCall
<1>2. PICK source \in SourcesOf(as) :
        /\ SourceOf(as, source)
        /\ ledger' = IF Taken(Sourced(as, source), Sourced(as, source).prng)
                     THEN Simulated(Sourced(as, source))
                     ELSE EnforceAndSend(Simulated(Sourced(as, source)),
                                         Recorded(Sourced(as, source))).ledger
  BY <1>1 DEF Invoke
<1> DEFINE l == Sourced(as, source)
           recorded == Simulated(l)
           auth == Recorded(l)
<1>3. Balanced(l) /\ l.prng = ledger.prng
  BY <1>2, SourcedBalanced, SourcedQuiet DEF Balanced
<1>4. ledger' = recorded \/ ledger' = EnforceAndSend(recorded, auth).ledger
  BY <1>2
<1> HIDE DEF l
<1>5. auth \in Authorizations
  <2>1. l \in Ledgers /\ ledger.prng < MaxSimulations
    BY <1>1, <1>3 DEF Balanced, LedgerOK, Invoke, MaySimulate
  <2>2. l.seq \in Nat /\ l.prng \in Nat
    BY <2>1 DEF Ledgers
  <2>3. l.seq + AUTH_TTL \in Nat /\ l.prng \in 0 .. MaxSimulations
    BY <1>3, <2>1, <2>2, Bounds
  <2> QED BY <2>3 DEF Recorded, Authorizations
<1>6. Balanced(recorded)
  BY <1>3, SimulatedBalanced
<1> HIDE DEF recorded, auth
<1> QED BY <1>4, <1>5, <1>6, EnforcedBalanced

LEMMA TokensInductive ==
  ASSUME FacadeInv, TokensInv, [Next]_vars
  PROVE  TokensInv'
<1>0. /\ FacadeTypes /\ SignedInv /\ Balanced(ledger)
      /\ snapshots \in Seq(Ledgers) /\ SandboxesHold
      /\ \A id \in DOMAIN snapshots : Conserved(snapshots[id])
  BY DEF FacadeInv, LedgersOK, TokensInv, Balanced
<1>1. Balanced(ledger') \/ Return
  <2>1. CASE UNCHANGED vars
    BY <1>0, <2>1 DEF vars
  <2>2. ASSUME NEW r \in RoundTrips, Answer(r)
        PROVE  Balanced(ledger')
    <3>1. /\ ledger' = EnforceAndSend(ledger, roundTrips[r].auth).ledger
          /\ roundTrips[r].auth \in Authorizations
      BY <1>0, <2>2 DEF Answer, SignedInv
    <3> QED BY <1>0, <3>1, EnforcedBalanced
  <2>3. ASSUME WarpCall
        PROVE  Balanced(ledger')
    <3>1. PICK sequence \in FirstLedger .. MaxLedger : WarpToLedger(sequence)
      BY <2>3 DEF WarpCall
    <3>2. LedgerOK(ledger') /\ ledger' = [ledger EXCEPT !.seq = sequence]
      BY <1>0, <3>1, WarpLedger DEF Balanced, Onwards, WarpToLedger
    <3>3. ledger'.trustlines = ledger.trustlines /\ ledger'.minted = ledger.minted
      BY <1>0, <3>2 DEF Balanced, LedgerOK, Ledgers
    <3> QED BY <1>0, <3>2, <3>3, SameTokens
  <2> QED
    BY <1>0, <2>1, <2>2, <2>3, NextCases, QuietCallsBalanced, DeployBalanced, InvokeBalanced
<1>2. Conserved(ledger')
  <2>1. Return => \E id \in DOMAIN snapshots : ledger' = snapshots[id]
    BY ReturnFacts, <1>0
  <2> QED BY <1>0, <1>1, <2>1 DEF Balanced
<1>3. \A id \in DOMAIN snapshots' :
        (id \in DOMAIN snapshots /\ snapshots'[id] = snapshots[id]) \/ snapshots'[id] = ledger
  <2>1. ledger \in Ledgers
    BY <1>0 DEF Balanced, LedgerOK
  <2> QED BY <1>0, <2>1, SnapshotsGrow
<1>4. \A id \in DOMAIN snapshots' : Conserved(snapshots'[id])
  BY <1>0, <1>3 DEF Balanced
<1> QED BY <1>2, <1>4 DEF TokensInv, Conserved, Balances, Trustlines

LEMMA TokensInit ==
  ASSUME Init
  PROVE  TokensInv
<1>1. ledger = NewLedger /\ DOMAIN snapshots = {}
  BY DEF Init
<1>2. ASSUME NEW t \in Assets
      PROVE  SumOf(Balances(NewLedger, t)) = NewLedger.minted[t]
  <2>1. \A a \in Accounts : NewLedger.trustlines[a][t] = None
    BY DEF NewLedger
  <2>2. {a \in Accounts : t \in Trustlines(NewLedger, a)} = {}
    BY <2>1 DEF Trustlines
  <2>3. Balances(NewLedger, t) \in [{} -> Int]
    BY <2>2 DEF Balances
  <2>4. NewLedger.minted[t] = 0
    BY DEF NewLedger
  <2> QED BY <2>3, <2>4, SumNone
<1> QED BY <1>1, <1>2 DEF TokensInv, Conserved

(***************************************************************************)
(* TokensConserved, of the facade's token calls: the balances of an asset  *)
(* add up to what was minted of it.  mint and transfer that fail half way  *)
(* leave a trustline of nothing behind, a trustline written anew keeps its *)
(* balance, and a return brings balances and mintings back together.       *)
(***************************************************************************)
THEOREM TokensStay == Spec => []TokensConserved
<1>1. TokensInv => TokensConserved
  BY DEF TokensInv, Conserved, SumOf, TokensConserved
<1>2. FacadeInv /\ TokensInv /\ [Next]_vars => TokensInv'
  BY TokensInductive
<1>3. Init => TokensInv
  BY TokensInit
<1> QED BY <1>1, <1>2, <1>3, FacadeInvariant, PTL DEF Spec
=============================================================================
