------------------------- MODULE LiteStellar_proofs -------------------------
(***************************************************************************)
(* Proofs about the facade, for every set of accounts and of round trips,  *)
(* every finite set of assets and every value of the bounds.  Two          *)
(* invariants: FacadeInv, of the ledger, every snapshot and the facade's   *)
(* own state, and on top of it NoncesInv, of the round trips that wait.    *)
(* TokensConserved is in LiteStellarTokens_proofs.                         *)
(***************************************************************************)
EXTENDS LiteStellar, FiniteSetTheorems, SequenceTheorems, TLAPS

TrustlineEntries == [balance : 0 .. LIMIT, authorized : BOOLEAN]
Contracts == [deployer : Accounts, salt : Nat, chosen : BOOLEAN]
Authorizations == [nonce : 0 .. MaxSimulations, validUntil : Nat]
Ledgers ==
  [seq : Nat, prng : Nat,
   accounts : [Accounts -> Nat \cup {None}],
   trustlines : [Accounts -> [Assets -> TrustlineEntries \cup {None}]],
   contracts : SUBSET Contracts, assets : SUBSET Assets,
   nonces : [0 .. MaxSimulations -> Nat],
   minted : [Assets -> Nat],
   uncounted : [Accounts -> SUBSET Assets],
   used : SUBSET Authorizations, authorized : Nat]

\* SubEntriesCounted, of any ledger.
Counted(l) ==
  \A a \in Accounts :
    /\ l.uncounted[a] \subseteq Trustlines(l, a)
    /\ l.accounts[a] # None =>
         l.accounts[a] + Cardinality(l.uncounted[a]) = Cardinality(Trustlines(l, a))

\* AuthorizationUsedOnce, of any ledger, and why: the nonce of an authorization
\* that was used is taken for as long as it is valid.
UsedOnce(l) ==
  /\ IsFiniteSet(l.used) /\ Cardinality(l.used) = l.authorized
  /\ \A auth \in l.used : l.nonces[auth.nonce] >= auth.validUntil

LedgerOK(l) == l \in Ledgers /\ l.seq >= FirstLedger /\ Counted(l) /\ UsedOnce(l)

\* What most calls leave as it is.
Quiet(l, m) ==
  /\ LedgerOK(m)
  /\ m.seq = l.seq /\ m.prng >= l.prng
  /\ m.contracts = l.contracts /\ m.nonces = l.nonces
-----------------------------------------------------------------------------
(***************************************************************************)
(* What the operators on ledgers preserve.                                 *)
(***************************************************************************)
LEMMA Bounds ==
  /\ AUTH_TTL \in Nat /\ LIMIT \in Nat /\ MaxSimulations \in Nat /\ MaxCalls \in Nat
  /\ FirstLedger \in Nat /\ FirstLedger > 0 /\ MaxLedger \in Nat
  BY FacadeAssumption

LEMMA QuietReflexive ==
  ASSUME NEW l, LedgerOK(l)
  PROVE  Quiet(l, l)
  BY DEF Quiet, LedgerOK, Ledgers

LEMMA QuietTransitive ==
  ASSUME NEW l, NEW m, NEW n, LedgerOK(l), Quiet(l, m), Quiet(m, n)
  PROVE  Quiet(l, n)
<1>1. l.prng \in Nat /\ m.prng \in Nat /\ n.prng \in Nat
  BY DEF Quiet, LedgerOK, Ledgers
<1> QED BY <1>1 DEF Quiet

LEMMA EntriesAreNotNone ==
  ASSUME NEW entry \in TrustlineEntries
  PROVE  entry # None
<1>1. LIMIT \in Nat /\ None \notin [balance : Nat, authorized : BOOLEAN]
  BY FacadeAssumption
<1> QED BY <1>1 DEF TrustlineEntries

LEMMA TrustlinesFinite ==
  ASSUME NEW l, NEW a
  PROVE  /\ IsFiniteSet(Trustlines(l, a)) /\ Trustlines(l, a) \subseteq Assets
         /\ Cardinality(Trustlines(l, a)) \in Nat
<1>1. Trustlines(l, a) \subseteq Assets
  BY DEF Trustlines
<1> QED BY <1>1, FacadeAssumption, FS_Subset, FS_CardinalityType

LEMMA FundedQuiet ==
  ASSUME NEW l, LedgerOK(l), NEW a \in Accounts
  PROVE  Quiet(l, Funded(l, a)) /\ Funded(l, a).prng = l.prng
<1> DEFINE m == Funded(l, a)
<1>1. l \in Ledgers
  BY DEF LedgerOK
<1>2. Trustlines(l, a) \subseteq Assets
  BY DEF Trustlines
<1>3. PICK n : /\ n = [l EXCEPT !.accounts = [@ EXCEPT ![a] = 0]]
               /\ m = [n EXCEPT !.uncounted = [@ EXCEPT ![a] = Trustlines(l, a)]]
  BY DEF Funded
<1> HIDE DEF m
<1>4. /\ m.accounts = [l.accounts EXCEPT ![a] = 0]
      /\ m.uncounted = [l.uncounted EXCEPT ![a] = Trustlines(l, a)]
      /\ m.trustlines = l.trustlines /\ m.seq = l.seq /\ m.prng = l.prng
      /\ m.contracts = l.contracts /\ m.nonces = l.nonces /\ m.used = l.used
      /\ m.authorized = l.authorized
      /\ m \in Ledgers
  <2>1. n \in Ledgers /\ n.accounts = [l.accounts EXCEPT ![a] = 0]
    BY <1>1, <1>3 DEF Ledgers
  <2>2. /\ n.trustlines = l.trustlines /\ n.seq = l.seq /\ n.prng = l.prng
        /\ n.contracts = l.contracts /\ n.nonces = l.nonces /\ n.used = l.used
        /\ n.authorized = l.authorized /\ n.uncounted = l.uncounted
    BY <1>1, <1>3 DEF Ledgers
  <2>3. m \in Ledgers /\ m.uncounted = [l.uncounted EXCEPT ![a] = Trustlines(l, a)]
    BY <1>2, <1>3, <2>1, <2>2 DEF Ledgers
  <2>4. /\ m.trustlines = n.trustlines /\ m.seq = n.seq /\ m.prng = n.prng
        /\ m.contracts = n.contracts /\ m.nonces = n.nonces /\ m.used = n.used
        /\ m.authorized = n.authorized /\ m.accounts = n.accounts
    BY <1>3, <2>1 DEF Ledgers
  <2> QED BY <2>1, <2>2, <2>3, <2>4
<1>5. \A b \in Accounts : Trustlines(m, b) = Trustlines(l, b)
  BY <1>4 DEF Trustlines
<1>6. Counted(m)
  <2> SUFFICES ASSUME NEW b \in Accounts
               PROVE  /\ m.uncounted[b] \subseteq Trustlines(m, b)
                      /\ m.accounts[b] # None =>
                           m.accounts[b] + Cardinality(m.uncounted[b])
                             = Cardinality(Trustlines(m, b))
    BY DEF Counted
  <2>1. CASE b = a
    <3>1. m.accounts[b] = 0 /\ m.uncounted[b] = Trustlines(m, b)
      BY <1>1, <1>4, <1>5, <2>1 DEF Ledgers
    <3> QED BY <3>1, TrustlinesFinite
  <2>2. CASE b # a
    <3>1. m.accounts[b] = l.accounts[b] /\ m.uncounted[b] = l.uncounted[b]
      BY <1>1, <1>4, <2>2 DEF Ledgers
    <3> QED BY <1>5, <3>1 DEF LedgerOK, Counted
  <2> QED BY <2>1, <2>2
<1>7. UsedOnce(m)
  BY <1>4 DEF LedgerOK, UsedOnce
<1> QED BY <1>1, <1>4, <1>6, <1>7 DEF LedgerOK, Quiet, Ledgers, m

\* A ledger with one field changed.
LEMMA PrngChanged ==
  ASSUME NEW l \in Ledgers, NEW x \in Nat, NEW m, m = [l EXCEPT !.prng = x]
  PROVE  /\ m \in Ledgers /\ m.prng = x /\ m.seq = l.seq /\ m.accounts = l.accounts
         /\ m.trustlines = l.trustlines /\ m.contracts = l.contracts /\ m.nonces = l.nonces
         /\ m.uncounted = l.uncounted /\ m.used = l.used /\ m.authorized = l.authorized
  BY DEF Ledgers

LEMMA MintedChanged ==
  ASSUME NEW l \in Ledgers, NEW x \in [Assets -> Nat], NEW m, m = [l EXCEPT !.minted = x]
  PROVE  /\ m \in Ledgers /\ m.prng = l.prng /\ m.seq = l.seq /\ m.accounts = l.accounts
         /\ m.trustlines = l.trustlines /\ m.contracts = l.contracts /\ m.nonces = l.nonces
         /\ m.uncounted = l.uncounted /\ m.used = l.used /\ m.authorized = l.authorized
  BY DEF Ledgers

LEMMA AccountsChanged ==
  ASSUME NEW l \in Ledgers, NEW x \in [Accounts -> Nat \cup {None}], NEW m,
         m = [l EXCEPT !.accounts = x]
  PROVE  /\ m \in Ledgers /\ m.prng = l.prng /\ m.seq = l.seq /\ m.accounts = x
         /\ m.trustlines = l.trustlines /\ m.contracts = l.contracts /\ m.nonces = l.nonces
         /\ m.uncounted = l.uncounted /\ m.used = l.used /\ m.authorized = l.authorized
  BY DEF Ledgers

\* A change that leaves accounts, trustlines and authorizations alone.
LEMMA OtherFieldsQuiet ==
  ASSUME NEW l, LedgerOK(l), NEW m, m \in Ledgers,
         m.seq = l.seq, m.prng >= l.prng, m.contracts = l.contracts, m.nonces = l.nonces,
         m.accounts = l.accounts, m.trustlines = l.trustlines, m.uncounted = l.uncounted,
         m.used = l.used, m.authorized = l.authorized
  PROVE  Quiet(l, m)
<1>1. \A a \in Accounts : Trustlines(m, a) = Trustlines(l, a)
  BY DEF Trustlines
<1>2. Counted(m)
  BY <1>1 DEF LedgerOK, Counted
<1> QED BY <1>2 DEF LedgerOK, UsedOnce, Quiet

LEMMA SimulatedQuiet ==
  ASSUME NEW l, LedgerOK(l)
  PROVE  Quiet(l, Simulated(l)) /\ Simulated(l).prng = l.prng + 1
<1> DEFINE m == Simulated(l)
<1>0. l \in Ledgers /\ l.prng \in Nat /\ l.prng + 1 \in Nat
  BY DEF LedgerOK, Ledgers
<1>10. m = [l EXCEPT !.prng = l.prng + 1]
  BY DEF Simulated
<1> HIDE DEF m
<1>1. /\ m \in Ledgers /\ m.prng = l.prng + 1
      /\ m.seq = l.seq /\ m.contracts = l.contracts /\ m.nonces = l.nonces
      /\ m.accounts = l.accounts /\ m.trustlines = l.trustlines /\ m.uncounted = l.uncounted
      /\ m.used = l.used /\ m.authorized = l.authorized
  BY <1>0, <1>10, PrngChanged
<1>11. m.prng >= l.prng
  BY <1>0, <1>1
<1>2. Quiet(l, m)
  BY <1>1, <1>11, OtherFieldsQuiet
<1> QED BY <1>1, <1>2 DEF m

LEMMA AssetDeployedQuiet ==
  ASSUME NEW l, LedgerOK(l), NEW t \in Assets
  PROVE  Quiet(l, [l EXCEPT !.assets = @ \cup {t}])
<1> DEFINE m == [l EXCEPT !.assets = @ \cup {t}]
<1>1. /\ m \in Ledgers /\ l.prng \in Nat /\ m.prng = l.prng
      /\ m.seq = l.seq /\ m.contracts = l.contracts /\ m.nonces = l.nonces
      /\ m.accounts = l.accounts /\ m.trustlines = l.trustlines /\ m.uncounted = l.uncounted
      /\ m.used = l.used /\ m.authorized = l.authorized
  BY DEF LedgerOK, Ledgers
<1> HIDE DEF m
<1>2. Quiet(l, m)
  BY <1>1, OtherFieldsQuiet
<1> QED BY <1>2 DEF m

LEMMA MintedMoreQuiet ==
  ASSUME NEW l, LedgerOK(l), NEW t \in Assets, NEW amount \in Nat
  PROVE  Quiet(l, [l EXCEPT !.minted[t] = @ + amount])
<1> DEFINE x == [l.minted EXCEPT ![t] = l.minted[t] + amount]
           m == [l EXCEPT !.minted = x]
<1>1. l \in Ledgers /\ l.minted \in [Assets -> Nat] /\ l.prng \in Nat
  BY DEF LedgerOK, Ledgers
<1>2. x \in [Assets -> Nat]
  <2>1. l.minted[t] + amount \in Nat
    BY <1>1
  <2> QED BY <1>1, <2>1
<1>3. [l EXCEPT !.minted[t] = @ + amount] = m
  OBVIOUS
<1>4. m = [l EXCEPT !.minted = x]
  OBVIOUS
<1> HIDE DEF x, m
<1>5. /\ m \in Ledgers /\ m.prng = l.prng /\ m.seq = l.seq /\ m.accounts = l.accounts
      /\ m.trustlines = l.trustlines /\ m.contracts = l.contracts /\ m.nonces = l.nonces
      /\ m.uncounted = l.uncounted /\ m.used = l.used /\ m.authorized = l.authorized
  BY <1>1, <1>2, <1>4, MintedChanged
<1>6. Quiet(l, m)
  BY <1>1, <1>5, OtherFieldsQuiet
<1> QED BY <1>3, <1>6

\* A trustline written anew where there was one.
LEMMA RewrittenQuiet ==
  ASSUME NEW l, LedgerOK(l), NEW a \in Accounts, NEW t \in Assets,
         l.trustlines[a][t] # None, NEW entry \in TrustlineEntries
  PROVE  Quiet(l, [l EXCEPT !.trustlines[a][t] = entry])
<1> DEFINE m == [l EXCEPT !.trustlines[a][t] = entry]
<1>1. /\ m \in Ledgers /\ l.prng \in Nat /\ m.prng = l.prng
      /\ m.seq = l.seq /\ m.contracts = l.contracts /\ m.nonces = l.nonces
      /\ m.accounts = l.accounts /\ m.uncounted = l.uncounted
      /\ m.used = l.used /\ m.authorized = l.authorized
      /\ m.trustlines = [l.trustlines EXCEPT ![a][t] = entry]
  BY DEF LedgerOK, Ledgers
<1> HIDE DEF m
<1>2. l.trustlines \in [Accounts -> [Assets -> TrustlineEntries \cup {None}]] /\ entry # None
  BY FacadeAssumption DEF LedgerOK, Ledgers, TrustlineEntries
<1>3. \A b \in Accounts : Trustlines(m, b) = Trustlines(l, b)
  BY <1>1, <1>2 DEF Trustlines
<1>4. Counted(m)
  BY <1>1, <1>3 DEF LedgerOK, Counted
<1>5. UsedOnce(m) /\ m.seq >= FirstLedger
  BY <1>1 DEF LedgerOK, UsedOnce
<1> QED BY <1>1, <1>4, <1>5 DEF LedgerOK, Quiet, m

\* A first trustline, of an account that is there or of one that is not.
FirstTrustline(l, a, t, entry, m) ==
  /\ m \in Ledgers
  /\ l.trustlines[a][t] = None /\ m.trustlines = [l.trustlines EXCEPT ![a][t] = entry]
  /\ m.seq = l.seq /\ m.prng = l.prng /\ m.contracts = l.contracts /\ m.nonces = l.nonces
  /\ m.used = l.used /\ m.authorized = l.authorized
  /\ \/ /\ l.accounts[a] = None /\ m.accounts = l.accounts
        /\ m.uncounted = [l.uncounted EXCEPT ![a] = @ \cup {t}]
     \/ /\ l.accounts[a] # None /\ m.uncounted = l.uncounted
        /\ m.accounts = [l.accounts EXCEPT ![a] = @ + 1]

LEMMA FirstTrustlineQuiet ==
  ASSUME NEW l, LedgerOK(l), NEW a \in Accounts, NEW t \in Assets,
         NEW entry \in TrustlineEntries, NEW m, FirstTrustline(l, a, t, entry, m)
  PROVE  Quiet(l, m)
<1>1. /\ l.trustlines \in [Accounts -> [Assets -> TrustlineEntries \cup {None}]] /\ entry # None
      /\ l.accounts \in [Accounts -> Nat \cup {None}]
      /\ l.uncounted \in [Accounts -> SUBSET Assets] /\ l.prng \in Nat
  <2>1. l \in Ledgers
    BY DEF LedgerOK
  <2> QED BY <2>1, EntriesAreNotNone DEF Ledgers
<1> USE DEF FirstTrustline
<1>2. /\ Trustlines(m, a) = Trustlines(l, a) \cup {t} /\ t \notin Trustlines(l, a)
      /\ \A b \in Accounts : b # a => Trustlines(m, b) = Trustlines(l, b)
  <2>1. m.trustlines = [l.trustlines EXCEPT ![a][t] = entry]
    OBVIOUS
  <2>2. \A b \in Accounts : b # a => m.trustlines[b] = l.trustlines[b]
    BY <1>1, <2>1
  <2>3. m.trustlines[a] = [l.trustlines[a] EXCEPT ![t] = entry]
    BY <1>1, <2>1
  <2>4. l.trustlines[a] \in [Assets -> TrustlineEntries \cup {None}]
    BY <1>1
  <2>5. \A u \in Assets : m.trustlines[a][u] = IF u = t THEN entry ELSE l.trustlines[a][u]
    BY <2>3, <2>4
  <2>6. l.trustlines[a][t] = None
    OBVIOUS
  <2> HIDE DEF FirstTrustline
  <2>7. Trustlines(m, a) = Trustlines(l, a) \cup {t} /\ t \notin Trustlines(l, a)
    BY <1>1, <2>5, <2>6 DEF Trustlines
  <2>8. \A b \in Accounts : b # a => Trustlines(m, b) = Trustlines(l, b)
    BY <2>2 DEF Trustlines
  <2> QED BY <2>7, <2>8
<1>3. Cardinality(Trustlines(m, a)) = Cardinality(Trustlines(l, a)) + 1
  BY <1>2, TrustlinesFinite, FS_AddElement
<1>4. Counted(m)
  <2> SUFFICES ASSUME NEW b \in Accounts
               PROVE  /\ m.uncounted[b] \subseteq Trustlines(m, b)
                      /\ m.accounts[b] # None =>
                           m.accounts[b] + Cardinality(m.uncounted[b])
                             = Cardinality(Trustlines(m, b))
    BY DEF Counted
  <2>1. /\ l.uncounted[b] \subseteq Trustlines(l, b)
        /\ l.accounts[b] # None =>
             l.accounts[b] + Cardinality(l.uncounted[b]) = Cardinality(Trustlines(l, b))
    BY DEF LedgerOK, Counted
  <2>2. CASE b # a
    <3>1. m.accounts[b] = l.accounts[b] /\ m.uncounted[b] = l.uncounted[b]
      BY <1>1, <2>2
    <3> QED BY <1>2, <2>1, <2>2, <3>1
  <2>3. CASE b = a /\ l.accounts[a] = None
    <3>1. m.accounts[b] = None /\ m.uncounted[b] = l.uncounted[b] \cup {t}
      BY <1>1, <2>3
    <3> QED BY <1>2, <2>1, <2>3, <3>1
  <2>4. CASE b = a /\ l.accounts[a] # None
    <3>1. /\ m.accounts[b] = l.accounts[b] + 1 /\ m.uncounted[b] = l.uncounted[b]
          /\ l.accounts[b] \in Nat
      BY <1>1, <2>4
    <3>2. IsFiniteSet(l.uncounted[b])
      BY <2>1, TrustlinesFinite, FS_Subset
    <3>3. Cardinality(l.uncounted[b]) \in Nat
      BY <3>2, FS_CardinalityType
    <3>4. m.uncounted[b] \subseteq Trustlines(m, b)
      BY <1>2, <2>1, <2>4, <3>1
    <3>5. Cardinality(Trustlines(l, b)) \in Nat
      BY TrustlinesFinite
    <3>6. l.accounts[b] + Cardinality(l.uncounted[b]) = Cardinality(Trustlines(l, b))
      BY <2>1, <2>4
    <3>7. Cardinality(Trustlines(m, b)) = Cardinality(Trustlines(l, b)) + 1
      BY <1>3, <2>4
    <3>8. m.accounts[b] + Cardinality(m.uncounted[b]) = Cardinality(Trustlines(m, b))
      BY <3>1, <3>3, <3>5, <3>6, <3>7
    <3> QED BY <3>4, <3>8
  <2> QED BY <2>2, <2>3, <2>4
<1>5. UsedOnce(m) /\ m.seq >= FirstLedger
  BY DEF LedgerOK, UsedOnce
<1> QED BY <1>1, <1>4, <1>5 DEF LedgerOK, Quiet

LEMMA EstablishQuiet ==
  ASSUME NEW l, LedgerOK(l), NEW a \in Accounts, NEW t \in Assets, NEW authorized \in BOOLEAN
  PROVE  Quiet(l, EstablishTrustline(l, a, t, authorized))
<1> DEFINE old == l.trustlines[a][t]
           entry == [balance |-> IF old = None THEN 0 ELSE old.balance, authorized |-> authorized]
           written == [l EXCEPT !.trustlines[a][t] = entry]
<1>0. l \in Ledgers
  BY DEF LedgerOK
<1>1. old \in TrustlineEntries \cup {None}
  BY <1>0 DEF Ledgers
<1>2. entry \in TrustlineEntries
  BY <1>1, FacadeAssumption DEF TrustlineEntries
<1> HIDE DEF entry
<1>3. CASE old # None
  BY <1>2, <1>3, RewrittenQuiet DEF EstablishTrustline, entry
<1>4. CASE old = None
  <2>1. /\ written \in Ledgers /\ written.trustlines = [l.trustlines EXCEPT ![a][t] = entry]
        /\ written.seq = l.seq /\ written.prng = l.prng /\ written.contracts = l.contracts
        /\ written.nonces = l.nonces /\ written.used = l.used
        /\ written.authorized = l.authorized /\ written.accounts = l.accounts
        /\ written.uncounted = l.uncounted
    BY <1>0, <1>2 DEF Ledgers
  <2> HIDE DEF written
  <2>2. CASE l.accounts[a] = None
    <3> DEFINE m == [written EXCEPT !.uncounted[a] = @ \cup {t}]
    <3>1. EstablishTrustline(l, a, t, authorized) = m
      BY <1>4, <2>2 DEF EstablishTrustline, entry, written
    <3>2. /\ m \in Ledgers /\ m.trustlines = written.trustlines
          /\ m.seq = written.seq /\ m.prng = written.prng /\ m.contracts = written.contracts
          /\ m.nonces = written.nonces /\ m.used = written.used
          /\ m.authorized = written.authorized /\ m.accounts = written.accounts
          /\ m.uncounted = [written.uncounted EXCEPT ![a] = @ \cup {t}]
      BY <2>1 DEF Ledgers
    <3> HIDE DEF m
    <3>3. FirstTrustline(l, a, t, entry, m)
      BY <1>4, <2>1, <2>2, <3>2 DEF FirstTrustline
    <3>4. Quiet(l, m)
      BY <1>2, <3>3, FirstTrustlineQuiet
    <3> QED BY <3>1, <3>4
  <2>3. CASE l.accounts[a] # None
    <3> DEFINE m == [written EXCEPT !.accounts[a] = @ + 1]
    <3>1. EstablishTrustline(l, a, t, authorized) = m
      BY <1>4, <2>3 DEF EstablishTrustline, entry, written
    <3>2. [l.accounts EXCEPT ![a] = l.accounts[a] + 1] \in [Accounts -> Nat \cup {None}]
      <4>1. l.accounts \in [Accounts -> Nat \cup {None}]
        BY <1>0 DEF Ledgers
      <4>2. l.accounts[a] + 1 \in Nat \cup {None}
        BY <2>3, <4>1
      <4> QED BY <4>1, <4>2
    <3> DEFINE x == [l.accounts EXCEPT ![a] = @ + 1]
    <3>3. m = [written EXCEPT !.accounts = x] /\ x \in [Accounts -> Nat \cup {None}]
      BY <2>1, <3>2
    <3> HIDE DEF m, x
    <3>4. /\ m \in Ledgers /\ m.prng = written.prng /\ m.seq = written.seq /\ m.accounts = x
          /\ m.trustlines = written.trustlines /\ m.contracts = written.contracts
          /\ m.nonces = written.nonces /\ m.uncounted = written.uncounted
          /\ m.used = written.used /\ m.authorized = written.authorized
      BY <2>1, <3>3, AccountsChanged
    <3>5. FirstTrustline(l, a, t, entry, m)
      BY <1>4, <2>1, <2>3, <3>4 DEF FirstTrustline, x
    <3>6. Quiet(l, m)
      BY <1>2, <3>5, FirstTrustlineQuiet
    <3> QED BY <3>1, <3>6
  <2> QED BY <2>2, <2>3
<1> QED BY <1>3, <1>4

LEMMA EstablishIfMissingQuiet ==
  ASSUME NEW l, LedgerOK(l), NEW a \in Accounts, NEW t \in Assets
  PROVE  Quiet(l, EstablishTrustlineIfMissing(l, a, t))
  BY EstablishQuiet, QuietReflexive DEF EstablishTrustlineIfMissing

LEMMA CreditedQuiet ==
  ASSUME NEW l, LedgerOK(l), NEW a \in Accounts, NEW t \in Assets, NEW amount \in Int,
         l.trustlines[a][t] # None, l.trustlines[a][t].balance + amount \in 0 .. LIMIT
  PROVE  /\ Quiet(l, Credited(l, a, t, amount))
         /\ \A b \in Accounts : b # a =>
              Credited(l, a, t, amount).trustlines[b] = l.trustlines[b]
<1> DEFINE old == l.trustlines[a][t]
           entry == [balance |-> old.balance + amount, authorized |-> old.authorized]
<1>1. l.trustlines \in [Accounts -> [Assets -> TrustlineEntries \cup {None}]] /\ l \in Ledgers
  BY DEF LedgerOK, Ledgers
<1>2. old \in TrustlineEntries /\ entry \in TrustlineEntries
  BY <1>1 DEF TrustlineEntries
<1>3. [old EXCEPT !.balance = old.balance + amount] = entry
  BY <1>2 DEF TrustlineEntries
<1>4. Credited(l, a, t, amount)
        = [l EXCEPT !.trustlines[a][t] = [old EXCEPT !.balance = old.balance + amount]]
  BY DEF Credited
<1>5. Credited(l, a, t, amount) = [l EXCEPT !.trustlines[a][t] = entry]
  BY <1>3, <1>4
<1> HIDE DEF entry
<1>6. Quiet(l, Credited(l, a, t, amount))
  BY <1>2, <1>5, RewrittenQuiet
<1>7. \A b \in Accounts : b # a => Credited(l, a, t, amount).trustlines[b] = l.trustlines[b]
  BY <1>1, <1>5 DEF Ledgers
<1> QED BY <1>6, <1>7

\* An authorization is used: its nonce was free, so it had not been.
UseOf(l, auth, m) ==
  /\ LedgerOK(m)
  /\ m.seq = l.seq /\ m.prng = l.prng /\ m.contracts = l.contracts
  /\ \E taken \in Nat : taken > 0 /\ m.nonces = [l.nonces EXCEPT ![auth.nonce] = taken]

LEMMA UsedKeeps ==
  ASSUME NEW l, LedgerOK(l), NEW auth \in Authorizations, Accepted(l, auth)
  PROVE  UseOf(l, auth, Used(l, auth))
<1> DEFINE least == l.seq + MinTemporaryTtl - 1
           taken == IF auth.validUntil >= least THEN auth.validUntil ELSE least
           m == Used(l, auth)
<1>1. l \in Ledgers /\ auth.nonce \in 0 .. MaxSimulations /\ auth.validUntil \in Nat
  BY DEF LedgerOK, Authorizations
<1>2. /\ taken \in Nat /\ taken >= auth.validUntil /\ taken > 0
      /\ auth.validUntil >= l.seq /\ l.nonces[auth.nonce] < l.seq
      /\ l.seq \in Nat /\ l.nonces \in [0 .. MaxSimulations -> Nat]
  <2>1. l.seq \in Nat /\ l.seq >= FirstLedger /\ l.nonces \in [0 .. MaxSimulations -> Nat]
    BY DEF LedgerOK, Ledgers
  <2>2. l.nonces[auth.nonce] \in Nat
    BY <1>1, <2>1
  <2>3. auth.validUntil >= l.seq /\ l.nonces[auth.nonce] < l.seq
    BY <1>1, <2>1, <2>2 DEF Accepted, Expired, Taken
  <2>4. FirstLedger \in Nat /\ FirstLedger > 0 /\ MinTemporaryTtl \in Nat /\ MinTemporaryTtl > 0
    BY FacadeAssumption
  <2>5. taken \in Nat /\ taken >= auth.validUntil /\ taken > 0
    BY <1>1, <2>1, <2>4
  <2> QED BY <2>1, <2>3, <2>5
<1> HIDE DEF taken
<1>3. PICK n1, n2 : /\ n1 = [l EXCEPT !.nonces = [l.nonces EXCEPT ![auth.nonce] = taken]]
                    /\ n2 = [n1 EXCEPT !.used = l.used \cup {auth}]
                    /\ m = [n2 EXCEPT !.authorized = l.authorized + 1]
  BY DEF Used, taken
<1> HIDE DEF m
<1>4. /\ n1 \in Ledgers /\ n1.nonces = [l.nonces EXCEPT ![auth.nonce] = taken]
      /\ n1.seq = l.seq /\ n1.prng = l.prng /\ n1.contracts = l.contracts
      /\ n1.accounts = l.accounts /\ n1.trustlines = l.trustlines
      /\ n1.uncounted = l.uncounted /\ n1.used = l.used /\ n1.authorized = l.authorized
  BY <1>1, <1>2, <1>3 DEF Ledgers
<1>5. /\ n2 \in Ledgers /\ n2.used = l.used \cup {auth} /\ n2.nonces = n1.nonces
      /\ n2.seq = l.seq /\ n2.prng = l.prng /\ n2.contracts = l.contracts
      /\ n2.accounts = l.accounts /\ n2.trustlines = l.trustlines
      /\ n2.uncounted = l.uncounted /\ n2.authorized = l.authorized
  BY <1>1, <1>3, <1>4 DEF Ledgers
<1>6. l.authorized \in Nat /\ l.authorized + 1 \in Nat /\ l.used \subseteq Authorizations
  BY <1>1 DEF Ledgers
<1>7. /\ m \in Ledgers /\ m.authorized = l.authorized + 1 /\ m.used = n2.used
      /\ m.nonces = n2.nonces
      /\ m.seq = l.seq /\ m.prng = l.prng /\ m.contracts = l.contracts
      /\ m.accounts = l.accounts /\ m.trustlines = l.trustlines
      /\ m.uncounted = l.uncounted
  <2> DEFINE x == l.authorized + 1
  <2>1. x \in Nat /\ m = [n2 EXCEPT !.authorized = x]
    BY <1>3, <1>6
  <2> HIDE DEF x
  <2>2. /\ m \in Ledgers /\ m.authorized = x /\ m.used = n2.used /\ m.nonces = n2.nonces
        /\ m.seq = n2.seq /\ m.prng = n2.prng /\ m.contracts = n2.contracts
        /\ m.accounts = n2.accounts /\ m.trustlines = n2.trustlines
        /\ m.uncounted = n2.uncounted
    BY <1>5, <2>1 DEF Ledgers
  <2> QED BY <1>5, <2>2 DEF x
<1>8. Counted(m)
  <2>1. \A a \in Accounts : Trustlines(m, a) = Trustlines(l, a)
    BY <1>7 DEF Trustlines
  <2> QED BY <1>7, <2>1 DEF LedgerOK, Counted
<1>9. UsedOnce(m)
  <2>1. auth \notin l.used
    <3>1. \A other \in l.used : l.nonces[other.nonce] >= other.validUntil
      BY DEF LedgerOK, UsedOnce
    <3>2. l.nonces[auth.nonce] \in Nat
      BY <1>1, <1>2
    <3> QED BY <1>1, <1>2, <3>1, <3>2
  <2>2. IsFiniteSet(l.used) /\ Cardinality(l.used) = l.authorized
    BY DEF LedgerOK, UsedOnce
  <2>3. IsFiniteSet(m.used) /\ Cardinality(m.used) = m.authorized
    <3>1. /\ IsFiniteSet(l.used \cup {auth})
          /\ Cardinality(l.used \cup {auth}) = Cardinality(l.used) + 1
      BY <2>1, <2>2, FS_AddElement
    <3> QED BY <1>5, <1>7, <2>2, <3>1
  <2>4. ASSUME NEW other \in m.used
        PROVE  m.nonces[other.nonce] >= other.validUntil
    <3>1. other \in Authorizations /\ other.nonce \in 0 .. MaxSimulations
          /\ other.validUntil \in Nat
      BY <1>5, <1>6, <1>7 DEF Authorizations
    <3>2. m.nonces[other.nonce]
            = IF other.nonce = auth.nonce THEN taken ELSE l.nonces[other.nonce]
      <4>1. m.nonces = [l.nonces EXCEPT ![auth.nonce] = taken]
        BY <1>4, <1>5, <1>7
      <4> QED BY <1>2, <3>1, <4>1
    <3>3. CASE other = auth
      BY <1>2, <3>2, <3>3
    <3>4. CASE other \in l.used
      <4>1. l.nonces[other.nonce] >= other.validUntil /\ l.nonces[other.nonce] \in Nat
        BY <1>2, <3>1, <3>4 DEF LedgerOK, UsedOnce
      <4>2. CASE other.nonce = auth.nonce
        BY <1>1, <1>2, <3>1, <3>2, <4>1, <4>2
      <4>3. CASE other.nonce # auth.nonce
        BY <3>2, <4>1, <4>3
      <4> QED BY <4>2, <4>3
    <3> QED BY <1>5, <1>7, <3>3, <3>4
  <2> QED BY <2>3, <2>4 DEF UsedOnce
<1>10. LedgerOK(m)
  BY <1>7, <1>8, <1>9 DEF LedgerOK
<1> QED BY <1>2, <1>4, <1>5, <1>7, <1>10 DEF UseOf, m

LEMMA EnforceCases ==
  ASSUME NEW l, LedgerOK(l), NEW auth \in Authorizations
  PROVE  /\ \/ /\ EnforceAndSend(l, auth).ledger = Simulated(l)
               /\ ~Accepted(l, auth)
               /\ EnforceAndSend(l, auth).result \in {"expired", "refused"}
               /\ EnforceAndSend(l, auth).result = "refused" => Taken(l, auth.nonce)
            \/ /\ Accepted(l, auth)
               /\ EnforceAndSend(l, auth).result = "landed"
               /\ UseOf(Simulated(l), auth, EnforceAndSend(l, auth).ledger)
         /\ Quiet(l, Simulated(l)) /\ Simulated(l).prng = l.prng + 1
<1>1. Quiet(l, Simulated(l)) /\ Simulated(l).prng = l.prng + 1
  BY SimulatedQuiet
<1>2. LedgerOK(Simulated(l)) /\ (Accepted(Simulated(l), auth) <=> Accepted(l, auth))
  BY <1>1 DEF Quiet, Accepted, Expired, Taken
<1>3. CASE Accepted(l, auth)
  <2>1. UseOf(Simulated(l), auth, Used(Simulated(l), auth))
    BY <1>2, <1>3, UsedKeeps
  <2>2. EnforceAndSend(l, auth) = [ledger |-> Used(Simulated(l), auth), result |-> "landed"]
    BY <1>3 DEF EnforceAndSend, Accepted, EnforcedReads, SentFootprint
  <2> QED BY <1>1, <1>3, <2>1, <2>2
<1>4. CASE Expired(l, auth)
  <2>1. EnforceAndSend(l, auth) = [ledger |-> Simulated(l), result |-> "expired"]
    BY <1>4 DEF EnforceAndSend, Accepted
  <2> QED BY <1>1, <1>4, <2>1 DEF Accepted
<1>5. CASE ~Expired(l, auth) /\ ~Accepted(l, auth)
  <2>1. EnforceAndSend(l, auth) = [ledger |-> Simulated(l), result |-> "refused"]
    BY <1>5 DEF EnforceAndSend, Accepted
  <2> QED BY <1>1, <1>5, <2>1 DEF Accepted
<1> QED BY <1>3, <1>4, <1>5
-----------------------------------------------------------------------------
(***************************************************************************)
(* The invariant.  SandboxesHold is what brings sandboxed back to where it *)
(* was called; SaltsOK what lets the salt counter and the ledger go        *)
(* different ways: no ledger there is or was holds a contract of a default *)
(* salt that is still to come.                                             *)
(***************************************************************************)
RoundTripStates ==
  [phase : {"idle", "signing", "expired", "refused", "landed", "unrecorded", "unsigned"},
   auth : Authorizations \cup {None}]

FacadeTypes ==
  /\ payer \in wallets \cup {None} /\ wallets \subseteq Accounts /\ tokens \subseteq Assets
  /\ saltCounter \in Nat /\ calls \in Nat /\ saltCounter <= calls
  /\ overtaken \in BOOLEAN

LedgersOK ==
  /\ LedgerOK(ledger)
  /\ snapshots \in Seq(Ledgers)
  /\ \A id \in DOMAIN snapshots : LedgerOK(snapshots[id])

SandboxesHold ==
  /\ sandboxes \in Seq([snap : Nat, before : Ledgers])
  /\ \A i \in DOMAIN sandboxes :
       /\ sandboxes[i].snap \in DOMAIN snapshots
       /\ snapshots[sandboxes[i].snap] = sandboxes[i].before

SaltsOK(l) == \A contract \in l.contracts : contract.salt < saltCounter \/ contract.chosen
SaltsInv == SaltsOK(ledger) /\ \A id \in DOMAIN snapshots : SaltsOK(snapshots[id])

SignedInv ==
  /\ roundTrips \in [RoundTrips -> RoundTripStates]
  /\ \A r \in Waiting : roundTrips[r].auth \in Authorizations
  /\ ~overtaken => \A r \in Waiting : roundTrips[r].auth.validUntil <= ledger.seq + AUTH_TTL

FacadeInv == FacadeTypes /\ LedgersOK /\ SandboxesHold /\ SaltsInv /\ SignedInv
-----------------------------------------------------------------------------
(***************************************************************************)
(* What the calls do to the ledger.                                        *)
(***************************************************************************)
LEMMA SourcedQuiet ==
  ASSUME FacadeTypes, LedgerOK(ledger), NEW as \in wallets \cup {None}, NEW source,
         SourceOf(as, source)
  PROVE  /\ source \in Accounts /\ Quiet(ledger, Sourced(as, source))
         /\ Sourced(as, source).prng = ledger.prng
         /\ payer' \in wallets' \cup {None} /\ wallets' \subseteq Accounts
<1>1. source \in Accounts
  BY DEF SourceOf, SourcesOf, FacadeTypes
<1>2. Quiet(ledger, Sourced(as, source)) /\ Sourced(as, source).prng = ledger.prng
  BY <1>1, FundedQuiet, QuietReflexive DEF Sourced
<1> QED BY <1>1, <1>2 DEF SourceOf, FacadeTypes

LEMMA MintedQuiet ==
  ASSUME NEW l, LedgerOK(l), NEW a \in Accounts, NEW t \in Assets, NEW amount \in Nat,
         NEW m \in Minted(l, a, t, amount)
  PROVE  Quiet(l, m)
<1>1. CASE m = l
  BY <1>1, QuietReflexive
<1>2. CASE /\ MayReceive(l, a, t, amount)
           /\ m = [Credited(l, a, t, amount) EXCEPT !.minted[t] = @ + amount]
  <2>1. l.trustlines[a][t] # None /\ l.trustlines[a][t].balance + amount \in 0 .. LIMIT
    <3>1. l.trustlines[a][t] \in TrustlineEntries \cup {None}
      BY DEF LedgerOK, Ledgers
    <3>2. l.trustlines[a][t] # None /\ l.trustlines[a][t].balance + amount <= LIMIT
      BY <1>2 DEF MayReceive
    <3>3. l.trustlines[a][t].balance \in Nat
      BY <3>1, <3>2 DEF TrustlineEntries
    <3> QED BY <3>2, <3>3, FacadeAssumption
  <2>2. Quiet(l, Credited(l, a, t, amount))
    BY <2>1, CreditedQuiet
  <2>3. LedgerOK(Credited(l, a, t, amount))
    BY <2>2 DEF Quiet
  <2>4. Quiet(Credited(l, a, t, amount), m)
    BY <1>2, <2>3, MintedMoreQuiet
  <2> QED BY <2>2, <2>4, QuietTransitive
<1> QED BY <1>1, <1>2 DEF Minted

LEMMA EstablishedAndSimulated ==
  ASSUME NEW l, LedgerOK(l), NEW a \in Accounts, NEW t \in Assets
  PROVE  /\ Quiet(l, Simulated(EstablishTrustlineIfMissing(l, a, t)))
         /\ LedgerOK(Simulated(EstablishTrustlineIfMissing(l, a, t)))
<1> DEFINE m == EstablishTrustlineIfMissing(l, a, t)
<1>1. Quiet(l, m) /\ LedgerOK(m)
  BY EstablishIfMissingQuiet DEF Quiet
<1> HIDE DEF m
<1>2. Quiet(m, Simulated(m))
  BY <1>1, SimulatedQuiet
<1>3. Quiet(l, Simulated(m))
  BY <1>1, <1>2, QuietTransitive
<1> QED BY <1>3 DEF Quiet, m

LEMMA TransferQuiet ==
  ASSUME NEW l, LedgerOK(l), NEW a \in Accounts, NEW b \in Accounts, a # b, NEW t \in Assets,
         NEW amount \in Nat, MaySend(l, a, t, amount), MayReceive(l, b, t, amount)
  PROVE  Quiet(l, Credited(Credited(l, a, t, -amount), b, t, amount))
<1> DEFINE m == Credited(l, a, t, -amount)
<1>1. /\ l.trustlines[a][t] \in TrustlineEntries \cup {None}
      /\ l.trustlines[b][t] \in TrustlineEntries \cup {None}
  BY DEF LedgerOK, Ledgers
<1>2. /\ l.trustlines[a][t] # None /\ l.trustlines[a][t].balance >= amount
      /\ l.trustlines[b][t] # None /\ l.trustlines[b][t].balance + amount <= LIMIT
  BY DEF MaySend, MayReceive
<1>3. /\ l.trustlines[a][t].balance \in 0 .. LIMIT /\ l.trustlines[b][t].balance \in 0 .. LIMIT
      /\ LIMIT \in Nat /\ -amount \in Int
  BY <1>1, <1>2, FacadeAssumption DEF TrustlineEntries
<1>4. l.trustlines[a][t].balance + (-amount) \in 0 .. LIMIT
  BY <1>2, <1>3
<1>5. Quiet(l, m) /\ m.trustlines[b] = l.trustlines[b]
  BY <1>2, <1>3, <1>4, CreditedQuiet
<1> HIDE DEF m
<1>6. LedgerOK(m) /\ m.trustlines[b][t] # None /\ m.trustlines[b][t].balance + amount \in 0 .. LIMIT
  BY <1>2, <1>3, <1>5 DEF Quiet
<1>7. Quiet(m, Credited(m, b, t, amount))
  BY <1>6, CreditedQuiet
<1> QED BY <1>5, <1>7, QuietTransitive DEF m

LEMMA ContractDeployed ==
  ASSUME NEW l, LedgerOK(l), NEW contract \in Contracts
  PROVE  /\ LedgerOK(Deployed(l, contract))
         /\ Deployed(l, contract).seq = l.seq /\ Deployed(l, contract).prng = l.prng
         /\ Deployed(l, contract).nonces = l.nonces
         /\ Deployed(l, contract).contracts \subseteq l.contracts \cup {contract}
         /\ \/ contract \in Deployed(l, contract).contracts
            \/ \E c \in l.contracts : SameAddress(c, contract)
<1> DEFINE m == Deployed(l, contract)
           x == l.contracts \cup {contract}
<1>1. l \in Ledgers /\ x \in SUBSET Contracts
  BY DEF LedgerOK, Ledgers
<1>2. CASE \E c \in l.contracts : SameAddress(c, contract)
  <2>1. m = l
    BY <1>2 DEF Deployed
  <2> QED BY <1>2, <2>1
<1>3. CASE ~ \E c \in l.contracts : SameAddress(c, contract)
  <2>1. m = [l EXCEPT !.contracts = x]
    BY <1>1, <1>3 DEF Deployed, Ledgers
  <2>2. contract \in x
    OBVIOUS
  <2> HIDE DEF x, m
  <2>3. /\ m \in Ledgers /\ m.contracts = x
        /\ m.seq = l.seq /\ m.prng = l.prng /\ m.nonces = l.nonces
        /\ m.accounts = l.accounts /\ m.trustlines = l.trustlines
        /\ m.uncounted = l.uncounted /\ m.used = l.used /\ m.authorized = l.authorized
    BY <1>1, <2>1 DEF Ledgers
  <2>4. \A a \in Accounts : Trustlines(m, a) = Trustlines(l, a)
    BY <2>3 DEF Trustlines
  <2>5. Counted(m) /\ UsedOnce(m)
    BY <2>3, <2>4 DEF LedgerOK, Counted, UsedOnce
  <2>6. LedgerOK(m)
    BY <2>3, <2>5 DEF LedgerOK
  <2> QED BY <2>2, <2>3, <2>6 DEF x, m
<1> QED BY <1>2, <1>3

\* The calls that are quiet.
QuietCall ==
  \/ \E a \in Accounts : Fund(a) \/ WithPayer(a)
  \/ \E t \in Assets :
       \/ DeployToken(t) \/ \E a \in Accounts : SetupWorld(a, t)
       \/ \E a \in Accounts, authorized \in BOOLEAN : Trust(a, t, authorized)
       \/ \E a \in Accounts, amount \in 1 .. LIMIT :
            Mint(a, t, amount) \/ \E b \in Accounts : Transfer(a, b, t, amount)
  \/ Snapshot \/ EnterSandbox
  \/ \E r \in RoundTrips : Begin(r) \/ SignerFails(r)

LEMMA TokenCallsQuiet ==
  ASSUME FacadeTypes, LedgerOK(ledger), NEW t \in Assets
  PROVE  /\ DeployToken(t) => Quiet(ledger, ledger')
         /\ \A a \in Accounts : SetupWorld(a, t) => Quiet(ledger, ledger')
         /\ \A a \in Accounts, amount \in 1 .. LIMIT :
              /\ Mint(a, t, amount) => Quiet(ledger, ledger')
              /\ \A b \in Accounts : Transfer(a, b, t, amount) => Quiet(ledger, ledger')
<1>1. IssuerOf[t] \in Accounts /\ 1 .. LIMIT \subseteq Nat
  BY FacadeAssumption
<1>2. ASSUME DeployToken(t)
      PROVE  Quiet(ledger, ledger')
  <2> DEFINE paid == IF IssuerOf[t] \in wallets THEN ledger ELSE Funded(ledger, IssuerOf[t])
             l == Simulated(paid)
  <2>1. Quiet(ledger, paid) /\ LedgerOK(paid)
    BY <1>1, FundedQuiet, QuietReflexive DEF Quiet
  <2> HIDE DEF paid
  <2>2. Quiet(paid, l)
    BY <2>1, SimulatedQuiet
  <2>3. Quiet(ledger, l) /\ LedgerOK(l)
    BY <2>1, <2>2, QuietTransitive DEF Quiet
  <2>4. ledger' = l \/ ledger' = [l EXCEPT !.assets = @ \cup {t}]
    BY <1>2 DEF DeployToken, paid
  <2> HIDE DEF l
  <2>5. Quiet(l, [l EXCEPT !.assets = @ \cup {t}])
    BY <2>3, AssetDeployedQuiet
  <2>6. Quiet(ledger, [l EXCEPT !.assets = @ \cup {t}])
    BY <2>3, <2>5, QuietTransitive
  <2> QED BY <2>3, <2>4, <2>6
<1>3. ASSUME NEW a \in Accounts, SetupWorld(a, t)
      PROVE  Quiet(ledger, ledger')
  <2> DEFINE paid == Funded(ledger, a)
             funded == Funded(paid, IssuerOf[t])
             seen == Simulated(funded)
             deployed == [seen EXCEPT !.assets = @ \cup {t}]
             trusted == Simulated(EstablishTrustlineIfMissing(deployed, a, t))
  <2>0. ledger' \in Minted(trusted, a, t, 1)
    BY <1>3 DEF SetupWorld
  <2>1. Quiet(ledger, paid) /\ LedgerOK(paid)
    BY FundedQuiet DEF Quiet
  <2> HIDE DEF paid
  <2>2. Quiet(paid, funded)
    BY <1>1, <2>1, FundedQuiet
  <2>3. Quiet(ledger, funded) /\ LedgerOK(funded)
    BY <2>1, <2>2, QuietTransitive DEF Quiet
  <2> HIDE DEF funded
  <2>4. Quiet(funded, seen)
    BY <2>3, SimulatedQuiet
  <2>5. Quiet(ledger, seen) /\ LedgerOK(seen)
    BY <2>3, <2>4, QuietTransitive DEF Quiet
  <2> HIDE DEF seen
  <2>6. Quiet(seen, deployed)
    BY <2>5, AssetDeployedQuiet
  <2>7. Quiet(ledger, deployed) /\ LedgerOK(deployed)
    BY <2>5, <2>6, QuietTransitive DEF Quiet
  <2> HIDE DEF deployed
  <2>8. Quiet(deployed, trusted)
    BY <2>7, EstablishedAndSimulated
  <2>9. Quiet(ledger, trusted) /\ LedgerOK(trusted)
    BY <2>7, <2>8, QuietTransitive DEF Quiet
  <2> HIDE DEF trusted
  <2>10. Quiet(trusted, ledger')
    BY <2>0, <2>9, MintedQuiet
  <2> QED BY <2>9, <2>10, QuietTransitive
<1>4. ASSUME NEW a \in Accounts, NEW amount \in 1 .. LIMIT, Mint(a, t, amount)
      PROVE  Quiet(ledger, ledger')
  <2> DEFINE l == Simulated(EstablishTrustlineIfMissing(ledger, a, t))
  <2>1. Quiet(ledger, l) /\ LedgerOK(l)
    BY EstablishedAndSimulated
  <2>2. ledger' \in Minted(l, a, t, amount) /\ amount \in Nat
    BY <1>1, <1>4 DEF Mint
  <2> HIDE DEF l
  <2>3. Quiet(l, ledger')
    BY <2>1, <2>2, MintedQuiet
  <2> QED BY <2>1, <2>3, QuietTransitive
<1>5. ASSUME NEW a \in Accounts, NEW amount \in 1 .. LIMIT, NEW b \in Accounts,
             Transfer(a, b, t, amount)
      PROVE  Quiet(ledger, ledger')
  <2> DEFINE l == Simulated(EstablishTrustlineIfMissing(ledger, b, t))
  <2>1. Quiet(ledger, l) /\ LedgerOK(l)
    BY EstablishedAndSimulated
  <2>2. /\ a # b /\ amount \in Nat
        /\ \/ ledger' = l
           \/ /\ MaySend(l, a, t, amount) /\ MayReceive(l, b, t, amount)
              /\ ledger' = Credited(Credited(l, a, t, -amount), b, t, amount)
    BY <1>1, <1>5 DEF Transfer
  <2> HIDE DEF l
  <2>3. MaySend(l, a, t, amount) /\ MayReceive(l, b, t, amount)
          => Quiet(l, Credited(Credited(l, a, t, -amount), b, t, amount))
    BY <2>1, <2>2, TransferQuiet
  <2> QED BY <2>1, <2>2, <2>3, QuietTransitive
<1> QED BY <1>2, <1>3, <1>4, <1>5

LEMMA QuietCalls ==
  ASSUME FacadeTypes, LedgerOK(ledger), QuietCall
  PROVE  Quiet(ledger, ledger')
<1>1. ASSUME NEW a \in Accounts, Fund(a) \/ WithPayer(a)
      PROVE  Quiet(ledger, ledger')
  BY <1>1, FundedQuiet, QuietReflexive DEF Fund, WithPayer
<1>2. ASSUME NEW t \in Assets, NEW a \in Accounts, NEW authorized \in BOOLEAN,
             Trust(a, t, authorized)
      PROVE  Quiet(ledger, ledger')
  BY <1>2, EstablishQuiet DEF Trust
<1>3. CASE Snapshot \/ EnterSandbox
  BY <1>3, QuietReflexive DEF Snapshot, EnterSandbox
<1>4. ASSUME NEW r \in RoundTrips, Begin(r) \/ SignerFails(r)
      PROVE  Quiet(ledger, ledger')
  BY <1>4, SimulatedQuiet, QuietReflexive DEF Begin, SignerFails
<1>5. ASSUME NEW t \in Assets,
             \/ DeployToken(t) \/ \E a \in Accounts : SetupWorld(a, t)
             \/ \E a \in Accounts, amount \in 1 .. LIMIT :
                  Mint(a, t, amount) \/ \E b \in Accounts : Transfer(a, b, t, amount)
      PROVE  Quiet(ledger, ledger')
  BY <1>5, TokenCallsQuiet
<1> QED BY <1>1, <1>2, <1>3, <1>4, <1>5 DEF QuietCall

LEMMA DeployLedger ==
  ASSUME FacadeTypes, LedgerOK(ledger), NEW as \in wallets \cup {None},
         NEW salt \in ExplicitSalts \cup {None}, Deploy(as, salt)
  PROVE  /\ LedgerOK(ledger') /\ ledger'.seq = ledger.seq /\ ledger'.prng >= ledger.prng
         /\ ledger'.nonces = ledger.nonces
         /\ \E source \in SourcesOf(as) :
              /\ SourceOf(as, source)
              /\ ContractOf(source, salt) \in Contracts
              /\ ledger'.contracts \subseteq ledger.contracts \cup {ContractOf(source, salt)}
              /\ \/ ContractOf(source, salt) \in ledger'.contracts
                 \/ \E c \in ledger.contracts : SameAddress(c, ContractOf(source, salt))
<1>1. PICK source \in SourcesOf(as) :
        /\ SourceOf(as, source)
        /\ ledger' = Deployed(Simulated(Sourced(as, source)), ContractOf(source, salt))
  BY DEF Deploy
<1> DEFINE l == Sourced(as, source)
           m == Simulated(l)
           contract == ContractOf(source, salt)
<1>2. source \in Accounts /\ Quiet(ledger, l) /\ LedgerOK(l)
  BY <1>1, SourcedQuiet DEF Quiet
<1>3. contract \in Contracts
  BY <1>2, FacadeAssumption DEF FacadeTypes, ContractOf, NextSalt, Contracts
<1> HIDE DEF l, contract
<1>4. Quiet(l, m)
  BY <1>2, SimulatedQuiet
<1>5. Quiet(ledger, m)
  BY <1>2, <1>4, QuietTransitive
<1> HIDE DEF m
<1>6. LedgerOK(m)
  BY <1>4 DEF Quiet
<1>7. /\ LedgerOK(ledger') /\ ledger'.seq = m.seq /\ ledger'.prng = m.prng
      /\ ledger'.nonces = m.nonces
      /\ ledger'.contracts \subseteq m.contracts \cup {contract}
      /\ contract \in ledger'.contracts \/ \E c \in m.contracts : SameAddress(c, contract)
  BY <1>1, <1>3, <1>6, ContractDeployed DEF m, l, contract
<1> QED BY <1>1, <1>3, <1>5, <1>7 DEF Quiet, contract

\* A call that may use an authorization.
LEMMA UseReached ==
  ASSUME NEW l, LedgerOK(l), NEW m, Quiet(l, m), NEW auth, NEW n, UseOf(m, auth, n)
  PROVE  /\ LedgerOK(n) /\ n.seq = l.seq /\ n.prng >= l.prng /\ n.contracts = l.contracts
         /\ n.prng = m.prng
         /\ \E taken \in Nat : taken > 0 /\ n.nonces = [l.nonces EXCEPT ![auth.nonce] = taken]
  BY DEF Quiet, UseOf

LEMMA InvokeLedger ==
  ASSUME FacadeTypes, LedgerOK(ledger), NEW as \in wallets \cup {None}, Invoke(as)
  PROVE  /\ LedgerOK(ledger') /\ ledger'.seq = ledger.seq /\ ledger'.prng > ledger.prng
         /\ ledger'.contracts = ledger.contracts
         /\ \/ ledger'.nonces = ledger.nonces
            \/ \E taken \in Nat : ledger'.nonces = [ledger.nonces EXCEPT ![ledger.prng] = taken]
<1>1. PICK source \in SourcesOf(as) :
        /\ SourceOf(as, source)
        /\ ledger' = IF Taken(Sourced(as, source), Sourced(as, source).prng)
                     THEN Simulated(Sourced(as, source))
                     ELSE EnforceAndSend(Simulated(Sourced(as, source)),
                                         Recorded(Sourced(as, source))).ledger
  BY DEF Invoke
<1> DEFINE l == Sourced(as, source)
           recorded == Simulated(l)
           auth == Recorded(l)
<1>2. Quiet(ledger, l) /\ LedgerOK(l) /\ l.prng = ledger.prng
  BY <1>1, SourcedQuiet DEF Quiet
<1> HIDE DEF l
<1>3. /\ l.prng \in 0 .. MaxSimulations /\ l.seq \in Nat /\ l.prng \in Nat
      /\ ledger.prng < MaxSimulations
  <2>1. l \in Ledgers /\ ledger \in Ledgers
    BY <1>2 DEF LedgerOK
  <2>2. l.seq \in Nat /\ l.prng \in Nat
    BY <2>1 DEF Ledgers
  <2>3. ledger.prng < MaxSimulations
    BY DEF Invoke, MaySimulate
  <2> QED BY <1>2, <2>2, <2>3, Bounds
<1>4. auth \in Authorizations /\ auth.nonce = ledger.prng
  <2>1. l.seq + AUTH_TTL \in Nat
    BY <1>3, Bounds
  <2> QED BY <1>2, <1>3, <2>1 DEF Recorded, Authorizations
<1>5. Quiet(l, recorded) /\ LedgerOK(recorded) /\ recorded.prng = l.prng + 1
  BY <1>2, SimulatedQuiet DEF Quiet
<1>6. Quiet(ledger, recorded)
  BY <1>2, <1>5, QuietTransitive
<1>7. ledger' = recorded \/ ledger' = EnforceAndSend(recorded, auth).ledger
  BY <1>1 DEF l
<1> HIDE DEF recorded, auth
<1>8. CASE ledger' = recorded
  BY <1>2, <1>3, <1>5, <1>6, <1>8 DEF Quiet
<1>9. CASE ledger' = Simulated(recorded)
  <2>1. Quiet(recorded, ledger') /\ ledger'.prng = recorded.prng + 1
    BY <1>5, <1>9, SimulatedQuiet
  <2>2. Quiet(ledger, ledger')
    BY <1>6, <2>1, QuietTransitive
  <2> QED BY <1>2, <1>3, <1>5, <2>1, <2>2 DEF Quiet
<1>10. CASE UseOf(Simulated(recorded), auth, ledger')
  <2>1. Quiet(recorded, Simulated(recorded)) /\ Simulated(recorded).prng = recorded.prng + 1
    BY <1>5, SimulatedQuiet
  <2>2. Quiet(ledger, Simulated(recorded))
    BY <1>6, <2>1, QuietTransitive
  <2>3. /\ LedgerOK(ledger') /\ ledger'.seq = ledger.seq /\ ledger'.contracts = ledger.contracts
        /\ ledger'.prng = Simulated(recorded).prng
        /\ \E taken \in Nat : ledger'.nonces = [ledger.nonces EXCEPT ![auth.nonce] = taken]
    BY <1>10, <2>2, UseReached
  <2> QED BY <1>2, <1>3, <1>4, <1>5, <2>1, <2>3
<1> QED BY <1>4, <1>5, <1>7, <1>8, <1>9, <1>10, EnforceCases

LEMMA AnswerLedger ==
  ASSUME FacadeTypes, LedgerOK(ledger), SignedInv, NEW r \in RoundTrips, Answer(r)
  PROVE  /\ LedgerOK(ledger') /\ ledger'.seq = ledger.seq /\ ledger'.prng > ledger.prng
         /\ ledger'.contracts = ledger.contracts
         /\ \E result \in {"expired", "refused", "landed"} :
              /\ roundTrips' = [roundTrips EXCEPT ![r] = Ended(result)]
              /\ result = "refused" => Taken(ledger, roundTrips[r].auth.nonce)
         /\ \/ ledger'.nonces = ledger.nonces
            \/ \E taken \in Nat :
                 ledger'.nonces = [ledger.nonces EXCEPT ![roundTrips[r].auth.nonce] = taken]
<1> DEFINE auth == roundTrips[r].auth
           done == EnforceAndSend(ledger, auth)
<1>1. auth \in Authorizations
  BY DEF SignedInv, Answer
<1>2. ledger' = done.ledger /\ roundTrips' = [roundTrips EXCEPT ![r] = Ended(done.result)]
  BY DEF Answer
<1> HIDE DEF auth, done
<1>3. /\ Quiet(ledger, Simulated(ledger)) /\ Simulated(ledger).prng = ledger.prng + 1
      /\ ledger.prng \in Nat
  BY SimulatedQuiet DEF LedgerOK, Ledgers
<1>4. CASE /\ ledger' = Simulated(ledger)
           /\ done.result \in {"expired", "refused"}
           /\ done.result = "refused" => Taken(ledger, auth.nonce)
  <2>1. ledger'.prng > ledger.prng
    BY <1>3, <1>4
  <2> QED BY <1>2, <1>3, <1>4, <2>1 DEF Quiet, auth
<1>5. CASE done.result = "landed" /\ UseOf(Simulated(ledger), auth, ledger')
  <2> DEFINE m == Simulated(ledger)
  <2>0. Quiet(ledger, m) /\ UseOf(m, auth, ledger')
    BY <1>3, <1>5
  <2> HIDE DEF m
  <2>1. /\ LedgerOK(ledger') /\ ledger'.seq = ledger.seq /\ ledger'.contracts = ledger.contracts
        /\ ledger'.prng = m.prng
        /\ \E taken \in Nat : ledger'.nonces = [ledger.nonces EXCEPT ![auth.nonce] = taken]
    BY <2>0 DEF Quiet, UseOf
  <2>2. ledger'.prng > ledger.prng
    BY <1>3, <2>1 DEF m
  <2> QED BY <1>2, <1>5, <2>1, <2>2 DEF auth
<1> QED BY <1>1, <1>2, <1>4, <1>5, EnforceCases DEF done
-----------------------------------------------------------------------------
(***************************************************************************)
(* Steps.  A step that does not go back leads the ledger onwards.          *)
(***************************************************************************)
Onwards ==
  /\ LedgerOK(ledger')
  /\ ledger'.seq >= ledger.seq
  /\ overtaken' = overtaken

LEMMA WarpLedger ==
  ASSUME LedgerOK(ledger), NEW sequence \in FirstLedger .. MaxLedger, WarpToLedger(sequence)
  PROVE  /\ Onwards /\ ledger'.contracts = ledger.contracts
         /\ ledger'.nonces = ledger.nonces /\ ledger'.prng = ledger.prng
<1>1. ledger \in Ledgers /\ sequence \in Nat /\ sequence >= FirstLedger
  BY Bounds DEF LedgerOK
<1>2. ledger' = [ledger EXCEPT !.seq = sequence] /\ sequence >= ledger.seq
      /\ overtaken' = overtaken
  BY DEF WarpToLedger
<1>3. /\ ledger' \in Ledgers /\ ledger'.seq = sequence
      /\ ledger'.contracts = ledger.contracts /\ ledger'.nonces = ledger.nonces
      /\ ledger'.accounts = ledger.accounts /\ ledger'.trustlines = ledger.trustlines
      /\ ledger'.uncounted = ledger.uncounted /\ ledger'.used = ledger.used
      /\ ledger'.authorized = ledger.authorized /\ ledger'.prng = ledger.prng
  BY <1>1, <1>2 DEF Ledgers
<1>4. \A a \in Accounts : Trustlines(ledger', a) = Trustlines(ledger, a)
  BY <1>3 DEF Trustlines
<1>5. Counted(ledger') /\ UsedOnce(ledger')
  BY <1>3, <1>4 DEF LedgerOK, Counted, UsedOnce
<1> QED BY <1>1, <1>2, <1>3, <1>5 DEF LedgerOK, Onwards

DeployCall == \E as \in wallets \cup {None}, salt \in ExplicitSalts \cup {None} : Deploy(as, salt)
InvokeCall == \E as \in wallets \cup {None} : Invoke(as)
WarpCall == \E sequence \in FirstLedger .. MaxLedger : WarpToLedger(sequence)
Return == (\E id \in DOMAIN snapshots : Restore(id)) \/ LeaveSandbox

LEMMA NextCases ==
  ASSUME Next
  PROVE  \/ QuietCall \/ WarpCall \/ DeployCall \/ InvokeCall \/ Return
         \/ \E r \in RoundTrips : Answer(r)
  BY DEF Next, QuietCall, WarpCall, DeployCall, InvokeCall, Return

\* The facade's own state: only a deployment moves the salt counter.
LEMMA FacadeTypesInductive ==
  ASSUME FacadeTypes, LedgerOK(ledger), [Next]_vars
  PROVE  FacadeTypes' /\ saltCounter' >= saltCounter
<1>1. CASE UNCHANGED <<payer, wallets, tokens, saltCounter>>
           /\ (calls' = calls \/ calls' = calls + 1) /\ overtaken' \in BOOLEAN
  BY <1>1 DEF FacadeTypes
<1>2. ASSUME NEW a \in Accounts, Fund(a) \/ WithPayer(a)
      PROVE  FacadeTypes' /\ saltCounter' >= saltCounter
  BY <1>2 DEF Fund, WithPayer, MayCall, FacadeTypes
<1>3. CASE DeployCall
  <2>1. PICK as \in wallets \cup {None}, salt \in ExplicitSalts \cup {None} : Deploy(as, salt)
    BY <1>3 DEF DeployCall
  <2>2. payer' \in wallets' \cup {None} /\ wallets' \subseteq Accounts
    BY <2>1, SourcedQuiet DEF Deploy
  <2>3. /\ calls' = calls + 1 /\ saltCounter' \in {saltCounter, saltCounter + 1}
        /\ UNCHANGED <<tokens, overtaken>>
    BY <2>1 DEF Deploy, MaySimulate, MayCall
  <2> QED BY <2>2, <2>3 DEF FacadeTypes
<1>4. CASE InvokeCall
  <2>1. PICK as \in wallets \cup {None} : Invoke(as)
    BY <1>4 DEF InvokeCall
  <2>2. payer' \in wallets' \cup {None} /\ wallets' \subseteq Accounts
    BY <2>1, SourcedQuiet DEF Invoke
  <2>3. calls' = calls + 1 /\ UNCHANGED <<saltCounter, tokens, overtaken>>
    BY <2>1 DEF Invoke, MaySimulate, MayCall
  <2> QED BY <2>2, <2>3 DEF FacadeTypes
<1>5. ASSUME NEW t \in Assets, DeployToken(t) \/ \E a \in Accounts : SetupWorld(a, t)
      PROVE  FacadeTypes' /\ saltCounter' >= saltCounter
  <2>1. IssuerOf[t] \in Accounts
    BY FacadeAssumption
  <2>2. /\ payer' = payer /\ saltCounter' = saltCounter /\ overtaken' = overtaken
        /\ calls' = calls + 1 /\ tokens' \subseteq tokens \cup {t}
        /\ wallets \subseteq wallets' /\ wallets' \subseteq Accounts
    BY <1>5, <2>1 DEF DeployToken, SetupWorld, MaySimulate, MayCall, FacadeTypes
  <2> QED BY <2>2 DEF FacadeTypes
<1>6. ASSUME NEW t \in Assets,
             \/ \E a \in Accounts, authorized \in BOOLEAN : Trust(a, t, authorized)
             \/ \E a \in Accounts, amount \in 1 .. LIMIT :
                  Mint(a, t, amount) \/ \E b \in Accounts : Transfer(a, b, t, amount)
      PROVE  FacadeTypes' /\ saltCounter' >= saltCounter
  BY <1>1, <1>6 DEF Trust, Mint, Transfer, MaySimulate, MayCall, facade, FacadeTypes
<1>7. CASE Snapshot \/ EnterSandbox \/ WarpCall \/ Return
  BY <1>1, <1>7
  DEF Snapshot, EnterSandbox, WarpCall, WarpToLedger, Return, Restore, LeaveSandbox, Restored,
      MayCall, facade, FacadeTypes
<1>8. ASSUME NEW r \in RoundTrips, Begin(r) \/ Answer(r) \/ SignerFails(r)
      PROVE  FacadeTypes' /\ saltCounter' >= saltCounter
  BY <1>1, <1>8 DEF Begin, Answer, SignerFails, MaySimulate, MayCall, facade, FacadeTypes
<1>9. CASE UNCHANGED vars
  BY <1>1, <1>9 DEF vars, FacadeTypes
<1> QED
  BY <1>2, <1>3, <1>4, <1>5, <1>6, <1>7, <1>8, <1>9, NextCases DEF QuietCall

\* A step that goes back leads to a ledger that was.
LEMMA ReturnFacts ==
  ASSUME SandboxesHold, Return
  PROVE  /\ \E id \in DOMAIN snapshots : ledger' = snapshots[id]
         /\ overtaken' = (overtaken \/ Waiting # {})
         /\ UNCHANGED <<snapshots, facade, roundTrips>>
<1>1. CASE LeaveSandbox
  <2>1. Len(sandboxes) \in DOMAIN sandboxes
    BY <1>1 DEF LeaveSandbox, SandboxesHold
  <2>2. SandboxSnapshot \in DOMAIN snapshots
    BY <2>1 DEF SandboxesHold, SandboxSnapshot
  <2> QED BY <1>1, <2>2 DEF LeaveSandbox, Restored
<1>2. ASSUME NEW id \in DOMAIN snapshots, Restore(id)
      PROVE  /\ ledger' = snapshots[id]
             /\ overtaken' = (overtaken \/ Waiting # {})
             /\ UNCHANGED <<snapshots, facade, roundTrips>>
  BY <1>2 DEF Restore, Restored
<1> QED BY <1>1, <1>2 DEF Return

\* Which steps add a snapshot, enter or leave a sandbox, move the salt counter, take
\* a round trip further or go back while one waits.
LEMMA Frames ==
  ASSUME [Next]_vars
  PROVE  /\ UNCHANGED snapshots \/ Snapshot \/ EnterSandbox
         /\ UNCHANGED sandboxes \/ EnterSandbox \/ LeaveSandbox
         /\ UNCHANGED saltCounter \/ DeployCall
         /\ UNCHANGED overtaken \/ Return
         /\ \/ UNCHANGED roundTrips
            \/ \E r \in RoundTrips : Begin(r) \/ SignerFails(r) \/ Answer(r)
<1> DEFINE Framed == UNCHANGED <<snapshots, sandboxes, saltCounter, roundTrips, overtaken>>
<1>1. ASSUME NEW a \in Accounts, Fund(a) \/ WithPayer(a)
      PROVE  Framed
  BY <1>1 DEF Fund, WithPayer
<1>2. ASSUME NEW t \in Assets, DeployToken(t) \/ \E a \in Accounts : SetupWorld(a, t)
      PROVE  Framed
  <2>1. CASE DeployToken(t)
    BY <2>1 DEF DeployToken
  <2>2. ASSUME NEW a \in Accounts, SetupWorld(a, t)
        PROVE  Framed
    BY <2>2 DEF SetupWorld
  <2> QED BY <1>2, <2>1, <2>2
<1>3. ASSUME NEW t \in Assets,
             \/ \E a \in Accounts, authorized \in BOOLEAN : Trust(a, t, authorized)
             \/ \E a \in Accounts, amount \in 1 .. LIMIT :
                  Mint(a, t, amount) \/ \E b \in Accounts : Transfer(a, b, t, amount)
      PROVE  Framed
  <2>1. ASSUME NEW a, NEW authorized, Trust(a, t, authorized)
        PROVE  Framed
    BY <2>1 DEF Trust, facade
  <2>2. ASSUME NEW a, NEW amount, Mint(a, t, amount)
        PROVE  Framed
    BY <2>2 DEF Mint, facade
  <2>3. ASSUME NEW a, NEW b, NEW amount, Transfer(a, b, t, amount)
        PROVE  Framed
    BY <2>3 DEF Transfer, facade
  <2> HIDE DEF Framed
  <2> QED BY <1>3, <2>1, <2>2, <2>3
<1>4. ASSUME NEW r \in RoundTrips, Begin(r) \/ SignerFails(r) \/ Answer(r)
      PROVE  UNCHANGED <<snapshots, sandboxes, saltCounter, overtaken>>
  <2>1. CASE Begin(r)
    BY <2>1 DEF Begin, facade
  <2>2. CASE SignerFails(r)
    BY <2>2 DEF SignerFails, facade
  <2>3. CASE Answer(r)
    BY <2>3 DEF Answer, facade
  <2> QED BY <1>4, <2>1, <2>2, <2>3
<1>5. CASE WarpCall
  <2>1. Framed
    BY <1>5 DEF WarpCall, WarpToLedger, facade
  <2> QED BY <2>1
<1>6. CASE InvokeCall
  <2>1. Framed
    BY <1>6 DEF InvokeCall, Invoke
  <2> QED BY <2>1
<1>7. CASE DeployCall
  <2>1. UNCHANGED <<snapshots, sandboxes, roundTrips, overtaken>>
    BY <1>7 DEF DeployCall, Deploy
  <2> QED BY <1>7, <2>1
<1>8. CASE Snapshot
  <2>1. UNCHANGED <<sandboxes, saltCounter, roundTrips, overtaken>>
    BY <1>8 DEF Snapshot, facade
  <2> QED BY <1>8, <2>1
<1>9. CASE EnterSandbox
  <2>1. UNCHANGED <<saltCounter, roundTrips, overtaken>>
    BY <1>9 DEF EnterSandbox, facade
  <2> QED BY <1>9, <2>1
<1>10. CASE Return
  <2>1. UNCHANGED <<snapshots, saltCounter, roundTrips>> /\ (UNCHANGED sandboxes \/ LeaveSandbox)
    BY <1>10 DEF Return, Restore, LeaveSandbox, facade
  <2> QED BY <1>10, <2>1
<1>11. CASE UNCHANGED vars
  <2>1. Framed
    BY <1>11 DEF vars
  <2> QED BY <2>1
<1> HIDE DEF Framed
<1>12. CASE Framed
  BY <1>12 DEF Framed
<1>13. CASE QuietCall
  BY <1>1, <1>2, <1>3, <1>4, <1>8, <1>9, <1>12, <1>13 DEF QuietCall
<1> QED BY <1>4, <1>5, <1>6, <1>7, <1>10, <1>11, <1>12, <1>13, NextCases

LEMMA OnwardsOrBack ==
  ASSUME FacadeInv, [Next]_vars
  PROVE  Onwards \/ Return
<1>1. FacadeTypes /\ LedgerOK(ledger) /\ SignedInv
  BY DEF FacadeInv, LedgersOK
<1>2. CASE QuietCall
  <2>1. Quiet(ledger, ledger')
    BY <1>1, <1>2, QuietCalls
  <2>2. ledger.seq \in Nat
    BY <1>1 DEF LedgerOK, Ledgers
  <2>3. overtaken' = overtaken \/ Return
    BY Frames
  <2> QED BY <2>1, <2>2, <2>3 DEF Quiet, Onwards
<1>3. CASE WarpCall
  BY <1>1, <1>3, WarpLedger DEF WarpCall
<1>4. ledger.seq \in Nat
  BY <1>1 DEF LedgerOK, Ledgers
<1>5. CASE DeployCall
  <2>1. PICK as \in wallets \cup {None}, salt \in ExplicitSalts \cup {None} : Deploy(as, salt)
    BY <1>5 DEF DeployCall
  <2>2. LedgerOK(ledger') /\ ledger'.seq = ledger.seq
    BY <1>1, <2>1, DeployLedger
  <2>3. overtaken' = overtaken
    BY <2>1 DEF Deploy
  <2>4. ledger'.seq >= ledger.seq
    BY <1>4, <2>2
  <2> QED BY <2>2, <2>3, <2>4 DEF Onwards
<1>6. CASE InvokeCall
  <2>1. PICK as \in wallets \cup {None} : Invoke(as)
    BY <1>6 DEF InvokeCall
  <2>2. LedgerOK(ledger') /\ ledger'.seq = ledger.seq
    BY <1>1, <2>1, InvokeLedger
  <2>3. overtaken' = overtaken
    BY <2>1 DEF Invoke
  <2>4. ledger'.seq >= ledger.seq
    BY <1>4, <2>2
  <2> QED BY <2>2, <2>3, <2>4 DEF Onwards
<1>7. ASSUME NEW r \in RoundTrips, Answer(r)
      PROVE  Onwards
  <2>1. LedgerOK(ledger') /\ ledger'.seq = ledger.seq
    BY <1>1, <1>7, AnswerLedger
  <2> QED BY <1>4, <1>7, <2>1 DEF Onwards, Answer
<1>8. CASE UNCHANGED vars
  BY <1>1, <1>4, <1>8 DEF vars, Onwards
<1> QED BY <1>2, <1>3, <1>5, <1>6, <1>7, <1>8, NextCases

\* Snapshots are only added to.
LEMMA SnapshotsGrow ==
  ASSUME FacadeInv, [Next]_vars
  PROVE  \/ UNCHANGED snapshots
         \/ /\ snapshots' = Append(snapshots, ledger) /\ ledger' = ledger
            /\ Snapshot \/ EnterSandbox
<1> QED BY Frames DEF Snapshot, EnterSandbox

LEMMA LedgersInductive ==
  ASSUME FacadeInv, [Next]_vars
  PROVE  LedgersOK'
<1>1. LedgerOK(ledger) /\ snapshots \in Seq(Ledgers) /\ SandboxesHold
      /\ \A id \in DOMAIN snapshots : LedgerOK(snapshots[id])
  BY DEF FacadeInv, LedgersOK
<1>2. LedgerOK(ledger')
  BY <1>1, OnwardsOrBack, ReturnFacts DEF Onwards
<1>3. CASE UNCHANGED snapshots
  BY <1>1, <1>2, <1>3 DEF LedgersOK
<1>4. CASE snapshots' = Append(snapshots, ledger)
  <2>1. ledger \in Ledgers
    BY <1>1 DEF LedgerOK
  <2>2. snapshots' \in Seq(Ledgers)
    BY <1>1, <1>4, <2>1
  <2>3. \A id \in DOMAIN snapshots' :
          (id \in DOMAIN snapshots /\ snapshots'[id] = snapshots[id]) \/ snapshots'[id] = ledger
    BY <1>1, <1>4, <2>1
  <2> QED BY <1>1, <1>2, <2>2, <2>3 DEF LedgersOK
<1> QED BY <1>3, <1>4, SnapshotsGrow

LEMMA SandboxesInductive ==
  ASSUME FacadeInv, [Next]_vars
  PROVE  SandboxesHold'
<1>1. /\ ledger \in Ledgers /\ snapshots \in Seq(Ledgers) /\ Len(snapshots) \in Nat
      /\ sandboxes \in Seq([snap : Nat, before : Ledgers])
      /\ \A i \in DOMAIN sandboxes :
           /\ sandboxes[i].snap \in DOMAIN snapshots
           /\ snapshots[sandboxes[i].snap] = sandboxes[i].before
  BY DEF FacadeInv, LedgersOK, LedgerOK, SandboxesHold
<1>2. \A id \in DOMAIN snapshots : id \in DOMAIN snapshots' /\ snapshots'[id] = snapshots[id]
  BY <1>1, SnapshotsGrow
<1>3. CASE UNCHANGED sandboxes
  BY <1>1, <1>2, <1>3 DEF SandboxesHold
<1>4. CASE EnterSandbox
  <2> DEFINE new == [snap |-> Len(snapshots) + 1, before |-> ledger]
  <2>1. /\ sandboxes' = Append(sandboxes, new) /\ snapshots' = Append(snapshots, ledger)
        /\ new \in [snap : Nat, before : Ledgers]
    BY <1>1, <1>4 DEF EnterSandbox
  <2>2. new.snap \in DOMAIN snapshots' /\ snapshots'[new.snap] = new.before
    BY <1>1, <2>1
  <2> HIDE DEF new
  <2>3. /\ sandboxes' \in Seq([snap : Nat, before : Ledgers])
        /\ \A i \in DOMAIN sandboxes' :
             (i \in DOMAIN sandboxes /\ sandboxes'[i] = sandboxes[i]) \/ sandboxes'[i] = new
    BY <1>1, <2>1
  <2> QED BY <1>1, <1>2, <2>2, <2>3 DEF SandboxesHold
<1>5. CASE LeaveSandbox
  <2>1. sandboxes # <<>> /\ sandboxes' = SubSeq(sandboxes, 1, Len(sandboxes) - 1)
    BY <1>5 DEF LeaveSandbox
  <2>2. /\ sandboxes' \in Seq([snap : Nat, before : Ledgers])
        /\ \A i \in DOMAIN sandboxes' : i \in DOMAIN sandboxes /\ sandboxes'[i] = sandboxes[i]
    <3> DEFINE n == Len(sandboxes) - 1
    <3>1. n \in Nat /\ 1 .. n \subseteq DOMAIN sandboxes
      BY <1>1, <2>1
    <3>2. \A i \in 1 .. n : sandboxes[i] \in [snap : Nat, before : Ledgers]
      <4> DEFINE T == [snap : Nat, before : Ledgers]
      <4>1. sandboxes \in Seq(T)
        BY <1>1
      <4> HIDE DEF T, n
      <4>2. \A i \in 1 .. n : sandboxes[i] \in T
        BY <3>1, <4>1
      <4> QED BY <4>2 DEF T
    <3> HIDE DEF n
    <3>3. /\ SubSeq(sandboxes, 1, n) \in Seq([snap : Nat, before : Ledgers])
          /\ Len(SubSeq(sandboxes, 1, n)) = n
          /\ \A i \in 1 .. n : SubSeq(sandboxes, 1, n)[i] = sandboxes[i]
      BY <3>1, <3>2, SubSeqProperties
    <3>4. DOMAIN SubSeq(sandboxes, 1, n) = 1 .. n
      BY <3>3
    <3> QED BY <2>1, <3>1, <3>3, <3>4 DEF n
  <2> QED BY <1>1, <1>2, <2>2 DEF SandboxesHold
<1> QED BY <1>3, <1>4, <1>5, Frames

LEMMA SaltsInductive ==
  ASSUME FacadeInv, [Next]_vars
  PROVE  SaltsInv'
<1>1. /\ FacadeTypes /\ LedgerOK(ledger) /\ SignedInv /\ SandboxesHold
      /\ snapshots \in Seq(Ledgers)
      /\ saltCounter \in Nat /\ saltCounter' \in Nat /\ saltCounter' >= saltCounter
  <2>1. FacadeTypes /\ LedgerOK(ledger) /\ SignedInv /\ SandboxesHold
        /\ snapshots \in Seq(Ledgers)
    BY DEF FacadeInv, LedgersOK
  <2>2. FacadeTypes' /\ saltCounter' >= saltCounter
    BY <2>1, FacadeTypesInductive
  <2> QED BY <2>1, <2>2 DEF FacadeTypes
<1>2. ASSUME NEW l \in Ledgers, SaltsOK(l)
      PROVE  \A contract \in l.contracts : contract.salt < saltCounter' \/ contract.chosen
  <2> SUFFICES ASSUME NEW contract \in l.contracts
               PROVE  contract.salt < saltCounter' \/ contract.chosen
    OBVIOUS
  <2>1. contract.salt \in Nat
    BY DEF Ledgers, Contracts
  <2> QED BY <1>1, <1>2, <2>1 DEF SaltsOK
<1>3. ledger \in Ledgers /\ \A id \in DOMAIN snapshots : snapshots[id] \in Ledgers
  BY <1>1 DEF LedgerOK
<1>4. \A contract \in ledger'.contracts : contract.salt < saltCounter' \/ contract.chosen
  <2>1. CASE ledger'.contracts = ledger.contracts
    BY <1>2, <1>3, <2>1 DEF FacadeInv, SaltsInv
  <2>2. CASE QuietCall
    BY <1>1, <2>1, <2>2, QuietCalls DEF Quiet
  <2>3. CASE WarpCall
    BY <1>1, <2>1, <2>3, WarpLedger DEF WarpCall
  <2>4. CASE InvokeCall
    BY <1>1, <2>1, <2>4, InvokeLedger DEF InvokeCall
  <2>5. ASSUME NEW r \in RoundTrips, Answer(r)
        PROVE  ledger'.contracts = ledger.contracts
    BY <1>1, <2>5, AnswerLedger
  <2>6. CASE Return
    <3>1. PICK id \in DOMAIN snapshots : ledger' = snapshots[id]
      BY <1>1, <2>6, ReturnFacts
    <3> QED BY <1>2, <1>3, <3>1 DEF FacadeInv, SaltsInv
  <2>7. CASE DeployCall
    <3>1. PICK as \in wallets \cup {None}, salt \in ExplicitSalts \cup {None} : Deploy(as, salt)
      BY <2>7 DEF DeployCall
    <3>2. PICK source \in SourcesOf(as) :
            ledger'.contracts \subseteq ledger.contracts \cup {ContractOf(source, salt)}
      BY <1>1, <3>1, DeployLedger
    <3> DEFINE contract == ContractOf(source, salt)
    <3>3. contract.salt < saltCounter' \/ contract.chosen
      <4>1. CASE salt = None
        <5>1. saltCounter' = saltCounter + 1 /\ contract.salt = saltCounter
          BY <3>1, <4>1 DEF Deploy, ContractOf, NextSalt
        <5> QED BY <1>1, <5>1
      <4>2. CASE salt # None
        BY <4>2 DEF ContractOf
      <4> QED BY <4>1, <4>2
    <3> HIDE DEF contract
    <3>4. \A c \in ledger.contracts : c.salt < saltCounter' \/ c.chosen
      BY <1>2, <1>3 DEF FacadeInv, SaltsInv
    <3> QED BY <3>2, <3>3, <3>4 DEF contract
  <2>8. CASE UNCHANGED vars
    BY <2>1, <2>8 DEF vars
  <2> QED BY <2>1, <2>2, <2>3, <2>4, <2>5, <2>6, <2>7, <2>8, NextCases
<1>5. \A id \in DOMAIN snapshots' : \A contract \in snapshots'[id].contracts :
        contract.salt < saltCounter' \/ contract.chosen
  <2>1. \A id \in DOMAIN snapshots' :
          \/ id \in DOMAIN snapshots /\ snapshots'[id] = snapshots[id]
          \/ snapshots'[id] = ledger
    BY <1>1, <1>3, SnapshotsGrow
  <2> QED BY <1>2, <1>3, <2>1 DEF FacadeInv, SaltsInv
<1> QED BY <1>4, <1>5 DEF SaltsInv, SaltsOK

LEMMA SignedInductive ==
  ASSUME FacadeInv, [Next]_vars
  PROVE  SignedInv'
<1>1. /\ FacadeTypes /\ LedgerOK(ledger) /\ SignedInv /\ SandboxesHold
      /\ roundTrips \in [RoundTrips -> RoundTripStates]
      /\ ledger \in Ledgers /\ ledger.seq \in Nat /\ ledger.prng \in Nat
  BY DEF FacadeInv, LedgersOK, SignedInv, LedgerOK, Ledgers
<1>2. ASSUME NEW r \in Waiting
      PROVE  r \in RoundTrips /\ roundTrips[r].auth \in Authorizations
             /\ roundTrips[r].auth.validUntil \in Nat
  BY <1>1, <1>2 DEF Waiting, SignedInv, Authorizations
<1>3. CASE UNCHANGED roundTrips /\ Onwards
  <2>1. Waiting' = Waiting
    BY <1>3 DEF Waiting
  <2>2. ledger'.seq \in Nat /\ ledger'.seq >= ledger.seq /\ overtaken' = overtaken
    BY <1>3 DEF Onwards, LedgerOK, Ledgers
  <2>3. \A r \in Waiting : ~overtaken => roundTrips[r].auth.validUntil <= ledger'.seq + AUTH_TTL
    BY <1>1, <1>2, <2>2, Bounds DEF SignedInv
  <2> QED BY <1>1, <1>3, <2>1, <2>2, <2>3 DEF SignedInv
<1>4. CASE Return
  <2>1. /\ UNCHANGED roundTrips /\ overtaken' = (overtaken \/ Waiting # {})
    BY <1>1, <1>4, ReturnFacts
  <2>2. Waiting' = Waiting
    BY <2>1 DEF Waiting
  <2> QED BY <1>1, <2>1, <2>2 DEF SignedInv
<1>5. ASSUME NEW r \in RoundTrips, Begin(r)
      PROVE  SignedInv'
  <2>1. /\ ledger.prng < MaxSimulations /\ UNCHANGED overtaken
        /\ \/ roundTrips' = [roundTrips EXCEPT ![r] =
                               [phase |-> "signing", auth |-> Recorded(ledger)]]
           \/ roundTrips' = [roundTrips EXCEPT ![r] = Ended("unrecorded")]
    BY <1>5 DEF Begin, MaySimulate
  <2>2. ledger'.seq = ledger.seq
    BY <1>1, <1>5, SimulatedQuiet DEF Begin, Quiet
  <2>3. Recorded(ledger) \in Authorizations
        /\ Recorded(ledger).validUntil = ledger.seq + AUTH_TTL
    <3>1. ledger.seq + AUTH_TTL \in Nat /\ ledger.prng \in 0 .. MaxSimulations
      BY <1>1, <2>1, Bounds
    <3> QED BY <3>1 DEF Recorded, Authorizations
  <2>4. ASSUME NEW state \in RoundTripStates, roundTrips' = [roundTrips EXCEPT ![r] = state],
               state.phase = "signing" =>
                 /\ state.auth \in Authorizations
                 /\ state.auth.validUntil <= ledger.seq + AUTH_TTL
        PROVE  SignedInv'
    <3>1. roundTrips' \in [RoundTrips -> RoundTripStates]
      BY <1>1, <2>4
    <3>2. \A q \in RoundTrips : roundTrips'[q] = IF q = r THEN state ELSE roundTrips[q]
      BY <1>1, <2>4
    <3>3. \A q \in Waiting' : roundTrips'[q] = state
                                  \/ (q \in Waiting /\ roundTrips'[q] = roundTrips[q])
      BY <3>2 DEF Waiting
    <3>4. \A q \in Waiting' : roundTrips'[q] = state => state.phase = "signing"
      BY DEF Waiting
    <3> QED BY <1>1, <1>2, <2>1, <2>2, <2>4, <3>1, <3>3, <3>4 DEF SignedInv
  <2>5. [phase |-> "signing", auth |-> Recorded(ledger)] \in RoundTripStates
        /\ Ended("unrecorded") \in RoundTripStates
    BY <2>3 DEF RoundTripStates, Ended
  <2>6. ledger.seq + AUTH_TTL <= ledger.seq + AUTH_TTL
    BY <1>1, Bounds
  <2> QED BY <2>1, <2>3, <2>4, <2>5, <2>6 DEF Ended
<1>6. ASSUME NEW r \in RoundTrips, Answer(r) \/ SignerFails(r)
      PROVE  SignedInv'
  <2>1. PICK result \in {"expired", "refused", "landed", "unsigned"} :
          roundTrips' = [roundTrips EXCEPT ![r] = Ended(result)]
    BY <1>1, <1>6, AnswerLedger DEF SignerFails
  <2>2. ledger'.seq = ledger.seq /\ UNCHANGED overtaken
    BY <1>1, <1>6, AnswerLedger DEF SignerFails, Answer
  <2>3. Ended(result) \in RoundTripStates /\ Ended(result).phase # "signing"
    BY DEF Ended, RoundTripStates
  <2>4. /\ roundTrips' \in [RoundTrips -> RoundTripStates]
        /\ \A q \in RoundTrips : roundTrips'[q] = IF q = r THEN Ended(result) ELSE roundTrips[q]
    BY <1>1, <2>1, <2>3
  <2>5. \A q \in Waiting' : q \in Waiting /\ roundTrips'[q] = roundTrips[q]
    BY <2>3, <2>4 DEF Waiting
  <2> QED BY <1>1, <2>2, <2>4, <2>5 DEF SignedInv
<1>7. CASE UNCHANGED roundTrips
  BY <1>3, <1>4, <1>7, OnwardsOrBack
<1> QED BY <1>5, <1>6, <1>7, Frames

LEMMA FacadeInvInductive ==
  ASSUME FacadeInv, [Next]_vars
  PROVE  FacadeInv'
<1>1. FacadeTypes /\ LedgerOK(ledger)
  BY DEF FacadeInv, LedgersOK
<1> QED
  BY <1>1, FacadeTypesInductive, LedgersInductive, SandboxesInductive, SaltsInductive,
     SignedInductive
  DEF FacadeInv

LEMMA FacadeInvInit ==
  ASSUME Init
  PROVE  FacadeInv
<1>1. NewLedger \in Ledgers
  BY Bounds DEF NewLedger, Ledgers
<1>2. \A a \in Accounts :
        NewLedger.uncounted[a] = {} /\ NewLedger.accounts[a] = None
  BY DEF NewLedger
<1>3. UsedOnce(NewLedger)
  BY FS_EmptySet DEF NewLedger, UsedOnce
<1>4. LedgerOK(NewLedger) /\ NewLedger.contracts = {}
  BY <1>1, <1>2, <1>3, Bounds DEF LedgerOK, Counted, NewLedger
<1>5. LedgersOK
  BY <1>4 DEF Init, LedgersOK
<1>6. FacadeTypes
  <2>1. payer = None /\ wallets = {} /\ tokens = {} /\ saltCounter = 0 /\ calls = 0
        /\ overtaken = FALSE
    BY DEF Init
  <2>2. saltCounter \in Nat /\ calls \in Nat /\ saltCounter <= calls
    BY <2>1
  <2> QED BY <2>1, <2>2, Zenon DEF FacadeTypes
<1>7. SandboxesHold /\ SaltsInv
  BY <1>4 DEF Init, SandboxesHold, SaltsInv, SaltsOK
<1>8. SignedInv
  <2>1. Idle \in RoundTripStates /\ Idle.phase = "idle"
    BY DEF Idle, RoundTripStates
  <2> QED BY <2>1 DEF Init, SignedInv, Waiting
<1> QED BY <1>5, <1>6, <1>7, <1>8 DEF FacadeInv

LEMMA FacadeInvariant == Spec => []FacadeInv
  BY FacadeInvInit, FacadeInvInductive, PTL DEF Spec
-----------------------------------------------------------------------------
(***************************************************************************)
(* TypeOK, of establishTrustline and mint, authorizeAndSend's expiry and   *)
(* sandboxed's snapshot: whatever a test calls, a trustline holds between  *)
(* nothing and its limit, a signature that waits is good for no longer     *)
(* than AUTH_TTL, and a sandbox that runs has its snapshot.                *)
(***************************************************************************)
THEOREM FacadeTypeCorrect == Spec => []TypeOK
<1>1. FacadeInv => TypeOK
  <2> SUFFICES ASSUME FacadeInv
               PROVE  TypeOK
    OBVIOUS
  <2>1. /\ FacadeTypes /\ ledger \in Ledgers /\ ledger.seq >= FirstLedger
        /\ SandboxesHold /\ SignedInv
    BY DEF FacadeInv, LedgersOK, LedgerOK
  <2>2. ledger.seq \in Nat /\ ledger.prng \in Nat
        /\ ledger.trustlines \in [Accounts -> [Assets -> TrustlineEntries \cup {None}]]
    BY <2>1 DEF Ledgers
  <2>3. \A a \in Accounts, t \in Assets :
          ledger.trustlines[a][t] # None => ledger.trustlines[a][t].balance \in 0 .. LIMIT
    BY <2>2 DEF TrustlineEntries
  <2>4. /\ payer \in wallets \cup {None} /\ wallets \subseteq Accounts
        /\ saltCounter \in Nat /\ tokens \subseteq Assets
    BY <2>1 DEF FacadeTypes
  <2>5. /\ ~overtaken => \A r \in Waiting : roundTrips[r].auth.validUntil <= ledger.seq + AUTH_TTL
        /\ \A i \in DOMAIN sandboxes : sandboxes[i].snap \in DOMAIN snapshots
    BY <2>1 DEF SandboxesHold, SignedInv
  <2> QED BY <2>1, <2>2, <2>3, <2>4, <2>5 DEF TypeOK
<1> QED BY <1>1, FacadeInvariant, PTL

(***************************************************************************)
(* SubEntriesCounted, of establishTrustline and fundAccount: the count of  *)
(* sub-entries and the trustlines that are there agree, but for those the  *)
(* account does not count.                                                 *)
(***************************************************************************)
THEOREM SubEntries == Spec => []SubEntriesCounted
<1>1. FacadeInv => SubEntriesCounted
  BY DEF FacadeInv, LedgersOK, LedgerOK, Counted, SubEntriesCounted
<1> QED BY <1>1, FacadeInvariant, PTL

(***************************************************************************)
(* AuthorizationUsedOnce, of the nonces next_prng_seed draws: a signature  *)
(* authorizes one call, although the generator goes back with the ledger   *)
(* and nonce entries expire.                                               *)
(***************************************************************************)
THEOREM UsedOnceOnly == Spec => []AuthorizationUsedOnce
<1>1. FacadeInv => AuthorizationUsedOnce
  BY DEF FacadeInv, LedgersOK, LedgerOK, UsedOnce, AuthorizationUsedOnce
<1> QED BY <1>1, FacadeInvariant, PTL

(***************************************************************************)
(* SandboxLeavesNoTrace, of sandboxed's finally: it returns to the ledger  *)
(* it was called in, however deep sandboxes nest and whatever is in them.  *)
(***************************************************************************)
LEMMA LeavesNoTrace ==
  ASSUME FacadeInv, [Next]_vars, Len(sandboxes') < Len(sandboxes)
  PROVE  ledger' = sandboxes[Len(sandboxes)].before
<1>1. /\ sandboxes \in Seq([snap : Nat, before : Ledgers]) /\ Len(sandboxes) \in Nat
      /\ \A i \in DOMAIN sandboxes : snapshots[sandboxes[i].snap] = sandboxes[i].before
  BY DEF FacadeInv, SandboxesHold
<1>2. CASE LeaveSandbox
  <2>1. Len(sandboxes) \in DOMAIN sandboxes
    BY <1>1, <1>2 DEF LeaveSandbox
  <2> QED BY <1>1, <1>2, <2>1 DEF LeaveSandbox, Restored, SandboxSnapshot
<1>3. CASE UNCHANGED sandboxes
  BY <1>1, <1>3
<1>4. CASE EnterSandbox
  <2> DEFINE new == [snap |-> Len(snapshots) + 1, before |-> ledger]
  <2>1. sandboxes' = Append(sandboxes, new)
    BY <1>4 DEF EnterSandbox
  <2> HIDE DEF new
  <2>2. Len(sandboxes') = Len(sandboxes) + 1
    BY <1>1, <2>1
  <2> QED BY <1>1, <2>2
<1> QED BY <1>2, <1>3, <1>4, Frames

THEOREM SandboxesRestore == Spec => SandboxLeavesNoTrace
<1>1. FacadeInv /\ [Next]_vars
        => [Len(sandboxes') < Len(sandboxes) => ledger' = sandboxes[Len(sandboxes)].before]_vars
  BY LeavesNoTrace
<1> QED BY <1>1, FacadeInvariant, PTL DEF Spec, SandboxLeavesNoTrace

(***************************************************************************)
(* DefaultDeploysSucceed, of nextSalt: in no ledger a test can go back to  *)
(* has a contract the test did not choose the salt of one the counter is   *)
(* still to reach.                                                         *)
(***************************************************************************)
LEMMA DefaultDeploys ==
  ASSUME FacadeInv, NEW as \in wallets \cup {None}, Deploy(as, None),
         ledger'.contracts = ledger.contracts
  PROVE  \E c \in ledger.contracts :
           /\ c.deployer = (IF as = None THEN payer' ELSE as)
           /\ c.salt = saltCounter /\ c.chosen
<1>1. FacadeTypes /\ LedgerOK(ledger) /\ SaltsOK(ledger) /\ saltCounter \in Nat
  BY DEF FacadeInv, LedgersOK, SaltsInv, FacadeTypes
<1>2. PICK source \in SourcesOf(as) :
        /\ SourceOf(as, source)
        /\ ContractOf(source, None) \in Contracts
        /\ \/ ContractOf(source, None) \in ledger'.contracts
           \/ \E c \in ledger.contracts : SameAddress(c, ContractOf(source, None))
  BY <1>1, DeployLedger
<1>3. source = (IF as = None THEN payer' ELSE as)
  BY <1>2 DEF SourceOf, SourcesOf
<1>4. PICK c \in ledger.contracts : SameAddress(c, ContractOf(source, None))
  BY <1>2 DEF SameAddress
<1>5. c.deployer = source /\ c.salt = saltCounter
  BY <1>4 DEF SameAddress, ContractOf, NextSalt
<1>6. c.chosen
  <2>1. ~(saltCounter < saltCounter)
    BY <1>1
  <2> QED BY <1>1, <1>5, <2>1 DEF SaltsOK
<1> QED BY <1>3, <1>5, <1>6

THEOREM DefaultSalts == Spec => DefaultDeploysSucceed
<1> DEFINE Succeeds ==
             \A as \in wallets \cup {None} :
               Deploy(as, None) /\ ledger'.contracts = ledger.contracts =>
                 \E c \in ledger.contracts :
                   /\ c.deployer = (IF as = None THEN payer' ELSE as)
                   /\ c.salt = saltCounter /\ c.chosen
<1>1. FacadeInv /\ [Next]_vars => [Succeeds]_vars
  BY DefaultDeploys
<1> QED BY <1>1, FacadeInvariant, PTL DEF Spec, DefaultDeploysSucceed
-----------------------------------------------------------------------------
(***************************************************************************)
(* RoundTripsLand.  As long as the ledger has not gone back under a round  *)
(* trip, the generator is past every nonce that was used or is waited for, *)
(* and the nonces that are waited for are free and different.              *)
(***************************************************************************)
Fresh(l) == \A n \in 0 .. MaxSimulations : l.nonces[n] # 0 => n < l.prng

NoneFails == \A r \in RoundTrips : roundTrips[r].phase \notin {"unrecorded", "refused"}

NoncesInv ==
  ~overtaken =>
    /\ Fresh(ledger) /\ \A id \in DOMAIN snapshots : Fresh(snapshots[id])
    /\ \A r \in Waiting : /\ roundTrips[r].auth.nonce < ledger.prng
                          /\ ledger.nonces[roundTrips[r].auth.nonce] = 0
    /\ \A q, r \in Waiting : q # r => roundTrips[q].auth.nonce # roundTrips[r].auth.nonce
    /\ NoneFails

\* A step that draws nonces and uses none.
Draws ==
  /\ ledger'.prng >= ledger.prng /\ ledger'.nonces = ledger.nonces
  /\ \A q \in Waiting' : q \in Waiting /\ roundTrips'[q] = roundTrips[q]
  /\ NoneFails => NoneFails'

LEMMA NoncesTypes ==
  ASSUME FacadeInv
  PROVE  /\ ledger.prng \in Nat /\ ledger.seq \in Nat /\ ledger.seq > 0
         /\ ledger.nonces \in [0 .. MaxSimulations -> Nat] /\ MaxSimulations \in Nat
         /\ roundTrips \in [RoundTrips -> RoundTripStates]
         /\ \A r \in Waiting : /\ r \in RoundTrips
                               /\ roundTrips[r].auth.nonce \in 0 .. MaxSimulations
         /\ FacadeTypes /\ LedgerOK(ledger) /\ SignedInv /\ SandboxesHold
         /\ DOMAIN snapshots \subseteq Nat /\ snapshots \in Seq(Ledgers)
<1>1. /\ FacadeTypes /\ LedgerOK(ledger) /\ SignedInv /\ SandboxesHold
      /\ snapshots \in Seq(Ledgers)
  BY DEF FacadeInv, LedgersOK
<1>2. /\ ledger.prng \in Nat /\ ledger.seq \in Nat /\ ledger.seq >= FirstLedger
      /\ ledger.nonces \in [0 .. MaxSimulations -> Nat]
  BY <1>1 DEF LedgerOK, Ledgers
<1>3. ledger.seq > 0 /\ MaxSimulations \in Nat
  BY <1>2, Bounds
<1>4. \A r \in Waiting : r \in RoundTrips /\ roundTrips[r].auth.nonce \in 0 .. MaxSimulations
  BY <1>1 DEF Waiting, SignedInv, Authorizations
<1>5. roundTrips \in [RoundTrips -> RoundTripStates]
  BY <1>1 DEF SignedInv
<1>6. DOMAIN snapshots \subseteq Nat
  BY <1>1
<1> QED BY <1>1, <1>2, <1>3, <1>4, <1>5, <1>6

\* The snapshots hold nothing newer than the ledger.
LEMMA SnapshotsFresh ==
  ASSUME FacadeInv, NoncesInv, [Next]_vars, ~overtaken
  PROVE  \A id \in DOMAIN snapshots' : Fresh(snapshots'[id])
<1>1. \A id \in DOMAIN snapshots' :
        (id \in DOMAIN snapshots /\ snapshots'[id] = snapshots[id]) \/ snapshots'[id] = ledger
  BY SnapshotsGrow, NoncesTypes
<1> QED BY <1>1 DEF NoncesInv

LEMMA DrawsKeep ==
  ASSUME FacadeInv, NoncesInv, [Next]_vars, Draws, ledger'.prng \in Nat, overtaken' = overtaken
  PROVE  NoncesInv'
<1> SUFFICES ASSUME ~overtaken
             PROVE  NoncesInv'
  BY DEF NoncesInv
<1>1. Fresh(ledger')
  <2> SUFFICES ASSUME NEW n \in 0 .. MaxSimulations, ledger'.nonces[n] # 0
               PROVE  n < ledger'.prng
    BY DEF Fresh
  <2>1. n < ledger.prng /\ ledger.prng \in Nat /\ ledger'.prng >= ledger.prng /\ n \in Int
    BY NoncesTypes DEF Draws, NoncesInv, Fresh
  <2> QED BY <2>1
<1>2. ASSUME NEW r \in Waiting'
      PROVE  /\ roundTrips'[r].auth.nonce < ledger'.prng
             /\ ledger'.nonces[roundTrips'[r].auth.nonce] = 0
  <2>1. r \in Waiting /\ roundTrips'[r] = roundTrips[r]
    BY DEF Draws
  <2>2. /\ roundTrips[r].auth.nonce < ledger.prng /\ roundTrips[r].auth.nonce \in 0 .. MaxSimulations
        /\ ledger.nonces[roundTrips[r].auth.nonce] = 0
    BY <2>1, NoncesTypes DEF NoncesInv
  <2>3. ledger'.prng >= ledger.prng /\ ledger'.nonces = ledger.nonces /\ ledger.prng \in Nat
    BY NoncesTypes DEF Draws
  <2> QED BY <2>1, <2>2, <2>3
<1>3. \A q, r \in Waiting' : q # r => roundTrips'[q].auth.nonce # roundTrips'[r].auth.nonce
  BY DEF Draws, NoncesInv
<1>4. NoneFails'
  BY DEF Draws, NoncesInv
<1> QED BY <1>1, <1>2, <1>3, <1>4, SnapshotsFresh DEF NoncesInv

\* A round trip begins with the nonce the generator comes to, which is free.
LEMMA BeginKeeps ==
  ASSUME FacadeInv, NoncesInv, [Next]_vars, NEW r \in RoundTrips, Begin(r)
  PROVE  NoncesInv'
<1>1. /\ overtaken' = overtaken /\ ledger.prng < MaxSimulations /\ ledger' = Simulated(ledger)
      /\ \/ roundTrips' = [roundTrips EXCEPT ![r] =
                             [phase |-> "signing", auth |-> Recorded(ledger)]]
         \/ Taken(ledger, ledger.prng)
  BY DEF Begin, MaySimulate
<1> SUFFICES ASSUME ~overtaken
             PROVE  NoncesInv'
  BY <1>1 DEF NoncesInv
<1>2. /\ ledger'.prng = ledger.prng + 1 /\ ledger'.nonces = ledger.nonces
  BY <1>1, NoncesTypes, SimulatedQuiet DEF Quiet
<1>3. ledger.prng \in 0 .. MaxSimulations /\ ledger.nonces[ledger.prng] = 0
  BY <1>1, NoncesTypes DEF NoncesInv, Fresh
<1>4. /\ ~Taken(ledger, ledger.prng) /\ Recorded(ledger).nonce = ledger.prng
  BY <1>3, NoncesTypes DEF Taken, Recorded
<1> DEFINE new == [phase |-> "signing", auth |-> Recorded(ledger)]
<1>5. roundTrips' = [roundTrips EXCEPT ![r] = new] /\ new.auth.nonce = ledger.prng
      /\ new.phase = "signing"
  BY <1>1, <1>4
<1> HIDE DEF new
<1>6. /\ roundTrips'[r] = new
      /\ \A q \in RoundTrips : q # r => roundTrips'[q] = roundTrips[q]
  BY <1>5, NoncesTypes
<1>7. \A q \in Waiting' : q \in RoundTrips /\ (q # r => q \in Waiting)
  BY <1>6 DEF Waiting
<1>8. Fresh(ledger')
  <2> SUFFICES ASSUME NEW n \in 0 .. MaxSimulations, ledger'.nonces[n] # 0
               PROVE  n < ledger'.prng
    BY DEF Fresh
  <2>1. n < ledger.prng /\ ledger.prng \in Nat /\ n \in Int
    BY <1>2, NoncesTypes DEF NoncesInv, Fresh
  <2> QED BY <1>2, <2>1
<1>9. ASSUME NEW q \in Waiting', q # r
      PROVE  /\ roundTrips'[q].auth.nonce < ledger.prng
             /\ ledger.nonces[roundTrips'[q].auth.nonce] = 0
  BY <1>6, <1>7, <1>9 DEF NoncesInv
<1>10. ASSUME NEW q \in Waiting'
       PROVE  /\ roundTrips'[q].auth.nonce < ledger'.prng
              /\ ledger'.nonces[roundTrips'[q].auth.nonce] = 0
  <2>1. CASE q = r
    BY <1>2, <1>3, <1>5, <1>6, <2>1, NoncesTypes
  <2>2. CASE q # r
    <3>1. roundTrips'[q].auth.nonce \in 0 .. MaxSimulations
      BY <1>6, <1>7, <2>2, NoncesTypes
    <3> QED BY <1>2, <1>9, <2>2, <3>1, NoncesTypes
  <2> QED BY <2>1, <2>2
<1>11. ASSUME NEW p \in Waiting', NEW q \in Waiting', p # q
       PROVE  roundTrips'[p].auth.nonce # roundTrips'[q].auth.nonce
  <2>1. CASE p # r /\ q # r
    BY <1>6, <1>7, <1>11, <2>1 DEF NoncesInv
  <2>2. CASE p = r
    BY <1>5, <1>6, <1>9, <1>11, <2>2, NoncesTypes
  <2>3. CASE q = r
    BY <1>5, <1>6, <1>9, <1>11, <2>3, NoncesTypes
  <2> QED BY <2>1, <2>2, <2>3
<1>12. NoneFails'
  BY <1>5, <1>6 DEF NoncesInv, NoneFails
<1> QED BY <1>8, <1>10, <1>11, <1>12, SnapshotsFresh DEF NoncesInv

\* An authorization is used whose nonce the generator is past, by no round trip
\* that goes on waiting.
LEMMA UseKeeps ==
  ASSUME FacadeInv, NoncesInv, [Next]_vars, overtaken' = overtaken,
         NEW nonce \in 0 .. MaxSimulations, NEW taken \in Nat,
         ledger'.prng \in Nat, nonce < ledger'.prng, ledger'.prng >= ledger.prng,
         ledger'.nonces = [ledger.nonces EXCEPT ![nonce] = taken],
         \A q \in Waiting' : q \in Waiting /\ roundTrips'[q] = roundTrips[q],
         \A q \in Waiting' : ~overtaken => roundTrips[q].auth.nonce # nonce,
         ~overtaken => NoneFails'
  PROVE  NoncesInv'
<1> SUFFICES ASSUME ~overtaken
             PROVE  NoncesInv'
  BY DEF NoncesInv
<1>1. \A n \in 0 .. MaxSimulations : n # nonce => ledger'.nonces[n] = ledger.nonces[n]
  BY NoncesTypes
<1>2. Fresh(ledger')
  <2> SUFFICES ASSUME NEW n \in 0 .. MaxSimulations, ledger'.nonces[n] # 0, n # nonce
               PROVE  n < ledger'.prng
    BY DEF Fresh
  <2>1. n < ledger.prng /\ ledger.prng \in Nat /\ n \in Int
    BY <1>1, NoncesTypes DEF NoncesInv, Fresh
  <2> QED BY <2>1
<1>3. ASSUME NEW q \in Waiting'
      PROVE  /\ roundTrips'[q].auth.nonce < ledger'.prng
             /\ ledger'.nonces[roundTrips'[q].auth.nonce] = 0
  <2>1. /\ q \in Waiting /\ roundTrips'[q] = roundTrips[q] /\ roundTrips[q].auth.nonce # nonce
        /\ roundTrips[q].auth.nonce \in 0 .. MaxSimulations
    BY NoncesTypes
  <2>2. /\ roundTrips[q].auth.nonce < ledger.prng /\ ledger.prng \in Nat
        /\ ledger.nonces[roundTrips[q].auth.nonce] = 0
    BY <2>1, NoncesTypes DEF NoncesInv
  <2> QED BY <1>1, <2>1, <2>2
<1>4. \A p, q \in Waiting' : p # q => roundTrips'[p].auth.nonce # roundTrips'[q].auth.nonce
  BY DEF NoncesInv
<1> QED BY <1>2, <1>3, <1>4, SnapshotsFresh DEF NoncesInv

LEMMA InvokeKeeps ==
  ASSUME FacadeInv, NoncesInv, [Next]_vars, NEW as \in wallets \cup {None}, Invoke(as)
  PROVE  NoncesInv'
<1>1. /\ ledger'.prng > ledger.prng /\ LedgerOK(ledger')
      /\ \/ ledger'.nonces = ledger.nonces
         \/ \E taken \in Nat : ledger'.nonces = [ledger.nonces EXCEPT ![ledger.prng] = taken]
  BY NoncesTypes, InvokeLedger
<1>2. /\ overtaken' = overtaken /\ roundTrips' = roundTrips /\ ledger.prng < MaxSimulations
  BY DEF Invoke, MaySimulate
<1>3. /\ ledger'.prng \in Nat /\ ledger'.prng >= ledger.prng
      /\ ledger.prng \in 0 .. MaxSimulations
  <2>1. ledger'.prng \in Nat
    BY <1>1 DEF LedgerOK, Ledgers
  <2> QED BY <1>1, <1>2, <2>1, NoncesTypes
<1>4. Waiting' = Waiting /\ (NoneFails => NoneFails')
  BY <1>2 DEF Waiting, NoneFails
<1>5. CASE ledger'.nonces = ledger.nonces
  <2>1. Draws
    BY <1>2, <1>3, <1>4, <1>5 DEF Draws
  <2> QED BY <1>2, <1>3, <2>1, DrawsKeep
<1>6. ASSUME NEW taken \in Nat, ledger'.nonces = [ledger.nonces EXCEPT ![ledger.prng] = taken]
      PROVE  NoncesInv'
  <2>1. \A q \in Waiting' : ~overtaken => roundTrips[q].auth.nonce # ledger.prng
    BY <1>4, NoncesTypes DEF NoncesInv
  <2>2. ~overtaken => NoneFails'
    BY <1>4 DEF NoncesInv
  <2>3. \A q \in Waiting' : q \in Waiting /\ roundTrips'[q] = roundTrips[q]
    BY <1>2, <1>4
  <2> QED BY <1>1, <1>2, <1>3, <1>6, <2>1, <2>2, <2>3, UseKeeps
<1> QED BY <1>1, <1>5, <1>6

LEMMA AnswerKeeps ==
  ASSUME FacadeInv, NoncesInv, [Next]_vars, NEW r \in RoundTrips, Answer(r)
  PROVE  NoncesInv'
<1> DEFINE nonce == roundTrips[r].auth.nonce
<1>1. /\ ledger'.prng > ledger.prng /\ LedgerOK(ledger')
      /\ \/ ledger'.nonces = ledger.nonces
         \/ \E taken \in Nat : ledger'.nonces = [ledger.nonces EXCEPT ![nonce] = taken]
  BY NoncesTypes, AnswerLedger
<1>2. PICK result \in {"expired", "refused", "landed"} :
        /\ roundTrips' = [roundTrips EXCEPT ![r] = Ended(result)]
        /\ result = "refused" => Taken(ledger, nonce)
  BY NoncesTypes, AnswerLedger
<1>3. /\ overtaken' = overtaken /\ r \in Waiting /\ nonce \in 0 .. MaxSimulations
  BY NoncesTypes DEF Answer
<1>4. /\ ledger'.prng \in Nat /\ ledger'.prng >= ledger.prng
  <2>1. ledger'.prng \in Nat
    BY <1>1 DEF LedgerOK, Ledgers
  <2> QED BY <1>1, <2>1, NoncesTypes
<1>5. \A q \in RoundTrips : roundTrips'[q] = IF q = r THEN Ended(result) ELSE roundTrips[q]
  BY <1>2, NoncesTypes
<1>6. \A q \in Waiting' : q # r /\ q \in Waiting /\ roundTrips'[q] = roundTrips[q]
  BY <1>5 DEF Waiting, Ended
<1>7. ~overtaken => nonce < ledger.prng /\ ledger.nonces[nonce] = 0
  BY <1>3 DEF NoncesInv
<1>8. ~overtaken => result # "refused"
  BY <1>2, <1>7, NoncesTypes DEF Taken
<1>9. ~overtaken => NoneFails'
  BY <1>2, <1>5, <1>8 DEF NoncesInv, NoneFails, Ended
<1>10. \A q \in Waiting' : ~overtaken => roundTrips[q].auth.nonce # nonce
  BY <1>3, <1>6 DEF NoncesInv
<1>11. CASE overtaken
  BY <1>3, <1>11 DEF NoncesInv
<1>12. CASE ~overtaken /\ ledger'.nonces = ledger.nonces
  <2>1. Draws
    BY <1>4, <1>6, <1>9, <1>12 DEF Draws
  <2> QED BY <1>3, <1>4, <2>1, DrawsKeep
<1>13. ASSUME ~overtaken, NEW taken \in Nat,
              ledger'.nonces = [ledger.nonces EXCEPT ![nonce] = taken]
       PROVE  NoncesInv'
  <2>1. nonce < ledger'.prng
    BY <1>3, <1>4, <1>7, <1>13, NoncesTypes
  <2> HIDE DEF nonce
  <2> QED BY <1>3, <1>4, <1>6, <1>9, <1>10, <1>13, <2>1, UseKeeps
<1> QED BY <1>1, <1>11, <1>12, <1>13

\* Back in time, with nobody waiting.
LEMMA ReturnKeeps ==
  ASSUME FacadeInv, NoncesInv, [Next]_vars, Return
  PROVE  NoncesInv'
<1>1. PICK id \in DOMAIN snapshots : ledger' = snapshots[id]
  BY NoncesTypes, ReturnFacts
<1>2. /\ overtaken' = (overtaken \/ Waiting # {}) /\ roundTrips' = roundTrips
  BY NoncesTypes, ReturnFacts
<1>3. CASE overtaken'
  BY <1>3 DEF NoncesInv
<1>4. CASE ~overtaken'
  <2>1. ~overtaken /\ Waiting' = {}
    BY <1>2, <1>4 DEF Waiting
  <2>2. Fresh(ledger') /\ NoneFails'
    BY <1>1, <1>2, <2>1 DEF NoncesInv, NoneFails
  <2> QED BY <2>1, <2>2, SnapshotsFresh DEF NoncesInv
<1> QED BY <1>3, <1>4

LEMMA NoncesInductive ==
  ASSUME FacadeInv, NoncesInv, [Next]_vars
  PROVE  NoncesInv'
<1>1. FacadeInv'
  BY FacadeInvInductive
<1>2. ledger'.prng \in Nat
  BY <1>1, NoncesTypes DEF FacadeInv, LedgersOK, LedgerOK, Ledgers
<1>3. ASSUME ledger'.prng >= ledger.prng, ledger'.nonces = ledger.nonces,
             roundTrips' = roundTrips, overtaken' = overtaken
      PROVE  NoncesInv'
  <2>1. Draws
    BY <1>3 DEF Draws, Waiting, NoneFails
  <2> QED BY <1>2, <1>3, <2>1, DrawsKeep
<1>4. ASSUME NEW r \in RoundTrips, SignerFails(r)
      PROVE  NoncesInv'
  <2>1. /\ ledger' = ledger /\ overtaken' = overtaken
        /\ roundTrips' = [roundTrips EXCEPT ![r] = Ended("unsigned")]
    BY <1>4 DEF SignerFails
  <2>2. \A q \in RoundTrips : roundTrips'[q] = IF q = r THEN Ended("unsigned") ELSE roundTrips[q]
    BY <2>1, NoncesTypes
  <2>3. \A q \in Waiting' : q \in Waiting /\ roundTrips'[q] = roundTrips[q]
    BY <2>2 DEF Waiting, Ended
  <2>4. NoneFails => NoneFails'
    BY <2>2 DEF NoneFails, Ended
  <2>5. Draws
    BY <2>1, <2>3, <2>4, NoncesTypes DEF Draws
  <2> QED BY <1>2, <2>1, <2>5, DrawsKeep
<1>5. CASE QuietCall
  <2>1. ledger'.prng >= ledger.prng /\ ledger'.nonces = ledger.nonces
    BY <1>5, NoncesTypes, QuietCalls DEF Quiet
  <2>2. \/ \E r \in RoundTrips : Begin(r) \/ SignerFails(r)
        \/ (roundTrips' = roundTrips /\ overtaken' = overtaken)
    <3>1. \A a \in Accounts : Fund(a) \/ WithPayer(a)
            => roundTrips' = roundTrips /\ overtaken' = overtaken
      BY DEF Fund, WithPayer
    <3>2. \A t \in Assets, a \in Accounts :
            /\ SetupWorld(a, t) => roundTrips' = roundTrips /\ overtaken' = overtaken
            /\ \A authorized \in BOOLEAN :
                 Trust(a, t, authorized) => roundTrips' = roundTrips /\ overtaken' = overtaken
      BY DEF SetupWorld, Trust
    <3>3. \A t \in Assets : DeployToken(t) => roundTrips' = roundTrips /\ overtaken' = overtaken
      BY DEF DeployToken
    <3>4. \A t \in Assets, a \in Accounts, amount \in 1 .. LIMIT :
            /\ Mint(a, t, amount) => roundTrips' = roundTrips /\ overtaken' = overtaken
            /\ \A b \in Accounts :
                 Transfer(a, b, t, amount) => roundTrips' = roundTrips /\ overtaken' = overtaken
      BY DEF Mint, Transfer
    <3>5. Snapshot \/ EnterSandbox => roundTrips' = roundTrips /\ overtaken' = overtaken
      BY DEF Snapshot, EnterSandbox
    <3> QED BY <1>5, <3>1, <3>2, <3>3, <3>4, <3>5 DEF QuietCall
  <2> QED BY <1>3, <1>4, <2>1, <2>2, BeginKeeps
<1>6. CASE WarpCall
  <2>1. PICK sequence \in FirstLedger .. MaxLedger : WarpToLedger(sequence)
    BY <1>6 DEF WarpCall
  <2>2. ledger'.nonces = ledger.nonces /\ ledger'.prng = ledger.prng
    BY <2>1, NoncesTypes, WarpLedger
  <2>3. ledger'.prng >= ledger.prng /\ roundTrips' = roundTrips /\ overtaken' = overtaken
    BY <2>1, <2>2, NoncesTypes DEF WarpToLedger
  <2> QED BY <1>3, <2>2, <2>3
<1>7. CASE DeployCall
  <2>1. PICK as \in wallets \cup {None}, salt \in ExplicitSalts \cup {None} : Deploy(as, salt)
    BY <1>7 DEF DeployCall
  <2>2. ledger'.prng >= ledger.prng /\ ledger'.nonces = ledger.nonces
    BY <2>1, NoncesTypes, DeployLedger
  <2>3. roundTrips' = roundTrips /\ overtaken' = overtaken
    BY <2>1 DEF Deploy
  <2> QED BY <1>3, <2>2, <2>3
<1>8. CASE UNCHANGED vars
  <2>1. /\ ledger' = ledger /\ roundTrips' = roundTrips /\ overtaken' = overtaken
    BY <1>8 DEF vars
  <2> QED BY <1>3, <2>1, NoncesTypes
<1> QED
  BY <1>5, <1>6, <1>7, <1>8, NextCases, InvokeKeeps, AnswerKeeps, ReturnKeeps DEF InvokeCall

LEMMA NoncesInit ==
  ASSUME Init
  PROVE  NoncesInv
<1>1. Fresh(ledger)
  BY DEF Init, NewLedger, Fresh
<1>2. Waiting = {} /\ NoneFails
  BY DEF Init, Waiting, NoneFails, Idle
<1>3. DOMAIN snapshots = {}
  BY DEF Init
<1> QED BY <1>1, <1>2, <1>3 DEF NoncesInv

(***************************************************************************)
(* RoundTripsLand, of authorizeAndSend: between its two halves other round *)
(* trips, invocations and warps draw nonces and use them, never the one it *)
(* holds.                                                                  *)
(***************************************************************************)
THEOREM RoundTripsReach == Spec => []RoundTripsLand
<1>1. FacadeInv /\ NoncesInv => RoundTripsLand
  <2> SUFFICES ASSUME FacadeInv, NoncesInv, NEW r \in RoundTrips
               PROVE  /\ roundTrips[r].phase # "unsent"
                      /\ ~overtaken => roundTrips[r].phase \notin {"unrecorded", "refused"}
    BY DEF RoundTripsLand
  <2>1. roundTrips[r] \in RoundTripStates
    BY NoncesTypes
  <2>2. roundTrips[r].phase # "unsent"
    BY <2>1 DEF RoundTripStates
  <2> QED BY <2>2 DEF NoncesInv, NoneFails
<1>2. FacadeInv /\ NoncesInv /\ [Next]_vars => NoncesInv'
  BY NoncesInductive
<1>3. Init => NoncesInv
  BY NoncesInit
<1> QED BY <1>1, <1>2, <1>3, FacadeInvariant, PTL DEF Spec
=============================================================================
