------------------------- MODULE HostLedger_proofs --------------------------
(***************************************************************************)
(* Proofs about the in-process ledger, for every set of keys, calls and    *)
(* values and every value of the settings.                                 *)
(***************************************************************************)
EXTENDS HostLedger, FoldTheorems

\* The TTLs and the entries of a well-typed store.
LiveUntils == (0 .. U32Max) \cup {None}
StoredEntries == [value : Values, liveUntil : LiveUntils]
-----------------------------------------------------------------------------
(***************************************************************************)
(* What one call of the host may leave in the store.                       *)
(***************************************************************************)
LEMMA Numbers ==
  /\ MinPersistentTtl \in Nat \ {0} /\ MinTemporaryTtl \in Nat \ {0} /\ MaxEntryTtl \in Nat \ {0}
  /\ U32Max \in Nat /\ CLOSE_TIME \in Nat /\ FirstLedger \in 1 .. U32Max
  BY SettingsAssumption

LEMMA SatAddInRange ==
  ASSUME NEW m \in 1 .. U32Max, NEW n \in Nat
  PROVE  SatAdd(m, n) \in 1 .. U32Max
  BY Numbers DEF SatAdd, MinOf

LEMMA StoredTyped ==
  ASSUME TypeOK, NEW k \in Keys, store[k] # None
  PROVE  /\ store[k] \in StoredEntries
         /\ store[k].liveUntil \in LiveUntils /\ store[k].value \in Values
  BY DEF TypeOK, Stores, StoredEntries, LiveUntils

LEMMA MinLiveUntilNat ==
  ASSUME TypeOK, NEW k
  PROVE  MinLiveUntil(k, ledgerSeq) \in Nat
<1>1. ledgerSeq \in Nat /\ ledgerSeq >= 1
  BY Numbers DEF TypeOK
<1> QED BY <1>1, Numbers DEF MinLiveUntil

LEMMA GivenTtlInRange ==
  ASSUME TypeOK, NEW k \in Keys, NEW marks, store[k] # None
  PROVE  GivenTtl(k, marks) \in 0 .. U32Max
<1>1. ledgerSeq \in 1 .. U32Max
  BY DEF TypeOK
<1>2. SatAdd(ledgerSeq, MinPersistentTtl) - 1 \in 0 .. U32Max
  <2>1. MinPersistentTtl \in Nat /\ U32Max \in Nat
    BY Numbers
  <2>2. SatAdd(ledgerSeq, MinPersistentTtl) \in 1 .. U32Max
    BY <1>1, <2>1, SatAddInRange
  <2> QED BY <2>1, <2>2
<1>3. store[k].liveUntil \in LiveUntils
  BY StoredTyped
<1> QED BY <1>1, <1>2, <1>3, Numbers DEF GivenTtl, LiveUntils

LEMMA LastLiveUntilInRange ==
  ASSUME TypeOK
  PROVE  LastLiveUntil \in 0 .. U32Max /\ LastLiveUntil <= MaxLiveUntil(ledgerSeq)
<1>1. MaxLiveUntil(ledgerSeq) \in Nat
  <2>1. ledgerSeq \in Nat /\ ledgerSeq >= 1
    BY Numbers DEF TypeOK
  <2> QED BY <2>1, Numbers DEF MaxLiveUntil
<1> QED BY <1>1, Numbers DEF LastLiveUntil, MinOf

LEMMA KeptTtlsInRange ==
  ASSUME TypeOK, NEW k \in Keys, NEW marks, store[k] # None
  PROVE  KeptTtls(k, marks) \subseteq LiveUntils
<1>1. GivenTtl(k, marks) \in 0 .. U32Max
  BY GivenTtlInRange
<1>2. LastLiveUntil \in 0 .. U32Max
  BY LastLiveUntilInRange
<1>3. GivenTtl(k, marks) .. LastLiveUntil \subseteq 0 .. U32Max
  BY <1>1, <1>2, Numbers
<1> QED BY <1>1, <1>3 DEF KeptTtls, LiveUntils

LEMMA CreatedTyped ==
  ASSUME TypeOK, NEW k \in Keys
  PROVE  Created(k) \subseteq StoredEntries
<1>1. MinLiveUntil(k, ledgerSeq) \in Nat
  BY MinLiveUntilNat
<1>2. LastLiveUntil \in 0 .. U32Max
  BY LastLiveUntilInRange
<1>3. MinLiveUntil(k, ledgerSeq) .. LastLiveUntil \subseteq 0 .. U32Max
  BY <1>1, <1>2, Numbers
<1>4. CreatedTtls(k) \subseteq LiveUntils
  BY <1>3 DEF CreatedTtls, LiveUntils
<1> QED BY <1>4 DEF Created, StoredEntries

LEMMA ChangesTyped ==
  ASSUME TypeOK, NEW k \in Keys, NEW marks
  PROVE  /\ Written(k, marks) \subseteq StoredEntries \cup {None}
         /\ Bumped(k, marks) \subseteq StoredEntries \cup {None}
<1>1. store[k] # None => /\ KeptTtls(k, marks) \subseteq LiveUntils
                         /\ store[k].value \in Values
  BY KeptTtlsInRange, StoredTyped
<1>2. Created(k) \subseteq StoredEntries
  BY CreatedTyped
<1>3. ~Absent(k) => store[k] # None
  BY DEF Absent
<1>4. 0 \in LiveUntils
  BY Numbers DEF LiveUntils
<1>5. Written(k, marks) \subseteq StoredEntries \cup {None}
  BY <1>1, <1>2, <1>3 DEF Written, StoredEntries
<1>6. Bumped(k, marks) \subseteq StoredEntries \cup {None}
  BY <1>1, <1>3, <1>4 DEF Bumped, StoredEntries
<1> QED BY <1>5, <1>6

\* A call's footprint lies within the keys.
LEMMA FootprintKeys ==
  ASSUME NEW call \in Calls
  PROVE  ToSet(Footprint(call)) \subseteq Keys
<1>1. call.readOnly \in Seq(Keys) /\ call.readWrite \in Seq(Keys)
  BY CallsAssumption
<1>2. Footprint(call) \in Seq(Keys)
  BY <1>1 DEF Footprint
<1> QED BY <1>2 DEF ToSet

\* A completed run leaves each key of the footprint, and no other, with one of
\* the changes it may make.
LEMMA RunFacts ==
  ASSUME TypeOK, NEW call \in Calls, NEW marks, NEW after \in HostRuns(Changes(call, marks))
  PROVE  /\ DOMAIN after = ToSet(Footprint(call))
         /\ \A k \in DOMAIN after : after[k] \in StoredEntries \cup {None}
<1>1. /\ DOMAIN after = ToSet(Footprint(call))
      /\ \A k \in DOMAIN after : after[k] \in Changes(call, marks)[k]
  BY DEF HostRuns, Changes
<1>2. ASSUME NEW k \in DOMAIN after PROVE after[k] \in StoredEntries \cup {None}
  <2>1. k \in Keys
    BY <1>1, FootprintKeys
  <2>2. after[k] \in Written(k, marks) \/ after[k] \in Bumped(k, marks)
    BY <1>1 DEF Changes
  <2> QED BY <2>1, <2>2, ChangesTyped
<1> QED BY <1>1, <1>2

LEMMA LandedTyped ==
  ASSUME TypeOK, NEW call \in Calls, NEW marks, NEW after \in HostRuns(Changes(call, marks)), NEW ok
  PROVE  Landed(after, ok) \in Stores
<1>1. store \in Stores /\ Stores = [Keys -> StoredEntries \cup {None}]
  BY DEF TypeOK, Stores, StoredEntries, LiveUntils
<1>2. \A k \in DOMAIN after : after[k] \in StoredEntries \cup {None}
  BY RunFacts
<1> QED BY <1>1, <1>2 DEF Landed
-----------------------------------------------------------------------------
(***************************************************************************)
(* The TTL operations of the classic layer, over the store.                *)
(***************************************************************************)
TtlMaps == [Keys -> Nat]

LEMMA TtlsTyped ==
  ASSUME TypeOK
  PROVE  Ttls \in TtlMaps
<1>1. ASSUME NEW k \in Keys, store[k] # None, store[k].liveUntil # None
      PROVE  store[k].liveUntil \in Nat
  BY <1>1, StoredTyped, Numbers DEF LiveUntils
<1> QED BY <1>1 DEF Ttls, TtlMaps, NoEntry

\* An operation refused moves nothing, and none leaves a TTL that is no number.
LEMMA MoveTtlsFacts ==
  ASSUME NEW ttls \in TtlMaps, NEW sizes, NEW seq, NEW keys, NEW old, NEW new \in Nat, NEW cap
  PROVE  LET op == MoveTtls(ttls, sizes, seq, keys, old, new, cap)
         IN  op.entries \in TtlMaps /\ (op.result # "success" => op.entries = ttls)
  BY DEF MoveTtls, TtlMaps

LEMMA ApplyTtlOpFacts ==
  ASSUME TypeOK, NEW op, op.extendTo \in Nat, NEW cap
  PROVE  LET applied == ApplyTtlOp(op, cap)
         IN  applied.entries \in TtlMaps /\ (applied.result # "success" => applied.entries = Ttls)
<1> DEFINE Good(a) == a.entries \in TtlMaps /\ (a.result # "success" => a.entries = Ttls)
           sizes == SizesIn(store)
<1>1. Ttls \in TtlMaps
  BY TtlsTyped
<1>2. ledgerSeq \in Nat /\ MinPersistentTtl \in Nat \ {0} /\ ledgerSeq >= 1
  BY Numbers DEF TypeOK
<1>3. ledgerSeq + op.extendTo \in Nat /\ RestoredLiveUntil(ledgerSeq) \in Nat
  BY <1>2 DEF RestoredLiveUntil
<1>4. Good(OverLimit(Ttls))
  BY <1>1 DEF OverLimit
<1>5. Good(MoveTtls(Ttls, sizes, ledgerSeq, ExtendMoves(op, Ttls, ledgerSeq), Ttls,
                    ledgerSeq + op.extendTo, cap))
  BY <1>1, <1>3, MoveTtlsFacts
<1>6. Good(MoveTtls(Ttls, sizes, ledgerSeq, RestoreMoves(op, Ttls, ledgerSeq), NoOldTtl,
                    RestoredLiveUntil(ledgerSeq), cap))
  BY <1>1, <1>3, MoveTtlsFacts
<1>7. Good(ApplyExtendFootprintTtl(op, Ttls, sizes, ledgerSeq, cap))
  BY <1>4, <1>5 DEF ApplyExtendFootprintTtl
<1>8. Good(ApplyRestoreFootprint(op, Ttls, sizes, ledgerSeq, cap))
  BY <1>4, <1>6 DEF ApplyRestoreFootprint
<1> QED BY <1>7, <1>8 DEF ApplyTtlOp

LEMMA MovedStoreFacts ==
  ASSUME TypeOK, NEW ttls \in TtlMaps
  PROVE  MovedStore(ttls) \in Stores /\ MovedStore(Ttls) = store
<1>1. store \in [Keys -> StoredEntries \cup {None}] /\ Stores = [Keys -> StoredEntries \cup {None}]
  BY DEF TypeOK, Stores, StoredEntries, LiveUntils
<1>2. ASSUME NEW k \in Keys PROVE ttls[k] % (U32Max + 1) \in LiveUntils
  <2>1. ttls[k] \in Nat /\ U32Max \in Nat
    BY Numbers DEF TtlMaps
  <2>2. \A a, b \in Nat : a % (b + 1) \in 0 .. b
    OBVIOUS
  <2>3. ttls[k] % (U32Max + 1) \in 0 .. U32Max
    BY <2>1, <2>2
  <2> QED BY <2>3 DEF LiveUntils
<1>3. MovedStore(ttls) \in Stores
  BY <1>1, <1>2 DEF MovedStore, StoredEntries
<1>4. MovedStore(Ttls) = store
  BY <1>1 DEF MovedStore
<1> QED BY <1>3, <1>4
-----------------------------------------------------------------------------
(***************************************************************************)
(* The inductive invariant.  TypeOK needs more of the snapshots than it    *)
(* says: going back to one must find there what taking it put there, which *)
(* SnapshotsKept states.  A quote is applied in a later step, so its own   *)
(* numbers are part of it; and so is that the cache holds nothing the host *)
(* cannot parse, which is what makes a hit of it a run.                    *)
(***************************************************************************)
SnapshotRecords ==
  [store : Stores, ledgerSeq : 1 .. U32Max, timestamp : Nat, prngCounter : Nat]

SnapshotsKept ==
  /\ snapshots \in Seq(SnapshotRecords)
  /\ taken = [i \in DOMAIN snapshots |-> <<snapshots[i].store, snapshots[i].ledgerSeq,
                                            snapshots[i].timestamp, snapshots[i].prngCounter>>]

QuoteTyped == quote # None => quote.extendTo \in Nat

CacheParses == moduleCache \subseteq Compilable

IInv == TypeOK /\ SnapshotsKept /\ QuoteTyped /\ CacheParses

LEMMA InitIInv == Init => IInv
<1> SUFFICES ASSUME Init PROVE IInv
  OBVIOUS
<1>1. TypeOK
  BY Numbers DEF Init, TypeOK, Stores
<1>2. SnapshotsKept
  BY DEF Init, SnapshotsKept
<1> QED BY <1>1, <1>2 DEF Init, IInv, QuoteTyped, CacheParses

\* What the ledger itself may become: what TypeOK says of the live state.
LedgerTyped ==
  /\ store \in Stores /\ ledgerSeq \in 1 .. U32Max
  /\ timestamp \in Nat /\ prngCounter \in Nat

\* A step that leaves the snapshots alone keeps the invariant if it keeps the
\* parts that are about the live state.
LEMMA LiveStep ==
  ASSUME IInv, LedgerTyped', UNCHANGED <<snapshots, taken>>,
         moduleCache' \subseteq CodeKeys \cap Compilable, QuoteTyped'
  PROVE  IInv'
<1>1. TypeOK'
  BY DEF IInv, TypeOK, LedgerTyped, Stores
<1>2. SnapshotsKept'
  BY DEF IInv, SnapshotsKept, SnapshotRecords, Stores
<1> QED BY <1>1, <1>2 DEF IInv, CacheParses

LEMMA InvokeStep ==
  ASSUME IInv, NEW call \in Calls, NEW marks, Invoke(call, marks)
  PROVE  IInv'
<1>1. TypeOK /\ moduleCache \subseteq CodeKeys \cap Compilable
  BY DEF IInv, TypeOK, CacheParses
<1>2. PreparedCache(call, marks) \subseteq CodeKeys \cap Compilable
  BY <1>1 DEF PreparedCache, LiveCode, FootprintCode
<1>3. store' \in Stores /\ moduleCache' \subseteq CodeKeys \cap Compilable
  <2>1. CASE RefuseFootprint(call, marks)
    BY <1>1, <2>1 DEF RefuseFootprint, TypeOK
  <2>2. CASE FailInHost(call, marks)
    BY <1>1, <1>2, <2>2 DEF FailInHost, TypeOK
  <2>3. CASE CompleteInHost(call, marks)
    BY <1>1, <1>2, <2>3, LandedTyped DEF CompleteInHost
  <2> QED BY <2>1, <2>2, <2>3 DEF Invoke
<1>4. LedgerTyped'
  BY <1>1, <1>3 DEF Invoke, LedgerTyped, TypeOK, clock, Stores
<1>5. QuoteTyped'
  BY DEF Invoke, QuoteTyped
<1> QED BY <1>3, <1>4, <1>5, LiveStep DEF Invoke

LEMMA PutStep ==
  ASSUME IInv, NEW k \in Keys, NEW entry \in StoredEntries \cup {None},
         store' = Put(store, k, entry), quote' = None,
         UNCHANGED <<clock, prngCounter, snapshots, moduleCache, taken>>
  PROVE  IInv'
<1>1. store' \in Stores
  BY DEF IInv, TypeOK, Put, Stores, StoredEntries, LiveUntils
<1>2. LedgerTyped' /\ moduleCache' \subseteq CodeKeys \cap Compilable /\ QuoteTyped'
  BY <1>1 DEF IInv, TypeOK, CacheParses, LedgerTyped, QuoteTyped, clock, Stores
<1> QED BY <1>2, LiveStep

LEMMA SimulateTtlStep ==
  ASSUME IInv, NEW keys, NEW at, SimulateTtl(keys, at)
  PROVE  IInv'
<1>1. quote' = None \/ quote'.extendTo \in Nat
  <2>1. CASE quote' = RestoreResources(keys, at)
    BY <2>1 DEF RestoreResources
  <2>2. ASSUME NEW extendTo \in ExtendTos, quote' = ExtendTtlResources(keys, extendTo, at)
        PROVE  quote' = None \/ quote'.extendTo \in Nat
    BY <2>2, SettingsAssumption DEF ExtendTtlResources
  <2> QED BY <2>1, <2>2 DEF SimulateTtl
<1>2. LedgerTyped' /\ moduleCache' \subseteq CodeKeys \cap Compilable
  BY DEF SimulateTtl, IInv, TypeOK, CacheParses, LedgerTyped, ledger, Stores
<1>3. QuoteTyped'
  BY <1>1 DEF QuoteTyped
<1> QED BY <1>2, <1>3, LiveStep DEF SimulateTtl

\* What submitting a quote does to the store, and that it does nothing when the
\* operation is refused.
LEMMA SubmitFacts ==
  ASSUME IInv, NEW cap, SubmitQuote(cap)
  PROVE  store' \in Stores /\ (~outcome'.ok => store' = store)
<1> DEFINE applied == ApplyTtlOp(QuotedOp, cap)
<1>1. TypeOK /\ quote.extendTo \in Nat
  BY DEF SubmitQuote, IInv, QuoteTyped
<1>2. QuotedOp.extendTo \in Nat
  BY <1>1 DEF QuotedOp
<1>3. applied.entries \in TtlMaps /\ (applied.result # "success" => applied.entries = Ttls)
  BY <1>1, <1>2, ApplyTtlOpFacts
<1>4. store' = MovedStore(applied.entries) /\ outcome'.ok = (applied.result = "success")
  BY DEF SubmitQuote
<1> HIDE DEF applied
<1>5. MovedStore(applied.entries) \in Stores /\ MovedStore(Ttls) = store
  BY <1>1, <1>3, MovedStoreFacts
<1> QED BY <1>3, <1>4, <1>5

LEMMA NextIInv == IInv /\ [Next]_vars => IInv'
<1> SUFFICES ASSUME IInv, [Next]_vars
             PROVE  IInv'
  OBVIOUS
<1> USE DEF clock, ledger
<1>1. /\ LedgerTyped /\ QuoteTyped /\ moduleCache \subseteq CodeKeys \cap Compilable
      /\ snapshots \in Seq(SnapshotRecords)
  BY DEF IInv, TypeOK, CacheParses, LedgerTyped, SnapshotsKept
<1>2. ASSUME NEW call \in Calls, Send(call) \/ SendEnvelope(call)
      PROVE  IInv'
  BY <1>2, InvokeStep DEF Send, SendEnvelope
<1>3. ASSUME NEW k \in Keys, NEW v \in Values, NEW ttl \in PutTtls,
             PutEntry(k, [value |-> v, liveUntil |-> ttl])
      PROVE  IInv'
  <2>1. [value |-> v, liveUntil |-> ttl] \in StoredEntries
    BY <1>3, SettingsAssumption DEF StoredEntries, LiveUntils
  <2> QED BY <1>3, <2>1, PutStep DEF PutEntry
<1>4. ASSUME NEW k \in Keys, RemoveEntry(k)
      PROVE  IInv'
  BY <1>4, PutStep DEF RemoveEntry
<1>5. ASSUME NEW k \in CodeKeys, SeedWasm(k)
      PROVE  IInv'
  <2>1. PICK v \in Values : PutEntry(k, [value |-> v, liveUntil |-> MinLiveUntil(k, ledgerSeq)])
    BY <1>5 DEF SeedWasm
  <2>2. MinLiveUntil(k, ledgerSeq) \in LiveUntils
    BY <1>5, MinLiveUntilNat, Numbers DEF SeedWasm, LiveUntils, IInv
  <2>3. [value |-> v, liveUntil |-> MinLiveUntil(k, ledgerSeq)] \in StoredEntries
    BY <2>2 DEF StoredEntries
  <2>4. k \in Keys
    BY KeysAssumption
  <2> QED BY <2>1, <2>3, <2>4, PutStep DEF PutEntry
<1>6. ASSUME NEW n \in Advances, AdvanceLedgers(n)
      PROVE  IInv'
  <2>1. n \in Nat /\ n * CLOSE_TIME \in Nat
    BY SettingsAssumption
  <2>2. SatAdd(ledgerSeq, n) \in 1 .. U32Max
    BY <1>1, <2>1, SatAddInRange DEF LedgerTyped
  <2>3. LedgerTyped'
    BY <1>1, <1>6, <2>1, <2>2 DEF AdvanceLedgers, NextLedger, LedgerTyped, Stores
  <2> QED BY <1>1, <1>6, <2>3, LiveStep DEF AdvanceLedgers, QuoteTyped
<1>7. ASSUME NEW t \in Timestamps, SetTimestamp(t)
      PROVE  IInv'
  <2>1. LedgerTyped'
    BY <1>1, <1>7, SettingsAssumption DEF SetTimestamp, LedgerTyped, Stores
  <2> QED BY <1>1, <1>7, <2>1, LiveStep DEF SetTimestamp, QuoteTyped
<1>8. ASSUME Simulate \/ ResetPrng
      PROVE  IInv'
  <2>1. LedgerTyped'
    BY <1>1, <1>8 DEF Simulate, ResetPrng, LedgerTyped, Stores
  <2> QED BY <1>1, <1>8, <2>1, LiveStep DEF Simulate, ResetPrng, QuoteTyped
<1>9. ASSUME TakeSnapshot
      PROVE  IInv'
  <2>1. LedgerSnapshot \in SnapshotRecords
    BY <1>1 DEF LedgerSnapshot, SnapshotRecords, LedgerTyped
  <2>2. /\ snapshots' = Append(snapshots, LedgerSnapshot)
        /\ taken' = Append(taken, <<store, ledgerSeq, timestamp, prngCounter>>)
        /\ UNCHANGED <<store, ledgerSeq, timestamp, prngCounter, moduleCache, quote>>
    BY <1>9 DEF TakeSnapshot
  <2>3. SnapshotsKept'
    <3>1. snapshots' \in Seq(SnapshotRecords) /\ SnapshotRecords' = SnapshotRecords
      BY <1>1, <2>1, <2>2 DEF SnapshotRecords, Stores
    <3>2. taken' = [i \in DOMAIN snapshots' |->
                      <<snapshots'[i].store, snapshots'[i].ledgerSeq,
                        snapshots'[i].timestamp, snapshots'[i].prngCounter>>]
      <4> DEFINE n == Len(snapshots)
                 tuple(s) == <<s.store, s.ledgerSeq, s.timestamp, s.prngCounter>>
      <4>1. n \in Nat /\ DOMAIN snapshots = 1 .. n
        BY <1>1
      <4>2. taken = [i \in 1 .. n |-> tuple(snapshots[i])]
        BY <4>1 DEF IInv, SnapshotsKept
      <4>3. DOMAIN snapshots' = 1 .. n + 1
            /\ \A i \in 1 .. n + 1 :
                 snapshots'[i] = IF i = n + 1 THEN LedgerSnapshot ELSE snapshots[i]
        BY <1>1, <2>1, <2>2, <4>1
      <4>4. taken' = [i \in 1 .. n + 1 |-> IF i = n + 1 THEN tuple(LedgerSnapshot)
                                          ELSE tuple(snapshots[i])]
        <5>1. tuple(LedgerSnapshot) = <<store, ledgerSeq, timestamp, prngCounter>>
          BY DEF LedgerSnapshot
        <5> HIDE DEF tuple, n
        <5>2. Len(taken) = n /\ \A i \in 1 .. n : taken[i] = tuple(snapshots[i])
          BY <4>1, <4>2
        <5> QED BY <2>2, <4>1, <4>2, <5>1, <5>2
      <4>5. taken' = [i \in 1 .. n + 1 |-> tuple(snapshots'[i])]
        BY <4>3, <4>4
      <4> QED BY <4>3, <4>5
    <3> QED BY <3>1, <3>2 DEF SnapshotsKept
  <2>4. TypeOK'
    <3>1. snapshots' \in Seq(SnapshotRecords)
      BY <1>1, <2>1, <2>2
    <3>2. Len(snapshots') = Len(taken')
      <4> HIDE DEF ledger
      <4>1. DOMAIN taken' = DOMAIN snapshots' /\ DOMAIN snapshots' = 1 .. Len(snapshots')
        BY <2>3, <3>1 DEF SnapshotsKept
      <4> QED BY <3>1, <4>1 DEF SnapshotsKept
    <3>3. \A i \in DOMAIN snapshots' : snapshots'[i] \in SnapshotRecords
      BY <3>1
    <3> QED BY <1>1, <2>2, <3>2, <3>3 DEF TypeOK, SnapshotRecords, LedgerTyped, Stores
  <2> QED BY <1>1, <2>2, <2>3, <2>4 DEF IInv, QuoteTyped, CacheParses
<1>10. ASSUME NEW id \in DOMAIN snapshots, Restore(id)
       PROVE  IInv'
  <2>1. snapshots[id] \in SnapshotRecords
    BY <1>1
  <2>2. LedgerTyped'
    BY <1>10, <2>1 DEF Restore, SnapshotRecords, LedgerTyped, Stores
  <2> QED BY <1>1, <1>10, <2>2, LiveStep DEF Restore, QuoteTyped
<1>11. ASSUME NEW keys, NEW at, SimulateTtl(keys, at)
       PROVE  IInv'
  BY <1>11, SimulateTtlStep
<1>12. ASSUME NEW cap, SubmitQuote(cap)
       PROVE  IInv'
  <2>1. store' \in Stores
    BY <1>12, SubmitFacts
  <2>2. LedgerTyped'
    BY <1>1, <1>12, <2>1 DEF SubmitQuote, LedgerTyped, Stores
  <2> QED BY <1>1, <1>12, <2>2, LiveStep DEF SubmitQuote, QuoteTyped
<1>13. CASE UNCHANGED vars
  <2>1. LedgerTyped' /\ QuoteTyped'
    BY <1>1, <1>13 DEF vars, LedgerTyped, QuoteTyped, Stores
  <2> QED BY <1>1, <1>13, <2>1, LiveStep DEF vars
<1> QED BY <1>2, <1>3, <1>4, <1>5, <1>6, <1>7, <1>8, <1>9, <1>10, <1>11, <1>12, <1>13 DEF Next
LEMMA AlwaysIInv == Spec => []IInv
  BY InitIInv, NextIInv, PTL DEF Spec
-----------------------------------------------------------------------------
(***************************************************************************)
(* Type correctness: the live ledger and every snapshot of it hold well-   *)
(* typed entries, and no sequence number or TTL leaves the range of a u32, *)
(* however far the clock is advanced.                                      *)
(***************************************************************************)
THEOREM LedgerTypeCorrect == Spec => []TypeOK
<1>1. IInv => TypeOK
  BY DEF IInv
<1> QED BY <1>1, AlwaysIInv, PTL
-----------------------------------------------------------------------------
(***************************************************************************)
(* Atomic failure: whatever fails a call, no entry and no TTL moves.       *)
(***************************************************************************)
LEMMA InvokeOutcome ==
  ASSUME NEW call, NEW marks, Invoke(call, marks)
  PROVE  /\ outcome'.call = call
         /\ ~outcome'.ok => store' = store
         /\ outcome'.ok => CompleteInHost(call, marks)
<1>1. CASE RefuseFootprint(call, marks)
  BY <1>1 DEF RefuseFootprint, Failure
<1>2. CASE FailInHost(call, marks)
  BY <1>2 DEF FailInHost, Failure
<1>3. CASE CompleteInHost(call, marks)
  <2>1. PICK after \in HostRuns(Changes(call, marks)), events \in EventFees :
           /\ outcome' = Verdict(call, after, HostRent(call, marks, after), events,
                               PreparedCache(call, marks))
           /\ store' = Landed(after, outcome'.ok)
    BY <1>3 DEF CompleteInHost
  <2>2. outcome'.call = call
    BY <2>1 DEF Verdict, Failure
  <2> QED BY <1>3, <2>1, <2>2 DEF Landed
<1> QED BY <1>1, <1>2, <1>3 DEF Invoke

\* The steps that leave an outcome of a call behind are the calls.
LEMMA CalledSteps ==
  ASSUME IInv, Next, outcome' # None
  PROVE  \/ \E call \in Calls : Send(call) \/ SendEnvelope(call)
         \/ \E cap \in Caps : SubmitQuote(cap)
<1>1. ASSUME NEW k, NEW entry, PutEntry(k, entry) PROVE outcome' = None
  BY <1>1 DEF PutEntry
<1>2. ASSUME NEW k, RemoveEntry(k) \/ SeedWasm(k) PROVE outcome' = None
  BY <1>2 DEF RemoveEntry, SeedWasm, PutEntry
<1>3. ASSUME NEW n, AdvanceLedgers(n) \/ SetTimestamp(n) \/ Restore(n) PROVE outcome' = None
  BY <1>3 DEF AdvanceLedgers, SetTimestamp, Restore
<1>4. ASSUME Simulate \/ ResetPrng \/ TakeSnapshot PROVE outcome' = None
  BY <1>4 DEF Simulate, ResetPrng, TakeSnapshot
<1>5. ASSUME NEW keys, NEW at, SimulateTtl(keys, at) PROVE outcome' = None
  BY <1>5 DEF SimulateTtl
<1> QED BY <1>1, <1>2, <1>3, <1>4, <1>5 DEF Next

LEMMA MovedSteps ==
  ASSUME IInv, Next, Moved'
  PROVE  \E cap \in Caps : SubmitQuote(cap)
<1>1. ASSUME NEW call \in Calls, Send(call) \/ SendEnvelope(call) PROVE outcome'.call # None
  BY <1>1, InvokeOutcome, CallsAssumption DEF Send, SendEnvelope
<1> QED BY <1>1, CalledSteps DEF Moved

THEOREM FailedSendsKeepStore == Spec => FailedSendKeepsStore
<1> DEFINE Untouched == (outcome' # None /\ ~outcome'.ok) => store' = store
<1>1. IInv /\ [Next]_vars => [Untouched]_vars
  <2> SUFFICES ASSUME IInv, Next, outcome' # None, ~outcome'.ok
               PROVE  store' = store
    OBVIOUS
  <2>1. ASSUME NEW call \in Calls, Send(call) \/ SendEnvelope(call)
        PROVE  store' = store
    BY <2>1, InvokeOutcome DEF Send, SendEnvelope
  <2>2. ASSUME NEW cap, SubmitQuote(cap)
        PROVE  store' = store
    BY <2>2, SubmitFacts
  <2> QED BY <2>1, <2>2, CalledSteps
<1> QED BY <1>1, AlwaysIInv, PTL DEF Spec, FailedSendKeepsStore
-----------------------------------------------------------------------------
(***************************************************************************)
(* Time travel: a return to a snapshot gives back the ledger it was taken  *)
(* of, and the module cache, which stays as it is, decides nothing for the *)
(* code the ledger holds.                                                  *)
(***************************************************************************)
THEOREM RestoresExact == Spec => RestoreIsExact
<1> DEFINE Exact == \A id \in DOMAIN snapshots : Restore(id) => ledger' = taken[id]
<1>1. IInv /\ [Next]_vars => [Exact]_vars
  <2> SUFFICES ASSUME IInv, NEW id \in DOMAIN snapshots, Restore(id)
               PROVE  ledger' = taken[id]
    OBVIOUS
  <2>1. taken[id] = <<snapshots[id].store, snapshots[id].ledgerSeq,
                      snapshots[id].timestamp, snapshots[id].prngCounter>>
    BY DEF IInv, SnapshotsKept
  <2> QED BY <2>1 DEF Restore, ledger
<1> QED BY <1>1, AlwaysIInv, PTL DEF Spec, RestoreIsExact

\* Code and every other persistent entry is present as long as it is stored, and
\* the host takes it only within its TTL.
LEMMA HandedOverIsLive ==
  ASSUME NEW call, NEW marks, ~HostRefuses(call, marks), TypeOK,
         NEW k \in ToSet(Footprint(call)), IsPersistentKey(k), store[k] # None, k \notin marks
  PROVE  k \in Present(call) /\ ~Expired(k)
<1>1. IsTtlKey(k) /\ KindOf[k] # "temporary"
  BY DEF IsPersistentKey, IsTtlKey
<1>2. k \in Present(call)
  BY <1>1 DEF Present, Absent
<1>3. ~(GivenTtl(k, marks) < ledgerSeq)
  BY <1>1, <1>2 DEF HostRefuses
<1> QED BY <1>2, <1>3 DEF GivenTtl, Expired

\* What a call that succeeds finds parsed.
LEMMA HitFacts ==
  ASSUME IInv, NEW call \in Calls, NEW marks, Invoke(call, marks), outcome'.ok,
         NEW k \in FootprintCode(call)
  PROVE  /\ k \notin marks => ~Expired(k)
         /\ k \in outcome'.hits <=> k \in Compilable /\ store'[k] # None /\ k \notin marks
<1>1. CompleteInHost(call, marks) /\ TypeOK /\ moduleCache \subseteq Compilable
  BY InvokeOutcome DEF IInv, CacheParses
<1>2. PICK after \in HostRuns(Changes(call, marks)), events \in EventFees :
         /\ outcome' = Verdict(call, after, HostRent(call, marks, after), events,
                             PreparedCache(call, marks))
         /\ store' = Landed(after, outcome'.ok)
  BY <1>1 DEF CompleteInHost
<1>3. k \in CodeKeys /\ k \in Keys /\ IsPersistentKey(k) /\ k \in Present(call)
      /\ k \in ToSet(Footprint(call)) /\ store[k] # None
  BY KeysAssumption DEF FootprintCode, Present, Absent, IsPersistentKey
<1>4. k \notin marks => ~Expired(k)
  BY <1>1, <1>3, HandedOverIsLive DEF CompleteInHost
<1>5. k \in DOMAIN after
  BY <1>1, <1>3, RunFacts
<1>6. store'[k] = after[k]
  BY <1>2, <1>3, <1>5 DEF Landed
<1>7. outcome'.hits = Runnable(after) \cap PreparedCache(call, marks)
  BY <1>2 DEF Verdict, Failure
<1>8. k \in Runnable(after) <=> store'[k] # None
  BY <1>3, <1>5, <1>6 DEF Runnable
<1>9. k \in PreparedCache(call, marks) <=> k \in Compilable /\ k \notin marks
  BY <1>1, <1>3, <1>4 DEF PreparedCache, LiveCode, FootprintCode
<1> QED BY <1>4, <1>7, <1>8, <1>9

LEMMA MarkedIsRestored ==
  ASSUME NEW call, NEW k
  PROVE  k \in Marked(call) <=> RestoredBy(call, k)
  BY DEF Marked, RestoredBy

THEOREM CacheMirrors == Spec => CacheMirrorsLedger
<1> DEFINE Hit(call, k) ==
             k \in outcome'.hits <=>
               k \in Compilable /\ store'[k] # None /\ ~Expired(k)
                 /\ ~(Send(call) /\ RestoredBy(call, k))
           Mirrors == (Called' /\ outcome'.ok) =>
                         \A k \in FootprintCode(outcome'.call) : Hit(outcome'.call, k)
<1>1. IInv /\ [Next]_vars => [Mirrors]_vars
  <2> SUFFICES ASSUME IInv, Next, outcome' # None, outcome'.call # None, outcome'.ok,
                      NEW k \in FootprintCode(outcome'.call)
               PROVE  Hit(outcome'.call, k)
    BY DEF Called
  <2>1. PICK call \in Calls : Send(call) \/ SendEnvelope(call)
    <3>1. ASSUME NEW cap, SubmitQuote(cap) PROVE outcome'.call = None
      BY <3>1 DEF SubmitQuote
    <3> QED BY <3>1, CalledSteps
  <2>2. outcome'.call = call /\ k \in FootprintCode(call)
    BY <2>1, InvokeOutcome DEF Send, SendEnvelope
  <2>3. Send(call) =>
          /\ ~RestoredBy(call, k) => ~Expired(k)
          /\ k \in outcome'.hits <=> k \in Compilable /\ store'[k] # None /\ ~RestoredBy(call, k)
    BY <2>2, HitFacts, MarkedIsRestored DEF Send, SendMarks
  <2>4. SendEnvelope(call) =>
          /\ ~Expired(k)
          /\ k \in outcome'.hits <=> k \in Compilable /\ store'[k] # None
    BY <2>2, HitFacts DEF SendEnvelope, EnvelopeMarks
  <2>5. Hit(call, k)
    BY <2>1, <2>3, <2>4
  <2> QED BY <2>2, <2>5
<1> QED BY <1>1, AlwaysIInv, PTL DEF Spec, CacheMirrorsLedger
-----------------------------------------------------------------------------
(***************************************************************************)
(* No run brings an archived entry back: if a call changes one, it         *)
(* succeeded and had marked it for restoring.                              *)
(***************************************************************************)
LEMMA RunsKeepArchive ==
  ASSUME IInv, Next, Called', NEW k \in Keys, ArchivedNow(k), store'[k] # store[k]
  PROVE  outcome'.ok /\ RestoredBy(outcome'.call, k)
<1>1. ASSUME NEW call \in Calls, NEW marks, Invoke(call, marks)
      PROVE  outcome'.ok /\ outcome'.call = call /\ k \in marks
  <2>1. outcome'.ok /\ outcome'.call = call /\ CompleteInHost(call, marks)
    BY <1>1, InvokeOutcome
  <2>2. PICK after \in HostRuns(Changes(call, marks)) : store' = Landed(after, outcome'.ok)
    BY <2>1 DEF CompleteInHost
  <2>3. k \in ToSet(Footprint(call))
    BY <2>2, RunFacts DEF Landed, IInv
  <2>4. k \in marks
    BY <2>1, <2>3, HandedOverIsLive DEF CompleteInHost, ArchivedNow, IInv
  <2> QED BY <2>1, <2>4
<1>2. PICK call \in Calls : Send(call) \/ SendEnvelope(call)
  <2>1. ASSUME NEW cap, SubmitQuote(cap) PROVE outcome'.call = None
    BY <2>1 DEF SubmitQuote
  <2> QED BY <2>1, CalledSteps DEF Called
<1>3. CASE Send(call)
  BY <1>1, <1>3, MarkedIsRestored DEF Send, SendMarks
<1>4. CASE SendEnvelope(call)
  BY <1>1, <1>4 DEF SendEnvelope, EnvelopeMarks
<1> QED BY <1>2, <1>3, <1>4
-----------------------------------------------------------------------------
(***************************************************************************)
(* The TTL preflights.  A quote is applied in a later step, so what it     *)
(* says of the store must hold for as long as it stands: the entries of an *)
(* extension live and are short of what was asked, those of a restoration  *)
(* are archived, and the bytes and the rent are those of the very moves    *)
(* that will be made.  The ledger may have closed since (an archived entry *)
(* only ages), so the rent is exact in the ledger of the preflight alone.  *)
(***************************************************************************)
ExtensionQuoted ==
  LET until == SatAdd(quote.at, quote.extendTo)
  IN  /\ quote.op = "extend" /\ quote.keys \in Seq(Keys)
      /\ \A k \in ToSet(quote.keys) : Live(Ttls, quote.at, k) /\ Ttls[k] < until
      /\ quote.rent = RentFee(TtlMoves(quote.keys, SizesIn(store), Ttls, until), quote.at)

RestorationQuoted ==
  LET until == RestoredLiveUntil(quote.at)
  IN  /\ quote.op = "restore" /\ quote.keys \in Seq(Keys) /\ quote.extendTo = 0
      /\ \A k \in ToSet(quote.keys) : Archived(Ttls, quote.at, k)
      /\ quote.bytes = Bytes(quote.keys, SizesIn(store)) /\ until <= U32Max
      /\ quote.rent = RentFee(TtlMoves(quote.keys, SizesIn(store), NoOldTtl, until), quote.at)

QuoteCurrent ==
  quote # None => /\ quote.at \in Nat /\ quote.at <= ledgerSeq
                  /\ ExtensionQuoted \/ RestorationQuoted

LEMMA SelectedFacts ==
  ASSUME NEW keys \in Seq(Keys), NEW S
  PROVE  /\ Selected(keys, S) \in Seq(Keys)
         /\ ToSet(Selected(keys, S)) = ToSet(keys) \cap S
         /\ ToSet(keys) \subseteq S => Selected(keys, S) = keys
<1>1. Selected(keys, S) = Kept(keys, S)
  BY DEF Selected, Kept
<1>2. ToSet(keys) \subseteq S => \A i \in DOMAIN keys : keys[i] \in S
  BY DEF ToSet
<1> QED BY <1>1, <1>2, KeptFacts

LEMMA SizesTyped ==
  ASSUME TypeOK
  PROVE  SizesIn(store) \in [Keys -> Nat]
<1>1. SizeOf \in [Values -> Nat] /\ DOMAIN store = Keys
  BY KeysAssumption DEF TypeOK, Stores
<1> QED BY <1>1, StoredTyped DEF SizesIn

LEMMA BytesNat ==
  ASSUME NEW keys \in Seq(Keys), NEW sizes \in [Keys -> Nat]
  PROVE  Bytes(keys, sizes) \in Nat
<1>1. Bytes(keys, sizes) = Weighed(sizes, keys)
  BY DEF Bytes, Weighed
<1> QED BY <1>1, WeighedNat

LEMMA ExtensionQuote ==
  ASSUME TypeOK, NEW keys \in Seq(Keys), NEW at \in Nat, at <= ledgerSeq, NEW extendTo \in ExtendTos,
         quote' = ExtendTtlResources(keys, extendTo, at), quote' # None, UNCHANGED ledger
  PROVE  QuoteCurrent'
<1> DEFINE until == SatAdd(at, extendTo)
           quoted == QuotedExtension(keys, until, at)
<1>1. /\ quote'.op = "extend" /\ quote'.keys = quoted /\ quote'.extendTo = extendTo /\ quote'.at = at
      /\ quote'.rent = RentFee(TtlMoves(quoted, SizesIn(store), Ttls, until), at)
  BY DEF ExtendTtlResources
<1>2. quoted \in Seq(Keys) /\ \A k \in ToSet(quoted) : Live(Ttls, at, k) /\ Ttls[k] < until
  BY SelectedFacts DEF QuotedExtension
<1>3. Ttls' = Ttls /\ ledgerSeq' = ledgerSeq /\ SizesIn(store)' = SizesIn(store)
  BY DEF Ttls, SizesIn, ledger
<1> HIDE DEF quoted
<1>4. ExtensionQuoted'
  BY <1>1, <1>2, <1>3 DEF ExtensionQuoted, Live
<1> QED BY <1>1, <1>3, <1>4 DEF QuoteCurrent

LEMMA RestorationQuote ==
  ASSUME TypeOK, NEW keys \in Seq(Keys), NEW at \in Nat, at <= ledgerSeq,
         quote' = RestoreResources(keys, at), quote' # None, UNCHANGED ledger
  PROVE  QuoteCurrent'
<1> DEFINE until == RestoredLiveUntil(at)
           quoted == Selected(keys, {k \in Keys : Archived(Ttls, at, k)})
<1>1. /\ quote'.op = "restore" /\ quote'.keys = quoted /\ quote'.extendTo = 0 /\ quote'.at = at
      /\ quote'.rent = RentFee(TtlMoves(quoted, SizesIn(store), NoOldTtl, until), at)
      /\ quote'.bytes = Bytes(quoted, SizesIn(store))
  BY DEF RestoreResources
<1>2. until <= U32Max
  BY Numbers DEF RestoreResources, RestoredLiveUntil
<1>3. quoted \in Seq(Keys) /\ \A k \in ToSet(quoted) : Archived(Ttls, at, k)
  BY SelectedFacts
<1>4. Ttls' = Ttls /\ ledgerSeq' = ledgerSeq /\ SizesIn(store)' = SizesIn(store)
  BY DEF Ttls, SizesIn, ledger
<1> HIDE DEF quoted
<1>5. RestorationQuoted'
  BY <1>1, <1>2, <1>3, <1>4 DEF RestorationQuoted, Archived
<1> QED BY <1>1, <1>4, <1>5 DEF QuoteCurrent

\* A quote stands while the entries are as they were and time goes on.
LEMMA QuoteStands ==
  ASSUME TypeOK, QuoteCurrent, quote' = quote, store' = store,
         ledgerSeq' \in Nat, ledgerSeq <= ledgerSeq'
  PROVE  QuoteCurrent'
<1>1. Ttls' = Ttls
  BY DEF Ttls
<1>2. ExtensionQuoted => ExtensionQuoted'
  BY <1>1 DEF ExtensionQuoted, Live
<1>3. RestorationQuoted => RestorationQuoted'
  BY <1>1 DEF RestorationQuoted, Archived
<1>4. quote # None => quote.at <= ledgerSeq'
  BY DEF QuoteCurrent, TypeOK
<1> QED BY <1>2, <1>3, <1>4 DEF QuoteCurrent

LEMMA NextQuoteCurrent ==
  ASSUME IInv, QuoteCurrent, [Next]_vars
  PROVE  QuoteCurrent'
<1>0. TypeOK /\ ledgerSeq \in Nat
  BY Numbers DEF IInv, TypeOK
<1>1. quote' = None => QuoteCurrent'
  BY DEF QuoteCurrent
<1>2. ASSUME NEW call, Send(call) \/ SendEnvelope(call) PROVE quote' = None
  BY <1>2 DEF Send, SendEnvelope, Invoke
<1>3. ASSUME NEW k, NEW entry, PutEntry(k, entry) PROVE quote' = None
  BY <1>3 DEF PutEntry
<1>4. ASSUME NEW k, RemoveEntry(k) \/ SeedWasm(k) \/ Restore(k) \/ SubmitQuote(k) PROVE quote' = None
  BY <1>4 DEF RemoveEntry, SeedWasm, PutEntry, Restore, SubmitQuote
<1>5. ASSUME NEW n \in Advances, AdvanceLedgers(n) PROVE QuoteCurrent'
  <2>1. n \in Nat /\ n >= 1 /\ U32Max \in Nat /\ ledgerSeq <= U32Max
    BY <1>0, SettingsAssumption, Numbers DEF TypeOK
  <2>2. SatAdd(ledgerSeq, n) \in Nat /\ ledgerSeq <= SatAdd(ledgerSeq, n)
    BY <1>0, <2>1 DEF SatAdd, MinOf
  <2> QED BY <1>0, <1>5, <2>2, QuoteStands DEF AdvanceLedgers, NextLedger
<1>6. ASSUME NEW t, SetTimestamp(t) \/ Simulate \/ ResetPrng \/ TakeSnapshot \/ UNCHANGED vars
      PROVE  QuoteCurrent'
  <2>1. quote' = quote /\ store' = store /\ ledgerSeq' = ledgerSeq
    BY <1>6 DEF SetTimestamp, Simulate, ResetPrng, TakeSnapshot, vars, clock, ledger
  <2> QED BY <1>0, <2>1, QuoteStands
<1>7. ASSUME NEW keys \in FootprintRequests, NEW at \in {ledgerSeq, ledgerSeq - 1},
             SimulateTtl(keys, at)
      PROVE  QuoteCurrent'
  <2>1. keys \in Seq(Keys) /\ at \in Nat /\ at <= ledgerSeq
    BY <1>0, CallsAssumption DEF TypeOK
  <2>2. CASE quote' = RestoreResources(keys, at)
    BY <1>0, <1>1, <1>7, <2>1, <2>2, RestorationQuote DEF SimulateTtl
  <2>3. ASSUME NEW extendTo \in ExtendTos, quote' = ExtendTtlResources(keys, extendTo, at)
        PROVE  QuoteCurrent'
    BY <1>0, <1>1, <1>7, <2>1, <2>3, ExtensionQuote DEF SimulateTtl
  <2> QED BY <1>7, <2>2, <2>3 DEF SimulateTtl
<1> QED BY <1>1, <1>2, <1>3, <1>4, <1>5, <1>6, <1>7 DEF Next

LEMMA AlwaysQuoteCurrent == Spec => [](IInv /\ QuoteCurrent)
<1>1. Init => QuoteCurrent
  BY DEF Init, QuoteCurrent
<1>2. IInv /\ QuoteCurrent /\ [Next]_vars => QuoteCurrent'
  BY NextQuoteCurrent
<1> QED BY <1>1, <1>2, AlwaysIInv, PTL DEF Spec
-----------------------------------------------------------------------------
(***************************************************************************)
(* Submitting a quote.                                                     *)
(***************************************************************************)
\* A restoration finds every entry it quoted archived still: it moves them all, for
\* the quoted bytes.
LEMMA RestoresWhatIsQuoted ==
  ASSUME IInv, quote # None, QuoteCurrent, RestorationQuoted
  PROVE  /\ RestoreMoves(QuotedOp, Ttls, ledgerSeq) = quote.keys
         /\ ~RestoreOverLimit(QuotedOp, quote.keys, SizesIn(store))
<1>1. TypeOK /\ quote.at \in Nat /\ quote.at <= ledgerSeq /\ ledgerSeq \in Nat
  BY Numbers DEF QuoteCurrent, IInv, TypeOK
<1>2. /\ quote.op = "restore" /\ quote.keys \in Seq(Keys)
      /\ quote.bytes = Bytes(quote.keys, SizesIn(store))
  BY DEF RestorationQuoted
<1>3. QuotedOp.readWrite = quote.keys /\ QuotedOp.diskReadBytes = quote.bytes
      /\ QuotedOp.writeBytes = quote.bytes
  BY <1>2 DEF QuotedOp
<1>4. ASSUME NEW k \in ToSet(quote.keys) PROVE k \in Keys /\ Archived(Ttls, ledgerSeq, k)
  <2>1. k \in Keys
    BY <1>2, <1>4 DEF ToSet
  <2>2. Ttls[k] \in Nat
    BY <1>1, <2>1, TtlsTyped DEF TtlMaps
  <2>3. Archived(Ttls, quote.at, k)
    BY <1>4 DEF RestorationQuoted
  <2> QED BY <1>1, <2>1, <2>2, <2>3 DEF Archived
<1>5. RestoreMoves(QuotedOp, Ttls, ledgerSeq) = quote.keys
  <2>1. ToSet(quote.keys) \subseteq {k \in Keys : Archived(Ttls, ledgerSeq, k)}
    BY <1>4
  <2> QED BY <1>2, <1>3, <2>1, SelectedFacts DEF RestoreMoves
<1>6. Bytes(quote.keys, SizesIn(store)) \in Nat
  BY <1>1, <1>2, BytesNat, SizesTyped
<1>7. ~RestoreOverLimit(QuotedOp, quote.keys, SizesIn(store))
  BY <1>2, <1>3, <1>6 DEF RestoreOverLimit
<1> QED BY <1>5, <1>7

\* An extension moves entries it quoted, and in the ledger of the preflight all of
\* them.
LEMMA ExtendsWhatIsQuoted ==
  ASSUME IInv, quote # None, QuoteCurrent, ExtensionQuoted
  PROVE  LET keys == ExtendMoves(QuotedOp, Ttls, ledgerSeq)
         IN  /\ keys \in Seq(Keys) /\ ToSet(keys) \subseteq ToSet(quote.keys)
             /\ \A k \in ToSet(keys) : Live(Ttls, ledgerSeq, k)
             /\ (quote.at = ledgerSeq /\ ledgerSeq + quote.extendTo <= U32Max) => keys = quote.keys
<1> DEFINE S == {k \in Keys : Live(Ttls, ledgerSeq, k) /\ Ttls[k] < ledgerSeq + quote.extendTo}
<1>1. quote.op = "extend" /\ quote.keys \in Seq(Keys)
  BY DEF ExtensionQuoted
<1>2. ExtendMoves(QuotedOp, Ttls, ledgerSeq) = Selected(quote.keys, S)
  BY <1>1 DEF ExtendMoves, QuotedOp
<1>3. (quote.at = ledgerSeq /\ ledgerSeq + quote.extendTo <= U32Max) => ToSet(quote.keys) \subseteq S
  <2> SUFFICES ASSUME quote.at = ledgerSeq, ledgerSeq + quote.extendTo <= U32Max,
                      NEW k \in ToSet(quote.keys)
               PROVE  k \in S
    OBVIOUS
  <2>1. k \in Keys
    BY <1>1 DEF ToSet
  <2>2. ledgerSeq \in Nat /\ U32Max \in Nat /\ quote.extendTo \in Nat
    BY Numbers DEF IInv, TypeOK, QuoteTyped
  <2>3. SatAdd(quote.at, quote.extendTo) = ledgerSeq + quote.extendTo
    BY <2>2 DEF SatAdd, MinOf
  <2>4. Live(Ttls, ledgerSeq, k) /\ Ttls[k] < ledgerSeq + quote.extendTo
    BY <2>3 DEF ExtensionQuoted
  <2> QED BY <2>1, <2>4
<1>4. \A k \in S : Live(Ttls, ledgerSeq, k)
  OBVIOUS
<1> HIDE DEF S
<1> QED BY <1>1, <1>2, <1>3, <1>4, SelectedFacts

\* Nothing else is moved, whatever the price.
LEMMA OthersStay ==
  ASSUME NEW ttls \in TtlMaps, NEW sizes, NEW seq, NEW keys \in Seq(Keys), NEW old, NEW new, NEW cap,
         NEW k \in Keys, k \notin ToSet(keys)
  PROVE  MoveTtls(ttls, sizes, seq, keys, old, new, cap).entries[k] = ttls[k]
<1>1. ~ \E i \in DOMAIN keys : keys[i] = k
  BY DEF ToSet
<1> QED BY <1>1 DEF MoveTtls, TtlMaps

LEMMA SubmitMoves ==
  ASSUME IInv, QuoteCurrent, NEW cap, SubmitQuote(cap), NEW k \in Keys, store'[k] # store[k]
  PROVE  \/ quote.op = "extend" /\ Live(Ttls, ledgerSeq, k)
         \/ quote.op = "restore" /\ k \in ToSet(quote.keys)
<1> DEFINE applied == ApplyTtlOp(QuotedOp, cap)
<1>1. quote # None /\ TypeOK /\ Ttls \in TtlMaps /\ (ExtensionQuoted \/ RestorationQuoted)
  BY TtlsTyped DEF SubmitQuote, QuoteCurrent, IInv
<1>2. applied.entries[k] # Ttls[k]
  <2>1. store' = MovedStore(applied.entries)
    BY DEF SubmitQuote
  <2> HIDE DEF applied
  <2> QED BY <2>1 DEF MovedStore
<1>3. OverLimit(Ttls).entries = Ttls
  BY DEF OverLimit
<1>4. CASE ExtensionQuoted
  <2> DEFINE keys == ExtendMoves(QuotedOp, Ttls, ledgerSeq)
  <2>1. quote.op = "extend" /\ applied = ApplyExtendFootprintTtl(QuotedOp, Ttls, SizesIn(store), ledgerSeq, cap)
    BY <1>4 DEF ExtensionQuoted, ApplyTtlOp
  <2>2. keys \in Seq(Keys) /\ \A key \in ToSet(keys) : Live(Ttls, ledgerSeq, key)
    BY <1>1, <1>4, ExtendsWhatIsQuoted
  <2>3. applied = OverLimit(Ttls)
        \/ applied = MoveTtls(Ttls, SizesIn(store), ledgerSeq, keys, Ttls, ledgerSeq + QuotedOp.extendTo, cap)
    BY <2>1 DEF ApplyExtendFootprintTtl
  <2> HIDE DEF keys, applied
  <2>4. k \in ToSet(keys)
    BY <1>1, <1>2, <1>3, <2>2, <2>3, OthersStay
  <2> QED BY <2>1, <2>2, <2>4
<1>5. CASE RestorationQuoted
  <2>1. quote.op = "restore" /\ applied = ApplyRestoreFootprint(QuotedOp, Ttls, SizesIn(store), ledgerSeq, cap)
    BY <1>5 DEF RestorationQuoted, ApplyTtlOp
  <2>2. quote.keys \in Seq(Keys) /\ RestoreMoves(QuotedOp, Ttls, ledgerSeq) = quote.keys
    BY <1>1, <1>5, RestoresWhatIsQuoted DEF RestorationQuoted
  <2>3. applied = OverLimit(Ttls)
        \/ applied = MoveTtls(Ttls, SizesIn(store), ledgerSeq, quote.keys, NoOldTtl, RestoredLiveUntil(ledgerSeq), cap)
    BY <2>1, <2>2 DEF ApplyRestoreFootprint
  <2> HIDE DEF applied
  <2>4. k \in ToSet(quote.keys)
    BY <1>1, <1>2, <1>3, <2>2, <2>3, OthersStay
  <2> QED BY <2>1, <2>4
<1> QED BY <1>1, <1>4, <1>5

(***************************************************************************)
(* The archive opens by a restoration alone: a persistent entry past its   *)
(* TTL is changed by no run that did not mark it, and by no TTL operation  *)
(* but a RestoreFootprint that names it.                                   *)
(***************************************************************************)
THEOREM ArchiveOpens == Spec => ArchiveOpensByRestore
<1> DEFINE Opens(k) ==
             (ArchivedNow(k) /\ store'[k] # store[k]) =>
                /\ Called' => outcome'.ok /\ RestoredBy(outcome'.call, k)
                /\ Moved' => quote.op = "restore" /\ k \in ToSet(quote.keys)
<1>1. (IInv /\ QuoteCurrent) /\ [Next]_vars => [\A k \in Keys : Opens(k)]_vars
  <2> SUFFICES ASSUME IInv, QuoteCurrent, Next,
                      NEW k \in Keys, ArchivedNow(k), store'[k] # store[k]
               PROVE  /\ Called' => outcome'.ok /\ RestoredBy(outcome'.call, k)
                      /\ Moved' => quote.op = "restore" /\ k \in ToSet(quote.keys)
    OBVIOUS
  <2>1. Called' => outcome'.ok /\ RestoredBy(outcome'.call, k)
    BY RunsKeepArchive
  <2>2. ASSUME Moved' PROVE quote.op = "restore" /\ k \in ToSet(quote.keys)
    <3>1. PICK cap \in Caps : SubmitQuote(cap)
      BY <2>2, MovedSteps
    <3>2. ~Live(Ttls, ledgerSeq, k)
      <4>1. store[k].liveUntil \in LiveUntils /\ store[k] # None
        BY StoredTyped DEF IInv, ArchivedNow
      <4>2. store[k].liveUntil # None /\ store[k].liveUntil < ledgerSeq
        BY DEF ArchivedNow, Expired
      <4>3. Ttls[k] = store[k].liveUntil
        BY <4>1, <4>2 DEF Ttls
      <4> QED BY <4>1, <4>2, <4>3, Numbers DEF Live, LiveUntils, IInv, TypeOK
    <3> QED BY <3>1, <3>2, SubmitMoves
  <2> QED BY <2>1, <2>2
<1> QED BY <1>1, AlwaysQuoteCurrent, PTL DEF Spec, ArchiveOpensByRestore
-----------------------------------------------------------------------------
(***************************************************************************)
(* A quote suffices.  What the host's compute_rent_fee charges is external *)
(* to the project: of it this needs that moves which lengthen a life cost  *)
(* a number, never a negative one.                                         *)
(***************************************************************************)
RentChanges ==
  [key : Keys, oldSize : Nat, newSize : Nat, oldLiveUntil : Nat, newLiveUntil : Nat]

Lengthens(move, seq) == move.oldLiveUntil < move.newLiveUntil /\ seq <= move.newLiveUntil

RentNeverNegative ==
  \A moves \in Seq(RentChanges), seq \in Nat :
    (\A i \in DOMAIN moves : Lengthens(moves[i], seq)) => RentFee(moves, seq) \in Nat

\* Moves that lengthen the life of every entry they name cost a number.
LEMMA LongerLivesCost ==
  ASSUME RentNeverNegative, NEW sizes \in [Keys -> Nat], NEW seq \in Nat, NEW keys \in Seq(Keys),
         NEW old \in TtlMaps, NEW new \in Nat, seq <= new, \A k \in ToSet(keys) : old[k] < new
  PROVE  RentFee(TtlMoves(keys, sizes, old, new), seq) \in Nat
<1> DEFINE moves == TtlMoves(keys, sizes, old, new)
<1>1. \A i \in DOMAIN keys : /\ keys[i] \in Keys /\ keys[i] \in ToSet(keys)
                              /\ old[keys[i]] \in Nat /\ sizes[keys[i]] \in Nat
  BY DEF ToSet, TtlMaps
<1>2. moves \in Seq(RentChanges)
  <2>1. \A i \in 1 .. Len(keys) :
          TtlMove(keys[i], sizes[keys[i]], old[keys[i]], new) \in RentChanges
    BY <1>1 DEF TtlMove, RentChanges
  <2> QED BY <2>1 DEF TtlMoves
<1>3. \A i \in DOMAIN moves : Lengthens(moves[i], seq)
  BY <1>1 DEF TtlMoves, TtlMove, Lengthens
<1> HIDE DEF moves
<1>4. RentFee(moves, seq) \in Nat
  BY <1>2, <1>3 DEF RentNeverNegative
<1> QED BY <1>4 DEF moves

\* Moves paid up to what they cost are made, all of them.
LEMMA PaidInFull ==
  ASSUME NEW ttls, NEW sizes, NEW seq, NEW keys, NEW old, NEW new, NEW cap, NEW rent \in Nat,
         rent = RentFee(TtlMoves(keys, sizes, old, new), seq), cap = None \/ cap = rent
  PROVE  MoveTtls(ttls, sizes, seq, keys, old, new, cap)
           = [result |-> "success", rent |-> rent,
              entries |-> [k \in Keys |-> IF k \in ToSet(keys) THEN new ELSE ttls[k]]]
<1>1. ~(cap # None /\ rent \notin 0 .. cap)
  OBVIOUS
<1>2. [k \in Keys |-> IF \E i \in DOMAIN keys : keys[i] = k THEN new ELSE ttls[k]]
        = [k \in Keys |-> IF k \in ToSet(keys) THEN new ELSE ttls[k]]
  BY DEF ToSet
<1>3. MoveTtls(ttls, sizes, seq, keys, old, new, cap)
        = [result |-> "success", rent |-> rent,
           entries |-> [k \in Keys |-> IF \E i \in DOMAIN keys : keys[i] = k
                                       THEN new ELSE ttls[k]]]
  BY <1>1 DEF MoveTtls
<1> QED BY <1>2, <1>3

\* It is never refused for its resources.
LEMMA WithinResources ==
  ASSUME IInv, QuoteCurrent, NEW cap, SubmitQuote(cap), ~QuotesTooLarge
  PROVE  outcome'.code # "resourceLimitExceeded"
<1> DEFINE applied == ApplyTtlOp(QuotedOp, cap)
<1>1. quote # None /\ outcome'.code = applied.result /\ (ExtensionQuoted \/ RestorationQuoted)
  BY DEF SubmitQuote, QuoteCurrent
<1>2. ASSUME NEW ttls, NEW seq, NEW keys, NEW old, NEW new
      PROVE  MoveTtls(ttls, SizesIn(store), seq, keys, old, new, cap).result # "resourceLimitExceeded"
  BY DEF MoveTtls
<1>3. ASSUME NEW keys \in Seq(Keys), ToSet(keys) \subseteq ToSet(quote.keys)
      PROVE  ~AnyTooLarge(keys, SizesIn(store))
  BY <1>3 DEF AnyTooLarge, QuotesTooLarge, ToSet
<1>4. CASE ExtensionQuoted
  <2>1. applied = ApplyExtendFootprintTtl(QuotedOp, Ttls, SizesIn(store), ledgerSeq, cap)
    BY <1>4 DEF ExtensionQuoted, ApplyTtlOp
  <2>2. ~AnyTooLarge(ExtendMoves(QuotedOp, Ttls, ledgerSeq), SizesIn(store))
    BY <1>1, <1>3, <1>4, ExtendsWhatIsQuoted
  <2> QED BY <1>1, <1>2, <2>1, <2>2 DEF ApplyExtendFootprintTtl
<1>5. CASE RestorationQuoted
  <2>1. quote.keys \in Seq(Keys) /\ applied = ApplyRestoreFootprint(QuotedOp, Ttls, SizesIn(store), ledgerSeq, cap)
    BY <1>5 DEF RestorationQuoted, ApplyTtlOp
  <2>2. /\ RestoreMoves(QuotedOp, Ttls, ledgerSeq) = quote.keys
        /\ ~RestoreOverLimit(QuotedOp, quote.keys, SizesIn(store))
    BY <1>1, <1>5, RestoresWhatIsQuoted
  <2>3. ~AnyTooLarge(quote.keys, SizesIn(store))
    BY <1>3, <2>1
  <2> QED BY <1>1, <1>2, <2>1, <2>2, <2>3 DEF ApplyRestoreFootprint
<1> QED BY <1>1, <1>4, <1>5

\* In the ledger of the preflight the operation moves all it quoted, at the quoted
\* price.
LEMMA AsQuoted ==
  ASSUME RentNeverNegative, IInv, QuoteCurrent, NEW cap \in Caps, SubmitQuote(cap),
         ~QuotesTooLarge, quote.at = ledgerSeq,
         ledgerSeq + quote.extendTo <= U32Max
  PROVE  \E new \in 1 .. U32Max :
           /\ outcome'.ok /\ outcome'.rent = quote.rent
           /\ \A k \in ToSet(quote.keys) : k \in Keys /\ Ttls[k] # NoEntry /\ Ttls[k] < new
           /\ store' = MovedStore([k \in Keys |-> IF k \in ToSet(quote.keys) THEN new ELSE Ttls[k]])
<1> DEFINE applied == ApplyTtlOp(QuotedOp, cap)
           moved(new) == [k \in Keys |-> IF k \in ToSet(quote.keys) THEN new ELSE Ttls[k]]
           sizes == SizesIn(store)
<1>1. /\ quote # None /\ (ExtensionQuoted \/ RestorationQuoted) /\ quote.extendTo \in Nat
      /\ TypeOK /\ Ttls \in TtlMaps
  BY TtlsTyped DEF SubmitQuote, QuoteCurrent, IInv, QuoteTyped
<1>2. /\ outcome'.ok = (applied.result = "success") /\ outcome'.rent = applied.rent
      /\ store' = MovedStore(applied.entries)
  BY DEF SubmitQuote
<1>3. cap = None \/ cap = quote.rent
  BY <1>1 DEF Caps
<1>4. ledgerSeq \in 1 .. U32Max /\ U32Max \in Nat /\ MinPersistentTtl \in Nat \ {0}
  BY <1>1, Numbers DEF TypeOK
<1>5. quote.keys \in Seq(Keys) /\ ToSet(quote.keys) \subseteq Keys
  BY <1>1 DEF ExtensionQuoted, RestorationQuoted, ToSet
<1>6. ~AnyTooLarge(quote.keys, sizes) /\ sizes \in [Keys -> Nat]
  BY <1>1, SizesTyped DEF QuotesTooLarge
<1>7. CASE ExtensionQuoted
  <2> DEFINE new == ledgerSeq + quote.extendTo
  <2>1. new \in 1 .. U32Max /\ ledgerSeq <= new /\ SatAdd(quote.at, quote.extendTo) = new
    BY <1>1, <1>4 DEF SatAdd, MinOf
  <2>2. /\ \A k \in ToSet(quote.keys) : Ttls[k] # NoEntry /\ Ttls[k] < new
        /\ quote.rent = RentFee(TtlMoves(quote.keys, sizes, Ttls, new), ledgerSeq)
    BY <1>7, <2>1 DEF ExtensionQuoted, Live
  <2>3. ExtendMoves(QuotedOp, Ttls, ledgerSeq) = quote.keys
    BY <1>1, <1>7, ExtendsWhatIsQuoted
  <2>4. applied = MoveTtls(Ttls, sizes, ledgerSeq, quote.keys, Ttls, new, cap)
    <3>1. quote.op = "extend" /\ QuotedOp.extendTo = quote.extendTo
      BY <1>7 DEF ExtensionQuoted, QuotedOp
    <3> QED BY <1>6, <2>3, <3>1 DEF ApplyTtlOp, ApplyExtendFootprintTtl
  <2> HIDE DEF new, applied, sizes
  <2>5. ledgerSeq \in Nat /\ new \in Nat /\ \A k \in ToSet(quote.keys) : Ttls[k] < new
    BY <1>4, <2>1, <2>2
  <2>6. quote.rent \in Nat
    BY <1>1, <1>5, <1>6, <2>1, <2>2, <2>5, LongerLivesCost
  <2>7. applied = [result |-> "success", rent |-> quote.rent, entries |-> moved(new)]
    BY <1>3, <2>2, <2>4, <2>6, PaidInFull
  <2> QED BY <1>2, <1>5, <2>1, <2>2, <2>7
<1>8. CASE RestorationQuoted
  <2> DEFINE new == RestoredLiveUntil(ledgerSeq)
  <2>1. new \in 1 .. U32Max /\ ledgerSeq <= new
    BY <1>4, <1>8 DEF RestorationQuoted, RestoredLiveUntil
  <2>2. /\ \A k \in ToSet(quote.keys) : Ttls[k] # NoEntry /\ Ttls[k] < new
        /\ quote.rent = RentFee(TtlMoves(quote.keys, sizes, NoOldTtl, new), ledgerSeq)
    <3>1. \A k \in ToSet(quote.keys) : Ttls[k] # NoEntry /\ Ttls[k] < ledgerSeq /\ Ttls[k] \in Nat
      BY <1>1, <1>5, <1>8 DEF RestorationQuoted, Archived, TtlMaps
    <3>2. quote.rent = RentFee(TtlMoves(quote.keys, sizes, NoOldTtl, new), ledgerSeq)
      BY <1>8 DEF RestorationQuoted
    <3> HIDE DEF new
    <3> QED BY <1>4, <2>1, <3>1, <3>2
  <2>3. /\ RestoreMoves(QuotedOp, Ttls, ledgerSeq) = quote.keys
        /\ ~RestoreOverLimit(QuotedOp, quote.keys, sizes)
    BY <1>1, <1>8, RestoresWhatIsQuoted
  <2>4. applied = MoveTtls(Ttls, sizes, ledgerSeq, quote.keys, NoOldTtl, new, cap)
    <3>1. quote.op = "restore"
      BY <1>8 DEF RestorationQuoted
    <3> QED BY <1>6, <2>3, <3>1 DEF ApplyTtlOp, ApplyRestoreFootprint
  <2>5. NoOldTtl \in TtlMaps /\ \A k \in ToSet(quote.keys) : NoOldTtl[k] < new
    BY <1>5, <2>1 DEF NoOldTtl, TtlMaps, NoEntry
  <2> HIDE DEF new, applied, sizes
  <2>6. ledgerSeq \in Nat /\ new \in Nat
    BY <1>4, <2>1
  <2>7. quote.rent \in Nat
    BY <1>1, <1>5, <1>6, <2>1, <2>2, <2>5, <2>6, LongerLivesCost
  <2>8. applied = [result |-> "success", rent |-> quote.rent, entries |-> moved(new)]
    BY <1>3, <2>2, <2>4, <2>7, PaidInFull
  <2> QED BY <1>2, <1>5, <2>1, <2>2, <2>8
<1> QED BY <1>1, <1>7, <1>8

(***************************************************************************)
(* What a preflight quotes is what the operation needs: in the ledger it   *)
(* was asked in, and for the quoted bytes also in a later one, as long as  *)
(* no entry changed since; and then every quoted entry lives longer.       *)
(***************************************************************************)
THEOREM QuotesSuffice ==
  ASSUME RentNeverNegative
  PROVE  Spec => QuoteSuffices
<1> DEFINE Suffices ==
             Moved' =>
               /\ ~QuotesTooLarge => outcome'.code # "resourceLimitExceeded"
               /\ (/\ ~QuotesTooLarge
                   /\ quote.at = ledgerSeq
                   /\ ledgerSeq + quote.extendTo <= U32Max) =>
                    /\ outcome'.ok
                    /\ outcome'.rent = quote.rent
                    /\ \A k \in ToSet(quote.keys) : store'[k].liveUntil > store[k].liveUntil
<1>1. (IInv /\ QuoteCurrent) /\ [Next]_vars => [Suffices]_vars
  <2> SUFFICES ASSUME IInv, QuoteCurrent, Next, Moved', ~QuotesTooLarge
               PROVE  /\ outcome'.code # "resourceLimitExceeded"
                      /\ (quote.at = ledgerSeq /\ ledgerSeq + quote.extendTo <= U32Max) =>
                            /\ outcome'.ok
                            /\ outcome'.rent = quote.rent
                            /\ \A k \in ToSet(quote.keys) : store'[k].liveUntil > store[k].liveUntil
    OBVIOUS
  <2>1. PICK cap \in Caps : SubmitQuote(cap)
    BY MovedSteps
  <2>2. outcome'.code # "resourceLimitExceeded"
    BY <2>1, WithinResources
  <2>3. ASSUME quote.at = ledgerSeq, ledgerSeq + quote.extendTo <= U32Max
        PROVE  /\ outcome'.ok /\ outcome'.rent = quote.rent
               /\ \A k \in ToSet(quote.keys) : store'[k].liveUntil > store[k].liveUntil
    <3>1. PICK new \in 1 .. U32Max :
            /\ outcome'.ok /\ outcome'.rent = quote.rent
            /\ \A k \in ToSet(quote.keys) : k \in Keys /\ Ttls[k] # NoEntry /\ Ttls[k] < new
            /\ store' = MovedStore([k \in Keys |-> IF k \in ToSet(quote.keys) THEN new ELSE Ttls[k]])
      BY <2>1, <2>3, AsQuoted
    <3>2. ASSUME NEW k \in ToSet(quote.keys)
          PROVE  store'[k].liveUntil > store[k].liveUntil
      <4>1. k \in Keys /\ Ttls[k] # NoEntry /\ Ttls[k] < new
        BY <3>1, <3>2
      <4>2. store[k] # None /\ Ttls[k] = store[k].liveUntil
        BY <4>1 DEF Ttls
      <4>3. store[k] \in StoredEntries
        BY <4>1, <4>2, StoredTyped DEF IInv
      <4>4. store'[k] = [store[k] EXCEPT !.liveUntil = new % (U32Max + 1)]
        BY <3>1, <3>2, <4>1, <4>2, Numbers DEF MovedStore, IInv
      <4>5. new % (U32Max + 1) = new
        BY Numbers
      <4>6. store'[k].liveUntil = new
        BY <4>3, <4>4, <4>5 DEF StoredEntries
      <4> QED BY <4>1, <4>2, <4>6
    <3> QED BY <3>1, <3>2
  <2> QED BY <2>2, <2>3
<1> QED BY <1>1, AlwaysQuoteCurrent, PTL DEF Spec, QuoteSuffices
-----------------------------------------------------------------------------
(***************************************************************************)
(* What the classic layer assumes of a call is what an invocation without  *)
(* marks does: HostCalls, step by step.                                    *)
(***************************************************************************)
\* The live entries of a footprint are the ones the host is handed, with the
\* TTLs they have.
LEMMA HandedOverAsHeld ==
  ASSUME TypeOK, TtlsComplete, NEW k \in Keys, IsTtlKey(k)
  PROVE  /\ Ttls[k] \in Nat
         /\ store[k] # None => Ttls[k] = store[k].liveUntil /\ GivenTtl(k, {}) = Ttls[k]
         /\ Live(Ttls, ledgerSeq, k) => ~Absent(k)
<1>1. Ttls[k] \in Nat
  BY TtlsTyped DEF TtlMaps
<1>2. CASE store[k] = None
  BY <1>1, <1>2 DEF Ttls, Live
<1>3. CASE store[k] # None
  <2>1. store[k].liveUntil # None /\ store[k].liveUntil \in LiveUntils
    BY <1>3, StoredTyped DEF TtlsComplete, HasNoTtl
  <2>2. Ttls[k] = store[k].liveUntil /\ GivenTtl(k, {}) = Ttls[k]
    BY <1>3, <2>1 DEF Ttls, GivenTtl
  <2>3. Live(Ttls, ledgerSeq, k) => ~Expired(k)
    BY <1>1, <2>2 DEF Live, Expired, TypeOK
  <2> QED BY <1>1, <1>3, <2>2, <2>3 DEF Absent
<1> QED BY <1>2, <1>3

LEMMA AcceptedIsLive ==
  ASSUME TypeOK, TtlsComplete, NEW call \in Calls, ~HostRefuses(call, {}),
         NEW k \in ToSet(Footprint(call)), IsTtlKey(k), ~Absent(k)
  PROVE  Live(Ttls, ledgerSeq, k)
<1>1. k \in Keys /\ k \in Present(call) /\ store[k] # None
  BY FootprintKeys DEF Present, Absent
<1>2. ~(GivenTtl(k, {}) < ledgerSeq)
  BY <1>1 DEF HostRefuses
<1>3. GivenTtl(k, {}) = Ttls[k] /\ Ttls[k] \in Nat
  BY <1>1, HandedOverAsHeld
<1> QED BY <1>2, <1>3, Numbers DEF Live, NoEntry, TypeOK

\* A run the host accepts names nothing archived.
LEMMA AcceptedNamesNoArchived ==
  ASSUME TypeOK, TtlsComplete, NEW call \in Calls, ~HostRefuses(call, {})
  PROVE  ~NamesArchivedEntry(call, Ttls, ledgerSeq)
<1> SUFFICES ASSUME NEW k \in Keys, InFootprint(call, k), IsPersistentKey(k),
                    Archived(Ttls, ledgerSeq, k)
             PROVE  FALSE
  BY DEF NamesArchivedEntry
<1>1. k \in ToSet(Footprint(call)) /\ IsTtlKey(k)
  BY DEF InFootprint, ToSet, IsPersistentKey, IsTtlKey
<1>2. ~Absent(k)
  BY DEF Absent, Archived, Ttls, IsPersistentKey
<1>3. Live(Ttls, ledgerSeq, k)
  BY <1>1, <1>2, AcceptedIsLive
<1>4. Ttls[k] \in Nat /\ ledgerSeq \in Nat
  BY <1>1, HandedOverAsHeld, Numbers DEF TypeOK
<1> QED BY <1>3, <1>4 DEF Live, Archived

\* The life an entry has, as the classic layer sees it.
LifeOf(entry) == IF entry = None \/ entry.liveUntil = None THEN NoEntry ELSE entry.liveUntil

\* A kept entry is one of those the host was handed, with its TTL or a later one.
LEMMA KeptLife ==
  ASSUME TypeOK, TtlsComplete, NEW k \in Keys, IsTtlKey(k), ~Absent(k),
         NEW entry \in [value : Values, liveUntil : KeptTtls(k, {})]
  PROVE  /\ entry # None /\ entry.liveUntil = LifeOf(entry)
         /\ LifeOf(entry) \in {Ttls[k]} \cup Ttls[k] .. MaxLiveUntil(ledgerSeq)
<1>1. store[k] # None
  BY DEF Absent
<1>2. GivenTtl(k, {}) = Ttls[k] /\ Ttls[k] \in Nat
  BY <1>1, HandedOverAsHeld
<1>3. LastLiveUntil \in Nat /\ LastLiveUntil <= MaxLiveUntil(ledgerSeq)
      /\ MaxLiveUntil(ledgerSeq) \in Int
  BY LastLiveUntilInRange, Numbers DEF MaxLiveUntil, TypeOK
<1>4. /\ entry.liveUntil \in {Ttls[k]} \cup Ttls[k] .. MaxLiveUntil(ledgerSeq)
      /\ entry.liveUntil \in Nat
  <2>1. entry.liveUntil \in {Ttls[k]} \cup Ttls[k] .. LastLiveUntil
    BY <1>2 DEF KeptTtls
  <2> QED BY <1>2, <1>3, <2>1
<1>5. entry \in Entries
  BY <1>2, <1>3, <1>4 DEF Entries
<1> QED BY <1>2, <1>3, <1>4, <1>5, KeysAssumption DEF LifeOf

LEMMA CreatedLife ==
  ASSUME TypeOK, NEW k \in Keys, IsTtlKey(k), NEW entry \in Created(k)
  PROVE  /\ entry # None /\ entry.liveUntil \in Nat
         /\ LifeOf(entry) \in MinLiveUntil(k, ledgerSeq) .. MaxLiveUntil(ledgerSeq)
<1>1. /\ MinLiveUntil(k, ledgerSeq) \in Nat /\ LastLiveUntil \in Nat
      /\ LastLiveUntil <= MaxLiveUntil(ledgerSeq) /\ MaxLiveUntil(ledgerSeq) \in Int
  BY MinLiveUntilNat, LastLiveUntilInRange, Numbers DEF MaxLiveUntil, TypeOK
<1>2. entry.liveUntil \in MinLiveUntil(k, ledgerSeq) .. LastLiveUntil /\ entry.value \in Values
  BY DEF Created, CreatedTtls
<1>3. /\ entry.liveUntil \in Nat
      /\ entry.liveUntil \in MinLiveUntil(k, ledgerSeq) .. MaxLiveUntil(ledgerSeq)
  BY <1>1, <1>2
<1>4. entry \in Entries
  BY <1>3 DEF Created, Entries
<1> QED BY <1>3, <1>4, KeysAssumption DEF LifeOf

\* Every key of the footprint is left with a life a call may give it.
LEMMA RunLife ==
  ASSUME TypeOK, TtlsComplete, NEW call \in Calls, ~HostRefuses(call, {}),
         NEW after \in HostRuns(Changes(call, {})), NEW k \in DOMAIN after
  PROVE  LifeOf(after[k]) \in CallTtls(call, k, Ttls, ledgerSeq)
<1>1. /\ k \in ToSet(Footprint(call)) /\ k \in Keys
      /\ after[k] \in IF k \in ToSet(call.readWrite) THEN Written(k, {}) ELSE Bumped(k, {})
  BY FootprintKeys DEF HostRuns, Changes
<1>2. InFootprint(call, k) /\ (InReadWrite(call, k) <=> k \in ToSet(call.readWrite))
  BY <1>1 DEF InFootprint, InReadWrite, ToSet
<1>3. CASE ~IsTtlKey(k)
  <2>1. after[k] = None \/ after[k].liveUntil = None
    <3>1. KeptTtls(k, {}) = {None} /\ (Absent(k) => store[k] = None)
      BY <1>3 DEF KeptTtls, Absent, IsTtlKey
    <3>2. \A entry \in Created(k) : entry.liveUntil = None
      BY <1>3 DEF Created, CreatedTtls
    <3> QED BY <1>1, <3>1, <3>2 DEF Written, Bumped
  <2>2. Ttls[k] = NoEntry
    BY <1>1, <1>3 DEF TtlsComplete, HasNoTtl, Ttls
  <2> QED BY <1>3, <2>1, <2>2 DEF LifeOf, CallTtls
<1>4. CASE IsTtlKey(k) /\ Absent(k)
  <2>1. ~Live(Ttls, ledgerSeq, k)
    BY <1>1, <1>4, HandedOverAsHeld
  <2>2. CASE k \in ToSet(call.readWrite)
    <3>1. LifeOf(after[k]) \in {NoEntry} \cup MinLiveUntil(k, ledgerSeq) .. MaxLiveUntil(ledgerSeq)
      BY <1>1, <1>4, <2>2, CreatedLife DEF Written, LifeOf
    <3> QED BY <1>2, <1>4, <2>1, <2>2, <3>1 DEF CallTtls
  <2>3. CASE k \notin ToSet(call.readWrite)
    <3>1. after[k] = None \/ after[k].liveUntil = 0
      BY <1>1, <1>4, <2>3 DEF Bumped
    <3>2. LifeOf(after[k]) = NoEntry
      BY <3>1 DEF LifeOf, NoEntry
    <3> QED BY <1>2, <1>4, <2>1, <2>3, <3>2 DEF CallTtls
  <2> QED BY <2>2, <2>3
<1>5. CASE IsTtlKey(k) /\ ~Absent(k)
  <2>1. Live(Ttls, ledgerSeq, k)
    BY <1>1, <1>5, AcceptedIsLive
  <2>2. /\ store[k] # None /\ store[k].value \in Values
    BY <1>1, <1>5, StoredTyped DEF Absent
  <2>3. \/ after[k] = None /\ k \in ToSet(call.readWrite)
        \/ after[k] \in [value : Values, liveUntil : KeptTtls(k, {})]
    BY <1>1, <1>5, <2>2 DEF Written, Bumped
  <2>4. CASE after[k] = None /\ k \in ToSet(call.readWrite)
    BY <1>2, <1>5, <2>1, <2>4 DEF CallTtls, LifeOf
  <2>5. CASE after[k] \in [value : Values, liveUntil : KeptTtls(k, {})]
    <3>1. LifeOf(after[k]) \in {Ttls[k]} \cup Ttls[k] .. MaxLiveUntil(ledgerSeq)
      BY <1>1, <1>5, <2>5, KeptLife
    <3> QED BY <1>2, <1>5, <2>1, <3>1 DEF CallTtls
  <2> QED BY <2>3, <2>4, <2>5
<1> QED BY <1>3, <1>4, <1>5

\* What is left of a Soroban key with an entry has a TTL.
LEMMA RunHasLife ==
  ASSUME TypeOK, TtlsComplete, NEW call \in Calls,
         NEW after \in HostRuns(Changes(call, {})), NEW k \in DOMAIN after,
         IsTtlKey(k), after[k] # None
  PROVE  after[k].liveUntil = LifeOf(after[k])
<1>1. /\ k \in Keys
      /\ after[k] \in IF k \in ToSet(call.readWrite) THEN Written(k, {}) ELSE Bumped(k, {})
  BY FootprintKeys DEF HostRuns, Changes
<1>2. ASSUME after[k] \in Created(k)
      PROVE  after[k].liveUntil \in Nat
  BY <1>1, <1>2, CreatedLife
<1>3. CASE Absent(k)
  <2>1. after[k].liveUntil \in Nat
    BY <1>1, <1>2, <1>3 DEF Written, Bumped
  <2> QED BY <2>1, KeysAssumption DEF LifeOf
<1>4. CASE ~Absent(k)
  <2>1. store[k] # None /\ store[k].value \in Values
    BY <1>1, <1>4, StoredTyped DEF Absent
  <2>2. after[k] \in [value : Values, liveUntil : KeptTtls(k, {})]
    BY <1>1, <1>4, <2>1 DEF Written, Bumped
  <2> QED BY <1>1, <1>4, <2>2, KeptLife
<1> QED BY <1>3, <1>4

LEMMA LandedLife ==
  ASSUME TypeOK, NEW call \in Calls, NEW after \in HostRuns(Changes(call, {})),
         store' = Landed(after, TRUE), NEW k \in Keys
  PROVE  Ttls'[k] = IF k \in ToSet(Footprint(call)) THEN LifeOf(after[k]) ELSE Ttls[k]
<1>1. DOMAIN after = ToSet(Footprint(call))
  BY RunFacts
<1>2. store'[k] = IF k \in DOMAIN after THEN after[k] ELSE store[k]
  BY DEF Landed
<1>3. Ttls'[k] = LifeOf(store'[k]) /\ Ttls[k] = LifeOf(store[k])
  BY DEF Ttls, LifeOf
<1> QED BY <1>1, <1>2, <1>3

LEMMA LandedInCallEntries ==
  ASSUME TypeOK, TtlsComplete, NEW call \in Calls, ~HostRefuses(call, {}),
         NEW after \in HostRuns(Changes(call, {})), store' = Landed(after, TRUE)
  PROVE  Ttls' \in CallEntries(call, Ttls, ledgerSeq)
<1>1. DOMAIN after = ToSet(Footprint(call))
  BY RunFacts
<1>2. ASSUME NEW k \in Keys
      PROVE  Ttls'[k] \in CallTtls(call, k, Ttls, ledgerSeq)
  <2>1. CASE k \in ToSet(Footprint(call))
    <3>1. Ttls'[k] = LifeOf(after[k])
      BY <2>1, LandedLife
    <3> QED BY <1>1, <2>1, <3>1, RunLife
  <2>2. CASE k \notin ToSet(Footprint(call))
    <3>1. Ttls'[k] = Ttls[k]
      BY <2>2, LandedLife
    <3>2. ~InFootprint(call, k)
      BY <2>2 DEF InFootprint, ToSet
    <3> QED BY <3>1, <3>2 DEF CallTtls
  <2> QED BY <2>1, <2>2
<1>3. Ttls' = [k \in Keys |-> Ttls'[k]]
  BY DEF Ttls
<1> QED BY <1>2, <1>3 DEF CallEntries

\* A key of the footprint is handed over just if it lives; and one that is left
\* with a life holds one of the values, its own if it was only read.
LEMMA HandedOverLives ==
  ASSUME TypeOK, TtlsComplete, NEW call \in Calls, ~HostRefuses(call, {}),
         NEW k \in ToSet(Footprint(call)), IsTtlKey(k)
  PROVE  /\ k \in Present(call) <=> Live(Ttls, ledgerSeq, k)
         /\ k \in Present(call) => GivenTtl(k, {}) = Ttls[k] /\ SizesIn(store)[k] \in Sizes
<1>1. k \in Keys
  BY FootprintKeys
<1>2. CASE Absent(k)
  <2>1. ~Live(Ttls, ledgerSeq, k)
    BY <1>1, <1>2, HandedOverAsHeld
  <2> QED BY <1>2, <2>1 DEF Present
<1>3. CASE ~Absent(k)
  <2>1. k \in Present(call) /\ Live(Ttls, ledgerSeq, k)
    BY <1>3, AcceptedIsLive DEF Present
  <2>2. store[k] # None /\ store[k].value \in Values /\ k \in DOMAIN store
    BY <1>1, <1>3, StoredTyped DEF Absent, TypeOK, Stores
  <2>3. SizesIn(store)[k] \in Sizes
    BY <2>2, KeysAssumption DEF SizesIn
  <2>4. GivenTtl(k, {}) = Ttls[k]
    BY <1>1, <2>2, HandedOverAsHeld
  <2> QED BY <2>1, <2>3, <2>4
<1> QED BY <1>2, <1>3

LEMMA RunSizes ==
  ASSUME TypeOK, TtlsComplete, NEW call \in Calls, ~HostRefuses(call, {}),
         NEW after \in HostRuns(Changes(call, {})), NEW k \in DOMAIN after, IsTtlKey(k),
         LifeOf(after[k]) # NoEntry
  PROVE  /\ SizesIn(after)[k] \in Sizes
         /\ ~InReadWrite(call, k) =>
              Live(Ttls, ledgerSeq, k) /\ SizesIn(after)[k] = SizesIn(store)[k]
<1>1. k \in ToSet(Footprint(call)) /\ k \in Keys
  BY RunFacts, FootprintKeys
<1>2. after[k] # None
  BY DEF LifeOf
<1>3. after[k].value \in Values
  BY <1>2, RunFacts DEF StoredEntries
<1>4. SizesIn(after)[k] \in Sizes
  BY <1>2, <1>3, KeysAssumption DEF SizesIn
<1>5. ASSUME ~InReadWrite(call, k)
      PROVE  Live(Ttls, ledgerSeq, k) /\ SizesIn(after)[k] = SizesIn(store)[k]
  <2>1. after[k] \in Bumped(k, {})
    BY <1>5 DEF HostRuns, Changes, InReadWrite, ToSet
  <2>2. ~Absent(k)
    BY <1>2, <2>1 DEF Bumped, LifeOf, NoEntry
  <2>3. store[k] # None /\ after[k].value = store[k].value
    BY <2>1, <2>2 DEF Bumped, Absent
  <2>4. Live(Ttls, ledgerSeq, k)
    BY <1>1, <2>2, AcceptedIsLive
  <2>5. k \in DOMAIN store
    BY <1>1 DEF TypeOK, Stores
  <2> QED BY <1>2, <2>3, <2>4, <2>5 DEF SizesIn
<1> QED BY <1>4, <1>5

\* What the run pays for is what the classic layer reckons with, over the sizes of
\* the entries it found and left.
LEMMA RentOfTheRun ==
  ASSUME TypeOK, TtlsComplete, NEW call \in Calls, ~HostRefuses(call, {}),
         NEW after \in HostRuns(Changes(call, {})), store' = Landed(after, TRUE)
  PROVE  HostRent(call, {}, after) \in CallRents(call, Ttls', Ttls, ledgerSeq)
<1> DEFINE run == {k \in DOMAIN after :
                     IsTtlKey(k) /\ after[k] # None /\ after[k].liveUntil # NoEntry}
           left == {k \in Keys : InFootprint(call, k) /\ IsTtlKey(k) /\ Ttls'[k] # NoEntry}
           held == [k \in left |-> IF Live(Ttls, ledgerSeq, k) THEN SizesIn(store)[k]
                                   ELSE SizesIn(after)[k]]
           written == [k \in left |-> SizesIn(after)[k]]
           ofRun(k) ==
             [key |-> k, oldSize |-> IF k \in Present(call) \ {} THEN SizesIn(store)[k] ELSE 0,
              newSize |-> SizesIn(after)[k],
              oldLiveUntil |-> IF k \in Present(call) \ {} THEN GivenTtl(k, {}) ELSE NoEntry,
              newLiveUntil |-> after[k].liveUntil]
           ofCall(k, h, w) ==
             [key |-> k, oldSize |-> IF Live(Ttls, ledgerSeq, k) THEN h[k] ELSE 0,
              newSize |-> IF InReadWrite(call, k) THEN w[k] ELSE h[k],
              oldLiveUntil |-> IF Live(Ttls, ledgerSeq, k) THEN Ttls[k] ELSE NoEntry,
              newLiveUntil |-> Ttls'[k]]
           rent(h, w) == RentOfChanges({ofCall(k, h, w) : k \in left}, ledgerSeq)
<1>1. DOMAIN after = ToSet(Footprint(call)) /\ DOMAIN after \subseteq Keys
  BY RunFacts, FootprintKeys
<1>2. ASSUME NEW k \in DOMAIN after, IsTtlKey(k)
      PROVE  Ttls'[k] = LifeOf(after[k]) /\ (after[k] # None => after[k].liveUntil = Ttls'[k])
  BY <1>1, <1>2, LandedLife, RunHasLife
<1>3. run = left
  <2>1. \A k \in Keys : k \in DOMAIN after <=> InFootprint(call, k)
    BY <1>1 DEF InFootprint, ToSet
  <2>2. \A k \in DOMAIN after : LifeOf(after[k]) # NoEntry => after[k] # None
    BY DEF LifeOf
  <2> QED BY <1>1, <1>2, <2>1, <2>2
<1>4. ASSUME NEW k \in left
      PROVE  /\ held[k] \in Sizes /\ written[k] \in Sizes
             /\ ofRun(k) = ofCall(k, held, written)
  <2>1. /\ k \in DOMAIN after /\ IsTtlKey(k) /\ k \in ToSet(Footprint(call))
        /\ after[k].liveUntil = Ttls'[k] /\ LifeOf(after[k]) # NoEntry
    BY <1>1, <1>2, <1>3, <1>4
  <2>2. /\ k \in Present(call) <=> Live(Ttls, ledgerSeq, k)
        /\ k \in Present(call) => GivenTtl(k, {}) = Ttls[k] /\ SizesIn(store)[k] \in Sizes
    BY <2>1, HandedOverLives
  <2>3. /\ SizesIn(after)[k] \in Sizes
        /\ ~InReadWrite(call, k) =>
             Live(Ttls, ledgerSeq, k) /\ SizesIn(after)[k] = SizesIn(store)[k]
    BY <2>1, RunSizes
  <2>4. /\ held[k] = IF Live(Ttls, ledgerSeq, k) THEN SizesIn(store)[k] ELSE SizesIn(after)[k]
        /\ written[k] = SizesIn(after)[k]
    BY <1>4
  <2> HIDE DEF left, held, written
  <2> QED BY <2>1, <2>2, <2>3, <2>4
<1>5. held \in [left -> Sizes] /\ written \in [left -> Sizes]
  BY <1>4
<1>6. {ofRun(k) : k \in run} = {ofCall(k, held, written) : k \in left}
  <2> HIDE DEF run, left, held, written, ofRun, ofCall
  <2> QED BY <1>3, <1>4
<1>7. HostRent(call, {}, after) = RentOfChanges({ofRun(k) : k \in run}, ledgerSeq)
  BY DEF HostRent, RunChanges
<1>8. CallRents(call, Ttls', Ttls, ledgerSeq) =
        {rent(h, w) : h \in [left -> Sizes], w \in [left -> Sizes]}
  BY DEF CallRents
<1>9. HostRent(call, {}, after) = rent(held, written)
  <2> HIDE DEF run, left, held, written, ofRun, ofCall
  <2> QED BY <1>6, <1>7
<1> HIDE DEF left, held, written, rent
<1> QED BY <1>5, <1>8, <1>9

(***************************************************************************)
(* The classic layer's account of a call is sound: an invocation without   *)
(* marks completes only over a footprint with nothing archived, leaves     *)
(* each key with a life ClassicTx may give it, costs a rent ClassicTx      *)
(* reckons with for just that, and never more than the refundable fee the  *)
(* envelope bought.                                                        *)
(***************************************************************************)
THEOREM EnvelopesKeep == Spec => EnvelopesKeepPromise
<1> DEFINE Promised(call) ==
             /\ ~NamesArchivedEntry(call, Ttls, ledgerSeq)
             /\ Ttls' \in CallEntries(call, Ttls, ledgerSeq)
             /\ outcome'.rent \in CallRents(call, Ttls', Ttls, ledgerSeq)
             /\ call.maxRefundable # None =>
                  \E events \in EventFees : ~(outcome'.rent + events > call.maxRefundable)
           Promise == (Called' /\ outcome'.ok /\ TtlsComplete /\ SendEnvelope(outcome'.call))
                        => Promised(outcome'.call)
<1>1. IInv /\ [Next]_vars => [Promise]_vars
  <2> SUFFICES ASSUME IInv, Next, Called', outcome'.ok, TtlsComplete, SendEnvelope(outcome'.call)
               PROVE  Promised(outcome'.call)
    OBVIOUS
  <2> DEFINE call == outcome'.call
  <2>1. call \in Calls
    <3>1. ASSUME NEW cap, SubmitQuote(cap)
          PROVE  outcome'.call = None
      BY <3>1 DEF SubmitQuote
    <3>2. ASSUME NEW c \in Calls, Send(c) \/ SendEnvelope(c)
          PROVE  outcome'.call = c
      BY <3>2, InvokeOutcome DEF Send, SendEnvelope
    <3> QED BY <3>1, <3>2, CalledSteps DEF Called
  <2>2. CompleteInHost(call, {})
    BY InvokeOutcome DEF SendEnvelope, EnvelopeMarks
  <2>3. ~HostRefuses(call, {})
    BY <2>2 DEF CompleteInHost
  <2>4. PICK after \in HostRuns(Changes(call, {})), events \in EventFees :
          /\ outcome' = Verdict(call, after, HostRent(call, {}, after), events,
                               PreparedCache(call, {}))
          /\ store' = Landed(after, outcome'.ok)
    BY <2>2 DEF CompleteInHost
  <2>5. store' = Landed(after, TRUE)
    BY <2>4 DEF Landed
  <2>6. /\ outcome'.rent = HostRent(call, {}, after)
        /\ ~(call.maxRefundable # None /\ outcome'.rent + events > call.maxRefundable)
    BY <2>4 DEF Verdict, Failure
  <2>7. /\ ~NamesArchivedEntry(call, Ttls, ledgerSeq)
        /\ Ttls' \in CallEntries(call, Ttls, ledgerSeq)
        /\ HostRent(call, {}, after) \in CallRents(call, Ttls', Ttls, ledgerSeq)
    BY <2>1, <2>3, <2>5, AcceptedNamesNoArchived, LandedInCallEntries, RentOfTheRun DEF IInv
  <2>8. call.maxRefundable # None =>
          \E e \in EventFees : ~(outcome'.rent + e > call.maxRefundable)
    BY <2>6
  <2> QED BY <2>6, <2>7, <2>8
<1> QED BY <1>1, AlwaysIInv, PTL DEF Spec, EnvelopesKeepPromise
=============================================================================
