----------------------------- MODULE HostLedger -----------------------------
(***************************************************************************)
(* The in-process ledger itself (SorobanEnv, crates/host-wasm/src/lib.rs): *)
(* the store of entries with their TTLs, the calls that run the host over  *)
(* it, the preflights that only read it, snapshots and going back to one,  *)
(* and the cache of parsed contracts, which no snapshot covers.            *)
(*                                                                         *)
(* An entry is a value and the last ledger it is live in (None: it has no  *)
(* TTL).  A call is a record                                               *)
(*   readOnly, readWrite   its footprint                                   *)
(*   marked                indexes, from 0, of the read-write keys it      *)
(*                         restores (restored_rw_entry_indices)            *)
(*   diskReadBytes, writeBytes   as declared                               *)
(*   maxRefundable         the cap on rent and events, or None             *)
(* What the contract does within its footprint is any of HostRuns.  Archi- *)
(* val and fee settings are the constants of FootprintTtl.                 *)
(***************************************************************************)
EXTENDS HostCalls

CONSTANTS
  CodeKeys,         \* the persistent keys that are contract code
  Compilable,       \* the code the host can parse
  Values,           \* what an entry may hold
  SizeOf,           \* the size each gives it
  Calls,            \* the calls that may be made
  FootprintRequests,\* the key lists a TTL preflight may be asked for
  ExtendTos,        \* the extendTo it may be asked for
  EventFees,        \* what the events of a call may cost
  ChecksDeclaredBytes,  \* both enforceDeclared switches on
  CLOSE_TIME,       \* seconds per ledger: 5 in the code
  U32Max,           \* 2^32 - 1 in the code
  FirstLedger,
  PutTtls, Advances, Timestamps,            \* bounds: arguments of the calls
  MaxSnapshots, MaxSimulations, MaxTimestamp  \* bounds: how often, how far

Entries == [value : Values, liveUntil : Nat \cup {None}]

ASSUME SettingsAssumption ==
  /\ {MinPersistentTtl, MinTemporaryTtl, MaxEntryTtl} \subseteq Nat \ {0}
  /\ MinPersistentTtl <= MaxEntryTtl /\ MinTemporaryTtl <= MaxEntryTtl
  /\ {U32Max, CLOSE_TIME, MaxSnapshots, MaxSimulations, MaxTimestamp} \subseteq Nat
  /\ FirstLedger \in 1 .. U32Max
  /\ PutTtls \subseteq (1 .. U32Max) \cup {None} /\ Advances \subseteq 1 .. U32Max
  /\ EventFees \subseteq Nat /\ ExtendTos \subseteq Nat /\ Timestamps \subseteq Nat
  /\ ChecksDeclaredBytes \in BOOLEAN

ASSUME KeysAssumption ==
  /\ KindOf \in [Keys -> {"classic", "temporary", "persistent"}]
  /\ \A k \in CodeKeys : k \in Keys /\ KindOf[k] = "persistent"
  /\ Sizes \subseteq Nat /\ SizeOf \in [Values -> Sizes]
  /\ None \notin Entries /\ None \notin Nat
  /\ Values # {}

ASSUME CallsAssumption ==
  /\ \A c \in Calls :
       /\ c.readOnly \in Seq(Keys) /\ c.readWrite \in Seq(Keys)
       /\ c.marked \subseteq 0 .. Len(c.readWrite) - 1
       /\ c.maxRefundable \in Nat \cup {None}
  /\ FootprintRequests \subseteq Seq(Keys)
  /\ None \notin Calls

VARIABLES
  store,            \* the entry of each key, or None
  ledgerSeq, timestamp, prngCounter,
  snapshots,        \* what snapshot() kept, by id
  moduleCache,      \* the code parsed and kept, across snapshots
  outcome,          \* what the last call returned, if it ran an operation, or None;
                    \* outcome.call is the call, or None for a TTL operation
  quote,            \* history: the last TTL preflight, while nothing changed since
  taken             \* history: the ledger at each snapshot()

vars == <<store, ledgerSeq, timestamp, prngCounter, snapshots, moduleCache, outcome, quote, taken>>
clock == <<ledgerSeq, timestamp>>
ledger == <<store, ledgerSeq, timestamp, prngCounter>>
-----------------------------------------------------------------------------
\* u32::saturating_add.
SatAdd(m, n) == MinOf(m + n, U32Max)

Put(st, k, entry) == [st EXCEPT ![k] = entry]

SizesIn(held) == [k \in DOMAIN held |-> IF held[k] = None THEN 0 ELSE SizeOf[held[k].value]]

Expired(k) == store[k].liveUntil # None /\ store[k].liveUntil < ledgerSeq

\* What the host is handed as absent: a temporary entry past its TTL is gone.
Absent(k) == store[k] = None \/ (KindOf[k] = "temporary" /\ Expired(k))
Present(call) == {k \in ToSet(Footprint(call)) : ~Absent(k)}

\* The keys a call restores.
Marked(call) == {call.readWrite[i + 1] : i \in call.marked}

\* What a call's marks come to on each route: send hands them to the host, the
\* classic layer drops them.
SendMarks(call) == Marked(call)
EnvelopeMarks(call) == {}

\* Mutant of GivenTtl: a TTL in the past is lifted to the current ledger.
GivenTtl_Lifted(k, marks) ==
  IF k \in marks THEN SatAdd(ledgerSeq, MinPersistentTtl) - 1
  ELSE IF store[k].liveUntil = None THEN ledgerSeq ELSE MaxOf(ledgerSeq, store[k].liveUntil)

\* The TTL an entry is handed over with.  A restored one is given its new life
\* first.
GivenTtl(k, marks) ==
  IF k \in marks THEN SatAdd(ledgerSeq, MinPersistentTtl) - 1
  ELSE IF store[k].liveUntil = None THEN ledgerSeq ELSE store[k].liveUntil

\* Classic entries and restored ones are read from disk.
DiskBytes(call, marks) ==
  LET read == {k \in Present(call) : KindOf[k] = "classic" \/ k \in marks}
  IN  Bytes(Selected(Footprint(call), read), SizesIn(store))

\* failed_before_host: an entry above the network's size limit, archived and
\* unrestored ones not looked at, or more disk reads than declared.
FailsBeforeHost(call, marks) ==
  \/ \E k \in Present(call) : TooLarge(k, SizesIn(store)[k]) /\ (k \in marks \/ ~Expired(k))
  \/ ChecksDeclaredBytes /\ DiskBytes(call, marks) > call.diskReadBytes

\* The code a call names, and what of it is live.
FootprintCode(call) == Present(call) \cap CodeKeys
LiveCode(call, marks) == {k \in FootprintCode(call) \ marks : ~Expired(k)} \cap Compilable

\* Mutant of PreparedCache: restored code is left in.
PreparedCache_Kept(call, marks) == moduleCache \cup LiveCode(call, marks)

\* prepare_module_cache: live code is parsed and kept, restored code taken out,
\* whatever becomes of the call.
PreparedCache(call, marks) ==
  (moduleCache \cup LiveCode(call, marks)) \ (FootprintCode(call) \cap marks)
-----------------------------------------------------------------------------
(***************************************************************************)
(* The host: external.                                                     *)
(***************************************************************************)
\* It accepts no entry whose TTL is past.
HostRefuses(call, marks) ==
  \E k \in Present(call) : IsTtlKey(k) /\ GivenTtl(k, marks) < ledgerSeq

\* The last ledger it extends a life to.
LastLiveUntil == MinOf(MaxLiveUntil(ledgerSeq), U32Max)

\* The TTLs an entry it was handed may be left with: it never shortens one, and
\* extends one to any ledger up to the last.
KeptTtls(k, marks) ==
  IF ~IsTtlKey(k) THEN {None}
  ELSE {GivenTtl(k, marks)} \cup GivenTtl(k, marks) .. LastLiveUntil

\* What a run may leave a key with.  An entry it creates has the shortest life, or
\* a longer one it was extended to at once; none is created that a u32 cannot
\* hold.  Reading an absent entry reports a TTL of 0.
CreatedTtls(k) ==
  IF IsTtlKey(k) THEN MinLiveUntil(k, ledgerSeq) .. LastLiveUntil ELSE {None}
Created(k) == [value : Values, liveUntil : CreatedTtls(k)]
Written(k, marks) ==
  IF Absent(k) THEN {None} \cup Created(k)
  ELSE IF k \in CodeKeys THEN [value : {store[k].value}, liveUntil : KeptTtls(k, marks)]
  ELSE {None} \cup [value : Values, liveUntil : KeptTtls(k, marks)]
Bumped(k, marks) ==
  IF store[k] = None THEN {None}
  ELSE IF Absent(k) THEN [value : {store[k].value}, liveUntil : {0}]
  ELSE [value : {store[k].value}, liveUntil : KeptTtls(k, marks)]

Changes(call, marks) ==
  [k \in ToSet(Footprint(call)) |->
     IF k \in ToSet(call.readWrite) THEN Written(k, marks) ELSE Bumped(k, marks)]
HostRuns(changes) ==
  {after \in [DOMAIN changes -> UNION {changes[k] : k \in DOMAIN changes}] :
     \A k \in DOMAIN changes : after[k] \in changes[k]}

\* The code a run may instantiate: what it was handed and what it uploaded.  The
\* host looks in the store first and then in the cache.
Runnable(after) == {k \in DOMAIN after \cap CodeKeys : after[k] # None}

\* The changes of a run that may cost rent: a created or restored entry has
\* neither size nor TTL before.
RunChanges(call, marks, after) ==
  LET left == {k \in DOMAIN after :
                 IsTtlKey(k) /\ after[k] # None /\ after[k].liveUntil # NoEntry}
      change(k) ==
        LET handed == k \in Present(call) \ marks
        IN  [key |-> k, oldSize |-> IF handed THEN SizesIn(store)[k] ELSE 0,
             newSize |-> SizesIn(after)[k],
             oldLiveUntil |-> IF handed THEN GivenTtl(k, marks) ELSE NoEntry,
             newLiveUntil |-> after[k].liveUntil]
  IN  {change(k) : k \in left}

\* The rent of a run: what lives longer pays, and what has grown.
HostRent(call, marks, after) == RentOfChanges(RunChanges(call, marks, after), ledgerSeq)
-----------------------------------------------------------------------------
(***************************************************************************)
(* send.                                                                   *)
(***************************************************************************)
Failure(call, code) == [call |-> call, ok |-> FALSE, code |-> code, hits |-> {}, rent |-> 0]

\* check_written_entries.
WritesTooMuch(call, after) ==
  LET writes == Selected(call.readWrite, {k \in DOMAIN after : after[k] # None})
  IN  \/ AnyTooLarge(writes, SizesIn(after))
      \/ ChecksDeclaredBytes /\ Bytes(writes, SizesIn(after)) > call.writeBytes

\* What send makes of a run the host completed.
Verdict(call, after, rent, events, cache) ==
  IF WritesTooMuch(call, after) THEN Failure(call, "resourceLimitExceeded")
  ELSE IF call.maxRefundable # None /\ rent + events > call.maxRefundable
  THEN Failure(call, "insufficientRefundableFee")
  ELSE [call |-> call, ok |-> TRUE, code |-> "success", rent |-> rent,
        hits |-> Runnable(after) \cap cache]

\* Mutant of Landed: the changes are written before the checks on them.
Landed_First(after, ok) == [k \in Keys |-> IF k \in DOMAIN after THEN after[k] ELSE store[k]]

\* The write loop.
Landed(after, ok) ==
  IF ok THEN [k \in Keys |-> IF k \in DOMAIN after THEN after[k] ELSE store[k]] ELSE store

RefuseFootprint(call, marks) ==
  /\ FailsBeforeHost(call, marks)
  /\ outcome' = Failure(call, "resourceLimitExceeded")
  /\ UNCHANGED <<store, moduleCache>>

\* The host's own failures: a trap, or a budget spent.  The code reports a refused
\* entry as a trap too; it has a code of its own here.
FailInHost(call, marks) ==
  /\ ~FailsBeforeHost(call, marks)
  /\ moduleCache' = PreparedCache(call, marks)
  /\ \E code \in (IF HostRefuses(call, marks) THEN {"entryArchived"}
                  ELSE {"trapped", "resourceLimitExceeded"}) : outcome' = Failure(call, code)
  /\ UNCHANGED store

CompleteInHost(call, marks) ==
  /\ ~FailsBeforeHost(call, marks)
  /\ ~HostRefuses(call, marks)
  /\ moduleCache' = PreparedCache(call, marks)
  /\ \E after \in HostRuns(Changes(call, marks)), events \in EventFees :
       /\ outcome' = Verdict(call, after, HostRent(call, marks, after), events,
                           PreparedCache(call, marks))
       /\ store' = Landed(after, outcome'.ok)

Invoke(call, marks) ==
  /\ \/ RefuseFootprint(call, marks)
     \/ FailInHost(call, marks)
     \/ CompleteInHost(call, marks)
  /\ quote' = None
  /\ UNCHANGED <<clock, prngCounter, snapshots, taken>>

\* Ledger.send, and applyTransaction's call of it for an invocation.
Send(call) == Invoke(call, SendMarks(call))
SendEnvelope(call) == Invoke(call, EnvelopeMarks(call))
-----------------------------------------------------------------------------
(***************************************************************************)
(* Direct writes, the clock, and going back in time.                       *)
(***************************************************************************)
PutEntry(k, entry) ==
  /\ store' = Put(store, k, entry)
  /\ outcome' = None /\ quote' = None
  /\ UNCHANGED <<clock, prngCounter, snapshots, moduleCache, taken>>

RemoveEntry(k) ==
  /\ store' = Put(store, k, None)
  /\ outcome' = None /\ quote' = None
  /\ UNCHANGED <<clock, prngCounter, snapshots, moduleCache, taken>>

\* seed_wasm throws where its TTL would overflow.
SeedWasm(k) ==
  /\ MinLiveUntil(k, ledgerSeq) <= U32Max
  /\ \E v \in Values : PutEntry(k, [value |-> v, liveUntil |-> MinLiveUntil(k, ledgerSeq)])

\* Mutant of NextLedger: the sequence number wraps around.
NextLedger_Wrapping(n) == (ledgerSeq + n) % (U32Max + 1)

NextLedger(n) == SatAdd(ledgerSeq, n)

AdvanceLedgers(n) ==
  /\ timestamp + n * CLOSE_TIME <= MaxTimestamp
  /\ ledgerSeq' = NextLedger(n)
  /\ timestamp' = timestamp + n * CLOSE_TIME
  /\ outcome' = None
  /\ UNCHANGED <<store, prngCounter, snapshots, moduleCache, quote, taken>>

SetTimestamp(t) ==
  /\ timestamp' = t
  /\ outcome' = None
  /\ UNCHANGED <<store, ledgerSeq, prngCounter, snapshots, moduleCache, quote, taken>>

\* simulate, which leaves a trace in the nonce generator alone.
Simulate ==
  /\ prngCounter < MaxSimulations
  /\ prngCounter' = prngCounter + 1
  /\ outcome' = None
  /\ UNCHANGED <<store, clock, snapshots, moduleCache, quote, taken>>

ResetPrng ==
  /\ prngCounter' = 0
  /\ outcome' = None
  /\ UNCHANGED <<store, clock, snapshots, moduleCache, quote, taken>>

LedgerSnapshot ==
  [store |-> store, ledgerSeq |-> ledgerSeq, timestamp |-> timestamp, prngCounter |-> prngCounter]

TakeSnapshot ==
  /\ Len(snapshots) < MaxSnapshots
  /\ snapshots' = Append(snapshots, LedgerSnapshot)
  /\ taken' = Append(taken, ledger)
  /\ outcome' = None
  /\ UNCHANGED <<ledger, moduleCache, quote>>

\* Mutant of Restore: the entries and the generator alone, not the clock.
Restore_NoClock(id) ==
  /\ store' = snapshots[id].store
  /\ prngCounter' = snapshots[id].prngCounter
  /\ outcome' = None /\ quote' = None
  /\ UNCHANGED <<clock, snapshots, moduleCache, taken>>

\* The snapshot stays, and may be gone back to again.
Restore(id) ==
  /\ store' = snapshots[id].store
  /\ ledgerSeq' = snapshots[id].ledgerSeq
  /\ timestamp' = snapshots[id].timestamp
  /\ prngCounter' = snapshots[id].prngCounter
  /\ outcome' = None /\ quote' = None
  /\ UNCHANGED <<snapshots, moduleCache, taken>>
-----------------------------------------------------------------------------
(***************************************************************************)
(* The preflights of the TTL operations, which read the store as it would  *)
(* be in ledger `at`: the open ledger, or the last closed one for the RPC  *)
(* server.  They quote the footprint, the bytes and the rent to submit.    *)
(***************************************************************************)
Ttls ==
  [k \in Keys |-> IF store[k] = None \/ store[k].liveUntil = None THEN NoEntry
                  ELSE store[k].liveUntil]

HasNoTtl(k) == store[k] # None /\ store[k].liveUntil = None

\* Mutant of QuotedExtension: an entry already long enough is quoted again.
QuotedExtension_All(keys, until, at) == Selected(keys, {k \in Keys : Live(Ttls, at, k)})

QuotedExtension(keys, until, at) ==
  Selected(keys, {k \in Keys : Live(Ttls, at, k) /\ Ttls[k] < until})

ExtendTtlResources(keys, extendTo, at) ==
  LET until == SatAdd(at, extendTo)
      quoted == QuotedExtension(keys, until, at)
      refused(k) == \/ ~IsTtlKey(k) \/ HasNoTtl(k)
                    \/ IsPersistentKey(k) /\ Archived(Ttls, at, k) /\ Ttls[k] < until
  IN  IF \E k \in ToSet(keys) : refused(k) THEN None
      ELSE [op |-> "extend", keys |-> quoted, extendTo |-> extendTo, bytes |-> 0,
            rent |-> RentFee(TtlMoves(quoted, SizesIn(store), Ttls, until), at), at |-> at]

RestoreResources(keys, at) ==
  LET until == RestoredLiveUntil(at)
      quoted == Selected(keys, {k \in Keys : Archived(Ttls, at, k)})
  IN  IF until > U32Max \/ \E k \in ToSet(keys) : ~IsPersistentKey(k) \/ Ttls[k] = NoEntry
      THEN None
      ELSE [op |-> "restore", keys |-> quoted, extendTo |-> 0,
            bytes |-> Bytes(quoted, SizesIn(store)),
            rent |-> RentFee(TtlMoves(quoted, SizesIn(store), NoOldTtl, until), at), at |-> at]

SimulateTtl(keys, at) ==
  /\ \/ \E extendTo \in ExtendTos : quote' = ExtendTtlResources(keys, extendTo, at)
     \/ quote' = RestoreResources(keys, at)
  /\ outcome' = None
  /\ UNCHANGED <<ledger, snapshots, moduleCache, taken>>

\* The classic layer's operation over what was quoted, paid up to cap.  A TTL
\* crosses into the store as a u32.
QuotedOp ==
  [readOnly |-> IF quote.op = "extend" THEN quote.keys ELSE <<>>,
   readWrite |-> IF quote.op = "restore" THEN quote.keys ELSE <<>>,
   extendTo |-> quote.extendTo, diskReadBytes |-> quote.bytes, writeBytes |-> quote.bytes]

ApplyTtlOp(op, cap) ==
  IF quote.op = "extend" THEN ApplyExtendFootprintTtl(op, Ttls, SizesIn(store), ledgerSeq, cap)
  ELSE ApplyRestoreFootprint(op, Ttls, SizesIn(store), ledgerSeq, cap)

MovedStore(ttls) ==
  [k \in Keys |-> IF store[k] = None \/ ttls[k] = Ttls[k] THEN store[k]
                  ELSE [store[k] EXCEPT !.liveUntil = ttls[k] % (U32Max + 1)]]

SubmitQuote(cap) ==
  /\ quote # None
  /\ quote.extendTo <= MaxEntryTtl - 1    \* footprintOpMalformed
  /\ LET applied == ApplyTtlOp(QuotedOp, cap)
     IN  /\ store' = MovedStore(applied.entries)
         /\ outcome' = [call |-> None, ok |-> applied.result = "success",
                        code |-> applied.result, hits |-> {}, rent |-> applied.rent]
  /\ quote' = None
  /\ UNCHANGED <<clock, prngCounter, snapshots, moduleCache, taken>>
-----------------------------------------------------------------------------
Init ==
  /\ store = [k \in Keys |-> None]
  /\ ledgerSeq = FirstLedger /\ timestamp = 0 /\ prngCounter = 0
  /\ snapshots = <<>> /\ moduleCache = {}
  /\ outcome = None /\ quote = None /\ taken = <<>>

Caps == {None} \cup (IF quote = None THEN {} ELSE {quote.rent})

Next ==
  \/ \E call \in Calls : Send(call)
  \/ \E call \in Calls : SendEnvelope(call)
  \/ \E k \in Keys, v \in Values, ttl \in PutTtls :
       (IsTtlKey(k) \/ ttl = None) /\ PutEntry(k, [value |-> v, liveUntil |-> ttl])
  \/ \E k \in Keys : RemoveEntry(k)
  \/ \E k \in CodeKeys : SeedWasm(k)
  \/ \E n \in Advances : AdvanceLedgers(n)
  \/ \E t \in Timestamps : SetTimestamp(t)
  \/ Simulate
  \/ ResetPrng
  \/ TakeSnapshot
  \/ \E id \in DOMAIN snapshots : Restore(id)
  \/ \E keys \in FootprintRequests, at \in {ledgerSeq, ledgerSeq - 1} : SimulateTtl(keys, at)
  \/ \E cap \in Caps : SubmitQuote(cap)

Spec == Init /\ [][Next]_vars
-----------------------------------------------------------------------------
(***************************************************************************)
(* Types: of the ledger and of every snapshot of it; sequence numbers and  *)
(* TTLs stay within a u32.                                                 *)
(***************************************************************************)
Stores == [Keys -> [value : Values, liveUntil : (0 .. U32Max) \cup {None}] \cup {None}]
TypeOK ==
  /\ store \in Stores
  /\ ledgerSeq \in 1 .. U32Max
  /\ timestamp \in Nat /\ prngCounter \in Nat
  /\ moduleCache \subseteq CodeKeys
  /\ Len(snapshots) = Len(taken)
  /\ \A i \in DOMAIN snapshots :
       /\ snapshots[i].store \in Stores
       /\ snapshots[i].ledgerSeq \in 1 .. U32Max

(***************************************************************************)
(* A send that fails, before the host, in it or on the checks that follow  *)
(* it, leaves every entry and TTL as it was.                               *)
(***************************************************************************)
FailedSendKeepsStore ==
  [][(outcome' # None /\ ~outcome'.ok) => store' = store]_vars

(***************************************************************************)
(* A persistent entry past its TTL lives again only by a call that marks   *)
(* it, a RestoreFootprint, a direct write or a return to an earlier        *)
(* ledger: no run over it, and no extension, does.                         *)
(***************************************************************************)
ArchivedNow(k) == IsPersistentKey(k) /\ store[k] # None /\ Expired(k)
RestoredBy(call, k) == \E i \in call.marked : call.readWrite[i + 1] = k
Called == outcome # None /\ outcome.call # None
Moved == outcome # None /\ outcome.call = None

ArchiveOpensByRestore ==
  [][\A k \in Keys :
       (ArchivedNow(k) /\ store'[k] # store[k]) =>
          /\ Called' => outcome'.ok /\ RestoredBy(outcome'.call, k)
          /\ Moved' => quote.op = "restore" /\ k \in ToSet(quote.keys)]_vars

(***************************************************************************)
(* An invocation of the classic layer does to the ledger what ClassicTx    *)
(* takes a call to do (HostCalls), while every Soroban entry has a TTL and *)
(* nothing else has: it completes only if its footprint names no archived  *)
(* entry, leaves each key with a life it may be given, reports a rent that *)
(* some sizes of just those entries come to, and consumes no more than the *)
(* refundable fee.                                                         *)
(***************************************************************************)
TtlsComplete == \A k \in Keys : store[k] # None => (HasNoTtl(k) <=> ~IsTtlKey(k))

EnvelopesKeepPromise ==
  [][(Called' /\ outcome'.ok /\ TtlsComplete /\ SendEnvelope(outcome'.call)) =>
       LET call == outcome'.call
       IN  /\ ~NamesArchivedEntry(call, Ttls, ledgerSeq)
           /\ Ttls' \in CallEntries(call, Ttls, ledgerSeq)
           /\ outcome'.rent \in CallRents(call, Ttls', Ttls, ledgerSeq)
           /\ call.maxRefundable # None =>
                \E events \in EventFees : ~(outcome'.rent + events > call.maxRefundable)]_vars

(***************************************************************************)
(* The module cache, which going back in time does not touch, never makes  *)
(* a difference for code the ledger holds: what is live runs parsed, and   *)
(* what a call restored is parsed in the call, which pays for it.          *)
(***************************************************************************)
CacheMirrorsLedger ==
  [][(Called' /\ outcome'.ok) =>
       \A k \in FootprintCode(outcome'.call) :
         k \in outcome'.hits <=>
           k \in Compilable /\ store'[k] # None /\ ~Expired(k)
             /\ ~(Send(outcome'.call) /\ RestoredBy(outcome'.call, k))]_vars

(***************************************************************************)
(* Going back to a snapshot gives the ledger back exactly as it was when   *)
(* the snapshot was taken, however often and in whatever order snapshots   *)
(* are returned to: entries, TTLs, clock and nonce generator.              *)
(***************************************************************************)
RestoreIsExact == [][\A id \in DOMAIN snapshots : Restore(id) => ledger' = taken[id]]_vars

(***************************************************************************)
(* What a preflight quotes is what the operation needs: applied while the  *)
(* ledger is still as it was simulated, it is not refused, for the quoted  *)
(* bytes and rent, lengthens the life of every quoted entry and costs      *)
(* exactly what was quoted.  A ledger later it is still within the quoted  *)
(* bytes.  (An entry above the size limit is quoted and then refused.)     *)
(***************************************************************************)
QuotesTooLarge == AnyTooLarge(quote.keys, SizesIn(store))

QuoteSuffices ==
  [][Moved' =>
       /\ ~QuotesTooLarge => outcome'.code # "resourceLimitExceeded"
       /\ (/\ ~QuotesTooLarge
           /\ quote.at = ledgerSeq
           /\ ledgerSeq + quote.extendTo <= U32Max) =>
            /\ outcome'.ok
            /\ outcome'.rent = quote.rent
            /\ \A k \in ToSet(quote.keys) : store'[k].liveUntil > store[k].liveUntil]_vars

(***************************************************************************)
(* The protocol's expectation, pinned by a test of the repository: an      *)
(* invocation that marks every archived entry of its footprint is not      *)
(* failed for the archive, whichever way it was submitted.                 *)
(***************************************************************************)
MarkedEntriesRestored ==
  [][(Called' /\ outcome'.code = "entryArchived") =>
       \E k \in Present(outcome'.call) : ArchivedNow(k) /\ ~RestoredBy(outcome'.call, k)]_vars

(***************************************************************************)
(* Restoring is for archived entries: a call leaves no live entry with a   *)
(* shorter life.                                                           *)
(***************************************************************************)
LiveEntriesKeepLife ==
  [][Called' =>
       \A k \in Present(outcome'.call) :
         (store'[k] # None /\ store[k].liveUntil # None) =>
            store'[k].liveUntil >= store[k].liveUntil]_vars
=============================================================================
