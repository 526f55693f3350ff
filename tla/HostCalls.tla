------------------------------ MODULE HostCalls ------------------------------
(***************************************************************************)
(* What the classic layer may rely on of an invocation it hands to the     *)
(* in-process ledger (Ledger.send with no entry marked for restoring): in  *)
(* which life it leaves the entries of its footprint, and what that costs. *)
(* ClassicTx takes any such outcome; HostLedger, which has the whole of    *)
(* send, is shown to keep to it (EnvelopesKeepPromise).                    *)
(***************************************************************************)
EXTENDS FootprintTtl

CONSTANTS
  MinTemporaryTtl,  \* archivalSettings.minTemporaryTtl
  Sizes             \* the sizes an entry may have

InFootprint(e, k) == \E i \in DOMAIN Footprint(e) : Footprint(e)[i] = k
InReadWrite(e, k) == \E i \in DOMAIN e.readWrite : e.readWrite[i] = k

\* A call fails, changing nothing, while its footprint names an archived
\* persistent entry.
NamesArchivedEntry(e, entries, seq) ==
  \E k \in Keys : InFootprint(e, k) /\ IsPersistentKey(k) /\ Archived(entries, seq, k)

MinLiveUntil(k, seq) ==
  seq + (IF IsPersistentKey(k) THEN MinPersistentTtl ELSE MinTemporaryTtl) - 1
MaxLiveUntil(seq) == seq + MaxEntryTtl - 1

\* The TTLs a successful call may leave a key with: one that lives is kept or
\* extended, as far as the longest life; a read-write one is also removed, or
\* created with the shortest life or more.  Reading an entry that is not there, or
\* a temporary one past its TTL, leaves a TTL of 0.
CallTtls(e, k, entries, seq) ==
  LET live == Live(entries, seq, k)
      kept == {entries[k]} \cup entries[k] .. MaxLiveUntil(seq)
      created == MinLiveUntil(k, seq) .. MaxLiveUntil(seq)
  IN  IF ~InFootprint(e, k) \/ ~IsTtlKey(k) THEN {entries[k]}
      ELSE IF InReadWrite(e, k) THEN {NoEntry} \cup (IF live THEN kept ELSE created)
           ELSE IF live THEN kept ELSE {NoEntry}

CallEntries(e, entries, seq) ==
  {after \in [Keys -> UNION {CallTtls(e, k, entries, seq) : k \in Keys}] :
     \A k \in Keys : after[k] \in CallTtls(e, k, entries, seq)}

\* What a run's changes cost: an entry pays if it lives longer or has grown.
RentOfChanges(changes, seq) ==
  RentFee(SetToSeq({c \in changes : c.newLiveUntil > c.oldLiveUntil \/ c.newSize > c.oldSize}), seq)

\* What the call may cost, over the sizes its entries may have had and may have
\* been given: one that is created has neither size nor TTL before, one that is
\* only read keeps its size.
CallRents(e, after, entries, seq) ==
  LET left == {k \in Keys : InFootprint(e, k) /\ IsTtlKey(k) /\ after[k] # NoEntry}
      change(k, held, written) ==
        LET live == Live(entries, seq, k)
        IN  [key |-> k, oldSize |-> IF live THEN held[k] ELSE 0,
             newSize |-> IF InReadWrite(e, k) THEN written[k] ELSE held[k],
             oldLiveUntil |-> IF live THEN entries[k] ELSE NoEntry, newLiveUntil |-> after[k]]
  IN  {RentOfChanges({change(k, held, written) : k \in left}, seq) :
         held \in [left -> Sizes], written \in [left -> Sizes]}

CallOutcomes(e, entries, seq) ==
  UNION {[entries : {after}, rent : CallRents(e, after, entries, seq)] :
           after \in CallEntries(e, entries, seq)}
=============================================================================
