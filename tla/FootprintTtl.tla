---------------------------- MODULE FootprintTtl ----------------------------
(***************************************************************************)
(* What ExtendFootprintTTL and RestoreFootprint do to the TTLs of the      *)
(* ledger's Soroban entries, and the rent they cost (src/classic.ts).      *)
(*                                                                         *)
(* `entries` maps each key to the last ledger its entry is live in, or to  *)
(* NoEntry when the store holds none (a classic key has no TTL and is      *)
(* NoEntry too: both operations skip it).  An entry is archived once that  *)
(* ledger is past; a temporary one is then gone for the protocol.  `sizes` *)
(* maps each key to the size of its entry.                                 *)
(***************************************************************************)
EXTENDS Envelopes

CONSTANTS
  MinPersistentTtl, \* archivalSettings.minPersistentTtl
  SizeLimit,        \* the network's limit on the entry of each Soroban key
  RentFee(_, _)     \* compute_rent_fee of the host crate: what a list of changes
                    \* [key, oldSize, newSize, oldLiveUntil, newLiveUntil] costs
                    \* in a ledger

NoEntry == 0
Live(entries, seq, k) == entries[k] # NoEntry /\ entries[k] >= seq
Archived(entries, seq, k) == entries[k] # NoEntry /\ entries[k] < seq

\* The TTL of an entry created, seeded or restored at ledger seq, which counts
\* that ledger.
RestoredLiveUntil(seq) == seq + MinPersistentTtl - 1

\* The keys of a list that are in a set, in order and with repetitions.
Selected(keys, S) ==
  FoldLeft(LAMBDA kept, k : IF k \in S THEN Append(kept, k) ELSE kept, <<>>, keys)

\* The size of their entries.
Bytes(keys, sizes) == FoldLeft(LAMBDA sum, k : sum + sizes[k], 0, keys)

\* Mutant of ExtendMoves: archived entries are extended too.
ExtendMoves_Archived(e, entries, seq) ==
  Selected(e.readOnly, {k \in Keys : entries[k] # NoEntry /\ entries[k] < seq + e.extendTo})

\* The footprint keys each operation moves.
ExtendMoves(e, entries, seq) ==
  Selected(e.readOnly, {k \in Keys : Live(entries, seq, k) /\ entries[k] < seq + e.extendTo})
RestoreMoves(e, entries, seq) ==
  Selected(e.readWrite, {k \in Keys : Archived(entries, seq, k)})

\* An operation that read or wrote more than it declared, or met an entry above
\* the network's size limit.
RestoreOverLimit(e, keys, sizes) ==
  Bytes(keys, sizes) > e.diskReadBytes \/ Bytes(keys, sizes) > e.writeBytes
TooLarge(k, size) == IsTtlKey(k) /\ size > SizeLimit[k]
AnyTooLarge(keys, sizes) == \E i \in DOMAIN keys : TooLarge(keys[i], sizes[keys[i]])

\* What is paid for an entry whose TTL alone moves: one out of the archive pays as
\* a new one, with no size and no TTL before.
NoOldTtl == [k \in Keys |-> NoEntry]
TtlMove(k, size, oldLiveUntil, newLiveUntil) ==
  [key |-> k, oldSize |-> IF oldLiveUntil = NoEntry THEN 0 ELSE size, newSize |-> size,
   oldLiveUntil |-> oldLiveUntil, newLiveUntil |-> newLiveUntil]
TtlMoves(keys, sizes, oldLiveUntil, newLiveUntil) ==
  [i \in DOMAIN keys |-> TtlMove(keys[i], sizes[keys[i]], oldLiveUntil[keys[i]], newLiveUntil)]

\* Mutants of MoveTtls: the cap is not looked at; the moves are made before they
\* are priced.
MoveTtls_NoCap(entries, sizes, seq, keys, oldLiveUntil, newLiveUntil, cap) ==
  [result |-> "success", rent |-> RentFee(TtlMoves(keys, sizes, oldLiveUntil, newLiveUntil), seq),
   entries |-> [k \in Keys |-> IF \E i \in DOMAIN keys : keys[i] = k
                               THEN newLiveUntil ELSE entries[k]]]

MoveTtls_WriteFirst(entries, sizes, seq, keys, oldLiveUntil, newLiveUntil, cap) ==
  LET moved == MoveTtls_NoCap(entries, sizes, seq, keys, oldLiveUntil, newLiveUntil, cap)
  IN  IF cap # None /\ moved.rent \notin 0 .. cap
      THEN [moved EXCEPT !.result = "insufficientRefundableFee", !.rent = 0]
      ELSE moved

\* moveTtls: every move is priced before any is made, and all are made or none.
\* cap is the refundable fee, or None while fees are not charged; rent is never
\* negative.
MoveTtls(entries, sizes, seq, keys, oldLiveUntil, newLiveUntil, cap) ==
  LET rent == RentFee(TtlMoves(keys, sizes, oldLiveUntil, newLiveUntil), seq)
  IN  IF cap # None /\ rent \notin 0 .. cap
      THEN [result |-> "insufficientRefundableFee", rent |-> 0, entries |-> entries]
      ELSE [result |-> "success", rent |-> rent,
            entries |-> [k \in Keys |-> IF \E i \in DOMAIN keys : keys[i] = k
                                        THEN newLiveUntil ELSE entries[k]]]

OverLimit(entries) == [result |-> "resourceLimitExceeded", rent |-> 0, entries |-> entries]

ApplyExtendFootprintTtl(e, entries, sizes, seq, cap) ==
  LET keys == ExtendMoves(e, entries, seq)
  IN  IF AnyTooLarge(keys, sizes) THEN OverLimit(entries)
      ELSE MoveTtls(entries, sizes, seq, keys, entries, seq + e.extendTo, cap)

ApplyRestoreFootprint(e, entries, sizes, seq, cap) ==
  LET keys == RestoreMoves(e, entries, seq)
  IN  IF RestoreOverLimit(e, keys, sizes) \/ AnyTooLarge(keys, sizes) THEN OverLimit(entries)
      ELSE MoveTtls(entries, sizes, seq, keys, NoOldTtl, RestoredLiveUntil(seq), cap)
=============================================================================
