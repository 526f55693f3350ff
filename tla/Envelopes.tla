----------------------------- MODULE Envelopes ------------------------------
(***************************************************************************)
(* What the classic layer (src/classic.ts) decides from an envelope alone, *)
(* before it reads the ledger: the fees it bids and is charged, and the    *)
(* checks on its shape, its declared resources and its footprint.          *)
(*                                                                         *)
(* An envelope is one record, over the constants below:                    *)
(*   hash            the hash of the inner transaction's contents          *)
(*   source, opSource   accounts; opSource is None when the op names none  *)
(*   seqNum, fee     of the inner transaction                              *)
(*   ops             its operations' kinds, a sequence over OpKinds        *)
(*   memo, muxed     a memo; a muxed source or operation source            *)
(*   sorobanData     whether it carries SorobanTransactionData, and then:  *)
(*   resourceFee, readOnly, readWrite, archived, instructions,             *)
(*   diskReadBytes, writeBytes  as declared (archived: indexes from 0)     *)
(*   cost            [nonRefundable, refundable]: what the ledger computes *)
(*                   for the declared resources at this envelope's size    *)
(*   size            the XDR size of the inner envelope                    *)
(*   extendTo        of an ExtendFootprintTTL                              *)
(*   minTime, maxTime, minLedger, maxLedger, minSeqNum (None if absent),   *)
(*   minSeqAge, minSeqLedgerGap, extraSigners     preconditions            *)
(*   sigs            the inner decorated signatures                        *)
(*   transfers       the native transfers its invocation may make: a set   *)
(*                   of [from, to, amount], account entries it declares    *)
(*   feeSource       None for a v1 envelope; for a fee bump its fee source *)
(*   bumpHash, bumpFee, bumpSigs   of the fee bump                         *)
(***************************************************************************)
EXTENDS Integers, Sequences, Signatures

CONSTANTS
  None,             \* the absent account, minSeqNum, outcome or entry
  Keys,             \* the ledger keys a footprint may name
  KindOf,           \* "classic", "temporary" or "persistent", for every key
  BASE_FEE,         \* 100 in the code
  MAX_RESOURCE_FEE, \* 2^50 in the code
  Limits,           \* the network's per-transaction limits (NetworkFeeSettings)
  MaxEntryTtl       \* archivalSettings.maxEntryTtl

SorobanOps == {"invoke", "extend", "restore"}
OpKinds == SorobanOps \cup {"payment"}

IsBump(e) == e.feeSource # None
MaxOf(a, b) == IF a < b THEN b ELSE a
MinOf(a, b) == IF a < b THEN a ELSE b

OpKind(e) == IF e.ops = <<>> THEN "none" ELSE e.ops[1]
InvokerOf(e) == IF e.opSource = None THEN e.source ELSE e.opSource
IsTtlKey(k) == KindOf[k] # "classic"
IsPersistentKey(k) == KindOf[k] = "persistent"
Footprint(e) == e.readOnly \o e.readWrite
-----------------------------------------------------------------------------
(***************************************************************************)
(* Fees.                                                                   *)
(***************************************************************************)
DeclaredResourceFee(e) == IF e.sorobanData THEN e.resourceFee ELSE 0

\* How many operations the fee is counted over: a fee bump is one more.
FeeOps(e) == Len(e.ops) + (IF IsBump(e) THEN 1 ELSE 0)

\* What the account that pays offers, at most.
FullFee(e) == IF IsBump(e) THEN e.bumpFee ELSE e.fee
PayerOf(e) == IF IsBump(e) THEN e.feeSource ELSE e.source

MinInclusion(ops) == BASE_FEE * MaxOf(1, ops)

\* Charged before the operation runs: the declared resource fee and the bid,
\* up to the base fee for each operation.
FeeToCharge(e) ==
  DeclaredResourceFee(e) +
    MinOf(FullFee(e) - DeclaredResourceFee(e), MinInclusion(FeeOps(e)))

\* Reported for an envelope that was rejected, though nothing was charged.
NominalFee(e) == DeclaredResourceFee(e) + MinInclusion(FeeOps(e))

XdrProvidesValidFee(e) ==
  OpKind(e) \in SorobanOps =>
    /\ e.sorobanData
    /\ e.resourceFee \in 0 .. MAX_RESOURCE_FEE

NegativeInclusionFee(e) ==
  \/ FullFee(e) < 0
  \/ FullFee(e) - DeclaredResourceFee(e) < 0

\* A bump must not lower the inclusion fee bid per operation; an inner bid that
\* is negative is not compared.
InnerInclusion(e) == e.fee - DeclaredResourceFee(e)
OuterInclusion(e) == e.bumpFee - DeclaredResourceFee(e)
LowersRate(e) ==
  /\ InnerInclusion(e) >= 0
  /\ OuterInclusion(e) * MinInclusion(Len(e.ops)) <
       InnerInclusion(e) * MinInclusion(Len(e.ops) + 1)

\* The bid the bump would have needed, rounded up: what is then reported.
NeededInclusion(e) ==
  (InnerInclusion(e) * MinInclusion(Len(e.ops) + 1) + MinInclusion(Len(e.ops)) - 1)
    \div MinInclusion(Len(e.ops))
-----------------------------------------------------------------------------
(***************************************************************************)
(* Shape, resources and footprint.                                         *)
(***************************************************************************)
ExtraSignersMalformed(e) ==
  \/ Len(e.extraSigners) = 2 /\ e.extraSigners[1] = e.extraSigners[2]
  \/ \E i \in DOMAIN e.extraSigners :
       /\ e.extraSigners[i].type = "signedPayload"
       /\ e.extraSigners[i].id.payload = <<>>

\* Exactly one operation, and a Soroban one.
NotOneSorobanOp(e) == Len(e.ops) # 1 \/ OpKind(e) \notin SorobanOps

MemoOrMuxed(e) == OpKind(e) = "invoke" /\ (e.memo \/ e.muxed)

DiskReads(e) ==
  IF OpKind(e) = "restore" THEN Len(e.readWrite)
  ELSE Len(SelectSeq(Footprint(e), LAMBDA k : ~IsTtlKey(k))) + Len(e.archived)

\* archivedSorobanEntries: ascending indexes of persistent read-write keys.
ArchivedMalformed(e) ==
  \/ \E i, j \in DOMAIN e.archived : i < j /\ e.archived[i] >= e.archived[j]
  \/ \E i \in DOMAIN e.archived :
       \/ e.archived[i] >= Len(e.readWrite)
       \/ ~IsPersistentKey(e.readWrite[e.archived[i] + 1])

SorobanResourcesProblem(e) ==
  \/ e.instructions > Limits.instructions
  \/ e.diskReadBytes > Limits.diskReadBytes
  \/ e.writeBytes > Limits.writeBytes
  \/ Len(Footprint(e)) > Limits.footprintEntries
  \/ DiskReads(e) > Limits.diskReadEntries
  \/ Len(e.readWrite) > Limits.writeEntries
  \/ \E i \in DOMAIN Footprint(e) : Footprint(e)[i] \in Limits.refusedKeys
  \/ e.size > Limits.size
  \/ ArchivedMalformed(e)

\* Mutant of FootprintOpMalformed: the current ledger is not counted.
FootprintOpMalformed_OffByOne(e) ==
  \/ /\ OpKind(e) = "extend"
     /\ \/ e.readWrite # <<>>
        \/ \E i \in DOMAIN e.readOnly : ~IsTtlKey(e.readOnly[i])
        \/ e.extendTo > MaxEntryTtl
  \/ /\ OpKind(e) = "restore"
     /\ \/ e.readOnly # <<>>
        \/ \E i \in DOMAIN e.readWrite : ~IsPersistentKey(e.readWrite[i])

\* Of a footprint operation: what it may name, and how far it may extend.
FootprintOpMalformed(e) ==
  \/ /\ OpKind(e) = "extend"
     /\ \/ e.readWrite # <<>>
        \/ \E i \in DOMAIN e.readOnly : ~IsTtlKey(e.readOnly[i])
        \/ e.extendTo > MaxEntryTtl - 1
  \/ /\ OpKind(e) = "restore"
     /\ \/ e.readOnly # <<>>
        \/ \E i \in DOMAIN e.readWrite : ~IsPersistentKey(e.readWrite[i])
=============================================================================
