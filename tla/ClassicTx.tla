----------------------------- MODULE ClassicTx ------------------------------
(***************************************************************************)
(* The classic layer's apply path (applyTransaction, src/classic.ts): what *)
(* a submitted envelope does to the ledger.  Validation runs in the code's *)
(* order over the ledger as it is and changes nothing; an envelope that    *)
(* passes moves the sequence number, pays its fee up front, runs its one   *)
(* Soroban operation and gets back the refundable fee it did not use, all  *)
(* in one synchronous call.  The Soroban host is nondeterministic within   *)
(* what Ledger.send lets through (HostResults).                            *)
(***************************************************************************)
EXTENDS HostCalls

CONSTANTS
  Accounts,         \* account ids
  Envelopes,        \* the envelopes that may be submitted
  SignerLists,      \* the signers an account may have besides its master key
  FundedAccounts,   \* the account records fundAccount may write
  InitialEntries,   \* the Soroban entries before the first call
  BASE_RESERVE,     \* 5_000_000 in the code
  MAX_BALANCE,      \* 2^63 - 1 in the host
  SEQ_SHIFT,        \* 2^32 in the code: ledgerSeq << 32
  CLOSE_TIME,       \* seconds per ledger: 5 in the code
  EventFees,        \* the events fees an invocation may cost
  Sigverify, SequenceCheck, FeeCharging, Timebounds,  \* ValidationOptions
  FirstLedger, MaxLedger,   \* bounds: the ledgers the clock may reach
  Timestamps,               \* bound: the times setTimestamp may set
  MaxFundings               \* bound: the calls of fundAccount

AccountEntries ==
  [balance : Int, seqNum : Nat, numSubEntries : Nat, master : 0 .. 255, low : 0 .. 255,
   medium : 0 .. 255, signers : SignerLists, seqLedger : Nat, seqTime : Nat]

\* What applyTransaction returns (TxOutcome).
Codes ==
  {"txSUCCESS", "txFAILED", "txFEE_BUMP_INNER_SUCCESS", "txFEE_BUMP_INNER_FAILED", "none",
   "txMALFORMED", "txINSUFFICIENT_FEE", "txNO_ACCOUNT", "txBAD_AUTH", "txBAD_AUTH_EXTRA",
   "txINSUFFICIENT_BALANCE", "txMISSING_OPERATION", "txSOROBAN_INVALID", "txTOO_EARLY",
   "txTOO_LATE", "txBAD_SEQ", "txBAD_MIN_SEQ_AGE_OR_GAP"}
OperationResults ==
  {"success", "insufficientRefundableFee", "resourceLimitExceeded", "hostFailed",
   "opNO_ACCOUNT", "none"}
Outcomes ==
  [env : Envelopes, applied : BOOLEAN, ok : BOOLEAN, feeCharged : Int, code : Codes,
   innerCode : Codes, result : OperationResults]

ASSUME AccountsAssumption ==
  /\ None \notin Accounts /\ None \notin AccountEntries /\ None \notin Outcomes
  /\ FundedAccounts \subseteq AccountEntries
  /\ \A signers \in SignerLists : AreSigners(signers)
  /\ \A acct \in FundedAccounts : acct.seqLedger = 0 /\ acct.seqTime = 0

ASSUME EnvelopesAssumption ==
  \A e \in Envelopes :
    /\ e.source \in Accounts
    /\ e.opSource \in Accounts \cup {None}
    /\ e.feeSource \in Accounts \cup {None}
    /\ e.seqNum \in Nat
    /\ e.minSeqNum \in Nat \cup {None}
    /\ e.fee \in Nat
    /\ e.bumpFee \in Int
    /\ e.resourceFee \in Int
    /\ e.cost \in [nonRefundable : Nat, refundable : Nat]
    /\ e.ops \in Seq(OpKinds)
    /\ e.readOnly \in Seq(Keys) /\ e.readWrite \in Seq(Keys)
    /\ e.extendTo \in Nat
    /\ IsList(e.sigs) /\ IsList(e.bumpSigs) /\ IsList(e.extraSigners)
    /\ e.transfers \subseteq [from : Accounts, to : Accounts, amount : Nat]

\* The hash of the contents fixes the contents, source and sequence included.
ASSUME HashAssumption ==
  \A e, f \in Envelopes : e.hash = f.hash => e.source = f.source /\ e.seqNum = f.seqNum

ASSUME NumbersAssumption ==
  /\ None \notin Int
  /\ {BASE_FEE, BASE_RESERVE, CLOSE_TIME, MAX_BALANCE, FirstLedger, MaxLedger, MaxFundings}
       \subseteq Nat
  /\ {MinPersistentTtl, MinTemporaryTtl, MaxEntryTtl} \subseteq Nat \ {0}
  /\ FirstLedger <= MaxLedger
  /\ MinPersistentTtl <= MaxEntryTtl /\ MinTemporaryTtl <= MaxEntryTtl
  /\ EventFees \subseteq Nat /\ Timestamps \subseteq Nat /\ Sizes \subseteq Nat
  /\ {Sigverify, SequenceCheck, FeeCharging, Timebounds} \subseteq BOOLEAN
  /\ InitialEntries \in [Keys -> 0 .. FirstLedger + MaxEntryTtl - 1]

VARIABLES
  accounts,         \* the AccountEntry of each account, or None
  entries,          \* the last live ledger of each Soroban entry, or NoEntry
  ledgerSeq, timestamp,
  outcome,          \* the TxOutcome of the last call, if it was an application
  applied,          \* history: the inner hashes applied since their source was funded
  credits,          \* history: what each account was funded with and received
  fundings          \* history: how many times fundAccount was called

vars == <<accounts, entries, ledgerSeq, timestamp, outcome, applied, credits, fundings>>
-----------------------------------------------------------------------------
\* Mutant of AvailableBalance: one base reserve instead of two.
AvailableBalance_OneReserve(acct) == acct.balance - (1 + acct.numSubEntries) * BASE_RESERVE

AvailableBalance(acct) == acct.balance - (2 + acct.numSubEntries) * BASE_RESERVE

\* boundsProblem.  A zero maxTime or maxLedger is no bound; maxLedger is exclusive.
TooEarly(e) == e.minTime > timestamp \/ e.minLedger > ledgerSeq
TooLate(e) ==
  \/ e.maxTime # 0 /\ e.maxTime < timestamp
  \/ e.maxLedger # 0 /\ e.maxLedger <= ledgerSeq

StartingSequenceNumber == ledgerSeq * SEQ_SHIFT

\* Mutant of BadSequence: the relaxed range includes its end.
BadSequence_ClosedRange(e) ==
  LET currentSeq == accounts[e.source].seqNum
  IN  IF e.minSeqNum # None THEN currentSeq < e.minSeqNum \/ currentSeq > e.seqNum
      ELSE e.seqNum # currentSeq + 1

\* A minSeqNum, zero included, relaxes the strict successor to a range.
BadSequence(e) ==
  LET currentSeq == accounts[e.source].seqNum
  IN  IF e.minSeqNum # None THEN currentSeq < e.minSeqNum \/ currentSeq >= e.seqNum
      ELSE e.seqNum # currentSeq + 1

TooEarlyForAccount(e) ==
  LET acct == accounts[e.source]
  IN  \/ e.minSeqAge > timestamp \/ timestamp - e.minSeqAge < acct.seqTime
      \/ e.minSeqLedgerGap > ledgerSeq \/ ledgerSeq - e.minSeqLedgerGap < acct.seqLedger

\* The signers of the operation, and the weight it needs: MEDIUM to invoke, LOW
\* otherwise.  A source that does not exist must sign with its own key.
OpSigners(e) ==
  LET a == InvokerOf(e)
  IN  IF accounts[a] = None THEN <<[key |-> Ed25519(a), weight |-> 1]>>
      ELSE AccountSigners(a, accounts[a])
OpNeeds(e) ==
  LET acct == accounts[InvokerOf(e)]
  IN  CASE acct = None -> 0
        [] acct # None /\ OpKind(e) = "invoke" -> acct.medium
        [] acct # None /\ OpKind(e) # "invoke" -> acct.low

ExtraSigners(e) == [i \in DOMAIN e.extraSigners |-> [key |-> e.extraSigners[i], weight |-> 1]]

\* The three checks of the inner transaction, in order, over one checker.
SourceCheck(e) ==
  CheckSignature(e.sigs, e.hash, {}, AccountSigners(e.source, accounts[e.source]),
                 accounts[e.source].low)
ExtraCheck(e) ==
  IF e.extraSigners = <<>> THEN [SourceCheck(e) EXCEPT !.ok = TRUE]
  ELSE CheckSignature(e.sigs, e.hash, SourceCheck(e).used, ExtraSigners(e), Len(e.extraSigners))
\* Mutant of OpCheck: the transaction source's signature is taken for the
\* operation's.
OpCheck_SourceOnly(e) ==
  CheckSignature(e.sigs, e.hash, ExtraCheck(e).used,
                 AccountSigners(e.source, accounts[e.source]), accounts[e.source].low)

OpCheck(e) == CheckSignature(e.sigs, e.hash, ExtraCheck(e).used, OpSigners(e), OpNeeds(e))

\* The one check of a fee bump, over its own signatures.
BumpCheck(e) ==
  CheckSignature(e.bumpSigs, e.bumpHash, {}, AccountSigners(e.feeSource, accounts[e.feeSource]),
                 accounts[e.feeSource].low)
-----------------------------------------------------------------------------
(***************************************************************************)
(* Validation: the problems in the order the code looks for them, each     *)
(* with the code and the fee it is reported with.                          *)
(***************************************************************************)
Unseeded(code, holds) == [code |-> code, fee |-> 0, inner |-> FALSE, holds |-> holds]
Outer(e, code, holds) == [code |-> code, fee |-> NominalFee(e), inner |-> FALSE, holds |-> holds]
Inner(e, code, holds) == [Outer(e, code, holds) EXCEPT !.inner = TRUE]

EnvelopeProblems(e) ==
  <<Unseeded("txMALFORMED", IsBump(e) /\ e.bumpFee < 0),
    Unseeded("txMALFORMED", ~XdrProvidesValidFee(e)),
    Unseeded("txMALFORMED", NegativeInclusionFee(e))>>

BumpProblems(e) ==
  LET exists == accounts[e.feeSource] # None
  IN  <<Outer(e, "txINSUFFICIENT_FEE", OuterInclusion(e) < MinInclusion(Len(e.ops) + 1)),
        [Outer(e, "txINSUFFICIENT_FEE", LowersRate(e)) EXCEPT !.fee = NeededInclusion(e)],
        Outer(e, "txNO_ACCOUNT", ~exists),
        Outer(e, "txBAD_AUTH", Sigverify /\ exists /\ ~BumpCheck(e).ok),
        Outer(e, "txINSUFFICIENT_BALANCE",
              FeeCharging /\ exists /\ AvailableBalance(accounts[e.feeSource]) < e.bumpFee),
        Outer(e, "txBAD_AUTH_EXTRA",
              Sigverify /\ exists /\ ~CheckAllSignaturesUsed(e.bumpSigs, BumpCheck(e).used))>>

InnerProblems(e) ==
  LET exists == accounts[e.source] # None
      signed == Sigverify /\ exists
      InclusionFee == e.fee - DeclaredResourceFee(e)
  IN  <<Inner(e, "txMALFORMED", ExtraSignersMalformed(e)),
        Inner(e, "txMISSING_OPERATION", e.ops = <<>>),
        Inner(e, "txMALFORMED", NotOneSorobanOp(e)),
        Inner(e, "txSOROBAN_INVALID", MemoOrMuxed(e)),
        Inner(e, "txSOROBAN_INVALID", ~e.sorobanData),
        Inner(e, "txSOROBAN_INVALID", SorobanResourcesProblem(e)),
        Inner(e, "txSOROBAN_INVALID",
              FeeCharging /\ e.resourceFee < e.cost.nonRefundable + e.cost.refundable),
        Inner(e, "txTOO_EARLY", Timebounds /\ TooEarly(e)),
        Inner(e, "txTOO_LATE", Timebounds /\ TooLate(e)),
        Inner(e, "txNO_ACCOUNT", ~exists),
        Inner(e, "txBAD_SEQ", e.seqNum = StartingSequenceNumber),
        Inner(e, "txBAD_SEQ", SequenceCheck /\ exists /\ BadSequence(e)),
        Inner(e, "txBAD_MIN_SEQ_AGE_OR_GAP", Timebounds /\ exists /\ TooEarlyForAccount(e)),
        Inner(e, "txBAD_AUTH", signed /\ ~SourceCheck(e).ok),
        Inner(e, "txBAD_AUTH", signed /\ ~ExtraCheck(e).ok),
        Inner(e, "txINSUFFICIENT_FEE", ~IsBump(e) /\ InclusionFee < BASE_FEE),
        Inner(e, "txINSUFFICIENT_BALANCE",
              ~IsBump(e) /\ FeeCharging /\ exists /\ AvailableBalance(accounts[e.source]) < e.fee),
        Inner(e, "txFAILED", signed /\ ~OpCheck(e).ok),
        Inner(e, "txFAILED", FootprintOpMalformed(e)),
        Inner(e, "txBAD_AUTH_EXTRA", signed /\ ~CheckAllSignaturesUsed(e.sigs, OpCheck(e).used))>>

Problems(e) ==
  EnvelopeProblems(e) \o (IF IsBump(e) THEN BumpProblems(e) ELSE <<>>) \o InnerProblems(e)

ProblemLists(e) ==
  {EnvelopeProblems(e), InnerProblems(e)} \cup (IF IsBump(e) THEN {BumpProblems(e)} ELSE {})
Valid(e) ==
  \A problems \in ProblemLists(e) : \A i \in DOMAIN problems : ~problems[i].holds

\* The outcome of an envelope that was rejected, for the first problem met.
FirstThatHolds(problems) ==
  problems[CHOOSE i \in DOMAIN problems :
             /\ problems[i].holds
             /\ \A j \in 1 .. i - 1 : ~problems[j].holds]
Rejected(e, problem) ==
  LET wrapped == IsBump(e) /\ problem.inner
  IN  [env |-> e, applied |-> FALSE, ok |-> FALSE, feeCharged |-> problem.fee,
       code |-> IF wrapped THEN "txFEE_BUMP_INNER_FAILED" ELSE problem.code,
       innerCode |-> IF wrapped THEN problem.code ELSE "none", result |-> "none"]
Rejection(e) == Rejected(e, FirstThatHolds(Problems(e)))
-----------------------------------------------------------------------------
(***************************************************************************)
(* Application, as a composition of the writes the code makes in order,    *)
(* each to the account as the write before it left it.                     *)
(***************************************************************************)
BumpSequence(accts, a, seqNum) ==
  [accts EXCEPT ![a].seqNum = seqNum, ![a].seqLedger = ledgerSeq, ![a].seqTime = timestamp]
Debit(accts, a, amount) == [accts EXCEPT ![a].balance = @ - amount]

\* Mutant of NextSeqNum: a relaxed sequence does not jump.
NextSeqNum_NoJump(e) == accounts[e.source].seqNum + 1

\* The inner transaction's new sequence number.
NextSeqNum(e) == IF SequenceCheck THEN e.seqNum ELSE accounts[e.source].seqNum + 1

\* The accounts once the sequence number and the fee are taken.
Committed(e) ==
  LET bumped == BumpSequence(accounts, e.source, NextSeqNum(e))
  IN  IF FeeCharging THEN Debit(bumped, PayerOf(e), FeeToCharge(e)) ELSE bumped

MaxRefundable(e) == e.resourceFee - (IF FeeCharging THEN e.cost.nonRefundable ELSE 0)
RefundableCap(e) == IF FeeCharging THEN MaxRefundable(e) ELSE None

NoTransfer == [from |-> None, to |-> None, amount |-> 0]
Failed(result, accts) ==
  [ok |-> FALSE, result |-> result, consumed |-> 0, accounts |-> accts, entries |-> entries,
   transfer |-> NoTransfer]

\* ExtendFootprintTTL and RestoreFootprint consume their rent, if they succeed.
\* The sizes of the entries are not followed from call to call: an operation may
\* find any.
FootprintResult(e, accts, sizes) ==
  LET op == IF OpKind(e) = "extend"
            THEN ApplyExtendFootprintTtl(e, entries, sizes, ledgerSeq, RefundableCap(e))
            ELSE ApplyRestoreFootprint(e, entries, sizes, ledgerSeq, RefundableCap(e))
  IN  [ok |-> op.result = "success", result |-> op.result, consumed |-> op.rent,
       accounts |-> accts, entries |-> op.entries, transfer |-> NoTransfer]
-----------------------------------------------------------------------------
(***************************************************************************)
(* InvokeHostFunction: Ledger.send with no entry marked for restoring.  It *)
(* fails, changing nothing, for whatever reason the contract or the host   *)
(* has; always while the footprint names an archived persistent entry, and *)
(* when rent and events cost more than the refundable fee.  Otherwise it   *)
(* writes its footprint as HostCalls says, and may move native balance     *)
(* between accounts whose entries it declared (e.transfers), down to their *)
(* reserve.                                                                *)
(***************************************************************************)
HostTransfers(e, accts) ==
  {NoTransfer} \cup
    {t \in e.transfers :
       /\ accts[t.from] # None
       /\ accts[t.to] # None
       /\ t.amount <= AvailableBalance(accts[t.from])
       /\ accts[t.to].balance + t.amount <= MAX_BALANCE}

Transferred(accts, t) ==
  IF t = NoTransfer THEN accts ELSE Debit(Debit(accts, t.from, t.amount), t.to, -t.amount)

HostSuccesses(e, accts) ==
  {[ok |-> TRUE, result |-> "success", consumed |-> call.rent + events,
    accounts |-> Transferred(accts, t), entries |-> call.entries, transfer |-> t] :
     call \in CallOutcomes(e, entries, ledgerSeq), events \in EventFees,
     t \in HostTransfers(e, accts)}

HostResults(e, accts) ==
  {Failed("hostFailed", accts)} \cup
    (IF NamesArchivedEntry(e, entries, ledgerSeq) THEN {}
     ELSE {r \in HostSuccesses(e, accts) : FeeCharging => r.consumed \in 0 .. MaxRefundable(e)})

\* What the operation may do.  The operation source was looked up before the
\* fee was taken, which neither creates nor removes an account.
OpResults(e, accts) ==
  IF accounts[InvokerOf(e)] = None THEN {Failed("opNO_ACCOUNT", accts)}
  ELSE IF OpKind(e) = "invoke" THEN HostResults(e, accts)
  ELSE {FootprintResult(e, accts, sizes) : sizes \in [Keys -> Sizes]}

Refund(e, r) == MaxRefundable(e) - r.consumed

\* Mutants of Settled: the refund goes to the inner source; it is added to the
\* balance read before the operation ran.
Settled_ToSource(e, r) ==
  IF FeeCharging /\ Refund(e, r) > 0 THEN Debit(r.accounts, e.source, -Refund(e, r))
  ELSE r.accounts

Settled_Stale(e, r) ==
  IF FeeCharging /\ Refund(e, r) > 0
  THEN [r.accounts EXCEPT ![PayerOf(e)].balance =
          Committed(e)[PayerOf(e)].balance + Refund(e, r)]
  ELSE r.accounts

\* settle: the payer gets back what the operation did not consume.
Settled(e, r) ==
  IF FeeCharging /\ Refund(e, r) > 0 THEN Debit(r.accounts, PayerOf(e), -Refund(e, r))
  ELSE r.accounts

Application(e, r) ==
  LET code == IF r.ok THEN "txSUCCESS" ELSE "txFAILED"
  IN  [env |-> e, applied |-> TRUE, ok |-> r.ok, result |-> r.result,
       feeCharged |-> IF FeeCharging THEN FeeToCharge(e) - Refund(e, r) ELSE 0,
       code |-> IF ~IsBump(e) THEN code
                ELSE IF r.ok THEN "txFEE_BUMP_INNER_SUCCESS" ELSE "txFEE_BUMP_INNER_FAILED",
       innerCode |-> IF IsBump(e) THEN code ELSE "none"]
-----------------------------------------------------------------------------
Init ==
  /\ accounts = [a \in Accounts |-> None]
  /\ entries = InitialEntries
  /\ ledgerSeq = FirstLedger
  /\ timestamp \in Timestamps
  /\ outcome = None
  /\ applied = {}
  /\ credits = [a \in Accounts |-> 0]
  /\ fundings = 0

\* applyTransaction, rejecting: the ledger is left alone.
Reject(e) ==
  /\ ~Valid(e)
  /\ outcome' = Rejection(e)
  /\ UNCHANGED <<accounts, entries, ledgerSeq, timestamp, applied, credits, fundings>>

Received(c, t) ==
  IF t = NoTransfer THEN c
  ELSE [c EXCEPT ![t.from] = @ - t.amount, ![t.to] = @ + t.amount]

\* applyTransaction, applying: all it writes.
ApplyEffects(e) ==
  /\ Valid(e)
  /\ \E r \in OpResults(e, Committed(e)) :
       /\ accounts' = Settled(e, r)
       /\ entries' = r.entries
       /\ outcome' = Application(e, r)
       /\ credits' = Received(credits, r.transfer)
  /\ applied' = applied \cup {e.hash}

Apply(e) == ApplyEffects(e) /\ UNCHANGED <<ledgerSeq, timestamp, fundings>>

\* fundAccount: writes the whole account, new or not.  What its earlier life
\* applied may be applied again.
Fund(a, acct) ==
  /\ fundings < MaxFundings
  /\ fundings' = fundings + 1
  /\ accounts' = [accounts EXCEPT ![a] = acct]
  /\ applied' = applied \ {e.hash : e \in {f \in Envelopes : f.source = a}}
  /\ credits' = [credits EXCEPT ![a] = acct.balance]
  /\ outcome' = None
  /\ UNCHANGED <<entries, ledgerSeq, timestamp>>

AdvanceLedgers(n) ==
  /\ ledgerSeq + n <= MaxLedger
  /\ ledgerSeq' = ledgerSeq + n
  /\ timestamp' = timestamp + CLOSE_TIME * n
  /\ outcome' = None
  /\ UNCHANGED <<accounts, entries, applied, credits, fundings>>

\* setTimestamp: any time, an earlier one included.
SetTimestamp(t) ==
  /\ timestamp' = t
  /\ outcome' = None
  /\ UNCHANGED <<accounts, entries, ledgerSeq, applied, credits, fundings>>

Next ==
  \/ \E e \in Envelopes : Reject(e)
  \/ \E e \in Envelopes : Apply(e)
  \/ \E a \in Accounts, acct \in FundedAccounts : Fund(a, acct)
  \/ \E n \in 1 .. MaxLedger : AdvanceLedgers(n)
  \/ \E t \in Timestamps : SetTimestamp(t)

Spec == Init /\ [][Next]_vars
-----------------------------------------------------------------------------
Balance(a) == IF accounts[a] = None THEN 0 ELSE accounts[a].balance

\* What each account has paid in fees since it was funded.
FeesPaid == [a \in Accounts |-> credits[a] - Balance(a)]

Applied == outcome # None /\ outcome.applied

(***************************************************************************)
(* Type correctness, with the bound on every TTL: no entry is live for     *)
(* longer than maxEntryTtl ledgers, this one included (extendTo is capped  *)
(* one below, a restored entry counts the current ledger).                 *)
(***************************************************************************)
TypeOK ==
  /\ accounts \in [Accounts -> AccountEntries \cup {None}]
  /\ entries \in [Keys -> 0 .. ledgerSeq + MaxEntryTtl - 1]
  /\ ledgerSeq \in Nat /\ ledgerSeq >= FirstLedger
  /\ timestamp \in Nat
  /\ outcome # None => outcome.env \in Envelopes /\ outcome.applied \in BOOLEAN
  /\ applied \subseteq {e.hash : e \in Envelopes}
  /\ credits \in [Accounts -> Int]
  /\ fundings \in 0 .. MaxFundings

(***************************************************************************)
(* Replay protection: a transaction is applied at most once in the life of *)
(* its source account, whether submitted alone or inside a fee bump, with  *)
(* a strict or a relaxed (minSeqNum) sequence, failed or not.              *)
(***************************************************************************)
AppliedOnce == [][Applied' => outcome'.env.hash \notin applied]_vars

\* Why: the source's sequence number has passed everything it applied.
SeqCoversApplied ==
  SequenceCheck =>
    \A e \in Envelopes : e.hash \in applied =>
      accounts[e.source] # None /\ accounts[e.source].seqNum >= e.seqNum

(***************************************************************************)
(* The books: the fee an application reports is what its payer, and nobody *)
(* else, is out of pocket, whatever the operation moved between the        *)
(* payer's balance being charged and being refunded.                       *)
(***************************************************************************)
FeeReportedIsFeePaid ==
  [][Applied' =>
       \A a \in Accounts :
         FeesPaid'[a] - FeesPaid[a] =
           IF a = PayerOf(outcome'.env) THEN outcome'.feeCharged ELSE 0]_vars

(***************************************************************************)
(* A fee is never above what its payer bid, nor below what the ledger      *)
(* keeps whatever happens; an operation that failed pays no refundable     *)
(* fee at all.                                                             *)
(***************************************************************************)
FeeWithinBid ==
  (Applied /\ FeeCharging) =>
    LET e == outcome.env
        kept == FeeToCharge(e) - e.resourceFee + e.cost.nonRefundable
    IN  /\ outcome.feeCharged \in kept .. FullFee(e)
        /\ ~outcome.ok => outcome.feeCharged = kept

(***************************************************************************)
(* An application leaves every account it takes from with its reserve: the *)
(* fee, the transfers the operation makes out of what the fee left, or     *)
(* both.                                                                   *)
(***************************************************************************)
ReserveKept ==
  [][Applied' =>
       \A a \in Accounts :
         Balance(a)' < Balance(a) =>
           accounts'[a].balance >= (2 + accounts'[a].numSubEntries) * BASE_RESERVE]_vars

(***************************************************************************)
(* Nothing is applied without the weight it needs: the transaction source  *)
(* at LOW, the operation source at its own threshold, every extra signer,  *)
(* and on a fee bump the fee source at LOW over the bump itself, by the    *)
(* declarative reading of the weights, not by the checker's passes.        *)
(***************************************************************************)
Authorized(e) ==
  /\ HasWeight(e.sigs, e.hash, AccountSigners(e.source, accounts[e.source]),
               accounts[e.source].low)
  /\ HasWeight(e.sigs, e.hash, OpSigners(e), OpNeeds(e))
  /\ \A i \in DOMAIN e.extraSigners : Counts(e.sigs, e.hash, e.extraSigners[i])
  /\ IsBump(e) => HasWeight(e.bumpSigs, e.bumpHash,
                            AccountSigners(e.feeSource, accounts[e.feeSource]),
                            accounts[e.feeSource].low)

AppliedIsAuthorized == [][(Sigverify /\ Applied') => Authorized(outcome'.env)]_vars

(***************************************************************************)
(* A transaction whose operation failed still moves its source's sequence  *)
(* and pays its fee, and does nothing else: no TTL moves, no other account *)
(* changes, no native balance goes anywhere.                               *)
(***************************************************************************)
FailedOnlyPays ==
  [][(Applied' /\ ~outcome'.ok) =>
       /\ entries' = entries
       /\ credits' = credits
       /\ \A a \in Accounts : accounts'[a] # accounts[a] =>
            a \in {outcome'.env.source, PayerOf(outcome'.env)}
       /\ accounts'[outcome'.env.source].seqNum > accounts[outcome'.env.source].seqNum]_vars

(***************************************************************************)
(* The archive: an archived persistent entry changes only by a             *)
(* RestoreFootprint that names it read-write and succeeds, and no entry    *)
(* that lives is left with a shorter life.                                 *)
(***************************************************************************)
ArchiveOpensByRestore ==
  [][\A k \in Keys :
       /\ (IsPersistentKey(k) /\ Archived(entries, ledgerSeq, k) /\ entries'[k] # entries[k]) =>
            /\ Applied' /\ outcome'.ok
            /\ OpKind(outcome'.env) = "restore"
            /\ InReadWrite(outcome'.env, k)
            /\ Live(entries', ledgerSeq', k)
       /\ Live(entries, ledgerSeq, k) => entries'[k] = NoEntry \/ entries'[k] >= entries[k]]_vars
-----------------------------------------------------------------------------
(***************************************************************************)
(* The whole apply path implements the abstract ledger: every application, *)
(* whatever its envelope, signatures and operation, consumes its           *)
(* transaction, and no other call consumes anything or takes a fee.        *)
(***************************************************************************)
Abstract ==
  INSTANCE TxLedger WITH
    Transactions <- Envelopes, Bid <- FullFee, consumed <- applied, feesPaid <- FeesPaid,
    seqNum <- [a \in Accounts |-> IF accounts[a] = None THEN None ELSE accounts[a].seqNum]

ImplementsTxLedger == Abstract!Spec
=============================================================================
