-------------------------- MODULE ClassicTx_proofs --------------------------
(***************************************************************************)
(* Proofs about the classic layer's apply path, for every set of accounts  *)
(* and envelopes and every value of the network's constants.               *)
(***************************************************************************)
EXTENDS ClassicTx, SignatureTheorems

AccountMaps == [Accounts -> AccountEntries \cup {None}]
-----------------------------------------------------------------------------
(***************************************************************************)
(* What passing the validation implies.                                    *)
(***************************************************************************)

\* A problem holds when its condition does, whatever it is reported with.
LEMMA ProblemHolds ==
  ASSUME NEW e, NEW code, NEW P
  PROVE  (Unseeded(code, P).holds <=> P) /\ (Outer(e, code, P).holds <=> P)
         /\ (Inner(e, code, P).holds <=> P)
  BY DEF Unseeded, Outer, Inner

\* A valid envelope has a fee that covers its declared resource fee, and declares one.
LEMMA EnvelopeValid ==
  ASSUME NEW e \in Envelopes, Valid(e)
  PROVE  ~NegativeInclusionFee(e) /\ XdrProvidesValidFee(e)
<1> DEFINE ps == EnvelopeProblems(e)
<1>1. DOMAIN ps = 1 .. 3
  BY DEF EnvelopeProblems
<1>2. ~ps[2].holds /\ ~ps[3].holds
  BY <1>1 DEF Valid, ProblemLists
<1>3. /\ ps[2] = Unseeded("txMALFORMED", ~XdrProvidesValidFee(e))
      /\ ps[3] = Unseeded("txMALFORMED", NegativeInclusionFee(e))
  BY DEF EnvelopeProblems
<1> QED BY <1>2, <1>3, ProblemHolds

\* The fee source of a valid fee bump exists and can cover what it bids.
LEMMA BumpValid ==
  ASSUME NEW e \in Envelopes, Valid(e), IsBump(e)
  PROVE  /\ accounts[e.feeSource] # None
         /\ FeeCharging => ~(AvailableBalance(accounts[e.feeSource]) < e.bumpFee)
<1> DEFINE ps == BumpProblems(e)
<1>1. DOMAIN ps = 1 .. 6
  BY DEF BumpProblems
<1>2. ~ps[3].holds /\ ~ps[5].holds
  BY <1>1 DEF Valid, ProblemLists
<1>3. /\ ps[3] = Outer(e, "txNO_ACCOUNT", ~(accounts[e.feeSource] # None))
      /\ ps[5] = Outer(e, "txINSUFFICIENT_BALANCE",
                       FeeCharging /\ accounts[e.feeSource] # None
                         /\ AvailableBalance(accounts[e.feeSource]) < e.bumpFee)
  BY DEF BumpProblems
<1> QED BY <1>2, <1>3, ProblemHolds

\* What the checks of the inner transaction leave.
LEMMA InnerValid ==
  ASSUME NEW e \in Envelopes, Valid(e)
  PROVE  /\ ~NotOneSorobanOp(e)
         /\ e.sorobanData
         /\ FeeCharging => ~(e.resourceFee < e.cost.nonRefundable + e.cost.refundable)
         /\ accounts[e.source] # None
         /\ SequenceCheck => ~BadSequence(e)
         /\ (~IsBump(e) /\ FeeCharging) => ~(AvailableBalance(accounts[e.source]) < e.fee)
         /\ ~FootprintOpMalformed(e)
<1> DEFINE ps == InnerProblems(e)
           exists == accounts[e.source] # None
<1>1. DOMAIN ps = 1 .. 20
  BY DEF InnerProblems
<1>2. \A i \in {3, 5, 7, 10, 12, 17, 19} : ~ps[i].holds
  BY <1>1 DEF Valid, ProblemLists
<1>3. /\ ps[3] = Inner(e, "txMALFORMED", NotOneSorobanOp(e))
      /\ ps[5] = Inner(e, "txSOROBAN_INVALID", ~e.sorobanData)
      /\ ps[7] = Inner(e, "txSOROBAN_INVALID",
                       FeeCharging /\ e.resourceFee < e.cost.nonRefundable + e.cost.refundable)
      /\ ps[10] = Inner(e, "txNO_ACCOUNT", ~exists)
      /\ ps[12] = Inner(e, "txBAD_SEQ", SequenceCheck /\ exists /\ BadSequence(e))
      /\ ps[17] = Inner(e, "txINSUFFICIENT_BALANCE",
                        ~IsBump(e) /\ FeeCharging /\ exists
                          /\ AvailableBalance(accounts[e.source]) < e.fee)
      /\ ps[19] = Inner(e, "txFAILED", FootprintOpMalformed(e))
  BY DEF InnerProblems
<1>4. ~ps[3].holds /\ ~ps[5].holds /\ ~ps[7].holds /\ ~ps[10].holds /\ ~ps[12].holds
      /\ ~ps[17].holds /\ ~ps[19].holds
  BY <1>2
<1> HIDE DEF ps
<1>5. /\ ~NotOneSorobanOp(e)
      /\ e.sorobanData
      /\ ~(FeeCharging /\ e.resourceFee < e.cost.nonRefundable + e.cost.refundable)
  BY <1>3, <1>4, ProblemHolds
<1>6. /\ exists
      /\ ~(SequenceCheck /\ exists /\ BadSequence(e))
  BY <1>3, <1>4, ProblemHolds
<1>7. /\ ~(~IsBump(e) /\ FeeCharging /\ exists
             /\ AvailableBalance(accounts[e.source]) < e.fee)
      /\ ~FootprintOpMalformed(e)
  BY <1>3, <1>4, ProblemHolds
<1> QED BY <1>5, <1>6, <1>7
-----------------------------------------------------------------------------
(***************************************************************************)
(* Amounts: what is charged lies between the declared resource fee and the *)
(* bid, the refundable part is not negative, and the payer can cover all.  *)
(***************************************************************************)
LEMMA MinInclusionNat == ASSUME NEW n \in Nat PROVE MinInclusion(n) \in Nat
<1>1. MaxOf(1, n) \in Nat
  BY DEF MaxOf
<1>2. BASE_FEE \in Nat
  BY NumbersAssumption
<1>3. \A i, j \in Nat : i * j \in Nat
  OBVIOUS
<1> QED BY <1>1, <1>2, <1>3 DEF MinInclusion

LEMMA Amounts ==
  ASSUME NEW e \in Envelopes, Valid(e)
  PROVE  /\ e.resourceFee \in Nat
         /\ FullFee(e) \in Int
         /\ FeeToCharge(e) \in e.resourceFee .. FullFee(e)
         /\ MaxRefundable(e) \in Int
         /\ FeeCharging => MaxRefundable(e) \in 0 .. e.resourceFee
<1>1. e.fee \in Nat /\ e.bumpFee \in Int /\ e.resourceFee \in Int /\ e.ops \in Seq(OpKinds)
      /\ e.cost.nonRefundable \in Nat /\ e.cost.refundable \in Nat
  BY EnvelopesAssumption
<1>2. ~NotOneSorobanOp(e) /\ e.sorobanData
      /\ (FeeCharging => ~(e.resourceFee < e.cost.nonRefundable + e.cost.refundable))
  BY InnerValid
<1>3. ~NegativeInclusionFee(e) /\ XdrProvidesValidFee(e)
  BY EnvelopeValid
<1>4. e.resourceFee \in Nat /\ DeclaredResourceFee(e) = e.resourceFee
  BY <1>1, <1>2, <1>3 DEF NotOneSorobanOp, XdrProvidesValidFee, DeclaredResourceFee
<1>5. FullFee(e) \in Int /\ FullFee(e) - e.resourceFee >= 0
  BY <1>1, <1>3, <1>4 DEF FullFee, NegativeInclusionFee
<1>6. FeeOps(e) \in Nat
  <2>1. Len(e.ops) \in Nat
    BY <1>1
  <2>2. Len(e.ops) + 1 \in Nat /\ Len(e.ops) + 0 \in Nat
    BY <2>1
  <2> QED BY <2>2 DEF FeeOps
<1>7. MinInclusion(FeeOps(e)) \in Nat
  BY <1>6, MinInclusionNat
<1>8. FeeToCharge(e) \in e.resourceFee .. FullFee(e)
  <2>1. FeeToCharge(e) =
          e.resourceFee + MinOf(FullFee(e) - e.resourceFee, MinInclusion(FeeOps(e)))
    BY <1>4 DEF FeeToCharge
  <2>2. ASSUME NEW full \in Int, NEW fee \in Nat, full - fee >= 0, NEW least \in Nat
        PROVE  fee + MinOf(full - fee, least) \in fee .. full
    BY <2>2 DEF MinOf
  <2> QED BY <1>4, <1>5, <1>7, <2>1, <2>2
<1>9. CASE FeeCharging
  <2>1. MaxRefundable(e) = e.resourceFee - e.cost.nonRefundable
    BY <1>9 DEF MaxRefundable
  <2>2. e.resourceFee >= e.cost.nonRefundable
    BY <1>1, <1>2, <1>9
  <2> QED BY <1>1, <1>4, <1>5, <1>8, <2>1, <2>2
<1>10. CASE ~FeeCharging
  <2>1. MaxRefundable(e) = e.resourceFee - 0
    BY <1>10 DEF MaxRefundable
  <2> QED BY <1>4, <1>5, <1>8, <1>10, <2>1
<1> QED BY <1>9, <1>10

LEMMA Payer ==
  ASSUME NEW e \in Envelopes, Valid(e)
  PROVE  /\ e.source \in Accounts /\ accounts[e.source] # None
         /\ PayerOf(e) \in Accounts /\ accounts[PayerOf(e)] # None
         /\ InvokerOf(e) \in Accounts
         /\ FeeCharging => ~(AvailableBalance(accounts[PayerOf(e)]) < FullFee(e))
<1>1. e.source \in Accounts /\ e.opSource \in Accounts \cup {None}
      /\ e.feeSource \in Accounts \cup {None}
  BY EnvelopesAssumption
<1>2. CASE IsBump(e)
  BY <1>1, <1>2, InnerValid, BumpValid DEF PayerOf, FullFee, IsBump, InvokerOf
<1>3. CASE ~IsBump(e)
  BY <1>1, <1>3, InnerValid DEF PayerOf, FullFee, IsBump, InvokerOf
<1> QED BY <1>2, <1>3
-----------------------------------------------------------------------------
(***************************************************************************)
(* The writes an application is made of.                                   *)
(***************************************************************************)
BalanceIn(accts, a) == IF accts[a] = None THEN 0 ELSE accts[a].balance

\* Two account maps over the same accounts, which agree on what only funding sets.
SameAccounts(before, after) ==
  \A a \in Accounts :
    /\ before[a] = None <=> after[a] = None
    /\ before[a] # None => after[a].numSubEntries = before[a].numSubEntries

LEMMA DebitFacts ==
  ASSUME NEW accts \in AccountMaps, NEW a \in Accounts, accts[a] # None, NEW x \in Int
  PROVE  LET after == Debit(accts, a, x)
         IN  /\ after \in AccountMaps
             /\ SameAccounts(accts, after)
             /\ \A b \in Accounts :
                  /\ b # a => after[b] = accts[b]
                  /\ accts[b] # None => after[b].seqNum = accts[b].seqNum
                  /\ BalanceIn(after, b) = BalanceIn(accts, b) - (IF b = a THEN x ELSE 0)
<1> DEFINE new == [accts[a] EXCEPT !.balance = accts[a].balance - x]
           after == Debit(accts, a, x)
<1>1. accts[a] \in AccountEntries
  BY DEF AccountMaps
<1>2. /\ new \in AccountEntries /\ new.balance = accts[a].balance - x
      /\ new.seqNum = accts[a].seqNum /\ new.numSubEntries = accts[a].numSubEntries
  BY <1>1 DEF AccountEntries
<1>3. new # None
  BY <1>2, AccountsAssumption
<1>4. after = [accts EXCEPT ![a] = new]
  BY DEF Debit, AccountMaps
<1>5. after[a] = new /\ \A b \in Accounts : b # a => after[b] = accts[b]
  BY <1>4 DEF AccountMaps
<1>6. after \in AccountMaps
  BY <1>2, <1>4 DEF AccountMaps
<1>7. \A b \in Accounts : BalanceIn(accts, b) \in Int
  BY DEF AccountMaps, AccountEntries, BalanceIn
<1> HIDE DEF new, after
<1>8. SameAccounts(accts, after)
  BY <1>2, <1>3, <1>5 DEF SameAccounts
<1>9. ASSUME NEW b \in Accounts
      PROVE  /\ accts[b] # None => after[b].seqNum = accts[b].seqNum
             /\ BalanceIn(after, b) = BalanceIn(accts, b) - (IF b = a THEN x ELSE 0)
  <2>1. CASE b = a
    BY <1>2, <1>3, <1>5, <2>1 DEF BalanceIn
  <2>2. CASE b # a
    BY <1>5, <1>7, <2>2 DEF BalanceIn
  <2> QED BY <2>1, <2>2
<1> QED BY <1>5, <1>6, <1>8, <1>9 DEF after

LEMMA BumpSequenceFacts ==
  ASSUME NEW accts \in AccountMaps, NEW a \in Accounts, accts[a] # None, NEW n \in Nat,
         ledgerSeq \in Nat, timestamp \in Nat
  PROVE  LET after == BumpSequence(accts, a, n)
         IN  /\ after \in AccountMaps
             /\ SameAccounts(accts, after)
             /\ after[a].seqNum = n
             /\ \A b \in Accounts :
                  /\ b # a => after[b] = accts[b]
                  /\ BalanceIn(after, b) = BalanceIn(accts, b)
<1> DEFINE new == [accts[a] EXCEPT !.seqNum = n, !.seqLedger = ledgerSeq, !.seqTime = timestamp]
           after == BumpSequence(accts, a, n)
<1>1. accts[a] \in AccountEntries
  BY DEF AccountMaps
<1>2. /\ new \in AccountEntries /\ new.balance = accts[a].balance
      /\ new.seqNum = n /\ new.numSubEntries = accts[a].numSubEntries
  BY <1>1 DEF AccountEntries
<1>3. new # None
  BY <1>2, AccountsAssumption
<1>4. after = [accts EXCEPT ![a] = new]
  BY DEF BumpSequence
<1>5. after[a] = new /\ \A b \in Accounts : b # a => after[b] = accts[b]
  BY <1>4 DEF AccountMaps
<1>6. after \in AccountMaps
  BY <1>2, <1>4 DEF AccountMaps
<1> HIDE DEF new, after
<1>7. SameAccounts(accts, after)
  BY <1>2, <1>3, <1>5 DEF SameAccounts
<1>8. \A b \in Accounts : BalanceIn(after, b) = BalanceIn(accts, b)
  BY <1>2, <1>3, <1>5 DEF BalanceIn
<1> QED BY <1>2, <1>5, <1>6, <1>7, <1>8 DEF after

\* What a transfer adds to an account's balance.
Moved(t, b) ==
  IF t = NoTransfer THEN 0
  ELSE (IF b = t.to THEN t.amount ELSE 0) - (IF b = t.from THEN t.amount ELSE 0)

\* A transfer takes from one account what it gives to another, and touches no
\* sequence number.
LEMMA TransferredFacts ==
  ASSUME NEW accts \in AccountMaps, NEW e \in Envelopes, NEW t \in HostTransfers(e, accts)
  PROVE  LET after == Transferred(accts, t)
         IN  /\ after \in AccountMaps
             /\ SameAccounts(accts, after)
             /\ \A b \in Accounts :
                  /\ accts[b] # None => after[b].seqNum = accts[b].seqNum
                  /\ Moved(t, b) \in Int
                  /\ BalanceIn(after, b) = BalanceIn(accts, b) + Moved(t, b)
                  /\ t = NoTransfer => after = accts
<1>1. CASE t = NoTransfer
  <2>1. \A b \in Accounts : BalanceIn(accts, b) \in Int
    BY DEF AccountMaps, AccountEntries, BalanceIn
  <2> QED BY <1>1, <2>1 DEF Transferred, SameAccounts, Moved
<1>2. CASE t # NoTransfer
  <2> DEFINE paid  == Debit(accts, t.from, t.amount)
             after == Debit(paid, t.to, -t.amount)
  <2>1. t \in e.transfers /\ accts[t.from] # None /\ accts[t.to] # None
    BY <1>2 DEF HostTransfers
  <2>2. t.from \in Accounts /\ t.to \in Accounts /\ t.amount \in Int /\ -t.amount \in Int
    BY <2>1, EnvelopesAssumption
  <2>3. /\ paid \in AccountMaps
        /\ SameAccounts(accts, paid)
        /\ \A b \in Accounts :
             /\ accts[b] # None => paid[b].seqNum = accts[b].seqNum
             /\ BalanceIn(paid, b) = BalanceIn(accts, b) - (IF b = t.from THEN t.amount ELSE 0)
    BY <2>1, <2>2, DebitFacts
  <2>4. paid[t.to] # None
    BY <2>1, <2>2, <2>3 DEF SameAccounts
  <2> HIDE DEF paid
  <2>5. /\ after \in AccountMaps
        /\ SameAccounts(paid, after)
        /\ \A b \in Accounts :
             /\ paid[b] # None => after[b].seqNum = paid[b].seqNum
             /\ BalanceIn(after, b) = BalanceIn(paid, b) - (IF b = t.to THEN -t.amount ELSE 0)
    BY <2>2, <2>3, <2>4, DebitFacts
  <2>6. after = Transferred(accts, t)
    BY <1>2 DEF Transferred, paid
  <2>7. SameAccounts(accts, after)
    BY <2>3, <2>5 DEF SameAccounts
  <2>8. \A b \in Accounts : BalanceIn(accts, b) \in Int
    BY DEF AccountMaps, AccountEntries, BalanceIn
  <2> HIDE DEF after
  <2>9. ASSUME NEW b \in Accounts
        PROVE  /\ accts[b] # None => after[b].seqNum = accts[b].seqNum
               /\ Moved(t, b) \in Int
               /\ BalanceIn(after, b) = BalanceIn(accts, b) + Moved(t, b)
    BY <1>2, <2>2, <2>3, <2>5, <2>8 DEF SameAccounts, Moved
  <2> QED BY <1>2, <2>5, <2>6, <2>7, <2>9
<1> QED BY <1>1, <1>2
-----------------------------------------------------------------------------
(***************************************************************************)
(* An application, step by step: what the ledger has committed before the  *)
(* operation runs, what the operation may have done, and what settling     *)
(* leaves.                                                                 *)
(***************************************************************************)

\* The sequence number moves up, to the transaction's own unless it is not checked.
LEMMA NextSeqNumFacts ==
  ASSUME NEW e \in Envelopes, Valid(e), accounts \in AccountMaps
  PROVE  /\ NextSeqNum(e) \in Nat
         /\ accounts[e.source].seqNum \in Nat
         /\ NextSeqNum(e) > accounts[e.source].seqNum
         /\ SequenceCheck => NextSeqNum(e) = e.seqNum
<1>1. e.seqNum \in Nat /\ e.minSeqNum \in Nat \cup {None}
  BY EnvelopesAssumption
<1>2. accounts[e.source] \in AccountEntries
  BY Payer DEF AccountMaps
<1>3. accounts[e.source].seqNum \in Nat
  BY <1>2 DEF AccountEntries
<1>4. SequenceCheck => e.seqNum > accounts[e.source].seqNum
  BY <1>1, <1>3, InnerValid DEF BadSequence
<1> QED BY <1>1, <1>3, <1>4 DEF NextSeqNum

LEMMA CommittedFacts ==
  ASSUME NEW e \in Envelopes, Valid(e), TypeOK
  PROVE  LET after == Committed(e)
         IN  /\ after \in AccountMaps
             /\ SameAccounts(accounts, after)
             /\ after[e.source].seqNum = NextSeqNum(e)
             /\ \A b \in Accounts :
                  /\ (b # e.source /\ accounts[b] # None) => after[b].seqNum = accounts[b].seqNum
                  /\ b \notin {e.source, PayerOf(e)} => after[b] = accounts[b]
                  /\ BalanceIn(after, b) = BalanceIn(accounts, b)
                       - (IF FeeCharging /\ b = PayerOf(e) THEN FeeToCharge(e) ELSE 0)
<1> DEFINE bumped == BumpSequence(accounts, e.source, NextSeqNum(e))
           after  == Debit(bumped, PayerOf(e), FeeToCharge(e))
<1>1. accounts \in AccountMaps /\ ledgerSeq \in Nat /\ timestamp \in Nat
  BY NumbersAssumption DEF TypeOK, AccountMaps
<1>2. /\ e.source \in Accounts /\ accounts[e.source] # None
      /\ PayerOf(e) \in Accounts /\ accounts[PayerOf(e)] # None
  BY Payer
<1>3. NextSeqNum(e) \in Nat
  BY <1>1, NextSeqNumFacts
<1>4. /\ bumped \in AccountMaps
      /\ SameAccounts(accounts, bumped)
      /\ bumped[e.source].seqNum = NextSeqNum(e)
      /\ \A b \in Accounts :
           /\ b # e.source => bumped[b] = accounts[b]
           /\ BalanceIn(bumped, b) = BalanceIn(accounts, b)
  BY <1>1, <1>2, <1>3, BumpSequenceFacts
<1>5. bumped[PayerOf(e)] # None /\ bumped[e.source] # None
  BY <1>2, <1>4 DEF SameAccounts
<1>6. FeeToCharge(e) \in Int
  BY Amounts
<1>7. \A b \in Accounts : BalanceIn(accounts, b) \in Int
  BY <1>1 DEF AccountMaps, AccountEntries, BalanceIn
<1>8. CASE FeeCharging
  <2>1. Committed(e) = after
    BY <1>8 DEF Committed
  <2> HIDE DEF bumped
  <2>2. /\ after \in AccountMaps
        /\ SameAccounts(bumped, after)
        /\ \A b \in Accounts :
             /\ b # PayerOf(e) => after[b] = bumped[b]
             /\ bumped[b] # None => after[b].seqNum = bumped[b].seqNum
             /\ BalanceIn(after, b) =
                  BalanceIn(bumped, b) - (IF b = PayerOf(e) THEN FeeToCharge(e) ELSE 0)
    BY <1>2, <1>4, <1>5, <1>6, DebitFacts
  <2>3. SameAccounts(accounts, after)
    BY <1>4, <2>2 DEF SameAccounts
  <2> HIDE DEF after
  <2> QED BY <1>2, <1>4, <1>5, <1>8, <2>1, <2>2, <2>3
<1>9. CASE ~FeeCharging
  <2>1. Committed(e) = bumped
    BY <1>9 DEF Committed
  <2> HIDE DEF bumped
  <2> QED BY <1>4, <1>7, <1>9, <2>1
<1> QED BY <1>8, <1>9

\* The TTLs of the entries, in the range the type invariant allows.
TtlMaps == [Keys -> 0 .. ledgerSeq + MaxEntryTtl - 1]

\* MoveTtls makes all its moves, for a rent within the cap, or none of them.
LEMMA MoveTtlsFacts ==
  ASSUME NEW ttls \in TtlMaps, NEW sizes, NEW keys, NEW old,
         NEW new \in 0 .. ledgerSeq + MaxEntryTtl - 1, NEW cap
  PROVE  LET op == MoveTtls(ttls, sizes, ledgerSeq, keys, old, new, cap)
         IN  /\ op.entries \in TtlMaps
             /\ op.result # "success" => op.rent = 0 /\ op.entries = ttls
             /\ (op.result = "success" /\ cap # None) => op.rent \in 0 .. cap
  BY DEF MoveTtls, TtlMaps

LEMMA FootprintFacts ==
  ASSUME NEW e \in Envelopes, Valid(e), TypeOK, OpKind(e) # "invoke", NEW accts,
         NEW sizes
  PROVE  LET r == FootprintResult(e, accts, sizes)
         IN  /\ r.ok \in BOOLEAN
             /\ r.entries \in TtlMaps
             /\ ~r.ok => r.consumed = 0 /\ r.entries = entries
             /\ FeeCharging => r.consumed \in 0 .. MaxRefundable(e)
             /\ r.accounts = accts /\ r.transfer = NoTransfer
<1> DEFINE cap == RefundableCap(e)
           extended == ApplyExtendFootprintTtl(e, entries, sizes, ledgerSeq, cap)
           restored == ApplyRestoreFootprint(e, entries, sizes, ledgerSeq, cap)
           Good(op) == /\ op.entries \in TtlMaps
                       /\ op.result # "success" => op.rent = 0 /\ op.entries = entries
                       /\ (op.result = "success" /\ cap # None) => op.rent \in 0 .. cap
<1>1. entries \in TtlMaps /\ ledgerSeq \in Nat /\ MaxEntryTtl \in Nat \ {0}
      /\ MinPersistentTtl \in Nat \ {0} /\ MinPersistentTtl <= MaxEntryTtl
  BY NumbersAssumption DEF TypeOK, TtlMaps
<1>2. Good(OverLimit(entries))
  BY <1>1 DEF OverLimit
<1>3. OpKind(e) = "extend" => Good(extended)
  <2>1. SUFFICES ASSUME OpKind(e) = "extend"
                 PROVE  Good(extended)
    OBVIOUS
  <2>2. e.extendTo \in Nat /\ ~(e.extendTo > MaxEntryTtl - 1)
    BY <2>1, InnerValid, EnvelopesAssumption DEF FootprintOpMalformed
  <2>3. ledgerSeq + e.extendTo \in 0 .. ledgerSeq + MaxEntryTtl - 1
    BY <1>1, <2>2
  <2>4. Good(MoveTtls(entries, sizes, ledgerSeq, ExtendMoves(e, entries, ledgerSeq), entries,
                      ledgerSeq + e.extendTo, cap))
    BY <1>1, <2>3, MoveTtlsFacts
  <2> QED BY <1>2, <2>4 DEF ApplyExtendFootprintTtl
<1>4. Good(restored)
  <2>1. RestoredLiveUntil(ledgerSeq) \in 0 .. ledgerSeq + MaxEntryTtl - 1
    BY <1>1 DEF RestoredLiveUntil
  <2>2. Good(MoveTtls(entries, sizes, ledgerSeq, RestoreMoves(e, entries, ledgerSeq), NoOldTtl,
                      RestoredLiveUntil(ledgerSeq), cap))
    BY <1>1, <2>1, MoveTtlsFacts
  <2> QED BY <1>2, <2>2 DEF ApplyRestoreFootprint
<1> DEFINE op == IF OpKind(e) = "extend" THEN extended ELSE restored
           r  == FootprintResult(e, accts, sizes)
<1>5. Good(op)
  BY <1>3, <1>4
<1>6. r = [ok |-> op.result = "success", result |-> op.result, consumed |-> op.rent,
           accounts |-> accts, entries |-> op.entries, transfer |-> NoTransfer]
  BY DEF FootprintResult
<1>7. MaxRefundable(e) \in Int /\ (FeeCharging => MaxRefundable(e) \in Nat)
  BY Amounts
<1>8. FeeCharging => cap = MaxRefundable(e) /\ cap # None
  BY <1>7, NumbersAssumption DEF RefundableCap
<1>9. /\ op.entries \in TtlMaps
      /\ op.result # "success" => op.rent = 0 /\ op.entries = entries
      /\ FeeCharging => op.rent \in 0 .. MaxRefundable(e)
  <2> HIDE DEF op, cap
  <2> QED BY <1>5, <1>7, <1>8
<1> HIDE DEF op, cap, r
<1>10. /\ r.ok <=> op.result = "success"
       /\ r.ok \in BOOLEAN
       /\ r.consumed = op.rent /\ r.entries = op.entries
       /\ r.accounts = accts /\ r.transfer = NoTransfer
  BY <1>6
<1> QED BY <1>9, <1>10 DEF r

\* A TTL the host leaves is in range as well.
LEMMA CallTtlsInRange ==
  ASSUME NEW e, NEW k \in Keys, TypeOK, NEW ttl \in CallTtls(e, k, entries, ledgerSeq)
  PROVE  ttl \in 0 .. ledgerSeq + MaxEntryTtl - 1
<1>1. /\ entries[k] \in 0 .. ledgerSeq + MaxEntryTtl - 1
      /\ ledgerSeq \in Nat /\ MaxEntryTtl \in Nat \ {0}
      /\ MinPersistentTtl \in Nat \ {0} /\ MinPersistentTtl <= MaxEntryTtl
      /\ MinTemporaryTtl \in Nat \ {0} /\ MinTemporaryTtl <= MaxEntryTtl
  BY NumbersAssumption DEF TypeOK
<1>2. MaxLiveUntil(ledgerSeq) \in 0 .. ledgerSeq + MaxEntryTtl - 1
  BY <1>1 DEF MaxLiveUntil
<1>3. MinLiveUntil(k, ledgerSeq) \in 0 .. ledgerSeq + MaxEntryTtl - 1
  BY <1>1 DEF MinLiveUntil
<1>4. NoEntry \in 0 .. ledgerSeq + MaxEntryTtl - 1
  BY <1>1 DEF NoEntry
<1>5. ttl \in {entries[k], NoEntry} \cup entries[k] .. MaxLiveUntil(ledgerSeq)
               \cup MinLiveUntil(k, ledgerSeq) .. MaxLiveUntil(ledgerSeq)
  BY DEF CallTtls
<1> QED BY <1>1, <1>2, <1>3, <1>4, <1>5

\* What every operation leaves: a failure changes nothing and consumes nothing, a
\* success consumes no more than was refundable.
ResultOK(e, r) ==
  /\ r.ok \in BOOLEAN
  /\ r.entries \in TtlMaps
  /\ ~r.ok => r.consumed = 0 /\ r.entries = entries /\ r.transfer = NoTransfer
  /\ FeeCharging => r.consumed \in 0 .. MaxRefundable(e)
  /\ r.transfer \in HostTransfers(e, Committed(e))
  /\ r.accounts = Transferred(Committed(e), r.transfer)

LEMMA ResultFacts ==
  ASSUME NEW e \in Envelopes, Valid(e), TypeOK, NEW r \in OpResults(e, Committed(e))
  PROVE  ResultOK(e, r)
<1> DEFINE accts == Committed(e)
<1>1. MaxRefundable(e) \in Int /\ (FeeCharging => 0 \in 0 .. MaxRefundable(e))
  BY Amounts
<1>2. NoTransfer \in HostTransfers(e, accts) /\ Transferred(accts, NoTransfer) = accts
  BY DEF HostTransfers, Transferred
<1>3. entries \in TtlMaps
  BY DEF TypeOK, TtlMaps
<1> HIDE DEF accts
<1>4. \A code : ResultOK(e, Failed(code, accts))
  <2> TAKE code
  <2>1. /\ Failed(code, accts).ok = FALSE /\ Failed(code, accts).consumed = 0
        /\ Failed(code, accts).accounts = accts /\ Failed(code, accts).entries = entries
        /\ Failed(code, accts).transfer = NoTransfer
    BY DEF Failed
  <2> QED BY <1>1, <1>2, <1>3, <2>1 DEF ResultOK, accts
<1>5. CASE accounts[InvokerOf(e)] = None
  <2>1. r = Failed("opNO_ACCOUNT", accts)
    BY <1>5 DEF OpResults, accts
  <2> QED BY <1>4, <2>1
<1>6. CASE accounts[InvokerOf(e)] # None /\ OpKind(e) # "invoke"
  <2>1. PICK sizes \in [Keys -> Sizes] : r = FootprintResult(e, accts, sizes)
    BY <1>6 DEF OpResults, accts
  <2> QED BY <1>2, <1>6, <2>1, FootprintFacts DEF ResultOK, accts
<1>7. CASE accounts[InvokerOf(e)] # None /\ OpKind(e) = "invoke"
  <2>1. r \in HostResults(e, accts)
    BY <1>7 DEF OpResults, accts
  <2>2. CASE r = Failed("hostFailed", accts)
    BY <1>4, <2>2
  <2>3. CASE r # Failed("hostFailed", accts)
    <3>1. /\ r \in HostSuccesses(e, accts)
          /\ FeeCharging => r.consumed \in 0 .. MaxRefundable(e)
      BY <2>1, <2>3 DEF HostResults
    <3>2. PICK call \in CallOutcomes(e, entries, ledgerSeq), events \in EventFees,
               t \in HostTransfers(e, accts) :
            r = [ok |-> TRUE, result |-> "success", consumed |-> call.rent + events,
                 accounts |-> Transferred(accts, t), entries |-> call.entries, transfer |-> t]
      BY <3>1 DEF HostSuccesses
    <3> DEFINE after == call.entries
    <3>3. after \in TtlMaps
      <4> after \in CallEntries(e, entries, ledgerSeq)
        BY DEF CallOutcomes
      <4>1. \A k \in Keys : after[k] \in CallTtls(e, k, entries, ledgerSeq)
        BY DEF CallEntries
      <4>2. \A k \in Keys : after[k] \in 0 .. ledgerSeq + MaxEntryTtl - 1
        BY <4>1, CallTtlsInRange
      <4> QED BY <4>2 DEF CallEntries, TtlMaps
    <3>4. /\ r.ok = TRUE /\ r.accounts = Transferred(accts, t) /\ r.entries = after
          /\ r.transfer = t
      BY <3>2
    <3> QED BY <3>1, <3>3, <3>4 DEF ResultOK, accts
  <2> QED BY <2>2, <2>3
<1> QED BY <1>5, <1>6, <1>7

\* What an application leaves, all its writes made: the source's sequence number
\* moved, the payer down by the fee reported, and whatever was transferred.
LEMMA SettledFacts ==
  ASSUME NEW e \in Envelopes, Valid(e), TypeOK, NEW r \in OpResults(e, Committed(e))
  PROVE  LET after == Settled(e, r)
             fee   == Application(e, r).feeCharged
         IN  /\ after \in AccountMaps
             /\ SameAccounts(accounts, after)
             /\ after[e.source].seqNum = NextSeqNum(e)
             /\ fee \in Int
             /\ \A b \in Accounts :
                  /\ (b # e.source /\ accounts[b] # None) => after[b].seqNum = accounts[b].seqNum
                  /\ (r.transfer = NoTransfer /\ b \notin {e.source, PayerOf(e)}) =>
                       after[b] = accounts[b]
                  /\ Moved(r.transfer, b) \in Int
                  /\ BalanceIn(after, b) = BalanceIn(accounts, b) + Moved(r.transfer, b)
                       - (IF b = PayerOf(e) THEN fee ELSE 0)
<1> DEFINE taken == Committed(e)
           done  == Transferred(taken, r.transfer)
           after == Settled(e, r)
           fee   == Application(e, r).feeCharged
           refund == Refund(e, r)
<1>1. ResultOK(e, r)
  BY ResultFacts
<1>2. /\ taken \in AccountMaps
      /\ SameAccounts(accounts, taken)
      /\ taken[e.source].seqNum = NextSeqNum(e)
      /\ \A b \in Accounts :
           /\ (b # e.source /\ accounts[b] # None) => taken[b].seqNum = accounts[b].seqNum
           /\ b \notin {e.source, PayerOf(e)} => taken[b] = accounts[b]
           /\ BalanceIn(taken, b) = BalanceIn(accounts, b)
                - (IF FeeCharging /\ b = PayerOf(e) THEN FeeToCharge(e) ELSE 0)
  BY CommittedFacts
<1>3. r.accounts = done /\ r.transfer \in HostTransfers(e, taken)
  BY <1>1 DEF ResultOK
<1> HIDE DEF taken
<1>4. /\ done \in AccountMaps
      /\ SameAccounts(taken, done)
      /\ \A b \in Accounts :
           /\ taken[b] # None => done[b].seqNum = taken[b].seqNum
           /\ Moved(r.transfer, b) \in Int
           /\ BalanceIn(done, b) = BalanceIn(taken, b) + Moved(r.transfer, b)
           /\ r.transfer = NoTransfer => done = taken
  BY <1>2, <1>3, TransferredFacts
<1> HIDE DEF done
<1>5. /\ e.source \in Accounts /\ accounts[e.source] # None
      /\ PayerOf(e) \in Accounts /\ accounts[PayerOf(e)] # None
  BY Payer
<1>6. done[PayerOf(e)] # None /\ taken[e.source] # None
  BY <1>2, <1>4, <1>5 DEF SameAccounts
<1>7. /\ FeeToCharge(e) \in Int
      /\ FeeCharging => refund \in Nat
  BY <1>1, Amounts DEF ResultOK, Refund
<1>8. fee = IF FeeCharging THEN FeeToCharge(e) - refund ELSE 0
  BY DEF Application
<1>9. SameAccounts(accounts, done)
  BY <1>2, <1>4 DEF SameAccounts
<1>10. \A b \in Accounts : BalanceIn(accounts, b) \in Int
  BY DEF TypeOK, AccountEntries, BalanceIn
<1>11. CASE FeeCharging /\ refund > 0
  <2>1. after = Debit(done, PayerOf(e), -refund)
    BY <1>3, <1>11 DEF Settled
  <2>2. -refund \in Int
    BY <1>7, <1>11
  <2> HIDE DEF refund
  <2>3. /\ after \in AccountMaps
        /\ SameAccounts(done, after)
        /\ \A b \in Accounts :
             /\ b # PayerOf(e) => after[b] = done[b]
             /\ done[b] # None => after[b].seqNum = done[b].seqNum
             /\ BalanceIn(after, b) = BalanceIn(done, b) - (IF b = PayerOf(e) THEN -refund ELSE 0)
    BY <1>4, <1>5, <1>6, <2>1, <2>2, DebitFacts
  <2>4. SameAccounts(accounts, after)
    BY <1>9, <2>3 DEF SameAccounts
  <2> HIDE DEF after, fee
  <2>5. ASSUME NEW b \in Accounts
        PROVE  BalanceIn(after, b) = BalanceIn(accounts, b) + Moved(r.transfer, b)
                 - (IF b = PayerOf(e) THEN fee ELSE 0)
    BY <1>2, <1>4, <1>7, <1>8, <1>10, <1>11, <2>3
  <2>6. ASSUME NEW b \in Accounts
        PROVE  /\ accounts[b] # None => after[b].seqNum = taken[b].seqNum
               /\ (r.transfer = NoTransfer /\ b \notin {e.source, PayerOf(e)}) =>
                    after[b] = accounts[b]
    BY <1>2, <1>4, <1>9, <2>3 DEF SameAccounts
  <2>7. fee \in Int
    BY <1>7, <1>8
  <2> QED BY <1>2, <1>4, <1>5, <2>3, <2>4, <2>5, <2>6, <2>7 DEF after, fee
<1>12. CASE ~(FeeCharging /\ refund > 0)
  <2>1. after = done
    BY <1>3, <1>12 DEF Settled
  <2> HIDE DEF after, fee, refund
  <2>2. fee \in Int /\ fee = IF FeeCharging THEN FeeToCharge(e) ELSE 0
    BY <1>7, <1>8, <1>12
  <2>3. ASSUME NEW b \in Accounts
        PROVE  BalanceIn(after, b) = BalanceIn(accounts, b) + Moved(r.transfer, b)
                 - (IF b = PayerOf(e) THEN fee ELSE 0)
    BY <1>2, <1>4, <1>7, <1>10, <2>1, <2>2
  <2>4. ASSUME NEW b \in Accounts
        PROVE  /\ accounts[b] # None => after[b].seqNum = taken[b].seqNum
               /\ (r.transfer = NoTransfer /\ b \notin {e.source, PayerOf(e)}) =>
                    after[b] = accounts[b]
    BY <1>2, <1>4, <1>9, <2>1 DEF SameAccounts
  <2> QED BY <1>2, <1>4, <1>5, <1>9, <2>1, <2>2, <2>3, <2>4 DEF after, fee
<1> QED BY <1>11, <1>12

\* The step an application takes, in terms of what it changes: t is the transfer
\* its operation made.
ApplyEffect(e, t) ==
  /\ accounts' \in AccountMaps
  /\ SameAccounts(accounts, accounts')
  /\ accounts'[e.source].seqNum = NextSeqNum(e)
  /\ entries' \in TtlMaps
  /\ outcome'.env = e /\ outcome'.applied = TRUE /\ outcome'.ok \in BOOLEAN
  /\ outcome'.feeCharged \in Int
  /\ ~outcome'.ok => entries' = entries /\ t = NoTransfer
  /\ credits' = Received(credits, t)
  /\ t \in HostTransfers(e, Committed(e))
  /\ \A b \in Accounts :
       /\ (b # e.source /\ accounts[b] # None) => accounts'[b].seqNum = accounts[b].seqNum
       /\ (t = NoTransfer /\ b \notin {e.source, PayerOf(e)}) => accounts'[b] = accounts[b]
       /\ Moved(t, b) \in Int
       /\ BalanceIn(accounts', b) = BalanceIn(accounts, b) + Moved(t, b)
            - (IF b = PayerOf(e) THEN outcome'.feeCharged ELSE 0)

\* The fee an application reports, between what the ledger keeps and the bid.
FeeBounds(e) ==
  IF FeeCharging
  THEN LET kept == FeeToCharge(e) - e.resourceFee + e.cost.nonRefundable
       IN  /\ outcome'.feeCharged \in kept .. FullFee(e)
           /\ outcome'.feeCharged \in 0 .. FeeToCharge(e)
           /\ ~outcome'.ok => outcome'.feeCharged = kept
  ELSE outcome'.feeCharged = 0

LEMMA ApplyFacts ==
  ASSUME NEW e \in Envelopes, ApplyEffects(e), TypeOK
  PROVE  Valid(e) /\ FeeBounds(e) /\ \E t : ApplyEffect(e, t)
<1>1. Valid(e)
  BY DEF ApplyEffects
<1>2. PICK r \in OpResults(e, Committed(e)) :
        /\ accounts' = Settled(e, r)
        /\ entries' = r.entries
        /\ outcome' = Application(e, r)
        /\ credits' = Received(credits, r.transfer)
  BY DEF ApplyEffects
<1>3. ResultOK(e, r)
  BY <1>1, ResultFacts
<1> DEFINE fee == Application(e, r).feeCharged
<1>4. /\ outcome'.env = e /\ outcome'.applied = TRUE /\ outcome'.ok = r.ok
      /\ outcome'.feeCharged = fee
      /\ fee = IF FeeCharging THEN FeeToCharge(e) - Refund(e, r) ELSE 0
  BY <1>2 DEF Application
<1>5. ApplyEffect(e, r.transfer)
  <2> HIDE DEF fee
  <2>1. /\ entries' \in TtlMaps /\ outcome'.ok \in BOOLEAN
        /\ ~outcome'.ok => entries' = entries /\ r.transfer = NoTransfer
        /\ r.transfer \in HostTransfers(e, Committed(e))
    BY <1>2, <1>3, <1>4 DEF ResultOK
  <2>2. /\ Settled(e, r) \in AccountMaps
        /\ SameAccounts(accounts, Settled(e, r))
        /\ Settled(e, r)[e.source].seqNum = NextSeqNum(e)
        /\ fee \in Int
        /\ \A b \in Accounts :
             /\ (b # e.source /\ accounts[b] # None) =>
                  Settled(e, r)[b].seqNum = accounts[b].seqNum
             /\ (r.transfer = NoTransfer /\ b \notin {e.source, PayerOf(e)}) =>
                  Settled(e, r)[b] = accounts[b]
             /\ Moved(r.transfer, b) \in Int
             /\ BalanceIn(Settled(e, r), b) = BalanceIn(accounts, b) + Moved(r.transfer, b)
                  - (IF b = PayerOf(e) THEN fee ELSE 0)
    BY <1>1, SettledFacts DEF fee
  <2> QED BY <1>2, <1>4, <2>1, <2>2 DEF ApplyEffect
<1>6. FeeBounds(e)
  <2> HIDE DEF fee
  <2>1. CASE ~FeeCharging
    BY <1>4, <2>1 DEF FeeBounds
  <2>2. CASE FeeCharging
    <3>1. /\ r.consumed \in 0 .. MaxRefundable(e)
          /\ ~r.ok => r.consumed = 0
      BY <1>3, <2>2 DEF ResultOK
    <3>2. /\ MaxRefundable(e) = e.resourceFee - e.cost.nonRefundable
          /\ fee = FeeToCharge(e) - (MaxRefundable(e) - r.consumed)
      BY <1>4, <2>2 DEF MaxRefundable, Refund
    <3>3. /\ e.resourceFee \in Nat /\ e.cost.nonRefundable \in Nat /\ FullFee(e) \in Int
          /\ FeeToCharge(e) \in e.resourceFee .. FullFee(e)
          /\ MaxRefundable(e) \in 0 .. e.resourceFee
      BY <1>1, <2>2, Amounts, EnvelopesAssumption
    <3>4. fee \in 0 .. FeeToCharge(e)
      BY <3>1, <3>2, <3>3
    <3>5. fee = FeeToCharge(e) - e.resourceFee + e.cost.nonRefundable + r.consumed
      BY <3>1, <3>2, <3>3
    <3> QED BY <1>4, <2>2, <3>1, <3>3, <3>4, <3>5 DEF FeeBounds
  <2> QED BY <2>1, <2>2
<1> QED BY <1>1, <1>5, <1>6

\* An application leaves an outcome behind.
LEMMA OutcomeIsSome ==
  ASSUME NEW e \in Envelopes, Valid(e), TypeOK, NEW r \in OpResults(e, Committed(e))
  PROVE  Application(e, r) # None
<1>1. r.ok \in BOOLEAN
  BY ResultFacts DEF ResultOK
<1>2. Application(e, r).feeCharged \in Int
  BY SettledFacts
<1>3. r.result \in OperationResults
  <2>1. /\ Failed("hostFailed", Committed(e)).result \in OperationResults
        /\ Failed("opNO_ACCOUNT", Committed(e)).result \in OperationResults
    BY DEF Failed, OperationResults
  <2>2. ASSUME NEW sizes PROVE FootprintResult(e, Committed(e), sizes).result \in OperationResults
    <3>1. \A keys, old, new :
            MoveTtls(entries, sizes, ledgerSeq, keys, old, new, RefundableCap(e)).result
              \in OperationResults
      BY DEF MoveTtls, OperationResults
    <3>2. OverLimit(entries).result \in OperationResults
      BY DEF OverLimit, OperationResults
    <3>3. /\ ApplyExtendFootprintTtl(e, entries, sizes, ledgerSeq, RefundableCap(e)).result
              \in OperationResults
          /\ ApplyRestoreFootprint(e, entries, sizes, ledgerSeq, RefundableCap(e)).result
              \in OperationResults
      BY <3>1, <3>2 DEF ApplyExtendFootprintTtl, ApplyRestoreFootprint
    <3> QED BY <3>3 DEF FootprintResult
  <2>3. \A result \in HostSuccesses(e, Committed(e)) : result.result \in OperationResults
    BY DEF HostSuccesses, OperationResults
  <2>4. r \in HostResults(e, Committed(e)) => r.result \in OperationResults
    BY <2>1, <2>3 DEF HostResults
  <2> QED BY <2>1, <2>2, <2>4 DEF OpResults
<1>4. Application(e, r) \in Outcomes
  <2>1. /\ Application(e, r).code \in Codes /\ Application(e, r).innerCode \in Codes
        /\ Application(e, r).result \in OperationResults
    BY <1>3 DEF Application, Codes
  <2> QED BY <1>1, <1>2, <2>1 DEF Application, Outcomes
<1> QED BY <1>4, AccountsAssumption

\* What an application adds to its credits is what its transfer moved.
LEMMA ReceivedFacts ==
  ASSUME NEW e \in Envelopes, NEW accts, NEW t \in HostTransfers(e, accts),
         credits \in [Accounts -> Int]
  PROVE  /\ Received(credits, t) \in [Accounts -> Int]
         /\ \A b \in Accounts : Received(credits, t)[b] = credits[b] + Moved(t, b)
<1>1. CASE t = NoTransfer
  BY <1>1 DEF Received, Moved
<1>2. CASE t # NoTransfer
  <2>1. t \in e.transfers
    BY <1>2 DEF HostTransfers
  <2>2. t.from \in Accounts /\ t.to \in Accounts /\ t.amount \in Int
    BY <2>1, EnvelopesAssumption
  <2>3. Received(credits, t) = [credits EXCEPT ![t.from] = @ - t.amount, ![t.to] = @ + t.amount]
    BY <1>2 DEF Received
  <2> QED BY <1>2, <2>2, <2>3 DEF Moved
<1> QED BY <1>1, <1>2
-----------------------------------------------------------------------------
(***************************************************************************)
(* Type correctness: in every reachable state the accounts, the TTLs and   *)
(* the clock have their types, and no entry is live for longer than        *)
(* maxEntryTtl ledgers.                                                    *)
(***************************************************************************)
THEOREM TypeCorrect == Spec => []TypeOK
<1>1. Init => TypeOK
  <2>1. FirstLedger \in Nat /\ Timestamps \subseteq Nat /\ MaxFundings \in Nat
        /\ InitialEntries \in [Keys -> 0 .. FirstLedger + MaxEntryTtl - 1]
        /\ FirstLedger <= MaxLedger /\ MaxLedger \in Nat
    BY NumbersAssumption
  <2> SUFFICES ASSUME Init
               PROVE  TypeOK
    OBVIOUS
  <2>2. ledgerSeq \in Nat /\ ledgerSeq >= FirstLedger /\ timestamp \in Nat
        /\ entries \in [Keys -> 0 .. ledgerSeq + MaxEntryTtl - 1]
    BY <2>1 DEF Init
  <2> QED BY <2>1, <2>2 DEF Init, TypeOK
<1>2. TypeOK /\ [Next]_vars => TypeOK'
  <2> SUFFICES ASSUME TypeOK, [Next]_vars
               PROVE  TypeOK'
    OBVIOUS
  <2>1. ASSUME NEW e \in Envelopes, Reject(e)
        PROVE  TypeOK'
    <3>1. outcome'.env = e /\ outcome'.applied = FALSE
      BY <2>1 DEF Reject, Rejection, Rejected
    <3> QED BY <2>1, <3>1 DEF Reject, TypeOK
  <2>2. ASSUME NEW e \in Envelopes, Apply(e)
        PROVE  TypeOK'
    <3>1. PICK t : ApplyEffect(e, t)
      BY <2>2, ApplyFacts DEF Apply
    <3>2. credits' \in [Accounts -> Int]
      BY <3>1, ReceivedFacts DEF ApplyEffect, TypeOK
    <3>3. /\ applied' = applied \cup {e.hash}
          /\ ledgerSeq' = ledgerSeq /\ timestamp' = timestamp /\ fundings' = fundings
      BY <2>2 DEF Apply, ApplyEffects
    <3>4. /\ accounts' \in [Accounts -> AccountEntries \cup {None}]
          /\ entries' \in [Keys -> 0 .. ledgerSeq' + MaxEntryTtl - 1]
          /\ outcome'.env \in Envelopes /\ outcome'.applied \in BOOLEAN
      BY <3>1, <3>3 DEF ApplyEffect, AccountMaps, TtlMaps
    <3> QED BY <3>2, <3>3, <3>4 DEF TypeOK
  <2>3. ASSUME NEW a \in Accounts, NEW acct \in FundedAccounts, Fund(a, acct)
        PROVE  TypeOK'
    <3>1. acct \in AccountEntries /\ acct.balance \in Int
      BY AccountsAssumption DEF AccountEntries
    <3>2. MaxFundings \in Nat
      BY NumbersAssumption
    <3> QED BY <2>3, <3>1, <3>2 DEF Fund, TypeOK
  <2>4. ASSUME NEW n \in 1 .. MaxLedger, AdvanceLedgers(n)
        PROVE  TypeOK'
    <3>1. MaxLedger \in Nat /\ FirstLedger \in Nat /\ MaxEntryTtl \in Nat /\ CLOSE_TIME \in Nat
      BY NumbersAssumption
    <3>2. n \in Nat /\ CLOSE_TIME * n \in Nat
      BY <3>1
    <3>3. ledgerSeq' \in Nat /\ ledgerSeq' >= FirstLedger /\ timestamp' \in Nat
      BY <2>4, <3>1, <3>2 DEF AdvanceLedgers, TypeOK
    <3>4. entries' \in [Keys -> 0 .. ledgerSeq' + MaxEntryTtl - 1]
      BY <2>4, <3>1, <3>2 DEF AdvanceLedgers, TypeOK
    <3> QED BY <2>4, <3>3, <3>4 DEF AdvanceLedgers, TypeOK
  <2>5. ASSUME NEW t \in Timestamps, SetTimestamp(t)
        PROVE  TypeOK'
    BY <2>5, NumbersAssumption DEF SetTimestamp, TypeOK
  <2>6. CASE UNCHANGED vars
    BY <2>6 DEF vars, TypeOK
  <2> QED BY <2>1, <2>2, <2>3, <2>4, <2>5, <2>6 DEF Next
<1> QED BY <1>1, <1>2, PTL DEF Spec
-----------------------------------------------------------------------------
(***************************************************************************)
(* Replay protection.  Alone, that no transaction is applied twice is not  *)
(* inductive: what makes it so is that an account's sequence number has    *)
(* passed everything its account applied (SeqCoversApplied), which a       *)
(* funding keeps by forgetting what the account applied before.            *)
(***************************************************************************)
\* One step of it, for the two calls that apply or forget.
LEMMA ApplyKeepsCover ==
  ASSUME TypeOK, SeqCoversApplied, NEW e \in Envelopes, ApplyEffects(e)
  PROVE  SeqCoversApplied'
<1> SUFFICES ASSUME SequenceCheck, NEW f \in Envelopes, f.hash \in applied'
             PROVE  accounts'[f.source] # None /\ accounts'[f.source].seqNum >= f.seqNum
  BY DEF SeqCoversApplied
<1>1. f.source \in Accounts /\ f.seqNum \in Nat
  BY EnvelopesAssumption
<1>2. f.hash \in applied =>
        /\ accounts[f.source] # None /\ accounts[f.source].seqNum >= f.seqNum
        /\ accounts[f.source].seqNum \in Nat
  BY <1>1 DEF SeqCoversApplied, TypeOK, AccountEntries
<1>3. PICK t : ApplyEffect(e, t)
  BY ApplyFacts
<1>4. applied' = applied \cup {e.hash} /\ Valid(e)
  BY DEF ApplyEffects
<1>5. /\ NextSeqNum(e) \in Nat /\ accounts[e.source].seqNum \in Nat
      /\ NextSeqNum(e) > accounts[e.source].seqNum
      /\ NextSeqNum(e) = e.seqNum
  BY <1>4, NextSeqNumFacts DEF TypeOK, AccountMaps
<1>6. accounts[e.source] # None /\ e.source \in Accounts
  BY <1>4, Payer
<1>7. CASE f.hash = e.hash
  <2>1. f.source = e.source /\ f.seqNum = e.seqNum
    BY <1>7, HashAssumption
  <2> QED BY <1>3, <1>5, <1>6, <2>1 DEF ApplyEffect, SameAccounts
<1>8. CASE f.hash # e.hash
  <2>1. f.hash \in applied
    BY <1>4, <1>8
  <2>2. CASE f.source = e.source
    BY <1>1, <1>2, <1>3, <1>5, <2>1, <2>2 DEF ApplyEffect, SameAccounts
  <2>3. CASE f.source # e.source
    BY <1>1, <1>2, <1>3, <2>1, <2>3 DEF ApplyEffect, SameAccounts
  <2> QED BY <2>2, <2>3
<1> QED BY <1>7, <1>8

LEMMA FundKeepsCover ==
  ASSUME TypeOK, SeqCoversApplied,
         NEW a \in Accounts, NEW acct \in FundedAccounts, Fund(a, acct)
  PROVE  SeqCoversApplied'
<1> SUFFICES ASSUME SequenceCheck, NEW f \in Envelopes, f.hash \in applied'
             PROVE  accounts'[f.source] # None /\ accounts'[f.source].seqNum >= f.seqNum
  BY DEF SeqCoversApplied
<1>1. f.hash \in applied /\ f.source # a
  BY DEF Fund
<1>2. accounts[f.source] # None /\ accounts[f.source].seqNum >= f.seqNum
  BY <1>1 DEF SeqCoversApplied
<1>3. accounts'[f.source] = accounts[f.source]
  BY <1>1, EnvelopesAssumption DEF Fund, TypeOK
<1> QED BY <1>2, <1>3

LEMMA SeqCoversAppliedInductive ==
  ASSUME TypeOK, SeqCoversApplied, [Next]_vars
  PROVE  SeqCoversApplied'
<1>1. CASE \E e \in Envelopes : ApplyEffects(e)
  BY <1>1, ApplyKeepsCover
<1>2. CASE \E a \in Accounts, acct \in FundedAccounts : Fund(a, acct)
  BY <1>2, FundKeepsCover
<1>3. CASE UNCHANGED <<accounts, applied>>
  BY <1>3 DEF SeqCoversApplied
<1> QED BY <1>1, <1>2, <1>3 DEF Next, vars, Apply, Reject, AdvanceLedgers, SetTimestamp

(***************************************************************************)
(* In every reachable state a source's sequence number is at least that of *)
(* every transaction it applied since it was funded.                       *)
(***************************************************************************)
THEOREM SequenceCovers == Spec => []SeqCoversApplied
<1>1. Init => SeqCoversApplied
  BY DEF Init, SeqCoversApplied
<1>2. TypeOK /\ SeqCoversApplied /\ [Next]_vars => SeqCoversApplied'
  BY SeqCoversAppliedInductive
<1> QED BY <1>1, <1>2, TypeCorrect, PTL DEF Spec

\* A step that applies something applies its envelope.
LEMMA AppliedByApply ==
  ASSUME [Next]_vars, Applied', ~UNCHANGED vars
  PROVE  ApplyEffects(outcome'.env) /\ outcome'.env \in Envelopes
<1>1. \A e : Reject(e) => outcome'.applied = FALSE
  BY DEF Reject, Rejection, Rejected
<1>2. \A e : ApplyEffects(e) => outcome'.env = e
  BY DEF ApplyEffects, Application
<1> QED BY <1>1, <1>2 DEF Next, Apply, Applied, Fund, AdvanceLedgers, SetTimestamp

\* What is applied is new, and beyond its source's sequence number.
LEMMA ApplyIsFresh ==
  ASSUME SequenceCheck, TypeOK, SeqCoversApplied, NEW e \in Envelopes, ApplyEffects(e)
  PROVE  /\ e.hash \notin applied
         /\ e.source \in Accounts /\ accounts[e.source] # None
         /\ NextSeqNum(e) = e.seqNum /\ accounts[e.source].seqNum < e.seqNum
<1>1. Valid(e)
  BY DEF ApplyEffects
<1>2. accounts[e.source] # None /\ e.source \in Accounts
  BY <1>1, Payer
<1>3. /\ NextSeqNum(e) = e.seqNum /\ NextSeqNum(e) > accounts[e.source].seqNum
      /\ accounts[e.source].seqNum \in Nat /\ e.seqNum \in Nat
  BY <1>1, NextSeqNumFacts, EnvelopesAssumption DEF TypeOK, AccountMaps
<1>4. e.hash \in applied => accounts[e.source].seqNum >= e.seqNum
  BY DEF SeqCoversApplied
<1> QED BY <1>2, <1>3, <1>4

(***************************************************************************)
(* No transaction is applied twice in the life of its source account, as   *)
(* long as sequence numbers are checked.                                   *)
(***************************************************************************)
THEOREM ReplayProtection ==
  ASSUME SequenceCheck
  PROVE  Spec => AppliedOnce
<1>1. TypeOK /\ SeqCoversApplied /\ [Next]_vars =>
        [Applied' => outcome'.env.hash \notin applied]_vars
  <2> SUFFICES ASSUME TypeOK, SeqCoversApplied, [Next]_vars, Applied', ~UNCHANGED vars,
                      outcome'.env.hash \in applied
               PROVE  FALSE
    OBVIOUS
  <2>1. ApplyEffects(outcome'.env) /\ outcome'.env \in Envelopes
    BY AppliedByApply
  <2> QED BY <2>1, ApplyIsFresh
<1> QED BY <1>1, TypeCorrect, SequenceCovers, PTL DEF Spec, AppliedOnce
-----------------------------------------------------------------------------
(***************************************************************************)
(* Authorization.                                                          *)
(***************************************************************************)

\* The signers of an account are a list of the master key and the others.
LEMMA AccountSignersFacts ==
  ASSUME NEW a, NEW acct \in AccountEntries
  PROVE  AreSigners(AccountSigners(a, acct)) /\ acct.low \in Nat /\ acct.medium \in Nat
<1>1. /\ acct.master \in 0 .. 255 /\ acct.low \in 0 .. 255 /\ acct.medium \in 0 .. 255
      /\ AreSigners(acct.signers)
  BY AccountsAssumption DEF AccountEntries
<1> DEFINE own == [key |-> Ed25519(a), weight |-> acct.master]
           others == acct.signers
           all == AccountSigners(a, acct)
<1>2. AreSigners(others)
  BY <1>1
<1>3. /\ others \in Seq(ToSet(others)) /\ Len(others) \in Nat /\ DOMAIN others = 1 .. Len(others)
      /\ \A j \in DOMAIN others : others[j].weight \in Nat
  BY <1>2, ListDomain DEF AreSigners, IsList
<1>4. CASE acct.master = 0
  <2>1. all = <<>> \o others
    BY <1>4 DEF AccountSigners
  <2>2. <<>> \o others = others
    BY <1>3
  <2> QED BY <1>1, <2>1, <2>2
<1>5. CASE acct.master # 0
  <2>1. all = <<own>> \o others
    BY <1>5 DEF AccountSigners
  <2>2. own.weight \in Nat
    BY <1>1
  <2> HIDE DEF own, others, all
  <2> DEFINE X == ToSet(others) \cup {own}
  <2>3. others \in Seq(X) /\ <<own>> \in Seq(X) /\ Len(<<own>>) = 1 /\ <<own>>[1] = own
    BY <1>3
  <2> HIDE DEF X
  <2>4. /\ all \in Seq(X) /\ Len(all) = 1 + Len(others) /\ DOMAIN all = 1 .. Len(all)
        /\ all[1] = own /\ \A j \in 2 .. Len(all) : all[j] = others[j - 1]
    BY <1>3, <2>1, <2>3
  <2>5. \A j \in DOMAIN all : all[j].weight \in Nat
    <3> SUFFICES ASSUME NEW j \in DOMAIN all PROVE all[j].weight \in Nat
      OBVIOUS
    <3>1. CASE j = 1
      BY <2>2, <2>4, <3>1
    <3>2. CASE j # 1
      <4>1. j \in 2 .. Len(all) /\ j - 1 \in DOMAIN others
        BY <1>3, <2>4, <3>2
      <4> QED BY <1>3, <2>4, <4>1
    <3> QED BY <3>1, <3>2
  <2>6. IsList(all)
    <3>1. all = [j \in 1 .. Len(all) |-> all[j]] /\ Len(all) \in Nat
      BY <2>4, <1>3
    <3>2. \A j \in 1 .. Len(all) : all[j] \in ToSet(all)
      BY <2>4 DEF ToSet
    <3> HIDE DEF all
    <3>3. all \in Seq(ToSet(all))
      BY <3>1, <3>2
    <3> QED BY <3>3 DEF IsList
  <2>7. AreSigners(all)
    BY <2>5, <2>6 DEF AreSigners
  <2> QED BY <1>1, <2>7 DEF all
<1> QED BY <1>4, <1>5

\* Every check a valid envelope asked for said yes.
LEMMA ChecksPassed ==
  ASSUME NEW e \in Envelopes, Valid(e), Sigverify
  PROVE  /\ SourceCheck(e).ok /\ ExtraCheck(e).ok /\ OpCheck(e).ok
         /\ IsBump(e) => BumpCheck(e).ok
<1> DEFINE ps == InnerProblems(e)
           bs == BumpProblems(e)
           signed == Sigverify /\ accounts[e.source] # None
           bumped == Sigverify /\ accounts[e.feeSource] # None
<1>1. DOMAIN ps = 1 .. 20
  BY DEF InnerProblems
<1>2. ~ps[14].holds /\ ~ps[15].holds /\ ~ps[18].holds
  BY <1>1 DEF Valid, ProblemLists
<1>3. /\ ps[14] = Inner(e, "txBAD_AUTH", signed /\ ~SourceCheck(e).ok)
      /\ ps[15] = Inner(e, "txBAD_AUTH", signed /\ ~ExtraCheck(e).ok)
      /\ ps[18] = Inner(e, "txFAILED", signed /\ ~OpCheck(e).ok)
  BY DEF InnerProblems
<1>4. DOMAIN bs = 1 .. 6
  BY DEF BumpProblems
<1>5. IsBump(e) => ~bs[4].holds
  BY <1>4 DEF Valid, ProblemLists
<1>6. bs[4] = Outer(e, "txBAD_AUTH", bumped /\ ~BumpCheck(e).ok)
  BY DEF BumpProblems
<1> HIDE DEF ps, bs
<1>7. signed /\ (IsBump(e) => bumped)
  BY InnerValid, BumpValid
<1> HIDE DEF signed, bumped
<1> QED BY <1>2, <1>3, <1>5, <1>6, <1>7, ProblemHolds

\* What one check says, over the signatures the checks before it consumed.
LEMMA OneCheck ==
  ASSUME NEW sigs, IsList(sigs), NEW contents, NEW used \in SUBSET DOMAIN sigs,
         NEW signers, AreSigners(signers), NEW needed \in Nat
  PROVE  /\ CheckSignature(sigs, contents, used, signers, needed).ok =>
              HasWeight(sigs, contents, signers, needed)
         /\ CheckSignature(sigs, contents, used, signers, needed).used \in SUBSET DOMAIN sigs
         /\ [CheckSignature(sigs, contents, used, signers, needed) EXCEPT !.ok = TRUE].used =
              CheckSignature(sigs, contents, used, signers, needed).used
<1>1. PICK ok, all : CheckSignature(sigs, contents, used, signers, needed) = [ok |-> ok, used |-> all]
  BY DEF CheckSignature
<1>2. LET result == CheckSignature(sigs, contents, used, signers, needed)
      IN  /\ result.used \in SUBSET DOMAIN sigs
          /\ result.ok => HasWeight(sigs, contents, signers, needed)
  BY CheckDecides
<1> QED BY <1>1, <1>2

\* The signers of the operation, whether its source exists or not.
LEMMA OpSignersFacts ==
  ASSUME accounts \in AccountMaps, NEW e \in Envelopes
  PROVE  AreSigners(OpSigners(e)) /\ OpNeeds(e) \in Nat
<1> DEFINE a == InvokerOf(e)
<1>1. a \in Accounts
  BY EnvelopesAssumption DEF InvokerOf
<1>2. CASE accounts[a] = None
  <2> DEFINE own == [key |-> Ed25519(a), weight |-> 1]
  <2>1. OpSigners(e) = <<own>> /\ OpNeeds(e) = 0
    BY <1>2 DEF OpSigners, OpNeeds
  <2>2. own.weight = 1
    OBVIOUS
  <2> HIDE DEF own
  <2>3. <<own>> \in Seq({own}) /\ ToSet(<<own>>) = {own} /\ DOMAIN <<own>> = {1} /\ <<own>>[1] = own
    BY DEF ToSet
  <2> QED BY <2>1, <2>2, <2>3 DEF AreSigners, IsList
<1>3. CASE accounts[a] # None
  <2>1. accounts[a] \in AccountEntries
    BY <1>1, <1>3 DEF AccountMaps
  <2>2. OpSigners(e) = AccountSigners(a, accounts[a])
    BY <1>3 DEF OpSigners
  <2>3. OpNeeds(e) \in {accounts[a].medium, accounts[a].low}
    BY <1>3 DEF OpNeeds
  <2> HIDE DEF a
  <2> QED BY <2>1, <2>2, <2>3, AccountSignersFacts
<1> QED BY <1>2, <1>3

\* The extra signers, one of weight one for each key.
LEMMA ExtraSignersFacts ==
  ASSUME NEW e \in Envelopes
  PROVE  /\ AreSigners(ExtraSigners(e)) /\ IsList(ExtraSigners(e))
         /\ Len(ExtraSigners(e)) = Len(e.extraSigners) /\ Len(e.extraSigners) \in Nat
         /\ DOMAIN ExtraSigners(e) = DOMAIN e.extraSigners
         /\ \A i \in DOMAIN e.extraSigners :
              ExtraSigners(e)[i].key = e.extraSigners[i] /\ ExtraSigners(e)[i].weight = 1
<1> DEFINE keys == e.extraSigners
           list == ExtraSigners(e)
           n == Len(keys)
<1>1. n \in Nat /\ DOMAIN keys = 1 .. n
  BY EnvelopesAssumption, ListDomain
<1>2. /\ list = [i \in DOMAIN keys |-> list[i]] /\ DOMAIN list = DOMAIN keys
      /\ \A i \in DOMAIN keys : list[i].key = keys[i] /\ list[i].weight = 1
  BY DEF ExtraSigners
<1> HIDE DEF keys, list, n
<1>3. \A i \in 1 .. n : list[i] \in ToSet(list)
  BY <1>1, <1>2 DEF ToSet
<1>4. list \in Seq(ToSet(list)) /\ Len(list) = n
  BY <1>1, <1>2, <1>3
<1>5. IsList(list)
  BY <1>4 DEF IsList
<1>6. \A j \in DOMAIN list : list[j].weight \in Nat
  BY <1>2
<1>7. AreSigners(list)
  BY <1>5, <1>6 DEF AreSigners
<1> QED BY <1>1, <1>2, <1>4, <1>5, <1>7 DEF keys, list, n

\* A valid envelope has the weights it needs.
LEMMA ValidIsAuthorized ==
  ASSUME accounts \in AccountMaps, NEW e \in Envelopes, Valid(e), Sigverify
  PROVE  Authorized(e)
<1> DEFINE payer == accounts[e.source]
<1>1. /\ SourceCheck(e).ok /\ ExtraCheck(e).ok /\ OpCheck(e).ok
      /\ IsBump(e) => BumpCheck(e).ok
  BY ChecksPassed
<1>2. IsList(e.sigs) /\ IsList(e.bumpSigs)
  BY EnvelopesAssumption
<1>3. payer \in AccountEntries
  BY InnerValid, EnvelopesAssumption DEF AccountMaps
<1>4. AreSigners(AccountSigners(e.source, payer)) /\ payer.low \in Nat
  BY <1>3, AccountSignersFacts
<1>5. /\ HasWeight(e.sigs, e.hash, AccountSigners(e.source, payer), payer.low)
      /\ SourceCheck(e).used \in SUBSET DOMAIN e.sigs
      /\ [SourceCheck(e) EXCEPT !.ok = TRUE].used = SourceCheck(e).used
  BY <1>1, <1>2, <1>4, OneCheck DEF SourceCheck
<1>6. /\ ExtraCheck(e).used \in SUBSET DOMAIN e.sigs
      /\ \A i \in DOMAIN e.extraSigners : Counts(e.sigs, e.hash, e.extraSigners[i])
  <2>1. CASE e.extraSigners = <<>>
    <3>1. ExtraCheck(e) = [SourceCheck(e) EXCEPT !.ok = TRUE]
      BY <2>1 DEF ExtraCheck
    <3>2. DOMAIN e.extraSigners = {}
      BY <2>1
    <3> QED BY <1>5, <3>1, <3>2
  <2>2. CASE e.extraSigners # <<>>
    <3> DEFINE list == ExtraSigners(e)
               n == Len(e.extraSigners)
               used == SourceCheck(e).used
    <3>1. ExtraCheck(e) = CheckSignature(e.sigs, e.hash, used, list, n)
      BY <2>2 DEF ExtraCheck
    <3>2. /\ AreSigners(list) /\ IsList(list) /\ Len(list) = n /\ n \in Nat
          /\ DOMAIN list = DOMAIN e.extraSigners
          /\ \A i \in DOMAIN e.extraSigners : list[i].key = e.extraSigners[i] /\ list[i].weight = 1
      BY ExtraSignersFacts
    <3>3. used \in SUBSET DOMAIN e.sigs
      BY <1>5
    <3> HIDE DEF list, n, used
    <3>4. ExtraCheck(e).used \in SUBSET DOMAIN e.sigs /\ HasWeight(e.sigs, e.hash, list, n)
      <4>1. IsList(e.sigs) /\ AreSigners(list) /\ n \in Nat
        BY <1>2, <3>2
      <4>2. /\ CheckSignature(e.sigs, e.hash, used, list, n).ok => HasWeight(e.sigs, e.hash, list, n)
            /\ CheckSignature(e.sigs, e.hash, used, list, n).used \in SUBSET DOMAIN e.sigs
        BY <3>3, <4>1, OneCheck
      <4> QED BY <1>1, <3>1, <4>2
    <3>5. \A j \in DOMAIN list : Counts(e.sigs, e.hash, list[j].key)
      BY <3>2, <3>4, AllMustCount
    <3> QED BY <3>2, <3>4, <3>5
  <2> QED BY <2>1, <2>2
<1>7. HasWeight(e.sigs, e.hash, OpSigners(e), OpNeeds(e))
  BY <1>1, <1>2, <1>6, OpSignersFacts, OneCheck DEF OpCheck
<1>8. ASSUME IsBump(e)
      PROVE  HasWeight(e.bumpSigs, e.bumpHash, AccountSigners(e.feeSource, accounts[e.feeSource]),
                       accounts[e.feeSource].low)
  <2>1. accounts[e.feeSource] \in AccountEntries
    BY <1>8, BumpValid, EnvelopesAssumption DEF AccountMaps, IsBump
  <2>2. /\ AreSigners(AccountSigners(e.feeSource, accounts[e.feeSource]))
        /\ accounts[e.feeSource].low \in Nat
    BY <2>1, AccountSignersFacts
  <2>3. {} \in SUBSET DOMAIN e.bumpSigs
    OBVIOUS
  <2> QED BY <1>1, <1>2, <1>8, <2>2, <2>3, OneCheck DEF BumpCheck
<1> QED BY <1>5, <1>6, <1>7, <1>8 DEF Authorized

(***************************************************************************)
(* Nothing is applied without the weight it needs: of the transaction      *)
(* source, the operation source, every extra signer, and on a fee bump the *)
(* fee source.  The checks share one set of consumed signatures, in the    *)
(* order they are made, and none of them is fooled by what the earlier     *)
(* ones consumed.                                                          *)
(***************************************************************************)
THEOREM AppliedAuthorized == Spec => AppliedIsAuthorized
<1>1. TypeOK /\ [Next]_vars => [(Sigverify /\ Applied') => Authorized(outcome'.env)]_vars
  <2> SUFFICES ASSUME TypeOK, [Next]_vars, Sigverify, Applied', ~UNCHANGED vars
               PROVE  Authorized(outcome'.env)
    OBVIOUS
  <2>1. ApplyEffects(outcome'.env) /\ outcome'.env \in Envelopes
    BY AppliedByApply
  <2>2. Valid(outcome'.env) /\ accounts \in AccountMaps
    BY <2>1 DEF ApplyEffects, TypeOK, AccountMaps
  <2> QED BY <2>1, <2>2, ValidIsAuthorized
<1> QED BY <1>1, TypeCorrect, PTL DEF Spec, AppliedIsAuthorized
-----------------------------------------------------------------------------
(***************************************************************************)
(* Fees.                                                                   *)
(***************************************************************************)

\* What an application does to the fees an account has paid.
LEMMA FeesPaidStep ==
  ASSUME TypeOK, NEW e \in Envelopes, ApplyEffects(e), outcome'.env = e, NEW a \in Accounts
  PROVE  /\ FeesPaid[a] \in Int /\ FeesPaid'[a] \in Int
         /\ FeesPaid'[a] - FeesPaid[a] = IF a = PayerOf(e) THEN outcome'.feeCharged ELSE 0
<1>1. PICK t : ApplyEffect(e, t)
  BY ApplyFacts
<1>2. /\ credits' \in [Accounts -> Int]
      /\ credits'[a] = credits[a] + Moved(t, a)
  BY <1>1, ReceivedFacts DEF ApplyEffect, TypeOK
<1>3. /\ FeesPaid[a] = credits[a] - BalanceIn(accounts, a)
      /\ FeesPaid'[a] = credits'[a] - BalanceIn(accounts', a)
  BY DEF FeesPaid, Balance, BalanceIn
<1>4. BalanceIn(accounts, a) \in Int /\ credits[a] \in Int
  BY DEF BalanceIn, TypeOK, AccountEntries
<1>5. /\ BalanceIn(accounts', a) = BalanceIn(accounts, a) + Moved(t, a)
           - (IF a = PayerOf(e) THEN outcome'.feeCharged ELSE 0)
      /\ Moved(t, a) \in Int /\ outcome'.feeCharged \in Int
  BY <1>1 DEF ApplyEffect
<1> QED BY <1>2, <1>3, <1>4, <1>5

(***************************************************************************)
(* The fee reported is what its payer, and nobody else, is out of pocket.  *)
(***************************************************************************)
THEOREM FeesBalance == Spec => FeeReportedIsFeePaid
<1>1. TypeOK /\ [Next]_vars =>
        [Applied' =>
          \A a \in Accounts :
            FeesPaid'[a] - FeesPaid[a] =
              IF a = PayerOf(outcome'.env) THEN outcome'.feeCharged ELSE 0]_vars
  BY AppliedByApply, FeesPaidStep
<1> QED BY <1>1, TypeCorrect, PTL DEF Spec, FeeReportedIsFeePaid

(***************************************************************************)
(* No fee is above its bid or below what the ledger keeps, and a failed    *)
(* operation pays nothing refundable.                                      *)
(***************************************************************************)
THEOREM FeesWithinBids == Spec => []FeeWithinBid
<1>1. Init => FeeWithinBid
  BY DEF Init, FeeWithinBid, Applied
<1>2. TypeOK /\ FeeWithinBid /\ [Next]_vars => FeeWithinBid'
  <2> SUFFICES ASSUME TypeOK, FeeWithinBid, [Next]_vars
               PROVE  FeeWithinBid'
    OBVIOUS
  <2>1. CASE UNCHANGED vars
    BY <2>1 DEF vars, FeeWithinBid, Applied
  <2>2. CASE Applied' /\ FeeCharging /\ ~UNCHANGED vars
    <3>1. ApplyEffects(outcome'.env) /\ outcome'.env \in Envelopes
      BY <2>2, AppliedByApply
    <3>2. FeeBounds(outcome'.env)
      BY <3>1, ApplyFacts
    <3> QED BY <2>2, <3>2 DEF FeeBounds, FeeWithinBid
  <2>3. CASE ~(Applied' /\ FeeCharging)
    BY <2>3 DEF FeeWithinBid
  <2> QED BY <2>1, <2>2, <2>3
<1> QED BY <1>1, <1>2, TypeCorrect, PTL DEF Spec

\* What an account must keep.
Reserve(accts, a) == (2 + accts[a].numSubEntries) * BASE_RESERVE

LEMMA ReserveInt ==
  ASSUME NEW accts \in AccountMaps, NEW a \in Accounts, accts[a] # None
  PROVE  /\ Reserve(accts, a) \in Int
         /\ AvailableBalance(accts[a]) = BalanceIn(accts, a) - Reserve(accts, a)
<1>1. accts[a] \in AccountEntries
  BY DEF AccountMaps
<1>2. 2 + accts[a].numSubEntries \in Int /\ BASE_RESERVE \in Int
  BY <1>1, NumbersAssumption DEF AccountEntries
<1>3. \A i, j \in Int : i * j \in Int
  OBVIOUS
<1> QED BY <1>2, <1>3 DEF Reserve, AvailableBalance, BalanceIn

(***************************************************************************)
(* Every account an application takes from keeps its reserve.              *)
(***************************************************************************)
THEOREM ReservesKept == Spec => ReserveKept
<1>1. ASSUME TypeOK, NEW e \in Envelopes, ApplyEffects(e), NEW a \in Accounts,
             Balance(a)' < Balance(a)
      PROVE  accounts'[a].balance >= (2 + accounts'[a].numSubEntries) * BASE_RESERVE
  <2> DEFINE taken == Committed(e)
             fee == outcome'.feeCharged
             charged == IF FeeCharging /\ a = PayerOf(e) THEN FeeToCharge(e) ELSE 0
  <2>1. Valid(e) /\ FeeBounds(e)
    BY <1>1, ApplyFacts
  <2>2. PICK t : ApplyEffect(e, t)
    BY <1>1, ApplyFacts
  <2>3. /\ Balance(a) = BalanceIn(accounts, a) /\ Balance(a)' = BalanceIn(accounts', a)
    BY DEF Balance, BalanceIn
  <2>4. /\ taken \in AccountMaps /\ SameAccounts(accounts, taken)
        /\ BalanceIn(taken, a) = BalanceIn(accounts, a) - charged
    BY <1>1, <2>1, CommittedFacts
  <2>5. /\ accounts \in AccountMaps
        /\ BalanceIn(accounts, a) \in Int /\ BalanceIn(accounts', a) \in Int
    BY <1>1, <2>2 DEF TypeOK, AccountMaps, AccountEntries, BalanceIn, ApplyEffect
  <2>6. accounts[a] # None
    <3> SUFFICES ASSUME accounts[a] = None
                 PROVE  FALSE
      OBVIOUS
    <3>1. BalanceIn(accounts, a) = 0 /\ BalanceIn(accounts', a) = 0
      BY <2>2 DEF BalanceIn, ApplyEffect, SameAccounts
    <3> QED BY <1>1, <2>3, <3>1
  <2>7. /\ taken[a] # None /\ accounts'[a] # None
        /\ Reserve(taken, a) = Reserve(accounts, a)
        /\ Reserve(accounts', a) = Reserve(accounts, a)
    BY <2>2, <2>4, <2>6 DEF SameAccounts, ApplyEffect, Reserve
  <2>8. /\ Reserve(accounts, a) \in Int
        /\ AvailableBalance(accounts[a]) = BalanceIn(accounts, a) - Reserve(accounts, a)
        /\ AvailableBalance(taken[a]) = BalanceIn(taken, a) - Reserve(accounts, a)
    BY <2>4, <2>5, <2>6, <2>7, ReserveInt
  <2> DEFINE paid == IF a = PayerOf(e) THEN fee ELSE 0
  <2>9. /\ charged \in Nat /\ paid \in 0 .. charged
        /\ (FeeCharging /\ a = PayerOf(e)) => charged <= FullFee(e) /\ FullFee(e) \in Int
    BY <2>1, Amounts DEF FeeBounds
  <2>10. BalanceIn(accounts', a) = BalanceIn(accounts, a) + Moved(t, a) - paid
         /\ Moved(t, a) \in Int
    BY <2>2 DEF ApplyEffect
  <2> HIDE DEF taken, charged, paid
  <2>11. BalanceIn(accounts', a) >= Reserve(accounts, a)
    <3>1. CASE Moved(t, a) < 0
      <4>1. t # NoTransfer
        BY <3>1 DEF Moved
      <4>2. t \in e.transfers /\ t.amount <= AvailableBalance(taken[t.from])
        BY <2>2, <4>1 DEF ApplyEffect, HostTransfers, taken
      <4>3. t.amount \in Nat
        BY <4>2, EnvelopesAssumption
      <4>5. a = t.from
        BY <3>1, <4>1, <4>3 DEF Moved
      <4>4. Moved(t, a) = -t.amount
        BY <3>1, <4>1, <4>3, <4>5 DEF Moved
      <4> QED BY <2>4, <2>5, <2>8, <2>9, <2>10, <4>2, <4>3, <4>4, <4>5
    <3>2. CASE Moved(t, a) >= 0
      <4>1. paid > 0
        BY <1>1, <2>3, <2>5, <2>9, <2>10, <3>2
      <4>2. FeeCharging /\ a = PayerOf(e)
        BY <2>9, <4>1 DEF paid, charged
      <4>3. ~(AvailableBalance(accounts[a]) < FullFee(e))
        BY <2>1, <4>2, Payer
      <4> QED BY <2>5, <2>8, <2>9, <2>10, <3>2, <4>2, <4>3
    <3> QED BY <2>10, <3>1, <3>2
  <2> QED BY <2>7, <2>11 DEF Reserve, BalanceIn
<1>2. TypeOK /\ [Next]_vars =>
        [Applied' =>
           \A a \in Accounts :
             Balance(a)' < Balance(a) =>
               accounts'[a].balance >= (2 + accounts'[a].numSubEntries) * BASE_RESERVE]_vars
  BY <1>1, AppliedByApply
<1> QED BY <1>2, TypeCorrect, PTL DEF Spec, ReserveKept

(***************************************************************************)
(* An application whose operation failed moves its source's sequence and   *)
(* pays its fee, and changes nothing else.                                 *)
(***************************************************************************)
THEOREM FailuresOnlyPay == Spec => FailedOnlyPays
<1>1. ASSUME TypeOK, NEW e \in Envelopes, ApplyEffects(e), outcome'.env = e, ~outcome'.ok
      PROVE  /\ entries' = entries
             /\ credits' = credits
             /\ \A a \in Accounts : accounts'[a] # accounts[a] => a \in {e.source, PayerOf(e)}
             /\ accounts'[e.source].seqNum > accounts[e.source].seqNum
  <2>1. PICK t : ApplyEffect(e, t)
    BY <1>1, ApplyFacts
  <2>2. Valid(e)
    BY <1>1 DEF ApplyEffects
  <2>3. entries' = entries /\ t = NoTransfer
    BY <1>1, <2>1 DEF ApplyEffect
  <2>4. credits' = credits
    BY <2>1, <2>3 DEF ApplyEffect, Received
  <2>5. accounts'[e.source].seqNum > accounts[e.source].seqNum
    BY <1>1, <2>1, <2>2, NextSeqNumFacts DEF ApplyEffect, TypeOK, AccountMaps
  <2> QED BY <2>1, <2>3, <2>4, <2>5 DEF ApplyEffect
<1>2. TypeOK /\ [Next]_vars =>
        [(Applied' /\ ~outcome'.ok) =>
           /\ entries' = entries
           /\ credits' = credits
           /\ \A a \in Accounts : accounts'[a] # accounts[a] =>
                a \in {outcome'.env.source, PayerOf(outcome'.env)}
           /\ accounts'[outcome'.env.source].seqNum > accounts[outcome'.env.source].seqNum]_vars
  BY <1>1, AppliedByApply
<1> QED BY <1>2, TypeCorrect, PTL DEF Spec, FailedOnlyPays
-----------------------------------------------------------------------------
(***************************************************************************)
(* The archive.                                                            *)
(***************************************************************************)
LEMMA SelectedFacts ==
  ASSUME NEW keys \in Seq(Keys), NEW S
  PROVE  /\ Selected(keys, S) \in Seq(Keys)
         /\ ToSet(Selected(keys, S)) = ToSet(keys) \cap S
<1>1. Selected(keys, S) = Kept(keys, S)
  BY DEF Selected, Kept
<1> QED BY <1>1, KeptFacts

\* What an operation may do to the entry k: nothing, lengthen its life, remove it, or
\* restore it from the archive.
Restores(e, r, k) ==
  /\ r.ok /\ OpKind(e) = "restore" /\ InReadWrite(e, k)
  /\ Live(r.entries, ledgerSeq, k)

KeepsArchive(e, r) ==
  \A k \in Keys : r.entries[k] # entries[k] =>
    /\ (IsPersistentKey(k) /\ Archived(entries, ledgerSeq, k)) => Restores(e, r, k)
    /\ Live(entries, ledgerSeq, k) => r.entries[k] = NoEntry \/ r.entries[k] >= entries[k]

\* The only entries moved are those of the list, all to the new TTL.
LEMMA MovedEntries ==
  ASSUME NEW ttls \in TtlMaps, NEW sizes, NEW keys, NEW old, NEW new, NEW cap, NEW k \in Keys,
         MoveTtls(ttls, sizes, ledgerSeq, keys, old, new, cap).entries[k] # ttls[k]
  PROVE  /\ MoveTtls(ttls, sizes, ledgerSeq, keys, old, new, cap).result = "success"
         /\ MoveTtls(ttls, sizes, ledgerSeq, keys, old, new, cap).entries[k] = new
         /\ k \in ToSet(keys)
  BY DEF MoveTtls, TtlMaps, ToSet

LEMMA ExtensionKeepsArchive ==
  ASSUME NEW e \in Envelopes, Valid(e), TypeOK, OpKind(e) = "extend", NEW accts,
         NEW sizes
  PROVE  KeepsArchive(e, FootprintResult(e, accts, sizes))
<1> DEFINE keys == ExtendMoves(e, entries, ledgerSeq)
           new == ledgerSeq + e.extendTo
           moved == MoveTtls(entries, sizes, ledgerSeq, keys, entries, new, RefundableCap(e))
           r == FootprintResult(e, accts, sizes)
<1>1. entries \in TtlMaps /\ ledgerSeq \in Nat /\ e.extendTo \in Nat /\ MaxEntryTtl \in Nat
  BY NumbersAssumption, EnvelopesAssumption DEF TypeOK, TtlMaps
<1>2. r.entries = entries \/ r.entries = moved.entries
  BY DEF FootprintResult, ApplyExtendFootprintTtl, OverLimit
<1>3. ToSet(keys) \subseteq {k \in Keys : Live(entries, ledgerSeq, k) /\ entries[k] < new}
  <2>1. e.readOnly \in Seq(Keys)
    BY EnvelopesAssumption
  <2> QED BY <2>1, SelectedFacts DEF ExtendMoves
<1> HIDE DEF keys, r
<1> SUFFICES ASSUME NEW k \in Keys, r.entries[k] # entries[k]
             PROVE  /\ ~Archived(entries, ledgerSeq, k)
                    /\ r.entries[k] >= entries[k]
  BY DEF KeepsArchive, r
<1>4. moved.entries[k] # entries[k] /\ r.entries[k] = moved.entries[k]
  BY <1>2
<1>5. moved.entries[k] = new /\ k \in ToSet(keys)
  BY <1>1, <1>4, MovedEntries
<1>6. Live(entries, ledgerSeq, k) /\ entries[k] < new /\ entries[k] \in Nat
  BY <1>1, <1>3, <1>5 DEF TtlMaps
<1> QED BY <1>1, <1>4, <1>5, <1>6 DEF Live, Archived

LEMMA RestorationKeepsArchive ==
  ASSUME NEW e \in Envelopes, Valid(e), TypeOK, OpKind(e) = "restore", NEW accts,
         NEW sizes
  PROVE  KeepsArchive(e, FootprintResult(e, accts, sizes))
<1> DEFINE keys == RestoreMoves(e, entries, ledgerSeq)
           new == RestoredLiveUntil(ledgerSeq)
           moved == MoveTtls(entries, sizes, ledgerSeq, keys, NoOldTtl, new, RefundableCap(e))
           r == FootprintResult(e, accts, sizes)
<1>1. /\ entries \in TtlMaps /\ ledgerSeq \in Nat /\ MaxEntryTtl \in Nat
      /\ new \in Nat /\ new >= ledgerSeq
  BY NumbersAssumption DEF TypeOK, TtlMaps, RestoredLiveUntil
<1>2. \/ r.entries = entries
      \/ /\ r.entries = moved.entries
         /\ moved.result = "success" => r.ok
  <2>1. ApplyRestoreFootprint(e, entries, sizes, ledgerSeq, RefundableCap(e)) \in {OverLimit(entries), moved}
    BY DEF ApplyRestoreFootprint
  <2>2. OverLimit(entries).entries = entries
    BY DEF OverLimit
  <2>3. LET op == ApplyRestoreFootprint(e, entries, sizes, ledgerSeq, RefundableCap(e))
        IN  r.entries = op.entries /\ (op.result = "success" => r.ok)
    BY DEF FootprintResult
  <2> QED BY <2>1, <2>2, <2>3
<1>3. ToSet(keys) = ToSet(e.readWrite) \cap {k \in Keys : Archived(entries, ledgerSeq, k)}
  <2>1. e.readWrite \in Seq(Keys)
    BY EnvelopesAssumption
  <2> QED BY <2>1, SelectedFacts DEF RestoreMoves
<1> HIDE DEF keys, r, new
<1> SUFFICES ASSUME NEW k \in Keys, r.entries[k] # entries[k]
             PROVE  ~Live(entries, ledgerSeq, k) /\ Restores(e, r, k)
  BY DEF KeepsArchive, r
<1>4. moved.entries[k] # entries[k] /\ r.entries[k] = moved.entries[k]
  BY <1>2
<1>5. moved.result = "success" /\ moved.entries[k] = new /\ k \in ToSet(keys)
  BY <1>1, <1>4, MovedEntries
<1>6. r.ok
  BY <1>2, <1>4, <1>5
<1>7. InReadWrite(e, k)
  BY <1>3, <1>5 DEF InReadWrite, ToSet
<1>8. Archived(entries, ledgerSeq, k) /\ entries[k] \in Nat
  BY <1>1, <1>3, <1>5 DEF TtlMaps
<1>9. Live(r.entries, ledgerSeq, k) /\ ~Live(entries, ledgerSeq, k)
  BY <1>1, <1>4, <1>5, <1>8 DEF Live, Archived, NoEntry
<1> QED BY <1>6, <1>7, <1>9 DEF Restores

\* A call that names no archived entry moves none, and lengthens or removes others.
LEMMA RunKeepsArchive ==
  ASSUME NEW e \in Envelopes, TypeOK, ~NamesArchivedEntry(e, entries, ledgerSeq), NEW r,
         r.entries \in CallEntries(e, entries, ledgerSeq)
  PROVE  KeepsArchive(e, r)
<1> SUFFICES ASSUME NEW k \in Keys, r.entries[k] # entries[k]
             PROVE  /\ ~(IsPersistentKey(k) /\ Archived(entries, ledgerSeq, k))
                    /\ Live(entries, ledgerSeq, k) =>
                         r.entries[k] = NoEntry \/ r.entries[k] >= entries[k]
  BY DEF KeepsArchive
<1>1. r.entries[k] \in CallTtls(e, k, entries, ledgerSeq)
  BY DEF CallEntries
<1>2. InFootprint(e, k)
  BY <1>1 DEF CallTtls
<1>3. Live(entries, ledgerSeq, k) => 
        r.entries[k] \in {NoEntry, entries[k]} \cup entries[k] .. MaxLiveUntil(ledgerSeq)
  BY <1>1 DEF CallTtls
<1>4. entries[k] \in 0 .. MaxLiveUntil(ledgerSeq) /\ ledgerSeq \in Nat /\ MaxEntryTtl \in Nat
  BY NumbersAssumption DEF TypeOK, MaxLiveUntil
<1>5. MaxLiveUntil(ledgerSeq) \in Int
  BY <1>4 DEF MaxLiveUntil
<1> QED BY <1>2, <1>3, <1>4, <1>5 DEF NamesArchivedEntry

LEMMA ResultKeepsArchive ==
  ASSUME NEW e \in Envelopes, Valid(e), TypeOK, NEW r \in OpResults(e, Committed(e))
  PROVE  KeepsArchive(e, r)
<1> DEFINE accts == Committed(e)
<1>1. OpKind(e) \in {"invoke", "extend", "restore"}
  BY InnerValid DEF NotOneSorobanOp, SorobanOps
<1>2. ASSUME NEW code, r = Failed(code, accts) PROVE KeepsArchive(e, r)
  BY <1>2 DEF Failed, KeepsArchive
<1> HIDE DEF accts
<1>3. CASE accounts[InvokerOf(e)] = None
  BY <1>2, <1>3 DEF OpResults, accts
<1>4. CASE accounts[InvokerOf(e)] # None /\ OpKind(e) # "invoke"
  <2>1. PICK sizes \in [Keys -> Sizes] : r = FootprintResult(e, accts, sizes)
    BY <1>4 DEF OpResults, accts
  <2> QED BY <1>1, <1>4, <2>1, ExtensionKeepsArchive, RestorationKeepsArchive
<1>5. CASE accounts[InvokerOf(e)] # None /\ OpKind(e) = "invoke"
  <2>1. r \in HostResults(e, accts)
    BY <1>5 DEF OpResults, accts
  <2>2. CASE r # Failed("hostFailed", accts)
    <3>1. ~NamesArchivedEntry(e, entries, ledgerSeq) /\ r \in HostSuccesses(e, accts)
      BY <2>1, <2>2 DEF HostResults
    <3>2. PICK call \in CallOutcomes(e, entries, ledgerSeq) : r.entries = call.entries
      BY <3>1 DEF HostSuccesses
    <3>3. call.entries \in CallEntries(e, entries, ledgerSeq)
      BY DEF CallOutcomes
    <3> QED BY <3>1, <3>2, <3>3, RunKeepsArchive
  <2> QED BY <1>2, <2>2
<1> QED BY <1>3, <1>4, <1>5

(***************************************************************************)
(* An archived persistent entry comes back only by a RestoreFootprint that *)
(* names it read-write and succeeds, and no entry that lives is left with  *)
(* a shorter life, whatever a contract does within its footprint.          *)
(***************************************************************************)
THEOREM ArchiveOpens == Spec => ArchiveOpensByRestore
<1> DEFINE Opens(k) ==
             /\ (IsPersistentKey(k) /\ Archived(entries, ledgerSeq, k) /\ entries'[k] # entries[k]) =>
                  /\ Applied' /\ outcome'.ok
                  /\ OpKind(outcome'.env) = "restore"
                  /\ InReadWrite(outcome'.env, k)
                  /\ Live(entries', ledgerSeq', k)
             /\ Live(entries, ledgerSeq, k) => entries'[k] = NoEntry \/ entries'[k] >= entries[k]
<1>1. ASSUME TypeOK, NEW e \in Envelopes, Apply(e), NEW k \in Keys PROVE Opens(k)
  <2>1. PICK r \in OpResults(e, Committed(e)) : entries' = r.entries /\ outcome' = Application(e, r)
    BY <1>1 DEF Apply, ApplyEffects
  <2>2. KeepsArchive(e, r)
    BY <1>1, <2>1, ResultKeepsArchive DEF Apply, ApplyEffects
  <2>3. Applied' /\ outcome'.ok = r.ok /\ outcome'.env = e
    <3>1. \E t : ApplyEffect(e, t)
      BY <1>1, ApplyFacts DEF Apply
    <3>2. outcome'.applied = TRUE /\ outcome'.ok = r.ok /\ outcome'.env = e
      BY <2>1 DEF Application
    <3>3. outcome' # None
      BY <1>1, <2>1, OutcomeIsSome DEF Apply, ApplyEffects
    <3> QED BY <3>2, <3>3 DEF Applied
  <2>4. ledgerSeq' = ledgerSeq
    BY <1>1 DEF Apply
  <2>5. entries[k] \in Nat
    BY NumbersAssumption, <1>1 DEF TypeOK
  <2>6. CASE entries'[k] = entries[k]
    BY <2>5, <2>6
  <2>7. CASE entries'[k] # entries[k]
    BY <2>1, <2>2, <2>3, <2>4, <2>7 DEF KeepsArchive, Restores
  <2> QED BY <2>6, <2>7
<1>2. ASSUME TypeOK, entries' = entries, NEW k \in Keys PROVE Opens(k)
  <2>1. entries[k] \in Nat
    BY NumbersAssumption, <1>2 DEF TypeOK
  <2> QED BY <1>2, <2>1
<1>3. TypeOK /\ [Next]_vars => [\A k \in Keys : Opens(k)]_vars
  BY <1>1, <1>2 DEF Next, Reject, Fund, AdvanceLedgers, SetTimestamp
<1> QED BY <1>3, TypeCorrect, PTL DEF Spec, ArchiveOpensByRestore
-----------------------------------------------------------------------------
(***************************************************************************)
(* Refinement: the apply path implements the abstract ledger.              *)
(***************************************************************************)
SeqNums == [a \in Accounts |-> IF accounts[a] = None THEN None ELSE accounts[a].seqNum]

LEMMA ApplyConsumes ==
  ASSUME SequenceCheck, TypeOK, SeqCoversApplied, NEW e \in Envelopes, ApplyEffects(e)
  PROVE  Abstract!Consume(e)
<1>1. PICK t : ApplyEffect(e, t)
  BY ApplyFacts
<1>2. Valid(e) /\ FeeBounds(e) /\ outcome'.env = e
  BY <1>1, ApplyFacts DEF ApplyEffect
<1>3. /\ e.hash \notin applied
      /\ e.source \in Accounts /\ accounts[e.source] # None
      /\ NextSeqNum(e) = e.seqNum /\ accounts[e.source].seqNum < e.seqNum
  BY ApplyIsFresh
<1>4. SeqNums' = [SeqNums EXCEPT ![e.source] = e.seqNum]
  <2>1. ASSUME NEW a \in Accounts
        PROVE  SeqNums'[a] = IF a = e.source THEN e.seqNum ELSE SeqNums[a]
    BY <1>1, <1>3 DEF SeqNums, ApplyEffect, SameAccounts
  <2> QED BY <1>3, <2>1 DEF SeqNums
<1>5. applied' = applied \cup {e.hash}
  BY DEF ApplyEffects
<1>6. PayerOf(e) \in Accounts /\ FullFee(e) \in Int /\ 0 <= FullFee(e)
  BY <1>2, Payer, Amounts
<1>7. /\ FeesPaid' = [FeesPaid EXCEPT ![PayerOf(e)] = FeesPaid'[PayerOf(e)]]
      /\ FeesPaid'[PayerOf(e)] - FeesPaid[PayerOf(e)] \in 0 .. FullFee(e)
  <2>1. \A a \in Accounts :
          /\ FeesPaid[a] \in Int /\ FeesPaid'[a] \in Int
          /\ FeesPaid'[a] - FeesPaid[a] = IF a = PayerOf(e) THEN outcome'.feeCharged ELSE 0
    BY <1>2, FeesPaidStep
  <2>2. \A a \in Accounts : a # PayerOf(e) => FeesPaid'[a] = FeesPaid[a]
    BY <2>1
  <2>3. FeesPaid' = [FeesPaid EXCEPT ![PayerOf(e)] = FeesPaid'[PayerOf(e)]]
    BY <1>6, <2>2 DEF FeesPaid
  <2>4. outcome'.feeCharged \in 0 .. FullFee(e)
    BY <1>2, <1>6 DEF FeeBounds
  <2> QED BY <1>6, <2>1, <2>3, <2>4
<1>8. SeqNums[e.source] # None /\ SeqNums[e.source] < e.seqNum
  BY <1>3, NumbersAssumption DEF SeqNums, TypeOK, AccountEntries
<1> QED BY <1>3, <1>4, <1>5, <1>7, <1>8 DEF Abstract!Consume, Abstract!Charge, SeqNums

LEMMA FundOpens ==
  ASSUME TypeOK, NEW a \in Accounts, NEW acct \in FundedAccounts, Fund(a, acct)
  PROVE  Abstract!Open(a)
<1>1. acct \in AccountEntries /\ acct # None
  BY AccountsAssumption
<1>2. /\ accounts' = [accounts EXCEPT ![a] = acct]
      /\ credits' = [credits EXCEPT ![a] = acct.balance]
      /\ applied' = applied \ {e.hash : e \in {f \in Envelopes : f.source = a}}
  BY DEF Fund
<1>3. SeqNums' = [SeqNums EXCEPT ![a] = SeqNums'[a]] /\ SeqNums'[a] \in Nat
  <2>1. accounts'[a] = acct /\ \A b \in Accounts : b # a => accounts'[b] = accounts[b]
    BY <1>2 DEF TypeOK
  <2>2. SeqNums'[a] \in Nat
    BY <1>1, <2>1 DEF SeqNums, AccountEntries
  <2>3. \A b \in Accounts : b # a => SeqNums'[b] = SeqNums[b]
    BY <2>1 DEF SeqNums
  <2> QED BY <2>2, <2>3 DEF SeqNums
<1>4. FeesPaid' = [FeesPaid EXCEPT ![a] = 0]
  <2>1. FeesPaid'[a] = 0
    BY <1>1, <1>2 DEF FeesPaid, Balance, TypeOK, AccountEntries
  <2>2. \A b \in Accounts : b # a => FeesPaid'[b] = FeesPaid[b]
    BY <1>2 DEF FeesPaid, Balance, TypeOK
  <2> QED BY <2>1, <2>2 DEF FeesPaid
<1> QED BY <1>2, <1>3, <1>4 DEF Abstract!Open, SeqNums

(***************************************************************************)
(* With sequence numbers checked, every behaviour of the apply path is one *)
(* of the abstract ledger: an application consumes its transaction, a      *)
(* funding opens its account, and everything else stutters.                *)
(***************************************************************************)
THEOREM ApplyPathImplementsLedger ==
  ASSUME SequenceCheck
  PROVE  Spec => ImplementsTxLedger
<1>1. Init => Abstract!Init
  BY DEF Init, Abstract!Init, FeesPaid, Balance
<1>2. TypeOK /\ SeqCoversApplied /\ [Next]_vars => [Abstract!Next]_(Abstract!vars)
  <2> SUFFICES ASSUME TypeOK, SeqCoversApplied, [Next]_vars
               PROVE  Abstract!Next \/ UNCHANGED Abstract!vars
    OBVIOUS
  <2>1. CASE \E e \in Envelopes : ApplyEffects(e)
    BY <2>1, ApplyConsumes DEF Abstract!Next
  <2>2. CASE \E a \in Accounts, acct \in FundedAccounts : Fund(a, acct)
    BY <2>2, FundOpens DEF Abstract!Next
  <2>3. CASE UNCHANGED <<accounts, applied, credits>>
    BY <2>3 DEF Abstract!vars, FeesPaid, Balance
  <2> QED BY <2>1, <2>2, <2>3 DEF Next, vars, Apply, Reject, AdvanceLedgers, SetTimestamp
<1> QED BY <1>1, <1>2, TypeCorrect, SequenceCovers, PTL DEF Spec, ImplementsTxLedger, Abstract!Spec
=============================================================================
