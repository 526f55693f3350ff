-------------------------- MODULE RpcServer_proofs --------------------------
(***************************************************************************)
(* Proofs about the RPC server over a ledger, for every set of             *)
(* applications, jobs, accounts and envelopes.                             *)
(***************************************************************************)
EXTENDS RpcServer, ClassicTx_proofs, FiniteSetTheorems

InnerHashes == {e.hash : e \in Envelopes}
RecordMaps == [Hashes -> Records \cup {None}]
PastSteps == {Done(e) : e \in Envelopes} \cup {FundedOver(a) : a \in Accounts}

\* The ledger's number bounds the TTLs, and sequence numbers cover what was
\* applied: TypeOK and SeqCoversApplied, of a snapshot.
Sound(s) ==
  /\ s.ledgerSeq >= FirstLedger
  /\ s.entries \in [Keys -> 0 .. s.ledgerSeq + MaxEntryTtl - 1]
  /\ SequenceCheck =>
       \A e \in Envelopes : e.hash \in s.applied =>
         s.accounts[e.source] # None /\ s.accounts[e.source].seqNum >= e.seqNum

SnapshotRecords ==
  [accounts : AccountMaps, entries : [Keys -> Nat], ledgerSeq : Nat, timestamp : Nat,
   applied : SUBSET InnerHashes, credits : [Accounts -> Int], fundings : 0 .. MaxFundings,
   submitted : RecordMaps, loose : SUBSET Hashes, past : Seq(PastSteps)]

\* The ledger's side of the invariant: the ledger as it is and as any snapshot has
\* it.
LedgerInv ==
  /\ TypeOK /\ SeqCoversApplied
  /\ snapshots \in Seq(SnapshotRecords)
  /\ \A id \in DOMAIN snapshots : Sound(snapshots[id])

ClientStates ==
  [phase : Phases, env : Envelopes \cup Accounts \cup {None},
   answer : {None, "PENDING", "ERROR", "SUCCESS", "FAILED"}]
Events == [ledger : Nat, txHash : Hashes, id : Nat]

\* The server's side.
ServerInv ==
  /\ submitted \in RecordMaps
  /\ \A h \in Hashes : submitted[h] # None => RpcHash(submitted[h].env) = h
  /\ loose \subseteq {h \in Hashes : submitted[h] # None}
  /\ past \in Seq(PastSteps)
  /\ eventLog \in Seq(Events)
  /\ \A i \in DOMAIN eventLog : eventLog[i].id = i
  /\ clients \in [Clients -> ClientStates]
  /\ \A c \in Clients :
       /\ clients[c].phase = "unfunded" => clients[c].env \in Accounts
       /\ clients[c].phase \in {"built", "waiting"} => clients[c].env \in Jobs[c]
  /\ restores \in 0 .. MaxRestores

\* No record is ever taken back.
RecordsKept ==
  \A id \in DOMAIN snapshots : \A h \in Hashes :
    /\ snapshots[id].submitted[h] # None => submitted[h] # None
    /\ h \in snapshots[id].loose => submitted[h] # None

RpcInv == LedgerInv /\ ServerInv /\ RecordsKept
-----------------------------------------------------------------------------
(***************************************************************************)
(* What a submission does: it is refused and changes nothing, or it is     *)
(* applied, recorded, and its ledger closes.                               *)
(***************************************************************************)
LEMMA AppliedCode ==
  ASSUME TypeOK, NEW e \in Envelopes, ApplyEffects(e)
  PROVE  /\ outcome'.applied = TRUE
         /\ outcome'.code \in {"txSUCCESS", "txFAILED", "txFEE_BUMP_INNER_SUCCESS",
                               "txFEE_BUMP_INNER_FAILED"}
         /\ ~Refused(outcome')
<1>1. PICK r : outcome' = Application(e, r)
  BY DEF ApplyEffects
<1>2. /\ outcome'.applied = TRUE
      /\ outcome'.code \in {"txSUCCESS", "txFAILED", "txFEE_BUMP_INNER_SUCCESS",
                            "txFEE_BUMP_INNER_FAILED"}
  BY <1>1 DEF Application
<1> QED BY <1>2 DEF Refused, REJECTED_AT_SUBMIT

Recorded(e) ==
  /\ ApplyEffects(e) /\ ~Refused(outcome') /\ fundings' = fundings
  /\ ledgerSeq' = ledgerSeq + 1 /\ timestamp' = timestamp + CLOSE_TIME
  /\ submitted' = [submitted EXCEPT ![RpcHash(e)] = Record(e, outcome')]
  /\ Record(e, outcome') \in Records
  /\ loose' = loose \ {RpcHash(e)}
  /\ past' = Append(past, Done(e))
  /\ \E n \in Nat : eventLog' = Logged(e, n)

LEMMA SendFacts ==
  ASSUME TypeOK, NEW e \in Envelopes, SendTransaction(e)
  PROVE  (Reject(e) /\ Refused(outcome') /\ UNCHANGED <<server, history>>) \/ Recorded(e)
<1>1. CASE Reject(e)
  <2>1. Refused(outcome') /\ outcome'.applied = FALSE
    BY <1>1 DEF Reject, Rejection, Rejected, Refused
  <2>2. past' = past
    BY <2>1 DEF SendTransaction
  <2> QED BY <1>1, <2>1, <2>2 DEF SendTransaction, history
<1>2. CASE ApplyEffects(e)
  <2>1. /\ outcome'.code \in {"txSUCCESS", "txFAILED", "txFEE_BUMP_INNER_SUCCESS",
                              "txFEE_BUMP_INNER_FAILED"}
        /\ ~Refused(outcome') /\ outcome'.applied = TRUE
    BY <1>2, AppliedCode
  <2>2. Record(e, outcome') \in Records
    BY <2>1 DEF Record, Records, TypeOK
  <2>3. /\ submitted' = Stored(e, outcome') /\ CloseLedger /\ loose' = loose \ {RpcHash(e)}
        /\ past' = Append(past, Done(e))
        /\ \E n \in IF outcome'.ok /\ OpKind(e) = "invoke" THEN EventCounts ELSE {0} :
             eventLog' = Logged(e, n)
    BY <2>1 DEF SendTransaction
  <2>4. \E n \in Nat : eventLog' = Logged(e, n)
    BY <2>3, ClientsAssumption
  <2>5. fundings' = fundings
    <3>1. Valid(e)
      BY <1>2 DEF ApplyEffects
    <3> QED BY <3>1 DEF SendTransaction, Reject
  <2> QED BY <1>2, <2>1, <2>2, <2>3, <2>4, <2>5 DEF Recorded, Stored, CloseLedger
<1> QED BY <1>1, <1>2 DEF SendTransaction

\* Every step, by what it does to the ledger and the server.
Funds == \E a \in Accounts, acct \in FundedAccounts : Fund(a, acct)

LEMMA JobsAreEnvelopes ==
  ASSUME NEW c \in Clients, NEW e \in Jobs[c]
  PROVE  e \in Envelopes
  BY ClientsAssumption
-----------------------------------------------------------------------------
(***************************************************************************)
(* The ledger under the server: its types and the cover of its sequence    *)
(* numbers survive submissions, direct calls and returns in time.          *)
(***************************************************************************)
LEMMA RecordedKeepsLedger ==
  ASSUME TypeOK, SeqCoversApplied, NEW e \in Envelopes, Recorded(e)
  PROVE  TypeOK' /\ SeqCoversApplied'
<1>1. PICK t : ApplyEffect(e, t)
  BY ApplyFacts DEF Recorded
<1>2. credits' \in [Accounts -> Int]
  BY <1>1, ReceivedFacts DEF ApplyEffect, TypeOK
<1>3. applied' = applied \cup {e.hash}
  BY DEF Recorded, ApplyEffects
<1>4. /\ ledgerSeq' \in Nat /\ ledgerSeq' >= FirstLedger /\ timestamp' \in Nat
      /\ ledgerSeq' = ledgerSeq + 1 /\ ledgerSeq \in Nat /\ MaxEntryTtl \in Nat
      /\ fundings' \in 0 .. MaxFundings
  <2>1. /\ ledgerSeq' = ledgerSeq + 1 /\ timestamp' = timestamp + CLOSE_TIME
        /\ fundings' = fundings
    BY DEF Recorded
  <2>2. /\ ledgerSeq \in Nat /\ ledgerSeq >= FirstLedger /\ timestamp \in Nat
        /\ fundings \in 0 .. MaxFundings
    BY DEF TypeOK
  <2> QED BY <2>1, <2>2, NumbersAssumption
<1>5. entries' \in [Keys -> 0 .. ledgerSeq' + MaxEntryTtl - 1]
  <2>1. entries' \in [Keys -> 0 .. ledgerSeq + MaxEntryTtl - 1]
    BY <1>1 DEF ApplyEffect, TtlMaps
  <2> QED BY <1>4, <2>1
<1>6. SeqCoversApplied'
  BY ApplyKeepsCover DEF Recorded
<1> QED BY <1>1, <1>2, <1>3, <1>4, <1>5, <1>6 DEF TypeOK, ApplyEffect, AccountMaps

LEMMA FundKeepsLedger ==
  ASSUME TypeOK, SeqCoversApplied, Funds
  PROVE  TypeOK' /\ SeqCoversApplied'
<1>1. PICK a \in Accounts, acct \in FundedAccounts : Fund(a, acct)
  BY DEF Funds
<1>2. acct \in AccountEntries /\ acct.balance \in Int /\ MaxFundings \in Nat
  BY AccountsAssumption, NumbersAssumption DEF AccountEntries
<1>3. TypeOK'
  BY <1>1, <1>2 DEF Fund, TypeOK
<1> QED BY <1>1, <1>3, FundKeepsCover

LEMMA StillKeepsLedger ==
  ASSUME TypeOK, SeqCoversApplied, UNCHANGED ledger, outcome' = None
  PROVE  TypeOK' /\ SeqCoversApplied'
  BY DEF TypeOK, SeqCoversApplied, ledger

LEMMA AdvanceKeepsLedger ==
  ASSUME TypeOK, SeqCoversApplied, AdvanceLedgers(1)
  PROVE  TypeOK' /\ SeqCoversApplied'
<1>1. /\ ledgerSeq' \in Nat /\ ledgerSeq' = ledgerSeq + 1 /\ ledgerSeq \in Nat
      /\ timestamp' \in Nat /\ MaxEntryTtl \in Nat /\ FirstLedger \in Nat
  BY NumbersAssumption DEF AdvanceLedgers, TypeOK
<1>2. entries' \in [Keys -> 0 .. ledgerSeq' + MaxEntryTtl - 1]
  BY <1>1 DEF AdvanceLedgers, TypeOK
<1> QED BY <1>1, <1>2 DEF AdvanceLedgers, TypeOK, SeqCoversApplied

LEMMA ReturnKeepsLedger ==
  ASSUME LedgerInv, NEW id \in DOMAIN snapshots, RestoreSnapshot(id)
  PROVE  TypeOK' /\ SeqCoversApplied'
<1> DEFINE s == snapshots[id]
<1>1. s \in SnapshotRecords /\ Sound(s)
  BY DEF LedgerInv
<1>2. /\ accounts' = s.accounts /\ entries' = s.entries /\ ledgerSeq' = s.ledgerSeq
      /\ timestamp' = s.timestamp /\ applied' = s.applied /\ credits' = s.credits
      /\ fundings' = s.fundings /\ outcome' = None
  BY DEF RestoreSnapshot
<1> HIDE DEF s
<1>3. TypeOK'
  BY <1>1, <1>2 DEF SnapshotRecords, Sound, TypeOK, InnerHashes, AccountMaps
<1>4. SeqCoversApplied'
  BY <1>1, <1>2 DEF Sound, SeqCoversApplied
<1> QED BY <1>3, <1>4

LEMMA TakeKeepsLedger ==
  ASSUME LedgerInv, ServerInv, TakeSnapshot
  PROVE  LedgerInv'
<1> DEFINE s == [accounts |-> accounts, entries |-> entries, ledgerSeq |-> ledgerSeq,
                 timestamp |-> timestamp, applied |-> applied, credits |-> credits,
                 fundings |-> fundings, submitted |-> submitted, loose |-> loose,
                 past |-> past]
<1>1. snapshots' = Append(snapshots, s) /\ UNCHANGED ledger /\ outcome' = None
  BY DEF TakeSnapshot
<1>2. TypeOK' /\ SeqCoversApplied'
  BY <1>1, StillKeepsLedger DEF LedgerInv
<1>3. s \in SnapshotRecords
  <2>1. entries \in [Keys -> Nat]
    <3>1. ledgerSeq \in Nat /\ MaxEntryTtl \in Nat
      BY NumbersAssumption DEF LedgerInv, TypeOK
    <3> QED BY <3>1 DEF LedgerInv, TypeOK
  <2> QED BY <2>1 DEF LedgerInv, ServerInv, TypeOK, SnapshotRecords, InnerHashes, AccountMaps
<1>4. Sound(s)
  BY DEF LedgerInv, TypeOK, SeqCoversApplied, Sound
<1> HIDE DEF s
<1>5. snapshots' \in Seq(SnapshotRecords)
  BY <1>1, <1>3 DEF LedgerInv
<1>6. \A id \in DOMAIN snapshots' : Sound(snapshots'[id])
  BY <1>1, <1>3, <1>4 DEF LedgerInv
<1> QED BY <1>2, <1>5, <1>6 DEF LedgerInv, Sound

\* The envelope a submission is of.
LEMMA SubmittedEnvelope ==
  ASSUME ServerInv, NEW c \in Clients, Submit(c) \/ Resubmit(c)
  PROVE  /\ clients[c].env \in Jobs[c] /\ clients[c].env \in Envelopes
         /\ SendTransaction(clients[c].env) /\ UNCHANGED <<snapshots, restores, reader>>
<1>1. clients[c].env \in Jobs[c]
  BY DEF ServerInv, Submit, Resubmit, Client
<1> QED BY <1>1, JobsAreEnvelopes DEF Submit, Resubmit, test

\* Every step is a submission, a funding, or leaves the ledger alone, or is the
\* test's.
LEMMA QuietClients ==
  ASSUME NEW c \in Clients, LookUp(c) \/ Build(c) \/ Poll(c)
  PROVE  UNCHANGED <<ledger, server, test, reader, history>> /\ outcome' = None
  BY DEF LookUp, Build, Poll

LEMMA AirdropCases ==
  ASSUME NEW c \in Clients, RequestAirdrop(c), ServerInv
  PROVE  /\ UNCHANGED <<server, test, reader, history>>
         /\ \/ UNCHANGED ledger /\ outcome' = None
            \/ accounts[clients[c].env] = None /\ Fund(clients[c].env, FriendbotAccount)
  BY DEF RequestAirdrop, Friendbot

\* A step that takes no snapshot keeps what there are.
LEMMA SnapshotsStand ==
  ASSUME LedgerInv, TypeOK', SeqCoversApplied', UNCHANGED snapshots
  PROVE  LedgerInv'
  BY DEF LedgerInv, Sound

LEMMA LedgerInvInductive ==
  ASSUME LedgerInv, ServerInv, [RpcNext]_rpcVars
  PROVE  LedgerInv'
<1>1. TypeOK /\ SeqCoversApplied
  BY DEF LedgerInv
<1>2. ASSUME NEW c \in Clients, LookUp(c) \/ Build(c) \/ Poll(c)
      PROVE  LedgerInv'
  BY <1>1, <1>2, QuietClients, StillKeepsLedger, SnapshotsStand DEF test
<1>3. ASSUME NEW c \in Clients, RequestAirdrop(c)
      PROVE  LedgerInv'
  <2>1. UNCHANGED snapshots
    BY <1>3, AirdropCases DEF test
  <2>2. CASE UNCHANGED ledger /\ outcome' = None
    BY <1>1, <2>1, <2>2, StillKeepsLedger, SnapshotsStand
  <2>3. CASE Fund(clients[c].env, FriendbotAccount)
    <3>1. clients[c].env \in Accounts
      BY <1>3 DEF RequestAirdrop, Client, ServerInv
    <3>2. Funds
      BY <2>3, <3>1, ClientsAssumption DEF Funds
    <3> QED BY <1>1, <2>1, <3>2, FundKeepsLedger, SnapshotsStand
  <2> QED BY <1>3, <2>2, <2>3, AirdropCases
<1>4. ASSUME NEW c \in Clients, Submit(c) \/ Resubmit(c)
      PROVE  LedgerInv'
  <2>1. /\ clients[c].env \in Envelopes /\ SendTransaction(clients[c].env)
        /\ UNCHANGED snapshots
    BY <1>4, SubmittedEnvelope
  <2>2. CASE Reject(clients[c].env)
    <3>1. UNCHANGED ledger /\ outcome'.env = clients[c].env /\ outcome'.applied = FALSE
      BY <2>2 DEF Reject, Rejection, Rejected, ledger
    <3>2. TypeOK' /\ SeqCoversApplied'
      BY <1>1, <2>1, <3>1 DEF TypeOK, SeqCoversApplied, ledger
    <3> QED BY <2>1, <3>2, SnapshotsStand
  <2>3. CASE Recorded(clients[c].env)
    BY <1>1, <2>1, <2>3, RecordedKeepsLedger, SnapshotsStand
  <2> QED BY <1>1, <2>1, <2>2, <2>3, SendFacts
<1>5. CASE ReadEvents
  <2>1. UNCHANGED ledger /\ outcome' = None /\ UNCHANGED snapshots
    BY <1>5 DEF ReadEvents, test
  <2> QED BY <1>1, <2>1, StillKeepsLedger, SnapshotsStand
<1>6. ASSUME NEW a \in Accounts, FundDirectly(a)
      PROVE  LedgerInv'
  <2>1. Funds /\ UNCHANGED snapshots
    BY <1>6 DEF FundDirectly, Funds, test
  <2> QED BY <1>1, <2>1, FundKeepsLedger, SnapshotsStand
<1>7. CASE PassLedger
  <2>1. AdvanceLedgers(1) /\ UNCHANGED snapshots
    BY <1>7 DEF PassLedger, test
  <2> QED BY <1>1, <2>1, AdvanceKeepsLedger, SnapshotsStand
<1>8. CASE TakeSnapshot
  BY <1>8, TakeKeepsLedger
<1>9. ASSUME NEW id \in DOMAIN snapshots, RestoreSnapshot(id)
      PROVE  LedgerInv'
  <2>1. UNCHANGED snapshots
    BY <1>9 DEF RestoreSnapshot
  <2> QED BY <1>9, <2>1, ReturnKeepsLedger, SnapshotsStand
<1>10. CASE UNCHANGED rpcVars
  <2>1. TypeOK' /\ SeqCoversApplied'
    BY <1>1, <1>10 DEF rpcVars, ledger, TypeOK, SeqCoversApplied
  <2>2. UNCHANGED snapshots
    BY <1>10 DEF rpcVars, test
  <2> QED BY <2>1, <2>2, SnapshotsStand
<1> QED
  BY <1>2, <1>3, <1>4, <1>5, <1>6, <1>7, <1>8, <1>9, <1>10 DEF RpcNext, ClientStep, TestStep
-----------------------------------------------------------------------------
(***************************************************************************)
(* The server: its records, its log and the applications' answers.         *)
(***************************************************************************)
LEMMA EventsAppended ==
  ASSUME eventLog \in Seq(Events), \A i \in DOMAIN eventLog : eventLog[i].id = i,
         NEW n \in Nat, NEW e \in Envelopes, ledgerSeq \in Nat
  PROVE  /\ Logged(e, n) \in Seq(Events)
         /\ \A i \in DOMAIN Logged(e, n) :
              /\ Logged(e, n)[i].id = i
              /\ i \in DOMAIN eventLog => Logged(e, n)[i] = eventLog[i]
              /\ i \notin DOMAIN eventLog => Logged(e, n)[i].ledger = ledgerSeq
         /\ DOMAIN eventLog \subseteq DOMAIN Logged(e, n)
<1> DEFINE new == [i \in 1 .. n |-> [ledger |-> ledgerSeq, txHash |-> RpcHash(e),
                                     id |-> Len(eventLog) + i]]
<1>1. RpcHash(e) \in Hashes
  BY DEF Hashes
<1>2. Len(eventLog) \in Nat /\ DOMAIN eventLog = 1 .. Len(eventLog)
  OBVIOUS
<1>3. \A i \in 1 .. n : new[i] \in Events
  BY <1>1, <1>2 DEF Events
<1>4. new \in Seq(Events) /\ Len(new) = n
  <2>1. new \in [1 .. n -> Events]
    BY <1>3
  <2> HIDE DEF new
  <2> QED BY <2>1
<1>5. /\ Logged(e, n) = eventLog \o new
      /\ \A i \in 1 .. n : new[i].id = Len(eventLog) + i /\ new[i].ledger = ledgerSeq
  BY DEF Logged
<1> HIDE DEF new
<1>6. /\ Logged(e, n) \in Seq(Events) /\ DOMAIN Logged(e, n) = 1 .. Len(eventLog) + n
      /\ \A i \in 1 .. Len(eventLog) : Logged(e, n)[i] = eventLog[i]
      /\ \A i \in Len(eventLog) + 1 .. Len(eventLog) + n : Logged(e, n)[i] = new[i - Len(eventLog)]
  BY <1>2, <1>4, <1>5
<1>7. ASSUME NEW i \in DOMAIN Logged(e, n)
      PROVE  /\ Logged(e, n)[i].id = i
             /\ i \in DOMAIN eventLog => Logged(e, n)[i] = eventLog[i]
             /\ i \notin DOMAIN eventLog => Logged(e, n)[i].ledger = ledgerSeq
  <2>1. CASE i \in 1 .. Len(eventLog)
    BY <1>2, <1>6, <2>1
  <2>2. CASE i \in Len(eventLog) + 1 .. Len(eventLog) + n
    <3>1. i - Len(eventLog) \in 1 .. n
      BY <1>2, <2>2
    <3> QED BY <1>2, <1>5, <1>6, <2>2, <3>1
  <2> QED BY <1>2, <1>6, <2>1, <2>2
<1> QED BY <1>2, <1>6, <1>7

\* A step of an application or of the reader, by what it does to ledger and server:
\* nothing, a transaction recorded, or an account opened.
Airdropped ==
  /\ \E a \in Accounts : accounts[a] = None /\ Fund(a, FriendbotAccount)
  /\ UNCHANGED <<server, test, reader, history>>

LEMMA StepCases ==
  ASSUME TypeOK, ServerInv, [RpcNext]_rpcVars
  PROVE  \/ UNCHANGED <<ledger, server, test, history>> /\ (ReadEvents \/ UNCHANGED reader)
         \/ /\ \E e \in Envelopes : Recorded(e)
            /\ UNCHANGED <<test, reader>>
         \/ Airdropped
         \/ TestStep
<1>1. ASSUME NEW c \in Clients, LookUp(c) \/ Build(c) \/ Poll(c)
      PROVE  UNCHANGED <<ledger, server, test, reader, history>>
  BY <1>1, QuietClients
<1>2. ASSUME NEW c \in Clients, RequestAirdrop(c)
      PROVE  UNCHANGED <<ledger, server, test, reader, history>> \/ Airdropped
  <2>1. clients[c].env \in Accounts
    BY <1>2 DEF RequestAirdrop, Client, ServerInv
  <2> QED BY <1>2, <2>1, AirdropCases DEF Airdropped
<1>3. ASSUME NEW c \in Clients, Submit(c) \/ Resubmit(c)
      PROVE  \/ UNCHANGED <<ledger, server, test, reader, history>>
             \/ (\E e \in Envelopes : Recorded(e)) /\ UNCHANGED <<test, reader>>
  <2>1. /\ clients[c].env \in Envelopes /\ SendTransaction(clients[c].env)
        /\ UNCHANGED <<test, reader>>
    BY <1>3, SubmittedEnvelope DEF test
  <2>2. CASE Reject(clients[c].env) /\ UNCHANGED <<server, history>>
    BY <2>1, <2>2 DEF Reject, ledger
  <2> QED BY <2>1, <2>2, SendFacts
<1>4. CASE ReadEvents
  BY <1>4 DEF ReadEvents
<1>5. CASE UNCHANGED rpcVars
  BY <1>5 DEF rpcVars
<1> QED BY <1>1, <1>2, <1>3, <1>4, <1>5 DEF RpcNext, ClientStep

LEMMA RecordsInductive ==
  ASSUME LedgerInv, ServerInv, RecordsKept, [RpcNext]_rpcVars
  PROVE  /\ submitted' \in RecordMaps
         /\ \A h \in Hashes : submitted'[h] # None => RpcHash(submitted'[h].env) = h
         /\ \A h \in Hashes : submitted[h] # None => submitted'[h] # None
         /\ loose' \subseteq {h \in Hashes : submitted'[h] # None}
         /\ restores' \in 0 .. MaxRestores
<1> USE DEF ServerInv
<1>1. TypeOK
  BY DEF LedgerInv
<1>2. CASE UNCHANGED <<server, test, history>>
  BY <1>2 DEF server, test, history
<1>3. ASSUME NEW e \in Envelopes, Recorded(e), UNCHANGED <<test, reader>>
      PROVE  /\ submitted' \in RecordMaps
             /\ \A h \in Hashes : submitted'[h] # None => RpcHash(submitted'[h].env) = h
             /\ \A h \in Hashes : submitted[h] # None => submitted'[h] # None
             /\ loose' \subseteq {h \in Hashes : submitted'[h] # None}
             /\ restores' \in 0 .. MaxRestores
  <2>1. /\ RpcHash(e) \in Hashes
        /\ Record(e, outcome') \in Records /\ Record(e, outcome') # None
        /\ Record(e, outcome').env = e
        /\ submitted' = [submitted EXCEPT ![RpcHash(e)] = Record(e, outcome')]
        /\ loose' = loose \ {RpcHash(e)} /\ restores' = restores
    BY <1>3, RecordsAssumption DEF Recorded, Record, Hashes, test
  <2>2. submitted' \in RecordMaps
    BY <2>1 DEF RecordMaps
  <2>3. \A h \in Hashes :
          submitted'[h] = IF h = RpcHash(e) THEN Record(e, outcome') ELSE submitted[h]
    BY <2>1 DEF RecordMaps
  <2>4. \A h \in Hashes : submitted'[h] # None => RpcHash(submitted'[h].env) = h
    BY <2>1, <2>3
  <2> QED BY <2>1, <2>2, <2>3, <2>4
<1>4. ASSUME NEW a \in Accounts, FundDirectly(a)
      PROVE  /\ UNCHANGED <<submitted, restores>>
             /\ loose' \subseteq {h \in Hashes : submitted[h] # None}
  BY <1>4 DEF FundDirectly, server, test, RecordsOf
<1>5. ASSUME NEW id \in DOMAIN snapshots, RestoreSnapshot(id)
      PROVE  /\ UNCHANGED submitted /\ restores' \in 0 .. MaxRestores
             /\ loose' \subseteq {h \in Hashes : submitted[h] # None}
  <2>1. /\ restores < MaxRestores /\ restores' = restores + 1 /\ UNCHANGED submitted
        /\ loose' = snapshots[id].loose
                      \cup {h \in Hashes : submitted[h] # snapshots[id].submitted[h]}
    BY <1>5 DEF RestoreSnapshot, server
  <2>2. snapshots[id].loose \subseteq Hashes
    <3>1. snapshots[id] \in SnapshotRecords
      BY DEF LedgerInv
    <3> QED BY <3>1 DEF SnapshotRecords
  <2>3. loose' \subseteq {h \in Hashes : submitted[h] # None}
    BY <2>1, <2>2 DEF RecordsKept
  <2> QED BY <2>1, <2>3, ClientsAssumption
<1> QED
  BY <1>1, <1>2, <1>3, <1>4, <1>5, StepCases
  DEF TestStep, PassLedger, TakeSnapshot, Airdropped, server, test, history

LEMMA PastInductive ==
  ASSUME LedgerInv, ServerInv, [RpcNext]_rpcVars
  PROVE  past' \in Seq(PastSteps)
<1>1. TypeOK /\ past \in Seq(PastSteps)
  BY DEF LedgerInv, ServerInv
<1>2. ASSUME NEW e \in Envelopes, Recorded(e)
      PROVE  past' \in Seq(PastSteps)
  <2>1. past' = Append(past, Done(e)) /\ Done(e) \in PastSteps
    BY <1>2 DEF Recorded, PastSteps
  <2> QED BY <1>1, <2>1
<1>3. ASSUME NEW a \in Accounts, FundDirectly(a)
      PROVE  past' \in Seq(PastSteps)
  <2>1. past' = Append(past, FundedOver(a)) /\ FundedOver(a) \in PastSteps
    BY <1>3 DEF FundDirectly, PastSteps
  <2> QED BY <1>1, <2>1
<1>4. ASSUME NEW id \in DOMAIN snapshots, RestoreSnapshot(id)
      PROVE  past' \in Seq(PastSteps)
  <2>1. snapshots[id] \in SnapshotRecords /\ past' = snapshots[id].past
    BY <1>4 DEF RestoreSnapshot, LedgerInv
  <2> QED BY <2>1 DEF SnapshotRecords
<1> QED
  BY <1>1, <1>2, <1>3, <1>4, StepCases
  DEF TestStep, PassLedger, TakeSnapshot, Airdropped, history

LEMMA LogInductive ==
  ASSUME TypeOK, ServerInv, [RpcNext]_rpcVars
  PROVE  /\ eventLog' \in Seq(Events)
         /\ \A i \in DOMAIN eventLog' : eventLog'[i].id = i
<1>1. CASE UNCHANGED eventLog
  BY <1>1 DEF ServerInv
<1>2. ASSUME NEW e \in Envelopes, Recorded(e)
      PROVE  /\ eventLog' \in Seq(Events)
             /\ \A i \in DOMAIN eventLog' : eventLog'[i].id = i
  <2>1. PICK n \in Nat : eventLog' = Logged(e, n)
    BY <1>2 DEF Recorded
  <2>2. ledgerSeq \in Nat
    BY DEF TypeOK
  <2>3. /\ Logged(e, n) \in Seq(Events)
        /\ \A i \in DOMAIN Logged(e, n) : Logged(e, n)[i].id = i
    BY <2>2, EventsAppended DEF ServerInv
  <2> QED BY <2>1, <2>3
<1> QED
  BY <1>1, <1>2, StepCases
  DEF server, Airdropped, TestStep, FundDirectly, PassLedger, TakeSnapshot, RestoreSnapshot

\* What an application's own step makes of its state.
ClientOK(c, s) ==
  /\ s \in ClientStates
  /\ s.phase = "unfunded" => s.env \in Accounts
  /\ s.phase \in {"built", "waiting"} => s.env \in Jobs[c]

LEMMA ClientsOK ==
  ASSUME ServerInv, NEW c \in Clients
  PROVE  ClientOK(c, clients[c])
  BY DEF ServerInv, ClientOK

LEMMA IdleOK ==
  ASSUME NEW c \in Clients
  PROVE  ClientOK(c, Idle)
  BY DEF ClientOK, Idle, ClientStates, Phases

LEMMA ClientMoveOK ==
  ASSUME ServerInv, NEW c \in Clients, ClientStep(c) \/ Resubmit(c)
  PROVE  \E s : ClientOK(c, s) /\ ClientMoves(c, s)
<1> DEFINE now == clients[c]
<1>0. ClientOK(c, now) /\ now \in ClientStates
  BY ClientsOK DEF ClientOK
<1>1. CASE LookUp(c)
  <2>1. PICK a \in Missing(c) : ClientMoves(c, [Idle EXCEPT !.phase = "unfunded", !.env = a])
    BY <1>1 DEF LookUp
  <2>2. PICK e \in Jobs[c] : a = e.source \/ a = PayerOf(e)
    BY DEF Missing
  <2>3. a \in Accounts
    <3>1. e \in Envelopes
      BY JobsAreEnvelopes
    <3>2. e.source \in Accounts /\ e.feeSource \in Accounts \cup {None}
      BY <3>1, EnvelopesAssumption
    <3> QED BY <2>2, <3>2 DEF PayerOf, IsBump
  <2>4. ClientOK(c, [Idle EXCEPT !.phase = "unfunded", !.env = a])
    BY <2>3 DEF ClientOK, Idle, ClientStates, Phases
  <2> QED BY <2>1, <2>4
<1>2. CASE RequestAirdrop(c)
  BY <1>2, IdleOK DEF RequestAirdrop
<1>3. CASE Build(c)
  <2>1. PICK e \in Jobs[c] : ClientMoves(c, [Idle EXCEPT !.phase = "built", !.env = e])
    BY <1>3 DEF Build
  <2>2. e \in Envelopes
    BY JobsAreEnvelopes
  <2>3. ClientOK(c, [Idle EXCEPT !.phase = "built", !.env = e])
    BY <2>2 DEF ClientOK, Idle, ClientStates, Phases
  <2> QED BY <2>1, <2>3
<1>4. CASE Submit(c)
  <2>1. ClientOK(c, [now EXCEPT !.phase = "waiting", !.answer = "PENDING"])
    BY <1>0, <1>4, SubmittedEnvelope DEF ClientOK, ClientStates, Phases
  <2> QED BY <1>4, <2>1, IdleOK DEF Submit
<1>5. CASE Resubmit(c)
  <2>1. now.phase = "waiting" /\ now.env \in Jobs[c]
    BY <1>5, SubmittedEnvelope DEF Resubmit, Client
  <2>2. \A answer \in {"ERROR", "PENDING"} : ClientOK(c, [now EXCEPT !.answer = answer])
    BY <1>0, <2>1 DEF ClientOK, ClientStates
  <2> QED BY <1>5, <2>2 DEF Resubmit
<1>6. CASE Poll(c)
  <2> DEFINE status == StatusOf(submitted[RpcHash(now.env)])
  <2>1. ClientMoves(c, [now EXCEPT !.phase = "done", !.answer = status])
    BY <1>6 DEF Poll
  <2>2. status \in {"SUCCESS", "FAILED"}
    BY <1>6 DEF Poll, StatusOf
  <2> HIDE DEF status
  <2>3. ClientOK(c, [now EXCEPT !.phase = "done", !.answer = status])
    BY <1>0, <2>2 DEF ClientOK, ClientStates, Phases
  <2> QED BY <2>1, <2>3
<1> QED BY <1>1, <1>2, <1>3, <1>4, <1>5, <1>6 DEF ClientStep

LEMMA ClientsInductive ==
  ASSUME ServerInv, [RpcNext]_rpcVars
  PROVE  /\ clients' \in [Clients -> ClientStates]
         /\ \A c \in Clients : ClientOK(c, clients'[c])
<1>1. CASE UNCHANGED clients
  BY <1>1, ClientsOK DEF ServerInv
<1>2. ASSUME NEW c \in Clients, ClientStep(c) \/ Resubmit(c)
      PROVE  /\ clients' \in [Clients -> ClientStates]
             /\ \A d \in Clients : ClientOK(d, clients'[d])
  <2>1. PICK s : ClientOK(c, s) /\ ClientMoves(c, s)
    BY <1>2, ClientMoveOK
  <2>2. clients \in [Clients -> ClientStates] /\ s \in ClientStates
    BY <2>1 DEF ServerInv, ClientOK
  <2>3. /\ clients' \in [Clients -> ClientStates]
        /\ \A d \in Clients : clients'[d] = IF d = c THEN s ELSE clients[d]
    BY <2>1, <2>2 DEF ClientMoves
  <2> QED BY <2>1, <2>3, ClientsOK
<1> QED
  BY <1>1, <1>2
  DEF RpcNext, rpcVars, ReadEvents, TestStep, FundDirectly, PassLedger, TakeSnapshot,
      RestoreSnapshot

LEMMA RecordsKeptInductive ==
  ASSUME LedgerInv, ServerInv, RecordsKept, [RpcNext]_rpcVars
  PROVE  RecordsKept'
<1>1. \A h \in Hashes : submitted[h] # None => submitted'[h] # None
  BY RecordsInductive
<1>2. CASE UNCHANGED snapshots
  BY <1>1, <1>2 DEF RecordsKept
<1>3. CASE TakeSnapshot
  <2>1. PICK s : /\ snapshots' = Append(snapshots, s)
                 /\ s.submitted = submitted /\ s.loose = loose
    BY <1>3 DEF TakeSnapshot
  <2>2. \A h \in Hashes : h \in s.loose => submitted[h] # None
    BY <2>1 DEF ServerInv
  <2>3. \A id \in DOMAIN snapshots' :
          (id \in DOMAIN snapshots /\ snapshots'[id] = snapshots[id]) \/ snapshots'[id] = s
    BY <2>1 DEF LedgerInv
  <2> QED BY <1>1, <2>1, <2>2, <2>3 DEF RecordsKept
<1> QED
  BY <1>2, <1>3, StepCases
  DEF LedgerInv, test, Airdropped, TestStep, FundDirectly, PassLedger, RestoreSnapshot

LEMMA RpcInvInductive ==
  ASSUME RpcInv, [RpcNext]_rpcVars
  PROVE  RpcInv'
<1>1. TypeOK
  BY DEF RpcInv, LedgerInv
<1> QED
  BY <1>1, LedgerInvInductive, RecordsInductive, PastInductive, LogInductive,
     ClientsInductive, RecordsKeptInductive
  DEF RpcInv, ServerInv, ClientOK

LEMMA RpcInvInit ==
  ASSUME RpcInit
  PROVE  RpcInv
<1>1. TypeOK /\ SeqCoversApplied
  BY NumbersAssumption DEF RpcInit, Init, TypeOK, SeqCoversApplied
<1>2. snapshots = <<>> /\ DOMAIN snapshots = {} /\ snapshots \in Seq(SnapshotRecords)
  BY DEF RpcInit
<1>3. eventLog = <<>> /\ DOMAIN eventLog = {} /\ eventLog \in Seq(Events)
  BY DEF RpcInit
<1>4. submitted \in RecordMaps /\ \A h \in Hashes : submitted[h] = None
  BY DEF RpcInit, RecordMaps
<1>5. /\ clients \in [Clients -> ClientStates]
      /\ \A c \in Clients : clients[c].phase = "idle"
  BY DEF RpcInit, Idle, ClientStates, Phases
<1>6. loose = {} /\ restores \in 0 .. MaxRestores /\ past \in Seq(PastSteps)
  BY ClientsAssumption DEF RpcInit
<1> QED BY <1>1, <1>2, <1>3, <1>4, <1>5, <1>6 DEF RpcInv, LedgerInv, ServerInv, RecordsKept

(***************************************************************************)
(* The server's records, its log and its applications are well formed      *)
(* whatever is submitted, funded and restored.                             *)
(***************************************************************************)
THEOREM ServerTypeCorrect == RpcSpec => []ServerTypeOK
<1>1. RpcInit => RpcInv
  BY RpcInvInit
<1>2. RpcInv /\ [RpcNext]_rpcVars => RpcInv'
  BY RpcInvInductive
<1>3. RpcInv => ServerTypeOK
  BY DEF RpcInv, ServerInv, ServerTypeOK, RecordMaps, ClientStates
<1> QED BY <1>1, <1>2, <1>3, PTL DEF RpcSpec
-----------------------------------------------------------------------------
(***************************************************************************)
(* Records and ledger.  The two halves of RecordsMirrorLedger, of the      *)
(* server as it is or as it was when a snapshot was taken.                 *)
(***************************************************************************)
AppliedAreRecorded(done, records) ==
  \A e \in Envelopes : e.hash \in done =>
    \E f \in Envelopes : f.hash = e.hash /\ records[RpcHash(f)] # None

RecordsAreApplied(done, records, taken, seq) ==
  \A h \in Hashes : (records[h] # None /\ h \notin taken) =>
    records[h].env.hash \in done /\ records[h].ledger <= seq - 1

SnapshotMirrors(s) ==
  /\ AppliedAreRecorded(s.applied, s.submitted)
  /\ RecordsAreApplied(s.applied, s.submitted, s.loose, s.ledgerSeq)

MirrorInv ==
  /\ RecordsMirrorLedger
  /\ \A id \in DOMAIN snapshots : SnapshotMirrors(snapshots[id])

LEMMA MirrorHalves ==
  /\ RecordsMirrorLedger <=>
       AppliedAreRecorded(applied, submitted) /\ RecordsAreApplied(applied, submitted, loose, ledgerSeq)
  /\ RecordsMirrorLedger' <=>
       /\ AppliedAreRecorded(applied', submitted')
       /\ RecordsAreApplied(applied', submitted', loose', ledgerSeq')
  BY DEF RecordsMirrorLedger, AppliedAreRecorded, RecordsAreApplied, LastClosed

LEMMA RecordedMirrors ==
  ASSUME TypeOK, ServerInv, RecordsMirrorLedger, NEW e \in Envelopes, Recorded(e)
  PROVE  RecordsMirrorLedger'
<1>1. /\ RpcHash(e) \in Hashes /\ Record(e, outcome') # None
      /\ submitted' = [submitted EXCEPT ![RpcHash(e)] = Record(e, outcome')]
      /\ loose' = loose \ {RpcHash(e)} /\ ledgerSeq' = ledgerSeq + 1 /\ ledgerSeq \in Nat
      /\ Record(e, outcome').env = e /\ Record(e, outcome').ledger = ledgerSeq
  BY RecordsAssumption DEF Recorded, Record, Hashes, TypeOK
<1>2. applied' = applied \cup {e.hash}
  BY DEF Recorded, ApplyEffects
<1>3. \A h \in Hashes :
        submitted'[h] = IF h = RpcHash(e) THEN Record(e, outcome') ELSE submitted[h]
  BY <1>1 DEF ServerInv, RecordMaps
<1>4. AppliedAreRecorded(applied', submitted')
  <2> SUFFICES ASSUME NEW f \in Envelopes, f.hash \in applied'
               PROVE  \E g \in Envelopes : g.hash = f.hash /\ submitted'[RpcHash(g)] # None
    BY DEF AppliedAreRecorded
  <2>1. CASE f.hash = e.hash
    BY <1>1, <1>3, <2>1
  <2>2. CASE f.hash \in applied
    <3>1. PICK g \in Envelopes : g.hash = f.hash /\ submitted[RpcHash(g)] # None
      BY <2>2 DEF RecordsMirrorLedger
    <3>2. RpcHash(g) \in Hashes
      BY DEF Hashes
    <3> QED BY <1>1, <1>3, <3>1, <3>2
  <2> QED BY <1>2, <2>1, <2>2
<1>5. RecordsAreApplied(applied', submitted', loose', ledgerSeq')
  <2> SUFFICES ASSUME NEW h \in Hashes, submitted'[h] # None, h \notin loose'
               PROVE  submitted'[h].env.hash \in applied' /\ submitted'[h].ledger <= ledgerSeq' - 1
    BY DEF RecordsAreApplied
  <2>1. CASE h = RpcHash(e)
    BY <1>1, <1>2, <1>3, <2>1
  <2>2. CASE h # RpcHash(e)
    <3>1. submitted'[h] = submitted[h] /\ h \notin loose /\ submitted[h] # None
      BY <1>1, <1>3, <2>2
    <3>2. submitted[h].env.hash \in applied /\ submitted[h].ledger <= ledgerSeq - 1
      BY <3>1 DEF RecordsMirrorLedger, LastClosed
    <3>3. submitted[h].ledger \in Nat
      BY <3>1 DEF ServerInv, RecordMaps, Records
    <3> QED BY <1>1, <1>2, <3>1, <3>2, <3>3
  <2> QED BY <2>1, <2>2
<1> QED BY <1>4, <1>5, MirrorHalves

LEMMA FundMirrors ==
  ASSUME ServerInv, RecordsMirrorLedger, NEW a \in Accounts, NEW acct,
         Fund(a, acct), UNCHANGED submitted,
         \A h \in Hashes : (submitted[h] # None /\ h \notin loose') =>
           h \notin loose /\ (submitted[h].env.hash \in applied => submitted[h].env.source # a)
  PROVE  RecordsMirrorLedger'
<1>1. applied' = applied \ {e.hash : e \in {f \in Envelopes : f.source = a}}
  BY DEF Fund
<1>2. AppliedAreRecorded(applied', submitted')
  BY <1>1, MirrorHalves DEF AppliedAreRecorded
<1>3. RecordsAreApplied(applied', submitted', loose', ledgerSeq')
  <2> SUFFICES ASSUME NEW h \in Hashes, submitted[h] # None, h \notin loose'
               PROVE  submitted[h].env.hash \in applied' /\ submitted[h].ledger <= ledgerSeq - 1
    BY DEF RecordsAreApplied, Fund
  <2>1. submitted[h].env.hash \in applied /\ submitted[h].ledger <= ledgerSeq - 1
    BY DEF RecordsMirrorLedger, LastClosed
  <2>2. submitted[h].env \in Envelopes /\ submitted[h].env.source # a
    BY <2>1 DEF ServerInv, RecordMaps, Records
  <2>3. \A f \in Envelopes : f.source = a => f.hash # submitted[h].env.hash
    BY <2>2, HashAssumption
  <2> QED BY <1>1, <2>1, <2>3
<1> QED BY <1>2, <1>3, MirrorHalves

LEMMA RestoreMirrors ==
  ASSUME LedgerInv, RecordsKept, NEW id \in DOMAIN snapshots,
         SnapshotMirrors(snapshots[id]), RestoreSnapshot(id)
  PROVE  RecordsMirrorLedger'
<1> DEFINE s == snapshots[id]
<1>1. /\ UNCHANGED submitted /\ applied' = s.applied /\ ledgerSeq' = s.ledgerSeq
      /\ loose' = s.loose \cup {h \in Hashes : submitted[h] # s.submitted[h]}
  BY DEF RestoreSnapshot, server
<1>2. \A h \in Hashes : s.submitted[h] # None => submitted[h] # None
  BY DEF RecordsKept
<1>3. AppliedAreRecorded(s.applied, submitted)
  <2> SUFFICES ASSUME NEW e \in Envelopes, e.hash \in s.applied
               PROVE  \E f \in Envelopes : f.hash = e.hash /\ submitted[RpcHash(f)] # None
    BY DEF AppliedAreRecorded
  <2>1. PICK f \in Envelopes : f.hash = e.hash /\ s.submitted[RpcHash(f)] # None
    BY DEF SnapshotMirrors, AppliedAreRecorded
  <2> QED BY <1>2, <2>1 DEF Hashes
<1>4. RecordsAreApplied(applied', submitted', loose', ledgerSeq')
  BY <1>1 DEF SnapshotMirrors, RecordsAreApplied
<1> QED BY <1>1, <1>3, <1>4, MirrorHalves

LEMMA MirrorInductive ==
  ASSUME SequenceCheck, RpcInv, MirrorInv, [RpcNext]_rpcVars
  PROVE  MirrorInv'
<1>1. TypeOK /\ SeqCoversApplied /\ LedgerInv /\ ServerInv /\ RecordsKept /\ RecordsMirrorLedger
  BY DEF RpcInv, LedgerInv, MirrorInv
<1>2. RecordsMirrorLedger'
  <2>1. CASE UNCHANGED <<applied, submitted, loose>> /\ ledgerSeq' \in {ledgerSeq, ledgerSeq + 1}
    <3>1. \A h \in Hashes : submitted[h] # None => submitted[h].ledger \in Nat
      BY <1>1 DEF ServerInv, RecordMaps, Records
    <3>2. ledgerSeq \in Nat
      BY <1>1 DEF TypeOK
    <3> QED BY <1>1, <2>1, <3>1, <3>2 DEF RecordsMirrorLedger, LastClosed
  <2>2. ASSUME NEW e \in Envelopes, Recorded(e)
        PROVE  RecordsMirrorLedger'
    BY <1>1, <2>2, RecordedMirrors
  <2>3. CASE Airdropped
    <3>1. PICK a \in Accounts : accounts[a] = None /\ Fund(a, FriendbotAccount)
      BY <2>3 DEF Airdropped
    <3>2. \A e \in Envelopes : e.source = a => e.hash \notin applied
      BY <1>1, <3>1 DEF SeqCoversApplied
    <3>3. \A h \in Hashes : submitted[h] # None => submitted[h].env \in Envelopes
      BY <1>1 DEF ServerInv, RecordMaps, Records
    <3> QED BY <1>1, <2>3, <3>1, <3>2, <3>3, FundMirrors DEF Airdropped, server, history
  <2>4. ASSUME NEW a \in Accounts, FundDirectly(a)
        PROVE  RecordsMirrorLedger'
    <3>1. PICK acct \in FundedAccounts : Fund(a, acct)
      BY <2>4 DEF FundDirectly
    <3>2. /\ UNCHANGED submitted /\ loose' = loose \cup RecordsOf(a)
      BY <2>4 DEF FundDirectly, server
    <3> QED BY <1>1, <3>1, <3>2, FundMirrors DEF RecordsOf
  <2>5. ASSUME NEW id \in DOMAIN snapshots, RestoreSnapshot(id)
        PROVE  RecordsMirrorLedger'
    BY <1>1, <2>5, RestoreMirrors DEF MirrorInv
  <2> QED
    BY <1>1, <2>1, <2>2, <2>3, <2>4, <2>5, StepCases
    DEF TestStep, PassLedger, AdvanceLedgers, TakeSnapshot, ledger, server, history
<1>3. \A id \in DOMAIN snapshots' : SnapshotMirrors(snapshots'[id])
  <2>1. CASE UNCHANGED snapshots
    BY <2>1 DEF MirrorInv
  <2>2. CASE TakeSnapshot
    <3>1. PICK s : /\ snapshots' = Append(snapshots, s)
                   /\ s.applied = applied /\ s.submitted = submitted
                   /\ s.loose = loose /\ s.ledgerSeq = ledgerSeq
      BY <2>2 DEF TakeSnapshot
    <3>2. SnapshotMirrors(s)
      BY <1>1, <3>1, MirrorHalves DEF SnapshotMirrors
    <3>3. \A id \in DOMAIN snapshots' :
            (id \in DOMAIN snapshots /\ snapshots'[id] = snapshots[id]) \/ snapshots'[id] = s
      BY <1>1, <3>1 DEF LedgerInv
    <3> QED BY <3>2, <3>3 DEF MirrorInv
  <2> QED
    BY <1>1, <2>1, <2>2, StepCases
    DEF test, Airdropped, TestStep, FundDirectly, PassLedger, RestoreSnapshot
<1> QED BY <1>2, <1>3 DEF MirrorInv

(***************************************************************************)
(* With sequence numbers checked, what the ledger applied has a record and *)
(* what has a record was applied, whatever applications submit and the     *)
(* test restores, unless the test itself took it back.  RecordsKept makes  *)
(* a return to a snapshot safe, SeqCoversApplied an airdrop.               *)
(***************************************************************************)
THEOREM RecordsMirror ==
  ASSUME SequenceCheck
  PROVE  RpcSpec => []RecordsMirrorLedger
<1>1. RpcInit => RpcInv /\ MirrorInv
  BY RpcInvInit DEF RpcInit, Init, MirrorInv, RecordsMirrorLedger
<1>2. RpcInv /\ MirrorInv /\ [RpcNext]_rpcVars => RpcInv' /\ MirrorInv'
  BY RpcInvInductive, MirrorInductive
<1>3. MirrorInv => RecordsMirrorLedger
  BY DEF MirrorInv
<1> QED BY <1>1, <1>2, <1>3, PTL DEF RpcSpec

(***************************************************************************)
(* And a record stands: a second one of its hash would be of a transaction *)
(* with the same hash, which the ledger has applied and, its sequence      *)
(* number being spent, refuses.                                            *)
(***************************************************************************)
THEOREM FateIsSealed ==
  ASSUME SequenceCheck
  PROVE  RpcSpec => OneFate
<1> DEFINE Stands == \A h \in Hashes :
             (submitted[h] # None /\ submitted'[h] # submitted[h]) => h \in loose
<1>1. RpcInv /\ MirrorInv /\ [RpcNext]_rpcVars => Stands
  <2> SUFFICES ASSUME RpcInv, MirrorInv, [RpcNext]_rpcVars,
                      NEW h \in Hashes, submitted[h] # None, submitted'[h] # submitted[h],
                      h \notin loose
               PROVE  FALSE
    OBVIOUS
  <2>1. TypeOK /\ SeqCoversApplied /\ ServerInv /\ RecordsMirrorLedger
    BY DEF RpcInv, LedgerInv, MirrorInv
  <2>2. PICK e \in Envelopes : Recorded(e)
    BY <2>1, StepCases
    DEF server, Airdropped, TestStep, FundDirectly, PassLedger, TakeSnapshot, RestoreSnapshot
  <2>3. h = RpcHash(e)
    BY <2>1, <2>2 DEF Recorded, ServerInv, RecordMaps
  <2>4. submitted[h].env \in Envelopes /\ RpcHash(submitted[h].env) = h
    BY <2>1 DEF ServerInv, RecordMaps, Records
  <2>5. submitted[h].env.hash = e.hash
    BY <2>3, <2>4, RpcHashAssumption
  <2>6. e.hash \in applied
    BY <2>1, <2>5 DEF RecordsMirrorLedger
  <2> QED BY <2>1, <2>2, <2>6, ApplyIsFresh DEF Recorded
<1>2. RpcInit => RpcInv /\ MirrorInv
  BY RpcInvInit DEF RpcInit, Init, MirrorInv, RecordsMirrorLedger
<1>3. RpcInv /\ MirrorInv /\ [RpcNext]_rpcVars => RpcInv' /\ MirrorInv'
  BY RpcInvInductive, MirrorInductive
<1> QED BY <1>1, <1>2, <1>3, PTL DEF RpcSpec, OneFate
-----------------------------------------------------------------------------
(***************************************************************************)
(* The past of a ledger that has applied these hashes: what it applied     *)
(* once it still has as applied, or the test funded its source over since; *)
(* and so between two times it applied the same.                           *)
(***************************************************************************)
StillApplied(done, log) ==
  \A i \in DOMAIN log, e \in Envelopes : log[i] = Done(e) =>
    e.hash \in done \/ \E m \in i + 1 .. Len(log) : log[m] = FundedOver(e.source)
AppliedApart(log) ==
  \A i, j \in DOMAIN log, e \in Envelopes : (i < j /\ log[i] = Done(e) /\ log[j] = Done(e)) =>
    \E m \in i + 1 .. j - 1 : log[m] = FundedOver(e.source)
PastOK(done, log) == StillApplied(done, log) /\ AppliedApart(log)

PastInv ==
  /\ PastOK(applied, past)
  /\ \A id \in DOMAIN snapshots : PastOK(snapshots[id].applied, snapshots[id].past)

LEMMA DoneIsOf ==
  ASSUME NEW e, NEW f, NEW a
  PROVE  /\ Done(e) = Done(f) <=> e.hash = f.hash
         /\ Done(e) # FundedOver(a)
<1>1. Done(e).of = e.hash /\ Done(f).of = f.hash
  BY DEF Done
<1>2. Done(e).what = "applied" /\ FundedOver(a).what = "funded"
  BY DEF Done, FundedOver
<1>3. e.hash = f.hash => Done(e) = Done(f)
  BY DEF Done
<1> QED BY <1>1, <1>2, <1>3

LEMMA Appended ==
  ASSUME NEW log \in Seq(PastSteps), NEW step \in PastSteps
  PROVE  /\ Len(log) \in Nat /\ DOMAIN log = 1 .. Len(log)
         /\ Len(Append(log, step)) = Len(log) + 1
         /\ DOMAIN Append(log, step) = 1 .. Len(log) + 1
         /\ Append(log, step)[Len(log) + 1] = step
         /\ \A i \in 1 .. Len(log) : Append(log, step)[i] = log[i]
  OBVIOUS

LEMMA ApplyKeepsPast ==
  ASSUME NEW done, NEW log \in Seq(PastSteps), PastOK(done, log),
         NEW e \in Envelopes, e.hash \notin done
  PROVE  PastOK(done \cup {e.hash}, Append(log, Done(e)))
<1> DEFINE n == Len(log)
           new == Append(log, Done(e))
<1>1. /\ n \in Nat /\ DOMAIN log = 1 .. n /\ DOMAIN new = 1 .. n + 1 /\ Len(new) = n + 1
      /\ new[n + 1] = Done(e) /\ \A i \in 1 .. n : new[i] = log[i]
  BY Appended DEF PastSteps
<1> HIDE DEF n, new
<1>2. ASSUME NEW i \in 1 .. n, NEW f \in Envelopes, new[i] = Done(f)
      PROVE  f.hash \in done \/ \E m \in i + 1 .. n : new[m] = FundedOver(f.source)
  <2>1. f.hash \in done \/ \E m \in i + 1 .. n : log[m] = FundedOver(f.source)
    BY <1>1, <1>2 DEF PastOK, StillApplied, n
  <2> QED BY <1>1, <2>1
<1>3. StillApplied(done \cup {e.hash}, new)
  <2> SUFFICES ASSUME NEW i \in DOMAIN new, NEW f \in Envelopes, new[i] = Done(f)
               PROVE  \/ f.hash \in done \cup {e.hash}
                      \/ \E m \in i + 1 .. Len(new) : new[m] = FundedOver(f.source)
    BY DEF StillApplied
  <2>1. CASE i = n + 1
    BY <1>1, <2>1, DoneIsOf
  <2>2. CASE i \in 1 .. n
    BY <1>1, <1>2, <2>2
  <2> QED BY <1>1, <2>1, <2>2
<1>4. AppliedApart(new)
  <2> SUFFICES ASSUME NEW i \in DOMAIN new, NEW j \in DOMAIN new, NEW f \in Envelopes, i < j,
                      new[i] = Done(f), new[j] = Done(f)
               PROVE  \E m \in i + 1 .. j - 1 : new[m] = FundedOver(f.source)
    BY DEF AppliedApart
  <2>1. CASE j = n + 1
    <3>1. f.hash \notin done
      BY <1>1, <2>1, DoneIsOf
    <3>2. PICK m \in i + 1 .. n : new[m] = FundedOver(f.source)
      BY <1>1, <1>2, <2>1, <3>1
    <3> QED BY <1>1, <2>1, <3>2
  <2>2. CASE j \in 1 .. n
    <3>1. i \in DOMAIN log /\ j \in DOMAIN log /\ log[i] = Done(f) /\ log[j] = Done(f)
      BY <1>1, <2>2
    <3>2. PICK m \in i + 1 .. j - 1 : log[m] = FundedOver(f.source)
      BY <3>1 DEF PastOK, AppliedApart
    <3> QED BY <1>1, <2>2, <3>2
  <2> QED BY <1>1, <2>1, <2>2
<1> QED BY <1>3, <1>4 DEF PastOK, new

LEMMA FundKeepsPast ==
  ASSUME NEW done, NEW log \in Seq(PastSteps), PastOK(done, log), NEW a \in Accounts
  PROVE  PastOK(done \ {e.hash : e \in {f \in Envelopes : f.source = a}},
                Append(log, FundedOver(a)))
<1> DEFINE n == Len(log)
           new == Append(log, FundedOver(a))
           left == done \ {e.hash : e \in {f \in Envelopes : f.source = a}}
<1>1. /\ n \in Nat /\ DOMAIN log = 1 .. n /\ DOMAIN new = 1 .. n + 1 /\ Len(new) = n + 1
      /\ new[n + 1] = FundedOver(a) /\ \A i \in 1 .. n : new[i] = log[i]
  BY Appended DEF PastSteps
<1> HIDE DEF n, new
<1>2. \A i \in DOMAIN new, f \in Envelopes :
        new[i] = Done(f) => i \in 1 .. n /\ i \in DOMAIN log /\ log[i] = Done(f)
  BY <1>1, DoneIsOf
<1>3. StillApplied(left, new)
  <2> SUFFICES ASSUME NEW i \in DOMAIN new, NEW f \in Envelopes, new[i] = Done(f)
               PROVE  \/ f.hash \in left
                      \/ \E m \in i + 1 .. n + 1 : new[m] = FundedOver(f.source)
    BY <1>1 DEF StillApplied
  <2>1. i \in 1 .. n /\ log[i] = Done(f)
    BY <1>2
  <2>2. CASE f.source = a
    BY <1>1, <2>1, <2>2
  <2>3. CASE f.source # a /\ f.hash \in done
    BY <2>3, HashAssumption
  <2>4. ASSUME NEW m \in i + 1 .. n, log[m] = FundedOver(f.source)
        PROVE  \E k \in i + 1 .. n + 1 : new[k] = FundedOver(f.source)
    BY <1>1, <2>1, <2>4
  <2>5. f.hash \in done \/ \E m \in i + 1 .. n : log[m] = FundedOver(f.source)
    BY <1>1, <2>1 DEF PastOK, StillApplied, n
  <2> QED BY <2>2, <2>3, <2>4, <2>5
<1>4. AppliedApart(new)
  <2> SUFFICES ASSUME NEW i \in DOMAIN new, NEW j \in DOMAIN new, NEW f \in Envelopes, i < j,
                      new[i] = Done(f), new[j] = Done(f)
               PROVE  \E m \in i + 1 .. j - 1 : new[m] = FundedOver(f.source)
    BY DEF AppliedApart
  <2>1. /\ i \in DOMAIN log /\ j \in DOMAIN log /\ log[i] = Done(f) /\ log[j] = Done(f)
        /\ i \in 1 .. n /\ j \in 1 .. n
    BY <1>2
  <2>2. PICK m \in i + 1 .. j - 1 : log[m] = FundedOver(f.source)
    BY <2>1 DEF PastOK, AppliedApart
  <2> QED BY <1>1, <2>1, <2>2
<1> QED BY <1>3, <1>4 DEF PastOK, new

LEMMA PastInvInductive ==
  ASSUME SequenceCheck, RpcInv, PastInv, [RpcNext]_rpcVars
  PROVE  PastInv'
<1>1. TypeOK /\ SeqCoversApplied /\ LedgerInv /\ ServerInv /\ past \in Seq(PastSteps)
  BY DEF RpcInv, LedgerInv, ServerInv
<1>2. PastOK(applied', past')
  <2>1. CASE UNCHANGED <<applied, past>>
    BY <2>1 DEF PastInv
  <2>2. ASSUME NEW e \in Envelopes, Recorded(e)
        PROVE  PastOK(applied', past')
    <3>1. applied' = applied \cup {e.hash} /\ past' = Append(past, Done(e))
      BY <2>2 DEF Recorded, ApplyEffects
    <3>2. e.hash \notin applied
      BY <1>1, <2>2, ApplyIsFresh DEF Recorded
    <3> QED BY <1>1, <3>1, <3>2, ApplyKeepsPast DEF PastInv
  <2>3. CASE Airdropped
    <3>1. PICK a \in Accounts : accounts[a] = None /\ Fund(a, FriendbotAccount)
      BY <2>3 DEF Airdropped
    <3>2. \A e \in Envelopes : e.source = a => e.hash \notin applied
      BY <1>1, <3>1 DEF SeqCoversApplied
    <3>3. applied' = applied /\ past' = past
      BY <2>3, <3>1, <3>2 DEF Fund, Airdropped, history
    <3> QED BY <2>1, <3>3
  <2>4. ASSUME NEW a \in Accounts, FundDirectly(a)
        PROVE  PastOK(applied', past')
    <3>1. /\ past' = Append(past, FundedOver(a))
          /\ applied' = applied \ {e.hash : e \in {f \in Envelopes : f.source = a}}
      BY <2>4 DEF FundDirectly, Fund
    <3> QED BY <1>1, <3>1, FundKeepsPast DEF PastInv
  <2>5. ASSUME NEW id \in DOMAIN snapshots, RestoreSnapshot(id)
        PROVE  PastOK(applied', past')
    BY <2>5 DEF RestoreSnapshot, PastInv
  <2> QED
    BY <1>1, <2>1, <2>2, <2>3, <2>4, <2>5, StepCases
    DEF TestStep, PassLedger, AdvanceLedgers, TakeSnapshot, ledger, history
<1>3. \A id \in DOMAIN snapshots' : PastOK(snapshots'[id].applied, snapshots'[id].past)
  <2>1. CASE UNCHANGED snapshots
    BY <2>1 DEF PastInv
  <2>2. CASE TakeSnapshot
    <3>1. PICK s : snapshots' = Append(snapshots, s) /\ s.applied = applied /\ s.past = past
      BY <2>2 DEF TakeSnapshot
    <3>2. \A id \in DOMAIN snapshots' :
            (id \in DOMAIN snapshots /\ snapshots'[id] = snapshots[id]) \/ snapshots'[id] = s
      BY <1>1, <3>1 DEF LedgerInv
    <3> QED BY <3>1, <3>2 DEF PastInv
  <2> QED
    BY <1>1, <2>1, <2>2, StepCases
    DEF test, Airdropped, TestStep, FundDirectly, PassLedger, RestoreSnapshot
<1> QED BY <1>2, <1>3 DEF PastInv
-----------------------------------------------------------------------------
(***************************************************************************)
(* Jobs.  What the past has of an application's job: nothing before its    *)
(* submission was told PENDING, and then only that envelope; now and in    *)
(* every snapshot.                                                         *)
(***************************************************************************)
JobsIn(c, log) == {e.hash : e \in {f \in Jobs[c] : \E i \in DOMAIN log : log[i] = Done(f)}}
Pending(c) == IF clients[c].phase \in {"waiting", "done"} THEN {clients[c].env.hash} ELSE {}

JobsInv ==
  \A c \in Clients :
    /\ JobsIn(c, past) \subseteq Pending(c)
    /\ \A id \in DOMAIN snapshots : JobsIn(c, snapshots[id].past) \subseteq Pending(c)

LEMMA PendingGrows ==
  ASSUME ServerInv, [RpcNext]_rpcVars, NEW c \in Clients
  PROVE  Pending(c) \subseteq Pending(c)'
<1>1. CASE clients'[c] = clients[c]
  BY <1>1 DEF Pending
<1>2. CASE ClientStep(c) \/ Resubmit(c)
  <2> SUFFICES ASSUME clients[c].phase \in {"waiting", "done"}
               PROVE  /\ clients'[c].phase \in {"waiting", "done"}
                      /\ clients'[c].env = clients[c].env
    BY DEF Pending
  <2>1. CASE Resubmit(c)
    BY <2>1 DEF Resubmit, Client, ClientMoves, ServerInv, ClientStates
  <2>2. CASE Poll(c)
    BY <2>2 DEF Poll, ClientMoves, ServerInv, ClientStates
  <2> QED BY <1>2, <2>1, <2>2 DEF ClientStep, LookUp, RequestAirdrop, Build, Submit, Client
<1>3. ASSUME NEW d \in Clients, d # c, ClientStep(d) \/ Resubmit(d)
      PROVE  clients'[c] = clients[c]
  <2>1. PICK s : ClientMoves(d, s)
    BY <1>3, ClientMoveOK
  <2> QED BY <1>3, <2>1 DEF ClientMoves, ServerInv
<1>4. CASE UNCHANGED clients
  BY <1>1, <1>4
<1> QED
  BY <1>1, <1>2, <1>3, <1>4
  DEF RpcNext, rpcVars, ReadEvents, TestStep, FundDirectly, PassLedger, TakeSnapshot,
      RestoreSnapshot

\* A step that applies a transaction, and whose.
LEMMA JobApplied ==
  ASSUME TypeOK, ServerInv, NEW c \in Clients, NEW d \in Clients, Submit(d) \/ Resubmit(d),
         JobsIn(c, past) \subseteq Pending(c), Pending(c) \subseteq Pending(c)'
  PROVE  JobsIn(c, past') \subseteq Pending(c)'
<1> DEFINE e == clients[d].env
<1>1. e \in Jobs[d] /\ e \in Envelopes /\ SendTransaction(e)
  BY SubmittedEnvelope
<1>2. CASE UNCHANGED past
  BY <1>2 DEF JobsIn
<1>3. CASE Recorded(e)
  <2>1. past' = Append(past, Done(e)) /\ ~Refused(outcome')
    BY <1>3 DEF Recorded
  <2>2. ASSUME NEW f \in Jobs[c], NEW i \in DOMAIN past', past'[i] = Done(f)
        PROVE  f.hash \in JobsIn(c, past) \/ f.hash = e.hash
    <3>1. Done(e) \in PastSteps /\ past \in Seq(PastSteps)
      BY <1>1 DEF PastSteps, ServerInv
    <3>2. \/ i \in DOMAIN past /\ past[i] = Done(f)
          \/ Done(e) = Done(f)
      BY <2>1, <2>2, <3>1, Appended
    <3> QED BY <3>2, DoneIsOf DEF JobsIn
  <2>3. CASE c = d
    <3>1. clients'[c].phase = "waiting" /\ clients'[c].env = e
      <4>1. clients \in [Clients -> ClientStates] /\ clients[c] \in ClientStates
        BY DEF ServerInv
      <4>2. CASE Submit(c)
        <5>1. ClientMoves(c, [clients[c] EXCEPT !.phase = "waiting", !.answer = "PENDING"])
          BY <2>1, <4>2 DEF Submit
        <5> QED BY <2>3, <4>1, <5>1 DEF ClientMoves, ClientStates
      <4>3. CASE Resubmit(c)
        BY <2>3, <4>1, <4>3 DEF Resubmit, Client, ClientMoves, ClientStates
      <4> QED BY <2>3, <4>2, <4>3
    <3>2. Pending(c)' = {e.hash}
      BY <3>1 DEF Pending
    <3> QED BY <2>2, <3>2 DEF JobsIn
  <2>4. CASE c # d
    <3>1. \A f \in Jobs[c] : f.hash # e.hash
      BY <1>1, <2>4, JobsAssumption
    <3> QED BY <2>2, <3>1 DEF JobsIn
  <2> QED BY <2>3, <2>4
<1> QED BY <1>1, <1>2, <1>3, SendFacts DEF history

\* The test's funding is no application's job.
LEMMA FundingIsNoJob ==
  ASSUME ServerInv, NEW c \in Clients, NEW a \in Accounts
  PROVE  JobsIn(c, Append(past, FundedOver(a))) \subseteq JobsIn(c, past)
<1>1. FundedOver(a) \in PastSteps /\ past \in Seq(PastSteps)
  BY DEF PastSteps, ServerInv
<1>2. \A f \in Jobs[c], i \in DOMAIN Append(past, FundedOver(a)) :
        Append(past, FundedOver(a))[i] = Done(f) => i \in DOMAIN past /\ past[i] = Done(f)
  BY <1>1, Appended, DoneIsOf
<1> QED BY <1>2 DEF JobsIn

LEMMA JobsInductive ==
  ASSUME RpcInv, JobsInv, [RpcNext]_rpcVars
  PROVE  JobsInv'
<1>1. TypeOK /\ ServerInv /\ LedgerInv
  BY DEF RpcInv, LedgerInv
<1> SUFFICES ASSUME NEW c \in Clients
             PROVE  /\ JobsIn(c, past') \subseteq Pending(c)'
                    /\ \A id \in DOMAIN snapshots' :
                         JobsIn(c, snapshots'[id].past) \subseteq Pending(c)'
  BY DEF JobsInv, JobsIn
<1>2. Pending(c) \subseteq Pending(c)' /\ JobsIn(c, past) \subseteq Pending(c)
  BY <1>1, PendingGrows DEF JobsInv
<1>3. JobsIn(c, past') \subseteq Pending(c)'
  <2>1. CASE UNCHANGED past
    BY <1>2, <2>1 DEF JobsIn
  <2>2. ASSUME NEW d \in Clients, Submit(d) \/ Resubmit(d)
        PROVE  JobsIn(c, past') \subseteq Pending(c)'
    BY <1>1, <1>2, <2>2, JobApplied
  <2>3. ASSUME NEW id \in DOMAIN snapshots, RestoreSnapshot(id)
        PROVE  JobsIn(c, past') \subseteq Pending(c)'
    BY <1>2, <2>3 DEF RestoreSnapshot, JobsInv
  <2>4. ASSUME NEW d \in Clients, LookUp(d) \/ RequestAirdrop(d) \/ Build(d) \/ Poll(d)
        PROVE  UNCHANGED past
    BY <2>4 DEF LookUp, RequestAirdrop, Build, Poll, history
  <2>5. CASE ReadEvents \/ PassLedger \/ TakeSnapshot \/ UNCHANGED rpcVars
    BY <2>1, <2>5 DEF ReadEvents, PassLedger, TakeSnapshot, rpcVars, history
  <2>6. ASSUME NEW a \in Accounts, FundDirectly(a)
        PROVE  JobsIn(c, past') \subseteq Pending(c)'
    <3>1. past' = Append(past, FundedOver(a))
      BY <2>6 DEF FundDirectly
    <3> QED BY <1>1, <1>2, <3>1, FundingIsNoJob
  <2> QED BY <2>1, <2>2, <2>3, <2>4, <2>5, <2>6 DEF RpcNext, ClientStep, TestStep
<1>4. \A id \in DOMAIN snapshots' : JobsIn(c, snapshots'[id].past) \subseteq Pending(c)'
  <2>1. CASE UNCHANGED snapshots
    BY <1>2, <2>1 DEF JobsInv
  <2>2. CASE TakeSnapshot
    <3>1. PICK s : snapshots' = Append(snapshots, s) /\ s.past = past
      BY <2>2 DEF TakeSnapshot
    <3>2. \A id \in DOMAIN snapshots' :
            (id \in DOMAIN snapshots /\ snapshots'[id] = snapshots[id]) \/ snapshots'[id] = s
      BY <1>1, <3>1 DEF LedgerInv
    <3> QED BY <1>2, <3>1, <3>2 DEF JobsInv
  <2> QED
    BY <1>1, <2>1, <2>2, StepCases
    DEF test, Airdropped, TestStep, FundDirectly, PassLedger, RestoreSnapshot
<1> QED BY <1>3, <1>4

(***************************************************************************)
(* With sequence numbers checked, an application that keeps to one         *)
(* envelope once it was told PENDING has its job done once in the past of  *)
(* the ledger as it is, unless the test funds its account over: a retry    *)
(* becomes no second transaction (JobsInv), and none is applied again      *)
(* (PastInv).                                                              *)
(***************************************************************************)
THEOREM JobsOnce ==
  ASSUME SequenceCheck
  PROVE  RpcSpec => []JobsAppliedOnce
<1>1. RpcInit => RpcInv /\ PastInv /\ JobsInv
  BY RpcInvInit DEF RpcInit, PastInv, PastOK, StillApplied, AppliedApart, JobsInv, JobsIn
<1>2. RpcInv /\ PastInv /\ JobsInv /\ [RpcNext]_rpcVars => RpcInv' /\ PastInv' /\ JobsInv'
  BY RpcInvInductive, PastInvInductive, JobsInductive
<1>3. PastInv /\ JobsInv => JobsAppliedOnce
  <2> SUFFICES ASSUME PastInv, JobsInv, NEW c \in Clients, NEW e \in Jobs[c], NEW f \in Jobs[c],
                      NEW i \in DOMAIN past, NEW j \in DOMAIN past, i < j,
                      past[i] = Done(e), past[j] = Done(f)
               PROVE  \E m \in i + 1 .. j - 1 : past[m] = FundedOver(f.source)
    BY DEF JobsAppliedOnce
  <2>1. e.hash \in JobsIn(c, past) /\ f.hash \in JobsIn(c, past)
    BY DEF JobsIn
  <2>2. e.hash = f.hash
    BY <2>1 DEF JobsInv, Pending
  <2>3. Done(e) = Done(f) /\ f \in Envelopes
    BY <2>2, DoneIsOf, JobsAreEnvelopes
  <2> QED BY <2>3 DEF PastInv, PastOK, AppliedApart
<1> QED BY <1>1, <1>2, <1>3, PTL DEF RpcSpec
-----------------------------------------------------------------------------
(***************************************************************************)
(* Events.  As long as the test has not gone back, the log has only events *)
(* of closed ledgers, and the reader is never ahead of the open one.       *)
(***************************************************************************)
EventsInv ==
  /\ reader.next \in Nat
  /\ restores = 0 =>
       /\ \A i \in DOMAIN eventLog : eventLog[i].ledger < ledgerSeq
       /\ reader.next <= ledgerSeq
  /\ ReaderExact

\* The events of ledgers before a given one, by their places in the log.
LEMMA IdsArePlaces ==
  ASSUME ServerInv, NEW S \in SUBSET DOMAIN eventLog
  PROVE  {eventLog[i].id : i \in S} = S
  BY DEF ServerInv

LEMMA EventLedgers ==
  ASSUME ServerInv
  PROVE  \A j \in DOMAIN eventLog : eventLog[j].ledger \in Nat
<1>1. \A j \in DOMAIN eventLog : eventLog[j] \in Events
  BY DEF ServerInv
<1> QED BY <1>1 DEF Events

\* What the reader has been given is what lies before its next ledger.
LEMMA GivenSoFar ==
  ASSUME ServerInv, ReaderExact, restores = 0
  PROVE  /\ reader.once = {j \in DOMAIN eventLog : eventLog[j].ledger < reader.next}
         /\ reader.again = {}
         /\ GetEvents(reader.next) = {j \in DOMAIN eventLog : eventLog[j].ledger >= reader.next}
<1> DEFINE before == {j \in DOMAIN eventLog : eventLog[j].ledger < reader.next}
           from == {j \in DOMAIN eventLog : eventLog[j].ledger >= reader.next}
<1>1. /\ reader.once = {eventLog[i].id : i \in before}
      /\ GetEvents(reader.next) = {eventLog[i].id : i \in from}
      /\ reader.again = {}
  BY DEF ReaderExact, GetEvents
<1>2. before \in SUBSET DOMAIN eventLog /\ from \in SUBSET DOMAIN eventLog
  OBVIOUS
<1> HIDE DEF before, from
<1>3. {eventLog[i].id : i \in before} = before
  BY <1>2, IdsArePlaces
<1>4. {eventLog[i].id : i \in from} = from
  BY <1>2, IdsArePlaces
<1> QED BY <1>1, <1>3, <1>4 DEF before, from

LEMMA ReadingKeepsEvents ==
  ASSUME TypeOK, ServerInv, EventsInv, ReadEvents
  PROVE  EventsInv'
<1> DEFINE before == {j \in DOMAIN eventLog : eventLog[j].ledger < reader.next}
           from == {j \in DOMAIN eventLog : eventLog[j].ledger >= reader.next}
<1>1. /\ reader'.next = LastClosed + 1
      /\ reader'.once = reader.once \cup GetEvents(reader.next)
      /\ reader'.again = reader.again \cup (reader.once \cap GetEvents(reader.next))
      /\ restores = 0 /\ UNCHANGED <<eventLog, ledgerSeq, restores>>
  BY DEF ReadEvents, ledger, server, test
<1>2. ledgerSeq \in Nat /\ reader'.next = ledgerSeq /\ reader.next \in Nat
  BY <1>1 DEF LastClosed, TypeOK, EventsInv
<1>3. \A j \in DOMAIN eventLog : eventLog[j].ledger \in Nat /\ eventLog[j].ledger < ledgerSeq
  BY <1>1, EventLedgers DEF EventsInv
<1>4. GetEvents(reader.next) = from /\ reader.once = before /\ reader.again = {}
  BY <1>1, GivenSoFar DEF EventsInv
<1>5. before \cup from = DOMAIN eventLog /\ before \cap from = {}
  BY <1>2, <1>3
<1>6. {j \in DOMAIN eventLog : eventLog[j].ledger < reader'.next} = DOMAIN eventLog
  BY <1>2, <1>3
<1>7. reader'.once = DOMAIN eventLog /\ reader'.again = {}
  BY <1>1, <1>4, <1>5
<1>8. reader'.once = {eventLog[i].id : i \in {j \in DOMAIN eventLog :
                                               eventLog[j].ledger < reader'.next}}
  BY <1>6, <1>7, IdsArePlaces
<1> QED BY <1>1, <1>2, <1>3, <1>7, <1>8 DEF EventsInv, ReaderExact

LEMMA RecordingKeepsEvents ==
  ASSUME TypeOK, ServerInv, EventsInv, NEW e \in Envelopes, Recorded(e),
         UNCHANGED <<test, reader>>
  PROVE  EventsInv'
<1>1. PICK n \in Nat : eventLog' = Logged(e, n)
  BY DEF Recorded
<1>2. /\ ledgerSeq' = ledgerSeq + 1 /\ ledgerSeq \in Nat /\ reader.next \in Nat
      /\ UNCHANGED <<restores, reader>>
  BY DEF Recorded, TypeOK, EventsInv, test
<1>3. /\ DOMAIN eventLog \subseteq DOMAIN eventLog'
      /\ \A i \in DOMAIN eventLog' :
           /\ eventLog'[i].id = i
           /\ i \in DOMAIN eventLog => eventLog'[i] = eventLog[i]
           /\ i \notin DOMAIN eventLog => eventLog'[i].ledger = ledgerSeq
  <2>1. /\ DOMAIN eventLog \subseteq DOMAIN Logged(e, n)
        /\ \A i \in DOMAIN Logged(e, n) :
             /\ Logged(e, n)[i].id = i
             /\ i \in DOMAIN eventLog => Logged(e, n)[i] = eventLog[i]
             /\ i \notin DOMAIN eventLog => Logged(e, n)[i].ledger = ledgerSeq
    BY <1>2, EventsAppended DEF ServerInv
  <2> QED BY <1>1, <2>1
<1> SUFFICES ASSUME restores = 0
             PROVE  /\ \A i \in DOMAIN eventLog' : eventLog'[i].ledger < ledgerSeq'
                    /\ reader.next <= ledgerSeq'
                    /\ reader.once = {eventLog'[i].id : i \in {j \in DOMAIN eventLog' :
                                                       eventLog'[j].ledger < reader.next}}
                    /\ reader.again = {}
  BY <1>2 DEF EventsInv, ReaderExact
<1>4. \A j \in DOMAIN eventLog : eventLog[j].ledger \in Nat /\ eventLog[j].ledger < ledgerSeq
  BY EventLedgers DEF EventsInv
<1>5. \A i \in DOMAIN eventLog' : eventLog'[i].ledger < ledgerSeq'
  BY <1>2, <1>3, <1>4
<1>6. reader.next <= ledgerSeq
  BY DEF EventsInv
<1>7. {j \in DOMAIN eventLog' : eventLog'[j].ledger < reader.next}
        = {j \in DOMAIN eventLog : eventLog[j].ledger < reader.next}
  BY <1>2, <1>3, <1>4, <1>6
<1>8. reader.once = {j \in DOMAIN eventLog : eventLog[j].ledger < reader.next}
  BY GivenSoFar DEF EventsInv
<1>9. {eventLog'[i].id : i \in {j \in DOMAIN eventLog' : eventLog'[j].ledger < reader.next}}
        = {j \in DOMAIN eventLog' : eventLog'[j].ledger < reader.next}
  BY <1>3
<1>10. reader.again = {} /\ reader.next <= ledgerSeq'
  BY <1>2, <1>6, GivenSoFar DEF EventsInv
<1> QED BY <1>5, <1>7, <1>8, <1>9, <1>10

LEMMA EventsInductive ==
  ASSUME RpcInv, EventsInv, [RpcNext]_rpcVars
  PROVE  EventsInv'
<1>1. TypeOK /\ ServerInv /\ ledgerSeq \in Nat
  BY DEF RpcInv, LedgerInv, TypeOK
<1>2. CASE ReadEvents
  BY <1>1, <1>2, ReadingKeepsEvents
<1>3. ASSUME NEW e \in Envelopes, Recorded(e), UNCHANGED <<test, reader>>
      PROVE  EventsInv'
  BY <1>1, <1>3, RecordingKeepsEvents
<1>4. CASE /\ UNCHANGED <<eventLog, reader, restores>>
           /\ ledgerSeq' \in {ledgerSeq, ledgerSeq + 1}
  <2>1. \A j \in DOMAIN eventLog : eventLog[j].ledger \in Nat
    BY <1>1, EventLedgers
  <2> QED BY <1>1, <1>4, <2>1 DEF EventsInv, ReaderExact
<1>5. ASSUME NEW id \in DOMAIN snapshots, RestoreSnapshot(id)
      PROVE  EventsInv'
  <2>1. restores' # 0 /\ reader' = reader
    BY <1>1, <1>5, ClientsAssumption DEF RestoreSnapshot, ServerInv
  <2> QED BY <2>1 DEF EventsInv, ReaderExact
<1> QED
  BY <1>1, <1>2, <1>3, <1>4, <1>5, StepCases
  DEF ledger, server, test, Airdropped, Fund, TestStep, FundDirectly, PassLedger,
      AdvanceLedgers, TakeSnapshot

(***************************************************************************)
(* A reader that starts after the latest ledger it was told of misses no   *)
(* event and is given none twice: an event is dated with the ledger that   *)
(* closes over it.                                                         *)
(***************************************************************************)
THEOREM ReaderIsExact == RpcSpec => []ReaderExact
<1>1. RpcInit => RpcInv /\ EventsInv
  <2> SUFFICES ASSUME RpcInit
               PROVE  RpcInv /\ EventsInv
    OBVIOUS
  <2>1. /\ DOMAIN eventLog = {} /\ ledgerSeq \in Nat
        /\ reader.next = 0 /\ reader.once = {} /\ reader.again = {}
    BY NumbersAssumption DEF RpcInit, Init
  <2> QED BY <2>1, RpcInvInit DEF EventsInv, ReaderExact
<1>2. RpcInv /\ EventsInv /\ [RpcNext]_rpcVars => RpcInv' /\ EventsInv'
  BY RpcInvInductive, EventsInductive
<1>3. EventsInv => ReaderExact
  BY DEF EventsInv
<1> QED BY <1>1, <1>2, <1>3, PTL DEF RpcSpec
=============================================================================
