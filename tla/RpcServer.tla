----------------------------- MODULE RpcServer ------------------------------
(***************************************************************************)
(* The in-process RPC server (src/fake-rpc.ts) over a ledger, and what     *)
(* talks to it: applications that look their account up, ask friendbot for *)
(* it, build a transaction on the sequence number they read, submit it and *)
(* poll for its fate; a reader of the events; and the test that owns the   *)
(* ledger, which may fund accounts, let ledgers pass and go back in time.  *)
(* A request is answered in one step, as the adapter awaits nothing; the   *)
(* requests of different tasks interleave.                                 *)
(***************************************************************************)
EXTENDS ClassicTx

CONSTANTS
  Clients,            \* the applications
  Jobs,               \* of each application, the envelopes it may build
  FriendbotAccount,   \* the account friendbot creates
  EventCounts,        \* how many events an invocation may emit
  MaxInterference, MaxRestores   \* bounds: what the test does, how often it goes back

ASSUME ClientsAssumption ==
  /\ Jobs \in [Clients -> SUBSET Envelopes]
  /\ FriendbotAccount \in FundedAccounts
  /\ EventCounts \subseteq Nat
  /\ MaxInterference \in Nat /\ MaxRestores \in Nat

VARIABLES
  submitted,        \* the record of each hash submitted, or None
  eventLog,         \* the events of everything applied, as getEvents serves them
  snapshots,        \* what ledger.snapshot() kept; neither of the above is in it
  clients,          \* what each application is doing: its phase, envelope and answer
  reader,           \* the reader's next startLedger, and the events it was given
  restores,         \* history: how often the test went back
  loose,            \* history: the hashes whose record the test has taken out from
                    \* under: what they did is undone, or may be done again
  past              \* history: what the ledger as it is went through, in order

ledger == <<accounts, entries, ledgerSeq, timestamp, applied, credits, fundings>>
server == <<submitted, eventLog>>
test == <<snapshots, restores>>
history == <<loose, past>>
rpcVars == <<ledger, outcome, server, test, clients, reader, history>>
-----------------------------------------------------------------------------
\* The ledger a node reports as its latest; ledgerSeq is the open one.
LastClosed == ledgerSeq - 1

\* A fee bump is known by its own hash, not the hash of what it wraps.
RpcHash(e) == IF IsBump(e) THEN e.bumpHash ELSE e.hash
Hashes == {RpcHash(e) : e \in Envelopes}

\* The hash of a bump fixes what it wraps; applications do not share transactions.
ASSUME RpcHashAssumption ==
  \A e, f \in Envelopes : RpcHash(e) = RpcHash(f) => e.hash = f.hash
ASSUME JobsAssumption ==
  \A c, d \in Clients : c # d => \A e \in Jobs[c], f \in Jobs[d] : e.hash # f.hash

REJECTED_AT_SUBMIT ==
  {"txNO_ACCOUNT", "txBAD_SEQ", "txBAD_AUTH", "txBAD_AUTH_EXTRA", "txTOO_EARLY", "txTOO_LATE",
   "txBAD_MIN_SEQ_AGE_OR_GAP", "txMISSING_OPERATION", "txMALFORMED", "txSOROBAN_INVALID",
   "txINSUFFICIENT_FEE", "txINSUFFICIENT_BALANCE"}

\* Mutant of Refused: a transaction whose operation failed is an ERROR too.
Refused_Failed(o) == ~o.applied \/ o.code \in REJECTED_AT_SUBMIT \cup {"txFAILED"}

\* Answered ERROR, and forgotten.
Refused(o) == ~o.applied \/ o.code \in REJECTED_AT_SUBMIT

Records == [env : Envelopes, code : {"txSUCCESS", "txFAILED", "txFEE_BUMP_INNER_SUCCESS",
                                     "txFEE_BUMP_INNER_FAILED"}, ledger : Nat]
ASSUME RecordsAssumption == None \notin Records

Record(e, o) == [env |-> e, code |-> o.code, ledger |-> ledgerSeq]

\* Mutant of Stored: only what succeeded is kept.
Stored_Successes(e, o) ==
  IF o.ok THEN [submitted EXCEPT ![RpcHash(e)] = Record(e, o)] ELSE submitted

\* submitted.set: whatever the hash had before is overwritten.
Stored(e, o) == [submitted EXCEPT ![RpcHash(e)] = Record(e, o)]

\* Mutants of Logged: events are dated with the ledger that closed last; they
\* are numbered within their transaction.
Logged_LastClosed(e, n) ==
  eventLog \o [i \in 1 .. n |-> [ledger |-> LastClosed, txHash |-> RpcHash(e),
                                 id |-> Len(eventLog) + i]]
Logged_PerTransaction(e, n) ==
  eventLog \o [i \in 1 .. n |-> [ledger |-> ledgerSeq, txHash |-> RpcHash(e), id |-> i]]

Logged(e, n) ==
  eventLog \o [i \in 1 .. n |-> [ledger |-> ledgerSeq, txHash |-> RpcHash(e),
                                 id |-> Len(eventLog) + i]]

\* Mutant of CloseLedger: the ledger stays open.
CloseLedger_Open == UNCHANGED <<ledgerSeq, timestamp>>

(***************************************************************************)
(* The past of a ledger: what it applied, and the accounts the test funded *)
(* over, which forget what they sent.  A return sets it back; nothing else *)
(* takes anything out of it.                                               *)
(***************************************************************************)
Done(e) == [what |-> "applied", of |-> e.hash]
FundedOver(a) == [what |-> "funded", of |-> a]

\* advanceLedgers(1).
CloseLedger ==
  /\ ledgerSeq' = ledgerSeq + 1
  /\ timestamp' = timestamp + CLOSE_TIME

\* sendTransaction.
SendTransaction(e) ==
  /\ Reject(e) \/ (ApplyEffects(e) /\ UNCHANGED fundings)
  /\ past' = IF outcome'.applied THEN Append(past, Done(e)) ELSE past
  /\ \/ /\ Refused(outcome')
        /\ UNCHANGED <<server, ledgerSeq, timestamp, loose>>
     \/ /\ ~Refused(outcome')
        /\ \E n \in IF outcome'.ok /\ OpKind(e) = "invoke" THEN EventCounts ELSE {0} :
             eventLog' = Logged(e, n)
        /\ submitted' = Stored(e, outcome')
        /\ loose' = loose \ {RpcHash(e)}
        /\ CloseLedger

\* getTransaction.
StatusOf(record) ==
  CASE record = None -> "NOT_FOUND"
    [] record # None /\ record.code \in {"txSUCCESS", "txFEE_BUMP_INNER_SUCCESS"} -> "SUCCESS"
    [] record # None /\ record.code \notin {"txSUCCESS", "txFEE_BUMP_INNER_SUCCESS"} -> "FAILED"

\* Mutant of GetEvents: startLedger is exclusive.
GetEvents_Exclusive(startLedger) ==
  {eventLog[i].id : i \in {j \in DOMAIN eventLog : eventLog[j].ledger > startLedger}}

\* getEvents, without a filter or a limit: the events from startLedger on.
GetEvents(startLedger) ==
  {eventLog[i].id : i \in {j \in DOMAIN eventLog : eventLog[j].ledger >= startLedger}}

\* Mutant of Friendbot: it funds an account that is there.
Friendbot_Refunds(a) == Fund(a, FriendbotAccount)

\* friendbot: HTTP 400 for an account that exists, whose sequence, signers and
\* spent envelopes it would otherwise forget.
Friendbot(a) ==
  \/ accounts[a] # None /\ outcome' = None /\ UNCHANGED ledger
  \/ accounts[a] = None /\ Fund(a, FriendbotAccount)
-----------------------------------------------------------------------------
(***************************************************************************)
(* An application.  It waits for a transaction it was told is PENDING, and *)
(* while it waits it may submit it again; told ERROR the first time, it    *)
(* builds another.                                                         *)
(***************************************************************************)
Idle == [phase |-> "idle", env |-> None, answer |-> None]
Missing(c) ==
  {a \in UNION {{e.source, PayerOf(e)} : e \in Jobs[c]} : accounts[a] = None}

Client(c, phase) == clients[c].phase = phase
ClientMoves(c, state) == clients' = [clients EXCEPT ![c] = state]

\* requestAirdrop: decided on an earlier look at the account.
LookUp(c) ==
  /\ Client(c, "idle")
  /\ \E a \in Missing(c) : ClientMoves(c, [Idle EXCEPT !.phase = "unfunded", !.env = a])
  /\ outcome' = None
  /\ UNCHANGED <<ledger, server, test, reader, history>>

RequestAirdrop(c) ==
  /\ Client(c, "unfunded")
  /\ Friendbot(clients[c].env)
  /\ ClientMoves(c, Idle)
  /\ UNCHANGED <<server, test, reader, history>>

\* getAccount, simulateTransaction and assembleTransaction, which change nothing:
\* an envelope on the sequence number after the one read.
Build(c) ==
  /\ Client(c, "idle")
  /\ Missing(c) = {}
  /\ \E e \in Jobs[c] :
       /\ e.seqNum = accounts[e.source].seqNum + 1
       /\ ClientMoves(c, [Idle EXCEPT !.phase = "built", !.env = e])
  /\ outcome' = None
  /\ UNCHANGED <<ledger, server, test, reader, history>>

Submit(c) ==
  /\ Client(c, "built")
  /\ SendTransaction(clients[c].env)
  /\ ClientMoves(c, IF Refused(outcome') THEN Idle
                    ELSE [clients[c] EXCEPT !.phase = "waiting", !.answer = "PENDING"])
  /\ UNCHANGED <<test, reader>>

Resubmit(c) ==
  /\ Client(c, "waiting")
  /\ SendTransaction(clients[c].env)
  /\ ClientMoves(c, [clients[c] EXCEPT !.answer = IF Refused(outcome') THEN "ERROR" ELSE "PENDING"])
  /\ UNCHANGED <<test, reader>>

Poll(c) ==
  /\ Client(c, "waiting")
  /\ LET status == StatusOf(submitted[RpcHash(clients[c].env)])
     IN  /\ status # "NOT_FOUND"
         /\ ClientMoves(c, [clients[c] EXCEPT !.phase = "done", !.answer = status])
  /\ outcome' = None
  /\ UNCHANGED <<ledger, server, test, reader, history>>

ClientStep(c) == LookUp(c) \/ RequestAirdrop(c) \/ Build(c) \/ Submit(c) \/ Poll(c)

(***************************************************************************)
(* The reader asks for the events after the latest ledger it was told of,  *)
(* as long as the test has not gone back: the log then has later events in *)
(* ledgers it was told of before.                                          *)
(***************************************************************************)
ReadEvents ==
  /\ restores = 0
  /\ LET page == GetEvents(reader.next)
     IN  reader' = [next |-> LastClosed + 1, once |-> reader.once \cup page,
                    again |-> reader.again \cup (reader.once \cap page)]
  /\ outcome' = None
  /\ UNCHANGED <<ledger, server, test, clients, history>>
-----------------------------------------------------------------------------
(***************************************************************************)
(* The test.                                                               *)
(***************************************************************************)
RecordsOf(a) == {h \in Hashes : submitted[h] # None /\ submitted[h].env.source = a}

\* Bound: the fundings and snapshots of the test, with room for friendbot's.
MayInterfere ==
  fundings + Cardinality({a \in Accounts : accounts[a] = None}) + Len(snapshots)
    < MaxInterference

FundDirectly(a) ==
  /\ MayInterfere
  /\ \E acct \in FundedAccounts : Fund(a, acct)
  /\ loose' = loose \cup RecordsOf(a)
  /\ past' = Append(past, FundedOver(a))
  /\ UNCHANGED <<server, test, clients, reader>>

PassLedger ==
  /\ AdvanceLedgers(1)
  /\ UNCHANGED <<server, test, clients, reader, history>>

\* History: the records, the loose hashes and the past at the time are kept as
\* well, to tell what was recorded since and what the ledger went through.
TakeSnapshot ==
  /\ MayInterfere
  /\ snapshots' = Append(snapshots,
       [accounts |-> accounts, entries |-> entries, ledgerSeq |-> ledgerSeq,
        timestamp |-> timestamp, applied |-> applied, credits |-> credits,
        fundings |-> fundings, submitted |-> submitted, loose |-> loose, past |-> past])
  /\ outcome' = None
  /\ UNCHANGED <<ledger, server, restores, clients, reader, history>>

\* The ledger goes back; the server's records and events stay.
RestoreSnapshot(id) ==
  LET s == snapshots[id]
  IN  /\ restores < MaxRestores
      /\ restores' = restores + 1
      /\ accounts' = s.accounts /\ entries' = s.entries
      /\ ledgerSeq' = s.ledgerSeq /\ timestamp' = s.timestamp
      /\ applied' = s.applied /\ credits' = s.credits /\ fundings' = s.fundings
      /\ loose' = s.loose \cup {h \in Hashes : submitted[h] # s.submitted[h]}
      /\ past' = s.past
      /\ outcome' = None
      /\ UNCHANGED <<server, snapshots, clients, reader>>

TestStep ==
  \/ \E a \in Accounts : FundDirectly(a)
  \/ PassLedger
  \/ TakeSnapshot
  \/ \E id \in DOMAIN snapshots : RestoreSnapshot(id)
-----------------------------------------------------------------------------
RpcInit ==
  /\ Init
  /\ submitted = [h \in Hashes |-> None]
  /\ eventLog = <<>>
  /\ snapshots = <<>> /\ restores = 0 /\ loose = {} /\ past = <<>>
  /\ clients = [c \in Clients |-> Idle]
  /\ reader = [next |-> 0, once |-> {}, again |-> {}]

RpcNext ==
  \/ \E c \in Clients : ClientStep(c) \/ Resubmit(c)
  \/ ReadEvents
  \/ TestStep

(***************************************************************************)
(* Applications and the reader go on as long as they have something to do: *)
(* the adapter answers every request.  Nobody is obliged to submit again,  *)
(* and the test to nothing.                                                *)
(***************************************************************************)
Fairness == /\ \A c \in Clients : WF_rpcVars(ClientStep(c))
            /\ WF_rpcVars(ReadEvents)

RpcSpec == RpcInit /\ [][RpcNext]_rpcVars /\ Fairness
-----------------------------------------------------------------------------
(***************************************************************************)
(* Types; events are numbered through the whole log, across transactions   *)
(* and returns in time, and records are made of what the ledger applied.   *)
(***************************************************************************)
Phases == {"idle", "unfunded", "built", "waiting", "done"}
ServerTypeOK ==
  /\ submitted \in [Hashes -> Records \cup {None}]
  /\ \A h \in Hashes : submitted[h] # None => RpcHash(submitted[h].env) = h
  /\ \A i \in DOMAIN eventLog : eventLog[i].id = i
  /\ \A c \in Clients : /\ clients[c].phase \in Phases
                        /\ clients[c].phase \in {"built", "waiting"} => clients[c].env \in Jobs[c]
  /\ loose \subseteq {h \in Hashes : submitted[h] # None}
  /\ restores \in 0 .. MaxRestores

(***************************************************************************)
(* The server's records and the ledger agree: everything the ledger        *)
(* applied has a record, and every record is of something the ledger       *)
(* applied, in a ledger that has closed, unless the test itself took it    *)
(* back.  A return to a snapshot leaves the records made before it true.   *)
(***************************************************************************)
RecordsMirrorLedger ==
  /\ \A e \in Envelopes : e.hash \in applied =>
       \E f \in Envelopes : f.hash = e.hash /\ submitted[RpcHash(f)] # None
  /\ \A h \in Hashes : (submitted[h] # None /\ h \notin loose) =>
       submitted[h].env.hash \in applied /\ submitted[h].ledger <= LastClosed

(***************************************************************************)
(* A hash has one fate: whatever applications submit again, ask friendbot  *)
(* for or build on stale sequence numbers, a record is never replaced,     *)
(* unless the test undid what it records.                                  *)
(***************************************************************************)
OneFate ==
  [][\A h \in Hashes :
       (submitted[h] # None /\ submitted'[h] # submitted[h]) => h \in loose]_rpcVars

(***************************************************************************)
(* An application that polls what is PENDING, also after an ERROR to a     *)
(* submission it repeated, and builds another transaction only after an    *)
(* ERROR to its first, has its job done once in the past of the ledger as  *)
(* it is: neither another envelope of the job nor the same one submitted   *)
(* again is ever applied after a first, whatever friendbot and the others  *)
(* do, unless the test itself funded the account over in between.          *)
(***************************************************************************)
JobsAppliedOnce ==
  \A c \in Clients : \A e, f \in Jobs[c] : \A i, j \in DOMAIN past :
    (i < j /\ past[i] = Done(e) /\ past[j] = Done(f)) =>
      \E m \in i + 1 .. j - 1 : past[m] = FundedOver(f.source)

(***************************************************************************)
(* Each application gets its job done and learns how it went, whatever the *)
(* others do to the sequence number between its look and its submission,   *)
(* and however the test goes back in time: in the end all are done, and a  *)
(* done application stays so.                                              *)
(***************************************************************************)
JobsEnd == <>(\A c \in Clients : clients[c].phase = "done")

(***************************************************************************)
(* A reader that starts each request after the latest ledger it was told   *)
(* of is given each event exactly once, as long as the test does not go    *)
(* back: no event appears later in a ledger already reported.              *)
(***************************************************************************)
ReaderExact ==
  restores = 0 =>
    /\ reader.once = {eventLog[i].id : i \in {j \in DOMAIN eventLog :
                                               eventLog[j].ledger < reader.next}}
    /\ reader.again = {}

(***************************************************************************)
(* And it catches up with the log again and again.                         *)
(***************************************************************************)
EventsRead == []<>(restores > 0 \/ DOMAIN eventLog \subseteq reader.once)

(***************************************************************************)
(* What an application that retries goes by: an ERROR means the            *)
(* transaction was not applied.                                            *)
(***************************************************************************)
ErrorMeansNotApplied ==
  \A c \in Clients : clients[c].answer = "ERROR" => clients[c].env.hash \notin applied
=============================================================================
