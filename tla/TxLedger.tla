------------------------------ MODULE TxLedger ------------------------------
(***************************************************************************)
(* What a ledger promises the senders of transactions, said without        *)
(* envelopes, fees bumps, signatures or Soroban: each transaction is       *)
(* consumed at most once in the life of its source account, consuming it   *)
(* moves that account's sequence number up to the transaction's, and the   *)
(* one account that pays is out of pocket by no more than it bid.          *)
(***************************************************************************)
EXTENDS Integers

CONSTANTS
  Accounts,
  Transactions,     \* records with a hash, a source and a seqNum
  PayerOf(_),       \* the account that pays for a transaction
  Bid(_),           \* the most it offered to pay
  None              \* the sequence number of an account that does not exist

VARIABLES
  seqNum,           \* of each account, or None
  feesPaid,         \* by each account since it was opened
  consumed          \* the hashes consumed since their source was opened

vars == <<seqNum, feesPaid, consumed>>

Init ==
  /\ seqNum = [a \in Accounts |-> None]
  /\ feesPaid = [a \in Accounts |-> 0]
  /\ consumed = {}

Charge(payer, most) ==
  /\ feesPaid' = [feesPaid EXCEPT ![payer] = feesPaid'[payer]]
  /\ feesPaid'[payer] - feesPaid[payer] \in 0 .. most

Consume(t) ==
  /\ t.hash \notin consumed
  /\ seqNum[t.source] # None
  /\ seqNum[t.source] < t.seqNum
  /\ seqNum' = [seqNum EXCEPT ![t.source] = t.seqNum]
  /\ consumed' = consumed \cup {t.hash}
  /\ Charge(PayerOf(t), Bid(t))

\* An account is opened, or opened anew: its past is forgotten.
Open(a) ==
  /\ seqNum' = [seqNum EXCEPT ![a] = seqNum'[a]]
  /\ seqNum'[a] \in Nat
  /\ feesPaid' = [feesPaid EXCEPT ![a] = 0]
  /\ consumed' = consumed \ {t.hash : t \in {u \in Transactions : u.source = a}}

Next ==
  \/ \E t \in Transactions : Consume(t)
  \/ \E a \in Accounts : Open(a)

Spec == Init /\ [][Next]_vars
=============================================================================
