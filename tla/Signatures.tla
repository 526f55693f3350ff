----------------------------- MODULE Signatures -----------------------------
(***************************************************************************)
(* The signature check of the classic layer (src/classic.ts), as operators *)
(* on values: what one SignatureChecker object computes.                   *)
(*                                                                         *)
(* A signer key is a record [type, id]; type is one of SignerTypes.  For   *)
(* "preAuthTx" id is the hash of the contents it pre-authorises, for       *)
(* "signedPayload" a record [key, payload], otherwise the key itself.      *)
(* A decorated signature is a record [signer, over]: the one signer key it *)
(* verifies for (a hint and 64 bytes in the code) and the contents that    *)
(* were signed.  A signature nobody can verify names a key that signs      *)
(* nothing.  A list of weighted signers is a sequence of [key, weight].    *)
(***************************************************************************)
EXTENDS Integers, Sequences, SequencesExt

SignerTypes == {"preAuthTx", "hashX", "ed25519", "signedPayload"}

Ed25519(k) == [type |-> "ed25519", id |-> k]

\* The master key is a signer only while its weight is not zero.
AccountSigners(a, acct) ==
  (IF acct.master # 0 THEN <<[key |-> Ed25519(a), weight |-> acct.master]>> ELSE <<>>)
    \o acct.signers

Cap(weight) == IF weight < 255 THEN weight ELSE 255

\* Only an ed25519 signature is over the transaction: a HASH_X preimage and a
\* signed payload verify whatever the envelope says.
Verifies(sig, key, contents) ==
  /\ sig.signer = key
  /\ key.type = "ed25519" => sig.over = contents

\* A list as the code holds one, and a list of signers with their weights.
IsList(list) == list \in Seq(ToSet(list))
AreSigners(signers) ==
  IsList(signers) /\ \A j \in DOMAIN signers : signers[j].weight \in Nat
-----------------------------------------------------------------------------
(***************************************************************************)
(* One check.  Its question q is [sigs, contents, signers, needed]; its    *)
(* state is [done, total, used, left]: whether the needed weight was       *)
(* reached, the weight so far, the signatures consumed by this check or an *)
(* earlier one, and the signers not matched yet, by index.                 *)
(***************************************************************************)
\* Signer j counts and may not count again; the check is over once the needed
\* weight is reached.
Match(q, st, j) ==
  LET total == st.total + Cap(q.signers[j].weight)
  IN  [st EXCEPT !.total = total, !.done = total >= q.needed, !.left = @ \ {j}]

PreAuthTx(contents) == [type |-> "preAuthTx", id |-> contents]

\* Pre-authorised signers count first, and need no signature.
PreAuthorised(q, st) ==
  FoldLeftDomain(LAMBDA s, j : IF s.done \/ q.signers[j].key # PreAuthTx(q.contents) THEN s
                               ELSE Match(q, s, j),
                 st, q.signers)

\* The signers of a type still unmatched that signature i verifies for.
Matching(q, type, st, i) ==
  {j \in st.left : /\ q.signers[j].key.type = type
                   /\ Verifies(q.sigs[i], q.signers[j].key, q.contents)}

\* Mutants of TrySignature: indexes counted from 0; a signer that may match
\* again; every signature tried so far consumed; signatures tried when no more
\* weight is needed.
TrySignature_ZeroBased(q, type, st, i) ==
  LET matching == Matching(q, type, st, i)
  IN  IF st.done \/ matching = {} THEN st
      ELSE [Match(q, st, Min(matching)) EXCEPT !.used = @ \cup {i - 1}]

TrySignature_NotRemoved(q, type, st, i) ==
  LET matching == Matching(q, type, st, i)
  IN  IF st.done \/ matching = {} THEN st
      ELSE [Match(q, st, Min(matching)) EXCEPT !.used = @ \cup {i}, !.left = st.left]

TrySignature_AllTried(q, type, st, i) ==
  LET result == TrySignature_NotRemoved(q, type, st, i)
  IN  IF result = st THEN st ELSE [result EXCEPT !.used = @ \cup 1 .. i]

TrySignature_NeverDone(q, type, st, i) ==
  LET result == TrySignature_NotRemoved(q, type, [st EXCEPT !.done = FALSE], i)
  IN  [result EXCEPT !.done = @ \/ st.done]

\* One signature against the unmatched signers of one type: the first that
\* verifies counts.
TrySignature(q, type, st, i) ==
  LET matching == Matching(q, type, st, i)
  IN  IF st.done \/ matching = {} THEN st
      ELSE [Match(q, st, Min(matching)) EXCEPT !.used = @ \cup {i}]

\* verifyAll: every signature in turn against the signers of one type.
VerifyAll(q, type, st) ==
  FoldLeftDomain(LAMBDA s, i : TrySignature(q, type, s, i), st, q.sigs)

\* The passes over the signatures, in the order the code makes them.
Verified(q, st) ==
  VerifyAll(q, "signedPayload", VerifyAll(q, "ed25519", VerifyAll(q, "hashX", st)))

\* SignatureChecker.checkSignature: whether `signers` reach `needed`, and which
\* signatures have now been consumed by this check or an earlier one.
CheckSignature(sigs, contents, used, signers, needed) ==
  LET q == [sigs |-> sigs, contents |-> contents, signers |-> signers, needed |-> needed]
      start == [done |-> FALSE, total |-> 0, used |-> used, left |-> DOMAIN signers]
      end == Verified(q, PreAuthorised(q, start))
  IN  [ok |-> end.done, used |-> end.used]

CheckAllSignaturesUsed(sigs, used) == used = DOMAIN sigs
-----------------------------------------------------------------------------
(***************************************************************************)
(* What the check is meant to decide, said without its passes: a signer    *)
(* counts once if it pre-authorised the contents or some signature         *)
(* verifies for it, and the capped weights of those that count must reach  *)
(* the need, with at least one that counts.  It says so of signers with    *)
(* distinct keys, as an account's are.                                     *)
(***************************************************************************)
Counts(sigs, contents, key) ==
  \/ key = PreAuthTx(contents)
  \/ /\ key.type # "preAuthTx"
     /\ \E i \in DOMAIN sigs : Verifies(sigs[i], key, contents)

Counting(sigs, contents, signers) ==
  {j \in DOMAIN signers : Counts(sigs, contents, signers[j].key)}

WeightOf(sigs, contents, signers) ==
  FoldFunction(+, 0, [j \in Counting(sigs, contents, signers) |-> Cap(signers[j].weight)])

Distinct(signers) == \A i, j \in DOMAIN signers : i # j => signers[i].key # signers[j].key

HasWeight(sigs, contents, signers, needed) ==
  /\ Counting(sigs, contents, signers) # {}
  /\ WeightOf(sigs, contents, signers) >= needed
=============================================================================
