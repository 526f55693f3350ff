-------------------------- MODULE SignatureChecker --------------------------
(***************************************************************************)
(* One SignatureChecker object over the life of an envelope's validation:  *)
(* it is built once with the envelope's signatures, asked by up to         *)
(* MaxChecks checks (transaction source, extra signers, operation source), *)
(* and remembers across them which signatures were consumed; last it is    *)
(* asked whether every signature was.                                      *)
(***************************************************************************)
EXTENDS Signatures

CONSTANTS
  SignatureLists,   \* the decorated-signature lists an envelope may carry
  Contents,         \* the hash the envelope's signatures should be over
  SignerLists,      \* the signer lists a check may be made against
  Needs,            \* the weights a check may need
  MaxChecks         \* how many checks one envelope's validation makes

ASSUME MaxChecksAssumption == MaxChecks \in Nat

ASSUME ListsAssumption ==
  /\ \A sigs \in SignatureLists : IsList(sigs)
  /\ \A signers \in SignerLists :
       /\ AreSigners(signers)
       /\ \A j \in DOMAIN signers : signers[j].key.type \in SignerTypes
  /\ Needs \subseteq Nat

VARIABLES
  signatures,       \* the envelope's signatures, fixed by the constructor
  used,             \* the indexes consumed so far
  checks,           \* the checks made: their signers, need and answer
  verdict           \* what checkAllSignaturesUsed answered, or "open"

vars == <<signatures, used, checks, verdict>>

TypeOK ==
  /\ signatures \in SignatureLists
  /\ used \subseteq DOMAIN signatures
  /\ checks \in BoundedSeq([signers : SignerLists, needed : Needs, ok : BOOLEAN], MaxChecks)
  /\ verdict \in {"open", "all used", "superfluous"}

Init ==
  /\ signatures \in SignatureLists
  /\ used = {}
  /\ checks = <<>>
  /\ verdict = "open"

\* A check that fails ends the validation: no other is made.
Check(signers, needed) ==
  /\ verdict = "open"
  /\ \A c \in DOMAIN checks : checks[c].ok
  /\ Len(checks) < MaxChecks
  /\ LET result == CheckSignature(signatures, Contents, used, signers, needed)
     IN  /\ used' = result.used
         /\ checks' = Append(checks, [signers |-> signers, needed |-> needed, ok |-> result.ok])
  /\ UNCHANGED <<signatures, verdict>>

\* The last question of the validation, so only asked when every check passed.
AllSignaturesUsed ==
  /\ verdict = "open"
  /\ checks # <<>>
  /\ \A c \in DOMAIN checks : checks[c].ok
  /\ verdict' = IF CheckAllSignaturesUsed(signatures, used) THEN "all used" ELSE "superfluous"
  /\ UNCHANGED <<signatures, used, checks>>

Next ==
  \/ \E signers \in SignerLists, needed \in Needs : Check(signers, needed)
  \/ AllSignaturesUsed

Spec == Init /\ [][Next]_vars
-----------------------------------------------------------------------------
(***************************************************************************)
(* The passes, the consumption and the early return decide exactly what    *)
(* the weights decide: a signer counts once however often it signed, and   *)
(* what an earlier check consumed still counts for a later one.            *)
(***************************************************************************)
VerdictIsWeight ==
  \A c \in DOMAIN checks : Distinct(checks[c].signers) =>
    (checks[c].ok <=> HasWeight(signatures, Contents, checks[c].signers, checks[c].needed))

(***************************************************************************)
(* A signature is consumed only for a signer some check asked about: a     *)
(* signature of a stranger, or over another transaction, stays unused and  *)
(* ends in txBAD_AUTH_EXTRA.                                               *)
(***************************************************************************)
OnlyAskedSignersConsume ==
  \A i \in used : \E c \in DOMAIN checks : \E j \in DOMAIN checks[c].signers :
    Verifies(signatures[i], checks[c].signers[j].key, Contents)

(***************************************************************************)
(* An envelope accepted with all its signatures used needed its last one:  *)
(* without it some check fails.  (Ed25519 signers only: between passes the *)
(* last signature of the list need not be the last one tried.)             *)
(***************************************************************************)
Ed25519Only == \A c \in DOMAIN checks : \A j \in DOMAIN checks[c].signers :
                 checks[c].signers[j].key.type = "ed25519"

LastSignatureNeeded ==
  (/\ verdict = "all used"
   /\ signatures # <<>>
   /\ Ed25519Only
   /\ \A c \in DOMAIN checks : Distinct(checks[c].signers)) =>
     \E c \in DOMAIN checks :
       ~HasWeight(Front(signatures), Contents, checks[c].signers, checks[c].needed)
=============================================================================
