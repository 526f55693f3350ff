----------------------- MODULE SignatureChecker_proofs ----------------------
(***************************************************************************)
(* Proofs about a SignatureChecker over the life of an envelope's          *)
(* validation, for every list of signatures, every list of signers and     *)
(* every number of checks.                                                 *)
(***************************************************************************)
EXTENDS SignatureChecker, SignatureTheorems

CheckRecords == [signers : SignerLists, needed : Needs, ok : BOOLEAN]

\* What any list of checks looks like.
LEMMA ChecksFacts ==
  ASSUME NEW S, NEW seq
  PROVE  seq \in BoundedSeq(S, MaxChecks) <=> seq \in Seq(S) /\ Len(seq) <= MaxChecks
<1>1. MaxChecks \in Nat
  BY MaxChecksAssumption
<1>2. ASSUME seq \in BoundedSeq(S, MaxChecks) PROVE seq \in Seq(S) /\ Len(seq) <= MaxChecks
  <2>1. PICK m \in 0 .. MaxChecks : seq \in [1 .. m -> S]
    BY <1>2 DEF BoundedSeq, SeqOf
  <2>2. m \in Nat /\ m <= MaxChecks
    BY <1>1
  <2>3. seq \in Seq(S) /\ Len(seq) = m
    BY <2>1, <2>2
  <2> QED BY <2>2, <2>3
<1>3. ASSUME seq \in Seq(S), Len(seq) <= MaxChecks PROVE seq \in BoundedSeq(S, MaxChecks)
  <2>1. Len(seq) \in 0 .. MaxChecks /\ seq \in [1 .. Len(seq) -> S]
    BY <1>1, <1>3
  <2> QED BY <2>1 DEF BoundedSeq, SeqOf
<1> QED BY <1>2, <1>3

\* A check appended: the checks before it are as they were.
LEMMA AppendFacts ==
  ASSUME NEW S, NEW seq \in Seq(S), NEW x \in S
  PROVE  /\ Append(seq, x) \in Seq(S) /\ Len(Append(seq, x)) = Len(seq) + 1
         /\ Len(seq) \in Nat /\ DOMAIN seq = 1 .. Len(seq)
         /\ DOMAIN Append(seq, x) = DOMAIN seq \cup {Len(seq) + 1}
         /\ Len(seq) + 1 \notin DOMAIN seq
         /\ Append(seq, x)[Len(seq) + 1] = x
         /\ \A i \in DOMAIN seq : Append(seq, x)[i] = seq[i]
<1>1. Len(seq) \in Nat /\ DOMAIN seq = 1 .. Len(seq)
  OBVIOUS
<1>2. DOMAIN Append(seq, x) = 1 .. Len(seq) + 1 /\ Append(seq, x) \in Seq(S)
      /\ Len(Append(seq, x)) = Len(seq) + 1
  OBVIOUS
<1>3. 1 .. Len(seq) + 1 = (1 .. Len(seq)) \cup {Len(seq) + 1} /\ Len(seq) + 1 \notin 1 .. Len(seq)
  BY <1>1
<1>4. Append(seq, x)[Len(seq) + 1] = x /\ \A i \in 1 .. Len(seq) : Append(seq, x)[i] = seq[i]
  OBVIOUS
<1> QED BY <1>1, <1>2, <1>3, <1>4

\* What a check does to a well-typed checker.
Answer(signers, needed) == CheckSignature(signatures, Contents, used, signers, needed)
NewCheck(signers, needed) ==
  [signers |-> signers, needed |-> needed, ok |-> Answer(signers, needed).ok]

LEMMA CheckFacts ==
  ASSUME TypeOK, NEW signers \in SignerLists, NEW needed \in Needs, Check(signers, needed)
  PROVE  /\ NewCheck(signers, needed) \in CheckRecords
         /\ checks \in Seq(CheckRecords) /\ checks' = Append(checks, NewCheck(signers, needed))
         /\ Len(checks) < MaxChecks
         /\ used' = Answer(signers, needed).used
         /\ signatures' = signatures /\ verdict' = verdict
         /\ IsList(signatures) /\ used \in SUBSET DOMAIN signatures
         /\ AreSigners(signers) /\ needed \in Nat
         /\ \A j \in DOMAIN signers : signers[j].key.type \in SignerTypes
         /\ Answer(signers, needed).used \in SUBSET DOMAIN signatures
         /\ \A i \in Answer(signers, needed).used \ used :
              \E j \in DOMAIN signers : Verifies(signatures[i], signers[j].key, Contents)
         /\ Distinct(signers) =>
              (Answer(signers, needed).ok <=> HasWeight(signatures, Contents, signers, needed))
<1>1. /\ IsList(signatures) /\ used \in SUBSET DOMAIN signatures
      /\ AreSigners(signers) /\ needed \in Nat
      /\ \A j \in DOMAIN signers : signers[j].key.type \in SignerTypes
  BY ListsAssumption DEF TypeOK
<1> DEFINE result == CheckSignature(signatures, Contents, used, signers, needed)
<1>2. /\ result.ok \in BOOLEAN /\ result.used \in SUBSET DOMAIN signatures
      /\ \A i \in result.used \ used :
           \E j \in DOMAIN signers : Verifies(signatures[i], signers[j].key, Contents)
      /\ Distinct(signers) => (result.ok <=> HasWeight(signatures, Contents, signers, needed))
  BY <1>1, CheckDecides
<1>3. NewCheck(signers, needed) \in CheckRecords
  BY <1>2 DEF NewCheck, CheckRecords, Answer
<1>4. checks \in Seq(CheckRecords)
  BY ChecksFacts DEF TypeOK, CheckRecords
<1>5. /\ used' = Answer(signers, needed).used
      /\ checks' = Append(checks, NewCheck(signers, needed))
      /\ Len(checks) < MaxChecks /\ signatures' = signatures /\ verdict' = verdict
  BY DEF Check, Answer, NewCheck
<1> HIDE DEF result
<1>6. Answer(signers, needed) = result
  BY DEF Answer, result
<1> QED BY <1>1, <1>2, <1>3, <1>4, <1>5, <1>6
-----------------------------------------------------------------------------
(***************************************************************************)
(* The checker consumes only signatures the envelope has.                  *)
(***************************************************************************)
THEOREM TypeCorrect == Spec => []TypeOK
<1>1. Init => TypeOK
  <2> SUFFICES ASSUME Init PROVE TypeOK
    OBVIOUS
  <2>1. checks \in BoundedSeq([signers : SignerLists, needed : Needs, ok : BOOLEAN], MaxChecks)
    <3>1. <<>> \in Seq(CheckRecords) /\ Len(<<>>) <= MaxChecks
      BY MaxChecksAssumption
    <3> QED BY <3>1, ChecksFacts DEF Init, CheckRecords
  <2> QED BY <2>1 DEF Init, TypeOK
<1>2. TypeOK /\ [Next]_vars => TypeOK'
  <2> SUFFICES ASSUME TypeOK, [Next]_vars PROVE TypeOK'
    OBVIOUS
  <2>1. ASSUME NEW signers \in SignerLists, NEW needed \in Needs, Check(signers, needed)
        PROVE  TypeOK'
    <3> DEFINE new == NewCheck(signers, needed)
    <3>1. /\ new \in CheckRecords /\ checks \in Seq(CheckRecords) /\ checks' = Append(checks, new)
          /\ Len(checks) < MaxChecks
      BY <2>1, CheckFacts
    <3> HIDE DEF new
    <3>2. checks' \in Seq(CheckRecords) /\ Len(checks') <= MaxChecks
      BY <3>1, AppendFacts, MaxChecksAssumption
    <3>3. used' \in SUBSET DOMAIN signatures
      BY <2>1, CheckFacts
    <3>4. signatures' = signatures /\ verdict' = verdict
      BY <2>1, CheckFacts
    <3>5. checks' \in BoundedSeq(CheckRecords, MaxChecks)
      BY <3>2, ChecksFacts
    <3> QED BY <3>3, <3>4, <3>5 DEF TypeOK, CheckRecords
  <2>2. CASE AllSignaturesUsed
    BY <2>2 DEF AllSignaturesUsed, TypeOK
  <2>3. CASE UNCHANGED vars
    BY <2>3 DEF vars, TypeOK
  <2> QED BY <2>1, <2>2, <2>3 DEF Next
<1> QED BY <1>1, <1>2, PTL DEF Spec

(***************************************************************************)
(* Whatever an earlier check consumed, and in whatever order the passes    *)
(* try them, the signatures decide what the signers' weights decide.       *)
(***************************************************************************)
VerdictOf(check) ==
  Distinct(check.signers) =>
    (check.ok <=> HasWeight(signatures, Contents, check.signers, check.needed))

THEOREM VerdictsAreWeights == Spec => []VerdictIsWeight
<1>1. Init => VerdictIsWeight
  BY DEF Init, VerdictIsWeight
<1>2. TypeOK /\ VerdictIsWeight /\ [Next]_vars => VerdictIsWeight'
  <2> SUFFICES ASSUME TypeOK, VerdictIsWeight, [Next]_vars PROVE VerdictIsWeight'
    OBVIOUS
  <2>1. ASSUME NEW signers \in SignerLists, NEW needed \in Needs, Check(signers, needed)
        PROVE  VerdictIsWeight'
    <3> DEFINE new == NewCheck(signers, needed)
    <3>1. VerdictOf(new)
      <4>1. Distinct(signers) =>
              (Answer(signers, needed).ok <=> HasWeight(signatures, Contents, signers, needed))
        BY <2>1, CheckFacts
      <4> QED BY <4>1 DEF VerdictOf, NewCheck
    <3>2. /\ new \in CheckRecords /\ checks \in Seq(CheckRecords) /\ checks' = Append(checks, new)
          /\ signatures' = signatures
      BY <2>1, CheckFacts
    <3> HIDE DEF new
    <3>3. \A c \in DOMAIN checks' : checks'[c] = new \/ (c \in DOMAIN checks /\ checks'[c] = checks[c])
      BY <3>2, AppendFacts
    <3>4. \A c \in DOMAIN checks : VerdictOf(checks[c])
      BY DEF VerdictIsWeight, VerdictOf
    <3>5. \A c \in DOMAIN checks' : VerdictOf(checks'[c])
      BY <3>1, <3>3, <3>4
    <3> QED BY <3>2, <3>5 DEF VerdictIsWeight, VerdictOf
  <2>2. CASE UNCHANGED <<signatures, checks>>
    BY <2>2 DEF VerdictIsWeight
  <2> QED BY <2>1, <2>2 DEF Next, AllSignaturesUsed, vars
<1> QED BY <1>1, <1>2, TypeCorrect, PTL DEF Spec

(***************************************************************************)
(* A signature of a stranger, or over other contents, is never consumed.   *)
(***************************************************************************)
AskedBy(check, i) ==
  \E j \in DOMAIN check.signers : Verifies(signatures[i], check.signers[j].key, Contents)

THEOREM StrangersUnused == Spec => []OnlyAskedSignersConsume
<1>1. Init => OnlyAskedSignersConsume
  BY DEF Init, OnlyAskedSignersConsume
<1>2. TypeOK /\ OnlyAskedSignersConsume /\ [Next]_vars => OnlyAskedSignersConsume'
  <2> SUFFICES ASSUME TypeOK, OnlyAskedSignersConsume, [Next]_vars PROVE OnlyAskedSignersConsume'
    OBVIOUS
  <2>1. ASSUME NEW signers \in SignerLists, NEW needed \in Needs, Check(signers, needed)
        PROVE  OnlyAskedSignersConsume'
    <3> DEFINE new == NewCheck(signers, needed)
    <3>1. \A i \in used' \ used : AskedBy(new, i)
      <4>1. \A i \in used' \ used :
              \E j \in DOMAIN signers : Verifies(signatures[i], signers[j].key, Contents)
        BY <2>1, CheckFacts
      <4> QED BY <4>1 DEF AskedBy, NewCheck
    <3>2. /\ new \in CheckRecords /\ checks \in Seq(CheckRecords) /\ checks' = Append(checks, new)
          /\ signatures' = signatures
      BY <2>1, CheckFacts
    <3> HIDE DEF new
    <3>3. /\ Len(checks) + 1 \in DOMAIN checks' /\ checks'[Len(checks) + 1] = new
          /\ \A c \in DOMAIN checks : c \in DOMAIN checks' /\ checks'[c] = checks[c]
      BY <3>2, AppendFacts
    <3>4. \A i \in used : \E c \in DOMAIN checks : AskedBy(checks[c], i)
      BY DEF OnlyAskedSignersConsume, AskedBy
    <3>5. \A i \in used' : \E c \in DOMAIN checks' : AskedBy(checks'[c], i)
      BY <3>1, <3>3, <3>4
    <3> QED BY <3>2, <3>5 DEF OnlyAskedSignersConsume, AskedBy
  <2>2. CASE UNCHANGED <<signatures, used, checks>>
    BY <2>2 DEF OnlyAskedSignersConsume
  <2> QED BY <2>1, <2>2 DEF Next, AllSignaturesUsed, vars
<1> QED BY <1>1, <1>2, TypeCorrect, PTL DEF Spec

(***************************************************************************)
(* The inductive invariant of LastSignatureNeeded: once the last signature *)
(* is consumed, the check that consumed it would have failed without it;   *)
(* and the verdict is about the signatures consumed.                       *)
(***************************************************************************)
PlainCheck(check) ==
  Distinct(check.signers) /\ \A j \in DOMAIN check.signers : check.signers[j].key.type = "ed25519"
FailsWithout(check) == ~HasWeight(Front(signatures), Contents, check.signers, check.needed)

LastConsumer ==
  (/\ Len(signatures) # 0 /\ Len(signatures) \in used
   /\ \A c \in DOMAIN checks : PlainCheck(checks[c])) =>
     \E c \in DOMAIN checks : FailsWithout(checks[c])

VerdictOfUsed == verdict = "all used" => used = DOMAIN signatures

THEOREM LastNeeded == Spec => []LastSignatureNeeded
<1>1. Init => LastConsumer /\ VerdictOfUsed
  BY DEF Init, LastConsumer, VerdictOfUsed
<1>2. TypeOK /\ LastConsumer /\ VerdictOfUsed /\ [Next]_vars => LastConsumer' /\ VerdictOfUsed'
  <2> SUFFICES ASSUME TypeOK, LastConsumer, VerdictOfUsed, [Next]_vars
               PROVE  LastConsumer' /\ VerdictOfUsed'
    OBVIOUS
  <2>1. ASSUME NEW signers \in SignerLists, NEW needed \in Needs, Check(signers, needed)
        PROVE  LastConsumer' /\ VerdictOfUsed'
    <3> DEFINE new == NewCheck(signers, needed)
    <3>1. ASSUME Len(signatures) # 0, Len(signatures) \in used', Len(signatures) \notin used,
                 PlainCheck(new)
          PROVE  FailsWithout(new)
      <4>1. /\ IsList(signatures) /\ AreSigners(signers) /\ used \in SUBSET DOMAIN signatures
            /\ needed \in Nat /\ used' = Answer(signers, needed).used
        BY <2>1, CheckFacts
      <4>2. Distinct(signers) /\ \A j \in DOMAIN signers : signers[j].key.type = "ed25519"
        BY <3>1 DEF PlainCheck, NewCheck
      <4>3. ~HasWeight(Front(signatures), Contents, signers, needed)
        BY <3>1, <4>1, <4>2, LastConsumedNeeded DEF Answer
      <4> QED BY <4>3 DEF FailsWithout, NewCheck
    <3>2. /\ new \in CheckRecords /\ checks \in Seq(CheckRecords) /\ checks' = Append(checks, new)
          /\ signatures' = signatures /\ verdict' = verdict
      BY <2>1, CheckFacts
    <3> HIDE DEF new
    <3>3. /\ Len(checks) + 1 \in DOMAIN checks' /\ checks'[Len(checks) + 1] = new
          /\ \A c \in DOMAIN checks : c \in DOMAIN checks' /\ checks'[c] = checks[c]
      BY <3>2, AppendFacts
    <3>4. ASSUME Len(signatures) # 0, Len(signatures) \in used',
                 \A c \in DOMAIN checks' : PlainCheck(checks'[c])
          PROVE  \E c \in DOMAIN checks' : FailsWithout(checks'[c])
      <4>1. CASE Len(signatures) \in used
        <5>1. \E c \in DOMAIN checks : FailsWithout(checks[c])
          BY <3>3, <3>4, <4>1 DEF LastConsumer
        <5> QED BY <3>3, <5>1
      <4>2. CASE Len(signatures) \notin used
        BY <3>1, <3>3, <3>4, <4>2
      <4> QED BY <4>1, <4>2
    <3>5. LastConsumer'
      BY <3>2, <3>4 DEF LastConsumer, PlainCheck, FailsWithout
    <3>6. verdict' = "open"
      BY <2>1, <3>2 DEF Check
    <3> QED BY <3>5, <3>6 DEF VerdictOfUsed
  <2>2. CASE AllSignaturesUsed
    BY <2>2 DEF AllSignaturesUsed, CheckAllSignaturesUsed, LastConsumer, VerdictOfUsed, PlainCheck,
                FailsWithout
  <2>3. CASE UNCHANGED vars
    BY <2>3 DEF vars, LastConsumer, VerdictOfUsed, PlainCheck, FailsWithout
  <2> QED BY <2>1, <2>2, <2>3 DEF Next
<1>3. TypeOK /\ LastConsumer /\ VerdictOfUsed => LastSignatureNeeded
  <2> SUFFICES ASSUME TypeOK, LastConsumer, VerdictOfUsed,
                      verdict = "all used", signatures # <<>>, Ed25519Only,
                      \A c \in DOMAIN checks : Distinct(checks[c].signers)
               PROVE  \E c \in DOMAIN checks : FailsWithout(checks[c])
    BY DEF LastSignatureNeeded, FailsWithout
  <2>1. IsList(signatures) /\ used = DOMAIN signatures
    BY ListsAssumption DEF TypeOK, VerdictOfUsed
  <2>2. Len(signatures) # 0 /\ Len(signatures) \in used
    BY <2>1, ListEnd
  <2>3. \A c \in DOMAIN checks : PlainCheck(checks[c])
    BY DEF Ed25519Only, PlainCheck
  <2> QED BY <2>2, <2>3 DEF LastConsumer
<1> QED BY <1>1, <1>2, <1>3, TypeCorrect, PTL DEF Spec
=============================================================================
