------------------------- MODULE SignatureTheorems --------------------------
(***************************************************************************)
(* What one signature check computes (Signatures!CheckSignature), for      *)
(* every list of signatures and of signers: it answers what the weights    *)
(* say, and consumes only signatures of the signers it asks about, up to   *)
(* the one that reaches the needed weight.                                 *)
(***************************************************************************)
EXTENDS Signatures, FoldTheorems

\* A question the code may ask, and the states its check may be in.
IsQuestion(q) == IsList(q.sigs) /\ AreSigners(q.signers) /\ q.needed \in Nat
States(q) ==
  [done : BOOLEAN, total : Nat, used : SUBSET DOMAIN q.sigs, left : SUBSET DOMAIN q.signers]

\* Signer j counts in question q.
CountsIn(q, j) == Counts(q.sigs, q.contents, q.signers[j].key)
CapsOver(q, M) == [j \in M |-> Cap(q.signers[j].weight)]

LEMMA ListDomain ==
  ASSUME NEW list, IsList(list)
  PROVE  Len(list) \in Nat /\ DOMAIN list = 1 .. Len(list)
<1>1. list \in Seq(ToSet(list))
  BY DEF IsList
<1> QED BY <1>1

LEMMA ListEnd ==
  ASSUME NEW list, IsList(list), list # <<>>
  PROVE  Len(list) # 0 /\ Len(list) \in DOMAIN list
<1>1. list \in Seq(ToSet(list))
  BY DEF IsList
<1>2. Len(list) \in Nat /\ DOMAIN list = 1 .. Len(list) /\ Len(list) # 0
  BY <1>1
<1> QED BY <1>2

LEMMA SignersFacts ==
  ASSUME NEW q, IsQuestion(q)
  PROVE  /\ IsFiniteSet(DOMAIN q.signers)
         /\ \A j \in DOMAIN q.signers : Cap(q.signers[j].weight) \in Nat
         /\ \A M \in SUBSET DOMAIN q.signers :
              IsFiniteSet(M) /\ CapsOver(q, M) \in [M -> Nat] /\ SumOf(CapsOver(q, M)) \in Nat
<1>1. IsFiniteSet(DOMAIN q.signers)
  <2>1. DOMAIN q.signers = 1 .. Len(q.signers) /\ Len(q.signers) \in Nat
    BY ListDomain DEF IsQuestion, AreSigners
  <2>2. IsFiniteSet(1 .. Len(q.signers))
    BY <2>1, FS_Interval
  <2> QED BY <2>1, <2>2
<1>2. \A j \in DOMAIN q.signers : Cap(q.signers[j].weight) \in Nat
  BY DEF IsQuestion, AreSigners, Cap
<1>3. ASSUME NEW M \in SUBSET DOMAIN q.signers
      PROVE  IsFiniteSet(M) /\ CapsOver(q, M) \in [M -> Nat] /\ SumOf(CapsOver(q, M)) \in Nat
  <2>1. IsFiniteSet(M)
    BY <1>1, FS_Subset
  <2>2. CapsOver(q, M) \in [M -> Nat]
    BY <1>2 DEF CapsOver
  <2> QED BY <2>1, <2>2, SumNat
<1> QED BY <1>1, <1>2, <1>3

LEMMA Smallest ==
  ASSUME NEW n \in Nat, NEW s \in SUBSET (1 .. n), s # {}
  PROVE  Min(s) \in s
<1>1. s \in SUBSET Nat
  OBVIOUS
<1>2. \E x \in s : \A y \in s : x <= y
  BY <1>1, LeastNumber
<1> QED BY <1>2 DEF Min
-----------------------------------------------------------------------------
(***************************************************************************)
(* The two folds, by their initial segments.                               *)
(***************************************************************************)
PreAuthStep(q, s, j) ==
  IF s.done \/ q.signers[j].key # PreAuthTx(q.contents) THEN s ELSE Match(q, s, j)

LEMMA MatchTyped ==
  ASSUME NEW q, IsQuestion(q), NEW st \in States(q), NEW j \in DOMAIN q.signers
  PROVE  /\ Match(q, st, j) \in States(q)
         /\ Match(q, st, j).used = st.used
         /\ Match(q, st, j).left = st.left \ {j}
         /\ Match(q, st, j).total = st.total + Cap(q.signers[j].weight)
         /\ Match(q, st, j).done = (st.total + Cap(q.signers[j].weight) >= q.needed)
<1>1. Cap(q.signers[j].weight) \in Nat
  BY SignersFacts
<1> DEFINE total == st.total + Cap(q.signers[j].weight)
<1>2. /\ st.total \in Nat /\ q.needed \in Nat /\ st.left \subseteq DOMAIN q.signers
      /\ st.used \subseteq DOMAIN q.sigs
  BY DEF States, IsQuestion
<1>3. total \in Nat /\ (total >= q.needed) \in BOOLEAN
  BY <1>1, <1>2
<1> HIDE DEF total
<1>4. Match(q, st, j) = [st EXCEPT !.total = total, !.done = total >= q.needed, !.left = st.left \ {j}]
  BY DEF Match, total
<1> QED BY <1>2, <1>3, <1>4 DEF States, total

LEMMA MatchingFacts ==
  ASSUME NEW q, IsQuestion(q), NEW type, NEW st \in States(q), NEW i,
         Matching(q, type, st, i) # {}
  PROVE  /\ Min(Matching(q, type, st, i)) \in Matching(q, type, st, i)
         /\ Matching(q, type, st, i) \subseteq st.left
         /\ st.left \subseteq DOMAIN q.signers
<1>1. Len(q.signers) \in Nat /\ DOMAIN q.signers = 1 .. Len(q.signers)
  BY ListDomain DEF IsQuestion, AreSigners
<1>2. st.left \subseteq DOMAIN q.signers /\ Matching(q, type, st, i) \subseteq st.left
  BY DEF States, Matching
<1>3. Matching(q, type, st, i) \in SUBSET (1 .. Len(q.signers))
  BY <1>1, <1>2
<1> QED BY <1>1, <1>2, <1>3, Smallest

\* What a signature does: nothing, or it lets one signer count.
Consumes(q, type, st, i, j, after) ==
  /\ ~st.done
  /\ j \in Matching(q, type, st, i) /\ j \in DOMAIN q.signers
  /\ after \in States(q)
  /\ after.done = Match(q, st, j).done /\ after.total = Match(q, st, j).total
  /\ after.left = Match(q, st, j).left /\ after.used = st.used \cup {i}

LEMMA TryFacts ==
  ASSUME NEW q, IsQuestion(q), NEW type, NEW st \in States(q), NEW i \in DOMAIN q.sigs
  PROVE  /\ TrySignature(q, type, st, i) \in States(q)
         /\ \/ TrySignature(q, type, st, i) = st /\ (st.done \/ Matching(q, type, st, i) = {})
            \/ \E j : Consumes(q, type, st, i, j, TrySignature(q, type, st, i))
<1>1. CASE st.done \/ Matching(q, type, st, i) = {}
  BY <1>1 DEF TrySignature
<1>2. CASE ~st.done /\ Matching(q, type, st, i) # {}
  <2> DEFINE j == Min(Matching(q, type, st, i))
             m == Match(q, st, j)
  <2>1. j \in Matching(q, type, st, i) /\ j \in DOMAIN q.signers
    BY <1>2, MatchingFacts
  <2>2. m \in States(q) /\ m.used = st.used
    BY <2>1, MatchTyped
  <2>3. TrySignature(q, type, st, i) = [m EXCEPT !.used = m.used \cup {i}]
    BY <1>2 DEF TrySignature
  <2> HIDE DEF m, j
  <2> DEFINE after == TrySignature(q, type, st, i)
  <2>4. /\ after \in States(q)
        /\ after.done = m.done /\ after.total = m.total /\ after.left = m.left
        /\ after.used = st.used \cup {i}
    BY <2>2, <2>3 DEF States
  <2> HIDE DEF after
  <2>5. Consumes(q, type, st, i, j, after)
    BY <1>2, <2>1, <2>4 DEF Consumes, m
  <2> QED BY <2>4, <2>5 DEF after
<1> QED BY <1>1, <1>2

\* h[k] is the state once k signatures were tried.
VerifyRun(q, type, st, h) ==
  /\ h[0] = st /\ h[Len(q.sigs)] = VerifyAll(q, type, st)
  /\ \A k \in 0 .. Len(q.sigs) : h[k] \in States(q)
  /\ \A k \in 1 .. Len(q.sigs) : h[k] = TrySignature(q, type, h[k - 1], k)

PreAuthRun(q, st, h) ==
  /\ h[0] = st /\ h[Len(q.signers)] = PreAuthorised(q, st)
  /\ \A k \in 0 .. Len(q.signers) : h[k] \in States(q)
  /\ \A k \in 1 .. Len(q.signers) : h[k] = PreAuthStep(q, h[k - 1], k)

LEMMA VerifySegments ==
  ASSUME NEW q, IsQuestion(q), NEW type, NEW st \in States(q)
  PROVE  \E h : VerifyRun(q, type, st, h)
<1> DEFINE n == Len(q.sigs)
           V == States(q)
           step == [v \in V |-> [i \in 1 .. n |-> TrySignature(q, type, v, i)]]
           ids == [i \in DOMAIN q.sigs |-> i]
           Solves(it) ==
             it = [s \in SUBSET (1 .. n) |->
                     IF s = {} THEN st
                     ELSE LET i == Max(s) IN TrySignature(q, type, it[s \ {i}], ids[i])]
           it == CHOOSE it : Solves(it)
<1>0. n \in Nat /\ DOMAIN q.sigs = 1 .. n
  BY ListDomain DEF IsQuestion, AreSigners
<1>1. VerifyAll(q, type, st) = it[1 .. n]
  <2>1. DOMAIN ids = 1 .. n
    BY <1>0
  <2> QED BY <2>1 DEF VerifyAll, FoldLeftDomain, FoldLeft, MapThenFoldSet
<1>2. step \in [V -> [1 .. n -> V]]
  BY <1>0, TryFacts
<1>3. PICK f \in [SUBSET (1 .. n) -> V] : Recursion(1 .. n, st, step, LastFirst(n), f)
  <2> HIDE DEF step, V, n
  <2> QED BY <1>0, <1>2, SequenceRecursion DEF V
<1>4. Solves(f)
  <2>1. ASSUME NEW s \in SUBSET (1 .. n)
        PROVE  f[s] = IF s = {} THEN st
                      ELSE LET i == Max(s) IN TrySignature(q, type, f[s \ {i}], ids[i])
    <3>1. CASE s = {}
      BY <1>3, <3>1 DEF Recursion
    <3>2. CASE s # {}
      <4>1. Max(s) \in 1 .. n /\ LastFirst(n)[s] = Max(s) /\ f[s \ {Max(s)}] \in V
        BY <1>0, <1>3, <3>2, LargestNumber DEF LastFirst
      <4>2. f[s] = step[f[s \ {Max(s)}]][Max(s)]
        BY <1>3, <3>2, <4>1 DEF Recursion
      <4>3. ids[Max(s)] = Max(s)
        BY <1>0, <4>1
      <4> HIDE DEF V, ids
      <4> QED BY <3>2, <4>1, <4>2, <4>3
    <3> QED BY <3>1, <3>2
  <2> QED BY <1>3, <2>1
<1>5. Solves(it)
  <2> HIDE DEF Solves
  <2> QED BY <1>4
<1> HIDE DEF it
<1>6. it[1 .. 0] = st
  BY <1>5
<1>7. ASSUME NEW k \in 1 .. n
      PROVE  it[1 .. k] = TrySignature(q, type, it[1 .. k - 1], k)
  <2>1. 1 .. k \in SUBSET (1 .. n) /\ 1 .. k # {} /\ Max(1 .. k) = k /\ (1 .. k) \ {k} = 1 .. k - 1
    <3> HIDE DEF n
    <3> QED BY <1>0, SegmentMax
  <2>2. ids[k] = k
    BY <1>0
  <2> HIDE DEF ids
  <2> QED BY <1>5, <2>1, <2>2
<1> DEFINE h == [k \in 0 .. n |-> it[1 .. k]]
<1>8. h[0] = st /\ h[n] = VerifyAll(q, type, st)
  BY <1>0, <1>1, <1>6
<1>9. ASSUME NEW k \in 1 .. n
      PROVE  h[k] = TrySignature(q, type, h[k - 1], k)
  BY <1>0, <1>7
<1> HIDE DEF h
<1>10. \A k \in 0 .. n : h[k] \in V
  <2> DEFINE T == {k \in 0 .. n : h[k] \in V}
  <2>1. 0 \in T
    BY <1>0, <1>8
  <2>2. ASSUME NEW k \in 0 .. n - 1, k \in T
        PROVE  k + 1 \in T
    <3>1. k + 1 \in 1 .. n /\ (k + 1) - 1 = k /\ k + 1 \in 0 .. n
      OBVIOUS
    <3>2. h[k + 1] = TrySignature(q, type, h[k], k + 1)
      BY <1>9, <3>1
    <3>3. k + 1 \in DOMAIN q.sigs /\ h[k] \in States(q)
      BY <1>0, <2>2, <3>1
    <3>4. h[k + 1] \in V
      BY <3>2, <3>3, TryFacts
    <3> QED BY <3>1, <3>4
  <2> HIDE DEF T
  <2>3. 0 .. n \subseteq T
    BY <1>0, <2>1, <2>2, AllNumbersUpTo
  <2> QED BY <2>3 DEF T
<1> QED BY <1>8, <1>9, <1>10 DEF VerifyRun

LEMMA PreAuthTyped ==
  ASSUME NEW q, IsQuestion(q), NEW st \in States(q), NEW j \in DOMAIN q.signers
  PROVE  PreAuthStep(q, st, j) \in States(q)
  BY MatchTyped DEF PreAuthStep

LEMMA PreAuthSegments ==
  ASSUME NEW q, IsQuestion(q), NEW st \in States(q)
  PROVE  \E h : PreAuthRun(q, st, h)
<1> DEFINE n == Len(q.signers)
           V == States(q)
           step == [v \in V |-> [i \in 1 .. n |-> PreAuthStep(q, v, i)]]
           ids == [i \in DOMAIN q.signers |-> i]
           Solves(it) ==
             it = [s \in SUBSET (1 .. n) |->
                     IF s = {} THEN st
                     ELSE LET i == Max(s) IN PreAuthStep(q, it[s \ {i}], ids[i])]
           it == CHOOSE it : Solves(it)
<1>0. n \in Nat /\ DOMAIN q.signers = 1 .. n
  BY ListDomain DEF IsQuestion, AreSigners
<1>1. PreAuthorised(q, st) = it[1 .. n]
  <2>1. DOMAIN ids = 1 .. n
    BY <1>0
  <2> QED BY <2>1 DEF PreAuthorised, PreAuthStep, FoldLeftDomain, FoldLeft, MapThenFoldSet
<1>2. step \in [V -> [1 .. n -> V]]
  BY <1>0, PreAuthTyped
<1>3. PICK f \in [SUBSET (1 .. n) -> V] : Recursion(1 .. n, st, step, LastFirst(n), f)
  <2> HIDE DEF step, V, n
  <2> QED BY <1>0, <1>2, SequenceRecursion DEF V
<1>4. Solves(f)
  <2>1. ASSUME NEW s \in SUBSET (1 .. n)
        PROVE  f[s] = IF s = {} THEN st
                      ELSE LET i == Max(s) IN PreAuthStep(q, f[s \ {i}], ids[i])
    <3>1. CASE s = {}
      BY <1>3, <3>1 DEF Recursion
    <3>2. CASE s # {}
      <4>1. Max(s) \in 1 .. n /\ LastFirst(n)[s] = Max(s) /\ f[s \ {Max(s)}] \in V
        BY <1>0, <1>3, <3>2, LargestNumber DEF LastFirst
      <4>2. f[s] = step[f[s \ {Max(s)}]][Max(s)]
        BY <1>3, <3>2, <4>1 DEF Recursion
      <4>3. ids[Max(s)] = Max(s)
        BY <1>0, <4>1
      <4> HIDE DEF V, ids
      <4> QED BY <3>2, <4>1, <4>2, <4>3
    <3> QED BY <3>1, <3>2
  <2> QED BY <1>3, <2>1
<1>5. Solves(it)
  <2> HIDE DEF Solves
  <2> QED BY <1>4
<1> HIDE DEF it
<1>6. it[1 .. 0] = st
  BY <1>5
<1>7. ASSUME NEW k \in 1 .. n
      PROVE  it[1 .. k] = PreAuthStep(q, it[1 .. k - 1], k)
  <2>1. 1 .. k \in SUBSET (1 .. n) /\ 1 .. k # {} /\ Max(1 .. k) = k /\ (1 .. k) \ {k} = 1 .. k - 1
    <3> HIDE DEF n
    <3> QED BY <1>0, SegmentMax
  <2>2. ids[k] = k
    BY <1>0
  <2> HIDE DEF ids
  <2> QED BY <1>5, <2>1, <2>2
<1> DEFINE h == [k \in 0 .. n |-> it[1 .. k]]
<1>8. h[0] = st /\ h[n] = PreAuthorised(q, st)
  BY <1>0, <1>1, <1>6
<1>9. ASSUME NEW k \in 1 .. n
      PROVE  h[k] = PreAuthStep(q, h[k - 1], k)
  BY <1>0, <1>7
<1> HIDE DEF h
<1>10. \A k \in 0 .. n : h[k] \in V
  <2> DEFINE T == {k \in 0 .. n : h[k] \in V}
  <2>1. 0 \in T
    BY <1>0, <1>8
  <2>2. ASSUME NEW k \in 0 .. n - 1, k \in T
        PROVE  k + 1 \in T
    <3>1. k + 1 \in 1 .. n /\ (k + 1) - 1 = k /\ k + 1 \in 0 .. n
      OBVIOUS
    <3>2. h[k + 1] = PreAuthStep(q, h[k], k + 1)
      BY <1>9, <3>1
    <3>3. k + 1 \in DOMAIN q.signers /\ h[k] \in States(q)
      BY <1>0, <2>2, <3>1
    <3>4. h[k + 1] \in V
      BY <3>2, <3>3, PreAuthTyped
    <3> QED BY <3>1, <3>4
  <2> HIDE DEF T
  <2>3. 0 .. n \subseteq T
    BY <1>0, <2>1, <2>2, AllNumbersUpTo
  <2> QED BY <2>3 DEF T
<1> QED BY <1>8, <1>9, <1>10 DEF PreAuthRun
-----------------------------------------------------------------------------
(***************************************************************************)
(* Soundness: at every moment of a check, the weight reached is that of    *)
(* the signers matched, each of which counts; what it consumed, it         *)
(* consumed for one of its signers; and it is over exactly when the need   *)
(* is met by at least one.                                                 *)
(***************************************************************************)
Matched(q, st) == DOMAIN q.signers \ st.left

IsSound(q, used, st) ==
  /\ st \in States(q)
  /\ st.total = SumOf(CapsOver(q, Matched(q, st)))
  /\ \A j \in Matched(q, st) : CountsIn(q, j)
  /\ used \subseteq st.used
  /\ \A i \in st.used \ used :
       \E j \in DOMAIN q.signers : Verifies(q.sigs[i], q.signers[j].key, q.contents)
  /\ st.done => st.total >= q.needed /\ Matched(q, st) # {}
  /\ ~st.done => st.total < q.needed \/ Matched(q, st) = {}

LEMMA OneMore ==
  ASSUME NEW q, IsQuestion(q), NEW used, NEW st, IsSound(q, used, st),
         NEW j \in st.left, CountsIn(q, j), NEW after \in States(q),
         after.left = st.left \ {j}, after.total = st.total + Cap(q.signers[j].weight),
         after.done = (after.total >= q.needed),
         used \subseteq after.used,
         \A i \in after.used \ used :
           \E k \in DOMAIN q.signers : Verifies(q.sigs[i], q.signers[k].key, q.contents)
  PROVE  IsSound(q, used, after)
<1>1. /\ st \in States(q) /\ st.left \subseteq DOMAIN q.signers
      /\ st.total = SumOf(CapsOver(q, Matched(q, st)))
      /\ \A m \in Matched(q, st) : CountsIn(q, m)
  BY DEF IsSound, States
<1>2. /\ Matched(q, after) = Matched(q, st) \cup {j} /\ j \notin Matched(q, st)
      /\ Matched(q, st) \in SUBSET DOMAIN q.signers /\ Matched(q, after) \in SUBSET DOMAIN q.signers
  BY <1>1 DEF Matched
<1> DEFINE M == Matched(q, st)
           N == Matched(q, after)
           f == CapsOver(q, M)
           g == CapsOver(q, N)
<1>3. /\ IsFiniteSet(M) /\ f \in [M -> Nat] /\ g \in [N -> Nat] /\ N = M \cup {j} /\ j \notin M
      /\ \A y \in M : g[y] = f[y]
      /\ g[j] = Cap(q.signers[j].weight)
  <2>1. IsFiniteSet(M) /\ f \in [M -> Nat] /\ g \in [N -> Nat]
    BY <1>2, SignersFacts
  <2>2. j \in N /\ M \subseteq N
    BY <1>2
  <2>3. /\ \A y \in M : g[y] = Cap(q.signers[y].weight) /\ f[y] = Cap(q.signers[y].weight)
        /\ g[j] = Cap(q.signers[j].weight)
    BY <2>2 DEF CapsOver
  <2> QED BY <1>2, <2>1, <2>3
<1> HIDE DEF M, N, f, g
<1>4. f \in [M -> Int] /\ g \in [M \cup {j} -> Int]
  BY <1>3
<1>5. SumOf(g) = SumOf(f) + g[j]
  BY <1>3, <1>4, SumWith
<1>6. after.total = SumOf(CapsOver(q, Matched(q, after)))
  BY <1>1, <1>3, <1>5 DEF M, N, f, g
<1>7. \A m \in Matched(q, after) : CountsIn(q, m)
  BY <1>1, <1>2
<1>8. /\ after.done => after.total >= q.needed /\ Matched(q, after) # {}
      /\ ~after.done => after.total < q.needed
  <2>1. after.total \in Nat /\ q.needed \in Nat
    BY DEF States, IsQuestion
  <2>2. Matched(q, after) # {}
    BY <1>2
  <2>3. after.done => after.total >= q.needed
    OBVIOUS
  <2>4. ~after.done => after.total < q.needed
    <3>1. ~after.done => ~(after.total >= q.needed)
      OBVIOUS
    <3>2. ~(after.total >= q.needed) => after.total < q.needed
      BY <2>1, SMT
    <3> QED BY <3>1, <3>2
  <2> QED BY <2>2, <2>3, <2>4
<1> QED BY <1>6, <1>7, <1>8 DEF IsSound

LEMMA TrySound ==
  ASSUME NEW q, IsQuestion(q), NEW used, NEW type, type # "preAuthTx", NEW st,
         IsSound(q, used, st), NEW i \in DOMAIN q.sigs
  PROVE  IsSound(q, used, TrySignature(q, type, st, i))
<1> DEFINE after == TrySignature(q, type, st, i)
<1>1. st \in States(q)
  BY DEF IsSound
<1>2. CASE after = st
  BY <1>2
<1>3. CASE \E j : Consumes(q, type, st, i, j, after)
  <2> HIDE DEF after
  <2>1. PICK j : Consumes(q, type, st, i, j, after)
    BY <1>3
  <2>2. /\ j \in st.left /\ j \in DOMAIN q.signers /\ after \in States(q)
        /\ q.signers[j].key.type = type /\ Verifies(q.sigs[i], q.signers[j].key, q.contents)
        /\ after.used = st.used \cup {i}
    BY <2>1 DEF Consumes, Matching
  <2>3. CountsIn(q, j)
    BY <2>2 DEF CountsIn, Counts
  <2>4. /\ after.left = st.left \ {j} /\ after.total = st.total + Cap(q.signers[j].weight)
        /\ after.done = (after.total >= q.needed)
    BY <1>1, <2>1, <2>2, MatchTyped DEF Consumes
  <2>5. /\ used \subseteq after.used
        /\ \A k \in after.used \ used :
             \E m \in DOMAIN q.signers : Verifies(q.sigs[k], q.signers[m].key, q.contents)
    BY <2>2 DEF IsSound
  <2>6. IsSound(q, used, after)
    BY <2>2, <2>3, <2>4, <2>5, OneMore
  <2> QED BY <2>6 DEF after
<1> HIDE DEF after
<1>4. after = st \/ \E j : Consumes(q, type, st, i, j, after)
  BY <1>1, TryFacts DEF after
<1>5. IsSound(q, used, after)
  BY <1>2, <1>3, <1>4 DEF after
<1> QED BY <1>5 DEF after

\* What the rest of a check keeps: it is over once it is over, and unmatches nobody.
Onward(st, after) == after.left \subseteq st.left /\ (st.done => after.done)

LEMMA TryOnward ==
  ASSUME NEW q, IsQuestion(q), NEW type, NEW st \in States(q), NEW i \in DOMAIN q.sigs
  PROVE  Onward(st, TrySignature(q, type, st, i))
<1> DEFINE after == TrySignature(q, type, st, i)
<1>1. after = st \/ \E j : Consumes(q, type, st, i, j, after)
  BY TryFacts
<1> HIDE DEF after
<1>2. ASSUME NEW j, Consumes(q, type, st, i, j, after) PROVE Onward(st, after)
  <2>1. after.left = st.left \ {j} /\ ~st.done
    BY <1>2, MatchTyped DEF Consumes
  <2> QED BY <2>1 DEF Onward
<1>3. Onward(st, after)
  BY <1>1, <1>2 DEF Onward
<1> QED BY <1>3 DEF after

LEMMA PreAuthSound ==
  ASSUME NEW q, IsQuestion(q), NEW used, NEW st, IsSound(q, used, st),
         NEW j \in DOMAIN q.signers, j \in st.left
  PROVE  IsSound(q, used, PreAuthStep(q, st, j))
<1> DEFINE after == Match(q, st, j)
<1>1. CASE st.done \/ q.signers[j].key # PreAuthTx(q.contents)
  BY <1>1 DEF PreAuthStep
<1>2. CASE ~st.done /\ q.signers[j].key = PreAuthTx(q.contents)
  <2>1. CountsIn(q, j)
    BY <1>2 DEF CountsIn, Counts
  <2>2. /\ after \in States(q) /\ after.used = st.used /\ after.left = st.left \ {j}
        /\ after.total = st.total + Cap(q.signers[j].weight)
        /\ after.done = (after.total >= q.needed)
    BY MatchTyped DEF IsSound
  <2>3. PreAuthStep(q, st, j) = after
    BY <1>2 DEF PreAuthStep
  <2> HIDE DEF after
  <2>4. /\ used \subseteq after.used
        /\ \A i \in after.used \ used :
             \E k \in DOMAIN q.signers : Verifies(q.sigs[i], q.signers[k].key, q.contents)
    BY <2>2 DEF IsSound
  <2>5. IsSound(q, used, after)
    BY <2>1, <2>2, <2>4, OneMore
  <2> QED BY <2>3, <2>5
<1> QED BY <1>1, <1>2

\* The pre-authorised signers, from the beginning of a check: they come in order,
\* each unmatched until its turn.
LEMMA PreAuthorisedFacts ==
  ASSUME NEW q, IsQuestion(q), NEW st, IsSound(q, st.used, st), st.left = DOMAIN q.signers
  PROVE  /\ IsSound(q, st.used, PreAuthorised(q, st))
         /\ PreAuthorised(q, st).used = st.used
         /\ ~PreAuthorised(q, st).done =>
              \A j \in PreAuthorised(q, st).left : q.signers[j].key # PreAuthTx(q.contents)
<1> DEFINE n == Len(q.signers)
<1>0. st \in States(q) /\ n \in Nat /\ DOMAIN q.signers = 1 .. n
  BY ListDomain DEF IsSound, IsQuestion, AreSigners
<1>1. PICK h : PreAuthRun(q, st, h)
  BY <1>0, PreAuthSegments
<1> DEFINE Good(k) == /\ IsSound(q, st.used, h[k]) /\ h[k].used = st.used
                      /\ \A j \in 1 .. n : j > k => j \in h[k].left
                      /\ ~h[k].done =>
                           \A j \in h[k].left : j <= k => q.signers[j].key # PreAuthTx(q.contents)
           T == {k \in 0 .. n : Good(k)}
<1>2. 0 \in T
  <2>1. h[0] = st /\ 0 \in 0 .. n
    BY <1>0, <1>1 DEF PreAuthRun
  <2>2. \A j \in 1 .. n : ~(j <= 0)
    OBVIOUS
  <2> QED BY <1>0, <2>1, <2>2
<1>3. ASSUME NEW k \in 0 .. n - 1, k \in T
      PROVE  k + 1 \in T
  <2>1. k + 1 \in 1 .. n /\ k + 1 \in 0 .. n /\ (k + 1) - 1 = k /\ k + 1 > k /\ k \in Int
    BY <1>0
  <2>2. h[k + 1] = PreAuthStep(q, h[k], k + 1)
    BY <1>1, <2>1 DEF PreAuthRun
  <2>3. Good(k) /\ h[k] \in States(q) /\ h[k].left \subseteq 1 .. n
    BY <1>0, <1>3 DEF IsSound, States
  <2>4. k + 1 \in h[k].left /\ k + 1 \in DOMAIN q.signers
    BY <1>0, <2>1, <2>3
  <2>5. IsSound(q, st.used, h[k + 1])
    BY <2>2, <2>3, <2>4, PreAuthSound
  <2>6. CASE h[k].done \/ q.signers[k + 1].key # PreAuthTx(q.contents)
    <3>1. h[k + 1] = h[k]
      BY <2>2, <2>6 DEF PreAuthStep
    <3>2. \A j \in 1 .. n : j > k + 1 => j > k
      BY <1>0, <2>1
    <3>3. \A j \in 1 .. n : j <= k + 1 => j <= k \/ j = k + 1
      BY <1>0, <2>1
    <3>4. ~h[k].done => \A j \in h[k].left : j <= k + 1 => q.signers[j].key # PreAuthTx(q.contents)
      BY <2>3, <2>6, <3>3
    <3> QED BY <2>1, <2>3, <2>5, <3>1, <3>2, <3>4
  <2>7. CASE ~h[k].done /\ q.signers[k + 1].key = PreAuthTx(q.contents)
    <3>1. h[k + 1] = Match(q, h[k], k + 1)
      BY <2>2, <2>7 DEF PreAuthStep
    <3>2. h[k + 1].used = h[k].used /\ h[k + 1].left = h[k].left \ {k + 1}
      BY <2>3, <2>4, <3>1, MatchTyped
    <3>3. \A j \in 1 .. n : j > k + 1 => j > k /\ j # k + 1
      BY <1>0, <2>1
    <3>4. \A j \in 1 .. n : j <= k + 1 => j <= k \/ j = k + 1
      BY <1>0, <2>1
    <3>5. \A j \in h[k + 1].left : j <= k + 1 => q.signers[j].key # PreAuthTx(q.contents)
      BY <2>3, <2>7, <3>2, <3>4
    <3>6. \A j \in 1 .. n : j > k + 1 => j \in h[k + 1].left
      BY <2>3, <3>2, <3>3
    <3> QED BY <2>1, <2>3, <2>5, <3>2, <3>5, <3>6
  <2> QED BY <2>6, <2>7
<1> HIDE DEF T
<1>4. 0 .. n \subseteq T
  BY <1>0, <1>2, <1>3, AllNumbersUpTo
<1>5. Good(n)
  BY <1>0, <1>4 DEF T
<1>6. h[n] = PreAuthorised(q, st) /\ h[n].left \subseteq 1 .. n
  BY <1>0, <1>1, <1>5 DEF PreAuthRun, IsSound, States
<1>7. \A j \in h[n].left : j <= n
  BY <1>0, <1>6
<1> QED BY <1>5, <1>6, <1>7

(***************************************************************************)
(* Completeness, for signers with distinct keys: a pass that ends without  *)
(* the needed weight has matched every signer of its type that a signature *)
(* verifies for.                                                           *)
(***************************************************************************)
\* The first k signatures verify for no signer of the type still unmatched.
Exhausted(q, type, k, st) ==
  ~st.done =>
    \A i \in 1 .. k, j \in st.left :
      q.signers[j].key.type = type => ~Verifies(q.sigs[i], q.signers[j].key, q.contents)

LEMMA TryExhausts ==
  ASSUME NEW q, IsQuestion(q), Distinct(q.signers), NEW type, NEW st \in States(q),
         NEW i \in DOMAIN q.sigs, NEW j \in TrySignature(q, type, st, i).left,
         ~TrySignature(q, type, st, i).done,
         q.signers[j].key.type = type
  PROVE  ~st.done /\ j \in st.left /\ ~Verifies(q.sigs[i], q.signers[j].key, q.contents)
<1> DEFINE after == TrySignature(q, type, st, i)
<1>1. /\ after = st /\ (st.done \/ Matching(q, type, st, i) = {})
      \/ \E m : Consumes(q, type, st, i, m, after)
  BY TryFacts
<1>2. j \in after.left /\ ~after.done
  OBVIOUS
<1> HIDE DEF after
<1>3. CASE after = st /\ (st.done \/ Matching(q, type, st, i) = {})
  BY <1>2, <1>3 DEF Matching
<1>4. ASSUME NEW m, Consumes(q, type, st, i, m, after)
      PROVE  ~st.done /\ j \in st.left /\ ~Verifies(q.sigs[i], q.signers[j].key, q.contents)
  <2>1. /\ ~st.done /\ m \in DOMAIN q.signers /\ after.left = st.left \ {m}
        /\ Verifies(q.sigs[i], q.signers[m].key, q.contents)
    BY <1>4, MatchTyped DEF Consumes, Matching
  <2>2. j \in st.left /\ j # m /\ j \in DOMAIN q.signers
    BY <1>2, <2>1 DEF States
  <2>3. q.signers[j].key # q.signers[m].key
    BY <2>1, <2>2 DEF Distinct
  <2> QED BY <2>1, <2>2, <2>3 DEF Verifies
<1> QED BY <1>1, <1>3, <1>4

\* One pass, from a state of a check.
LEMMA PassFacts ==
  ASSUME NEW q, IsQuestion(q), NEW used, NEW type, type # "preAuthTx", NEW st,
         IsSound(q, used, st)
  PROVE  /\ IsSound(q, used, VerifyAll(q, type, st))
         /\ Onward(st, VerifyAll(q, type, st))
         /\ Distinct(q.signers) => Exhausted(q, type, Len(q.sigs), VerifyAll(q, type, st))
<1> DEFINE n == Len(q.sigs)
<1>0. st \in States(q) /\ n \in Nat /\ DOMAIN q.sigs = 1 .. n
  BY ListDomain DEF IsSound, IsQuestion
<1>1. PICK h : VerifyRun(q, type, st, h)
  BY <1>0, VerifySegments
<1> DEFINE Good(k) == /\ IsSound(q, used, h[k]) /\ Onward(st, h[k])
                      /\ Distinct(q.signers) => Exhausted(q, type, k, h[k])
           T == {k \in 0 .. n : Good(k)}
<1>2. 0 \in T
  <2>1. h[0] = st /\ 0 \in 0 .. n /\ 1 .. 0 = {}
    BY <1>0, <1>1 DEF VerifyRun
  <2> QED BY <2>1 DEF Onward, Exhausted
<1>3. ASSUME NEW k \in 0 .. n - 1, k \in T
      PROVE  k + 1 \in T
  <2>1. k + 1 \in 1 .. n /\ k + 1 \in 0 .. n /\ (k + 1) - 1 = k /\ 1 .. k + 1 = (1 .. k) \cup {k + 1}
    BY <1>0
  <2>2. h[k + 1] = TrySignature(q, type, h[k], k + 1)
    BY <1>1, <2>1 DEF VerifyRun
  <2>3. Good(k) /\ h[k] \in States(q) /\ k + 1 \in DOMAIN q.sigs
    BY <1>0, <1>3, <2>1 DEF IsSound
  <2>4. IsSound(q, used, h[k + 1])
    BY <2>2, <2>3, TrySound
  <2>5. Onward(h[k], h[k + 1])
    BY <2>2, <2>3, TryOnward
  <2>6. Onward(st, h[k + 1])
    BY <2>3, <2>5 DEF Onward
  <2>7. ASSUME Distinct(q.signers) PROVE Exhausted(q, type, k + 1, h[k + 1])
    <3> SUFFICES ASSUME ~h[k + 1].done, NEW i \in 1 .. k + 1, NEW j \in h[k + 1].left,
                        q.signers[j].key.type = type
                 PROVE  ~Verifies(q.sigs[i], q.signers[j].key, q.contents)
      BY DEF Exhausted
    <3>1. /\ ~h[k].done /\ j \in h[k].left
          /\ ~Verifies(q.sigs[k + 1], q.signers[j].key, q.contents)
      BY <2>2, <2>3, <2>7, TryExhausts
    <3>2. i \in 1 .. k => ~Verifies(q.sigs[i], q.signers[j].key, q.contents)
      BY <2>3, <2>7, <3>1 DEF Exhausted
    <3> QED BY <2>1, <3>1, <3>2
  <2> QED BY <2>1, <2>4, <2>6, <2>7
<1> HIDE DEF T
<1>4. 0 .. n \subseteq T
  BY <1>0, <1>2, <1>3, AllNumbersUpTo
<1>5. Good(n)
  BY <1>0, <1>4 DEF T
<1>6. h[n] = VerifyAll(q, type, st)
  BY <1>1 DEF VerifyRun
<1> QED BY <1>5, <1>6
-----------------------------------------------------------------------------
(***************************************************************************)
(* The whole check.                                                        *)
(***************************************************************************)
Start(q, used) == [done |-> FALSE, total |-> 0, used |-> used, left |-> DOMAIN q.signers]
After(q, used) == Verified(q, PreAuthorised(q, Start(q, used)))

\* What the check of q answers, by the weights.
Weighty(q) == HasWeight(q.sigs, q.contents, q.signers, q.needed)

LEMMA StartSound ==
  ASSUME NEW q, IsQuestion(q), NEW used \in SUBSET DOMAIN q.sigs
  PROVE  IsSound(q, used, Start(q, used))
<1> DEFINE st == Start(q, used)
<1>1. /\ st \in States(q) /\ st.left = DOMAIN q.signers /\ st.total = 0 /\ st.used = used
      /\ ~st.done
  BY DEF Start, States
<1>2. Matched(q, st) = {}
  BY <1>1 DEF Matched
<1>3. SumOf(CapsOver(q, {})) = 0
  <2>1. CapsOver(q, {}) \in [{} -> Int]
    BY DEF CapsOver
  <2> QED BY <2>1, SumNone
<1> HIDE DEF st
<1>4. IsSound(q, used, st)
  BY <1>1, <1>2, <1>3 DEF IsSound
<1> QED BY <1>4 DEF st

LEMMA SoundHasWeight ==
  ASSUME NEW q, IsQuestion(q), NEW used, NEW st, IsSound(q, used, st), st.done
  PROVE  Weighty(q)
<1> DEFINE M == Matched(q, st)
           C == Counting(q.sigs, q.contents, q.signers)
<1>1. /\ M \in SUBSET DOMAIN q.signers /\ M # {}
      /\ st.total = SumOf(CapsOver(q, M)) /\ st.total >= q.needed
      /\ \A j \in M : CountsIn(q, j)
  BY DEF IsSound, Matched
<1>2. C = {j \in DOMAIN q.signers : CountsIn(q, j)}
  BY DEF Counting, CountsIn
<1>3. M \subseteq C /\ C \in SUBSET DOMAIN q.signers /\ C # {}
  BY <1>1, <1>2
<1>4. WeightOf(q.sigs, q.contents, q.signers) = SumOf(CapsOver(q, C))
  BY DEF WeightOf, SumOf, CapsOver
<1> HIDE DEF M, C
<1>5. /\ IsFiniteSet(C) /\ CapsOver(q, C) \in [C -> Nat] /\ CapsOver(q, M) \in [M -> Nat]
      /\ SumOf(CapsOver(q, C)) \in Nat /\ SumOf(CapsOver(q, M)) \in Nat
  BY <1>1, <1>3, SignersFacts
<1>6. \A y \in M : CapsOver(q, M)[y] = CapsOver(q, C)[y]
  BY <1>3 DEF CapsOver
<1>7. SumOf(CapsOver(q, M)) <= SumOf(CapsOver(q, C))
  BY <1>3, <1>5, <1>6, SumSmaller
<1>8. q.needed \in Nat
  BY DEF IsQuestion
<1>9. WeightOf(q.sigs, q.contents, q.signers) >= q.needed
  BY <1>1, <1>4, <1>5, <1>7, <1>8
<1> QED BY <1>3, <1>9 DEF Weighty, HasWeight, C

LEMMA SoundLacksWeight ==
  ASSUME NEW q, IsQuestion(q), NEW used, NEW st, IsSound(q, used, st), ~st.done,
         \A j \in st.left : ~CountsIn(q, j)
  PROVE  ~Weighty(q)
<1> DEFINE M == Matched(q, st)
           C == Counting(q.sigs, q.contents, q.signers)
<1>1. C = {j \in DOMAIN q.signers : CountsIn(q, j)}
  BY DEF Counting, CountsIn
<1>2. \A j \in M : CountsIn(q, j) /\ j \in DOMAIN q.signers
  BY DEF IsSound, Matched
<1>3. \A j \in DOMAIN q.signers : j \in M \/ j \in st.left
  BY DEF Matched
<1>4. M = C
  BY <1>1, <1>2, <1>3
<1>5. WeightOf(q.sigs, q.contents, q.signers) = st.total
  BY <1>4 DEF WeightOf, SumOf, CapsOver, IsSound
<1>6. st.total < q.needed \/ C = {}
  BY <1>4 DEF IsSound
<1>7. st.total \in Nat /\ q.needed \in Nat
  BY DEF IsSound, States, IsQuestion
<1>8. ~(WeightOf(q.sigs, q.contents, q.signers) >= q.needed) \/ C = {}
  BY <1>5, <1>6, <1>7
<1> QED BY <1>8 DEF Weighty, HasWeight

LEMMA CheckSound ==
  ASSUME NEW q, IsQuestion(q), NEW used \in SUBSET DOMAIN q.sigs
  PROVE  IsSound(q, used, After(q, used))
<1> DEFINE s1 == PreAuthorised(q, Start(q, used))
           s2 == VerifyAll(q, "hashX", s1)
           s3 == VerifyAll(q, "ed25519", s2)
<1>1. Start(q, used).used = used /\ Start(q, used).left = DOMAIN q.signers
  BY DEF Start
<1>2. IsSound(q, used, s1)
  BY <1>1, StartSound, PreAuthorisedFacts
<1> HIDE DEF s1
<1>3. IsSound(q, used, s2)
  BY <1>2, PassFacts
<1> HIDE DEF s2
<1>4. IsSound(q, used, s3)
  BY <1>3, PassFacts
<1> HIDE DEF s3
<1>5. IsSound(q, used, VerifyAll(q, "signedPayload", s3))
  BY <1>4, PassFacts
<1> QED BY <1>5 DEF After, Verified, s1, s2, s3

LEMMA CheckComplete ==
  ASSUME NEW q, IsQuestion(q), NEW used \in SUBSET DOMAIN q.sigs, Distinct(q.signers),
         \A j \in DOMAIN q.signers : q.signers[j].key.type \in SignerTypes,
         ~After(q, used).done
  PROVE  ~Weighty(q)
<1> DEFINE s1 == PreAuthorised(q, Start(q, used))
           s2 == VerifyAll(q, "hashX", s1)
           s3 == VerifyAll(q, "ed25519", s2)
           s4 == VerifyAll(q, "signedPayload", s3)
           n == Len(q.sigs)
<1>0. DOMAIN q.sigs = 1 .. n
  BY ListDomain DEF IsQuestion
<1>1. Start(q, used).used = used /\ Start(q, used).left = DOMAIN q.signers
  BY DEF Start
<1>2. /\ IsSound(q, used, s1)
      /\ ~s1.done => \A j \in s1.left : q.signers[j].key # PreAuthTx(q.contents)
  BY <1>1, StartSound, PreAuthorisedFacts
<1>3. s4 = After(q, used)
  BY DEF After, Verified
<1> HIDE DEF s1, n
<1>4. /\ IsSound(q, used, s2) /\ Onward(s1, s2) /\ Exhausted(q, "hashX", n, s2)
  BY <1>2, PassFacts DEF n
<1> HIDE DEF s2
<1>5. /\ IsSound(q, used, s3) /\ Onward(s2, s3) /\ Exhausted(q, "ed25519", n, s3)
  BY <1>4, PassFacts DEF n
<1> HIDE DEF s3
<1>6. /\ IsSound(q, used, s4) /\ Onward(s3, s4) /\ Exhausted(q, "signedPayload", n, s4)
  BY <1>5, PassFacts DEF n
<1> HIDE DEF s4
<1>7. ~s4.done /\ ~s3.done /\ ~s2.done /\ ~s1.done
  BY <1>3, <1>4, <1>5, <1>6 DEF Onward
<1>8. s4.left \subseteq s3.left /\ s4.left \subseteq s2.left /\ s4.left \subseteq s1.left
  BY <1>4, <1>5, <1>6 DEF Onward
<1>9. ASSUME NEW j \in s4.left PROVE ~CountsIn(q, j)
  <2>1. j \in DOMAIN q.signers
    BY <1>6, <1>9 DEF IsSound, States
  <2>2. q.signers[j].key # PreAuthTx(q.contents)
    BY <1>2, <1>7, <1>8
  <2>3. ASSUME NEW i \in DOMAIN q.sigs, q.signers[j].key.type # "preAuthTx"
        PROVE  ~Verifies(q.sigs[i], q.signers[j].key, q.contents)
    <3>1. q.signers[j].key.type \in {"hashX", "ed25519", "signedPayload"}
      BY <2>1, <2>3 DEF SignerTypes
    <3>2. i \in 1 .. n
      BY <1>0
    <3>3. q.signers[j].key.type = "hashX" => ~Verifies(q.sigs[i], q.signers[j].key, q.contents)
      BY <1>4, <1>7, <1>8, <3>2 DEF Exhausted
    <3>4. q.signers[j].key.type = "ed25519" => ~Verifies(q.sigs[i], q.signers[j].key, q.contents)
      BY <1>5, <1>7, <1>8, <3>2 DEF Exhausted
    <3>5. q.signers[j].key.type = "signedPayload" => ~Verifies(q.sigs[i], q.signers[j].key, q.contents)
      BY <1>6, <1>7, <1>8, <3>2 DEF Exhausted
    <3> QED BY <3>1, <3>3, <3>4, <3>5
  <2> QED BY <2>2, <2>3 DEF CountsIn, Counts
<1> QED BY <1>6, <1>7, <1>9, SoundLacksWeight

\* A pass over a type no signer has.
LEMMA IdlePass ==
  ASSUME NEW q, IsQuestion(q), NEW type, NEW st \in States(q),
         \A j \in DOMAIN q.signers : q.signers[j].key.type # type
  PROVE  VerifyAll(q, type, st) = st
<1> DEFINE n == Len(q.sigs)
<1>0. n \in Nat /\ DOMAIN q.sigs = 1 .. n
  BY ListDomain DEF IsQuestion
<1>1. PICK h : VerifyRun(q, type, st, h)
  BY VerifySegments
<1> DEFINE T == {k \in 0 .. n : h[k] = st}
<1>2. 0 \in T
  BY <1>0, <1>1 DEF VerifyRun
<1>3. ASSUME NEW k \in 0 .. n - 1, k \in T
      PROVE  k + 1 \in T
  <2>1. k + 1 \in 1 .. n /\ k + 1 \in 0 .. n /\ (k + 1) - 1 = k
    BY <1>0
  <2>2. h[k + 1] = TrySignature(q, type, st, k + 1)
    BY <1>1, <1>3, <2>1 DEF VerifyRun
  <2>3. Matching(q, type, st, k + 1) = {}
    BY DEF Matching, States
  <2>4. h[k + 1] = st
    BY <2>2, <2>3 DEF TrySignature
  <2> QED BY <2>1, <2>4
<1> HIDE DEF T
<1>4. 0 .. n \subseteq T
  BY <1>0, <1>2, <1>3, AllNumbersUpTo
<1>5. h[n] = st
  BY <1>0, <1>4 DEF T
<1> QED BY <1>1, <1>5 DEF VerifyRun

\* The same of signers none of which pre-authorised anything.
LEMMA IdlePreAuth ==
  ASSUME NEW q, IsQuestion(q), NEW st \in States(q),
         \A j \in DOMAIN q.signers : q.signers[j].key # PreAuthTx(q.contents)
  PROVE  PreAuthorised(q, st) = st
<1> DEFINE n == Len(q.signers)
<1>0. n \in Nat /\ DOMAIN q.signers = 1 .. n
  BY ListDomain DEF IsQuestion, AreSigners
<1>1. PICK h : PreAuthRun(q, st, h)
  BY PreAuthSegments
<1> DEFINE T == {k \in 0 .. n : h[k] = st}
<1>2. 0 \in T
  BY <1>0, <1>1 DEF PreAuthRun
<1>3. ASSUME NEW k \in 0 .. n - 1, k \in T
      PROVE  k + 1 \in T
  <2>1. k + 1 \in 1 .. n /\ k + 1 \in 0 .. n /\ (k + 1) - 1 = k
    BY <1>0
  <2>2. h[k + 1] = PreAuthStep(q, st, k + 1)
    BY <1>1, <1>3, <2>1 DEF PreAuthRun
  <2>3. h[k + 1] = st
    BY <1>0, <2>1, <2>2 DEF PreAuthStep
  <2> QED BY <2>1, <2>3
<1> HIDE DEF T
<1>4. 0 .. n \subseteq T
  BY <1>0, <1>2, <1>3, AllNumbersUpTo
<1>5. h[n] = st
  BY <1>0, <1>4 DEF T
<1> QED BY <1>1, <1>5 DEF PreAuthRun

\* The signatures but the last.
LEMMA FrontFacts ==
  ASSUME NEW sigs, IsList(sigs), Len(sigs) # 0
  PROVE  /\ Len(sigs) - 1 \in Nat /\ DOMAIN Front(sigs) = 1 .. Len(sigs) - 1
         /\ \A i \in 1 .. Len(sigs) - 1 : Front(sigs)[i] = sigs[i]
<1>1. sigs \in Seq(ToSet(sigs)) /\ Len(sigs) \in Nat
  BY DEF IsList
<1> QED BY <1>1 DEF Front

\* Signers a first part of the signatures accounts for.
UpTo(q, used, k, st) ==
  /\ st.used \subseteq used \cup (1 .. k)
  /\ \A j \in Matched(q, st) : \E i \in 1 .. k : Verifies(q.sigs[i], q.signers[j].key, q.contents)

LEMMA TryUpTo ==
  ASSUME NEW q, IsQuestion(q), NEW used, NEW type, NEW st \in States(q), NEW k \in Nat,
         k + 1 \in DOMAIN q.sigs, UpTo(q, used, k, st)
  PROVE  UpTo(q, used, k + 1, TrySignature(q, type, st, k + 1))
<1> DEFINE after == TrySignature(q, type, st, k + 1)
<1>1. after = st \/ \E j : Consumes(q, type, st, k + 1, j, after)
  BY TryFacts
<1> HIDE DEF after
<1>2. 1 .. k \subseteq 1 .. k + 1 /\ k + 1 \in 1 .. k + 1
  OBVIOUS
<1>3. ASSUME NEW m, Consumes(q, type, st, k + 1, m, after) PROVE UpTo(q, used, k + 1, after)
  <2>1. /\ after.left = st.left \ {m} /\ after.used = st.used \cup {k + 1}
        /\ Verifies(q.sigs[k + 1], q.signers[m].key, q.contents)
    BY <1>3, MatchTyped DEF Consumes, Matching
  <2>2. \A j \in Matched(q, after) : j = m \/ j \in Matched(q, st)
    BY <2>1 DEF Matched
  <2> QED BY <1>2, <2>1, <2>2 DEF UpTo
<1>4. UpTo(q, used, k + 1, after)
  BY <1>1, <1>2, <1>3 DEF UpTo
<1> QED BY <1>4 DEF after

\* A pass over ed25519 signers that begins a check and consumes the last signature
\* was short of the weight without it.
LEMMA LastInPass ==
  ASSUME NEW q, IsQuestion(q), Distinct(q.signers), NEW used \in SUBSET DOMAIN q.sigs,
         \A j \in DOMAIN q.signers : q.signers[j].key.type = "ed25519",
         Len(q.sigs) # 0, Len(q.sigs) \notin used,
         Len(q.sigs) \in VerifyAll(q, "ed25519", Start(q, used)).used
  PROVE  ~HasWeight(Front(q.sigs), q.contents, q.signers, q.needed)
<1> DEFINE n == Len(q.sigs)
           st == Start(q, used)
           m == n - 1
<1>0. n \in Nat /\ DOMAIN q.sigs = 1 .. n /\ m \in Nat /\ n = m + 1 /\ n \in 1 .. n
  BY ListDomain DEF IsQuestion
<1>1. IsSound(q, used, st) /\ st \in States(q)
  BY StartSound DEF IsSound
<1>2. PICK h : VerifyRun(q, "ed25519", st, h)
  BY <1>1, VerifySegments
<1> DEFINE Good(k) == /\ IsSound(q, used, h[k]) /\ UpTo(q, used, k, h[k])
                      /\ Exhausted(q, "ed25519", k, h[k])
           T == {k \in 0 .. m : Good(k)}
<1> HIDE DEF n, m
<1>3. 0 \in T
  <2>1. h[0] = st /\ 0 \in 0 .. m /\ 1 .. 0 = {}
    BY <1>0, <1>2 DEF VerifyRun
  <2>2. Matched(q, st) = {} /\ st.used = used
    BY DEF Matched, Start
  <2> QED BY <1>1, <2>1, <2>2 DEF UpTo, Exhausted
<1>4. ASSUME NEW k \in 0 .. m - 1, k \in T
      PROVE  k + 1 \in T
  <2>1. /\ k + 1 \in 1 .. n /\ k + 1 \in 0 .. m /\ (k + 1) - 1 = k /\ k \in Nat
        /\ 1 .. k + 1 = (1 .. k) \cup {k + 1}
    BY <1>0
  <2>2. h[k + 1] = TrySignature(q, "ed25519", h[k], k + 1)
    BY <1>2, <2>1 DEF VerifyRun, n
  <2>3. Good(k) /\ h[k] \in States(q) /\ k + 1 \in DOMAIN q.sigs
    BY <1>0, <1>4, <2>1 DEF IsSound
  <2>4. IsSound(q, used, h[k + 1])
    BY <2>2, <2>3, TrySound
  <2>5. UpTo(q, used, k + 1, h[k + 1])
    BY <2>1, <2>2, <2>3, TryUpTo
  <2>6. Exhausted(q, "ed25519", k + 1, h[k + 1])
    <3> SUFFICES ASSUME ~h[k + 1].done, NEW i \in 1 .. k + 1, NEW j \in h[k + 1].left,
                        q.signers[j].key.type = "ed25519"
                 PROVE  ~Verifies(q.sigs[i], q.signers[j].key, q.contents)
      BY DEF Exhausted
    <3>1. /\ ~h[k].done /\ j \in h[k].left
          /\ ~Verifies(q.sigs[k + 1], q.signers[j].key, q.contents)
      BY <2>2, <2>3, TryExhausts
    <3>2. i \in 1 .. k => ~Verifies(q.sigs[i], q.signers[j].key, q.contents)
      BY <2>3, <3>1 DEF Exhausted
    <3> QED BY <2>1, <3>1, <3>2
  <2> QED BY <2>1, <2>4, <2>5, <2>6
<1> HIDE DEF T
<1>5. 0 .. m \subseteq T
  BY <1>0, <1>3, <1>4, AllNumbersUpTo
<1> DEFINE before == h[m]
<1>6. Good(m) /\ before \in States(q)
  <2>1. m \in 0 .. m
    BY <1>0
  <2> QED BY <1>5, <2>1 DEF T, IsSound
<1>7. h[n] = TrySignature(q, "ed25519", before, n) /\ h[n] = VerifyAll(q, "ed25519", st)
  BY <1>0, <1>2 DEF VerifyRun, n, m
<1>8. ~before.done
  <2>1. n \notin before.used
    <3>1. n \notin 1 .. m /\ n \notin used
      BY <1>0 DEF n
    <3> QED BY <1>6, <3>1 DEF UpTo
  <2>2. n \in h[n].used
    BY <1>7 DEF n
  <2>3. h[n] # before
    BY <2>1, <2>2
  <2> QED BY <1>7, <2>3 DEF TrySignature
<1> HIDE DEF before
<1> DEFINE C == Counting(Front(q.sigs), q.contents, q.signers)
<1>9. DOMAIN Front(q.sigs) = 1 .. m /\ \A i \in 1 .. m : Front(q.sigs)[i] = q.sigs[i]
  BY FrontFacts DEF n, m, IsQuestion
<1>10. ASSUME NEW j \in DOMAIN q.signers
       PROVE  j \in C <=> j \in Matched(q, before)
  <2>1. j \in C <=> \E i \in 1 .. m : Verifies(q.sigs[i], q.signers[j].key, q.contents)
    <3>1. q.signers[j].key.type = "ed25519" /\ q.signers[j].key # PreAuthTx(q.contents)
      BY DEF PreAuthTx
    <3> QED BY <1>9, <3>1 DEF Counting, Counts
  <2>2. j \in Matched(q, before) => \E i \in 1 .. m : Verifies(q.sigs[i], q.signers[j].key, q.contents)
    BY <1>6 DEF UpTo, before
  <2>3. j \notin Matched(q, before) =>
          \A i \in 1 .. m : ~Verifies(q.sigs[i], q.signers[j].key, q.contents)
    BY <1>6, <1>8 DEF Exhausted, Matched, before
  <2> QED BY <2>1, <2>2, <2>3
<1>11. C = Matched(q, before)
  BY <1>10 DEF Counting, Matched
<1>12. WeightOf(Front(q.sigs), q.contents, q.signers) = before.total
  BY <1>6, <1>11 DEF WeightOf, SumOf, CapsOver, IsSound, before
<1>13. before.total < q.needed \/ C = {}
  BY <1>6, <1>8, <1>11 DEF IsSound, before
<1>14. before.total \in Nat /\ q.needed \in Nat
  BY <1>6 DEF States, IsQuestion
<1>15. ~(WeightOf(Front(q.sigs), q.contents, q.signers) >= q.needed) \/ C = {}
  BY <1>12, <1>13, <1>14
<1> QED BY <1>15 DEF HasWeight
-----------------------------------------------------------------------------
(***************************************************************************)
(* The same of CheckSignature.                                             *)
(***************************************************************************)
Asked(sigs, contents, signers, needed) ==
  [sigs |-> sigs, contents |-> contents, signers |-> signers, needed |-> needed]

LEMMA CheckIsAfter ==
  ASSUME NEW sigs, NEW contents, NEW used, NEW signers, NEW needed
  PROVE  LET q == Asked(sigs, contents, signers, needed)
         IN  /\ CheckSignature(sigs, contents, used, signers, needed).ok = After(q, used).done
             /\ CheckSignature(sigs, contents, used, signers, needed).used = After(q, used).used
             /\ q.sigs = sigs /\ q.contents = contents /\ q.signers = signers /\ q.needed = needed
  BY DEF CheckSignature, After, Start, Asked

(***************************************************************************)
(* A check consumes signatures of its own signers and none of an earlier   *)
(* check's is given back; it says yes only of signers with the weight      *)
(* needed, and of every such list of signers with distinct keys.           *)
(***************************************************************************)
THEOREM CheckDecides ==
  ASSUME NEW sigs, NEW contents, NEW signers, NEW needed \in Nat, IsList(sigs), AreSigners(signers),
         NEW used \in SUBSET DOMAIN sigs
  PROVE  LET result == CheckSignature(sigs, contents, used, signers, needed)
         IN  /\ result.ok \in BOOLEAN /\ result.used \in SUBSET DOMAIN sigs
             /\ used \subseteq result.used
             /\ \A i \in result.used \ used :
                  \E j \in DOMAIN signers : Verifies(sigs[i], signers[j].key, contents)
             /\ result.ok => HasWeight(sigs, contents, signers, needed)
             /\ Distinct(signers) /\ (\A j \in DOMAIN signers : signers[j].key.type \in SignerTypes) =>
                  (HasWeight(sigs, contents, signers, needed) => result.ok)
<1> DEFINE q == Asked(sigs, contents, signers, needed)
           result == CheckSignature(sigs, contents, used, signers, needed)
           end == After(q, used)
<1>1. /\ result.ok = end.done /\ result.used = end.used
      /\ q.sigs = sigs /\ q.contents = contents /\ q.signers = signers /\ q.needed = needed
  BY CheckIsAfter
<1> HIDE DEF q, result, end
<1>2. IsQuestion(q) /\ used \in SUBSET DOMAIN q.sigs
  BY <1>1 DEF IsQuestion
<1>3. IsSound(q, used, end)
  BY <1>2, CheckSound DEF end
<1>4. Weighty(q) <=> HasWeight(sigs, contents, signers, needed)
  BY <1>1 DEF Weighty
<1>5. result.ok => HasWeight(sigs, contents, signers, needed)
  BY <1>1, <1>2, <1>3, <1>4, SoundHasWeight
<1>6. Distinct(signers) /\ (\A j \in DOMAIN signers : signers[j].key.type \in SignerTypes) =>
        (HasWeight(sigs, contents, signers, needed) => result.ok)
  BY <1>1, <1>2, <1>4, CheckComplete DEF end
<1>7. /\ result.ok \in BOOLEAN /\ result.used \in SUBSET DOMAIN sigs /\ used \subseteq result.used
      /\ \A i \in result.used \ used :
           \E j \in DOMAIN signers : Verifies(sigs[i], signers[j].key, contents)
  BY <1>1, <1>3 DEF IsSound, States
<1> QED BY <1>5, <1>6, <1>7 DEF result

(***************************************************************************)
(* A check of ed25519 signers that consumes the last signature would have  *)
(* failed without it.                                                      *)
(***************************************************************************)
THEOREM LastConsumedNeeded ==
  ASSUME NEW sigs, NEW contents, NEW signers, NEW needed \in Nat, IsList(sigs), AreSigners(signers),
         NEW used \in SUBSET DOMAIN sigs,
         Distinct(signers), \A j \in DOMAIN signers : signers[j].key.type = "ed25519",
         Len(sigs) # 0, Len(sigs) \notin used,
         Len(sigs) \in CheckSignature(sigs, contents, used, signers, needed).used
  PROVE  ~HasWeight(Front(sigs), contents, signers, needed)
<1> DEFINE q == Asked(sigs, contents, signers, needed)
           st == Start(q, used)
           pass == VerifyAll(q, "ed25519", st)
<1>1. /\ CheckSignature(sigs, contents, used, signers, needed).used = After(q, used).used
      /\ q.sigs = sigs /\ q.contents = contents /\ q.signers = signers /\ q.needed = needed
  BY CheckIsAfter
<1> HIDE DEF q
<1>2. IsQuestion(q) /\ used \in SUBSET DOMAIN q.sigs
  BY <1>1 DEF IsQuestion
<1>3. IsSound(q, used, st) /\ st \in States(q)
  BY <1>2, StartSound DEF IsSound
<1> HIDE DEF st
<1>4. PreAuthorised(q, st) = st
  <2>1. PreAuthTx(contents).type = "preAuthTx"
    BY DEF PreAuthTx
  <2>2. \A j \in DOMAIN q.signers : q.signers[j].key # PreAuthTx(q.contents)
    BY <1>1, <2>1
  <2> QED BY <1>2, <1>3, <2>2, IdlePreAuth
<1>5. VerifyAll(q, "hashX", st) = st
  BY <1>1, <1>2, <1>3, IdlePass
<1>6. IsSound(q, used, pass) /\ pass \in States(q)
  <2>1. IsSound(q, used, VerifyAll(q, "ed25519", st))
    BY <1>2, <1>3, PassFacts
  <2> QED BY <2>1 DEF IsSound
<1> HIDE DEF pass
<1>7. VerifyAll(q, "signedPayload", pass) = pass
  BY <1>1, <1>2, <1>6, IdlePass
<1>8. After(q, used) = pass
  BY <1>4, <1>5, <1>7 DEF After, Verified, pass, st
<1> QED BY <1>1, <1>2, <1>8, LastInPass DEF pass, st

\* Ones over a set, and over a part of it that lacks an element.
LEMMA OnesMissing ==
  ASSUME NEW N, IsFiniteSet(N), NEW f \in [N -> Int], \A y \in N : f[y] = 1,
         NEW C \in SUBSET N, NEW g \in [C -> Nat], \A y \in C : g[y] = 1,
         NEW x \in N, x \notin C
  PROVE  SumOf(g) + 1 <= SumOf(f)
<1> DEFINE D == N \ {x}
           r == [y \in D |-> 1]
<1>1. D = N \ {x} /\ IsFiniteSet(D) /\ C \in SUBSET D
  BY FS_Subset
<1>2. r \in [D -> Nat] /\ (\A y \in D : f[y] = r[y]) /\ (\A y \in C : g[y] = r[y])
  OBVIOUS
<1>3. r \in [D -> Int]
  BY <1>2
<1> HIDE DEF D, r
<1>4. SumOf(f) = SumOf(r) + f[x]
  BY <1>1, <1>2, <1>3, SumWithout
<1>5. SumOf(g) <= SumOf(r)
  BY <1>1, <1>2, SumSmaller
<1>6. SumOf(r) \in Nat /\ SumOf(g) \in Nat
  BY <1>1, <1>2, FS_Subset, SumNat
<1> QED BY <1>4, <1>5, <1>6

\* Signers of weight one that need as much as there are of them: each counts.
LEMMA AllMustCount ==
  ASSUME NEW sigs, NEW contents, NEW signers, IsList(signers),
         \A j \in DOMAIN signers : signers[j].weight = 1,
         HasWeight(sigs, contents, signers, Len(signers))
  PROVE  \A j \in DOMAIN signers : Counts(sigs, contents, signers[j].key)
<1> DEFINE n == Len(signers)
           C == Counting(sigs, contents, signers)
           f == [j \in 1 .. n |-> 1]
           g == [j \in C |-> Cap(signers[j].weight)]
<1>1. n \in Nat /\ DOMAIN signers = 1 .. n /\ C \in SUBSET (1 .. n)
  BY ListDomain DEF Counting
<1>2. SumOf(g) >= n
  BY DEF HasWeight, WeightOf, SumOf
<1>3. \A j \in C : g[j] = 1
  <2>1. \A j \in C : signers[j].weight = 1
    BY <1>1
  <2>2. Cap(1) = 1
    BY DEF Cap
  <2> QED BY <2>1, <2>2
<1>4. SumOf(f) = n /\ IsFiniteSet(1 .. n)
  <2>1. f \in [1 .. n -> {1}]
    OBVIOUS
  <2>2. IsFiniteSet(1 .. n)
    <3> HIDE DEF n
    <3> QED BY <1>1, FS_Interval
  <2> HIDE DEF f, n
  <2>3. SumOf(f) = n
    BY <1>1, <2>1, SumOnes
  <2> QED BY <2>2, <2>3
<1>5. g \in [C -> Nat]
  <2>1. DOMAIN g = C /\ g = [j \in C |-> g[j]]
    OBVIOUS
  <2> HIDE DEF g
  <2> QED BY <1>3, <2>1
<1>6. f \in [1 .. n -> Int] /\ \A j \in 1 .. n : f[j] = 1
  OBVIOUS
<1> HIDE DEF f, g, n
<1> SUFFICES ASSUME NEW x \in 1 .. n, x \notin C PROVE FALSE
  <2> QED BY <1>1 DEF Counting
<1>7. SumOf(g) + 1 <= SumOf(f)
  <2> DEFINE N == 1 .. n
  <2>1. /\ IsFiniteSet(N) /\ C \in SUBSET N /\ f \in [N -> Int] /\ g \in [C -> Nat]
        /\ x \in N /\ \A y \in N : f[y] = 1
    BY <1>1, <1>4, <1>5, <1>6
  <2> HIDE DEF N, C
  <2> QED BY <1>3, <2>1, OnesMissing
<1>8. SumOf(g) \in Nat
  BY <1>1, <1>4, <1>5, FS_Subset, SumNat
<1> HIDE DEF C
<1> QED BY <1>1, <1>2, <1>4, <1>7, <1>8
=============================================================================
