------------------------- MODULE RequestStoreProofs -------------------------
(***************************************************************************)
(* The request store for any set of requests, any regexes and any limits,  *)
(* alone and below the reports.                                            *)
(***************************************************************************)
EXTENDS Reporting, FiniteSetTheorems, WellFoundedInduction, TLAPS

(***************************************************************************)
(* The inductive invariant.  A pivot is only reached through its parents,  *)
(* and a request is among the samples of its pivot, where Pivot::AddRequest*)
(* looks for equal ones.                                                   *)
(***************************************************************************)
PivotsAreReachable ==
  /\ IsFiniteSet(pivots)
  /\ \A p \in pivots : \A k \in 1..Len(p) : SubSeq(p, 1, k) \in pivots

SamplesAreComplete ==
  \A i \in Id : i \in ToSet(req_samples[Full(requests_by_id[i])])

SamplesAreFiled ==
  /\ \A i \in Id : Full(requests_by_id[i]) \in pivots
  /\ \A p \in Path : \A j \in DOMAIN req_samples[p] :
       Full(requests_by_id[req_samples[p][j]]) = p
  /\ \A p \in Path : \A j, k \in DOMAIN req_samples[p] :
       req_samples[p][j] = req_samples[p][k] => j = k

\* No two stored requests are equal to Request::Equals.
NoEquals ==
  \A i, j \in Id : i # j => ~Equals(requests_by_id[i], requests_by_id[j])

StoreInv ==
  /\ TypeOK
  /\ PivotsAreReachable
  /\ PivotLimitsHold
  /\ SamplesAreComplete
  /\ SamplesAreFiled
  /\ ProbedOnceInOrder
  /\ NoEquals
-----------------------------------------------------------------------------
(* Paths and the chain of pivots of a request.                             *)

\* A prefix of a prefix.
LEMMA SubSeqFacts ==
  ASSUME NEW S, NEW p \in Seq(S), NEW k \in 1..Len(p)
  PROVE  /\ SubSeq(p, 1, k) \in Seq(S) /\ Len(SubSeq(p, 1, k)) = k
         /\ \A i \in 1..k : SubSeq(p, 1, k)[i] = p[i]
         /\ \A j \in 1..k : SubSeq(SubSeq(p, 1, k), 1, j) = SubSeq(p, 1, j)
<1> DEFINE q == SubSeq(p, 1, k)
<1>1. q \in Seq(S) /\ Len(q) = k /\ \A i \in 1..k : q[i] = p[i]
  OBVIOUS
<1> HIDE DEF q
<1>2. ASSUME NEW j \in 1..k PROVE SubSeq(q, 1, j) = SubSeq(p, 1, j)
  <2>1. /\ SubSeq(q, 1, j) \in Seq(S) /\ Len(SubSeq(q, 1, j)) = j
        /\ \A i \in 1..j : SubSeq(q, 1, j)[i] = q[i]
    BY <1>1
  <2>2. /\ SubSeq(p, 1, j) \in Seq(S) /\ Len(SubSeq(p, 1, j)) = j
        /\ \A i \in 1..j : SubSeq(p, 1, j)[i] = p[i]
    OBVIOUS
  <2>3. \A i \in 1..j : q[i] = p[i]
    BY <1>1
  <2> QED BY <2>1, <2>2, <2>3
<1> QED BY <1>1, <1>2 DEF q

\* The chain of a request: one pivot for each length, the last is its own.
LEMMA ChainFacts ==
  ASSUME NEW r \in Request
  PROVE  /\ Full(r) \in Seq(STRING) /\ Len(Full(r)) \in Nat /\ Len(Full(r)) >= 1
         /\ Full(r) \in Path /\ SubSeq(Full(r), 1, Len(Full(r))) = Full(r)
         /\ SubSeq(Full(r), 1, 1) = <<r.host>>
         /\ \A p : p \in Chain(r) <=> \E k \in 1..Len(Full(r)) : p = SubSeq(Full(r), 1, k)
         /\ Chain(r) \subseteq Path
<1>1. r.host \in STRING /\ r.path \in Seq(STRING)
  BY RequestStoreAssumption
<1>2. /\ Full(r) \in Seq(STRING) /\ Len(Full(r)) \in Nat /\ Len(Full(r)) >= 1
      /\ Full(r)[1] = r.host
  BY <1>1 DEF Full
<1>3. SubSeq(Full(r), 1, Len(Full(r))) = Full(r)
  BY <1>2
<1>4. SubSeq(Full(r), 1, 1) = <<r.host>>
  <2> DEFINE q == SubSeq(Full(r), 1, 1)
  <2>1. 1 \in 1..Len(Full(r))
    BY <1>2
  <2>2. q \in Seq(STRING) /\ Len(q) = 1 /\ q[1] = r.host
    BY <1>2, <2>1, SubSeqFacts
  <2> HIDE DEF q
  <2>3. q = <<r.host>>
    BY <2>2
  <2> QED BY <2>3 DEF q
<1>5. \A p : p \in Chain(r) <=> \E k \in 1..Len(Full(r)) : p = SubSeq(Full(r), 1, k)
  BY DEF Chain
<1>6. Chain(r) \subseteq Path
  BY DEF Path
<1>7. Full(r) \in Path
  <2>1. Len(Full(r)) \in 1..Len(Full(r))
    BY <1>2
  <2> QED BY <1>3, <1>5, <1>6, <2>1
<1> QED BY <1>2, <1>3, <1>4, <1>5, <1>6, <1>7

\* A pivot is a sequence of at least one name.
LEMMA PathFacts ==
  ASSUME NEW p \in Path
  PROVE  p \in Seq(STRING) /\ Len(p) \in Nat /\ Len(p) >= 1
<1>1. PICK r \in Request : p \in Chain(r)
  BY DEF Path
<1>2. PICK k \in 1..Len(Full(r)) : p = SubSeq(Full(r), 1, k)
  BY <1>1, ChainFacts
<1>3. Full(r) \in Seq(STRING)
  BY ChainFacts
<1>4. p \in Seq(STRING) /\ Len(p) = k
  BY <1>2, <1>3, SubSeqFacts
<1> QED BY <1>4

\* The prefix of a sequence that another one extends.
LEMMA PrefixFacts ==
  ASSUME NEW S, NEW p \in Seq(S), NEW q \in Seq(S)
  PROVE  IsPrefix(p, q) <=> Len(p) <= Len(q) /\ p = SubSeq(q, 1, Len(p))
<1>1. SubSeq(p, 1, Len(p)) = p
  OBVIOUS
<1> QED BY <1>1 DEF IsPrefix

\* The pivots on the way to a request are those up to a depth, which is what
\* the number of them says.
LEMMA Depth ==
  ASSUME PivotsAreReachable, NEW r \in Request
  PROVE  \E m \in 0..Len(Full(r)) :
           /\ \A k \in 1..Len(Full(r)) : SubSeq(Full(r), 1, k) \in pivots <=> k <= m
           /\ Cardinality(Chain(r) \cap pivots) = m
<1> DEFINE f == Full(r)
           L == Len(f)
           T == {k \in Nat : k >= 1 /\ (k = L + 1 \/ (k <= L /\ SubSeq(f, 1, k) \notin pivots))}
<1>1. f \in Seq(STRING) /\ L \in Nat /\ L >= 1
  BY ChainFacts
<1>2. \A p : p \in Chain(r) <=> \E k \in 1..L : p = SubSeq(f, 1, k)
  BY ChainFacts
<1> HIDE DEF f, L
<1>3. \E x \in T : \A y \in T : ~(y < x)
  <2>1. T \subseteq Nat /\ L + 1 \in T
    BY <1>1
  <2>2. \E x \in T : \A y \in T : ~(<<y, x>> \in OpToRel(<, Nat))
    BY <2>1, WFMin, NatLessThanWellFounded
  <2> QED BY <2>1, <2>2 DEF OpToRel
<1>4. PICK x \in T : \A y \in T : ~(y < x)
  BY <1>3
<1> DEFINE m == x - 1
<1>5. m \in 0..L /\ x = m + 1
  BY <1>1
<1>6. ASSUME NEW k \in 1..L PROVE SubSeq(f, 1, k) \in pivots <=> k <= m
  <2>1. k <= m => SubSeq(f, 1, k) \in pivots
    BY <1>1, <1>4, <1>5
  <2>2. ASSUME k > m, SubSeq(f, 1, k) \in pivots PROVE FALSE
    <3>1. x <= k /\ x \in 1..k /\ x \in 1..L
      BY <1>1, <1>5, <2>2
    <3>2. /\ Len(SubSeq(f, 1, k)) = k
          /\ SubSeq(SubSeq(f, 1, k), 1, x) = SubSeq(f, 1, x)
      BY <1>1, <3>1, SubSeqFacts DEF L
    <3>3. SubSeq(f, 1, x) \in pivots
      BY <2>2, <3>1, <3>2 DEF PivotsAreReachable
    <3> QED BY <1>1, <3>1, <3>3
  <2> QED BY <1>5, <2>1, <2>2
<1> HIDE DEF m
<1>7. Cardinality(Chain(r) \cap pivots) = m
  <2> DEFINE g == [k \in 1..m |-> SubSeq(f, 1, k)]
             C == Chain(r) \cap pivots
  <2>0. \A k \in 1..m : k \in 1..L /\ k <= m
    BY <1>1, <1>5
  <2>1. g \in [1..m -> C]
    <3>1. \A k \in 1..m : SubSeq(f, 1, k) \in Chain(r) /\ SubSeq(f, 1, k) \in pivots
      BY <1>2, <1>6, <2>0
    <3> QED BY <3>1
  <2>2. \A k \in 1..m : g[k] = SubSeq(f, 1, k) /\ Len(g[k]) = k
    <3>1. \A k \in 1..m : k \in 1..Len(f)
      BY <1>1, <1>5 DEF L
    <3> QED BY <1>1, <3>1, SubSeqFacts
  <2>3. ASSUME NEW p \in C PROVE \E k \in 1..m : g[k] = p
    <3>1. PICK k \in 1..L : p = SubSeq(f, 1, k)
      BY <1>2
    <3>2. k \in 1..m
      BY <1>5, <1>6, <3>1
    <3> QED BY <3>1, <3>2
  <2> HIDE DEF g, C
  <2>4. g \in Injection(1..m, C)
    BY <2>1, <2>2 DEF Injection, IsInjective
  <2>5. g \in Surjection(1..m, C)
    BY <2>1, <2>3 DEF Surjection
  <2>6. ExistsBijection(1..m, C)
    BY <2>4, <2>5 DEF ExistsBijection, Bijection
  <2>7. IsFiniteSet(1..m) /\ Cardinality(1..m) = m
    <3>1. 1 \in Int /\ m \in Int
      BY <1>5
    <3>2. IsFiniteSet(1..m) /\ Cardinality(1..m) = IF 1 > m THEN 0 ELSE m - 1 + 1
      BY <3>1, FS_Interval
    <3> QED BY <1>5, <3>2
  <2> QED BY <2>6, <2>7, FS_Bijection DEF C
<1> QED BY <1>5, <1>6, <1>7 DEF f, L

-----------------------------------------------------------------------------
(* AddRequestToPivot.                                                      *)

\* Which pivots a request adds: the chain down to some length, and children of
\* the deepest pivot only if there is room for one more.
LEMMA FileUnderEffect ==
  ASSUME TypeOK, PivotsAreReachable, NEW r \in Request, FileUnder(r)
  PROVE  \E m \in 0..Len(Full(r)), t \in 1..Len(Full(r)) :
           /\ \A k \in 1..Len(Full(r)) : SubSeq(Full(r), 1, k) \in pivots <=> k <= m
           /\ pivots' = pivots \cup {SubSeq(Full(r), 1, k) : k \in 1..t}
           /\ t > m /\ t > 1 =>
                Cardinality(Children(SubSeq(Full(r), 1, IF m = 0 THEN 1 ELSE m))) < ChildLimit
<1> DEFINE f == Full(r)
           L == Len(f)
<1>1. /\ f \in Seq(STRING) /\ L \in Nat /\ L >= 1
      /\ SubSeq(f, 1, 1) = <<r.host>>
      /\ Chain(r) = {SubSeq(f, 1, k) : k \in 1..L}
  BY ChainFacts DEF Chain
<1>2. PICK m \in 0..L : /\ \A k \in 1..L : SubSeq(f, 1, k) \in pivots <=> k <= m
                        /\ Cardinality(Chain(r) \cap pivots) = m
  BY Depth
<1>3. Deepest(r) = SubSeq(f, 1, IF m = 0 THEN 1 ELSE m)
  BY <1>2 DEF Deepest
<1> DEFINE t == IF Fits(r) THEN L ELSE 1
<1>4. t \in 1..L
  BY <1>1
<1>5. pivots' = pivots \cup {SubSeq(f, 1, k) : k \in 1..t}
  <2>1. CASE Fits(r)
    <3>1. pivots' = pivots \cup {<<r.host>>} \cup Chain(r)
      BY <2>1 DEF FileUnder
    <3>2. <<r.host>> \in Chain(r)
      <4>1. 1 \in 1..L
        BY <1>1
      <4> QED BY <1>1, <4>1
    <3> QED BY <1>1, <2>1, <3>1, <3>2
  <2>2. CASE ~Fits(r)
    <3>1. pivots' = pivots \cup {SubSeq(f, 1, 1)}
      BY <1>1, <2>2 DEF FileUnder
    <3>2. 1..t = {1}
      BY <2>2
    <3> QED BY <3>1, <3>2
  <2> QED BY <2>1, <2>2
<1>6. ASSUME t > m, t > 1 PROVE Cardinality(Children(Deepest(r))) < ChildLimit
  <2>1. Fits(r) /\ L > 1 /\ L > m
    BY <1>6
  <2>2. Full(r) # Deepest(r)
    <3> DEFINE d == IF m = 0 THEN 1 ELSE m
    <3>1. d \in 1..L /\ d < L
      BY <1>1, <2>1
    <3>2. Len(SubSeq(f, 1, d)) = d
      BY <1>1, <3>1, SubSeqFacts
    <3> QED BY <1>3, <3>1, <3>2
  <2> QED BY <2>1, <2>2 DEF Fits
<1> HIDE DEF t
<1> QED BY <1>2, <1>3, <1>4, <1>5, <1>6

\* The walk down the tree keeps it a tree, and keeps the limit on children, also
\* when it creates several pivots.
LEMMA FileUnderKeepsLimits ==
  ASSUME TypeOK, PivotsAreReachable, NEW r \in Request, FileUnder(r),
         \A p \in pivots : Cardinality(Children(p)) <= ChildLimit
  PROVE  /\ pivots' \subseteq Path
         /\ PivotsAreReachable'
         /\ \A p \in pivots' : Cardinality(Children(p)') <= ChildLimit
<1> DEFINE f == Full(r)
           L == Len(f)
<1>1. f \in Seq(STRING) /\ L \in Nat /\ L >= 1 /\ \A k \in 1..L : SubSeq(f, 1, k) \in Path
  BY ChainFacts
<1>2. PICK m \in 0..L, t \in 1..L :
             /\ \A k \in 1..L : SubSeq(f, 1, k) \in pivots <=> k <= m
             /\ pivots' = pivots \cup {SubSeq(f, 1, k) : k \in 1..t}
             /\ t > m /\ t > 1 =>
                  Cardinality(Children(SubSeq(f, 1, IF m = 0 THEN 1 ELSE m))) < ChildLimit
  BY FileUnderEffect
<1> DEFINE N == {SubSeq(f, 1, k) : k \in 1..t}
<1>3. \A k \in 1..t : k \in 1..L
  BY <1>1
<1>4. \A k \in 1..L : /\ Len(SubSeq(f, 1, k)) = k
                      /\ \A j \in 1..k : SubSeq(SubSeq(f, 1, k), 1, j) = SubSeq(f, 1, j)
  BY <1>1, SubSeqFacts
<1> HIDE DEF f, L
<1>5. N \subseteq Path /\ pivots \subseteq Path /\ pivots' \subseteq Path /\ IsFiniteSet(pivots)
  BY <1>1, <1>2, <1>3 DEF TypeOK, PivotsAreReachable
<1>6. IsFiniteSet(N) /\ IsFiniteSet(pivots')
  <2> DEFINE g == [k \in 1..t |-> SubSeq(f, 1, k)]
  <2>1. g \in Surjection(1..t, N)
    BY DEF Surjection
  <2>2. IsFiniteSet(1..t)
    <3>1. 1 \in Int /\ t \in Int
      BY <1>1
    <3> QED BY <3>1, FS_Interval
  <2> HIDE DEF g, N
  <2>3. IsFiniteSet(N)
    BY <2>1, <2>2, FS_Surjection
  <2> QED BY <1>2, <1>5, <2>3, FS_Union DEF N
<1>7. PivotsAreReachable'
  <2>1. ASSUME NEW p \in pivots', NEW j \in 1..Len(p) PROVE SubSeq(p, 1, j) \in pivots'
    <3>1. CASE p \in pivots
      BY <1>2, <3>1 DEF PivotsAreReachable
    <3>2. CASE p \in N
      <4>1. PICK k \in 1..t : p = SubSeq(f, 1, k)
        BY <3>2
      <4>2. Len(p) = k /\ SubSeq(p, 1, j) = SubSeq(f, 1, j) /\ j \in 1..t
        BY <1>1, <1>3, <1>4, <4>1
      <4> QED BY <1>2, <4>2
    <3> QED BY <1>2, <3>1, <3>2
  <2> QED BY <1>6, <2>1 DEF PivotsAreReachable
<1>8. ASSUME NEW p \in pivots' PROVE Cardinality(Children(p)') <= ChildLimit
  <2> DEFINE x == SubSeq(f, 1, Len(p) + 1)
  <2>1. p \in Path /\ p \in Seq(STRING) /\ Len(p) \in Nat /\ Len(p) >= 1
    BY <1>5, PathFacts
  <2>2. Children(p) = {q \in pivots : Len(q) = Len(p) + 1 /\ IsPrefix(p, q)}
    BY DEF Children
  <2>3. Children(p)' = {q \in pivots' : Len(q) = Len(p) + 1 /\ IsPrefix(p, q)}
    BY DEF Children
  <2>4. p \notin pivots => Children(p) = {}
    <3>1. ASSUME NEW q \in Children(p) PROVE p \in pivots
      <4>1. q \in pivots /\ Len(q) = Len(p) + 1 /\ IsPrefix(p, q)
        BY <2>2
      <4>2. q \in Seq(STRING)
        BY <1>5, <4>1, PathFacts
      <4>3. p = SubSeq(q, 1, Len(p)) /\ Len(p) \in 1..Len(q)
        BY <2>1, <4>1, <4>2, PrefixFacts
      <4> QED BY <4>1, <4>3 DEF PivotsAreReachable
    <3> QED BY <3>1
  <2>5. IsFiniteSet(Children(p)) /\ Cardinality(Children(p)) \in Nat
    <3>1. Children(p) \subseteq pivots
      BY <2>2
    <3> QED BY <1>5, <3>1, FS_Subset, FS_CardinalityType
  <2>6. ASSUME NEW q \in Children(p)', q \notin Children(p)
        PROVE  /\ q = x /\ Len(p) + 1 \in 1..t /\ Len(p) + 1 > m
               /\ p = SubSeq(f, 1, Len(p))
    <3>1. q \in pivots' /\ q \notin pivots /\ Len(q) = Len(p) + 1 /\ IsPrefix(p, q)
      BY <2>2, <2>3, <2>6
    <3>2. PICK k \in 1..t : q = SubSeq(f, 1, k)
      BY <1>2, <3>1
    <3>3. k \in 1..L /\ Len(q) = k
      BY <1>3, <1>4, <3>2
    <3>4. k = Len(p) + 1 /\ q = x
      BY <2>1, <3>1, <3>2, <3>3
    <3>5. ~(k <= m)
      BY <1>2, <3>1, <3>2, <3>3
    <3>6. q \in Seq(STRING)
      BY <1>5, <3>1, PathFacts
    <3>7. p = SubSeq(q, 1, Len(p)) /\ Len(p) \in 1..k
      <4>1. p = SubSeq(q, 1, Len(p))
        BY <2>1, <3>1, <3>6, PrefixFacts
      <4>2. Len(p) \in 1..k
        BY <2>1, <3>4
      <4> QED BY <4>1, <4>2
    <3>8. p = SubSeq(f, 1, Len(p))
      BY <1>4, <3>2, <3>3, <3>7
    <3> QED BY <1>1, <2>1, <3>4, <3>5, <3>8
  <2>7. CASE Children(p)' \subseteq Children(p)
    <3>1. Cardinality(Children(p)') <= Cardinality(Children(p))
      BY <2>5, <2>7, FS_Subset
    <3>2. Cardinality(Children(p)') \in Nat
      BY <2>5, <2>7, FS_Subset, FS_CardinalityType
    <3>3. Cardinality(Children(p)) <= ChildLimit
      <4>1. CASE p \in pivots
        BY <4>1
      <4>2. CASE p \notin pivots
        <5>1. Children(p) = {} /\ Cardinality({}) = 0
          BY <2>4, <4>2, FS_EmptySet
        <5>2. Cardinality(Children(p)) = 0
          BY <5>1
        <5> QED BY <5>2, RequestStoreAssumption
      <4> QED BY <4>1, <4>2
    <3> QED BY <2>5, <3>1, <3>2, <3>3, RequestStoreAssumption
  <2>8. CASE ~(Children(p)' \subseteq Children(p))
    <3>1. PICK q \in Children(p)' : q \notin Children(p)
      BY <2>8
    <3>2. /\ Len(p) + 1 \in 1..t /\ Len(p) + 1 > m /\ p = SubSeq(f, 1, Len(p))
      BY <2>6, <3>1
    <3>3. t > m /\ t > 1
      BY <1>1, <2>1, <3>2
    <3> DEFINE d == SubSeq(f, 1, IF m = 0 THEN 1 ELSE m)
    <3>4. Cardinality(Children(d)) < ChildLimit
      BY <1>2, <3>3
    <3>5. Cardinality(Children(d)) \in Nat
      <4>1. Children(d) \subseteq pivots
        BY DEF Children
      <4> QED BY <1>5, <4>1, FS_Subset, FS_CardinalityType
    <3>6. Cardinality(Children(p)) < ChildLimit
      <4>1. CASE p \in pivots
        <5>1. Len(p) \in 1..L
          BY <1>1, <2>1, <3>2
        <5>2. Len(p) <= m
          BY <1>2, <3>2, <4>1, <5>1
        <5>3. Len(p) = m /\ m # 0
          <6>1. m \in Nat
            BY <1>1
          <6>2. Len(p) + 1 > m
            BY <3>2
          <6> QED BY <2>1, <5>2, <6>1, <6>2
        <5>4. p = d
          BY <3>2, <5>3
        <5> QED BY <3>4, <5>4
      <4>2. CASE p \notin pivots
        <5> HIDE DEF d
        <5>1. ChildLimit > 0
          BY <3>4, <3>5, RequestStoreAssumption
        <5> QED BY <2>4, <4>2, <5>1, FS_EmptySet
      <4> QED BY <4>1, <4>2
    <3>7. Children(p)' \subseteq Children(p) \cup {x}
      BY <2>6
    <3> HIDE DEF x
    <3>8. /\ IsFiniteSet(Children(p) \cup {x})
          /\ Cardinality(Children(p) \cup {x}) <= Cardinality(Children(p)) + 1
          /\ Cardinality(Children(p) \cup {x}) \in Nat
      <4>1. /\ IsFiniteSet(Children(p) \cup {x})
            /\ Cardinality(Children(p) \cup {x})
                 = IF x \in Children(p) THEN Cardinality(Children(p)) ELSE Cardinality(Children(p)) + 1
        BY <2>5, FS_AddElement
      <4> QED BY <2>5, <4>1
    <3>9. /\ Cardinality(Children(p)') <= Cardinality(Children(p) \cup {x})
          /\ Cardinality(Children(p)') \in Nat
      BY <3>7, <3>8, FS_Subset, FS_CardinalityType
    <3> QED BY <2>5, <3>6, <3>8, <3>9, RequestStoreAssumption
  <2> QED BY <2>7, <2>8
<1> QED BY <1>5, <1>7, <1>8

-----------------------------------------------------------------------------
(* The operations of the store.                                            *)

\* Equal requests are filed under the same pivot, and equality is symmetric.
LEMMA EqualsFacts ==
  ASSUME NEW r, NEW s, Equals(r, s)
  PROVE  Full(r) = Full(s) /\ Equals(s, r)
<1>1. Full(r) = Full(s)
  BY DEF Equals, SameResource, Full
<1>2. /\ Names(r.params) \cup Names(s.params) = Names(s.params) \cup Names(r.params)
      /\ Names(r.body) \cup Names(s.body) = Names(s.body) \cup Names(r.body)
  OBVIOUS
<1>3. FieldNamesEqual(s.params, r.params) /\ FieldNamesEqual(s.body, r.body)
  BY <1>2 DEF Equals, FieldNamesEqual
<1> QED BY <1>1, <1>3 DEF Equals, SameResource

\* The empty store.
LEMMA InitStore == ASSUME Init PROVE StoreInv
<1>1. Id = {} /\ requests_by_id = <<>> /\ probe_queue = <<>> /\ pivots = {}
  BY DEF Init, Id
<1>2. TypeOK
  BY <1>1 DEF Init, TypeOK
<1>3. PivotsAreReachable
  BY <1>1, FS_EmptySet DEF PivotsAreReachable
<1>4. PivotLimitsHold
  BY <1>1, RequestStoreAssumption DEF Init, PivotLimitsHold
<1>5. SamplesAreComplete /\ NoEquals
  BY <1>1 DEF SamplesAreComplete, NoEquals
<1>7. SamplesAreFiled
  BY <1>1 DEF Init, SamplesAreFiled
<1>6. ProbedOnceInOrder
  BY <1>1 DEF ProbedOnceInOrder
<1> QED BY <1>2, <1>3, <1>4, <1>5, <1>6, <1>7 DEF StoreInv

\* AddRequest rejects the request, files it without storing it, or stores it
\* under the next id.
LEMMA AddKeeps ==
  ASSUME StoreInv, NEW r \in Request, Add(allowed_hosts', r),
         allowed_hosts \subseteq allowed_hosts',
         allowed_hosts' \subseteq {q.host : q \in Request}
  PROVE  StoreInv'
<1> DEFINE id == Len(requests_by_id) + 1
<1>5. offered' \subseteq Request
  BY DEF Add, StoreInv, TypeOK
<1>1. /\ pivots' \subseteq Path
      /\ PivotsAreReachable'
      /\ \A p \in pivots' : Cardinality(Children(p)') <= ChildLimit
  <2>1. \A p \in pivots : Cardinality(Children(p)) <= ChildLimit
    BY DEF StoreInv, PivotLimitsHold
  <2>2. CASE InScope(allowed_hosts', r)
    <3>1. FileUnder(r)
      BY <2>2 DEF Add
    <3> QED BY <2>1, <3>1, FileUnderKeepsLimits DEF StoreInv
  <2>3. CASE ~InScope(allowed_hosts', r)
    <3>1. pivots' = pivots
      BY <2>3 DEF Add, storeVars
    <3> QED BY <2>1, <3>1 DEF StoreInv, TypeOK, PivotsAreReachable, Children
  <2> QED BY <2>2, <2>3
<1>4. pivots \subseteq pivots'
  BY DEF Add, FileUnder, storeVars
<1>2. CASE UNCHANGED <<req_samples, requests_by_id, probe_queue>>
  <2>1. Id' = Id
    BY <1>2 DEF Id
  <2>2. TypeOK'
    BY <1>1, <1>2, <1>5, <2>1 DEF StoreInv, TypeOK
  <2>3. PivotLimitsHold'
    BY <1>1, <1>2 DEF StoreInv, PivotLimitsHold
  <2>4. SamplesAreComplete' /\ NoEquals'
    BY <1>2, <2>1 DEF StoreInv, SamplesAreComplete, NoEquals
  <2>5. ProbedOnceInOrder'
    BY <1>2 DEF StoreInv, ProbedOnceInOrder
  <2>7. SamplesAreFiled'
    BY <1>2, <1>4, <2>1 DEF StoreInv, SamplesAreFiled
  <2> QED BY <1>1, <2>2, <2>3, <2>4, <2>5, <2>7 DEF StoreInv
<1>3. CASE /\ InScope(allowed_hosts', r) /\ PivotAccepts(r) /\ FileUnder(r) /\ Fits(r)
           /\ req_samples' = [req_samples EXCEPT ![Full(r)] = Append(@, id)]
           /\ requests_by_id' = Append(requests_by_id, r)
           /\ probe_queue' = Append(probe_queue, id)
  <2>1. /\ Len(requests_by_id) \in Nat /\ Id = 1..(id - 1) /\ id \in Nat /\ id \notin Id
        /\ requests_by_id' \in Seq(Request) /\ Len(requests_by_id') = id
        /\ requests_by_id'[id] = r
        /\ \A i \in Id : requests_by_id'[i] = requests_by_id[i] /\ requests_by_id[i] \in Request
        /\ Id' = 1..id /\ Id' = Id \cup {id}
    BY <1>3 DEF StoreInv, TypeOK, Id
  <2>2. Full(r) \in Path /\ req_samples[Full(r)] \in Seq(Id)
    BY ChainFacts DEF StoreInv, TypeOK
  <2> HIDE DEF id
  <2>3. /\ req_samples'[Full(r)] = Append(req_samples[Full(r)], id)
        /\ \A p \in Path : p # Full(r) => req_samples'[p] = req_samples[p]
        /\ \A p \in Path : req_samples[p] \in Seq(Id)
        /\ DOMAIN req_samples' = Path
    BY <1>3, <2>2 DEF StoreInv, TypeOK
  <2>4. \A p \in Path : req_samples'[p] \in Seq(Id')
    <3>1. \A p \in Path : req_samples[p] \in Seq(Id')
      BY <2>1, <2>3
    <3>2. Append(req_samples[Full(r)], id) \in Seq(Id')
      <4>1. req_samples[Full(r)] \in Seq(Id') /\ id \in Id'
        BY <2>1, <2>2, <3>1
      <4> QED BY <4>1
    <3> QED BY <2>3, <3>1, <3>2
  <2>5. req_samples' \in [Path -> Seq(Id')]
    <3>1. req_samples' = [p \in Path |-> req_samples'[p]]
      BY <1>3, <2>3 DEF StoreInv, TypeOK
    <3> QED BY <2>4, <3>1
  <2>6. probe_queue' \in Seq(Id')
    <3>1. probe_queue \in Seq(Id')
      BY <2>1 DEF StoreInv, TypeOK
    <3> QED BY <1>3, <2>1, <3>1
  <2>7. TypeOK'
    BY <1>1, <1>5, <2>1, <2>5, <2>6 DEF TypeOK
  <2>8. PivotLimitsHold'
    <3>1. ASSUME NEW p \in Path PROVE Len(req_samples'[p]) <= RequestLimit
      <4>1. CASE p = Full(r)
        <5>1. Len(req_samples[Full(r)]) \in Nat /\ Len(req_samples[Full(r)]) < RequestLimit
          BY <1>3, <2>2 DEF PivotAccepts
        <5>2. Len(req_samples'[p]) = Len(req_samples[Full(r)]) + 1
          BY <2>2, <2>3, <4>1
        <5> QED BY <5>1, <5>2, RequestStoreAssumption
      <4>2. CASE p # Full(r)
        BY <2>3, <4>2 DEF StoreInv, PivotLimitsHold
      <4> QED BY <4>1, <4>2
    <3> QED BY <1>1, <3>1 DEF PivotLimitsHold
  <2>9. SamplesAreComplete'
    <3>1. ToSet(req_samples'[Full(r)]) = ToSet(req_samples[Full(r)]) \cup {id}
      <4> DEFINE s == req_samples[Full(r)]
      <4>1. /\ Len(s) \in Nat /\ DOMAIN s = 1..Len(s)
            /\ DOMAIN Append(s, id) = 1..(Len(s) + 1)
            /\ Append(s, id)[Len(s) + 1] = id
            /\ \A i \in 1..Len(s) : Append(s, id)[i] = s[i]
        BY <2>2
      <4> QED BY <2>3, <4>1 DEF ToSet
    <3>2. ASSUME NEW i \in Id
          PROVE  i \in ToSet(req_samples'[Full(requests_by_id'[i])])
      <4>1. /\ requests_by_id'[i] = requests_by_id[i]
            /\ Full(requests_by_id[i]) \in Path
            /\ i \in ToSet(req_samples[Full(requests_by_id[i])])
        BY <2>1, ChainFacts DEF StoreInv, SamplesAreComplete
      <4>2. CASE Full(requests_by_id[i]) = Full(r)
        <5>1. i \in ToSet(req_samples[Full(r)])
          BY <4>1, <4>2
        <5>2. i \in ToSet(req_samples'[Full(r)])
          BY <3>1, <5>1
        <5> QED BY <4>1, <4>2, <5>2
      <4>3. CASE Full(requests_by_id[i]) # Full(r)
        <5>1. req_samples'[Full(requests_by_id[i])] = req_samples[Full(requests_by_id[i])]
          BY <2>3, <4>1, <4>3
        <5> QED BY <4>1, <5>1
      <4> QED BY <4>2, <4>3
    <3>3. id \in ToSet(req_samples'[Full(requests_by_id'[id])])
      BY <2>1, <3>1
    <3> QED BY <2>1, <3>2, <3>3 DEF SamplesAreComplete
  <2>10. ProbedOnceInOrder'
    <3>1. /\ Len(probe_queue) \in Nat /\ DOMAIN probe_queue = 1..Len(probe_queue)
          /\ Len(probe_queue') = Len(probe_queue) + 1
          /\ DOMAIN probe_queue' = 1..(Len(probe_queue) + 1)
          /\ probe_queue'[Len(probe_queue) + 1] = id
          /\ \A k \in 1..Len(probe_queue) : probe_queue'[k] = probe_queue[k]
      BY <1>3 DEF StoreInv, TypeOK
    <3>2. \A k \in 1..Len(probe_queue) :
            probe_queue[k] = Len(requests_by_id) - Len(probe_queue) + k
      BY <3>1 DEF StoreInv, ProbedOnceInOrder
    <3>3. id = Len(requests_by_id) + 1
      BY DEF id
    <3>4. ASSUME NEW k \in DOMAIN probe_queue'
          PROVE  probe_queue'[k] = id - (Len(probe_queue) + 1) + k
      <4>1. CASE k \in 1..Len(probe_queue)
        BY <2>1, <3>1, <3>2, <3>3, <4>1
      <4>2. CASE k = Len(probe_queue) + 1
        BY <2>1, <3>1, <4>2
      <4> QED BY <3>1, <4>1, <4>2
    <3> QED BY <2>1, <3>1, <3>4 DEF ProbedOnceInOrder
  <2>12. NoEquals'
    <3>1. ASSUME NEW i \in Id
          PROVE  ~Equals(requests_by_id[i], r) /\ ~Equals(r, requests_by_id[i])
      <4>1. ASSUME Equals(requests_by_id[i], r) PROVE FALSE
        <5>1. Full(requests_by_id[i]) = Full(r)
          BY <4>1, EqualsFacts
        <5>2. i \in ToSet(req_samples[Full(r)])
          BY <5>1 DEF StoreInv, SamplesAreComplete
        <5> QED BY <1>3, <4>1, <5>2 DEF PivotAccepts
      <4> QED BY <4>1, EqualsFacts
    <3> QED BY <2>1, <3>1 DEF StoreInv, NoEquals
  <2>13. SamplesAreFiled'
    <3> DEFINE s == req_samples[Full(r)]
    <3>1. /\ Len(s) \in Nat /\ DOMAIN s = 1..Len(s)
          /\ DOMAIN Append(s, id) = 1..(Len(s) + 1)
          /\ Append(s, id)[Len(s) + 1] = id
          /\ \A i \in 1..Len(s) : Append(s, id)[i] = s[i] /\ s[i] \in Id
      BY <2>2
    <3>2. Full(r) \in pivots'
      <4>1. Len(Full(r)) \in 1..Len(Full(r)) /\ SubSeq(Full(r), 1, Len(Full(r))) = Full(r)
        BY ChainFacts
      <4>2. Full(r) \in Chain(r)
        BY <4>1 DEF Chain
      <4> QED BY <1>3, <4>2 DEF FileUnder
    <3>3. \A i \in Id' : Full(requests_by_id'[i]) \in pivots'
      BY <1>4, <2>1, <3>2 DEF StoreInv, SamplesAreFiled
    <3>4. ASSUME NEW p \in Path
          PROVE  /\ \A j \in DOMAIN req_samples'[p] : Full(requests_by_id'[req_samples'[p][j]]) = p
                 /\ \A j, k \in DOMAIN req_samples'[p] : req_samples'[p][j] = req_samples'[p][k] => j = k
      <4>1. /\ \A j \in DOMAIN req_samples[p] : /\ Full(requests_by_id[req_samples[p][j]]) = p
                                               /\ req_samples[p][j] \in Id
            /\ \A j, k \in DOMAIN req_samples[p] : req_samples[p][j] = req_samples[p][k] => j = k
        BY <2>3 DEF StoreInv, SamplesAreFiled
      <4>2. CASE p # Full(r)
        <5>1. req_samples'[p] = req_samples[p]
          BY <2>3, <4>2
        <5> QED BY <2>1, <4>1, <5>1
      <4>3. CASE p = Full(r)
        <5>1. req_samples'[p] = Append(s, id) /\ req_samples[p] = s
          BY <2>3, <4>3
        <5> HIDE DEF s
        <5>2. ASSUME NEW j \in 1..(Len(s) + 1) PROVE Full(requests_by_id'[Append(s, id)[j]]) = p
          <6>1. CASE j \in 1..Len(s)
            BY <2>1, <3>1, <4>1, <5>1, <6>1
          <6>2. CASE j = Len(s) + 1
            BY <2>1, <3>1, <4>3, <6>2
          <6> QED BY <3>1, <6>1, <6>2
        <5>3. ASSUME NEW j \in 1..(Len(s) + 1), NEW k \in 1..(Len(s) + 1),
                     Append(s, id)[j] = Append(s, id)[k]
              PROVE  j = k
          <6>1. CASE j \in 1..Len(s) /\ k \in 1..Len(s)
            BY <3>1, <4>1, <5>1, <5>3, <6>1
          <6>2. CASE j = Len(s) + 1 \/ k = Len(s) + 1
            BY <2>1, <3>1, <5>3, <6>2
          <6> QED BY <3>1, <6>1, <6>2
        <5> QED BY <3>1, <5>1, <5>2, <5>3
      <4> QED BY <4>2, <4>3
    <3> QED BY <3>3, <3>4 DEF SamplesAreFiled
  <2> QED BY <1>1, <2>7, <2>8, <2>9, <2>10, <2>12, <2>13 DEF StoreInv
<1> QED BY <1>2, <1>3 DEF Add, Store, storeVars

\* The head of the probe queue is handed out.
LEMMA GetKeeps == ASSUME StoreInv, GetRequestFromProbeQueue PROVE StoreInv'
<1>1. /\ UNCHANGED <<allowed_hosts, pivots, req_samples, requests_by_id, offered>>
      /\ probe_queue # <<>> /\ probe_queue' = Tail(probe_queue)
  BY DEF GetRequestFromProbeQueue
<1>2. Id' = Id
  BY <1>1 DEF Id
<1>3. probe_queue \in Seq(Id) /\ requests_by_id \in Seq(Request)
  BY DEF StoreInv, TypeOK
<1>4. /\ Len(probe_queue) \in Nat /\ Len(probe_queue) >= 1
      /\ DOMAIN probe_queue = 1..Len(probe_queue)
      /\ probe_queue' \in Seq(Id) /\ Len(probe_queue') = Len(probe_queue) - 1
      /\ DOMAIN probe_queue' = 1..(Len(probe_queue) - 1)
      /\ \A k \in 1..(Len(probe_queue) - 1) : probe_queue'[k] = probe_queue[k + 1]
  BY <1>1, <1>3
<1>5. TypeOK'
  BY <1>1, <1>2, <1>4 DEF StoreInv, TypeOK
<1>6. PivotsAreReachable' /\ PivotLimitsHold'
  BY <1>1 DEF StoreInv, PivotsAreReachable, PivotLimitsHold, Children
<1>7. /\ SamplesAreComplete' /\ SamplesAreFiled'
      /\ NoEquals'
  BY <1>1, <1>2 DEF StoreInv, SamplesAreComplete, SamplesAreFiled, NoEquals
<1>8. ProbedOnceInOrder'
  <2>1. \A k \in 1..Len(probe_queue) :
          probe_queue[k] = Len(requests_by_id) - Len(probe_queue) + k
    BY <1>4 DEF StoreInv, ProbedOnceInOrder
  <2>2. Len(requests_by_id') = Len(requests_by_id) /\ Len(requests_by_id) \in Nat
    BY <1>1, <1>3
  <2> QED BY <1>4, <2>1, <2>2 DEF ProbedOnceInOrder
<1> QED BY <1>5, <1>6, <1>7, <1>8 DEF StoreInv

\* Every step keeps the invariant.
LEMMA NextStore == ASSUME StoreInv, [Next]_vars PROVE StoreInv'
<1>1. ASSUME NEW r \in Request, AddURL(r) PROVE StoreInv'
  <2>1. /\ Add(allowed_hosts', r) /\ allowed_hosts \subseteq allowed_hosts'
        /\ allowed_hosts' \subseteq {q.host : q \in Request}
    BY <1>1 DEF AddURL, StoreInv, TypeOK
  <2> QED BY <2>1, AddKeeps
<1>2. ASSUME NEW r \in Request, AddRequest(r) PROVE StoreInv'
  <2>1. /\ Add(allowed_hosts', r) /\ allowed_hosts \subseteq allowed_hosts'
        /\ allowed_hosts' \subseteq {q.host : q \in Request}
    BY <1>2 DEF AddRequest, StoreInv, TypeOK
  <2> QED BY <2>1, AddKeeps
<1>3. CASE GetRequestFromProbeQueue
  BY <1>3, GetKeeps
<1>4. CASE UNCHANGED vars
  BY <1>4 DEF vars, storeVars, StoreInv, TypeOK, PivotsAreReachable, PivotLimitsHold, Children,
              SamplesAreComplete, SamplesAreFiled, ProbedOnceInOrder, NoEquals, Id
<1> QED BY <1>1, <1>2, <1>3, <1>4 DEF Next

-----------------------------------------------------------------------------
(* The theorems.                                                           *)

\* The inductive invariant holds in every state of the store.
THEOREM StoreInvariant == Spec => []StoreInv
<1>1. Init => StoreInv
  BY InitStore
<1>2. StoreInv /\ [Next]_vars => StoreInv'
  BY NextStore
<1> QED BY <1>1, <1>2, PTL DEF Spec

\* Every variable of the store keeps its type.
THEOREM StoreTypes == Spec => []TypeOK
<1>1. StoreInv => TypeOK
  BY DEF StoreInv
<1> QED BY <1>1, StoreInvariant, PTL

\* No pivot ever has more children or more samples than its limits allow.
THEOREM PivotsAreBounded == Spec => []PivotLimitsHold
<1>1. StoreInv => PivotLimitsHold
  BY DEF StoreInv
<1> QED BY <1>1, StoreInvariant, PTL

\* Each stored request is handed to Plusfish::Run once, in the order of ids.
THEOREM QueueIsInOrder == Spec => []ProbedOnceInOrder
<1>1. StoreInv => ProbedOnceInOrder
  BY DEF StoreInv
<1> QED BY <1>1, StoreInvariant, PTL

-----------------------------------------------------------------------------
(* Equality of requests.                                                   *)

\* The names of a list without repetitions are as many as its fields.
LEMMA NamesCount ==
  ASSUME NEW s \in Seq(STRING)
  PROVE  /\ IsFiniteSet(Names(s)) /\ Cardinality(Names(s)) \in Nat /\ Len(s) \in Nat
         /\ IsInjective(s) => Cardinality(Names(s)) = Len(s)
<1> DEFINE T == Names(s)
<1>1. Len(s) \in Nat /\ DOMAIN s = 1..Len(s)
  OBVIOUS
<1>2. T = {s[i] : i \in 1..Len(s)}
  BY <1>1 DEF Names, ToSet
<1>3. s \in [1..Len(s) -> T] /\ \A t \in T : \E i \in 1..Len(s) : s[i] = t
  BY <1>1, <1>2
<1>4. s \in Surjection(1..Len(s), T)
  BY <1>3 DEF Surjection
<1>5. IsFiniteSet(1..Len(s)) /\ Cardinality(1..Len(s)) = Len(s)
  <2>1. IsFiniteSet(1..Len(s)) /\ Cardinality(1..Len(s)) = IF 1 > Len(s) THEN 0 ELSE Len(s) - 1 + 1
    BY <1>1, FS_Interval
  <2> QED BY <1>1, <2>1
<1> HIDE DEF T
<1>6. /\ IsFiniteSet(T)
      /\ Cardinality(T) = Cardinality(1..Len(s)) <=> s \in Injection(1..Len(s), T)
  BY <1>4, <1>5, FS_Surjection
<1>7. IsInjective(s) => s \in Injection(1..Len(s), T)
  BY <1>3 DEF Injection
<1>8. Cardinality(T) \in Nat
  BY <1>6, FS_CardinalityType
<1> QED BY <1>1, <1>5, <1>6, <1>7, <1>8 DEF T

\* On lists without repetitions FieldNamesEqual does what its comment says.
LEMMA NamesAreCompared ==
  ASSUME NEW s \in Seq(STRING), NEW t \in Seq(STRING), IsInjective(s), IsInjective(t)
  PROVE  FieldNamesEqual(s, t) <=> Names(s) = Names(t)
<1> DEFINE U == Names(s) \cup Names(t)
<1>1. /\ IsFiniteSet(Names(s)) /\ Cardinality(Names(s)) = Len(s) /\ Len(s) \in Nat
      /\ IsFiniteSet(Names(t)) /\ Cardinality(Names(t)) = Len(t) /\ Len(t) \in Nat
  BY NamesCount
<1>2. IsFiniteSet(U)
  BY <1>1, FS_Union
<1>3. ASSUME FieldNamesEqual(s, t) PROVE Names(s) = Names(t)
  <2>1. Cardinality(U) = Cardinality(Names(s)) /\ Cardinality(U) = Cardinality(Names(t))
    BY <1>1, <1>3 DEF FieldNamesEqual
  <2>2. Names(s) \in SUBSET U /\ Names(t) \in SUBSET U
    OBVIOUS
  <2>3. U = Names(s)
    BY <1>2, <2>1, <2>2, FS_Subset
  <2>4. U = Names(t)
    BY <1>2, <2>1, <2>2, FS_Subset
  <2> QED BY <2>3, <2>4
<1>4. ASSUME Names(s) = Names(t) PROVE FieldNamesEqual(s, t)
  <2>1. U = Names(s) /\ Len(s) = Len(t)
    BY <1>1, <1>4
  <2> QED BY <1>1, <2>1 DEF FieldNamesEqual
<1> QED BY <1>3, <1>4

\* So Request::Equals holds of requests that repeat no name just if they ask
\* for the same thing.
LEMMA EqualsIsSameRequest ==
  ASSUME NEW r \in Request, NEW s \in Request, RepeatsNone(r), RepeatsNone(s)
  PROVE  Equals(r, s) <=> SameRequest(r, s)
<1>1. /\ r.params \in Seq(STRING) /\ r.body \in Seq(STRING)
      /\ s.params \in Seq(STRING) /\ s.body \in Seq(STRING)
  BY RequestStoreAssumption
<1>2. /\ IsInjective(r.params) /\ IsInjective(r.body)
      /\ IsInjective(s.params) /\ IsInjective(s.body)
  BY DEF RepeatsNone
<1>3. FieldNamesEqual(r.params, s.params) <=> Names(r.params) = Names(s.params)
  BY <1>1, <1>2, NamesAreCompared
<1>4. FieldNamesEqual(r.body, s.body) <=> Names(r.body) = Names(s.body)
  BY <1>1, <1>2, NamesAreCompared
<1> QED BY <1>3, <1>4 DEF Equals, SameRequest

\* Looking for equal requests among the samples of one pivot is enough: no two
\* stored requests that repeat no name ask for the same thing.
THEOREM RequestsDiffer == Spec => []NoEqualRequests
<1>1. StoreInv => NoEqualRequests
  <2> SUFFICES ASSUME StoreInv, NEW i \in Id, NEW j \in Id, i # j,
                      RepeatsNone(requests_by_id[i]), RepeatsNone(requests_by_id[j])
               PROVE  ~SameRequest(requests_by_id[i], requests_by_id[j])
    BY DEF NoEqualRequests
  <2>1. requests_by_id[i] \in Request /\ requests_by_id[j] \in Request
    BY DEF StoreInv, TypeOK, Id
  <2>2. ~Equals(requests_by_id[i], requests_by_id[j])
    BY DEF StoreInv, NoEquals
  <2> QED BY <2>1, <2>2, EqualsIsSameRequest
<1> QED BY <1>1, StoreInvariant, PTL

-----------------------------------------------------------------------------
(* What is offered is stored, or there is no place for it.                 *)

\* The next pivot on the way to a request is a child of the one before.
LEMMA NextOnTheWay ==
  ASSUME NEW r \in Request, NEW k \in 1..Len(Full(r)) - 1
  PROVE  /\ Len(SubSeq(Full(r), 1, k + 1)) = Len(SubSeq(Full(r), 1, k)) + 1
         /\ IsPrefix(SubSeq(Full(r), 1, k), SubSeq(Full(r), 1, k + 1))
         /\ SubSeq(Full(r), 1, k + 1) \in Path /\ Len(SubSeq(Full(r), 1, k)) = k
<1>1. /\ Full(r) \in Seq(STRING) /\ Len(Full(r)) \in Nat
      /\ k \in 1..Len(Full(r)) /\ k + 1 \in 1..Len(Full(r)) /\ k <= k + 1
  BY ChainFacts
<1> DEFINE p == SubSeq(Full(r), 1, k)
           q == SubSeq(Full(r), 1, k + 1)
<1>2. p \in Seq(STRING) /\ Len(p) = k /\ q \in Seq(STRING) /\ Len(q) = k + 1
  BY <1>1, SubSeqFacts
<1>3. SubSeq(q, 1, k) = p
  BY <1>1, SubSeqFacts
<1>4. q \in Path
  BY <1>1, ChainFacts
<1> HIDE DEF p, q
<1>5. IsPrefix(p, q)
  BY <1>2, <1>3, PrefixFacts
<1> QED BY <1>2, <1>4, <1>5 DEF p, q

\* Pivots gain children and never lose any.
LEMMA ChildrenGrow ==
  ASSUME StoreInv, StoreInv', pivots \subseteq pivots', NEW p
  PROVE  /\ Children(p) \subseteq Children(p)' /\ IsFiniteSet(Children(p)')
         /\ Cardinality(Children(p)) \in Nat /\ Cardinality(Children(p)') \in Nat
         /\ Cardinality(Children(p)) <= Cardinality(Children(p)')
<1>1. Children(p) \subseteq Children(p)' /\ Children(p)' \subseteq pivots'
  BY DEF Children
<1>2. IsFiniteSet(pivots')
  BY DEF StoreInv, PivotsAreReachable
<1>3. IsFiniteSet(Children(p)')
  BY <1>1, <1>2, FS_Subset
<1>4. IsFiniteSet(Children(p)) /\ Cardinality(Children(p)) <= Cardinality(Children(p)')
  BY <1>1, <1>3, FS_Subset
<1> QED BY <1>1, <1>3, <1>4, FS_CardinalityType

\* A limit that leaves no place for a request will never leave one.
LEMMA NoPlaceForever ==
  ASSUME StoreInv, StoreInv', pivots \subseteq pivots', NEW r \in Request,
         Len(req_samples[Full(r)]) <= Len(req_samples'[Full(r)]), NoPlace(r)
  PROVE  NoPlace(r)'
<1>1. CASE Len(req_samples[Full(r)]) >= RequestLimit
  <2>1. Full(r) \in Path
    BY ChainFacts
  <2>2. Len(req_samples[Full(r)]) \in Nat /\ Len(req_samples'[Full(r)]) \in Nat
    BY <2>1 DEF StoreInv, TypeOK
  <2>3. Len(req_samples'[Full(r)]) >= RequestLimit
    BY <1>1, <2>2, RequestStoreAssumption
  <2> QED BY <2>3 DEF NoPlace
<1>2. ASSUME NEW k \in 1..Len(Full(r)) - 1,
             SubSeq(Full(r), 1, k + 1) \notin pivots,
             Cardinality(Children(SubSeq(Full(r), 1, k))) >= ChildLimit
      PROVE  NoPlace(r)'
  <2> DEFINE p == SubSeq(Full(r), 1, k)
             q == SubSeq(Full(r), 1, k + 1)
  <2>1. /\ Len(q) = Len(p) + 1 /\ IsPrefix(p, q) /\ q \in Path /\ Len(p) = k
    BY NextOnTheWay
  <2>2. /\ Full(r) \in Seq(STRING) /\ Len(Full(r)) \in Nat
        /\ k \in 1..Len(Full(r)) /\ k + 1 \in 1..Len(Full(r)) /\ k \in 1..(k + 1)
    BY ChainFacts
  <2>3. SubSeq(q, 1, k) = p
    BY <2>2, SubSeqFacts
  <2>4. q \notin pivots /\ Cardinality(Children(p)) >= ChildLimit
    BY <1>2
  <2> HIDE DEF p, q
  <2>5. /\ Children(p) \subseteq Children(p)' /\ IsFiniteSet(Children(p)')
        /\ Cardinality(Children(p)) \in Nat /\ Cardinality(Children(p)') \in Nat
        /\ Cardinality(Children(p)) <= Cardinality(Children(p)')
    BY ChildrenGrow
  <2>6. q \notin pivots'
    <3> SUFFICES ASSUME q \in pivots' PROVE FALSE
      OBVIOUS
    <3>1. p \in pivots'
      <4>1. k \in 1..Len(q)
        BY <2>1, <2>2
      <4> QED BY <2>3, <4>1 DEF StoreInv, PivotsAreReachable
    <3>2. Cardinality(Children(p)') <= ChildLimit
      BY <3>1 DEF StoreInv, PivotLimitsHold
    <3>3. q \in Children(p)' /\ q \notin Children(p)
      BY <2>1, <2>4 DEF Children
    <3>4. Cardinality(Children(p)') = Cardinality(Children(p))
      BY <2>4, <2>5, <3>2, RequestStoreAssumption
    <3>5. Children(p)' = Children(p)
      BY <2>5, <3>4, FS_Subset
    <3> QED BY <3>3, <3>5
  <2>7. Cardinality(Children(p)') >= ChildLimit
    BY <2>4, <2>5, RequestStoreAssumption
  <2> QED BY <1>2, <2>6, <2>7 DEF NoPlace, p, q
<1> QED BY <1>1, <1>2 DEF NoPlace

\* The ways in which an offered request is accounted for.
Settled(r) == Stored(r) \/ NoPlace(r) \/ Confused(r)

\* Once accounted for, always.
LEMMA SettledForever ==
  ASSUME StoreInv, StoreInv', pivots \subseteq pivots', NEW r \in Request,
         Len(req_samples[Full(r)]) <= Len(req_samples'[Full(r)]),
         \A i \in Id : i \in Id' /\ requests_by_id'[i] = requests_by_id[i],
         Settled(r)
  PROVE  Settled(r)'
<1>1. Stored(r) => Stored(r)'
  BY DEF Stored
<1>2. Confused(r) => Confused(r)'
  BY DEF Confused
<1>3. NoPlace(r) => NoPlace(r)'
  BY NoPlaceForever
<1> QED BY <1>1, <1>2, <1>3 DEF Settled

\* A request in scope that does not fit into the tree meets a full pivot on
\* the way.
LEMMA NotFitting ==
  ASSUME StoreInv, StoreInv', NEW r \in Request, FileUnder(r), ~Fits(r)
  PROVE  NoPlace(r)'
<1> DEFINE f == Full(r)
           L == Len(f)
<1>1. /\ f \in Seq(STRING) /\ L \in Nat /\ L >= 1 /\ SubSeq(f, 1, L) = f
      /\ SubSeq(f, 1, 1) = <<r.host>>
  BY ChainFacts
<1>2. PivotsAreReachable
  BY DEF StoreInv
<1>3. PICK m \in 0..L : /\ \A k \in 1..L : SubSeq(f, 1, k) \in pivots <=> k <= m
                        /\ Cardinality(Chain(r) \cap pivots) = m
  BY <1>2, Depth
<1> DEFINE k == IF m = 0 THEN 1 ELSE m
<1>4. Deepest(r) = SubSeq(f, 1, k)
  BY <1>3 DEF Deepest
<1>5. Cardinality(Children(SubSeq(f, 1, k))) >= ChildLimit /\ f # SubSeq(f, 1, k)
  <2>1. IsFiniteSet(Children(SubSeq(f, 1, k)))
    <3>1. Children(SubSeq(f, 1, k)) \subseteq pivots
      BY DEF Children
    <3> QED BY <1>2, <3>1, FS_Subset DEF PivotsAreReachable
  <2>2. Cardinality(Children(SubSeq(f, 1, k))) \in Nat
    BY <2>1, FS_CardinalityType
  <2> QED BY <1>4, <2>2, RequestStoreAssumption DEF Fits
<1>13. m \in Nat /\ m <= L /\ k \in Nat /\ 1 <= k /\ k <= L /\ m <= k
  <2> HIDE DEF L
  <2> QED BY <1>1, <1>3
<1>6. k # L
  BY <1>1, <1>5
<1>7. k \in 1..L - 1 /\ k + 1 \in 1..L /\ ~(k + 1 <= m)
  <2> HIDE DEF k, L
  <2> QED BY <1>1, <1>6, <1>13
<1>8. SubSeq(f, 1, k + 1) \notin pivots
  BY <1>3, <1>7
<1> HIDE DEF k
<1>9. Len(SubSeq(f, 1, k + 1)) = k + 1
  BY <1>1, <1>7, SubSeqFacts
<1>10. pivots' = pivots \cup {<<r.host>>}
  BY DEF FileUnder
<1>11. SubSeq(f, 1, k + 1) \notin pivots'
  <2>1. Len(<<r.host>>) = 1
    OBVIOUS
  <2>2. k + 1 # 1
    BY <1>1, <1>7
  <2> QED BY <1>8, <1>9, <1>10, <2>1, <2>2
<1>12. Cardinality(Children(SubSeq(f, 1, k))') >= ChildLimit
  <2> DEFINE p == SubSeq(f, 1, k)
  <2>1. pivots \subseteq pivots'
    BY <1>10
  <2> HIDE DEF p
  <2>2. /\ Cardinality(Children(p)) \in Nat /\ Cardinality(Children(p)') \in Nat
        /\ Cardinality(Children(p)) <= Cardinality(Children(p)')
    BY <2>1, ChildrenGrow
  <2>3. Cardinality(Children(p)) >= ChildLimit
    BY <1>5 DEF p
  <2>4. Cardinality(Children(p)') >= ChildLimit
    BY <2>2, <2>3, RequestStoreAssumption
  <2> QED BY <2>4 DEF p
<1> QED BY <1>7, <1>11, <1>12 DEF NoPlace

\* A request that is in scope is accounted for as soon as it is offered.
LEMMA SettledAtOnce ==
  ASSUME StoreInv, StoreInv', NEW r \in Request, FileUnder(r), Store(r)
  PROVE  Settled(r)'
<1> DEFINE id == Len(requests_by_id) + 1
<1>1. /\ requests_by_id \in Seq(Request) /\ Len(requests_by_id) \in Nat
      /\ Full(r) \in Path /\ req_samples[Full(r)] \in Seq(Id)
  BY ChainFacts DEF StoreInv, TypeOK
<1>2. CASE ~Fits(r)
  BY <1>2, NotFitting DEF Settled
<1>3. CASE Fits(r) /\ PivotAccepts(r)
  <2>1. requests_by_id' = Append(requests_by_id, r)
    BY <1>3 DEF Store
  <2>2. id \in Id' /\ requests_by_id'[id] = r
    BY <1>1, <2>1 DEF Id
  <2>3. SameRequest(r, r)
    BY DEF SameRequest, SameResource
  <2> QED BY <2>2, <2>3 DEF Settled, Stored
<1>4. CASE Fits(r) /\ ~PivotAccepts(r)
  <2>1. UNCHANGED <<req_samples, requests_by_id>>
    BY <1>4 DEF Store
  <2>2. CASE ~(Len(req_samples[Full(r)]) < RequestLimit)
    <3>1. Len(req_samples'[Full(r)]) >= RequestLimit
      BY <1>1, <2>1, <2>2, RequestStoreAssumption
    <3> QED BY <3>1 DEF Settled, NoPlace
  <2>3. ASSUME NEW i \in ToSet(req_samples[Full(r)]), Equals(requests_by_id[i], r)
        PROVE  Settled(r)'
    <3>1. i \in Id
      BY <1>1, <2>3 DEF ToSet
    <3>2. i \in Id' /\ requests_by_id'[i] = requests_by_id[i] /\ requests_by_id[i] \in Request
      BY <1>1, <2>1, <3>1 DEF Id
    <3>3. CASE RepeatsNone(r) /\ RepeatsNone(requests_by_id[i])
      <4>1. SameRequest(requests_by_id[i], r)
        BY <2>3, <3>2, <3>3, EqualsIsSameRequest
      <4> QED BY <3>2, <4>1 DEF Settled, Stored
    <3>4. CASE ~(RepeatsNone(r) /\ RepeatsNone(requests_by_id[i]))
      <4>1. SameResource(requests_by_id[i], r)
        BY <2>3 DEF Equals
      <4> QED BY <3>2, <3>4, <4>1 DEF Settled, Confused
    <3> QED BY <3>3, <3>4
  <2> QED BY <1>4, <2>2, <2>3 DEF PivotAccepts
<1> QED BY <1>2, <1>3, <1>4

\* AddRequest keeps what was offered accounted for.
LEMMA AddKeepsOffered ==
  ASSUME StoreInv, StoreInv', OfferedRequestsAreStored, NEW r \in Request,
         NEW hosts, Add(hosts, r)
  PROVE  OfferedRequestsAreStored'
<1> DEFINE Out(s) == Excluded(s) \/ \E regex \in Whitelist : s \notin regex
<1>1. pivots \subseteq pivots' /\ requests_by_id \in Seq(Request)
  BY DEF Add, FileUnder, storeVars, StoreInv, TypeOK
<1>2. \A s \in Request : Len(req_samples[Full(s)]) <= Len(req_samples'[Full(s)])
  <2> SUFFICES ASSUME NEW s \in Request
               PROVE  Len(req_samples[Full(s)]) <= Len(req_samples'[Full(s)])
    OBVIOUS
  <2>1. /\ Full(s) \in Path /\ req_samples[Full(s)] \in Seq(Id)
        /\ Full(r) \in Path /\ req_samples[Full(r)] \in Seq(Id)
    BY ChainFacts DEF StoreInv, TypeOK
  <2>2. CASE req_samples' = req_samples
    BY <2>1, <2>2
  <2>3. CASE req_samples' = [req_samples EXCEPT ![Full(r)] = Append(@, Len(requests_by_id) + 1)]
    <3>1. \/ req_samples'[Full(s)] = req_samples[Full(s)]
          \/ /\ Full(s) = Full(r)
             /\ req_samples'[Full(s)] = Append(req_samples[Full(r)], Len(requests_by_id) + 1)
      BY <2>1, <2>3 DEF StoreInv, TypeOK
    <3>2. Len(Append(req_samples[Full(r)], Len(requests_by_id) + 1)) = Len(req_samples[Full(r)]) + 1
      BY <2>1
    <3>3. Len(req_samples[Full(s)]) \in Nat
      BY <2>1
    <3> QED BY <3>1, <3>2, <3>3
  <2> QED BY <2>2, <2>3 DEF Add, Store, storeVars
<1>3. \A i \in Id : i \in Id' /\ requests_by_id'[i] = requests_by_id[i]
  <2>1. CASE requests_by_id' = requests_by_id
    BY <2>1 DEF Id
  <2>2. CASE requests_by_id' = Append(requests_by_id, r)
    BY <1>1, <2>2 DEF Id
  <2> QED BY <2>1, <2>2 DEF Add, Store, storeVars
<1>4. ASSUME NEW s \in offered PROVE Out(s) \/ Settled(s)'
  <2>1. s \in Request /\ (Out(s) \/ Settled(s))
    BY DEF StoreInv, TypeOK, OfferedRequestsAreStored, Settled
  <2> HIDE DEF Out
  <2>2. Settled(s) => Settled(s)'
    BY <1>1, <1>2, <1>3, <2>1, SettledForever
  <2> QED BY <2>1, <2>2
<1>5. ASSUME r.host \in hosts PROVE Out(r) \/ Settled(r)'
  <2>1. CASE InScope(hosts, r)
    <3>1. FileUnder(r) /\ Store(r)
      BY <2>1 DEF Add
    <3> QED BY <3>1, SettledAtOnce
  <2>2. CASE ~InScope(hosts, r)
    BY <1>5, <2>2 DEF InScope, Excluded
  <2> QED BY <2>1, <2>2
<1>6. ASSUME NEW s \in offered' PROVE Out(s) \/ Settled(s)'
  <2>1. s \in offered \/ (s = r /\ r.host \in hosts)
    BY <1>6 DEF Add
  <2> HIDE DEF Out
  <2> QED BY <1>4, <1>5, <2>1
<1>7. \A s : Settled(s)' <=> Stored(s)' \/ NoPlace(s)' \/ Confused(s)'
  BY DEF Settled
<1> QED BY <1>6, <1>7 DEF OfferedRequestsAreStored, Excluded

\* Whatever AddRequest was called with is stored, or it is excluded, or a limit
\* of the tree was reached, or it met a request that repeats a name.
THEOREM NothingOfferedIsLost == Spec => []OfferedRequestsAreStored
<1>1. Init => OfferedRequestsAreStored
  BY DEF Init, OfferedRequestsAreStored
<1>2. StoreInv /\ StoreInv' /\ OfferedRequestsAreStored /\ [Next]_vars
        => OfferedRequestsAreStored'
  <2> SUFFICES ASSUME StoreInv, StoreInv', OfferedRequestsAreStored, [Next]_vars
               PROVE  OfferedRequestsAreStored'
    OBVIOUS
  <2>1. ASSUME NEW r \in Request, AddURL(r) \/ AddRequest(r)
        PROVE  OfferedRequestsAreStored'
    <3>1. \E hosts : Add(hosts, r)
      BY <2>1 DEF AddURL, AddRequest
    <3> QED BY <3>1, AddKeepsOffered
  <2>2. CASE UNCHANGED <<pivots, req_samples, requests_by_id, offered>>
    BY <2>2 DEF OfferedRequestsAreStored, Stored, NoPlace, Confused, Children, Id
  <2>3. CASE GetRequestFromProbeQueue
    BY <2>2, <2>3 DEF GetRequestFromProbeQueue
  <2>4. CASE UNCHANGED vars
    BY <2>2, <2>4 DEF vars, storeVars
  <2> QED BY <2>1, <2>3, <2>4 DEF Next
<1> QED BY <1>1, <1>2, StoreInvariant, PTL DEF Spec

\* Setting up, writing and closing the reports never changes the store: a scan
\* with its reports is a behaviour of the store.
THEOREM ReportsOnlyRead == ReportSpec => Spec
<1>1. ReportInit => Init
  BY DEF ReportInit
<1>2. [ReportNext]_allVars => [Next]_vars
  BY DEF ReportNext, InitReporting, ScanStep, Report, Close, allVars
<1> QED BY <1>1, <1>2, PTL DEF ReportSpec, Spec

\* So the store keeps its invariant below the reports.
THEOREM ReportedStoreInvariant == ReportSpec => []StoreInv
BY ReportsOnlyRead, StoreInvariant, PTL

\* DataStore::Report, which goes down from the hosts, meets each request once.
WalkMeetsEachRequest ==
  \A i \in Id :
    /\ \E p \in ReportedPivots : \E j \in DOMAIN req_samples[p] : req_samples[p][j] = i
    /\ \A p, q \in ReportedPivots : \A j \in DOMAIN req_samples[p], k \in DOMAIN req_samples[q] :
         req_samples[p][j] = i /\ req_samples[q][k] = i => p = q /\ j = k

\* What the reporters are given is complete and free of repetitions, although
\* the walk only sees pivots that are linked to their parents.
THEOREM EachRequestIsReportedOnce == ReportSpec => []WalkMeetsEachRequest
<1>1. StoreInv => WalkMeetsEachRequest
  <2> SUFFICES ASSUME StoreInv, NEW i \in Id
               PROVE  /\ \E p \in ReportedPivots : \E j \in DOMAIN req_samples[p] : req_samples[p][j] = i
                      /\ \A p, q \in ReportedPivots :
                           \A j \in DOMAIN req_samples[p], k \in DOMAIN req_samples[q] :
                             req_samples[p][j] = i /\ req_samples[q][k] = i => p = q /\ j = k
    BY DEF WalkMeetsEachRequest
  <2>1. ReportedPivots = pivots /\ pivots \subseteq Path
    BY DEF ReportedPivots, StoreInv, PivotsAreReachable, TypeOK
  <2>2. /\ Full(requests_by_id[i]) \in pivots
        /\ i \in ToSet(req_samples[Full(requests_by_id[i])])
    BY DEF StoreInv, SamplesAreComplete, SamplesAreFiled
  <2>3. \E j \in DOMAIN req_samples[Full(requests_by_id[i])] :
          req_samples[Full(requests_by_id[i])][j] = i
    BY <2>2 DEF ToSet
  <2>4. ASSUME NEW p \in pivots, NEW q \in pivots,
               NEW j \in DOMAIN req_samples[p], NEW k \in DOMAIN req_samples[q],
               req_samples[p][j] = i, req_samples[q][k] = i
        PROVE  p = q /\ j = k
    <3>1. p = Full(requests_by_id[i]) /\ q = Full(requests_by_id[i])
      BY <2>1, <2>4 DEF StoreInv, SamplesAreFiled
    <3> QED BY <2>1, <2>4, <3>1 DEF StoreInv, SamplesAreFiled
  <2> QED BY <2>1, <2>2, <2>3, <2>4
<1> QED BY <1>1, ReportedStoreInvariant, PTL

-----------------------------------------------------------------------------
(* Sequences without repetitions.                                          *)

\* A sequence without repetitions.
Injective(s) == \A i, j \in DOMAIN s : s[i] = s[j] => i = j

\* The elements of a concatenation, and when it repeats none.
LEMMA ConcatFacts ==
  ASSUME NEW S, NEW s \in Seq(S), NEW t \in Seq(S)
  PROVE  /\ s \o t \in Seq(S)
         /\ ToSet(s \o t) = ToSet(s) \cup ToSet(t)
         /\ Injective(s) /\ Injective(t) /\ ToSet(s) \cap ToSet(t) = {}
              => Injective(s \o t)
<1> DEFINE c == s \o t
<1>1. /\ c \in Seq(S) /\ Len(c) = Len(s) + Len(t)
      /\ Len(s) \in Nat /\ Len(t) \in Nat
      /\ DOMAIN s = 1..Len(s) /\ DOMAIN t = 1..Len(t) /\ DOMAIN c = 1..(Len(s) + Len(t))
      /\ \A i \in 1..Len(s) : c[i] = s[i]
  OBVIOUS
<1>2. \A i \in 1..Len(t) : i + Len(s) \in DOMAIN c /\ c[i + Len(s)] = t[i]
  BY <1>1
<1>3. \A k \in DOMAIN c : k \in 1..Len(s) \/ \E i \in 1..Len(t) : k = i + Len(s)
  <2> SUFFICES ASSUME NEW k \in DOMAIN c, k \notin 1..Len(s)
               PROVE  \E i \in 1..Len(t) : k = i + Len(s)
    OBVIOUS
  <2>1. k - Len(s) \in 1..Len(t) /\ k = (k - Len(s)) + Len(s)
    BY <1>1
  <2> QED BY <2>1
<1> HIDE DEF c
<1>4. ToSet(c) = ToSet(s) \cup ToSet(t)
  <2>1. \A i \in DOMAIN s : s[i] \in ToSet(c)
    BY <1>1 DEF ToSet
  <2>2. \A i \in DOMAIN t : t[i] \in ToSet(c)
    BY <1>1, <1>2 DEF ToSet
  <2>3. \A k \in DOMAIN c : c[k] \in ToSet(s) \cup ToSet(t)
    BY <1>1, <1>2, <1>3 DEF ToSet
  <2> QED BY <2>1, <2>2, <2>3 DEF ToSet
<1>5. ASSUME Injective(s), Injective(t), ToSet(s) \cap ToSet(t) = {} PROVE Injective(c)
  <2> SUFFICES ASSUME NEW i \in DOMAIN c, NEW j \in DOMAIN c, c[i] = c[j] PROVE i = j
    BY DEF Injective
  <2>1. \A k \in 1..Len(s), m \in 1..Len(t) : s[k] # t[m]
    BY <1>1, <1>5 DEF ToSet
  <2>2. CASE i \in 1..Len(s) /\ j \in 1..Len(s)
    BY <1>1, <1>5, <2>2 DEF Injective
  <2>3. CASE i \notin 1..Len(s) /\ j \notin 1..Len(s)
    <3>1. PICK k \in 1..Len(t), m \in 1..Len(t) : i = k + Len(s) /\ j = m + Len(s)
      BY <1>3, <2>3
    <3>2. t[k] = t[m]
      BY <1>2, <3>1
    <3> QED BY <1>1, <1>5, <3>1, <3>2 DEF Injective
  <2>4. CASE (i \in 1..Len(s)) # (j \in 1..Len(s))
    BY <1>1, <1>2, <1>3, <2>1, <2>4
  <2> QED BY <2>2, <2>3, <2>4
<1> QED BY <1>1, <1>4, <1>5 DEF c

\* A nonempty set of numbers has a least one.
LEMMA LeastNumber ==
  ASSUME NEW T \in SUBSET Nat, T # {}
  PROVE  \E x \in T : \A y \in T : ~(y < x)
<1>1. PICK z : z \in T /\ T \subseteq Nat
  OBVIOUS
<1>2. \E x \in T : \A y \in T : ~(<<y, x>> \in OpToRel(<, Nat))
  BY <1>1, WFMin, NatLessThanWellFounded
<1> QED BY <1>1, <1>2 DEF OpToRel

\* f is the recursive function behind FlattenSeq, for the first m sequences.
Flat(s, m, f) == f = [i \in 1..m |-> IF i = 1 THEN s[i] ELSE f[i - 1] \o s[i]]

\* There is such a function for every number of sequences.
LEMMA FlatExists ==
  ASSUME NEW s, NEW n \in Nat
  PROVE  \E f : Flat(s, n, f)
<1> DEFINE T == {m \in Nat : ~ \E f : Flat(s, m, f)}
<1> SUFFICES ASSUME n \in T PROVE FALSE
  OBVIOUS
<1>1. PICK x \in T : \A y \in T : ~(y < x)
  <2> HIDE DEF T
  <2>1. T \in SUBSET Nat /\ T # {}
    BY DEF T
  <2> QED BY <2>1, LeastNumber
<1>2. CASE x = 0
  <2>1. [i \in 1..0 |-> s[i]] = [i \in 1..0 |-> IF i = 1 THEN s[i] ELSE [k \in 1..0 |-> s[k]][i - 1] \o s[i]]
    OBVIOUS
  <2> QED BY <1>2, <2>1 DEF Flat
<1>3. CASE x # 0
  <2>1. x - 1 \in Nat /\ x - 1 \notin T
    BY <1>1, <1>3
  <2>2. PICK f : Flat(s, x - 1, f)
    BY <2>1
  <2> DEFINE g == [i \in 1..x |-> IF i < x THEN f[i] ELSE IF i = 1 THEN s[i] ELSE f[i - 1] \o s[i]]
  <2>3. \A i \in 1..x : g[i] = IF i = 1 THEN s[i] ELSE g[i - 1] \o s[i]
    <3> SUFFICES ASSUME NEW i \in 1..x PROVE g[i] = IF i = 1 THEN s[i] ELSE g[i - 1] \o s[i]
      OBVIOUS
    <3>1. i # 1 => i - 1 \in 1..x /\ i - 1 < x
      BY <1>1
    <3>2. i # 1 => g[i - 1] = f[i - 1]
      BY <3>1
    <3>3. i < x => i \in 1..(x - 1) /\ f[i] = IF i = 1 THEN s[i] ELSE f[i - 1] \o s[i]
      <4>1. i < x => i \in 1..(x - 1)
        BY <1>1
      <4>2. \A j \in 1..(x - 1) : f[j] = IF j = 1 THEN s[j] ELSE f[j - 1] \o s[j]
        BY <2>2 DEF Flat
      <4> QED BY <4>1, <4>2
    <3>4. g[i] = IF i < x THEN f[i] ELSE IF i = 1 THEN s[i] ELSE f[i - 1] \o s[i]
      OBVIOUS
    <3> HIDE DEF g
    <3> QED BY <3>2, <3>3, <3>4
  <2>4. g = [i \in 1..x |-> IF i = 1 THEN s[i] ELSE g[i - 1] \o s[i]]
    <3>1. DOMAIN g = 1..x /\ g = [i \in 1..x |-> g[i]]
      OBVIOUS
    <3> HIDE DEF g
    <3> QED BY <2>3, <3>1
  <2>5. Flat(s, x, g)
    <3> HIDE DEF g
    <3> QED BY <2>4 DEF Flat
  <2> QED BY <2>5
<1> QED BY <1>2, <1>3

\* What FlattenSeq returns, and when it repeats nothing.
LEMMA FlattenFacts ==
  ASSUME NEW S, NEW s \in Seq(Seq(S))
  PROVE  /\ FlattenSeq(s) \in Seq(S)
         /\ ToSet(FlattenSeq(s)) = UNION {ToSet(s[i]) : i \in DOMAIN s}
         /\ /\ \A i \in DOMAIN s : Injective(s[i])
            /\ \A i, j \in DOMAIN s : i # j => ToSet(s[i]) \cap ToSet(s[j]) = {}
            => Injective(FlattenSeq(s))
<1> DEFINE n == Len(s)
<1>0. n \in Nat /\ DOMAIN s = 1..n /\ \A i \in 1..n : s[i] \in Seq(S)
  OBVIOUS
<1>1. CASE n = 0
  <2>1. s = <<>> /\ DOMAIN s = {} /\ FlattenSeq(s) = <<>>
    BY <1>1 DEF FlattenSeq
  <2>2. ToSet(<<>>) = {} /\ Injective(<<>>)
    BY DEF ToSet, Injective
  <2>3. UNION {ToSet(s[i]) : i \in DOMAIN s} = {} /\ <<>> \in Seq(S)
    BY <2>1
  <2> QED BY <2>1, <2>2, <2>3
<1>2. CASE n > 0
  <2> DEFINE F == CHOOSE f : f = [i \in 1..n |-> IF i = 1 THEN s[i] ELSE f[i - 1] \o s[i]]
  <2>1. FlattenSeq(s) = F[n]
    BY <1>2 DEF FlattenSeq
  <2>2. F = [i \in 1..n |-> IF i = 1 THEN s[i] ELSE F[i - 1] \o s[i]]
    <3>1. \E f : f = [i \in 1..n |-> IF i = 1 THEN s[i] ELSE f[i - 1] \o s[i]]
      BY <1>0, FlatExists DEF Flat
    <3> QED BY <3>1
  <2> HIDE DEF F
  <2>3. F[1] = s[1] /\ \A i \in 2..n : F[i] = F[i - 1] \o s[i]
    <3>1. \A i \in 1..n : F[i] = IF i = 1 THEN s[i] ELSE F[i - 1] \o s[i]
      BY <2>2
    <3>2. 1 \in 1..n /\ \A i \in 2..n : i \in 1..n /\ i # 1
      BY <1>0, <1>2
    <3> HIDE DEF n
    <3> QED BY <3>1, <3>2
  <2> DEFINE Part(k) == UNION {ToSet(s[i]) : i \in 1..k}
             Apart == /\ \A i \in DOMAIN s : Injective(s[i])
                      /\ \A i, j \in DOMAIN s : i # j => ToSet(s[i]) \cap ToSet(s[j]) = {}
             P(k) == F[k] \in Seq(S) /\ ToSet(F[k]) = Part(k) /\ (Apart => Injective(F[k]))
             T == {k \in Nat : k \in 1..n /\ ~P(k)}
  <2>4. P(n)
    <3> SUFFICES ASSUME ~P(n) PROVE FALSE
      OBVIOUS
    <3>1. PICK x \in T : \A y \in T : ~(y < x)
      <4>1. T \in SUBSET Nat /\ n \in T
        BY <1>0, <1>2
      <4> HIDE DEF T
      <4> QED BY <4>1, LeastNumber
    <3>2. x \in 1..n /\ ~P(x)
      OBVIOUS
    <3>3. CASE x = 1
      <4>1. Part(1) = ToSet(s[1])
        OBVIOUS
      <4> HIDE DEF Part
      <4>2. P(1)
        BY <1>0, <1>2, <2>3, <4>1
      <4> QED BY <3>2, <3>3, <4>2
    <3>4. CASE x # 1
      <4>1. x - 1 \in 1..n /\ x \in 2..n /\ x - 1 < x /\ x - 1 \in Nat
        BY <1>0, <3>2, <3>4
      <4>2. P(x - 1)
        <5> HIDE DEF P
        <5> QED BY <3>1, <4>1
      <4>3. s[x] \in Seq(S) /\ F[x] = F[x - 1] \o s[x]
        BY <1>0, <2>3, <3>2, <4>1
      <4>4. Part(x) = Part(x - 1) \cup ToSet(s[x])
        <5>1. 1..x = (1..(x - 1)) \cup {x}
          BY <3>2
        <5> QED BY <5>1
      <4>5. Apart => Injective(s[x]) /\ Part(x - 1) \cap ToSet(s[x]) = {}
        <5> SUFFICES ASSUME Apart PROVE Injective(s[x]) /\ Part(x - 1) \cap ToSet(s[x]) = {}
          OBVIOUS
        <5>1. \A i \in 1..(x - 1) : i \in DOMAIN s /\ i # x
          BY <1>0, <3>2
        <5>2. \A i \in 1..(x - 1) : ToSet(s[i]) \cap ToSet(s[x]) = {}
          BY <1>0, <3>2, <5>1
        <5> QED BY <1>0, <3>2, <5>2
      <4> HIDE DEF Part, Apart
      <4>6. P(x)
        <5>1. F[x - 1] \in Seq(S) /\ ToSet(F[x - 1]) = Part(x - 1) /\ (Apart => Injective(F[x - 1]))
          BY <4>2
        <5>2. /\ F[x - 1] \o s[x] \in Seq(S)
              /\ ToSet(F[x - 1] \o s[x]) = ToSet(F[x - 1]) \cup ToSet(s[x])
              /\ Injective(F[x - 1]) /\ Injective(s[x]) /\ ToSet(F[x - 1]) \cap ToSet(s[x]) = {}
                   => Injective(F[x - 1] \o s[x])
          BY <4>3, <5>1, ConcatFacts
        <5> QED BY <4>3, <4>4, <4>5, <5>1, <5>2
      <4> QED BY <3>2, <4>6
    <3> QED BY <3>3, <3>4
  <2> QED BY <1>0, <2>1, <2>4
<1> QED BY <1>0, <1>1, <1>2

-----------------------------------------------------------------------------
(* The order of the walk over the pivots.                                  *)

\* f[n] is what is left of P after n steps of the walk.
Rests(P, m, f) == f = [n \in 0..m |-> IF n = 0 THEN P ELSE f[n - 1] \ {First(f[n - 1])}]

\* There are such rests for every number of steps.
LEMMA RestsExist ==
  ASSUME NEW P, NEW n \in Nat
  PROVE  \E f : Rests(P, n, f)
<1> DEFINE T == {m \in Nat : ~ \E f : Rests(P, m, f)}
<1> SUFFICES ASSUME n \in T PROVE FALSE
  OBVIOUS
<1>1. PICK x \in T : \A y \in T : ~(y < x)
  <2> HIDE DEF T
  <2>1. T \in SUBSET Nat /\ T # {}
    BY DEF T
  <2> QED BY <2>1, LeastNumber
<1>2. CASE x = 0
  <2> DEFINE z == [i \in 0..0 |-> P]
  <2>1. z = [i \in 0..0 |-> IF i = 0 THEN P ELSE z[i - 1] \ {First(z[i - 1])}]
    OBVIOUS
  <2>2. Rests(P, 0, z)
    <3> HIDE DEF z
    <3> QED BY <2>1 DEF Rests
  <2> QED BY <1>2, <2>2
<1>3. CASE x # 0
  <2>1. x - 1 \in Nat /\ x - 1 \notin T
    BY <1>1, <1>3
  <2>2. PICK f : Rests(P, x - 1, f)
    BY <2>1
  <2> DEFINE g == [i \in 0..x |-> IF i < x THEN f[i] ELSE f[i - 1] \ {First(f[i - 1])}]
  <2>3. \A i \in 0..x : g[i] = IF i = 0 THEN P ELSE g[i - 1] \ {First(g[i - 1])}
    <3> SUFFICES ASSUME NEW i \in 0..x
                 PROVE  g[i] = IF i = 0 THEN P ELSE g[i - 1] \ {First(g[i - 1])}
      OBVIOUS
    <3>1. i # 0 => g[i - 1] = f[i - 1]
      BY <1>1
    <3>2. i < x => f[i] = IF i = 0 THEN P ELSE f[i - 1] \ {First(f[i - 1])}
      <4>1. i < x => i \in 0..(x - 1)
        BY <1>1
      <4>2. \A j \in 0..(x - 1) : f[j] = IF j = 0 THEN P ELSE f[j - 1] \ {First(f[j - 1])}
        BY <2>2 DEF Rests
      <4> QED BY <4>1, <4>2
    <3>3. g[i] = IF i < x THEN f[i] ELSE f[i - 1] \ {First(f[i - 1])}
      OBVIOUS
    <3>4. ~(i < x) => i # 0
      BY <1>1, <1>3
    <3> HIDE DEF g
    <3> QED BY <3>1, <3>2, <3>3, <3>4
  <2>4. Rests(P, x, g)
    <3>1. g = [i \in 0..x |-> g[i]]
      OBVIOUS
    <3> HIDE DEF g
    <3> QED BY <2>3, <3>1 DEF Rests
  <2> QED BY <2>4
<1> QED BY <1>2, <1>3

\* What is left of P after n steps, and how much.
RestAfter(P, N, f, n) ==
  /\ IsFiniteSet(f[n]) /\ Cardinality(f[n]) = N - n
  /\ f[n] = P \ {First(f[k - 1]) : k \in 1..n}

\* Each step takes one element away.
LEMMA RestFacts ==
  ASSUME NEW P, IsFiniteSet(P), NEW N \in Nat, N = Cardinality(P), NEW f, Rests(P, N, f),
         NEW n \in 0..N
  PROVE  RestAfter(P, N, f, n)
<1> DEFINE G(k) == /\ IsFiniteSet(f[k]) /\ Cardinality(f[k]) = N - k
                   /\ f[k] = P \ {First(f[j - 1]) : j \in 1..k}
           T == {k \in Nat : k \in 0..N /\ ~G(k)}
<1> SUFFICES ASSUME ~G(n) PROVE FALSE
  BY DEF RestAfter
<1>1. PICK x \in T : \A y \in T : ~(y < x)
  <2>1. T \in SUBSET Nat /\ n \in T
    OBVIOUS
  <2> HIDE DEF T
  <2> QED BY <2>1, LeastNumber
<1>2. x \in 0..N /\ ~G(x)
  OBVIOUS
<1>3. \A k \in 0..N : f[k] = IF k = 0 THEN P ELSE f[k - 1] \ {First(f[k - 1])}
  BY DEF Rests
<1>4. CASE x = 0
  <2>1. f[0] = P
    <3>1. 0 \in 0..N
      OBVIOUS
    <3> QED BY <1>3, <3>1
  <2>2. {First(f[j - 1]) : j \in 1..0} = {}
    OBVIOUS
  <2>3. G(0)
    BY <2>1, <2>2
  <2> QED BY <1>2, <1>4, <2>3
<1>5. CASE x # 0
  <2>1. x - 1 \in 0..N /\ x - 1 < x /\ x - 1 \in Nat /\ x \in 1..N
    BY <1>2, <1>5
  <2>2. G(x - 1)
    BY <1>1, <2>1
  <2>3. PICK R : R = f[x - 1] /\ IsFiniteSet(R) /\ Cardinality(R) = N - (x - 1)
                 /\ R = P \ {First(f[j - 1]) : j \in 1..(x - 1)}
    BY <2>2
  <2>4. First(R) \in R
    <3>1. R # {}
      <4>1. Cardinality(R) # 0
        BY <2>1, <2>3
      <4> QED BY <4>1, FS_EmptySet
    <3> QED BY <3>1 DEF First
  <2>5. f[x] = R \ {First(R)}
    BY <1>2, <1>3, <1>5, <2>3
  <2>6. IsFiniteSet(f[x]) /\ Cardinality(f[x]) = Cardinality(R) - 1
    <3>1. PICK e : e = First(R) /\ e \in R
      BY <2>4
    <3>2. IsFiniteSet(R \ {e}) /\ Cardinality(R \ {e}) = Cardinality(R) - 1
      BY <2>3, <3>1, FS_RemoveElement
    <3> QED BY <2>5, <3>1, <3>2
  <2>7. Cardinality(f[x]) = N - x
    BY <2>1, <2>3, <2>6
  <2>8. {First(f[j - 1]) : j \in 1..x} = {First(f[j - 1]) : j \in 1..(x - 1)} \cup {First(R)}
    <3>1. 1..x = (1..(x - 1)) \cup {x}
      BY <2>1
    <3> QED BY <2>3, <3>1
  <2>9. f[x] = P \ {First(f[j - 1]) : j \in 1..x}
    BY <2>3, <2>5, <2>8
  <2> QED BY <1>2, <2>6, <2>7, <2>9
<1> QED BY <1>4, <1>5

\* The walk meets each of the reported pivots once.
LEMMA WalkFacts ==
  ASSUME IsFiniteSet(ReportedPivots)
  PROVE  \E N \in Nat :
           /\ Walk \in [1..N -> ReportedPivots]
           /\ Injective(Walk)
           /\ \A p \in ReportedPivots : \E n \in 1..N : Walk[n] = p
<1>1. PICK P : P = ReportedPivots /\ IsFiniteSet(P)
  OBVIOUS
<1>2. PICK N \in Nat : N = Cardinality(P)
  BY <1>1, FS_CardinalityType
<1> DEFINE F == CHOOSE f : f = [n \in 0..N |-> IF n = 0 THEN P ELSE f[n - 1] \ {First(f[n - 1])}]
<1>3. Walk = [n \in 1..N |-> First(F[n - 1])]
  BY <1>1, <1>2 DEF Walk
<1>4. Rests(P, N, F)
  <2>1. \E f : f = [n \in 0..N |-> IF n = 0 THEN P ELSE f[n - 1] \ {First(f[n - 1])}]
    <3>1. \E f : Rests(P, N, f)
      BY <1>2, RestsExist
    <3> QED BY <3>1 DEF Rests
  <2> QED BY <2>1 DEF Rests
<1> HIDE DEF F
<1>5. \A n \in 0..N : /\ IsFiniteSet(F[n]) /\ Cardinality(F[n]) = N - n
                      /\ F[n] = P \ {First(F[k - 1]) : k \in 1..n}
  <2>1. \A n \in 0..N : RestAfter(P, N, F, n)
    BY <1>1, <1>2, <1>4, RestFacts
  <2> QED BY <2>1 DEF RestAfter
<1>6. PICK w : w = Walk
  OBVIOUS
<1>7. DOMAIN w = 1..N /\ \A n \in 1..N : w[n] = First(F[n - 1])
  BY <1>3, <1>6
<1>8. ASSUME NEW n \in 1..N PROVE w[n] \in P \ {w[k] : k \in 1..(n - 1)}
  <2>1. n - 1 \in 0..N /\ N - (n - 1) # 0
    BY <1>2
  <2>2. F[n - 1] # {}
    BY <1>5, <2>1, FS_EmptySet
  <2>3. w[n] \in F[n - 1]
    BY <1>7, <2>2 DEF First
  <2>4. \A k \in 1..(n - 1) : k \in 1..N
    BY <1>2
  <2>5. {First(F[k - 1]) : k \in 1..(n - 1)} = {w[k] : k \in 1..(n - 1)}
    BY <1>7, <2>4
  <2> QED BY <1>5, <2>1, <2>3, <2>5
<1>9. w \in [1..N -> P]
  <2>1. w = [n \in 1..N |-> w[n]]
    BY <1>3, <1>6
  <2> QED BY <1>8, <2>1
<1>10. Injective(w)
  <2> SUFFICES ASSUME NEW i \in 1..N, NEW j \in 1..N, i # j PROVE w[i] # w[j]
    BY <1>7 DEF Injective
  <2>1. CASE i < j
    <3>1. i \in 1..(j - 1)
      BY <1>2, <2>1
    <3> QED BY <1>8, <3>1
  <2>2. CASE j < i
    <3>1. j \in 1..(i - 1)
      BY <1>2, <2>2
    <3> QED BY <1>8, <3>1
  <2> QED BY <2>1, <2>2
<1>11. \A p \in P : \E n \in 1..N : w[n] = p
  <2>1. N \in 0..N
    BY <1>2
  <2>2. Cardinality(F[N]) = 0 /\ F[N] = P \ {First(F[k - 1]) : k \in 1..N}
    BY <1>2, <1>5, <2>1
  <2>3. F[N] = {}
    <3>1. IsFiniteSet(F[N])
      BY <1>5, <2>1
    <3> QED BY <2>2, <3>1, FS_EmptySet
  <2>4. {First(F[k - 1]) : k \in 1..N} = {w[k] : k \in 1..N}
    BY <1>7
  <2> QED BY <2>2, <2>3, <2>4
<1> QED BY <1>1, <1>6, <1>9, <1>10, <1>11

-----------------------------------------------------------------------------
(* What the reporters write.                                               *)

\* Each list of L has the first samples of a pivot of the walk w.
FirstSamples(L, w, N) ==
  \A n \in 1..N : \A k \in DOMAIN L[n] :
    k \in DOMAIN req_samples[w[n]] /\ L[n][k] = req_samples[w[n]][k]

\* The ids of a list of pivots, or the first ones of each, are listed once.
LEMMA ListedOnce ==
  ASSUME StoreInv, NEW N \in Nat, NEW w \in [1..N -> pivots], Injective(w),
         NEW L \in [1..N -> Seq(Id)], FirstSamples(L, w, N)
  PROVE  /\ FlattenSeq(L) \in Seq(Id) /\ Injective(FlattenSeq(L))
         /\ ToSet(FlattenSeq(L)) = UNION {ToSet(L[n]) : n \in 1..N}
<1>1. L \in Seq(Seq(Id)) /\ DOMAIN L = 1..N
  OBVIOUS
<1>2. \A n \in 1..N : w[n] \in Path
  BY DEF StoreInv, TypeOK
<1>3. \A n \in 1..N : Injective(L[n])
  BY <1>2 DEF Injective, StoreInv, SamplesAreFiled, FirstSamples
<1>4. ASSUME NEW n \in 1..N, NEW m \in 1..N, n # m PROVE ToSet(L[n]) \cap ToSet(L[m]) = {}
  <2> SUFFICES ASSUME NEW j \in DOMAIN L[n], NEW k \in DOMAIN L[m], L[n][j] = L[m][k]
               PROVE  FALSE
    BY DEF ToSet
  <2>1. Full(requests_by_id[L[n][j]]) = w[n] /\ Full(requests_by_id[L[m][k]]) = w[m]
    <3>1. /\ j \in DOMAIN req_samples[w[n]] /\ L[n][j] = req_samples[w[n]][j]
          /\ k \in DOMAIN req_samples[w[m]] /\ L[m][k] = req_samples[w[m]][k]
      BY DEF FirstSamples
    <3>2. \A p \in Path : \A l \in DOMAIN req_samples[p] :
            Full(requests_by_id[req_samples[p][l]]) = p
      BY DEF StoreInv, SamplesAreFiled
    <3> QED BY <1>2, <3>1, <3>2
  <2>2. w[n] = w[m]
    BY <2>1
  <2> QED BY <1>4, <2>2 DEF Injective
<1>5. (\A n \in DOMAIN L : Injective(L[n])) /\
      (\A n, m \in DOMAIN L : n # m => ToSet(L[n]) \cap ToSet(L[m]) = {})
  BY <1>1, <1>3, <1>4
<1> QED BY <1>1, <1>5, FlattenFacts

\* A list of numbers without repetitions is as long as their number.
LEMMA ListLength ==
  ASSUME NEW n \in Nat, NEW s \in Seq(1..n), Injective(s), ToSet(s) = 1..n
  PROVE  Len(s) = n
<1>1. PICK m \in Nat : m = Len(s) /\ DOMAIN s = 1..m /\ s \in [1..m -> 1..n]
  OBVIOUS
<1>2. s \in Bijection(1..m, 1..n)
  <2>1. \A t \in 1..n : \E k \in 1..m : s[k] = t
    BY <1>1 DEF ToSet
  <2>2. \A a, b \in DOMAIN s : s[a] = s[b] => a = b
    BY DEF Injective
  <2> QED BY <1>1, <2>1, <2>2 DEF Bijection, Injection, Surjection, IsInjective
<1>3. Cardinality(1..n) = m
  <2>1. ExistsBijection(1..m, 1..n)
    BY <1>2 DEF ExistsBijection
  <2> QED BY <1>1, <2>1, FS_CountingElements
<1>4. Cardinality(1..n) = n
  <2>1. Cardinality(1..n) = IF 1 > n THEN 0 ELSE n - 1 + 1
    BY FS_Interval
  <2> QED BY <2>1
<1> QED BY <1>1, <1>3, <1>4

\* Each item of a list without repetitions is in one place.
LEMMA OneCopy ==
  ASSUME NEW file, NEW i, NEW k \in DOMAIN file, file[k] = Item(i),
         \A j \in DOMAIN file : file[j] = Item(i) => j = k
  PROVE  Copies(file, i) = 1
<1>1. {j \in DOMAIN file : file[j] = Item(i)} = {k}
  OBVIOUS
<1> QED BY <1>1, FS_Singleton DEF Copies

\* JsonPivot keeps the samples before the first one without a JSON form.
LEMMA JsonPivotFacts ==
  ASSUME StoreInv, NEW p \in Path, NEW s, s = req_samples[p]
  PROVE  /\ JsonPivot(s) \in Seq(Id)
         /\ \A k \in DOMAIN JsonPivot(s) : k \in DOMAIN s /\ JsonPivot(s)[k] = s[k]
         /\ \A k \in DOMAIN s : k \in DOMAIN JsonPivot(s) <=>
              \A j \in DOMAIN s : j <= k => requests_by_id[s[j]] \notin Unconvertible
<1> DEFINE bad == {k \in DOMAIN s : requests_by_id[s[k]] \in Unconvertible}
<1>1. s \in Seq(Id)
  BY DEF StoreInv, TypeOK
<1>2. PICK n \in Nat : n = Len(s) /\ DOMAIN s = 1..n
  BY <1>1
<1>3. JsonPivot(s) = IF bad = {} THEN s ELSE SubSeq(s, 1, Min(bad) - 1)
  BY DEF JsonPivot
<1>4. CASE bad = {}
  <2>1. \A j \in DOMAIN s : requests_by_id[s[j]] \notin Unconvertible
    BY <1>4
  <2> QED BY <1>1, <1>3, <1>4, <2>1
<1>5. CASE bad # {}
  <2>1. PICK m \in bad : m = Min(bad) /\ \A y \in bad : m <= y
    <3>1. \E x \in bad : \A y \in bad : x <= y
      <4>1. bad \in SUBSET Nat
        BY <1>2
      <4> HIDE DEF bad
      <4>2. PICK x \in bad : \A y \in bad : ~(y < x)
        BY <1>5, <4>1, LeastNumber
      <4>3. \A y \in bad : x <= y
        BY <4>1, <4>2
      <4> QED BY <4>3
    <3> HIDE DEF bad
    <3> QED BY <3>1 DEF Min
  <2>2. m \in 1..n
    BY <1>2
  <2>3. PICK q : q = SubSeq(s, 1, m - 1)
    OBVIOUS
  <2>4. q \in Seq(Id) /\ DOMAIN q = 1..(m - 1) /\ \A k \in 1..(m - 1) : q[k] = s[k]
    BY <1>1, <1>2, <2>2, <2>3
  <2>5. JsonPivot(s) = q
    BY <1>3, <1>5, <2>1, <2>3
  <2>6. ASSUME NEW k \in DOMAIN s
        PROVE  k \in 1..(m - 1) <=>
                 \A j \in DOMAIN s : j <= k => requests_by_id[s[j]] \notin Unconvertible
    <3>1. k \in 1..(m - 1) <=> ~(m <= k)
      BY <1>2, <2>2
    <3>2. m <= k => \E j \in DOMAIN s : j <= k /\ requests_by_id[s[j]] \in Unconvertible
      BY <2>1
    <3>3. ASSUME NEW j \in DOMAIN s, j <= k, requests_by_id[s[j]] \in Unconvertible PROVE m <= k
      <4>1. m <= j
        BY <2>1, <3>3
      <4> QED BY <1>2, <2>2, <3>3, <4>1
    <3> QED BY <3>1, <3>2, <3>3
  <2>7. \A k \in 1..(m - 1) : k \in DOMAIN s
    BY <1>2, <2>2
  <2> QED BY <2>4, <2>5, <2>6, <2>7
<1> QED BY <1>4, <1>5

\* The reported pivots, and what is known of their samples.
LEMMA SampleFacts ==
  ASSUME StoreInv
  PROVE  /\ ReportedPivots = pivots /\ IsFiniteSet(pivots) /\ pivots \subseteq Path
         /\ \A p \in pivots : req_samples[p] \in Seq(Id)
         /\ \A i \in Id : \E p \in pivots : \E k \in DOMAIN req_samples[p] : req_samples[p][k] = i
         /\ \A p, q \in Path : \A j \in DOMAIN req_samples[p], k \in DOMAIN req_samples[q] :
              req_samples[p][j] = req_samples[q][k] => p = q /\ j = k
<1>1. ReportedPivots = pivots /\ IsFiniteSet(pivots) /\ pivots \subseteq Path
  BY DEF ReportedPivots, StoreInv, PivotsAreReachable, TypeOK
<1>2. \A p \in pivots : req_samples[p] \in Seq(Id)
  BY <1>1 DEF StoreInv, TypeOK
<1>3. ASSUME NEW i \in Id
      PROVE  \E p \in pivots : \E k \in DOMAIN req_samples[p] : req_samples[p][k] = i
  <2>1. PICK p \in pivots : p = Full(requests_by_id[i]) /\ i \in ToSet(req_samples[p])
    BY DEF StoreInv, SamplesAreComplete, SamplesAreFiled
  <2> QED BY <2>1 DEF ToSet
<1>4. ASSUME NEW p \in Path, NEW q \in Path, NEW j \in DOMAIN req_samples[p],
             NEW k \in DOMAIN req_samples[q], req_samples[p][j] = req_samples[q][k]
      PROVE  p = q /\ j = k
  <2>1. p = Full(requests_by_id[req_samples[p][j]]) /\ q = Full(requests_by_id[req_samples[q][k]])
    BY DEF StoreInv, SamplesAreFiled
  <2>2. p = q
    BY <1>4, <2>1
  <2> QED BY <1>4, <2>2 DEF StoreInv, SamplesAreFiled
<1> QED BY <1>1, <1>2, <1>3, <1>4

\* The text report has each request once.
LEMMA TextReportFacts ==
  ASSUME StoreInv, NEW file, file = TextReport(Walk)
  PROVE  Len(file) = Len(requests_by_id) /\ \A i \in Id : Copies(file, i) = 1
<1>1. PICK N \in Nat : /\ Walk \in [1..N -> pivots] /\ Injective(Walk)
                       /\ \A p \in pivots : \E n \in 1..N : Walk[n] = p
  BY SampleFacts, WalkFacts
<1>2. PICK w : w = Walk /\ w \in [1..N -> pivots]
  BY <1>1
<1>3. PICK L : L = [n \in 1..N |-> req_samples[w[n]]]
  OBVIOUS
<1>4. L \in [1..N -> Seq(Id)] /\ \A n \in 1..N : L[n] = req_samples[w[n]]
  BY <1>2, <1>3, SampleFacts
<1>5. PICK ids : ids = FlattenSeq(L)
  OBVIOUS
<1>6. ids \in Seq(Id) /\ Injective(ids) /\ ToSet(ids) = UNION {ToSet(L[n]) : n \in 1..N}
  <2>1. Injective(w)
    BY <1>1, <1>2
  <2>2. FirstSamples(L, w, N)
    BY <1>4 DEF FirstSamples
  <2> QED BY <1>2, <1>4, <1>5, <2>1, <2>2, ListedOnce
<1>7. ToSet(ids) = Id
  <2>1. \A i \in Id : \E n \in 1..N : i \in ToSet(L[n])
    <3> SUFFICES ASSUME NEW i \in Id PROVE \E n \in 1..N : i \in ToSet(L[n])
      OBVIOUS
    <3>1. PICK p \in pivots : \E k \in DOMAIN req_samples[p] : req_samples[p][k] = i
      BY SampleFacts
    <3>2. PICK n \in 1..N : w[n] = p
      BY <1>1, <1>2
    <3> QED BY <1>4, <3>1, <3>2 DEF ToSet
  <2>2. ToSet(ids) \subseteq Id
    BY <1>6 DEF ToSet
  <2> QED BY <1>6, <2>1, <2>2
<1>8. PICK m \in Nat : m = Len(requests_by_id) /\ Id = 1..m
  BY DEF Id, StoreInv, TypeOK
<1>9. Len(ids) = m
  BY <1>6, <1>7, <1>8, ListLength
<1>10. file = [k \in DOMAIN ids |-> Item(ids[k])]
  BY <1>2, <1>3, <1>5 DEF TextReport
<1>11. DOMAIN file = 1..m /\ Len(file) = m /\ \A k \in 1..m : k \in DOMAIN ids /\ file[k] = Item(ids[k])
  BY <1>6, <1>9, <1>10
<1>12. ASSUME NEW i \in Id PROVE Copies(file, i) = 1
  <2>1. PICK k \in DOMAIN ids : ids[k] = i
    BY <1>7 DEF ToSet
  <2>2. k \in DOMAIN file /\ file[k] = Item(i)
    BY <1>10, <2>1
  <2>3. ASSUME NEW j \in DOMAIN file, file[j] = Item(i) PROVE j = k
    <3>1. j \in DOMAIN ids /\ Item(ids[j]) = Item(i)
      BY <1>10, <2>3
    <3>2. ids[j] = i
      BY <3>1 DEF Item
    <3> QED BY <1>6, <2>1, <3>1, <3>2 DEF Injective
  <2> QED BY <2>2, <2>3, OneCopy
<1> QED BY <1>8, <1>11, <1>12

\* The requests of the JSON report.
JsonIds == FlattenSeq([n \in DOMAIN Walk |-> JsonPivot(req_samples[Walk[n]])])

\* They are those that are not cut off, each once.
LEMMA JsonIdFacts ==
  ASSUME StoreInv
  PROVE  /\ JsonIds \in Seq(Id) /\ Injective(JsonIds)
         /\ \A i \in Id : i \in ToSet(JsonIds) <=> ~CutOff(i)
<1>1. PICK N \in Nat : /\ Walk \in [1..N -> pivots] /\ Injective(Walk)
                       /\ \A p \in pivots : \E n \in 1..N : Walk[n] = p
  BY SampleFacts, WalkFacts
<1>2. PICK w : w = Walk /\ w \in [1..N -> pivots]
  BY <1>1
<1>3. \A n \in 1..N : w[n] \in Path
  BY <1>2, SampleFacts
<1>4. PICK L : L = [n \in 1..N |-> JsonPivot(req_samples[w[n]])]
  OBVIOUS
<1>5. /\ L \in [1..N -> Seq(Id)]
      /\ \A n \in 1..N : \A k \in DOMAIN L[n] :
           k \in DOMAIN req_samples[w[n]] /\ L[n][k] = req_samples[w[n]][k]
      /\ \A n \in 1..N : \A k \in DOMAIN req_samples[w[n]] : k \in DOMAIN L[n] <=>
           \A j \in DOMAIN req_samples[w[n]] :
             j <= k => requests_by_id[req_samples[w[n]][j]] \notin Unconvertible
  <2>1. ASSUME NEW n \in 1..N
        PROVE  /\ L[n] \in Seq(Id)
               /\ \A k \in DOMAIN L[n] :
                    k \in DOMAIN req_samples[w[n]] /\ L[n][k] = req_samples[w[n]][k]
               /\ \A k \in DOMAIN req_samples[w[n]] : k \in DOMAIN L[n] <=>
                    \A j \in DOMAIN req_samples[w[n]] :
                      j <= k => requests_by_id[req_samples[w[n]][j]] \notin Unconvertible
    <3>1. PICK p \in Path : p = w[n]
      BY <1>3
    <3>2. PICK s : s = req_samples[p]
      OBVIOUS
    <3>3. L[n] = JsonPivot(s)
      BY <1>4, <3>1, <3>2
    <3>4. /\ JsonPivot(s) \in Seq(Id)
          /\ \A k \in DOMAIN JsonPivot(s) : k \in DOMAIN s /\ JsonPivot(s)[k] = s[k]
          /\ \A k \in DOMAIN s : k \in DOMAIN JsonPivot(s) <=>
               \A j \in DOMAIN s : j <= k => requests_by_id[s[j]] \notin Unconvertible
      BY <3>2, JsonPivotFacts
    <3> QED BY <3>1, <3>2, <3>3, <3>4
  <2>2. L = [n \in 1..N |-> L[n]]
    BY <1>4
  <2>3. L \in [1..N -> Seq(Id)]
    BY <2>1, <2>2
  <2> QED BY <2>1, <2>3
<1>6. JsonIds = FlattenSeq(L)
  BY <1>2, <1>4 DEF JsonIds
<1>7. JsonIds \in Seq(Id) /\ Injective(JsonIds) /\ ToSet(JsonIds) = UNION {ToSet(L[n]) : n \in 1..N}
  <2>1. Injective(w)
    BY <1>1, <1>2
  <2>2. FirstSamples(L, w, N)
    BY <1>5 DEF FirstSamples
  <2>3. L \in [1..N -> Seq(Id)]
    BY <1>5
  <2> QED BY <1>2, <1>6, <2>1, <2>2, <2>3, ListedOnce
<1>8. ASSUME NEW i \in Id PROVE i \in ToSet(JsonIds) <=> ~CutOff(i)
  <2>1. PICK p \in pivots : \E k \in DOMAIN req_samples[p] : req_samples[p][k] = i
    BY SampleFacts
  <2>2. PICK k \in DOMAIN req_samples[p] : req_samples[p][k] = i
    BY <2>1
  <2>3. PICK n \in 1..N : w[n] = p
    BY <1>1, <1>2
  <2>4. p \in Path
    BY SampleFacts
  <2>5. CutOff(i) <=> \E j \in DOMAIN req_samples[p] :
                        j <= k /\ requests_by_id[req_samples[p][j]] \in Unconvertible
    <3>1. ASSUME NEW q \in Path, NEW j \in DOMAIN req_samples[q], NEW l \in DOMAIN req_samples[q],
                 req_samples[q][l] = i
          PROVE  q = p /\ l = k
      BY <2>2, <2>4, <3>1, SampleFacts
    <3> QED BY <2>2, <2>4, <3>1 DEF CutOff
  <2>6. k \in DOMAIN L[n] <=> ~CutOff(i)
    BY <1>5, <2>3, <2>5
  <2>7. k \in DOMAIN L[n] => i \in ToSet(JsonIds)
    <3> SUFFICES ASSUME k \in DOMAIN L[n] PROVE i \in ToSet(L[n])
      BY <1>7
    <3> QED BY <1>5, <2>2, <2>3 DEF ToSet
  <2>8. ASSUME i \in ToSet(JsonIds) PROVE k \in DOMAIN L[n]
    <3>1. PICK m \in 1..N : i \in ToSet(L[m])
      BY <1>7, <2>8
    <3>2. PICK l \in DOMAIN L[m] : L[m][l] = i
      BY <3>1 DEF ToSet
    <3>3. l \in DOMAIN req_samples[w[m]] /\ req_samples[w[m]][l] = i
      BY <1>5, <3>2
    <3>4. w[m] = p /\ l = k
      BY <1>3, <2>2, <2>4, <3>3, SampleFacts
    <3>5. m = n
      BY <1>1, <1>2, <2>3, <3>4 DEF Injective
    <3> QED BY <3>2, <3>4, <3>5
  <2> QED BY <2>6, <2>7, <2>8
<1> QED BY <1>7, <1>8

\* Items at the odd positions, delimiters in between.
LEMMA DelimitedFacts ==
  ASSUME NEW S, NEW ids \in Seq(S), NEW n \in Nat, n = Len(ids)
  PROVE  /\ DOMAIN Delimited(ids) = 1..(2 * n - 1)
         /\ Len(Delimited(ids)) = IF n = 0 THEN 0 ELSE 2 * n - 1
         /\ \A m \in 1..n : 2 * m - 1 \in 1..(2 * n - 1) /\ (2 * m - 1) % 2 = 1
                            /\ Delimited(ids)[2 * m - 1] = Item(ids[m])
         /\ \A k \in 1..(2 * n - 1) : k % 2 = 1 => \E m \in 1..n : k = 2 * m - 1
         /\ \A k \in 1..(2 * n - 1) : k % 2 # 1 => Delimited(ids)[k] = Token("delimiter")
<1>1. PICK d : d = Delimited(ids)
  OBVIOUS
<1>2. /\ DOMAIN d = 1..(2 * n - 1)
      /\ \A k \in 1..(2 * n - 1) : d[k] = IF k % 2 = 1 THEN Item(ids[(k + 1) \div 2]) ELSE Token("delimiter")
  BY <1>1 DEF Delimited
<1>3. Len(d) = IF n = 0 THEN 0 ELSE 2 * n - 1
  <2>1. CASE n = 0
    <3>1. 1..(2 * n - 1) = 1..0
      BY <2>1
    <3>2. Len([k \in 1..0 |-> IF k % 2 = 1 THEN Item(ids[(k + 1) \div 2]) ELSE Token("delimiter")]) = 0
      OBVIOUS
    <3> QED BY <1>1, <2>1, <3>1, <3>2 DEF Delimited
  <2>2. CASE n # 0
    <3>1. 2 * n - 1 \in Nat
      BY <2>2
    <3>2. PICK l \in Nat : l = 2 * n - 1
      BY <3>1
    <3>3. Len([k \in 1..l |-> IF k % 2 = 1 THEN Item(ids[(k + 1) \div 2]) ELSE Token("delimiter")]) = l
      OBVIOUS
    <3> QED BY <1>1, <2>2, <3>2, <3>3 DEF Delimited
  <2> QED BY <2>1, <2>2
<1>4. ASSUME NEW m \in 1..n
      PROVE  2 * m - 1 \in 1..(2 * n - 1) /\ (2 * m - 1) % 2 = 1 /\ d[2 * m - 1] = Item(ids[m])
  <2>1. 2 * m - 1 \in 1..(2 * n - 1) /\ (2 * m - 1) % 2 = 1 /\ ((2 * m - 1) + 1) \div 2 = m
    OBVIOUS
  <2> QED BY <1>2, <2>1
<1>5. ASSUME NEW k \in 1..(2 * n - 1), k % 2 = 1 PROVE \E m \in 1..n : k = 2 * m - 1
  <2>1. (k + 1) \div 2 \in 1..n /\ k = 2 * ((k + 1) \div 2) - 1
    BY <1>5
  <2> QED BY <2>1
<1> QED BY <1>1, <1>2, <1>3, <1>4, <1>5

-----------------------------------------------------------------------------
(* The JSON file, and the theorem about the reports.                        *)

\* The JSON report is the prefix and the delimited items.
LEMMA JsonReportFacts ==
  ASSUME StoreInv, NEW v \in BOOLEAN
  PROVE  JsonReport(Walk, v) = JsonPrefix(v) \o Delimited(JsonIds)
  BY DEF JsonReport, JsonIds

\* The parts of the file that the JSON reporter closes.
JsonFile(file, prefix, items, end) ==
  /\ Len(file) = Len(prefix) + Len(items) + 1
  /\ DOMAIN file = 1..(Len(prefix) + Len(items) + 1)
  /\ \A k \in 1..Len(prefix) : file[k] = prefix[k]
  /\ \A k \in 1..Len(items) : file[Len(prefix) + k] = items[k]
  /\ file[Len(prefix) + Len(items) + 1] = end

\* A file of that form is the concatenation of its parts.
LEMMA JsonFileParts ==
  ASSUME NEW S, NEW prefix \in Seq(S), NEW items \in Seq(S), NEW t \in S
  PROVE  JsonFile(Append(prefix \o items, t), prefix, items, t)
<1>2. PICK both : both = prefix \o items
  OBVIOUS
<1>3. PICK q \in Nat : q = Len(prefix)
  OBVIOUS
<1>4. PICK b \in Nat : b = Len(items)
  OBVIOUS
<1>5. /\ both \in Seq(S) /\ Len(both) = q + b
      /\ \A k \in 1..q : both[k] = prefix[k]
      /\ \A k \in 1..b : both[q + k] = items[k]
  <2>1. both \in Seq(S) /\ Len(both) = q + b
    BY <1>2, <1>3, <1>4
  <2>2. \A k \in 1..q : both[k] = prefix[k]
    BY <1>2, <1>3, <1>4
  <2>3. ASSUME NEW k \in 1..b PROVE both[q + k] = items[k]
    <3>1. q + k \in 1..(q + b) /\ q + k > q /\ (q + k) - q = k
      OBVIOUS
    <3> QED BY <1>2, <1>3, <1>4, <3>1
  <2> QED BY <2>1, <2>2, <2>3
<1>6. PICK file : file = Append(both, t)
  OBVIOUS
<1>7. /\ file \in Seq(S) /\ Len(file) = q + b + 1 /\ DOMAIN file = 1..(q + b + 1)
      /\ \A k \in 1..(q + b) : file[k] = both[k]
      /\ file[q + b + 1] = t
  BY <1>5, <1>6
<1>8. (\A k \in 1..q : k \in 1..(q + b)) /\ (\A k \in 1..b : q + k \in 1..(q + b))
  OBVIOUS
<1>9. JsonFile(file, prefix, items, t)
  BY <1>3, <1>4, <1>5, <1>7, <1>8 DEF JsonFile
<1> QED BY <1>2, <1>6, <1>9

\* The prefix of a JSON report has no item; with a pivot it opens the array.
LEMMA JsonPrefixFacts ==
  ASSUME StoreInv, NEW v \in BOOLEAN, NEW a, a = Config(v), NEW c, c = Token("delimiter"),
         NEW h, h = Token("pivots")
  PROVE  /\ JsonPrefix(v) \in Seq({a, c, h})
         /\ Len(JsonPrefix(v)) = IF pivots = {} THEN 2 ELSE 3
         /\ pivots # {} => JsonPrefix(v)[1] = a /\ JsonPrefix(v)[2] = c /\ JsonPrefix(v)[3] = h
<1>1. ReportedPivots = pivots
  BY SampleFacts
<1>2. PICK S : S = {a, c, h}
  OBVIOUS
<1>3. <<a, c>> \in Seq(S) /\ <<>> \in Seq(S) /\ <<h>> \in Seq(S)
  BY <1>2
<1>4. PICK u \in Seq(S) : u = <<a, c>>
  BY <1>3
<1>5. PICK z \in Seq(S) : z = <<>>
  BY <1>3
<1>6. PICK x \in Seq(S) : x = <<h>>
  BY <1>3
<1>7. Len(u) = 2 /\ u[1] = a /\ u[2] = c /\ Len(z) = 0 /\ Len(x) = 1 /\ x[1] = h
  BY <1>4, <1>5, <1>6
<1>8. CASE pivots = {}
  <2>1. JsonPrefix(v) = u \o z
    BY <1>1, <1>4, <1>5, <1>8 DEF JsonPrefix
  <2>2. u \o z \in Seq(S) /\ Len(u \o z) = 2
    BY <1>7
  <2> QED BY <1>2, <1>8, <2>1, <2>2
<1>9. CASE pivots # {}
  <2>1. JsonPrefix(v) = u \o x
    BY <1>1, <1>4, <1>6, <1>9 DEF JsonPrefix
  <2>2. u \o x \in Seq(S) /\ Len(u \o x) = 3
    <3>1. u \o x \in Seq(S) /\ Len(u \o x) = Len(u) + Len(x)
      OBVIOUS
    <3> QED BY <1>7, <3>1
  <2>3. (u \o x)[1] = a /\ (u \o x)[2] = c /\ (u \o x)[3] = h
    <3>1. PICK y : y = u \o x
      OBVIOUS
    <3>2. PICK n \in Nat : n = Len(u)
      OBVIOUS
    <3>3. PICK m \in Nat : m = Len(x)
      OBVIOUS
    <3>4. \A k \in 1..(n + m) : y[k] = IF k <= n THEN u[k] ELSE x[k - n]
      BY <3>1, <3>2, <3>3
    <3>5. n = 2 /\ m = 1
      BY <1>7, <3>2, <3>3
    <3>6. y[1] = u[1] /\ y[2] = u[2]
      BY <3>4, <3>5
    <3>7. y[3] = x[1]
      <4>1. 3 \in 1..(n + m) /\ ~(3 <= n) /\ 3 - n = 1
        BY <3>5
      <4> QED BY <3>4, <4>1
    <3> QED BY <1>7, <3>1, <3>6, <3>7
  <2> QED BY <1>2, <1>9, <2>1, <2>2, <2>3
<1> QED BY <1>8, <1>9

\* The items between the delimiters are those of the list, in their places.
LEMMA ItemsOf ==
  ASSUME NEW S, NEW ids \in Seq(S), NEW k \in 1..Len(Delimited(ids)), NEW i,
         Delimited(ids)[k] = Item(i)
  PROVE  \E m \in DOMAIN ids : k = 2 * m - 1 /\ ids[m] = i
<1>1. PICK n \in Nat : n = Len(ids) /\ DOMAIN ids = 1..n
  OBVIOUS
<1>2. PICK d : d = Delimited(ids)
  OBVIOUS
<1>3. /\ Len(d) = IF n = 0 THEN 0 ELSE 2 * n - 1
      /\ \A m \in 1..n : d[2 * m - 1] = Item(ids[m])
      /\ \A j \in 1..(2 * n - 1) : j % 2 = 1 => \E m \in 1..n : j = 2 * m - 1
      /\ \A j \in 1..(2 * n - 1) : j % 2 # 1 => d[j] = Token("delimiter")
  <2>1. Len(d) = IF n = 0 THEN 0 ELSE 2 * n - 1
    BY <1>1, <1>2, DelimitedFacts
  <2>2. \A m \in 1..n : d[2 * m - 1] = Item(ids[m])
    BY <1>1, <1>2, DelimitedFacts
  <2>3. ASSUME NEW j \in 1..(2 * n - 1), j % 2 = 1 PROVE \E m \in 1..n : j = 2 * m - 1
    <3>1. (j + 1) \div 2 \in 1..n /\ j = 2 * ((j + 1) \div 2) - 1
      BY <2>3
    <3> QED BY <3>1
  <2>4. \A j \in 1..(2 * n - 1) : j % 2 # 1 => d[j] = Token("delimiter")
    BY <1>1, <1>2, DelimitedFacts
  <2> QED BY <2>1, <2>2, <2>3, <2>4
<1>4. k \in 1..(2 * n - 1)
  BY <1>2, <1>3
<1>5. Token("delimiter") # Item(i)
  BY DEF Token, Item
<1>6. PICK m \in 1..n : k = 2 * m - 1
  BY <1>2, <1>3, <1>4, <1>5
<1>7. Item(ids[m]) = Item(i)
  BY <1>2, <1>3, <1>6
<1>8. ids[m] = i
  BY <1>7 DEF Item
<1> QED BY <1>1, <1>6, <1>8

\* The delimited items are a sequence.
LEMMA DelimitedType ==
  ASSUME NEW S, NEW ids \in Seq(S), NEW T, \A i \in S : Item(i) \in T, Token("delimiter") \in T
  PROVE  Delimited(ids) \in Seq(T)
<1>1. PICK n \in Nat : n = Len(ids) /\ DOMAIN ids = 1..n
  OBVIOUS
<1>2. PICK b \in Nat : 1..(2 * n - 1) = 1..b
  <2>1. CASE n = 0
    <3>1. 1..(2 * n - 1) = 1..0
      BY <2>1
    <3> QED BY <3>1
  <2>2. CASE n # 0
    <3>1. 2 * n - 1 \in Nat
      BY <2>2
    <3> QED BY <3>1
  <2> QED BY <2>1, <2>2
<1>3. ASSUME NEW k \in 1..(2 * n - 1)
      PROVE  (IF k % 2 = 1 THEN Item(ids[(k + 1) \div 2]) ELSE Token("delimiter")) \in T
  <2>1. CASE k % 2 = 1
    <3>1. (k + 1) \div 2 \in 1..n
      OBVIOUS
    <3>2. ids[(k + 1) \div 2] \in S
      BY <1>1, <3>1
    <3> QED BY <2>1, <3>2
  <2>2. CASE k % 2 # 1
    BY <2>2
  <2> QED BY <2>1, <2>2
<1>4. Delimited(ids) = [k \in 1..(2 * n - 1) |->
                          IF k % 2 = 1 THEN Item(ids[(k + 1) \div 2]) ELSE Token("delimiter")]
  BY <1>1 DEF Delimited
<1>5. Delimited(ids) \in [1..(2 * n - 1) -> T]
  BY <1>3, <1>4
<1>6. Delimited(ids) \in [1..b -> T]
  BY <1>2, <1>5
<1> QED BY <1>6

\* The closed JSON file: its prefix, its items and the end.
LEMMA JsonFileFacts ==
  ASSUME StoreInv, NEW v \in BOOLEAN, NEW t, t = Token("end"), NEW file, file = Append(JsonReport(Walk, v), t)
  PROVE  JsonFile(file, JsonPrefix(v), Delimited(JsonIds), t)
<1>1. PICK a : a = Config(v)
  OBVIOUS
<1>2. PICK c : c = Token("delimiter")
  OBVIOUS
<1>3. PICK h : h = Token("pivots")
  OBVIOUS
<1>4. PICK S : S = {a, c, h, t} \cup {Item(i) : i \in Id}
  OBVIOUS
<1>5. PICK prefix \in Seq({a, c, h}) : prefix = JsonPrefix(v)
  BY <1>1, <1>2, <1>3, JsonPrefixFacts
<1>6. prefix \in Seq(S)
  <2>1. \A e \in {a, c, h} : e \in S
    BY <1>4
  <2>2. PICK n \in Nat : prefix \in [1..n -> {a, c, h}]
    OBVIOUS
  <2>3. prefix \in [1..n -> S]
    BY <2>1, <2>2
  <2> QED BY <2>3
<1>7. PICK items \in Seq(S) : items = Delimited(JsonIds)
  <2>1. JsonIds \in Seq(Id)
    BY JsonIdFacts
  <2>2. (\A i \in Id : Item(i) \in S) /\ Token("delimiter") \in S
    BY <1>2, <1>4
  <2>3. Delimited(JsonIds) \in Seq(S)
    BY <2>1, <2>2, DelimitedType
  <2> QED BY <2>3
<1>8. t \in S
  BY <1>4
<1>9. file = Append(prefix \o items, t)
  BY <1>5, <1>7, JsonReportFacts
<1> QED BY <1>5, <1>6, <1>7, <1>8, <1>9, JsonFileParts

\* What position k of that file says about request i.
ItemAt(file, v, k, i) ==
  file[k] = Item(i) <=>
    \E m \in DOMAIN JsonIds : k = Len(JsonPrefix(v)) + (2 * m - 1) /\ JsonIds[m] = i

\* Where the items of that file are.
LEMMA JsonFileItems ==
  ASSUME StoreInv, NEW v \in BOOLEAN, NEW t, t = Token("end"), NEW file, JsonFile(file, JsonPrefix(v), Delimited(JsonIds), t),
         NEW i, NEW k \in DOMAIN file
  PROVE  ItemAt(file, v, k, i)
<1>1. PICK a : a = Config(v)
  OBVIOUS
<1>2. PICK c : c = Token("delimiter")
  OBVIOUS
<1>3. PICK h : h = Token("pivots")
  OBVIOUS
<1>4. PICK prefix \in Seq({a, c, h}) : prefix = JsonPrefix(v)
  BY <1>1, <1>2, <1>3, JsonPrefixFacts
<1>5. PICK q \in Nat : q = Len(prefix) /\ DOMAIN prefix = 1..q
  OBVIOUS
<1>6. PICK ids \in Seq(Id) : ids = JsonIds
  BY JsonIdFacts
<1>7. PICK n \in Nat : n = Len(ids) /\ DOMAIN ids = 1..n
  OBVIOUS
<1>8. PICK d : d = Delimited(ids)
  OBVIOUS
<1>9. PICK b \in Nat : b = Len(d) /\ b = IF n = 0 THEN 0 ELSE 2 * n - 1
  <2>1. Len(d) = IF n = 0 THEN 0 ELSE 2 * n - 1
    BY <1>7, <1>8, DelimitedFacts
  <2>2. (IF n = 0 THEN 0 ELSE 2 * n - 1) \in Nat
    BY <1>7
  <2> QED BY <2>1, <2>2
<1>10. /\ DOMAIN file = 1..(q + b + 1)
       /\ \A j \in 1..q : file[j] = prefix[j]
       /\ \A j \in 1..b : file[q + j] = d[j]
       /\ file[q + b + 1] = t
  BY <1>4, <1>5, <1>6, <1>8, <1>9 DEF JsonFile
<1>11. a # Item(i) /\ c # Item(i) /\ h # Item(i) /\ t # Item(i)
  BY <1>1, <1>2, <1>3 DEF Config, Token, Item
<1>12. ASSUME file[k] = Item(i) PROVE \E m \in DOMAIN ids : k = q + (2 * m - 1) /\ ids[m] = i
  <2>1. k \notin 1..q
    <3>1. \A j \in 1..q : prefix[j] \in {a, c, h}
      BY <1>5
    <3> QED BY <1>10, <1>11, <1>12, <3>1
  <2>2. k # q + b + 1
    BY <1>10, <1>11, <1>12
  <2>3. k - q \in 1..b /\ k = q + (k - q)
    <3>1. k \in 1..(q + b + 1) /\ q \in Nat /\ b \in Nat
      BY <1>10
    <3>2. k \in Nat /\ k > q
      BY <2>1, <3>1
    <3>3. k <= q + b
      BY <2>2, <3>1
    <3> QED BY <3>1, <3>2, <3>3
  <2>4. PICK j \in 1..b : k = q + j
    BY <2>3
  <2>5. d[j] = Item(i)
    BY <1>10, <1>12, <2>4
  <2>6. PICK m \in DOMAIN ids : j = 2 * m - 1 /\ ids[m] = i
    <3>1. j \in 1..Len(Delimited(ids)) /\ Delimited(ids)[j] = Item(i)
      BY <1>8, <1>9, <2>5
    <3> QED BY <3>1, ItemsOf
  <2> QED BY <2>4, <2>6
<1>13. ASSUME NEW m \in DOMAIN ids, k = q + (2 * m - 1), ids[m] = i PROVE file[k] = Item(i)
  <2>1. m \in 1..n
    BY <1>7
  <2>2. d[2 * m - 1] = Item(ids[m])
    BY <1>7, <1>8, <2>1, DelimitedFacts
  <2>3. 2 * m - 1 \in 1..b
    BY <1>9, <2>1
  <2> QED BY <1>10, <1>13, <2>2, <2>3
<1> QED BY <1>4, <1>5, <1>6, <1>12, <1>13 DEF ItemAt

\* A request is in the JSON report once, or not at all when it is cut off.
LEMMA JsonCopies ==
  ASSUME StoreInv, NEW v \in BOOLEAN, NEW t, t = Token("end"), NEW file, file = Append(JsonReport(Walk, v), t),
         NEW i \in Id
  PROVE  Copies(file, i) = IF CutOff(i) THEN 0 ELSE 1
<1>1. JsonFile(file, JsonPrefix(v), Delimited(JsonIds), t)
  BY JsonFileFacts
<1>2. PICK ids \in Seq(Id) : ids = JsonIds /\ Injective(ids) /\ (i \in ToSet(ids) <=> ~CutOff(i))
  BY JsonIdFacts
<1>3. PICK q : q = Len(JsonPrefix(v))
  OBVIOUS
<1>4. \A k \in DOMAIN file : file[k] = Item(i) <=>
        \E m \in DOMAIN ids : k = q + (2 * m - 1) /\ ids[m] = i
  <2> SUFFICES ASSUME NEW k \in DOMAIN file
               PROVE  file[k] = Item(i) <=>
                        \E m \in DOMAIN ids : k = q + (2 * m - 1) /\ ids[m] = i
    OBVIOUS
  <2>1. ItemAt(file, v, k, i)
    BY <1>1, JsonFileItems
  <2> QED BY <1>2, <1>3, <2>1 DEF ItemAt
<1>5. CASE CutOff(i)
  <2>1. \A m \in DOMAIN ids : ids[m] # i
    BY <1>2, <1>5 DEF ToSet
  <2>2. {k \in DOMAIN file : file[k] = Item(i)} = {}
    BY <1>4, <2>1
  <2> QED BY <1>5, <2>2, FS_EmptySet DEF Copies
<1>6. CASE ~CutOff(i)
  <2>1. PICK m \in DOMAIN ids : ids[m] = i
    BY <1>2, <1>6 DEF ToSet
  <2>2. PICK k : k = q + (2 * m - 1)
    OBVIOUS
  <2>3. k \in DOMAIN file
    <3>1. PICK n \in Nat : n = Len(ids) /\ DOMAIN ids = 1..n
      OBVIOUS
    <3>2. q \in Nat
      BY <1>3, JsonPrefixFacts
    <3>3. m \in 1..n /\ n # 0
      BY <2>1, <3>1
    <3>4. PICK b : b = Len(Delimited(ids))
      OBVIOUS
    <3>5. b = 2 * n - 1
      BY <3>1, <3>3, <3>4, DelimitedFacts
    <3>6. DOMAIN file = 1..(q + b + 1)
      BY <1>1, <1>2, <1>3, <3>4 DEF JsonFile
    <3> QED BY <2>2, <3>2, <3>3, <3>5, <3>6
  <2>4. file[k] = Item(i)
    BY <1>4, <2>1, <2>2, <2>3
  <2>5. \A j \in DOMAIN file : file[j] = Item(i) => j = k
    <3>1. \A l \in DOMAIN ids : ids[l] = i => l = m
      BY <1>2, <2>1 DEF Injective
    <3> QED BY <1>4, <2>2, <3>1
  <2>6. Copies(file, i) = 1
    BY <2>3, <2>4, <2>5, OneCopy
  <2> QED BY <1>6, <2>6
<1> QED BY <1>5, <1>6

\* The JSON report is well formed once there is a pivot and its first token is
\* a configuration.
LEMMA JsonIsWellFormed ==
  ASSUME StoreInv, NEW v \in BOOLEAN, NEW t, t = Token("end"), NEW file, file = Append(JsonReport(Walk, v), t),
         pivots # {}, file[1].kind = "config"
  PROVE  WellFormed(file)
<1>1. JsonFile(file, JsonPrefix(v), Delimited(JsonIds), t)
  BY JsonFileFacts
<1>2. PICK prefix : /\ prefix = JsonPrefix(v) /\ Len(prefix) = 3
                    /\ prefix[1] = Config(v) /\ prefix[2] = Token("delimiter")
                    /\ prefix[3] = Token("pivots")
  BY JsonPrefixFacts
<1>3. PICK ids \in Seq(Id) : ids = JsonIds
  BY JsonIdFacts
<1>4. PICK n \in Nat : n = Len(ids) /\ DOMAIN ids = 1..n
  OBVIOUS
<1>5. PICK d : d = Delimited(ids)
  OBVIOUS
<1>6. PICK b \in Nat : b = Len(d) /\ b = IF n = 0 THEN 0 ELSE 2 * n - 1
  <2>1. Len(d) = IF n = 0 THEN 0 ELSE 2 * n - 1
    BY <1>4, <1>5, DelimitedFacts
  <2>2. (IF n = 0 THEN 0 ELSE 2 * n - 1) \in Nat
    BY <1>4
  <2> QED BY <2>1, <2>2
<1>7. /\ Len(file) = 3 + b + 1 /\ DOMAIN file = 1..(3 + b + 1)
      /\ \A j \in 1..3 : file[j] = prefix[j]
      /\ \A j \in 1..b : file[3 + j] = d[j]
      /\ file[3 + b + 1] = t
  BY <1>1, <1>2, <1>3, <1>5, <1>6 DEF JsonFile
<1>8. ASSUME NEW j \in 1..b PROVE d[j].kind = IF j % 2 = 1 THEN "item" ELSE "delimiter"
  <2>1. j \in 1..(2 * n - 1)
    BY <1>6
  <2>2. d[j] = IF j % 2 = 1 THEN Item(ids[(j + 1) \div 2]) ELSE Token("delimiter")
    BY <1>4, <1>5, <2>1 DEF Delimited
  <2> QED BY <2>2 DEF Item, Token
<1>9. PICK middle : middle = SubSeq(file, 4, Len(file) - 1)
  OBVIOUS
<1>10. Len(file) >= 4
  BY <1>7
<1>11. [k \in 1..3 |-> file[k].kind] = <<"config", "delimiter", "pivots">>
  <2>1. file[1] = Config(v) /\ file[2] = Token("delimiter") /\ file[3] = Token("pivots")
    BY <1>2, <1>7
  <2>2. file[1].kind = "config" /\ file[2].kind = "delimiter" /\ file[3].kind = "pivots"
    <3>1. file[2].kind = "delimiter" /\ file[3].kind = "pivots"
      BY <2>1 DEF Token
    <3> QED BY <3>1
  <2>3. PICK f : f = [k \in 1..3 |-> file[k].kind]
    OBVIOUS
  <2>4. \A k \in 1..3 : f[k] = file[k].kind
    BY <2>3
  <2>5. f[1] = "config" /\ f[2] = "delimiter" /\ f[3] = "pivots"
    <3>1. 1 \in 1..3 /\ 2 \in 1..3 /\ 3 \in 1..3
      OBVIOUS
    <3>2. f[1] = file[1].kind /\ f[2] = file[2].kind /\ f[3] = file[3].kind
      BY <2>4, <3>1, Zenon
    <3> QED BY <2>2, <3>2, Zenon
  <2>6. f = <<f[1], f[2], f[3]>>
    <3>1. f = [k \in 1..3 |-> f[k]]
      BY <2>3
    <3> QED BY <3>1
  <2> QED BY <2>3, <2>5, <2>6
<1>12. Last(file).kind = "end"
  BY <1>7 DEF Last, Token
<1>13. Len(middle) = b /\ DOMAIN middle = 1..b /\ \A k \in 1..b : middle[k] = d[k]
  <2>1. middle = [k \in 1..b |-> file[k + 3]]
    BY <1>7, <1>9
  <2>2. Len([k \in 1..b |-> file[k + 3]]) = b /\ DOMAIN middle = 1..b
    BY <2>1
  <2>3. ASSUME NEW k \in 1..b PROVE middle[k] = d[k]
    <3>1. middle[k] = file[k + 3]
      BY <2>1
    <3>2. k + 3 = 3 + k
      OBVIOUS
    <3> QED BY <1>7, <3>1, <3>2
  <2> QED BY <2>1, <2>2, <2>3
<1>14. \A k \in DOMAIN middle : middle[k].kind = IF k % 2 = 1 THEN "item" ELSE "delimiter"
  BY <1>8, <1>13
<1>15. middle # <<>> => Last(middle).kind = "item"
  <2> SUFFICES ASSUME b # 0 PROVE Last(middle).kind = "item"
    BY <1>13
  <2>1. b \in 1..b /\ b % 2 = 1
    BY <1>6
  <2> QED BY <1>13, <1>14, <2>1 DEF Last
<1> QED BY <1>9, <1>10, <1>11, <1>12, <1>14, <1>15 DEF WellFormed

\* What the reporters have written once Report and the destructors ran; v is
\* whether the configuration could be converted.
Written(v, k) ==
  IF reporters[k] = "TEXT" THEN TextReport(Walk)
  ELSE IF phase = "reported" THEN JsonReport(Walk, v)
  ELSE Append(JsonReport(Walk, v), Token("end"))

ReportInv ==
  phase \in {"reported", "closed"} =>
    \E v \in BOOLEAN : \A k \in DOMAIN reporters : output[k] = Written(v, k)

\* Before Report there is nothing to say; it writes all reports from the store,
\* and the store does not change after it.
LEMMA ReportStep ==
  ASSUME ReportInv, [ReportNext]_allVars
  PROVE  ReportInv'
<1>1. ASSUME vars' = vars
      PROVE  /\ Walk' = Walk /\ TextReport(Walk)' = TextReport(Walk)
             /\ \A v \in BOOLEAN : JsonReport(Walk, v)' = JsonReport(Walk, v)
  <2>1. pivots' = pivots /\ req_samples' = req_samples /\ requests_by_id' = requests_by_id
    BY <1>1 DEF vars, storeVars
  <2>2. ReportedPivots' = ReportedPivots
    BY <2>1 DEF ReportedPivots
  <2>3. Walk' = Walk
    BY <2>2 DEF Walk
  <2>4. TextReport(Walk)' = TextReport(Walk)
    BY <2>1, <2>3 DEF TextReport
  <2>5. \A v \in BOOLEAN : JsonPrefix(v)' = JsonPrefix(v)
    BY <2>2 DEF JsonPrefix
  <2>6. ASSUME NEW v \in BOOLEAN PROVE JsonReport(Walk, v)' = JsonReport(Walk, v)
    BY <2>1, <2>3, <2>5 DEF JsonReport, JsonPivot
  <2> QED BY <2>3, <2>4, <2>6
<1>2. CASE InitReporting
  BY <1>2 DEF InitReporting, ReportInv
<1>3. CASE ScanStep
  BY <1>3 DEF ScanStep, ReportInv, reportVars
<1>4. CASE Report
  <2>1. PICK v \in BOOLEAN :
          output' = [k \in DOMAIN reporters |->
                       IF reporters[k] = "TEXT" THEN TextReport(Walk) ELSE JsonReport(Walk, v)]
    BY <1>4 DEF Report
  <2>2. phase' = "reported" /\ reporters' = reporters /\ vars' = vars
    BY <1>4 DEF Report
  <2>3. ASSUME NEW k \in DOMAIN reporters PROVE output'[k] = Written(v, k)'
    <3>1. Written(v, k)' = IF reporters[k] = "TEXT" THEN TextReport(Walk) ELSE JsonReport(Walk, v)
      BY <1>1, <2>2 DEF Written
    <3> QED BY <2>1, <3>1
  <2> QED BY <2>2, <2>3 DEF ReportInv
<1>5. CASE Close
  <2>1. phase = "reported" /\ phase' = "closed" /\ reporters' = reporters /\ vars' = vars
    BY <1>5 DEF Close
  <2>2. PICK v \in BOOLEAN : \A k \in DOMAIN reporters : output[k] = Written(v, k)
    BY <2>1 DEF ReportInv
  <2>3. ASSUME NEW k \in DOMAIN reporters PROVE output'[k] = Written(v, k)'
    <3>1. output'[k] = IF reporters[k] = "TEXT" THEN output[k] ELSE Append(output[k], Token("end"))
      BY <1>5 DEF Close
    <3>2. output[k] = IF reporters[k] = "TEXT" THEN TextReport(Walk) ELSE JsonReport(Walk, v)
      BY <2>1, <2>2 DEF Written
    <3>3. Written(v, k)' = IF reporters[k] = "TEXT" THEN TextReport(Walk)
                           ELSE Append(JsonReport(Walk, v), Token("end"))
      BY <1>1, <2>1 DEF Written
    <3> QED BY <3>1, <3>2, <3>3
  <2> QED BY <2>1, <2>3 DEF ReportInv
<1>6. CASE UNCHANGED allVars
  <2>1. vars' = vars /\ phase' = phase /\ reporters' = reporters /\ output' = output
    BY <1>6 DEF allVars, reportVars
  <2>2. \A v \in BOOLEAN : \A k : Written(v, k)' = Written(v, k)
    BY <1>1, <2>1 DEF Written
  <2> QED BY <2>1, <2>2 DEF ReportInv
<1> QED BY <1>2, <1>3, <1>4, <1>5, <1>6 DEF ReportNext

\* Every stored request is in the text report once, and in the JSON report
\* once unless a request at or before it in its pivot has no JSON form; the
\* JSON report is well formed if the configuration was converted, and two
\* reporters of one type write the same.  For any requests, limits and lists
\* of report types.
THEOREM ReportsCoverTheStore == ReportSpec => []ReportsAreComplete
<1>1. ReportInit => ReportInv
  BY DEF ReportInit, ReportInv
<1>2. ReportInv /\ [ReportNext]_allVars => ReportInv'
  BY ReportStep
<1>3. StoreInv /\ ReportInv => ReportsAreComplete
  <2> SUFFICES ASSUME StoreInv, ReportInv, phase = "closed" PROVE ReportsAreComplete
    BY DEF ReportsAreComplete
  <2>1. PICK v \in BOOLEAN : \A k \in DOMAIN reporters : output[k] = Written(v, k)
    BY DEF ReportInv
  <2>2. PICK t : t = Token("end")
    OBVIOUS
  <2>3. \A k \in DOMAIN reporters :
          output[k] = IF reporters[k] = "TEXT" THEN TextReport(Walk) ELSE Append(JsonReport(Walk, v), t)
    BY <2>1, <2>2 DEF Written
  <2>4. ASSUME NEW k \in DOMAIN reporters, reporters[k] = "TEXT"
        PROVE  Len(output[k]) = Len(requests_by_id) /\ \A i \in Id : Copies(output[k], i) = 1
    <3>1. output[k] = TextReport(Walk)
      BY <2>3, <2>4
    <3> QED BY <3>1, TextReportFacts
  <2>5. ASSUME NEW k \in DOMAIN reporters, reporters[k] = "JSON"
        PROVE  /\ pivots # {} /\ output[k][1].kind = "config" => WellFormed(output[k])
               /\ \A i \in Id : Copies(output[k], i) = IF CutOff(i) THEN 0 ELSE 1
    <3>1. PICK file : file = output[k]
      OBVIOUS
    <3>2. file = Append(JsonReport(Walk, v), t)
      BY <2>3, <2>5, <3>1
    <3>3. pivots # {} /\ file[1].kind = "config" => WellFormed(file)
      BY <2>2, <3>2, JsonIsWellFormed
    <3>4. \A i \in Id : Copies(file, i) = IF CutOff(i) THEN 0 ELSE 1
      BY <2>2, <3>2, JsonCopies
    <3> QED BY <3>1, <3>3, <3>4
  <2>6. \A k, m \in DOMAIN reporters : reporters[m] = reporters[k] => output[m] = output[k]
    BY <2>3
  <2> QED BY <2>4, <2>5, <2>6 DEF ReportsAreComplete
<1> QED BY <1>1, <1>2, <1>3, ReportedStoreInvariant, PTL DEF ReportSpec
=============================================================================
