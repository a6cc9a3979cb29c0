---------------------------- MODULE AuditProofs -----------------------------
(***************************************************************************)
(* The selective auditor for any pages, any configuration of security      *)
(* tests and any answers: which requests the checks send, that the chain   *)
(* of checks leaves none out, and that an issue means what its rule says.  *)
(***************************************************************************)
EXTENDS Audit, FiniteSetTheorems, WellFoundedInduction, TLAPS

(***************************************************************************)
(* The inductive invariant.  A request of a check is open, and waits in    *)
(* the runner of its page, or it was answered and is in the history.       *)
(***************************************************************************)
Answered(id, c, n) == \E e \in answered : e.page = id /\ e.check = c /\ e.n = n
Complete(id, c) == \A n \in DOMAIN CreateRequests(id, c) : Answered(id, c, n)

\* A serial check whose rule the page itself satisfies is not run.
TestsPositive(id, c) == checks[c].serial /\ EvaluateSingle(c, pages[id], <<>>)

\* The runner of the page has passed check c.
Done(id, c) == Complete(id, c) \/ (Entries(id, c) = {} /\ TestsPositive(id, c))

\* What a request of a check becomes when it is answered.
WithAnswer(req, a) == [req EXCEPT !.response = a.response, !.time = a.time]

IsMessage(proto) ==
  /\ FieldType \cup {"host"} \subseteq DOMAIN proto
  /\ proto.host \in Text
  /\ \A type \in FieldType : proto[type] \in Seq(RequestField)

HasUserAgent(proto) == \E k \in DOMAIN proto.header : proto.header[k].name = <<"User-Agent">>

\* Pages and checks are what the scan made of its configuration.
ConfigInv ==
  /\ kInvalidId \notin Id
  /\ \A id \in Id :
       \E proto : \E a \in Answers :
         /\ IsMessage(proto) /\ HasUserAgent(proto)
         /\ \A type \in FieldType : \A k \in DOMAIN proto[type] : ~proto[type][k].modified
         /\ pages[id] = WithAnswer(NewAuditRequest(proto, kInvalidId, a.time), a)
  /\ checks \in Seq(SecurityTest \cup {ResponseTime}) /\ Len(checks) >= 1
  /\ checks[1] = ResponseTime
  /\ \A c \in DOMAIN checks : c > 1 =>
       checks[c] \in SecurityTest /\ checks[c].has_generator_rule /\ UsableTest(checks[c])

\* The entry of the history for request n of check c.
Entry(id, c, n, req) == [page |-> id, check |-> c, n |-> n, request |-> req]

\* Each request is answered once.
AnsweredInv ==
  \A e \in answered :
    /\ e.page \in audited /\ e.check \in DOMAIN checks
    /\ e.n \in DOMAIN CreateRequests(e.page, e.check)
    /\ \E a \in Answers :
         e = Entry(e.page, e.check, e.n, WithAnswer(CreateRequests(e.page, e.check)[e.n], a))
    /\ \A f \in answered : f.page = e.page /\ f.check = e.check /\ f.n = e.n => f = e

\* The requests of a runner are open, or answered and in the history; the
\* checks before its own are done, and those after it not begun.
RunnerInv(id, c, requests, open) ==
  /\ c \in DOMAIN checks
  /\ requests = [n \in DOMAIN CreateRequests(id, c) |-> requests[n]]
  /\ open \subseteq DOMAIN CreateRequests(id, c) /\ open # {}
  /\ \A n \in open : requests[n] = CreateRequests(id, c)[n] /\ ~Answered(id, c, n)
  /\ \A n \in DOMAIN CreateRequests(id, c) \ open : Entry(id, c, n, requests[n]) \in answered
  /\ \A d \in DOMAIN checks : /\ d < c => Done(id, d)
                              /\ d > c => Entries(id, d) = {}

\* A page without a runner has passed all checks.
RunnersInv ==
  /\ audited \subseteq Id /\ DOMAIN runners \subseteq audited
  /\ \A id \in DOMAIN runners :
       /\ {"check", "requests", "open"} \subseteq DOMAIN runners[id]
       /\ RunnerInv(id, runners[id].check, runners[id].requests, runners[id].open)
  /\ \A id \in audited \ DOMAIN runners : \A c \in DOMAIN checks : Done(id, c)

\* The baseline of a page is known exactly when its measurements are complete.
MetaInv ==
  /\ DOMAIN meta = {id \in audited : id \in DOMAIN runners => runners[id].check > 1}
  /\ \A id \in DOMAIN meta : meta[id] = Baseline(id) /\ meta[id] \in Nat

\* A check that judges its answers together found something.
Positive(id, c) ==
  IF c = 1 THEN meta[id] > Threshold
  ELSE \E e \in Entries(id, c) : EvaluateSingle(c, e.request, meta)

\* An issue is about an answer, and the matcher says so.
IssuesInv ==
  /\ \A i \in issues : \E e \in answered : i = [page |-> e.page, check |-> e.check, n |-> e.n]
  /\ \A e \in answered : checks[e.check].serial =>
       (IsIssue(e.page, e.check, e.n) <=> EvaluateSingle(e.check, e.request, meta))
  /\ \A id \in audited : \A c \in DOMAIN checks : ~checks[c].serial =>
       ((\E n \in DOMAIN CreateRequests(id, c) : IsIssue(id, c, n)) <=>
          Complete(id, c) /\ Positive(id, c))

IInv ==
  /\ ConfigInv
  /\ AnsweredInv
  /\ RunnersInv
  /\ MetaInv
  /\ IssuesInv
-----------------------------------------------------------------------------
(* Sequences.                                                              *)

\* The elements of a concatenation.
LEMMA ConcatFacts ==
  ASSUME NEW S, NEW s \in Seq(S), NEW t \in Seq(S)
  PROVE  s \o t \in Seq(S) /\ ToSet(s \o t) = ToSet(s) \cup ToSet(t)
<1> DEFINE c == s \o t
<1>1. /\ c \in Seq(S) /\ Len(c) = Len(s) + Len(t)
      /\ Len(s) \in Nat /\ Len(t) \in Nat
      /\ DOMAIN s = 1..Len(s) /\ DOMAIN t = 1..Len(t) /\ DOMAIN c = 1..(Len(s) + Len(t))
      /\ \A i \in 1..Len(s) : c[i] = s[i]
  OBVIOUS
<1>2. \A i \in 1..Len(t) : i + Len(s) \in DOMAIN c /\ c[i + Len(s)] = t[i]
  BY <1>1
<1>3. ASSUME NEW k \in DOMAIN c, k \notin 1..Len(s)
      PROVE  \E i \in 1..Len(t) : k = i + Len(s)
  <2>1. k - Len(s) \in 1..Len(t) /\ k = (k - Len(s)) + Len(s)
    BY <1>1, <1>3
  <2> QED BY <2>1
<1> HIDE DEF c
<1>4. \A i \in DOMAIN s : s[i] \in ToSet(c)
  BY <1>1 DEF ToSet
<1>5. \A i \in DOMAIN t : t[i] \in ToSet(c)
  BY <1>1, <1>2 DEF ToSet
<1>6. \A k \in DOMAIN c : c[k] \in ToSet(s) \cup ToSet(t)
  BY <1>1, <1>2, <1>3 DEF ToSet
<1>7. ToSet(c) = ToSet(s) \cup ToSet(t)
  BY <1>4, <1>5, <1>6 DEF ToSet
<1> QED BY <1>1, <1>7 DEF c

\* A nonempty set of numbers has a least one.
LEMMA LeastNumber ==
  ASSUME NEW T \in SUBSET Nat, T # {}
  PROVE  \E x \in T : \A y \in T : ~(y < x)
<1>1. \E x \in T : \A y \in T : ~(<<y, x>> \in OpToRel(<, Nat))
  BY WFMin, NatLessThanWellFounded
<1> QED BY <1>1 DEF OpToRel

\* f is the recursive function behind FlattenSeq, for the first m sequences.
Flat(s, m, f) == f = [i \in 1..m |-> IF i = 1 THEN s[i] ELSE f[i - 1] \o s[i]]

\* There is such a function for every number of sequences.
LEMMA FlatExists ==
  ASSUME NEW s, NEW n \in Nat
  PROVE  \E f : Flat(s, n, f)
<1> DEFINE T == {m \in Nat : ~ \E f : Flat(s, m, f)}
<1> SUFFICES ASSUME n \in T PROVE FALSE
  OBVIOUS
<1>1. PICK x \in T : \A y \in T : ~(y < x)
  <2> HIDE DEF T
  <2>1. T \in SUBSET Nat /\ T # {}
    BY DEF T
  <2> QED BY <2>1, LeastNumber
<1>2. CASE x = 0
  <2>1. [i \in 1..0 |-> s[i]] = [i \in 1..0 |-> IF i = 1 THEN s[i] ELSE [k \in 1..0 |-> s[k]][i - 1] \o s[i]]
    OBVIOUS
  <2> QED BY <1>2, <2>1 DEF Flat
<1>3. CASE x # 0
  <2>1. x - 1 \in Nat /\ x - 1 \notin T
    BY <1>1, <1>3
  <2>2. PICK f : Flat(s, x - 1, f)
    BY <2>1
  <2> DEFINE g == [i \in 1..x |-> IF i < x THEN f[i] ELSE IF i = 1 THEN s[i] ELSE f[i - 1] \o s[i]]
  <2>3. \A i \in 1..x : g[i] = IF i = 1 THEN s[i] ELSE g[i - 1] \o s[i]
    <3> SUFFICES ASSUME NEW i \in 1..x PROVE g[i] = IF i = 1 THEN s[i] ELSE g[i - 1] \o s[i]
      OBVIOUS
    <3>1. i # 1 => i - 1 \in 1..x /\ i - 1 < x
      BY <1>1
    <3>2. i # 1 => g[i - 1] = f[i - 1]
      BY <3>1
    <3>3. i < x => i \in 1..(x - 1) /\ f[i] = IF i = 1 THEN s[i] ELSE f[i - 1] \o s[i]
      <4>1. i < x => i \in 1..(x - 1)
        BY <1>1
      <4>2. \A j \in 1..(x - 1) : f[j] = IF j = 1 THEN s[j] ELSE f[j - 1] \o s[j]
        BY <2>2 DEF Flat
      <4> QED BY <4>1, <4>2
    <3>4. g[i] = IF i < x THEN f[i] ELSE IF i = 1 THEN s[i] ELSE f[i - 1] \o s[i]
      OBVIOUS
    <3> HIDE DEF g
    <3> QED BY <3>2, <3>3, <3>4
  <2>4. g = [i \in 1..x |-> IF i = 1 THEN s[i] ELSE g[i - 1] \o s[i]]
    <3>1. DOMAIN g = 1..x /\ g = [i \in 1..x |-> g[i]]
      OBVIOUS
    <3> HIDE DEF g
    <3> QED BY <2>3, <3>1
  <2>5. Flat(s, x, g)
    <3> HIDE DEF g
    <3> QED BY <2>4 DEF Flat
  <2> QED BY <2>5
<1> QED BY <1>2, <1>3

\* What FlattenSeq returns for every sequence of sequences.
LEMMA FlattenFacts ==
  ASSUME NEW S, NEW s \in Seq(Seq(S))
  PROVE  /\ FlattenSeq(s) \in Seq(S)
         /\ ToSet(FlattenSeq(s)) = UNION {ToSet(s[i]) : i \in DOMAIN s}
<1> DEFINE n == Len(s)
<1>0. n \in Nat /\ DOMAIN s = 1..n /\ \A i \in 1..n : s[i] \in Seq(S)
  OBVIOUS
<1>1. CASE n = 0
  <2>1. s = <<>> /\ DOMAIN s = {} /\ FlattenSeq(s) = <<>>
    BY <1>1 DEF FlattenSeq
  <2>2. ToSet(<<>>) = {} /\ <<>> \in Seq(S)
    BY DEF ToSet
  <2>3. UNION {ToSet(s[i]) : i \in DOMAIN s} = {}
    BY <2>1
  <2> QED BY <2>1, <2>2, <2>3
<1>2. CASE n > 0
  <2> DEFINE F == CHOOSE f : f = [i \in 1..n |-> IF i = 1 THEN s[i] ELSE f[i - 1] \o s[i]]
  <2>1. FlattenSeq(s) = F[n]
    BY <1>2 DEF FlattenSeq
  <2>2. F = [i \in 1..n |-> IF i = 1 THEN s[i] ELSE F[i - 1] \o s[i]]
    <3>1. \E f : f = [i \in 1..n |-> IF i = 1 THEN s[i] ELSE f[i - 1] \o s[i]]
      BY <1>0, FlatExists DEF Flat
    <3> QED BY <3>1
  <2> HIDE DEF F
  <2>3. F[1] = s[1] /\ \A i \in 2..n : F[i] = F[i - 1] \o s[i]
    <3>1. \A i \in 1..n : F[i] = IF i = 1 THEN s[i] ELSE F[i - 1] \o s[i]
      BY <2>2
    <3>2. 1 \in 1..n /\ \A i \in 2..n : i \in 1..n /\ i # 1
      BY <1>0, <1>2
    <3> HIDE DEF n
    <3> QED BY <3>1, <3>2
  <2> DEFINE Part(k) == UNION {ToSet(s[i]) : i \in 1..k}
             P(k) == F[k] \in Seq(S) /\ ToSet(F[k]) = Part(k)
             T == {k \in Nat : k \in 1..n /\ ~P(k)}
  <2>4. P(n)
    <3> SUFFICES ASSUME ~P(n) PROVE FALSE
      OBVIOUS
    <3>1. PICK x \in T : \A y \in T : ~(y < x)
      <4>1. T \in SUBSET Nat /\ n \in T
        BY <1>0, <1>2
      <4> HIDE DEF T
      <4> QED BY <4>1, LeastNumber
    <3>2. x \in 1..n /\ ~P(x)
      OBVIOUS
    <3>3. CASE x = 1
      <4>1. Part(1) = ToSet(s[1])
        OBVIOUS
      <4> HIDE DEF Part
      <4>2. P(1)
        BY <1>0, <1>2, <2>3, <4>1
      <4> QED BY <3>2, <3>3, <4>2
    <3>4. CASE x # 1
      <4>1. x - 1 \in 1..n /\ x \in 2..n /\ x - 1 < x /\ x - 1 \in Nat
        BY <1>0, <3>2, <3>4
      <4>2. P(x - 1)
        <5> HIDE DEF P
        <5> QED BY <3>1, <4>1
      <4>3. s[x] \in Seq(S) /\ F[x] = F[x - 1] \o s[x]
        BY <1>0, <2>3, <3>2, <4>1
      <4>4. Part(x) = Part(x - 1) \cup ToSet(s[x])
        <5>1. 1..x = (1..(x - 1)) \cup {x}
          BY <3>2
        <5> QED BY <5>1
      <4> HIDE DEF Part
      <4>5. P(x)
        <5>1. F[x - 1] \in Seq(S) /\ ToSet(F[x - 1]) = Part(x - 1)
          BY <4>2
        <5>2. /\ F[x - 1] \o s[x] \in Seq(S)
              /\ ToSet(F[x - 1] \o s[x]) = ToSet(F[x - 1]) \cup ToSet(s[x])
          BY <4>3, <5>1, ConcatFacts
        <5> QED BY <4>3, <4>4, <5>1, <5>2
      <4> QED BY <3>2, <4>5
    <3> QED BY <3>3, <3>4
  <2> QED BY <1>0, <2>1, <2>4
<1> QED BY <1>0, <1>1, <1>2

\* FlattenSeq of a function of positions.
LEMMA FlattenMap ==
  ASSUME NEW S, NEW n \in Nat, NEW f \in [1..n -> Seq(S)]
  PROVE  /\ FlattenSeq(f) \in Seq(S)
         /\ ToSet(FlattenSeq(f)) = UNION {ToSet(f[i]) : i \in 1..n}
<1>1. f \in Seq(Seq(S)) /\ DOMAIN f = 1..n
  OBVIOUS
<1> QED BY <1>1, FlattenFacts
-----------------------------------------------------------------------------
(* Averages.                                                               *)

\* f[i] is the sum of the times of the first i of m requests.
Sums(r, m, f) == f = [i \in 0..m |-> IF i = 0 THEN 0 ELSE f[i - 1] + r[i].time]

\* There are sums for every number of requests.
LEMMA SumsExist ==
  ASSUME NEW r, NEW n \in Nat
  PROVE  \E f : Sums(r, n, f)
<1> DEFINE T == {m \in Nat : ~ \E f : Sums(r, m, f)}
<1> SUFFICES ASSUME n \in T PROVE FALSE
  OBVIOUS
<1>1. PICK x \in T : \A y \in T : ~(y < x)
  <2> HIDE DEF T
  <2>1. T \in SUBSET Nat /\ T # {}
    BY DEF T
  <2> QED BY <2>1, LeastNumber
<1>2. CASE x = 0
  <2> DEFINE z == [i \in 0..0 |-> 0]
  <2>1. z = [i \in 0..0 |-> IF i = 0 THEN 0 ELSE z[i - 1] + r[i].time]
    OBVIOUS
  <2>2. Sums(r, 0, z)
    <3> HIDE DEF z
    <3> QED BY <2>1 DEF Sums
  <2> QED BY <1>2, <2>2
<1>3. CASE x # 0
  <2>1. x - 1 \in Nat /\ x - 1 \notin T
    BY <1>1, <1>3
  <2>2. PICK f : Sums(r, x - 1, f)
    BY <2>1
  <2> DEFINE g == [i \in 0..x |-> IF i < x THEN f[i] ELSE f[i - 1] + r[i].time]
  <2>3. \A i \in 0..x : g[i] = IF i = 0 THEN 0 ELSE g[i - 1] + r[i].time
    <3> SUFFICES ASSUME NEW i \in 0..x
                 PROVE  g[i] = IF i = 0 THEN 0 ELSE g[i - 1] + r[i].time
      OBVIOUS
    <3>1. i # 0 => g[i - 1] = f[i - 1]
      BY <1>1
    <3>2. i < x => f[i] = IF i = 0 THEN 0 ELSE f[i - 1] + r[i].time
      <4>1. i < x => i \in 0..(x - 1)
        BY <1>1
      <4>2. \A j \in 0..(x - 1) : f[j] = IF j = 0 THEN 0 ELSE f[j - 1] + r[j].time
        BY <2>2 DEF Sums
      <4> QED BY <4>1, <4>2
    <3>3. g[i] = IF i < x THEN f[i] ELSE f[i - 1] + r[i].time
      OBVIOUS
    <3>4. ~(i < x) => i # 0
      BY <1>1, <1>3
    <3> HIDE DEF g
    <3> QED BY <3>1, <3>2, <3>3, <3>4
  <2>4. Sums(r, x, g)
    <3>1. g = [i \in 0..x |-> g[i]]
      OBVIOUS
    <3> HIDE DEF g
    <3> QED BY <2>3, <3>1 DEF Sums
  <2> QED BY <2>4
<1> QED BY <1>2, <1>3

\* The average of natural numbers is one.
LEMMA AverageIsNat ==
  ASSUME NEW r, NEW n \in Nat \ {0}, r = [i \in 1..n |-> r[i]],
         \A i \in 1..n : r[i].time \in Nat
  PROVE  Average(r) \in Nat
<1> DEFINE F == CHOOSE f : f = [i \in 0..n |-> IF i = 0 THEN 0 ELSE f[i - 1] + r[i].time]
<1>1. Len(r) = n
  <2> DEFINE g == [i \in 1..n |-> r[i]]
  <2>1. Len(g) = n
    OBVIOUS
  <2>2. r = g
    OBVIOUS
  <2> HIDE DEF g
  <2> QED BY <2>1, <2>2
<1>2. Average(r) = F[n] \div n
  BY <1>1 DEF Average
<1>3. F = [i \in 0..n |-> IF i = 0 THEN 0 ELSE F[i - 1] + r[i].time]
  <2>1. \E f : f = [i \in 0..n |-> IF i = 0 THEN 0 ELSE f[i - 1] + r[i].time]
    BY SumsExist DEF Sums
  <2> QED BY <2>1
<1> HIDE DEF F
<1>4. F[0] = 0 /\ \A i \in 1..n : F[i] = F[i - 1] + r[i].time
  <2>1. \A i \in 0..n : F[i] = IF i = 0 THEN 0 ELSE F[i - 1] + r[i].time
    BY <1>3
  <2>2. 0 \in 0..n /\ \A i \in 1..n : i \in 0..n /\ i # 0
    OBVIOUS
  <2> QED BY <2>1, <2>2
<1> DEFINE T == {k \in Nat : k <= n /\ F[k] \notin Nat}
<1>5. F[n] \in Nat
  <2> SUFFICES ASSUME F[n] \notin Nat PROVE FALSE
    OBVIOUS
  <2>1. PICK x \in T : \A y \in T : ~(y < x)
    <3>1. T \in SUBSET Nat /\ n \in T
      OBVIOUS
    <3> HIDE DEF T
    <3> QED BY <3>1, LeastNumber
  <2>2. x # 0
    BY <1>4
  <2>3. x - 1 \in Nat /\ x \in 1..n /\ x - 1 \notin T
    BY <2>1, <2>2
  <2>4. F[x - 1] \in Nat /\ r[x].time \in Nat
    BY <2>3
  <2> QED BY <1>4, <2>3, <2>4
<1> QED BY <1>2, <1>5
-----------------------------------------------------------------------------
(* Texts.                                                                  *)

\* The first position that passes a test.
LEMMA FirstPosition ==
  ASSUME NEW n \in Nat, NEW I \in SUBSET (1..n), I # {}
  PROVE  Min(I) \in I /\ \A i \in I : Min(I) <= i
<1>1. I \in SUBSET Nat
  OBVIOUS
<1>2. PICK x \in I : \A y \in I : ~(y < x)
  BY <1>1, LeastNumber
<1>3. \A y \in I : x <= y
  BY <1>1, <1>2
<1> QED BY <1>3 DEF Min

\* A text in lower case is a text of the same length.
LEMMA LowerFacts ==
  ASSUME NEW s \in Text
  PROVE  /\ Lower(s) \in Text /\ Len(Lower(s)) = Len(s) /\ DOMAIN Lower(s) = DOMAIN s
         /\ \A i \in DOMAIN s : Lower(s)[i] = Nul <=> s[i] = Nul
<1>1. s \in Seq(Symbol) /\ Len(s) \in Nat /\ DOMAIN s = 1..Len(s)
  BY DEF Text
<1>2. \A c \in DOMAIN Upper : Upper[c] \in Symbol
  BY SymbolAssumption
<1>3. Nul \notin DOMAIN Upper /\ \A c \in DOMAIN Upper : Upper[c] # Nul
  BY DEF Upper, Nul
<1> DEFINE l == [i \in 1..Len(s) |-> IF s[i] \in DOMAIN Upper THEN Upper[s[i]] ELSE s[i]]
<1>4. Lower(s) = l
  BY <1>1 DEF Lower
<1>5. \A i \in 1..Len(s) : s[i] \in Symbol
  BY <1>1
<1>6. l \in Seq(Symbol) /\ Len(l) = Len(s) /\ DOMAIN l = 1..Len(s)
  BY <1>1, <1>2, <1>5
<1>7. \A i \in 1..Len(s) : l[i] = Nul <=> s[i] = Nul
  BY <1>3
<1> HIDE DEF l
<1> QED BY <1>1, <1>4, <1>6, <1>7 DEF Text

\* The C string of a text is the text up to its first Nul.
LEMMA CStringOf ==
  ASSUME NEW s \in Text
  PROVE  \E n \in 0..Len(s) :
           /\ CString(s) = SubSeq(s, 1, n)
           /\ n < Len(s) => s[n + 1] = Nul
           /\ \A i \in 1..n : s[i] # Nul
<1>1. s \in Seq(Symbol) /\ Len(s) \in Nat /\ DOMAIN s = 1..Len(s)
  BY DEF Text
<1> DEFINE I == {i \in 1..Len(s) : s[i] = Nul}
<1>2. CString(s) = LET end == IF I # {} THEN Min(I) ELSE 0
                   IN  IF end = 0 THEN s ELSE SubSeq(s, 1, end - 1)
  BY DEF CString, SelectInSeq
<1>3. CASE I = {}
  <2>1. CString(s) = s /\ s = SubSeq(s, 1, Len(s)) /\ \A i \in 1..Len(s) : s[i] # Nul
    BY <1>1, <1>2, <1>3
  <2>2. Len(s) \in 0..Len(s)
    BY <1>1
  <2>3. ~(Len(s) < Len(s)) /\ CString(s) = SubSeq(s, 1, Len(s))
    BY <1>1, <2>1
  <2> HIDE DEF I
  <2> QED BY <2>1, <2>2, <2>3
<1>4. CASE I # {}
  <2>1. PICK m \in 1..Len(s) : m = Min(I) /\ m \in I /\ \A i \in I : m <= i
    <3>1. I \in SUBSET (1..Len(s))
      OBVIOUS
    <3> HIDE DEF I
    <3>2. Min(I) \in I /\ \A i \in I : Min(I) <= i
      BY <1>1, <1>4, <3>1, FirstPosition
    <3> QED BY <3>1, <3>2
  <2>2. CString(s) = SubSeq(s, 1, m - 1)
    <3>1. m # 0
      BY <1>1
    <3> HIDE DEF I
    <3> QED BY <1>2, <1>4, <2>1, <3>1
  <2>3. m - 1 \in 0..Len(s) /\ (m - 1) + 1 = m
    BY <1>1
  <2>4. \A i \in 1..(m - 1) : s[i] # Nul
    <3> SUFFICES ASSUME NEW i \in 1..(m - 1), s[i] = Nul PROVE FALSE
      OBVIOUS
    <3>1. i \in I /\ i < m
      BY <1>1
    <3> QED BY <2>1, <3>1
  <2> QED BY <2>1, <2>2, <2>3, <2>4
<1> QED BY <1>3, <1>4

\* It does not matter whether a text is put in lower case before or after.
LEMMA LowerCString ==
  ASSUME NEW s \in Text
  PROVE  CString(s) \in Text /\ CString(Lower(s)) = Lower(CString(s))
<1>1. s \in Seq(Symbol) /\ Len(s) \in Nat /\ DOMAIN s = 1..Len(s)
  BY DEF Text
<1>2. /\ Lower(s) \in Text /\ Len(Lower(s)) = Len(s) /\ DOMAIN Lower(s) = DOMAIN s
      /\ \A i \in DOMAIN s : Lower(s)[i] = Nul <=> s[i] = Nul
  BY LowerFacts
<1>3. PICK m \in 0..Len(s) : /\ CString(s) = SubSeq(s, 1, m)
                             /\ m < Len(s) => s[m + 1] = Nul
                             /\ \A i \in 1..m : s[i] # Nul
  BY CStringOf
<1>4. PICK n \in 0..Len(s) : /\ CString(Lower(s)) = SubSeq(Lower(s), 1, n)
                             /\ n < Len(s) => Lower(s)[n + 1] = Nul
                             /\ \A i \in 1..n : Lower(s)[i] # Nul
  BY <1>2, CStringOf
<1>5. m = n
  <2>1. ~(m < n)
    BY <1>1, <1>2, <1>3, <1>4
  <2>2. ~(n < m)
    BY <1>1, <1>2, <1>3, <1>4
  <2> QED BY <2>1, <2>2
<1>6. CString(s) \in Seq(Symbol) /\ Len(CString(s)) = m /\ \A i \in 1..m : CString(s)[i] = s[i]
  BY <1>1, <1>3
<1>7. /\ Lower(s) \in Seq(Symbol) /\ SubSeq(Lower(s), 1, m) \in Seq(Symbol)
      /\ Len(SubSeq(Lower(s), 1, m)) = m
      /\ \A i \in 1..m : SubSeq(Lower(s), 1, m)[i] = Lower(s)[i]
  BY <1>1, <1>2 DEF Text
<1>8. \A i \in 1..m : Lower(CString(s))[i] = Lower(s)[i]
  <2>1. \A i \in 1..m : i \in DOMAIN s /\ i \in DOMAIN CString(s)
    BY <1>1, <1>6
  <2> QED BY <1>6, <2>1 DEF Lower
<1>9. Lower(CString(s)) \in Seq(Symbol) /\ Len(Lower(CString(s))) = m
  BY <1>6, LowerFacts DEF Text
<1>10. Lower(CString(s)) = SubSeq(Lower(s), 1, m)
  <2> DEFINE a == Lower(CString(s))
             b == SubSeq(Lower(s), 1, m)
  <2>1. /\ a \in Seq(Symbol) /\ b \in Seq(Symbol) /\ Len(a) = m /\ Len(b) = m
        /\ \A i \in 1..m : a[i] = b[i]
    BY <1>7, <1>8, <1>9
  <2> HIDE DEF a, b
  <2>2. a = b
    BY <2>1
  <2> QED BY <2>2 DEF a, b
<1> QED BY <1>4, <1>5, <1>6, <1>10 DEF Text
-----------------------------------------------------------------------------
(* Matching: the matchers decide what the rules say.                       *)

\* A text begins another one, or is equal to it, when it occurs at its start.
LEMMA AtStart ==
  ASSUME NEW c \in Text, NEW v \in Text
  PROVE  /\ 1 \in 1..(Len(c) + 1)
         /\ IsPrefix(v, c) <=> StartsAt(c, 1, v)
         /\ c = v <=> StartsAt(c, 1, v) /\ Len(v) = Len(c)
<1>1. /\ c \in Seq(Symbol) /\ v \in Seq(Symbol) /\ Len(c) \in Nat /\ Len(v) \in Nat
      /\ SubSeq(v, 1, Len(v)) = v /\ SubSeq(c, 1, Len(c)) = c /\ 1 + Len(v) - 1 = Len(v)
  BY DEF Text
<1>2. StartsAt(c, 1, v) <=> Len(v) <= Len(c) /\ SubSeq(c, 1, Len(v)) = v
  BY <1>1 DEF StartsAt
<1>3. IsPrefix(v, c) <=> StartsAt(c, 1, v)
  BY <1>1, <1>2 DEF IsPrefix
<1>4. c = v <=> StartsAt(c, 1, v) /\ Len(v) = Len(c)
  <2>1. ASSUME c = v PROVE StartsAt(c, 1, v) /\ Len(v) = Len(c)
    <3>1. Len(v) = Len(c) /\ Len(v) <= Len(c) /\ SubSeq(c, 1, Len(v)) = v
      BY <1>1, <2>1
    <3> QED BY <1>2, <3>1
  <2>2. ASSUME StartsAt(c, 1, v), Len(v) = Len(c) PROVE c = v
    BY <1>1, <1>2, <2>2
  <2> QED BY <2>1, <2>2
<1>5. 1 \in 1..(Len(c) + 1)
  BY <1>1
<1> QED BY <1>3, <1>4, <1>5

\* One value of a matcher, for any method but TIMING.
LEMMA ValueOccurs ==
  ASSUME NEW match \in MatchRule, match.method \in StringMethod \cup {"REGEX"},
         NEW value \in Text, NEW text \in Text,
         NEW v, v = Folded(match, value),
         NEW c, c = IF match.method = "REGEX" THEN Folded(match, text)
                    ELSE CString(Folded(match, text))
  PROVE  MatchSingleValue(match, value, text) <=>
           \E from \in 1..(Len(c) + 1) :
             /\ StartsAt(c, from, v)
             /\ match.method \in {"PREFIX", "EQUALS"} => from = 1
             /\ match.method = "EQUALS" => Len(v) = Len(c)
<1>1. v \in Text /\ Folded(match, text) \in Text
  BY LowerFacts DEF Folded
<1>2. c \in Text
  BY <1>1, LowerCString
<1>3. match.method # "REGEX" => c = Folded(match, CString(text))
  BY LowerCString DEF Folded
<1>4. CASE match.method = "CONTAINS"
  <2>1. MatchSingleValue(match, value, text) <=> Find(c, v)
    BY <1>3, <1>4 DEF MatchSingleValue
  <2> QED BY <1>4, <2>1 DEF Find
<1>5. CASE match.method = "REGEX"
  <2>1. MatchSingleValue(match, value, text) <=> Find(c, v)
    BY <1>5 DEF MatchSingleValue, PartialMatch
  <2> QED BY <1>5, <2>1 DEF Find
<1>6. CASE match.method = "EQUALS"
  <2>1. MatchSingleValue(match, value, text) <=> c = v
    BY <1>3, <1>6 DEF MatchSingleValue
  <2> QED BY <1>1, <1>2, <1>6, <2>1, AtStart
<1>7. CASE match.method = "PREFIX"
  <2>1. MatchSingleValue(match, value, text) <=> IsPrefix(v, c)
    BY <1>3, <1>7 DEF MatchSingleValue
  <2> QED BY <1>1, <1>2, <1>7, <2>1, AtStart
<1> QED BY <1>4, <1>5, <1>6, <1>7 DEF StringMethod

\* A matcher that was prepared.
LEMMA MatchOccurs ==
  ASSUME NEW match \in MatchRule, Prepare(match), NEW text \in Text,
         NEW req, req.time \in Nat, NEW averages, NEW average \in Nat,
         average = IF req.parent_id \in DOMAIN averages THEN averages[req.parent_id] ELSE 0
  PROVE  MatchAny(match, req, text, averages) <=> Occurs(match, req, Present(text), average)
<1>0. /\ match.min \in Nat /\ match.max \in Nat /\ match.value \in Seq(Text)
      /\ Present(text).text = text
  BY DEF MatchRule, Present
<1>1. CASE match.method = "TIMING"
  <2>1. /\ MatchAny(match, req, text, averages) <=>
             match.min + average < req.time /\ req.time < match.max + average
        /\ Occurs(match, req, Present(text), average) <=>
             req.time - average > match.min /\ req.time - average < match.max
    BY <1>1 DEF MatchAny, TimingMatchAny, Occurs
  <2> QED BY <1>0, <2>1
<1>2. CASE match.method # "TIMING"
  <2>1. match.method \in StringMethod \cup {"REGEX"}
    BY <1>2 DEF Prepare
  <2>2. \A i \in DOMAIN match.value : match.value[i] \in Text
    BY <1>0
  <2> DEFINE c == IF match.method = "REGEX" THEN Folded(match, text)
                  ELSE CString(Folded(match, text))
             O(i) == \E from \in 1..(Len(c) + 1) :
                       /\ StartsAt(c, from, Folded(match, match.value[i]))
                       /\ match.method \in {"PREFIX", "EQUALS"} => from = 1
                       /\ match.method = "EQUALS" => Len(Folded(match, match.value[i])) = Len(c)
  <2>3. MatchAny(match, req, text, averages) <=>
          \E i \in DOMAIN match.value : MatchSingleValue(match, match.value[i], text)
    BY <1>2 DEF MatchAny
  <2>4. Occurs(match, req, Present(text), average) <=> \E i \in DOMAIN match.value : O(i)
    BY <1>0, <1>2 DEF Occurs
  <2>5. \A i \in DOMAIN match.value : MatchSingleValue(match, match.value[i], text) <=> O(i)
    BY <2>1, <2>2, ValueOccurs
  <2> HIDE DEF O
  <2> QED BY <2>3, <2>4, <2>5
<1> QED BY <1>1, <1>2

\* What a matcher looks at.
IsAnswered(req) ==
  /\ req.url \in Text /\ req.time \in Nat /\ req.response.ok = TRUE
  /\ req.response.headers \in Seq(HeaderField) /\ req.response.body \in Text

\* A header that is found has a text.
LEMMA HeaderText ==
  ASSUME NEW headers \in Seq(HeaderField), NEW name, GetHeader(headers, name) # NoHeader
  PROVE  GetHeader(headers, name).value \in Text
<1> DEFINE I == {i \in 1..Len(headers) : IsPrefix(name, headers[i].name)}
<1>1. I # {} /\ GetHeader(headers, name) = headers[Min(I)]
  <2>1. GetHeader(headers, name) = LET i == IF I # {} THEN Min(I) ELSE 0
                                   IN  IF i = 0 THEN NoHeader ELSE headers[i]
    BY DEF GetHeader, SelectInSeq
  <2> HIDE DEF I
  <2> QED BY <2>1
<1>2. Min(I) \in I
  <2>1. I \in SUBSET (1..Len(headers)) /\ Len(headers) \in Nat
    OBVIOUS
  <2> HIDE DEF I
  <2> QED BY <1>1, <2>1, FirstPosition
<1>3. headers[Min(I)] \in HeaderField
  <2>1. \A i \in 1..Len(headers) : headers[i] \in HeaderField
    OBVIOUS
  <2> QED BY <1>2, <2>1
<1> QED BY <1>1, <1>3 DEF HeaderField

\* A rule whose conditions on headers do not mix negative and positive matches.
LEMMA RulesDecide ==
  ASSUME NEW rule \in SUBSET Condition, RuleIsValid(rule),
         \A c \in rule : \A i, j \in DOMAIN c.match :
           c.target = "RESPONSE_HEADER_VALUE" => c.match[i].negative = c.match[j].negative,
         NEW req, IsAnswered(req), NEW averages, NEW average \in Nat,
         average = IF req.parent_id \in DOMAIN averages THEN averages[req.parent_id] ELSE 0
  PROVE  MatchSingle(rule, req, averages) <=> Satisfied(rule, req, average)
<1> DEFINE Says(c) == \A i \in DOMAIN c.match :
             (~SearchString(c, req).missing
                /\ Occurs(c.match[i], req, SearchString(c, req), average)) # c.match[i].negative
<1>1. ASSUME NEW c \in rule, c.target \in ImplementedTarget
      PROVE  ConditionMatch(c.match, req, SearchString(c, req), averages) <=> Says(c)
  <2>0. /\ c.match \in Seq(MatchRule) /\ \A i \in DOMAIN c.match : Prepare(c.match[i])
        /\ \A i \in DOMAIN c.match : c.match[i] \in MatchRule /\ c.match[i].negative \in BOOLEAN
    <3>1. c.match \in Seq(MatchRule)
      BY DEF Condition
    <3>2. \A i \in DOMAIN c.match : Prepare(c.match[i])
      BY DEF RuleIsValid
    <3>3. \A i \in DOMAIN c.match : c.match[i] \in MatchRule
      BY <3>1
    <3>4. \A m \in MatchRule : m.negative \in BOOLEAN
      BY DEF MatchRule
    <3> QED BY <3>1, <3>2, <3>3, <3>4
  <2>1. \/ SearchString(c, req) = NoText /\ c.target = "RESPONSE_HEADER_VALUE"
        \/ \E t \in Text : SearchString(c, req) = Present(t)
    <3>1. CASE c.target = "RESPONSE_BODY"
      BY <3>1 DEF SearchString, IsAnswered
    <3>2. CASE c.target = "REQUEST_URL"
      BY <3>2 DEF SearchString, IsAnswered
    <3>3. CASE c.target = "RESPONSE_HEADER_VALUE"
      BY <3>3, HeaderText DEF SearchString, IsAnswered
    <3> QED BY <1>1, <3>1, <3>2, <3>3 DEF ImplementedTarget
  <2>2. CASE SearchString(c, req) = NoText /\ c.target = "RESPONSE_HEADER_VALUE"
    <3>1. SearchString(c, req).missing = TRUE
      BY <2>2 DEF NoText
    <3>2. ConditionMatch(c.match, req, SearchString(c, req), averages) <=>
            c.match = <<>> \/ c.match[1].negative
      BY <3>1 DEF ConditionMatch
    <3>3. Says(c) <=> \A i \in DOMAIN c.match : c.match[i].negative = TRUE
      BY <2>0, <3>1
    <3>4. c.match = <<>> => DOMAIN c.match = {}
      BY <2>0
    <3>5. c.match # <<>> => 1 \in DOMAIN c.match
      BY <2>0
    <3>6. \A i, j \in DOMAIN c.match : c.match[i].negative = c.match[j].negative
      BY <2>2
    <3> QED BY <2>0, <3>2, <3>3, <3>4, <3>5, <3>6
  <2>3. ASSUME NEW t \in Text, SearchString(c, req) = Present(t)
        PROVE  ConditionMatch(c.match, req, SearchString(c, req), averages) <=> Says(c)
    <3>1. SearchString(c, req).missing = FALSE /\ SearchString(c, req).text = t
      BY <2>3 DEF Present
    <3>2. ConditionMatch(c.match, req, SearchString(c, req), averages) <=>
            \A i \in DOMAIN c.match : MatchAny(c.match[i], req, t, averages) # c.match[i].negative
      BY <3>1 DEF ConditionMatch
    <3>3. \A i \in DOMAIN c.match :
            MatchAny(c.match[i], req, t, averages) <=>
              Occurs(c.match[i], req, SearchString(c, req), average)
      BY <2>0, <2>3, MatchOccurs DEF IsAnswered
    <3>4. \A i \in DOMAIN c.match :
            (MatchAny(c.match[i], req, t, averages) # c.match[i].negative) <=>
            ((~SearchString(c, req).missing
                /\ Occurs(c.match[i], req, SearchString(c, req), average)) # c.match[i].negative)
      <4> SUFFICES ASSUME NEW i \in DOMAIN c.match
                   PROVE  (MatchAny(c.match[i], req, t, averages) # c.match[i].negative) <=>
            ((~SearchString(c, req).missing
                /\ Occurs(c.match[i], req, SearchString(c, req), average)) # c.match[i].negative)
        OBVIOUS
      <4>1. MatchAny(c.match[i], req, t, averages) \in BOOLEAN
        BY DEF MatchAny, TimingMatchAny
      <4>2. Occurs(c.match[i], req, SearchString(c, req), average) \in BOOLEAN
        BY DEF Occurs
      <4> QED BY <3>1, <3>3, <4>1, <4>2
    <3> QED BY <3>2, <3>4
  <2> QED BY <2>1, <2>2, <2>3
<1>2. Satisfied(rule, req, average) <=>
        req.response.ok /\ \A c \in rule : c.target \in ImplementedTarget /\ Says(c)
  BY DEF Satisfied
<1> HIDE DEF Says
<1> QED BY <1>1, <1>2 DEF MatchSingle

\* A request that no average is known for is judged by itself.
LEMMA MatchAlone ==
  ASSUME NEW rule, NEW req, NEW m1, NEW m2,
         req.parent_id \notin DOMAIN m1, req.parent_id \notin DOMAIN m2
  PROVE  MatchSingle(rule, req, m1) <=> MatchSingle(rule, req, m2)
<1>1. \A match, text : MatchAny(match, req, text, m1) = MatchAny(match, req, text, m2)
  BY DEF MatchAny, TimingMatchAny
<1>2. \A match, content :
        ConditionMatch(match, req, content, m1) <=> ConditionMatch(match, req, content, m2)
  BY <1>1 DEF ConditionMatch
<1> QED BY <1>2 DEF MatchSingle

-----------------------------------------------------------------------------
(* The texts of requests.                                                  *)

\* The URL of a message is a text.
LEMMA UrlIsText ==
  ASSUME NEW proto, IsMessage(proto)
  PROVE  UrlText(proto) \in Text
<1>1. proto.host \in Text /\ proto.path \in Seq(RequestField) /\ proto.param \in Seq(RequestField)
  <2>1. "path" \in FieldType /\ "param" \in FieldType
    BY DEF FieldType
  <2> QED BY <2>1 DEF IsMessage
<1>2. \A f \in RequestField : f.name \in Text /\ f.value \in Text
  BY DEF RequestField
<1>3. <<"=">> \in Text /\ <<"&">> \in Text /\ <<"?">> \in Text /\ <<>> \in Text
  BY SymbolAssumption DEF Text
<1>4. \A s, t \in Text : s \o t \in Text
  BY DEF Text
<1>5. PathText(proto.path) \in Text
  <2> DEFINE n == Len(proto.path)
             F == [i \in 1..n |-> proto.path[i].name \o proto.path[i].value]
  <2>1. n \in Nat /\ DOMAIN proto.path = 1..n /\ \A i \in 1..n : proto.path[i] \in RequestField
    BY <1>1
  <2>2. F \in [1..n -> Seq(Symbol)]
    BY <1>2, <1>4, <2>1 DEF Text
  <2>3. PathText(proto.path) = FlattenSeq(F)
    BY <2>1 DEF PathText
  <2> HIDE DEF F, n
  <2> QED BY <2>1, <2>2, <2>3, FlattenMap DEF Text
<1>6. ASSUME proto.param # <<>> PROVE QueryText(proto.param) \in Text
  <2> DEFINE n == Len(proto.param)
             Pair(f) == IF f.has_value THEN f.name \o <<"=">> \o f.value ELSE f.name
             F == [i \in 1..n |-> (IF i = 1 THEN <<>> ELSE <<"&">>) \o Pair(proto.param[i])]
  <2>1. n \in Nat /\ DOMAIN proto.param = 1..n /\ \A i \in 1..n : proto.param[i] \in RequestField
    BY <1>1
  <2>2. \A f \in RequestField : Pair(f) \in Text
    BY <1>2, <1>3, <1>4
  <2>3. QueryText(proto.param) = FlattenSeq(F)
    BY <1>6, <2>1 DEF QueryText
  <2> HIDE DEF n, Pair
  <2>4. F \in [1..n -> Seq(Symbol)]
    BY <1>3, <1>4, <2>1, <2>2 DEF Text
  <2> HIDE DEF F
  <2> QED BY <2>1, <2>3, <2>4, FlattenMap DEF Text
<1>7. proto.param = <<>> => QueryText(proto.param) = NoQuery
  BY DEF QueryText
<1> DEFINE h == proto.host
           p == PathText(proto.path)
           q == QueryText(proto.param)
<1>8. UrlText(proto) = h \o p \o (IF q = NoQuery THEN <<>> ELSE <<"?">> \o q)
  BY DEF UrlText, build_url
<1>9. h \in Text /\ p \in Text /\ (q # NoQuery => q \in Text)
  BY <1>1, <1>5, <1>6, <1>7
<1> HIDE DEF h, p, q
<1>10. (IF q = NoQuery THEN <<>> ELSE <<"?">> \o q) \in Text
  BY <1>3, <1>4, <1>9
<1> QED BY <1>4, <1>8, <1>9, <1>10

\* A payload is a text, whatever is done to it.
LEMMA PayloadIsText ==
  ASSUME NEW original \in Text, NEW payload \in Text, NEW method, NEW encoding
  PROVE  GeneratePayloadString(original, payload, method, encoding) \in Text
<1> DEFINE s == Injected(original, payload, method)
           n == Len(s)
<1>1. s \in Text
  BY DEF Injected, Text
<1>2. n \in Nat /\ DOMAIN s = 1..n /\ \A i \in 1..n : s[i] \in Symbol
  BY <1>1 DEF Text
<1>3. EscapeHtml(s) \in Text
  <2>1. \A c \in DOMAIN Entity : Entity[c] \in Symbol
    BY SymbolAssumption
  <2> DEFINE F == [i \in 1..n |-> IF s[i] \in DOMAIN Entity THEN Entity[s[i]] ELSE s[i]]
  <2>2. F \in Seq(Symbol)
    <3> HIDE DEF s, n
    <3> QED BY <1>2, <2>1
  <2>3. EscapeHtml(s) = F
    BY <1>2 DEF EscapeHtml
  <2> QED BY <2>2, <2>3 DEF Text
<1>4. encode_url_token(s) \in Text
  <2> DEFINE F == [i \in 1..n |-> IF s[i] \in Special \ kUrlEncodeIgnoreChars
                                  THEN <<"%", s[i]>> ELSE <<s[i]>>]
  <2>1. encode_url_token(s) = FlattenSeq(F)
    BY <1>2 DEF encode_url_token
  <2>2. F \in [1..n -> Seq(Symbol)]
    <3> HIDE DEF s, n
    <3>1. "%" \in Symbol
      BY SymbolAssumption
    <3>2. \A i \in 1..n : <<"%", s[i]>> \in Seq(Symbol) /\ <<s[i]>> \in Seq(Symbol)
      BY <1>2, <3>1
    <3> QED BY <3>2
  <2> HIDE DEF s, n, F
  <2> QED BY <1>2, <2>1, <2>2, FlattenMap DEF Text
<1>5. \/ GeneratePayloadString(original, payload, method, encoding) = s
      \/ GeneratePayloadString(original, payload, method, encoding) = EscapeHtml(s)
      \/ GeneratePayloadString(original, payload, method, encoding) = encode_url_token(s)
  BY DEF GeneratePayloadString
<1> QED BY <1>1, <1>3, <1>4, <1>5
-----------------------------------------------------------------------------
(* GenericGenerator.                                                       *)

\* The elements of a sequence that is given by position.
LEMMA MapFacts ==
  ASSUME NEW S, NEW n \in Nat, NEW f \in [1..n -> S]
  PROVE  f \in Seq(S) /\ Len(f) = n /\ DOMAIN f = 1..n /\ ToSet(f) = {f[i] : i \in 1..n}
BY DEF ToSet

\* The three loops go through all combinations.
LEMMA PayloadFacts ==
  ASSUME NEW rule \in GeneratorRule, NEW original \in Text
  PROVE  /\ PayloadStrings(rule, original) \in Seq(Text)
         /\ ToSet(PayloadStrings(rule, original)) =
              {GeneratePayloadString(original, p, m, e) :
                 p \in ToSet(rule.payload), m \in ToSet(rule.method), e \in ToSet(rule.encoding)}
<1> DEFINE P == rule.payload
           M == rule.method
           E == rule.encoding
           np == Len(P)
           nm == Len(M)
           ne == Len(E)
           T(m, e) == [p \in DOMAIN P |-> GeneratePayloadString(original, P[p], m, e)]
           B(m) == [e \in DOMAIN E |-> T(m, E[e])]
           A == [m \in DOMAIN M |-> FlattenSeq(B(M[m]))]
<1>1. PayloadStrings(rule, original) = FlattenSeq(A)
  BY DEF PayloadStrings
<1>2. /\ P \in Seq(Text) /\ M \in Seq(STRING) /\ E \in Seq(STRING)
      /\ np \in Nat /\ DOMAIN P = 1..np /\ \A p \in DOMAIN P : P[p] \in Text
      /\ nm \in Nat /\ DOMAIN M = 1..nm /\ ne \in Nat /\ DOMAIN E = 1..ne
  BY DEF GeneratorRule
<1>3. /\ ToSet(P) = {P[p] : p \in DOMAIN P} /\ ToSet(M) = {M[m] : m \in DOMAIN M}
      /\ ToSet(E) = {E[e] : e \in DOMAIN E}
  BY DEF ToSet
<1> HIDE DEF P, M, E, np, nm, ne
<1>4. \A m, e : /\ T(m, e) \in Seq(Text)
                /\ ToSet(T(m, e)) = {GeneratePayloadString(original, p, m, e) : p \in ToSet(P)}
  <2> TAKE m, e
  <2> DEFINE t == T(m, e)
  <2>1. /\ t \in [1..np -> Text]
        /\ \A p \in 1..np : t[p] = GeneratePayloadString(original, P[p], m, e)
    BY <1>2, PayloadIsText
  <2> HIDE DEF t
  <2>2. t \in Seq(Text) /\ ToSet(t) = {t[p] : p \in 1..np}
    BY <1>2, <2>1, MapFacts
  <2>3. ToSet(t) = {GeneratePayloadString(original, p, m, e) : p \in ToSet(P)}
    BY <1>2, <1>3, <2>1, <2>2
  <2> QED BY <2>2, <2>3 DEF t
<1> HIDE DEF T
<1>5. \A m : /\ FlattenSeq(B(m)) \in Seq(Text)
             /\ ToSet(FlattenSeq(B(m))) = UNION {ToSet(T(m, e)) : e \in ToSet(E)}
  <2> TAKE m
  <2> DEFINE b == B(m)
  <2>1. /\ b \in [1..ne -> Seq(Text)]
        /\ \A e \in 1..ne : b[e] = T(m, E[e])
    BY <1>2, <1>4
  <2> HIDE DEF b
  <2>2. /\ FlattenSeq(b) \in Seq(Text)
        /\ ToSet(FlattenSeq(b)) = UNION {ToSet(b[e]) : e \in 1..ne}
    <3>1. ne \in Nat /\ b \in [1..ne -> Seq(Text)]
      BY <1>2, <2>1
    <3> QED BY <3>1, FlattenMap
  <2>3. ToSet(FlattenSeq(b)) = UNION {ToSet(T(m, e)) : e \in ToSet(E)}
    BY <1>2, <1>3, <2>1, <2>2
  <2> QED BY <2>2, <2>3 DEF b
<1> HIDE DEF B
<1>6. /\ FlattenSeq(A) \in Seq(Text)
      /\ ToSet(FlattenSeq(A)) = UNION {ToSet(FlattenSeq(B(m))) : m \in ToSet(M)}
  <2>1. /\ A \in [1..nm -> Seq(Text)]
        /\ \A m \in 1..nm : A[m] = FlattenSeq(B(M[m]))
    BY <1>2, <1>5
  <2> HIDE DEF A
  <2>2. /\ FlattenSeq(A) \in Seq(Text)
        /\ ToSet(FlattenSeq(A)) = UNION {ToSet(A[m]) : m \in 1..nm}
    <3>1. nm \in Nat /\ A \in [1..nm -> Seq(Text)]
      BY <1>2, <2>1
    <3> QED BY <3>1, FlattenMap
  <2>3. ToSet(FlattenSeq(A)) = UNION {ToSet(FlattenSeq(B(m))) : m \in ToSet(M)}
    BY <1>2, <1>3, <2>1, <2>2
  <2> QED BY <2>2, <2>3
<1>7. ToSet(FlattenSeq(A)) = {GeneratePayloadString(original, p, m, e) :
                                p \in ToSet(P), m \in ToSet(M), e \in ToSet(E)}
  <2> HIDE DEF A
  <2> QED BY <1>4, <1>5, <1>6
<1> QED BY <1>1, <1>6, <1>7 DEF P, M, E

\* What becomes of a field that is changed and restored.
Kept(f, g) == SameField(f, g) \/ GainsEmptyValue(f, g)

\* x says what base says, but for the value v of one field.
Injects(base, type, i, v, x) ==
  /\ IsMessage(x)
  /\ \A t \in FieldType : DOMAIN x[t] = DOMAIN base[t]
  /\ \A t \in FieldType \ {type} : x[t] = base[t]
  /\ \A k \in DOMAIN base[type] \ {i} :
       Kept(x[type][k], base[type][k]) /\ x[type][k].modified = base[type][k].modified
  /\ x[type][i].modified = TRUE /\ x[type][i].value = v
  /\ x[type][i].name = base[type][i].name

\* The request with value v for field i.
Made(base, type, targets, i, v, rule) ==
  NewRequest(MutatedMessage(MessageAt(base, type, targets, i, rule), type, i, v))

\* A message with a user agent keeps its headers.
LEMMA HeadersStay ==
  ASSUME NEW h, \E k \in DOMAIN h : h[k].name = <<"User-Agent">>
  PROVE  PrepareHeaders(h) = h
BY DEF PrepareHeaders, ReplaceOrAddExistingField

\* The copy of the message says what the message says.
LEMMA CopyFacts ==
  ASSUME NEW base, IsMessage(base), NEW type \in FieldType, NEW targets, NEW i, NEW rule,
         NEW message, message = MessageAt(base, type, targets, i, rule)
  PROVE  /\ DOMAIN message = DOMAIN base
         /\ message = [base EXCEPT ![type] = message[type]]
         /\ message[type] \in Seq(RequestField) /\ DOMAIN message[type] = DOMAIN base[type]
         /\ \A k \in DOMAIN base[type] :
              /\ Kept(message[type][k], base[type][k])
              /\ message[type][k].modified = base[type][k].modified
<1> DEFINE fs == base[type]
           L(f) == IF PayloadStrings(rule, f.value) = <<>> THEN f
                   ELSE Restore(f, f.value, Last(PayloadStrings(rule, f.value)))
           G == [k \in DOMAIN fs |-> IF k \in targets /\ k < i THEN L(fs[k]) ELSE fs[k]]
<1>1. type \in DOMAIN base /\ fs \in Seq(RequestField)
  BY DEF IsMessage
<1>2. Len(fs) \in Nat /\ DOMAIN fs = 1..Len(fs) /\ \A k \in DOMAIN fs : fs[k] \in RequestField
  BY <1>1
<1>3. \A f \in RequestField : L(f) \in RequestField /\ Kept(L(f), f) /\ L(f).modified = f.modified
  BY DEF Restore, RequestField, Kept, SameField, GainsEmptyValue
<1>4. message = [base EXCEPT ![type] = G]
  BY DEF MessageAt
<1> HIDE DEF L
<1>5. /\ G \in [1..Len(fs) -> RequestField] /\ DOMAIN G = DOMAIN fs
      /\ \A k \in 1..Len(fs) : /\ Kept(G[k], fs[k]) /\ G[k].modified = fs[k].modified
  <2>1. \A f \in RequestField : Kept(f, f)
    BY DEF Kept, SameField
  <2> HIDE DEF fs
  <2> QED BY <1>2, <1>3, <2>1
<1> HIDE DEF G, fs
<1>6. G \in Seq(RequestField)
  BY <1>2, <1>5, MapFacts
<1>7. message[type] = G /\ DOMAIN message = DOMAIN base
  BY <1>1, <1>4
<1> QED BY <1>2, <1>4, <1>5, <1>6, <1>7 DEF fs

\* A request of the generator changes one field.
LEMMA MadeFacts ==
  ASSUME NEW base, IsMessage(base), HasUserAgent(base), NEW type \in FieldType,
         NEW targets, NEW i \in DOMAIN base[type], NEW v \in Text, NEW rule
  PROVE  Injects(base, type, i, v, Made(base, type, targets, i, v, rule))
<1>1. PICK m : m = MessageAt(base, type, targets, i, rule)
  OBVIOUS
<1>2. /\ DOMAIN m = DOMAIN base
      /\ m = [base EXCEPT ![type] = m[type]]
      /\ m[type] \in Seq(RequestField) /\ DOMAIN m[type] = DOMAIN base[type]
      /\ \A k \in DOMAIN base[type] :
           /\ Kept(m[type][k], base[type][k])
           /\ m[type][k].modified = base[type][k].modified
  BY <1>1, CopyFacts
<1> DEFINE g == [m[type][i] EXCEPT !.value = v, !.has_value = TRUE, !.modified = TRUE]
           G == [m[type] EXCEPT ![i] = g]
           M == [m EXCEPT ![type] = G]
<1>3. Made(base, type, targets, i, v, rule) = NewRequest(M)
  BY <1>1 DEF Made, MutatedMessage
<1>4. g \in RequestField /\ g.value = v /\ g.modified = TRUE /\ g.name = m[type][i].name
  <2>1. m[type][i] \in RequestField
    BY <1>2
  <2> QED BY <2>1 DEF RequestField
<1> HIDE DEF g
<1>5. /\ G \in Seq(RequestField) /\ DOMAIN G = DOMAIN base[type] /\ G[i] = g
      /\ \A k \in DOMAIN base[type] \ {i} : G[k] = m[type][k]
  BY <1>2, <1>4
<1>6. \A k \in DOMAIN base[type] : G[k].name = base[type][k].name
  BY <1>2, <1>4, <1>5 DEF Kept, SameField, GainsEmptyValue
<1> HIDE DEF G
<1>7. type \in DOMAIN base /\ "header" \in DOMAIN base /\ "host" \in DOMAIN base
  BY DEF IsMessage, FieldType
<1>8. /\ DOMAIN M = DOMAIN base /\ M[type] = G
      /\ \A t \in DOMAIN base \ {type} : M[t] = base[t]
  <2>1. \A t \in DOMAIN base \ {type} : m[t] = base[t]
    BY <1>2
  <2> QED BY <1>2, <1>7, <2>1
<1> HIDE DEF M
<1>9. \E k \in DOMAIN M.header : M.header[k].name = <<"User-Agent">>
  <2>1. CASE type = "header"
    BY <1>5, <1>6, <1>8, <2>1 DEF HasUserAgent
  <2>2. CASE type # "header"
    BY <1>7, <1>8, <2>2 DEF HasUserAgent
  <2> QED BY <2>1, <2>2
<1>10. PICK x : x = NewRequest(M)
  OBVIOUS
<1>11. DOMAIN x = DOMAIN M /\ \A t \in DOMAIN M : x[t] = M[t]
  <2>1. x = [M EXCEPT !.header = M.header]
    BY <1>9, <1>10, HeadersStay DEF NewRequest
  <2> QED BY <1>7, <1>8, <2>1
<1>12. FieldType \subseteq DOMAIN base /\ base.host \in Text /\ type # "host"
       /\ \A t \in FieldType : base[t] \in Seq(RequestField)
  BY DEF IsMessage, FieldType
<1>13. IsMessage(x)
  <2>1. \A t \in FieldType : x[t] \in Seq(RequestField)
    BY <1>5, <1>8, <1>11, <1>12
  <2>2. x.host \in Text
    BY <1>7, <1>8, <1>11, <1>12
  <2> QED BY <1>7, <1>8, <1>11, <1>12, <2>1, <2>2 DEF IsMessage
<1>14. Injects(base, type, i, v, x)
  <2>1. \A t \in FieldType : DOMAIN x[t] = DOMAIN base[t]
    BY <1>5, <1>8, <1>11, <1>12
  <2>2. \A t \in FieldType \ {type} : x[t] = base[t]
    BY <1>8, <1>11, <1>12
  <2>3. x[type] = G
    BY <1>7, <1>8, <1>11
  <2>4. x[type][i].modified = TRUE /\ x[type][i].value = v
        /\ x[type][i].name = base[type][i].name
    BY <1>4, <1>5, <1>6, <2>3
  <2>5. \A k \in DOMAIN base[type] \ {i} :
          Kept(x[type][k], base[type][k]) /\ x[type][k].modified = base[type][k].modified
    BY <1>2, <1>5, <2>3
  <2> QED BY <1>13, <2>1, <2>2, <2>4, <2>5 DEF Injects
<1> QED BY <1>3, <1>10, <1>14

\* Only fields of the message are targeted, and those that the property names.
LEMMA TargetsAreFields ==
  ASSUME NEW base, IsMessage(base), NEW target \in PayloadTarget, target.type \in FieldType
  PROVE  TargetFields(target, base[target.type]) =
           {i \in DOMAIN base[target.type] :
              IF target.last_field_only THEN i = Len(base[target.type])
              ELSE target.names = {} \/ base[target.type][i].name \in target.names}
<1>1. PICK fs : fs = base[target.type] /\ fs \in Seq(RequestField)
  BY DEF IsMessage
<1>2. Len(fs) \in Nat /\ DOMAIN fs = 1..Len(fs)
  BY <1>1
<1>3. {Len(fs)} \ {0} = {i \in DOMAIN fs : i = Len(fs)}
  BY <1>2
<1>4. TargetFields(target, fs) =
        IF target.last_field_only THEN {Len(fs)} \ {0}
        ELSE {i \in DOMAIN fs : target.names = {} \/ fs[i].name \in target.names}
  BY DEF TargetFields, ShouldInjectInField
<1>5. CASE target.last_field_only
  BY <1>1, <1>3, <1>4, <1>5
<1>6. CASE ~target.last_field_only
  BY <1>1, <1>4, <1>6
<1> QED BY <1>5, <1>6

\* The positions and values that a target of a rule stands for.
Places(base, target) == TargetFields(target, base[target.type])
Values(base, target, i, rule) == ToSet(PayloadStrings(rule, base[target.type][i].value))
MadeFor(base, target, i, v, rule) == Made(base, target.type, Places(base, target), i, v, rule)

\* The requests for one field: those that are made, and those for any value.
FieldMade(base, target, i, rule) ==
  {MadeFor(base, target, i, v, rule) : v \in Values(base, target, i, rule)}
FieldAny(base, target, i, rule) == {MadeFor(base, target, i, v, rule) : v \in Text}

\* The requests of one field.
LEMMA FieldRequests ==
  ASSUME NEW base, IsMessage(base), NEW rule \in GeneratorRule, NEW target \in PayloadTarget,
         target.type \in FieldType, NEW i \in Places(base, target),
         NEW s, s = AppendSingleMutatedFieldRequest(
                      MessageAt(base, target.type, Places(base, target), i, rule),
                      target.type, i, rule)
  PROVE  /\ s \in Seq(FieldAny(base, target, i, rule))
         /\ ToSet(s) = FieldMade(base, target, i, rule)
         /\ Values(base, target, i, rule) \subseteq Text
<1>1. PICK m : m = MessageAt(base, target.type, Places(base, target), i, rule)
  OBVIOUS
<1>2. i \in DOMAIN base[target.type] /\ base[target.type] \in Seq(RequestField)
  BY TargetsAreFields DEF Places, IsMessage
<1>3. m[target.type][i].value = base[target.type][i].value
  BY <1>1, <1>2, CopyFacts DEF Kept, SameField, GainsEmptyValue
<1>4. base[target.type][i].value \in Text
  <2>1. base[target.type][i] \in RequestField
    BY <1>2
  <2> QED BY <2>1 DEF RequestField
<1>5. PICK texts : texts = PayloadStrings(rule, base[target.type][i].value)
  OBVIOUS
<1>6. texts \in Seq(Text)
  BY <1>4, <1>5, PayloadFacts
<1>7. PICK n \in Nat : /\ n = Len(texts) /\ DOMAIN texts = 1..n /\ \A k \in 1..n : texts[k] \in Text
                       /\ ToSet(texts) = {texts[k] : k \in 1..n}
  BY <1>6 DEF ToSet
<1>8. s = [k \in 1..n |-> MadeFor(base, target, i, texts[k], rule)]
  BY <1>1, <1>3, <1>5, <1>7 DEF AppendSingleMutatedFieldRequest, MadeFor, Made
<1> DEFINE S == {MadeFor(base, target, i, v, rule) : v \in Text}
<1>9. s \in [1..n -> S] /\ \A k \in 1..n : s[k] = MadeFor(base, target, i, texts[k], rule)
  BY <1>7, <1>8
<1>10. s \in Seq(S) /\ ToSet(s) = {s[k] : k \in 1..n}
  <2> HIDE DEF S
  <2> QED BY <1>9, MapFacts
<1>11. Values(base, target, i, rule) = ToSet(texts)
  BY <1>5 DEF Values
<1>12. ToSet(s) = {MadeFor(base, target, i, v, rule) : v \in ToSet(texts)}
  BY <1>7, <1>9, <1>10
<1>13. ToSet(texts) \subseteq Text
  BY <1>7
<1> QED BY <1>10, <1>11, <1>12, <1>13 DEF FieldAny, FieldMade

\* The requests of one target.
LEMMA TargetRequests ==
  ASSUME NEW base, IsMessage(base), NEW rule \in GeneratorRule, NEW target \in PayloadTarget,
         target.type \in FieldType,
         NEW S, \A i \in Places(base, target) : \A v \in Text : MadeFor(base, target, i, v, rule) \in S
  PROVE  /\ AppendMutatedFieldRequests(base, target, rule) \in Seq(S)
         /\ ToSet(AppendMutatedFieldRequests(base, target, rule)) =
              UNION {FieldMade(base, target, i, rule) : i \in Places(base, target)}
<1> DEFINE O(i) == AppendSingleMutatedFieldRequest(
                     MessageAt(base, target.type, Places(base, target), i, rule),
                     target.type, i, rule)
           V(i) == FieldMade(base, target, i, rule)
<1>1. PICK n \in Nat : DOMAIN base[target.type] = 1..n
  <2>1. base[target.type] \in Seq(RequestField)
    BY DEF IsMessage
  <2> QED BY <2>1
<1>2. PICK f : f = [i \in 1..n |-> IF i \in Places(base, target) THEN O(i) ELSE <<>>]
  OBVIOUS
<1>3. AppendMutatedFieldRequests(base, target, rule) = FlattenSeq(f)
  BY <1>1, <1>2 DEF AppendMutatedFieldRequests, Places
<1>4. \A i \in Places(base, target) : O(i) \in Seq(S) /\ ToSet(O(i)) = V(i)
  <2> SUFFICES ASSUME NEW i \in Places(base, target)
               PROVE  O(i) \in Seq(S) /\ ToSet(O(i)) = V(i)
    OBVIOUS
  <2>1. PICK s : s = O(i)
    OBVIOUS
  <2>2. FieldAny(base, target, i, rule) \subseteq S
    BY DEF FieldAny
  <2>3. /\ s \in Seq(FieldAny(base, target, i, rule))
        /\ ToSet(s) = FieldMade(base, target, i, rule)
    <3>1. s = AppendSingleMutatedFieldRequest(
                MessageAt(base, target.type, Places(base, target), i, rule),
                target.type, i, rule)
      BY <2>1
    <3> HIDE DEF O, V
    <3> QED BY <3>1, FieldRequests
  <2> HIDE DEF O
  <2>4. s \in Seq(S)
    BY <2>2, <2>3
  <2> QED BY <2>1, <2>3, <2>4
<1>5. Places(base, target) \subseteq 1..n
  BY <1>1, TargetsAreFields DEF Places
<1> HIDE DEF O, V
<1>6. <<>> \in Seq(S) /\ ToSet(<<>>) = {}
  BY DEF ToSet
<1>7. /\ f \in [1..n -> Seq(S)]
      /\ \A i \in 1..n : f[i] = IF i \in Places(base, target) THEN O(i) ELSE <<>>
  BY <1>2, <1>4, <1>6
<1>8. FlattenSeq(f) \in Seq(S) /\ ToSet(FlattenSeq(f)) = UNION {ToSet(f[i]) : i \in 1..n}
  BY <1>7, FlattenMap
<1>9. \A i \in 1..n : ToSet(f[i]) = IF i \in Places(base, target) THEN V(i) ELSE {}
  BY <1>4, <1>6, <1>7
<1>10. UNION {ToSet(f[i]) : i \in 1..n} = UNION {V(i) : i \in Places(base, target)}
  BY <1>5, <1>9
<1> QED BY <1>3, <1>8, <1>10 DEF V

\* All the requests that can be made for a rule.
AllMade(base, rule) ==
  UNION {{MadeFor(base, target, i, v, rule) : i \in Places(base, target), v \in Text} :
         target \in {t \in ToSet(rule.target) : t.type \in FieldType}}

\* Generate makes a request for each target, each of its fields and each value.
LEMMA GenerateFacts ==
  ASSUME NEW base, IsMessage(base), NEW rule \in GeneratorRule
  PROVE  /\ Generate(base, rule) \in Seq(AllMade(base, rule))
         /\ ToSet(Generate(base, rule)) =
              UNION {UNION {FieldMade(base, target, i, rule) : i \in Places(base, target)} :
                     target \in {t \in ToSet(rule.target) : t.type \in FieldType}}
<1> DEFINE S == AllMade(base, rule)
           R(target) == UNION {FieldMade(base, target, i, rule) : i \in Places(base, target)}
           Used(t) == rule.target[t].type \in FieldType /\ base[rule.target[t].type] # <<>>
<1>1. PICK n \in Nat : /\ DOMAIN rule.target = 1..n
                       /\ \A t \in 1..n : rule.target[t] \in PayloadTarget
                       /\ ToSet(rule.target) = {rule.target[t] : t \in 1..n}
  <2>1. rule.target \in Seq(PayloadTarget)
    BY DEF GeneratorRule
  <2> QED BY <2>1 DEF ToSet
<1>2. PICK f : f = [t \in 1..n |-> IF Used(t) THEN AppendMutatedFieldRequests(base, rule.target[t], rule)
                                   ELSE <<>>]
  OBVIOUS
<1>3. Generate(base, rule) = FlattenSeq(f)
  BY <1>1, <1>2 DEF Generate
<1>4. ASSUME NEW t \in 1..n, rule.target[t].type \in FieldType
      PROVE  /\ AppendMutatedFieldRequests(base, rule.target[t], rule) \in Seq(S)
             /\ ToSet(AppendMutatedFieldRequests(base, rule.target[t], rule)) = R(rule.target[t])
  <2>1. PICK target \in PayloadTarget : target = rule.target[t]
    BY <1>1
  <2>2. \A i \in Places(base, target) : \A v \in Text : MadeFor(base, target, i, v, rule) \in S
    BY <1>1, <1>4, <2>1 DEF AllMade
  <2> HIDE DEF S
  <2> QED BY <1>4, <2>1, <2>2, TargetRequests
<1>5. ASSUME NEW t \in 1..n, rule.target[t].type \in FieldType, ~Used(t)
      PROVE  R(rule.target[t]) = {}
  <2>1. Places(base, rule.target[t]) = {}
    <3>1. DOMAIN base[rule.target[t].type] = {}
      BY <1>5
    <3>2. rule.target[t] \in PayloadTarget
      BY <1>1
    <3> QED BY <1>5, <3>1, <3>2, TargetsAreFields DEF Places
  <2> QED BY <2>1
<1> HIDE DEF S, R
<1>6. <<>> \in Seq(S) /\ ToSet(<<>>) = {}
  BY DEF ToSet
<1>7. /\ f \in [1..n -> Seq(S)]
      /\ \A t \in 1..n : ToSet(f[t]) = IF rule.target[t].type \in FieldType
                                       THEN R(rule.target[t]) ELSE {}
  <2>1. \A t \in 1..n : f[t] \in Seq(S) /\ (ToSet(f[t]) = IF rule.target[t].type \in FieldType
                                                       THEN R(rule.target[t]) ELSE {})
    <3> SUFFICES ASSUME NEW t \in 1..n
                 PROVE  f[t] \in Seq(S) /\ (ToSet(f[t]) = IF rule.target[t].type \in FieldType
                                                         THEN R(rule.target[t]) ELSE {})
      OBVIOUS
    <3>1. CASE Used(t)
      <4>1. f[t] = AppendMutatedFieldRequests(base, rule.target[t], rule)
        BY <1>2, <3>1
      <4> QED BY <1>4, <3>1, <4>1
    <3>2. CASE ~Used(t)
      <4>1. f[t] = <<>>
        BY <1>2, <3>2
      <4> QED BY <1>5, <1>6, <3>2, <4>1
    <3> QED BY <3>1, <3>2
  <2>2. DOMAIN f = 1..n /\ f = [t \in 1..n |-> f[t]]
    BY <1>2
  <2> QED BY <2>1, <2>2
<1>8. FlattenSeq(f) \in Seq(S) /\ ToSet(FlattenSeq(f)) = UNION {ToSet(f[t]) : t \in 1..n}
  <2>1. f \in [1..n -> Seq(S)]
    BY <1>7
  <2> QED BY <2>1, FlattenMap
<1>9. UNION {ToSet(f[t]) : t \in 1..n} =
        UNION {R(target) : target \in {t \in ToSet(rule.target) : t.type \in FieldType}}
  BY <1>1, <1>7
<1> QED BY <1>3, <1>8, <1>9 DEF S, R
-----------------------------------------------------------------------------
(* The requests of a check.                                                *)

\* A request with its answer is what the matchers expect.
LEMMA AnswerFacts ==
  ASSUME NEW proto, IsMessage(proto), NEW parent, NEW time, NEW a \in Answers,
         NEW req, req = WithAnswer(NewAuditRequest(proto, parent, time), a)
  PROVE  /\ IsAnswered(req) /\ req.parent_id = parent /\ req.proto = proto
         /\ req.time = a.time /\ a.time \in Nat
<1>1. UrlText(proto) \in Text
  BY UrlIsText
<1>2. /\ a.time \in Nat /\ a.response.ok = TRUE
      /\ a.response.headers \in Seq(HeaderField) /\ a.response.body \in Text
  BY AuditAssumption
<1>3. /\ req.url = UrlText(proto) /\ req.parent_id = parent /\ req.proto = proto
      /\ req.time = a.time /\ req.response = a.response
  BY DEF WithAnswer, NewAuditRequest
<1> QED BY <1>1, <1>2, <1>3 DEF IsAnswered

\* The message of a page, and what the matchers see of it.
LEMMA PageFacts ==
  ASSUME ConfigInv, NEW id \in Id
  PROVE  /\ IsMessage(pages[id].proto) /\ HasUserAgent(pages[id].proto)
         /\ \A type \in FieldType : \A k \in DOMAIN pages[id].proto[type] :
              ~pages[id].proto[type][k].modified
         /\ IsAnswered(pages[id]) /\ pages[id].parent_id = kInvalidId /\ pages[id].time \in Nat
<1>1. PICK proto : \E a \in Answers :
         /\ IsMessage(proto) /\ HasUserAgent(proto)
         /\ \A type \in FieldType : \A k \in DOMAIN proto[type] : ~proto[type][k].modified
         /\ pages[id] = WithAnswer(NewAuditRequest(proto, kInvalidId, a.time), a)
  BY DEF ConfigInv
<1>2. PICK a \in Answers :
         /\ IsMessage(proto) /\ HasUserAgent(proto)
         /\ \A type \in FieldType : \A k \in DOMAIN proto[type] : ~proto[type][k].modified
         /\ pages[id] = WithAnswer(NewAuditRequest(proto, kInvalidId, a.time), a)
  BY <1>1
<1>3. /\ IsAnswered(pages[id]) /\ pages[id].parent_id = kInvalidId /\ pages[id].proto = proto
      /\ pages[id].time = a.time /\ a.time \in Nat
  BY <1>2, AnswerFacts
<1> QED BY <1>2, <1>3

\* A copy of a message with a user agent is the message.
LEMMA CopyOfMessage ==
  ASSUME NEW proto, IsMessage(proto), HasUserAgent(proto)
  PROVE  /\ IsMessage(NewRequest(proto))
         /\ \A type \in FieldType : NewRequest(proto)[type] = proto[type]
<1>1. NewRequest(proto) = [proto EXCEPT !.header = proto.header]
  BY HeadersStay DEF NewRequest, HasUserAgent
<1>2. PICK x : x = NewRequest(proto)
  OBVIOUS
<1>3. DOMAIN x = DOMAIN proto /\ \A t \in DOMAIN proto : x[t] = proto[t]
  BY <1>1, <1>2
<1>4. FieldType \subseteq DOMAIN proto /\ "host" \in DOMAIN proto /\ proto.host \in Text
      /\ \A type \in FieldType : proto[type] \in Seq(RequestField)
  BY DEF IsMessage
<1>5. IsMessage(x) /\ \A type \in FieldType : x[type] = proto[type]
  BY <1>3, <1>4 DEF IsMessage
<1> QED BY <1>2, <1>5

\* The messages that check c sends.
Protos(id, c) ==
  IF c = 1 THEN [i \in 1..Measurements |-> NewRequest(pages[id].proto)]
  ELSE Generate(pages[id].proto, checks[c].generator)

\* The requests of a check are a sequence of copies of messages, made for its page.
LEMMA CreatedFacts ==
  ASSUME ConfigInv, NEW id \in Id, NEW c \in DOMAIN checks
  PROVE  \E n \in Nat :
           /\ DOMAIN Protos(id, c) = 1..n
           /\ DOMAIN CreateRequests(id, c) = 1..n /\ Len(CreateRequests(id, c)) = n
           /\ c = 1 => n = Measurements
           /\ \A k \in 1..n :
                /\ IsMessage(Protos(id, c)[k])
                /\ CreateRequests(id, c)[k] =
                     NewAuditRequest(Protos(id, c)[k], id, pages[id].time)
<1>1. CreateRequests(id, c) = [i \in DOMAIN Protos(id, c) |->
                                 NewAuditRequest(Protos(id, c)[i], id, pages[id].time)]
  BY DEF CreateRequests, Protos
<1>2. ASSUME NEW n \in Nat, DOMAIN Protos(id, c) = 1..n
      PROVE  /\ DOMAIN CreateRequests(id, c) = 1..n /\ Len(CreateRequests(id, c)) = n
             /\ \A k \in 1..n : CreateRequests(id, c)[k] =
                                  NewAuditRequest(Protos(id, c)[k], id, pages[id].time)
  <2> DEFINE f == [i \in 1..n |-> NewAuditRequest(Protos(id, c)[i], id, pages[id].time)]
  <2>1. DOMAIN f = 1..n /\ Len(f) = n
    OBVIOUS
  <2>2. CreateRequests(id, c) = f
    BY <1>1, <1>2
  <2> QED BY <2>1, <2>2
<1>3. IsMessage(pages[id].proto) /\ HasUserAgent(pages[id].proto)
  BY PageFacts
<1>4. CASE c = 1
  <2>1. Measurements \in Nat
    BY AuditAssumption
  <2>2. DOMAIN Protos(id, c) = 1..Measurements
        /\ \A k \in 1..Measurements : Protos(id, c)[k] = NewRequest(pages[id].proto)
    BY <1>4 DEF Protos
  <2>3. IsMessage(NewRequest(pages[id].proto))
    BY <1>3, CopyOfMessage
  <2> QED BY <1>2, <2>1, <2>2, <2>3
<1>5. CASE c # 1
  <2>1. PICK rule \in GeneratorRule : rule = checks[c].generator
    <3>1. c > 1
      BY <1>5 DEF ConfigInv
    <3>2. checks[c] \in SecurityTest
      BY <3>1 DEF ConfigInv
    <3> QED BY <3>2 DEF SecurityTest
  <2>2. PICK base : base = pages[id].proto
    OBVIOUS
  <2>3. PICK s : s = Protos(id, c) /\ s \in Seq(AllMade(base, rule))
    <3>1. Protos(id, c) = Generate(base, rule)
      BY <1>5, <2>1, <2>2 DEF Protos
    <3> QED BY <1>3, <2>2, <3>1, GenerateFacts
  <2>4. Len(s) \in Nat /\ DOMAIN s = 1..Len(s) /\ \A k \in 1..Len(s) : s[k] \in AllMade(base, rule)
    BY <2>3
  <2>5. \A x \in AllMade(base, rule) : IsMessage(x)
    <3> SUFFICES ASSUME NEW x \in AllMade(base, rule) PROVE IsMessage(x)
      OBVIOUS
    <3>1. PICK target \in ToSet(rule.target) :
            target.type \in FieldType /\ \E i \in Places(base, target) : \E v \in Text :
               x = MadeFor(base, target, i, v, rule)
      BY DEF AllMade
    <3>2. PICK i \in Places(base, target) : \E v \in Text : x = MadeFor(base, target, i, v, rule)
      BY <3>1
    <3>3. PICK v \in Text : x = MadeFor(base, target, i, v, rule)
      BY <3>2
    <3>4. target \in PayloadTarget
      <4>1. rule.target \in Seq(PayloadTarget)
        BY DEF GeneratorRule
      <4>2. \A t \in DOMAIN rule.target : rule.target[t] \in PayloadTarget
        BY <4>1
      <4> QED BY <4>2 DEF ToSet
    <3>5. i \in DOMAIN base[target.type]
      BY <1>3, <2>2, <3>1, <3>4, TargetsAreFields DEF Places
    <3>6. Injects(base, target.type, i, v, x)
      BY <1>3, <2>2, <3>1, <3>3, <3>5, MadeFacts DEF MadeFor
    <3> QED BY <3>6 DEF Injects
  <2> QED BY <1>2, <1>5, <2>3, <2>4, <2>5
<1> QED BY <1>4, <1>5

\* ScheduleNextCheck takes the first check that has something to send and does
\* not test positive already.
LEMMA NextCheck ==
  ASSUME ConfigInv, NEW id \in Id, NEW c \in Nat \ {0}, NEW averages,
         kInvalidId \notin DOMAIN averages
  PROVE  \/ /\ ScheduleNextCheck(id, c, averages) = <<>> /\ c # 1
            /\ \A d \in c..Len(checks) : CreateRequests(id, d) = <<>> \/ TestsPositive(id, d)
         \/ \E d \in c..Len(checks) :
              /\ ScheduleNextCheck(id, c, averages) =
                   <<[check |-> d, requests |-> CreateRequests(id, d),
                      open |-> DOMAIN CreateRequests(id, d)]>>
              /\ DOMAIN CreateRequests(id, d) # {}
              /\ c = 1 => d = 1
              /\ \A b \in c..Len(checks) :
                   b < d => CreateRequests(id, b) = <<>> \/ TestsPositive(id, b)
<1> DEFINE D == {d \in c..Len(checks) : Runs(id, d, averages)}
<1>1. Len(checks) \in Nat /\ DOMAIN checks = 1..Len(checks) /\ Len(checks) >= 1
  BY DEF ConfigInv
<1>2. \A d : EvaluateSingle(d, pages[id], averages) <=> EvaluateSingle(d, pages[id], <<>>)
  <2>1. pages[id].parent_id \notin DOMAIN averages /\ pages[id].parent_id \notin DOMAIN <<>>
    BY PageFacts
  <2> QED BY <2>1, MatchAlone DEF EvaluateSingle
<1>3. \A d \in c..Len(checks) : d \notin D => CreateRequests(id, d) = <<>> \/ TestsPositive(id, d)
  BY <1>2 DEF Runs, TestsPositive
<1>4. c = 1 => 1 \in D
  <2>1. ~checks[1].serial
    BY DEF ConfigInv, ResponseTime
  <2> QED BY <1>1, <2>1 DEF Runs
<1>5. ASSUME NEW d \in D PROVE DOMAIN CreateRequests(id, d) # {}
  <2>1. d \in DOMAIN checks
    BY <1>1
  <2>2. PICK n \in Nat : DOMAIN CreateRequests(id, d) = 1..n /\ Len(CreateRequests(id, d)) = n
                         /\ (d = 1 => n = Measurements)
                         /\ CreateRequests(id, d) = [i \in 1..n |-> CreateRequests(id, d)[i]]
    <3>1. PICK n \in Nat : DOMAIN CreateRequests(id, d) = 1..n /\ Len(CreateRequests(id, d)) = n
                           /\ (d = 1 => n = Measurements)
      BY <2>1, CreatedFacts
    <3>2. CreateRequests(id, d) = [i \in DOMAIN CreateRequests(id, d) |-> CreateRequests(id, d)[i]]
      BY DEF CreateRequests
    <3> QED BY <3>1, <3>2
  <2>3. n # 0
    <3>1. CASE d = 1
      BY <2>2, <3>1, AuditAssumption
    <3>2. CASE d # 1
      <4>1. CreateRequests(id, d) # <<>>
        BY <3>2 DEF Runs
      <4>2. n = 0 => CreateRequests(id, d) = <<>>
        BY <2>2
      <4> QED BY <4>1, <4>2
    <3> QED BY <3>1, <3>2
  <2> QED BY <2>2, <2>3
<1>6. ScheduleNextCheck(id, c, averages) =
        IF D = {} THEN <<>>
        ELSE <<[check |-> Min(D), requests |-> CreateRequests(id, Min(D)),
                open |-> DOMAIN CreateRequests(id, Min(D))]>>
  BY DEF ScheduleNextCheck
<1>7. CASE D = {}
  <2> HIDE DEF D
  <2> QED BY <1>3, <1>4, <1>6, <1>7
<1>8. CASE D # {}
  <2>1. D \in SUBSET (1..Len(checks)) /\ D \subseteq c..Len(checks)
    BY <1>1
  <2> HIDE DEF D
  <2>2. PICK d \in D : d = Min(D) /\ \A b \in D : d <= b
    BY <1>1, <1>8, <2>1, FirstPosition
  <2>3. d \in c..Len(checks) /\ d >= c
    BY <2>1, <2>2
  <2>4. c = 1 => d = 1
    <3>1. c = 1 => d <= 1
      BY <1>4, <2>2
    <3> QED BY <2>3, <3>1
  <2>5. \A b \in c..Len(checks) : b < d => b \notin D
    BY <2>2, <2>3
  <2> QED BY <1>3, <1>5, <1>6, <1>8, <2>2, <2>3, <2>4, <2>5
<1> QED BY <1>7, <1>8
-----------------------------------------------------------------------------
(* The history.                                                            *)

\* The entries of a check, counted, say whether it is complete.
LEMMA EntriesCount ==
  ASSUME ConfigInv, AnsweredInv, audited \subseteq Id, NEW id \in Id, NEW c \in DOMAIN checks
  PROVE  Cardinality(Entries(id, c)) = Len(CreateRequests(id, c)) <=> Complete(id, c)
<1>1. PICK n \in Nat : DOMAIN CreateRequests(id, c) = 1..n /\ Len(CreateRequests(id, c)) = n
  BY CreatedFacts
<1> DEFINE E == Entries(id, c)
           f == [e \in E |-> e.n]
<1>2. \A e \in E : e.n \in 1..n /\ e.page = id /\ e.check = c /\ e \in answered
  BY <1>1 DEF Entries, AnsweredInv
<1>3. \A d, e \in E : d.n = e.n => d = e
  BY <1>2 DEF AnsweredInv
<1>4. Complete(id, c) <=> \A k \in 1..n : \E e \in E : e.n = k
  BY <1>1 DEF Complete, Answered, Entries
<1> HIDE DEF E
<1>5. f \in Injection(E, 1..n)
  BY <1>2, <1>3 DEF Injection, IsInjective
<1>6. f \in Surjection(E, 1..n) <=> \A k \in 1..n : \E e \in E : e.n = k
  <2>1. f \in [E -> 1..n] /\ \A e \in E : f[e] = e.n
    BY <1>2
  <2> HIDE DEF f
  <2> QED BY <2>1 DEF Surjection
<1>7. IsFiniteSet(1..n) /\ Cardinality(1..n) = n
  BY FS_Interval
<1>8. Cardinality(E) = Cardinality(1..n) <=> f \in Surjection(E, 1..n)
  <2> HIDE DEF f
  <2> QED BY <1>5, <1>7, FS_Injection
<1> QED BY <1>1, <1>4, <1>6, <1>7, <1>8 DEF E

\* An answered request is what the matchers expect.
LEMMA EntryFacts ==
  ASSUME ConfigInv, AnsweredInv, audited \subseteq Id, NEW e \in answered
  PROVE  /\ e.page \in Id /\ e.check \in DOMAIN checks
         /\ IsAnswered(e.request) /\ e.request.parent_id = e.page
<1>1. /\ e.page \in audited /\ e.check \in DOMAIN checks
      /\ e.n \in DOMAIN CreateRequests(e.page, e.check)
      /\ \E a \in Answers :
           e = Entry(e.page, e.check, e.n, WithAnswer(CreateRequests(e.page, e.check)[e.n], a))
  BY DEF AnsweredInv
<1>2. PICK a \in Answers :
        e = Entry(e.page, e.check, e.n, WithAnswer(CreateRequests(e.page, e.check)[e.n], a))
  BY <1>1
<1>3. PICK id \in Id : id = e.page
  BY <1>1
<1>4. PICK c \in DOMAIN checks : c = e.check
  BY <1>1
<1>5. PICK n \in Nat :
        /\ DOMAIN CreateRequests(id, c) = 1..n
        /\ \A k \in 1..n : IsMessage(Protos(id, c)[k]) /\
             CreateRequests(id, c)[k] = NewAuditRequest(Protos(id, c)[k], id, pages[id].time)
  BY CreatedFacts
<1>6. PICK proto : IsMessage(proto) /\
        CreateRequests(id, c)[e.n] = NewAuditRequest(proto, id, pages[id].time)
  BY <1>1, <1>3, <1>4, <1>5
<1>7. e.request = WithAnswer(NewAuditRequest(proto, id, pages[id].time), a)
  <2>1. PICK x : x = WithAnswer(CreateRequests(e.page, e.check)[e.n], a)
    OBVIOUS
  <2>2. Entry(e.page, e.check, e.n, x).request = x
    BY DEF Entry
  <2>3. e.request = x
    BY <1>2, <2>1, <2>2
  <2> QED BY <1>3, <1>4, <1>6, <2>1, <2>3
<1>8. IsAnswered(e.request) /\ e.request.parent_id = id
  BY <1>6, <1>7, AnswerFacts
<1> QED BY <1>1, <1>3, <1>8

\* Two tables with the same average for the page of a request.
LEMMA MatchSame ==
  ASSUME NEW rule, NEW req, NEW m1, NEW m2,
         req.parent_id \in DOMAIN m1, req.parent_id \in DOMAIN m2,
         m1[req.parent_id] = m2[req.parent_id]
  PROVE  MatchSingle(rule, req, m1) <=> MatchSingle(rule, req, m2)
<1>1. \A match, text : MatchAny(match, req, text, m1) = MatchAny(match, req, text, m2)
  BY DEF MatchAny, TimingMatchAny
<1>2. \A match, content :
        ConditionMatch(match, req, content, m1) <=> ConditionMatch(match, req, content, m2)
  BY <1>1 DEF ConditionMatch
<1> QED BY <1>2 DEF MatchSingle

-----------------------------------------------------------------------------
(* The initial state.                                                      *)

\* The checks of a configuration.
LEMMA ChecksFacts ==
  ASSUME NEW tests \in Seq(SecurityTest)
  PROVE  /\ Checks(tests) \in Seq(SecurityTest \cup {ResponseTime}) /\ Len(Checks(tests)) >= 1
         /\ Checks(tests)[1] = ResponseTime
         /\ \A c \in DOMAIN Checks(tests) : c > 1 =>
              /\ Checks(tests)[c] \in SecurityTest /\ Checks(tests)[c].has_generator_rule
              /\ UsableTest(Checks(tests)[c])
<1> DEFINE U == {t \in SecurityTest : t.has_generator_rule /\ UsableTest(t)}
<1>1. PICK n \in Nat : DOMAIN tests = 1..n /\ \A i \in 1..n : tests[i] \in SecurityTest
  OBVIOUS
<1>2. PICK f : f = [i \in 1..n |->
                      IF tests[i].has_generator_rule /\ UsableTest(tests[i]) THEN <<tests[i]>> ELSE <<>>]
  OBVIOUS
<1>3. Checks(tests) = <<ResponseTime>> \o FlattenSeq(f)
  BY <1>1, <1>2 DEF Checks
<1>4. f \in [1..n -> Seq(U)]
  <2>1. \A i \in 1..n : f[i] \in Seq(U)
    <3> SUFFICES ASSUME NEW i \in 1..n PROVE f[i] \in Seq(U)
      OBVIOUS
    <3>1. CASE tests[i].has_generator_rule /\ UsableTest(tests[i])
      <4>1. f[i] = <<tests[i]>> /\ tests[i] \in U
        BY <1>1, <1>2, <3>1
      <4> HIDE DEF U
      <4> QED BY <4>1
    <3>2. CASE ~(tests[i].has_generator_rule /\ UsableTest(tests[i]))
      <4>1. f[i] = <<>>
        BY <1>2, <3>2
      <4> HIDE DEF U
      <4> QED BY <4>1
    <3> QED BY <3>1, <3>2
  <2>2. DOMAIN f = 1..n /\ f = [i \in 1..n |-> f[i]]
    BY <1>2
  <2> QED BY <2>1, <2>2
<1>5. PICK g : g = FlattenSeq(f) /\ g \in Seq(U)
  <2> HIDE DEF U
  <2> QED BY <1>4, FlattenMap
<1>6. PICK s : s = Checks(tests)
  OBVIOUS
<1>7. PICK r : r = ResponseTime
  OBVIOUS
<1>8. s = <<r>> \o g
  BY <1>3, <1>5, <1>6, <1>7
<1>9. /\ s \in Seq(U \cup {r}) /\ Len(s) \in Nat /\ DOMAIN s = 1..Len(s)
      /\ Len(s) = 1 + Len(g) /\ s[1] = r
      /\ \A c \in 2..Len(s) : s[c] = g[c - 1] /\ c - 1 \in 1..Len(g)
  <2> HIDE DEF U
  <2> QED BY <1>5, <1>8
<1>10. \A c \in 1..Len(g) : g[c] \in U
  BY <1>5
<1>11. \A c \in DOMAIN s : c > 1 => s[c] \in U
  <2>1. \A c \in DOMAIN s : c > 1 => c \in 2..Len(s)
    BY <1>9
  <2> HIDE DEF U
  <2> QED BY <1>9, <1>10, <2>1
<1>12. s \in Seq(SecurityTest \cup {r}) /\ Len(s) >= 1
  <2>1. U \cup {r} \subseteq SecurityTest \cup {r} /\ Len(g) \in Nat
    BY <1>5
  <2> HIDE DEF U
  <2>2. s \in Seq(SecurityTest \cup {r})
    BY <1>9, <2>1
  <2> QED BY <1>9, <2>1, <2>2
<1> QED BY <1>6, <1>7, <1>9, <1>11, <1>12

\* The inductive invariant holds at the start.
LEMMA InitInvariant == Init => IInv
<1> SUFFICES ASSUME Init PROVE IInv
  OBVIOUS
<1>1. PICK s \in Scenarios :
        /\ checks = Checks(s.tests)
        /\ \E a \in [DOMAIN s.pages -> Answers] :
             pages = [i \in DOMAIN s.pages |-> CrawledPage(s.pages[i], a[i])]
  BY DEF Init
<1>2. PICK a \in [DOMAIN s.pages -> Answers] :
        pages = [i \in DOMAIN s.pages |-> CrawledPage(s.pages[i], a[i])]
  BY <1>1
<1>3. DOMAIN meta = {} /\ DOMAIN runners = {} /\ audited = {} /\ answered = {} /\ issues = {}
      /\ runners = [i \in {} |-> <<>>]
  BY DEF Init
<1>4. ConfigInv
  <2>1. Id = DOMAIN s.pages /\ kInvalidId \notin Id
    BY <1>2, PagesAssumption DEF Id
  <2>2. ASSUME NEW id \in Id
        PROVE  \E proto : \E b \in Answers :
                 /\ IsMessage(proto) /\ HasUserAgent(proto)
                 /\ \A type \in FieldType : \A k \in DOMAIN proto[type] : ~proto[type][k].modified
                 /\ pages[id] = WithAnswer(NewAuditRequest(proto, kInvalidId, b.time), b)
    <3>1. PICK proto : proto = PageMessage(s.pages[id])
      OBVIOUS
    <3>2. /\ IsMessage(proto) /\ HasUserAgent(proto)
          /\ \A type \in FieldType : \A k \in DOMAIN proto[type] : ~proto[type][k].modified
      BY <2>1, <3>1, PagesAssumption DEF IsMessage, HasUserAgent
    <3>3. a[id] \in Answers
      BY <2>1
    <3>4. pages[id] = WithAnswer(NewAuditRequest(proto, kInvalidId, a[id].time), a[id])
      <4>1. pages[id] = CrawledPage(s.pages[id], a[id])
        BY <1>2, <2>1
      <4> QED BY <3>1, <4>1 DEF CrawledPage, WithAnswer, NewAuditRequest
    <3> QED BY <3>2, <3>3, <3>4
  <2>3. s.tests \in Seq(SecurityTest)
    BY AuditAssumption
  <2> QED BY <1>1, <2>1, <2>2, <2>3, ChecksFacts DEF ConfigInv
<1>5. AnsweredInv
  BY <1>3 DEF AnsweredInv
<1>6. RunnersInv
  BY <1>3 DEF RunnersInv
<1>7. MetaInv
  BY <1>3 DEF MetaInv
<1>8. IssuesInv
  BY <1>3 DEF IssuesInv
<1> QED BY <1>4, <1>5, <1>6, <1>7, <1>8 DEF IInv
-----------------------------------------------------------------------------
(* The steps.                                                              *)

\* The requests of a check are a function of its page and its test.
LEMMA SameRequests ==
  ASSUME pages' = pages, checks' = checks
  PROVE  /\ \A i, c : CreateRequests(i, c)' = CreateRequests(i, c)
         /\ \A i, c : TestsPositive(i, c)' <=> TestsPositive(i, c)
         /\ Id' = Id
<1>1. \A i, c : CreateRequests(i, c)' = CreateRequests(i, c)
  BY DEF CreateRequests
<1>2. \A i, c : TestsPositive(i, c)' <=> TestsPositive(i, c)
  BY DEF TestsPositive, EvaluateSingle
<1> QED BY <1>1, <1>2 DEF Id

\* Without a new answer the history says what it said.
LEMMA SameHistory ==
  ASSUME pages' = pages, checks' = checks, answered' = answered
  PROVE  /\ \A i, c : Entries(i, c)' = Entries(i, c)
         /\ \A i, c, n : Answered(i, c, n)' <=> Answered(i, c, n)
         /\ \A i, c : Complete(i, c)' <=> Complete(i, c)
         /\ \A i, c : Done(i, c)' <=> Done(i, c)
         /\ \A i : Baseline(i)' = Baseline(i)
<1>1. \A i, c : Entries(i, c)' = Entries(i, c)
  BY DEF Entries
<1>2. \A i, c, n : Answered(i, c, n)' <=> Answered(i, c, n)
  BY DEF Answered
<1>3. \A i, c : Complete(i, c)' <=> Complete(i, c)
  BY <1>2, SameRequests DEF Complete
<1>4. \A i, c : Done(i, c)' <=> Done(i, c)
  BY <1>1, <1>3, SameRequests DEF Done
<1>5. \A i : Baseline(i)' = Baseline(i)
  BY DEF Baseline, Entries
<1> QED BY <1>1, <1>2, <1>3, <1>4, <1>5

\* A page is scheduled: its first check is the response time check.
LEMMA ScheduleFirstStep ==
  ASSUME IInv, NEW id \in Id, ScheduleFirst(id)
  PROVE  IInv'
<1> USE DEF IInv
<1>1. /\ id \notin audited /\ audited' = audited \cup {id} /\ pages' = pages /\ checks' = checks
      /\ meta' = meta /\ answered' = answered /\ issues' = issues
  BY DEF ScheduleFirst
<1>2. kInvalidId \notin DOMAIN meta
  BY DEF MetaInv, RunnersInv, ConfigInv
<1>3. PICK created : created = CreateRequests(id, 1)
  OBVIOUS
<1>4. 1 \in DOMAIN checks
  BY DEF ConfigInv
<1> DEFINE first == [check |-> 1, requests |-> created, open |-> DOMAIN created]
<1>5. ScheduleNextCheck(id, 1, meta) = <<first>> /\ DOMAIN created # {}
  BY <1>2, <1>3, NextCheck
<1>6. runners' = Insert(runners, id, first)
  <2>1. <<first>> # <<>> /\ Head(<<first>>) = first
    OBVIOUS
  <2> HIDE DEF first
  <2> QED BY <1>5, <2>1 DEF ScheduleFirst
<1>7. id \notin DOMAIN runners
  BY <1>1 DEF RunnersInv
<1>8. /\ DOMAIN runners' = DOMAIN runners \cup {id}
      /\ runners' = [i \in DOMAIN runners \cup {id} |-> IF i = id THEN first ELSE runners[i]]
      /\ runners'[id] = first /\ \A i \in DOMAIN runners : runners'[i] = runners[i]
  <2> HIDE DEF first
  <2> QED BY <1>6, <1>7 DEF Insert
<1>9. /\ first.check = 1 /\ first.requests = created /\ first.open = DOMAIN created
      /\ {"check", "requests", "open"} \subseteq DOMAIN first
  OBVIOUS
<1> HIDE DEF first
<1>10. \A c : Entries(id, c) = {} /\ \A n : ~Answered(id, c, n)
  BY <1>1 DEF AnsweredInv, Entries, Answered
<1>11. /\ \A i, c : Entries(i, c)' = Entries(i, c)
       /\ \A i, c, n : Answered(i, c, n)' <=> Answered(i, c, n)
       /\ \A i, c : Complete(i, c)' <=> Complete(i, c)
       /\ \A i, c : Done(i, c)' <=> Done(i, c)
       /\ \A i : Baseline(i)' = Baseline(i)
  BY <1>1, SameHistory
<1>12. /\ \A i, c : CreateRequests(i, c)' = CreateRequests(i, c)
       /\ Id' = Id
  BY <1>1, SameRequests
<1>13. ConfigInv'
  BY <1>1, <1>12 DEF ConfigInv
<1>14. AnsweredInv'
  BY <1>1, <1>12 DEF AnsweredInv
<1>15. RunnersInv'
  <2>1. ASSUME NEW i \in DOMAIN runners
        PROVE  RunnerInv(i, runners[i].check, runners[i].requests, runners[i].open)'
    <3>1. PICK c, requests, open : c = runners[i].check /\ requests = runners[i].requests
                                   /\ open = runners[i].open
      OBVIOUS
    <3>2. RunnerInv(i, c, requests, open)
      BY <3>1 DEF RunnersInv
    <3>3. RunnerInv(i, c, requests, open)'
      BY <1>1, <1>11, <1>12, <3>2 DEF RunnerInv
    <3> QED BY <1>8, <3>1, <3>3
  <2>2. RunnerInv(id, 1, created, DOMAIN created)'
    <3>1. created = [n \in DOMAIN created |-> created[n]]
      BY <1>3 DEF CreateRequests
    <3>2. \A d \in DOMAIN checks : ~(d < 1)
      BY DEF ConfigInv
    <3>3. DOMAIN created \ DOMAIN created = {}
      OBVIOUS
    <3> QED BY <1>1, <1>3, <1>4, <1>5, <1>10, <1>11, <1>12, <3>1, <3>2, <3>3 DEF RunnerInv
  <2>3. \A i \in DOMAIN runners' :
          RunnerInv(i, runners[i].check, runners[i].requests, runners[i].open)'
    BY <1>8, <1>9, <2>1, <2>2
  <2>4. \A i \in DOMAIN runners' : {"check", "requests", "open"} \subseteq DOMAIN runners'[i]
    BY <1>8, <1>9 DEF RunnersInv
  <2>5. audited' \subseteq Id' /\ DOMAIN runners' \subseteq audited'
    BY <1>1, <1>8, <1>12 DEF RunnersInv
  <2>6. \A i \in audited' \ DOMAIN runners' : \A c \in DOMAIN checks' : Done(i, c)'
    BY <1>1, <1>8, <1>11 DEF RunnersInv
  <2> QED BY <2>3, <2>4, <2>5, <2>6 DEF RunnersInv
<1>16. MetaInv'
  <2>1. DOMAIN meta' = {i \in audited' : i \in DOMAIN runners' => runners'[i].check > 1}
    <3>1. \A i \in audited : (i \in DOMAIN runners' => runners'[i].check > 1) <=>
                              (i \in DOMAIN runners => runners[i].check > 1)
      BY <1>1, <1>8
    <3>2. ~(id \in DOMAIN runners' => runners'[id].check > 1)
      BY <1>8, <1>9
    <3>3. DOMAIN meta' = {i \in audited : i \in DOMAIN runners => runners[i].check > 1}
      BY <1>1 DEF MetaInv
    <3> QED BY <1>1, <3>1, <3>2, <3>3
  <2> QED BY <1>1, <1>11, <2>1 DEF MetaInv
<1>17. IssuesInv'
  <2>1. \A i \in issues' : \E e \in answered' : i = [page |-> e.page, check |-> e.check, n |-> e.n]
    BY <1>1 DEF IssuesInv
  <2>2. /\ \A i, c, n : IsIssue(i, c, n)' <=> IsIssue(i, c, n)
        /\ \A c, req : EvaluateSingle(c, req, meta)' <=> EvaluateSingle(c, req, meta)
    BY <1>1 DEF IsIssue, EvaluateSingle
  <2>3. \A i, c : Positive(i, c)' <=> Positive(i, c)
    BY <1>1, <1>11, <2>2 DEF Positive
  <2>4. \A e \in answered' : checks'[e.check].serial =>
          (IsIssue(e.page, e.check, e.n)' <=> EvaluateSingle(e.check, e.request, meta)')
    BY <1>1, <2>2 DEF IssuesInv
  <2>5. ASSUME NEW c \in DOMAIN checks
        PROVE  /\ ~ \E n \in DOMAIN CreateRequests(id, c) : IsIssue(id, c, n)
               /\ ~(Complete(id, c) /\ Positive(id, c))
    <3>1. ASSUME NEW n, IsIssue(id, c, n) PROVE FALSE
      <4>1. PICK e \in answered : [page |-> id, check |-> c, n |-> n] =
                                  [page |-> e.page, check |-> e.check, n |-> e.n]
        BY <3>1 DEF IssuesInv, IsIssue
      <4> QED BY <1>10, <4>1 DEF Answered
    <3>2. c = 1 => ~Complete(id, c)
      BY <1>3, <1>5, <1>10 DEF Complete
    <3>3. c # 1 => ~Positive(id, c)
      BY <1>10 DEF Positive
    <3> QED BY <3>1, <3>2, <3>3
  <2>6. \A i \in audited' : \A c \in DOMAIN checks' : ~checks'[c].serial =>
          ((\E n \in DOMAIN CreateRequests(i, c)' : IsIssue(i, c, n)') <=>
             Complete(i, c)' /\ Positive(i, c)')
    BY <1>1, <1>11, <1>12, <2>2, <2>3, <2>5 DEF IssuesInv
  <2> QED BY <2>1, <2>4, <2>6 DEF IssuesInv
<1> QED BY <1>13, <1>14, <1>15, <1>16, <1>17

\* What RequestCallback does when request n of check c is answered with req.
CallbackStep(id, n, c, req, reqs) ==
  /\ id \in audited /\ id \in Id /\ c \in DOMAIN checks /\ n \in runners[id].open
  /\ c = runners[id].check
  /\ RunnerInv(id, c, runners[id].requests, runners[id].open)
  /\ reqs = [runners[id].requests EXCEPT ![n] = req]
  /\ \E a \in Answers : req = WithAnswer(CreateRequests(id, c)[n], a)
  /\ IsAnswered(req) /\ req.parent_id = id
  /\ pages' = pages /\ checks' = checks /\ audited' = audited
  /\ answered' = answered \cup {Entry(id, c, n, req)}
  /\ meta' = MetaAfter(c, reqs, runners[id].open = {n})
  /\ issues' =
       IF IF checks[c].serial THEN EvaluateSingle(c, req, meta)
          ELSE runners[id].open = {n} /\ Evaluate(c, reqs)
       THEN issues \cup {[page |-> id, check |-> c, n |-> n]} ELSE issues

\* The answer to an open request is the answer to the request that was created.
LEMMA CallbackFacts ==
  ASSUME IInv, NEW id \in DOMAIN runners, NEW n \in runners[id].open, NEW a \in Answers,
         RequestCallback(id, n, a),
         NEW c, c = runners[id].check, NEW req, req = WithAnswer(runners[id].requests[n], a),
         NEW reqs, reqs = [runners[id].requests EXCEPT ![n] = req]
  PROVE  CallbackStep(id, n, c, req, reqs)
<1> USE DEF IInv
<1>1. /\ RunnerInv(id, c, runners[id].requests, runners[id].open)
      /\ id \in audited /\ id \in Id
  BY DEF RunnersInv
<1>2. /\ c \in DOMAIN checks /\ n \in DOMAIN CreateRequests(id, c)
      /\ runners[id].requests[n] = CreateRequests(id, c)[n]
  BY <1>1 DEF RunnerInv
<1>3. IsAnswered(req) /\ req.parent_id = id
  <2>1. PICK m \in Nat :
          /\ DOMAIN CreateRequests(id, c) = 1..m
          /\ \A k \in 1..m : IsMessage(Protos(id, c)[k]) /\
               CreateRequests(id, c)[k] = NewAuditRequest(Protos(id, c)[k], id, pages[id].time)
    BY <1>1, <1>2, CreatedFacts
  <2>2. PICK proto : IsMessage(proto) /\
          CreateRequests(id, c)[n] = NewAuditRequest(proto, id, pages[id].time)
    BY <1>2, <2>1
  <2>3. req = WithAnswer(NewAuditRequest(proto, id, pages[id].time), a)
    BY <1>2, <2>2
  <2> QED BY <2>2, <2>3, AnswerFacts
<1>4. /\ pages' = pages /\ checks' = checks /\ audited' = audited
      /\ answered' = answered \cup {Entry(id, c, n, req)}
      /\ meta' = MetaAfter(c, reqs, runners[id].open = {n})
      /\ issues' =
           IF IF checks[c].serial THEN EvaluateSingle(c, req, meta)
              ELSE runners[id].open = {n} /\ Evaluate(c, reqs)
           THEN issues \cup {[page |-> req.parent_id, check |-> c, n |-> n]} ELSE issues
  BY DEF RequestCallback, WithAnswer, Entry
<1> QED BY <1>1, <1>2, <1>3, <1>4 DEF CallbackStep

\* What the step adds to the history, and what it leaves alone.
LEMMA CallbackHistory ==
  ASSUME IInv, NEW id, NEW n, NEW c, NEW req, NEW reqs, CallbackStep(id, n, c, req, reqs)
  PROVE  /\ ~Answered(id, c, n) /\ n \in DOMAIN CreateRequests(id, c)
         /\ \A i, d : CreateRequests(i, d)' = CreateRequests(i, d)
         /\ Id' = Id
         /\ \A i, d : TestsPositive(i, d)' <=> TestsPositive(i, d)
         /\ \A i, d : Entries(i, d)' =
                        Entries(i, d) \cup (IF i = id /\ d = c THEN {Entry(id, c, n, req)} ELSE {})
         /\ \A i, d, k : Answered(i, d, k)' <=> Answered(i, d, k) \/ (i = id /\ d = c /\ k = n)
         /\ \A i, d : (i # id \/ d # c) => /\ Entries(i, d)' = Entries(i, d)
                                           /\ Complete(i, d)' <=> Complete(i, d)
                                           /\ Done(i, d)' <=> Done(i, d)
<1> USE DEF CallbackStep
<1>1. /\ \A i, d : CreateRequests(i, d)' = CreateRequests(i, d)
      /\ Id' = Id
      /\ \A i, d : TestsPositive(i, d)' <=> TestsPositive(i, d)
  BY SameRequests
<1>2. ~Answered(id, c, n) /\ n \in DOMAIN CreateRequests(id, c)
  BY DEF RunnerInv
<1>3. PICK e : e = Entry(id, c, n, req)
  OBVIOUS
<1>4. e.page = id /\ e.check = c /\ e.n = n
  BY <1>3 DEF Entry
<1>5. answered' = answered \cup {e}
  BY <1>3
<1>6. \A i, d : Entries(i, d)' = Entries(i, d) \cup (IF i = id /\ d = c THEN {e} ELSE {})
  BY <1>4, <1>5 DEF Entries
<1>7. \A i, d, k : Answered(i, d, k)' <=> Answered(i, d, k) \/ (i = id /\ d = c /\ k = n)
  BY <1>4, <1>5 DEF Answered
<1>8. \A i, d : (i # id \/ d # c) => (Complete(i, d)' <=> Complete(i, d))
  BY <1>1, <1>7 DEF Complete
<1>9. \A i, d : (i # id \/ d # c) => (Done(i, d)' <=> Done(i, d))
  BY <1>1, <1>6, <1>8 DEF Done
<1>10. \A i, d : (i # id \/ d # c) => Entries(i, d)' = Entries(i, d)
  BY <1>6
<1> QED BY <1>1, <1>2, <1>3, <1>6, <1>7, <1>8, <1>9, <1>10

\* The requests of the runner after the step.
LEMMA CallbackRequests ==
  ASSUME IInv, NEW id, NEW n, NEW c, NEW req, NEW reqs, CallbackStep(id, n, c, req, reqs)
  PROVE  /\ reqs = [k \in DOMAIN CreateRequests(id, c) |-> reqs[k]]
         /\ \A k \in runners[id].open \ {n} :
              reqs[k] = CreateRequests(id, c)[k] /\ ~Answered(id, c, k)'
         /\ \A k \in DOMAIN CreateRequests(id, c) \ (runners[id].open \ {n}) :
              Entry(id, c, k, reqs[k]) \in answered'
         /\ runners[id].open = {n} => Complete(id, c)'
<1>1. PICK old, open, R : /\ old = runners[id].requests /\ open = runners[id].open
                          /\ R = DOMAIN CreateRequests(id, c)
  OBVIOUS
<1>2. /\ old = [k \in R |-> old[k]] /\ open \subseteq R
      /\ \A k \in open : old[k] = CreateRequests(id, c)[k] /\ ~Answered(id, c, k)
      /\ \A k \in R \ open : Entry(id, c, k, old[k]) \in answered
      /\ reqs = [old EXCEPT ![n] = req] /\ n \in open
      /\ answered' = answered \cup {Entry(id, c, n, req)}
  BY <1>1 DEF CallbackStep, RunnerInv
<1>3. DOMAIN old = R
  BY <1>2
<1>4. /\ reqs = [k \in R |-> reqs[k]] /\ reqs[n] = req /\ \A k \in R \ {n} : reqs[k] = old[k]
  BY <1>2, <1>3
<1>5. /\ \A i, d, k : Answered(i, d, k)' <=> Answered(i, d, k) \/ (i = id /\ d = c /\ k = n)
      /\ CreateRequests(id, c)' = CreateRequests(id, c)
  BY CallbackHistory
<1>6. \A k \in open \ {n} : reqs[k] = CreateRequests(id, c)[k] /\ ~Answered(id, c, k)'
  BY <1>2, <1>4, <1>5
<1>7. \A k \in R \ (open \ {n}) : Entry(id, c, k, reqs[k]) \in answered'
  BY <1>2, <1>4
<1>8. ASSUME open = {n} PROVE Complete(id, c)'
  <2>1. \A k \in R : Entry(id, c, k, reqs[k]) \in answered'
    BY <1>7, <1>8
  <2>2. \A k : Entry(id, c, k, reqs[k]).page = id /\ Entry(id, c, k, reqs[k]).check = c
               /\ Entry(id, c, k, reqs[k]).n = k
    BY DEF Entry
  <2>3. \A k \in R : Answered(id, c, k)'
    BY <2>1, <2>2 DEF Answered
  <2> QED BY <1>1, <1>5, <2>3 DEF Complete
<1> QED BY <1>1, <1>4, <1>6, <1>7, <1>8

\* Each request is still answered once.
LEMMA CallbackAnswered ==
  ASSUME IInv, NEW id, NEW n, NEW c, NEW req, NEW reqs, CallbackStep(id, n, c, req, reqs)
  PROVE  AnsweredInv'
<1>1. /\ ~Answered(id, c, n) /\ n \in DOMAIN CreateRequests(id, c)
      /\ \A i, d : CreateRequests(i, d)' = CreateRequests(i, d)
  BY CallbackHistory
<1>2. PICK e : e = Entry(id, c, n, req)
  OBVIOUS
<1>3. e.page = id /\ e.check = c /\ e.n = n
  BY <1>2 DEF Entry
<1>4. /\ answered' = answered \cup {e} /\ audited' = audited /\ checks' = checks
      /\ id \in audited /\ c \in DOMAIN checks
      /\ \E a \in Answers : req = WithAnswer(CreateRequests(id, c)[n], a)
  BY <1>2 DEF CallbackStep
<1>5. \A f \in answered : ~(f.page = id /\ f.check = c /\ f.n = n)
  BY <1>1 DEF Answered
<1>6. ASSUME NEW f \in answered'
      PROVE  /\ f.page \in audited' /\ f.check \in DOMAIN checks'
             /\ f.n \in DOMAIN CreateRequests(f.page, f.check)
             /\ \E a \in Answers :
                  f = Entry(f.page, f.check, f.n, WithAnswer(CreateRequests(f.page, f.check)[f.n], a))
             /\ \A g \in answered' : g.page = f.page /\ g.check = f.check /\ g.n = f.n => g = f
  <2>1. CASE f \in answered
    <3>1. /\ f.page \in audited' /\ f.check \in DOMAIN checks'
          /\ f.n \in DOMAIN CreateRequests(f.page, f.check)
          /\ \E a \in Answers :
                  f = Entry(f.page, f.check, f.n, WithAnswer(CreateRequests(f.page, f.check)[f.n], a))
      BY <1>4, <2>1 DEF IInv, AnsweredInv
    <3>2. \A g \in answered : g.page = f.page /\ g.check = f.check /\ g.n = f.n => g = f
      BY <2>1 DEF IInv, AnsweredInv
    <3>3. ~(e.page = f.page /\ e.check = f.check /\ e.n = f.n)
      BY <1>3, <1>5, <2>1
    <3> QED BY <1>4, <3>1, <3>2, <3>3
  <2>2. CASE f = e
    <3>1. \A g \in answered' : g.page = f.page /\ g.check = f.check /\ g.n = f.n => g = f
      BY <1>3, <1>4, <1>5, <2>2
    <3>2. \E a \in Answers :
            f = Entry(f.page, f.check, f.n, WithAnswer(CreateRequests(f.page, f.check)[f.n], a))
      BY <1>2, <1>3, <1>4, <2>2
    <3> QED BY <1>1, <1>3, <1>4, <2>2, <3>1, <3>2
  <2> QED BY <1>4, <1>6, <2>1, <2>2
<1> QED BY <1>1, <1>6 DEF AnsweredInv

\* When the last request of a check is answered, all of its requests are.
LEMMA LastAnswer ==
  ASSUME IInv, NEW id, NEW n, NEW c, NEW req, NEW reqs, CallbackStep(id, n, c, req, reqs),
         runners[id].open = {n}
  PROVE  \A k \in DOMAIN CreateRequests(id, c) :
           /\ Entry(id, c, k, reqs[k]) \in answered'
           /\ IsAnswered(reqs[k]) /\ reqs[k].parent_id = id
<1> SUFFICES ASSUME NEW k \in DOMAIN CreateRequests(id, c)
             PROVE  /\ Entry(id, c, k, reqs[k]) \in answered'
                    /\ IsAnswered(reqs[k]) /\ reqs[k].parent_id = id
  OBVIOUS
<1>1. Entry(id, c, k, reqs[k]) \in answered'
  BY CallbackRequests
<1>2. answered' = answered \cup {Entry(id, c, n, req)} /\ IsAnswered(req) /\ req.parent_id = id
  BY DEF CallbackStep
<1>3. PICK e : e = Entry(id, c, k, reqs[k])
  OBVIOUS
<1>4. e.page = id /\ e.request = reqs[k]
  BY <1>3 DEF Entry
<1>5. CASE e \in answered
  BY <1>1, <1>3, <1>4, <1>5, EntryFacts DEF IInv, RunnersInv
<1>6. CASE e = Entry(id, c, n, req)
  <2>1. e.request = req
    BY <1>6 DEF Entry
  <2> QED BY <1>1, <1>2, <1>4, <2>1
<1> QED BY <1>1, <1>2, <1>3, <1>5, <1>6

\* The averages: the response time check sets that of its page, and no step
\* changes one that is set.
LEMMA CallbackMeta ==
  ASSUME IInv, NEW id, NEW n, NEW c, NEW req, NEW reqs, CallbackStep(id, n, c, req, reqs)
  PROVE  /\ \A i \in DOMAIN meta : i \in DOMAIN meta' /\ meta'[i] = meta[i]
         /\ kInvalidId \notin DOMAIN meta'
         /\ c = 1 /\ runners[id].open = {n} =>
              DOMAIN meta' = DOMAIN meta \cup {id} /\ meta'[id] = Average(reqs)
         /\ ~(c = 1 /\ runners[id].open = {n}) => meta' = meta
<1>1. /\ id \in Id /\ c = runners[id].check /\ c \in DOMAIN checks
      /\ meta' = MetaAfter(c, reqs, runners[id].open = {n})
  BY DEF CallbackStep
<1>2. DOMAIN meta \subseteq Id /\ kInvalidId \notin Id
  BY DEF IInv, MetaInv, RunnersInv, ConfigInv
<1>3. CASE c = 1 /\ runners[id].open = {n}
  <2>1. 1 \in DOMAIN CreateRequests(id, c)
    <3>1. PICK m \in Nat : DOMAIN CreateRequests(id, c) = 1..m /\ (c = 1 => m = Measurements)
      BY <1>1, CreatedFacts DEF IInv
    <3> QED BY <1>3, <3>1, AuditAssumption
  <2>2. reqs[1].parent_id = id
    BY <1>3, <2>1, LastAnswer
  <2>3. id \notin DOMAIN meta
    <3>1. id \in DOMAIN runners
      <4>1. CASE id \notin DOMAIN runners
        <5>1. Done(id, c)
          BY <1>1, <4>1 DEF IInv, RunnersInv, CallbackStep
        <5>2. n \in DOMAIN CreateRequests(id, c) /\ ~Answered(id, c, n)
          BY DEF CallbackStep, RunnerInv
        <5>3. ~TestsPositive(id, c)
          BY <1>3 DEF IInv, ConfigInv, TestsPositive, ResponseTime
        <5> QED BY <5>1, <5>2, <5>3 DEF Done, Complete
      <4> QED BY <4>1
    <3>2. ~(runners[id].check > 1)
      BY <1>1, <1>3
    <3> QED BY <3>1, <3>2 DEF IInv, MetaInv
  <2>4. meta' = Insert(meta, id, Average(reqs))
    BY <1>1, <1>3, <2>2, <2>3 DEF MetaAfter, AddRequestMetadata
  <2>5. /\ DOMAIN meta' = DOMAIN meta \cup {id} /\ meta'[id] = Average(reqs)
        /\ \A i \in DOMAIN meta : meta'[i] = meta[i]
    BY <2>3, <2>4 DEF Insert
  <2> QED BY <1>1, <1>2, <1>3, <2>5
<1>4. CASE ~(c = 1 /\ runners[id].open = {n})
  BY <1>1, <1>2, <1>4 DEF MetaAfter
<1> QED BY <1>3, <1>4

\* The three ways a runner goes on: it waits for more answers, it begins check
\* d, or it has passed all checks and goes.
Passed(id, d) == CreateRequests(id, d) = <<>> \/ TestsPositive(id, d)
Waits(id, n, c, reqs) ==
  /\ runners[id].open # {n} /\ DOMAIN runners' = DOMAIN runners
  /\ runners'[id].check = c /\ runners'[id].requests = reqs
  /\ runners'[id].open = runners[id].open \ {n}
Begins(id, n, c, d) ==
  /\ runners[id].open = {n} /\ DOMAIN runners' = DOMAIN runners
  /\ runners'[id].check = d /\ runners'[id].requests = CreateRequests(id, d)
  /\ runners'[id].open = DOMAIN CreateRequests(id, d)
  /\ DOMAIN CreateRequests(id, d) # {}
  /\ \A b \in (c + 1)..Len(checks) : b < d => Passed(id, b)
Leaves(id, n, c) ==
  /\ runners[id].open = {n} /\ DOMAIN runners' = DOMAIN runners \ {id}
  /\ \A b \in (c + 1)..Len(checks) : Passed(id, b)

\* A runner goes on in one of these ways, and the others stay.
LEMMA RunnerStep ==
  ASSUME IInv, NEW id \in DOMAIN runners, NEW n \in runners[id].open, NEW a \in Answers,
         RequestCallback(id, n, a),
         NEW c, NEW req, req = WithAnswer(runners[id].requests[n], a),
         NEW reqs, CallbackStep(id, n, c, req, reqs)
  PROVE  /\ \A i \in DOMAIN runners \ {id} : runners'[i] = runners[i]
         /\ id \in DOMAIN runners' => {"check", "requests", "open"} \subseteq DOMAIN runners'[id]
         /\ \/ Waits(id, n, c, reqs)
            \/ \E d \in (c + 1)..Len(checks) : Begins(id, n, c, d)
            \/ Leaves(id, n, c)
<1>1. /\ c = runners[id].check /\ reqs = [runners[id].requests EXCEPT ![n] = req]
      /\ c \in DOMAIN checks /\ id \in Id
  BY DEF CallbackStep
<1>2. {"check", "requests", "open"} \subseteq DOMAIN runners[id]
  BY DEF IInv, RunnersInv
<1>3. runners' =
           IF ~(runners[id].open = {n})
           THEN [runners EXCEPT ![id].requests = reqs, ![id].open = @ \ {n}]
           ELSE LET next == ScheduleNextCheck(id, c + 1, meta') IN
                [i \in DOMAIN runners \ (IF next = <<>> THEN {id} ELSE {}) |->
                   IF i = id THEN Head(next) ELSE runners[i]]
  BY <1>1 DEF RequestCallback, WithAnswer
<1>4. CASE runners[id].open # {n}
  <2>1. runners' = [runners EXCEPT ![id].requests = reqs, ![id].open = @ \ {n}]
    BY <1>3, <1>4
  <2>2. /\ DOMAIN runners' = DOMAIN runners
        /\ \A i \in DOMAIN runners \ {id} : runners'[i] = runners[i]
    BY <1>2, <2>1
  <2>3. /\ runners'[id].check = c /\ runners'[id].requests = reqs
        /\ runners'[id].open = runners[id].open \ {n}
        /\ DOMAIN runners'[id] = DOMAIN runners[id]
    <3>1. PICK r : r = runners[id]
      OBVIOUS
    <3>2. runners'[id] = [r EXCEPT !.requests = reqs, !.open = r.open \ {n}]
      BY <2>1, <3>1
    <3> QED BY <1>1, <1>2, <3>1, <3>2
  <2> QED BY <1>2, <1>4, <2>2, <2>3 DEF Waits
<1>5. CASE runners[id].open = {n}
  <2>1. PICK next : next = ScheduleNextCheck(id, c + 1, meta')
    OBVIOUS
  <2>2. runners' = [i \in DOMAIN runners \ (IF next = <<>> THEN {id} ELSE {}) |->
                      IF i = id THEN Head(next) ELSE runners[i]]
    BY <1>3, <1>5, <2>1
  <2>3. c + 1 \in Nat \ {0} /\ c + 1 # 1
    BY <1>1 DEF IInv, ConfigInv
  <2>4. kInvalidId \notin DOMAIN meta'
    BY CallbackMeta
  <2>5. \/ next = <<>> /\ \A d \in (c + 1)..Len(checks) : Passed(id, d)
        \/ \E d \in (c + 1)..Len(checks) :
             /\ next = <<[check |-> d, requests |-> CreateRequests(id, d),
                          open |-> DOMAIN CreateRequests(id, d)]>>
             /\ DOMAIN CreateRequests(id, d) # {}
             /\ \A b \in (c + 1)..Len(checks) : b < d => Passed(id, b)
    <3>1. PICK f \in Nat \ {0} : f = c + 1
      BY <2>3
    <3>2. PICK m : m = meta' /\ kInvalidId \notin DOMAIN m
      BY <2>4
    <3>3. \/ /\ ScheduleNextCheck(id, f, m) = <<>> /\ f # 1
             /\ \A d \in f..Len(checks) : CreateRequests(id, d) = <<>> \/ TestsPositive(id, d)
          \/ \E d \in f..Len(checks) :
              /\ ScheduleNextCheck(id, f, m) =
                   <<[check |-> d, requests |-> CreateRequests(id, d),
                      open |-> DOMAIN CreateRequests(id, d)]>>
              /\ DOMAIN CreateRequests(id, d) # {}
              /\ f = 1 => d = 1
              /\ \A b \in f..Len(checks) :
                   b < d => CreateRequests(id, b) = <<>> \/ TestsPositive(id, b)
      BY <1>1, <3>2, NextCheck DEF IInv
    <3> QED BY <2>1, <3>1, <3>2, <3>3 DEF Passed
  <2>6. CASE next = <<>> /\ \A d \in (c + 1)..Len(checks) : Passed(id, d)
    <3>1. runners' = [i \in DOMAIN runners \ {id} |-> IF i = id THEN Head(next) ELSE runners[i]]
      BY <2>2, <2>6
    <3>2. /\ DOMAIN runners' = DOMAIN runners \ {id}
          /\ \A i \in DOMAIN runners \ {id} : runners'[i] = runners[i]
      BY <3>1
    <3> QED BY <1>5, <2>6, <3>2 DEF Leaves
  <2>7. ASSUME NEW d \in (c + 1)..Len(checks),
               next = <<[check |-> d, requests |-> CreateRequests(id, d),
                         open |-> DOMAIN CreateRequests(id, d)]>>,
               DOMAIN CreateRequests(id, d) # {},
               \A b \in (c + 1)..Len(checks) : b < d => Passed(id, b)
        PROVE  /\ \A i \in DOMAIN runners \ {id} : runners'[i] = runners[i]
               /\ {"check", "requests", "open"} \subseteq DOMAIN runners'[id]
               /\ Begins(id, n, c, d)
    <3>1. PICK r : r = [check |-> d, requests |-> CreateRequests(id, d),
                        open |-> DOMAIN CreateRequests(id, d)]
      OBVIOUS
    <3>2. next = <<r>> /\ <<r>> # <<>> /\ Head(<<r>>) = r
      BY <2>7, <3>1
    <3>3. runners' = [i \in DOMAIN runners |-> IF i = id THEN r ELSE runners[i]]
      BY <2>2, <3>2
    <3>4. /\ DOMAIN runners' = DOMAIN runners /\ runners'[id] = r
          /\ \A i \in DOMAIN runners \ {id} : runners'[i] = runners[i]
      BY <3>3
    <3> QED BY <1>5, <2>7, <3>1, <3>4 DEF Begins
  <2> QED BY <2>5, <2>6, <2>7
<1> QED BY <1>4, <1>5

\* A check that has no answers yet and is passed over is done.
LEMMA PassedIsDone ==
  ASSUME NEW id, NEW d, Passed(id, d), Entries(id, d) = {}
  PROVE  Done(id, d)
<1>1. CASE CreateRequests(id, d) = <<>>
  <2>1. DOMAIN CreateRequests(id, d) = {}
    BY <1>1
  <2> QED BY <2>1 DEF Done, Complete
<1>2. CASE TestsPositive(id, d)
  BY <1>2 DEF Done
<1> QED BY <1>1, <1>2 DEF Passed

\* Runners after a response.
LEMMA CallbackRunners ==
  ASSUME IInv, NEW id \in DOMAIN runners, NEW n \in runners[id].open, NEW a \in Answers,
         RequestCallback(id, n, a),
         NEW c, NEW req, req = WithAnswer(runners[id].requests[n], a),
         NEW reqs, CallbackStep(id, n, c, req, reqs)
  PROVE  RunnersInv'
<1>1. /\ \A i \in DOMAIN runners \ {id} : runners'[i] = runners[i]
      /\ id \in DOMAIN runners' => {"check", "requests", "open"} \subseteq DOMAIN runners'[id]
      /\ \/ Waits(id, n, c, reqs)
         \/ \E d \in (c + 1)..Len(checks) : Begins(id, n, c, d)
         \/ Leaves(id, n, c)
  BY RunnerStep
<1>2. /\ \A i, d : CreateRequests(i, d)' = CreateRequests(i, d)
      /\ Id' = Id
      /\ \A i, d : (i # id \/ d # c) => Entries(i, d)' = Entries(i, d)
      /\ \A i, d, k : Answered(i, d, k)' <=> Answered(i, d, k) \/ (i = id /\ d = c /\ k = n)
      /\ \A i, d : (i # id \/ d # c) => (Done(i, d)' <=> Done(i, d))
  BY CallbackHistory
<1>3. /\ checks' = checks /\ audited' = audited /\ pages' = pages /\ answered \subseteq answered'
      /\ id \in audited /\ c \in DOMAIN checks /\ c = runners[id].check
      /\ RunnerInv(id, c, runners[id].requests, runners[id].open)
  BY DEF CallbackStep
<1>4. Len(checks) \in Nat /\ DOMAIN checks = 1..Len(checks)
  BY DEF IInv, ConfigInv
<1>5. \/ DOMAIN runners' = DOMAIN runners
      \/ DOMAIN runners' = DOMAIN runners \ {id}
  BY <1>1 DEF Waits, Begins, Leaves
<1>6. audited' \subseteq Id' /\ DOMAIN runners' \subseteq audited'
  BY <1>2, <1>3, <1>5 DEF IInv, RunnersInv
<1>7. ASSUME NEW i \in DOMAIN runners \ {id}
      PROVE  /\ RunnerInv(i, runners[i].check, runners[i].requests, runners[i].open)'
             /\ {"check", "requests", "open"} \subseteq DOMAIN runners'[i]
  <2>1. PICK d, requests, open : d = runners[i].check /\ requests = runners[i].requests
                                 /\ open = runners[i].open
    OBVIOUS
  <2>2. RunnerInv(i, d, requests, open) /\ {"check", "requests", "open"} \subseteq DOMAIN runners[i]
    BY <2>1 DEF IInv, RunnersInv
  <2>3. RunnerInv(i, d, requests, open)'
    BY <1>2, <1>3, <2>2 DEF RunnerInv
  <2> QED BY <1>1, <2>1, <2>2, <2>3
<1>8. /\ \A d \in DOMAIN checks : d < c => Done(id, d)'
      /\ \A d \in DOMAIN checks : d > c => Entries(id, d)' = {}
  BY <1>2, <1>3, <1>4 DEF RunnerInv
<1>9. ASSUME runners[id].open = {n} PROVE Done(id, c)'
  BY <1>9, CallbackRequests DEF Done
<1>10. ASSUME NEW d \in DOMAIN checks, d > c, Passed(id, d) PROVE Done(id, d)'
  <2>1. Entries(id, d) = {}
    BY <1>3, <1>10 DEF RunnerInv
  <2>2. Done(id, d) /\ d # c
    BY <1>4, <1>10, <2>1, PassedIsDone
  <2> QED BY <1>2, <2>2
<1>11. CASE Waits(id, n, c, reqs)
  <2>1. PICK open : open = runners[id].open \ {n}
    OBVIOUS
  <2>2. open # {} /\ open \subseteq DOMAIN CreateRequests(id, c)
    BY <1>3, <1>11, <2>1 DEF Waits, RunnerInv
  <2>3. /\ reqs = [k \in DOMAIN CreateRequests(id, c) |-> reqs[k]]
        /\ \A k \in open : reqs[k] = CreateRequests(id, c)[k] /\ ~Answered(id, c, k)'
        /\ \A k \in DOMAIN CreateRequests(id, c) \ open : Entry(id, c, k, reqs[k]) \in answered'
    BY <2>1, CallbackRequests
  <2>4. RunnerInv(id, c, reqs, open)'
    BY <1>2, <1>3, <1>8, <2>2, <2>3 DEF RunnerInv
  <2>5. RunnerInv(id, runners[id].check, runners[id].requests, runners[id].open)'
    BY <1>11, <2>1, <2>4 DEF Waits
  <2>6. DOMAIN runners' = DOMAIN runners
    BY <1>11 DEF Waits
  <2>7. \A i \in DOMAIN runners' :
          /\ {"check", "requests", "open"} \subseteq DOMAIN runners'[i]
          /\ RunnerInv(i, runners[i].check, runners[i].requests, runners[i].open)'
    BY <1>1, <1>7, <2>5, <2>6
  <2>8. \A i \in audited' \ DOMAIN runners' : \A d \in DOMAIN checks' : Done(i, d)'
    BY <1>2, <1>3, <2>6 DEF IInv, RunnersInv
  <2> QED BY <1>6, <2>7, <2>8 DEF RunnersInv
<1>12. ASSUME NEW d \in (c + 1)..Len(checks), Begins(id, n, c, d) PROVE RunnersInv'
  <2>1. d \in DOMAIN checks /\ d > c /\ d # c
    BY <1>3, <1>4
  <2>2. PICK created : created = CreateRequests(id, d)
    OBVIOUS
  <2>3. Entries(id, d)' = {} /\ \A k : ~Answered(id, d, k)'
    BY <1>8, <2>1 DEF Entries, Answered
  <2>4. \A b \in DOMAIN checks : b < d => Done(id, b)'
    <3> SUFFICES ASSUME NEW b \in DOMAIN checks, b < d PROVE Done(id, b)'
      OBVIOUS
    <3>1. CASE b < c
      BY <1>8, <3>1
    <3>2. CASE b = c
      BY <1>9, <1>12, <3>2 DEF Begins
    <3>3. CASE b > c
      <4>1. b \in (c + 1)..Len(checks)
        BY <1>3, <1>4, <3>3
      <4>2. Passed(id, b)
        BY <1>12, <4>1 DEF Begins
      <4> QED BY <1>10, <3>3, <4>2
    <3> QED BY <1>3, <1>4, <3>1, <3>2, <3>3
  <2>5. \A b \in DOMAIN checks : b > d => Entries(id, b)' = {}
    <3>1. \A b \in DOMAIN checks : b > d => b > c
      BY <1>3, <1>4, <2>1
    <3> QED BY <1>8, <3>1
  <2>6. RunnerInv(id, d, created, DOMAIN created)'
    <3>1. created = [k \in DOMAIN created |-> created[k]]
      BY <2>2 DEF CreateRequests
    <3>2. DOMAIN created \ DOMAIN created = {} /\ DOMAIN created # {}
      BY <1>12, <2>2 DEF Begins
    <3> QED BY <1>2, <1>3, <2>1, <2>2, <2>3, <2>4, <2>5, <3>1, <3>2 DEF RunnerInv
  <2>7. RunnerInv(id, runners[id].check, runners[id].requests, runners[id].open)'
    BY <1>12, <2>2, <2>6 DEF Begins
  <2>8. DOMAIN runners' = DOMAIN runners
    BY <1>12 DEF Begins
  <2>9. \A i \in DOMAIN runners' :
          /\ {"check", "requests", "open"} \subseteq DOMAIN runners'[i]
          /\ RunnerInv(i, runners[i].check, runners[i].requests, runners[i].open)'
    BY <1>1, <1>7, <2>7, <2>8
  <2>10. \A i \in audited' \ DOMAIN runners' : \A b \in DOMAIN checks' : Done(i, b)'
    BY <1>2, <1>3, <2>8 DEF IInv, RunnersInv
  <2> QED BY <1>6, <2>9, <2>10 DEF RunnersInv
<1>13. CASE Leaves(id, n, c)
  <2>1. DOMAIN runners' = DOMAIN runners \ {id}
    BY <1>13 DEF Leaves
  <2>2. \A b \in DOMAIN checks : Done(id, b)'
    <3> SUFFICES ASSUME NEW b \in DOMAIN checks PROVE Done(id, b)'
      OBVIOUS
    <3>1. CASE b < c
      BY <1>8, <3>1
    <3>2. CASE b = c
      BY <1>9, <1>13, <3>2 DEF Leaves
    <3>3. CASE b > c
      <4>1. b \in (c + 1)..Len(checks)
        BY <1>3, <1>4, <3>3
      <4>2. Passed(id, b)
        BY <1>13, <4>1 DEF Leaves
      <4> QED BY <1>10, <3>3, <4>2
    <3> QED BY <1>3, <1>4, <3>1, <3>2, <3>3
  <2>3. \A i \in DOMAIN runners' :
          /\ {"check", "requests", "open"} \subseteq DOMAIN runners'[i]
          /\ RunnerInv(i, runners[i].check, runners[i].requests, runners[i].open)'
    BY <1>7, <2>1
  <2>4. \A i \in audited' \ DOMAIN runners' : \A b \in DOMAIN checks' : Done(i, b)'
    BY <1>2, <1>3, <2>1, <2>2 DEF IInv, RunnersInv
  <2> QED BY <1>6, <2>3, <2>4 DEF RunnersInv
<1> QED BY <1>1, <1>11, <1>12, <1>13

\* A page with answers to a check after the first has its average.
LEMMA MeasuredBefore ==
  ASSUME IInv, NEW e \in answered, e.check # 1
  PROVE  e.page \in DOMAIN meta
<1>1. e.page \in audited /\ e.check \in DOMAIN checks
  BY DEF IInv, AnsweredInv
<1>2. Len(checks) \in Nat /\ DOMAIN checks = 1..Len(checks)
  BY DEF IInv, ConfigInv
<1>3. ASSUME e.page \in DOMAIN runners PROVE runners[e.page].check > 1
  <2>1. PICK i, c : i = e.page /\ c = runners[i].check
    OBVIOUS
  <2>2. RunnerInv(i, c, runners[i].requests, runners[i].open)
    BY <1>3, <2>1 DEF IInv, RunnersInv
  <2>3. e \in Entries(i, e.check)
    BY <2>1 DEF Entries
  <2>4. c \in DOMAIN checks /\ ~(e.check > c)
    BY <1>1, <2>2, <2>3 DEF RunnerInv
  <2>5. c > 1
    BY <1>1, <1>2, <2>4
  <2> QED BY <2>1, <2>5
<1> QED BY <1>1, <1>3 DEF IInv, MetaInv

\* So has one with all answers to the first.
LEMMA MeasuredComplete ==
  ASSUME IInv, NEW i \in audited, Complete(i, 1)
  PROVE  i \in DOMAIN meta
<1>1. Len(checks) \in Nat /\ DOMAIN checks = 1..Len(checks)
  BY DEF IInv, ConfigInv
<1>2. ASSUME i \in DOMAIN runners PROVE runners[i].check > 1
  <2>1. PICK c, open : c = runners[i].check /\ open = runners[i].open
    OBVIOUS
  <2>2. RunnerInv(i, c, runners[i].requests, open)
    BY <1>2, <2>1 DEF IInv, RunnersInv
  <2>3. c \in DOMAIN checks /\ \E k \in DOMAIN CreateRequests(i, c) : ~Answered(i, c, k)
    BY <2>2 DEF RunnerInv
  <2>4. c # 1
    BY <2>3 DEF Complete
  <2>5. c > 1
    BY <1>1, <2>3, <2>4
  <2> QED BY <2>1, <2>5
<1> QED BY <1>2 DEF IInv, MetaInv

\* The last measurement makes the average the baseline of the page.
LEMMA CallbackBaseline ==
  ASSUME IInv, NEW id, NEW n, NEW c, NEW req, NEW reqs, CallbackStep(id, n, c, req, reqs),
         c = 1, runners[id].open = {n}
  PROVE  Average(reqs) = Baseline(id)' /\ Average(reqs) \in Nat
<1>1. id \in Id /\ c \in DOMAIN checks
  BY DEF CallbackStep
<1>2. Measurements \in Nat \ {0}
  BY AuditAssumption
<1>3. DOMAIN CreateRequests(id, c) = 1..Measurements
  <2>1. PICK m \in Nat : DOMAIN CreateRequests(id, c) = 1..m /\ (c = 1 => m = Measurements)
    BY <1>1, CreatedFacts DEF IInv
  <2> QED BY <2>1
<1>4. reqs = [k \in 1..Measurements |-> reqs[k]]
  <2>1. PICK R : R = DOMAIN CreateRequests(id, c) /\ reqs = [k \in R |-> reqs[k]]
    BY CallbackRequests
  <2>2. R = 1..Measurements
    BY <1>3, <2>1
  <2> QED BY <2>1, <2>2
<1>5. \A k \in 1..Measurements : Entry(id, c, k, reqs[k]) \in answered' /\ IsAnswered(reqs[k])
  BY <1>3, LastAnswer
<1>6. PICK E : E = Entries(id, 1)'
  OBVIOUS
<1>7. \A k \in 1..Measurements : (CHOOSE e \in E : e.n = k).request = reqs[k]
  <2> SUFFICES ASSUME NEW k \in 1..Measurements
               PROVE  (CHOOSE e \in E : e.n = k).request = reqs[k]
    OBVIOUS
  <2>1. PICK x : x = Entry(id, c, k, reqs[k])
    OBVIOUS
  <2>2. x.page = id /\ x.check = 1 /\ x.n = k /\ x.request = reqs[k]
    BY <2>1 DEF Entry
  <2>3. x \in E
    BY <1>5, <1>6, <2>1, <2>2 DEF Entries
  <2>4. AnsweredInv'
    BY CallbackAnswered
  <2>5. \A e \in E : e.n = k => e = x
    <3>1. \A e \in E : e \in answered' /\ e.page = id /\ e.check = 1
      BY <1>6 DEF Entries
    <3>2. \A e, f \in answered' : f.page = e.page /\ f.check = e.check /\ f.n = e.n => f = e
      BY <2>4 DEF AnsweredInv
    <3> QED BY <2>2, <2>3, <3>1, <3>2
  <2>6. (CHOOSE e \in E : e.n = k) = x
    BY <2>2, <2>3, <2>5
  <2> QED BY <2>2, <2>6
<1>8. reqs = [k \in 1..Measurements |-> (CHOOSE e \in E : e.n = k).request]
  BY <1>4, <1>7
<1>9. Baseline(id)' = Average([k \in 1..Measurements |-> (CHOOSE e \in E : e.n = k).request])
  BY <1>6 DEF Baseline, AverageOf
<1>10. Average(reqs) \in Nat
  BY <1>2, <1>4, <1>5, AverageIsNat DEF IsAnswered
<1> QED BY <1>8, <1>9, <1>10

\* A baseline depends on the measurements of its page only.
LEMMA SameBaseline ==
  ASSUME NEW i, Entries(i, 1)' = Entries(i, 1)
  PROVE  Baseline(i)' = Baseline(i)
BY DEF Baseline

\* The averages after a response.
LEMMA CallbackMetaInv ==
  ASSUME IInv, NEW id \in DOMAIN runners, NEW n \in runners[id].open, NEW a \in Answers,
         RequestCallback(id, n, a),
         NEW c, NEW req, req = WithAnswer(runners[id].requests[n], a),
         NEW reqs, CallbackStep(id, n, c, req, reqs)
  PROVE  MetaInv'
<1>1. /\ \A i \in DOMAIN runners \ {id} : runners'[i] = runners[i]
      /\ \/ Waits(id, n, c, reqs)
         \/ \E d \in (c + 1)..Len(checks) : Begins(id, n, c, d)
         \/ Leaves(id, n, c)
  BY RunnerStep
<1>2. /\ \A i \in DOMAIN meta : i \in DOMAIN meta' /\ meta'[i] = meta[i]
      /\ c = 1 /\ runners[id].open = {n} =>
           DOMAIN meta' = DOMAIN meta \cup {id} /\ meta'[id] = Average(reqs)
      /\ ~(c = 1 /\ runners[id].open = {n}) => meta' = meta
  BY CallbackMeta
<1>3. /\ checks' = checks /\ audited' = audited
      /\ id \in audited /\ c \in DOMAIN checks /\ c = runners[id].check
  BY DEF CallbackStep
<1>4. Len(checks) \in Nat /\ DOMAIN checks = 1..Len(checks)
  BY DEF IInv, ConfigInv
<1>5. id \in DOMAIN meta <=> c # 1
  <2>1. id \in DOMAIN meta <=> c > 1
    BY <1>3 DEF IInv, MetaInv
  <2> QED BY <1>3, <1>4, <2>1
<1>6. id \in DOMAIN meta' <=> c # 1 \/ runners[id].open = {n}
  BY <1>2, <1>5
<1>7. (id \in DOMAIN runners' => runners'[id].check > 1) <=> c # 1 \/ runners[id].open = {n}
  <2>1. CASE Waits(id, n, c, reqs)
    <3>1. c > 1 <=> c # 1
      BY <1>3, <1>4
    <3> QED BY <2>1, <3>1 DEF Waits
  <2>2. ASSUME NEW d \in (c + 1)..Len(checks), Begins(id, n, c, d)
        PROVE  (id \in DOMAIN runners' => runners'[id].check > 1)
               /\ runners[id].open = {n}
    <3>1. d > 1
      BY <1>3, <1>4
    <3> QED BY <2>2, <3>1 DEF Begins
  <2>3. CASE Leaves(id, n, c)
    BY <2>3 DEF Leaves
  <2> QED BY <1>1, <2>1, <2>2, <2>3
<1>8. \A i \in audited \ {id} : /\ i \in DOMAIN runners' <=> i \in DOMAIN runners
                                /\ i \in DOMAIN runners => runners'[i] = runners[i]
                                /\ i \in DOMAIN meta' <=> i \in DOMAIN meta
  <2>1. \/ DOMAIN runners' = DOMAIN runners
        \/ DOMAIN runners' = DOMAIN runners \ {id}
    BY <1>1 DEF Waits, Begins, Leaves
  <2> QED BY <1>1, <1>2, <2>1
<1>9. DOMAIN meta' \subseteq audited
  <2>1. DOMAIN meta \subseteq audited
    BY DEF IInv, MetaInv
  <2> QED BY <1>2, <1>3, <2>1
<1>10. DOMAIN meta' = {i \in audited' : i \in DOMAIN runners' => runners'[i].check > 1}
  <2>1. \A i \in audited \ {id} : i \in DOMAIN meta' <=>
          (i \in DOMAIN runners' => runners'[i].check > 1)
    BY <1>8 DEF IInv, MetaInv
  <2> QED BY <1>3, <1>6, <1>7, <1>9, <2>1
<1>11. ASSUME NEW i \in DOMAIN meta PROVE meta'[i] = Baseline(i)' /\ meta'[i] \in Nat
  <2>1. i # id \/ 1 # c
    BY <1>5, <1>11
  <2>2. Entries(i, 1)' = Entries(i, 1)
    BY <2>1, CallbackHistory
  <2>3. Baseline(i)' = Baseline(i)
    BY <2>2, SameBaseline
  <2>4. meta[i] = Baseline(i) /\ meta[i] \in Nat
    BY <1>11 DEF IInv, MetaInv
  <2> QED BY <1>2, <1>11, <2>3, <2>4
<1>12. ASSUME NEW i \in DOMAIN meta', i \notin DOMAIN meta
       PROVE  meta'[i] = Baseline(i)' /\ meta'[i] \in Nat
  <2>1. i = id /\ c = 1 /\ runners[id].open = {n} /\ meta'[id] = Average(reqs)
    BY <1>2, <1>12
  <2>2. Average(reqs) = Baseline(id)' /\ Average(reqs) \in Nat
    BY <2>1, CallbackBaseline
  <2> QED BY <2>1, <2>2
<1> QED BY <1>10, <1>11, <1>12 DEF MetaInv

\* The issues after a response.
LEMMA CallbackIssues ==
  ASSUME IInv, NEW id, NEW n, NEW c, NEW req, NEW reqs, CallbackStep(id, n, c, req, reqs)
  PROVE  IssuesInv'
<1> DEFINE hit == IF checks[c].serial THEN EvaluateSingle(c, req, meta)
                  ELSE runners[id].open = {n} /\ Evaluate(c, reqs)
           new == [page |-> id, check |-> c, n |-> n]
<1>1. /\ ~Answered(id, c, n) /\ n \in DOMAIN CreateRequests(id, c)
      /\ \A i, d : CreateRequests(i, d)' = CreateRequests(i, d)
      /\ \A i, d : Entries(i, d)' =
                     Entries(i, d) \cup (IF i = id /\ d = c THEN {Entry(id, c, n, req)} ELSE {})
      /\ \A i, d, k : Answered(i, d, k)' <=> Answered(i, d, k) \/ (i = id /\ d = c /\ k = n)
      /\ \A i, d : (i # id \/ d # c) => Entries(i, d)' = Entries(i, d)
      /\ \A i, d : (i # id \/ d # c) => (Complete(i, d)' <=> Complete(i, d))
  BY CallbackHistory
<1>2. /\ checks' = checks /\ audited' = audited /\ pages' = pages
      /\ answered' = answered \cup {Entry(id, c, n, req)}
      /\ id \in audited /\ c \in DOMAIN checks
      /\ IsAnswered(req) /\ req.parent_id = id
      /\ n \in runners[id].open /\ c = runners[id].check
      /\ RunnerInv(id, c, runners[id].requests, runners[id].open)
  BY DEF CallbackStep
<1>3. issues' = IF hit THEN issues \cup {new} ELSE issues
  BY DEF CallbackStep
<1>4. /\ \A i \in DOMAIN meta : i \in DOMAIN meta' /\ meta'[i] = meta[i]
      /\ c = 1 /\ runners[id].open = {n} =>
           DOMAIN meta' = DOMAIN meta \cup {id} /\ meta'[id] = Average(reqs)
      /\ ~(c = 1 /\ runners[id].open = {n}) => meta' = meta
  <2> HIDE DEF hit, new
  <2>1. \A i \in DOMAIN meta : i \in DOMAIN meta' /\ meta'[i] = meta[i]
    BY CallbackMeta
  <2>2. ASSUME c = 1, runners[id].open = {n}
        PROVE  DOMAIN meta' = DOMAIN meta \cup {id} /\ meta'[id] = Average(reqs)
    BY <2>2, CallbackMeta
  <2>3. ~(c = 1 /\ runners[id].open = {n}) => meta' = meta
    BY CallbackMeta
  <2> QED BY <2>1, <2>2, <2>3
<1>5. PICK x : x = Entry(id, c, n, req) /\ x.page = id /\ x.check = c /\ x.n = n /\ x.request = req
  <2>1. PICK x : x = Entry(id, c, n, req)
    OBVIOUS
  <2>2. x.page = id /\ x.check = c /\ x.n = n /\ x.request = req
    BY <2>1 DEF Entry
  <2> QED BY <2>1, <2>2
<1>6. new \notin issues
  <2>1. ASSUME new \in issues PROVE FALSE
    <3>1. PICK e \in answered : new = [page |-> e.page, check |-> e.check, n |-> e.n]
      BY <2>1 DEF IInv, IssuesInv
    <3> QED BY <1>1, <3>1 DEF Answered
  <2> QED BY <2>1
<1>7. \A i, d, k : IsIssue(i, d, k)' <=> IsIssue(i, d, k) \/ (hit /\ i = id /\ d = c /\ k = n)
  <2>1. \A i, d, k : [page |-> i, check |-> d, n |-> k] = new <=> i = id /\ d = c /\ k = n
    OBVIOUS
  <2> HIDE DEF hit, new
  <2> QED BY <1>3, <2>1 DEF IsIssue
<1>8. ~IsIssue(id, c, n)
  BY <1>6 DEF IsIssue
<1>9. checks[1].serial = FALSE
  BY DEF IInv, ConfigInv, ResponseTime
<1>10. \A d, r, m : EvaluateSingle(d, r, m) <=>
                      checks[d].has_matching_rule /\ MatchSingle(checks[d].matching, r, m)
  BY DEF EvaluateSingle
<1>11. \A d, r : EvaluateSingle(d, r, meta)' <=>
                   checks[d].has_matching_rule /\ MatchSingle(checks[d].matching, r, meta')
  BY <1>2 DEF EvaluateSingle
<1>12. \A e \in answered : e.check # 1 =>
         (EvaluateSingle(e.check, e.request, meta)' <=> EvaluateSingle(e.check, e.request, meta))
  <2> SUFFICES ASSUME NEW e \in answered, e.check # 1
               PROVE  MatchSingle(checks[e.check].matching, e.request, meta') <=>
                      MatchSingle(checks[e.check].matching, e.request, meta)
    BY <1>10, <1>11
  <2>1. e.request.parent_id = e.page
    BY EntryFacts DEF IInv, RunnersInv
  <2>2. e.page \in DOMAIN meta
    BY MeasuredBefore
  <2>3. PICK m1, m2 : m1 = meta' /\ m2 = meta
    OBVIOUS
  <2>4. e.page \in DOMAIN m1 /\ e.page \in DOMAIN m2 /\ m1[e.page] = m2[e.page]
    BY <1>4, <2>2, <2>3
  <2> QED BY <2>1, <2>3, <2>4, MatchSame
<1> HIDE DEF new
<1>13. \A i \in issues' : \E e \in answered' : i = [page |-> e.page, check |-> e.check, n |-> e.n]
  <2>1. \A i \in issues : \E e \in answered : i = [page |-> e.page, check |-> e.check, n |-> e.n]
    BY DEF IInv, IssuesInv
  <2>2. new = [page |-> x.page, check |-> x.check, n |-> x.n] /\ x \in answered'
    BY <1>2, <1>5 DEF new
  <2> HIDE DEF hit
  <2> QED BY <1>2, <1>3, <2>1, <2>2
<1>14. ASSUME NEW e \in answered', checks'[e.check].serial
       PROVE  IsIssue(e.page, e.check, e.n)' <=> EvaluateSingle(e.check, e.request, meta)'
  <2>1. e.check # 1
    BY <1>2, <1>9, <1>14
  <2>2. CASE e \in answered
    <3>1. ~(e.page = id /\ e.check = c /\ e.n = n)
      BY <1>1, <2>2 DEF Answered
    <3>2. IsIssue(e.page, e.check, e.n) <=> EvaluateSingle(e.check, e.request, meta)
      BY <1>2, <1>14, <2>2 DEF IInv, IssuesInv
    <3> QED BY <1>7, <1>12, <2>1, <2>2, <3>1, <3>2
  <2>3. CASE e = x
    <3>1. hit <=> EvaluateSingle(c, req, meta)
      BY <1>2, <1>5, <1>14, <2>3
    <3>2. meta' = meta
      BY <1>4, <1>5, <2>1, <2>3
    <3>3. EvaluateSingle(c, req, meta)' <=> EvaluateSingle(c, req, meta)
      BY <1>10, <1>11, <3>2
    <3>4. e.page = id /\ e.check = c /\ e.n = n /\ e.request = req
      BY <1>5, <2>3
    <3>5. IsIssue(id, c, n)' <=> hit
      BY <1>7, <1>8
    <3> HIDE DEF hit
    <3> QED BY <3>1, <3>3, <3>4, <3>5
  <2> QED BY <1>2, <1>5, <1>14, <2>2, <2>3
<1>15. ASSUME NEW i \in audited, NEW d \in DOMAIN checks, ~checks[d].serial, i # id \/ d # c
       PROVE  (\E k \in DOMAIN CreateRequests(i, d) : IsIssue(i, d, k)') <=>
                Complete(i, d)' /\ Positive(i, d)'
  <2>1. \A k : IsIssue(i, d, k)' <=> IsIssue(i, d, k)
    BY <1>7, <1>15
  <2>2. (\E k \in DOMAIN CreateRequests(i, d) : IsIssue(i, d, k)) <=>
          Complete(i, d) /\ Positive(i, d)
    BY <1>15 DEF IInv, IssuesInv
  <2>3. ASSUME Complete(i, d) PROVE Positive(i, d)' <=> Positive(i, d)
    <3>1. CASE d = 1
      <4>1. i \in DOMAIN meta
        BY <2>3, <3>1, MeasuredComplete
      <4> QED BY <1>4, <3>1, <4>1 DEF Positive
    <3>2. CASE d # 1
      <4>1. Entries(i, d)' = Entries(i, d)
        BY <1>1, <1>15
      <4>2. \A e \in Entries(i, d) :
              EvaluateSingle(d, e.request, meta)' <=> EvaluateSingle(d, e.request, meta)
        BY <1>12, <3>2 DEF Entries
      <4>3. Positive(i, d)' <=> \E e \in Entries(i, d)' : EvaluateSingle(d, e.request, meta)'
        BY <3>2 DEF Positive
      <4>4. Positive(i, d) <=> \E e \in Entries(i, d) : EvaluateSingle(d, e.request, meta)
        BY <3>2 DEF Positive
      <4> QED BY <4>1, <4>2, <4>3, <4>4
    <3> QED BY <3>1, <3>2
  <2>4. Complete(i, d)' <=> Complete(i, d)
    BY <1>1, <1>15
  <2> QED BY <2>1, <2>2, <2>3, <2>4
<1>16. ASSUME ~checks[c].serial
       PROVE  (\E k \in DOMAIN CreateRequests(id, c) : IsIssue(id, c, k)') <=>
                Complete(id, c)' /\ Positive(id, c)'
  <2>1. ~Complete(id, c)
    BY <1>1 DEF Complete
  <2>2. \A k \in DOMAIN CreateRequests(id, c) : ~IsIssue(id, c, k)
    BY <1>2, <1>16, <2>1 DEF IInv, IssuesInv
  <2>3. (\E k \in DOMAIN CreateRequests(id, c) : IsIssue(id, c, k)') <=> hit
    <3> HIDE DEF hit
    <3> QED BY <1>1, <1>7, <2>2
  <2>4. hit <=> runners[id].open = {n} /\ Evaluate(c, reqs)
    BY <1>16
  <2>5. Complete(id, c)' <=> runners[id].open = {n}
    <3>1. ASSUME runners[id].open # {n} PROVE ~Complete(id, c)'
      <4>1. PICK k \in runners[id].open : k # n
        BY <1>2, <3>1
      <4>2. k \in DOMAIN CreateRequests(id, c) /\ ~Answered(id, c, k)
        BY <1>2, <4>1 DEF RunnerInv
      <4>3. ~Answered(id, c, k)'
        BY <1>1, <4>1, <4>2
      <4> QED BY <1>1, <4>2, <4>3 DEF Complete
    <3> QED BY <3>1, CallbackRequests
  <2>6. ASSUME runners[id].open = {n} PROVE Evaluate(c, reqs) <=> Positive(id, c)'
    <3>1. CASE c = 1
      BY <1>4, <2>6, <3>1 DEF Evaluate, Positive
    <3>2. CASE c # 1
      <4>1. PICK R : R = DOMAIN CreateRequests(id, c) /\ DOMAIN reqs = R
        BY CallbackRequests
      <4>2. \A k \in R : Entry(id, c, k, reqs[k]) \in answered'
        BY <2>6, <4>1, LastAnswer
      <4>3. \A k \in R : \E e \in Entries(id, c)' : e.request = reqs[k]
        <5>1. \A k : Entry(id, c, k, reqs[k]).page = id /\ Entry(id, c, k, reqs[k]).check = c
                     /\ Entry(id, c, k, reqs[k]).request = reqs[k]
          BY DEF Entry
        <5>2. \A k \in R : Entry(id, c, k, reqs[k]) \in Entries(id, c)'
          BY <4>2, <5>1 DEF Entries
        <5> QED BY <5>1, <5>2
      <4>4. \A e \in Entries(id, c)' : \E k \in R : e.request = reqs[k]
        <5> SUFFICES ASSUME NEW e \in Entries(id, c)' PROVE \E k \in R : e.request = reqs[k]
          OBVIOUS
        <5>1. e \in answered' /\ e.page = id /\ e.check = c
          BY DEF Entries
        <5>2. AnsweredInv'
          BY CallbackAnswered
        <5>3. e.n \in R
          BY <1>1, <4>1, <5>1, <5>2 DEF AnsweredInv
        <5>4. PICK f : f = Entry(id, c, e.n, reqs[e.n])
          OBVIOUS
        <5>5. f \in answered' /\ f.page = id /\ f.check = c /\ f.n = e.n /\ f.request = reqs[e.n]
          BY <4>2, <5>3, <5>4 DEF Entry
        <5>6. f = e
          BY <5>1, <5>2, <5>5 DEF AnsweredInv
        <5> QED BY <5>3, <5>5, <5>6
      <4>5. Positive(id, c)' <=> \E e \in Entries(id, c)' : EvaluateSingle(c, e.request, meta)'
        BY <3>2 DEF Positive
      <4>6. meta' = meta
        BY <1>4, <3>2
      <4>7. Positive(id, c)' <=> \E k \in R : checks[c].has_matching_rule
                                   /\ MatchSingle(checks[c].matching, reqs[k], meta)
        BY <1>11, <4>3, <4>4, <4>5, <4>6
      <4>8. Evaluate(c, reqs) <=> checks[c].has_matching_rule
                                  /\ \E r \in ToSet(reqs) : MatchSingle(checks[c].matching, r, meta)
        BY <3>2 DEF Evaluate, Match
      <4>9. ToSet(reqs) = {reqs[k] : k \in R}
        BY <4>1 DEF ToSet
      <4> QED BY <4>7, <4>8, <4>9
    <3> QED BY <3>1, <3>2
  <2> HIDE DEF hit
  <2> QED BY <2>3, <2>4, <2>5, <2>6
<1>17. \A i \in audited' : \A d \in DOMAIN checks' : ~checks'[d].serial =>
         ((\E k \in DOMAIN CreateRequests(i, d)' : IsIssue(i, d, k)') <=>
            Complete(i, d)' /\ Positive(i, d)')
  BY <1>1, <1>2, <1>15, <1>16
<1> QED BY <1>13, <1>14, <1>17 DEF IssuesInv

\* A response keeps the invariant.
LEMMA RequestCallbackStep ==
  ASSUME IInv, NEW id \in DOMAIN runners, NEW n \in runners[id].open, NEW answer \in Answers,
         RequestCallback(id, n, answer)
  PROVE  IInv'
<1>1. PICK c : c = runners[id].check
  OBVIOUS
<1>2. PICK req : req = WithAnswer(runners[id].requests[n], answer)
  OBVIOUS
<1>3. PICK reqs : reqs = [runners[id].requests EXCEPT ![n] = req]
  OBVIOUS
<1>4. CallbackStep(id, n, c, req, reqs)
  BY <1>1, <1>2, <1>3, CallbackFacts
<1>5. ConfigInv'
  <2>1. pages' = pages /\ checks' = checks
    BY <1>4 DEF CallbackStep
  <2>2. Id' = Id
    BY <2>1 DEF Id
  <2> QED BY <2>1, <2>2 DEF IInv, ConfigInv
<1>6. AnsweredInv'
  BY <1>4, CallbackAnswered
<1>7. RunnersInv'
  BY <1>2, <1>4, CallbackRunners
<1>8. MetaInv'
  BY <1>2, <1>4, CallbackMetaInv
<1>9. IssuesInv'
  BY <1>4, CallbackIssues
<1> QED BY <1>5, <1>6, <1>7, <1>8, <1>9 DEF IInv

\* IInv holds in every state of the auditor.
THEOREM AuditInvariant == Spec => []IInv
<1>1. ASSUME IInv, [Next]_vars PROVE IInv'
  <2>1. ASSUME NEW id \in Id, ScheduleFirst(id) PROVE IInv'
    BY <1>1, <2>1, ScheduleFirstStep
  <2>2. ASSUME NEW id \in Id, NEW answer \in Answers, id \in DOMAIN runners,
               NEW n \in runners[id].open, RequestCallback(id, n, answer)
        PROVE  IInv'
    BY <1>1, <2>2, RequestCallbackStep
  <2>3. CASE UNCHANGED vars
    <3>1. /\ pages' = pages /\ checks' = checks /\ meta' = meta /\ runners' = runners
          /\ audited' = audited /\ answered' = answered /\ issues' = issues
      BY <2>3 DEF vars
    <3>2. /\ \A i, c : CreateRequests(i, c)' = CreateRequests(i, c)
          /\ Id' = Id
      BY <3>1, SameRequests
    <3>3. /\ \A i, c : Entries(i, c)' = Entries(i, c)
          /\ \A i, c, n : Answered(i, c, n)' <=> Answered(i, c, n)
          /\ \A i, c : Complete(i, c)' <=> Complete(i, c)
          /\ \A i, c : Done(i, c)' <=> Done(i, c)
          /\ \A i : Baseline(i)' = Baseline(i)
      BY <3>1, SameHistory
    <3>4. ConfigInv' /\ AnsweredInv' /\ MetaInv'
      BY <1>1, <3>1, <3>2, <3>3 DEF IInv, ConfigInv, AnsweredInv, MetaInv
    <3>5. RunnersInv'
      <4>1. \A i, c, requests, open : RunnerInv(i, c, requests, open)' <=> RunnerInv(i, c, requests, open)
        BY <3>1, <3>2, <3>3 DEF RunnerInv
      <4> QED BY <1>1, <3>1, <3>2, <3>3, <4>1 DEF IInv, RunnersInv
    <3>6. IssuesInv'
      <4>1. /\ \A i, c, n : IsIssue(i, c, n)' <=> IsIssue(i, c, n)
            /\ \A c, req : EvaluateSingle(c, req, meta)' <=> EvaluateSingle(c, req, meta)
        BY <3>1 DEF IsIssue, EvaluateSingle
      <4>2. \A i, c : Positive(i, c)' <=> Positive(i, c)
        BY <3>1, <3>3, <4>1 DEF Positive
      <4> QED BY <1>1, <3>1, <3>2, <3>3, <4>1, <4>2 DEF IInv, IssuesInv
    <3> QED BY <3>4, <3>5, <3>6 DEF IInv
  <2> QED BY <1>1, <2>1, <2>2, <2>3 DEF Next
<1> QED BY <1>1, InitInvariant, PTL DEF Spec
-----------------------------------------------------------------------------
(* The properties.                                                         *)

\* The test of a check after the first.
LEMMA TestFacts ==
  ASSUME ConfigInv, NEW c \in DOMAIN checks, c # 1
  PROVE  /\ checks[c].generator \in GeneratorRule /\ checks[c].matching \in SUBSET Condition
         /\ checks[c].serial \in BOOLEAN /\ checks[c].has_matching_rule \in BOOLEAN
         /\ checks[c].has_matching_rule => RuleIsValid(checks[c].matching)
<1>1. c > 1
  BY DEF ConfigInv
<1>2. checks[c] \in SecurityTest /\ UsableTest(checks[c])
  BY <1>1 DEF ConfigInv
<1> QED BY <1>2 DEF SecurityTest, UsableTest

\* A rule of a check, asked about a request with a known average or with none.
LEMMA CheckDecides ==
  ASSUME ConfigInv, NEW c \in DOMAIN checks, c # 1, checks[c].has_matching_rule,
         ~Mixed(checks[c]), NEW req, IsAnswered(req), NEW averages, NEW average \in Nat,
         average = IF req.parent_id \in DOMAIN averages THEN averages[req.parent_id] ELSE 0
  PROVE  EvaluateSingle(c, req, averages) <=> Satisfied(checks[c].matching, req, average)
<1>1. PICK rule \in SUBSET Condition : rule = checks[c].matching /\ RuleIsValid(rule)
  BY TestFacts
<1>2. \A d \in rule : \A i, j \in DOMAIN d.match :
        d.target = "RESPONSE_HEADER_VALUE" => d.match[i].negative = d.match[j].negative
  BY <1>1 DEF Mixed
<1>3. MatchSingle(rule, req, averages) <=> Satisfied(rule, req, average)
  BY <1>1, <1>2, RulesDecide
<1> QED BY <1>1, <1>3 DEF EvaluateSingle

\* The chain of checks leaves nothing out.
LEMMA CompleteFromInvariant == IInv => AuditsAreComplete
<1> SUFFICES ASSUME IInv PROVE AuditsAreComplete
  OBVIOUS
<1>1. \A id \in DOMAIN runners : runners[id].open # {}
  BY DEF IInv, RunnersInv, RunnerInv
<1>2. ASSUME NEW id \in audited \ DOMAIN runners, NEW c \in DOMAIN checks
      PROVE  \/ Cardinality(Entries(id, c)) = Len(CreateRequests(id, c))
             \/ /\ Entries(id, c) = {}
                /\ checks[c].serial /\ checks[c].has_matching_rule
                /\ Mixed(checks[c]) \/ Satisfied(checks[c].matching, pages[id], 0)
  <2>1. Done(id, c) /\ id \in Id
    BY DEF IInv, RunnersInv
  <2>2. CASE Complete(id, c)
    BY <2>1, <2>2, EntriesCount DEF IInv, RunnersInv
  <2>3. CASE Entries(id, c) = {} /\ TestsPositive(id, c)
    <3>1. checks[c].serial /\ EvaluateSingle(c, pages[id], <<>>)
      BY <2>3 DEF TestsPositive
    <3>2. c # 1
      BY <3>1 DEF IInv, ConfigInv, ResponseTime
    <3>3. checks[c].has_matching_rule
      BY <3>1 DEF EvaluateSingle
    <3>4. IsAnswered(pages[id])
      BY <2>1, PageFacts DEF IInv
    <3>5. PICK none : none = <<>> /\ DOMAIN none = {}
      OBVIOUS
    <3>6. 0 = IF pages[id].parent_id \in DOMAIN none THEN none[pages[id].parent_id] ELSE 0
      BY <3>5
    <3>7. ~Mixed(checks[c]) => Satisfied(checks[c].matching, pages[id], 0)
      <4> SUFFICES ASSUME ~Mixed(checks[c]) PROVE Satisfied(checks[c].matching, pages[id], 0)
        OBVIOUS
      <4>1. PICK req : req = pages[id] /\ IsAnswered(req)
                       /\ 0 = IF req.parent_id \in DOMAIN none THEN none[req.parent_id] ELSE 0
        BY <3>4, <3>6
      <4>2. EvaluateSingle(c, req, none) <=> Satisfied(checks[c].matching, req, 0)
        BY <3>2, <3>3, <4>1, CheckDecides DEF IInv
      <4> QED BY <3>1, <3>5, <4>1, <4>2
    <3> QED BY <2>3, <3>1, <3>3, <3>7
  <2> QED BY <2>1, <2>2, <2>3 DEF Done
<1> QED BY <1>1, <1>2 DEF AuditsAreComplete

\* An answer is judged against the baseline of its page.
LEMMA Reached ==
  ASSUME IInv, NEW e \in answered, e.check # 1, checks[e.check].has_matching_rule,
         ~Mixed(checks[e.check])
  PROVE  EvaluateSingle(e.check, e.request, meta) <=>
           Satisfied(checks[e.check].matching, e.request, Baseline(e.page))
<1>1. /\ e.check \in DOMAIN checks /\ IsAnswered(e.request) /\ e.request.parent_id = e.page
  BY EntryFacts DEF IInv, RunnersInv
<1>2. e.page \in DOMAIN meta
  BY MeasuredBefore
<1>3. PICK b \in Nat : b = Baseline(e.page) /\ b = meta[e.page]
  BY <1>2 DEF IInv, MetaInv
<1>4. PICK req, c : req = e.request /\ c = e.check
  OBVIOUS
<1>5. b = IF req.parent_id \in DOMAIN meta THEN meta[req.parent_id] ELSE 0
  BY <1>1, <1>2, <1>3, <1>4
<1>6. EvaluateSingle(c, req, meta) <=> Satisfied(checks[c].matching, req, b)
  BY <1>1, <1>4, <1>5, CheckDecides DEF IInv
<1> QED BY <1>3, <1>4, <1>6

\* Issues mean what the rules say.
LEMMA IssuesFromInvariant == IInv => IssuesFollowTheRules
<1> SUFFICES ASSUME IInv, NEW id \in Id, NEW c \in DOMAIN checks
             PROVE  LET reached(e) == Satisfied(checks[c].matching, e.request, Baseline(id))
                        all == Cardinality(Entries(id, c)) = Len(CreateRequests(id, c)) /\ Entries(id, c) # {}
                        some == \E n \in 1..Len(CreateRequests(id, c)) : IsIssue(id, c, n)
                        found == all /\ \E e \in Entries(id, c) : reached(e)
                    IN  CASE c = 1 -> some <=> all /\ Baseline(id) > Threshold
                          [] c > 1 /\ ~checks[c].has_matching_rule -> ~some
                          [] c > 1 /\ checks[c].has_matching_rule /\ ~Mixed(checks[c]) ->
                               IF checks[c].serial
                               THEN \A e \in Entries(id, c) : IsIssue(id, c, e.n) <=> reached(e)
                               ELSE /\ some => found
                                    /\ found /\ ~Satisfied(checks[c].matching, pages[id], 0) => some
                          [] OTHER -> TRUE
  BY DEF IssuesFollowTheRules
<1> DEFINE reached(e) == Satisfied(checks[c].matching, e.request, Baseline(id))
           all == Cardinality(Entries(id, c)) = Len(CreateRequests(id, c)) /\ Entries(id, c) # {}
           some == \E n \in 1..Len(CreateRequests(id, c)) : IsIssue(id, c, n)
           found == all /\ \E e \in Entries(id, c) : reached(e)
<1>1. /\ DOMAIN CreateRequests(id, c) = 1..Len(CreateRequests(id, c))
      /\ c = 1 => DOMAIN CreateRequests(id, c) # {}
  <2>1. PICK n \in Nat : /\ DOMAIN CreateRequests(id, c) = 1..n /\ Len(CreateRequests(id, c)) = n
                         /\ c = 1 => n = Measurements
    BY CreatedFacts DEF IInv
  <2> QED BY <2>1, AuditAssumption
<1>2. all <=> Complete(id, c) /\ Entries(id, c) # {}
  BY EntriesCount DEF IInv, RunnersInv
<1>3. some <=> \E n \in DOMAIN CreateRequests(id, c) : IsIssue(id, c, n)
  BY <1>1
<1>4. \A n : IsIssue(id, c, n) => \E e \in Entries(id, c) : e.n = n
  <2> SUFFICES ASSUME NEW n, IsIssue(id, c, n) PROVE \E e \in Entries(id, c) : e.n = n
    OBVIOUS
  <2>1. PICK e \in answered : [page |-> id, check |-> c, n |-> n] =
                              [page |-> e.page, check |-> e.check, n |-> e.n]
    BY DEF IInv, IssuesInv, IsIssue
  <2> QED BY <2>1 DEF Entries
<1>5. \A e \in Entries(id, c) : e \in answered /\ e.page = id /\ e.check = c /\ id \in audited
  BY DEF Entries, IInv, AnsweredInv
<1>6. some => id \in audited
  BY <1>3, <1>4, <1>5
<1>7. all => id \in audited
  BY <1>2, <1>5
<1> HIDE DEF all, some
<1>8. ASSUME c = 1 PROVE some <=> all /\ Baseline(id) > Threshold
  <2>1. ~checks[c].serial
    BY <1>8 DEF IInv, ConfigInv, ResponseTime
  <2>2. ASSUME id \in audited
        PROVE  some <=> Complete(id, c) /\ meta[id] > Threshold
    BY <1>3, <1>8, <2>1, <2>2 DEF IInv, IssuesInv, Positive
  <2>3. ASSUME id \in audited, Complete(id, c)
        PROVE  meta[id] = Baseline(id) /\ Entries(id, c) # {}
    <3>1. meta[id] = Baseline(id)
      BY <1>8, <2>3, MeasuredComplete DEF IInv, MetaInv
    <3>2. PICK n \in DOMAIN CreateRequests(id, c) : Answered(id, c, n)
      BY <1>1, <1>8, <2>3 DEF Complete
    <3> QED BY <3>1, <3>2 DEF Answered, Entries
  <2> QED BY <1>2, <1>6, <1>7, <2>2, <2>3
<1>9. ASSUME c # 1, ~checks[c].serial
      PROVE  some <=> all /\ \E e \in Entries(id, c) : EvaluateSingle(c, e.request, meta)
  <2>1. ASSUME id \in audited
        PROVE  some <=> Complete(id, c) /\ \E e \in Entries(id, c) : EvaluateSingle(c, e.request, meta)
    BY <1>3, <1>9, <2>1 DEF IInv, IssuesInv, Positive
  <2> QED BY <1>2, <1>6, <1>7, <2>1
<1>10. ASSUME checks[c].serial
       PROVE  \A e \in Entries(id, c) : IsIssue(id, c, e.n) <=> EvaluateSingle(c, e.request, meta)
  BY <1>5, <1>10 DEF IInv, IssuesInv
<1>11. ASSUME c > 1, ~checks[c].has_matching_rule PROVE ~some
  <2>1. \A e \in Entries(id, c) : ~EvaluateSingle(c, e.request, meta)
    BY <1>11 DEF EvaluateSingle
  <2>2. c # 1
    BY <1>11
  <2>3. CASE checks[c].serial
    BY <1>3, <1>4, <1>10, <2>1, <2>3
  <2>4. CASE ~checks[c].serial
    BY <1>9, <2>1, <2>2, <2>4
  <2> QED BY <2>3, <2>4
<1>12. ASSUME c > 1, checks[c].has_matching_rule, ~Mixed(checks[c])
       PROVE  IF checks[c].serial
              THEN \A e \in Entries(id, c) : IsIssue(id, c, e.n) <=> reached(e)
              ELSE some <=> found
  <2>1. c # 1
    BY <1>12
  <2>2. \A e \in Entries(id, c) : EvaluateSingle(c, e.request, meta) <=> reached(e)
    <3> SUFFICES ASSUME NEW e \in Entries(id, c)
                 PROVE  EvaluateSingle(c, e.request, meta) <=> reached(e)
      OBVIOUS
    <3>1. e \in answered /\ e.page = id /\ e.check = c
      BY <1>5
    <3>2. EvaluateSingle(e.check, e.request, meta) <=>
            Satisfied(checks[e.check].matching, e.request, Baseline(e.page))
      BY <1>12, <2>1, <3>1, Reached
    <3> QED BY <3>1, <3>2
  <2> HIDE DEF reached
  <2>3. CASE checks[c].serial
    BY <1>10, <2>2, <2>3
  <2>4. CASE ~checks[c].serial
    BY <1>9, <2>1, <2>2, <2>4
  <2> QED BY <2>3, <2>4
<1>13. CASE c = 1
  <2>1. ~(c > 1)
    BY <1>13
  <2> QED BY <1>8, <1>13, <2>1 DEF all, some
<1>14. CASE c # 1
  <2> HIDE DEF reached
  <2>1. CASE c > 1 /\ ~checks[c].has_matching_rule
    BY <1>11, <1>14, <2>1 DEF some
  <2>2. CASE c > 1 /\ checks[c].has_matching_rule /\ ~Mixed(checks[c])
    <3>1. IF checks[c].serial
          THEN \A e \in Entries(id, c) : IsIssue(id, c, e.n) <=> reached(e)
          ELSE some <=> found
      BY <1>12, <2>2
    <3>2. IF checks[c].serial
          THEN \A e \in Entries(id, c) : IsIssue(id, c, e.n) <=> reached(e)
          ELSE /\ some => found
               /\ found /\ ~Satisfied(checks[c].matching, pages[id], 0) => some
      BY <3>1
    <3> QED BY <1>14, <2>2, <3>2 DEF some, all, reached
  <2>3. CASE ~(c > 1 /\ ~checks[c].has_matching_rule)
             /\ ~(c > 1 /\ checks[c].has_matching_rule /\ ~Mixed(checks[c]))
    BY <1>14, <2>3
  <2> QED BY <2>1, <2>2, <2>3
<1> QED BY <1>13, <1>14

-----------------------------------------------------------------------------
(* What the requests of a check change.                                    *)

Untouched(base) == \A t \in FieldType : \A k \in DOMAIN base[t] : ~base[t][k].modified

\* A request that injects a value into a field keeps the rest.
LEMMA ChangedByInjection ==
  ASSUME NEW id, NEW base, base = pages[id].proto, Untouched(base), NEW type \in FieldType,
         NEW i \in DOMAIN base[type], NEW v, NEW req, Injects(base, type, i, v, req.proto)
  PROVE  Payloads(req) = {<<type, i, v>>} /\ RestIsKept(id, req)
<1>1. PICK x : x = req.proto
  OBVIOUS
<1> DEFINE K(t) == {k \in DOMAIN x[t] : x[t][k].modified}
           D(t) == {<<t, k, x[t][k].value>> : k \in K(t)}
<1>2. /\ \A t \in FieldType : DOMAIN x[t] = DOMAIN base[t]
      /\ \A t \in FieldType \ {type} : x[t] = base[t]
      /\ \A k \in DOMAIN base[type] \ {i} :
           Kept(x[type][k], base[type][k]) /\ x[type][k].modified = base[type][k].modified
      /\ x[type][i].modified = TRUE /\ x[type][i].value = v
      /\ x[type][i].name = base[type][i].name
  BY <1>1 DEF Injects
<1>3. K(type) = {i}
  BY <1>2 DEF Untouched
<1>4. ASSUME NEW t \in FieldType \ {type} PROVE K(t) = {}
  BY <1>2 DEF Untouched
<1>5. Payloads(req) = UNION {D(t) : t \in FieldType}
  BY <1>1 DEF Payloads
<1>6. RestIsKept(id, req)
  <2> SUFFICES ASSUME NEW t \in FieldType, NEW k \in DOMAIN x[t]
               PROVE  \/ x[t][k].modified /\ x[t][k].name = base[t][k].name
                      \/ SameField(x[t][k], base[t][k]) \/ GainsEmptyValue(x[t][k], base[t][k])
    BY <1>1, <1>2 DEF RestIsKept
  <2>1. CASE t # type
    BY <1>2, <2>1 DEF SameField
  <2>2. CASE t = type /\ k = i
    BY <1>2, <2>2
  <2>3. CASE t = type /\ k # i
    BY <1>2, <2>3 DEF Kept
  <2> QED BY <2>1, <2>2, <2>3
<1> HIDE DEF K
<1>7. D(type) = {<<type, i, v>>}
  BY <1>2, <1>3
<1>8. \A t \in FieldType \ {type} : D(t) = {}
  BY <1>4
<1> HIDE DEF D
<1>9. Payloads(req) = {<<type, i, v>>}
  BY <1>5, <1>7, <1>8
<1> QED BY <1>6, <1>9

\* A copy of the page has no payload.
LEMMA ChangedByCopy ==
  ASSUME ConfigInv, NEW id \in Id, NEW req, req.proto = NewRequest(pages[id].proto)
  PROVE  Payloads(req) = {} /\ RestIsKept(id, req)
<1>1. PICK base : base = pages[id].proto
  OBVIOUS
<1>2. /\ IsMessage(base) /\ HasUserAgent(base)
      /\ \A t \in FieldType : \A k \in DOMAIN base[t] : ~base[t][k].modified
  BY <1>1, PageFacts
<1>3. \A t \in FieldType : req.proto[t] = base[t]
  BY <1>1, <1>2, CopyOfMessage
<1> DEFINE D(t) == {<<t, k, req.proto[t][k].value>> :
                      k \in {l \in DOMAIN req.proto[t] : req.proto[t][l].modified}}
<1>4. \A t \in FieldType : D(t) = {}
  BY <1>2, <1>3
<1>5. Payloads(req) = UNION {D(t) : t \in FieldType}
  BY DEF Payloads
<1> HIDE DEF D
<1>6. Payloads(req) = {}
  BY <1>4, <1>5
<1>7. RestIsKept(id, req)
  BY <1>1, <1>3 DEF RestIsKept, SameField
<1> QED BY <1>6, <1>7

\* The requests of a runner, answered or not, carry the messages of its check.
LEMMA RunnerMessages ==
  ASSUME IInv, NEW id \in DOMAIN runners, NEW c, c = runners[id].check
  PROVE  /\ id \in Id /\ c \in DOMAIN checks
         /\ DOMAIN runners[id].requests = DOMAIN Protos(id, c)
         /\ \A n \in DOMAIN Protos(id, c) : runners[id].requests[n].proto = Protos(id, c)[n]
<1>1. PICK requests, open : requests = runners[id].requests /\ open = runners[id].open
  OBVIOUS
<1>2. id \in Id /\ RunnerInv(id, c, requests, open)
  BY <1>1 DEF IInv, RunnersInv
<1>3. PICK d \in DOMAIN checks : d = c
  BY <1>2 DEF RunnerInv
<1>4. PICK m \in Nat :
        /\ DOMAIN Protos(id, c) = 1..m /\ DOMAIN CreateRequests(id, c) = 1..m
        /\ \A k \in 1..m : IsMessage(Protos(id, c)[k]) /\
             CreateRequests(id, c)[k] = NewAuditRequest(Protos(id, c)[k], id, pages[id].time)
  BY <1>2, <1>3, CreatedFacts DEF IInv
<1>5. DOMAIN requests = 1..m
  BY <1>2, <1>4 DEF RunnerInv
<1>6. ASSUME NEW n \in 1..m PROVE requests[n].proto = Protos(id, c)[n]
  <2>1. PICK proto : /\ proto = Protos(id, c)[n] /\ IsMessage(proto)
                     /\ CreateRequests(id, c)[n] = NewAuditRequest(proto, id, pages[id].time)
    BY <1>4
  <2>2. CASE n \in open
    <3>1. requests[n] = NewAuditRequest(proto, id, pages[id].time)
      BY <1>2, <2>1, <2>2 DEF RunnerInv
    <3>2. NewAuditRequest(proto, id, pages[id].time).proto = proto
      BY DEF NewAuditRequest
    <3> QED BY <2>1, <3>1, <3>2
  <2>3. CASE n \notin open
    <3>1. PICK r : r = requests[n]
      OBVIOUS
    <3>2. PICK e \in answered : e = Entry(id, c, n, r)
      BY <1>2, <1>4, <2>3, <3>1 DEF RunnerInv
    <3>3. e.page = id /\ e.check = c /\ e.n = n /\ e.request = r
      BY <3>2 DEF Entry
    <3>4. PICK a \in Answers :
            e = Entry(e.page, e.check, e.n, WithAnswer(CreateRequests(e.page, e.check)[e.n], a))
      BY DEF IInv, AnsweredInv
    <3>5. PICK q : q = WithAnswer(CreateRequests(e.page, e.check)[e.n], a)
      OBVIOUS
    <3>6. Entry(e.page, e.check, e.n, q).request = q
      BY DEF Entry
    <3>7. r = q
      BY <3>3, <3>4, <3>5, <3>6
    <3>8. q = WithAnswer(NewAuditRequest(proto, id, pages[id].time), a)
      BY <2>1, <3>3, <3>5
    <3>9. q.proto = proto
      BY <2>1, <3>8, AnswerFacts
    <3> QED BY <2>1, <3>1, <3>7, <3>9
  <2> QED BY <2>2, <2>3
<1> QED BY <1>1, <1>2, <1>3, <1>4, <1>5, <1>6

\* The changes that a target calls for.
TargetInjections(id, target, rule) ==
  {<<target.type, i,
     GeneratePayloadString(pages[id].proto[target.type][i].value, p, m, e)>> :
     i \in Targeted(id, target), p \in ToSet(rule.payload),
     m \in ToSet(rule.method), e \in ToSet(rule.encoding)}
FieldInjections(base, target, i, rule) ==
  {<<target.type, i, v>> : v \in Values(base, target, i, rule)}

\* They are a change for each of its fields and each value.
LEMMA TargetCallsFor ==
  ASSUME ConfigInv, NEW id \in Id, NEW base, base = pages[id].proto, NEW rule \in GeneratorRule,
         NEW target \in PayloadTarget, target.type \in FieldType
  PROVE  /\ \A i \in Places(base, target) :
              i \in DOMAIN base[target.type] /\ Values(base, target, i, rule) \subseteq Text
         /\ TargetInjections(id, target, rule) =
              UNION {FieldInjections(base, target, i, rule) : i \in Places(base, target)}
<1>1. IsMessage(base)
  BY PageFacts
<1>2. PICK fs : fs = base[target.type] /\ fs \in Seq(RequestField)
  BY <1>1 DEF IsMessage
<1>3. Places(base, target) = Targeted(id, target) /\ Places(base, target) \subseteq DOMAIN fs
  BY <1>1, <1>2, TargetsAreFields DEF Places, Targeted
<1>4. ASSUME NEW i \in Places(base, target)
      PROVE  /\ Values(base, target, i, rule) \subseteq Text
             /\ Values(base, target, i, rule) =
                  {GeneratePayloadString(fs[i].value, p, m, e) :
                     p \in ToSet(rule.payload), m \in ToSet(rule.method), e \in ToSet(rule.encoding)}
  <2>1. PICK v \in Text : v = fs[i].value
    <3>1. fs[i] \in RequestField
      BY <1>2, <1>3
    <3> QED BY <3>1 DEF RequestField
  <2>2. PICK s : s = PayloadStrings(rule, v) /\ s \in Seq(Text)
    BY PayloadFacts
  <2>3. ToSet(s) \subseteq Text
    BY <2>2 DEF ToSet
  <2>4. Values(base, target, i, rule) = ToSet(s)
    BY <1>2, <2>1, <2>2 DEF Values
  <2> QED BY <2>1, <2>2, <2>3, <2>4, PayloadFacts
<1>5. TargetInjections(id, target, rule) =
        {<<target.type, i, GeneratePayloadString(fs[i].value, p, m, e)>> :
           i \in Places(base, target), p \in ToSet(rule.payload),
           m \in ToSet(rule.method), e \in ToSet(rule.encoding)}
  BY <1>2, <1>3 DEF TargetInjections
<1>6. \A z : z \in TargetInjections(id, target, rule) <=>
             \E i \in Places(base, target) : \E v \in Values(base, target, i, rule) :
               z = <<target.type, i, v>>
  <2> TAKE z
  <2>1. z \in TargetInjections(id, target, rule) <=>
          \E i \in Places(base, target), p \in ToSet(rule.payload),
             m \in ToSet(rule.method), e \in ToSet(rule.encoding) :
            z = <<target.type, i, GeneratePayloadString(fs[i].value, p, m, e)>>
    BY <1>5
  <2> QED BY <1>4, <2>1
<1>7. UNION {FieldInjections(base, target, i, rule) : i \in Places(base, target)} =
        {z \in TargetInjections(id, target, rule) : TRUE}
  BY <1>6 DEF FieldInjections
<1> QED BY <1>2, <1>3, <1>4, <1>7

\* A change of a page that rule calls for: value v for field i of target.
CalledFor(base, rule, target, i, v) ==
  /\ target \in ToSet(rule.target) /\ target.type \in FieldType
  /\ i \in Places(base, target) /\ v \in Values(base, target, i, rule)

\* The message x is made for such a change.
IsMadeFor(base, rule, x) ==
  \E target, i, v : CalledFor(base, rule, target, i, v) /\ x = MadeFor(base, target, i, v, rule)

\* The requests of a rule and the changes it calls for, one for one.
LEMMA RuleCallsFor ==
  ASSUME ConfigInv, NEW id \in Id, NEW base, base = pages[id].proto, NEW rule \in GeneratorRule
  PROVE  /\ \A target, i, v : CalledFor(base, rule, target, i, v) =>
              /\ i \in DOMAIN base[target.type] /\ v \in Text
              /\ Injects(base, target.type, i, v, MadeFor(base, target, i, v, rule))
         /\ \A x : x \in ToSet(Generate(base, rule)) <=> IsMadeFor(base, rule, x)
         /\ \A z : z \in Injections(id, rule) <=>
              \E target, i, v : CalledFor(base, rule, target, i, v) /\ z = <<target.type, i, v>>
<1>1. IsMessage(base) /\ HasUserAgent(base)
  BY PageFacts
<1>2. \A target \in ToSet(rule.target) : target \in PayloadTarget
  <2>1. rule.target \in Seq(PayloadTarget)
    BY DEF GeneratorRule
  <2>2. \A t \in DOMAIN rule.target : rule.target[t] \in PayloadTarget
    BY <2>1
  <2> QED BY <2>2 DEF ToSet
<1>3. ASSUME NEW target, NEW i, NEW v, CalledFor(base, rule, target, i, v)
      PROVE  /\ i \in DOMAIN base[target.type] /\ v \in Text
             /\ Injects(base, target.type, i, v, MadeFor(base, target, i, v, rule))
  <2>1. target \in PayloadTarget /\ target.type \in FieldType
    BY <1>2, <1>3 DEF CalledFor
  <2>2. i \in DOMAIN base[target.type] /\ v \in Text
    BY <1>3, <2>1, TargetCallsFor DEF CalledFor
  <2> QED BY <1>1, <2>1, <2>2, MadeFacts DEF MadeFor
<1>4. \A x : x \in ToSet(Generate(base, rule)) <=> IsMadeFor(base, rule, x)
  <2> TAKE x
  <2>1. x \in ToSet(Generate(base, rule)) <=>
          \E target \in ToSet(rule.target) : target.type \in FieldType /\
            \E i \in Places(base, target) : x \in FieldMade(base, target, i, rule)
    BY <1>1, GenerateFacts
  <2>2. \A target, i : x \in FieldMade(base, target, i, rule) <=>
          \E v \in Values(base, target, i, rule) : x = MadeFor(base, target, i, v, rule)
    BY DEF FieldMade
  <2> QED BY <2>1, <2>2, Zenon DEF CalledFor, IsMadeFor
<1>5. \A z : z \in Injections(id, rule) <=>
        \E target, i, v : CalledFor(base, rule, target, i, v) /\ z = <<target.type, i, v>>
  <2> TAKE z
  <2>1. Injections(id, rule) =
          UNION {TargetInjections(id, target, rule) :
                 target \in {t \in ToSet(rule.target) : t.type \in FieldType}}
    BY DEF Injections, TargetInjections
  <2>2. z \in Injections(id, rule) <=>
          \E target \in ToSet(rule.target) :
            target.type \in FieldType /\ z \in TargetInjections(id, target, rule)
    BY <2>1
  <2>3. ASSUME NEW target \in ToSet(rule.target), target.type \in FieldType
        PROVE  z \in TargetInjections(id, target, rule) <=>
                 \E i \in Places(base, target) : \E v \in Values(base, target, i, rule) :
                   z = <<target.type, i, v>>
    <3>1. TargetInjections(id, target, rule) =
            UNION {FieldInjections(base, target, i, rule) : i \in Places(base, target)}
      BY <1>2, <2>3, TargetCallsFor
    <3> QED BY <3>1 DEF FieldInjections
  <2>4. ASSUME z \in Injections(id, rule)
        PROVE  \E target, i, v : CalledFor(base, rule, target, i, v) /\ z = <<target.type, i, v>>
    <3>1. PICK target \in ToSet(rule.target) :
            target.type \in FieldType /\ z \in TargetInjections(id, target, rule)
      BY <2>2, <2>4
    <3>2. PICK i \in Places(base, target) : \E v \in Values(base, target, i, rule) :
            z = <<target.type, i, v>>
      BY <2>3, <3>1
    <3> QED BY <3>1, <3>2 DEF CalledFor
  <2>5. ASSUME NEW target, NEW i, NEW v,
               CalledFor(base, rule, target, i, v), z = <<target.type, i, v>>
        PROVE  z \in Injections(id, rule)
    BY <2>2, <2>3, <2>5 DEF CalledFor
  <2> QED BY <2>4, <2>5
<1> QED BY <1>3, <1>4, <1>5

\* The generator injects what its rule says and nothing else.
LEMMA InjectionsFromInvariant == IInv => InjectionsAreExact
<1> SUFFICES ASSUME IInv, NEW id \in DOMAIN runners
             PROVE  LET rule == checks[runners[id].check].generator
                        reqs == runners[id].requests
                        payloads == [n \in DOMAIN reqs |-> Payloads(reqs[n])]
                    IN  /\ \A n \in DOMAIN reqs : RestIsKept(id, reqs[n])
                        /\ IF runners[id].check = 1 THEN \A n \in DOMAIN reqs : payloads[n] = {}
                           ELSE /\ \A n \in DOMAIN reqs : Cardinality(payloads[n]) = 1
                                /\ RequiredInjections(id, rule) \subseteq UNION Range(payloads)
                                /\ UNION Range(payloads) \subseteq Injections(id, rule)
  BY DEF InjectionsAreExact
<1> DEFINE c == runners[id].check
           requests == runners[id].requests
           changed == [n \in DOMAIN requests |-> Payloads(requests[n])]
           Exact == /\ \A n \in DOMAIN requests : RestIsKept(id, requests[n])
                    /\ IF c = 1 THEN \A n \in DOMAIN requests : changed[n] = {}
                       ELSE /\ \A n \in DOMAIN requests : Cardinality(changed[n]) = 1
                            /\ RequiredInjections(id, checks[c].generator)
                                 \subseteq UNION Range(changed)
                            /\ UNION Range(changed)
                                 \subseteq Injections(id, checks[c].generator)
<1> SUFFICES Exact
  OBVIOUS
<1>0. c = runners[id].check /\ requests = runners[id].requests
      /\ changed = [n \in DOMAIN requests |-> Payloads(requests[n])]
  OBVIOUS
<1> HIDE DEF c, requests, changed
<1>1. PICK reqs, s : reqs = runners[id].requests /\ reqs = requests /\ s = Protos(id, c)
  BY <1>0
<1>2. /\ id \in Id /\ c \in DOMAIN checks /\ DOMAIN reqs = DOMAIN s
      /\ \A n \in DOMAIN s : reqs[n].proto = s[n]
  BY <1>0, <1>1, RunnerMessages
<1>3. DOMAIN changed = DOMAIN s /\ \A n \in DOMAIN s : changed[n] = Payloads(reqs[n])
  BY <1>0, <1>1, <1>2
<1>4. ConfigInv
  BY DEF IInv
<1>5. CASE c = 1
  <2>1. \A n \in DOMAIN s : reqs[n].proto = NewRequest(pages[id].proto)
    BY <1>1, <1>2, <1>5 DEF Protos
  <2>2. \A n \in DOMAIN s : Payloads(reqs[n]) = {} /\ RestIsKept(id, reqs[n])
    BY <1>2, <1>4, <2>1, ChangedByCopy
  <2> QED BY <1>1, <1>2, <1>3, <1>5, <2>2
<1>6. CASE c # 1
  <2>1. PICK rule \in GeneratorRule : rule = checks[c].generator
    BY <1>2, <1>4, <1>6, TestFacts
  <2>2. PICK base : base = pages[id].proto
    OBVIOUS
  <2>3. s = Generate(base, rule)
    BY <1>1, <1>6, <2>1, <2>2 DEF Protos
  <2>4. Untouched(base)
    BY <1>2, <1>4, <2>2, PageFacts DEF Untouched
  <2>5. ASSUME NEW n \in DOMAIN s, NEW target, NEW i, NEW v,
               CalledFor(base, rule, target, i, v), s[n] = MadeFor(base, target, i, v, rule)
        PROVE  changed[n] = {<<target.type, i, v>>} /\ RestIsKept(id, reqs[n])
    <3>1. /\ i \in DOMAIN base[target.type]
          /\ Injects(base, target.type, i, v, MadeFor(base, target, i, v, rule))
      BY <1>2, <1>4, <2>2, <2>5, RuleCallsFor
    <3>2. PICK req : req = reqs[n] /\ Injects(base, target.type, i, v, req.proto)
      BY <1>2, <2>5, <3>1
    <3>3. target.type \in FieldType
      BY <2>5 DEF CalledFor
    <3>4. Payloads(req) = {<<target.type, i, v>>} /\ RestIsKept(id, req)
      <4>1. PICK type \in FieldType : type = target.type
        BY <3>3
      <4>2. i \in DOMAIN base[type] /\ Injects(base, type, i, v, req.proto)
        BY <3>1, <3>2, <4>1
      <4>3. Payloads(req) = {<<type, i, v>>} /\ RestIsKept(id, req)
        BY <2>2, <2>4, <4>2, ChangedByInjection
      <4> QED BY <4>1, <4>3
    <3> QED BY <1>3, <3>2, <3>4
  <2>6. ToSet(s) = {s[n] : n \in DOMAIN s}
    BY DEF ToSet
  <2>7. \A n \in DOMAIN s : \E target, i, v :
          CalledFor(base, rule, target, i, v) /\ s[n] = MadeFor(base, target, i, v, rule)
    <3>1. \A n \in DOMAIN s : s[n] \in ToSet(Generate(base, rule))
      BY <2>3, <2>6
    <3>2. \A n \in DOMAIN s : IsMadeFor(base, rule, s[n])
      BY <1>2, <1>4, <2>2, <3>1, RuleCallsFor
    <3> QED BY <3>2 DEF IsMadeFor
  <2>8. \A target, i, v : CalledFor(base, rule, target, i, v) =>
          \E n \in DOMAIN s : s[n] = MadeFor(base, target, i, v, rule)
    <3> SUFFICES ASSUME NEW target, NEW i, NEW v, CalledFor(base, rule, target, i, v)
                 PROVE  \E n \in DOMAIN s : s[n] = MadeFor(base, target, i, v, rule)
      OBVIOUS
    <3>1. IsMadeFor(base, rule, MadeFor(base, target, i, v, rule))
      BY DEF IsMadeFor
    <3>2. MadeFor(base, target, i, v, rule) \in ToSet(s)
      BY <1>2, <1>4, <2>2, <2>3, <3>1, RuleCallsFor
    <3> QED BY <2>6, <3>2
  <2>9. \A n \in DOMAIN s : Cardinality(changed[n]) = 1
    <3> SUFFICES ASSUME NEW n \in DOMAIN s PROVE Cardinality(changed[n]) = 1
      OBVIOUS
    <3>1. PICK z : changed[n] = {z}
      BY <2>5, <2>7
    <3> QED BY <3>1, FS_Singleton
  <2>10. \A z : z \in UNION Range(changed) <=> \E n \in DOMAIN s : z \in changed[n]
    BY <1>3 DEF Range
  <2>11. \A z : z \in Injections(id, rule) <=>
           \E target, i, v : CalledFor(base, rule, target, i, v) /\ z = <<target.type, i, v>>
    BY <1>2, <1>4, <2>2, RuleCallsFor
  <2>12. ASSUME NEW z, z \in UNION Range(changed) PROVE z \in Injections(id, rule)
    <3>1. PICK n \in DOMAIN s : z \in changed[n]
      BY <2>10, <2>12
    <3>2. PICK target, i, v :
            CalledFor(base, rule, target, i, v) /\ s[n] = MadeFor(base, target, i, v, rule)
      BY <2>7
    <3>3. z = <<target.type, i, v>>
      BY <2>5, <3>1, <3>2
    <3> QED BY <2>11, <3>2, <3>3
  <2>13. ASSUME NEW z, z \in Injections(id, rule) PROVE z \in UNION Range(changed)
    <3>1. PICK target, i, v : CalledFor(base, rule, target, i, v) /\ z = <<target.type, i, v>>
      BY <2>11, <2>13
    <3>2. PICK n \in DOMAIN s : s[n] = MadeFor(base, target, i, v, rule)
      BY <2>8, <3>1
    <3>3. z \in changed[n]
      BY <2>5, <3>1, <3>2
    <3> QED BY <2>10, <3>3
  <2>14. UNION Range(changed) = Injections(id, rule)
    BY <2>12, <2>13
  <2>15. RequiredInjections(id, rule) \subseteq Injections(id, rule)
    BY DEF RequiredInjections
  <2>16. \A n \in DOMAIN s : RestIsKept(id, reqs[n])
    BY <2>5, <2>7
  <2> QED BY <1>1, <1>2, <1>6, <2>1, <2>9, <2>14, <2>15, <2>16
<1> QED BY <1>5, <1>6

-----------------------------------------------------------------------------
(* The theorems.                                                           *)

\* Every page that was handed to the selective auditor goes through all checks:
\* a check that is over got all its answers, or was left out because it is serial
\* and the page itself satisfies its rule (SecurityCheckRunner::ScheduleNext).
THEOREM NoCheckIsLeftOut == Spec => []AuditsAreComplete
BY AuditInvariant, CompleteFromInvariant, PTL

\* What goes to the issue callback is what the rules of the checks say of the
\* answers and of the baseline of their page, although RequestCallback and the
\* matchers only see answers one by one; an answer that satisfies the rule of a
\* check that is not serial leads to an issue if the page itself does not.
THEOREM IssuesMeanTheirRules == Spec => []IssuesFollowTheRules
BY AuditInvariant, IssuesFromInvariant, PTL

\* Each request of a generic check has one payload in one field; its other fields
\* have the names and the values of the page, and also the equal signs, except
\* for parameters that came without one.  Between them the requests have every
\* payload, by every method and encoding, in every target, where appending to
\* nothing is not asked for.
THEOREM GeneratorIsExact == Spec => []InjectionsAreExact
BY AuditInvariant, InjectionsFromInvariant, PTL
=============================================================================
