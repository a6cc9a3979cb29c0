------------------------ MODULE HiddenObjectsProofs ------------------------
(***************************************************************************)
(* The safety of the hidden objects search for any pages, any lists and    *)
(* batches of any size, also when the lists make a URL twice and when the  *)
(* URL of a request is not the text it was made from.                      *)
(***************************************************************************)
EXTENDS HiddenObjects, FiniteSetTheorems, WellFoundedInduction, TLAPS

Contract == INSTANCE HttpClientContractProofs WITH enabled <- client_enabled

Queued == Contract!Queued

\* The pages that the finder was given.
Given == ToSet(pending_urls) \cup probed_urls

\* Each page is given to the finder once, and from one directory only one page
\* while the client is enabled.
PagesInv ==
  /\ Given \cap coming = {}
  /\ pc = "detect" => page \in Page /\ page \notin Given \cup coming
  /\ \A i, j \in DOMAIN pending_urls : pending_urls[i] = pending_urls[j] => i = j
  /\ ToSet(pending_urls) \cap probed_urls = {}
  /\ client_enabled =>
       /\ \A p \in Given : Base[p] \in probed_dirs
       /\ \A p, q \in Given : Base[p] = Base[q] => p = q
       /\ pc = "detect" => Base[page] \notin probed_dirs

\* x occurs at most once in s.
Once(s, x) == \A i, j \in DOMAIN s : s[i] = x /\ s[j] = x => i = j

\* A candidate that is tried at most once: later requests for it are rejected.
TriedOnce(t) ==
  /\ client_enabled =>
       /\ Tries(t) \subseteq {1}
       /\ t \in ToSet(test_urls_queue) => Tries(t) = {}
       /\ Once(test_urls_queue, t)
  /\ AcceptedTries(t) \subseteq {1}

\* What waits or was tried was made from a page that was taken up, and is tried
\* once if the lists make it once.
TriedInv ==
  /\ \A t \in Candidate : Tries(t) # {} \/ t \in ToSet(test_urls_queue) =>
       \E p \in probed_urls : t \in Candidates(p)
  /\ \A t \in Candidate : MadeOnce(t) => TriedOnce(t)

\* The entries of requests_ are requests that the client accepted, each under the
\* text it was made from.
EntriesInv ==
  \A k \in Key : requests[k] # NoRequest =>
    /\ requests[k].kind = "try" /\ requests[k].url = k
    /\ fate[requests[k]] \notin {"new", "rejected"}

\* The datastore has requests of candidates.
StoredAreTries == \A r \in stored : r.kind = "try"

\* A request has one owner at a time, and none before it is scheduled.
OwnersInv ==
  /\ IsFiniteSet(stored)
  /\ ClientHoldsOwnedRequests
  /\ FoundObjectsAreStored
  /\ StoredAreTries
  /\ \A r \in freed \cup stored : fate[r] # "new"
  /\ EntriesInv

\* Every candidate of a page that was taken up waits, was tried or is left out.
LeftOut(p, t) ==
  \/ t \in probed_urls
  \/ \E w \in DOMAIN Wordlist :
       LET plain == Base[p] \o Wordlist[w].word
       IN  plain \in probed_urls /\ IsPrefix(plain, t)

SearchedInv ==
  \A p \in probed_urls : \A t \in Candidates(p) :
    \/ Tries(t) # {}
    \/ t \in ToSet(test_urls_queue)
    \/ LeftOut(p, t)

\* The loop schedules something whenever something waits, but for a page that has
\* nothing to try.
LoopInv ==
  client_enabled =>
    /\ pc = "batch" /\ schedule_queue = <<>> =>
         left = Amount /\ (test_urls_queue = <<>> => pending_urls = <<>> \/ NothingToTry)
    /\ pc = "repeat" /\ schedule_queue = <<>> =>
         test_urls_queue = <<>> /\ (pending_urls = <<>> \/ NothingToTry)
    /\ pc = "done" => test_urls_queue = <<>> /\ (pending_urls = <<>> \/ NothingToTry)

IInv ==
  /\ TypeOK
  /\ Contract!ContractInv
  /\ PagesInv
  /\ TriedInv
  /\ OwnersInv
  /\ SearchedInv
  /\ LoopInv
-----------------------------------------------------------------------------
(* Sequences.                                                              *)

\* A sequence without repetitions.
Injective(s) == \A i, j \in DOMAIN s : s[i] = s[j] => i = j

\* A sequence without repetitions repeats no element.
LEMMA InjectiveOnce == ASSUME NEW s PROVE Injective(s) <=> \A x : Once(s, x)
  BY DEF Injective, Once

\* The elements of a concatenation, and when it does not repeat one of them.
LEMMA ConcatFacts ==
  ASSUME NEW S, NEW s \in Seq(S), NEW t \in Seq(S)
  PROVE  /\ s \o t \in Seq(S)
         /\ ToSet(s \o t) = ToSet(s) \cup ToSet(t)
         /\ \A x : Once(s, x) /\ Once(t, x) /\ ~(x \in ToSet(s) /\ x \in ToSet(t))
                     => Once(s \o t, x)
<1> DEFINE c == s \o t
<1>1. /\ c \in Seq(S) /\ Len(c) = Len(s) + Len(t)
      /\ Len(s) \in Nat /\ Len(t) \in Nat
      /\ DOMAIN s = 1..Len(s) /\ DOMAIN t = 1..Len(t) /\ DOMAIN c = 1..(Len(s) + Len(t))
      /\ \A i \in 1..Len(s) : c[i] = s[i]
  OBVIOUS
<1>2. \A i \in 1..Len(t) : i + Len(s) \in DOMAIN c /\ c[i + Len(s)] = t[i]
  BY <1>1
<1>3. \A k \in DOMAIN c : k \in 1..Len(s) \/ \E i \in 1..Len(t) : k = i + Len(s)
  <2> SUFFICES ASSUME NEW k \in DOMAIN c, k \notin 1..Len(s)
               PROVE  \E i \in 1..Len(t) : k = i + Len(s)
    OBVIOUS
  <2>1. k - Len(s) \in 1..Len(t) /\ k = (k - Len(s)) + Len(s)
    BY <1>1
  <2> QED BY <2>1
<1> HIDE DEF c
<1>4. ToSet(c) = ToSet(s) \cup ToSet(t)
  <2>1. \A i \in DOMAIN s : s[i] \in ToSet(c)
    BY <1>1 DEF ToSet
  <2>2. \A i \in DOMAIN t : t[i] \in ToSet(c)
    BY <1>1, <1>2 DEF ToSet
  <2>3. \A k \in DOMAIN c : c[k] \in ToSet(s) \cup ToSet(t)
    BY <1>1, <1>2, <1>3 DEF ToSet
  <2> QED BY <2>1, <2>2, <2>3 DEF ToSet
<1>5. ASSUME NEW x, Once(s, x), Once(t, x), ~(x \in ToSet(s) /\ x \in ToSet(t))
      PROVE  Once(c, x)
  <2> SUFFICES ASSUME NEW i \in DOMAIN c, NEW j \in DOMAIN c, c[i] = x, c[j] = x PROVE i = j
    BY DEF Once
  <2>1. \A k \in 1..Len(s), m \in 1..Len(t) : ~(s[k] = x /\ t[m] = x)
    BY <1>1, <1>5 DEF ToSet
  <2>2. CASE i \in 1..Len(s) /\ j \in 1..Len(s)
    BY <1>1, <1>5, <2>2 DEF Once
  <2>3. CASE i \notin 1..Len(s) /\ j \notin 1..Len(s)
    <3>1. PICK k \in 1..Len(t), m \in 1..Len(t) : i = k + Len(s) /\ j = m + Len(s)
      BY <1>3, <2>3
    <3>2. t[k] = x /\ t[m] = x
      BY <1>2, <3>1
    <3> QED BY <1>1, <1>5, <3>1, <3>2 DEF Once
  <2>4. CASE (i \in 1..Len(s)) # (j \in 1..Len(s))
    <3>1. \A k \in DOMAIN c : k \notin 1..Len(s) => \E m \in 1..Len(t) : c[k] = t[m]
      BY <1>2, <1>3
    <3> QED BY <1>1, <2>1, <2>4, <3>1
  <2> QED BY <2>2, <2>3, <2>4
<1> QED BY <1>1, <1>4, <1>5 DEF c

\* A nonempty set of numbers has a least one.
LEMMA LeastNumber ==
  ASSUME NEW T \in SUBSET Nat, T # {}
  PROVE  \E x \in T : \A y \in T : ~(y < x)
<1>1. \E x \in T : \A y \in T : ~(<<y, x>> \in OpToRel(<, Nat))
  BY WFMin, NatLessThanWellFounded
<1> QED BY <1>1 DEF OpToRel

\* f is the recursive function behind FlattenSeq, for the first m sequences.
Flat(s, m, f) == f = [i \in 1..m |-> IF i = 1 THEN s[i] ELSE f[i - 1] \o s[i]]

\* There is such a function for every number of sequences.
LEMMA FlatExists ==
  ASSUME NEW s, NEW n \in Nat
  PROVE  \E f : Flat(s, n, f)
<1> DEFINE T == {m \in Nat : ~ \E f : Flat(s, m, f)}
<1> SUFFICES ASSUME n \in T PROVE FALSE
  OBVIOUS
<1>1. PICK x \in T : \A y \in T : ~(y < x)
  <2> HIDE DEF T
  <2>1. T \in SUBSET Nat /\ T # {}
    BY DEF T
  <2> QED BY <2>1, LeastNumber
<1>2. CASE x = 0
  <2>1. [i \in 1..0 |-> s[i]] = [i \in 1..0 |-> IF i = 1 THEN s[i] ELSE [k \in 1..0 |-> s[k]][i - 1] \o s[i]]
    OBVIOUS
  <2> QED BY <1>2, <2>1 DEF Flat
<1>3. CASE x # 0
  <2>1. x - 1 \in Nat /\ x - 1 \notin T
    BY <1>1, <1>3
  <2>2. PICK f : Flat(s, x - 1, f)
    BY <2>1
  <2> DEFINE g == [i \in 1..x |-> IF i < x THEN f[i] ELSE IF i = 1 THEN s[i] ELSE f[i - 1] \o s[i]]
  <2>3. \A i \in 1..x : g[i] = IF i = 1 THEN s[i] ELSE g[i - 1] \o s[i]
    <3> SUFFICES ASSUME NEW i \in 1..x PROVE g[i] = IF i = 1 THEN s[i] ELSE g[i - 1] \o s[i]
      OBVIOUS
    <3>1. i # 1 => i - 1 \in 1..x /\ i - 1 < x
      BY <1>1
    <3>2. i # 1 => g[i - 1] = f[i - 1]
      BY <3>1
    <3>3. i < x => i \in 1..(x - 1) /\ f[i] = IF i = 1 THEN s[i] ELSE f[i - 1] \o s[i]
      <4>1. i < x => i \in 1..(x - 1)
        BY <1>1
      <4>2. \A j \in 1..(x - 1) : f[j] = IF j = 1 THEN s[j] ELSE f[j - 1] \o s[j]
        BY <2>2 DEF Flat
      <4> QED BY <4>1, <4>2
    <3>4. g[i] = IF i < x THEN f[i] ELSE IF i = 1 THEN s[i] ELSE f[i - 1] \o s[i]
      OBVIOUS
    <3> HIDE DEF g
    <3> QED BY <3>2, <3>3, <3>4
  <2>4. g = [i \in 1..x |-> IF i = 1 THEN s[i] ELSE g[i - 1] \o s[i]]
    <3>1. DOMAIN g = 1..x /\ g = [i \in 1..x |-> g[i]]
      OBVIOUS
    <3> HIDE DEF g
    <3> QED BY <2>3, <3>1
  <2>5. Flat(s, x, g)
    <3> HIDE DEF g
    <3> QED BY <2>4 DEF Flat
  <2> QED BY <2>5
<1> QED BY <1>2, <1>3

\* What FlattenSeq returns, and when it does not repeat x.
LEMMA FlattenFacts ==
  ASSUME NEW S, NEW s \in Seq(Seq(S)), NEW x
  PROVE  /\ FlattenSeq(s) \in Seq(S)
         /\ ToSet(FlattenSeq(s)) = UNION {ToSet(s[i]) : i \in DOMAIN s}
         /\ /\ \A i \in DOMAIN s : Once(s[i], x)
            /\ \A i, j \in DOMAIN s : x \in ToSet(s[i]) /\ x \in ToSet(s[j]) => i = j
            => Once(FlattenSeq(s), x)
<1> DEFINE n == Len(s)
<1>0. n \in Nat /\ DOMAIN s = 1..n /\ \A i \in 1..n : s[i] \in Seq(S)
  OBVIOUS
<1>1. CASE n = 0
  <2>1. s = <<>> /\ DOMAIN s = {} /\ FlattenSeq(s) = <<>>
    BY <1>1 DEF FlattenSeq
  <2>2. ToSet(<<>>) = {} /\ Once(<<>>, x)
    BY DEF ToSet, Once
  <2>3. UNION {ToSet(s[i]) : i \in DOMAIN s} = {} /\ <<>> \in Seq(S)
    BY <2>1
  <2> QED BY <2>1, <2>2, <2>3
<1>2. CASE n > 0
  <2> DEFINE F == CHOOSE f : f = [i \in 1..n |-> IF i = 1 THEN s[i] ELSE f[i - 1] \o s[i]]
  <2>1. FlattenSeq(s) = F[n]
    BY <1>2 DEF FlattenSeq
  <2>2. F = [i \in 1..n |-> IF i = 1 THEN s[i] ELSE F[i - 1] \o s[i]]
    <3>1. \E f : f = [i \in 1..n |-> IF i = 1 THEN s[i] ELSE f[i - 1] \o s[i]]
      BY <1>0, FlatExists DEF Flat
    <3> QED BY <3>1
  <2> HIDE DEF F
  <2>3. F[1] = s[1] /\ \A i \in 2..n : F[i] = F[i - 1] \o s[i]
    <3>1. \A i \in 1..n : F[i] = IF i = 1 THEN s[i] ELSE F[i - 1] \o s[i]
      BY <2>2
    <3>2. 1 \in 1..n /\ \A i \in 2..n : i \in 1..n /\ i # 1
      BY <1>0, <1>2
    <3> HIDE DEF n
    <3> QED BY <3>1, <3>2
  <2> DEFINE Part(k) == UNION {ToSet(s[i]) : i \in 1..k}
             Apart == /\ \A i \in DOMAIN s : Once(s[i], x)
                      /\ \A i, j \in DOMAIN s : x \in ToSet(s[i]) /\ x \in ToSet(s[j]) => i = j
             P(k) == F[k] \in Seq(S) /\ ToSet(F[k]) = Part(k) /\ (Apart => Once(F[k], x))
             T == {k \in Nat : k \in 1..n /\ ~P(k)}
  <2>4. P(n)
    <3> SUFFICES ASSUME ~P(n) PROVE FALSE
      OBVIOUS
    <3>1. PICK m \in T : \A y \in T : ~(y < m)
      <4>1. T \in SUBSET Nat /\ n \in T
        BY <1>0, <1>2
      <4> HIDE DEF T
      <4> QED BY <4>1, LeastNumber
    <3>2. m \in 1..n /\ ~P(m)
      OBVIOUS
    <3>3. CASE m = 1
      <4>1. Part(1) = ToSet(s[1])
        OBVIOUS
      <4> HIDE DEF Part
      <4>2. P(1)
        BY <1>0, <1>2, <2>3, <4>1
      <4> QED BY <3>2, <3>3, <4>2
    <3>4. CASE m # 1
      <4>1. m - 1 \in 1..n /\ m \in 2..n /\ m - 1 < m /\ m - 1 \in Nat
        BY <1>0, <3>2, <3>4
      <4>2. P(m - 1)
        <5> HIDE DEF P
        <5> QED BY <3>1, <4>1
      <4>3. s[m] \in Seq(S) /\ F[m] = F[m - 1] \o s[m]
        BY <1>0, <2>3, <3>2, <4>1
      <4>4. Part(m) = Part(m - 1) \cup ToSet(s[m])
        <5>1. 1..m = (1..(m - 1)) \cup {m}
          BY <3>2
        <5> QED BY <5>1
      <4>5. Apart => Once(s[m], x) /\ ~(x \in Part(m - 1) /\ x \in ToSet(s[m]))
        <5> SUFFICES ASSUME Apart PROVE Once(s[m], x) /\ ~(x \in Part(m - 1) /\ x \in ToSet(s[m]))
          OBVIOUS
        <5>1. \A i \in 1..(m - 1) : i \in DOMAIN s /\ i # m
          BY <1>0, <3>2
        <5>2. \A i \in 1..(m - 1) : ~(x \in ToSet(s[i]) /\ x \in ToSet(s[m]))
          BY <1>0, <3>2, <5>1
        <5> QED BY <1>0, <3>2, <5>2
      <4> HIDE DEF Part, Apart
      <4>6. P(m)
        <5>1. F[m - 1] \in Seq(S) /\ ToSet(F[m - 1]) = Part(m - 1) /\ (Apart => Once(F[m - 1], x))
          BY <4>2
        <5>2. /\ F[m - 1] \o s[m] \in Seq(S)
              /\ ToSet(F[m - 1] \o s[m]) = ToSet(F[m - 1]) \cup ToSet(s[m])
              /\ Once(F[m - 1], x) /\ Once(s[m], x) /\ ~(x \in ToSet(F[m - 1]) /\ x \in ToSet(s[m]))
                   => Once(F[m - 1] \o s[m], x)
          BY <4>3, <5>1, ConcatFacts
        <5> QED BY <4>3, <4>4, <4>5, <5>1, <5>2
      <4> QED BY <3>2, <4>6
    <3> QED BY <3>3, <3>4
  <2> QED BY <1>0, <2>1, <2>4
<1> QED BY <1>0, <1>1, <1>2
-----------------------------------------------------------------------------
(* The candidates of a page.                                               *)

\* The word alone, and with an extension.
Plain(p, i) == Base[p] \o Wordlist[i].word
Extended(p, i, j) == Plain(p, i) \o Extensions[j]

\* The candidates of a page, by the ways to make them.
LEMMA CandidateFacts ==
  ASSUME NEW p \in Page
  PROVE  /\ DOMAIN Wordlist = 1..Len(Wordlist) /\ DOMAIN Extensions = 1..Len(Extensions)
         /\ Len(Wordlist) \in Nat /\ Len(Extensions) \in Nat
         /\ Candidates(p) \subseteq Candidate
         /\ \A i \in DOMAIN Wordlist :
              /\ Plain(p, i) \in Candidates(p) /\ Plain(p, i) \in Seq(STRING)
              /\ <<i, 0>> \in Ways /\ Made(p, <<i, 0>>) = Plain(p, i)
         /\ \A i \in DOMAIN Wordlist, j \in DOMAIN Extensions : Wordlist[i].extend =>
              /\ Extended(p, i, j) \in Candidates(p) /\ Extended(p, i, j) \in Seq(STRING)
              /\ <<i, j>> \in Ways /\ Made(p, <<i, j>>) = Extended(p, i, j)
         /\ \A t \in Candidates(p) : \E i \in DOMAIN Wordlist :
              \/ t = Plain(p, i)
              \/ Wordlist[i].extend /\ \E j \in DOMAIN Extensions : t = Extended(p, i, j)
<1>1. /\ Base[p] \in Seq(STRING)
      /\ Wordlist \in Seq([word : Seq(STRING), extend : BOOLEAN])
      /\ Extensions \in Seq(Seq(STRING))
  BY HiddenObjectsAssumption
<1>2. /\ DOMAIN Wordlist = 1..Len(Wordlist) /\ DOMAIN Extensions = 1..Len(Extensions)
      /\ Len(Wordlist) \in Nat /\ Len(Extensions) \in Nat
      /\ \A i \in DOMAIN Wordlist : Wordlist[i].word \in Seq(STRING)
      /\ \A j \in DOMAIN Extensions : Extensions[j] \in Seq(STRING)
  <2>1. /\ DOMAIN Wordlist = 1..Len(Wordlist) /\ DOMAIN Extensions = 1..Len(Extensions)
        /\ Len(Wordlist) \in Nat /\ Len(Extensions) \in Nat
    BY <1>1
  <2>2. \A R : Wordlist \in Seq(R) => \A i \in DOMAIN Wordlist : Wordlist[i] \in R
    OBVIOUS
  <2>3. \A j \in DOMAIN Extensions : Extensions[j] \in Seq(STRING)
    BY <1>1
  <2>4. \A w \in [word : Seq(STRING), extend : BOOLEAN] : w.word \in Seq(STRING)
    OBVIOUS
  <2> QED BY <1>1, <2>1, <2>2, <2>3, <2>4
<1>3. Candidates(p) \subseteq Candidate
  BY DEF Candidate
<1>4. \A i \in DOMAIN Wordlist : Plain(p, i) \in Seq(STRING)
  BY <1>1, <1>2 DEF Plain
<1>5. \A i \in DOMAIN Wordlist, j \in DOMAIN Extensions : Extended(p, i, j) \in Seq(STRING)
  BY <1>2, <1>4 DEF Extended
<1>6. \A i \in DOMAIN Wordlist : <<i, 0>> \in Ways /\ Made(p, <<i, 0>>) = Plain(p, i)
  <2> SUFFICES ASSUME NEW i \in DOMAIN Wordlist
               PROVE  <<i, 0>> \in Ways /\ Made(p, <<i, 0>>) = Plain(p, i)
    OBVIOUS
  <2>1. i \in 1..Len(Wordlist) /\ 0 \in 0..Len(Extensions)
    BY <1>2
  <2>2. <<i, 0>>[1] = i /\ <<i, 0>>[2] = 0
    OBVIOUS
  <2> QED BY <2>1, <2>2 DEF Ways, Made, Plain
<1>7. \A i \in DOMAIN Wordlist, j \in DOMAIN Extensions :
        /\ Wordlist[i].extend => <<i, j>> \in Ways
        /\ Made(p, <<i, j>>) = Extended(p, i, j)
  <2>1. \A j \in DOMAIN Extensions : j # 0 /\ j \in 0..Len(Extensions)
    BY <1>2
  <2> QED BY <1>2, <2>1 DEF Ways, Made, Plain, Extended
<1>8. /\ \A i \in DOMAIN Wordlist : Plain(p, i) \in Candidates(p)
      /\ \A i \in DOMAIN Wordlist, j \in DOMAIN Extensions : Wordlist[i].extend =>
           Extended(p, i, j) \in Candidates(p)
  <2>1. \A w \in Ways : Made(p, w) \in Candidates(p)
    BY DEF Candidates
  <2> QED BY <1>6, <1>7, <2>1
<1>9. ASSUME NEW t \in Candidates(p)
      PROVE  \E i \in DOMAIN Wordlist :
               \/ t = Plain(p, i)
               \/ Wordlist[i].extend /\ \E j \in DOMAIN Extensions : t = Extended(p, i, j)
  <2>1. PICK w \in Ways : t = Made(p, w)
    BY DEF Candidates
  <2>2. /\ w[1] \in DOMAIN Wordlist /\ w[2] \in 0..Len(Extensions)
        /\ w[2] = 0 \/ Wordlist[w[1]].extend
    BY <1>2 DEF Ways
  <2>3. CASE w[2] = 0
    BY <2>1, <2>2, <2>3 DEF Made, Plain
  <2>4. CASE w[2] # 0
    <3>1. w[2] \in DOMAIN Extensions
      BY <1>2, <2>2, <2>4
    <3> QED BY <2>1, <2>2, <2>4, <3>1 DEF Made, Plain, Extended
  <2> QED BY <2>3, <2>4
<1> QED BY <1>2, <1>3, <1>4, <1>5, <1>6, <1>7, <1>8, <1>9

\* What is generated for one word: nothing if the word alone is left out, and
\* otherwise all that is not left out.
LEMMA WordFacts ==
  ASSUME NEW p \in Page, NEW i \in DOMAIN Wordlist, NEW skip,
         NEW urls, urls = UrlsForWord(Base[p], Wordlist[i], skip)
  PROVE  /\ urls \in Seq(Candidates(p))
         /\ \A t \in ToSet(urls) : \E j \in Nat : <<i, j>> \in Ways /\ t = Made(p, <<i, j>>)
         /\ \A x : MadeOnce(x) => Once(urls, x)
         /\ Plain(p, i) \notin skip =>
              /\ Plain(p, i) \in ToSet(urls)
              /\ Wordlist[i].extend => \A j \in DOMAIN Extensions :
                   Extended(p, i, j) \in ToSet(urls) \cup skip
<1> DEFINE C == Candidates(p)
           Fresh(t) == IF t \in skip THEN <<>> ELSE <<t>>
           parts == [j \in DOMAIN Extensions |-> Fresh(Extended(p, i, j))]
<1>1. urls = IF Plain(p, i) \in skip THEN <<>>
             ELSE IF Wordlist[i].extend THEN <<Plain(p, i)>> \o FlattenSeq(parts)
             ELSE <<Plain(p, i)>>
  BY DEF UrlsForWord, Plain, Extended
<1>2. ToSet(<<>>) = {} /\ (\A x : Once(<<>>, x)) /\ <<>> \in Seq(C)
  BY DEF ToSet, Once
<1>3. \A t : ToSet(<<t>>) = {t} /\ (\A x : Once(<<t>>, x)) /\ (t \in C => <<t>> \in Seq(C))
  BY DEF ToSet, Once
<1>4. Plain(p, i) \in C /\ <<i, 0>> \in Ways /\ Made(p, <<i, 0>>) = Plain(p, i)
  BY CandidateFacts
<1>5. CASE Plain(p, i) \in skip
  BY <1>1, <1>2, <1>5
<1>6. CASE Plain(p, i) \notin skip /\ ~Wordlist[i].extend
  BY <1>1, <1>3, <1>4, <1>6
<1>7. CASE Plain(p, i) \notin skip /\ Wordlist[i].extend
  <2>1. /\ Len(Extensions) \in Nat /\ DOMAIN Extensions = 1..Len(Extensions)
        /\ \A j \in DOMAIN Extensions :
             /\ Extended(p, i, j) \in C /\ <<i, j>> \in Ways
             /\ Made(p, <<i, j>>) = Extended(p, i, j)
    BY <1>7, CandidateFacts
  <2>2. \A j \in DOMAIN Extensions : Fresh(Extended(p, i, j)) \in Seq(C)
    BY <1>2, <1>3, <2>1
  <2>3. parts \in Seq(Seq(C)) /\ DOMAIN parts = DOMAIN Extensions
    BY <2>1, <2>2
  <2>4. \A j \in DOMAIN Extensions :
          /\ (\A x : Once(parts[j], x)) /\ ToSet(parts[j]) = {Extended(p, i, j)} \ skip
    <3> SUFFICES ASSUME NEW j \in DOMAIN Extensions
                 PROVE  (\A x : Once(parts[j], x)) /\ ToSet(parts[j]) = {Extended(p, i, j)} \ skip
      OBVIOUS
    <3>1. parts[j] = Fresh(Extended(p, i, j))
      OBVIOUS
    <3> HIDE DEF parts
    <3>2. CASE Extended(p, i, j) \in skip
      BY <1>2, <3>1, <3>2
    <3>3. CASE Extended(p, i, j) \notin skip
      BY <1>3, <3>1, <3>3
    <3> QED BY <3>2, <3>3
  <2> HIDE DEF parts
  <2>5. /\ FlattenSeq(parts) \in Seq(C)
        /\ ToSet(FlattenSeq(parts)) = UNION {ToSet(parts[j]) : j \in DOMAIN parts}
        /\ \A x : /\ \A j \in DOMAIN parts : Once(parts[j], x)
                  /\ \A j, k \in DOMAIN parts : x \in ToSet(parts[j]) /\ x \in ToSet(parts[k]) => j = k
                  => Once(FlattenSeq(parts), x)
    BY <2>3, FlattenFacts
  <2>6. \A t : t \in ToSet(FlattenSeq(parts)) <=>
                 t \notin skip /\ \E j \in DOMAIN Extensions : t = Extended(p, i, j)
    BY <2>3, <2>4, <2>5
  <2>7. /\ urls \in Seq(C)
        /\ ToSet(urls) = {Plain(p, i)} \cup ToSet(FlattenSeq(parts))
        /\ \A x : Once(FlattenSeq(parts), x) /\ ~(x = Plain(p, i) /\ x \in ToSet(FlattenSeq(parts)))
                    => Once(urls, x)
    <3>1. <<Plain(p, i)>> \in Seq(C) /\ ToSet(<<Plain(p, i)>>) = {Plain(p, i)} /\ \A x : Once(<<Plain(p, i)>>, x)
      BY <1>3, <1>4
    <3>2. urls = <<Plain(p, i)>> \o FlattenSeq(parts)
      BY <1>1, <1>7
    <3> HIDE DEF C
    <3>3. ASSUME NEW a \in Seq(C), NEW b \in Seq(C)
          PROVE  /\ a \o b \in Seq(C) /\ ToSet(a \o b) = ToSet(a) \cup ToSet(b)
                 /\ \A x : Once(a, x) /\ Once(b, x) /\ ~(x \in ToSet(a) /\ x \in ToSet(b)) => Once(a \o b, x)
      BY ConcatFacts
    <3>4. PICK a, b : a = <<Plain(p, i)>> /\ b = FlattenSeq(parts)
      OBVIOUS
    <3>5. urls = a \o b /\ a \in Seq(C) /\ b \in Seq(C) /\ ToSet(a) = {Plain(p, i)} /\ \A x : Once(a, x)
      BY <2>5, <3>1, <3>2, <3>4
    <3>6. /\ urls \in Seq(C) /\ ToSet(urls) = {Plain(p, i)} \cup ToSet(b)
          /\ \A x : Once(b, x) /\ ~(x = Plain(p, i) /\ x \in ToSet(b)) => Once(urls, x)
      BY <3>3, <3>5
    <3> QED BY <3>4, <3>6 DEF C
  <2>8. ASSUME NEW x, MadeOnce(x) PROVE Once(urls, x)
    <3>1. \A v, w \in Ways : Made(p, v) = x /\ Made(p, w) = x => v = w
      BY <2>8 DEF MadeOnce
    <3>2. \A j, k \in DOMAIN Extensions : x = Extended(p, i, j) /\ x = Extended(p, i, k) => j = k
      <4>1. \A j, k \in DOMAIN Extensions :
              x = Extended(p, i, j) /\ x = Extended(p, i, k) => <<i, j>> = <<i, k>>
        BY <2>1, <3>1
      <4> QED BY <4>1
    <3>3. \A j \in DOMAIN Extensions : ~(x = Extended(p, i, j) /\ x = Plain(p, i))
      <4>1. \A j \in DOMAIN Extensions : x = Extended(p, i, j) /\ x = Plain(p, i) => <<i, j>> = <<i, 0>>
        BY <1>4, <2>1, <3>1
      <4>2. \A j \in DOMAIN Extensions : j # 0
        BY <2>1
      <4> QED BY <4>1, <4>2
    <3>4. Once(FlattenSeq(parts), x)
      <4>1. \A j, k \in DOMAIN parts : x \in ToSet(parts[j]) /\ x \in ToSet(parts[k]) => j = k
        BY <2>3, <2>4, <3>2
      <4> QED BY <2>3, <2>4, <2>5, <4>1
    <3> QED BY <2>6, <2>7, <3>3, <3>4
  <2>9. \A t \in ToSet(urls) : \E j \in Nat : <<i, j>> \in Ways /\ t = Made(p, <<i, j>>)
    <3>1. 0 \in Nat /\ \A j \in DOMAIN Extensions : j \in Nat
      BY <2>1
    <3> QED BY <1>4, <2>1, <2>6, <2>7, <3>1
  <2> QED BY <2>1, <2>6, <2>7, <2>8, <2>9
<1> QED BY <1>5, <1>6, <1>7

\* The URLs generated for a page are candidates of it, and all that are not left
\* out; they repeat nothing if the lists do not.
LEMMA TestUrlsFacts ==
  ASSUME NEW p \in Page, NEW skip
  PROVE  /\ TestUrls(p, skip) \in Seq(Candidates(p))
         /\ \A x : MadeOnce(x) => Once(TestUrls(p, skip), x)
         /\ \A i \in DOMAIN Wordlist : Plain(p, i) \in ToSet(TestUrls(p, skip)) \cup skip
         /\ \A i \in DOMAIN Wordlist, j \in DOMAIN Extensions : Wordlist[i].extend =>
              \/ Extended(p, i, j) \in ToSet(TestUrls(p, skip)) \cup skip
              \/ Plain(p, i) \in skip
<1> DEFINE C == Candidates(p)
           parts == [i \in DOMAIN Wordlist |-> UrlsForWord(Base[p], Wordlist[i], skip)]
<1>1. TestUrls(p, skip) = FlattenSeq(parts)
  BY DEF TestUrls
<1>2. DOMAIN Wordlist = 1..Len(Wordlist) /\ Len(Wordlist) \in Nat
  BY CandidateFacts
<1>3. ASSUME NEW i \in DOMAIN Wordlist
      PROVE  /\ parts[i] \in Seq(C)
             /\ \A t \in ToSet(parts[i]) : \E j \in Nat : <<i, j>> \in Ways /\ t = Made(p, <<i, j>>)
             /\ \A x : MadeOnce(x) => Once(parts[i], x)
             /\ Plain(p, i) \notin skip =>
                  /\ Plain(p, i) \in ToSet(parts[i])
                  /\ Wordlist[i].extend => \A j \in DOMAIN Extensions :
                       Extended(p, i, j) \in ToSet(parts[i]) \cup skip
  <2>1. parts[i] = UrlsForWord(Base[p], Wordlist[i], skip)
    OBVIOUS
  <2> HIDE DEF parts
  <2> QED BY <2>1, WordFacts
<1>4. DOMAIN parts = DOMAIN Wordlist /\ parts = [i \in DOMAIN Wordlist |-> parts[i]]
  OBVIOUS
<1> HIDE DEF parts, C
<1>5. parts \in Seq(Seq(C))
  BY <1>2, <1>3, <1>4
<1>6. /\ FlattenSeq(parts) \in Seq(C)
      /\ ToSet(FlattenSeq(parts)) = UNION {ToSet(parts[i]) : i \in DOMAIN parts}
      /\ \A x : /\ \A i \in DOMAIN parts : Once(parts[i], x)
                /\ \A i, j \in DOMAIN parts : x \in ToSet(parts[i]) /\ x \in ToSet(parts[j]) => i = j
                => Once(FlattenSeq(parts), x)
  BY <1>5, FlattenFacts
<1>7. ASSUME NEW x, MadeOnce(x) PROVE Once(FlattenSeq(parts), x)
  <2>1. ASSUME NEW i \in DOMAIN parts, NEW j \in DOMAIN parts,
               x \in ToSet(parts[i]), x \in ToSet(parts[j])
        PROVE  i = j
    <3>1. PICK k \in Nat : <<i, k>> \in Ways /\ x = Made(p, <<i, k>>)
      BY <1>3, <1>4, <2>1
    <3>2. PICK m \in Nat : <<j, m>> \in Ways /\ x = Made(p, <<j, m>>)
      BY <1>3, <1>4, <2>1
    <3>3. \A v, w \in Ways : Made(p, v) = x /\ Made(p, w) = x => v = w
      BY <1>7 DEF MadeOnce
    <3>4. <<i, k>> = <<j, m>>
      BY <3>1, <3>2, <3>3
    <3> QED BY <3>4
  <2>2. \A i \in DOMAIN parts : Once(parts[i], x)
    BY <1>3, <1>4, <1>7
  <2> QED BY <1>6, <2>1, <2>2
<1>8. \A i \in DOMAIN Wordlist : \A t \in ToSet(parts[i]) : t \in ToSet(FlattenSeq(parts))
  BY <1>4, <1>6
<1> QED BY <1>1, <1>3, <1>6, <1>7, <1>8 DEF C

\* Pages of different directories share no candidate that the lists make once.
LEMMA CandidatesApart ==
  ASSUME NEW t, MadeOnce(t), NEW p \in Page, NEW q \in Page,
         t \in Candidates(p), t \in Candidates(q)
  PROVE  Base[p] = Base[q]
  BY DEF MadeOnce, Candidates

\* A URL is a prefix of its extensions.
LEMMA PlainIsPrefix ==
  ASSUME NEW p \in Page, NEW i \in DOMAIN Wordlist
  PROVE  /\ IsPrefix(Plain(p, i), Plain(p, i))
         /\ \A j \in DOMAIN Extensions : IsPrefix(Plain(p, i), Extended(p, i, j))
<1>1. Plain(p, i) \in Seq(STRING)
  BY CandidateFacts
<1>2. \A j \in DOMAIN Extensions : Extensions[j] \in Seq(STRING)
  BY HiddenObjectsAssumption
<1>3. ASSUME NEW a \in Seq(STRING), NEW b \in Seq(STRING) PROVE IsPrefix(a, a) /\ IsPrefix(a, a \o b)
  <2>1. Len(a) \in Nat /\ Len(b) \in Nat /\ Len(a \o b) = Len(a) + Len(b) /\ a \o b \in Seq(STRING)
    OBVIOUS
  <2>2. SubSeq(a \o b, 1, Len(a)) = SubSeq(a, 1, Len(a))
    OBVIOUS
  <2> QED BY <2>1, <2>2 DEF IsPrefix
<1> QED BY <1>1, <1>2, <1>3 DEF Extended
-----------------------------------------------------------------------------
(* The requests and the client.                                            *)

\* The requests of the search, as records.
LEMMA RequestFacts ==
  /\ \A p \in Page : Probe(p) \in Request /\ Probe(p).kind = "probe"
  /\ \A t \in Candidate, n \in 1..MaxTries : Try(t, n) \in Request
  /\ \A t, n : Try(t, n).kind = "try" /\ Try(t, n).url = t /\ Try(t, n).n = n
  /\ \A r \in Request : r.kind = "try" =>
       r.url \in Candidate /\ r.n \in 1..MaxTries /\ r = Try(r.url, r.n)
  /\ NoRequest \notin Request /\ NoRequest \notin Page
<1>1. \A p \in Page : Probe(p) \in Request /\ Probe(p).kind = "probe"
  BY DEF Probe, Request
<1>2. \A t, n : Try(t, n).kind = "try" /\ Try(t, n).url = t /\ Try(t, n).n = n
  BY DEF Try
<1>3. \A t \in Candidate, n \in 1..MaxTries : Try(t, n) \in Request
  BY DEF Request
<1>4. ASSUME NEW r \in Request, r.kind = "try"
      PROVE  r.url \in Candidate /\ r.n \in 1..MaxTries /\ r = Try(r.url, r.n)
  <2>1. r \notin {Probe(p) : p \in Page}
    BY <1>1, <1>4
  <2>2. r \in {Try(t, n) : t \in Candidate, n \in 1..MaxTries}
    BY <2>1 DEF Request
  <2>3. PICK t \in Candidate, n \in 1..MaxTries : r = Try(t, n)
    BY <2>2
  <2> QED BY <1>2, <2>3
<1> QED BY <1>1, <1>2, <1>3, <1>4, NullAssumption

\* A candidate is the key of its request, and so is the URL of the request.
LEMMA KeyFacts ==
  ASSUME NEW t \in Candidate
  PROVE  t \in Key /\ Url[t] \in Key
  BY DEF Key

\* Sole, without its quantifier.
LEMMA SoleFacts ==
  ASSUME NEW t \in Candidate, Sole(t), NEW u \in Candidate, Url[u] = t
  PROVE  MadeOnce(t) /\ u = t
  BY DEF Sole

\* The key of a candidate without rivals is its own.
LEMMA SoleKey ==
  ASSUME NEW t \in Candidate, Sole(t)
  PROVE  MadeOnce(t) /\ Url[t] = t
  BY DEF Sole

\* The client keeps its types.
LEMMA ClientTypes ==
  ASSUME Contract!ContractInv
  PROVE  /\ client_enabled \in BOOLEAN
         /\ schedule_queue \in Seq(Request)
         /\ inflight \subseteq Request
         /\ fate \in [Request -> Client!Fate]
         /\ Queued \subseteq Request
         /\ Queued = {} <=> schedule_queue = <<>>
  BY DEF Contract!ContractInv, Contract!ContractTypeOK, Contract!Fate, Contract!Final,
         Client!Fate, Client!Final, Queued, Contract!Queued

\* The same after a step.
LEMMA ClientTypesNext ==
  ASSUME Contract!ContractInv'
  PROVE  /\ client_enabled' \in BOOLEAN
         /\ schedule_queue' \in Seq(Request)
         /\ inflight' \subseteq Request
         /\ fate' \in [Request -> Client!Fate]
         /\ Queued' \subseteq Request
         /\ Queued' = {} <=> schedule_queue' = <<>>
  BY DEF Contract!ContractInv, Contract!ContractTypeOK, Contract!Fate, Contract!Final,
         Client!Fate, Client!Final, Queued, Contract!Queued

\* No candidate is tried in a step.
SameTries ==
  \A t \in Candidate : Tries(t)' = Tries(t) /\ AcceptedTries(t)' = AcceptedTries(t)

\* Whether a URL was tried depends on which requests are new or rejected.
LEMMA TriesKept ==
  ASSUME \A r \in Request : (fate'[r] = "new" <=> fate[r] = "new")
                            /\ (fate'[r] = "rejected" <=> fate[r] = "rejected")
  PROVE  SameTries
<1>1. \A t \in Candidate : Tries(t)' = Tries(t)
  BY RequestFacts DEF Tries
<1>2. \A t \in Candidate : AcceptedTries(t)' = AcceptedTries(t)
  BY RequestFacts DEF AcceptedTries
<1> QED BY <1>1, <1>2 DEF SameTries

\* A stutter of the client tries nothing.
LEMMA TriesStutter == ASSUME fate' = fate PROVE SameTries
  BY TriesKept

\* A step that leaves the finder's queues alone and tries nothing.
LEMMA SearchKept ==
  ASSUME IInv, UNCHANGED search, client_enabled' => client_enabled,
         SameTries
  PROVE  TriedInv' /\ SearchedInv'
<1>1. UNCHANGED <<pending_urls, test_urls_queue, probed_urls>>
  BY DEF search
<1>2. test_urls_queue \in Seq(Candidate) /\ ToSet(test_urls_queue) \subseteq Candidate
  BY DEF IInv, TypeOK, ToSet
<1>3. probed_urls \subseteq Page /\ \A p \in probed_urls : Candidates(p) \subseteq Candidate
  BY CandidateFacts DEF IInv, TypeOK
<1>4. TriedInv'
  <2>1. \A t \in Candidate : Tries(t) # {} \/ t \in ToSet(test_urls_queue) =>
          \E p \in probed_urls : t \in Candidates(p)
    BY DEF IInv, TriedInv
  <2>2. ASSUME NEW t \in Candidate, MadeOnce(t) PROVE TriedOnce(t)'
    <3>1. TriedOnce(t)
      BY <2>2 DEF IInv, TriedInv
    <3> QED BY <1>1, <3>1 DEF TriedOnce, SameTries
  <2> QED BY <1>1, <2>1, <2>2 DEF TriedInv, SameTries
<1>5. SearchedInv'
  BY <1>1, <1>3 DEF IInv, SearchedInv, LeftOut, SameTries
<1> QED BY <1>4, <1>5

\* A step that gives the finder no page and takes none up.
LEMMA PagesKept ==
  ASSUME IInv, UNCHANGED <<pending_urls, probed_urls, page, probed_dirs>>,
         coming' \subseteq coming, client_enabled' => client_enabled,
         pc' = pc \/ pc' # "detect"
  PROVE  PagesInv'
<1>1. Given' = Given
  BY DEF Given
<1> QED BY <1>1 DEF IInv, PagesInv

\* The end of a transfer.
LEMMA FinishFacts ==
  ASSUME IInv, NEW r \in Request, NEW end, Client!Finish(r, end)
  PROVE  /\ Contract!ContractInv'
         /\ r \in inflight /\ fate[r] = "accepted" /\ r \notin Queued
         /\ UNCHANGED <<client_enabled, schedule_queue>> /\ Queued' = Queued
         /\ inflight' = inflight \ {r}
         /\ fate'[r] = end
         /\ \A q \in Request : q # r => fate'[q] = fate[q]
         /\ SameTries
         /\ end # "new" /\ end # "rejected"
<1>1. Contract!Finish(r, end)
  BY DEF Client!Finish, Contract!Finish
<1>2. /\ Contract!ContractInv'
      /\ r \in inflight /\ fate[r] = "accepted" /\ r \notin Queued
      /\ end \in {"handled", "unhandled"}
      /\ UNCHANGED <<client_enabled, schedule_queue>> /\ Queued' = Queued
      /\ inflight' = inflight \ {r}
      /\ fate' = [fate EXCEPT ![r] = end]
  BY <1>1, Contract!FinishEffect DEF IInv, Queued
<1>3. fate'[r] = end /\ \A q \in Request : q # r => fate'[q] = fate[q]
  BY <1>2 DEF IInv, TypeOK
<1>4. \A q \in Request : (fate'[q] = "new" <=> fate[q] = "new")
                          /\ (fate'[q] = "rejected" <=> fate[q] = "rejected")
  BY <1>2, <1>3
<1> QED BY <1>2, <1>3, <1>4, TriesKept

\* A request that the client is asked to send.
LEMMA ScheduleFacts ==
  ASSUME IInv, NEW r \in Request, Client!Schedule(r)
  PROVE  /\ Contract!ContractInv'
         /\ fate[r] = "new" /\ r \notin Queued /\ r \notin inflight
         /\ UNCHANGED <<client_enabled, inflight>>
         /\ client_enabled =>
              Queued' = Queued \cup {r} /\ fate'[r] = "accepted" /\ schedule_queue' # <<>>
         /\ ~client_enabled =>
              /\ UNCHANGED schedule_queue /\ Queued' = Queued
              /\ fate'[r] = "rejected"
         /\ \A q \in Request : q # r => fate'[q] = fate[q]
<1>1. Contract!Schedule(r)
  BY DEF Client!Schedule, Contract!Schedule
<1>2. /\ Contract!ContractInv'
      /\ fate[r] = "new" /\ r \notin Queued /\ r \notin inflight
      /\ UNCHANGED <<client_enabled, inflight>>
      /\ client_enabled => Queued' = Queued \cup {r} /\ fate' = [fate EXCEPT ![r] = "accepted"]
      /\ ~client_enabled =>
           /\ UNCHANGED schedule_queue /\ Queued' = Queued
           /\ fate' = [fate EXCEPT ![r] = "rejected"]
  BY <1>1, Contract!ScheduleEffect DEF IInv, Queued
<1>3. client_enabled => schedule_queue' # <<>>
  BY <1>2, ClientTypesNext
<1> QED BY <1>2, <1>3 DEF IInv, TypeOK

-----------------------------------------------------------------------------
(* The initial states, and the steps that concern no request.              *)

\* Nothing waits and nothing is owned.
LEMMA InitIInv == ASSUME Init PROVE IInv
<1>1. Contract!ContractInv
  BY DEF Init, Client!ClientInit, Contract!ContractInv, Contract!ContractTypeOK,
         Contract!Queued, Contract!Fate, Contract!Final
<1>2. /\ pc = "start" /\ page = NoRequest /\ coming = Page /\ left = 0
      /\ probed_dirs = {} /\ not_found_known = FALSE /\ probed_urls = {}
      /\ pending_urls = <<>> /\ test_urls_queue = <<>>
      /\ requests = [k \in Key |-> NoRequest]
      /\ stored = {} /\ freed = {} /\ num_objects_found = 0
      /\ schedule_queue = <<>> /\ inflight = {} /\ fate = [r \in Request |-> "new"]
  BY DEF Init, Client!ClientInit
<1>3. ToSet(<<>>) = {}
  BY DEF ToSet
<1>4. TypeOK
  <2>1. 0 \in 0..Amount
    BY HiddenObjectsAssumption
  <2>2. requests \in [Key -> Request \cup {NoRequest}]
    BY <1>2
  <2>3. pending_urls \in Seq(Page) /\ test_urls_queue \in Seq(Candidate)
    BY <1>2
  <2>4. /\ client_enabled \in BOOLEAN /\ schedule_queue \in Seq(Request)
        /\ inflight \subseteq Request /\ fate \in [Request -> Client!Fate]
    BY <1>1, ClientTypes
  <2> QED BY <1>2, <2>1, <2>2, <2>3, <2>4 DEF TypeOK
<1>5. PagesInv
  BY <1>2, <1>3 DEF PagesInv, Given
<1>6. \A t \in Candidate : Tries(t) = {} /\ AcceptedTries(t) = {}
  BY <1>2, RequestFacts DEF Tries, AcceptedTries
<1>7. TriedInv
  <2>1. \A t : Once(test_urls_queue, t)
    BY <1>2 DEF Once
  <2> QED BY <1>2, <1>3, <1>6, <2>1 DEF TriedInv, TriedOnce
<1>8. OwnersInv
  <2>1. IsFiniteSet({}) /\ Cardinality({}) = 0
    BY FS_EmptySet
  <2> QED BY <1>2, <1>3, <2>1 DEF OwnersInv, ClientHoldsOwnedRequests, Held, FoundObjectsAreStored, StoredAreTries, EntriesInv
<1>9. SearchedInv /\ LoopInv
  BY <1>2 DEF SearchedInv, LoopInv
<1> QED BY <1>1, <1>4, <1>5, <1>7, <1>8, <1>9 DEF IInv

\* Steps that move the main thread only.
LEMMA MoveIInv ==
  ASSUME IInv, UNCHANGED <<clientVars, detector, search, owners>>,
         pc' = pc \/ pc' # "detect", TypeOK', LoopInv'
  PROVE  IInv'
<1>1. /\ UNCHANGED <<client_enabled, schedule_queue, inflight, fate, page, coming, probed_dirs>>
      /\ UNCHANGED <<pending_urls, test_urls_queue, probed_urls>>
      /\ UNCHANGED <<requests, stored, freed, num_objects_found>>
  BY DEF clientVars, detector, search, owners
<1>2. Contract!ContractInv'
  BY <1>1, Contract!ClientStutter DEF IInv, Contract!clientVars
<1>3. PagesInv'
  BY <1>1, PagesKept
<1>4. TriedInv' /\ SearchedInv'
  <2>1. SameTries
    BY <1>1, TriesStutter
  <2> QED BY <1>1, <2>1, SearchKept DEF search
<1>5. OwnersInv'
  BY <1>1 DEF IInv, OwnersInv, ClientHoldsOwnedRequests, Held, FoundObjectsAreStored, StoredAreTries, EntriesInv
<1> QED BY <1>2, <1>3, <1>4, <1>5 DEF IInv

\* The stages of the loop follow each other; BatchDone and Repeat end a pass.
LEMMA StageIInv ==
  ASSUME IInv, \/ StartNewRequests \/ LaunchDone \/ UseAfterFree \/ PollDone \/ ProbeQueueEmpty
               \/ BatchDone \/ Repeat
  PROVE  IInv'
<1>1. UNCHANGED <<clientVars, detector, search, owners>>
  BY DEF StartNewRequests, LaunchDone, UseAfterFree, PollDone, ProbeQueueEmpty, BatchDone, Repeat
<1>2. UNCHANGED <<client_enabled, schedule_queue, pending_urls, test_urls_queue, probed_urls>>
  BY <1>1 DEF clientVars, search
<1>3. Amount \in Nat /\ Amount # 0
  BY HiddenObjectsAssumption
<1>4. left' \in 0..Amount
  BY <1>3 DEF IInv, TypeOK, StartNewRequests, LaunchDone, UseAfterFree, PollDone, ProbeQueueEmpty, BatchDone, Repeat
<1>5. pc' \in {"launch", "poll", "probe", "schedule", "repeat", "start", "done", "crashed"}
  BY DEF StartNewRequests, LaunchDone, UseAfterFree, PollDone, ProbeQueueEmpty, BatchDone, Repeat
<1>6. TypeOK'
  BY <1>1, <1>4, <1>5 DEF IInv, TypeOK, clientVars, detector, search, owners
<1>7. LoopInv'
  <2>1. LoopInv /\ (NothingToTry => NothingToTry')
    BY <1>2 DEF IInv, NothingToTry
  <2>2. pc' = "repeat" => pc = "batch" /\ (left = 0 \/ test_urls_queue = <<>>)
    BY DEF StartNewRequests, LaunchDone, UseAfterFree, PollDone, ProbeQueueEmpty, BatchDone, Repeat
  <2>3. pc' = "done" => pc = "repeat" /\ schedule_queue = <<>>
    BY DEF StartNewRequests, LaunchDone, UseAfterFree, PollDone, ProbeQueueEmpty, BatchDone, Repeat
  <2> QED BY <1>2, <1>3, <1>5, <2>1, <2>2, <2>3 DEF LoopInv
<1> QED BY <1>1, <1>5, <1>6, <1>7, MoveIInv
-----------------------------------------------------------------------------
(* The steps of the client.                                                *)

\* The client lets go of requests, and the owners do nothing.
LEMMA OwnersKept ==
  ASSUME IInv, UNCHANGED <<requests, stored, freed, num_objects_found>>,
         Held' \subseteq Held,
         \A q \in Request : fate'[q] = fate[q] \/ fate'[q] \notin {"new", "rejected"}
  PROVE  OwnersInv'
<1>1. /\ OwnersInv /\ stored \subseteq Request /\ freed \subseteq Request
      /\ \A k \in Key : requests[k] # NoRequest => requests[k] \in Request
  BY DEF IInv, TypeOK
<1>2. ClientHoldsOwnedRequests'
  BY <1>1 DEF OwnersInv, ClientHoldsOwnedRequests
<1>3. FoundObjectsAreStored' /\ IsFiniteSet(stored') /\ StoredAreTries'
  BY <1>1 DEF OwnersInv, FoundObjectsAreStored, StoredAreTries
<1>4. \A r \in freed' \cup stored' : fate'[r] # "new"
  BY <1>1 DEF OwnersInv
<1>5. EntriesInv'
  BY <1>1 DEF OwnersInv, EntriesInv
<1> QED BY <1>2, <1>3, <1>4, <1>5 DEF OwnersInv

\* A queued request is started: the client still points to the same requests.
LEMMA LaunchIInv == ASSUME IInv, LaunchRequest PROVE IInv'
<1>1. Client!Launch /\ pc = "launch" /\ pc' = pc /\ UNCHANGED <<left, detector, search, owners>>
  BY DEF LaunchRequest
<1>2. Contract!Launch
  BY <1>1 DEF Client!Launch, Contract!Launch
<1>3. /\ Contract!ContractInv'
      /\ client_enabled' = client_enabled /\ fate' = fate
      /\ \E r \in Queued : /\ r \in Request /\ fate[r] = "accepted"
                           /\ Queued' = Queued \ {r}
                           /\ inflight' = inflight \cup {r}
  BY <1>2, Contract!LaunchEffect DEF IInv, Queued
<1>4. Queued' \cup inflight' = Queued \cup inflight
  BY <1>3
<1>5. /\ UNCHANGED <<page, coming, probed_dirs, not_found_known>>
      /\ UNCHANGED <<pending_urls, test_urls_queue, probed_urls>>
      /\ UNCHANGED <<requests, stored, freed, num_objects_found, left, pc>>
  BY <1>1 DEF detector, search, owners
<1>6. TypeOK'
  BY <1>3, <1>5, ClientTypesNext DEF IInv, TypeOK
<1>7. PagesInv'
  BY <1>3, <1>5, PagesKept
<1>8. TriedInv' /\ SearchedInv'
  <2>1. SameTries
    BY <1>3, TriesStutter
  <2> QED BY <1>1, <1>3, <2>1, SearchKept
<1>9. OwnersInv'
  <2>1. ToSet(schedule_queue) = Queued /\ ToSet(schedule_queue)' = Queued'
    BY DEF ToSet, Queued, Contract!Queued
  <2> QED BY <1>3, <1>4, <1>5, <2>1
          DEF IInv, OwnersInv, ClientHoldsOwnedRequests, Held, FoundObjectsAreStored, StoredAreTries, EntriesInv
<1>10. LoopInv'
  BY <1>1 DEF LoopInv
<1> QED BY <1>3, <1>6, <1>7, <1>8, <1>9, <1>10 DEF IInv

\* A queued request is forgotten; its owner keeps it.
LEMMA DropIInv == ASSUME IInv, DropRequest PROVE IInv'
<1>1. Client!Drop /\ pc' = "poll" /\ UNCHANGED <<left, detector, search, owners>>
  BY DEF DropRequest
<1>2. Contract!Drop
  BY <1>1 DEF Client!Drop, Contract!Drop
<1>3. /\ Contract!ContractInv'
      /\ client_enabled' = client_enabled /\ inflight' = inflight
      /\ \E r \in Queued : /\ r \in Request /\ fate[r] = "accepted"
                           /\ Queued' = Queued \ {r}
                           /\ fate' = [fate EXCEPT ![r] = "dropped"]
  BY <1>2, Contract!DropEffect DEF IInv, Queued
<1>4. PICK r \in Queued : /\ r \in Request /\ fate[r] = "accepted"
                          /\ Queued' = Queued \ {r}
                          /\ fate' = [fate EXCEPT ![r] = "dropped"]
  BY <1>3
<1>5. /\ UNCHANGED <<page, coming, probed_dirs, not_found_known>>
      /\ UNCHANGED <<pending_urls, test_urls_queue, probed_urls>>
      /\ UNCHANGED <<requests, stored, freed, num_objects_found, left>>
  BY <1>1 DEF detector, search, owners
<1>6. fate'[r] = "dropped" /\ \A q \in Request : q # r => fate'[q] = fate[q]
  BY <1>4 DEF IInv, TypeOK
<1>7. TypeOK'
  BY <1>1, <1>3, <1>5, ClientTypesNext DEF IInv, TypeOK
<1>8. PagesInv'
  BY <1>1, <1>3, <1>5, PagesKept
<1>9. TriedInv' /\ SearchedInv'
  <2>1. SameTries
    BY <1>4, <1>6, TriesKept
  <2> QED BY <1>1, <1>3, <2>1, SearchKept
<1>10. OwnersInv'
  <2>1. Held = Queued \cup inflight /\ Held' = Queued' \cup inflight'
    BY DEF ToSet, Held, Queued, Contract!Queued
  <2>2. Held' \subseteq Held
    BY <1>3, <1>4, <2>1
  <2>3. \A q \in Request : fate'[q] = fate[q] \/ fate'[q] = "dropped"
    BY <1>6
  <2> QED BY <1>5, <2>2, <2>3, OwnersKept
<1>11. LoopInv'
  BY <1>1 DEF LoopInv
<1> QED BY <1>3, <1>7, <1>8, <1>9, <1>10, <1>11 DEF IInv

\* From here on the client rejects what it is given, and keeps what it has.
LEMMA DisableIInv == ASSUME IInv, Disable PROVE IInv'
<1>1. Client!Disable /\ UNCHANGED <<pc, left, detector, search, owners>>
  BY DEF Disable
<1>2. Contract!Disable
  BY <1>1 DEF Client!Disable, Contract!Disable
<1>3. /\ Contract!ContractInv'
      /\ client_enabled' = FALSE /\ UNCHANGED <<schedule_queue, inflight, fate>>
  BY <1>2, Contract!DisableEffect DEF IInv
<1>4. /\ UNCHANGED <<page, coming, probed_dirs, not_found_known>>
      /\ UNCHANGED <<pending_urls, test_urls_queue, probed_urls>>
      /\ UNCHANGED <<requests, stored, freed, num_objects_found, left, pc>>
  BY <1>1 DEF detector, search, owners
<1>5. TypeOK'
  BY <1>3, <1>4, ClientTypesNext DEF IInv, TypeOK
<1>6. PagesInv'
  BY <1>3, <1>4, PagesKept
<1>7. TriedInv' /\ SearchedInv'
  <2>1. SameTries
    BY <1>3, TriesStutter
  <2> QED BY <1>1, <1>3, <2>1, SearchKept
<1>8. OwnersInv'
  BY <1>3, <1>4
     DEF IInv, OwnersInv, ClientHoldsOwnedRequests, Held, FoundObjectsAreStored, StoredAreTries, EntriesInv
<1>9. LoopInv'
  BY <1>3 DEF LoopInv
<1> QED BY <1>3, <1>5, <1>6, <1>7, <1>8, <1>9 DEF IInv

-----------------------------------------------------------------------------
(* The end of a transfer.                                                  *)

\* The parts of the invariant that the handlers do not touch.
LEMMA PollIInv ==
  ASSUME IInv, NEW r \in Request, NEW end, Client!Finish(r, end),
         pc = "poll", pc' \in {"poll", "crashed"},
         UNCHANGED <<left, page, coming, probed_dirs, search>>,
         not_found_known' \in BOOLEAN,
         requests' \in [Key -> Request \cup {NoRequest}],
         stored' \subseteq Request, freed' \subseteq Request, num_objects_found' \in Nat,
         OwnersInv'
  PROVE  IInv'
<1>1. UNCHANGED <<pending_urls, test_urls_queue, probed_urls>>
  BY DEF search
<1>2. Contract!ContractInv' /\ client_enabled' = client_enabled /\ SameTries
  BY FinishFacts
<1>3. TypeOK'
  BY <1>1, <1>2, ClientTypesNext DEF IInv, TypeOK
<1>4. PagesInv'
  BY <1>1, <1>2, PagesKept
<1>5. TriedInv' /\ SearchedInv'
  BY <1>2, SearchKept
<1>6. LoopInv'
  BY DEF LoopInv
<1> QED BY <1>2, <1>3, <1>4, <1>5, <1>6 DEF IInv

\* A transfer ends and the owners do nothing.
LEMMA FinishOwners ==
  ASSUME IInv, NEW r \in Request, NEW end, Client!Finish(r, end),
         UNCHANGED <<requests, stored, freed, num_objects_found>>
  PROVE  OwnersInv'
<1>1. /\ Queued' = Queued /\ inflight' = inflight \ {r}
      /\ fate'[r] = end /\ end # "new" /\ end # "rejected"
      /\ \A q \in Request : q # r => fate'[q] = fate[q]
  BY FinishFacts
<1>2. Held = Queued \cup inflight /\ Held' = Queued' \cup inflight'
  BY DEF ToSet, Held, Queued, Contract!Queued
<1>3. Held' \subseteq Held
  BY <1>1, <1>2
<1>4. \A q \in Request : fate'[q] = fate[q] \/ fate'[q] \notin {"new", "rejected"}
  BY <1>1
<1> QED BY <1>3, <1>4, OwnersKept

\* No handler is called.
LEMMA FinishUnhandledIInv == ASSUME IInv, NEW r \in Request, FinishUnhandled(r) PROVE IInv'
<1>1. /\ Client!Finish(r, "unhandled") /\ pc = "poll" /\ pc' = pc
      /\ UNCHANGED <<left, page, coming, probed_dirs, not_found_known, search>>
      /\ UNCHANGED <<requests, stored, freed, num_objects_found>>
  BY DEF FinishUnhandled, detector, owners
<1>2. OwnersInv'
  BY <1>1, FinishOwners
<1> QED BY <1>1, <1>2, PollIInv DEF IInv, TypeOK

\* A probe is answered and destroyed.
LEMMA FinishProbeIInv == ASSUME IInv, NEW r \in Request, FinishProbe(r) PROVE IInv'
<1>1. /\ Client!Finish(r, "handled") /\ pc = "poll" /\ r.kind = "probe" /\ pc' = pc
      /\ not_found_known' \in {not_found_known, TRUE} /\ freed' = freed \cup {r}
      /\ UNCHANGED <<left, page, coming, probed_dirs, search>>
      /\ UNCHANGED <<requests, stored, num_objects_found>>
  BY DEF FinishProbe
<1>2. /\ r \in inflight /\ fate[r] = "accepted" /\ r \notin Queued /\ Queued' = Queued
      /\ inflight' = inflight \ {r}
      /\ fate'[r] = "handled"
      /\ \A q \in Request : q # r => fate'[q] = fate[q]
  BY <1>1, FinishFacts
<1>3. OwnersInv'
  <2>1. /\ OwnersInv /\ stored \subseteq Request /\ freed \subseteq Request
        /\ \A k \in Key : requests[k] # NoRequest => requests[k] \in Request
    BY DEF IInv, TypeOK
  <2>2. /\ Held = Queued \cup inflight /\ Held' = Queued' \cup inflight'
        /\ Held' \subseteq Held /\ r \notin Held' /\ r \in Held
    BY <1>2 DEF ToSet, Held, Queued, Contract!Queued
  <2>3. r \notin stored /\ r # NoRequest /\ \A k \in Key : requests[k] # r
    <3>1. \A k \in Key : requests[k] # NoRequest => requests[k] # r
      BY <1>1, <2>1 DEF OwnersInv, EntriesInv
    <3>2. r # NoRequest
      BY RequestFacts
    <3>3. r \notin stored
      BY <1>1, <2>1 DEF OwnersInv, StoredAreTries
    <3> QED BY <3>1, <3>2, <3>3
  <2>4. ClientHoldsOwnedRequests'
    BY <1>1, <2>1, <2>2 DEF OwnersInv, ClientHoldsOwnedRequests
  <2>5. FoundObjectsAreStored' /\ IsFiniteSet(stored') /\ StoredAreTries'
    BY <1>1, <2>1, <2>3 DEF OwnersInv, FoundObjectsAreStored, StoredAreTries
  <2>6. \A q \in freed' \cup stored' : fate'[q] # "new"
    BY <1>1, <1>2, <2>1 DEF OwnersInv
  <2>7. EntriesInv'
    BY <1>1, <1>2, <2>1 DEF OwnersInv, EntriesInv
  <2> QED BY <2>4, <2>5, <2>6, <2>7 DEF OwnersInv
<1>4. not_found_known' \in BOOLEAN /\ freed' \subseteq Request
  BY <1>1 DEF IInv, TypeOK
<1> QED BY <1>1, <1>3, <1>4, PollIInv DEF IInv, TypeOK

\* Two requests that the client holds for a candidate that the lists make once are
\* the same one.
LEMMA OneIsHeld ==
  ASSUME IInv, NEW q \in Request, NEW r \in Request, q.kind = "try", r.kind = "try",
         q.url = r.url, MadeOnce(q.url), q \in Held, r \in Held
  PROVE  q = r
<1>1. Held = Queued \cup inflight
  BY DEF ToSet, Held, Queued, Contract!Queued
<1>2. fate[q] = "accepted" /\ fate[r] = "accepted"
  BY <1>1 DEF IInv, Contract!ContractInv, Queued
<1>3. /\ q.url \in Candidate /\ q.n \in 1..MaxTries /\ q = Try(q.url, q.n)
      /\ r.n \in 1..MaxTries /\ r = Try(r.url, r.n)
  BY RequestFacts
<1>4. q.n \in AcceptedTries(q.url) /\ r.n \in AcceptedTries(q.url)
  BY <1>2, <1>3 DEF AcceptedTries
<1>5. AcceptedTries(q.url) \subseteq {1}
  BY <1>3 DEF IInv, TriedInv, TriedOnce
<1> QED BY <1>3, <1>4, <1>5

\* What a handler erases or hands over is what requests_ has under the URL of the
\* request that finished.  It is that request itself, or the request of a candidate
\* that shares its key with others.
LEMMA TryOwnersInv ==
  ASSUME IInv, NEW r \in Request, r.kind = "try", Client!Finish(r, "handled"),
         requests' = [requests EXCEPT ![Url[r.url]] = NoRequest],
         NEW o, o = requests[Url[r.url]], o # NoRequest,
         \/ /\ stored' = stored \cup {o} /\ freed' = freed
            /\ num_objects_found' = num_objects_found + 1
         \/ /\ stored' = stored /\ freed' = freed \cup {o}
            /\ num_objects_found' = num_objects_found
  PROVE  OwnersInv' /\ o \in Request
<1> DEFINE k == Url[r.url]
<1>1. /\ r \in inflight /\ fate[r] = "accepted" /\ r \notin Queued /\ Queued' = Queued
      /\ inflight' = inflight \ {r} /\ fate'[r] = "handled"
      /\ \A q \in Request : q # r => fate'[q] = fate[q]
  BY FinishFacts
<1>2. r.url \in Candidate /\ k \in Key
  BY RequestFacts, KeyFacts
<1>3. OwnersInv /\ requests \in [Key -> Request \cup {NoRequest}] /\ stored \subseteq Request
      /\ freed \subseteq Request
  BY DEF IInv, TypeOK
<1>4. /\ Held = Queued \cup inflight /\ Held' = Queued' \cup inflight'
      /\ r \in Held /\ r \notin Held' /\ Held' \subseteq Held /\ Held \subseteq Request
  BY <1>1, ClientTypes DEF ToSet, Held, Queued, Contract!Queued, IInv
<1> HIDE DEF k
<1>5. /\ o \in Request /\ o = requests[k]
      /\ requests'[k] = NoRequest /\ \A u \in Key : u # k => requests'[u] = requests[u]
  BY <1>2, <1>3 DEF k
<1>6. o.kind = "try" /\ o.url = k /\ fate[o] \notin {"new", "rejected"}
  BY <1>2, <1>3, <1>5 DEF OwnersInv, EntriesInv
<1>7. o \notin stored /\ o \notin freed
  BY <1>2, <1>3, <1>5 DEF OwnersInv, FoundObjectsAreStored
<1>8. \A u \in Key : u # k => requests[u] # o
  BY <1>3, <1>5, <1>6 DEF OwnersInv, EntriesInv
<1>9. ClientHoldsOwnedRequests'
  <2> SUFFICES ASSUME NEW q \in Held', q.kind = "probe" \/ Sole(q.url)
               PROVE  q \notin freed' /\ (q.kind = "try" => requests'[q.url] = q)
    BY DEF ClientHoldsOwnedRequests
  <2>1. q \in Request /\ q # r /\ q \in Held
    BY <1>4
  <2>2. q \notin freed /\ (q.kind = "try" => requests[q.url] = q)
    BY <1>3, <2>1 DEF OwnersInv, ClientHoldsOwnedRequests
  <2>3. ASSUME q.kind = "try" PROVE q.url \in Key /\ q.url # k
    <3>1. q.url \in Candidate
      BY <2>1, <2>3, RequestFacts
    <3>2. Sole(q.url)
      BY <2>3
    <3>3. ASSUME q.url = k PROVE FALSE
      <4>1. Url[r.url] = q.url
        BY <3>3 DEF k
      <4>2. MadeOnce(q.url) /\ r.url = q.url
        BY <1>2, <3>1, <3>2, <4>1, SoleFacts
      <4> QED BY <1>4, <2>1, <2>3, <4>2, OneIsHeld
    <3> QED BY <3>1, <3>3, KeyFacts
  <2>4. q # o
    BY <1>6, <2>3
  <2> QED BY <1>5, <2>2, <2>3, <2>4
<1>10. FoundObjectsAreStored'
  <2>1. num_objects_found = Cardinality(stored) /\ IsFiniteSet(stored)
    BY <1>3 DEF OwnersInv, FoundObjectsAreStored
  <2>2. num_objects_found' = Cardinality(stored')
    <3>1. Cardinality(stored \cup {o}) = Cardinality(stored) + 1
      BY <1>7, <2>1, FS_AddElement
    <3> QED BY <2>1, <3>1
  <2>3. stored' \cap freed' = {}
    BY <1>3, <1>7 DEF OwnersInv, FoundObjectsAreStored
  <2>4. ASSUME NEW u \in Key PROVE requests'[u] \notin stored' \cup freed'
    <3>1. NoRequest \notin stored' \cup freed'
      BY <1>3, <1>5, RequestFacts
    <3>2. requests[u] \notin stored \cup freed
      BY <1>3 DEF OwnersInv, FoundObjectsAreStored
    <3> QED BY <1>5, <1>8, <3>1, <3>2
  <2> QED BY <2>2, <2>3, <2>4 DEF FoundObjectsAreStored
<1>11. \A q \in freed' \cup stored' : fate'[q] # "new"
  <2>1. \A q \in freed \cup stored \cup {o} : q \in Request /\ fate[q] # "new"
    BY <1>3, <1>5, <1>6 DEF OwnersInv
  <2> QED BY <1>1, <2>1
<1>12. EntriesInv'
  <2> SUFFICES ASSUME NEW u \in Key, requests'[u] # NoRequest
               PROVE  /\ requests'[u].kind = "try" /\ requests'[u].url = u
                      /\ fate'[requests'[u]] \notin {"new", "rejected"}
    BY DEF EntriesInv
  <2>1. requests'[u] = requests[u] /\ requests[u] \in Request
    BY <1>3, <1>5
  <2> QED BY <1>1, <1>3, <2>1 DEF OwnersInv, EntriesInv
<1>13. IsFiniteSet(stored') /\ StoredAreTries'
  BY <1>3, <1>6, FS_AddElement DEF OwnersInv, StoredAreTries
<1> QED BY <1>5, <1>9, <1>10, <1>11, <1>12, <1>13 DEF OwnersInv

\* Nothing is found: what requests_ has under the URL is destroyed.
LEMMA TryFailsIInv == ASSUME IInv, NEW r \in Request, TryFails(r) PROVE IInv'
<1>1. /\ Client!Finish(r, "handled") /\ pc = "poll" /\ r.kind = "try" /\ pc' = pc
      /\ requests' = [requests EXCEPT ![Url[r.url]] = NoRequest]
      /\ freed' = freed \cup ({requests[Url[r.url]]} \ {NoRequest})
      /\ UNCHANGED <<left, page, coming, probed_dirs, not_found_known, search>>
      /\ UNCHANGED <<stored, num_objects_found>>
  BY DEF TryFails, detector
<1>2. /\ requests \in [Key -> Request \cup {NoRequest}]
      /\ freed \subseteq Request /\ stored \subseteq Request
      /\ num_objects_found \in Nat /\ not_found_known \in BOOLEAN
  BY DEF IInv, TypeOK
<1>3. PICK o : o = requests[Url[r.url]]
  OBVIOUS
<1>4. requests' \in [Key -> Request \cup {NoRequest}]
  BY <1>1, <1>2
<1>5. CASE o = NoRequest
  <2>1. Url[r.url] \in Key
    BY <1>1, RequestFacts, KeyFacts
  <2>2. requests' = requests /\ freed' = freed
    BY <1>1, <1>2, <1>3, <1>5, <2>1
  <2>3. OwnersInv'
    BY <1>1, <2>2, FinishOwners
  <2> QED BY <1>1, <1>2, <2>2, <2>3, PollIInv
<1>6. CASE o # NoRequest
  <2>1. freed' = freed \cup {o}
    BY <1>1, <1>3, <1>6
  <2>2. OwnersInv' /\ o \in Request
    BY <1>1, <1>3, <1>6, <2>1, TryOwnersInv
  <2> QED BY <1>1, <1>2, <1>4, <2>1, <2>2, PollIInv
<1> QED BY <1>5, <1>6

\* Something is found: the datastore takes the request, or destroys it.
LEMMA TrySucceedsIInv == ASSUME IInv, NEW r \in Request, TrySucceeds(r) PROVE IInv'
<1> DEFINE found == [accepted \in BOOLEAN |-> IF accepted THEN 1 ELSE 0]
<1>1. found[TRUE] = 1 /\ found[FALSE] = 0
  OBVIOUS
<1>2. HandOver(r, found)
  BY DEF TrySucceeds
<1> HIDE DEF found
<1>3. /\ Client!Finish(r, "handled") /\ pc = "poll" /\ r.kind = "try"
      /\ UNCHANGED <<left, page, coming, probed_dirs, not_found_known, search>>
  BY <1>2 DEF HandOver, detector
<1>4. num_objects_found \in Nat /\ stored \subseteq Request /\ freed \subseteq Request
      /\ not_found_known \in BOOLEAN /\ requests \in [Key -> Request \cup {NoRequest}]
  BY DEF IInv, TypeOK
<1>5. PICK o : o = requests[Url[r.url]]
  OBVIOUS
<1>6. CASE o = NoRequest
  <2>1. pc' = "crashed" /\ UNCHANGED <<requests, stored, freed, num_objects_found>>
    BY <1>2, <1>5, <1>6 DEF HandOver, owners
  <2>2. OwnersInv'
    BY <1>3, <2>1, FinishOwners
  <2> QED BY <1>3, <1>4, <2>1, <2>2, PollIInv
<1>7. CASE o # NoRequest
  <2>1. /\ pc' = pc /\ requests' = [requests EXCEPT ![Url[r.url]] = NoRequest]
        /\ \E accepted \in BOOLEAN :
             /\ stored' = IF accepted THEN stored \cup {o} ELSE stored
             /\ freed' = IF accepted THEN freed ELSE freed \cup {o}
             /\ num_objects_found' = num_objects_found + found[accepted]
    BY <1>2, <1>5, <1>7 DEF HandOver
  <2>2. PICK accepted \in BOOLEAN :
          /\ stored' = IF accepted THEN stored \cup {o} ELSE stored
          /\ freed' = IF accepted THEN freed ELSE freed \cup {o}
          /\ num_objects_found' = num_objects_found + found[accepted]
    BY <2>1
  <2>3. requests' \in [Key -> Request \cup {NoRequest}]
    BY <1>4, <2>1
  <2>4. CASE accepted
    <3>1. /\ stored' = stored \cup {o} /\ freed' = freed
          /\ num_objects_found' = num_objects_found + 1
      BY <1>1, <2>2, <2>4
    <3>2. OwnersInv' /\ o \in Request
      BY <1>3, <1>5, <1>7, <2>1, <3>1, TryOwnersInv
    <3> QED BY <1>3, <1>4, <2>1, <2>3, <3>1, <3>2, PollIInv
  <2>5. CASE ~accepted
    <3>1. stored' = stored /\ freed' = freed \cup {o}
      BY <2>2, <2>5
    <3>2. accepted = FALSE
      BY <2>5
    <3>3. num_objects_found' = num_objects_found
      <4>1. num_objects_found' = num_objects_found + found[FALSE]
        BY <2>2, <3>2, Zenon
      <4> QED BY <1>1, <1>4, <4>1
    <3>4. OwnersInv' /\ o \in Request
      BY <1>3, <1>5, <1>7, <2>1, <3>1, <3>3, TryOwnersInv
    <3> QED BY <1>3, <1>4, <2>1, <2>3, <3>1, <3>3, <3>4, PollIInv
  <2> QED BY <2>4, <2>5
<1> QED BY <1>6, <1>7
-----------------------------------------------------------------------------
(* Pages on their way to the finder.                                       *)

\* A page leaves the probe queue; the 404 detector works on it if its directory
\* is new.
LEMMA AddUrlIInv == ASSUME IInv, NEW p \in Page, AddUrl(p) PROVE IInv'
<1>1. /\ pc = "probe" /\ p \in coming /\ coming' = coming \ {p}
      /\ IF Base[p] \in probed_dirs THEN pc' = "schedule" /\ page' = page
                                    ELSE pc' = "detect" /\ page' = p
      /\ UNCHANGED <<clientVars, left, probed_dirs, not_found_known, search, owners>>
  BY DEF AddUrl
<1>2. /\ UNCHANGED <<client_enabled, schedule_queue, inflight, fate>>
      /\ UNCHANGED <<pending_urls, test_urls_queue, probed_urls>>
      /\ UNCHANGED <<requests, stored, freed, num_objects_found>>
  BY <1>1 DEF clientVars, search, owners
<1>3. Contract!ContractInv'
  BY <1>2, Contract!ClientStutter DEF IInv, Contract!clientVars
<1>4. TypeOK'
  BY <1>1, <1>2 DEF IInv, TypeOK
<1>5. PagesInv'
  <2>1. Given' = Given
    BY <1>2 DEF Given
  <2>2. p \notin Given
    BY <1>1 DEF IInv, PagesInv
  <2> QED BY <1>1, <1>2, <2>1, <2>2 DEF IInv, PagesInv
<1>6. TriedInv' /\ SearchedInv'
  <2>1. SameTries
    BY <1>2, TriesStutter
  <2> QED BY <1>1, <1>2, <2>1, SearchKept
<1>7. OwnersInv'
  BY <1>2 DEF IInv, OwnersInv, ClientHoldsOwnedRequests, Held, FoundObjectsAreStored,
              StoredAreTries, EntriesInv
<1>8. LoopInv'
  BY <1>1 DEF LoopInv
<1> QED BY <1>3, <1>4, <1>5, <1>6, <1>7, <1>8 DEF IInv

\* The elements and the order of a queue that grows.
LEMMA AppendFacts ==
  ASSUME NEW S, NEW s \in Seq(S), NEW x \in S
  PROVE  /\ Append(s, x) \in Seq(S) /\ Append(s, x) # <<>>
         /\ ToSet(Append(s, x)) = ToSet(s) \cup {x}
         /\ Injective(s) /\ x \notin ToSet(s) => Injective(Append(s, x))
<1>1. Append(s, x) = s \o <<x>> /\ <<x>> \in Seq(S) /\ Append(s, x) \in Seq(S)
      /\ Append(s, x) # <<>>
  OBVIOUS
<1>2. ToSet(<<x>>) = {x} /\ \A y : Once(<<x>>, y)
  BY DEF ToSet, Once
<1>3. PICK o \in Seq(S) : o = <<x>>
  BY <1>1
<1>4. /\ ToSet(s \o o) = ToSet(s) \cup ToSet(o)
      /\ \A y : Once(s, y) /\ Once(o, y) /\ ~(y \in ToSet(s) /\ y \in ToSet(o)) => Once(s \o o, y)
  BY ConcatFacts
<1>5. ASSUME Injective(s), x \notin ToSet(s) PROVE Injective(s \o o)
  <2>1. \A y : Once(s, y)
    BY <1>5, InjectiveOnce
  <2>2. \A y : Once(s \o o, y)
    BY <1>2, <1>3, <1>4, <1>5, <2>1
  <2> QED BY <2>2, InjectiveOnce
<1> QED BY <1>1, <1>2, <1>3, <1>4, <1>5

\* The elements and the order of a queue that loses its head.
LEMMA TailFacts ==
  ASSUME NEW S, NEW s \in Seq(S), s # <<>>
  PROVE  /\ Head(s) \in S /\ Head(s) \in ToSet(s) /\ Tail(s) \in Seq(S)
         /\ ToSet(s) = {Head(s)} \cup ToSet(Tail(s))
         /\ \A x : Once(s, x) => Once(Tail(s), x) /\ (x = Head(s) => x \notin ToSet(Tail(s)))
         /\ Injective(s) => Injective(Tail(s)) /\ Head(s) \notin ToSet(Tail(s))
<1>1. /\ Len(s) \in Nat /\ Len(s) >= 1 /\ DOMAIN s = 1..Len(s)
      /\ Head(s) = s[1] /\ Tail(s) \in Seq(S) /\ s[1] \in S
      /\ DOMAIN Tail(s) = 1..(Len(s) - 1)
      /\ \A i \in 1..(Len(s) - 1) : Tail(s)[i] = s[i + 1]
  OBVIOUS
<1>2. 1 \in DOMAIN s /\ \A i \in DOMAIN Tail(s) : i + 1 \in DOMAIN s /\ i + 1 # 1
  BY <1>1
<1>3. \A i \in DOMAIN s : i # 1 => i - 1 \in DOMAIN Tail(s) /\ Tail(s)[i - 1] = s[i]
  BY <1>1
<1>4. Head(s) \in ToSet(s)
  BY <1>1, <1>2 DEF ToSet
<1>5. ToSet(s) = {Head(s)} \cup ToSet(Tail(s))
  <2>1. \A i \in DOMAIN s : s[i] \in {Head(s)} \cup ToSet(Tail(s))
    BY <1>1, <1>3 DEF ToSet
  <2>2. \A i \in DOMAIN Tail(s) : Tail(s)[i] \in ToSet(s)
    BY <1>1, <1>2 DEF ToSet
  <2> QED BY <1>4, <2>1, <2>2 DEF ToSet
<1>6. ASSUME NEW x, Once(s, x) PROVE Once(Tail(s), x) /\ (x = Head(s) => x \notin ToSet(Tail(s)))
  <2>1. ASSUME NEW i \in DOMAIN Tail(s), NEW j \in DOMAIN Tail(s), Tail(s)[i] = x, Tail(s)[j] = x
        PROVE  i = j
    <3>1. i + 1 = j + 1
      BY <1>1, <1>2, <1>6, <2>1 DEF Once
    <3> QED BY <1>1, <3>1
  <2>2. ASSUME NEW i \in DOMAIN Tail(s), Tail(s)[i] = x, x = s[1] PROVE FALSE
    BY <1>1, <1>2, <1>6, <2>2 DEF Once
  <2> QED BY <1>1, <2>1, <2>2 DEF Once, ToSet
<1>7. ASSUME Injective(s) PROVE Injective(Tail(s)) /\ Head(s) \notin ToSet(Tail(s))
  <2>1. \A x : Once(s, x)
    BY <1>7, InjectiveOnce
  <2>2. \A x : Once(Tail(s), x)
    BY <1>6, <2>1
  <2> QED BY <1>6, <2>1, <2>2, InjectiveOnce
<1> QED BY <1>1, <1>4, <1>5, <1>6, <1>7

\* The finder is given a page with the probes of its directory, which a disabled
\* client rejects.
LEMMA ScheduleProbeIInv == ASSUME IInv, ScheduleProbe PROVE IInv'
<1>1. /\ pc = "detect" /\ Client!Schedule(Probe(page))
      /\ IF client_enabled
         THEN probed_dirs' = probed_dirs \cup {Base[page]} /\ freed' = freed
         ELSE freed' = freed \cup {Probe(page)} /\ probed_dirs' = probed_dirs
      /\ pending_urls' = Append(pending_urls, page)
      /\ page' = NoRequest /\ pc' = "schedule"
      /\ UNCHANGED <<left, coming, not_found_known, test_urls_queue, probed_urls>>
      /\ UNCHANGED <<requests, stored, num_objects_found>>
  BY DEF ScheduleProbe
<1>2. page \in Page /\ page \notin Given /\ page \notin coming
  BY <1>1 DEF IInv, PagesInv
<1>3. PICK r \in Request : r = Probe(page) /\ r.kind = "probe"
  BY <1>2, RequestFacts
<1>4. /\ Contract!ContractInv'
      /\ fate[r] = "new" /\ r \notin Queued /\ r \notin inflight
      /\ UNCHANGED <<client_enabled, inflight>>
      /\ client_enabled => Queued' = Queued \cup {r} /\ fate'[r] = "accepted"
      /\ ~client_enabled => Queued' = Queued /\ fate'[r] = "rejected"
      /\ \A q \in Request : q # r => fate'[q] = fate[q]
  BY <1>1, <1>3, ScheduleFacts
<1>5. /\ pending_urls' \in Seq(Page) /\ ToSet(pending_urls') = ToSet(pending_urls) \cup {page}
      /\ Injective(pending_urls) /\ page \notin ToSet(pending_urls) => Injective(pending_urls')
  BY <1>1, <1>2, AppendFacts DEF IInv, TypeOK
<1>6. TypeOK'
  <2>1. freed' \subseteq Request /\ probed_dirs' \subseteq {Base[p] : p \in Page}
    BY <1>1, <1>2, <1>3 DEF IInv, TypeOK
  <2> QED BY <1>1, <1>4, <1>5, <2>1, ClientTypesNext DEF IInv, TypeOK
<1>7. PagesInv'
  <2>1. Given' = Given \cup {page}
    BY <1>1, <1>5 DEF Given
  <2>2. \A i, j \in DOMAIN pending_urls' : pending_urls'[i] = pending_urls'[j] => i = j
    BY <1>2, <1>5 DEF IInv, PagesInv, Injective, Given
  <2>3. Given' \cap coming' = {} /\ ToSet(pending_urls') \cap probed_urls' = {}
    BY <1>1, <1>2, <1>5, <2>1 DEF IInv, PagesInv, Given
  <2>4. ASSUME client_enabled'
        PROVE  /\ \A p \in Given' : Base[p] \in probed_dirs'
               /\ \A p, q \in Given' : Base[p] = Base[q] => p = q
    BY <1>1, <1>4, <2>1, <2>4 DEF IInv, PagesInv
  <2> QED BY <1>1, <2>2, <2>3, <2>4 DEF PagesInv
<1>8. TriedInv' /\ SearchedInv'
  <2>1. SameTries
    <3>1. \A t, n : Try(t, n) # r
      BY <1>3, RequestFacts
    <3>2. \A t \in Candidate, n \in 1..MaxTries : fate'[Try(t, n)] = fate[Try(t, n)]
      BY <1>4, <3>1, RequestFacts
    <3> QED BY <3>2 DEF SameTries, Tries, AcceptedTries
  <2>2. test_urls_queue \in Seq(Candidate) /\ ToSet(test_urls_queue) \subseteq Candidate
    BY DEF IInv, TypeOK, ToSet
  <2>3. \A p \in probed_urls : Candidates(p) \subseteq Candidate
    BY CandidateFacts DEF IInv, TypeOK
  <2>4. TriedInv'
    <3>1. \A t \in Candidate : Tries(t) # {} \/ t \in ToSet(test_urls_queue) =>
            \E p \in probed_urls : t \in Candidates(p)
      BY DEF IInv, TriedInv
    <3>2. ASSUME NEW t \in Candidate, MadeOnce(t) PROVE TriedOnce(t)'
      <4>1. TriedOnce(t)
        BY <3>2 DEF IInv, TriedInv
      <4> QED BY <1>1, <1>4, <2>1, <4>1 DEF TriedOnce, SameTries
    <3> QED BY <1>1, <2>1, <3>1, <3>2 DEF TriedInv, SameTries
  <2>5. SearchedInv'
    BY <1>1, <2>1, <2>3 DEF IInv, SearchedInv, LeftOut, SameTries
  <2> QED BY <2>4, <2>5
<1>9. OwnersInv'
  <2>1. Held = Queued \cup inflight /\ Held' = Queued' \cup inflight'
    BY DEF ToSet, Held, Queued, Contract!Queued
  <2>2. OwnersInv
    BY DEF IInv
  <2>3. r \notin freed /\ r \notin stored /\ r # NoRequest
    BY <1>4, <2>2, RequestFacts DEF OwnersInv
  <2>4. /\ freed \subseteq Request /\ stored \subseteq Request
        /\ \A k \in Key : requests[k] # NoRequest => requests[k] \in Request /\ requests[k] # r
    BY <1>3, <2>2 DEF IInv, TypeOK, OwnersInv, EntriesInv
  <2>5. ClientHoldsOwnedRequests'
    <3> SUFFICES ASSUME NEW q \in Held', q.kind = "probe" \/ Sole(q.url)
                 PROVE  q \notin freed' /\ (q.kind = "try" => requests'[q.url] = q)
      BY DEF ClientHoldsOwnedRequests
    <3>1. CASE q = r
      <4>1. client_enabled
        BY <1>4, <2>1, <3>1
      <4> QED BY <1>1, <1>3, <2>3, <3>1, <4>1
    <3>2. CASE q # r
      <4>1. q \in Held
        BY <1>4, <2>1, <3>2
      <4>2. q \notin freed /\ (q.kind = "try" => requests[q.url] = q)
        BY <2>2, <4>1 DEF OwnersInv, ClientHoldsOwnedRequests
      <4> QED BY <1>1, <1>3, <3>2, <4>2
    <3> QED BY <3>1, <3>2
  <2>6. FoundObjectsAreStored' /\ StoredAreTries'
    BY <1>1, <1>3, <2>2, <2>3, <2>4 DEF OwnersInv, FoundObjectsAreStored, StoredAreTries
  <2>7. \A q \in freed' \cup stored' : fate'[q] # "new"
    <3>1. fate'[r] # "new" /\ \A q \in freed \cup stored : fate[q] # "new" /\ q \in Request
      BY <1>4, <2>2, <2>4 DEF OwnersInv
    <3> QED BY <1>1, <1>3, <1>4, <3>1
  <2>8. EntriesInv'
    BY <1>1, <1>4, <2>2, <2>4 DEF OwnersInv, EntriesInv
  <2> QED BY <1>1, <2>2, <2>5, <2>6, <2>7, <2>8 DEF OwnersInv
<1>10. LoopInv'
  BY <1>1 DEF LoopInv
<1> QED BY <1>4, <1>6, <1>7, <1>8, <1>9, <1>10 DEF IInv
-----------------------------------------------------------------------------
(* The search.                                                             *)

\* The next page is taken up when nothing waits: its candidates are new, because
\* no page of its directory was taken up before.
LEMMA TakePageInv ==
  ASSUME IInv, ScheduleRequests,
         test_urls_queue = <<>>, pending_urls # <<>>
  PROVE  /\ pending_urls' \in Seq(Page) /\ probed_urls' \subseteq Page
         /\ test_urls_queue' \in Seq(Candidate)
         /\ PagesInv' /\ TriedInv' /\ SearchedInv'
         /\ test_urls_queue' = <<>> => NothingToTry'
<1>1. PICK p : p = Head(pending_urls)
  OBVIOUS
<1>2. /\ pc' = "batch" /\ UNCHANGED <<client_enabled, fate, coming, page, probed_dirs>>
      /\ TakePage
  BY DEF ScheduleRequests, clientVars, detector
<1>3. /\ pending_urls' = Tail(pending_urls) /\ probed_urls' = probed_urls \cup {p}
      /\ test_urls_queue' = IF p \in probed_urls THEN <<>> ELSE TestUrls(p, probed_urls')
  BY <1>1, <1>2 DEF TakePage
<1>4. pending_urls \in Seq(Page) /\ probed_urls \subseteq Page
  BY DEF IInv, TypeOK
<1>5. /\ p \in Page /\ p \in ToSet(pending_urls) /\ pending_urls' \in Seq(Page)
      /\ ToSet(pending_urls) = {p} \cup ToSet(pending_urls')
      /\ Injective(pending_urls) => Injective(pending_urls') /\ p \notin ToSet(pending_urls')
  BY <1>1, <1>3, <1>4, TailFacts
<1>6. p \notin probed_urls /\ p \notin ToSet(pending_urls') /\ Injective(pending_urls')
  BY <1>5 DEF IInv, PagesInv, Injective
<1>7. test_urls_queue' = TestUrls(p, probed_urls')
  BY <1>3, <1>6
<1>8. /\ test_urls_queue' \in Seq(Candidates(p))
      /\ \A x : MadeOnce(x) => Once(test_urls_queue', x)
      /\ \A i \in DOMAIN Wordlist : Plain(p, i) \in ToSet(test_urls_queue') \cup probed_urls'
      /\ \A i \in DOMAIN Wordlist, j \in DOMAIN Extensions : Wordlist[i].extend =>
           \/ Extended(p, i, j) \in ToSet(test_urls_queue') \cup probed_urls'
           \/ Plain(p, i) \in probed_urls'
  BY <1>5, <1>7, TestUrlsFacts
<1>9. /\ test_urls_queue' \in Seq(Candidate) /\ Candidates(p) \subseteq Candidate
      /\ \A t \in ToSet(test_urls_queue') : t \in Candidates(p)
  <2>1. Candidates(p) \subseteq Candidate
    BY <1>5, CandidateFacts
  <2>2. \A t \in ToSet(test_urls_queue') : t \in Candidates(p)
    BY <1>8 DEF ToSet
  <2> QED BY <1>8, <2>1, <2>2
<1>10. SameTries
  BY <1>2, TriesStutter
<1>11. PagesInv'
  <2>1. Given' = Given
    BY <1>3, <1>5 DEF Given
  <2> QED BY <1>2, <1>3, <1>5, <1>6, <2>1 DEF IInv, PagesInv, Injective
<1>12. TriedInv'
  <2>1. ASSUME NEW t \in Candidate, Tries(t)' # {} \/ t \in ToSet(test_urls_queue')
        PROVE  \E q \in probed_urls' : t \in Candidates(q)
    <3>1. CASE t \in ToSet(test_urls_queue')
      BY <1>3, <1>9, <3>1
    <3>2. CASE Tries(t) # {}
      <4>1. \E q \in probed_urls : t \in Candidates(q)
        BY <3>2 DEF IInv, TriedInv
      <4> QED BY <1>3, <4>1
    <3> QED BY <1>10, <2>1, <3>1, <3>2 DEF SameTries
  <2>2. ASSUME NEW t \in Candidate, MadeOnce(t) PROVE TriedOnce(t)'
    <3>1. TriedOnce(t)
      BY <2>2 DEF IInv, TriedInv
    <3>2. ASSUME client_enabled', t \in ToSet(test_urls_queue') PROVE Tries(t) = {}
      <4>1. SUFFICES ASSUME Tries(t) # {} PROVE FALSE
        OBVIOUS
      <4>2. PICK q \in probed_urls : t \in Candidates(q)
        BY <4>1 DEF IInv, TriedInv
      <4>3. q \in Page /\ q # p /\ q \in Given /\ p \in Given
        BY <1>4, <1>5, <1>6 DEF Given
      <4>4. Base[p] # Base[q]
        BY <1>2, <3>2, <4>3 DEF IInv, PagesInv
      <4>5. t \in Candidates(p)
        BY <1>9, <3>2
      <4> QED BY <1>5, <2>2, <4>2, <4>3, <4>4, <4>5, CandidatesApart
    <3>3. Once(test_urls_queue', t)
      BY <1>8, <2>2
    <3> QED BY <1>2, <1>10, <3>1, <3>2, <3>3 DEF TriedOnce, SameTries
  <2> QED BY <2>1, <2>2 DEF TriedInv
<1>13. SearchedInv'
  <2> SUFFICES ASSUME NEW q \in probed_urls', NEW t \in Candidates(q)
               PROVE  Tries(t)' # {} \/ t \in ToSet(test_urls_queue') \/ LeftOut(q, t)'
    BY DEF SearchedInv
  <2>1. CASE q \in probed_urls
    <3>1. ToSet(test_urls_queue) = {}
      BY DEF ToSet
    <3>2. Tries(t) # {} \/ LeftOut(q, t)
      BY <2>1, <3>1 DEF IInv, SearchedInv
    <3>3. LeftOut(q, t) => LeftOut(q, t)'
      BY <1>3 DEF LeftOut
    <3>4. t \in Candidate
      BY <1>4, <2>1, CandidateFacts
    <3> QED BY <1>10, <3>2, <3>3, <3>4 DEF SameTries
  <2>2. CASE q = p
    <3>1. PICK i \in DOMAIN Wordlist :
            \/ t = Plain(p, i)
            \/ Wordlist[i].extend /\ \E j \in DOMAIN Extensions : t = Extended(p, i, j)
      BY <1>5, <2>2, CandidateFacts
    <3>2. IsPrefix(Plain(p, i), t)
      BY <1>5, <3>1, PlainIsPrefix
    <3>3. \/ t \in ToSet(test_urls_queue') \/ t \in probed_urls'
          \/ Plain(p, i) \in probed_urls'
      BY <1>8, <3>1
    <3>4. Plain(p, i) \in probed_urls' => LeftOut(p, t)'
      BY <3>2 DEF LeftOut, Plain
    <3>5. t \in probed_urls' => LeftOut(p, t)'
      BY DEF LeftOut
    <3> QED BY <2>2, <3>3, <3>4, <3>5
  <2> QED BY <1>3, <2>1, <2>2
<1>14. ASSUME test_urls_queue' = <<>> PROVE NothingToTry'
  <2>1. ToSet(test_urls_queue') = {}
    BY <1>14 DEF ToSet
  <2>2. \A i \in DOMAIN Wordlist : Base[p] \o Wordlist[i].word \in probed_urls'
    BY <1>8, <2>1 DEF Plain
  <2> QED BY <1>3, <2>2 DEF NothingToTry
<1> QED BY <1>3, <1>4, <1>5, <1>9, <1>11, <1>12, <1>13, <1>14

\* ScheduleRequests begins: with a page if nothing waits.
LEMMA ScheduleRequestsIInv ==
  ASSUME IInv, ScheduleRequests PROVE IInv'
<1>1. /\ pc' = "batch" /\ left' = Amount /\ UNCHANGED <<clientVars, detector, owners>>
      /\ TakePage
  BY DEF ScheduleRequests
<1>2. /\ UNCHANGED <<client_enabled, schedule_queue, inflight, fate>>
      /\ UNCHANGED <<page, coming, probed_dirs, not_found_known>>
      /\ UNCHANGED <<requests, stored, freed, num_objects_found>>
  BY <1>1 DEF clientVars, detector, owners
<1>3. Contract!ContractInv'
  BY <1>2, Contract!ClientStutter DEF IInv, Contract!clientVars
<1>4. OwnersInv'
  BY <1>2 DEF IInv, OwnersInv, ClientHoldsOwnedRequests, Held, FoundObjectsAreStored,
              StoredAreTries, EntriesInv
<1>5. Amount \in 0..Amount
  BY HiddenObjectsAssumption
<1>6. CASE test_urls_queue = <<>> /\ pending_urls # <<>>
  <2>1. /\ pending_urls' \in Seq(Page) /\ probed_urls' \subseteq Page
        /\ test_urls_queue' \in Seq(Candidate)
        /\ PagesInv' /\ TriedInv' /\ SearchedInv'
        /\ test_urls_queue' = <<>> => NothingToTry'
    BY <1>6, TakePageInv
  <2>2. TypeOK'
    BY <1>1, <1>2, <1>5, <2>1 DEF IInv, TypeOK
  <2>3. LoopInv'
    BY <1>1, <2>1 DEF LoopInv
  <2> QED BY <1>3, <1>4, <2>1, <2>2, <2>3 DEF IInv
<1>7. CASE ~(test_urls_queue = <<>> /\ pending_urls # <<>>)
  <2>1. UNCHANGED search /\ UNCHANGED <<pending_urls, test_urls_queue, probed_urls>>
    BY <1>1, <1>7 DEF TakePage, search
  <2>2. TypeOK'
    BY <1>1, <1>2, <1>5, <2>1 DEF IInv, TypeOK
  <2>3. PagesInv'
    BY <1>1, <1>2, <2>1, PagesKept
  <2>4. TriedInv' /\ SearchedInv'
    <3>1. SameTries
      BY <1>2, TriesStutter
    <3> QED BY <1>2, <2>1, <3>1, SearchKept
  <2>5. LoopInv'
    BY <1>1, <1>7, <2>1 DEF LoopInv
  <2> QED BY <1>3, <1>4, <2>2, <2>3, <2>4, <2>5 DEF IInv
<1> QED BY <1>6, <1>7

\* What is known of the candidate that is tried next.  While the client is enabled,
\* one that the lists make once was not tried before, and requests_ has no entry
\* for it to overwrite.
LEMMA NextTryFacts ==
  ASSUME IInv, ScheduleTry
  PROVE  \E t \in Candidate, n \in 1..MaxTries :
           /\ t = Head(test_urls_queue) /\ NextTry = Try(t, n)
           /\ t \in ToSet(test_urls_queue)
           /\ client_enabled /\ MadeOnce(t) =>
                Tries(t) = {} /\ n = 1 /\ requests[t] = NoRequest
<1>1. test_urls_queue \in Seq(Candidate) /\ test_urls_queue # <<>> /\ NextTry \in Request
  BY DEF IInv, TypeOK, ScheduleTry, MaySchedule
<1>2. PICK t : t = Head(test_urls_queue)
  OBVIOUS
<1>3. t \in Candidate /\ t \in ToSet(test_urls_queue) /\ t \in Key
  BY <1>1, <1>2, TailFacts, KeyFacts
<1>4. PICK n : n = Cardinality(Tries(t)) + 1
  OBVIOUS
<1>5. NextTry = Try(t, n)
  BY <1>2, <1>4 DEF NextTry
<1>6. n \in 1..MaxTries
  BY <1>1, <1>5, RequestFacts
<1>7. ASSUME client_enabled, MadeOnce(t)
      PROVE  Tries(t) = {} /\ n = 1 /\ requests[t] = NoRequest
  <2>1. Tries(t) = {}
    BY <1>3, <1>7 DEF IInv, TriedInv, TriedOnce
  <2>2. Cardinality(Tries(t)) = 0
    BY <2>1, FS_EmptySet
  <2>3. ASSUME requests[t] # NoRequest PROVE FALSE
    <3>1. PICK q \in Request : q = requests[t]
      BY <1>3, <2>3 DEF IInv, TypeOK
    <3>2. q.kind = "try" /\ q.url = t /\ fate[q] # "new"
      BY <1>3, <2>3, <3>1 DEF IInv, OwnersInv, EntriesInv
    <3>3. q.n \in 1..MaxTries /\ q = Try(t, q.n)
      BY <3>2, RequestFacts
    <3>4. q.n \in Tries(t)
      BY <3>2, <3>3 DEF Tries
    <3> QED BY <2>1, <3>4
  <2> QED BY <1>4, <2>1, <2>2, <2>3
<1> QED BY <1>2, <1>3, <1>5, <1>6, <1>7

\* A candidate is tried.
LEMMA ScheduleTryIInv == ASSUME IInv, ScheduleTry PROVE IInv'
<1>1. /\ pc = "batch" /\ left > 0 /\ test_urls_queue # <<>>
      /\ Client!Schedule(NextTry) /\ Keep(NextTry) /\ NextTry \in Request
      /\ test_urls_queue' = Tail(test_urls_queue) /\ left' = left - 1
      /\ UNCHANGED <<pc, page, coming, probed_dirs, not_found_known>>
      /\ UNCHANGED <<pending_urls, probed_urls, stored, num_objects_found>>
  BY DEF ScheduleTry, MaySchedule, detector
<1>2. PICK t \in Candidate, n \in 1..MaxTries :
        /\ t = Head(test_urls_queue) /\ NextTry = Try(t, n)
        /\ t \in ToSet(test_urls_queue)
        /\ client_enabled /\ MadeOnce(t) =>
             Tries(t) = {} /\ n = 1 /\ requests[t] = NoRequest
  BY NextTryFacts
<1>3. PICK r \in Request : r = NextTry /\ r.kind = "try" /\ r.url = t /\ r.n = n /\ r = Try(t, n)
  BY <1>1, <1>2, RequestFacts
<1>4. /\ Contract!ContractInv'
      /\ fate[r] = "new" /\ r \notin Queued /\ r \notin inflight
      /\ UNCHANGED <<client_enabled, inflight>>
      /\ client_enabled =>
           Queued' = Queued \cup {r} /\ fate'[r] = "accepted" /\ schedule_queue' # <<>>
      /\ ~client_enabled => Queued' = Queued /\ fate'[r] = "rejected"
      /\ \A q \in Request : q # r => fate'[q] = fate[q]
  BY <1>1, <1>3, ScheduleFacts
<1>5. /\ client_enabled => /\ requests' = [requests EXCEPT ![t] = r]
                           /\ freed' = freed \cup ({requests[t]} \ {NoRequest})
      /\ ~client_enabled => requests' = requests /\ freed' = freed \cup {r}
  BY <1>1, <1>3 DEF Keep
<1>6. /\ requests \in [Key -> Request \cup {NoRequest}]
      /\ test_urls_queue \in Seq(Candidate)
      /\ stored \subseteq Request /\ freed \subseteq Request
      /\ inflight \subseteq Request /\ Queued \subseteq Request
      /\ t \in Key
  BY ClientTypes, KeyFacts DEF IInv, TypeOK
<1>7. /\ test_urls_queue' \in Seq(Candidate)
      /\ ToSet(test_urls_queue) = {t} \cup ToSet(test_urls_queue')
      /\ \A x : Once(test_urls_queue, x) =>
           Once(test_urls_queue', x) /\ (x = t => x \notin ToSet(test_urls_queue'))
  BY <1>1, <1>2, <1>6, TailFacts
<1>8. TypeOK'
  <2>1. left' \in 0..Amount
    BY <1>1, HiddenObjectsAssumption DEF IInv, TypeOK
  <2>2. requests' \in [Key -> Request \cup {NoRequest}] /\ freed' \subseteq Request
    BY <1>5, <1>6
  <2> QED BY <1>1, <1>4, <1>7, <2>1, <2>2, ClientTypesNext DEF IInv, TypeOK
<1>9. PagesInv'
  BY <1>1, <1>4, PagesKept
<1>10. /\ Tries(t)' = Tries(t) \cup {n}
       /\ \A u \in Candidate : u # t => Tries(u)' = Tries(u)
       /\ \A u \in Candidate : u # t => AcceptedTries(u)' = AcceptedTries(u)
       /\ AcceptedTries(t)' = AcceptedTries(t) \cup (IF client_enabled THEN {n} ELSE {})
  <2>1. \A u \in Candidate, m \in 1..MaxTries :
          /\ Try(u, m) \in Request
          /\ Try(u, m) = r <=> u = t /\ m = n
    BY <1>3, RequestFacts
  <2>2. fate'[r] # "new" /\ (fate'[r] # "rejected" <=> client_enabled)
    BY <1>4
  <2>3. \A u \in Candidate, m \in 1..MaxTries :
          fate'[Try(u, m)] # "new" <=> fate[Try(u, m)] # "new" \/ (u = t /\ m = n)
    BY <1>4, <2>1, <2>2
  <2>4. \A u \in Candidate, m \in 1..MaxTries :
          fate'[Try(u, m)] \notin {"new", "rejected"} <=>
            fate[Try(u, m)] \notin {"new", "rejected"} \/ (client_enabled /\ u = t /\ m = n)
    BY <1>4, <2>1, <2>2
  <2>5. \A u \in Candidate : u # t => AcceptedTries(u)' = AcceptedTries(u)
    BY <2>4 DEF AcceptedTries
  <2>6. AcceptedTries(t)' = AcceptedTries(t) \cup (IF client_enabled THEN {n} ELSE {})
    BY <2>4 DEF AcceptedTries
  <2> QED BY <2>3, <2>5, <2>6 DEF Tries
<1>11. TriedInv'
  <2>1. ASSUME NEW u \in Candidate, Tries(u)' # {} \/ u \in ToSet(test_urls_queue')
        PROVE  \E p \in probed_urls' : u \in Candidates(p)
    <3>1. Tries(u) # {} \/ u \in ToSet(test_urls_queue)
      BY <1>2, <1>7, <1>10, <2>1
    <3> QED BY <1>1, <3>1 DEF IInv, TriedInv
  <2>2. ASSUME NEW u \in Candidate, MadeOnce(u) PROVE TriedOnce(u)'
    <3>1. TriedOnce(u)
      BY <2>2 DEF IInv, TriedInv
    <3>2. CASE u # t
      BY <1>4, <1>7, <1>10, <3>1, <3>2 DEF TriedOnce
    <3>3. CASE u = t /\ client_enabled
      <4>1. Tries(t) = {} /\ n = 1
        BY <1>2, <2>2, <3>3
      <4> QED BY <1>4, <1>7, <1>10, <3>1, <3>3, <4>1 DEF TriedOnce
    <3>4. CASE u = t /\ ~client_enabled
      BY <1>4, <1>10, <3>1, <3>4 DEF TriedOnce
    <3> QED BY <3>2, <3>3, <3>4
  <2> QED BY <2>1, <2>2 DEF TriedInv
<1>12. SearchedInv'
  <2> SUFFICES ASSUME NEW p \in probed_urls, NEW u \in Candidates(p)
               PROVE  Tries(u)' # {} \/ u \in ToSet(test_urls_queue') \/ LeftOut(p, u)'
    BY <1>1 DEF SearchedInv
  <2>1. u \in Candidate
    BY CandidateFacts DEF IInv, TypeOK
  <2>2. Tries(u) # {} \/ u \in ToSet(test_urls_queue) \/ LeftOut(p, u)
    BY DEF IInv, SearchedInv
  <2>3. LeftOut(p, u)' <=> LeftOut(p, u)
    BY <1>1 DEF LeftOut
  <2> QED BY <1>7, <1>10, <2>1, <2>2, <2>3
<1>13. OwnersInv'
  <2>1. Held = Queued \cup inflight /\ Held' = Queued' \cup inflight'
    BY DEF ToSet, Held, Queued, Contract!Queued
  <2>2. OwnersInv
    BY DEF IInv
  <2>3. r \notin freed /\ r \notin stored /\ r # NoRequest
    BY <1>4, <2>2, RequestFacts DEF OwnersInv
  <2>4. \A k \in Key : requests[k] # r /\ (requests[k] # NoRequest =>
          /\ requests[k] \in Request /\ requests[k].kind = "try" /\ requests[k].url = k
          /\ fate[requests[k]] \notin {"new", "rejected"})
    BY <1>4, <1>6, <2>2, <2>3 DEF OwnersInv, EntriesInv
  <2>5. PICK o : o = requests[t]
    OBVIOUS
  <2>6. /\ o # r /\ o \notin stored /\ o \notin freed
        /\ \A k \in Key : k # t /\ requests[k] # NoRequest => requests[k] # o
        /\ o # NoRequest => o.url = t /\ o.kind = "try" /\ o \in Request /\ fate[o] # "new"
    BY <1>6, <2>2, <2>4, <2>5 DEF OwnersInv, FoundObjectsAreStored
  <2>7. /\ client_enabled => freed' = freed \cup ({o} \ {NoRequest})
        /\ client_enabled => requests'[t] = r
        /\ \A k \in Key : k # t \/ ~client_enabled => requests'[k] = requests[k]
    BY <1>5, <1>6, <2>5
  <2>8. ClientHoldsOwnedRequests'
    <3> SUFFICES ASSUME NEW q \in Held', q.kind = "probe" \/ Sole(q.url)
                 PROVE  q \notin freed' /\ (q.kind = "try" => requests'[q.url] = q)
      BY DEF ClientHoldsOwnedRequests
    <3>1. CASE q = r
      <4>1. client_enabled
        BY <1>4, <2>1, <3>1
      <4> QED BY <1>3, <2>3, <2>6, <2>7, <3>1, <4>1
    <3>2. CASE q # r
      <4>1. q \in Held /\ q \in Request
        BY <1>4, <1>6, <2>1, <3>2
      <4>2. q \notin freed /\ (q.kind = "try" => requests[q.url] = q)
        BY <2>2, <4>1 DEF OwnersInv, ClientHoldsOwnedRequests
      <4>3. ASSUME q.kind = "try", client_enabled PROVE q.url # t
        <5>1. q.url \in Candidate /\ q # NoRequest /\ Sole(q.url)
          BY <4>1, <4>3, RequestFacts
        <5>2. MadeOnce(q.url)
          BY <5>1, SoleKey
        <5> QED BY <1>2, <4>2, <4>3, <5>1, <5>2
      <4>4. q \notin freed'
        <5>1. CASE client_enabled
          <6>1. q # o \/ o = NoRequest
            BY <2>6, <4>3, <5>1
          <6> QED BY <2>7, <4>2, <5>1, <6>1
        <5>2. CASE ~client_enabled
          BY <1>5, <3>2, <4>2, <5>2
        <5> QED BY <5>1, <5>2
      <4>5. q.kind = "try" => requests'[q.url] = q
        <5>1. q.kind = "try" => q.url \in Key
          BY <4>1, RequestFacts, KeyFacts
        <5> QED BY <2>7, <4>2, <4>3, <5>1
      <4> QED BY <4>4, <4>5
    <3> QED BY <3>1, <3>2
  <2>9. FoundObjectsAreStored' /\ StoredAreTries'
    <3>1. num_objects_found' = Cardinality(stored') /\ StoredAreTries'
      BY <1>1, <2>2 DEF OwnersInv, FoundObjectsAreStored, StoredAreTries
    <3>2. freed' = freed \cup ({o} \ {NoRequest}) \/ freed' = freed \cup {r}
      BY <1>5, <2>7
    <3>3. stored' \cap freed' = {}
      BY <1>1, <2>2, <2>3, <2>6, <3>2 DEF OwnersInv, FoundObjectsAreStored
    <3>4. ASSUME NEW k \in Key PROVE requests'[k] \notin stored' \cup freed'
      <4>1. requests[k] \notin stored \cup freed
        BY <2>2 DEF OwnersInv, FoundObjectsAreStored
      <4>2. CASE client_enabled /\ k = t
        BY <1>1, <2>3, <2>6, <2>7, <4>2
      <4>3. CASE client_enabled /\ k # t
        BY <1>1, <2>6, <2>7, <4>1, <4>3
      <4>4. CASE ~client_enabled
        BY <1>1, <1>5, <2>4, <4>1, <4>4
      <4> QED BY <4>2, <4>3, <4>4
    <3> QED BY <3>1, <3>3, <3>4 DEF FoundObjectsAreStored
  <2>10. \A q \in freed' \cup stored' : fate'[q] # "new"
    <3>1. fate'[r] # "new"
      BY <1>4
    <3>2. \A q \in freed \cup stored : q \in Request /\ fate[q] # "new"
      BY <1>6, <2>2 DEF OwnersInv
    <3>3. \A q \in freed' \cup stored' : q \in freed \cup stored \/ q = r \/ (q = o /\ o # NoRequest)
      BY <1>1, <1>5, <2>7
    <3> QED BY <1>4, <2>6, <3>1, <3>2, <3>3
  <2>11. EntriesInv'
    <3> SUFFICES ASSUME NEW k \in Key, requests'[k] # NoRequest
                 PROVE  /\ requests'[k].kind = "try" /\ requests'[k].url = k
                        /\ fate'[requests'[k]] \notin {"new", "rejected"}
      BY DEF EntriesInv
    <3>1. CASE client_enabled /\ k = t
      BY <1>3, <1>4, <2>7, <3>1
    <3>2. CASE ~client_enabled \/ k # t
      <4>1. requests'[k] = requests[k]
        BY <2>7, <3>2
      <4> QED BY <1>4, <2>4, <4>1
    <3> QED BY <3>1, <3>2
  <2> QED BY <1>1, <2>2, <2>8, <2>9, <2>10, <2>11 DEF OwnersInv
<1>14. LoopInv'
  BY <1>1, <1>4 DEF LoopInv
<1> QED BY <1>4, <1>8, <1>9, <1>11, <1>12, <1>13, <1>14 DEF IInv

-----------------------------------------------------------------------------
(* The theorems.                                                           *)

\* Every step keeps the invariant.
LEMMA NextIInv == ASSUME IInv, [Next]_vars PROVE IInv'
<1>1. CASE UNCHANGED vars
  <2>1. UNCHANGED <<clientVars, pc, left, detector, search, owners>>
    BY <1>1 DEF vars
  <2>2. UNCHANGED <<client_enabled, schedule_queue, inflight, fate, page, coming, probed_dirs,
                    not_found_known, pending_urls, test_urls_queue, probed_urls, requests,
                    stored, freed, num_objects_found>>
    BY <2>1 DEF clientVars, detector, search, owners
  <2>3. TypeOK' /\ LoopInv'
    BY <2>1, <2>2 DEF IInv, TypeOK, LoopInv, NothingToTry
  <2> QED BY <2>1, <2>3, MoveIInv
<1>2. CASE \/ StartNewRequests \/ LaunchDone \/ UseAfterFree \/ PollDone \/ ProbeQueueEmpty
           \/ BatchDone \/ Repeat
  BY <1>2, StageIInv
<1>3. CASE LaunchRequest \/ DropRequest \/ Disable
  BY <1>3, LaunchIInv, DropIInv, DisableIInv
<1>4. CASE \E r \in Request :
             FinishUnhandled(r) \/ FinishProbe(r) \/ TryFails(r) \/ TrySucceeds(r)
  BY <1>4, FinishUnhandledIInv, FinishProbeIInv, TryFailsIInv, TrySucceedsIInv
<1>5. CASE (\E p \in Page : AddUrl(p)) \/ ScheduleProbe
  BY <1>5, AddUrlIInv, ScheduleProbeIInv
<1>6. CASE ScheduleRequests \/ ScheduleTry
  BY <1>6, ScheduleRequestsIInv, ScheduleTryIInv
<1> QED BY <1>1, <1>2, <1>3, <1>4, <1>5, <1>6 DEF Next, MainThread

\* The inductive invariant holds for all lists, all pages and all ways in which
\* the URL of a request may differ from the text it was made from.
THEOREM SearchInvariant == Spec => []IInv
<1>1. Init => IInv
  BY InitIInv
<1>2. IInv /\ [Next]_vars => IInv'
  BY NextIInv
<1> QED BY <1>1, <1>2, PTL DEF Spec

\* The client never points to a destroyed probe, and RequestCallback acts on the
\* request that finished, for every candidate whose key in requests_ no other
\* candidate has, whatever becomes of the others.
THEOREM RequestsAreOwnedWhileHeld == Spec => []ClientHoldsOwnedRequests
<1>1. IInv => ClientHoldsOwnedRequests
  BY DEF IInv, OwnersInv
<1> QED BY <1>1, SearchInvariant, PTL

\* Each object is counted once, when the datastore takes a request, and a request
\* has one owner, even if the finder hands over the request of another candidate.
THEOREM FoundObjectsAreCounted == Spec => []FoundObjectsAreStored
<1>1. IInv => FoundObjectsAreStored
  BY DEF IInv, OwnersInv
<1> QED BY <1>1, SearchInvariant, PTL

\* A candidate that the lists make once is tried once, however pages, batches and
\* SIGINT fall: the directories the 404 detector remembers and the pages the
\* finder remembers are enough.
THEOREM CandidatesAreTriedOnce == Spec => []NoCandidateIsTriedTwice
<1>1. ASSUME IInv, NEW t \in Candidate, MadeOnce(t)
      PROVE  Cardinality(AcceptedTries(t)) + (IF client_enabled THEN Waiting(t) ELSE 0) <= 1
  <2> DEFINE W == {i \in DOMAIN test_urls_queue : test_urls_queue[i] = t}
  <2>1. /\ AcceptedTries(t) \subseteq {1}
        /\ client_enabled => (\A i, j \in W : i = j) /\ (W # {} => Tries(t) = {})
    BY <1>1 DEF IInv, TriedInv, TriedOnce, Once, ToSet
  <2>2. Cardinality({}) = 0 /\ \A x : Cardinality({x}) = 1
    BY FS_EmptySet, FS_Singleton
  <2>3. Cardinality(AcceptedTries(t)) = 0 \/ Cardinality(AcceptedTries(t)) = 1
    <3>1. AcceptedTries(t) = {} \/ AcceptedTries(t) = {1}
      BY <2>1
    <3> QED BY <2>2, <3>1
  <2>4. Tries(t) = {} => AcceptedTries(t) = {}
    BY DEF Tries, AcceptedTries
  <2>5. Waiting(t) = Cardinality(W)
    BY DEF Waiting
  <2> HIDE DEF W
  <2>6. client_enabled => W = {} \/ \E i : W = {i}
    BY <2>1
  <2>7. W = {} => Cardinality(W) = 0
    BY <2>2
  <2>8. client_enabled /\ W # {} => Cardinality(W) = 1 /\ Cardinality(AcceptedTries(t)) = 0
    BY <2>1, <2>2, <2>4, <2>6
  <2> QED BY <2>3, <2>5, <2>7, <2>8
<1>2. IInv => NoCandidateIsTriedTwice
  BY <1>1 DEF NoCandidateIsTriedTwice
<1> QED BY <1>2, SearchInvariant, PTL

\* Plusfish::Run, whose loop condition does not look at the finder, never ends by
\* itself while candidates wait; it leaves pages only behind one that had nothing
\* to try, and no candidates but pages and their extensions.
THEOREM NothingIsLeftUntried == Spec => []SearchIsComplete
<1>1. ASSUME IInv PROVE SearchIsComplete
  <2> SUFFICES ASSUME pc = "done", client_enabled
               PROVE  /\ test_urls_queue = <<>>
                      /\ pending_urls = <<>> \/ NothingToTry
                      /\ \A p \in probed_urls : \A t \in Candidates(p) :
                           Tries(t) # {} \/ LeftOut(p, t)
    BY DEF SearchIsComplete, LeftOut
  <2>1. test_urls_queue = <<>> /\ (pending_urls = <<>> \/ NothingToTry)
    BY <1>1 DEF IInv, LoopInv
  <2>2. ToSet(test_urls_queue) = {}
    BY <2>1 DEF ToSet
  <2> QED BY <1>1, <2>1, <2>2 DEF IInv, SearchedInv
<1>2. IInv => SearchIsComplete
  BY <1>1
<1> QED BY <1>2, SearchInvariant, PTL
=============================================================================
