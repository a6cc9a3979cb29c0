--------------------------- MODULE HiddenObjects ---------------------------
(***************************************************************************)
(* HiddenObjectsFinder: for each new directory it tries the words of a     *)
(* wordlist, with and without extensions, and stores what it finds.  It is *)
(* composed with what it depends on: the 404 detector, which hands it the  *)
(* pages of new directories and supplies the fingerprint of the server's   *)
(* not-found page, the loop of Plusfish::Run that calls both, and the HTTP *)
(* client (HttpClientContract).                                            *)
(*                                                                         *)
(* URLs, words and extensions are sequences of tokens, because a candidate *)
(* is their concatenation, and two words may make the same text.  A        *)
(* Request parses the text and builds its URL anew, which may give another *)
(* text: the finder files a request under the one and looks it up under    *)
(* the other.  The probes the 404 detector sends for one page are one      *)
(* request here, and the server has one not-found page.                    *)
(***************************************************************************)
EXTENDS Integers, FiniteSets, Sequences, SequencesExt

CONSTANTS
  Page,        \* URLs that may leave the probe queue, each once
  Base,        \* StripUrlFileSuffix of each page
  Wordlist,    \* wordlist_ as it is iterated: [word, extend]
  Extensions,  \* extensions_ as it is iterated
  Url,         \* Request(t).url() of each candidate t
  Absent,      \* candidates answered with the not-found page and code 200
  Amount,      \* kMaxHiddenObjectsUrlsToSchedule
  MaxTries,    \* bound on the requests for one URL
  NoRequest    \* the null pointer

ASSUME HiddenObjectsAssumption ==
  /\ Base \in [Page -> Seq(STRING)]
  /\ Wordlist \in Seq([word : Seq(STRING), extend : BOOLEAN])
  /\ Extensions \in Seq(Seq(STRING))
  /\ Amount \in Nat \ {0}
  /\ MaxTries \in Nat \ {0}

\* The URLs generated for one word of a directory, the word alone first.
\* Pages that were handed over are left out, an extended word with all of its
\* extensions.
UrlsForWord(base, entry, skip) ==
  LET plain == base \o entry.word
      Fresh(t) == IF t \in skip THEN <<>> ELSE <<t>>
  IN  IF plain \in skip THEN <<>>
      ELSE IF entry.extend
      THEN <<plain>> \o
             FlattenSeq([j \in DOMAIN Extensions |-> Fresh(plain \o Extensions[j])])
      ELSE <<plain>>

\* Mutant: a word that is to be extended is queued with its extensions again.
TestUrlsPlainTwice(page, skip) ==
  FlattenSeq([i \in DOMAIN Wordlist |->
    LET urls == UrlsForWord(Base[page], Wordlist[i], skip)
    IN  IF Wordlist[i].extend /\ urls # <<>> THEN <<Head(urls)>> \o urls ELSE urls])

\* GenerateTestUrls for a page that was not handed over before.
TestUrls(page, skip) ==
  FlattenSeq([i \in DOMAIN Wordlist |->
                UrlsForWord(Base[page], Wordlist[i], skip)])

\* The ways to make a URL for a directory: from the i-th word alone, <<i, 0>>, or
\* with the j-th extension, <<i, j>>.
Ways ==
  {w \in (1..Len(Wordlist)) \X (0..Len(Extensions)) :
     w[2] = 0 \/ Wordlist[w[1]].extend}
Made(page, way) ==
  LET plain == Base[page] \o Wordlist[way[1]].word
  IN  IF way[2] = 0 THEN plain ELSE plain \o Extensions[way[2]]

\* What the lists make of a directory, whatever the order of generation: every
\* word alone, and with every extension if it is to be extended.
Candidates(page) == {Made(page, way) : way \in Ways}

\* Every URL the finder may make.
Candidate == UNION {Candidates(page) : page \in Page}

\* The keys under which requests_ is written and looked up.
Key == Candidate \cup {Url[t] : t \in Candidate}

\* The Request objects: one for the probes of a page, and the n-th request
\* for a candidate.
Probe(page) == [kind |-> "probe", url |-> page, n |-> 1]
Try(t, n)   == [kind |-> "try", url |-> t, n |-> n]

Request ==
  {Probe(page) : page \in Page}
    \cup {Try(t, n) : t \in Candidate, n \in 1..MaxTries}

ASSUME NullAssumption == NoRequest \notin Page /\ NoRequest \notin Request
ASSUME UrlAssumption == Url \in [Candidate -> Seq(STRING)]

\* The lists make this candidate in one way, and for one directory.
MadeOnce(t) ==
  \A p, q \in Page : \A v, w \in Ways :
    Made(p, v) = t /\ Made(q, w) = t => Base[p] = Base[q] /\ v = w

\* No other candidate has the entry of this one in requests_.
Sole(t) == MadeOnce(t) /\ \A u \in Candidate : Url[u] = t <=> u = t

VARIABLES
  client_enabled, schedule_queue, inflight, fate,  \* see HttpClientContract
  pc,               \* where Plusfish::Run is
  page,             \* the page that the 404 detector works on
  left,             \* requests ScheduleRequests may still schedule
  coming,           \* pages that have not left the probe queue
  probed_dirs,      \* NotFoundDetector::probed_urls_
  not_found_known,  \* DataStore::not_found_fingerprints_ is not empty
  pending_urls, test_urls_queue, probed_urls,  \* of the finder
  requests,         \* requests_: the request it owns under each key
  stored,           \* requests the datastore owns
  freed,            \* requests that were destroyed
  num_objects_found

clientVars == <<client_enabled, schedule_queue, inflight, fate>>
detector == <<page, coming, probed_dirs, not_found_known>>
search == <<pending_urls, test_urls_queue, probed_urls>>
owners == <<requests, stored, freed, num_objects_found>>
vars == <<clientVars, pc, left, detector, search, owners>>

Client == INSTANCE HttpClientContract WITH enabled <- client_enabled

Init ==
  /\ Client!ClientInit
  /\ pc = "start" /\ left = 0
  /\ page = NoRequest /\ coming = Page
  /\ probed_dirs = {} /\ not_found_known = FALSE
  /\ pending_urls = <<>> /\ test_urls_queue = <<>> /\ probed_urls = {}
  /\ requests = [k \in Key |-> NoRequest]
  /\ stored = {} /\ freed = {}
  /\ num_objects_found = 0

-----------------------------------------------------------------------------
(* StartNewRequests and Poll.                                              *)

StartNewRequests ==
  /\ pc = "start"
  /\ pc' = IF client_enabled THEN "launch" ELSE "poll"
  /\ UNCHANGED <<clientVars, left, detector, search, owners>>

LaunchRequest ==
  /\ pc = "launch"
  /\ Client!Launch
  /\ UNCHANGED <<pc, left, detector, search, owners>>

DropRequest ==
  /\ pc = "launch"
  /\ Client!Drop
  /\ pc' = "poll"
  /\ UNCHANGED <<left, detector, search, owners>>

LaunchDone ==
  /\ pc = "launch"
  /\ pc' = "poll"
  /\ UNCHANGED <<clientVars, left, detector, search, owners>>

\* Request::DoneCb returns before it calls the handler.
FinishUnhandled(r) ==
  /\ pc = "poll"
  /\ Client!Finish(r, "unhandled")
  /\ UNCHANGED <<pc, left, detector, search, owners>>

\* NotFoundDetector::RequestCallback, which may fail to get a fingerprint.
FinishProbe(r) ==
  /\ pc = "poll"
  /\ r.kind = "probe"
  /\ Client!Finish(r, "handled")
  /\ not_found_known' \in {not_found_known, TRUE}
  /\ freed' = freed \cup {r}
  /\ UNCHANGED <<pc, left, page, coming, probed_dirs, search, requests, stored,
                 num_objects_found>>

\* HiddenObjectsFinder::RequestCallback, nothing found: a code of 404 or 403,
\* a page that has no fingerprint, or the not-found page.
TryFails(r) ==
  /\ pc = "poll"
  /\ r.kind = "try"
  /\ Client!Finish(r, "handled")
  /\ requests' = [requests EXCEPT ![Url[r.url]] = NoRequest]
  /\ freed' = freed \cup ({requests[Url[r.url]]} \ {NoRequest})
  /\ UNCHANGED <<pc, left, detector, search, stored, num_objects_found>>

\* The datastore takes the request that requests_ has under the URL, or rejects
\* and destroys it; found is the number of objects it is counted as.  If there is
\* none, AddRequest reads the host of a null pointer.
HandOver(r, found) ==
  LET req == requests[Url[r.url]] IN
  /\ pc = "poll"
  /\ r.kind = "try"
  /\ r.url \in Absent => ~not_found_known
  /\ Client!Finish(r, "handled")
  /\ \/ /\ req = NoRequest
        /\ pc' = "crashed"
        /\ UNCHANGED owners
     \/ /\ req # NoRequest
        /\ requests' = [requests EXCEPT ![Url[r.url]] = NoRequest]
        /\ \E accepted \in BOOLEAN :
             /\ stored' = IF accepted THEN stored \cup {req} ELSE stored
             /\ freed' = IF accepted THEN freed ELSE freed \cup {req}
             /\ num_objects_found' = num_objects_found + found[accepted]
        /\ UNCHANGED pc
  /\ UNCHANGED <<left, detector, search>>

\* Mutant: the object is counted before the datastore has accepted it.
TrySucceedsCountFirst(r) == HandOver(r, [accepted \in BOOLEAN |-> 1])

\* Something found: the datastore gets an OBJECT_FOUND issue for what it
\* accepts.  (After a rejection the code reads the URL of the destroyed request
\* to erase an entry that is null already.)
TrySucceeds(r) ==
  HandOver(r, [accepted \in BOOLEAN |-> IF accepted THEN 1 ELSE 0])

\* The client starts or finishes a request that was destroyed.  It may find the
\* memory as it was, which is any of the steps above.
UseAfterFree ==
  /\ \/ pc = "launch" /\ schedule_queue # <<>> /\ Head(schedule_queue) \in freed
     \/ pc = "poll" /\ inflight \cap freed # {}
  /\ pc' = "crashed"
  /\ UNCHANGED <<clientVars, left, detector, search, owners>>

PollDone ==
  /\ pc = "poll"
  /\ pc' = "probe"
  /\ UNCHANGED <<clientVars, left, detector, search, owners>>

-----------------------------------------------------------------------------
(* The probe stage of Plusfish::Run.                                       *)

\* The next page leaves the probe queue.  Nothing happens if its directory was
\* probed; otherwise NotFoundDetector::AddUrl schedules the probes.
AddUrl(p) ==
  /\ pc = "probe"
  /\ p \in coming
  /\ coming' = coming \ {p}
  /\ IF Base[p] \in probed_dirs
     THEN pc' = "schedule" /\ UNCHANGED page
     ELSE pc' = "detect" /\ page' = p
  /\ UNCHANGED <<clientVars, left, probed_dirs, not_found_known, search, owners>>

ProbeQueueEmpty ==
  /\ pc = "probe"
  /\ pc' = "schedule"
  /\ UNCHANGED <<clientVars, left, detector, search, owners>>

\* AddUrl returns true even if every probe was rejected: the finder gets the
\* page without waiting for an answer.
ScheduleProbe ==
  /\ pc = "detect"
  /\ Client!Schedule(Probe(page))
  /\ IF client_enabled
     THEN probed_dirs' = probed_dirs \cup {Base[page]} /\ UNCHANGED freed
     ELSE freed' = freed \cup {Probe(page)} /\ UNCHANGED probed_dirs
  /\ pending_urls' = Append(pending_urls, page)
  /\ page' = NoRequest
  /\ pc' = "schedule"
  /\ UNCHANGED <<left, coming, not_found_known, test_urls_queue, probed_urls,
                 requests, stored, num_objects_found>>

-----------------------------------------------------------------------------
(* HiddenObjectsFinder::ScheduleRequests.                                  *)

\* The next page, if all candidates of the last one are scheduled; nothing is
\* generated for a page that was handed over before.
TakePage ==
  IF test_urls_queue = <<>> /\ pending_urls # <<>>
  THEN LET p == Head(pending_urls) IN
       /\ pending_urls' = Tail(pending_urls)
       /\ probed_urls' = probed_urls \cup {p}
       /\ test_urls_queue' =
            IF p \in probed_urls THEN <<>> ELSE TestUrls(p, probed_urls')
  ELSE UNCHANGED search

\* Mutant: what is generated is scheduled by the next call.
ScheduleRequestsLater ==
  /\ pc = "schedule"
  /\ TakePage
  /\ left' = Amount
  /\ pc' = IF test_urls_queue = <<>> THEN "repeat" ELSE "batch"
  /\ UNCHANGED <<clientVars, detector, owners>>

ScheduleRequests ==
  /\ pc = "schedule"
  /\ TakePage
  /\ left' = Amount
  /\ pc' = "batch"
  /\ UNCHANGED <<clientVars, detector, owners>>

Tries(t) == {n \in 1..MaxTries : fate[Try(t, n)] # "new"}

NextTry ==
  LET t == Head(test_urls_queue) IN Try(t, Cardinality(Tries(t)) + 1)

\* Mutant: the finder keeps the request only if it was rejected.
KeepRejected(r) ==
  IF client_enabled
  THEN freed' = freed \cup {r} /\ UNCHANGED requests
  ELSE requests' = [requests EXCEPT ![r.url] = r] /\ UNCHANGED freed

\* The entry of requests_ for the URL is overwritten, which destroys a request
\* that may still be there; a rejected request is destroyed.
Keep(r) ==
  IF client_enabled
  THEN /\ requests' = [requests EXCEPT ![r.url] = r]
       /\ freed' = freed \cup ({requests[r.url]} \ {NoRequest})
  ELSE freed' = freed \cup {r} /\ UNCHANGED requests

MaySchedule == pc = "batch" /\ left > 0 /\ test_urls_queue # <<>>

\* One candidate.  (The code has no bound on the requests for a URL.)
ScheduleTry ==
  /\ MaySchedule
  /\ NextTry \in Request
  /\ Client!Schedule(NextTry)
  /\ Keep(NextTry)
  /\ test_urls_queue' = Tail(test_urls_queue)
  /\ left' = left - 1
  /\ UNCHANGED <<pc, detector, pending_urls, probed_urls, stored,
                 num_objects_found>>

BatchDone ==
  /\ pc = "batch"
  /\ left = 0 \/ test_urls_queue = <<>>
  /\ pc' = "repeat"
  /\ UNCHANGED <<clientVars, left, detector, search, owners>>

\* The loop condition of Run.
Repeat ==
  /\ pc = "repeat"
  /\ pc' = IF inflight # {} \/ schedule_queue # <<>> THEN "start" ELSE "done"
  /\ left' = 0
  /\ UNCHANGED <<clientVars, detector, search, owners>>

\* The first SIGINT.
Disable ==
  /\ client_enabled
  /\ pc \notin {"done", "crashed"}
  /\ Client!Disable
  /\ UNCHANGED <<pc, left, detector, search, owners>>

MainThread ==
  \/ StartNewRequests \/ LaunchRequest \/ DropRequest \/ LaunchDone
  \/ \E r \in Request :
       FinishUnhandled(r) \/ FinishProbe(r) \/ TryFails(r) \/ TrySucceeds(r)
  \/ UseAfterFree \/ PollDone
  \/ (\E p \in Page : AddUrl(p)) \/ ProbeQueueEmpty \/ ScheduleProbe
  \/ ScheduleRequests \/ ScheduleTry \/ BatchDone \/ Repeat

Next == MainThread \/ Disable

Spec == Init /\ [][Next]_vars

-----------------------------------------------------------------------------
TypeOK ==
  /\ client_enabled \in BOOLEAN
  /\ schedule_queue \in Seq(Request)
  /\ inflight \subseteq Request
  /\ fate \in [Request -> Client!Fate]
  /\ pc \in {"start", "launch", "poll", "probe", "detect", "schedule", "batch",
             "repeat", "done", "crashed"}
  /\ page \in Page \cup {NoRequest}
  /\ left \in 0..Amount
  /\ coming \subseteq Page
  /\ probed_dirs \subseteq {Base[p] : p \in Page}
  /\ not_found_known \in BOOLEAN
  /\ pending_urls \in Seq(Page) /\ probed_urls \subseteq Page
  /\ test_urls_queue \in Seq(Candidate)
  /\ requests \in [Key -> Request \cup {NoRequest}]
  /\ stored \subseteq Request /\ freed \subseteq Request
  /\ num_objects_found \in Nat

\* Requests the client points to.
Held == ToSet(schedule_queue) \cup inflight

\* A request the client still points to is alive, and a candidate's is the one
\* RequestCallback will erase or hand over by URL, for the probes and for each
\* candidate whose key in requests_ is its own: whatever other candidates
\* overwrite and erase, batches, Disable and failures in any order.
ClientHoldsOwnedRequests ==
  \A r \in Held : r.kind = "probe" \/ Sole(r.url) =>
    r \notin freed /\ (r.kind = "try" => requests[r.url] = r)

\* The same for every request.  Does not hold: a URL that the lists make twice
\* is requested twice, and the second request destroys the first.
HeldRequestsAreAlive == Held \cap freed = {}

\* A request has at most one owner, what the datastore owns was counted once and
\* is not destroyed, also when the finder hands over or overwrites the request
\* of another candidate.
FoundObjectsAreStored ==
  /\ num_objects_found = Cardinality(stored)
  /\ stored \cap freed = {}
  /\ \A k \in Key : requests[k] \notin stored \cup freed

\* The requests for a candidate that the client accepted.
AcceptedTries(t) == {n \in 1..MaxTries : fate[Try(t, n)] \notin {"new", "rejected"}}

\* The number of times a candidate waits to be tried.
Waiting(t) == Cardinality({i \in DOMAIN test_urls_queue : test_urls_queue[i] = t})

\* However often pages of its directory are found, a candidate that the lists make
\* once is tried once: probed_dirs and probed_urls together are enough.  (A
\* disabled client makes the 404 detector forget directories; what is then tried
\* again is rejected.)  One that they make twice may be: OneRequestPerCandidate.
NoCandidateIsTriedTwice ==
  \A t \in Candidate : MadeOnce(t) =>
    Cardinality(AcceptedTries(t)) + (IF client_enabled THEN Waiting(t) ELSE 0) <= 1

\* hidden_objects_finder_test.cc (AddUrlDoesNotScheduleDuplicates): "There will
\* only be one tar.gz scheduled", which two words make.  Does not hold: both are
\* scheduled, and the test collects them in a set.
OneRequestPerCandidate == \A t \in Candidate : Cardinality(AcceptedTries(t)) <= 1

\* A page that was taken up and whose words were all pages taken up before it, so
\* that ScheduleRequests scheduled nothing for it.
NothingToTry ==
  \E p \in probed_urls : \A w \in DOMAIN Wordlist :
    Base[p] \o Wordlist[w].word \in probed_urls

\* The loop condition does not look at the finder, and yet Run never ends by
\* itself while candidates wait: by then, however the batches fell, every
\* candidate of the pages taken up was tried, or is a page that was handed over
\* itself, or the extension of one.  Pages are left only behind one for which
\* there was nothing to try.
SearchIsComplete ==
  pc = "done" /\ client_enabled =>
    /\ test_urls_queue = <<>>
    /\ pending_urls = <<>> \/ NothingToTry
    /\ \A p \in probed_urls : \A t \in Candidates(p) :
         \/ Tries(t) # {} \/ t \in probed_urls
         \/ \E w \in DOMAIN Wordlist :
              LET plain == Base[p] \o Wordlist[w].word
              IN  plain \in probed_urls /\ IsPrefix(plain, t)

\* plusfish.h: Run "will not return unless either all targets URLs have been tested
\* or the plusfish instance is disabled": no page waits for the finder.  Does not
\* hold if the page before it has nothing to try.
NoPageIsLeft == pc = "done" /\ client_enabled => pending_urls = <<>>
=============================================================================
