-------------------------------- MODULE Scan --------------------------------
(***************************************************************************)
(* One plusfish scan: Plusfish::Run, the thread that drives everything,    *)
(* with the components it calls: the 404 detector, the crawler, the        *)
(* selective auditor and its security check runners, and the queues of     *)
(* the datastore.  The HTTP client is HttpClientContract, which            *)
(* CurlHttpClient is shown to implement (HttpClient, HttpClientProofs).    *)
(*                                                                         *)
(* The only concurrency is with SIGINT, whose handler runs between any two *)
(* steps of the main thread, and with the clock.  Every call of            *)
(* HttpClientInterface::Schedule is therefore a step of its own.           *)
(*                                                                         *)
(* Abstracted: what a response says (which URLs it links to, whether it is *)
(* worth testing, whether a check matches it) is chosen freely.  The       *)
(* wordlist of HiddenObjectsFinder is empty, so that its ScheduleRequests  *)
(* schedules nothing.                                                      *)
(***************************************************************************)
EXTENDS Naturals, Sequences, FiniteSets, SequencesExt

CONSTANTS
  Url,               \* URLs that AddRequest accepts into the datastore
  Seeds,             \* the URLs of the command line, in order
  Base,              \* StripUrlFileSuffix of each URL
  NumProbes,         \* size of kExtensionsToProbe
  NumChecks,         \* length of the chain of security checks
  Serial,            \* the checks for which CanEvaluateInSerial
  Generated,         \* Generated[u][c]: requests check c creates for URL u
  MaxAuditorRunners, \* --max_auditor_runners
  InitialDeadlines,  \* "scan": with --max_scan_duration_sec, "never": without
  MaxInterrupts,     \* bound on the number of SIGINTs
  NoUrl

Check == 1..NumChecks

\* ResponseTimeCheck is the first check of the chain: it is evaluated on all
\* of its --response_time_measurements requests together.
ASSUME ScanAssumption ==
  /\ IsFiniteSet(Url)
  /\ Seeds \in Seq(Url)
  /\ DOMAIN Base = Url
  /\ NumProbes \in Nat
  /\ NumChecks \in Nat \ {0}
  /\ Serial \subseteq Check \ {1}
  /\ Generated \in [Url -> [Check -> Nat]]
  /\ \A u \in Url : Generated[u][1] > 0
  /\ MaxAuditorRunners \in Nat
  /\ InitialDeadlines \subseteq {"never", "scan"}
  /\ MaxInterrupts \in Nat
  /\ NoUrl \notin Url

\* The Request objects of a scan.
Crawl(u)       == [kind |-> "crawl", url |-> u, check |-> 0, n |-> 0]
Probe(u, i)    == [kind |-> "probe", url |-> u, check |-> 0, n |-> i]
Audit(u, c, i) == [kind |-> "audit", url |-> u, check |-> c, n |-> i]

\* The requests_ of a runner that tests u with check c.
Requests(u, c) == {Audit(u, c, i) : i \in 1..Generated[u][c]}

AuditRequest == UNION {Requests(u, c) : u \in Url, c \in Check}
Request ==
  {Crawl(u) : u \in Url}
    \cup {Probe(u, i) : u \in Url, i \in 1..NumProbes}
    \cup AuditRequest

VARIABLES
  client_enabled,  \* the HTTP client: see HttpClientContract
  schedule_queue,
  inflight,
  fate,
  pc,              \* where Plusfish::Run is
  current,         \* the URL the step at pc works on
  n,               \* index of the next request to schedule for it
  seen,            \* URLs with a request in the datastore
  probe_queue, crawl_queue, audit_queue,  \* of the datastore
  probed,          \* NotFoundDetector::probed_urls_
  runners,         \* SelectiveAuditor::runners_, by tested URL
  check,           \* SecurityCheckRunner::security_check_
  completed,       \* SecurityCheckRunner::requests_completed_
  freed,           \* requests whose unique_ptr is gone
  issues,          \* <<URL, check>> pairs passed to the issue callback
  scan_enabled,    \* Plusfish::enabled_
  deadline,        \* shutdown_time_ms_ compared with the clock
  interrupts       \* SIGINTs so far

clientVars == <<client_enabled, schedule_queue, inflight, fate>>
queues == <<seen, probe_queue, crawl_queue, audit_queue>>
audit == <<runners, check, completed, issues>>
control == <<scan_enabled, deadline, interrupts>>
vars == <<clientVars, pc, current, n, queues, probed, audit, freed, control>>

Client == INSTANCE HttpClientContract WITH enabled <- client_enabled

Init ==
  /\ Client!ClientInit
  /\ pc = "start" /\ current = NoUrl /\ n = 1
  /\ seen = ToSet(Seeds)
  /\ probe_queue = Seeds /\ crawl_queue = <<>> /\ audit_queue = <<>>
  /\ probed = {}
  /\ runners = {}
  /\ check = [u \in Url |-> 1]
  /\ completed = [u \in Url |-> 0]
  /\ freed = {} /\ issues = {}
  /\ scan_enabled = TRUE
  /\ deadline \in InitialDeadlines
  /\ interrupts = 0

-----------------------------------------------------------------------------
(* CurlHttpClient::StartNewRequests, at the granularity of the contract.   *)

\* Mutant: the test of enabled() is forgotten.
StartNewRequestsUnchecked ==
  /\ pc = "start"
  /\ pc' = "launch"
  /\ UNCHANGED <<clientVars, current, n, queues, probed, audit, freed, control>>

StartNewRequests ==
  /\ pc = "start"
  /\ pc' = IF client_enabled THEN "launch" ELSE "poll"
  /\ UNCHANGED <<clientVars, current, n, queues, probed, audit, freed, control>>

LaunchRequest ==
  /\ pc = "launch"
  /\ Client!Launch
  /\ UNCHANGED <<pc, current, n, queues, probed, audit, freed, control>>

\* No handle, or libcurl refuses it: StartNewRequests returns false.
DropRequest ==
  /\ pc = "launch"
  /\ Client!Drop
  /\ pc' = "poll"
  /\ UNCHANGED <<current, n, queues, probed, audit, freed, control>>

\* The queue is empty, the connections are used up, or no rate slot is left.
LaunchDone ==
  /\ pc = "launch"
  /\ pc' = "poll"
  /\ UNCHANGED <<clientVars, current, n, queues, probed, audit, freed, control>>

-----------------------------------------------------------------------------
(* CurlHttpClient::Poll and the request handlers it calls.                 *)

\* DataStore::AddRequest for the links or forms of a page, in page order.
Discover ==
  \E new \in SUBSET (Url \ seen) : \E order \in SetToSeqs(new) :
    /\ seen' = seen \cup new
    /\ probe_queue' = probe_queue \o order

\* Request::DoneCb returns before it calls the handler.
FinishUnhandled(r) ==
  /\ pc = "poll"
  /\ Client!Finish(r, "unhandled")
  /\ UNCHANGED <<pc, current, n, queues, probed, audit, freed, control>>

\* NotFoundDetector::RequestCallback erases the request on every path.
FinishProbe(r) ==
  /\ pc = "poll"
  /\ r.kind = "probe"
  /\ Client!Finish(r, "handled")
  /\ freed' = freed \cup {r}
  /\ UNCHANGED <<pc, current, n, queues, probed, audit, control>>

\* Crawler::RequestCallback.
FinishCrawl(r) ==
  /\ pc = "poll"
  /\ r.kind = "crawl"
  /\ Client!Finish(r, "handled")
  /\ audit_queue' \in {audit_queue, Append(audit_queue, r.url)}
  /\ Discover
  /\ UNCHANGED <<pc, current, n, crawl_queue, probed, audit, freed, control>>

\* SecurityCheckRunner::RequestCallback up to check_done_callback_, and the
\* scraping at the start of SelectiveAuditor::FinishedCheckCb, given whether
\* the response ends the check and whether the check is evaluated.
CountResponse(r, finished, evaluated) ==
  LET u == r.url IN
  /\ pc = "poll"
  /\ r.kind = "audit"
  /\ Client!Finish(r, "handled")
  /\ completed' = [completed EXCEPT ![u] = @ + 1]
  /\ \/ UNCHANGED issues
     \/ evaluated /\ issues' = issues \cup {<<u, check[u]>>}
  /\ IF finished
     THEN Discover /\ pc' = "next" /\ current' = u
     ELSE UNCHANGED <<seen, probe_queue, pc, current>>
  /\ UNCHANGED <<n, crawl_queue, audit_queue, probed, runners, check, freed,
                 control>>

LastResponse(u) == completed[u] + 1 = Generated[u][check[u]]

\* Mutant: the first response ends the check.
FinishAuditOnFirst(r) ==
  LET finished == completed[r.url] = 0
  IN  CountResponse(r, finished, check[r.url] \in Serial \/ finished)

\* A serial check is evaluated on each response, others on the last.
FinishAudit(r) ==
  LET finished == LastResponse(r.url)
  IN  CountResponse(r, finished, check[r.url] \in Serial \/ finished)

PollDone ==
  /\ pc = "poll"
  /\ pc' = "probe"
  /\ UNCHANGED <<clientVars, current, n, queues, probed, audit, freed, control>>

-----------------------------------------------------------------------------
(* The probe and crawl stages of Plusfish::Run.                            *)

\* A request leaves the probe queue; NotFoundDetector::AddUrl starts unless
\* its directory was probed before.
ProbeStage ==
  /\ pc = "probe"
  /\ IF probe_queue = <<>>
     THEN pc' = "crawl" /\ UNCHANGED <<current, probe_queue>>
     ELSE /\ current' = Head(probe_queue)
          /\ probe_queue' = Tail(probe_queue)
          /\ pc' = IF Base[current'] \in probed THEN "probed" ELSE "probing"
  /\ n' = 1
  /\ UNCHANGED <<clientVars, seen, crawl_queue, audit_queue, probed, audit,
                 freed, control>>

\* One 404 probe; a rejected one is destroyed on the spot.
ScheduleProbe ==
  /\ pc = "probing"
  /\ n <= NumProbes
  /\ Client!Schedule(Probe(current, n))
  /\ IF client_enabled
     THEN probed' = probed \cup {Base[current]} /\ UNCHANGED freed
     ELSE freed' = freed \cup {Probe(current, n)} /\ UNCHANGED probed
  /\ n' = n + 1
  /\ UNCHANGED <<pc, current, queues, audit, control>>

ProbesScheduled ==
  /\ pc = "probing"
  /\ n > NumProbes
  /\ pc' = "probed"
  /\ UNCHANGED <<clientVars, current, n, queues, probed, audit, freed, control>>

\* The request goes to the crawl queue without waiting for the probes.
AddRequestToCrawlQueue ==
  /\ pc = "probed"
  /\ crawl_queue' = Append(crawl_queue, current)
  /\ current' = NoUrl
  /\ n' = 1
  /\ pc' = "crawl"
  /\ UNCHANGED <<clientVars, seen, probe_queue, audit_queue, probed, audit,
                 freed, control>>

\* Crawler::Crawl: a rejected request is not tried again.
CrawlStage ==
  /\ pc = "crawl"
  /\ IF crawl_queue = <<>>
     THEN UNCHANGED <<clientVars, crawl_queue>>
     ELSE /\ Client!Schedule(Crawl(Head(crawl_queue)))
          /\ crawl_queue' = Tail(crawl_queue)
  /\ pc' = "audit"
  /\ UNCHANGED <<current, n, seen, probe_queue, audit_queue, probed, audit,
                 freed, control>>

-----------------------------------------------------------------------------
(* The audit stage: SelectiveAuditor::ScheduleFirst creates a runner for   *)
(* one URL.  The runner joins runners_ when ScheduleNextCheck succeeds.    *)

AuditSlotFree == Cardinality(runners) < MaxAuditorRunners

AuditStage ==
  /\ pc = "audit"
  /\ IF audit_queue # <<>> /\ AuditSlotFree
     THEN /\ current' = Head(audit_queue)
          /\ audit_queue' = Tail(audit_queue)
          /\ check' = [check EXCEPT ![current'] = 1]
          /\ completed' = [completed EXCEPT ![current'] = 0]
          /\ pc' = "create"
     ELSE /\ pc' = "keep"
          /\ UNCHANGED <<current, audit_queue, check, completed>>
  /\ UNCHANGED <<clientVars, n, seen, probe_queue, crawl_queue, probed,
                 runners, issues, freed, control>>

\* ScheduleNextCheck was called by FinishedCheckCb, from Poll, for a runner
\* of the list, or by ScheduleFirst.
Return == IF current \in runners THEN "poll" ELSE "keep"

\* SecurityCheckRunner::Run before its loop: CreateRequests fails only for a
\* generator without injection points; a serial check is skipped when the
\* original request tests positive.
RunCheck ==
  LET c == check[current]
      created == c = 1 \/ Generated[current][c] > 0
  IN
  /\ pc = "create"
  /\ \/ created /\ pc' = "schedule"
     \/ created /\ c \in Serial /\ pc' = "next"
     \/ ~created /\ pc' = "next"
  /\ n' = 1
  /\ UNCHANGED <<clientVars, current, queues, probed, audit, freed, control>>

\* One iteration of the loop of SecurityCheckRunner::Run.  A rejected request
\* ends the check unless it is evaluated serially.
ScheduleAudit ==
  LET c == check[current] IN
  /\ pc = "schedule"
  /\ n <= Generated[current][c]
  /\ Client!Schedule(Audit(current, c, n))
  /\ pc' = IF client_enabled \/ c \in Serial THEN "schedule" ELSE "next"
  /\ n' = n + 1
  /\ UNCHANGED <<current, queues, probed, audit, freed, control>>

\* Run returned true: the runner is, or becomes, a member of runners_.
CheckScheduled ==
  /\ pc = "schedule"
  /\ n > Generated[current][check[current]]
  /\ runners' = runners \cup {current}
  /\ pc' = Return
  /\ current' = NoUrl
  /\ n' = 1
  /\ UNCHANGED <<clientVars, queues, probed, check, completed, issues, freed,
                 control>>

\* The new check starts with nothing counted; the requests of the old one are
\* destroyed.
MoveOn(count) ==
  /\ freed' = freed \cup Requests(current, check[current])
  /\ check' = [check EXCEPT ![current] = @ + 1]
  /\ completed' = [completed EXCEPT ![current] = count]
  /\ pc' = "create"
  /\ n' = 1
  /\ UNCHANGED <<clientVars, current, queues, probed, runners, issues, control>>

\* Mutant: requests_completed_ is not cleared.
SetNextCheckNoReset ==
  pc = "next" /\ check[current] < NumChecks /\ MoveOn(completed[current])

SetNextCheck == pc = "next" /\ check[current] < NumChecks /\ MoveOn(0)

\* There is no next check: FinishedCheckCb erases the runner, ScheduleFirst
\* drops it, and its requests go with it.
RunnerDone ==
  /\ pc = "next"
  /\ check[current] = NumChecks
  /\ freed' = freed \cup Requests(current, check[current])
  /\ runners' = runners \ {current}
  /\ pc' = Return
  /\ current' = NoUrl
  /\ n' = 1
  /\ UNCHANGED <<clientVars, queues, probed, check, completed, issues, control>>

-----------------------------------------------------------------------------
(* The loop condition, and the shutdown.  deadline is shutdown_time_ms_ as *)
(* the clock sees it: "scan" and "grace" lie in the future, "expired" and  *)
(* "over" in the past.                                                     *)

\* Mutant: the requests that still wait in the queue are forgotten.
RepeatActiveOnly == IF inflight # {} THEN "start" ELSE "done"

\* Mutant: the loop also waits for the audit queue.
RepeatForAudits ==
  IF inflight # {} \/ schedule_queue # <<>> \/ audit_queue # <<>>
  THEN "start" ELSE "done"

\* active_requests_count() || schedule_queue_size()
Repeat == IF inflight # {} \/ schedule_queue # <<>> THEN "start" ELSE "done"

KeepRunningOrShutdown ==
  /\ pc = "keep"
  /\ pc' = IF ~scan_enabled THEN "done"
           ELSE IF deadline \in {"expired", "over"} THEN "limit"
           ELSE Repeat
  /\ UNCHANGED <<clientVars, current, n, queues, probed, audit, freed, control>>

\* Mutant: an expired grace period starts another one.
LimitReachedAgain ==
  /\ pc = "limit"
  /\ pc' = "grace"
  /\ UNCHANGED <<clientVars, current, n, queues, probed, audit, freed, control>>

\* The shutdown time has passed: Shutdown, or the start of ShutdownGraceful.
LimitReached ==
  /\ pc = "limit"
  /\ IF client_enabled
     THEN pc' = "grace" /\ UNCHANGED scan_enabled
     ELSE pc' = "done" /\ scan_enabled' = FALSE
  /\ UNCHANGED <<clientVars, current, n, queues, probed, audit, freed, deadline,
                 interrupts>>

DisableClient ==
  /\ pc = "grace"
  /\ Client!Disable
  /\ pc' = "extend"
  /\ UNCHANGED <<current, n, queues, probed, audit, freed, control>>

SetShutdownTime ==
  /\ pc = "extend"
  /\ deadline' = "grace"
  /\ pc' = Repeat
  /\ UNCHANGED <<clientVars, current, n, queues, probed, audit, freed,
                 scan_enabled, interrupts>>

\* SIGINT: the first stops the client, the next one the scan.
SignalHandler ==
  /\ pc # "done"
  /\ interrupts < MaxInterrupts
  /\ interrupts' = interrupts + 1
  /\ IF client_enabled
     THEN Client!Disable /\ deadline' = "grace" /\ UNCHANGED scan_enabled
     ELSE scan_enabled' = FALSE /\ UNCHANGED <<clientVars, deadline>>
  /\ UNCHANGED <<pc, current, n, queues, probed, audit, freed>>

TimePasses ==
  /\ pc # "done"
  /\ \/ deadline = "scan" /\ deadline' = "expired"
     \/ deadline = "grace" /\ deadline' = "over"
  /\ UNCHANGED <<clientVars, pc, current, n, queues, probed, audit, freed,
                 scan_enabled, interrupts>>

TransferEnds ==
  \E r \in Request :
    FinishUnhandled(r) \/ FinishProbe(r) \/ FinishCrawl(r) \/ FinishAudit(r)

MainThread ==
  \/ StartNewRequests \/ LaunchRequest \/ DropRequest \/ LaunchDone
  \/ TransferEnds \/ PollDone
  \/ ProbeStage \/ ScheduleProbe \/ ProbesScheduled \/ AddRequestToCrawlQueue
  \/ CrawlStage
  \/ AuditStage \/ RunCheck \/ ScheduleAudit \/ CheckScheduled
  \/ SetNextCheck \/ RunnerDone
  \/ KeepRunningOrShutdown \/ LimitReached \/ DisableClient \/ SetShutdownTime

Next == MainThread \/ SignalHandler \/ TimePasses

Spec == Init /\ [][Next]_vars

(***************************************************************************)
(* The main thread runs and time passes; nothing is assumed of the network.*)
(***************************************************************************)
FairSpec == Spec /\ WF_vars(MainThread) /\ WF_vars(TimePasses)

(***************************************************************************)
(* Servers answer or their connections break, and a queued request that    *)
(* can be started again and again is (a rate slot comes back, see          *)
(* RateLimiter, and so does a connection, see HttpClient).                 *)
(***************************************************************************)
Responsive == SF_vars(LaunchRequest) /\ SF_vars(TransferEnds)

-----------------------------------------------------------------------------
TypeOK ==
  /\ client_enabled \in BOOLEAN
  /\ schedule_queue \in Seq(Request)
  /\ inflight \subseteq Request
  /\ fate \in [Request -> Client!Fate]
  /\ pc \in {"start", "launch", "poll", "probe", "probing", "probed", "crawl",
             "audit", "create", "schedule", "next", "keep", "limit", "grace",
             "extend", "done"}
  /\ current \in Url \cup {NoUrl}
  /\ pc \in {"probing", "probed", "create", "schedule", "next"}
       <=> current # NoUrl
  /\ n \in Nat
  /\ seen \subseteq Url
  /\ probe_queue \in Seq(seen) /\ crawl_queue \in Seq(seen)
  /\ audit_queue \in Seq(seen)
  /\ probed \subseteq {Base[u] : u \in Url}
  /\ runners \subseteq seen
  /\ check \in [Url -> Check]
  /\ completed \in [Url -> Nat]
  /\ freed \subseteq Request
  /\ issues \subseteq Url \X Check
  /\ scan_enabled \in BOOLEAN
  /\ deadline \in {"never", "scan", "expired", "grace", "over"}
  /\ interrupts \in 0..MaxInterrupts

\* libcurl holds a raw pointer to every request in flight, and the queue of a
\* client that will still start requests holds more: none is ever to a
\* request that its runner or the 404 detector has destroyed, although a check
\* abandoned half way through scheduling destroys requests that are queued.
NoUseAfterFree ==
  /\ inflight \cap freed = {}
  /\ client_enabled \/ pc = "launch" => ToSet(schedule_queue) \cap freed = {}

\* A response to an audit request is counted by the runner that sent it, and
\* that runner still runs the check the request belongs to.
ResponsesReachTheirCheck ==
  \A r \in inflight \cap AuditRequest :
    r.url \in runners /\ check[r.url] = r.check

\* A runner in the list that is not being moved on waits for something: its
\* count is the number of responses it got, and at least one is missing.
RunnersWaitForResponses ==
  \A u \in runners \ {current} :
    LET mine == Requests(u, check[u]) IN
    /\ completed[u] = Cardinality({r \in mine : fate[r] = "handled"})
    /\ completed[u] < Cardinality(mine)

\* Audit requests that will never be counted by their runner.
Lost == {r \in AuditRequest : fate[r] \in {"dropped", "unhandled"}}

\* Run ends by itself (nobody disabled the client) only when every URL it found
\* was fetched or lost, and, if no response to a check was lost, every URL
\* worth testing was tested to the last check: the loop condition looks at
\* the HTTP client alone, never at the queues of the datastore.
ScanIsComplete ==
  pc = "done" /\ client_enabled =>
    /\ \A u \in seen : fate[Crawl(u)] \in Client!Final
    /\ probe_queue = <<>> /\ crawl_queue = <<>>
    /\ Lost = {} => audit_queue = <<>> /\ runners = {}

\* With a time limit Run returns, whatever servers and connections do.
Termination == deadline = "scan" => <>(pc = "done")

\* Without a time limit and without a signal Run returns by itself if servers
\* answer, also when responses are lost.
Completion ==
  deadline = "never" /\ [](interrupts = 0) /\ Responsive =>
    <>(pc = "done" /\ client_enabled)

\* plusfish.h: "The first time this is called, a graceful shutdown is
\* attempted. The second time this is called, plusfish will try to exit
\* immediately": one SIGINT alone never takes the grace period away.
FirstInterruptIsGraceful ==
  ~scan_enabled /\ interrupts = 1 => deadline = "over"
=============================================================================
