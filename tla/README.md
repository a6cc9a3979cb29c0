# TLA+ verification of plusfish

plusfish is a web application scanner: it crawls a site, looks for a 404
fingerprint and for hidden files, sends test requests built by security checks
and reports the issues the responses show. This directory models its control
logic in TLA+, checks it with TLC on small instances and proves the main
invariants with TLAPS for all instances. All paths below are relative to
`src/`.

1. The system and its inventory
2. The modules
3. The runs
4. Bounds
5. Fairness
6. The proofs
7. Disagreements between the code and its documentation
8. What is not modelled
9. Plan

## 1. The system

One thread does all the work, in the loop of `Plusfish::Run` (plusfish.cc:207).
Every iteration

1. lets the HTTP client start queued requests (`StartNewRequests`),
2. polls it (`Poll`), which calls the handlers of finished requests,
3. moves one request from the probe queue through the 404 detector to the
   crawl queue,
4. crawls one request of the crawl queue,
5. lets the hidden objects finder schedule up to 100 requests,
6. gives one request of the audit queue to the selective auditor if an audit
   slot is free,

and goes on while `KeepRunningOrShutdown` allows it and the HTTP client has
queued or active requests. Two things happen asynchronously: SIGINT, whose
handler disables the HTTP client (first signal) or the scan (second one), and
the clock, against which a scan deadline and a grace period are compared.

### Inventory

| Component | State | Operations | What makes it correct |
|---|---|---|---|
| `Plusfish` | `enabled_`, `shutdown_time_ms_` | `Run`, `KeepRunningOrShutdown`, `SignalHandler`, `Shutdown`, `ShutdownGraceful`, `AddURL` | does not stop while work is left, does stop, first ^C is graceful |
| `CurlHttpClient`, `Curl` | `enabled_`, `schedule_queue_`, `running_handles_`, `curl_handle_cnt_`, libcurl's transfers | `Schedule`, `StartNewRequests`, `Poll`, `Disable` | each request is sent and ends once, in order; connection limit; no dangling handle |
| `SimpleRateLimiter` | `period_end_`, `slots_` | `TakeRateSlot` | at most the given rate, no refusal without a reason |
| `DataStore`, requests | hosts, regexes, pivot tree, id map, probe, crawl and audit queue | `AddHost`, `AddRequest`, `AddRequestToPivot`, `AddRequestToIdMap`, `GetRequestFrom...Queue` | scope, limits, each request filed, numbered and queued once |
| `DataStore`, issues | issues per id, issues of each request, two families of counters | `AddIssueDetails`, `AddIssue`, `AddIssueById` | counters exact, limits hold, report and store agree |
| `DataStore`, metadata | 404 fingerprints, fingerprints of responses, average response times | `AddFileNotFoundHtmlFingerprint`, `AddResponseFingerprintToRequest`, `AddRequestMetadata`, getters | the baseline a check compares with exists and is that of the right page |
| `NotFoundDetector` | `probed_urls_`, its requests | `AddUrl`, `RequestCallback` | one probe per directory, no request destroyed while in use |
| `Crawler`, `PassiveAuditor` | none of their own | `Crawl`, `RequestCallback`, `Scrape`, `ScrapeRequest`; `AddSecurityTest`, `Check` | every discovered URL is fetched, issues are filed under their page, what is worth a test is audited |
| `HiddenObjectsFinder` | word and extension lists, position, its requests | `AddWordlistsFromMap`, `AddRequest`, `ScheduleRequests`, `RequestCallback` | each candidate tried once, no request destroyed while in use |
| `SelectiveAuditor`, `SecurityCheckRunner` | `runners_`; check, requests, completed count of each runner | `ScheduleFirst`, `ScheduleNextCheck`, `FinishedCheckCb`, `Run`, `SetNextCheck`, `RequestCallback` | each check sees exactly its own responses, all of them |
| Security checks, generator | the message that is changed and restored | `CreateRequests`, `Evaluate`, `EvaluateSingle`, `Generate` | only the targeted field differs from the page; an issue means the rule holds |
| Matchers | none | `Prepare`, `MatchAny`, `Match` | a rule means what matching.proto says |
| `Request`, `Response` | the HTTP messages | `ParseUrl`, `build_url`, setters, `DoneCb`; `Parse`, `GetHeader`, `Equals` | a URL survives parsing and building, headers end where they end |
| Parsers | the state of the filters during one walk: last element, flags of the form | `Parse`, `ParseElement`, `ParseText`, `ParseComment`, `ScrapeJs`, `ScrapeUrl` | literals and code are told apart, forms are judged one by one |
| Reporters | the files, `report_item_cnt_`, `pivot_prefix_written_` | `InitReporting`, `ReportSecurityConfig`, `ReportPivot`, destructors | every stored request is reported once, the file is well formed |
| CLI, configuration, utilities | little | parsing of flags and files | start the scan in a legal state |

The components interact by calls (the loop calls all of them), by callbacks
(`Request::DoneCb` calls the request's handler from inside `Poll`, and the
handler may schedule, add requests to the datastore, report issues and destroy
runners and requests) and through shared raw pointers: the HTTP client's queue
and libcurl hold `Request*` whose owners are the pivot tree, the 404 detector,
the hidden objects finder and the runners.

What is hard to test here: the order in which responses arrive; responses that
never arrive, or arrive empty; SIGINT between any two statements, in particular
in the middle of scheduling a check; the lifetime of requests under those
orders; limits reached half way through an operation; and the termination of a
loop whose condition looks at one component only; state that is kept from one
form, one field or one check to the next; and text in which quotes, escapes and
separators meet in combinations that nobody wrote down. `PROJECT.json` lists these
hazards at their lines with the properties that address them.

## 2. The modules

```
RateLimiter          HttpClientContract <---- implements ---- HttpClient
                            ^
                            | INSTANCE
                      +-----+--------+
                     Scan       HiddenObjects            Shutdown

IssueStore           RequestStore <---- extends ---- Reporting

ScrapeUtil <-- HtmlScraper <--+                 +--> Matching --> Response
                              +--- Crawler -----+
                                                |
                  Generator <------ Audit ------+       (arrows: EXTENDS)
```

`Scan` and `HiddenObjects` have the control flow of a scan with responses as free
choices; `Crawler` and `Audit` have what handlers make of real responses, with an HTTP
client that answers everything in any order. `RequestStore` and `IssueStore` are
the data store behind all of them.

Each component module `M` has a module `MCM` that instantiates it for TLC and,
where it is proved about, a module `MProofs`. A definition whose comment starts
with "Mutant" is a plausible mistake in the definition that follows it; it is
used only to show that a property notices the mistake. `TypeOK` of `Scan`,
`HiddenObjects` and `RequestStore` is proved and is not in a run.
`RequestStoreProofs` is about `Reporting` as well, which extends `RequestStore`.
`ScanProofs` and `HiddenObjectsProofs` take what they need to know about the
client from `HttpClientContractProofs`, through INSTANCE like the
specifications they are about.

**RateLimiter** (util/simpleratelimiter.cc). `TakeRateSlot` with the clock of
the caller as an action of its own that advances or, a bounded number of times,
steps back. The module keeps the grants of the current clock second as history.

**HttpClientContract** (curl_http_client.h). The abstract client: a queue of accepted
requests, the set in flight and the fate of each request. Requests leave the queue in
order, are in flight at most once, and end once: `handled`, `unhandled` (no
usable response, so `DoneCb` does not call the handler), `dropped` (libcurl
refuses it) or `rejected` (the client is disabled).

**HttpClient** (curl_http_client.cc, curl.cc, `Request::DoneCb`). `Schedule`, `Disable`,
`StartNewRequests` (entry, one action per turn of its loop, exit), `Poll` (the
outcomes of `select()`, one action per message, the return of the handler with
`CleanupCurlHandleData`). libcurl is external and modelled from its use: a transfer
progresses inside `curl_multi_perform` only and its end is reported once.
`Disable` may come between any two steps; handlers may call `Schedule`. The
refinement mapping takes a request to be in flight from the time it has a handle
until `DoneCb` is called.

**Scan** (plusfish.cc, crawler.cc, not_found_detector.cc, audit/selective_auditor.cc,
audit/security_check_runner.cc, the queues of datastore.cc). The composition: the
main thread's program counter walks through the stages of `Run`, the HTTP
client is an instance of `HttpClientContract`, and every `Schedule` call is a
step of its own because SIGINT may disable the client in between. A request is
identified by its owner: the crawl request of a URL, the i-th 404 probe for a
URL, the i-th request of check c for a URL. `freed` is the set of requests whose
owner has destroyed them. Contents of responses are free choices: which URLs
they link to, whether they are worth testing, whether a check matches. The
deadline is one of `never`, `scan` (running), `expired`, `grace` (running), `over`.

**HiddenObjects** (hidden_objects_finder.cc, and not_found_detector.cc and the
loop of plusfish.cc as far as the finder depends on them). The second
composition around `HttpClientContract`: the 404 detector hands the pages of new
directories over, `ScheduleRequests` makes candidates of them and schedules
them in batches, and `RequestCallback` erases the request of a candidate or
moves it to the datastore. URLs, words and extensions are sequences of tokens:
candidates are made by concatenation, and whether two of them are the same URL is
what decides about the lifetime of their requests. `ScheduleRequests` files a request in
`requests_` under the candidate, and the callback looks it up under the URL the request builds
from it: the constant `Url` is that conversion. The lists may make a URL twice. A request that is overwritten is in
`freed` although the client holds it; the client's next use of it crashes or finds
the memory as it was, and a callback that finds no entry crashes (`pc = "crashed"`).
`MadeOnce` and `Sole` say of a candidate that the lists make it in one way, and
that no other candidate has its key.

**IssueStore** (datastore.cc:180-277). `AddIssueDetails` with its three limits,
duplicate suppression and the four pieces of state it keeps in step.

**RequestStore** (datastore.cc, pivot.cc, `Request::Equals`). The
scope rules, the walk down the pivot tree with its child limit, the sample
limit and equality of requests (by query and body names), ids and the probe queue. A regex is the set of
requests whose URL it matches. `offered` is the history of what `AddRequest` was called with.

**Reporting** (plusfish.cc:164-205, report/, `Pivot::Report`). What `main` does around
the scan: the reporters are made, the store of `RequestStore` fills up, the
reports are written, and the destructors close the files. `reporters` is the list of reporters, with a
type as often as `--report_type` names it, and `output` what each of them writes: delimiters, prefixes, and items that stand for their request. The configuration and any request may fail to convert to JSON. `Walk` is the order in which the pivots
are met; the code goes by name, the model in any fixed order.

**Shutdown** (plusfish.cc:78-162, `CurlHttpClient::enabled` and `Disable`).
`KeepRunningOrShutdown` and `SignalHandler` at the grain of lock and unlock of the three
mutexes. The handler runs on top of the main thread, which goes on only when the
handler has returned.

**Response** (response.cc, util/http_util.cc). A raw response is a sequence of status line,
header lines, `CR`, `LF` and the body; the search for the empty line, the
status line with all the ways in which it can be refused, headers without a colon, `GetHeader`
(which compares a prefix of the line only), mime types.

**ScrapeUtil** (parsers/util/). Texts are sequences of symbols: characters that the scanners
treat in a way of their own, and runs they always treat alike (a word, a scheme, the rest of an entity).
`ScrapeJs` with its quoted strings, keywords and sinks, `ScrapeUrl`, `UnescapeHtml`. The
definitions `LiteralAt` and `IsCode` say independently what a literal and what code is.

**HtmlScraper** (parsers/). A document is the sequence of its nodes in the order of
the walk. One definition per filter and kind of node; the record that they pass
on holds the members of the filter objects, including the flags of the form filter. For an unknown tag
the XSS filter searches all of the page that follows, as the code does (gumbo's `original_tag` is not terminated).

**Crawler** (crawler.cc, audit/passive_auditor.cc, fingerprints in datastore.cc and
not_found_detector.cc). `RequestCallback` for pages, `Scrape` for the responses of
audit requests, `ProbeCallback` for 404 probes, on raw responses of a small site, with
`--extract_links` on or off. A body may be one that the HTML parser refuses.

**Matching** (audit/generic_response_matcher.cc, audit/matchers/). All matchers, conditions
and rules, and beside them `Satisfied`, what matching.proto says a rule means. A text may
hold a NUL, where the matchers that use C strings stop; regular expressions are plain texts.

**Generator** (audit/generic_generator.cc, audit/util/audit_util.cc, request.cc). Messages
with fields, `ParseUrl` and `build_url`, and the generator that changes a field of one
message, clones the message and restores the field: `MessageAt` is the message when the loop reaches a
field, `MutatedMessage` what is cloned. A URL is the record that GURL
makes of it, with path and query as sequences of symbols.

**Audit** (audit/selective_auditor.cc, audit/security_check_runner.cc, the two
checks, metadata of datastore.cc). Runners go through the chain of checks for each page; requests are
those of `Generator`, decisions those of `Matching`. The constant `Symbol` is what texts are made of, and the sets
`SecurityTest`, `GeneratorRule`, `Condition` and so on are the messages of the configuration.

## 3. The runs

| Run | Configuration | Result |
|---|---|---|
| `rate_limiter` | MCRateLimiter.cfg | never more grants than the rate within a second while the clock does not step back; a refusal means the rate is used up; a step back stalls for no longer than the step |
| `http_client` | MCHttpClient.cfg | connection limit, bookkeeping, lifetime of handles, nothing starts after `Disable`, the client implements the contract; accepted requests end and handles come back |
| `http_client_timeout` | MCHttpClientTimeout.cfg | violation: `--request_timeout_sec` does not end a request when all servers hang |
| `scan` | MCScan.cfg | no use after free, responses reach the check they belong to, runners wait for something that is outstanding, a scan that ends by itself is complete, a scan with a time limit ends, and one without a limit and a signal ends by itself if servers answer |
| `scan_interrupt` | MCScanInterrupt.cfg | violation: a first ^C can end the scan at once |
| `shutdown_deadlock` | MCShutdown.cfg | violation: a first ^C can block the process for ever |
| `issue_store` | MCIssueStore.cfg | counters, store and report agree, the limits hold for what the code counts |
| `request_store` | MCRequestStore.cfg | limits hold; what is offered is stored unless it is out of scope, known, without a place or confused by repeated names; no two requests are the same unless they repeat names; each stored request is probed once and in order, and is in every report once, also when a type of report is listed twice; a JSON report is well formed if anything was in scope and the configuration converts |
| `hidden_objects` | MCHiddenObjects.cfg | with lists that make a URL twice: the request for a candidate with a key of its own is alive and owned while the client holds it, found objects are stored and counted once, no candidate that is made once is tried twice, the loop does not end by itself while candidates wait, and a page is left only behind one that makes no candidate |
| `crawler` | MCCrawler.cfg | links are literals and payloads are code in every short script; whether a form takes a password is judged by its own fields; no link or redirect of a response that could be parsed is lost, and none is followed without `--extract_links`; issues, also those found in responses of audit requests, are filed under their page; a page is audited once, after its response, unless the code of the response forbids it |
| `crawler_forms` | MCCrawlerForms.cfg | violation: a form without a token that follows a form with one is not reported |
| `audit` | MCAudit.cfg | an issue is reported only if the rule holds of the answers, with the baseline of the same page, and always if it holds of an answer and not of the page itself; runners always wait for something and leave no check out; each test request has one payload in one targeted field and is otherwise the page (up to `?b` that became `?b=`), and all that generator.proto calls for are sent; parsing a URL that was built changes nothing |

Deadlock is not checked in these runs: a scan that is over, a full store and a
client without requests have nothing left to do.

## 4. Bounds

* `RateLimiter`: two slots per second and five seconds cover a full and a
  partly used period, the boundary between two, and a step back across it.
* `HttpClient`: three requests and two connections are the smallest instance in
  which one request waits while others run and finish, and a handler can
  schedule a request that has to wait.
* `Scan`: a seed and one URL to discover, in the same directory, and one audit slot: the URLs
  compete for the slot, and the second one finds its directory probed. Three checks are the baseline, a
  serial check and one evaluated on all responses; one URL has nothing to
  inject into for one check. Two interrupts are all the handler can tell apart.
* `IssueStore`: two requests, three types, four issues per type, so that each of the limits
  (2 types per URL, 2 issues per check and URL, 3 per check) is reached while the others are not.
* `RequestStore`: two children and two samples per pivot against three
  siblings, three requests for one path with the same names in another order and another body, a path below a
  path with requests, a forbidden path, a foreign host and a URL that is not valid. Reports: none, both kinds, one kind twice, and a list with an
  empty entry, which ends the program; one request of a shared pivot has no JSON form, and the configuration may have none.
* `HiddenObjects`: two directories, one of which is a candidate of the other, and one word with one extension that make a URL of the
  second directory for the first one too, so that a request is overwritten in `requests_` while the client holds it; batches of one candidate, so
  that a batch ends before a page is done and pages wait for each other. `MaxTries`, the number of requests for one URL that are told
  apart, is 2. A third candidate per directory, one whose request builds another URL, is 8.7 million states and too many for a
  regular run; `Url` changes nothing in this instance, and the theorems are for any `Url`.
* `Crawler`: every pair of twelve responses (links of all kinds, forms, scripts, redirects without
  HTML, a body that cannot be parsed, sniffed types, refused status lines, bare line feeds), of which two are
  answered in any roles; and every script of up to three symbols, with assignments of
  up to four symbols after a sink: a quote, an escape, another quote and a word fit.
* `Audit`: one or two pages (two for the interleaving of timing checks), two
  answers that differ in headers, body, a NUL and time, chains of up to four checks, all matchers,
  rules that cannot be prepared, all targets, methods and encodings; and a page for every
  path of up to three and query of up to four symbols. `Symbol` is the set of symbols that occur in them.
* `Shutdown`: two interrupts, with and without a time limit.

Request identity bounds each action of `Scan` that counts; there is no other cap.

## 5. Fairness

* `HttpClient!Fairness`: `Run` calls `StartNewRequests` and `Poll` in every
  iteration, so each is taken again and again when it can be (strong fairness,
  because other calls come in between); inside a call the thread does not stop
  (weak fairness). A rate slot comes back every second (`StallIsBounded` bounds the
  exception). Servers that do not hang answer.
* `Scan!FairSpec`: the main thread runs and time passes. Nothing is assumed
  of servers: `Termination` rests on the deadline and the grace period.
* `Scan!Responsive`, the hypothesis of `Completion`: a request that can be started again and
  again is, and transfers end. These are `AcceptedRequestsEnd` and
  `RunningRequestsFinish` of `HttpClient`, stated for the composed client.
* `Shutdown!FairSpec`: the process runs whenever it is not blocked on a mutex.
  Nothing is assumed of signals or of the clock.

## 6. The proofs

`tlapm` checks the `*Proofs` modules. Assumptions about constants are those named in the
component modules: finite requests and URLs, a positive connection limit, natural-number flags,
hosts, paths and words that are (sequences of) strings. What a theorem needs
beyond that is in its own statement.

* **RateLimiterProofs**: type correctness, `RateRespected`, `NoSpuriousRefusal`
  and `StallIsBounded` for every rate. The invariant is strengthened by the
  relation between the history of grants and `slots_` within a period: the code knows
  periods, the property speaks about clock seconds.
* **HttpClientProofs**: type correctness, `ConnectionLimitRespected`,
  `NothingOutstandingIsForgotten`, `HandlesOutliveTransfers`,
  `DisabledClientStartsNothing` and the refinement `ImplementsContract`, for any
  set of requests. The inductive invariant relates `max_to_add` and the count of
  the last `curl_multi_perform` to the transfers that are really running (which
  is what makes a stale count harmless), and the thread's position to the one request
  that has ended and still has its handle.
* **IssueStoreProofs**: type correctness, exact counters, agreement of store and
  report, and the three limits. `CountersMatchIssues` has to be proved first: the limit of a check is enforced on
  the counter and stated of the stored issues. The two limits per check
  are proved for flag values of at least 1; with 0 the code does not
  look at the limit before the first issue (datastore.cc:211, 256). The limit per URL is one on types.
* **HttpClientContractProofs**: an accepted request that has not ended is in the queue
  or in flight, once (`ContractInv`), and one lemma per operation with its effect on
  the queue, the set in flight and the fates. With `ClientImplementsContract` these facts
  hold of `CurlHttpClient`; the two compositions use only them.
* **ScanProofs**: type correctness, `NoUseAfterFree`, `ResponsesReachTheirCheck`,
  `RunnersWaitForResponses` and `ScanIsComplete`, for any URLs, links, checks, slots and
  signals. None of the four is inductive. The invariant `IInv` has nine named parts: what a
  runner that waits has sent and counted (`RunnersInv`); how far the check at work has got
  (`AtWorkInv`), because its requests are scheduled one by one and `Disable` may come in
  between; that requests of a check that is over can only be left in the queue of a client
  that is disabled (`SentInv`), which is why the runner may free them; that a URL is audited once and
  check by check (`ChainInv`); what was freed (`FreedInv`); that no URL is lost between the queues
  (`SeenInv`); and what each stage of the loop has scheduled when the next one looks (`LoopInv`).
  `ScanIsComplete` needs at least one audit slot: with none, nothing is audited.
* **RequestStoreProofs**: type correctness, `PivotLimitsHold`, `ProbedOnceInOrder`,
  `NoEqualRequests` and `OfferedRequestsAreStored`, for any requests, regexes and limits. The last two speak of requests that are the same, not of
  `Request::Equals`, and leave out what repeats a name. The invariant adds
  that every pivot is linked to its parents and that a stored request is a sample of exactly the pivot of
  its path: `Pivot::AddRequest` looks for equal requests in one pivot only, and the theorem says that this is
  enough. `ReportsOnlyRead` shows that `Reporting` implements `RequestStore` (ReportSpec => Spec),
  and `EachRequestIsReportedOnce` that the walk of `DataStore::Report` from the hosts down
  meets each stored request once. `ReportsCoverTheStore` is `ReportsAreComplete` itself, about the files: `ReportInv`
  says what each reporter has written after `Report` and after the destructors, whichever types are repeated, the walk is shown to visit each pivot once
  (`WalkFacts`), the concatenation of the samples to repeat nothing (`ListedOnce`), `JsonPivot` to stop exactly before the
  first request without a JSON form, and the delimiters to stand between items and nowhere else whatever was cut off
  (`DelimitedFacts`, `JsonIsWellFormed`).
* **HiddenObjectsProofs**: type correctness (part of `SearchInvariant`), `ClientHoldsOwnedRequests`,
  `FoundObjectsAreStored`, `NoCandidateIsTriedTwice` and `SearchIsComplete`, for any pages, lists and batch size.
  The invariant relates the pages given to the finder and the directories the 404 detector
  knows (`PagesInv`), candidates that wait, were tried or were made (`TriedInv`, `SearchedInv`), the owner of each
  request (`OwnersInv`) and what the loop has scheduled (`LoopInv`). There are no hypotheses on the lists: a list may make a URL
  twice, and two candidates may share a key. The exceptions are in the properties, candidate by candidate (`MadeOnce`, `Sole`, `NothingToTry`), and the
  invariant has to say that what goes wrong with one candidate does not touch another: an entry that is overwritten, erased or
  handed over belongs to a candidate that is not `Sole`.

  The proof needs to know what `GenerateTestUrls` computes for every list. It is a concatenation
  of sequences (`FlattenSeq`, a recursive function), and its elements and the absence of
  repetitions are proved by a least counterexample (`FlatExists`, `FlattenFacts`), since the
  induction theorems of the library are out of the provers' reach.
* **AuditProofs**: `AuditsAreComplete`, `IssuesFollowTheRules` and `InjectionsAreExact`, for any pages, checks, rules
  and answers. The invariant `IInv` has five parts: pages and checks are well formed (`ConfigInv`); an entry of the history
  is the answer to a request its check makes, and there is one for each request at most (`AnsweredInv`); the requests of a runner are
  open or answered, all checks before its own are done and none after it has begun (`RunnersInv`); a page has a baseline exactly when
  its measurements are complete, and it is their average (`MetaInv`), without which a timing rule could be judged
  against a baseline that is missing or that of another page; and the issues are those the matchers decided on (`IssuesInv`).
  None of the three properties is inductive: which issues there should be depends on what the check saw when it was
  judged, and the history has to be known complete at that moment.
  * `IssuesMeanTheirRules` also needs that the matchers, step by step as the code takes them, decide what
    `Satisfied` says, for every rule that is not `Mixed`. For a check that is not serial it says nothing of pages that
    satisfy the rule by themselves (section 7).
  * `GeneratorIsExact` needs that every request is made from a message in which the fields before the targeted one were changed
    and restored, up to `has_value`, and all others are as they were, and that the nested loops over targets, fields, methods,
    encodings and payloads cover their product; both are facts about concatenations for lists of any length.
  * Assumptions: `SymbolAssumption` (the symbols the code itself writes are symbols), `AuditAssumption` (at least one measurement,
    see section 7, and messages of the types that protocol buffers give them) and `PagesAssumption` (what the store
    guarantees of a page: a valid id, a parsed URL, a user agent and no field marked as modified).

Recursive functions (`FlattenSeq`, the walk of the reports) are reasoned about by a least counterexample throughout.

Each inductive invariant was checked with TLC on the instance of its run before it was proved.

Only model-checked:

* the liveness properties: the prover does not support reasoning under fairness;
* `UrlsAreStable` of `Audit`: what `StrSplit` and the concatenations of `build_url` do to a text of any length, a fold over
  its symbols and an induction over data;
* the five invariants of `Crawler`. `ScriptsAreUnderstood`, `LoginFormsAreJudgedAlone` and `EveryLinkIsStored` are about what the
  scanners and filters, folds over scripts and documents, compute for any length; `IssuesBelongToPages` holds for passive tests of different types
  and for tests that do not read a truncated body, as in the instance; `AuditedPagesExist` needs that the fingerprint that a walk over a
  document returns is never the empty one, and that storing links, a fold as well, leaves the responses alone.

## 7. Disagreements between the code and its documentation

Four of them are runs that end in a violation; `PROJECT.json` quotes both sides.

* `scan_interrupt`: a first SIGINT that falls between the two tests of `KeepRunningOrShutdown`
  (plusfish.cc:110), or into a grace period started by the time limit, stops
  the scan at once; the header promises a graceful first shutdown.
* `http_client_timeout`: `Poll` returns when `select()` times out, without letting libcurl act on expired
  requests (curl_http_client.cc:297).
* `shutdown_deadlock`: the handler of SIGINT asks the HTTP client whether it is enabled (plusfish.cc:123). If the
  main thread is inside of the same call it waits for itself; the comment at
  plusfish.cc:121 promises that the first ^C stops the client and the second the program.
* `crawler_forms`: `form_has_xsrf_token_` is never reset (gumbo_form_filter.cc:122): after a form with a
  token no later form of the page is reported; the comment at gumbo_form_filter.cc:89 says that forms without a token are.

For others the modules define the property that the documentation states, with a comment that says that it does not hold.
TLC refutes it when it replaces the properties of the configuration named here, with the constants given; the properties of
the regular runs state the exception.

| Property | Configuration, constants | Code | Documentation |
|---|---|---|---|
| `NoRequestTwice` | MCRequestStore.cfg, `Request <- MCRepeats` and `Whitelist`, `Blacklist`, `Unconvertible` = `{}` | `FieldNamesEqual` compares the number of different names with the number of fields (request.cc:55): a request that repeats a name is not equal to itself and is stored again and again | request.h:226 "A request is equal when the URL, minus parameter values, matches." |
| `OtherNamesAreStored` | the same | it counts the names of both requests: `?x&y` is taken for `?x&x` and lost | request.cc:39 "Returns true when given fields have the exact same set of names." |
| `IncludedUrlsAreStored` | MCRequestStore.cfg, `Whitelist <- MCTwoRegexes` | a URL must match all include regexes (datastore.cc:98) | datastore.h:84 "all other (non-matching) URLs are implicitly blacklisted" |
| `UrlIssueLimitHolds` | MCIssueStore.cfg | `--max_issues_per_url` is compared with the number of types (datastore.cc:236) | datastore.cc:39 "Limit the total amount of issues per URL." |
| `CheckLimitHolds` | MCIssueStore.cfg, `MaxIssuesPerCheck = 0` | a limit of 0 is not looked at before the first issue, and not reached afterwards (datastore.cc:211) | datastore.cc:41 "Limit the total amount of issues a single security check can report" |
| `OneRequestPerCandidate` | MCHiddenObjects.cfg, `OnePage`, `OneBase`, `TestWords`, `TestExtensions`, `Amount = 5` | `GenerateTestUrls` compares candidates with pages and never with each other (hidden_objects_finder.cc:157) | hidden_objects_finder_test.cc:126 "There will only be one tar.gz scheduled." (the test collects them in a set) |
| `HeldRequestsAreAlive` | MCHiddenObjects.cfg; with another cause also for `QueryWords` | the second request for a URL destroys the first in `requests_` while the client points to it (hidden_objects_finder.cc:136) | hidden_objects_finder.h:111 "Holds the HTTP requests for this test" |
| `NoPageIsLeft` | MCHiddenObjects.cfg, `ThreePages`, `ThreeBase`, `ThreeExtensions`, `MaxTries = 1` | `ScheduleRequests` takes up one page and stops if it makes no candidate, for instance because all of its words are pages (hidden_objects_finder.cc:113); if nothing is under way, `Run` ends with pages pending | plusfish.h:59 "This method will not return unless either all targets URLs have been tested or the plusfish instance is disabled" |
| `SoftNotFoundIsNotTested` | MCCrawler.cfg | the crawler looks at the fingerprint of a response (crawler.cc:135) before it sets it (crawler.cc:145): a not-found page with code 200 is audited | crawler.cc:132 "Skip testing non-existing files"; the test of this (crawler_test.cc:192) sets the fingerprint itself |
| `PositivePagesAreNotReported` | MCAudit.cfg | the original request is matched first only for checks that are evaluated in serial (audit/security_check_runner.cc:42) | CONFIGURATION.md:80 "matching is first done against the original request and only if it doesn't return positive" against the responses |
| `OtherFieldsAreRestored` | MCAudit.cfg | the value of a field is restored and not whether it had one (generic_generator.cc:161): `?b&a` is sent as `?b=&a=payload` | generic_generator.cc:142 "so we can restore the field to it's original state" |
| `AppendNeedsAValue` | MCAudit.cfg | a payload is appended to a field without a value and sent (audit/util/audit_util.cc:55) | proto/generator.proto:54 "When no value exists, this will be a no-op" |

Noticed while modelling, and not the subject of a property.

Scan and shutdown:

* A dropped request or lost response keeps its runner, and its audit slot, for
  ever. With all slots lost, `Run` returns with URLs in the audit queue
  (plusfish.cc:284; plusfish.h:59 says otherwise).
* `DoneCb` does not call the handler for an empty or malformed response
  although request.h:209 says so (`unhandled` in the models).
* `objects_finder_` is used without a test although it is null without
  `--bruteforce_wordlist` (plusfish.cc:236, 263).
* `SignalHandler` handles SIGTERM, which `main` does not register.
* With `--response_time_measurements=0` the first check sends nothing and counts as
  started, so no URL is ever tested (response_time_check.cc:37).
* `SplitString` ignores its delimiter (plusfish_cli.cc:100), so that every value of
  `--default_headers` is refused.
* `AddURL` tests `!AddRequest(...)`, but a failure is -1 (plusfish.cc:182), and `main`
  ignores the result of `AddSecurityTest`.

Hidden objects and 404 pages:

* The finder starts before the 404 probes are answered (plusfish.cc:244), so
  not-found pages can be stored as objects.
* `requests_` is filled under the candidate and looked up under the URL of its request (hidden_objects_finder.cc:136, 222). For
  a candidate that the two differ on, such as one with an empty query, the callback gives a null pointer to `AddRequest`, which
  reads it (`HandOver`, `pc = "crashed"`).
* Hidden objects and 404 probes are requested without a look at hosts and regexes (hidden_objects_finder.cc:126-137): a URL that
  is excluded can be fetched, though it is not stored.
* The loop prevention of the crawler needs parent ids, which no crawled request has.

Data store and reports:

* A JSON report without pivots has no `pivots` array and is not well formed; a request
  that cannot be converted takes the rest of its pivot with it (json_reporter.cc:92);
  `exit(1)` after `InitReporting` leaves an unfinished report. If the configuration cannot be converted nothing is written
  for it, which leaves `"config": ,` (json_reporter.cc:58).
* A type of report that is listed twice has two reporters that write the same file.

Checks and requests:

* A condition on a missing header is decided by its first matcher alone
  (condition_matcher.cc:33); `IssuesFollowTheRules` leaves conditions that mix
  negative and positive matchers out (`Mixed`).
* A serial timing rule is evaluated on the page itself first, without a baseline, and
  skips the page if its own time lies between the bounds.
* The evidence of a check that is not serial is the request that was answered last.
* `last_field_only` ignores the target names (generic_generator.cc:115).
* `encode_url_token_partial` leaves several reserved characters alone and writes
  malformed escapes for control characters and bytes above 127 (audit_util.cc:32).
* A parameter `a=b=c` loses its value (request.cc:220).

Parsing:

* Forms of audit responses are stored although links are not wanted there.
* The redirect of an HTML response that cannot be parsed is not followed (crawler.cc:200).
* For an unknown tag the whole rest of the page is searched for a payload (gumbo_xss_filter.cc:43), so that one payload is
  reported at every unknown tag before it.
* Text that follows a script is scraped as a script; the arguments of
  `StartsWithIgnoreCase` are swapped (gumbo_url_filter.cc:165).
* A payload at the very end of a script is not reported (scrape_util.cc:187).
* `UnescapeHtml` decodes what it has just decoded.
* `GetHeader` accepts a header whose name only begins like the one it looks
  for; of a `100 Continue` and its final response the first header block is taken.

## 8. What is not modelled

* libcurl, gumbo, GURL, RE2 and protocol buffers, except for how they are used. Regular
  expressions are sets of requests, classes of symbols or plain texts.
* Characters: texts are sequences of symbols that stand for what the code tells
  apart. The entropy test of `IsPotentialXSRFToken` is one symbol that passes it.
* The options set on a curl handle, default headers, console output, flag parsing, loading
  of configuration and word lists, protocol buffer definitions, build rules and the vendored
  `base` library.
* `issue_util`, which cuts a snippet out of a response for the report.
* The hidden objects finder inside `Scan`: `Scan` has an empty wordlist, for which
  `ScheduleRequests` does nothing, and `HiddenObjects` models the finder with
  the parts of the loop it depends on.
* The mutexes of the data store and of the auditor, which only the one thread takes; those
  a signal can meet are in `Shutdown`.

## 9. Plan

The modules are written and the properties that do not take an induction over data are proved. What is left:

1. `Crawler`: `AuditedPagesExist`. A page enters the audit queue in the step that gives it
   its response, and responses are never replaced; the folds over documents would have to be written as recursive functions
   first, as was done for the walk of the reports, and `Store` in a form whose length can be reasoned about.
2. `Crawler`: `IssuesBelongToPages` with hypotheses on the passive tests, which the instance satisfies, in the theorem.
3. `UrlsAreStable`: `StrSplit` as a recursive function, and that joining undoes it.
