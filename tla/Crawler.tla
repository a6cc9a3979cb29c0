------------------------------ MODULE Crawler -------------------------------
(***************************************************************************)
(* What the crawler makes of the responses: RequestCallback for the pages  *)
(* of the site and Scrape for the responses to audit requests, on top of   *)
(* the modules Response, HtmlScraper and Matching.  The data store is      *)
(* reduced to what the crawler sees of it (see RequestStore, IssueStore).  *)
(***************************************************************************)
EXTENDS HtmlScraper, Matching

CONSTANTS
  Sites,          \* sets of raw responses: what the server of a site may send
  Seed,           \* the request of the command line
  KnownMime,      \* the values of Content-type that kContentTypes lists
  SniffedMime,    \* those for which the content is sniffed
  HtmlMime,       \* ASC_HTML, XML_XHTML
  BinaryMime,     \* GetBinaryMimeTypes
  PassiveTests,   \* records [type, matching]: the tests without a generator
  MaxRequests,    \* bound on the stored requests
  MaxPages        \* bound on the requests that are answered

ASSUME CrawlerAssumption ==
  /\ SniffedMime \cup HtmlMime \cup BinaryMime \subseteq KnownMime
  /\ MaxRequests \in Nat \ {0}
  /\ MaxPages \in Nat

VARIABLES
  site,          \* the site of this scan
  extract_links, \* FLAGS_extract_links
  requests,      \* requests_by_id_ of the data store; ids are positions
  responses,     \* per request: waiting, or the response it has got
  fingerprints,  \* per request: the fingerprint set on its response
  audit_queue,   \* ids
  issues,        \* [id, type, at], with the id they are filed under
  not_found      \* not_found_fingerprints_

vars == <<site, extract_links, requests, responses, fingerprints, audit_queue, issues,
          not_found>>

Waiting == [ok |-> FALSE, waiting |-> TRUE]
NoFingerprint == <<>>
kInvalidId == 0

Id == 1..Len(requests)

Init ==
  /\ site \in Sites
  /\ extract_links \in BOOLEAN
  /\ requests = <<Seed>>
  /\ responses = <<Waiting>>
  /\ fingerprints = <<NoFingerprint>>
  /\ audit_queue = <<>>
  /\ issues = {}
  /\ not_found = {}

-----------------------------------------------------------------------------
kNoTestingResponseCodes == {400, 403, 404, 405, 407}

\* Request(url, origin) for a link; the origin is not kept as the parent.
LinkRequest(base, url) ==
  [url |-> url, post |-> FALSE, params |-> <<>>, parent |-> kInvalidId,
   ssl |-> IF url # <<>> /\ Head(url) \in Scheme THEN Head(url) = "https:" ELSE base.ssl]

\* DataStore::AddRequest, for each of the new requests in turn.
Store(stored, new) ==
  FoldLeft(LAMBDA s, r : IF Contains(s, r) \/ Len(s) >= MaxRequests THEN s ELSE Append(s, r),
           stored, new)

\* The stored requests, and the fields of the requests that are stored now.
StoreRequests(new, with_responses, with_fingerprints) ==
  LET stored == Store(requests, new)
      Grow(s, e) == s \o [i \in 1..(Len(stored) - Len(requests)) |-> e]
  IN  /\ requests' = stored
      /\ responses' = Grow(with_responses, Waiting)
      /\ fingerprints' = Grow(with_fingerprints, NoFingerprint)

PageOf(response) == Last(response.body).page

\* SniffMimeType looks for a tag in the first bytes of the body.
Mime(response) ==
  IF response.mime_type \in SniffedMime /\ PageOf(response).sniffed # "none"
  THEN PageOf(response).sniffed ELSE response.mime_type

IsHtml(response) == Mime(response) \in HtmlMime

\* HtmlScraper::Parse returns false.
ParseFails(response) == IsHtml(response) /\ ~PageOf(response).parses

\* Mutant: issues are filed under the id of the request itself.
IssueIdNoParent(req) == req.id

\* ScrapeRequest files issues under the page that an audit request tests.
IssueId(req) == IF req.id = kInvalidId THEN req.parent ELSE req.id

Location(response) == GetHeader(response.headers, <<"Location">>)

\* Mutant: only the responses of HTML pages can redirect.
NewRequestsHtmlOnly(req, response, scraper, links_too) ==
  IF ~IsHtml(response) \/ ParseFails(response) THEN <<>>
  ELSE (IF links_too
        THEN [i \in DOMAIN SetToSeq(scraper.anchors) |->
                LinkRequest(req, SetToSeq(scraper.anchors)[i])] ELSE <<>>)
       \o [i \in DOMAIN scraper.requests |-> scraper.requests[i] @@ [parent |-> kInvalidId]]
       \o (IF links_too /\ Location(response) # NoHeader
           THEN <<LinkRequest(req, Location(response).value)>> ELSE <<>>)

\* What ScrapeRequest adds to the data store: the links of the page, its forms
\* (also when no links are wanted) and the target of a redirect.  It returns
\* before all of them if the page cannot be parsed.
NewRequests(req, response, scraper, links_too) ==
  LET links == SetToSeq(scraper.anchors)
      forms == scraper.requests
  IN  IF ParseFails(response) THEN <<>>
      ELSE (IF links_too THEN [i \in DOMAIN links |-> LinkRequest(req, links[i])] ELSE <<>>)
           \o [i \in DOMAIN forms |-> forms[i] @@ [parent |-> kInvalidId]]
           \o (IF links_too /\ Location(response) # NoHeader
               THEN <<LinkRequest(req, Location(response).value)>> ELSE <<>>)

\* The scraper of an HTML page; nothing is scraped from other responses.
Scraped(req, response) ==
  IF IsHtml(response) /\ ~ParseFails(response)
  THEN Parse(req, PageOf(response).doc) ELSE NewScraper

\* The issues of a scraper, under the page that req is about.
ScrapedIssues(req, scraper) ==
  {[id |-> IssueId(req), type |-> i.type, at |-> i.at] : i \in scraper.issues}

-----------------------------------------------------------------------------
(* PassiveAuditor.                                                         *)

\* AddSecurityTest: a test whose matchers cannot be prepared is left out.
ResponseMatchers == {t \in PassiveTests : RuleIsValid(t.matching)}

\* A crawled request, as a matcher sees it.
Seen(id, response) ==
  [url |-> requests[id].url, parent_id |-> requests[id].parent,
   response |-> response, time |-> 0]

\* Check: the issues are about the response as a whole, at no node of it.
PassiveIssues(id, response) ==
  {[id |-> id, type |-> t.type, at |-> 0] :
     t \in {u \in ResponseMatchers : MatchSingle(u.matching, Seen(id, response), <<>>)}}

-----------------------------------------------------------------------------
\* HtmlFingerprint::Equals, and Response::Equals.
FuzzyEqual(fp1, fp2) ==
  LET Abs(a, b) == IF a > b THEN a - b ELSE b - a
      failed == {i \in DOMAIN fp1 : Abs(fp1[i], fp2[i]) >= 1 + ((fp1[i] + fp2[i]) * 5) \div 100}
      Sum(f) == FoldSet(LAMBDA i, n : n + f[i], 0, DOMAIN f)
  IN  /\ Cardinality(failed) <= 3
      /\ Sum([i \in DOMAIN fp1 |-> Abs(fp1[i], fp2[i])])
           < 1 + (Sum([i \in DOMAIN fp1 |-> fp1[i] + fp2[i]]) * 3) \div 100

SameResponse(r1, fp1, r2, fp2) ==
  /\ r1.code = r2.code /\ r1.mime_type = r2.mime_type
  /\ IF r1.mime_type \in HtmlMime
     THEN fp1 # NoFingerprint /\ fp2 # NoFingerprint /\ FuzzyEqual(fp1, fp2)
     ELSE r1.body = r2.body

\* The loop test at the start of RequestCallback.  A stored request never has
\* a parent, so it never cuts a loop.
InLoop(id, response) ==
  LET same(p) == /\ p \in Id /\ responses[p].ok
                 /\ SameResponse(responses[p], fingerprints[p], response, fingerprints[id])
      parent == requests[id].parent
  IN  same(parent) /\ same(requests[parent].parent)

\* Mutant: the code of the response is not looked at.
SkipTestingNever(id, response) == fingerprints[id] \in not_found

\* Pages that are not worth a test.  The fingerprint is the one set so far.
SkipTesting(id, response) ==
  \/ response.code \in kNoTestingResponseCodes
  \/ fingerprints[id] \in not_found

\* The body of a binary page is replaced by a message, <<>> here.
Truncated(response) ==
  IF response.mime_type \in BinaryMime THEN [response EXCEPT !.body = <<>>] ELSE response

\* The response to a crawled request: Request::DoneCb parses it and, if that
\* succeeds, calls Crawler::RequestCallback.
RequestCallback(id, raw) ==
  LET response == ParseResponse(raw, KnownMime)
      req == requests[id] @@ [id |-> id]
      scraper == Scraped(req, response)
  IN  /\ responses[id] = Waiting
      /\ Cardinality({i \in Id : responses[i] # Waiting}) < MaxPages
      /\ IF ~response.ok \/ InLoop(id, response)
         THEN /\ responses' = [responses EXCEPT ![id] = response]
              /\ UNCHANGED <<requests, fingerprints, audit_queue, issues>>
         ELSE /\ audit_queue' = IF SkipTesting(id, response) THEN audit_queue
                                ELSE Append(audit_queue, id)
              /\ StoreRequests(
                   NewRequests(req, response, scraper, extract_links),
                   [responses EXCEPT ![id] = Truncated(response)],
                   [fingerprints EXCEPT ![id] =
                      IF IsHtml(response) /\ ~ParseFails(response)
                      THEN scraper.fingerprint ELSE @])
              /\ issues' = issues \cup PassiveIssues(id, response)
                                   \cup ScrapedIssues(req, scraper)
      /\ UNCHANGED <<site, extract_links, not_found>>

\* The response to an audit request for page id, after its check: it is
\* scraped for issues and forms, and nothing is kept of it.
Scrape(id, raw) ==
  LET response == ParseResponse(raw, KnownMime)
      req == [requests[id] EXCEPT !.parent = id] @@ [id |-> kInvalidId]
      scraper == Scraped(req, response)
  IN  /\ Contains(audit_queue, id)
      /\ response.ok
      /\ StoreRequests(NewRequests(req, response, scraper, FALSE),
                       responses, fingerprints)
      /\ issues' = issues \cup ScrapedIssues(req, scraper)
      /\ UNCHANGED <<site, extract_links, audit_queue, not_found>>

\* NotFoundDetector::RequestCallback: any body is parsed as HTML.
ProbeCallback(raw) ==
  LET response == ParseResponse(raw, KnownMime) IN
  /\ response.ok /\ PageOf(response).parses
  /\ not_found' = not_found \cup {Parse(Seed, PageOf(response).doc).fingerprint}
  /\ UNCHANGED <<site, extract_links, requests, responses, fingerprints, audit_queue, issues>>

Next ==
  \E raw \in site :
    \/ \E id \in Id : RequestCallback(id, raw)
    \/ \E id \in Id : Scrape(id, raw)
    \/ ProbeCallback(raw)

Spec == Init /\ [][Next]_vars
-----------------------------------------------------------------------------
\* The documents and the scripts of the site.
Pages == {Last(raw).page : raw \in {r \in site : Last(r).line = "page"}}
Docs == {p.doc : p \in Pages}
ScriptTexts ==
  UNION {{doc[k].text : k \in {j \in 2..Len(doc) :
            /\ doc[j].type = "text" /\ doc[j - 1].tag = "script"
            /\ doc[j].depth > doc[j - 1].depth}} : doc \in Docs}

\* ScrapeJs finds its way through the short scripts of the sites, however quotes
\* and backslashes are mixed: links are string literals of the script and never
\* a piece of code, the first literal after a sink is always one of them, and a
\* payload is reported as executable when it stands alone in the code, with
\* something after it, and never for what is inside of a literal.
ScriptsAreUnderstood ==
  \A t \in ScriptTexts : LinksAreLiterals(t) /\ PayloadsAreCode(t)

\* The fields below form k, whatever the filters make of them.
FieldsOf(doc, k) == {doc[j] : j \in {i \in Below(doc, k) : doc[i].tag \in FieldTag}}
Named(field) == "name" \in DOMAIN field.attrs

\* The forms of a page, with what the form filter says of them (Found) and what
\* their own fields and targets are.
Forms(doc) ==
  {k \in DOMAIN doc : doc[k].tag = "form" /\ "action" \in DOMAIN doc[k].attrs}
Found(doc, ssl, type, k) == Issue(type, k) \in Parse([Seed EXCEPT !.ssl = ssl], doc).issues
TakesPassword(doc, k) ==
  \E f \in FieldsOf(doc, k) : Named(f) /\ HasType(f, <<"password">>)
HasToken(doc, k) == \E f \in FieldsOf(doc, k) : Named(f) /\ CarriesToken(f)
TargetIsProtected(doc, ssl, k) ==
  LET url == doc[k].attrs["action"] IN
  IF url # <<>> /\ url[1] \in Scheme THEN url[1] = "https:" ELSE ssl

\* What the form filter says of a form does not depend on the password fields
\* of the forms before it: a login form is reported if and only if one of its
\* own named fields takes a password and the page, or its own target, is not
\* protected.  A form with a token is never reported for lacking one, and all
\* forms of a page without any token are.  (The filter does not forget the
\* token of a form: see FormsWithoutTokenAreReported.)
LoginFormsAreJudgedAlone ==
  \A doc \in Docs, ssl \in BOOLEAN : \A k \in Forms(doc) :
    /\ Found(doc, ssl, "PLAINTEXT_LOGIN_FORM", k) <=> TakesPassword(doc, k) /\ ~ssl
    /\ Found(doc, ssl, "PLAINTEXT_LOGIN_FORM_TARGET", k)
         <=> TakesPassword(doc, k) /\ ~TargetIsProtected(doc, ssl, k)
    /\ HasToken(doc, k) => ~Found(doc, ssl, "XSRF_PASSIVE", k)
    /\ (\A j \in Forms(doc) : ~HasToken(doc, j)) => Found(doc, ssl, "XSRF_PASSIVE", k)

\* "Report forms that lack a potential XSRF token." (gumbo_form_filter.cc:89,
\* with a flag that "indicates if the current form has an XSRF token").  Does
\* not hold: ParseElement resets the password flag only, so that a form with a
\* token excuses all forms after it.
FormsWithoutTokenAreReported ==
  \A id \in Id : responses[id].ok /\ responses[id].body # <<>> /\ IsHtml(responses[id])
                   /\ ~ParseFails(responses[id]) =>
    LET doc == PageOf(responses[id]).doc IN
    \A k \in Forms(doc) :
      ~HasToken(doc, k) => [id |-> id, type |-> "XSRF_PASSIVE", at |-> k] \in issues

\* Whatever the page a crawled response leads to, the data store is asked to
\* take it: the links of elements, those that scripts of the page assign, and
\* the target of a redirect, whether or not the response has a body to read
\* (not that of a page which cannot be parsed).  Without FLAGS_extract_links
\* it takes nothing but the targets of forms.
LinksOfPage(req, response) ==
  LET doc == PageOf(response).doc
      Attrs(k) == {a \in DOMAIN doc[k].attrs : a \in {"href", "src"}}
      Hrefs(k) == {UnescapeHtml(doc[k].attrs[a]) : a \in Attrs(k)}
  IN  UNION {Hrefs(k) : k \in DOMAIN doc} \cup
      UNION {LinksOf(t) : t \in {u \in ScriptTexts : Contains(doc, Text(2, u))}}

Wanted(id) ==
  LET response == responses[id]
      usable == response.ok /\ ~ParseFails(response)
  IN  (IF usable /\ IsHtml(response) THEN LinksOfPage(requests[id], response) ELSE {})
      \cup (IF usable
            THEN {h.value : h \in {g \in ToSet(response.headers) : g.name = <<"Location">>}}
            ELSE {})

EveryLinkIsStored ==
  IF extract_links
  THEN Len(requests) < MaxRequests =>
         \A id \in Id : \A url \in Wanted(id) :
           \/ url = <<>> \/ Head(url) \in Script
           \/ \E other \in Id : requests[other].url = url
  ELSE \A id \in Id \ {1} : \E doc \in Docs : \E k \in Forms(doc) :
         requests[id].url = UnescapeHtml(doc[k].attrs["action"])

\* Every issue is filed under a page of the site that was answered, also when
\* it is found in the response to an audit request, which has no id; and all
\* that is found in a page is filed under that page: what the filters find in
\* its nodes, and each usable passive test that its response satisfies.
IssuesBelongToPages ==
  /\ \A i \in issues : i.id \in Id /\ responses[i.id].ok
  /\ \A id \in Id : responses[id].ok =>
       /\ \A t \in PassiveTests :
            [id |-> id, type |-> t.type, at |-> 0] \in issues <=>
              RuleIsValid(t.matching) /\ Satisfied(t.matching, Seen(id, responses[id]), 0)
       /\ responses[id].body # <<>> =>
            \A i \in Scraped(requests[id], responses[id]).issues :
              [id |-> id, type |-> i.type, at |-> i.at] \in issues

\* The pages that are handed to the auditor: each at most once, none that has
\* failed to answer or has a code that says there is nothing to test, and no
\* other page is left out, unless what it shows is known as the answer to a
\* missing file.  (Such pages are audited too: see SoftNotFoundIsNotTested.)
AuditedPagesExist ==
  /\ \A j, k \in DOMAIN audit_queue : audit_queue[j] = audit_queue[k] => j = k
  /\ \A id \in Id :
       LET hard == responses[id].ok /\ responses[id].code \in kNoTestingResponseCodes
       IN  /\ Contains(audit_queue, id) => responses[id].ok /\ ~hard
           /\ responses[id].ok /\ ~hard /\ fingerprints[id] \notin not_found
                => Contains(audit_queue, id)

\* "Skip testing non-existing files" (crawler.cc:132): a page that looks like an
\* answer to a missing file which the detector has already seen is not handed
\* to the auditor.  Does not hold: RequestCallback compares the fingerprint
\* before ScrapeWithLinks sets it.
SoftNotFoundIsNotTested ==
  [][\A id \in Id : /\ ~Contains(audit_queue, id)
                    /\ fingerprints'[id] \in not_found
                    => ~Contains(audit_queue', id)]_vars
=============================================================================
