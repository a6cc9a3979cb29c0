--------------------------- MODULE MCRequestStore ---------------------------
(***************************************************************************)
(* Instances of RequestStore for TLC.  With two children and two samples   *)
(* for each pivot, three sibling paths and four requests for one path, all *)
(* limits are reached; one request is on a host that is never allowed      *)
(* unless it is given on the command line.  The reports follow the scan.   *)
(***************************************************************************)
EXTENDS Reporting

Req(host, path, tag, params, body) ==
  [host |-> host, path |-> path, tag |-> tag, params |-> params, body |-> body,
   valid |-> TRUE]

\* Two forms with other fields, one parameter list in two orders, the page of
\* a host, and a URL that is not valid.
MCRequest ==
  {Req("h1", <<"a">>, "post", <<"x", "y">>, <<"u">>),
   Req("h1", <<"a">>, "post", <<"y", "x">>, <<"u">>),
   Req("h1", <<"a">>, "post", <<"x", "y">>, <<"v">>),
   Req("h1", <<"a", "b">>, "get", <<"x">>, <<>>),
   Req("h1", <<"c", "d">>, "get", <<>>, <<>>),
   Req("h1", <<"e">>, "get", <<>>, <<>>),
   Req("h1", <<"admin">>, "get", <<>>, <<>>),
   Req("h1", <<>>, "get", <<>>, <<>>),
   Req("h2", <<"a">>, "get", <<>>, <<>>),
   [Req("h1", <<"c">>, "get", <<>>, <<>>) EXCEPT !.valid = FALSE]}

OnPath(segment) == {r \in MCRequest : segment \in ToSet(r.path)}

\* One regex includes every URL, one excludes what is below /admin.
MCIncludeAll == {MCRequest}
MCBlacklist == {OnPath("admin")}

\* No report, both reports, one of them twice, and a list with a comma at its
\* end.  There is no JSON form of one of the requests that share a pivot.
MCReportTypes == {<<>>, <<"TEXT", "JSON">>, <<"JSON", "JSON">>, <<"TEXT", "">>}
MCUnconvertible == {r \in MCRequest : r.params = <<"x", "y">> /\ r.body = <<"u">>}

\* Requests for one path whose queries repeat a name, and two regexes.
MCRepeats == {Req("h1", <<"a">>, "get", names, <<>>) : names \in {<<"x", "x">>, <<"x", "y">>}}
MCTwoRegexes == {OnPath("a"), OnPath("c")}
=============================================================================
