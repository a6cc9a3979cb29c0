----------------------------- MODULE Reporting ------------------------------
(***************************************************************************)
(* The reports of a scan: Plusfish::InitReporting and Report, the walk of  *)
(* DataStore and Pivot over the tree of RequestStore, and the two reporter *)
(* classes.  main sets the reporters up before the first URL is added, and *)
(* reports when the scan is over; the reporters are destroyed, and their   *)
(* files closed, when main returns.                                        *)
(*                                                                         *)
(* An output is the sequence of what one reporter writes.  An item of a    *)
(* report is the id of its request; the text of an item is left out.       *)
(* Reporters of one type write to one file, each from its beginning and    *)
(* through a buffer of its own: the file is in order if they write the     *)
(* same.                                                                   *)
(***************************************************************************)
EXTENDS RequestStore, FiniteSetsExt

CONSTANTS
  ReportTypes,   \* values of --report_type, as the lists they are split into
  Openable,      \* reports whose file can be opened
  Unconvertible  \* requests that MessageToJsonString fails on

ASSUME ReportingAssumption ==
  /\ ReportTypes \subseteq Seq(STRING)
  /\ Unconvertible \subseteq Request

VARIABLES
  phase,      \* of main: start, scan, reported, closed or exit
  reporters,  \* reporters_, by their types
  output      \* what each of them has written

reportVars == <<phase, reporters, output>>
allVars == <<vars, reportVars>>

Token(kind) == [kind |-> kind, id |-> 0]
Item(i) == [kind |-> "item", id |-> i]
Config(converted) == Token(IF converted THEN "config" ELSE "no config")

ReportInit ==
  /\ Init
  /\ phase = "start" /\ reporters = <<>> /\ output = <<>>

\* ReporterFactory knows the type and can open its file.
Available(type) == type \in {"TEXT", "JSON"} \cap Openable

\* There is a reporter for each type of the list, up to the first that there
\* is none for, which ends the program.  With no --report_type there are none.
InitReporting ==
  /\ phase = "start"
  /\ \E types \in ReportTypes :
       LET bad == {k \in DOMAIN types : ~Available(types[k])}
       IN  /\ phase' = IF bad = {} THEN "scan" ELSE "exit"
           /\ reporters' = IF bad = {} THEN types ELSE SubSeq(types, 1, Min(bad) - 1)
  /\ output' = [k \in DOMAIN reporters' |-> <<>>]
  /\ UNCHANGED vars

ScanStep ==
  /\ phase = "scan"
  /\ Next
  /\ UNCHANGED reportVars

-----------------------------------------------------------------------------
\* Mutant: the walk starts with the children of the hosts.
ReportedPivotsNoHost ==
  {p \in pivots : Len(p) > 1 /\ \A k \in 1..Len(p) : SubSeq(p, 1, k) \in pivots}

\* Pivot::Report: each pivot that can be reached from its host.
ReportedPivots ==
  {p \in pivots : \A k \in 1..Len(p) : SubSeq(p, 1, k) \in pivots}

\* DataStore::Report.  The code goes by name; here the order is any fixed one.
First(S) == CHOOSE p \in S : TRUE
Walk ==
  LET count == Cardinality(ReportedPivots)
      rest[n \in 0..count] ==
        IF n = 0 THEN ReportedPivots ELSE rest[n - 1] \ {First(rest[n - 1])}
  IN  [n \in 1..count |-> First(rest[n - 1])]

\* TextReporter::ReportPivot, for one pivot after the other.
TextReport(walk) ==
  LET ids == FlattenSeq([n \in DOMAIN walk |-> req_samples[walk[n]]])
  IN  [k \in DOMAIN ids |-> Item(ids[k])]

\* JSONReporter::ReportPivot returns at the first request it cannot convert.
JsonPivot(samples) ==
  LET bad == {k \in DOMAIN samples : requests_by_id[samples[k]] \in Unconvertible}
  IN  IF bad = {} THEN samples ELSE SubSeq(samples, 1, Min(bad) - 1)

\* There is a delimiter before each item, unless report_item_cnt_ is still 0.
Delimited(ids) ==
  [k \in 1..(2 * Len(ids) - 1) |->
     IF k % 2 = 1 THEN Item(ids[(k + 1) \div 2]) ELSE Token("delimiter")]

\* ReportSecurityConfig comes first, and writes its prefix and delimiter also
\* if the configuration cannot be converted; the prefix of the list is written
\* with the first pivot.
JsonPrefix(converted) ==
  <<Config(converted), Token("delimiter")>> \o IF ReportedPivots = {} THEN <<>> ELSE <<Token("pivots")>>
JsonReport(walk, converted) ==
  JsonPrefix(converted)
    \o Delimited(FlattenSeq([n \in DOMAIN walk |-> JsonPivot(req_samples[walk[n]])]))

\* Plusfish::Report, once Run has returned; nothing without reporters.
Report ==
  /\ phase = "scan"
  /\ phase' = "reported"
  /\ \E converted \in BOOLEAN :
       output' = [k \in DOMAIN reporters |->
                    IF reporters[k] = "TEXT" THEN TextReport(Walk) ELSE JsonReport(Walk, converted)]
  /\ UNCHANGED <<vars, reporters>>

\* The destructors of the reporters.
Close ==
  /\ phase = "reported"
  /\ phase' = "closed"
  /\ output' = [k \in DOMAIN reporters |->
                  IF reporters[k] = "TEXT" THEN output[k] ELSE Append(output[k], Token("end"))]
  /\ UNCHANGED <<vars, reporters>>

ReportNext == InitReporting \/ ScanStep \/ Report \/ Close

ReportSpec == ReportInit /\ [][ReportNext]_allVars
-----------------------------------------------------------------------------
\* How often an output has the item of request i.
Copies(file, i) == Cardinality({k \in DOMAIN file : file[k] = Item(i)})

\* An object with the configuration and an array of items.
WellFormed(file) ==
  LET middle == SubSeq(file, 4, Len(file) - 1)
      kind(k) == IF k % 2 = 1 THEN "item" ELSE "delimiter"
  IN  /\ Len(file) >= 4
      /\ [k \in 1..3 |-> file[k].kind] = <<"config", "delimiter", "pivots">>
      /\ Last(file).kind = "end"
      /\ \A k \in DOMAIN middle : middle[k].kind = kind(k)
      /\ middle # <<>> => Last(middle).kind = "item"

\* A request of the same pivot, at or before request i, has no JSON form.
CutOff(i) ==
  \E p \in Path : \E j, k \in DOMAIN req_samples[p] :
    j <= k /\ req_samples[p][k] = i /\ requests_by_id[req_samples[p][j]] \in Unconvertible

\* Every stored request is in each report once, also if a type is listed twice
\* and two reporters write to one file.  Only from the JSON report a request
\* that cannot be converted is missing, with those after it in its pivot, and
\* the report is still well formed, as long as one URL was in scope and the
\* configuration can be converted.
ReportsAreComplete ==
  phase = "closed" =>
    \A k \in DOMAIN reporters :
      /\ reporters[k] = "TEXT" =>
           Len(output[k]) = Len(requests_by_id) /\ \A i \in Id : Copies(output[k], i) = 1
      /\ reporters[k] = "JSON" =>
           /\ pivots # {} /\ output[k][1].kind = "config" => WellFormed(output[k])
           /\ \A i \in Id : Copies(output[k], i) = IF CutOff(i) THEN 0 ELSE 1
      /\ \A m \in DOMAIN reporters : reporters[m] = reporters[k] => output[m] = output[k]
=============================================================================
