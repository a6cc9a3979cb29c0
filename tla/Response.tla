------------------------------ MODULE Response ------------------------------
(***************************************************************************)
(* Response: how the bytes a server sent are taken apart.                  *)
(*                                                                         *)
(* The raw response is a sequence of lines and line ends: a status line    *)
(* [line, http, code], header lines [line, name, value] and "CR", "LF".    *)
(* The body is what follows the empty line.  A header name is a sequence   *)
(* of its parts (Location, X-Location), since GetHeader compares only the  *)
(* length of the name it looks for.  libcurl hands over a response only    *)
(* after its status line, so there always is a first line.                 *)
(***************************************************************************)
EXTENDS Naturals, Sequences, SequencesExt, FiniteSets

CR == [line |-> "CR"]
LF == [line |-> "LF"]
StatusLine(http, parts, code) ==
  [line |-> "status", http |-> http, parts |-> parts, code |-> code]
HeaderLine(name, value) == [line |-> "header", name |-> name, value |-> value]
NoColon == [line |-> "junk"]
Page(page) == [line |-> "page", page |-> page]

\* The codes of HttpResponse::ResponseCode.
ResponseCode == (100..101) \cup (200..206) \cup ((300..307) \ {306})
                  \cup (400..417) \cup (500..505)

NoResponse == [ok |-> FALSE]
NoHeader == [line |-> "none"]

-----------------------------------------------------------------------------
CrLfCrLf == <<CR, LF, CR, LF>>
LfLf == <<LF, LF>>
StartsAt(raw, i, s) ==
  i + Len(s) - 1 <= Len(raw) /\ SubSeq(raw, i, i + Len(s) - 1) = s

\* Where the loop of Parse stops: at the first of these.
Separators(raw) ==
  {i \in DOMAIN raw : StartsAt(raw, i, CrLfCrLf) \/ StartsAt(raw, i, LfLf)}

SplitAt(raw) == CHOOSE i \in Separators(raw) : \A j \in Separators(raw) : i <= j

Lines(head) == SelectSeq(head, LAMBDA s : s \notin {CR, LF})

\* ParseHeaders: FALSE for a status line it does not like.
StatusIsValid(s) ==
  /\ s.line = "status" /\ s.http
  /\ s.parts >= 3
  /\ s.code \in ResponseCode

Headers(lines) == SelectSeq(Tail(lines), LAMBDA s : s.line = "header")

\* The first header whose name begins with the given one.
GetHeader(headers, name) ==
  LET i == SelectInSeq(headers, LAMBDA h : IsPrefix(name, h.name))
  IN  IF i = 0 THEN NoHeader ELSE headers[i]

\* HTTPHeaders::GetMimeType of the Content-type header: its value up to the
\* first ";" is compared with the known types.
IdentifyMime(headers, known) ==
  LET type == GetHeader(headers, <<"Content-type">>)
  IN  IF type # NoHeader /\ type.value \in known THEN type.value ELSE "UNKNOWN_MIME"

\* Response::Parse.
ParseResponse(raw, known) ==
  IF Separators(raw) = {} THEN NoResponse
  ELSE LET at == SplitAt(raw)
           lines == Lines(SubSeq(raw, 1, at - 1))
           skip == IF StartsAt(raw, at, CrLfCrLf) THEN 4 ELSE 2
       IN  IF ~StatusIsValid(Head(lines)) THEN NoResponse
           ELSE [ok |-> TRUE, code |-> Head(lines).code,
                 headers |-> Headers(lines),
                 mime_type |-> IdentifyMime(Headers(lines), known),
                 body |-> SubSeq(raw, at + skip, Len(raw))]
=============================================================================
