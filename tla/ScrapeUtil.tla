----------------------------- MODULE ScrapeUtil -----------------------------
(***************************************************************************)
(* The scrapers of parsers/util: ScrapeJs, which reads links and injected  *)
(* payloads from a script without parsing it, ScrapeUrl and UnescapeHtml.  *)
(*                                                                         *)
(* A text is a sequence of symbols.  A symbol is a character that the      *)
(* scrapers treat in a way of its own, or a run of characters that they    *)
(* always treat alike: a word, a scheme, the rest of an entity.            *)
(***************************************************************************)
EXTENDS Naturals, FiniteSets, Sequences, SequencesExt

Sink == "location"       \* a word that ends with one of kJsKeywordSuffixes
Payload == "plus1fish"   \* a word that kXssPayloadRegex matches
RandomText == "8f3a"     \* a text long and mixed enough for a base 16 or 64 token
Word == {Sink, Payload, "w"}
Quote == {"'", "\""}
Scheme == {"http:", "https:"}
Script == {"javascript:", "vbscript:"}

\* "=" is any other punctuation; "amp;" and "quot;" end an entity after "&"
\* and stand inside of attribute values and quoted strings only.
Symbol == Word \cup Quote \cup Scheme \cup Script
            \cup {"\\", "/", " ", "=", "url=", "&", "amp;", "quot;", RandomText}

-----------------------------------------------------------------------------
\* The match of kAbsoluteUrlRegex that starts at position i.
AbsoluteAt(t, i) ==
  LET j == IF t[i] \in Scheme THEN i + 1 ELSE i IN
  /\ j + 2 <= Len(t)
  /\ t[j] = "/" /\ t[j + 1] = "/" /\ t[j + 2] \in Word

\* A full match of kRelativeUrlRegex or of kAbsoluteUrlRegex.
LooksLikeUrl(t) ==
  /\ \/ Len(t) >= 2 /\ t[1] = "/" /\ t[2] \in Word \cup {"/"}
     \/ t # <<>> /\ AbsoluteAt(t, 1)
  /\ " " \notin ToSet(t)

\* RE2::FindAndConsume takes the leftmost match, up to the next white space.
UrlStarts(t) ==
  {i \in DOMAIN t :
     /\ AbsoluteAt(t, i)
     /\ \A h \in 1..(i - 1) : AbsoluteAt(t, h) => \E s \in h..i : t[s] = " "}

ScrapeUrl(t) ==
  {LET blanks == {j \in DOMAIN t : j > i /\ t[j] = " "}
       end == IF blanks = {} THEN Len(t)
              ELSE (CHOOSE b \in blanks : \A c \in blanks : b <= c) - 1
   IN  SubSeq(t, i, end) : i \in UrlStarts(t)}

\* One entry of the map in UnescapeHtml: the search starts over after every
\* replacement, so that "&" "amp;" "amp;" becomes "&".
Decode(t, entity, char) ==
  LET Put(done, s) ==
        IF s = entity /\ done # <<>> /\ Last(done) = "&"
        THEN Append(Front(done), char) ELSE Append(done, s)
  IN  FoldLeft(Put, <<>>, t)

UnescapeHtml(t) == Decode(Decode(t, "amp;", "&"), "quot;", "\"")

-----------------------------------------------------------------------------
\* Mutant: a backslash does not protect the character after it.
GetQuotedTextSizeNoEscape(t, i) ==
  LET ends == {j \in DOMAIN t : j > i /\ t[j] = t[i]}
  IN  IF ends = {} THEN Len(t) - i + 1
      ELSE (CHOOSE j \in ends : \A k \in ends : j <= k) - i - 1

\* The size of the string literal whose quote is at i.  Without a closing
\* quote that is the rest of the text and the quote itself.
GetQuotedTextSize(t, i) ==
  LET Look(acc, j) ==
        IF j < acc.next THEN acc
        ELSE IF t[j] = "\\" THEN [acc EXCEPT !.next = j + 2]
        ELSE IF t[j] = t[i] THEN [next |-> Len(t) + 1, end |-> j]
        ELSE acc
  IN  FoldLeftDomain(Look, [next |-> i + 1, end |-> Len(t) + 2], t).end - i - 1

JsKeywordSuffixMatch(keyword) == Last(keyword) = Sink

MatchXssPayload(keyword) == keyword = <<Payload>>

\* The literal with this text is read: what follows a sink is a link whatever
\* it looks like, and the keyword is used up; what follows another keyword has
\* to look like a URL.
TakeText(acc, text) ==
  LET sink == text # <<>> /\ JsKeywordSuffixMatch(acc.keyword)
      link == acc.keyword # <<>> /\ (sink \/ LooksLikeUrl(text))
  IN  [acc EXCEPT !.anchors = IF link THEN @ \cup {text} ELSE @,
                  !.keyword = IF link /\ sink THEN <<>> ELSE @]

\* A string literal of this size at i, and the character after it.
TakeString(t, acc, i, size) ==
  TakeText([acc EXCEPT !.next = i + size + 2],
           SubSeq(t, i + 1, IF i + size > Len(t) THEN Len(t) ELSE i + size))

\* The end of the word that started at acc.start.
TakeKeyword(t, acc, i) ==
  LET word == SubSeq(t, acc.start, i - 1)
  IN  [acc EXCEPT !.keyword = word,
                  !.start = 0,
                  !.payloads = @ + IF MatchXssPayload(word) THEN 1 ELSE 0]

\* ScrapeJs: 0 is "no keyword"; the scan starts as if one began at the first
\* character.  A word that ends with the text is never looked at.
ScrapeJs(t) ==
  LET Scan(acc, i) ==
        IF i < acc.next THEN acc
        ELSE IF t[i] \in Quote THEN TakeString(t, acc, i, GetQuotedTextSize(t, i))
        ELSE IF t[i] \in Word
             THEN [acc EXCEPT !.start = IF @ = 0 THEN i ELSE @]
        ELSE IF acc.start # 0 THEN TakeKeyword(t, acc, i)
        ELSE acc
  IN  FoldLeftDomain(Scan, [next |-> 1, start |-> 1, keyword |-> <<>>,
                            anchors |-> {}, payloads |-> 0], t)

-----------------------------------------------------------------------------
(***************************************************************************)
(* What a scanner of a script has to agree with: the context of each       *)
(* position, read off one symbol at a time.  "code", or the quote of the   *)
(* literal the position is in, with esc after a backslash.                 *)
(***************************************************************************)
Context(t) ==
  LET c[i \in 1..(Len(t) + 1)] ==
        IF i = 1 THEN [in |-> "code", esc |-> FALSE]
        ELSE LET p == c[i - 1]
                 s == t[i - 1]
             IN  IF p.in = "code"
                 THEN [in |-> IF s \in Quote THEN s ELSE "code", esc |-> FALSE]
                 ELSE IF p.esc THEN [p EXCEPT !.esc = FALSE]
                 ELSE IF s = "\\" THEN [p EXCEPT !.esc = TRUE]
                 ELSE [in |-> IF s = p.in THEN "code" ELSE p.in, esc |-> FALSE]
  IN  c

\* The positions of opening quotes, and the text of the literal at one.
Openings(t) == LET c == Context(t)
               IN  {i \in DOMAIN t : t[i] \in Quote /\ c[i].in = "code"}

LiteralAt(t, i) ==
  LET c == Context(t)
      inside == {j \in DOMAIN t : j > i /\ \A k \in (i + 1)..(j + 1) : c[k].in = t[i]}
  IN  [n \in 1..Cardinality(inside) |-> t[i + n]]

IsCode(t, i) == t[i] \notin Word \cup Quote

\* A sink, then punctuation only, then a literal: its text is a link.  The
\* keyword is used up by the literal, so a second one is not.
LinksOf(t) ==
  {LiteralAt(t, i) : i \in {o \in Openings(t) :
     \E k \in 1..(o - 2) :
       /\ t[k] = Sink /\ Context(t)[k].in = "code"
       /\ \A j \in (k + 1)..(o - 1) : IsCode(t, j)}}

LinksAreLiterals(t) ==
  LET found == ScrapeJs(t).anchors IN
  /\ found \subseteq {LiteralAt(t, i) : i \in Openings(t)}
  /\ LinksOf(t) \ {<<>>} \subseteq found

\* A payload that stands alone between punctuation runs when the page loads.
PayloadsAreCode(t) ==
  LET c == Context(t)
      code == {i \in DOMAIN t : t[i] = Payload /\ c[i].in = "code"}
      alone == {i \in code : /\ i < Len(t) /\ IsCode(t, i + 1)
                             /\ i = 1 \/ IsCode(t, i - 1)}
      reported == ScrapeJs(t).payloads
  IN  Cardinality(alone) <= reported /\ reported <= Cardinality(code)
=============================================================================
