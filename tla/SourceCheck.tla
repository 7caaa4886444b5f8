----------------------------- MODULE SourceCheck -----------------------------
(***************************************************************************)
(* crates/rules/src/verify.rs: whether a retrieved page still says what a  *)
(* rule assumes.  A page is a sequence of the pieces the code tells apart, *)
(* so that what the code does with tags, entities, digits and bytes can be *)
(* compared with what a reader would say of the same page.                 *)
(***************************************************************************)
EXTENDS Integers, Sequences, SequencesExt, FiniteSetsExt

CONSTANT LocatorSpan   \* LOCATOR_SPAN, in bytes

-----------------------------------------------------------------------------
(* strip_markup.  "<script" and "</script" stand for either of the two       *)
(* elements that are dropped with their content, "<" for any other opening,  *)
(* ">" for the end of a tag.  The rest of the text may itself contain ">".   *)

FirstAt(text, from, piece) ==
  LET at == {i \in from..Len(text) : text[i] = piece} IN
  IF at = {} THEN 0 ELSE Min(at)

\* Where reading goes on after the piece at i: behind the close tag of an
\* element that is dropped, behind a tag, or nowhere when a tag has no end.
After(text, i) ==
  LET close == FirstAt(text, i, "</script")
      end == FirstAt(text, i, ">")
      closed == FirstAt(text, close, ">")
  IN CASE text[i] = "<script" ->
            (IF close = 0 THEN Len(text) + 1 ELSE IF closed = 0 THEN close + 1 ELSE closed + 1)
       [] text[i] \in {"<", "</script"} -> IF end = 0 THEN Len(text) + 1 ELSE end + 1
       [] OTHER -> i + 1

\* The positions the loop stops at, as a function of where it starts.
RECURSIVE Visited(_, _)
Visited(text, i) == IF i > Len(text) THEN <<>> ELSE <<i>> \o Visited(text, After(text, i))

Unterminated(text, i) == text[i] \in {"<", "</script"} /\ FirstAt(text, i, ">") = 0

Space == " "

\* A tag becomes a space; one without an end becomes nothing.
Stripped(text) ==
  LET Shown(i) == IF Unterminated(text, i) THEN <<>>
                  ELSE IF text[i] \in {"<script", "<", "</script"} THEN <<Space>>
                  ELSE <<text[i]>>
  IN FlattenSeq([k \in DOMAIN Visited(text, 1) |-> Shown(Visited(text, 1)[k])])

collapse_whitespace(text) ==
  LET Kept(i) == text[i] # Space \/ (i < Len(text) /\ i > 1 /\ text[i - 1] # Space)
      inner == SetToSortSeq({i \in DOMAIN text : Kept(i)}, <)
      out == [k \in DOMAIN inner |-> text[inner[k]]]
      trail == out # <<>> /\ out[Len(out)] = Space
  IN IF trail THEN Front(out) ELSE out

-----------------------------------------------------------------------------
(* decode_entities.  "&x;" is a named entity for the letter x, "&amp;" the   *)
(* ampersand's, "&" an ampersand, "x;" and "#5;" the tails of an entity that *)
(* has lost its ampersand, "&#5;" a numeric entity for the digit 5.          *)

DecodeNamed(text) ==
  [i \in DOMAIN text |-> CASE text[i] = "&x;" -> "x" [] text[i] = "&amp;" -> "&" [] OTHER -> text[i]]

\* After the ampersands are back, "&" and "#5;" side by side read as "&#5;".
decode_numeric(text) ==
  LET Joined(i) == text[i] = "&" /\ i < Len(text) /\ text[i + 1] = "#5;"
      Out(i) == CASE Joined(i) -> <<>>
                  [] text[i] = "&#5;" \/ (i > 1 /\ text[i] = "#5;" /\ Joined(i - 1)) -> <<"5">>
                  [] OTHER -> <<text[i]>>
  IN FlattenSeq([i \in DOMAIN text |-> Out(i)])

decode_entities(text) == decode_numeric(DecodeNamed(text))

strip_markup(text) == collapse_whitespace(decode_entities(Stripped(text)))

\* fold: the differences that are not differences, of space, dash and case.
FoldPiece(p) ==
  CASE p \in {"nbsp", "thin"} -> Space [] p \in {"ndash", "minus"} -> "-" [] p = "W" -> "w"
    [] OTHER -> p

fold(text) == collapse_whitespace([i \in DOMAIN text |-> FoldPiece(text[i])])

-----------------------------------------------------------------------------
(* The locator.  Digits are pieces of their own; "kap" and "§" are markers;  *)
(* "w" is an ASCII letter and "a" with a ring is a letter of two bytes, like *)
(* the marker "§".                                                           *)

Digits == {"0", "1", "5"}

Bytes(piece) == CASE piece = "kap" -> 3 [] piece \in {"§", "ring"} -> 2 [] OTHER -> 1

BytesTo(text, i) == FoldLeft(LAMBDA sum, p : sum + Bytes(p), 0, SubSeq(text, 1, i))

\* The digits at i..j stand for the whole number, as no digit adjoins them.
StandsAlone(text, i, j) ==
  /\ i = 1 \/ text[i - 1] \notin Digits
  /\ j = Len(text) \/ text[j + 1] \notin Digits

\* find_number_then: where the first `number`, blanks or points, `marker` ends
\* when the search begins at `from`; 0 for none.  The digit before `from` is
\* not seen, and neither is any after the slice the search is given.
find_number_then(text, from, number, marker) ==
  LET slice == SubSeq(text, from, Len(text))
      Ends == {m \in DOMAIN slice :
                 /\ slice[m] = marker
                 /\ \E i, j \in 1..m - 1 :
                      /\ SubSeq(slice, i, j) = number /\ StandsAlone(slice, i, j)
                      /\ \A k \in j + 1..m - 1 : slice[k] \in {Space, "."}}
  IN IF Ends = {} THEN 0 ELSE from - 1 + Min(Ends)

\* The places where the search for the chapter stops, in turn.
RECURSIVE ChapterEnds(_, _, _)
ChapterEnds(text, from, chapter) ==
  LET at == find_number_then(text, from, chapter, "kap") IN
  IF at = 0 THEN <<>> ELSE <<at>> \o ChapterEnds(text, at + 1, chapter)

\* The window behind a chapter: LocatorSpan bytes, or to the end.
InWindow(text, after, m) == BytesTo(text, m) - BytesTo(text, after) <= LocatorSpan

WindowEnd(text, after) ==
  Max({after} \cup {m \in after + 1..Len(text) : InWindow(text, after, m)})

\* Slicing a string inside a character of two bytes panics.
SplitsACharacter(text, after) ==
  LET last == WindowEnd(text, after) IN
  last < Len(text) /\ BytesTo(text, last) - BytesTo(text, after) < LocatorSpan
    /\ text[last + 1] \in {"§", "ring"}

ParagraphBehind(text, after, paragraph) ==
  find_number_then(SubSeq(text, 1, WindowEnd(text, after)), after + 1, paragraph, "§") # 0

\* For a locator that names a chapter and a paragraph: the chapters are tried
\* in turn until one answers.
BothPresent(text, chapter, paragraph) ==
  LET ends == ChapterEnds(text, 1, chapter)
      Answers(k) == SplitsACharacter(text, ends[k]) \/ ParagraphBehind(text, ends[k], paragraph)
      first == {k \in DOMAIN ends : Answers(k) /\ \A j \in 1..k - 1 : ~Answers(j)}
  IN IF first = {} THEN "no"
     ELSE IF SplitsACharacter(text, ends[Min(first)]) THEN "panic" ELSE "yes"

\* The number a locator gives for a marker: the last digits before the first.
number_before(locator, marker) ==
  LET at == FirstAt(locator, 1, marker)
      digits == {i \in 1..at - 1 : locator[i] \in Digits}
      first == Min({i \in digits : i..Max(digits) \subseteq digits})
  IN IF digits = {} THEN <<>> ELSE SubSeq(locator, first, Max(digits))

\* "yes", "no" or "panic"; a locator that names neither has nothing to find.
locator_present(page, locator) ==
  LET text == fold(page)
      chapter == number_before(locator, "kap")
      paragraph == number_before(locator, "§")
      Found(number, marker) == IF find_number_then(text, 1, number, marker) # 0 THEN "yes" ELSE "no"
  IN CASE chapter # <<>> /\ paragraph # <<>> -> BothPresent(text, chapter, paragraph)
       [] chapter = <<>> /\ paragraph # <<>> -> Found(paragraph, "§")
       [] chapter # <<>> /\ paragraph = <<>> -> Found(chapter, "kap")
       [] OTHER -> "yes"

-----------------------------------------------------------------------------
\* Source::check on what the page says of the document, the locator and the
\* operative strings; the note names the first that is wrong.
check(source, said) ==
  IF source.collection = "SFS" /\ source.document # "" /\ ~said.document
  THEN [state |-> "mismatch", note |-> "document"]
  ELSE IF ~said.locator THEN [state |-> "mismatch", note |-> "locator"]
  ELSE IF ~(source.must_contain \subseteq said.strings)
  THEN [state |-> "mismatch", note |-> "strings"]
  ELSE [state |-> "verified", note |-> "none"]
=============================================================================
