--------------------------- MODULE MCSourceSweep ---------------------------
(***************************************************************************)
(* SourceSweep for TLC: two workers, two sources that can be fetched and   *)
(* one that has no url; and SourceCheck, which decides what a fetched page *)
(* is worth, over all short pages.                                         *)
(***************************************************************************)
EXTENDS SourceSweep, Sequences, SequencesExt

C == INSTANCE SourceCheck WITH LocatorSpan <- 4

-----------------------------------------------------------------------------
(* Markup *)

Pages == SeqOf({"<script", "</script", "<", ">", "w"}, 6)

\* A reader sees a letter when it is in no dropped element and in no tag; the
\* definition walks the page once, with the state a reader would be in.
Reading(html) ==
  FoldLeft(LAMBDA acc, p :
             CASE acc.in = "script" -> [acc EXCEPT !.in = IF p = "</script" THEN "tag" ELSE @]
               [] acc.in = "tag" -> [acc EXCEPT !.in = IF p = ">" THEN "text" ELSE @]
               [] p = "<script" -> [acc EXCEPT !.in = "script"]
               [] p \in {"<", "</script"} -> [acc EXCEPT !.in = "tag"]
               [] OTHER -> [acc EXCEPT !.seen = Append(@, p)],
           [in |-> "text", seen |-> <<>>], html).seen

Letters(text) == SelectSeq(text, LAMBDA p : p = "w")

\* What is left of a page is what a reader sees: nothing of a script counts
\* towards a figure a rule depends on (a page that ends inside a close tag
\* aside, where the code takes up the rest).
ASSUME StripShowsWhatIsRead ==
  \A html \in Pages :
    (\A i \in DOMAIN html : html[i] = "</script" => \E j \in i..Len(html) : html[j] = ">")
      => Letters(C!strip_markup(html)) = Letters(Reading(html))

\* No two spaces, none at either end; so a second pass changes nothing.
ASSUME StripCollapses ==
  \A html \in Pages :
    LET out == C!collapse_whitespace(C!Stripped(html)) IN
      /\ C!collapse_whitespace(out) = out
      /\ \A i \in DOMAIN out : out[i] = " " => i \notin {1, Len(out)} /\ out[i + 1] # " "

\* A named entity is decoded once.  A numeric one behind an escaped ampersand
\* is decoded twice, into a digit the page never contained.
ASSUME EntitiesDecodedOnce ==
  /\ C!decode_entities(<<"&amp;", "x;">>) = <<"&", "x;">>
  /\ C!decode_entities(<<"&amp;", "#5;">>) = <<"5">>

-----------------------------------------------------------------------------
(* The locator 1 kap. 5 §, in every short text *)

Locator == <<"1", " ", "kap", ".", " ", "5", " ", "§">>

Texts == SeqOf({"1", "5", " ", "kap", "§", "ring"}, 5)

\* Mentioned: the number standing alone in the whole text, then its marker.
Mention(text, digit, marker, i, m) ==
  /\ text[i] = digit /\ text[m] = marker /\ i < m
  /\ i = 1 \/ text[i - 1] \notin C!Digits
  /\ \A k \in i + 1..m - 1 : text[k] = " "

Cited(text) ==
  \E i, m, j, n \in DOMAIN text :
    /\ Mention(text, "1", "kap", i, m) /\ Mention(text, "5", "§", j, n)
    /\ m < j /\ C!BytesTo(text, n) - C!BytesTo(text, m) <= 4

\* The search finds the paragraph behind any of the chapter's mentions, and
\* never the paragraph of another number or further off than the span; but a
\* window that ends inside a two-byte letter stops the search with a panic,
\* on a page that cites the paragraph and on one that does not.
ASSUME LocatorFindsTheCitation ==
  LET answer == [t \in Texts |-> C!locator_present(t, Locator)] IN
  /\ \A t \in Texts : answer[t] # "panic" => (answer[t] = "yes" <=> Cited(C!fold(t)))
  /\ \A cited \in BOOLEAN : \E t \in Texts : answer[t] = "panic" /\ (Cited(C!fold(t)) <=> cited)

\* Formatting is not substance: folding twice is folding once, and a page set
\* with other spaces, dashes and capitals folds to the same text.
ASSUME FoldForgetsFormatting ==
  \A t \in SeqOf({"w", "W", " ", "nbsp", "minus", "5"}, 5) :
    LET plain == [i \in DOMAIN t |-> C!FoldPiece(t[i])] IN
      C!fold(C!fold(t)) = C!fold(t) /\ C!fold(plain) = C!fold(t)

\* A locator of a range, or of one mark only, or of neither.
ASSUME LocatorForms ==
  /\ C!number_before(<<"1", "5", " ", "kap", ".", " ", "5", "-", "1", " ", "§">>, "kap") = <<"1", "5">>
  /\ C!number_before(<<"kap", " ", "5">>, "kap") = <<>>
  /\ C!locator_present(<<"w">>, <<"w", "w">>) = "yes"
  /\ C!locator_present(<<"5", ".", " ", "§">>, <<"5", "§">>) = "yes"
  /\ C!locator_present(<<"1", "5", "§">>, <<"5", "§">>) = "no"

\* The document is asked about before the locator and the locator before the
\* strings; a source of another collection is not asked for its document.
ASSUME CheckNamesTheFirstFault ==
  \A said \in [document : BOOLEAN, locator : BOOLEAN, strings : SUBSET {"25 procent", "avdrag"}],
     collection \in {"SFS", "web"} :
    LET out == C!check([collection |-> collection, document |-> "1999:1229",
                        must_contain |-> {"25 procent"}], said)
    IN /\ out.note = "document" <=> (collection = "SFS" /\ ~said.document)
       /\ out.note = "strings" => said.locator
       /\ out.state = "verified" => said.locator /\ "25 procent" \in said.strings
=============================================================================
