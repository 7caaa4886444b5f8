----------------------------- MODULE Extraction -----------------------------
(***************************************************************************)
(* What an uploaded file is taken for and what is read of it:              *)
(* crates/core/src/document.rs (MimeType), crates/extract/src/lib.rs and   *)
(* swedish.rs, crates/ocr/src/layout.rs and fill.rs.  A file is its        *)
(* leading signature, the class of each of its bytes ("a" ASCII, "l" the   *)
(* first byte of a two-byte letter, "c" the second one) and what a text in *)
(* it begins with.                                                         *)
(***************************************************************************)
EXTENDS Integers, Sequences, SequencesExt, FiniteSetsExt

CONSTANTS
  HeadBytes,   \* how much of a text sniff_text looks at
  MaxBytes,    \* ExtractionBudget::max_bytes
  Tolerance,   \* of rows_from_words, the share of a word's height, in tenths
  MaxAmount    \* i64::MAX, in miniature

-----------------------------------------------------------------------------
(***************************************************************************)
(* crates/extract/src/swedish.rs: the parser that reads figures off a line *)
(* of a Swedish statement.  A text is a sequence of pieces: a digit, a     *)
(* punctuation mark, a space of some kind, or a part of a word.  The parts *)
(* of words are cut so that one label of the table lies inside another     *)
(* exactly where its letters do.                                           *)
(***************************************************************************)

(* find_amounts *)

Digits == <<"0", "1", "2", "3", "4", "5", "6", "7", "8", "9">>
IsDigit(c) == c \in ToSet(Digits)
DigitValue(c) == (CHOOSE i \in DOMAIN Digits : Digits[i] = c) - 1

Separators == {" ", "nbsp", "thin", "."}

At(text, i) == IF i \in DOMAIN text THEN text[i] ELSE "end"

\* Where the sign in front of the digits at i stands, or i when there is none.
\* One space may lie between them, though not after a Unicode minus.
SignPosition(text, i) ==
  CASE At(text, i - 1) \in {"-", "minus", "("} -> i - 1
    [] At(text, i - 1) \in {" ", "nbsp"} /\ At(text, i - 2) \in {"-", "("} -> i - 2
    [] OTHER -> i

DigitsEnd(text, i) == Min({j \in i..(Len(text) + 1) : ~IsDigit(At(text, j))})

\* A separator is part of the number when exactly three digits follow it.
StartsGroup(text, j) ==
  /\ At(text, j) \in Separators
  /\ \A k \in 1..3 : IsDigit(At(text, j + k))
  /\ ~IsDigit(At(text, j + 4))

IntegerEnd(text, i) ==
  LET end[j \in i..(Len(text) + 1)] == IF StartsGroup(text, j) THEN end[j + 4] ELSE j
  IN end[DigitsEnd(text, i)]

HasDecimals(text, j) == At(text, j) = "," /\ IsDigit(At(text, j + 1))

Value(text, i, j) ==
  FoldLeft(LAMBDA n, c : IF IsDigit(c) THEN 10 * n + DigitValue(c) ELSE n, 0, SubSeq(text, i, j - 1))

\* i64 arithmetic of the release build.
Wrap(n) == ((n + MaxAmount + 1) % (2 * (MaxAmount + 1))) - (MaxAmount + 1)

\* The amount whose first digit is at i: where reading goes on, and the value,
\* absent when the digits are not an i64.
AmountAt(text, i) ==
  LET sign == SignPosition(text, i)
      point == IntegerEnd(text, i)
      end == IF HasDecimals(text, point) THEN DigitsEnd(text, point + 1) ELSE point
      negative == \/ sign < i
                  \/ At(text, end) \in {"-", "minus"}
                  \/ (At(text, end) = ")" /\ At(text, sign) = "(")
      whole == Value(text, i, point)
      up == HasDecimals(text, point) /\ DigitValue(text[point + 1]) >= 5
      value == IF up THEN Wrap(whole + 1) ELSE whole
  IN [end |-> end,
      read |-> IF whole > MaxAmount THEN <<>> ELSE <<IF negative THEN Wrap(-value) ELSE value>>]

find_amounts(text) ==
  LET from[i \in 1..(Len(text) + 1)] ==
        IF i > Len(text) THEN <<>>
        ELSE IF ~IsDigit(text[i]) THEN from[i + 1]
        ELSE AmountAt(text, i).read \o from[AmountAt(text, i).end]
  IN from[1]

-----------------------------------------------------------------------------
(* match_label.  The labels that lie inside another label, and those they    *)
(* lie in; every other label of the table is only matched by itself.         *)

Spaces == {" ", "nbsp", "thin", "bom"}

normalise_spacing(text) ==
  LET keep(i) == text[i] \notin Spaces \/ At(text, i - 1) \notin Spaces \cup {"end"}
      kept == SelectSeq([i \in DOMAIN text |-> IF keep(i) THEN text[i] ELSE "drop"], LAMBDA c : c # "drop")
      flat == [i \in DOMAIN kept |-> IF kept[i] \in Spaces THEN " " ELSE kept[i]]
  IN IF flat # <<>> /\ Last(flat) = " " THEN Front(flat) ELSE flat

ContainsText(text, part) ==
  \E at \in 0..(Len(text) - Len(part)) : SubSeq(text, at + 1, at + Len(part)) = part

Words(parts) == [i \in 1..(2 * Len(parts) - 1) |-> IF i % 2 = 1 THEN parts[(i + 1) \div 2] ELSE " "]
Label(text, bytes, kind) == [text |-> text, bytes |-> bytes, kind |-> kind]

Assets == "anläggningstillgångar"

LABELS == <<
  Label(<<"avskrivningar">>, 13, "depreciation"),
  Label(Words(<<"avskrivningar", "av", "materiella", "och">>) \o <<" ", "im", "materiella", " ", Assets>>,
        68, "depreciation"),
  Label(Words(<<"avskrivningar", "av", "materiella", Assets>>), 51, "depreciation"),
  Label(Words(<<"skatt", "på", "årets", "resultat">>), 25, "tax_expense"),
  Label(Words(<<"årets", "resultat">>), 15, "net_profit"),
  Label(<<"im", "materiella", " ", Assets>>, 36, "intangible_assets"),
  Label(Words(<<"materiella", Assets>>), 34, "fixed_assets"),
  Label(<<"inventarier", ",", " ", "verktyg">>, 39, "equipment"),
  Label(Words(<<"maskiner", "och", "inventarier">>), 24, "equipment"),
  Label(<<"inventarier">>, 11, "equipment"),
  Label(Words(<<"summa", "eget", "kapital", "och", "skulder">>), 30, "total_equity_and_liabilities"),
  Label(Words(<<"summa", "eget", "kapital">>), 18, "equity"),
  Label(<<"periodiseringsfond">>, 18, "tax_allocation_reserve"),
  Label(Words(<<"årets", "avsättning", "till", "periodiseringsfond">>), 42, "tax_allocation_reserve_this_year"),
  Label(<<"ackumulerade", " ", "över", "avskrivningar">>, 31, "excess_depreciation") >>

NOT_A_FACT == {Words(<<"ackumulerade", "avskrivningar">>),
               Words(<<"ingående", "avskrivningar">>),
               Words(<<"årets", "avskrivningar", "enligt", "plan", "på">>)}

\* The kind of the longest label in the line, the last of equally long ones.
match_label(text) ==
  LET line == normalise_spacing(text)
      found == {i \in DOMAIN LABELS : ContainsText(line, LABELS[i].text)}
      longest == {i \in found : \A j \in found : LABELS[j].bytes <= LABELS[i].bytes}
  IN IF found = {} \/ \E phrase \in NOT_A_FACT : ContainsText(line, phrase)
     THEN "none" ELSE LABELS[Max(longest)].kind

-----------------------------------------------------------------------------
(* detect_scale and extract_from_page.  "tkr" stands for any of the markers. *)

detect_scale(pages) == IF \E p \in ToSet(pages) : \E line \in ToSet(p) : ContainsText(line, <<"tkr">>)
                       THEN 1000 ELSE 1

\* The fact of the line at i, if any: the first amount on the line, or on the
\* next one when that has no label of its own.
FactAt(lines, i, scale) ==
  LET own == find_amounts(lines[i])
      below == IF i < Len(lines) /\ match_label(lines[i + 1]) = "none"
               THEN find_amounts(lines[i + 1]) ELSE <<>>
      from == IF own # <<>> THEN i ELSE i + 1
      amounts == IF own # <<>> THEN own ELSE below
      amount == Head(amounts) * scale
  IN IF \/ match_label(lines[i]) = "none"
        \/ amounts = <<>>
        \/ amount \notin (-MaxAmount - 1)..MaxAmount
     THEN <<>>
     ELSE <<[kind |-> match_label(lines[i]), amount |-> amount, line |-> i, from |-> from]>>

extract_from_page(lines, scale) == FlattenSeq([i \in DOMAIN lines |-> FactAt(lines, i, scale)])

-----------------------------------------------------------------------------
(* MimeType *)

IsUtf8(bytes) ==
  \A i \in DOMAIN bytes : /\ bytes[i] = "l" => i < Len(bytes) /\ bytes[i + 1] = "c"
                          /\ bytes[i] = "c" => i > 1 /\ bytes[i - 1] = "l"

Prefix(bytes, n) == SubSeq(bytes, 1, Min({n, Len(bytes)}))

OtherTypes == {"empty", "image", "ole", "binary", "octet-stream", "declared"}

\* Blanks in front of a text are skipped, then byte order marks, and nothing
\* that comes after those.
Opening(file) ==
  IF \E n \in 0..Len(file.lead) : \A i \in DOMAIN file.lead : file.lead[i] = (IF i <= n THEN "blank" ELSE "bom")
  THEN file.opens ELSE "text"

\* separators: for each of the first five lines, those it has, or -1 for a
\* blank line.
looks_like_delimited(separators) ==
  LET counts == SelectSeq(Prefix(separators, 5), LAMBDA n : n >= 0) IN
  /\ Len(counts) >= 2
  /\ counts[1] >= 2
  /\ \A i \in DOMAIN counts : counts[i] = counts[1]

sniff_text(file) ==
  IF ~IsUtf8(Prefix(file.bytes, HeadBytes)) THEN "octet-stream"
  ELSE IF Opening(file) \in {"xml", "html", "json"} THEN Opening(file)
  ELSE IF Opening(file) = "flagga" \/ file.sietyp THEN "sie"
  ELSE IF file.extension \in {"csv", "sie"} THEN file.extension
  ELSE IF looks_like_delimited(file.separators) THEN "csv"
  ELSE "plain"

inside_zip(file) ==
  IF "word/document.xml" \in file.members THEN "docx"
  ELSE IF "xl/workbook.xml" \in file.members THEN "xlsx"
  ELSE IF file.extension \in {"docx", "xlsx"} THEN file.extension
  ELSE "zip"

\* "binary" stands for every signature of a format that is only stored.
sniff(file) ==
  IF file.bytes = <<>> THEN "empty"
  ELSE IF file.magic \in {"pdf", "rtf", "ole", "image", "binary"} THEN file.magic
  ELSE IF file.magic = "zip" THEN inside_zip(file)
  ELSE sniff_text(file)

why_unreadable(mime) == mime = "zip" \/ mime \in OtherTypes
extracts_text(mime) == mime \notin OtherTypes \cup {"zip"}

\* The content type written to the row, and the type read back from it.  Any
\* other label stands for itself.
ContentTypes ==
  [pdf |-> "application/pdf", csv |-> "text/csv", xlsx |-> "application/sheet", docx |-> "application/document",
   sie |-> "application/sie", xml |-> "application/xml", html |-> "text/html", json |-> "application/json",
   rtf |-> "application/rtf", zip |-> "application/zip", plain |-> "text/plain"]
as_content_type(mime) == IF mime \in DOMAIN ContentTypes THEN ContentTypes[mime] ELSE mime

from_content_type(value) ==
  LET written == {mime \in DOMAIN ContentTypes : ContentTypes[mime] = value} IN
  CASE written # {} -> CHOOSE mime \in written : TRUE
    [] value = "application/csv" -> "csv"
    [] value = "text/sie" -> "sie"
    [] value = "text/xml" -> "xml"
    [] value = "text/rtf" -> "rtf"
    [] OTHER -> value

-----------------------------------------------------------------------------
(* extract_within.  pages: what the reader of that type makes of the bytes,  *)
(* each page a sequence of lines, or "error".                                *)

\* The cut moves back over the second bytes of letters.
CutAt(bytes) ==
  IF Len(bytes) <= MaxBytes THEN Len(bytes)
  ELSE Max({end \in 0..MaxBytes : end = 0 \/ bytes[end + 1] # "c"})

Blank(page) == \A line \in ToSet(page) : line = <<>>
Readable(pages) == {i \in DOMAIN pages : ~Blank(pages[i])}

Read(type, file, pages, reason) ==
  [ok |-> TRUE, type |-> type, pages |-> pages, reason |-> reason,
   unreadable |-> DOMAIN pages \ Readable(pages), ocr |-> {},
   scale |-> detect_scale(pages),
   truncated |-> IF Len(file.bytes) > MaxBytes THEN CutAt(file.bytes) ELSE -1]
NotRead(type) == [ok |-> FALSE, type |-> type]

extract_within(file, failed, pages) ==
  LET type == sniff(file) IN
  IF why_unreadable(type) THEN Read(type, file, <<>>, TRUE)
  ELSE IF type \in {"pdf", "docx", "xlsx"} /\ failed THEN NotRead(type)
  ELSE IF Readable(pages) = {} THEN NotRead(type)
  ELSE Read(type, file, pages, FALSE)

-----------------------------------------------------------------------------
(* layout.rs: the rows of a statement, rebuilt from words and where they     *)
(* stood.  A word is [text, left, top, bottom]; a text is a sequence of      *)
(* pieces as above.  The recogniser, engine.rs, is an input.                 *)

Minuses == {"-", "minus", "dash"}
Brackets == {"(", ")"}

TrimStart(text, chars) ==
  LET kept == {i \in DOMAIN text : text[i] \notin chars} IN
  IF kept = {} THEN <<>> ELSE SubSeq(text, Min(kept), Len(text))
Trim(text, chars) == Reverse(TrimStart(Reverse(TrimStart(text, chars)), chars))

is_amount_fragment(text) ==
  LET t == TrimStart(Trim(text, Brackets), Minuses) IN
  /\ \A i \in DOMAIN t : IsDigit(t[i]) \/ t[i] \in {" ", "nbsp", ",", "."}
  /\ \E i \in DOMAIN t : IsDigit(t[i])

is_lone_minus(text) == \E sign \in Minuses : Trim(text, {" "}) = <<sign>>

\* Twice the vertical middle, which keeps it a whole number.
Middle(word) == word.top + word.bottom
Height(word) == IF word.bottom >= word.top THEN word.bottom - word.top ELSE word.top - word.bottom

\* Two words share a row when their middles are within Tolerance of the taller.
SharesRow(anchor, word) ==
  LET apart == Middle(word) - Middle(anchor)
      distance == IF apart >= 0 THEN apart ELSE -apart
  IN 10 * distance <= 2 * Tolerance * Max({Height(anchor), Height(word)})

\* A stable sort by a key.
SortedBy(words, key(_)) ==
  LET before(i, j) == key(words[i]) < key(words[j]) \/ (key(words[i]) = key(words[j]) /\ i < j)
      place == [i \in DOMAIN words |-> Cardinality({j \in DOMAIN words : before(j, i)}) + 1]
  IN [p \in DOMAIN words |-> words[CHOOSE i \in DOMAIN words : place[i] = p]]

\* A word joins the last row when it shares the row of that row's first word.
Grouped(words) ==
  FoldLeft(LAMBDA rows, word :
             IF rows # <<>> /\ SharesRow(Last(rows)[1], word)
             THEN Append(Front(rows), Append(Last(rows), word))
             ELSE Append(rows, <<word>>),
           <<>>, words)

JoinWith(words, between) ==
  FoldLeft(LAMBDA text, word : IF text = <<>> THEN word.text ELSE text \o between \o word.text, <<>>, words)

\* The amount is the run of numbers the row ends with, and a sign before it.
assemble_row(words) ==
  LET row == SortedBy(words, LAMBDA w : w.left)
      numbers == {n \in 0..Len(row) : \A i \in (n + 1)..Len(row) : is_amount_fragment(row[i].text)}
      first == Min(numbers)
      adrift == first \in DOMAIN row /\ is_lone_minus(row[first].text)
      label == IF first < Len(row) /\ adrift THEN first - 1 ELSE first
      joined == JoinWith(SubSeq(row, label + 1, Len(row)), <<>>)
      negative == adrift \/ joined[1] \in Minuses \/ \E i \in DOMAIN joined : joined[i] \in Brackets
  IN [label |-> Trim(JoinWith(SubSeq(row, 1, label), <<" ">>), {" "}),
      digits |-> SelectSeq(joined, IsDigit),
      negative |-> label < Len(row) /\ negative]

rows_from_words(words) ==
  LET kept == SelectSeq(words, LAMBDA w : Trim(w.text, {" "}) # <<>>)
      grouped == Grouped(SortedBy(kept, Middle))
  IN [i \in DOMAIN grouped |-> assemble_row(grouped[i])]

\* fill.rs as_text: the line the parser reads.
as_text(rows) ==
  [i \in DOMAIN rows |->
     rows[i].label \o (IF rows[i].digits = <<>> THEN <<>>
                       ELSE <<" ", " ", " ", " ">> \o (IF rows[i].negative THEN <<"-">> ELSE <<>>)
                            \o rows[i].digits)]

-----------------------------------------------------------------------------
(* read_images: the text of an image, from the recognised rows.  The scale   *)
(* of the document stays what extraction made it.                            *)

read_images(document, hasReader, failed, page) ==
  LET result(filled, doc) == [filled |-> filled, document |-> doc] IN
  IF Readable(document.pages) # {} THEN result("not_needed", document)
  ELSE IF document.type # "image" THEN result("unsupported", document)
  ELSE IF ~hasReader THEN result("no_reader", document)
  ELSE IF failed THEN result("failed", document)
  ELSE IF Blank(page) THEN result("read", document)
  ELSE result("read", [document EXCEPT !.pages = <<page>>, !.unreadable = {},
                                       !.ocr = {1}, !.reason = FALSE])

facts(document) ==
  FlattenSeq([i \in DOMAIN document.pages |-> extract_from_page(document.pages[i], document.scale)])
=============================================================================
