---------------------------- MODULE ReadingChecks ---------------------------
(***************************************************************************)
(* What the reading of documents promises, on every small input:           *)
(* Extraction, and the evidence graph of Findings.                         *)
(***************************************************************************)
LOCAL INSTANCE Integers
LOCAL INSTANCE Sequences
LOCAL INSTANCE SequencesExt
LOCAL INSTANCE FiniteSets

Ext == INSTANCE Extraction WITH MaxAmount <- 99999, HeadBytes <- 4, MaxBytes <- 5, Tolerance <- 6
Gra == INSTANCE Findings WITH MaxOre <- 1, CostKinds <- {}, EconomicReference <- 1

-----------------------------------------------------------------------------
(* find_amounts *)

Figures == {0, 7, 45, 450, 1200, 45000, 12005}
Three(n) == [i \in 1..3 |-> Ext!Digits[1 + ((n \div 10^(3 - i)) % 10)]]
NoZeros(digits) == LET d == SelectInSeq(digits, LAMBDA c : c # "0") IN
                   IF d = 0 THEN <<"0">> ELSE SubSeq(digits, d, Len(digits))

\* A figure as a statement prints it: thousands set apart by sep.
Printed(n, sep) == IF n < 1000 THEN NoZeros(Three(n))
                   ELSE NoZeros(Three(n \div 1000)) \o sep \o Three(n % 1000)

Styles == {"plain", "minus", "minus space", "unicode", "brackets", "brackets space", "trailing"}
Signed(text, style) ==
  CASE style = "plain" -> text
    [] style = "minus" -> <<"-">> \o text
    [] style = "minus space" -> <<"-", " ">> \o text
    [] style = "unicode" -> <<"minus">> \o text
    [] style = "brackets" -> <<"(">> \o text \o <<")">>
    [] style = "brackets space" -> <<"(", " ">> \o text \o <<")">>
    [] style = "trailing" -> text \o <<"-">>
Meant(n, style) == IF style = "plain" THEN n ELSE -n

Groupings == {<<>>, <<" ">>, <<"nbsp">>, <<"thin">>, <<".">>}
Decimals == {<<>>, <<",", "4", "9">>, <<",", "5">>}

(* A figure is read back whichever way a statement groups, signs and rounds  *)
(* it, except for a Unicode minus set apart by a space, which Styles leaves  *)
(* out: that one is read as a positive amount (swedish.rs 194-200).          *)
ASSUME FiguresReadBack ==
  \A n \in Figures, sep \in Groupings, ore \in Decimals, style \in Styles :
    Ext!find_amounts(<<"skulder", " ">> \o Signed(Printed(n, sep) \o ore, style))
      = <<Meant(IF ore = <<",", "5">> THEN n + 1 ELSE n, style)>>

(* Two columns with a gap of two spaces are two amounts, whatever their      *)
(* signs: neither takes over the other's digits or minus.                    *)
ASSUME ColumnsStayApart ==
  \A n, m \in {7, 450, 45000}, sep \in {<<" ">>, <<".">>}, s, t \in Styles :
    Ext!find_amounts(Signed(Printed(n, sep), s) \o <<" ", " ">> \o Signed(Printed(m, sep), t))
      = <<Meant(n, s), Meant(m, t)>>

(* With a single space between the columns the first is read right unless    *)
(* the second begins with exactly three digits, which then join it: the      *)
(* three-digit rule alone does not keep year columns apart.                  *)
ASSUME OneSpaceNeedsAnUnevenGroup ==
  \A n, m \in Figures, sep \in {<<" ">>, <<>>} :
    LET read == Ext!find_amounts(Printed(n, sep) \o <<" ">> \o Printed(m, sep)) IN
    (read # <<>> /\ Head(read) = n) <=> m \notin 100..999

(* A figure too long for an i64 is no figure: it never wraps into another.   *)
ASSUME OversizeIsNotRead ==
  \A c \in {"1", "9"} : /\ Ext!find_amounts([i \in 1..6 |-> c]) = <<>>
                        /\ Len(Ext!find_amounts([i \in 1..5 |-> c])) = 1

-----------------------------------------------------------------------------
(* match_label, extract_from_page *)

Respaced(text, space) == FlattenSeq([i \in DOMAIN text |-> IF text[i] = " " THEN space ELSE <<text[i]>>])

(* No label of the table is shadowed by one that lies inside it, however its *)
(* words are spaced.                                                         *)
ASSUME LabelsAreNotShadowed ==
  \A i \in DOMAIN Ext!LABELS, space \in {<<" ">>, <<"nbsp">>, <<" ", "thin">>} :
    Ext!match_label(space \o Respaced(Ext!LABELS[i].text, space)) = Ext!LABELS[i].kind

(* A line that names an accumulated or opening balance yields nothing, even  *)
(* when it holds a longer label besides.                                     *)
ASSUME NotAFactWins ==
  \A phrase \in Ext!NOT_A_FACT, i \in DOMAIN Ext!LABELS :
    Ext!match_label(Ext!LABELS[i].text \o <<" ">> \o phrase) = "none"

Line1 == <<"inventarier">>
Line2 == <<"periodiseringsfond", " ", "4", "5">>
Lines == {Line1, Line2, <<"7">>, <<>>, <<"text">>, <<"ingående", " ", "avskrivningar", " ", "9">>}
Pages == UNION {[1..n -> Lines] : n \in 0..3}
Distinct(s) == \A i, j \in DOMAIN s : i # j => s[i] # s[j]

(* An amount is read for one label only: no two facts of a page take theirs  *)
(* from the same line, and one that comes from the next line is only taken   *)
(* when that line has no label.                                              *)
ASSUME AmountsAreReadOnce ==
  \A page \in Pages :
    LET facts == Ext!extract_from_page(page, 1) IN
    /\ Distinct([i \in DOMAIN facts |-> facts[i].from])
    /\ \A i \in DOMAIN facts :
         facts[i].from # facts[i].line => Ext!match_label(page[facts[i].from]) = "none"

(* A line with a label and an amount always yields its fact, unless the      *)
(* scale takes it past an i64; then it yields none.                          *)
ASSUME LabelledFiguresAreFacts ==
  \A page \in Pages, scale \in {1, 1000, 10000} :
    {f.line : f \in {g \in ToSet(Ext!extract_from_page(page, scale)) : g.from = g.line}}
      = {i \in DOMAIN page : page[i] = Line2 /\ 45 * scale <= 99999}

-----------------------------------------------------------------------------
(* MimeType, extract_within, read_images *)

Bytes == UNION {[1..n -> {"a", "l", "c"}] : n \in 0..7}
Texts == {b \in Bytes : Ext!IsUtf8(b)}
File(magic, bytes, lead, opens, sietyp, separators, members, extension) ==
  [magic |-> magic, bytes |-> bytes, lead |-> lead, opens |-> opens, sietyp |-> sietyp,
   separators |-> separators, members |-> members, extension |-> extension]
TextFile(bytes) == File("none", bytes, <<>>, "text", FALSE, <<>>, {}, "none")

(* Cutting a long text never leaves half a letter, and costs no more than    *)
(* the letter it would have cut.                                             *)
ASSUME CutKeepsLetters ==
  \A b \in Texts : /\ Ext!IsUtf8(Ext!Prefix(b, Ext!CutAt(b)))
                   /\ Len(b) > 5 => Ext!CutAt(b) \in 4..5

(* A text is taken for binary exactly when the look at its head ends inside  *)
(* a letter: the prefix that sniff_text calls enough is not.                 *)
ASSUME TextUnlessALetterIsSplit ==
  \A b \in Texts \ {<<>>} :
    Ext!sniff(TextFile(b)) = "octet-stream" <=> Len(b) > 4 /\ b[4] = "l"

Files == [magic : {"none", "zip", "pdf", "image"}, bytes : {<<>>, <<"a">>, <<"c">>, <<"l", "c">>},
          lead : {<<>>, <<"blank">>, <<"bom">>, <<"blank", "bom">>, <<"bom", "blank">>},
          opens : {"text", "xml", "json", "flagga"}, sietyp : BOOLEAN,
          separators : {<<>>, <<2, 2>>, <<2, -1, 2>>, <<2, 1>>, <<1, 1>>},
          members : {{}, {"word/document.xml"}}, extension : {"none", "csv", "docx"}]

(* The name of a file changes what it is taken for only where its bytes do   *)
(* not say: an archive without an Office member, or a text that opens with   *)
(* no marker.                                                                *)
ASSUME ContentBeforeName ==
  \A f \in Files : Ext!sniff(f) # Ext!sniff([f EXCEPT !.extension = "none"]) =>
    \/ f.magic = "zip" /\ f.members = {}
    \/ f.magic = "none" /\ Ext!Opening(f) = "text" /\ ~f.sietyp

(* The type stored with a document is the type it is read as.                *)
ASSUME StoredTypeReadsBack ==
  \A mime \in DOMAIN Ext!ContentTypes \cup Ext!OtherTypes :
    Ext!from_content_type(Ext!as_content_type(mime)) = mime

Blank == <<<<>>>>
Full == <<<<"inventarier", " ", "4", "5">>, <<"tkr">>>>

(* Whatever was uploaded, a document that comes back either holds text or    *)
(* says why not, lists every blank page, and says where it was cut.          *)
ASSUME NothingIsSilentlyEmpty ==
  \A f \in {g \in Files : g.bytes = <<>>}, b \in {<<>>, <<"a">>, <<"c">>, [i \in 1..6 |-> "a"]}, failed \in BOOLEAN,
     pages \in {<<>>, <<Blank>>, <<Full>>, <<Blank, Full>>} :
    LET doc == Ext!extract_within([f EXCEPT !.bytes = b], failed, pages) IN
    doc.ok => /\ doc.reason <=> Ext!Readable(doc.pages) = {}
              /\ doc.reason <=> ~Ext!extracts_text(doc.type)
              /\ doc.unreadable = {i \in DOMAIN doc.pages : doc.pages[i] = Blank}
              /\ doc.truncated = (IF Len(b) = 6 THEN 5 ELSE -1)

Image == Ext!extract_within([TextFile(<<"a">>) EXCEPT !.magic = "image"], FALSE, <<>>)

(* A text read off pixels is marked as such and no longer as unread, and an  *)
(* image that yields nothing keeps its reason.  Its scale stays kronor: a    *)
(* note on the image that amounts are in thousands changes nothing.          *)
ASSUME PixelsAreMarked ==
  \A hasReader, failed \in BOOLEAN, page \in {Blank, Full} :
    LET read == Ext!read_images(Image, hasReader, failed, page)
        doc == read.document
    IN /\ doc.reason <=> doc.ocr = {}
       /\ doc.ocr # {} <=> (hasReader /\ ~failed /\ page = Full)
       /\ doc.ocr # {} => Ext!facts(doc)[1].amount = 45 /\ Ext!detect_scale(doc.pages) = 1000

-----------------------------------------------------------------------------
(* rows_from_words *)

Word(text, left, top) == [text |-> text, left |-> left, top |-> top, bottom |-> top + 10]
Orders(s) == {[i \in DOMAIN s |-> s[p[i]]] : p \in {q \in [DOMAIN s -> DOMAIN s] : Distinct(q)}}

AmountWords == {<<<<"4", "5">>>>, <<<<"4">>, <<"5">>>>, <<<<"-", "4", "5">>>>, <<<<"dash">>, <<"4", "5">>>>,
                <<<<"(", "4", "5", ")">>>>, <<<<"(", "4">>, <<"5", ")">>>>}
IsNegative(words) == words[1] # <<"4", "5">> /\ words[1] # <<"4">>

Statement(first, second, tilt) ==
  <<Word(<<"inventarier">>, 0, 0), Word(<<"periodiseringsfond">>, 0, 20)>>
    \o [i \in DOMAIN first |-> Word(first[i], 50 + 10 * i, tilt)]
    \o [i \in DOMAIN second |-> Word(second[i], 50 + 10 * i, 20 - tilt)]

(* In whichever order the recogniser returns the words, and with the page    *)
(* tilted by up to the tolerance, each label is paired with the amount of    *)
(* its own row, and the parser reads that amount with the sign it had.       *)
ASSUME PairsSurviveTheRecogniser ==
  \A a, b \in AmountWords, tilt \in {0, 6} :
    \A words \in (IF Len(a) + Len(b) = 2 THEN Orders(Statement(a, b, tilt))
                  ELSE {Statement(a, b, tilt), Reverse(Statement(a, b, tilt))}) :
      LET facts == Ext!extract_from_page(Ext!as_text(Ext!rows_from_words(words)), 1) IN
      [i \in DOMAIN facts |-> <<facts[i].kind, facts[i].amount>>]
        = <<<<"equipment", IF IsNegative(a) THEN -45 ELSE 45>>,
            <<"tax_allocation_reserve", IF IsNegative(b) THEN -45 ELSE 45>>>>

(* A page tilted past the tolerance falls apart into rows that pair nothing, *)
(* rather than rows that pair the wrong things.                              *)
ASSUME TiltedRowsPairNothing ==
  LET rows == Ext!rows_from_words(Statement(<<<<"4", "5">>>>, <<<<"7">>>>, 7)) IN
  \A i \in DOMAIN rows : rows[i].label = <<>> \/ rows[i].digits = <<>>

(* The numbers a row ends with are one amount: a comparison year in a second *)
(* column is run together with the first.  A trailing minus keeps the amount *)
(* from being seen as one, yet the parser finds it, with its sign, in what   *)
(* is then the label.                                                        *)
ASSUME OneAmountPerRow ==
  LET read(words) ==
        Ext!extract_from_page(
          Ext!as_text(Ext!rows_from_words([i \in DOMAIN words |-> Word(words[i], 10 * i, 0)])), 1)[1].amount
  IN /\ read(<<<<"inventarier">>, <<"4", "5">>, <<"7">>>>) = 457
     /\ read(<<<<"inventarier">>, <<"4", "5", "-">>>>) = -45

-----------------------------------------------------------------------------
(* the evidence graph *)

Items == {Gra!Node("fact", 1), Gra!Node("rule", 1), Gra!Node("rule", 2), Gra!Node("model_run", 1)}
Chains == {SetToSeq(items) : items \in SUBSET Items}
Built(c1, c2) == Gra!add_finding(Gra!add_finding(Gra!EmptyGraph, 1, 1, c1), 2, 2, c2)
Holding(c1, c2, item) == {f \in 1..2 : item \in ToSet(IF f = 1 THEN c1 ELSE c2)}

(* The blast radius of a piece of evidence is the findings whose chains hold *)
(* it and their analyses, no more and no fewer, and a finding's provenance   *)
(* is its chain; the order in which findings are added makes no difference.  *)
ASSUME BlastRadiusIsExact ==
  \A c1, c2 \in Chains :
    LET g == Built(c1, c2) IN
    /\ \A item \in Items : /\ Gra!affected_findings(g, item) = Holding(c1, c2, item)
                           /\ Gra!affected_analyses(g, item) = Holding(c1, c2, item)
    /\ Gra!provenance(g, Gra!Finding(1)) = ToSet(c1)
    /\ \A n, m \in g.nodes : m \in Gra!dependents(g, n) <=> n \in Gra!provenance(g, m)
    /\ \A n \in g.nodes : n \notin Gra!dependents(g, n)
    /\ g = Gra!add_finding(Gra!add_finding(Gra!EmptyGraph, 2, 2, c2), 1, 1, c1)

(* A finding is anchored when a page carries it; a model's judgement never   *)
(* anchors one.                                                              *)
ASSUME OnlyPagesAnchor ==
  \A c1, c2 \in Chains :
    Gra!finding_is_document_anchored(Built(c1, c2), 1) <=> Gra!Node("fact", 1) \in ToSet(c1)

(* A graph that was saved answers as before once it is reindexed, and until  *)
(* then says that nothing rests on anything.                                 *)
ASSUME ReindexRestores ==
  \A c1, c2 \in Chains :
    /\ Gra!reindex(Gra!Reloaded(Built(c1, c2))) = Built(c1, c2)
    /\ \A item \in Items : Gra!dependents(Gra!Reloaded(Built(c1, c2)), item) = {}
=============================================================================
