------------------------------- MODULE FactSet -------------------------------
(***************************************************************************)
(* Amounts, crates/core/src/money.rs, and the facts an analysis rests on:  *)
(* crates/core/src/fact.rs and build_fact_set of                           *)
(* crates/pipeline/src/facts.rs.  A document is a record                   *)
(* with its pages that are blank or were read by OCR, and its lines, each  *)
(* a kind, an amount in kronor and a page.  Facts keep the order in which  *)
(* they were inserted; the index names, for every kind, the position of    *)
(* the canonical one.                                                      *)
(***************************************************************************)
EXTENDS Integers, Sequences, SequencesExt

CONSTANTS MaxOre,         \* i64::MAX, in miniature
          CostKinds       \* the kinds FactKind::is_cost answers yes for

ASSUME MaxOreAssumption == MaxOre \in Nat \ {0}

-----------------------------------------------------------------------------
(* What the standard library of the code has.                              *)

Has(rec, field) == field \in DOMAIN rec

\* The elements of S in the order R, a strict and total one given by its pairs.
Ranked(S, R) ==
  [n \in 1..Cardinality(S) |->
     CHOOSE x \in S : Cardinality({y \in S : <<y, x>> \in R}) = n - 1]

Ascending(I) == {p \in I \X I : p[1] < p[2]}

\* Iterator::filter: what stands at the positions I of a sequence, in its order.
Picked(s, I) == LET order == Ranked(I, Ascending(I)) IN [n \in DOMAIN order |-> s[order[n]]]

\* Vec::dedup: only neighbours are compared, so a repetition further on stays.
Dedup(s) == Picked(s, {i \in DOMAIN s : i = 1 \/ s[i - 1] # s[i]})

-----------------------------------------------------------------------------
(***************************************************************************)
(* Amounts of crates/core/src/money.rs: whole öre in a signed integer of   *)
(* fixed width.  -MaxOre - 1 stands for i64::MIN.  A checked operation     *)
(* answers a record that says whether it overflowed; plain `+` wraps, as   *)
(* it does in the release build, which does not turn overflow checks on.   *)
(***************************************************************************)

Ok(v) == [ok |-> TRUE, v |-> v]

Err(e) == [ok |-> FALSE, e |-> e]

\* A failed operand is the result, the left one's error before the right one's.
Both(x, y, Op(_, _)) == IF ~x.ok THEN x ELSE IF ~y.ok THEN y ELSE Op(x.v, y.v)

Representable(n) == -MaxOre - 1 <= n /\ n <= MaxOre

Checked(n) == IF Representable(n) THEN Ok(n) ELSE Err("overflow")

Wrapped(n) == ((n + MaxOre + 1) % (2 * (MaxOre + 1))) - (MaxOre + 1)

Saturated(n) == IF n > MaxOre THEN MaxOre
                ELSE IF n < -MaxOre - 1 THEN -MaxOre - 1 ELSE n

\* Integer division that truncates towards zero, as Rust's `/` does.
Quotient(n, d) == IF n >= 0 THEN n \div d ELSE -((-n) \div d)

\* Halves away from zero; adding the half is an unchecked `+`.
div_round_half_away(n, d) ==
  IF n >= 0 THEN Quotient(Wrapped(n + d \div 2), d)
            ELSE Quotient(Wrapped(n - d \div 2), d)

from_sek(sek) == Checked(sek * 100)

mul_basis_points(m, bp) ==
  IF Representable(m * bp) THEN Ok(div_round_half_away(m * bp, 10000))
                           ELSE Err("overflow")

checked_abs(m) == Checked(IF m < 0 THEN -m ELSE m)

LesserOf(a, b) == IF a <= b THEN a ELSE b

GreaterOf(a, b) == IF a >= b THEN a ELSE b

\* MoneyRange: an estimate is an interval whose ends are in order.
RangeOf(a, b) == [low |-> LesserOf(a, b), high |-> GreaterOf(a, b)]

ZeroRange == [low |-> 0, high |-> 0]

IsZeroRange(r) == r.low = 0 /\ r.high = 0

AddRanges(r, s) ==
  IF Representable(r.low + s.low) /\ Representable(r.high + s.high)
    THEN Ok([low |-> r.low + s.low, high |-> r.high + s.high])
    ELSE Err("overflow")

Midpoint(r) == div_round_half_away(Saturated(r.low + r.high), 2)

-----------------------------------------------------------------------------
(* FactSet *)

EmptyFactSet == [facts |-> <<>>, index |-> <<>>]

Kinds(set) == DOMAIN set.index

\* The better supported reading stays canonical; an equal one does not move it.
KeepsCanonical(set, fact) ==
  /\ fact.kind \in Kinds(set)
  /\ set.facts[set.index[fact.kind]].trust >= fact.trust

Insert(set, fact) ==
  LET facts == Append(set.facts, fact) IN
  [facts |-> facts,
   index |-> IF KeepsCanonical(set, fact)
               THEN set.index
               ELSE [k \in Kinds(set) \union {fact.kind} |->
                       IF k = fact.kind THEN Len(facts) ELSE set.index[k]]]

Get(set, kind) == set.facts[set.index[kind]]

Value(set, kind) == Get(set, kind).value

missing_among(set, kinds) == Picked(kinds, {i \in DOMAIN kinds : kinds[i] \notin Kinds(set)})

Positions(set, kind) == {i \in DOMAIN set.facts : set.facts[i].kind = kind}

\* Best supported first; the sort is stable, so ties keep their order.
all_readings(set, kind) ==
  LET Before(i, j) == \/ set.facts[i].trust > set.facts[j].trust
                      \/ set.facts[i].trust = set.facts[j].trust /\ i < j
      order == SetToSortSeq(Positions(set, kind), Before)
  IN  [n \in DOMAIN order |-> set.facts[order[n]]]

\* The first reading of a kind, canonical or not, against each later one.
contradictions(set) ==
  {[kind |-> set.facts[q[1]].kind, a |-> set.facts[q[1]].value, b |-> set.facts[q[2]].value] :
     q \in {p \in (DOMAIN set.facts) \X (DOMAIN set.facts) :
        /\ set.facts[p[1]].kind = set.facts[p[2]].kind
        /\ set.facts[p[1]].value # set.facts[p[2]].value
        /\ \A i \in Positions(set, set.facts[p[1]].kind) : p[1] <= i}}

(***************************************************************************)
(* build_fact_set.  A line of a text layer is trusted 0.95, one read off   *)
(* the pixels 0.45, both scaled by the share of pages that were readable.  *)
(* Costs are stored as magnitudes; an amount that does not fit is dropped. *)
(***************************************************************************)
readable_percent(doc) ==
  IF doc.pages = 0 THEN 0 ELSE (100 * (doc.pages - Cardinality(doc.blank))) \div doc.pages

extraction_confidence_for_page(doc, page) ==
  (IF page \in doc.ocr THEN 45 ELSE 95) * readable_percent(doc)

CanonicalAmount(line) ==
  IF line.kind \in CostKinds /\ line.sek < 0 THEN -line.sek ELSE line.sek

FactOf(doc, line) ==
  [kind |-> line.kind, value |-> from_sek(CanonicalAmount(line)).v, page |-> line.page,
   ocr |-> line.page \in doc.ocr,
   trust |-> extraction_confidence_for_page(doc, line.page)]

FactsOf(doc) ==
  LET fits == SelectSeq(doc.lines, LAMBDA line : from_sek(CanonicalAmount(line)).ok)
  IN  [n \in DOMAIN fits |-> FactOf(doc, fits[n])]

build_fact_set(documents) ==
  FoldLeft(LAMBDA set, doc : FoldLeft(Insert, set, FactsOf(doc)), EmptyFactSet, documents)

(***************************************************************************)
(* implausible_values of crates/pipeline/src/pipeline.rs: values that are  *)
(* arithmetically fine and cannot be true.                                 *)
(***************************************************************************)
implausible_values(set, beyondTheEconomy) ==
  {<<"negative", "revenue">> : x \in {k \in Kinds(set) : k = "revenue" /\ Value(set, k) < 0}}
  \union {<<"beyond the economy", set.facts[i].kind>> :
            i \in {j \in DOMAIN set.facts :
                     GreaterOf(set.facts[j].value, -set.facts[j].value) > beyondTheEconomy}}
=============================================================================
