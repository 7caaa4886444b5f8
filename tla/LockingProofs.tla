--------------------------- MODULE LockingProofs ----------------------------
(***************************************************************************)
(* Two protocols that rest on Postgres locks: a user's sessions on the     *)
(* locks of single rows, the source sweep on one advisory lock.  They      *)
(* share no variable; each is proved of its own specification.             *)
(*                                                                         *)
(* The sessions, for any number of requests, rows and companies.  A row    *)
(* lock keeps out a second refresh of the SAME token only, so nothing      *)
(* follows from mutual exclusion; the argument is about what a request has *)
(* read and may still write.                                               *)
(*   - The rows of a family count up in the order they were inserted, and  *)
(*     all but the last are superseded (ChainInv), because a rotation that *)
(*     was decided alone still finds the row it read last when it writes   *)
(*     (RotateInv): another that could have inserted one since was being   *)
(*     decided or written at the time, and the family counts as raced      *)
(*     (RaceInv).                                                          *)
(*   - A revocation's snapshot holds all rows of the family it is to end   *)
(*     from when it is taken to when it is written (SnapshotInv), because  *)
(*     whoever refreshes meanwhile either makes the family late or finds   *)
(*     its own row revoked; after the write that stays so (EndedInv).      *)
(*   - The client is behind the family's last row by exactly the rotations *)
(*     it has not heard of (ClientInv), so a token that is neither the     *)
(*     current one nor the one before it in its window is two rotations    *)
(*     old or late (TearInv).                                              *)
(*                                                                         *)
(* The sweep, for any number of workers, sources and page versions, and    *)
(* any set of pages that contradict or panic.  Mutual exclusion rests on   *)
(* the lock's depth, not on the program counters: a worker that let go of  *)
(* the guard may still hold the lock.  That a true verdict lasts rests on  *)
(* mutual exclusion in turn: the hash in a row is never ahead of the page, *)
(* and what the one sweeping worker fetched lies between the two, because  *)
(* nobody else records meanwhile.                                          *)
(***************************************************************************)
EXTENDS Sessions, SourceSweep, WellFoundedInduction, SequenceTheorems, TLAPS

(* SESSIONS.                                                                *)

Table == 1..Len(rows)
Fam(i) == rows[i].family

\* What the client has out of a family, before and after the server decided.
Asked == {"sent", "decide", "rotate", "tear"}
Out == Asked \cup {"answer", "refused"}
SignedIn == {"sign_out", "sign_out_everywhere", "change_password", "revoke",
             "switch_company", "switch"}

\* Rows, families and generations that requests and clients refer to exist.
RowLink == \A i \in Table : Fam(i) <= i /\ rows[i].generation < i

RequestLink(q) ==
  /\ req[q].ids \subseteq Table
  /\ req[q].pc \in Out \cup SignedIn => req[q].row \in Table
  /\ InRefresh(q) => ~rows[req[q].row].purged
  /\ req[q].pc = "rotate" => /\ req[q].target \in Table
                             /\ Fam(req[q].target) = Fam(req[q].row)
                             /\ req[q].current < Len(rows)
  /\ req[q].pc \in {"issue", "switch"} => req[q].company \in Companies
  /\ req[q].pc = "revoke" => req[q].why # "none"

ClientLink ==
  \A f \in Ids : /\ held[f] # 0 => held[f] \in Table /\ Fam(held[f]) = f
                 /\ f > Len(rows) => unheard[f] = 0 /\ f \notin ended

LinkInv == RowLink /\ (\A q \in Requests : RequestLink(q)) /\ ClientLink

\* A family is purged oldest generation first.
PurgeInv ==
  \A i, j \in Table : i < j /\ Fam(i) = Fam(j) /\ rows[j].purged => rows[i].purged

\* The generations of a family count up, and all but the last are superseded.
ChainInv ==
  \A i, j \in Table :
    i < j /\ Fam(i) = Fam(j) /\ Fam(i) \notin raced =>
      rows[i].generation < rows[j].generation /\ rows[i].superseded # "no"

Newest(i) == \A j \in Table : Fam(j) = Fam(i) => j <= i

\* What a refresh decided on the rows it read still holds when it writes.
Decided(q) ==
  req[q].pc = "rotate" /\ Fam(req[q].row) \notin raced =>
    Newest(req[q].target) /\ req[q].current = rows[req[q].target].generation

RotateInv == \A q \in Requests : Decided(q)

RaceInv ==
  \A p, q \in Requests :
    /\ p # q /\ Fam(req[p].row) = Fam(req[q].row)
    /\ req[p].pc \in {"rotate", "tear"} /\ req[q].pc \in {"rotate", "tear"}
    => Fam(req[p].row) \in raced

\* Two refreshes of a family are out at once only where the client sent two.
OverlapInv ==
  /\ raced \subseteq overlap
  /\ \A p, q \in Requests :
       /\ p # q /\ Fam(req[p].row) = Fam(req[q].row)
       /\ req[p].pc \in Out /\ req[q].pc \in Out
       => Fam(req[p].row) \in overlap

\* What is under way in a family comes too late: it will read a revoked row.
ComesTooLate(f) ==
  \A q \in Requests :
    InRefresh(q) /\ Fam(req[q].row) = f =>
      req[q].pc = "decide" /\ rows[req[q].row].revoked

\* Once these rows are revoked too, the family is over.
Settled(f, ids) ==
  (\A i \in InFamily(f) : i \in ids \/ rows[i].revoked) /\ ComesTooLate(f)

\* A family the revocation ends: one with rows in the snapshot, the own one of
\* a password change aside.
Covered(r, f) ==
  /\ \E i \in req[r].ids : Fam(i) = f
  /\ req[r].why = "change_password" => f # Fam(req[r].row)

SnapshotInv ==
  \A r \in Requests, f \in Ids \ late :
    req[r].pc = "revoke" /\ Covered(r, f) => Settled(f, req[r].ids)

EndedInv == \A f \in ended \ late : Settled(f, {})

\* A client that sends one refresh at a time is behind the newest row n of its
\* family by the rotations it has not heard of.
Abreast(f, n) ==
  /\ held[f] # 0 => rows[n].generation = rows[held[f]].generation + unheard[f]
  /\ \A q \in Requests : Fam(req[q].row) = f =>
       /\ req[q].pc \in Asked =>
            rows[n].generation = rows[req[q].row].generation + unheard[f]
       /\ req[q].pc = "answer" => req[q].row = n

ClientInv ==
  \A f \in Ids \ overlap, n \in Table : Fam(n) = f /\ Newest(n) => Abreast(f, n)

TearInv ==
  \A q \in Requests :
    req[q].pc = "tear" /\ Fam(req[q].row) \notin overlap =>
      unheard[Fam(req[q].row)] >= 2 \/ rows[req[q].row].superseded = "long_ago"

-----------------------------------------------------------------------------
\* A set of numbers below a bound has a largest.
LEMMA LargestExists ==
  ASSUME NEW N \in Nat, NEW S, S \subseteq 0..N, S # {}
  PROVE  \E g \in S : \A h \in S : h <= g
<1> DEFINE T == {n \in Nat : N - n \in S}
<1>1. T \subseteq Nat /\ T # {}
  <2>1. PICK s \in S : s \in 0..N
    OBVIOUS
  <2>2. N - s \in Nat /\ N - (N - s) = s
    BY <2>1
  <2> QED BY <2>2
<1> DEFINE R == {ss \in Nat \X Nat : ss[1] < ss[2]}
<1>2. \E x \in T : \A y \in T : ~(<<y, x>> \in R)
  <2>1. IsWellFoundedOn(R, Nat)
    BY NatLessThanWellFounded DEF OpToRel
  <2> HIDE DEF R, T
  <2> QED BY <1>1, <2>1, WFMin
<1>3. PICK x \in T : \A y \in T : ~(y < x)
  BY <1>1, <1>2
<1>4. PICK g \in S : g = N - x
  OBVIOUS
<1>5. ASSUME NEW h \in S PROVE h <= g
  <2>1. N - h \in T
    OBVIOUS
  <2>2. x \in Nat /\ h \in Nat /\ ~(N - h < x)
    BY <1>3, <2>1
  <2> QED BY <1>4, <2>2
<1> QED BY <1>5

\* Generation(f) is the generation of one of the family's rows, and no other
\* row's is larger.
LEMMA GenerationIsLargest ==
  ASSUME TypeOK, LinkInv, NEW f, NEW k \in InFamily(f)
  PROVE  \E m \in InFamily(f) :
           /\ Generation(f) = rows[m].generation
           /\ \A j \in InFamily(f) : rows[j].generation <= rows[m].generation
<1> DEFINE gens == {rows[i].generation : i \in InFamily(f)}
<1>1. \A i \in InFamily(f) : i \in Table /\ rows[i].generation \in Nat /\ rows[i].generation < i
  <2>1. \A i \in Table : rows[i] \in Session
    BY ElementOfSeq DEF TypeOK, Table
  <2> QED BY <2>1 DEF InFamily, Rows, Table, Session, LinkInv, RowLink
<1>2. Len(rows) \in Nat
  BY LenProperties DEF TypeOK
<1>3. gens \subseteq 0..Len(rows) /\ gens # {}
  BY <1>1, <1>2 DEF Table
<1>4. \E g \in gens : \A h \in gens : h <= g
  <2> HIDE DEF gens
  <2> QED BY <1>2, <1>3, LargestExists
<1>5. Generation(f) \in gens /\ \A h \in gens : h <= Generation(f)
  BY <1>3, <1>4 DEF Generation
<1> QED BY <1>5

-----------------------------------------------------------------------------
(* What a statement may do to the table.                                    *)

\* Rows stay what they are; a superseded row stays superseded, one past its
\* grace past it, a revoked one revoked.
Kept ==
  /\ rows' \in Seq(Session) /\ Len(rows') = Len(rows)
  /\ \A i \in Table :
       /\ rows'[i].family = Fam(i) /\ rows'[i].generation = rows[i].generation
       /\ rows'[i].superseded = "no" <=> rows[i].superseded = "no"
       /\ rows[i].superseded = "long_ago" => rows'[i].superseded = "long_ago"
       /\ rows[i].revoked => rows'[i].revoked

PurgesKept == \A i \in Table : rows'[i].purged = rows[i].purged

\* A row of family f and generation g is inserted, row t superseded.
Grown(f, g, t) ==
  /\ rows' \in Seq(Session) /\ Len(rows') = Len(rows) + 1
  /\ rows'[Len(rows) + 1].family = f /\ rows'[Len(rows) + 1].generation = g
  /\ ~rows'[Len(rows) + 1].purged /\ ~rows'[Len(rows) + 1].revoked
  /\ \A i \in Table :
       /\ rows'[i].family = Fam(i) /\ rows'[i].generation = rows[i].generation
       /\ rows'[i].purged = rows[i].purged /\ rows'[i].revoked = rows[i].revoked
       /\ rows'[i].superseded = IF i = t THEN "recently" ELSE rows[i].superseded

LEMMA RowTypes ==
  ASSUME TypeOK
  PROVE  /\ Len(rows) \in Nat /\ Len(rows) <= MaxRows /\ MaxRows \in Nat /\ Table \subseteq Ids
         /\ \A i \in Table :
              /\ rows[i] \in Session /\ Fam(i) \in Ids /\ rows[i].generation \in Nat
              /\ rows[i].company \in Companies /\ rows[i].revoked \in BOOLEAN
              /\ rows[i].superseded \in {"no", "recently", "long_ago"}
<1>1. Len(rows) \in Nat /\ Len(rows) <= MaxRows /\ MaxRows \in Nat
  BY LenProperties, MaxRowsAssumption DEF TypeOK
<1>2. \A i \in Table : rows[i] \in Session
  BY ElementOfSeq DEF TypeOK, Table
<1> QED BY <1>1, <1>2 DEF Table, Ids, Session, Fam

LEMMA RequestTypes ==
  ASSUME TypeOK, NEW q \in Requests
  PROVE  /\ req[q] \in Request /\ req[q].row \in Nat /\ req[q].ids \subseteq Ids
         /\ req[q].current \in Nat
         /\ req[q].why \in {"none", "sign_out", "sign_out_everywhere", "change_password"}
<1>1. req[q] \in Request
  BY DEF TypeOK
<1> QED BY <1>1, MaxRowsAssumption DEF Request

\* An UPDATE of one row.
LEMMA UpdateOne ==
  ASSUME TypeOK, NEW i \in Table, NEW e \in Session, rows' = [rows EXCEPT ![i] = e]
  PROVE  /\ rows' \in Seq(Session) /\ Len(rows') = Len(rows) /\ rows'[i] = e
         /\ \A j \in Table \ {i} : rows'[j] = rows[j]
BY ExceptSeq DEF TypeOK, Table

\* A revocation's UPDATE.
LEMMA RevokeUpdates ==
  ASSUME TypeOK, NEW ids, Revoke(ids)
  PROVE  /\ Kept /\ PurgesKept
         /\ \A i \in Table : rows'[i].revoked = (rows[i].revoked \/ i \in ids)
<1> DEFINE e(i) == [rows[i] EXCEPT !.revoked = @ \/ i \in ids]
<1>1. rows' = [i \in 1..Len(rows) |-> e(i)]
  BY DEF Revoke
<1>2. \A i \in Table : rows[i] \in Session
  BY RowTypes
<1>3. \A i \in Table : /\ e(i) \in Session /\ e(i).revoked = (rows[i].revoked \/ i \in ids)
                       /\ e(i).family = rows[i].family /\ e(i).generation = rows[i].generation
                       /\ e(i).superseded = rows[i].superseded /\ e(i).purged = rows[i].purged
  BY <1>2 DEF Session
<1> HIDE DEF e
<1>4. Len(rows) \in Nat
  BY RowTypes
<1>5. rows' \in Seq(Session) /\ Len(rows') = Len(rows)
  BY <1>1, <1>3, <1>4, IsASeq DEF Table
<1>6. \A i \in Table : rows'[i] = e(i)
  BY <1>1 DEF Table
<1> QED BY <1>3, <1>5, <1>6 DEF Kept, PurgesKept, Fam

LEMMA NewSessionFields ==
  ASSUME NEW f \in Ids, NEW g \in Nat, NEW c \in Companies
  PROVE  LET s == NewSession(f, g, c) IN
         /\ s \in Session /\ s.family = f /\ s.generation = g
         /\ ~s.purged /\ ~s.revoked
BY DEF NewSession, Session

\* issue_session's INSERT: row t is none of the table's.
LEMMA InsertGrows ==
  ASSUME TypeOK, NEW f \in Ids, NEW g \in Nat, NEW c \in Companies,
         rows' = Append(rows, NewSession(f, g, c))
  PROVE  Grown(f, g, 0)
<1> DEFINE s == NewSession(f, g, c)
<1>1. s \in Session /\ s.family = f /\ s.generation = g /\ ~s.purged /\ ~s.revoked
  BY NewSessionFields
<1> HIDE DEF s
<1>2. /\ Append(rows, s) \in Seq(Session) /\ Len(Append(rows, s)) = Len(rows) + 1
      /\ \A i \in 1..Len(rows) : Append(rows, s)[i] = rows[i]
      /\ Append(rows, s)[Len(rows) + 1] = s
  BY <1>1, AppendProperties DEF TypeOK
<1>3. rows' = Append(rows, s)
  BY DEF s
<1> QED BY <1>1, <1>2, <1>3 DEF Grown, Table, Fam

\* rotate_onto_new_generation's UPDATE and INSERT.
LEMMA RotationGrows ==
  ASSUME TypeOK, NEW f \in Ids, NEW g \in Nat, NEW c \in Companies, NEW t \in Table,
         rows' = Append(Supersede(t), NewSession(f, g, c))
  PROVE  Grown(f, g, t)
<1> DEFINE s == NewSession(f, g, c)
           u == [rows[t] EXCEPT !.superseded = "recently"]
           mid == [rows EXCEPT ![t] = u]
<1>1. s \in Session /\ s.family = f /\ s.generation = g /\ ~s.purged /\ ~s.revoked
  BY NewSessionFields
<1>2. rows[t] \in Session
  BY RowTypes
<1>3. /\ u \in Session /\ u.family = rows[t].family /\ u.generation = rows[t].generation
      /\ u.purged = rows[t].purged /\ u.revoked = rows[t].revoked /\ u.superseded = "recently"
  BY <1>2 DEF Session
<1>4. rows' = Append(mid, s)
  BY DEF Supersede
<1> HIDE DEF s, u
<1>5. /\ mid \in Seq(Session) /\ Len(mid) = Len(rows) /\ mid[t] = u
      /\ \A i \in Table \ {t} : mid[i] = rows[i]
  BY <1>3, ExceptSeq DEF TypeOK, Table
<1> HIDE DEF mid
<1>6. /\ Append(mid, s) \in Seq(Session) /\ Len(Append(mid, s)) = Len(mid) + 1
      /\ \A i \in 1..Len(mid) : Append(mid, s)[i] = mid[i]
      /\ Append(mid, s)[Len(mid) + 1] = s
  BY <1>1, <1>5, AppendProperties
<1> QED BY <1>1, <1>3, <1>4, <1>5, <1>6 DEF Grown, Table, Fam

-----------------------------------------------------------------------------
(* What a statement may do to a request.                                    *)

LEMMA Finished ==
  ASSUME TypeOK, NEW r \in Requests, Finish(r)
  PROVE  /\ req' \in [Requests -> Request] /\ \A q \in Requests \ {r} : req'[q] = req[q]
         /\ req'[r].pc = "done" /\ req'[r].ids = {}
<1>1. Done \in Request /\ Done.pc = "done" /\ Done.ids = {}
  BY MaxRowsAssumption DEF Done, Idle, Request
<1> HIDE DEF Done
<1> QED BY <1>1 DEF TypeOK, Finish

\* The request goes on with what it knows.
LEMMA Moved ==
  ASSUME TypeOK, NEW r \in Requests, NEW p,
         p \in {"verify", "decide", "refused", "switch"},
         req' = [req EXCEPT ![r].pc = p]
  PROVE  /\ req' \in [Requests -> Request] /\ \A q \in Requests \ {r} : req'[q] = req[q]
         /\ req'[r].pc = p /\ req'[r].row = req[r].row /\ req'[r].ids = req[r].ids
         /\ req'[r].company = req[r].company
<1> DEFINE e == [req[r] EXCEPT !.pc = p]
<1>1. req[r] \in Request
  BY RequestTypes
<1>2. /\ e \in Request /\ e.pc = p /\ e.row = req[r].row /\ e.ids = req[r].ids
      /\ e.company = req[r].company
  BY <1>1 DEF Request
<1>3. req' = [req EXCEPT ![r] = e]
  OBVIOUS
<1> HIDE DEF e
<1> QED BY <1>2, <1>3 DEF TypeOK

\* The request starts anew with a row or a company in hand.
LEMMA IdleRequest == Idle \in Request /\ Idle.ids = {}
BY MaxRowsAssumption DEF Idle, Request

AtRow(p, i) == [Idle EXCEPT !.pc = p, !.row = i]

LEMMA WithRow ==
  ASSUME NEW i \in Ids,
         NEW p \in {"sent", "answer", "sign_out", "sign_out_everywhere",
                    "switch_company", "change_password"}
  PROVE  /\ AtRow(p, i) \in Request /\ AtRow(p, i).pc = p
         /\ AtRow(p, i).row = i /\ AtRow(p, i).ids = {}
<1>1. i \in 0..MaxRows
  BY MaxRowsAssumption DEF Ids
<1> QED BY <1>1, IdleRequest DEF Request, AtRow

LEMMA WithCompany ==
  ASSUME NEW c \in Companies
  PROVE  LET e == [Idle EXCEPT !.pc = "issue", !.company = c] IN
         e \in Request /\ e.pc = "issue" /\ e.company = c /\ e.ids = {}
BY IdleRequest DEF Request

LEMMA WithLock ==
  [Idle EXCEPT !.pc = "lock"] \in Request /\ [Idle EXCEPT !.pc = "lock"].pc = "lock"
  /\ [Idle EXCEPT !.pc = "lock"].ids = {}
BY IdleRequest DEF Request

LEMMA Started ==
  ASSUME TypeOK, NEW r \in Requests, NEW e \in Request, req' = [req EXCEPT ![r] = e]
  PROVE  /\ req' \in [Requests -> Request] /\ \A q \in Requests \ {r} : req'[q] = req[q]
         /\ req'[r] = e
BY DEF TypeOK

\* Links survive a statement that neither moves rows nor purges locked ones.
LEMMA LinksKept ==
  ASSUME TypeOK, LinkInv, Kept
  PROVE  /\ RowLink'
         /\ \A q \in Requests :
              /\ req'[q] = req[q] /\ (InRefresh(q) => ~rows'[req[q].row].purged)
              => RequestLink(q)'
         /\ \A f \in Ids : held[f] # 0 => held[f] \in 1..Len(rows') /\ rows'[held[f]].family = f
<1>1. Table' = Table /\ Len(rows') = Len(rows) /\ \A i \in Table : Fam(i)' = Fam(i)
  BY DEF Kept, Table, Fam
<1>2. RowLink'
  BY <1>1 DEF Kept, RowLink, LinkInv
<1>3. ASSUME NEW q \in Requests, req'[q] = req[q], InRefresh(q) => ~rows'[req[q].row].purged
      PROVE  RequestLink(q)'
  <2>1. RequestLink(q) /\ (InRefresh(q)' <=> InRefresh(q))
    BY <1>3 DEF LinkInv, InRefresh
  <2> QED BY <1>1, <1>3, <2>1 DEF RequestLink, Out, SignedIn, Asked, InRefresh
<1>4. \A f \in Ids : held[f] # 0 => held[f] \in 1..Len(rows') /\ rows'[held[f]].family = f
  BY <1>1 DEF LinkInv, ClientLink, Table, Fam
<1> QED BY <1>2, <1>3, <1>4

LEMMA LinksGrown ==
  ASSUME TypeOK, LinkInv, NEW f \in Ids, NEW g \in Nat, NEW t, Grown(f, g, t),
         f <= Len(rows) + 1, g < Len(rows) + 1
  PROVE  /\ RowLink'
         /\ \A q \in Requests : req'[q] = req[q] => RequestLink(q)'
         /\ \A k \in Ids : held[k] # 0 => held[k] \in 1..Len(rows') /\ rows'[held[k]].family = k
<1>1. /\ Len(rows) \in Nat /\ Len(rows') = Len(rows) + 1
      /\ Table' = Table \cup {Len(rows) + 1} /\ \A i \in Table : Fam(i)' = Fam(i)
  BY RowTypes DEF Grown, Table, Fam
<1>2. RowLink'
  BY <1>1 DEF Grown, RowLink, LinkInv, Fam
<1>3. ASSUME NEW q \in Requests, req'[q] = req[q]
      PROVE  RequestLink(q)'
  <2>1. RequestLink(q) /\ (InRefresh(q)' <=> InRefresh(q)) /\ req[q].current \in Nat
    BY <1>3, RequestTypes DEF LinkInv, InRefresh
  <2>2. InRefresh(q) => rows'[req[q].row].purged = rows[req[q].row].purged
    BY <2>1 DEF RequestLink, InRefresh, Out, Asked, Grown
  <2> QED BY <1>1, <1>3, <2>1, <2>2 DEF RequestLink, Out, SignedIn, Asked, InRefresh
<1>4. \A k \in Ids : held[k] # 0 => held[k] \in 1..Len(rows') /\ rows'[held[k]].family = k
  BY <1>1 DEF LinkInv, ClientLink, Table, Fam
<1> QED BY <1>2, <1>3, <1>4

-----------------------------------------------------------------------------
(* The steps that neither refresh nor revoke.                               *)

Quiet ==
  /\ Kept
  /\ \A q \in Requests : req'[q] = req[q] \/ req'[q].pc \notin Out \cup {"revoke"}
  /\ \A f \in Ids : held'[f] \in {held[f], 0}
  /\ UNCHANGED <<unheard, overlap, raced, ended, late, torn>>

LEMMA RowsUnchanged ==
  ASSUME TypeOK, UNCHANGED rows
  PROVE  Kept /\ PurgesKept
<1>1. \A i \in Table : rows'[i] = rows[i]
  OBVIOUS
<1> QED BY <1>1 DEF TypeOK, Kept, PurgesKept, Fam, Table

LEMMA QuietLinks ==
  ASSUME TypeOK, LinkInv, Quiet,
         \A q \in Requests : InRefresh(q) => ~rows'[req[q].row].purged,
         \A q \in Requests : req'[q] = req[q] \/ RequestLink(q)'
  PROVE  LinkInv'
<1>1. Len(rows') = Len(rows)
  BY DEF Quiet, Kept
<1>2. RowLink' /\ \A q \in Requests : RequestLink(q)'
  BY LinksKept DEF Quiet
<1>3. ClientLink'
  <2> SUFFICES ASSUME NEW f \in Ids
               PROVE  /\ held'[f] # 0 => held'[f] \in 1..Len(rows') /\ rows'[held'[f]].family = f
                      /\ f > Len(rows') => unheard'[f] = 0 /\ f \notin ended'
    BY DEF ClientLink, Table, Fam
  <2>1. held'[f] = held[f] \/ held'[f] = 0
    BY DEF Quiet
  <2>2. held[f] # 0 => held[f] \in 1..Len(rows') /\ rows'[held[f]].family = f
    BY LinksKept DEF Quiet
  <2>3. f > Len(rows) => unheard[f] = 0 /\ f \notin ended
    BY DEF LinkInv, ClientLink
  <2> QED BY <1>1, <2>1, <2>2, <2>3 DEF Quiet
<1> QED BY <1>2, <1>3 DEF LinkInv

\* A request whose step leaves the table alone.
LEMMA QuietRequest ==
  ASSUME TypeOK, LinkInv, NEW r \in Requests, UNCHANGED rows,
         \/ ReadCredential(r) \/ RecordFailedAttempt(r) \/ LockAccount(r) \/ SignIn(r)
         \/ ReceiveRefusal(r) \/ Authorise(r) \/ SwitchCompany(r) \/ Abandon(r)
         \/ Finish(r) /\ UNCHANGED <<rows, member, credentials, client, history>>
  PROVE  TypeOK' /\ LinkInv' /\ Quiet /\ PurgesKept
<1> USE DEF client, history, credentials
<1>1. Kept /\ PurgesKept
  BY RowsUnchanged
<1>2. /\ req' \in [Requests -> Request] /\ \A q \in Requests \ {r} : req'[q] = req[q]
      /\ RequestLink(r)' /\ req'[r].pc \notin Out \cup {"revoke"}
  <2>0. /\ RequestLink(r) /\ req[r] \in Request /\ Table' = Table
        /\ req[r].row \in Table => req[r].row \in Ids
    BY RequestTypes, RowTypes DEF LinkInv, Table
  <2>1. CASE Finish(r)
    BY <2>0, <2>1, Finished DEF RequestLink, Out, Asked, SignedIn, InRefresh
  <2>2. CASE ReadCredential(r)
    <3>1. req' = [req EXCEPT ![r].pc = "verify"]
      BY <2>2 DEF ReadCredential
    <3> QED BY <2>0, <3>1, Moved DEF RequestLink, Out, Asked, SignedIn, InRefresh
  <2>3. CASE RecordFailedAttempt(r)
    <3>1. CASE Finish(r)
      BY <2>1, <3>1
    <3>2. CASE req' = [req EXCEPT ![r] = [Idle EXCEPT !.pc = "lock"]]
      <4>1. [Idle EXCEPT !.pc = "lock"] \in Request /\ [Idle EXCEPT !.pc = "lock"].pc = "lock"
            /\ [Idle EXCEPT !.pc = "lock"].ids = {}
        BY WithLock
      <4> QED BY <2>0, <3>2, <4>1, Started DEF RequestLink, Out, Asked, SignedIn, InRefresh
    <3> QED BY <2>3, <3>1, <3>2 DEF RecordFailedAttempt, Finish
  <2>4. CASE SignIn(r)
    <3>1. CASE Finish(r)
      BY <2>1, <3>1
    <3>2. ASSUME NEW c \in member,
                 req' = [req EXCEPT ![r] = [Idle EXCEPT !.pc = "issue", !.company = c]]
          PROVE  /\ req' \in [Requests -> Request] /\ \A q \in Requests \ {r} : req'[q] = req[q]
                 /\ RequestLink(r)' /\ req'[r].pc \notin Out \cup {"revoke"}
      <4> DEFINE e == [Idle EXCEPT !.pc = "issue", !.company = c]
      <4>1. c \in Companies
        BY DEF TypeOK
      <4>2. e \in Request /\ e.pc = "issue" /\ e.company = c /\ e.ids = {}
        BY <4>1, WithCompany
      <4> HIDE DEF e
      <4>3. req' = [req EXCEPT ![r] = e]
        BY <3>2 DEF e
      <4> QED BY <2>0, <4>1, <4>2, <4>3, Started DEF RequestLink, Out, Asked, SignedIn, InRefresh
    <3> QED BY <2>4, <3>1, <3>2 DEF SignIn
  <2>5. CASE Authorise(r)
    <3>1. PICK i \in Table, op \in {"sent", "answer", "sign_out", "sign_out_everywhere",
                                    "switch_company", "change_password"} :
            req' = [req EXCEPT ![r] = [Idle EXCEPT !.pc = op, !.row = i]]
            /\ op \notin {"sent", "answer"}
      BY <2>5 DEF Authorise, Rows, Table
    <3>2. i \in Ids
      BY RowTypes
    <3>3. /\ AtRow(op, i) \in Request /\ AtRow(op, i).pc = op
          /\ AtRow(op, i).row = i /\ AtRow(op, i).ids = {}
      BY <3>2, WithRow
    <3>4. req' = [req EXCEPT ![r] = AtRow(op, i)]
      BY <3>1 DEF AtRow
    <3> QED BY <2>0, <3>1, <3>3, <3>4, Started DEF RequestLink, Out, Asked, SignedIn, InRefresh
  <2>6. CASE SwitchCompany(r)
    <3>1. PICK c \in Companies : IF c \in member
            THEN req' = [req EXCEPT ![r].pc = "switch", ![r].company = c] ELSE Finish(r)
      BY <2>6 DEF SwitchCompany
    <3>2. CASE Finish(r)
      BY <2>1, <3>2
    <3>3. CASE req' = [req EXCEPT ![r].pc = "switch", ![r].company = c]
      <4> DEFINE e == [req[r] EXCEPT !.pc = "switch", !.company = c]
      <4>1. /\ e \in Request /\ e.pc = "switch" /\ e.company = c
            /\ e.ids = req[r].ids /\ e.row = req[r].row
        BY <2>0 DEF Request
      <4>2. req' = [req EXCEPT ![r] = e]
        BY <3>3, <2>0 DEF TypeOK
      <4> HIDE DEF e
      <4>3. req[r].pc = "switch_company"
        BY <2>6 DEF SwitchCompany
      <4> QED BY <2>0, <4>1, <4>2, <4>3, Started DEF RequestLink, Out, Asked, SignedIn, InRefresh
    <3> QED BY <3>1, <3>2, <3>3
  <2> QED BY <2>1, <2>2, <2>3, <2>4, <2>5, <2>6 DEF LockAccount, ReceiveRefusal, Abandon
<1>3. UNCHANGED <<unheard, overlap, raced, ended, late, torn>>
  BY DEF ReadCredential, RecordFailedAttempt, LockAccount, SignIn, ReceiveRefusal, Authorise,
         SwitchCompany, Abandon
<1>4. held' \in [Ids -> 0..MaxRows] /\ \A f \in Ids : held'[f] \in {held[f], 0}
  <2>1. UNCHANGED held \/ \E g : held' = [held EXCEPT ![g] = 0]
    BY DEF ReadCredential, RecordFailedAttempt, LockAccount, SignIn, ReceiveRefusal, Authorise,
           SwitchCompany, Abandon
  <2>2. held \in [Ids -> 0..MaxRows] /\ 0 \in 0..MaxRows
    BY MaxRowsAssumption DEF TypeOK
  <2> QED BY <2>1, <2>2
<1>5. member' \subseteq Companies /\ failed' \in 0..MaxFailed
      /\ locked' \in {"none", "future", "past"}
  <2>1. UNCHANGED member
    BY DEF ReadCredential, RecordFailedAttempt, LockAccount, SignIn, ReceiveRefusal, Authorise,
           SwitchCompany, Abandon
  <2>2. locked' \in {locked, "none", "future"}
    BY DEF ReadCredential, RecordFailedAttempt, LockAccount, SignIn, ReceiveRefusal, Authorise,
           SwitchCompany, Abandon
  <2>3. failed' \in 0..MaxFailed
    <3>0. failed \in 0..MaxFailed /\ MaxFailed \in Nat
      BY MaxFailedAssumption DEF TypeOK
    <3>1. CASE RecordFailedAttempt(r)
      <4>1. failed' = IF failed < MaxFailed THEN failed + 1 ELSE failed
        BY <3>1 DEF RecordFailedAttempt
      <4> QED BY <3>0, <4>1
    <3>2. CASE SignIn(r)
      <4>1. failed' = 0
        BY <3>2 DEF SignIn
      <4> QED BY <3>0, <4>1
    <3>3. CASE UNCHANGED failed
      BY <3>0, <3>3
    <3> QED
      BY <3>1, <3>2, <3>3 DEF ReadCredential, LockAccount, ReceiveRefusal, Authorise,
         SwitchCompany, Abandon
  <2> QED BY <2>1, <2>2, <2>3 DEF TypeOK
<1>6. Quiet
  BY <1>1, <1>2, <1>3, <1>4 DEF Quiet
<1>7. LinkInv'
  <2>1. \A q \in Requests : InRefresh(q) => ~rows'[req[q].row].purged
    BY DEF LinkInv, RequestLink
  <2> QED BY <1>2, <1>6, <2>1, QuietLinks
<1>8. TypeOK'
  BY <1>2, <1>3, <1>4, <1>5 DEF TypeOK
<1> QED BY <1>1, <1>6, <1>7, <1>8

\* Steps that change a row and no request: switches of company, time, the
\* purge and what else happens around the requests.
LEMMA SwitchStep ==
  ASSUME TypeOK, LinkInv, NEW r \in Requests, CommitSwitch(r)
  PROVE  TypeOK' /\ LinkInv' /\ Quiet /\ PurgesKept
<1> USE DEF client, history, credentials
<1> DEFINE i == req[r].row
           e == [rows[i] EXCEPT !.company = req[r].company]
<1>1. i \in Table /\ req[r].company \in Companies /\ rows' = [rows EXCEPT ![i] = e]
  BY DEF CommitSwitch, LinkInv, RequestLink, SignedIn
<1>2. rows[i] \in Session
  BY <1>1, RowTypes
<1>3. /\ e \in Session /\ e.family = rows[i].family /\ e.generation = rows[i].generation
      /\ e.superseded = rows[i].superseded /\ e.purged = rows[i].purged
      /\ e.revoked = rows[i].revoked
  BY <1>1, <1>2 DEF Session
<1> HIDE DEF e, i
<1>4. /\ rows' \in Seq(Session) /\ Len(rows') = Len(rows) /\ rows'[i] = e
      /\ \A j \in Table \ {i} : rows'[j] = rows[j]
  BY <1>1, <1>3, UpdateOne
<1>5. Kept /\ PurgesKept
  BY <1>3, <1>4 DEF Kept, PurgesKept, Fam
<1>6. /\ req' \in [Requests -> Request] /\ \A q \in Requests \ {r} : req'[q] = req[q]
      /\ req'[r].pc = "done" /\ req'[r].ids = {}
  BY Finished DEF CommitSwitch
<1>7. RequestLink(r)'
  BY <1>6 DEF RequestLink, Out, Asked, SignedIn, InRefresh
<1>8. Quiet
  BY <1>5, <1>6 DEF Quiet, CommitSwitch, Out, Asked
<1>9. LinkInv'
  <2>1. \A q \in Requests : InRefresh(q) => ~rows'[req[q].row].purged
    BY <1>5 DEF LinkInv, RequestLink, PurgesKept, InRefresh, Out, Asked
  <2> QED BY <1>6, <1>7, <1>8, <2>1, QuietLinks
<1>10. TypeOK'
  BY <1>4, <1>6 DEF TypeOK, CommitSwitch
<1> QED BY <1>5, <1>8, <1>9, <1>10

LEMMA TimeStep ==
  ASSUME TypeOK, LinkInv,
         \/ RefreshExpires \/ GraceEnds \/ LockElapses \/ MembershipEnds
         \/ UNCHANGED vars
  PROVE  TypeOK' /\ LinkInv' /\ Quiet /\ PurgesKept
<1> USE DEF client, history, credentials, vars
<1>1. Kept /\ PurgesKept
  <2>1. CASE RefreshExpires
    <3>1. PICK i \in Table : rows' = [rows EXCEPT ![i].refreshLive = FALSE]
      BY <2>1 DEF RefreshExpires, Rows, Table
    <3> DEFINE e == [rows[i] EXCEPT !.refreshLive = FALSE]
    <3>2. rows[i] \in Session
      BY <3>1, RowTypes
    <3>3. /\ e \in Session /\ e.family = rows[i].family /\ e.generation = rows[i].generation
          /\ e.superseded = rows[i].superseded /\ e.purged = rows[i].purged
          /\ e.revoked = rows[i].revoked
      BY <3>2 DEF Session
    <3>4. rows' = [rows EXCEPT ![i] = e]
      BY <3>1
    <3> HIDE DEF e
    <3>5. /\ rows' \in Seq(Session) /\ Len(rows') = Len(rows) /\ rows'[i] = e
          /\ \A j \in Table \ {i} : rows'[j] = rows[j]
      BY <3>1, <3>3, <3>4, UpdateOne
    <3> QED BY <3>3, <3>5 DEF Kept, PurgesKept, Fam
  <2>2. CASE GraceEnds
    <3>1. PICK i \in Table : rows[i].superseded = "recently"
                             /\ rows' = [rows EXCEPT ![i].superseded = "long_ago"]
      BY <2>2 DEF GraceEnds, Rows, Table
    <3> DEFINE e == [rows[i] EXCEPT !.superseded = "long_ago"]
    <3>2. rows[i] \in Session
      BY <3>1, RowTypes
    <3>3. /\ e \in Session /\ e.family = rows[i].family /\ e.generation = rows[i].generation
          /\ e.superseded = "long_ago" /\ e.purged = rows[i].purged
          /\ e.revoked = rows[i].revoked
      BY <3>2 DEF Session
    <3>4. rows' = [rows EXCEPT ![i] = e]
      BY <3>1
    <3> HIDE DEF e
    <3>5. /\ rows' \in Seq(Session) /\ Len(rows') = Len(rows) /\ rows'[i] = e
          /\ \A j \in Table \ {i} : rows'[j] = rows[j]
      BY <3>1, <3>3, <3>4, UpdateOne
    <3> QED BY <3>1, <3>3, <3>5 DEF Kept, PurgesKept, Fam
  <2>3. CASE UNCHANGED rows
    BY <2>3, RowsUnchanged
  <2> QED BY <2>1, <2>2, <2>3 DEF LockElapses, MembershipEnds
<1>2. UNCHANGED <<req, held, unheard, overlap, raced, ended, late, torn, failed>>
  BY DEF RefreshExpires, GraceEnds, LockElapses, MembershipEnds
<1>3. Quiet
  BY <1>1, <1>2 DEF Quiet
<1>4. LinkInv'
  <2>1. \A q \in Requests : InRefresh(q) => ~rows'[req[q].row].purged
    BY <1>1 DEF LinkInv, RequestLink, PurgesKept, InRefresh, Out, Asked
  <2> QED BY <1>2, <1>3, <2>1, QuietLinks
<1>5. member' \subseteq Companies /\ locked' \in {"none", "future", "past"}
  BY DEF TypeOK, RefreshExpires, GraceEnds, LockElapses, MembershipEnds
<1> QED BY <1>1, <1>2, <1>3, <1>4, <1>5 DEF TypeOK, Kept

\* The purge takes the oldest row of a family that is left and not locked.
LEMMA PurgeStep ==
  ASSUME TypeOK, LinkInv, PurgeInv, purge_expired_sessions
  PROVE  /\ TypeOK' /\ LinkInv' /\ Quiet /\ PurgeInv'
         /\ \A i \in Table : rows[i].purged => rows'[i].purged
<1> USE DEF client, history, credentials
<1>1. PICK i \in Rows :
        /\ \A r \in Requests : i \notin Locked(r)
        /\ \A j \in InFamily(rows[i].family) : i <= j
        /\ rows' = [rows EXCEPT ![i].purged = TRUE]
  BY DEF purge_expired_sessions
<1> DEFINE e == [rows[i] EXCEPT !.purged = TRUE]
<1>2. rows[i] \in Session /\ i \in Table
  BY <1>1, RowTypes DEF Rows, Table
<1>3. /\ e \in Session /\ e.family = rows[i].family /\ e.generation = rows[i].generation
      /\ e.superseded = rows[i].superseded /\ e.purged = TRUE
      /\ e.revoked = rows[i].revoked
  BY <1>2 DEF Session
<1>4. rows' = [rows EXCEPT ![i] = e]
  BY <1>1
<1> HIDE DEF e
<1>5. /\ rows' \in Seq(Session) /\ Len(rows') = Len(rows) /\ rows'[i] = e
      /\ \A j \in Table \ {i} : rows'[j] = rows[j]
  BY <1>2, <1>3, <1>4, UpdateOne
<1>6. UNCHANGED <<req, held, unheard, overlap, raced, ended, late, torn, failed, locked, member>>
  BY DEF purge_expired_sessions
<1>7. Quiet
  BY <1>3, <1>5, <1>6 DEF Quiet, Kept, Fam
<1>8. LinkInv'
  <2>1. \A q \in Requests : InRefresh(q) => ~rows'[req[q].row].purged
    BY <1>1, <1>5 DEF LinkInv, RequestLink, InRefresh, Out, Asked, Locked
  <2> QED BY <1>6, <1>7, <2>1, QuietLinks
<1>9. PurgeInv'
  <2> SUFFICES ASSUME NEW j \in Table, NEW k \in Table, j < k,
                      rows'[j].family = rows'[k].family, rows'[k].purged
               PROVE  rows'[j].purged
    BY <1>5 DEF PurgeInv, Table, Fam
  <2>1. rows[j].family = rows[k].family
    BY <1>3, <1>5
  <2>2. CASE k = i
    BY <1>1, <1>2, <1>3, <1>5, <2>1, <2>2 DEF InFamily, Rows, Table
  <2>3. CASE k # i
    BY <1>3, <1>5, <2>1, <2>3 DEF PurgeInv, Fam
  <2> QED BY <2>2, <2>3
<1> QED BY <1>3, <1>5, <1>6, <1>7, <1>8, <1>9 DEF TypeOK

-----------------------------------------------------------------------------
(* The steps of a sign-in and of a refresh, and what they leave.            *)

OthersWait(r) == \A q \in Requests \ {r} : req'[q] = req[q]

LEMMA IssueStep ==
  ASSUME TypeOK, LinkInv, NEW r \in Requests, issue_session(r)
  PROVE  /\ TypeOK' /\ LinkInv'
         /\ Grown(Len(rows) + 1, 0, 0) /\ OthersWait(r) /\ req'[r].pc = "done"
         /\ \A f \in Ids : held'[f] = IF f = Len(rows) + 1 THEN f ELSE held[f]
         /\ UNCHANGED <<unheard, overlap, raced, ended, late, torn>>
<1> USE DEF client, history, credentials
<1> DEFINE f == Len(rows) + 1
<1>1. f \in Ids /\ Len(rows) \in Nat /\ f <= MaxRows
  BY RowTypes, MaxRowsAssumption DEF issue_session, Ids
<1>2. req[r].company \in Companies
  BY DEF issue_session, LinkInv, RequestLink
<1>3. Grown(f, 0, 0)
  BY <1>1, <1>2, InsertGrows DEF issue_session
<1>4. req' \in [Requests -> Request] /\ OthersWait(r) /\ req'[r].pc = "done" /\ req'[r].ids = {}
  BY Finished DEF issue_session, OthersWait
<1>5. held' \in [Ids -> 0..MaxRows] /\ \A k \in Ids : held'[k] = IF k = f THEN f ELSE held[k]
  <2>1. held \in [Ids -> 0..MaxRows] /\ held' = [held EXCEPT ![f] = f] /\ f \in 0..MaxRows
    BY <1>1 DEF TypeOK, issue_session
  <2> HIDE DEF f
  <2> QED BY <2>1
<1>6. UNCHANGED <<unheard, overlap, raced, ended, late, torn, member, failed, locked>>
  BY DEF issue_session
<1>7. TypeOK'
  BY <1>1, <1>3, <1>4, <1>5, <1>6 DEF TypeOK, Grown
<1>8. LinkInv'
  <2>1. RowLink' /\ \A q \in Requests \ {r} : RequestLink(q)'
    BY <1>1, <1>3, <1>4, LinksGrown DEF OthersWait
  <2>2. RequestLink(r)'
    BY <1>4 DEF RequestLink, Out, Asked, SignedIn, InRefresh
  <2>3. ClientLink'
    <3> SUFFICES ASSUME NEW k \in Ids
                 PROVE  /\ held'[k] # 0 => held'[k] \in 1..Len(rows') /\ rows'[held'[k]].family = k
                        /\ k > Len(rows') => unheard'[k] = 0 /\ k \notin ended'
      BY DEF ClientLink, Table, Fam
    <3>1. held[k] # 0 => held[k] \in 1..Len(rows') /\ rows'[held[k]].family = k
      BY <1>1, <1>3, LinksGrown
    <3>2. Len(rows') = f /\ rows'[f].family = f
      BY <1>3 DEF Grown
    <3>3. k > Len(rows) => unheard[k] = 0 /\ k \notin ended
      BY DEF LinkInv, ClientLink
    <3>4. k \in Nat
      BY DEF Ids
    <3> HIDE DEF f
    <3>5. f = Len(rows) + 1
      BY DEF f
    <3> QED BY <1>1, <1>5, <1>6, <3>1, <3>2, <3>3, <3>4, <3>5
  <2> QED BY <2>1, <2>2, <2>3 DEF LinkInv
<1> QED BY <1>3, <1>4, <1>5, <1>6, <1>7, <1>8

\* The client sends what it holds.
LEMMA SendStep ==
  ASSUME TypeOK, LinkInv, NEW r \in Requests, SendRefresh(r)
  PROVE  /\ TypeOK' /\ LinkInv' /\ Kept /\ PurgesKept /\ OthersWait(r)
         /\ UNCHANGED <<rows, held, unheard, raced, ended, late, torn>>
         /\ \E f \in Ids :
              /\ held[f] \in Table /\ Fam(held[f]) = f
              /\ req'[r].pc = "sent" /\ req'[r].row = held[f]
              /\ overlap' = overlap \cup ({f} \cap Outstanding)
<1> USE DEF client, history, credentials
<1>1. PICK f \in Ids : /\ held[f] # 0 /\ req' = [req EXCEPT ![r] = AtRow("sent", held[f])]
                       /\ overlap' = overlap \cup ({f} \cap Outstanding)
  BY DEF SendRefresh, AtRow
<1>2. PICK i \in Table : i = held[f] /\ Fam(i) = f
  BY <1>1 DEF LinkInv, ClientLink
<1>3. i \in Ids
  BY RowTypes
<1>4. AtRow("sent", i) \in Request /\ AtRow("sent", i).pc = "sent" /\ AtRow("sent", i).row = i
      /\ AtRow("sent", i).ids = {}
  BY <1>3, WithRow
<1>5. req' \in [Requests -> Request] /\ OthersWait(r) /\ req'[r] = AtRow("sent", i)
  BY <1>1, <1>2, <1>4, Started DEF OthersWait
<1>6. UNCHANGED <<rows, held, unheard, raced, ended, late, torn, member, failed, locked>>
  BY DEF SendRefresh
<1>7. Kept /\ PurgesKept
  BY <1>6, RowsUnchanged
<1>8. TypeOK'
  BY <1>1, <1>5, <1>6 DEF TypeOK
<1>9. LinkInv'
  <2>1. RequestLink(r)'
    BY <1>4, <1>5, <1>6 DEF RequestLink, Out, Asked, SignedIn, InRefresh, Table
  <2>2. RowLink' /\ \A q \in Requests \ {r} : RequestLink(q)'
    BY <1>5, <1>6, <1>7, LinksKept DEF OthersWait, LinkInv, RequestLink
  <2>3. ClientLink'
    BY <1>6 DEF LinkInv, ClientLink, Table, Fam
  <2> QED BY <2>1, <2>2, <2>3 DEF LinkInv
<1> QED BY <1>1, <1>2, <1>4, <1>5, <1>6, <1>7, <1>8, <1>9

\* The row is locked and there, or the request ends.
LEMMA LockStep ==
  ASSUME TypeOK, LinkInv, NEW r \in Requests, LockPresented(r)
  PROVE  /\ TypeOK' /\ LinkInv' /\ Kept /\ PurgesKept /\ OthersWait(r)
         /\ req[r].pc = "sent" /\ req[r].row \in Table
         /\ UNCHANGED <<rows, held, unheard, overlap, raced, ended, torn>>
         /\ \/ req'[r].pc = "done"
            \/ req'[r].pc = "decide" /\ req'[r].row = req[r].row /\ req[r].row \in Rows
         /\ late \subseteq late'
         /\ \A p \in Requests :
              req[p].pc = "revoke" /\ req[r].row \in req[p].ids => Fam(req[r].row) \in late'
<1> USE DEF client, history, credentials
<1>1. /\ req[r].pc = "sent" /\ req[r].row \in Table
      /\ RequestLink(r) /\ req[r].row \in Ids /\ Fam(req[r].row) \in Ids
  BY RowTypes DEF LockPresented, LinkInv, RequestLink, Out, Asked
<1>2. /\ req' \in [Requests -> Request] /\ OthersWait(r) /\ req'[r].ids \subseteq Table
      /\ \/ req'[r].pc = "done"
         \/ req'[r].pc = "decide" /\ req'[r].row = req[r].row /\ req[r].row \in Rows
  <2>1. CASE Finish(r)
    BY <2>1, Finished DEF OthersWait
  <2>2. CASE req[r].row \in Rows /\ req' = [req EXCEPT ![r].pc = "decide"]
    BY <1>1, <2>2, Moved DEF OthersWait, RequestLink
  <2> QED BY <2>1, <2>2 DEF LockPresented
<1>3. UNCHANGED <<rows, held, unheard, overlap, raced, ended, torn, member, failed, locked>>
  BY DEF LockPresented
<1>4. Kept /\ PurgesKept
  BY <1>3, RowsUnchanged
<1>5. /\ late' \subseteq late \cup {Fam(req[r].row)} /\ late \subseteq late'
      /\ \A p \in Requests :
           req[p].pc = "revoke" /\ req[r].row \in req[p].ids => Fam(req[r].row) \in late'
  BY DEF LockPresented, Fam
<1>6. TypeOK'
  BY <1>1, <1>2, <1>3, <1>5 DEF TypeOK
<1>7. LinkInv'
  <2>1. RequestLink(r)'
    BY <1>1, <1>2, <1>3 DEF RequestLink, Out, Asked, SignedIn, InRefresh, Table, Rows
  <2>2. RowLink' /\ \A q \in Requests \ {r} : RequestLink(q)'
    BY <1>2, <1>3, <1>4, LinksKept DEF OthersWait, LinkInv, RequestLink
  <2>3. ClientLink'
    BY <1>3 DEF LinkInv, ClientLink, Table, Fam
  <2> QED BY <2>1, <2>2, <2>3 DEF LinkInv
<1> QED BY <1>1, <1>2, <1>3, <1>4, <1>5, <1>6, <1>7

\* SessionPolicy::evaluate_refresh: only what is not revoked goes on, only the
\* current generation is rotated, and it takes more than the row before the
\* current one in its grace to be reuse.
LEMMA Verdicts ==
  ASSUME NEW s \in Session, NEW g \in Nat
  PROVE  /\ evaluate_refresh(s, g) = "rotate" => ~s.revoked /\ s.generation = g
         /\ evaluate_refresh(s, g) = "replay" => ~s.revoked
         /\ evaluate_refresh(s, g) = "reuse" =>
              /\ ~s.revoked /\ s.generation # g
              /\ s.generation + 1 = g => s.superseded # "recently"
BY DEF Session, evaluate_refresh

\* A decision on the presented row and the family's generation: to refuse, to
\* rotate the presented row or, for a replay, a live one, or to tear down.
LEMMA DecideStep ==
  ASSUME TypeOK, LinkInv, NEW r \in Requests, Decide(r)
  PROVE  LET s == rows[req[r].row]
             f == s.family
         IN
         /\ TypeOK' /\ LinkInv' /\ Kept /\ PurgesKept /\ OthersWait(r)
         /\ UNCHANGED <<rows, held, unheard, overlap, ended, late, torn>>
         /\ req[r].pc = "decide" /\ req[r].row \in InFamily(f)
         /\ req'[r].row = req[r].row
         /\ raced' = IF f \in RefreshingFamilies(r) THEN raced \cup {f} ELSE raced
         /\ \/ req'[r].pc = "refused"
            \/ /\ req'[r].pc = "rotate" /\ ~s.revoked
               /\ req'[r].current = Generation(f) /\ req'[r].target \in InFamily(f)
               /\ \/ req'[r].target = req[r].row /\ s.generation = Generation(f)
                  \/ Live(req'[r].target)
            \/ /\ req'[r].pc = "tear" /\ ~s.revoked
               /\ s.generation # Generation(f)
               /\ s.generation + 1 = Generation(f) => s.superseded # "recently"
<1> USE DEF client, history, credentials
<1> DEFINE i == req[r].row
           f == rows[i].family
           g == Generation(f)
           live == {k \in InFamily(f) : Live(k)}
           verdict == evaluate_refresh(rows[i], g)
<1>1. /\ req[r].pc = "decide" /\ i \in Table /\ ~rows[i].purged /\ RequestLink(r)
  BY DEF Decide, LinkInv, RequestLink, InRefresh, Out, Asked
<1>2. i \in InFamily(f) /\ f \in Ids /\ rows[i].generation \in Nat /\ i \in Ids /\ i = req[r].row
  BY <1>1, RowTypes DEF InFamily, Rows, Table, Fam
<1>3. /\ InFamily(f) \subseteq Table /\ Len(rows) \in Nat
      /\ \A k \in InFamily(f) : Fam(k) = f /\ rows[k].generation \in Nat /\ rows[k].generation < k
  BY RowTypes DEF InFamily, Rows, Table, Fam, LinkInv, RowLink
<1>4. PICK m \in InFamily(f) : g = rows[m].generation
  BY <1>2, GenerationIsLargest
<1>5. g \in Nat /\ g < Len(rows)
  <2>1. m \in 1..Len(rows)
    BY <1>3 DEF Table
  <2> QED BY <1>3, <1>4, <2>1
<1>6. /\ \/ verdict = "rotate" /\ req' = [req EXCEPT ![r].pc = "rotate", ![r].target = req[r].row,
                                                    ![r].current = g]
         \/ /\ verdict = "replay"
            /\ \E k \in live : req' = [req EXCEPT ![r].pc = "rotate", ![r].target = k,
                                                  ![r].current = g]
         \/ verdict = "reuse" /\ req' = [req EXCEPT ![r].pc = "tear",
              ![r].ids = {k \in InFamily(f) : ~rows[k].revoked}]
         \/ req' = [req EXCEPT ![r].pc = "refused"]
      /\ raced' = IF f \in RefreshingFamilies(r) THEN raced \cup {f} ELSE raced
      /\ UNCHANGED <<rows, member, credentials, client, overlap, ended, late, torn>>
  BY DEF Decide
<1>7. /\ verdict = "rotate" => ~rows[i].revoked /\ rows[i].generation = g
      /\ verdict = "replay" => ~rows[i].revoked
      /\ verdict = "reuse" => ~rows[i].revoked /\ rows[i].generation # g
                              /\ (rows[i].generation + 1 = g => rows[i].superseded # "recently")
  <2>1. rows[i] \in Session
    BY <1>1, RowTypes
  <2> HIDE DEF g, f, i
  <2> QED BY <1>5, <2>1, Verdicts
<1> HIDE DEF verdict, g, f, i
<1>8. req[r] \in Request /\ \A k \in Table : k \in 0..MaxRows
  BY RequestTypes, RowTypes DEF Ids
<1>9. /\ req' \in [Requests -> Request] /\ OthersWait(r) /\ req'[r].row = i
      /\ \/ /\ req'[r].pc = "refused" /\ req'[r].ids = req[r].ids
         \/ /\ req'[r].pc = "rotate" /\ ~rows[i].revoked /\ req'[r].ids = req[r].ids
            /\ req'[r].current = g /\ req'[r].target \in InFamily(f)
            /\ \/ req'[r].target = i /\ rows[i].generation = g
               \/ Live(req'[r].target)
         \/ /\ req'[r].pc = "tear" /\ ~rows[i].revoked /\ req'[r].ids \subseteq Table
            /\ rows[i].generation # g
            /\ rows[i].generation + 1 = g => rows[i].superseded # "recently"
  <2>1. ASSUME NEW k \in InFamily(f), ~rows[i].revoked,
               (k = i /\ rows[i].generation = g) \/ Live(k),
               req' = [req EXCEPT ![r].pc = "rotate", ![r].target = k, ![r].current = g]
        PROVE  /\ req' \in [Requests -> Request] /\ OthersWait(r) /\ req'[r].row = i
               /\ req'[r].pc = "rotate" /\ ~rows[i].revoked /\ req'[r].ids = req[r].ids
               /\ req'[r].current = g /\ req'[r].target \in InFamily(f)
               /\ \/ req'[r].target = i /\ rows[i].generation = g
                  \/ Live(req'[r].target)
    <3> DEFINE e == [req[r] EXCEPT !.pc = "rotate", !.target = k, !.current = g]
    <3>1. k \in 0..MaxRows
      BY <1>3, <1>8
    <3>2. e \in Request /\ e.pc = "rotate" /\ e.target = k /\ e.current = g
          /\ e.row = req[r].row /\ e.ids = req[r].ids
      BY <1>5, <1>8, <3>1 DEF Request
    <3>3. req' = [req EXCEPT ![r] = e]
      BY <2>1
    <3> HIDE DEF e
    <3>4. req' \in [Requests -> Request] /\ OthersWait(r) /\ req'[r] = e
      BY <3>2, <3>3, Started DEF OthersWait
    <3> QED BY <1>2, <2>1, <3>2, <3>4
  <2>2. CASE verdict = "reuse" /\ req' = [req EXCEPT ![r].pc = "tear",
               ![r].ids = {k \in InFamily(f) : ~rows[k].revoked}]
    <3> DEFINE ids == {k \in InFamily(f) : ~rows[k].revoked}
               e == [req[r] EXCEPT !.pc = "tear", !.ids = ids]
    <3>1. ids \subseteq Table /\ ids \subseteq Ids
      BY <1>3, RowTypes
    <3>2. req' = [req EXCEPT ![r] = e]
      BY <2>2
    <3> HIDE DEF ids
    <3>3. e \in Request /\ e.pc = "tear" /\ e.ids = ids /\ e.row = req[r].row
      BY <1>8, <3>1 DEF Request
    <3> HIDE DEF e
    <3>4. req' \in [Requests -> Request] /\ OthersWait(r) /\ req'[r] = e
      BY <3>2, <3>3, Started DEF OthersWait
    <3> QED BY <1>2, <1>7, <2>2, <3>1, <3>3, <3>4
  <2>3. CASE req' = [req EXCEPT ![r].pc = "refused"]
    BY <1>2, <2>3, Moved DEF OthersWait
  <2>4. CASE verdict = "rotate" /\ req' = [req EXCEPT ![r].pc = "rotate", ![r].target = req[r].row,
                                                    ![r].current = g]
    BY <1>2, <1>7, <2>1, <2>4
  <2>5. CASE verdict = "replay" /\ \E k \in live :
               req' = [req EXCEPT ![r].pc = "rotate", ![r].target = k, ![r].current = g]
    BY <1>7, <2>1, <2>5
  <2> QED BY <1>6, <2>2, <2>3, <2>4, <2>5
<1>10. Kept /\ PurgesKept
  BY <1>6, RowsUnchanged
<1>11. TypeOK'
  BY <1>2, <1>6, <1>9 DEF TypeOK
<1>12. LinkInv'
  <2>1. RequestLink(r)'
    BY <1>1, <1>2, <1>3, <1>5, <1>6, <1>9
       DEF RequestLink, Out, Asked, SignedIn, InRefresh, Table, Fam
  <2>2. RowLink' /\ \A q \in Requests \ {r} : RequestLink(q)'
    BY <1>6, <1>9, <1>10, LinksKept DEF OthersWait, LinkInv, RequestLink
  <2>3. ClientLink'
    BY <1>6 DEF LinkInv, ClientLink, Table, Fam
  <2> QED BY <2>1, <2>2, <2>3 DEF LinkInv
<1> QED BY <1>1, <1>2, <1>6, <1>9, <1>10, <1>11, <1>12 DEF f, g, i

\* A rotation that is written: a new generation, and the target superseded.
RotatedTo(r) ==
  LET f == Fam(req[r].row) IN
  /\ Grown(f, req[r].current + 1, req[r].target)
  /\ req'[r].pc = "answer" /\ req'[r].row = Len(rows) + 1
  /\ \A k \in Ids : unheard'[k] = IF k = f THEN unheard[f] + 1 ELSE unheard[k]

\* The family of who is no longer a member, revoked instead.
RefusedAndRevoked(r) ==
  /\ Kept /\ PurgesKept /\ UNCHANGED unheard
  /\ req'[r].pc = "refused" /\ req'[r].row = req[r].row

LEMMA RotateStep ==
  ASSUME TypeOK, LinkInv, NEW r \in Requests, RotateOntoNewGeneration(r)
  PROVE  /\ TypeOK' /\ LinkInv' /\ OthersWait(r)
         /\ UNCHANGED <<held, overlap, raced, ended, late, torn>>
         /\ req[r].pc = "rotate" /\ req[r].row \in Rows /\ Fam(req[r].row) \in Ids
         /\ req[r].target \in Table /\ Fam(req[r].target) = Fam(req[r].row)
         /\ RotatedTo(r) \/ RefusedAndRevoked(r)
<1> USE DEF client, history, credentials
<1> DEFINE s == rows[req[r].row]
           f == s.family
<1>1. /\ req[r].pc = "rotate" /\ RequestLink(r) /\ req[r].row \in Table
      /\ ~rows[req[r].row].purged /\ req[r].target \in Table
      /\ Fam(req[r].target) = Fam(req[r].row) /\ req[r].current < Len(rows)
  BY DEF RotateOntoNewGeneration, LinkInv, RequestLink, InRefresh, Out, Asked
<1>2. /\ f \in Ids /\ f <= Len(rows) + 1 /\ req[r].current + 1 \in Nat /\ Len(rows) \in Nat
      /\ req[r].current + 1 < Len(rows) + 1 /\ s.company \in Companies /\ f = Fam(req[r].row)
  <2>1. f <= req[r].row
    BY <1>1 DEF LinkInv, RowLink, Fam
  <2>2. req[r].row \in 1..Len(rows) /\ Len(rows) \in Nat /\ req[r].current \in Nat /\ f \in Nat
    BY <1>1, RowTypes, RequestTypes DEF Table, Fam, Ids
  <2>3. f \in Ids /\ s.company \in Companies /\ f = Fam(req[r].row)
    BY <1>1, RowTypes DEF Fam
  <2> QED BY <1>1, <2>1, <2>2, <2>3
<1>3. UNCHANGED <<held, overlap, raced, ended, late, torn, member, failed, locked>>
  BY DEF RotateOntoNewGeneration
<1>4. ASSUME Len(rows) < MaxRows,
             rows' = Append(Supersede(req[r].target), NewSession(f, req[r].current + 1, s.company)),
             req' = [req EXCEPT ![r] = AtRow("answer", Len(rows) + 1)],
             unheard' = [unheard EXCEPT ![f] = @ + 1]
      PROVE  TypeOK' /\ LinkInv' /\ OthersWait(r) /\ RotatedTo(r)
  <2> HIDE DEF f, s
  <2>1. Grown(f, req[r].current + 1, req[r].target)
    BY <1>1, <1>2, <1>4, RotationGrows
  <2>2. Len(rows) + 1 \in Ids
    BY <1>2, <1>4, MaxRowsAssumption DEF Ids
  <2>3. PICK n \in Ids : n = Len(rows) + 1
    BY <2>2
  <2>4. /\ AtRow("answer", n) \in Request /\ AtRow("answer", n).pc = "answer"
        /\ AtRow("answer", n).row = n /\ AtRow("answer", n).ids = {}
    BY WithRow
  <2>5. req' \in [Requests -> Request] /\ OthersWait(r) /\ req'[r] = AtRow("answer", n)
    BY <1>4, <2>3, <2>4, Started DEF OthersWait
  <2>6. /\ unheard' \in [Ids -> Nat]
        /\ \A k \in Ids : unheard'[k] = IF k = f THEN unheard[f] + 1 ELSE unheard[k]
    BY <1>2, <1>4 DEF TypeOK
  <2>7. RotatedTo(r)
    <3>1. req'[r].pc = "answer" /\ req'[r].row = Len(rows) + 1
      BY <2>3, <2>4, <2>5
    <3> QED BY <1>2, <2>1, <2>6, <3>1 DEF RotatedTo
  <2>8. TypeOK'
    <3>1. rows' \in Seq(Session) /\ Len(rows') <= MaxRows
      BY <1>2, <1>4, <2>1, MaxRowsAssumption DEF Grown
    <3>2. /\ member \subseteq Companies /\ failed \in 0..MaxFailed
          /\ locked \in {"none", "future", "past"} /\ held \in [Ids -> 0..MaxRows]
          /\ raced \cup overlap \cup ended \cup late \subseteq Ids
          /\ torn \subseteq [family : Ids, missed : Nat, graceOver : BOOLEAN]
      BY DEF TypeOK
    <3> QED BY <1>3, <2>5, <2>6, <3>1, <3>2 DEF TypeOK
  <2>9. RowLink' /\ \A q \in Requests \ {r} : RequestLink(q)'
    BY <1>2, <2>1, <2>5, LinksGrown DEF OthersWait
  <2>10. RequestLink(r)'
    BY <1>2, <2>1, <2>3, <2>4, <2>5 DEF RequestLink, Out, Asked, SignedIn, InRefresh, Table, Grown
  <2>11. ClientLink'
    <3> SUFFICES ASSUME NEW k \in Ids
                 PROVE  /\ held'[k] # 0 => held'[k] \in 1..Len(rows') /\ rows'[held'[k]].family = k
                        /\ k > Len(rows') => unheard'[k] = 0 /\ k \notin ended'
      BY DEF ClientLink, Table, Fam
    <3>1. held[k] # 0 => held[k] \in 1..Len(rows') /\ rows'[held[k]].family = k
      BY <1>2, <2>1, LinksGrown
    <3>2. Len(rows') = Len(rows) + 1 /\ k \in Nat /\ f \in Nat
      BY <1>2, <2>1 DEF Grown, Ids
    <3>3. k > Len(rows) => unheard[k] = 0 /\ k \notin ended
      BY DEF LinkInv, ClientLink
    <3>4. k > Len(rows') => k # f
      BY <1>2, <3>2
    <3> QED BY <1>2, <1>3, <2>6, <3>1, <3>2, <3>3, <3>4
  <2> QED BY <2>5, <2>7, <2>8, <2>9, <2>10, <2>11 DEF LinkInv
<1>5. ASSUME Revoke(InFamily(f)), req' = [req EXCEPT ![r].pc = "refused"], UNCHANGED unheard
      PROVE  TypeOK' /\ LinkInv' /\ OthersWait(r) /\ RefusedAndRevoked(r)
  <2>1. Kept /\ PurgesKept
    BY <1>5, RevokeUpdates
  <2>2. /\ req' \in [Requests -> Request] /\ OthersWait(r) /\ req'[r].pc = "refused"
        /\ req'[r].row = req[r].row /\ req'[r].ids = req[r].ids
    BY <1>5, Moved DEF OthersWait
  <2>3. TypeOK'
    BY <1>3, <1>5, <2>1, <2>2 DEF TypeOK, Kept
  <2>4. RowLink' /\ \A q \in Requests \ {r} : RequestLink(q)'
    BY <2>1, <2>2, LinksKept DEF OthersWait, LinkInv, RequestLink, PurgesKept, InRefresh, Out, Asked
  <2>5. RequestLink(r)'
    BY <1>1, <2>1, <2>2 DEF RequestLink, Out, Asked, SignedIn, InRefresh, Table, Kept
  <2>6. ClientLink'
    BY <1>3, <1>5, <2>1, LinksKept DEF Kept, LinkInv, ClientLink, Table, Fam
  <2> QED BY <1>5, <2>1, <2>2, <2>3, <2>4, <2>5, <2>6 DEF LinkInv, RefusedAndRevoked
<1>6. \/ /\ Len(rows) < MaxRows
         /\ rows' = Append(Supersede(req[r].target), NewSession(f, req[r].current + 1, s.company))
         /\ req' = [req EXCEPT ![r] = AtRow("answer", Len(rows) + 1)]
         /\ unheard' = [unheard EXCEPT ![f] = @ + 1]
      \/ Revoke(InFamily(f)) /\ req' = [req EXCEPT ![r].pc = "refused"] /\ UNCHANGED unheard
  BY DEF RotateOntoNewGeneration, AtRow
<1> QED
  <2>1. req[r].row \in Rows
    BY <1>1 DEF Rows, Table
  <2> HIDE DEF f, s
  <2> QED BY <1>1, <1>2, <1>3, <1>4, <1>5, <1>6, <2>1

\* The rows the tear-down saw are revoked, and why is remembered.
LEMMA TearStep ==
  ASSUME TypeOK, LinkInv, NEW r \in Requests, TearDownFamily(r)
  PROVE  /\ TypeOK' /\ LinkInv' /\ Kept /\ PurgesKept /\ OthersWait(r)
         /\ UNCHANGED <<held, unheard, overlap, raced, ended, late>>
         /\ req[r].pc = "tear" /\ req[r].row \in Table
         /\ req'[r].pc = "refused" /\ req'[r].row = req[r].row
         /\ \A t \in torn' : t \in torn \/
              /\ t.family = Fam(req[r].row) /\ t.missed = unheard[Fam(req[r].row)]
              /\ t.graceOver = (rows[req[r].row].superseded = "long_ago")
<1> USE DEF client, history, credentials
<1>1. /\ req[r].pc = "tear" /\ RequestLink(r) /\ req[r].row \in Table /\ Fam(req[r].row) \in Ids
  BY RowTypes DEF TearDownFamily, LinkInv, RequestLink, InRefresh, Out, Asked
<1>2. Kept /\ PurgesKept
  BY RevokeUpdates DEF TearDownFamily
<1>3. /\ req' \in [Requests -> Request] /\ OthersWait(r) /\ req'[r].pc = "refused"
      /\ req'[r].row = req[r].row /\ req'[r].ids = req[r].ids
  BY Moved DEF OthersWait, TearDownFamily
<1>4. UNCHANGED <<held, unheard, overlap, raced, ended, late, member, failed, locked>>
  BY DEF TearDownFamily
<1> DEFINE t0 == [family |-> Fam(req[r].row), missed |-> unheard[Fam(req[r].row)],
                  graceOver |-> rows[req[r].row].superseded = "long_ago"]
<1>5. torn' = torn \cup {t0}
  BY DEF TearDownFamily, Fam
<1>6. /\ t0 \in [family : Ids, missed : Nat, graceOver : BOOLEAN]
      /\ t0.family = Fam(req[r].row) /\ t0.missed = unheard[Fam(req[r].row)]
      /\ t0.graceOver = (rows[req[r].row].superseded = "long_ago")
  BY <1>1 DEF TypeOK
<1> HIDE DEF t0
<1>7. TypeOK'
  BY <1>2, <1>3, <1>4, <1>5, <1>6 DEF TypeOK, Kept
<1>8. LinkInv'
  <2>1. RowLink' /\ \A q \in Requests \ {r} : RequestLink(q)'
    BY <1>2, <1>3, LinksKept DEF OthersWait, LinkInv, RequestLink, PurgesKept, InRefresh, Out, Asked
  <2>2. RequestLink(r)'
    BY <1>1, <1>2, <1>3 DEF RequestLink, Out, Asked, SignedIn, InRefresh, Table, Kept
  <2>3. ClientLink'
    BY <1>2, <1>4, LinksKept DEF Kept, LinkInv, ClientLink, Table, Fam
  <2> QED BY <2>1, <2>2, <2>3 DEF LinkInv
<1> QED BY <1>1, <1>2, <1>3, <1>4, <1>5, <1>6, <1>7, <1>8

\* The client is abreast again.
LEMMA ReceiveStep ==
  ASSUME TypeOK, LinkInv, NEW r \in Requests, ReceiveTokens(r)
  PROVE  /\ TypeOK' /\ LinkInv' /\ Kept /\ PurgesKept /\ OthersWait(r)
         /\ UNCHANGED <<rows, overlap, raced, ended, late, torn>>
         /\ req[r].pc = "answer" /\ req[r].row \in Table /\ req'[r].pc = "done"
         /\ \A k \in Ids :
              /\ held'[k] = IF k = Fam(req[r].row) THEN req[r].row ELSE held[k]
              /\ unheard'[k] = IF k = Fam(req[r].row) THEN 0 ELSE unheard[k]
<1> USE DEF client, history, credentials
<1> DEFINE f == Fam(req[r].row)
           i == req[r].row
<1>1. /\ req[r].pc = "answer" /\ RequestLink(r) /\ i \in Table /\ f \in Ids /\ i \in 0..MaxRows
  <2>1. req[r].pc = "answer" /\ RequestLink(r) /\ i \in Table
    BY DEF ReceiveTokens, LinkInv, RequestLink, Out, Asked
  <2> QED BY <2>1, RowTypes DEF Ids
<1>2. req' \in [Requests -> Request] /\ OthersWait(r) /\ req'[r].pc = "done" /\ req'[r].ids = {}
  BY Finished DEF ReceiveTokens, OthersWait
<1>3. UNCHANGED <<rows, overlap, raced, ended, late, torn, member, failed, locked>>
  BY DEF ReceiveTokens
<1>4. held' = [held EXCEPT ![f] = i] /\ unheard' = [unheard EXCEPT ![f] = 0]
  BY DEF ReceiveTokens, Fam
<1> HIDE DEF f, i
<1>5. /\ held' \in [Ids -> 0..MaxRows] /\ unheard' \in [Ids -> Nat]
      /\ \A k \in Ids : /\ held'[k] = IF k = f THEN i ELSE held[k]
                        /\ unheard'[k] = IF k = f THEN 0 ELSE unheard[k]
  <2>1. held \in [Ids -> 0..MaxRows] /\ unheard \in [Ids -> Nat]
    BY DEF TypeOK
  <2> QED BY <1>1, <1>4, <2>1
<1>6. Kept /\ PurgesKept
  BY <1>3, RowsUnchanged
<1>7. TypeOK'
  BY <1>2, <1>3, <1>5 DEF TypeOK
<1>8. LinkInv'
  <2>1. RequestLink(r)'
    BY <1>2 DEF RequestLink, Out, Asked, SignedIn, InRefresh
  <2>2. RowLink' /\ \A q \in Requests \ {r} : RequestLink(q)'
    BY <1>2, <1>3, <1>6, LinksKept DEF OthersWait, LinkInv, RequestLink
  <2>3. ClientLink'
    <3>1. Fam(i) = f
      BY DEF f, i
    <3> QED BY <1>1, <1>3, <1>5, <3>1 DEF LinkInv, ClientLink, Table, Fam
  <2> QED BY <2>1, <2>2, <2>3 DEF LinkInv
<1> QED BY <1>1, <1>2, <1>3, <1>5, <1>6, <1>7, <1>8 DEF f, i

\* A revocation takes its snapshot.
LEMMA BeginStep ==
  ASSUME TypeOK, LinkInv, NEW r \in Requests, BeginRevocation(r),
         req[r].pc \in {"sign_out", "sign_out_everywhere", "change_password"}
  PROVE  /\ TypeOK' /\ LinkInv' /\ Kept /\ PurgesKept /\ OthersWait(r)
         /\ UNCHANGED <<rows, held, unheard, overlap, raced, ended, torn>>
         /\ req[r].row \in Table
         /\ req'[r].pc = "revoke" /\ req'[r].why = req[r].pc /\ req'[r].row = req[r].row
         /\ req'[r].ids = {i \in RevocationScope(req[r].pc, req[r].row) : ~rows[i].revoked}
         /\ late' = late \cup RefreshingFamilies(r)
<1> USE DEF client, history, credentials
<1>1. /\ RequestLink(r) /\ req[r].row \in Table /\ req[r] \in Request
  BY RequestTypes DEF LinkInv, RequestLink, SignedIn
<1> DEFINE ids == {i \in RevocationScope(req[r].pc, req[r].row) : ~rows[i].revoked}
           e == [req[r] EXCEPT !.pc = "revoke", !.why = req[r].pc, !.ids = ids]
<1>2. ids \subseteq Table /\ ids \subseteq Ids
  BY RowTypes DEF RevocationScope, InFamily, Rows, Table
<1>3. /\ req' = [req EXCEPT ![r] = e] /\ late' = late \cup RefreshingFamilies(r)
      /\ UNCHANGED <<rows, held, unheard, overlap, raced, ended, torn, member, failed, locked>>
  BY DEF BeginRevocation
<1> HIDE DEF ids
<1>4. e \in Request /\ e.pc = "revoke" /\ e.why = req[r].pc /\ e.row = req[r].row /\ e.ids = ids
  BY <1>1, <1>2 DEF Request
<1> HIDE DEF e
<1>5. req' \in [Requests -> Request] /\ OthersWait(r) /\ req'[r] = e
  BY <1>3, <1>4, Started DEF OthersWait
<1>6. Kept /\ PurgesKept
  BY <1>3, RowsUnchanged
<1>7. RefreshingFamilies(r) \subseteq Ids
  BY RowTypes DEF RefreshingFamilies, LinkInv, RequestLink, InRefresh, Out, Asked, Fam
<1>8. TypeOK'
  BY <1>3, <1>5, <1>7 DEF TypeOK
<1>9. LinkInv'
  <2>1. RequestLink(r)'
    BY <1>1, <1>2, <1>3, <1>4, <1>5 DEF RequestLink, Out, Asked, SignedIn, InRefresh, Table
  <2>2. RowLink' /\ \A q \in Requests \ {r} : RequestLink(q)'
    BY <1>3, <1>5, <1>6, LinksKept DEF OthersWait, LinkInv, RequestLink
  <2>3. ClientLink'
    BY <1>3 DEF LinkInv, ClientLink, Table, Fam
  <2> QED BY <2>1, <2>2, <2>3 DEF LinkInv
<1> QED BY <1>1, <1>3, <1>4, <1>5, <1>6, <1>8, <1>9 DEF ids

\* The snapshot's rows are revoked.
LEMMA CommitStep ==
  ASSUME TypeOK, LinkInv, NEW r \in Requests, CommitRevocation(r)
  PROVE  /\ TypeOK' /\ LinkInv' /\ Kept /\ PurgesKept /\ OthersWait(r)
         /\ UNCHANGED <<unheard, overlap, raced, late, torn>>
         /\ req[r].pc = "revoke" /\ req'[r].pc = "done"
         /\ \A f \in Ids : held'[f] \in {held[f], 0}
         /\ \A i \in Table : rows'[i].revoked = (rows[i].revoked \/ i \in req[r].ids)
         /\ ended \subseteq ended' /\ \A f \in ended' : f \in ended \/ Covered(r, f)
<1> USE DEF client, history, credentials
<1>1. req[r].pc = "revoke" /\ RequestLink(r) /\ req[r].row \in Table /\ req[r].ids \subseteq Table
  BY DEF CommitRevocation, LinkInv, RequestLink, SignedIn
<1>2. /\ Kept /\ PurgesKept
      /\ \A i \in Table : rows'[i].revoked = (rows[i].revoked \/ i \in req[r].ids)
  BY RevokeUpdates DEF CommitRevocation
<1>3. req' \in [Requests -> Request] /\ OthersWait(r) /\ req'[r].pc = "done" /\ req'[r].ids = {}
  BY Finished DEF CommitRevocation, OthersWait
<1>4. UNCHANGED <<unheard, overlap, raced, late, torn, member>>
  BY DEF CommitRevocation
<1>5. failed' \in 0..MaxFailed /\ locked' \in {"none", "future", "past"}
  <2>1. (failed' = 0 /\ locked' = "none") \/ UNCHANGED <<failed, locked>>
    BY DEF CommitRevocation
  <2> QED BY <2>1, MaxFailedAssumption DEF TypeOK
<1>6. held' \in [Ids -> 0..MaxRows] /\ \A f \in Ids : held'[f] \in {held[f], 0}
  <2>1. held' = [held EXCEPT ![Fam(req[r].row)] = 0] \/ held' = held
    BY DEF CommitRevocation, Fam
  <2>2. held \in [Ids -> 0..MaxRows] /\ 0 \in 0..MaxRows
    BY MaxRowsAssumption DEF TypeOK
  <2> QED BY <2>1, <2>2
<1>7. ended \subseteq ended' /\ \A f \in ended' : f \in ended \/ Covered(r, f)
  BY DEF CommitRevocation, Covered, Fam
<1>8. \A f \in ended' \ ended : f \in Ids /\ f <= Len(rows)
  <2> SUFFICES ASSUME NEW f \in ended', f \notin ended
               PROVE  f \in Ids /\ f <= Len(rows)
    OBVIOUS
  <2>1. PICK i \in req[r].ids : Fam(i) = f
    BY <1>7 DEF Covered
  <2>2. i \in 1..Len(rows) /\ Len(rows) \in Nat /\ f \in Ids /\ f <= i
    BY <1>1, <2>1, RowTypes DEF Table, LinkInv, RowLink
  <2> QED BY <2>2 DEF Ids
<1>9. TypeOK'
  BY <1>2, <1>3, <1>4, <1>5, <1>6, <1>8 DEF TypeOK, Kept
<1>10. LinkInv'
  <2>1. RequestLink(r)'
    BY <1>3 DEF RequestLink, Out, Asked, SignedIn, InRefresh
  <2>2. RowLink' /\ \A q \in Requests \ {r} : RequestLink(q)'
    BY <1>2, <1>3, LinksKept DEF OthersWait, LinkInv, RequestLink, PurgesKept, InRefresh, Out, Asked
  <2>3. ClientLink'
    <3> SUFFICES ASSUME NEW f \in Ids
                 PROVE  /\ held'[f] # 0 => held'[f] \in 1..Len(rows') /\ rows'[held'[f]].family = f
                        /\ f > Len(rows') => unheard'[f] = 0 /\ f \notin ended'
      BY DEF ClientLink, Table, Fam
    <3>1. held[f] # 0 => held[f] \in 1..Len(rows') /\ rows'[held[f]].family = f
      BY <1>2, LinksKept
    <3>2. held'[f] = held[f] \/ held'[f] = 0
      BY <1>6
    <3>3. Len(rows') = Len(rows) /\ Len(rows) \in Nat /\ f \in Nat
      BY <1>2, RowTypes DEF Kept, Ids
    <3>4. f > Len(rows) => unheard[f] = 0 /\ f \notin ended
      BY DEF LinkInv, ClientLink
    <3>5. f > Len(rows) => f \notin ended'
      BY <1>8, <3>3, <3>4
    <3> QED BY <1>4, <3>1, <3>2, <3>3, <3>4, <3>5
  <2> QED BY <2>1, <2>2, <2>3 DEF LinkInv
<1> QED BY <1>1, <1>2, <1>3, <1>4, <1>6, <1>7, <1>9, <1>10

-----------------------------------------------------------------------------
(* Every step is quiet or one of nine.                                      *)

QuietStep ==
  /\ TypeOK' /\ LinkInv' /\ PurgeInv' /\ Quiet
  /\ \A i \in Table : rows[i].purged => rows'[i].purged

Active(r) ==
  \/ issue_session(r) \/ SendRefresh(r) \/ LockPresented(r) \/ Decide(r)
  \/ RotateOntoNewGeneration(r) \/ TearDownFamily(r) \/ ReceiveTokens(r)
  \/ /\ req[r].pc \in {"sign_out", "sign_out_everywhere", "change_password"}
     /\ BeginRevocation(r)
  \/ CommitRevocation(r)

LEMMA PurgeInvKept ==
  ASSUME PurgeInv, Kept, PurgesKept
  PROVE  PurgeInv' /\ \A i \in Table : rows[i].purged => rows'[i].purged
BY DEF PurgeInv, Kept, PurgesKept, Table, Fam

LEMMA StepKinds ==
  ASSUME TypeOK, LinkInv, PurgeInv, [Next]_vars
  PROVE  QuietStep \/ \E r \in Requests : Active(r)
<1>1. ASSUME NEW r \in Requests, Step(r)
      PROVE  QuietStep \/ Active(r)
  <2>1. CASE Active(r)
    BY <2>1
  <2>2. CASE CommitSwitch(r)
    BY <2>2, SwitchStep, PurgeInvKept DEF QuietStep, Quiet
  <2>3. CASE /\ UNCHANGED rows
             /\ \/ ReadCredential(r) \/ RecordFailedAttempt(r) \/ LockAccount(r) \/ SignIn(r)
                \/ ReceiveRefusal(r) \/ Authorise(r) \/ SwitchCompany(r) \/ Abandon(r)
                \/ Finish(r) /\ UNCHANGED <<rows, member, credentials, client, history>>
    BY <2>3, QuietRequest, PurgeInvKept DEF QuietStep, Quiet
  <2>4. SignOut(r) \/ SignOutEverywhere(r) =>
          Active(r)
    BY DEF SignOut, SignOutEverywhere, Active
  <2>5. ChangePassword(r) =>
          \/ Active(r)
          \/ Finish(r) /\ UNCHANGED <<rows, member, credentials, client, history>>
    BY DEF ChangePassword, Active
  <2>6. \/ ReadCredential(r) \/ RecordFailedAttempt(r) \/ LockAccount(r) \/ SignIn(r)
        \/ ReceiveRefusal(r) \/ Authorise(r) \/ SwitchCompany(r) \/ Abandon(r)
        => UNCHANGED rows
    BY DEF ReadCredential, RecordFailedAttempt, LockAccount, SignIn, ReceiveRefusal, Authorise,
           SwitchCompany, Abandon
  <2>7. \/ issue_session(r) \/ SendRefresh(r) \/ LockPresented(r) \/ Decide(r)
        \/ RotateOntoNewGeneration(r) \/ TearDownFamily(r) \/ ReceiveTokens(r)
        \/ CommitRevocation(r)
        => Active(r)
    BY DEF Active
  <2> QED BY <1>1, <2>1, <2>2, <2>3, <2>4, <2>5, <2>6, <2>7 DEF Step
<1>2. CASE RefreshExpires \/ GraceEnds \/ LockElapses \/ MembershipEnds \/ UNCHANGED vars
  BY <1>2, TimeStep, PurgeInvKept DEF QuietStep, Quiet
<1>3. CASE purge_expired_sessions
  BY <1>3, PurgeStep DEF QuietStep
<1> QED BY <1>1, <1>2, <1>3 DEF Next

\* Types and links.
LEMMA TypeLinkStep ==
  ASSUME TypeOK, LinkInv, PurgeInv, [Next]_vars
  PROVE  TypeOK' /\ LinkInv'
<1>1. CASE QuietStep
  BY <1>1 DEF QuietStep
<1>2. ASSUME NEW r \in Requests, Active(r) PROVE TypeOK' /\ LinkInv'
  BY <1>2, IssueStep, SendStep, LockStep, DecideStep, RotateStep, TearStep, ReceiveStep,
     BeginStep, CommitStep DEF Active
<1> QED BY <1>1, <1>2, StepKinds

\* What an active step does to the table.
LEMMA ActiveRows ==
  ASSUME TypeOK, LinkInv, NEW r \in Requests, Active(r)
  PROVE  /\ OthersWait(r)
         /\ \/ Kept /\ PurgesKept
            \/ issue_session(r) /\ Grown(Len(rows) + 1, 0, 0)
            \/ RotateOntoNewGeneration(r) /\ RotatedTo(r)
         /\ raced \subseteq raced' /\ overlap \subseteq overlap' /\ ended \subseteq ended'
         /\ late \subseteq late'
<1>1. CASE issue_session(r)
  BY <1>1, IssueStep
<1>2. CASE SendRefresh(r)
  BY <1>2, SendStep
<1>3. CASE LockPresented(r)
  BY <1>3, LockStep
<1>4. CASE Decide(r)
  BY <1>4, DecideStep
<1>5. CASE RotateOntoNewGeneration(r)
  BY <1>5, RotateStep DEF RefusedAndRevoked
<1>6. CASE TearDownFamily(r)
  BY <1>6, TearStep
<1>7. CASE ReceiveTokens(r)
  BY <1>7, ReceiveStep
<1>8. CASE /\ req[r].pc \in {"sign_out", "sign_out_everywhere", "change_password"}
           /\ BeginRevocation(r)
  BY <1>8, BeginStep
<1>9. CASE CommitRevocation(r)
  BY <1>9, CommitStep
<1> QED BY <1>1, <1>2, <1>3, <1>4, <1>5, <1>6, <1>7, <1>8, <1>9 DEF Active

LEMMA PurgeInvStep ==
  ASSUME TypeOK, LinkInv, PurgeInv, [Next]_vars
  PROVE  PurgeInv'
<1>1. CASE QuietStep
  BY <1>1 DEF QuietStep
<1>2. ASSUME NEW f, NEW g, NEW t, Grown(f, g, t) PROVE PurgeInv'
  <2>1. Len(rows) \in Nat
    BY RowTypes
  <2> QED BY <1>2, <2>1 DEF Grown, PurgeInv, Table, Fam
<1>3. ASSUME NEW r \in Requests, Active(r) PROVE PurgeInv'
  BY <1>2, <1>3, ActiveRows, PurgeInvKept DEF RotatedTo
<1> QED BY <1>1, <1>3, StepKinds

LEMMA ChainInvKept ==
  ASSUME ChainInv, Kept, raced \subseteq raced'
  PROVE  ChainInv'
BY DEF ChainInv, Kept, Table, Fam

LEMMA ChainInvStep ==
  ASSUME TypeOK, LinkInv, PurgeInv, ChainInv, RotateInv, [Next]_vars
  PROVE  ChainInv'
<1>1. CASE QuietStep
  BY <1>1, ChainInvKept DEF QuietStep, Quiet
<1>2. ASSUME NEW r \in Requests, Active(r) PROVE ChainInv'
  <2>1. CASE Kept
    BY <1>2, <2>1, ActiveRows, ChainInvKept
  <2>2. ASSUME NEW f \in Ids, NEW g \in Nat, NEW t, Grown(f, g, t),
               f \notin raced =>
                 \A i \in Table : Fam(i) = f =>
                   rows[i].generation < g /\ (rows[i].superseded # "no" \/ i = t)
        PROVE  ChainInv'
    <3>1. /\ Len(rows) \in Nat /\ Len(rows') = Len(rows) + 1 /\ raced \subseteq raced'
          /\ \A i \in Table : /\ rows'[i].family = rows[i].family
                              /\ rows'[i].generation = rows[i].generation
                              /\ rows'[i].superseded =
                                   IF i = t THEN "recently" ELSE rows[i].superseded
          /\ rows'[Len(rows) + 1].family = f /\ rows'[Len(rows) + 1].generation = g
      BY <1>2, <2>2, RowTypes, ActiveRows DEF Grown, Fam
    <3> SUFFICES ASSUME NEW i \in 1..Len(rows'), NEW j \in 1..Len(rows'), i < j,
                        rows'[i].family = rows'[j].family, rows'[i].family \notin raced'
                 PROVE  rows'[i].generation < rows'[j].generation /\ rows'[i].superseded # "no"
      BY DEF ChainInv, Table, Fam
    <3>2. i \in Table
      BY <3>1 DEF Table
    <3>3. CASE j \in Table
      BY <3>1, <3>2, <3>3 DEF ChainInv, Fam
    <3>4. CASE j = Len(rows) + 1
      BY <2>2, <3>1, <3>2, <3>4 DEF Fam
    <3> QED BY <3>1, <3>3, <3>4 DEF Table
  <2>3. CASE issue_session(r) /\ Grown(Len(rows) + 1, 0, 0)
    <3>1. \A i \in Table : Fam(i) # Len(rows) + 1
      BY RowTypes DEF LinkInv, RowLink, Table, Ids
    <3>2. Len(rows) + 1 \in Ids
      BY <2>3, RowTypes, MaxRowsAssumption DEF issue_session, Ids
    <3> QED BY <2>2, <2>3, <3>1, <3>2
  <2>4. CASE RotateOntoNewGeneration(r) /\ RotatedTo(r)
    <3> DEFINE f == Fam(req[r].row)
               t == req[r].target
    <3>1. f \in Ids /\ req[r].current + 1 \in Nat /\ t \in Table /\ Fam(t) = f
          /\ req[r].pc = "rotate"
      BY <2>4, RotateStep, RequestTypes
    <3>2. f \notin raced => Newest(t) /\ req[r].current = rows[t].generation
      BY <3>1 DEF RotateInv, Decided
    <3>3. ASSUME f \notin raced, NEW i \in Table, Fam(i) = f
          PROVE  rows[i].generation < req[r].current + 1 /\ (rows[i].superseded # "no" \/ i = t)
      <4>1. rows[i].generation \in Nat /\ rows[t].generation \in Nat
        BY <3>1, RowTypes
      <4>2. CASE i = t
        BY <3>2, <3>3, <4>1, <4>2
      <4>3. CASE i # t
        <5>1. i < t
          BY <3>1, <3>2, <3>3, <4>3 DEF Newest, Table
        <5>2. rows[i].generation < rows[t].generation /\ rows[i].superseded # "no"
          BY <3>1, <3>3, <5>1 DEF ChainInv
        <5> QED BY <3>2, <3>3, <4>1, <5>2
      <4> QED BY <4>2, <4>3
    <3>4. Grown(f, req[r].current + 1, t)
      BY <2>4 DEF RotatedTo
    <3> HIDE DEF f, t
    <3> QED BY <2>2, <3>1, <3>3, <3>4
  <2> QED BY <1>2, <2>1, <2>3, <2>4, ActiveRows
<1> QED BY <1>1, <1>2, StepKinds

\* A decision taken stays right while nothing else writes its family.
LEMMA DecidedKept ==
  ASSUME TypeOK, LinkInv, Kept, raced \subseteq raced',
         NEW q \in Requests, Decided(q), req'[q] = req[q]
  PROVE  Decided(q)'
<1>1. req[q].pc = "rotate" =>
        /\ req[q].row \in Table /\ req[q].target \in Table
  BY DEF LinkInv, RequestLink, Out, Asked
<1> QED BY <1>1 DEF Decided, Newest, Kept, Table, Fam

LEMMA DecidedGrown ==
  ASSUME TypeOK, LinkInv, NEW f, NEW g, NEW t, Grown(f, g, t), raced \subseteq raced',
         NEW q \in Requests, Decided(q), req'[q] = req[q],
         req[q].pc = "rotate" /\ Fam(req[q].row) = f => f \in raced
  PROVE  Decided(q)'
<1> SUFFICES ASSUME req[q].pc = "rotate", rows'[req[q].row].family \notin raced'
             PROVE  /\ \A j \in 1..Len(rows') :
                         rows'[j].family = rows'[req[q].target].family => j <= req[q].target
                    /\ req[q].current = rows'[req[q].target].generation
  BY DEF Decided, Newest, Table, Fam
<1>1. /\ req[q].row \in Table /\ req[q].target \in Table
      /\ Fam(req[q].target) = Fam(req[q].row)
  BY DEF LinkInv, RequestLink, Out, Asked
<1>2. /\ Len(rows) \in Nat /\ Len(rows') = Len(rows) + 1 /\ rows'[Len(rows) + 1].family = f
      /\ \A i \in Table : /\ rows'[i].family = rows[i].family
                          /\ rows'[i].generation = rows[i].generation
  BY RowTypes DEF Grown, Fam
<1>3. Fam(req[q].row) \notin raced /\ Fam(req[q].row) # f
  BY <1>1, <1>2 DEF Fam
<1>4. Newest(req[q].target) /\ req[q].current = rows[req[q].target].generation
  BY <1>3 DEF Decided
<1>5. \A j \in 1..Len(rows') : j \in Table \/ j = Len(rows) + 1
  BY <1>2 DEF Table
<1> QED BY <1>1, <1>2, <1>3, <1>4, <1>5 DEF Newest, Fam

\* In a family nobody raced for, what Decide takes for the current generation
\* is the last row's, and a live row is the last.
LEMMA UnracedNewest ==
  ASSUME TypeOK, LinkInv, PurgeInv, ChainInv, NEW f \in Ids \ raced, NEW i \in InFamily(f)
  PROVE  /\ Live(i) => Newest(i)
         /\ rows[i].generation = Generation(f) => Newest(i)
         /\ \E m \in InFamily(f) : Newest(m) /\ rows[m].generation = Generation(f)
<1>1. /\ \A k \in InFamily(f) : k \in Table /\ Fam(k) = f /\ ~rows[k].purged
      /\ \A k \in Table : rows[k].generation \in Nat
  BY RowTypes DEF InFamily, Rows, Table, Fam
<1>2. \A k \in InFamily(f), j \in Table : Fam(j) = f /\ k < j => j \in InFamily(f)
  BY <1>1 DEF PurgeInv, InFamily, Rows, Table, Fam
<1>3. \A k \in InFamily(f), j \in Table : Fam(j) = f /\ ~(j <= k) =>
        rows[k].generation < rows[j].generation /\ rows[k].superseded # "no" /\ j \in InFamily(f)
  <2> SUFFICES ASSUME NEW k \in InFamily(f), NEW j \in Table, Fam(j) = f, ~(j <= k)
               PROVE  /\ rows[k].generation < rows[j].generation /\ rows[k].superseded # "no"
                      /\ j \in InFamily(f)
    OBVIOUS
  <2>1. k < j
    BY <1>1 DEF Table
  <2> QED BY <1>1, <1>2, <2>1 DEF ChainInv
<1>4. PICK m \in InFamily(f) :
        /\ Generation(f) = rows[m].generation
        /\ \A j \in InFamily(f) : rows[j].generation <= rows[m].generation
  BY GenerationIsLargest
<1>5. \A k \in InFamily(f) : rows[k].generation = Generation(f) => Newest(k)
  <2> SUFFICES ASSUME NEW k \in InFamily(f), rows[k].generation = Generation(f),
                      NEW j \in Table, Fam(j) = f, ~(j <= k)
               PROVE  FALSE
    BY <1>1 DEF Newest
  <2>1. rows[k].generation < rows[j].generation /\ j \in InFamily(f)
    BY <1>3
  <2> QED BY <1>1, <1>4, <2>1
<1>6. Live(i) => Newest(i)
  BY <1>1, <1>3 DEF Newest, Live
<1> QED BY <1>4, <1>5, <1>6

LEMMA RotateInvStep ==
  ASSUME TypeOK, LinkInv, PurgeInv, ChainInv, RotateInv, RaceInv, [Next]_vars
  PROVE  RotateInv'
<1>1. CASE QuietStep
  <2>1. /\ Kept /\ raced \subseteq raced'
        /\ \A q \in Requests : req'[q] = req[q] \/ req'[q].pc # "rotate"
    BY <1>1 DEF QuietStep, Quiet, Out, Asked
  <2>2. \A q \in Requests : req'[q].pc # "rotate" => Decided(q)'
    BY DEF Decided
  <2> QED BY <2>1, <2>2, DecidedKept DEF RotateInv
<1>2. ASSUME NEW r \in Requests, Active(r) PROVE RotateInv'
  <2>1. OthersWait(r) /\ raced \subseteq raced'
    BY <1>2, ActiveRows
  <2>2. ASSUME NEW q \in Requests, q # r PROVE Decided(q)'
    <3>1. Decided(q) /\ req'[q] = req[q]
      BY <2>1, <2>2 DEF RotateInv, OthersWait
    <3>2. CASE Kept
      BY <2>1, <3>1, <3>2, DecidedKept
    <3>3. CASE issue_session(r) /\ Grown(Len(rows) + 1, 0, 0)
      <4>1. req[q].pc = "rotate" => Fam(req[q].row) # Len(rows) + 1
        <5> SUFFICES ASSUME req[q].pc = "rotate" PROVE Fam(req[q].row) # Len(rows) + 1
          OBVIOUS
        <5>1. req[q].row \in Table /\ Fam(req[q].row) <= req[q].row
          BY DEF LinkInv, RequestLink, RowLink, Out, Asked
        <5> QED BY <5>1, RowTypes DEF Table
      <4> QED BY <2>1, <3>1, <3>3, <4>1, DecidedGrown
    <3>4. CASE RotateOntoNewGeneration(r) /\ RotatedTo(r)
      <4>1. req[r].pc = "rotate"
        BY <3>4 DEF RotateOntoNewGeneration
      <4>2. req[q].pc = "rotate" /\ Fam(req[q].row) = Fam(req[r].row) => Fam(req[r].row) \in raced
        BY <2>2, <4>1 DEF RaceInv
      <4>3. Grown(Fam(req[r].row), req[r].current + 1, req[r].target)
        BY <3>4 DEF RotatedTo
      <4> QED BY <2>1, <3>1, <4>2, <4>3, DecidedGrown
    <3> QED BY <1>2, <3>2, <3>3, <3>4, ActiveRows
  <2>3. Decided(r)'
    <3>1. CASE Decide(r)
      <4> SUFFICES ASSUME req'[r].pc = "rotate", rows'[req'[r].row].family \notin raced'
                   PROVE  /\ \A j \in 1..Len(rows') :
                               rows'[j].family = rows'[req'[r].target].family => j <= req'[r].target
                          /\ req'[r].current = rows'[req'[r].target].generation
        BY DEF Decided, Newest, Table, Fam
      <4> DEFINE f == rows[req[r].row].family
                 k == req'[r].target
      <4>1. /\ UNCHANGED rows /\ req'[r].row = req[r].row /\ req[r].row \in InFamily(f)
            /\ req'[r].current = Generation(f) /\ k \in InFamily(f)
            /\ \/ k = req[r].row /\ rows[req[r].row].generation = Generation(f)
               \/ Live(k)
        BY <3>1, DecideStep
      <4>2. f \in Ids \ raced /\ k \in Table /\ rows[k].family = f
        BY <2>1, <4>1, RowTypes DEF InFamily, Rows, Table, Fam
      <4>3. Newest(k) /\ rows[k].generation = Generation(f)
        <5>1. \A i \in InFamily(f) : /\ Live(i) => Newest(i)
                                     /\ rows[i].generation = Generation(f) => Newest(i)
          BY <4>2, UnracedNewest
        <5>2. PICK m \in InFamily(f) : Newest(m) /\ rows[m].generation = Generation(f)
          BY <4>1, <4>2, UnracedNewest
        <5>3. Newest(k)
          BY <4>1, <5>1
        <5>4. m = k
          <6>1. m \in 1..Len(rows) /\ k \in 1..Len(rows) /\ m <= k /\ k <= m
            BY <4>1, <5>2, <5>3 DEF Newest, InFamily, Rows, Table, Fam
          <6> QED BY <6>1, RowTypes
        <5> QED BY <5>2, <5>3, <5>4
      <4> QED BY <4>1, <4>2, <4>3 DEF Newest, Table, Fam
    <3>2. CASE ~Decide(r)
      <4>1. req'[r].pc # "rotate"
        BY <1>2, <3>2, IssueStep, SendStep, LockStep, RotateStep, TearStep, ReceiveStep,
           BeginStep, CommitStep DEF Active, RotatedTo, RefusedAndRevoked
      <4> QED BY <4>1 DEF Decided
    <3> QED BY <3>1, <3>2
  <2> QED BY <2>2, <2>3 DEF RotateInv
<1> QED BY <1>1, <1>2, StepKinds

\* Whatever happens to the table, its rows stay in their families, and what is
\* out of a family was out before, unless it was sent just now.
LEMMA FamiliesKept ==
  ASSUME TypeOK, LinkInv, QuietStep \/ \E r \in Requests : Active(r)
  PROVE  /\ \A i \in Table : /\ i \in 1..Len(rows') /\ rows'[i].family = Fam(i)
                             /\ rows'[i].generation = rows[i].generation
                             /\ rows[i].revoked => rows'[i].revoked
                             /\ rows[i].purged => rows'[i].purged
         /\ raced \subseteq raced' /\ overlap \subseteq overlap' /\ ended \subseteq ended'
         /\ late \subseteq late'
<1>1. CASE QuietStep
  BY <1>1 DEF QuietStep, Quiet, Kept, Table, Fam
<1>2. ASSUME NEW r \in Requests, Active(r)
      PROVE  /\ \A i \in Table : /\ i \in 1..Len(rows') /\ rows'[i].family = Fam(i)
                                 /\ rows'[i].generation = rows[i].generation
                                 /\ rows[i].revoked => rows'[i].revoked
                                 /\ rows[i].purged => rows'[i].purged
  <2>1. CASE Kept /\ PurgesKept
    BY <2>1 DEF Kept, PurgesKept, Table, Fam
  <2>2. ASSUME NEW f, NEW g, NEW t, Grown(f, g, t)
        PROVE  /\ \A i \in Table : /\ i \in 1..Len(rows') /\ rows'[i].family = Fam(i)
                                   /\ rows'[i].generation = rows[i].generation
                                   /\ rows[i].revoked => rows'[i].revoked
                                   /\ rows[i].purged => rows'[i].purged
    BY <2>2, RowTypes DEF Grown, Table, Fam
  <2> QED BY <1>2, <2>1, <2>2, ActiveRows DEF RotatedTo
<1> QED BY <1>1, <1>2, ActiveRows

LEMMA OutBefore ==
  ASSUME TypeOK, LinkInv, NEW r \in Requests, Active(r), ~SendRefresh(r),
         NEW q \in Requests, req'[q].pc \in Out
  PROVE  /\ req[q].pc \in Out /\ req[q].row \in Table
         /\ rows'[req'[q].row].family = Fam(req[q].row)
<1>1. req[q].pc \in Out => req[q].row \in Table
  BY DEF LinkInv, RequestLink
<1>2. \A i \in Table : rows'[i].family = Fam(i)
  BY FamiliesKept
<1>3. CASE q # r
  BY <1>1, <1>2, <1>3, ActiveRows DEF OthersWait
<1>4. CASE q = r
  <2>1. req[r].pc \in Out /\ (req'[r].row = req[r].row \/ RotatedTo(r))
    BY <1>4, IssueStep, LockStep, DecideStep, RotateStep, TearStep, ReceiveStep,
       BeginStep, CommitStep DEF Active, RefusedAndRevoked, Out, Asked
  <2>2. RotatedTo(r) => rows'[req'[r].row].family = Fam(req[r].row)
    BY DEF RotatedTo, Grown
  <2> QED BY <1>1, <1>2, <1>4, <2>1, <2>2
<1> QED BY <1>3, <1>4

\* Only a decision makes a request one that writes.
LEMMA OnlyDecideWrites ==
  ASSUME TypeOK, LinkInv, NEW r \in Requests, Active(r), ~Decide(r)
  PROVE  req'[r].pc \notin {"rotate", "tear", "decide"} \/ LockPresented(r)
BY IssueStep, SendStep, RotateStep, TearStep, ReceiveStep, BeginStep, CommitStep
   DEF Active, RotatedTo, RefusedAndRevoked

LEMMA RaceInvStep ==
  ASSUME TypeOK, LinkInv, PurgeInv, RaceInv, [Next]_vars
  PROVE  RaceInv'
<1> DEFINE Writes(q) == req[q].pc \in {"rotate", "tear"}
           Writes2(q) == req'[q].pc \in {"rotate", "tear"}
<1>0. \A q \in Requests : Writes(q) => req[q].row \in Table
  BY DEF LinkInv, RequestLink, Out, Asked
<1>1. CASE QuietStep
  <2>1. \A q \in Requests : Writes2(q) => req'[q] = req[q]
    BY <1>1 DEF QuietStep, Quiet, Out, Asked
  <2>2. raced \subseteq raced' /\ \A i \in Table : rows'[i].family = Fam(i)
    BY <1>1, FamiliesKept
  <2> QED BY <1>0, <2>1, <2>2 DEF RaceInv, Fam
<1>2. ASSUME NEW r \in Requests, Active(r) PROVE RaceInv'
  <2>1. /\ raced \subseteq raced' /\ \A i \in Table : rows'[i].family = Fam(i)
        /\ \A q \in Requests \ {r} : req'[q] = req[q]
    BY <1>2, FamiliesKept, ActiveRows DEF OthersWait
  <2>2. ASSUME NEW q \in Requests, q # r, Writes2(r), Writes2(q),
               rows'[req'[r].row].family = rows'[req'[q].row].family
        PROVE  rows'[req'[r].row].family \in raced'
    <3>1. Decide(r)
      <4>1. LockPresented(r) => ~Writes2(r)
        BY LockStep
      <4> QED BY <1>2, <2>2, <4>1, OnlyDecideWrites
    <3> DEFINE f == rows[req[r].row].family
    <3>2. /\ UNCHANGED rows /\ req'[r].row = req[r].row
          /\ raced' = IF f \in RefreshingFamilies(r) THEN raced \cup {f} ELSE raced
      BY <3>1, DecideStep
    <3>3. f \in RefreshingFamilies(r)
      <4>1. req'[q] = req[q] /\ q \in {p \in Requests \ {r} : InRefresh(p)}
        BY <2>1, <2>2 DEF InRefresh
      <4>2. f = rows[req[q].row].family
        BY <2>2, <3>2, <4>1
      <4> QED BY <4>1, <4>2 DEF RefreshingFamilies
    <3> QED BY <3>2, <3>3
  <2>3. ASSUME NEW p \in Requests, NEW q \in Requests, p # q, p # r, q # r, Writes2(p), Writes2(q),
               rows'[req'[p].row].family = rows'[req'[q].row].family
        PROVE  rows'[req'[p].row].family \in raced'
    BY <1>0, <2>1, <2>3 DEF RaceInv, Fam
  <2> HIDE DEF Writes, Writes2
  <2>4. ASSUME NEW p \in Requests, NEW q \in Requests, p # q, Writes2(p), Writes2(q),
               rows'[req'[p].row].family = rows'[req'[q].row].family
        PROVE  rows'[req'[p].row].family \in raced'
    BY <2>2, <2>3, <2>4
  <2> QED BY <2>4 DEF RaceInv, Fam, Writes2
<1> QED BY <1>1, <1>2, StepKinds

LEMMA OverlapInvStep ==
  ASSUME TypeOK, LinkInv, PurgeInv, OverlapInv, [Next]_vars
  PROVE  OverlapInv'
<1>0. \A q \in Requests : req[q].pc \in Out => req[q].row \in Table
  BY DEF LinkInv, RequestLink
<1>1. CASE QuietStep
  <2>1. \A q \in Requests : req'[q].pc \in Out => req'[q] = req[q]
    BY <1>1 DEF QuietStep, Quiet
  <2>2. overlap' = overlap /\ raced' = raced /\ \A i \in Table : rows'[i].family = Fam(i)
    BY <1>1, FamiliesKept DEF QuietStep, Quiet
  <2> QED BY <1>0, <2>1, <2>2 DEF OverlapInv, Fam
<1>2. ASSUME NEW r \in Requests, Active(r) PROVE OverlapInv'
  <2>1. /\ overlap \subseteq overlap' /\ \A i \in Table : rows'[i].family = Fam(i)
        /\ \A q \in Requests \ {r} : req'[q] = req[q]
    BY <1>2, FamiliesKept, ActiveRows DEF OthersWait
  <2>2. raced' \subseteq overlap'
    <3>1. CASE Decide(r)
      <4> DEFINE f == rows[req[r].row].family
      <4>1. /\ req[r].pc = "decide"
            /\ raced' = IF f \in RefreshingFamilies(r) THEN raced \cup {f} ELSE raced
        BY <3>1, DecideStep
      <4>2. ASSUME f \in RefreshingFamilies(r) PROVE f \in overlap
        <5>1. PICK q \in Requests \ {r} : InRefresh(q) /\ f = rows[req[q].row].family
          BY <4>2 DEF RefreshingFamilies
        <5> QED BY <4>1, <5>1 DEF OverlapInv, InRefresh, Out, Asked, Fam
      <4> QED BY <2>1, <4>1, <4>2 DEF OverlapInv
    <3>2. CASE ~Decide(r)
      <4>1. raced' = raced
        BY <1>2, <3>2, IssueStep, SendStep, LockStep, RotateStep, TearStep, ReceiveStep,
           BeginStep, CommitStep DEF Active
      <4> QED BY <2>1, <4>1 DEF OverlapInv
    <3> QED BY <3>1, <3>2
  <2>3. ASSUME NEW p \in Requests, NEW q \in Requests, p # q,
               req'[p].pc \in Out, req'[q].pc \in Out,
               rows'[req'[p].row].family = rows'[req'[q].row].family
        PROVE  rows'[req'[p].row].family \in overlap'
    <3>1. CASE SendRefresh(r)
      <4>1. PICK f \in Ids :
              /\ held[f] \in Table /\ Fam(held[f]) = f
              /\ req'[r].pc = "sent" /\ req'[r].row = held[f]
              /\ overlap' = overlap \cup ({f} \cap Outstanding)
        BY <3>1, SendStep
      <4>2. rows'[req'[r].row].family = f
        BY <2>1, <4>1
      <4>3. ASSUME NEW k \in Requests, k # r, req'[k].pc \in Out, rows'[req'[k].row].family = f
            PROVE  f \in overlap'
        <5>1. req'[k] = req[k] /\ req[k].row \in Table
          BY <1>0, <2>1, <4>3
        <5>2. rows[req[k].row].family = f
          BY <2>1, <4>3, <5>1 DEF Fam
        <5>3. f \in Outstanding
          BY <4>3, <5>1, <5>2 DEF Outstanding, Out, Asked
        <5> QED BY <4>1, <5>3
      <4>4. CASE p # r /\ q # r
        <5>1. req'[p] = req[p] /\ req'[q] = req[q]
          BY <2>1, <4>4
        <5> QED BY <1>0, <2>1, <2>3, <5>1 DEF OverlapInv, Fam
      <4> QED BY <2>3, <4>2, <4>3, <4>4
    <3>2. CASE ~SendRefresh(r)
      <4>1. /\ req[p].pc \in Out /\ rows'[req'[p].row].family = Fam(req[p].row)
            /\ req[q].pc \in Out /\ rows'[req'[q].row].family = Fam(req[q].row)
        BY <1>2, <2>3, <3>2, OutBefore
      <4> QED BY <2>1, <2>3, <4>1 DEF OverlapInv
    <3> QED BY <3>1, <3>2
  <2> QED BY <2>2, <2>3 DEF OverlapInv, Fam
<1> QED BY <1>1, <1>2, StepKinds

\* A family that is over stays over, and one that a revocation's snapshot
\* covers stays covered: nothing new is inserted, and a token that is presented
\* again meets a revoked row, unless the snapshot's rows are not written yet.
LEMMA SettledKept ==
  ASSUME TypeOK, LinkInv, QuietStep \/ \E r \in Requests : Active(r),
         NEW f \in Ids, f <= Len(rows), NEW ids, Settled(f, ids), f \notin late',
         \A r \in Requests :
           LockPresented(r) /\ req[r].row \in ids /\ Fam(req[r].row) = f => f \in late'
  PROVE  Settled(f, ids)'
<1>0. \A q \in Requests : InRefresh(q) => req[q].row \in Table
  BY DEF LinkInv, RequestLink, InRefresh, Out, Asked
<1>1. \A i \in Table : /\ i \in 1..Len(rows') /\ rows'[i].family = Fam(i)
                       /\ rows[i].revoked => rows'[i].revoked
                       /\ rows[i].purged => rows'[i].purged
  BY FamiliesKept
<1>2. ComesTooLate(f) /\ \A i \in InFamily(f) : i \in ids \/ rows[i].revoked
  BY DEF Settled
<1>3. (\A i \in 1..Len(rows') : rows'[i].family = f => i \in Table) =>
        \A i \in InFamily(f)' : i \in ids \/ rows'[i].revoked
  BY <1>1, <1>2 DEF InFamily, Rows, Table, Fam
<1>4. \A q \in Requests : req'[q] = req[q] /\ InRefresh(q)' /\ rows'[req'[q].row].family = f =>
        req'[q].pc = "decide" /\ rows'[req'[q].row].revoked
  BY <1>0, <1>1, <1>2 DEF ComesTooLate, InRefresh, Fam
<1>5. CASE QuietStep
  <2>1. \A q \in Requests : InRefresh(q)' => req'[q] = req[q]
    BY <1>5 DEF QuietStep, Quiet, InRefresh, Out, Asked
  <2>2. Len(rows') = Len(rows)
    BY <1>5 DEF QuietStep, Quiet, Kept
  <2> QED BY <1>3, <1>4, <2>1, <2>2 DEF Settled, ComesTooLate, Table, Fam
<1>6. ASSUME NEW r \in Requests, Active(r) PROVE Settled(f, ids)'
  <2>1. \A i \in 1..Len(rows') : rows'[i].family = f => i \in Table
    <3>1. CASE Kept
      BY <3>1 DEF Kept, Table
    <3>2. ASSUME NEW k, NEW g, NEW t, Grown(k, g, t), k # f
          PROVE  \A i \in 1..Len(rows') : rows'[i].family = f => i \in Table
      BY <3>2, RowTypes DEF Grown, Table
    <3>3. Len(rows) + 1 # f
      BY RowTypes DEF Ids
    <3>4. RotatedTo(r) /\ req[r].pc = "rotate" => Fam(req[r].row) # f
      BY <1>2 DEF ComesTooLate, InRefresh
    <3>5. CASE issue_session(r) /\ Grown(Len(rows) + 1, 0, 0)
      BY <3>2, <3>3, <3>5
    <3>6. CASE RotateOntoNewGeneration(r) /\ RotatedTo(r)
      <4>1. Fam(req[r].row) # f /\ Grown(Fam(req[r].row), req[r].current + 1, req[r].target)
        BY <3>4, <3>6 DEF RotateOntoNewGeneration, RotatedTo
      <4> QED BY <3>2, <4>1
    <3> QED BY <1>6, <3>1, <3>5, <3>6, ActiveRows
  <2>2. InRefresh(r)' /\ rows'[req'[r].row].family = f =>
          req'[r].pc = "decide" /\ rows'[req'[r].row].revoked
    <3> SUFFICES ASSUME InRefresh(r)', rows'[req'[r].row].family = f
                 PROVE  req'[r].pc = "decide" /\ rows'[req'[r].row].revoked
      OBVIOUS
    <3>1. CASE LockPresented(r)
      <4>1. /\ req'[r].pc = "decide" /\ req'[r].row = req[r].row /\ req[r].row \in Rows
            /\ req[r].row \in Table /\ Fam(req[r].row) = f
        BY <1>1, <3>1, LockStep DEF InRefresh
      <4>2. req[r].row \in InFamily(f) /\ req[r].row \notin ids
        BY <3>1, <4>1 DEF InFamily, Fam
      <4> QED BY <1>1, <1>2, <4>1, <4>2
    <3>2. CASE Decide(r)
      <4>1. /\ UNCHANGED rows /\ req[r].pc = "decide" /\ req'[r].row = req[r].row
            /\ req'[r].pc = "refused" \/ ~rows[req[r].row].revoked
        BY <3>2, DecideStep
      <4>2. rows[req[r].row].revoked
        BY <1>2, <4>1 DEF ComesTooLate, InRefresh, Fam
      <4> QED BY <4>1, <4>2 DEF InRefresh
    <3>3. CASE ~LockPresented(r) /\ ~Decide(r)
      BY <1>6, <3>3, OnlyDecideWrites DEF InRefresh
    <3> QED BY <3>1, <3>2, <3>3
  <2>3. \A q \in Requests \ {r} : req'[q] = req[q]
    BY <1>6, ActiveRows DEF OthersWait
  <2> QED BY <1>3, <1>4, <2>1, <2>2, <2>3 DEF Settled, ComesTooLate, Fam
<1> QED BY <1>5, <1>6

\* A revocation's snapshot covers the family whole, or leaves it to who was
\* refreshing meanwhile.
LEMMA SnapshotTaken ==
  ASSUME TypeOK, LinkInv, NEW r \in Requests, BeginRevocation(r),
         req[r].pc \in {"sign_out", "sign_out_everywhere", "change_password"},
         NEW f \in Ids \ late', Covered(r, f)'
  PROVE  Settled(f, req[r].ids)'
<1> DEFINE i == req[r].row
           scope == RevocationScope(req[r].pc, i)
<1>1. /\ UNCHANGED rows /\ i \in Table /\ req'[r].pc = "revoke" /\ req'[r].why = req[r].pc
      /\ req'[r].row = i /\ req'[r].ids = {k \in scope : ~rows[k].revoked}
      /\ late' = late \cup RefreshingFamilies(r) /\ \A q \in Requests \ {r} : req'[q] = req[q]
  BY BeginStep DEF OthersWait
<1>2. InFamily(f) \subseteq scope
  <2>1. PICK k \in scope : Fam(k) = f
    BY <1>1 DEF Covered, Fam
  <2>2. CASE req[r].pc = "sign_out"
    <3>1. scope = InFamily(Fam(i))
      BY <2>2 DEF RevocationScope, Fam
    <3> QED BY <2>1, <3>1 DEF InFamily, Fam
  <2>3. CASE req[r].pc = "sign_out_everywhere"
    <3>1. scope = Rows
      BY <2>3 DEF RevocationScope
    <3> QED BY <3>1 DEF InFamily
  <2>4. CASE req[r].pc = "change_password"
    <3>1. scope = Rows \ {i}
      BY <2>4 DEF RevocationScope
    <3>2. f # Fam(i)
      BY <1>1, <2>4 DEF Covered, Fam
    <3> QED BY <3>1, <3>2 DEF InFamily, Fam
  <2> QED BY <2>2, <2>3, <2>4
<1>3. \A k \in InFamily(f)' : k \in req'[r].ids \/ rows'[k].revoked
  BY <1>1, <1>2 DEF InFamily, Rows
<1>4. ComesTooLate(f)'
  <2> SUFFICES ASSUME NEW q \in Requests, InRefresh(q)', rows'[req'[q].row].family = f PROVE FALSE
    BY DEF ComesTooLate, Fam
  <2>1. q # r /\ req'[q] = req[q]
    BY <1>1 DEF InRefresh
  <2>2. f \in RefreshingFamilies(r)
    BY <1>1, <2>1 DEF RefreshingFamilies, InRefresh
  <2> QED BY <1>1, <2>2
<1> QED BY <1>3, <1>4 DEF Settled

LEMMA SnapshotInvStep ==
  ASSUME TypeOK, LinkInv, PurgeInv, SnapshotInv, [Next]_vars
  PROVE  SnapshotInv'
<1>1. QuietStep \/ \E r \in Requests : Active(r)
  BY StepKinds
<1>2. ASSUME NEW q \in Requests, NEW f \in Ids \ late', req'[q] = req[q], req'[q].pc = "revoke",
             Covered(q, f)'
      PROVE  Settled(f, req[q].ids)'
  <2>1. PICK ids : ids = req[q].ids
    OBVIOUS
  <2>2. ids \subseteq Table /\ req[q].row \in Table
    BY <1>2, <2>1 DEF LinkInv, RequestLink, SignedIn
  <2>3. late \subseteq late' /\ \A i \in Table : rows'[i].family = Fam(i)
    BY <1>1, FamiliesKept
  <2>4. Covered(q, f)
    BY <1>2, <2>1, <2>2, <2>3 DEF Covered, Fam
  <2>5. Settled(f, ids)
    BY <1>2, <2>1, <2>3, <2>4 DEF SnapshotInv
  <2>6. f <= Len(rows)
    <3>1. PICK i \in ids : Fam(i) = f
      BY <2>1, <2>4 DEF Covered
    <3>2. i \in 1..Len(rows) /\ f <= i
      BY <2>2, <3>1 DEF Table, LinkInv, RowLink
    <3> QED BY <3>2, RowTypes DEF Ids
  <2>7. \A r \in Requests :
          LockPresented(r) /\ req[r].row \in ids /\ Fam(req[r].row) = f => f \in late'
    BY <1>2, <2>1, LockStep
  <2>8. Settled(f, ids)'
    BY <1>1, <2>3, <2>5, <2>6, <2>7, SettledKept
  <2> QED BY <1>2, <2>1, <2>8 DEF Settled
<1>3. ASSUME NEW q \in Requests, NEW f \in Ids \ late', req'[q] # req[q], req'[q].pc = "revoke",
             Covered(q, f)'
      PROVE  Settled(f, req[q].ids)'
  <2>1. ~QuietStep
    BY <1>3 DEF QuietStep, Quiet
  <2>2. Active(q)
    BY <1>1, <1>3, <2>1, ActiveRows DEF OthersWait
  <2>3. /\ req[q].pc \in {"sign_out", "sign_out_everywhere", "change_password"}
        /\ BeginRevocation(q)
    BY <1>3, <2>2, IssueStep, SendStep, LockStep, DecideStep, RotateStep, TearStep, ReceiveStep,
       CommitStep DEF Active, RotatedTo, RefusedAndRevoked
  <2> QED BY <1>3, <2>3, SnapshotTaken
<1> QED BY <1>2, <1>3 DEF SnapshotInv

LEMMA EndedInvStep ==
  ASSUME TypeOK, LinkInv, PurgeInv, SnapshotInv, EndedInv, [Next]_vars
  PROVE  EndedInv'
<1>1. QuietStep \/ \E r \in Requests : Active(r)
  BY StepKinds
<1>2. /\ late \subseteq late' /\ ended \subseteq ended'
      /\ \A i \in Table : /\ i \in 1..Len(rows') /\ rows'[i].family = Fam(i)
                          /\ rows[i].revoked => rows'[i].revoked
                          /\ rows[i].purged => rows'[i].purged
  BY <1>1, FamiliesKept
<1>3. ASSUME NEW f \in ended \ late' PROVE Settled(f, {})'
  <2>1. f \in Ids /\ Settled(f, {})
    BY <1>2 DEF EndedInv, TypeOK
  <2>2. f <= Len(rows)
    <3>1. ~(f > Len(rows))
      BY <2>1 DEF LinkInv, ClientLink
    <3> QED BY <2>1, <3>1, RowTypes DEF Ids
  <2> QED BY <1>1, <2>1, <2>2, SettledKept
<1>4. ASSUME NEW f \in ended' \ late', f \notin ended PROVE Settled(f, {})'
  <2>1. PICK r \in Requests : Active(r)
    BY <1>1, <1>4 DEF QuietStep, Quiet
  <2>2. CommitRevocation(r)
    BY <1>4, <2>1, IssueStep, SendStep, LockStep, DecideStep, RotateStep, TearStep, ReceiveStep,
       BeginStep DEF Active
  <2>3. /\ Kept /\ OthersWait(r) /\ req[r].pc = "revoke" /\ req'[r].pc = "done"
        /\ \A i \in Table : rows'[i].revoked = (rows[i].revoked \/ i \in req[r].ids)
        /\ Covered(r, f)
    BY <1>4, <2>2, CommitStep
  <2>4. f \in Ids
    <3>1. PICK i \in req[r].ids : Fam(i) = f
      BY <2>3 DEF Covered
    <3>2. i \in Table
      BY <3>1 DEF LinkInv, RequestLink
    <3> QED BY <3>1, <3>2, RowTypes
  <2>5. Settled(f, req[r].ids)
    BY <1>2, <1>4, <2>3, <2>4 DEF SnapshotInv
  <2>6. \A i \in InFamily(f)' : rows'[i].revoked
    <3>1. InFamily(f)' \subseteq InFamily(f) /\ InFamily(f) \subseteq Table
      BY <1>2, <2>3 DEF InFamily, Rows, Table, Kept, Fam
    <3> QED BY <2>3, <2>5, <3>1 DEF Settled
  <2>7. ComesTooLate(f)'
    <3> SUFFICES ASSUME NEW q \in Requests, InRefresh(q)', rows'[req'[q].row].family = f
                 PROVE  req'[q].pc = "decide" /\ rows'[req'[q].row].revoked
      BY DEF ComesTooLate, Fam
    <3>1. q # r /\ req'[q] = req[q] /\ InRefresh(q)
      BY <2>3 DEF InRefresh, OthersWait
    <3>2. req[q].row \in Table
      BY <3>1 DEF LinkInv, RequestLink, InRefresh, Out, Asked
    <3> QED BY <1>2, <2>5, <3>1, <3>2 DEF Settled, ComesTooLate
  <2> QED BY <2>6, <2>7 DEF Settled
<1> QED BY <1>3, <1>4 DEF EndedInv

\* What neither inserts a row nor hands the client a token leaves it as far
\* behind as it was.
LEMMA ClientInvKept ==
  ASSUME TypeOK, LinkInv, ClientInv, Kept, overlap \subseteq overlap',
         \A f \in Ids : held'[f] \in {held[f], 0} /\ unheard'[f] = unheard[f],
         \A q \in Requests : req'[q].pc \in Asked \cup {"answer"} =>
           /\ req'[q].row = req[q].row
           /\ req'[q].pc \in Asked => req[q].pc \in Asked
           /\ req'[q].pc = "answer" => req[q].pc = "answer"
  PROVE  ClientInv'
<1> SUFFICES ASSUME NEW f \in Ids \ overlap', NEW n \in Table, rows'[n].family = f,
                    \A j \in Table : rows'[j].family = rows'[n].family => j <= n
             PROVE  Abreast(f, n)'
  BY DEF ClientInv, Newest, Kept, Table, Fam
<1>1. \A i \in Table : rows'[i].family = Fam(i) /\ rows'[i].generation = rows[i].generation
  BY DEF Kept
<1>2. Abreast(f, n)
  BY <1>1 DEF ClientInv, Newest
<1>3. held'[f] # 0 => rows'[n].generation = rows'[held'[f]].generation + unheard'[f]
  <2>1. held'[f] # 0 => held'[f] = held[f] /\ held[f] \in Table
    BY DEF LinkInv, ClientLink
  <2> QED BY <1>1, <1>2, <2>1 DEF Abreast
<1>4. ASSUME NEW q \in Requests, rows'[req'[q].row].family = f
      PROVE  /\ req'[q].pc \in Asked =>
                  rows'[n].generation = rows'[req'[q].row].generation + unheard'[f]
             /\ req'[q].pc = "answer" => req'[q].row = n
  <2> SUFFICES ASSUME req'[q].pc \in Asked \cup {"answer"}
               PROVE  /\ req'[q].pc \in Asked =>
                           rows'[n].generation = rows'[req'[q].row].generation + unheard'[f]
                      /\ req'[q].pc = "answer" => req'[q].row = n
    OBVIOUS
  <2>1. /\ req'[q].row = req[q].row
        /\ req'[q].pc \in Asked => req[q].pc \in Asked
        /\ req'[q].pc = "answer" => req[q].pc = "answer"
    OBVIOUS
  <2>2. req[q].row \in Table
    BY <2>1 DEF LinkInv, RequestLink, Out
  <2>3. Fam(req[q].row) = f
    BY <1>1, <1>4, <2>1, <2>2
  <2> QED BY <1>1, <1>2, <2>1, <2>2, <2>3 DEF Abreast
<1> QED BY <1>3, <1>4 DEF Abreast, Fam

\* Families other than that of a row inserted.
LEMMA ClientOthersGrown ==
  ASSUME TypeOK, LinkInv, ClientInv, NEW r \in Requests, NEW k \in Ids, NEW g, NEW t,
         Grown(k, g, t), OthersWait(r), overlap \subseteq overlap',
         rows'[req'[r].row].family = k \/ req'[r].pc \notin Out,
         NEW f \in Ids \ overlap', f # k, held'[f] = held[f], unheard'[f] = unheard[f],
         NEW n \in 1..Len(rows'), rows'[n].family = f,
         \A j \in 1..Len(rows') : rows'[j].family = rows'[n].family => j <= n
  PROVE  Abreast(f, n)'
<1>1. /\ Len(rows) \in Nat /\ Len(rows') = Len(rows) + 1 /\ rows'[Len(rows) + 1].family = k
      /\ \A i \in Table : /\ rows'[i].family = Fam(i) /\ rows'[i].generation = rows[i].generation
                          /\ i \in 1..Len(rows')
  BY RowTypes DEF Grown, Table
<1>2. n \in Table
  BY <1>1 DEF Table
<1>3. Abreast(f, n)
  BY <1>1, <1>2 DEF ClientInv, Newest
<1>4. held[f] # 0 => held[f] \in Table
  BY DEF LinkInv, ClientLink
<1>5. ASSUME NEW q \in Requests, rows'[req'[q].row].family = f, req'[q].pc \in Out
      PROVE  req'[q] = req[q] /\ req[q].row \in Table /\ Fam(req[q].row) = f
  <2>1. req'[q] = req[q]
    BY <1>5 DEF OthersWait
  <2>2. req[q].row \in Table
    BY <1>5, <2>1 DEF LinkInv, RequestLink
  <2> QED BY <1>1, <1>5, <2>1, <2>2
<1>6. held'[f] # 0 => rows'[n].generation = rows'[held'[f]].generation + unheard'[f]
  BY <1>1, <1>2, <1>3, <1>4 DEF Abreast
<1>7. ASSUME NEW q \in Requests, rows'[req'[q].row].family = f
      PROVE  /\ req'[q].pc \in Asked =>
                  rows'[n].generation = rows'[req'[q].row].generation + unheard'[f]
             /\ req'[q].pc = "answer" => req'[q].row = n
  <2>1. CASE req'[q].pc \notin Out
    BY <2>1 DEF Out
  <2>2. CASE req'[q].pc \in Out
    <3>1. req'[q] = req[q] /\ req[q].row \in Table /\ Fam(req[q].row) = f
      BY <1>5, <1>7, <2>2
    <3> QED BY <1>1, <1>2, <1>3, <3>1 DEF Abreast
  <2> QED BY <2>1, <2>2
<1> QED BY <1>6, <1>7 DEF Abreast, Fam

LEMMA ClientIssued ==
  ASSUME TypeOK, LinkInv, ClientInv, NEW r \in Requests, issue_session(r)
  PROVE  ClientInv'
<1> DEFINE k == Len(rows) + 1
<1>1. /\ Grown(k, 0, 0) /\ OthersWait(r) /\ req'[r].pc = "done"
      /\ \A f \in Ids : held'[f] = IF f = k THEN f ELSE held[f]
      /\ UNCHANGED <<unheard, overlap>>
  BY IssueStep
<1>2. k \in Ids /\ Len(rows) \in Nat
  BY RowTypes, MaxRowsAssumption DEF issue_session, Ids
<1>3. /\ Len(rows') = k /\ rows'[k].family = k /\ rows'[k].generation = 0
      /\ \A i \in Table : rows'[i].family = Fam(i) /\ Fam(i) # k
  BY <1>1, <1>2, RowTypes DEF Grown, Table, LinkInv, RowLink, Ids
<1> SUFFICES ASSUME NEW f \in Ids \ overlap', NEW n \in 1..Len(rows'), rows'[n].family = f,
                    \A j \in 1..Len(rows') : rows'[j].family = rows'[n].family => j <= n
             PROVE  Abreast(f, n)'
  BY DEF ClientInv, Newest, Table, Fam
<1>4. CASE f # k
  <2> HIDE DEF k
  <2> QED BY <1>1, <1>2, <1>4, ClientOthersGrown DEF Out, Asked
<1>5. CASE f = k
  <2>1. n = k
    BY <1>2, <1>3, <1>5 DEF Table
  <2>2. unheard'[k] = 0 /\ held'[k] = k
    BY <1>1, <1>2 DEF LinkInv, ClientLink
  <2>3. ASSUME NEW q \in Requests, rows'[req'[q].row].family = k PROVE req'[q].pc \notin Out
    <3>1. CASE q = r
      BY <1>1, <3>1 DEF Out, Asked
    <3>2. CASE q # r
      <4>1. req'[q] = req[q]
        BY <1>1, <3>2 DEF OthersWait
      <4>2. req[q].pc \in Out => req[q].row \in Table
        BY DEF LinkInv, RequestLink
      <4> QED BY <1>3, <2>3, <4>1, <4>2
    <3> QED BY <3>1, <3>2
  <2>4. rows'[k].generation = rows'[held'[k]].generation + unheard'[k]
    BY <1>3, <2>2
  <2> HIDE DEF k
  <2> QED BY <1>5, <2>1, <2>3, <2>4 DEF Abreast, Out, Fam
<1> QED BY <1>4, <1>5

LEMMA ClientRotated ==
  ASSUME TypeOK, LinkInv, RotateInv, OverlapInv, ClientInv,
         NEW r \in Requests, RotateOntoNewGeneration(r), RotatedTo(r)
  PROVE  ClientInv'
<1> DEFINE k == Fam(req[r].row)
           t == req[r].target
           g == req[r].current
<1>1. /\ Grown(k, g + 1, t) /\ OthersWait(r) /\ req'[r].pc = "answer"
      /\ req'[r].row = Len(rows) + 1 /\ req[r].pc = "rotate"
      /\ UNCHANGED <<held, overlap>> /\ k \in Ids /\ t \in Table /\ Fam(t) = k
      /\ \A f \in Ids : unheard'[f] = IF f = k THEN unheard[k] + 1 ELSE unheard[f]
  BY RotateStep DEF RotatedTo
<1> SUFFICES ASSUME NEW f \in Ids \ overlap', NEW n \in 1..Len(rows'), rows'[n].family = f,
                    \A j \in 1..Len(rows') : rows'[j].family = rows'[n].family => j <= n
             PROVE  Abreast(f, n)'
  BY DEF ClientInv, Newest, Table, Fam
<1>2. /\ Len(rows) \in Nat /\ Len(rows') = Len(rows) + 1 /\ rows'[Len(rows) + 1].family = k
      /\ rows'[Len(rows) + 1].generation = g + 1 /\ g \in Nat
      /\ \A i \in Table : rows'[i].family = Fam(i) /\ rows'[i].generation = rows[i].generation
  BY <1>1, RowTypes, RequestTypes DEF Grown
<1>3. Decided(r)
  BY DEF RotateInv
<1> HIDE DEF t, g, k
<1>4. CASE f # k
  BY <1>1, <1>2, <1>4, ClientOthersGrown
<1>5. CASE f = k
  <2>1. n = Len(rows) + 1
    <3>1. Len(rows) + 1 \in 1..Len(rows') /\ Len(rows) + 1 <= n
      BY <1>2, <1>5
    <3> QED BY <1>2, <3>1
  <2>2. f \notin overlap /\ f \notin raced
    BY <1>1 DEF OverlapInv
  <2>3. Newest(t) /\ g = rows[t].generation
    BY <1>1, <1>3, <1>5, <2>2 DEF Decided, k, t, g
  <2>4. Abreast(f, t)
    BY <1>1, <1>5, <2>2, <2>3 DEF ClientInv
  <2>5. held'[f] # 0 => rows'[n].generation = rows'[held'[f]].generation + unheard'[f]
    <3> SUFFICES ASSUME held[f] # 0
                 PROVE  rows'[n].generation = rows'[held[f]].generation + unheard'[f]
      BY <1>1
    <3>1. held[f] \in Table
      BY DEF LinkInv, ClientLink
    <3>2. PICK h \in Nat : h = rows[held[f]].generation /\ rows'[held[f]].generation = h
      BY <1>2, <3>1, RowTypes
    <3>3. PICK u \in Nat : u = unheard[f] /\ unheard'[f] = u + 1
      BY <1>1, <1>5 DEF TypeOK
    <3>4. g = h + u
      BY <2>3, <2>4, <3>2, <3>3 DEF Abreast
    <3> QED BY <1>2, <2>1, <3>2, <3>3, <3>4
  <2>6. ASSUME NEW q \in Requests, rows'[req'[q].row].family = f
        PROVE  /\ req'[q].pc \in Asked =>
                    rows'[n].generation = rows'[req'[q].row].generation + unheard'[f]
               /\ req'[q].pc = "answer" => req'[q].row = n
    <3>1. CASE q = r
      BY <1>1, <2>1, <3>1 DEF Asked
    <3>2. CASE q # r
      <4>1. req'[q] = req[q] /\ (req[q].pc \in Out => req[q].row \in Table)
        BY <1>1, <3>2 DEF OthersWait, LinkInv, RequestLink
      <4>2. req[q].pc \in Out => Fam(req[q].row) = f
        BY <1>2, <2>6, <4>1
      <4>3. req[q].pc \notin Out
        BY <1>1, <1>5, <2>2, <3>2, <4>2 DEF OverlapInv, Out, Asked, k
      <4> QED BY <4>1, <4>3 DEF Out
    <3> QED BY <3>1, <3>2
  <2> QED BY <2>5, <2>6 DEF Abreast, Fam
<1> QED BY <1>4, <1>5

LEMMA ClientReceived ==
  ASSUME TypeOK, LinkInv, OverlapInv, ClientInv, NEW r \in Requests, ReceiveTokens(r)
  PROVE  ClientInv'
<1> DEFINE k == Fam(req[r].row)
<1>1. /\ UNCHANGED <<rows, overlap>> /\ OthersWait(r) /\ req'[r].pc = "done"
      /\ req[r].pc = "answer" /\ req[r].row \in Table
      /\ \A f \in Ids : /\ held'[f] = IF f = k THEN req[r].row ELSE held[f]
                        /\ unheard'[f] = IF f = k THEN 0 ELSE unheard[f]
  BY ReceiveStep
<1> SUFFICES ASSUME NEW f \in Ids \ overlap, NEW n \in Table, Fam(n) = f, Newest(n)
             PROVE  Abreast(f, n)'
  BY <1>1 DEF ClientInv, Newest, Table, Fam
<1>2. Abreast(f, n) /\ rows[n].generation \in Nat
  BY RowTypes DEF ClientInv
<1>3. CASE f # k
  BY <1>1, <1>2, <1>3 DEF Abreast, Fam, OthersWait, Asked
<1>4. CASE f = k
  <2>1. req[r].row = n
    BY <1>1, <1>2, <1>4 DEF Abreast
  <2>2. rows'[n].generation = rows'[held'[f]].generation + unheard'[f]
    BY <1>1, <1>2, <1>4, <2>1
  <2>3. ASSUME NEW q \in Requests, rows'[req'[q].row].family = f PROVE req'[q].pc \notin Out
    <3>1. CASE q = r
      BY <1>1, <3>1 DEF Out, Asked
    <3>2. CASE q # r
      <4>1. req'[q] = req[q] /\ Fam(req[q].row) = k
        BY <1>1, <1>4, <2>3, <3>2 DEF OthersWait, Fam
      <4> QED BY <1>1, <1>4, <3>2, <4>1 DEF OverlapInv, Out
    <3> QED BY <3>1, <3>2
  <2> QED BY <2>2, <2>3 DEF Abreast, Out, Fam
<1> QED BY <1>3, <1>4

LEMMA ClientSent ==
  ASSUME TypeOK, LinkInv, ClientInv, NEW r \in Requests, SendRefresh(r)
  PROVE  ClientInv'
<1>1. /\ UNCHANGED <<rows, held>> /\ OthersWait(r)
  BY SendStep
<1>2. PICK k \in Ids : /\ held[k] \in Table /\ Fam(held[k]) = k
                       /\ req'[r].pc = "sent" /\ req'[r].row = held[k]
                       /\ overlap' = overlap \cup ({k} \cap Outstanding)
  BY SendStep
<1>3. UNCHANGED unheard
  BY DEF SendRefresh, client
<1> SUFFICES ASSUME NEW f \in Ids \ overlap, NEW n \in Table, Fam(n) = f, Newest(n)
             PROVE  Abreast(f, n)'
  BY <1>1, <1>2 DEF ClientInv, Newest, Table, Fam
<1>4. Abreast(f, n)
  BY DEF ClientInv
<1>5. ASSUME NEW q \in Requests, rows'[req'[q].row].family = f
      PROVE  /\ req'[q].pc \in Asked =>
                  rows'[n].generation = rows'[req'[q].row].generation + unheard'[f]
             /\ req'[q].pc = "answer" => req'[q].row = n
  <2>1. CASE q # r
    BY <1>1, <1>3, <1>4, <1>5, <2>1 DEF Abreast, OthersWait, Fam
  <2>2. CASE q = r
    <3>1. f = k /\ held[f] # 0
      BY <1>1, <1>2, <1>5, <2>2 DEF Fam, Table
    <3>2. rows[n].generation = rows[held[f]].generation + unheard[f]
      BY <1>4, <3>1 DEF Abreast
    <3> QED BY <1>1, <1>2, <1>3, <2>2, <3>1, <3>2
  <2> QED BY <2>1, <2>2
<1> QED BY <1>1, <1>3, <1>4, <1>5 DEF Abreast, Fam

LEMMA ClientInvStep ==
  ASSUME TypeOK, LinkInv, PurgeInv, RotateInv, OverlapInv, ClientInv, [Next]_vars
  PROVE  ClientInv'
<1>1. CASE QuietStep
  <2>1. /\ Kept /\ UNCHANGED <<unheard, overlap>> /\ \A f \in Ids : held'[f] \in {held[f], 0}
        /\ \A q \in Requests : req'[q] = req[q] \/ req'[q].pc \notin Out
    BY <1>1 DEF QuietStep, Quiet
  <2> QED BY <2>1, ClientInvKept DEF Out
<1>2. ASSUME NEW r \in Requests, Active(r) PROVE ClientInv'
  <2>1. OthersWait(r) /\ overlap \subseteq overlap'
    BY <1>2, ActiveRows
  <2>2. ASSUME Kept, \A f \in Ids : held'[f] \in {held[f], 0} /\ unheard'[f] = unheard[f],
               req'[r].pc \in Asked \cup {"answer"} =>
                 req'[r].row = req[r].row /\ req'[r].pc \in Asked /\ req[r].pc \in Asked
        PROVE  ClientInv'
    <3>1. \A q \in Requests : req'[q].pc \in Asked \cup {"answer"} =>
           /\ req'[q].row = req[q].row
           /\ req'[q].pc \in Asked => req[q].pc \in Asked
           /\ req'[q].pc = "answer" => req[q].pc = "answer"
      BY <2>1, <2>2 DEF OthersWait, Asked
    <3> QED BY <2>1, <2>2, <3>1, ClientInvKept
  <2>3. CASE LockPresented(r)
    <3>1. UNCHANGED unheard
      BY <2>3 DEF LockPresented, client
    <3> QED BY <2>2, <2>3, <3>1, LockStep DEF Asked
  <2>4. CASE Decide(r)
    <3>1. UNCHANGED unheard
      BY <2>4 DEF Decide, client
    <3> QED BY <2>2, <2>4, <3>1, DecideStep DEF Asked
  <2>5. CASE RotateOntoNewGeneration(r) /\ RefusedAndRevoked(r)
    <3>1. UNCHANGED <<held, unheard>> /\ Kept /\ req'[r].pc = "refused"
      BY <2>5, RotateStep DEF RefusedAndRevoked
    <3> QED BY <2>2, <3>1 DEF Asked
  <2>6. CASE TearDownFamily(r)
    BY <2>2, <2>6, TearStep DEF Asked
  <2>7. CASE /\ req[r].pc \in {"sign_out", "sign_out_everywhere", "change_password"}
             /\ BeginRevocation(r)
    BY <2>2, <2>7, BeginStep DEF Asked
  <2>8. CASE CommitRevocation(r)
    BY <2>2, <2>8, CommitStep DEF Asked
  <2>9. RotateOntoNewGeneration(r) => RotatedTo(r) \/ RefusedAndRevoked(r)
    BY RotateStep
  <2> QED BY <1>2, <2>3, <2>4, <2>5, <2>6, <2>7, <2>8, <2>9, ClientIssued, ClientSent,
             ClientRotated, ClientReceived DEF Active
<1> QED BY <1>1, <1>2, StepKinds

\* Whoever is taken for two parties missed two rotations or came after the
\* window, as far as its client sends one refresh at a time.
LEMMA TearDecided ==
  ASSUME TypeOK, LinkInv, PurgeInv, ChainInv, OverlapInv, ClientInv,
         NEW r \in Requests, Decide(r), req'[r].pc = "tear",
         Fam(req[r].row) \notin overlap
  PROVE  unheard[Fam(req[r].row)] >= 2 \/ rows[req[r].row].superseded = "long_ago"
<1> DEFINE i == req[r].row
           f == Fam(i)
<1>1. /\ req[r].pc = "decide" /\ i \in InFamily(f) /\ rows[i].generation # Generation(f)
      /\ rows[i].generation + 1 = Generation(f) => rows[i].superseded # "recently"
  BY DecideStep DEF Fam
<1>2. /\ i \in Table /\ f \in Ids /\ f \notin raced /\ rows[i].generation \in Nat
      /\ unheard[f] \in Nat /\ rows[i].superseded \in {"no", "recently", "long_ago"}
  <2>1. i \in Table
    BY <1>1 DEF InFamily, Rows, Table
  <2> QED BY <2>1, RowTypes DEF OverlapInv, TypeOK
<1>3. PICK m \in InFamily(f) : Newest(m) /\ rows[m].generation = Generation(f)
  BY <1>1, <1>2, UnracedNewest
<1>4. m \in Table /\ Fam(m) = f
  BY DEF InFamily, Rows, Table, Fam
<1>5. Generation(f) = rows[i].generation + unheard[f]
  <2>1. Abreast(f, m)
    BY <1>2, <1>3, <1>4 DEF ClientInv
  <2> QED BY <1>1, <1>3, <2>1 DEF Abreast, Asked
<1>6. rows[i].superseded # "no"
  <2>1. i < m
    <3>1. i <= m /\ i # m
      BY <1>1, <1>2, <1>3, <1>4 DEF Newest
    <3> QED BY <1>2, <1>4, <3>1 DEF Table
  <2> QED BY <1>2, <1>4, <2>1 DEF ChainInv
<1>7. CASE unheard[f] >= 2
  BY <1>7
<1>8. CASE unheard[f] = 1
  BY <1>1, <1>2, <1>5, <1>6, <1>8
<1>9. CASE unheard[f] = 0
  BY <1>1, <1>2, <1>5, <1>9
<1> QED
  <2> HIDE DEF i, f
  <2>1. unheard[f] >= 2 \/ unheard[f] = 1 \/ unheard[f] = 0
    BY <1>2
  <2> QED BY <1>7, <1>8, <1>9, <2>1 DEF i, f

LEMMA TearInvStep ==
  ASSUME TypeOK, LinkInv, PurgeInv, ChainInv, OverlapInv, ClientInv, TearInv, [Next]_vars
  PROVE  TearInv'
<1>0. \A q \in Requests : req[q].pc = "tear" => req[q].row \in Table
  BY DEF LinkInv, RequestLink, Out, Asked
<1>1. CASE QuietStep
  <2>1. \A q \in Requests : req'[q].pc = "tear" => req'[q] = req[q]
    BY <1>1 DEF QuietStep, Quiet, Out, Asked
  <2>2. /\ UNCHANGED <<unheard, overlap>>
        /\ \A i \in Table : /\ rows'[i].family = Fam(i)
                            /\ rows[i].superseded = "long_ago" => rows'[i].superseded = "long_ago"
    BY <1>1 DEF QuietStep, Quiet, Kept
  <2> QED BY <1>0, <2>1, <2>2 DEF TearInv, Fam
<1>2. ASSUME NEW r \in Requests, Active(r) PROVE TearInv'
  <2>1. OthersWait(r) /\ overlap \subseteq overlap' /\ \A i \in Table : rows'[i].family = Fam(i)
    BY <1>2, ActiveRows, FamiliesKept
  <2>2. ASSUME NEW q \in Requests, q # r, req'[q].pc = "tear",
               rows'[req'[q].row].family \notin overlap'
        PROVE  \/ unheard'[rows'[req'[q].row].family] >= 2
               \/ rows'[req'[q].row].superseded = "long_ago"
    <3> DEFINE i == req[q].row
               f == Fam(i)
    <3>1. /\ req'[q] = req[q] /\ i \in Table /\ rows'[i].family = f /\ f \notin overlap
          /\ req[q].pc = "tear" /\ f \in Ids
      BY <1>0, <2>1, <2>2, RowTypes DEF OthersWait
    <3>2. unheard[f] >= 2 \/ rows[i].superseded = "long_ago"
      BY <3>1 DEF TearInv
    <3>3. req[r].pc \in Out => Fam(req[r].row) # f
      BY <2>2, <3>1 DEF OverlapInv, Out, Asked
    <3>4. unheard'[f] = unheard[f]
      <4>1. CASE RotateOntoNewGeneration(r)
        BY <3>1, <3>3, <4>1, RotateStep DEF RotatedTo, RefusedAndRevoked, Out, Asked
      <4>2. CASE ReceiveTokens(r)
        BY <3>1, <3>3, <4>2, ReceiveStep DEF Out
      <4>3. CASE ~RotateOntoNewGeneration(r) /\ ~ReceiveTokens(r)
        <5>1. UNCHANGED unheard
          BY <1>2, <4>3 DEF Active, issue_session, SendRefresh, LockPresented, Decide,
             TearDownFamily, BeginRevocation, CommitRevocation, client
        <5> QED BY <5>1
      <4> QED BY <4>1, <4>2, <4>3
    <3>5. rows[i].superseded = "long_ago" => rows'[i].superseded = "long_ago"
      <4>1. CASE Kept
        BY <3>1, <4>1 DEF Kept
      <4>2. CASE issue_session(r) /\ Grown(Len(rows) + 1, 0, 0)
        BY <3>1, <4>2, RowTypes DEF Grown, Table
      <4>3. CASE RotateOntoNewGeneration(r) /\ RotatedTo(r)
        <5>1. Fam(req[r].target) # f
          BY <3>3, <4>3, RotateStep DEF Out, Asked
        <5> QED BY <3>1, <4>3, <5>1 DEF RotatedTo, Grown
      <4> QED BY <1>2, <4>1, <4>2, <4>3, ActiveRows
    <3> QED BY <3>1, <3>2, <3>4, <3>5
  <2>3. ASSUME req'[r].pc = "tear", rows'[req'[r].row].family \notin overlap'
        PROVE  \/ unheard'[rows'[req'[r].row].family] >= 2
               \/ rows'[req'[r].row].superseded = "long_ago"
    <3>1. Decide(r)
      <4>1. LockPresented(r) => req'[r].pc # "tear"
        BY LockStep
      <4> QED BY <1>2, <2>3, <4>1, OnlyDecideWrites
    <3>2. /\ UNCHANGED <<rows, unheard, overlap>> /\ req'[r].row = req[r].row
      BY <3>1, DecideStep DEF Decide, client
    <3> QED BY <2>3, <3>1, <3>2, TearDecided DEF Fam
  <2> QED BY <2>2, <2>3 DEF TearInv, Fam
<1> QED BY <1>1, <1>2, StepKinds

LEMMA ForgivenStep ==
  ASSUME TypeOK, LinkInv, PurgeInv, TearInv, LostAnswerForgiven, [Next]_vars
  PROVE  LostAnswerForgiven'
<1>1. overlap \subseteq overlap'
  BY StepKinds, FamiliesKept
<1>2. CASE UNCHANGED torn
  BY <1>1, <1>2 DEF LostAnswerForgiven
<1>3. ASSUME NEW r \in Requests, TearDownFamily(r) PROVE LostAnswerForgiven'
  <2>1. UNCHANGED overlap /\ req[r].pc = "tear"
        /\ \A t \in torn' : t \in torn \/
             /\ t.family = Fam(req[r].row) /\ t.missed = unheard[Fam(req[r].row)]
             /\ t.graceOver = (rows[req[r].row].superseded = "long_ago")
    BY <1>3, TearStep
  <2> SUFFICES ASSUME NEW t \in torn', t.family \notin overlap
               PROVE  t.missed >= 2 \/ t.graceOver
    BY <2>1 DEF LostAnswerForgiven
  <2>2. CASE t \in torn
    BY <2>2 DEF LostAnswerForgiven
  <2>3. CASE /\ t.family = Fam(req[r].row) /\ t.missed = unheard[Fam(req[r].row)]
             /\ t.graceOver = (rows[req[r].row].superseded = "long_ago")
    <3>1. unheard[Fam(req[r].row)] >= 2 \/ rows[req[r].row].superseded = "long_ago"
      BY <2>1, <2>3 DEF TearInv
    <3> QED BY <2>3, <3>1
  <2> QED BY <2>1, <2>2, <2>3
<1>4. QuietStep => UNCHANGED torn
  BY DEF QuietStep, Quiet
<1>5. ASSUME NEW r \in Requests, Active(r), ~TearDownFamily(r) PROVE UNCHANGED torn
  BY <1>5, IssueStep, SendStep, LockStep, DecideStep, RotateStep, ReceiveStep, BeginStep,
     CommitStep DEF Active
<1> QED BY <1>2, <1>3, <1>4, <1>5, StepKinds

-----------------------------------------------------------------------------
(* The invariant, and what it gives.                                        *)

SessionInv ==
  /\ TypeOK /\ LinkInv /\ PurgeInv /\ ChainInv /\ RotateInv /\ RaceInv
  /\ OverlapInv /\ SnapshotInv /\ EndedInv /\ ClientInv /\ TearInv
  /\ LostAnswerForgiven

LEMMA SessionInitInv == Init => SessionInv
<1> SUFFICES ASSUME Init PROVE SessionInv
  OBVIOUS
<1>1. /\ rows = <<>> /\ Len(rows) = 0 /\ Table = {} /\ rows \in Seq(Session)
      /\ raced = {} /\ overlap = {} /\ ended = {} /\ late = {} /\ torn = {}
  BY DEF Init, Table
<1>2. \A q \in Requests : req[q] = Idle
  BY DEF Init
<1>3. Idle \in Request /\ Idle.pc = "idle" /\ Idle.ids = {}
  BY IdleRequest DEF Idle
<1>4. \A f \in Ids : held[f] = 0 /\ unheard[f] = 0
  BY DEF Init
<1>5. TypeOK
  <2>1. /\ req \in [Requests -> Request] /\ held \in [Ids -> 0..MaxRows] /\ unheard \in [Ids -> Nat]
    BY <1>3, MaxRowsAssumption DEF Init
  <2>2. failed \in 0..MaxFailed /\ Len(rows) <= MaxRows
    BY <1>1, MaxRowsAssumption, MaxFailedAssumption DEF Init
  <2>3. member \subseteq Companies /\ locked \in {"none", "future", "past"}
    BY DEF Init
  <2> QED BY <1>1, <2>1, <2>2, <2>3 DEF TypeOK
<1> HIDE DEF Idle
<1>6. LinkInv
  <2>1. \A q \in Requests : RequestLink(q)
    BY <1>2, <1>3 DEF RequestLink, InRefresh, Out, Asked, SignedIn
  <2>2. RowLink /\ ClientLink
    BY <1>1, <1>4 DEF RowLink, ClientLink
  <2> QED BY <2>1, <2>2 DEF LinkInv
<1>7. PurgeInv /\ ChainInv /\ ClientInv
  BY <1>1 DEF PurgeInv, ChainInv, ClientInv
<1>8. RotateInv /\ RaceInv /\ OverlapInv /\ SnapshotInv /\ TearInv
  BY <1>1, <1>2, <1>3 DEF RotateInv, Decided, RaceInv, OverlapInv, SnapshotInv, TearInv, Out, Asked
<1>9. EndedInv /\ LostAnswerForgiven
  BY <1>1 DEF EndedInv, LostAnswerForgiven
<1> QED BY <1>5, <1>6, <1>7, <1>8, <1>9 DEF SessionInv

LEMMA SessionInvStep == SessionInv /\ [Next]_vars => SessionInv'
BY TypeLinkStep, PurgeInvStep, ChainInvStep, RotateInvStep, RaceInvStep, OverlapInvStep,
   SnapshotInvStep, EndedInvStep, ClientInvStep, TearInvStep, ForgivenStep DEF SessionInv

LEMMA SessionInvariant == Spec => []SessionInv
BY SessionInitInv, SessionInvStep, PTL DEF Spec

LEMMA OneLive == SessionInv => OneLiveGeneration
<1> SUFFICES ASSUME SessionInv, NEW f \in Ids \ raced, NEW i \in InFamily(f), Live(i),
                    NEW j \in InFamily(f), j # i
             PROVE  ~Live(j) /\ rows[j].generation < rows[i].generation
  BY DEF OneLiveGeneration
<1>1. /\ i \in Table /\ j \in Table /\ Fam(i) = f /\ Fam(j) = f
  BY DEF InFamily, Rows, Table, Fam
<1>2. Newest(i)
  BY UnracedNewest DEF SessionInv
<1>3. j < i
  BY <1>1, <1>2 DEF Newest, Table
<1> QED BY <1>1, <1>3 DEF SessionInv, ChainInv, Live

\* Every variable stays in its set, whatever the requests do to each other.
THEOREM SessionTypeCorrect == Spec => []TypeOK
BY SessionInvariant, PTL DEF SessionInv

\* A family nobody raced for has at most one live generation, the newest, with
\* any number of requests, rows and companies.
THEOREM RotationKeepsOneLive == Spec => []OneLiveGeneration
BY SessionInvariant, OneLive, PTL

\* A family a revocation went over whole, with no refresh under way meanwhile,
\* has no row that is not revoked, and gets none.
THEOREM SignedOutForGood == Spec => []SignedOutStaysOut
<1>1. SessionInv => SignedOutStaysOut
  BY DEF SessionInv, EndedInv, Settled, SignedOutStaysOut
<1> QED BY <1>1, SessionInvariant, PTL

\* One lost answer is forgiven: a client with one refresh out at a time is torn
\* down only after two missed rotations or past the window.
THEOREM LostAnswersForgiven == Spec => []LostAnswerForgiven
BY SessionInvariant, PTL DEF SessionInv

-----------------------------------------------------------------------------
(* SOURCE SWEEP.                                                            *)

\* The advisory lock: held by one worker's pool at most, and by that of the
\* worker that sweeps.
LockInv ==
  /\ \A w \in Workers : Holding(w) => depth[w] > 0
  /\ \A v, w \in Workers : depth[v] > 0 /\ depth[w] > 0 => v = w

\* What a sweep is about to record lies between the row and the page.
VersionInv ==
  /\ \A s \in DOMAIN retrievals : retrievals[s].sha <= page[s]
  /\ \A w \in Workers :
       pc[w] = "recording" /\ body[w] # Unread =>
         /\ body[w] <= page[at[w]]
         /\ at[w] \in DOMAIN retrievals => retrievals[at[w]].sha <= body[w]

SweepInv == SweepTypeOK /\ LockInv /\ VersionInv

-----------------------------------------------------------------------------
(* What the two recording statements leave in source_retrievals.           *)

\* An upsert writes one row and no other.
LEMMA UpsertRow ==
  ASSUME NEW s, NEW r
  PROVE  /\ DOMAIN Upsert(s, r) = DOMAIN retrievals \cup {s}
         /\ Upsert(s, r)[s] = r
         /\ \A t \in DOMAIN retrievals \ {s} : Upsert(s, r)[t] = retrievals[t]
BY DEF Upsert

\* A page that was read: its own version and verdict.
LEMMA ReadRow ==
  ASSUME NEW s \in Sources, NEW v \in 0..MaxVersion
  PROVE  LET r == record_source_read(s, v) IN
         /\ DOMAIN r = DOMAIN retrievals \cup {s}
         /\ r[s] \in Row /\ r[s].sha = v /\ r[s].state = check(v)
         /\ \A t \in DOMAIN retrievals \ {s} : r[t] = retrievals[t]
<1> DEFINE new == [state |-> check(v), sha |-> v, fresh |-> TRUE]
<1>1. new \in Row /\ new.sha = v /\ new.state = check(v)
  BY DEF Row, check
<1>2. record_source_read(s, v) = Upsert(s, new)
  BY DEF record_source_read
<1> HIDE DEF new
<1>3. /\ DOMAIN Upsert(s, new) = DOMAIN retrievals \cup {s}
      /\ Upsert(s, new)[s] = new
      /\ \A t \in DOMAIN retrievals \ {s} : Upsert(s, new)[t] = retrievals[t]
  BY UpsertRow
<1> QED BY <1>1, <1>2, <1>3

\* A page that did not answer: a row that has a verdict keeps it with its hash.
LEMMA UnreachableRow ==
  ASSUME NEW s \in Sources, \A t \in DOMAIN retrievals : retrievals[t] \in Row
  PROVE  LET r == record_source_unreachable(s) IN
         /\ DOMAIN r = DOMAIN retrievals \cup {s}
         /\ r[s] \in Row
         /\ s \in DOMAIN retrievals =>
              /\ r[s].sha = retrievals[s].sha
              /\ retrievals[s].state \in {"verified", "mismatch"} =>
                   r[s].state = retrievals[s].state
         /\ s \notin DOMAIN retrievals => r[s].sha = Unread
         /\ \A t \in DOMAIN retrievals \ {s} : r[t] = retrievals[t]
<1>1. CASE s \in DOMAIN retrievals
  <2> DEFINE new == [retrievals[s] EXCEPT
                      !.fresh = TRUE,
                      !.state = IF @ \in {"verified", "mismatch"} THEN @ ELSE "unreachable"]
  <2>1. retrievals[s] \in Row
    BY <1>1
  <2>2. /\ new \in Row /\ new.sha = retrievals[s].sha
        /\ retrievals[s].state \in {"verified", "mismatch"} => new.state = retrievals[s].state
    BY <2>1 DEF Row
  <2>3. record_source_unreachable(s) = Upsert(s, new)
    BY <1>1 DEF record_source_unreachable
  <2> HIDE DEF new
  <2>4. /\ DOMAIN Upsert(s, new) = DOMAIN retrievals \cup {s}
        /\ Upsert(s, new)[s] = new
        /\ \A t \in DOMAIN retrievals \ {s} : Upsert(s, new)[t] = retrievals[t]
    BY UpsertRow
  <2> QED BY <1>1, <2>2, <2>3, <2>4
<1>2. CASE s \notin DOMAIN retrievals
  <2> DEFINE new == [state |-> "unreachable", sha |-> Unread, fresh |-> TRUE]
  <2>1. new \in Row /\ new.sha = Unread
    BY DEF Row
  <2>2. record_source_unreachable(s) = Upsert(s, new)
    BY <1>2 DEF record_source_unreachable
  <2> HIDE DEF new
  <2>3. /\ DOMAIN Upsert(s, new) = DOMAIN retrievals \cup {s}
        /\ Upsert(s, new)[s] = new
        /\ \A t \in DOMAIN retrievals \ {s} : Upsert(s, new)[t] = retrievals[t]
    BY UpsertRow
  <2> QED BY <1>2, <2>1, <2>2, <2>3
<1> QED BY <1>1, <1>2

\* What Record does to the row of the source it is at, and to no other.
LEMMA RecordedRow ==
  ASSUME SweepTypeOK, NEW w \in Workers, Record(w)
  PROVE  /\ at[w] \in Sources /\ body[w] \in {Unread} \cup (0..MaxVersion)
         /\ DOMAIN retrievals' = DOMAIN retrievals \cup {at[w]}
         /\ retrievals'[at[w]] \in Row
         /\ body[w] # Unread =>
              /\ retrievals'[at[w]].sha = body[w]
              /\ retrievals'[at[w]].state = check(body[w])
         /\ body[w] = Unread /\ at[w] \in DOMAIN retrievals =>
              /\ retrievals'[at[w]].sha = retrievals[at[w]].sha
              /\ retrievals[at[w]].state \in {"verified", "mismatch"} =>
                   retrievals'[at[w]].state = retrievals[at[w]].state
         /\ body[w] = Unread /\ at[w] \notin DOMAIN retrievals => retrievals'[at[w]].sha = Unread
         /\ \A t \in DOMAIN retrievals \ {at[w]} : retrievals'[t] = retrievals[t]
<1>1. at[w] \in Sources /\ body[w] \in {Unread} \cup (0..MaxVersion)
      /\ \A t \in DOMAIN retrievals : retrievals[t] \in Row
  BY DEF SweepTypeOK
<1>2. CASE body[w] = Unread
  <2>1. retrievals' = record_source_unreachable(at[w])
    BY <1>2 DEF Record
  <2> QED BY <1>1, <1>2, <2>1, UnreachableRow
<1>3. CASE body[w] # Unread
  <2>1. retrievals' = record_source_read(at[w], body[w]) /\ body[w] \in 0..MaxVersion
    BY <1>1, <1>3 DEF Record
  <2> QED BY <1>1, <1>3, <2>1, ReadRow
<1> QED BY <1>2, <1>3

-----------------------------------------------------------------------------

LEMMA SweepInitInv == SweepInit => SweepInv
<1> SUFFICES ASSUME SweepInit PROVE SweepInv
  OBVIOUS
<1>1. SweepTypeOK
  BY SweepConstants DEF SweepInit, SweepTypeOK, Sources, Unread
<1>2. LockInv
  BY DEF SweepInit, LockInv, Holding
<1>3. VersionInv
  BY DEF SweepInit, VersionInv
<1> QED BY <1>1, <1>2, <1>3 DEF SweepInv

\* Every step of a worker, of the pool, of time and of the authority keeps the
\* variables of their types; the depth of the lock never drops below zero,
\* because only a worker that took the lock releases it.
LEMMA SweepTypeOKStep ==
  ASSUME SweepInv, [SweepNext]_sweepVars
  PROVE  SweepTypeOK'
<1> USE SweepConstants
<1> USE DEF SweepInv, SweepTypeOK, Sources
<1>0. 1 \in Sources /\ (faults < MaxFaults => faults + 1 \in 0..MaxFaults)
  OBVIOUS
<1>1. ASSUME NEW w \in Workers, Record(w) PROVE SweepTypeOK'
  <2>1. DOMAIN retrievals' \subseteq Sources /\ \A s \in DOMAIN retrievals' : retrievals'[s] \in Row
    <3>1. /\ DOMAIN retrievals' = DOMAIN retrievals \cup {at[w]}
          /\ at[w] \in Sources /\ retrievals'[at[w]] \in Row
          /\ \A t \in DOMAIN retrievals \ {at[w]} : retrievals'[t] = retrievals[t]
      BY <1>1, RecordedRow
    <3> QED BY <3>1
  <2>2. at' \in [Workers -> Sources]
    <3>1. at[w] \in 1..NumSources
      OBVIOUS
    <3>2. CASE at[w] = NumSources
      BY <1>1, <3>2 DEF Record
    <3>3. CASE at[w] # NumSources
      <4>1. at' = [at EXCEPT ![w] = at[w] + 1] /\ at[w] + 1 \in 1..NumSources
        BY <1>1, <3>1, <3>3 DEF Record
      <4> QED BY <4>1
    <3> QED BY <3>2, <3>3
  <2> QED BY <1>1, <2>1, <2>2 DEF Record
<1>2. ASSUME NEW w \in Workers, release(w) PROVE SweepTypeOK'
  <2>1. depth[w] \in Nat /\ depth[w] > 0
    BY <1>2 DEF release, LockInv, Holding
  <2> QED BY <1>2, <2>1 DEF release
<1>3. ASSUME NEW w \in Workers, fetch(w) PROVE SweepTypeOK'
  <2>1. PICK v \in {Unread} \cup (0..MaxVersion) : body' = [body EXCEPT ![w] = v]
    BY <1>3 DEF fetch
  <2> QED BY <1>3, <2>1 DEF fetch
<1>4. ASSUME NEW s \in Sources, Age(s) PROVE SweepTypeOK'
  <2>1. retrievals[s] \in Row /\ retrievals' = [retrievals EXCEPT ![s].fresh = FALSE]
    BY <1>4 DEF Age
  <2>2. [retrievals[s] EXCEPT !.fresh = FALSE] \in Row
    BY <2>1 DEF Row
  <2>3. /\ DOMAIN retrievals' = DOMAIN retrievals
        /\ \A t \in DOMAIN retrievals : retrievals'[t] \in Row
    BY <2>1, <2>2
  <2> QED BY <1>4, <2>3 DEF Age
<1>5. ASSUME NEW s \in Sources, Publish(s) PROVE SweepTypeOK'
  BY <1>5 DEF Publish
<1>6. ASSUME NEW w \in Workers, AskDue(w) \/ claim_source_sweep(w) PROVE SweepTypeOK'
  <2>1. CASE AskDue(w)
    BY <2>1 DEF AskDue
  <2>2. CASE claim_source_sweep(w)
    <3>1. \E p \in {"claimed", "idle"} : pc' = [pc EXCEPT ![w] = p]
      BY <2>2 DEF claim_source_sweep
    <3>2. depth' = [depth EXCEPT ![w] = depth[w] + 1] \/ depth' = depth
      BY <2>2 DEF claim_source_sweep
    <3> QED BY <2>2, <3>1, <3>2 DEF claim_source_sweep
  <2> QED BY <1>6, <2>1, <2>2
<1>7. ASSUME NEW w \in Workers, AskAgain(w) \/ AskAgainFails(w) PROVE SweepTypeOK'
  <2>1. CASE AskAgain(w)
    BY <1>0, <2>1 DEF AskAgain
  <2>2. CASE AskAgainFails(w)
    BY <1>0, <2>2 DEF AskAgainFails
  <2> QED BY <1>7, <2>1, <2>2
<1>8. ASSUME NEW w \in Workers, Panic(w) \/ RecordFails(w) PROVE SweepTypeOK'
  <2>1. CASE Panic(w)
    BY <2>1 DEF Panic
  <2>2. CASE RecordFails(w)
    BY <1>0, <2>2 DEF RecordFails
  <2> QED BY <1>8, <2>1, <2>2
<1>9. ASSUME NEW w \in Workers, Recycle(w) PROVE SweepTypeOK'
  BY <1>9 DEF Recycle
<1>10. ASSUME NEW w \in Workers, Crash(w) PROVE SweepTypeOK'
  BY <1>10 DEF Crash
<1>11. CASE UNCHANGED sweepVars
  BY <1>11 DEF sweepVars
<1> QED
  BY <1>1, <1>2, <1>3, <1>4, <1>5, <1>6, <1>7, <1>8, <1>9, <1>10, <1>11 DEF SweepNext, Proceed

\* pg_try_advisory_lock, the unlock, the pool and the death of a process.
LEMMA LockInvStep ==
  ASSUME SweepInv, [SweepNext]_sweepVars
  PROVE  LockInv'
<1> USE DEF SweepInv, SweepTypeOK, LockInv, Holding
<1>1. ASSUME NEW w \in Workers, claim_source_sweep(w) PROVE LockInv'
  BY <1>1 DEF claim_source_sweep
<1>2. ASSUME NEW w \in Workers, release(w) PROVE LockInv'
  BY <1>2 DEF release
<1>3. ASSUME NEW w \in Workers, Recycle(w) \/ Crash(w) PROVE LockInv'
  BY <1>3 DEF Recycle, Crash
<1>4. ASSUME NEW w \in Workers,
             \/ AskDue(w) \/ AskAgain(w) \/ fetch(w) \/ Record(w) \/ Panic(w)
             \/ AskAgainFails(w) \/ RecordFails(w)
      PROVE  LockInv'
  <2>1. UNCHANGED depth
    BY <1>4 DEF AskDue, AskAgain, fetch, Record, Panic, AskAgainFails, RecordFails
  <2>2. \A v \in Workers : Holding(v)' => Holding(v)
    BY <1>4 DEF AskDue, AskAgain, fetch, Record, Panic, AskAgainFails, RecordFails
  <2> QED BY <2>1, <2>2
<1>5. ASSUME NEW s \in Sources, Age(s) \/ Publish(s) PROVE LockInv'
  BY <1>5 DEF Age, Publish
<1>6. CASE UNCHANGED sweepVars
  BY <1>6 DEF sweepVars
<1> QED BY <1>1, <1>2, <1>3, <1>4, <1>5, <1>6 DEF SweepNext, Proceed

\* Only the worker that holds the lock records, so that what it fetched cannot
\* be overtaken between its fetch and its record.
LEMMA VersionInvStep ==
  ASSUME SweepInv, [SweepNext]_sweepVars
  PROVE  VersionInv'
<1> USE SweepConstants
<1> USE DEF SweepInv, SweepTypeOK, VersionInv
<1>0. \A v, w \in Workers : pc[v] = "recording" /\ pc[w] = "recording" => v = w
  BY DEF LockInv, Holding
<1>1. ASSUME NEW w \in Workers, Record(w) PROVE VersionInv'
  <2>1. /\ \A s \in DOMAIN retrievals' : s \in Sources
        /\ UNCHANGED page /\ pc[w] = "recording" /\ pc'[w] # "recording"
        /\ \A v \in Workers \ {w} : pc'[v] = pc[v]
    <3>1. DOMAIN retrievals' = DOMAIN retrievals \cup {at[w]} /\ at[w] \in Sources
      BY <1>1, RecordedRow
    <3>2. pc'[w] # "recording" /\ \A v \in Workers \ {w} : pc'[v] = pc[v]
      BY <1>1 DEF Record
    <3> QED BY <1>1, <3>1, <3>2 DEF Record
  <2>2. retrievals'[at[w]].sha <= page[at[w]]
    <3>1. page[at[w]] \in Nat
      OBVIOUS
    <3>2. CASE body[w] # Unread
      BY <1>1, <2>1, <3>2, RecordedRow
    <3>3. CASE body[w] = Unread /\ at[w] \in DOMAIN retrievals
      BY <1>1, <3>3, RecordedRow
    <3>4. CASE body[w] = Unread /\ at[w] \notin DOMAIN retrievals
      <4>1. retrievals'[at[w]].sha = -1
        BY <1>1, <3>4, RecordedRow DEF Unread
      <4> QED BY <3>1, <4>1
    <3> QED BY <3>2, <3>3, <3>4
  <2>3. \A s \in DOMAIN retrievals' : retrievals'[s].sha <= page'[s]
    <3>1. /\ DOMAIN retrievals' = DOMAIN retrievals \cup {at[w]}
          /\ \A t \in DOMAIN retrievals \ {at[w]} : retrievals'[t] = retrievals[t]
      BY <1>1, RecordedRow
    <3> QED BY <2>1, <2>2, <3>1
  <2> QED BY <1>0, <2>1, <2>3
<1>2. ASSUME NEW w \in Workers, fetch(w) PROVE VersionInv'
  <2>1. /\ UNCHANGED <<page, retrievals, at>>
        /\ body'[w] = Unread \/ body'[w] = page[at[w]]
        /\ \A v \in Workers \ {w} : pc'[v] = pc[v] /\ body'[v] = body[v]
    BY <1>2 DEF fetch
  <2> QED BY <2>1
<1>3. ASSUME NEW s \in Sources, Age(s) PROVE VersionInv'
  <2>1. /\ UNCHANGED <<page, pc, at, body>> /\ DOMAIN retrievals' = DOMAIN retrievals
        /\ \A t \in DOMAIN retrievals : retrievals'[t].sha = retrievals[t].sha
    BY <1>3 DEF Age, Row
  <2> QED BY <2>1
<1>4. ASSUME NEW s \in Sources, Publish(s) PROVE VersionInv'
  <2>1. \A t \in Sources : page[t] \in Nat /\ page'[t] \in Nat /\ page[t] <= page'[t]
    BY <1>4 DEF Publish
  <2>2. UNCHANGED <<retrievals, pc, at, body>>
    BY <1>4 DEF Publish
  <2> QED BY <2>1, <2>2 DEF Row, Unread
<1>5. ASSUME NEW w \in Workers,
             \/ AskDue(w) \/ claim_source_sweep(w) \/ AskAgain(w) \/ Panic(w) \/ release(w)
             \/ AskAgainFails(w) \/ RecordFails(w) \/ Recycle(w) \/ Crash(w)
      PROVE  VersionInv'
  <2>1. /\ UNCHANGED <<page, retrievals>>
        /\ \A v \in Workers : pc'[v] = "recording" =>
             pc[v] = "recording" /\ at'[v] = at[v] /\ body'[v] = body[v]
    BY <1>5 DEF AskDue, claim_source_sweep, AskAgain, Panic, release, AskAgainFails,
                RecordFails, Recycle, Crash
  <2> QED BY <2>1
<1>6. CASE UNCHANGED sweepVars
  BY <1>6 DEF sweepVars
<1> QED BY <1>1, <1>2, <1>3, <1>4, <1>5, <1>6 DEF SweepNext, Proceed

LEMMA SweepInvariant == SweepSpec => []SweepInv
<1>1. SweepInv /\ [SweepNext]_sweepVars => SweepInv'
  BY SweepTypeOKStep, LockInvStep, VersionInvStep DEF SweepInv
<1> QED BY SweepInitInv, <1>1, PTL DEF SweepSpec

\* Type correctness of the sweep, that the depth of the lock is a natural
\* number at all included.
THEOREM SweepTypeCorrect == SweepSpec => []SweepTypeOK
<1>1. SweepInv => SweepTypeOK
  BY DEF SweepInv
<1> QED BY SweepInvariant, <1>1, PTL

\* claim_source_sweep excludes every other worker from claim to release, for
\* any number of workers and however locks leak with pooled connections.
THEOREM SweepsExcludeEachOther == SweepSpec => []OneSweepAtATime
<1>1. SweepInv => OneSweepAtATime
  BY DEF SweepInv, LockInv, OneSweepAtATime
<1> QED BY SweepInvariant, <1>1, PTL

\* No step takes a row's verdict away while the page it was read from stands:
\* record_source_unreachable keeps it, and a late record_source_read of an
\* earlier version cannot happen under the lock.
THEOREM TrueVerdictsLast == SweepSpec => TrueVerdictLasts
<1> DEFINE Lasts == \A s \in Sources : Current(s) /\ page'[s] = page[s] => Current(s)'
<1>1. ASSUME SweepInv, [SweepNext]_sweepVars PROVE [Lasts]_sweepVars
  <2> SUFFICES ASSUME NEW s \in Sources, Current(s), page'[s] = page[s]
               PROVE  Current(s)'
    OBVIOUS
  <2>1. /\ page[s] \in 0..MaxVersion
        /\ s \in DOMAIN retrievals /\ retrievals[s].sha = page[s]
        /\ retrievals[s].state = check(page[s])
    BY <1>1 DEF Current, SweepInv, SweepTypeOK
  <2>2. ASSUME NEW w \in Workers, Record(w) PROVE Current(s)'
    <3>1. CASE at[w] # s
      BY <1>1, <2>1, <2>2, <3>1, RecordedRow DEF Current, SweepInv
    <3>2. CASE at[w] = s /\ body[w] = Unread
      <4>1. retrievals[s].state \in {"verified", "mismatch"}
        BY <2>1 DEF check
      <4> QED BY <1>1, <2>1, <2>2, <3>2, <4>1, RecordedRow DEF Current, SweepInv
    <3>3. CASE at[w] = s /\ body[w] # Unread
      <4>1. body[w] = page[s]
        BY <1>1, <2>1, <2>2, <3>3, SweepConstants DEF Record, SweepInv, VersionInv, SweepTypeOK
      <4> QED BY <1>1, <2>1, <2>2, <3>3, <4>1, RecordedRow DEF Current, SweepInv
    <3> QED BY <3>1, <3>2, <3>3
  <2>3. ASSUME NEW t \in Sources, Age(t) PROVE Current(s)'
    <3>1. /\ DOMAIN retrievals' = DOMAIN retrievals
          /\ retrievals'[s].sha = retrievals[s].sha /\ retrievals'[s].state = retrievals[s].state
      BY <1>1, <2>1, <2>3 DEF Age, SweepInv, SweepTypeOK, Row
    <3> QED BY <2>1, <3>1 DEF Current
  <2>4. CASE UNCHANGED retrievals
    BY <2>1, <2>4 DEF Current
  <2> QED
    BY <1>1, <2>2, <2>3, <2>4
    DEF SweepNext, Proceed, sweepVars, AskDue, claim_source_sweep, AskAgain, fetch, Panic, release,
        AskAgainFails, RecordFails, Recycle, Crash, Publish
<1> QED BY <1>1, SweepInvariant, PTL DEF SweepSpec, TrueVerdictLasts
=============================================================================
