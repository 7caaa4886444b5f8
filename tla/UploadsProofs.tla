--------------------------- MODULE UploadsProofs ----------------------------
(***************************************************************************)
(* Uploads, for any number of tickets and of overlapping requests.         *)
(*                                                                         *)
(* Neither property survives a step on its own.  What carries them is what *)
(* a request knows between its transactions: a request about to commit has *)
(* put its own bytes under its own key already, and a request has no       *)
(* version before its transaction committed one.                           *)
(***************************************************************************)
EXTENDS Uploads, FiniteSetTheorems, TLAPS

\* A request's program counter, the ticket it names and the bytes it has read.
RequestType ==
  [pc : {"idle", "put", "fetch", "complete", "clean_up", "commit", "done"},
   ticket : Tickets \cup {Nothing},
   bytes : Contents \cup {Nothing}]

\* Past the lookup a request names a ticket; past the read it has bytes.
Shaped(q) ==
  /\ q \in RequestType
  /\ q.pc \in {"put", "fetch", "complete", "clean_up"} => q.ticket \in Tickets
  /\ q.pc \in {"complete", "commit"} => q.bytes \in Contents

RequestShape ==
  /\ req \in [Requests -> RequestType]
  /\ \A r \in Requests : Shaped(req[r])

\* No version before the commit, and the object is there before it.
BlobBeforeRow ==
  \A r \in Requests :
    /\ req[r].pc \notin {"clean_up", "done"} => version[r].by = Nothing
    /\ req[r].pc = "commit" => canonical[r] = req[r].bytes

\* What Cardinality hides from the provers: the one version a completed ticket
\* was accepted for, committed by a request that is past its transaction.
OneRedemption ==
  \A t \in Tickets :
    /\ IF ticket[t] = "completed" THEN \E r \in Requests : redeemed[t] = {r}
                                  ELSE redeemed[t] = {}
    /\ \A r \in redeemed[t] : /\ declared_size(version[r].bytes)
                              /\ req[r].pc \in {"clean_up", "done"}

TypeInv == TypeOK /\ RequestShape

IInv == TypeInv /\ BlobBeforeRow /\ UploadedVersionHasBytes /\ OneRedemption

-----------------------------------------------------------------------------

\* The records a handler puts in the place of a request's.
LEMMA FirstRecords ==
  /\ Shaped(Idle) /\ Idle.pc = "idle" /\ Shaped(Done) /\ Done.pc = "done"
  /\ \A op \in {"put", "fetch"}, t \in Tickets :
       LET q == [Idle EXCEPT !.pc = op, !.ticket = t] IN Shaped(q) /\ q.pc = op
  /\ \A b \in Contents :
       LET q == [Idle EXCEPT !.pc = "commit", !.bytes = b]
       IN  Shaped(q) /\ q.pc = "commit" /\ q.bytes = b
BY DEF RequestType, Shaped, Idle, Done

LEMMA LaterRecords ==
  ASSUME NEW p, Shaped(p), p.ticket \in Tickets
  PROVE  /\ \A b \in Contents :
              LET q == [p EXCEPT !.pc = "complete", !.bytes = b]
              IN  Shaped(q) /\ q.pc = "complete"
         /\ LET q == [p EXCEPT !.pc = "clean_up"] IN Shaped(q) /\ q.pc = "clean_up"
BY DEF RequestType, Shaped

\* Replacing one request's record by a well shaped one keeps all well shaped.
LEMMA RequestMoves ==
  ASSUME RequestShape, NEW r \in Requests, NEW q, Shaped(q), req' = [req EXCEPT ![r] = q]
  PROVE  /\ RequestShape'
         /\ req'[r] = q
         /\ \A p \in Requests \ {r} : req'[p] = req[p]
BY DEF RequestShape, Shaped

LEMMA TypeInvInit == Init => TypeInv
<1> SUFFICES ASSUME Init PROVE TypeInv
  OBVIOUS
<1>1. TypeOK
  BY LimitAssumption DEF Init, TypeOK, NoVersion
<1>2. RequestShape
  BY FirstRecords DEF Init, RequestShape, Shaped
<1> QED BY <1>1, <1>2 DEF TypeInv

\* What a request is about to use it has: ticket_for_completion and the read
\* of the landed object come before the steps that rely on them.
LEMMA RequestsHave ==
  ASSUME RequestShape, NEW r \in Requests
  PROVE  /\ Shaped(req[r])
         /\ req[r].pc \in {"put", "fetch", "complete", "clean_up"} => req[r].ticket \in Tickets
         /\ req[r].pc \in {"complete", "commit"} => req[r].bytes \in Contents
BY DEF RequestShape, Shaped

LEMMA RequestShapeStep ==
  ASSUME TypeInv, [Next]_vars
  PROVE  RequestShape'
<1> USE DEF TypeInv
<1>0. ASSUME NEW r \in Requests, Finish(r) PROVE RequestShape'
  BY <1>0, FirstRecords, RequestMoves DEF Finish
<1>1. ASSUME UNCHANGED req PROVE RequestShape'
  BY <1>1 DEF RequestShape, Shaped
<1>2. ASSUME NEW r \in Requests, NEW t \in Tickets, LookUpTicket(r, t)
      PROVE  RequestShape'
  <2>1. CASE ~TicketUsable(t)
    BY <1>0, <1>2, <2>1 DEF LookUpTicket, Finish
  <2>2. CASE TicketUsable(t)
    <3>1. PICK op \in {"put", "fetch"} :
            req' = [req EXCEPT ![r] = [Idle EXCEPT !.pc = op, !.ticket = t]]
      BY <1>2, <2>2 DEF LookUpTicket
    <3>2. Shaped([Idle EXCEPT !.pc = op, !.ticket = t])
      BY FirstRecords
    <3> QED BY <3>1, <3>2, RequestMoves
  <2> QED BY <2>1, <2>2
<1>3. ASSUME NEW r \in Requests, FetchBytes(r) PROVE RequestShape'
  <2> DEFINE b == landing[req[r].ticket]
  <2>1. CASE b = Nothing
    BY <1>0, <1>3, <2>1 DEF FetchBytes, Finish
  <2>2. CASE b # Nothing
    <3>1. req' = [req EXCEPT ![r] = [req[r] EXCEPT !.pc = "complete", !.bytes = b]]
      BY <1>3, <2>2 DEF FetchBytes
    <3>2. Shaped(req[r]) /\ req[r].ticket \in Tickets
      BY <1>3, RequestsHave DEF FetchBytes
    <3>3. b \in Contents
      BY <2>2, <3>2 DEF TypeOK
    <3>4. Shaped([req[r] EXCEPT !.pc = "complete", !.bytes = b])
      BY <3>2, <3>3, LaterRecords
    <3> QED BY <3>1, <3>4, RequestMoves
  <2> QED BY <2>1, <2>2
<1>4. ASSUME NEW r \in Requests, CompleteTicket(r) PROVE RequestShape'
  <2>1. CASE Finish(r)
    BY <1>0, <2>1
  <2>2. CASE req' = [req EXCEPT ![r].pc = "clean_up"]
    <3>1. Shaped(req[r]) /\ req[r].ticket \in Tickets
      BY <1>4, RequestsHave DEF CompleteTicket
    <3>2. Shaped([req[r] EXCEPT !.pc = "clean_up"])
      BY <3>1, LaterRecords
    <3> QED BY <2>2, <3>2, RequestMoves
  <2> QED BY <1>4, <2>1, <2>2 DEF CompleteTicket
<1>5. ASSUME NEW r \in Requests, UploadDocument(r) PROVE RequestShape'
  <2>1. CASE Finish(r)
    BY <1>0, <2>1
  <2>2. CASE \E b \in Contents :
               req' = [req EXCEPT ![r] = [Idle EXCEPT !.pc = "commit", !.bytes = b]]
    <3>1. PICK b \in Contents :
            req' = [req EXCEPT ![r] = [Idle EXCEPT !.pc = "commit", !.bytes = b]]
      BY <2>2
    <3>2. Shaped([Idle EXCEPT !.pc = "commit", !.bytes = b])
      BY FirstRecords
    <3> QED BY <3>1, <3>2, RequestMoves
  <2> QED BY <1>5, <2>1, <2>2 DEF UploadDocument
<1> QED
  BY <1>0, <1>1, <1>2, <1>3, <1>4, <1>5
  DEF Next, vars, IssueTicket, UploadContent, DeleteLanding, Abandon, PutDirectly,
      TicketTimesOut, expire_upload_tickets, WindowEnds

LEMMA TypeOKStep ==
  ASSUME TypeInv, [Next]_vars
  PROVE  TypeOK'
<1> USE LimitAssumption, RequestsHave
<1> USE DEF TypeInv, TypeOK, blobs
<1>1. ASSUME NEW r \in Requests, NEW t \in Tickets, IssueTicket(r, t)
      PROVE  TypeOK'
  BY <1>1 DEF IssueTicket, RateAllows
<1>2. ASSUME NEW r \in Requests, NEW t \in Tickets, LookUpTicket(r, t)
      PROVE  TypeOK'
  BY <1>2 DEF LookUpTicket
<1>3. ASSUME NEW r \in Requests, UploadContent(r) PROVE TypeOK'
  BY <1>3 DEF UploadContent
<1>4. ASSUME NEW r \in Requests, FetchBytes(r) PROVE TypeOK'
  BY <1>4 DEF FetchBytes
<1>5. ASSUME NEW r \in Requests, CompleteTicket(r) PROVE TypeOK'
  <2>1. req[r].ticket \in Tickets /\ req[r].bytes \in Contents
    BY <1>5 DEF CompleteTicket
  <2>2. version' = version \/ \E by \in {"accepted", "rejected"} : CreateDocument(r, by)
    BY <1>5 DEF CompleteTicket
  <2>3. version' \in [Requests -> [by : {Nothing, "upload", "accepted", "rejected"},
                                  bytes : Contents \cup {Nothing}]]
    BY <2>1, <2>2 DEF CreateDocument
  <2>4. /\ ticket' \in [Tickets -> {"none", "issued", "completed", "rejected", "expired"}]
        /\ redeemed' \in [Tickets -> SUBSET Requests]
    BY <1>5, <2>1 DEF CompleteTicket
  <2> QED BY <1>5, <2>3, <2>4 DEF CompleteTicket
<1>6. ASSUME NEW r \in Requests, DeleteLanding(r) PROVE TypeOK'
  BY <1>6 DEF DeleteLanding
<1>7. ASSUME NEW r \in Requests, UploadDocument(r) PROVE TypeOK'
  <2>1. CASE req[r].pc = "idle"
    BY <1>7, <2>1 DEF UploadDocument
  <2>2. CASE req[r].pc = "commit"
    BY <1>7, <2>2 DEF UploadDocument, CreateDocument
  <2> QED BY <1>7, <2>1, <2>2 DEF UploadDocument
<1>8. ASSUME NEW r \in Requests, Abandon(r) PROVE TypeOK'
  BY <1>8 DEF Abandon
<1>9. ASSUME NEW t \in Tickets, PutDirectly(t) PROVE TypeOK'
  BY <1>9 DEF PutDirectly
<1>10. ASSUME NEW t \in Tickets, TicketTimesOut(t) PROVE TypeOK'
  BY <1>10 DEF TicketTimesOut
<1>11. CASE expire_upload_tickets
  BY <1>11 DEF expire_upload_tickets
<1>12. CASE WindowEnds
  BY <1>12 DEF WindowEnds
<1>13. CASE UNCHANGED vars
  BY <1>13 DEF vars
<1> QED
  BY <1>1, <1>2, <1>3, <1>4, <1>5, <1>6, <1>7, <1>8, <1>9, <1>10, <1>11, <1>12, <1>13
  DEF Next

\* Every variable stays of its type and every request of the shape its program
\* counter says, through every handler of upload_routes.rs and upload_document.
THEOREM UploadsTypeCorrect == Spec => []TypeInv
<1>1. TypeInv /\ [Next]_vars => TypeInv'
  BY TypeOKStep, RequestShapeStep DEF TypeInv
<1> QED BY TypeInvInit, <1>1, PTL DEF Spec

-----------------------------------------------------------------------------

LEMMA IInvInit == Init => IInv
<1> SUFFICES ASSUME Init PROVE IInv
  OBVIOUS
<1>1. TypeInv
  BY TypeInvInit
<1>2. BlobBeforeRow
  BY FirstRecords DEF Init, BlobBeforeRow, NoVersion
<1>3. UploadedVersionHasBytes
  BY NothingAssumption DEF Init, UploadedVersionHasBytes, NoVersion
<1>4. OneRedemption
  BY DEF Init, OneRedemption
<1> QED BY <1>1, <1>2, <1>3, <1>4 DEF IInv

\* Steps that leave the tickets' states, the versions and the objects under the
\* versions' keys alone and end at most one request keep all three parts.
LEMMA QuietStep ==
  ASSUME IInv, UNCHANGED <<ticket, redeemed, version, canonical>>,
         UNCHANGED req \/ \E r \in Requests : Finish(r)
  PROVE  BlobBeforeRow' /\ UploadedVersionHasBytes' /\ OneRedemption'
<1>1. \A r \in Requests : req'[r] = req[r] \/ req'[r].pc = "done"
  BY FirstRecords DEF Finish, IInv, TypeInv, RequestShape
<1> QED BY <1>1 DEF IInv, BlobBeforeRow, UploadedVersionHasBytes, OneRedemption, TypeInv, TypeOK

\* One step of every handler and of the clock.
LEMMA IInvStep ==
  ASSUME IInv, [Next]_vars
  PROVE  IInv'
<1> DEFINE Parts == BlobBeforeRow /\ UploadedVersionHasBytes /\ OneRedemption
<1>0. TypeInv'
  BY TypeOKStep, RequestShapeStep DEF IInv, TypeInv
<1>1. ASSUME NEW r \in Requests, NEW t \in Tickets, IssueTicket(r, t)
      PROVE  Parts'
  <2>1. \A p \in Requests : req'[p] = req[p] \/ req'[p].pc = "done"
    BY <1>1, FirstRecords DEF IssueTicket, Finish, IInv, TypeInv, RequestShape
  <2>2. /\ UNCHANGED <<redeemed, version, canonical>>
        /\ \A s \in Tickets : ticket'[s] = "completed" <=> ticket[s] = "completed"
    BY <1>1 DEF IssueTicket, blobs, IInv, TypeInv, TypeOK
  <2>3. OneRedemption'
    BY <2>1, <2>2 DEF IInv, TypeInv, TypeOK, OneRedemption
  <2> QED BY <2>1, <2>2, <2>3 DEF IInv, BlobBeforeRow, UploadedVersionHasBytes
<1>2. ASSUME NEW r \in Requests, NEW t \in Tickets, LookUpTicket(r, t)
      PROVE  Parts'
  <2>1. \A p \in Requests : req'[p] = req[p] \/ req'[p].pc \in {"done", "put", "fetch"}
    <3>1. PICK op \in {"put", "fetch"} :
            req' = [req EXCEPT ![r] = IF TicketUsable(t)
                                      THEN [Idle EXCEPT !.pc = op, !.ticket = t] ELSE Done]
      BY <1>2 DEF LookUpTicket
    <3>2. [Idle EXCEPT !.pc = op, !.ticket = t].pc = op /\ Done.pc = "done"
      BY DEF Idle, Done
    <3> QED BY <3>1, <3>2 DEF IInv, TypeInv, RequestShape
  <2>2. \A p \in Requests : req'[p] # req[p] => req[p].pc = "idle"
    BY <1>2 DEF LookUpTicket, IInv, TypeInv, RequestShape
  <2>3. UNCHANGED <<ticket, redeemed, version, canonical>>
    BY <1>2 DEF LookUpTicket, blobs
  <2>4. OneRedemption'
    BY <2>1, <2>2, <2>3 DEF IInv, TypeInv, TypeOK, OneRedemption
  <2> QED BY <2>1, <2>2, <2>3, <2>4 DEF IInv, BlobBeforeRow, UploadedVersionHasBytes
<1>3. ASSUME NEW r \in Requests, FetchBytes(r) PROVE Parts'
  <2>1. req[r].pc = "fetch" /\ UNCHANGED <<ticket, redeemed, version, canonical>>
    BY <1>3 DEF FetchBytes, blobs
  <2>2. /\ req'[r].pc \in {"complete", "done"}
        /\ \A p \in Requests \ {r} : req'[p] = req[p]
    <3> DEFINE b == landing[req[r].ticket]
    <3>1. req' = [req EXCEPT ![r] = IF b = Nothing THEN Done
                                    ELSE [req[r] EXCEPT !.pc = "complete", !.bytes = b]]
      BY <1>3 DEF FetchBytes
    <3>2. [req[r] EXCEPT !.pc = "complete", !.bytes = b].pc = "complete" /\ Done.pc = "done"
      <4>1. req[r] \in RequestType
        BY DEF IInv, TypeInv, RequestShape
      <4> QED BY <4>1 DEF RequestType, Idle, Done
    <3> QED BY <3>1, <3>2 DEF IInv, TypeInv, RequestShape
  <2>3. OneRedemption'
    BY <2>1, <2>2 DEF IInv, TypeInv, TypeOK, OneRedemption
  <2> QED BY <2>1, <2>2, <2>3 DEF IInv, BlobBeforeRow, UploadedVersionHasBytes
<1>4. ASSUME NEW r \in Requests, CompleteTicket(r) PROVE Parts'
  <2> DEFINE t == req[r].ticket
  <2>1. t \in Tickets /\ req[r].pc = "complete" /\ version[r].by = Nothing
    BY <1>4, RequestsHave DEF CompleteTicket, IInv, TypeInv, BlobBeforeRow
  <2>2. \A s \in Tickets : r \notin redeemed[s]
    BY <2>1 DEF IInv, OneRedemption
  <2>3. CASE ~StillIssued(t)
    BY <1>4, <2>3, QuietStep DEF CompleteTicket, blobs
  <2>4. CASE StillIssued(t)
    <3> DEFINE fits == ~timeUp[t] /\ declared_size(req[r].bytes)
    <3>1. PICK by \in {"accepted", "rejected"} :
            /\ CreateDocument(r, by)
            /\ by = "accepted" =>
                 /\ declared_size(req[r].bytes)
                 /\ ticket' = [ticket EXCEPT ![t] = "completed"]
                 /\ redeemed' = [redeemed EXCEPT ![t] = @ \cup {r}]
            /\ by = "rejected" =>
                 /\ ticket' = [ticket EXCEPT ![t] = "rejected"]
                 /\ UNCHANGED redeemed
      BY <1>4, <2>4 DEF CompleteTicket
    <3>2. /\ req'[r].pc = "clean_up"
          /\ \A p \in Requests \ {r} : req'[p] = req[p]
      BY <1>4, <2>4 DEF CompleteTicket, IInv, TypeInv, RequestShape, RequestType
    <3>3. /\ version'[r] = [by |-> by, bytes |-> req[r].bytes]
          /\ \A p \in Requests \ {r} : version'[p] = version[p]
      BY <3>1 DEF CreateDocument, IInv, TypeInv, TypeOK
    <3>4. UNCHANGED canonical
      BY <1>4 DEF CompleteTicket, blobs
    <3>5. BlobBeforeRow' /\ UploadedVersionHasBytes'
      BY <3>2, <3>3, <3>4 DEF IInv, BlobBeforeRow, UploadedVersionHasBytes
    <3>6. ticket[t] = "issued" /\ redeemed[t] = {}
      BY <2>1, <2>4 DEF StillIssued, IInv, OneRedemption
    <3>7. ASSUME NEW s \in Tickets \ {t}
          PROVE  ticket'[s] = ticket[s] /\ redeemed'[s] = redeemed[s]
      BY <2>1, <3>1 DEF IInv, TypeInv, TypeOK
    <3>8. \/ ticket'[t] = "completed" /\ redeemed'[t] = {r} /\ declared_size(req[r].bytes)
          \/ ticket'[t] = "rejected" /\ redeemed'[t] = {}
      BY <2>1, <3>1, <3>6 DEF IInv, TypeInv, TypeOK
    <3>9. OneRedemption'
      <4> SUFFICES ASSUME NEW s \in Tickets
                   PROVE  /\ IF ticket'[s] = "completed" THEN \E p \in Requests : redeemed'[s] = {p}
                                                         ELSE redeemed'[s] = {}
                          /\ \A p \in redeemed'[s] : /\ declared_size(version'[p].bytes)
                                                     /\ req'[p].pc \in {"clean_up", "done"}
        BY DEF OneRedemption, declared_size
      <4>1. CASE s = t
        BY <3>2, <3>3, <3>8, <4>1
      <4>2. CASE s # t
        <5>1. \A p \in redeemed[s] : p \in Requests /\ p # r
          BY <2>2 DEF IInv, TypeInv, TypeOK
        <5> QED BY <3>2, <3>3, <3>7, <4>2, <5>1 DEF IInv, OneRedemption
      <4> QED BY <4>1, <4>2
    <3> QED BY <3>5, <3>9
  <2> QED BY <2>3, <2>4
<1>5. ASSUME NEW r \in Requests, UploadDocument(r) PROVE Parts'
  <2>1. /\ req[r].pc \in {"idle", "commit"}
        /\ UNCHANGED <<ticket, redeemed>>
        /\ \A s \in Tickets : r \notin redeemed[s]
    BY <1>5 DEF UploadDocument, IInv, OneRedemption
  <2>2. /\ \A p \in Requests \ {r} : /\ req'[p] = req[p] /\ version'[p] = version[p]
                                      /\ canonical'[p] = canonical[p]
    BY <1>5 DEF UploadDocument, Finish, CreateDocument, blobs, IInv, TypeInv, TypeOK, RequestShape
  <2>3. OneRedemption'
    BY <2>1, <2>2 DEF IInv, TypeInv, TypeOK, OneRedemption
  <2>4. CASE req[r].pc = "idle"
    <3>1. /\ req'[r].pc = "commit" /\ canonical'[r] = req'[r].bytes
          /\ UNCHANGED version /\ version[r].by = Nothing
      <4>1. PICK b \in Contents :
              /\ req' = [req EXCEPT ![r] = [Idle EXCEPT !.pc = "commit", !.bytes = b]]
              /\ canonical' = [canonical EXCEPT ![r] = b]
              /\ UNCHANGED version
        BY <1>5, <2>4 DEF UploadDocument
      <4>2. /\ [Idle EXCEPT !.pc = "commit", !.bytes = b].pc = "commit"
            /\ [Idle EXCEPT !.pc = "commit", !.bytes = b].bytes = b
        BY FirstRecords
      <4> QED
        BY <2>4, <4>1, <4>2 DEF IInv, BlobBeforeRow, TypeInv, TypeOK, RequestShape
    <3> QED
      BY <2>2, <2>3, <3>1, NothingAssumption DEF IInv, BlobBeforeRow, UploadedVersionHasBytes
  <2>5. CASE req[r].pc = "commit"
    <3>1. /\ req'[r].pc = "done" /\ UNCHANGED canonical /\ canonical[r] = req[r].bytes
          /\ version'[r] = [by |-> "upload", bytes |-> req[r].bytes]
      BY <1>5, <2>5, FirstRecords
      DEF UploadDocument, CreateDocument, Finish, blobs, IInv, BlobBeforeRow, TypeInv, TypeOK,
          RequestShape
    <3> QED BY <2>2, <2>3, <3>1 DEF IInv, BlobBeforeRow, UploadedVersionHasBytes
  <2> QED BY <2>1, <2>4, <2>5
<1>6. ASSUME expire_upload_tickets PROVE Parts'
  <2>1. /\ UNCHANGED <<redeemed, version, canonical, req>>
        /\ \A s \in Tickets : ticket'[s] = "completed" <=> ticket[s] = "completed"
    BY <1>6 DEF expire_upload_tickets, blobs, IInv, TypeInv, TypeOK
  <2>2. OneRedemption'
    BY <2>1 DEF IInv, TypeInv, TypeOK, OneRedemption
  <2> QED BY <2>1, <2>2 DEF IInv, BlobBeforeRow, UploadedVersionHasBytes
<1>7. ASSUME NEW r \in Requests, UploadContent(r) \/ DeleteLanding(r) \/ Abandon(r)
      PROVE  Parts'
  BY <1>7, QuietStep DEF UploadContent, DeleteLanding, Abandon, blobs
<1>8. ASSUME NEW t \in Tickets, PutDirectly(t) \/ TicketTimesOut(t)
      PROVE  Parts'
  BY <1>8, QuietStep DEF PutDirectly, TicketTimesOut, blobs
<1>9. ASSUME WindowEnds \/ UNCHANGED vars PROVE Parts'
  BY <1>9, QuietStep DEF WindowEnds, vars, blobs
<1>10. Parts'
  BY <1>1, <1>2, <1>3, <1>4, <1>5, <1>6, <1>7, <1>8, <1>9 DEF Next
<1> QED BY <1>0, <1>10 DEF IInv

LEMMA UploadsInvariant == Spec => []IInv
<1>1. IInv /\ [Next]_vars => IInv'
  BY IInvStep
<1> QED BY IInvInit, <1>1, PTL DEF Spec

\* For any number of requests, in any order and whichever of their calls fail:
\* a version committed by upload_document has its bytes under its own key.
THEOREM UploadsKeepBytes == Spec => []UploadedVersionHasBytes
<1>1. IInv => UploadedVersionHasBytes
  BY DEF IInv
<1> QED BY UploadsInvariant, <1>1, PTL

\* For any number of completions of a ticket that overlap, looked up and read
\* outside the transaction that redeems: exactly the completed tickets were
\* accepted, each for one version and for bytes of the declared length.
THEOREM TicketsAreSingleUse == Spec => []TicketRedeemedOnce
<1>1. IInv => TicketRedeemedOnce
  <2> SUFFICES ASSUME IInv, NEW t \in Tickets
               PROVE  /\ Cardinality(redeemed[t]) = IF ticket[t] = "completed" THEN 1 ELSE 0
                      /\ \A r \in redeemed[t] : declared_size(version[r].bytes)
    BY DEF TicketRedeemedOnce
  <2>1. CASE ticket[t] = "completed"
    BY <2>1, FS_Singleton DEF IInv, OneRedemption
  <2>2. CASE ticket[t] # "completed"
    BY <2>2, FS_EmptySet DEF IInv, OneRedemption
  <2> QED BY <2>1, <2>2
<1> QED BY UploadsInvariant, <1>1, PTL
=============================================================================
