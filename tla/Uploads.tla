------------------------------ MODULE Uploads -------------------------------
(***************************************************************************)
(* Documents coming in: apps/api/src/upload_routes.rs, upload_document of  *)
(* apps/api/src/routes.rs, crates/store/src/uploads.rs, create_document of *)
(* crates/store/src/lib.rs and the blob store behind them.                 *)
(*                                                                         *)
(* A document is a committed row and an object in blob storage, and no     *)
(* transaction spans the two.  A ticket adds a third place, the landing    *)
(* object a client writes on its own.                                      *)
(***************************************************************************)
EXTENDS Naturals, FiniteSets

CONSTANTS Tickets,    \* upload tickets
          Requests,   \* requests that arrive, in any order and overlap
          Limit,      \* the upload bucket's quota per window
          Nothing     \* no object, no ticket

\* Byte strings, told apart by whether they are as long as the ticket said.
Contents == {"as_declared", "also_as_declared", "other_size"}

ASSUME LimitAssumption == Limit \in Nat

\* NULL is no byte string and no origin of a version.
ASSUME NothingAssumption ==
  Nothing \notin Contents \cup {"upload", "accepted", "rejected"}

VARIABLES
  ticket,     \* upload_tickets.state
  timeUp,     \* upload_tickets.expires_at has passed
  redeemed,   \* the versions a ticket was accepted for
  landing,    \* the object at the ticket's storage_key
  version,    \* committed document_versions, one per request at most
  canonical,  \* the object at the version's storage_key
  used,       \* rate_limit_counters.count of the upload bucket
  presigned,  \* whether the blob store can presign a PUT
  req         \* what each request is doing

vars == <<ticket, timeUp, redeemed, landing, version, canonical, used,
          presigned, req>>
blobs == <<landing, canonical>>

Idle == [pc |-> "idle", ticket |-> Nothing, bytes |-> Nothing]
Done == [Idle EXCEPT !.pc = "done"]
NoVersion == [by |-> Nothing, bytes |-> Nothing]

TypeOK ==
  /\ ticket \in [Tickets -> {"none", "issued", "completed", "rejected", "expired"}]
  /\ timeUp \in [Tickets -> BOOLEAN]
  /\ redeemed \in [Tickets -> SUBSET Requests]
  /\ landing \in [Tickets -> Contents \cup {Nothing}]
  /\ version \in [Requests -> [by : {Nothing, "upload", "accepted", "rejected"},
                               bytes : Contents \cup {Nothing}]]
  /\ canonical \in [Requests -> Contents \cup {Nothing}]
  /\ used \in 0..Limit + 1
  /\ presigned \in BOOLEAN

Init ==
  /\ ticket = [t \in Tickets |-> "none"]
  /\ timeUp = [t \in Tickets |-> FALSE]
  /\ redeemed = [t \in Tickets |-> {}]
  /\ landing = [t \in Tickets |-> Nothing]
  /\ version = [r \in Requests |-> NoVersion]
  /\ canonical = [r \in Requests |-> Nothing]
  /\ used = 0
  /\ presigned \in BOOLEAN
  /\ req = [r \in Requests |-> Idle]

Finish(r) == req' = [req EXCEPT ![r] = Done]

\* Size and type: what is as long as declared.
declared_size(bytes) == bytes # "other_size"

-----------------------------------------------------------------------------
(* POST /v1/documents/tickets.  Sizes outside the bounds never get here.    *)

\* check_rate_limit(Upload): the counter is committed, allowed or not.
RateAllows == used < Limit

IssueTicket(r, t) ==
  /\ req[r].pc = "idle"
  /\ ticket[t] = "none"
  /\ used' = IF used <= Limit THEN used + 1 ELSE used
  /\ IF RateAllows THEN ticket' = [ticket EXCEPT ![t] = "issued"]
                   ELSE UNCHANGED ticket
  /\ Finish(r)
  /\ UNCHANGED <<timeUp, redeemed, blobs, version, presigned>>

\* PUT <upload URL>: with a presigned URL the API sees nothing of it, and the
\* URL is good for half an hour whatever becomes of the ticket.
PutDirectly(t) ==
  /\ presigned
  /\ ticket[t] # "none" /\ ~timeUp[t]
  /\ \E b \in Contents : landing' = [landing EXCEPT ![t] = b]
  /\ UNCHANGED <<ticket, timeUp, redeemed, version, canonical, used, presigned,
                 req>>

-----------------------------------------------------------------------------
(* Requests that name a ticket look it up in a transaction of their own.    *)

\* ticket_for_completion.
TicketUsable(t) == ticket[t] = "issued" /\ ~timeUp[t]

LookUpTicket(r, t) ==
  /\ req[r].pc = "idle"
  /\ \E op \in {"fetch"} \cup (IF presigned THEN {} ELSE {"put"}) :
       req' = [req EXCEPT ![r] = IF TicketUsable(t)
                                 THEN [Idle EXCEPT !.pc = op, !.ticket = t]
                                 ELSE Done]
  /\ ticket[t] # "none"
  /\ UNCHANGED <<ticket, timeUp, redeemed, blobs, version, used, presigned>>

\* upload_content: the object is put after the ticket was looked up.
UploadContent(r) ==
  /\ req[r].pc = "put"
  /\ \E b \in Contents : landing' = [landing EXCEPT ![req[r].ticket] = b]
  /\ Finish(r)
  /\ UNCHANGED <<ticket, timeUp, redeemed, version, canonical, used, presigned>>

\* complete_ticket reads the landed object, 409 when there is none.
FetchBytes(r) ==
  /\ req[r].pc = "fetch"
  /\ LET b == landing[req[r].ticket] IN
       req' = [req EXCEPT ![r] = IF b = Nothing THEN Done
                                 ELSE [@ EXCEPT !.pc = "complete", !.bytes = b]]
  /\ UNCHANGED <<ticket, timeUp, redeemed, blobs, version, used, presigned>>

\* Mutant: trusts the lookup.
StillIssuedUnlocked(t) == ticket[t] # "none"

\* SELECT ... FOR UPDATE: the state decides again, under the lock.
StillIssued(t) == ticket[t] = "issued"

CreateDocument(r, by) ==
  version' = [version EXCEPT ![r] = [by |-> by, bytes |-> req[r].bytes]]

\* create_document and complete_upload_ticket, one transaction.  A used ticket
\* is an error and rolls back; an expired or mismatched one is rejected, and
\* the commit that records it keeps the document, too.
CompleteTicket(r) ==
  /\ req[r].pc = "complete"
  /\ LET t == req[r].ticket
         fits == ~timeUp[t] /\ declared_size(req[r].bytes)
     IN  \/ /\ ~StillIssued(t)
            /\ Finish(r)
            /\ UNCHANGED <<ticket, redeemed, version>>
         \/ /\ StillIssued(t)
            /\ fits
            /\ CreateDocument(r, "accepted")
            /\ ticket' = [ticket EXCEPT ![t] = "completed"]
            /\ redeemed' = [redeemed EXCEPT ![t] = @ \cup {r}]
            /\ req' = [req EXCEPT ![r].pc = "clean_up"]
         \/ /\ StillIssued(t)
            /\ ~fits
            /\ CreateDocument(r, "rejected")
            /\ ticket' = [ticket EXCEPT ![t] = "rejected"]
            /\ UNCHANGED redeemed
            /\ req' = [req EXCEPT ![r].pc = "clean_up"]
  /\ UNCHANGED <<timeUp, blobs, used, presigned>>

\* blobs.delete(&storage_key), its error ignored.
DeleteLanding(r) ==
  /\ req[r].pc = "clean_up"
  /\ landing' = [landing EXCEPT ![req[r].ticket] = Nothing]
  /\ Finish(r)
  /\ UNCHANGED <<ticket, timeUp, redeemed, version, canonical, used, presigned>>

\* expire_upload_tickets, hourly.
expire_upload_tickets ==
  /\ \E t \in Tickets : ticket[t] = "issued" /\ timeUp[t]
  /\ ticket' = [t \in Tickets |-> IF ticket[t] = "issued" /\ timeUp[t]
                                  THEN "expired" ELSE ticket[t]]
  /\ UNCHANGED <<timeUp, redeemed, blobs, version, used, presigned, req>>

-----------------------------------------------------------------------------
(* POST /v1/documents: an unreadable file is refused; otherwise the object  *)
(* is put inside the row's transaction, and the commit comes last.          *)

\* Mutant: commit, then put.
UploadDocumentRowFirst(r) ==
  \/ /\ req[r].pc = "idle"
     /\ \E b \in Contents :
          /\ req' = [req EXCEPT ![r] = [Idle EXCEPT !.pc = "commit", !.bytes = b]]
          /\ version' = [version EXCEPT ![r] = [by |-> "upload", bytes |-> b]]
     /\ UNCHANGED canonical
     /\ UNCHANGED <<ticket, timeUp, redeemed, landing, used, presigned>>
  \/ /\ req[r].pc = "commit"
     /\ canonical' = [canonical EXCEPT ![r] = req[r].bytes]
     /\ Finish(r)
     /\ UNCHANGED <<ticket, timeUp, redeemed, landing, version, used, presigned>>

UploadDocument(r) ==
  \/ /\ req[r].pc = "idle"
     /\ \E b \in Contents :
          /\ req' = [req EXCEPT ![r] = [Idle EXCEPT !.pc = "commit", !.bytes = b]]
          /\ canonical' = [canonical EXCEPT ![r] = b]
     /\ UNCHANGED <<ticket, timeUp, redeemed, landing, version, used, presigned>>
  \/ /\ req[r].pc = "commit"
     /\ CreateDocument(r, "upload")
     /\ Finish(r)
     /\ UNCHANGED <<ticket, timeUp, redeemed, blobs, used, presigned>>

-----------------------------------------------------------------------------

\* A statement or a blob call fails, or the process dies.
Abandon(r) ==
  /\ req[r].pc \notin {"idle", "done"}
  /\ Finish(r)
  /\ UNCHANGED <<ticket, timeUp, redeemed, blobs, version, used, presigned>>

\* TICKET_LIFETIME passes.
TicketTimesOut(t) ==
  /\ ticket[t] # "none" /\ ~timeUp[t]
  /\ timeUp' = [timeUp EXCEPT ![t] = TRUE]
  /\ UNCHANGED <<ticket, redeemed, blobs, version, used, presigned, req>>

\* The next window; sweep_rate_limit_windows drops the old counter.
WindowEnds ==
  /\ used > 0
  /\ used' = 0
  /\ UNCHANGED <<ticket, timeUp, redeemed, blobs, version, presigned, req>>

Next ==
  \/ \E r \in Requests :
       \/ \E t \in Tickets : IssueTicket(r, t) \/ LookUpTicket(r, t)
       \/ UploadContent(r) \/ FetchBytes(r) \/ CompleteTicket(r)
       \/ DeleteLanding(r) \/ UploadDocument(r) \/ Abandon(r)
  \/ \E t \in Tickets : PutDirectly(t) \/ TicketTimesOut(t)
  \/ expire_upload_tickets \/ WindowEnds

Spec == Init /\ [][Next]_vars

-----------------------------------------------------------------------------
(* Properties.                                                              *)

\* Blob first, then commit: whenever an upload fails, a version that
\* upload_document committed has its bytes under its own key.
UploadedVersionHasBytes ==
  \A r \in Requests :
    version[r].by = "upload" => canonical[r] = version[r].bytes

\* A ticket is single-use although it is looked up in one transaction, its
\* bytes are read outside any and it is redeemed in another: of completions
\* that overlap one is accepted, exactly the completed tickets were accepted
\* once, and for as many bytes as declared.
TicketRedeemedOnce ==
  \A t \in Tickets :
    /\ Cardinality(redeemed[t]) = IF ticket[t] = "completed" THEN 1 ELSE 0
    /\ \A r \in redeemed[t] : declared_size(version[r].bytes)

\* Every committed version, tickets included, but for a rejected one, has its
\* bytes where its row says: "a committed row pointing at bytes that were never
\* written would be a dangling reference" (apps/api/src/routes.rs,
\* upload_document).
VersionHasBytes ==
  \A r \in Requests :
    version[r].by \in {"upload", "accepted"} => canonical[r] = version[r].bytes
=============================================================================
