------------------------------ MODULE Sessions ------------------------------
(***************************************************************************)
(* One user's sessions: crates/identity/src/session.rs,                    *)
(* crates/store/src/identity.rs, apps/api/src/auth_routes.rs.              *)
(*                                                                         *)
(* A session is a family of rows, one per generation of its refresh token. *)
(* A refresh locks the ROW whose token was presented, reads the family in  *)
(* statements of its own and appends a generation; a revocation is one     *)
(* UPDATE over the rows its snapshot shows, and waits for the rows others  *)
(* have locked.  Both are modelled statement by statement, because a row   *)
(* that commits between the snapshot and the write is in neither.          *)
(***************************************************************************)
EXTENDS Naturals, Sequences, FiniteSets

CONSTANTS Companies,    \* companies the user may belong to
          Requests,     \* the requests that arrive, in any order and overlap
          MaxRows,      \* bound: rows of sessions ever inserted
          MaxFailed     \* MAX_FAILED_ATTEMPTS, where the counter is cut off

ASSUME MaxRowsAssumption == MaxRows \in Nat \ {0}
ASSUME MaxFailedAssumption == MaxFailed \in Nat \ {0}

VARIABLES
  rows,     \* table sessions, a row's id is its position
  member,   \* the companies membership_role answers for
  failed,   \* user_credentials.failed_attempts
  locked,   \* user_credentials.locked_until: none, in the future or past
  req,      \* what each request is doing
  held,     \* the refresh token each family's client holds, 0 for none
  unheard,  \* rotations of a family since its client last heard of one
  overlap,  \* families whose client had two refreshes out at once
  raced,    \* of those, the ones the server decided on two at once
  ended,    \* families some revocation went over completely
  late,     \* of those, the ones a refresh was under way in meanwhile
  torn      \* families revoked as refresh_reuse, and what their client missed

vars == <<rows, member, failed, locked, req, held, unheard, overlap, raced,
          ended, late, torn>>
credentials == <<failed, locked>>
client == <<held, unheard>>
history == <<overlap, raced, ended, late, torn>>

Ids == 1..MaxRows
Idle == [pc |-> "idle", row |-> 0, target |-> 0, ids |-> {}, company |-> "none",
         current |-> 0, why |-> "none"]

Done == [Idle EXCEPT !.pc = "done"]

Session == [family : Ids, generation : Nat, company : Companies,
            superseded : {"no", "recently", "long_ago"}, revoked : BOOLEAN,
            refreshLive : BOOLEAN, purged : BOOLEAN]

Request == [pc : {"idle", "done", "verify", "lock", "issue", "sent", "decide",
                  "rotate", "tear", "answer", "refused", "sign_out",
                  "sign_out_everywhere", "change_password", "revoke",
                  "switch_company", "switch"},
            row : 0..MaxRows, target : 0..MaxRows, ids : SUBSET Ids,
            company : Companies \cup {"none"}, current : Nat,
            why : {"none", "sign_out", "sign_out_everywhere",
                   "change_password"}]

TypeOK ==
  /\ rows \in Seq(Session) /\ Len(rows) <= MaxRows
  /\ member \subseteq Companies
  /\ failed \in 0..MaxFailed
  /\ locked \in {"none", "future", "past"}
  /\ req \in [Requests -> Request]
  /\ held \in [Ids -> 0..MaxRows]
  /\ unheard \in [Ids -> Nat]
  /\ raced \cup overlap \cup ended \cup late \subseteq Ids
  /\ torn \subseteq [family : Ids, missed : Nat, graceOver : BOOLEAN]

Init ==
  /\ rows = <<>>
  /\ member \in SUBSET Companies
  /\ failed = 0 /\ locked = "none"
  /\ req = [r \in Requests |-> Idle]
  /\ held = [f \in Ids |-> 0]
  /\ unheard = [f \in Ids |-> 0]
  /\ overlap = {} /\ raced = {} /\ ended = {} /\ late = {}
  /\ torn = {}

Rows == {i \in 1..Len(rows) : ~rows[i].purged}
InFamily(f) == {i \in Rows : rows[i].family = f}
Live(i) == ~rows[i].revoked /\ rows[i].superseded = "no"

\* coalesce(max(generation), 0): the family's current generation.
Generation(f) ==
  LET gens == {rows[i].generation : i \in InFamily(f)}
  IN  IF gens = {} THEN 0 ELSE CHOOSE g \in gens : \A h \in gens : h <= g

-----------------------------------------------------------------------------
(* SessionPolicy::evaluate_refresh, with time as what has passed and what   *)
(* has not.                                                                 *)

\* Mutant: no grace window.
EvaluateStrictly(s, current) ==
  IF s.revoked THEN "revoked"
  ELSE IF ~s.refreshLive THEN "expired"
  ELSE IF s.generation = current THEN "rotate"
  ELSE "reuse"

\* Revocation before expiry, and both before the generations are compared.
evaluate_refresh(s, current) ==
  IF s.revoked THEN "revoked"
  ELSE IF ~s.refreshLive THEN "expired"
  ELSE IF s.generation = current THEN "rotate"
  ELSE IF s.generation + 1 = current /\ s.superseded = "recently" THEN "replay"
  ELSE "reuse"

(* Row locks.  A refresh holds the presented row from its SELECT ... FOR    *)
(* UPDATE to the end of its transaction.                                    *)

InRefresh(r) == req[r].pc \in {"decide", "rotate", "tear"}
Locked(r) == IF InRefresh(r) THEN {req[r].row} ELSE {}
LockedByOthers(r) == UNION {Locked(q) : q \in Requests \ {r}}
RefreshingFamilies(r) ==
  {rows[req[q].row].family : q \in {p \in Requests \ {r} : InRefresh(p)}}

\* Families a refresh is out for, its answer included.
Outstanding ==
  {rows[req[q].row].family : q \in {p \in Requests :
     req[p].pc \in {"sent", "decide", "rotate", "tear", "answer", "refused"}}}

Finish(r) == req' = [req EXCEPT ![r] = Done]

-----------------------------------------------------------------------------
(* Sign in: four statements outside any transaction.                        *)

NewSession(f, g, c) ==
  [family |-> f, generation |-> g, company |-> c, superseded |-> "no",
   revoked |-> FALSE, refreshLive |-> TRUE, purged |-> FALSE]

\* The credential is read; a lock that has not run out ends the request.
ReadCredential(r) ==
  /\ req[r].pc = "idle"
  /\ locked # "future"
  /\ req' = [req EXCEPT ![r].pc = "verify"]
  /\ UNCHANGED <<rows, member, credentials, client, history>>

\* record_failed_attempt counts in one statement and locks in the next.
RecordFailedAttempt(r) ==
  /\ req[r].pc = "verify"
  /\ failed' = IF failed < MaxFailed THEN failed + 1 ELSE failed
  /\ req' = [req EXCEPT ![r] =
               IF failed' >= MaxFailed THEN [Idle EXCEPT !.pc = "lock"] ELSE Done]
  /\ UNCHANGED <<rows, member, locked, client, history>>

LockAccount(r) ==
  /\ req[r].pc = "lock"
  /\ locked' = "future"
  /\ Finish(r)
  /\ UNCHANGED <<rows, member, failed, client, history>>

\* The right password: the counter is cleared whatever it has become since,
\* and without a company there is no session.
SignIn(r) ==
  /\ req[r].pc = "verify"
  /\ failed' = 0 /\ locked' = "none"
  /\ \/ /\ member = {} /\ Finish(r)
     \/ \E c \in member :
          req' = [req EXCEPT ![r] = [Idle EXCEPT !.pc = "issue", !.company = c]]
  /\ UNCHANGED <<rows, member, client, history>>

issue_session(r) ==
  /\ req[r].pc = "issue"
  /\ Len(rows) < MaxRows
  /\ LET f == Len(rows) + 1 IN
       /\ rows' = Append(rows, NewSession(f, 0, req[r].company))
       /\ held' = [held EXCEPT ![f] = f]
  /\ Finish(r)
  /\ UNCHANGED <<member, credentials, unheard, history>>

-----------------------------------------------------------------------------
(* Refresh.                                                                 *)

\* The client sends the token it holds; it may have several requests out.
SendRefresh(r) ==
  /\ req[r].pc = "idle"
  /\ \E f \in Ids :
       /\ held[f] # 0
       /\ req' = [req EXCEPT ![r] = [Idle EXCEPT !.pc = "sent", !.row = held[f]]]
       /\ overlap' = overlap \cup ({f} \cap Outstanding)
  /\ UNCHANGED <<rows, member, credentials, client, raced, ended, late, torn>>

\* SELECT ... WHERE refresh_token_hash = $1 FOR UPDATE.
LockPresented(r) ==
  /\ req[r].pc = "sent"
  /\ req[r].row \notin LockedByOthers(r)
  /\ IF req[r].row \in Rows THEN req' = [req EXCEPT ![r].pc = "decide"]
                            ELSE Finish(r)
  /\ late' = late \cup {rows[req[r].row].family : q \in {p \in Requests :
                          req[p].pc = "revoke" /\ req[r].row \in req[p].ids}}
  /\ UNCHANGED <<rows, member, credentials, client, overlap, raced, ended, torn>>

\* The family's generation is read by a later statement, evaluate_refresh
\* decides, and for a replay the live row is looked up without a lock.
Decide(r) ==
  /\ req[r].pc = "decide"
  /\ LET s == rows[req[r].row]
         verdict == evaluate_refresh(s, Generation(s.family))
         live == {i \in InFamily(s.family) : Live(i)}
     IN  /\ CASE verdict = "rotate" ->
                   req' = [req EXCEPT ![r].pc = "rotate", ![r].target = req[r].row,
                                      ![r].current = Generation(s.family)]
              [] verdict = "replay" /\ live # {} ->
                   \E i \in live :
                     req' = [req EXCEPT ![r].pc = "rotate", ![r].target = i,
                                        ![r].current = Generation(s.family)]
              [] verdict = "reuse" ->
                   req' = [req EXCEPT ![r].pc = "tear",
                             ![r].ids = {i \in InFamily(s.family) :
                                           ~rows[i].revoked}]
              [] OTHER -> req' = [req EXCEPT ![r].pc = "refused"]
         /\ raced' = IF s.family \in RefreshingFamilies(r)
                     THEN raced \cup {s.family} ELSE raced
  /\ UNCHANGED <<rows, member, credentials, client, overlap, ended, late, torn>>

Revoke(ids) ==
  rows' = [i \in 1..Len(rows) |->
             [rows[i] EXCEPT !.revoked = @ \/ i \in ids]]

\* Mutant: the old generation is not stamped.
SupersedeNothing(i) == rows

\* UPDATE sessions SET superseded_at = now() WHERE id = $1.
Supersede(i) == [rows EXCEPT ![i].superseded = "recently"]

\* rotate_onto_new_generation and the commit.  Who is no longer a member of
\* the row's company loses the family instead.
RotateOntoNewGeneration(r) ==
  /\ req[r].pc = "rotate"
  /\ req[r].target \notin LockedByOthers(r)
  /\ LET s == rows[req[r].row]
     IN  \/ /\ s.company \in member
            /\ Len(rows) < MaxRows
            /\ rows' = Append(Supersede(req[r].target),
                              NewSession(s.family, req[r].current + 1, s.company))
            /\ req' = [req EXCEPT ![r] = [Idle EXCEPT !.pc = "answer",
                                                      !.row = Len(rows) + 1]]
            /\ unheard' = [unheard EXCEPT ![s.family] = @ + 1]
         \/ /\ s.company \notin member
            /\ LockedByOthers(r) \cap InFamily(s.family) = {}
            /\ Revoke(InFamily(s.family))
            /\ req' = [req EXCEPT ![r].pc = "refused"]
            /\ UNCHANGED unheard
  /\ UNCHANGED <<member, credentials, held, history>>

\* ReuseDetected: the rows of the family the statement saw are revoked.
TearDownFamily(r) ==
  /\ req[r].pc = "tear"
  /\ LockedByOthers(r) \cap req[r].ids = {}
  /\ Revoke(req[r].ids)
  /\ LET s == rows[req[r].row] IN
       torn' = torn \cup {[family |-> s.family, missed |-> unheard[s.family],
                           graceOver |-> s.superseded = "long_ago"]}
  /\ req' = [req EXCEPT ![r].pc = "refused"]
  /\ UNCHANGED <<member, credentials, client, overlap, raced, ended, late>>

\* The answer reaches the client, which keeps the new token and is abreast of
\* the family again.
ReceiveTokens(r) ==
  /\ req[r].pc = "answer"
  /\ LET f == rows[req[r].row].family IN
       /\ held' = [held EXCEPT ![f] = req[r].row]
       /\ unheard' = [unheard EXCEPT ![f] = 0]
  /\ Finish(r)
  /\ UNCHANGED <<rows, member, credentials, history>>

\* 401: the cookies are cleared on the way out.
ReceiveRefusal(r) ==
  /\ req[r].pc = "refused"
  /\ held' = [held EXCEPT ![rows[req[r].row].family] = 0]
  /\ Finish(r)
  /\ UNCHANGED <<rows, member, credentials, unheard, history>>

-----------------------------------------------------------------------------
(* Requests of a signed-in session.                                         *)

\* An access token that has run out only means that fewer requests pass.
authenticate_session(i) ==
  /\ Live(i)
  /\ rows[i].company \in member

\* authorise: the access token resolves to a session, and the handler goes on
\* with the session id it got.  The client's access token is the one issued
\* with the refresh token it holds.
Authorise(r) ==
  /\ req[r].pc = "idle"
  /\ \E f \in Ids, op \in {"sign_out", "sign_out_everywhere", "switch_company",
                           "change_password"} :
       /\ held[f] \in Rows
       /\ authenticate_session(held[f])
       /\ req' = [req EXCEPT ![r] = [Idle EXCEPT !.pc = op, !.row = held[f]]]
  /\ UNCHANGED <<rows, member, credentials, client, history>>

\* Mutant: sign-out by row.
ScopeOneRow(op, i) ==
  CASE op = "sign_out" -> {i}
    [] op = "sign_out_everywhere" -> Rows
    [] op = "change_password" -> Rows \ {i}

\* The rows a revocation's snapshot shows: the session's family, all of the
\* user's, or all but the session whose password change it is.
RevocationScope(op, i) ==
  CASE op = "sign_out" -> InFamily(rows[i].family)
    [] op = "sign_out_everywhere" -> Rows
    [] op = "change_password" -> Rows \ {i}

\* The UPDATE's snapshot.
BeginRevocation(r) ==
  /\ req' = [req EXCEPT
       ![r].pc = "revoke", ![r].why = req[r].pc,
       ![r].ids = {i \in RevocationScope(req[r].pc, req[r].row) :
                     ~rows[i].revoked}]
  /\ late' = late \cup RefreshingFamilies(r)
  /\ UNCHANGED <<rows, member, credentials, client, overlap, raced, ended,
                 torn>>

SignOut(r) == req[r].pc = "sign_out" /\ BeginRevocation(r)

SignOutEverywhere(r) == req[r].pc = "sign_out_everywhere" /\ BeginRevocation(r)

\* The new password may be refused by PasswordPolicy and the current one by
\* verify_current_password; otherwise the new hash clears counter and lock in
\* the transaction that revokes.
ChangePassword(r) ==
  /\ req[r].pc = "change_password"
  /\ \/ BeginRevocation(r)
     \/ Finish(r) /\ UNCHANGED <<rows, member, credentials, client, history>>

\* A family is ended when the scope of the revocation was all of it.
CommitRevocation(r) ==
  /\ req[r].pc = "revoke"
  /\ LockedByOthers(r) \cap req[r].ids = {}
  /\ Revoke(req[r].ids)
  /\ IF req[r].why = "change_password"
     THEN failed' = 0 /\ locked' = "none" ELSE UNCHANGED credentials
  /\ LET own == rows[req[r].row].family
         whole == {rows[i].family : i \in req[r].ids}
                    \ (IF req[r].why = "change_password" THEN {own} ELSE {})
     IN  ended' = ended \cup whole
  /\ held' = IF req[r].why = "sign_out"
             THEN [held EXCEPT ![rows[req[r].row].family] = 0] ELSE held
  /\ Finish(r)
  /\ UNCHANGED <<member, unheard, overlap, raced, late, torn>>

\* switch_company reads the membership, 404 for a stranger, ...
SwitchCompany(r) ==
  /\ req[r].pc = "switch_company"
  /\ \E c \in Companies :
       IF c \in member
       THEN req' = [req EXCEPT ![r].pc = "switch", ![r].company = c]
       ELSE Finish(r)
  /\ UNCHANGED <<rows, member, credentials, client, history>>

\* ... then writes the row, whatever has become of it since.
CommitSwitch(r) ==
  /\ req[r].pc = "switch"
  /\ req[r].row \notin LockedByOthers(r)
  /\ rows' = [rows EXCEPT ![req[r].row].company = req[r].company]
  /\ Finish(r)
  /\ UNCHANGED <<member, credentials, client, history>>

\* A statement fails, a deadlock is broken, the process dies or the answer is
\* lost: what was not committed is gone, the client keeps the token it had.
Abandon(r) ==
  /\ req[r].pc \notin {"idle", "done"}
  /\ Finish(r)
  /\ UNCHANGED <<rows, member, credentials, client, history>>

-----------------------------------------------------------------------------
(* Time and administration.                                                 *)

\* The generations of a family expire in order, hours after their grace.
RefreshExpires ==
  /\ \E i \in Rows :
       /\ rows[i].refreshLive
       /\ rows[i].superseded # "recently"
       /\ \A j \in InFamily(rows[i].family) : j < i => ~rows[j].refreshLive
       /\ rows' = [rows EXCEPT ![i].refreshLive = FALSE]
  /\ UNCHANGED <<member, credentials, req, client, history>>

GraceEnds ==
  /\ \E i \in Rows : /\ rows[i].superseded = "recently"
                     /\ rows' = [rows EXCEPT ![i].superseded = "long_ago"]
  /\ UNCHANGED <<member, credentials, req, client, history>>

purge_expired_sessions ==
  /\ \E i \in Rows : /\ ~rows[i].refreshLive
                     /\ \A r \in Requests : i \notin Locked(r)
                     /\ \A j \in InFamily(rows[i].family) : i <= j
                     /\ rows' = [rows EXCEPT ![i].purged = TRUE]
  /\ UNCHANGED <<member, credentials, req, client, history>>

LockElapses ==
  /\ locked = "future"
  /\ locked' = "past"
  /\ UNCHANGED <<rows, member, failed, req, client, history>>

\* company_members is changed by nothing in this code but create_user.
MembershipEnds ==
  /\ \E c \in member : member' = member \ {c}
  /\ UNCHANGED <<rows, credentials, req, client, history>>

Step(r) ==
  \/ ReadCredential(r) \/ RecordFailedAttempt(r) \/ LockAccount(r)
  \/ SignIn(r) \/ issue_session(r)
  \/ SendRefresh(r) \/ LockPresented(r) \/ Decide(r)
  \/ RotateOntoNewGeneration(r) \/ TearDownFamily(r)
  \/ ReceiveTokens(r) \/ ReceiveRefusal(r)
  \/ Authorise(r) \/ SignOut(r) \/ SignOutEverywhere(r) \/ ChangePassword(r)
  \/ CommitRevocation(r) \/ SwitchCompany(r) \/ CommitSwitch(r) \/ Abandon(r)

Next ==
  \/ \E r \in Requests : Step(r)
  \/ RefreshExpires \/ GraceEnds \/ purge_expired_sessions
  \/ LockElapses \/ MembershipEnds

Spec == Init /\ [][Next]_vars

-----------------------------------------------------------------------------
(* Properties.                                                              *)

\* Rotation with row locks: unless two refreshes of one family were decided
\* at once on different rows, a family has at most one generation that is
\* neither superseded nor revoked, and it is the newest.
OneLiveGeneration ==
  \A f \in Ids \ raced :
    \A i \in InFamily(f) :
      Live(i) => \A j \in InFamily(f) : j # i => /\ ~Live(j)
                                                /\ rows[j].generation < rows[i].generation

\* Signing out, everywhere or by a password change elsewhere, ends the family:
\* unless a refresh of it was under way, every generation is revoked and none
\* follows, retries of old tokens and switches of company included.
SignedOutStaysOut ==
  \A f \in ended \ late :
    \A i \in InFamily(f) : rows[i].revoked

\* The grace window: a client that sends one refresh at a time is taken for
\* two parties, and signed out, only when it missed two rotations in a row or
\* came back after the window.
LostAnswerForgiven ==
  \A t \in torn : t.family \notin overlap => t.missed >= 2 \/ t.graceOver
=============================================================================
