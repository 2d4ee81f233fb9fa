------------------------------ MODULE Sessions ------------------------------
(***************************************************************************)
(* The session component of The Usher: POST /self/token, POST              *)
(* /self/refresh_token and DELETE /sessions served concurrently, over the  *)
(* `sessions' table.  No handler opens a transaction: each statement is    *)
(* one step, and other requests, persona administration and the clock run  *)
(* between any two of them.                                                *)
(***************************************************************************)
EXTENDS Integers

CONSTANTS
  Requests,          \* HTTP requests; also the UUIDs crypto.randomUUID() draws,
                     \* one per request
  PersonaKeys,       \* values of personas.key, an identity column: never reused
  Tenants,
  Subjects,          \* (sub_claim, user_context, iss_claim) triples
  SubjectOf,         \* persona key -> its triple
  Subs, SubOf,       \* sub claims, and the one of each triple
  TenantOf,          \* persona key -> its tenant
  IdpLifetimes,      \* remaining lifetimes an IdP token may arrive with
  TokenLifetime,     \* env.TOKEN_LIFETIME_SECONDS
  SessionLifetime,   \* env.SESSION_LIFETIME_SECONDS
  ZoneOffset,        \* the server's local time minus UTC
  MaxTime,           \* bound on the clock
  MaxFaults,         \* bound on failing statements and crashes
  None

ASSUME PersonaAssumption ==
  /\ SubjectOf \in [PersonaKeys -> Subjects]
  /\ SubOf \in [Subjects -> Subs]
  /\ TenantOf \in [PersonaKeys -> Tenants]

ASSUME TimeAssumption ==
  /\ IdpLifetimes \subseteq Nat \ {0}
  /\ TokenLifetime \in Nat \ {0}
  /\ SessionLifetime \in Nat \ {0}
  /\ ZoneOffset \in Int
  /\ MaxTime \in Nat
  /\ MaxFaults \in Nat

VARIABLES
  now,        \* the clock, in seconds
  personas,   \* keys of the rows of `personas'
  spentKeys,  \* keys of deleted personas
  sessions,   \* the rows of `sessions'
  revoked,    \* history: event_ids whose row was deleted
  faults,     \* failures so far
  req         \* request -> its parameters, locals and answer

vars == <<now, personas, spentKeys, sessions, revoked, faults, req>>

-----------------------------------------------------------------------------
Lesser(a, b) == IF a < b THEN a ELSE b

\* idp_token, decoded: the claims that are read again.  The user_context is none.
IdpToken == [sub: Subs, exp: Nat]

SessionRow == [personakey: PersonaKeys, event_id: Requests,
               authorization_time: Nat, idp_expirationtime: Int,
               idp_token: IdpToken]

ASSUME NoneAssumption ==
  None \notin Requests \cup PersonaKeys \cup Subjects \cup Subs \cup SessionRow

Ops == {"none", "token", "refresh", "invalidate"}

\* The await each request is at.
TokenAwaits == {"entitle", "getSession", "readSession", "checkSession",
                "updateSession", "checkNoSession", "getPersona",
                "insertSession", "sign"}
RefreshAwaits == {"lookup", "checkExpiry", "expire", "entitle", "sign"}
InvalidateAwaits == {"findSession", "deleteSession"}
Awaits == TokenAwaits \cup RefreshAwaits \cup InvalidateAwaits

\* A request: its parameters (op, subject, idp, event), its locals and, once
\* "done", its answer (status, event, exp).  `sub' is what a refresh has instead of
\* a subject.  Three fields are history: `at', the clock reading its duration was computed
\* from; `signed', that of the signature; `dead', whether the refresh token was revoked
\* when it arrived.
Request == [op: Ops, pc: Awaits \cup {"idle", "done", "unanswered"},
            subject: Subjects \cup {None},
            sub: Subs \cup {None},
            idpExp: Nat,
            event: Requests \cup {None},
            persona: PersonaKeys \cup {None},
            row: SessionRow \cup {None},
            auth: Nat, dur: Int, at: Nat, exp: Int, signed: Nat, status: Nat,
            dead: BOOLEAN]

Idle == [op |-> "none", pc |-> "idle", subject |-> None, sub |-> None, idpExp |-> 0,
         event |-> None, persona |-> None, row |-> None,
         auth |-> 0, dur |-> 0, at |-> 0, exp |-> 0, signed |-> 0, status |-> 0,
         dead |-> FALSE]

Becomes(r, q) == req' = [req EXCEPT ![r] = q]

Goto(r, pc) == Becomes(r, [req[r] EXCEPT !.pc = pc])

\* The locals of a handler go when it ends.
Ended(q) == [q EXCEPT !.persona = None, !.row = None, !.auth = 0, !.dur = 0, !.at = 0]

\* res.status(status).send(...), or next(createError(status, ...)).
Answer(r, status) ==
  Becomes(r, [Ended(req[r]) EXCEPT !.pc = "done", !.status = status])

\* The handler ends and the client is sent nothing.
Lose(q) == [Ended(q) EXCEPT !.pc = "unanswered"]

-----------------------------------------------------------------------------
(* The tables. *)

\* Seeded fault: the join does not compare the triple.
SessionsOfSubject_AnySubject(subject) ==
  {s \in sessions : s.personakey \in personas}

\* tenants |><| personas |><| sessions on the triple.
SessionsOfSubject(subject) ==
  {s \in sessions : s.personakey \in personas /\ SubjectOf[s.personakey] = subject}

PersonasOfSubject(subject) == {k \in personas : SubjectOf[k] = subject}

\* DELETE FROM sessions WHERE personakey = k.
DeleteSessions(k) ==
  /\ sessions' = {s \in sessions : s.personakey # k}
  /\ revoked' = revoked \cup {s.event_id : s \in sessions \ sessions'}

\* idp_expirationtime is written as a UTC string into a TIMESTAMP column, which
\* drops the zone, and the driver reads such a column as local time.
ReadBack(timestamp) == timestamp - ZoneOffset

\* The decoded exp claim goes into the row as it stands.
NewRow(r, k, event) ==
  [personakey |-> k, event_id |-> event,
   authorization_time |-> req[r].auth,
   idp_expirationtime |-> req[r].idpExp,
   idp_token |-> [sub |-> SubOf[req[r].subject], exp |-> req[r].idpExp]]

-----------------------------------------------------------------------------
(* POST /self/token *)

\* The security layer accepted an IdP token that has not expired.  The subject
\* may have no persona in this user context: the persona check of the security
\* layer, given no user_context, does not filter on it.
ArriveToken(r, subject, lifetime) ==
  /\ req[r].pc = "idle"
  /\ Becomes(r, [Idle EXCEPT !.op = "token", !.pc = "entitle",
                !.subject = subject, !.idpExp = now + lifetime])
  /\ UNCHANGED <<now, personas, spentKeys, sessions, revoked, faults>>

\* The entitlement queries returned: compute the duration, stamp the session and
\* ask for the persona's session.
ComputeDuration(r) ==
  /\ req[r].op = "token" /\ req[r].pc = "entitle"
  /\ Becomes(r, [req[r] EXCEPT !.pc = "getSession",
                !.dur = Lesser(TokenLifetime, req[r].idpExp - now),
                !.at = now, !.auth = now])
  /\ UNCHANGED <<now, personas, spentKeys, sessions, revoked, faults>>

\* getSessionBySubIss: the persona key of the session, then its row.
GetSession(r) ==
  /\ req[r].pc = "getSession"
  /\ IF SessionsOfSubject(req[r].subject) = {}
       THEN Goto(r, "checkNoSession")
       ELSE \E s \in SessionsOfSubject(req[r].subject) :
              Becomes(r, [req[r] EXCEPT !.pc = "readSession", !.persona = s.personakey])
  /\ UNCHANGED <<now, personas, spentKeys, sessions, revoked, faults>>

ReadSession(r) ==
  /\ req[r].pc = "readSession"
  /\ \/ \E s \in sessions :
          /\ s.personakey = req[r].persona
          /\ Becomes(r, [req[r] EXCEPT !.pc = "checkSession", !.event = s.event_id])
     \/ /\ \A s \in sessions : s.personakey # req[r].persona
        /\ Goto(r, "checkNoSession")
  /\ UNCHANGED <<now, personas, spentKeys, sessions, revoked, faults>>

\* updateSessionBySubIss looks the session up again, and throws without one.
CheckSession(r) ==
  /\ req[r].pc = "checkSession"
  /\ IF SessionsOfSubject(req[r].subject) = {}
       THEN Answer(r, 500)
       ELSE \E s \in SessionsOfSubject(req[r].subject) :
              Becomes(r, [req[r] EXCEPT !.pc = "updateSession", !.persona = s.personakey])
  /\ UNCHANGED <<now, personas, spentKeys, sessions, revoked, faults>>

\* Seeded fault: every row is updated, the WHERE clause forgotten.
UpdateSession_NoWhere(r) ==
  /\ req[r].pc = "updateSession"
  /\ sessions' = {NewRow(r, s.personakey, s.event_id) : s \in sessions}
  /\ Goto(r, "sign")
  /\ UNCHANGED <<now, personas, spentKeys, revoked, faults>>

\* Seeded fault: every row is updated, the event_id column too.
UpdateSession_NoWhereAllColumns(r) ==
  /\ req[r].pc = "updateSession"
  /\ sessions' = {NewRow(r, s.personakey, req[r].event) : s \in sessions}
  /\ Goto(r, "sign")
  /\ UNCHANGED <<now, personas, spentKeys, revoked, faults>>

\* Seeded fault: a renewal writes a fresh UUID.
UpdateSession_FreshEvent(r) ==
  /\ req[r].pc = "updateSession"
  /\ sessions' = {IF s.personakey = req[r].persona
                    THEN NewRow(r, s.personakey, r) ELSE s : s \in sessions}
  /\ Goto(r, "sign")
  /\ UNCHANGED <<now, personas, spentKeys, revoked, faults>>

\* Seeded fault: the UPDATE is an upsert, and writes back a deleted session.
UpdateSession_Upsert(r) ==
  /\ req[r].pc = "updateSession"
  /\ sessions' = {s \in sessions : s.personakey # req[r].persona}
                   \cup {NewRow(r, req[r].persona, req[r].event)}
  /\ Goto(r, "sign")
  /\ UNCHANGED <<now, personas, spentKeys, revoked, faults>>

\* The UPDATE may match no row; either way the event_id read earlier is returned.
UpdateSession(r) ==
  /\ req[r].pc = "updateSession"
  /\ sessions' = {IF s.personakey = req[r].persona
                    THEN NewRow(r, s.personakey, s.event_id) ELSE s : s \in sessions}
  /\ Goto(r, "sign")
  /\ UNCHANGED <<now, personas, spentKeys, revoked, faults>>

\* insertSessionBySubIss makes sure once more that there is no session.
CheckNoSession(r) ==
  /\ req[r].pc = "checkNoSession"
  /\ IF SessionsOfSubject(req[r].subject) # {}
       THEN Answer(r, 500)
       ELSE Goto(r, "getPersona")
  /\ UNCHANGED <<now, personas, spentKeys, sessions, revoked, faults>>

GetPersona(r) ==
  /\ req[r].pc = "getPersona"
  /\ \/ \E k \in PersonasOfSubject(req[r].subject) :
          Becomes(r, [req[r] EXCEPT !.pc = "insertSession", !.persona = k])
     \/ /\ PersonasOfSubject(req[r].subject) = {}
        /\ Becomes(r, [req[r] EXCEPT !.pc = "insertSession", !.persona = None])
  /\ UNCHANGED <<now, personas, spentKeys, sessions, revoked, faults>>

\* Seeded fault: no foreign key, and a null personakey is let in.
MayInsert_NoForeignKey(k) == \A s \in sessions : s.personakey # k

\* Seeded fault: personakey is not unique.
MayInsert_NotUnique(k) == k \in personas

\* The constraints of the table: personakey is not null, references personas
\* and is unique.
MayInsert(k) == k \in personas /\ \A s \in sessions : s.personakey # k

\* Seeded fault: INSERT ... ON CONFLICT DO NOTHING.
InsertSession_IgnoresConflict(r) ==
  /\ req[r].pc = "insertSession"
  /\ sessions' = IF MayInsert(req[r].persona)
                   THEN sessions \cup {NewRow(r, req[r].persona, r)} ELSE sessions
  /\ Becomes(r, [req[r] EXCEPT !.pc = "sign", !.event = r])
  /\ UNCHANGED <<now, personas, spentKeys, revoked, faults>>

InsertSession(r) ==
  /\ req[r].pc = "insertSession"
  /\ IF MayInsert(req[r].persona)
       THEN /\ sessions' = sessions \cup {NewRow(r, req[r].persona, r)}
            /\ Becomes(r, [req[r] EXCEPT !.pc = "sign", !.event = r])
       ELSE /\ sessions' = sessions
            /\ Answer(r, 500)
  /\ UNCHANGED <<now, personas, spentKeys, revoked, faults>>

\* createSignedAccessToken, then the 200 answer.  The exp claim is counted from
\* the clock of this step.
Sign(r) ==
  /\ req[r].pc = "sign"
  /\ Becomes(r, [req[r] EXCEPT !.pc = "done", !.status = 200,
                        !.exp = now + req[r].dur, !.signed = now, !.persona = None])
  /\ UNCHANGED <<now, personas, spentKeys, sessions, revoked, faults>>

-----------------------------------------------------------------------------
(* POST /self/refresh_token *)

\* The refresh tokens clients were given.
HandedOut == {req[q].event : q \in {p \in Requests :
                req[p].op = "token" /\ req[p].pc = "done" /\ req[p].status = 200}}

ArriveRefresh(r, event) ==
  /\ req[r].pc = "idle"
  /\ event \in HandedOut
  /\ Becomes(r, [Idle EXCEPT !.op = "refresh", !.pc = "lookup",
                !.event = event, !.dead = event \in revoked])
  /\ UNCHANGED <<now, personas, spentKeys, sessions, revoked, faults>>

\* getSessionByEventId; 404 without a session.
Lookup(r) ==
  /\ req[r].pc = "lookup"
  /\ \/ \E s \in sessions :
          /\ s.event_id = req[r].event
          /\ Becomes(r, [req[r] EXCEPT !.pc = "checkExpiry", !.row = s])
     \/ /\ \A s \in sessions : s.event_id # req[r].event
        /\ Answer(r, 404)
  /\ UNCHANGED <<now, personas, spentKeys, sessions, revoked, faults>>

\* Seeded fault: the expiry of the IdP token is not looked at.
SessionLifetimeExpiry_IgnoresIdp(row) == SessionLifetime

\* calculateSessionLifetimeExpiry
SessionLifetimeExpiry(row) ==
  Lesser(SessionLifetime, ReadBack(row.idp_expirationtime) - now)

\* An expired session is deleted, by persona key; otherwise the duration is computed
\* and the sub claim taken from session.idp_token.  The user_context and the client,
\* which only select entitlements, are those of this request, whatever the login's were.
CheckExpiry(r) ==
  /\ req[r].pc = "checkExpiry"
  /\ LET left == SessionLifetimeExpiry(req[r].row) IN
       \/ /\ left <= 0
          /\ Goto(r, "expire")
       \/ /\ left > 0
          /\ Becomes(r, [req[r] EXCEPT !.pc = "entitle",
                       !.dur = Lesser(TokenLifetime, left), !.at = now,
                       !.sub = req[r].row.idp_token.sub])
  /\ UNCHANGED <<now, personas, spentKeys, sessions, revoked, faults>>

\* Seeded fault: the handler never answers.
ExpireSession_NoAnswer(r) ==
  /\ req[r].pc = "expire"
  /\ DeleteSessions(req[r].row.personakey)
  /\ UNCHANGED <<now, personas, spentKeys, faults, req>>

\* Seeded fault: the row is left in the table.
ExpireSession_KeepsRow(r) ==
  /\ req[r].pc = "expire"
  /\ Answer(r, 403)
  /\ UNCHANGED <<now, personas, spentKeys, sessions, revoked, faults>>

ExpireSession(r) ==
  /\ req[r].pc = "expire"
  /\ DeleteSessions(req[r].row.personakey)
  /\ Answer(r, 403)
  /\ UNCHANGED <<now, personas, spentKeys, faults>>

\* The two entitlement queries of the refresh.
RefreshEntitlements(r) ==
  /\ req[r].op = "refresh" /\ req[r].pc = "entitle"
  /\ Goto(r, "sign")
  /\ UNCHANGED <<now, personas, spentKeys, sessions, revoked, faults>>

-----------------------------------------------------------------------------
(* DELETE /sessions *)

ArriveInvalidate(r, subject) ==
  /\ req[r].pc = "idle"
  /\ Becomes(r, [Idle EXCEPT !.op = "invalidate",
                !.pc = "findSession", !.subject = subject])
  /\ UNCHANGED <<now, personas, spentKeys, sessions, revoked, faults>>

FindSession(r) ==
  /\ req[r].pc = "findSession"
  /\ IF SessionsOfSubject(req[r].subject) = {}
       THEN Answer(r, 404)
       ELSE \E s \in SessionsOfSubject(req[r].subject) :
              Becomes(r, [req[r] EXCEPT !.pc = "deleteSession", !.persona = s.personakey])
  /\ UNCHANGED <<now, personas, spentKeys, sessions, revoked, faults>>

\* 200 whether or not the row was still there.
DeleteSession(r) ==
  /\ req[r].pc = "deleteSession"
  /\ DeleteSessions(req[r].persona)
  /\ Answer(r, 200)
  /\ UNCHANGED <<now, personas, spentKeys, faults>>

-----------------------------------------------------------------------------
(* Everything around the handlers. *)

\* A statement is rejected, or no signing key exists.  /self/token answers 500,
\* DELETE /sessions 404 whatever went wrong, and the refresh handler, which has
\* no try/catch, nothing at all.
StatementFails(r) ==
  /\ req[r].pc \in Awaits \ {"checkExpiry"}
  /\ faults < MaxFaults
  /\ faults' = faults + 1
  /\ CASE req[r].op = "token"      -> Answer(r, 500)
       [] req[r].op = "invalidate" -> Answer(r, 404)
       [] OTHER                    -> Becomes(r, Lose(req[r]))
  /\ UNCHANGED <<now, personas, spentKeys, sessions, revoked>>

\* The process stops: every request in flight is lost, the tables stay.
Crash ==
  /\ faults < MaxFaults
  /\ faults' = faults + 1
  /\ req' = [r \in Requests |-> IF req[r].pc \in Awaits
                                  THEN Lose(req[r]) ELSE req[r]]
  /\ UNCHANGED <<now, personas, spentKeys, sessions, revoked>>

\* insertPersonaByTenantKey: unique on (sub_claim, user_context, tenantkey).
InsertPersona(k) ==
  /\ k \notin personas \cup spentKeys
  /\ \A p \in PersonasOfSubject(SubjectOf[k]) : TenantOf[p] # TenantOf[k]
  /\ personas' = personas \cup {k}
  /\ UNCHANGED <<now, spentKeys, sessions, revoked, faults, req>>

\* Seeded fault: the foreign key of `sessions' does not cascade.
DeletePersona_NoCascade(k) ==
  /\ k \in personas
  /\ personas' = personas \ {k}
  /\ spentKeys' = spentKeys \cup {k}
  /\ UNCHANGED <<now, sessions, revoked, faults, req>>

\* deletePersonaByKey; the foreign key of `sessions' cascades.
DeletePersona(k) ==
  /\ k \in personas
  /\ personas' = personas \ {k}
  /\ spentKeys' = spentKeys \cup {k}
  /\ DeleteSessions(k)
  /\ UNCHANGED <<now, faults, req>>

Tick ==
  /\ now < MaxTime
  /\ now' = now + 1
  /\ UNCHANGED <<personas, spentKeys, sessions, revoked, faults, req>>

-----------------------------------------------------------------------------
Init ==
  /\ now = 0
  /\ personas = {}
  /\ spentKeys = {}
  /\ sessions = {}
  /\ revoked = {}
  /\ faults = 0
  /\ req = [r \in Requests |-> Idle]

Arrive(r) ==
  \/ \E subject \in Subjects, lifetime \in IdpLifetimes : ArriveToken(r, subject, lifetime)
  \/ \E event \in Requests : ArriveRefresh(r, event)
  \/ \E subject \in Subjects : ArriveInvalidate(r, subject)

\* The next statement or segment of a request in flight.
Step(r) ==
  \/ ComputeDuration(r) \/ GetSession(r) \/ ReadSession(r) \/ CheckSession(r)
  \/ UpdateSession(r) \/ CheckNoSession(r) \/ GetPersona(r) \/ InsertSession(r)
  \/ Lookup(r) \/ CheckExpiry(r) \/ ExpireSession(r) \/ RefreshEntitlements(r)
  \/ FindSession(r) \/ DeleteSession(r)
  \/ Sign(r)

Next ==
  \/ \E r \in Requests : Arrive(r) \/ Step(r) \/ StatementFails(r)
  \/ \E k \in PersonaKeys : InsertPersona(k) \/ DeletePersona(k)
  \/ Crash
  \/ Tick

\* The event loop runs every continuation whose statement has been answered.
Fairness == \A r \in Requests : WF_vars(Step(r))

Spec == Init /\ [][Next]_vars
FairSpec == Spec /\ Fairness

-----------------------------------------------------------------------------
(* Safety. *)

\* The type of every variable: table rows, parameters, locals and answers.
TypeOK ==
  /\ now \in Nat
  /\ personas \subseteq PersonaKeys
  /\ spentKeys \subseteq PersonaKeys
  /\ sessions \subseteq SessionRow
  /\ revoked \subseteq Requests
  /\ faults \in Nat
  /\ req \in [Requests -> Request]

Granted(r) == req[r].op = "token" /\ req[r].pc = "done" /\ req[r].status = 200
Refreshed(r) == req[r].op = "refresh" /\ req[r].pc = "done" /\ req[r].status = 200

\* A refresh token names at most one session.  The schema does not say so: only
\* the unique personakey and the fresh UUID of each insert keep event_id unique,
\* and getSessionByEventId takes the first row it finds.
EventIdsIdentify ==
  \A s, t \in sessions : s.event_id = t.event_id => s = t

\* No row of `sessions' outlives its persona, whatever persona administration
\* does while a login is between reading the persona key and inserting.
SessionsHavePersonas ==
  \A s \in sessions : s.personakey \in personas

\* The IdP token kept in a session, whose sub claim later refreshes are issued
\* for, bears the sub_claim of the very persona that owns the row.
SessionHoldsOwnIdpToken ==
  \A s \in sessions : s.idp_token.sub = SubOf[SubjectOf[s.personakey]]

\* The refresh token /self/token answers with never names a session of another
\* subject, at the answer or at any time after it.
RefreshTokenIsOwn ==
  \A r \in Requests : \A s \in sessions :
    (Granted(r) /\ s.event_id = req[r].event) => SubjectOf[s.personakey] = req[r].subject

\* Every refresh token a client was given had a row behind it: an insert lost to
\* a concurrent login is answered 500, never with an event_id that was not stored.
GrantedTokenWasStored ==
  \A r \in Requests :
    Granted(r) => \/ req[r].event \in revoked
                  \/ \E s \in sessions : s.event_id = req[r].event

\* Concurrent logins of a subject agree: while it has one persona, two answers
\* of /self/token carry the same refresh token unless one has been revoked.
ConcurrentLoginsAgree ==
  \A q, r \in Requests :
    ( /\ Granted(q) /\ Granted(r)
      /\ req[q].subject = req[r].subject
      /\ {req[q].event, req[r].event} \cap revoked = {}
      /\ \E k \in PersonaKeys : PersonasOfSubject(req[r].subject) = {k} )
    => req[q].event = req[r].event

\* An invalidated session stays invalidated: no login in flight writes its row
\* back, and no refresh that arrives later is answered with an access token.
RevokedStaysRevoked ==
  /\ \A s \in sessions : s.event_id \notin revoked
  /\ \A r \in Requests : req[r].dead => ~Refreshed(r)

\* A refreshed access token is issued for the sub claim of an IdP token some login
\* presented, which had not expired when the handler looked.  It outlives that IdP token
\* by no more than the handler's delay before it signs, provided that idp_expirationtime
\* is not read as later than it is.
RefreshBackedByLogin ==
  \A r \in Requests : Refreshed(r) /\ ZoneOffset >= 0 =>
    \E q \in Requests :
      /\ req[q].op = "token" /\ SubOf[req[q].subject] = req[r].sub
      /\ req[r].at < req[q].idpExp
      /\ req[r].exp <= req[q].idpExp + (req[r].signed - req[r].at)

(* The inductive invariant behind the safety properties. *)

\* event_ids that are, or once were, in the table.
Known == revoked \cup {s.event_id : s \in sessions}

\* The event_id is known, and no other subject's session carries it.
Names(event, subject) ==
  /\ event \in Known
  /\ \A s \in sessions : s.event_id = event => SubjectOf[s.personakey] = subject

\* A login between having an event_id to return and having returned it.
Holding(q) ==
  /\ q.op = "token"
  /\ \/ q.pc \in {"checkSession", "updateSession", "sign"}
     \/ q.pc = "done" /\ q.status = 200

\* Which handler waits where, and what the locals then hold.
Shape(q) ==
  /\ q.pc = "idle" => q.op = "none"
  /\ q.pc \in TokenAwaits \ RefreshAwaits => q.op = "token"
  /\ q.pc \in RefreshAwaits \ TokenAwaits => q.op = "refresh"
  /\ q.pc \in RefreshAwaits \cap TokenAwaits => q.op \in {"token", "refresh"}
  /\ q.pc \in InvalidateAwaits => q.op = "invalidate"
  /\ q.op \in {"token", "invalidate"} => q.subject \in Subjects
  /\ q.status = 200 => q.pc = "done"
  /\ q.op = "token" => q.persona = None \/ SubjectOf[q.persona] = q.subject
  /\ q.row # None =>
       /\ q.op = "refresh" /\ q.pc \in {"checkExpiry", "expire", "entitle", "sign", "done"}
       /\ q.row.event_id = q.event
       /\ q.row.idp_token.sub = SubOf[SubjectOf[q.row.personakey]]
       /\ q.pc \in {"entitle", "sign", "done"} => q.sub = q.row.idp_token.sub
  /\ q.op = "refresh" /\ (q.pc \in {"checkExpiry", "expire", "entitle", "sign"} \/ q.status = 200) =>
       q.row # None
  /\ q.dead => q.op = "refresh" /\ q.pc \in {"lookup", "done", "unanswered"} /\ q.status # 200

RequestInv ==
  \A r \in Requests :
    /\ Shape(req[r])
    /\ Holding(req[r]) => Names(req[r].event, req[r].subject)
    /\ req[r].op = "refresh" => req[r].event \in HandedOut
    /\ req[r].dead => req[r].event \in revoked

OneSessionPerPersona ==
  \A s, t \in sessions : s.personakey = t.personakey => s = t

\* Only a login past its INSERT has its UUID in the table.
KnownIsInserted ==
  \A r \in Known : req[r].op = "token" /\ req[r].pc \in {"sign", "done", "unanswered"}

\* No event_id is both in the table and deleted from it.
NoRevokedRow == \A s \in sessions : s.event_id \notin revoked

TableInv ==
  /\ OneSessionPerPersona /\ EventIdsIdentify /\ SessionsHavePersonas
  /\ SessionHoldsOwnIdpToken /\ KnownIsInserted /\ NoRevokedRow

\* Typing, the constraints and history of the table, and what every request in
\* flight knows of it.
IInv == TypeOK /\ TableInv /\ RequestInv

\* Whatever became of the row a refresh has read, the session that carries its
\* event_id now is of the same persona.
ReadRowsKeepOwner ==
  \A r \in Requests, s \in sessions :
    req[r].row # None /\ s.event_id = req[r].event => s.personakey = req[r].row.personakey

(* What a step may never do. *)

\* A session keeps its event_id while it is renewed, so that the refresh token
\* of an earlier login stays good; only a deletion ends it.
RenewalKeepsRefreshToken ==
  [][\A s \in sessions : \A t \in sessions' :
       s.personakey = t.personakey => s.event_id = t.event_id]_vars

\* A refresh that finds its session expired deletes by persona key, from a row read
\* an await earlier: whatever was renewed, deleted or inserted meanwhile, it leaves
\* no session that its refresh token names.
ExpiryRemovesItsSession ==
  [][\A r \in Requests : ExpireSession(r) =>
       \A s \in sessions' : s.event_id # req[r].event]_vars

\* The most awaits a request still goes through.
StepsLeft(q) ==
  CASE q.pc = "entitle" -> IF q.op = "token" THEN 7 ELSE 2
    [] q.pc = "getSession" -> 6
    [] q.pc = "readSession" -> 5
    [] q.pc \in {"checkNoSession", "lookup"} -> 4
    [] q.pc \in {"checkSession", "getPersona", "checkExpiry"} -> 3
    [] q.pc \in {"updateSession", "insertSession", "findSession"} -> 2
    [] q.pc \in {"sign", "expire", "deleteSession"} -> 1
    [] OTHER -> 0

\* No handler goes back, and no answer is given twice: every step of a request brings
\* it nearer its end, at most seven awaits away, whatever it finds in the tables.
RequestsAdvance ==
  [][\A r \in Requests :
       req[r].pc # "idle" => req'[r] = req[r] \/ StepsLeft(req'[r]) < StepsLeft(req[r])]_vars

(* Liveness. *)

\* Every request is answered, unless the process stopped or, for a refresh, a
\* statement was rejected.
EveryRequestEnds ==
  \A r \in Requests :
    req[r].pc \in Awaits ~> req[r].pc \in {"done", "unanswered"}

\* Once a refresh has found its session expired, the session does not stay as it
\* is: it goes or a login renews it, unless that request is lost.
ExpiredSessionGoes ==
  \A r \in Requests :
    req[r].pc = "expire" ~>
      \/ \A s \in sessions :
           s.event_id = req[r].event => ReadBack(s.idp_expirationtime) > now
      \/ req[r].pc = "unanswered"

(* What the comments of the code say and the code does not do. *)

\* "This ensures The Usher access token does not extend past the User's idp token's
\* exp time" (endpoint_self_refresh_token.js): the token ends with that of its session.
RefreshEndsWithIdpToken ==
  \A r \in Requests : Refreshed(r) => req[r].exp <= req[r].row.idp_token.exp

\* "If session is expired, delete it from the sessions table and deny the user
\* a JWT" (endpoint_self_refresh_token.js): a refresh deletes expired sessions only.
RefreshDeletesOnlyExpired ==
  [][\A r \in Requests : ExpireSession(r) =>
       \A s \in sessions \ sessions' : ReadBack(s.idp_expirationtime) <= now]_vars

\* createOrUpdateSession creates a session or updates an existing one and returns
\* its event_id (admin-session.js): when it returns, that session is stored.
SavedSessionExists ==
  [][\A r \in Requests : UpdateSession(r) \/ (InsertSession(r) /\ req'[r].pc = "sign") =>
       \E s \in sessions' : /\ s.event_id = req'[r].event
                            /\ s.idp_token.sub = SubOf[req[r].subject]
                            /\ s.idp_token.exp = req[r].idpExp]_vars
=============================================================================
