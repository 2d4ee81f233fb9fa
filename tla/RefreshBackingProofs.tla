------------------------ MODULE RefreshBackingProofs ------------------------
(* The proof that every refreshed access token is backed by a login, and in time. *)
EXTENDS SessionsProofs

-----------------------------------------------------------------------------
(* The strengthening: what the rows, in the table and in the hands of a refresh, *)
(* and the computed durations owe to logins.                                     *)

\* Some login presented the IdP token of this row, and the column says its expiry.
BackedRow(w) ==
  /\ w.idp_expirationtime = w.idp_token.exp
  /\ \E q \in Requests : /\ req[q].op = "token"
                         /\ SubOf[req[q].subject] = w.idp_token.sub
                         /\ req[q].idpExp = w.idp_token.exp

\* A refresh computes its duration before the IdP token expires, unless the zone misleads
\* it, and the expiry of its token when it signs.
InTime(q) ==
  q.op = "refresh" /\ (q.pc \in {"entitle", "sign"} \/ q.status = 200) =>
    /\ ZoneOffset >= 0 => /\ q.at < q.row.idp_token.exp
                          /\ q.at + q.dur <= q.row.idp_token.exp
    /\ q.status = 200 => q.exp = q.signed + q.dur

Backing ==
  /\ \A s \in sessions : BackedRow(s)
  /\ \A r \in Requests : (req[r].row # None => BackedRow(req[r].row)) /\ InTime(req[r])

\* How an entry of req may change: a login keeps what it presented, a row comes
\* from the table, and a duration is in time.
Passes(p, q) ==
  /\ p.op = "token" => q.op = "token" /\ q.subject = p.subject /\ q.idpExp = p.idpExp
  /\ q.row # None => q.row = p.row \/ q.row \in sessions
  /\ InTime(q)

Goes(r) == \E q : Becomes(r, q) /\ Passes(req[r], q)

LEMMA KeepsBacking ==
  ASSUME Backing, \A p \in Requests : Passes(req[p], req'[p]),
         \A s \in sessions' : s \in sessions \/ BackedRow(s)'
  PROVE  Backing'
<1>1. \A w : BackedRow(w) => BackedRow(w)'
  BY DEF BackedRow, Passes
<1>2. \A s \in sessions' : BackedRow(s)'
  BY <1>1 DEF Backing
<1>3. \A r \in Requests : req[r].row' # None => BackedRow(req[r].row)'
  <2> SUFFICES ASSUME NEW r \in Requests, req[r].row' # None
               PROVE  BackedRow(req[r].row)'
    OBVIOUS
  <2>1. PICK w : w = req'[r].row
    OBVIOUS
  <2>2. BackedRow(w)
    BY <2>1 DEF Backing, Passes
  <2>3. BackedRow(w)'
    BY <1>1, <2>2
  <2> QED
    BY <2>1, <2>3 DEF BackedRow
<1>4. \A r \in Requests : InTime(req'[r])
  BY DEF Passes
<1> QED
  BY <1>2, <1>3, <1>4 DEF Backing

\* One request changes and the rows stay, go, or are backed.
LEMMA OneKeepsBacking ==
  ASSUME IInv, Backing, NEW r \in Requests, Goes(r),
         \A s \in sessions' : s \in sessions \/ BackedRow(s)'
  PROVE  Backing'
<1> PICK q : Becomes(r, q) /\ Passes(req[r], q)
  BY DEF Goes
<1>1. \A p \in Requests : req'[p] = IF p = r THEN q ELSE req[p]
  BY DEF IInv, TypeOK, Becomes
<1>2. \A p \in Requests : Passes(req[p], req'[p])
  BY <1>1 DEF Passes, Backing
<1> QED
  BY <1>2, KeepsBacking

-----------------------------------------------------------------------------
(* How each kind of statement changes its request. *)

LEMMA ArrivePasses ==
  ASSUME IInv, NEW r \in Requests, Arrive(r)
  PROVE  Goes(r) /\ sessions' = sessions
<1>1. req[r].op = "none"
  BY DEF IInv, RequestInv, Shape, Arrive, ArriveToken, ArriveRefresh, ArriveInvalidate
<1>2. PICK q : /\ Becomes(r, q) /\ q.row = None /\ q.status = 0
               /\ q.pc \in {"lookup", "findSession"} \/ q.op = "token"
               /\ sessions' = sessions
  BY DEF Arrive, ArriveToken, ArriveRefresh, ArriveInvalidate, Idle
<1> QED
  BY <1>1, <1>2 DEF Goes, Passes, InTime

\* An answer that is no success, and a loss.
LEMMA EndPasses ==
  ASSUME IInv, NEW r \in Requests, NEW status \in Nat,
         status = 200 => req[r].op # "refresh", req[r].pc \in Awaits,
         Answer(r, status) \/ Becomes(r, Lose(req[r]))
  PROVE  Goes(r)
<1>1. req[r] \in Request /\ req[r].status # 200
  BY DEF IInv, TypeOK, RequestInv, Shape, Awaits, TokenAwaits, RefreshAwaits, InvalidateAwaits
<1>2. \A a \in {Answered(req[r], status), Lose(req[r])} : a.idpExp = req[r].idpExp
  BY <1>1 DEF Answered, Lose, Ended, Request
<1>3. Passes(req[r], Answered(req[r], status)) /\ Passes(req[r], Lose(req[r]))
  BY <1>1, <1>2, AnsweredFields DEF Passes, InTime
<1> QED
  BY <1>3, AnswerForm DEF Goes

LEMMA FailurePasses ==
  ASSUME IInv, NEW r \in Requests, req[r].pc \in Awaits,
         \/ Answer(r, 500) \/ Answer(r, 404) \/ Answer(r, 403) \/ Becomes(r, Lose(req[r]))
  PROVE  Goes(r)
<1>1. CASE Answer(r, 500)
  BY <1>1, EndPasses
<1>2. CASE Answer(r, 404)
  BY <1>2, EndPasses
<1>3. CASE Answer(r, 403)
  BY <1>3, EndPasses
<1>4. CASE Becomes(r, Lose(req[r]))
  <2>1. 404 \in Nat /\ 404 # 200
    OBVIOUS
  <2> QED
    BY <1>4, <2>1, EndPasses
<1> QED
  BY <1>1, <1>2, <1>3, <1>4

\* A statement of a login or of an invalidation.
LEMMA LoginPasses ==
  ASSUME IInv, NEW r \in Requests, NEW pc \in Awaits, NEW x, NEW d, NEW t,
         req[r].op # "refresh",
         \/ Becomes(r, [req[r] EXCEPT !.pc = pc])
         \/ Becomes(r, [req[r] EXCEPT !.pc = pc, !.persona = x])
         \/ Becomes(r, [req[r] EXCEPT !.pc = pc, !.event = x])
         \/ Becomes(r, [req[r] EXCEPT !.pc = pc, !.dur = d, !.at = t, !.auth = t])
  PROVE  Goes(r)
<1> DEFINE Same(q) == /\ q.op = req[r].op /\ q.subject = req[r].subject
                      /\ q.idpExp = req[r].idpExp /\ q.row = req[r].row
<1>1. req[r] \in Request
  BY DEF IInv, TypeOK
<1>2. /\ Same([req[r] EXCEPT !.pc = pc])
      /\ Same([req[r] EXCEPT !.pc = pc, !.persona = x])
      /\ Same([req[r] EXCEPT !.pc = pc, !.event = x])
  BY <1>1 DEF Request
<1>3. Same([req[r] EXCEPT !.pc = pc, !.dur = d, !.at = t, !.auth = t])
  BY <1>1 DEF Request
<1>4. PICK q : Becomes(r, q) /\ Same(q)
  <2> HIDE DEF Same
  <2> QED
    BY <1>2, <1>3
<1> QED
  BY <1>4 DEF Goes, Passes, InTime

LEMMA LookupPasses ==
  ASSUME IInv, NEW r \in Requests, Lookup(r)
  PROVE  Goes(r)
<1>1. /\ req[r] \in Request /\ req[r].op = "refresh" /\ req[r].status # 200
      /\ req[r].pc \in Awaits
  BY DEF IInv, TypeOK, Lookup, RequestInv, Shape, Awaits, RefreshAwaits, TokenAwaits
<1>2. ASSUME NEW s \in sessions, Becomes(r, [req[r] EXCEPT !.pc = "checkExpiry", !.row = s])
      PROVE  Goes(r)
  <2>1. PICK q : q = [req[r] EXCEPT !.pc = "checkExpiry", !.row = s]
    OBVIOUS
  <2>2. q.pc = "checkExpiry" /\ q.op = "refresh" /\ q.row = s /\ q.status = req[r].status
    BY <1>1, <2>1 DEF Request
  <2>3. Passes(req[r], q)
    BY <1>1, <2>2 DEF Passes, InTime
  <2> QED
    BY <1>2, <2>1, <2>3 DEF Goes
<1> QED
  <2>1. CASE Answer(r, 404)
    BY <1>1, <2>1, FailurePasses
  <2> QED
    BY <1>2, <2>1 DEF Lookup

\* The computed duration ends with the IdP token at the latest, in a zone that is not behind.
LEMMA CheckExpiryPasses ==
  ASSUME IInv, Backing, NEW r \in Requests, CheckExpiry(r)
  PROVE  Goes(r)
<1> DEFINE left == SessionLifetimeExpiry(req[r].row)
<1>1. /\ req[r] \in Request /\ req[r].op = "refresh" /\ req[r].status # 200
      /\ req[r].row # None /\ req[r].row \in SessionRow /\ now \in Nat
  BY DEF IInv, TypeOK, CheckExpiry, RequestInv, Shape, RefreshAwaits, TokenAwaits, Request
<1>2. CASE Goto(r, "expire")
  <2>1. PICK q : q = [req[r] EXCEPT !.pc = "expire"]
    OBVIOUS
  <2>2. q.pc = "expire" /\ q.op = "refresh" /\ q.row = req[r].row /\ q.status = req[r].status
    BY <1>1, <2>1 DEF Request
  <2>3. Passes(req[r], q)
    BY <1>1, <2>2 DEF Passes, InTime
  <2> QED
    BY <1>2, <2>1, <2>3 DEF Goto, Goes
<1>3. CASE /\ left > 0
           /\ Becomes(r, [req[r] EXCEPT !.pc = "entitle",
                            !.dur = Lesser(TokenLifetime, left), !.at = now,
                            !.sub = req[r].row.idp_token.sub])
  <2>1. PICK exp \in Nat : exp = req[r].row.idp_token.exp
    BY <1>1 DEF SessionRow, IdpToken
  <2>2. req[r].row.idp_expirationtime = exp
    BY <1>1, <2>1 DEF Backing, BackedRow
  <2>3. ZoneOffset >= 0 => /\ now < exp
                           /\ now + Lesser(TokenLifetime, left) <= exp
    BY <1>1, <1>3, <2>2, TimeAssumption DEF SessionLifetimeExpiry, ReadBack, Lesser
  <2>4. PICK d, u : d = Lesser(TokenLifetime, left) /\ u = req[r].row.idp_token.sub
    OBVIOUS
  <2>5. PICK q : q = [req[r] EXCEPT !.pc = "entitle", !.dur = d, !.at = now, !.sub = u]
    OBVIOUS
  <2>6. q.op = "refresh" /\ q.row = req[r].row /\ q.at = now /\ q.dur = d /\ q.status # 200
    BY <1>1, <2>5 DEF Request
  <2>7. Passes(req[r], q)
    BY <1>1, <2>1, <2>3, <2>4, <2>6 DEF Passes, InTime
  <2> QED
    BY <1>3, <2>4, <2>5, <2>7 DEF Goes
<1> QED
  BY <1>2, <1>3 DEF CheckExpiry

LEMMA SignPasses ==
  ASSUME IInv, Backing, NEW r \in Requests, Sign(r) \/ RefreshEntitlements(r)
  PROVE  Goes(r)
<1>1. req[r] \in Request /\ req[r].pc \in {"sign", "entitle"} /\ InTime(req[r])
  BY DEF IInv, TypeOK, Backing, Sign, RefreshEntitlements
<1> DEFINE Same(q) == /\ q.op = req[r].op /\ q.subject = req[r].subject /\ q.row = req[r].row
                      /\ q.idpExp = req[r].idpExp /\ q.at = req[r].at /\ q.dur = req[r].dur
<1>2. Same([req[r] EXCEPT !.pc = "sign"])
  BY <1>1 DEF Request
<1>3. /\ Same([req[r] EXCEPT !.pc = "done", !.status = 200, !.exp = now + req[r].dur,
                              !.signed = now, !.persona = None])
      /\ LET q == [req[r] EXCEPT !.pc = "done", !.status = 200, !.exp = now + req[r].dur,
                                 !.signed = now, !.persona = None]
         IN  q.exp = q.signed + q.dur
  BY <1>1 DEF Request
<1>4. PICK q : Becomes(r, q) /\ Same(q) /\ (q.status = 200 => q.exp = q.signed + q.dur)
  <2>1. [req[r] EXCEPT !.pc = "sign"].status = req[r].status /\ req[r].status # 200
    BY <1>1 DEF Request, IInv, RequestInv, Shape
  <2> HIDE DEF Same
  <2>2. CASE Sign(r)
    <3>1. PICK q : q = [req[r] EXCEPT !.pc = "done", !.status = 200, !.exp = now + req[r].dur,
                                     !.signed = now, !.persona = None]
      OBVIOUS
    <3>2. Becomes(r, q)
      BY <2>2, <3>1 DEF Sign
    <3> QED
      BY <1>3, <3>1, <3>2
  <2>3. CASE RefreshEntitlements(r)
    <3>1. PICK q : q = [req[r] EXCEPT !.pc = "sign"]
      OBVIOUS
    <3>2. Becomes(r, q)
      BY <2>3, <3>1 DEF RefreshEntitlements, Goto
    <3>3. q.status # 200
      BY <1>1, <2>1, <3>1 DEF Request
    <3>4. Same(q)
      BY <1>2, <3>1, Zenon
    <3> QED
      BY <3>2, <3>3, <3>4
  <2> QED
    BY <2>2, <2>3
<1> QED
  BY <1>1, <1>4 DEF Goes, Passes, InTime

-----------------------------------------------------------------------------
(* What is written is backed. *)

LEMMA LoginRowBacked ==
  ASSUME IInv, NEW r \in Requests, Goes(r), req[r].op = "token",
         NEW k, NEW event, NEW w, w = NewRow(r, k, event)
  PROVE  BackedRow(w)'
<1>1. req'[r].op = "token" /\ req'[r].subject = req[r].subject /\ req'[r].idpExp = req[r].idpExp
  BY DEF IInv, TypeOK, Becomes, Goes, Passes
<1>2. /\ w.idp_expirationtime = w.idp_token.exp
      /\ w.idp_token.sub = SubOf[req[r].subject] /\ w.idp_token.exp = req[r].idpExp
  BY DEF NewRow
<1> QED
  BY <1>1, <1>2 DEF BackedRow

LEMMA UpdateBacks ==
  ASSUME IInv, Backing, NEW r \in Requests, UpdateSession(r)
  PROVE  Backing'
<1>1. req[r].op = "token" /\ "sign" \in Awaits
  BY DEF UpdateSession, IInv, RequestInv, Shape, Awaits, TokenAwaits, RefreshAwaits
<1>2. Goes(r)
  BY <1>1, LoginPasses DEF UpdateSession, Goto
<1>3. \A s \in sessions' : s \in sessions \/ BackedRow(s)'
  <2> SUFFICES ASSUME NEW s \in sessions', s \notin sessions
               PROVE  BackedRow(s)'
    OBVIOUS
  <2>1. PICK t \in sessions : s = NewRow(r, t.personakey, t.event_id)
    BY DEF UpdateSession
  <2>2. PICK k, e : k = t.personakey /\ e = t.event_id
    OBVIOUS
  <2>3. s = NewRow(r, k, e)
    BY <2>1, <2>2
  <2> QED
    BY <1>1, <1>2, <2>3, LoginRowBacked
<1> QED
  BY <1>2, <1>3, OneKeepsBacking

LEMMA InsertBacks ==
  ASSUME IInv, Backing, NEW r \in Requests, InsertSession(r)
  PROVE  Backing'
<1>1. req[r].op = "token" /\ "sign" \in Awaits /\ req[r].pc \in Awaits
  BY DEF InsertSession, IInv, RequestInv, Shape, Awaits, TokenAwaits, RefreshAwaits
<1>2. CASE MayInsert(req[r].persona)
  <2>1. Goes(r)
    BY <1>1, <1>2, LoginPasses DEF InsertSession
  <2>2. \A s \in sessions' : s \in sessions \/ s = NewRow(r, req[r].persona, r)
    BY <1>2 DEF InsertSession
  <2>3. \A s \in sessions' : s \in sessions \/ BackedRow(s)'
    BY <1>1, <2>1, <2>2, LoginRowBacked
  <2> QED
    BY <2>1, <2>3, OneKeepsBacking
<1>3. CASE ~MayInsert(req[r].persona)
  <2>1. Answer(r, 500) /\ sessions' = sessions
    BY <1>3 DEF InsertSession
  <2>2. Goes(r)
    BY <1>1, <2>1, FailurePasses
  <2> QED
    BY <2>1, <2>2, OneKeepsBacking
<1> QED
  BY <1>2, <1>3

\* Every other step of a request writes no row.
Writeless(r) ==
  \/ ComputeDuration(r) \/ GetSession(r) \/ ReadSession(r) \/ CheckSession(r)
  \/ CheckNoSession(r) \/ GetPersona(r) \/ FindSession(r)
  \/ ExpireSession(r) \/ DeleteSession(r) \/ StatementFails(r)

LEMMA WritelessBacks ==
  ASSUME IInv, Backing, NEW r \in Requests, Writeless(r)
  PROVE  Backing'
<1>1. /\ \A s \in sessions' : s \in sessions
      /\ req[r].pc \in Awaits
  BY DEF Writeless, ComputeDuration, GetSession, ReadSession, CheckSession, CheckNoSession,
     GetPersona, FindSession, ExpireSession, DeleteSession, StatementFails, DeleteSessions,
     Awaits, TokenAwaits, RefreshAwaits, InvalidateAwaits
<1>2. {"getSession", "readSession", "checkSession", "updateSession", "checkNoSession",
       "getPersona", "insertSession", "deleteSession"} \subseteq Awaits
  BY DEF Awaits, TokenAwaits, InvalidateAwaits
<1>3. ASSUME req[r].op # "refresh", ~StatementFails(r), ~DeleteSession(r), ~ExpireSession(r)
      PROVE  Goes(r)
  <2>1. CASE ComputeDuration(r)
    BY <1>2, <1>3, <2>1, LoginPasses DEF ComputeDuration
  <2>2. CASE GetSession(r)
    BY <1>2, <1>3, <2>2, LoginPasses DEF GetSession, Goto
  <2>3. CASE ReadSession(r)
    BY <1>2, <1>3, <2>3, LoginPasses DEF ReadSession, Goto
  <2>4. CASE CheckSession(r)
    BY <1>1, <1>2, <1>3, <2>4, LoginPasses, FailurePasses DEF CheckSession
  <2>5. CASE CheckNoSession(r)
    BY <1>1, <1>2, <1>3, <2>5, LoginPasses, FailurePasses DEF CheckNoSession, Goto
  <2>6. CASE GetPersona(r)
    BY <1>2, <1>3, <2>6, LoginPasses DEF GetPersona
  <2>7. CASE FindSession(r)
    BY <1>1, <1>2, <1>3, <2>7, LoginPasses, FailurePasses DEF FindSession
  <2> QED
    BY <1>3, <2>1, <2>2, <2>3, <2>4, <2>5, <2>6, <2>7 DEF Writeless
<1>4. ASSUME StatementFails(r) PROVE Goes(r)
  <2>1. Answer(r, 500) \/ Answer(r, 404) \/ Becomes(r, Lose(req[r]))
    BY <1>4 DEF StatementFails
  <2> QED
    BY <1>1, <2>1, FailurePasses
<1>5. ASSUME DeleteSession(r) PROVE Goes(r)
  <2>1. req[r].op # "refresh"
    BY <1>5 DEF DeleteSession, IInv, RequestInv, Shape, InvalidateAwaits
  <2>2. Answer(r, 200)
    BY <1>5 DEF DeleteSession
  <2> QED
    BY <1>1, <2>1, <2>2, EndPasses
<1>6. ASSUME ExpireSession(r) PROVE Goes(r)
  <2>1. Answer(r, 403)
    BY <1>6 DEF ExpireSession
  <2> QED
    BY <1>1, <2>1, FailurePasses
<1>7. req[r].op = "refresh" => StatementFails(r) \/ ExpireSession(r)
  BY DEF Writeless, ComputeDuration, GetSession, ReadSession, CheckSession, CheckNoSession,
     GetPersona, FindSession, DeleteSession, IInv, RequestInv, Shape, TokenAwaits, RefreshAwaits,
     InvalidateAwaits
<1>8. Goes(r)
  BY <1>3, <1>4, <1>5, <1>6, <1>7
<1> QED
  BY <1>1, <1>8, OneKeepsBacking

LEMMA CrashBacks ==
  ASSUME IInv, Backing, Crash
  PROVE  Backing'
<1>1. \A p \in Requests : IF req[p].pc \in Awaits THEN req'[p] = Lose(req[p]) ELSE req'[p] = req[p]
  BY DEF Crash
<1>2. \A p \in Requests : Passes(req[p], req'[p])
  <2> TAKE p \in Requests
  <2>1. CASE req[p].pc \in Awaits
    <3>1. req[p] \in Request /\ req[p].status # 200
      BY <2>1 DEF IInv, TypeOK, RequestInv, Shape, Awaits, TokenAwaits, RefreshAwaits, InvalidateAwaits
    <3>2. Lose(req[p]).idpExp = req[p].idpExp
      BY <3>1 DEF Lose, Ended, Request
    <3>3. Passes(req[p], Lose(req[p]))
      BY <3>1, <3>2, AnsweredFields DEF Passes, InTime
    <3> QED
      BY <1>1, <2>1, <3>3
  <2>2. CASE req[p].pc \notin Awaits
    BY <1>1, <2>2 DEF Passes, Backing
  <2> QED
    BY <2>1, <2>2
<1> QED
  BY <1>2, KeepsBacking DEF Crash

LEMMA RequestsStayBacked ==
  ASSUME IInv, Backing, req' = req, \A s \in sessions' : s \in sessions
  PROVE  Backing'
<1>1. \A p \in Requests : Passes(req[p], req'[p])
  BY DEF Passes, Backing
<1> QED
  BY <1>1, KeepsBacking

LEMMA NextBacks == IInv /\ Backing /\ [Next]_vars => Backing'
<1> SUFFICES ASSUME IInv, Backing, [Next]_vars PROVE Backing'
  OBVIOUS
<1>1. ASSUME NEW r \in Requests, Arrive(r) PROVE Backing'
  BY <1>1, ArrivePasses, OneKeepsBacking
<1>2. ASSUME NEW r \in Requests, Lookup(r) PROVE Backing'
  BY <1>2, LookupPasses, OneKeepsBacking DEF Lookup
<1>3. ASSUME NEW r \in Requests, CheckExpiry(r) PROVE Backing'
  BY <1>3, CheckExpiryPasses, OneKeepsBacking DEF CheckExpiry
<1>4. ASSUME NEW r \in Requests, Sign(r) \/ RefreshEntitlements(r) PROVE Backing'
  BY <1>4, SignPasses, OneKeepsBacking DEF Sign, RefreshEntitlements
<1>5. ASSUME NEW r \in Requests, Step(r) \/ StatementFails(r) PROVE Backing'
  BY <1>2, <1>3, <1>4, <1>5, UpdateBacks, InsertBacks, WritelessBacks DEF Step, Writeless
<1>6. CASE Tick \/ \E k \in PersonaKeys : InsertPersona(k) \/ DeletePersona(k)
  <2>1. req' = req /\ \A s \in sessions' : s \in sessions
    BY <1>6 DEF Tick, InsertPersona, DeletePersona, DeleteSessions
  <2> QED
    BY <2>1, RequestsStayBacked
<1>7. CASE UNCHANGED vars
  BY <1>7, RequestsStayBacked DEF vars
<1> QED
  BY <1>1, <1>5, <1>6, <1>7, CrashBacks DEF Next

LEMMA InitBacks == Init => Backing
BY DEF Init, Backing, Idle, InTime

\* A refreshed access token is issued for the sub claim of an IdP token some login presented,
\* before that token expired, and the expiry it is signed with is past that token's by no
\* more than the time the handler took between computing the duration and signing, on a
\* server whose zone is not behind UTC.
THEOREM RefreshIsBacked == Spec => []RefreshBackedByLogin
<1>1. IInv /\ Backing => RefreshBackedByLogin
  <2> SUFFICES ASSUME IInv, Backing, NEW r \in Requests, Refreshed(r), ZoneOffset >= 0
               PROVE  \E q \in Requests :
                        /\ req[q].op = "token" /\ SubOf[req[q].subject] = req[r].sub
                        /\ req[r].at < req[q].idpExp
                        /\ req[r].exp <= req[q].idpExp + (req[r].signed - req[r].at)
    BY DEF RefreshBackedByLogin
  <2>1. req[r].row # None /\ req[r].sub = req[r].row.idp_token.sub
    BY DEF IInv, RequestInv, Shape, Refreshed
  <2>2. BackedRow(req[r].row) /\ InTime(req[r])
    BY <2>1 DEF Backing
  <2>3. PICK q \in Requests : /\ req[q].op = "token" /\ SubOf[req[q].subject] = req[r].sub
                              /\ req[q].idpExp = req[r].row.idp_token.exp
    BY <2>1, <2>2 DEF BackedRow
  <2>4. /\ req[r].at < req[q].idpExp /\ req[r].at + req[r].dur <= req[q].idpExp
        /\ req[r].exp = req[r].signed + req[r].dur
    BY <2>2, <2>3 DEF InTime, Refreshed
  <2>5. /\ req[r].at \in Nat /\ req[r].dur \in Int /\ req[r].exp \in Int /\ req[r].signed \in Nat
        /\ req[q].idpExp \in Nat
    BY DEF IInv, TypeOK, Request
  <2>6. req[r].exp <= req[q].idpExp + (req[r].signed - req[r].at)
    BY <2>4, <2>5
  <2> QED
    BY <2>3, <2>4, <2>6
<1> QED
  BY <1>1, InitBacks, NextBacks, Inductive, PTL DEF Spec
=============================================================================
