---------------------- MODULE SessionsRefinementProofs ----------------------
(* The proof that Sessions implements RefreshTokens. *)
EXTENDS SessionsRefinement, SessionsProofs

-----------------------------------------------------------------------------
(* What the mapping sees of a request. *)

\* A login answered with a token, a refresh answered with one, and a refresh that found its row.
Gave(q) == q.op = "token" /\ q.pc = "done" /\ q.status = 200
Renewed(q) == q.op = "refresh" /\ q.pc = "done" /\ q.status = 200
Found(q) == q.op = "refresh" /\ q.row # None

\* What becomes of the mapped state when one request that was not answered changes.
LEMMA Effects ==
  ASSUME IInv, NEW r \in Requests, req[r].pc # "done", NEW q, Becomes(r, q)
  PROVE  /\ HeldTokens' = HeldTokens \cup (IF Gave(q) THEN {<<q.subject, q.event>>} ELSE {})
         /\ GrantedRefreshes' = GrantedRefreshes \cup (IF Renewed(q) THEN {<<r, q.sub>>} ELSE {})
         /\ CheckedRefreshes' = {x \in CheckedRefreshes : x[1] # r}
                                  \cup (IF Found(q) THEN {<<r, q.row.idp_token.sub>>} ELSE {})
<1>1. \A p \in Requests : req'[p] = IF p = r THEN q ELSE req[p]
  BY DEF IInv, TypeOK, Becomes
<1>2. \A p \in Requests : Granted(p)' <=> IF p = r THEN Gave(q) ELSE Granted(p)
  BY <1>1 DEF Granted, Gave
<1>3. \A p \in Requests : Refreshed(p)' <=> IF p = r THEN Renewed(q) ELSE Refreshed(p)
  BY <1>1 DEF Refreshed, Renewed
<1>4. ~Granted(r) /\ ~Refreshed(r)
  BY DEF Granted, Refreshed
<1>5. HeldTokens' = HeldTokens \cup (IF Gave(q) THEN {<<q.subject, q.event>>} ELSE {})
  <2>1. \A x : x \in HeldTokens' <=> \E p \in Requests : Granted(p)' /\ x = <<req'[p].subject, req'[p].event>>
    BY DEF HeldTokens
  <2>2. \A x : x \in HeldTokens <=> \E p \in Requests : Granted(p) /\ x = <<req[p].subject, req[p].event>>
    BY DEF HeldTokens
  <2> QED
    BY <1>1, <1>2, <1>4, <2>1, <2>2
<1>6. GrantedRefreshes' = GrantedRefreshes \cup (IF Renewed(q) THEN {<<r, q.sub>>} ELSE {})
  <2>1. \A x : x \in GrantedRefreshes' <=> \E p \in Requests : Refreshed(p)' /\ x = <<p, req'[p].sub>>
    BY DEF GrantedRefreshes
  <2>2. \A x : x \in GrantedRefreshes <=> \E p \in Requests : Refreshed(p) /\ x = <<p, req[p].sub>>
    BY DEF GrantedRefreshes
  <2> QED
    BY <1>1, <1>3, <1>4, <2>1, <2>2
<1>7. CheckedRefreshes' = {x \in CheckedRefreshes : x[1] # r}
                            \cup (IF Found(q) THEN {<<r, q.row.idp_token.sub>>} ELSE {})
  <2>1. \A x : x \in CheckedRefreshes' <=>
          \E p \in Requests : Found(req'[p]) /\ x = <<p, req'[p].row.idp_token.sub>>
    BY DEF CheckedRefreshes, Found
  <2>2. \A x : x \in CheckedRefreshes <=>
          \E p \in Requests : Found(req[p]) /\ x = <<p, req[p].row.idp_token.sub>>
    BY DEF CheckedRefreshes, Found
  <2> QED
    BY <1>1, <2>1, <2>2
<1> QED
  BY <1>5, <1>6, <1>7

\* Nothing that a client holds or was granted changes; a refresh may be given up.
Calm ==
  /\ HeldTokens' = HeldTokens /\ GrantedRefreshes' = GrantedRefreshes
  /\ CheckedRefreshes' \subseteq CheckedRefreshes

\* A request that moves on with the row it has, or without one, is calm.
LEMMA CalmStep ==
  ASSUME IInv, NEW r \in Requests, req[r].pc # "done", NEW q, Becomes(r, q),
         ~Gave(q), ~Renewed(q), Found(q) => Found(req[r]) /\ q.row = req[r].row
  PROVE  Calm
<1>1. Found(q) => <<r, q.row.idp_token.sub>> \in CheckedRefreshes
  BY DEF CheckedRefreshes, Found
<1> QED
  BY <1>1, Effects DEF Calm

LEMMA CalmMove ==
  ASSUME IInv, NEW r \in Requests, req[r].pc # "done", NEW q, Becomes(r, q),
         q.pc \in Awaits, q.op = req[r].op, q.row = req[r].row
  PROVE  Calm
BY CalmStep DEF Gave, Renewed, Found, Awaits, TokenAwaits, RefreshAwaits, InvalidateAwaits

LEMMA CalmEnd ==
  ASSUME IInv, NEW r \in Requests, req[r].pc # "done", NEW status \in Nat,
         status = 200 => req[r].op = "invalidate",
         Answer(r, status) \/ Becomes(r, Lose(req[r]))
  PROVE  Calm
<1>1. req[r] \in Request
  BY DEF IInv, TypeOK
<1>2. CASE Answer(r, status)
  BY <1>1, <1>2, AnswerForm, AnsweredFields, CalmStep DEF Gave, Renewed, Found
<1>3. CASE Becomes(r, Lose(req[r]))
  BY <1>1, <1>3, AnsweredFields, CalmStep DEF Gave, Renewed, Found
<1> QED
  BY <1>2, <1>3

-----------------------------------------------------------------------------
(* What the abstract specification makes of it. *)

\* The table as it was: at most a refresh is given up.
LEMMA CalmIsDrop ==
  ASSUME Calm, BoundTokens' = BoundTokens, revoked' = revoked
  PROVE  Abstract!Next
BY DEF Calm, Abstract!Next, Abstract!Drop

\* A DELETE withdraws the token of the one row it finds, or nothing.
LEMMA DeleteIsWithdraw ==
  ASSUME IInv, Calm, NEW k, DeleteSessions(k)
  PROVE  Abstract!Next
<1>1. CASE \E s \in sessions : s.personakey = k
  <2>1. PICK s \in sessions : s.personakey = k
    BY <1>1
  <2>2. sessions' = sessions \ {s}
    BY <2>1 DEF DeleteSessions, IInv, TableInv, OneSessionPerPersona
  <2>3. revoked' = revoked \cup {s.event_id}
    BY <2>1, <2>2 DEF DeleteSessions
  <2>4. BoundTokens' = BoundTokens \ {<<s.event_id, s.personakey>>}
    <3>1. \A t \in sessions : t.personakey = s.personakey => t = s
      BY DEF IInv, TableInv, OneSessionPerPersona
    <3> QED
      BY <2>2, <3>1 DEF BoundTokens
  <2>5. <<s.event_id, s.personakey>> \in BoundTokens
    BY DEF BoundTokens
  <2>6. Abstract!Withdraw(<<s.event_id, s.personakey>>)
    BY <2>3, <2>4, <2>5 DEF Calm, Abstract!Withdraw
  <2> QED
    BY <2>5, <2>6 DEF Abstract!Next
<1>2. CASE \A s \in sessions : s.personakey # k
  <2>1. sessions' = sessions /\ revoked' = revoked
    BY <1>2 DEF DeleteSessions
  <2> QED
    BY <2>1, CalmIsDrop DEF BoundTokens
<1> QED
  BY <1>1, <1>2

LEMMA ArriveMaps ==
  ASSUME IInv, NEW r \in Requests, Arrive(r)
  PROVE  Abstract!Next
<1>1. PICK q : /\ Becomes(r, q) /\ q.pc \in Awaits /\ q.row = None
               /\ req[r].pc = "idle" /\ sessions' = sessions /\ revoked' = revoked
  BY DEF Arrive, ArriveToken, ArriveRefresh, ArriveInvalidate, Idle, Awaits, TokenAwaits,
     RefreshAwaits, InvalidateAwaits
<1>2. Calm
  BY <1>1, CalmStep DEF Gave, Renewed, Found, Awaits, TokenAwaits, RefreshAwaits, InvalidateAwaits
<1> QED
  BY <1>1, <1>2, CalmIsDrop DEF BoundTokens

\* The steps of a handler that neither write the table, nor find a row, nor sign.
Quiet(r) ==
  \/ ComputeDuration(r) \/ GetSession(r) \/ ReadSession(r) \/ CheckSession(r)
  \/ CheckNoSession(r) \/ GetPersona(r) \/ CheckExpiry(r) \/ RefreshEntitlements(r)
  \/ FindSession(r)

\* The handler goes on with the row it has, or without one.
Onward(r) == \E q : Becomes(r, q) /\ q.pc \in Awaits /\ q.op = req[r].op /\ q.row = req[r].row

LEMMA OnwardForms ==
  ASSUME NEW r \in Requests, req[r] \in Request, NEW pc \in Awaits, NEW x, NEW d, NEW t,
         \/ Becomes(r, [req[r] EXCEPT !.pc = pc])
         \/ Becomes(r, [req[r] EXCEPT !.pc = pc, !.persona = x])
         \/ Becomes(r, [req[r] EXCEPT !.pc = pc, !.event = x])
         \/ Becomes(r, [req[r] EXCEPT !.pc = pc, !.dur = d, !.at = t, !.auth = t])
         \/ Becomes(r, [req[r] EXCEPT !.pc = pc, !.dur = d, !.at = t, !.sub = x])
  PROVE  Onward(r)
<1> DEFINE Fields(q) == q.pc = pc /\ q.op = req[r].op /\ q.row = req[r].row
<1>1. /\ Fields([req[r] EXCEPT !.pc = pc])
      /\ Fields([req[r] EXCEPT !.pc = pc, !.persona = x])
      /\ Fields([req[r] EXCEPT !.pc = pc, !.event = x])
  BY DEF Request
<1>2. Fields([req[r] EXCEPT !.pc = pc, !.dur = d, !.at = t, !.auth = t])
  BY DEF Request
<1>3. Fields([req[r] EXCEPT !.pc = pc, !.dur = d, !.at = t, !.sub = x])
  BY DEF Request
<1>4. PICK q : Becomes(r, q) /\ Fields(q)
  <2> HIDE DEF Fields
  <2> QED
    BY <1>1, <1>2, <1>3
<1> QED
  BY <1>4 DEF Onward

LEMMA QuietMaps ==
  ASSUME IInv, NEW r \in Requests, Quiet(r)
  PROVE  Abstract!Next
<1>1. sessions' = sessions /\ revoked' = revoked /\ req[r].pc # "done"
  BY DEF Quiet, ComputeDuration, GetSession, ReadSession, CheckSession, CheckNoSession, GetPersona,
     CheckExpiry, RefreshEntitlements, FindSession
<1>2. Answer(r, 500) \/ Answer(r, 404) \/ Onward(r)
  <2>1. req[r] \in Request
    BY DEF IInv, TypeOK
  <2>2. {"getSession", "readSession", "checkSession", "updateSession", "checkNoSession",
         "getPersona", "insertSession", "sign", "expire", "entitle", "deleteSession"} \subseteq Awaits
    BY DEF Awaits, TokenAwaits, RefreshAwaits, InvalidateAwaits
  <2>3. CASE ComputeDuration(r)
    BY <2>1, <2>2, <2>3, OnwardForms DEF ComputeDuration
  <2>4. CASE GetSession(r)
    BY <2>1, <2>2, <2>4, OnwardForms DEF GetSession, Goto
  <2>5. CASE ReadSession(r)
    BY <2>1, <2>2, <2>5, OnwardForms DEF ReadSession, Goto
  <2>6. CASE CheckSession(r)
    BY <2>1, <2>2, <2>6, OnwardForms DEF CheckSession
  <2>7. CASE CheckNoSession(r)
    BY <2>1, <2>2, <2>7, OnwardForms DEF CheckNoSession, Goto
  <2>8. CASE GetPersona(r)
    BY <2>1, <2>2, <2>8, OnwardForms DEF GetPersona
  <2>9. CASE CheckExpiry(r)
    BY <2>1, <2>2, <2>9, OnwardForms DEF CheckExpiry, Goto
  <2>10. CASE RefreshEntitlements(r)
    BY <2>1, <2>2, <2>10, OnwardForms DEF RefreshEntitlements, Goto
  <2>11. CASE FindSession(r)
    BY <2>1, <2>2, <2>11, OnwardForms DEF FindSession
  <2> QED
    BY <2>3, <2>4, <2>5, <2>6, <2>7, <2>8, <2>9, <2>10, <2>11 DEF Quiet
<1>3. Calm
  BY <1>1, <1>2, CalmMove, CalmEnd DEF Onward
<1> QED
  BY <1>1, <1>3, CalmIsDrop DEF BoundTokens

\* An UPDATE keeps the pairs of a token and its persona.
LEMMA UpdateMaps ==
  ASSUME IInv, NEW r \in Requests, UpdateSession(r)
  PROVE  Abstract!Next
<1>1. req[r] \in Request
  BY DEF IInv, TypeOK
<1>2. PICK q : Becomes(r, q) /\ q.pc = "sign" /\ q.op = req[r].op /\ q.row = req[r].row
  BY <1>1 DEF UpdateSession, Goto, Request
<1>3. Calm
  BY <1>2, CalmMove DEF UpdateSession, Awaits, TokenAwaits
<1>4. BoundTokens' = BoundTokens
  <2> DEFINE New(s) == IF s.personakey = req[r].persona
                         THEN NewRow(r, s.personakey, s.event_id) ELSE s
  <2>1. \A s \in sessions : New(s).event_id = s.event_id /\ New(s).personakey = s.personakey
    BY DEF NewRow
  <2>2. sessions' = {New(s) : s \in sessions}
    BY DEF UpdateSession
  <2> HIDE DEF New
  <2> QED
    BY <2>1, <2>2 DEF BoundTokens
<1> QED
  BY <1>3, <1>4, CalmIsDrop DEF UpdateSession

\* The INSERT binds a token that never was, to a persona that has none.
LEMMA InsertMaps ==
  ASSUME IInv, NEW r \in Requests, InsertSession(r)
  PROVE  Abstract!Next
<1>1. req[r] \in Request /\ req[r].pc = "insertSession"
  BY DEF IInv, TypeOK, InsertSession
<1>2. CASE MayInsert(req[r].persona)
  <2>1. PICK q : Becomes(r, q) /\ q.pc = "sign" /\ q.op = req[r].op /\ q.row = req[r].row
    <3>1. PICK q : q = [req[r] EXCEPT !.pc = "sign", !.event = r]
      OBVIOUS
    <3>2. q.pc = "sign" /\ q.op = req[r].op /\ q.row = req[r].row
      BY <1>1, <3>1 DEF Request
    <3> QED
      BY <1>2, <3>1, <3>2 DEF InsertSession
  <2>2. Calm
    BY <1>1, <2>1, CalmMove DEF Awaits, TokenAwaits
  <2>3. BoundTokens' = BoundTokens \cup {<<r, req[r].persona>>}
    <3>1. PICK row : row = NewRow(r, req[r].persona, r)
      OBVIOUS
    <3>2. row.event_id = r /\ row.personakey = req[r].persona
      BY <3>1 DEF NewRow
    <3>3. sessions' = sessions \cup {row}
      BY <1>2, <3>1 DEF InsertSession
    <3> QED
      BY <3>2, <3>3 DEF BoundTokens
  <2>4. CheckedRefreshes' = CheckedRefreshes
    <3>1. req[r].op = "token"
      BY <1>1 DEF IInv, RequestInv, Shape, TokenAwaits, RefreshAwaits
    <3>2. \A x \in CheckedRefreshes : x[1] # r
      BY <3>1 DEF CheckedRefreshes
    <3> QED
      BY <1>1, <2>1, <3>1, <3>2, Effects DEF Found
  <2>5. r \notin revoked /\ \A s \in sessions : s.event_id # r
    BY <1>1 DEF IInv, TableInv, KnownIsInserted, Known
  <2>6. Abstract!Bind(r, req[r].persona)
    BY <1>2, <2>2, <2>3, <2>4, <2>5 DEF Calm, Abstract!Bind, Abstract!Good, BoundTokens, MayInsert, InsertSession
  <2>7. req[r].persona \in PersonaKeys
    BY <1>2 DEF MayInsert, IInv, TypeOK
  <2> QED
    BY <2>6, <2>7 DEF Abstract!Next
<1>3. CASE ~MayInsert(req[r].persona)
  <2>1. Answer(r, 500) /\ sessions' = sessions /\ revoked' = revoked
    BY <1>3 DEF InsertSession
  <2>2. Calm
    BY <1>1, <2>1, CalmEnd
  <2> QED
    BY <2>1, <2>2, CalmIsDrop DEF BoundTokens
<1> QED
  BY <1>2, <1>3

\* A refresh that finds a row checks a token its subject was given.
LEMMA LookupMaps ==
  ASSUME IInv, NEW r \in Requests, Lookup(r)
  PROVE  Abstract!Next
<1>1. /\ req[r] \in Request /\ req[r].pc = "lookup" /\ sessions' = sessions /\ revoked' = revoked
      /\ req[r].op = "refresh" /\ req[r].row = None /\ req[r].event \in HandedOut
  BY DEF IInv, TypeOK, Lookup, RequestInv, Shape, RefreshAwaits, TokenAwaits
<1>2. ASSUME NEW s \in sessions, s.event_id = req[r].event,
             Becomes(r, [req[r] EXCEPT !.pc = "checkExpiry", !.row = s])
      PROVE  Abstract!Next
  <2>1. s \in SessionRow /\ s # None
    BY NoneAssumption DEF IInv, TypeOK
  <2>2. PICK q : Becomes(r, q) /\ q.pc = "checkExpiry" /\ q.op = "refresh" /\ q.row = s
    <3>1. PICK q : q = [req[r] EXCEPT !.pc = "checkExpiry", !.row = s]
      OBVIOUS
    <3>2. q.pc = "checkExpiry" /\ q.op = "refresh" /\ q.row = s
      BY <1>1, <3>1 DEF Request
    <3> QED
      BY <1>2, <3>1, <3>2
  <2>3. /\ HeldTokens' = HeldTokens /\ GrantedRefreshes' = GrantedRefreshes
        /\ CheckedRefreshes' = {x \in CheckedRefreshes : x[1] # r} \cup {<<r, s.idp_token.sub>>}
    BY <1>1, <2>1, <2>2, Effects DEF Gave, Renewed, Found
  <2>4. \A x \in CheckedRefreshes : x[1] # r
    BY <1>1 DEF CheckedRefreshes
  <2> DEFINE subject == SubjectOf[s.personakey]
  <2>5. subject \in Subjects /\ SubOf[subject] = s.idp_token.sub
    BY <2>1, PersonaAssumption DEF SessionRow, IInv, TableInv, SessionHoldsOwnIdpToken
  <2>6. PICK p \in Requests : Granted(p) /\ req[p].event = req[r].event
    BY <1>1 DEF HandedOut, Granted
  <2>7. req[p].subject = subject
    BY <1>2, <2>5, <2>6 DEF IInv, RequestInv, Holding, Names, Granted
  <2>8. <<subject, s.event_id>> \in HeldTokens
    BY <1>2, <2>6, <2>7 DEF HeldTokens
  <2>9. <<s.event_id, s.personakey>> \in BoundTokens
    BY DEF BoundTokens
  <2>10. Abstract!Check(r, subject)
    BY <1>1, <2>3, <2>4, <2>5, <2>8, <2>9 DEF Abstract!Check, BoundTokens
  <2> QED
    BY <2>5, <2>10 DEF Abstract!Next
<1>3. CASE Answer(r, 404)
  <2>1. Calm
    BY <1>1, <1>3, CalmEnd
  <2> QED
    BY <1>1, <2>1, CalmIsDrop DEF BoundTokens
<1> QED
  BY <1>2, <1>3 DEF Lookup

\* Signing gives a login its token, and grants a refresh.
LEMMA SignMaps ==
  ASSUME IInv, NEW r \in Requests, Sign(r)
  PROVE  Abstract!Next
<1>1. /\ req[r] \in Request /\ req[r].pc = "sign" /\ Shape(req[r])
      /\ sessions' = sessions /\ revoked' = revoked
  BY DEF IInv, TypeOK, RequestInv, Sign
<1>2. PICK q : /\ Becomes(r, q) /\ q.pc = "done" /\ q.status = 200 /\ q.op = req[r].op
               /\ q.row = req[r].row /\ q.subject = req[r].subject /\ q.event = req[r].event
               /\ q.sub = req[r].sub
  <2>1. PICK q : q = [req[r] EXCEPT !.pc = "done", !.status = 200,
                                    !.exp = now + req[r].dur, !.signed = now, !.persona = None]
    OBVIOUS
  <2>2. /\ q.pc = "done" /\ q.status = 200 /\ q.op = req[r].op
        /\ q.row = req[r].row /\ q.subject = req[r].subject /\ q.event = req[r].event
               /\ q.sub = req[r].sub
    BY <1>1, <2>1 DEF Request
  <2> QED
    BY <2>1, <2>2 DEF Sign
<1>3. req[r].op \in {"token", "refresh"}
  BY <1>1 DEF Shape, TokenAwaits, RefreshAwaits
<1>4. CASE req[r].op = "token"
  <2>1. req[r].row = None /\ req[r].subject \in Subjects
    BY <1>1, <1>4 DEF Shape
  <2>2. \A x \in CheckedRefreshes : x[1] # r
    BY <1>4 DEF CheckedRefreshes
  <2>3. /\ HeldTokens' = HeldTokens \cup {<<req[r].subject, req[r].event>>}
        /\ GrantedRefreshes' = GrantedRefreshes /\ CheckedRefreshes' = CheckedRefreshes
    <3>1. Gave(q) /\ ~Renewed(q) /\ ~Found(q)
      BY <1>2, <1>4, <2>1 DEF Gave, Renewed, Found
    <3>2. /\ HeldTokens' = HeldTokens \cup (IF Gave(q) THEN {<<q.subject, q.event>>} ELSE {})
          /\ GrantedRefreshes' = GrantedRefreshes \cup (IF Renewed(q) THEN {<<r, q.sub>>} ELSE {})
          /\ CheckedRefreshes' = {x \in CheckedRefreshes : x[1] # r}
                                    \cup (IF Found(q) THEN {<<r, q.row.idp_token.sub>>} ELSE {})
      BY <1>1, <1>2, Effects
    <3> QED
      BY <1>2, <2>2, <3>1, <3>2
  <2>4. Names(req[r].event, req[r].subject)
    BY <1>1, <1>4 DEF IInv, RequestInv, Holding
  <2>5. req[r].event \in Requests
    BY <2>4, KnownType DEF Names, IInv
  <2>6. \/ req[r].event \in revoked
        \/ \E k \in PersonaKeys : <<req[r].event, k>> \in BoundTokens /\ SubjectOf[k] = req[r].subject
    BY <2>4 DEF Names, Known, BoundTokens, IInv, TypeOK, SessionRow
  <2>7. Abstract!Give(req[r].subject, req[r].event)
    BY <1>1, <2>3, <2>6 DEF Abstract!Give, BoundTokens
  <2> QED
    BY <2>1, <2>5, <2>7 DEF Abstract!Next
<1>5. CASE req[r].op = "refresh"
  <2>1. req[r].row # None /\ req[r].sub = req[r].row.idp_token.sub
    BY <1>1, <1>5 DEF Shape
  <2>2. <<r, req[r].sub>> \in CheckedRefreshes
    BY <1>5, <2>1 DEF CheckedRefreshes
  <2>3. \A x \in CheckedRefreshes : x[1] = r => x = <<r, req[r].sub>>
    BY <2>1 DEF CheckedRefreshes
  <2>4. /\ HeldTokens' = HeldTokens
        /\ GrantedRefreshes' = GrantedRefreshes \cup {<<r, req[r].sub>>}
        /\ CheckedRefreshes' = {x \in CheckedRefreshes : x[1] # r} \cup {<<r, req[r].sub>>}
    <3>1. ~Gave(q) /\ Renewed(q) /\ Found(q)
      BY <1>2, <1>5, <2>1 DEF Gave, Renewed, Found
    <3>2. /\ HeldTokens' = HeldTokens \cup (IF Gave(q) THEN {<<q.subject, q.event>>} ELSE {})
          /\ GrantedRefreshes' = GrantedRefreshes \cup (IF Renewed(q) THEN {<<r, q.sub>>} ELSE {})
          /\ CheckedRefreshes' = {x \in CheckedRefreshes : x[1] # r}
                                    \cup (IF Found(q) THEN {<<r, q.row.idp_token.sub>>} ELSE {})
      BY <1>1, <1>2, Effects
    <3> QED
      BY <1>2, <2>1, <3>1, <3>2
  <2>5. CheckedRefreshes' = CheckedRefreshes
    BY <2>2, <2>3, <2>4
  <2>6. Abstract!Grant(<<r, req[r].sub>>)
    BY <1>1, <2>2, <2>4, <2>5 DEF Abstract!Grant, BoundTokens
  <2> QED
    BY <2>2, <2>6 DEF Abstract!Next
<1> QED
  BY <1>3, <1>4, <1>5

LEMMA DeleteStepMaps ==
  ASSUME IInv, NEW r \in Requests, ExpireSession(r) \/ DeleteSession(r)
  PROVE  Abstract!Next
<1>1. CASE ExpireSession(r)
  <2>1. Calm
    BY <1>1, CalmEnd DEF ExpireSession
  <2> QED
    BY <1>1, <2>1, DeleteIsWithdraw DEF ExpireSession
<1>2. CASE DeleteSession(r)
  <2>1. req[r].op = "invalidate" /\ req[r].pc # "done"
    BY <1>2 DEF DeleteSession, IInv, RequestInv, Shape, InvalidateAwaits
  <2>2. Calm
    BY <1>2, <2>1, CalmEnd DEF DeleteSession
  <2> QED
    BY <1>2, <2>2, DeleteIsWithdraw DEF DeleteSession
<1> QED
  BY <1>1, <1>2

LEMMA FailureMaps ==
  ASSUME IInv, NEW r \in Requests, StatementFails(r)
  PROVE  Abstract!Next
<1>1. Answer(r, 500) \/ Answer(r, 404) \/ Becomes(r, Lose(req[r]))
  BY DEF StatementFails
<1>2. req[r].pc # "done" /\ sessions' = sessions /\ revoked' = revoked
  BY DEF StatementFails, Awaits, TokenAwaits, RefreshAwaits, InvalidateAwaits
<1>3. Calm
  BY <1>1, <1>2, CalmEnd
<1> QED
  BY <1>2, <1>3, CalmIsDrop DEF BoundTokens

LEMMA CrashMaps ==
  ASSUME IInv, Crash
  PROVE  Abstract!Next
<1>1. \A p \in Requests : IF req[p].pc \in Awaits THEN req'[p] = Lose(req[p]) ELSE req'[p] = req[p]
  BY DEF Crash
<1>2. \A p \in Requests : req[p].pc \in Awaits =>
        /\ ~Granted(p) /\ ~Refreshed(p)
        /\ req'[p].pc = "unanswered" /\ req'[p].row = None
  BY <1>1, AnsweredFields DEF Granted, Refreshed, IInv, TypeOK, Awaits, TokenAwaits, RefreshAwaits,
     InvalidateAwaits
<1>3. \A p \in Requests : (Granted(p)' <=> Granted(p)) /\ (Refreshed(p)' <=> Refreshed(p))
  BY <1>1, <1>2 DEF Granted, Refreshed
<1>4. \A p \in Requests : Granted(p) \/ Refreshed(p) => req'[p] = req[p]
  BY <1>1, <1>2
<1>5. HeldTokens' = HeldTokens /\ GrantedRefreshes' = GrantedRefreshes
  BY <1>3, <1>4 DEF HeldTokens, GrantedRefreshes
<1>6. CheckedRefreshes' \subseteq CheckedRefreshes
  BY <1>1, <1>2 DEF CheckedRefreshes
<1> QED
  BY <1>5, <1>6, CalmIsDrop DEF Calm, BoundTokens, Crash

LEMMA AroundMaps ==
  ASSUME IInv, Tick \/ \E k \in PersonaKeys : InsertPersona(k) \/ DeletePersona(k)
  PROVE  Abstract!Next
<1>1. req' = req
  BY DEF Tick, InsertPersona, DeletePersona
<1>2. Calm
  BY <1>1 DEF Calm, HeldTokens, GrantedRefreshes, CheckedRefreshes, Granted, Refreshed
<1>3. (sessions' = sessions /\ revoked' = revoked) \/ \E k : DeleteSessions(k)
  BY DEF Tick, InsertPersona, DeletePersona
<1> QED
  BY <1>2, <1>3, CalmIsDrop, DeleteIsWithdraw DEF BoundTokens

-----------------------------------------------------------------------------
(* The refinement. *)

LEMMA InitMaps == ASSUME Init PROVE Abstract!Init
<1>1. \A r \in Requests : ~Granted(r) /\ ~Refreshed(r) /\ req[r].row = None
  BY DEF Init, Idle, Granted, Refreshed
<1> QED
  BY <1>1 DEF Init, Abstract!Init, BoundTokens, HeldTokens, CheckedRefreshes, GrantedRefreshes

LEMMA NextMaps == ASSUME IInv, [Next]_vars PROVE [Abstract!Next]_(Abstract!vars)
<1>1. CASE Next
  BY <1>1, ArriveMaps, QuietMaps, UpdateMaps, InsertMaps, LookupMaps, SignMaps, DeleteStepMaps,
     FailureMaps, CrashMaps, AroundMaps DEF Next, Step, Quiet
<1>2. CASE UNCHANGED vars
  BY <1>2 DEF vars, Abstract!vars, BoundTokens, HeldTokens, CheckedRefreshes, GrantedRefreshes,
     Granted, Refreshed
<1> QED
  BY <1>1, <1>2

\* The session endpoints, interleaved statement by statement, with failures, crashes and
\* persona administration, keep the promise about refresh tokens that RefreshTokens states.
THEOREM Refinement == Spec => ImplementsRefreshTokens
<1>1. Init => Abstract!Init
  BY InitMaps
<1>2. IInv /\ [Next]_vars => [Abstract!Next]_(Abstract!vars)
  BY NextMaps
<1> QED
  BY <1>1, <1>2, Inductive, PTL DEF Spec, Abstract!Spec, ImplementsRefreshTokens
=============================================================================
