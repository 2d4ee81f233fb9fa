--------------------------- MODULE SessionsProofs ---------------------------
(* Machine-checked proofs about Sessions, for every value of its constants. *)
EXTENDS Sessions, TLAPS

-----------------------------------------------------------------------------
(* Typing of what a step writes. *)

\* A freshly received request is well typed.
LEMMA IdleType == Idle \in Request
  BY DEF Idle, Request, Ops

\* So is a request whose locals are gone.
LEMMA EndedType ==
  ASSUME NEW q \in Request
  PROVE  Ended(q) \in Request
<1>1. \A k \in PersonaKeys \cup {None}, w \in SessionRow \cup {None}, a \in Nat, d \in Int, t \in Nat :
        [q EXCEPT !.persona = k, !.row = w, !.auth = a, !.dur = d, !.at = t] \in Request
  BY DEF Request
<1>2. 0 \in Nat /\ 0 \in Int /\ None \in PersonaKeys \cup {None} /\ None \in SessionRow \cup {None}
  OBVIOUS
<1>3. QED
  BY <1>1, <1>2, Zenon DEF Ended

\* The entry of a request that ended, answered with a status or not at all.
Answered(q, status) == [Ended(q) EXCEPT !.pc = "done", !.status = status]

LEMMA AnsweredType ==
  ASSUME NEW q \in Request, NEW status \in Nat
  PROVE  Answered(q, status) \in Request /\ Lose(q) \in Request
<1>1. \A p \in Request : [p EXCEPT !.pc = "done", !.status = status] \in Request
  BY DEF Request
<1>2. \A p \in Request : [p EXCEPT !.pc = "unanswered"] \in Request
  BY DEF Request
<1>3. QED
  BY <1>1, <1>2, EndedType, Zenon DEF Answered, Lose

LEMMA AnsweredFields ==
  ASSUME NEW q \in Request, NEW status \in Nat
  PROVE  LET a == Answered(q, status)
             l == Lose(q)
         IN /\ a.pc = "done" /\ a.status = status /\ a.row = None /\ a.persona = None
            /\ a.op = q.op /\ a.subject = q.subject /\ a.event = q.event /\ a.dead = q.dead
            /\ l.pc = "unanswered" /\ l.status = q.status /\ l.row = None /\ l.persona = None
            /\ l.op = q.op /\ l.subject = q.subject /\ l.event = q.event /\ l.dead = q.dead
  BY DEF Answered, Lose, Ended, Request

\* A row written by a login is a row of the table.
LEMMA NewRowType ==
  ASSUME TypeOK, NEW r \in Requests, req[r].subject \in Subjects,
         NEW k \in PersonaKeys, NEW event \in Requests
  PROVE  NewRow(r, k, event) \in SessionRow
<1>1. SubOf[req[r].subject] \in Subs
  BY PersonaAssumption
<1> QED
  BY <1>1 DEF TypeOK, NewRow, SessionRow, IdpToken, Request

-----------------------------------------------------------------------------
(* Two kinds of steps.  A local step changes one request and no table; a table *)
(* step adds, rewrites or deletes rows.                                        *)

\* What a local step must show of the new entry of req.
Fit(r, q) ==
  /\ q \in Request
  /\ Shape(q)
  /\ Holding(q) => Names(q.event, q.subject)
  /\ q.op = "refresh" => q.event \in HandedOut
  /\ q.dead => q.event \in revoked
  /\ r \in Known => q.op = "token" /\ q.pc \in {"sign", "done", "unanswered"}

\* The refresh tokens of clients are known, and stay handed out: a step changes
\* no request that has been answered.
LEMMA HandedOutGrows ==
  ASSUME IInv, NEW r \in Requests, req[r].pc # "done", NEW q, Becomes(r, q)
  PROVE  HandedOut \subseteq HandedOut'
<1>1. \A p \in Requests : req[p].pc = "done" => req'[p] = req[p]
  BY DEF IInv, TypeOK, Becomes
<1>2. QED
  BY <1>1 DEF HandedOut

LEMMA KnownType ==
  ASSUME TypeOK
  PROVE  Known \subseteq Requests
  BY DEF TypeOK, Known, SessionRow

LEMMA LocalStep ==
  ASSUME IInv, NEW r \in Requests, req[r].pc # "done", NEW q, Fit(r, q),
         Becomes(r, q), UNCHANGED <<personas, spentKeys, sessions, revoked>>,
         now' \in Nat, faults' \in Nat
  PROVE  IInv'
<1>1. req' \in [Requests -> Request] /\ \A p \in Requests : req'[p] = IF p = r THEN q ELSE req[p]
  BY DEF IInv, TypeOK, Becomes, Fit
<1>2. TypeOK'
  BY <1>1 DEF IInv, TypeOK
<1>3. Known' = Known
  BY DEF Known
<1>4. TableInv'
  <2>1. \A p \in Known : req'[p].op = "token" /\ req'[p].pc \in {"sign", "done", "unanswered"}
    BY <1>1, KnownType DEF IInv, TableInv, KnownIsInserted, Fit
  <2>2. KnownIsInserted'
    BY <1>3, <2>1 DEF KnownIsInserted
  <2>3. QED
    BY <2>2 DEF IInv, TableInv, OneSessionPerPersona, EventIdsIdentify,
         SessionsHavePersonas, SessionHoldsOwnIdpToken, NoRevokedRow
<1>5. RequestInv'
  <2>1. HandedOut \subseteq HandedOut'
    BY HandedOutGrows
  <2> SUFFICES ASSUME NEW p \in Requests
      PROVE ( /\ Shape(req[p])
              /\ Holding(req[p]) => Names(req[p].event, req[p].subject)
              /\ req[p].op = "refresh" => req[p].event \in HandedOut
              /\ req[p].dead => req[p].event \in revoked )'
    BY DEF RequestInv
  <2>2. PICK x : /\ x = req'[p]
                 /\ Shape(x) /\ (Holding(x) => Names(x.event, x.subject))
                 /\ x.op = "refresh" => x.event \in HandedOut
                 /\ x.dead => x.event \in revoked
    BY <1>1 DEF Fit, IInv, RequestInv
  <2>3. QED
    BY <1>3, <2>1, <2>2 DEF Names
<1>6. QED
  BY <1>2, <1>4, <1>5 DEF IInv

\* A handler that ends without an access token fits, whatever it had done.
LEMMA EndFits ==
  ASSUME IInv, NEW r \in Requests, req[r].pc \in Awaits, NEW status \in Nat,
         status = 200 => req[r].op = "invalidate"
  PROVE  Fit(r, Answered(req[r], status)) /\ Fit(r, Lose(req[r]))
<1>1. req[r] \in Request /\ req[r].pc # "done" /\ req[r].pc # "unanswered"
  BY DEF IInv, TypeOK, Awaits, TokenAwaits, RefreshAwaits, InvalidateAwaits
<1>2. Shape(req[r]) /\ (req[r].op = "refresh" => req[r].event \in HandedOut)
        /\ (req[r].dead => req[r].event \in revoked)
        /\ (r \in Known => req[r].op = "token")
  BY DEF IInv, RequestInv, TableInv, KnownIsInserted
<1>3. req[r].status # 200
  BY <1>1, <1>2 DEF Shape
<1>4. Shape(Answered(req[r], status)) /\ Shape(Lose(req[r]))
  BY <1>1, <1>2, <1>3, AnsweredFields DEF Shape, Awaits, TokenAwaits, RefreshAwaits, InvalidateAwaits
<1>5. QED
  BY <1>1, <1>2, <1>3, <1>4, AnsweredFields, AnsweredType DEF Fit, Holding

\* A handler that moves on to another await, with what it read.
Moved(q, pc, k, e, w) == [q EXCEPT !.pc = pc, !.persona = k, !.event = e, !.row = w]

LEMMA MovedFields ==
  ASSUME NEW q \in Request, NEW pc \in Awaits, NEW k \in PersonaKeys \cup {None},
         NEW e \in Requests \cup {None}, NEW w \in SessionRow \cup {None}
  PROVE  /\ Moved(q, pc, k, e, w) \in Request
         /\ Moved(q, pc, k, e, w).pc = pc
         /\ Moved(q, pc, k, e, w).persona = k
         /\ Moved(q, pc, k, e, w).event = e
         /\ Moved(q, pc, k, e, w).row = w
         /\ Moved(q, pc, k, e, w).op = q.op
         /\ Moved(q, pc, k, e, w).subject = q.subject
         /\ Moved(q, pc, k, e, w).status = q.status
         /\ Moved(q, pc, k, e, w).dead = q.dead
<1>1. \A x \in Awaits \cup {"idle", "done", "unanswered"}, y \in PersonaKeys \cup {None} :
        [q EXCEPT !.pc = x, !.persona = y] \in Request
  BY DEF Request
<1>2. \A p \in Request, y \in Requests \cup {None}, z \in SessionRow \cup {None} :
        [p EXCEPT !.event = y, !.row = z] \in Request
  BY DEF Request
<1>3. PICK p \in Request : p = [q EXCEPT !.pc = pc, !.persona = k]
  BY <1>1
<1>4. Moved(q, pc, k, e, w) = [p EXCEPT !.event = e, !.row = w]
  BY <1>3 DEF Moved
<1>5. [p EXCEPT !.event = e, !.row = w] \in Request
  BY <1>2, Zenon
<1> QED
  BY <1>4, <1>5, SMTT(60) DEF Moved, Request

LEMMA MovedForms ==
  ASSUME NEW q \in Request, NEW pc, NEW x
  PROVE  /\ [q EXCEPT !.pc = pc] = Moved(q, pc, q.persona, q.event, q.row)
         /\ [q EXCEPT !.pc = pc, !.persona = x] = Moved(q, pc, x, q.event, q.row)
         /\ [q EXCEPT !.pc = pc, !.event = x] = Moved(q, pc, q.persona, x, q.row)
         /\ [q EXCEPT !.pc = pc, !.row = x] = Moved(q, pc, q.persona, q.event, x)
  BY DEF Moved, Request

LEMMA MoveStep ==
  ASSUME IInv, NEW r \in Requests, NEW pc \in Awaits, NEW k \in PersonaKeys \cup {None},
         NEW e \in Requests \cup {None}, NEW w \in SessionRow \cup {None},
         req[r].pc \in Awaits, Becomes(r, Moved(req[r], pc, k, e, w)),
         UNCHANGED <<now, personas, spentKeys, sessions, revoked, faults>>,
         Shape(Moved(req[r], pc, k, e, w)),
         Holding(Moved(req[r], pc, k, e, w)) => Names(e, req[r].subject),
         req[r].op = "refresh" => e = req[r].event,
         r \in Known => pc = "sign"
  PROVE  IInv'
<1> DEFINE m == Moved(req[r], pc, k, e, w)
<1>1. req[r] \in Request /\ now \in Nat /\ faults \in Nat
  BY DEF IInv, TypeOK
<1>2. /\ m \in Request
      /\ m.pc = pc /\ m.persona = k /\ m.event = e /\ m.row = w
      /\ m.op = req[r].op /\ m.subject = req[r].subject /\ m.dead = req[r].dead
  BY <1>1, MovedFields, SMTT(60)
<1>3. req[r].op = "refresh" => req[r].event \in HandedOut
  BY DEF IInv, RequestInv
<1>4. req[r].dead => req[r].event \in revoked /\ req[r].op = "refresh"
  BY DEF IInv, RequestInv, Shape
<1>5. r \in Known => req[r].op = "token"
  BY DEF IInv, TableInv, KnownIsInserted
<1>6. Fit(r, m)
  BY <1>2, <1>3, <1>4, <1>5 DEF Fit
<1>7. req[r].pc # "done"
  BY DEF Awaits, TokenAwaits, RefreshAwaits, InvalidateAwaits
<1>8. QED
  BY <1>1, <1>6, <1>7, LocalStep

\* What the induction hypothesis says of a request at an await.
LEMMA AtAwait ==
  ASSUME IInv, NEW r \in Requests, req[r].pc \in Awaits
  PROVE  /\ req[r] \in Request /\ Shape(req[r])
         /\ req[r].pc # "sign" => r \notin Known
         /\ Holding(req[r]) => Names(req[r].event, req[r].subject)
  BY DEF IInv, TypeOK, TableInv, KnownIsInserted, RequestInv, Awaits, TokenAwaits,
     RefreshAwaits, InvalidateAwaits

\* A login that moves on keeps its shape if the persona it holds is its subject's.
LEMMA LoginShape ==
  ASSUME NEW q \in Request, Shape(q), q.pc \in TokenAwaits \ RefreshAwaits,
         NEW pc \in TokenAwaits, NEW k \in PersonaKeys \cup {None}, NEW e \in Requests \cup {None},
         k = None \/ SubjectOf[k] = q.subject
  PROVE  /\ Shape(Moved(q, pc, k, e, q.row)) /\ Moved(q, pc, k, e, q.row).pc = pc
         /\ q.op = "token" /\ q.subject \in Subjects /\ ~q.dead
<1>1. q.op = "token" /\ q.row = None /\ ~q.dead /\ q.status # 200 /\ q.subject \in Subjects
  BY DEF Shape, Request, TokenAwaits, RefreshAwaits
<1>2. pc \in Awaits
  BY DEF Awaits
<1>3. PICK m : m = Moved(q, pc, k, e, q.row)
  OBVIOUS
<1>4. q.row \in SessionRow \cup {None}
  BY DEF Request
<1>5. /\ m.pc = pc /\ m.persona = k /\ m.op = "token" /\ m.row = None
      /\ m.subject = q.subject /\ m.status = q.status /\ m.dead = q.dead
  BY <1>1, <1>2, <1>3, <1>4, MovedFields, SMTT(60)
<1>6. Shape(m)
  BY <1>1, <1>5, SMTT(60) DEF Shape, TokenAwaits, RefreshAwaits, InvalidateAwaits
<1>7. QED
  BY <1>1, <1>3, <1>5, <1>6

LEMMA LoginMove ==
  ASSUME IInv, NEW r \in Requests, req[r].pc \in TokenAwaits \ RefreshAwaits,
         NEW pc \in TokenAwaits, NEW k \in PersonaKeys \cup {None}, NEW e \in Requests \cup {None},
         Becomes(r, Moved(req[r], pc, k, e, req[r].row)),
         UNCHANGED <<now, personas, spentKeys, sessions, revoked, faults>>,
         k = None \/ SubjectOf[k] = req[r].subject,
         pc \in {"checkSession", "updateSession", "sign"} => Names(e, req[r].subject)
  PROVE  IInv'
<1>1. req[r].pc \in Awaits /\ pc \in Awaits /\ req[r].pc # "sign" /\ pc # "done"
  BY DEF Awaits, TokenAwaits, RefreshAwaits
<1>2. /\ req[r] \in Request /\ Shape(req[r]) /\ r \notin Known
  BY <1>1, AtAwait
<1>3. /\ Shape(Moved(req[r], pc, k, e, req[r].row))
      /\ Moved(req[r], pc, k, e, req[r].row).pc = pc
      /\ req[r].op = "token"
  BY <1>2, LoginShape
<1>4. req[r].row \in SessionRow \cup {None}
  BY <1>2 DEF Request
<1>5. Holding(Moved(req[r], pc, k, e, req[r].row)) => Names(e, req[r].subject)
  BY <1>1, <1>3 DEF Holding
<1>6. QED
  BY <1>1, <1>2, <1>3, <1>4, <1>5, MoveStep

\* The persona key of a session found for a subject is the subject's.
LEMMA FoundPersona ==
  ASSUME IInv, NEW subject, NEW s \in SessionsOfSubject(subject)
  PROVE  s \in sessions /\ s.personakey \in PersonaKeys /\ SubjectOf[s.personakey] = subject
  BY DEF IInv, TypeOK, SessionsOfSubject, SessionRow

\* What is known of a login at one of its own awaits.
LEMMA AtLogin ==
  ASSUME IInv, NEW r \in Requests, req[r].pc \in TokenAwaits \ RefreshAwaits
  PROVE  /\ req[r].pc \in Awaits
         /\ req[r] \in Request /\ Shape(req[r])
         /\ req[r].op = "token"
         /\ req[r].event \in Requests \cup {None}
         /\ req[r].persona \in PersonaKeys \cup {None}
         /\ req[r].persona = None \/ SubjectOf[req[r].persona] = req[r].subject
<1>1. req[r].pc \in Awaits
  BY DEF Awaits
<1>2. req[r] \in Request /\ Shape(req[r])
  BY <1>1, AtAwait
<1>3. req[r].op = "token" /\ (req[r].persona = None \/ SubjectOf[req[r].persona] = req[r].subject)
  BY <1>2 DEF Shape
<1>4. req[r].event \in Requests \cup {None} /\ req[r].persona \in PersonaKeys \cup {None}
  BY <1>2 DEF Request
<1>5. QED
  BY <1>1, <1>2, <1>3, <1>4

LEMMA EndStep ==
  ASSUME IInv, NEW r \in Requests, req[r].pc \in Awaits, NEW status \in Nat,
         status = 200 => req[r].op = "invalidate",
         Becomes(r, Answered(req[r], status)) \/ Becomes(r, Lose(req[r])),
         UNCHANGED <<personas, spentKeys, sessions, revoked>>,
         now' \in Nat, faults' \in Nat
  PROVE  IInv'
<1>1. Fit(r, Answered(req[r], status)) /\ Fit(r, Lose(req[r]))
  BY EndFits
<1>2. req[r].pc # "done"
  BY DEF Awaits, TokenAwaits, RefreshAwaits, InvalidateAwaits
<1>3. QED
  BY <1>1, <1>2, LocalStep

LEMMA AnswerForm ==
  ASSUME NEW r \in Requests, NEW status \in Nat, Answer(r, status)
  PROVE  Becomes(r, Answered(req[r], status))
  BY DEF Answer, Answered

LEMMA UnchangedTypes ==
  ASSUME IInv, UNCHANGED <<now, personas, spentKeys, sessions, revoked, faults>>
  PROVE  now' \in Nat /\ faults' \in Nat /\ UNCHANGED <<personas, spentKeys, sessions, revoked>>
  BY DEF IInv, TypeOK

-----------------------------------------------------------------------------
(* One lemma per action. *)

LEMMA GetSessionStep == ASSUME IInv, NEW r \in Requests, GetSession(r) PROVE IInv'
<1>1. req[r].pc \in TokenAwaits \ RefreshAwaits
        /\ {"checkNoSession", "readSession"} \subseteq TokenAwaits
  BY DEF GetSession, TokenAwaits, RefreshAwaits
<1>2. UNCHANGED <<now, personas, spentKeys, sessions, revoked, faults>>
  BY DEF GetSession
<1>3. CASE SessionsOfSubject(req[r].subject) = {}
  <2>1. Becomes(r, Moved(req[r], "checkNoSession", req[r].persona, req[r].event, req[r].row))
    BY <1>1, <1>3, AtLogin, MovedForms DEF GetSession, Goto
  <2>2. QED
    BY <1>1, <1>2, <2>1, AtLogin, LoginMove
<1>4. CASE SessionsOfSubject(req[r].subject) # {}
  <2>1. PICK s \in SessionsOfSubject(req[r].subject) :
          Becomes(r, [req[r] EXCEPT !.pc = "readSession", !.persona = s.personakey])
    BY <1>4 DEF GetSession
  <2>2. Becomes(r, Moved(req[r], "readSession", s.personakey, req[r].event, req[r].row))
    BY <1>1, <2>1, AtLogin, MovedForms
  <2>3. s.personakey \in PersonaKeys \cup {None} /\ SubjectOf[s.personakey] = req[r].subject
    BY FoundPersona
  <2>4. QED
    BY <1>1, <1>2, <2>2, <2>3, AtLogin, LoginMove
<1>5. QED
  BY <1>3, <1>4

LEMMA ReadSessionStep == ASSUME IInv, NEW r \in Requests, ReadSession(r) PROVE IInv'
<1>1. req[r].pc \in TokenAwaits \ RefreshAwaits
        /\ {"checkNoSession", "checkSession"} \subseteq TokenAwaits
  BY DEF ReadSession, TokenAwaits, RefreshAwaits
<1>2. UNCHANGED <<now, personas, spentKeys, sessions, revoked, faults>>
  BY DEF ReadSession
<1>3. CASE Goto(r, "checkNoSession")
  <2>1. Becomes(r, Moved(req[r], "checkNoSession", req[r].persona, req[r].event, req[r].row))
    BY <1>1, <1>3, AtLogin, MovedForms DEF Goto
  <2>2. QED
    BY <1>1, <1>2, <2>1, AtLogin, LoginMove
<1>4. ASSUME NEW s \in sessions, s.personakey = req[r].persona,
             Becomes(r, [req[r] EXCEPT !.pc = "checkSession", !.event = s.event_id])
      PROVE  IInv'
  <2>1. Becomes(r, Moved(req[r], "checkSession", req[r].persona, s.event_id, req[r].row))
    BY <1>1, <1>4, AtLogin, MovedForms
  <2>2. s \in SessionRow /\ s.event_id \in Requests \cup {None} /\ s.personakey \in PersonaKeys
    BY DEF IInv, TypeOK, SessionRow
  <2>3. SubjectOf[s.personakey] = req[r].subject
    BY <1>1, <1>4, <2>2, AtLogin, NoneAssumption
  <2>4. Names(s.event_id, req[r].subject)
    BY <2>3 DEF Names, Known, IInv, TableInv, EventIdsIdentify
  <2>5. QED
    BY <1>1, <1>2, <2>1, <2>2, <2>4, AtLogin, LoginMove
<1>5. QED
  BY <1>3, <1>4 DEF ReadSession

LEMMA CheckSessionStep == ASSUME IInv, NEW r \in Requests, CheckSession(r) PROVE IInv'
<1>1. req[r].pc \in TokenAwaits \ RefreshAwaits /\ "updateSession" \in TokenAwaits
        /\ req[r].pc = "checkSession"
  BY DEF CheckSession, TokenAwaits, RefreshAwaits
<1>2. UNCHANGED <<now, personas, spentKeys, sessions, revoked, faults>>
  BY DEF CheckSession
<1>3. CASE SessionsOfSubject(req[r].subject) = {}
  <2>1. Becomes(r, Answered(req[r], 500))
    BY <1>3, AnswerForm DEF CheckSession
  <2>2. QED
    BY <1>1, <1>2, <2>1, AtLogin, EndStep, UnchangedTypes
<1>4. CASE SessionsOfSubject(req[r].subject) # {}
  <2>1. PICK s \in SessionsOfSubject(req[r].subject) :
          Becomes(r, [req[r] EXCEPT !.pc = "updateSession", !.persona = s.personakey])
    BY <1>4 DEF CheckSession
  <2>2. Becomes(r, Moved(req[r], "updateSession", s.personakey, req[r].event, req[r].row))
    BY <1>1, <2>1, AtLogin, MovedForms
  <2>3. s.personakey \in PersonaKeys \cup {None} /\ SubjectOf[s.personakey] = req[r].subject
    BY FoundPersona
  <2>4. Names(req[r].event, req[r].subject)
    BY <1>1, AtLogin, AtAwait DEF Holding
  <2>5. QED
    BY <1>1, <1>2, <2>2, <2>3, <2>4, AtLogin, LoginMove
<1>5. QED
  BY <1>3, <1>4

LEMMA CheckNoSessionStep == ASSUME IInv, NEW r \in Requests, CheckNoSession(r) PROVE IInv'
<1>1. req[r].pc \in TokenAwaits \ RefreshAwaits /\ "getPersona" \in TokenAwaits
  BY DEF CheckNoSession, TokenAwaits, RefreshAwaits
<1>2. UNCHANGED <<now, personas, spentKeys, sessions, revoked, faults>>
  BY DEF CheckNoSession
<1>3. CASE Answer(r, 500)
  <2>1. Becomes(r, Answered(req[r], 500))
    BY <1>3, AnswerForm
  <2>2. QED
    BY <1>1, <1>2, <2>1, AtLogin, EndStep, UnchangedTypes
<1>4. CASE Goto(r, "getPersona")
  <2>1. Becomes(r, Moved(req[r], "getPersona", req[r].persona, req[r].event, req[r].row))
    BY <1>1, <1>4, AtLogin, MovedForms DEF Goto
  <2>2. QED
    BY <1>1, <1>2, <2>1, AtLogin, LoginMove
<1>5. QED
  BY <1>3, <1>4 DEF CheckNoSession

LEMMA GetPersonaStep == ASSUME IInv, NEW r \in Requests, GetPersona(r) PROVE IInv'
<1>1. req[r].pc \in TokenAwaits \ RefreshAwaits /\ "insertSession" \in TokenAwaits
  BY DEF GetPersona, TokenAwaits, RefreshAwaits
<1>2. UNCHANGED <<now, personas, spentKeys, sessions, revoked, faults>>
  BY DEF GetPersona
<1>3. PICK k \in PersonaKeys \cup {None} :
        /\ k = None \/ SubjectOf[k] = req[r].subject
        /\ Becomes(r, [req[r] EXCEPT !.pc = "insertSession", !.persona = k])
  BY DEF GetPersona, PersonasOfSubject, IInv, TypeOK
<1>4. Becomes(r, Moved(req[r], "insertSession", k, req[r].event, req[r].row))
  BY <1>1, <1>3, AtLogin, MovedForms
<1>5. QED
  BY <1>1, <1>2, <1>3, <1>4, AtLogin, LoginMove

LEMMA ComputeDurationStep == ASSUME IInv, NEW r \in Requests, ComputeDuration(r) PROVE IInv'
<1> DEFINE left == Lesser(TokenLifetime, req[r].idpExp - now)
           q == [req[r] EXCEPT !.pc = "getSession", !.dur = left, !.at = now, !.auth = now]
<1>1. req[r].pc \in Awaits /\ req[r].pc = "entitle" /\ req[r].op = "token" /\ "getSession" \in Awaits
  BY DEF ComputeDuration, Awaits, TokenAwaits
<1>2. req[r] \in Request /\ Shape(req[r]) /\ r \notin Known
  BY <1>1, AtAwait
<1>3. now \in Nat /\ left \in Int
  BY <1>2, TimeAssumption DEF IInv, TypeOK, Lesser, Request
<1>4. /\ q.pc = "getSession" /\ q.op = "token" /\ q.subject = req[r].subject
      /\ q.persona = req[r].persona /\ q.row = req[r].row
      /\ q.status = req[r].status /\ q.dead = req[r].dead
  BY <1>1, <1>2 DEF Request
<1>5. q \in Request
  <2>1. \A pc \in Awaits, d \in Int, t \in Nat :
          [req[r] EXCEPT !.pc = pc, !.dur = d, !.at = t, !.auth = t] \in Request
    BY <1>2 DEF Request
  <2>2. QED
    BY <1>1, <1>3, <2>1
<1>6. Shape(q)
  BY <1>1, <1>2, <1>4 DEF Shape, TokenAwaits, RefreshAwaits, InvalidateAwaits
<1>7. ~q.dead /\ ~Holding(q)
  BY <1>4, <1>6 DEF Shape, Holding
<1>8. Fit(r, q)
  BY <1>2, <1>4, <1>5, <1>6, <1>7 DEF Fit
<1>9. QED
  BY <1>1, <1>8, LocalStep, UnchangedTypes DEF ComputeDuration

LEMMA LookupStep == ASSUME IInv, NEW r \in Requests, Lookup(r) PROVE IInv'
<1>1. /\ req[r].pc \in Awaits /\ req[r].pc = "lookup" /\ "checkExpiry" \in Awaits
      /\ req[r].pc \in RefreshAwaits \ TokenAwaits
  BY DEF Lookup, Awaits, RefreshAwaits, TokenAwaits
<1>2. /\ req[r] \in Request /\ Shape(req[r]) /\ r \notin Known /\ req[r].op = "refresh"
  BY <1>1, AtAwait DEF Shape
<1>3. UNCHANGED <<now, personas, spentKeys, sessions, revoked, faults>>
  BY DEF Lookup
<1>4. CASE Answer(r, 404)
  BY <1>1, <1>3, <1>4, AnswerForm, EndStep, UnchangedTypes
<1>5. ASSUME NEW s \in sessions, s.event_id = req[r].event,
             Becomes(r, [req[r] EXCEPT !.pc = "checkExpiry", !.row = s])
      PROVE  IInv'
  <2> DEFINE m == Moved(req[r], "checkExpiry", req[r].persona, req[r].event, s)
  <2>1. Becomes(r, m)
    <3>1. [req[r] EXCEPT !.pc = "checkExpiry", !.row = s] = m
      BY <1>2 DEF Moved, Request
    <3>2. QED
      BY <1>5, <3>1
  <2>2. s \in SessionRow /\ s.idp_token.sub = SubOf[SubjectOf[s.personakey]] /\ s.event_id \notin revoked
    BY DEF IInv, TypeOK, TableInv, SessionHoldsOwnIdpToken, NoRevokedRow
  <2>3. ~req[r].dead
    BY <1>5, <2>2 DEF IInv, RequestInv
  <2>4. req[r].persona \in PersonaKeys \cup {None} /\ req[r].event \in Requests \cup {None}
    BY <1>2 DEF Request
  <2>5. /\ m.pc = "checkExpiry" /\ m.event = req[r].event /\ m.row = s
        /\ m.op = "refresh" /\ m.status = req[r].status /\ m.dead = req[r].dead
    BY <1>2 DEF Moved, Request
  <2>6. s # None
    BY <2>2, NoneAssumption
  <2>7. Shape(m)
    BY <1>1, <1>2, <1>5, <2>2, <2>3, <2>5, <2>6 DEF Shape, TokenAwaits, RefreshAwaits, InvalidateAwaits
  <2>8. ~Holding(m)
    BY <2>5 DEF Holding
  <2>9. QED
    BY <1>1, <1>2, <1>3, <2>1, <2>2, <2>4, <2>7, <2>8, MoveStep
<1>6. QED
  BY <1>4, <1>5 DEF Lookup

LEMMA CheckExpiryStep == ASSUME IInv, NEW r \in Requests, CheckExpiry(r) PROVE IInv'
<1> DEFINE left == SessionLifetimeExpiry(req[r].row)
<1>1. /\ req[r].pc \in Awaits /\ req[r].pc = "checkExpiry" /\ {"expire", "entitle"} \subseteq Awaits
      /\ req[r].pc \in RefreshAwaits \ TokenAwaits
  BY DEF CheckExpiry, Awaits, RefreshAwaits, TokenAwaits
<1>2. /\ req[r] \in Request /\ Shape(req[r]) /\ r \notin Known /\ req[r].op = "refresh"
      /\ now \in Nat
  BY <1>1, AtAwait DEF Shape, IInv, TypeOK
<1>3. /\ req[r].row \in SessionRow /\ req[r].row # None
      /\ req[r].row.idp_token.sub \in Subs /\ req[r].row.idp_expirationtime \in Int
  BY <1>1, <1>2 DEF Shape, Request, SessionRow, IdpToken
<1>4. UNCHANGED <<now, personas, spentKeys, sessions, revoked, faults>>
  BY DEF CheckExpiry
<1>5. /\ req[r].event \in HandedOut /\ ~req[r].dead
  BY <1>1, <1>2 DEF IInv, RequestInv, Shape
<1>6. CASE Goto(r, "expire")
  <2> DEFINE q == [req[r] EXCEPT !.pc = "expire"]
  <2>1. /\ q \in Request
        /\ q.pc = "expire" /\ q.op = "refresh" /\ q.subject = req[r].subject /\ q.persona = req[r].persona
        /\ q.row = req[r].row /\ q.event = req[r].event /\ q.status = req[r].status /\ q.dead = req[r].dead
    BY <1>1, <1>2 DEF Request
  <2>2. Shape(q)
    BY <1>1, <1>2, <1>3, <1>5, <2>1 DEF Shape, TokenAwaits, RefreshAwaits, InvalidateAwaits
  <2>3. Fit(r, q)
    BY <1>2, <1>5, <2>1, <2>2 DEF Fit, Holding
  <2>4. QED
    BY <1>1, <1>4, <1>6, <2>3, LocalStep, UnchangedTypes DEF Goto
<1>7. CASE Becomes(r, [req[r] EXCEPT !.pc = "entitle",
                       !.dur = Lesser(TokenLifetime, left), !.at = now,
                       !.sub = req[r].row.idp_token.sub])
  <2> DEFINE dur == Lesser(TokenLifetime, left)
             sub == req[r].row.idp_token.sub
             q == [req[r] EXCEPT !.pc = "entitle", !.dur = dur, !.at = now, !.sub = sub]
  <2>1. dur \in Int
    BY <1>2, <1>3, TimeAssumption DEF Lesser, SessionLifetimeExpiry, ReadBack
  <2>2. q \in Request
    <3>1. \A d \in Int, t \in Nat, u \in Subs :
            [req[r] EXCEPT !.pc = "entitle", !.dur = d, !.at = t, !.sub = u] \in Request
      BY <1>1, <1>2 DEF Request
    <3>2. QED
      BY <1>2, <1>3, <2>1, <3>1
  <2>3. /\ q.pc = "entitle" /\ q.op = "refresh" /\ q.sub = sub /\ q.persona = req[r].persona
        /\ q.row = req[r].row /\ q.event = req[r].event /\ q.status = req[r].status /\ q.dead = req[r].dead
    BY <1>2 DEF Request
  <2>4. Shape(q)
    BY <1>1, <1>2, <1>3, <1>5, <2>3 DEF Shape, TokenAwaits, RefreshAwaits, InvalidateAwaits
  <2>5. Fit(r, q)
    BY <1>2, <1>5, <2>2, <2>3, <2>4 DEF Fit, Holding
  <2>6. QED
    BY <1>1, <1>4, <1>7, <2>5, LocalStep, UnchangedTypes
<1>8. QED
  BY <1>6, <1>7 DEF CheckExpiry

LEMMA RefreshEntitlementsStep == ASSUME IInv, NEW r \in Requests, RefreshEntitlements(r) PROVE IInv'
<1> DEFINE q == [req[r] EXCEPT !.pc = "sign"]
<1>1. req[r].pc \in Awaits /\ req[r].pc = "entitle" /\ req[r].op = "refresh" /\ "sign" \in Awaits
  BY DEF RefreshEntitlements, Awaits, RefreshAwaits
<1>2. req[r] \in Request /\ Shape(req[r]) /\ r \notin Known
  BY <1>1, AtAwait
<1>3. /\ q \in Request
      /\ q.pc = "sign" /\ q.op = "refresh" /\ q.sub = req[r].sub /\ q.persona = req[r].persona
      /\ q.row = req[r].row /\ q.event = req[r].event /\ q.status = req[r].status /\ q.dead = req[r].dead
  BY <1>1, <1>2 DEF Request
<1>4. req[r].event \in HandedOut /\ ~req[r].dead
  BY <1>1, <1>2 DEF IInv, RequestInv, Shape
<1>5. Shape(q)
  BY <1>1, <1>2, <1>3, <1>4 DEF Shape, TokenAwaits, RefreshAwaits, InvalidateAwaits
<1>6. Fit(r, q)
  BY <1>2, <1>3, <1>4, <1>5 DEF Fit, Holding
<1>7. QED
  BY <1>1, <1>6, LocalStep, UnchangedTypes DEF RefreshEntitlements, Goto

LEMMA SignStep == ASSUME IInv, NEW r \in Requests, Sign(r) PROVE IInv'
<1> DEFINE q == [req[r] EXCEPT !.pc = "done", !.status = 200,
                               !.exp = now + req[r].dur, !.signed = now, !.persona = None]
<1>1. req[r].pc \in Awaits /\ req[r].pc = "sign"
  BY DEF Sign, Awaits, TokenAwaits
<1>2. /\ req[r] \in Request /\ Shape(req[r])
      /\ Holding(req[r]) => Names(req[r].event, req[r].subject)
  BY <1>1, AtAwait
<1>3. now + req[r].dur \in Int
  BY <1>2 DEF IInv, TypeOK, Request
<1>4. q \in Request
  <2>1. \A x \in Int, t, n \in Nat, k \in PersonaKeys \cup {None} :
          [req[r] EXCEPT !.pc = "done", !.status = n, !.exp = x, !.signed = t, !.persona = k] \in Request
    BY <1>2 DEF Request
  <2>2. 200 \in Nat /\ now \in Nat /\ None \in PersonaKeys \cup {None}
    BY DEF IInv, TypeOK
  <2>3. QED
    BY <1>3, <2>1, <2>2, Zenon
<1>5. /\ q.pc = "done" /\ q.op = req[r].op /\ q.subject = req[r].subject /\ q.sub = req[r].sub /\ q.persona = None
      /\ q.row = req[r].row /\ q.event = req[r].event /\ q.status = 200 /\ q.dead = req[r].dead
  BY <1>2 DEF Request
<1>6. /\ req[r].op = "refresh" => req[r].event \in HandedOut
      /\ ~req[r].dead
      /\ r \in Known => req[r].op = "token"
  BY <1>1, <1>2 DEF IInv, RequestInv, Shape, TableInv, KnownIsInserted
<1>7. Shape(q)
  BY <1>1, <1>2, <1>5, <1>6 DEF Shape, TokenAwaits, RefreshAwaits, InvalidateAwaits
<1>8. Holding(q) => Names(q.event, q.subject)
  BY <1>1, <1>2, <1>5 DEF Holding
<1>9. Fit(r, q)
  BY <1>4, <1>5, <1>6, <1>7, <1>8 DEF Fit
<1>10. QED
  BY <1>1, <1>9, LocalStep, UnchangedTypes DEF Sign

LEMMA FindSessionStep == ASSUME IInv, NEW r \in Requests, FindSession(r) PROVE IInv'
<1>1. /\ req[r].pc \in Awaits /\ req[r].pc = "findSession" /\ "deleteSession" \in Awaits
  BY DEF FindSession, Awaits, InvalidateAwaits
<1>2. /\ req[r] \in Request /\ Shape(req[r]) /\ r \notin Known /\ req[r].op = "invalidate"
  BY <1>1, AtAwait DEF Shape, InvalidateAwaits
<1>3. UNCHANGED <<now, personas, spentKeys, sessions, revoked, faults>>
  BY DEF FindSession
<1>4. CASE Answer(r, 404)
  BY <1>1, <1>3, <1>4, AnswerForm, EndStep, UnchangedTypes
<1>5. ASSUME NEW k \in PersonaKeys,
             Becomes(r, [req[r] EXCEPT !.pc = "deleteSession", !.persona = k])
      PROVE  IInv'
  <2> DEFINE q == [req[r] EXCEPT !.pc = "deleteSession", !.persona = k]
  <2>1. /\ q \in Request
        /\ q.pc = "deleteSession" /\ q.op = "invalidate" /\ q.subject = req[r].subject
        /\ q.row = req[r].row /\ q.event = req[r].event /\ q.status = req[r].status /\ q.dead = req[r].dead
    BY <1>1, <1>2 DEF Request
  <2>2. Shape(q) /\ ~q.dead
    BY <1>1, <1>2, <2>1 DEF Shape, TokenAwaits, RefreshAwaits, InvalidateAwaits
  <2>3. Fit(r, q)
    BY <1>2, <2>1, <2>2 DEF Fit, Holding
  <2>4. QED
    BY <1>1, <1>3, <1>5, <2>3, LocalStep, UnchangedTypes
<1>6. QED
  BY <1>4, <1>5, FoundPersona DEF FindSession

\* A new request fits: it is nobody's session yet and knows nothing.
LEMMA ArriveStep == ASSUME IInv, NEW r \in Requests, Arrive(r) PROVE IInv'
<1>1. req[r].pc = "idle" /\ UNCHANGED <<now, personas, spentKeys, sessions, revoked, faults>>
  BY DEF Arrive, ArriveToken, ArriveRefresh, ArriveInvalidate
<1>2. r \notin Known
  BY <1>1 DEF IInv, TableInv, KnownIsInserted
<1>3. ASSUME NEW subject \in Subjects, NEW lifetime \in IdpLifetimes, ArriveToken(r, subject, lifetime)
      PROVE  IInv'
  <2> DEFINE q == [Idle EXCEPT !.op = "token", !.pc = "entitle", !.subject = subject,
                               !.idpExp = now + lifetime]
  <2>1. now + lifetime \in Nat
    BY TimeAssumption DEF IInv, TypeOK
  <2>2. q \in Request
    <3>1. \A p \in Request, o \in Ops, c \in Awaits, t \in Nat :
            [p EXCEPT !.op = o, !.pc = c, !.subject = subject, !.idpExp = t] \in Request
      BY DEF Request
    <3>2. "token" \in Ops /\ "entitle" \in Awaits
      BY DEF Ops, Awaits, TokenAwaits
    <3>3. QED
      BY <2>1, <3>1, <3>2, IdleType
  <2>3. /\ q.op = "token" /\ q.pc = "entitle" /\ q.subject = subject /\ q.persona = None
        /\ q.row = None /\ q.status = 0 /\ q.dead = FALSE
    BY DEF Idle
  <2>4. Fit(r, q)
    BY <1>2, <2>2, <2>3 DEF Fit, Shape, Holding, TokenAwaits, RefreshAwaits, InvalidateAwaits
  <2>5. QED
    BY <1>1, <1>3, <2>4, LocalStep, UnchangedTypes DEF ArriveToken
<1>4. ASSUME NEW event \in Requests, ArriveRefresh(r, event)
      PROVE  IInv'
  <2> DEFINE q == [Idle EXCEPT !.op = "refresh", !.pc = "lookup", !.event = event,
                               !.dead = event \in revoked]
  <2>1. q \in Request
    <3>1. \A p \in Request, o \in Ops, c \in Awaits, b \in BOOLEAN :
            [p EXCEPT !.op = o, !.pc = c, !.event = event, !.dead = b] \in Request
      BY DEF Request
    <3>2. "refresh" \in Ops /\ "lookup" \in Awaits /\ (event \in revoked) \in BOOLEAN
      BY DEF Ops, Awaits, RefreshAwaits
    <3>3. QED
      BY <3>1, <3>2, IdleType, Zenon
  <2>2. /\ q.op = "refresh" /\ q.pc = "lookup" /\ q.event = event
        /\ q.row = None /\ q.status = 0 /\ (q.dead <=> event \in revoked)
    BY DEF Idle
  <2>3. Fit(r, q)
    BY <1>2, <1>4, <2>1, <2>2
       DEF Fit, Shape, Holding, TokenAwaits, RefreshAwaits, InvalidateAwaits, ArriveRefresh
  <2>4. QED
    BY <1>1, <1>4, <2>3, LocalStep, UnchangedTypes DEF ArriveRefresh
<1>5. ASSUME NEW subject \in Subjects, ArriveInvalidate(r, subject)
      PROVE  IInv'
  <2> DEFINE q == [Idle EXCEPT !.op = "invalidate", !.pc = "findSession", !.subject = subject]
  <2>1. q \in Request
    <3>1. \A p \in Request, o \in Ops, c \in Awaits :
            [p EXCEPT !.op = o, !.pc = c, !.subject = subject] \in Request
      BY DEF Request
    <3>2. "invalidate" \in Ops /\ "findSession" \in Awaits
      BY DEF Ops, Awaits, InvalidateAwaits
    <3>3. QED
      BY <3>1, <3>2, IdleType
  <2>2. /\ q.op = "invalidate" /\ q.pc = "findSession" /\ q.subject = subject
        /\ q.row = None /\ q.status = 0 /\ q.dead = FALSE
    BY DEF Idle
  <2>3. Fit(r, q)
    BY <1>2, <2>1, <2>2 DEF Fit, Shape, Holding, TokenAwaits, RefreshAwaits, InvalidateAwaits
  <2>4. QED
    BY <1>1, <1>5, <2>3, LocalStep, UnchangedTypes DEF ArriveInvalidate
<1>6. QED
  BY <1>3, <1>4, <1>5 DEF Arrive

LEMMA StatementFailsStep == ASSUME IInv, NEW r \in Requests, StatementFails(r) PROVE IInv'
<1>1. /\ req[r].pc \in Awaits /\ now' \in Nat /\ faults' \in Nat
      /\ UNCHANGED <<personas, spentKeys, sessions, revoked>>
  BY DEF StatementFails, IInv, TypeOK
<1>2. CASE Answer(r, 500)
  BY <1>1, <1>2, AnswerForm, EndStep
<1>3. CASE Answer(r, 404)
  BY <1>1, <1>3, AnswerForm, EndStep
<1>4. CASE Becomes(r, Lose(req[r]))
  <2>1. 404 \in Nat /\ 404 # 200
    OBVIOUS
  <2>2. QED
    BY <1>1, <1>4, <2>1, EndStep
<1>5. QED
  BY <1>2, <1>3, <1>4 DEF StatementFails

LEMMA CrashStep == ASSUME IInv, Crash PROVE IInv'
<1>1. /\ now' \in Nat /\ faults' \in Nat /\ UNCHANGED <<personas, spentKeys, sessions, revoked>>
      /\ req \in [Requests -> Request]
  BY DEF Crash, IInv, TypeOK
<1>2. \A p \in Requests : req'[p] = IF req[p].pc \in Awaits THEN Lose(req[p]) ELSE req[p]
  BY DEF Crash
<1>3. \A p \in Requests : req[p].pc \in Awaits => Fit(p, Lose(req[p]))
  <2>1. 500 \in Nat /\ 500 # 200
    OBVIOUS
  <2>2. QED
    BY <2>1, EndFits
<1>4. \A p \in Requests : req[p].pc = "done" => req'[p] = req[p]
  BY <1>2 DEF Awaits, TokenAwaits, RefreshAwaits, InvalidateAwaits
<1>5. HandedOut \subseteq HandedOut'
  BY <1>4 DEF HandedOut
<1>6. Known' = Known
  BY <1>1 DEF Known
<1>7. TypeOK'
  <2>1. req' \in [Requests -> Request]
    BY <1>1, <1>3 DEF Crash, Fit
  <2>2. QED
    BY <1>1, <2>1 DEF IInv, TypeOK
<1>8. TableInv'
  <2>1. \A p \in Known : req'[p].op = "token" /\ req'[p].pc \in {"sign", "done", "unanswered"}
    BY <1>2, <1>3, KnownType DEF IInv, TableInv, KnownIsInserted, Fit
  <2>2. KnownIsInserted'
    BY <1>6, <2>1 DEF KnownIsInserted
  <2>3. QED
    BY <1>1, <2>2 DEF IInv, TableInv, OneSessionPerPersona, EventIdsIdentify,
         SessionsHavePersonas, SessionHoldsOwnIdpToken, NoRevokedRow
<1>9. RequestInv'
  <2> SUFFICES ASSUME NEW p \in Requests
      PROVE ( /\ Shape(req[p])
              /\ Holding(req[p]) => Names(req[p].event, req[p].subject)
              /\ req[p].op = "refresh" => req[p].event \in HandedOut
              /\ req[p].dead => req[p].event \in revoked )'
    BY DEF RequestInv
  <2>1. PICK x : /\ x = req'[p]
                 /\ Shape(x) /\ (Holding(x) => Names(x.event, x.subject))
                 /\ x.op = "refresh" => x.event \in HandedOut
                 /\ x.dead => x.event \in revoked
    BY <1>2, <1>3 DEF Fit, IInv, RequestInv
  <2>2. QED
    BY <1>1, <1>5, <1>6, <2>1 DEF Names
<1>10. QED
  BY <1>7, <1>8, <1>9 DEF IInv

\* Statements that change rows but keep, for every event_id the table knows, the
\* persona of its row: what a request knows of the table stays true.
RowsKeepOwners ==
  /\ Known \subseteq Known'
  /\ revoked \subseteq revoked'
  /\ \A t \in sessions' : t.event_id \in Known =>
       \E s \in sessions : s.event_id = t.event_id /\ s.personakey = t.personakey

LEMMA RequestsKeep ==
  ASSUME IInv, NEW r \in Requests, req[r].pc # "done", NEW q, Becomes(r, q), RowsKeepOwners,
         Shape(q),
         Holding(q) => /\ q.event \in Known'
                       /\ \A s \in sessions' : s.event_id = q.event =>
                            SubjectOf[s.personakey] = q.subject,
         q.op = "refresh" => q.event \in HandedOut,
         q.dead => q.event \in revoked
  PROVE  RequestInv'
<1>1. \A p \in Requests : req'[p] = IF p = r THEN q ELSE req[p]
  BY DEF IInv, TypeOK, Becomes
<1>2. HandedOut \subseteq HandedOut'
  BY HandedOutGrows
<1> SUFFICES ASSUME NEW p \in Requests
    PROVE ( /\ Shape(req[p])
            /\ Holding(req[p]) => Names(req[p].event, req[p].subject)
            /\ req[p].op = "refresh" => req[p].event \in HandedOut
            /\ req[p].dead => req[p].event \in revoked )'
  BY DEF RequestInv
<1>3. PICK x : /\ x = req'[p]
               /\ Shape(x)
               /\ Holding(x) => /\ x.event \in Known'
                                /\ \A s \in sessions' : s.event_id = x.event =>
                                     SubjectOf[s.personakey] = x.subject
               /\ x.op = "refresh" => x.event \in HandedOut
               /\ x.dead => x.event \in revoked
  BY <1>1 DEF IInv, RequestInv, Names, RowsKeepOwners
<1>4. QED
  BY <1>2, <1>3 DEF Names, RowsKeepOwners

LEMMA DeleteKeeps ==
  ASSUME IInv, NEW k, DeleteSessions(k), personas' = personas \/ personas' = personas \ {k}
  PROVE  /\ RowsKeepOwners
         /\ Known' = Known
         /\ sessions' \subseteq SessionRow /\ revoked' \subseteq Requests
         /\ (OneSessionPerPersona /\ EventIdsIdentify /\ SessionsHavePersonas
               /\ SessionHoldsOwnIdpToken /\ NoRevokedRow)'
<1>1. sessions \subseteq SessionRow /\ revoked \subseteq Requests
  BY DEF IInv, TypeOK
<1>2. sessions' \subseteq sessions
  BY DEF DeleteSessions
<1>3. Known' = Known
  BY <1>2 DEF DeleteSessions, Known
<1>4. sessions' \subseteq SessionRow /\ revoked' \subseteq Requests
  BY <1>1, <1>2 DEF DeleteSessions, SessionRow
<1>5. RowsKeepOwners
  BY <1>2, <1>3 DEF RowsKeepOwners, DeleteSessions
<1>6. (OneSessionPerPersona /\ EventIdsIdentify /\ SessionsHavePersonas /\ SessionHoldsOwnIdpToken)'
  BY <1>2 DEF DeleteSessions, IInv, TableInv, OneSessionPerPersona, EventIdsIdentify,
       SessionsHavePersonas, SessionHoldsOwnIdpToken
<1>7. NoRevokedRow'
  BY <1>2 DEF DeleteSessions, IInv, TableInv, EventIdsIdentify, NoRevokedRow
<1>8. QED
  BY <1>3, <1>4, <1>5, <1>6, <1>7

\* A handler whose last statement is a DELETE ends like any other.
LEMMA DeleteAndAnswer ==
  ASSUME IInv, NEW r \in Requests, req[r].pc \in Awaits, NEW k, DeleteSessions(k),
         NEW status \in Nat, status = 200 => req[r].op = "invalidate",
         Becomes(r, Answered(req[r], status)), UNCHANGED <<now, personas, spentKeys, faults>>
  PROVE  IInv'
<1> DEFINE q == Answered(req[r], status)
<1>1. Fit(r, q) /\ req[r] \in Request /\ req[r].pc # "done"
  BY EndFits DEF IInv, TypeOK, Awaits, TokenAwaits, RefreshAwaits, InvalidateAwaits
<1>2. /\ RowsKeepOwners /\ Known' = Known
      /\ sessions' \subseteq SessionRow /\ revoked' \subseteq Requests
      /\ (OneSessionPerPersona /\ EventIdsIdentify /\ SessionsHavePersonas
            /\ SessionHoldsOwnIdpToken /\ NoRevokedRow)'
  BY DeleteKeeps
<1>3. req' \in [Requests -> Request] /\ \A p \in Requests : req'[p] = IF p = r THEN q ELSE req[p]
  BY <1>1 DEF IInv, TypeOK, Becomes, Fit
<1>4. TypeOK'
  BY <1>2, <1>3 DEF IInv, TypeOK
<1>5. TableInv'
  <2>1. \A p \in Known : req'[p].op = "token" /\ req'[p].pc \in {"sign", "done", "unanswered"}
    BY <1>1, <1>3, KnownType DEF IInv, TableInv, KnownIsInserted, Fit
  <2>2. KnownIsInserted'
    BY <1>2, <2>1 DEF KnownIsInserted
  <2>3. QED
    BY <1>2, <2>2 DEF TableInv
<1>6. RequestInv'
  <2>1. Shape(q) /\ ~Holding(q)
    BY <1>1, AnsweredFields DEF Fit, Holding, Shape
  <2>2. (q.op = "refresh" => q.event \in HandedOut) /\ (q.dead => q.event \in revoked)
    BY <1>1 DEF Fit
  <2>3. QED
    BY <1>1, <1>2, <2>1, <2>2, RequestsKeep
<1>7. QED
  BY <1>4, <1>5, <1>6 DEF IInv

LEMMA ExpireSessionStep == ASSUME IInv, NEW r \in Requests, ExpireSession(r) PROVE IInv'
<1>1. req[r].pc \in Awaits /\ 403 \in Nat /\ 403 # 200
  BY DEF ExpireSession, Awaits, RefreshAwaits
<1>2. Becomes(r, Answered(req[r], 403))
  BY <1>1, AnswerForm DEF ExpireSession
<1>3. QED
  BY <1>1, <1>2, DeleteAndAnswer DEF ExpireSession

LEMMA DeleteSessionStep == ASSUME IInv, NEW r \in Requests, DeleteSession(r) PROVE IInv'
<1>1. req[r].pc \in Awaits /\ 200 \in Nat
  BY DEF DeleteSession, Awaits, InvalidateAwaits
<1>2. req[r].op = "invalidate"
  BY <1>1, AtAwait DEF Shape, DeleteSession, InvalidateAwaits
<1>3. Becomes(r, Answered(req[r], 200))
  BY <1>1, AnswerForm DEF DeleteSession
<1>4. QED
  BY <1>1, <1>2, <1>3, DeleteAndAnswer DEF DeleteSession

\* Steps around the handlers leave req alone.
LEMMA NoRequestStep ==
  ASSUME IInv, UNCHANGED req, RowsKeepOwners, Known' = Known
  PROVE  RequestInv' /\ KnownIsInserted'
<1>1. HandedOut' = HandedOut
  BY DEF HandedOut
<1>2. KnownIsInserted'
  BY DEF IInv, TableInv, KnownIsInserted
<1>3. RequestInv'
  BY <1>1 DEF IInv, RequestInv, Names, RowsKeepOwners
<1>4. QED
  BY <1>2, <1>3

LEMMA DeletePersonaStep == ASSUME IInv, NEW k \in PersonaKeys, DeletePersona(k) PROVE IInv'
<1>1. /\ RowsKeepOwners /\ Known' = Known
      /\ sessions' \subseteq SessionRow /\ revoked' \subseteq Requests
      /\ (OneSessionPerPersona /\ EventIdsIdentify /\ SessionsHavePersonas
            /\ SessionHoldsOwnIdpToken /\ NoRevokedRow)'
  BY DeleteKeeps DEF DeletePersona
<1>2. RequestInv' /\ KnownIsInserted'
  BY <1>1, NoRequestStep DEF DeletePersona
<1>3. TypeOK'
  BY <1>1 DEF DeletePersona, IInv, TypeOK
<1>4. QED
  BY <1>1, <1>2, <1>3 DEF IInv, TableInv

\* Neither a new persona nor the clock touches a session.
LEMMA QuietStep ==
  ASSUME IInv, (\E k \in PersonaKeys : InsertPersona(k)) \/ Tick \/ UNCHANGED vars
  PROVE  IInv'
<1>1. UNCHANGED <<sessions, revoked, req, spentKeys, faults>> /\ personas \subseteq personas'
  BY DEF InsertPersona, Tick, vars
<1>2. Known' = Known /\ RowsKeepOwners
  BY <1>1 DEF Known, RowsKeepOwners
<1>3. RequestInv' /\ KnownIsInserted'
  BY <1>1, <1>2, NoRequestStep
<1>4. TypeOK'
  BY DEF InsertPersona, Tick, vars, IInv, TypeOK
<1>5. QED
  BY <1>1, <1>3, <1>4 DEF IInv, TableInv, OneSessionPerPersona, EventIdsIdentify,
     SessionsHavePersonas, SessionHoldsOwnIdpToken, NoRevokedRow

LEMMA UpdateSessionStep == ASSUME IInv, NEW r \in Requests, UpdateSession(r) PROVE IInv'
<1> DEFINE q == [req[r] EXCEPT !.pc = "sign"]
           Written(s) == IF s.personakey = req[r].persona
                           THEN NewRow(r, s.personakey, s.event_id) ELSE s
<1>1. /\ req[r].pc \in TokenAwaits \ RefreshAwaits /\ req[r].pc = "updateSession"
      /\ req[r].pc # "done" /\ "sign" \in Awaits
  BY DEF UpdateSession, Awaits, TokenAwaits, RefreshAwaits
<1>2. /\ req[r] \in Request /\ Shape(req[r]) /\ req[r].op = "token" /\ r \notin Known
      /\ req[r].subject \in Subjects
      /\ req[r].persona = None \/ SubjectOf[req[r].persona] = req[r].subject
      /\ Names(req[r].event, req[r].subject)
  BY <1>1, AtLogin, AtAwait DEF Holding, Shape
<1>3. sessions' = {Written(s) : s \in sessions} /\ revoked' = revoked /\ Becomes(r, q)
      /\ UNCHANGED <<now, personas, spentKeys, faults>>
  BY DEF UpdateSession, Goto
<1>4. \A s \in sessions :
        /\ Written(s) \in SessionRow
        /\ Written(s).event_id = s.event_id /\ Written(s).personakey = s.personakey
        /\ Written(s).idp_token.sub = SubOf[SubjectOf[s.personakey]]
  <2> SUFFICES ASSUME NEW s \in sessions
      PROVE /\ Written(s) \in SessionRow
            /\ Written(s).event_id = s.event_id /\ Written(s).personakey = s.personakey
            /\ Written(s).idp_token.sub = SubOf[SubjectOf[s.personakey]]
    OBVIOUS
  <2>1. /\ s \in SessionRow /\ s.personakey \in PersonaKeys /\ s.event_id \in Requests
        /\ s.idp_token.sub = SubOf[SubjectOf[s.personakey]]
    BY DEF IInv, TypeOK, TableInv, SessionHoldsOwnIdpToken, SessionRow
  <2>2. CASE s.personakey = req[r].persona
    <3>1. NewRow(r, s.personakey, s.event_id) \in SessionRow
      BY <1>2, <2>1, NewRowType DEF IInv
    <3>2. req[r].subject = SubjectOf[s.personakey]
      BY <1>2, <2>1, <2>2, NoneAssumption
    <3>3. QED
      BY <2>2, <3>1, <3>2 DEF NewRow
  <2>3. CASE s.personakey # req[r].persona
    BY <2>1, <2>3
  <2>4. QED
    BY <2>2, <2>3
<1>5. \A t \in sessions' : \E s \in sessions : t = Written(s)
  BY <1>3
<1>6. Known' = Known
  BY <1>3, <1>4 DEF Known
<1>7. RowsKeepOwners
  BY <1>3, <1>4, <1>5, <1>6 DEF RowsKeepOwners
<1>8. /\ q \in Request
      /\ q.pc = "sign" /\ q.op = "token" /\ q.subject = req[r].subject /\ q.persona = req[r].persona
      /\ q.row = req[r].row /\ q.event = req[r].event /\ q.status = req[r].status /\ q.dead = req[r].dead
  BY <1>1, <1>2 DEF Request
<1>9. req' \in [Requests -> Request] /\ \A p \in Requests : req'[p] = IF p = r THEN q ELSE req[p]
  BY <1>3, <1>8 DEF IInv, TypeOK, Becomes
<1>10. TypeOK'
  <2>1. sessions' \subseteq SessionRow
    BY <1>4, <1>5
  <2>2. QED
    BY <1>3, <1>9, <2>1 DEF IInv, TypeOK
<1>11. TableInv'
  <2>1. KnownIsInserted'
    <3>1. \A p \in Known : req'[p].op = "token" /\ req'[p].pc \in {"sign", "done", "unanswered"}
      BY <1>2, <1>9, KnownType DEF IInv, TableInv, KnownIsInserted
    <3>2. QED
      BY <1>6, <3>1 DEF KnownIsInserted
  <2>2. OneSessionPerPersona' /\ EventIdsIdentify'
    BY <1>4, <1>5 DEF IInv, TableInv, OneSessionPerPersona, EventIdsIdentify
  <2>3. SessionsHavePersonas' /\ SessionHoldsOwnIdpToken' /\ NoRevokedRow'
    BY <1>3, <1>4, <1>5
       DEF IInv, TableInv, SessionsHavePersonas, SessionHoldsOwnIdpToken, NoRevokedRow
  <2>4. QED
    BY <2>1, <2>2, <2>3 DEF TableInv
<1>12. RequestInv'
  <2>1. Shape(q) /\ ~q.dead
    BY <1>1, <1>2, <1>8 DEF Shape, TokenAwaits, RefreshAwaits, InvalidateAwaits
  <2>2. /\ q.event \in Known'
        /\ \A s \in sessions' : s.event_id = q.event => SubjectOf[s.personakey] = q.subject
    BY <1>2, <1>4, <1>5, <1>6, <1>8 DEF Names
  <2>3. QED
    BY <1>1, <1>3, <1>7, <1>8, <2>1, <2>2, RequestsKeep
<1>13. QED
  BY <1>10, <1>11, <1>12 DEF IInv

LEMMA InsertSessionStep == ASSUME IInv, NEW r \in Requests, InsertSession(r) PROVE IInv'
<1>1. /\ req[r].pc \in TokenAwaits \ RefreshAwaits /\ req[r].pc = "insertSession"
      /\ req[r].pc # "done" /\ "sign" \in Awaits
  BY DEF InsertSession, Awaits, TokenAwaits, RefreshAwaits
<1>2. /\ req[r] \in Request /\ Shape(req[r]) /\ req[r].op = "token" /\ r \notin Known
      /\ req[r].subject \in Subjects
      /\ req[r].persona = None \/ SubjectOf[req[r].persona] = req[r].subject
  BY <1>1, AtLogin, AtAwait DEF Shape
<1>3. UNCHANGED <<now, personas, spentKeys, revoked, faults>>
  BY DEF InsertSession
<1>4. CASE ~MayInsert(req[r].persona)
  <2>1. Becomes(r, Answered(req[r], 500)) /\ sessions' = sessions /\ 500 \in Nat /\ 500 # 200
    BY <1>4, AnswerForm DEF InsertSession
  <2>2. QED
    BY <1>1, <1>3, <2>1, AtLogin, EndStep, UnchangedTypes
<1>5. CASE MayInsert(req[r].persona)
  <2> DEFINE q == [req[r] EXCEPT !.pc = "sign", !.event = r]
             k == req[r].persona
             row == NewRow(r, k, r)
  <2>1. /\ k \in personas /\ k \in PersonaKeys /\ \A s \in sessions : s.personakey # k
        /\ SubjectOf[k] = req[r].subject
    BY <1>2, <1>5, NoneAssumption DEF MayInsert, IInv, TypeOK
  <2>2. sessions' = sessions \cup {row} /\ Becomes(r, q)
    BY <1>5 DEF InsertSession
  <2>3. row \in SessionRow
    BY <1>2, <2>1, NewRowType DEF IInv
  <2>4. row.event_id = r /\ row.personakey = k /\ row.idp_token.sub = SubOf[SubjectOf[k]]
    BY <2>1 DEF NewRow
  <2>5. Known' = Known \cup {r}
    BY <1>3, <2>2, <2>4 DEF Known
  <2>6. RowsKeepOwners
    BY <1>2, <1>3, <2>2, <2>4, <2>5 DEF RowsKeepOwners
  <2>7. /\ q \in Request
        /\ q.pc = "sign" /\ q.op = "token" /\ q.subject = req[r].subject /\ q.persona = k
        /\ q.row = req[r].row /\ q.event = r /\ q.status = req[r].status /\ q.dead = req[r].dead
    BY <1>1, <1>2 DEF Request
  <2>8. req' \in [Requests -> Request] /\ \A p \in Requests : req'[p] = IF p = r THEN q ELSE req[p]
    BY <2>2, <2>7 DEF IInv, TypeOK, Becomes
  <2>9. TypeOK'
    BY <1>3, <2>2, <2>3, <2>8 DEF IInv, TypeOK
  <2>10. \A s \in sessions : s.event_id # r /\ s.event_id \in Known
    BY <1>2 DEF Known
  <2>11. TableInv'
    <3>1. KnownIsInserted'
      <4>1. \A p \in Known \cup {r} : req'[p].op = "token" /\ req'[p].pc \in {"sign", "done", "unanswered"}
        BY <2>7, <2>8, KnownType DEF IInv, TableInv, KnownIsInserted
      <4>2. QED
        BY <2>5, <4>1 DEF KnownIsInserted
    <3>2. OneSessionPerPersona'
      BY <2>1, <2>2, <2>4 DEF IInv, TableInv, OneSessionPerPersona
    <3>3. EventIdsIdentify'
      BY <2>2, <2>4, <2>10 DEF IInv, TableInv, EventIdsIdentify
    <3>4. SessionsHavePersonas' /\ SessionHoldsOwnIdpToken'
      BY <1>3, <2>1, <2>2, <2>4 DEF IInv, TableInv, SessionsHavePersonas, SessionHoldsOwnIdpToken
    <3>5. NoRevokedRow'
      BY <1>2, <1>3, <2>2, <2>4 DEF IInv, TableInv, NoRevokedRow, Known
    <3>6. QED
      BY <3>1, <3>2, <3>3, <3>4, <3>5 DEF TableInv
  <2>12. RequestInv'
    <3>1. Shape(q) /\ ~q.dead
      BY <1>1, <1>2, <2>1, <2>7 DEF Shape, TokenAwaits, RefreshAwaits, InvalidateAwaits
    <3>2. /\ q.event \in Known'
          /\ \A s \in sessions' : s.event_id = q.event => SubjectOf[s.personakey] = q.subject
      BY <2>1, <2>2, <2>4, <2>5, <2>7, <2>10
    <3>3. QED
      BY <1>1, <2>2, <2>6, <2>7, <3>1, <3>2, RequestsKeep
  <2>13. QED
    BY <2>9, <2>11, <2>12 DEF IInv
<1>6. QED
  BY <1>4, <1>5

-----------------------------------------------------------------------------
(* The theorems. *)

LEMMA InitIInv == Init => IInv
<1> SUFFICES ASSUME Init PROVE IInv
  OBVIOUS
<1>1. TypeOK
  BY IdleType DEF Init, TypeOK
<1>2. Known = {}
  BY DEF Init, Known
<1>3. TableInv
  BY <1>2 DEF Init, TableInv, OneSessionPerPersona, EventIdsIdentify, SessionsHavePersonas,
     SessionHoldsOwnIdpToken, KnownIsInserted, NoRevokedRow
<1>4. Shape(Idle) /\ ~Holding(Idle) /\ Idle.op # "refresh" /\ ~Idle.dead
  BY DEF Idle, Shape, Holding, TokenAwaits, RefreshAwaits, InvalidateAwaits
<1>5. RequestInv
  BY <1>4 DEF Init, RequestInv
<1>6. QED
  BY <1>1, <1>3, <1>5 DEF IInv

LEMMA StepIInv == ASSUME IInv, NEW r \in Requests, Step(r) PROVE IInv'
  BY ComputeDurationStep, GetSessionStep, ReadSessionStep, CheckSessionStep, UpdateSessionStep,
     CheckNoSessionStep, GetPersonaStep, InsertSessionStep, LookupStep, CheckExpiryStep,
     ExpireSessionStep, RefreshEntitlementsStep, FindSessionStep, DeleteSessionStep, SignStep
     DEF Step

LEMMA NextIInv == IInv /\ [Next]_vars => IInv'
<1> SUFFICES ASSUME IInv, [Next]_vars PROVE IInv'
  OBVIOUS
<1>1. ASSUME NEW r \in Requests, Arrive(r) \/ Step(r) \/ StatementFails(r) PROVE IInv'
  BY <1>1, ArriveStep, StepIInv, StatementFailsStep
<1>2. ASSUME NEW k \in PersonaKeys, InsertPersona(k) \/ DeletePersona(k) PROVE IInv'
  BY <1>2, DeletePersonaStep, QuietStep
<1>3. CASE Crash
  BY <1>3, CrashStep
<1>4. CASE Tick \/ UNCHANGED vars
  BY <1>4, QuietStep
<1>5. QED
  BY <1>1, <1>2, <1>3, <1>4 DEF Next

\* Every reachable state satisfies the inductive invariant, for any number of
\* requests, personas and failures and any lifetimes.
THEOREM Inductive == Spec => []IInv
  BY InitIInv, NextIInv, PTL DEF Spec

\* Every variable keeps its type.
THEOREM TypeCorrect == Spec => []TypeOK
<1>1. IInv => TypeOK
  BY DEF IInv
<1>2. QED
  BY <1>1, Inductive, PTL

\* A refresh token names at most one session: nothing in the schema says so.
THEOREM RefreshTokensUnique == Spec => []EventIdsIdentify
<1>1. IInv => EventIdsIdentify
  BY DEF IInv, TableInv
<1>2. QED
  BY <1>1, Inductive, PTL

\* No row outlives its persona, wherever a login is when the persona is deleted.
THEOREM SessionsAreOwned == Spec => []SessionsHavePersonas
<1>1. IInv => SessionsHavePersonas
  BY DEF IInv, TableInv
<1>2. QED
  BY <1>1, Inductive, PTL

\* The IdP token kept in a row was presented for the persona of the row.
THEOREM IdpTokenIsOwn == Spec => []SessionHoldsOwnIdpToken
<1>1. IInv => SessionHoldsOwnIdpToken
  BY DEF IInv, TableInv
<1>2. QED
  BY <1>1, Inductive, PTL

\* /self/token never answers with a refresh token of another subject's session.
THEOREM OwnRefreshToken == Spec => []RefreshTokenIsOwn
<1>1. IInv => RefreshTokenIsOwn
  BY DEF IInv, RequestInv, Holding, Names, RefreshTokenIsOwn, Granted
<1>2. QED
  BY <1>1, Inductive, PTL

\* /self/token never answers with a refresh token that was not stored.
THEOREM StoredRefreshToken == Spec => []GrantedTokenWasStored
<1>1. IInv => GrantedTokenWasStored
  BY DEF IInv, RequestInv, Holding, Names, Known, GrantedTokenWasStored, Granted
<1>2. QED
  BY <1>1, Inductive, PTL

\* A deleted session never comes back and its refresh token earns nothing more.
THEOREM RevocationIsFinal == Spec => []RevokedStaysRevoked
<1>1. IInv => RevokedStaysRevoked
  BY DEF IInv, TableInv, NoRevokedRow, RequestInv, Shape, RevokedStaysRevoked, Refreshed
<1>2. QED
  BY <1>1, Inductive, PTL

\* Concurrent logins of a subject with one persona agree on the refresh token.
THEOREM LoginsAgree == Spec => []ConcurrentLoginsAgree
<1>1. IInv => ConcurrentLoginsAgree
  <2> SUFFICES ASSUME IInv, NEW q \in Requests, NEW r \in Requests, NEW k \in PersonaKeys,
                      Granted(q), Granted(r), req[q].subject = req[r].subject,
                      req[q].event \notin revoked, req[r].event \notin revoked,
                      PersonasOfSubject(req[r].subject) = {k}
               PROVE  req[q].event = req[r].event
    BY DEF ConcurrentLoginsAgree
  <2>1. \A p \in Requests : Granted(p) => Names(req[p].event, req[p].subject)
    BY DEF IInv, RequestInv, Holding, Granted
  <2>2. PICK s \in sessions : /\ s.event_id = req[q].event
                              /\ SubjectOf[s.personakey] = req[r].subject
    BY <2>1 DEF Names, Known
  <2>3. PICK t \in sessions : /\ t.event_id = req[r].event
                              /\ SubjectOf[t.personakey] = req[r].subject
    BY <2>1 DEF Names, Known
  <2>4. s.personakey = k /\ t.personakey = k
    BY <2>2, <2>3 DEF IInv, TableInv, SessionsHavePersonas, PersonasOfSubject
  <2>5. QED
    BY <2>2, <2>3, <2>4 DEF IInv, TableInv, OneSessionPerPersona
<1>2. QED
  BY <1>1, Inductive, PTL

\* The four ways the table changes.
LEMMA TableChanges ==
  ASSUME [Next]_vars
  PROVE  \/ sessions' = sessions
         \/ \E k : DeleteSessions(k)
         \/ \E r \in Requests : UpdateSession(r) \/ InsertSession(r)
<1>1. ASSUME NEW r \in Requests, Arrive(r) PROVE sessions' = sessions
  BY <1>1 DEF Arrive, ArriveToken, ArriveRefresh, ArriveInvalidate
<1>2. ASSUME NEW r \in Requests, Step(r)
      PROVE  \/ sessions' = sessions
             \/ \E k : DeleteSessions(k)
             \/ UpdateSession(r) \/ InsertSession(r)
  BY <1>2 DEF Step, ComputeDuration, GetSession, ReadSession, CheckSession, CheckNoSession, GetPersona,
     Lookup, CheckExpiry, ExpireSession, RefreshEntitlements, FindSession, DeleteSession, Sign
<1>3. ASSUME NEW r \in Requests, StatementFails(r) PROVE sessions' = sessions
  BY <1>3 DEF StatementFails
<1>4. ASSUME NEW k \in PersonaKeys, InsertPersona(k) \/ DeletePersona(k)
      PROVE  sessions' = sessions \/ DeleteSessions(k)
  BY <1>4 DEF InsertPersona, DeletePersona
<1>5. CASE Crash \/ Tick \/ UNCHANGED vars
  BY <1>5 DEF Crash, Tick, vars
<1>6. QED
  BY <1>1, <1>2, <1>3, <1>4, <1>5 DEF Next

\* Renewing a session never changes its event_id.
THEOREM RenewalKeeps == Spec => RenewalKeepsRefreshToken
<1>1. ASSUME IInv, [Next]_vars, NEW s \in sessions, NEW t \in sessions', s.personakey = t.personakey
      PROVE  s.event_id = t.event_id
  <2>1. CASE t \in sessions
    BY <1>1, <2>1 DEF IInv, TableInv, OneSessionPerPersona
  <2>2. ASSUME NEW k, DeleteSessions(k) PROVE t \in sessions
    BY <2>2 DEF DeleteSessions
  <2>3. ASSUME NEW r \in Requests, UpdateSession(r) PROVE s.event_id = t.event_id
    <3>1. PICK u \in sessions : t = IF u.personakey = req[r].persona
                                      THEN NewRow(r, u.personakey, u.event_id) ELSE u
      BY <2>3 DEF UpdateSession
    <3>2. t.personakey = u.personakey /\ t.event_id = u.event_id
      BY <3>1 DEF NewRow
    <3>3. QED
      BY <1>1, <3>2 DEF IInv, TableInv, OneSessionPerPersona
  <2>4. ASSUME NEW r \in Requests, InsertSession(r), t \notin sessions PROVE FALSE
    <3>1. MayInsert(req[r].persona) /\ t = NewRow(r, req[r].persona, r)
      BY <2>4 DEF InsertSession
    <3>2. QED
      BY <1>1, <3>1 DEF MayInsert, NewRow
  <2>5. QED
    BY <1>1, <2>1, <2>2, <2>3, <2>4, TableChanges
<1>2. IInv /\ [Next]_vars => [\A s \in sessions : \A t \in sessions' :
                                s.personakey = t.personakey => s.event_id = t.event_id]_vars
  BY <1>1
<1>3. QED
  BY <1>2, Inductive, PTL DEF Spec, RenewalKeepsRefreshToken

-----------------------------------------------------------------------------
(* How far a request is, and what a refresh knows of the row it has read. *)

\* What becomes of a request in flight: it comes nearer its end, and holds no row
\* but the one it held or has just looked up.
Nearer(p) ==
  /\ StepsLeft(req'[p]) < StepsLeft(req[p])
  /\ \/ req'[p].row = None
     \/ req'[p].row = req[p].row /\ req'[p].event = req[p].event
     \/ Lookup(p)

\* A step of one request leaves the others as they are.
LEMMA OnlyOwnEntry ==
  ASSUME TypeOK, NEW r \in Requests, NEW q, Becomes(r, q)
  PROVE  req'[r] = q /\ \A p \in Requests \ {r} : req'[p] = req[p]
  BY DEF TypeOK, Becomes

\* Ending is nearer than any await.
LEMMA EndsNearer ==
  ASSUME IInv, NEW r \in Requests, req[r].pc \in Awaits, NEW status \in Nat,
         req'[r] = Answered(req[r], status) \/ req'[r] = Lose(req[r])
  PROVE  Nearer(r)
<1>1. req[r] \in Request
  BY DEF IInv, TypeOK
<1>2. req'[r].row = None /\ req'[r].pc \in {"done", "unanswered"}
  BY <1>1, AnsweredFields
<1>3. StepsLeft(req'[r]) = 0
  BY <1>2 DEF StepsLeft
<1>4. 0 < StepsLeft(req[r])
  BY DEF StepsLeft, Awaits, TokenAwaits, RefreshAwaits, InvalidateAwaits
<1> QED
  BY <1>2, <1>3, <1>4 DEF Nearer

LEMMA AnswersNearer ==
  ASSUME IInv, NEW r \in Requests, req[r].pc \in Awaits, NEW status \in Nat, Answer(r, status)
  PROVE  Nearer(r)
  BY AnswerForm, OnlyOwnEntry, EndsNearer DEF IInv

\* The await a handler goes on to, with the event_id and the row it had.
Onto(r, pc) == /\ req'[r].pc = pc /\ req'[r].op = req[r].op
               /\ req'[r].row = req[r].row /\ req'[r].event = req[r].event

LEMMA GoesOn ==
  ASSUME TypeOK, NEW r \in Requests, NEW pc, NEW x, NEW y, NEW z
  PROVE  /\ Becomes(r, [req[r] EXCEPT !.pc = pc]) => Onto(r, pc)
         /\ Becomes(r, [req[r] EXCEPT !.pc = pc, !.persona = x]) => Onto(r, pc)
         /\ Becomes(r, [req[r] EXCEPT !.pc = pc, !.dur = x, !.at = y, !.auth = z]) => Onto(r, pc)
         /\ Becomes(r, [req[r] EXCEPT !.pc = pc, !.dur = x, !.at = y, !.sub = z]) => Onto(r, pc)
<1>1. req[r] \in Request
  BY DEF TypeOK
<1>2. \A q : Becomes(r, q) => req'[r] = q
  BY OnlyOwnEntry
<1> QED
  BY <1>1, <1>2 DEF Request, Onto

\* The two reads that change the event_id or the row, each before the other is set.
LEMMA TakesOn ==
  ASSUME TypeOK, NEW r \in Requests, NEW pc, NEW x
  PROVE  /\ Becomes(r, [req[r] EXCEPT !.pc = pc, !.event = x]) =>
              req'[r].pc = pc /\ req'[r].op = req[r].op /\ req'[r].row = req[r].row
         /\ Becomes(r, [req[r] EXCEPT !.pc = pc, !.row = x]) =>
              req'[r].pc = pc /\ req'[r].row = x /\ req'[r].event = req[r].event
<1>1. req[r] \in Request
  BY DEF TypeOK
<1>2. \A q : Becomes(r, q) => req'[r] = q
  BY OnlyOwnEntry
<1> QED
  BY <1>1, <1>2 DEF Request

\* Every step of a handler brings its request nearer its end.
LEMMA StepNearer == ASSUME IInv, NEW r \in Requests, Step(r) PROVE Nearer(r)
<1>1. Shape(req[r]) /\ TypeOK
  BY DEF IInv, RequestInv
<1>2. ASSUME NEW status \in Nat, Answer(r, status), req[r].pc \in Awaits PROVE Nearer(r)
  BY <1>2, AnswersNearer
<1>3. req[r].pc \in TokenAwaits \ RefreshAwaits => req[r].op = "token" /\ req[r].row = None
  BY <1>1 DEF Shape
<1>4. 404 \in Nat /\ 403 \in Nat /\ 200 \in Nat /\ 500 \in Nat
  OBVIOUS
<1> USE DEF Awaits, TokenAwaits, RefreshAwaits, InvalidateAwaits
<1>5. ASSUME ComputeDuration(r) PROVE Nearer(r)
  <2>1. Onto(r, "getSession")
    BY <1>1, <1>5, GoesOn, Zenon DEF ComputeDuration
  <2> QED
    BY <1>5, <2>1 DEF ComputeDuration, Onto, Nearer, StepsLeft
<1>6. ASSUME GetSession(r) PROVE Nearer(r)
  <2>1. Onto(r, "checkNoSession") \/ Onto(r, "readSession")
    BY <1>1, <1>6, GoesOn, Zenon DEF GetSession, Goto
  <2>2. req[r].pc = "getSession"
    BY <1>6 DEF GetSession
  <2> QED
    BY <2>1, <2>2 DEF Onto, Nearer, StepsLeft
<1>7. ASSUME ReadSession(r) PROVE Nearer(r)
  <2>1. \/ Onto(r, "checkNoSession")
        \/ req'[r].pc = "checkSession" /\ req'[r].op = req[r].op /\ req'[r].row = req[r].row
    BY <1>1, <1>7, GoesOn, TakesOn, Zenon DEF ReadSession, Goto
  <2>2. req[r].pc = "readSession"
    BY <1>7 DEF ReadSession
  <2> QED
    BY <1>3, <2>1, <2>2 DEF Onto, Nearer, StepsLeft
<1>8. ASSUME CheckSession(r) PROVE Nearer(r)
  <2>1. Answer(r, 500) \/ Onto(r, "updateSession")
    BY <1>1, <1>8, GoesOn, Zenon DEF CheckSession
  <2>2. req[r].pc = "checkSession"
    BY <1>8 DEF CheckSession
  <2> QED
    BY <1>2, <1>4, <2>1, <2>2 DEF Onto, Nearer, StepsLeft
<1>9. ASSUME CheckNoSession(r) PROVE Nearer(r)
  <2>1. Answer(r, 500) \/ Onto(r, "getPersona")
    BY <1>1, <1>9, GoesOn, Zenon DEF CheckNoSession, Goto
  <2>2. req[r].pc = "checkNoSession"
    BY <1>9 DEF CheckNoSession
  <2> QED
    BY <1>2, <1>4, <2>1, <2>2 DEF Onto, Nearer, StepsLeft
<1>10. ASSUME GetPersona(r) PROVE Nearer(r)
  <2>1. Onto(r, "insertSession")
    BY <1>1, <1>10, GoesOn, Zenon DEF GetPersona
  <2>2. req[r].pc = "getPersona"
    BY <1>10 DEF GetPersona
  <2> QED
    BY <2>1, <2>2 DEF Onto, Nearer, StepsLeft
<1>11. ASSUME UpdateSession(r) \/ RefreshEntitlements(r) PROVE Nearer(r)
  <2>1. Onto(r, "sign")
    BY <1>1, <1>11, GoesOn, Zenon DEF UpdateSession, RefreshEntitlements, Goto
  <2> QED
    BY <1>11, <2>1 DEF UpdateSession, RefreshEntitlements, Onto, Nearer, StepsLeft
<1>12. ASSUME InsertSession(r) PROVE Nearer(r)
  <2>1. Answer(r, 500) \/ (req'[r].pc = "sign" /\ req'[r].op = req[r].op /\ req'[r].row = req[r].row)
    BY <1>1, <1>12, TakesOn, Zenon DEF InsertSession
  <2> QED
    BY <1>2, <1>3, <1>4, <1>12, <2>1 DEF InsertSession, Nearer, StepsLeft
<1>13. ASSUME Sign(r) PROVE Nearer(r)
  <2>1. Onto(r, "done")
    <3> DEFINE q == [req[r] EXCEPT !.pc = "done", !.status = 200, !.exp = now + req[r].dur, !.signed = now, !.persona = None]
    <3>1. req'[r] = q
      BY <1>1, <1>13, OnlyOwnEntry DEF Sign
    <3>2. q.pc = "done" /\ q.op = req[r].op /\ q.row = req[r].row /\ q.event = req[r].event
      BY <1>1 DEF TypeOK, Request
    <3> QED
      BY <3>1, <3>2 DEF Onto
  <2> QED
    BY <1>13, <2>1 DEF Sign, Onto, Nearer, StepsLeft
<1>14. ASSUME Lookup(r) PROVE Nearer(r)
  <2>1. Answer(r, 404) \/ req'[r].pc = "checkExpiry"
    BY <1>1, <1>14, TakesOn, Zenon DEF Lookup
  <2>2. req[r].pc = "lookup"
    BY <1>14 DEF Lookup
  <2> QED
    BY <1>2, <1>4, <1>14, <2>1, <2>2 DEF Nearer, StepsLeft
<1>15. ASSUME CheckExpiry(r) PROVE Nearer(r)
  <2>1. Onto(r, "expire") \/ Onto(r, "entitle")
    BY <1>1, <1>15, GoesOn, Zenon DEF CheckExpiry, Goto
  <2>2. req[r].pc = "checkExpiry" /\ req[r].op = "refresh"
    BY <1>1, <1>15 DEF CheckExpiry, Shape
  <2> QED
    BY <2>1, <2>2 DEF Onto, Nearer, StepsLeft
<1>16. ASSUME FindSession(r) PROVE Nearer(r)
  <2>1. Answer(r, 404) \/ Onto(r, "deleteSession")
    BY <1>1, <1>16, GoesOn, Zenon DEF FindSession
  <2>2. req[r].pc = "findSession"
    BY <1>16 DEF FindSession
  <2> QED
    BY <1>2, <1>4, <2>1, <2>2 DEF Onto, Nearer, StepsLeft
<1>17. ASSUME ExpireSession(r) \/ DeleteSession(r) PROVE Nearer(r)
  BY <1>2, <1>4, <1>17 DEF ExpireSession, DeleteSession
<1> QED
  BY <1>5, <1>6, <1>7, <1>8, <1>9, <1>10, <1>11, <1>12, <1>13, <1>14, <1>15, <1>16, <1>17 DEF Step

\* A step leaves a request as it is, brings it nearer its end, or is its arrival.
LEMMA RequestChanges ==
  ASSUME IInv, [Next]_vars, NEW p \in Requests
  PROVE  \/ req'[p] = req[p]
         \/ Nearer(p)
         \/ req[p].pc = "idle" /\ req'[p].row = None
<1> DEFINE Goal == req'[p] = req[p] \/ Nearer(p) \/ (req[p].pc = "idle" /\ req'[p].row = None)
<1>1. TypeOK /\ req[p] \in Request
  BY DEF IInv, TypeOK
<1>2. ASSUME NEW r \in Requests, NEW q, Becomes(r, q), r # p PROVE Goal
  BY <1>1, <1>2, OnlyOwnEntry
<1>3. ASSUME NEW r \in Requests, Arrive(r) PROVE Goal
  <2>1. ASSUME NEW q, Becomes(r, q), req[r].pc = "idle", q.row = None PROVE Goal
    BY <1>1, <1>2, <2>1, OnlyOwnEntry
  <2>2. req[r].pc = "idle"
    BY <1>3 DEF Arrive, ArriveToken, ArriveRefresh, ArriveInvalidate
  <2>3. ASSUME NEW subject, NEW lifetime, ArriveToken(r, subject, lifetime) PROVE Goal
    <3> DEFINE q == [Idle EXCEPT !.op = "token", !.pc = "entitle", !.subject = subject, !.idpExp = now + lifetime]
    <3>1. q.row = None
      BY DEF Idle
    <3> QED
      BY <2>1, <2>2, <2>3, <3>1 DEF ArriveToken
  <2>4. ASSUME NEW event, ArriveRefresh(r, event) PROVE Goal
    <3> DEFINE q == [Idle EXCEPT !.op = "refresh", !.pc = "lookup", !.event = event, !.dead = event \in revoked]
    <3>1. q.row = None
      BY DEF Idle
    <3> QED
      BY <2>1, <2>2, <2>4, <3>1 DEF ArriveRefresh
  <2>5. ASSUME NEW subject, ArriveInvalidate(r, subject) PROVE Goal
    <3> DEFINE q == [Idle EXCEPT !.op = "invalidate", !.pc = "findSession", !.subject = subject]
    <3>1. q.row = None
      BY DEF Idle
    <3> QED
      BY <2>1, <2>2, <2>5, <3>1 DEF ArriveInvalidate
  <2> QED
    BY <1>3, <2>3, <2>4, <2>5 DEF Arrive
<1>4. ASSUME NEW r \in Requests, Step(r) PROVE Goal
  <2>1. \E q : Becomes(r, q)
    BY <1>4 DEF Step, ComputeDuration, GetSession, ReadSession, CheckSession, UpdateSession, CheckNoSession,
       GetPersona, InsertSession, Lookup, CheckExpiry, ExpireSession, RefreshEntitlements, FindSession,
       DeleteSession, Sign, Goto, Answer
  <2> QED
    BY <1>2, <1>4, <2>1, StepNearer
<1>5. ASSUME NEW r \in Requests, StatementFails(r) PROVE Goal
  <2>1. req[r].pc \in Awaits /\ \/ \E status \in {404, 500} : Answer(r, status)
                                \/ Becomes(r, Lose(req[r]))
    BY <1>5 DEF StatementFails
  <2>2. req'[r] = Lose(req[r]) \/ \E status \in {404, 500} : req'[r] = Answered(req[r], status)
    BY <1>1, <2>1, OnlyOwnEntry, AnswerForm
  <2>3. Nearer(r)
    BY <2>1, <2>2, EndsNearer
  <2> QED
    BY <1>2, <2>1, <2>3 DEF Answer
<1>6. CASE Crash
  <2>1. req'[p] = req[p] \/ (req[p].pc \in Awaits /\ req'[p] = Lose(req[p]))
    BY <1>6 DEF Crash
  <2> QED
    BY <2>1, EndsNearer
<1>7. ASSUME NEW k \in PersonaKeys, InsertPersona(k) \/ DeletePersona(k) PROVE Goal
  BY <1>7 DEF InsertPersona, DeletePersona
<1>8. CASE Tick \/ UNCHANGED vars
  BY <1>8 DEF Tick, vars
<1> QED
  BY <1>3, <1>4, <1>5, <1>6, <1>7, <1>8 DEF Next

\* No handler, for any number of requests and whatever fails, waits twice at one await:
\* what EveryRequestEnds adds is only that the event loop takes the next step.
THEOREM HandlersAdvance == Spec => RequestsAdvance
<1> DEFINE Advances == \A r \in Requests :
             req[r].pc # "idle" => req'[r] = req[r] \/ StepsLeft(req'[r]) < StepsLeft(req[r])
<1>1. IInv /\ [Next]_vars => Advances
  BY RequestChanges DEF Nearer
<1>2. IInv /\ [Next]_vars => [Advances]_vars
  BY <1>1
<1> QED
  BY <1>2, Inductive, PTL DEF Spec, RequestsAdvance

\* A row that carries an event_id the table already knew is of the persona it was of.
LEMMA RowsKeepPersona ==
  ASSUME IInv, [Next]_vars, NEW t \in sessions', t.event_id \in Known
  PROVE  \E s \in sessions : s.event_id = t.event_id /\ s.personakey = t.personakey
<1>1. ASSUME NEW k, DeleteSessions(k) PROVE t \in sessions
  BY <1>1 DEF DeleteSessions
<1>2. ASSUME NEW r \in Requests, UpdateSession(r)
      PROVE  \E s \in sessions : s.event_id = t.event_id /\ s.personakey = t.personakey
  <2>1. PICK u \in sessions : t = IF u.personakey = req[r].persona
                                    THEN NewRow(r, u.personakey, u.event_id) ELSE u
    BY <1>2 DEF UpdateSession
  <2> QED
    BY <2>1 DEF NewRow
<1>3. ASSUME NEW r \in Requests, InsertSession(r) PROVE t \in sessions
  <2>1. t \in sessions \/ t = NewRow(r, req[r].persona, r)
    BY <1>3 DEF InsertSession
  <2>2. r \notin Known
    BY <1>3 DEF InsertSession, IInv, TableInv, KnownIsInserted
  <2> QED
    BY <2>1, <2>2 DEF NewRow
<1> QED
  BY <1>1, <1>2, <1>3, TableChanges

\* A refresh that has read a row was given an event_id the table knows.
LEMMA ReadRowsAreKnown ==
  ASSUME IInv, NEW r \in Requests, req[r].row # None
  PROVE  req[r].event \in Known
<1>1. req[r].event \in HandedOut
  BY DEF IInv, RequestInv, Shape
<1>2. PICK q \in Requests : Granted(q) /\ req[q].event = req[r].event
  BY <1>1 DEF HandedOut, Granted
<1> QED
  BY <1>2 DEF IInv, RequestInv, Holding, Names, Granted

LEMMA ReadRowsStep ==
  ASSUME IInv, ReadRowsKeepOwner, [Next]_vars
  PROVE  ReadRowsKeepOwner'
<1> SUFFICES ASSUME NEW p \in Requests, NEW t \in sessions', req'[p].row # None, t.event_id = req'[p].event
             PROVE  t.personakey = req'[p].row.personakey
  BY DEF ReadRowsKeepOwner
<1>1. CASE req'[p].row = req[p].row /\ req'[p].event = req[p].event
  <2>1. t.event_id \in Known
    BY <1>1, ReadRowsAreKnown
  <2>2. PICK s \in sessions : s.event_id = t.event_id /\ s.personakey = t.personakey
    BY <2>1, RowsKeepPersona
  <2> QED
    BY <1>1, <2>2 DEF ReadRowsKeepOwner
<1>2. CASE Lookup(p)
  <2>1. req[p] \in Request /\ TypeOK
    BY DEF IInv, TypeOK
  <2>2. ASSUME NEW s \in sessions, s.event_id = req[p].event,
               Becomes(p, [req[p] EXCEPT !.pc = "checkExpiry", !.row = s])
        PROVE  req'[p].row = s /\ req'[p].event = req[p].event
    BY <2>1, <2>2, TakesOn
  <2>3. ASSUME Answer(p, 404) PROVE FALSE
    BY <2>1, <2>3, OnlyOwnEntry, AnswerForm, AnsweredFields
  <2>4. PICK s \in sessions : s.event_id = req[p].event /\ req'[p].row = s /\ req'[p].event = req[p].event
    BY <1>2, <2>2, <2>3 DEF Lookup
  <2>5. t \in sessions
    BY <1>2 DEF Lookup
  <2> QED
    BY <2>4, <2>5 DEF IInv, TableInv, EventIdsIdentify
<1> QED
  BY <1>1, <1>2, RequestChanges DEF Nearer

\* Whatever a refresh read is of the persona of any session its refresh token names.
THEOREM ReadRowsAreOwn == Spec => []ReadRowsKeepOwner
<1>1. Init => ReadRowsKeepOwner
  BY DEF Init, ReadRowsKeepOwner
<1>2. IInv /\ ReadRowsKeepOwner /\ [Next]_vars => ReadRowsKeepOwner'
  BY ReadRowsStep
<1> QED
  BY <1>1, <1>2, Inductive, PTL DEF Spec

\* A 403 for an expired session leaves none that its refresh token names, although the
\* row was read an await before and is deleted by another column.
THEOREM ExpiryRemoves == Spec => ExpiryRemovesItsSession
<1> DEFINE Removes == \A r \in Requests : ExpireSession(r) => \A s \in sessions' : s.event_id # req[r].event
<1>1. ASSUME IInv, ReadRowsKeepOwner PROVE Removes
  <2> SUFFICES ASSUME NEW r \in Requests, ExpireSession(r), NEW s \in sessions', s.event_id = req[r].event
               PROVE  FALSE
    OBVIOUS
  <2>1. s \in sessions /\ s.personakey # req[r].row.personakey
    BY DEF ExpireSession, DeleteSessions
  <2>2. req[r].row # None
    <3>1. Shape(req[r]) /\ req[r].pc = "expire"
      BY <1>1 DEF IInv, RequestInv, ExpireSession
    <3> QED
      BY <3>1 DEF Shape, TokenAwaits, RefreshAwaits
  <2> QED
    BY <1>1, <2>1, <2>2 DEF ReadRowsKeepOwner
<1>2. IInv /\ ReadRowsKeepOwner => [Removes]_vars
  BY <1>1
<1> QED
  BY <1>2, Inductive, ReadRowsAreOwn, PTL DEF ExpiryRemovesItsSession
=============================================================================
