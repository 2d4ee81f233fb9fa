------------------------ MODULE AuthenticatorProofs ------------------------
(* The inductive invariant of Authenticator, and what follows from it. *)
EXTENDS Authenticator, TLAPS

-----------------------------------------------------------------------------
(* How far a step takes a request. *)

\* The forms that a step of a request takes when it leaves it in flight.
Stays(r) == req'[r] = req[r]
Begins(r) == req'[r].pc = "tenant" /\ req'[r].call \in Calls
GetsURI(r) ==
  /\ req[r].pc = "tenant" /\ req'[r].pc = "key" /\ req'[r].call = req[r].call
  /\ \E t \in TenantsOf(req[r].call.token) : UriOf[t] = req'[r].uri
GetsKey(r) ==
  /\ req[r].pc = "key" /\ req'[r].pc = "role" /\ req'[r].call = req[r].call
  /\ req[r].call.token.kid \in Remembered(req[r].uri) \cup Fetched(req[r].uri)
  /\ req[r].call.token.signer = req[r].call.token.kid
GetsIn(r) ==
  /\ req[r].pc = "role" /\ req'[r].pc = "handle" /\ req'[r].call = req[r].call
  /\ HoldsRole(req[r].call)

Moves(r) == Stays(r) \/ Begins(r) \/ GetsURI(r) \/ GetsKey(r) \/ GetsIn(r)

\* A subject is shown a role that matches exactly when it holds the role of the scheme.
LEMMA ShownIsHeld ==
  ASSUME TypeOK, NEW call \in Call
  PROVE  (\E name \in RolesShown(call.token.sub, call.client) : Matches(name, Required(call.op)))
           <=> HoldsRole(call)
<1>1. \A row \in view : SuffixOf[row.name] # UsherAdmin
  BY SuffixAssumption DEF TypeOK, Row
<1>2. \A row \in view : Matches(row.name, Required(call.op)) <=>
                          IF call.op = "admin" THEN row.name = UsherAdmin
                          ELSE row.name = ClientAdmin \/ SuffixOf[row.name] = ClientAdmin
  BY <1>1 DEF Matches, Required
<1> QED
  BY <1>2 DEF RolesShown, HoldsRole

LEMMA HandleAnswers ==
  ASSUME NEW r \in Requests, Handle(r)
  PROVE  Handles(r)
BY DEF Handle, CreatePersonaRoles, DeletePersonaRole, DeletePersona, CreateTenant,
       DeleteClient, UpdateClient, HandleOther

\* A request that a step leaves in flight stayed where it was or moved one place on.
LEMMA Progress ==
  ASSUME IInv, Act, NEW r \in Requests, req'[r].pc \in InFlight
  PROVE  Moves(r)
<1> USE DEF InFlight, Awaits
<1>0. req \in [Requests -> Request]
  BY DEF IInv, TypeOK
<1>1. ASSUME NEW s \in Requests, NEW q, Becomes(s, q), s # r
      PROVE  Moves(r)
  BY <1>0, <1>1 DEF Becomes, Moves, Stays
<1>2. ASSUME NEW s \in Requests, NEW call \in Calls, Arrive(s, call)
      PROVE  Moves(r)
  <2>1. CASE s # r
    BY <1>1, <1>2, <2>1 DEF Arrive, Answer
  <2>2. CASE s = r
    BY <1>0, <1>2, <2>2 DEF Arrive, Answer, Becomes, Idle, Moves, Begins
  <2> QED
    BY <2>1, <2>2
<1>3. ASSUME NEW s \in Requests, SelectIssuerJWKS(s)
      PROVE  Moves(r)
  <2>1. CASE s # r
    BY <1>1, <1>3, <2>1 DEF SelectIssuerJWKS, Answer
  <2>2. CASE s = r
    <3>1. ~Answer(r)
      BY <1>0 DEF Answer, Becomes, Idle
    <3>2. PICK t \in TenantsOf(req[r].call.token) :
            Becomes(r, [req[r] EXCEPT !.pc = "key", !.uri = UriOf[t]])
      BY <1>3, <2>2, <3>1 DEF SelectIssuerJWKS
    <3>3. req'[r].pc = "key" /\ req'[r].call = req[r].call /\ req'[r].uri = UriOf[t]
      BY <1>0, <3>2 DEF Becomes, Request
    <3> QED
      BY <1>3, <2>2, <3>2, <3>3 DEF SelectIssuerJWKS, Moves, GetsURI
  <2> QED
    BY <2>1, <2>2
<1>4. ASSUME NEW s \in Requests, GetSigningKey(s)
      PROVE  Moves(r)
  <2>1. CASE s # r
    BY <1>1, <1>4, <2>1 DEF GetSigningKey, Verify, Answer
  <2>2. CASE s = r
    BY <1>0, <1>4, <2>2 DEF GetSigningKey, Verify, Answer, Becomes, Idle, Moves, GetsKey, Request
  <2> QED
    BY <2>1, <2>2
<1>5. ASSUME NEW s \in Requests, SelectRoles(s)
      PROVE  Moves(r)
  <2>1. CASE s # r
    BY <1>1, <1>5, <2>1 DEF SelectRoles, Answer, Goto
  <2>2. CASE s = r
    <3>1. req[r].call \in Call
      BY <1>5, <2>2 DEF SelectRoles, IInv, RequestInv
    <3>2. HoldsRole(req[r].call)
      BY <1>0, <1>5, <2>2, <3>1, ShownIsHeld DEF SelectRoles, Answer, Becomes, Idle, IInv
    <3> QED
      BY <1>0, <1>5, <2>2, <3>2 DEF SelectRoles, Answer, Goto, Becomes, Idle, Moves, GetsIn, Request
  <2> QED
    BY <2>1, <2>2
<1>6. ASSUME NEW s \in Requests, Handles(s) \/ StatementFails(s)
      PROVE  Moves(r)
  <2>1. Answer(s)
    BY <1>6 DEF Handles, StatementFails
  <2>2. s # r
    BY <1>0, <2>1 DEF Answer, Becomes, Idle
  <2> QED
    BY <1>1, <2>1, <2>2 DEF Answer
<1>7. ASSUME NEW u \in Uris, NEW k \in Keys, Rotate(u, k) \/ Forget(u, k)
      PROVE  Moves(r)
  BY <1>7 DEF Rotate, Forget, Moves, Stays
<1>9. ASSUME NEW u \in Uris, Refill(u)
      PROVE  Moves(r)
  BY <1>9 DEF Refill, Moves, Stays
<1>8. ASSUME Crash
      PROVE  Moves(r)
  BY <1>8 DEF Crash, Idle, Moves, Stays
<1> QED
  BY <1>2, <1>3, <1>4, <1>5, <1>6, <1>7, <1>8, <1>9, HandleAnswers DEF Act, Step

\* A crash leaves nothing in flight.
LEMMA CrashEndsAll ==
  ASSUME Crash, NEW r \in Requests
  PROVE  req'[r].pc \notin InFlight
BY DEF Crash, Idle, InFlight, Awaits

\* Tenants are never taken away, and a key once seen stays seen until a crash.
LEMMA Grows ==
  ASSUME TypeOK, Act
  PROVE  /\ registered \subseteq registered'
         /\ Crash \/ \A u \in Uris : seen[u] \subseteq seen'[u]
<1>1. ASSUME NEW r \in Requests, Handle(r)
      PROVE  registered \subseteq registered' /\ seen' = seen
  BY <1>1 DEF Handle, CreatePersonaRoles, DeletePersonaRole, DeletePersona, CreateTenant,
              DeleteClient, UpdateClient, HandleOther, Handles, idp, db
<1>2. ASSUME NEW r \in Requests, NEW call \in Calls, Arrive(r, call)
      PROVE  registered' = registered /\ seen' = seen
  BY <1>2 DEF Arrive, db, idp
<1>3. ASSUME NEW r \in Requests, SelectIssuerJWKS(r) \/ GetSigningKey(r) \/ SelectRoles(r) \/ StatementFails(r)
      PROVE  registered' = registered /\ seen' = seen
  BY <1>3 DEF SelectIssuerJWKS, GetSigningKey, SelectRoles, StatementFails, db, idp
<1>4. ASSUME NEW u \in Uris, NEW k \in Keys, Rotate(u, k)
      PROVE  registered' = registered /\ \A v \in Uris : seen[v] \subseteq seen'[v]
  BY <1>4 DEF Rotate, db, TypeOK
<1>5. ASSUME NEW u \in Uris, NEW k \in Keys, Forget(u, k)
      PROVE  registered' = registered /\ seen' = seen
  BY <1>5 DEF Forget, db, idp
<1>6. Crash => registered' = registered
  BY DEF Crash, db
<1>7. ASSUME NEW u \in Uris, Refill(u)
      PROVE  registered' = registered /\ seen' = seen
  BY <1>7 DEF Refill, db, idp
<1> QED
  BY <1>1, <1>2, <1>3, <1>4, <1>5, <1>6, <1>7 DEF Act, Step

-----------------------------------------------------------------------------
(* Types. *)

LEMMA BecomesType ==
  ASSUME TypeOK, NEW r \in Requests, NEW q \in Request, Becomes(r, q)
  PROVE  req' \in [Requests -> Request]
BY DEF TypeOK, Becomes

LEMMA AnswerType ==
  ASSUME TypeOK, NEW r \in Requests, Answer(r)
  PROVE  req' \in [Requests -> Request]
<1>1. [Idle EXCEPT !.pc = "answered"] \in Request
  BY DEF Idle, Request
<1> QED
  BY <1>1, BecomesType DEF Answer

LEMMA GotoType ==
  ASSUME TypeOK, NEW r \in Requests, NEW pc \in InFlight, Goto(r, pc)
  PROVE  req' \in [Requests -> Request]
<1>1. [req[r] EXCEPT !.pc = pc] \in Request
  BY DEF TypeOK, Request
<1> QED
  BY <1>1, BecomesType DEF Goto

\* What a handler leaves in the view of the roles are rows.
LEMMA HandleType ==
  ASSUME TypeOK, NEW r \in Requests, Handle(r)
  PROVE  registered' \subseteq Tenants /\ view' \subseteq Row
<1>1. ASSUME NEW p \in Personas, DeletePersona(r, p)
      PROVE  registered' \subseteq Tenants /\ view' \subseteq Row
  BY <1>1 DEF TypeOK, DeletePersona
<1>2. ASSUME NEW p \in Personas, NEW rows \in SUBSET {row \in Assignable : row.persona = p},
             CreatePersonaRoles(r, rows)
      PROVE  registered' \subseteq Tenants /\ view' \subseteq Row
  BY <1>2, DataAssumption DEF TypeOK, CreatePersonaRoles
<1>3. ASSUME NEW row \in view, DeletePersonaRole(r, row)
      PROVE  registered' \subseteq Tenants /\ view' \subseteq Row
  BY <1>3 DEF TypeOK, DeletePersonaRole
<1>4. ASSUME NEW t \in Tenants, CreateTenant(r, t)
      PROVE  registered' \subseteq Tenants /\ view' \subseteq Row
  BY <1>4 DEF TypeOK, CreateTenant
<1>5. ASSUME NEW id \in ClientIds, DeleteClient(r, id)
      PROVE  registered' \subseteq Tenants /\ view' \subseteq Row
  BY <1>5 DEF TypeOK, DeleteClient
<1>6. ASSUME NEW id \in ClientIds, NEW new \in ClientIds, UpdateClient(r, id, new)
      PROVE  registered' \subseteq Tenants /\ view' \subseteq Row
  <2>1. \A row \in view : (IF row.client = id THEN [row EXCEPT !.client = new] ELSE row) \in Row
    BY DEF TypeOK, Row
  <2> QED
    BY <1>6, <2>1 DEF TypeOK, UpdateClient
<1>7. HandleOther(r) => registered' \subseteq Tenants /\ view' \subseteq Row
  BY DEF TypeOK, HandleOther, db
<1> QED
  BY <1>1, <1>2, <1>3, <1>4, <1>5, <1>6, <1>7 DEF Handle

LEMMA TypeNext ==
  ASSUME IInv, Next
  PROVE  TypeOK'
<1>0. TypeOK /\ could' \subseteq Requests /\ must' \subseteq Requests \X Uris
  BY DEF IInv, Next, Remember
<1>1. ASSUME NEW r \in Requests, NEW call \in Calls, Arrive(r, call)
      PROVE  TypeOK'
  <2>1. [Idle EXCEPT !.pc = "tenant", !.call = call] \in Request
    BY DataAssumption DEF Idle, Request, InFlight, Awaits
  <2>2. req' \in [Requests -> Request]
    BY <1>0, <1>1, <2>1, BecomesType, AnswerType DEF Arrive
  <2> QED
    BY <1>0, <1>1, <2>2 DEF TypeOK, Arrive, db, idp, clients
<1>2. ASSUME NEW r \in Requests, SelectIssuerJWKS(r)
      PROVE  TypeOK'
  <2>1. \A t \in TenantsOf(req[r].call.token) : [req[r] EXCEPT !.pc = "key", !.uri = UriOf[t]] \in Request
    <3>1. \A t \in TenantsOf(req[r].call.token) : UriOf[t] \in Uris
      BY <1>0, DataAssumption DEF TypeOK, TenantsOf
    <3>2. req[r] \in Request
      BY <1>0 DEF TypeOK
    <3> QED
      BY <3>1, <3>2 DEF Request, InFlight, Awaits
  <2>2. req' \in [Requests -> Request]
    BY <1>0, <1>2, <2>1, BecomesType, AnswerType DEF SelectIssuerJWKS
  <2> QED
    BY <1>0, <1>2, <2>2 DEF TypeOK, SelectIssuerJWKS, db, idp, clients
<1>3. ASSUME NEW r \in Requests, GetSigningKey(r)
      PROVE  TypeOK'
  <2>1. [req[r] EXCEPT !.pc = "role", !.uri = None] \in Request
    BY <1>0 DEF TypeOK, Request, InFlight, Awaits
  <2>2. req' \in [Requests -> Request]
    BY <1>0, <1>3, <2>1, BecomesType, AnswerType DEF GetSigningKey, Verify
  <2>3. req[r].call.token.kid \in Keys
    BY <1>3 DEF GetSigningKey, IInv, RequestInv, InFlight, Awaits, Call, Token
  <2>4. cached' \in [Uris -> SUBSET Keys]
    BY <1>0, <1>3, <2>3 DEF TypeOK, GetSigningKey, clients
  <2>5. fetches' \in [Uris -> 0 .. MaxFetches]
    BY <1>0, <1>3, FetchesAssumption DEF TypeOK, GetSigningKey, clients
  <2> QED
    BY <1>0, <1>3, <2>2, <2>4, <2>5 DEF TypeOK, GetSigningKey, db, idp
<1>4. ASSUME NEW r \in Requests, SelectRoles(r)
      PROVE  TypeOK'
  <2>1. req' \in [Requests -> Request]
    BY <1>0, <1>4, GotoType, AnswerType DEF SelectRoles, InFlight
  <2> QED
    BY <1>0, <1>4, <2>1 DEF TypeOK, SelectRoles, db, idp, clients
<1>5. ASSUME NEW r \in Requests, Handle(r)
      PROVE  TypeOK'
  <2>1. req' \in [Requests -> Request]
    BY <1>0, <1>5, AnswerType, HandleAnswers DEF Handles
  <2> QED
    BY <1>0, <1>5, <2>1, HandleType, HandleAnswers DEF TypeOK, Handles, idp, clients
<1>6. ASSUME NEW r \in Requests, StatementFails(r)
      PROVE  TypeOK'
  <2>1. req' \in [Requests -> Request]
    BY <1>0, <1>6, AnswerType DEF StatementFails
  <2> QED
    BY <1>0, <1>6, <2>1 DEF TypeOK, StatementFails, db, idp, clients
<1>7. ASSUME NEW u \in Uris, NEW k \in Keys, Rotate(u, k)
      PROVE  TypeOK'
  <2>1. published' \in [Uris -> SUBSET Keys]
    BY <1>0, <1>7 DEF TypeOK, Rotate
  <2>2. seen' \in [Uris -> SUBSET Keys]
    BY <1>0, <1>7, <2>1 DEF TypeOK, Rotate
  <2> QED
    BY <1>0, <1>7, <2>1, <2>2 DEF TypeOK, Rotate, db, clients
<1>8. ASSUME NEW u \in Uris, NEW k \in Keys, Forget(u, k)
      PROVE  TypeOK'
  BY <1>0, <1>8 DEF TypeOK, Forget, db, idp
<1>10. ASSUME NEW u \in Uris, Refill(u)
       PROVE  TypeOK'
  <2>1. fetches' \in [Uris -> 0 .. MaxFetches]
    BY <1>0, <1>10, FetchesAssumption DEF TypeOK, Refill
  <2> QED
    BY <1>0, <1>10, <2>1 DEF TypeOK, Refill, db, idp
<1>9. ASSUME Crash
      PROVE  TypeOK'
  <2>1. [Idle EXCEPT !.pc = "stopped"] \in Request
    BY DEF Idle, Request
  <2>2. req' \in [Requests -> Request]
    BY <1>0, <1>9, <2>1 DEF TypeOK, Crash
  <2> QED
    BY <1>0, <1>9, <2>2, FetchesAssumption DEF TypeOK, Crash, db
<1> QED
  BY <1>1, <1>2, <1>3, <1>4, <1>5, <1>6, <1>7, <1>8, <1>9, <1>10 DEF Next, Act, Step

-----------------------------------------------------------------------------
(* The other parts of the invariant. *)

\* A tenant of a token's issuer stays one.
LEMMA TenantsGrow ==
  ASSUME TypeOK, Act, NEW token
  PROVE  TenantsOf(token) \subseteq TenantsOf(token)'
BY Grows DEF TenantsOf

LEMMA RequestNext ==
  ASSUME IInv, Next
  PROVE  RequestInv'
<1> SUFFICES ASSUME NEW r \in Requests, req'[r].pc \in InFlight
             PROVE  /\ req'[r].call \in Call
                    /\ req'[r].pc = "key" =>
                         \E t \in TenantsOf(req[r].call.token)' : UriOf[t] = req'[r].uri
  BY DEF RequestInv, InFlight, Awaits
<1> USE DEF InFlight, Awaits
<1>1. TypeOK /\ Act /\ Moves(r)
  BY Progress DEF IInv, Next
<1>2. CASE Begins(r)
  BY <1>2, DataAssumption DEF Begins
<1>3. CASE Stays(r)
  BY <1>1, <1>3, TenantsGrow DEF Stays, IInv, RequestInv
<1>4. CASE GetsURI(r)
  BY <1>1, <1>4, TenantsGrow DEF GetsURI, IInv, RequestInv
<1>5. CASE GetsKey(r) \/ GetsIn(r)
  BY <1>5 DEF GetsKey, GetsIn, IInv, RequestInv
<1> QED
  BY <1>1, <1>2, <1>3, <1>4, <1>5 DEF Moves

LEMMA CacheNext ==
  ASSUME IInv, Next
  PROVE  CacheInv'
<1>0. TypeOK /\ CacheInv
  BY DEF IInv
<1>1. ASSUME NEW r \in Requests, GetSigningKey(r)
      PROVE  CacheInv'
  <2>1. PICK t \in Tenants : UriOf[t] = req[r].uri
    BY <1>0, <1>1 DEF GetSigningKey, IInv, RequestInv, TypeOK, TenantsOf
  <2>2. req[r].uri \in Uris
    BY <2>1, DataAssumption
  <2>3. \A u \in Uris : cached'[u] \subseteq seen[u]
    BY <1>0, <1>1, <2>2 DEF GetSigningKey, CacheInv, TypeOK, Fetched, clients
  <2> QED
    BY <1>0, <1>1, <2>3 DEF CacheInv, GetSigningKey, idp
<1>2. ASSUME NEW u \in Uris, NEW k \in Keys, Rotate(u, k)
      PROVE  CacheInv'
  <2>1. \A v \in Uris : seen'[v] = IF v = u THEN seen[v] \cup published'[v] ELSE seen[v]
    BY <1>0, <1>2 DEF Rotate, TypeOK
  <2>2. \A v \in Uris : v # u => published'[v] = published[v]
    BY <1>0, <1>2 DEF Rotate, TypeOK
  <2> QED
    BY <1>0, <1>2, <2>1, <2>2 DEF CacheInv, Rotate, clients
<1>3. ASSUME NEW u \in Uris, NEW k \in Keys, Forget(u, k)
      PROVE  CacheInv'
  BY <1>0, <1>3 DEF CacheInv, Forget, idp, TypeOK
<1>4. ASSUME Crash
      PROVE  CacheInv'
  BY <1>0, <1>4 DEF CacheInv, Crash, TypeOK
<1>5. ASSUME UNCHANGED <<published, seen, cached>>
      PROVE  CacheInv'
  BY <1>0, <1>5 DEF CacheInv
<1>6. ASSUME NEW r \in Requests, NEW call \in Calls, Arrive(r, call)
      PROVE  UNCHANGED <<published, seen, cached>>
  BY <1>6 DEF Arrive, idp, clients
<1>7. ASSUME NEW r \in Requests, SelectIssuerJWKS(r) \/ SelectRoles(r) \/ Handle(r) \/ StatementFails(r)
      PROVE  UNCHANGED <<published, seen, cached>>
  BY <1>7, HandleAnswers DEF SelectIssuerJWKS, SelectRoles, Handles, StatementFails, idp, clients
<1>8. ASSUME NEW u \in Uris, Refill(u)
      PROVE  UNCHANGED <<published, seen, cached>>
  BY <1>8 DEF Refill, idp
<1> QED
  BY <1>1, <1>2, <1>3, <1>4, <1>5, <1>6, <1>7, <1>8 DEF Next, Act, Step

\* The history needs no induction: each step brings it up to date.
LEMMA HistoryNext ==
  ASSUME Next
  PROVE  HistoryInv'
BY DEF Next, Remember, HistoryInv

LEMMA RoleNext ==
  ASSUME IInv, Next
  PROVE  ActsWithRole'
<1> SUFFICES ASSUME NEW r \in Requests, req'[r].pc = "handle"
             PROVE  r \in could'
  BY DEF ActsWithRole
<1> USE DEF InFlight, Awaits
<1>1. Moves(r)
  BY Progress DEF Next
<1>2. r \in could
  BY <1>1 DEF Moves, Stays, Begins, GetsURI, GetsKey, GetsIn, IInv, ActsWithRole, HistoryInv
<1> QED
  BY <1>2 DEF Next, Remember

LEMMA KeyNext ==
  ASSUME IInv, Next
  PROVE  KeyIsTheIssuers'
<1> SUFFICES ASSUME NEW r \in Requests, req'[r].pc \in {"role", "handle"}
             PROVE  \E t \in TenantsOf(req[r].call.token)' :
                      req'[r].call.token.signer \in seen'[UriOf[t]]
  BY DEF KeyIsTheIssuers
<1>1. TypeOK /\ Act /\ Moves(r)
  BY Progress DEF IInv, Next, InFlight, Awaits
<1>2. req'[r].call = req[r].call
  BY <1>1 DEF Moves, Stays, Begins, GetsURI, GetsKey, GetsIn
<1>3. PICK t \in TenantsOf(req[r].call.token) : req[r].call.token.signer \in seen[UriOf[t]]
  <2>1. CASE GetsKey(r)
    <3>1. PICK t \in TenantsOf(req[r].call.token) : UriOf[t] = req[r].uri
      BY <2>1 DEF GetsKey, IInv, RequestInv
    <3>2. t \in Tenants /\ UriOf[t] \in Uris
      BY <1>1, DataAssumption DEF TypeOK, TenantsOf
    <3> QED
      BY <2>1, <3>1, <3>2 DEF GetsKey, Remembered, Fetched, IInv, CacheInv
  <2>2. CASE ~GetsKey(r)
    BY <1>1, <2>2 DEF Moves, Stays, Begins, GetsURI, GetsIn, IInv, KeyIsTheIssuers
  <2> QED
    BY <2>1, <2>2
<1>4. t \in TenantsOf(req[r].call.token)' /\ UriOf[t] \in Uris
  <2>1. t \in TenantsOf(req[r].call.token) /\ t \in Tenants
    BY <1>1, <1>3 DEF TypeOK, TenantsOf
  <2> QED
    BY <1>1, <1>2, <2>1, Grows, DataAssumption DEF TenantsOf
<1>5. seen[UriOf[t]] \subseteq seen'[UriOf[t]]
  BY <1>1, <1>4, Grows, CrashEndsAll DEF InFlight, Awaits
<1> QED
  BY <1>2, <1>3, <1>4, <1>5

LEMMA InvInit == ASSUME Init PROVE IInv
<1>1. Idle \in Request
  BY DEF Idle, Request
<1>2. TypeOK
  BY <1>1, DataAssumption, FetchesAssumption DEF Init, TypeOK
<1>3. \A r \in Requests : req[r].pc = "idle"
  BY DEF Init, Idle
<1>4. RequestInv /\ HistoryInv /\ ActsWithRole /\ KeyIsTheIssuers
  BY <1>3 DEF Init, RequestInv, HistoryInv, ActsWithRole, KeyIsTheIssuers, InFlight, Awaits
<1>5. CacheInv
  BY DEF Init, CacheInv
<1> QED
  BY <1>2, <1>4, <1>5 DEF IInv

LEMMA InvNext == ASSUME IInv, [Next]_vars PROVE IInv'
<1>1. CASE Next
  BY <1>1, TypeNext, RequestNext, CacheNext, HistoryNext, RoleNext, KeyNext DEF IInv
<1>2. CASE UNCHANGED vars
  BY <1>2 DEF vars, IInv, TypeOK, RequestInv, CacheInv, HistoryInv, ActsWithRole, KeyIsTheIssuers,
              TenantsOf, HoldsRole, Verifiable
<1> QED
  BY <1>1, <1>2

-----------------------------------------------------------------------------
(* Theorems. *)

\* The inductive invariant of the requests, the caches and the history holds in every
\* reachable state.
THEOREM Invariant == Spec => []IInv
BY InvInit, InvNext, PTL DEF Spec

\* Every variable keeps its type, whatever is assigned, rotated or forgotten.
THEOREM TypeCorrect == Spec => []TypeOK
<1>1. IInv => TypeOK
  BY DEF IInv
<1> QED
  BY <1>1, Invariant, PTL

\* The handler of a route runs only for a subject that had the role of the scheme since
\* the request arrived (verifyRoleGroupAccess).
THEOREM HandlersAreForHolders == Spec => []ActsWithRole
<1>1. IInv => ActsWithRole
  BY DEF IInv
<1> QED
  BY <1>1, Invariant, PTL

\* No cache lends an issuer's key to the tokens of another (jwksClients).
THEOREM KeysAreTheIssuers == Spec => []KeyIsTheIssuers
<1>1. IInv => KeyIsTheIssuers
  BY DEF IInv
<1> QED
  BY <1>1, Invariant, PTL

-----------------------------------------------------------------------------
(* Who is turned away. *)

\* A step that waits on a request's answer is one of its own reads, unless something failed.
LEMMA WhoAnswers ==
  ASSUME TypeOK, Act, NEW r \in Requests, req[r].pc \in Awaits, req'[r].pc = "answered", faults' = faults
  PROVE  SelectIssuerJWKS(r) \/ GetSigningKey(r) \/ SelectRoles(r)
<1> USE DEF Awaits, InFlight
<1>0. req \in [Requests -> Request] /\ faults # faults + 1
  BY DEF TypeOK
<1>1. ASSUME NEW s \in Requests, NEW q, Becomes(s, q)
      PROVE  s = r
  BY <1>0, <1>1 DEF Becomes
<1>2. ASSUME NEW s \in Requests, NEW call \in Calls, Arrive(s, call)
      PROVE  FALSE
  BY <1>1, <1>2 DEF Arrive, Answer
<1>3. ASSUME NEW s \in Requests, Handle(s)
      PROVE  FALSE
  BY <1>1, <1>3, HandleAnswers DEF Handles, Answer
<1>4. ASSUME NEW s \in Requests, SelectIssuerJWKS(s) \/ GetSigningKey(s) \/ SelectRoles(s)
      PROVE  s = r
  BY <1>1, <1>4 DEF SelectIssuerJWKS, GetSigningKey, Verify, SelectRoles, Answer, Goto
<1>5. ASSUME NEW s \in Requests, StatementFails(s)
      PROVE  FALSE
  BY <1>0, <1>5 DEF StatementFails
<1>6. ASSUME NEW u \in Uris, NEW k \in Keys, Rotate(u, k) \/ Forget(u, k)
      PROVE  FALSE
  BY <1>6 DEF Rotate, Forget
<1>7. ~Crash
  BY <1>0 DEF Crash
<1>8. ~\E u \in Uris : Refill(u)
  BY DEF Refill
<1> QED
  BY <1>2, <1>3, <1>4, <1>5, <1>6, <1>7, <1>8 DEF Act, Step

\* Whom the tables and the JWKS at u bear out is not answered by a read, unless the read
\* is of another URI or no fetch is left.
LEMMA HolderGoesOn ==
  ASSUME IInv, Act, NEW r \in Requests, NEW u \in Uris, <<r, u>> \in must,
         req[r].pc \in Awaits, req'[r].pc = "answered", faults' = faults, ~Limited(r)
  PROVE  req[r].pc = "key" /\ req[r].uri # u
<1> USE DEF Awaits, InFlight
<1>0. TypeOK /\ req \in [Requests -> Request] /\ req[r].call \in Call
  BY DEF IInv, TypeOK, RequestInv
<1>1. HoldsRole(req[r].call) /\ Verifiable(req[r].call.token, u)
  BY <1>0 DEF IInv, HistoryInv
<1>2. ~SelectIssuerJWKS(r)
  <2> SUFFICES ASSUME SelectIssuerJWKS(r) PROVE FALSE
    OBVIOUS
  <2>1. PICK t \in TenantsOf(req[r].call.token) :
          Becomes(r, [req[r] EXCEPT !.pc = "key", !.uri = UriOf[t]])
    BY <1>1 DEF SelectIssuerJWKS, Verifiable
  <2> QED
    BY <1>0, <2>1 DEF Becomes, Request
<1>3. ASSUME GetSigningKey(r), req[r].uri = u
      PROVE  FALSE
  <2>1. req[r].call.token.kid \in Fetched(req[r].uri)
    BY <1>1, <1>3 DEF Verifiable, Fetched
  <2>2. Verify(r)
    BY <1>0, <1>3, <2>1 DEF GetSigningKey, Limited, TypeOK
  <2>3. Becomes(r, [req[r] EXCEPT !.pc = "role", !.uri = None])
    BY <1>1, <2>2 DEF Verify, Verifiable
  <2> QED
    BY <1>0, <2>3 DEF Becomes, Request
<1>4. GetSigningKey(r) => req[r].pc = "key"
  BY DEF GetSigningKey
<1>5. ~SelectRoles(r)
  <2> SUFFICES ASSUME SelectRoles(r) PROVE FALSE
    OBVIOUS
  <2>1. Goto(r, "handle")
    BY <1>0, <1>1, ShownIsHeld DEF SelectRoles
  <2> QED
    BY <1>0, <2>1 DEF Goto, Becomes, Request
<1> QED
  BY <1>0, <1>2, <1>3, <1>4, <1>5, WhoAnswers

\* Who has the role and a key published at a URI of the issuer all along is answered 401
\* only if a statement or a fetch fails, no fetch is left at that URI, or LIMIT 1 took
\* another tenant, with another URI.
THEOREM HoldersAreAdmitted == Spec => HolderIsAdmitted
<1> DEFINE Kept == \A r \in Requests :
             /\ req[r].pc \in Awaits /\ req'[r].pc = "answered"
             /\ faults' = faults /\ ~Limited(r)
             => \A u \in Uris : <<r, u>> \in must => req[r].pc = "key" /\ req[r].uri # u
<1>1. IInv /\ [Next]_vars => [Kept]_vars
  BY HolderGoesOn DEF Next
<1> QED
  BY <1>1, Invariant, PTL DEF Spec, HolderIsAdmitted

-----------------------------------------------------------------------------
(* The last administrator. *)

\* A handler admitted as a client-admin's gives nobody a role and makes no tenant.
LEMMA ClientAdminGivesNothing ==
  ASSUME TypeOK, NEW r \in Requests, Handle(r), req[r].call.op # "admin"
  PROVE  /\ registered' = registered
         /\ \A new \in view' : \E row \in view : row.persona = new.persona /\ row.name = new.name
<1>1. ASSUME NEW id \in ClientIds, DeleteClient(r, id)
      PROVE  view' \subseteq view /\ registered' = registered
  BY <1>1 DEF DeleteClient
<1>2. ASSUME NEW id \in ClientIds, NEW new \in ClientIds, UpdateClient(r, id, new)
      PROVE  /\ registered' = registered
             /\ \A x \in view' : \E row \in view : row.persona = x.persona /\ row.name = x.name
  <2>1. \A row \in view : /\ [row EXCEPT !.client = new].persona = row.persona
                          /\ [row EXCEPT !.client = new].name = row.name
    BY DEF TypeOK, Row
  <2> QED
    BY <1>2, <2>1 DEF UpdateClient
<1>3. HandleOther(r) => view' = view /\ registered' = registered
  BY DEF HandleOther, db
<1>4. \/ \E id \in ClientIds : DeleteClient(r, id) \/ \E new \in ClientIds : UpdateClient(r, id, new)
      \/ HandleOther(r)
  BY DEF Handle, CreatePersonaRoles, DeletePersonaRole, DeletePersona, CreateTenant
<1> QED
  BY <1>1, <1>2, <1>3, <1>4

\* With nobody a usher-admin, what a step leaves in the tables was there.
LEMMA LockedKeeps ==
  ASSUME IInv, Next, Locked
  PROVE  /\ registered' = registered
         /\ \A new \in view' : \E row \in view : row.persona = new.persona /\ row.name = new.name
<1>0. TypeOK
  BY DEF IInv
<1>1. ASSUME NEW r \in Requests, Handle(r)
      PROVE  req[r].call.op # "admin"
  BY <1>1, HandleAnswers DEF Locked, Handles
<1>2. ASSUME NEW r \in Requests, NEW call \in Calls, Arrive(r, call)
      PROVE  UNCHANGED db
  BY <1>2 DEF Arrive
<1>3. ASSUME NEW r \in Requests, SelectIssuerJWKS(r) \/ GetSigningKey(r) \/ SelectRoles(r) \/ StatementFails(r)
      PROVE  UNCHANGED db
  BY <1>3 DEF SelectIssuerJWKS, GetSigningKey, SelectRoles, StatementFails
<1>4. ASSUME NEW u \in Uris, NEW k \in Keys, Rotate(u, k) \/ Forget(u, k)
      PROVE  UNCHANGED db
  BY <1>4 DEF Rotate, Forget
<1>5. Crash => UNCHANGED db
  BY DEF Crash
<1>6. ASSUME NEW u \in Uris, Refill(u)
      PROVE  UNCHANGED db
  BY <1>6 DEF Refill
<1> QED
  BY <1>0, <1>1, <1>2, <1>3, <1>4, <1>5, <1>6, ClientAdminGivesNothing DEF Next, Act, Step, db

LEMMA LockedNext ==
  ASSUME IInv, Next, Locked
  PROVE  Locked' /\ Held' \subseteq Held /\ registered' = registered
<1>1. \A row \in view' : row.persona \in Plain => row.name # UsherAdmin
  BY LockedKeeps DEF Locked
<1>2. Held' \subseteq Held
  BY LockedKeeps DEF Held
<1>3. ASSUME NEW r \in Requests, req'[r].pc = "handle"
      PROVE  req'[r].call.op # "admin"
  <2>1. Moves(r)
    BY <1>3, Progress DEF Next, InFlight
  <2>2. CASE Stays(r)
    BY <1>3, <2>2 DEF Stays, Locked
  <2>3. CASE GetsIn(r)
    BY <2>3 DEF GetsIn, HoldsRole, Locked
  <2> QED
    BY <1>3, <2>1, <2>2, <2>3 DEF Moves, Begins, GetsURI, GetsKey
<1> QED
  BY <1>1, <1>2, <1>3, LockedKeeps DEF Locked

\* Once no persona is a usher-admin, the administration API makes none again.
THEOREM LockoutStays == Spec => LockoutIsFinal
<1>1. IInv /\ [Next]_vars => [Locked => Locked' /\ Held' \subseteq Held /\ registered' = registered]_vars
  BY LockedNext
<1> QED
  BY <1>1, Invariant, PTL DEF Spec, LockoutIsFinal
=============================================================================
