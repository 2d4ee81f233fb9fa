---------------------------- MODULE Authenticator ----------------------------
(***************************************************************************)
(* The security handlers of the administration API, verifyTokenForAdmin and  *)
(* verifyTokenForClientAdmin: an IdP token is verified with a key of its     *)
(* issuer's JWKS, its subject's roles are read, and the handler of the route *)
(* runs, statements later, while the issuers change their keys and other     *)
(* admitted handlers change the very roles that admit.  The handlers' own    *)
(* statements are the subject of Catalogue; here each takes effect in one    *)
(* step on the rows of the roles view.                                       *)
(***************************************************************************)
EXTENDS Naturals

CONSTANTS
  Requests,
  Issuers, Whitelist,   \* values of iss; those in env.ISSUER_WHITELIST
  AliasOf,              \* iss -> env.ISSUER_ALIASES[iss] ?? iss
  Tenants, IssOf, UriOf,   \* tenant -> its iss_claim, its jwks_uri
  Uris, Keys,           \* a kid stands for its key
  Subs, Personas, SubOf,   \* persona -> its sub_claim
  Plain,                \* the personas whose user_context is ''
  ClientIds, AnyClient, \* '*', when no client_id header is sent
  RoleNames, SuffixOf,  \* role name -> what follows its last colon
  UsherAdmin, ClientAdmin, \* the role name and the suffix that admit
  Calls,                \* bound on the requests that arrive
  Installed,            \* what the database is set up with: rows, tenants, JWKS
  Assignable,           \* bound on the rows that are assigned
  Changing,             \* bound on the URIs and keys that Rotate concerns
  MaxFetches,           \* jwksRequestsPerMinute
  MaxRotations, MaxFaults, \* bounds
  None

VARIABLES
  registered,   \* the rows of `tenants'
  view,         \* the rows of selectTenantPersonaClientRoles
  published,    \* uri -> the keys its JWKS holds
  seen,         \* history: uri -> the keys it has held since the process started
  cached,       \* jwksClients: uri -> the keys its client remembers
  fetches,      \* uri -> the fetches its client may still make this minute
  rotations, faults,
  req,          \* request -> its progress
  could, must   \* history: requests that had the role since they arrived; those, with a
                \* URI of their issuer, that had it and a key published there throughout

db == <<registered, view>>
idp == <<published, seen, rotations>>
clients == <<cached, fetches>>
vars == <<registered, view, published, seen, cached, fetches, rotations, faults, req, could, must>>

-----------------------------------------------------------------------------
Row == [persona: Personas, client: ClientIds, name: RoleNames]

\* kid is of the header, signer the key that verifies it: None for a token that no key
\* does, or that has expired.  A token without a kid is left out.  aud: its first audience is in THEUSHER_AUD_CLAIMS.
Token == [iss: Issuers, sub: Subs, kid: Keys, signer: Keys \cup {None}, aud: BOOLEAN]

Awaits == {"tenant", "key", "role"}
InFlight == Awaits \cup {"handle"}

\* op: the security scheme that the route names.  client: the header.
Call == [op: {"admin", "clientadmin"}, token: Token, client: ClientIds \cup {AnyClient}]

Request == [pc: InFlight \cup {"idle", "answered", "stopped"}, call: Call \cup {None}, uri: Uris \cup {None}]

Idle == [pc |-> "idle", call |-> None, uri |-> None]

ASSUME DataAssumption ==
  /\ Whitelist \subseteq Issuers /\ AliasOf \in [Issuers -> Issuers]
  /\ IssOf \in [Tenants -> Issuers] /\ UriOf \in [Tenants -> Uris]
  /\ SubOf \in [Personas -> Subs] /\ Plain \subseteq Personas
  /\ Calls \subseteq Call
  /\ Assignable \subseteq Row
  /\ Installed.view \subseteq Row /\ Installed.tenants \subseteq Tenants
  /\ Installed.published \in [Uris -> SUBSET Keys]

ASSUME FetchesAssumption == MaxFetches \in Nat

\* The usher's role name has a colon, a suffix has none.
ASSUME SuffixAssumption == \A name \in RoleNames : SuffixOf[name] # UsherAdmin

Init ==
  /\ registered = Installed.tenants /\ view = Installed.view
  /\ published = Installed.published /\ seen = Installed.published
  /\ cached = [u \in Uris |-> {}] /\ fetches = [u \in Uris |-> MaxFetches]
  /\ rotations = 0 /\ faults = 0
  /\ req = [r \in Requests |-> Idle]
  /\ could = {} /\ must = {}

Becomes(r, q) == req' = [req EXCEPT ![r] = q]
Goto(r, pc) == Becomes(r, [req[r] EXCEPT !.pc = pc])
Answer(r) == Becomes(r, [Idle EXCEPT !.pc = "answered"])

-----------------------------------------------------------------------------
(* verifyAndDecodeToken *)

Arrive(r, call) ==
  /\ req[r].pc \notin InFlight
  /\ IF call.token.iss \in Whitelist
       THEN Becomes(r, [Idle EXCEPT !.pc = "tenant", !.call = call])
       ELSE Answer(r)
  /\ UNCHANGED <<db, idp, clients, faults>>

TenantsOf(token) == {t \in registered : IssOf[t] = AliasOf[token.iss]}

\* iss_claim is not unique: LIMIT 1 takes any of its tenants.
SelectIssuerJWKS(r) ==
  /\ req[r].pc = "tenant"
  /\ \/ \E t \in TenantsOf(req[r].call.token) :
          /\ req[r].call.token.aud
          /\ Becomes(r, [req[r] EXCEPT !.pc = "key", !.uri = UriOf[t]])
     \/ /\ TenantsOf(req[r].call.token) = {} \/ ~req[r].call.token.aud
        /\ Answer(r)
  /\ UNCHANGED <<db, idp, clients, faults>>

\* Seeded fault: one cache for the clients of all URIs.
Remembered_OneCache(uri) == UNION {cached[u] : u \in Uris}

\* What a client of jwks-rsa looks a kid up in first.
Remembered(uri) == cached[uri]

\* Seeded fault: a client that remembers a key does not ask for others.
Fetched_NeverAsksAgain(uri) == IF cached[uri] = {} THEN published[uri] ELSE {}

\* What it asks the issuer for when the kid is not there.
Fetched(uri) == published[uri]

\* The signature against the key that was found.
Verify(r) ==
  IF req[r].call.token.signer = req[r].call.token.kid
    THEN Becomes(r, [req[r] EXCEPT !.pc = "role", !.uri = None])
    ELSE Answer(r)

\* A key is remembered, or fetched, or there is none, or too many were fetched.
GetSigningKey(r) ==
  LET kid == req[r].call.token.kid uri == req[r].uri IN
  /\ req[r].pc = "key"
  /\ \/ kid \in Remembered(uri) /\ Verify(r) /\ UNCHANGED clients
     \/ /\ kid \notin Remembered(uri) /\ fetches[uri] > 0
        /\ fetches' = [fetches EXCEPT ![uri] = @ - 1]
        /\ IF kid \in Fetched(uri)
             THEN Verify(r) /\ cached' = [cached EXCEPT ![uri] = @ \cup {kid}]
             ELSE Answer(r) /\ UNCHANGED cached
     \/ kid \notin Remembered(uri) /\ fetches[uri] = 0 /\ Answer(r) /\ UNCHANGED clients
  /\ UNCHANGED <<db, idp, faults>>

-----------------------------------------------------------------------------
(* verifyRoleGroupAccess *)

\* Seeded fault: no filter on the client.
RolesShown_AnyClient(sub, client) ==
  {row.name : row \in {row \in view : SubOf[row.persona] = sub /\ row.persona \in Plain}}

\* selectTenantPersonaClientRoles(sub, '', client)
RolesShown(sub, client) ==
  {row.name : row \in {row \in view :
     SubOf[row.persona] = sub /\ row.persona \in Plain /\ client \in {AnyClient, row.client}}}

\* Seeded fault: the suffixes are compared.
Matches_Suffixes(name, required) ==
  \/ name = required \/ SuffixOf[name] = required
  \/ required \in RoleNames /\ SuffixOf[name] = SuffixOf[required]

Matches(name, required) == name = required \/ SuffixOf[name] = required

Required(op) == IF op = "admin" THEN UsherAdmin ELSE ClientAdmin

SelectRoles(r) ==
  /\ req[r].pc = "role"
  /\ IF \E name \in RolesShown(req[r].call.token.sub, req[r].call.client) : Matches(name, Required(req[r].call.op))
       THEN Goto(r, "handle")
       ELSE Answer(r)
  /\ UNCHANGED <<db, idp, clients, faults>>

\* A query is rejected or a JWKS cannot be fetched: whatever is thrown before the handler
\* runs is answered 401, the next that is not defined included.
StatementFails(r) ==
  /\ req[r].pc \in InFlight
  /\ faults < MaxFaults
  /\ faults' = faults + 1
  /\ Answer(r)
  /\ UNCHANGED <<db, idp, clients>>

-----------------------------------------------------------------------------
(* The handlers.  Those under /clients/{client_id} admit either scheme.       *)

Handles(r) ==
  /\ req[r].pc = "handle"
  /\ Answer(r)
  /\ UNCHANGED <<idp, clients, faults>>

\* PUT /personas/{persona_key}/roles
CreatePersonaRoles(r, rows) ==
  /\ Handles(r) /\ req[r].call.op = "admin"
  /\ \A x, y \in rows : x.persona = y.persona
  /\ view' = view \cup rows
  /\ UNCHANGED registered

\* DELETE /personas/{persona_key}/roles/{role_key}
DeletePersonaRole(r, row) ==
  /\ Handles(r) /\ req[r].call.op = "admin"
  /\ view' = view \ {row}
  /\ UNCHANGED registered

\* DELETE /personas/{persona_key}
DeletePersona(r, p) ==
  /\ Handles(r) /\ req[r].call.op = "admin"
  /\ view' = {row \in view : row.persona # p}
  /\ UNCHANGED registered

\* POST /tenants
CreateTenant(r, t) ==
  /\ Handles(r) /\ req[r].call.op = "admin"
  /\ t \notin registered
  /\ registered' = registered \cup {t}
  /\ UNCHANGED view

\* DELETE /clients/{client_id}
DeleteClient(r, id) ==
  /\ Handles(r)
  /\ view' = {row \in view : row.client # id}
  /\ UNCHANGED registered

\* PUT /clients/{client_id}, with a new client_id that no client has.
UpdateClient(r, id, new) ==
  /\ Handles(r)
  /\ \A row \in view : row.client # new
  /\ view' = {IF row.client = id THEN [row EXCEPT !.client = new] ELSE row : row \in view}
  /\ UNCHANGED registered

\* A handler that only reads, creates what nobody has yet, or does not find its object.
HandleOther(r) == Handles(r) /\ UNCHANGED db

-----------------------------------------------------------------------------
(* Everything around. *)

\* An issuer starts or ceases to publish a key.
Rotate(u, k) ==
  /\ rotations < MaxRotations /\ <<u, k>> \in Changing
  /\ rotations' = rotations + 1
  /\ published' = [published EXCEPT ![u] = IF k \in @ THEN @ \ {k} ELSE @ \cup {k}]
  /\ seen' = [seen EXCEPT ![u] = @ \cup published'[u]]
  /\ UNCHANGED <<db, clients, faults, req>>

\* What a client remembers grows old.
Forget(u, k) ==
  /\ k \in cached[u]
  /\ cached' = [cached EXCEPT ![u] = @ \ {k}]
  /\ UNCHANGED <<db, idp, fetches, faults, req>>

\* With time a client may fetch again.
Refill(u) ==
  /\ fetches[u] < MaxFetches
  /\ fetches' = [fetches EXCEPT ![u] = @ + 1]
  /\ UNCHANGED <<db, idp, cached, faults, req>>

Crash ==
  /\ faults < MaxFaults
  /\ faults' = faults + 1
  /\ req' = [r \in Requests |->
               IF req[r].pc \in InFlight THEN [Idle EXCEPT !.pc = "stopped"] ELSE req[r]]
  /\ cached' = [u \in Uris |-> {}] /\ fetches' = [u \in Uris |-> MaxFetches]
  /\ seen' = published
  /\ UNCHANGED <<db, published, rotations>>

Handle(r) ==
  \/ \E p \in Personas :
       \/ DeletePersona(r, p)
       \/ \E rows \in SUBSET {row \in Assignable : row.persona = p} : CreatePersonaRoles(r, rows)
  \/ \E row \in view : DeletePersonaRole(r, row)
  \/ \E t \in Tenants : CreateTenant(r, t)
  \/ \E id \in ClientIds : DeleteClient(r, id) \/ \E new \in ClientIds : UpdateClient(r, id, new)
  \/ HandleOther(r)

Step(r) == SelectIssuerJWKS(r) \/ GetSigningKey(r) \/ SelectRoles(r) \/ Handle(r)

\* What the tables say, whatever the code reads: the subject has the role of the scheme.
HoldsRole(call) ==
  \E row \in view :
    /\ SubOf[row.persona] = call.token.sub /\ row.persona \in Plain
    /\ call.client \in {AnyClient, row.client}
    /\ IF call.op = "admin" THEN row.name = UsherAdmin
       ELSE row.name = ClientAdmin \/ SuffixOf[row.name] = ClientAdmin

\* The token is in order, and a tenant of its issuer publishes its key at this URI.
Verifiable(token, uri) ==
  /\ token.aud /\ token.signer = token.kid
  /\ token.kid \in published[uri]
  /\ \E t \in TenantsOf(token) : UriOf[t] = uri

\* could, from the arrival of a request to its answer; must, to its admission.
Remember ==
  /\ could' = {r \in Requests :
                 req'[r].pc \in InFlight /\ (HoldsRole(req[r].call)' \/ r \in could)}
  /\ must' = {m \in Requests \X Uris :
                /\ req'[m[1]].pc \in Awaits
                /\ req[m[1]].pc \in InFlight => m \in must
                /\ HoldsRole(req[m[1]].call)' /\ Verifiable(req[m[1]].call.token, m[2])'}

Act ==
  \/ \E r \in Requests :
       \/ \E call \in Calls : Arrive(r, call)
       \/ Step(r) \/ StatementFails(r)
  \/ \E u \in Uris : Refill(u) \/ \E k \in Keys : Rotate(u, k) \/ Forget(u, k)
  \/ Crash

Next == Act /\ Remember

Spec == Init /\ [][Next]_vars

-----------------------------------------------------------------------------
(* Properties. *)

TypeOK ==
  /\ registered \subseteq Tenants /\ view \subseteq Row
  /\ published \in [Uris -> SUBSET Keys] /\ seen \in [Uris -> SUBSET Keys]
  /\ cached \in [Uris -> SUBSET Keys] /\ fetches \in [Uris -> 0 .. MaxFetches]
  /\ rotations \in Nat /\ faults \in Nat
  /\ req \in [Requests -> Request]
  /\ could \subseteq Requests /\ must \subseteq Requests \X Uris

\* A handler that may run long after the check runs for a subject that had the role of the
\* scheme, on the client of the header, at some time since the request arrived.
ActsWithRole == \A r \in Requests : req[r].pc = "handle" => r \in could

\* The key that verified an admitted token was published, since the process started, by a
\* tenant registered for the token's issuer: no cache lends it to another issuer's tokens.
KeyIsTheIssuers ==
  \A r \in Requests : req[r].pc \in {"role", "handle"} =>
    \E t \in TenantsOf(req[r].call.token) : req[r].call.token.signer \in seen[UriOf[t]]

\* jwks-rsa refuses to fetch the key.
Limited(r) ==
  /\ req[r].pc = "key"
  /\ req[r].call.token.kid \notin Remembered(req[r].uri) /\ fetches[req[r].uri] = 0

\* Nobody is answered 401 who had the role all along and whose key a tenant of the issuer
\* published all along, however keys rotate and caches grow old, unless a statement or a
\* fetch failed, the client of the URI had no fetch left (Limited), or LIMIT 1 had taken
\* another tenant, with another URI: that choice does turn a holder away.
HolderIsAdmitted ==
  [][\A r \in Requests :
       /\ req[r].pc \in Awaits /\ req'[r].pc = "answered"
       /\ faults' = faults /\ ~Limited(r)
       => \A u \in Uris : <<r, u>> \in must => req[r].pc = "key" /\ req[r].uri # u]_vars

\* Nobody is a usher-admin or was admitted as one.
Locked ==
  /\ \A row \in view : row.persona \in Plain => row.name # UsherAdmin
  /\ \A r \in Requests : req[r].pc = "handle" => req[r].call.op # "admin"

Held == {<<row.persona, row.name>> : row \in view}

\* Once no persona is a usher-admin, the API makes none again and gives nobody a role: the
\* last administrator who deletes the own role, persona or client leaves it to the database.
LockoutIsFinal == [][Locked => Locked' /\ Held' \subseteq Held /\ registered' = registered]_vars

(* The inductive invariant. *)

\* What a request in flight has, and knows.
RequestInv ==
  \A r \in Requests :
    /\ req[r].pc \in InFlight => req[r].call \in Call
    /\ req[r].pc = "key" => \E t \in TenantsOf(req[r].call.token) : UriOf[t] = req[r].uri

\* A client remembers only what its URI has published.
CacheInv == \A u \in Uris : cached[u] \cup published[u] \subseteq seen[u]

\* The history brackets what the tables say now.
HistoryInv ==
  \A r \in Requests :
    /\ req[r].pc \in InFlight /\ HoldsRole(req[r].call) => r \in could
    /\ \A u \in Uris : <<r, u>> \in must =>
         HoldsRole(req[r].call) /\ Verifiable(req[r].call.token, u)

IInv == TypeOK /\ RequestInv /\ CacheInv /\ HistoryInv /\ ActsWithRole /\ KeyIsTheIssuers
=============================================================================
