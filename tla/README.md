# The Usher, in TLA+

The Usher is an authorization server. A user logs in at an identity provider (IdP), presents
the IdP token to The Usher, and gets an access token that lists the roles and permissions
administrators have given the user's *persona* on one *client* application. The server is a set of
stateless Express handlers over PostgreSQL (`server/`, `database/`). No handler opens a
transaction: every `await` on a statement is a point at which any other request, on this
instance or another, may run. What the server does right and wrong is decided there, so the models
take **one SQL statement as one atomic step** and let everything else happen between two of them.

## 1. Inventory

Paths are relative to the repository's root.

| Component | State | Operations | Hard about it | Correct when |
|---|---|---|---|---|
| **Sessions** `database/layer/admin-session.js`, `endpoint_self_token.js`, `endpoint_self_refresh_token.js`, `endpoint_invalidate_session.js` | table `sessions` (one row per persona, `event_id` is the refresh token) | `POST /self/token` (3 to 7 statements), `POST /self/refresh_token`, `DELETE /sessions` | concurrent logins, deletion of the persona or session in between, expiry judged on a stale copy, a handler without `catch`, a time stamp without zone | a refresh token names one session, of its own subject; concurrent logins agree; revocation is final; a refreshed token is backed by a login and ends with its IdP token |
| **Administration** `api_endpoints/clients`, `roles`, `personas`; `admin-client.js`, `admin-role.js`, `admin-permission.js`, `admin-persona*.js`, `admin-rolepermissions.js` | tables `clients`, `roles`, `permissions`, `personas`, `tenantclients`, `rolepermissions`, `personaroles`, `personapermissions` | create, update, delete a client; create a role or a permission; create, delete a persona; PUT and DELETE of assignments | validation by one statement and action by a later one; three-statement creation of a client; errors returned as strings | nothing outlives its client; assignments stay within the client or the tenant; answers tell what was done |
| **Entitlements** `view-select-relationships.js`, `utils/token-utils.js` | none (reads the above) | what a persona may do on a client; the scope of an issued token | two queries without a snapshot, `user_context` handled in one and not in the other | a token carries what the persona was entitled to |
| **Signing keys** `db-keys.js`, `endpoint_generate_new_keys.js`, `endpoint_jwksjson.js`, `the-usher.js` | table `keys` | generate, seed at start-up, publish, sign with the latest, delete | seeding by several instances, an insert that nobody awaits and whose rejection ends the process, `kid` from the clock | what is signed can be verified with what is published; starting leaves a key |
| **Authenticator** `security_layer/jwt_signature_validator.js`, `view-select-entities.js` | cache of JWKS clients, one per `jwks_uri` | `verifyTokenForSelf`, `...Admin`, `...ClientAdmin` | a check of the roles, and statements later a handler that acts on it and may change them; issuers that change their keys; a rate limit on fetching them; an `iss_claim` of several tenants | who acts had the role; the key was the issuer's; who has both is not turned away by what is cached |
| **Self views** `endpoint_self_*.js` | none | clients, roles, permissions and scope of a subject | different joins that should agree | they agree with the token |
| **Tenants** `tenants/`, `admin-tenant*.js` | `tenants`, `tenantclients` | create a tenant; by scripts: delete one, relate and part a client | tenants may share an `iss_claim`; look-ups and inserts in separate statements | nothing dangles; what a persona has stays within its tenant |
| **Library functions and groups** `database/layer/admin-*.js` | all tables, `groups`, `grouproles` | insert, update, delete by *name* | `EXISTS` not correlated with the row; relations inserted with keys read before | nothing dangles; what a persona is given is its tenant's |
| **Mock IdP** `mockidentityprovider/` | `keystore.json` | generate keys, issue IdP tokens | | |
| **HTTP wiring, configuration, logging, migrations, sample data** | | | | |

How they interact: every route passes the authenticator, which reads the tables of the
administration; `POST /self/token` and `POST /self/refresh_token` read the entitlements, write
the sessions and sign with the latest key; deleting a persona cascades to its sessions and
assignments, deleting a client to everything of the client.

The hazards of the code, each at its line, with the properties that address it, are in
`PROJECT.json`.

## 2. Modules

| Module | What it is |
|---|---|
| `Sessions` | the three session handlers, persona administration, failures, crashes and the clock over `sessions` |
| `RefreshTokens` | what the session endpoints promise, without handlers or statements: a token is bound to a persona, stays bound until it is withdrawn, and only a check made while it was bound lets a refresh be granted |
| `SessionsRefinement` | the mapping under which `Sessions` implements `RefreshTokens` |
| `SessionsProofs`, `RefreshBackingProofs`, `SessionsRefinementProofs` | TLAPS proofs about `Sessions`: its invariants, the backing of refreshes, the refinement |
| `Catalogue`, `CatalogueProofs` | the administration handlers over the eight tables they change, and proofs |
| `Assignments` | what the administration promises, without names, requests or statements: an assignment is made in one step, of objects in the scope of their owner at that moment; what goes takes all that depends on it along; no key ever means a second thing |
| `CatalogueRefinement` | the mapping under which `Catalogue` implements `Assignments` |
| `Entitlements`, `EntitlementsProofs` | extends `Catalogue`: the queries by which the server works out roles and permissions, and a token request that runs them while administrators act; proofs on top of those about `Catalogue` |
| `SigningKeys`, `SigningKeysProofs` | instances that start, seed, sign, publish, stop, over the table `keys`, and a caller that generates or deletes a key; proofs |
| `Authenticator`, `AuthenticatorProofs` | the security handlers of the administration API, and the handlers that change the roles these check; proofs |
| `AdminLibrary`, `AdminLibraryProofs` | the functions of the database layer that insert, rename, relate, part and delete rows named by name, over all tables but `keys` and `sessions`; proofs |
| `MCSessions`, `MCCatalogue`, `MCEntitlements`, `MCSigningKeys`, `MCAuthenticator`, `MCAdminLibrary` | the values TLC instantiates the constants with |

### How the models correspond to the code

*State.* A table is a set of rows; identity columns (`key`) and UUIDs are values taken from a constant
set, or counted, and never taken twice. A row keeps the columns the properties tell apart. `req` maps a
request (in `Catalogue` and `SigningKeys`, a connection that serves one request after another) to what
its handler holds between statements: the parameters, the locals that a later statement uses, the
answer, and `pc`, the statement it will send next.

*Actions.* There is one action per statement, with the code that follows it up to the next `await`;
early returns are the branches that answer. `Arrive*` is a request that the router hands to its
handler. A statement of the database is atomic and sees committed rows only, which is
PostgreSQL's default isolation. Two statements of one handler that are started together
(`Promise.all` in `personas/roles.js`) may be answered in either order.

*Failures.* `StatementFails` is any statement rejected for reasons of its own (connection
lost, timeout), answered the way the handler's `catch` answers it, or not at all where there is
none. `Crash` ends the process: requests in flight are lost, tables stay. `MaxFaults` bounds the two
together.

*Left out of a handler.* The content of names and descriptions, the coding of tokens, the reads that
change nothing. An answer of `Catalogue` is its status: what the body shows of a row read back is
left out. What happens before the handler runs is the matter of `Authenticator` (and, for the one query
of `verifyTokenForSelf`, of `Entitlements`), not of the other modules.

*Sessions.* The IdP token that a row keeps is reduced to its `sub` and its `exp`: all a refresh takes from it is
`sub`. The `user_context` and the `client_id` of the new token come from the request's headers, and what they lead to
is the matter of `Entitlements`. `idp_expirationtime` is a `TIMESTAMP` without zone, written in UTC and read as local
time: `ReadBack` subtracts `ZoneOffset`, which is negative west of Greenwich. `at` is when a refresh computes the
duration of its token, `signed` when it signs, `exp` the expiry it signs: two queries lie between.

*Token requests.* In `Entitlements`, `ask` is what one request for a token asks, chosen at the start;
`token` its progress through the queries. Such a request writes none of the tables of the administration,
so one of them among any number of administrators stands for any number. The joins are
written as the queries of `view-select-relationships.js` have them, one operator each, so that a
condition present in one and missing in another (`user_context`) stays visible. A request names a `client_id`, or `AnyClient`,
the `'*'` that filters on no client.

*Keys.* In `SigningKeys`, `generateAndInsertNewKeys` makes a pair at once and sends an insert that nobody waits for:
`inserts` holds what is on its way to the database, with the instance that will learn of a rejection. A rejection is
handled by nobody, so Node.js ends the process (`Rejected`); an insert sent by a process that stopped may or may not
arrive (`InsertLost`). `keys_kid_uq` is `KidTaken`, and a `kid` is the millisecond of the clock that all instances
read. `seeding` follows `seedKeysIfDbIsEmpty` over its one await, and is the only way in which the running server
reaches `generateAndInsertNewKeys`: the handler `endpoint_generate_new_keys.js` is exported, but the API description
routes no operation to it, and `deleteKey` has no caller. Both are actions all the same (`calls` bounds them), for a
rotation of keys, which `README.md:82` plans, would call both, and a table of several keys is what readers must cope
with; nothing is said of the `OK` that the handler would answer. `getJwks` answers with every row; since the
description allows one (`FitsDescription`) and answers are validated, `GetJwks` may also end in 500 when there are
more.

*Security handlers.* In `Authenticator` a token is a record of what the code tells apart: `iss`, `sub`, the `kid` of
its header, the key that does verify it, whether its audience is accepted. A request goes from `tenant`
(`selectIssuerJWKS`, any one tenant of the issuer) over `key` (the JWKS client of that tenant's `jwks_uri`, which asks
its memory and then, if `fetches` allows, the issuer) and `role` (`selectTenantPersonaClientRoles`) to `handle`, after
which the handler of the route runs. These handlers' own statements are modelled in `Catalogue`; here each takes
effect in one step on the rows of the roles view, since the question is what happens between a check and an act.
`view` is the result of the join that the check reads; `PUT /clients/{client_id}` changes the `client_id` of its rows.
`Rotate` and `Forget` are the issuer that changes its JWKS and the entries of the cache that expire; `fetches` is what
the rate limiter of a client still grants (`jwksRequestsPerMinute`), and `Refill` the time that passes. The client a
role is looked up on is that of the `client_id` header, or any: no path parameter is compared with it, and neither
does the model. A token without a `kid` is left out.

*Library functions.* In `AdminLibrary` a function of one statement is one action, guarded so that it
changes something; `insertTenantClient`, `insertGroupRole`, `insertPermissionByClientId` and
`insertClient` are `calls` of several. `updateClientByClientId` and
`updatePersona` are `Rename`s, refused if the name is another's. `Owned` is a row named together with its parent, `Named` one
named alone: which of the two a `WHERE` amounts to is exactly what the functions differ in.

*History.* `revoked` (event_ids whose row is gone), `drawn` (keys ever used) and the fields `dead`, `at` of a session
request record what happened so that a property can speak of it; so do `given` in `Entitlements` (what the subject was
entitled to since the request came: at some time, under the `user_context` asked for or, apart from that, directly
under any; throughout by roles, throughout directly, throughout by either; all computed from the assignments alone,
without the joins through tenants), `signed`, `deleted` and the field `due` in `SigningKeys`, `could`, `must` and
`seen` in `Authenticator` (requests that had the role at some time since they arrived; those, each with a URI of its
issuer, that had it, and a key published there, throughout; keys that a URI held since the process started), and
`unrelated` in `AdminLibrary`. No guard reads them except to draw a fresh key, to name a key that was once there, or
to bound how often something happens.

*Seeded faults.* Operators such as `UpdateSession_NoWhere` stand before the definition they vary and
are a plausible slip in that code: a dropped `WHERE`, a missing constraint, a forgotten
answer. No specification uses them; they exist so that each property can be seen to fail
when the code is wrong (`mutants` in `PROJECT.json`).

## 3. What is checked

| Run | Instance | Shows |
|---|---|---|
| `logins` | 3 requests, two subjects, one of them with a persona in each of two tenants of one `iss_claim`; clock to 1 | one session per persona, concurrent logins agree, revoked stays revoked, renewals keep the token, nothing crosses between subjects, `event_id` is unique without a constraint; `Sessions` implements `RefreshTokens` |
| `live` | 2 requests of one subject under fairness, 1 fault, IdP tokens of two lifetimes, clock to 3 | every request ends; an expired session does not stay; a refreshed token is backed by a login and ends with its IdP token, but for the time the handler takes to sign; `Sessions` implements `RefreshTokens` with a crash or a failure between any two statements |
| `admin` | 2 connections, all operations, 2 tenants, 2 clients that may swap `client_id`s, a role, a permission, a persona, 1 fault | nothing outlives its client; assignments stay within client and tenant; only a failure leaves a client without a tenant; `Catalogue` implements `Assignments` |
| `entitlements` | one token request, for one of two clients or for any, of a subject with two `user_context`s, one administrator, any number of faults | a token carries only roles held, and permissions given, under the `user_context` asked for, but for the direct permissions of another (named as the exception, and reported below), and all that was given by one route throughout; the self views and the authenticator agree with it |
| `keys` | 2 instances, 1 connection, 2 milliseconds, 1 call of `generateNewKeys` or `deleteKey` besides the seeding, 1 fault, under fairness | a published `kid` tells one pair; a JWKS that is answered covers every token signed before; the newest key signs; instances that start together never cost the database its only key to come (`SeedingIsNotForgotten`), and fair ones leave a key behind |
| `library` | one tenant, 2 clients, up to 2 roles, a permission, a persona of two possible contexts, a group, one call of several statements | nothing dangles; what a persona has is its tenant's |
| `authenticator` | 2 requests of 6 kinds (both schemes, an alias, an issuer that is not accepted, a wrong audience, a forged token), 3 tenants of 2 issuers, 2 keys, 1 fetch of a JWKS at a time, 1 change of a JWKS, any number of faults | who acts had the role; the key was the issuer's; who had both throughout is turned away only by a failure, the rate limit or the choice of another tenant of the issuer; once no `usher-admin` is left there is never one again |

Runs in which a statement of the code or its documentation is refuted; each finding in
`PROJECT.json` quotes it:

| Run | Refutes |
|---|---|
| `expire` | the expired session is deleted by persona key, so a session just renewed may be deleted instead |
| `saved` | `createOrUpdateSession` returns an `event_id` whose row was deleted before the `UPDATE` |
| `admin_names` | two permissions of one name in one client |
| `torn` | all entitled permissions are granted: a permission moved from the persona to a role between the two queries is missed |
| `past_idp` | a refreshed token ends with the IdP token of its session: a server behind UTC reads `idp_expirationtime` later than it is |

Four more findings are disagreements of the code with its documents that passing runs bear out. The property says what the code does
do, and names what the document denies:

| Run, property | Against |
|---|---|
| `entitlements`, `HeldThroughoutIsIssued` | `docs/GLOSSARY.md:8` and the comment at `token-utils.js:28`: what is given directly under one `user_context` is issued under another |
| `keys`, `JwksCoversTokens` | `the-usher-openapi-spec.yaml:1828`: a JWKS has one key at most |
| `authenticator`, `LockoutIsFinal` | `the-usher-openapi-spec.yaml:21`: an endpoint sets up the first administrators; none can, once the last is gone |
| `authenticator`, `HolderIsAdmitted` | `docs/GLOSSARY.md:9`: an issuer ID identifies one tenant; several may share it, and `LIMIT 1` takes any |

Read in the code and modelled, but refuted by no run: the comment at `admin-permission.js:50` speaks of the permission
of one client, and `deletePermissionByPermissionName` deletes those of that name of every client, as
`DeletePermission` of `AdminLibrary` does; `DeleteRole` and `DeletePersonaPermission` have an `EXISTS` of the same
kind. So where `rowCount === 1` is asked for at `admin-role.js:60`, `admin-rolepermissions.js:13` and
`admin-personapermission.js:18` and `:44`, several rows may have changed, and the change is reported as a failure; no
property is about these answers.

*Bounds.* The races of these handlers are between two requests and one administrator, and three
requests let a third observe the outcome of two. Keys number one more than rows that can exist
together where a row can be deleted and replaced and that matters. The clock runs far enough for an IdP token
to expire with a refresh before, at and after the moment. One fault, where their number is
bounded, is enough to stop any one handler at any one statement; `logins` leaves faults to `live` and the proofs. In `entitlements` one
permission name is enough: the permissions of the two queries meet only in a union that treats names
alike, and two `user_context`s of one subject are what the queries may confuse; tenants and clients that may be
confused are the matter of `admin`. In `keys` two milliseconds let `kid`s collide or not. In `authenticator`
`Calls`, `Assignable` and `Changing` bound what arrives, is assigned and rotates: one change of a JWKS
withdraws a key that is remembered, or publishes one that another issuer holds too; with `MaxFetches` of 1, where the code has 10 a
minute, the limit is met by the second of two fetches. In `library` `MaxKey` lets a role
of each client exist, or one be replaced. The proofs, which fix no number of anything, cover
what the instances are too small for.

*Symmetry* is used in safety runs only, for requests, keys and names that are only compared. In
`logins` it also exchanges the two personas of one subject: they differ in their tenants, which are not
part of any state.

*View.* `admin`, `entitlements` and `authenticator` take as one the states that differ only in which request a
connection served last and how it was answered (`View`, `MCView`): once a request has ended `req` holds no more of it,
no guard reads that, and no property beyond its type. The views of `entitlements` and `authenticator` leave out
`faults` too, whose only use is the guard `faults < MaxFaults`, and `MaxFaults` is far more than the steps to
any state (the depth TLC reports): so any number of faults may occur. That of `entitlements` leaves out `given.throughout`, which only
`AllEntitledGranted` reads, not a property of that run, and of a token request that has ended keeps only the
status and whether the two properties of its answer hold, since nothing changes an answer.

*Deadlock* is checked in `authenticator`, whose requests come and go for ever. It is not checked in the
others: when every request of the instance has been served, and every key is drawn, nothing is left to
happen.

*Fairness.* `live` assumes weak fairness of each request's next statement and nothing else: Node.js
runs each continuation whose statement was answered, and PostgreSQL answers or rejects each
statement. `keys` assumes the same of the seeding, of the requests and of the inserts sent. The clock, new
requests, starts, administrators, failures and crashes are under no fairness. `Catalogue`, `Entitlements`,
`Authenticator` and `AdminLibrary` have none: every one of their handlers is a
straight line of statements, each of which is answered, and no property of theirs would follow from anything else.

## 4. What is proved

All theorems hold for every value of the constants that the named assumptions admit: any number of
requests, instances, tenants, clients and faults. TLC evaluates the assumptions in every run. In every
module `IInv` (with what `EInv` adds in `Entitlements`) is the inductive invariant; it starts with the types
and is also an invariant of a run.

**Sessions.** `SessionsProofs` proves `IInv`, and from it all the safety properties of `logins`. None of these is
inductive alone. That two rows never share an `event_id` needs that only a login past its `INSERT` has its UUID in the
table (`KnownIsInserted`), and that a persona has one row. That a refresh token given to a subject names only that
subject's session needs `RequestInv`: a login that holds an `event_id` read earlier holds one that is in the table or
was deleted from it, and that no other subject's row carries (`Names`). Since a deleted `event_id` never returns
(`NoRevokedRow`), that knowledge survives whatever happens between the read and the answer. `Shape` ties what a
request holds to the statement it waits at. The proof has one lemma per action. Steps that only change a request are
instances of `LocalStep`; those that change the table prove the parts of `TableInv` one by one. Assumptions:
`PersonaAssumption`, `TimeAssumption`, `NoneAssumption`.

`RefreshBackingProofs` proves `RefreshBackedByLogin`. The strengthening, `Backing`, says that each row, in the table
or in the hands of a refresh, carries the `exp` of an IdP token that some login of the row's subject presented (logins
never forget what they presented), that each duration was computed before that time and does not pass it, and that the
token's expiry is the clock at its signature plus that duration. So the token outlives the IdP token by no more than
`signed - at`. The theorem is about servers whose zone is not behind UTC (`ZoneOffset >= 0`); for the others
`past_idp` shows that nothing of the kind holds.

`SessionsRefinementProofs` proves that `Sessions` implements `RefreshTokens`. `Effects` says what becomes of the mapped
state when one request changes; each action is then a step of the abstract specification: the `INSERT` binds, a deletion
withdraws the one row it finds, `Lookup` checks, `Sign` gives or grants, and everything else
stutters or drops a refresh. `IInv` supplies the facts the abstract guards ask for.

Three more theorems have no run, for they are about steps that the runs of their liveness counterparts
already take (TLC found them true on the instances of `logins` and `live` before they were proved). `HandlersAdvance`
is what of `EveryRequestEnds` is safety: `StepsLeft` falls with every step of a request, from at most seven, so a handler waits
at no await twice, an answer is final, and fairness has only to provide the next step. `ExpiryRemoves` is
what of `ExpiredSessionGoes` is safety: the `DELETE` of an expired session, by persona key and from a row read
earlier, does remove whatever session the refresh token names. It needs `ReadRowsKeepOwner`, proved by an
induction of its own over `IInv`: the session that carries the `event_id` of a row once read is still of the same persona, for only
an `INSERT` makes an `event_id`, and a refresh never holds one that is yet to be made. That the same `DELETE` may take a
session it should not is the run `expire`.

**Catalogue.** `CatalogueProofs` proves `IInv`, from it `NothingOutlivesItsClient` and `LinksRespectScope`, and
`ClientsHaveTenant` by one more induction. `LinksRespectScope` is the hard one: a `PUT` validates its pair in
one statement and inserts it in a later one, and anything may happen between. Foreign keys only
ensure that both ends exist, so the argument is that what was validated cannot have become wrong
while both ends still exist. A request names keys that were drawn (`NamesDrawn`), and keys are never
drawn twice, so a row that carries the key now is the row that was validated; no handler moves a role
or a permission to another client or takes a client from a tenant. The lemma `Survives` says that of any
change of the tables with these traits (`Evolve`), for every request at once, and turns the invariant
`ValidatedStaysAssignable` into `LinksRespectScope` at the insertion. Assumptions: `CatalogueAssumption`,
`NoneAssumption`.

`CatalogueImplements` says that `Catalogue` implements `Assignments`. The mapping keeps, of each table, the pairs of
keys, and of `drawn` everything; names and `client_id`s are gone, and with them the requests. An `INSERT` registers,
relates, adds, admits or assigns; a `DELETE` withdraws, retires or dismisses; reads, answers, failures, crashes and a
renaming stutter. Two steps need more than the tables. At an assignment the abstract guard asks that every pair be in
scope *now*, although the handler checked it statements ago: this is `ValidatedStaysAssignable`. At the deletion of a
client the abstract step retires one client, and the statement deletes every row of a `client_id`: that there is one
is `OneClientPerId`. What the cascades leave is shown, table by table, to be what `LinksOfTheLeft` says.

**Entitlements.** `EntitlementsProofs` shows that `IInv` remains invariant when token requests run beside the administration,
and that with it each query yields exactly what the assignments give (`RowsAreGiven`,
`PersonaPermissionsAreGiven`): the joins through tenants and clients lose nothing because
`LinksRespectScope` holds. `ReadsBracketed` then places what was read in the history: what is given now,
and what was read before, lies between what was held throughout by that route and what was ever
given. `IssuedWasGiven`, `HeldThroughoutIsIssued`, `HolderIsNotTurnedAway` and `SelfViewsAgree` follow; the last holds
of any content of the tables. That "throughout by either route" is *not* enough is the run `torn`.
`TokensImplementAssignments` carries the refinement of `Catalogue` over to the composition.
`IssuedWasGiven` bounds by the `user_context` asked for all but the query that takes none
(`PersonaPermissions`), whose rows are bounded by what the subject is given directly under any.
Assumptions: those of `Catalogue` and `SubjectAssumption` (every persona has a subject).

**Signing keys.** `SigningKeysProofs` proves `IInv`: keys and `kid`s identify rows, and what requests have read, or
are owed, is or was a row. `KidTellsThePair`, `JwksCoversTokens` and `NewestKeySigns` are proved; the second of the
answers that are given, which with two keys are more than the API description allows. `SeedingGoesOn` proves
`SeedingIsNotForgotten`: an instance that gives up seeding has found a key, sent one, met a failure, or was ended by
an insert that met a key. For the last `SeedInv` is needed: only instances that run have anything to do, and an insert
is nobody's only after a failure or once a key was stored. Assumptions: `InstancesAssumption`, `BoundsAssumption`.

**Authenticator.** `AuthenticatorProofs` proves `IInv` (a request that waits for a key has the URI of a tenant of its
issuer; a cache holds only what its URI has shown; `could` and `must` bracket what the tables
say now), and from it `ActsWithRole` and `KeyIsTheIssuers`. `HolderIsAdmitted` and `LockoutIsFinal` are action
properties: the first because whom the tables and the JWKS bear out is not answered by a read
(`RolesShown` with `Matches` says the same as `HoldsRole`), unless it waits for a key at another URI or at one
with no fetch left; the second because a handler admitted as
a client-admin's gives nobody a role. Assumptions: `DataAssumption`, `FetchesAssumption`, and `SuffixAssumption`: the name
`the-usher:usher-admin` has a colon, and what follows the last colon of a name has none.

**AdminLibrary.** `AdminLibraryProofs` reduces every function to one of eight kinds of change (`Kinds`) and proves
`IInv` for these: keys identify rows, names do within their parent (but for permissions), nothing dangles.
`GivenWithinTenant` needs that a key is never drawn twice, as in `Catalogue`. Assumption: `MaxKeyAssumption`.

*Model-checked only:* liveness (`EveryRequestEnds`, `ExpiredSessionGoes`, `SeedingLeavesAKey`), which needs
fairness and `ENABLED`. What of each is safety is proved: `HandlersAdvance`, `ExpiryRemoves`, `SeedingGoesOn`. Every other
property of a run that passes is a theorem.

## 5. Not modelled

- *The mock IdP*: a stand-in for development and tests, with one file as its store. The IdPs of `Authenticator` are
  any that publish keys and change them.
- *HTTP wiring, configuration, logging*: routing, CORS, validation by oas-tools; no state of their own. What its strict
  validation makes of an answer with two keys is not in the repository, and left open in `GetJwks`.
- *Database set-up*: the migrations are modelled by what they leave (keys, constraints, cascades); schema
  creation and the sample data are run once, before the server.
- *Updates of descriptions* (`updateRoleByClientRolename`, `updatePermissionByPermissionName`,
  `updateGroupByGroupname`): one statement that changes a column no other code reads.
- *`/self/scope`*: its statement names a table before it is joined and fails on every call.
- *Tokens without a `kid`*, for which `jwks-rsa` decides by the number of keys.
- *`patchRole` and `deleteRole`* of `roles/role_key.js`: empty bodies.
- *Signatures and the coding of tokens*: a token is a record; that a signature verifies with its key only is the
  library's matter.
- *The scope kept in a session*: written by a login and read by nothing; a refresh asks for every name, and
  is modelled so in `Entitlements`.
- *The wording of answers and errors.*

What could follow: `Authenticator` over the tables of `Catalogue` instead of the view, so that a check and the
statements of a handler interleave one by one with those of another, and a liveness property of the
administration under a fairness of its own.
