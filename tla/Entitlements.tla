---------------------------- MODULE Entitlements ----------------------------
(***************************************************************************)
(* What an issued token carries: the queries by which the server works out *)
(* the roles and permissions of a persona on a client, run one after the   *)
(* other while administrators change the tables (Catalogue).  A request    *)
(* for a token writes none of these tables, so one such request stands for *)
(* any number of them.                                                     *)
(***************************************************************************)
EXTENDS Catalogue

CONSTANTS
  Subs, Contexts,   \* values of personas.sub_claim and personas.user_context
  AnyContext,       \* '*', where a query does not filter
  AnyClient         \* '*', where a request names no client

ASSUME SubjectAssumption ==
  SubjectOf \in [PersonaKeys -> [sub: Subs, context: Contexts]]

VARIABLES
  ask,      \* what the request for a token will ask for; chosen once
  token,    \* its progress and answer
  given     \* history: what it was entitled to since it arrived

evars == <<cvars, ask, token, given>>

-----------------------------------------------------------------------------
(* The queries of view-select-relationships.js. *)

\* The rows of `personas' with this sub_claim and, unless it is AnyContext, user_context.
PersonasAs(sub, context) ==
  {p \in personas : SubjectOf[p].sub = sub /\ context \in {AnyContext, SubjectOf[p].context}}

\* The rows of `clients' of that client_id, or all of them.
ClientsAsked(id) == {c \in clients : id \in {AnyClient, c.client_id}}

\* tenants, tenantclients, clients and personas joined: the personas, with the
\* keys of the clients asked for in the tenant of each.
PersonaClients(sub, context, id) ==
  {pc \in PersonasAs(sub, context) \X Keys(ClientsAsked(id)) :
     <<TenantOf[pc[1]], pc[2]>> \in tenantclients}

\* Seeded fault: permissions of a persona do not make it known to the client.
ClientsShown_RolesOnly(sub, context, id) ==
  {pc[2] : pc \in {pc \in PersonaClients(sub, context, id) :
     \E x \in roles : x.clientkey = pc[2] /\ <<pc[1], x.key>> \in links["personaroles"]}}

\* selectTenantPersonaClients: clients on which the persona has a role or a permission.
ClientsShown(sub, context, id) ==
  {pc[2] : pc \in {pc \in PersonaClients(sub, context, id) :
     \/ \E x \in roles : x.clientkey = pc[2] /\ <<pc[1], x.key>> \in links["personaroles"]
     \/ \E y \in permissions :
          y.clientkey = pc[2] /\ <<pc[1], y.key>> \in links["personapermissions"]}}

\* selectSelfRoles
SelfRoles(sub, context, id) ==
  {x.name : x \in {x \in roles : \E pc \in PersonaClients(sub, context, id) :
     x.clientkey = pc[2] /\ <<pc[1], x.key>> \in links["personaroles"]}}

\* Seeded fault: no filter on the user_context.
RolePermissionRows_AnyContext(sub, context, id) ==
  {<<xy[1].name, xy[2].name>> : xy \in {xy \in roles \X permissions :
     /\ <<xy[1].key, xy[2].key>> \in links["rolepermissions"]
     /\ \E pc \in PersonaClients(sub, AnyContext, id) :
          /\ <<pc[1], xy[1].key>> \in links["personaroles"]
          /\ xy[1].clientkey = pc[2] /\ xy[2].clientkey = pc[2]}}

\* selectTenantPersonaClientRolePermissions, as pairs of a role and a permission name.
RolePermissionRows(sub, context, id) ==
  {<<xy[1].name, xy[2].name>> : xy \in {xy \in roles \X permissions :
     /\ <<xy[1].key, xy[2].key>> \in links["rolepermissions"]
     /\ \E pc \in PersonaClients(sub, context, id) :
          /\ <<pc[1], xy[1].key>> \in links["personaroles"]
          /\ xy[1].clientkey = pc[2] /\ xy[2].clientkey = pc[2]}}

\* selectTenantPersonaPermissions, which takes no user_context.
PersonaPermissions(sub, id) ==
  {y.name : y \in {y \in permissions : \E pc \in PersonaClients(sub, AnyContext, id) :
     y.clientkey = pc[2] /\ <<pc[1], y.key>> \in links["personapermissions"]}}

\* Seeded fault: no filter on the user_context.
SelfPermissions_AnyContext(sub, context, id) ==
  {y.name : y \in {y \in permissions : \E pc \in PersonaClients(sub, AnyContext, id) :
     \E x \in roles :
       /\ x.clientkey = pc[2] /\ <<pc[1], x.key>> \in links["personaroles"]
       /\ \E l \in links["rolepermissions"], m \in links["personapermissions"] :
            l[1] = x.key /\ m[1] = pc[1] /\ y.key \in {l[2], m[2]}
       /\ y.clientkey = pc[2]}}

\* selectSelfPermissions: rolepermissions and personapermissions are both joined,
\* so one of them alone yields nothing.
SelfPermissions(sub, context, id) ==
  {y.name : y \in {y \in permissions : \E pc \in PersonaClients(sub, context, id) :
     \E x \in roles :
       /\ x.clientkey = pc[2] /\ <<pc[1], x.key>> \in links["personaroles"]
       /\ \E l \in links["rolepermissions"], m \in links["personapermissions"] :
            l[1] = x.key /\ m[1] = pc[1] /\ y.key \in {l[2], m[2]}
       /\ y.clientkey = pc[2]}}

-----------------------------------------------------------------------------
(* What administrators gave, read off the assignments alone. *)

OnClient(keys, id) ==
  {y.name : y \in {y \in permissions : y.key \in keys /\ y.clientkey \in Keys(ClientsAsked(id))}}

ByRoles(sub, context, id) ==
  OnClient({l[2] : l \in {l \in links["rolepermissions"] :
              \E p \in PersonasAs(sub, context) : <<p, l[1]>> \in links["personaroles"]}}, id)

Directly(sub, context, id) ==
  OnClient({l[2] : l \in {l \in links["personapermissions"] : l[1] \in PersonasAs(sub, context)}}, id)

\* What its subject is given now under the user_context asked for: roles, and
\* permissions by roles and directly.
RolesHeld ==
  {x.name : x \in {x \in roles : /\ x.clientkey \in Keys(ClientsAsked(ask.id))
                               /\ \E p \in PersonasAs(ask.sub, ask.context) :
                                    <<p, x.key>> \in links["personaroles"]}}
RolesGive == ByRoles(ask.sub, ask.context, ask.id)
ContextGives == Directly(ask.sub, ask.context, ask.id)

\* What is given directly to any persona of the subject, whatever its user_context.
PersonaGives == Directly(ask.sub, AnyContext, ask.id)

-----------------------------------------------------------------------------
(* A request for a token: POST /self/token or POST /self/refresh_token. *)

\* A blank scope asks for all Names; a refresh has no other.
Asks == [op: {"token", "refresh"}, sub: Subs, context: Contexts \cup {AnyContext},
         id: ClientIds \cup {AnyClient}, scope: SUBSET Names \ {{}}]

TokenAwaits == {"authenticate", "roles", "permissions"}

Token == [pc: TokenAwaits \cup {"idle", "done", "unanswered"},
          rows: SUBSET (Names \X Names), roles: SUBSET Names,
          permissions: SUBSET Names, status: Nat]

Waiting == [pc |-> "idle", rows |-> {}, roles |-> {}, permissions |-> {}, status |-> 0]

\* History since the request came.  At some time: roles held and permissions given
\* under the user_context asked for, and permissions given directly under any.
\* Throughout: by roles, directly under any user_context, by either.
Given == [roles: SUBSET Names, ever: SUBSET Names, elsewhere: SUBSET Names,
          byRoles: SUBSET Names, directly: SUBSET Names, throughout: SUBSET Names]

AskToken ==
  /\ token.pc = "idle"
  /\ token' = [token EXCEPT !.pc = IF ask.op = "token" THEN "authenticate" ELSE "roles"]
  /\ given' = [roles |-> RolesHeld, ever |-> RolesGive \cup ContextGives,
               elsewhere |-> PersonaGives, byRoles |-> RolesGive,
               directly |-> PersonaGives, throughout |-> RolesGive \cup PersonaGives]
  /\ UNCHANGED <<cvars, ask>>

\* verifyTokenForSelf, once the signature is verified.
Authenticate ==
  /\ token.pc = "authenticate"
  /\ token' = IF ClientsShown(ask.sub, ask.context, ask.id) = {}
                THEN [token EXCEPT !.pc = "done", !.status = 401]
                ELSE [token EXCEPT !.pc = "roles"]
  /\ UNCHANGED <<cvars, ask, given>>

ReadRoles ==
  /\ token.pc = "roles"
  /\ token' = [token EXCEPT !.pc = "permissions",
                            !.rows = RolePermissionRows(ask.sub, ask.context, ask.id)]
  /\ UNCHANGED <<cvars, ask, given>>

\* Seeded fault: a persona is not given the permissions it has directly.
Scoped_RolesOnly(rows, names) == {row[2] : row \in rows} \cap ask.scope

\* Seeded fault: the permission names are not read out of the rows.
Scoped_RowsUnread(rows, names) == rows \cup (names \cap ask.scope)

\* The union of the two queries, cut to the requested scope.
Scoped(rows, names) == ({row[2] : row \in rows} \cup names) \cap ask.scope

\* The rest of the handler stores the session and signs what was read (Sessions).
ReadPermissions ==
  /\ token.pc = "permissions"
  /\ LET issued == Scoped(token.rows, PersonaPermissions(ask.sub, ask.id)) IN
       token' = [token EXCEPT !.pc = "done", !.status = 200, !.permissions = issued,
                   !.roles = {row[1] : row \in {row \in token.rows : row[2] \in issued}}]
  /\ UNCHANGED <<cvars, ask, given>>

\* A rejected query is 401 in the authenticator, 500 in POST /self/token, and
\* leaves a refresh unanswered.
QueryFails ==
  /\ token.pc \in TokenAwaits /\ faults < MaxFaults
  /\ faults' = faults + 1
  /\ token' = IF ask.op = "refresh"
                THEN [token EXCEPT !.pc = "unanswered"]
                ELSE [token EXCEPT !.pc = "done",
                        !.status = IF token.pc = "authenticate" THEN 401 ELSE 500]
  /\ UNCHANGED <<tables, req, ask, given>>

\* An administrator's step, and what it does to the entitlements.
Administer ==
  /\ \E r \in Requests : Serve(r)
  /\ UNCHANGED <<ask, token>>
  /\ given' = IF token.pc \in TokenAwaits
                THEN [roles |-> given.roles \cup RolesHeld',
                      ever |-> given.ever \cup RolesGive' \cup ContextGives',
                      elsewhere |-> given.elsewhere \cup PersonaGives',
                      byRoles |-> given.byRoles \cap RolesGive',
                      directly |-> given.directly \cap PersonaGives',
                      throughout |-> given.throughout \cap (RolesGive' \cup PersonaGives')]
                ELSE given

\* The process stops.
CrashAll ==
  /\ Crash
  /\ token' = IF token.pc \in TokenAwaits THEN [token EXCEPT !.pc = "unanswered"] ELSE token
  /\ UNCHANGED <<ask, given>>

EInit ==
  /\ Init
  /\ ask \in Asks /\ (ask.op = "refresh" => ask.scope = Names)
  /\ token = Waiting
  /\ given = [roles |-> {}, ever |-> {}, elsewhere |-> {},
              byRoles |-> {}, directly |-> {}, throughout |-> {}]

ENext ==
  \/ AskToken \/ Authenticate \/ ReadRoles \/ ReadPermissions \/ QueryFails
  \/ Administer \/ CrashAll

ESpec == EInit /\ [][ENext]_evars

-----------------------------------------------------------------------------
(* Safety. *)

\* The type of what this module adds to Catalogue.
ETypeOK == ask \in Asks /\ token \in Token /\ given \in Given

\* However administrators act between the queries, the roles of a token were held on
\* the clients and under the user_context asked for at some time since the request
\* came, and so was every permission of it given, and asked for, with one exception:
\* a permission given directly to another persona of the same sub_claim, which
\* selectTenantPersonaPermissions lets in (see HeldThroughoutIsIssued).
IssuedWasGiven ==
  token.status = 200 =>
    /\ token.roles \subseteq given.roles
    /\ token.permissions \subseteq (given.ever \cup given.elsewhere) \cap ask.scope

\* A permission given by one route throughout the request is issued if asked for:
\* the joins through tenants and clients lose no assignment, since none can be made
\* or stay outside them.  By roles that is under the user_context asked for; a
\* permission given directly is issued under whatever user_context it was given.
HeldThroughoutIsIssued ==
  token.status = 200 => (given.byRoles \cup given.directly) \cap ask.scope \subseteq token.permissions

\* A subject to whom a permission on the client is given, under the user_context it
\* names, is not turned away by the authenticator, which asks another query.
HolderIsNotTurnedAway ==
  RolesGive \cup ContextGives # {} =>
    ClientsShown(ask.sub, ask.context, ask.id) # {}

\* What /self/permissions shows never exceeds what is given, and /self/roles shows
\* every role a token would list.  That /self/permissions may show less than is given
\* is not asked: its joins drop whoever has only one kind of permission.
SelfViewsAgree ==
  /\ SelfPermissions(ask.sub, ask.context, ask.id) \subseteq RolesGive \cup ContextGives
  /\ {row[1] : row \in RolePermissionRows(ask.sub, ask.context, ask.id)}
       \subseteq SelfRoles(ask.sub, ask.context, ask.id)

(* The inductive invariant, with that of Catalogue. *)

RowRoles == {row[1] : row \in token.rows}
RowNames == {row[2] : row \in token.rows}

\* The history brackets what the tables give now while the request is served, and
\* what it has read of it before.
ReadsBracketed ==
  /\ token.status = 200 => token.pc = "done"
  /\ token.pc \in TokenAwaits =>
       /\ RolesHeld \subseteq given.roles
       /\ RolesGive \cup ContextGives \subseteq given.ever /\ PersonaGives \subseteq given.elsewhere
       /\ given.byRoles \subseteq RolesGive /\ given.directly \subseteq PersonaGives
  /\ token.pc = "permissions" =>
       /\ RowRoles \subseteq given.roles
       /\ RowNames \subseteq given.ever /\ given.byRoles \subseteq RowNames

EInv == IInv /\ ETypeOK /\ ReadsBracketed /\ IssuedWasGiven /\ HeldThroughoutIsIssued

(* What the API description says and the code does not do. *)

\* "If this is not specified, then all entitled permissions are granted"
\* (the-usher-openapi-spec.yaml): what the subject was entitled to at every moment
\* of the request is granted.
AllEntitledGranted ==
  token.status = 200 => given.throughout \cap ask.scope \subseteq token.permissions
=============================================================================
