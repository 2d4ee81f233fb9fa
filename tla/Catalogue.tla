----------------------------- MODULE Catalogue -----------------------------
(***************************************************************************)
(* The administration API of The Usher: clients, their roles and           *)
(* permissions, personas, and the three tables that assign permissions to  *)
(* roles and roles and permissions to personas.  As everywhere in the      *)
(* server, a handler validates its input with one statement and acts on it *)
(* with a later one, outside any transaction.                              *)
(***************************************************************************)
EXTENDS Naturals, FiniteSets

CONSTANTS
  Requests,         \* connections, each serving one request at a time
  Operations,       \* the operations this instance sends
  Tenants,
  ClientKeys, RoleKeys, PermissionKeys, PersonaKeys,
                    \* values of the identity columns: never drawn twice
  ClientIds,        \* values of clients.client_id
  Names,            \* names of roles and permissions
  TenantOf,         \* persona key -> its tenant
  SubjectOf,        \* persona key -> its (sub_claim, user_context)
  MaxFaults,        \* bound on failing statements and crashes
  None

AllOperations ==
  {"createClient", "updateClient", "deleteClient", "createClientRole", "createRole",
   "createPermission", "put", "remove", "createPersona", "deletePersona"}

ASSUME CatalogueAssumption ==
  /\ Operations \subseteq AllOperations
  /\ DOMAIN TenantOf = PersonaKeys
  /\ \A p \in PersonaKeys : TenantOf[p] \in Tenants
  /\ DOMAIN SubjectOf = PersonaKeys
  /\ MaxFaults \in Nat

ASSUME NoneAssumption ==
  None \notin Tenants \cup ClientKeys \cup RoleKeys \cup PermissionKeys \cup PersonaKeys
              \cup ClientIds \cup Names

VARIABLES
  clients, roles, permissions,  \* the rows of these tables
  personas,                     \* keys of the rows of `personas'
  tenantclients,                \* pairs of a tenant and a client key
  links,                        \* kind -> pairs of an owner and an object key
  drawn,                        \* keys the identity columns have drawn
  faults,                       \* failures so far
  req                           \* connection -> the request it serves

tables == <<clients, roles, permissions, personas, tenantclients, links, drawn>>
cvars == <<tables, faults, req>>

-----------------------------------------------------------------------------
(* Rows, requests and answers. *)

ClientRow == [key: ClientKeys, client_id: ClientIds]
RoleRow == [key: RoleKeys, clientkey: ClientKeys, name: Names]
PermissionRow == [key: PermissionKeys, clientkey: ClientKeys, name: Names]

\* The assignment tables.  The owner of a pair is a role in the first and a
\* persona in the others, the object a role in the second and a permission else.
Kinds == {"rolepermissions", "personaroles", "personapermissions"}

Keys(table) == {row.key : row \in table}

Owners(kind) == IF kind = "rolepermissions" THEN Keys(roles) ELSE personas
Objects(kind) == IF kind = "personaroles" THEN Keys(roles) ELSE Keys(permissions)

OwnerKeys == RoleKeys \cup PersonaKeys
ObjectKeys == RoleKeys \cup PermissionKeys

Awaits == {"checkClient", "checkName", "insertPermission", "insertRole", "readRole",
           "insertClient", "relateClient", "readClient", "updateClient",
           "checkLinks", "insertLinks", "deleteLink", "checkPersona", "deletePersona"}

\* A request: its parameters, what it read (key, the client's; left, the checks
\* still to pass), and the status of its answer.
Request == [op: AllOperations \cup {"none"},
            pc: Awaits \cup {"idle", "done", "unanswered"},
            tenant: Tenants \cup {None}, id: ClientIds \cup {None},
            name: Names \cup ClientIds \cup {None}, key: ClientKeys \cup {None},
            kind: Kinds \cup {None}, owner: OwnerKeys \cup {None},
            objects: SUBSET ObjectKeys, left: SUBSET {"owner", "objects"},
            status: Nat]

Idle == [op |-> "none", pc |-> "idle", tenant |-> None, id |-> None, name |-> None,
         key |-> None, kind |-> None, owner |-> None, objects |-> {}, left |-> {},
         status |-> 0]

Becomes(r, q) == req' = [req EXCEPT ![r] = q]
Goto(r, pc) == Becomes(r, [req[r] EXCEPT !.pc = pc])

\* The handler sends its answer and its locals are gone.
Reply(op, status) == [Idle EXCEPT !.op = op, !.pc = "done", !.status = status]
Answer(r, status) == Becomes(r, Reply(req[r].op, status))

Arrive(r, q) ==
  /\ req[r].pc \in {"idle", "done", "unanswered"}
  /\ q.op \in Operations
  /\ Becomes(r, q)
  /\ UNCHANGED <<tables, faults>>

ClientsNamed(id) == {c \in clients : c.client_id = id}

-----------------------------------------------------------------------------
(* Clients. *)

\* insertClient, after the tenant was found: the client, the relation to its
\* tenant and the row to answer with are three statements.
InsertClient(r) ==
  /\ req[r].pc = "insertClient"
  /\ IF ClientsNamed(req[r].id) # {}
       THEN Answer(r, 500) /\ UNCHANGED <<clients, drawn>>
       ELSE \E k \in ClientKeys \ drawn :
              /\ clients' = clients \cup {[key |-> k, client_id |-> req[r].id]}
              /\ drawn' = drawn \cup {k}
              /\ Becomes(r, [req[r] EXCEPT !.pc = "relateClient", !.key = k])
  /\ UNCHANGED <<roles, permissions, personas, tenantclients, links, faults>>

\* Seeded fault: the client is not related to its tenant.
RelateClient_Forgotten(r) ==
  /\ req[r].pc = "relateClient"
  /\ Goto(r, "readClient")
  /\ UNCHANGED <<tables, faults>>

RelateClient(r) ==
  /\ req[r].pc = "relateClient"
  /\ IF req[r].key \in Keys(clients)
       THEN /\ tenantclients' = tenantclients \cup {<<req[r].tenant, req[r].key>>}
            /\ Goto(r, "readClient")
       ELSE Answer(r, 500) /\ UNCHANGED tenantclients
  /\ UNCHANGED <<clients, roles, permissions, personas, links, drawn, faults>>

ReadClient(r) ==
  /\ req[r].pc = "readClient"
  /\ IF ClientsNamed(req[r].id) = {}
       THEN Answer(r, 500)
       ELSE Answer(r, 201)
  /\ UNCHANGED <<tables, faults>>

\* checkClientExists; createClientRole answers 500 to whatever is thrown.
CheckClient(r) ==
  /\ req[r].pc = "checkClient"
  /\ IF ClientsNamed(req[r].id) = {}
       THEN Answer(r, IF req[r].op = "createClientRole" THEN 500 ELSE 404)
       ELSE \E c \in ClientsNamed(req[r].id) :
              Becomes(r, [req[r] EXCEPT !.key = c.key,
                            !.pc = CASE req[r].op = "createClientRole" -> "insertRole"
                                     [] req[r].op = "createPermission" -> "checkName"
                                     [] OTHER -> "updateClient"])
  /\ UNCHANGED <<tables, faults>>

\* updateClientByClientId may change the client_id.  200 even when no row has the
\* old one any more.
UpdateClient(r) ==
  /\ req[r].pc = "updateClient"
  /\ LET old == ClientsNamed(req[r].id) IN
       \/ /\ old = {}
          /\ Answer(r, 200)
          /\ UNCHANGED clients
       \/ /\ old # {} /\ ClientsNamed(req[r].name) \ old # {}
          /\ Answer(r, 409)
          /\ UNCHANGED clients
       \/ /\ old # {} /\ ClientsNamed(req[r].name) \ old = {}
          /\ clients' = (clients \ old) \cup {[c EXCEPT !.client_id = req[r].name] : c \in old}
          /\ Answer(r, 200)
  /\ UNCHANGED <<roles, permissions, personas, tenantclients, links, drawn, faults>>

\* Every foreign key is ON DELETE CASCADE: the pairs of a row go with it.
CascadeLinks ==
  links' = [kind \in Kinds |->
              {l \in links[kind] : l[1] \in Owners(kind)' /\ l[2] \in Objects(kind)'}]

\* DELETE /clients/{client_id} is one statement.
DeleteClient(r, id) ==
  /\ req[r].pc \in {"idle", "done", "unanswered"}
  /\ "deleteClient" \in Operations
  /\ LET gone == Keys(ClientsNamed(id)) IN
       /\ clients' = {c \in clients : c.key \notin gone}
       /\ roles' = {x \in roles : x.clientkey \notin gone}
       /\ permissions' = {x \in permissions : x.clientkey \notin gone}
       /\ tenantclients' = {tc \in tenantclients : tc[2] \notin gone}
       /\ UNCHANGED personas
       /\ CascadeLinks
       /\ Becomes(r, Reply("deleteClient", IF gone = {} THEN 404 ELSE 204))
  /\ UNCHANGED <<drawn, faults>>

-----------------------------------------------------------------------------
(* Roles and permissions of a client. *)

\* What insertRoleByClientId makes of an error is a string: createRole turns it
\* into 400, createClientRole answers 201 with it.
RoleNotInserted(q) == IF q.op = "createRole" THEN 400 ELSE 201

\* Seeded fault: a key is drawn again once its role is gone.
NewRoleKeys_Again == RoleKeys \ Keys(roles)

\* The identity column of `roles' never draws a value twice.
NewRoleKeys == RoleKeys \ drawn

\* INSERT ... SELECT key FROM clients WHERE client_id = ...
InsertRole(r) ==
  /\ req[r].pc = "insertRole"
  /\ \/ \E c \in ClientsNamed(req[r].id), k \in NewRoleKeys :
          /\ \A x \in roles : ~(x.clientkey = c.key /\ x.name = req[r].name)
          /\ roles' = roles \cup {[key |-> k, clientkey |-> c.key, name |-> req[r].name]}
          /\ drawn' = drawn \cup {k}
          /\ Becomes(r, [req[r] EXCEPT !.pc = "readRole"])
     \/ /\ \A c \in ClientsNamed(req[r].id) :
             \E x \in roles : x.clientkey = c.key /\ x.name = req[r].name
        /\ Answer(r, RoleNotInserted(req[r]))
        /\ UNCHANGED <<roles, drawn>>
  /\ UNCHANGED <<clients, permissions, personas, tenantclients, links, faults>>

\* 201 with the row read back, or with nothing if it is gone already.
ReadRole(r) ==
  /\ req[r].pc = "readRole"
  /\ Answer(r, 201)
  /\ UNCHANGED <<tables, faults>>

\* checkPermissionNameUniqueness
CheckName(r) ==
  /\ req[r].pc = "checkName"
  /\ IF \E x \in permissions : x.clientkey = req[r].key /\ x.name = req[r].name
       THEN Answer(r, 409)
       ELSE Goto(r, "insertPermission")
  /\ UNCHANGED <<tables, faults>>

\* Seeded fault: permissions.clientkey references nothing, as before the migration
\* of 2024-02-20.
ClientStillThere_NotChecked(key) == TRUE

\* permissions_clientkey_foreign
ClientStillThere(key) == key \in Keys(clients)

InsertPermission(r) ==
  /\ req[r].pc = "insertPermission"
  /\ IF ClientStillThere(req[r].key)
       THEN \E k \in PermissionKeys \ drawn :
              /\ permissions' = permissions \cup
                   {[key |-> k, clientkey |-> req[r].key, name |-> req[r].name]}
              /\ drawn' = drawn \cup {k}
              /\ Answer(r, 201)
       ELSE Answer(r, 400) /\ UNCHANGED <<permissions, drawn>>
  /\ UNCHANGED <<clients, roles, personas, tenantclients, links, faults>>

-----------------------------------------------------------------------------
(* Assignments: PUT and DELETE on the three join tables. *)

\* Seeded fault: the objects need only exist.
Assignable_Anything(kind, owner) == Objects(kind)

\* The objects that may be assigned to the owner: permissions of the role's
\* client; roles and permissions of clients related to the persona's tenant.
Assignable(kind, owner) ==
  {x.key : x \in
    CASE kind = "rolepermissions" ->
           {x \in permissions : \E y \in roles : y.key = owner /\ y.clientkey = x.clientkey}
      [] kind = "personaroles" ->
           {x \in roles : owner \in personas /\ <<TenantOf[owner], x.clientkey>> \in tenantclients}
      [] OTHER ->
           {x \in permissions : owner \in personas /\ <<TenantOf[owner], x.clientkey>> \in tenantclients}}

\* The existence of the owner is awaited first, except for roles of a persona,
\* where both checks are started together and either may be answered first.
MayCheckObjects(q) == "owner" \notin q.left \/ q.kind = "personaroles"

\* Once every check has passed, the statement that does the work.
Passed(q, check) ==
  [q EXCEPT !.left = @ \ {check},
            !.pc = IF q.left # {check} THEN "checkLinks"
                     ELSE IF q.op = "put" THEN "insertLinks" ELSE "deleteLink"]

\* checkRoleExists, checkPersonaExists
CheckOwner(r) ==
  /\ req[r].pc = "checkLinks" /\ "owner" \in req[r].left
  /\ IF req[r].owner \in Owners(req[r].kind)
       THEN Becomes(r, Passed(req[r], "owner"))
       ELSE Answer(r, 404)
  /\ UNCHANGED <<tables, faults>>

\* checkRolePermissionsValidity, checkPersonaRolesValidity,
\* checkPersonaPermissionsValidity
CheckAssignable(r) ==
  /\ req[r].op = "put" /\ req[r].pc = "checkLinks" /\ "objects" \in req[r].left
  /\ MayCheckObjects(req[r])
  /\ IF req[r].objects \subseteq Assignable(req[r].kind, req[r].owner)
       THEN Becomes(r, Passed(req[r], "objects"))
       ELSE Answer(r, 400)
  /\ UNCHANGED <<tables, faults>>

\* checkRoleExists, checkPermissionExists before a removal from a persona.
CheckObject(r) ==
  /\ req[r].op = "remove" /\ req[r].pc = "checkLinks" /\ "objects" \in req[r].left
  /\ MayCheckObjects(req[r])
  /\ IF req[r].objects \subseteq Objects(req[r].kind)
       THEN Becomes(r, Passed(req[r], "objects"))
       ELSE Answer(r, 404)
  /\ UNCHANGED <<tables, faults>>

\* Seeded fault: the join tables have no foreign keys.
InsertLinks_NoForeignKeys(r) ==
  /\ req[r].pc = "insertLinks"
  /\ links' = [links EXCEPT ![req[r].kind] = @ \cup ({req[r].owner} \X req[r].objects)]
  /\ Answer(r, 204)
  /\ UNCHANGED <<clients, roles, permissions, personas, tenantclients, drawn, faults>>

\* INSERT ... ON CONFLICT DO NOTHING, all rows or, with a key gone, none.
InsertLinks(r) ==
  /\ req[r].pc = "insertLinks"
  /\ LET kind == req[r].kind IN
       IF req[r].owner \in Owners(kind) /\ req[r].objects \subseteq Objects(kind)
         THEN /\ links' = [links EXCEPT ![kind] = @ \cup ({req[r].owner} \X req[r].objects)]
              /\ Answer(r, 204)
         ELSE Answer(r, 400) /\ UNCHANGED links
  /\ UNCHANGED <<clients, roles, permissions, personas, tenantclients, drawn, faults>>

DeleteLink(r) ==
  /\ req[r].pc = "deleteLink"
  /\ links' = [links EXCEPT ![req[r].kind] = @ \ ({req[r].owner} \X req[r].objects)]
  /\ Answer(r, 204)
  /\ UNCHANGED <<clients, roles, permissions, personas, tenantclients, drawn, faults>>

-----------------------------------------------------------------------------
(* Personas. *)

\* POST /personas is one statement; unique on (sub_claim, user_context, tenantkey).
CreatePersona(r, p) ==
  /\ req[r].pc \in {"idle", "done", "unanswered"}
  /\ "createPersona" \in Operations
  /\ p \notin drawn
  /\ IF \E q \in personas : SubjectOf[q] = SubjectOf[p] /\ TenantOf[q] = TenantOf[p]
       THEN /\ Becomes(r, Reply("createPersona", 409))
            /\ UNCHANGED <<personas, drawn>>
       ELSE /\ personas' = personas \cup {p}
            /\ drawn' = drawn \cup {p}
            /\ Becomes(r, Reply("createPersona", 201))
  /\ UNCHANGED <<clients, roles, permissions, tenantclients, links, faults>>

CheckPersona(r) ==
  /\ req[r].pc = "checkPersona"
  /\ IF req[r].owner \in personas THEN Goto(r, "deletePersona") ELSE Answer(r, 404)
  /\ UNCHANGED <<tables, faults>>

DeletePersona(r) ==
  /\ req[r].pc = "deletePersona"
  /\ personas' = personas \ {req[r].owner}
  /\ UNCHANGED <<clients, roles, permissions, tenantclients, drawn, faults>>
  /\ CascadeLinks
  /\ Answer(r, 204)

-----------------------------------------------------------------------------
(* Failures. *)

\* What the handler answers when a statement is rejected.
FailureStatus(q) ==
  CASE q.op = "createClient"     -> 500
    [] q.op = "createRole"       -> 400
    [] q.op = "createClientRole" -> IF q.pc = "checkClient" THEN 500 ELSE 201
    [] q.pc = "checkClient"      -> 404
    [] OTHER                     -> 503

StatementFails(r) ==
  /\ req[r].pc \in Awaits
  /\ faults < MaxFaults
  /\ faults' = faults + 1
  /\ Answer(r, FailureStatus(req[r]))
  /\ UNCHANGED tables

\* The process stops: every request in flight is lost, the tables stay.
Crash ==
  /\ faults < MaxFaults
  /\ faults' = faults + 1
  /\ req' = [r \in Requests |-> IF req[r].pc \in Awaits
                                  THEN [Idle EXCEPT !.pc = "unanswered"] ELSE req[r]]
  /\ UNCHANGED tables

-----------------------------------------------------------------------------
Init ==
  /\ clients = {} /\ roles = {} /\ permissions = {} /\ personas = {}
  /\ tenantclients = {} /\ links = [kind \in Kinds |-> {}]
  /\ drawn = {} /\ faults = 0
  /\ req = [r \in Requests |-> Idle]

ClientRequest(r) ==
  \E id \in ClientIds :
    \/ \E t \in Tenants :
         Arrive(r, [Idle EXCEPT !.op = "createClient", !.pc = "insertClient",
                                !.tenant = t, !.id = id])
    \/ \E new \in ClientIds :
         Arrive(r, [Idle EXCEPT !.op = "updateClient", !.pc = "checkClient",
                                !.id = id, !.name = new])
    \/ \E name \in Names, op \in {"createClientRole", "createPermission"} :
         Arrive(r, [Idle EXCEPT !.op = op, !.pc = "checkClient", !.id = id, !.name = name])
    \/ \E name \in Names :
         Arrive(r, [Idle EXCEPT !.op = "createRole", !.pc = "insertRole",
                                !.id = id, !.name = name])
    \/ DeleteClient(r, id)

\* Clients of the API address rows by keys they have been told of.
LinkRequest(r) ==
  \E kind \in Kinds :
    \E owner \in drawn \cap (IF kind = "rolepermissions" THEN RoleKeys ELSE PersonaKeys),
       objects \in SUBSET (drawn \cap (IF kind = "personaroles" THEN RoleKeys ELSE PermissionKeys)) \ {{}} :
      \/ Arrive(r, [Idle EXCEPT !.op = "put", !.pc = "checkLinks", !.kind = kind,
                      !.owner = owner, !.objects = objects, !.left = {"owner", "objects"}])
      \/ /\ Cardinality(objects) = 1
         /\ Arrive(r, [Idle EXCEPT !.op = "remove", !.pc = "checkLinks", !.kind = kind,
                         !.owner = owner, !.objects = objects,
                         !.left = IF kind = "rolepermissions" THEN {"owner"}
                                  ELSE {"owner", "objects"}])

PersonaRequest(r) ==
  \E p \in PersonaKeys :
    \/ CreatePersona(r, p)
    \/ /\ p \in drawn
       /\ Arrive(r, [Idle EXCEPT !.op = "deletePersona", !.pc = "checkPersona", !.owner = p])

\* The next statement of the request a connection serves.
Step(r) ==
  \/ InsertClient(r) \/ RelateClient(r) \/ ReadClient(r)
  \/ CheckClient(r) \/ UpdateClient(r)
  \/ InsertRole(r) \/ ReadRole(r) \/ CheckName(r) \/ InsertPermission(r)
  \/ CheckOwner(r) \/ CheckAssignable(r) \/ CheckObject(r)
  \/ InsertLinks(r) \/ DeleteLink(r)
  \/ CheckPersona(r) \/ DeletePersona(r)

Serve(r) ==
  ClientRequest(r) \/ LinkRequest(r) \/ PersonaRequest(r) \/ Step(r) \/ StatementFails(r)

Next == (\E r \in Requests : Serve(r)) \/ Crash

Spec == Init /\ [][Next]_cvars

-----------------------------------------------------------------------------
(* Safety. *)

\* The type of every variable.
TypeOK ==
  /\ clients \subseteq ClientRow /\ roles \subseteq RoleRow
  /\ permissions \subseteq PermissionRow /\ personas \subseteq PersonaKeys
  /\ tenantclients \subseteq Tenants \X ClientKeys
  /\ links \in [Kinds -> SUBSET (OwnerKeys \X ObjectKeys)]
  /\ drawn \subseteq ClientKeys \cup RoleKeys \cup PermissionKeys \cup PersonaKeys
  /\ faults \in Nat
  /\ req \in [Requests -> Request]

\* Deleting a client leaves nothing of it behind, and no request that had looked
\* it up before brings a role, a permission or a relation of it back.
NothingOutlivesItsClient ==
  /\ \A x \in roles \cup permissions : x.clientkey \in Keys(clients)
  /\ \A tc \in tenantclients : tc[2] \in Keys(clients)

\* Roles carry permissions of their own client only, and personas roles and
\* permissions of clients of their own tenant: what was checked when the request
\* came holds of the pair for as long as it is in the table.
LinksRespectScope ==
  /\ \A l \in links["rolepermissions"] :
       \E y \in roles, x \in permissions :
         y.key = l[1] /\ x.key = l[2] /\ x.clientkey = y.clientkey
  /\ \A l \in links["personaroles"] : l[1] \in personas /\
       \E x \in roles : x.key = l[2] /\ <<TenantOf[l[1]], x.clientkey>> \in tenantclients
  /\ \A l \in links["personapermissions"] : l[1] \in personas /\
       \E x \in permissions : x.key = l[2] /\ <<TenantOf[l[1]], x.clientkey>> \in tenantclients

\* insertClient takes the "unique tenant to associate Client to": unless a
\* statement failed or the process stopped, a client has a tenant as soon as no
\* request is creating it.  (admin-client.js, three statements, no transaction.)
ClientsHaveTenant ==
  faults = 0 =>
    \A k \in Keys(clients) :
      \/ \E tc \in tenantclients : tc[2] = k
      \/ \E r \in Requests : req[r].pc = "relateClient" /\ req[r].key = k

\* "Checks the uniqueness of a permission name for a given client key"
\* (clients/utils.js): no client has two permissions of one name.
PermissionNamesUnique ==
  \A x, y \in permissions : x.clientkey = y.clientkey /\ x.name = y.name => x = y

(* The inductive invariant. *)

\* A key names one row of its table.
KeysIdentify ==
  /\ \A x, y \in clients : x.key = y.key => x = y
  /\ \A x, y \in roles : x.key = y.key => x = y
  /\ \A x, y \in permissions : x.key = y.key => x = y

RowsDrawn ==
  Keys(clients) \cup Keys(roles) \cup Keys(permissions) \cup personas \subseteq drawn

\* Which handler waits where, and what its parameters then are.
Shape(q) ==
  /\ q.pc \in {"insertClient", "relateClient", "readClient"} =>
       q.op = "createClient" /\ q.tenant \in Tenants /\ q.id \in ClientIds
  /\ q.pc = "relateClient" => q.key \in ClientKeys
  /\ q.pc = "checkClient" => q.op \in {"updateClient", "createClientRole", "createPermission"}
  /\ q.pc \in {"checkClient", "updateClient"} /\ q.op = "updateClient" => q.name \in ClientIds
  /\ q.pc = "updateClient" => q.op = "updateClient"
  /\ q.pc \in {"insertRole", "checkName", "insertPermission"}
       \/ (q.pc = "checkClient" /\ q.op # "updateClient") => q.name \in Names
  /\ q.pc = "checkLinks" => q.op \in {"put", "remove"}
  /\ q.pc = "insertLinks" => q.op = "put" /\ q.left = {}

\* A request names keys that have been drawn, so none of a row yet to come.
NamesDrawn(q) ==
  /\ q.owner # None => q.owner \in drawn
  /\ q.objects \subseteq drawn

\* What a PUT has validated stays assignable while both ends exist.
ValidatedStaysAssignable(q) ==
  ( /\ q.op = "put" /\ q.pc \in {"checkLinks", "insertLinks"}
    /\ "objects" \notin q.left
    /\ q.owner \in Owners(q.kind) )
  => q.objects \cap Objects(q.kind) \subseteq Assignable(q.kind, q.owner)

TableInv == KeysIdentify /\ RowsDrawn /\ NothingOutlivesItsClient /\ LinksRespectScope

RequestInv ==
  \A r \in Requests : /\ Shape(req[r]) /\ NamesDrawn(req[r])
                      /\ ValidatedStaysAssignable(req[r])

IInv == TypeOK /\ TableInv /\ RequestInv
=============================================================================
