---------------------------- MODULE AdminLibrary ----------------------------
(***************************************************************************)
(* The functions of the database layer that name rows, not keys: what the    *)
(* sample data loaders, the tests and an embedding application call.  A      *)
(* function is one statement, with its look-ups in the statement, or several *)
(* awaited one after the other by a caller, between whose statements any     *)
(* other call may run.  Descriptions and other texts are left out.           *)
(***************************************************************************)
EXTENDS Naturals

CONSTANTS
  TenantNames,      \* a name stands for the pair of name and iss_claim
  ClientIds, RoleNames, PermissionNames, GroupNames,
  Subjects, Contexts,
  Callers,          \* calls of several statements that run at a time
  MaxKey,           \* table -> bound on its identity column
  None

Tables == {"tenants", "clients", "roles", "permissions", "personas", "groups"}

ASSUME MaxKeyAssumption == MaxKey \in [Tables -> Nat]

\* The table that the rows of a table belong to, and go with.
Parent == [t \in {"roles", "permissions", "personas"} |->
             IF t = "personas" THEN "tenants" ELSE "clients"]

Joins == {"tenantclients", "grouproles", "personaroles", "rolepermissions", "personapermissions"}

Ends == [tenantclients      |-> <<"tenants", "clients">>,
         grouproles         |-> <<"groups", "roles">>,
         personaroles       |-> <<"personas", "roles">>,
         rolepermissions    |-> <<"roles", "permissions">>,
         personapermissions |-> <<"personas", "permissions">>]

VARIABLES
  rows,         \* table -> its rows
  links,        \* join table -> its pairs of keys
  drawn,        \* table -> the last value its identity column has drawn
  calls,        \* caller -> its call of several statements
  unrelated     \* history: the pairs deleteTenantClient has removed

vars == <<rows, links, drawn, calls, unrelated>>

-----------------------------------------------------------------------------
Persona == Subjects \X Contexts
Name == TenantNames \cup ClientIds \cup RoleNames \cup PermissionNames \cup GroupNames \cup Persona

Row == [key: Nat, name: Name, parent: Nat]

\* insertTenantClient, insertGroupRole, insertPermissionByClientId and insertClient: the
\* arguments still needed, the next statement, and the keys found.
Call == [op: {"none", "tenantclient", "grouprole", "permission", "client"},
         name: Name \cup {None}, of: ClientIds \cup {None},
         pc: {"idle", "find", "insert", "link"}, left: Nat, right: Nat]

Idle == [op |-> "none", name |-> None, of |-> None, pc |-> "idle", left |-> 0, right |-> 0]

Init ==
  /\ rows = [t \in Tables |-> {}]
  /\ links = [j \in Joins |-> {}]
  /\ drawn = [t \in Tables |-> 0]
  /\ calls = [c \in Callers |-> Idle]
  /\ unrelated = {}

-----------------------------------------------------------------------------
(* Statements. *)

Keys(R) == {r.key : r \in R}
Exists(t, key) == key \in Keys(rows[t])

\* WHERE name = ?, and JOIN ... ON its parent WHERE the parent's name = ?
Named(t, name) == {r \in rows[t] : r.name = name}
Owned(t, owner, name) == {r \in Named(t, name) : r.parent \in Keys(Named(Parent[t], owner))}

\* Every name is unique, among its parent's, but a permission's.
Unique(t, name, parent) ==
  t = "permissions" \/ \A r \in rows[t] : r.name # name \/ r.parent # parent

Insert(t, name, parent) ==
  /\ drawn[t] < MaxKey[t]
  /\ Unique(t, name, parent)
  /\ rows' = [rows EXCEPT ![t] = @ \cup {[key |-> drawn[t] + 1, name |-> name, parent |-> parent]}]
  /\ drawn' = [drawn EXCEPT ![t] = @ + 1]

\* Seeded fault: the foreign keys do not cascade.
Gone_NoCascade(t, doomed) == [u \in Tables |-> IF u = t THEN doomed ELSE {}]

\* What goes with the rows deleted from a table, from every table.
Gone(t, doomed) ==
  [u \in Tables |->
     IF u = t THEN doomed
     ELSE IF u \in DOMAIN Parent /\ Parent[u] = t
            THEN {r \in rows[u] : r.parent \in Keys(doomed)}
            ELSE {}]

Delete(t, doomed) ==
  LET gone == Gone(t, doomed) IN
  /\ doomed # {}
  /\ rows' = [u \in Tables |-> rows[u] \ gone[u]]
  /\ links' = [j \in Joins |-> {p \in links[j] : /\ p[1] \notin Keys(gone[Ends[j][1]])
                                                 /\ p[2] \notin Keys(gone[Ends[j][2]])}]
  /\ UNCHANGED <<drawn, calls, unrelated>>

\* UPDATE ... SET name: refused if a row is to have the name of another.
Rename(t, changed, new) ==
  /\ changed # {}
  /\ \A r \in changed : Unique(t, new, r.parent)
  /\ rows' = [rows EXCEPT ![t] = {IF r \in changed THEN [r EXCEPT !.name = new] ELSE r : r \in @}]
  /\ UNCHANGED <<links, drawn, calls, unrelated>>

\* INSERT ... SELECT: all of the pairs or, if one of them is there, none.
LinkAll(j, pairs) ==
  /\ pairs # {} /\ pairs \cap links[j] = {}
  /\ links' = [links EXCEPT ![j] = @ \cup pairs]
  /\ UNCHANGED <<rows, drawn, calls, unrelated>>

Unlink(j, pairs) ==
  /\ pairs \cap links[j] # {}
  /\ links' = [links EXCEPT ![j] = @ \ pairs]
  /\ UNCHANGED <<rows, drawn, calls>>

-----------------------------------------------------------------------------
(* Functions of one statement.  One that matches no row, or is refused by a   *)
(* constraint, changes nothing.                                               *)

InsertTenant(name) == Insert("tenants", name, 0) /\ UNCHANGED <<links, calls, unrelated>>
DeleteTenant(name) == Delete("tenants", Named("tenants", name))

InsertGroup(name) == Insert("groups", name, 0) /\ UNCHANGED <<links, calls, unrelated>>
DeleteGroup(name) == Delete("groups", Named("groups", name))

DeleteClient(id) == Delete("clients", Named("clients", id))
UpdateClient(id, new) == Rename("clients", Named("clients", id), new)

InsertPersona(tenant, persona) ==
  \E t \in Named("tenants", tenant) :
    Insert("personas", persona, t.key) /\ UNCHANGED <<links, calls, unrelated>>

DeletePersona(tenant, persona) == Delete("personas", Owned("personas", tenant, persona))

UpdatePersona(tenant, old, new) == Rename("personas", Owned("personas", tenant, old), new)

InsertRole(client, name) ==
  \E c \in Named("clients", client) :
    Insert("roles", name, c.key) /\ UNCHANGED <<links, calls, unrelated>>

\* The EXISTS does not mention the role: those of every client go.
DeleteRole(client, name) == Named("clients", client) # {} /\ Delete("roles", Named("roles", name))

DeletePermission(client, name) ==
  Named("clients", client) # {} /\ Delete("permissions", Named("permissions", name))

TenantClients(tenant, client) ==
  Keys(Named("tenants", tenant)) \X Keys(Named("clients", client))

DeleteTenantClient(tenant, client) ==
  /\ Unlink("tenantclients", TenantClients(tenant, client))
  /\ unrelated' = unrelated \cup (links["tenantclients"] \cap TenantClients(tenant, client))

GroupRoles(group, client, role) ==
  Keys(Named("groups", group)) \X Keys(Owned("roles", client, role))

DeleteGroupRole(group, client, role) ==
  Unlink("grouproles", GroupRoles(group, client, role)) /\ UNCHANGED unrelated

\* The pairs of two rows whose parents a tenantclient relates.
Related(P, R) ==
  {<<x[1].key, x[2].key>> : x \in {y \in P \X R : <<y[1].parent, y[2].parent>> \in links["tenantclients"]}}

\* Seeded fault: the join with tenantclients is forgotten.
PersonaRoles_AnyTenant(tenant, persona, client, role) ==
  Keys(Owned("personas", tenant, persona)) \X Keys(Owned("roles", client, role))

PersonaRoles(tenant, persona, client, role) ==
  Related(Owned("personas", tenant, persona), Owned("roles", client, role))

InsertPersonaRole(tenant, persona, client, role) ==
  LinkAll("personaroles", PersonaRoles(tenant, persona, client, role))

DeletePersonaRole(tenant, persona, client, role) ==
  Unlink("personaroles", PersonaRoles(tenant, persona, client, role)) /\ UNCHANGED unrelated

\* By subject: in every context and every tenant.
OfSubject(sub) == {p \in rows["personas"] : p.name[1] = sub}

InsertPersonaPermission(client, sub, name) ==
  LinkAll("personapermissions", Related(OfSubject(sub), Owned("permissions", client, name)))

\* The EXISTS does not mention the permission: all of the subject's go.
DeletePersonaPermission(client, sub, name) ==
  /\ Owned("permissions", client, name) # {}
  /\ Unlink("personapermissions", {x \in links["personapermissions"] : x[1] \in Keys(OfSubject(sub))})
  /\ UNCHANGED unrelated

\* The permission is of any client.
RolePermissions(client, role, name) ==
  Keys(Owned("roles", client, role)) \X Keys(Named("permissions", name))

InsertRolePermission(client, role, name) ==
  LinkAll("rolepermissions", RolePermissions(client, role, name))

DeleteRolePermission(client, role, name) ==
  Unlink("rolepermissions", RolePermissions(client, role, name)) /\ UNCHANGED unrelated

-----------------------------------------------------------------------------
(* Functions of several statements. *)

Becomes(c, call) == calls' = [calls EXCEPT ![c] = call]

FirstTable(op) == CASE op = "grouprole" -> "groups" [] op = "permission" -> "clients" [] OTHER -> "tenants"

\* The first look-up, of a tenant, a group or a client.
FindFirst(c, op, first, name, of) ==
  /\ calls[c].pc = "idle"
  /\ \E r \in Named(FirstTable(op), first) :
       Becomes(c, [Idle EXCEPT !.op = op, !.name = name, !.of = of, !.left = r.key,
                     !.pc = IF op \in {"permission", "client"} THEN "insert" ELSE "find"])
  /\ UNCHANGED <<rows, links, drawn, unrelated>>

FindSecond(c) ==
  /\ calls[c].pc = "find"
  /\ \E r \in IF calls[c].op = "grouprole" THEN Owned("roles", calls[c].of, calls[c].name)
                                          ELSE Named("clients", calls[c].name) :
       Becomes(c, [calls[c] EXCEPT !.right = r.key, !.pc = "link"])
  /\ UNCHANGED <<rows, links, drawn, unrelated>>

InsertPermission(c) ==
  /\ calls[c].pc = "insert" /\ calls[c].op = "permission"
  /\ Exists("clients", calls[c].left)
  /\ Insert("permissions", calls[c].name, calls[c].left)
  /\ Becomes(c, Idle)
  /\ UNCHANGED <<links, unrelated>>

InsertClient(c) ==
  /\ calls[c].pc = "insert" /\ calls[c].op = "client"
  /\ Insert("clients", calls[c].name, 0)
  /\ Becomes(c, [calls[c] EXCEPT !.right = drawn["clients"] + 1, !.pc = "link"])
  /\ UNCHANGED <<links, unrelated>>

JoinOf(op) == IF op = "grouprole" THEN "grouproles" ELSE "tenantclients"

\* Seeded fault: the join tables have no foreign keys.
EndsExist_NotChecked(j, left, right) == TRUE

EndsExist(j, left, right) == Exists(Ends[j][1], left) /\ Exists(Ends[j][2], right)

InsertLink(c) ==
  LET call == calls[c] j == JoinOf(call.op) IN
  /\ call.pc = "link"
  /\ EndsExist(j, call.left, call.right)
  /\ links' = [links EXCEPT ![j] = @ \cup {<<call.left, call.right>>}]
  /\ Becomes(c, Idle)
  /\ UNCHANGED <<rows, drawn, unrelated>>

\* The second look-up finds nothing, a statement is refused or fails, or the process stops: the
\* call ends, and what its earlier statements did stays.
Abandon(c) ==
  /\ calls[c].pc # "idle"
  /\ Becomes(c, Idle)
  /\ UNCHANGED <<rows, links, drawn, unrelated>>

Begin(c) ==
  \/ \E t \in TenantNames, id \in ClientIds :
       FindFirst(c, "tenantclient", t, id, None) \/ FindFirst(c, "client", t, id, None)
  \/ \E id \in ClientIds :
       \/ \E p \in PermissionNames : FindFirst(c, "permission", id, p, None)
       \/ \E g \in GroupNames, r \in RoleNames : FindFirst(c, "grouprole", g, r, id)

Step(c) ==
  Begin(c) \/ FindSecond(c) \/ InsertPermission(c) \/ InsertClient(c) \/ InsertLink(c) \/ Abandon(c)

TenantCalls ==
  \E t \in TenantNames :
    \/ InsertTenant(t) \/ DeleteTenant(t)
    \/ \E c \in ClientIds : DeleteTenantClient(t, c)
    \/ \E p \in Persona : InsertPersona(t, p) \/ DeletePersona(t, p)
                          \/ \E q \in Persona : UpdatePersona(t, p, q)
    \/ \E p \in Persona, c \in ClientIds, r \in RoleNames :
         InsertPersonaRole(t, p, c, r) \/ DeletePersonaRole(t, p, c, r)

ClientCalls ==
  \E c \in ClientIds :
    \/ DeleteClient(c) \/ \E new \in ClientIds : UpdateClient(c, new)
    \/ \E r \in RoleNames :
         \/ InsertRole(c, r) \/ DeleteRole(c, r)
         \/ \E g \in GroupNames : DeleteGroupRole(g, c, r)
         \/ \E p \in PermissionNames : InsertRolePermission(c, r, p) \/ DeleteRolePermission(c, r, p)
    \/ \E p \in PermissionNames :
         \/ DeletePermission(c, p)
         \/ \E s \in Subjects : InsertPersonaPermission(c, s, p) \/ DeletePersonaPermission(c, s, p)

GroupCalls == \E g \in GroupNames : InsertGroup(g) \/ DeleteGroup(g)

Next == TenantCalls \/ ClientCalls \/ GroupCalls \/ \E c \in Callers : Step(c)

Spec == Init /\ [][Next]_vars

-----------------------------------------------------------------------------
(* Properties. *)

TypeOK ==
  /\ rows \in [Tables -> SUBSET Row]
  /\ links \in [Joins -> SUBSET (Nat \X Nat)]
  /\ drawn \in [Tables -> Nat]
  /\ calls \in [Callers -> Call]
  /\ unrelated \subseteq Nat \X Nat

\* However the statements of several calls interleave with deletions, no row outlives
\* the row it belongs to and no relation either of its ends.
NothingDangles ==
  /\ \A t \in DOMAIN Parent : \A r \in rows[t] : Exists(Parent[t], r.parent)
  /\ \A j \in Joins : \A p \in links[j] : Exists(Ends[j][1], p[1]) /\ Exists(Ends[j][2], p[2])

\* What a persona has been given belongs to a client of the persona's tenant, unless
\* deleteTenantClient took the client from the tenant afterwards.
GivenWithinTenant ==
  \A j \in {"personaroles", "personapermissions"} :
    \A x \in links[j], p \in rows["personas"], r \in rows[Ends[j][2]] :
      x = <<p.key, r.key>> => <<p.parent, r.parent>> \in links["tenantclients"] \cup unrelated

-----------------------------------------------------------------------------
(* The inductive invariant. *)

\* Keys identify rows, names identify them within their parent but for permissions,
\* and only the rows of three tables have a parent.
RowsInv ==
  \A t \in Tables :
    /\ \A r \in rows[t] : r.key <= drawn[t]
    /\ \A r, s \in rows[t] : r.key = s.key => r = s
    /\ t # "permissions" => \A r, s \in rows[t] : r.name = s.name /\ r.parent = s.parent => r = s
    /\ t \notin DOMAIN Parent => \A r \in rows[t] : r.parent = 0

\* A call that runs has the name it needs.
CallsInv == \A c \in Callers : calls[c].pc # "idle" => calls[c].name \in Name

IInv == TypeOK /\ CallsInv /\ RowsInv /\ NothingDangles /\ GivenWithinTenant
=============================================================================
