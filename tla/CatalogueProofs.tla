-------------------------- MODULE CatalogueProofs --------------------------
(***************************************************************************)
(* Proofs about the administration API: in every reachable state nothing   *)
(* outlives its client and every assignment stays within its client or     *)
(* tenant, for any number of connections, tenants, clients and failures;   *)
(* and the handlers implement the abstract specification Assignments.      *)
(***************************************************************************)
EXTENDS CatalogueRefinement, TLAPS

\* A request as a connection may hold it.
Fit(q) == q \in Request /\ Shape(q) /\ NamesDrawn(q) /\ ValidatedStaysAssignable(q)

\* How the tables may change: rows are deleted, or come with a fresh key; a relation
\* to a tenant goes only with everything of its client.
Evolve ==
  /\ drawn \subseteq drawn'
  /\ \A x \in roles' : x \in roles \/ x.key \notin drawn \cup {None}
  /\ \A x \in permissions' : x \in permissions \/ x.key \notin drawn \cup {None}
  /\ \A p \in personas' : p \in personas \/ p \notin drawn \cup {None}
  /\ \A tc \in tenantclients :
       tc \in tenantclients' \/ \A x \in roles' \cup permissions' : x.clientkey # tc[2]

-----------------------------------------------------------------------------
(* Requests. *)

\* A connection that waits for nothing is fit.
LEMMA RestFits ==
  ASSUME NEW q \in Request, q.pc \in {"idle", "done", "unanswered"},
         q.owner = None, q.objects = {}
  PROVE  Fit(q)
  BY DEF Fit, Shape, NamesDrawn, ValidatedStaysAssignable

LEMMA IdleType == Idle \in Request
  BY DEF Idle, Request

\* So is one that has just been answered.
LEMMA ReplyFits ==
  ASSUME NEW op \in AllOperations \cup {"none"}, NEW status \in Nat
  PROVE  Fit(Reply(op, status)) /\ Reply(op, status).pc = "done"
<1>1. \A q \in Request, o \in AllOperations \cup {"none"}, n \in Nat :
        [q EXCEPT !.op = o, !.pc = "done", !.status = n] \in Request
  BY DEF Request
<1>2. Reply(op, status) \in Request
  BY <1>1, IdleType, Zenon DEF Reply
<1>3. /\ Reply(op, status).pc = "done" /\ Reply(op, status).owner = None
      /\ Reply(op, status).objects = {}
  BY DEF Reply, Idle
<1> QED
  BY <1>2, <1>3, RestFits

\* What is known of a request survives every change of the tables.
LEMMA Survives ==
  ASSUME KeysIdentify, Evolve
  PROVE  \A q \in Request : Fit(q) => NamesDrawn(q)' /\ ValidatedStaysAssignable(q)'
<1> SUFFICES ASSUME NEW q \in Request, Fit(q)
             PROVE  NamesDrawn(q)' /\ ValidatedStaysAssignable(q)'
  OBVIOUS
<1>1. NamesDrawn(q)'
  BY DEF Fit, NamesDrawn, Evolve
<1>2. ValidatedStaysAssignable(q)'
  <2> SUFFICES ASSUME q.op = "put", q.pc \in {"checkLinks", "insertLinks"}, "objects" \notin q.left,
                      q.owner \in Owners(q.kind)',
                      NEW o \in q.objects, o \in Objects(q.kind)'
               PROVE  o \in Assignable(q.kind, q.owner)'
    BY DEF ValidatedStaysAssignable
  <2>1. o \in drawn /\ (q.owner # None => q.owner \in drawn)
    BY DEF Fit, NamesDrawn
  <2>2. \A x \in roles' : x.key \in {q.owner, o} => x \in roles
    BY <2>1 DEF Evolve
  <2>3. \A x \in permissions' : x.key = o => x \in permissions
    BY <2>1 DEF Evolve
  <2>4. \A p \in personas' : p = q.owner => p \in personas
    BY <2>1 DEF Evolve
  <2>5. q.owner \in Owners(q.kind) /\ o \in Objects(q.kind)
    BY <2>2, <2>3, <2>4 DEF Owners, Objects, Keys
  <2>6. o \in Assignable(q.kind, q.owner)
    BY <2>5 DEF Fit, ValidatedStaysAssignable
  <2>7. CASE q.kind = "rolepermissions"
    <3>1. PICK x \in permissions, y \in roles :
            x.key = o /\ y.key = q.owner /\ y.clientkey = x.clientkey
      BY <2>6, <2>7 DEF Assignable
    <3>2. x \in permissions' /\ y \in roles'
      BY <2>2, <2>3, <2>7, <3>1 DEF KeysIdentify, Owners, Objects, Keys
    <3> QED
      BY <2>7, <3>1, <3>2 DEF Assignable
  <2>8. CASE q.kind = "personaroles"
    <3>1. PICK x \in roles : x.key = o /\ <<TenantOf[q.owner], x.clientkey>> \in tenantclients
      BY <2>6, <2>8 DEF Assignable
    <3>2. x \in roles' /\ q.owner \in personas'
      BY <2>2, <2>8, <3>1 DEF KeysIdentify, Owners, Objects, Keys
    <3>3. <<TenantOf[q.owner], x.clientkey>> \in tenantclients'
      BY <3>1, <3>2 DEF Evolve
    <3> QED
      BY <2>8, <3>1, <3>2, <3>3 DEF Assignable
  <2>9. CASE q.kind \notin {"rolepermissions", "personaroles"}
    <3>1. PICK x \in permissions : x.key = o /\ <<TenantOf[q.owner], x.clientkey>> \in tenantclients
      BY <2>6, <2>9 DEF Assignable
    <3>2. x \in permissions' /\ q.owner \in personas'
      BY <2>3, <2>9, <3>1 DEF KeysIdentify, Owners, Objects, Keys
    <3>3. <<TenantOf[q.owner], x.clientkey>> \in tenantclients'
      BY <3>1, <3>2 DEF Evolve
    <3> QED
      BY <2>9, <3>1, <3>2, <3>3 DEF Assignable
  <2> QED
    BY <2>7, <2>8, <2>9
<1> QED
  BY <1>1, <1>2

\* If every connection then holds a fit request, the requests keep their invariant.
LEMMA RequestsKept ==
  ASSUME KeysIdentify, Evolve, NEW f, req' = [p \in Requests |-> f[p]],
         \A p \in Requests : Fit(f[p])
  PROVE  req' \in [Requests -> Request] /\ RequestInv'
<1>1. \A p \in Requests : f[p] \in Request /\ req'[p] = f[p]
  BY DEF Fit
<1>2. \A p \in Requests : /\ Shape(f[p]) /\ NamesDrawn(f[p])'
                          /\ ValidatedStaysAssignable(f[p])'
  BY <1>1, Survives DEF Fit
<1>3. RequestInv'
  BY <1>1, <1>2 DEF RequestInv
<1> QED
  BY <1>1, <1>3

\* The same when one connection changes.
LEMMA RequestKept ==
  ASSUME IInv, Evolve, NEW r \in Requests, NEW q, Fit(q), Becomes(r, q)
  PROVE  req' \in [Requests -> Request] /\ RequestInv'
<1> DEFINE f == [req EXCEPT ![r] = q]
<1>1. \A p \in Requests : Fit(f[p])
  BY DEF IInv, TypeOK, RequestInv, Fit
<1>2. req' = [p \in Requests |-> f[p]]
  BY DEF IInv, TypeOK, Becomes
<1> QED
  BY <1>1, <1>2, RequestsKept DEF IInv, TableInv

-----------------------------------------------------------------------------
(* Steps that change a request and no table. *)

LEMMA LocalStep ==
  ASSUME IInv, NEW r \in Requests, NEW q, Fit(q), Becomes(r, q), UNCHANGED tables, faults' \in Nat
  PROVE  IInv'
<1>1. Evolve
  BY DEF Evolve, tables
<1>2. req' \in [Requests -> Request] /\ RequestInv'
  BY <1>1, RequestKept
<1>3. TypeOK'
  BY <1>2 DEF IInv, TypeOK, tables
<1>4. TableInv'
  BY DEF IInv, TableInv, KeysIdentify, RowsDrawn, NothingOutlivesItsClient, LinksRespectScope, Keys, tables
<1> QED
  BY <1>2, <1>3, <1>4 DEF IInv

\* An answer ends a request.
LEMMA AnswerStep ==
  ASSUME IInv, NEW r \in Requests, NEW status \in Nat, Answer(r, status),
         UNCHANGED tables, faults' \in Nat
  PROVE  IInv'
<1>1. req[r].op \in AllOperations \cup {"none"}
  BY DEF IInv, TypeOK, Request
<1> QED
  BY <1>1, ReplyFits, LocalStep DEF Answer

\* A handler that goes on to a statement other than those of assignments.
LEMMA GotoFits ==
  ASSUME IInv, NEW r \in Requests, NEW pc \in Awaits \ {"checkLinks", "insertLinks"},
         NEW k \in ClientKeys \cup {None},
         Shape([req[r] EXCEPT !.pc = pc, !.key = k])
  PROVE  Fit([req[r] EXCEPT !.pc = pc, !.key = k])
<1> DEFINE q == [req[r] EXCEPT !.pc = pc, !.key = k]
<1>1. req[r] \in Request /\ NamesDrawn(req[r])
  BY DEF IInv, TypeOK, RequestInv
<1>2. \A s \in Request, a \in Awaits, c \in ClientKeys \cup {None} :
        [s EXCEPT !.pc = a, !.key = c] \in Request
  BY DEF Request
<1>3. q \in Request
  BY <1>1, <1>2
<1>4. q.pc = pc /\ q.owner = req[r].owner /\ q.objects = req[r].objects
  BY <1>1 DEF Request
<1> HIDE DEF q
<1>5. Shape(q) /\ NamesDrawn(q) /\ ValidatedStaysAssignable(q)
  BY <1>1, <1>4 DEF NamesDrawn, ValidatedStaysAssignable, q
<1> QED
  BY <1>3, <1>5 DEF Fit, q

LEMMA PcFits ==
  ASSUME IInv, NEW r \in Requests, NEW pc \in Awaits \ {"checkLinks", "insertLinks"},
         Shape([req[r] EXCEPT !.pc = pc])
  PROVE  Fit([req[r] EXCEPT !.pc = pc])
<1>1. req[r] \in Request
  BY DEF IInv, TypeOK
<1>2. [req[r] EXCEPT !.pc = pc] = [req[r] EXCEPT !.pc = pc, !.key = req[r].key]
      /\ req[r].key \in ClientKeys \cup {None}
  BY <1>1 DEF Request
<1> QED
  BY <1>2, GotoFits

\* A step of one request that changes tables.
LEMMA TableStep ==
  ASSUME IInv, Evolve, NEW r \in Requests, NEW q, Fit(q), Becomes(r, q), UNCHANGED faults,
         clients' \subseteq ClientRow, roles' \subseteq RoleRow, permissions' \subseteq PermissionRow,
         personas' \subseteq PersonaKeys, tenantclients' \subseteq Tenants \X ClientKeys,
         links' \in [Kinds -> SUBSET (OwnerKeys \X ObjectKeys)],
         drawn' \subseteq ClientKeys \cup RoleKeys \cup PermissionKeys \cup PersonaKeys,
         TableInv'
  PROVE  IInv'
<1>1. req' \in [Requests -> Request] /\ RequestInv'
  BY RequestKept
<1> QED
  BY <1>1 DEF IInv, TypeOK

-----------------------------------------------------------------------------
(* Clients. *)

LEMMA InsertClientStep == ASSUME IInv, NEW r \in Requests, InsertClient(r) PROVE IInv'
<1>1. CASE ClientsNamed(req[r].id) # {}
  BY <1>1, AnswerStep DEF InsertClient, tables, IInv, TypeOK
<1>2. CASE ClientsNamed(req[r].id) = {}
  <2> DEFINE q(k) == [req[r] EXCEPT !.pc = "relateClient", !.key = k]
  <2>1. PICK k \in ClientKeys \ drawn :
          /\ clients' = clients \cup {[key |-> k, client_id |-> req[r].id]}
          /\ drawn' = drawn \cup {k}
          /\ Becomes(r, q(k))
    BY <1>2 DEF InsertClient
  <2>2. UNCHANGED <<roles, permissions, personas, tenantclients, links, faults>>
        /\ req[r].pc = "insertClient"
    BY DEF InsertClient
  <2>3. req[r] \in Request /\ Shape(req[r]) /\ req[r].id \in ClientIds
    BY <2>2 DEF IInv, TypeOK, RequestInv, Shape
  <2>4. Fit(q(k))
    <3>1. /\ q(k).op = req[r].op /\ q(k).tenant = req[r].tenant /\ q(k).id = req[r].id
          /\ q(k).pc = "relateClient" /\ q(k).key = k
      BY <2>3 DEF Request
    <3>2. Shape(q(k))
      BY <2>2, <2>3, <3>1 DEF Shape
    <3> QED
      BY <3>2, GotoFits DEF Awaits
  <2>5. Evolve
    BY <2>1, <2>2 DEF Evolve
  <2>6. TableInv'
    BY <2>1, <2>2 DEF IInv, TypeOK, TableInv, KeysIdentify, RowsDrawn, NothingOutlivesItsClient, LinksRespectScope, Keys
  <2>7. clients' \subseteq ClientRow
    BY <2>1, <2>3 DEF IInv, TypeOK, ClientRow
  <2> HIDE DEF q
  <2> QED
    BY <2>1, <2>2, <2>4, <2>5, <2>6, <2>7, TableStep DEF IInv, TypeOK
<1> QED
  BY <1>1, <1>2

LEMMA RelateClientStep == ASSUME IInv, NEW r \in Requests, RelateClient(r) PROVE IInv'
<1> DEFINE q == [req[r] EXCEPT !.pc = "readClient"]
<1>1. /\ req[r].pc = "relateClient" /\ req[r] \in Request /\ Shape(req[r])
      /\ UNCHANGED <<clients, roles, permissions, personas, links, drawn, faults>>
  BY DEF RelateClient, IInv, TypeOK, RequestInv
<1>2. CASE req[r].key \notin Keys(clients)
  BY <1>2, AnswerStep DEF RelateClient, tables, IInv, TypeOK
<1>3. CASE req[r].key \in Keys(clients)
  <2>1. Becomes(r, q) /\ tenantclients' = tenantclients \cup {<<req[r].tenant, req[r].key>>}
    BY <1>3 DEF RelateClient, Goto
  <2>2. Fit(q)
    <3>1. q.op = req[r].op /\ q.tenant = req[r].tenant /\ q.id = req[r].id /\ q.pc = "readClient"
      BY <1>1 DEF Request
    <3>2. Shape(q)
      BY <1>1, <3>1 DEF Shape
    <3> QED
      BY <3>2, PcFits DEF Awaits
  <2>3. Evolve
    BY <1>1, <2>1 DEF Evolve
  <2>4. TableInv'
    BY <1>1, <1>3, <2>1 DEF IInv, TypeOK, TableInv, KeysIdentify, RowsDrawn, NothingOutlivesItsClient, LinksRespectScope, Keys
  <2>5. tenantclients' \subseteq Tenants \X ClientKeys
    BY <1>1, <2>1 DEF IInv, TypeOK, Shape
  <2> HIDE DEF q
  <2> QED
    BY <1>1, <2>1, <2>2, <2>3, <2>4, <2>5, TableStep DEF IInv, TypeOK
<1> QED
  BY <1>2, <1>3

LEMMA ReadClientStep == ASSUME IInv, NEW r \in Requests, ReadClient(r) PROVE IInv'
<1>1. PICK status \in Nat : Answer(r, status)
  BY DEF ReadClient
<1> QED
  BY <1>1, AnswerStep DEF ReadClient, IInv, TypeOK, tables

LEMMA CheckClientStep == ASSUME IInv, NEW r \in Requests, CheckClient(r) PROVE IInv'
<1>1. /\ req[r].pc = "checkClient" /\ req[r] \in Request /\ Shape(req[r])
      /\ UNCHANGED <<tables, faults>> /\ faults' \in Nat
  BY DEF CheckClient, IInv, TypeOK, RequestInv
<1>2. CASE ClientsNamed(req[r].id) = {}
  <2>1. PICK status \in Nat : Answer(r, status)
    BY <1>2 DEF CheckClient
  <2> QED
    BY <1>1, <2>1, AnswerStep
<1>3. CASE ClientsNamed(req[r].id) # {}
  <2> DEFINE q(pc, k) == [req[r] EXCEPT !.pc = pc, !.key = k]
             pc == CASE req[r].op = "createClientRole" -> "insertRole"
                     [] req[r].op = "createPermission" -> "checkName"
                     [] OTHER -> "updateClient"
  <2>1. PICK c \in ClientsNamed(req[r].id) : Becomes(r, [req[r] EXCEPT !.key = c.key, !.pc = pc])
    BY <1>3 DEF CheckClient
  <2>2. Becomes(r, q(pc, c.key)) /\ c.key \in ClientKeys
    BY <2>1 DEF Becomes, ClientsNamed, IInv, TypeOK, ClientRow
  <2>3. /\ pc \in {"insertRole", "checkName", "updateClient"}
        /\ pc = "updateClient" => req[r].op = "updateClient"
        /\ pc \in {"insertRole", "checkName"} => req[r].op # "updateClient"
    BY <1>1 DEF Shape
  <2> HIDE DEF pc
  <2>4. /\ q(pc, c.key).pc = pc /\ q(pc, c.key).op = req[r].op /\ q(pc, c.key).name = req[r].name
    BY <1>1 DEF Request
  <2>5. Shape(q(pc, c.key))
    BY <1>1, <2>3, <2>4 DEF Shape
  <2>6. pc \in Awaits \ {"checkLinks", "insertLinks"}
    BY <2>3 DEF Awaits
  <2>7. Fit(q(pc, c.key))
    BY <2>2, <2>5, <2>6, GotoFits
  <2> QED
    BY <1>1, <2>2, <2>7, LocalStep
<1> QED
  BY <1>2, <1>3

LEMMA UpdateClientStep == ASSUME IInv, NEW r \in Requests, UpdateClient(r) PROVE IInv'
<1> DEFINE old == ClientsNamed(req[r].id)
           new == {[c EXCEPT !.client_id = req[r].name] : c \in old}
<1>1. /\ req[r].pc = "updateClient" /\ req[r] \in Request /\ Shape(req[r])
      /\ UNCHANGED <<roles, permissions, personas, tenantclients, links, drawn, faults>>
      /\ req[r].name \in ClientIds /\ old \subseteq clients
  BY DEF UpdateClient, IInv, TypeOK, RequestInv, Shape, ClientsNamed
<1>2. PICK status \in Nat : Answer(r, status)
  BY DEF UpdateClient
<1>3. CASE UNCHANGED clients
  BY <1>1, <1>2, <1>3, AnswerStep DEF IInv, TypeOK, tables
<1>4. CASE clients' = (clients \ old) \cup new
  <2>1. \A c \in old : /\ [c EXCEPT !.client_id = req[r].name] \in ClientRow
                       /\ [c EXCEPT !.client_id = req[r].name].key = c.key
    BY <1>1 DEF IInv, TypeOK, ClientRow
  <2>2. /\ clients' \subseteq ClientRow
        /\ \A c \in clients' : (c \in clients /\ c \notin old) \/
             \E d \in old : c = [d EXCEPT !.client_id = req[r].name] /\ c.key = d.key
    BY <1>4, <2>1 DEF IInv, TypeOK
  <2>3. Keys(clients') = Keys(clients)
    <3>1. Keys(clients') \subseteq Keys(clients)
      BY <1>1, <2>2 DEF Keys
    <3>2. \A c \in clients : \E d \in clients' : d.key = c.key
      BY <1>1, <1>4, <2>1
    <3> QED
      BY <3>1, <3>2 DEF Keys
  <2>4. \A x, y \in clients' : x.key = y.key => x = y
    BY <1>1, <2>2 DEF IInv, TableInv, KeysIdentify
  <2>5. TableInv'
    <3>1. KeysIdentify'
      BY <1>1, <2>4 DEF IInv, TableInv, KeysIdentify
    <3>2. RowsDrawn' /\ NothingOutlivesItsClient'
      BY <1>1, <2>3 DEF IInv, TableInv, RowsDrawn, NothingOutlivesItsClient, Keys
    <3>3. LinksRespectScope'
      BY <1>1 DEF IInv, TableInv, LinksRespectScope
    <3> QED
      BY <3>1, <3>2, <3>3 DEF TableInv
  <2>6. Evolve
    BY <1>1 DEF Evolve
  <2>7. req[r].op \in AllOperations \cup {"none"}
    BY <1>1 DEF Request
  <2> QED
    BY <1>1, <1>2, <2>2, <2>5, <2>6, <2>7, ReplyFits, TableStep DEF IInv, TypeOK, Answer
<1> QED
  BY <1>1, <1>3, <1>4 DEF UpdateClient

\* Deletions leave of every table the rows whose ends are left.
LEMMA LinksLeft ==
  ASSUME IInv, Evolve, roles' \subseteq roles, permissions' \subseteq permissions,
         personas' \subseteq personas, CascadeLinks
  PROVE  /\ LinksRespectScope'
         /\ links' \in [Kinds -> SUBSET (OwnerKeys \X ObjectKeys)]
<1>1. /\ \A l \in links'["rolepermissions"] :
           l \in links["rolepermissions"] /\ l[1] \in Keys(roles') /\ l[2] \in Keys(permissions')
      /\ \A l \in links'["personaroles"] :
           l \in links["personaroles"] /\ l[1] \in personas' /\ l[2] \in Keys(roles')
      /\ \A l \in links'["personapermissions"] :
           l \in links["personapermissions"] /\ l[1] \in personas' /\ l[2] \in Keys(permissions')
  BY DEF CascadeLinks, Owners, Objects, Keys, Kinds
<1>2. links' \in [Kinds -> SUBSET (OwnerKeys \X ObjectKeys)]
  BY DEF CascadeLinks, IInv, TypeOK
<1>3. /\ \A x \in roles : x.key \in Keys(roles') => x \in roles'
      /\ \A x \in permissions : x.key \in Keys(permissions') => x \in permissions'
  BY DEF Keys, IInv, TableInv, KeysIdentify
<1>4. ASSUME NEW l \in links'["rolepermissions"]
      PROVE  \E y \in roles', x \in permissions' :
               y.key = l[1] /\ x.key = l[2] /\ x.clientkey = y.clientkey
  <2>1. PICK y \in roles, x \in permissions : y.key = l[1] /\ x.key = l[2] /\ x.clientkey = y.clientkey
    BY <1>1, <1>4 DEF IInv, TableInv, LinksRespectScope
  <2>2. y \in roles' /\ x \in permissions'
    BY <1>1, <1>3, <1>4, <2>1
  <2> QED
    BY <2>1, <2>2
<1>5. ASSUME NEW l \in links'["personaroles"]
      PROVE  l[1] \in personas' /\ \E x \in roles' :
               x.key = l[2] /\ <<TenantOf[l[1]], x.clientkey>> \in tenantclients'
  <2>1. PICK x \in roles : x.key = l[2] /\ <<TenantOf[l[1]], x.clientkey>> \in tenantclients
    BY <1>1, <1>5 DEF IInv, TableInv, LinksRespectScope
  <2>2. l[1] \in personas' /\ x \in roles'
    BY <1>1, <1>3, <1>5, <2>1
  <2> QED
    BY <2>1, <2>2 DEF Evolve
<1>6. ASSUME NEW l \in links'["personapermissions"]
      PROVE  l[1] \in personas' /\ \E x \in permissions' :
               x.key = l[2] /\ <<TenantOf[l[1]], x.clientkey>> \in tenantclients'
  <2>1. PICK x \in permissions : x.key = l[2] /\ <<TenantOf[l[1]], x.clientkey>> \in tenantclients
    BY <1>1, <1>6 DEF IInv, TableInv, LinksRespectScope
  <2>2. l[1] \in personas' /\ x \in permissions'
    BY <1>1, <1>3, <1>6, <2>1
  <2> QED
    BY <2>1, <2>2 DEF Evolve
<1> QED
  BY <1>2, <1>4, <1>5, <1>6 DEF LinksRespectScope

LEMMA DeleteClientStep == ASSUME IInv, NEW r \in Requests, NEW id, DeleteClient(r, id) PROVE IInv'
<1> DEFINE gone == Keys(ClientsNamed(id))
<1>1. /\ clients' = {c \in clients : c.key \notin gone}
      /\ roles' = {x \in roles : x.clientkey \notin gone}
      /\ permissions' = {x \in permissions : x.clientkey \notin gone}
      /\ tenantclients' = {tc \in tenantclients : tc[2] \notin gone}
      /\ UNCHANGED <<personas, drawn, faults>>
      /\ CascadeLinks
  BY DEF DeleteClient
<1>2. PICK status \in Nat : Becomes(r, Reply("deleteClient", status))
  BY DEF DeleteClient
<1>3. Fit(Reply("deleteClient", status))
  BY ReplyFits DEF AllOperations
<1>4. Evolve
  BY <1>1 DEF Evolve
<1> HIDE DEF gone
<1>5. LinksRespectScope' /\ links' \in [Kinds -> SUBSET (OwnerKeys \X ObjectKeys)]
  BY <1>1, <1>4, LinksLeft
<1>6. TableInv'
  BY <1>1, <1>5 DEF IInv, TableInv, KeysIdentify, RowsDrawn, NothingOutlivesItsClient, Keys
<1> QED
  BY <1>1, <1>2, <1>3, <1>4, <1>5, <1>6, TableStep DEF IInv, TypeOK

-----------------------------------------------------------------------------
(* Roles and permissions. *)

LEMMA InsertRoleStep == ASSUME IInv, NEW r \in Requests, InsertRole(r) PROVE IInv'
<1>1. /\ req[r].pc = "insertRole" /\ req[r] \in Request /\ Shape(req[r])
      /\ UNCHANGED <<clients, permissions, personas, tenantclients, links, faults>>
  BY DEF InsertRole, IInv, TypeOK, RequestInv
<1>2. CASE Answer(r, RoleNotInserted(req[r])) /\ UNCHANGED <<roles, drawn>>
  <2>1. RoleNotInserted(req[r]) \in Nat
    BY DEF RoleNotInserted
  <2> QED
    BY <1>1, <1>2, <2>1, AnswerStep DEF IInv, TypeOK, tables
<1>3. ASSUME NEW c \in ClientsNamed(req[r].id), NEW k \in RoleKeys \ drawn,
             roles' = roles \cup {[key |-> k, clientkey |-> c.key, name |-> req[r].name]},
             drawn' = drawn \cup {k},
             Becomes(r, [req[r] EXCEPT !.pc = "readRole"])
      PROVE  IInv'
  <2> DEFINE x == [key |-> k, clientkey |-> c.key, name |-> req[r].name]
  <2>1. c \in clients /\ c.key \in ClientKeys /\ c.key \in Keys(clients)
    BY DEF ClientsNamed, Keys, IInv, TypeOK, ClientRow
  <2>2. x \in RoleRow /\ x.key = k /\ x.clientkey = c.key
    BY <1>1, <2>1 DEF Shape, RoleRow
  <2>3. Fit([req[r] EXCEPT !.pc = "readRole"])
    <3>1. Shape([req[r] EXCEPT !.pc = "readRole"])
      BY <1>1 DEF Shape, Request
    <3> QED
      BY <3>1, PcFits DEF Awaits
  <2> HIDE DEF x
  <2>4. roles' = roles \cup {x}
    BY <1>3 DEF x
  <2>5. Evolve
    BY <1>1, <1>3, <2>1, <2>2, <2>4, NoneAssumption
       DEF Evolve, IInv, TableInv, NothingOutlivesItsClient
  <2>6. TableInv'
    BY <1>1, <1>3, <2>1, <2>2, <2>4 DEF IInv, TypeOK, TableInv, KeysIdentify, RowsDrawn, NothingOutlivesItsClient, LinksRespectScope, Keys
  <2> QED
    BY <1>1, <1>3, <2>2, <2>3, <2>4, <2>5, <2>6, TableStep DEF IInv, TypeOK
<1> QED
  BY <1>1, <1>2, <1>3 DEF InsertRole, NewRoleKeys

LEMMA ReadRoleStep == ASSUME IInv, NEW r \in Requests, ReadRole(r) PROVE IInv'
  BY AnswerStep DEF ReadRole, IInv, TypeOK, tables

LEMMA CheckNameStep == ASSUME IInv, NEW r \in Requests, CheckName(r) PROVE IInv'
<1>1. /\ req[r].pc = "checkName" /\ req[r] \in Request /\ Shape(req[r])
      /\ UNCHANGED <<tables, faults>> /\ faults' \in Nat
  BY DEF CheckName, IInv, TypeOK, RequestInv
<1>2. Shape([req[r] EXCEPT !.pc = "insertPermission"])
  BY <1>1 DEF Shape, Request
<1>3. Fit([req[r] EXCEPT !.pc = "insertPermission"])
  BY <1>2, PcFits DEF Awaits
<1> QED
  BY <1>1, <1>3, LocalStep, AnswerStep DEF CheckName, Goto

LEMMA InsertPermissionStep == ASSUME IInv, NEW r \in Requests, InsertPermission(r) PROVE IInv'
<1>1. /\ req[r].pc = "insertPermission" /\ req[r] \in Request /\ Shape(req[r])
      /\ UNCHANGED <<clients, roles, personas, tenantclients, links, faults>>
  BY DEF InsertPermission, IInv, TypeOK, RequestInv
<1>2. CASE ~ClientStillThere(req[r].key)
  BY <1>2, AnswerStep DEF InsertPermission, IInv, TypeOK, tables
<1>3. CASE ClientStillThere(req[r].key)
  <2> DEFINE x(k) == [key |-> k, clientkey |-> req[r].key, name |-> req[r].name]
  <2>1. PICK k \in PermissionKeys \ drawn :
          /\ permissions' = permissions \cup {x(k)}
          /\ drawn' = drawn \cup {k}
          /\ Answer(r, 201)
    BY <1>3 DEF InsertPermission
  <2>2. req[r].key \in Keys(clients) /\ req[r].key \in ClientKeys
    BY <1>3 DEF ClientStillThere, Keys, IInv, TypeOK, ClientRow
  <2>3. x(k) \in PermissionRow /\ x(k).key = k /\ x(k).clientkey = req[r].key
    BY <1>1, <2>2 DEF Shape, PermissionRow
  <2> HIDE DEF x
  <2>4. Fit(Reply(req[r].op, 201)) /\ Becomes(r, Reply(req[r].op, 201))
    BY <1>1, <2>1, ReplyFits DEF Request, Answer
  <2>5. Evolve
    BY <1>1, <2>1, <2>2, <2>3, NoneAssumption DEF Evolve
  <2>6. TableInv'
    BY <1>1, <2>1, <2>2, <2>3 DEF IInv, TypeOK, TableInv, KeysIdentify, RowsDrawn, NothingOutlivesItsClient, LinksRespectScope, Keys
  <2> QED
    BY <1>1, <2>1, <2>3, <2>4, <2>5, <2>6, TableStep DEF IInv, TypeOK
<1> QED
  BY <1>2, <1>3

-----------------------------------------------------------------------------
(* Personas. *)

LEMMA CreatePersonaStep ==
  ASSUME IInv, NEW r \in Requests, NEW p \in PersonaKeys, CreatePersona(r, p) PROVE IInv'
<1>1. \A status \in Nat : Fit(Reply("createPersona", status))
  BY ReplyFits DEF AllOperations
<1>2. CASE UNCHANGED <<personas, drawn>> /\ Becomes(r, Reply("createPersona", 409))
  BY <1>1, <1>2, LocalStep DEF CreatePersona, IInv, TypeOK, tables
<1>3. CASE /\ personas' = personas \cup {p} /\ drawn' = drawn \cup {p}
           /\ Becomes(r, Reply("createPersona", 201))
  <2>1. UNCHANGED <<clients, roles, permissions, tenantclients, links, faults>> /\ p \notin drawn
    BY DEF CreatePersona
  <2>2. Evolve
    BY <1>3, <2>1, NoneAssumption DEF Evolve
  <2>3. TableInv'
    BY <1>3, <2>1 DEF IInv, TypeOK, TableInv, KeysIdentify, RowsDrawn, NothingOutlivesItsClient, LinksRespectScope, Keys
  <2> QED
    BY <1>1, <1>3, <2>1, <2>2, <2>3, TableStep DEF IInv, TypeOK
<1> QED
  BY <1>2, <1>3 DEF CreatePersona

LEMMA CheckPersonaStep == ASSUME IInv, NEW r \in Requests, CheckPersona(r) PROVE IInv'
<1>1. /\ req[r].pc = "checkPersona" /\ req[r] \in Request /\ Shape(req[r])
      /\ UNCHANGED <<tables, faults>> /\ faults' \in Nat
  BY DEF CheckPersona, IInv, TypeOK, RequestInv
<1>2. Shape([req[r] EXCEPT !.pc = "deletePersona"])
  BY <1>1 DEF Shape, Request
<1>3. Fit([req[r] EXCEPT !.pc = "deletePersona"])
  BY <1>2, PcFits DEF Awaits
<1> QED
  BY <1>1, <1>3, LocalStep, AnswerStep DEF CheckPersona, Goto

LEMMA DeletePersonaStep == ASSUME IInv, NEW r \in Requests, DeletePersona(r) PROVE IInv'
<1>1. /\ personas' = personas \ {req[r].owner}
      /\ UNCHANGED <<clients, roles, permissions, tenantclients, drawn, faults>>
      /\ CascadeLinks /\ Answer(r, 204) /\ req[r] \in Request
  BY DEF DeletePersona, IInv, TypeOK
<1>2. Fit(Reply(req[r].op, 204)) /\ Becomes(r, Reply(req[r].op, 204))
  BY <1>1, ReplyFits DEF Request, Answer
<1>3. Evolve
  BY <1>1 DEF Evolve
<1>4. LinksRespectScope' /\ links' \in [Kinds -> SUBSET (OwnerKeys \X ObjectKeys)]
  BY <1>1, <1>3, LinksLeft
<1>5. TableInv'
  BY <1>1, <1>4 DEF IInv, TableInv, KeysIdentify, RowsDrawn, NothingOutlivesItsClient, Keys
<1> QED
  BY <1>1, <1>2, <1>3, <1>4, <1>5, TableStep DEF IInv, TypeOK

-----------------------------------------------------------------------------
(* Assignments. *)

LEMMA PassedFits ==
  ASSUME NEW q \in Request, Fit(q), q.pc = "checkLinks", NEW check \in q.left,
         q.op = "put" /\ check = "objects" => q.objects \subseteq Assignable(q.kind, q.owner)
  PROVE  Fit(Passed(q, check))
<1> DEFINE pc == IF q.left # {check} THEN "checkLinks"
                   ELSE IF q.op = "put" THEN "insertLinks" ELSE "deleteLink"
           n == [q EXCEPT !.left = @ \ {check}, !.pc = pc]
<1>1. n = Passed(q, check)
  BY DEF Passed
<1>2. pc \in Awaits
  BY DEF Awaits
<1>3. \A s \in Request, l \in SUBSET {"owner", "objects"}, a \in Awaits :
        [s EXCEPT !.left = l, !.pc = a] \in Request
  BY DEF Request
<1>4. q.left \ {check} \in SUBSET {"owner", "objects"}
  BY DEF Request
<1>5. n \in Request
  BY <1>2, <1>3, <1>4
<1>6. /\ n.pc = pc /\ n.left = q.left \ {check} /\ n.op = q.op
      /\ n.kind = q.kind /\ n.owner = q.owner /\ n.objects = q.objects
  BY DEF Request
<1>7. /\ pc \in {"checkLinks", "insertLinks", "deleteLink"}
      /\ pc = "insertLinks" => q.op = "put" /\ q.left = {check}
      /\ q.op \in {"put", "remove"}
  BY DEF Fit, Shape
<1> HIDE DEF n, pc
<1>8. Shape(n)
  BY <1>6, <1>7 DEF Shape
<1>9. NamesDrawn(n)
  BY <1>6 DEF Fit, NamesDrawn
<1>10. ValidatedStaysAssignable(n)
  <2>1. CASE check = "objects"
    BY <1>6, <2>1 DEF ValidatedStaysAssignable
  <2>2. CASE check # "objects"
    BY <1>6, <2>2 DEF Fit, ValidatedStaysAssignable
  <2> QED
    BY <2>1, <2>2
<1> QED
  BY <1>1, <1>5, <1>8, <1>9, <1>10 DEF Fit

\* A check either answers or passes.
LEMMA CheckStep ==
  ASSUME IInv, NEW r \in Requests, req[r].pc = "checkLinks", NEW check \in req[r].left,
         UNCHANGED <<tables, faults>>,
         \/ \E status \in Nat : Answer(r, status)
         \/ /\ Becomes(r, Passed(req[r], check))
            /\ req[r].op = "put" /\ check = "objects" =>
                 req[r].objects \subseteq Assignable(req[r].kind, req[r].owner)
  PROVE  IInv'
<1>1. req[r] \in Request /\ Fit(req[r]) /\ faults' \in Nat
  BY DEF IInv, TypeOK, RequestInv, Fit
<1> QED
  BY <1>1, PassedFits, LocalStep, AnswerStep

LEMMA CheckOwnerStep == ASSUME IInv, NEW r \in Requests, CheckOwner(r) PROVE IInv'
  BY CheckStep DEF CheckOwner

LEMMA CheckAssignableStep == ASSUME IInv, NEW r \in Requests, CheckAssignable(r) PROVE IInv'
  BY CheckStep DEF CheckAssignable

LEMMA CheckObjectStep == ASSUME IInv, NEW r \in Requests, CheckObject(r) PROVE IInv'
  BY CheckStep DEF CheckObject

\* A pair of assignable ends respects the scope.
LEMMA AssignableInScope ==
  ASSUME TypeOK, NEW kind, NEW owner, owner \in Owners(kind),
         NEW o, o \in Objects(kind), o \in Assignable(kind, owner)
  PROVE  /\ kind = "rolepermissions" => \E y \in roles, x \in permissions :
              y.key = owner /\ x.key = o /\ x.clientkey = y.clientkey
         /\ kind = "personaroles" => owner \in personas /\
              \E x \in roles : x.key = o /\ <<TenantOf[owner], x.clientkey>> \in tenantclients
         /\ kind = "personapermissions" => owner \in personas /\
              \E x \in permissions : x.key = o /\ <<TenantOf[owner], x.clientkey>> \in tenantclients
  BY DEF Owners, Objects, Assignable, Keys

LEMMA InsertLinksStep == ASSUME IInv, NEW r \in Requests, InsertLinks(r) PROVE IInv'
<1> DEFINE kind == req[r].kind
           owner == req[r].owner
           objects == req[r].objects
<1>1. /\ req[r].pc = "insertLinks" /\ req[r] \in Request /\ Fit(req[r])
      /\ UNCHANGED <<clients, roles, permissions, personas, tenantclients, drawn, faults>>
  BY DEF InsertLinks, IInv, TypeOK, RequestInv, Fit
<1>2. PICK status \in Nat : Answer(r, status)
  BY DEF InsertLinks
<1>3. CASE UNCHANGED links
  BY <1>1, <1>2, <1>3, AnswerStep DEF IInv, TypeOK, tables
<1>4. CASE /\ owner \in Owners(kind) /\ objects \subseteq Objects(kind)
           /\ links' = [links EXCEPT ![kind] = @ \cup ({owner} \X objects)]
  <2>1. \A o \in objects : o \in Assignable(kind, owner)
    BY <1>1, <1>4 DEF Fit, Shape, ValidatedStaysAssignable
  <2>2. links \in [Kinds -> SUBSET (OwnerKeys \X ObjectKeys)] /\ TypeOK
    BY DEF IInv, TypeOK
  <2>3. owner \in OwnerKeys /\ objects \subseteq ObjectKeys
    BY <1>4, <2>2 DEF TypeOK, Owners, Objects, Keys, OwnerKeys, ObjectKeys, RoleRow, PermissionRow
  <2>4. links' \in [Kinds -> SUBSET (OwnerKeys \X ObjectKeys)]
    BY <1>4, <2>2, <2>3
  <2>5. \A k \in Kinds : \A l \in links'[k] :
          l \in links[k] \/ (k = kind /\ l[1] = owner /\ l[2] \in objects)
    BY <1>4, <2>2
  <2>6. LinksRespectScope'
    <3>1. ASSUME NEW l \in links'["rolepermissions"]
          PROVE  \E y \in roles, x \in permissions :
                   y.key = l[1] /\ x.key = l[2] /\ x.clientkey = y.clientkey
      BY <1>4, <2>1, <2>2, <2>5, <3>1, AssignableInScope DEF Kinds, IInv, TableInv, LinksRespectScope
    <3>2. ASSUME NEW l \in links'["personaroles"]
          PROVE  l[1] \in personas /\
                   \E x \in roles : x.key = l[2] /\ <<TenantOf[l[1]], x.clientkey>> \in tenantclients
      BY <1>4, <2>1, <2>2, <2>5, <3>2, AssignableInScope DEF Kinds, IInv, TableInv, LinksRespectScope
    <3>3. ASSUME NEW l \in links'["personapermissions"]
          PROVE  l[1] \in personas /\
                   \E x \in permissions : x.key = l[2] /\ <<TenantOf[l[1]], x.clientkey>> \in tenantclients
      <4>1. CASE l \in links["personapermissions"]
        BY <4>1 DEF IInv, TableInv, LinksRespectScope
      <4>2. CASE kind = "personapermissions" /\ l[1] = owner /\ l[2] \in objects
        <5>1. l[2] \in Assignable(kind, owner)
          BY <2>1, <4>2
        <5>2. kind = "personapermissions" /\ owner \in Owners(kind) /\ l[2] \in Objects(kind)
          BY <1>4, <4>2
        <5> HIDE DEF kind, owner, objects
        <5>3. owner \in personas /\ \E x \in permissions :
                x.key = l[2] /\ <<TenantOf[owner], x.clientkey>> \in tenantclients
          BY <2>2, <5>1, <5>2, AssignableInScope
        <5> QED
          BY <4>2, <5>3
      <4> QED
        BY <2>5, <3>3, <4>1, <4>2 DEF Kinds
    <3> QED
      BY <1>1, <3>1, <3>2, <3>3 DEF LinksRespectScope
  <2>7. TableInv'
    BY <1>1, <2>6 DEF IInv, TableInv, KeysIdentify, RowsDrawn, NothingOutlivesItsClient, Keys
  <2>8. Evolve
    BY <1>1 DEF Evolve
  <2>9. Fit(Reply(req[r].op, status)) /\ Becomes(r, Reply(req[r].op, status))
    BY <1>1, <1>2, ReplyFits DEF Request, Answer
  <2> QED
    BY <1>1, <2>4, <2>7, <2>8, <2>9, TableStep DEF IInv, TypeOK
<1> QED
  BY <1>3, <1>4 DEF InsertLinks

LEMMA DeleteLinkStep == ASSUME IInv, NEW r \in Requests, DeleteLink(r) PROVE IInv'
<1>1. /\ links' = [links EXCEPT ![req[r].kind] = @ \ ({req[r].owner} \X req[r].objects)]
      /\ Answer(r, 204) /\ req[r] \in Request
      /\ UNCHANGED <<clients, roles, permissions, personas, tenantclients, drawn, faults>>
      /\ links \in [Kinds -> SUBSET (OwnerKeys \X ObjectKeys)]
  BY DEF DeleteLink, IInv, TypeOK
<1>2. /\ links' \in [Kinds -> SUBSET (OwnerKeys \X ObjectKeys)]
      /\ \A kind \in Kinds : links'[kind] \subseteq links[kind]
  BY <1>1
<1>3. LinksRespectScope'
  BY <1>1, <1>2 DEF IInv, TableInv, LinksRespectScope, Kinds
<1>4. TableInv'
  BY <1>1, <1>3 DEF IInv, TableInv, KeysIdentify, RowsDrawn, NothingOutlivesItsClient, Keys
<1>5. Evolve
  BY <1>1 DEF Evolve
<1>6. Fit(Reply(req[r].op, 204)) /\ Becomes(r, Reply(req[r].op, 204))
  BY <1>1, ReplyFits DEF Request, Answer
<1> QED
  BY <1>1, <1>2, <1>4, <1>5, <1>6, TableStep DEF IInv, TypeOK

-----------------------------------------------------------------------------
(* Failures, and requests that come in. *)

LEMMA StatementFailsStep == ASSUME IInv, NEW r \in Requests, StatementFails(r) PROVE IInv'
<1>1. FailureStatus(req[r]) \in Nat
  BY DEF FailureStatus
<1>2. faults' \in Nat
  BY DEF StatementFails, IInv, TypeOK
<1> QED
  BY <1>1, <1>2, AnswerStep DEF StatementFails

LEMMA CrashStep == ASSUME IInv, Crash PROVE IInv'
<1> DEFINE lost == [Idle EXCEPT !.pc = "unanswered"]
           f == [r \in Requests |-> IF req[r].pc \in Awaits THEN lost ELSE req[r]]
<1>1. Fit(lost)
  <2>1. lost \in Request
    BY IdleType DEF Request
  <2>2. lost.pc = "unanswered" /\ lost.owner = None /\ lost.objects = {}
    BY DEF Idle
  <2> QED
    BY <2>1, <2>2, RestFits
<1> HIDE DEF lost
<1>2. \A r \in Requests : Fit(f[r])
  BY <1>1 DEF IInv, TypeOK, RequestInv, Fit
<1>3. req' = [r \in Requests |-> f[r]] /\ UNCHANGED tables /\ faults' \in Nat
  BY DEF Crash, IInv, TypeOK, lost
<1>4. Evolve
  BY <1>3 DEF Evolve, tables
<1> HIDE DEF f
<1>5. req' \in [Requests -> Request] /\ RequestInv'
  BY <1>2, <1>3, <1>4, RequestsKept DEF IInv, TableInv
<1>6. TypeOK'
  BY <1>3, <1>5 DEF IInv, TypeOK, tables
<1>7. TableInv'
  BY <1>3 DEF IInv, TableInv, KeysIdentify, RowsDrawn, NothingOutlivesItsClient, LinksRespectScope, Keys, tables
<1> QED
  BY <1>5, <1>6, <1>7 DEF IInv

LEMMA ArriveStep ==
  ASSUME IInv, NEW r \in Requests, NEW q, Fit(q), Arrive(r, q)
  PROVE  IInv'
BY LocalStep DEF Arrive, IInv, TypeOK

LEMMA ClientRequestStep == ASSUME IInv, NEW r \in Requests, ClientRequest(r) PROVE IInv'
<1> DEFINE create(t, id) == [Idle EXCEPT !.op = "createClient", !.pc = "insertClient",
                                         !.tenant = t, !.id = id]
           update(id, new) == [Idle EXCEPT !.op = "updateClient", !.pc = "checkClient",
                                           !.id = id, !.name = new]
           named(op, pc, id, name) == [Idle EXCEPT !.op = op, !.pc = pc, !.id = id, !.name = name]
<1>1. \A t \in Tenants, id \in ClientIds : Fit(create(t, id))
  <2> SUFFICES ASSUME NEW t \in Tenants, NEW id \in ClientIds
               PROVE  Fit(create(t, id))
    OBVIOUS
  <2>1. create(t, id) \in Request
    BY DEF Idle, Request, AllOperations, Awaits
  <2>2. /\ create(t, id).op = "createClient" /\ create(t, id).pc = "insertClient" /\ create(t, id).owner = None
        /\ create(t, id).objects = {} /\ create(t, id).tenant = t /\ create(t, id).id = id
    BY DEF Idle
  <2> HIDE DEF create, update, named
  <2> QED
    BY <2>1, <2>2 DEF Fit, Shape, NamesDrawn, ValidatedStaysAssignable
<1>2. \A id, new \in ClientIds : Fit(update(id, new))
  <2> SUFFICES ASSUME NEW id \in ClientIds, NEW new \in ClientIds
               PROVE  Fit(update(id, new))
    OBVIOUS
  <2>1. update(id, new) \in Request
    BY DEF Idle, Request, AllOperations, Awaits
  <2>2. /\ update(id, new).op = "updateClient" /\ update(id, new).pc = "checkClient" /\ update(id, new).owner = None
        /\ update(id, new).objects = {} /\ update(id, new).name = new
    BY DEF Idle
  <2> HIDE DEF create, update, named
  <2> QED
    BY <2>1, <2>2 DEF Fit, Shape, NamesDrawn, ValidatedStaysAssignable
<1>3. \A op \in {"createClientRole", "createPermission"}, id \in ClientIds, name \in Names : Fit(named(op, "checkClient", id, name))
  <2> SUFFICES ASSUME NEW op \in {"createClientRole", "createPermission"}, NEW id \in ClientIds, NEW name \in Names
               PROVE  Fit(named(op, "checkClient", id, name))
    OBVIOUS
  <2>1. named(op, "checkClient", id, name) \in Request
    BY DEF Idle, Request, AllOperations, Awaits
  <2>2. /\ named(op, "checkClient", id, name).op = op /\ named(op, "checkClient", id, name).pc = "checkClient" /\ named(op, "checkClient", id, name).owner = None
        /\ named(op, "checkClient", id, name).objects = {} /\ named(op, "checkClient", id, name).name = name
    BY DEF Idle
  <2> HIDE DEF create, update, named
  <2> QED
    BY <2>1, <2>2 DEF Fit, Shape, NamesDrawn, ValidatedStaysAssignable
<1>4. \A id \in ClientIds, name \in Names : Fit(named("createRole", "insertRole", id, name))
  <2> SUFFICES ASSUME NEW id \in ClientIds, NEW name \in Names
               PROVE  Fit(named("createRole", "insertRole", id, name))
    OBVIOUS
  <2>1. named("createRole", "insertRole", id, name) \in Request
    BY DEF Idle, Request, AllOperations, Awaits
  <2>2. /\ named("createRole", "insertRole", id, name).op = "createRole" /\ named("createRole", "insertRole", id, name).pc = "insertRole" /\ named("createRole", "insertRole", id, name).owner = None
        /\ named("createRole", "insertRole", id, name).objects = {} /\ named("createRole", "insertRole", id, name).name = name
    BY DEF Idle
  <2> HIDE DEF create, update, named
  <2> QED
    BY <2>1, <2>2 DEF Fit, Shape, NamesDrawn, ValidatedStaysAssignable
<1>5. ASSUME NEW id \in ClientIds, DeleteClient(r, id) PROVE IInv'
  BY <1>5, DeleteClientStep
<1>6. PICK id \in ClientIds :
        \/ \E t \in Tenants : Arrive(r, create(t, id))
        \/ \E new \in ClientIds : Arrive(r, update(id, new))
        \/ \E name \in Names, op \in {"createClientRole", "createPermission"} :
             Arrive(r, named(op, "checkClient", id, name))
        \/ \E name \in Names : Arrive(r, named("createRole", "insertRole", id, name))
        \/ DeleteClient(r, id)
  BY DEF ClientRequest
<1> HIDE DEF create, update, named
<1> QED
  BY <1>1, <1>2, <1>3, <1>4, <1>5, <1>6, ArriveStep

LEMMA LinkRequestStep == ASSUME IInv, NEW r \in Requests, LinkRequest(r) PROVE IInv'
<1> DEFINE q(op, kind, owner, objects, left) ==
             [Idle EXCEPT !.op = op, !.pc = "checkLinks", !.kind = kind,
                          !.owner = owner, !.objects = objects, !.left = left]
<1>1. PICK kind \in Kinds :
        \E owner \in drawn \cap (IF kind = "rolepermissions" THEN RoleKeys ELSE PersonaKeys),
           objects \in SUBSET (drawn \cap (IF kind = "personaroles" THEN RoleKeys ELSE PermissionKeys)) \ {{}} :
          \/ Arrive(r, q("put", kind, owner, objects, {"owner", "objects"}))
          \/ Arrive(r, q("remove", kind, owner, objects,
                         IF kind = "rolepermissions" THEN {"owner"} ELSE {"owner", "objects"}))
  BY DEF LinkRequest
<1> HIDE DEF q
<1>2. PICK owner \in drawn \cap OwnerKeys, objects \in SUBSET (drawn \cap ObjectKeys) :
        \/ Arrive(r, q("put", kind, owner, objects, {"owner", "objects"}))
        \/ \E left \in SUBSET {"owner", "objects"} : Arrive(r, q("remove", kind, owner, objects, left))
  <2>1. \A o : IF kind = "rolepermissions" THEN o \in RoleKeys => o \in OwnerKeys
                                            ELSE o \in PersonaKeys => o \in OwnerKeys
    BY DEF OwnerKeys
  <2>2. \A o : IF kind = "personaroles" THEN o \in RoleKeys => o \in ObjectKeys
                                         ELSE o \in PermissionKeys => o \in ObjectKeys
    BY DEF ObjectKeys
  <2> QED
    BY <1>1, <2>1, <2>2
<1> USE DEF q
<1>3. \A op \in {"put", "remove"}, left \in SUBSET {"owner", "objects"} :
        q(op, kind, owner, objects, left) \in Request
  BY DEF Idle, Request, AllOperations, Awaits
<1>4. \A op, left : /\ q(op, kind, owner, objects, left).op = op
                    /\ q(op, kind, owner, objects, left).pc = "checkLinks"
                    /\ q(op, kind, owner, objects, left).owner = owner
                    /\ q(op, kind, owner, objects, left).objects = objects
                    /\ q(op, kind, owner, objects, left).left = left
  BY DEF Idle
<1> HIDE DEF q
<1>5. Fit(q("put", kind, owner, objects, {"owner", "objects"}))
  BY <1>3, <1>4 DEF Fit, Shape, NamesDrawn, ValidatedStaysAssignable
<1>6. \A left \in SUBSET {"owner", "objects"} : Fit(q("remove", kind, owner, objects, left))
  BY <1>3, <1>4 DEF Fit, Shape, NamesDrawn, ValidatedStaysAssignable
<1> QED
  BY <1>2, <1>5, <1>6, ArriveStep

LEMMA PersonaRequestStep == ASSUME IInv, NEW r \in Requests, PersonaRequest(r) PROVE IInv'
<1> DEFINE q(p) == [Idle EXCEPT !.op = "deletePersona", !.pc = "checkPersona", !.owner = p]
<1>1. \A p \in PersonaKeys \cap drawn : Fit(q(p))
  <2> SUFFICES ASSUME NEW p \in PersonaKeys, p \in drawn PROVE Fit(q(p))
    OBVIOUS
  <2>1. q(p) \in Request
    BY DEF Idle, Request, AllOperations, Awaits, OwnerKeys
  <2>2. q(p).op = "deletePersona" /\ q(p).pc = "checkPersona" /\ q(p).owner = p /\ q(p).objects = {}
    BY DEF Idle
  <2> HIDE DEF q
  <2> QED
    BY <2>1, <2>2 DEF Fit, Shape, NamesDrawn, ValidatedStaysAssignable
<1>2. PICK p \in PersonaKeys : CreatePersona(r, p) \/ (p \in drawn /\ Arrive(r, q(p)))
  BY DEF PersonaRequest
<1> HIDE DEF q
<1> QED
  BY <1>1, <1>2, CreatePersonaStep, ArriveStep

-----------------------------------------------------------------------------
(* The inductive invariant. *)

LEMMA InitInv == Init => IInv
<1> SUFFICES ASSUME Init PROVE IInv
  OBVIOUS
<1>1. \A r \in Requests : Fit(req[r])
  <2>1. Idle.pc = "idle" /\ Idle.owner = None /\ Idle.objects = {}
    BY DEF Idle
  <2>2. Fit(Idle)
    BY <2>1, IdleType, RestFits
  <2> QED
    BY <2>2 DEF Init
<1>2. RequestInv
  BY <1>1 DEF RequestInv, Fit
<1>3. TypeOK
  BY IdleType DEF Init, TypeOK
<1>4. TableInv
  BY DEF Init, TableInv, KeysIdentify, RowsDrawn, NothingOutlivesItsClient, LinksRespectScope, Keys, Kinds
<1> QED
  BY <1>2, <1>3, <1>4 DEF IInv

LEMMA ServeStep == ASSUME IInv, NEW r \in Requests, Serve(r) PROVE IInv'
<1>1. CASE Step(r)
  BY <1>1, InsertClientStep, RelateClientStep, ReadClientStep, CheckClientStep, UpdateClientStep,
     InsertRoleStep, ReadRoleStep, CheckNameStep, InsertPermissionStep, CheckOwnerStep,
     CheckAssignableStep, CheckObjectStep, InsertLinksStep, DeleteLinkStep, CheckPersonaStep,
     DeletePersonaStep DEF Step
<1>2. CASE ClientRequest(r) \/ LinkRequest(r) \/ PersonaRequest(r) \/ StatementFails(r)
  BY <1>2, ClientRequestStep, LinkRequestStep, PersonaRequestStep, StatementFailsStep
<1> QED
  BY <1>1, <1>2 DEF Serve

LEMMA NextStep == IInv /\ [Next]_cvars => IInv'
<1> SUFFICES ASSUME IInv, [Next]_cvars PROVE IInv'
  OBVIOUS
<1>1. CASE Next
  BY <1>1, ServeStep, CrashStep DEF Next
<1>2. CASE UNCHANGED cvars
  <2>1. UNCHANGED tables /\ UNCHANGED faults /\ UNCHANGED req
    BY <1>2 DEF cvars
  <2>2. TypeOK'
    BY <2>1 DEF tables, IInv, TypeOK
  <2>3. TableInv'
    BY <2>1 DEF IInv, TableInv, KeysIdentify, RowsDrawn, NothingOutlivesItsClient, LinksRespectScope, Keys, tables
  <2>4. Evolve
    BY <2>1 DEF Evolve, tables
  <2>5. req' = [p \in Requests |-> req[p]] /\ \A p \in Requests : Fit(req[p])
    BY <2>1 DEF IInv, TypeOK, RequestInv, Fit
  <2>6. RequestInv'
    BY <2>4, <2>5, RequestsKept DEF IInv, TableInv
  <2> QED
    BY <2>2, <2>3, <2>6 DEF IInv
<1> QED
  BY <1>1, <1>2

\* Every reachable state satisfies the invariant.
THEOREM Inductive == Spec => []IInv
BY InitInv, NextStep, PTL DEF Spec

\* Every variable has its type.
THEOREM TypesHold == Spec => []TypeOK
<1>1. IInv => TypeOK
  BY DEF IInv
<1> QED
  BY <1>1, Inductive, PTL

\* No request brings anything of a deleted client back: the roles, permissions and
\* relations in the tables are those of clients in the tables.
THEOREM NothingOutlives == Spec => []NothingOutlivesItsClient
<1>1. IInv => NothingOutlivesItsClient
  BY DEF IInv, TableInv
<1> QED
  BY <1>1, Inductive, PTL

\* What was checked of an assignment in one statement and inserted in a later one
\* holds of every pair in the table, however requests interleave, fail or are lost.
THEOREM ScopeRespected == Spec => []LinksRespectScope
<1>1. IInv => LinksRespectScope
  BY DEF IInv, TableInv
<1> QED
  BY <1>1, Inductive, PTL

-----------------------------------------------------------------------------
(* Every client comes to have a tenant. *)

LEMMA KeptRelations ==
  ASSUME IInv, ClientsHaveTenant, NEW r \in Requests, NEW q, Becomes(r, q),
         faults' = faults, req[r].pc # "relateClient" \/ req[r].key \notin Keys(clients'),
         Keys(clients') \subseteq Keys(clients),
         \A tc \in tenantclients : tc \in tenantclients' \/ tc[2] \notin Keys(clients')
  PROVE  ClientsHaveTenant'
<1>1. \A p \in Requests : p # r => req'[p] = req[p]
  BY DEF Becomes, IInv, TypeOK
<1> SUFFICES ASSUME faults = 0, NEW k \in Keys(clients')
             PROVE  \/ \E tc \in tenantclients' : tc[2] = k
                    \/ \E p \in Requests : req'[p].pc = "relateClient" /\ req'[p].key = k
  BY DEF ClientsHaveTenant, Keys
<1>2. CASE \E tc \in tenantclients : tc[2] = k
  BY <1>2
<1>3. CASE \E p \in Requests : req[p].pc = "relateClient" /\ req[p].key = k
  BY <1>1, <1>3
<1> QED
  BY <1>2, <1>3 DEF ClientsHaveTenant

\* The same for a request that only reads, or changes tables that hold no client.
LEMMA KeptTables ==
  ASSUME IInv, ClientsHaveTenant, NEW r \in Requests, NEW q, Becomes(r, q),
         req[r].pc # "relateClient", UNCHANGED <<clients, tenantclients, faults>>
  PROVE  ClientsHaveTenant'
BY KeptRelations

LEMMA TenantOfNewClient ==
  ASSUME IInv, ClientsHaveTenant, NEW r \in Requests, InsertClient(r) PROVE ClientsHaveTenant'
<1>1. CASE ClientsNamed(req[r].id) # {}
  BY <1>1, KeptTables DEF InsertClient, Answer
<1>2. CASE ClientsNamed(req[r].id) = {}
  <2>1. PICK k \in ClientKeys \ drawn :
          /\ clients' = clients \cup {[key |-> k, client_id |-> req[r].id]}
          /\ Becomes(r, [req[r] EXCEPT !.pc = "relateClient", !.key = k])
    BY <1>2 DEF InsertClient
  <2>2. req[r].pc = "insertClient" /\ UNCHANGED <<tenantclients, faults>>
    BY DEF InsertClient
  <2>3. req'[r].pc = "relateClient" /\ req'[r].key = k /\ \A p \in Requests : p # r => req'[p] = req[p]
    BY <2>1 DEF Becomes, IInv, TypeOK, Request
  <2>4. Keys(clients') \subseteq Keys(clients) \cup {k}
    <3> DEFINE x == [key |-> k, client_id |-> req[r].id]
    <3>1. x.key = k /\ clients' = clients \cup {x}
      BY <2>1
    <3> HIDE DEF x
    <3> QED
      BY <3>1 DEF Keys
  <2> QED
    BY <2>2, <2>3, <2>4 DEF ClientsHaveTenant, Keys
<1> QED
  BY <1>1, <1>2

LEMMA TenantIsRelated ==
  ASSUME IInv, ClientsHaveTenant, NEW r \in Requests, RelateClient(r) PROVE ClientsHaveTenant'
<1>1. CASE req[r].key \notin Keys(clients)
  BY <1>1, KeptRelations DEF RelateClient, Answer
<1>2. CASE req[r].key \in Keys(clients)
  <2>1. /\ tenantclients' = tenantclients \cup {<<req[r].tenant, req[r].key>>}
        /\ UNCHANGED <<clients, faults>>
        /\ \A p \in Requests : p # r => req'[p] = req[p]
    BY <1>2 DEF RelateClient, Goto, Becomes, IInv, TypeOK
  <2>2. \E tc \in tenantclients' : tc[2] = req[r].key
    <3>1. <<req[r].tenant, req[r].key>> \in tenantclients'
      BY <2>1
    <3>2. <<req[r].tenant, req[r].key>>[2] = req[r].key
      OBVIOUS
    <3> QED
      BY <3>1, <3>2, Zenon
  <2> SUFFICES ASSUME faults = 0, NEW k \in Keys(clients), k # req[r].key
               PROVE  \/ \E tc \in tenantclients' : tc[2] = k
                      \/ \E p \in Requests : req'[p].pc = "relateClient" /\ req'[p].key = k
    BY <2>1, <2>2 DEF ClientsHaveTenant, Keys
  <2> QED
    BY <2>1 DEF ClientsHaveTenant
<1> QED
  BY <1>1, <1>2

LEMMA TenantSurvivesUpdate ==
  ASSUME IInv, ClientsHaveTenant, NEW r \in Requests, UpdateClient(r) PROVE ClientsHaveTenant'
<1>1. Keys(clients') \subseteq Keys(clients)
  BY DEF UpdateClient, ClientsNamed, Keys, IInv, TypeOK, ClientRow
<1> QED
  BY <1>1, KeptRelations DEF UpdateClient, Answer

LEMMA TenantSurvivesDelete ==
  ASSUME IInv, ClientsHaveTenant, NEW r \in Requests, NEW id, DeleteClient(r, id)
  PROVE  ClientsHaveTenant'
<1> DEFINE gone == Keys(ClientsNamed(id))
<1>1. /\ clients' = {c \in clients : c.key \notin gone}
      /\ tenantclients' = {tc \in tenantclients : tc[2] \notin gone}
      /\ faults' = faults /\ req[r].pc # "relateClient"
      /\ Becomes(r, Reply("deleteClient", IF gone = {} THEN 404 ELSE 204))
  BY DEF DeleteClient
<1> HIDE DEF gone
<1>2. Keys(clients') \subseteq Keys(clients) \ gone
  BY <1>1 DEF Keys
<1> QED
  BY <1>1, <1>2, KeptRelations

LEMMA TenantSurvivesRequest ==
  ASSUME IInv, ClientsHaveTenant, NEW r \in Requests,
         ClientRequest(r) \/ LinkRequest(r) \/ PersonaRequest(r)
  PROVE  ClientsHaveTenant'
<1>1. ASSUME NEW q, Arrive(r, q) PROVE ClientsHaveTenant'
  BY <1>1, KeptTables DEF Arrive, tables
<1>2. ASSUME NEW p, CreatePersona(r, p) PROVE ClientsHaveTenant'
  BY <1>2, KeptTables DEF CreatePersona
<1>3. CASE ClientRequest(r)
  BY <1>1, <1>3, TenantSurvivesDelete DEF ClientRequest
<1>4. CASE LinkRequest(r)
  BY <1>1, <1>4 DEF LinkRequest
<1>5. CASE PersonaRequest(r)
  BY <1>1, <1>2, <1>5 DEF PersonaRequest
<1> QED
  BY <1>3, <1>4, <1>5

LEMMA TenantSurvives ==
  ASSUME IInv, ClientsHaveTenant, NEW r \in Requests, Serve(r) PROVE ClientsHaveTenant'
<1>1. CASE ClientRequest(r) \/ LinkRequest(r) \/ PersonaRequest(r)
  BY <1>1, TenantSurvivesRequest
<1>2. CASE StatementFails(r)
  <2>1. faults' # 0
    BY <1>2 DEF StatementFails, IInv, TypeOK
  <2> QED
    BY <2>1 DEF ClientsHaveTenant
<1>3. CASE InsertClient(r) \/ RelateClient(r) \/ UpdateClient(r)
  BY <1>3, TenantOfNewClient, TenantIsRelated, TenantSurvivesUpdate
<1>4. CASE ReadClient(r) \/ CheckClient(r)
  BY <1>4, KeptTables DEF ReadClient, CheckClient, Answer, tables
<1>5. CASE InsertRole(r) \/ ReadRole(r) \/ CheckName(r) \/ InsertPermission(r)
  BY <1>5, KeptTables DEF InsertRole, ReadRole, CheckName, InsertPermission, Answer, Goto, tables
<1>6. CASE CheckOwner(r) \/ CheckAssignable(r) \/ CheckObject(r)
  BY <1>6, KeptTables DEF CheckOwner, CheckAssignable, CheckObject, Answer, tables
<1>7. CASE InsertLinks(r) \/ DeleteLink(r)
  BY <1>7, KeptTables DEF InsertLinks, DeleteLink, Answer
<1>8. CASE CheckPersona(r) \/ DeletePersona(r)
  BY <1>8, KeptTables DEF CheckPersona, DeletePersona, Answer, Goto, tables
<1> QED
  BY <1>1, <1>2, <1>3, <1>4, <1>5, <1>6, <1>7, <1>8 DEF Serve, Step

\* As long as nothing fails, a client in the table is related to a tenant, or the
\* request that creates it is about to relate it: no interleaving of creations and
\* deletions leaves a client nobody may assign anything of.
THEOREM ClientsGetTenant == Spec => []ClientsHaveTenant
<1>1. Init => ClientsHaveTenant
  BY DEF Init, ClientsHaveTenant, Keys
<1>2. IInv /\ ClientsHaveTenant /\ [Next]_cvars => ClientsHaveTenant'
  <2> SUFFICES ASSUME IInv, ClientsHaveTenant, [Next]_cvars PROVE ClientsHaveTenant'
    OBVIOUS
  <2>1. CASE Crash
    <3>1. faults' # 0
      BY <2>1 DEF Crash, IInv, TypeOK
    <3> QED
      BY <3>1 DEF ClientsHaveTenant
  <2>2. CASE UNCHANGED cvars
    BY <2>2 DEF cvars, tables, ClientsHaveTenant, Keys
  <2> QED
    BY <2>1, <2>2, TenantSurvives DEF Next
<1> QED
  BY <1>1, <1>2, Inductive, PTL DEF Spec
-----------------------------------------------------------------------------
(* A client_id names one client at most. *)

ClientIdsIdentify == \A x, y \in clients : x.client_id = y.client_id => x = y

LEMMA UpdatedIdsIdentify ==
  ASSUME IInv, ClientIdsIdentify, NEW r \in Requests, UpdateClient(r)
  PROVE  ClientIdsIdentify'
<1> DEFINE old == ClientsNamed(req[r].id)
           new == {[c EXCEPT !.client_id = req[r].name] : c \in old}
<1>1. CASE UNCHANGED clients
  BY <1>1 DEF ClientIdsIdentify
<1>2. CASE clients' = (clients \ old) \cup new /\ ClientsNamed(req[r].name) \ old = {}
  <2>1. \A c \in clients : c \in ClientRow
    BY DEF IInv, TypeOK
  <2>2. \A c \in clients \ old : c.client_id # req[r].name
    BY <1>2 DEF ClientsNamed
  <2>3. \A x, y \in old : x = y
    BY DEF ClientsNamed, ClientIdsIdentify
  <2>4. \A x \in new : x.client_id = req[r].name
    BY <2>1 DEF ClientsNamed, ClientRow
  <2>5. \A x, y \in new : x = y
    BY <2>3
  <2> HIDE DEF old, new
  <2>6. \A x, y \in clients' : x.client_id = y.client_id => x = y
    BY <1>2, <2>2, <2>4, <2>5 DEF ClientIdsIdentify
  <2> QED
    BY <2>6 DEF ClientIdsIdentify
<1> QED
  BY <1>1, <1>2 DEF UpdateClient

LEMMA InsertedIdsIdentify ==
  ASSUME IInv, ClientIdsIdentify, NEW r \in Requests, InsertClient(r)
  PROVE  ClientIdsIdentify'
<1>1. CASE UNCHANGED clients
  BY <1>1 DEF ClientIdsIdentify
<1>2. CASE ClientsNamed(req[r].id) = {} /\
           \E k : clients' = clients \cup {[key |-> k, client_id |-> req[r].id]}
  BY <1>2 DEF ClientIdsIdentify, ClientsNamed
<1> QED
  BY <1>1, <1>2 DEF InsertClient

\* The steps that change no client.
LEMMA ClientsLeftAlone ==
  ASSUME NEW r \in Requests,
         Step(r) \/ StatementFails(r) \/ LinkRequest(r) \/ PersonaRequest(r),
         ~InsertClient(r), ~UpdateClient(r)
  PROVE  clients' = clients
<1>1. ASSUME NEW q, Arrive(r, q) PROVE clients' = clients
  BY <1>1 DEF Arrive, tables
<1>2. ASSUME NEW p, CreatePersona(r, p) PROVE clients' = clients
  BY <1>2 DEF CreatePersona
<1>3. CASE Step(r) \/ StatementFails(r)
  BY <1>3 DEF Step, StatementFails, RelateClient, ReadClient, CheckClient, InsertRole, ReadRole,
              CheckName, InsertPermission, CheckOwner, CheckAssignable, CheckObject,
              InsertLinks, DeleteLink, CheckPersona, DeletePersona, tables
<1>4. CASE LinkRequest(r)
  BY <1>1, <1>4 DEF LinkRequest
<1>5. CASE PersonaRequest(r)
  BY <1>1, <1>2, <1>5 DEF PersonaRequest
<1> QED
  BY <1>3, <1>4, <1>5

LEMMA IdsIdentifyStep == IInv /\ ClientIdsIdentify /\ [Next]_cvars => ClientIdsIdentify'
<1> SUFFICES ASSUME IInv, ClientIdsIdentify, [Next]_cvars PROVE ClientIdsIdentify'
  OBVIOUS
<1>1. ASSUME clients' \subseteq clients PROVE ClientIdsIdentify'
  BY <1>1 DEF ClientIdsIdentify
<1>2. ASSUME NEW r \in Requests, ClientRequest(r) PROVE ClientIdsIdentify'
  <2>1. ASSUME NEW q, Arrive(r, q) PROVE ClientIdsIdentify'
    BY <1>1, <2>1 DEF Arrive, tables
  <2>2. ASSUME NEW id, DeleteClient(r, id) PROVE ClientIdsIdentify'
    BY <1>1, <2>2 DEF DeleteClient
  <2> QED
    BY <1>2, <2>1, <2>2 DEF ClientRequest
<1>3. CASE Crash \/ UNCHANGED cvars
  BY <1>1, <1>3 DEF Crash, cvars, tables
<1>4. ASSUME NEW r \in Requests, Serve(r) PROVE ClientIdsIdentify'
  BY <1>1, <1>2, <1>4, ClientsLeftAlone, UpdatedIdsIdentify, InsertedIdsIdentify DEF Serve
<1> QED
  BY <1>3, <1>4 DEF Next

\* A rename takes a client_id only when nobody else has it, and a client is created
\* under none that is taken: a request that addresses a client by its client_id
\* means one client, or none.
THEOREM OneClientPerId == Spec => []ClientIdsIdentify
<1>1. Init => ClientIdsIdentify
  BY DEF Init, ClientIdsIdentify
<1> QED
  BY <1>1, IdsIdentifyStep, Inductive, PTL DEF Spec
-----------------------------------------------------------------------------
(* Catalogue implements Assignments: the steps that change no assignment. *)

\* What the mapping does to a table.
LEMMA MappedKeys == ASSUME NEW T PROVE Abstract!KeysOf(ClientOf(T)) = Keys(T)
<1>1. \A z : z \in ClientOf(T) <=> \E x \in T : z = <<x.key, x.clientkey>>
  BY DEF ClientOf
<1>2. \A k : k \in Abstract!KeysOf(ClientOf(T)) <=> \E z \in ClientOf(T) : k = z[1]
  BY DEF Abstract!KeysOf
<1>3. ASSUME NEW k, k \in Abstract!KeysOf(ClientOf(T)) PROVE k \in Keys(T)
  <2>1. PICK z \in ClientOf(T) : k = z[1]
    BY <1>2, <1>3
  <2>2. PICK x \in T : z = <<x.key, x.clientkey>>
    BY <1>1, <2>1
  <2> QED
    BY <2>1, <2>2 DEF Keys
<1>4. ASSUME NEW x \in T PROVE x.key \in Abstract!KeysOf(ClientOf(T))
  <2>1. <<x.key, x.clientkey>> \in ClientOf(T) /\ x.key = <<x.key, x.clientkey>>[1]
    BY <1>1
  <2> QED
    BY <1>2, <2>1
<1> QED
  BY <1>3, <1>4 DEF Keys

\* A row more.
LEMMA KeysWith ==
  ASSUME NEW T, NEW x
  PROVE  /\ Keys(T \cup {x}) = Keys(T) \cup {x.key}
         /\ ClientOf(T \cup {x}) = ClientOf(T) \cup {<<x.key, x.clientkey>>}
<1>1. Keys(T \cup {x}) = Keys(T) \cup {x.key}
  BY DEF Keys
<1>2. ClientOf(T \cup {x}) = ClientOf(T) \cup {<<x.key, x.clientkey>>}
  BY DEF ClientOf
<1> QED
  BY <1>1, <1>2

\* Names, requests and failures are not seen.
LEMMA UnseenStep ==
  ASSUME Keys(clients)' = Keys(clients),
         UNCHANGED <<roles, permissions, personas, tenantclients, links, drawn>>
  PROVE  UNCHANGED Abstract!vars
  BY DEF Abstract!vars, ClientOf

LEMMA UnseenTables == ASSUME UNCHANGED tables PROVE UNCHANGED Abstract!vars
  BY UnseenStep DEF tables, Keys

LEMMA InsertClientRegisters ==
  ASSUME IInv, NEW r \in Requests, InsertClient(r) PROVE [Abstract!Next]_Abstract!vars
<1>1. CASE UNCHANGED <<clients, drawn>>
  BY <1>1, UnseenTables DEF InsertClient, tables
<1>2. ASSUME NEW k \in ClientKeys \ drawn, drawn' = drawn \cup {k},
             clients' = clients \cup {[key |-> k, client_id |-> req[r].id]}
      PROVE  Abstract!Next
  <2>1. Keys(clients)' = Keys(clients) \cup {k}
    <3> DEFINE x == [key |-> k, client_id |-> req[r].id]
    <3>1. x.key = k
      OBVIOUS
    <3> HIDE DEF x
    <3>2. clients' = clients \cup {x}
      BY <1>2 DEF x
    <3> QED
      BY <3>1, <3>2, KeysWith
  <2>2. Abstract!Register(k)
    BY <1>2, <2>1 DEF InsertClient, Abstract!Register, Abstract!New, ClientOf
  <2> QED
    BY <2>2 DEF Abstract!Next
<1> QED
  BY <1>1, <1>2 DEF InsertClient

LEMMA RelateClientRelates ==
  ASSUME IInv, NEW r \in Requests, RelateClient(r) PROVE [Abstract!Next]_Abstract!vars
<1>1. CASE UNCHANGED tenantclients
  BY <1>1, UnseenTables DEF RelateClient, tables
<1>2. CASE req[r].key \in Keys(clients) /\
           tenantclients' = tenantclients \cup {<<req[r].tenant, req[r].key>>}
  <2>1. req[r].tenant \in Tenants /\ req[r].key \in ClientKeys
    BY DEF RelateClient, IInv, RequestInv, Shape
  <2>2. UNCHANGED <<clients, roles, permissions, personas, links, drawn>>
    BY DEF RelateClient
  <2>3. Abstract!Relate(req[r].tenant, req[r].key)
    BY <1>2, <2>2 DEF Abstract!Relate, ClientOf, Keys
  <2> QED
    BY <2>1, <2>3 DEF Abstract!Next
<1> QED
  BY <1>1, <1>2 DEF RelateClient

\* A rename is not seen: the key stays.
LEMMA UpdateClientUnseen ==
  ASSUME IInv, NEW r \in Requests, UpdateClient(r) PROVE UNCHANGED Abstract!vars
<1> DEFINE old == ClientsNamed(req[r].id)
<1>1. UNCHANGED <<roles, permissions, personas, tenantclients, links, drawn>>
  BY DEF UpdateClient
<1>2. CASE UNCHANGED clients
  BY <1>1, <1>2, UnseenTables DEF tables
<1>3. CASE clients' = (clients \ old) \cup {[c EXCEPT !.client_id = req[r].name] : c \in old}
  <2>1. \A c \in clients : [c EXCEPT !.client_id = req[r].name].key = c.key
    BY DEF IInv, TypeOK, ClientRow
  <2>2. old \subseteq clients
    BY DEF ClientsNamed
  <2>3. Keys(clients)' = Keys(clients)
    BY <1>3, <2>1, <2>2 DEF Keys
  <2> QED
    BY <1>1, <2>3, UnseenStep
<1> QED
  BY <1>2, <1>3 DEF UpdateClient

LEMMA InsertRoleAdds ==
  ASSUME IInv, NEW r \in Requests, InsertRole(r) PROVE [Abstract!Next]_Abstract!vars
<1>1. CASE UNCHANGED <<roles, drawn>>
  BY <1>1, UnseenTables DEF InsertRole, tables
<1>2. ASSUME NEW c \in ClientsNamed(req[r].id), NEW k \in RoleKeys \ drawn, drawn' = drawn \cup {k},
             roles' = roles \cup {[key |-> k, clientkey |-> c.key, name |-> req[r].name]}
      PROVE  Abstract!Next
  <2>1. c.key \in Keys(clients) /\ c.key \in ClientKeys
    BY DEF ClientsNamed, Keys, IInv, TypeOK, ClientRow
  <2>2. ClientOf(roles)' = ClientOf(roles) \cup {<<k, c.key>>}
    <3> DEFINE x == [key |-> k, clientkey |-> c.key, name |-> req[r].name]
    <3>1. x.key = k /\ x.clientkey = c.key
      OBVIOUS
    <3> HIDE DEF x
    <3>2. roles' = roles \cup {x}
      BY <1>2 DEF x
    <3> QED
      BY <3>1, <3>2, KeysWith
  <2>3. UNCHANGED <<clients, permissions, personas, tenantclients, links>>
    BY DEF InsertRole
  <2>4. Abstract!AddRole(k, c.key)
    BY <1>2, <2>1, <2>2, <2>3 DEF Abstract!AddRole, Abstract!New, ClientOf, Keys
  <2> QED
    BY <2>1, <2>4 DEF Abstract!Next
<1> QED
  BY <1>1, <1>2 DEF InsertRole, NewRoleKeys

LEMMA InsertPermissionAdds ==
  ASSUME IInv, NEW r \in Requests, InsertPermission(r) PROVE [Abstract!Next]_Abstract!vars
<1>1. CASE UNCHANGED <<permissions, drawn>>
  BY <1>1, UnseenTables DEF InsertPermission, tables
<1>2. ASSUME NEW k \in PermissionKeys \ drawn, drawn' = drawn \cup {k}, req[r].key \in Keys(clients),
             permissions' = permissions \cup
               {[key |-> k, clientkey |-> req[r].key, name |-> req[r].name]}
      PROVE  Abstract!Next
  <2>1. req[r].key \in ClientKeys
    BY <1>2 DEF Keys, IInv, TypeOK, ClientRow
  <2>2. ClientOf(permissions)' = ClientOf(permissions) \cup {<<k, req[r].key>>}
    <3> DEFINE x == [key |-> k, clientkey |-> req[r].key, name |-> req[r].name]
    <3>1. x.key = k /\ x.clientkey = req[r].key
      OBVIOUS
    <3> HIDE DEF x
    <3>2. permissions' = permissions \cup {x}
      BY <1>2 DEF x
    <3> QED
      BY <3>1, <3>2, KeysWith
  <2>3. UNCHANGED <<clients, roles, personas, tenantclients, links>>
    BY DEF InsertPermission
  <2>4. Abstract!AddPermission(k, req[r].key)
    BY <1>2, <2>2, <2>3 DEF Abstract!AddPermission, Abstract!New, ClientOf, Keys
  <2> QED
    BY <2>1, <2>4 DEF Abstract!Next
<1> QED
  BY <1>1, <1>2 DEF InsertPermission, ClientStillThere

LEMMA CreatePersonaAdmits ==
  ASSUME NEW r \in Requests, NEW p \in PersonaKeys, CreatePersona(r, p)
  PROVE  [Abstract!Next]_Abstract!vars
<1>1. CASE UNCHANGED <<personas, drawn>>
  BY <1>1, UnseenTables DEF CreatePersona, tables
<1>2. CASE personas' = personas \cup {p} /\ drawn' = drawn \cup {p}
  <2>1. Abstract!Admit(p)
    BY <1>2 DEF CreatePersona, Abstract!Admit, Abstract!New, ClientOf, Keys
  <2> QED
    BY <2>1 DEF Abstract!Next
<1> QED
  BY <1>1, <1>2 DEF CreatePersona
-----------------------------------------------------------------------------
(* Catalogue implements Assignments: the steps that change assignments. *)

LEMMA CascadeIsSeen == ASSUME CascadeLinks PROVE Abstract!LinksOfTheLeft
<1>1. /\ Abstract!KeysOf(ClientOf(roles)') = Keys(roles)'
      /\ Abstract!KeysOf(ClientOf(permissions)') = Keys(permissions)'
  <2> DEFINE R == roles' P == permissions'
  <2> HIDE DEF R, P
  <2>1. Abstract!KeysOf(ClientOf(R)) = Keys(R) /\ Abstract!KeysOf(ClientOf(P)) = Keys(P)
    BY MappedKeys
  <2> QED
    BY <2>1 DEF R, P, ClientOf, Keys
<1>2. \A kind \in Kinds :
        /\ Owners(kind)' = IF kind = "rolepermissions" THEN Keys(roles)' ELSE personas'
        /\ Objects(kind)' = IF kind = "personaroles" THEN Keys(roles)' ELSE Keys(permissions)'
  BY DEF Owners, Objects
<1> QED
  BY <1>1, <1>2 DEF CascadeLinks, Abstract!LinksOfTheLeft, Kinds, Abstract!Kinds

\* With every row still there, no assignment goes.
LEMMA NothingCascades ==
  ASSUME IInv, CascadeLinks, UNCHANGED <<roles, permissions, personas>>
  PROVE  links' = links
<1>1. \A kind \in Kinds : \A l \in links[kind] : l[1] \in Owners(kind) /\ l[2] \in Objects(kind)
  BY DEF IInv, TableInv, LinksRespectScope, Kinds, Owners, Objects, Keys
<1>2. \A kind \in Kinds : Owners(kind)' = Owners(kind) /\ Objects(kind)' = Objects(kind)
  BY DEF Owners, Objects, Keys
<1>3. \A kind \in Kinds : links'[kind] = links[kind]
  BY <1>1, <1>2 DEF CascadeLinks
<1>4. links = [kind \in Kinds |-> links[kind]] /\ links' = [kind \in Kinds |-> links'[kind]]
  BY DEF CascadeLinks, IInv, TypeOK
<1> QED
  BY <1>3, <1>4

LEMMA DeleteClientRetires ==
  ASSUME IInv, ClientIdsIdentify, NEW r \in Requests, NEW id, DeleteClient(r, id)
  PROVE  [Abstract!Next]_Abstract!vars
<1> DEFINE gone == Keys(ClientsNamed(id))
<1>1. /\ clients' = {c \in clients : c.key \notin gone}
      /\ roles' = {x \in roles : x.clientkey \notin gone}
      /\ permissions' = {x \in permissions : x.clientkey \notin gone}
      /\ tenantclients' = {tc \in tenantclients : tc[2] \notin gone}
      /\ UNCHANGED <<personas, drawn>> /\ CascadeLinks
  BY DEF DeleteClient
<1>2. CASE gone = {}
  <2>1. UNCHANGED <<clients, roles, permissions, tenantclients>>
    BY <1>1, <1>2
  <2>2. links' = links
    BY <1>1, <2>1, NothingCascades
  <2> QED
    BY <1>1, <2>1, <2>2, UnseenTables DEF tables
<1>3. CASE gone # {}
  <2>1. PICK c \in clients : c.client_id = id
    BY <1>3 DEF Keys, ClientsNamed
  <2>2. gone = {c.key} /\ c.key \in ClientKeys /\ c.key \in Keys(clients)
    BY <2>1 DEF Keys, ClientsNamed, ClientIdsIdentify, IInv, TypeOK, ClientRow
  <2> HIDE DEF gone
  <2>3. Keys(clients)' = Keys(clients) \ {c.key}
    BY <1>1, <2>2 DEF Keys
  <2>4. /\ ClientOf(roles)' = {x \in ClientOf(roles) : x[2] # c.key}
        /\ ClientOf(permissions)' = {x \in ClientOf(permissions) : x[2] # c.key}
    BY <1>1, <2>2 DEF ClientOf
  <2>5. Abstract!Retire(c.key)
    BY <1>1, <2>2, <2>3, <2>4, CascadeIsSeen DEF Abstract!Retire
  <2> QED
    BY <2>2, <2>5 DEF Abstract!Next
<1> QED
  BY <1>2, <1>3

LEMMA DeletePersonaDismisses ==
  ASSUME IInv, NEW r \in Requests, DeletePersona(r) PROVE [Abstract!Next]_Abstract!vars
<1> DEFINE p == req[r].owner
<1>1. /\ personas' = personas \ {p} /\ CascadeLinks
      /\ UNCHANGED <<clients, roles, permissions, tenantclients, drawn>>
  BY DEF DeletePersona
<1>2. CASE p \notin personas
  <2>1. personas' = personas
    BY <1>1, <1>2
  <2> QED
    BY <1>1, <2>1, NothingCascades, UnseenTables DEF tables
<1>3. CASE p \in personas
  <2>1. p \in PersonaKeys
    BY <1>3 DEF IInv, TypeOK
  <2> HIDE DEF p
  <2>2. Abstract!Dismiss(p)
    BY <1>1, <1>3, CascadeIsSeen DEF Abstract!Dismiss, ClientOf, Keys
  <2> QED
    BY <2>1, <2>2 DEF Abstract!Next
<1> QED
  BY <1>2, <1>3

\* What a PUT has validated is in scope when it inserts.
LEMMA AssignableIsInScope ==
  ASSUME IInv, NEW kind \in Kinds, NEW owner, owner \in Owners(kind),
         NEW o, o \in Objects(kind), o \in Assignable(kind, owner)
  PROVE  Abstract!InScope(kind, owner, o)
<1>1. \A x \in roles \cup permissions : x.clientkey \in Keys(clients)
  BY DEF IInv, TableInv, NothingOutlivesItsClient
<1>2. /\ \A x \in roles : <<x.key, x.clientkey>> \in ClientOf(roles)
      /\ \A x \in permissions : <<x.key, x.clientkey>> \in ClientOf(permissions)
  BY DEF ClientOf
<1>3. CASE kind = "rolepermissions"
  <2>1. PICK y \in roles, x \in permissions : y.key = owner /\ x.key = o /\ x.clientkey = y.clientkey
    BY <1>3, AssignableInScope DEF IInv
  <2>2. y.clientkey \in Keys(clients) /\ <<owner, y.clientkey>> \in ClientOf(roles)
        /\ <<o, y.clientkey>> \in ClientOf(permissions)
    BY <1>1, <1>2, <2>1
  <2> QED
    BY <1>3, <2>2 DEF Abstract!InScope
<1>4. CASE kind = "personaroles"
  <2>1. PICK x \in roles : x.key = o /\ <<TenantOf[owner], x.clientkey>> \in tenantclients
    BY <1>4, AssignableInScope DEF IInv
  <2>2. owner \in personas /\ x.clientkey \in Keys(clients) /\ <<o, x.clientkey>> \in ClientOf(roles)
    BY <1>1, <1>2, <1>4, <2>1, AssignableInScope DEF IInv
  <2> QED
    BY <1>4, <2>1, <2>2 DEF Abstract!InScope
<1>5. CASE kind = "personapermissions"
  <2>1. PICK x \in permissions : x.key = o /\ <<TenantOf[owner], x.clientkey>> \in tenantclients
    BY <1>5, AssignableInScope DEF IInv
  <2>2. owner \in personas /\ x.clientkey \in Keys(clients)
        /\ <<o, x.clientkey>> \in ClientOf(permissions)
    BY <1>1, <1>2, <1>5, <2>1, AssignableInScope DEF IInv
  <2> QED
    BY <1>5, <2>1, <2>2 DEF Abstract!InScope
<1> QED
  BY <1>3, <1>4, <1>5 DEF Kinds

LEMMA InsertLinksAssigns ==
  ASSUME IInv, NEW r \in Requests, InsertLinks(r) PROVE [Abstract!Next]_Abstract!vars
<1> DEFINE kind == req[r].kind
           owner == req[r].owner
           objects == req[r].objects
<1>1. UNCHANGED <<clients, roles, permissions, personas, tenantclients, drawn>>
  BY DEF InsertLinks
<1>2. CASE UNCHANGED links
  BY <1>1, <1>2, UnseenTables DEF tables
<1>3. CASE /\ owner \in Owners(kind) /\ objects \subseteq Objects(kind) /\ kind \in Kinds
           /\ links' = [links EXCEPT ![kind] = @ \cup ({owner} \X objects)]
  <2>1. \A o \in objects : o \in Assignable(kind, owner)
    BY <1>3 DEF InsertLinks, IInv, RequestInv, Shape, ValidatedStaysAssignable
  <2>2. owner \in RoleKeys \cup PersonaKeys /\ objects \subseteq RoleKeys \cup PermissionKeys
    BY <1>3 DEF IInv, TypeOK, Owners, Objects, Keys, RoleRow, PermissionRow
  <2> HIDE DEF kind, owner, objects
  <2>3. \A o \in objects : Abstract!InScope(kind, owner, o)
    BY <1>3, <2>1, AssignableIsInScope
  <2>4. Abstract!Assign(kind, owner, objects)
    BY <1>1, <1>3, <2>3 DEF Abstract!Assign, ClientOf, Keys
  <2> QED
    BY <1>3, <2>2, <2>4 DEF Abstract!Next, Kinds, Abstract!Kinds
<1>4. CASE kind \notin Kinds /\ links' = [links EXCEPT ![kind] = @ \cup ({owner} \X objects)]
  <2>1. links' = links
    BY <1>4 DEF IInv, TypeOK
  <2> QED
    BY <1>2, <2>1
<1> QED
  BY <1>2, <1>3, <1>4 DEF InsertLinks

LEMMA DeleteLinkWithdraws ==
  ASSUME IInv, NEW r \in Requests, DeleteLink(r) PROVE [Abstract!Next]_Abstract!vars
<1> DEFINE kind == req[r].kind
           owner == req[r].owner
           objects == req[r].objects
<1>1. /\ UNCHANGED <<clients, roles, permissions, personas, tenantclients, drawn>>
      /\ links' = [links EXCEPT ![kind] = @ \ ({owner} \X objects)]
      /\ links \in [Kinds -> SUBSET (OwnerKeys \X ObjectKeys)]
      /\ objects \subseteq ObjectKeys
  BY DEF DeleteLink, IInv, TypeOK, Request
<1> HIDE DEF kind, owner, objects
<1>2. CASE kind \in Kinds /\ owner \in OwnerKeys
  <2>1. Abstract!Withdraw(kind, owner, objects)
    BY <1>1 DEF Abstract!Withdraw, ClientOf, Keys
  <2> QED
    BY <1>1, <1>2, <2>1 DEF Abstract!Next, Kinds, Abstract!Kinds, OwnerKeys, ObjectKeys
<1>3. CASE kind \notin Kinds \/ owner \notin OwnerKeys
  <2>1. \A k \in Kinds : links'[k] = links[k]
    BY <1>1, <1>3
  <2>2. links' = links
    BY <1>1, <2>1
  <2> QED
    BY <1>1, <2>2, UnseenTables DEF tables
<1> QED
  BY <1>2, <1>3

LEMMA InitIsSeen == ASSUME Init PROVE Abstract!Init
  BY DEF Init, Abstract!Init, ClientOf, Keys, Kinds, Abstract!Kinds
LEMMA ServeImplements ==
  ASSUME IInv, ClientIdsIdentify, NEW r \in Requests, Serve(r)
  PROVE  [Abstract!Next]_Abstract!vars
<1>1. ASSUME NEW q, Arrive(r, q) PROVE UNCHANGED Abstract!vars
  BY <1>1, UnseenTables DEF Arrive
<1>2. CASE ClientRequest(r)
  BY <1>1, <1>2, DeleteClientRetires DEF ClientRequest
<1>3. CASE LinkRequest(r)
  BY <1>1, <1>3 DEF LinkRequest
<1>4. CASE PersonaRequest(r)
  BY <1>1, <1>4, CreatePersonaAdmits DEF PersonaRequest
<1>5. CASE StatementFails(r) \/ ReadClient(r) \/ CheckClient(r) \/ ReadRole(r) \/ CheckName(r)
             \/ CheckOwner(r) \/ CheckAssignable(r) \/ CheckObject(r) \/ CheckPersona(r)
  BY <1>5, UnseenTables DEF StatementFails, ReadClient, CheckClient, ReadRole, CheckName,
       CheckOwner, CheckAssignable, CheckObject, CheckPersona
<1>6. CASE InsertClient(r) \/ RelateClient(r) \/ UpdateClient(r)
  BY <1>6, InsertClientRegisters, RelateClientRelates, UpdateClientUnseen
<1>7. CASE InsertRole(r) \/ InsertPermission(r)
  BY <1>7, InsertRoleAdds, InsertPermissionAdds
<1>8. CASE InsertLinks(r) \/ DeleteLink(r) \/ DeletePersona(r)
  BY <1>8, InsertLinksAssigns, DeleteLinkWithdraws, DeletePersonaDismisses
<1> QED
  BY <1>2, <1>3, <1>4, <1>5, <1>6, <1>7, <1>8 DEF Serve, Step

LEMMA StepImplements ==
  IInv /\ ClientIdsIdentify /\ [Next]_cvars => [Abstract!Next]_Abstract!vars
<1> SUFFICES ASSUME IInv, ClientIdsIdentify, [Next]_cvars PROVE [Abstract!Next]_Abstract!vars
  OBVIOUS
<1>1. CASE Crash \/ UNCHANGED cvars
  BY <1>1, UnseenTables DEF Crash, cvars
<1>2. CASE \E r \in Requests : Serve(r)
  BY <1>2, ServeImplements
<1> QED
  BY <1>1, <1>2 DEF Next

\* The handlers, each checking with one statement what another acts on, keep the
\* promise that every assignment is made of objects in the scope of their owner at
\* that very moment, that keys are never used again, and that whatever goes takes
\* along what depends on it.
THEOREM CatalogueImplements == Spec => ImplementsAssignments
<1>1. Init => Abstract!Init
  BY InitIsSeen
<1> QED
  BY <1>1, StepImplements, Inductive, OneClientPerId, PTL
     DEF Spec, ImplementsAssignments, Abstract!Spec
=============================================================================
