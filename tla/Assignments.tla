----------------------------- MODULE Assignments -----------------------------
(***************************************************************************)
(* What the administration API promises about assignments, without saying  *)
(* how: a role or permission comes into being under a client that exists,  *)
(* under a key that never meant anything else; an assignment is made in    *)
(* one step, of objects that are all in the scope of their owner at that   *)
(* moment; and whatever goes takes all that depends on it along, at once.  *)
(***************************************************************************)
CONSTANTS Clients, Tenants, Roles, Permissions, Personas, TenantOf

VARIABLES
  clients,      \* the clients there are
  serves,       \* pairs of a tenant and a client it is served by
  roles,        \* pairs of a role and its client
  permissions,  \* pairs of a permission and its client
  personas,     \* the personas there are
  links,        \* kind -> pairs of an owner and an object assigned to it
  known         \* every key that was ever given out

vars == <<clients, serves, roles, permissions, personas, links, known>>

Kinds == {"rolepermissions", "personaroles", "personapermissions"}

KeysOf(pairs) == {x[1] : x \in pairs}

Init == /\ clients = {} /\ serves = {} /\ roles = {} /\ permissions = {}
        /\ personas = {} /\ links = [kind \in Kinds |-> {}] /\ known = {}

\* The roles a permission may be given to are those of its client, the personas
\* those of the tenants its client serves.
InScope(kind, owner, object) ==
  CASE kind = "rolepermissions" ->
         \E c \in clients : <<owner, c>> \in roles /\ <<object, c>> \in permissions
    [] kind = "personaroles" ->
         owner \in personas /\
         \E c \in clients : <<object, c>> \in roles /\ <<TenantOf[owner], c>> \in serves
    [] kind = "personapermissions" ->
         owner \in personas /\
         \E c \in clients : <<object, c>> \in permissions /\ <<TenantOf[owner], c>> \in serves

New(key) == key \notin known /\ known' = known \cup {key}

Register(c) ==
  /\ New(c) /\ clients' = clients \cup {c}
  /\ UNCHANGED <<serves, roles, permissions, personas, links>>

Relate(t, c) ==
  /\ c \in clients /\ serves' = serves \cup {<<t, c>>}
  /\ UNCHANGED <<clients, roles, permissions, personas, links, known>>

AddRole(k, c) ==
  /\ New(k) /\ c \in clients /\ roles' = roles \cup {<<k, c>>}
  /\ UNCHANGED <<clients, serves, permissions, personas, links>>

AddPermission(k, c) ==
  /\ New(k) /\ c \in clients /\ permissions' = permissions \cup {<<k, c>>}
  /\ UNCHANGED <<clients, serves, roles, personas, links>>

Admit(p) ==
  /\ New(p) /\ personas' = personas \cup {p}
  /\ UNCHANGED <<clients, serves, roles, permissions, links>>

Assign(kind, owner, objects) ==
  /\ \A x \in objects : InScope(kind, owner, x)
  /\ links' = [links EXCEPT ![kind] = @ \cup ({owner} \X objects)]
  /\ UNCHANGED <<clients, serves, roles, permissions, personas, known>>

Withdraw(kind, owner, objects) ==
  /\ links' = [links EXCEPT ![kind] = @ \ ({owner} \X objects)]
  /\ UNCHANGED <<clients, serves, roles, permissions, personas, known>>

\* The assignments of roles, permissions and personas that are gone go too.
LinksOfTheLeft ==
  links' = [kind \in Kinds |->
    {l \in links[kind] :
       /\ l[1] \in IF kind = "rolepermissions" THEN KeysOf(roles') ELSE personas'
       /\ l[2] \in IF kind = "personaroles" THEN KeysOf(roles') ELSE KeysOf(permissions')}]

Retire(c) ==
  /\ c \in clients /\ clients' = clients \ {c}
  /\ serves' = {x \in serves : x[2] # c}
  /\ roles' = {x \in roles : x[2] # c}
  /\ permissions' = {x \in permissions : x[2] # c}
  /\ LinksOfTheLeft
  /\ UNCHANGED <<personas, known>>

Dismiss(p) ==
  /\ p \in personas /\ personas' = personas \ {p}
  /\ LinksOfTheLeft
  /\ UNCHANGED <<clients, serves, roles, permissions, known>>

Next ==
  \/ \E c \in Clients :
       \/ Register(c) \/ Retire(c)
       \/ \E t \in Tenants : Relate(t, c)
       \/ \E k \in Roles : AddRole(k, c)
       \/ \E k \in Permissions : AddPermission(k, c)
  \/ \E p \in Personas : Admit(p) \/ Dismiss(p)
  \/ \E kind \in Kinds, owner \in Roles \cup Personas,
        objects \in SUBSET (Roles \cup Permissions) :
       Assign(kind, owner, objects) \/ Withdraw(kind, owner, objects)

Spec == Init /\ [][Next]_vars
=============================================================================
