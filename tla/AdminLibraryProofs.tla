------------------------- MODULE AdminLibraryProofs -------------------------
(* The inductive invariant of AdminLibrary, and what follows from it. *)
EXTENDS AdminLibrary, TLAPS

-----------------------------------------------------------------------------
(* The shape of the schema. *)

LEMMA ParentValues ==
  /\ DOMAIN Parent = {"roles", "permissions", "personas"}
  /\ Parent["roles"] = "clients" /\ Parent["permissions"] = "clients" /\ Parent["personas"] = "tenants"
  /\ \A t \in DOMAIN Parent : Parent[t] \in {"tenants", "clients"}
BY DEF Parent

LEMMA EndsValues ==
  /\ Ends["tenantclients"][1] = "tenants" /\ Ends["tenantclients"][2] = "clients"
  /\ Ends["grouproles"][1] = "groups" /\ Ends["grouproles"][2] = "roles"
  /\ Ends["personaroles"][1] = "personas" /\ Ends["personaroles"][2] = "roles"
  /\ Ends["rolepermissions"][1] = "roles" /\ Ends["rolepermissions"][2] = "permissions"
  /\ Ends["personapermissions"][1] = "personas" /\ Ends["personapermissions"][2] = "permissions"
BY DEF Ends

LEMMA EndsTables == \A j \in Joins : Ends[j][1] \in Tables /\ Ends[j][2] \in Tables
BY EndsValues DEF Joins, Tables

-----------------------------------------------------------------------------
(* What a step can be: each function changes the tables in one of eight ways. *)

Adds(t, name, parent) ==
  /\ Insert(t, name, parent)
  /\ IF t \in DOMAIN Parent THEN Exists(Parent[t], parent) ELSE parent = 0
  /\ UNCHANGED <<links, unrelated>>

Gives(j, P, R) == LinkAll(j, Related(P, R))

Takes(j, S) ==
  /\ links' = [links EXCEPT ![j] = @ \ S]
  /\ unrelated' = IF j = "tenantclients" THEN unrelated \cup (links[j] \cap S) ELSE unrelated
  /\ UNCHANGED <<rows, drawn>>

Links(j, left, right) ==
  /\ EndsExist(j, left, right)
  /\ links' = [links EXCEPT ![j] = @ \cup {<<left, right>>}]
  /\ UNCHANGED <<rows, drawn, unrelated>>

Kinds ==
  \/ \E t \in Tables, name \in Name, parent \in Nat : Adds(t, name, parent)
  \/ \E t \in Tables : \E D \in SUBSET rows[t] : Delete(t, D)
  \/ \E t \in {"personas", "clients"}, old, new \in Name :
       \E C \in SUBSET Named(t, old) : Rename(t, C, new)
  \/ \E j \in {"personaroles", "personapermissions"} :
       \E P \in SUBSET rows["personas"], R \in SUBSET rows[Ends[j][2]] : Gives(j, P, R)
  \/ \E S \in SUBSET (Keys(rows["roles"]) \X Keys(rows["permissions"])) : LinkAll("rolepermissions", S)
  \/ \E j \in Joins : \E S : Takes(j, S)
  \/ \E j \in {"tenantclients", "grouproles"}, left, right \in Nat : Links(j, left, right)
  \/ UNCHANGED <<rows, links, drawn, unrelated>>

LEMMA OwnedRows ==
  ASSUME NEW t, NEW owner, NEW name
  PROVE  Owned(t, owner, name) \subseteq rows[t] /\ Named(t, name) \subseteq rows[t]
BY DEF Owned, Named

LEMMA KeysNat ==
  ASSUME TypeOK, NEW t \in Tables
  PROVE  \A r \in rows[t] : r.key \in Nat /\ r.parent \in Nat /\ r.name \in Name
BY DEF TypeOK, Row

LEMMA TenantKinds ==
  ASSUME TypeOK, TenantCalls
  PROVE  Kinds
<1> USE ParentValues DEF Tables
<1>0. PICK tn \in TenantNames :
        \/ InsertTenant(tn) \/ DeleteTenant(tn)
        \/ \E c \in ClientIds : DeleteTenantClient(tn, c)
        \/ \E p \in Persona : InsertPersona(tn, p) \/ DeletePersona(tn, p)
                              \/ \E q \in Persona : UpdatePersona(tn, p, q)
        \/ \E p \in Persona, c \in ClientIds, r \in RoleNames :
             InsertPersonaRole(tn, p, c, r) \/ DeletePersonaRole(tn, p, c, r)
  BY DEF TenantCalls
<1>1. ASSUME InsertTenant(tn) PROVE Kinds
  <2>1. Adds("tenants", tn, 0)
    BY <1>1 DEF InsertTenant, Adds
  <2> QED
    BY <2>1 DEF Kinds, Name
<1>2. ASSUME DeleteTenant(tn) PROVE Kinds
  BY <1>2, OwnedRows DEF DeleteTenant, Kinds
<1>3. ASSUME NEW c \in ClientIds, DeleteTenantClient(tn, c) PROVE Kinds
  <2>1. Takes("tenantclients", TenantClients(tn, c))
    BY <1>3 DEF DeleteTenantClient, Unlink, Takes
  <2> QED
    BY <2>1 DEF Kinds, Joins
<1>4. ASSUME NEW p \in Persona, InsertPersona(tn, p) PROVE Kinds
  <2>1. PICK t \in Named("tenants", tn) : Insert("personas", p, t.key) /\ UNCHANGED <<links, calls, unrelated>>
    BY <1>4 DEF InsertPersona
  <2>2. t \in rows["tenants"] /\ t.key \in Nat /\ Exists("tenants", t.key)
    BY OwnedRows, KeysNat DEF Exists, Keys
  <2>3. Adds("personas", p, t.key)
    BY <2>1, <2>2 DEF Adds
  <2> QED
    BY <2>2, <2>3 DEF Kinds, Name
<1>5. ASSUME NEW p \in Persona, DeletePersona(tn, p) PROVE Kinds
  BY <1>5, OwnedRows DEF DeletePersona, Kinds
<1>6. ASSUME NEW p \in Persona, NEW q \in Persona, UpdatePersona(tn, p, q) PROVE Kinds
  <2>1. Owned("personas", tn, p) \in SUBSET Named("personas", p)
    BY DEF Owned
  <2>2. Rename("personas", Owned("personas", tn, p), q)
    BY <1>6 DEF UpdatePersona
  <2> QED
    BY <2>1, <2>2 DEF Kinds, Name
<1>7. ASSUME NEW p \in Persona, NEW c \in ClientIds, NEW r \in RoleNames, InsertPersonaRole(tn, p, c, r)
      PROVE  Kinds
  <2>1. Gives("personaroles", Owned("personas", tn, p), Owned("roles", c, r))
    BY <1>7 DEF InsertPersonaRole, PersonaRoles, Gives
  <2> QED
    BY <2>1, OwnedRows, EndsValues DEF Kinds
<1>8. ASSUME NEW p \in Persona, NEW c \in ClientIds, NEW r \in RoleNames, DeletePersonaRole(tn, p, c, r)
      PROVE  Kinds
  <2>1. Takes("personaroles", PersonaRoles(tn, p, c, r))
    BY <1>8 DEF DeletePersonaRole, Unlink, Takes
  <2> QED
    BY <2>1 DEF Kinds, Joins
<1> QED
  BY <1>0, <1>1, <1>2, <1>3, <1>4, <1>5, <1>6, <1>7, <1>8

LEMMA ClientKinds ==
  ASSUME TypeOK, ClientCalls \/ GroupCalls
  PROVE  Kinds
<1> USE ParentValues DEF Tables
<1>1. ASSUME NEW g \in GroupNames, InsertGroup(g) PROVE Kinds
  <2>1. Adds("groups", g, 0)
    BY <1>1 DEF InsertGroup, Adds
  <2> QED
    BY <2>1 DEF Kinds, Name
<1>2. ASSUME NEW g \in GroupNames, DeleteGroup(g) PROVE Kinds
  BY <1>2, OwnedRows DEF DeleteGroup, Kinds
<1>3. ASSUME NEW c \in ClientIds, DeleteClient(c) PROVE Kinds
  BY <1>3, OwnedRows DEF DeleteClient, Kinds
<1>4. ASSUME NEW c \in ClientIds, NEW r \in RoleNames, InsertRole(c, r) PROVE Kinds
  <2>1. PICK o \in Named("clients", c) : Insert("roles", r, o.key) /\ UNCHANGED <<links, calls, unrelated>>
    BY <1>4 DEF InsertRole
  <2>2. o \in rows["clients"] /\ o.key \in Nat /\ Exists("clients", o.key)
    BY OwnedRows, KeysNat DEF Exists, Keys
  <2>3. Adds("roles", r, o.key)
    BY <2>1, <2>2 DEF Adds
  <2> QED
    BY <2>2, <2>3 DEF Kinds, Name
<1>5. ASSUME NEW c \in ClientIds, NEW r \in RoleNames, DeleteRole(c, r) PROVE Kinds
  BY <1>5, OwnedRows DEF DeleteRole, Kinds
<1>6. ASSUME NEW c \in ClientIds, NEW p \in PermissionNames, DeletePermission(c, p) PROVE Kinds
  BY <1>6, OwnedRows DEF DeletePermission, Kinds
<1>7. ASSUME NEW g \in GroupNames, NEW c \in ClientIds, NEW r \in RoleNames, DeleteGroupRole(g, c, r)
      PROVE  Kinds
  <2>1. Takes("grouproles", GroupRoles(g, c, r))
    BY <1>7 DEF DeleteGroupRole, Unlink, Takes
  <2> QED
    BY <2>1 DEF Kinds, Joins
<1>8. ASSUME NEW c \in ClientIds, NEW r \in RoleNames, NEW p \in PermissionNames,
             InsertRolePermission(c, r, p)
      PROVE  Kinds
  <2>1. RolePermissions(c, r, p) \in SUBSET (Keys(rows["roles"]) \X Keys(rows["permissions"]))
    <3>1. Owned("roles", c, r) \subseteq rows["roles"] /\ Named("permissions", p) \subseteq rows["permissions"]
      BY OwnedRows
    <3> QED
      BY <3>1 DEF RolePermissions, Keys
  <2> QED
    BY <1>8, <2>1 DEF InsertRolePermission, Kinds
<1>9. ASSUME NEW c \in ClientIds, NEW r \in RoleNames, NEW p \in PermissionNames,
             DeleteRolePermission(c, r, p)
      PROVE  Kinds
  <2>1. Takes("rolepermissions", RolePermissions(c, r, p))
    BY <1>9 DEF DeleteRolePermission, Unlink, Takes
  <2> QED
    BY <2>1 DEF Kinds, Joins
<1>10. ASSUME NEW c \in ClientIds, NEW s \in Subjects, NEW p \in PermissionNames,
              InsertPersonaPermission(c, s, p)
       PROVE  Kinds
  <2>1. Gives("personapermissions", OfSubject(s), Owned("permissions", c, p))
    BY <1>10 DEF InsertPersonaPermission, Gives
  <2>2. OfSubject(s) \subseteq rows["personas"]
    BY DEF OfSubject
  <2> QED
    BY <2>1, <2>2, OwnedRows, EndsValues DEF Kinds
<1>11. ASSUME NEW c \in ClientIds, NEW s \in Subjects, NEW p \in PermissionNames,
              DeletePersonaPermission(c, s, p)
       PROVE  Kinds
  <2>1. Takes("personapermissions", {x \in links["personapermissions"] : x[1] \in Keys(OfSubject(s))})
    BY <1>11 DEF DeletePersonaPermission, Unlink, Takes
  <2> QED
    BY <2>1 DEF Kinds, Joins
<1>12. ASSUME NEW c \in ClientIds, NEW new \in ClientIds, UpdateClient(c, new) PROVE Kinds
  <2>1. Rename("clients", Named("clients", c), new)
    BY <1>12 DEF UpdateClient
  <2> QED
    BY <2>1 DEF Kinds, Name
<1> QED
  BY <1>1, <1>2, <1>3, <1>4, <1>5, <1>6, <1>7, <1>8, <1>9, <1>10, <1>11, <1>12 DEF ClientCalls, GroupCalls

LEMMA CallKinds ==
  ASSUME TypeOK, CallsInv, NEW c \in Callers, Step(c)
  PROVE  Kinds
<1> USE ParentValues DEF Tables
<1>0. calls[c] \in Call /\ (calls[c].pc = "insert" => calls[c].name \in Name)
  BY DEF TypeOK, CallsInv
<1>1. ASSUME Begin(c) \/ FindSecond(c) \/ Abandon(c) PROVE Kinds
  <2>1. UNCHANGED <<rows, links, drawn, unrelated>>
    BY <1>1 DEF Begin, FindFirst, FindSecond, Abandon
  <2> QED
    BY <2>1 DEF Kinds
<1>2. ASSUME InsertPermission(c) PROVE Kinds
  <2>1. Adds("permissions", calls[c].name, calls[c].left)
    BY <1>2 DEF InsertPermission, Adds
  <2>2. calls[c].name \in Name /\ calls[c].left \in Nat
    BY <1>0, <1>2 DEF InsertPermission, Call
  <2> QED
    BY <2>1, <2>2 DEF Kinds
<1>3. ASSUME InsertClient(c) PROVE Kinds
  <2>1. Adds("clients", calls[c].name, 0)
    BY <1>3 DEF InsertClient, Adds
  <2>2. calls[c].name \in Name
    BY <1>0, <1>3 DEF InsertClient
  <2> QED
    BY <2>1, <2>2 DEF Kinds
<1>4. ASSUME InsertLink(c) PROVE Kinds
  <2>1. Links(JoinOf(calls[c].op), calls[c].left, calls[c].right)
    BY <1>4 DEF InsertLink, Links
  <2> QED
    BY <1>0, <2>1 DEF Kinds, JoinOf, Call
<1> QED
  BY <1>1, <1>2, <1>3, <1>4 DEF Step
LEMMA StepKinds ==
  ASSUME TypeOK, CallsInv, [Next]_vars
  PROVE  Kinds
<1>1. CASE UNCHANGED vars
  BY <1>1 DEF vars, Kinds
<1> QED
  BY <1>1, TenantKinds, ClientKinds, CallKinds DEF Next

-----------------------------------------------------------------------------
(* Each kind of step keeps what the invariant says of the tables. *)

DataType ==
  /\ rows \in [Tables -> SUBSET Row]
  /\ links \in [Joins -> SUBSET (Nat \X Nat)]
  /\ drawn \in [Tables -> Nat]
  /\ unrelated \subseteq Nat \X Nat

Data == DataType /\ RowsInv /\ NothingDangles /\ GivenWithinTenant

LEMMA RowFacts ==
  ASSUME DataType, NEW t \in Tables
  PROVE  rows[t] \subseteq Row /\ \A r \in rows[t] : r.key \in Nat /\ r.parent \in Nat /\ r.name \in Name
BY DEF DataType, Row

LEMMA LinkFacts ==
  ASSUME DataType, NEW j \in Joins, NEW x \in links[j]
  PROVE  x[1] \in Nat /\ x[2] \in Nat /\ x = <<x[1], x[2]>>
BY DEF DataType

LEMMA AddsData ==
  ASSUME Data, NEW t \in Tables, NEW name \in Name, NEW parent \in Nat, Adds(t, name, parent)
  PROVE  Data'
<1>0. DataType /\ RowsInv /\ NothingDangles /\ GivenWithinTenant
  BY DEF Data
<1>1. PICK new : new = [key |-> drawn[t] + 1, name |-> name, parent |-> parent]
  OBVIOUS
<1>2. /\ rows' = [rows EXCEPT ![t] = @ \cup {new}]
      /\ drawn' = [drawn EXCEPT ![t] = @ + 1]
      /\ Unique(t, name, parent)
      /\ links' = links /\ unrelated' = unrelated
  BY <1>1 DEF Adds, Insert
<1>3. /\ drawn[t] \in Nat /\ new \in Row
      /\ new.key = drawn[t] + 1 /\ new.name = name /\ new.parent = parent
  BY <1>0, <1>1 DEF DataType, Row
<1>4. /\ rows'[t] = rows[t] \cup {new} /\ drawn'[t] = drawn[t] + 1
      /\ \A u \in Tables : u # t => rows'[u] = rows[u] /\ drawn'[u] = drawn[u]
      /\ \A u \in Tables : rows[u] \subseteq rows'[u]
  BY <1>0, <1>2 DEF DataType
<1>5. DataType'
  BY <1>0, <1>2, <1>3 DEF DataType
<1>6. \A r \in rows[t] : r.key \in Nat /\ r.key <= drawn[t] /\ r.key # new.key
  BY <1>0, <1>3, RowFacts DEF RowsInv
<1>7. RowsInv'
  <2> SUFFICES ASSUME NEW u \in Tables
      PROVE  /\ \A r \in rows'[u] : r.key <= drawn'[u]
             /\ \A r, s \in rows'[u] : r.key = s.key => r = s
             /\ u # "permissions" => \A r, s \in rows'[u] : r.name = s.name /\ r.parent = s.parent => r = s
             /\ u \notin DOMAIN Parent => \A r \in rows'[u] : r.parent = 0
    BY DEF RowsInv
  <2>1. CASE u # t
    BY <2>1, <1>0, <1>4 DEF RowsInv
  <2>2. CASE u = t
    <3>1. \A r \in rows'[t] : r.key <= drawn'[t]
      BY <1>3, <1>4, <1>6
    <3>2. \A r, s \in rows'[t] : r.key = s.key => r = s
      BY <1>0, <1>4, <1>6 DEF RowsInv
    <3>3. t # "permissions" => \A r, s \in rows'[t] : r.name = s.name /\ r.parent = s.parent => r = s
      BY <1>0, <1>2, <1>3, <1>4 DEF RowsInv, Unique
    <3>4. t \notin DOMAIN Parent => \A r \in rows'[t] : r.parent = 0
      BY <1>0, <1>3, <1>4 DEF RowsInv, Adds
    <3> QED
      BY <2>2, <3>1, <3>2, <3>3, <3>4
  <2> QED
    BY <2>1, <2>2
<1>8. \A u \in Tables : \A k : Exists(u, k) => Exists(u, k)'
  BY <1>4 DEF Exists, Keys
<1>9. NothingDangles'
  <2>1. ASSUME NEW u \in DOMAIN Parent, NEW r \in rows'[u] PROVE Exists(Parent[u], r.parent)'
    <3>1. u \in Tables /\ Parent[u] \in Tables
      BY ParentValues DEF Tables
    <3>2. Exists(Parent[u], r.parent)
      BY <1>0, <1>3, <1>4, <2>1, <3>1 DEF NothingDangles, Adds
    <3> QED
      BY <1>8, <3>1, <3>2
  <2>2. ASSUME NEW j \in Joins, NEW x \in links'[j]
        PROVE  Exists(Ends[j][1], x[1])' /\ Exists(Ends[j][2], x[2])'
    BY <1>0, <1>2, <1>8, EndsTables DEF NothingDangles
  <2> QED
    BY <2>1, <2>2 DEF NothingDangles
<1>10. GivenWithinTenant'
  <2> SUFFICES ASSUME NEW j \in {"personaroles", "personapermissions"}, NEW x \in links[j],
                      NEW p \in rows'["personas"], NEW r \in rows'[Ends[j][2]],
                      x = <<p.key, r.key>>
               PROVE  <<p.parent, r.parent>> \in links["tenantclients"] \cup unrelated
    BY <1>2 DEF GivenWithinTenant
  <2>1. j \in Joins /\ Ends[j][1] = "personas" /\ "personas" \in Tables /\ Ends[j][2] \in Tables
    BY EndsValues DEF Joins, Tables
  <2>2. x[1] \in Keys(rows["personas"]) /\ x[2] \in Keys(rows[Ends[j][2]])
    BY <1>0, <2>1 DEF NothingDangles, Exists
  <2>3. p \in rows["personas"]
    <3>1. PICK q \in rows["personas"] : q.key = p.key
      BY <2>2 DEF Keys
    <3> QED
      BY <3>1, <1>4, <1>6, <2>1
  <2>4. r \in rows[Ends[j][2]]
    <3>1. PICK q \in rows[Ends[j][2]] : q.key = r.key
      BY <2>2 DEF Keys
    <3> QED
      BY <3>1, <1>4, <1>6, <2>1
  <2> QED
    BY <1>0, <2>3, <2>4 DEF GivenWithinTenant
<1> QED
  BY <1>5, <1>7, <1>9, <1>10 DEF Data

LEMMA GoneFacts ==
  ASSUME DataType, NEW t \in Tables, NEW D \in SUBSET rows[t]
  PROVE  /\ Gone(t, D)[t] = D
         /\ \A u \in Tables : Gone(t, D)[u] \subseteq rows[u]
         /\ \A u \in DOMAIN Parent : \A r \in rows[u] :
              r.parent \in Keys(Gone(t, D)[Parent[u]]) => r \in Gone(t, D)[u]
<1>1. Gone(t, D)[t] = D /\ \A u \in Tables : Gone(t, D)[u] \subseteq rows[u]
  BY DEF Gone
<1>2. ASSUME NEW u \in DOMAIN Parent, NEW r \in rows[u], r.parent \in Keys(Gone(t, D)[Parent[u]])
      PROVE  r \in Gone(t, D)[u]
  <2>1. u \in Tables /\ Parent[u] \in {"tenants", "clients"} /\ Parent[u] \in Tables /\ u # Parent[u]
        /\ Parent[u] \notin DOMAIN Parent
    BY ParentValues DEF Tables
  <2>2. CASE Parent[u] = t
    BY <1>1, <1>2, <2>1, <2>2 DEF Gone
  <2>3. CASE Parent[u] # t
    BY <1>2, <2>1, <2>3 DEF Gone, Keys
  <2> QED
    BY <2>2, <2>3
<1> QED
  BY <1>1, <1>2

LEMMA DeleteData ==
  ASSUME Data, NEW t \in Tables, NEW D \in SUBSET rows[t], Delete(t, D)
  PROVE  Data'
<1>0. DataType /\ RowsInv /\ NothingDangles /\ GivenWithinTenant
  BY DEF Data
<1>1. PICK gone : gone = Gone(t, D)
  OBVIOUS
<1>2. /\ \A u \in Tables : gone[u] \subseteq rows[u]
      /\ \A u \in DOMAIN Parent : \A r \in rows[u] : r.parent \in Keys(gone[Parent[u]]) => r \in gone[u]
  BY <1>0, <1>1, GoneFacts
<1>3. /\ rows' = [u \in Tables |-> rows[u] \ gone[u]]
      /\ links' = [j \in Joins |-> {p \in links[j] : /\ p[1] \notin Keys(gone[Ends[j][1]])
                                                     /\ p[2] \notin Keys(gone[Ends[j][2]])}]
      /\ drawn' = drawn /\ unrelated' = unrelated
  BY <1>1 DEF Delete
<1>4. DataType'
  BY <1>0, <1>3 DEF DataType
<1>5. \A u \in Tables : rows'[u] = rows[u] \ gone[u]
  BY <1>3
<1>6. RowsInv'
  BY <1>0, <1>3, <1>5 DEF RowsInv
<1>7. \A u \in Tables : \A k : Exists(u, k) /\ k \notin Keys(gone[u]) => Exists(u, k)'
  BY <1>5 DEF Exists, Keys
<1>8. NothingDangles'
  <2>1. ASSUME NEW u \in DOMAIN Parent, NEW r \in rows'[u] PROVE Exists(Parent[u], r.parent)'
    <3>1. u \in Tables /\ Parent[u] \in Tables
      BY ParentValues DEF Tables
    <3>2. r \in rows[u] /\ r \notin gone[u]
      BY <1>5, <2>1, <3>1
    <3> QED
      BY <1>0, <1>2, <1>7, <3>1, <3>2 DEF NothingDangles
  <2>2. ASSUME NEW j \in Joins, NEW x \in links'[j]
        PROVE  Exists(Ends[j][1], x[1])' /\ Exists(Ends[j][2], x[2])'
    BY <1>0, <1>3, <1>7, <2>2, EndsTables DEF NothingDangles
  <2> QED
    BY <2>1, <2>2 DEF NothingDangles
<1>9. GivenWithinTenant'
  <2> SUFFICES ASSUME NEW j \in {"personaroles", "personapermissions"}, NEW x \in links'[j],
                      NEW p \in rows'["personas"], NEW r \in rows'[Ends[j][2]],
                      x = <<p.key, r.key>>
               PROVE  <<p.parent, r.parent>> \in links'["tenantclients"] \cup unrelated'
    BY DEF GivenWithinTenant
  <2>1. /\ j \in Joins /\ "tenantclients" \in Joins /\ Ends[j][2] \in Tables
        /\ Ends[j][2] \in DOMAIN Parent /\ Parent[Ends[j][2]] = "clients"
        /\ "personas" \in DOMAIN Parent /\ Parent["personas"] = "tenants" /\ "personas" \in Tables
    BY EndsValues, ParentValues DEF Joins, Tables
  <2>2. /\ p \in rows["personas"] /\ p \notin gone["personas"]
        /\ r \in rows[Ends[j][2]] /\ r \notin gone[Ends[j][2]] /\ x \in links[j]
    BY <1>3, <1>5, <2>1
  <2>3. <<p.parent, r.parent>> \in links["tenantclients"] \cup unrelated
    BY <1>0, <2>2 DEF GivenWithinTenant
  <2>4. p.parent \notin Keys(gone["tenants"]) /\ r.parent \notin Keys(gone["clients"])
    BY <1>2, <2>1, <2>2
  <2> QED
    BY <1>3, <2>1, <2>3, <2>4, EndsValues
<1> QED
  BY <1>4, <1>6, <1>8, <1>9 DEF Data

\* Steps that leave the rows alone.
LEMMA SameRows ==
  ASSUME Data, UNCHANGED <<rows, drawn>>, DataType',
         \A j \in Joins : \A x \in links'[j] : Exists(Ends[j][1], x[1]) /\ Exists(Ends[j][2], x[2]),
         GivenWithinTenant'
  PROVE  Data'
<1>1. RowsInv'
  BY DEF Data, RowsInv
<1>2. NothingDangles'
  BY DEF Data, NothingDangles, Exists
<1> QED
  BY <1>1, <1>2 DEF Data

LEMMA RelatedFacts ==
  ASSUME NEW P, NEW R, NEW x \in Related(P, R)
  PROVE  \E p \in P, r \in R :
           x = <<p.key, r.key>> /\ <<p.parent, r.parent>> \in links["tenantclients"]
BY DEF Related

LEMMA GivesData ==
  ASSUME Data, NEW j \in {"personaroles", "personapermissions"},
         NEW P \in SUBSET rows["personas"], NEW R \in SUBSET rows[Ends[j][2]], Gives(j, P, R)
  PROVE  Data'
<1>0. /\ DataType /\ RowsInv /\ NothingDangles /\ GivenWithinTenant
      /\ j \in Joins /\ j # "tenantclients" /\ "tenantclients" \in Joins
      /\ Ends[j][1] = "personas" /\ "personas" \in Tables /\ Ends[j][2] \in Tables
  BY EndsValues DEF Data, Joins, Tables
<1>1. /\ links' = [links EXCEPT ![j] = @ \cup Related(P, R)]
      /\ UNCHANGED <<rows, drawn, unrelated>>
  BY DEF Gives, LinkAll
<1>2. /\ links'[j] = links[j] \cup Related(P, R)
      /\ \A k \in Joins : k # j => links'[k] = links[k]
  BY <1>0, <1>1 DEF DataType
<1>3. ASSUME NEW x \in Related(P, R)
      PROVE  x \in Nat \X Nat /\ Exists(Ends[j][1], x[1]) /\ Exists(Ends[j][2], x[2])
  <2>1. PICK p \in P, r \in R :
          x = <<p.key, r.key>> /\ <<p.parent, r.parent>> \in links["tenantclients"]
    BY RelatedFacts
  <2>2. p \in rows["personas"] /\ r \in rows[Ends[j][2]] /\ p.key \in Nat /\ r.key \in Nat
    BY <1>0, RowFacts
  <2> QED
    BY <1>0, <2>1, <2>2 DEF Exists, Keys
<1>4. DataType'
  <2>1. Related(P, R) \subseteq Nat \X Nat
    BY <1>3
  <2> QED
    BY <1>0, <1>1, <2>1 DEF DataType
<1>5. \A k \in Joins : \A x \in links'[k] : Exists(Ends[k][1], x[1]) /\ Exists(Ends[k][2], x[2])
  BY <1>0, <1>2, <1>3 DEF NothingDangles
<1>6. GivenWithinTenant'
  <2> SUFFICES ASSUME NEW k \in {"personaroles", "personapermissions"}, NEW x \in links'[k],
                      NEW p \in rows["personas"], NEW r \in rows[Ends[k][2]],
                      x = <<p.key, r.key>>
               PROVE  <<p.parent, r.parent>> \in links["tenantclients"] \cup unrelated
    BY <1>0, <1>1, <1>2 DEF GivenWithinTenant
  <2>1. CASE x \in links[k]
    BY <1>0, <2>1 DEF GivenWithinTenant
  <2>2. CASE x \notin links[k]
    <3>1. k = j /\ x \in Related(P, R)
      BY <1>2, <2>2 DEF Joins
    <3>2. PICK q \in P, s \in R : x = <<q.key, s.key>> /\ <<q.parent, s.parent>> \in links["tenantclients"]
      BY <3>1, RelatedFacts
    <3>3. q = p /\ s = r
      BY <1>0, <3>1, <3>2 DEF RowsInv
    <3> QED
      BY <3>2, <3>3
  <2> QED
    BY <2>1, <2>2
<1> QED
  BY <1>1, <1>4, <1>5, <1>6, SameRows

LEMMA RolePermissionsData ==
  ASSUME Data, NEW S \in SUBSET (Keys(rows["roles"]) \X Keys(rows["permissions"])),
         LinkAll("rolepermissions", S)
  PROVE  Data'
<1>0. DataType /\ NothingDangles /\ GivenWithinTenant /\ "rolepermissions" \in Joins
      /\ "roles" \in Tables /\ "permissions" \in Tables
  BY DEF Data, Joins, Tables
<1>1. /\ links' = [links EXCEPT !["rolepermissions"] = @ \cup S]
      /\ UNCHANGED <<rows, drawn, unrelated>>
  BY DEF LinkAll
<1>2. /\ links'["rolepermissions"] = links["rolepermissions"] \cup S
      /\ \A k \in Joins : k # "rolepermissions" => links'[k] = links[k]
  BY <1>0, <1>1 DEF DataType
<1>3. DataType'
  <2>1. Keys(rows["roles"]) \subseteq Nat /\ Keys(rows["permissions"]) \subseteq Nat
    BY <1>0, RowFacts DEF Keys
  <2>2. S \subseteq Nat \X Nat
    BY <2>1
  <2> QED
    BY <1>0, <1>1, <2>2 DEF DataType
<1>4. \A x \in S : Exists("roles", x[1]) /\ Exists("permissions", x[2])
  BY DEF Exists
<1>5. \A k \in Joins : \A x \in links'[k] : Exists(Ends[k][1], x[1]) /\ Exists(Ends[k][2], x[2])
  BY <1>0, <1>2, <1>4, EndsValues DEF NothingDangles
<1>6. GivenWithinTenant'
  BY <1>0, <1>1, <1>2 DEF GivenWithinTenant, Joins
<1> QED
  BY <1>1, <1>3, <1>5, <1>6, SameRows

LEMMA TakesData ==
  ASSUME Data, NEW j \in Joins, NEW S, Takes(j, S)
  PROVE  Data'
<1>0. DataType /\ NothingDangles /\ GivenWithinTenant
  BY DEF Data
<1>1. /\ links' = [links EXCEPT ![j] = @ \ S]
      /\ unrelated' = (IF j = "tenantclients" THEN unrelated \cup (links[j] \cap S) ELSE unrelated)
      /\ UNCHANGED <<rows, drawn>>
  BY DEF Takes
<1>2. /\ links'[j] = links[j] \ S
      /\ \A k \in Joins : k # j => links'[k] = links[k]
      /\ \A k \in Joins : links'[k] \subseteq links[k]
  BY <1>0, <1>1 DEF DataType
<1>3. DataType'
  <2>1. links[j] \subseteq Nat \X Nat
    BY <1>0 DEF DataType
  <2> QED
    BY <1>0, <1>1, <2>1 DEF DataType
<1>4. \A k \in Joins : \A x \in links'[k] : Exists(Ends[k][1], x[1]) /\ Exists(Ends[k][2], x[2])
  BY <1>0, <1>2 DEF NothingDangles
<1>5. links["tenantclients"] \cup unrelated \subseteq links'["tenantclients"] \cup unrelated'
  BY <1>1, <1>2 DEF Joins
<1>6. GivenWithinTenant'
  <2> SUFFICES ASSUME NEW k \in {"personaroles", "personapermissions"}, NEW x \in links'[k],
                      NEW p \in rows["personas"], NEW r \in rows[Ends[k][2]],
                      x = <<p.key, r.key>>
               PROVE  <<p.parent, r.parent>> \in links'["tenantclients"] \cup unrelated'
    BY <1>1 DEF GivenWithinTenant
  <2>1. k \in Joins /\ x \in links[k]
    BY <1>2 DEF Joins
  <2> QED
    BY <1>0, <1>5, <2>1 DEF GivenWithinTenant
<1> QED
  BY <1>1, <1>3, <1>4, <1>6, SameRows

LEMMA LinksData ==
  ASSUME Data, NEW j \in {"tenantclients", "grouproles"}, NEW left \in Nat, NEW right \in Nat,
         Links(j, left, right)
  PROVE  Data'
<1>0. DataType /\ NothingDangles /\ GivenWithinTenant /\ j \in Joins
  BY DEF Data, Joins
<1>1. /\ links' = [links EXCEPT ![j] = @ \cup {<<left, right>>}]
      /\ UNCHANGED <<rows, drawn, unrelated>>
      /\ Exists(Ends[j][1], left) /\ Exists(Ends[j][2], right)
  BY DEF Links, EndsExist
<1>2. /\ links'[j] = links[j] \cup {<<left, right>>}
      /\ \A k \in Joins : k # j => links'[k] = links[k]
      /\ \A k \in Joins : links[k] \subseteq links'[k]
  BY <1>0, <1>1 DEF DataType
<1>3. DataType'
  BY <1>0, <1>1 DEF DataType
<1>4. \A k \in Joins : \A x \in links'[k] : Exists(Ends[k][1], x[1]) /\ Exists(Ends[k][2], x[2])
  BY <1>0, <1>1, <1>2 DEF NothingDangles
<1>5. GivenWithinTenant'
  BY <1>0, <1>1, <1>2 DEF GivenWithinTenant, Joins
<1> QED
  BY <1>1, <1>3, <1>4, <1>5, SameRows

LEMMA RenameData ==
  ASSUME Data, NEW t \in {"personas", "clients"}, NEW old, NEW new \in Name,
         NEW Changed \in SUBSET Named(t, old), Rename(t, Changed, new)
  PROVE  Data'
<1> DEFINE After(p) == IF p \in Changed THEN [p EXCEPT !.name = new] ELSE p
<1>0. /\ DataType /\ RowsInv /\ NothingDangles /\ GivenWithinTenant
      /\ t \in Tables /\ t # "permissions" /\ Changed \subseteq rows[t]
      /\ \A p \in Changed : p.name = old
  BY DEF Data, Tables, Named
<1>1. /\ rows' = [rows EXCEPT ![t] = {After(p) : p \in rows[t]}]
      /\ \A p \in Changed : Unique(t, new, p.parent)
      /\ UNCHANGED <<links, drawn, unrelated>>
  BY DEF Rename
<1>2. ASSUME NEW p \in rows[t]
      PROVE  /\ After(p) \in Row /\ After(p).key = p.key /\ After(p).parent = p.parent
             /\ After(p).name = IF p \in Changed THEN new ELSE p.name
  <2>1. p \in Row
    BY <1>0, RowFacts
  <2> QED
    BY <2>1 DEF Row
<1>3. /\ rows'[t] = {After(p) : p \in rows[t]}
      /\ \A u \in Tables : u # t => rows'[u] = rows[u]
  BY <1>0, <1>1 DEF DataType
<1> HIDE DEF After
<1>4. DataType'
  <2>1. {After(p) : p \in rows[t]} \subseteq Row
    BY <1>2
  <2> QED
    BY <1>0, <1>1, <2>1 DEF DataType
<1>5. \A p, q \in rows[t] :
        /\ After(p).key = After(q).key => p = q
        /\ After(p).name = After(q).name /\ After(p).parent = After(q).parent => p = q
  <2> SUFFICES ASSUME NEW p \in rows[t], NEW q \in rows[t]
      PROVE  /\ After(p).key = After(q).key => p = q
             /\ After(p).name = After(q).name /\ After(p).parent = After(q).parent => p = q
    OBVIOUS
  <2>1. After(p).key = After(q).key => p = q
    BY <1>0, <1>2 DEF RowsInv
  <2>2. ASSUME p \in Changed, q \in Changed, p.parent = q.parent PROVE p = q
    <3>1. p.name = old /\ q.name = old
      BY <1>0, <2>2
    <3> QED
      BY <1>0, <2>2, <3>1 DEF RowsInv
  <2>3. ASSUME p \in Changed, q \notin Changed, q.name = new PROVE p.parent # q.parent
    BY <1>1, <2>3 DEF Unique
  <2>4. ASSUME q \in Changed, p \notin Changed, p.name = new PROVE p.parent # q.parent
    BY <1>1, <2>4 DEF Unique
  <2>5. ASSUME p \notin Changed, q \notin Changed, p.name = q.name, p.parent = q.parent PROVE p = q
    BY <1>0, <2>5 DEF RowsInv
  <2> QED
    BY <1>2, <2>1, <2>2, <2>3, <2>4, <2>5
<1>6. RowsInv'
  <2> SUFFICES ASSUME NEW u \in Tables
      PROVE  /\ \A r \in rows'[u] : r.key <= drawn'[u]
             /\ \A r, s \in rows'[u] : r.key = s.key => r = s
             /\ u # "permissions" => \A r, s \in rows'[u] : r.name = s.name /\ r.parent = s.parent => r = s
             /\ u \notin DOMAIN Parent => \A r \in rows'[u] : r.parent = 0
    BY DEF RowsInv
  <2>1. CASE u # t
    BY <2>1, <1>0, <1>1, <1>3 DEF RowsInv
  <2>2. CASE u = t
    <3>1. \A r \in rows'[u] : r.key <= drawn'[u]
      BY <2>2, <1>0, <1>1, <1>2, <1>3 DEF RowsInv
    <3>2. /\ \A r, s \in rows'[u] : r.key = s.key => r = s
          /\ \A r, s \in rows'[u] : r.name = s.name /\ r.parent = s.parent => r = s
      BY <2>2, <1>3, <1>5
    <3>3. u \notin DOMAIN Parent => \A r \in rows'[u] : r.parent = 0
      BY <2>2, <1>0, <1>2, <1>3 DEF RowsInv
    <3> QED
      BY <3>1, <3>2, <3>3
  <2> QED
    BY <2>1, <2>2
<1>7. \A u \in Tables : \A k : Exists(u, k) => Exists(u, k)'
  <2> SUFFICES ASSUME NEW u \in Tables, NEW k, k \in Keys(rows[u]) PROVE k \in Keys(rows'[u])
    BY DEF Exists, Keys
  <2>1. PICK r \in rows[u] : r.key = k
    BY DEF Keys
  <2>2. CASE u # t
    BY <1>3, <2>1, <2>2 DEF Keys
  <2>3. CASE u = t
    <3>1. After(r) \in rows'[u] /\ After(r).key = k
      BY <1>2, <1>3, <2>1, <2>3
    <3> QED
      BY <3>1 DEF Keys
  <2> QED
    BY <2>2, <2>3
<1>8. \A u \in Tables : \A r \in rows'[u] :
        \E q \in rows[u] : r.key = q.key /\ r.parent = q.parent
  BY <1>2, <1>3
<1>9. NothingDangles'
  <2>1. ASSUME NEW u \in DOMAIN Parent, NEW r \in rows'[u] PROVE Exists(Parent[u], r.parent)'
    <3>1. u \in Tables /\ Parent[u] \in Tables
      BY ParentValues DEF Tables
    <3>2. PICK q \in rows[u] : r.parent = q.parent
      BY <1>8, <2>1, <3>1
    <3> QED
      BY <1>0, <1>7, <3>1, <3>2 DEF NothingDangles
  <2>2. ASSUME NEW j \in Joins, NEW x \in links'[j]
        PROVE  Exists(Ends[j][1], x[1])' /\ Exists(Ends[j][2], x[2])'
    BY <1>0, <1>1, <1>7, <2>2, EndsTables DEF NothingDangles
  <2> QED
    BY <2>1, <2>2 DEF NothingDangles
<1>10. GivenWithinTenant'
  <2> SUFFICES ASSUME NEW j \in {"personaroles", "personapermissions"}, NEW x \in links[j],
                      NEW p \in rows'["personas"], NEW r \in rows'[Ends[j][2]],
                      x = <<p.key, r.key>>
               PROVE  <<p.parent, r.parent>> \in links["tenantclients"] \cup unrelated
    BY <1>1 DEF GivenWithinTenant
  <2>1. Ends[j][2] \in Tables /\ Ends[j][2] # t /\ "personas" \in Tables
    BY EndsValues DEF Tables
  <2>2. PICK q \in rows["personas"] : p.key = q.key /\ p.parent = q.parent
    BY <1>8, <2>1
  <2>3. r \in rows[Ends[j][2]]
    BY <1>3, <2>1
  <2> QED
    BY <1>0, <2>2, <2>3 DEF GivenWithinTenant
<1> QED
  BY <1>4, <1>6, <1>9, <1>10 DEF Data

LEMMA DataStep ==
  ASSUME Data, TypeOK, CallsInv, [Next]_vars
  PROVE  Data'
<1>1. Kinds
  BY StepKinds
<1>2. ASSUME UNCHANGED <<rows, links, drawn, unrelated>> PROVE Data'
  BY <1>2 DEF Data, DataType, RowsInv, NothingDangles, GivenWithinTenant, Exists
<1>3. ASSUME NEW t \in Tables, NEW name \in Name, NEW parent \in Nat, Adds(t, name, parent) PROVE Data'
  BY <1>3, AddsData
<1>4. ASSUME NEW t \in Tables, NEW D \in SUBSET rows[t], Delete(t, D) PROVE Data'
  BY <1>4, DeleteData
<1>5. ASSUME NEW t \in {"personas", "clients"}, NEW old \in Name, NEW new \in Name,
             NEW C \in SUBSET Named(t, old), Rename(t, C, new)
      PROVE  Data'
  BY <1>5, RenameData
<1>6. ASSUME NEW j \in {"personaroles", "personapermissions"},
             NEW P \in SUBSET rows["personas"], NEW R \in SUBSET rows[Ends[j][2]], Gives(j, P, R)
      PROVE  Data'
  BY <1>6, GivesData
<1>7. ASSUME NEW S \in SUBSET (Keys(rows["roles"]) \X Keys(rows["permissions"])),
             LinkAll("rolepermissions", S)
      PROVE  Data'
  BY <1>7, RolePermissionsData
<1>8. ASSUME NEW j \in Joins, NEW S, Takes(j, S) PROVE Data'
  BY <1>8, TakesData
<1>9. ASSUME NEW j \in {"tenantclients", "grouproles"}, NEW left \in Nat, NEW right \in Nat,
             Links(j, left, right)
      PROVE  Data'
  BY <1>9, LinksData
<1> QED
  BY <1>1, <1>2, <1>3, <1>4, <1>5, <1>6, <1>7, <1>8, <1>9 DEF Kinds

-----------------------------------------------------------------------------
(* Calls. *)

CallsOK == calls \in [Callers -> Call] /\ CallsInv

LEMMA BecomesCall ==
  ASSUME CallsOK, NEW c \in Callers, NEW call \in Call,
         call.pc # "idle" => call.name \in Name, Becomes(c, call)
  PROVE  CallsOK'
BY DEF CallsOK, CallsInv, Becomes

LEMMA IdleCall == Idle \in Call /\ Idle.pc = "idle"
BY DEF Idle, Call

LEMMA CallsStep ==
  ASSUME DataType, CallsOK, [Next]_vars
  PROVE  CallsOK'
<1>1. ASSUME UNCHANGED calls PROVE CallsOK'
  BY <1>1 DEF CallsOK, CallsInv
<1>2. ASSUME NEW c \in Callers, NEW op \in {"tenantclient", "grouprole", "permission", "client"},
             NEW first, NEW name \in Name, NEW of \in ClientIds \cup {None},
             FindFirst(c, op, first, name, of)
      PROVE  CallsOK'
  <2>1. FirstTable(op) \in Tables
    BY DEF FirstTable, Tables
  <2>2. PICK r \in Named(FirstTable(op), first) :
          Becomes(c, [Idle EXCEPT !.op = op, !.name = name, !.of = of, !.left = r.key,
                        !.pc = IF op \in {"permission", "client"} THEN "insert" ELSE "find"])
    BY <1>2 DEF FindFirst
  <2>3. r.key \in Nat
    BY <2>1, RowFacts DEF Named
  <2>4. PICK call : call = [Idle EXCEPT !.op = op, !.name = name, !.of = of, !.left = r.key,
                              !.pc = IF op \in {"permission", "client"} THEN "insert" ELSE "find"]
    OBVIOUS
  <2>5. call \in Call /\ call.name \in Name
    BY <2>3, <2>4 DEF Idle, Call
  <2> QED
    BY <2>2, <2>4, <2>5, BecomesCall
<1>3. ASSUME NEW c \in Callers, Begin(c) PROVE CallsOK'
  BY <1>2, <1>3 DEF Begin, Name
<1>4. ASSUME NEW c \in Callers, calls[c].pc # "idle", NEW key \in Nat,
             Becomes(c, [calls[c] EXCEPT !.right = key, !.pc = "link"])
      PROVE  CallsOK'
  <2>1. calls[c] \in Call /\ calls[c].name \in Name
    BY <1>4 DEF CallsOK, CallsInv
  <2>2. PICK call : call = [calls[c] EXCEPT !.right = key, !.pc = "link"]
    OBVIOUS
  <2>3. call \in Call /\ call.name \in Name
    BY <2>1, <2>2 DEF Call
  <2> QED
    BY <1>4, <2>2, <2>3, BecomesCall
<1>6. ASSUME NEW c \in Callers, FindSecond(c) PROVE CallsOK'
  <2>1. PICK r \in IF calls[c].op = "grouprole" THEN Owned("roles", calls[c].of, calls[c].name)
                                               ELSE Named("clients", calls[c].name) :
          Becomes(c, [calls[c] EXCEPT !.right = r.key, !.pc = "link"])
    BY <1>6 DEF FindSecond
  <2>2. r \in rows["roles"] \/ r \in rows["clients"]
    BY OwnedRows
  <2>3. r.key \in Nat
    BY <2>2, RowFacts DEF Tables
  <2> QED
    BY <1>4, <1>6, <2>1, <2>3 DEF FindSecond
<1>7. ASSUME NEW c \in Callers, InsertPermission(c) \/ InsertLink(c) \/ Abandon(c) PROVE CallsOK'
  <2>1. Becomes(c, Idle)
    BY <1>7 DEF InsertPermission, InsertLink, Abandon
  <2> QED
    BY <2>1, IdleCall, BecomesCall
<1>8. ASSUME NEW c \in Callers, InsertClient(c) PROVE CallsOK'
  <2>1. drawn["clients"] + 1 \in Nat
    BY DEF DataType, Tables
  <2> QED
    BY <1>4, <1>8, <2>1 DEF InsertClient
<1>9. ASSUME TenantCalls \/ ClientCalls \/ GroupCalls PROVE CallsOK'
  <2>1. UNCHANGED calls
    BY <1>9 DEF TenantCalls, ClientCalls, GroupCalls, InsertTenant, DeleteTenant, DeleteTenantClient,
       InsertPersona, DeletePersona, UpdatePersona, UpdateClient, Rename, InsertPersonaRole,
       DeletePersonaRole, DeleteClient,
       InsertRole, DeleteRole, DeleteGroupRole, InsertRolePermission, DeleteRolePermission,
       DeletePermission, InsertPersonaPermission, DeletePersonaPermission, InsertGroup, DeleteGroup,
       Delete, Unlink, LinkAll
  <2> QED
    BY <1>1, <2>1
<1>10. ASSUME UNCHANGED vars PROVE CallsOK'
  BY <1>1, <1>10 DEF vars
<1> QED
  BY <1>3, <1>6, <1>7, <1>8, <1>9, <1>10 DEF Next, Step

-----------------------------------------------------------------------------
LEMMA IInvParts == IInv <=> Data /\ CallsOK
BY DEF IInv, Data, CallsOK, TypeOK, DataType

LEMMA InitIInv == Init => IInv
<1> SUFFICES ASSUME Init PROVE Data /\ CallsOK
  BY IInvParts
<1> USE DEF Init
<1>1. DataType
  BY DEF DataType
<1>2. RowsInv /\ NothingDangles /\ GivenWithinTenant
  BY ParentValues, EndsValues DEF RowsInv, NothingDangles, GivenWithinTenant, Tables, Joins
<1>3. CallsOK
  BY IdleCall DEF CallsOK, CallsInv
<1> QED
  BY <1>1, <1>2, <1>3 DEF Data

LEMMA Inductive == IInv /\ [Next]_vars => IInv'
<1> SUFFICES ASSUME IInv, [Next]_vars PROVE (Data /\ CallsOK)'
  BY IInvParts, PTL
<1>1. Data /\ DataType /\ CallsOK /\ TypeOK /\ CallsInv
  BY IInvParts DEF IInv, Data
<1> QED
  BY <1>1, DataStep, CallsStep

\* The invariant that carries the others: keys identify rows, names do within their
\* parent, and every call that runs has its arguments.
THEOREM Invariant == Spec => []IInv
  BY InitIInv, Inductive, PTL DEF Spec

\* Every table, join and call keeps its type.
THEOREM TypeCorrect == Spec => []TypeOK
<1>1. IInv => TypeOK
  BY DEF IInv
<1> QED
  BY Invariant, <1>1, PTL

\* No row outlives its parent and no relation an end, whatever is deleted between the
\* statements of insertTenantClient, insertGroupRole, insertPermissionByClientId, insertClient.
THEOREM NothingEverDangles == Spec => []NothingDangles
<1>1. IInv => NothingDangles
  BY DEF IInv
<1> QED
  BY Invariant, <1>1, PTL

\* Only deleteTenantClient leaves a persona with what is not its tenant's.
THEOREM TenantScope == Spec => []GivenWithinTenant
<1>1. IInv => GivenWithinTenant
  BY DEF IInv
<1> QED
  BY Invariant, <1>1, PTL
=============================================================================
