------------------------- MODULE EntitlementsProofs -------------------------
(***************************************************************************)
(* Proofs about issued tokens: whatever administrators do between the      *)
(* queries of a request, and for any number of them, a token carries what  *)
(* its subject was given on the client, and all of what it held throughout *)
(* by one route.                                                           *)
(***************************************************************************)
EXTENDS Entitlements, CatalogueProofs

-----------------------------------------------------------------------------
(* The queries against the assignments. *)

LEMMA PersonaClientExists ==
  ASSUME NEW sub, NEW context, NEW id, NEW p \in PersonasAs(sub, context),
         NEW k \in Keys(ClientsAsked(id)), <<TenantOf[p], k>> \in tenantclients
  PROVE  \E pc \in PersonaClients(sub, context, id) : pc[1] = p /\ pc[2] = k
<1> DEFINE pc == <<p, k>>
<1>1. pc \in PersonasAs(sub, context) \X Keys(ClientsAsked(id)) /\ pc[1] = p /\ pc[2] = k
  OBVIOUS
<1> HIDE DEF pc
<1> QED
  BY <1>1 DEF PersonaClients

LEMMA PersonaClientIs ==
  ASSUME NEW sub, NEW context, NEW id, NEW pc \in PersonaClients(sub, context, id)
  PROVE  /\ pc[1] \in PersonasAs(sub, context) /\ pc[2] \in Keys(ClientsAsked(id))
         /\ <<TenantOf[pc[1]], pc[2]>> \in tenantclients
BY DEF PersonaClients

\* An assigned permission of a role, or a persona, is that of a row of the client.
LEMMA RoleLink ==
  ASSUME IInv, NEW y \in permissions, NEW l \in links["rolepermissions"], y.key = l[2],
         NEW p, <<p, l[1]>> \in links["personaroles"]
  PROVE  \E x \in roles : /\ x.key = l[1] /\ x.clientkey = y.clientkey /\ <<x.key, y.key>> = l
                          /\ <<TenantOf[p], y.clientkey>> \in tenantclients
<1>1. links["rolepermissions"] \subseteq OwnerKeys \X ObjectKeys
  BY DEF IInv, TypeOK, Kinds
<1>2. PICK x \in roles, z \in permissions : x.key = l[1] /\ z.key = l[2] /\ z.clientkey = x.clientkey
  BY DEF IInv, TableInv, LinksRespectScope
<1>3. z = y
  BY <1>2 DEF IInv, TableInv, KeysIdentify
<1>4. PICK w \in roles : w.key = l[1] /\ <<TenantOf[p], w.clientkey>> \in tenantclients
  BY DEF IInv, TableInv, LinksRespectScope
<1>5. w = x
  BY <1>2, <1>4 DEF IInv, TableInv, KeysIdentify
<1> QED
  BY <1>1, <1>2, <1>3, <1>4, <1>5

LEMMA DirectLink ==
  ASSUME IInv, NEW y \in permissions, NEW l \in links["personapermissions"], y.key = l[2]
  PROVE  <<TenantOf[l[1]], y.clientkey>> \in tenantclients /\ <<l[1], y.key>> = l
<1>1. links["personapermissions"] \subseteq OwnerKeys \X ObjectKeys
  BY DEF IInv, TypeOK, Kinds
<1>2. PICK z \in permissions : z.key = l[2] /\ <<TenantOf[l[1]], z.clientkey>> \in tenantclients
  BY DEF IInv, TableInv, LinksRespectScope
<1>3. z = y
  BY <1>2 DEF IInv, TableInv, KeysIdentify
<1> QED
  BY <1>1, <1>2, <1>3

\* A name given by roles or directly, and the assignments that give it.
LEMMA ByRolesAre ==
  ASSUME NEW sub, NEW context, NEW id, NEW n
  PROVE  n \in ByRoles(sub, context, id) <=>
           \E y \in permissions, l \in links["rolepermissions"] :
             /\ \E p \in PersonasAs(sub, context) : <<p, l[1]>> \in links["personaroles"]
             /\ y.key = l[2] /\ y.name = n /\ y.clientkey \in Keys(ClientsAsked(id))
BY DEF ByRoles, OnClient

LEMMA DirectlyAre ==
  ASSUME NEW sub, NEW context, NEW id, NEW n
  PROVE  n \in Directly(sub, context, id) <=>
           \E y \in permissions, l \in links["personapermissions"] :
             /\ l[1] \in PersonasAs(sub, context) /\ y.key = l[2] /\ y.name = n
             /\ y.clientkey \in Keys(ClientsAsked(id))
BY DEF Directly, OnClient

\* A row of the query, and what is joined in it.
LEMMA RowExists ==
  ASSUME NEW sub, NEW context, NEW id, NEW x \in roles, NEW y \in permissions,
         NEW pc \in PersonaClients(sub, context, id),
         <<x.key, y.key>> \in links["rolepermissions"], <<pc[1], x.key>> \in links["personaroles"],
         x.clientkey = pc[2], y.clientkey = pc[2]
  PROVE  <<x.name, y.name>> \in RolePermissionRows(sub, context, id)
<1> DEFINE xy == <<x, y>>
<1>1. xy \in roles \X permissions /\ xy[1] = x /\ xy[2] = y
  OBVIOUS
<1> HIDE DEF xy
<1> QED
  BY <1>1 DEF RolePermissionRows

\* The role and the permission a row was joined from.
JoinedRow(sub, context, id, row, x, y) ==
  /\ row = <<x.name, y.name>> /\ <<x.key, y.key>> \in links["rolepermissions"]
  /\ \E pc \in PersonaClients(sub, context, id) :
       /\ <<pc[1], x.key>> \in links["personaroles"]
       /\ x.clientkey = pc[2] /\ y.clientkey = pc[2]

LEMMA RowIs ==
  ASSUME NEW sub, NEW context, NEW id, NEW row \in RolePermissionRows(sub, context, id)
  PROVE  \E x \in roles, y \in permissions : JoinedRow(sub, context, id, row, x, y)
<1>1. PICK xy \in roles \X permissions : JoinedRow(sub, context, id, row, xy[1], xy[2])
  BY DEF RolePermissionRows, JoinedRow
<1>2. xy[1] \in roles /\ xy[2] \in permissions
  OBVIOUS
<1> QED
  BY <1>1, <1>2, Zenon

\* The query of the permissions by roles yields what roles give, and no row more.
LEMMA RowsAreGiven ==
  ASSUME IInv, NEW sub, NEW context, NEW id
  PROVE  {row[2] : row \in RolePermissionRows(sub, context, id)} = ByRoles(sub, context, id)
<1>1. ASSUME NEW row \in RolePermissionRows(sub, context, id)
      PROVE  row[2] \in ByRoles(sub, context, id)
  <2>1. PICK x \in roles, y \in permissions : JoinedRow(sub, context, id, row, x, y)
    BY <1>1, RowIs
  <2> PICK pc \in PersonaClients(sub, context, id) :
        /\ <<pc[1], x.key>> \in links["personaroles"]
        /\ x.clientkey = pc[2] /\ y.clientkey = pc[2]
    BY <2>1 DEF JoinedRow
  <2>2. pc[1] \in PersonasAs(sub, context) /\ y.clientkey \in Keys(ClientsAsked(id))
    BY <2>1, PersonaClientIs
  <2>3. <<x.key, y.key>> \in links["rolepermissions"] /\ row[2] = y.name
    BY <2>1 DEF JoinedRow
  <2>4. PICK l \in links["rolepermissions"] : l[1] = x.key /\ l[2] = y.key
    BY <2>3
  <2> QED
    BY <2>2, <2>3, <2>4, ByRolesAre
<1>2. ASSUME NEW n \in ByRoles(sub, context, id)
      PROVE  \E row \in RolePermissionRows(sub, context, id) : row[2] = n
  <2>1. PICK y \in permissions, l \in links["rolepermissions"] :
          /\ \E p \in PersonasAs(sub, context) : <<p, l[1]>> \in links["personaroles"]
          /\ y.key = l[2] /\ y.name = n /\ y.clientkey \in Keys(ClientsAsked(id))
    BY <1>2, ByRolesAre
  <2> PICK p \in PersonasAs(sub, context) : <<p, l[1]>> \in links["personaroles"]
    BY <2>1
  <2>2. PICK x \in roles : /\ x.key = l[1] /\ x.clientkey = y.clientkey /\ <<x.key, y.key>> = l
                           /\ <<TenantOf[p], y.clientkey>> \in tenantclients
    BY <2>1, RoleLink
  <2>3. PICK pc \in PersonaClients(sub, context, id) : pc[1] = p /\ pc[2] = y.clientkey
    BY <2>1, <2>2, PersonaClientExists
  <2>4. <<x.name, y.name>> \in RolePermissionRows(sub, context, id)
    BY <2>1, <2>2, <2>3, RowExists
  <2>5. <<x.name, y.name>>[2] = n
    BY <2>1
  <2> QED
    BY <2>4, <2>5, Zenon
<1> QED
  BY <1>1, <1>2

\* The roles of its rows are held under the user_context asked for.
LEMMA RowRolesAreHeld ==
  {row[1] : row \in RolePermissionRows(ask.sub, ask.context, ask.id)} \subseteq RolesHeld
<1> SUFFICES ASSUME NEW row \in RolePermissionRows(ask.sub, ask.context, ask.id)
             PROVE  row[1] \in RolesHeld
  OBVIOUS
<1>1. PICK x \in roles, y \in permissions : JoinedRow(ask.sub, ask.context, ask.id, row, x, y)
  BY RowIs
<1> PICK pc \in PersonaClients(ask.sub, ask.context, ask.id) :
      <<pc[1], x.key>> \in links["personaroles"] /\ x.clientkey = pc[2]
  BY <1>1 DEF JoinedRow
<1>2. pc[1] \in PersonasAs(ask.sub, ask.context) /\ x.clientkey \in Keys(ClientsAsked(ask.id))
  BY PersonaClientIs
<1>3. row[1] = x.name
  BY <1>1 DEF JoinedRow
<1> QED
  BY <1>2, <1>3 DEF RolesHeld

\* The query of the direct permissions yields what is given under any user_context.
LEMMA PersonaPermissionsAreGiven ==
  ASSUME IInv, NEW sub, NEW id
  PROVE  PersonaPermissions(sub, id) = Directly(sub, AnyContext, id)
<1>1. ASSUME NEW n \in PersonaPermissions(sub, id) PROVE n \in Directly(sub, AnyContext, id)
  <2>1. PICK y \in permissions, pc \in PersonaClients(sub, AnyContext, id) :
          y.name = n /\ y.clientkey = pc[2] /\ <<pc[1], y.key>> \in links["personapermissions"]
    BY DEF PersonaPermissions
  <2>2. pc[1] \in PersonasAs(sub, AnyContext) /\ y.clientkey \in Keys(ClientsAsked(id))
    BY <2>1, PersonaClientIs
  <2>3. PICK l \in links["personapermissions"] : l[1] = pc[1] /\ l[2] = y.key
    BY <2>1
  <2> QED
    BY <2>1, <2>2, <2>3, DirectlyAre
<1>2. ASSUME NEW n \in Directly(sub, AnyContext, id) PROVE n \in PersonaPermissions(sub, id)
  <2>1. PICK y \in permissions, l \in links["personapermissions"] :
             /\ l[1] \in PersonasAs(sub, AnyContext) /\ y.key = l[2] /\ y.name = n
             /\ y.clientkey \in Keys(ClientsAsked(id))
    BY <1>2, DirectlyAre
  <2>2. <<TenantOf[l[1]], y.clientkey>> \in tenantclients /\ <<l[1], y.key>> = l
    BY <2>1, DirectLink
  <2>3. PICK pc \in PersonaClients(sub, AnyContext, id) : pc[1] = l[1] /\ pc[2] = y.clientkey
    BY <2>1, <2>2, PersonaClientExists
  <2> QED
    BY <2>1, <2>2, <2>3 DEF PersonaPermissions
<1> QED
  BY <1>1, <1>2

-----------------------------------------------------------------------------
(* What one state gives. *)

GivesAreNames ==
  /\ RolesHeld \subseteq Names /\ RolesGive \subseteq Names
  /\ ContextGives \subseteq Names /\ PersonaGives \subseteq Names

LEMMA GivesNames == IInv => GivesAreNames
<1> SUFFICES ASSUME IInv PROVE GivesAreNames
  OBVIOUS
<1>1. RolesHeld \subseteq Names
  BY DEF IInv, TypeOK, RoleRow, RolesHeld
<1>2. RolesGive \subseteq Names /\ ContextGives \subseteq Names /\ PersonaGives \subseteq Names
  BY DEF IInv, TypeOK, PermissionRow, RolesGive, ContextGives, PersonaGives, ByRoles, Directly, OnClient
<1> QED
  BY <1>1, <1>2 DEF GivesAreNames

LEMMA RowsAreNames ==
  ASSUME IInv, NEW sub, NEW context, NEW id
  PROVE  RolePermissionRows(sub, context, id) \subseteq Names \X Names
<1> SUFFICES ASSUME NEW row \in RolePermissionRows(sub, context, id) PROVE row \in Names \X Names
  OBVIOUS
<1>1. PICK x \in roles, y \in permissions : JoinedRow(sub, context, id, row, x, y)
  BY RowIs
<1>2. row = <<x.name, y.name>>
  BY <1>1 DEF JoinedRow
<1>3. x.name \in Names /\ y.name \in Names
  BY DEF IInv, TypeOK, RoleRow, PermissionRow
<1> QED
  BY <1>2, <1>3

\* The authenticator asks whether the subject has a role or a permission on the
\* client; the two queries of the token ask through the same relation to a tenant.
LEMMA HolderIsShown == IInv => HolderIsNotTurnedAway
<1> SUFFICES ASSUME IInv, NEW n,
                    n \in RolesGive \cup ContextGives
             PROVE  ClientsShown(ask.sub, ask.context, ask.id) # {}
  BY DEF HolderIsNotTurnedAway
<1>1. CASE n \in RolesGive
  <2>1. PICK y \in permissions, l \in links["rolepermissions"] :
          /\ \E p \in PersonasAs(ask.sub, ask.context) : <<p, l[1]>> \in links["personaroles"]
          /\ y.key = l[2] /\ y.name = n /\ y.clientkey \in Keys(ClientsAsked(ask.id))
    BY <1>1, ByRolesAre DEF RolesGive
  <2> PICK p \in PersonasAs(ask.sub, ask.context) : <<p, l[1]>> \in links["personaroles"]
    BY <2>1
  <2>2. PICK x \in roles : /\ x.key = l[1] /\ x.clientkey = y.clientkey /\ <<x.key, y.key>> = l
                           /\ <<TenantOf[p], y.clientkey>> \in tenantclients
    BY <2>1, RoleLink
  <2>3. PICK pc \in PersonaClients(ask.sub, ask.context, ask.id) : pc[1] = p /\ pc[2] = y.clientkey
    BY <2>1, <2>2, PersonaClientExists
  <2> QED
    BY <2>2, <2>3 DEF ClientsShown
<1>2. CASE n \in ContextGives
  <2>1. PICK y \in permissions, l \in links["personapermissions"] :
             /\ l[1] \in PersonasAs(ask.sub, ask.context) /\ y.key = l[2] /\ y.name = n
             /\ y.clientkey \in Keys(ClientsAsked(ask.id))
    BY <1>2, DirectlyAre DEF ContextGives
  <2>2. <<TenantOf[l[1]], y.clientkey>> \in tenantclients /\ <<l[1], y.key>> = l
    BY <2>1, DirectLink
  <2>3. PICK pc \in PersonaClients(ask.sub, ask.context, ask.id) : pc[1] = l[1] /\ pc[2] = y.clientkey
    BY <2>1, <2>2, PersonaClientExists
  <2> QED
    BY <2>2, <2>3 DEF ClientsShown
<1> QED
  BY <1>1, <1>2

-----------------------------------------------------------------------------
(* Steps. *)

\* A rejected query counts as a failure and leaves the tables alone.
LEMMA FaultStep == ASSUME IInv, UNCHANGED <<tables, req>>, faults' \in Nat PROVE IInv'
<1>1. TypeOK'
  BY DEF tables, IInv, TypeOK
<1>2. TableInv'
  BY DEF IInv, TableInv, KeysIdentify, RowsDrawn, NothingOutlivesItsClient, LinksRespectScope, Keys, tables
<1>3. Evolve
  BY DEF Evolve, tables
<1>4. req' = [p \in Requests |-> req[p]] /\ \A p \in Requests : Fit(req[p])
  BY DEF IInv, TypeOK, RequestInv, Fit
<1>5. RequestInv'
  BY <1>3, <1>4, RequestsKept DEF IInv, TableInv
<1> QED
  BY <1>1, <1>2, <1>5 DEF IInv

LEMMA CatalogueStep == IInv /\ [ENext]_evars => IInv'
<1> SUFFICES ASSUME IInv, [ENext]_evars PROVE IInv'
  OBVIOUS
<1>1. CASE QueryFails
  BY <1>1, FaultStep DEF QueryFails, IInv, TypeOK
<1>2. CASE Administer \/ CrashAll
  BY <1>2, NextStep DEF Administer, CrashAll, Next
<1>3. CASE UNCHANGED cvars
  BY <1>3, NextStep
<1> QED
  BY <1>1, <1>2, <1>3 DEF ENext, AskToken, Authenticate, ReadRoles, ReadPermissions, evars

GivesUnchanged ==
  /\ RolesHeld' = RolesHeld /\ RolesGive' = RolesGive
  /\ ContextGives' = ContextGives /\ PersonaGives' = PersonaGives

\* A step that changes no table changes nothing of what they give.
LEMMA GivesKept ==
  ASSUME UNCHANGED tables, UNCHANGED ask
  PROVE  GivesUnchanged
BY DEF GivesUnchanged, tables, RolesHeld, RolesGive, ContextGives, PersonaGives, ByRoles, Directly, OnClient, PersonasAs, ClientsAsked, Keys

LEMMA AskTokenStep == ASSUME EInv, AskToken PROVE EInv'
<1>1. IInv' /\ UNCHANGED <<tables, ask>>
  BY CatalogueStep DEF EInv, AskToken, ENext, cvars
<1>2. GivesUnchanged
  BY <1>1, GivesKept
<1>3. /\ RolesHeld \subseteq Names /\ RolesGive \subseteq Names
      /\ ContextGives \subseteq Names /\ PersonaGives \subseteq Names
  BY GivesNames DEF EInv, GivesAreNames
<1>4. ETypeOK'
  BY <1>1, <1>3 DEF AskToken, EInv, ETypeOK, Token, Given, TokenAwaits
<1>5. /\ token'.pc \in {"authenticate", "roles"} /\ token'.status = token.status /\ token.status # 200
      /\ given' = [roles |-> RolesHeld, ever |-> RolesGive \cup ContextGives,
                   elsewhere |-> PersonaGives, byRoles |-> RolesGive,
                   directly |-> PersonaGives, throughout |-> RolesGive \cup PersonaGives]
  BY DEF AskToken, EInv, ETypeOK, Token, ReadsBracketed
<1>6. ReadsBracketed'
  BY <1>2, <1>5 DEF GivesUnchanged, ReadsBracketed
<1>7. IssuedWasGiven' /\ HeldThroughoutIsIssued'
  BY <1>5 DEF IssuedWasGiven, HeldThroughoutIsIssued
<1> QED
  BY <1>1, <1>4, <1>6, <1>7 DEF EInv

\* Where a request may end.
LEMMA DoneIs ==
  ASSUME token \in Token, NEW status \in Nat
  PROVE  /\ [token EXCEPT !.pc = "done", !.status = status] \in Token
         /\ [token EXCEPT !.pc = "done", !.status = status].pc = "done"
         /\ [token EXCEPT !.pc = "done", !.status = status].status = status
BY DEF Token

LEMMA UnansweredIs ==
  ASSUME token \in Token
  PROVE  /\ [token EXCEPT !.pc = "unanswered"] \in Token
         /\ [token EXCEPT !.pc = "unanswered"].pc = "unanswered"
         /\ [token EXCEPT !.pc = "unanswered"].status = token.status
BY DEF Token

LEMMA AuthenticateStep == ASSUME EInv, Authenticate PROVE EInv'
<1>1. IInv' /\ UNCHANGED <<tables, ask, given>>
  BY CatalogueStep DEF EInv, Authenticate, ENext, cvars
<1>2. GivesUnchanged
  BY <1>1, GivesKept
<1>3. ETypeOK'
  <2>1. token \in Token /\ [token EXCEPT !.pc = "roles"] \in Token
    BY DEF EInv, ETypeOK, Token, TokenAwaits
  <2> QED
    <3> DEFINE t == [token EXCEPT !.pc = "done", !.status = 401]
    <3>1. 401 \in Nat
      OBVIOUS
    <3>2. t \in Token
      BY <2>1, <3>1, DoneIs, Zenon
    <3>3. token' = t \/ token' = [token EXCEPT !.pc = "roles"]
      BY DEF Authenticate
    <3> HIDE DEF t
    <3> QED
      BY <1>1, <2>1, <3>2, <3>3 DEF EInv, ETypeOK
<1>4. /\ token.pc = "authenticate" /\ token.status # 200
      /\ token'.pc \in {"done", "roles"} /\ token'.status # 200
  BY DEF Authenticate, EInv, ETypeOK, Token, ReadsBracketed
<1>5. ReadsBracketed'
  BY <1>1, <1>2, <1>4 DEF GivesUnchanged, EInv, ReadsBracketed, TokenAwaits
<1>6. IssuedWasGiven' /\ HeldThroughoutIsIssued'
  BY <1>4 DEF IssuedWasGiven, HeldThroughoutIsIssued
<1> QED
  BY <1>1, <1>3, <1>5, <1>6 DEF EInv

LEMMA ReadRolesStep == ASSUME EInv, ReadRoles PROVE EInv'
<1> DEFINE rows == RolePermissionRows(ask.sub, ask.context, ask.id)
<1>1. IInv' /\ UNCHANGED <<tables, ask, given>>
  BY CatalogueStep DEF EInv, ReadRoles, ENext, cvars
<1>2. GivesUnchanged
  BY <1>1, GivesKept
<1>3. rows \subseteq Names \X Names
  BY RowsAreNames DEF EInv
<1>4. {row[2] : row \in rows} = RolesGive /\ {row[1] : row \in rows} \subseteq RolesHeld
  BY RowsAreGiven, RowRolesAreHeld DEF EInv, RolesGive
<1> HIDE DEF rows
<1>5. token.pc = "roles" /\ token' = [token EXCEPT !.pc = "permissions", !.rows = rows]
  BY DEF ReadRoles, rows
<1>6. ETypeOK'
  BY <1>1, <1>3, <1>5 DEF EInv, ETypeOK, Token, TokenAwaits
<1>7. token'.pc = "permissions" /\ token'.rows = rows /\ token'.status # 200
  BY <1>5 DEF EInv, ETypeOK, Token, ReadsBracketed
<1>8. RowNames' = RolesGive /\ RowRoles' \subseteq RolesHeld
  BY <1>4, <1>7 DEF RowNames, RowRoles
<1>9. ReadsBracketed'
  BY <1>1, <1>2, <1>5, <1>7, <1>8 DEF GivesUnchanged, EInv, ReadsBracketed, TokenAwaits
<1>10. IssuedWasGiven' /\ HeldThroughoutIsIssued'
  BY <1>7 DEF IssuedWasGiven, HeldThroughoutIsIssued
<1> QED
  BY <1>1, <1>6, <1>9, <1>10 DEF EInv

\* The token is the union of what was read then and now: within what was given at
\* one of the two moments, and no less than what was given by a route at both.
LEMMA ReadPermissionsStep == ASSUME EInv, ReadPermissions PROVE EInv'
<1> DEFINE issued == Scoped(token.rows, PersonaPermissions(ask.sub, ask.id))
           rolesOf == {row[1] : row \in {row \in token.rows : row[2] \in issued}}
<1>1. IInv' /\ UNCHANGED <<tables, ask, given>>
  BY CatalogueStep DEF EInv, ReadPermissions, ENext, cvars
<1>2. PersonaPermissions(ask.sub, ask.id) = PersonaGives
  BY PersonaPermissionsAreGiven DEF EInv, PersonaGives
<1>3. issued = (RowNames \cup PersonaGives) \cap ask.scope
  BY <1>2 DEF Scoped, RowNames
<1>4. token.rows \subseteq Names \X Names /\ ask.scope \subseteq Names /\ token \in Token
  BY DEF EInv, ETypeOK, Token, Asks
<1>5. rolesOf \subseteq Names /\ rolesOf \subseteq RowRoles /\ issued \subseteq Names
  BY <1>3, <1>4 DEF RowRoles
<1> HIDE DEF issued, rolesOf
<1>6. /\ token.pc = "permissions"
      /\ token' = [token EXCEPT !.pc = "done", !.status = 200, !.permissions = issued, !.roles = rolesOf]
  BY DEF ReadPermissions, issued, rolesOf
<1>7. ETypeOK'
  BY <1>1, <1>4, <1>5, <1>6 DEF EInv, ETypeOK, Token
<1>8. token'.pc = "done" /\ token'.permissions = issued /\ token'.roles = rolesOf
  BY <1>4, <1>6 DEF Token
<1>9. ReadsBracketed'
  BY <1>8 DEF ReadsBracketed, TokenAwaits
<1>10. /\ RowRoles \subseteq given.roles /\ RowNames \subseteq given.ever
       /\ PersonaGives \subseteq given.elsewhere
       /\ given.byRoles \cup given.directly \subseteq RowNames \cup PersonaGives
  BY <1>6 DEF EInv, ReadsBracketed, TokenAwaits
<1>11. IssuedWasGiven' /\ HeldThroughoutIsIssued'
  BY <1>1, <1>3, <1>5, <1>8, <1>10 DEF IssuedWasGiven, HeldThroughoutIsIssued
<1> QED
  BY <1>1, <1>7, <1>9, <1>11 DEF EInv

\* A request that fails, or goes down with the process, leaves no token.
LEMMA TokenFails ==
  ASSUME EInv, IInv', UNCHANGED <<tables, ask, given>>, token' \in Token,
         token'.pc \in {"unanswered", "done"}, token'.status # 200
  PROVE  EInv'
<1>1. ETypeOK'
  BY DEF EInv, ETypeOK
<1>2. ReadsBracketed' /\ IssuedWasGiven' /\ HeldThroughoutIsIssued'
  BY DEF ReadsBracketed, TokenAwaits, IssuedWasGiven, HeldThroughoutIsIssued
<1> QED
  BY <1>1, <1>2 DEF EInv

LEMMA QueryFailsStep == ASSUME EInv, QueryFails PROVE EInv'
<1>1. IInv' /\ UNCHANGED <<tables, ask, given>>
  BY CatalogueStep DEF EInv, QueryFails, ENext
<1>2. token \in Token /\ token.pc # "done" /\ token.status # 200
  BY DEF QueryFails, TokenAwaits, EInv, ETypeOK, ReadsBracketed
<1>3. CASE ask.op = "refresh"
  <2>1. token' = [token EXCEPT !.pc = "unanswered"]
    BY <1>3 DEF QueryFails
  <2> QED
    BY <1>1, <1>2, <2>1, UnansweredIs, TokenFails
<1>4. CASE ask.op # "refresh"
  <2>1. PICK status \in {401, 500} : token' = [token EXCEPT !.pc = "done", !.status = status]
    BY <1>4 DEF QueryFails
  <2> QED
    <3> DEFINE t == [token EXCEPT !.pc = "done", !.status = status]
    <3>1. status \in Nat /\ status # 200
      BY <2>1
    <3>2. t \in Token /\ t.pc = "done" /\ t.status = status
      BY <1>2, <3>1 DEF Token
    <3> HIDE DEF t
    <3> QED
      BY <1>1, <2>1, <3>1, <3>2, TokenFails DEF t
<1> QED
  BY <1>3, <1>4

LEMMA CrashAllStep == ASSUME EInv, CrashAll PROVE EInv'
<1>1. IInv' /\ UNCHANGED <<tables, ask, given>>
  BY CatalogueStep DEF EInv, CrashAll, Crash, ENext
<1>2. CASE token.pc \in TokenAwaits
  <2>1. token \in Token /\ token.status # 200 /\ token' = [token EXCEPT !.pc = "unanswered"]
    BY <1>2 DEF CrashAll, TokenAwaits, EInv, ETypeOK, ReadsBracketed
  <2> QED
    BY <1>1, <2>1, UnansweredIs, TokenFails
<1>3. CASE token.pc \notin TokenAwaits
  <2>1. UNCHANGED token
    BY <1>3 DEF CrashAll
  <2>2. ETypeOK'
    BY <1>1, <2>1 DEF EInv, ETypeOK
  <2>3. ReadsBracketed' /\ IssuedWasGiven' /\ HeldThroughoutIsIssued'
    BY <1>1, <1>3, <2>1 DEF EInv, ReadsBracketed, TokenAwaits, IssuedWasGiven, HeldThroughoutIsIssued
  <2> QED
    BY <1>1, <2>2, <2>3 DEF EInv
<1> QED
  BY <1>2, <1>3

\* An administrator's step: the history is brought up to what the tables give now.
LEMMA AdministerStep == ASSUME EInv, Administer PROVE EInv'
<1>1. IInv' /\ UNCHANGED <<ask, token>>
  BY CatalogueStep DEF EInv, Administer, ENext
<1>2. /\ RolesHeld' \subseteq Names /\ RolesGive' \subseteq Names
      /\ ContextGives' \subseteq Names /\ PersonaGives' \subseteq Names
  <2>1. GivesAreNames'
    BY <1>1, GivesNames, PTL
  <2> QED
    BY <2>1 DEF GivesAreNames
<1>3. CASE token.pc \in TokenAwaits
  <2>1. given' = [roles |-> given.roles \cup RolesHeld',
                  ever |-> given.ever \cup RolesGive' \cup ContextGives',
                  elsewhere |-> given.elsewhere \cup PersonaGives',
                  byRoles |-> given.byRoles \cap RolesGive',
                  directly |-> given.directly \cap PersonaGives',
                  throughout |-> given.throughout \cap (RolesGive' \cup PersonaGives')]
    BY <1>3 DEF Administer
  <2>2. ETypeOK'
    BY <1>1, <1>2, <2>1 DEF EInv, ETypeOK, Given
  <2>3. /\ given'.roles = given.roles \cup RolesHeld'
        /\ given'.ever = given.ever \cup RolesGive' \cup ContextGives'
        /\ given'.elsewhere = given.elsewhere \cup PersonaGives'
        /\ given'.byRoles = given.byRoles \cap RolesGive'
        /\ given'.directly = given.directly \cap PersonaGives'
    BY <2>1
  <2>4. RowNames' = RowNames /\ RowRoles' = RowRoles
    BY <1>1 DEF RowNames, RowRoles
  <2>5. ReadsBracketed'
    BY <1>1, <1>3, <2>3, <2>4 DEF EInv, ReadsBracketed
  <2>6. token'.status # 200
    BY <1>1, <1>3 DEF EInv, ReadsBracketed, TokenAwaits
  <2>7. IssuedWasGiven' /\ HeldThroughoutIsIssued'
    BY <2>6 DEF IssuedWasGiven, HeldThroughoutIsIssued
  <2> QED
    BY <1>1, <2>2, <2>5, <2>7 DEF EInv
<1>4. CASE token.pc \notin TokenAwaits
  <2>1. UNCHANGED given
    BY <1>4 DEF Administer
  <2>2. ETypeOK'
    BY <1>1, <2>1 DEF EInv, ETypeOK
  <2>3. ReadsBracketed' /\ IssuedWasGiven' /\ HeldThroughoutIsIssued'
    BY <1>1, <1>4, <2>1 DEF EInv, ReadsBracketed, TokenAwaits, IssuedWasGiven, HeldThroughoutIsIssued
  <2> QED
    BY <1>1, <2>2, <2>3 DEF EInv
<1> QED
  BY <1>3, <1>4

-----------------------------------------------------------------------------
(* The inductive invariant. *)

LEMMA EInitInv == EInit => EInv
<1> SUFFICES ASSUME EInit PROVE EInv
  OBVIOUS
<1>1. IInv
  BY InitInv DEF EInit
<1>2. ETypeOK
  BY DEF EInit, ETypeOK, Waiting, Token, Given
<1>3. token.pc = "idle" /\ token.status = 0
  BY DEF EInit, Waiting
<1> QED
  BY <1>1, <1>2, <1>3 DEF EInv, ReadsBracketed, TokenAwaits, IssuedWasGiven, HeldThroughoutIsIssued

LEMMA ENextStep == EInv /\ [ENext]_evars => EInv'
<1> SUFFICES ASSUME EInv, [ENext]_evars PROVE EInv'
  OBVIOUS
<1>1. CASE ENext
  BY <1>1, AskTokenStep, AuthenticateStep, ReadRolesStep, ReadPermissionsStep, QueryFailsStep,
     AdministerStep, CrashAllStep DEF ENext
<1>2. CASE UNCHANGED evars
  <2>1. IInv' /\ UNCHANGED <<tables, ask, token, given>>
    BY <1>2, CatalogueStep DEF EInv, evars, cvars
  <2>2. GivesUnchanged /\ RowNames' = RowNames /\ RowRoles' = RowRoles
    BY <2>1, GivesKept DEF RowNames, RowRoles
  <2>3. ReadsBracketed'
    BY <2>1, <2>2 DEF GivesUnchanged, EInv, ReadsBracketed
  <2> QED
    BY <2>1, <2>3 DEF EInv, ETypeOK, IssuedWasGiven, HeldThroughoutIsIssued
<1> QED
  BY <1>1, <1>2

\* Every reachable state satisfies the invariant.
THEOREM TokenInductive == ESpec => []EInv
BY EInitInv, ENextStep, PTL DEF ESpec

\* Every variable of the token request has its type.
THEOREM TokenTypes == ESpec => []ETypeOK
<1>1. EInv => ETypeOK
  BY DEF EInv
<1> QED
  BY <1>1, TokenInductive, PTL

\* However administrators act between the queries, a token lists only roles its subject
\* held on the clients and under the user_context asked for since the request came, and
\* carries only permissions asked for that were given under that user_context or,
\* directly, to another persona of the same sub_claim.
THEOREM TokenWasGiven == ESpec => []IssuedWasGiven
<1>1. EInv => IssuedWasGiven
  BY DEF EInv
<1> QED
  BY <1>1, TokenInductive, PTL

\* A permission given by one route throughout the request is issued if asked for: by
\* roles under the user_context asked for, directly under any.
THEOREM TokenHasWhatWasHeld == ESpec => []HeldThroughoutIsIssued
<1>1. EInv => HeldThroughoutIsIssued
  BY DEF EInv
<1> QED
  BY <1>1, TokenInductive, PTL

\* Nobody to whom something on the client is given is turned away.
THEOREM HoldersEnter == ESpec => []HolderIsNotTurnedAway
<1>1. EInv => HolderIsNotTurnedAway
  BY HolderIsShown DEF EInv
<1> QED
  BY <1>1, TokenInductive, PTL

\* What a subject is shown of itself never exceeds what it was given, and shows every
\* role a token would list, whatever the tables hold.
LEMMA ViewsAgree == SelfViewsAgree
<1>1. ASSUME NEW n, n \in SelfPermissions(ask.sub, ask.context, ask.id)
      PROVE  n \in RolesGive \cup ContextGives
  <2>1. PICK y \in permissions :
          /\ y.name = n
          /\ \E pc \in PersonaClients(ask.sub, ask.context, ask.id) :
               \E x \in roles :
                 /\ x.clientkey = pc[2] /\ <<pc[1], x.key>> \in links["personaroles"]
                 /\ \E l \in links["rolepermissions"], m \in links["personapermissions"] :
                      l[1] = x.key /\ m[1] = pc[1] /\ y.key \in {l[2], m[2]}
                 /\ y.clientkey = pc[2]
    BY <1>1 DEF SelfPermissions
  <2> PICK pc \in PersonaClients(ask.sub, ask.context, ask.id), x \in roles :
        /\ <<pc[1], x.key>> \in links["personaroles"] /\ y.clientkey = pc[2]
        /\ \E l \in links["rolepermissions"], m \in links["personapermissions"] :
             l[1] = x.key /\ m[1] = pc[1] /\ y.key \in {l[2], m[2]}
    BY <2>1
  <2>2. pc[1] \in PersonasAs(ask.sub, ask.context) /\ y.clientkey \in Keys(ClientsAsked(ask.id))
    BY <2>1, PersonaClientIs
  <2>3. PICK l \in links["rolepermissions"], m \in links["personapermissions"] :
          <<pc[1], l[1]>> \in links["personaroles"] /\ m[1] = pc[1] /\ y.key \in {l[2], m[2]}
    BY <2>1
  <2>4. CASE y.key = l[2]
    <3>1. n \in ByRoles(ask.sub, ask.context, ask.id)
      BY <2>1, <2>2, <2>3, <2>4, ByRolesAre
    <3> QED
      BY <3>1 DEF RolesGive
  <2>5. CASE y.key = m[2]
    <3>1. n \in Directly(ask.sub, ask.context, ask.id)
      BY <2>1, <2>2, <2>3, <2>5, DirectlyAre
    <3> QED
      BY <3>1 DEF ContextGives
  <2> QED
    BY <2>3, <2>4, <2>5
<1>2. ASSUME NEW row \in RolePermissionRows(ask.sub, ask.context, ask.id)
      PROVE  row[1] \in SelfRoles(ask.sub, ask.context, ask.id)
  <2>1. PICK x \in roles, y \in permissions : JoinedRow(ask.sub, ask.context, ask.id, row, x, y)
    BY <1>2, RowIs
  <2>2. /\ row[1] = x.name
        /\ \E pc \in PersonaClients(ask.sub, ask.context, ask.id) :
             <<pc[1], x.key>> \in links["personaroles"] /\ x.clientkey = pc[2]
    BY <2>1 DEF JoinedRow
  <2> QED
    BY <2>2 DEF SelfRoles
<1> QED
  BY <1>1, <1>2 DEF SelfViewsAgree

\* /self/roles and /self/permissions never disagree with what a token would carry.
THEOREM SelfViews == ESpec => []SelfViewsAgree
BY ViewsAgree, PTL
-----------------------------------------------------------------------------
(* Tokens leave the assignments as the administration API keeps them. *)

LEMMA TokenStepImplements ==
  IInv /\ ClientIdsIdentify /\ [ENext]_evars => ClientIdsIdentify' /\ [Abstract!Next]_Abstract!vars
<1> SUFFICES ASSUME IInv, ClientIdsIdentify, [ENext]_evars
             PROVE  ClientIdsIdentify' /\ [Abstract!Next]_Abstract!vars
  OBVIOUS
<1>1. CASE Administer \/ CrashAll
  BY <1>1, IdsIdentifyStep, StepImplements DEF Administer, CrashAll, Next
<1>2. CASE UNCHANGED tables
  BY <1>2, UnseenTables DEF tables, ClientIdsIdentify
<1> QED
  BY <1>1, <1>2
     DEF ENext, AskToken, Authenticate, ReadRoles, ReadPermissions, QueryFails, evars, cvars

\* The token endpoint, whose queries run among the statements of administrators, does
\* nothing that would break their promise.
THEOREM TokensImplementAssignments == ESpec => ImplementsAssignments
<1>1. EInit => Abstract!Init /\ ClientIdsIdentify
  BY InitIsSeen DEF EInit, Init, ClientIdsIdentify
<1>2. EInv => IInv
  BY DEF EInv
<1> QED
  BY <1>1, <1>2, TokenStepImplements, TokenInductive, PTL
     DEF ESpec, ImplementsAssignments, Abstract!Spec
=============================================================================
