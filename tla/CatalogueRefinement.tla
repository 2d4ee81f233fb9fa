------------------------- MODULE CatalogueRefinement -------------------------
(* Catalogue implements Assignments. *)
EXTENDS Catalogue

\* What a table says of the keys of its rows: names and client_ids are left out.
ClientOf(table) == {<<x.key, x.clientkey>> : x \in table}

Abstract == INSTANCE Assignments WITH
  Clients <- ClientKeys, Roles <- RoleKeys, Permissions <- PermissionKeys,
  Personas <- PersonaKeys,
  clients <- Keys(clients), serves <- tenantclients, roles <- ClientOf(roles),
  permissions <- ClientOf(permissions), known <- drawn

\* The handlers, each validating with one statement what another inserts, with
\* deletions, failures and crashes in between, make every assignment as if they
\* validated and inserted it in one step, and never bring back what was deleted.
ImplementsAssignments == Abstract!Spec
=============================================================================
