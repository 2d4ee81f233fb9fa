---------------------------- MODULE MCCatalogue ----------------------------
(* Small instances of Catalogue for TLC. *)
EXTENDS CatalogueRefinement, TLC

CONSTANTS r1, r2, r3, t1, t2, c1, c2, x1, x2, y1, y2, p1, p2, a, b, n1, ann, bob

OneTenant == p1 :> t1
OneAnn == p1 :> ann

\* No action and no property tells apart what a connection that waits for nothing has
\* served last, and how that was answered.
View == <<tables, faults, [r \in Requests |-> IF req[r].pc \in Awaits THEN req[r] ELSE Idle]>>

Symmetry == Permutations(Requests) \cup Permutations(ClientKeys)
              \cup Permutations(ClientIds) \cup Permutations(RoleKeys) \cup Permutations(PermissionKeys)
=============================================================================
