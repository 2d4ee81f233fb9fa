--------------------------- MODULE MCAdminLibrary ---------------------------
(* Small instances of AdminLibrary for TLC. *)
EXTENDS AdminLibrary, TLC

CONSTANTS t1, a, b, role, perm, group, s1, ctx, other, c1

\* Only the names of clients and contexts are compared, with each other.
NameSymmetry == Permutations({a, b}) \cup Permutations({ctx, other})

MCMaxKey == [tenants |-> 1, clients |-> 2, roles |-> 2, permissions |-> 1, personas |-> 1, groups |-> 1]
=============================================================================
