--------------------------- MODULE MCEntitlements ---------------------------
(* Small instances of Entitlements for TLC. *)
EXTENDS Entitlements, TLC

CONSTANTS r1, t1, t2, c1, c2, x1, y1, y2, p1, p2, a, b, n1, n2, ann, bob, home, work

\* ann at home and at work, in one tenant.
TwoContexts == p1 :> [sub |-> ann, context |-> home] @@ p2 :> [sub |-> ann, context |-> work]
OneTenant == p1 :> t1 @@ p2 :> t1

\* ann and bob in two tenants.
TwoSubjects == p1 :> [sub |-> ann, context |-> home] @@ p2 :> [sub |-> bob, context |-> home]
TwoTenants == p1 :> t1 @@ p2 :> t2

OnlyAnn == p1 :> [sub |-> ann, context |-> home]
OnlyTenant == p1 :> t1

\* No action and no property of the run that uses this view tells apart what a
\* connection that waits for nothing has served last and how that was answered, what
\* was given throughout by either route, nor, below MaxFaults, how many faults there were:
\* MaxFaults is more than a behaviour without a cycle can have.  Once the request for a token
\* has ended, what matters of it is whether what was issued was as it should be.
View == <<tables, [r \in Requests |-> IF req[r].pc \in Awaits THEN req[r] ELSE Idle], ask,
          IF token.pc \in TokenAwaits \cup {"idle"}
            THEN <<token, [given EXCEPT !.throughout = {}]>>
            ELSE <<token.status, IssuedWasGiven, HeldThroughoutIsIssued>> >>

\* TwoContexts is the same with its personas and their user_contexts exchanged.
ContextSymmetry ==
  {p1 :> p2 @@ p2 :> p1 @@ home :> work @@ work :> home} \cup Permutations(ClientIds)

KeySymmetry == Permutations(PermissionKeys)
=============================================================================
