----------------------------- MODULE MCSessions -----------------------------
(* Small instances of Sessions for TLC. *)
EXTENDS SessionsRefinement, TLC

CONSTANTS r1, r2, r3, p1, p2, p3, t1, t2, ann, bob, a, b

\* Two tenants registered with the same iss_claim: ann has a persona in each, and
\* bob one in the first.  Any of them may be deleted.
AnnTwiceAndBob == p1 :> ann @@ p2 :> ann @@ p3 :> bob
SharedIssuer == p1 :> t1 @@ p2 :> t2 @@ p3 :> t1

SubsOfBoth == ann :> a @@ bob :> b
SubOfAnn == ann :> a

\* One persona for ann, never created again.
OneAnn == p1 :> ann
OneT == p1 :> t1

RequestSymmetry == Permutations(Requests)

\* The personas of ann differ in their tenants only, which no state holds and Next compares
\* with those of the same subject.
LoginSymmetry == RequestSymmetry \cup Permutations({p1, p2})

\* A server west of Greenwich.
West == -1
=============================================================================
