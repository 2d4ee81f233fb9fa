--------------------------- MODULE MCAuthenticator ---------------------------
(* A small instance of Authenticator for TLC. *)
EXTENDS Authenticator, TLC

CONSTANTS r1, r2, iss, alias, other, t1, t2, t3, u1, u2, k1, k2, ann, bob, p1, p2, usher, app,
          usherAdmin, appUsherAdmin, appClientAdmin, suffixUsherAdmin, suffixClientAdmin

\* alias names iss.  t3 is another tenant of iss, with the JWKS of t2.
MCAliasOf == iss :> iss @@ alias :> iss @@ other :> other
MCIssOf == t1 :> iss @@ t2 :> other @@ t3 :> iss
MCUriOf == t1 :> u1 @@ t2 :> u2 @@ t3 :> u2

MCSubOf == p1 :> ann @@ p2 :> bob

MCSuffixOf == usherAdmin :> suffixUsherAdmin @@ appUsherAdmin :> suffixUsherAdmin
                @@ appClientAdmin :> suffixClientAdmin

TokenOf(i, sub, kid, signer, aud) == [iss |-> i, sub |-> sub, kid |-> kid, signer |-> signer, aud |-> aud]
CallOf(op, token, client) == [op |-> op, token |-> token, client |-> client]
MCCalls == {CallOf("admin", TokenOf(alias, ann, k1, k1, TRUE), AnyClient),
            CallOf("clientadmin", TokenOf(alias, ann, k2, k2, TRUE), app),
            CallOf("admin", TokenOf(other, bob, k2, k2, TRUE), app),
            CallOf("admin", TokenOf(iss, ann, k1, k1, TRUE), AnyClient),
            CallOf("admin", TokenOf(other, bob, k2, k2, FALSE), AnyClient),
            CallOf("admin", TokenOf(other, bob, k2, None, TRUE), AnyClient)}

RowOf(p, id, name) == [persona |-> p, client |-> id, name |-> name]
MCAssignable == {RowOf(p1, usher, usherAdmin)}

\* u1 withdraws k1, or takes k2 up too.
MCChanging == {<<u1, k1>>, <<u1, k2>>}

MCInstalled == [view |-> {RowOf(p1, usher, usherAdmin), RowOf(p1, app, appClientAdmin), RowOf(p2, app, appUsherAdmin)},
                tenants |-> {t1, t2}, published |-> u1 :> {k1} @@ u2 :> {k2}]

\* No action and no property tells apart how a request ended, nor, below MaxFaults, how
\* many faults there were: MaxFaults is more than a behaviour without a cycle can have.
MCView == <<db, idp, clients, could, must,
            [r \in Requests |-> IF req[r].pc \in InFlight THEN req[r] ELSE Idle]>>

MCSymmetry == Permutations(Requests)
=============================================================================
