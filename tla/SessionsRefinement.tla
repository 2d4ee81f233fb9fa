------------------------- MODULE SessionsRefinement -------------------------
(* Sessions implements RefreshTokens. *)
EXTENDS Sessions

\* A token is good while a row of `sessions' carries it.
BoundTokens == {<<s.event_id, s.personakey>> : s \in sessions}

\* The tokens 200 answers of /self/token carried, with the subject logged in.
HeldTokens ==
  {<<req[r].subject, req[r].event>> : r \in {q \in Requests : Granted(q)}}

\* The refreshes whose row was found, with the sub claim of its idp_token.
CheckedRefreshes ==
  {<<r, req[r].row.idp_token.sub>> :
     r \in {q \in Requests : req[q].op = "refresh" /\ req[q].row # None}}

GrantedRefreshes ==
  {<<r, req[r].sub>> : r \in {q \in Requests : Refreshed(q)}}

Abstract == INSTANCE RefreshTokens WITH
  Tokens <- Requests, Personas <- PersonaKeys, Clients <- Requests,
  bound <- BoundTokens, withdrawn <- revoked, held <- HeldTokens,
  checked <- CheckedRefreshes, granted <- GrantedRefreshes

\* The handlers, interleaved statement by statement, with failures, restarts and
\* persona administration, keep the promise the session endpoints make.
ImplementsRefreshTokens == Abstract!Spec
=============================================================================
