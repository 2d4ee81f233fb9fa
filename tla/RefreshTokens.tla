---------------------------- MODULE RefreshTokens ----------------------------
(***************************************************************************)
(* What the session endpoints promise about refresh tokens, without saying *)
(* how: a token is bound to one persona when it comes into being, a        *)
(* persona has at most one good token, a token that was withdrawn never    *)
(* becomes good again, a client is only given a token of its own subject,  *)
(* and a refresh is granted only if its token was good at some moment      *)
(* while the refresh was being served.                                     *)
(***************************************************************************)
CONSTANTS Tokens, Personas, Subjects, SubjectOf, SubOf, Clients

VARIABLES
  bound,      \* the good tokens: pairs of a token and its persona
  withdrawn,  \* tokens that were good once
  held,       \* pairs of a subject and a token it was given
  checked,    \* pairs of a refresh in progress and the sub its token stands for
  granted     \* refreshes answered with an access token, with the sub it is for

vars == <<bound, withdrawn, held, checked, granted>>

Good == {b[1] : b \in bound}

Init == /\ bound = {} /\ withdrawn = {} /\ held = {}
        /\ checked = {} /\ granted = {}

Bind(t, k) ==
  /\ t \notin Good \cup withdrawn
  /\ \A b \in bound : b[2] # k
  /\ bound' = bound \cup {<<t, k>>}
  /\ UNCHANGED <<withdrawn, held, checked, granted>>

Withdraw(b) ==
  /\ b \in bound
  /\ bound' = bound \ {b}
  /\ withdrawn' = withdrawn \cup {b[1]}
  /\ checked' \in SUBSET checked
  /\ UNCHANGED <<held, granted>>

\* A token withdrawn while the login was being served may still be given out.
Give(subject, t) ==
  /\ \/ t \in withdrawn
     \/ \E k \in Personas : <<t, k>> \in bound /\ SubjectOf[k] = subject
  /\ held' = held \cup {<<subject, t>>}
  /\ UNCHANGED <<bound, withdrawn, checked, granted>>

Check(c, subject) ==
  /\ \A x \in checked : x[1] # c
  /\ \E b \in bound : SubjectOf[b[2]] = subject /\ <<subject, b[1]>> \in held
  /\ checked' = checked \cup {<<c, SubOf[subject]>>}
  /\ UNCHANGED <<bound, withdrawn, held, granted>>

\* Refreshes that found their token good may still come to nothing: the session
\* turns out to be expired (which also withdraws it), or the process stops.
Drop ==
  /\ checked' \in SUBSET checked
  /\ UNCHANGED <<bound, withdrawn, held, granted>>

Grant(x) ==
  /\ x \in checked
  /\ granted' = granted \cup {x}
  /\ UNCHANGED <<bound, withdrawn, held, checked>>

Next ==
  \/ \E t \in Tokens, k \in Personas : Bind(t, k)
  \/ \E b \in bound : Withdraw(b)
  \/ \E subject \in Subjects, t \in Tokens : Give(subject, t)
  \/ \E c \in Clients, subject \in Subjects : Check(c, subject)
  \/ \E x \in checked : Grant(x)
  \/ Drop

Spec == Init /\ [][Next]_vars
=============================================================================
