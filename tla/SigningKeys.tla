---------------------------- MODULE SigningKeys ----------------------------
(***************************************************************************)
(* The keys The Usher signs access tokens with.  Several instances share    *)
(* the table `keys': each seeds it when it starts and finds it empty, signs *)
(* with the latest row and publishes all of them.  No insert is awaited: the *)
(* handler has answered, and the process may have stopped, before the        *)
(* database has run it, and nobody handles its rejection.                    *)
(***************************************************************************)
EXTENDS Naturals, FiniteSets

CONSTANTS
  Instances,        \* processes of the server on one database
  SkipKeysCheck,    \* those started with SKIP_KEYS_CHECK=true
  Requests,         \* connections, each serving one request at a time
  MaxTime,          \* bound on the clock, in milliseconds
  MaxCalls,         \* bound on calls of generateNewKeys and deleteKey
  MaxFaults,        \* bound on failing statements and crashes
  None

ASSUME InstancesAssumption == SkipKeysCheck \subseteq Instances /\ None \notin Instances
ASSUME BoundsAssumption == MaxTime \in Nat /\ MaxCalls \in Nat /\ MaxFaults \in Nat

VARIABLES
  keys,         \* the rows of `keys'
  drawn,        \* the last value the identity column has drawn
  inserts,      \* inserts on their way to the database
  pairs,        \* key pairs generated so far
  up,           \* the instances that run
  seeding,      \* instance -> what its start still has to do about keys
  now,          \* the clock all instances read
  req,          \* connection -> the request it serves
  signed,       \* history: the rows tokens have been signed with
  deleted,      \* history: the rows deleteKey has removed
  calls,        \* calls of generateNewKeys and deleteKey so far
  faults        \* failures so far

table == <<keys, drawn, deleted>>
vars == <<table, inserts, pairs, up, seeding, now, req, signed, calls, faults>>

-----------------------------------------------------------------------------
KeyRow == [key: Nat, kid: Nat, pair: Nat]
Statement == [by: Instances \cup {None}, kid: Nat, pair: Nat]

\* due: what the answer has to account for, fixed when the request arrives: the rows
\* stored by then (a token is signed with none older), or signed with (published).
\* got: the rows the request has read.
Request == [op: {"none", "token", "jwks"}, at: Instances \cup {None},
            pc: {"idle", "read", "sign", "done", "unanswered"},
            due: SUBSET KeyRow, got: SUBSET KeyRow, status: Nat]

Idle == [op |-> "none", at |-> None, pc |-> "idle", due |-> {}, got |-> {}, status |-> 0]

Becomes(r, q) == req' = [req EXCEPT ![r] = q]
Answer(r, status) == Becomes(r, [req[r] EXCEPT !.pc = "done", !.status = status])

Waiting(q) == q.pc \in {"read", "sign"}

Init ==
  /\ keys = {} /\ drawn = 0 /\ inserts = {} /\ pairs = 0
  /\ up = {} /\ seeding = [i \in Instances |-> "no"] /\ now = 0
  /\ req = [r \in Requests |-> Idle]
  /\ signed = {} /\ deleted = {} /\ calls = 0 /\ faults = 0

-----------------------------------------------------------------------------
(* Generating keys. *)

\* The pair is made, and the insert started, without waiting for anything: the kid
\* is the millisecond of the call.
GenerateAndInsertNewKeys(i) ==
  /\ pairs' = pairs + 1
  /\ inserts' = inserts \cup {[by |-> i, kid |-> now, pair |-> pairs + 1]}

\* A process starts, and serves requests while it looks for keys.
Start(i) ==
  /\ i \notin up
  /\ up' = up \cup {i}
  /\ seeding' = [seeding EXCEPT ![i] = IF i \in SkipKeysCheck THEN "no" ELSE "select"]
  /\ UNCHANGED <<table, inserts, pairs, now, req, signed, calls, faults>>

\* Seeded fault: the check is the wrong way round.
SelectAllKeys_Inverted(i) ==
  /\ seeding[i] = "select"
  /\ seeding' = [seeding EXCEPT ![i] = IF keys # {} THEN "generate" ELSE "no"]
  /\ UNCHANGED <<table, inserts, pairs, up, now, req, signed, calls, faults>>

\* seedKeysIfDbIsEmpty, up to its await.
SelectAllKeys(i) ==
  /\ seeding[i] = "select"
  /\ seeding' = [seeding EXCEPT ![i] = IF keys = {} THEN "generate" ELSE "no"]
  /\ UNCHANGED <<table, inserts, pairs, up, now, req, signed, calls, faults>>

\* seedKeysIfDbIsEmpty, after it.
SeedKeys(i) ==
  /\ seeding[i] = "generate"
  /\ seeding' = [seeding EXCEPT ![i] = "no"]
  /\ GenerateAndInsertNewKeys(i)
  /\ UNCHANGED <<table, up, now, req, signed, calls, faults>>

\* The select is rejected: it is logged, and the instance goes on without a key.
SelectAllKeysFails(i) ==
  /\ seeding[i] = "select"
  /\ faults < MaxFaults
  /\ faults' = faults + 1
  /\ seeding' = [seeding EXCEPT ![i] = "no"]
  /\ UNCHANGED <<table, inserts, pairs, up, now, req, signed, calls>>

\* Exported for a rotation of keys, and routed by no operation of the API description:
\* whoever calls it on an instance has its 'OK' before the insert runs.
GenerateNewKeys(i) ==
  /\ i \in up
  /\ calls < MaxCalls /\ calls' = calls + 1
  /\ GenerateAndInsertNewKeys(i)
  /\ UNCHANGED <<table, up, seeding, now, req, signed, faults>>

-----------------------------------------------------------------------------
(* The table. *)

\* An instance stops: its requests are lost, its statements are nobody's any more.
Stopped(i) ==
  /\ up' = up \ {i}
  /\ seeding' = [seeding EXCEPT ![i] = "no"]
  /\ req' = [r \in Requests |-> IF req[r].at = i /\ Waiting(req[r])
                                  THEN [req[r] EXCEPT !.pc = "unanswered"] ELSE req[r]]

Orphaned(statements, i) ==
  {IF s.by = i THEN [s EXCEPT !.by = None] ELSE s : s \in statements}

\* Seeded fault: keys_kid_uq is missing.
KidTaken_Never(kid) == FALSE

\* keys_kid_uq
KidTaken(kid) == \E row \in keys : row.kid = kid

\* Seeded fault: the database drops what it is sent.
InsertKey_Dropped(s) ==
  /\ s \in inserts /\ ~KidTaken(s.kid)
  /\ inserts' = inserts \ {s}
  /\ UNCHANGED <<table, pairs, up, seeding, now, req, signed, calls, faults>>

\* Seeded fault: the kid is left undefined.
InsertKey_NoKid(s) ==
  /\ s \in inserts /\ ~KidTaken(s.kid)
  /\ keys' = keys \cup {[key |-> drawn + 1, kid |-> None, pair |-> s.pair]}
  /\ drawn' = drawn + 1
  /\ inserts' = inserts \ {s}
  /\ UNCHANGED <<deleted, pairs, up, seeding, now, req, signed, calls, faults>>

InsertKey(s) ==
  /\ s \in inserts /\ ~KidTaken(s.kid)
  /\ keys' = keys \cup {[key |-> drawn + 1, kid |-> s.kid, pair |-> s.pair]}
  /\ drawn' = drawn + 1
  /\ inserts' = inserts \ {s}
  /\ UNCHANGED <<deleted, pairs, up, seeding, now, req, signed, calls, faults>>

\* A rejected insert is a promise rejection nobody handles: Node ends the process.
Rejected(s) ==
  /\ s \in inserts
  /\ IF s.by \in up
       THEN Stopped(s.by) /\ inserts' = Orphaned(inserts \ {s}, s.by)
       ELSE inserts' = inserts \ {s} /\ UNCHANGED <<up, seeding, req>>
  /\ UNCHANGED <<table, pairs, now, signed, calls>>

InsertCollides(s) == KidTaken(s.kid) /\ Rejected(s) /\ UNCHANGED faults

InsertFails(s) == faults < MaxFaults /\ faults' = faults + 1 /\ Rejected(s)

\* What a stopped process had sent may never have arrived.
InsertLost(s) ==
  /\ s \in inserts /\ s.by = None
  /\ inserts' = inserts \ {s}
  /\ UNCHANGED <<table, pairs, up, seeding, now, req, signed, calls, faults>>

\* In the database layer, called by no handler.
DeleteKey(row) ==
  /\ row \in keys
  /\ calls < MaxCalls /\ calls' = calls + 1
  /\ keys' = keys \ {row}
  /\ deleted' = deleted \cup {row}
  /\ UNCHANGED <<drawn, inserts, pairs, up, seeding, now, req, signed, faults>>

-----------------------------------------------------------------------------
(* Signing and publishing. *)

Ask(r, i, op, due) ==
  /\ i \in up /\ ~Waiting(req[r])
  /\ Becomes(r, [Idle EXCEPT !.op = op, !.at = i, !.pc = "read", !.due = due])
  /\ UNCHANGED <<table, inserts, pairs, up, seeding, now, signed, calls, faults>>

AskToken(r, i) == Ask(r, i, "token", keys)
AskJwks(r, i) == Ask(r, i, "jwks", signed)

\* Seeded fault: ascending order.
Latest_Oldest(rows) == {row \in rows : \A other \in rows : row.key <= other.key}

\* ORDER BY key DESC, the first row: no row of an empty table.
Latest(rows) == {row \in rows : \A other \in rows : other.key <= row.key}

\* Seeded fault: an instance signs with a pair whose row is still to be written.
SelectLatestKey_Unstored(r) ==
  /\ req[r].op = "token" /\ req[r].pc = "read"
  /\ \E s \in inserts : Becomes(r, [req[r] EXCEPT !.pc = "sign",
       !.got = {[key |-> drawn + 1, kid |-> s.kid, pair |-> s.pair]}])
  /\ UNCHANGED <<table, inserts, pairs, up, seeding, now, signed, calls, faults>>

SelectLatestKey(r) ==
  /\ req[r].op = "token" /\ req[r].pc = "read"
  /\ Becomes(r, [req[r] EXCEPT !.pc = "sign", !.got = Latest(keys)])
  /\ UNCHANGED <<table, inserts, pairs, up, seeding, now, signed, calls, faults>>

\* Without a key, reading its private_key throws.
CreateSignedAccessToken(r) ==
  /\ req[r].pc = "sign"
  /\ signed' = signed \cup req[r].got
  /\ Answer(r, IF req[r].got = {} THEN 500 ELSE 200)
  /\ UNCHANGED <<table, inserts, pairs, up, seeding, now, calls, faults>>

\* What the API description allows of an answer: `maxItems: 1'.
FitsDescription(rows) == Cardinality(rows) <= 1

\* All rows.  oas-tools, started with `strict', holds answers against the description:
\* one that does not fit may be let through or turned into an error.
GetJwks(r) ==
  /\ req[r].op = "jwks" /\ req[r].pc = "read"
  /\ \/ Becomes(r, [req[r] EXCEPT !.pc = "done", !.status = 200, !.got = keys])
     \/ ~FitsDescription(keys) /\ Answer(r, 500)
  /\ UNCHANGED <<table, inserts, pairs, up, seeding, now, signed, calls, faults>>

ReadFails(r) ==
  /\ req[r].pc = "read"
  /\ faults < MaxFaults
  /\ faults' = faults + 1
  /\ Answer(r, 500)
  /\ UNCHANGED <<table, inserts, pairs, up, seeding, now, signed, calls>>

-----------------------------------------------------------------------------
Crash(i) ==
  /\ i \in up
  /\ faults < MaxFaults
  /\ faults' = faults + 1
  /\ Stopped(i)
  /\ inserts' = Orphaned(inserts, i)
  /\ UNCHANGED <<table, pairs, now, signed, calls>>

Tick ==
  /\ now < MaxTime
  /\ now' = now + 1
  /\ UNCHANGED <<table, inserts, pairs, up, seeding, req, signed, calls, faults>>

\* What an instance does by itself, and what the database does.
Instance(i) ==
  \/ Start(i) \/ SelectAllKeys(i) \/ SeedKeys(i) \/ SelectAllKeysFails(i)
  \/ GenerateNewKeys(i) \/ Crash(i)

Database ==
  \/ \E s \in inserts : InsertKey(s) \/ InsertCollides(s) \/ InsertFails(s) \/ InsertLost(s)
  \/ \E row \in keys : DeleteKey(row)

Serve(r) == SelectLatestKey(r) \/ CreateSignedAccessToken(r) \/ GetJwks(r)

Next ==
  \/ \E i \in Instances : Instance(i) \/ \E r \in Requests : AskToken(r, i) \/ AskJwks(r, i)
  \/ Database
  \/ \E r \in Requests : Serve(r) \/ ReadFails(r)
  \/ Tick

Spec == Init /\ [][Next]_vars

\* The database runs the statements it is sent, and the event loop every callback.
Fairness ==
  /\ \A i \in Instances : WF_vars(SelectAllKeys(i) \/ SeedKeys(i))
  /\ WF_vars(\E s \in inserts : InsertKey(s) \/ InsertCollides(s))
  /\ \A r \in Requests : WF_vars(Serve(r))

FairSpec == Spec /\ Fairness

-----------------------------------------------------------------------------
(* Safety. *)

TypeOK ==
  /\ keys \subseteq KeyRow /\ deleted \subseteq KeyRow /\ signed \subseteq KeyRow
  /\ drawn \in Nat /\ pairs \in Nat /\ now \in Nat
  /\ calls \in Nat /\ faults \in Nat
  /\ inserts \subseteq Statement
  /\ up \subseteq Instances
  /\ seeding \in [Instances -> {"no", "select", "generate"}]
  /\ req \in [Requests -> Request]

\* A JWKS the server has answered with leads from the kid of a token to the pair
\* that signed it or, once that row is deleted, perhaps to another: two instances
\* that made a key in the same millisecond never get both published.
KidTellsThePair ==
  \A r \in Requests :
    req[r].op = "jwks" /\ req[r].pc = "done" =>
      \A x \in req[r].got \ deleted, y \in (req[r].got \cup signed) \ deleted :
        x.kid = y.kid => x.pair = y.pair

\* Whoever has a token in hand and gets the JWKS finds the key it was signed with.  The
\* answer that keeps this has as many keys as the table, where the API description
\* allows one; whether a longer one arrives is not asked here.
JwksCoversTokens ==
  \A r \in Requests :
    req[r].op = "jwks" /\ req[r].status = 200 => req[r].due \subseteq req[r].got \cup deleted

\* A token asked for after a key was stored is signed with that key or a later one;
\* it is refused for want of a key only if every key stored by then is deleted.
NewestKeySigns ==
  \A r \in Requests :
    (req[r].op = "token" /\ (req[r].pc = "sign" \/ req[r].status = 200)) =>
      \A d \in req[r].due \ deleted : \E g \in req[r].got : d.key <= g.key

(* The inductive invariant. *)

EverStored == keys \cup deleted

\* keys_kid_uq, and an identity column that never draws a value twice.
RowsInv ==
  /\ \A x, y \in keys : x.kid = y.kid => x = y
  /\ \A x, y \in EverStored : x.key = y.key => x = y
  /\ \A x \in EverStored : x.key <= drawn
  /\ keys \cap deleted = {}

\* What was signed with, read or owed is or was a row.
ReadInv ==
  /\ signed \subseteq EverStored
  /\ \A r \in Requests : req[r].got \cup req[r].due \subseteq EverStored
  /\ \A r \in Requests : req[r].pc = "sign" => req[r].op = "token"
  /\ \A r \in Requests : req[r].pc \in {"idle", "read"} => req[r].status = 0

\* Only instances that run have anything to do, and an insert is orphaned only by a
\* failure or by one that collided with a row.
SeedInv ==
  /\ \A i \in Instances : seeding[i] # "no" => i \in up
  /\ (\E s \in inserts : s.by = None) => keys # {} \/ deleted # {} \/ faults > 0

IInv ==
  /\ TypeOK /\ RowsInv /\ ReadInv /\ SeedInv
  /\ JwksCoversTokens /\ NewestKeySigns

(* What a step may never do. *)

\* Some instance has still to look for keys or to make one, a key is on its way to the
\* table, or the table has, or had, one.
KeyToCome ==
  \/ \E i \in Instances : seeding[i] # "no"
  \/ inserts # {} \/ keys # {} \/ deleted # {} \/ faults > 0

\* Whatever instances do to each other while they start, with inserts that collide and
\* processes that end over it, a database that was to get a key is never given up.
SeedingIsNotForgotten == [][KeyToCome => KeyToCome']_vars

(* Liveness. *)

\* An instance that starts with the check leaves the database with a key, whatever
\* other instances do at the time, if no statement fails and no process crashes.
SeedingLeavesAKey ==
  (\E i \in Instances : seeding[i] # "no") ~> (keys # {} \/ deleted # {} \/ faults > 0)

=============================================================================
