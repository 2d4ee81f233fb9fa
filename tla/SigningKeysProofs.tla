------------------------- MODULE SigningKeysProofs -------------------------
(* The inductive invariant of SigningKeys, and what follows from it. *)
EXTENDS SigningKeys, TLAPS, WellFoundedInduction

-----------------------------------------------------------------------------
(* The newest row. *)

\* A table that is not empty has a newest row.
LEMMA LatestExists ==
  ASSUME NEW S, S \subseteq KeyRow, S # {}, NEW n \in Nat, \A x \in S : x.key <= n
  PROVE  \E g \in S : \A x \in S : x.key <= g.key
<1> DEFINE T == {n - x.key : x \in S}
<1>1. \A x \in S : x.key \in Nat /\ n - x.key \in Nat
  BY DEF KeyRow
<1>2. T \subseteq Nat /\ T # {}
  BY <1>1
<1>3. PICK m \in T : \A y \in T : ~ (<<y, m>> \in OpToRel(<, Nat))
  BY <1>2, NatLessThanWellFounded, WFMin
<1>4. \A y \in T : ~(y < m)
  BY <1>2, <1>3 DEF OpToRel
<1>5. PICK g \in S : m = n - g.key
  OBVIOUS
<1>6. \A x \in S : x.key <= g.key
  <2> TAKE x \in S
  <2>1. n - x.key \in T
    OBVIOUS
  <2>2. ~(n - x.key < n - g.key)
    BY <1>4, <1>5, <2>1
  <2> QED
    BY <1>1, <2>2
<1> QED
  BY <1>6

-----------------------------------------------------------------------------
(* Types. *)

LEMMA BecomesType ==
  ASSUME TypeOK, NEW r \in Requests, NEW q \in Request, Becomes(r, q)
  PROVE  req' \in [Requests -> Request]
BY DEF TypeOK, Becomes

LEMMA AnswerType ==
  ASSUME TypeOK, NEW r \in Requests, NEW status \in Nat, Answer(r, status)
  PROVE  req' \in [Requests -> Request]
<1>1. [req[r] EXCEPT !.pc = "done", !.status = status] \in Request
  BY DEF TypeOK, Request
<1> QED
  BY <1>1, BecomesType DEF Answer

LEMMA StoppedType ==
  ASSUME TypeOK, NEW i \in Instances, Stopped(i)
  PROVE  /\ up' \subseteq Instances
         /\ seeding' \in [Instances -> {"no", "select", "generate"}]
         /\ req' \in [Requests -> Request]
<1>1. \A q \in Request : [q EXCEPT !.pc = "unanswered"] \in Request
  BY DEF Request
<1> QED
  BY <1>1 DEF Stopped, TypeOK

LEMMA OrphanedType ==
  ASSUME NEW S, S \subseteq Statement, NEW i
  PROVE  Orphaned(S, i) \subseteq Statement
<1>1. \A s \in S : [s EXCEPT !.by = None] \in Statement
  BY DEF Statement
<1> QED
  BY <1>1 DEF Orphaned

LEMMA GenerateType ==
  ASSUME TypeOK, NEW i \in Instances, GenerateAndInsertNewKeys(i)
  PROVE  pairs' \in Nat /\ inserts' \subseteq Statement
BY DEF TypeOK, GenerateAndInsertNewKeys, Statement

\* Every step keeps the type invariant.
LEMMA TypeStep ==
  ASSUME TypeOK, [Next]_vars
  PROVE  TypeOK'
<1> USE BoundsAssumption, InstancesAssumption
<1>1. ASSUME NEW i \in Instances, Start(i) PROVE TypeOK'
  BY <1>1 DEF Start, TypeOK, table
<1>2. ASSUME NEW i \in Instances, SelectAllKeys(i) PROVE TypeOK'
  BY <1>2 DEF SelectAllKeys, TypeOK, table
<1>3. ASSUME NEW i \in Instances, SeedKeys(i) PROVE TypeOK'
  BY <1>3, GenerateType DEF SeedKeys, TypeOK, table
<1>4. ASSUME NEW i \in Instances, SelectAllKeysFails(i) PROVE TypeOK'
  BY <1>4 DEF SelectAllKeysFails, TypeOK, table
<1>5. ASSUME NEW i \in Instances, GenerateNewKeys(i) PROVE TypeOK'
  BY <1>5, GenerateType DEF GenerateNewKeys, TypeOK, table
<1>6. ASSUME NEW i \in Instances, Crash(i) PROVE TypeOK'
  <2>1. inserts' \subseteq Statement
    BY <1>6, OrphanedType DEF Crash, TypeOK
  <2> QED
    BY <1>6, <2>1, StoppedType DEF Crash, TypeOK, table
<1>7. ASSUME NEW s \in inserts, InsertKey(s) PROVE TypeOK'
  <2>1. [key |-> drawn + 1, kid |-> s.kid, pair |-> s.pair] \in KeyRow
    BY DEF TypeOK, Statement, KeyRow
  <2> QED
    BY <1>7, <2>1 DEF InsertKey, TypeOK
<1>8. ASSUME NEW s \in inserts, Rejected(s), faults' \in Nat PROVE TypeOK'
  <2>1. CASE s.by \in up
    <3>1. s.by \in Instances
      BY <2>1 DEF TypeOK
    <3>2. inserts' \subseteq Statement
      BY <1>8, <2>1, OrphanedType DEF Rejected, TypeOK
    <3> QED
      BY <1>8, <2>1, <3>1, <3>2, StoppedType DEF Rejected, TypeOK, table
  <2>2. CASE s.by \notin up
    BY <1>8, <2>2 DEF Rejected, TypeOK, table
  <2> QED
    BY <2>1, <2>2
<1>9. ASSUME NEW s \in inserts, InsertLost(s) PROVE TypeOK'
  BY <1>9 DEF InsertLost, TypeOK, table
<1>10. ASSUME NEW row \in keys, DeleteKey(row) PROVE TypeOK'
  BY <1>10 DEF DeleteKey, TypeOK
<1>11. ASSUME NEW r \in Requests, NEW i \in Instances, NEW op \in {"token", "jwks"},
              NEW due \in SUBSET KeyRow, Ask(r, i, op, due)
       PROVE  TypeOK'
  <2>1. [Idle EXCEPT !.op = op, !.at = i, !.pc = "read", !.due = due] \in Request
    BY DEF Idle, Request
  <2>2. req' \in [Requests -> Request]
    BY <1>11, <2>1, BecomesType DEF Ask
  <2> QED
    BY <1>11, <2>2 DEF Ask, TypeOK, table
<1>12. ASSUME NEW r \in Requests, SelectLatestKey(r) PROVE TypeOK'
  <2>1. Latest(keys) \subseteq KeyRow /\ req[r] \in Request
    BY DEF Latest, TypeOK
  <2>2. [req[r] EXCEPT !.pc = "sign", !.got = Latest(keys)] \in Request
    BY <2>1 DEF Request
  <2>3. req' \in [Requests -> Request]
    BY <1>12, <2>2, BecomesType DEF SelectLatestKey
  <2> QED
    BY <1>12, <2>3 DEF SelectLatestKey, TypeOK, table
<1>14. ASSUME NEW r \in Requests, CreateSignedAccessToken(r) PROVE TypeOK'
  <2>1. req[r].got \subseteq KeyRow
    BY DEF TypeOK, Request
  <2>2. req' \in [Requests -> Request]
    BY <1>14, AnswerType DEF CreateSignedAccessToken
  <2> QED
    BY <1>14, <2>1, <2>2 DEF CreateSignedAccessToken, TypeOK, table
<1>15. ASSUME NEW r \in Requests, GetJwks(r) PROVE TypeOK'
  <2>1. [req[r] EXCEPT !.pc = "done", !.status = 200, !.got = keys] \in Request
    <3>1. \A q \in Request, n \in Nat, S \in SUBSET KeyRow :
            [q EXCEPT !.pc = "done", !.status = n, !.got = S] \in Request
      BY DEF Request
    <3>2. req[r] \in Request /\ keys \in SUBSET KeyRow /\ 200 \in Nat
      BY DEF TypeOK
    <3> QED
      BY <3>1, <3>2
  <2>2. req' \in [Requests -> Request]
    BY <1>15, <2>1, BecomesType, AnswerType DEF GetJwks
  <2> QED
    BY <1>15, <2>2 DEF GetJwks, TypeOK, table
<1>16. ASSUME NEW r \in Requests, ReadFails(r) PROVE TypeOK'
  <2>1. req' \in [Requests -> Request]
    BY <1>16, AnswerType DEF ReadFails
  <2> QED
    BY <1>16, <2>1 DEF ReadFails, TypeOK, table
<1>17. CASE Tick
  BY <1>17 DEF Tick, TypeOK, table
<1>18. CASE UNCHANGED vars
  BY <1>18 DEF vars, table, TypeOK
<1>19. ASSUME NEW s \in inserts, InsertCollides(s) \/ InsertFails(s) PROVE TypeOK'
  BY <1>8, <1>19 DEF InsertCollides, InsertFails, TypeOK
<1>20. ASSUME NEW r \in Requests, NEW i \in Instances, AskToken(r, i) \/ AskJwks(r, i)
       PROVE  TypeOK'
  BY <1>11, <1>20 DEF AskToken, AskJwks, TypeOK
<1> QED
  BY <1>1, <1>2, <1>3, <1>4, <1>5, <1>6, <1>7, <1>9, <1>10, <1>12, <1>14, <1>15, <1>16,
     <1>17, <1>18, <1>19, <1>20
  DEF Next, Instance, Database, Serve

-----------------------------------------------------------------------------
(* The table. *)

\* Only InsertKey and deleteKey write to the table.
LEMMA TableChanges ==
  ASSUME [Next]_vars
  PROVE  \/ UNCHANGED table
         \/ \E s \in inserts : InsertKey(s)
         \/ \E row \in keys : DeleteKey(row)
BY DEF Next, Instance, Database, Serve, Start, SelectAllKeys, SeedKeys, SelectAllKeysFails,
       GenerateNewKeys, Crash, InsertCollides, InsertFails, Rejected, InsertLost, AskToken,
       AskJwks, Ask, SelectLatestKey, CreateSignedAccessToken, GetJwks, ReadFails, Tick, vars

LEMMA RowsStep ==
  ASSUME TypeOK, RowsInv, [Next]_vars
  PROVE  RowsInv'
<1>1. CASE UNCHANGED table
  BY <1>1 DEF table, RowsInv, EverStored
<1>2. ASSUME NEW s \in inserts, InsertKey(s) PROVE RowsInv'
  <2> DEFINE new == [key |-> drawn + 1, kid |-> s.kid, pair |-> s.pair]
  <2>1. /\ keys' = keys \cup {new} /\ drawn' = drawn + 1 /\ deleted' = deleted
        /\ drawn \in Nat /\ new.key = drawn + 1 /\ new.kid = s.kid
    BY <1>2 DEF InsertKey, TypeOK
  <2>2. \A x \in EverStored : x.key \in Nat /\ x.key <= drawn
    BY DEF RowsInv, EverStored, TypeOK, KeyRow
  <2>3. \A x \in keys : x.kid # new.kid
    BY <1>2 DEF InsertKey, KidTaken
  <2> HIDE DEF new
  <2>4. \A x \in EverStored : x.key # new.key
    BY <2>1, <2>2
  <2>5. EverStored' = EverStored \cup {new}
    BY <2>1 DEF EverStored
  <2>6. new \notin deleted
    BY <2>4 DEF EverStored
  <2>7. \A x \in EverStored' : x.key <= drawn'
    BY <2>1, <2>2, <2>5
  <2>8. \A x, y \in EverStored' : x.key = y.key => x = y
    BY <2>4, <2>5 DEF RowsInv
  <2>9. \A x, y \in keys' : x.kid = y.kid => x = y
    BY <2>1, <2>3 DEF RowsInv
  <2> QED
    BY <2>1, <2>6, <2>7, <2>8, <2>9 DEF RowsInv
<1>3. ASSUME NEW row \in keys, DeleteKey(row) PROVE RowsInv'
  <2>1. EverStored' = EverStored /\ keys' \subseteq keys /\ drawn' = drawn
        /\ keys' \cap deleted' = {}
    BY <1>3 DEF DeleteKey, EverStored, RowsInv
  <2> QED
    BY <2>1 DEF RowsInv
<1> QED
  BY <1>1, <1>2, <1>3, TableChanges

\* Nothing that was stored is ever forgotten, and what is deleted stays deleted.
LEMMA StoredGrows ==
  ASSUME [Next]_vars
  PROVE  EverStored \subseteq EverStored' /\ deleted \subseteq deleted'
<1>1. CASE UNCHANGED table
  BY <1>1 DEF table, EverStored
<1>2. ASSUME NEW s \in inserts, InsertKey(s) PROVE EverStored \subseteq EverStored' /\ deleted' = deleted
  BY <1>2 DEF InsertKey, EverStored
<1>3. ASSUME NEW row \in keys, DeleteKey(row)
      PROVE  EverStored \subseteq EverStored' /\ deleted \subseteq deleted'
  BY <1>3 DEF DeleteKey, EverStored
<1> QED
  BY <1>1, <1>2, <1>3, TableChanges

-----------------------------------------------------------------------------
(* Requests. *)

\* What the invariant says of one request: the parts of ReadInv, JwksCoversTokens
\* and NewestKeySigns.
Sound(q) ==
  /\ q.got \cup q.due \subseteq EverStored
  /\ q.pc = "sign" => q.op = "token"
  /\ q.pc \in {"idle", "read"} => q.status = 0
  /\ q.op = "jwks" /\ q.status = 200 => q.due \subseteq q.got \cup deleted
  /\ q.op = "token" /\ (q.pc = "sign" \/ q.status = 200) =>
       \A d \in q.due \ deleted : \E g \in q.got : d.key <= g.key

AllSound == \A r \in Requests : Sound(req[r])

LEMMA SoundRequests ==
  (ReadInv /\ JwksCoversTokens /\ NewestKeySigns) <=> (signed \subseteq EverStored /\ AllSound)
BY DEF ReadInv, JwksCoversTokens, NewestKeySigns, AllSound, Sound

\* A request that does not move stays sound.
LEMMA SoundStays ==
  ASSUME [Next]_vars, NEW q, Sound(q)
  PROVE  Sound(q)'
<1>1. EverStored \subseteq EverStored' /\ deleted \subseteq deleted'
  BY StoredGrows
<1> QED
  BY <1>1 DEF Sound

\* One connection moves and its request stays sound: then all do.
LEMMA OneMoves ==
  ASSUME TypeOK, [Next]_vars, AllSound,
         NEW r \in Requests, NEW q, Becomes(r, q), Sound(q)'
  PROVE  AllSound'
<1> SUFFICES ASSUME NEW x \in Requests PROVE Sound(req[x])'
  BY DEF AllSound
<1>1. CASE x = r
  <2>1. req'[x] = q
    BY <1>1 DEF Becomes, TypeOK
  <2> QED
    BY <2>1 DEF Sound
<1>2. CASE x # r
  <2>1. req'[x] = req[x]
    BY <1>2 DEF Becomes, TypeOK
  <2>2. \A p : Sound(p) => Sound(p)'
    BY SoundStays
  <2>3. Sound(req[x])
    BY DEF AllSound
  <2> QED
    BY <2>1, <2>2, <2>3 DEF Sound
<1> QED
  BY <1>1, <1>2

\* An instance that stops leaves its requests unanswered, and so sound.
LEMMA StoppedSound ==
  ASSUME TypeOK, [Next]_vars, AllSound, NEW i, Stopped(i)
  PROVE  AllSound'
<1> SUFFICES ASSUME NEW x \in Requests PROVE Sound(req[x])'
  BY DEF AllSound
<1>1. \A p : Sound(p) => Sound(p)'
  BY SoundStays
<1>2. CASE req'[x] = req[x]
  BY <1>1, <1>2 DEF AllSound, Sound
<1>3. CASE req'[x] = [req[x] EXCEPT !.pc = "unanswered"] /\ Waiting(req[x])
  <2>0. PICK p : p = [req[x] EXCEPT !.pc = "unanswered"]
    OBVIOUS
  <2>1. p.got = req[x].got /\ p.due = req[x].due /\ p.op = req[x].op
        /\ p.status = req[x].status /\ p.pc = "unanswered"
    BY <2>0 DEF TypeOK, Request
  <2>2. Sound(req[x]) /\ (Sound(req[x]) => Sound(p))
    BY <2>1 DEF AllSound, Sound
  <2>3. Sound(p)'
    BY <1>1, <2>2
  <2> QED
    BY <1>3, <2>0, <2>3 DEF Sound
<1> QED
  BY <1>2, <1>3 DEF Stopped

LEMMA ReadStep ==
  ASSUME TypeOK, RowsInv, ReadInv, JwksCoversTokens, NewestKeySigns, [Next]_vars
  PROVE  ReadInv' /\ JwksCoversTokens' /\ NewestKeySigns'
<1>a. signed \subseteq EverStored /\ AllSound
  BY SoundRequests
<1>b. EverStored \subseteq EverStored' /\ deleted \subseteq deleted'
  BY StoredGrows
<1> DEFINE Goal == signed' \subseteq EverStored' /\ AllSound'
<1>1. ASSUME UNCHANGED <<req, signed>> PROVE Goal
  <2>1. \A p : Sound(p) => Sound(p)'
    BY SoundStays
  <2>2. AllSound'
    BY <1>1, <1>a, <2>1 DEF AllSound, Sound
  <2> QED
    BY <1>1, <1>a, <1>b, <2>2
<1>2. ASSUME NEW i, Stopped(i), signed' = signed PROVE Goal
  BY <1>2, <1>a, <1>b, StoppedSound
<1>3. ASSUME NEW r \in Requests, NEW i \in Instances, NEW op \in {"token", "jwks"},
             NEW due \in SUBSET EverStored, Ask(r, i, op, due)
      PROVE  Goal
  <2>0. PICK q : q = [Idle EXCEPT !.op = op, !.at = i, !.pc = "read", !.due = due]
    OBVIOUS
  <2>1. q.op = op /\ q.pc = "read" /\ q.due = due /\ q.got = {} /\ q.status = 0
    BY <2>0 DEF Idle
  <2>2. Becomes(r, q) /\ signed' = signed
    BY <2>0, <1>3 DEF Ask
  <2>3. Sound(q)'
    BY <1>b, <2>1 DEF Sound
  <2> QED
    BY <1>a, <1>b, <2>2, <2>3, OneMoves
<1>4. ASSUME NEW r \in Requests, SelectLatestKey(r) PROVE Goal
  <2>0. PICK q : q = [req[r] EXCEPT !.pc = "sign", !.got = Latest(keys)]
    OBVIOUS
  <2>1. q.op = "token" /\ q.pc = "sign" /\ q.due = req[r].due /\ q.got = Latest(keys)
    BY <2>0, <1>4 DEF SelectLatestKey, TypeOK, Request
  <2>2. Becomes(r, q) /\ signed' = signed /\ keys' = keys /\ deleted' = deleted
    BY <2>0, <1>4 DEF SelectLatestKey, table
  <2>3. \A d \in q.due \ deleted : \E g \in q.got : d.key <= g.key
    <3> SUFFICES ASSUME NEW d \in q.due \ deleted PROVE \E g \in q.got : d.key <= g.key
      OBVIOUS
    <3>1. d \in keys
      BY <1>a, <2>1 DEF AllSound, Sound, EverStored
    <3>2. keys \subseteq KeyRow /\ drawn \in Nat /\ \A x \in keys : x.key <= drawn
      BY DEF TypeOK, RowsInv, EverStored
    <3>3. PICK g \in keys : \A x \in keys : x.key <= g.key
      BY <3>1, <3>2, LatestExists
    <3> QED
      BY <2>1, <3>1, <3>3 DEF Latest
  <2>4. q.got \cup q.due \subseteq EverStored
    BY <1>a, <2>1 DEF AllSound, Sound, Latest, EverStored
  <2>5. Sound(q)'
    BY <2>1, <2>2, <2>3, <2>4 DEF Sound, EverStored
  <2> QED
    BY <1>a, <1>b, <2>2, <2>5, OneMoves
<1>5. ASSUME NEW r \in Requests, Answer(r, 500), UNCHANGED <<table, signed>> PROVE Goal
  <2>0. PICK q : q = [req[r] EXCEPT !.pc = "done", !.status = 500]
    OBVIOUS
  <2>1. q.op = req[r].op /\ q.pc = "done" /\ q.due = req[r].due /\ q.got = req[r].got
        /\ q.status = 500
    BY <2>0 DEF TypeOK, Request
  <2>2. Becomes(r, q) /\ signed' = signed
    BY <2>0, <1>5 DEF Answer
  <2>3. Sound(q)'
    BY <1>a, <1>b, <2>1 DEF AllSound, Sound
  <2> QED
    BY <1>a, <1>b, <2>2, <2>3, OneMoves
<1>6. ASSUME NEW r \in Requests, GetJwks(r) PROVE Goal
  <2>0. PICK q : q = [req[r] EXCEPT !.pc = "done", !.status = 200, !.got = keys]
    OBVIOUS
  <2>1. q.op = "jwks" /\ q.pc = "done" /\ q.due = req[r].due /\ q.got = keys
    BY <2>0, <1>6 DEF GetJwks, TypeOK, Request
  <2>2. signed' = signed /\ keys' = keys /\ deleted' = deleted
    BY <1>6 DEF GetJwks, table
  <2>3. q.got \cup q.due \subseteq EverStored
    BY <1>a, <2>1 DEF AllSound, Sound, EverStored
  <2>4. Sound(q)'
    BY <2>1, <2>2, <2>3 DEF Sound, EverStored
  <2>5. CASE Becomes(r, q)
    BY <1>a, <1>b, <2>2, <2>4, <2>5, OneMoves
  <2>6. CASE Answer(r, 500)
    BY <1>5, <1>6, <2>6 DEF GetJwks
  <2> QED
    BY <1>6, <2>0, <2>5, <2>6 DEF GetJwks
<1>7. ASSUME NEW r \in Requests, CreateSignedAccessToken(r) PROVE Goal
  <2>0. PICK q : q = [req[r] EXCEPT !.pc = "done",
                                 !.status = IF req[r].got = {} THEN 500 ELSE 200]
    OBVIOUS
  <2>1. q.op = "token" /\ q.pc = "done" /\ q.due = req[r].due /\ q.got = req[r].got
    BY <2>0, <1>7, <1>a DEF CreateSignedAccessToken, TypeOK, Request, AllSound, Sound
  <2>2. Becomes(r, q) /\ signed' = signed \cup req[r].got /\ keys' = keys /\ deleted' = deleted
    BY <2>0, <1>7 DEF CreateSignedAccessToken, Answer, table
  <2>3. Sound(req[r]) /\ req[r].pc = "sign" /\ req[r].op = "token"
    BY <1>7, <1>a DEF CreateSignedAccessToken, AllSound, Sound
  <2>4. Sound(q)'
    BY <2>1, <2>2, <2>3 DEF Sound, EverStored
  <2>5. signed' \subseteq EverStored'
    BY <1>a, <1>b, <2>2, <2>3 DEF Sound
  <2> QED
    BY <1>a, <2>2, <2>4, <2>5, OneMoves
<1>8. ASSUME NEW r \in Requests, ReadFails(r) PROVE Goal
  BY <1>5, <1>8 DEF ReadFails
<1>9. ASSUME NEW s \in inserts, Rejected(s) PROVE Goal
  <2>1. ASSUME s.by \in up PROVE Goal
    BY <1>2, <1>9, <2>1 DEF Rejected
  <2>2. ASSUME s.by \notin up PROVE Goal
    BY <1>1, <1>9, <2>2 DEF Rejected
  <2> QED
    BY <2>1, <2>2
<1>10. ASSUME NEW r \in Requests, NEW i \in Instances, AskToken(r, i) \/ AskJwks(r, i) PROVE Goal
  BY <1>3, <1>10, <1>a DEF AskToken, AskJwks, EverStored
<1>11. ASSUME NEW i \in Instances, Instance(i) PROVE Goal
  <2>1. ASSUME Crash(i) PROVE Goal
    BY <1>2, <2>1 DEF Crash
  <2>2. ASSUME \/ Start(i) \/ SelectAllKeys(i) \/ SeedKeys(i)
               \/ SelectAllKeysFails(i) \/ GenerateNewKeys(i)
        PROVE  Goal
    BY <1>1, <2>2 DEF Start, SelectAllKeys, SeedKeys, SelectAllKeysFails, GenerateNewKeys
  <2> QED
    BY <1>11, <2>1, <2>2 DEF Instance
<1>12. ASSUME Database PROVE Goal
  <2>1. ASSUME NEW s \in inserts, InsertKey(s) \/ InsertLost(s) PROVE Goal
    BY <1>1, <2>1 DEF InsertKey, InsertLost
  <2>2. ASSUME NEW s \in inserts, InsertCollides(s) \/ InsertFails(s) PROVE Goal
    BY <1>9, <2>2 DEF InsertCollides, InsertFails
  <2>3. ASSUME NEW row \in keys, DeleteKey(row) PROVE Goal
    BY <1>1, <2>3 DEF DeleteKey
  <2> QED
    BY <1>12, <2>1, <2>2, <2>3 DEF Database
<1>13. ASSUME Tick \/ UNCHANGED vars PROVE Goal
  BY <1>1, <1>13 DEF Tick, vars
<1>14. Goal
  BY <1>4, <1>6, <1>7, <1>8, <1>10, <1>11, <1>12, <1>13 DEF Next, Serve
<1> QED
  <2>1. (signed \subseteq EverStored /\ AllSound)'
    BY <1>14
  <2> QED
    BY <2>1, SoundRequests, PTL

-----------------------------------------------------------------------------
(* Seeding. *)

\* An orphan or an idle seeder comes from a process that stopped.
LEMMA StoppedSeeds ==
  ASSUME IInv, NEW i, Stopped(i)
  PROVE  \A j \in Instances : seeding'[j] # "no" => j # i /\ seeding[j] # "no" /\ j \in up'
  BY DEF Stopped, IInv, TypeOK, SeedInv

LEMMA SeedStep == ASSUME IInv, [Next]_vars PROVE SeedInv' /\ (KeyToCome => KeyToCome')
<1> USE DEF KeyToCome
<1>1. /\ seeding \in [Instances -> {"no", "select", "generate"}] /\ SeedInv
      /\ faults \in Nat /\ inserts \subseteq Statement
  BY DEF IInv, TypeOK
<1>2. ASSUME NEW s \in inserts, Rejected(s), keys # {} \/ faults' > 0, UNCHANGED faults \/ faults' > 0
      PROVE  SeedInv' /\ (KeyToCome => KeyToCome')
  <2>1. UNCHANGED <<keys, deleted>>
    BY <1>2 DEF Rejected, table
  <2>2. \A j \in Instances : seeding'[j] # "no" => j \in up'
    BY <1>1, <1>2, StoppedSeeds DEF Rejected, SeedInv
  <2> QED
    BY <1>1, <1>2, <2>1, <2>2 DEF SeedInv
<1>3. ASSUME NEW s \in inserts, InsertCollides(s) \/ InsertFails(s)
      PROVE  SeedInv' /\ (KeyToCome => KeyToCome')
  BY <1>1, <1>2, <1>3 DEF InsertCollides, InsertFails, KidTaken
<1>4. ASSUME NEW s \in inserts, InsertKey(s) \/ InsertLost(s)
      PROVE  SeedInv' /\ (KeyToCome => KeyToCome')
  BY <1>1, <1>4 DEF InsertKey, InsertLost, SeedInv, table
<1>5. ASSUME NEW i \in Instances, Start(i) PROVE SeedInv' /\ (KeyToCome => KeyToCome')
  BY <1>1, <1>5 DEF Start, SeedInv, table
<1>6. ASSUME NEW i \in Instances, SelectAllKeys(i) \/ SelectAllKeysFails(i)
      PROVE  SeedInv' /\ (KeyToCome => KeyToCome')
  BY <1>1, <1>6 DEF SelectAllKeys, SelectAllKeysFails, SeedInv, table
<1>7. ASSUME NEW i \in Instances, SeedKeys(i) \/ GenerateNewKeys(i)
      PROVE  SeedInv' /\ (KeyToCome => KeyToCome')
  <2>1. /\ inserts' = inserts \cup {[by |-> i, kid |-> now, pair |-> pairs + 1]}
        /\ UNCHANGED <<keys, deleted, up, faults>>
        /\ \A j \in Instances : seeding'[j] # "no" => seeding[j] # "no"
    BY <1>1, <1>7 DEF SeedKeys, GenerateNewKeys, GenerateAndInsertNewKeys, table
  <2>2. [by |-> i, kid |-> now, pair |-> pairs + 1].by # None
    BY InstancesAssumption
  <2> QED
    BY <1>1, <2>1, <2>2 DEF SeedInv
<1>8. ASSUME NEW i \in Instances, Crash(i) PROVE SeedInv' /\ (KeyToCome => KeyToCome')
  BY <1>1, <1>8, StoppedSeeds DEF Crash, SeedInv, table
<1>9. ASSUME NEW row \in keys, DeleteKey(row) PROVE SeedInv' /\ (KeyToCome => KeyToCome')
  BY <1>1, <1>9 DEF DeleteKey, SeedInv
<1>10. ASSUME UNCHANGED <<table, inserts, up, seeding>>, faults' >= faults, faults' \in Nat
       PROVE  SeedInv' /\ (KeyToCome => KeyToCome')
  BY <1>1, <1>10 DEF SeedInv, table
<1>11. ASSUME NEW r \in Requests, Serve(r) PROVE SeedInv' /\ (KeyToCome => KeyToCome')
  <2>1. UNCHANGED <<table, inserts, up, seeding, faults>>
    BY <1>11 DEF Serve, SelectLatestKey, CreateSignedAccessToken, GetJwks
  <2> QED
    BY <1>1, <1>10, <2>1
<1>12. ASSUME NEW r \in Requests, ReadFails(r) PROVE SeedInv' /\ (KeyToCome => KeyToCome')
  <2>1. UNCHANGED <<table, inserts, up, seeding>> /\ faults' = faults + 1
    BY <1>12 DEF ReadFails
  <2> QED
    BY <1>1, <1>10, <2>1
<1>13. ASSUME NEW r \in Requests, NEW i \in Instances, AskToken(r, i) \/ AskJwks(r, i)
       PROVE  SeedInv' /\ (KeyToCome => KeyToCome')
  <2>1. UNCHANGED <<table, inserts, up, seeding, faults>>
    BY <1>13 DEF AskToken, AskJwks, Ask
  <2> QED
    BY <1>1, <1>10, <2>1
<1>14. CASE Tick \/ UNCHANGED vars
  BY <1>1, <1>10, <1>14 DEF Tick, vars
<1> QED
  BY <1>3, <1>4, <1>5, <1>6, <1>7, <1>8, <1>9, <1>11, <1>12, <1>13, <1>14
  DEF Next, Instance, Database

-----------------------------------------------------------------------------
LEMMA InitIInv == Init => IInv
<1> SUFFICES ASSUME Init PROVE IInv
  OBVIOUS
<1> USE DEF Init, Idle
<1>1. TypeOK
  BY DEF TypeOK, Request, Idle
<1>2. RowsInv /\ ReadInv
  BY DEF RowsInv, ReadInv, EverStored
<1>3. JwksCoversTokens /\ NewestKeySigns
  BY DEF JwksCoversTokens, NewestKeySigns
<1>4. SeedInv
  BY DEF SeedInv
<1> QED
  BY <1>1, <1>2, <1>3, <1>4 DEF IInv

LEMMA Inductive == IInv /\ [Next]_vars => IInv'
<1> SUFFICES ASSUME IInv, [Next]_vars PROVE IInv'
  OBVIOUS
<1>1. TypeOK'
  BY TypeStep DEF IInv
<1>2. RowsInv'
  BY RowsStep DEF IInv
<1>3. ReadInv' /\ JwksCoversTokens' /\ NewestKeySigns'
  BY ReadStep DEF IInv
<1>4. SeedInv'
  BY SeedStep
<1> QED
  BY <1>1, <1>2, <1>3, <1>4 DEF IInv

\* The invariant that carries the others: rows have keys and kids of their own, what
\* requests read were rows, and only instances that run have keys still to look for.
THEOREM Invariant == Spec => []IInv
  BY InitIInv, Inductive, PTL DEF Spec

\* Every variable keeps its type, at every instance and after every crash.
THEOREM TypeCorrect == Spec => []TypeOK
<1>1. IInv => TypeOK
  BY DEF IInv
<1> QED
  BY Invariant, <1>1, PTL

\* getJwks never publishes two pairs under one kid, nor a kid that an instance signed
\* with another pair: the unique key on kid and one read of the table see to it.
THEOREM KidsTellPairs == Spec => []KidTellsThePair
<1>1. IInv => KidTellsThePair
  <2> SUFFICES ASSUME IInv, NEW r \in Requests,
                      NEW x \in req[r].got \ deleted, NEW y \in (req[r].got \cup signed) \ deleted,
                      x.kid = y.kid
               PROVE  x.pair = y.pair
    BY DEF KidTellsThePair
  <2>1. x \in keys /\ y \in keys
    BY DEF IInv, ReadInv, EverStored
  <2> QED
    BY <2>1 DEF IInv, RowsInv
<1> QED
  BY Invariant, <1>1, PTL

\* A JWKS that is answered holds every key a token was signed with before it was asked
\* for, unless deleted: it has to hold more keys than the API description allows.
THEOREM TokensAreCovered == Spec => []JwksCoversTokens
<1>1. IInv => JwksCoversTokens
  BY DEF IInv
<1> QED
  BY Invariant, <1>1, PTL

\* selectLatestKey gives no key older than one stored when the request arrived.
THEOREM NewestSigns == Spec => []NewestKeySigns
<1>1. IInv => NewestKeySigns
  BY DEF IInv
<1> QED
  BY Invariant, <1>1, PTL

\* Once an instance has begun to look for keys there is, for ever, a key, one on its way,
\* an instance about to make one, or somebody to blame: the unique key on kid may end the
\* process that loses the race, never the only one that was to make a key.
THEOREM SeedingGoesOn == Spec => SeedingIsNotForgotten
<1>1. IInv /\ [Next]_vars => (KeyToCome => KeyToCome')
  BY SeedStep
<1>2. Spec => [][KeyToCome => KeyToCome']_vars
  BY <1>1, Invariant, PTL DEF Spec
<1> QED
  BY <1>2 DEF SeedingIsNotForgotten

=============================================================================
