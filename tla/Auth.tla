-------------------------------- MODULE Auth --------------------------------
(***************************************************************************)
(* src/auth.                                                               *)
(*                                                                         *)
(* The stores of identities and password credentials, in memory and in     *)
(* three databases, and the Verifier of src/auth/password, which looks a   *)
(* credential up, compares, and may rehash it.  The memory, SQLite and     *)
(* Postgres stores run a write under one lock; the MySQL store runs        *)
(* statements one by one and tries again.  A hash is the password it is    *)
(* of and a number: two hashes of one password differ by their salt.       *)
(*                                                                         *)
(* Apart from it, src/auth/session on top of a session: Login promotes the *)
(* session and then saves the claims, two calls of which either may fail;  *)
(* Authenticate reads the claims back on a later request; Guard            *)
(* (src/auth/guard.go) decides what the request may reach.  One session; a *)
(* request works on a staged copy, which is committed when its response    *)
(* starts.                                                                 *)
(***************************************************************************)
EXTENDS Integers, FiniteSets

CONSTANTS Callers, Ids, Emails, Passwords,
          MaxConcurrent,  \* logins that hash at once
          MaxCalls,       \* bound: calls ever started
          Subjects, Roles,
          MaxRequests,    \* bound
          None

VARIABLES backend,
          identities,    \* [Ids -> None, "active" or "disabled"]
          credsByID,     \* [Ids -> None or [email, hash]]
          credsByEmail,  \* [Emails -> None or the owner]: an index, in SQL a unique one
          call, started,
          may            \* history: what the contract could have answered to each call so far

VARIABLES record,   \* the committed session: [user, claims], or None
          staged,   \* what the request under way will commit
          pc, target, ctx, served, requests,
          login     \* history: the subject of the last Login that returned nil and was committed

authVars == <<backend, identities, credsByID, credsByEmail, call, started, may>>

tables == <<identities, credsByID, credsByEmail>>

Idle == [op |-> "none", pc |-> "idle"]

------------------------ (* the contract, src/auth/store/store.go *) ---------

Index(creds) ==
  [e \in Emails |-> IF \E i \in Ids : creds[i] # None /\ creds[i].email = e
                    THEN CHOOSE i \in Ids : creds[i] # None /\ creds[i].email = e ELSE None]

\* Conflicts are ordered ErrNotFound, ErrEmailTaken, then ErrExists.
Outcome(r, ids, creds) ==
  LET owner(e) == Index(creds)[e]
      active(e) == owner(e) # None /\ ids[owner(e)] = "active"
  IN  CASE r.op = "create identity" -> IF ids[r.id] # None THEN "exists" ELSE "ok"
        [] r.op = "set status" -> IF ids[r.id] = None THEN "not found" ELSE "ok"
        [] r.op = "delete identity" -> "ok"
        [] r.op \in {"create password", "set password"} ->
             IF ids[r.id] = None THEN "not found"
             ELSE IF owner(r.email) \notin {None, r.id} THEN "email taken"
             ELSE IF r.op = "create password" /\ creds[r.id] # None THEN "exists" ELSE "ok"
        [] r.op = "update hash" ->
             IF ~active(r.email) THEN "not found"
             ELSE IF creds[owner(r.email)].hash # r.old THEN "hash changed" ELSE "ok"
        [] OTHER -> "ok"

Effect(r, ids, creds) ==
  CASE r.op = "create identity" -> <<[ids EXCEPT ![r.id] = "active"], creds>>
    [] r.op = "set status" -> <<[ids EXCEPT ![r.id] = r.status], creds>>
    [] r.op = "delete identity" -> <<[ids EXCEPT ![r.id] = None], [creds EXCEPT ![r.id] = None]>>
    [] r.op \in {"create password", "set password"} -> <<ids, [creds EXCEPT ![r.id] = [email |-> r.email, hash |-> r.hash]]>>
    [] r.op = "update hash" -> <<ids, [i \in Ids |-> IF creds[i] # None /\ creds[i].email = r.email
                                                        THEN [creds[i] EXCEPT !.hash = r.hash] ELSE creds[i]]>>
    [] OTHER -> <<ids, creds>>

---------------------------------- (* calls *) -------------------------------

\* Some account is there.
Init ==
  /\ backend \in {"memory", "sqlite", "postgres", "mysql"}
  /\ identities = [i \in Ids |-> "active"]
  /\ \E i \in Ids, e \in Emails, p \in Passwords :
       credsByID = [j \in Ids |-> IF j = i THEN [email |-> e, hash |-> <<p, -1>>] ELSE None]
  /\ credsByEmail = Index(credsByID)
  /\ call = [c \in Callers |-> Idle] /\ started = 0 /\ may = [c \in Callers |-> {}]

At(c, step) == call[c].pc = step

Is(c, op) == call[c].op = op

Goto(c, step) == call' = [call EXCEPT ![c].pc = step]

\* history: the answers that have a reason, for every call under way.  MySQL does not
\* keep the order of conflicts when the identity goes between two of its checks.
Reasons(r, ids, creds) ==
  {Outcome(r, ids, creds)} \cup
  (IF r.op \in {"create password", "set password"} /\ Index(creds)[r.email] \notin {None, r.id}
   THEN {"email taken"} ELSE {}) \cup
  (IF r.op = "create password" /\ creds[r.id] # None THEN {"exists"} ELSE {})

Observed(calls, ids, creds) ==
  [c \in Callers |-> IF calls[c].pc \in {"idle", "done"} THEN may[c] ELSE may[c] \cup Reasons(calls[c], ids, creds)]

Keep == /\ UNCHANGED <<backend, started>> /\ may' = Observed(call', identities', credsByID')

\* Nothing of the tables changes.
Read(c, r) == UNCHANGED tables /\ call' = [call EXCEPT ![c] = r] /\ Keep

Done(c, res) == [op |-> call[c].op, pc |-> "done", res |-> res]

Begin(c, r) ==
  /\ call[c].pc \in {"idle", "done"} /\ started < MaxCalls /\ started' = started + 1
  /\ call' = [call EXCEPT ![c] = r]
  /\ may' = [may EXCEPT ![c] = Reasons(r, identities, credsByID)]
  /\ UNCHANGED <<backend, tables>>

IdentityOps == {"create identity", "set status", "delete identity"}

Request(op, i, e, p) ==
  [op |-> op, pc |-> "start", id |-> i, email |-> e, hash |-> <<p, started>>, old |-> None,
   status |-> "disabled", tries |-> 0, res |-> "", subject |-> None]

WriteOps == IdentityOps \cup {"create password", "set password"}

Start(c) ==
  \/ \E op \in IdentityOps, i \in Ids : Begin(c, Request(op, i, None, None))
  \/ \E op \in WriteOps \ IdentityOps, i \in Ids, e \in Emails, p \in Passwords : Begin(c, Request(op, i, e, p))
  \/ \E e \in Emails, p \in Passwords : Begin(c, [Request("login", None, e, p) EXCEPT !.pc = "sem"])

--------------------- (* one lock: memory, SQLite, Postgres *) ---------------

\* One transaction (SQLite: BEGIN IMMEDIATE; Postgres: the advisory lock) or one statement.
ByContract(c) ==
  LET r == call[c]  res == Outcome(r, identities, credsByID)  t == Effect(r, identities, credsByID) IN
  /\ IF res = "ok" THEN identities' = t[1] /\ credsByID' = t[2] /\ credsByEmail' = Index(t[2])
                   ELSE UNCHANGED tables
  /\ call' = [call EXCEPT ![c] = Done(c, res)] /\ Keep

SqliteCreateIdentity(c) == Is(c, "create identity") /\ ByContract(c)

SqliteSetIdentityStatus(c) == Is(c, "set status") /\ ByContract(c)

SqliteDeleteIdentity(c) == Is(c, "delete identity") /\ ByContract(c)

SqliteCreatePassword(c) == Is(c, "create password") /\ ByContract(c)

SqliteSetPassword(c) == Is(c, "set password") /\ ByContract(c)

SqliteUpdateHash(c) == Is(c, "update hash") /\ ByContract(c)

PostgresCreateIdentity(c) == Is(c, "create identity") /\ ByContract(c)

PostgresSetIdentityStatus(c) == Is(c, "set status") /\ ByContract(c)

\* The advisory lock of every transaction on credentials; UpdateHash holds it over two statements.
lockedTx(c) == \A d \in Callers \ {c} : ~(Is(d, "update hash") /\ At(d, "locked"))

PostgresDeleteIdentity(c) == Is(c, "delete identity") /\ lockedTx(c) /\ ByContract(c)

PostgresCreatePassword(c) == Is(c, "create password") /\ lockedTx(c) /\ ByContract(c)

PostgresSetPassword(c) == Is(c, "set password") /\ lockedTx(c) /\ ByContract(c)

\* SetIdentityStatus takes no lock, so the status may change between read and write.
PostgresUpdateHash(c) ==
  LET r == call[c]  res == Outcome(r, identities, credsByID) IN
  /\ Is(c, "update hash")
  /\ \/ At(c, "start") /\ lockedTx(c) /\ Read(c, IF res = "ok" THEN [r EXCEPT !.pc = "locked"] ELSE Done(c, res))
     \/ /\ At(c, "locked")
        /\ credsByID' = [i \in Ids |-> IF credsByID[i] # None /\ credsByID[i].email = r.email
                                      THEN [credsByID[i] EXCEPT !.hash = r.hash] ELSE credsByID[i]]
        /\ call' = [call EXCEPT ![c] = Done(c, "ok")] /\ UNCHANGED <<identities, credsByEmail>> /\ Keep

\* The memory store keeps its two maps of credentials by hand.
MemoryCreateIdentity(c) == Is(c, "create identity") /\ ByContract(c)

MemorySetIdentityStatus(c) == Is(c, "set status") /\ ByContract(c)

MemoryDeleteIdentity(c) ==
  LET i == call[c].id IN
  /\ Is(c, "delete identity")
  /\ identities' = [identities EXCEPT ![i] = None]
  /\ credsByID' = [credsByID EXCEPT ![i] = None]
  /\ credsByEmail' = IF credsByID[i] = None THEN credsByEmail
                     ELSE [credsByEmail EXCEPT ![credsByID[i].email] = None]
  /\ call' = [call EXCEPT ![c] = Done(c, "ok")] /\ Keep

WithoutOld(i) == IF credsByID[i] = None THEN credsByEmail
                 ELSE [credsByEmail EXCEPT ![credsByID[i].email] = None]

MemoryPassword(c) ==
  LET r == call[c] IN
  IF identities[r.id] = None THEN Read(c, Done(c, "not found"))
  ELSE IF credsByEmail[r.email] \notin {None, r.id} THEN Read(c, Done(c, "email taken"))
  ELSE IF r.op = "create password" /\ credsByID[r.id] # None THEN Read(c, Done(c, "exists"))
  ELSE /\ credsByID' = [credsByID EXCEPT ![r.id] = [email |-> r.email, hash |-> r.hash]]
       /\ credsByEmail' = [WithoutOld(r.id) EXCEPT ![r.email] = r.id]
       /\ call' = [call EXCEPT ![c] = Done(c, "ok")] /\ UNCHANGED identities /\ Keep

MemoryCreatePassword(c) == Is(c, "create password") /\ MemoryPassword(c)

MemorySetPassword(c) == Is(c, "set password") /\ MemoryPassword(c)

activeCredential(e) == credsByEmail[e] # None /\ identities[credsByEmail[e]] = "active"

MemoryUpdateHash(c) ==
  LET r == call[c] IN
  /\ Is(c, "update hash")
  /\ IF ~activeCredential(r.email) THEN Read(c, Done(c, "not found"))
     ELSE IF credsByID[credsByEmail[r.email]].hash # r.old THEN Read(c, Done(c, "hash changed"))
     ELSE /\ credsByID' = [credsByID EXCEPT ![credsByEmail[r.email]].hash = r.hash]
          /\ call' = [call EXCEPT ![c] = Done(c, "ok")] /\ UNCHANGED <<identities, credsByEmail>> /\ Keep

MemoryStep(c) ==
  \/ MemoryCreateIdentity(c) \/ MemorySetIdentityStatus(c) \/ MemoryDeleteIdentity(c)
  \/ MemoryCreatePassword(c) \/ MemorySetPassword(c) \/ MemoryUpdateHash(c)

SqliteStep(c) ==
  \/ SqliteCreateIdentity(c) \/ SqliteSetIdentityStatus(c) \/ SqliteDeleteIdentity(c)
  \/ SqliteCreatePassword(c) \/ SqliteSetPassword(c) \/ SqliteUpdateHash(c)

PostgresStep(c) ==
  \/ PostgresCreateIdentity(c) \/ PostgresSetIdentityStatus(c) \/ PostgresDeleteIdentity(c)
  \/ PostgresCreatePassword(c) \/ PostgresSetPassword(c) \/ PostgresUpdateHash(c)

----------------------------- (* MySQL, by statements *) ---------------------

MysqlCreateIdentity(c) == At(c, "start") /\ Is(c, "create identity") /\ ByContract(c)

MysqlDeleteIdentity(c) == At(c, "start") /\ Is(c, "delete identity") /\ ByContract(c)

Retry(c) == IF call[c].tries = 2 THEN Done(c, "raced")
            ELSE [call[c] EXCEPT !.pc = "start", !.tries = @ + 1]

\* An UPDATE that changes nothing counts no row: the row is read back.
MysqlSetIdentityStatus(c) ==
  LET r == call[c] IN
  /\ Is(c, "set status")
  /\ \/ /\ At(c, "start") /\ identities[r.id] # None
        /\ ByContract(c)
     \/ /\ At(c, "start") /\ identities[r.id] \in {None, r.status} /\ Read(c, [r EXCEPT !.pc = "read back"])
     \/ /\ At(c, "read back")
        /\ Read(c, IF identities[r.id] = None THEN Done(c, "not found") ELSE Retry(c))
     \/ /\ At(c, "read back") /\ identities[r.id] = r.status /\ Read(c, Done(c, "ok"))

MysqlCheckPasswordWrite(c) ==
  LET r == call[c] IN
  /\ r.op \in {"create password", "set password"}
  /\ \/ /\ At(c, "start")
        /\ Read(c, IF identities[r.id] = None THEN Done(c, "not found") ELSE [r EXCEPT !.pc = "owner"])
     \/ /\ At(c, "owner")
        /\ Read(c, IF credsByEmail[r.email] \notin {None, r.id} THEN Done(c, "email taken") ELSE [r EXCEPT !.pc = "write"])

\* INSERT: duplicate key, foreign key violation, or a new row
InsertCredential(c, dup) ==
  LET r == call[c]  creds == [credsByID EXCEPT ![r.id] = [email |-> r.email, hash |-> r.hash]] IN
  IF identities[r.id] = None THEN Read(c, Done(c, "not found"))
  ELSE IF credsByID[r.id] # None \/ credsByEmail[r.email] # None THEN Read(c, dup)
  ELSE /\ credsByID' = creds /\ credsByEmail' = Index(creds) /\ UNCHANGED identities
       /\ call' = [call EXCEPT ![c] = Done(c, "ok")] /\ Keep

MysqlCreatePassword(c) ==
  /\ Is(c, "create password")
  /\ \/ /\ At(c, "write")
        /\ Read(c, IF credsByID[call[c].id] # None THEN Done(c, "exists") ELSE [call[c] EXCEPT !.pc = "insert"])
     \/ At(c, "insert") /\ InsertCredential(c, Retry(c))

MysqlSetPassword(c) ==
  LET r == call[c]  creds == [credsByID EXCEPT ![r.id] = [email |-> r.email, hash |-> r.hash]] IN
  /\ Is(c, "set password")
  /\ \/ /\ At(c, "write") /\ credsByID[r.id] # None
        /\ IF credsByEmail[r.email] \notin {None, r.id} THEN Read(c, Retry(c))
           ELSE /\ credsByID' = creds /\ credsByEmail' = Index(creds) /\ UNCHANGED identities
                /\ call' = [call EXCEPT ![c] = Done(c, "ok")] /\ Keep
     \/ At(c, "write") /\ credsByID[r.id] = None /\ Read(c, [r EXCEPT !.pc = "same"])
     \/ At(c, "same") /\ Read(c, IF credsByID[r.id] = [email |-> r.email, hash |-> r.hash] THEN Done(c, "ok")
                                 ELSE [r EXCEPT !.pc = "insert"])
     \/ At(c, "insert") /\ InsertCredential(c, Retry(c))

\* Mutant: the old hash is checked by a SELECT before the UPDATE.
MysqlUpdateHashUnguarded(c) ==
  LET r == call[c] IN
  /\ Is(c, "update hash")
  /\ \/ /\ At(c, "start")
        /\ Read(c, IF activeCredential(r.email) /\ credsByID[credsByEmail[r.email]].hash = r.old
                   THEN [r EXCEPT !.pc = "read back"] ELSE Done(c, "hash changed"))
     \/ /\ At(c, "read back") /\ credsByEmail[r.email] # None
        /\ credsByID' = [credsByID EXCEPT ![credsByEmail[r.email]].hash = r.hash]
        /\ call' = [call EXCEPT ![c] = Done(c, "ok")] /\ UNCHANGED <<identities, credsByEmail>> /\ Keep

\* A guarded UPDATE; a zero count is classified by a read.
MysqlUpdateHash(c) ==
  LET r == call[c] IN
  /\ Is(c, "update hash")
  /\ \/ At(c, "start") /\ Outcome(r, identities, credsByID) = "ok" /\ ByContract(c)
     \/ /\ At(c, "start") /\ Outcome(r, identities, credsByID) # "ok" /\ Read(c, [r EXCEPT !.pc = "read back"])
     \/ /\ At(c, "read back")
        /\ Read(c, Done(c, IF activeCredential(r.email) THEN "hash changed" ELSE "not found"))

MysqlStep(c) ==
  \/ MysqlCreateIdentity(c) \/ MysqlDeleteIdentity(c) \/ MysqlSetIdentityStatus(c)
  \/ MysqlCheckPasswordWrite(c) \/ MysqlCreatePassword(c) \/ MysqlSetPassword(c) \/ MysqlUpdateHash(c)

----------------------- (* Verifier, src/auth/password *) --------------------

Holding == {c \in Callers : call[c].op \in {"login", "update hash"} /\ call[c].pc \notin {"idle", "done", "sem"}}

\* Authenticate waits for the semaphore; its context may end first.
Acquire(c) ==
  \/ At(c, "sem") /\ Cardinality(Holding) < MaxConcurrent /\ Read(c, [call[c] EXCEPT !.pc = "lookup"])
  \/ At(c, "sem") /\ Read(c, Done(c, "canceled"))

\* Lookup of the four stores: one read
Lookup(c) ==
  /\ At(c, "lookup")
  /\ Read(c, IF activeCredential(call[c].email)
             THEN [call[c] EXCEPT !.pc = "compare", !.old = credsByID[credsByEmail[call[c].email]].hash,
                                  !.subject = credsByEmail[call[c].email]]
             ELSE Done(c, "invalid"))

\* Compare, and then maybeRehash: NeedsRehash depends on the profile of the hash.
Compare(c) ==
  LET r == call[c] IN
  /\ At(c, "compare")
  /\ \/ r.old[1] # r.hash[1] /\ Read(c, Done(c, "invalid"))
     \/ r.old[1] = r.hash[1] /\ Read(c, Done(c, "ok"))
     \/ r.old[1] = r.hash[1] /\ Read(c, [r EXCEPT !.op = "update hash", !.pc = "start"])

---------------------------------- (* Next *) --------------------------------

Next ==
  \E c \in Callers :
    \/ Start(c) \/ Acquire(c) \/ Lookup(c) \/ Compare(c)
    \/ At(c, "start") /\ backend = "memory" /\ MemoryStep(c)
    \/ At(c, "start") /\ backend = "sqlite" /\ SqliteStep(c)
    \/ call[c].pc \in {"start", "locked"} /\ backend = "postgres" /\ PostgresStep(c)
    \/ backend = "mysql" /\ MysqlStep(c)

Spec == Init /\ [][Next]_authVars

------------------------------- (* properties *) -----------------------------

\* The index by email names the owner of every credential and nobody else, and no
\* credential outlives its identity, whatever was renamed, replaced or deleted.
EmailIndexExact ==
  /\ credsByEmail = Index(credsByID)
  /\ \A i \in Ids : credsByID[i] # None => identities[i] # None /\ credsByEmail[credsByID[i].email] = i

\* Every answer of a store has a reason in the contract of Store at some moment of the
\* call, also where MySQL checks, writes and tries again while
\* others write; "raced repeatedly" is the only other answer.
AnswerJustified ==
  \A c \in Callers : At(c, "done") /\ call[c].op \in WriteOps =>
    call[c].res \in may[c] \cup {"raced"}

\* Every change of the tables is the effect of one call of the contract, in a state in
\* which the contract allows it (a rehash: at a moment of its call, as a login is over
\* once the status was read).
ChangesByContract ==
  <<identities, credsByID>>' # <<identities, credsByID>> =>
    \E c \in Callers : /\ call[c].pc \notin {"idle", "done"}
                       /\ Outcome(call[c], identities, credsByID) = "ok" \/ (Is(c, "update hash") /\ "ok" \in may[c])
                       /\ <<identities, credsByID>>' = Effect(call[c], identities, credsByID)

\* "maybeRehash skips a CAS miss because the verified hash is no longer current": a
\* login never brings back a password, nor touches the credential of another identity.
RehashKeepsPassword ==
  \A i \in Ids : credsByID[i] # None /\ credsByID'[i] # None /\ credsByID'[i] # credsByID[i]
    /\ (\E c \in Callers : call'[c] # call[c] /\ Is(c, "update hash")) =>
      /\ credsByID'[i].hash[1] = credsByID[i].hash[1]
      /\ \E c \in Callers : call'[c] # call[c] /\ call[c].subject = i

---------------- (* login, and what a request may reach *) --------------------

authnVars == <<record, staged, pc, target, ctx, served, requests, login>>

Fresh == [user |-> None, claims |-> None, login |-> None]

Claims(s, r) == [subject |-> s, roles |-> r]

LoginInit ==
  /\ record = None /\ staged = Fresh /\ pc = "idle" /\ target = None /\ ctx = None /\ served = "none"
  /\ requests = 0 /\ login = None

Stays == UNCHANGED <<record, requests, login>>

\* A request arrives; another scheme may have attached claims already, also a token
\* of a client without a subject.
Arrive ==
  /\ pc = "idle" /\ requests < MaxRequests /\ requests' = requests + 1 /\ pc' = "middleware"
  /\ staged' = IF record = None THEN Fresh ELSE record
  /\ \E c \in {None, Claims(None, Roles)} : ctx' = c
  /\ target' = None /\ served' = "none" /\ UNCHANGED <<record, login>>

\* Nothing stored, or a mismatch (an error, which Middleware logs): anonymous.
Authenticate(s) ==
  IF s.claims = None THEN None
  ELSE IF s.user # s.claims.subject THEN None ELSE s.claims

Middleware ==
  /\ pc = "middleware" /\ pc' = "guard"
  /\ ctx' = IF ctx = None THEN Authenticate(staged) ELSE ctx
  /\ UNCHANGED <<staged, target, served>> /\ Stays

IsAuthenticated(c) == c # None /\ c.subject # None

HasRole(c, r) == c # None /\ r \in c.roles

require(granted, c) == IF ~IsAuthenticated(c) THEN "unauthenticated" ELSE IF ~granted THEN "forbidden" ELSE "next"

Guard ==
  /\ pc = "guard" /\ pc' = "handler"
  /\ \/ served' = <<"any", require(TRUE, ctx)>>
     \/ \E r \in Roles : served' = <<r, require(HasRole(ctx, r), ctx)>>
  /\ UNCHANGED <<staged, target, ctx>> /\ Stays

\* Login: Promote; the claims of the old user stay in their cell for now.
Promote ==
  /\ pc = "handler"
  /\ \/ \E s \in Subjects : staged' = [staged EXCEPT !.user = s] /\ target' = s /\ pc' = "save"
     \/ pc' = "respond" /\ UNCHANGED <<staged, target>>
  /\ UNCHANGED <<ctx, served>> /\ Stays

\* Save of the claims; if it fails, Destroy, which may fail as well.
SaveClaims ==
  /\ pc = "save" /\ pc' = "respond"
  /\ \/ \E r \in SUBSET Roles : staged' = [staged EXCEPT !.claims = Claims(target, r), !.login = target]
     \/ staged' = Fresh
     \/ UNCHANGED staged
  /\ UNCHANGED <<target, ctx, served>> /\ Stays

Logout ==
  /\ pc = "handler" /\ pc' = "respond"
  /\ \/ staged' = Fresh
     \/ UNCHANGED staged
  /\ UNCHANGED <<target, ctx, served>> /\ Stays

\* The response starts: the session is committed, or the commit fails.
Respond ==
  /\ pc = "respond" /\ pc' = "idle"
  /\ \/ record' = (IF staged = Fresh THEN None ELSE staged) /\ login' = staged.login
     \/ UNCHANGED <<record, login>>
  /\ staged' = Fresh /\ target' = None /\ ctx' = None /\ UNCHANGED <<served, requests>>

LoginNext == Arrive \/ Middleware \/ Guard \/ Promote \/ SaveClaims \/ Logout \/ Respond

LoginSpec == LoginInit /\ [][LoginNext]_authnVars

\* "to prevent stale claims from authenticating the new identity" (Login): a request
\* is authenticated only as the user of the session, and only if a Login as that user
\* completed; claims left from an earlier user never pass for a promoted one.
NoStaleClaims ==
  pc \in {"guard", "handler"} /\ ctx # None /\ ctx.subject # None =>
    ctx.subject = record.user /\ ctx.subject = login

\* A guard lets a request through only with an authenticated principal that has the
\* role asked for: the grants of a token without a subject do not count.
GuardNeedsPrincipal ==
  pc = "handler" /\ served[2] = "next" =>
    /\ record # None /\ ctx.subject = record.user
    /\ served[1] \in Roles => served[1] \in record.claims.roles
=============================================================================
