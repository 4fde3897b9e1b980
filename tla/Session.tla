------------------------------ MODULE Session ------------------------------
(***************************************************************************)
(* The session manager (src/session): what concurrent requests, the        *)
(* goroutines inside them and out-of-band callers do to session records,   *)
(* and flash messages (src/flash) kept in one of the cells.                *)
(*                                                                         *)
(* st[r] is the state that the middleware attaches to a request.  The      *)
(* store is the contract of SessionStore: one call is one step, and others *)
(* act between two calls.  st.mu is held over store calls and given up     *)
(* while the closure of an Update runs: lock[r] says who holds it.         *)
(* A payload maps each cell to a set of messages or to NoCell, or is Bad   *)
(* (bytes that are not an envelope).  The decoded cells that a request     *)
(* caches always are those of the record it holds, and are not kept twice. *)
(***************************************************************************)
EXTENDS Integers, FiniteSets, FiniteSetsExt

CONSTANTS
  Requests, Calls, Tools,  \* requests; Update calls inside them; out-of-band callers
  RequestOf,               \* the request a call runs in
  Sids,                    \* session ids, as numbers: the order in which they are drawn
  NoSid, Users, NoUser,
  Cells, App, Flash,       \* cell names: the application's, and the flash package's own
  NoCell, Tomb, Unset,     \* no such cell; a staged removal; nothing staged
  Bad,                     \* a payload that does not decode
  NoRec,
  AbsoluteExpiry, IdleExpiry, IdleBumpInterval, \* Config
  MaxRetries, MaxTime, MaxOps,                  \* retries; bounds on time and on the calls made
  Seeds,                   \* payloads of the session that exists at first
  Rotates, Fails,          \* whether handlers rotate, whether deletes and saves may fail
  Sequential               \* whether a handler waits for its Update before its next call

VARIABLES
  records, now,
  born,     \* the session ids drawn so far, with the request that drew each
  st, lock, \* per request: its state, and who holds st.mu
  call,     \* per Update call
  tool,     \* per out-of-band caller
  ops,      \* calls that handlers and out-of-band callers have made
  truth,    \* sid -> what acknowledged writes say its cells hold (history)
  rotated,  \* session ids created by a rotation (history)
  got       \* message -> number of Takes that returned it (history)

vars == <<records, now, born, st, lock, call, tool, ops, truth, rotated, got>>

Messages == Calls \cup Tools \cup Requests
Value == SUBSET Messages
Free == "free"

------------------------------ (* the store *) ------------------------------

Lapsed(rec, t) == (rec.abs # 0 /\ t >= rec.abs) \/ (rec.idle # 0 /\ t >= rec.idle)
Live(s) == records[s] # NoRec /\ ~Lapsed(records[s], now)
StorePut(s, rec) == records' = [records EXCEPT ![s] = [rec EXCEPT !.version = @ + 1]]
StoreDelete(S) == records' = [s \in Sids |-> IF s \in S THEN NoRec ELSE records[s]]

\* Mutant: a record that is gone is no conflict.
ConflictOnlyChanged(s, rec) == records[s] # NoRec /\ records[s].version # rec.version

\* Save of a loaded record: a missing record is a conflict too.
Conflict(s, rec) == records[s] = NoRec \/ records[s].version # rec.version

--------------------------- (* request state *) -----------------------------

NothingStaged == [c \in Cells |-> Unset]
Fresh == [version |-> 0, user |-> NoUser, abs |-> 0, idle |-> 0, payload |-> [c \in Cells |-> NoCell]]

NewState(sid) ==
  [arrived |-> sid, stale |-> FALSE, loaded |-> FALSE, exists |-> FALSE, sid |-> NoSid, rec |-> Fresh,
   staged |-> NothingStaged, open |-> FALSE, seq |-> [c \in Cells |-> 0],
   destroyed |-> NoSid, renew |-> FALSE, promote |-> FALSE, user |-> NoUser,
   tokenNeeded |-> FALSE, started |-> FALSE,
   pc |-> "new", clear |-> FALSE, old |-> NoSid, attempt |-> 0, token |-> "none"]

ensureLoaded(s) ==
  IF s.loaded THEN s
  ELSE IF s.arrived = NoSid THEN [s EXCEPT !.loaded = TRUE]
  ELSE IF Live(s.arrived)
       THEN [s EXCEPT !.loaded = TRUE, !.exists = TRUE, !.sid = s.arrived, !.rec = records[s.arrived]]
       ELSE [s EXCEPT !.loaded = TRUE, !.stale = TRUE, !.arrived = NoSid]

decodes(s) == s.exists => s.rec.payload # Bad

pendingMint(s) == s.promote \/ \E c \in Cells : s.staged[c] \notin {Unset, Tomb}

mergedView(s) ==
  [c \in Cells |-> CASE s.staged[c] = Unset -> s.rec.payload[c]
                     [] s.staged[c] = Tomb  -> NoCell
                     [] OTHER               -> s.staged[c]]

\* A nil map is replaced first, so the sequences restart.
stage(s, c, v) ==
  [s EXCEPT !.staged[c] = v, !.open = TRUE,
            !.seq = [d \in Cells |-> (IF s.open THEN @[d] ELSE 0) + (IF d = c THEN 1 ELSE 0)]]

\* st.staged = nil
unstage(s) == [s EXCEPT !.staged = NothingStaged, !.open = FALSE]

\* The request-current value of a cell.
cellGet(s, c) == IF s.staged[c] = Tomb THEN NoCell
                 ELSE IF s.staged[c] # Unset THEN s.staged[c]
                 ELSE s.rec.payload[c]

idleFrom(t) == IF IdleExpiry > 0 THEN t + IdleExpiry ELSE 0

---------------------- (* handler calls without I/O *) ----------------------

\* A handler may go on after the commit, failed or not.
Serving == {"handler", "after", "failed"}

\* The middleware reads the token; the client may hold one that is long dead.
Arrive(r, sid) ==
  /\ st[r].pc = "new"
  /\ st' = [st EXCEPT ![r] = [NewState(sid) EXCEPT !.pc = "handler"]]
  /\ UNCHANGED <<records, now, born, lock, call, tool, ops, truth, rotated, got>>

\* No Update of the request is under way, if its handler makes one call at a time.
Quiet(r) == Sequential => \A k \in Calls : RequestOf[k] = r => call[k].pc \in {"idle", "done", "failed"}

\* A handler call of request r, with st.mu free, that takes its state to s.
HandlerCall(r, s) ==
  /\ st[r].pc \in Serving /\ lock[r] = Free /\ Quiet(r) /\ ops < MaxOps
  /\ ops' = ops + 1
  /\ st' = [st EXCEPT ![r] = s]
  /\ UNCHANGED <<records, now, born, lock, call, tool, truth, rotated, got>>

\* Get, Has, SID, UserID: load on first use.
Read(r) == ~st[r].loaded /\ HandlerCall(r, ensureLoaded(st[r]))

cellSave(r, c) ==
  LET s == ensureLoaded(st[r])
  IN  /\ ~st[r].started
      /\ HandlerCall(r, IF decodes(s) THEN stage(s, c, {r}) ELSE s)

cellClear(r, c) ==
  LET s == ensureLoaded(st[r])
      present == IF s.staged[c] # Unset THEN s.staged[c] # Tomb
                 ELSE s.exists /\ s.rec.payload # Bad /\ s.rec.payload[c] # NoCell
  IN  /\ ~st[r].started
      /\ HandlerCall(r, IF present THEN stage(s, c, Tomb) ELSE s)

Renew(r) ==
  LET s == ensureLoaded(st[r])
  IN  /\ Rotates /\ ~st[r].started
      /\ HandlerCall(r, IF s.exists \/ pendingMint(s) THEN [s EXCEPT !.renew = TRUE] ELSE s)

Promote(r, u) ==
  LET s == ensureLoaded(st[r])
  IN  /\ Rotates /\ ~st[r].started
      /\ HandlerCall(r, [s EXCEPT !.promote = TRUE, !.user = u, !.renew = @ \/ s.exists])

Destroy(r) ==
  LET s == ensureLoaded(st[r])
  IN  /\ ~st[r].started
      /\ HandlerCall(r, unstage([s EXCEPT !.destroyed = IF s.exists THEN s.sid ELSE @,
                                          !.exists = FALSE, !.sid = NoSid, !.rec = Fresh,
                                          !.renew = FALSE, !.promote = FALSE, !.user = NoUser,
                                          !.tokenNeeded = FALSE]))

------------------------------- (* Update *) --------------------------------

NoCall == [pc |-> "idle", cell |-> Flash, kind |-> "add", base |-> {}, staged |-> FALSE, seq |-> 0, attempt |-> 0]
Finished(k) == [call EXCEPT ![k] = [NoCall EXCEPT !.pc = "done"]]
Failed(k) == [call EXCEPT ![k] = [NoCall EXCEPT !.pc = "failed"]]

\* What a closure makes of a base value; an absent cell decodes to the zero value.
closure(k, base) ==
  LET v == IF base \in {NoCell, Tomb} THEN {} ELSE base
  IN  IF call[k].kind = "add" THEN v \cup {k} ELSE {}

\* The input of one attempt.
updateBase(s, c) ==
  IF s.staged[c] # Unset THEN [base |-> s.staged[c], staged |-> TRUE, seq |-> s.seq[c]]
  ELSE [base |-> s.rec.payload[c], staged |-> FALSE, seq |-> 0]

InClosure(k, kind, c, s, n) ==
  LET b == updateBase(s, c)
  IN  [pc |-> "closure", cell |-> c, kind |-> kind, base |-> b.base, staged |-> b.staged,
       seq |-> b.seq, attempt |-> n]

\* cellUpdate up to its closure.  flash.Add adds a message; flash.Take first reads
\* the cell and writes nothing if there is no message (flash.Clear is a Take that
\* drops what it gets).
UpdateStart(k, kind, c) ==
  LET r == RequestOf[k]
      s == ensureLoaded(st[r])
  IN  /\ st[r].pc \in Serving /\ lock[r] = Free /\ Quiet(r) /\ ops < MaxOps
      /\ call[k].pc = "idle"
      /\ (s.exists \/ ~s.started) /\ decodes(s)
      /\ kind = "take" => c = Flash /\ cellGet(s, c) \notin {NoCell, {}}
      /\ ops' = ops + 1
      /\ st' = [st EXCEPT ![r] = s]
      /\ call' = [call EXCEPT ![k] = InClosure(k, kind, c, s, 0)]
      /\ UNCHANGED <<records, now, born, lock, tool, truth, rotated, got>>

\* What the acknowledged Update means for the cell, whatever base it computed from.
Meant(k, cur) ==
  LET v == IF cur = NoCell THEN {} ELSE cur
  IN  IF call[k].kind = "take" THEN {}
      ELSE IF call[k].staged THEN closure(k, call[k].base) ELSE v \cup {k}

Delivered(k) ==
  got' = IF call[k].kind = "take" /\ call[k].base \notin {NoCell, Tomb}
         THEN [m \in Messages |-> got[m] + IF m \in call[k].base THEN 1 ELSE 0] ELSE got

\* The closure has returned: write what it made of its base over the cells of the
\* record that the request holds by now.
UpdateSave(k) ==
  LET r == RequestOf[k]
      s == st[r]
      c == call[k].cell
      rec == [s.rec EXCEPT !.payload[c] = closure(k, call[k].base), !.idle = idleFrom(now)]
      drop == call[k].staged /\ s.seq[c] = call[k].seq
  IN  /\ call[k].pc = "closure" /\ lock[r] = Free /\ s.exists
      /\ IF ~Conflict(s.sid, s.rec)
         THEN /\ StorePut(s.sid, rec)
              /\ st' = [st EXCEPT ![r].rec = [rec EXCEPT !.version = @ + 1], ![r].tokenNeeded = TRUE,
                                  ![r].staged[c] = IF drop THEN Unset ELSE @]
              /\ truth' = [truth EXCEPT ![s.sid][c] = Meant(k, @)]
              /\ Delivered(k) /\ call' = Finished(k) /\ UNCHANGED lock
         ELSE /\ UNCHANGED <<records, st, truth, got>>
              /\ IF call[k].attempt < MaxRetries
                 THEN lock' = [lock EXCEPT ![r] = k] /\ call' = [call EXCEPT ![k].pc = "reload"]
                 ELSE UNCHANGED lock /\ call' = Failed(k)
      /\ UNCHANGED <<now, born, tool, ops, rotated>>

\* reloadCells and the next attempt.
UpdateReload(k) ==
  LET r == RequestOf[k]
      s == [st[r] EXCEPT !.rec = records[st[r].sid]]
  IN  /\ call[k].pc = "reload"
      /\ IF Live(st[r].sid) /\ s.rec.payload # Bad
         THEN st' = [st EXCEPT ![r] = s]
              /\ call' = [call EXCEPT ![k] = InClosure(k, @.kind, @.cell, s, @.attempt + 1)]
         ELSE call' = Failed(k) /\ UNCHANGED st
      /\ lock' = [lock EXCEPT ![r] = Free]
      /\ UNCHANGED <<records, now, born, tool, ops, truth, rotated, got>>

\* mintForUpdate, first call: the record of an earlier Destroy goes before the mint.
UpdateMintDelete(k) ==
  LET r == RequestOf[k]
  IN  /\ call[k].pc = "closure" /\ lock[r] = Free /\ ~st[r].exists /\ st[r].destroyed # NoSid
      /\ StoreDelete({st[r].destroyed})
      /\ st' = [st EXCEPT ![r].destroyed = NoSid]
      /\ lock' = [lock EXCEPT ![r] = k]
      /\ call' = [call EXCEPT ![k].pc = "mint"]
      /\ UNCHANGED <<now, born, tool, ops, truth, rotated, got>>

\* insertFresh: an id that nobody drew before.  A collision with a record writes
\* nothing and is retried; only the draw that works is a step.
insertFresh(r, sid, rec) ==
  /\ Sids # DOMAIN born /\ sid = Min(Sids \ DOMAIN born)
  /\ born' = [x \in DOMAIN born \cup {sid} |-> IF x = sid THEN r ELSE born[x]]
  /\ records' = [records EXCEPT ![sid] = [rec EXCEPT !.version = 1]]

MintRecord(s, payload) ==
  [version |-> 0, user |-> IF s.promote THEN s.user ELSE NoUser,
   abs |-> now + AbsoluteExpiry, idle |-> idleFrom(now), payload |-> payload]

\* mintForUpdate, second call: a session for the staged cells and this one.
UpdateMint(k, sid) ==
  LET r == RequestOf[k]
      s == st[r]
      payload == [mergedView(s) EXCEPT ![call[k].cell] = closure(k, call[k].base)]
      rec == MintRecord(s, payload)
  IN  /\ \/ call[k].pc = "mint"
         \/ call[k].pc = "closure" /\ lock[r] = Free /\ ~s.exists /\ s.destroyed = NoSid
      /\ insertFresh(r, sid, rec)
      /\ st' = [st EXCEPT ![r] = unstage([s EXCEPT !.exists = TRUE, !.sid = sid, !.tokenNeeded = TRUE,
                                                   !.rec = [rec EXCEPT !.version = 1]])]
      /\ truth' = [truth EXCEPT ![sid] = payload]
      /\ Delivered(k) /\ call' = Finished(k) /\ lock' = [lock EXCEPT ![r] = Free]
      /\ UNCHANGED <<now, tool, ops, rotated>>

------------------------------- (* commit *) --------------------------------

\* What a commit writes, laid over what acknowledged writes said before.
Overlay(s, cells) ==
  [c \in Cells |-> CASE s.staged[c] = Unset -> cells[c] [] s.staged[c] = Tomb -> NoCell [] OTHER -> s.staged[c]]

At(r, pc) == st[r].pc = pc /\ lock[r] = r

\* The first byte of the response, or the handler's return, starts the commit, which
\* goes on to its first store call with st.mu held.
Starts(r) == st[r].pc = "handler" /\ lock[r] = Free /\ Quiet(r)
begun(s) == IF s.started THEN s ELSE [s EXCEPT !.started = TRUE, !.clear = s.stale]
AtWrite(r) == At(r, "write") \/ (Starts(r) /\ st[r].destroyed = NoSid)

CommitFails(r) ==
  /\ st' = [st EXCEPT ![r] = [begun(@) EXCEPT !.pc = "failed"]] /\ lock' = [lock EXCEPT ![r] = Free]
  /\ UNCHANGED <<records, now, born, call, tool, ops, truth, rotated, got>>

\* Logout deletes before anything is written.
CommitDelete(r) ==
  /\ Starts(r) /\ st[r].destroyed # NoSid
  /\ \/ /\ StoreDelete({st[r].destroyed})
        /\ st' = [st EXCEPT ![r] = [begun(@) EXCEPT !.destroyed = NoSid, !.clear = TRUE, !.pc = "write"]]
        /\ lock' = [lock EXCEPT ![r] = r]
        /\ UNCHANGED <<now, born, call, tool, ops, truth, rotated, got>>
     \/ Fails /\ CommitFails(r)

\* The end of a commit that worked: one token instruction, and a set supersedes a clear.
Committed(r, s, tokenWrite) ==
  /\ st' = [st EXCEPT ![r] = [s EXCEPT !.pc = "after",
                     !.token = IF tokenWrite THEN "set" ELSE IF s.clear THEN "clear" ELSE "none"]]
  /\ lock' = [lock EXCEPT ![r] = Free]

Rotating(s) == s.exists /\ s.renew
Dirty(s) == s.exists /\ ~s.renew /\ \E c \in Cells : s.staged[c] # Unset

\* rotateAtCommit: the new record first, from the cells this request loaded.
RotateInsert(r, sid) ==
  LET s == begun(st[r])
      rec == [version |-> 0, user |-> IF s.promote THEN s.user ELSE s.rec.user, abs |-> s.rec.abs,
              idle |-> idleFrom(now),
              payload |-> IF s.rec.payload = Bad THEN Bad ELSE mergedView(s)]
  IN  /\ AtWrite(r) /\ Rotating(s)
      /\ insertFresh(r, sid, rec)
      /\ st' = [st EXCEPT ![r] = unstage([s EXCEPT !.old = s.sid, !.sid = sid, !.pc = "delold",
                                                   !.rec = [rec EXCEPT !.version = 1]])]
      /\ truth' = [truth EXCEPT ![sid] = IF s.rec.payload = Bad THEN @ ELSE Overlay(s, truth[s.sid])]
      /\ rotated' = rotated \cup {sid}
      /\ lock' = [lock EXCEPT ![r] = r]
      /\ UNCHANGED <<now, call, tool, ops, got>>

\* The old record is deleted on a best-effort basis.
RotateDelete(r) ==
  /\ At(r, "delold")
  /\ StoreDelete({st[r].old}) \/ (Fails /\ UNCHANGED records)
  /\ Committed(r, st[r], TRUE)
  /\ UNCHANGED <<now, born, call, tool, ops, truth, rotated, got>>

\* commitDirty, one Save.
commitDirty(r) ==
  LET s == begun(st[r])
      rec == [s.rec EXCEPT !.payload = mergedView(s), !.idle = idleFrom(now)]
  IN  /\ AtWrite(r) /\ Dirty(s) /\ s.rec.payload # Bad
      /\ IF ~Conflict(s.sid, s.rec)
         THEN /\ StorePut(s.sid, rec)
              /\ Committed(r, unstage([s EXCEPT !.rec = [rec EXCEPT !.version = @ + 1]]), TRUE)
              /\ truth' = [truth EXCEPT ![s.sid] = Overlay(s, @)]
              /\ UNCHANGED <<now, born, call, tool, ops, rotated, got>>
         ELSE IF s.attempt < MaxRetries
              THEN /\ st' = [st EXCEPT ![r] = [s EXCEPT !.pc = "reload"]]
                   /\ lock' = [lock EXCEPT ![r] = r]
                   /\ UNCHANGED <<records, now, born, call, tool, ops, truth, rotated, got>>
              ELSE CommitFails(r)

\* commitDirty, the reload after a conflict.
CommitReload(r) ==
  LET s == begun(st[r])
  IN  /\ At(r, "reload")
      /\ IF Live(s.sid) /\ records[s.sid].payload # Bad
         THEN /\ st' = [st EXCEPT ![r].rec = records[s.sid], ![r].attempt = @ + 1, ![r].pc = "write"]
              /\ UNCHANGED <<records, now, born, lock, call, tool, ops, truth, rotated, got>>
         ELSE CommitFails(r)

mintAtCommit(r, sid) ==
  LET s == begun(st[r])
      rec == MintRecord(s, mergedView(s))
  IN  /\ AtWrite(r) /\ ~s.exists /\ pendingMint(s)
      /\ insertFresh(r, sid, rec)
      /\ Committed(r, unstage([s EXCEPT !.exists = TRUE, !.sid = sid, !.rec = [rec EXCEPT !.version = 1]]), TRUE)
      /\ truth' = [truth EXCEPT ![sid] = mergedView(s)]
      /\ UNCHANGED <<now, call, tool, ops, rotated, got>>

\* A Save that the store refuses for another reason than a conflict, or ids drawn
\* too often that are taken; malformed bytes under staged cells.
CommitSaveFails(r) ==
  LET s == begun(st[r])
  IN  /\ AtWrite(r)
      /\ \/ Fails /\ (Rotating(s) \/ Dirty(s) \/ (~s.exists /\ pendingMint(s)))
         \/ Dirty(s) /\ s.rec.payload = Bad
      /\ CommitFails(r)

BumpDue(s) == IdleBumpInterval > 0 /\ IdleExpiry > 0 /\ s.rec.idle - now <= IdleExpiry - IdleBumpInterval

\* Nothing staged: maybe slide the idle deadline, without touching the version.
maybeBumpIdle(r) ==
  LET s == begun(st[r])
      bumped == BumpDue(s) /\ Live(s.sid)
  IN  /\ AtWrite(r) /\ s.exists /\ ~Rotating(s) /\ ~Dirty(s)
      /\ IF bumped THEN records' = [records EXCEPT ![s.sid].idle = now + IdleExpiry] ELSE UNCHANGED records
      /\ Committed(r, [s EXCEPT !.rec.idle = IF bumped THEN now + IdleExpiry ELSE @], bumped \/ s.tokenNeeded)
      /\ UNCHANGED <<now, born, call, tool, ops, truth, rotated, got>>

NothingToWrite(r) ==
  /\ AtWrite(r) /\ ~st[r].exists /\ ~pendingMint(st[r])
  /\ Committed(r, begun(st[r]), FALSE)
  /\ UNCHANGED <<records, now, born, call, tool, ops, truth, rotated, got>>

------------------------- (* out-of-band callers *) -------------------------

IdleTool == [pc |-> "idle", kind |-> "add", sid |-> NoSid, rec |-> Fresh, attempt |-> 0]

\* mutateCellsSID: the load of one attempt of UpdateSID or ClearSID on the app cell.
ToolLoad(t, kind, s) ==
  /\ \/ tool[t].pc = "idle" /\ ops < MaxOps /\ ops' = ops + 1
     \/ tool[t].pc = "again" /\ tool[t].sid = s /\ tool[t].kind = kind /\ UNCHANGED ops
  /\ IF Live(s) /\ records[s].payload # Bad /\ (kind = "clear" => records[s].payload[App] # NoCell)
     THEN tool' = [tool EXCEPT ![t] = [@ EXCEPT !.pc = "save", !.kind = kind, !.sid = s, !.rec = records[s]]]
     ELSE tool' = [tool EXCEPT ![t].pc = "done"]
  /\ UNCHANGED <<records, now, born, st, lock, call, truth, rotated, got>>

ToolValue(t, v) == IF tool[t].kind = "clear" THEN NoCell ELSE (IF v = NoCell THEN {} ELSE v) \cup {t}

\* mutateCellsSID: the save, or another attempt.
ToolSave(t) ==
  LET s == tool[t].sid
      rec == [tool[t].rec EXCEPT !.payload[App] = ToolValue(t, @)]
  IN  /\ tool[t].pc = "save"
      /\ IF ~Conflict(s, tool[t].rec)
         THEN /\ StorePut(s, rec)
              /\ tool' = [tool EXCEPT ![t].pc = "done"]
              /\ truth' = [truth EXCEPT ![s][App] = ToolValue(t, @)]
         ELSE /\ tool' = [tool EXCEPT ![t].pc = IF tool[t].attempt < MaxRetries THEN "again" ELSE "done",
                                      ![t].attempt = @ + 1]
              /\ UNCHANGED <<records, truth>>
      /\ UNCHANGED <<now, born, st, lock, call, ops, rotated, got>>

\* DestroySID, RevokeByUser, and the sweep of lapsed records.
ToolDelete(t) ==
  /\ tool[t].pc = "idle" /\ ops < MaxOps /\ ops' = ops + 1
  /\ \/ \E s \in Sids : StoreDelete({s})
     \/ \E u \in Users, except \in {{}} \cup {{s} : s \in Sids} :
          StoreDelete({s \in Sids \ except : records[s] # NoRec /\ records[s].user = u})
     \/ StoreDelete({s \in Sids : records[s] # NoRec /\ Lapsed(records[s], now)})
  /\ tool' = [tool EXCEPT ![t].pc = "done"]
  /\ UNCHANGED <<now, born, st, lock, call, truth, rotated, got>>

Tick == now < MaxTime /\ now' = now + 1 /\ UNCHANGED <<records, born, st, lock, call, tool, ops, truth, rotated, got>>

-----------------------------------------------------------------------------

\* One session exists, with its first messages.
Init ==
  \E p \in Seeds : LET s == Min(Sids) IN
    /\ records = [x \in Sids |-> IF x = s THEN [Fresh EXCEPT !.version = 1, !.abs = AbsoluteExpiry,
                                                !.idle = idleFrom(0), !.payload = p] ELSE NoRec]
    /\ truth = [x \in Sids |-> IF x = s /\ p # Bad THEN p ELSE Fresh.payload]
    /\ born = [x \in {s} |-> NoSid] /\ now = 0 /\ rotated = {}
    /\ st = [r \in Requests |-> NewState(NoSid)] /\ lock = [r \in Requests |-> Free]
    /\ call = [k \in Calls |-> NoCall] /\ tool = [t \in Tools |-> IdleTool]
    /\ ops = 0 /\ got = [m \in Messages |-> 0]

Commit(r) ==
  \/ CommitDelete(r) \/ RotateDelete(r) \/ commitDirty(r) \/ CommitReload(r) \/ CommitSaveFails(r)
  \/ maybeBumpIdle(r) \/ NothingToWrite(r)
  \/ \E sid \in Sids : RotateInsert(r, sid) \/ mintAtCommit(r, sid)

UpdateGoesOn(k) ==
  \/ UpdateSave(k) \/ UpdateReload(k) \/ UpdateMintDelete(k)
  \/ \E sid \in Sids : UpdateMint(k, sid)

Next ==
  \/ Tick
  \/ \E r \in Requests :
       \/ Read(r) \/ Renew(r) \/ Destroy(r) \/ Commit(r)
       \/ \E sid \in DOMAIN born \cup {NoSid} : Arrive(r, sid)
       \/ \E u \in Users : Promote(r, u)
       \/ cellSave(r, App) \/ cellClear(r, App)
  \/ \E k \in Calls :
       UpdateGoesOn(k) \/ \E kind \in {"add", "take"}, c \in Cells : UpdateStart(k, kind, c)
  \/ \E t \in Tools :
       ToolSave(t) \/ ToolDelete(t) \/ \E s \in Sids, kind \in {"add", "clear"} : ToolLoad(t, kind, s)

Spec == Init /\ [][Next]_vars

-----------------------------------------------------------------------------

\* Every write that a request or an out-of-band call was told is stored, is: a
\* commit lays its staged cells over what others wrote meanwhile, and an Update
\* starts again from what it finds (commitDirty, cellUpdate, mutateCellsSID).  Session
\* ids that a rotation created are left out: a rotation copies what the request read,
\* so it drops what others wrote since.
NoLostUpdate ==
  \A s \in Sids \ rotated :
    records[s] # NoRec /\ records[s].payload # Bad => records[s].payload = truth[s]

\* The flash cell, which only Add, Take and Clear write, holds what their successful
\* calls say ("store CAS serializes concurrent updates", cellUpdate).
ConcurrentAddsSurvive ==
  \A s \in Sids \ rotated :
    records[s] # NoRec /\ records[s].payload # Bad => records[s].payload[Flash] = truth[s][Flash]

\* A flash message is returned by one Take at most, unless a session rotated.
DeliveredOnce == rotated = {} => \A m \in Messages : got[m] <= 1

\* Acknowledged writes of a session are kept and its flash messages are delivered at
\* most once, whatever requests and out-of-band calls overlap (commitDirty, cellUpdate).
UpdatesKept == NoLostUpdate /\ DeliveredOnce

\* A session id that was deleted or pruned never names a record again: a late
\* commit, Update or UpdateSID of a revoked session fails (Save's version check).
RevokedStays == \A s \in DOMAIN born : records[s] = NoRec => records'[s] = NoRec

\* When a request has answered, a session it created and that still exists is the
\* one its token names: no record is left that no client can name.
NoOrphan ==
  \A r \in Requests, s \in DOMAIN born :
    born[s] = r /\ records[s] # NoRec /\ st[r].pc = "after" /\ ~(Fails /\ s = st[r].old)
      => st[r].sid = s /\ st[r].token = "set"
=============================================================================
