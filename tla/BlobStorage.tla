----------------------------- MODULE BlobStorage -----------------------------
(***************************************************************************)
(* The blob stores of src/storage: Local, which keeps a blob per file and  *)
(* makes and prunes directories as keys come and go, and Memory, a map.    *)
(* A step is one system call; os.Root.MkdirAll makes one directory after   *)
(* the other.  A key is the sequence of its segments.                      *)
(***************************************************************************)
EXTENDS Integers, Sequences, FiniteSets, SequencesExt

CONSTANTS Ops,        \* the callers
          Keys,
          MaxOps,     \* bound: operations ever started
          None

VARIABLES backend,
          fs,       \* [Paths -> None, "dir", or <<"file", version>>]
          tmp,      \* callers that have a file in .tmp
          readers,  \* callers that hold s.mu for reading
          writer,   \* the caller that holds s.mu for writing, or None
          op,       \* where each caller is
          started,  \* operations started
          crashed   \* some process died on the way

blobVars == <<backend, fs, tmp, readers, writer, op, started, crashed>>

Dir(p) == SubSeq(p, 1, Len(p) - 1)

Paths == UNION {{SubSeq(k, 1, n) : n \in 1..Len(k)} : k \in Keys}

IsFile(x) == x # None /\ x # "dir"

Children(p, f) == {q \in Paths : Len(q) = Len(p) + 1 /\ Dir(q) = p /\ f[q] # None}

IsDir(p) == p = <<>> \/ fs[p] = "dir"

Idle == [pc |-> "idle"]

Init ==
  /\ backend \in {"local", "memory"}
  /\ fs = [p \in Paths |-> None] /\ tmp = {} /\ readers = {} /\ writer = None
  /\ op = [o \in Ops |-> Idle] /\ started = 0 /\ crashed = FALSE

Blobs(f) == {k \in Keys : IsFile(f[k])}

\* history: what a listing under way might, and must, contain
Seen(ops, f) == [o \in Ops |-> IF ops[o].pc # "list" THEN ops[o]
                               ELSE [ops[o] EXCEPT !.all = @ \cap Blobs(f), !.any = @ \cup Blobs(f)]]

Writes(o, f, r) == fs' = f /\ op' = Seen([op EXCEPT ![o] = r], f)

Becomes(o, r) == UNCHANGED fs /\ op' = [op EXCEPT ![o] = r]

Locks == <<readers, writer>>

Rest == <<backend, started, crashed>>

At(o, pc) == op[o].pc = pc

\* opCheck passed; a canceled context and an invalid key stop here.
Begin(o, r) == /\ op[o].pc \in {"idle", "done"} /\ started < MaxOps /\ started' = started + 1
               /\ op' = [op EXCEPT ![o] = r]
               /\ UNCHANGED <<backend, fs, tmp, readers, writer, crashed>>

Result(k, what, r) == [pc |-> "done", key |-> k, what |-> what, res |-> r]

-------------------------------- (* Local.Put *) -----------------------------

\* The first MkdirAll, outside the lock; Put returns its error as it is.
LocalPut(o, k) == Begin(o, [pc |-> "mkdir", key |-> k, level |-> 1])

MemoryPut(o, k) == Begin(o, [pc |-> "copy", key |-> k])

Mkdir(o) ==
  LET k == op[o].key  n == op[o].level  d == SubSeq(k, 1, n) IN
  /\ At(o, "mkdir")
  /\ IF n = Len(k) THEN Becomes(o, [pc |-> "copy", key |-> k]) /\ tmp' = tmp \cup {o}
     ELSE IF ~IsDir(Dir(d)) THEN Becomes(o, Result(k, "put", "no parent")) /\ UNCHANGED tmp
     ELSE IF IsFile(fs[d]) THEN Becomes(o, Result(k, "put", "conflict")) /\ UNCHANGED tmp
     ELSE /\ Writes(o, [fs EXCEPT ![d] = "dir"], [pc |-> "mkdir", key |-> k, level |-> n + 1])
          /\ UNCHANGED tmp
  /\ UNCHANGED <<Locks, Rest>>

Failing(o, r) == [pc |-> "lock", key |-> op[o].key, what |-> "put", res |-> r]

\* copyChunks: the reader fails or the context ends, or all is written and closed.
Copy(o) ==
  /\ At(o, "copy")
  /\ \/ /\ backend = "local"
        /\ Becomes(o, Failing(o, "failed")) /\ tmp' = tmp \ {o} /\ UNCHANGED Locks
     \/ /\ backend = "memory"
        /\ Becomes(o, Result(op[o].key, "put", "failed")) /\ UNCHANGED <<tmp, Locks>>
     \/ /\ backend = "local" /\ writer = None
        /\ readers' = readers \cup {o} /\ Becomes(o, [pc |-> "mkdirs", key |-> op[o].key])
        /\ UNCHANGED <<tmp, writer>>
     \/ /\ backend = "memory"
        /\ Writes(o, [fs EXCEPT ![op[o].key] = <<"file", started>>], Result(op[o].key, "put", "ok"))
        /\ UNCHANGED <<tmp, Locks>>
  /\ UNCHANGED Rest

\* The second MkdirAll and the Rename, under RLock.
Mkdirs(o) ==
  LET k == op[o].key
      dirs == {SubSeq(k, 1, n) : n \in 1..(Len(k) - 1)}
  IN  /\ At(o, "mkdirs")
      /\ IF \E d \in dirs : IsFile(fs[d])
         THEN /\ Becomes(o, Failing(o, "conflict")) /\ tmp' = tmp \ {o}
              /\ readers' = readers \ {o}
         ELSE /\ Writes(o, [p \in Paths |-> IF p \in dirs THEN "dir" ELSE fs[p]], [pc |-> "rename", key |-> k])
              /\ UNCHANGED <<tmp, readers>>
      /\ UNCHANGED <<writer, Rest>>

Rename(o) ==
  LET k == op[o].key IN
  /\ At(o, "rename")
  /\ tmp' = tmp \ {o} /\ readers' = readers \ {o}
  /\ IF ~IsDir(Dir(k)) THEN Becomes(o, Failing(o, "no parent"))
     ELSE IF fs[k] = "dir" THEN Becomes(o, Failing(o, "conflict"))
     ELSE Writes(o, [fs EXCEPT ![k] = <<"file", started>>], Result(k, "put", "ok"))
  /\ UNCHANGED <<writer, Rest>>

------------------------------ (* pruneParents *) ----------------------------

\* Mutant: pruning does not exclude commits.
PruneLockShared(o) ==
  /\ At(o, "lock") /\ UNCHANGED writer
  /\ Becomes(o, [pc |-> "prune", key |-> op[o].key, what |-> op[o].what, res |-> op[o].res, dir |-> Dir(op[o].key)])
  /\ UNCHANGED <<tmp, readers, Rest>>

PruneLock(o) ==
  /\ At(o, "lock") /\ writer = None /\ readers = {} /\ writer' = o
  /\ Becomes(o, [pc |-> "prune", key |-> op[o].key, what |-> op[o].what, res |-> op[o].res, dir |-> Dir(op[o].key)])
  /\ UNCHANGED <<tmp, readers, Rest>>

\* Upwards, until a directory is gone, is a blob by now, or is not empty.
PruneStep(o) ==
  LET d == op[o].dir IN
  /\ At(o, "prune")
  /\ IF d # <<>> /\ fs[d] = "dir" /\ Children(d, fs) = {}
     THEN Writes(o, [fs EXCEPT ![d] = None], [op[o] EXCEPT !.dir = Dir(d)]) /\ UNCHANGED writer
     ELSE /\ writer' = IF writer = o THEN None ELSE writer
          /\ Becomes(o, Result(op[o].key, op[o].what, op[o].res))
  /\ UNCHANGED <<tmp, readers, Rest>>

--------------------------------- (* Delete *) -------------------------------

LocalDelete(o, k) == Begin(o, [pc |-> "lstat", key |-> k])

MemoryDelete(o, k) ==
  /\ op[o].pc \in {"idle", "done"} /\ started < MaxOps /\ started' = started + 1
  /\ Writes(o, [fs EXCEPT ![k] = None], Result(k, "delete", "ok"))
  /\ UNCHANGED <<backend, tmp, readers, writer, crashed>>

Lstat(o) ==
  LET k == op[o].key IN
  /\ At(o, "lstat")
  /\ Becomes(o, IF IsFile(fs[k]) THEN [pc |-> "remove", key |-> k] ELSE Result(k, "delete", "ok"))
  /\ UNCHANGED <<tmp, Locks, Rest>>

\* No lock is held: the file that Lstat saw may be gone or a directory by now.
RemoveFile(o) ==
  LET k == op[o].key
      gone == [pc |-> "lock", key |-> k, what |-> "delete", res |-> "ok"]
  IN  /\ At(o, "remove")
      /\ IF fs[k] = "dir" /\ Children(k, fs) # {}
         THEN Becomes(o, Result(k, "delete", "not empty"))
         ELSE Writes(o, [fs EXCEPT ![k] = None], gone)
      /\ UNCHANGED <<tmp, Locks, Rest>>

---------------------------- (* Open, Stat, List *) --------------------------

LocalStat(k) == IF IsFile(fs[k]) THEN fs[k] ELSE <<"not exist">>

MemoryStat(k) == IF IsFile(fs[k]) THEN fs[k] ELSE <<"not exist">>

\* Stat, then Open, by Local; one lookup by Memory.
LocalOpen(o, k) == LocalStat(k) # <<"not exist">> /\ Begin(o, [pc |-> "open", key |-> k])

LocalOpenFile(o) ==
  /\ At(o, "open")
  /\ Becomes(o, Result(op[o].key, "open", IF fs[op[o].key] = None THEN "not exist" ELSE fs[op[o].key]))
  /\ UNCHANGED <<tmp, Locks, Rest>>

MemoryOpen(o, k) == MemoryStat(k) # <<"not exist">> /\ Begin(o, Result(k, "open", MemoryStat(k)))

\* WalkDir reads one directory after the other.
List(o) ==
  Begin(o, [pc |-> "list", dirs |-> {<<>>}, found |-> {}, all |-> Blobs(fs), any |-> Blobs(fs)])

Listed(r) == [pc |-> "done", what |-> "list", res |-> r.found, all |-> r.all, any |-> r.any]

\* A directory that vanished after its parent was read fails the walk.
LocalList(o) ==
  /\ At(o, "list") /\ op[o].dirs # {}
  /\ \E d \in op[o].dirs :
       IF ~IsDir(d) THEN op' = [op EXCEPT ![o] = Result(d, "walk", "vanished")]
       ELSE op' = [op EXCEPT ![o].dirs = (@ \ {d}) \cup {q \in Children(d, fs) : fs[q] = "dir"},
                             ![o].found = @ \cup {q \in Children(d, fs) : IsFile(fs[q])}]
  /\ UNCHANGED <<fs, tmp, Locks, Rest>>

LocalListed(o) ==
  /\ At(o, "list") /\ op[o].dirs = {} /\ op' = [op EXCEPT ![o] = Listed(op[o])]
  /\ UNCHANGED <<fs, tmp, Locks, Rest>>

MemoryList(o) ==
  /\ At(o, "list") /\ op' = [op EXCEPT ![o] = Listed([op[o] EXCEPT !.found = Blobs(fs)])]
  /\ UNCHANGED <<fs, tmp, Locks, Rest>>

---------------------------------- (* Next *) --------------------------------

\* The process dies: its locks go with it, its files and directories stay.
Crash(o) ==
  /\ op[o].pc \notin {"idle", "done"} /\ backend = "local" /\ crashed' = TRUE
  /\ op' = [op EXCEPT ![o] = Idle] /\ readers' = readers \ {o}
  /\ writer' = IF writer = o THEN None ELSE writer
  /\ UNCHANGED <<backend, fs, tmp, started>>

LocalNext(o) ==
  \/ \E k \in Keys : LocalPut(o, k) \/ LocalDelete(o, k) \/ LocalOpen(o, k)
  \/ Mkdir(o) \/ Mkdirs(o) \/ Rename(o) \/ PruneLock(o) \/ PruneStep(o) \/ Lstat(o) \/ RemoveFile(o)
  \/ LocalOpenFile(o) \/ LocalList(o) \/ LocalListed(o) \/ Crash(o)

MemoryNext(o) == (\E k \in Keys : MemoryPut(o, k) \/ MemoryDelete(o, k) \/ MemoryOpen(o, k)) \/ MemoryList(o)

Next == \E o \in Ops : \/ backend = "local" /\ LocalNext(o)
                       \/ backend = "memory" /\ MemoryNext(o)
                       \/ Copy(o) \/ List(o)

Spec == Init /\ [][Next]_blobVars

------------------------------- (* properties *) -----------------------------

Quiet == \A o \in Ops : op[o].pc \in {"idle", "done"}

\* "Delete is idempotent and frees the key's prefix for reuse", "A failed Put leaves
\* no partial blob" (README): when nothing is under way, no temporary file and no
\* empty directory is left, however makers and pruners of directories interleaved.
NoDebris ==
  Quiet /\ ~crashed => tmp = {} /\ \A p \in Paths : fs[p] = "dir" => Children(p, fs) # {}

\* "so pruning cannot remove the parent" (Local.Put): once Put holds the lock and has
\* made the parents, they stay until its Rename; only a Delete of a key that is one of
\* the parents, which holds no lock, can still take an empty one away.
ParentStays ==
  \A o \in Ops : At(o, "rename") =>
    \A n \in 1..(Len(op[o].key) - 1) :
      LET d == SubSeq(op[o].key, 1, n) IN ~IsDir(d) /\ IsDir(Dir(d)) => d \in Keys

\* A blob is removed by a Delete of its key only, never by a Put of another key, by
\* pruning or by a crash.
OnlyDeleteRemoves ==
  \A k \in Keys : IsFile(fs[k]) /\ ~IsFile(fs'[k]) =>
    \E o \in Ops : /\ op'[o].pc \in {"lock", "done"}
                   /\ op'[o].what = "delete" /\ op'[o].key = k

\* A List that succeeds has every blob that was there all along, and none that never was.
ListComplete ==
  \A o \in Ops : At(o, "done") /\ op[o].what = "list" => op[o].all \subseteq op[o].res /\ op[o].res \subseteq op[o].any
=============================================================================
