------------------------------ MODULE GenFiles ------------------------------
(***************************************************************************)
(* The generator's output directory (fabrik/internal/genfiles, driven by    *)
(* fabrik wire): a set of files is staged in temporary files, promised by a *)
(* journal, renamed into place, and recorded in a manifest that says which  *)
(* files a later run may delete.  One process writes at a time; it may be   *)
(* killed, fail on any I/O, or lose the power, and people edit the files.   *)
(* A hash stands for the content it is the hash of.  "disk" is what a       *)
(* reader sees and "durable" what the last directory sync made safe: a      *)
(* power loss may undo any renaming or removal since.                       *)
(***************************************************************************)
EXTENDS FiniteSetsExt, Naturals

CONSTANTS
  Names,        \* numbered in the order of sortedNames
  Sets,         \* [files, split]: what the generator may be asked to write
  Edits,        \* contents that people write
  MaxOps,       \* bound on calls, edits and losses
  None

VARIABLES
  disk,         \* [files, temps, manifest, journal]
  durable,      \* the same, as of the last sync
  call,         \* the WriteSet that runs, and where it is
  ops,
  last,         \* history: the set of the last WriteSet, once it has succeeded
  written,      \* history: the contents that were promised for a name
  pruned,       \* history: the contents that were deleted with a name
  drifted,      \* history: names that were edited since they were installed
  partial,      \* history: names of a transaction abandoned, or lost before it was safe
  harmed        \* history: a pending transaction was interfered with

genVars == <<disk, durable, call, ops, last, written, pruned, drifted, partial, harmed>>

\* A file set is a function on Names: None where it has no such file.
NamesOf(files) == {n \in Names : files[n] # None}

Idle == [pc |-> "idle", set |-> None, j |-> None, rolling |-> FALSE, todo |-> {}]

Init ==
  /\ \E F \in [Names -> Edits \cup {None}] :
       disk = [files |-> F, temps |-> {}, manifest |-> None, journal |-> None]
  /\ durable = disk
  /\ call = Idle
  /\ ops = 0
  /\ last = None
  /\ written = {}
  /\ pruned = {}
  /\ drifted = {}
  /\ partial = {}
  /\ harmed = FALSE

At(pc) == call.pc = pc
Goto(pc) == call' = [call EXCEPT !.pc = pc]
syncDir == durable' = disk

-----------------------------------------------------------------------------
(* WriteSet: roll an interrupted transaction forward, then stage this one.  *)

\* wireWith calls WriteSet with what the generator made of the program.
WriteSet(s) ==
  /\ At("idle") /\ ops < MaxOps
  /\ ops' = ops + 1
  /\ call' = [Idle EXCEPT !.pc = "rollForward", !.set = s]
  /\ last' = None
  /\ UNCHANGED <<disk, durable, written, pruned, drifted, partial, harmed>>

\* Where commit starts: the renamings come first.
Commits(j, rolling) ==
  call' = [call EXCEPT !.pc = "install", !.j = j, !.rolling = rolling, !.todo = NamesOf(j.files)]

RollForward ==
  /\ At("rollForward")
  /\ IF disk.journal = None THEN Goto("stage") ELSE Commits(disk.journal, TRUE)
  /\ UNCHANGED <<disk, durable, ops, last, written, pruned, drifted, partial, harmed>>

\* Owned by the previous manifest and no longer generated.
Obsolete(manifest, files) ==
  [n \in Names |-> IF manifest # None /\ files[n] = None THEN manifest[n] ELSE None]

\* The names of temporary files are fresh: the call's number makes them so.
temp(j, n) == {t \in disk.temps : t.run = j.run /\ t.name = n}

stagePrune ==
  /\ At("stage")
  /\ LET s == call.set IN
     /\ disk' = [disk EXCEPT !.temps =
                   @ \cup {[run |-> ops, name |-> n, data |-> s.files[n]] : n \in NamesOf(s.files)}]
     /\ call' = [call EXCEPT !.pc = "publish",
                   !.j = [run |-> ops, files |-> s.files, split |-> s.split,
                          prune |-> Obsolete(disk.manifest, s.files)]]
     /\ written' = written \cup {<<n, s.files[n]>> : n \in NamesOf(s.files)}
  /\ UNCHANGED <<durable, ops, last, pruned, drifted, partial, harmed>>

publishJournal ==
  /\ At("publish")
  /\ disk' = [disk EXCEPT !.journal = call.j]
  /\ Goto("published")
  /\ UNCHANGED <<durable, ops, last, written, pruned, drifted, partial, harmed>>

\* The journal is durable, and every temporary file with it; it is read back.
readJournal ==
  /\ At("published")
  /\ syncDir
  /\ Commits(disk.journal, FALSE)
  /\ UNCHANGED <<disk, ops, last, written, pruned, drifted, partial, harmed>>

-----------------------------------------------------------------------------
(* commit *)

Done(n) == call' = [call EXCEPT !.todo = @ \ {n}]

Touched(j) == NamesOf(j.files) \cup NamesOf(j.prune)

\* errStaleJournal: RollForward abandons the journal, WriteSet itself returns the error.
Stale ==
  /\ call' = IF call.rolling THEN [call EXCEPT !.pc = "abandon", !.todo = NamesOf(call.j.files)] ELSE Idle
  /\ partial' = partial \cup Touched(call.j)
  /\ UNCHANGED <<disk, drifted>>

Rename(n) ==
  /\ disk' = [disk EXCEPT !.files[n] = call.j.files[n], !.temps = @ \ temp(call.j, n)]
  /\ drifted' = drifted \ {n}
  /\ Done(n)
  /\ UNCHANGED partial

AlreadyThere(n) == Done(n) /\ UNCHANGED <<disk, drifted, partial>>

install(n) ==
  LET want == call.j.files[n]
      found == {t.data : t \in temp(call.j, n)}
  IN  CASE found = {want} -> Rename(n)
        [] found = {} /\ disk.files[n] = want -> AlreadyThere(n)
        [] OTHER -> Stale

Install ==
  /\ At("install") /\ call.todo # {}
  /\ install(Min(call.todo))
  /\ UNCHANGED <<durable, ops, last, written, pruned, harmed>>

Installed ==
  /\ At("install") /\ call.todo = {}
  /\ call' = [call EXCEPT !.pc = "prune", !.todo = NamesOf(call.j.prune)]
  /\ UNCHANGED <<disk, durable, ops, last, written, pruned, drifted, partial, harmed>>

\* Mutant: the file goes whatever it holds.
DeletesEdited(n) == disk.files[n] # None

\* A file that is no longer what the manifest recorded is kept.
Deletes(n) == disk.files[n] = call.j.prune[n]

Prune ==
  /\ At("prune") /\ call.todo # {}
  /\ LET n == Min(call.todo) IN
     /\ Done(n)
     /\ disk' = IF Deletes(n) THEN [disk EXCEPT !.files[n] = None] ELSE disk
     /\ pruned' = IF Deletes(n) /\ disk.files[n] # None THEN pruned \cup {<<n, disk.files[n]>>} ELSE pruned
  /\ UNCHANGED <<durable, ops, last, written, drifted, partial, harmed>>

\* What the journal leaves as the manifest: none when the output is one file.
Recorded(j) == IF j.split THEN j.files ELSE None

publishManifest ==
  /\ At("prune") /\ call.todo = {}
  /\ disk' = [disk EXCEPT !.manifest = Recorded(call.j)]
  /\ Goto("committed")
  /\ UNCHANGED <<durable, ops, last, written, pruned, drifted, partial, harmed>>

syncCommitted ==
  /\ At("committed")
  /\ syncDir
  /\ Goto("drop")
  /\ UNCHANGED <<disk, ops, last, written, pruned, drifted, partial, harmed>>

dropJournal ==
  /\ At("drop")
  /\ disk' = [disk EXCEPT !.journal = None]
  /\ Goto("dropped")
  /\ UNCHANGED <<durable, ops, last, written, pruned, drifted, partial, harmed>>

\* A rolled-forward transaction is followed by the one that was asked for.
Committed ==
  /\ At("dropped")
  /\ syncDir
  /\ call' = IF call.rolling THEN [Idle EXCEPT !.pc = "stage", !.set = call.set] ELSE Idle
  /\ last' = IF call.rolling THEN None ELSE call.set
  /\ partial' = partial \ NamesOf(call.j.files)
  /\ harmed' = FALSE
  /\ UNCHANGED <<disk, ops, written, pruned, drifted>>

-----------------------------------------------------------------------------
(* abandon: the staged files go, in the order of a Go map, then the journal. *)

abandon ==
  /\ At("abandon") /\ call.todo # {}
  /\ \E n \in call.todo :
       /\ disk' = [disk EXCEPT !.temps = @ \ temp(call.j, n)]
       /\ Done(n)
  /\ UNCHANGED <<durable, ops, last, written, pruned, drifted, partial, harmed>>

abandonJournal ==
  /\ At("abandon") /\ call.todo = {}
  /\ disk' = [disk EXCEPT !.journal = None]
  /\ Goto("abandoned")
  /\ UNCHANGED <<durable, ops, last, written, pruned, drifted, partial, harmed>>

Abandoned ==
  /\ At("abandoned")
  /\ syncDir
  /\ call' = [Idle EXCEPT !.pc = "stage", !.set = call.set]
  /\ harmed' = FALSE
  /\ UNCHANGED <<disk, ops, last, written, pruned, drifted, partial>>

-----------------------------------------------------------------------------
(* What happens to the process and to the directory.                        *)

\* A failed operation returns at once and undoes nothing: the process could
\* as well have been killed.
Interrupted ==
  /\ ~At("idle")
  /\ call' = Idle
  /\ UNCHANGED <<disk, durable, ops, last, written, pruned, drifted, partial, harmed>>

TempsOf(d, n) == {t \in d.temps : t.name = n}

\* A renaming is undone as a whole.
Survives(S, m, j) ==
  [files |-> [n \in Names |-> IF n \in S THEN disk.files[n] ELSE durable.files[n]],
   temps |-> UNION {TempsOf(IF n \in S THEN disk ELSE durable, n) : n \in Names},
   manifest |-> IF m THEN disk.manifest ELSE durable.manifest,
   journal |-> IF j THEN disk.journal ELSE durable.journal]

\* A journal that no sync has made safe yet may be lost after its files are renamed:
\* the process that published it was killed before syncDir, and the next one rolls it
\* forward at once.
Unsafe == IF disk.journal # durable.journal /\ disk.journal # None THEN Touched(disk.journal) ELSE {}

PowerLoss ==
  /\ ops < MaxOps /\ disk # durable
  /\ \E S \in SUBSET Names, m, j \in BOOLEAN :
       /\ disk' = Survives(S, m, j)
       /\ durable' = Survives(S, m, j)
  /\ ops' = ops + 1
  /\ call' = Idle
  /\ partial' = partial \cup Unsafe
  /\ harmed' = (harmed \/ Unsafe # {})
  /\ UNCHANGED <<last, written, pruned, drifted>>

Edit(n, c) ==
  /\ ops < MaxOps /\ disk.files[n] # c
  /\ ops' = ops + 1
  /\ disk' = [disk EXCEPT !.files[n] = c]
  /\ drifted' = drifted \cup {n}
  /\ harmed' = (harmed \/ disk.journal # None \/ durable.journal # None)
  /\ UNCHANGED <<durable, call, last, written, pruned, partial>>

\* Temporary files are hidden, but someone may clean them up.
LoseTemp(t) ==
  /\ ops < MaxOps
  /\ ops' = ops + 1
  /\ disk' = [disk EXCEPT !.temps = @ \ {t}]
  /\ harmed' = TRUE
  /\ UNCHANGED <<durable, call, last, written, pruned, drifted, partial>>

Next ==
  \/ \E s \in Sets : WriteSet(s)
  \/ RollForward \/ stagePrune \/ publishJournal \/ readJournal
  \/ Install \/ Installed \/ Prune \/ publishManifest \/ syncCommitted \/ dropJournal \/ Committed
  \/ abandon \/ abandonJournal \/ Abandoned
  \/ Interrupted \/ PowerLoss
  \/ \E n \in Names, c \in Edits \cup {None} : Edit(n, c)
  \/ \E t \in disk.temps : LoseTemp(t)

Spec == Init /\ [][Next]_genVars

-----------------------------------------------------------------------------
(* Check and Owned read the directory. *)

\* wire -check: nothing is missing, stale, pending, left over or unrecorded.
Check(s) ==
  /\ disk.journal = None
  /\ \A n \in NamesOf(s.files) : disk.files[n] = s.files[n]
  /\ disk.manifest # None => NamesOf(disk.manifest) \subseteq NamesOf(s.files)
  /\ IF s.split
     THEN disk.manifest # None /\ \A n \in NamesOf(s.files) : disk.manifest[n] = s.files[n]
     ELSE disk.manifest = None

Owned ==
  (IF disk.manifest # None THEN NamesOf(disk.manifest) ELSE {})
  \cup (IF disk.journal # None THEN Touched(disk.journal) ELSE {})

-----------------------------------------------------------------------------
(* Properties *)

\* genfiles: with no transaction pending, every file that the manifest records is what it
\* records, whatever was interrupted and wherever the power went - but for the files that
\* people edited since and those of a transaction that was abandoned, or lost unsynced.
NeverMixed ==
  disk.journal = None /\ disk.manifest # None =>
    \A n \in NamesOf(disk.manifest) \ (drifted \cup partial) : disk.files[n] = disk.manifest[n]

\* commit: pruning deletes nothing but what the generator itself had written there.
PrunesItsOwn == pruned \subseteq written

\* RollForward: an interrupted transaction is completed, never abandoned, unless its files
\* were interfered with or the power failed before its journal was safe.
CrashLosesNothing == At("abandon") => harmed

\* WriteSet: when it reports success the new files are safe from a loss of power.
SuccessIsDurable ==
  At("idle") /\ last # None /\ drifted = {} => 
    /\ durable.journal = None /\ durable.manifest = Recorded(last)
    /\ \A n \in NamesOf(last.files) : durable.files[n] = last.files[n]

\* wire -check passes after a successful wire exactly for the set that was written, and
\* only while none of its files is edited.
CheckExact ==
  At("idle") /\ last # None =>
    \A s \in Sets : Check(s) <=> s = last /\ \A n \in NamesOf(s.files) : disk.files[n] = s.files[n]

\* Owned: at every moment, in the middle of a transaction and after a crash, a file that
\* holds what a split run generated is known as generated (the loader and the language
\* server ask) - but for those of a transaction that was abandoned, or lost unsynced.
GeneratedOwned ==
  \A n \in Names \ {Min(Names)} :
    <<n, disk.files[n]>> \in written => n \in Owned \cup partial
=============================================================================
