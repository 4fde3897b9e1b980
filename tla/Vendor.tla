------------------------------- MODULE Vendor -------------------------------
(***************************************************************************)
(* Vendoring of packages (assets/vendor.go, vendor_lock.go,                *)
(* vendor_transaction.go, atomic.go): immutable artifacts, the provenance  *)
(* lock, the importmap and the journal that makes the last two one          *)
(* transaction.  A package is a pair <<specifier, version>>; its artifact's *)
(* name holds a digest of its bytes, so the pair names the file as well.    *)
(* "disk" is what a reader sees, "durable" what the last directory syncs    *)
(* made safe: a power loss may undo any renaming or removal since.          *)
(*                                                                          *)
(* FetchNext is the parallel download that a resolution begins with         *)
(* (fetchAll) and the checks of applyResolution on what it returns.  A      *)
(* goroutine per package fetches, adds its size to a total under mu,        *)
(* rewrites, adds the published size to another, and stages its slot.  The  *)
(* dispatch loop waits for a slot of sem or for the end of the derived      *)
(* context.                                                                 *)
(***************************************************************************)
EXTENDS FiniteSetsExt, Naturals

CONSTANTS
  Versions,     \* of every package
  Deps,         \* specifier -> specifiers that its files import
  MaxOps,       \* bound on calls, crashes and edits
  None,
  Count,                \* packages of the resolution, 1..Count
  Sizes,                \* downloaded sizes
  Growth,               \* bytes a rewritten specifier may add
  vendorDownloadConcurrency,
  MaxPackageBytes, MaxResolutionBytes

VARIABLES
  disk,         \* [journal, lock, importmap, files]
  durable,      \* the same, as of the last syncs
  mem,          \* Vendor.Importmap.Entries of the running process
  call,         \* the method that runs, and where it is
  ops,
  edited,       \* history: importmap.json was edited by hand
  adopted,      \* history: an artifact or a journal was found, not yet synced
  size,                 \* package -> bytes its source has
  published,            \* package -> bytes after planVendoredJS
  job,                  \* package -> where its goroutine is
  dispatch,             \* the next package of the loop; Count + 1 when it is over
  canceled,             \* the derived context ended
  firstErr,
  totalSourceBytes, totalPublishedBytes,
  staged,               \* slots that hold a package
  outcome               \* of applyResolution: "publish" or "error"

vendorVars == <<disk, durable, mem, call, ops, edited, adopted>>
fetchVars == <<size, published, job, dispatch, canceled, firstErr,
               totalSourceBytes, totalPublishedBytes, staged, outcome>>

Specs == DOMAIN Deps
Packages == Specs \X Versions
SpecsOf(P) == {p[1] : p \in P}

(* validateVendorGraph: the direct requirements are packages of the closure, *)
(* with their versions; dependencies are there; everything has an owner.     *)
ReachedIn(D, n) ==
  LET R[i \in 0..n] == IF i = 0 THEN D ELSE R[i-1] \cup UNION {Deps[s] : s \in R[i-1]}
  IN  R[n]

validateVendorGraph(lock) ==
  /\ lock.direct \subseteq lock.packages
  /\ \A p \in lock.packages : Deps[p[1]] \subseteq SpecsOf(lock.packages)
  /\ SpecsOf(lock.packages) \subseteq ReachedIn(SpecsOf(lock.direct), Cardinality(Specs))

OneVersion(P) == \A p, q \in P : p[1] = q[1] => p = q

(* The answers of the resolver that resolveAndReplace and applyResolution    *)
(* accept for the requirements D.                                            *)
Resolutions(D) ==
  {P \in SUBSET Packages : OneVersion(P) /\ validateVendorGraph([direct |-> D, packages |-> P])}

Idle == [pc |-> "idle", op |-> None, arg |-> None, after |-> None,
         lock |-> None, todo |-> {}, ok |-> TRUE]

(* An empty project, or one from before the lock: vendored, no lock file.    *)
Init ==
  /\ \E P \in {{}} \cup UNION {Resolutions({p}) : p \in Packages} :
       disk = [journal |-> None, lock |-> None, importmap |-> P, files |-> P]
  /\ durable = disk
  /\ mem = disk.importmap
  /\ call = Idle
  /\ ops = 0
  /\ edited = FALSE
  /\ adopted = FALSE

At(pc) == call.pc = pc
Goto(pc) == call' = [call EXCEPT !.pc = pc]
Ends(ok) == call' = [Idle EXCEPT !.ok = ok]

-----------------------------------------------------------------------------
(* atomicWriteFile of a metadata file: the temporary file is synced, then   *)
(* renamed over the old one, then the directory is synced.  It fails before *)
(* the renaming, or after it (IndeterminateCommitError).                    *)

Renamed(file, value) == disk' = [disk EXCEPT ![file] = value]

(* The metadata files share a directory: one sync covers them all.          *)
syncDirectory ==
  durable' = [disk EXCEPT !.files = durable.files]

(* Every method starts with recoverTransaction.                             *)
Start(op, arg) ==
  /\ At("idle")
  /\ ops < MaxOps
  /\ ops' = ops + 1
  /\ call' = [Idle EXCEPT !.pc = "recover", !.op = op, !.arg = arg]
  /\ UNCHANGED <<disk, durable, mem, edited, adopted>>

RequirePackages == \E p \in Packages : Start("require", p)
RemovePackagesContext == \E p \in mem : Start("remove", p)
Prune == Start("prune", None)

Verified(lock) == lock.packages \subseteq disk.files

(* Open, decode and check the journal; verify its artifacts; then write the  *)
(* two files as publishMetadata does.                                        *)
recoverTransaction ==
  /\ At("recover")
  /\ IF disk.journal = None
     THEN Goto("body")
     ELSE IF Verified(disk.journal)
          THEN call' = [call EXCEPT !.pc = "lock", !.lock = disk.journal, !.after = "body"]
          ELSE Ends(FALSE)
  /\ adopted' = (adopted \/ disk.journal \notin {None, durable.journal})
  /\ UNCHANGED <<disk, durable, mem, ops, edited>>

(* directRequirements, the change of the method, and resolveAndReplace up to *)
(* the complete set of fetched packages.  Nothing is written before that.    *)
directRequirements ==
  IF disk.lock # None /\ disk.lock.direct # {} THEN disk.lock.direct ELSE mem

Changed(direct) ==
  IF call.op = "require"
  THEN {p \in direct : p[1] # call.arg[1]} \cup {call.arg}
  ELSE direct \ {call.arg}

resolveAndReplace ==
  /\ At("body") /\ call.op \in {"require", "remove"}
  /\ disk.lock # None => Verified(disk.lock)
  /\ call.op = "remove" => call.arg \in directRequirements /\ call.arg \in mem
  /\ \E P \in Resolutions(Changed(directRequirements)) :
       call' = [call EXCEPT !.pc = "artifacts", !.todo = P,
                            !.lock = [direct |-> Changed(directRequirements), packages |-> P]]
  /\ UNCHANGED <<disk, durable, mem, ops, edited, adopted>>

(* A check, the resolver, or a download failed.                              *)
BodyFails ==
  /\ At("body") /\ call.op \in {"require", "remove"}
  /\ Ends(FALSE)
  /\ UNCHANGED <<disk, durable, mem, ops, edited, adopted>>

(* publishSnapshot, one artifact at a time: an existing file with the same   *)
(* bytes is kept as it is; another is renamed into place, and its directory  *)
(* and those above are synced.                                               *)
publishSnapshot ==
  /\ At("artifacts")
  /\ IF call.todo = {}
     THEN Goto("journal") /\ UNCHANGED <<disk, adopted>>
     ELSE \E p \in call.todo :
            /\ call' = [call EXCEPT !.todo = @ \ {p},
                                    !.pc = IF p \in disk.files THEN "artifacts" ELSE "artifactSync"]
            /\ disk' = [disk EXCEPT !.files = @ \cup {p}]
            /\ adopted' = (adopted \/ p \in disk.files \ durable.files)
  /\ UNCHANGED <<durable, mem, ops, edited>>

syncAncestorDirectories ==
  /\ At("artifactSync")
  /\ Goto("artifacts")
  /\ durable' = disk
  /\ UNCHANGED <<disk, mem, ops, edited, adopted>>

(* publishMetadata: the journal, the lock, the importmap, each renamed and   *)
(* synced before the next; then the journal is removed.  recoverTransaction  *)
(* goes through the last three.                                              *)
Stages == [journal |-> "lock", lock |-> "importmap", importmap |-> "unlink"]

Value(file) == IF file = "importmap" THEN call.lock.packages ELSE call.lock

publishMetadata ==
  \E file \in DOMAIN Stages :
    /\ At(file)
    /\ Renamed(file, Value(file))
    /\ call' = [call EXCEPT !.pc = "sync", !.todo = {Stages[file]}]
    /\ UNCHANGED <<durable, mem, ops, edited, adopted>>

(* The sync that ends an atomicWriteFile.  Once the importmap is saved, the  *)
(* process takes it over.                                                    *)
Synced ==
  /\ At("sync")
  /\ syncDirectory
  /\ \E next \in call.todo :
       /\ call' = [call EXCEPT !.pc = next, !.todo = {}]
       /\ mem' = IF next = "unlink" THEN call.lock.packages ELSE mem
  /\ UNCHANGED <<disk, ops, edited, adopted>>

(* After a recovery the method goes on with its own work.                    *)
Continues ==
  IF call.after = None THEN Ends(TRUE)
  ELSE call' = [call EXCEPT !.pc = call.after, !.after = None, !.lock = None]

removeTransactionJournal ==
  \/ /\ At("unlink")
     /\ Renamed("journal", None)
     /\ Goto("unlinkSync")
     /\ UNCHANGED <<durable, mem, ops, edited, adopted>>
  \/ /\ At("unlinkSync")
     /\ syncDirectory
     /\ Continues
     /\ UNCHANGED <<disk, mem, ops, edited, adopted>>

(* Any of these file operations may fail; the method returns the error.      *)
FileFails ==
  /\ call.pc \in {"artifacts", "artifactSync", "journal", "lock", "importmap", "sync",
                  "unlink", "unlinkSync", "prune"}
  /\ Ends(FALSE)
  /\ UNCHANGED <<disk, durable, mem, ops, edited, adopted>>

-----------------------------------------------------------------------------
(* Prune: pruneLock first, whose Save validates the graph it is left with;   *)
(* then every file that the importmap in memory does not name is removed.    *)
Orphans == disk.files \ mem

\* Mutant: the files are removed, the lock is left as it is.
pruneLockLater ==
  /\ At("body") /\ call.op = "prune"
  /\ Goto("prune")
  /\ UNCHANGED <<disk, durable, mem, ops, edited, adopted>>

pruneLock ==
  /\ At("body") /\ call.op = "prune"
  /\ LET kept == {p \in disk.lock.packages : p[1] \in SpecsOf(mem)}
         changed == disk.lock # None /\ kept # disk.lock.packages
     IN  IF ~changed
         THEN Goto("prune") /\ UNCHANGED disk
         ELSE IF validateVendorGraph([disk.lock EXCEPT !.packages = kept])
              THEN /\ Renamed("lock", [disk.lock EXCEPT !.packages = kept])
                   /\ call' = [call EXCEPT !.pc = "sync", !.todo = {"prune"}]
              ELSE Ends(FALSE) /\ UNCHANGED disk
  /\ UNCHANGED <<durable, mem, ops, edited, adopted>>

PruneFiles ==
  /\ At("prune")
  /\ IF Orphans = {}
     THEN Ends(TRUE) /\ UNCHANGED disk
     ELSE \E p \in Orphans : disk' = [disk EXCEPT !.files = @ \ {p}] /\ UNCHANGED call
  /\ UNCHANGED <<durable, mem, ops, edited, adopted>>

-----------------------------------------------------------------------------
(* The process dies, and the next one loads the importmap.                   *)
Crash ==
  /\ ops < MaxOps
  /\ ops' = ops + 1
  /\ call' = Idle
  /\ mem' = disk.importmap
  /\ UNCHANGED <<disk, durable, edited, adopted>>

(* So does the machine: each change since the last sync survives or not.     *)
PowerLoss ==
  /\ ops < MaxOps
  /\ disk # durable
  /\ ops' = ops + 1
  /\ \E F \in SUBSET ((disk.files \cup durable.files) \ (disk.files \cap durable.files)),
        j \in {disk.journal, durable.journal}, l \in {disk.lock, durable.lock},
        i \in {disk.importmap, durable.importmap} :
       disk' = [journal |-> j, lock |-> l, importmap |-> i,
                files |-> (disk.files \cap durable.files) \cup F]
  /\ durable' = disk'
  /\ mem' = disk'.importmap
  /\ call' = Idle
  /\ UNCHANGED <<edited, adopted>>

(* A developer takes a vendored entry out of importmap.json, and the next    *)
(* process loads what they left.                                             *)
EditImportmap ==
  /\ At("idle") /\ disk.journal = None
  /\ ops < MaxOps
  /\ ops' = ops + 1
  /\ \E p \in disk.importmap : disk' = [disk EXCEPT !.importmap = @ \ {p}]
  /\ durable' = [durable EXCEPT !.importmap = disk'.importmap]
  /\ mem' = disk'.importmap
  /\ edited' = TRUE
  /\ UNCHANGED <<call, adopted>>

Next ==
  \/ RequirePackages \/ RemovePackagesContext \/ Prune
  \/ recoverTransaction \/ resolveAndReplace \/ BodyFails
  \/ publishSnapshot \/ syncAncestorDirectories
  \/ publishMetadata \/ Synced \/ removeTransactionJournal \/ FileFails
  \/ pruneLock \/ PruneFiles
  \/ Crash \/ PowerLoss \/ EditImportmap

Spec == Init /\ [][Next]_vendorVars

-----------------------------------------------------------------------------
(* fetchAll *)

Pkgs == 1..Count

FetchInit ==
  /\ size \in [Pkgs -> Sizes]
  /\ published \in {p \in [Pkgs -> {s + g : s \in Sizes, g \in Growth}] :
                      \A i \in Pkgs : \E g \in Growth : p[i] = size[i] + g}
  /\ job = [i \in Pkgs |-> "none"]
  /\ dispatch = 1
  /\ canceled = FALSE
  /\ firstErr = FALSE
  /\ totalSourceBytes = 0
  /\ totalPublishedBytes = 0
  /\ staged = {}
  /\ outcome = "none"

Active == {i \in Pkgs : job[i] \notin {"none", "done"}}
Inputs == <<size, published>>

(* select: a ready slot and a context that ended are taken in any order.     *)
Dispatch ==
  /\ dispatch \in Pkgs
  /\ Cardinality(Active) < vendorDownloadConcurrency
  /\ job' = [job EXCEPT ![dispatch] = "fetch"]
  /\ dispatch' = dispatch + 1
  /\ UNCHANGED <<Inputs, canceled, firstErr, totalSourceBytes, totalPublishedBytes, staged, outcome>>

DispatchStops ==
  /\ dispatch \in Pkgs /\ canceled
  /\ dispatch' = Count + 1
  /\ UNCHANGED <<Inputs, job, canceled, firstErr, totalSourceBytes, totalPublishedBytes, staged, outcome>>

(* The first error is kept and cancels the rest; the goroutine returns.      *)
Fails(i) ==
  /\ firstErr' = TRUE
  /\ canceled' = TRUE
  /\ job' = [job EXCEPT ![i] = "done"]

FetchFails(i) ==
  /\ job[i] = "fetch"
  /\ Fails(i)
  /\ UNCHANGED <<Inputs, dispatch, totalSourceBytes, totalPublishedBytes, staged, outcome>>

(* One critical section: an earlier error, a limit of the package, what is   *)
(* left of the limit of the resolution, or the addition.                     *)
CountSource(i) ==
  /\ job[i] = "fetch"
  /\ IF firstErr \/ size[i] > MaxPackageBytes \/ size[i] > MaxResolutionBytes - totalSourceBytes
     THEN Fails(i) /\ UNCHANGED totalSourceBytes
     ELSE /\ job' = [job EXCEPT ![i] = "rewrite"]
          /\ totalSourceBytes' = totalSourceBytes + size[i]
          /\ UNCHANGED <<firstErr, canceled>>
  /\ UNCHANGED <<Inputs, dispatch, totalPublishedBytes, staged, outcome>>

(* planVendoredJS fails on a package that outgrows its limit; the total of   *)
(* what is published is kept like the other.                                 *)
CountPublished(i) ==
  /\ job[i] = "rewrite"
  /\ IF firstErr \/ published[i] > MaxPackageBytes
                 \/ published[i] > MaxResolutionBytes - totalPublishedBytes
     THEN Fails(i) /\ UNCHANGED totalPublishedBytes
     ELSE /\ job' = [job EXCEPT ![i] = "stage"]
          /\ totalPublishedBytes' = totalPublishedBytes + published[i]
          /\ UNCHANGED <<firstErr, canceled>>
  /\ UNCHANGED <<Inputs, dispatch, totalSourceBytes, staged, outcome>>

Stage(i) ==
  /\ job[i] = "stage"
  /\ staged' = staged \cup {i}
  /\ job' = [job EXCEPT ![i] = "done"]
  /\ UNCHANGED <<Inputs, dispatch, canceled, firstErr, totalSourceBytes, totalPublishedBytes, outcome>>

(* The caller's context ends.                                                *)
CallerCancels ==
  /\ ~canceled /\ outcome = "none"
  /\ canceled' = TRUE
  /\ UNCHANGED <<Inputs, job, dispatch, firstErr, totalSourceBytes, totalPublishedBytes, staged, outcome>>

(* wg.Wait, the return, and validateLockedPackage on every slot: a slot that *)
(* no goroutine filled is not a package.                                     *)
applyResolution ==
  /\ dispatch = Count + 1 /\ Active = {} /\ outcome = "none"
  /\ outcome' = IF firstErr \/ staged # Pkgs THEN "error" ELSE "publish"
  /\ UNCHANGED <<Inputs, job, dispatch, canceled, firstErr, totalSourceBytes, totalPublishedBytes, staged>>

Goroutine(i) == FetchFails(i) \/ CountSource(i) \/ CountPublished(i) \/ Stage(i)

Dispatcher == Dispatch \/ DispatchStops \/ applyResolution

FetchNext == Dispatcher \/ CallerCancels \/ \E i \in Pkgs : Goroutine(i)

FetchSpec == FetchInit /\ [][FetchNext]_fetchVars

-----------------------------------------------------------------------------
Named(meta) == IF meta = None THEN {} ELSE meta.packages

(* Whatever fails or crashes, no metadata file that is on disk names an      *)
(* artifact that is not: "metadata publication never creates a missing-file  *)
(* window" (Remove), and a journal can be recovered.  The exception is a     *)
(* file left by a failed sync, which the next call takes for durable.        *)
NothingMissing ==
  ~adopted =>
    (disk.importmap \cup Named(disk.lock) \cup Named(disk.journal)) \subseteq disk.files

(* publishMetadata: without a journal, the lock and the importmap are of the *)
(* same transaction, and the lock is a valid graph.                          *)
OneTransaction ==
  (disk.journal = None /\ disk.lock # None /\ ~edited /\ ~adopted) =>
    /\ disk.lock.packages = disk.importmap
    /\ validateVendorGraph(disk.lock)

(* A method that returned nil leaves the process with the importmap that is  *)
(* on disk; publishMetadata and recoverTransaction both take it over.        *)
MemoryIsDisk ==
  (At("idle") /\ call.ok) => mem = disk.importmap

(* What applyResolution goes on to publish is the whole resolution, within   *)
(* both limits, however downloads, errors and a cancellation of the caller   *)
(* interleave.  After a cancellation between two downloads fetchAll itself   *)
(* returns unfilled slots and no error.                                      *)
PublishedWhole ==
  outcome = "publish" =>
    /\ staged = Pkgs
    /\ \A i \in Pkgs : published[i] <= MaxPackageBytes /\ size[i] <= MaxPackageBytes
    /\ MapThenSumSet(LAMBDA i : published[i], Pkgs) <= MaxResolutionBytes

Returned == outcome # "none"
=============================================================================
