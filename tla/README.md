# A specification of Steam2 Depot Manager in TLA+

Steam2 Depot Manager mounts Steam2 `.blob`/`.dat` archives as a writable
Windows drive. A worker process (`steam2fs.exe`) reads the archives, keeps a
tree of nodes in memory and serves it through WinFsp; what is written goes to
RAM and is gone after the unmount. A Qt window scans the user's folders,
composes revisions into a build, starts the worker and supervises it.

These modules describe the parts of the program that have behaviour worth
arguing about, the `.cfg` files check them with TLC on small instances, and
the `_proofs` modules prove the main results for every value of the constants
with TLAPS. Paths below are relative to the repository.

## Inventory

| Part | State | Operations | Talks to | What is hard | What must be true |
|---|---|---|---|---|---|
| **Virtual tree** `src/virtual_tree.cpp` | nodes (children, tombstones, weak parent, linked, dirty pages, sizes, times), one counter of dirty bytes | `overlay`, `lookup`, `create`, `info`, `list`, `read`, `write`, `resize`, `remove`, `rename`, `set_*` | called by the adapter on WinFsp threads and by `wmain` before the mount; reads archive files | nodes outlive their names; a handle is released without the mutex; five fields say where a node is; a write can fail half way; truncation and a read-only file below | one slot per node, no cycles, deleted stays deleted, the quota is what live pages cost, a file is a string of bytes |
| **WinFsp adapter** `src/winfsp_filesystem.cpp` | one `OpenContext` (node and path) per handle, the mount | the callbacks Create, Open, Overwrite, Cleanup, Close, Read, Write, SetBasicInfo, SetFileSize, CanDelete, Rename, ReadDirectory; `start`, `stop` | the driver's threads above, the tree below | several tree calls in one callback, each locked for itself; a path kept in an open handle; enumeration resumed by name; no exception may pass | a call takes effect at one moment and answers for it, or is refused with a status that fits; a deletion takes the file that was opened |
| **Archive** `src/steam2_archive.cpp` | immutable after `load`; a shared stream per DAT file | `parse_blob`, `resolve_ancestry`, `pair_dat`, `parse_checksum_table`, `parse_manifest`, `Steam2File::read` | files on disk; the tree keeps the files it yields | malformed sizes and offsets, ambiguous ancestors, blocks with no payload, seek and read on one stream by many readers | the chain ends and is unique; a read gives the requested bytes or fails |
| **Worker** `src/main.cpp` | `stop_requested` under a mutex and a condition variable; the tree; what exists of the WinFsp filesystem | options, build definition, overlay of each depot, mirrored `Steam.dll`, `start`, announce, wait, `stop`; the stdin thread; the console handler | stdin, stdout and exit code to the window; WinFsp | stdin is not read until the mount is announced; a wakeup may be lost; every call may throw, with some of the filesystem in existence | a request to stop is obeyed whenever it comes; nothing is left mounted; the order of the list decides |
| **Window** `gui/main_window.cpp` | `mounted_`, `unmountRequested_`, `closePending_`, `activeMountPoint_`, the output probe, the build file, a timer, a background scan, enabled buttons | start a scan, compose, mount, play, unmount, close; handlers for output, exit, errors, timeout, end of a scan | the worker's pipes and exit; the user; a scan thread | message boxes run nested event loops; the worker's news is old when read; two things to wait for before closing | what it shows is true of *this* worker; unmounting and closing complete |
| **Catalog** `gui/catalog.cpp` | none (a pure function of the files) | `parseStrictFilename`, `scanLooseFiles` | the window, by a future | its notion of "ready" duplicates the loader's; it enters all folders, the loader lists one | ready implies loadable |
| Depot keys and labels, WinFsp headers, CMake, CI, tests | – | – | – | – | data, vendored interfaces, builds: not modelled |

`PROJECT.json` lists each hazard at the line where it bites, with the
properties that cover it or the reason why none does. An overlay after a deletion
is not among them: `main.cpp` overlays before the mount only, when nothing has
been deleted. `VirtualTree` still lets overlays and all other calls alternate, as
`overlay()` provides for it: it looks at what has been deleted
(`src/virtual_tree.cpp:206`), and `DeletedStaysDeleted` says that this is enough.
Nor is a release of a handle in the middle of one write represented.

## Modules

```
ByteFile   <--implements-- FileContent <- FileContent_proofs, MCFileContent (2 configurations)
   ^
   +------ FileCallbacks --implements--> MountedFile
                ^- FileCallbacks_proofs, MCFileCallbacks
Namespace  <--implements-- VirtualTree <- MCNamespace, MCQuota
                                ^- WinFspFileSystem <- MCWinFspFileSystem (2 configurations)
                                          ^- VirtualTree_proofs (about both)
WorkerProtocol <--implements-- Worker <- Composition <- Composition_proofs, MCWorker
   ^
   +------ MountSupervisor <- MountSupervisor_proofs, MCMountSupervisor (2 configurations)
Library <- Catalog, Loader <- LibraryMount <- LibraryMount_proofs, MCLibraryMount
Blob, ArchiveRead, Manifest <- Depot <- Depot_proofs, MCDepot
Induction <- VirtualTree_proofs, Depot_proofs, LibraryMount_proofs, Composition_proofs
```

The four abstract modules are the places where components meet. `ByteFile`
is what the tree promises the adapter of a file's bytes, `MountedFile` what the
adapter promises programs of an open file, `Namespace` what they see of
names, and `WorkerProtocol` what the worker promises the window. Each is
checked to be implemented on one side; `ByteFile` and `WorkerProtocol` are also
used on the other, instead of the details.

**FileContent** is one file node: `size`, `base_limit`, the dirty pages and
their bytes, over the archive file `Base`. `write` is three kinds of step,
`BeginWrite` (range test), `StagePage` (one turn of the staging loop, with the
decision whether to hydrate) and `CommitWrite`, because hydration may fail in
the middle (`HydrationFails`); no other call comes between, as the mutex is
held. `resize` is one step. `read` is the state function `ByteAt`.
`SpecOutOfMemory` adds `PublishFails`: the loop that publishes the staged pages
allocates, and may stop after some of them. `Spec`, which the proofs and the
other runs are about, has memory enough.

**ByteFile** is what an application expects instead: bytes, overwritten,
extended with zeros, truncated. `FileContent` implements it with
`bytes <- View`; staging and failed hydration are stutters.

**VirtualTree** is the tree: each public method is one action under the mutex,
except that `overlay` walks its path in steps that hold it (`cursor`), and
that releasing a handle (`Release`) takes no mutex and may destroy nodes
even during an overlay. `shared_ptr` counting is modelled by what it
computes: a node lives while a chain of children from the root, from a held
handle or from the overlay's `parent` leads to it (`AliveIn`); `Finish`
ends every action by destroying the others, returning their pages to the
quota (`~Node`) and expiring weak parents. Names have a spelling and a key
(`Fold`), as the map compares case-insensitively and `rename` may change the
case only. Calls that throw change nothing, their tests all coming before the
first assignment, and are no steps. File bytes are left to FileContent; here a
file is the set of its dirty pages.

**Namespace** is the drive's names as programs see them, without directories that
know their children, parent pointers or nodes: each object has a place, a path
of names from the root or from an object that is open but no longer in the tree;
what is below an object moves with it; places that were emptied are marked
deleted. A node's place in `VirtualTree` is computed from parent pointers and
names (`PlaceOf`), while lookups go by children and keys, so the refinement
fails where the two part. Each step of an overlay is an `Overlay` of a beginning
of its path, or a stutter; `Write` and `Resize` are stutters. An expired
parent is the root of its own places, which is what `Become` says of what is
open in a directory that is gone.

**MountSupervisor** is the window, over an instance of `WorkerProtocol` as its
worker. Each handler of the window is one action. Where a handler opens a
message box, the part after it is the action `DismissBox`, other events may
come in between, and only user input is blocked. `buttons` is what
`refreshActions()` last enabled, so a handler that forgot to call it would be
seen. Worker output, exit and errors are delivered some time after they happen
(`unread`, `Exited`). Qt is external: the model assumes that `QProcess` delivers
the remaining output before `finished`, is `NotRunning` when it reports a crash,
and that `terminate()` posts `WM_CLOSE`, which a console process without a
message loop ignores: five seconds after the request the window says that it
terminates a worker that in truth goes on until it finds the line on its stdin
(`gui/main_window.cpp:774`). A failing `write` of the request is covered by an
exit of the worker.

**WorkerProtocol** is a worker as its parent knows it: it loads, serves or fails,
prints, reads a line once it serves, and ends. Its fairness is what the window's
liveness rests on.

**Worker** is the process in detail. A step of the main thread is what lies
between two points at which another thread or a failure could come in: each
depot's load, each of the calls of `start()`, and of the wait on the condition
variable the lock, the test, the sleep (which gives the mutex up in one step)
and the waking, also for nothing. `request_stop()` is `ReaderSets` and
`ReaderNotifies` of the stdin thread, `ConsoleSets` and `ConsoleNotifies` of
the thread in which Windows calls the console handler. An exception leads to
`unwind`, where the filesystem's destructor does what `stop()` does otherwise.
A depot is a set of paths, and the tree says which depot each file is from. The
worker does nothing at the end of its stdin: one whose window has died goes on
to serve until someone ends it.

**Composition** adds the window's list of revisions, with adding, removing and
moving entries, and the build definition it passes to the worker; or a console
user with a command line of his own.

**FileCallbacks** is the adapter on one file or directory: `Read`, `Write` (at
an offset, to the end, constrained), `SetFileSize`, `Overwrite`, `SetBasicInfo`,
`GetFileInfo` and the attributes and times of `Cleanup`, with their status codes.
A read of bytes that may still be the archive's fails in each way in which
`Steam2File::read` and the stream below it may (`ArchiveErrors`), and so does a
write that has to read what its pages keep. A write may be over the quota, or run
out of memory: then bytes it was to replace, and no others, may read as zeros
(`OutOfMemory`, the finding `out_of_memory` seen from here). Which bytes are still
the archive's is not known at this level: any that it ever had may need
reading.
A callback makes several calls to the tree that each lock it for themselves, and
each is a step of a client (`call`), taken from `ByteFile`. The lock (`Granted`) is
external: the driver lets one changing call at a time on a file
(`external/winfsp/include/winfsp/winfsp.h:122`). Sizes and times are as wide as
the constants say, so that rounding, conversion and addition meet the ends
of their types. **MountedFile** is what a program may expect: one moment at which
each call takes effect, or a refusal with a reason that changes nothing but what
a write out of memory spoils (`Spoil`).
`FileCallbacks` implements it with a view in which a callback that has made
its first change has made all of them.

**Library**, **Catalog** and **Loader** are the user's files, the window's
scan of them and the worker's `Steam2Depot::load`. A file is a path, whose name
claims depot, version and CRC, a folder, and a content that may change at any
moment. The scan enters all folders below its roots (`gui/catalog.cpp:190`); it lists the files and looks at one of them per step (`ScanFile`), in the order
of their paths (`NextFile`); what it makes of its records,
`Readiness`, is a function, as the code touches the disk no more. The loader's
steps are the moments at which it looks at the disk: discovery, each blob of the
chain (`ReadBlob`), the DATs' discovery, each pairing (`Pair`). Without exact files
it lists one folder of blobs and one of DATs and nothing below
(`src/steam2_archive.cpp:342`, `:517`). It fails over a folder that cannot be
listed or an exact file that is not there, a DAT that does not open, and two files
of a manifest that get the same path, which the scan does not look into. The two
components share no code; **LibraryMount** composes them: the window puts the
exact files of a ready revision into a build (`MountRevision`, `WindowSpec`), or
a build names directories (`RunWorker`), while `FilesChange` goes on.

**Blob** is the metadata of a revision: the file, which is sized, opened and read
at different moments (`SizeFile`, `FileChanges`, `ReadFile`), `parse_blob`, one
step per entry, the fields that `load_blob_candidate` asks for, and the packed
manifest, which is a blob again and goes through the same steps. A number is a
cell, or two when it has 64 bits, so that every size and boundary is there on a
smaller scale.

**ArchiveRead** is `parse_checksum_table`, as the predicate `TableAccepted` and
the mapping it yields, and `Steam2File::read` in several threads over one
`DatSource`: `read_exact` is `Lock`, `Seek` and `ReadStream`, so that a reader
without the mutex would be seen to disturb another. A stream keeps its failed
state, as `std::ifstream` does. AES and zlib are the constants `Decrypt` and
`Inflate`.

**Manifest** is `parse_manifest` from the node table on: one step per turn of the
walk to the root, then one per projected path, which is refused when another file
has been projected to it (`Taken`).

**Depot** composes the three as `Steam2Depot::load` does, for a revision without a
parent: blob, checksum table, packed manifest, entries, and then the reads of the
mounted drive. What the bytes of a table or a manifest say is a constant
(`TableIn`, `ManifestsIn`). Choosing the files, and chains of revisions, are the
business of Loader.

**WinFspFileSystem** is the adapter over the tree: it extends VirtualTree, whose
handles are then those of the open contexts, by what these hold (`opened`) and by
what the driver knows (`pending`); `FsSpec` is its specification. A callback is one action
although it calls the tree several times, because the adapter keeps WinFsp's
default guard strategy, under which a change of the namespace excludes all other
callbacks on it (`external/winfsp/include/winfsp/winfsp.h:119`). The driver is external, taken
from what that header promises: cleanup precedes close, a directory with open
files inside is not renamed (`NothingOpenInside`), and `FspCleanupDelete`
(`DeleteFlag`) comes after a test, with other handles open (POSIX) or with the last
one. That the driver refuses some calls on a file about to be deleted is not
assumed. An enumeration is `ReadDirectoryFirst` and any number of
`ReadDirectoryNext`, one entry each, with other callbacks in between; `listed` and
`stayed` record what it has shown and should show.

In every module, an operator commented *Fault:* is not part of the model. It
is the following definition with a plausible mistake, and the property named
there fails when it is put in the definition's place. This shows for each
property that it depends on the code.

## Runs

| Run | Instance | Shows |
|---|---|---|
| `file_content` | 6 bytes in pages of 2, archive file of 3, inputs of 1, 2 and 3 bytes at every offset; 70,892 states | `NothingSurvivesTruncation`: nothing of the archive or of a page shows again after truncate and extend, and truncation frees. `StagedPagesMatch`, `PagesCommitTogether`: a page is hydrated when it must be, and a write is all or nothing. `RefinesByteFile`: all of it together is a plain file |
| `namespace` | root and 3 nodes, 2 keys of which one has 2 spellings, 6 paths of depth up to 3; 38,718 states up to symmetry | `WellPlaced`: the five records of where a node is agree. `NoCycles`. `NothingStranded`, `DeletionRemembered`, `DeletedStaysDeleted`: what a call or an overlay may not do. `RefinesNamespace`: calls do to the places of files what they say, and nothing else |
| `quota` | root and 3 nodes, 2 names, 3 pages of 2 bytes, quota 7; 9,559 states up to symmetry | `QuotaRespected`: the counter is exact with deleted and replaced files open, and bounded. `OpenFilesKeepPages`: no change of names touches an open file |
| `supervisor` | 2 mount points; 10,128 states | `MountFitsWorker`: stale output announces nothing, and the build definition outlives the load. `ButtonsFit`, `OrderlyEndIsExpected`; liveness `UnmountCompletes`, `CloseCompletes` |
| `worker` | 3 revisions with files in one another's way, 5 command lines; 22,446 states | `NothingLeftMounted`: whatever fails, nothing stays of the filesystem. `LaterDepotsWin`: the list's order decides, and no mirrored file hides a revision's. `StopIsHeard`: no wakeup is lost. `RefinesWorkerProtocol`, with fairness: the window's assumptions hold |
| `file_callbacks` | 2 clients, a file of at most 3 bytes or a directory, quota 2, one byte in the archive, times around every limit; 142,148 states up to symmetry | `InfoFits`: no rounding wraps. `AppendsAtTheEnd`: no write to the end overwrites another. `RefinesMountedFile`: each call takes effect at one moment and answers for it, or is refused for a reason and changes nothing but what a write out of memory spoils |
| `library` | 13 files in 2 folders, of one depot of 3 versions and another without key, with each combination of faulty blobs and either namesakes or faulty DATs; where all is in order, 2 changes at any moment; 122,141 states | `ReadyExactly`: readiness is what the README's conditions say, whatever the order of the tests. `LoadableIsReady`: what loads from folders is offered, but for copies in another. `AncestryComplete`, `RevisionIsTheOneAskedFor`: no change leads to a chain with a gap, another revision or an older file. `ReadyLoads`: what was shown as ready loads, from the blobs and DATs shown, if these have not changed |
| `depot` | 36 blobs of which 20 are bad, any in the place of any other; 12 tables, 7 of them bad; 7,504 manifests; a DAT of 5 cells in blocks of 2, 2 readers; 155,552 states | `BlobReadRight`: what is taken is what the file holds, and nothing else is refused. `ReadIsExact`: readers do not disturb each other, at any boundary. `FailureHasCause`: only a bad block fails a read. `PathsAreRight`, `PathsDistinct`, `RejectedWithReason`: the manifest, its deepest paths, and its colons |
| `handles` | 2 handles, root and 2 nodes, 2 names around `.` and `..` in the order, paths of depth up to 2; 81,537 states up to symmetry and a view | `DeletesItsOwn`: a deletion takes the file that was opened, not what has its name. `ContentsKept`: a file put in a directory between test and deletion survives. `ListedOnce`: an enumeration neither misses nor doubles what stays |
| `stale_path` | as `handles` | violated: see findings |
| `play_folder` | as `supervisor` | violated: see findings |
| `out_of_memory` | as `file_content` | violated: see findings |

Why these bounds. Three pages are a first, a middle and a last page of a
write, and pages of two bytes have an inside; the archive file ends inside
the second. Three nodes are a directory, a file in it, and one to move,
replace or delete; a directory of directories of a file needs all three, and
paths of two components lead from either directory into the other, and one
of three is the shortest by which a directory could be moved below a directory
that it contains.
Symmetry permutes nodes other than the root, and handles; no run with it has a
liveness property. In `quota`, seven bytes are three pages and a half: one
file of three pages fits, two do not, and no write can use the rest. The
supervisor needs two mount points to differ; `MaxQueued = 2` limits how often
the user closes again while `close()` calls are still queued, and no other
counter grows. Three versions are a root, a chain and a chain through a chain;
a twin in the same folder, a copy in the other and a lax name are the ways to be
ambiguous, to both, to the scan only, and to the worker only. `MaxBytes = 3` makes
the sum of the sizes overflow when one blob asks for a DAT of two. Two changes are enough to
take a file away and put another in, at any two moments. In `depot` a
block of two and a short one make every kind of request: inside, across, to the
end and beyond it; a table's numbers are 3 bits wide so that they overflow. Three nodes are a
file, its directory and a root, or the shortest circles; all of their tables come
with one table of empty files, and the DAT is read with three manifests of two
files. Each bad blob is wrong in one respect: cut short, a wrong magic, sizes or
widths, an entry that reaches into the slack, a key twice, a field missing, a
wrong packed or unpacked size. In
`handles`, two nodes are a directory and a file in it, or a file and another
that takes its name; the second handle is all the other programs. The view leaves
out tombstones, which nothing but an overlay reads, and what a handle was before
its cleanup. Three revisions are one with `FileSystem_Steam.dll`, one with
`Steam.dll` and a file where the first has a directory, and one with a directory
there again, so that each order of the list shows another tree; the second line that a
window might write, and a second console event, find nobody to read them and are left
out. In `file_callbacks` the largest size is 3 and the allocation unit 2, so
that rounding up overflows at one size; the quota is less than the largest
size; one byte of the archive is there to be read, kept, replaced and lost; and times
lie before the epoch, in the range, past what can be shown and past
what can be stored. The `depot` run switches the check for deadlocks
off, as a load that fails ends; no other run does.

**Fairness.** In MountSupervisor: the worker is that of `WorkerProtocol`, whose
loading ends and whose threads run, the scan ends, and the event loop delivers
output, exits, the end of the scan and queued calls. That is what the operating
system's scheduler and a running event loop give. Nothing is assumed of the
user, who need not even dismiss a box, nor of the timeout or crashes. In Worker:
weak fairness of the main thread but for the lock of the mutex, as each of its
calls returns; strong fairness of taking the mutex, of the stdin thread and of
the console handler's, which may find the mutex held, again and again, by a main
thread that wakes for nothing. Nothing is assumed of failures, of waking, or of
the one who started it. The liveness part of `RefinesWorkerProtocol` shows that
this gives the fairness which the window relies on. The other modules have no
liveness properties: their operations are calls that no one has to make. That a
load ends is the safety property `AncestryComplete`, as no chain is longer than its
top version; that the walk of a manifest ends is its guard `TooDeep`.

## Findings

* `play_folder`: Play searches `activeMountPoint_`, which is the mount point
  *selected when the announcement is read* (`gui/main_window.cpp:743`). The
  text field is disabled while the worker runs, but the button "Folder…" is
  not. Choosing a folder while the depots load makes Play look there, and not
  in "the projected tree" (`README.md:3`).
* `stale_path`: an open handle keeps the path it was opened with, and
  `ReadDirectory` looks up `..` by it (`src/winfsp_filesystem.cpp:849`). When
  another handle has moved the directory and the old parent is gone,
  removed or renamed, the first handle can no longer enumerate a directory that is
  still there, against "Preserve read/write/memory-mapped filesystem
  semantics through stable handles" (`CONTRIBUTING.md:21`).

* `out_of_memory`: `VirtualTree::write` publishes its staged pages before it
  copies the input into them, and `emplace()` allocates
  (`src/virtual_tree.cpp:421`). If it throws for the second page of a write, the
  first stays, and holds zeros where the write was to replace all of the archive's
  bytes, as these were not read (`src/virtual_tree.cpp:406`). The worker survives
  (`src/winfsp_filesystem.cpp:109`), the call has failed, and the file has lost
  the page: "Never silently fill missing archive data or ancestry"
  (`CONTRIBUTING.md:17`). Copying the input into the staged pages before they
  are published would not help alone, as half of a write would then be there;
  reserving the room in the map would not either, since each element is a node.

Met while modelling, and stated by no document that a run could refute: the
test for two equal paths of a manifest (`src/steam2_archive.cpp:1059`) is
case-sensitive and the tree is not (`src/virtual_tree.cpp:34`), so the second of
two case twins replaces the first; and `terminate()` does not end a worker.

## Proofs

Each module of proofs is about every value of the constants that the named
assumptions of the modules allow; TLC evaluates these on its instances. The
theorems are `Spec => []P` or `Spec => [][A]_vars`, from an inductive invariant,
with a lemma per action.

**Induction.** The recursive functions of the model (the walk of `Ancestry`, the
generations of `Needed`, the offsets of an archive's blocks, the cursors of the
blob parser) are reasoned about through two lemmas: `NatLeast`, a set of naturals
that is not empty has a least member, so that a proof by induction looks at
the least counterexample; and `IterationExists`, that a function defined by
recursion on a bounded natural exists. Both rest on the library's theorems on
well-founded relations that take no operator as a parameter.

**FileContent_proofs**, from the assumptions in `FileContent`:

* `FileInvariant`: `IInv` is the conjunction of
  `TypeOK`, the parts of `NothingSurvivesTruncation` (`BaseWithinFile`,
  `TailIsZero`, `NoPageBeyondEnd`) and `StagedPagesMatch`. None but the first is inductive alone: a commit keeps
  `TailIsZero` only because the staged bytes are those of `StagedPagesMatch`,
  and a staged page is zero beyond the end only because of `BaseWithinFile`.
* `TypeCorrect`, `TruncationForgets`, `StagesStayValid` and `WritesAreAtomic` follow.
* `FileRefinesByteFile`: a commit maps to `ByteFile!Write`, a resize to
  `ByteFile!Resize`, every other step to a stutter. The arithmetic is in
  lemmas on division (`DivBounds`, `DivMono`, ...) and on single operators
  (`StagedByteCorrect`, `CommitBytes`, `FirstRemovedCorrect`, `ResizeBytes`).

**VirtualTree_proofs**, for any number of nodes, names, paths, pages and handles:

* `TreeInvariant`: `IInv` says that the tree is well formed
  (types, the three parts of `WellPlaced`, the root's record), that the overlay's
  cursor is in a directory, that nodes not alive are unallocated, and that the
  quota is respected. The last but one is needed for a new node to have no
  pages and no place, and for the counter. One lemma per step that operations are
  made of (`VacateWellFormed`, `AddWellFormed`, `MoveWellFormed`,
  `DeleteWellFormed`, `PagesWellFormed`), one on `Finish`, one per action, and
  lemmas that `Closure` is closed and smallest.
* `TreeHasNoCycles` needs more: that every non-empty set of nodes has a member
  whose parent is outside it (`Grounded`), so that what is cut off closes no
  circle either. A rename is the only call that could break it; `GroundedMove`
  says why it does not: the nodes that its walk from the new parent up to the
  root visits are closed under parents and miss the node that moves.
* `NothingIsStranded`, `DeletionIsRemembered`, `DeletedNeverReturns`,
  `OpenFilesAreKept`: properties of steps, from what each call does to a place
  and what `Finish` leaves alone.
* `TreeImplementsNames`: all of `RefinesNamespace`, which has no fairness. A place
  is computed by walking parent pointers as many times as there are nodes;
  in a grounded tree the walk has then arrived, and a place is the parent's
  place with one more name (`Placed`), which determines all places. So each way to
  build a new tree (a node put in, taken out, moved, destroyed) has a lemma that
  says what becomes of every place, and each call one that finds these changes
  among those of `Namespace`. The invariant (`PInv`) adds
  to the above that the directory an overlay is in stays linked (`Standing`), and
  that it is the one to which the part of the path behind the cursor leads
  (`OnWay`). That two nodes have different places is what lets a lookup, by keys
  and children, and a place, by names and parents, agree.
* `ContentsAreKept` and `CleanupDeletesItsOwn`, about the adapter: a callback does
  one call of the tree or none, or leaves a mark of a name deleted behind
  (`CallbackCalls`), and each of these keeps the invariant of the tree
  (`TreeKept`). `NotStranded` then holds of callbacks, whatever lies between
  `CanDelete` and `Cleanup`; and a removal takes the link of its own node only
  (`RemoveUnlinksOne`).
* `EnumerationsListOnce`: what has been listed is in the order of names, each name
  that stayed and whose turn has come is listed, and names that stayed are still
  there (`ContextInv`). None of it depends on the shape of the tree, only on
  the order of names (`RankAssumption`) and on the marker being the last name listed.

**Depot_proofs**, for blobs, tables, node tables and DATs of any size:

* `Invariance`: the parts of the invariant are `BlobInv`, what the parser has
  taken when it stands at an entry, `DataInv`, the place of each reader in
  its file and the stream's, and `PathInv`, the way that the walk has gone up.
* `BlobIsReadRight`: the boundaries of entries are the least set that contains
  the first and with each the next, so a parser that stands at a boundary has
  passed all those before it.
* `ReadsAreExact`, `FailuresHaveCauses`: what a reader has is what the file
  holds up to its place, whoever else moved the stream between its lock and its
  read.
* `PathsAlwaysRight`, `PathsNeverClash`, `RejectionHasReason`: a way up that is
  longer than the table visits a node twice, by counting; a path is the names
  of the ancestors, which no later step changes; and what is `projected` are the
  paths of the files passed so far, each of which was new.

**LibraryMount_proofs**, for any names, contents, changes of files, and chains
of any length:

* `Invariance`: `Inv` has a part on the records of the scan (`ScanInv`: the record
  of an untouched file is what a scan would make of it now), one on the load
  (`LoadInv`), and two that tie them: a load of what is shown follows the
  window's chain while its files stay as they were (`Follows`), and one from
  folders has found every file in them that fits (`Searched`).
* `ChainsAreComplete` and `LoadedIsAskedFor` follow from `LoadInv` alone, so no change
  of files can break them. The second needs `MappingsOK`: a file id is served by
  the last source that maps it.
* `ReadyIsExact`: the walk of `Ancestry` returns a chain of which each blob is the only
  one with its identity (`ReadyChain`). That what is needed is on the chain goes by
  the least generation that is not, that the ancestry is found if what is needed
  is there by the least version for which it is not.
* `WhatIsShownLoads`: from `Follows`. Along a chain versions are distinct, so
  that among the exact files each blob and each DAT is the only one of its
  version, and no test of the loader can fail but the opening of a DAT and those of the
  tables and of equal paths.
* `WhatLoadsIsShown`: from `Searched`. That a blob was the only candidate makes it
  the only record of its identity in that folder, and its DAT the only one there
  that fits; from
  there up the chain from the oldest blob.

**MountSupervisor_proofs**, for any mount points and definitions:

* `Invariant`: ties the window's flags and the open box to what the worker is doing
  and what it has said that is not read yet, the definition it was given and
  the mount point. `MountAlwaysFitsWorker`, `ButtonsAlwaysFit` and
  `NoWarningOfRequestedEnd` follow.
* `WindowKeepsProtocol`: the worker's part of a step is one by `WorkerProtocol`,
  so what the window relies on is what the next module proves.

**Composition_proofs**, for any revisions, files and command lines, from
`PathsAssumption` and `CommandsAssumption`:

* `WorkerInvariant`: `IInv` ties to each step of the main thread what
  it has announced, how it may end, what exists of the filesystem, which threads
  may run, and who holds the mutex. `NothingLeftMounted` alone is not
  inductive: that a failed `start()` leaves nothing depends on which parts exist
  at the step that fails.
* `WorkerCleansUp` (`NothingLeftMounted`) and `WakeupsArrive` follow: a main thread
  asleep with a stop requested has a thread about to notify it. This is
  what `StopIsHeard` rests on besides fairness.
* `LaterRevisionsWin` (`LaterDepotsWin`): the tree is, after each depot, the projection
  of the revisions so far (`ProjectionGrows`), the list of the definition is
  the window's (`RequiredOfAll`, by the least item at which they differ), and
  no one edits it while a worker runs. The copy of `Steam.dll` comes only to a
  tree that has nothing at its path or below.
* `WorkerKeepsProtocol`: every step of the worker is a step of `WorkerProtocol`
  or a stutter. It is the safety part of `RefinesWorkerProtocol`; the fairness
  part is model-checked.

**FileCallbacks_proofs**, for any number of clients and calls, and any sizes,
contents, attributes and times:

* `CallbacksAreConsistent`: `Inv` says which values the node may have (`NodeOK`),
  what each callback has seen and answered in each of its phases (`CallsOK`),
  and that a callback that has begun to change the file is alone (`Alone`). The
  last is why what a callback saw is still so at its next step, although each
  step takes and releases the tree's mutex. It rests on WinFsp's own lock of a
  file (`Granted`, external).
* `InfosFit` and `WritesToTheEndAppend` follow: the first since the sizes and
  attributes of an answer were all read while nothing could change them, the
  second since the size at which the write begins is that of its offset.
* `CallbacksImplementFile`: all of `RefinesMountedFile`, which has no fairness. The
  first change that a callback makes is mapped to the call taking effect and its
  other steps to stutters, for which the view shows what the callback has
  still to do as done: one view per kind of call (`PlainView`, `CallerView`,
  `OverwriteView`, `BasicView`, `CleanupView`), one lemma per action.

Only model-checked: `UnmountCompletes`, `CloseCompletes`, `StopIsHeard` and the
fairness in `RefinesWorkerProtocol`. They are liveness, which is out of the
prover's reach, as are `ENABLED` and RECURSIVE operators (none is used). Every
other property of a run that passes is a theorem.

## Not modelled

* Of the WinFsp adapter: security descriptors, the volume's label and
  information, the checks of paths, and memory running out but in `Create`, `Read`
  and `Write`.
* Of the archive: the byte layout of tables and manifests, their checksums,
  AES and zlib themselves, mount prefixes (the window gives none).
* Of the catalog: which folders are its roots, files outside them, symbolic links
  (the scan skips them, the worker follows them), labels and messages. Of a pairing,
  that another DAT comes to be there between its being sized and opened.
* Of the virtual tree: the splitting of paths, the checks of foreign handles, and
  memory running out but for the commit of a write.
* Of the window: settings, the library's folders, the widgets, the choice of a
  program by Play, errors of `mountComposition()` before it changes anything.
* Of the worker: the syntax of its options and of the JSON build definition, of
  which only the outcome is modelled, and the search for `Steam.dll`.
* Depot keys and labels, vendored headers, builds and CI have no behaviour. The
  table of depot keys is two thirds of the implementation's lines.

## Plan

What is left is the replacement of a DAT between its being sized and opened
(`src/steam2_archive.cpp:480`): no block carries a checksum that is looked at,
so that what could be stated of it is only what a DAT cut or damaged shows.
