------------------------------- MODULE Worker -------------------------------
(***************************************************************************)
(* The worker process, steam2fs (main.cpp): wmain() from its command line  *)
(* to its exit, the filesystem object it starts and stops (start(), stop() *)
(* and the destructor of WinFspFileSystem), the thread that reads its      *)
(* stdin and the thread in which Windows calls its console handler.        *)
(*                                                                         *)
(* Every place where another thread or a failure can come in between is a  *)
(* step of the main thread.  An exception leads to the step "unwind".      *)
(*                                                                         *)
(* Left out: the syntax of the command line and of the build definition,   *)
(* of which only the outcome counts; how a depot is loaded, for which see  *)
(* module Loader; writes to the tree, which begin when the dispatcher      *)
(* runs.  A revision is what Files says, names folded to one case.         *)
(***************************************************************************)
EXTENDS Integers, Sequences, SequencesExt

CONSTANTS
    Version,        \* the revisions of depots that a build may name
    Files,          \* the paths of the files of each, as sequences of names
    FileSystemDll,  \* \bin\FileSystem_Steam.dll
    SteamDll        \* \bin\Steam.dll

\* One path leads to or through the other: a tree cannot have both as files.
Collide(p, q) == IsPrefix(p, q) \/ IsPrefix(q, p)

ASSUME PathsAssumption == FileSystemDll \in Seq(STRING) /\ SteamDll \in Seq(STRING)

ASSUME FilesAssumption ==
    \A v \in Version : \A p, q \in Files[v] : Collide(p, q) => p = q

VARIABLES
    step,           \* where the main thread is
    arguments,      \* the command line, and the build definition it names
    specs,          \* the revisions to load, as load_build() returns them
    loaded,         \* how many of them the tree has
    tree,           \* the files of the tree, each with the depot it is from
    fileSystem,     \* what exists of the WinFsp filesystem
    announced,      \* it has been told that the filesystem is mounted
    code,           \* how the process will end
    handler,        \* the console handler is installed
    stopRequested,  \* stop_requested
    mutex,          \* the main thread holds stop_mutex
    reader,         \* where the thread that reads stdin is
    console,        \* where the thread of the console handler is
    stdin,          \* a line to read, and the end after it
    unread          \* what has been printed and not been read

main == <<step, arguments, specs, loaded, tree, fileSystem, announced, code, handler>>
others == <<stopRequested, mutex, reader, console, stdin, unread>>
workerVars == <<main, others>>

NoFileSystem == {}  \* of the parts "object", "mountPoint", "dispatcher"
NoArguments == [valid |-> FALSE, build |-> <<>>, mirror |-> FALSE, waitStdin |-> FALSE,
                inspect |-> FALSE, supervised |-> FALSE]

Alive == step \notin {"none", "exited"}

Idle ==
    /\ step = "none" /\ arguments = NoArguments /\ specs = <<>> /\ loaded = 0 /\ tree = {}
    /\ fileSystem = NoFileSystem /\ announced = FALSE /\ code = "none" /\ handler = FALSE
    /\ stopRequested = FALSE /\ mutex = FALSE /\ reader = "none" /\ console = "none"
    /\ stdin = [line |-> FALSE, closed |-> FALSE] /\ unread = "nothing"

-----------------------------------------------------------------------------
(***************************************************************************)
(* The main thread: loading.                                               *)
(***************************************************************************)
\* Fault: an exception is reported as success (RefinesWorkerProtocol).
ThrowsQuietly ==
    /\ step' = "unwind"
    /\ code' = "exitOk"
    /\ UNCHANGED <<arguments, specs, loaded, tree, fileSystem, announced, handler>>
    /\ UNCHANGED others

\* An exception that wmain() catches; its exit code is 1 or 2.
Throws ==
    /\ step' = "unwind"
    /\ code' = "exitError"
    /\ UNCHANGED <<arguments, specs, loaded, tree, fileSystem, announced, handler>>
    /\ UNCHANGED others

\* Text reaches a pipe when its buffer is full or flushed.
Prints == unread' \in {unread, IF unread = "nothing" THEN "progress" ELSE unread}

ParseOptions ==
    /\ step = "options"
    /\ IF arguments.valid
       THEN /\ step' = "build"
            /\ UNCHANGED <<arguments, specs, loaded, tree, fileSystem, announced, code, handler>>
            /\ UNCHANGED others
       ELSE Throws

\* The revisions of a build but those that it does not require.
Required ==
    LET item == arguments.build
        before[n \in 0 .. Len(item)] ==
            IF n = 0 THEN <<>>
            ELSE IF item[n].required THEN Append(before[n - 1], item[n].version)
            ELSE before[n - 1]
    IN  before[Len(item)]

\* load_build(), which skips what is not required and may not succeed.
LoadBuild ==
    /\ step = "build"
    /\ \/ Throws
       \/ /\ Required # <<>>
          /\ specs' = Required
          /\ step' = "depots"
          /\ UNCHANGED <<arguments, loaded, tree, fileSystem, announced, code, handler>>
          /\ UNCHANGED others

PrintLoading ==
    /\ step = "depots"
    /\ loaded < Len(specs)
    /\ Prints
    /\ step' = "overlay"
    /\ UNCHANGED <<arguments, specs, loaded, tree, fileSystem, announced, code, handler>>
    /\ UNCHANGED <<stopRequested, mutex, reader, console, stdin>>

\* Fault: a file only replaces a file of its own name (LaterDepotsWin).
OverlaidByName(files, depot) ==
    {e \in tree : e.path \notin files} \cup {[path |-> p, depot |-> depot] : p \in files}

\* VirtualTree::overlay: a file replaces the file or directory of its name, and
\* the files that stand where its directories have to be.
Overlaid(files, depot) ==
    {e \in tree : \A p \in files : ~Collide(e.path, p)}
        \cup {[path |-> p, depot |-> depot] : p \in files}

\* Steam2Depot::load and VirtualTree::overlay for the next depot.
OverlayDepot ==
    /\ step = "overlay"
    /\ \/ Throws
       \/ /\ loaded' = loaded + 1
          /\ tree' = Overlaid(Files[specs[loaded + 1]], loaded + 1)
          /\ step' = "depots"
          /\ UNCHANGED <<arguments, specs, fileSystem, announced, code, handler>>
          /\ UNCHANGED others

BuildReady ==
    /\ step = "depots"
    /\ loaded = Len(specs)
    /\ Prints
    /\ step' = "mirror"
    /\ UNCHANGED <<arguments, specs, loaded, tree, fileSystem, announced, code, handler>>
    /\ UNCHANGED <<stopRequested, mutex, reader, console, stdin>>

Lookup(path) == \E e \in tree : IsPrefix(path, e.path)

\* Fault: does not look whether a depot has brought the file (LaterDepotsWin).
MirrorsAlways == arguments.mirror /\ Lookup(FileSystemDll)

\* mirror_steam_runtime(): whether the tree lacks the file it needs.
NeedsMirror == arguments.mirror /\ Lookup(FileSystemDll) /\ ~Lookup(SteamDll)

\* mirror_steam_runtime(), with what discover_steam_dll() finds, and the end of
\* a worker that was only to inspect the build.  The copy is "depot" 0.
MirrorSteamRuntime ==
    /\ step = "mirror"
    /\ \/ /\ NeedsMirror
          /\ Throws
       \/ /\ \/ UNCHANGED tree
             \/ /\ NeedsMirror
                /\ tree' = {e \in tree : e.path # SteamDll} \cup {[path |-> SteamDll, depot |-> 0]}
          /\ IF arguments.inspect
             THEN step' = "return" /\ code' = "exitOk"
             ELSE step' = "handler" /\ UNCHANGED code
          /\ Prints
          /\ UNCHANGED <<arguments, specs, loaded, fileSystem, announced, handler>>
          /\ UNCHANGED <<stopRequested, mutex, reader, console, stdin>>

-----------------------------------------------------------------------------
(***************************************************************************)
(* The main thread: the filesystem.                                        *)
(***************************************************************************)
InstallHandler ==
    /\ step = "handler"
    /\ \/ Throws
       \/ /\ handler' = TRUE
          /\ step' = "create"
          /\ UNCHANGED <<arguments, specs, loaded, tree, fileSystem, announced, code>>
          /\ UNCHANGED others

\* One call of start(): a failure deletes the filesystem, if there is one.
Starting(from, part, to) ==
    /\ step = from
    /\ UNCHANGED <<arguments, specs, loaded, tree, announced, handler>>
    /\ UNCHANGED others
    /\ \/ /\ fileSystem' = fileSystem \cup {part}
          /\ step' = to
          /\ UNCHANGED code
       \/ /\ fileSystem' = NoFileSystem
          /\ step' = "unwind"
          /\ code' = "exitError"

Create == Starting("create", "object", "mount")  \* FspLoad and FspFileSystemCreate
SetMountPoint == Starting("mount", "mountPoint", "dispatch")
StartDispatcher == Starting("dispatch", "dispatcher", "announce")

\* Fault: stdin is read by a worker that has said nothing (RefinesWorkerProtocol).
AnnouncesNothing == announced' = FALSE /\ unread' = unread

\* "mounted at", flushed.
Announces == announced' = TRUE /\ unread' = "announcement"

Announce ==
    /\ step = "announce"
    /\ Announces
    /\ step' = IF arguments.waitStdin THEN "thread" ELSE "lock"
    /\ UNCHANGED <<arguments, specs, loaded, tree, fileSystem, code, handler>>
    /\ UNCHANGED <<stopRequested, mutex, reader, console, stdin>>

\* std::thread may throw, and then nothing has stopped the filesystem yet.
StartReader ==
    /\ step = "thread"
    /\ \/ Throws
       \/ /\ reader' = "getline"
          /\ step' = "lock"
          /\ UNCHANGED <<arguments, specs, loaded, tree, fileSystem, announced, code, handler>>
          /\ UNCHANGED <<stopRequested, mutex, console, stdin, unread>>

-----------------------------------------------------------------------------
(***************************************************************************)
(* The main thread: stop_condition.wait.                                   *)
(***************************************************************************)
Waiting(from, to, holds) ==
    /\ step = from
    /\ step' = to
    /\ mutex' = holds
    /\ UNCHANGED <<arguments, specs, loaded, tree, fileSystem, announced, code, handler>>
    /\ UNCHANGED <<stopRequested, reader, console, stdin, unread>>

Locks == ~mutex /\ Waiting("lock", "test", TRUE)
SeesTheRequest == stopRequested /\ Waiting("test", "stop", FALSE)
SeesNoRequest == ~stopRequested /\ Waiting("test", "sleep", TRUE)
FallsAsleep == Waiting("sleep", "asleep", FALSE)
WakesForNothing == Waiting("asleep", "lock", FALSE)

-----------------------------------------------------------------------------
(***************************************************************************)
(* The main thread: stop(), or the destructor, and the exit.               *)
(***************************************************************************)
\* Fault: only the end of wmain() stops the filesystem (NothingLeftMounted).
StoppingInOrder == step = "stop"

\* What runs stop(): the end of wmain(), or the destructor after an exception.
Stopping == step \in {"stop", "unwind"}

StopDispatcher ==
    /\ Stopping
    /\ "dispatcher" \in fileSystem
    /\ fileSystem' = fileSystem \ {"dispatcher"}
    /\ UNCHANGED <<step, arguments, specs, loaded, tree, announced, code, handler>>
    /\ UNCHANGED others

\* FspFileSystemDelete, which removes the mount point.
DeleteFileSystem ==
    /\ Stopping
    /\ "object" \in fileSystem /\ "dispatcher" \notin fileSystem
    /\ fileSystem' = NoFileSystem
    /\ UNCHANGED <<step, arguments, specs, loaded, tree, announced, code, handler>>
    /\ UNCHANGED others

\* The catch clause prints what went wrong.
Stopped ==
    /\ step \in {"stop", "unwind"}
    /\ ~(Stopping /\ fileSystem # NoFileSystem)
    /\ step' = "return"
    /\ IF step = "stop"
       THEN handler' = FALSE /\ code' = "exitOk" /\ UNCHANGED unread
       ELSE Prints /\ UNCHANGED <<handler, code>>
    /\ UNCHANGED <<arguments, specs, loaded, tree, fileSystem, announced>>
    /\ UNCHANGED <<stopRequested, mutex, reader, console, stdin>>

Returns ==
    /\ step = "return"
    /\ step' = "exited"
    /\ UNCHANGED <<arguments, specs, loaded, tree, fileSystem, announced, code, handler>>
    /\ UNCHANGED others

\* An access violation, or a console event that ends the process: one before
\* there is a handler, or the closing of the console, after the handler.  The
\* driver takes down the filesystem of a process that is gone.
Crashes ==
    /\ Alive
    /\ step' = "exited"
    /\ code' = "exitCrash"
    /\ fileSystem' = NoFileSystem
    /\ UNCHANGED <<arguments, specs, loaded, tree, announced, handler>>
    /\ UNCHANGED others

-----------------------------------------------------------------------------
(***************************************************************************)
(* The threads that request a stop.                                        *)
(***************************************************************************)
\* Fault: request_stop() sets the flag without the mutex (StopIsHeard).
MaySetUnlocked == TRUE

\* request_stop() sets the flag under the mutex.
MaySet == ~mutex

\* notify_all().
Notifies == step' = IF step = "asleep" THEN "lock" ELSE step

\* std::getline(std::cin, command).
ReaderReads ==
    /\ Alive
    /\ reader = "getline"
    /\ stdin.line
    /\ stdin' = [stdin EXCEPT !.line = FALSE]
    /\ reader' = "set"
    /\ UNCHANGED main
    /\ UNCHANGED <<stopRequested, mutex, console, unread>>

\* The end of stdin requests nothing.
ReaderEnds ==
    /\ Alive
    /\ reader = "getline"
    /\ ~stdin.line /\ stdin.closed
    /\ reader' = "done"
    /\ UNCHANGED main
    /\ UNCHANGED <<stopRequested, mutex, console, stdin, unread>>

ReaderSets ==
    /\ Alive
    /\ reader = "set"
    /\ MaySet
    /\ stopRequested' = TRUE
    /\ reader' = "notify"
    /\ UNCHANGED main
    /\ UNCHANGED <<mutex, console, stdin, unread>>

ReaderNotifies ==
    /\ Alive
    /\ reader = "notify"
    /\ Notifies
    /\ reader' = "done"
    /\ UNCHANGED <<arguments, specs, loaded, tree, fileSystem, announced, code, handler>>
    /\ UNCHANGED <<stopRequested, mutex, console, stdin, unread>>

\* Windows calls console_handler() in a thread of its own, once at most here.
ConsoleEvent ==
    /\ Alive
    /\ handler
    /\ ~arguments.supervised
    /\ console = "none"
    /\ console' = "set"
    /\ UNCHANGED main
    /\ UNCHANGED <<stopRequested, mutex, reader, stdin, unread>>

ConsoleSets ==
    /\ Alive
    /\ console = "set"
    /\ MaySet
    /\ stopRequested' = TRUE
    /\ console' = "notify"
    /\ UNCHANGED main
    /\ UNCHANGED <<mutex, reader, stdin, unread>>

ConsoleNotifies ==
    /\ Alive
    /\ console = "notify"
    /\ Notifies
    /\ console' = "done"
    /\ UNCHANGED <<arguments, specs, loaded, tree, fileSystem, announced, code, handler>>
    /\ UNCHANGED <<stopRequested, mutex, reader, stdin, unread>>

-----------------------------------------------------------------------------
(***************************************************************************)
(* Who started it.                                                         *)
(***************************************************************************)
Start(a) ==
    /\ step = "none"
    /\ step' = "options"
    /\ arguments' = a
    /\ UNCHANGED <<specs, loaded, tree, fileSystem, announced, code, handler>>
    /\ UNCHANGED others

\* A second line is one that nobody reads, and is left out.
WriteLine ==
    /\ step # "none"
    /\ ~stdin.closed
    /\ reader \in {"none", "getline"}
    /\ stdin' = [stdin EXCEPT !.line = TRUE]
    /\ UNCHANGED main
    /\ UNCHANGED <<stopRequested, mutex, reader, console, unread>>

\* The window is gone, or the console user types the end of the input.
CloseStdin ==
    /\ step # "none"
    /\ stdin' = [stdin EXCEPT !.closed = TRUE]
    /\ UNCHANGED main
    /\ UNCHANGED <<stopRequested, mutex, reader, console, unread>>

ReadOutput ==
    /\ unread' = "nothing"
    /\ UNCHANGED main
    /\ UNCHANGED <<stopRequested, mutex, reader, console, stdin>>

Reap ==
    /\ step = "exited"
    /\ unread = "nothing"
    /\ step' = "none" /\ arguments' = NoArguments /\ specs' = <<>> /\ loaded' = 0 /\ tree' = {}
    /\ fileSystem' = NoFileSystem /\ announced' = FALSE /\ code' = "none" /\ handler' = FALSE
    /\ stopRequested' = FALSE /\ mutex' = FALSE /\ reader' = "none" /\ console' = "none"
    /\ stdin' = [line |-> FALSE, closed |-> FALSE] /\ UNCHANGED unread

-----------------------------------------------------------------------------
MainThread ==
    \/ ParseOptions
    \/ LoadBuild
    \/ PrintLoading
    \/ OverlayDepot
    \/ BuildReady
    \/ MirrorSteamRuntime
    \/ InstallHandler
    \/ Create
    \/ SetMountPoint
    \/ StartDispatcher
    \/ Announce
    \/ StartReader
    \/ SeesTheRequest
    \/ SeesNoRequest
    \/ FallsAsleep
    \/ StopDispatcher
    \/ DeleteFileSystem
    \/ Stopped
    \/ Returns

Reader == ReaderReads \/ ReaderEnds \/ ReaderSets \/ ReaderNotifies

Console == ConsoleSets \/ ConsoleNotifies

WorkerNext ==
    \/ MainThread
    \/ Locks
    \/ WakesForNothing
    \/ Crashes
    \/ Reader
    \/ ConsoleEvent
    \/ Console
    \/ WriteLine \/ CloseStdin \/ ReadOutput \/ Reap

\* Threads run, and one that waits for the mutex gets it when it is released
\* again and again.  No one need wake the main thread but who notifies it.
WorkerFairness ==
    /\ WF_workerVars(MainThread)
    /\ SF_workerVars(Locks)
    /\ SF_workerVars(Reader)
    /\ SF_workerVars(Console)

-----------------------------------------------------------------------------
(***************************************************************************)
(* Properties.                                                             *)
(***************************************************************************)
Protocol ==
    INSTANCE WorkerProtocol WITH
        worker <- IF step = "none" THEN "none"
                  ELSE IF step = "exited" THEN code
                  ELSE IF announced THEN "serving" ELSE "loading",
        supervised <- arguments.supervised,
        stdinLine <- arguments.waitStdin /\ (stdin.line \/ reader = "set")

\* The worker keeps what the window of module MountSupervisor relies on: it
\* announces its mount once and after it, exits with 0 only after a request,
\* never reads its stdin before, and obeys a line and then ends, whatever it
\* was doing when the line was written.
RefinesWorkerProtocol == Protocol!Spec

\* A stop that is requested is heard: no wakeup is lost between the test of the
\* flag and the sleep, and a request made while the worker still loads counts
\* when it comes to wait.
StopIsHeard == stopRequested ~> ~Alive

\* The worker has its filesystem served when it says so, until it begins to
\* stop; it deletes it only after the dispatcher has stopped; and however it
\* returns, no part of the filesystem is left, whichever call had failed.
NothingLeftMounted ==
    /\ announced /\ step \in {"thread", "lock", "test", "sleep", "asleep"}
            => fileSystem = {"object", "mountPoint", "dispatcher"}
    /\ "dispatcher" \in fileSystem => {"object", "mountPoint"} \subseteq fileSystem
    /\ step \in {"return", "exited"} => fileSystem = NoFileSystem

=============================================================================
