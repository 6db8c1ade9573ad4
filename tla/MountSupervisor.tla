--------------------------- MODULE MountSupervisor ---------------------------
(***************************************************************************)
(* The life of a mount: the main window of the GUI (gui/main_window.cpp)   *)
(* and the worker process it supervises (main.cpp), which talk over the    *)
(* worker's stdin and output, and through its exit.                        *)
(*                                                                         *)
(* The window runs one event handler at a time, so each is one action.     *)
(* The exceptions are the message boxes that a handler opens: they run a   *)
(* nested event loop, so the handler's remainder is an action of its own   *)
(* and other events may come in between, but no input to the window, which *)
(* the box blocks.  Buttons are enabled as the last refreshActions() left  *)
(* them, which is state of the window, not a function of it.               *)
(*                                                                         *)
(* Left out: what is scanned, composed and mounted, of which modules       *)
(* Catalog and Composition tell; the errors that make mountComposition()   *)
(* return before it changes anything.                                      *)
(*                                                                         *)
(* An operator whose comment begins with "Fault:" is no part of the model. *)
(* It is the definition after it with a plausible mistake in it, and the   *)
(* property that notices the mistake is named there.                       *)
(***************************************************************************)
EXTENDS Integers, FiniteSets

CONSTANTS
    MountPoint,     \* the drive letters and folders a user may choose
    NoMountPoint,   \* an empty mount point
    MaxQueued       \* bound: close() calls queued when the user closes again

ASSUME MountPointAssumption == NoMountPoint \notin MountPoint
ASSUME MaxQueuedAssumption == MaxQueued \in Nat \ {0}

VARIABLES
    \* The worker process.
    worker,             \* "none", "loading", "serving", or how it exited
    mountArgument,      \* the mount point it was started with
    stdinLine,          \* a line has been written to its stdin
    stopRequested,      \* stop_requested in main.cpp
    unread,             \* what it has printed and the window has not read
    \* What the window knows of the mount.
    mounted,            \* mounted_
    unmountRequested,   \* unmountRequested_
    activeMountPoint,   \* activeMountPoint_
    probe,              \* mountOutputProbe_ contains "mounted at"
    buildFile,          \* buildFile_ is not null: the build definition exists
    timer,              \* unmountTimer_ is running
    \* The rest of the window.
    open,               \* the window has not been closed
    close,              \* closePending_, and the close() calls that are queued
    scan,               \* "idle", "running", or "finished" and not yet handled
    box,                \* the message box that is open
    selected,           \* the text of mountPoint_
    composed,           \* composition_ is not empty
    buttons             \* what refreshActions() enabled last

process == <<worker, mountArgument, stdinLine, stopRequested, unread>>
mount == <<mounted, unmountRequested, activeMountPoint, probe, buildFile, timer>>
window == <<open, close, scan, box, selected, composed, buttons>>
vars == <<process, mount, window>>

Process == INSTANCE WorkerProtocol WITH supervised <- TRUE

Exited == Process!Exited
Running == worker # "none"    \* mountProcess_.state() != NotRunning
Scanning == scan = "running"  \* scanWatcher_.isRunning()
Button == {"edit", "mount", "play", "unmount"}

-----------------------------------------------------------------------------
(***************************************************************************)
(* What several handlers do.                                               *)
(***************************************************************************)
\* The buttons that a window in this state should offer.
Offered ==
    {b \in Button : /\ b \in {"edit", "mount"} => ~Running
                    /\ b \in {"play", "unmount"} => Running
                    /\ b = "mount" => composed /\ selected # NoMountPoint
                    /\ b = "play" => mounted
                    /\ b = "unmount" => ~unmountRequested}

\* Fault: called before the handler has changed the state (ButtonsFit).
RefreshesTooEarly == buttons' = Offered

\* MainWindow::refreshActions, called at the end of a handler.
RefreshActions == buttons' = Offered'

\* MainWindow::maybeFinishClose, c being the value of close before it.
MaybeFinishClose(c) ==
    IF c.pending /\ ~Scanning' /\ ~Running' THEN [pending |-> FALSE, queued |-> c.queued + 1] ELSE c

\* Fault: a request made while the worker loads is not written (UnmountCompletes).
WritesWhenServing == stdinLine' = (worker = "serving")

\* mountProcess_.write("unmount\n").
WriteLine == stdinLine' = TRUE

\* MainWindow::requestUnmount while the process runs.
RequestUnmount ==
    IF unmountRequested THEN UNCHANGED <<process, mount, buttons>>
    ELSE /\ unmountRequested' = TRUE
         /\ mounted' = FALSE
         /\ WriteLine
         /\ timer' = TRUE
         /\ UNCHANGED <<worker, mountArgument, stopRequested, unread>>
         /\ UNCHANGED <<activeMountPoint, probe, buildFile>>
         /\ UNCHANGED <<selected, composed>>
         /\ RefreshActions

Init ==
    /\ worker = "none" /\ mountArgument = NoMountPoint
    /\ stdinLine = FALSE /\ stopRequested = FALSE /\ unread = "nothing"
    /\ mounted = FALSE /\ unmountRequested = FALSE
    /\ activeMountPoint = NoMountPoint /\ probe = FALSE
    /\ buildFile = FALSE /\ timer = FALSE
    /\ open = TRUE /\ close = [pending |-> FALSE, queued |-> 0]
    /\ scan = "idle" /\ box = "none"
    /\ selected \in MountPoint /\ composed = FALSE
    /\ buttons = Offered

-----------------------------------------------------------------------------
(***************************************************************************)
(* The worker, as module WorkerProtocol has it: Worker implements that.    *)
(***************************************************************************)
WorkerStep(step) == step /\ UNCHANGED <<mountArgument, mount, window>>

WorkerPrints == WorkerStep(Process!WorkerPrints)
WorkerMounts == WorkerStep(Process!WorkerMounts)
WorkerFails == WorkerStep(Process!WorkerFails)
WorkerReadsLine == WorkerStep(Process!WorkerReadsLine)
WorkerUnmounts == WorkerStep(Process!WorkerUnmounts)
WorkerCrashes == WorkerStep(Process!WorkerCrashes)

-----------------------------------------------------------------------------
(***************************************************************************)
(* Events of the worker at the window.                                     *)
(***************************************************************************)
\* MainWindow::mountOutputReady.
OutputReady ==
    /\ unread # "nothing"
    /\ unread' = "nothing"
    /\ probe' = (probe \/ unread = "announcement")
    /\ UNCHANGED <<worker, mountArgument, stdinLine, stopRequested>>
    /\ UNCHANGED <<unmountRequested, buildFile, timer>>
    /\ UNCHANGED <<open, close, scan, box, selected, composed>>
    /\ IF probe' /\ ~mounted
       THEN /\ mounted' = TRUE
            /\ activeMountPoint' = selected
            /\ RefreshActions
       ELSE UNCHANGED <<mounted, activeMountPoint, buttons>>

\* Fault: every process error drops the build definition (MountFitsWorker).
AnyErrorDropsBuildFile(error) == TRUE

\* mountError: only a worker that did not start has no more use for it.
DropsBuildFile(error) == error = "FailedToStart"

\* Fault: an error makes the window forget the request (OrderlyEndIsExpected).
ForgetsRequest == unmountRequested' = FALSE

\* An error on a pipe leaves a requested unmount requested.
KeepsRequest == UNCHANGED unmountRequested

\* MainWindow::mountError for an error on the worker's pipes.
StreamError ==
    /\ worker \in {"loading", "serving"}
    /\ buildFile' = (buildFile /\ ~DropsBuildFile("ReadError"))
    /\ KeepsRequest
    /\ UNCHANGED <<process, mounted, activeMountPoint, probe, timer>>
    /\ UNCHANGED <<open, scan, box, selected, composed>>
    /\ RefreshActions
    /\ close' = MaybeFinishClose(close)

\* The end of mountFinished, after the message box if there was one.
EndMountFinished(c) ==
    /\ unmountRequested' = FALSE
    /\ RefreshActions
    /\ close' = MaybeFinishClose(c)

\* MainWindow::mountFinished.  QProcess has delivered the last output before,
\* and reports a crash to mountError first, as the state is already NotRunning.
MountFinished ==
    /\ worker \in Exited
    /\ unread = "nothing"
    /\ worker' = "none" /\ mountArgument' = NoMountPoint
    /\ stdinLine' = FALSE /\ stopRequested' = FALSE
    /\ timer' = FALSE
    /\ mounted' = FALSE
    /\ activeMountPoint' = NoMountPoint
    /\ buildFile' = FALSE
    /\ UNCHANGED <<unread, probe, open, scan, selected, composed>>
    /\ LET expected == unmountRequested /\ worker = "exitOk"
           c == IF worker = "exitCrash" THEN MaybeFinishClose(close) ELSE close
       IN  IF expected \/ c.pending
           THEN UNCHANGED box /\ EndMountFinished(c)
           ELSE /\ box' = "ended"
                /\ close' = c
                /\ UNCHANGED unmountRequested
                /\ IF worker = "exitCrash" THEN RefreshActions ELSE UNCHANGED buttons

\* The user dismisses the box of mountFinished or of mountError.
DismissBox ==
    /\ open
    /\ box # "none"
    /\ box' = "none"
    /\ UNCHANGED <<process, mounted, activeMountPoint, probe, buildFile, timer>>
    /\ UNCHANGED <<open, scan, selected, composed>>
    /\ IF box = "ended"
       THEN EndMountFinished(close)
       ELSE /\ UNCHANGED unmountRequested
            /\ RefreshActions
            /\ close' = MaybeFinishClose(close)

\* MainWindow::unmountTimedOut.  terminate() posts WM_CLOSE to the windows of
\* the worker and to its main thread; it has no window and reads no messages,
\* so nothing comes of it.
UnmountTimedOut ==
    /\ timer
    /\ timer' = FALSE
    /\ UNCHANGED <<process, mounted, unmountRequested, activeMountPoint, probe, buildFile>>
    /\ UNCHANGED window

-----------------------------------------------------------------------------
(***************************************************************************)
(* The scan in the background.                                             *)
(***************************************************************************)
ScanEnds ==
    /\ Scanning
    /\ scan' = "finished"
    /\ UNCHANGED <<process, mount, open, close, box, selected, composed, buttons>>

\* Fault: does not go on with a close that waited for the scan (CloseCompletes).
ForgetsClose(c) == c

\* What the end of a scan means for a close that waits for it.
CloseAfterScan(c) == MaybeFinishClose(c)

\* MainWindow::scanFinished.
ScanFinished ==
    /\ scan = "finished"
    /\ scan' = "idle"
    /\ UNCHANGED <<process, mount, open, box, selected, composed>>
    /\ RefreshActions
    /\ close' = CloseAfterScan(close)

-----------------------------------------------------------------------------
(***************************************************************************)
(* The user.                                                               *)
(***************************************************************************)
Input == open /\ box = "none"

\* The scan button is enabled while no scan is unfinished.
StartScan ==
    /\ Input
    /\ scan = "idle"
    /\ scan' = "running"
    /\ UNCHANGED <<process, mount, open, close, box, selected, composed>>
    /\ RefreshActions

\* Adding a revision by a double click needs no button; removing the last does.
ChangeComposition ==
    /\ Input
    /\ composed => "edit" \in buttons
    /\ composed' = ~composed
    /\ UNCHANGED <<process, mount, open, close, scan, box, selected>>
    /\ RefreshActions

\* The text of the mount point, which is disabled while the process runs.
EditMountPoint(m) ==
    /\ Input
    /\ "edit" \in buttons
    /\ selected' = m
    /\ UNCHANGED <<process, mount, open, close, scan, box, composed>>
    /\ RefreshActions

\* MainWindow::chooseMountPoint, by the button Folder..., which no one disables.
ChooseMountPoint(m) ==
    /\ Input
    /\ selected' = m
    /\ UNCHANGED <<process, mount, open, close, scan, box, composed>>
    /\ RefreshActions

\* Fault: output of the last mount is still searched (MountFitsWorker).
KeepsProbe == probe' = probe

\* mountOutputProbe_.clear().
ClearProbe == probe' = FALSE

\* MainWindow::mountComposition; the process starts.
MountStarts ==
    /\ Input
    /\ "mount" \in buttons
    /\ ~Running /\ composed /\ selected # NoMountPoint
    /\ worker' = "loading"
    /\ mountArgument' = selected
    /\ buildFile' = TRUE
    /\ mounted' = FALSE /\ unmountRequested' = FALSE
    /\ activeMountPoint' = NoMountPoint
    /\ ClearProbe
    /\ UNCHANGED <<stdinLine, stopRequested, unread, timer, open, close, scan, box, selected, composed>>
    /\ RefreshActions

\* MainWindow::mountComposition; the process does not start, and mountError
\* opens its box within start().
MountFailsToStart ==
    /\ Input
    /\ "mount" \in buttons
    /\ ~Running /\ composed /\ selected # NoMountPoint
    /\ mounted' = FALSE /\ unmountRequested' = FALSE
    /\ activeMountPoint' = NoMountPoint
    /\ probe' = FALSE
    /\ timer' = FALSE
    /\ buildFile' = ~DropsBuildFile("FailedToStart")
    /\ box' = "failed"
    /\ UNCHANGED <<process, open, close, scan, selected, composed, buttons>>

ClickUnmount ==
    /\ Input
    /\ "unmount" \in buttons
    /\ RequestUnmount
    /\ UNCHANGED <<open, close, scan, box, selected, composed>>

\* MainWindow::closeEvent, with queued close() calls left.
CloseEvent(queued) ==
    IF ~Scanning /\ ~Running
    THEN /\ open' = FALSE
         /\ close' = [close EXCEPT !.queued = queued]
         /\ UNCHANGED <<process, mount, scan, box, selected, composed, buttons>>
    ELSE /\ close' = [pending |-> TRUE, queued |-> queued]
         /\ IF Running THEN RequestUnmount ELSE UNCHANGED <<process, mount, buttons>>
         /\ UNCHANGED <<open, scan, box, selected, composed>>

UserCloses ==
    /\ Input
    /\ close.queued < MaxQueued
    /\ CloseEvent(close.queued)

\* The close() that maybeFinishClose queued; a message box does not block it.
QueuedClose ==
    /\ open
    /\ close.queued > 0
    /\ CloseEvent(close.queued - 1)

\* The window is closed and the program ends.
Closed == ~open /\ UNCHANGED vars

-----------------------------------------------------------------------------
Worker ==
    \/ WorkerPrints
    \/ WorkerMounts
    \/ WorkerFails
    \/ WorkerReadsLine
    \/ WorkerUnmounts
    \/ WorkerCrashes

Events ==
    /\ open
    /\ \/ OutputReady
       \/ StreamError
       \/ MountFinished
       \/ UnmountTimedOut
       \/ ScanFinished
       \/ QueuedClose

User ==
    \/ StartScan
    \/ ChangeComposition
    \/ \E m \in MountPoint \cup {NoMountPoint} : EditMountPoint(m)
    \/ \E m \in MountPoint : ChooseMountPoint(m)
    \/ MountStarts
    \/ MountFailsToStart
    \/ ClickUnmount
    \/ UserCloses
    \/ DismissBox

Next ==
    \/ Worker
    \/ Events
    \/ ScanEnds
    \/ User
    \/ Closed

\* The worker's threads run, its loading ends one way or the other, the scan
\* ends, and the window's event loop delivers what is queued.  The user need
\* do nothing, and nothing need go wrong.
Fairness ==
    /\ WF_vars(worker = "loading" /\ (WorkerMounts \/ WorkerFails))
    /\ WF_vars(WorkerReadsLine)
    /\ WF_vars(WorkerUnmounts)
    /\ WF_vars(open /\ OutputReady)
    /\ WF_vars(open /\ MountFinished)
    /\ WF_vars(open /\ ScanFinished)
    /\ WF_vars(QueuedClose)
    /\ WF_vars(ScanEnds)

Spec == Init /\ [][Next]_vars /\ Fairness

-----------------------------------------------------------------------------
(***************************************************************************)
(* Properties.                                                             *)
(***************************************************************************)

\* What the window has of a mount fits the worker it has now.  It believes in
\* the mount, and offers Play for it, only when this worker's filesystem has
\* started: output and answers of an earlier worker do not count for the next.
\* And the build definition exists as long as the worker may still read it.
MountFitsWorker ==
    /\ mounted => worker \in {"serving"} \cup Exited
    /\ worker = "loading" => buildFile

\* A window that takes input offers the buttons that fit its state: every
\* handler that changes what a button depends on refreshes the buttons, also
\* when a message box held it up half way.
ButtonsFit == Input => buttons = Offered

\* A worker that ends in order was asked to, and the window still knows: it
\* never warns of an end that was requested, whatever errors came in between.
OrderlyEndIsExpected ==
    [][worker = "exitOk" /\ worker' = "none" => box' # "ended"]_vars

\* Once the unmount has been requested the worker ends, also if it was still
\* loading, if it announces its mount only then, or if it fails instead.
UnmountCompletes == unmountRequested ~> ~Running

\* A close that has to wait is called again in the end, whatever it waits for
\* and whatever else ends first, unless the user starts another mount first.
CloseCompletes ==
    close.pending ~> (close.queued > 0 \/ ~open \/ (Running /\ ~unmountRequested))

-----------------------------------------------------------------------------
(***************************************************************************)
(* Claims of the program that do not hold.                                 *)
(***************************************************************************)

\* README: the GUI "launches the first executable found in the projected tree".
\* Play searches activeMountPoint, so that must be where the worker mounted.
PlaySearchesTheMount == mounted => activeMountPoint = mountArgument

=============================================================================
