----------------------- MODULE MountSupervisor_proofs -----------------------
(***************************************************************************)
(* Theorems about the window and the worker it supervises, for any mount   *)
(* points and any number of queued close() calls.                          *)
(***************************************************************************)
EXTENDS MountSupervisor, TLAPS

USE DEF Process!Exited, Exited, Running, Scanning

\* What the variables that the invariant is about may be.
TypeOK ==
    /\ worker \in {"none", "loading", "serving"} \cup Exited
    /\ stdinLine \in BOOLEAN /\ stopRequested \in BOOLEAN
    /\ unread \in {"nothing", "progress", "announcement"}
    /\ mounted \in BOOLEAN /\ unmountRequested \in BOOLEAN
    /\ probe \in BOOLEAN /\ buildFile \in BOOLEAN
    /\ box \in {"none", "ended", "failed"}

\* A message box is open only between two workers, so that no handler of a
\* worker's event can be held up by a box that another one has opened.
BoxBetweenWorkers == box # "none" => ~Running

\* Nothing of an earlier worker is left when the next one loads: no output
\* to be read, no answer that has been found in it, and no line to be served.
NothingIsLeft ==
    /\ worker = "none" => ~mounted /\ unread = "nothing" /\ ~stdinLine /\ ~stopRequested
    /\ worker = "loading" => ~mounted /\ unread # "announcement" /\ ~probe /\ buildFile

\* Whatever tells the worker to stop, and its orderly end, is remembered as a
\* request by the window.
RequestIsRemembered ==
    stdinLine \/ stopRequested \/ worker = "exitOk" => unmountRequested

Inv ==
    /\ TypeOK
    /\ BoxBetweenWorkers
    /\ NothingIsLeft
    /\ RequestIsRemembered
    /\ ButtonsFit

-----------------------------------------------------------------------------
LEMMA InitInv == Init => Inv
BY DEF Init, Inv, TypeOK, BoxBetweenWorkers, NothingIsLeft, RequestIsRemembered,
   ButtonsFit, Input

LEMMA StutterInv == Inv /\ UNCHANGED vars => Inv'
BY DEF Inv, TypeOK, BoxBetweenWorkers, NothingIsLeft, RequestIsRemembered,
   ButtonsFit, Input, Offered, vars, process, mount, window

\* The steps of the worker alone: the window's state and the buttons stay, and
\* the worker goes on running.
LEMMA WorkerInv == Inv /\ Worker => Inv'
<1> SUFFICES ASSUME Inv, Worker PROVE Inv'
  OBVIOUS
<1> USE DEF WorkerStep, mount, window
<1>1. /\ worker # "none" /\ worker' # "none"
      /\ UNCHANGED <<mounted, unmountRequested, probe, buildFile, box, open>>
      /\ UNCHANGED <<selected, composed, buttons>>
  BY DEF Worker, WorkerPrints, WorkerMounts, WorkerFails, WorkerReadsLine,
     WorkerUnmounts, WorkerCrashes, Process!WorkerPrints, Process!WorkerMounts,
     Process!WorkerFails, Process!WorkerReadsLine, Process!WorkerUnmounts,
     Process!WorkerCrashes
<1>2. ButtonsFit'
  BY <1>1 DEF Inv, ButtonsFit, Input, Offered
<1>3. BoxBetweenWorkers'
  BY <1>1 DEF Inv, BoxBetweenWorkers
<1>4. TypeOK' /\ NothingIsLeft' /\ RequestIsRemembered'
  <2> USE DEF Inv, TypeOK, NothingIsLeft, RequestIsRemembered
  <2>1. CASE WorkerPrints
    BY <2>1, <1>1 DEF WorkerPrints, Process!WorkerPrints
  <2>2. CASE WorkerMounts
    BY <2>2, <1>1 DEF WorkerMounts, Process!WorkerMounts
  <2>3. CASE WorkerFails
    BY <2>3, <1>1 DEF WorkerFails, Process!WorkerFails
  <2>4. CASE WorkerReadsLine
    <3>1. /\ worker = "serving" /\ stdinLine /\ UNCHANGED <<worker, unread>>
          /\ stdinLine' = FALSE /\ stopRequested' = TRUE
      BY <2>4 DEF WorkerReadsLine, Process!WorkerReadsLine
    <3>2. unmountRequested
      BY <3>1
    <3> QED
      BY <3>1, <3>2, <1>1
  <2>5. CASE WorkerUnmounts
    BY <2>5, <1>1 DEF WorkerUnmounts, Process!WorkerUnmounts
  <2>6. CASE WorkerCrashes
    BY <2>6, <1>1 DEF WorkerCrashes, Process!WorkerCrashes
  <2> QED
    BY <2>1, <2>2, <2>3, <2>4, <2>5, <2>6 DEF Worker
<1> QED
  BY <1>2, <1>3, <1>4 DEF Inv

\* A request to unmount, and an attempt to close, which may make one.
LEMMA RequestUnmountInv ==
    Inv /\ Running /\ RequestUnmount /\ UNCHANGED <<open, box, selected, composed>> => Inv'
<1> SUFFICES ASSUME Inv, Running, RequestUnmount,
                    UNCHANGED <<open, box, selected, composed>>
             PROVE  Inv'
  OBVIOUS
<1> USE DEF Inv, TypeOK, BoxBetweenWorkers, NothingIsLeft, RequestIsRemembered,
            ButtonsFit, Input, process, mount
<1>1. CASE unmountRequested
  BY <1>1 DEF RequestUnmount, Offered
<1>2. CASE ~unmountRequested
  BY <1>2 DEF RequestUnmount, WriteLine, RefreshActions
<1> QED
  BY <1>1, <1>2

LEMMA CloseEventInv == ASSUME NEW queued, Inv, CloseEvent(queued) PROVE Inv'
<1>1. CASE ~Scanning /\ ~Running
  <2>1. open' = FALSE /\ UNCHANGED <<process, mount, box, selected, composed, buttons>>
    BY <1>1 DEF CloseEvent
  <2> QED
    BY <2>1 DEF Inv, TypeOK, BoxBetweenWorkers, NothingIsLeft, RequestIsRemembered,
       ButtonsFit, Input, process, mount
<1>2. CASE Running
  BY <1>2, RequestUnmountInv DEF CloseEvent
<1>3. CASE Scanning /\ ~Running
  <2>1. UNCHANGED <<process, mount, open, box, selected, composed, buttons>>
    BY <1>3 DEF CloseEvent
  <2> QED
    BY <2>1 DEF Inv, TypeOK, BoxBetweenWorkers, NothingIsLeft, RequestIsRemembered,
       ButtonsFit, Input, Offered, process, mount
<1> QED
  BY <1>1, <1>2, <1>3

\* The events that a worker, the timer and the scan make at the window.
LEMMA EventsInv == Inv /\ (Events \/ ScanEnds) => Inv'
<1> SUFFICES ASSUME Inv, Events \/ ScanEnds PROVE Inv'
  OBVIOUS
<1> USE DEF Inv, TypeOK, BoxBetweenWorkers, NothingIsLeft, RequestIsRemembered,
            ButtonsFit, Input, RefreshActions, process, mount, window
<1>1. CASE OutputReady
  <2>1. worker # "none" /\ UNCHANGED <<worker, stdinLine, stopRequested>>
    BY <1>1 DEF OutputReady
  <2>2. UNCHANGED <<unmountRequested, buildFile, open, box, selected, composed>>
    BY <1>1 DEF OutputReady
  <2>3. unread' = "nothing" /\ probe' = (probe \/ unread = "announcement")
    BY <1>1 DEF OutputReady
  <2>4. \/ probe' /\ mounted' = TRUE /\ buttons' = Offered'
        \/ UNCHANGED <<mounted, buttons>>
    BY <1>1 DEF OutputReady
  <2>5. probe' \in BOOLEAN /\ unread' = "nothing" /\ (worker = "loading" => ~probe')
    BY <2>3
  <2>6. ButtonsFit'
    BY <2>1, <2>2, <2>4 DEF Offered
  <2>7. mounted' \in BOOLEAN /\ (worker = "loading" => ~mounted')
    <3>1. CASE probe' /\ mounted' = TRUE
      BY <3>1, <2>5
    <3>2. CASE mounted' = mounted
      BY <3>2
    <3> QED
      BY <3>1, <3>2, <2>4
  <2> QED
    BY <2>1, <2>2, <2>5, <2>6, <2>7
<1>2. CASE StreamError
  BY <1>2 DEF StreamError, DropsBuildFile, KeepsRequest
<1>3. CASE MountFinished
  BY <1>3 DEF MountFinished, EndMountFinished
<1>4. CASE UnmountTimedOut
  BY <1>4 DEF UnmountTimedOut, Offered
<1>5. CASE ScanFinished
  BY <1>5 DEF ScanFinished
<1>6. CASE QueuedClose
  BY <1>6, CloseEventInv DEF QueuedClose
<1>7. CASE ScanEnds
  BY <1>7 DEF ScanEnds, Offered
<1> QED
  BY <1>1, <1>2, <1>3, <1>4, <1>5, <1>6, <1>7 DEF Events

\* What the user does at a window that no box blocks.
LEMMA UserInv == Inv /\ User => Inv'
<1> SUFFICES ASSUME Inv, User PROVE Inv'
  OBVIOUS
<1> USE DEF Inv, TypeOK, BoxBetweenWorkers, NothingIsLeft, RequestIsRemembered,
            ButtonsFit, Input, RefreshActions, process, mount, window
<1>1. CASE StartScan
  BY <1>1 DEF StartScan
<1>2. CASE ChangeComposition
  BY <1>2 DEF ChangeComposition
<1>3. CASE \E m \in MountPoint \cup {NoMountPoint} : EditMountPoint(m)
  BY <1>3 DEF EditMountPoint
<1>4. CASE \E m \in MountPoint : ChooseMountPoint(m)
  BY <1>4 DEF ChooseMountPoint
<1>5. CASE MountStarts
  BY <1>5 DEF MountStarts, ClearProbe
<1>6. CASE MountFailsToStart
  BY <1>6 DEF MountFailsToStart, DropsBuildFile
<1>7. CASE ClickUnmount
  BY <1>7, RequestUnmountInv DEF ClickUnmount, Offered
<1>8. CASE UserCloses
  BY <1>8, CloseEventInv DEF UserCloses
<1>9. CASE DismissBox
  BY <1>9 DEF DismissBox, EndMountFinished
<1> QED
  BY <1>1, <1>2, <1>3, <1>4, <1>5, <1>6, <1>7, <1>8, <1>9 DEF User

LEMMA NextInv == Inv /\ [Next]_vars => Inv'
BY StutterInv, WorkerInv, EventsInv, UserInv DEF Next, Closed

\* The window's flags, boxes and buttons fit one another and the worker, for any
\* mount points and build definitions.
THEOREM Invariant == Spec => []Inv
<1>1. Init => Inv
  BY InitInv
<1>2. Inv /\ [Next]_vars => Inv'
  BY NextInv
<1> QED
  BY <1>1, <1>2, PTL DEF Spec

\* MountFitsWorker: the window believes in a mount only while the worker that
\* it has now serves it or has just ended, and a loading worker has its build
\* definition.
THEOREM MountAlwaysFitsWorker == Spec => []MountFitsWorker
<1>1. Inv => MountFitsWorker
  BY DEF Inv, TypeOK, NothingIsLeft, MountFitsWorker
<1> QED
  BY <1>1, Invariant, PTL

\* ButtonsFit: a window that takes input offers the buttons that fit its state.
THEOREM ButtonsAlwaysFit == Spec => []ButtonsFit
<1>1. Inv => ButtonsFit
  BY DEF Inv
<1> QED
  BY <1>1, Invariant, PTL

\* OrderlyEndIsExpected: the window does not warn of an end it has requested.
THEOREM NoWarningOfRequestedEnd == Spec => OrderlyEndIsExpected
<1> DEFINE Expected == worker = "exitOk" /\ worker' = "none" => box' # "ended"
<1>1. Inv /\ [Next]_vars => [Expected]_vars
  <2> SUFFICES ASSUME Inv, [Next]_vars, worker = "exitOk", worker' = "none"
               PROVE  box' # "ended"
    OBVIOUS
  <2>1. unmountRequested /\ box = "none"
    BY DEF Inv, TypeOK, BoxBetweenWorkers, RequestIsRemembered
  <2>2. CASE Worker
    BY <2>2 DEF Worker, WorkerStep, WorkerPrints, WorkerMounts, WorkerFails,
       WorkerReadsLine, WorkerUnmounts, WorkerCrashes, Process!WorkerPrints,
       Process!WorkerMounts, Process!WorkerFails, Process!WorkerReadsLine,
       Process!WorkerUnmounts, Process!WorkerCrashes
  <2>3. CASE Events \/ ScanEnds
    <3>1. UNCHANGED worker \/ MountFinished
      <4>1. \A n : CloseEvent(n) => UNCHANGED worker
        BY DEF CloseEvent, RequestUnmount, process
      <4> QED
        BY <2>3, <4>1 DEF Events, ScanEnds, OutputReady, StreamError,
           UnmountTimedOut, ScanFinished, QueuedClose, process
    <3> QED
      BY <3>1, <2>1 DEF MountFinished
  <2>4. CASE User
    <3>1. UNCHANGED worker \/ worker = "none"
      <4>1. \A n : CloseEvent(n) => UNCHANGED worker
        BY DEF CloseEvent, RequestUnmount, process
      <4> QED
        BY <2>4, <4>1 DEF User, StartScan, ChangeComposition, EditMountPoint,
           ChooseMountPoint, MountStarts, MountFailsToStart, ClickUnmount,
           RequestUnmount, UserCloses, DismissBox, process
    <3> QED
      BY <3>1
  <2>5. CASE Closed \/ UNCHANGED vars
    BY <2>5 DEF Closed, vars, process
  <2> QED
    BY <2>2, <2>3, <2>4, <2>5 DEF Next
<1> QED
  BY <1>1, Invariant, PTL DEF Spec, OrderlyEndIsExpected

-----------------------------------------------------------------------------
(***************************************************************************)
(* The window uses its worker as module WorkerProtocol has it.             *)
(***************************************************************************)
LEMMA CloseEventWrites ==
    ASSUME NEW queued, TypeOK, CloseEvent(queued)
    PROVE  Process!WriteLine \/ UNCHANGED process
BY DEF CloseEvent, RequestUnmount, WriteLine, Process!WriteLine, Process!SameParent,
   process

\* Every step of the window and the worker together is one that the protocol
\* has, or none as far as the protocol can tell: what module Worker is shown to
\* implement is what the window relies on, and no more.
THEOREM WindowKeepsProtocol == Spec => Process!Init /\ [][Process!Next]_(Process!vars)
<1>1. Init => Process!Init
  BY DEF Init, Process!Init
<1>2. Inv /\ [Next]_vars => [Process!Next]_(Process!vars)
  <2> SUFFICES ASSUME Inv, [Next]_vars PROVE Process!Next \/ UNCHANGED process
    BY DEF process, Process!vars
  <2> USE DEF process, Process!SameParent
  <2>1. CASE Worker
    BY <2>1 DEF Worker, WorkerStep, WorkerPrints, WorkerMounts, WorkerFails,
       WorkerReadsLine, WorkerUnmounts, WorkerCrashes, Process!Next, Process!Works
  <2>2. CASE Events \/ ScanEnds
    <3>1. CASE OutputReady
      BY <3>1 DEF OutputReady, Process!Next, Process!ReadOutput
    <3>2. CASE MountFinished
      BY <3>2 DEF MountFinished, Process!Next, Process!Reap
    <3>3. CASE QueuedClose
      BY <3>3, CloseEventWrites DEF QueuedClose, Inv, Process!Next
    <3> QED
      BY <2>2, <3>1, <3>2, <3>3 DEF Events, ScanEnds, StreamError,
         UnmountTimedOut, ScanFinished
  <2>3. CASE User
    <3>1. CASE MountStarts
      BY <3>1 DEF MountStarts, Process!Next, Process!Start
    <3>2. CASE ClickUnmount
      <4>1. CASE Running
        BY <3>2, <4>1 DEF ClickUnmount, RequestUnmount, WriteLine, Process!Next,
           Process!WriteLine
      <4>2. Running
        BY <3>2 DEF ClickUnmount, Inv, ButtonsFit, Offered
      <4> QED
        BY <4>1, <4>2
    <3>3. CASE UserCloses
      BY <3>3, CloseEventWrites DEF UserCloses, Inv, Process!Next
    <3> QED
      BY <2>3, <3>1, <3>2, <3>3 DEF User, StartScan, ChangeComposition,
         EditMountPoint, ChooseMountPoint, MountFailsToStart, DismissBox
  <2>4. CASE Closed \/ UNCHANGED vars
    BY <2>4 DEF Closed, vars
  <2> QED
    BY <2>1, <2>2, <2>3, <2>4 DEF Next
<1> QED
  BY <1>1, <1>2, Invariant, PTL DEF Spec

=============================================================================
