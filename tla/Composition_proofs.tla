------------------------- MODULE Composition_proofs --------------------------
(***************************************************************************)
(* Proofs about the worker, for every set of revisions and of commands.    *)
(***************************************************************************)
EXTENDS Composition, Induction, SequenceTheorems, TLAPS

-----------------------------------------------------------------------------
(***************************************************************************)
(* The inductive invariant.                                                *)
(***************************************************************************)
LoadingSteps ==
    {"options", "build", "depots", "overlay", "mirror", "handler", "create", "mount", "dispatch",
     "announce"}
WaitingSteps == {"thread", "lock", "test", "sleep", "asleep"}

\* The window asks for no inspection, and for its line to be read.
ArgumentsFit ==
    /\ arguments.supervised \in BOOLEAN /\ arguments.waitStdin \in BOOLEAN
    /\ arguments.supervised => arguments.waitStdin /\ ~arguments.inspect
    /\ step = "thread" => arguments.waitStdin

\* What is announced at each step, and how the process may end.
StepFits ==
    /\ step \in {"none", "stop", "unwind", "return", "exited"} \cup LoadingSteps \cup WaitingSteps
    /\ announced \in BOOLEAN
    /\ step \in {"none"} \cup LoadingSteps => ~announced
    /\ step \in {"stop"} \cup WaitingSteps => announced
    /\ step = "stop" => stopRequested
    /\ step = "unwind" => code = "exitError"
    /\ step = "return" =>
          \/ code = "exitError"
          \/ code = "exitOk" /\ announced /\ stopRequested
          \/ code = "exitOk" /\ ~announced /\ ~arguments.supervised
    /\ step = "exited" => code \in {"exitOk", "exitError", "exitCrash"}

\* What the other threads have done.
ThreadsFit ==
    /\ stopRequested \in BOOLEAN
    /\ stdin \in [line : BOOLEAN, closed : BOOLEAN]
    /\ reader \in {"none", "getline", "set", "notify", "done"}
    /\ reader # "none" => announced /\ arguments.waitStdin
    /\ reader \in {"set", "notify", "done"} => ~stdin.line
    /\ console # "none" => ~arguments.supervised
    /\ step = "thread" => reader = "none"
    /\ step = "none" => ~stopRequested /\ ~stdin.line /\ console = "none"

\* What exists of the filesystem at each step.
FileSystemFits ==
    /\ step \in {"none", "return", "exited"} \cup (LoadingSteps \ {"mount", "dispatch", "announce"})
          => fileSystem = {}
    /\ step = "mount" => fileSystem = {"object"}
    /\ step = "dispatch" => fileSystem = {"object", "mountPoint"}
    /\ step \in {"announce"} \cup WaitingSteps
          => fileSystem = {"object", "mountPoint", "dispatcher"}
    /\ step \in {"stop", "unwind"}
          => fileSystem \in {{}, {"object", "mountPoint"}, {"object", "mountPoint", "dispatcher"}}

\* The main thread keeps the mutex from its test of the flag to its sleep, and
\* who has set the flag while it sleeps has yet to notify it.
WakeupsFit ==
    /\ mutex \in BOOLEAN
    /\ step \in {"test", "sleep"} => mutex
    /\ step = "sleep" => ~stopRequested
    /\ step = "asleep" /\ stopRequested => reader = "notify" \/ console = "notify"

IInv == ArgumentsFit /\ StepFits /\ ThreadsFit /\ FileSystemFits /\ WakeupsFit

-----------------------------------------------------------------------------
(***************************************************************************)
(* It holds initially, and every step preserves it.                        *)
(***************************************************************************)
\* A process that has not been started.
LEMMA InitIInv == Init => IInv
<1> SUFFICES ASSUME Init PROVE IInv
  OBVIOUS
<1>1. ArgumentsFit
  BY DEF Init, Idle, NoArguments, ArgumentsFit
<1>2. stdin \in [line : BOOLEAN, closed : BOOLEAN] /\ ~stdin.line
  BY DEF Init, Idle
<1>3. StepFits /\ ThreadsFit
  BY <1>2 DEF Init, Idle, StepFits, ThreadsFit, LoadingSteps, WaitingSteps
<1>4. FileSystemFits /\ WakeupsFit
  BY DEF Init, Idle, NoFileSystem, FileSystemFits, WakeupsFit, LoadingSteps, WaitingSteps
<1> QED
  BY <1>1, <1>3, <1>4 DEF IInv

\* The steps of the main thread.
LEMMA MainThreadIInv ==
  ASSUME IInv, MainThread
  PROVE  IInv'
<1> USE DEF main, others, IInv, ArgumentsFit, StepFits, ThreadsFit, FileSystemFits, WakeupsFit,
            LoadingSteps, WaitingSteps, NoFileSystem
<1>1. CASE ParseOptions
  BY <1>1 DEF ParseOptions, Throws
<1>2. CASE LoadBuild
  BY <1>2 DEF LoadBuild, Throws
<1>3. CASE PrintLoading
  BY <1>3 DEF PrintLoading
<1>4. CASE OverlayDepot
  BY <1>4 DEF OverlayDepot, Throws
<1>5. CASE BuildReady
  BY <1>5 DEF BuildReady
<1>6. CASE MirrorSteamRuntime
  BY <1>6 DEF MirrorSteamRuntime, Throws
<1>7. CASE InstallHandler
  BY <1>7 DEF InstallHandler, Throws
<1>8. CASE Create
  BY <1>8 DEF Create, Starting
<1>9. CASE SetMountPoint
  BY <1>9 DEF SetMountPoint, Starting
<1>10. CASE StartDispatcher
  BY <1>10 DEF StartDispatcher, Starting
<1>11. CASE Announce
  BY <1>11 DEF Announce, Announces
<1>12. CASE StartReader
  BY <1>12 DEF StartReader, Throws
<1>13. CASE SeesTheRequest
  BY <1>13 DEF SeesTheRequest, Waiting
<1>14. CASE SeesNoRequest
  BY <1>14 DEF SeesNoRequest, Waiting
<1>15. CASE FallsAsleep
  BY <1>15 DEF FallsAsleep, Waiting
<1>16. CASE StopDispatcher
  BY <1>16 DEF StopDispatcher, Stopping
<1>17. CASE DeleteFileSystem
  BY <1>17 DEF DeleteFileSystem, Stopping
<1>18. CASE Stopped
  BY <1>18 DEF Stopped, Stopping
<1>19. CASE Returns
  BY <1>19 DEF Returns
<1> QED
  BY <1>1, <1>2, <1>3, <1>4, <1>5, <1>6, <1>7, <1>8, <1>9, <1>10,
     <1>11, <1>12, <1>13, <1>14, <1>15, <1>16, <1>17, <1>18, <1>19 DEF MainThread

\* The other threads, and the parent of the process.
LEMMA WorkerIInv ==
  ASSUME IInv, WorkerNext
  PROVE  IInv'
<1> USE DEF main, others, IInv, ArgumentsFit, StepFits, ThreadsFit, FileSystemFits, WakeupsFit,
            LoadingSteps, WaitingSteps, NoFileSystem
<1>1. CASE MainThread
  BY <1>1, MainThreadIInv
<1>2. CASE Locks
  BY <1>2 DEF Locks, Waiting
<1>3. CASE WakesForNothing
  BY <1>3 DEF WakesForNothing, Waiting
<1>4. CASE Crashes
  BY <1>4 DEF Crashes, Alive
<1>5. CASE ReaderReads
  BY <1>5 DEF ReaderReads, Alive
<1>6. CASE ReaderEnds
  BY <1>6 DEF ReaderEnds, Alive
<1>7. CASE ReaderSets
  BY <1>7 DEF ReaderSets, Alive, MaySet
<1>8. CASE ReaderNotifies
  BY <1>8 DEF ReaderNotifies, Alive, Notifies
<1>9. CASE ConsoleEvent
  BY <1>9 DEF ConsoleEvent, Alive
<1>10. CASE ConsoleSets
  BY <1>10 DEF ConsoleSets, Alive, MaySet
<1>11. CASE ConsoleNotifies
  BY <1>11 DEF ConsoleNotifies, Alive, Notifies
<1>12. CASE WriteLine
  <2>1. stdin' \in [line : BOOLEAN, closed : BOOLEAN]
    BY <1>12 DEF WriteLine
  <2> QED
    BY <1>12, <2>1 DEF WriteLine
<1>13. CASE CloseStdin
  <2>1. stdin' \in [line : BOOLEAN, closed : BOOLEAN] /\ stdin'.line = stdin.line
    BY <1>13 DEF CloseStdin
  <2> QED
    BY <1>13, <2>1 DEF CloseStdin
<1>14. CASE ReadOutput
  BY <1>14 DEF ReadOutput
<1>15. CASE Reap
  BY <1>15 DEF Reap, NoArguments
<1> QED
  BY <1>1, <1>2, <1>3, <1>4, <1>5, <1>6, <1>7, <1>8, <1>9, <1>10,
     <1>11, <1>12, <1>13, <1>14, <1>15 DEF WorkerNext, Reader, Console

\* All steps, those of the window's list included.
LEMMA NextIInv ==
  ASSUME IInv, [Next]_vars
  PROVE  IInv'
<1> USE DEF workerVars, main, others, IInv, ArgumentsFit, StepFits, ThreadsFit, FileSystemFits,
            WakeupsFit, LoadingSteps, WaitingSteps
<1>1. CASE WorkerNext
  BY <1>1, WorkerIInv
<1>2. CASE MountComposition
  <2>1. arguments'.supervised /\ arguments'.waitStdin /\ ~arguments'.inspect
    BY <1>2 DEF MountComposition, Start
  <2>2. arguments'.supervised \in BOOLEAN /\ arguments'.waitStdin \in BOOLEAN
    BY <1>2 DEF MountComposition, Start
  <2>3. step = "none" /\ step' = "options"
    BY <1>2 DEF MountComposition, Start
  <2>4. ArgumentsFit'
    BY <2>1, <2>2, <2>3
  <2>5. /\ UNCHANGED <<announced, code, fileSystem, others>>
        /\ ~announced /\ reader = "none" /\ fileSystem = {}
    BY <1>2, <2>3 DEF MountComposition, Start
  <2> QED
    BY <2>3, <2>4, <2>5
<1>3. ASSUME NEW command \in Commands, RunCommand(command)
      PROVE  IInv'
  <2>1. command.supervised = FALSE /\ command.waitStdin \in BOOLEAN
    BY CommandsAssumption
  <2> QED
    BY <1>3, <2>1 DEF RunCommand, Start
<1>4. CASE UNCHANGED workerVars
  BY <1>4
<1> QED
  BY <1>1, <1>2, <1>3, <1>4
  DEF Next, vars, RemoveCompositionEntry, AddSelectedRevision, SelectRow, MoveCompositionEntry

\* What exists of the worker and its filesystem at each step of its threads, for
\* any revisions, files and command lines.
THEOREM WorkerInvariant == Spec => []IInv
BY InitIInv, NextIInv, PTL DEF Spec

-----------------------------------------------------------------------------
(***************************************************************************)
(* What follows from it.                                                   *)
(***************************************************************************)
\* The filesystem is there when it is said to be, its dispatcher stops before
\* it is deleted, and no part of it is left when the worker returns, whichever
\* of its calls had failed.
THEOREM WorkerCleansUp == Spec => []NothingLeftMounted
<1>1. IInv => NothingLeftMounted
  BY DEF IInv, StepFits, FileSystemFits, NothingLeftMounted, LoadingSteps, WaitingSteps, NoFileSystem
<1> QED
  BY <1>1, WorkerInvariant, PTL

\* A worker that sleeps though a stop was requested is about to be notified.
NoWakeupLost == step = "asleep" /\ stopRequested => reader = "notify" \/ console = "notify"

\* No wakeup is lost between the test of stop_requested and the sleep.
THEOREM WakeupsArrive == Spec => []NoWakeupLost
<1>1. IInv => NoWakeupLost
  BY DEF IInv, WakeupsFit, NoWakeupLost
<1> QED
  BY <1>1, WorkerInvariant, PTL

-----------------------------------------------------------------------------
(***************************************************************************)
(* Every step of the worker is one that its parent may expect.             *)
(***************************************************************************)
ProtocolWorker ==
    IF step = "none" THEN "none"
    ELSE IF step = "exited" THEN code
    ELSE IF announced THEN "serving" ELSE "loading"
ProtocolLine == arguments.waitStdin /\ (stdin.line \/ reader = "set")

\* There is no worker at first, for either.
LEMMA InitProtocol == Init => Protocol!Init
BY DEF Init, Idle, NoArguments, Protocol!Init

\* The parent sees nothing of a step that leaves this alone.
Seen == <<ProtocolWorker, arguments, ProtocolLine, stopRequested, unread>>

\* A step of which the parent sees nothing is a stutter.
LEMMA QuietProtocol ==
  ASSUME UNCHANGED Seen
  PROVE  UNCHANGED Protocol!vars
BY DEF Seen, ProtocolWorker, ProtocolLine, Protocol!vars

\* A step after which all but what has been printed looks the same.
LEMMA PrintsProtocol ==
  ASSUME UNCHANGED <<ProtocolWorker, arguments, ProtocolLine, stopRequested>>, Prints,
         ProtocolWorker \in {"loading", "serving"}
  PROVE  [Protocol!Next]_(Protocol!vars)
BY DEF Prints, ProtocolWorker, ProtocolLine, Protocol!Next, Protocol!Works,
       Protocol!WorkerPrints, Protocol!SameParent, Protocol!vars

\* The main thread prints, announces its mount once, and ends.
LEMMA MainThreadProtocol ==
  ASSUME IInv, MainThread
  PROVE  [Protocol!Next]_(Protocol!vars)
<1> USE DEF main, others, IInv, StepFits, LoadingSteps, WaitingSteps
<1>1. CASE ParseOptions
  BY <1>1, QuietProtocol DEF ParseOptions, Throws, Seen, ProtocolWorker, ProtocolLine
<1>2. CASE LoadBuild
  BY <1>2, QuietProtocol DEF LoadBuild, Throws, Seen, ProtocolWorker, ProtocolLine
<1>3. CASE OverlayDepot
  BY <1>3, QuietProtocol DEF OverlayDepot, Throws, Seen, ProtocolWorker, ProtocolLine
<1>4. CASE InstallHandler
  BY <1>4, QuietProtocol DEF InstallHandler, Throws, Seen, ProtocolWorker, ProtocolLine
<1>5. CASE Create
  BY <1>5, QuietProtocol DEF Create, Starting, Seen, ProtocolWorker, ProtocolLine
<1>6. CASE SetMountPoint
  BY <1>6, QuietProtocol DEF SetMountPoint, Starting, Seen, ProtocolWorker, ProtocolLine
<1>7. CASE StartDispatcher
  BY <1>7, QuietProtocol DEF StartDispatcher, Starting, Seen, ProtocolWorker, ProtocolLine
<1>8. CASE SeesTheRequest
  BY <1>8, QuietProtocol DEF SeesTheRequest, Waiting, Seen, ProtocolWorker, ProtocolLine
<1>9. CASE SeesNoRequest
  BY <1>9, QuietProtocol DEF SeesNoRequest, Waiting, Seen, ProtocolWorker, ProtocolLine
<1>10. CASE FallsAsleep
  BY <1>10, QuietProtocol DEF FallsAsleep, Waiting, Seen, ProtocolWorker, ProtocolLine
<1>11. CASE StopDispatcher
  BY <1>11, QuietProtocol DEF StopDispatcher, Stopping, Seen, ProtocolWorker, ProtocolLine
<1>12. CASE DeleteFileSystem
  BY <1>12, QuietProtocol DEF DeleteFileSystem, Stopping, Seen, ProtocolWorker, ProtocolLine
<1>13. CASE PrintLoading
  BY <1>13, PrintsProtocol DEF PrintLoading, ProtocolWorker, ProtocolLine
<1>14. CASE BuildReady
  BY <1>14, PrintsProtocol DEF BuildReady, ProtocolWorker, ProtocolLine
<1>15. CASE MirrorSteamRuntime
  <2>1. CASE Throws
    BY <1>15, <2>1, QuietProtocol DEF MirrorSteamRuntime, Throws, Seen, ProtocolWorker, ProtocolLine
  <2>2. CASE ~Throws
    <3>1. /\ step = "mirror" /\ step' \in {"return", "handler"}
          /\ UNCHANGED <<arguments, announced, stopRequested, reader, stdin>>
      BY <1>15, <2>2 DEF MirrorSteamRuntime
    <3>2. Prints
      BY <1>15, <2>2 DEF MirrorSteamRuntime
    <3> QED
      BY <3>1, <3>2, PrintsProtocol DEF ProtocolWorker, ProtocolLine
  <2> QED
    BY <2>1, <2>2
<1>16. CASE Announce
  BY <1>16 DEF Announce, Announces, Protocol!Next, Protocol!Works, Protocol!WorkerMounts,
     Protocol!SameParent
<1>17. CASE StartReader
  <2>1. CASE Throws
    BY <1>17, <2>1, QuietProtocol DEF StartReader, Throws, Seen, ProtocolWorker, ProtocolLine
  <2>2. CASE ~Throws
    BY <1>17, <2>2, QuietProtocol DEF StartReader, ThreadsFit, Seen, ProtocolWorker, ProtocolLine
  <2> QED
    BY <2>1, <2>2
<1>18. CASE Stopped
  <2>1. CASE step = "stop"
    BY <1>18, <2>1, QuietProtocol DEF Stopped, Seen, ProtocolWorker, ProtocolLine
  <2>2. CASE step = "unwind"
    BY <1>18, <2>2, PrintsProtocol DEF Stopped, ProtocolWorker, ProtocolLine
  <2> QED
    BY <1>18, <2>1, <2>2 DEF Stopped
<1>19. CASE Returns
  BY <1>19 DEF Returns, ArgumentsFit, Protocol!Next, Protocol!Works, Protocol!WorkerFails,
     Protocol!WorkerUnmounts, Protocol!WorkerInspects, Protocol!SameParent
<1> QED
  BY <1>1, <1>2, <1>3, <1>4, <1>5, <1>6, <1>7, <1>8, <1>9,
     <1>10, <1>11, <1>12, <1>13, <1>14, <1>15, <1>16, <1>17, <1>18, <1>19
  DEF MainThread

\* The other threads read the line and request the stop; the parent may write,
\* read and reap.
LEMMA WorkerNextProtocol ==
  ASSUME IInv, WorkerNext
  PROVE  [Protocol!Next]_(Protocol!vars)
<1> USE DEF main, others, IInv, StepFits, ThreadsFit, LoadingSteps, WaitingSteps
<1>1. CASE MainThread
  BY <1>1, MainThreadProtocol
<1>2. CASE Locks
  BY <1>2, QuietProtocol DEF Locks, Waiting, Seen, ProtocolWorker, ProtocolLine
<1>3. CASE WakesForNothing
  BY <1>3, QuietProtocol DEF WakesForNothing, Waiting, Seen, ProtocolWorker, ProtocolLine
<1>4. CASE Crashes
  BY <1>4 DEF Crashes, Alive, Protocol!Next, Protocol!Works, Protocol!WorkerCrashes,
     Protocol!SameParent, Protocol!vars
<1>5. CASE ReaderReads
  BY <1>5, QuietProtocol DEF ReaderReads, Alive, Seen, ProtocolWorker, ProtocolLine
<1>6. CASE ReaderEnds
  BY <1>6, QuietProtocol DEF ReaderEnds, Alive, Seen, ProtocolWorker, ProtocolLine
<1>7. CASE ReaderSets
  BY <1>7 DEF ReaderSets, Alive, MaySet, Protocol!Next, Protocol!Works, Protocol!WorkerReadsLine,
     Protocol!SameParent, Protocol!vars
<1>8. CASE ReaderNotifies
  BY <1>8, QuietProtocol DEF ReaderNotifies, Alive, Notifies, Seen, ProtocolWorker, ProtocolLine
<1>9. CASE ConsoleEvent
  BY <1>9, QuietProtocol DEF ConsoleEvent, Alive, Seen, ProtocolWorker, ProtocolLine
<1>10. CASE ConsoleSets
  BY <1>10 DEF ConsoleSets, Alive, MaySet, Protocol!Next, Protocol!WorkerInterrupted,
     Protocol!SameParent, Protocol!vars
<1>11. CASE ConsoleNotifies
  BY <1>11, QuietProtocol DEF ConsoleNotifies, Alive, Notifies, Seen, ProtocolWorker, ProtocolLine
<1>12. CASE WriteLine
  BY <1>12 DEF WriteLine, ArgumentsFit, Protocol!Next, Protocol!WriteLine,
     Protocol!SameParent, Protocol!vars
<1>13. CASE CloseStdin
  BY <1>13, QuietProtocol DEF CloseStdin, Seen, ProtocolWorker, ProtocolLine
<1>14. CASE ReadOutput
  BY <1>14 DEF ReadOutput, Protocol!Next, Protocol!ReadOutput,
     Protocol!SameParent, Protocol!vars
<1>15. CASE Reap
  BY <1>15 DEF Reap, NoArguments, Protocol!Next, Protocol!Reap, Protocol!Exited,
     Protocol!SameParent, Protocol!vars
<1> QED
  BY <1>1, <1>2, <1>3, <1>4, <1>5, <1>6, <1>7, <1>8, <1>9,
     <1>10, <1>11, <1>12, <1>13, <1>14, <1>15
  DEF WorkerNext, Reader, Console

\* All steps: the parent starts a worker with any command line.
LEMMA NextProtocol ==
  ASSUME IInv, [Next]_vars
  PROVE  [Protocol!Next]_(Protocol!vars)
<1> USE DEF workerVars, main, others, IInv, StepFits, ThreadsFit, ArgumentsFit
<1>1. CASE WorkerNext
  BY <1>1, WorkerNextProtocol
<1>2. CASE MountComposition
  BY <1>2 DEF MountComposition, Start, Protocol!Next, Protocol!Start
<1>3. ASSUME NEW command \in Commands, RunCommand(command)
      PROVE  [Protocol!Next]_(Protocol!vars)
  BY <1>3, CommandsAssumption DEF RunCommand, Start, Protocol!Next, Protocol!Start
<1>4. CASE UNCHANGED workerVars
  BY <1>4, QuietProtocol DEF Seen, ProtocolWorker, ProtocolLine
<1> QED
  BY <1>1, <1>2, <1>3, <1>4
  DEF Next, vars, RemoveCompositionEntry, AddSelectedRevision, SelectRow, MoveCompositionEntry

\* The worker keeps the protocol that the window relies on, whatever it loads:
\* the safety part of RefinesWorkerProtocol.
THEOREM WorkerKeepsProtocol == Spec => Protocol!Init /\ [][Protocol!Next]_(Protocol!vars)
<1> QED
  BY InitProtocol, NextProtocol, WorkerInvariant, PTL DEF Spec

-----------------------------------------------------------------------------
(***************************************************************************)
(* What is mounted.                                                        *)
(***************************************************************************)
Items == [version : Version, required : BOOLEAN]

\* The list that load_build() makes of a build, up to each of its items.
RequiredUpTo(b, g) ==
    /\ g \in [0 .. Len(b) -> Seq(Version)]
    /\ \A n \in 0 .. Len(b) :
          g[n] = IF n = 0 THEN <<>>
                 ELSE IF b[n].required THEN Append(g[n - 1], b[n].version) ELSE g[n - 1]

\* There is such a list, and it is the one that is loaded.
LEMMA RequiredExists ==
  ASSUME arguments.build \in Seq(Items)
  PROVE  \E g : RequiredUpTo(arguments.build, g) /\ Required = g[Len(arguments.build)]
<1> DEFINE b == arguments.build
           S == Seq(Version)
           step0 == [n \in 1 .. Len(b) |->
                        [s \in S |-> IF b[n].required THEN Append(s, b[n].version) ELSE s]]
           Walk(at) == at = [n \in 0 .. Len(b) |->
                                IF n = 0 THEN <<>>
                                ELSE IF b[n].required THEN Append(at[n - 1], b[n].version)
                                ELSE at[n - 1]]
           walk == CHOOSE at : Walk(at)
<1>1. Len(b) \in Nat /\ <<>> \in S /\ \A n \in 1 .. Len(b) : b[n].version \in Version
  <2>1. Len(b) \in Nat /\ \A n \in 1 .. Len(b) : b[n] \in Items
    OBVIOUS
  <2>2. \A x \in Items : x.version \in Version
    BY DEF Items
  <2>3. <<>> \in S
    OBVIOUS
  <2> HIDE DEF S, b
  <2> QED
    BY <2>1, <2>2, <2>3
<1>2. step0 \in [1 .. Len(b) -> [S -> S]]
  <2>1. \A n \in 1 .. Len(b), s \in S : Append(s, b[n].version) \in S
    BY <1>1
  <2> HIDE DEF S, b
  <2> QED
    BY <2>1
<1>3. PICK g \in [0 .. Len(b) -> S] : Iterates(g, <<>>, step0, Len(b))
  <2> HIDE DEF S, step0, b
  <2> QED
    BY <1>1, <1>2, IterationExists
<1>4. Walk(g)
  <2>1. ASSUME NEW n \in 0 .. Len(b)
        PROVE  g[n] = IF n = 0 THEN <<>>
                      ELSE IF b[n].required THEN Append(g[n - 1], b[n].version) ELSE g[n - 1]
    <3>1. g[n] = IF n = 0 THEN <<>> ELSE step0[n][g[n - 1]]
      <4> HIDE DEF step0, b
      <4> QED
        BY <1>3 DEF Iterates
    <3>2. CASE n = 0
      BY <3>1, <3>2
    <3>3. CASE n # 0
      <4>1. n \in 1 .. Len(b) /\ n - 1 \in 0 .. Len(b)
        BY <1>1, <3>3
      <4>2. g[n - 1] \in S
        BY <4>1, <1>3
      <4> HIDE DEF S, b
      <4> QED
        BY <4>1, <4>2, <3>1, <3>3
    <3> QED
      BY <3>2, <3>3
  <2> HIDE DEF step0, S, b
  <2> QED
    BY <2>1, <1>3
<1>5. Walk(walk)
  <2> HIDE DEF Walk
  <2> QED
    BY <1>4
<1>6. walk = g
  <2> DEFINE bad == {n \in 0 .. Len(b) : walk[n] # g[n]}
  <2>1. bad = {}
    <3> SUFFICES ASSUME bad # {} PROVE FALSE
      OBVIOUS
    <3>1. PICK n \in bad : \A m \in bad : n <= m
      <4>1. bad \in SUBSET Nat
        BY <1>1
      <4> HIDE DEF bad
      <4> QED
        BY <4>1, NatLeast
    <3> HIDE DEF walk
    <3>2. n \in 0 .. Len(b) /\ walk[n] # g[n]
      OBVIOUS
    <3>3. n # 0
      BY <3>2, <1>4, <1>5
    <3>4. n - 1 \in 0 .. Len(b) /\ walk[n - 1] = g[n - 1]
      <4>1. n - 1 \in 0 .. Len(b) /\ ~(n <= n - 1)
        BY <3>2, <3>3, <1>1
      <4> HIDE DEF b
      <4> QED
        BY <4>1, <3>1
    <3>5. g[n] = IF b[n].required THEN Append(g[n - 1], b[n].version) ELSE g[n - 1]
      BY <3>2, <3>3, <1>4
    <3>6. walk[n] = IF b[n].required THEN Append(walk[n - 1], b[n].version) ELSE walk[n - 1]
      BY <3>2, <3>3, <1>5
    <3> HIDE DEF b
    <3> QED
      BY <3>2, <3>4, <3>5, <3>6
  <2> HIDE DEF walk, b
  <2> QED
    BY <2>1, <1>4, <1>5
<1>7. Required = walk[Len(b)]
  BY DEF Required
<1>8. RequiredUpTo(b, g)
  <2> HIDE DEF b
  <2> QED
    BY <1>3, <1>4 DEF RequiredUpTo
<1> QED
  BY <1>6, <1>7, <1>8

\* It is a list of revisions.
LEMMA RequiredType ==
  ASSUME arguments.build \in Seq(Items)
  PROVE  Required \in Seq(Version)
BY RequiredExists DEF RequiredUpTo, Items

\* The window's definitions require every entry of its list.
LEMMA RequiredOfAll ==
  ASSUME NEW c \in Seq(Version),
         arguments.build = [i \in DOMAIN c |-> [version |-> c[i], required |-> TRUE]]
  PROVE  arguments.build \in Seq(Items) /\ Required = c
<1>1. /\ arguments.build \in Seq(Items) /\ Len(arguments.build) = Len(c) /\ Len(c) \in Nat
      /\ \A n \in 1 .. Len(c) : /\ arguments.build[n].required
                                /\ arguments.build[n].version = c[n] /\ c[n] \in Version
  <2>1. Len(c) \in Nat /\ DOMAIN c = 1 .. Len(c) /\ \A n \in 1 .. Len(c) : c[n] \in Version
    OBVIOUS
  <2>2. PICK f : f = [i \in 1 .. Len(c) |-> [version |-> c[i], required |-> TRUE]]
    OBVIOUS
  <2>3. \A n \in 1 .. Len(c) : f[n] \in Items /\ f[n].required /\ f[n].version = c[n]
    BY <2>1, <2>2 DEF Items
  <2>4. f \in Seq(Items) /\ Len(f) = Len(c)
    BY <2>1, <2>2, <2>3
  <2> QED
    BY <2>1, <2>2, <2>3, <2>4
<1>2. PICK g : RequiredUpTo(arguments.build, g) /\ Required = g[Len(c)]
  BY <1>1, RequiredExists
<1>3. /\ g \in [0 .. Len(c) -> Seq(Version)]
      /\ g[0] = <<>>
      /\ \A n \in 1 .. Len(c) : g[n] = Append(g[n - 1], c[n])
  <2>1. g \in [0 .. Len(c) -> Seq(Version)]
    BY <1>1, <1>2 DEF RequiredUpTo
  <2>2. \A n \in 0 .. Len(c) :
           g[n] = IF n = 0 THEN <<>>
                  ELSE IF arguments.build[n].required
                  THEN Append(g[n - 1], arguments.build[n].version) ELSE g[n - 1]
    BY <1>1, <1>2 DEF RequiredUpTo
  <2>3. 0 \in 0 .. Len(c) /\ \A n \in 1 .. Len(c) : n \in 0 .. Len(c) /\ n # 0
    BY <1>1
  <2> QED
    BY <1>1, <2>1, <2>2, <2>3
<1> DEFINE Copies(n) == Len(g[n]) = n /\ \A i \in 1 .. n : g[n][i] = c[i]
           bad == {n \in 0 .. Len(c) : ~Copies(n)}
<1>4. bad = {}
  <2> SUFFICES ASSUME bad # {} PROVE FALSE
    OBVIOUS
  <2>1. PICK n \in bad : \A m \in bad : n <= m
    <3>1. bad \in SUBSET Nat
      OBVIOUS
    <3> HIDE DEF bad
    <3> QED
      BY <3>1, NatLeast
  <2>2. n \in 0 .. Len(c) /\ ~Copies(n)
    OBVIOUS
  <2>3. n # 0
    BY <2>2, <1>3
  <2>4. n - 1 \in 0 .. Len(c) /\ Copies(n - 1)
    <3>1. n - 1 \in 0 .. Len(c) /\ ~(n <= n - 1)
      BY <1>1, <2>2, <2>3
    <3> HIDE DEF Copies
    <3> QED
      BY <3>1, <2>1
  <2>5. /\ g[n] = Append(g[n - 1], c[n]) /\ g[n - 1] \in Seq(Version)
        /\ n \in 1 .. Len(c) /\ c[n] \in Version
    <3>1. n \in 1 .. Len(c)
      BY <1>1, <2>2, <2>3
    <3>2. g[n - 1] \in Seq(Version)
      BY <1>3, <2>4
    <3> QED
      BY <1>1, <1>3, <3>1, <3>2
  <2>6. PICK s \in Seq(Version) : s = g[n - 1]
    BY <2>5
  <2>7. /\ Len(Append(s, c[n])) = n /\ Append(s, c[n])[n] = c[n]
        /\ \A i \in 1 .. n - 1 : Append(s, c[n])[i] = s[i]
    BY <2>4, <2>5, <2>6
  <2>8. Copies(n)
    BY <2>4, <2>5, <2>6, <2>7
  <2> QED
    BY <2>2, <2>8
<1>5. Copies(Len(c)) /\ Required \in Seq(Version)
  BY <1>1, <1>4, RequiredType
<1>6. Required = c
  BY <1>2, <1>5
<1> QED
  BY <1>1, <1>6

\* The files of the first k revisions that none of the others among them hides.
Projection(k) ==
    UNION {{[path |-> p, depot |-> i] :
               p \in {q \in Files[specs[i]] :
                         \A j \in i + 1 .. k : \A r \in Files[specs[j]] : ~Collide(q, r)}} :
           i \in 1 .. k}

\* Another revision on top.
LEMMA ProjectionGrows ==
  ASSUME NEW k \in Nat, tree = Projection(k)
  PROVE  Overlaid(Files[specs[k + 1]], k + 1) = Projection(k + 1)
<1> DEFINE Stands(i, p, n) ==
              /\ i \in 1 .. n /\ p \in Files[specs[i]]
              /\ \A j \in i + 1 .. n : \A r \in Files[specs[j]] : ~Collide(p, r)
<1>1. \A n \in Nat : \A e :
         e \in Projection(n) <=> \E i, p : Stands(i, p, n) /\ e = [path |-> p, depot |-> i]
  BY DEF Projection
<1>2. \A e : e \in Overlaid(Files[specs[k + 1]], k + 1) <=>
                \/ e \in tree /\ \A p \in Files[specs[k + 1]] : ~Collide(e.path, p)
                \/ \E p \in Files[specs[k + 1]] : e = [path |-> p, depot |-> k + 1]
  BY DEF Overlaid
<1>3. \A i, p : Stands(i, p, k + 1) <=>
                   \/ Stands(i, p, k) /\ \A r \in Files[specs[k + 1]] : ~Collide(p, r)
                   \/ i = k + 1 /\ p \in Files[specs[k + 1]]
  <2> TAKE i, p
  <2>1. CASE i \in 1 .. k
    <3>1. i + 1 .. k + 1 = (i + 1 .. k) \cup {k + 1} /\ i \in 1 .. k + 1 /\ i # k + 1
      BY <2>1
    <3> QED
      BY <2>1, <3>1
  <2>2. CASE i = k + 1
    <3>1. i + 1 .. k + 1 = {} /\ i \in 1 .. k + 1 /\ i \notin 1 .. k
      BY <2>2
    <3> QED
      BY <2>2, <3>1
  <2>3. CASE i \notin 1 .. k /\ i # k + 1
    <3>1. i \notin 1 .. k + 1
      BY <2>3
    <3> QED
      BY <2>3, <3>1
  <2> QED
    BY <2>1, <2>2, <2>3
<1> HIDE DEF Stands
<1>4. \A e : e \in Projection(k + 1) <=>
                \/ \E i, p : /\ Stands(i, p, k) /\ e = [path |-> p, depot |-> i]
                             /\ \A r \in Files[specs[k + 1]] : ~Collide(p, r)
                \/ \E p \in Files[specs[k + 1]] : e = [path |-> p, depot |-> k + 1]
  BY <1>1, <1>3
<1>5. \A e : e \in Projection(k + 1) <=> e \in Overlaid(Files[specs[k + 1]], k + 1)
  BY <1>1, <1>2, <1>4
<1> QED
  BY <1>5

\* The window's list is what it has asked the worker for.
WindowFits ==
    /\ composition \in Seq(Version) /\ row \in 0 .. Len(composition)
    /\ arguments.build \in Seq(Items)
    /\ step # "none" /\ arguments.supervised
          => arguments.build = [i \in DOMAIN composition |->
                                   [version |-> composition[i], required |-> TRUE]]

\* LaterDepotsWin of a tree that is complete.
Shown ==
    LET Projected ==
            UNION {{[path |-> p, depot |-> i] :
                       p \in {q \in Files[Wanted[i]] :
                                 \A j \in i + 1 .. Len(Wanted) : \A r \in Files[Wanted[j]] :
                                    ~Collide(q, r)}} :
                   i \in DOMAIN Wanted}
    IN  /\ {e \in tree : e.depot # 0} = Projected
        /\ \A e \in tree : e.depot = 0 => \A d \in Projected : d.path # e.path

\* What the tree shows at each step of loading.
TreeFits ==
    /\ step \in {"none", "options", "build"} => specs = <<>> /\ loaded = 0 /\ tree = {}
    /\ step \in {"depots", "overlay", "mirror"} =>
          specs = Wanted /\ loaded \in 0 .. Len(specs) /\ tree = Projection(loaded)
    /\ step = "overlay" => loaded < Len(specs)
    /\ step = "mirror" => loaded = Len(specs)
    /\ step \in {"handler", "create"} \/ fileSystem # {} => Shown

LayersInv == IInv /\ WindowFits /\ TreeFits

\* Nothing is loaded at first.
LEMMA InitLayers == Init => WindowFits /\ TreeFits
BY DEF Init, Idle, NoArguments, NoFileSystem, WindowFits, TreeFits, Items

\* The list of the window.
LEMMA WindowStays ==
  ASSUME WindowFits, UNCHANGED <<composition, row, arguments>>, step # "none" \/ step' = "none"
  PROVE  WindowFits'
BY DEF WindowFits

\* Taking an entry out makes the list shorter by one, and putting it back
\* elsewhere makes it as long as it was.
LEMMA MovesKeepList ==
  ASSUME NEW s \in Seq(Version), NEW i \in 1 .. Len(s), NEW j \in 1 .. Len(s)
  PROVE  /\ RemoveAt(s, i) \in Seq(Version) /\ Len(RemoveAt(s, i)) = Len(s) - 1
         /\ InsertAt(RemoveAt(s, i), j, s[i]) \in Seq(Version)
         /\ Len(InsertAt(RemoveAt(s, i), j, s[i])) = Len(s)
<1>1. PICK t : t = RemoveAt(s, i)
  OBVIOUS
<1>2. t \in Seq(Version) /\ Len(t) = Len(s) - 1
  <2>1. PICK a, b : a = SubSeq(s, 1, i - 1) /\ b = SubSeq(s, i + 1, Len(s))
    OBVIOUS
  <2>2. a \in Seq(Version) /\ Len(a) = i - 1
    BY <2>1
  <2>3. b \in Seq(Version) /\ Len(b) = Len(s) - i
    BY <2>1
  <2>4. t = a \o b
    BY <1>1, <2>1 DEF RemoveAt
  <2>5. t \in Seq(Version) /\ Len(t) = Len(a) + Len(b)
    BY <2>2, <2>3, <2>4, ConcatProperties
  <2> QED
    BY <2>2, <2>3, <2>5
<1>3. InsertAt(t, j, s[i]) \in Seq(Version) /\ Len(InsertAt(t, j, s[i])) = Len(s)
  <2>1. PICK a, b, e : a = SubSeq(t, 1, j - 1) /\ b = SubSeq(t, j, Len(t)) /\ e = <<s[i]>>
    OBVIOUS
  <2>2. a \in Seq(Version) /\ Len(a) = j - 1
    BY <1>2, <2>1
  <2>3. b \in Seq(Version) /\ Len(b) = Len(t) - j + 1
    BY <1>2, <2>1
  <2>4. e \in Seq(Version) /\ Len(e) = 1
    BY <2>1
  <2>5. InsertAt(t, j, s[i]) = (a \o e) \o b
    BY <2>1 DEF InsertAt
  <2>6. a \o e \in Seq(Version) /\ Len(a \o e) = Len(a) + Len(e)
    BY <2>2, <2>4, ConcatProperties
  <2>7. (a \o e) \o b \in Seq(Version) /\ Len((a \o e) \o b) = Len(a \o e) + Len(b)
    BY <2>3, <2>6, ConcatProperties
  <2> QED
    BY <1>2, <2>2, <2>3, <2>4, <2>5, <2>6, <2>7
<1> QED
  BY <1>1, <1>2, <1>3

\* The list is edited only while no worker runs.
LEMMA WindowFitsStep ==
  ASSUME IInv, WindowFits, [Next]_vars
  PROVE  WindowFits'
<1>1. CASE WorkerNext /\ UNCHANGED window
  <2>1. CASE Reap
    BY <1>1, <2>1 DEF Reap, NoArguments, window, WindowFits
  <2>2. CASE Crashes
    BY <1>1, <2>2, WindowStays DEF Crashes, Alive, window
  <2>3. CASE MainThread
    BY <1>1, <2>3, WindowStays DEF window, MainThread, ParseOptions, LoadBuild, Throws, PrintLoading,
       OverlayDepot, BuildReady, MirrorSteamRuntime, InstallHandler, Create, SetMountPoint,
       StartDispatcher, Starting, Announce, StartReader, SeesTheRequest, SeesNoRequest,
       FallsAsleep, Waiting, StopDispatcher, DeleteFileSystem, Stopping, Stopped, Returns
  <2>4. CASE Locks \/ WakesForNothing \/ Reader \/ ConsoleEvent \/ Console
    BY <1>1, <2>4, WindowStays DEF window, Locks, WakesForNothing, Waiting, Reader, ReaderReads,
       ReaderEnds, ReaderSets, ReaderNotifies, ConsoleEvent, Console, ConsoleSets,
       ConsoleNotifies, main, Alive
  <2>5. CASE WriteLine \/ CloseStdin \/ ReadOutput
    BY <1>1, <2>5, WindowStays DEF window, WriteLine, CloseStdin, ReadOutput, main
  <2> QED
    BY <1>1, <2>1, <2>2, <2>3, <2>4, <2>5 DEF WorkerNext
<1>2. CASE MountComposition
  <2>1. /\ composition \in Seq(Version) /\ UNCHANGED <<composition, row>>
        /\ arguments'.build = [i \in DOMAIN composition |->
                                  [version |-> composition[i], required |-> TRUE]]
    BY <1>2 DEF MountComposition, Start, window, WindowFits
  <2>2. PICK b : b = arguments'.build
    OBVIOUS
  <2>3. b \in Seq(Items)
    <3>1. \A i \in DOMAIN composition : b[i] \in Items
      BY <2>1, <2>2 DEF Items
    <3> QED
      BY <2>1, <2>2, <3>1
  <2> QED
    BY <2>1, <2>2, <2>3 DEF WindowFits
<1>3. ASSUME NEW command \in Commands, RunCommand(command)
      PROVE  WindowFits'
  <2>1. command.supervised = FALSE /\ command.build \in Seq(Items)
    BY CommandsAssumption DEF Items
  <2> QED
    BY <1>3, <2>1 DEF RunCommand, Start, window, WindowFits
<1>4. CASE RemoveCompositionEntry
  BY <1>4, MovesKeepList DEF RemoveCompositionEntry, WindowFits, workerVars, main
<1>5. ASSUME NEW v \in Version, AddSelectedRevision(v)
      PROVE  WindowFits'
  BY <1>5 DEF AddSelectedRevision, WindowFits, workerVars, main, Contains
<1>6. ASSUME NEW i \in DOMAIN composition, SelectRow(i)
      PROVE  WindowFits'
  BY <1>6 DEF SelectRow, WindowFits, workerVars, main
<1>7. ASSUME NEW offset \in {-1, 1}, MoveCompositionEntry(offset)
      PROVE  WindowFits'
  <2>1. /\ composition \in Seq(Version) /\ row \in 1 .. Len(composition)
        /\ row + offset \in 1 .. Len(composition)
        /\ composition' = InsertAt(RemoveAt(composition, row), row + offset, composition[row])
        /\ row' = row + offset
    BY <1>7 DEF MoveCompositionEntry, WindowFits
  <2>2. composition' \in Seq(Version) /\ Len(composition') = Len(composition)
    BY <2>1, MovesKeepList
  <2>3. step = "none" /\ step' = step /\ arguments' = arguments
    BY <1>7 DEF MoveCompositionEntry, workerVars, main
  <2> QED
    BY <2>1, <2>2, <2>3 DEF WindowFits
<1>8. CASE UNCHANGED vars
  BY <1>8 DEF vars, window, workerVars, main, WindowFits
<1> QED
  BY <1>1, <1>2, <1>3, <1>4, <1>5, <1>6, <1>7, <1>8 DEF Next

\* What is wanted is a list of revisions.
LEMMA WantedType ==
  ASSUME WindowFits
  PROVE  Wanted \in Seq(Version) /\ Len(Wanted) \in Nat
<1>1. Wanted \in Seq(Version)
  BY RequiredType DEF WindowFits, Wanted
<1> QED
  BY <1>1

\* What is shown depends on nothing else.
LEMMA ShownStays ==
  ASSUME UNCHANGED <<specs, loaded, tree, arguments, composition>>
  PROVE  /\ Wanted' = Wanted
         /\ Projection(loaded)' = Projection(loaded)
         /\ Shown' = Shown
<1>1. Wanted' = Wanted
  BY DEF Wanted, Required
<1>2. Projection(loaded)' = Projection(loaded)
  BY DEF Projection
<1>3. Shown' = Shown
  BY <1>1 DEF Shown
<1> QED
  BY <1>1, <1>2, <1>3

\* A step that loads nothing.
LEMMA TreeStays ==
  ASSUME IInv, TreeFits, UNCHANGED <<specs, loaded, tree, arguments, composition>>,
         \/ step' = step
         \/ step = "options" /\ step' = "build"
         \/ step = "handler" /\ step' = "create"
         \/ step' \notin {"none", "options", "build", "depots", "overlay", "mirror",
                          "handler", "create"},
         fileSystem' # {} => fileSystem # {} \/ step = "create"
  PROVE  TreeFits'
<1>1. /\ Wanted' = Wanted /\ Projection(loaded)' = Projection(loaded) /\ Shown' = Shown
  BY ShownStays
<1> QED
  BY <1>1 DEF TreeFits

\* The list that is loaded is the one that is wanted.
LEMMA LoadsWanted ==
  ASSUME WindowFits, step # "none"
  PROVE  Required = Wanted
<1>1. CASE arguments.supervised
  BY <1>1, RequiredOfAll DEF WindowFits, Wanted
<1>2. CASE ~arguments.supervised
  BY <1>2 DEF Wanted
<1> QED
  BY <1>1, <1>2

\* The tree is empty when the list of revisions is read.
LEMMA LoadBuildFits ==
  ASSUME LayersInv, LoadBuild, UNCHANGED window
  PROVE  TreeFits'
<1>1. CASE Throws
  BY <1>1, TreeStays DEF LayersInv, Throws, window
<1>2. CASE ~Throws
  <2>1. /\ step = "build" /\ specs' = Required /\ step' = "depots"
        /\ UNCHANGED <<arguments, composition, loaded, tree, fileSystem>>
    BY <1>2 DEF LoadBuild, window
  <2>2. loaded = 0 /\ tree = {} /\ fileSystem = {}
    BY <2>1 DEF LayersInv, TreeFits, IInv, FileSystemFits, LoadingSteps
  <2>3. specs' = Wanted /\ Wanted' = Wanted
    BY <2>1, LoadsWanted DEF LayersInv, Wanted, Required
  <2>4. Projection(loaded)' = {}
    BY <2>1, <2>2 DEF Projection
  <2>5. Len(Wanted) \in Nat
    BY WantedType DEF LayersInv
  <2> QED
    BY <2>1, <2>2, <2>3, <2>4, <2>5 DEF TreeFits
<1> QED
  BY <1>1, <1>2

\* Each depot adds its files on top.
LEMMA OverlayFits ==
  ASSUME LayersInv, OverlayDepot, UNCHANGED window
  PROVE  TreeFits'
<1>1. CASE Throws
  BY <1>1, TreeStays DEF LayersInv, Throws, window
<1>2. CASE ~Throws
  <2>1. /\ step = "overlay" /\ loaded' = loaded + 1 /\ step' = "depots"
        /\ tree' = Overlaid(Files[specs[loaded + 1]], loaded + 1)
        /\ UNCHANGED <<arguments, composition, specs, fileSystem>>
    BY <1>2 DEF OverlayDepot, window
  <2>2. /\ specs = Wanted /\ loaded \in 0 .. Len(specs) /\ loaded < Len(specs)
        /\ tree = Projection(loaded) /\ fileSystem = {}
    BY <2>1 DEF LayersInv, TreeFits, IInv, FileSystemFits, LoadingSteps
  <2>3. Wanted' = Wanted
    BY <2>1 DEF Wanted, Required
  <2>4. Len(specs) \in Nat
    BY <2>2, WantedType DEF LayersInv
  <2>5. tree' = Projection(loaded + 1) /\ loaded + 1 \in 0 .. Len(specs)
    BY <2>1, <2>2, <2>4, ProjectionGrows
  <2>6. Projection(loaded)' = Projection(loaded + 1)
    BY <2>1 DEF Projection
  <2> QED
    BY <2>1, <2>2, <2>3, <2>5, <2>6 DEF TreeFits
<1> QED
  BY <1>1, <1>2

\* No file of a depot has the place of the copy.
LEMMA MirrorFits ==
  ASSUME LayersInv, MirrorSteamRuntime, UNCHANGED window
  PROVE  TreeFits'
<1>1. CASE Throws
  BY <1>1, TreeStays DEF LayersInv, Throws, window
<1>2. CASE ~Throws
  <2>1. /\ step = "mirror" /\ step' \in {"return", "handler"}
        /\ UNCHANGED <<arguments, composition, specs, loaded, fileSystem>>
        /\ \/ UNCHANGED tree
           \/ /\ NeedsMirror
              /\ tree' = {e \in tree : e.path # SteamDll} \cup {[path |-> SteamDll, depot |-> 0]}
    BY <1>2 DEF MirrorSteamRuntime, window
  <2>2. specs = Wanted /\ loaded = Len(specs) /\ tree = Projection(Len(Wanted)) /\ fileSystem = {}
    BY <2>1 DEF LayersInv, TreeFits, IInv, FileSystemFits, LoadingSteps
  <2>3. Wanted' = Wanted
    BY <2>1 DEF Wanted, Required
  <2>4. Wanted \in Seq(Version) /\ Len(Wanted) \in Nat
    BY WantedType DEF LayersInv
  <2> DEFINE Projected ==
            UNION {{[path |-> p, depot |-> i] :
                       p \in {q \in Files[Wanted[i]] :
                                 \A j \in i + 1 .. Len(Wanted) : \A r \in Files[Wanted[j]] :
                                    ~Collide(q, r)}} :
                   i \in DOMAIN Wanted}
  <2>5. tree = Projected /\ DOMAIN Wanted = 1 .. Len(Wanted)
    BY <2>2, <2>4 DEF Projection
  <2>6. \A e \in Projected : e.depot # 0
    BY <2>4, <2>5
  <2>7. \A e \in tree' : e \in Projected \/ (NeedsMirror /\ e = [path |-> SteamDll, depot |-> 0])
    <3>1. tree = Projected
      BY <2>5
    <3> HIDE DEF Projected
    <3> QED
      BY <2>1, <3>1
  <2>8. NeedsMirror => \A d \in Projected : d.path # SteamDll
    <3>1. IsPrefix(SteamDll, SteamDll)
      BY PathsAssumption DEF IsPrefix
    <3> QED
      BY <2>5, <3>1 DEF NeedsMirror, Lookup
  <2>9. Projected \subseteq tree'
    BY <2>1, <2>5, <2>8
  <2>10. Shown'
    <3>1. {e \in tree' : e.depot # 0} = Projected
      BY <2>6, <2>7, <2>9
    <3>2. \A e \in tree' : e.depot = 0 => \A d \in Projected : d.path # e.path
      BY <2>6, <2>7, <2>8
    <3> QED
      BY <2>3, <3>1, <3>2 DEF Shown
  <2> QED
    BY <2>1, <2>2, <2>10 DEF TreeFits
<1> QED
  BY <1>1, <1>2

\* All other steps leave the tree alone, or end the process.
LEMMA LayersStep ==
  ASSUME LayersInv, [Next]_vars
  PROVE  TreeFits'
<1>1. ASSUME NEW a, Start(a), UNCHANGED window PROVE TreeFits'
  <2>1. step = "none" /\ step' = "options" /\ UNCHANGED <<specs, loaded, tree, fileSystem>>
    BY <1>1 DEF Start
  <2>2. specs = <<>> /\ loaded = 0 /\ tree = {} /\ fileSystem = {}
    BY <2>1 DEF LayersInv, TreeFits, IInv, FileSystemFits, LoadingSteps
  <2> QED
    BY <2>1, <2>2 DEF TreeFits
<1>2. CASE MainThread /\ UNCHANGED window
  <2> USE DEF LayersInv, window, main, others
  <2>1. CASE LoadBuild
    BY <1>2, <2>1, LoadBuildFits
  <2>2. CASE OverlayDepot
    BY <1>2, <2>2, OverlayFits
  <2>3. CASE MirrorSteamRuntime
    BY <1>2, <2>3, MirrorFits
  <2>4. CASE ParseOptions
    BY <1>2, <2>4, TreeStays DEF ParseOptions, Throws
  <2>5. CASE PrintLoading
    <3>1. /\ step = "depots" /\ step' = "overlay" /\ loaded < Len(specs)
          /\ UNCHANGED <<specs, loaded, tree, arguments, composition, fileSystem>>
      BY <1>2, <2>5 DEF PrintLoading
    <3> QED
      BY <3>1, ShownStays DEF TreeFits
  <2>6. CASE BuildReady
    <3>1. /\ step = "depots" /\ step' = "mirror" /\ loaded = Len(specs)
          /\ UNCHANGED <<specs, loaded, tree, arguments, composition, fileSystem>>
      BY <1>2, <2>6 DEF BuildReady
    <3> QED
      BY <3>1, ShownStays DEF TreeFits
  <2>7. CASE InstallHandler
    BY <1>2, <2>7, TreeStays DEF InstallHandler, Throws
  <2>8. CASE Create
    BY <1>2, <2>8, TreeStays DEF Create, Starting
  <2>9. CASE SetMountPoint
    BY <1>2, <2>9, TreeStays DEF SetMountPoint, Starting, IInv, FileSystemFits, NoFileSystem
  <2>10. CASE StartDispatcher
    BY <1>2, <2>10, TreeStays DEF StartDispatcher, Starting, IInv, FileSystemFits, NoFileSystem
  <2>11. CASE Announce
    BY <1>2, <2>11, TreeStays DEF Announce
  <2>12. CASE StartReader
    BY <1>2, <2>12, TreeStays DEF StartReader, Throws
  <2>13. CASE SeesTheRequest \/ SeesNoRequest \/ FallsAsleep
    BY <1>2, <2>13, TreeStays DEF SeesTheRequest, SeesNoRequest, FallsAsleep, Waiting
  <2>14. CASE StopDispatcher \/ DeleteFileSystem
    BY <1>2, <2>14, TreeStays DEF StopDispatcher, DeleteFileSystem, NoFileSystem
  <2>15. CASE Stopped
    BY <1>2, <2>15, TreeStays DEF Stopped
  <2>16. CASE Returns
    BY <1>2, <2>16, TreeStays DEF Returns
  <2> QED
    BY <1>2, <2>1, <2>2, <2>3, <2>4, <2>5, <2>6, <2>7, <2>8, <2>9, <2>10, <2>11, <2>12, <2>13,
       <2>14, <2>15, <2>16 DEF MainThread
<1>3. CASE WorkerNext /\ ~MainThread /\ UNCHANGED window
  <2> USE DEF LayersInv, window, main, others
  <2>1. CASE Reap
    BY <2>1 DEF Reap, NoFileSystem, TreeFits
  <2>2. CASE Crashes
    BY <1>3, <2>2, TreeStays DEF Crashes, NoFileSystem
  <2>3. CASE Locks \/ WakesForNothing
    BY <1>3, <2>3, TreeStays DEF Locks, WakesForNothing, Waiting
  <2>4. CASE Reader
    BY <1>3, <2>4, TreeStays DEF Reader, ReaderReads, ReaderEnds, ReaderSets, ReaderNotifies,
       Notifies
  <2>5. CASE ConsoleEvent \/ Console
    BY <1>3, <2>5, TreeStays DEF ConsoleEvent, Console, ConsoleSets, ConsoleNotifies, Notifies
  <2>6. CASE WriteLine \/ CloseStdin \/ ReadOutput
    BY <1>3, <2>6, TreeStays DEF WriteLine, CloseStdin, ReadOutput
  <2> QED
    BY <1>3, <2>1, <2>2, <2>3, <2>4, <2>5, <2>6 DEF WorkerNext
<1>4. CASE MountComposition
  BY <1>1, <1>4 DEF MountComposition
<1>5. ASSUME NEW command \in Commands, RunCommand(command)
      PROVE  TreeFits'
  BY <1>1, <1>5 DEF RunCommand
<1>6. CASE step = "none" /\ UNCHANGED workerVars
  <2>1. step' = "none" /\ specs' = <<>> /\ loaded' = 0 /\ tree' = {} /\ fileSystem' = {}
    BY <1>6 DEF workerVars, main, LayersInv, TreeFits, IInv, FileSystemFits
  <2> QED
    BY <2>1 DEF TreeFits
<1>7. CASE UNCHANGED vars
  BY <1>7, TreeStays DEF LayersInv, vars, window, workerVars, main
<1> QED
  BY <1>2, <1>3, <1>4, <1>5, <1>6, <1>7
  DEF Next, RemoveCompositionEntry, AddSelectedRevision, SelectRow, MoveCompositionEntry

\* The invariants together.
LEMMA NextLayers ==
  ASSUME LayersInv, [Next]_vars
  PROVE  LayersInv'
BY NextIInv, WindowFitsStep, LayersStep DEF LayersInv

\* The mounted tree shows each revision's files but those that a later one has,
\* or has something in the way of, whatever the revisions and in whatever order.
THEOREM LaterRevisionsWin == Spec => []LaterDepotsWin
<1>1. Init => LayersInv
  BY InitIInv, InitLayers DEF LayersInv
<1>2. LayersInv /\ [Next]_vars => LayersInv'
  BY NextLayers
<1>3. LayersInv => LaterDepotsWin
  BY DEF LayersInv, TreeFits, Shown, LaterDepotsWin, NoFileSystem
<1> QED
  BY <1>1, <1>2, <1>3, PTL DEF Spec

=============================================================================
