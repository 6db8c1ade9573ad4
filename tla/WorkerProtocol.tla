--------------------------- MODULE WorkerProtocol ---------------------------
(***************************************************************************)
(* What the window may expect of a worker process: it loads, serves or     *)
(* fails, ends when it is told to by a line on its stdin, and says on its  *)
(* output how far it is.  Module Worker implements this one, and the       *)
(* window of module MountSupervisor relies on it.                          *)
(***************************************************************************)
VARIABLES
    worker,         \* "none", "loading", "serving", or how it exited
    supervised,     \* the window started it, not someone at a console
    stdinLine,      \* a line has been written to its stdin and is not served
    stopRequested,  \* stop_requested in main.cpp
    unread          \* what it has printed and its parent has not read

vars == <<worker, supervised, stdinLine, stopRequested, unread>>

SameParent == supervised' = supervised

Exited == {"exitOk", "exitError", "exitCrash"}

Init ==
    /\ worker = "none" /\ supervised \in BOOLEAN
    /\ stdinLine = FALSE /\ stopRequested = FALSE /\ unread = "nothing"

-----------------------------------------------------------------------------
(***************************************************************************)
(* The worker: wmain and its stdin thread.                                 *)
(***************************************************************************)
\* Output while the depots load, or when something has gone wrong.
WorkerPrints ==
    /\ worker \in {"loading", "serving"}
    /\ unread = "nothing"
    /\ unread' = "progress"
    /\ UNCHANGED <<worker, stdinLine, stopRequested>>
    /\ SameParent

\* The filesystem has started, and the worker says so.
WorkerMounts ==
    /\ worker = "loading"
    /\ worker' = "serving"
    /\ unread' = "announcement"
    /\ UNCHANGED <<stdinLine, stopRequested>>
    /\ SameParent

\* Loading or mounting throws, or the start of the stdin thread does.
WorkerFails ==
    /\ worker \in {"loading", "serving"}
    /\ worker' = "exitError"
    /\ UNCHANGED <<stdinLine, stopRequested, unread>>
    /\ SameParent

\* The stdin thread, started after the announcement, reads the line.
WorkerReadsLine ==
    /\ worker = "serving"
    /\ stdinLine
    /\ stdinLine' = FALSE
    /\ stopRequested' = TRUE
    /\ UNCHANGED <<worker, unread>>
    /\ SameParent

\* The main thread wakes up, stops the filesystem and returns.
WorkerUnmounts ==
    /\ worker = "serving"
    /\ stopRequested
    /\ worker' = "exitOk"
    /\ UNCHANGED <<stdinLine, stopRequested, unread>>
    /\ SameParent

WorkerCrashes ==
    /\ worker \in {"loading", "serving"}
    /\ worker' = "exitCrash"
    /\ UNCHANGED <<stdinLine, stopRequested, unread>>
    /\ SameParent

\* What a worker does that its window started.
Works ==
    \/ WorkerPrints
    \/ WorkerMounts
    \/ WorkerFails
    \/ WorkerReadsLine
    \/ WorkerUnmounts
    \/ WorkerCrashes

\* What one started on a console may do besides: end after it has validated
\* the build, and be interrupted.
WorkerInspects ==
    /\ ~supervised
    /\ worker = "loading"
    /\ worker' = "exitOk"
    /\ UNCHANGED <<stdinLine, stopRequested, unread>>
    /\ SameParent

WorkerInterrupted ==
    /\ ~supervised
    /\ worker \in {"loading", "serving"}
    /\ stopRequested' = TRUE
    /\ UNCHANGED <<worker, stdinLine, unread>>
    /\ SameParent

-----------------------------------------------------------------------------
(***************************************************************************)
(* Its parent.                                                             *)
(***************************************************************************)
Start ==
    /\ worker = "none"
    /\ worker' = "loading"
    /\ supervised' \in BOOLEAN
    /\ UNCHANGED <<stdinLine, stopRequested, unread>>

WriteLine ==
    /\ worker # "none"
    /\ stdinLine' = TRUE
    /\ UNCHANGED <<worker, stopRequested, unread>>
    /\ SameParent

ReadOutput ==
    /\ unread' = "nothing"
    /\ UNCHANGED <<worker, stdinLine, stopRequested>>
    /\ SameParent

Reap ==
    /\ worker \in Exited
    /\ unread = "nothing"
    /\ worker' = "none" /\ stdinLine' = FALSE /\ stopRequested' = FALSE
    /\ supervised' \in BOOLEAN
    /\ UNCHANGED unread

Next ==
    \/ Works
    \/ WorkerInspects
    \/ WorkerInterrupted
    \/ Start \/ WriteLine \/ ReadOutput \/ Reap

\* Loading ends one way or the other, a line is read, and a stop is obeyed.
Fairness ==
    /\ WF_vars(worker = "loading" /\ (WorkerMounts \/ WorkerFails \/ WorkerInspects))
    /\ WF_vars(WorkerReadsLine)
    /\ WF_vars(WorkerUnmounts)

Spec == Init /\ [][Next]_vars /\ Fairness

=============================================================================
