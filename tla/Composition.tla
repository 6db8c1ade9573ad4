----------------------------- MODULE Composition -----------------------------
(***************************************************************************)
(* What is mounted: the list of revisions that the window of the GUI puts  *)
(* together, in gui/main_window.cpp, and the build definition it writes of *)
(* it for a worker; or a build definition of a console user's own.         *)
(*                                                                         *)
(* The list is left alone while a worker runs.  A double click may add to  *)
(* it then, but no one looks at it before the next mount.                  *)
(***************************************************************************)
EXTENDS Worker

CONSTANT Commands  \* the command lines of console users

ASSUME CommandsAssumption ==
    Commands \subseteq [valid : BOOLEAN, mirror : BOOLEAN, waitStdin : BOOLEAN, inspect : BOOLEAN,
                        supervised : {FALSE},
                        build : Seq([version : Version, required : BOOLEAN])]

VARIABLES
    composition,    \* composition_
    row             \* compositionList_->currentRow() + 1

window == <<composition, row>>
vars == <<workerVars, window>>

Init == Idle /\ composition = <<>> /\ row = 0

\* MainWindow::addSelectedRevision for a revision that is ready.  One that is
\* in the list is made its current row.
AddSelectedRevision(v) ==
    /\ step = "none"
    /\ UNCHANGED workerVars
    /\ IF Contains(composition, v)
       THEN /\ row' = CHOOSE i \in DOMAIN composition : composition[i] = v
            /\ UNCHANGED composition
       ELSE /\ composition' = Append(composition, v)
            /\ row' = Len(composition) + 1

SelectRow(i) ==
    /\ step = "none"
    /\ i \in DOMAIN composition
    /\ row' = i
    /\ UNCHANGED <<workerVars, composition>>

\* MainWindow::removeCompositionEntry.
RemoveCompositionEntry ==
    /\ step = "none"
    /\ row > 0
    /\ composition' = RemoveAt(composition, row)
    /\ row' = IF row < Len(composition) THEN row ELSE row - 1
    /\ UNCHANGED workerVars

\* MainWindow::moveCompositionEntry; its buttons are enabled within the list.
MoveCompositionEntry(offset) ==
    /\ step = "none"
    /\ row > 0
    /\ row + offset \in DOMAIN composition
    /\ composition' = InsertAt(RemoveAt(composition, row), row + offset, composition[row])
    /\ row' = row + offset
    /\ UNCHANGED workerVars

\* MainWindow::mountComposition: the definition names the list from its first
\* entry to its last.
MountComposition ==
    /\ composition # <<>>
    /\ Start([valid |-> TRUE, mirror |-> TRUE, waitStdin |-> TRUE, inspect |-> FALSE,
              supervised |-> TRUE,
              build |-> [i \in DOMAIN composition |->
                            [version |-> composition[i], required |-> TRUE]]])
    /\ UNCHANGED window

\* A console user has no window.
RunCommand(command) ==
    /\ composition = <<>>
    /\ Start(command)
    /\ UNCHANGED window

Next ==
    \/ WorkerNext /\ UNCHANGED window
    \/ MountComposition
    \/ RemoveCompositionEntry
    \/ \E v \in Version : AddSelectedRevision(v)
    \/ \E i \in DOMAIN composition : SelectRow(i)
    \/ \E offset \in {-1, 1} : MoveCompositionEntry(offset)
    \/ \E command \in Commands : RunCommand(command)

Spec == Init /\ [][Next]_vars /\ WorkerFairness

-----------------------------------------------------------------------------
(***************************************************************************)
(* Properties.                                                             *)
(***************************************************************************)
\* The revisions that should be mounted, from bottom to top.
Wanted == IF arguments.supervised THEN composition ELSE Required

\* README: "Order the composition from bottom to top. Later entries win
\* collisions".  What a mounted tree shows is, of each revision in the list,
\* the files that no later one has or has something in the way of; and the
\* mirrored Steam.dll stands in for no revision's file.
LaterDepotsWin ==
    LET WinsAgainst(p, i) ==
            \A j \in i + 1 .. Len(Wanted) : \A q \in Files[Wanted[j]] : ~Collide(p, q)
        Projected ==
            UNION {{[path |-> p, depot |-> i] : p \in {q \in Files[Wanted[i]] : WinsAgainst(q, i)}} :
                   i \in DOMAIN Wanted}
    IN  fileSystem # NoFileSystem =>
            /\ {e \in tree : e.depot # 0} = Projected
            /\ \A e \in tree : e.depot = 0 => \A d \in Projected : d.path # e.path

=============================================================================
