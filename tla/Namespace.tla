----------------------------- MODULE Namespace ------------------------------
(***************************************************************************)
(* The names of the mounted drive as programs see them: which file or      *)
(* directory is at which place, and which places the user has emptied.     *)
(* VirtualTree implements this module with directories that know their     *)
(* children, nodes that know their parent, and tombstones.                 *)
(*                                                                         *)
(* A place is a path of names, folded to one case, from the root, or from  *)
(* an object that is open though it is no longer in the tree.  An object   *)
(* has one place; what is below it moves with it.                          *)
(***************************************************************************)
EXTENDS SequencesExt

CONSTANTS
    Object,     \* files and directories
    Root,       \* the root directory
    NoName,     \* its name
    Fold,       \* the case-insensitive value of each spelling of a name
    Paths       \* the paths that are used, sequences of spellings

VARIABLES
    place,          \* where each object is
    directories,    \* the objects that are directories
    name,           \* how the name of each object is spelled
    deleted,        \* the places that were emptied and not used again
    open            \* the objects to which someone has a handle

vars == <<place, directories, name, deleted, open>>

Live == DOMAIN place

Nowhere(n) == <<n, <<>>>>
Home(path) == <<Root, [i \in DOMAIN path |-> Fold[path[i]]]>>
Outer(p) == <<p[1], Front(p[2])>>

\* q is the place p or one below it.
Within(q, p) == q[1] = p[1] /\ IsPrefix(p[2], q[2])

\* The place q after all that is at from or below has moved to to.
Moved(q, from, to) ==
    IF Within(q, from) THEN <<to[1], to[2] \o SubSeq(q[2], Len(from[2]) + 1, Len(q[2]))>> ELSE q

Occupants(p) == {n \in Live : place[n] = p}
InDirectory(p) == p[2] # <<>> /\ \E d \in directories : place[d] = Outer(p)
Empty(n) == \A m \in Live \ {n} : ~Within(place[m], place[n])

\* The place q after the object at p, if there is one, has lost its place.
Vacated(q, p) == IF Occupants(p) = {} THEN q
                 ELSE Moved(q, p, Nowhere(CHOOSE t \in Occupants(p) : TRUE))

\* The new places are where, of which those in emptied are marked deleted, the
\* handles are handles, and given says what is new about what the objects are.
\* An object that is not in the tree remains as long as it, or an object that it
\* is in, is open; the highest one that remains is nowhere.
Become(where, emptied, handles, given) ==
    LET Remains(n) ==
            \/ where[n][1] = Root
            \/ \E a \in handles : Within(where[n], where[a])
        live == {n \in DOMAIN where : Remains(n)}
        Highest(n) ==
            IF where[n][1] = Root THEN Root
            ELSE CHOOSE a \in live : /\ Within(where[n], where[a])
                                     /\ \A b \in live : Within(where[n], where[b]) => Within(where[b], where[a])
        From(n, q) == Moved(q, where[Highest(n)], Nowhere(Highest(n)))
    IN  /\ open' = handles
        /\ name' = [n \in live |-> IF n = given.of THEN given.name ELSE name[n]]
        /\ directories' = {n \in live : IF n = given.of THEN given.directory ELSE n \in directories}
        /\ place' = [n \in live |-> From(n, where[n])]
        /\ deleted' = UNION {{From(d, q) : q \in {e \in emptied : Outer(e) = where[d]}} : d \in live}

Init ==
    /\ place = [n \in {Root} |-> Nowhere(Root)]
    /\ directories = {Root}
    /\ name = [n \in {Root} |-> NoName]
    /\ deleted = {}
    /\ open = {}

-----------------------------------------------------------------------------
Same == [of |-> Root, name |-> NoName, directory |-> TRUE]

Open(path) ==
    \E n \in Occupants(Home(path)) : Become(place, deleted, open \cup {n}, Same)

Close(n) == Become(place, deleted, open \ {n}, Same)

\* The new object n comes to the end of path, instead of what is there.
Put(n, path, directory, handles) ==
    LET p == Home(path)
    IN  /\ InDirectory(p)
        /\ Become([m \in Live \cup {n} |-> IF m = n THEN p ELSE Vacated(place[m], p)],
                  {Vacated(q, p) : q \in deleted} \ {p}, handles,
                  [of |-> n, name |-> path[Len(path)], directory |-> directory])

\* Only a file or an empty directory is replaced.
Create(n, path, directory) ==
    /\ \A t \in Occupants(Home(path)) : Empty(t)
    /\ Put(n, path, directory, open \cup {n})

Delete(n) ==
    /\ place[n] # Nowhere(n)
    /\ Empty(n)
    /\ Become([m \in Live |-> Vacated(place[m], place[n])],
              {Vacated(q, place[n]) : q \in deleted} \cup {place[n]}, open, Same)

\* n, with all that is in it, moves to path; its old place is marked deleted
\* unless the new one is the same.  It never moves into itself.
Rename(n, path) ==
    LET p == Home(path)
        To(q) == Moved(IF n \in Occupants(p) THEN q ELSE Vacated(q, p), place[n], p)
    IN  /\ place[n] # Nowhere(n)
        /\ InDirectory(p)
        /\ ~Within(Outer(p), place[n])
        /\ \A t \in Occupants(p) \ {n} : Empty(t) /\ (t \in directories <=> n \in directories)
        /\ Become([m \in Live |-> To(place[m])],
                  ({To(q) : q \in deleted} \cup {place[n]}) \ {p}, open,
                  [of |-> n, name |-> path[Len(path)], directory |-> n \in directories])

\* An archive is laid over the tree: directories come where they are missing or
\* where a file is, and a file instead of anything; but not at a place that was
\* emptied, nor below one.
Overlay(n, path, directory) ==
    /\ Home(path) \notin deleted
    /\ directory => Occupants(Home(path)) \cap directories = {}
    /\ Put(n, path, directory, open)

Beginnings == UNION {{SubSeq(path, 1, i) : i \in 1 .. Len(path)} : path \in Paths}

Next ==
    \/ \E path \in Paths \cup {<<>>} : Open(path)
    \/ \E n \in open : Close(n) \/ Delete(n)
    \/ \E n \in open, path \in Paths : Rename(n, path)
    \/ \E n \in Object \ Live, directory \in BOOLEAN :
          \/ \E path \in Paths : Create(n, path, directory)
          \/ \E path \in Beginnings : Overlay(n, path, directory)

Spec == Init /\ [][Next]_vars

=============================================================================
