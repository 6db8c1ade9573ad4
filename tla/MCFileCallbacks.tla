-------------------------- MODULE MCFileCallbacks ---------------------------
(***************************************************************************)
(* Two clients of a file of at most three bytes, one of them in the        *)
(* archive to begin with, or of a directory. Sizes reach the largest       *)
(* number, and the allocation unit does not divide it; times lie before    *)
(* the epoch, in the range that can be reported, in the range that can be  *)
(* stored but not reported, and beyond.                                    *)
(***************************************************************************)
EXTENDS FileCallbacks, TLC

CONSTANTS zero, x, c1, c2

MCClient == {c1, c2}
Symmetry == Permutations(MCClient)
MCInitial == [i \in 0 .. 0 |-> x]

NoTimes == [t \in {"creation", "access", "write", "change"} |-> 0]
Reads == {[kind |-> "read", offset |-> o, length |-> 2] : o \in {0, 1, 3}}
Infos == {[kind |-> "info"]}
Writes == {[kind |-> "write", offset |-> IF e THEN MaxSize ELSE o, data |-> d,
            toEnd |-> e, constrained |-> k] :
              o \in 0 .. MaxSize, e, k \in BOOLEAN, d \in {<<>>, <<x, x>>}}
Sizes == {[kind |-> "size", size |-> n, allocation |-> a] : n \in 0 .. MaxSize, a \in BOOLEAN}
Overwrites ==
    {[kind |-> "overwrite", attributes |-> b, replace |-> p, allocation |-> n] :
        b \in {{"normal"}, {"hidden", "directory"}}, p \in BOOLEAN, n \in {0, Quota + 1}}
\* With MaxTicks = 3 and Epoch = 2 the driver's times 4 and 5 can be stored but
\* not reported, and 6 is too late.
Basics ==
    {[kind |-> "basic", given |-> FALSE, attributes |-> {},
      times |-> [NoTimes EXCEPT ![tv[1]] = tv[2]]] :
        tv \in {<<"creation", 5>>, <<"access", 6>>, <<"write", 1>>, <<"write", 4>>,
                <<"change", 5>>, <<"change", 6>>}} \cup
    {[kind |-> "basic", given |-> TRUE, attributes |-> b,
      times |-> [NoTimes EXCEPT !["write"] = v]] :
        b \in {{}, {"hidden"}, {"directory"}}, v \in {0, 6}}
Cleanups ==
    {[kind |-> "cleanup", touched |-> u, archive |-> a] :
        u \in SUBSET {"access", "write"}, a \in BOOLEAN}

MCRequests == Reads \cup Infos \cup Writes \cup Sizes \cup Overwrites \cup Basics \cup Cleanups

=============================================================================
