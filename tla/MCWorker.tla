------------------------------ MODULE MCWorker -------------------------------
(***************************************************************************)
(* A worker for builds of up to three revisions: one with the DLL that     *)
(* needs Steam.dll, one with Steam.dll itself and a file where the first   *)
(* has a directory, and one with a directory there again.                  *)
(***************************************************************************)
EXTENDS Composition

CONSTANTS engine, client, mod

MCVersion == {engine, client, mod}

MCFileSystemDll == <<"bin", "FileSystem_Steam.dll">>
MCSteamDll == <<"bin", "Steam.dll">>

MCFiles ==
    [v \in MCVersion |->
        CASE v = engine -> {MCFileSystemDll, <<"maps", "old">>}
          [] v = client -> {MCSteamDll, <<"maps">>}
          [] v = mod -> {<<"maps", "new">>, MCFileSystemDll}]

Command(build, valid, mirror, waitStdin, inspect) ==
    [build |-> build, valid |-> valid, mirror |-> mirror, waitStdin |-> waitStdin,
     inspect |-> inspect, supervised |-> FALSE]

Item(v, required) == [version |-> v, required |-> required]

MCCommands ==
    {Command(<<>>, FALSE, TRUE, FALSE, FALSE),
     Command(<<Item(engine, FALSE)>>, TRUE, TRUE, FALSE, FALSE),
     Command(<<Item(client, FALSE), Item(engine, TRUE)>>, TRUE, TRUE, FALSE, TRUE),
     Command(<<Item(engine, TRUE), Item(client, FALSE), Item(mod, TRUE)>>, TRUE, TRUE, TRUE, FALSE),
     Command(<<Item(mod, TRUE)>>, TRUE, FALSE, FALSE, FALSE)}

=============================================================================
