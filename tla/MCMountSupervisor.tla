------------------------- MODULE MCMountSupervisor --------------------------
(***************************************************************************)
(* The supervisor with two mount points, so that the one selected may      *)
(* differ from the one that was mounted.                                   *)
(***************************************************************************)
EXTENDS MountSupervisor

CONSTANTS driveM, folder

MCMountPoint == {driveM, folder}

=============================================================================
