---------------------------- MODULE MCDiskClaims ----------------------------
(***************************************************************************)
(* DiskClaims for TLC: a Workspace mounts no disk, the first or both, so   *)
(* that two can ask for the same pair, one for what the other left, and a  *)
(* namesake can run without the disk its predecessor claimed.  An edit     *)
(* adds the disks that are missing.                                        *)
(***************************************************************************)
EXTENDS DiskClaims

MCMountSets == {{}, {1}, {1, 2}}
MCEditSets == {{1, 2}}

=============================================================================
