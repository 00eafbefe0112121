-------------------------- MODULE MCGuestBootstrap --------------------------
(* GuestBootstrap with the Images and the declarations of resources that   *)
(* TLC tries.                                                              *)
EXTENDS GuestBootstrap

List(cpu, memory) == [cpu |-> cpu, memory |-> memory]
Lists == {List(FALSE, 0), List(TRUE, 0), List(TRUE, 3)}

MCWorkspaces == [requests : Lists, limits : Lists, mounts : BOOLEAN]
MCUsual == [requests |-> List(TRUE, 0), limits |-> List(TRUE, 3), mounts |-> FALSE]

Image(managed, base, limit, request) ==
    [managed |-> managed, base |-> base, cloudInit |-> managed,
     memoryLimit |-> limit, memoryRequest |-> request]

(* One that is capable of cloud-init without data of its own, and one that *)
(* is not; one that requests memory without a limit.                       *)
MCImages ==
    {Image(TRUE, "none", 0, 0), Image(FALSE, "small", 4, 0), Image(TRUE, "big", 4, 5),
     Image(FALSE, "script", 0, 5), Image(FALSE, "none", 0, 0)}

=============================================================================
