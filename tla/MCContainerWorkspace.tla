------------------------ MODULE MCContainerWorkspace ------------------------
(* ContainerWorkspace with the Workspaces that a behaviour starts from.    *)
EXTENDS ContainerWorkspace

Start(type, mode, from, name, slow, n) ==
    [type |-> type, mode |-> mode, from |-> from, name |-> name,
     slow |-> slow, events |-> n]

(* Two events where a Secret of the user lags, one where the state of the  *)
(* controller's own objects does.                                          *)
MCStarts ==
    {Start("container", "disabled", "none", "new", "UserDataSecret", 2),
     Start("container", "disabled", "none", "taken", "InitSecret", 1),
     Start("container", "injected", "inline", "new", "StatefulSet", 1),
     Start("container", "injected", "inline", "new", "InitSecret", 1),
     Start("container", "injected", "inline", "taken", "InitSecret", 2),
     Start("container", "injected", "inline", "reused", "InitSecret", 1),
     Start("scratch", "injected", "ref", "new", "UserDataSecret", 2),
     Start("scratch", "baked-in", "ref", "new", "Deployment", 1)}

(* The name was used before.                                               *)
MCReusedName == {s \in MCStarts : s.name = "reused"}

=============================================================================
