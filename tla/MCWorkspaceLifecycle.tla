------------------------ MODULE MCWorkspaceLifecycle ------------------------
(* WorkspaceLifecycle with two clients.                                    *)
EXTENDS WorkspaceLifecycle

CONSTANTS c1, c2

MCClients == {c1, c2}
MCSlots == {c1, c2, Boot}
=============================================================================
