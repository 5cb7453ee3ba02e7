-------------------------- MODULE MCWorkspaceAgent --------------------------
(* Two files of one workspace, which is empty at first, and no file in the   *)
(* other one.  Workers, files and contents are interchangeable.              *)
EXTENDS WorkspaceAgent, TLC

CONSTANTS here, there

MCSize == [c \in Content |-> 1]
MCRootOf == [f \in File |-> here]
MCInitially == [File -> {Absent}]
Sent(root, readOnly, protected) ==
    [root |-> root, readOnly |-> readOnly, protected |-> protected]
MCContexts == {Sent(here, FALSE, {}), Sent(here, FALSE, File), Sent(there, TRUE, {})}
MCSymmetry == Permutations(Worker) \cup Permutations(File) \cup Permutations(Content)
=============================================================================
