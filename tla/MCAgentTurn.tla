---------------------------- MODULE MCAgentTurn ----------------------------
(* Four calls: `read' and `write' are editor tools, `write' requires the    *)
(* tool of `read'; `trash' needs an approval and `note' does not.            *)
EXTENDS AgentTurn

CONSTANTS read, write, trash, note

MCToolOf == [c \in Call |-> c]
MCNeeds == [t \in Tool |-> IF t = write THEN {read} ELSE {}]
MCKind == [c \in Call |-> CASE c = trash -> "destructive" [] c = note -> "workspace"
                          [] OTHER -> "editor"]
=============================================================================
