--------------------------- MODULE MCSdkMutation ---------------------------
(* Three calls over two request ids: `first' and `retry' share an id, and    *)
(* `picker' has an id of its own, or by mistake that of the plans.           *)
EXTENDS SdkMutation

CONSTANTS r1, r2, first, retry, picker

MCAssignments ==
    {[c \in Call |-> IF c = picker THEN r ELSE r1] : r \in RequestId}
MCIsPicker == [c \in Call |-> c = picker]
=============================================================================
