------------------------------ MODULE MCOccIpc ------------------------------
(***************************************************************************)
(* Instances of OccIpc for TLC: two processors (GPE3, the SGPE, and GPE2,  *)
(* the PGPE, say), the messages between them, buffers of one or two slots. *)
(***************************************************************************)
EXTENDS OccIpc

CONSTANTS Bound, Query, Update   \* messages

MCProcs == 0 .. 1
NoClosers == {}
OneCloser == {1}
Success == {"IPC_RC_SUCCESS"}
SuccessOrFailure == {"IPC_RC_SUCCESS", "IPC_RC_CMD_FAILED"}

(* A command that is answered in the handler, one that is queued for a     *)
(* thread, and one that comes the other way.                               *)
MCOwner == [m \in Messages |-> IF m = Update THEN 1 ELSE 0]
MCTarget == [m \in Messages |-> IF m = Update THEN 0 ELSE 1]
MCHandling == [m \in Messages |-> IF m = Query THEN "queue" ELSE "respond"]
MCCallback == [m \in Messages |-> IF m = Bound THEN "queue" ELSE "none"]
PlainHandling == [m \in Messages |-> "respond"]
PlainCallback == [m \in Messages |-> "none"]
=============================================================================
