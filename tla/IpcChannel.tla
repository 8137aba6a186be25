----------------------------- MODULE IpcChannel -----------------------------
(***************************************************************************)
(* What the interprocessor communication of the OCC complex promises: a    *)
(* bounded FIFO channel from every processor to every processor, that      *)
(* loses messages only when the receiver closes (occlib/ipc_api.h,         *)
(* ipc_disable).  OccIpc implements it with circular buffers in shared     *)
(* SRAM, 8-bit counts and inter-processor interrupts.                      *)
(***************************************************************************)
EXTENDS Naturals, Sequences

CONSTANTS
    Procs,         \* the processors: GPE0..GPE3 and the 405
    Messages,      \* the ipc_msg_t objects
    Capacity       \* messages a channel holds

VARIABLE chan      \* chan[d][s]: messages sent by s, not yet taken by d

TypeOK == chan \in [Procs -> [Procs -> Seq(Messages)]]

Init == chan = [d \in Procs |-> [s \in Procs |-> <<>>]]

Send(s, d, m) ==
    /\ Len(chan[d][s]) < Capacity
    /\ chan' = [chan EXCEPT ![d][s] = Append(@, m)]

Receive(d, s) ==
    /\ chan[d][s] # <<>>
    /\ chan' = [chan EXCEPT ![d][s] = Tail(@)]

Close(d) == chan' = [chan EXCEPT ![d] = [s \in Procs |-> <<>>]]

Next == \E d \in Procs :
    \/ Close(d)
    \/ \E s \in Procs : Receive(d, s) \/ \E m \in Messages : Send(s, d, m)

Spec == Init /\ [][Next]_chan
=============================================================================
