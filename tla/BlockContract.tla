-------------------------- MODULE BlockContract --------------------------
(***************************************************************************)
(* What kernel/src/block.rs promises its callers with trait BlockDevice:   *)
(* one operation at a time, and an operation that returns Ok has been      *)
(* carried out exactly once before it returns.  An operation that returns  *)
(* an error may have been carried out or not.  A sector that was written   *)
(* is durable once a flush has succeeded, and may become durable earlier.  *)
(***************************************************************************)
CONSTANTS Sectors, Data, NoData

VARIABLES
    disk,       \* what a read returns
    durable,    \* what survives a loss of power
    op,         \* the operation under way, or idle
    applied,    \* has the device carried it out?
    reply       \* the last result

Idle == [type |-> "none"]
Operations == [type : {"IN"}, sector : Sectors]
         \cup [type : {"OUT"}, sector : Sectors, data : Data]
         \cup [type : {"FLUSH"}]

Init ==
    /\ disk \in [Sectors -> Data]
    /\ durable = disk
    /\ op = Idle
    /\ applied = FALSE
    /\ reply = [ok |-> FALSE, data |-> NoData]

\* A caller enters read_sector, write_sector or flush.
Begin ==
    /\ op = Idle
    /\ op' \in Operations
    /\ applied' = FALSE
    /\ reply' = [ok |-> FALSE, data |-> NoData]
    /\ UNCHANGED <<disk, durable>>

\* The operation takes effect, once.
Apply ==
    /\ op # Idle /\ ~applied
    /\ applied' = TRUE
    /\ disk' = IF op.type = "OUT" THEN [disk EXCEPT ![op.sector] = op.data] ELSE disk
    /\ durable' = IF op.type = "FLUSH" THEN disk ELSE durable
    /\ UNCHANGED <<op, reply>>

\* The call returns Ok, with the sector's contents for a read.
Succeed ==
    /\ op # Idle /\ applied
    /\ reply' = [ok |-> TRUE, data |-> IF op.type = "IN" THEN disk[op.sector] ELSE NoData]
    /\ op' = Idle /\ applied' = FALSE
    /\ UNCHANGED <<disk, durable>>

\* The call returns an error.
Fail ==
    /\ op # Idle
    /\ reply' = [ok |-> FALSE, data |-> NoData]
    /\ op' = Idle /\ applied' = FALSE
    /\ UNCHANGED <<disk, durable>>

\* A call refused before it reaches the device: no such sector, no flush.
Refuse ==
    /\ op = Idle
    /\ reply' = [ok |-> FALSE, data |-> NoData]
    /\ UNCHANGED <<disk, durable, op, applied>>

\* The device writes back a cached sector of its own accord.
WriteBack ==
    /\ \E s \in Sectors : durable' = [durable EXCEPT ![s] = disk[s]]
    /\ UNCHANGED <<disk, op, applied, reply>>

Next == Begin \/ Apply \/ Succeed \/ Fail \/ Refuse \/ WriteBack

vars == <<disk, durable, op, applied, reply>>
Spec == Init /\ [][Next]_vars
=============================================================================
