---------------------------- MODULE CommandQueue ----------------------------
(***************************************************************************)
(* What the command queue of the devices promises: a command is stored for *)
(* one device, only that device ever receives it, and it is marked as      *)
(* delivered only after the device has received it.                        *)
(***************************************************************************)
CONSTANTS
    Devices,
    Commands,
    None

VARIABLES
    addressee,  \* addressee[k]: the device command k is stored for, or None
    receivers,  \* receivers[k]: the devices that have received command k
    delivered   \* the commands marked as delivered

queueVars == <<addressee, receivers, delivered>>

QueueInit ==
    /\ addressee = [k \in Commands |-> None]
    /\ receivers = [k \in Commands |-> {}]
    /\ delivered = {}

Store(k, d) ==
    /\ addressee[k] = None
    /\ addressee' = [addressee EXCEPT ![k] = d]
    /\ UNCHANGED <<receivers, delivered>>

Hear(k) ==
    /\ addressee[k] # None
    /\ receivers' = [receivers EXCEPT ![k] = {addressee[k]}]
    /\ UNCHANGED <<addressee, delivered>>

Confirm(k) ==
    /\ receivers[k] # {}
    /\ delivered' = delivered \cup {k}
    /\ UNCHANGED <<addressee, receivers>>

QueueNext ==
    \E k \in Commands : Hear(k) \/ Confirm(k) \/ \E d \in Devices : Store(k, d)

QueueSpec == QueueInit /\ [][QueueNext]_queueVars
=============================================================================
