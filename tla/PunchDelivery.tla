---------------------------- MODULE PunchDelivery ----------------------------
(***************************************************************************)
(* What POST /attendance/punches promises a device that buffers punches    *)
(* and replays them: a capture that carries an idempotency key is recorded *)
(* once, and every acknowledgement of it names that one record.            *)
(***************************************************************************)
CONSTANTS
    Keyed,      \* captures sent with an idempotency key
    Ids,        \* identifiers of AttendancePunch rows
    None

VARIABLES
    recorded,   \* recorded[c]: the row of capture c, or None
    told        \* told[c]: the rows the device was told about

deliveryVars == <<recorded, told>>

DeliveryInit ==
    /\ recorded = [c \in Keyed |-> None]
    /\ told = [c \in Keyed |-> {}]

Record(c, id) ==
    /\ recorded[c] = None
    /\ \A b \in Keyed : recorded[b] # id
    /\ recorded' = [recorded EXCEPT ![c] = id]
    /\ UNCHANGED told

Acknowledge(c) ==
    /\ recorded[c] # None
    /\ told' = [told EXCEPT ![c] = {recorded[c]}]
    /\ UNCHANGED recorded

DeliveryNext ==
    \E c \in Keyed : Acknowledge(c) \/ \E id \in Ids : Record(c, id)

DeliverySpec == DeliveryInit /\ [][DeliveryNext]_deliveryVars
=============================================================================
