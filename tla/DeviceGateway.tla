---------------------------- MODULE DeviceGateway ----------------------------
(***************************************************************************)
(* The WebSocket gateway of the devices (src/src/gateways/                 *)
(* device.gateway.ts) with what it calls in DevicesService                 *)
(* (src/src/modules/devices/devices.service.ts): the handshake of a        *)
(* connection, the map from devices to sockets, the rooms, the commands    *)
(* that administrators send and the acknowledgements of the devices.       *)
(* Several server processes, each of which may restart at any moment, pass *)
(* commands on to each other through Redis, as src/src/common/adapters/    *)
(* socket-io-redis.adapter.ts has it; without Redis, and while it is not   *)
(* reached, what is passed on is lost.                                     *)
(* A socket is a connection of one device to one process; it is used again *)
(* for another connection once nothing on the server refers to it.         *)
(***************************************************************************)
EXTENDS Integers, FiniteSets

CONSTANTS
    Devices,        \* rows of Device, each with its DeviceCredential
    Sockets,        \* bound: connections at a time
    Processes,      \* of the server
    Commands,       \* calls of sendCommand, and the rows they create
    DeviceTenant,   \* do requests of devices run in a tenant context?
    None

ASSUME TenantAssumption == DeviceTenant \in BOOLEAN
ASSUME NoneAssumption == None \notin Devices \cup Sockets \cup Processes

VARIABLES
    stage,              \* stage[s]: where handleConnection is for socket s
    dials,              \* dials[s]: deviceId of its handshake
    home,               \* home[s]: the process it is connected to
    key,                \* key[s]: apiKey of its handshake
    open,               \* the sockets that are connected
    connectedDevices,   \* connectedDevices[p, d]: the socket in the map of
                        \* process p for device d, or None
    heard,              \* the devices whose lastHeartbeatAt is set
    call,               \* call[k]: where sendCommand is
    to,                 \* to[k]: the device the command is for
    server,             \* server[k]: the process that serves the call
    commands,           \* rows of DeviceCommand
    sent,               \* those whose sentAt is set
    relayed,            \* relayed[p]: commands on their way to process p
    pushed,             \* pushed[s]: commands on their way to the device
    acks,               \* acks[s]: acknowledgements on their way back
    received,           \* received[k]: the devices that received command k
    alone               \* history: the sockets whose device has had no other
                        \* handshake under way there since they connected

sockets == <<stage, dials, home, key, open, alone>>
wires == <<pushed, acks>>
calls == <<call, to, server>>
vars == <<sockets, connectedDevices, heard, calls, commands, sent, relayed, wires, received>>

\* The entries of the maps.
Entries == Processes \X Devices

Handshake == {"validate", "beat", "enter"}
Over == {"free", "ready"}

TypeOK ==
    /\ stage \in [Sockets -> Handshake \cup Over]
    /\ dials \in [Sockets -> Devices \cup {None}]
    /\ home \in [Sockets -> Processes \cup {None}]
    /\ key \in [Sockets -> {"good", "bad", "missing"}]
    /\ open \subseteq Sockets
    /\ connectedDevices \in [Entries -> Sockets \cup {None}]
    /\ heard \subseteq Devices
    /\ call \in [Commands -> {"idle", "create", "push", "over"}]
    /\ to \in [Commands -> Devices \cup {None}]
    /\ server \in [Commands -> Processes \cup {None}]
    /\ commands \subseteq Commands
    /\ sent \subseteq commands
    /\ relayed \in [Processes -> SUBSET Commands]
    /\ pushed \in [Sockets -> SUBSET Commands]
    /\ acks \in [Sockets -> SUBSET Commands]
    /\ received \in [Commands -> SUBSET Devices]
    /\ alone \subseteq Sockets

Init ==
    /\ stage = [s \in Sockets |-> "free"]
    /\ dials = [s \in Sockets |-> None]
    /\ home = [s \in Sockets |-> None]
    /\ key = [s \in Sockets |-> "missing"]
    /\ open = {}
    /\ connectedDevices = [e \in Entries |-> None]
    /\ heard = {}
    /\ call = [k \in Commands |-> "idle"]
    /\ to = [k \in Commands |-> None]
    /\ server = [k \in Commands |-> None]
    /\ commands = {}
    /\ sent = {}
    /\ relayed = [p \in Processes |-> {}]
    /\ pushed = [s \in Sockets |-> {}]
    /\ acks = [s \in Sockets |-> {}]
    /\ received = [k \in Commands |-> {}]
    /\ alone = {}

-----------------------------------------------------------------------------
(***************************************************************************)
(* Connections. Variants that no action uses stand before some helpers:    *)
(* plausible mistakes, kept to show that a property would catch them.      *)
(***************************************************************************)

Goto(s, st) == stage' = [stage EXCEPT ![s] = st]

\* handleDisconnect: the entry of this socket, if there is one, leaves the map.
Entry(s) == <<home[s], dials[s]>>
ForgottenByDevice(s) == [connectedDevices EXCEPT ![Entry(s)] = None]
Forgotten(s) ==
    [e \in Entries |-> IF connectedDevices[e] = s THEN None ELSE connectedDevices[e]]

\* The socket closes, with what was on its way in either direction.
Close(s) ==
    /\ open' = open \ {s}
    /\ connectedDevices' = Forgotten(s)
    /\ pushed' = [pushed EXCEPT ![s] = {}]
    /\ acks' = [acks EXCEPT ![s] = {}]

\* No handler will look at these sockets again.
Drop(ss) ==
    /\ dials' = [s \in Sockets |-> IF s \in ss THEN None ELSE dials[s]]
    /\ home' = [s \in Sockets |-> IF s \in ss THEN None ELSE home[s]]
    /\ key' = [s \in Sockets |-> IF s \in ss THEN "missing" ELSE key[s]]
    /\ alone' = alone \ ss

\* client.disconnect(true), for credentials the code refuses or a failed query.
RejectSilently(s) ==
    Goto(s, "free") /\ UNCHANGED <<open, connectedDevices, wires, dials, home, key, alone>>
Reject(s) == Goto(s, "free") /\ Close(s) /\ Drop({s})

Others(s, p, d) == {t \in Sockets \ {s} : home[t] = p /\ dials[t] = d}

\* A device connects to process p and handleConnection starts. Without
\* credentials the socket is closed at once (lines 47-51).
Dial(s, p, d, k) ==
    /\ s \notin open
    /\ stage[s] \in Over
    /\ \A e \in Entries : connectedDevices[e] # s
    /\ \/ k = "missing" /\ UNCHANGED sockets
       \/ /\ k # "missing"
          /\ Goto(s, "validate")
          /\ key' = [key EXCEPT ![s] = k]
          /\ open' = open \cup {s}
          /\ home' = [home EXCEPT ![s] = p]
          /\ dials' = [dials EXCEPT ![s] = d]
          /\ alone' = (alone \ (Others(s, p, d) \cup {s})) \cup
                          {t \in {s} : \A u \in Others(s, p, d) : stage[u] \in Over}
    /\ UNCHANGED <<connectedDevices, heard, calls, commands, sent, relayed, wires, received>>

\* validateApiKey, then heartbeat up to its own query: companyIdOrThrow throws
\* where there is no tenant. Devices are never deleted, so that assertOwned
\* finds the device whose credential was found.
KeyPresent(s) == DeviceTenant
Accepted(s) == key[s] = "good" /\ DeviceTenant

Validate(s) ==
    /\ stage[s] = "validate"
    /\ \/ /\ Accepted(s)
          /\ Goto(s, "beat")
          /\ UNCHANGED <<open, connectedDevices, wires, dials, home, key, alone>>
       \/ ~Accepted(s) /\ Reject(s)
    /\ UNCHANGED <<heard, calls, commands, sent, relayed, received>>

\* device.update in heartbeat.
RecordHeartbeat(s) ==
    /\ stage[s] = "beat"
    /\ heard' = heard \cup {dials[s]}
    /\ Goto(s, "enter")
    /\ UNCHANGED <<dials, home, key, open, alone, connectedDevices, calls, commands, sent,
                   relayed, wires, received>>

\* connectedDevices.set: the id of the client under that of its device; the variant
\* keeps the wrong one of the two.
EnteredByDeviceId(s) == [connectedDevices EXCEPT ![Entry(s)] = dials[s]]
Entered(s) == [connectedDevices EXCEPT ![Entry(s)] = s]

\* client.join and connectedDevices.set, whether the socket is still open or
\* not. The adapters join at once: no other event comes in between.
Enter(s) ==
    /\ stage[s] = "enter"
    /\ connectedDevices' = Entered(s)
    /\ Goto(s, "ready")
    /\ UNCHANGED <<dials, home, key, open, alone, heard, calls, commands, sent, relayed,
                   wires, received>>

\* A query of the handshake fails: the same catch.
Fail(s) ==
    /\ stage[s] \in {"validate", "beat"}
    /\ Reject(s)
    /\ UNCHANGED <<heard, calls, commands, sent, relayed, received>>

\* The device or the network closes the connection, before or after the
\* handshake is over.
Leave(s) ==
    /\ s \in open
    /\ Close(s)
    /\ \/ /\ stage[s] = "ready"
          /\ Goto(s, "free")
          /\ Drop({s})
       \/ /\ stage[s] # "ready"
          /\ UNCHANGED <<stage, dials, home, key, alone>>
    /\ UNCHANGED <<heard, calls, commands, sent, relayed, received>>

\* POST devices/:id/heartbeat; handleHeartbeat does the same for a device that
\* is in the map, and so was heard before.
Report(d) ==
    /\ DeviceTenant
    /\ heard' = heard \cup {d}
    /\ UNCHANGED <<sockets, connectedDevices, calls, commands, sent, relayed, wires, received>>

-----------------------------------------------------------------------------
(***************************************************************************)
(* Commands: DevicesService.sendCommand, handleCommandQueued, the device,  *)
(* and handleCommandAck.                                                   *)
(***************************************************************************)

\* The call answers.
Ended(k) ==
    /\ call' = [call EXCEPT ![k] = "over"]
    /\ server' = [server EXCEPT ![k] = None]

\* assertOwned, for an administrator of the device's company.
SendCommand(k, p, d) ==
    /\ call[k] = "idle"
    /\ call' = [call EXCEPT ![k] = "create"]
    /\ to' = [to EXCEPT ![k] = d]
    /\ server' = [server EXCEPT ![k] = p]
    /\ UNCHANGED <<sockets, connectedDevices, heard, commands, sent, relayed, wires, received>>

CreateCommand(k) ==
    /\ call[k] = "create"
    /\ call' = [call EXCEPT ![k] = "push"]
    /\ commands' = commands \cup {k}
    /\ UNCHANGED <<sockets, connectedDevices, heard, to, server, sent, relayed, wires, received>>

\* deviceCommand.create fails: nothing is emitted.
FailCommand(k) ==
    /\ call[k] = "create"
    /\ Ended(k)
    /\ UNCHANGED <<sockets, connectedDevices, heard, to, commands, sent, relayed, wires, received>>

\* The room `device:<deviceId>` of process p: closed sockets leave it.
RoomOfAll(p, d) == {s \in open : stage[s] = "ready" /\ home[s] = p}
Room(p, d) == {s \in open : stage[s] = "ready" /\ home[s] = p /\ dials[s] = d}

\* Emitted to the sockets of process p.
Emitted(p, k) ==
    [s \in Sockets |-> IF s \in Room(p, to[k]) THEN pushed[s] \cup {k} ELSE pushed[s]]

\* Being pushed marks nothing: only a receipt does.
SentOncePushed(k) == sent \cup {k}
SentWhenPushed(k) == sent

\* The event is emitted and handled at once, and the call answers: the adapter
\* publishes the command to the other processes, and emits it in its own.
PushCommand(k) ==
    /\ call[k] = "push"
    /\ Ended(k)
    /\ relayed' = [p \in Processes |-> IF p = server[k] THEN relayed[p]
                                       ELSE relayed[p] \cup {k}]
    /\ pushed' = Emitted(server[k], k)
    /\ sent' = SentWhenPushed(k)
    /\ UNCHANGED <<sockets, connectedDevices, heard, to, commands, acks, received>>

\* Another process is told, and emits the command to who is there by then.
Relay(p, k) ==
    /\ k \in relayed[p]
    /\ relayed' = [relayed EXCEPT ![p] = @ \ {k}]
    /\ pushed' = Emitted(p, k)
    /\ UNCHANGED <<sockets, connectedDevices, heard, calls, commands, sent, acks, received>>

\* Redis keeps nothing for a process it does not reach.
LoseRelay(p, k) ==
    /\ k \in relayed[p]
    /\ relayed' = [relayed EXCEPT ![p] = @ \ {k}]
    /\ UNCHANGED <<sockets, connectedDevices, heard, calls, commands, sent, wires, received>>

\* The device takes a command and acknowledges it on the same connection.
Receive(s, k) ==
    /\ k \in pushed[s]
    /\ pushed' = [pushed EXCEPT ![s] = @ \ {k}]
    /\ acks' = [acks EXCEPT ![s] = @ \cup {k}]
    /\ received' = [received EXCEPT ![k] = @ \cup {dials[s]}]
    /\ UNCHANGED <<sockets, connectedDevices, heard, calls, commands, sent, relayed>>

\* getDeviceId: the device whose entry in the map is this socket.
DevicesOf(s) == {d \in Devices : connectedDevices[<<home[s], d>>] = s}

\* deviceCommand.updateMany, for the rows of these devices.
Marked(ds, k) == {c \in commands : c = k /\ to[c] \in ds}

\* handleCommandAck: a socket that is not in the map is told Unauthorized.
CommandAck(s, k) ==
    /\ k \in acks[s]
    /\ acks' = [acks EXCEPT ![s] = @ \ {k}]
    /\ sent' = sent \cup Marked(DevicesOf(s), k)
    /\ UNCHANGED <<sockets, connectedDevices, heard, calls, commands, relayed, pushed, received>>

\* Process p dies and starts anew: its map is empty, its sockets are closed and
\* the calls it was serving are gone. The tables stay.
Restart(p) ==
    /\ stage' = [s \in Sockets |-> IF home[s] = p THEN "free" ELSE stage[s]]
    /\ Drop({s \in Sockets : home[s] = p})
    /\ open' = {s \in open : home[s] # p}
    /\ connectedDevices' =
           [e \in Entries |-> IF e[1] = p THEN None ELSE connectedDevices[e]]
    /\ relayed' = [relayed EXCEPT ![p] = {}]
    /\ pushed' = [s \in Sockets |-> IF home[s] = p THEN {} ELSE pushed[s]]
    /\ acks' = [s \in Sockets |-> IF home[s] = p THEN {} ELSE acks[s]]
    /\ call' = [k \in Commands |-> IF server[k] = p THEN "over" ELSE call[k]]
    /\ server' = [k \in Commands |-> IF server[k] = p THEN None ELSE server[k]]
    /\ UNCHANGED <<heard, to, commands, sent, received>>

Next ==
    \/ \E s \in Sockets, p \in Processes, d \in Devices, k \in {"good", "bad", "missing"} :
          Dial(s, p, d, k)
    \/ \E s \in Sockets :
          Validate(s) \/ RecordHeartbeat(s) \/ Enter(s) \/ Fail(s) \/ Leave(s)
    \/ \E d \in Devices : Report(d)
    \/ \E k \in Commands, p \in Processes, d \in Devices : SendCommand(k, p, d)
    \/ \E k \in Commands : CreateCommand(k) \/ FailCommand(k) \/ PushCommand(k)
    \/ \E p \in Processes, k \in Commands : Relay(p, k) \/ LoseRelay(p, k)
    \/ \E s \in Sockets, k \in Commands : Receive(s, k) \/ CommandAck(s, k)
    \/ \E p \in Processes : Restart(p)

\* The process goes on with every handshake it has started: each query is
\* answered or fails.
Fairness ==
    \A s \in Sockets : WF_vars(Validate(s)) /\ WF_vars(RecordHeartbeat(s)) /\ WF_vars(Enter(s))

Spec == Init /\ [][Next]_vars
FairSpec == Spec /\ Fairness

-----------------------------------------------------------------------------

\* What is in a map has shown the key of that very device to that process, and
\* its first heartbeat is recorded (lines 54-64).
KnownIsAuthenticated ==
    \A p \in Processes, d \in Devices :
        LET s == connectedDevices[<<p, d>>]
        IN  s # None => /\ home[s] = p
                        /\ dials[s] = d
                        /\ key[s] = "good"
                        /\ d \in heard

\* As long as the handshakes of a device with one process do not overlap, its
\* open connection is the one the map of the process knows, so that its
\* acknowledgements are accepted, whatever connections it has elsewhere: a
\* connection that closes takes no newer one out of the map (lines 64, 72-80).
SoleConnectionIsKnown ==
    \A s \in alone \cap open :
        stage[s] = "ready" => connectedDevices[Entry(s)] = s

\* A command marked as sent was received by its device, whatever connections
\* the device had and lost meanwhile (lines 104-122).
SentWasReceived == \A k \in sent : to[k] \in received[k]

\* A handshake comes to its end: the socket is closed, or its device is in the
\* map (lines 41-70).
HandshakeEnds ==
    \A s \in Sockets :
        stage[s] = "validate" ~> (s \notin open \/ DevicesOf(s) # {})

\* The tables and the devices keep the promise of the queue.
Queue == INSTANCE CommandQueue WITH
            addressee <- [k \in Commands |-> IF k \in commands THEN to[k] ELSE None],
            receivers <- received,
            delivered <- sent
ImplementsQueue == Queue!QueueSpec

\* A device that shows its key is accepted (test/device-gateway.e2e-spec.ts,
\* "accepts connection and authentication with valid query params").
ValidKeyIsAccepted ==
    [][\A s \in Sockets :
          (Validate(s) /\ key[s] = "good") => stage'[s] = "beat"]_vars

\* A receipt that reaches the server on a connection it has accepted marks the
\* command as delivered (line 102, "Listen for device command receipts and mark
\* them as delivered").
ReceiptsAreMarked ==
    [][\A s \in open, k \in Commands :
          (stage[s] = "ready" /\ CommandAck(s, k)) => k \in sent']_vars
=============================================================================
