------------------------ MODULE DeviceGateway_proofs ------------------------
(***************************************************************************)
(* Proofs about DeviceGateway, for any devices, connections and commands.  *)
(* The argument: how far a handshake has come says what it has checked;    *)
(* what is on its way on an open connection belongs to the device of that  *)
(* connection, and is lost with it; a connection that has no competition   *)
(* leaves the map only by closing.                                         *)
(***************************************************************************)
EXTENDS DeviceGateway, TLAPS

\* How far a handshake has come says what has been checked and recorded, and
\* what is on its way is lost when the socket closes.
StageOK(s) ==
    /\ stage[s] \in Handshake \cup {"ready"} \/ s \in open =>
           dials[s] \in Devices /\ home[s] \in Processes
    /\ s \notin open => pushed[s] = {} /\ acks[s] = {}
    /\ stage[s] \in {"beat", "enter", "ready"} => key[s] = "good"
    /\ stage[s] \in {"enter", "ready"} => dials[s] \in heard

\* Only a connection that has been accepted is in the map of its process, under
\* its device.
EntryOK(e) ==
    connectedDevices[e] # None => /\ stage[connectedDevices[e]] = "ready"
                                  /\ Entry(connectedDevices[e]) = e

\* A row of DeviceCommand exists from the step of sendCommand that creates it.
CommandOK(k) ==
    /\ k \in commands => call[k] \in {"push", "over"}
    /\ call[k] = "push" => k \in commands
    /\ k \in commands \/ call[k] = "create" => to[k] \in Devices

\* What is on its way on a connection is of its device.
WireOK(s) ==
    /\ \A k \in pushed[s] : k \in commands /\ to[k] = dials[s]
    /\ \A k \in acks[s] : received[k] # {}

ReceivedOK(k) ==
    /\ received[k] \subseteq {to[k]}
    /\ received[k] # {} => k \in commands

ConnectionInv ==
    /\ TypeOK
    /\ \A s \in Sockets : StageOK(s)
    /\ \A e \in Entries : EntryOK(e)

QueueInv ==
    /\ \A k \in Commands : CommandOK(k) /\ ReceivedOK(k)
    /\ \A s \in Sockets : WireOK(s)
    /\ \A p \in Processes : relayed[p] \subseteq commands
    /\ SentWasReceived

\* No other handshake of its device is under way while a connection is alone,
\* and none can begin without ending that.
AloneInv ==
    /\ \A s \in alone : \A t \in Sockets :
           (t # s /\ Entry(t) = Entry(s)) => stage[t] \in Over
    /\ SoleConnectionIsKnown

-----------------------------------------------------------------------------

\* Every variable keeps its type and the map holds accepted connections only.
LEMMA ConnectionInvariant == Spec => []ConnectionInv
<1>1. Init => ConnectionInv
  BY DEF Init, ConnectionInv, TypeOK, StageOK, EntryOK, Handshake, Over
<1>2. ASSUME ConnectionInv, [Next]_vars
      PROVE  ConnectionInv'
  <2> USE <1>2, NoneAssumption
      DEF ConnectionInv, TypeOK, StageOK, EntryOK, Entry, Handshake, Over, Goto, sockets, wires, calls
  <2>1. ASSUME NEW s \in Sockets, NEW p \in Processes, NEW d \in Devices,
               NEW k \in {"good", "bad", "missing"}, Dial(s, p, d, k)
        PROVE  ConnectionInv'
    <3>1. CASE k = "missing"
      BY <2>1, <3>1 DEF Dial
    <3>2. CASE k # "missing"
      <4>1. /\ stage' = [stage EXCEPT ![s] = "validate"]
            /\ key' = [key EXCEPT ![s] = k]
            /\ home' = [home EXCEPT ![s] = p]
            /\ dials' = [dials EXCEPT ![s] = d]
            /\ open' = open \cup {s}
            /\ alone' \subseteq Sockets
            /\ s \notin open
            /\ \A e \in Entries : connectedDevices[e] # s
            /\ UNCHANGED <<connectedDevices, heard, calls, commands, sent, relayed, wires, received>>
        BY <2>1, <3>2 DEF Dial
      <4>2. \A e \in Entries : EntryOK(e)'
        BY <4>1
      <4>3. \A t \in Sockets : StageOK(t)'
        BY <4>1
      <4>4. TypeOK'
        BY <4>1
      <4>5. QED
        BY <4>2, <4>3, <4>4
    <3>3. QED
      BY <3>1, <3>2
  <2>2. ASSUME NEW s \in Sockets, Validate(s)
        PROVE  ConnectionInv'
    <3>1. CASE Accepted(s)
      BY <2>2, <3>1 DEF Validate, Accepted
    <3>2. CASE ~Accepted(s)
      <4>1. Reject(s) /\ UNCHANGED <<heard, calls, commands, sent, relayed, received>>
        BY <2>2, <3>2 DEF Validate
      <4>2. QED
        BY <4>1 DEF Reject, Close, Drop, Forgotten
    <3>3. QED
      BY <3>1, <3>2
  <2>3. ASSUME NEW s \in Sockets, RecordHeartbeat(s)
        PROVE  ConnectionInv'
    BY <2>3 DEF RecordHeartbeat
  <2>4. ASSUME NEW s \in Sockets, Enter(s)
        PROVE  ConnectionInv'
    <3>1. /\ connectedDevices' = [connectedDevices EXCEPT ![<<home[s], dials[s]>>] = s]
          /\ stage' = [stage EXCEPT ![s] = "ready"]
          /\ stage[s] = "enter"
          /\ UNCHANGED <<dials, home, key, open, alone, heard, calls, commands, sent, relayed,
                         wires, received>>
      BY <2>4 DEF Enter, Entered
    <3>2. <<home[s], dials[s]>> \in Entries
      BY <3>1 DEF Entries
    <3>3. \A e \in Entries : EntryOK(e)'
      BY <3>1, <3>2
    <3>4. \A t \in Sockets : StageOK(t)'
      BY <3>1
    <3>5. TypeOK'
      BY <3>1, <3>2
    <3>6. QED
      BY <3>3, <3>4, <3>5
  <2>5. ASSUME NEW s \in Sockets, Fail(s)
        PROVE  ConnectionInv'
    BY <2>5 DEF Fail, Reject, Close, Drop, Forgotten
  <2>6. ASSUME NEW s \in Sockets, Leave(s)
        PROVE  ConnectionInv'
    <3>1. CASE stage[s] = "ready"
      BY <2>6, <3>1 DEF Leave, Close, Drop, Forgotten
    <3>2. CASE stage[s] # "ready"
      BY <2>6, <3>2 DEF Leave, Close, Forgotten
    <3>3. QED
      BY <3>1, <3>2
  <2>7. ASSUME NEW d \in Devices, Report(d)
        PROVE  ConnectionInv'
    BY <2>7 DEF Report
  <2>8. ASSUME NEW k \in Commands, NEW p \in Processes, NEW d \in Devices,
               SendCommand(k, p, d)
        PROVE  ConnectionInv'
    BY <2>8 DEF SendCommand
  <2>9. ASSUME NEW k \in Commands, CreateCommand(k) \/ FailCommand(k)
        PROVE  ConnectionInv'
    BY <2>9 DEF CreateCommand, FailCommand, Ended
  <2>10. ASSUME NEW k \in Commands, PushCommand(k)
         PROVE  ConnectionInv'
    BY <2>10 DEF PushCommand, Ended, Emitted, SentWhenPushed, Room
  <2>11. ASSUME NEW s \in Sockets, NEW k \in Commands, Receive(s, k)
         PROVE  ConnectionInv'
    <3>1. dials[s] \in Devices
      BY <2>11 DEF Receive
    <3>2. QED
      BY <2>11, <3>1 DEF Receive
  <2>12. ASSUME NEW s \in Sockets, NEW k \in Commands, CommandAck(s, k)
         PROVE  ConnectionInv'
    BY <2>12 DEF CommandAck, Marked
  <2>13. ASSUME NEW p \in Processes, Restart(p)
         PROVE  ConnectionInv'
    BY <2>13 DEF Restart, Drop
  <2>14. CASE UNCHANGED vars
    BY <2>14 DEF vars
  <2>15. ASSUME NEW p \in Processes, NEW k \in Commands, Relay(p, k)
         PROVE  ConnectionInv'
    BY <2>15 DEF Relay, Emitted, Room
  <2>16. ASSUME NEW p \in Processes, NEW k \in Commands, LoseRelay(p, k)
         PROVE  ConnectionInv'
    BY <2>16 DEF LoseRelay
  <2> HIDE DEF ConnectionInv, TypeOK, StageOK, EntryOK, Entry, Handshake, Over, Goto, sockets,
               wires, calls
  <2>17. QED
    BY <2>1, <2>2, <2>3, <2>4, <2>5, <2>6, <2>7, <2>8, <2>9, <2>10, <2>11, <2>12, <2>13, <2>14,
       <2>15, <2>16 DEF Next
<1>3. QED
  BY <1>1, <1>2, PTL DEF Spec

THEOREM GatewayTypeCorrect == Spec => []TypeOK
  BY ConnectionInvariant, PTL DEF ConnectionInv

\* What the map knows has been authenticated and heard.
THEOREM MapAuthenticated == Spec => []KnownIsAuthenticated
<1>1. ConnectionInv => KnownIsAuthenticated
  BY NoneAssumption
     DEF ConnectionInv, TypeOK, StageOK, EntryOK, Entry, Entries, KnownIsAuthenticated
<1>2. QED
  BY <1>1, ConnectionInvariant, PTL

-----------------------------------------------------------------------------

\* The part of a step that the command queue does not see.
QueueIdle == UNCHANGED <<call, to, commands, sent, relayed, received>>

\* The queue: what a device received, or is about to, was stored for it.
LEMMA QueueInvariant == Spec => []QueueInv
<1>1. Init => QueueInv
  BY DEF Init, QueueInv, CommandOK, ReceivedOK, WireOK, SentWasReceived
<1>2. ASSUME ConnectionInv, QueueInv, [Next]_vars
      PROVE  QueueInv'
  <2> USE <1>2 DEF QueueInv, CommandOK, ReceivedOK, WireOK, SentWasReceived,
                   ConnectionInv, TypeOK, StageOK, sockets, wires, calls
  <2>1. ASSUME NEW s \in Sockets, NEW p \in Processes, NEW d \in Devices,
               NEW k \in {"good", "bad", "missing"}, Dial(s, p, d, k)
        PROVE  QueueInv'
    BY <2>1 DEF Dial
  <2>2. ASSUME NEW s \in Sockets, Close(s), dials' = dials \/ Drop({s}), QueueIdle
        PROVE  QueueInv'
    <3>1. \A t \in Sockets : pushed'[t] \subseteq pushed[t] /\ acks'[t] \subseteq acks[t]
      BY <2>2 DEF Close
    <3>2. \A t \in Sockets \ {s} : dials'[t] = dials[t]
      BY <2>2 DEF Drop
    <3>3. pushed'[s] = {}
      BY <2>2 DEF Close
    <3>4. QED
      BY <2>2, <3>1, <3>2, <3>3 DEF QueueIdle
  <2>3. CASE QueueIdle /\ UNCHANGED <<dials, wires>>
    BY <2>3 DEF QueueIdle
  <2>4. ASSUME NEW k \in Commands, NEW p \in Processes, NEW d \in Devices,
               SendCommand(k, p, d)
        PROVE  QueueInv'
    BY <2>4 DEF SendCommand
  <2>5. ASSUME NEW k \in Commands, CreateCommand(k)
        PROVE  QueueInv'
    BY <2>5 DEF CreateCommand
  <2>6. ASSUME NEW k \in Commands, FailCommand(k)
        PROVE  QueueInv'
    BY <2>6 DEF FailCommand, Ended
  <2>7. ASSUME NEW k \in Commands, PushCommand(k)
        PROVE  QueueInv'
    BY <2>7 DEF PushCommand, Ended, Emitted, SentWhenPushed, Room
  <2>8. ASSUME NEW s \in Sockets, NEW k \in Commands, Receive(s, k)
        PROVE  QueueInv'
    <3>1. k \in commands /\ to[k] = dials[s]
      BY <2>8 DEF Receive
    <3>2. received' = [received EXCEPT ![k] = @ \cup {to[k]}]
      BY <2>8, <3>1 DEF Receive
    <3>3. \A c \in Commands : (CommandOK(c) /\ ReceivedOK(c))'
      BY <2>8, <3>1, <3>2 DEF Receive
    <3>4. \A t \in Sockets : WireOK(t)'
      <4>1. \A c \in Commands : received[c] # {} => received'[c] # {}
        BY <3>2
      <4>2. received'[k] # {}
        BY <3>2
      <4>3. \A t \in Sockets : pushed'[t] \subseteq pushed[t] /\ acks'[t] \subseteq acks[t] \cup {k}
        BY <2>8 DEF Receive
      <4>4. UNCHANGED <<dials, to, commands>>
        BY <2>8 DEF Receive
      <4>5. \A t \in Sockets, c \in Commands :
               /\ c \in pushed'[t] => c \in commands' /\ to'[c] = dials'[t]
               /\ c \in acks'[t] => received'[c] # {}
        BY <4>1, <4>2, <4>3, <4>4
      <4>6. pushed' \in [Sockets -> SUBSET Commands] /\ acks' \in [Sockets -> SUBSET Commands]
        BY <2>8 DEF Receive
      <4>7. QED
        BY <4>5, <4>6
    <3>5. SentWasReceived'
      BY <2>8, <3>2 DEF Receive
    <3>6. UNCHANGED <<relayed, commands>>
      BY <2>8 DEF Receive
    <3>7. QED
      BY <3>3, <3>4, <3>5, <3>6
  <2>9. ASSUME NEW s \in Sockets, NEW k \in Commands, CommandAck(s, k)
        PROVE  QueueInv'
    <3>1. /\ UNCHANGED <<dials, call, to, commands, relayed, pushed, received>>
          /\ \A t \in Sockets : acks'[t] \subseteq acks[t]
          /\ k \in acks[s]
      BY <2>9 DEF CommandAck
    <3>2. \A c \in sent' : c \in sent \/ (c = k /\ c \in commands)
      BY <2>9 DEF CommandAck, Marked
    <3>3. k \in commands => received[k] # {} /\ received[k] \subseteq {to[k]}
      BY <3>1
    <3>4. SentWasReceived'
      BY <3>1, <3>2, <3>3
    <3>5. QED
      BY <3>1, <3>4
  <2>10. ASSUME NEW p \in Processes, Restart(p)
         PROVE  QueueInv'
    <3>1. \A t \in Sockets :
             /\ dials'[t] = dials[t] \/ (pushed'[t] = {} /\ acks'[t] = {})
             /\ pushed'[t] \subseteq pushed[t]
             /\ acks'[t] \subseteq acks[t]
      BY <2>10 DEF Restart, Drop
    <3>2. \A k \in Commands : call'[k] = call[k] \/ call'[k] = "over"
      BY <2>10 DEF Restart
    <3>3. /\ UNCHANGED <<to, commands, sent, received>>
          /\ \A q \in Processes : relayed'[q] \subseteq relayed[q]
      BY <2>10 DEF Restart
    <3>4. QED
      BY <3>1, <3>2, <3>3
  <2>11. ASSUME NEW p \in Processes, NEW k \in Commands, Relay(p, k)
         PROVE  QueueInv'
    BY <2>11 DEF Relay, Emitted, Room
  <2>12. ASSUME NEW p \in Processes, NEW k \in Commands, LoseRelay(p, k)
         PROVE  QueueInv'
    BY <2>12 DEF LoseRelay
  <2>13. ASSUME NEW s \in Sockets, Validate(s) \/ RecordHeartbeat(s) \/ Enter(s) \/ Fail(s) \/ Leave(s)
         PROVE  QueueInv'
    <3>1. \/ Close(s) /\ (dials' = dials \/ Drop({s})) /\ QueueIdle
          \/ QueueIdle /\ UNCHANGED <<dials, wires>>
      BY <2>13 DEF Validate, RecordHeartbeat, Enter, Fail, Leave, Reject, QueueIdle
    <3>2. QED
      BY <3>1, <2>2, <2>3
  <2>14. CASE UNCHANGED vars \/ \E d \in Devices : Report(d)
    <3>1. QueueIdle /\ UNCHANGED <<dials, wires>>
      BY <2>14 DEF Report, vars, QueueIdle
    <3>2. QED
      BY <3>1, <2>3
  <2> HIDE DEF QueueInv, CommandOK, ReceivedOK, WireOK, SentWasReceived, ConnectionInv, TypeOK,
               StageOK, sockets, wires, calls
  <2>15. QED
    BY <2>1, <2>4, <2>5, <2>6, <2>7, <2>8, <2>9, <2>10, <2>11, <2>12, <2>13, <2>14 DEF Next
<1>3. QED
  BY <1>1, <1>2, ConnectionInvariant, PTL DEF Spec

\* A command marked as sent was received by its device.
THEOREM SentReceived == Spec => []SentWasReceived
  BY QueueInvariant, PTL DEF QueueInv

-----------------------------------------------------------------------------

\* A connection that stays alone stays in the map while it is open.
LEMMA AloneInvariant == Spec => []AloneInv
<1>1. Init => AloneInv
  BY DEF Init, AloneInv, SoleConnectionIsKnown
<1>2. ASSUME ConnectionInv, AloneInv, [Next]_vars
      PROVE  AloneInv'
  <2> USE <1>2, NoneAssumption DEF AloneInv, SoleConnectionIsKnown, ConnectionInv, TypeOK,
                   StageOK, EntryOK, Entry, Handshake, Over, Goto, sockets, wires, calls
  <2>1. ASSUME NEW s \in Sockets, NEW p \in Processes, NEW d \in Devices,
               NEW k \in {"good", "bad", "missing"}, Dial(s, p, d, k)
        PROVE  AloneInv'
    <3>1. CASE k = "missing"
      BY <2>1, <3>1 DEF Dial
    <3>2. CASE k # "missing"
      <4>1. /\ stage' = [stage EXCEPT ![s] = "validate"]
            /\ home' = [home EXCEPT ![s] = p]
            /\ dials' = [dials EXCEPT ![s] = d]
            /\ open' = open \cup {s}
            /\ connectedDevices' = connectedDevices
        BY <2>1, <3>2 DEF Dial
      <4>2. \A u \in alone' :
               \/ u = s /\ \A t \in Sockets \ {s} :
                             (home[t] = p /\ dials[t] = d) => stage[t] \in Over
               \/ u # s /\ u \in alone /\ ~(home[u] = p /\ dials[u] = d)
        BY <2>1, <3>2 DEF Dial, Others
      <4>3. ASSUME NEW u \in alone', NEW t \in Sockets,
                   t # u, home'[t] = home'[u], dials'[t] = dials'[u]
            PROVE  stage'[t] \in Over
        BY <4>1, <4>2, <4>3
      <4>4. \A u \in alone' \cap open' :
               stage'[u] = "ready" => connectedDevices'[<<home'[u], dials'[u]>>] = u
        BY <4>1, <4>2
      <4>5. QED
        BY <4>3, <4>4
    <3>3. QED
      BY <3>1, <3>2
  <2>2. ASSUME NEW s \in Sockets, Validate(s)
        PROVE  AloneInv'
    BY <2>2 DEF Validate, Reject, Close, Drop, Forgotten
  <2>3. ASSUME NEW s \in Sockets, RecordHeartbeat(s)
        PROVE  AloneInv'
    BY <2>3 DEF RecordHeartbeat
  <2>4. ASSUME NEW s \in Sockets, Enter(s)
        PROVE  AloneInv'
    <3>1. /\ connectedDevices' = [connectedDevices EXCEPT ![<<home[s], dials[s]>>] = s]
          /\ stage' = [stage EXCEPT ![s] = "ready"]
          /\ stage[s] = "enter"
          /\ UNCHANGED <<dials, home, open, alone>>
      BY <2>4 DEF Enter, Entered
    <3>2. <<home[s], dials[s]>> \in Entries
      BY <3>1 DEF Entries
    <3>3. ASSUME NEW u \in alone \cap open, stage'[u] = "ready"
          PROVE  connectedDevices'[<<home[u], dials[u]>>] = u
      <4>1. CASE u = s
        BY <3>1, <3>2, <4>1
      <4>2. CASE u # s
        <5>1. ~(home[u] = home[s] /\ dials[u] = dials[s])
          BY <3>1, <4>2
        <5>2. stage[u] = "ready"
          BY <3>1, <3>3, <4>2
        <5>3. connectedDevices[<<home[u], dials[u]>>] = u /\ <<home[u], dials[u]>> \in Entries
          BY <5>2 DEF Entries
        <5>4. QED
          BY <3>1, <5>1, <5>3
      <4>3. QED
        BY <4>1, <4>2
    <3>4. QED
      BY <3>1, <3>3
  <2>5. ASSUME NEW s \in Sockets, Fail(s)
        PROVE  AloneInv'
    BY <2>5 DEF Fail, Reject, Close, Drop, Forgotten
  <2>6. ASSUME NEW s \in Sockets, Leave(s)
        PROVE  AloneInv'
    <3>1. \A t \in Sockets \ {s} : UNCHANGED <<stage[t], home[t], dials[t]>>
      BY <2>6 DEF Leave, Drop
    <3>2. /\ stage'[s] \in Over \/ UNCHANGED <<stage[s], home[s], dials[s]>>
          /\ s \in alone' => UNCHANGED <<stage[s], home[s], dials[s]>>
          /\ alone' \subseteq alone
          /\ open' = open \ {s}
      BY <2>6 DEF Leave, Close, Drop
    <3>3. \A u \in Sockets \ {s}, e \in Entries :
             connectedDevices[e] = u => connectedDevices'[e] = u
      BY <2>6 DEF Leave, Close, Forgotten
    <3>4. \A u \in alone' \cap open' :
             stage'[u] = "ready" => connectedDevices'[<<home'[u], dials'[u]>>] = u
      BY <3>1, <3>2, <3>3 DEF Entries
    <3>5. ASSUME NEW u \in alone', NEW t \in Sockets,
                 t # u, home'[t] = home'[u], dials'[t] = dials'[u]
          PROVE  stage'[t] \in Over
      <4>1. /\ u \in alone
            /\ home'[u] = home[u] /\ dials'[u] = dials[u]
        BY <3>1, <3>2
      <4>2. \/ stage'[t] \in Over
            \/ stage'[t] = stage[t] /\ home'[t] = home[t] /\ dials'[t] = dials[t]
        BY <3>1, <3>2
      <4>3. QED
        BY <3>5, <4>1, <4>2
    <3>6. QED
      BY <3>4, <3>5
  <2>7. ASSUME NEW p \in Processes, Restart(p)
        PROVE  AloneInv'
    <3>1. \A t \in Sockets :
             /\ home[t] = p => stage'[t] = "free" /\ t \notin alone' \cup open'
             /\ home[t] # p => UNCHANGED <<stage[t], home[t], dials[t]>>
      BY <2>7 DEF Restart, Drop
    <3>2. alone' \subseteq alone /\ open' \subseteq open
      BY <2>7 DEF Restart, Drop
    <3>3. \A q \in Processes, d \in Devices :
             q # p => connectedDevices'[<<q, d>>] = connectedDevices[<<q, d>>]
      BY <2>7 DEF Restart, Entries
    <3>4. QED
      BY <3>1, <3>2, <3>3
  <2>8. CASE UNCHANGED <<stage, dials, home, open, alone, connectedDevices>>
    BY <2>8
  <2>9. ASSUME NEW k \in Commands, CreateCommand(k) \/ FailCommand(k) \/ PushCommand(k)
        PROVE  AloneInv'
    BY <2>8, <2>9 DEF CreateCommand, FailCommand, PushCommand
  <2>10. ASSUME NEW k \in Commands, NEW p \in Processes, NEW d \in Devices,
                SendCommand(k, p, d)
         PROVE  AloneInv'
    BY <2>8, <2>10 DEF SendCommand
  <2>11. ASSUME NEW s \in Sockets, NEW k \in Commands, Receive(s, k) \/ CommandAck(s, k)
         PROVE  AloneInv'
    BY <2>8, <2>11 DEF Receive, CommandAck
  <2>12. CASE UNCHANGED vars \/ \E d \in Devices : Report(d)
    BY <2>8, <2>12 DEF vars, Report
  <2>13. ASSUME NEW p \in Processes, NEW k \in Commands, Relay(p, k) \/ LoseRelay(p, k)
         PROVE  AloneInv'
    BY <2>8, <2>13 DEF Relay, LoseRelay
  <2> HIDE DEF AloneInv, SoleConnectionIsKnown, ConnectionInv, TypeOK, StageOK, EntryOK, Entry,
               Handshake, Over, Goto, sockets, wires, calls
  <2>14. QED
    BY <2>1, <2>2, <2>3, <2>4, <2>5, <2>6, <2>7, <2>9, <2>10, <2>11, <2>12, <2>13 DEF Next
<1>3. QED
  BY <1>1, <1>2, ConnectionInvariant, PTL DEF Spec

\* As long as its handshakes do not overlap, the open connection of a device is
\* the one the map knows.
THEOREM SoleConnectionKnown == Spec => []SoleConnectionIsKnown
  BY AloneInvariant, PTL DEF AloneInv

-----------------------------------------------------------------------------

\* The gateway, the service and the devices implement the command queue.
THEOREM QueueImplemented == Spec => ImplementsQueue
<1> DEFINE Addressee == [k \in Commands |-> IF k \in commands THEN to[k] ELSE None]
           Same == UNCHANGED <<Addressee, received, sent>>
<1>1. Init => Queue!QueueInit
  BY DEF Init, Queue!QueueInit
<1>2. ASSUME ConnectionInv, QueueInv, [Next]_vars
      PROVE  Queue!QueueNext \/ Same
  <2> USE <1>2 DEF ConnectionInv, TypeOK, QueueInv
  <2>1. ASSUME NEW k \in Commands, NEW p \in Processes, NEW d \in Devices,
               SendCommand(k, p, d)
        PROVE  Same
    <3>1. k \notin commands
      BY <2>1 DEF SendCommand, CommandOK
    <3>2. Addressee' = Addressee
      BY <2>1, <3>1 DEF SendCommand
    <3>3. QED
      BY <2>1, <3>2 DEF SendCommand
  <2>2. ASSUME NEW k \in Commands, CreateCommand(k)
        PROVE  Queue!QueueNext
    <3>1. k \notin commands /\ to[k] \in Devices
      BY <2>2 DEF CreateCommand, CommandOK
    <3>2. Addressee[k] = None /\ Addressee' = [Addressee EXCEPT ![k] = to[k]]
      BY <2>2, <3>1 DEF CreateCommand
    <3>3. ASSUME NEW d \in Devices, d = to[k]
          PROVE  Queue!Store(k, d)
      BY <2>2, <3>2, <3>3 DEF CreateCommand, Queue!Store
    <3>4. QED
      BY <3>1, <3>3 DEF Queue!QueueNext
  <2>3. ASSUME NEW s \in Sockets, NEW k \in Commands, Receive(s, k)
        PROVE  Queue!QueueNext
    <3>1. k \in commands /\ dials[s] = to[k] /\ to[k] \in Devices
      BY <2>3 DEF Receive, WireOK, CommandOK
    <3>2. Addressee[k] = to[k] /\ Addressee[k] # None /\ Addressee' = Addressee
      BY <2>3, <3>1, NoneAssumption DEF Receive, calls
    <3>3. received' = [received EXCEPT ![k] = {Addressee[k]}]
      BY <2>3, <3>1, <3>2 DEF Receive, ReceivedOK
    <3>4. Queue!Hear(k)
      BY <2>3, <3>2, <3>3 DEF Receive, Queue!Hear
    <3>5. QED
      BY <3>4 DEF Queue!QueueNext
  <2>4. ASSUME NEW s \in Sockets, NEW k \in Commands, CommandAck(s, k)
        PROVE  Queue!QueueNext \/ Same
    <3>1. received[k] # {}
      BY <2>4 DEF CommandAck, WireOK
    <3>2. sent' = sent \/ sent' = sent \cup {k}
      BY <2>4 DEF CommandAck, Marked
    <3>3. Addressee' = Addressee /\ received' = received
      BY <2>4 DEF CommandAck, calls
    <3>4. sent' = sent \cup {k} => Queue!Confirm(k)
      BY <3>1, <3>3 DEF Queue!Confirm
    <3>5. QED
      BY <3>2, <3>3, <3>4 DEF Queue!QueueNext
  <2>5. CASE UNCHANGED <<to, commands, received, sent>>
    BY <2>5
  <2>6. ASSUME NEW s \in Sockets,
               \/ Validate(s) \/ RecordHeartbeat(s) \/ Enter(s) \/ Fail(s) \/ Leave(s)
               \/ \E p \in Processes, d \in Devices, k \in {"good", "bad", "missing"} :
                     Dial(s, p, d, k)
        PROVE  Same
    <3>1. UNCHANGED <<to, commands, received, sent>>
      BY <2>6 DEF Dial, Validate, RecordHeartbeat, Enter, Fail, Leave, calls
    <3>2. QED
      BY <3>1, <2>5
  <2>7. ASSUME NEW k \in Commands,
               \/ FailCommand(k) \/ PushCommand(k)
               \/ \E p \in Processes : Relay(p, k) \/ LoseRelay(p, k)
        PROVE  Same
    <3>1. UNCHANGED <<to, commands, received, sent>>
      BY <2>7 DEF FailCommand, PushCommand, SentWhenPushed, Relay, LoseRelay, calls
    <3>2. QED
      BY <3>1, <2>5
  <2>8. CASE (\E p \in Processes : Restart(p)) \/ (\E d \in Devices : Report(d)) \/ UNCHANGED vars
    <3>1. UNCHANGED <<to, commands, received, sent>>
      BY <2>8 DEF Restart, Report, calls, vars
    <3>2. QED
      BY <3>1, <2>5
  <2> HIDE DEF ConnectionInv, TypeOK, QueueInv, Same
  <2>9. QED
    BY <2>1, <2>2, <2>3, <2>4, <2>6, <2>7, <2>8 DEF Next
<1>3. QED
  BY <1>1, <1>2, ConnectionInvariant, QueueInvariant, PTL
     DEF Spec, ImplementsQueue, Queue!QueueSpec, Queue!queueVars


-----------------------------------------------------------------------------

\* A connection that is open is on its way through handleConnection or has been
\* accepted: what a refusal, a failure or a restart ends is closed too.
OpenIsAttended == \A s \in open : stage[s] \in Handshake \cup {"ready"}

\* What is acknowledged on a connection was stored for the device of that
\* connection.
AcksOfItsDevice == \A s \in Sockets : \A k \in acks[s] : k \in commands /\ to[k] = dials[s]

\* No connection stays open that the code has refused, and none whose handshake
\* has ended without being accepted (lines 47-51 and 65-69).
THEOREM OpenAttended == Spec => []OpenIsAttended
<1>1. Init => OpenIsAttended
  BY DEF Init, OpenIsAttended
<1>2. ASSUME ConnectionInv, OpenIsAttended, [Next]_vars
      PROVE  OpenIsAttended'
  <2> USE <1>2 DEF OpenIsAttended, ConnectionInv, TypeOK, Handshake, Goto, sockets
  <2>1. ASSUME NEW s \in Sockets, NEW p \in Processes, NEW d \in Devices,
               NEW k \in {"good", "bad", "missing"}, Dial(s, p, d, k)
        PROVE  OpenIsAttended'
    BY <2>1 DEF Dial
  <2>2. ASSUME NEW s \in Sockets, Validate(s) \/ Fail(s)
        PROVE  OpenIsAttended'
    BY <2>2 DEF Validate, Fail, Reject, Close
  <2>3. ASSUME NEW s \in Sockets, RecordHeartbeat(s) \/ Enter(s)
        PROVE  OpenIsAttended'
    BY <2>3 DEF RecordHeartbeat, Enter, Entered
  <2>4. ASSUME NEW s \in Sockets, Leave(s)
        PROVE  OpenIsAttended'
    BY <2>4 DEF Leave, Close
  <2>5. ASSUME NEW p \in Processes, Restart(p)
        PROVE  OpenIsAttended'
    BY <2>5 DEF Restart
  <2>6. CASE UNCHANGED <<stage, open>>
    BY <2>6
  <2>7. ASSUME NEW k \in Commands,
               \/ CreateCommand(k) \/ FailCommand(k) \/ PushCommand(k)
               \/ \E p \in Processes : Relay(p, k) \/ LoseRelay(p, k)
               \/ \E s \in Sockets : Receive(s, k) \/ CommandAck(s, k)
               \/ \E p \in Processes, d \in Devices : SendCommand(k, p, d)
        PROVE  OpenIsAttended'
    BY <2>6, <2>7 DEF CreateCommand, FailCommand, PushCommand, Relay, LoseRelay, Receive,
                      CommandAck, SendCommand
  <2>8. CASE UNCHANGED vars \/ \E d \in Devices : Report(d)
    BY <2>6, <2>8 DEF vars, Report
  <2> HIDE DEF OpenIsAttended, ConnectionInv, TypeOK, Handshake, Goto, sockets
  <2>9. QED
    BY <2>1, <2>2, <2>3, <2>4, <2>5, <2>7, <2>8 DEF Next
<1>3. QED
  BY <1>1, <1>2, ConnectionInvariant, PTL DEF Spec

\* An acknowledgement comes from a connection of the device the command is for:
\* the commands pushed on a connection are of its device, and a socket that is
\* used again has none left from the connection before.
LEMMA AckInvariant == Spec => []AcksOfItsDevice
<1>1. Init => AcksOfItsDevice
  BY DEF Init, AcksOfItsDevice
<1>2. ASSUME ConnectionInv, QueueInv, AcksOfItsDevice, [Next]_vars
      PROVE  AcksOfItsDevice'
  <2> USE <1>2 DEF AcksOfItsDevice, ConnectionInv, TypeOK, QueueInv, CommandOK, WireOK, StageOK,
                   sockets, wires, calls
  <2>1. ASSUME NEW s \in Sockets, NEW p \in Processes, NEW d \in Devices,
               NEW k \in {"good", "bad", "missing"}, Dial(s, p, d, k)
        PROVE  AcksOfItsDevice'
    BY <2>1 DEF Dial
  <2>2. ASSUME NEW s \in Sockets, Close(s), dials' = dials \/ Drop({s}), QueueIdle
        PROVE  AcksOfItsDevice'
    <3>1. /\ \A t \in Sockets : acks'[t] \subseteq acks[t]
          /\ acks'[s] = {}
      BY <2>2 DEF Close
    <3>2. \A t \in Sockets \ {s} : dials'[t] = dials[t]
      BY <2>2 DEF Drop
    <3>3. QED
      BY <2>2, <3>1, <3>2 DEF QueueIdle
  <2>3. CASE UNCHANGED <<to, commands, dials, acks>>
    BY <2>3
  <2>4. ASSUME NEW k \in Commands, NEW p \in Processes, NEW d \in Devices,
               SendCommand(k, p, d)
        PROVE  AcksOfItsDevice'
    BY <2>4 DEF SendCommand
  <2>5. ASSUME NEW k \in Commands, CreateCommand(k)
        PROVE  AcksOfItsDevice'
    BY <2>5 DEF CreateCommand
  <2>6. ASSUME NEW s \in Sockets, NEW k \in Commands, Receive(s, k)
        PROVE  AcksOfItsDevice'
    <3>1. k \in commands /\ to[k] = dials[s]
      BY <2>6 DEF Receive
    <3>2. /\ UNCHANGED <<to, commands, dials>>
          /\ acks' = [acks EXCEPT ![s] = acks[s] \cup {k}]
      BY <2>6 DEF Receive
    <3>3. QED
      BY <3>1, <3>2
  <2>7. ASSUME NEW s \in Sockets, NEW k \in Commands, CommandAck(s, k)
        PROVE  AcksOfItsDevice'
    BY <2>7 DEF CommandAck
  <2>8. ASSUME NEW p \in Processes, Restart(p)
        PROVE  AcksOfItsDevice'
    <3>1. \A t \in Sockets :
             /\ dials'[t] = dials[t] \/ acks'[t] = {}
             /\ acks'[t] \subseteq acks[t]
      BY <2>8 DEF Restart, Drop
    <3>2. UNCHANGED <<to, commands>>
      BY <2>8 DEF Restart
    <3>3. QED
      BY <3>1, <3>2
  <2>9. ASSUME NEW s \in Sockets,
               Validate(s) \/ RecordHeartbeat(s) \/ Enter(s) \/ Fail(s) \/ Leave(s)
        PROVE  AcksOfItsDevice'
    <3>1. \/ Close(s) /\ (dials' = dials \/ Drop({s})) /\ QueueIdle
          \/ QueueIdle /\ UNCHANGED <<dials, wires>>
      BY <2>9 DEF Validate, RecordHeartbeat, Enter, Fail, Leave, Reject, QueueIdle
    <3>2. QED
      BY <3>1, <2>2, <2>3 DEF QueueIdle
  <2>10. ASSUME NEW k \in Commands,
                \/ FailCommand(k) \/ PushCommand(k)
                \/ \E p \in Processes : Relay(p, k) \/ LoseRelay(p, k)
         PROVE  AcksOfItsDevice'
    BY <2>3, <2>10 DEF FailCommand, PushCommand, Relay, LoseRelay
  <2>11. CASE UNCHANGED vars \/ \E d \in Devices : Report(d)
    BY <2>3, <2>11 DEF vars, Report
  <2> HIDE DEF AcksOfItsDevice, ConnectionInv, TypeOK, QueueInv, CommandOK, WireOK, StageOK,
               sockets, wires, calls
  <2>12. QED
    BY <2>1, <2>4, <2>5, <2>6, <2>7, <2>8, <2>9, <2>10, <2>11 DEF Next
<1>3. QED
  BY <1>1, <1>2, ConnectionInvariant, QueueInvariant, PTL DEF Spec

\* A receipt that comes on an open, accepted connection marks the command, as
\* long as no other handshake of the device with that process has been under way
\* since it connected (lines 102-122).
SoleReceiptsAreMarked ==
    [][\A s \in alone \cap open, k \in Commands :
          (stage[s] = "ready" /\ CommandAck(s, k)) => k \in sent']_vars

\* ReceiptsAreMarked fails only where handshakes of a device overlap.
THEOREM SoleReceiptsMarked == Spec => SoleReceiptsAreMarked
<1> DEFINE Marks == \A s \in alone \cap open, k \in Commands :
                       (stage[s] = "ready" /\ CommandAck(s, k)) => k \in sent'
<1>1. ASSUME ConnectionInv, AcksOfItsDevice, SoleConnectionIsKnown
      PROVE  Marks
  <2>1. ASSUME NEW s \in alone \cap open, NEW k \in Commands, stage[s] = "ready", CommandAck(s, k)
        PROVE  k \in sent'
    <3>1. s \in Sockets /\ k \in acks[s] /\ sent' = sent \cup Marked(DevicesOf(s), k)
      BY <1>1, <2>1 DEF ConnectionInv, TypeOK, CommandAck
    <3>2. k \in commands /\ to[k] = dials[s] /\ dials[s] \in Devices
      BY <1>1, <2>1, <3>1 DEF AcksOfItsDevice, ConnectionInv, StageOK
    <3>3. connectedDevices[<<home[s], dials[s]>>] = s
      BY <1>1, <2>1 DEF SoleConnectionIsKnown, Entry
    <3>4. dials[s] \in DevicesOf(s)
      BY <3>2, <3>3 DEF DevicesOf
    <3>5. k \in Marked(DevicesOf(s), k)
      BY <3>2, <3>4 DEF Marked
    <3>6. QED
      BY <3>1, <3>5
  <2>2. QED
    BY <2>1
<1>2. ASSUME ConnectionInv, AcksOfItsDevice, SoleConnectionIsKnown
      PROVE  [Marks]_vars
  BY <1>1, <1>2
<1>3. QED
  BY <1>2, ConnectionInvariant, AckInvariant, SoleConnectionKnown, PTL DEF SoleReceiptsAreMarked


-----------------------------------------------------------------------------

\* What an administrator may rely on: only its addressee ever receives a
\* command, and a command marked as delivered was received by it.
QueueKeepsPromise ==
    \A k \in Commands :
        LET addressee == IF k \in commands THEN to[k] ELSE None
        IN  /\ received[k] # {} => addressee # None /\ received[k] = {addressee}
            /\ k \in sent => received[k] # {}

\* The queue alone keeps its promise: an address is given once, it is the only
\* one a command is handed to, and what has been handed over stays so.
THEOREM QueueIsSafe == Queue!QueueSpec => []QueueKeepsPromise
<1> DEFINE Addressee == [k \in Commands |-> IF k \in commands THEN to[k] ELSE None]
           Receivers == received
           Kept == /\ Receivers = [k \in Commands |-> Receivers[k]]
                   /\ \A k \in Commands :
                         /\ Receivers[k] # {} =>
                               Addressee[k] # None /\ Receivers[k] = {Addressee[k]}
                         /\ k \in sent => Receivers[k] # {}
<1>1. Queue!QueueInit => Kept
  BY DEF Queue!QueueInit
<1>2. ASSUME Kept, [Queue!QueueNext]_(Queue!queueVars)
      PROVE  Kept'
  <2>0. DOMAIN Addressee = Commands
    OBVIOUS
  <2>1. ASSUME NEW k \in Commands, NEW d \in Devices, Queue!Store(k, d)
        PROVE  Kept'
    <3>1. /\ Addressee[k] = None /\ Addressee' = [Addressee EXCEPT ![k] = d]
          /\ Receivers' = Receivers /\ sent' = sent
      BY <2>1 DEF Queue!Store
    <3> HIDE DEF Addressee, Receivers
    <3>2. QED
      BY <1>2, <2>0, <3>1
  <2>2. ASSUME NEW k \in Commands, Queue!Hear(k)
        PROVE  Kept'
    <3>1. /\ Addressee[k] # None /\ Addressee' = Addressee
          /\ Receivers' = [Receivers EXCEPT ![k] = {Addressee[k]}] /\ sent' = sent
      BY <2>2 DEF Queue!Hear
    <3> HIDE DEF Addressee, Receivers
    <3>2. QED
      BY <1>2, <2>0, <3>1
  <2>3. ASSUME NEW k \in Commands, Queue!Confirm(k)
        PROVE  Kept'
    <3>1. /\ Receivers[k] # {} /\ Receivers' = Receivers /\ Addressee' = Addressee
          /\ sent' = sent \cup {k}
      BY <2>3 DEF Queue!Confirm
    <3> HIDE DEF Addressee, Receivers
    <3>2. QED
      BY <1>2, <3>1
  <2>4. CASE UNCHANGED Queue!queueVars
    <3>1. Addressee' = Addressee /\ Receivers' = Receivers /\ sent' = sent
      BY <2>4 DEF Queue!queueVars
    <3> HIDE DEF Addressee, Receivers
    <3>2. QED
      BY <1>2, <3>1
  <2>5. QED
    BY <1>2, <2>1, <2>2, <2>3, <2>4 DEF Queue!QueueNext
<1>3. Kept => QueueKeepsPromise
  BY DEF QueueKeepsPromise
<1>4. QED
  BY <1>1, <1>2, <1>3, PTL DEF Queue!QueueSpec

\* So it is kept across overlapping handshakes, processes and restarts.
THEOREM QueuePromiseKept == Spec => []QueueKeepsPromise
  BY QueueImplemented, QueueIsSafe, PTL DEF ImplementsQueue
=============================================================================
