---------------------------- MODULE Connector ----------------------------
(***************************************************************************)
(* The pushes of one user: the gateways publish them on core NATS, one     *)
(* connector of the queue group takes each and hands it to the clients it  *)
(* knows of that user, or publishes it for the offline push.  A client is  *)
(* a WebSocket connection with two goroutines (ReadPump, WritePump) and a  *)
(* buffered channel; it enters and leaves the map of its connector through *)
(* two channels that one goroutine (run) reads in either order.            *)
(***************************************************************************)
EXTENDS Naturals, Sequences, FiniteSets

CONSTANTS Connectors,
          Conns,      \* the connections the user's devices open
          Devices,
          DeviceOf,   \* the device_id of a connection
          None,
          Capacity,   \* bound: the send channel, 256 in the code
          Kinds,      \* the types of the envelopes pushed, in their order
          MaxDrops    \* bound: connections that are lost

ASSUME ConnectorAssumption ==
  /\ DeviceOf \in [Conns -> Devices] /\ None \notin Conns
  /\ Capacity \in Nat \ {0} /\ MaxDrops \in Nat
  /\ Kinds \in Seq({"message", "group_event"})

VARIABLES home,       \* the connector that accepted the connection
          socket, reader, writer, \* the connection and its two pumps
          buffer, closed,         \* Client.send and Client.closed
          clients,    \* ClientManager.clients, by connector and device
          register, unregister,   \* the channels of ClientManager
          published,  \* how many pushes were published
          inbox,      \* the queue of each connector's subscription
          received,   \* what each connection's device has received
          offline,    \* im.push.offline.<uid>
          records,    \* the offline pushes handed to the provider
          latest,     \* history: the last connection registered for a device
          overtaken   \* history: unregistered before they were registered

connVars == <<home, socket, reader, writer, buffer, closed, received>>
managerVars == <<clients, register, unregister, latest, overtaken>>
pushVars == <<published, inbox, offline, records>>
vars == <<connVars, managerVars, pushVars>>

Pong == 0  \* the answer to a client's ping, in its send channel

Init ==
  /\ home = [c \in Conns |-> None]
  /\ socket = [c \in Conns |-> "new"]
  /\ reader = [c \in Conns |-> "new"] /\ writer = [c \in Conns |-> "new"]
  /\ buffer = [c \in Conns |-> <<>>] /\ closed = [c \in Conns |-> FALSE]
  /\ received = [c \in Conns |-> <<>>]
  /\ clients = [k \in Connectors |-> [d \in Devices |-> None]]
  /\ register = [k \in Connectors |-> <<>>] /\ unregister = [k \in Connectors |-> <<>>]
  /\ latest = [k \in Connectors |-> [d \in Devices |-> None]] /\ overtaken = {}
  /\ published = 0 /\ inbox = [k \in Connectors |-> <<>>]
  /\ offline = <<>> /\ records = <<>>

---------------------------------------------------------------------------
\* handleConnection: register the client, then start its pumps.
Connect(c, k) ==
  /\ socket[c] = "new"
  /\ home' = [home EXCEPT ![c] = k]
  /\ socket' = [socket EXCEPT ![c] = "open"]
  /\ reader' = [reader EXCEPT ![c] = "running"]
  /\ writer' = [writer EXCEPT ![c] = "running"]
  /\ register' = [register EXCEPT ![k] = Append(@, c)]
  /\ UNCHANGED <<buffer, closed, received, clients, unregister, latest, overtaken, pushVars>>

\* The device goes away, or is silent for pongWait.
Lose(c) ==
  /\ socket[c] = "open"
  /\ Cardinality({x \in Conns : socket[x] = "lost"}) < MaxDrops
  /\ socket' = [socket EXCEPT ![c] = "lost"]
  /\ UNCHANGED <<home, reader, writer, buffer, closed, received, managerVars, pushVars>>

\* Mutant: ReadPump closes the connection and leaves without a word.
ReadPumpForgets(c) ==
  /\ reader[c] = "running" /\ socket[c] = "lost"
  /\ reader' = [reader EXCEPT ![c] = "done"]
  /\ UNCHANGED <<home, socket, writer, buffer, closed, received, managerVars, pushVars>>

\* ReadPump fails to read: it unregisters its client and closes the connection.
ReadPumpEnds(c) ==
  /\ reader[c] = "running" /\ socket[c] = "lost"
  /\ reader' = [reader EXCEPT ![c] = "done"]
  /\ unregister' = [unregister EXCEPT ![home[c]] = Append(@, c)]
  /\ UNCHANGED <<home, socket, writer, buffer, closed, received,
                 clients, register, latest, overtaken, pushVars>>

\* Client.Send to each client of S: a full channel drops the data.
Send(S, data) ==
  buffer' = [c \in Conns |->
    IF c \in S /\ ~closed[c] /\ Len(buffer[c]) < Capacity
    THEN Append(buffer[c], data) ELSE buffer[c]]

\* handlePingPacket, called by ReadPump
HandlePing(c) ==
  /\ reader[c] = "running" /\ socket[c] = "open"
  /\ Send({c}, Pong)
  /\ UNCHANGED <<home, socket, reader, writer, closed, received, managerVars, pushVars>>

\* WritePump writes the next of the channel: what is written to a connection
\* that is lost arrives nowhere, with or without an error.
WritePump(c) ==
  /\ writer[c] = "running" /\ buffer[c] # <<>>
  /\ buffer' = [buffer EXCEPT ![c] = Tail(@)]
  /\ received' = [received EXCEPT ![c] =
       IF socket[c] = "open" /\ Head(buffer[c]) # Pong THEN Append(@, Head(buffer[c])) ELSE @]
  /\ UNCHANGED <<home, socket, reader, writer, closed, managerVars, pushVars>>

\* WritePump ends when its channel is closed and empty, or when a write fails,
\* that of the periodic ping included.  It closes the connection.
WritePumpEnds(c) ==
  /\ writer[c] = "running"
  /\ socket[c] = "lost" \/ (closed[c] /\ buffer[c] = <<>>)
  /\ writer' = [writer EXCEPT ![c] = "done"]
  /\ socket' = [socket EXCEPT ![c] = "lost"]
  /\ UNCHANGED <<home, reader, buffer, closed, received, managerVars, pushVars>>

---------------------------------------------------------------------------
\* run takes from register: the client replaces that of the same key.
RunRegister(k) ==
  /\ register[k] # <<>>
  /\ LET c == Head(register[k]) IN
       /\ clients' = [clients EXCEPT ![k][DeviceOf[c]] = c]
       /\ latest' = [latest EXCEPT ![k][DeviceOf[c]] = c]
  /\ register' = [register EXCEPT ![k] = Tail(@)]
  /\ UNCHANGED <<connVars, unregister, overtaken, pushVars>>

Ended(k) == Head(unregister[k])
Entry(k) == clients[k][DeviceOf[Ended(k)]]

Unregister(k, entry) ==
  /\ clients' = [clients EXCEPT ![k][DeviceOf[Ended(k)]] = entry]
  /\ unregister' = [unregister EXCEPT ![k] = Tail(@)]
  /\ closed' = [closed EXCEPT ![Ended(k)] = TRUE]
  /\ overtaken' = overtaken \union
       {c \in {Ended(k)} : \E i \in DOMAIN register[k] : register[k][i] = c}
  /\ UNCHANGED <<home, socket, reader, writer, buffer, received, register, latest, pushVars>>

\* Mutant: whatever is registered under the key is deleted.
RunUnregisterKey(k) == unregister[k] # <<>> /\ Unregister(k, None)

\* Mutant: the client is only closed.
RunUnregisterClosing(k) == unregister[k] # <<>> /\ Unregister(k, Entry(k))

\* run takes from unregister: the client is deleted if it is still the one
\* under its key, and closed.
RunUnregister(k) ==
  /\ unregister[k] # <<>>
  /\ Unregister(k, IF Entry(k) = Ended(k) THEN None ELSE Entry(k))

---------------------------------------------------------------------------
\* Mutant: the connectors subscribe without a queue group.
EnqueueAll(m) == inbox' = [k \in Connectors |-> Append(inbox[k], m)]

\* QueueSubscribe("im.push.message.>", "connector-push")
Enqueue(m) == \E k \in Connectors : inbox' = [inbox EXCEPT ![k] = Append(@, m)]

\* publishPushEvent and the consumer of group events publish; NATS delivers at
\* most once.
PublishPush ==
  /\ published < Len(Kinds)
  /\ published' = published + 1
  /\ Enqueue(published + 1) \/ UNCHANGED inbox
  /\ UNCHANGED <<connVars, managerVars, offline, records>>

\* SendToUser counts the clients in the map, whether or not they took it.  With
\* none, the push goes to the offline consumer; that it could not be published
\* is only logged.
Handle(k, i) ==
  LET m == inbox[k][i]
      known == {clients[k][d] : d \in Devices} \ {None}
  IN /\ Send(known, m)
     /\ offline' \in IF known = {} THEN {offline, Append(offline, m)} ELSE {offline}
     /\ inbox' = [inbox EXCEPT ![k] = SubSeq(@, 1, i - 1) \o SubSeq(@, i + 1, Len(@))]
     /\ UNCHANGED <<home, socket, reader, writer, closed, received, managerVars,
                    published, records>>

\* Mutant: every push is handled in a goroutine of its own.
HandlePushAnyOrder(k) == \E i \in DOMAIN inbox[k] : Handle(k, i)

\* The subscription's callback, one push after the other
HandlePush(k) == inbox[k] # <<>> /\ Handle(k, 1)

\* OfflinePushConsumer: envelopes of type "message" go to the provider, which
\* records success or failure; a failure is only logged.
OfflinePush ==
  /\ offline # <<>>
  /\ offline' = Tail(offline)
  /\ IF Kinds[Head(offline)] = "message"
     THEN \E status \in {"success", "failed"} :
            records' = Append(records, [msg |-> Head(offline), status |-> status])
     ELSE UNCHANGED records
  /\ UNCHANGED <<connVars, managerVars, published, inbox>>

Pumps(c) == ReadPumpEnds(c) \/ WritePump(c) \/ WritePumpEnds(c)

Next ==
  \/ \E c \in Conns, k \in Connectors : Connect(c, k)
  \/ \E c \in Conns : Lose(c) \/ HandlePing(c) \/ Pumps(c)
  \/ \E k \in Connectors : RunRegister(k) \/ RunUnregister(k) \/ HandlePush(k)
  \/ PublishPush \/ OfflinePush

\* The goroutines of the connectors run, and Go's select is fair: a channel
\* that stays ready is chosen in the end.  Nothing makes devices connect.
Fairness ==
  /\ \A c \in Conns :
       WF_vars(ReadPumpEnds(c)) /\ WF_vars(WritePump(c)) /\ WF_vars(WritePumpEnds(c))
  /\ \A k \in Connectors :
       WF_vars(RunRegister(k)) /\ WF_vars(RunUnregister(k)) /\ WF_vars(HandlePush(k))
  /\ WF_vars(OfflinePush)

Spec == Init /\ [][Next]_vars /\ Fairness

---------------------------------------------------------------------------
Pushes == 1..Len(Kinds)

\* Connections, channels and the map have the shape the program gives them.
TypeOK ==
  /\ home \in [Conns -> Connectors \union {None}]
  /\ socket \in [Conns -> {"new", "open", "lost"}]
  /\ reader \in [Conns -> {"new", "running", "done"}]
  /\ writer \in [Conns -> {"new", "running", "done"}]
  /\ closed \in [Conns -> BOOLEAN]
  /\ buffer \in [Conns -> Seq(Pushes \union {Pong})]
  /\ \A c \in Conns : Len(buffer[c]) <= Capacity
  /\ clients \in [Connectors -> [Devices -> Conns \union {None}]]
  /\ latest \in [Connectors -> [Devices -> Conns \union {None}]]
  /\ register \in [Connectors -> Seq(Conns)] /\ unregister \in [Connectors -> Seq(Conns)]
  /\ inbox \in [Connectors -> Seq(Pushes)] /\ offline \in Seq(Pushes)
  /\ published \in 0..Len(Kinds) /\ overtaken \subseteq Conns
  /\ received \in [Conns -> Seq(Pushes)]
  /\ records \in Seq([msg : Pushes, status : {"success", "failed"}])

\* A device that reconnects stays reachable when the end of its old connection
\* is noticed late: as long as the newest connection reads, the map holds it.
NewestReachable ==
  \A k \in Connectors, d \in Devices :
    LET c == latest[k][d] IN
    c # None /\ c \notin overtaken /\ reader[c] = "running" => clients[k][d] = c

\* A connection that is closed stays in the map, and counts as online, only
\* when run took its end from unregister before its beginning from register.
ClosedOnlyIfOvertaken ==
  \A k \in Connectors, d \in Devices :
    LET c == clients[k][d] IN c # None /\ closed[c] => c \in overtaken

\* A device receives pushes in the order of their publication, each once,
\* whichever connectors serve them and however often it loses some.
ReceivedInOrder ==
  \A c \in Conns : \A i, j \in DOMAIN received[c] :
    i < j => received[c][i] < received[c][j]

\* A push that reached a device is not sent as an offline push as well: one
\* connector alone decides.
OnlineOrOffline ==
  \A c \in Conns : \A i \in DOMAIN received[c] :
    /\ \A j \in DOMAIN offline : offline[j] # received[c][i]
    /\ \A j \in DOMAIN records : records[j].msg # received[c][i]

\* The goroutines and the channel of a lost connection are given back.
LostIsReleased ==
  \A c \in Conns :
    socket[c] = "lost" ~> reader[c] = "done" /\ writer[c] = "done" /\ closed[c]
=============================================================================
