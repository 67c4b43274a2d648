-------------------------- MODULE Connector_proofs --------------------------
(***************************************************************************)
(* Proofs about Connector, for any number of connectors, connections and   *)
(* devices: the map of a connector against the ends of connections that    *)
(* run notices late.                                                       *)
(***************************************************************************)
EXTENDS Connector, TLAPS

\* A channel's content after a send and after a receive.
LEMMA Sent ==
  ASSUME NEW S, NEW s \in Seq(S), NEW x \in S
  PROVE  /\ Append(s, x) \in Seq(S)
         /\ \A i \in DOMAIN Append(s, x) :
              Append(s, x)[i] = x \/ (i \in DOMAIN s /\ Append(s, x)[i] = s[i])
  OBVIOUS

LEMMA Taken ==
  ASSUME NEW S, NEW s \in Seq(S), s # <<>>
  PROVE  /\ Head(s) \in S /\ Tail(s) \in Seq(S) /\ Head(s) = s[1] /\ 1 \in DOMAIN s
         /\ Len(Tail(s)) <= Len(s)
         /\ \A i \in DOMAIN Tail(s) : i + 1 \in DOMAIN s /\ Tail(s)[i] = s[i + 1]
  OBVIOUS

LEMMA Removed ==
  ASSUME NEW S, NEW s \in Seq(S), NEW i \in DOMAIN s
  PROVE  SubSeq(s, 1, i - 1) \o SubSeq(s, i + 1, Len(s)) \in Seq(S)
  OBVIOUS

---------------------------------------------------------------------------
\* Type correctness

LEMMA TypesStart == Init => TypeOK
  BY ConnectorAssumption DEF Init, TypeOK, Pushes

\* What Send leaves in the buffers.
LEMMA SendTypes ==
  ASSUME TypeOK, NEW S, NEW data \in Pushes \union {Pong}, Send(S, data)
  PROVE  /\ buffer' \in [Conns -> Seq(Pushes \union {Pong})]
         /\ \A c \in Conns : Len(buffer'[c]) <= Capacity
<1>1. \A c \in Conns : buffer[c] \in Seq(Pushes \union {Pong}) /\ Len(buffer[c]) <= Capacity
  BY DEF TypeOK
<1>2. \A c \in Conns : Append(buffer[c], data) \in Seq(Pushes \union {Pong})
                       /\ Len(Append(buffer[c], data)) = Len(buffer[c]) + 1
  BY <1>1
<1>3. \A c \in Conns : buffer'[c] \in Seq(Pushes \union {Pong}) /\ Len(buffer'[c]) <= Capacity
  <2> TAKE c \in Conns
  <2>1. CASE c \in S /\ ~closed[c] /\ Len(buffer[c]) < Capacity
    BY <1>1, <1>2, <2>1, ConnectorAssumption DEF Send
  <2>2. CASE ~(c \in S /\ ~closed[c] /\ Len(buffer[c]) < Capacity)
    BY <1>1, <2>2 DEF Send
  <2> QED BY <2>1, <2>2
<1> QED BY <1>3 DEF Send

LEMMA TypesStep ==
  ASSUME TypeOK, [Next]_vars
  PROVE  TypeOK'
<1> USE ConnectorAssumption DEF connVars, managerVars, pushVars
<1>0. Pushes' = Pushes /\ \A i \in Pushes : i \in Nat
  BY DEF Pushes
<1>1. CASE UNCHANGED vars
  BY <1>1 DEF TypeOK, vars, Pushes
<1>2. ASSUME NEW c \in Conns, NEW k \in Connectors, Connect(c, k) PROVE TypeOK'
  <2>1. register' \in [Connectors -> Seq(Conns)]
    BY <1>2 DEF Connect, TypeOK
  <2> QED BY <1>2, <2>1 DEF Connect, TypeOK, Pushes
<1>3. ASSUME NEW c \in Conns, Lose(c) PROVE TypeOK'
  BY <1>3 DEF Lose, TypeOK, Pushes
<1>4. ASSUME NEW c \in Conns, HandlePing(c) PROVE TypeOK'
  <2>1. /\ buffer' \in [Conns -> Seq(Pushes \union {Pong})]
        /\ \A x \in Conns : Len(buffer'[x]) <= Capacity
    BY <1>4, SendTypes DEF HandlePing
  <2> QED BY <1>4, <2>1 DEF HandlePing, TypeOK, Pushes
<1>5. ASSUME NEW c \in Conns, ReadPumpEnds(c) PROVE TypeOK'
  <2>1. unregister' \in [Connectors -> Seq(Conns)]
    <3>1. \A k \in Connectors : unregister'[k] = unregister[k]
                                  \/ unregister'[k] = Append(unregister[k], c)
      BY <1>5 DEF ReadPumpEnds, TypeOK
    <3>2. \A k \in Connectors : /\ unregister[k] \in Seq(Conns)
                                /\ Append(unregister[k], c) \in Seq(Conns)
      BY Sent DEF TypeOK
    <3>3. \A k \in Connectors : unregister'[k] \in Seq(Conns)
      BY <3>1, <3>2, Zenon
    <3>4. unregister' = [k \in Connectors |-> unregister'[k]]
      BY <1>5 DEF ReadPumpEnds, TypeOK
    <3> QED BY <3>3, <3>4
  <2> QED BY <1>5, <2>1 DEF ReadPumpEnds, TypeOK, Pushes
<1>6. ASSUME NEW c \in Conns, WritePump(c) PROVE TypeOK'
  <2>1. /\ Tail(buffer[c]) \in Seq(Pushes \union {Pong})
        /\ Len(Tail(buffer[c])) <= Capacity
        /\ Head(buffer[c]) \in Pushes \union {Pong}
    BY <1>6, Taken DEF WritePump, TypeOK
  <2>2. /\ buffer' \in [Conns -> Seq(Pushes \union {Pong})]
        /\ \A x \in Conns : Len(buffer'[x]) <= Capacity
    <3>1. buffer' = [buffer EXCEPT ![c] = Tail(buffer[c])]
      BY <1>6 DEF WritePump
    <3>2. \A x \in Conns : buffer'[x] = (IF x = c THEN Tail(buffer[c]) ELSE buffer[x])
      BY <3>1 DEF TypeOK
    <3> QED BY <2>1, <3>1, <3>2 DEF TypeOK
  <2>3. received' \in [Conns -> Seq(Pushes)]
    BY <1>6, <2>1 DEF WritePump, TypeOK
  <2> QED BY <1>6, <2>2, <2>3 DEF WritePump, TypeOK, Pushes
<1>7. ASSUME NEW c \in Conns, WritePumpEnds(c) PROVE TypeOK'
  BY <1>7 DEF WritePumpEnds, TypeOK, Pushes
<1>8. ASSUME NEW k \in Connectors, RunRegister(k) PROVE TypeOK'
  <2>1. Head(register[k]) \in Conns /\ Tail(register[k]) \in Seq(Conns)
    BY <1>8, Taken DEF RunRegister, TypeOK
  <2>2. clients' \in [Connectors -> [Devices -> Conns \union {None}]]
    BY <1>8, <2>1 DEF RunRegister, TypeOK
  <2>3. latest' \in [Connectors -> [Devices -> Conns \union {None}]]
    BY <1>8, <2>1 DEF RunRegister, TypeOK
  <2>4. register' \in [Connectors -> Seq(Conns)]
    BY <1>8, <2>1 DEF RunRegister, TypeOK
  <2> QED BY <1>8, <2>2, <2>3, <2>4 DEF RunRegister, TypeOK, Pushes
<1>9. ASSUME NEW k \in Connectors, RunUnregister(k) PROVE TypeOK'
  <2>1. Ended(k) \in Conns /\ Tail(unregister[k]) \in Seq(Conns)
    BY <1>9, Taken DEF RunUnregister, TypeOK, Ended
  <2>2. Entry(k) \in Conns \union {None}
    BY <2>1 DEF Entry, TypeOK
  <2>3. clients' \in [Connectors -> [Devices -> Conns \union {None}]]
    BY <1>9, <2>1, <2>2 DEF RunUnregister, Unregister, TypeOK
  <2>4. unregister' \in [Connectors -> Seq(Conns)] /\ overtaken' \subseteq Conns
    BY <1>9, <2>1 DEF RunUnregister, Unregister, TypeOK
  <2> QED BY <1>9, <2>1, <2>3, <2>4 DEF RunUnregister, Unregister, TypeOK, Pushes
<1>10. ASSUME NEW k \in Connectors, HandlePush(k) PROVE TypeOK'
  <2>1. 1 \in DOMAIN inbox[k] /\ inbox[k][1] \in Pushes
    BY <1>10 DEF HandlePush, TypeOK
  <2>2. SubSeq(inbox[k], 1, 1 - 1) \o SubSeq(inbox[k], 1 + 1, Len(inbox[k])) \in Seq(Pushes)
    BY <2>1, Removed DEF TypeOK
  <2>3. inbox' \in [Connectors -> Seq(Pushes)]
    BY <1>10, <2>2 DEF HandlePush, Handle, TypeOK
  <2>4. /\ buffer' \in [Conns -> Seq(Pushes \union {Pong})]
        /\ \A x \in Conns : Len(buffer'[x]) <= Capacity
    BY <1>10, <2>1, SendTypes DEF HandlePush, Handle
  <2>5. offline' \in Seq(Pushes)
    <3>1. offline' = offline \/ offline' = Append(offline, inbox[k][1])
      BY <1>10 DEF HandlePush, Handle
    <3>2. offline \in Seq(Pushes)
      BY DEF TypeOK
    <3>3. Append(offline, inbox[k][1]) \in Seq(Pushes)
      BY <2>1, <3>2
    <3> QED BY <3>1, <3>2, <3>3
  <2> QED BY <1>10, <2>3, <2>4, <2>5 DEF HandlePush, Handle, TypeOK, Pushes
<1>11. ASSUME PublishPush PROVE TypeOK'
  <2>1. Len(Kinds) \in Nat
    BY DEF TypeOK
  <2>2. published + 1 \in Pushes /\ published' \in 0..Len(Kinds)
    BY <1>11, <2>1 DEF PublishPush, TypeOK, Pushes
  <2>3. inbox' \in [Connectors -> Seq(Pushes)]
    <3>1. CASE Enqueue(published + 1)
      BY <2>2, <3>1 DEF Enqueue, TypeOK
    <3>2. CASE UNCHANGED inbox
      BY <3>2 DEF TypeOK
    <3> QED BY <1>11, <3>1, <3>2 DEF PublishPush
  <2> QED BY <1>11, <2>2, <2>3 DEF PublishPush, TypeOK, Pushes
<1>12. ASSUME OfflinePush PROVE TypeOK'
  <2>1. Head(offline) \in Pushes /\ Tail(offline) \in Seq(Pushes)
    BY <1>12, Taken DEF OfflinePush, TypeOK
  <2>2. records' \in Seq([msg : Pushes, status : {"success", "failed"}])
    <3> DEFINE R == [msg : Pushes, status : {"success", "failed"}]
    <3>1. \A status \in {"success", "failed"} : [msg |-> Head(offline), status |-> status] \in R
      BY <2>1
    <3>2. records \in Seq(R)
      BY DEF TypeOK
    <3>3. records' = records \/ \E x \in R : records' = Append(records, x)
      BY <1>12, <3>1 DEF OfflinePush
    <3> HIDE DEF R
    <3>4. records' \in Seq(R)
      BY <3>2, <3>3
    <3> QED BY <3>4 DEF R
  <2> QED BY <1>12, <2>1, <2>2 DEF OfflinePush, TypeOK, Pushes
<1> QED
  BY <1>1, <1>2, <1>3, <1>4, <1>5, <1>6, <1>7, <1>8, <1>9, <1>10, <1>11, <1>12 DEF Next, Pumps

\* Every reachable state has the declared types, and no channel holds more
\* than its capacity.
THEOREM ConnectorTypeCorrect == Spec => []TypeOK
<1>1. TypeOK /\ [Next]_vars => TypeOK'  BY TypesStep
<1> QED BY <1>1, TypesStart, PTL DEF Spec

---------------------------------------------------------------------------
\* What the map of a connector rests on: connections on their way into it,
\* in it, and on their way out of it.

Registering ==
  \A k \in Connectors : \A i \in DOMAIN register[k] :
    LET c == register[k][i] IN
    home[c] = k /\ socket[c] # "new" /\ (closed[c] => c \in overtaken)

Held ==
  \A k \in Connectors, d \in Devices :
    LET c == clients[k][d] IN
    c # None => home[c] = k /\ DeviceOf[c] = d /\ socket[c] # "new"

Ending ==
  \A k \in Connectors : \A i \in DOMAIN unregister[k] :
    LET c == unregister[k][i] IN
    home[c] = k /\ socket[c] # "new" /\ reader[c] = "done"

Placed ==
  /\ \A k \in Connectors, d \in Devices :
       latest[k][d] # None => socket[latest[k][d]] # "new"
  /\ \A c \in Conns : reader[c] # "new" \/ closed[c] => socket[c] # "new"
  /\ \A c \in Conns : socket[c] # "new" => home[c] \in Connectors

MapInv ==
  /\ Registering /\ Held /\ Ending /\ Placed
  /\ NewestReachable /\ ClosedOnlyIfOvertaken

LEMMA MapStart == Init => MapInv
  BY ConnectorAssumption DEF Init, MapInv, Registering, Held, Ending, Placed, NewestReachable,
     ClosedOnlyIfOvertaken

\* The connections the channels and the map hold are connections.
LEMMA InChannels ==
  ASSUME TypeOK
  PROVE  /\ \A k \in Connectors : \A i \in DOMAIN register[k] : register[k][i] \in Conns
         /\ \A k \in Connectors : \A i \in DOMAIN unregister[k] : unregister[k][i] \in Conns
         /\ \A k \in Connectors, d \in Devices :
              clients[k][d] \in Conns \union {None} /\ latest[k][d] \in Conns \union {None}
  BY DEF TypeOK

\* Steps that leave the channels of the manager and its map alone, and where
\* no connection begins.
LEMMA MapQuiet ==
  ASSUME TypeOK, MapInv, UNCHANGED <<home, closed, reader, managerVars>>,
         \A c \in Conns : socket'[c] = "new" <=> socket[c] = "new"
  PROVE  MapInv'
<1> USE InChannels DEF MapInv, managerVars
<1>1. Registering' /\ Held'
  BY DEF Registering, Held
<1>2. Ending' /\ Placed'
  BY DEF Ending, Placed
<1>3. NewestReachable' /\ ClosedOnlyIfOvertaken'
  BY DEF NewestReachable, ClosedOnlyIfOvertaken
<1> QED BY <1>1, <1>2, <1>3

LEMMA MapConnect ==
  ASSUME TypeOK, MapInv, NEW c \in Conns, NEW k \in Connectors, Connect(c, k)
  PROVE  MapInv'
<1> USE InChannels DEF MapInv
<1>1. /\ socket[c] = "new" /\ socket'[c] = "open" /\ home'[c] = k
      /\ \A x \in Conns : x # c => /\ home'[x] = home[x] /\ socket'[x] = socket[x]
                                  /\ reader'[x] = reader[x]
  BY DEF Connect, TypeOK
<1>2. /\ clients' = clients /\ unregister' = unregister /\ closed' = closed
      /\ latest' = latest /\ overtaken' = overtaken
  BY DEF Connect
<1>3. \A x \in Connectors : \A i \in DOMAIN register'[x] :
        \/ i \in DOMAIN register[x] /\ register'[x][i] = register[x][i]
        \/ x = k /\ register'[x][i] = c
  <2>1. /\ register'[k] = Append(register[k], c) /\ register[k] \in Seq(Conns)
        /\ \A x \in Connectors : x # k => register'[x] = register[x]
    BY DEF Connect, TypeOK
  <2>2. \A i \in DOMAIN register'[k] :
          register'[k][i] = c \/ (i \in DOMAIN register[k] /\ register'[k][i] = register[k][i])
    BY <2>1, Sent
  <2> QED BY <2>1, <2>2
<1>4. ~closed[c]
  BY <1>1 DEF Placed
<1>5. Registering'
  BY <1>1, <1>2, <1>3, <1>4 DEF Registering
<1>6. Held'
  BY <1>1, <1>2 DEF Held
<1>7. Ending'
  BY <1>1, <1>2 DEF Ending
<1>8. Placed'
  BY <1>1, <1>2 DEF Placed
<1>9. NewestReachable'
  BY <1>1, <1>2 DEF NewestReachable, Placed
<1>10. ClosedOnlyIfOvertaken'
  BY <1>2 DEF ClosedOnlyIfOvertaken
<1> QED BY <1>5, <1>6, <1>7, <1>8, <1>9, <1>10

LEMMA MapReadPumpEnds ==
  ASSUME TypeOK, MapInv, NEW c \in Conns, ReadPumpEnds(c)
  PROVE  MapInv'
<1> USE InChannels DEF MapInv
<1>1. /\ reader'[c] = "done" /\ reader[c] = "running" /\ socket[c] # "new"
      /\ \A x \in Conns : x # c => reader'[x] = reader[x]
      /\ home[c] \in Connectors
  BY DEF ReadPumpEnds, TypeOK, Placed
<1>2. /\ clients' = clients /\ register' = register /\ closed' = closed
      /\ latest' = latest /\ overtaken' = overtaken /\ home' = home /\ socket' = socket
  BY DEF ReadPumpEnds
<1>3. \A x \in Connectors : \A i \in DOMAIN unregister'[x] :
        \/ i \in DOMAIN unregister[x] /\ unregister'[x][i] = unregister[x][i]
        \/ x = home[c] /\ unregister'[x][i] = c
  <2> TAKE x \in Connectors
  <2>1. unregister[x] \in Seq(Conns)
    BY DEF TypeOK
  <2>2. CASE x = home[c]
    <3>1. unregister'[x] = Append(unregister[x], c)
      BY <2>2 DEF ReadPumpEnds, TypeOK
    <3> QED BY <2>1, <2>2, <3>1, Sent
  <2>3. CASE x # home[c]
    BY <2>3 DEF ReadPumpEnds, TypeOK
  <2> QED BY <2>2, <2>3
<1>4. Registering' /\ Held'
  BY <1>2 DEF Registering, Held
<1>5. Ending'
  BY <1>1, <1>2, <1>3 DEF Ending
<1>6. Placed'
  BY <1>1, <1>2 DEF Placed
<1>7. NewestReachable'
  BY <1>1, <1>2 DEF NewestReachable
<1>8. ClosedOnlyIfOvertaken'
  BY <1>2 DEF ClosedOnlyIfOvertaken
<1> QED BY <1>4, <1>5, <1>6, <1>7, <1>8

\* The connection that enters the map is the newest of its device.
LEMMA MapRegister ==
  ASSUME TypeOK, MapInv, NEW k \in Connectors, RunRegister(k)
  PROVE  MapInv'
<1> USE InChannels, ConnectorAssumption DEF MapInv
<1> DEFINE c == Head(register[k])
           device == DeviceOf[c]
<1>1. /\ c \in Conns /\ c = register[k][1] /\ 1 \in DOMAIN register[k] /\ device \in Devices
  BY Taken DEF RunRegister, TypeOK
<1>2. home[c] = k /\ socket[c] # "new" /\ (closed[c] => c \in overtaken)
  BY <1>1 DEF Registering
<1>3. \A x \in Connectors, d \in Devices :
        /\ clients'[x][d] = IF x = k /\ d = device THEN c ELSE clients[x][d]
        /\ latest'[x][d] = IF x = k /\ d = device THEN c ELSE latest[x][d]
  BY <1>1 DEF RunRegister, TypeOK
<1>4. \A x \in Connectors : \A i \in DOMAIN register'[x] :
        \E j \in DOMAIN register[x] : register'[x][i] = register[x][j]
  BY Taken DEF RunRegister, TypeOK
<1>5. /\ unregister' = unregister /\ closed' = closed /\ overtaken' = overtaken
      /\ home' = home /\ socket' = socket /\ reader' = reader
  BY DEF RunRegister, connVars
<1> HIDE DEF c
<1>6. Registering'
  BY <1>4, <1>5 DEF Registering
<1>7. Held'
  BY <1>2, <1>3, <1>5 DEF Held
<1>8. Ending'
  BY <1>5 DEF Ending
<1>9. Placed'
  BY <1>2, <1>3, <1>5 DEF Placed
<1>10. NewestReachable'
  BY <1>3, <1>5 DEF NewestReachable
<1>11. ClosedOnlyIfOvertaken'
  BY <1>2, <1>3, <1>5 DEF ClosedOnlyIfOvertaken
<1> QED BY <1>6, <1>7, <1>8, <1>9, <1>10, <1>11

\* The connection that ends leaves the map if it is in it, and only then: its
\* device may have another by now.
LEMMA MapUnregister ==
  ASSUME TypeOK, MapInv, NEW k \in Connectors, RunUnregister(k)
  PROVE  MapInv'
<1> USE InChannels, ConnectorAssumption DEF MapInv
<1> DEFINE c == Ended(k)
           device == DeviceOf[c]
<1>1. /\ c \in Conns /\ c = unregister[k][1] /\ 1 \in DOMAIN unregister[k] /\ device \in Devices
  BY Taken DEF RunUnregister, TypeOK, Ended
<1>2. home[c] = k /\ socket[c] # "new" /\ reader[c] = "done"
  BY <1>1 DEF Ending
<1>3. \A x \in Connectors, d \in Devices :
        clients'[x][d] = IF x = k /\ d = device /\ clients[x][d] = c THEN None ELSE clients[x][d]
  BY <1>1 DEF RunUnregister, Unregister, Entry, TypeOK
<1>4. \A x \in Connectors : \A i \in DOMAIN unregister'[x] :
        \E j \in DOMAIN unregister[x] : unregister'[x][i] = unregister[x][j]
  BY Taken DEF RunUnregister, Unregister, TypeOK
<1>5. /\ register' = register /\ latest' = latest
      /\ home' = home /\ socket' = socket /\ reader' = reader
  BY DEF RunUnregister, Unregister
<1>6. closed'[c] = TRUE /\ \A x \in Conns : x # c => closed'[x] = closed[x]
  BY <1>1 DEF RunUnregister, Unregister, TypeOK
<1>7. overtaken \subseteq overtaken'
      /\ ((\E i \in DOMAIN register[k] : register[k][i] = c) => c \in overtaken')
  BY DEF RunUnregister, Unregister
<1> HIDE DEF c
<1>8. Registering'
  BY <1>2, <1>5, <1>6, <1>7 DEF Registering
<1>9. Held'
  BY <1>3, <1>5 DEF Held
<1>10. Ending'
  BY <1>4, <1>5 DEF Ending
<1>11. Placed'
  BY <1>1, <1>2, <1>5, <1>6 DEF Placed
<1>12. NewestReachable'
  BY <1>2, <1>3, <1>5, <1>7 DEF NewestReachable
<1>13. ClosedOnlyIfOvertaken'
  <2> SUFFICES ASSUME NEW x \in Connectors, NEW d \in Devices,
                      clients'[x][d] # None, closed'[clients'[x][d]]
               PROVE  clients'[x][d] \in overtaken'
    BY DEF ClosedOnlyIfOvertaken
  <2>1. clients'[x][d] = clients[x][d] /\ clients[x][d] \in Conns
    BY <1>3
  <2>2. CASE clients[x][d] = c
    <3>1. x = k /\ d = device
      BY <1>2, <2>1, <2>2 DEF Held
    <3> QED BY <1>3, <2>1, <2>2, <3>1
  <2>3. CASE clients[x][d] # c
    BY <1>6, <1>7, <2>1, <2>3 DEF ClosedOnlyIfOvertaken
  <2> QED BY <2>2, <2>3
<1> QED BY <1>8, <1>9, <1>10, <1>11, <1>12, <1>13

LEMMA MapStep ==
  ASSUME TypeOK, MapInv, [Next]_vars
  PROVE  MapInv'
<1>1. ASSUME UNCHANGED vars PROVE MapInv'
  BY <1>1, MapQuiet DEF vars, connVars
<1>2. ASSUME NEW c \in Conns, NEW k \in Connectors, Connect(c, k) PROVE MapInv'
  BY <1>2, MapConnect
<1>3. ASSUME NEW c \in Conns, Lose(c) PROVE MapInv'
  <2>1. \A x \in Conns : socket'[x] = "new" <=> socket[x] = "new"
    BY <1>3 DEF Lose, TypeOK
  <2> QED BY <1>3, <2>1, MapQuiet DEF Lose
<1>4. ASSUME NEW c \in Conns, HandlePing(c) PROVE MapInv'
  BY <1>4, MapQuiet DEF HandlePing
<1>5. ASSUME NEW c \in Conns, ReadPumpEnds(c) PROVE MapInv'
  BY <1>5, MapReadPumpEnds
<1>6. ASSUME NEW c \in Conns, WritePump(c) PROVE MapInv'
  BY <1>6, MapQuiet DEF WritePump
<1>7. ASSUME NEW c \in Conns, WritePumpEnds(c) PROVE MapInv'
  <2>1. socket[c] # "new"
    BY <1>7 DEF WritePumpEnds, MapInv, Placed
  <2>2. \A x \in Conns : socket'[x] = "new" <=> socket[x] = "new"
    BY <1>7, <2>1 DEF WritePumpEnds, TypeOK
  <2> QED BY <1>7, <2>2, MapQuiet DEF WritePumpEnds
<1>8. ASSUME NEW k \in Connectors, RunRegister(k) PROVE MapInv'
  BY <1>8, MapRegister
<1>9. ASSUME NEW k \in Connectors, RunUnregister(k) PROVE MapInv'
  BY <1>9, MapUnregister
<1>10. ASSUME NEW k \in Connectors, HandlePush(k) PROVE MapInv'
  BY <1>10, MapQuiet DEF HandlePush, Handle
<1>11. ASSUME PublishPush \/ OfflinePush PROVE MapInv'
  BY <1>11, MapQuiet DEF PublishPush, OfflinePush, connVars
<1>12. ASSUME Next PROVE MapInv'
  BY <1>2, <1>3, <1>4, <1>5, <1>6, <1>7, <1>8, <1>9, <1>10, <1>11, <1>12 DEF Next, Pumps
<1> QED BY <1>1, <1>12

\* Every reachable state satisfies the inductive invariant.
THEOREM MapInvariant == Spec => [](TypeOK /\ MapInv)
<1>1. Init => TypeOK /\ MapInv  BY TypesStart, MapStart
<1>2. TypeOK /\ MapInv /\ [Next]_vars => (TypeOK /\ MapInv)'  BY TypesStep, MapStep
<1> QED BY <1>1, <1>2, PTL DEF Spec

\* The late end of an old connection never takes the newest one of the device
\* out of the map.
THEOREM NewestStaysReachable == Spec => []NewestReachable
<1>1. MapInv => NewestReachable  BY DEF MapInv
<1> QED BY <1>1, MapInvariant, PTL

\* A closed connection is still in the map only if run took its end before
\* its beginning.
THEOREM GhostsAreOvertaken == Spec => []ClosedOnlyIfOvertaken
<1>1. MapInv => ClosedOnlyIfOvertaken  BY DEF MapInv
<1> QED BY <1>1, MapInvariant, PTL
---------------------------------------------------------------------------
\* Where a push is: in the queue of one connector, with connections of the
\* user, or on its way to the provider.

InSeq(m, s) == \E i \in DOMAIN s : s[i] = m

Waiting(m, k) == InSeq(m, inbox[k])
Online(m) == \E c \in Conns : InSeq(m, buffer[c]) \/ InSeq(m, received[c])
Offline(m) == InSeq(m, offline) \/ \E j \in DOMAIN records : records[j].msg = m

OnePlace(m) ==
  /\ \A k, l \in Connectors : Waiting(m, k) /\ Waiting(m, l) => k = l
  /\ \A k \in Connectors : Waiting(m, k) => ~Online(m) /\ ~Offline(m)
  /\ ~(Online(m) /\ Offline(m))
  /\ (\E k \in Connectors : Waiting(m, k)) \/ Online(m) \/ Offline(m) => m <= published

PlacesInv == \A m \in Pushes : OnePlace(m)

\* The pushes of one connection, from those it has received over those in its
\* buffer to those its connector has still to handle, are in ascending order.
Ascending(s) == \A i, j \in DOMAIN s : i < j => s[i] < s[j]
AscendingPushes(s) == \A i, j \in DOMAIN s : i < j /\ s[i] # Pong /\ s[j] # Pong => s[i] < s[j]
Precedes(s, t) ==
  \A i \in DOMAIN s, j \in DOMAIN t : s[i] # Pong /\ t[j] # Pong => s[i] < t[j]

QueuesInv == \A k \in Connectors : Ascending(inbox[k])

OrderOf(c) ==
  /\ Ascending(received[c]) /\ AscendingPushes(buffer[c])
  /\ Precedes(received[c], buffer[c])
  /\ home[c] \in Connectors =>
       Precedes(received[c], inbox[home[c]]) /\ Precedes(buffer[c], inbox[home[c]])
  /\ socket[c] = "new" => received[c] = <<>> /\ buffer[c] = <<>> /\ home[c] = None

OrderInv == \A c \in Conns : OrderOf(c)

PushInv == PlacesInv /\ QueuesInv /\ OrderInv

LEMMA PushStart == Init => PushInv
  BY DEF Init, PushInv, PlacesInv, OnePlace, Waiting, Online, Offline, InSeq, QueuesInv,
         OrderInv, OrderOf, Ascending, AscendingPushes, Precedes

\* What a sequence holds after a send and after a receive.
LEMMA InTail ==
  ASSUME NEW S, NEW s \in Seq(S), s # <<>>, NEW m
  PROVE  InSeq(m, Tail(s)) => InSeq(m, s)
  BY Taken DEF InSeq

LEMMA FirstRemoved ==
  ASSUME NEW S, NEW s \in Seq(S), s # <<>>
  PROVE  SubSeq(s, 1, 1 - 1) \o SubSeq(s, 1 + 1, Len(s)) = Tail(s)
  OBVIOUS

\* How the order of a sequence survives a send of something later and a receive.
LEMMA LastIsGreatest ==
  ASSUME NEW s \in Seq(Pushes \union {Pong}), NEW x \in Nat,
         \A i \in DOMAIN s : s[i] # Pong => s[i] < x
  PROVE  /\ AscendingPushes(s) => AscendingPushes(Append(s, x))
         /\ s \in Seq(Pushes) /\ Ascending(s) => Ascending(Append(s, x))
<1>1. \A i \in DOMAIN s : s[i] \in Nat
  BY DEF Pushes, Pong
<1>2. \A i, j \in DOMAIN Append(s, x) : i < j =>
        /\ i \in DOMAIN s /\ Append(s, x)[i] = s[i]
        /\ (j \in DOMAIN s /\ Append(s, x)[j] = s[j]) \/ Append(s, x)[j] = x
  OBVIOUS
<1>3. AscendingPushes(s) => AscendingPushes(Append(s, x))
  BY <1>2 DEF AscendingPushes
<1>4. ASSUME s \in Seq(Pushes) PROVE \A i \in DOMAIN s : s[i] # Pong
  BY <1>4 DEF Pushes, Pong
<1>5. s \in Seq(Pushes) /\ Ascending(s) => Ascending(Append(s, x))
  BY <1>2, <1>4 DEF Ascending
<1> QED BY <1>3, <1>5

LEMMA TailAscends ==
  ASSUME NEW S, NEW s \in Seq(S), s # <<>>
  PROVE  /\ Ascending(s) => /\ Ascending(Tail(s))
                             /\ \A i \in DOMAIN Tail(s) : Head(s) < Tail(s)[i]
         /\ AscendingPushes(s) =>
              /\ AscendingPushes(Tail(s))
              /\ \A i \in DOMAIN Tail(s) :
                   Head(s) # Pong /\ Tail(s)[i] # Pong => Head(s) < Tail(s)[i]
<1>1. /\ Head(s) = s[1] /\ 1 \in DOMAIN s
      /\ \A i \in DOMAIN Tail(s) : i \in Nat /\ 1 < i + 1 /\ i + 1 \in DOMAIN s /\ Tail(s)[i] = s[i + 1]
  OBVIOUS
<1>2. \A i, j \in DOMAIN Tail(s) : i < j => i + 1 < j + 1
  BY <1>1
<1>3. Ascending(s) => /\ Ascending(Tail(s))
                      /\ \A i \in DOMAIN Tail(s) : Head(s) < Tail(s)[i]
  BY <1>1, <1>2 DEF Ascending
<1>4. AscendingPushes(s) =>
              /\ AscendingPushes(Tail(s))
              /\ \A i \in DOMAIN Tail(s) :
                   Head(s) # Pong /\ Tail(s)[i] # Pong => Head(s) < Tail(s)[i]
  BY <1>1, <1>2 DEF AscendingPushes
<1> QED BY <1>3, <1>4

LEMMA PrecedesTail ==
  ASSUME NEW S, NEW s \in Seq(S), NEW T, NEW t \in Seq(T), Precedes(s, t)
  PROVE  /\ s # <<>> => Precedes(Tail(s), t)
         /\ t # <<>> => Precedes(s, Tail(t))
  BY Taken DEF Precedes

LEMMA PrecedesAppend ==
  ASSUME NEW S, NEW s \in Seq(S), NEW T, NEW t \in Seq(T), NEW x, x \in S \/ x \in T,
         Precedes(s, t)
  PROVE  /\ x \in S /\ (\A j \in DOMAIN t : x # Pong /\ t[j] # Pong => x < t[j])
              => Precedes(Append(s, x), t)
         /\ x \in T /\ (\A i \in DOMAIN s : x # Pong /\ s[i] # Pong => s[i] < x)
              => Precedes(s, Append(t, x))
<1>1. ASSUME x \in S, \A j \in DOMAIN t : x # Pong /\ t[j] # Pong => x < t[j]
      PROVE  Precedes(Append(s, x), t)
  BY <1>1, Sent DEF Precedes
<1>2. ASSUME x \in T, \A i \in DOMAIN s : x # Pong /\ s[i] # Pong => s[i] < x
      PROVE  Precedes(s, Append(t, x))
  BY <1>2, Sent DEF Precedes
<1> QED BY <1>1, <1>2

LEMMA PongAppended ==
  ASSUME NEW s \in Seq(Pushes \union {Pong})
  PROVE  AscendingPushes(s) => AscendingPushes(Append(s, Pong))
  BY DEF AscendingPushes

\* Steps after which a push is nowhere it was not before.
LEMMA PlacesQuiet ==
  ASSUME TypeOK, PlacesInv, published' = published,
         \A m \in Pushes : /\ \A k \in Connectors : Waiting(m, k)' => Waiting(m, k)
                           /\ Online(m)' => Online(m)
                           /\ Offline(m)' => Offline(m)
  PROVE  PlacesInv'
<1>1. Pushes' = Pushes
  BY DEF Pushes
<1>2. ASSUME NEW m \in Pushes PROVE OnePlace(m)'
  <2>1. OnePlace(m)
    BY DEF PlacesInv
  <2> QED BY <2>1 DEF OnePlace
<1> QED BY <1>1, <1>2 DEF PlacesInv

\* A connection that sends and receives nothing keeps its order.
LEMMA OrderUntouched ==
  ASSUME NEW c \in Conns, OrderOf(c),
         received'[c] = received[c], buffer'[c] = buffer[c], home'[c] = home[c],
         home[c] \in Connectors => inbox'[home[c]] = inbox[home[c]],
         socket'[c] = "new" => socket[c] = "new"
  PROVE  OrderOf(c)'
  BY DEF OrderOf, Ascending, AscendingPushes, Precedes

\* Steps that touch no queue, no buffer and nothing received.
LEMMA PushQuiet ==
  ASSUME TypeOK, PushInv, UNCHANGED <<buffer, received, pushVars>>,
         \A c \in Conns : socket'[c] = "new" => socket[c] = "new",
         \A c \in Conns : \/ home'[c] = home[c]
                          \/ socket[c] = "new" /\ socket'[c] # "new"
  PROVE  PushInv'
<1>1. PlacesInv'
  BY PlacesQuiet DEF PushInv, Waiting, Online, Offline, pushVars
<1>2. QueuesInv'
  BY DEF PushInv, QueuesInv, pushVars
<1>3. ASSUME NEW c \in Conns PROVE OrderOf(c)'
  <2>1. OrderOf(c)
    BY DEF PushInv, OrderInv
  <2>2. CASE home'[c] = home[c]
    BY <2>1, <2>2, OrderUntouched DEF pushVars
  <2>3. CASE socket[c] = "new" /\ socket'[c] # "new"
    BY <2>1, <2>3 DEF OrderOf, Ascending, AscendingPushes, Precedes
  <2> QED BY <2>2, <2>3
<1> QED BY <1>1, <1>2, <1>3 DEF PushInv, OrderInv

LEMMA PushPing ==
  ASSUME TypeOK, PushInv, NEW c \in Conns, HandlePing(c)
  PROVE  PushInv'
<1>1. /\ \A x \in Conns : buffer'[x] = buffer[x] \/ buffer'[x] = Append(buffer[x], Pong)
      /\ UNCHANGED <<home, socket, received, published, inbox, offline, records>>
  BY DEF HandlePing, Send, pushVars
<1>2. \A x \in Conns : buffer[x] \in Seq(Pushes \union {Pong}) /\ received[x] \in Seq(Pushes)
  BY DEF TypeOK
<1>3. PlacesInv'
  <2>1. ASSUME NEW m \in Pushes, NEW x \in Conns, InSeq(m, buffer'[x])
        PROVE  InSeq(m, buffer[x])
    <3>1. m # Pong
      BY DEF Pushes, Pong
    <3>2. InSeq(m, Append(buffer[x], Pong)) => InSeq(m, buffer[x]) \/ m = Pong
      BY <1>2, Sent DEF InSeq
    <3> QED BY <1>1, <2>1, <3>1, <3>2
  <2>2. ASSUME NEW m \in Pushes PROVE Online(m)' => Online(m)
    BY <1>1, <2>1 DEF Online
  <2> QED BY <1>1, <2>2, PlacesQuiet DEF Waiting, Offline, PushInv
<1>4. QueuesInv'
  BY <1>1 DEF PushInv, QueuesInv
<1>5. ASSUME NEW x \in Conns PROVE OrderOf(x)'
  <2>1. OrderOf(x)
    BY DEF PushInv, OrderInv
  <2>2. CASE buffer'[x] = buffer[x]
    BY <1>1, <2>1, <2>2, OrderUntouched
  <2>3. CASE buffer'[x] = Append(buffer[x], Pong)
    <3>1. AscendingPushes(Append(buffer[x], Pong))
      BY <1>2, <2>1, PongAppended DEF OrderOf
    <3>2. Precedes(received[x], Append(buffer[x], Pong))
      BY <1>2, <2>1, Sent DEF OrderOf, Precedes
    <3>3. \A t : Precedes(buffer[x], t) => Precedes(Append(buffer[x], Pong), t)
      BY <1>2, Sent DEF Precedes
    <3>4. socket[x] # "new" \/ ~(x = c)
      BY DEF HandlePing
    <3>5. x = c
      BY <1>2, <2>3 DEF HandlePing, Send
    <3> QED BY <1>1, <2>1, <2>3, <3>1, <3>2, <3>3, <3>4, <3>5 DEF OrderOf
  <2> QED BY <1>1, <2>2, <2>3
<1> QED BY <1>3, <1>4, <1>5 DEF PushInv, OrderInv

\* What WritePump takes from the buffer is later than all that was received,
\* and earlier than all that is still to come.
LEMMA PushWritten ==
  ASSUME TypeOK, PushInv, NEW c \in Conns, WritePump(c)
  PROVE  PushInv'
<1> DEFINE m0 == Head(buffer[c])
<1>1. /\ buffer[c] # <<>> /\ buffer[c] \in Seq(Pushes \union {Pong})
      /\ received[c] \in Seq(Pushes) /\ OrderOf(c)
  BY DEF WritePump, TypeOK, PushInv, OrderInv
<1>2. /\ m0 = buffer[c][1] /\ 1 \in DOMAIN buffer[c] /\ m0 \in Pushes \union {Pong}
  BY <1>1, Taken
<1>3. /\ UNCHANGED <<home, socket, published, inbox, offline, records>>
      /\ \A x \in Conns : x # c => buffer'[x] = buffer[x] /\ received'[x] = received[x]
      /\ buffer'[c] = Tail(buffer[c])
      /\ \/ received'[c] = received[c]
         \/ m0 # Pong /\ received'[c] = Append(received[c], m0)
  BY DEF WritePump, TypeOK, pushVars
<1> HIDE DEF m0
<1>4. PlacesInv'
  <2>1. ASSUME NEW m \in Pushes, NEW x \in Conns,
               InSeq(m, buffer'[x]) \/ InSeq(m, received'[x])
        PROVE  InSeq(m, buffer[x]) \/ InSeq(m, received[x])
    <3>1. CASE x # c
      BY <1>3, <2>1, <3>1
    <3>2. CASE x = c
      <4>1. InSeq(m, buffer'[c]) => InSeq(m, buffer[c])
        BY <1>1, <1>3, InTail
      <4>2. InSeq(m, received'[c]) => InSeq(m, received[c]) \/ m = m0
        <5>1. CASE received'[c] = Append(received[c], m0) /\ m0 \in Pushes
          BY <1>1, <5>1, Sent DEF InSeq
        <5>2. CASE received'[c] = received[c]
          BY <5>2
        <5> QED BY <1>2, <1>3, <5>1, <5>2
      <4> QED BY <1>2, <2>1, <3>2, <4>1, <4>2 DEF InSeq
    <3> QED BY <3>1, <3>2
  <2>2. ASSUME NEW m \in Pushes PROVE Online(m)' => Online(m)
    BY <2>1 DEF Online
  <2> QED BY <1>3, <2>2, PlacesQuiet DEF Waiting, Offline, PushInv
<1>5. QueuesInv'
  BY <1>3 DEF PushInv, QueuesInv
<1>6. ASSUME NEW x \in Conns, x # c PROVE OrderOf(x)'
  BY <1>3, <1>6, OrderUntouched DEF PushInv, OrderInv
<1>7. OrderOf(c)'
  <2>1. AscendingPushes(Tail(buffer[c])) /\ Precedes(received[c], Tail(buffer[c]))
    BY <1>1, TailAscends, PrecedesTail DEF OrderOf
  <2>2. \A t : Precedes(buffer[c], t) => Precedes(Tail(buffer[c]), t)
    BY <1>1, Taken DEF Precedes
  <2>3. CASE received'[c] = received[c]
    BY <1>1, <1>3, <2>1, <2>2, <2>3 DEF OrderOf
  <2>4. CASE m0 # Pong /\ received'[c] = Append(received[c], m0)
    <3>1. m0 \in Pushes /\ m0 \in Nat
      BY <1>2, <2>4 DEF Pushes
    <3>2. \A i \in DOMAIN received[c] : received[c][i] # Pong => received[c][i] < m0
      BY <1>1, <1>2, <2>4 DEF OrderOf, Precedes
    <3>3. Ascending(Append(received[c], m0))
      <4>1. received[c] \in Seq(Pushes \union {Pong})
        BY <1>1
      <4> QED BY <1>1, <3>1, <3>2, <4>1, LastIsGreatest DEF OrderOf
    <3>4. Precedes(Append(received[c], m0), Tail(buffer[c]))
      <4>1. \A j \in DOMAIN Tail(buffer[c]) :
              m0 # Pong /\ Tail(buffer[c])[j] # Pong => m0 < Tail(buffer[c])[j]
        BY <1>1, TailAscends DEF OrderOf, m0
      <4>2. Tail(buffer[c]) \in Seq(Pushes \union {Pong})
        BY <1>1, Taken
      <4> QED BY <1>1, <2>1, <3>1, <4>1, <4>2, PrecedesAppend
    <3>5. \A t : Precedes(received[c], t) /\ Precedes(buffer[c], t)
                   => Precedes(Append(received[c], m0), t)
      BY <1>1, <1>2, <3>1, Sent DEF Precedes
    <3>6. socket[c] # "new"
      BY <1>1 DEF OrderOf
    <3> QED BY <1>1, <1>3, <2>1, <2>2, <2>4, <3>3, <3>4, <3>5, <3>6 DEF OrderOf
  <2> QED BY <1>3, <2>3, <2>4
<1> QED BY <1>4, <1>5, <1>6, <1>7 DEF PushInv, OrderInv

\* Publishing: the new push is later than every other.
LEMMA PushPublished ==
  ASSUME TypeOK, PushInv, PublishPush
  PROVE  PushInv'
<1> DEFINE m0 == published + 1
<1>0. ASSUME UNCHANGED inbox PROVE PushInv'
  <2>1. /\ UNCHANGED <<home, socket, buffer, received, inbox, offline, records>>
        /\ published' = published + 1 /\ published \in Nat /\ Pushes' = Pushes
    BY <1>0 DEF PublishPush, connVars, TypeOK, Pushes
  <2>2. PlacesInv'
    <3>1. ASSUME NEW m \in Pushes PROVE OnePlace(m)'
      <4>1. m \in Nat /\ (m <= published => m <= published')
        BY <2>1 DEF Pushes
      <4>2. OnePlace(m)
        BY DEF PushInv, PlacesInv
      <4> QED BY <2>1, <4>1, <4>2 DEF OnePlace, Waiting, Online, Offline
    <3> QED BY <2>1, <3>1 DEF PlacesInv
  <2>3. QueuesInv'
    BY <2>1 DEF PushInv, QueuesInv
  <2>4. OrderInv'
    BY <2>1 DEF PushInv, OrderInv, OrderOf
  <2> QED BY <2>2, <2>3, <2>4 DEF PushInv
<1> SUFFICES ASSUME Enqueue(published + 1) PROVE PushInv'
  BY <1>0 DEF PublishPush
<1>1. PICK k \in Connectors : inbox' = [inbox EXCEPT ![k] = Append(@, m0)]
  BY DEF Enqueue
<1>2. /\ UNCHANGED <<home, socket, buffer, received, offline, records>>
      /\ published' = m0
  BY DEF PublishPush, connVars
<1>3. m0 \in Pushes /\ m0 \in Nat /\ m0 # Pong /\ published \in Nat
  BY DEF PublishPush, TypeOK, Pushes, Pong
<1>4. /\ inbox'[k] = Append(inbox[k], m0) /\ inbox[k] \in Seq(Pushes)
      /\ \A l \in Connectors : l # k => inbox'[l] = inbox[l]
  BY <1>1 DEF TypeOK
<1>5. \A m \in Pushes :
        ((\E l \in Connectors : Waiting(m, l)) \/ Online(m) \/ Offline(m)) => m < m0
  <2> SUFFICES ASSUME NEW m \in Pushes,
                      (\E l \in Connectors : Waiting(m, l)) \/ Online(m) \/ Offline(m)
               PROVE  m < m0
    OBVIOUS
  <2>1. m \in Nat /\ m <= published
    BY DEF PushInv, PlacesInv, OnePlace, Pushes
  <2> QED BY <1>3, <2>1
<1> HIDE DEF m0
<1>6. PlacesInv'
  <2>1. Pushes' = Pushes
    BY DEF Pushes
  <2>2. ASSUME NEW m \in Pushes PROVE OnePlace(m)'
    <3>1. Online(m)' <=> Online(m)
      BY <1>2 DEF Online
    <3>2. Offline(m)' <=> Offline(m)
      BY <1>2 DEF Offline
    <3>3. \A l \in Connectors : Waiting(m, l)' => Waiting(m, l) \/ (l = k /\ m = m0)
      <4>1. InSeq(m, Append(inbox[k], m0)) => InSeq(m, inbox[k]) \/ m = m0
        BY <1>3, <1>4, Sent DEF InSeq
      <4> QED BY <1>4, <4>1 DEF Waiting
    <3>4. OnePlace(m)
      BY DEF PushInv, PlacesInv
    <3>5. CASE m = m0
      <4>1. ~Online(m) /\ ~Offline(m) /\ \A l \in Connectors : ~Waiting(m, l)
        BY <1>3, <1>5, <3>5
      <4> QED BY <1>2, <1>3, <3>1, <3>2, <3>3, <3>5, <4>1 DEF OnePlace
    <3>6. CASE m # m0
      <4>1. m \in Nat /\ (m <= published => m <= m0)
        BY <1>3 DEF Pushes, m0
      <4> QED BY <1>2, <3>1, <3>2, <3>3, <3>4, <3>6, <4>1 DEF OnePlace
    <3> QED BY <3>5, <3>6
  <2> QED BY <2>1, <2>2 DEF PlacesInv
<1>7. QueuesInv'
  <2>1. \A i \in DOMAIN inbox[k] : inbox[k][i] < m0
    BY <1>4, <1>5 DEF Waiting, InSeq
  <2>2. inbox[k] \in Seq(Pushes \union {Pong}) /\ Ascending(inbox[k])
    BY <1>4 DEF PushInv, QueuesInv
  <2>3. Ascending(Append(inbox[k], m0))
    BY <1>3, <1>4, <2>1, <2>2, LastIsGreatest
  <2> QED BY <1>4, <2>3 DEF PushInv, QueuesInv
<1>8. ASSUME NEW c \in Conns PROVE OrderOf(c)'
  <2>1. OrderOf(c)
    BY DEF PushInv, OrderInv
  <2>2. CASE home[c] # k \/ k \notin Connectors
    BY <1>2, <1>4, <2>1, <2>2, OrderUntouched
  <2>3. CASE home[c] = k
    <3>1. received[c] \in Seq(Pushes) /\ buffer[c] \in Seq(Pushes \union {Pong})
      BY DEF TypeOK
    <3>2. \A i \in DOMAIN received[c] : received[c][i] # Pong => received[c][i] < m0
      BY <1>5, <3>1 DEF Online, InSeq
    <3>3. \A i \in DOMAIN buffer[c] : buffer[c][i] # Pong => buffer[c][i] < m0
      BY <1>5, <3>1 DEF Online, InSeq
    <3>4. Precedes(received[c], Append(inbox[k], m0))
      BY <1>3, <1>4, <2>1, <2>3, <3>1, <3>2, Sent DEF OrderOf, Precedes
    <3>5. Precedes(buffer[c], Append(inbox[k], m0))
      BY <1>3, <1>4, <2>1, <2>3, <3>1, <3>3, Sent DEF OrderOf, Precedes
    <3> QED BY <1>2, <1>4, <2>1, <2>3, <3>4, <3>5 DEF OrderOf
  <2> QED BY <2>2, <2>3
<1> QED BY <1>6, <1>7, <1>8 DEF PushInv, OrderInv
\* What a connector takes from its queue goes to every connection of its map,
\* or, when the map is empty, to the offline push.
LEMMA PushHandled ==
  ASSUME TypeOK, MapInv, PushInv, NEW k \in Connectors, HandlePush(k)
  PROVE  PushInv'
<1> DEFINE m0 == inbox[k][1]
           known == {clients[k][d] : d \in Devices} \ {None}
<1>1. /\ inbox[k] # <<>> /\ inbox[k] \in Seq(Pushes) /\ 1 \in DOMAIN inbox[k]
      /\ m0 \in Pushes /\ m0 = Head(inbox[k]) /\ m0 \in Nat
  BY DEF HandlePush, TypeOK, Pushes
<1>2. inbox'[k] = Tail(inbox[k]) /\ \A l \in Connectors : l # k => inbox'[l] = inbox[l]
  BY <1>1, FirstRemoved DEF HandlePush, Handle, TypeOK
<1>3. /\ UNCHANGED <<home, socket, received, published, records>>
      /\ \A c \in Conns : \/ buffer'[c] = buffer[c]
                          \/ c \in known /\ buffer'[c] = Append(buffer[c], m0)
      /\ offline' = offline \/ (known = {} /\ offline' = Append(offline, m0))
  BY DEF HandlePush, Handle, Send
<1>4. \A c \in known : c \in Conns => home[c] = k /\ socket[c] # "new"
  BY DEF MapInv, Held
<1> HIDE DEF known, m0
<1>5. \A m \in Pushes : InSeq(m, Tail(inbox[k])) => InSeq(m, inbox[k]) /\ m # m0
  <2>1. \A i \in DOMAIN Tail(inbox[k]) : m0 < Tail(inbox[k])[i] /\ Tail(inbox[k])[i] \in Nat
    <3>1. Tail(inbox[k]) \in Seq(Pushes)
      BY <1>1, Taken
    <3> QED BY <1>1, <3>1, TailAscends DEF PushInv, QueuesInv, Pushes
  <2>2. \A m \in Pushes : InSeq(m, Tail(inbox[k])) => InSeq(m, inbox[k])
    BY <1>1, Taken DEF InSeq
  <2> QED BY <1>1, <2>1, <2>2 DEF InSeq
<1>6. PlacesInv'
  <2>1. Pushes' = Pushes
    BY DEF Pushes
  <2>2. ASSUME NEW m \in Pushes PROVE OnePlace(m)'
    <3>1. \A l \in Connectors : Waiting(m, l)' => Waiting(m, l) /\ (l = k => m # m0)
      BY <1>2, <1>5 DEF Waiting
    <3>2. Online(m)' => Online(m) \/ (known # {} /\ m = m0)
      <4>1. ASSUME NEW c \in Conns, InSeq(m, buffer'[c])
            PROVE  InSeq(m, buffer[c]) \/ (known # {} /\ m = m0)
        <5>1. buffer[c] \in Seq(Pushes \union {Pong}) /\ m0 \in Pushes \union {Pong}
          BY <1>1 DEF TypeOK
        <5>2. InSeq(m, Append(buffer[c], m0)) => InSeq(m, buffer[c]) \/ m = m0
          BY <5>1, Sent DEF InSeq
        <5> QED BY <1>3, <4>1, <5>2
      <4> QED BY <1>3, <4>1 DEF Online
    <3>3. Offline(m)' => Offline(m) \/ (known = {} /\ m = m0)
      <4>1. InSeq(m, Append(offline, m0)) => InSeq(m, offline) \/ m = m0
        BY <1>1, Sent DEF TypeOK, InSeq
      <4> QED BY <1>3, <4>1 DEF Offline
    <3>4. OnePlace(m)
      BY DEF PushInv, PlacesInv
    <3>5. Waiting(m0, k)
      BY <1>1 DEF Waiting, InSeq, m0
    <3>6. CASE m = m0
      <4>1. ~Online(m) /\ ~Offline(m) /\ m <= published
        BY <3>4, <3>5, <3>6 DEF OnePlace
      <4>2. \A l \in Connectors : ~Waiting(m, l)'
        BY <3>1, <3>4, <3>5, <3>6 DEF OnePlace
      <4> QED BY <1>3, <3>2, <3>3, <4>1, <4>2 DEF OnePlace
    <3>7. CASE m # m0
      BY <1>3, <3>1, <3>2, <3>3, <3>4, <3>7 DEF OnePlace
    <3> QED BY <3>6, <3>7
  <2> QED BY <2>1, <2>2 DEF PlacesInv
<1>7. QueuesInv'
  <2>1. Ascending(Tail(inbox[k]))
    BY <1>1, TailAscends DEF PushInv, QueuesInv
  <2> QED BY <1>2, <2>1 DEF PushInv, QueuesInv
<1>8. ASSUME NEW c \in Conns PROVE OrderOf(c)'
  <2>1. /\ OrderOf(c) /\ received[c] \in Seq(Pushes)
        /\ buffer[c] \in Seq(Pushes \union {Pong})
    BY DEF PushInv, OrderInv, TypeOK
  <2>2. CASE home[c] # k
    BY <1>2, <1>3, <1>4, <2>1, <2>2, OrderUntouched
  <2>3. CASE home[c] = k
    <3>1. /\ Precedes(received[c], inbox[k]) /\ Precedes(buffer[c], inbox[k])
      BY <2>1, <2>3 DEF OrderOf
    <3>2. /\ Precedes(received[c], Tail(inbox[k])) /\ Precedes(buffer[c], Tail(inbox[k]))
      BY <1>1, <2>1, <3>1, PrecedesTail
    <3>3. CASE buffer'[c] = buffer[c]
      BY <1>2, <1>3, <2>1, <2>3, <3>2, <3>3 DEF OrderOf
    <3>4. CASE c \in known /\ buffer'[c] = Append(buffer[c], m0)
      <4>1. /\ \A i \in DOMAIN received[c] : received[c][i] # Pong => received[c][i] < m0
            /\ \A i \in DOMAIN buffer[c] : buffer[c][i] # Pong => buffer[c][i] < m0
            /\ m0 # Pong
        BY <1>1, <3>1 DEF Precedes, m0, Pushes, Pong
      <4>2. AscendingPushes(Append(buffer[c], m0))
        BY <1>1, <2>1, <4>1, LastIsGreatest DEF OrderOf
      <4>3. Precedes(received[c], Append(buffer[c], m0))
        BY <1>1, <2>1, <4>1, Sent DEF OrderOf, Precedes
      <4>4. \A i \in DOMAIN Tail(inbox[k]) : m0 < Tail(inbox[k])[i]
        BY <1>1, TailAscends DEF PushInv, QueuesInv
      <4>5. Precedes(Append(buffer[c], m0), Tail(inbox[k]))
        BY <1>1, <2>1, <3>2, <4>4, Sent DEF Precedes
      <4> QED BY <1>2, <1>3, <1>4, <2>1, <2>3, <3>2, <3>4, <4>2, <4>3, <4>5 DEF OrderOf
    <3> QED BY <1>3, <3>3, <3>4
  <2> QED BY <2>2, <2>3
<1> QED BY <1>6, <1>7, <1>8 DEF PushInv, OrderInv

\* The consumer of the offline pushes hands them on to the provider.
LEMMA PushOffline ==
  ASSUME TypeOK, PushInv, OfflinePush
  PROVE  PushInv'
<1>1. UNCHANGED <<home, socket, buffer, received, published, inbox>>
  BY DEF OfflinePush, connVars
<1>2. ASSUME NEW m \in Pushes, Offline(m)' PROVE Offline(m)
  <2>1. offline \in Seq(Pushes) /\ offline # <<>> /\ offline' = Tail(offline)
    BY DEF OfflinePush, TypeOK
  <2>2. InSeq(m, Tail(offline)) => InSeq(m, offline)
    BY <2>1, InTail
  <2>3. InSeq(Head(offline), offline)
    BY <2>1, Taken DEF InSeq
  <2>4. \A j \in DOMAIN records' :
          \/ j \in DOMAIN records /\ records'[j] = records[j]
          \/ records'[j].msg = Head(offline)
    <3> DEFINE R == [msg : Pushes, status : {"success", "failed"}]
    <3>1. records \in Seq(R) /\ Head(offline) \in Pushes
      BY <2>1, Taken DEF TypeOK
    <3>2. \/ records' = records
          \/ \E x \in R : x.msg = Head(offline) /\ records' = Append(records, x)
      BY <3>1 DEF OfflinePush
    <3> HIDE DEF R
    <3> QED BY <3>1, <3>2, Sent
  <2> QED BY <1>2, <2>1, <2>2, <2>3, <2>4 DEF Offline
<1>3. PlacesInv'
  BY <1>1, <1>2, PlacesQuiet DEF Waiting, Online, PushInv
<1>4. QueuesInv'
  BY <1>1 DEF PushInv, QueuesInv
<1>5. OrderInv'
  BY <1>1, OrderUntouched DEF PushInv, OrderInv
<1> QED BY <1>3, <1>4, <1>5 DEF PushInv

LEMMA PushStep ==
  ASSUME TypeOK, MapInv, PushInv, [Next]_vars
  PROVE  PushInv'
<1>1. ASSUME UNCHANGED vars PROVE PushInv'
  BY <1>1, PushQuiet DEF vars, connVars, pushVars
<1>2. ASSUME NEW c \in Conns, NEW k \in Connectors, Connect(c, k) PROVE PushInv'
  <2>1. /\ socket[c] = "new" /\ socket'[c] = "open"
        /\ \A x \in Conns : x # c => home'[x] = home[x] /\ socket'[x] = socket[x]
    BY <1>2 DEF Connect, TypeOK
  <2> QED BY <1>2, <2>1, PushQuiet DEF Connect
<1>3. ASSUME NEW c \in Conns, Lose(c) \/ ReadPumpEnds(c) \/ WritePumpEnds(c) PROVE PushInv'
  <2>1. \A x \in Conns : socket'[x] = "new" => socket[x] = "new"
    BY <1>3 DEF Lose, ReadPumpEnds, WritePumpEnds, TypeOK
  <2> QED BY <1>3, <2>1, PushQuiet DEF Lose, ReadPumpEnds, WritePumpEnds, pushVars
<1>4. ASSUME NEW k \in Connectors, RunRegister(k) \/ RunUnregister(k) PROVE PushInv'
  BY <1>4, PushQuiet DEF RunRegister, RunUnregister, Unregister, connVars
<1>5. ASSUME Next PROVE PushInv'
  BY <1>2, <1>3, <1>4, <1>5, PushPing, PushWritten, PushHandled, PushPublished, PushOffline
     DEF Next, Pumps
<1> QED BY <1>1, <1>5

\* Every push is in one place, and every queue on its way is in order.
THEOREM PushInvariant == Spec => [](TypeOK /\ MapInv /\ PushInv)
<1>1. Init => PushInv  BY PushStart
<1>2. TypeOK /\ MapInv /\ PushInv /\ [Next]_vars => PushInv'  BY PushStep
<1> QED BY <1>1, <1>2, MapInvariant, PTL DEF Spec

\* A device receives the pushes in the order of their publication, each at
\* most once, whichever connector serves it and however often it reconnects.
THEOREM ReceivedStaysInOrder == Spec => []ReceivedInOrder
<1>1. PushInv => ReceivedInOrder
  BY DEF PushInv, OrderInv, OrderOf, Ascending, ReceivedInOrder
<1> QED BY <1>1, PushInvariant, PTL

\* A push that a device of the user received is never sent as an offline push
\* as well.
THEOREM OnlineXorOffline == Spec => []OnlineOrOffline
<1>1. ASSUME TypeOK, PushInv PROVE OnlineOrOffline
  <2> SUFFICES ASSUME NEW c \in Conns, NEW i \in DOMAIN received[c]
               PROVE  /\ \A j \in DOMAIN offline : offline[j] # received[c][i]
                      /\ \A j \in DOMAIN records : records[j].msg # received[c][i]
    BY DEF OnlineOrOffline
  <2>1. received[c][i] \in Pushes
    BY <1>1 DEF TypeOK
  <2>2. Online(received[c][i])
    BY DEF Online, InSeq
  <2>3. ~Offline(received[c][i])
    BY <1>1, <2>1, <2>2 DEF PushInv, PlacesInv, OnePlace
  <2> QED BY <2>3 DEF Offline, InSeq
<1>2. TypeOK /\ PushInv => OnlineOrOffline
  BY <1>1
<1> QED BY <1>2, PushInvariant, PTL
=============================================================================
