------------------------------ MODULE HubProofs ------------------------------
(***************************************************************************)
(* Theorems about module Hub for any number of clients, rooms, messages    *)
(* and for any sizes of the buffers.                                       *)
(***************************************************************************)
EXTENDS Hub, SequenceTheorems, WellFoundedInduction, TLAPS

USE HubAssumption DEF HubAssumption

(* Appending to a buffer that is not full keeps its type and its bound.    *)
LEMMA AppendFits ==
  ASSUME NEW S, NEW s \in Seq(S), NEW e \in S, NEW n \in Nat, Len(s) <= n, Len(s) # n
  PROVE  Append(s, e) \in Seq(S) /\ Len(Append(s, e)) <= n
<1>1. Len(s) \in Nat /\ Append(s, e) \in Seq(S) /\ Len(Append(s, e)) = Len(s) + 1
  BY AppendProperties, LenProperties
<1> QED
  BY <1>1

(* So does taking its head.                                                *)
LEMMA TailFits ==
  ASSUME NEW S, NEW s \in Seq(S), s # <<>>, NEW n \in Nat, Len(s) <= n
  PROVE  Head(s) \in S /\ Tail(s) \in Seq(S) /\ Len(Tail(s)) <= n
<1>1. Len(s) \in Nat /\ Head(s) \in S /\ Tail(s) \in Seq(S) /\ Len(Tail(s)) = Len(s) - 1
  BY HeadTailProperties, LenProperties
<1> QED
  BY <1>1

(* And so does dropping any number of its first elements.                  *)
LEMMA DropFits ==
  ASSUME NEW S, NEW s \in Seq(S), NEW n \in Nat, Len(s) <= n,
         NEW lost \in 0 .. Len(s)
  PROVE  /\ SubSeq(s, lost + 1, Len(s)) \in Seq(S)
         /\ Len(SubSeq(s, lost + 1, Len(s))) <= n
<1>1. Len(s) \in Nat
  BY LenProperties
<1>2. \A i \in lost + 1 .. Len(s) : s[i] \in S
  BY <1>1, ElementOfSeq
<1> QED
  BY <1>1, <1>2, SubSeqProperties

(* What the non-blocking sends leave in the buffers and in the hub.        *)
LEMMA DeliverType ==
  ASSUME BuffersOK, HubOK, NEW to \in SUBSET Client, NEW message \in Message,
         NEW cleanup, Deliver(to, message, cleanup)
  PROVE  /\ send' \in [Client -> Seq(Message)]
         /\ \A c \in Client : Len(send'[c]) <= ClientBuffer
         /\ dead' \subseteq Client
         /\ process' \in {"up", "hub panic", "caller panic"}
         /\ hub' \in {hub, "select", cleanup}
<1>1. CASE to \cap closed # {}
  BY <1>1 DEF BuffersOK, HubOK, Deliver
<1>2. CASE to \cap closed = {}
  <2> DEFINE full == {c \in to : Len(send[c]) = ClientBuffer}
  <2>1. /\ send' = [c \in Client |-> IF c \in to \ full THEN Append(send[c], message)
                                                      ELSE send[c]]
        /\ dead' = full
        /\ UNCHANGED process
        /\ hub' = IF full = {} THEN "select" ELSE cleanup
    BY <1>2 DEF Deliver
  <2>2. ASSUME NEW c \in Client
        PROVE  send'[c] \in Seq(Message) /\ Len(send'[c]) <= ClientBuffer
    <3>1. send[c] \in Seq(Message) /\ Len(send[c]) <= ClientBuffer
      BY DEF BuffersOK
    <3>2. CASE c \in to \ full
      BY <2>1, <3>1, <3>2, AppendFits
    <3>3. CASE c \notin to \ full
      BY <2>1, <3>1, <3>3
    <3> QED
      BY <3>2, <3>3
  <2>3. DOMAIN send' = Client /\ send' = [c \in Client |-> send'[c]]
    BY <2>1
  <2> QED
    BY <2>1, <2>2, <2>3 DEF HubOK
<1> QED
  BY <1>1, <1>2

(* A read pump that moves to JoinRoom with an object, or back without one. *)
LEMMA PlaceAndObject ==
  ASSUME PumpsOK, NEW c \in Client, NEW place, NEW object,
         \/ place \in {"joining", "entered"} /\ object \in RoomObject
         \/ place = "reading" /\ object = None,
         reader' = [reader EXCEPT ![c] = place],
         joining' = [joining EXCEPT ![c] = object],
         UNCHANGED <<conn, writer>>
  PROVE  PumpsOK'
<1>1. /\ conn' \in [Client -> {"none", "open", "closed"}]
      /\ writer' \in [Client -> {"off", "writing", "gone"}]
      /\ reader' \in [Client -> {"new", "registering", "reading", "joining",
                                 "entered", "unregistering", "gone"}]
      /\ joining' \in [Client -> RoomObject \cup {None}]
  BY DEF PumpsOK
<1>2. DOMAIN reader = Client /\ DOMAIN joining = Client
  BY DEF PumpsOK
<1>3. ASSUME NEW d \in Client
      PROVE  IF reader'[d] \in {"joining", "entered"}
             THEN joining'[d] \in RoomObject ELSE joining'[d] = None
  <2>1. reader'[d] = IF d = c THEN place ELSE reader[d]
    BY <1>2
  <2>2. CASE d # c
    BY <2>1, <2>2 DEF PumpsOK
  <2>3. CASE d = c
    <3>1. joining'[d] = object
      BY <1>2, <2>3
    <3> QED
      BY <2>1, <2>3, <3>1
  <2> QED
    BY <2>2, <2>3
<1> QED
  BY <1>1, <1>3 DEF PumpsOK

(* Every field keeps its domain, no buffer its capacity exceeds, and hub   *)
(* and read pumps hold a room object exactly where Run and JoinRoom do.    *)
THEOREM TypeCorrect == Spec => []TypeOK
<1>1. Init => TypeOK
  <2> SUFFICES ASSUME Init PROVE TypeOK
    OBVIOUS
  <2> QED
    BY DEF Init, TypeOK, RoomsOK, BuffersOK, HubOK, PumpsOK, RoomObject, Message,
           RoomMessage
<1>2. TypeOK /\ [Next]_vars => TypeOK'
  <2> SUFFICES ASSUME TypeOK, [Next]_vars PROVE TypeOK'
    OBVIOUS
  <2> USE DEF Up, HubAt, ReaderAt, ChannelsClosed, MutexFree, roomVars,
              hubVars, chanVars, pumpVars, histVars
  <2> USE DEF TypeOK
  <2>1. ASSUME NEW c \in Client, registerClient(c) PROVE TypeOK'
    <3>11. RoomsOK'  BY <2>1 DEF registerClient, RoomsOK
    <3>12. BuffersOK'  BY <2>1 DEF registerClient, BuffersOK
    <3>13. HubOK'  BY <2>1 DEF registerClient, HubOK
    <3>14. PumpsOK'  BY <2>1 DEF registerClient, PumpsOK
    <3> QED  BY <3>11, <3>12, <3>13, <3>14
  <2>2. ASSUME NEW c \in Client, unregisterClient(c) PROVE TypeOK'
    <3>11. RoomsOK'  BY <2>2 DEF unregisterClient, RoomsOK
    <3>12. BuffersOK'  BY <2>2 DEF unregisterClient, BuffersOK
    <3>13. HubOK'  BY <2>2 DEF unregisterClient, HubOK
    <3>14. PumpsOK'  BY <2>2 DEF unregisterClient, PumpsOK
    <3> QED  BY <3>11, <3>12, <3>13, <3>14
  <2>3. ASSUME broadcastToAll PROVE TypeOK'
    <3>1. /\ Head(broadcast) \in 0 .. MaxMessages
          /\ Tail(broadcast) \in Seq(0 .. MaxMessages)
          /\ Len(Tail(broadcast)) <= BroadcastBuffer
      BY <2>3, TailFits DEF broadcastToAll, BuffersOK
    <3>2. <<All, Head(broadcast)>> \in Message /\ clients \in SUBSET Client
      BY <3>1 DEF Message, RoomsOK
    <3>3. /\ send' \in [Client -> Seq(Message)]
          /\ \A c \in Client : Len(send'[c]) <= ClientBuffer
          /\ dead' \subseteq Client
          /\ process' \in {"up", "hub panic", "caller panic"}
          /\ hub' \in {"select", "cleanup"}
      BY <2>3, <3>2, DeliverType DEF broadcastToAll
    <3>11. RoomsOK'  BY <2>3 DEF broadcastToAll, RoomsOK
    <3>12. BuffersOK'
      BY <2>3, <3>1, <3>3 DEF broadcastToAll, BuffersOK
    <3>13. HubOK'
      BY <2>3, <3>3 DEF broadcastToAll, HubOK
    <3>14. PumpsOK'  BY <2>3 DEF broadcastToAll, PumpsOK
    <3> QED  BY <3>11, <3>12, <3>13, <3>14
  <2>4. ASSUME cleanUpDead PROVE TypeOK'
    <3>11. RoomsOK'  BY <2>4 DEF cleanUpDead, RoomsOK
    <3>12. BuffersOK'  BY <2>4 DEF cleanUpDead, BuffersOK
    <3>13. HubOK'  BY <2>4 DEF cleanUpDead, HubOK
    <3>14. PumpsOK'  BY <2>4 DEF cleanUpDead, PumpsOK
    <3> QED  BY <3>11, <3>12, <3>13, <3>14
  <2>5. ASSUME findRoom PROVE TypeOK'
    <3> DEFINE m == Head(roomMessages)
    <3>1. /\ m \in RoomMessage
          /\ Tail(roomMessages) \in Seq(RoomMessage)
          /\ Len(Tail(roomMessages)) <= RoomMessageBuffer
      BY <2>5, TailFits DEF findRoom, BuffersOK
    <3> HIDE DEF m
    <3>11. RoomsOK'  BY <2>5 DEF findRoom, RoomsOK
    <3>12. BuffersOK'
      BY <2>5, <3>1 DEF findRoom, BuffersOK
    <3>13. HubOK'
      <4>1. CASE current[m.room] = 0
        BY <2>5, <4>1 DEF findRoom, m, HubOK
      <4>2. CASE current[m.room] # 0
        <5>1. <<m.room, current[m.room]>> \in RoomObject
          BY <3>1, <4>2 DEF RoomsOK, RoomObject, RoomMessage
        <5>2. /\ hub' = "room" /\ UNCHANGED <<process, dead, ctx>>
              /\ target' = [message |-> m, object |-> <<m.room, current[m.room]>>]
          BY <2>5, <4>2 DEF findRoom, m
        <5> QED
          BY <3>1, <5>1, <5>2 DEF HubOK
      <4> QED
        BY <4>1, <4>2
    <3>14. PumpsOK'  BY <2>5 DEF findRoom, PumpsOK
    <3> QED  BY <3>11, <3>12, <3>13, <3>14
  <2>6. ASSUME broadcastToRoom PROVE TypeOK'
    <3>1. target \in [message : RoomMessage, object : RoomObject]
      BY <2>6 DEF broadcastToRoom, HubOK
    <3>2. /\ members[target.object] \ {target.message.exclude} \in SUBSET Client
          /\ <<target.message.room, target.message.n>> \in Message
      BY <3>1 DEF RoomsOK, RoomMessage, Message
    <3>3. /\ send' \in [Client -> Seq(Message)]
          /\ \A c \in Client : Len(send'[c]) <= ClientBuffer
          /\ dead' \subseteq Client
          /\ process' \in {"up", "hub panic", "caller panic"}
          /\ hub' \in {"room", "select", "roomCleanup"}
      BY <2>6, <3>2, DeliverType DEF broadcastToRoom
    <3>11. RoomsOK'  BY <2>6 DEF broadcastToRoom, RoomsOK
    <3>12. BuffersOK'
      BY <2>6, <3>3 DEF broadcastToRoom, BuffersOK
    <3>13. HubOK'
      BY <2>6, <3>1, <3>3 DEF broadcastToRoom, HubOK
    <3>14. PumpsOK'  BY <2>6 DEF broadcastToRoom, PumpsOK
    <3> QED  BY <3>11, <3>12, <3>13, <3>14
  <2>7. ASSUME cleanUpRoom PROVE TypeOK'
    <3>1. target.object \in RoomObject /\ target.object[1] \in RoomName
      BY <2>7 DEF cleanUpRoom, HubAt, HubOK, RoomObject
    <3>2. unlisted' \subseteq Client \X RoomName
      <4>1. dead \X {target.object[1]} \subseteq Client \X RoomName
        BY <3>1 DEF HubOK
      <4> QED
        BY <2>7, <4>1 DEF cleanUpRoom, RoomsOK
    <3>3. members' \in [RoomObject -> SUBSET Client]
      BY <2>7, <3>1 DEF cleanUpRoom, RoomsOK
    <3>11. RoomsOK'  BY <2>7, <3>2, <3>3 DEF cleanUpRoom, RoomsOK
    <3>12. BuffersOK'  BY <2>7 DEF cleanUpRoom, BuffersOK
    <3>13. HubOK'  BY <2>7 DEF cleanUpRoom, HubOK
    <3>14. PumpsOK'  BY <2>7 DEF cleanUpRoom, PumpsOK
    <3> QED  BY <3>11, <3>12, <3>13, <3>14
  <2>8. ASSUME shutdown PROVE TypeOK'
    <3>11. RoomsOK'  BY <2>8 DEF shutdown, RoomsOK
    <3>12. BuffersOK'  BY <2>8 DEF shutdown, BuffersOK
    <3>13. HubOK'  BY <2>8 DEF shutdown, HubOK
    <3>14. PumpsOK'  BY <2>8 DEF shutdown, PumpsOK
    <3> QED  BY <3>11, <3>12, <3>13, <3>14
  <2>9. ASSUME NEW c \in Client \cup {None}, BroadcastToAll(c) PROVE TypeOK'
    <3>11. RoomsOK'  BY <2>9 DEF BroadcastToAll, RoomsOK
    <3>12. BuffersOK'
      <4>1. broadcast \in Seq(0 .. MaxMessages) /\ Len(broadcast) <= BroadcastBuffer
            /\ issued \in 0 .. MaxMessages
        BY DEF BuffersOK
      <4>2. /\ broadcast' = broadcast \/ (/\ broadcast' = Append(broadcast, issued)
                                        /\ Len(broadcast) < BroadcastBuffer)
            /\ issued < MaxMessages /\ issued' = issued + 1
            /\ UNCHANGED <<send, roomMessages>>
        BY <2>9, Zenon DEF BroadcastToAll
      <4>3. broadcast' \in Seq(0 .. MaxMessages) /\ Len(broadcast') <= BroadcastBuffer
        <5>1. CASE broadcast' = broadcast
          BY <4>1, <5>1
        <5>2. CASE broadcast' = Append(broadcast, issued) /\ Len(broadcast) < BroadcastBuffer
          <6>1. Len(broadcast) # BroadcastBuffer
            BY <5>2
          <6>2. /\ Append(broadcast, issued) \in Seq(0 .. MaxMessages)
                /\ Len(Append(broadcast, issued)) <= BroadcastBuffer
            BY <4>1, <6>1, AppendFits
          <6> QED
            BY <5>2, <6>2
        <5> QED
          BY <4>2, <5>1, <5>2
      <4>4. issued' \in 0 .. MaxMessages
        BY <4>1, <4>2
      <4> QED
        BY <4>2, <4>3, <4>4 DEF BuffersOK
    <3>13. HubOK'  BY <2>9 DEF BroadcastToAll, HubOK
    <3>14. PumpsOK'  BY <2>9 DEF BroadcastToAll, PumpsOK
    <3> QED  BY <3>11, <3>12, <3>13, <3>14
  <2>10. ASSUME NEW c \in Client \cup {None}, NEW r \in RoomName, BroadcastToRoom(c, r) PROVE TypeOK'
    <3>11. RoomsOK'  BY <2>10 DEF BroadcastToRoom, RoomsOK
    <3>12. BuffersOK'
      <4> DEFINE m == [room |-> r, exclude |-> c, n |-> issued]
      <4>1. /\ roomMessages \in Seq(RoomMessage) /\ Len(roomMessages) <= RoomMessageBuffer
            /\ issued \in 0 .. MaxMessages
        BY DEF BuffersOK
      <4>2. m \in RoomMessage
        BY <4>1 DEF RoomMessage
      <4>3. /\ roomMessages' = roomMessages \/ (/\ roomMessages' = Append(roomMessages, m)
                                              /\ Len(roomMessages) < RoomMessageBuffer)
            /\ issued < MaxMessages /\ issued' = issued + 1
            /\ UNCHANGED <<send, broadcast>>
        BY <2>10 DEF BroadcastToRoom
      <4> HIDE DEF m
      <4>4. roomMessages' \in Seq(RoomMessage) /\ Len(roomMessages') <= RoomMessageBuffer
        BY <4>1, <4>2, <4>3, AppendFits
      <4>5. issued' \in 0 .. MaxMessages
        BY <4>1, <4>3
      <4> QED
        BY <4>3, <4>4, <4>5 DEF BuffersOK
    <3>13. HubOK'  BY <2>10 DEF BroadcastToRoom, HubOK
    <3>14. PumpsOK'  BY <2>10 DEF BroadcastToRoom, PumpsOK
    <3> QED  BY <3>11, <3>12, <3>13, <3>14
  <2>11. ASSUME NEW c \in Client, Send(c) PROVE TypeOK'
    <3>11. RoomsOK'  BY <2>11 DEF Send, RoomsOK
    <3>12. BuffersOK'
      <4>1. /\ send[c] \in Seq(Message) /\ Len(send[c]) <= ClientBuffer
            /\ issued \in 0 .. MaxMessages /\ <<"reply", 0>> \in Message
        BY DEF BuffersOK, Message
      <4>2. /\ \/ UNCHANGED send
               \/ /\ send' = [send EXCEPT ![c] = Append(@, <<"reply", 0>>)]
                  /\ Len(send[c]) < ClientBuffer
            /\ issued < MaxMessages /\ issued' = issued + 1
            /\ UNCHANGED <<broadcast, roomMessages>>
        BY <2>11 DEF Send
      <4>3. /\ send' \in [Client -> Seq(Message)]
            /\ \A d \in Client : Len(send'[d]) <= ClientBuffer
        <5>1. CASE UNCHANGED send
          BY <5>1 DEF BuffersOK
        <5>2. CASE /\ send' = [send EXCEPT ![c] = Append(@, <<"reply", 0>>)]
                   /\ Len(send[c]) < ClientBuffer
          <6>1. /\ Append(send[c], <<"reply", 0>>) \in Seq(Message)
                /\ Len(Append(send[c], <<"reply", 0>>)) <= ClientBuffer
            BY <4>1, <5>2, AppendFits
          <6> QED
            BY <5>2, <6>1 DEF BuffersOK
        <5> QED
          BY <4>2, <5>1, <5>2
      <4>4. issued' \in 0 .. MaxMessages
        BY <4>1, <4>2
      <4> QED
        BY <4>2, <4>3, <4>4 DEF BuffersOK
    <3>13. HubOK'  BY <2>11 DEF Send, HubOK
    <3>14. PumpsOK'  BY <2>11 DEF Send, PumpsOK
    <3> QED  BY <3>11, <3>12, <3>13, <3>14
  <2>12. ASSUME NEW c \in Client, NEW r \in RoomName, JoinRoom(c, r) PROVE TypeOK'
    <3>1. /\ current' \in [RoomName -> 0 .. MaxGeneration]
          /\ newest' \in [RoomName -> 0 .. MaxGeneration]
          /\ current'[r] \in 1 .. MaxGeneration
      <4>1. /\ current \in [RoomName -> 0 .. MaxGeneration]
            /\ newest \in [RoomName -> 0 .. MaxGeneration]
        BY DEF RoomsOK
      <4>2. CASE current[r] = 0
        <5>1. /\ newest[r] < MaxGeneration
              /\ newest' = [newest EXCEPT ![r] = @ + 1]
              /\ current' = [current EXCEPT ![r] = newest[r] + 1]
          BY <2>12, <4>2 DEF JoinRoom
        <5>2. newest[r] + 1 \in 1 .. MaxGeneration
          BY <4>1, <5>1
        <5> QED
          BY <4>1, <5>1, <5>2
      <4>3. CASE current[r] # 0
        <5>1. UNCHANGED <<current, newest>>
          BY <2>12, <4>3 DEF JoinRoom
        <5>2. current[r] \in 1 .. MaxGeneration
          BY <4>1, <4>3
        <5> QED
          BY <4>1, <5>1, <5>2
      <4> QED
        BY <4>2, <4>3
    <3>2. <<r, current'[r]>> \in RoomObject
      BY <3>1 DEF RoomObject
    <3>11. RoomsOK'
      BY <2>12, <3>1 DEF JoinRoom, RoomsOK
    <3>12. BuffersOK'  BY <2>12 DEF JoinRoom, BuffersOK
    <3>13. HubOK'  BY <2>12 DEF JoinRoom, HubOK
    <3>14. PumpsOK'
      <4>1. /\ reader' = [reader EXCEPT ![c] = "joining"]
            /\ joining' = [joining EXCEPT ![c] = <<r, current'[r]>>]
            /\ UNCHANGED <<conn, writer>>
        BY <2>12, Zenon DEF JoinRoom
      <4> HIDE DEF TypeOK
      <4> QED
        BY <3>2, <4>1, PlaceAndObject DEF TypeOK
    <3> QED  BY <3>11, <3>12, <3>13, <3>14
  <2>13. ASSUME NEW c \in Client, enterRoom(c) PROVE TypeOK'
    <3>1. joining[c] \in RoomObject /\ joining[c][1] \in RoomName
      BY <2>13 DEF enterRoom, PumpsOK, RoomObject
    <3>11. RoomsOK'
      BY <2>13, <3>1 DEF enterRoom, RoomsOK
    <3>12. BuffersOK'  BY <2>13 DEF enterRoom, BuffersOK
    <3>13. HubOK'  BY <2>13 DEF enterRoom, HubOK
    <3>14. PumpsOK'
      <4>1. /\ reader' = [reader EXCEPT ![c] = "entered"]
            /\ UNCHANGED <<conn, joining, writer>>
        BY <2>13, Zenon DEF enterRoom
      <4>2. joining' = [joining EXCEPT ![c] = joining[c]]
        BY <4>1 DEF PumpsOK
      <4> HIDE DEF TypeOK
      <4> QED
        BY <3>1, <4>1, <4>2, PlaceAndObject DEF TypeOK
    <3> QED  BY <3>11, <3>12, <3>13, <3>14
  <2>23. ASSUME NEW c \in Client, recordRoom(c) PROVE TypeOK'
    <3>1. joining[c][1] \in RoomName
      BY <2>23 DEF recordRoom, PumpsOK, RoomObject
    <3>11. RoomsOK'
      BY <2>23, <3>1 DEF recordRoom, RoomsOK
    <3>12. BuffersOK'  BY <2>23 DEF recordRoom, BuffersOK
    <3>13. HubOK'  BY <2>23 DEF recordRoom, HubOK
    <3>14. PumpsOK'
      <4>1. /\ reader' = [reader EXCEPT ![c] = "reading"]
            /\ joining' = [joining EXCEPT ![c] = None]
            /\ UNCHANGED <<conn, writer>>
        BY <2>23, Zenon DEF recordRoom
      <4> HIDE DEF TypeOK
      <4> QED
        BY <4>1, PlaceAndObject DEF TypeOK
    <3> QED  BY <3>11, <3>12, <3>13, <3>14
  <2>14. ASSUME NEW c \in Client, NEW r \in RoomName, leaveRoom(c, r) PROVE TypeOK'
    <3>11. RoomsOK'
      <4>1. <<r, current[r]>> \in RoomObject
        BY <2>14 DEF leaveRoom, RoomsOK, RoomObject
      <4>2. members' \in [RoomObject -> SUBSET Client]
        BY <2>14, <4>1 DEF leaveRoom, RoomsOK
      <4>3. current' = current \/ current' = [current EXCEPT ![r] = 0]
        BY <2>14 DEF leaveRoom
      <4>4. current' \in [RoomName -> 0 .. MaxGeneration]
        BY <4>3 DEF RoomsOK
      <4> QED
        BY <2>14, <4>2, <4>4 DEF leaveRoom, RoomsOK
    <3>12. BuffersOK'  BY <2>14 DEF leaveRoom, BuffersOK
    <3>13. HubOK'  BY <2>14 DEF leaveRoom, HubOK
    <3>14. PumpsOK'  BY <2>14 DEF leaveRoom, PumpsOK
    <3> QED  BY <3>11, <3>12, <3>13, <3>14
  <2>15. ASSUME NEW c \in Client, ServeWS(c) PROVE TypeOK'
    <3>11. RoomsOK'  BY <2>15 DEF ServeWS, RoomsOK
    <3>12. BuffersOK'  BY <2>15 DEF ServeWS, BuffersOK
    <3>13. HubOK'  BY <2>15 DEF ServeWS, HubOK
    <3>14. PumpsOK'  BY <2>15 DEF ServeWS, PumpsOK
    <3> QED  BY <3>11, <3>12, <3>13, <3>14
  <2>16. ASSUME NEW c \in Client, recoverPump(c) PROVE TypeOK'
    <3>11. RoomsOK'  BY <2>16 DEF recoverPump, RoomsOK
    <3>12. BuffersOK'  BY <2>16 DEF recoverPump, BuffersOK
    <3>13. HubOK'  BY <2>16 DEF recoverPump, HubOK
    <3>14. PumpsOK'  BY <2>16 DEF recoverPump, PumpsOK
    <3> QED  BY <3>11, <3>12, <3>13, <3>14
  <2>17. ASSUME NEW c \in Client, disconnect(c) PROVE TypeOK'
    <3>11. RoomsOK'  BY <2>17 DEF disconnect, RoomsOK
    <3>12. BuffersOK'  BY <2>17 DEF disconnect, BuffersOK
    <3>13. HubOK'  BY <2>17 DEF disconnect, HubOK
    <3>14. PumpsOK'  BY <2>17 DEF disconnect, PumpsOK
    <3> QED  BY <3>11, <3>12, <3>13, <3>14
  <2>18. ASSUME NEW c \in Client, readPumpEnds(c) PROVE TypeOK'
    <3>11. RoomsOK'  BY <2>18 DEF readPumpEnds, RoomsOK
    <3>12. BuffersOK'  BY <2>18 DEF readPumpEnds, BuffersOK
    <3>13. HubOK'  BY <2>18 DEF readPumpEnds, HubOK
    <3>14. PumpsOK'  BY <2>18 DEF readPumpEnds, PumpsOK
    <3> QED  BY <3>11, <3>12, <3>13, <3>14
  <2>19. ASSUME NEW c \in Client, writeMessage(c) PROVE TypeOK'
    <3>11. RoomsOK'  BY <2>19 DEF writeMessage, RoomsOK
    <3>12. BuffersOK'
      <4>1. /\ send[c] # <<>> /\ send' = [send EXCEPT ![c] = Tail(@)]
            /\ UNCHANGED <<broadcast, roomMessages, issued>>
        BY <2>19 DEF writeMessage
      <4>2. Tail(send[c]) \in Seq(Message) /\ Len(Tail(send[c])) <= ClientBuffer
        BY <4>1, TailFits DEF BuffersOK
      <4> QED
        BY <4>1, <4>2 DEF BuffersOK
    <3>13. HubOK'  BY <2>19 DEF writeMessage, HubOK
    <3>14. PumpsOK'  BY <2>19 DEF writeMessage, PumpsOK
    <3> QED  BY <3>11, <3>12, <3>13, <3>14
  <2>20. ASSUME NEW c \in Client, writePumpEnds(c) PROVE TypeOK'
    <3>11. RoomsOK'  BY <2>20 DEF writePumpEnds, RoomsOK
    <3>12. BuffersOK'
      <4>1. /\ \E lost \in 0 .. Len(send[c]) :
                 send' = [send EXCEPT ![c] = SubSeq(@, lost + 1, Len(@))]
            /\ UNCHANGED <<broadcast, roomMessages, issued>>
        BY <2>20 DEF writePumpEnds
      <4>2. PICK lost \in 0 .. Len(send[c]) :
              send' = [send EXCEPT ![c] = SubSeq(@, lost + 1, Len(@))]
        BY <4>1
      <4>3. /\ SubSeq(send[c], lost + 1, Len(send[c])) \in Seq(Message)
            /\ Len(SubSeq(send[c], lost + 1, Len(send[c]))) <= ClientBuffer
        BY DropFits DEF BuffersOK
      <4> QED
        BY <4>1, <4>2, <4>3 DEF BuffersOK
    <3>13. HubOK'  BY <2>20 DEF writePumpEnds, HubOK
    <3>14. PumpsOK'  BY <2>20 DEF writePumpEnds, PumpsOK
    <3> QED  BY <3>11, <3>12, <3>13, <3>14
  <2>21. ASSUME cancel PROVE TypeOK'
    <3>11. RoomsOK'  BY <2>21 DEF cancel, RoomsOK
    <3>12. BuffersOK'  BY <2>21 DEF cancel, BuffersOK
    <3>13. HubOK'  BY <2>21 DEF cancel, HubOK
    <3>14. PumpsOK'  BY <2>21 DEF cancel, PumpsOK
    <3> QED  BY <3>11, <3>12, <3>13, <3>14
  <2>22. ASSUME UNCHANGED vars PROVE TypeOK'
    BY <2>22 DEF vars, RoomsOK, BuffersOK, HubOK, PumpsOK
  <2> HIDE DEF TypeOK
  <2> QED
    BY <2>1, <2>2, <2>3, <2>4, <2>5, <2>6, <2>7, <2>8, <2>9, <2>10, <2>11, <2>12, <2>13, <2>14, <2>15, <2>16, <2>17, <2>18, <2>19, <2>20, <2>21, <2>22, <2>23
       DEF Next, Run, handleMessage, writePump
<1> QED
  BY <1>1, <1>2, PTL DEF Spec

(* A client that has not registered yet is neither registered nor closed:  *)
(* each connection registers once.                                         *)
NewcomerIsFresh ==
  \A c \in Client : reader[c] \in {"new", "registering"} => c \notin clients \cup closed

(* RegisteredIsOpen is inductive only with it: registerClient would put a  *)
(* closed client among the registered ones.                                *)
OpenInv == RegisteredIsOpen /\ NewcomerIsFresh

LEMMA OpenInvariant == Spec => []OpenInv
<1>1. Init => OpenInv
  BY DEF Init, OpenInv, RegisteredIsOpen, NewcomerIsFresh
<1>2. TypeOK /\ OpenInv /\ [Next]_vars => OpenInv'
  <2> SUFFICES ASSUME TypeOK, OpenInv, [Next]_vars PROVE OpenInv'
    OBVIOUS
  <2> USE DEF HubAt, ReaderAt, roomVars, hubVars, chanVars, pumpVars, histVars
  <2>0. clients \subseteq Client /\ closed \subseteq Client /\ DOMAIN reader = Client
    BY DEF TypeOK, RoomsOK, PumpsOK
  <2>1. ASSUME NEW c \in Client, registerClient(c) PROVE OpenInv'
    BY <2>0, <2>1 DEF registerClient, OpenInv, RegisteredIsOpen, NewcomerIsFresh
  <2>2. ASSUME NEW c \in Client, unregisterClient(c) PROVE OpenInv'
    BY <2>0, <2>2 DEF unregisterClient, OpenInv, RegisteredIsOpen, NewcomerIsFresh
  <2>3. ASSUME broadcastToAll PROVE OpenInv'
    BY <2>0, <2>3 DEF broadcastToAll, Deliver, OpenInv, RegisteredIsOpen, NewcomerIsFresh
  <2>4. ASSUME cleanUpDead PROVE OpenInv'
    BY <2>0, <2>4 DEF cleanUpDead, OpenInv, RegisteredIsOpen, NewcomerIsFresh
  <2>5. ASSUME findRoom PROVE OpenInv'
    BY <2>0, <2>5 DEF findRoom, OpenInv, RegisteredIsOpen, NewcomerIsFresh
  <2>6. ASSUME broadcastToRoom PROVE OpenInv'
    BY <2>0, <2>6 DEF broadcastToRoom, Deliver, OpenInv, RegisteredIsOpen, NewcomerIsFresh
  <2>7. ASSUME cleanUpRoom PROVE OpenInv'
    BY <2>0, <2>7 DEF cleanUpRoom, OpenInv, RegisteredIsOpen, NewcomerIsFresh
  <2>8. ASSUME shutdown PROVE OpenInv'
    BY <2>0, <2>8 DEF shutdown, OpenInv, RegisteredIsOpen, NewcomerIsFresh
  <2>9. ASSUME NEW c \in Client \cup {None}, BroadcastToAll(c) PROVE OpenInv'
    BY <2>0, <2>9 DEF BroadcastToAll, OpenInv, RegisteredIsOpen, NewcomerIsFresh
  <2>10. ASSUME NEW c \in Client \cup {None}, NEW r \in RoomName, BroadcastToRoom(c, r) PROVE OpenInv'
    BY <2>0, <2>10 DEF BroadcastToRoom, OpenInv, RegisteredIsOpen, NewcomerIsFresh
  <2>11. ASSUME NEW c \in Client, Send(c) PROVE OpenInv'
    BY <2>0, <2>11 DEF Send, OpenInv, RegisteredIsOpen, NewcomerIsFresh
  <2>12. ASSUME NEW c \in Client, NEW r \in RoomName, JoinRoom(c, r) PROVE OpenInv'
    BY <2>0, <2>12 DEF JoinRoom, OpenInv, RegisteredIsOpen, NewcomerIsFresh
  <2>13. ASSUME NEW c \in Client, enterRoom(c) PROVE OpenInv'
    BY <2>0, <2>13 DEF enterRoom, OpenInv, RegisteredIsOpen, NewcomerIsFresh
  <2>23. ASSUME NEW c \in Client, recordRoom(c) PROVE OpenInv'
    BY <2>0, <2>23 DEF recordRoom, OpenInv, RegisteredIsOpen, NewcomerIsFresh
  <2>14. ASSUME NEW c \in Client, NEW r \in RoomName, leaveRoom(c, r) PROVE OpenInv'
    BY <2>0, <2>14 DEF leaveRoom, OpenInv, RegisteredIsOpen, NewcomerIsFresh
  <2>15. ASSUME NEW c \in Client, ServeWS(c) PROVE OpenInv'
    BY <2>0, <2>15 DEF ServeWS, OpenInv, RegisteredIsOpen, NewcomerIsFresh
  <2>16. ASSUME NEW c \in Client, recoverPump(c) PROVE OpenInv'
    BY <2>0, <2>16 DEF recoverPump, OpenInv, RegisteredIsOpen, NewcomerIsFresh
  <2>17. ASSUME NEW c \in Client, disconnect(c) PROVE OpenInv'
    BY <2>0, <2>17 DEF disconnect, OpenInv, RegisteredIsOpen, NewcomerIsFresh
  <2>18. ASSUME NEW c \in Client, readPumpEnds(c) PROVE OpenInv'
    BY <2>0, <2>18 DEF readPumpEnds, OpenInv, RegisteredIsOpen, NewcomerIsFresh
  <2>19. ASSUME NEW c \in Client, writeMessage(c) PROVE OpenInv'
    BY <2>0, <2>19 DEF writeMessage, OpenInv, RegisteredIsOpen, NewcomerIsFresh
  <2>20. ASSUME NEW c \in Client, writePumpEnds(c) PROVE OpenInv'
    BY <2>0, <2>20 DEF writePumpEnds, OpenInv, RegisteredIsOpen, NewcomerIsFresh
  <2>21. ASSUME cancel PROVE OpenInv'
    BY <2>0, <2>21 DEF cancel, OpenInv, RegisteredIsOpen, NewcomerIsFresh
  <2>22. ASSUME UNCHANGED vars PROVE OpenInv'
    BY <2>22 DEF vars, OpenInv, RegisteredIsOpen, NewcomerIsFresh
  <2> QED
    BY <2>1, <2>2, <2>3, <2>4, <2>5, <2>6, <2>7, <2>8, <2>9, <2>10, <2>11, <2>12, <2>13, <2>14, <2>15, <2>16, <2>17, <2>18, <2>19, <2>20, <2>21, <2>22, <2>23
       DEF Next, Run, handleMessage, writePump
<1> QED
  BY <1>1, <1>2, TypeCorrect, PTL DEF Spec

(* No registered client has a closed send channel until shutdown, so that  *)
(* neither broadcastToAll nor a removal meets one.                         *)
THEOREM RegisteredStaysOpen == Spec => []RegisteredIsOpen
<1>1. OpenInv => RegisteredIsOpen
  BY DEF OpenInv
<1> QED
  BY <1>1, OpenInvariant, PTL

(* A room object that is not made yet is empty, and nobody holds one: the  *)
(* object that JoinRoom makes has no members.                              *)
CurrentIsMade == \A r \in RoomName : current[r] <= newest[r]

UnmadeIsEmpty ==
  \A o \in RoomObject : o[2] > newest[o[1]] => members[o] = {}

HeldIsMade ==
  \A c \in Client : reader[c] \in {"joining", "entered"} =>
                      joining[c][2] <= newest[joining[c][1]]

(* Between the last two sections of JoinRoom the room lists the client     *)
(* already, so that nobody deletes it.                                     *)
EnteredIsListed ==
  \A c \in Client :
    LET r == joining[c][1]
    IN  reader[c] = "entered" /\ <<c, r>> \notin unlisted =>
          joining[c] = <<r, current[r]>> /\ Lists(r, c)

(* RoomsAgree is inductive only with them: the members that a client has   *)
(* entered into a stale object must never come back with its name.         *)
RoomInv == RoomsAgree /\ EnteredIsListed /\ CurrentIsMade /\ UnmadeIsEmpty /\ HeldIsMade

RoomTypes ==
  /\ DOMAIN members = RoomObject /\ DOMAIN inRooms = Client
  /\ DOMAIN joining = Client /\ DOMAIN reader = Client
  /\ members \in [RoomObject -> SUBSET Client]
  /\ current \in [RoomName -> 0 .. MaxGeneration]
  /\ newest \in [RoomName -> 0 .. MaxGeneration]
  /\ \A n \in RoomName : current[n] # 0 => <<n, current[n]>> \in RoomObject
  /\ \A c \in Client : reader[c] \in {"joining", "entered"} =>
       /\ joining[c] \in RoomObject /\ joining[c][1] \in RoomName
       /\ joining[c][2] \in 1 .. MaxGeneration
       /\ joining[c] = <<joining[c][1], joining[c][2]>>

LEMMA RoomTypesHold == TypeOK => RoomTypes
BY DEF TypeOK, RoomsOK, PumpsOK, RoomObject, RoomTypes

(* A step that changes neither the rooms nor what JoinRoom holds.          *)
LEMMA RoomsUntouched ==
  ASSUME RoomInv, UNCHANGED <<roomVars, joining>>,
         \A c \in Client : \/ reader'[c] = reader[c]
                           \/ /\ reader[c] \notin {"joining", "entered"}
                              /\ reader'[c] \notin {"joining", "entered"}
  PROVE  RoomInv'
<1>1. RoomsAgree'  BY DEF roomVars, RoomInv, RoomsAgree, Lists
<1>2. EnteredIsListed'  BY DEF roomVars, RoomInv, EnteredIsListed, Lists
<1>3. CurrentIsMade' /\ UnmadeIsEmpty' /\ HeldIsMade'
  BY DEF roomVars, RoomInv, CurrentIsMade, UnmadeIsEmpty, HeldIsMade
<1> QED
  BY <1>1, <1>2, <1>3 DEF RoomInv

(* The section of h.mu: an object that is made has no members yet.         *)
LEMMA JoinKeepsRooms ==
  ASSUME RoomTypes, RoomInv, NEW c \in Client, NEW r \in RoomName, JoinRoom(c, r)
  PROVE  RoomInv'
<1>1. /\ joining' = [joining EXCEPT ![c] = <<r, current'[r]>>]
      /\ reader' = [reader EXCEPT ![c] = "joining"] /\ reader[c] = "reading"
      /\ UNCHANGED <<members, inRooms, unlisted>>
  BY HubAssumption DEF JoinRoom, Calls, ReaderAt
<1>2. /\ \A n \in RoomName \ {r} : current'[n] = current[n] /\ newest'[n] = newest[n]
      /\ newest'[r] >= newest[r] /\ current'[r] <= newest'[r]
      /\ newest'[r] \in Nat
      /\ \/ current'[r] = current[r]
         \/ /\ <<r, current'[r]>> \in RoomObject /\ current'[r] > newest[r]
            /\ current[r] = 0
  <2>1. CASE current[r] = 0
    <3>1. /\ newest[r] < MaxGeneration
          /\ newest' = [newest EXCEPT ![r] = @ + 1]
          /\ current' = [current EXCEPT ![r] = newest[r] + 1]
      BY <2>1 DEF JoinRoom
    <3>2. newest[r] + 1 \in 1 .. MaxGeneration
      BY <3>1 DEF RoomTypes
    <3> QED
      BY <2>1, <3>1, <3>2 DEF RoomObject, RoomTypes
  <2>2. CASE current[r] # 0
    BY <2>2 DEF JoinRoom, RoomInv, CurrentIsMade, RoomTypes
  <2> QED
    BY <2>1, <2>2
<1>3. \A n \in RoomName : newest[n] \in Nat /\ newest'[n] \in Nat /\ newest[n] <= newest'[n]
  BY <1>2 DEF RoomTypes
<1>4. \A n \in RoomName, d \in Client : Lists(n, d)' <=> Lists(n, d)
  BY <1>1, <1>2 DEF RoomInv, UnmadeIsEmpty, Lists
<1>5. \A d \in Client : d # c => reader'[d] = reader[d] /\ joining'[d] = joining[d]
  BY <1>1 DEF RoomTypes
<1>6. reader'[c] = "joining" /\ joining'[c] = <<r, current'[r]>>
  BY <1>1 DEF RoomTypes
<1>7. \A n \in RoomName : current[n] # 0 => current'[n] = current[n]
  BY <1>2
<1>8. RoomsAgree'
  <2> SUFFICES ASSUME NEW d \in Client, NEW n \in RoomName
               PROVE  /\ Lists(n, d)' =>
                           \/ n \in inRooms'[d]
                           \/ reader'[d] = "entered" /\ joining'[d] = <<n, current'[n]>>
                      /\ n \in inRooms'[d] /\ <<d, n>> \notin unlisted' => Lists(n, d)'
    BY DEF RoomsAgree
  <2>1. Lists(n, d) => current[n] # 0
    BY DEF Lists
  <2> QED
    BY <1>1, <1>4, <1>5, <1>7, <2>1 DEF RoomInv, RoomsAgree
<1>9. EnteredIsListed'
  <2> SUFFICES ASSUME NEW d \in Client, reader'[d] = "entered",
                      <<d, joining'[d][1]>> \notin unlisted'
               PROVE  /\ joining'[d] = <<joining'[d][1], current'[joining'[d][1]]>>
                      /\ Lists(joining[d][1], d)' /\ joining'[d] = joining[d]
    BY DEF EnteredIsListed, Lists
  <2>1. d # c /\ reader[d] = "entered" /\ joining'[d] = joining[d] /\ joining[d][1] \in RoomName
    BY <1>5, <1>6 DEF RoomTypes
  <2>2. joining[d] = <<joining[d][1], current[joining[d][1]]>> /\ Lists(joining[d][1], d)
    BY <1>1, <2>1 DEF RoomInv, EnteredIsListed
  <2>3. current'[joining[d][1]] = current[joining[d][1]]
    BY <1>7, <2>1, <2>2 DEF Lists
  <2>4. Lists(joining[d][1], d)'
    BY <1>1, <2>2, <2>3, <2>1 DEF Lists
  <2> QED
    BY <2>1, <2>2, <2>3, <2>4
<1>10. CurrentIsMade'
  BY <1>2 DEF RoomInv, CurrentIsMade
<1>11. UnmadeIsEmpty'
  <2>1. ASSUME NEW n \in RoomName, NEW g \in 1 .. MaxGeneration, g > newest'[n]
        PROVE  g > newest[n]
    BY <1>3, <2>1
  <2> QED
    BY <1>1, <2>1 DEF RoomInv, UnmadeIsEmpty, RoomObject
<1>12. HeldIsMade'
  <2>1. ASSUME NEW d \in Client, reader'[d] \in {"joining", "entered"}, d # c
        PROVE  joining'[d][2] <= newest'[joining'[d][1]]
    <3>1. joining'[d] = joining[d] /\ joining[d][2] <= newest[joining[d][1]]
      BY <1>5, <2>1 DEF RoomInv, HeldIsMade
    <3>2. joining[d][1] \in RoomName /\ joining[d][2] \in Nat
      BY <1>5, <2>1 DEF RoomTypes
    <3> QED
      BY <1>3, <3>1, <3>2
  <2> QED
    BY <1>2, <1>6, <2>1 DEF HeldIsMade
<1> QED
  BY <1>8, <1>9, <1>10, <1>11, <1>12 DEF RoomInv

(* The section of room.mu.                                                 *)
LEMMA EnterKeepsRooms ==
  ASSUME RoomTypes, RoomInv, NEW c \in Client, enterRoom(c)
  PROVE  RoomInv'
<1> DEFINE o == joining[c]  r == o[1]
<1>1. /\ reader[c] = "joining"
      /\ members' = [members EXCEPT ![o] = @ \cup {c}]
      /\ unlisted' = IF o = <<r, current[r]>> THEN unlisted \ {<<c, r>>}
                                              ELSE unlisted \cup {<<c, r>>}
      /\ reader' = [reader EXCEPT ![c] = "entered"]
      /\ UNCHANGED <<current, newest, inRooms, joining>>
  BY DEF enterRoom, ReaderAt
<1>2. o \in RoomObject /\ r \in RoomName /\ o[2] <= newest[r] /\ o[2] \in 1 .. MaxGeneration
      /\ o = <<r, o[2]>>
  BY <1>1 DEF RoomInv, HeldIsMade, RoomTypes
<1>3. \A d \in Client : d # c => reader'[d] = reader[d]
  BY <1>1 DEF RoomTypes
<1>4. reader'[c] = "entered"
  BY <1>1 DEF RoomTypes
<1> HIDE DEF o
<1>5. ASSUME NEW n \in RoomName, NEW d \in Client
      PROVE  Lists(n, d)' <=> Lists(n, d) \/ (d = c /\ o = <<n, current[n]>>)
  <2>1. CASE current[n] = 0
    BY <1>1, <1>2, <2>1 DEF Lists
  <2>2. CASE current[n] # 0
    <3>1. <<n, current[n]>> \in RoomObject
      BY <2>2 DEF RoomTypes
    <3>2. members'[<<n, current[n]>>] =
            IF o = <<n, current[n]>> THEN members[<<n, current[n]>>] \cup {c}
                                     ELSE members[<<n, current[n]>>]
      BY <1>1, <3>1 DEF RoomTypes
    <3> QED
      BY <1>1, <2>2, <3>2 DEF Lists
  <2> QED
    BY <2>1, <2>2
<1>6. \A n \in RoomName : o = <<n, current[n]>> => n = r
  BY <1>2
<1>7. \A d \in Client, n \in RoomName :
        <<d, n>> # <<c, r>> => (<<d, n>> \in unlisted' <=> <<d, n>> \in unlisted)
  BY <1>1
<1>8. RoomsAgree'
  <2> SUFFICES ASSUME NEW d \in Client, NEW n \in RoomName
               PROVE  /\ Lists(n, d)' =>
                           \/ n \in inRooms'[d]
                           \/ reader'[d] = "entered" /\ joining'[d] = <<n, current'[n]>>
                      /\ n \in inRooms'[d] /\ <<d, n>> \notin unlisted' => Lists(n, d)'
    BY DEF RoomsAgree
  <2>0. /\ Lists(n, d) => \/ n \in inRooms[d]
                          \/ reader[d] = "entered" /\ joining[d] = <<n, current[n]>>
        /\ n \in inRooms[d] /\ <<d, n>> \notin unlisted => Lists(n, d)
    BY DEF RoomInv, RoomsAgree
  <2>1. CASE d # c
    <3>1. <<d, n>> \in unlisted' <=> <<d, n>> \in unlisted
      BY <1>7, <2>1
    <3> QED
      BY <1>1, <1>3, <1>5, <2>0, <2>1, <3>1
  <2>2. CASE d = c
    <3>1. Lists(n, d)' => \/ n \in inRooms'[d]
                          \/ reader'[d] = "entered" /\ joining'[d] = <<n, current'[n]>>
      BY <1>1, <1>4, <1>5, <2>0, <2>2 DEF o
    <3>2. ASSUME n \in inRooms'[d], <<d, n>> \notin unlisted' PROVE Lists(n, d)'
      <4>1. CASE n # r
        BY <1>1, <1>5, <1>7, <2>0, <2>2, <3>2, <4>1
      <4>2. CASE n = r
        <5>1. o = <<r, current[r]>>
          BY <1>1, <2>2, <3>2, <4>2
        <5> QED
          BY <1>5, <2>2, <4>2, <5>1
      <4> QED
        BY <4>1, <4>2
    <3> QED
      BY <3>1, <3>2
  <2> QED
    BY <2>1, <2>2
<1>9. EnteredIsListed'
  <2> SUFFICES ASSUME NEW d \in Client, reader'[d] = "entered",
                      <<d, joining'[d][1]>> \notin unlisted'
               PROVE  /\ joining'[d] = <<joining'[d][1], current'[joining'[d][1]]>>
                      /\ current'[joining'[d][1]] # 0
                      /\ d \in members'[<<joining'[d][1], current'[joining'[d][1]]>>]
    BY DEF EnteredIsListed, Lists
  <2>1. CASE d = c
    <3>1. o = <<r, current[r]>>
      BY <1>1, <2>1 DEF o
    <3>2. \E n \in RoomName : n = r /\ Lists(n, c)'
      BY <1>2, <1>5, <3>1
    <3>3. current'[r] # 0 /\ c \in members'[<<r, current'[r]>>]
      BY <3>2 DEF Lists
    <3> QED
      BY <1>1, <2>1, <3>1, <3>3 DEF o
  <2>2. CASE d # c
    <3>1. reader[d] = "entered" /\ joining'[d] = joining[d] /\ joining[d][1] \in RoomName
      BY <1>1, <1>3, <2>2 DEF RoomTypes
    <3>2. <<d, joining[d][1]>> \notin unlisted
      BY <1>7, <2>2, <3>1
    <3>3. joining[d] = <<joining[d][1], current[joining[d][1]]>> /\ Lists(joining[d][1], d)
      BY <3>1, <3>2 DEF RoomInv, EnteredIsListed
    <3>4. Lists(joining[d][1], d)'
      <4>1. Lists(joining[d][1], d)' <=> Lists(joining[d][1], d)
        BY <1>5, <2>2, <3>1
      <4> QED
        BY <3>3, <4>1
    <3> QED
      BY <1>1, <3>1, <3>3, <3>4 DEF Lists
  <2> QED
    BY <2>1, <2>2
<1>10. CurrentIsMade'
  BY <1>1 DEF RoomInv, CurrentIsMade
<1>11. UnmadeIsEmpty'
  <2>1. \A p \in RoomObject : p # o => members'[p] = members[p]
    BY <1>1 DEF RoomTypes
  <2>2. ~(o[2] > newest[o[1]])
    BY <1>2 DEF RoomTypes
  <2> QED
    BY <1>1, <2>1, <2>2 DEF RoomInv, UnmadeIsEmpty
<1>12. HeldIsMade'
  BY <1>1, <1>3 DEF RoomInv, HeldIsMade
<1> QED
  BY <1>8, <1>9, <1>10, <1>11, <1>12 DEF RoomInv

(* The section of client.mu.                                               *)
LEMMA RecordKeepsRooms ==
  ASSUME RoomTypes, RoomInv, NEW c \in Client, recordRoom(c)
  PROVE  RoomInv'
<1> DEFINE r == joining[c][1]
<1>1. /\ reader[c] = "entered" /\ r \in RoomName
      /\ inRooms' = [inRooms EXCEPT ![c] = @ \cup {r}]
      /\ joining' = [joining EXCEPT ![c] = None]
      /\ reader' = [reader EXCEPT ![c] = "reading"]
      /\ UNCHANGED <<current, newest, members, unlisted>>
  BY DEF recordRoom, ReaderAt, RoomTypes
<1>2. \A d \in Client : d # c => /\ reader'[d] = reader[d] /\ joining'[d] = joining[d]
                                /\ inRooms'[d] = inRooms[d]
  BY <1>1 DEF RoomTypes
<1>3. reader'[c] = "reading" /\ inRooms'[c] = inRooms[c] \cup {r}
  BY <1>1 DEF RoomTypes
<1>4. \A n \in RoomName, d \in Client : Lists(n, d)' <=> Lists(n, d)
  BY <1>1 DEF Lists
<1>5. RoomsAgree'
  <2> SUFFICES ASSUME NEW d \in Client, NEW n \in RoomName
               PROVE  /\ Lists(n, d)' =>
                           \/ n \in inRooms'[d]
                           \/ reader'[d] = "entered" /\ joining'[d] = <<n, current'[n]>>
                      /\ n \in inRooms'[d] /\ <<d, n>> \notin unlisted' => Lists(n, d)'
    BY DEF RoomsAgree
  <2>0. /\ Lists(n, d) => \/ n \in inRooms[d]
                          \/ reader[d] = "entered" /\ joining[d] = <<n, current[n]>>
        /\ n \in inRooms[d] /\ <<d, n>> \notin unlisted => Lists(n, d)
    BY DEF RoomInv, RoomsAgree
  <2>1. CASE d # c
    BY <1>1, <1>2, <1>4, <2>0, <2>1
  <2>2. CASE d = c
    <3>1. joining[c] = <<n, current[n]>> => n = r
      OBVIOUS
    <3>2. <<c, r>> \notin unlisted => Lists(r, c)
      BY <1>1 DEF RoomInv, EnteredIsListed
    <3> QED
      BY <1>1, <1>3, <1>4, <2>0, <2>2, <3>1, <3>2
  <2> QED
    BY <2>1, <2>2
<1>6. EnteredIsListed'
  BY <1>1, <1>2, <1>3 DEF RoomInv, EnteredIsListed, Lists
<1>7. CurrentIsMade' /\ UnmadeIsEmpty'
  BY <1>1 DEF RoomInv, CurrentIsMade, UnmadeIsEmpty
<1>8. HeldIsMade'
  BY <1>1, <1>2, <1>3 DEF RoomInv, HeldIsMade
<1> QED
  BY <1>5, <1>6, <1>7, <1>8 DEF RoomInv

(* A room is deleted only when nobody is left in it.                       *)
LEMMA LeaveKeepsRooms ==
  ASSUME RoomTypes, RoomInv, NEW c \in Client, NEW r \in RoomName, leaveRoom(c, r)
  PROVE  RoomInv'
<1> DEFINE o == <<r, current[r]>>
<1>1. /\ current[r] # 0 /\ reader[c] = "reading"
      /\ members' = [members EXCEPT ![o] = @ \ {c}]
      /\ inRooms' = [inRooms EXCEPT ![c] = @ \ {r}]
      /\ unlisted' = unlisted \ {<<c, r>>}
      /\ current' = IF members'[o] = {} THEN [current EXCEPT ![r] = 0] ELSE current
      /\ UNCHANGED <<newest, reader, joining>>
  BY HubAssumption DEF leaveRoom, pumpVars, Calls, ReaderAt
<1>2. o \in RoomObject
  BY <1>1 DEF RoomTypes
<1>3. \A n \in RoomName : n # r => current'[n] = current[n]
  BY <1>1 DEF RoomTypes
<1>4. /\ members'[o] = members[o] \ {c}
      /\ \A p \in RoomObject : p # o => members'[p] = members[p]
  BY <1>1, <1>2 DEF RoomTypes
<1>5. \/ current'[r] = current[r]
      \/ current'[r] = 0 /\ members[o] \subseteq {c}
  BY <1>1, <1>4 DEF RoomTypes
<1>6. ASSUME NEW n \in RoomName, NEW d \in Client
      PROVE  Lists(n, d)' <=> Lists(n, d) /\ <<d, n>> # <<c, r>>
  <2>1. CASE n # r
    <3>1. current[n] # 0 => <<n, current[n]>> \in RoomObject /\ <<n, current[n]>> # o
      BY <2>1 DEF RoomTypes
    <3> QED
      BY <1>3, <1>4, <2>1, <3>1 DEF Lists
  <2>2. CASE n = r
    <3>1. CASE current'[r] = current[r]
      BY <1>1, <1>4, <2>2, <3>1 DEF Lists
    <3>2. CASE current'[r] = 0 /\ members[o] \subseteq {c}
      BY <2>2, <3>2 DEF Lists
    <3> QED
      BY <1>5, <3>1, <3>2
  <2> QED
    BY <2>1, <2>2
<1>7. \A d \in Client, n \in RoomName : Lists(n, d)' => current'[n] = current[n]
  BY <1>3, <1>5 DEF Lists
<1>8. \A d \in Client, n \in RoomName :
        n \in inRooms'[d] <=> n \in inRooms[d] /\ <<d, n>> # <<c, r>>
  BY <1>1 DEF RoomTypes
<1>9. RoomsAgree'
  <2> SUFFICES ASSUME NEW d \in Client, NEW n \in RoomName
               PROVE  /\ Lists(n, d)' =>
                           \/ n \in inRooms'[d]
                           \/ reader'[d] = "entered" /\ joining'[d] = <<n, current'[n]>>
                      /\ n \in inRooms'[d] /\ <<d, n>> \notin unlisted' => Lists(n, d)'
    BY DEF RoomsAgree
  <2>0. /\ Lists(n, d) => \/ n \in inRooms[d]
                          \/ reader[d] = "entered" /\ joining[d] = <<n, current[n]>>
        /\ n \in inRooms[d] /\ <<d, n>> \notin unlisted => Lists(n, d)
    BY DEF RoomInv, RoomsAgree
  <2> QED
    BY <1>1, <1>6, <1>7, <1>8, <2>0
<1>10. EnteredIsListed'
  <2> SUFFICES ASSUME NEW d \in Client, reader'[d] = "entered",
                      <<d, joining'[d][1]>> \notin unlisted'
               PROVE  /\ joining'[d] = <<joining'[d][1], current'[joining'[d][1]]>>
                      /\ current'[joining'[d][1]] # 0
                      /\ d \in members'[<<joining'[d][1], current'[joining'[d][1]]>>]
    BY DEF EnteredIsListed, Lists
  <2>1. d # c /\ reader[d] = "entered" /\ joining'[d] = joining[d] /\ joining[d][1] \in RoomName
    BY <1>1 DEF RoomTypes
  <2>2. <<d, joining[d][1]>> \notin unlisted
    BY <1>1, <2>1
  <2>3. joining[d] = <<joining[d][1], current[joining[d][1]]>> /\ Lists(joining[d][1], d)
    BY <2>1, <2>2 DEF RoomInv, EnteredIsListed
  <2>4. Lists(joining[d][1], d)' <=> Lists(joining[d][1], d)
    BY <1>6, <2>1
  <2>5. current'[joining[d][1]] = current[joining[d][1]]
    BY <1>7, <2>1, <2>3, <2>4
  <2> QED
    BY <2>1, <2>3, <2>4, <2>5 DEF Lists
<1>11. CurrentIsMade'
  BY <1>1, <1>3, <1>5 DEF RoomInv, CurrentIsMade, RoomTypes
<1>12. UnmadeIsEmpty'
  BY <1>1, <1>4 DEF RoomInv, UnmadeIsEmpty
<1>13. HeldIsMade'
  BY <1>1 DEF RoomInv, HeldIsMade
<1> QED
  BY <1>9, <1>10, <1>11, <1>12, <1>13 DEF RoomInv

(* Whom a broadcast to the room removes from it is accounted for.          *)
LEMMA CleanUpKeepsRooms ==
  ASSUME RoomTypes, RoomInv, cleanUpRoom, target.object \in RoomObject
  PROVE  RoomInv'
<1> DEFINE o == target.object
<1>1. /\ members' = [members EXCEPT ![o] = @ \ dead]
      /\ unlisted' = IF o = <<o[1], current[o[1]]>> THEN unlisted \cup (dead \X {o[1]})
                                                    ELSE unlisted
      /\ UNCHANGED <<current, newest, inRooms, reader, joining>>
  BY DEF cleanUpRoom, pumpVars
<1> HIDE DEF o
<1>2. \A p \in RoomObject : members'[p] = IF p = o THEN members[p] \ dead ELSE members[p]
  BY <1>1 DEF RoomTypes
<1>3. unlisted \subseteq unlisted'
  BY <1>1
<1>4. ASSUME NEW n \in RoomName, NEW d \in Client
      PROVE  /\ Lists(n, d)' => Lists(n, d)
             /\ Lists(n, d) => Lists(n, d)' \/ <<d, n>> \in unlisted'
  <2>1. CASE current[n] = 0
    BY <1>1, <2>1 DEF Lists
  <2>2. CASE current[n] # 0
    <3>1. <<n, current[n]>> \in RoomObject
      BY <2>2 DEF RoomTypes
    <3>2. CASE o = <<n, current[n]>>
      <4>1. o[1] = n /\ unlisted' = unlisted \cup (dead \X {n})
        BY <1>1, <3>2
      <4> QED
        BY <1>1, <1>2, <3>1, <3>2, <4>1 DEF Lists
    <3>3. CASE o # <<n, current[n]>>
      BY <1>1, <1>2, <3>1, <3>3 DEF Lists
    <3> QED
      BY <3>2, <3>3
  <2> QED
    BY <2>1, <2>2
<1>5. RoomsAgree'
  <2> SUFFICES ASSUME NEW d \in Client, NEW n \in RoomName
               PROVE  /\ Lists(n, d)' =>
                           \/ n \in inRooms'[d]
                           \/ reader'[d] = "entered" /\ joining'[d] = <<n, current'[n]>>
                      /\ n \in inRooms'[d] /\ <<d, n>> \notin unlisted' => Lists(n, d)'
    BY DEF RoomsAgree
  <2>0. /\ Lists(n, d) => \/ n \in inRooms[d]
                          \/ reader[d] = "entered" /\ joining[d] = <<n, current[n]>>
        /\ n \in inRooms[d] /\ <<d, n>> \notin unlisted => Lists(n, d)
    BY DEF RoomInv, RoomsAgree
  <2> QED
    BY <1>1, <1>3, <1>4, <2>0
<1>6. EnteredIsListed'
  <2> SUFFICES ASSUME NEW d \in Client, reader'[d] = "entered",
                      <<d, joining'[d][1]>> \notin unlisted'
               PROVE  /\ joining'[d] = <<joining'[d][1], current'[joining'[d][1]]>>
                      /\ current'[joining'[d][1]] # 0
                      /\ d \in members'[<<joining'[d][1], current'[joining'[d][1]]>>]
    BY DEF EnteredIsListed, Lists
  <2>1. reader[d] = "entered" /\ joining'[d] = joining[d] /\ joining[d][1] \in RoomName
    BY <1>1 DEF RoomTypes
  <2>2. joining[d] = <<joining[d][1], current[joining[d][1]]>> /\ Lists(joining[d][1], d)
    BY <1>1, <1>3, <2>1 DEF RoomInv, EnteredIsListed
  <2>3. Lists(joining[d][1], d)'
    BY <1>1, <1>4, <2>1, <2>2
  <2> QED
    BY <1>1, <2>1, <2>2, <2>3 DEF Lists
<1>7. CurrentIsMade' /\ HeldIsMade'
  BY <1>1 DEF RoomInv, CurrentIsMade, HeldIsMade
<1>8. UnmadeIsEmpty'
  BY <1>1, <1>2 DEF RoomInv, UnmadeIsEmpty
<1> QED
  BY <1>5, <1>6, <1>7, <1>8 DEF RoomInv

LEMMA RoomInvStep == TypeOK /\ RoomInv /\ [Next]_vars => RoomInv'
<1> SUFFICES ASSUME TypeOK, RoomInv, [Next]_vars PROVE RoomInv'
  OBVIOUS
<1>0. RoomTypes
  BY RoomTypesHold
<1> USE DEF RoomTypes
<1>1. ASSUME NEW c \in Client, registerClient(c) PROVE RoomInv'
  BY <1>0, <1>1, RoomsUntouched DEF registerClient, ReaderAt, hubVars, chanVars, pumpVars, histVars
<1>2. ASSUME NEW c \in Client, unregisterClient(c) PROVE RoomInv'
  BY <1>0, <1>2, RoomsUntouched DEF unregisterClient, ReaderAt, hubVars, chanVars, pumpVars, histVars
<1>3. ASSUME broadcastToAll PROVE RoomInv'
  BY <1>0, <1>3, RoomsUntouched DEF broadcastToAll, ReaderAt, hubVars, chanVars, pumpVars, histVars
<1>4. ASSUME cleanUpDead PROVE RoomInv'
  BY <1>0, <1>4, RoomsUntouched DEF cleanUpDead, ReaderAt, hubVars, chanVars, pumpVars, histVars
<1>5. ASSUME findRoom PROVE RoomInv'
  BY <1>0, <1>5, RoomsUntouched DEF findRoom, ReaderAt, hubVars, chanVars, pumpVars, histVars
<1>6. ASSUME broadcastToRoom PROVE RoomInv'
  BY <1>0, <1>6, RoomsUntouched DEF broadcastToRoom, ReaderAt, hubVars, chanVars, pumpVars, histVars
<1>7. ASSUME cleanUpRoom PROVE RoomInv'
  BY <1>0, <1>7, CleanUpKeepsRooms DEF cleanUpRoom, HubAt, TypeOK, HubOK
<1>8. ASSUME shutdown PROVE RoomInv'
  BY <1>0, <1>8, RoomsUntouched DEF shutdown, ReaderAt, hubVars, chanVars, pumpVars, histVars
<1>9. ASSUME NEW c \in Client \cup {None}, BroadcastToAll(c) PROVE RoomInv'
  BY <1>0, <1>9, RoomsUntouched DEF BroadcastToAll, ReaderAt, hubVars, chanVars, pumpVars, histVars
<1>10. ASSUME NEW c \in Client \cup {None}, NEW r \in RoomName, BroadcastToRoom(c, r) PROVE RoomInv'
  BY <1>0, <1>10, RoomsUntouched DEF BroadcastToRoom, ReaderAt, hubVars, chanVars, pumpVars, histVars
<1>11. ASSUME NEW c \in Client, Send(c) PROVE RoomInv'
  BY <1>0, <1>11, RoomsUntouched DEF Send, ReaderAt, hubVars, chanVars, pumpVars, histVars
<1>12. ASSUME NEW c \in Client, NEW r \in RoomName, JoinRoom(c, r) PROVE RoomInv'
  BY <1>0, <1>12, JoinKeepsRooms
<1>13. ASSUME NEW c \in Client, enterRoom(c) PROVE RoomInv'
  BY <1>0, <1>13, EnterKeepsRooms
<1>23. ASSUME NEW c \in Client, recordRoom(c) PROVE RoomInv'
  BY <1>0, <1>23, RecordKeepsRooms
<1>14. ASSUME NEW c \in Client, NEW r \in RoomName, leaveRoom(c, r) PROVE RoomInv'
  BY <1>0, <1>14, LeaveKeepsRooms
<1>15. ASSUME NEW c \in Client, ServeWS(c) PROVE RoomInv'
  BY <1>0, <1>15, RoomsUntouched DEF ServeWS, ReaderAt, hubVars, chanVars, pumpVars, histVars
<1>16. ASSUME NEW c \in Client, recoverPump(c) PROVE RoomInv'
  BY <1>0, <1>16, RoomsUntouched DEF recoverPump, ReaderAt, hubVars, chanVars, pumpVars, histVars
<1>17. ASSUME NEW c \in Client, disconnect(c) PROVE RoomInv'
  BY <1>0, <1>17, RoomsUntouched DEF disconnect, ReaderAt, hubVars, chanVars, pumpVars, histVars
<1>18. ASSUME NEW c \in Client, readPumpEnds(c) PROVE RoomInv'
  BY <1>0, <1>18, RoomsUntouched DEF readPumpEnds, ReaderAt, hubVars, chanVars, pumpVars, histVars
<1>19. ASSUME NEW c \in Client, writeMessage(c) PROVE RoomInv'
  BY <1>0, <1>19, RoomsUntouched DEF writeMessage, ReaderAt, hubVars, chanVars, pumpVars, histVars
<1>20. ASSUME NEW c \in Client, writePumpEnds(c) PROVE RoomInv'
  BY <1>0, <1>20, RoomsUntouched DEF writePumpEnds, ReaderAt, hubVars, chanVars, pumpVars, histVars
<1>21. ASSUME cancel PROVE RoomInv'
  BY <1>0, <1>21, RoomsUntouched DEF cancel, ReaderAt, hubVars, chanVars, pumpVars, histVars
<1>22. ASSUME UNCHANGED vars PROVE RoomInv'
  BY <1>0, <1>22, RoomsUntouched DEF vars, pumpVars
<1> QED
  BY <1>1, <1>2, <1>3, <1>4, <1>5, <1>6, <1>7, <1>8, <1>9, <1>10, <1>11, <1>12,
     <1>13, <1>14, <1>15, <1>16, <1>17, <1>18, <1>19, <1>20, <1>21, <1>22, <1>23
     DEF Next, Run, handleMessage, writePump

(* Whatever JoinRoom, leaveRoom and the removal of dead clients do, rooms  *)
(* and clients say the same of each other, but for a client inside         *)
(* JoinRoom and for those whose room was deleted under them or has removed *)
(* them.                                                                   *)
THEOREM RoomsAgreeTheorem == Spec => []RoomsAgree
<1>1. Init => RoomInv
  BY DEF Init, RoomInv, RoomsAgree, EnteredIsListed, Lists, CurrentIsMade, UnmadeIsEmpty,
         HeldIsMade, RoomObject
<1>2. RoomInv => RoomsAgree
  BY DEF RoomInv
<1> QED
  BY <1>1, <1>2, RoomInvStep, TypeCorrect, PTL DEF Spec

-----------------------------------------------------------------------------
(* Broadcasts without gaps.  A buffer mixes broadcasts with room messages  *)
(* and replies: its marks say how far in the log each of its places is.    *)

HIDE HubAssumption

LEMMA LeastNat ==
  ASSUME NEW T, T \subseteq Nat, T # {}
  PROVE  \E x \in T : \A y \in T : x <= y
<1>1. PICK x \in T : \A y \in T : ~(<<y, x>> \in OpToRel(<, Nat))
  BY WFMin, NatLessThanWellFounded
<1>2. \A y \in T : ~(y < x)
  BY <1>1 DEF OpToRel
<1> QED
  BY <1>2

(* The equation that defines the loop of Broadcasts.                       *)
Filter(s, f) ==
  [i \in 0 .. Len(s) |->
     IF i = 0 THEN <<>>
     ELSE IF s[i][1] = All THEN Append(f[i - 1], s[i][2]) ELSE f[i - 1]]

LEMMA OneFilter ==
  ASSUME NEW S, NEW s \in Seq(S), NEW f, NEW g, f = Filter(s, f), g = Filter(s, g)
  PROVE  f = g
<1> DEFINE D == 0 .. Len(s)
           T == {i \in D : f[i] # g[i]}
<1>1. D \subseteq Nat /\ Len(s) \in Nat
  BY LenProperties
<1>2. T = {}
  <2>1. SUFFICES ASSUME T # {} PROVE FALSE
    OBVIOUS
  <2>2. T \subseteq Nat
    BY <1>1
  <2>3. PICK n \in T : \A m \in T : n <= m
    <3> HIDE DEF T
    <3> QED BY <2>1, <2>2, LeastNat
  <2>4. n \in D /\ n \in Nat /\ f[n] # g[n]
    BY <1>1
  <2>5. CASE n = 0
    <3>1. Filter(s, f)[n] = <<>> /\ Filter(s, g)[n] = <<>>
      BY <2>4, <2>5 DEF Filter
    <3> QED BY <2>4, <3>1
  <2>6. CASE n # 0
    <3>1. n - 1 \in D /\ ~(n <= n - 1)
      BY <1>1, <2>4, <2>6
    <3>2. f[n - 1] = g[n - 1]
      BY <2>3, <3>1
    <3>3. Filter(s, f)[n] = Filter(s, g)[n]
      BY <2>4, <2>6, <3>2 DEF Filter
    <3> QED BY <2>4, <3>3
  <2> QED BY <2>5, <2>6
<1>3. \A i \in D : f[i] = g[i]
  BY <1>2
<1>4. f = [i \in D |-> f[i]] /\ g = [i \in D |-> g[i]]
  <2>1. /\ Filter(s, f) = [i \in D |-> Filter(s, f)[i]]
        /\ Filter(s, g) = [i \in D |-> Filter(s, g)[i]]
    BY DEF Filter
  <2> HIDE DEF D
  <2> QED BY <2>1
<1> HIDE DEF D
<1> QED
  BY <1>3, <1>4

LEMMA BroadcastsAre ==
  ASSUME NEW S, NEW s \in Seq(S), NEW f, f = Filter(s, f)
  PROVE  Broadcasts(s) = f[Len(s)]
<1> DEFINE g == CHOOSE g : g = Filter(s, g)
<1>1. g = Filter(s, g)
  OBVIOUS
<1>2. g = f
  <2> HIDE DEF g
  <2> QED BY <1>1, OneFilter
<1>3. Broadcasts(s) = g[Len(s)]
  BY DEF Broadcasts, Filter
<1> QED
  BY <1>2, <1>3

(* Place i of s is behind broadcast k[i] of the log l: a broadcast in s is *)
(* the next one of l, and other messages leave the mark where it is.       *)
Marks(s, from, l, k) ==
  /\ k \in [0 .. Len(s) -> Nat]
  /\ k[0] = from
  /\ \A i \in 1 .. Len(s) :
       IF s[i][1] = All THEN k[i] = k[i - 1] + 1 /\ s[i][2] = l[k[i]]
                        ELSE k[i] = k[i - 1]
  /\ \A i \in 0 .. Len(s), j \in 0 .. Len(s) : i <= j => k[i] <= k[j]
  /\ k[Len(s)] <= Len(l)

(* The broadcasts in s are those of l behind from, up to to.               *)
Holds(s, from, l, to) == \E k : Marks(s, from, l, k) /\ k[Len(s)] = to

LEMMA HoldsRange ==
  ASSUME NEW S, NEW s \in Seq(S), NEW l \in Seq(Nat), NEW from \in Nat, NEW to,
         Holds(s, from, l, to)
  PROVE  to \in Nat /\ from <= to /\ to <= Len(l)
<1>1. PICK k : Marks(s, from, l, k) /\ k[Len(s)] = to
  BY DEF Holds
<1>2. Len(s) \in Nat /\ 0 \in 0 .. Len(s) /\ Len(s) \in 0 .. Len(s)
  BY LenProperties
<1>3. k[0] <= k[Len(s)] /\ k[Len(s)] \in Nat
  BY <1>1, <1>2 DEF Marks
<1> QED
  BY <1>1, <1>3 DEF Marks

LEMMA HoldsNone ==
  ASSUME NEW l \in Seq(Nat), NEW n \in Nat, n <= Len(l)
  PROVE  Holds(<<>>, n, l, n)
<1> DEFINE k == [i \in 0 .. 0 |-> n]
<1>1. Len(<<>>) = 0
  BY EmptySeq
<1>2. 0 \in 0 .. 0 /\ 1 .. 0 = {} /\ \A i \in 0 .. 0 : i = 0
  OBVIOUS
<1>3. k \in [0 .. 0 -> Nat] /\ k[0] = n
  BY <1>2
<1> HIDE DEF k
<1>4. Marks(<<>>, n, l, k)
  BY <1>1, <1>2, <1>3 DEF Marks
<1> QED
  BY <1>1, <1>3, <1>4 DEF Holds

(* A broadcast that the buffer does not get: the log alone grows.          *)
LEMMA HoldsStill ==
  ASSUME NEW S, NEW s \in Seq(S), NEW l \in Seq(Nat), NEW from \in Nat, NEW to,
         Holds(s, from, l, to), NEW x \in Nat
  PROVE  Holds(s, from, Append(l, x), to)
<1>1. PICK k : Marks(s, from, l, k) /\ k[Len(s)] = to
  BY DEF Holds
<1> DEFINE m == Append(l, x)
<1>2. /\ Len(m) = Len(l) + 1 /\ Len(l) \in Nat /\ Len(s) \in Nat
      /\ \A i \in 1 .. Len(l) : m[i] = l[i]
  BY AppendProperties, LenProperties
<1> HIDE DEF m
<1>3. ASSUME NEW i \in 1 .. Len(s)
      PROVE  IF s[i][1] = All THEN k[i] = k[i - 1] + 1 /\ s[i][2] = m[k[i]]
                              ELSE k[i] = k[i - 1]
  <2>1. i \in 0 .. Len(s) /\ i - 1 \in 0 .. Len(s) /\ Len(s) \in 0 .. Len(s) /\ i <= Len(s)
    BY <1>2
  <2>2. k[i] \in Nat /\ k[i - 1] \in Nat /\ k[i] <= k[Len(s)] /\ k[Len(s)] <= Len(l)
    BY <1>1, <2>1 DEF Marks
  <2>3. IF s[i][1] = All THEN k[i] = k[i - 1] + 1 /\ s[i][2] = l[k[i]]
                         ELSE k[i] = k[i - 1]
    BY <1>1 DEF Marks
  <2>4. s[i][1] = All => k[i] \in 1 .. Len(l)
    <3>1. k[Len(s)] \in Nat
      BY <1>1, <2>1 DEF Marks
    <3> QED BY <1>2, <2>2, <2>3, <3>1, SMTT(60)
  <2> QED BY <1>2, <2>3, <2>4
<1>4. k[Len(s)] \in Nat
  BY <1>1, <1>2 DEF Marks
<1>5. k[Len(s)] <= Len(m)
  <2>1. k[Len(s)] <= Len(l)
    BY <1>1 DEF Marks
  <2> QED BY <1>2, <1>4, <2>1
<1>6. Marks(s, from, m, k)
  BY <1>1, <1>3, <1>5 DEF Marks
<1> QED
  BY <1>1, <1>6 DEF Holds, m

(* A room message or a reply comes into the buffer.                        *)
LEMMA HoldsOther ==
  ASSUME NEW S, NEW s \in Seq(S), NEW l \in Seq(Nat), NEW from \in Nat, NEW to,
         Holds(s, from, l, to), NEW e \in S, e[1] # All
  PROVE  Holds(Append(s, e), from, l, to)
<1>1. PICK k : Marks(s, from, l, k) /\ k[Len(s)] = to
  BY DEF Holds
<1> DEFINE t == Append(s, e)
           n == Len(s)
           j == [i \in 0 .. n + 1 |-> IF i <= n THEN k[i] ELSE k[n]]
<1>2. /\ Len(t) = n + 1 /\ n \in Nat /\ t[n + 1] = e
      /\ \A i \in 1 .. n : t[i] = s[i]
  BY AppendProperties, LenProperties
<1>3. /\ \A i \in 0 .. n : j[i] = k[i]
      /\ j[n + 1] = k[n]
  BY <1>2
<1>4. /\ \A i \in 0 .. n : k[i] \in Nat
      /\ k[0] = from /\ k[n] <= Len(l)
      /\ \A i \in 1 .. n : IF s[i][1] = All THEN k[i] = k[i - 1] + 1 /\ s[i][2] = l[k[i]]
                                            ELSE k[i] = k[i - 1]
      /\ \A i \in 0 .. n, h \in 0 .. n : i <= h => k[i] <= k[h]
  BY <1>1 DEF Marks
<1>5. j \in [0 .. n + 1 -> Nat]
  BY <1>2, <1>4
<1> HIDE DEF t, n, j
<1>6. ASSUME NEW i \in 1 .. n + 1
      PROVE  IF t[i][1] = All THEN j[i] = j[i - 1] + 1 /\ t[i][2] = l[j[i]]
                              ELSE j[i] = j[i - 1]
  <2>1. CASE i = n + 1
    <3>1. j[i] = k[n] /\ i - 1 = n /\ n \in 0 .. n
      BY <1>2, <1>3, <2>1
    <3> QED BY <1>2, <1>3, <2>1, <3>1
  <2>2. CASE i # n + 1
    <3>1. i \in 1 .. n /\ i \in 0 .. n /\ i - 1 \in 0 .. n
      BY <1>2, <2>2
    <3>2. t[i] = s[i] /\ j[i] = k[i] /\ j[i - 1] = k[i - 1]
      BY <1>2, <1>3, <3>1
    <3> QED BY <1>4, <3>1, <3>2
  <2> QED BY <2>1, <2>2
<1>7. ASSUME NEW i \in 0 .. n + 1, NEW h \in 0 .. n + 1, i <= h
      PROVE  j[i] <= j[h]
  <2>1. n \in 0 .. n /\ k[n] \in Nat
    BY <1>2, <1>4
  <2>2. CASE h = n + 1
    <3>1. CASE i = n + 1
      BY <1>3, <2>1, <2>2, <3>1
    <3>2. CASE i # n + 1
      <4>1. i \in 0 .. n
        BY <1>2, <3>2
      <4>2. n \in 0 .. n /\ i <= n
        BY <1>2, <4>1
      <4>3. k[i] <= k[n]
        BY <1>4, <4>1, <4>2
      <4> QED BY <1>3, <2>2, <4>1, <4>3
    <3> QED BY <3>1, <3>2
  <2>3. CASE h # n + 1
    <3>1. i \in 0 .. n /\ h \in 0 .. n
      BY <1>2, <1>7, <2>3
    <3> QED BY <1>3, <1>4, <1>7, <3>1
  <2> QED BY <2>2, <2>3
<1>8. j[0] = from /\ j[n + 1] = k[n] /\ j[n + 1] <= Len(l)
  <2>1. 0 \in 0 .. n
    BY <1>2
  <2> QED BY <1>3, <1>4, <2>1
<1>9. Marks(t, from, l, j)
  BY <1>2, <1>5, <1>6, <1>7, <1>8 DEF Marks
<1>10. j[Len(t)] = to
  BY <1>1, <1>2, <1>8 DEF n
<1> QED
  BY <1>9, <1>10 DEF Holds, t

(* A broadcast comes into a buffer that has missed none.                   *)
LEMMA HoldsNext ==
  ASSUME NEW S, NEW s \in Seq(S), NEW l \in Seq(Nat), NEW from \in Nat,
         Holds(s, from, l, Len(l)), NEW x \in Nat, <<All, x>> \in S
  PROVE  Holds(Append(s, <<All, x>>), from, Append(l, x), Len(Append(l, x)))
<1> DEFINE m == Append(l, x)
           e == <<All, x>>
           t == Append(s, e)
           n == Len(s)
<1>1. Holds(s, from, m, Len(l))
  BY HoldsStill
<1>2. /\ Len(m) = Len(l) + 1 /\ m[Len(l) + 1] = x /\ Len(l) \in Nat
      /\ Len(t) = n + 1 /\ n \in Nat /\ t[n + 1] = e
      /\ \A i \in 1 .. n : t[i] = s[i]
  BY AppendProperties, LenProperties
<1>3. e[1] = All /\ e[2] = x
  OBVIOUS
<1> HIDE DEF m, e, t
<1>4. PICK k : Marks(s, from, m, k) /\ k[Len(s)] = Len(l)
  BY <1>1 DEF Holds
<1> DEFINE j == [i \in 0 .. n + 1 |-> IF i <= n THEN k[i] ELSE Len(m)]
<1>5. /\ \A i \in 0 .. n : j[i] = k[i]
      /\ j[n + 1] = Len(m)
  BY <1>2
<1>6. /\ \A i \in 0 .. n : k[i] \in Nat
      /\ k[0] = from /\ k[n] = Len(l)
      /\ \A i \in 1 .. n : IF s[i][1] = All THEN k[i] = k[i - 1] + 1 /\ s[i][2] = m[k[i]]
                                            ELSE k[i] = k[i - 1]
      /\ \A i \in 0 .. n, h \in 0 .. n : i <= h => k[i] <= k[h]
  BY <1>4 DEF Marks
<1>7. j \in [0 .. n + 1 -> Nat]
  BY <1>2, <1>6
<1> HIDE DEF n, j
<1>8. ASSUME NEW i \in 1 .. n + 1
      PROVE  IF t[i][1] = All THEN j[i] = j[i - 1] + 1 /\ t[i][2] = m[j[i]]
                              ELSE j[i] = j[i - 1]
  <2>1. CASE i = n + 1
    <3>1. i - 1 = n /\ n \in 0 .. n /\ t[i] = e /\ j[i] = Len(l) + 1
      BY <1>2, <1>5, <2>1
    <3>2. j[i - 1] = Len(l)
      BY <1>5, <1>6, <3>1
    <3> QED BY <1>2, <1>3, <3>1, <3>2
  <2>2. CASE i # n + 1
    <3>1. i \in 1 .. n /\ i \in 0 .. n /\ i - 1 \in 0 .. n
      BY <1>2, <2>2
    <3>2. t[i] = s[i] /\ j[i] = k[i] /\ j[i - 1] = k[i - 1]
      BY <1>2, <1>5, <3>1
    <3> QED BY <1>6, <3>1, <3>2
  <2> QED BY <2>1, <2>2
<1>9. ASSUME NEW i \in 0 .. n + 1, NEW h \in 0 .. n + 1, i <= h
      PROVE  j[i] <= j[h]
  <2>1. CASE h = n + 1
    <3>1. CASE i = n + 1
      BY <1>2, <1>5, <2>1, <3>1
    <3>2. CASE i # n + 1
      <4>1. i \in 0 .. n
        BY <1>2, <3>2
      <4>2. n \in 0 .. n /\ i <= n
        BY <1>2, <4>1
      <4>3. k[i] <= k[n] /\ k[i] \in Nat
        BY <1>6, <4>1, <4>2
      <4>4. k[i] <= Len(l) /\ j[i] = k[i] /\ j[h] = Len(l) + 1
        BY <1>2, <1>5, <1>6, <2>1, <4>1, <4>3
      <4> QED BY <1>2, <4>3, <4>4
    <3> QED BY <3>1, <3>2
  <2>2. CASE h # n + 1
    <3>1. i \in 0 .. n /\ h \in 0 .. n
      BY <1>2, <1>9, <2>2
    <3> QED BY <1>5, <1>6, <1>9, <3>1
  <2> QED BY <2>1, <2>2
<1>10. j[0] = from
  <2>1. 0 \in 0 .. n
    BY <1>2
  <2> QED BY <1>5, <1>6, <2>1
<1>11. Marks(t, from, m, j)
  BY <1>2, <1>5, <1>7, <1>8, <1>9, <1>10 DEF Marks
<1>12. j[Len(t)] = Len(m)
  BY <1>2, <1>5
<1> QED
  BY <1>11, <1>12 DEF Holds, t, m, e

(* The writer takes the first message: if it is a broadcast it is the      *)
(* next one of the log, and the rest is held from there.                   *)
LEMMA HoldsRest ==
  ASSUME NEW S, NEW s \in Seq(S), NEW l \in Seq(Nat), NEW from \in Nat, NEW to,
         Holds(s, from, l, to), s # <<>>
  PROVE  /\ Head(s)[1] = All => /\ Head(s)[2] = l[from + 1]
                                /\ from + 1 \in 1 .. Len(l)
                                /\ Holds(Tail(s), from + 1, l, to)
         /\ Head(s)[1] # All => Holds(Tail(s), from, l, to)
<1>1. PICK k : Marks(s, from, l, k) /\ k[Len(s)] = to
  BY DEF Holds
<1> DEFINE t == Tail(s)
           n == Len(t)
           j == [i \in 0 .. n |-> k[i + 1]]
<1>2. /\ n \in Nat /\ Len(s) = n + 1 /\ Head(s) = s[1]
      /\ \A i \in 1 .. n : t[i] = s[i + 1]
  <2>1. Len(s) \in Nat \ {0} /\ t \in Seq(S) /\ n = Len(s) - 1
    BY EmptySeq, HeadTailProperties
  <2> QED BY <2>1, HeadTailProperties
<1>3. /\ \A i \in 0 .. n + 1 : k[i] \in Nat
      /\ k[0] = from /\ k[n + 1] <= Len(l) /\ k[n + 1] = to
      /\ \A i \in 1 .. n + 1 : IF s[i][1] = All THEN k[i] = k[i - 1] + 1 /\ s[i][2] = l[k[i]]
                                                ELSE k[i] = k[i - 1]
      /\ \A i \in 0 .. n + 1, h \in 0 .. n + 1 : i <= h => k[i] <= k[h]
  BY <1>1, <1>2 DEF Marks
<1>4. \A i \in 0 .. n : j[i] = k[i + 1]
  OBVIOUS
<1>5. j \in [0 .. n -> Nat]
  <2>1. \A i \in 0 .. n : i + 1 \in 0 .. n + 1
    BY <1>2
  <2> QED BY <1>3, <2>1
<1> HIDE DEF t, n, j
<1>6. ASSUME NEW i \in 1 .. n
      PROVE  IF t[i][1] = All THEN j[i] = j[i - 1] + 1 /\ t[i][2] = l[j[i]]
                              ELSE j[i] = j[i - 1]
  <2>1. /\ i \in 0 .. n /\ i - 1 \in 0 .. n /\ (i - 1) + 1 = i /\ (i + 1) - 1 = i
        /\ i + 1 \in 1 .. n + 1
    BY <1>2
  <2>2. j[i] = k[i + 1] /\ j[i - 1] = k[i] /\ t[i] = s[i + 1]
    BY <1>2, <1>4, <2>1
  <2> DEFINE h == i + 1
  <2>3. h \in 1 .. n + 1 /\ h - 1 = i
    BY <2>1
  <2> HIDE DEF h
  <2>4. IF s[h][1] = All THEN k[h] = k[h - 1] + 1 /\ s[h][2] = l[k[h]]
                         ELSE k[h] = k[h - 1]
    BY <1>3, <2>3
  <2> QED BY <2>2, <2>3, <2>4 DEF h
<1>7. ASSUME NEW i \in 0 .. n, NEW h \in 0 .. n, i <= h
      PROVE  j[i] <= j[h]
  <2>1. i + 1 \in 0 .. n + 1 /\ h + 1 \in 0 .. n + 1 /\ i + 1 <= h + 1
    BY <1>2, <1>7
  <2> QED BY <1>3, <1>4, <2>1
<1>8. j[0] = k[1] /\ j[n] = to /\ j[n] <= Len(l)
  <2>1. 0 \in 0 .. n /\ n \in 0 .. n /\ 0 + 1 = 1
    BY <1>2
  <2> QED BY <1>3, <1>4, <2>1
<1>9. Marks(t, k[1], l, j)
  BY <1>5, <1>6, <1>7, <1>8 DEF Marks, n
<1>10. Holds(t, k[1], l, to)
  BY <1>8, <1>9 DEF Holds, n
<1>11. 1 \in 1 .. n + 1 /\ 1 - 1 = 0 /\ 1 \in 0 .. n + 1 /\ n + 1 \in 0 .. n + 1 /\ 1 <= n + 1
  BY <1>2
<1>12. IF s[1][1] = All THEN k[1] = k[0] + 1 /\ s[1][2] = l[k[1]] ELSE k[1] = k[0]
  BY <1>3, <1>11
<1>13. k[1] <= k[n + 1] /\ k[1] \in Nat /\ k[n + 1] \in Nat
  BY <1>3, <1>11
<1>14. CASE s[1][1] = All
  <2>1. k[1] = from + 1 /\ s[1][2] = l[from + 1]
    BY <1>3, <1>12, <1>14
  <2>2. from + 1 \in 1 .. Len(l)
    <3>1. Len(l) \in Nat
      BY LenProperties
    <3> QED BY <1>3, <1>13, <2>1, <3>1
  <2> QED BY <1>2, <1>10, <1>14, <2>1, <2>2 DEF t
<1>15. CASE s[1][1] # All
  BY <1>2, <1>3, <1>10, <1>12, <1>15 DEF t
<1> QED
  BY <1>14, <1>15

LEMMA HoldsAre ==
  ASSUME NEW S, NEW s \in Seq(S), NEW l \in Seq(Nat), NEW from \in Nat, NEW to,
         Holds(s, from, l, to)
  PROVE  Broadcasts(s) = SubSeq(l, from + 1, to)
<1>1. PICK k : Marks(s, from, l, k) /\ k[Len(s)] = to
  BY DEF Holds
<1> DEFINE D == 0 .. Len(s)
           f == [i \in D |-> SubSeq(l, from + 1, k[i])]
<1>2. Len(s) \in Nat /\ Len(l) \in Nat /\ \A i \in 1 .. Len(l) : l[i] \in Nat
  BY LenProperties, ElementOfSeq
<1>3. /\ \A i \in D : k[i] \in Nat
      /\ k[0] = from /\ k[Len(s)] <= Len(l)
      /\ \A i \in 1 .. Len(s) : IF s[i][1] = All THEN k[i] = k[i - 1] + 1 /\ s[i][2] = l[k[i]]
                                                 ELSE k[i] = k[i - 1]
      /\ \A i \in D, h \in D : i <= h => k[i] <= k[h]
  BY <1>1 DEF Marks
<1>4. \A i \in D : from <= k[i] /\ k[i] <= Len(l)
  <2>1. ASSUME NEW i \in D PROVE from <= k[i] /\ k[i] <= Len(l)
    <3>1. 0 \in D /\ Len(s) \in D /\ 0 <= i /\ i <= Len(s)
      BY <1>2
    <3>2. k[0] <= k[i] /\ k[i] <= k[Len(s)] /\ k[i] \in Nat /\ k[Len(s)] \in Nat
      BY <1>3, <3>1
    <3> QED BY <1>2, <1>3, <3>2
  <2> QED BY <2>1
<1>8. f = [i \in D |-> f[i]] /\ \A i \in D : f[i] = SubSeq(l, from + 1, k[i])
  OBVIOUS
<1> HIDE DEF f
<1>5. ASSUME NEW i \in D PROVE f[i] = Filter(s, f)[i]
  <2>1. f[i] = SubSeq(l, from + 1, k[i])
    BY <1>8
  <2>2. CASE i = 0
    <3>1. SubSeq(l, from + 1, from) = <<>>
      BY SubSeqEmpty
    <3>2. Filter(s, f)[i] = <<>>
      BY <2>2 DEF Filter
    <3> QED BY <1>3, <2>1, <2>2, <3>1, <3>2
  <2>3. CASE i # 0
    <3>1. i \in 1 .. Len(s) /\ i - 1 \in D
      BY <1>2, <2>3
    <3>2. f[i - 1] = SubSeq(l, from + 1, k[i - 1])
      BY <1>8, <3>1
    <3>3. Filter(s, f)[i] = IF s[i][1] = All THEN Append(f[i - 1], s[i][2]) ELSE f[i - 1]
      BY <2>3 DEF Filter
    <3>4. CASE s[i][1] = All
      <4>1. k[i] = k[i - 1] + 1 /\ s[i][2] = l[k[i]]
        BY <1>3, <3>1, <3>4
      <4>2. /\ k[i] \in Nat /\ k[i - 1] \in Nat /\ from <= k[i - 1] /\ k[i] <= Len(l)
        BY <1>3, <1>4, <3>1
      <4>3. /\ from + 1 \in 1 .. Len(l) /\ k[i] \in from + 1 .. Len(l)
            /\ k[i] - 1 = k[i - 1] /\ k[i] \in 1 .. Len(l)
            /\ from + 1 .. k[i - 1] \subseteq 1 .. Len(l)
        <5> DEFINE p == k[i - 1]
                   q == k[i]
                   m == Len(l)
        <5>1. /\ q = p + 1 /\ q \in Nat /\ p \in Nat /\ m \in Nat
              /\ from <= p /\ q <= m
          BY <1>2, <4>1, <4>2
        <5> HIDE DEF p, q, m
        <5>2. /\ from + 1 \in 1 .. m /\ q \in from + 1 .. m
              /\ q - 1 = p /\ q \in 1 .. m /\ from + 1 .. p \subseteq 1 .. m
          BY <5>1
        <5> QED BY <5>2 DEF p, q, m
      <4>4. SubSeq(l, from + 1, k[i]) = SubSeq(l, from + 1, k[i - 1]) \o <<l[k[i]]>>
        BY <4>3, SubSeqRecursiveSecond
      <4>5. SubSeq(l, from + 1, k[i - 1]) \in Seq(Nat)
        <5>1. \A h \in from + 1 .. k[i - 1] : l[h] \in Nat
          BY <1>2, <4>3
        <5> QED BY <4>2, <5>1, SubSeqProperties
      <4>6. Append(SubSeq(l, from + 1, k[i - 1]), l[k[i]])
              = SubSeq(l, from + 1, k[i - 1]) \o <<l[k[i]]>>
        BY <1>2, <4>3, <4>5, AppendIsConcat
      <4>7. Filter(s, f)[i] = Append(f[i - 1], s[i][2])
        BY <3>3, <3>4
      <4> QED BY <2>1, <3>2, <4>1, <4>4, <4>6, <4>7
    <3>5. CASE s[i][1] # All
      <4>1. k[i] = k[i - 1]
        BY <1>3, <3>1, <3>5
      <4>2. Filter(s, f)[i] = f[i - 1]
        BY <3>3, <3>5
      <4> QED BY <2>1, <3>2, <4>1, <4>2
    <3> QED BY <3>4, <3>5
  <2> QED BY <2>2, <2>3
<1>6. f = Filter(s, f)
  <2>1. Filter(s, f) = [i \in D |-> Filter(s, f)[i]]
    BY DEF Filter
  <2> HIDE DEF D
  <2> QED BY <1>5, <1>8, <2>1
<1>7. f[Len(s)] = SubSeq(l, from + 1, to)
  BY <1>1, <1>2, <1>8, SMTT(60)
<1> QED
  BY <1>6, <1>7, BroadcastsAre

(* The clients that broadcastToAll has just passed over.                   *)
Missed == IF hub = "cleanup" THEN dead ELSE {}

GapTypes ==
  log \in Seq(Nat) /\ since \in [Client -> Nat] /\ received \in [Client -> Seq(Nat)]

(* Nothing is sent to a client before it registers.                        *)
Silent(c) ==
  reader[c] \in {"new", "registering"} =>
    /\ writer[c] = "off" /\ send[c] = <<>> /\ received[c] = <<>>
    /\ \A o \in RoomObject : c \notin members[o]

(* What a connection got is what the log has from its registration on.     *)
GotInOrder(c) ==
  /\ since[c] + Len(received[c]) <= Len(log)
  /\ \A i \in 1 .. Len(received[c]) : received[c][i] = log[since[c] + i]

(* And its buffer goes on from there, for a registered one up to the end.  *)
Served(c) ==
  \E to \in Nat : /\ Holds(send[c], since[c] + Len(received[c]), log, to)
                  /\ c \in clients \ Missed => to = Len(log)

(* NoGap is inductive only with the buffers of clients that were removed,  *)
(* which their write pumps still drain.                                    *)
GapInv ==
  /\ GapTypes
  /\ \A c \in Client : /\ Silent(c) /\ GotInOrder(c)
                       /\ writer[c] = "writing" => Served(c)

LEMMA GapImplies ==
  ASSUME TypeOK, GapInv
  PROVE  NoGap
<1> SUFFICES ASSUME NEW c \in Client
             PROVE  /\ received[c] = SubSeq(Since(c), 1, Len(received[c]))
                    /\ c \in clients \ dead /\ writer[c] = "writing" =>
                         received[c] \o Broadcasts(send[c]) = Since(c)
  BY DEF NoGap
<1> DEFINE r == received[c]
           f == since[c]
           n == Len(r)
           m == Len(log)
<1>1. /\ log \in Seq(Nat) /\ f \in Nat /\ r \in Seq(Nat)
      /\ n \in Nat /\ m \in Nat /\ f + n <= m
      /\ \A i \in 1 .. n : r[i] = log[f + i]
      /\ \A i \in 1 .. m : log[i] \in Nat
  BY LenProperties, ElementOfSeq DEF GapInv, GapTypes, GotInOrder
<1>2. send[c] \in Seq(Message)
  BY DEF TypeOK, BuffersOK
<1>3. Since(c) = SubSeq(log, f + 1, m)
  BY DEF Since
<1>4. writer[c] = "writing" /\ c \in clients \ dead => Holds(send[c], f + n, log, m)
  BY DEF GapInv, Served, Missed
<1> HIDE DEF r, f, n, m
<1>5. r = SubSeq(log, f + 1, f + n)
  <2> DEFINE t == SubSeq(log, f + 1, f + n)
  <2>1. \A i \in f + 1 .. f + n : log[i] \in Nat
    BY <1>1
  <2>2. f + 1 \in Int /\ f + n \in Int
    BY <1>1
  <2>3. /\ t \in Seq(Nat)
        /\ Len(t) = IF f + 1 <= f + n THEN (f + n) - (f + 1) + 1 ELSE 0
        /\ \A i \in 1 .. (f + n) - (f + 1) + 1 : t[i] = log[(f + 1) + i - 1]
    BY <2>1, <2>2, SubSeqProperties
  <2>4. Len(t) = n /\ \A i \in 1 .. n : t[i] = log[f + i]
    <3>1. (f + n) - (f + 1) + 1 = n /\ \A i \in 1 .. n : (f + 1) + i - 1 = f + i
      BY <1>1
    <3>2. f + 1 <= f + n <=> n # 0
      BY <1>1
    <3> QED BY <1>1, <2>3, <3>1, <3>2
  <2> HIDE DEF t
  <2>5. \A i \in 1 .. n : r[i] = t[i]
    BY <1>1, <2>4
  <2>6. r = t
    BY <1>1, <2>3, <2>4, <2>5, SeqEqual DEF n
  <2> QED BY <2>6 DEF t
<1>6. r = SubSeq(Since(c), 1, n)
  <2>1. CASE n = 0
    <3>1. r = <<>>
      BY <1>1, <2>1, EmptySeq DEF n
    <3>2. SubSeq(Since(c), 1, n) = <<>>
      BY <2>1, SubSeqEmpty
    <3> QED BY <3>1, <3>2
  <2>2. CASE n # 0
    <3>1. /\ f + 1 \in 1 .. m /\ m \in 1 .. m
          /\ 1 \in 1 .. m - (f + 1) + 1 /\ n \in 1 .. m - (f + 1) + 1
          /\ (f + 1) + 1 - 1 = f + 1 /\ (f + 1) + n - 1 = f + n
      BY <1>1, <2>2
    <3>2. SubSeq(SubSeq(log, f + 1, m), 1, n) = SubSeq(log, (f + 1) + 1 - 1, (f + 1) + n - 1)
      BY <1>1, <3>1, SubSeqOfSubSeq DEF m
    <3> QED BY <1>3, <1>5, <3>1, <3>2
  <2> QED BY <2>1, <2>2
<1>7. ASSUME writer[c] = "writing", c \in clients \ dead
      PROVE  r \o Broadcasts(send[c]) = Since(c)
  <2>1. Broadcasts(send[c]) = SubSeq(log, (f + n) + 1, m)
    <3>1. f + n \in Nat /\ Holds(send[c], f + n, log, m)
      BY <1>1, <1>4, <1>7
    <3> QED BY <1>1, <1>2, <3>1, HoldsAre
  <2>2. f + 1 \in 1 .. m + 1 /\ f + n \in (f + 1) - 1 .. m /\ m \in f + n .. m
    BY <1>1
  <2>3. SubSeq(log, f + 1, f + n) \o SubSeq(log, (f + n) + 1, m) = SubSeq(log, f + 1, m)
    BY <1>1, <2>2, ConcatAdjacentSubSeq DEF m
  <2> QED BY <1>3, <1>5, <2>1, <2>3
<1> QED
  BY <1>6, <1>7 DEF r, n

LEMMA GapInitially ==
  ASSUME Init
  PROVE  GapInv
<1>1. log = <<>> /\ log \in Seq(Nat) /\ Len(log) = 0
  BY EmptySeq DEF Init
<1>2. ASSUME NEW c \in Client
      PROVE  /\ Silent(c) /\ writer[c] # "writing"
             /\ received[c] = <<>> /\ since[c] = 0
  BY DEF Init, Silent
<1>3. ASSUME NEW c \in Client PROVE GotInOrder(c)
  BY <1>1, <1>2, EmptySeq DEF GotInOrder
<1>4. received \in [Client -> Seq(Nat)] /\ since \in [Client -> Nat]
  BY EmptySeq DEF Init
<1> QED
  BY <1>1, <1>2, <1>3, <1>4 DEF GapInv, GapTypes

(* A step that sends and writes nothing, registers nobody, and lets no one *)
(* into a room who has not registered.                                     *)
LEMMA GapKept ==
  ASSUME GapInv, UNCHANGED <<send, log, since, received>>,
         clients' \ Missed' \subseteq clients \ Missed,
         \A c \in Client :
           /\ writer'[c] = "writing" => writer[c] = "writing"
           /\ reader'[c] \in {"new", "registering"} =>
                /\ reader[c] \in {"new", "registering"} /\ writer'[c] = writer[c]
                /\ \A o \in RoomObject : c \in members'[o] => c \in members[o]
  PROVE  GapInv'
<1>1. GapTypes'
  BY DEF GapInv, GapTypes
<1>2. ASSUME NEW c \in Client PROVE Silent(c)' /\ GotInOrder(c)'
  BY DEF GapInv, Silent, GotInOrder
<1>3. ASSUME NEW c \in Client, writer'[c] = "writing" PROVE Served(c)'
  <2>1. Served(c)
    BY <1>3 DEF GapInv
  <2>2. PICK to \in Nat : /\ Holds(send[c], since[c] + Len(received[c]), log, to)
                          /\ c \in clients \ Missed => to = Len(log)
    BY <2>1 DEF Served
  <2>3. c \in clients' \ Missed' => to = Len(log)'
    BY <2>2
  <2>4. Holds(send'[c], since'[c] + Len(received'[c]), log', to)
    BY <2>2
  <2> QED BY <2>3, <2>4 DEF Served
<1> QED
  BY <1>1, <1>2, <1>3 DEF GapInv

USE HubAssumption

(* registerClient: the newcomer's broadcasts begin at the end of the log.  *)
LEMMA GapRegister ==
  ASSUME TypeOK, GapInv, NEW c \in Client, registerClient(c)
  PROVE  GapInv'
<1>1. /\ hub = "select" /\ reader[c] = "registering"
      /\ clients' = clients \cup {c}
      /\ reader' = [reader EXCEPT ![c] = "reading"]
      /\ writer' = [writer EXCEPT ![c] = "writing"]
      /\ since' = [since EXCEPT ![c] = Len(log)]
      /\ hub' = hub
      /\ UNCHANGED <<members, send, log, received>>
  BY DEF registerClient, HubAt, ReaderAt, roomVars, hubVars
<1>2. /\ DOMAIN reader = Client /\ DOMAIN writer = Client
      /\ log \in Seq(Nat) /\ since \in [Client -> Nat] /\ Len(log) \in Nat
      /\ received \in [Client -> Seq(Nat)]
  BY LenProperties DEF TypeOK, PumpsOK, GapInv, GapTypes
<1>3. send[c] = <<>> /\ received[c] = <<>>
  BY <1>1 DEF GapInv, Silent
<1>4. Missed = {} /\ Missed' = {}
  BY <1>1 DEF Missed
<1>5. GapTypes'
  BY <1>1, <1>2 DEF GapTypes
<1>6. ASSUME NEW d \in Client, d # c
      PROVE  Silent(d)' /\ GotInOrder(d)' /\ (writer'[d] = "writing" => Served(d)')
  <2>1. Silent(d) /\ GotInOrder(d) /\ (writer[d] = "writing" => Served(d))
    BY DEF GapInv
  <2>2. reader'[d] = reader[d] /\ writer'[d] = writer[d] /\ since'[d] = since[d]
    BY <1>1, <1>2, <1>6
  <2>3. d \in clients' \ Missed' => d \in clients \ Missed
    BY <1>1, <1>4, <1>6
  <2> QED BY <1>1, <2>1, <2>2, <2>3 DEF Silent, GotInOrder, Served
<1>7. Silent(c)' /\ GotInOrder(c)' /\ Served(c)'
  <2>1. /\ reader'[c] = "reading" /\ since'[c] = Len(log) /\ Len(received'[c]) = 0
        /\ send'[c] = <<>>
    BY <1>1, <1>2, <1>3, EmptySeq
  <2>2. Silent(c)'
    BY <2>1 DEF Silent
  <2>3. GotInOrder(c)'
    BY <1>1, <1>2, <2>1 DEF GotInOrder
  <2>4. Holds(<<>>, Len(log), log, Len(log))
    BY <1>2, HoldsNone
  <2>5. since'[c] + Len(received'[c]) = Len(log)
    BY <1>2, <2>1
  <2> QED BY <1>1, <1>2, <2>1, <2>2, <2>3, <2>4, <2>5 DEF Served
<1> QED
  BY <1>5, <1>6, <1>7 DEF GapInv

(* broadcastToAll: every registered client is given the next broadcast, or *)
(* is about to be removed.                                                 *)
LEMMA GapBroadcast ==
  ASSUME TypeOK, OpenInv, GapInv, broadcastToAll
  PROVE  GapInv'
<1> DEFINE x == Head(broadcast)
           full == {c \in clients : Len(send[c]) = ClientBuffer}
<1>1. /\ hub = "select" /\ broadcast # <<>> /\ log' = Append(log, x)
      /\ UNCHANGED <<clients, members, reader, writer, since, received>>
      /\ Deliver(clients, <<All, x>>, "cleanup")
  BY DEF broadcastToAll, HubAt, roomVars, pumpVars
<1>2. clients \cap closed = {}
  BY <1>1 DEF OpenInv, RegisteredIsOpen
<1>3. /\ send' = [c \in Client |-> IF c \in clients \ full THEN Append(send[c], <<All, x>>)
                                                         ELSE send[c]]
      /\ dead' = full
      /\ hub' = IF full = {} THEN "select" ELSE "cleanup"
  BY <1>1, <1>2 DEF Deliver
<1>4. x \in Nat /\ <<All, x>> \in Message
  <2>1. broadcast \in Seq(0 .. MaxMessages)
    BY DEF TypeOK, BuffersOK
  <2>2. x \in 0 .. MaxMessages
    BY <1>1, <2>1, HeadTailProperties
  <2> QED BY <2>2 DEF Message
<1>5. Missed = {} /\ Missed' = full
  BY <1>1, <1>3 DEF Missed
<1> HIDE DEF x, full
<1>6. GapTypes /\ log \in Seq(Nat) /\ since \in [Client -> Nat] /\ received \in [Client -> Seq(Nat)]
  BY DEF GapInv, GapTypes
<1>7. /\ log' \in Seq(Nat) /\ Len(log') = Len(log) + 1 /\ Len(log) \in Nat
      /\ \A i \in 1 .. Len(log) : log'[i] = log[i]
  BY <1>1, <1>4, <1>6, AppendProperties, LenProperties
<1>8. GapTypes'
  BY <1>1, <1>6, <1>7 DEF GapTypes
<1>9. ASSUME NEW c \in Client
      PROVE  Silent(c)' /\ GotInOrder(c)' /\ (writer'[c] = "writing" => Served(c)')
  <2>1. Silent(c) /\ GotInOrder(c) /\ (writer[c] = "writing" => Served(c))
    BY DEF GapInv
  <2>2. since[c] \in Nat /\ Len(received[c]) \in Nat /\ send[c] \in Seq(Message)
    BY <1>6, LenProperties DEF TypeOK, BuffersOK
  <2>3. send'[c] = IF c \in clients \ full THEN Append(send[c], <<All, x>>) ELSE send[c]
    BY <1>3
  <2>4. Silent(c)'
    <3>1. reader[c] \in {"new", "registering"} => c \notin clients
      BY DEF OpenInv, NewcomerIsFresh
    <3> QED BY <1>1, <2>1, <2>3, <3>1 DEF Silent
  <2>5. GotInOrder(c)'
    <3>1. since[c] + Len(received[c]) <= Len(log)
      BY <2>1 DEF GotInOrder
    <3>2. ASSUME NEW i \in 1 .. Len(received[c]) PROVE since[c] + i \in 1 .. Len(log)
      <4> DEFINE a == since[c]
                 n == Len(received[c])
                 m == Len(log)
      <4>1. a \in Nat /\ n \in Nat /\ m \in Nat /\ a + n <= m /\ i \in 1 .. n
        BY <1>7, <2>2, <3>1
      <4> HIDE DEF a, n, m
      <4>2. a + i \in 1 .. m
        BY <4>1
      <4> QED BY <4>2 DEF a, m
    <3>3. \A i \in 1 .. Len(received[c]) : received[c][i] = log[since[c] + i]
      BY <2>1 DEF GotInOrder
    <3>4. \A i \in 1 .. Len(received[c]) : received[c][i] = log'[since[c] + i]
      BY <1>7, <3>2, <3>3
    <3>5. since[c] + Len(received[c]) <= Len(log')
      BY <1>7, <2>2, <3>1
    <3>6. since'[c] = since[c] /\ received'[c] = received[c]
      BY <1>1
    <3> QED BY <3>4, <3>5, <3>6 DEF GotInOrder
  <2>6. ASSUME writer'[c] = "writing" PROVE Served(c)'
    <3> DEFINE f == since[c] + Len(received[c])
    <3>1. f \in Nat /\ since'[c] + Len(received'[c]) = f
      BY <1>1, <2>2
    <3>2. PICK to \in Nat : /\ Holds(send[c], f, log, to)
                            /\ c \in clients \ Missed => to = Len(log)
      BY <1>1, <2>1, <2>6 DEF Served
    <3> HIDE DEF f
    <3>3. CASE c \in clients \ full
      <4>1. Holds(send[c], f, log, Len(log))
        BY <1>5, <3>2, <3>3
      <4>2. Holds(Append(send[c], <<All, x>>), f, Append(log, x), Len(Append(log, x)))
        BY <1>4, <1>6, <2>2, <3>1, <4>1, HoldsNext
      <4>3. Holds(send'[c], f, log', Len(log'))
        BY <1>1, <2>3, <3>3, <4>2
      <4>4. Len(log') \in Nat
        BY <1>7
      <4> QED BY <3>1, <4>3, <4>4 DEF Served
    <3>4. CASE c \notin clients \ full
      <4>1. Holds(send[c], f, Append(log, x), to)
        BY <1>4, <1>6, <2>2, <3>1, <3>2, HoldsStill
      <4>2. Holds(send'[c], f, log', to)
        BY <1>1, <2>3, <3>4, <4>1
      <4>3. c \notin clients' \ Missed'
        BY <1>1, <1>5, <3>4
      <4> QED BY <3>1, <4>2, <4>3 DEF Served
    <3> QED BY <3>3, <3>4
  <2> QED BY <2>4, <2>5, <2>6
<1> QED
  BY <1>8, <1>9 DEF GapInv

(* Messages that are no broadcasts come into some buffers: the log and     *)
(* what connections got stay.                                              *)
LEMMA GapOthers ==
  ASSUME TypeOK, GapInv, NEW e \in Message, e[1] # All, NEW to \in SUBSET Client,
         \A c \in to : reader[c] \notin {"new", "registering"},
         send' = [c \in Client |-> IF c \in to THEN Append(send[c], e) ELSE send[c]],
         UNCHANGED <<log, since, received, members, reader, writer>>,
         clients' \ Missed' \subseteq clients \ Missed
  PROVE  GapInv'
<1>1. GapTypes /\ GapTypes' /\ log \in Seq(Nat)
  BY DEF GapInv, GapTypes
<1>2. ASSUME NEW c \in Client
      PROVE  Silent(c)' /\ GotInOrder(c)' /\ (writer'[c] = "writing" => Served(c)')
  <2>1. Silent(c) /\ GotInOrder(c) /\ (writer[c] = "writing" => Served(c))
    BY DEF GapInv
  <2>2. send'[c] = IF c \in to THEN Append(send[c], e) ELSE send[c]
    OBVIOUS
  <2>3. Silent(c)' /\ GotInOrder(c)'
    BY <2>1, <2>2 DEF Silent, GotInOrder
  <2>4. ASSUME writer'[c] = "writing" PROVE Served(c)'
    <3> DEFINE f == since[c] + Len(received[c])
    <3>1. f \in Nat /\ since'[c] + Len(received'[c]) = f
      BY <1>1, LenProperties DEF GapTypes
    <3>2. PICK n \in Nat : /\ Holds(send[c], f, log, n)
                           /\ c \in clients \ Missed => n = Len(log)
      BY <2>1, <2>4 DEF Served
    <3>3. send[c] \in Seq(Message)
      BY DEF TypeOK, BuffersOK
    <3> HIDE DEF f
    <3>4. Holds(Append(send[c], e), f, log, n)
      BY <1>1, <3>1, <3>2, <3>3, HoldsOther
    <3>5. Holds(send'[c], f, log', n)
      BY <2>2, <3>2, <3>4
    <3>6. c \in clients' \ Missed' => n = Len(log')
      BY <3>2
    <3> QED BY <3>1, <3>5, <3>6 DEF Served
  <2> QED BY <2>3, <2>4
<1> QED
  BY <1>1, <1>2 DEF GapInv

LEMMA GapRoomMessage ==
  ASSUME TypeOK, GapInv, broadcastToRoom
  PROVE  GapInv'
<1> DEFINE to == members[target.object] \ {target.message.exclude}
           e == <<target.message.room, target.message.n>>
           full == {c \in to : Len(send[c]) = ClientBuffer}
<1>1. /\ hub = "room" /\ Deliver(to, e, "roomCleanup")
      /\ UNCHANGED <<clients, members, reader, writer, log, since, received>>
  BY DEF broadcastToRoom, HubAt, roomVars, pumpVars, histVars
<1>2. target \in [message : RoomMessage, object : RoomObject]
  BY <1>1 DEF TypeOK, HubOK
<1>3. to \in SUBSET Client /\ e \in Message /\ e[1] # All /\ target.object \in RoomObject
  <2>1. e[1] = target.message.room /\ target.message.room \in RoomName
    BY <1>2 DEF RoomMessage
  <2>2. to \in SUBSET Client /\ e \in Message /\ target.object \in RoomObject
    BY <1>2 DEF TypeOK, RoomsOK, RoomMessage, Message
  <2> QED BY <2>1, <2>2
<1>4. \A c \in to : reader[c] \notin {"new", "registering"}
  <2>1. \A c \in Client : Silent(c)
    BY DEF GapInv
  <2> QED BY <1>3, <2>1 DEF Silent
<1>5. Missed = {}
  BY <1>1 DEF Missed
<1>6. CASE to \cap closed # {}
  <2>1. UNCHANGED <<hub, send, dead>>
    BY <1>1, <1>6 DEF Deliver
  <2>2. clients' \ Missed' \subseteq clients \ Missed
    BY <1>1, <2>1 DEF Missed
  <2>3. UNCHANGED <<send, log, since, received>>
    BY <1>1, <2>1
  <2> QED BY <1>1, <2>2, <2>3, GapKept
<1>7. CASE to \cap closed = {}
  <2>1. /\ send' = [c \in Client |-> IF c \in to \ full THEN Append(send[c], e) ELSE send[c]]
        /\ hub' = IF full = {} THEN "select" ELSE "roomCleanup"
    BY <1>1, <1>7 DEF Deliver
  <2>2. clients' \ Missed' \subseteq clients \ Missed
    BY <1>1, <1>5
  <2> DEFINE some == to \ full
  <2>3. /\ some \in SUBSET Client /\ \A c \in some : reader[c] \notin {"new", "registering"}
        /\ send' = [c \in Client |-> IF c \in some THEN Append(send[c], e) ELSE send[c]]
    BY <1>3, <1>4, <2>1
  <2> HIDE DEF some, e, to, full
  <2> QED BY <1>1, <1>3, <2>2, <2>3, GapOthers
<1> QED
  BY <1>6, <1>7

LEMMA GapReply ==
  ASSUME TypeOK, GapInv, NEW c \in Client, Send(c)
  PROVE  GapInv'
<1>1. /\ reader[c] = "reading"
      /\ UNCHANGED <<clients, hub, dead, members, reader, writer, log, since, received>>
  BY DEF Send, Calls, ReaderAt, roomVars, pumpVars, histVars
<1>2. clients' \ Missed' \subseteq clients \ Missed
  BY <1>1 DEF Missed
<1>3. CASE UNCHANGED send
  <2>1. UNCHANGED <<send, log, since, received>>
    BY <1>1, <1>3
  <2> QED BY <1>1, <1>2, <2>1, GapKept
<1>4. CASE ~UNCHANGED send
  <2> DEFINE e == <<"reply", 0>>
             to == {c}
  <2>1. send' = [send EXCEPT ![c] = Append(@, e)]
    BY <1>4 DEF Send
  <2>2. e \in Message /\ e[1] # All /\ DOMAIN send = Client
    BY DEF Message, TypeOK, BuffersOK
  <2>3. send' = [d \in Client |-> IF d \in to THEN Append(send[d], e) ELSE send[d]]
    BY <2>1, <2>2
  <2>4. to \in SUBSET Client /\ \A d \in to : reader[d] \notin {"new", "registering"}
    BY <1>1
  <2> HIDE DEF e, to
  <2> QED BY <1>1, <1>2, <2>2, <2>3, <2>4, GapOthers
<1> QED
  BY <1>3, <1>4

(* writeMessage: a broadcast goes from the head of the buffer to the end   *)
(* of what the connection got.                                             *)
LEMMA GapWrite ==
  ASSUME TypeOK, GapInv, NEW c \in Client, writeMessage(c)
  PROVE  GapInv'
<1> DEFINE h == Head(send[c])
<1>1. /\ writer[c] = "writing" /\ send[c] # <<>>
      /\ send' = [send EXCEPT ![c] = Tail(@)]
      /\ received' = IF h[1] = All THEN [received EXCEPT ![c] = Append(@, h[2])] ELSE received
      /\ UNCHANGED <<clients, hub, dead, members, reader, writer, log, since>>
  BY DEF writeMessage, roomVars, hubVars, pumpVars
<1>2. /\ GapTypes /\ log \in Seq(Nat) /\ since[c] \in Nat /\ received[c] \in Seq(Nat)
      /\ DOMAIN received = Client
  BY DEF GapInv, GapTypes
<1>3. /\ send[c] \in Seq(Message) /\ DOMAIN send = Client /\ h \in Message
      /\ send'[c] = Tail(send[c])
  <2>1. send[c] \in Seq(Message) /\ DOMAIN send = Client
    BY DEF TypeOK, BuffersOK
  <2> QED BY <1>1, <2>1, HeadTailProperties
<1>4. h[2] \in Nat
  BY <1>3 DEF Message
<1> DEFINE f == since[c] + Len(received[c])
<1>5. PICK to \in Nat : /\ Holds(send[c], f, log, to)
                        /\ c \in clients \ Missed => to = Len(log)
  BY <1>1 DEF GapInv, Served
<1>6. f \in Nat /\ Len(received[c]) \in Nat /\ GotInOrder(c) /\ Silent(c)
  BY <1>2, LenProperties DEF GapInv
<1>7. UNCHANGED Missed
  BY <1>1 DEF Missed
<1> HIDE DEF h
<1>8. /\ h[1] = All => h[2] = log[f + 1] /\ f + 1 \in 1 .. Len(log) /\ Holds(Tail(send[c]), f + 1, log, to)
      /\ h[1] # All => Holds(Tail(send[c]), f, log, to)
  <2> HIDE DEF f
  <2> QED BY <1>1, <1>2, <1>3, <1>5, <1>6, HoldsRest, SMTT(60) DEF h
<1>9. GapTypes' /\ GotInOrder(c)' /\ Served(c)'
  <2>1. CASE h[1] = All
    <3> DEFINE r == Append(received[c], h[2])
               n == Len(received[c])
    <3>1. received' = [received EXCEPT ![c] = r] /\ received'[c] = r
      BY <1>1, <1>2, <2>1
    <3>2. r \in Seq(Nat) /\ Len(r) = n + 1 /\ r[n + 1] = h[2] /\ \A i \in 1 .. n : r[i] = received[c][i]
      BY <1>2, <1>4, AppendProperties
    <3> HIDE DEF r
    <3>3. GapTypes'
      BY <1>1, <1>2, <3>1, <3>2 DEF GapTypes
    <3>4. since[c] + Len(r) = f + 1
      BY <1>2, <1>6, <3>2
    <3>5. since[c] + Len(r) <= Len(log)
      <4>1. f + 1 \in 1 .. Len(log) /\ Len(log) \in Nat
        BY <1>2, <1>8, <2>1, LenProperties
      <4> QED BY <3>4, <4>1
    <3>6. ASSUME NEW i \in 1 .. Len(r) PROVE r[i] = log[since[c] + i]
      <4>1. CASE i = n + 1
        <5>1. since[c] + i = f + 1
          <6> DEFINE a == since[c]
          <6>1. a \in Nat /\ n \in Nat /\ i = n + 1 /\ f = a + n
            BY <1>2, <1>6, <4>1
          <6> HIDE DEF a, n, f
          <6>2. a + i = f + 1
            BY <6>1
          <6> QED BY <6>2 DEF a
        <5> QED BY <1>8, <2>1, <3>2, <4>1, <5>1
      <4>2. CASE i # n + 1
        <5>1. i \in 1 .. n
          BY <1>6, <3>2, <4>2
        <5>2. received[c][i] = log[since[c] + i]
          BY <1>6, <5>1 DEF GotInOrder
        <5> QED BY <3>2, <5>1, <5>2
      <4> QED BY <4>1, <4>2
    <3>7. GotInOrder(c)'
      BY <1>1, <3>1, <3>5, <3>6 DEF GotInOrder
    <3>8. Holds(send'[c], since'[c] + Len(received'[c]), log', to)
      BY <1>1, <1>3, <1>8, <2>1, <3>1, <3>4
    <3>9. Served(c)'
      BY <1>1, <1>5, <1>7, <3>8 DEF Served
    <3> QED BY <3>3, <3>7, <3>9
  <2>2. CASE h[1] # All
    <3>1. received' = received
      BY <1>1, <2>2
    <3>2. Holds(send'[c], since'[c] + Len(received'[c]), log', to)
      BY <1>1, <1>3, <1>8, <2>2, <3>1
    <3>3. Served(c)'
      BY <1>1, <1>5, <1>7, <3>2 DEF Served
    <3>4. GapTypes'
      BY <1>1, <1>2, <3>1 DEF GapTypes
    <3>5. GotInOrder(c)'
      BY <1>1, <1>6, <3>1 DEF GotInOrder
    <3> QED BY <3>3, <3>4, <3>5
  <2> QED BY <2>1, <2>2
<1>10. ASSUME NEW d \in Client, d # c
       PROVE  Silent(d)' /\ GotInOrder(d)' /\ (writer'[d] = "writing" => Served(d)')
  <2>1. Silent(d) /\ GotInOrder(d) /\ (writer[d] = "writing" => Served(d))
    BY DEF GapInv
  <2>2. received'[d] = received[d] /\ send'[d] = send[d]
    BY <1>1, <1>2, <1>3, <1>10
  <2> QED BY <1>1, <1>7, <2>1, <2>2 DEF Silent, GotInOrder, Served
<1>11. Silent(c)'
  BY <1>1, <1>6 DEF Silent
<1> QED
  BY <1>9, <1>10, <1>11 DEF GapInv

(* writePumpEnds: what the pump had not written is gone.                   *)
LEMMA GapWriterEnds ==
  ASSUME TypeOK, GapInv, NEW c \in Client, writePumpEnds(c)
  PROVE  GapInv'
<1>1. /\ writer[c] = "writing" /\ writer' = [writer EXCEPT ![c] = "gone"]
      /\ \E lost \in 0 .. Len(send[c]) :
           send' = [send EXCEPT ![c] = SubSeq(@, lost + 1, Len(@))]
      /\ UNCHANGED <<clients, hub, dead, members, reader, log, since, received>>
  BY DEF writePumpEnds, roomVars, hubVars, histVars
<1>2. PICK lost \in 0 .. Len(send[c]) :
        send' = [send EXCEPT ![c] = SubSeq(@, lost + 1, Len(@))]
  BY <1>1
<1>3. DOMAIN send = Client /\ DOMAIN writer = Client
  BY DEF TypeOK, BuffersOK, PumpsOK
<1>4. GapTypes' /\ UNCHANGED Missed
  BY <1>1 DEF GapInv, GapTypes, Missed
<1>5. ASSUME NEW d \in Client, d # c
      PROVE  Silent(d)' /\ GotInOrder(d)' /\ (writer'[d] = "writing" => Served(d)')
  <2>1. Silent(d) /\ GotInOrder(d) /\ (writer[d] = "writing" => Served(d))
    BY DEF GapInv
  <2>2. writer'[d] = writer[d] /\ send'[d] = send[d]
    BY <1>1, <1>2, <1>3, <1>5
  <2> QED BY <1>1, <1>4, <2>1, <2>2 DEF Silent, GotInOrder, Served
<1>6. Silent(c)' /\ GotInOrder(c)' /\ writer'[c] # "writing"
  <2>1. Silent(c) /\ GotInOrder(c) /\ writer'[c] = "gone"
    BY <1>1, <1>3 DEF GapInv
  <2> QED BY <1>1, <2>1 DEF Silent, GotInOrder
<1> QED
  BY <1>4, <1>5, <1>6 DEF GapInv

(* A step of which GapKept says all.                                       *)
Quiet ==
  /\ UNCHANGED <<send, log, since, received>>
  /\ clients' \ Missed' \subseteq clients \ Missed
  /\ \A c \in Client :
       /\ writer'[c] = "writing" => writer[c] = "writing"
       /\ reader'[c] \in {"new", "registering"} =>
            /\ reader[c] \in {"new", "registering"} /\ writer'[c] = writer[c]
            /\ \A o \in RoomObject : c \in members'[o] => c \in members[o]

(* The hub's other steps, the requests of clients and the ends of pumps.   *)
LEMMA RunIsQuiet ==
  ASSUME TypeOK, \/ \E c \in Client : unregisterClient(c)
                 \/ cleanUpDead \/ findRoom \/ cleanUpRoom \/ shutdown
  PROVE  Quiet
<1> USE DEF HubAt, ReaderAt, roomVars, hubVars, chanVars, pumpVars, histVars
<1>0. DOMAIN reader = Client /\ DOMAIN members = RoomObject
  BY DEF TypeOK, PumpsOK, RoomsOK
<1>1. ASSUME NEW c \in Client, unregisterClient(c) PROVE Quiet
  BY <1>0, <1>1 DEF unregisterClient, Quiet, Missed
<1>2. CASE cleanUpDead
  BY <1>2 DEF cleanUpDead, Quiet, Missed
<1>3. CASE findRoom
  <2>1. hub = "select" /\ hub' \in {"select", "room"}
    BY <1>3 DEF findRoom
  <2> QED BY <1>3, <2>1 DEF findRoom, Quiet, Missed
<1>4. CASE cleanUpRoom
  <2>1. /\ members' = [members EXCEPT ![target.object] = @ \ dead]
        /\ hub = "roomCleanup" /\ hub' = "select"
        /\ UNCHANGED <<clients, send, log, since, received, reader, writer>>
    BY <1>4 DEF cleanUpRoom
  <2>2. \A o \in RoomObject : members'[o] \subseteq members[o]
    BY <1>0, <2>1
  <2> QED BY <2>1, <2>2 DEF Quiet, Missed
<1>5. CASE shutdown
  BY <1>5 DEF shutdown, Quiet, Missed
<1> QED
  BY <1>1, <1>2, <1>3, <1>4, <1>5

LEMMA RequestIsQuiet ==
  ASSUME TypeOK, \/ \E c \in Client \cup {None} : BroadcastToAll(c)
                 \/ \E c \in Client \cup {None}, r \in RoomName : BroadcastToRoom(c, r)
                 \/ \E c \in Client : enterRoom(c) \/ recordRoom(c)
                 \/ \E c \in Client, r \in RoomName : JoinRoom(c, r) \/ leaveRoom(c, r)
  PROVE  Quiet
<1> USE DEF HubAt, ReaderAt, roomVars, hubVars, chanVars, pumpVars, histVars
<1>0. DOMAIN reader = Client /\ DOMAIN members = RoomObject
  BY DEF TypeOK, PumpsOK, RoomsOK
<1>1. ASSUME NEW c \in Client \cup {None}, BroadcastToAll(c) PROVE Quiet
  BY <1>1 DEF BroadcastToAll, Quiet, Missed
<1>2. ASSUME NEW c \in Client \cup {None}, NEW r \in RoomName, BroadcastToRoom(c, r)
      PROVE  Quiet
  BY <1>2 DEF BroadcastToRoom, Quiet, Missed
<1>3. ASSUME NEW c \in Client, enterRoom(c) PROVE Quiet
  <2>1. /\ reader[c] = "joining" /\ reader' = [reader EXCEPT ![c] = "entered"]
        /\ members' = [members EXCEPT ![joining[c]] = @ \cup {c}]
        /\ UNCHANGED <<clients, send, log, since, received, writer, hub, dead>>
    BY <1>3 DEF enterRoom
  <2>2. \A d \in Client : d # c => /\ reader'[d] = reader[d]
                                   /\ \A o \in RoomObject : d \in members'[o] => d \in members[o]
    BY <1>0, <2>1
  <2>3. reader'[c] = "entered"
    BY <1>0, <2>1
  <2> QED BY <2>1, <2>2, <2>3 DEF Quiet, Missed
<1>4. ASSUME NEW c \in Client, NEW r \in RoomName, JoinRoom(c, r) PROVE Quiet
  BY <1>0, <1>4 DEF JoinRoom, Quiet, Missed
<1>5. ASSUME NEW c \in Client, NEW r \in RoomName, leaveRoom(c, r) PROVE Quiet
  <2>1. /\ members' = [members EXCEPT ![<<r, current[r]>>] = @ \ {c}]
        /\ UNCHANGED <<clients, send, log, since, received, reader, writer, hub, dead>>
    BY <1>5 DEF leaveRoom
  <2>2. \A o \in RoomObject : members'[o] \subseteq members[o]
    BY <1>0, <2>1
  <2> QED BY <2>1, <2>2 DEF Quiet, Missed
<1>6. ASSUME NEW c \in Client, recordRoom(c) PROVE Quiet
  <2>1. /\ reader' = [reader EXCEPT ![c] = "reading"]
        /\ UNCHANGED <<clients, members, send, log, since, received, writer, hub, dead>>
    BY <1>6 DEF recordRoom
  <2>2. \A d \in Client : d # c => reader'[d] = reader[d]
    BY <1>0, <2>1
  <2>3. reader'[c] = "reading"
    BY <1>0, <2>1
  <2> QED BY <2>1, <2>2, <2>3 DEF Quiet, Missed
<1> QED
  BY <1>1, <1>2, <1>3, <1>4, <1>5, <1>6

LEMMA ConnectionIsQuiet ==
  ASSUME TypeOK, \/ \E c \in Client : ServeWS(c) \/ disconnect(c) \/ recoverPump(c)
                                      \/ readPumpEnds(c)
                 \/ cancel \/ UNCHANGED vars
  PROVE  Quiet
<1> USE DEF HubAt, ReaderAt, roomVars, hubVars, chanVars, pumpVars, histVars
<1>0. DOMAIN reader = Client
  BY DEF TypeOK, PumpsOK
<1>1. ASSUME NEW c \in Client, ServeWS(c) PROVE Quiet
  BY <1>0, <1>1 DEF ServeWS, Quiet, Missed
<1>2. ASSUME NEW c \in Client, disconnect(c) PROVE Quiet
  BY <1>2 DEF disconnect, Quiet, Missed
<1>3. ASSUME NEW c \in Client, recoverPump(c) PROVE Quiet
  BY <1>0, <1>3 DEF recoverPump, Quiet, Missed
<1>4. ASSUME NEW c \in Client, readPumpEnds(c) PROVE Quiet
  BY <1>0, <1>4 DEF readPumpEnds, Quiet, Missed
<1>5. CASE cancel
  BY <1>5 DEF cancel, Quiet, Missed
<1>6. CASE UNCHANGED vars
  BY <1>6 DEF vars, Quiet, Missed
<1> QED
  BY <1>1, <1>2, <1>3, <1>4, <1>5, <1>6

LEMMA GapNext ==
  ASSUME TypeOK, OpenInv, GapInv, [Next]_vars
  PROVE  GapInv'
<1>1. CASE Quiet
  BY <1>1, GapKept DEF Quiet
<1>2. CASE \E c \in Client : registerClient(c)
  BY <1>2, GapRegister
<1>3. CASE broadcastToAll
  BY <1>3, GapBroadcast
<1>4. CASE broadcastToRoom
  BY <1>4, GapRoomMessage
<1>5. CASE \E c \in Client : Send(c)
  BY <1>5, GapReply
<1>6. CASE \E c \in Client : writeMessage(c) \/ writePumpEnds(c)
  BY <1>6, GapWrite, GapWriterEnds
<1> QED
  BY <1>1, <1>2, <1>3, <1>4, <1>5, <1>6, RunIsQuiet, RequestIsQuiet, ConnectionIsQuiet
     DEF Next, Run, handleMessage, writePump

(* A registered client misses no broadcast and gets none twice, for any    *)
(* number of clients and any sizes of the buffers, and who was removed or  *)
(* disconnected has a prefix (broadcastToAll, readPump and writePump).     *)
THEOREM NoGapTheorem == Spec => []NoGap
<1>1. Init => GapInv
  BY GapInitially
<1>2. TypeOK /\ OpenInv /\ GapInv /\ [Next]_vars => GapInv'
  BY GapNext
<1>3. TypeOK /\ GapInv => NoGap
  BY GapImplies
<1> QED
  BY <1>1, <1>2, <1>3, TypeCorrect, OpenInvariant, PTL DEF Spec

----------------------------------------------------------------------------
(* What breaks the hub.                                                     *)

(* The hub panics at a room that lists a client whose channel is closed,    *)
(* it blocks itself unregistering a client that is in a room, and a caller  *)
(* panics at the channels that shutdown closed or, with Client.Send, at the *)
(* closed one of a client.                                                  *)
RoomsBreakTheHub ==
  /\ process = "hub panic" => hub = "room" /\ members[target.object] \cap closed # {}
  /\ hub = "stuck" => \E c \in closed : reader[c] = "gone" /\ inRooms[c] # {}
  /\ process = "caller panic" => hub = "done" \/ ("reply" \in Requests /\ closed # {})

(* A step that moves neither the hub nor a panic.                           *)
LEMMA BlameKept ==
  ASSUME TypeOK, RoomsBreakTheHub, UNCHANGED <<process, hub, target, members>>,
         closed' = closed,
         \A c \in Client : reader[c] = "gone" => reader'[c] = "gone" /\ inRooms[c] \subseteq inRooms'[c]
  PROVE  RoomsBreakTheHub'
<1>1. closed \subseteq Client
  BY DEF TypeOK, RoomsOK
<1>2. hub' = "stuck" => \E c \in closed' : reader'[c] = "gone" /\ inRooms'[c] # {}
  BY <1>1 DEF RoomsBreakTheHub
<1> QED
  BY <1>2 DEF RoomsBreakTheHub

LEMMA BlameStep == TypeOK /\ OpenInv /\ RoomsBreakTheHub /\ [Next]_vars => RoomsBreakTheHub'
<1> SUFFICES ASSUME TypeOK, OpenInv, RoomsBreakTheHub, [Next]_vars PROVE RoomsBreakTheHub'
  OBVIOUS
<1>0. /\ DOMAIN reader = Client /\ DOMAIN inRooms = Client /\ closed \subseteq Client
      /\ None \notin Client
  BY HubAssumption DEF TypeOK, PumpsOK, RoomsOK, HubAssumption
<1> USE DEF Up, HubAt, ReaderAt, Calls, ChannelsClosed, MutexFree, roomVars, hubVars, chanVars,
            pumpVars, histVars
<1>1. ASSUME NEW c \in Client, registerClient(c) PROVE RoomsBreakTheHub'
  BY <1>0, <1>1, BlameKept DEF registerClient
<1>2. ASSUME NEW c \in Client, unregisterClient(c) PROVE RoomsBreakTheHub'
  BY <1>0, <1>2 DEF unregisterClient, RoomsBreakTheHub
<1>3. ASSUME broadcastToAll PROVE RoomsBreakTheHub'
  <2>1. process = "up" /\ process' = "up" /\ hub' # "stuck"
    BY <1>3 DEF broadcastToAll, Deliver, OpenInv, RegisteredIsOpen
  <2> QED BY <2>1 DEF RoomsBreakTheHub
<1>4. ASSUME broadcastToRoom PROVE RoomsBreakTheHub'
  <2>1. CASE (members[target.object] \ {target.message.exclude}) \cap closed # {}
    <3>1. process' = "hub panic" /\ hub = "room" /\ UNCHANGED <<hub, members, closed>>
      BY <1>4, <2>1 DEF broadcastToRoom, Deliver
    <3>2. target' = target
      BY <1>4, <3>1 DEF broadcastToRoom
    <3> QED BY <2>1, <3>1, <3>2 DEF RoomsBreakTheHub
  <2>2. CASE (members[target.object] \ {target.message.exclude}) \cap closed = {}
    <3>1. process = "up" /\ process' = "up" /\ hub' # "stuck"
      BY <1>4, <2>2 DEF broadcastToRoom, Deliver
    <3> QED BY <3>1 DEF RoomsBreakTheHub
  <2> QED BY <2>1, <2>2
<1>5. ASSUME cleanUpDead \/ findRoom \/ cleanUpRoom \/ shutdown PROVE RoomsBreakTheHub'
  <2>1. process = "up" /\ process' = "up" /\ hub' # "stuck"
    BY <1>5 DEF cleanUpDead, findRoom, cleanUpRoom, shutdown
  <2> QED BY <2>1 DEF RoomsBreakTheHub
<1>6. ASSUME NEW c \in Client \cup {None},
             BroadcastToAll(c) \/ \E r \in RoomName : BroadcastToRoom(c, r)
      PROVE  RoomsBreakTheHub'
  <2>1. UNCHANGED <<hub, target, members, closed, reader, inRooms>>
    BY <1>6 DEF BroadcastToAll, BroadcastToRoom
  <2>2. process' = process \/ (process' = "caller panic" /\ hub = "done")
    BY <1>6 DEF BroadcastToAll, BroadcastToRoom
  <2> QED BY <2>1, <2>2 DEF RoomsBreakTheHub
<1>7. ASSUME NEW c \in Client, Send(c) PROVE RoomsBreakTheHub'
  <2>1. UNCHANGED <<hub, target, members, closed, reader, inRooms>>
    BY <1>7 DEF Send
  <2>2. process' = process \/ (process' = "caller panic" /\ c \in closed /\ "reply" \in Requests)
    BY <1>0, <1>7 DEF Send
  <2> QED BY <2>1, <2>2 DEF RoomsBreakTheHub
<1>8. ASSUME NEW c \in Client, NEW r \in RoomName, JoinRoom(c, r) PROVE RoomsBreakTheHub'
  BY <1>0, <1>8, BlameKept DEF JoinRoom
<1>9. ASSUME NEW c \in Client, enterRoom(c) PROVE RoomsBreakTheHub'
  <2>1. process = "up" /\ UNCHANGED <<process, hub, closed>> /\ reader[c] = "joining"
    BY <1>9 DEF enterRoom
  <2>2. \A d \in Client : reader[d] = "gone" => reader'[d] = "gone" /\ inRooms'[d] = inRooms[d]
    BY <1>0, <1>9 DEF enterRoom
  <2>3. hub' = "stuck" => \E d \in closed' : reader'[d] = "gone" /\ inRooms'[d] # {}
    BY <1>0, <2>1, <2>2 DEF RoomsBreakTheHub
  <2> QED BY <2>1, <2>3 DEF RoomsBreakTheHub
<1>15. ASSUME NEW c \in Client, recordRoom(c) PROVE RoomsBreakTheHub'
  <2>1. UNCHANGED <<process, hub, target, members, closed>> /\ reader[c] = "entered"
    BY <1>15 DEF recordRoom
  <2>2. \A d \in Client : reader[d] = "gone" => reader'[d] = "gone" /\ inRooms[d] \subseteq inRooms'[d]
    BY <1>0, <1>15 DEF recordRoom
  <2> QED BY <2>1, <2>2, BlameKept
<1>10. ASSUME NEW c \in Client, NEW r \in RoomName, leaveRoom(c, r) PROVE RoomsBreakTheHub'
  <2>1. process = "up" /\ UNCHANGED <<process, hub>> /\ hub # "stuck"
    BY <1>0, <1>10 DEF leaveRoom
  <2> QED BY <2>1 DEF RoomsBreakTheHub
<1>11. ASSUME NEW c \in Client, ServeWS(c) \/ recoverPump(c) \/ disconnect(c) \/ readPumpEnds(c)
       PROVE  RoomsBreakTheHub'
  <2>1. UNCHANGED <<process, hub, target, members, closed, inRooms>>
    BY <1>11 DEF ServeWS, recoverPump, disconnect, readPumpEnds
  <2>2. \A d \in Client : reader[d] = "gone" => reader'[d] = "gone"
    BY <1>0, <1>11 DEF ServeWS, recoverPump, disconnect, readPumpEnds
  <2> QED BY <2>1, <2>2, BlameKept
<1>12. ASSUME NEW c \in Client, writeMessage(c) \/ writePumpEnds(c) PROVE RoomsBreakTheHub'
  BY <1>12, BlameKept DEF writeMessage, writePumpEnds
<1>13. ASSUME cancel PROVE RoomsBreakTheHub'
  BY <1>13, BlameKept DEF cancel
<1>14. ASSUME UNCHANGED vars PROVE RoomsBreakTheHub'
  BY <1>14, BlameKept DEF vars
<1> QED
  BY <1>1, <1>2, <1>3, <1>4, <1>5, <1>6, <1>7, <1>8, <1>9, <1>10, <1>11, <1>12, <1>13, <1>14,
     <1>15 DEF Next, Run, handleMessage, writePump

(* The hub breaks down only over its rooms, and a caller only at a channel  *)
(* that is closed: neither broadcastToAll, nor the removal of dead clients, *)
(* nor shutdown ever panics or blocks, for any number of clients and sizes  *)
(* of the buffers.                                                          *)
THEOREM OnlyRoomsBreakTheHub == Spec => []RoomsBreakTheHub
<1>1. Init => RoomsBreakTheHub
  BY DEF Init, RoomsBreakTheHub
<1> QED
  BY <1>1, BlameStep, TypeCorrect, OpenInvariant, PTL DEF Spec

HubHolds == process # "hub panic" /\ hub # "stuck"

NoRooms ==
  /\ \A o \in RoomObject : members[o] = {}
  /\ \A c \in Client : inRooms[c] = {} /\ reader[c] \notin {"joining", "entered"}

LEMMA NoRoomsStep ==
  ASSUME TypeOK, NoRooms, [Next]_vars, "join_room" \notin Requests
  PROVE  NoRooms'
<1>0. /\ DOMAIN reader = Client /\ DOMAIN inRooms = Client /\ DOMAIN members = RoomObject
      /\ None \notin Client
  BY HubAssumption DEF TypeOK, PumpsOK, RoomsOK, HubAssumption
<1> USE DEF ReaderAt, Calls, roomVars, hubVars, chanVars, pumpVars, histVars
<1>1. ASSUME NEW c \in Client, NEW r \in RoomName PROVE ~JoinRoom(c, r)
  BY <1>0 DEF JoinRoom
<1>2. ASSUME NEW c \in Client PROVE ~enterRoom(c) /\ ~recordRoom(c)
  BY DEF enterRoom, recordRoom, NoRooms
<1>3. ASSUME NEW c \in Client, \/ registerClient(c) \/ unregisterClient(c) \/ ServeWS(c)
                               \/ recoverPump(c) \/ readPumpEnds(c)
      PROVE  NoRooms'
  <2>1. UNCHANGED <<members, inRooms>>
    BY <1>3 DEF registerClient, unregisterClient, ServeWS, recoverPump, readPumpEnds
  <2>2. \A d \in Client : reader'[d] \in {"joining", "entered"} => reader'[d] = reader[d]
    BY <1>0, <1>3 DEF registerClient, unregisterClient, ServeWS, recoverPump, readPumpEnds
  <2> QED BY <2>1, <2>2 DEF NoRooms
<1>4. ASSUME \/ broadcastToAll \/ cleanUpDead \/ findRoom \/ broadcastToRoom \/ shutdown
             \/ \E c \in Client \cup {None} : BroadcastToAll(c)
             \/ \E c \in Client \cup {None}, r \in RoomName : BroadcastToRoom(c, r)
             \/ \E c \in Client : \/ Send(c) \/ disconnect(c) \/ writeMessage(c)
                                  \/ writePumpEnds(c)
             \/ cancel \/ UNCHANGED vars
      PROVE  NoRooms'
  <2>1. UNCHANGED <<members, inRooms, reader>>
    BY <1>4 DEF broadcastToAll, cleanUpDead, findRoom, broadcastToRoom, shutdown, BroadcastToAll,
       BroadcastToRoom, Send, disconnect, writeMessage, writePumpEnds, cancel, vars
  <2> QED BY <2>1 DEF NoRooms
<1>5. ASSUME cleanUpRoom PROVE NoRooms'
  <2>1. members' = [members EXCEPT ![target.object] = @ \ dead] /\ UNCHANGED <<inRooms, reader>>
    BY <1>5 DEF cleanUpRoom
  <2>2. \A o \in RoomObject : members'[o] \subseteq members[o]
    BY <1>0, <2>1
  <2> QED BY <2>1, <2>2 DEF NoRooms
<1>6. ASSUME NEW c \in Client, NEW r \in RoomName, leaveRoom(c, r) PROVE NoRooms'
  <2>1. /\ members' = [members EXCEPT ![<<r, current[r]>>] = @ \ {c}]
        /\ inRooms' = [inRooms EXCEPT ![c] = @ \ {r}]
        /\ reader' = reader
    BY <1>6 DEF leaveRoom
  <2>2. /\ \A o \in RoomObject : members'[o] \subseteq members[o]
        /\ \A d \in Client : inRooms'[d] \subseteq inRooms[d]
    BY <1>0, <2>1
  <2> QED BY <2>1, <2>2 DEF NoRooms
<1> QED
  BY <1>1, <1>2, <1>3, <1>4, <1>5, <1>6 DEF Next, Run, handleMessage, writePump

(* Where no client may join a room the hub neither panics nor blocks        *)
(* itself, whatever is broadcast, however clients come, go and are removed  *)
(* as dead, and whenever the context is cancelled.                          *)
THEOREM HubWithoutRoomsHolds == Spec /\ "join_room" \notin Requests => []HubHolds
<1>1. Init => NoRooms
  BY DEF Init, NoRooms
<1>2. ASSUME TypeOK, NoRooms, RoomsBreakTheHub PROVE HubHolds
  <2>1. ASSUME process = "hub panic" PROVE FALSE
    <3>1. hub = "room" /\ members[target.object] \cap closed # {}
      BY <1>2, <2>1 DEF RoomsBreakTheHub
    <3>2. target \in [message : RoomMessage, object : RoomObject]
      BY <1>2, <3>1 DEF TypeOK, HubOK
    <3>3. target.object \in RoomObject
      BY <3>2
    <3> QED BY <1>2, <3>1, <3>3 DEF NoRooms
  <2>2. ASSUME hub = "stuck" PROVE FALSE
    BY <1>2, <2>2 DEF NoRooms, RoomsBreakTheHub, TypeOK, RoomsOK
  <2> QED BY <2>1, <2>2 DEF HubHolds
<1>3. ASSUME "join_room" \notin Requests PROVE Spec => []HubHolds
  <2>1. TypeOK /\ NoRooms /\ [Next]_vars => NoRooms'
    BY <1>3, NoRoomsStep
  <2> QED
    BY <1>1, <1>2, <2>1, TypeCorrect, OnlyRoomsBreakTheHub, PTL DEF Spec
<1> QED
  BY <1>3
====
