--------------------------------- MODULE Hub ---------------------------------
(***************************************************************************)
(* websocket/hub.go: the hub goroutine and its select loop, the clients    *)
(* with their buffered send channels, the read pump and the write pump of  *)
(* each client, rooms, and the application goroutines that broadcast.      *)
(*                                                                         *)
(* A critical section of h.mu, room.mu or client.mu is one step; steps of  *)
(* different goroutines interleave between the sections.  A room is an     *)
(* object: JoinRoom may hold one that leaveRoom has deleted meanwhile, so  *)
(* a room is its name with a generation.  A panic that nothing recovers    *)
(* ends the process.                                                       *)
(***************************************************************************)
EXTENDS Naturals, Sequences, FiniteSets

CONSTANTS
  Client,          \* connections, each used once
  RoomName,
  None,            \* nil; also the application as a caller of Broadcast
  All,             \* marks a message to all clients, as a room name does one
                   \* to a room
  Requests,        \* what clients send: "join_room", "leave_room",
                   \* "room_message", "broadcast", and "reply" for an
                   \* OnMessage callback that calls Client.Send
  ClientBuffer, BroadcastBuffer, RoomMessageBuffer,
  MaxMessages,     \* bound on the broadcasts and replies issued
  MaxGeneration    \* bound on the objects made for one room name

ASSUME HubAssumption ==
  /\ None \notin Client /\ All \notin RoomName \cup {"reply"}
  /\ ClientBuffer \in Nat \ {0} /\ BroadcastBuffer \in Nat \ {0}
  /\ RoomMessageBuffer \in Nat \ {0}
  /\ MaxMessages \in Nat /\ MaxGeneration \in Nat

VARIABLES
  clients,       \* h.clients
  current,       \* h.rooms: the generation of each name, 0 when absent
  newest,        \* the newest generation of each name
  members,       \* room.clients of each room object
  inRooms,       \* client.rooms
  unlisted,      \* history: clients that their room does not list although
                 \* they did not leave it, see RoomsAgree
  send, closed,  \* client.send, and the clients whose send is closed
  broadcast,     \* h.broadcast
  roomMessages,  \* h.roomMessages
  process,       \* "up", or ended by a panic of the hub or of a caller
  hub,           \* the place of the hub goroutine; "stuck" holds h.mu for
                 \* ever, "done" has closed the hub's four channels
  dead,          \* deadClients of the broadcast under way
  target,        \* the room message in hand, with its room object
  ctx,           \* the context of Run
  conn,          \* the network connection of each client
  reader, joining,  \* readPump's place ("joining" and "entered" are inside
                    \* JoinRoom), and the room object JoinRoom holds
  writer,        \* writePump's place
  issued,        \* how many broadcasts and replies were issued
  log,           \* history: messages broadcastToAll handled
  since,         \* history: Len(log) when each client was registered
  received       \* history: messages to all, written to each connection

roomVars  == <<current, newest, members, inRooms, unlisted>>
hubVars   == <<process, hub, dead, target>>
chanVars  == <<broadcast, roomMessages, issued>>
pumpVars  == <<conn, reader, joining, writer>>
histVars  == <<log, since, received>>
vars == <<clients, roomVars, send, closed, chanVars, hubVars, ctx, pumpVars,
          histVars>>

RoomObject == RoomName \X (1 .. MaxGeneration)
Message == (RoomName \cup {All, "reply"}) \X (0 .. MaxMessages)
RoomMessage == [room : RoomName, exclude : Client \cup {None}, n : 0 .. MaxMessages]

(***************************************************************************)
(* Type invariant: the values of every field, that no buffer exceeds its   *)
(* capacity, and that a goroutine holds a room object exactly while it is  *)
(* at the place that uses it.                                              *)
(***************************************************************************)
RoomsOK ==
  /\ clients \subseteq Client /\ closed \subseteq Client
  /\ current \in [RoomName -> 0 .. MaxGeneration]
  /\ newest \in [RoomName -> 0 .. MaxGeneration]
  /\ members \in [RoomObject -> SUBSET Client]
  /\ inRooms \in [Client -> SUBSET RoomName]
  /\ unlisted \subseteq Client \X RoomName

BuffersOK ==
  /\ send \in [Client -> Seq(Message)]
  /\ \A c \in Client : Len(send[c]) <= ClientBuffer
  /\ broadcast \in Seq(0 .. MaxMessages) /\ Len(broadcast) <= BroadcastBuffer
  /\ roomMessages \in Seq(RoomMessage) /\ Len(roomMessages) <= RoomMessageBuffer
  /\ issued \in 0 .. MaxMessages

HubOK ==
  /\ process \in {"up", "hub panic", "caller panic"}
  /\ hub \in {"select", "cleanup", "room", "roomCleanup", "stuck", "done"}
  /\ dead \subseteq Client
  /\ IF hub \in {"room", "roomCleanup"}
       THEN target \in [message : RoomMessage, object : RoomObject]
       ELSE target = None
  /\ ctx \in {"live", "done"}

PumpsOK ==
  /\ conn \in [Client -> {"none", "open", "closed"}]
  /\ reader \in [Client -> {"new", "registering", "reading", "joining",
                            "entered", "unregistering", "gone"}]
  /\ joining \in [Client -> RoomObject \cup {None}]
  /\ \A c \in Client : IF reader[c] \in {"joining", "entered"}
                        THEN joining[c] \in RoomObject ELSE joining[c] = None
  /\ writer \in [Client -> {"off", "writing", "gone"}]

TypeOK == RoomsOK /\ BuffersOK /\ HubOK /\ PumpsOK

Init ==
  /\ clients = {} /\ closed = {}
  /\ current = [r \in RoomName |-> 0] /\ newest = current
  /\ members = [o \in RoomObject |-> {}]
  /\ inRooms = [c \in Client |-> {}] /\ unlisted = {}
  /\ send = [c \in Client |-> <<>>]
  /\ broadcast = <<>> /\ roomMessages = <<>>
  /\ process = "up" /\ hub = "select" /\ dead = {} /\ target = None
  /\ ctx = "live"
  /\ conn = [c \in Client |-> "none"]
  /\ reader = [c \in Client |-> "new"] /\ joining = [c \in Client |-> None]
  /\ writer = [c \in Client |-> "off"]
  /\ issued = 0
  /\ log = <<>> /\ since = [c \in Client |-> 0]
  /\ received = [c \in Client |-> <<>>]

Up == process = "up"

HubAt(place) == Up /\ hub = place

ReaderAt(c, place) == Up /\ reader[c] = place

(* The hub's channels are closed by shutdown and never before.             *)
ChannelsClosed == hub = "done"

(* h.mu can be taken: only the hub, when stuck, holds it across steps.     *)
MutexFree == hub # "stuck"

----------------------------------------------------------------------------
(* The hub goroutine.                                                      *)

registerClient(c) ==
  /\ HubAt("select")
  /\ ReaderAt(c, "registering")
  /\ clients' = clients \cup {c}
  /\ reader' = [reader EXCEPT ![c] = "reading"]
  /\ writer' = [writer EXCEPT ![c] = "writing"]
  /\ since' = [since EXCEPT ![c] = Len(log)]
  /\ UNCHANGED <<roomVars, send, closed, chanVars, hubVars, ctx, conn, joining,
                 log, received>>

(* leaveRoom, called with h.mu held, waits for h.mu.                       *)
unregisterClient(c) ==
  /\ HubAt("select")
  /\ ReaderAt(c, "unregistering")
  /\ clients' = clients \ {c}
  /\ closed' = IF c \in clients THEN closed \cup {c} ELSE closed
  /\ hub' = IF c \in clients /\ inRooms[c] # {} THEN "stuck" ELSE "select"
  /\ reader' = [reader EXCEPT ![c] = "gone"]
  /\ conn' = [conn EXCEPT ![c] = "closed"]
  /\ UNCHANGED <<roomVars, send, chanVars, process, dead, target, ctx, joining,
                 writer, histVars>>

(* Mutants: a full buffer is not noticed; its client is passed over.       *)
DeliverToFull(to, message, cleanup) ==
  /\ send' = [c \in Client |-> IF c \in to THEN Append(send[c], message) ELSE send[c]]
  /\ hub' = "select"
  /\ UNCHANGED <<process, dead>>

DeliverDropping(to, message, cleanup) ==
  /\ send' = [c \in Client |-> IF c \in to /\ Len(send[c]) < ClientBuffer
                                 THEN Append(send[c], message) ELSE send[c]]
  /\ hub' = "select"
  /\ UNCHANGED <<process, dead>>

(* The non-blocking sends of both broadcasts: a client whose buffer is     *)
(* full is dead; a send on a closed channel panics.                        *)
Deliver(to, message, cleanup) ==
  IF to \cap closed # {}
  THEN process' = "hub panic" /\ UNCHANGED <<hub, send, dead>>
  ELSE LET full == {c \in to : Len(send[c]) = ClientBuffer}
       IN  /\ send' = [c \in Client |-> IF c \in to \ full
                                          THEN Append(send[c], message)
                                          ELSE send[c]]
           /\ dead' = full
           /\ UNCHANGED process
           /\ hub' = IF full = {} THEN "select" ELSE cleanup

broadcastToAll ==
  /\ HubAt("select")
  /\ broadcast # <<>>
  /\ broadcast' = Tail(broadcast)
  /\ Deliver(clients, <<All, Head(broadcast)>>, "cleanup")
  /\ log' = Append(log, Head(broadcast))
  /\ UNCHANGED <<clients, roomVars, closed, roomMessages, issued, target, ctx,
                 pumpVars, since, received>>

(* Mutant: the dead clients' channels are closed, the clients kept.        *)
cleanUpDeadKeepingClient ==
  /\ HubAt("cleanup")
  /\ closed' = closed \cup (dead \cap clients)
  /\ dead' = {} /\ hub' = "select"
  /\ UNCHANGED <<clients, roomVars, send, chanVars, process, target, ctx, pumpVars,
                 histVars>>

cleanUpDead ==
  /\ HubAt("cleanup")
  /\ clients' = clients \ dead
  /\ closed' = closed \cup (dead \cap clients)
  /\ dead' = {} /\ hub' = "select"
  /\ UNCHANGED <<roomVars, send, chanVars, process, target, ctx, pumpVars,
                 histVars>>

findRoom ==
  /\ HubAt("select")
  /\ roomMessages # <<>>
  /\ roomMessages' = Tail(roomMessages)
  /\ LET m == Head(roomMessages)
     IN  IF current[m.room] = 0
         THEN UNCHANGED <<hub, target>>
         ELSE /\ hub' = "room"
              /\ target' = [message |-> m, object |-> <<m.room, current[m.room]>>]
  /\ UNCHANGED <<clients, roomVars, send, closed, broadcast, issued, process,
                 dead, ctx, pumpVars, histVars>>

broadcastToRoom ==
  /\ HubAt("room")
  /\ Deliver(members[target.object] \ {target.message.exclude},
             <<target.message.room, target.message.n>>, "roomCleanup")
  /\ target' = IF hub' = "select" THEN None ELSE target
  /\ UNCHANGED <<clients, roomVars, closed, chanVars, ctx, pumpVars, histVars>>

cleanUpRoom ==
  /\ HubAt("roomCleanup")
  /\ members' = [members EXCEPT ![target.object] = @ \ dead]
  /\ LET r == target.object[1]
     IN  unlisted' = IF target.object = <<r, current[r]>>
                       THEN unlisted \cup (dead \X {r}) ELSE unlisted
  /\ dead' = {} /\ hub' = "select" /\ target' = None
  /\ UNCHANGED <<clients, current, newest, inRooms, send, closed, chanVars,
                 process, ctx, pumpVars, histVars>>

shutdown ==
  /\ HubAt("select")
  /\ ctx = "done"
  /\ hub' = "done"
  /\ conn' = [c \in Client |-> IF c \in clients THEN "closed" ELSE conn[c]]
  /\ closed' = closed \cup clients
  /\ UNCHANGED <<clients, roomVars, send, chanVars, process, dead, target, ctx,
                 reader, joining, writer, histVars>>

Run ==
  \/ \E c \in Client : registerClient(c) \/ unregisterClient(c)
  \/ broadcastToAll \/ cleanUpDead
  \/ findRoom \/ broadcastToRoom \/ cleanUpRoom
  \/ shutdown

----------------------------------------------------------------------------
(* Broadcasts and the requests of clients, which handleMessage serves.     *)

(* Who calls: the application, or the read pump of the requesting client.  *)
Calls(c, request) ==
  c = None \/ (c # None /\ ReaderAt(c, "reading") /\ request \in Requests)

(* Sending on the closed channel panics, in the caller.                    *)
BroadcastToAll(c) ==
  /\ Calls(c, "broadcast")
  /\ issued < MaxMessages /\ issued' = issued + 1
  /\ IF ChannelsClosed
     THEN process' = "caller panic" /\ UNCHANGED broadcast
     ELSE /\ broadcast' = IF Len(broadcast) < BroadcastBuffer
                            THEN Append(broadcast, issued) ELSE broadcast
          /\ UNCHANGED process
  /\ UNCHANGED <<clients, roomVars, send, closed, roomMessages, hub, dead, target,
                 ctx, pumpVars, histVars>>

BroadcastToRoom(c, r) ==
  /\ Calls(c, "room_message")
  /\ issued < MaxMessages /\ issued' = issued + 1
  /\ IF ChannelsClosed
     THEN process' = "caller panic" /\ UNCHANGED roomMessages
     ELSE /\ roomMessages' = IF Len(roomMessages) < RoomMessageBuffer
                THEN Append(roomMessages, [room |-> r, exclude |-> c, n |-> issued])
                ELSE roomMessages
          /\ UNCHANGED process
  /\ UNCHANGED <<clients, roomVars, send, closed, broadcast, hub, dead, target, ctx,
                 pumpVars, histVars>>

(* Client.Send, called by an OnMessage callback.                           *)
Send(c) ==
  /\ Calls(c, "reply")
  /\ issued < MaxMessages /\ issued' = issued + 1
  /\ IF c \in closed
     THEN process' = "caller panic" /\ UNCHANGED send
     ELSE /\ Len(send[c]) < ClientBuffer
          /\ send' = [send EXCEPT ![c] = Append(@, <<"reply", 0>>)]
          /\ UNCHANGED process
  /\ UNCHANGED <<clients, roomVars, closed, broadcast, roomMessages, hub, dead,
                 target, ctx, pumpVars, histVars>>

(* JoinRoom has three sections: that of h.mu finds or makes the room       *)
(* object, that of room.mu lists the client there, and that of client.mu   *)
(* records the room with the client.                                       *)
JoinRoom(c, r) ==
  /\ Calls(c, "join_room") /\ MutexFree
  /\ IF current[r] = 0
     THEN /\ newest[r] < MaxGeneration
          /\ newest' = [newest EXCEPT ![r] = @ + 1]
          /\ current' = [current EXCEPT ![r] = newest[r] + 1]
     ELSE UNCHANGED <<current, newest>>
  /\ joining' = [joining EXCEPT ![c] = <<r, current'[r]>>]
  /\ reader' = [reader EXCEPT ![c] = "joining"]
  /\ UNCHANGED <<clients, members, inRooms, unlisted, send, closed, chanVars,
                 hubVars, ctx, conn, writer, histVars>>

enterRoom(c) ==
  /\ ReaderAt(c, "joining")
  /\ members' = [members EXCEPT ![joining[c]] = @ \cup {c}]
  /\ LET r == joining[c][1]
     IN  unlisted' = IF joining[c] = <<r, current[r]>>
                       THEN unlisted \ {<<c, r>>} ELSE unlisted \cup {<<c, r>>}
  /\ reader' = [reader EXCEPT ![c] = "entered"]
  /\ UNCHANGED <<clients, current, newest, inRooms, send, closed, chanVars,
                 hubVars, ctx, conn, joining, writer, histVars>>

recordRoom(c) ==
  /\ ReaderAt(c, "entered")
  /\ inRooms' = [inRooms EXCEPT ![c] = @ \cup {joining[c][1]}]
  /\ joining' = [joining EXCEPT ![c] = None]
  /\ reader' = [reader EXCEPT ![c] = "reading"]
  /\ UNCHANGED <<clients, current, newest, members, unlisted, send, closed,
                 chanVars, hubVars, ctx, conn, writer, histVars>>

(* Mutant: the room is deleted whoever is left in it.                      *)
leaveRoomDeleting(c, r) ==
  /\ Calls(c, "leave_room") /\ MutexFree
  /\ current[r] # 0
  /\ members' = [members EXCEPT ![<<r, current[r]>>] = @ \ {c}]
  /\ inRooms' = [inRooms EXCEPT ![c] = @ \ {r}]
  /\ unlisted' = unlisted \ {<<c, r>>}
  /\ current' = [current EXCEPT ![r] = 0]
  /\ UNCHANGED <<clients, newest, send, closed, chanVars, hubVars, ctx,
                 pumpVars, histVars>>

(* The section of h.mu, with those of room.mu and client.mu inside it: one *)
(* step, as is the rest of what is done under h.mu.  A client that enters  *)
(* the room between the inner sections ends in a room deleted just then,   *)
(* as one does that enters right after the step.                           *)
leaveRoom(c, r) ==
  /\ Calls(c, "leave_room") /\ MutexFree
  /\ current[r] # 0
  /\ members' = [members EXCEPT ![<<r, current[r]>>] = @ \ {c}]
  /\ inRooms' = [inRooms EXCEPT ![c] = @ \ {r}]
  /\ unlisted' = unlisted \ {<<c, r>>}
  /\ current' = IF members'[<<r, current[r]>>] = {}
                  THEN [current EXCEPT ![r] = 0] ELSE current
  /\ UNCHANGED <<clients, newest, send, closed, chanVars, hubVars, ctx,
                 pumpVars, histVars>>

handleMessage(c) ==
  \/ BroadcastToAll(c) \/ Send(c) \/ enterRoom(c) \/ recordRoom(c)
  \/ \E r \in RoomName : BroadcastToRoom(c, r) \/ JoinRoom(c, r) \/ leaveRoom(c, r)

----------------------------------------------------------------------------
(* Connections and their two pumps.                                        *)

ServeWS(c) ==
  /\ ReaderAt(c, "new")
  /\ \/ reader' = [reader EXCEPT ![c] = "registering"] /\ conn' = [conn EXCEPT ![c] = "open"]
     \/ reader' = [reader EXCEPT ![c] = "gone"] /\ conn' = [conn EXCEPT ![c] = "closed"]
  /\ UNCHANGED <<clients, roomVars, send, closed, chanVars, hubVars, ctx,
                 joining, writer, histVars>>

(* Mutant: shutdown leaves h.unregister open, with nobody to receive.      *)
recoverPumpRegistering(c) ==
  /\ ReaderAt(c, "registering")
  /\ ChannelsClosed
  /\ reader' = [reader EXCEPT ![c] = "gone"]
  /\ conn' = [conn EXCEPT ![c] = "closed"]
  /\ UNCHANGED <<clients, roomVars, send, closed, chanVars, hubVars, ctx,
                 joining, writer, histVars>>

(* The recovered panic of a send to a closed register or unregister.       *)
recoverPump(c) ==
  /\ ReaderAt(c, "registering") \/ ReaderAt(c, "unregistering")
  /\ ChannelsClosed
  /\ reader' = [reader EXCEPT ![c] = "gone"]
  /\ conn' = [conn EXCEPT ![c] = "closed"]
  /\ UNCHANGED <<clients, roomVars, send, closed, chanVars, hubVars, ctx,
                 joining, writer, histVars>>

(* The peer goes away, or its pong does not come in time.                  *)
disconnect(c) ==
  /\ Up /\ conn[c] = "open"
  /\ conn' = [conn EXCEPT ![c] = "closed"]
  /\ UNCHANGED <<clients, roomVars, send, closed, chanVars, hubVars, ctx,
                 reader, joining, writer, histVars>>

readPumpEnds(c) ==
  /\ ReaderAt(c, "reading")
  /\ conn[c] = "closed"
  /\ reader' = [reader EXCEPT ![c] = "unregistering"]
  /\ UNCHANGED <<clients, roomVars, send, closed, chanVars, hubVars, ctx, conn,
                 joining, writer, histVars>>

writeMessage(c) ==
  /\ Up /\ writer[c] = "writing" /\ conn[c] = "open"
  /\ send[c] # <<>>
  /\ send' = [send EXCEPT ![c] = Tail(@)]
  /\ received' = IF Head(send[c])[1] = All
                   THEN [received EXCEPT ![c] = Append(@, Head(send[c])[2])]
                   ELSE received
  /\ UNCHANGED <<clients, roomVars, closed, chanVars, hubVars, ctx, pumpVars,
                 log, since>>

(* send is closed and drained, or a ping or a write fails, and with it the *)
(* messages that the frame had taken from the buffer.                      *)
writePumpEnds(c) ==
  /\ Up /\ writer[c] = "writing"
  /\ (c \in closed /\ send[c] = <<>>) \/ conn[c] = "closed"
  /\ \E lost \in 0 .. Len(send[c]) :
       send' = [send EXCEPT ![c] = SubSeq(@, lost + 1, Len(@))]
  /\ writer' = [writer EXCEPT ![c] = "gone"]
  /\ conn' = [conn EXCEPT ![c] = "closed"]
  /\ UNCHANGED <<clients, roomVars, closed, chanVars, hubVars, ctx, reader,
                 joining, histVars>>

writePump(c) == writeMessage(c) \/ writePumpEnds(c)

cancel ==
  /\ Up /\ ctx = "live"
  /\ ctx' = "done"
  /\ UNCHANGED <<clients, roomVars, send, closed, chanVars, hubVars, pumpVars,
                 histVars>>

Next ==
  \/ Run
  \/ \E c \in Client : \/ ServeWS(c) \/ disconnect(c) \/ recoverPump(c)
                      \/ handleMessage(c) \/ readPumpEnds(c) \/ writePump(c)
  \/ BroadcastToAll(None) \/ \E r \in RoomName : BroadcastToRoom(None, r)
  \/ cancel

Spec == Init /\ [][Next]_vars

(***************************************************************************)
(* The scheduler runs every goroutine that can take a step.  The hub's     *)
(* select picks at random among its ready cases, so it passes over none of *)
(* them for ever: shutdown, register and unregister are strongly fair.  A  *)
(* client whose connection is closed has sent finitely many messages, so   *)
(* its read pump comes to the error: strongly fair too.  Nothing obliges a *)
(* client to connect or to disconnect, nor the application to broadcast or *)
(* to cancel.                                                              *)
(***************************************************************************)
Fairness ==
  /\ WF_vars(Run) /\ SF_vars(shutdown)
  /\ \A c \in Client :
       /\ SF_vars(registerClient(c)) /\ SF_vars(unregisterClient(c))
       /\ SF_vars(readPumpEnds(c)) /\ WF_vars(enterRoom(c) \/ recordRoom(c))
       /\ WF_vars(recoverPump(c)) /\ WF_vars(writePump(c))

FairSpec == Spec /\ Fairness

----------------------------------------------------------------------------
(* Properties.                                                             *)

(***************************************************************************)
(* No registered client has a closed send channel until shutdown closes    *)
(* them all, so broadcastToAll never sends on a closed channel, and no     *)
(* channel is closed twice: dead clients, unregister and shutdown agree.   *)
(***************************************************************************)
RegisteredIsOpen == hub # "done" => clients \cap closed = {}

Lists(r, c) == current[r] # 0 /\ c \in members[<<r, current[r]>>]

(***************************************************************************)
(* Rooms and clients agree, outside the section of h.mu in which leaveRoom *)
(* changes both.  A client that a room lists knows that it is in the room, *)
(* or is between the two last sections of JoinRoom for that room; and a    *)
(* client that knows it is in a room is listed by it, whoever joins,       *)
(* leaves and deletes rooms meanwhile, with two exceptions: it was removed *)
(* by a broadcast to the room that found its buffer full, or the room it   *)
(* had found in JoinRoom was deleted before it entered.                    *)
(***************************************************************************)
RoomsAgree ==
  \A c \in Client, r \in RoomName :
    /\ Lists(r, c) => \/ r \in inRooms[c]
                      \/ reader[c] = "entered" /\ joining[c] = <<r, current[r]>>
    /\ r \in inRooms[c] /\ <<c, r>> \notin unlisted => Lists(r, c)

Since(c) == SubSeq(log, since[c] + 1, Len(log))

(* The broadcasts in a buffer, which also holds room messages and replies. *)
Broadcasts(buffer) ==
  LET upTo[i \in 0 .. Len(buffer)] ==
        IF i = 0 THEN <<>>
        ELSE IF buffer[i][1] = All THEN Append(upTo[i - 1], buffer[i][2])
                                   ELSE upTo[i - 1]
  IN  upTo[Len(buffer)]

(***************************************************************************)
(* A registered client misses no broadcast: what its connection got and    *)
(* what its buffer holds are all broadcasts since it registered, in order  *)
(* and once each.  One that was removed or disconnected got a prefix.      *)
(***************************************************************************)
NoGap ==
  \A c \in Client :
    LET got == received[c] \o Broadcasts(send[c])
    IN  /\ received[c] = SubSeq(Since(c), 1, Len(received[c]))
        /\ c \in clients \ dead /\ writer[c] = "writing" => got = Since(c)

Ended(c) == reader[c] = "gone" /\ writer[c] # "writing"

Broken == ~Up \/ hub = "stuck"

(***************************************************************************)
(* The goroutines of a connection that is closed, or that the shutdown of  *)
(* the hub finds open, registering or removed as dead, end sooner or       *)
(* later, unless the process or the hub has broken down.                   *)
(***************************************************************************)
PumpsEnd ==
  \A c \in Client :
    (reader[c] # "new" /\ (conn[c] = "closed" \/ ctx = "done"))
      ~> (Ended(c) \/ Broken)

----------------------------------------------------------------------------
(***************************************************************************)
(* What comments and tests say and the code does not do.                   *)
(***************************************************************************)

(* module.go: Shutdown closes all connections and waits for the hub to     *)
(* finish.                                                                 *)
ShutdownFinishes == ctx = "done" ~> hub = "done"

(* hub.go: the dead clients are cleaned up, so that broadcasts reach the   *)
(* clients of a room and never a closed channel.                           *)
HubNeverPanics == process # "hub panic"
=============================================================================
