-------------------------------- MODULE Hub --------------------------------
(***************************************************************************)
(* The WebSocket hub and the pumps of its clients, for the room of one     *)
(* poll: the goroutine Run with its three channels, the goroutines that    *)
(* keep the presence set of Redis, the relay of Redis Pub/Sub, ReadPump    *)
(* and WritePump of each connection, and the vote handlers that publish.   *)
(* A room the hub has no map entry for is an empty room.                   *)
(***************************************************************************)
EXTENDS Naturals, SequencesExt

CONSTANTS
  Clients,       \* connections; a browser that reconnects is a new one
  SendCap,       \* capacity of client.Send
  BroadcastCap,  \* capacity of hub.broadcast
  MaxResults,    \* bound on the results published
  MaxInFlight,   \* handlers at once between reading results and the end
  Events         \* "redis": commands fail; "expire": the key's two hours end

ASSUME HubAssumption ==
  /\ IsFiniteSet(Clients)
  /\ SendCap \in Nat \ {0} /\ BroadcastCap \in Nat \ {0}
  /\ MaxResults \in Nat /\ MaxInFlight \in Nat
  /\ Events \subseteq {"redis", "expire"}

Versions == 1..MaxResults
Messages == [type : {"results", "viewers"}, n : Nat]
Results(v) == [type |-> "results", n |-> v]
Viewers(k) == [type |-> "viewers", n |-> k]

VARIABLES
  room,      \* h.rooms[pollID]
  broadcast, \* h.broadcast
  log,       \* history: what Run has sent to the room
  serving,   \* ServeWS of each client: "no", "register", "registered"
  alive,     \* the connection is open at both ends
  Send,      \* client.Send
  closes,    \* how often client.Send has been closed
  reader,    \* ReadPump: "none", "reading", "unregister", "ended"
  writer,    \* WritePump: "none", "idle", "writing", "ended"
  frame,     \* the messages of the frame being written
  got,       \* history: what was written to the connection
  joined,    \* history: Len(log) when the client was registered
  join,      \* the goroutine of Register: "none", "change", "count", "send", "done"
  leave,     \* the goroutine of Unregister, likewise
  count,     \* the viewer count each of the two is to broadcast
  presence,  \* poll:{id}:active_users
  handler,   \* the vote handler of each version of the results
  redisCh    \* poll:{id}:updates, up to the subscription of this process

pumps  == <<alive, reader, writer, frame, got>>
tasks  == <<join, leave, count, presence>>
votes  == <<handler, redisCh>>
vars   == <<room, broadcast, log, serving, pumps, Send, closes, joined, tasks, votes>>

Init ==
  /\ room = {} /\ broadcast = <<>> /\ log = <<>> /\ presence = {} /\ redisCh = <<>>
  /\ serving = [c \in Clients |-> "no"] /\ alive = [c \in Clients |-> FALSE]
  /\ Send = [c \in Clients |-> <<>>] /\ closes = [c \in Clients |-> 0]
  /\ reader = [c \in Clients |-> "none"] /\ writer = [c \in Clients |-> "none"]
  /\ frame = [c \in Clients |-> <<>>] /\ got = [c \in Clients |-> <<>>]
  /\ joined = [c \in Clients |-> 0]
  /\ join = [c \in Clients |-> "none"] /\ leave = [c \in Clients |-> "none"]
  /\ count = [c \in Clients |-> [join |-> 0, leave |-> 0]]
  /\ handler = [v \in Versions |-> "none"]

Offer(m) == Len(broadcast) < BroadcastCap /\ broadcast' = Append(broadcast, m)

-----------------------------------------------------------------------------
(* Hub.Run: one case of its select at a time. Its goroutines inherit the    *)
(* size of the room, which they broadcast when Redis gives no count.        *)

ServeWS(c) ==
  /\ serving[c] = "no"
  /\ serving' = [serving EXCEPT ![c] = "register"]
  /\ alive' = [alive EXCEPT ![c] = TRUE]
  /\ UNCHANGED <<room, broadcast, log, reader, writer, frame, got, Send, closes,
                 joined, tasks, votes>>

Register(c) ==
  /\ serving[c] = "register"
  /\ serving' = [serving EXCEPT ![c] = "registered"]
  /\ room' = room \cup {c}
  /\ joined' = [joined EXCEPT ![c] = Len(log)]
  /\ reader' = [reader EXCEPT ![c] = "reading"]
  /\ writer' = [writer EXCEPT ![c] = "idle"]
  /\ join' = [join EXCEPT ![c] = "change"]
  /\ count' = [count EXCEPT ![c].join = Cardinality(room')]
  /\ UNCHANGED <<broadcast, log, alive, frame, got, Send, closes, leave, presence, votes>>

CloseAlways(c) ==  \* mutant: the channel is closed whether or not c is in the room
  /\ reader[c] = "unregister"
  /\ reader' = [reader EXCEPT ![c] = "ended"]
  /\ alive' = [alive EXCEPT ![c] = FALSE]
  /\ room' = room \ {c}
  /\ closes' = [closes EXCEPT ![c] = @ + 1]
  /\ leave' = [leave EXCEPT ![c] = "change"]
  /\ count' = [count EXCEPT ![c].leave = Cardinality(room')]
  /\ UNCHANGED <<broadcast, log, serving, writer, frame, got, Send, joined, join, presence, votes>>

Unregister(c) ==
  /\ reader[c] = "unregister"
  /\ reader' = [reader EXCEPT ![c] = "ended"]
  /\ alive' = [alive EXCEPT ![c] = FALSE]
  /\ room' = room \ {c}
  /\ closes' = IF c \in room THEN [closes EXCEPT ![c] = @ + 1] ELSE closes
  /\ leave' = [leave EXCEPT ![c] = "change"]
  /\ count' = [count EXCEPT ![c].leave = Cardinality(room')]
  /\ UNCHANGED <<broadcast, log, serving, writer, frame, got, Send, joined, join, presence, votes>>

SlowTooLate(c) == Len(Send[c]) > SendCap  \* mutant: off by one

Slow(c) == Len(Send[c]) >= SendCap

SkipSlow ==  \* mutant: a client whose channel is full misses the message
  /\ broadcast # <<>>
  /\ broadcast' = Tail(broadcast) /\ log' = Append(log, Head(broadcast))
  /\ Send' = [c \in Clients |->
       IF c \in room /\ ~Slow(c) THEN Append(Send[c], Head(broadcast)) ELSE Send[c]]
  /\ UNCHANGED <<room, closes, serving, pumps, joined, tasks, votes>>

(* A client whose channel is full is closed and leaves the room.            *)
Broadcast ==
  /\ broadcast # <<>>
  /\ broadcast' = Tail(broadcast) /\ log' = Append(log, Head(broadcast))
  /\ Send' = [c \in Clients |->
       IF c \in room /\ ~Slow(c) THEN Append(Send[c], Head(broadcast)) ELSE Send[c]]
  /\ closes' = [c \in Clients |-> closes[c] + IF c \in room /\ Slow(c) THEN 1 ELSE 0]
  /\ room' = {c \in room : ~Slow(c)}
  /\ UNCHANGED <<serving, pumps, joined, tasks, votes>>

-----------------------------------------------------------------------------
(* The pumps of a connection.                                               *)

(* The browser goes away, breaks the protocol or answers no ping in time.   *)
PeerLeaves(c) ==
  /\ alive[c]
  /\ alive' = [alive EXCEPT ![c] = FALSE]
  /\ UNCHANGED <<room, broadcast, log, serving, reader, writer, frame, got, Send,
                 closes, joined, tasks, votes>>

ReadPump(c) ==
  /\ reader[c] = "reading" /\ ~alive[c]
  /\ reader' = [reader EXCEPT ![c] = "unregister"]
  /\ UNCHANGED <<room, broadcast, log, serving, alive, writer, frame, got, Send,
                 closes, joined, tasks, votes>>

(* The first message and all that are queued behind it make one frame.      *)
TakeFrame(c) ==
  /\ writer[c] = "idle" /\ Send[c] # <<>>
  /\ writer' = [writer EXCEPT ![c] = "writing"]
  /\ frame' = [frame EXCEPT ![c] = Send[c]]
  /\ Send' = [Send EXCEPT ![c] = <<>>]
  /\ UNCHANGED <<room, broadcast, log, serving, alive, reader, got, closes,
                 joined, tasks, votes>>

WriteFrame(c) ==
  /\ writer[c] = "writing" /\ alive[c]
  /\ writer' = [writer EXCEPT ![c] = "idle"]
  /\ got' = [got EXCEPT ![c] = @ \o frame[c]]
  /\ frame' = [frame EXCEPT ![c] = <<>>]
  /\ UNCHANGED <<room, broadcast, log, serving, alive, reader, Send, closes,
                 joined, tasks, votes>>

KeepConn(c) ==  \* mutant: WritePump ends without closing the connection
  /\ \/ writer[c] = "writing"
     \/ writer[c] = "idle" /\ ~alive[c]
     \/ writer[c] = "idle" /\ Send[c] = <<>> /\ closes[c] > 0
  /\ writer' = [writer EXCEPT ![c] = "ended"]
  /\ UNCHANGED <<room, broadcast, log, serving, alive, reader, frame, got, Send,
                 closes, joined, tasks, votes>>

(* WritePump ends: a frame or a ping cannot be written in time, or the hub  *)
(* has closed the channel and what it held is written.                      *)
WritePumpEnds(c) ==
  /\ \/ writer[c] = "writing"
     \/ writer[c] = "idle" /\ ~alive[c]
     \/ writer[c] = "idle" /\ Send[c] = <<>> /\ closes[c] > 0
  /\ writer' = [writer EXCEPT ![c] = "ended"]
  /\ alive' = [alive EXCEPT ![c] = FALSE]
  /\ UNCHANGED <<room, broadcast, log, serving, reader, frame, got, Send, closes,
                 joined, tasks, votes>>

-----------------------------------------------------------------------------
(* The goroutines of Register and Unregister: change the presence set, ask  *)
(* for its size, broadcast that.                                            *)

LeaveFirst(c) ==  \* mutant: SREM in the goroutine of Register
  /\ join[c] = "change" /\ join' = [join EXCEPT ![c] = "count"]
  /\ presence' = presence \ {c}
  /\ UNCHANGED <<room, broadcast, log, serving, pumps, Send, closes, joined,
                 leave, count, votes>>

AddActiveViewer(c) ==
  /\ join[c] = "change" /\ join' = [join EXCEPT ![c] = "count"]
  /\ \/ presence' = presence \cup {c}
     \/ "redis" \in Events /\ presence' = presence
  /\ UNCHANGED <<room, broadcast, log, serving, pumps, Send, closes, joined,
                 leave, count, votes>>

RemoveActiveViewer(c) ==
  /\ leave[c] = "change" /\ leave' = [leave EXCEPT ![c] = "count"]
  /\ \/ presence' = presence \ {c}
     \/ "redis" \in Events /\ presence' = presence
  /\ UNCHANGED <<room, broadcast, log, serving, pumps, Send, closes, joined,
                 join, count, votes>>

CountViewers(c) ==
  /\ \/ /\ join[c] = "count" /\ join' = [join EXCEPT ![c] = "send"]
        /\ \/ count' = [count EXCEPT ![c].join = Cardinality(presence)]
           \/ "redis" \in Events /\ count' = count
        /\ UNCHANGED leave
     \/ /\ leave[c] = "count" /\ leave' = [leave EXCEPT ![c] = "send"]
        /\ \/ count' = [count EXCEPT ![c].leave = Cardinality(presence)]
           \/ "redis" \in Events /\ count' = count
        /\ UNCHANGED join
  /\ UNCHANGED <<room, broadcast, log, serving, pumps, Send, closes, joined,
                 presence, votes>>

BroadcastViewerCount(c) ==
  /\ \/ /\ join[c] = "send" /\ join' = [join EXCEPT ![c] = "done"]
        /\ Offer(Viewers(count[c].join)) /\ UNCHANGED leave
     \/ /\ leave[c] = "send" /\ leave' = [leave EXCEPT ![c] = "done"]
        /\ Offer(Viewers(count[c].leave)) /\ UNCHANGED join
  /\ UNCHANGED <<room, log, serving, pumps, Send, closes, joined, count, presence, votes>>

ExpirePresence ==
  /\ "expire" \in Events /\ presence # {}
  /\ presence' = {}
  /\ UNCHANGED <<room, broadcast, log, serving, pumps, Send, closes, joined,
                 join, leave, count, votes>>

-----------------------------------------------------------------------------
(* The end of CastVote: results are read, published to Redis, and handed to *)
(* the hub; and the goroutine that relays what Redis delivers.              *)

InFlight == {v \in Versions : handler[v] \in {"read", "published"}}

ReadResults(v) ==
  /\ handler[v] = "none" /\ \A w \in 1..(v - 1) : handler[w] # "none"
  /\ Cardinality(InFlight) < MaxInFlight
  /\ handler' = [handler EXCEPT ![v] = "read"]
  /\ UNCHANGED <<room, broadcast, log, serving, pumps, Send, closes, joined, tasks, redisCh>>

PublishPollUpdate(v) ==
  /\ handler[v] = "read"
  /\ handler' = [handler EXCEPT ![v] = "published"]
  /\ \/ redisCh' = Append(redisCh, v)
     \/ "redis" \in Events /\ redisCh' = redisCh
  /\ UNCHANGED <<room, broadcast, log, serving, pumps, Send, closes, joined, tasks>>

BroadcastLocal(v) ==
  /\ handler[v] = "published" /\ Offer(Results(v))
  /\ handler' = [handler EXCEPT ![v] = "done"]
  /\ UNCHANGED <<room, log, serving, pumps, Send, closes, joined, tasks, redisCh>>

DropWhenBusy ==  \* mutant: the relay does not wait for room in the channel
  /\ redisCh # <<>> /\ redisCh' = Tail(redisCh)
  /\ \/ Offer(Results(Head(redisCh)))
     \/ Len(broadcast) >= BroadcastCap /\ UNCHANGED broadcast
  /\ UNCHANGED <<room, log, serving, pumps, Send, closes, joined, tasks, handler>>

listenRedisPubSub ==
  /\ redisCh # <<>> /\ redisCh' = Tail(redisCh)
  /\ Offer(Results(Head(redisCh)))
  /\ UNCHANGED <<room, log, serving, pumps, Send, closes, joined, tasks, handler>>

-----------------------------------------------------------------------------

Pump(c) == TakeFrame(c) \/ WriteFrame(c) \/ WritePumpEnds(c)
Task(c) ==
  \/ AddActiveViewer(c) \/ RemoveActiveViewer(c)
  \/ CountViewers(c) \/ BroadcastViewerCount(c)
Handler(v) == PublishPollUpdate(v) \/ BroadcastLocal(v)

Next ==
  \/ \E c \in Clients :
       \/ ServeWS(c) \/ Register(c) \/ Unregister(c) \/ PeerLeaves(c)
       \/ ReadPump(c) \/ Pump(c) \/ Task(c)
  \/ \E v \in Versions : ReadResults(v) \/ Handler(v)
  \/ Broadcast \/ listenRedisPubSub \/ ExpirePresence

Spec == Init /\ [][Next]_vars

(* Go runs every goroutine that can run; select takes a ready case at       *)
(* random, so no case that stays ready waits for ever; and a pump never     *)
(* stays in a write longer than its deadline.                               *)
FairSpec ==
  /\ Spec
  /\ WF_vars(Broadcast) /\ WF_vars(listenRedisPubSub)
  /\ \A v \in Versions : WF_vars(Handler(v))
  /\ \A c \in Clients :
       /\ WF_vars(Register(c)) /\ WF_vars(Unregister(c))
       /\ WF_vars(ReadPump(c)) /\ WF_vars(Pump(c)) /\ WF_vars(Task(c))

-----------------------------------------------------------------------------
(* Properties.                                                              *)

(* The values of the variables; in particular the two channels keep within  *)
(* their capacities.                                                        *)
TypeOK ==
  /\ room \subseteq Clients /\ presence \subseteq Clients
  /\ broadcast \in Seq(Messages) /\ Len(broadcast) <= BroadcastCap
  /\ log \in Seq(Messages) /\ redisCh \in Seq(Versions)
  /\ serving \in [Clients -> {"no", "register", "registered"}]
  /\ alive \in [Clients -> BOOLEAN]
  /\ Send \in [Clients -> Seq(Messages)]
  /\ \A c \in Clients : Len(Send[c]) <= SendCap
  /\ closes \in [Clients -> Nat] /\ joined \in [Clients -> Nat]
  /\ reader \in [Clients -> {"none", "reading", "unregister", "ended"}]
  /\ writer \in [Clients -> {"none", "idle", "writing", "ended"}]
  /\ frame \in [Clients -> Seq(Messages)] /\ got \in [Clients -> Seq(Messages)]
  /\ join \in [Clients -> {"none", "change", "count", "send", "done"}]
  /\ leave \in [Clients -> {"none", "change", "count", "send", "done"}]
  /\ count \in [Clients -> [join : Nat, leave : Nat]]
  /\ handler \in [Versions -> {"none", "read", "published", "done"}]

(* Run never panics on a closed channel: eviction and Unregister, which may *)
(* both meet the same client, close its channel once between them, and no   *)
(* client of the room has a closed one.                                     *)
ChannelsClosedOnce ==
  \A c \in Clients : closes[c] <= 1 /\ (c \in room => closes[c] = 0)

(* What a client was sent, has in its frame and in its channel is what went *)
(* to the room since it was registered, without a gap and in order; for a   *)
(* client still in the room it is all of that.                              *)
NoGaps ==
  \A c \in Clients : serving[c] = "registered" =>
    LET line == got[c] \o frame[c] \o Send[c] IN
    /\ joined[c] + Len(line) <= Len(log)
    /\ line = SubSeq(log, joined[c] + 1, joined[c] + Len(line))
    /\ c \in room => joined[c] + Len(line) = Len(log)

(* As long as Redis answers and its key has not expired, a client that has  *)
(* been added is in the presence set until its own Unregister, evicted or   *)
(* not.                                                                     *)
ConnectedIsPresent ==
  Events = {} => \A c \in Clients :
    join[c] \in {"count", "send", "done"} /\ reader[c] # "ended" => c \in presence

Quiet ==
  /\ InFlight = {} /\ redisCh = <<>> /\ broadcast = <<>>
  /\ \A c \in Clients :
       /\ join[c] \in {"none", "done"} /\ leave[c] \in {"none", "done"}
       /\ reader[c] # "unregister"
       /\ c \in room => Send[c] = <<>> /\ frame[c] = <<>>

LastResults(line) ==
  LET i == SelectLastInSeq(line, LAMBDA m : m.type = "results") IN
  IF i = 0 THEN 0 ELSE line[i].n

(* Votes handled one after the other: each is sent twice, by Redis and      *)
(* locally, and a stale copy may overtake a fresh one on the way; but when  *)
(* all is quiet whatever a viewer saw last is the newest result.            *)
ViewersEndCurrent ==
  MaxInFlight = 1 /\ "redis" \notin Events /\ Quiet =>
    \A c \in room : LastResults(got[c]) # 0 =>
      \A v \in Versions : handler[v] = "done" => v <= LastResults(got[c])

(* A client whose channel the hub has closed for being slow is disconnected *)
(* and unregistered.                                                        *)
EvictedLeaves ==
  \A c \in Clients : closes[c] > 0 ~> reader[c] = "ended" /\ c \notin room

(* Results about to be handed to the hub reach every client of the room     *)
(* that stays connected; nobody waits for ever on a full channel.           *)
ResultsArrive ==
  \A c \in Clients, v \in Versions :
    handler[v] = "published" /\ c \in room ~>
      ~alive[c] \/ \E i \in DOMAIN got[c] : got[c][i] = Results(v)
=============================================================================
