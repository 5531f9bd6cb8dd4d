----------------------------- MODULE HubProofs -----------------------------
(***************************************************************************)
(* Proofs about Hub, for any number of clients, any capacities, any number *)
(* of results and any mixture of Redis failures.                           *)
(***************************************************************************)
EXTENDS Hub, FiniteSetTheorems, SequenceTheorems, TLAPS

-----------------------------------------------------------------------------
(* Type correctness.                                                        *)

LEMMA MessageTypes ==
  /\ \A k \in Nat : Viewers(k) \in Messages
  /\ \A v \in Versions : Results(v) \in Messages
BY HubAssumption DEF Viewers, Results, Messages, Versions

(* What fits into the channel of the hub leaves it within its capacity.     *)
LEMMA OfferType ==
  ASSUME TypeOK, NEW m \in Messages, Offer(m)
  PROVE  broadcast' \in Seq(Messages) /\ Len(broadcast') <= BroadcastCap
<1>1. broadcast \in Seq(Messages) /\ Len(broadcast) \in Nat
  BY LenProperties DEF TypeOK
<1>2. broadcast' \in Seq(Messages) /\ Len(broadcast') = Len(broadcast) + 1
  BY <1>1, AppendProperties DEF Offer
<1> QED BY <1>1, <1>2, HubAssumption DEF Offer

(* The size of a set of clients is a natural number.                        *)
LEMMA SizeType ==
  ASSUME NEW S \in SUBSET Clients
  PROVE  Cardinality(S) \in Nat
BY HubAssumption, FS_Subset, FS_CardinalityType

(* Setting one of the two counts of a client keeps their type.              *)
LEMMA CountType ==
  ASSUME NEW k \in [join : Nat, leave : Nat], NEW n \in Nat
  PROVE  /\ [k EXCEPT !.join = n] \in [join : Nat, leave : Nat]
         /\ [k EXCEPT !.leave = n] \in [join : Nat, leave : Nat]
OBVIOUS

LEMMA TypeInit == Init => TypeOK
<1>1. \A S : <<>> \in Seq(S) /\ Len(<<>>) = 0
  BY EmptySeq
<1> QED BY <1>1, HubAssumption DEF Init, TypeOK

LEMMA TypeStep == TypeOK /\ [Next]_vars => TypeOK'
<1> SUFFICES ASSUME TypeOK, [Next]_vars PROVE TypeOK'
  OBVIOUS
<1> USE DEF pumps, tasks, votes
<1>1. ASSUME NEW c \in Clients, ServeWS(c) PROVE TypeOK'
  BY <1>1 DEF TypeOK, ServeWS
<1>2. ASSUME NEW c \in Clients, Register(c) PROVE TypeOK'
  <2>1. room' \subseteq Clients /\ Len(log) \in Nat
    BY <1>2, LenProperties DEF TypeOK, Register
  <2>2. Cardinality(room') \in Nat
    BY <2>1, SizeType
  <2>3. count' \in [Clients -> [join : Nat, leave : Nat]]
    <3>1. [count[c] EXCEPT !.join = Cardinality(room')] \in [join : Nat, leave : Nat]
      <4>1. count[c] \in [join : Nat, leave : Nat]
        BY DEF TypeOK
      <4> QED BY <4>1, <2>2, CountType
    <3>2. count' = [count EXCEPT ![c] = [count[c] EXCEPT !.join = Cardinality(room')]]
      BY <1>2 DEF Register
    <3> QED BY <3>1, <3>2 DEF TypeOK
  <2>4. joined' \in [Clients -> Nat]
    BY <1>2, <2>1 DEF TypeOK, Register
  <2>5. /\ serving' \in [Clients -> {"no", "register", "registered"}]
        /\ reader' \in [Clients -> {"none", "reading", "unregister", "ended"}]
        /\ writer' \in [Clients -> {"none", "idle", "writing", "ended"}]
        /\ join' \in [Clients -> {"none", "change", "count", "send", "done"}]
    BY <1>2 DEF TypeOK, Register
  <2> QED BY <1>2, <2>1, <2>3, <2>4, <2>5 DEF TypeOK, Register
<1>3. ASSUME NEW c \in Clients, Unregister(c) PROVE TypeOK'
  <2>1. room' \subseteq Clients
    BY <1>3 DEF TypeOK, Unregister
  <2>2. Cardinality(room') \in Nat
    BY <2>1, SizeType
  <2>3. count' \in [Clients -> [join : Nat, leave : Nat]]
    <3>1. [count[c] EXCEPT !.leave = Cardinality(room')] \in [join : Nat, leave : Nat]
      <4>1. count[c] \in [join : Nat, leave : Nat]
        BY DEF TypeOK
      <4> QED BY <4>1, <2>2, CountType
    <3>2. count' = [count EXCEPT ![c] = [count[c] EXCEPT !.leave = Cardinality(room')]]
      BY <1>3 DEF Unregister
    <3> QED BY <3>1, <3>2 DEF TypeOK
  <2>4. closes' \in [Clients -> Nat]
    BY <1>3 DEF TypeOK, Unregister
  <2> QED BY <1>3, <2>1, <2>3, <2>4 DEF TypeOK, Unregister
<1>4. ASSUME Broadcast PROVE TypeOK'
  <2>1. /\ Head(broadcast) \in Messages /\ Tail(broadcast) \in Seq(Messages)
        /\ Len(Tail(broadcast)) <= BroadcastCap
    <3>1. broadcast \in Seq(Messages) /\ broadcast # <<>> /\ Len(broadcast) <= BroadcastCap
      BY <1>4 DEF TypeOK, Broadcast
    <3>2. Len(broadcast) \in Nat /\ Len(Tail(broadcast)) = Len(broadcast) - 1
      BY <3>1, HeadTailProperties, LenProperties
    <3> QED BY <3>1, <3>2, HeadTailProperties, HubAssumption
  <2>2. log' \in Seq(Messages)
    BY <1>4, <2>1, AppendProperties DEF TypeOK, Broadcast
  <2>3. ASSUME NEW c \in Clients
        PROVE  /\ Append(Send[c], Head(broadcast)) \in Seq(Messages)
               /\ ~Slow(c) => Len(Append(Send[c], Head(broadcast))) <= SendCap
    <3>1. Send[c] \in Seq(Messages) /\ Len(Send[c]) \in Nat
      BY LenProperties DEF TypeOK
    <3> QED BY <2>1, <3>1, AppendProperties, HubAssumption DEF Slow
  <2>4. /\ Send' \in [Clients -> Seq(Messages)]
        /\ \A c \in Clients : Len(Send'[c]) <= SendCap
    BY <1>4, <2>3 DEF TypeOK, Broadcast
  <2>5. closes' \in [Clients -> Nat] /\ room' \subseteq Clients
    <3>1. \A c \in Clients : closes[c] + (IF c \in room /\ Slow(c) THEN 1 ELSE 0) \in Nat
      <4>1. ASSUME NEW c \in Clients
            PROVE  closes[c] + (IF c \in room /\ Slow(c) THEN 1 ELSE 0) \in Nat
        <5>1. closes[c] \in Nat
          BY DEF TypeOK
        <5> QED BY <5>1
      <4> QED BY <4>1
    <3>2. closes' = [c \in Clients |-> closes[c] + IF c \in room /\ Slow(c) THEN 1 ELSE 0]
      BY <1>4 DEF Broadcast
    <3> QED BY <1>4, <3>1, <3>2 DEF TypeOK, Broadcast
  <2> QED BY <1>4, <2>1, <2>2, <2>4, <2>5 DEF TypeOK, Broadcast
<1>5. ASSUME NEW c \in Clients, PeerLeaves(c) PROVE TypeOK'
  BY <1>5 DEF TypeOK, PeerLeaves
<1>6. ASSUME NEW c \in Clients, ReadPump(c) PROVE TypeOK'
  BY <1>6 DEF TypeOK, ReadPump
<1>7. ASSUME NEW c \in Clients, TakeFrame(c) PROVE TypeOK'
  <2>1. <<>> \in Seq(Messages) /\ Len(<<>>) <= SendCap
    BY EmptySeq, HubAssumption
  <2> QED BY <1>7, <2>1 DEF TypeOK, TakeFrame
<1>8. ASSUME NEW c \in Clients, WriteFrame(c) PROVE TypeOK'
  <2>1. <<>> \in Seq(Messages) /\ got[c] \o frame[c] \in Seq(Messages)
    BY EmptySeq, ConcatProperties DEF TypeOK
  <2> QED BY <1>8, <2>1 DEF TypeOK, WriteFrame
<1>9. ASSUME NEW c \in Clients, WritePumpEnds(c) PROVE TypeOK'
  BY <1>9 DEF TypeOK, WritePumpEnds
<1>10. ASSUME NEW c \in Clients, AddActiveViewer(c) PROVE TypeOK'
  BY <1>10 DEF TypeOK, AddActiveViewer
<1>11. ASSUME NEW c \in Clients, RemoveActiveViewer(c) PROVE TypeOK'
  BY <1>11 DEF TypeOK, RemoveActiveViewer
<1>12. ASSUME NEW c \in Clients, CountViewers(c) PROVE TypeOK'
  <2>1. Cardinality(presence) \in Nat
    BY SizeType DEF TypeOK
  <2>2. count' \in [Clients -> [join : Nat, leave : Nat]]
    <3>1. count \in [Clients -> [join : Nat, leave : Nat]]
      BY DEF TypeOK
    <3>2. /\ [count EXCEPT ![c].join = Cardinality(presence)]
               \in [Clients -> [join : Nat, leave : Nat]]
          /\ [count EXCEPT ![c].leave = Cardinality(presence)]
               \in [Clients -> [join : Nat, leave : Nat]]
      BY <2>1, <3>1
    <3> QED BY <1>12, <3>1, <3>2 DEF CountViewers
  <2>3. /\ join' \in [Clients -> {"none", "change", "count", "send", "done"}]
        /\ leave' \in [Clients -> {"none", "change", "count", "send", "done"}]
    BY <1>12 DEF TypeOK, CountViewers
  <2> QED BY <1>12, <2>2, <2>3 DEF TypeOK, CountViewers
<1>13. ASSUME NEW c \in Clients, BroadcastViewerCount(c) PROVE TypeOK'
  <2>1. count[c].join \in Nat /\ count[c].leave \in Nat
    BY DEF TypeOK
  <2>2. broadcast' \in Seq(Messages) /\ Len(broadcast') <= BroadcastCap
    BY <1>13, <2>1, MessageTypes, OfferType DEF BroadcastViewerCount
  <2> QED BY <1>13, <2>2 DEF TypeOK, BroadcastViewerCount
<1>14. ASSUME ExpirePresence PROVE TypeOK'
  BY <1>14 DEF TypeOK, ExpirePresence
<1>15. ASSUME NEW v \in Versions, ReadResults(v) PROVE TypeOK'
  BY <1>15 DEF TypeOK, ReadResults
<1>16. ASSUME NEW v \in Versions, PublishPollUpdate(v) PROVE TypeOK'
  <2>1. redisCh \in Seq(Versions)
    BY DEF TypeOK
  <2>2. Append(redisCh, v) \in Seq(Versions)
    BY <2>1, AppendProperties
  <2> QED BY <1>16, <2>2 DEF TypeOK, PublishPollUpdate
<1>17. ASSUME NEW v \in Versions, BroadcastLocal(v) PROVE TypeOK'
  <2>1. broadcast' \in Seq(Messages) /\ Len(broadcast') <= BroadcastCap
    BY <1>17, MessageTypes, OfferType DEF BroadcastLocal
  <2> QED BY <1>17, <2>1 DEF TypeOK, BroadcastLocal
<1>18. ASSUME listenRedisPubSub PROVE TypeOK'
  <2>1. Head(redisCh) \in Versions /\ Tail(redisCh) \in Seq(Versions)
    BY <1>18, HeadTailProperties DEF TypeOK, listenRedisPubSub
  <2>2. broadcast' \in Seq(Messages) /\ Len(broadcast') <= BroadcastCap
    BY <1>18, <2>1, MessageTypes, OfferType DEF listenRedisPubSub
  <2> QED BY <1>18, <2>1, <2>2 DEF TypeOK, listenRedisPubSub
<1>19. ASSUME UNCHANGED vars PROVE TypeOK'
  BY <1>19 DEF TypeOK, vars
<1> QED
  BY <1>1, <1>2, <1>3, <1>4, <1>5, <1>6, <1>7, <1>8, <1>9, <1>10, <1>11, <1>12,
     <1>13, <1>14, <1>15, <1>16, <1>17, <1>18, <1>19 DEF Next, Pump, Task, Handler

(* Type correctness of the hub; in particular no channel ever holds more    *)
(* than its capacity.                                                       *)
THEOREM HubTypeCorrect == Spec => []TypeOK
BY TypeInit, TypeStep, PTL DEF Spec

-----------------------------------------------------------------------------
(* Clients, channels and the presence set. A client that is not registered  *)
(* yet has done nothing; only a client that has been through Unregister has *)
(* a leave goroutine.                                                       *)

Untouched(c) ==
  /\ closes[c] = 0 /\ c \notin room
  /\ reader[c] = "none" /\ writer[c] = "none"
  /\ join[c] = "none" /\ leave[c] = "none"
  /\ got[c] = <<>> /\ frame[c] = <<>> /\ Send[c] = <<>>

ClientOrder ==
  \A c \in Clients :
    /\ serving[c] # "registered" => Untouched(c)
    /\ leave[c] # "none" => reader[c] = "ended"
    /\ writer[c] = "idle" => frame[c] = <<>>

ClientInv == ClientOrder /\ ChannelsClosedOnce /\ ConnectedIsPresent

LEMMA ClientInit == Init => ClientInv
BY DEF Init, ClientInv, ClientOrder, Untouched, ChannelsClosedOnce, ConnectedIsPresent

LEMMA ClientStep == TypeOK /\ ClientInv /\ [Next]_vars => ClientInv'
<1> SUFFICES ASSUME TypeOK, ClientInv, [Next]_vars PROVE ClientInv'
  OBVIOUS
<1> USE DEF pumps, tasks, votes, ClientInv, ClientOrder, Untouched,
            ChannelsClosedOnce, ConnectedIsPresent
<1>1. ASSUME NEW c \in Clients, ServeWS(c) PROVE ClientInv'
  BY <1>1 DEF TypeOK, ServeWS
<1>2. ASSUME NEW c \in Clients, Register(c) PROVE ClientInv'
  <2>1. ClientOrder'
    BY <1>2 DEF TypeOK, Register
  <2>2. ChannelsClosedOnce'
    BY <1>2 DEF TypeOK, Register
  <2>3. ConnectedIsPresent'
    BY <1>2 DEF TypeOK, Register
  <2> QED BY <2>1, <2>2, <2>3
<1>3. ASSUME NEW c \in Clients, Unregister(c) PROVE ClientInv'
  <2>1. ClientOrder'
    <3>1. ASSUME NEW x \in Clients, serving'[x] # "registered" PROVE Untouched(x)'
      BY <1>3, <3>1 DEF TypeOK, Unregister
    <3>2. ASSUME NEW x \in Clients
          PROVE  /\ leave'[x] # "none" => reader'[x] = "ended"
                 /\ writer'[x] = "idle" => frame'[x] = <<>>
      BY <1>3 DEF TypeOK, Unregister
    <3> QED BY <3>1, <3>2
  <2>2. ChannelsClosedOnce'
    <3>1. ASSUME NEW x \in Clients
          PROVE  closes'[x] <= 1 /\ (x \in room' => closes'[x] = 0)
      <4>1. closes[x] \in Nat /\ closes[x] <= 1 /\ (x \in room => closes[x] = 0)
        BY DEF TypeOK
      <4>2. /\ x = c => x \notin room'
            /\ x # c => closes'[x] = closes[x] /\ (x \in room' => x \in room)
            /\ x = c => closes'[x] = IF c \in room THEN closes[x] + 1 ELSE closes[x]
        BY <1>3 DEF TypeOK, Unregister
      <4> QED BY <4>1, <4>2
    <3> QED BY <3>1
  <2>3. ConnectedIsPresent'
    BY <1>3 DEF TypeOK, Unregister
  <2> QED BY <2>1, <2>2, <2>3
<1>4. ASSUME Broadcast PROVE ClientInv'
  <2>1. UNCHANGED <<serving, pumps, join, leave, presence>> /\ room' \subseteq room
    BY <1>4 DEF Broadcast
  <2>2. ASSUME NEW x \in Clients
        PROVE  /\ closes'[x] <= 1 /\ (x \in room' => closes'[x] = 0)
               /\ x \notin room => closes'[x] = closes[x] /\ Send'[x] = Send[x]
    <3>1. closes[x] \in Nat /\ closes[x] <= 1 /\ (x \in room => closes[x] = 0)
      BY DEF TypeOK
    <3>2. /\ closes'[x] = closes[x] + IF x \in room /\ Slow(x) THEN 1 ELSE 0
          /\ x \in room' <=> x \in room /\ ~Slow(x)
          /\ x \notin room => Send'[x] = Send[x]
      BY <1>4 DEF Broadcast
    <3> HIDE DEF ClientInv, ClientOrder, Untouched
    <3> QED BY <3>1, <3>2
  <2>3. ClientOrder'
    BY <2>1, <2>2
  <2>4. ChannelsClosedOnce'
    BY <2>2
  <2>5. ConnectedIsPresent'
    BY <2>1
  <2> QED BY <2>3, <2>4, <2>5
<1>5. ASSUME NEW c \in Clients, PeerLeaves(c) PROVE ClientInv'
  BY <1>5 DEF TypeOK, PeerLeaves
<1>6. ASSUME NEW c \in Clients, ReadPump(c) PROVE ClientInv'
  BY <1>6 DEF TypeOK, ReadPump
<1>7. ASSUME NEW c \in Clients, TakeFrame(c) PROVE ClientInv'
  <2>1. ClientOrder'
    <3>1. ASSUME NEW x \in Clients, serving'[x] # "registered" PROVE Untouched(x)'
      BY <1>7, <3>1 DEF TypeOK, TakeFrame
    <3>2. ASSUME NEW x \in Clients
          PROVE  /\ leave'[x] # "none" => reader'[x] = "ended"
                 /\ writer'[x] = "idle" => frame'[x] = <<>>
      <4>1. leave'[x] = leave[x] /\ reader'[x] = reader[x]
        BY <1>7 DEF TakeFrame
      <4>2. writer'[x] = "idle" => frame'[x] = <<>>
        BY <1>7 DEF TypeOK, TakeFrame
      <4> QED BY <4>1, <4>2
    <3> QED BY <3>1, <3>2
  <2>2. ChannelsClosedOnce'
    BY <1>7 DEF TypeOK, TakeFrame
  <2>3. ConnectedIsPresent'
    BY <1>7 DEF TypeOK, TakeFrame
  <2> QED BY <2>1, <2>2, <2>3
<1>8. ASSUME NEW c \in Clients, WriteFrame(c) PROVE ClientInv'
  <2>1. ClientOrder'
    <3>1. ASSUME NEW x \in Clients, serving'[x] # "registered" PROVE Untouched(x)'
      BY <1>8, <3>1 DEF TypeOK, WriteFrame
    <3>2. ASSUME NEW x \in Clients
          PROVE  /\ leave'[x] # "none" => reader'[x] = "ended"
                 /\ writer'[x] = "idle" => frame'[x] = <<>>
      <4>1. leave'[x] = leave[x] /\ reader'[x] = reader[x]
        BY <1>8 DEF WriteFrame
      <4>2. writer'[x] = "idle" => frame'[x] = <<>>
        BY <1>8 DEF TypeOK, WriteFrame
      <4> QED BY <4>1, <4>2
    <3> QED BY <3>1, <3>2
  <2>2. ChannelsClosedOnce'
    BY <1>8 DEF TypeOK, WriteFrame
  <2>3. ConnectedIsPresent'
    BY <1>8 DEF TypeOK, WriteFrame
  <2> QED BY <2>1, <2>2, <2>3
<1>9. ASSUME NEW c \in Clients, WritePumpEnds(c) PROVE ClientInv'
  BY <1>9 DEF TypeOK, WritePumpEnds
<1>10. ASSUME NEW c \in Clients, AddActiveViewer(c) PROVE ClientInv'
  BY <1>10 DEF TypeOK, AddActiveViewer
<1>11. ASSUME NEW c \in Clients, RemoveActiveViewer(c) PROVE ClientInv'
  BY <1>11 DEF TypeOK, RemoveActiveViewer
<1>12. ASSUME NEW c \in Clients, CountViewers(c) PROVE ClientInv'
  <2>1. UNCHANGED <<room, serving, pumps, Send, closes, presence>>
    BY <1>12 DEF CountViewers
  <2>2. ASSUME NEW x \in Clients
        PROVE  /\ join'[x] = "none" <=> join[x] = "none"
               /\ leave'[x] = "none" <=> leave[x] = "none"
               /\ join'[x] \in {"count", "send", "done"}
                    <=> join[x] \in {"count", "send", "done"}
    <3>1. CASE join[c] = "count" /\ join' = [join EXCEPT ![c] = "send"] /\ UNCHANGED leave
      BY <3>1 DEF TypeOK
    <3>2. CASE leave[c] = "count" /\ leave' = [leave EXCEPT ![c] = "send"] /\ UNCHANGED join
      BY <3>2 DEF TypeOK
    <3> QED BY <1>12, <3>1, <3>2 DEF CountViewers
  <2> QED BY <2>1, <2>2
<1>13. ASSUME NEW c \in Clients, BroadcastViewerCount(c) PROVE ClientInv'
  <2>1. UNCHANGED <<room, serving, pumps, Send, closes, presence>>
    BY <1>13 DEF BroadcastViewerCount
  <2>2. ASSUME NEW x \in Clients
        PROVE  /\ join'[x] = "none" <=> join[x] = "none"
               /\ leave'[x] = "none" <=> leave[x] = "none"
               /\ join'[x] \in {"count", "send", "done"}
                    <=> join[x] \in {"count", "send", "done"}
    <3>1. CASE join[c] = "send" /\ join' = [join EXCEPT ![c] = "done"] /\ UNCHANGED leave
      BY <3>1 DEF TypeOK
    <3>2. CASE leave[c] = "send" /\ leave' = [leave EXCEPT ![c] = "done"] /\ UNCHANGED join
      BY <3>2 DEF TypeOK
    <3> QED BY <1>13, <3>1, <3>2 DEF BroadcastViewerCount
  <2> QED BY <2>1, <2>2
<1>14. ASSUME ExpirePresence PROVE ClientInv'
  <2>1. Events # {} /\ UNCHANGED <<room, serving, pumps, Send, closes, join, leave>>
    BY <1>14 DEF ExpirePresence
  <2> QED BY <2>1
<1>15. ASSUME UNCHANGED <<room, serving, pumps, Send, closes, tasks>>
       PROVE  ClientInv'
  BY <1>15
<1> QED
  BY <1>1, <1>2, <1>3, <1>4, <1>5, <1>6, <1>7, <1>8, <1>9, <1>10, <1>11, <1>12,
     <1>13, <1>14, <1>15
     DEF Next, Pump, Task, Handler, ReadResults, PublishPollUpdate,
         BroadcastLocal, listenRedisPubSub, vars

LEMMA ClientInvariant == Spec => [](TypeOK /\ ClientInv)
<1>1. Init => TypeOK /\ ClientInv
  BY TypeInit, ClientInit
<1>2. (TypeOK /\ ClientInv) /\ [Next]_vars => (TypeOK /\ ClientInv)'
  BY TypeStep, ClientStep
<1> QED BY <1>1, <1>2, PTL DEF Spec

(* However evictions and Unregister interleave, no client's channel is      *)
(* closed twice and Run never sends on a closed one.                        *)
THEOREM NoPanic == Spec => []ChannelsClosedOnce
BY ClientInvariant, PTL DEF ClientInv

(* While Redis answers, a client that has been added stays in the presence  *)
(* set until it is unregistered.                                            *)
THEOREM PresentUntilUnregistered == Spec => []ConnectedIsPresent
BY ClientInvariant, PTL DEF ClientInv

-----------------------------------------------------------------------------
(* What reaches a client is a segment of the room's log, stated element by  *)
(* element, which is easier to keep than an equation on subsequences.       *)

Line(c) == got[c] \o frame[c] \o Send[c]

Segment(line, seq, j) ==
  /\ j + Len(line) <= Len(seq)
  /\ \A i \in 1..Len(line) : line[i] = seq[j + i]

UpToDate(c) ==
  /\ Segment(Line(c), log, joined[c])
  /\ c \in room => joined[c] + Len(Line(c)) = Len(log)

SegmentInv == \A c \in Clients : serving[c] = "registered" => UpToDate(c)

LEMMA LineType ==
  ASSUME TypeOK, NEW c \in Clients
  PROVE  /\ Line(c) \in Seq(Messages) /\ Len(Line(c)) \in Nat
         /\ joined[c] \in Nat /\ log \in Seq(Messages) /\ Len(log) \in Nat
<1>1. got[c] \in Seq(Messages) /\ frame[c] \in Seq(Messages) /\ Send[c] \in Seq(Messages)
  BY DEF TypeOK
<1>2. Line(c) \in Seq(Messages)
  BY <1>1, ConcatProperties DEF Line
<1> QED BY <1>2, LenProperties DEF TypeOK

(* The element-wise form gives the equation of NoGaps.                      *)
LEMMA SegmentIsSubSeq ==
  ASSUME NEW line \in Seq(Messages), NEW seq \in Seq(Messages), NEW j \in Nat,
         Segment(line, seq, j)
  PROVE  line = SubSeq(seq, j + 1, j + Len(line))
<1> DEFINE part == SubSeq(seq, j + 1, j + Len(line))
<1>1. Len(line) \in Nat /\ Len(seq) \in Nat /\ j + 1 \in Int /\ j + Len(line) \in Int
  BY LenProperties
<1>2. \A i \in (j + 1)..(j + Len(line)) : seq[i] \in Messages
  BY <1>1, ElementOfSeq DEF Segment
<1>3. /\ part \in Seq(Messages)
      /\ Len(part) = IF j + 1 <= j + Len(line) THEN j + Len(line) - (j + 1) + 1 ELSE 0
      /\ \A i \in 1..(j + Len(line) - (j + 1) + 1) : part[i] = seq[j + 1 + i - 1]
  BY ONLY <1>1, <1>2, SubSeqProperties
<1>4. Len(part) = Len(line) /\ \A i \in 1..Len(line) : part[i] = seq[j + i]
  <2> HIDE DEF part
  <2>1. j + Len(line) - (j + 1) + 1 = Len(line)
    BY <1>1
  <2>2. ASSUME NEW i \in 1..Len(line) PROVE part[i] = seq[j + i]
    <3>1. i \in 1..(j + Len(line) - (j + 1) + 1) /\ j + 1 + i - 1 = j + i
      BY <1>1, <2>1
    <3>2. part[i] = seq[j + 1 + i - 1]
      BY <1>3, <3>1
    <3> QED BY <3>1, <3>2
  <2>3. Len(part) = Len(line)
    BY <1>1, <1>3, <2>1
  <2> QED BY <2>2, <2>3
<1>5. \A i \in 1..Len(line) : line[i] = part[i]
  BY <1>4 DEF Segment
<1> QED BY <1>3, <1>4, <1>5, SeqEqual

(* A segment stays one when the log grows, and grows with it.               *)
LEMMA SegmentGrows ==
  ASSUME NEW line \in Seq(Messages), NEW seq \in Seq(Messages), NEW j \in Nat,
         NEW m \in Messages, Segment(line, seq, j)
  PROVE  /\ Segment(line, Append(seq, m), j)
         /\ j + Len(line) = Len(seq) =>
              /\ Segment(Append(line, m), Append(seq, m), j)
              /\ j + Len(Append(line, m)) = Len(Append(seq, m))
<1>1. Len(line) \in Nat /\ Len(seq) \in Nat
  BY LenProperties
<1>2. /\ Len(Append(line, m)) = Len(line) + 1
      /\ \A i \in 1..Len(line) : Append(line, m)[i] = line[i]
      /\ Append(line, m)[Len(line) + 1] = m
  BY AppendProperties
<1>3. /\ Len(Append(seq, m)) = Len(seq) + 1
      /\ \A i \in 1..Len(seq) : Append(seq, m)[i] = seq[i]
      /\ Append(seq, m)[Len(seq) + 1] = m
  BY AppendProperties
<1>4. Segment(line, Append(seq, m), j)
  BY <1>1, <1>3 DEF Segment
<1>5. ASSUME j + Len(line) = Len(seq)
      PROVE  Segment(Append(line, m), Append(seq, m), j)
  <2>1. j + Len(Append(line, m)) <= Len(Append(seq, m))
    BY <1>1, <1>2, <1>3, <1>5
  <2>2. ASSUME NEW i \in 1..(Len(line) + 1)
        PROVE  Append(line, m)[i] = Append(seq, m)[j + i]
    <3>1. CASE i = Len(line) + 1
      BY <1>1, <1>2, <1>3, <1>5, <3>1
    <3>2. CASE i \in 1..Len(line)
      BY <1>1, <1>2, <1>3, <1>5, <3>2 DEF Segment
    <3>3. i = Len(line) + 1 \/ i \in 1..Len(line)
      BY <1>1
    <3> QED BY <3>1, <3>2, <3>3
  <2> QED BY <1>2, <2>1, <2>2 DEF Segment
<1> QED BY <1>1, <1>2, <1>3, <1>4, <1>5

(* A step that leaves the room, the log and every line alone.               *)
LEMMA SegmentSame ==
  ASSUME SegmentInv, UNCHANGED <<room, log, joined, serving>>,
         \A c \in Clients : Line(c)' = Line(c)
  PROVE  SegmentInv'
BY DEF SegmentInv, UpToDate, Segment

LEMMA SegmentInit == Init => SegmentInv
BY DEF Init, SegmentInv

LEMMA SegmentStep ==
  TypeOK /\ ClientInv /\ SegmentInv /\ [Next]_vars => SegmentInv'
<1> SUFFICES ASSUME TypeOK, ClientInv, SegmentInv, [Next]_vars PROVE SegmentInv'
  OBVIOUS
<1>1. ASSUME NEW c \in Clients, ServeWS(c) PROVE SegmentInv'
  <2>1. \A x \in Clients : Line(x)' = Line(x)
    BY <1>1 DEF ServeWS, Line, pumps
  <2>2. ASSUME NEW x \in Clients, serving'[x] = "registered" PROVE serving[x] = "registered"
    BY <1>1, <2>2 DEF TypeOK, ServeWS
  <2>3. UNCHANGED <<room, log, joined>>
    BY <1>1 DEF ServeWS
  <2> QED BY <2>1, <2>2, <2>3 DEF SegmentInv, UpToDate, Segment
<1>2. ASSUME NEW c \in Clients, Register(c) PROVE SegmentInv'
  <2>1. \A x \in Clients : Line(x)' = Line(x)
    BY <1>2 DEF Register, Line
  <2>2. ASSUME NEW x \in Clients, x # c, serving'[x] = "registered"
        PROVE  UpToDate(x)'
    <3>1. UNCHANGED log /\ joined'[x] = joined[x] /\ serving[x] = "registered"
          /\ (x \in room' => x \in room)
      BY <1>2, <2>2 DEF TypeOK, Register
    <3>2. UpToDate(x)
      BY <3>1 DEF SegmentInv
    <3>3. Line(x)' = Line(x)
      BY <2>1
    <3> QED BY <3>1, <3>2, <3>3 DEF UpToDate, Segment
  <2>3. Line(c) = <<>> /\ joined'[c] = Len(log) /\ log' = log
    <3>1. got[c] = <<>> /\ frame[c] = <<>> /\ Send[c] = <<>>
      BY <1>2 DEF ClientInv, ClientOrder, Untouched, Register
    <3>2. <<>> \o <<>> = <<>>
      BY EmptySeq, ConcatEmptySeq
    <3> QED BY <1>2, <3>1, <3>2 DEF TypeOK, Register, Line
  <2>4. UpToDate(c)'
    <3>1. Len(log) \in Nat /\ Len(Line(c)') = 0
      BY <2>1, <2>3, LineType, EmptySeq
    <3> QED BY <2>1, <2>3, <3>1 DEF UpToDate, Segment
  <2> QED BY <2>2, <2>4 DEF SegmentInv
<1>3. ASSUME NEW c \in Clients, Unregister(c) PROVE SegmentInv'
  <2>1. \A x \in Clients : Line(x)' = Line(x)
    BY <1>3 DEF Unregister, Line
  <2> QED BY <1>3, <2>1 DEF Unregister, SegmentInv, UpToDate, Segment
<1>4. ASSUME Broadcast PROVE SegmentInv'
  <2> DEFINE m == Head(broadcast)
  <2>1. m \in Messages
    BY <1>4, HeadTailProperties DEF TypeOK, Broadcast
  <2> HIDE DEF m
  <2>2. /\ log' = Append(log, m) /\ UNCHANGED <<joined, serving, got, frame>>
        /\ \A x \in Clients : x \in room' <=> x \in room /\ ~Slow(x)
    BY <1>4 DEF Broadcast, pumps, m, TypeOK
  <2>3. SUFFICES ASSUME NEW x \in Clients, serving[x] = "registered"
                 PROVE  UpToDate(x)'
    BY <2>2, <2>3 DEF SegmentInv
  <2>4. UpToDate(x) /\ Line(x) \in Seq(Messages) /\ joined[x] \in Nat
        /\ log \in Seq(Messages)
    BY <2>3, LineType DEF SegmentInv
  <2>5. CASE x \in room /\ ~Slow(x)
    <3>1. Send'[x] = Append(Send[x], m)
      BY <1>4, <2>5 DEF Broadcast, m
    <3>2. Line(x)' = Append(Line(x), m)
      <4>1. /\ got[x] \o frame[x] \in Seq(Messages) /\ Send[x] \in Seq(Messages)
            /\ <<m>> \in Seq(Messages)
        BY <2>1, ConcatProperties DEF TypeOK
      <4>2. Append(Send[x], m) = Send[x] \o <<m>> /\ Append(Line(x), m) = Line(x) \o <<m>>
        BY <2>1, <2>4, <4>1, AppendIsConcat
      <4>3. (got[x] \o frame[x]) \o (Send[x] \o <<m>>)
              = ((got[x] \o frame[x]) \o Send[x]) \o <<m>>
        <5> DEFINE a == got[x] \o frame[x]
                   b == Send[x]
                   e == <<m>>
        <5>1. a \in Seq(Messages) /\ b \in Seq(Messages) /\ e \in Seq(Messages)
          BY <4>1
        <5> HIDE DEF a, b, e
        <5>2. (a \o b) \o e = a \o (b \o e)
          BY <5>1, ConcatAssociative
        <5> QED BY <5>2 DEF a, b, e
      <4>4. Line(x)' = (got[x] \o frame[x]) \o Append(Send[x], m)
        BY <2>2, <3>1 DEF Line
      <4>5. Line(x) = (got[x] \o frame[x]) \o Send[x]
        BY DEF Line
      <4> QED BY <4>2, <4>3, <4>4, <4>5, Zenon
    <3>3. /\ Segment(Append(Line(x), m), Append(log, m), joined[x])
          /\ joined[x] + Len(Append(Line(x), m)) = Len(Append(log, m))
      BY <2>1, <2>4, <2>5, SegmentGrows DEF UpToDate
    <3>4. UpToDate(x)' <=>
            /\ Segment(Line(x)', log', joined'[x])
            /\ x \in room' => joined'[x] + Len(Line(x)') = Len(log')
      BY DEF UpToDate, Segment
    <3> QED BY <2>2, <3>2, <3>3, <3>4
  <2>6. CASE ~(x \in room /\ ~Slow(x))
    <3>1. Line(x)' = Line(x) /\ x \notin room'
      BY <1>4, <2>2, <2>6 DEF Broadcast, Line
    <3>2. Segment(Line(x), Append(log, m), joined[x])
      BY <2>1, <2>4, SegmentGrows DEF UpToDate
    <3> QED BY <2>2, <3>1, <3>2 DEF UpToDate, Segment
  <2> QED BY <2>5, <2>6
<1>5. ASSUME NEW c \in Clients, TakeFrame(c) PROVE SegmentInv'
  <2>1. ASSUME NEW x \in Clients PROVE Line(x)' = Line(x)
    <3>1. CASE x = c
      <4>1. frame[c] = <<>>
        BY <1>5 DEF TakeFrame, ClientInv, ClientOrder
      <4>2. got[c] \in Seq(Messages) /\ Send[c] \in Seq(Messages)
            /\ got[c] \o Send[c] \in Seq(Messages)
        BY ConcatProperties DEF TypeOK
      <4>3. /\ got[c] \o <<>> = got[c]
            /\ (got[c] \o Send[c]) \o <<>> = got[c] \o Send[c]
        BY <4>2, ConcatEmptySeq
      <4>4. got' = got /\ frame'[c] = Send[c] /\ Send'[c] = <<>>
        BY <1>5 DEF TypeOK, TakeFrame
      <4> QED BY <3>1, <4>1, <4>3, <4>4 DEF Line
    <3>2. CASE x # c
      BY <1>5, <3>2 DEF TypeOK, TakeFrame, Line
    <3> QED BY <3>1, <3>2
  <2> QED BY <1>5, <2>1, SegmentSame DEF TakeFrame
<1>6. ASSUME NEW c \in Clients, WriteFrame(c) PROVE SegmentInv'
  <2>1. ASSUME NEW x \in Clients PROVE Line(x)' = Line(x)
    <3>1. CASE x = c
      <4>1. got[c] \o frame[c] \in Seq(Messages)
        BY ConcatProperties DEF TypeOK
      <4>2. (got[c] \o frame[c]) \o <<>> = got[c] \o frame[c]
        BY <4>1, ConcatEmptySeq
      <4>3. got'[c] = got[c] \o frame[c] /\ frame'[c] = <<>> /\ Send' = Send
        BY <1>6 DEF TypeOK, WriteFrame
      <4> QED BY <3>1, <4>2, <4>3 DEF Line
    <3>2. CASE x # c
      BY <1>6, <3>2 DEF TypeOK, WriteFrame, Line
    <3> QED BY <3>1, <3>2
  <2> QED BY <1>6, <2>1, SegmentSame DEF WriteFrame
<1>7. ASSUME UNCHANGED <<room, log, joined, serving, got, frame, Send>>
      PROVE  SegmentInv'
  <2>1. \A x \in Clients : Line(x)' = Line(x)
    BY <1>7 DEF Line
  <2> QED BY <1>7, <2>1, SegmentSame
<1> QED
  BY <1>1, <1>2, <1>3, <1>4, <1>5, <1>6, <1>7
     DEF Next, Pump, Task, Handler, PeerLeaves, ReadPump, WritePumpEnds,
         AddActiveViewer, RemoveActiveViewer, CountViewers, BroadcastViewerCount,
         ExpirePresence, ReadResults, PublishPollUpdate, BroadcastLocal,
         listenRedisPubSub, vars, pumps, tasks, votes

LEMMA SegmentGivesNoGaps == TypeOK /\ SegmentInv => NoGaps
<1> SUFFICES ASSUME TypeOK, SegmentInv, NEW c \in Clients, serving[c] = "registered"
             PROVE  /\ joined[c] + Len(Line(c)) <= Len(log)
                    /\ Line(c) = SubSeq(log, joined[c] + 1, joined[c] + Len(Line(c)))
                    /\ c \in room => joined[c] + Len(Line(c)) = Len(log)
  BY DEF NoGaps, Line
<1>1. UpToDate(c) /\ Line(c) \in Seq(Messages) /\ joined[c] \in Nat
      /\ log \in Seq(Messages)
  BY LineType DEF SegmentInv
<1>2. Line(c) = SubSeq(log, joined[c] + 1, joined[c] + Len(Line(c)))
  BY <1>1, SegmentIsSubSeq DEF UpToDate
<1> QED BY <1>1, <1>2 DEF UpToDate, Segment

(* Every client gets what went to the room since it was registered, in      *)
(* order and without a gap, up to its eviction or disconnection.            *)
THEOREM DeliveryHasNoGaps == Spec => []NoGaps
<1>1. Init => SegmentInv
  BY SegmentInit
<1>2. TypeOK /\ ClientInv /\ SegmentInv /\ [Next]_vars => SegmentInv'
  BY SegmentStep
<1>3. TypeOK /\ SegmentInv => NoGaps
  BY SegmentGivesNoGaps
<1> QED BY <1>1, <1>2, <1>3, ClientInvariant, PTL DEF Spec
-----------------------------------------------------------------------------
(* Where the results end. Votes are handled one after the other, so what    *)
(* Redis still has to relay ends with the newest published result, and once *)
(* it is empty what goes to the room does.                                  *)

Hist == log \o broadcast

LastIs(seq, n) ==
  \E i \in 1..Len(seq) : /\ seq[i] = Results(n)
                         /\ \A j \in 1..Len(seq) : j > i => seq[j].type # "results"

RelayInv ==
  MaxInFlight = 1 /\ "redis" \notin Events =>
    /\ \A v, w \in Versions : v < w /\ handler[w] # "none" => handler[v] = "done"
    /\ \A v \in Versions : handler[v] \in {"published", "done"} =>
         IF redisCh = <<>> THEN \E n \in Versions : v <= n /\ LastIs(Hist, n)
         ELSE v <= redisCh[Len(redisCh)]

LEMMA HistType ==
  ASSUME TypeOK
  PROVE  Hist \in Seq(Messages) /\ log \in Seq(Messages) /\ broadcast \in Seq(Messages)
BY ConcatProperties DEF TypeOK, Hist

(* Messages of the room end what it has been sent; those of viewers do not  *)
(* change which results are the last.                                       *)
LEMMA LastIsAppended ==
  ASSUME NEW seq \in Seq(Messages), NEW v \in Versions
  PROVE  LastIs(Append(seq, Results(v)), v)
<1>1. Results(v) \in Messages /\ Len(seq) \in Nat
  BY MessageTypes, LenProperties
<1>2. /\ Len(Append(seq, Results(v))) = Len(seq) + 1
      /\ Append(seq, Results(v))[Len(seq) + 1] = Results(v)
  BY <1>1, AppendProperties
<1> QED BY <1>1, <1>2 DEF LastIs

LEMMA LastIsKept ==
  ASSUME NEW seq \in Seq(Messages), NEW n, NEW k \in Nat, LastIs(seq, n)
  PROVE  LastIs(Append(seq, Viewers(k)), n)
<1> DEFINE s == Append(seq, Viewers(k))
<1>1. Viewers(k) \in Messages /\ Len(seq) \in Nat
  BY MessageTypes, LenProperties
<1>2. /\ Len(s) = Len(seq) + 1 /\ s[Len(seq) + 1] = Viewers(k)
      /\ \A i \in 1..Len(seq) : s[i] = seq[i]
  BY <1>1, AppendProperties
<1>3. PICK i \in 1..Len(seq) : /\ seq[i] = Results(n)
                               /\ \A j \in 1..Len(seq) : j > i => seq[j].type # "results"
  BY DEF LastIs
<1> HIDE DEF s
<1>4. i \in 1..Len(s) /\ s[i] = Results(n)
  BY <1>1, <1>2, <1>3
<1>5. ASSUME NEW j \in 1..Len(s), j > i PROVE s[j].type # "results"
  <2>1. CASE j = Len(seq) + 1
    BY <1>2, <2>1 DEF Viewers
  <2>2. CASE j \in 1..Len(seq)
    BY <1>2, <1>3, <1>5, <2>2
  <2> QED BY <1>1, <1>2, <2>1, <2>2
<1> QED BY <1>4, <1>5 DEF LastIs, s

LEMMA HistOffer ==
  ASSUME TypeOK, NEW m \in Messages, Offer(m), log' = log
  PROVE  Hist' = Append(Hist, m)
<1>1. broadcast' = Append(broadcast, m)
  BY DEF Offer
<1>2. /\ <<m>> \in Seq(Messages) /\ Append(broadcast, m) = broadcast \o <<m>>
      /\ Append(Hist, m) = Hist \o <<m>>
  BY HistType, AppendIsConcat
<1>3. log \o (broadcast \o <<m>>) = (log \o broadcast) \o <<m>>
  <2> DEFINE e == <<m>>
  <2>1. log \in Seq(Messages) /\ broadcast \in Seq(Messages) /\ e \in Seq(Messages)
    BY <1>2, HistType
  <2> HIDE DEF e
  <2>2. (log \o broadcast) \o e = log \o (broadcast \o e)
    BY <2>1, ConcatAssociative
  <2> QED BY <2>2 DEF e
<1> QED BY <1>1, <1>2, <1>3 DEF Hist

LEMMA HistBroadcast ==
  ASSUME TypeOK, Broadcast
  PROVE  Hist' = Hist
<1> DEFINE m == Head(broadcast)
           t == Tail(broadcast)
<1>1. /\ m \in Messages /\ t \in Seq(Messages) /\ broadcast = <<m>> \o t
      /\ broadcast' = t /\ log' = Append(log, m)
  BY HistType, HeadTailProperties DEF Broadcast
<1> HIDE DEF m, t
<1>2. <<m>> \in Seq(Messages) /\ Append(log, m) = log \o <<m>>
  BY <1>1, HistType, AppendIsConcat
<1> DEFINE e == <<m>>
<1>3. log \in Seq(Messages) /\ e \in Seq(Messages) /\ t \in Seq(Messages)
  BY <1>1, <1>2, HistType
<1> HIDE DEF e
<1>4. (log \o e) \o t = log \o (e \o t)
  BY <1>3, ConcatAssociative
<1> QED BY <1>1, <1>2, <1>4 DEF Hist, e

(* One handler at a time.                                                   *)
LEMMA OneAtATime ==
  ASSUME MaxInFlight = 1, Cardinality(InFlight) < MaxInFlight
  PROVE  InFlight = {}
<1>1. IsFiniteSet(Versions)
  BY HubAssumption, FS_Interval DEF Versions
<1>2. IsFiniteSet(InFlight)
  BY <1>1, FS_Subset DEF InFlight
<1>3. Cardinality(InFlight) = 0
  BY <1>2, FS_CardinalityType
<1> QED BY <1>2, <1>3, FS_EmptySet

LEMMA RelayInit == Init => RelayInv
BY DEF Init, RelayInv

(* Something else is offered to the hub, or nothing.                        *)
LEMMA RelayKept ==
  ASSUME RelayInv, UNCHANGED votes,
         \A n \in Versions : LastIs(Hist, n) => LastIs(Hist', n)
  PROVE  RelayInv'
<1>1. \A n \in Versions : LastIs(Hist, n) => LastIs(Hist, n)'
  BY DEF LastIs
<1> QED BY <1>1 DEF RelayInv, votes

LEMMA RelayStep == TypeOK /\ RelayInv /\ [Next]_vars => RelayInv'
<1> SUFFICES ASSUME TypeOK, RelayInv, [Next]_vars, MaxInFlight = 1, "redis" \notin Events
             PROVE  RelayInv'
  BY DEF RelayInv
<1>0. /\ handler \in [Versions -> {"none", "read", "published", "done"}]
      /\ redisCh \in Seq(Versions) /\ \A v \in Versions : v \in Nat
      /\ \A v, w \in Versions : v < w /\ handler[w] # "none" => handler[v] = "done"
  BY HubAssumption DEF TypeOK, RelayInv, Versions
<1>1. ASSUME NEW v \in Versions, ReadResults(v) PROVE RelayInv'
  <2>1. /\ handler[v] = "none" /\ handler' = [handler EXCEPT ![v] = "read"]
        /\ \A w \in 1..(v - 1) : handler[w] # "none"
        /\ InFlight = {} /\ UNCHANGED <<redisCh, log, broadcast>>
    BY <1>1, OneAtATime DEF ReadResults
  <2>2. ASSUME NEW a \in Versions, NEW b \in Versions, a < b, handler'[b] # "none"
        PROVE  handler'[a] = "done"
    <3>1. CASE b = v
      <4>1. a \in 1..(v - 1)
        BY <1>0, <2>2, <3>1 DEF Versions
      <4>2. handler[a] \notin {"read", "published"}
        BY <2>1 DEF InFlight
      <4> QED BY <1>0, <2>1, <2>2, <3>1, <4>1, <4>2
    <3>2. CASE b # v
      BY <1>0, <2>1, <2>2, <3>2
    <3> QED BY <3>1, <3>2
  <2>3. \A w \in Versions : handler'[w] \in {"published", "done"} => handler'[w] = handler[w]
    BY <1>0, <2>1
  <2>4. Hist' = Hist
    BY <2>1 DEF Hist
  <2>5. \A n \in Versions : LastIs(Hist, n)' = LastIs(Hist, n)
    BY <2>4 DEF LastIs
  <2> QED BY <2>1, <2>2, <2>3, <2>5 DEF RelayInv
<1>2. ASSUME NEW v \in Versions, PublishPollUpdate(v) PROVE RelayInv'
  <2>1. /\ handler[v] = "read" /\ handler' = [handler EXCEPT ![v] = "published"]
        /\ redisCh' = Append(redisCh, v)
    BY <1>2 DEF PublishPollUpdate
  <2>2. redisCh' # <<>> /\ redisCh'[Len(redisCh')] = v
    <3>1. /\ Len(redisCh') = Len(redisCh) + 1 /\ redisCh'[Len(redisCh) + 1] = v
          /\ Len(redisCh) \in Nat
      BY <1>0, <2>1, AppendProperties, LenProperties
    <3>2. redisCh' # <<>>
      BY <1>0, <2>1, AppendProperties
    <3> QED BY <3>1, <3>2
  <2>3. \A w \in Versions : handler'[w] \in {"published", "done"} => w <= v
    BY <1>0, <2>1
  <2>4. \A a, b \in Versions : a < b /\ handler'[b] # "none" => handler'[a] = "done"
    BY <1>0, <2>1
  <2> QED BY <2>2, <2>3, <2>4 DEF RelayInv
<1>3. ASSUME NEW v \in Versions, BroadcastLocal(v) PROVE RelayInv'
  <2>1. /\ handler[v] = "published" /\ handler' = [handler EXCEPT ![v] = "done"]
        /\ Offer(Results(v)) /\ UNCHANGED <<log, redisCh>>
    BY <1>3 DEF BroadcastLocal
  <2>2. Hist' = Append(Hist, Results(v))
    BY <2>1, MessageTypes, HistOffer
  <2>3. LastIs(Hist, v)'
    <3>1. LastIs(Append(Hist, Results(v)), v)
      BY HistType, LastIsAppended
    <3> QED BY <2>2, <3>1 DEF LastIs
  <2>4. \A w \in Versions : handler'[w] \in {"published", "done"} =>
          w <= v /\ handler[w] \in {"published", "done"}
    BY <1>0, <2>1
  <2>5. \A a, b \in Versions : a < b /\ handler'[b] # "none" => handler'[a] = "done"
    BY <1>0, <2>1
  <2>6. redisCh # <<>> =>
          \A w \in Versions : handler'[w] \in {"published", "done"} => w <= redisCh[Len(redisCh)]
    BY <2>4 DEF RelayInv
  <2> QED BY <2>1, <2>3, <2>4, <2>5, <2>6 DEF RelayInv
<1>4. ASSUME listenRedisPubSub PROVE RelayInv'
  <2> DEFINE t == Tail(redisCh)
  <2>0. PICK h \in Versions : h = Head(redisCh)
    BY <1>0, <1>4, HeadTailProperties DEF listenRedisPubSub
  <2>1. /\ redisCh # <<>> /\ redisCh' = t /\ Offer(Results(h))
        /\ UNCHANGED <<log, handler>>
        /\ t \in Seq(Versions) /\ Len(t) = Len(redisCh) - 1
        /\ Len(redisCh) \in Nat /\ Len(t) \in Nat /\ h = redisCh[1]
        /\ \A i \in 1..Len(t) : t[i] = redisCh[i + 1]
    BY <1>0, <1>4, <2>0, HeadTailProperties, LenProperties DEF listenRedisPubSub
  <2> HIDE DEF t
  <2>2. Hist' = Append(Hist, Results(h))
    BY <2>1, MessageTypes, HistOffer
  <2>3. CASE t = <<>>
    <3>1. Len(t) = 0
      BY <2>3, EmptySeq, Zenon
    <3>2. Len(redisCh) = 1
      BY <2>1, <3>1
    <3>3. \A w \in Versions : handler[w] \in {"published", "done"} => w <= h
      BY <2>1, <3>2 DEF RelayInv
    <3>4. LastIs(Append(Hist, Results(h)), h)
      BY <2>1, HistType, LastIsAppended
    <3>5. LastIs(Hist, h)'
      BY <2>2, <3>4 DEF LastIs
    <3> QED BY <1>0, <2>1, <2>3, <3>3, <3>5 DEF RelayInv
  <2>4. CASE t # <<>>
    <3>1. Len(t) # 0
      BY <2>1, <2>4, EmptySeq
    <3>2. t[Len(t)] = redisCh[Len(redisCh)]
      BY <2>1, <3>1
    <3> QED BY <1>0, <2>1, <2>4, <3>2 DEF RelayInv
  <2> QED BY <2>3, <2>4
<1>5. ASSUME NEW c \in Clients, BroadcastViewerCount(c) PROVE RelayInv'
  <2>1. PICK k \in Nat : Offer(Viewers(k)) /\ log' = log /\ UNCHANGED votes
    <3>1. count[c].join \in Nat /\ count[c].leave \in Nat
      BY DEF TypeOK
    <3> QED BY <1>5, <3>1 DEF BroadcastViewerCount
  <2>2. Hist' = Append(Hist, Viewers(k))
    BY <2>1, MessageTypes, HistOffer
  <2>3. \A n \in Versions : LastIs(Hist, n) => LastIs(Hist', n)
    BY <2>2, HistType, LastIsKept
  <2> QED BY <2>1, <2>3, RelayKept
<1>6. CASE Broadcast
  <2>1. Hist' = Hist /\ UNCHANGED votes
    BY <1>6, HistBroadcast DEF Broadcast
  <2> QED BY <2>1, RelayKept
<1>7. CASE UNCHANGED <<log, broadcast, votes>>
  <2>1. Hist' = Hist
    BY <1>7 DEF Hist
  <2> QED BY <1>7, <2>1, RelayKept
<1> QED
  BY <1>1, <1>2, <1>3, <1>4, <1>5, <1>6, <1>7
     DEF Next, Pump, Task, Handler, ServeWS, Register, Unregister, PeerLeaves, ReadPump,
         TakeFrame, WriteFrame, WritePumpEnds, AddActiveViewer, RemoveActiveViewer,
         CountViewers, ExpirePresence, vars

(* The last results of a line.                                              *)
LEMMA LastResultsOf ==
  ASSUME NEW line, NEW i \in 1..Len(line), Len(line) \in Nat, line[i].type = "results",
         \A j \in 1..Len(line) : j > i => line[j].type # "results"
  PROVE  LastResults(line) = line[i].n
<1> DEFINE I == {j \in 1..Len(line) : line[j].type = "results"}
<1>1. i \in I /\ \A j \in I : i >= j
  OBVIOUS
<1>2. \A k \in I : (\A j \in I : k >= j) => k = i
  BY <1>1
<1>3. Max(I) = i
  BY <1>1, <1>2 DEF Max
<1>4. SelectLastInSeq(line, LAMBDA m : m.type = "results") = i
  BY <1>1, <1>3 DEF SelectLastInSeq
<1> QED BY <1>4 DEF LastResults

LEMMA SomeResults ==
  ASSUME NEW line, LastResults(line) # 0
  PROVE  \E i \in 1..Len(line) : line[i].type = "results"
BY DEF LastResults, SelectLastInSeq

(* For any number of clients, any capacities and any number of results:     *)
(* when votes are handled one after the other and Redis answers, each       *)
(* viewer who has seen results ends with the newest.                        *)
THEOREM ViewersAreCurrent == Spec => []ViewersEndCurrent
<1>1. ASSUME TypeOK, ClientInv, SegmentInv, RelayInv PROVE ViewersEndCurrent
  <2> SUFFICES ASSUME MaxInFlight = 1, "redis" \notin Events, Quiet, NEW c \in room,
                      LastResults(got[c]) # 0, NEW v \in Versions, handler[v] = "done"
               PROVE  v <= LastResults(got[c])
    BY DEF ViewersEndCurrent
  <2>1. c \in Clients /\ redisCh = <<>> /\ broadcast = <<>> /\ Send[c] = <<>> /\ frame[c] = <<>>
    BY <1>1 DEF Quiet, TypeOK
  <2>2. serving[c] = "registered" /\ UpToDate(c)
    BY <1>1, <2>1 DEF ClientInv, ClientOrder, Untouched, SegmentInv
  <2>3. Line(c) = got[c] /\ Hist = log
    <3>1. got[c] \in Seq(Messages) /\ log \in Seq(Messages)
      BY <1>1, <2>1 DEF TypeOK
    <3>2. got[c] \o <<>> = got[c] /\ log \o <<>> = log
      BY <3>1, ConcatEmptySeq
    <3> QED BY <2>1, <3>2 DEF Line, Hist
  <2>4. PICK n \in Versions : v <= n /\ LastIs(log, n)
    BY <1>1, <2>1, <2>3 DEF RelayInv
  <2>5. PICK i \in 1..Len(log) : /\ log[i] = Results(n)
                                 /\ \A j \in 1..Len(log) : j > i => log[j].type # "results"
    BY <2>4 DEF LastIs
  <2>6. PICK k \in 1..Len(got[c]) : got[c][k].type = "results"
    BY SomeResults
  <2>7. /\ joined[c] \in Nat /\ Len(got[c]) \in Nat /\ Len(log) \in Nat
        /\ joined[c] + Len(got[c]) = Len(log)
        /\ \A j \in 1..Len(got[c]) : got[c][j] = log[joined[c] + j]
    BY <1>1, <2>1, <2>2, <2>3, LineType DEF UpToDate, Segment
  <2>8. joined[c] + k <= i
    <3>1. joined[c] + k \in 1..Len(log) /\ log[joined[c] + k].type = "results"
      BY <2>6, <2>7
    <3> QED BY <2>5, <2>7, <3>1
  <2> DEFINE x == i - joined[c]
  <2>9. x \in 1..Len(got[c]) /\ joined[c] + x = i
    BY <2>5, <2>6, <2>7, <2>8
  <2>10. got[c][x] = Results(n)
    BY <2>5, <2>7, <2>9
  <2>11. ASSUME NEW j \in 1..Len(got[c]), j > x PROVE got[c][j].type # "results"
    <3> DEFINE g == Len(got[c])
               n0 == Len(log)
               a == joined[c]
    <3>0. a \in Nat /\ g \in Nat /\ n0 \in Nat /\ a + g = n0 /\ j \in 1..g
          /\ x \in 1..g /\ a + x = i /\ j > x
      BY <2>7, <2>9, <2>11
    <3>1. joined[c] + j \in 1..Len(log) /\ joined[c] + j > i
      <4> HIDE DEF g, n0, a, x
      <4>1. a + j \in 1..n0 /\ a + j > i
        BY <3>0
      <4> QED BY <4>1 DEF a, n0
    <3>2. got[c][j] = log[joined[c] + j]
      BY <2>7
    <3>3. log[joined[c] + j].type # "results"
      BY <2>5, <3>1
    <3> QED BY <3>2, <3>3
  <2>12. LastResults(got[c]) = n
    <3> HIDE DEF x
    <3>1. got[c][x].type = "results" /\ got[c][x].n = n
      BY <2>10 DEF Results
    <3> QED BY <2>7, <2>9, <2>11, <3>1, LastResultsOf
  <2> QED BY <2>4, <2>12
<1>2. Spec => []SegmentInv
  BY SegmentInit, SegmentStep, ClientInvariant, PTL DEF Spec
<1>3. Spec => []RelayInv
  BY RelayInit, RelayStep, ClientInvariant, PTL DEF Spec
<1> QED BY <1>1, <1>2, <1>3, ClientInvariant, PTL
=============================================================================
