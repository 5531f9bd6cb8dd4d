--------------------------- MODULE LivePageProofs ---------------------------
(* Proofs about LivePage, for any polls, sockets and bounds.                *)
EXTENDS LivePage, SequenceTheorems, TLAPS

(* A PollSocket that is not closed is open, connects, waits for its timer,  *)
(* or has spent its attempts; one that is closed at most ends a connection. *)
Shape == [poll : Polls \cup {None}, closed : BOOLEAN, timer : BOOLEAN,
          ws : {"connecting", "open", "closing", "closed"},
          attempts : 0..MaxAttempts, failures : 0..(MaxAttempts + 1),
          seat : {"none", "joined", "evicted"}, inbox : Seq(Results)]

Alive(r) ==
  /\ r.poll \in Polls
  /\ \/ r.ws = "open" /\ r.timer = FALSE /\ r.attempts = 0 /\ r.failures = 0
     \/ r.ws = "connecting" /\ r.timer = FALSE /\ r.attempts = r.failures
     \/ r.ws = "closed" /\ r.timer = TRUE /\ r.attempts = r.failures
     \/ r.ws = "closed" /\ r.timer = FALSE /\ r.attempts = MaxAttempts
        /\ r.failures = MaxAttempts + 1

SocketOK(r) ==
  /\ r \in Shape
  /\ r.inbox \in Seq(Of(r.poll)) /\ Len(r.inbox) <= MaxInbox
  /\ r.closed = TRUE  => r.timer = FALSE /\ r.ws \in {"closing", "closed"}
  /\ r.closed = FALSE => Alive(r)

CallOK(c) ==
  /\ c \in [url : Polls \cup {None}, stage : {"idle", "sent", "answered"},
            results : Results \cup {None}]
  /\ c.stage # "idle" => c.url \in Polls
  /\ c.results # None => c.results \in Of(c.url)

Tab ==
  /\ page \in [url : Polls \cup {None}, poll : Polls \cup {None}, loading : BOOLEAN, error : BOOLEAN]
  /\ results \in Results \cup {None} /\ given \in Results \cup {None}
  /\ switched \in BOOLEAN /\ heard \in BOOLEAN
  /\ DOMAIN calls = Calls /\ calls = [c \in Calls |-> calls[c]]
  /\ \A c \in Calls : CallOK(calls[c])

(* Only the current PollSocket of the mounted page is not closed.           *)
Live ==
  /\ sockets = [s \in Sockets |-> sockets[s]]
  /\ \A s \in Sockets : SocketOK(sockets[s])
  /\ ref \in Sockets \cup {None}
  /\ \A s \in Sockets : sockets[s].closed = TRUE <=> s # ref

(* Once it has delivered, the results are of its poll as long as the page's *)
(* poll is.                                                                 *)
Heard ==
  heard = TRUE => /\ ref \in Sockets
                  /\ sockets[ref].poll = page.poll => results # None /\ results.poll = page.poll

LiveInv == Tab /\ Live /\ Heard

-----------------------------------------------------------------------------
(* PollSocket's own operations.                                             *)

LEMMA NoSocketOK == SocketOK(NoSocket) /\ NoSocket.closed = TRUE
<1>1. 0 \in 0..MaxAttempts /\ 0 \in 0..(MaxAttempts + 1)
      /\ <<>> \in Seq(Results) /\ <<>> \in Seq(Of(None)) /\ Len(<<>>) <= MaxInbox
  BY LiveAssumption
<1> QED BY <1>1 DEF SocketOK, NoSocket, Shape

LEMMA FailedOK ==
  ASSUME NEW r \in Shape, r.inbox \in Seq(Of(r.poll)), Len(r.inbox) <= MaxInbox, r.closed = FALSE, r.timer = FALSE,
         r.ws = "closed", r.poll \in Polls, r.attempts = r.failures
  PROVE  SocketOK(Failed(r)) /\ Failed(r).poll = r.poll /\ Failed(r).closed = FALSE
<1> DEFINE q == [r EXCEPT !.failures = @ + 1]
<1>0. MaxAttempts \in Nat
  BY LiveAssumption
<1>1. q \in Shape /\ q.attempts = r.attempts /\ q.failures = r.attempts + 1 /\ q.ws = "closed"
      /\ q.timer = FALSE /\ q.closed = FALSE /\ q.poll = r.poll /\ q.inbox = r.inbox
  BY <1>0 DEF Shape
<1> HIDE DEF q
<1>2. CASE q.attempts >= MaxAttempts
  <2>1. Failed(r) = q
    BY <1>2 DEF Failed, scheduleReconnect, q
  <2>2. q.attempts = MaxAttempts
    BY <1>0, <1>1, <1>2 DEF Shape
  <2> QED BY <1>0, <1>1, <2>1, <2>2 DEF SocketOK, Alive
<1>3. CASE ~(q.attempts >= MaxAttempts)
  <2> DEFINE t == [q EXCEPT !.attempts = @ + 1, !.timer = TRUE]
  <2>1. Failed(r) = t
    BY <1>3 DEF Failed, scheduleReconnect, q
  <2>2. q.attempts + 1 \in 0..MaxAttempts
    BY <1>0, <1>1, <1>3 DEF Shape
  <2>3. t \in Shape
    BY <1>1, <2>2 DEF Shape
  <2>4. t.attempts = r.attempts + 1 /\ t.failures = r.attempts + 1
        /\ t.timer = TRUE /\ t.ws = "closed" /\ t.closed = FALSE /\ t.poll = r.poll
        /\ t.inbox = r.inbox
    BY <1>1 DEF Shape
  <2> HIDE DEF t
  <2> QED BY <2>1, <2>3, <2>4 DEF SocketOK, Alive
<1> QED BY <1>2, <1>3

(* Connecting, with nothing under way.                                      *)
LEMMA ConnectOK ==
  ASSUME NEW r \in Shape, r.inbox \in Seq(Of(r.poll)), Len(r.inbox) <= MaxInbox, r.closed = FALSE, r.timer = FALSE,
         r.ws = "closed", r.poll \in Polls, r.attempts = r.failures, NEW q \in connect(r)
  PROVE  SocketOK(q) /\ q.poll = r.poll /\ q.closed = FALSE
<1> DEFINE t == [r EXCEPT !.ws = "connecting"]
<1>1. q = t \/ q = Failed(r)
  BY DEF connect
<1>2. t \in Shape /\ t.ws = "connecting" /\ t.timer = FALSE /\ t.attempts = t.failures
      /\ t.closed = FALSE /\ t.poll = r.poll /\ t.inbox = r.inbox
  BY DEF Shape
<1> HIDE DEF t
<1>3. SocketOK(t)
  BY <1>2 DEF SocketOK, Alive
<1> QED BY <1>1, <1>2, <1>3, FailedOK

LEMMA NewSocketOK ==
  ASSUME NEW p \in Polls, NEW q \in NewSocket(p)
  PROVE  SocketOK(q) /\ q.poll = p /\ q.closed = FALSE
<1> DEFINE r == [NoSocket EXCEPT !.poll = p, !.closed = FALSE]
<1>1. 0 \in 0..MaxAttempts /\ 0 \in 0..(MaxAttempts + 1)
      /\ <<>> \in Seq(Results) /\ <<>> \in Seq(Of(p)) /\ Len(<<>>) <= MaxInbox
  BY LiveAssumption
<1>2. r \in Shape
  BY <1>1 DEF NoSocket, Shape
<1>3. q \in connect(r)
  BY DEF NewSocket
<1>4. r.inbox = <<>> /\ r.closed = FALSE /\ r.timer = FALSE /\ r.ws = "closed"
      /\ r.poll = p /\ r.attempts = r.failures
  BY DEF NoSocket
<1> HIDE DEF r
<1> QED BY <1>1, <1>2, <1>3, <1>4, ConnectOK

LEMMA DisconnectOK ==
  ASSUME NEW r
  PROVE  SocketOK(disconnect(r)) /\ disconnect(r).closed = TRUE
<1> DEFINE t == [NoSocket EXCEPT !.ws = "closing"]
<1>1. 0 \in 0..MaxAttempts /\ 0 \in 0..(MaxAttempts + 1)
      /\ <<>> \in Seq(Results) /\ <<>> \in Seq(Of(None)) /\ Len(<<>>) <= MaxInbox
  BY LiveAssumption
<1>2. SocketOK(t) /\ t.closed = TRUE
  <2>1. t \in Shape
    BY <1>1 DEF NoSocket, Shape
  <2>2. t.closed = TRUE /\ t.ws = "closing" /\ t.timer = FALSE /\ t.poll = None /\ t.inbox = <<>>
    BY DEF NoSocket
  <2> QED BY <1>1, <2>1, <2>2 DEF SocketOK
<1> HIDE DEF t
<1>3. disconnect(r) = t \/ disconnect(r) = NoSocket
  BY DEF disconnect, t
<1> QED BY <1>2, <1>3, NoSocketOK

-----------------------------------------------------------------------------
LEMMA LiveInit == Init => LiveInv
<1> SUFFICES ASSUME Init PROVE LiveInv
  OBVIOUS
<1>1. Tab
  BY DEF Init, Tab, Away, CallOK, NoCall
<1>2. Live
  BY NoSocketOK, LiveAssumption DEF Init, Live
<1> QED BY <1>1, <1>2 DEF LiveInv, Heard, Init

(* A step of the current PollSocket, which stays that of its poll.          *)
LEMMA SocketKeeps ==
  ASSUME Live, Heard, NEW s \in Sockets, NEW r,
         sockets' = [sockets EXCEPT ![s] = r], SocketOK(r), UNCHANGED <<page, ref>>,
         r.closed = sockets[s].closed, s = ref => r.poll = sockets[s].poll,
         heard' = heard, results' = results
  PROVE  Live' /\ Heard'
<1>1. Live'
  BY DEF Live
<1>2. Heard'
  BY DEF Live, Heard
<1> QED BY <1>1, <1>2

LEMMA OpenKeeps == ASSUME LiveInv, NEW s \in Sockets, OnOpen(s) PROVE LiveInv'
<1> DEFINE r == [sockets[s] EXCEPT !.ws = "open", !.failures = 0, !.attempts = 0]
<1>0. MaxAttempts \in Nat
  BY LiveAssumption
<1>1. sockets' = [sockets EXCEPT ![s] = r] /\ sockets[s].ws = "connecting"
      /\ UNCHANGED <<tab, hook, given>>
  BY DEF OnOpen, LiveInv, Live, SocketOK, Shape
<1>2. SocketOK(sockets[s]) /\ sockets[s].closed = FALSE /\ Alive(sockets[s])
  BY <1>1 DEF LiveInv, Live, SocketOK, Shape
<1>3. r \in Shape
  <2>1. 0 \in 0..MaxAttempts /\ 0 \in 0..(MaxAttempts + 1) /\ sockets[s] \in Shape
    BY <1>0, <1>2 DEF SocketOK
  <2> QED BY <2>1 DEF Shape
<1>4. r.ws = "open" /\ r.failures = 0 /\ r.attempts = 0 /\ r.timer = FALSE
      /\ r.closed = FALSE /\ r.poll = sockets[s].poll /\ r.inbox = sockets[s].inbox
  BY <1>1, <1>2 DEF SocketOK, Alive, Shape
<1> HIDE DEF r
<1>5. SocketOK(r)
  BY <1>2, <1>3, <1>4 DEF SocketOK, Alive
<1>6. Live' /\ Heard'
  BY <1>1, <1>2, <1>4, <1>5, SocketKeeps DEF LiveInv, tab, hook
<1>7. Tab'
  BY <1>1 DEF LiveInv, Tab, CallOK, tab, hook
<1> QED BY <1>6, <1>7 DEF LiveInv

LEMMA TimerKeeps == ASSUME LiveInv, NEW s \in Sockets, TimerFires(s) PROVE LiveInv'
<1> DEFINE q == [sockets[s] EXCEPT !.timer = FALSE]
<1>1. SocketOK(sockets[s]) /\ sockets[s].closed = FALSE /\ Alive(sockets[s])
      /\ sockets[s].timer = TRUE /\ sockets[s].ws = "closed"
  BY DEF TimerFires, LiveInv, Live, SocketOK, Alive, Shape
<1>2. q \in Shape
  BY <1>1 DEF SocketOK, Shape
<1>3. q.inbox = sockets[s].inbox /\ q.closed = FALSE /\ q.timer = FALSE /\ q.ws = "closed"
      /\ q.poll = sockets[s].poll /\ q.attempts = sockets[s].attempts
      /\ q.failures = sockets[s].failures
  BY <1>1 DEF SocketOK, Shape
<1>4. PICK r \in connect(q) : sockets' = [sockets EXCEPT ![s] = r]
  BY DEF TimerFires
<1> HIDE DEF q
<1>5. SocketOK(r) /\ r.poll = sockets[s].poll /\ r.closed = FALSE
  BY <1>1, <1>2, <1>3, <1>4, ConnectOK DEF SocketOK, Alive
<1>6. UNCHANGED <<tab, hook, given>>
  BY DEF TimerFires
<1>7. Live' /\ Heard'
  BY <1>1, <1>4, <1>5, <1>6, SocketKeeps DEF LiveInv, tab, hook
<1>8. Tab'
  BY <1>6 DEF LiveInv, Tab, CallOK, tab, hook
<1> QED BY <1>7, <1>8 DEF LiveInv

LEMMA CloseKeeps == ASSUME LiveInv, NEW s \in Sockets, OnClose(s) PROVE LiveInv'
<1> DEFINE q == [sockets[s] EXCEPT !.ws = "closed", !.seat = "none", !.inbox = <<>>]
           r == IF q.closed THEN NoSocket ELSE Failed(q)
<1>1. /\ sockets' = [sockets EXCEPT ![s] = r]
      /\ sockets[s].ws \in {"connecting", "open", "closing"}
      /\ given' = (IF sockets[s].inbox = <<>> THEN given ELSE None)
      /\ UNCHANGED <<tab, hook>>
  BY DEF OnClose
<1>2. SocketOK(sockets[s])
  BY DEF LiveInv, Live
<1>3. q \in Shape
  <2>1. <<>> \in Seq(Results)
    OBVIOUS
  <2> QED BY <1>2, <2>1 DEF SocketOK, Shape
<1>4. q.ws = "closed" /\ q.closed = sockets[s].closed /\ q.poll = sockets[s].poll
      /\ q.timer = sockets[s].timer /\ q.inbox = <<>>
      /\ q.attempts = sockets[s].attempts /\ q.failures = sockets[s].failures
  BY <1>2 DEF SocketOK, Shape
<1>5. q.closed \in BOOLEAN
  BY <1>3 DEF Shape
<1>6. Tab'
  BY <1>1 DEF LiveInv, Tab, CallOK, tab, hook
<1> HIDE DEF q
<1>7. CASE q.closed = TRUE
  <2>1. r = NoSocket /\ s # ref
    BY <1>4, <1>7 DEF LiveInv, Live
  <2> QED BY <1>1, <1>4, <1>6, <1>7, <2>1, NoSocketOK, SocketKeeps DEF LiveInv, tab, hook
<1>8. CASE q.closed = FALSE
  <2>1. r = Failed(q) /\ Alive(sockets[s])
    BY <1>2, <1>4, <1>8 DEF SocketOK
  <2>2. q.timer = FALSE /\ q.attempts = q.failures /\ q.poll \in Polls
    BY <1>1, <1>4, <2>1 DEF Alive
  <2>3. q.inbox \in Seq(Of(q.poll)) /\ Len(q.inbox) <= MaxInbox
    BY <1>4, LiveAssumption
  <2>4. SocketOK(r) /\ r.poll = sockets[s].poll /\ r.closed = sockets[s].closed
    BY <1>3, <1>4, <1>8, <2>1, <2>2, <2>3, FailedOK
  <2> HIDE DEF r
  <2>5. Live' /\ Heard'
    BY <1>1, <2>4, SocketKeeps DEF LiveInv, tab, hook
  <2> QED BY <1>6, <2>5 DEF LiveInv
<1> QED BY <1>5, <1>7, <1>8

LEMMA MessageKeeps == ASSUME LiveInv, NEW s \in Sockets, OnMessage(s) PROVE LiveInv'
<1> DEFINE r == [sockets[s] EXCEPT !.inbox = Tail(@)]
           m == Head(sockets[s].inbox)
<1>1. /\ sockets' = [sockets EXCEPT ![s] = r] /\ results' = m
      /\ heard' = (heard \/ s = ref)
      /\ UNCHANGED <<tab, ref, given>>
      /\ sockets[s].ws = "open" /\ sockets[s].inbox # <<>>
  BY DEF OnMessage
<1>2. SocketOK(sockets[s]) /\ sockets[s].closed = FALSE /\ s = ref
  BY <1>1 DEF LiveInv, Live, SocketOK, Shape
<1>3. m \in Of(sockets[s].poll) /\ m \in Results
      /\ Tail(sockets[s].inbox) \in Seq(Of(sockets[s].poll))
      /\ Tail(sockets[s].inbox) \in Seq(Results)
  BY <1>1, <1>2 DEF SocketOK, Shape, Of
<1>4. Len(Tail(sockets[s].inbox)) <= MaxInbox
  <2>1. Len(Tail(sockets[s].inbox)) = Len(sockets[s].inbox) - 1 /\ Len(sockets[s].inbox) \in Nat
    BY <1>1, <1>2, HeadTailProperties DEF SocketOK, Shape
  <2> QED BY <1>2, <2>1, LiveAssumption DEF SocketOK
<1>5. r \in Shape
  BY <1>2, <1>3 DEF SocketOK, Shape
<1>6. r.inbox = Tail(sockets[s].inbox) /\ r.closed = FALSE /\ r.poll = sockets[s].poll
      /\ r.ws = "open" /\ r.timer = sockets[s].timer
      /\ r.attempts = sockets[s].attempts /\ r.failures = sockets[s].failures
  BY <1>1, <1>2 DEF SocketOK, Shape
<1> HIDE DEF r, m
<1>7. SocketOK(r)
  BY <1>1, <1>2, <1>3, <1>4, <1>5, <1>6 DEF SocketOK, Alive
<1>8. Live'
  BY <1>1, <1>2, <1>6, <1>7 DEF LiveInv, Live
<1>9. Heard'
  <2>1. sockets'[s] = r
    BY <1>1 DEF LiveInv, Live
  <2>2. m # None /\ m.poll = sockets[s].poll
    BY <1>3, LiveAssumption DEF Of, Results
  <2> QED BY <1>1, <1>2, <1>6, <2>1, <2>2 DEF tab, Heard
<1>10. Tab'
  <2>1. heard' \in BOOLEAN
    BY <1>1 DEF LiveInv, Tab
  <2> QED BY <1>1, <1>3, <2>1 DEF LiveInv, Tab, CallOK, tab
<1> QED BY <1>8, <1>9, <1>10 DEF LiveInv

(* The old socket of the page is closed before another is made.             *)
LEMMA CleanupOK ==
  ASSUME Live
  PROVE  /\ Cleanup = [s \in Sockets |-> Cleanup[s]]
         /\ \A s \in Sockets : SocketOK(Cleanup[s]) /\ Cleanup[s].closed = TRUE
<1>1. CASE ref = None
  BY <1>1, LiveAssumption DEF Cleanup, Live
<1>2. CASE ref # None
  <2> DEFINE d == disconnect(sockets[ref])
  <2>1. SocketOK(d) /\ d.closed = TRUE
    BY DisconnectOK
  <2>2. Cleanup = [sockets EXCEPT ![ref] = d]
    BY <1>2 DEF Cleanup
  <2> HIDE DEF d
  <2> QED BY <2>1, <2>2 DEF Live
<1> QED BY <1>1, <1>2

LEMMA EffectKeeps == ASSUME LiveInv, SocketEffect PROVE LiveInv'
<1>1. ref' \in Sockets /\ page.poll \in Polls /\ heard' = FALSE /\ UNCHANGED <<tab, results, given>>
  BY DEF SocketEffect, Free, LiveInv, Tab
<1>2. PICK r \in NewSocket(page.poll) : sockets' = [Cleanup EXCEPT ![ref'] = r]
  BY DEF SocketEffect
<1>3. SocketOK(r) /\ r.closed = FALSE
  BY <1>1, NewSocketOK
<1>4. Live'
  BY <1>1, <1>2, <1>3, CleanupOK DEF LiveInv, Live
<1>5. Heard' /\ Tab'
  BY <1>1 DEF LiveInv, Tab, CallOK, tab, Heard
<1> QED BY <1>4, <1>5 DEF LiveInv

LEMMA UnmountKeeps ==
  ASSUME LiveInv, Unmount
  PROVE  Live' /\ Heard' /\ results' = None /\ heard' = FALSE /\ switched' = FALSE /\ given' = None
<1>1. Live'
  BY CleanupOK, LiveAssumption DEF Unmount, LiveInv, Live
<1> QED BY <1>1 DEF Unmount, Heard

LEMMA MountKeeps == ASSUME LiveInv, NEW p \in Polls, Mount(p) PROVE LiveInv'
<1>1. Live' /\ Heard' /\ results' = None /\ heard' = FALSE /\ switched' = FALSE /\ given' = None
  BY UnmountKeeps DEF Mount
<1>2. \A c \in Calls : calls'[c] = Fetch(p) \/ calls'[c] = NoCall
  BY DEF Mount
<1>3. \A c \in Calls : CallOK(calls'[c])
  BY <1>2 DEF CallOK, Fetch, NoCall
<1>4. DOMAIN calls' = Calls /\ calls' = [c \in Calls |-> calls'[c]]
  BY DEF Mount
<1>5. page' \in [url : Polls \cup {None}, poll : Polls \cup {None}, loading : BOOLEAN, error : BOOLEAN]
  BY DEF Mount
<1> QED BY <1>1, <1>3, <1>4, <1>5 DEF LiveInv, Tab

LEMMA LeaveKeeps == ASSUME LiveInv, Leave PROVE LiveInv'
<1>1. Live' /\ Heard' /\ results' = None /\ heard' = FALSE /\ switched' = FALSE /\ given' = None
  BY UnmountKeeps DEF Leave
<1>2. CallOK(NoCall)
  BY DEF CallOK, NoCall
<1>3. calls' = [c \in Calls |-> NoCall] /\ page' = Away
  BY DEF Leave
<1> QED BY <1>1, <1>2, <1>3 DEF LiveInv, Tab, Away

(* A step that leaves the hook and its sockets alone.                       *)
LEMMA CallKeeps ==
  ASSUME LiveInv, NEW c \in Calls, NEW x, calls' = [calls EXCEPT ![c] = x], CallOK(x)
  PROVE  /\ DOMAIN calls' = Calls /\ calls' = [d \in Calls |-> calls'[d]]
         /\ \A d \in Calls : CallOK(calls'[d])
BY DEF LiveInv, Tab

LEMMA SwitchKeeps == ASSUME LiveInv, NEW p \in Polls, Switch(p) PROVE LiveInv'
<1>1. PICK c \in Calls : calls' = [calls EXCEPT ![c] = Fetch(p)]
  BY DEF Switch
<1>2. CallOK(Fetch(p))
  BY DEF CallOK, Fetch
<1>3. page' = [page EXCEPT !.url = p, !.loading = TRUE, !.error = FALSE] /\ switched' = TRUE
      /\ UNCHANGED <<hook, sockets, given>>
  BY DEF Switch
<1>4. page'.poll = page.poll
  BY <1>3 DEF LiveInv, Tab
<1>5. Live' /\ Heard'
  BY <1>3, <1>4 DEF hook, LiveInv, Live, Heard
<1>6. page' \in [url : Polls \cup {None}, poll : Polls \cup {None}, loading : BOOLEAN, error : BOOLEAN]
  BY <1>3 DEF LiveInv, Tab
<1> QED BY <1>1, <1>2, <1>3, <1>5, <1>6, CallKeeps DEF LiveInv, Tab, hook

LEMMA AnswerKeeps == ASSUME LiveInv, NEW c \in Calls, Answer(c) PROVE LiveInv'
<1>1. CallOK(calls[c]) /\ calls[c].url \in Polls
  BY DEF Answer, LiveInv, Tab, CallOK
<1>2. PICK r \in Of(calls[c].url) \cup {None} :
         /\ calls' = [calls EXCEPT ![c].stage = "answered", ![c].results = r]
         /\ given' = IF r = None THEN given ELSE r
  BY DEF Answer
<1>3. UNCHANGED <<page, switched, hook, sockets>>
  BY DEF Answer
<1> DEFINE x == [calls[c] EXCEPT !.stage = "answered", !.results = r]
<1>4. calls' = [calls EXCEPT ![c] = x]
  BY <1>1, <1>2 DEF CallOK, LiveInv, Tab
<1>5. CallOK(x)
  BY <1>1, <1>2 DEF CallOK, Of
<1> HIDE DEF x
<1>6. given' \in Results \cup {None}
  BY <1>2 DEF LiveInv, Tab, Of
<1>7. Live' /\ Heard'
  BY <1>3 DEF hook, LiveInv, Live, Heard
<1> QED BY <1>3, <1>4, <1>5, <1>6, <1>7, CallKeeps DEF LiveInv, Tab, hook

(* A fetch is rendered when the hook's socket is of the page's poll.        *)
LEMMA FetchDoneKeeps == ASSUME LiveInv, NEW c \in Calls, FetchDone(c) PROVE LiveInv'
<1>1. /\ calls[c].stage = "answered" /\ page.poll = Bound
      /\ page' = [page EXCEPT !.poll = calls[c].url, !.loading = FALSE]
      /\ results' = IF calls[c].results = None THEN results ELSE calls[c].results
      /\ calls' = [calls EXCEPT ![c] = NoCall]
      /\ UNCHANGED <<switched, heard, ref, sockets, given>>
  BY DEF FetchDone, Pending
<1>2. CallOK(calls[c]) /\ calls[c].url \in Polls
  BY <1>1 DEF LiveInv, Tab, CallOK
<1>3. CallOK(NoCall)
  BY DEF CallOK, NoCall
<1>4. page' \in [url : Polls \cup {None}, poll : Polls \cup {None}, loading : BOOLEAN, error : BOOLEAN]
      /\ page'.poll = calls[c].url
  BY <1>1, <1>2 DEF LiveInv, Tab
<1>5. results' \in Results \cup {None}
  BY <1>1, <1>2 DEF LiveInv, Tab, CallOK, Of
<1>6. Live'
  BY <1>1 DEF LiveInv, Live
<1>7. Heard'
  <2> SUFFICES ASSUME heard' = TRUE
               PROVE  /\ ref' \in Sockets
                      /\ sockets'[ref'].poll = page'.poll => results' # None /\ results'.poll = page'.poll
    BY DEF Heard
  <2>1. ref \in Sockets /\ page.poll = sockets[ref].poll
    BY <1>1, LiveAssumption DEF LiveInv, Heard, Bound
  <2>2. SUFFICES ASSUME sockets[ref].poll = calls[c].url
                 PROVE  results' # None /\ results'.poll = calls[c].url
    BY <1>1, <1>4, <2>1
  <2>3. results # None /\ results.poll = calls[c].url
    BY <1>1, <2>1, <2>2 DEF LiveInv, Heard
  <2>4. calls[c].results # None => calls[c].results.poll = calls[c].url
    BY <1>2 DEF CallOK, Of
  <2> QED BY <1>1, <2>3, <2>4
<1> QED BY <1>1, <1>3, <1>4, <1>5, <1>6, <1>7, CallKeeps DEF LiveInv, Tab

LEMMA FetchFailsKeeps == ASSUME LiveInv, NEW c \in Calls, FetchFails(c) PROVE LiveInv'
<1>1. /\ page' = [page EXCEPT !.error = TRUE, !.loading = FALSE]
      /\ calls' = [calls EXCEPT ![c] = NoCall] /\ UNCHANGED <<switched, hook, sockets, given>>
  BY DEF FetchFails
<1>2. CallOK(NoCall)
  BY DEF CallOK, NoCall
<1>3. page' \in [url : Polls \cup {None}, poll : Polls \cup {None}, loading : BOOLEAN, error : BOOLEAN]
      /\ page'.poll = page.poll
  BY <1>1 DEF LiveInv, Tab
<1>4. Live' /\ Heard'
  BY <1>1, <1>3 DEF hook, LiveInv, Live, Heard
<1> QED BY <1>1, <1>2, <1>3, <1>4, CallKeeps DEF LiveInv, Tab, hook

LEMMA RegisterKeeps == ASSUME LiveInv, NEW s \in Sockets, Register(s) PROVE LiveInv'
<1> DEFINE r == [sockets[s] EXCEPT !.seat = "joined"]
<1>1. SocketOK(sockets[s])
  BY DEF LiveInv, Live
<1>2. sockets' = [sockets EXCEPT ![s] = r] /\ UNCHANGED <<tab, hook, given>>
  BY <1>1 DEF Register, LiveInv, Live, SocketOK, Shape
<1>3. r \in Shape
  BY <1>1 DEF SocketOK, Shape
<1>4. r.inbox = sockets[s].inbox /\ r.closed = sockets[s].closed /\ r.poll = sockets[s].poll
      /\ r.ws = sockets[s].ws /\ r.timer = sockets[s].timer
      /\ r.attempts = sockets[s].attempts /\ r.failures = sockets[s].failures
  BY <1>1 DEF SocketOK, Shape
<1> HIDE DEF r
<1>5. SocketOK(r)
  BY <1>1, <1>3, <1>4 DEF SocketOK, Alive
<1>6. Live' /\ Heard'
  BY <1>2, <1>4, <1>5, SocketKeeps DEF LiveInv, tab, hook
<1> QED BY <1>2, <1>6 DEF LiveInv, Tab, CallOK, tab, hook

(* What the hub does to a client of the room.                               *)
LEMMA SentOK ==
  ASSUME LiveInv, NEW m \in Results, NEW s \in Room(m.poll)
  PROVE  /\ SocketOK(Sent(m, s)) /\ Sent(m, s).poll = sockets[s].poll
         /\ Sent(m, s).closed = sockets[s].closed
         /\ Sent(m, s).inbox = IF Full(s) THEN sockets[s].inbox ELSE Append(sockets[s].inbox, m)
<1> DEFINE r == Sent(m, s)
<1>1. SocketOK(sockets[s]) /\ sockets[s].poll = m.poll /\ s \in Sockets
  BY DEF LiveInv, Live, Room
<1>2. CASE Full(s)
  <2>1. r = [sockets[s] EXCEPT !.seat = "evicted"]
    BY <1>2 DEF Sent
  <2>2. r \in Shape
    BY <1>1, <2>1 DEF SocketOK, Shape
  <2>3. r.inbox = sockets[s].inbox /\ r.closed = sockets[s].closed /\ r.poll = sockets[s].poll
        /\ r.ws = sockets[s].ws /\ r.timer = sockets[s].timer
        /\ r.attempts = sockets[s].attempts /\ r.failures = sockets[s].failures
    BY <1>1, <2>1 DEF SocketOK, Shape
  <2> HIDE DEF r
  <2> QED BY <1>1, <1>2, <2>2, <2>3 DEF SocketOK, Alive, r
<1>3. CASE ~Full(s)
  <2>1. r = [sockets[s] EXCEPT !.inbox = Append(@, m)]
    BY <1>3 DEF Sent
  <2>2. sockets[s].inbox \in Seq(Of(m.poll)) /\ sockets[s].inbox \in Seq(Results) /\ m \in Of(m.poll)
    BY <1>1 DEF SocketOK, Shape, Of
  <2>3. Append(sockets[s].inbox, m) \in Seq(Results) /\ Append(sockets[s].inbox, m) \in Seq(Of(m.poll))
        /\ Len(Append(sockets[s].inbox, m)) <= MaxInbox
    <3>1. Len(Append(sockets[s].inbox, m)) = Len(sockets[s].inbox) + 1 /\ Len(sockets[s].inbox) \in Nat
      BY <2>2
    <3>2. ~(Len(sockets[s].inbox) >= MaxInbox)
      BY <1>3 DEF Full
    <3> QED BY <2>2, <3>1, <3>2, LiveAssumption
  <2>4. r \in Shape
    BY <1>1, <2>1, <2>3 DEF SocketOK, Shape
  <2>5. r.inbox = Append(sockets[s].inbox, m) /\ r.closed = sockets[s].closed
        /\ r.poll = sockets[s].poll /\ r.ws = sockets[s].ws /\ r.timer = sockets[s].timer
        /\ r.attempts = sockets[s].attempts /\ r.failures = sockets[s].failures
    BY <1>1, <2>1 DEF SocketOK, Shape
  <2> HIDE DEF r
  <2> QED BY <1>1, <1>3, <2>3, <2>4, <2>5 DEF SocketOK, Alive, r
<1> QED BY <1>2, <1>3

LEMMA BroadcastKeeps == ASSUME LiveInv, NEW m \in Results, Broadcast(m) PROVE LiveInv'
<1>1. /\ sockets' = [s \in Sockets |-> IF s \in Room(m.poll) THEN Sent(m, s) ELSE sockets[s]]
      /\ given' = given \/ given' = m
      /\ UNCHANGED <<tab, hook>>
  BY DEF Broadcast
<1>2. \A s \in Sockets : /\ SocketOK(sockets'[s]) /\ sockets'[s].poll = sockets[s].poll
                           /\ sockets'[s].closed = sockets[s].closed
  BY <1>1, SentOK DEF LiveInv, Live
<1>3. Live' /\ Heard'
  BY <1>1, <1>2 DEF LiveInv, Live, Heard, tab, hook
<1> QED BY <1>1, <1>3 DEF LiveInv, Tab, CallOK, tab, hook

LEMMA LiveNext == LiveInv /\ [Next]_vars => LiveInv'
<1> SUFFICES ASSUME LiveInv, [Next]_vars PROVE LiveInv'
  OBVIOUS
<1>1. ASSUME NEW s \in Sockets, OnOpen(s) \/ OnMessage(s) \/ OnClose(s) \/ TimerFires(s)
                               \/ Register(s)
      PROVE  LiveInv'
  BY <1>1, OpenKeeps, MessageKeeps, CloseKeeps, TimerKeeps, RegisterKeeps
<1>2. ASSUME NEW c \in Calls, Answer(c) \/ FetchDone(c) \/ FetchFails(c) PROVE LiveInv'
  BY <1>2, AnswerKeeps, FetchDoneKeeps, FetchFailsKeeps
<1>3. ASSUME NEW p \in Polls, Switch(p) \/ Mount(p) PROVE LiveInv'
  BY <1>3, SwitchKeeps, MountKeeps
<1>4. CASE SocketEffect \/ Leave
  BY <1>4, EffectKeeps, LeaveKeeps
<1>5. ASSUME NEW m \in Results, Broadcast(m) PROVE LiveInv'
  BY <1>5, BroadcastKeeps
<1>6. CASE UNCHANGED vars
  BY <1>6 DEF vars, tab, hook, LiveInv, Tab, Live, Heard, CallOK
<1> QED BY <1>1, <1>2, <1>3, <1>4, <1>5, <1>6 DEF Next, Navigate

(* The inductive invariant the theorems below follow from.                  *)
THEOREM LiveInvariant == Spec => []LiveInv
BY LiveInit, LiveNext, PTL DEF Spec

(* The state of the page, its hook and its sockets is well typed, and no    *)
(* socket counts more than its ten attempts.                                *)
THEOREM LiveTyped == Spec => []TypeOK
<1>1. ASSUME LiveInv PROVE TypeOK
  <2>1. calls \in [Calls -> [url : Polls \cup {None}, stage : {"idle", "sent", "answered"},
                             results : Results \cup {None}]]
    BY <1>1 DEF LiveInv, Tab, CallOK
  <2>2. sockets \in [Sockets -> SocketType]
    BY <1>1 DEF LiveInv, Live, SocketOK, Shape, SocketType
  <2>3. \A s \in Sockets : Len(sockets[s].inbox) <= MaxInbox
    BY <1>1 DEF LiveInv, Live, SocketOK
  <2> QED BY <1>1, <2>1, <2>2, <2>3 DEF LiveInv, Tab, Live, TypeOK
<1> QED BY <1>1, LiveInvariant, PTL

(* However the tab moves about, only the mounted page's socket may hold a   *)
(* connection or a timer.                                                   *)
THEOREM OnlyCurrentLives == Spec => []NoZombies
<1>1. LiveInv => NoZombies
  BY DEF LiveInv, Live, SocketOK, NoZombies
<1> QED BY <1>1, LiveInvariant, PTL

(* For any number of attempts: a page gives up its connection only after    *)
(* one failure more than that, in a row.                                    *)
THEOREM GivesUpSpent == Spec => []GivesUpOnlyWhenSpent
<1>1. LiveInv => GivesUpOnlyWhenSpent
  BY DEF LiveInv, Live, SocketOK, Shape, Alive, GivesUpOnlyWhenSpent
<1> QED BY <1>1, LiveInvariant, PTL

(* The question and the results a page shows are of one poll, once the      *)
(* page's socket has delivered, whatever sockets and fetches the tab left.  *)
THEOREM OnePollShown == Spec => []ResultsMatch
<1>1. ASSUME LiveInv PROVE ResultsMatch
  <2> SUFFICES ASSUME heard = TRUE, page.poll = Bound
               PROVE  results # None /\ results.poll = page.poll
    BY <1>1 DEF ResultsMatch, Pending, LiveInv, Tab
  <2>1. ref \in Sockets /\ Bound = sockets[ref].poll
    BY <1>1, LiveAssumption DEF LiveInv, Heard, Bound
  <2> QED BY <1>1, <2>1 DEF LiveInv, Heard
<1> QED BY <1>1, LiveInvariant, PTL

-----------------------------------------------------------------------------
(* The last results. As long as the page keeps its :pollId it has one       *)
(* fetch, which ends before there is a socket. What the page was sent last  *)
(* is the answer to its fetch, or what its socket holds or delivered last.  *)

Inbox    == IF ref = None THEN <<>> ELSE sockets[ref].inbox
Latest   == IF Inbox = <<>> THEN results ELSE Inbox[Len(Inbox)]
Fetching == {c \in Calls : calls[c].stage # "idle"}

SeenInv ==
  ~switched =>
    /\ \A c, d \in Fetching : c = d
    /\ \A c \in Fetching :
         /\ page.poll = None
         /\ given # None => calls[c].stage = "answered" /\ calls[c].results = given
    /\ page.poll = None => ref = None
    /\ ref # None => sockets[ref].poll = page.poll
    /\ page.poll # None /\ given # None => Latest = given

(* A step of the sockets: what the current one held is kept, or lost.       *)
LEMMA SocketSeen ==
  ASSUME LiveInv, SeenInv, UNCHANGED <<tab, results, ref>>,
         ref # None => sockets'[ref].poll = sockets[ref].poll,
         \/ given' = None
         \/ given' = given /\ (ref # None => sockets'[ref].inbox = sockets[ref].inbox)
  PROVE  SeenInv'
<1>1. Fetching' = Fetching /\ page' = page /\ calls' = calls /\ switched' = switched
  BY DEF Fetching, tab
<1>2. given' # None => given' = given /\ Latest' = Latest
  BY DEF Latest, Inbox
<1> QED BY <1>1, <1>2 DEF SeenInv

LEMMA ConnectSeen ==
  ASSUME NEW r \in Shape, NEW q \in connect([r EXCEPT !.timer = FALSE])
  PROVE  q.inbox = r.inbox /\ q.poll = r.poll
BY DEF connect, Failed, scheduleReconnect, Shape

LEMMA HandlersSeen ==
  ASSUME LiveInv, SeenInv, NEW s \in Sockets,
         OnOpen(s) \/ TimerFires(s) \/ Register(s) \/ OnClose(s)
  PROVE  SeenInv'
<1>1. /\ sockets[s] \in Shape /\ sockets = [t \in Sockets |-> sockets[t]]
      /\ ref # None => ref \in Sockets
      /\ UNCHANGED <<tab, results, ref>>
  BY DEF LiveInv, Live, SocketOK, OnOpen, TimerFires, Register, OnClose, hook
<1>2. CASE OnOpen(s)
  <2>1. \A t \in Sockets : sockets'[t].inbox = sockets[t].inbox /\ sockets'[t].poll = sockets[t].poll
    BY <1>1, <1>2 DEF OnOpen, Shape
  <2> QED BY <1>1, <1>2, <2>1, SocketSeen DEF OnOpen
<1>3. CASE TimerFires(s)
  <2>1. PICK q \in connect([sockets[s] EXCEPT !.timer = FALSE]) :
           sockets' = [sockets EXCEPT ![s] = q]
    BY <1>3 DEF TimerFires
  <2>2. \A t \in Sockets : sockets'[t].inbox = sockets[t].inbox /\ sockets'[t].poll = sockets[t].poll
    BY <1>1, <2>1, ConnectSeen
  <2> QED BY <1>1, <1>3, <2>2, SocketSeen DEF TimerFires
<1>4. CASE Register(s)
  <2>1. \A t \in Sockets : sockets'[t].inbox = sockets[t].inbox /\ sockets'[t].poll = sockets[t].poll
    BY <1>1, <1>4 DEF Register, Shape
  <2> QED BY <1>1, <1>4, <2>1, SocketSeen DEF Register
<1>5. CASE OnClose(s)
  <2> DEFINE q == [sockets[s] EXCEPT !.ws = "closed", !.seat = "none", !.inbox = <<>>]
             r == IF q.closed THEN NoSocket ELSE Failed(q)
  <2>1. /\ sockets' = [sockets EXCEPT ![s] = r]
        /\ given' = IF sockets[s].inbox = <<>> THEN given ELSE None
    BY <1>5 DEF OnClose
  <2>2. q.inbox = <<>> /\ NoSocket.inbox = <<>> /\ q.poll = sockets[s].poll
        /\ q.closed = sockets[s].closed
    BY <1>1 DEF Shape, NoSocket
  <2>3. Failed(q).inbox = q.inbox /\ Failed(q).poll = q.poll
    BY <1>1 DEF Failed, scheduleReconnect, Shape
  <2>4. r.inbox = <<>> /\ (s = ref => r.poll = sockets[s].poll)
    <3>1. s = ref => q.closed = FALSE
      BY <1>1, <2>2 DEF LiveInv, Live, Shape
    <3> QED BY <2>2, <2>3, <3>1
  <2> HIDE DEF r
  <2>5. ref # None => sockets'[ref].poll = sockets[ref].poll
    BY <1>1, <2>1, <2>4
  <2>6. sockets[s].inbox = <<>> /\ ref # None => sockets'[ref].inbox = sockets[ref].inbox
    BY <1>1, <2>1, <2>4
  <2> QED BY <1>1, <2>1, <2>5, <2>6, SocketSeen
<1> QED BY <1>2, <1>3, <1>4, <1>5

(* Delivering the oldest message leaves the latest what it is.              *)
LEMMA MessageSeen ==
  ASSUME LiveInv, SeenInv, NEW s \in Sockets, OnMessage(s)
  PROVE  SeenInv'
<1> DEFINE q == sockets[s].inbox
<1>1. /\ sockets' = [sockets EXCEPT ![s] = [sockets[s] EXCEPT !.inbox = Tail(q)]]
      /\ results' = Head(q) /\ q # <<>>
      /\ UNCHANGED <<tab, ref, given>>
  BY DEF OnMessage, LiveInv, Live, SocketOK, Shape
<1>2. sockets[s] \in Shape /\ s = ref /\ sockets = [t \in Sockets |-> sockets[t]] /\ s # None
  BY LiveAssumption DEF OnMessage, LiveInv, Live, SocketOK, Shape
<1>3. sockets'[ref].inbox = Tail(q) /\ sockets'[ref].poll = sockets[ref].poll /\ q \in Seq(Results)
  BY <1>1, <1>2 DEF Shape
<1>4. Latest' = Latest
  <2>1. Inbox = q /\ Inbox' = Tail(q)
    BY <1>1, <1>2, <1>3 DEF Inbox
  <2> HIDE DEF q
  <2>0. Len(Tail(q)) = Len(q) - 1 /\ Len(q) \in Nat
    BY <1>1, <1>3, HeadTailProperties
  <2>2. CASE Tail(q) = <<>>
    <3>0. Len(Tail(q)) = 0
      BY <2>2, EmptySeq, Zenon
    <3>1. Len(q) = 1
      BY <2>0, <3>0
    <3> QED BY <1>1, <1>3, <2>1, <2>2, <3>1 DEF Latest
  <2>3. CASE Tail(q) # <<>>
    <3>1. Len(Tail(q)) = Len(q) - 1 /\ Len(Tail(q)) \in 1..Len(Tail(q))
      BY <1>1, <1>3, <2>3
    <3>2. Tail(q)[Len(Tail(q))] = q[Len(q)]
      BY <1>1, <1>3, <3>1
    <3> QED BY <1>1, <2>1, <2>3, <3>2 DEF Latest
  <2> QED BY <2>2, <2>3
<1>5. Fetching' = Fetching /\ calls' = calls
  BY <1>1 DEF Fetching, tab
<1> QED BY <1>1, <1>2, <1>3, <1>4, <1>5 DEF SeenInv, tab

(* Results sent to the room are the last of the page's socket, or its       *)
(* channel is full and it is not sent them.                                 *)
LEMMA BroadcastSeen ==
  ASSUME LiveInv, SeenInv, NEW m \in Results, Broadcast(m)
  PROVE  SeenInv'
<1>1. /\ sockets' = [s \in Sockets |-> IF s \in Room(m.poll) THEN Sent(m, s) ELSE sockets[s]]
      /\ given' = (IF ref \in Room(m.poll) /\ ~Full(ref) THEN m ELSE given)
      /\ UNCHANGED <<tab, results, ref>>
  BY DEF Broadcast, hook
<1>2. ref # None => ref \in Sockets /\ sockets[ref].inbox \in Seq(Results)
  BY DEF LiveInv, Live, SocketOK, Shape
<1>3. ref # None => sockets'[ref].poll = sockets[ref].poll
  BY <1>1, <1>2, SentOK
<1>4. CASE ref \in Room(m.poll) /\ ~Full(ref)
  <2>1. ref \in Sockets /\ ref # None
    BY <1>4, LiveAssumption DEF Room
  <2>2. Inbox' = Append(sockets[ref].inbox, m)
    BY <1>1, <1>4, <2>1, SentOK DEF Inbox
  <2>3. Latest' = m
    BY <1>2, <2>1, <2>2 DEF Latest
  <2>4. Fetching' = Fetching /\ page' = page /\ switched' = switched
    BY <1>1 DEF Fetching, tab
  <2>5. given' = m
    BY <1>1, <1>4
  <2> QED BY <1>1, <1>3, <2>1, <2>3, <2>4, <2>5 DEF SeenInv
<1>5. CASE ~(ref \in Room(m.poll) /\ ~Full(ref))
  <2>1. given' = given
    BY <1>1, <1>5
  <2>2. ref # None => sockets'[ref].inbox = sockets[ref].inbox
    BY <1>1, <1>2, <1>5, SentOK
  <2> QED BY <1>1, <1>3, <2>1, <2>2, SocketSeen
<1> QED BY <1>4, <1>5

(* The effect's socket has received nothing; so has the page, whose fetch   *)
(* has ended.                                                               *)
LEMMA EffectSeen ==
  ASSUME LiveInv, SeenInv, SocketEffect
  PROVE  SeenInv'
<1>1. /\ ref' \in Sockets /\ page.poll # Bound /\ page.poll # None
      /\ UNCHANGED <<tab, results, given>>
  BY DEF SocketEffect, Free, Pending
<1>2. PICK r \in NewSocket(page.poll) : sockets' = [Cleanup EXCEPT ![ref'] = r]
  BY DEF SocketEffect
<1>3. r.inbox = <<>> /\ r.poll = page.poll
  BY <1>2 DEF NewSocket, connect, Failed, scheduleReconnect, NoSocket
<1>4. sockets'[ref'] = r
  <2>1. DOMAIN Cleanup = Sockets
    BY CleanupOK DEF LiveInv
  <2> QED BY <1>1, <1>2, <2>1
<1>5. Inbox' = <<>>
  BY <1>1, <1>3, <1>4, LiveAssumption DEF Inbox
<1>6. Fetching' = Fetching /\ calls' = calls /\ page' = page /\ switched' = switched
  BY <1>1 DEF Fetching, tab
<1>7. CASE ~switched
  <2>1. ref = None
    BY <1>1, <1>7, LiveAssumption DEF SeenInv, Bound
  <2>2. Inbox = <<>>
    BY <2>1 DEF Inbox
  <2>3. Latest' = Latest
    BY <1>1, <1>5, <2>2 DEF Latest
  <2> QED BY <1>1, <1>3, <1>4, <1>6, <2>3 DEF SeenInv
<1> QED BY <1>6, <1>7 DEF SeenInv

LEMMA NavigateSeen ==
  ASSUME LiveInv, SeenInv, Navigate
  PROVE  SeenInv'
<1>1. ASSUME NEW p \in Polls, Mount(p) PROVE SeenInv'
  <2>1. /\ ref' = None /\ given' = None /\ page'.poll = None
        /\ calls' = [d \in Calls |-> IF d = CHOOSE c \in Calls : TRUE THEN Fetch(p) ELSE NoCall]
    BY <1>1 DEF Mount, Unmount
  <2>2. \A d \in Fetching' : d = (CHOOSE c \in Calls : TRUE)
    BY <2>1 DEF Fetching, NoCall, Fetch
  <2> QED BY <2>1, <2>2 DEF SeenInv
<1>2. CASE Leave
  <2>1. ref' = None /\ given' = None /\ page' = Away /\ calls' = [c \in Calls |-> NoCall]
    BY <1>2 DEF Leave, Unmount
  <2>2. Fetching' = {}
    BY <2>1 DEF Fetching, NoCall
  <2> QED BY <2>1, <2>2 DEF SeenInv, Away
<1>3. ASSUME NEW p \in Polls, Switch(p) PROVE SeenInv'
  BY <1>3 DEF Switch, SeenInv
<1> QED BY <1>1, <1>2, <1>3 DEF Navigate

(* The fetch.                                                               *)
LEMMA AnswerSeen ==
  ASSUME LiveInv, SeenInv, NEW c \in Calls, Answer(c)
  PROVE  SeenInv'
<1>1. calls[c].stage = "sent" /\ UNCHANGED <<page, switched, hook, sockets>>
  BY DEF Answer
<1>2. PICK r \in Of(calls[c].url) \cup {None} :
         /\ calls' = [calls EXCEPT ![c].stage = "answered", ![c].results = r]
         /\ given' = IF r = None THEN given ELSE r
  BY DEF Answer
<1> SUFFICES ASSUME ~switched PROVE SeenInv'
  BY <1>1 DEF SeenInv
<1>3. c \in Fetching /\ Fetching = {c} /\ page.poll = None /\ ref = None /\ given = None
  BY <1>1 DEF SeenInv, Fetching
<1>4. calls[c] \in [url : Polls \cup {None}, stage : {"idle", "sent", "answered"},
                    results : Results \cup {None}] /\ DOMAIN calls = Calls
  BY DEF LiveInv, Tab, CallOK
<1>5. calls' = [calls EXCEPT ![c] = [calls[c] EXCEPT !.stage = "answered", !.results = r]]
  BY <1>2, <1>4
<1>6. calls'[c].stage = "answered" /\ calls'[c].results = r
  BY <1>4, <1>5
<1>7. Fetching' = {c}
  BY <1>3, <1>4, <1>5, <1>6 DEF Fetching
<1>8. given' # None => given' = r
  BY <1>2, <1>3
<1> QED BY <1>1, <1>3, <1>6, <1>7, <1>8 DEF SeenInv, hook

LEMMA FetchEndSeen ==
  ASSUME LiveInv, SeenInv, NEW c \in Calls, FetchDone(c) \/ FetchFails(c)
  PROVE  SeenInv'
<1>1. /\ calls[c].stage # "idle" /\ calls' = [calls EXCEPT ![c] = NoCall]
      /\ UNCHANGED <<switched, ref, sockets, given>>
  BY DEF FetchDone, FetchFails, hook
<1> SUFFICES ASSUME ~switched PROVE SeenInv'
  BY <1>1 DEF SeenInv
<1>2. Fetching = {c} /\ page.poll = None /\ ref = None
  BY <1>1 DEF SeenInv, Fetching
<1>3. Fetching' = {}
  BY <1>1, <1>2 DEF Fetching, NoCall, LiveInv, Tab
<1>4. CASE FetchFails(c)
  <2>1. page'.poll = None
    BY <1>2, <1>4 DEF FetchFails, LiveInv, Tab
  <2> QED BY <1>1, <1>2, <1>3, <2>1 DEF SeenInv
<1>5. CASE FetchDone(c)
  <2>1. /\ page'.poll = calls[c].url
        /\ results' = IF calls[c].results = None THEN results ELSE calls[c].results
    BY <1>5 DEF FetchDone, LiveInv, Tab
  <2>2. calls[c].url \in Polls
    BY <1>1 DEF LiveInv, Tab, CallOK
  <2>3. Latest' = results'
    BY <1>1, <1>2 DEF Latest, Inbox
  <2>4. given # None => calls[c].results = given
    BY <1>2 DEF SeenInv
  <2> QED BY <1>1, <1>2, <1>3, <2>1, <2>2, <2>3, <2>4, LiveAssumption DEF SeenInv
<1> QED BY <1>4, <1>5

LEMMA SeenNext == LiveInv /\ SeenInv /\ [Next]_vars => SeenInv'
<1> SUFFICES ASSUME LiveInv, SeenInv, [Next]_vars PROVE SeenInv'
  OBVIOUS
<1>1. ASSUME NEW s \in Sockets, OnOpen(s) \/ OnMessage(s) \/ OnClose(s) \/ TimerFires(s)
                               \/ Register(s)
      PROVE  SeenInv'
  BY <1>1, HandlersSeen, MessageSeen
<1>2. ASSUME NEW c \in Calls, Answer(c) \/ FetchDone(c) \/ FetchFails(c) PROVE SeenInv'
  BY <1>2, AnswerSeen, FetchEndSeen
<1>3. ASSUME NEW m \in Results, Broadcast(m) PROVE SeenInv'
  BY <1>3, BroadcastSeen
<1>4. CASE SocketEffect \/ Navigate
  BY <1>4, EffectSeen, NavigateSeen
<1>5. CASE UNCHANGED vars
  BY <1>5, SocketSeen DEF vars, hook
<1> QED BY <1>1, <1>2, <1>3, <1>4, <1>5 DEF Next

LEMMA SeenInit == Init => SeenInv
BY DEF Init, SeenInv, Fetching, NoCall, Away

(* For any number of polls, results and reconnections: when nothing is      *)
(* under way a page that kept its :pollId shows the last results it was     *)
(* sent, unless they were lost with its connection.                         *)
THEOREM LastSentReachesPage == Spec => []LastSentShown
<1>1. ASSUME LiveInv, SeenInv PROVE LastSentShown
  <2> SUFFICES ASSUME View = "poll", ~switched, ~Pending, sockets[ref].inbox = <<>>,
                      given # None
               PROVE  Shown = given
    BY DEF LastSentShown
  <2>1. page.poll # None
    BY DEF View
  <2>2. ref # None
    BY <2>1 DEF Pending, Bound
  <2>3. results = given
    BY <1>1, <2>1, <2>2 DEF SeenInv, Latest, Inbox
  <2> QED BY <2>3 DEF Shown
<1>2. Spec => []SeenInv
  BY LiveInvariant, SeenInit, SeenNext, PTL DEF Spec
<1> QED BY <1>1, <1>2, LiveInvariant, PTL
=============================================================================
