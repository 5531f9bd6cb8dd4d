------------------------------ MODULE LivePage ------------------------------
(***************************************************************************)
(* A page that shows a poll live in one tab (PollResultsPage, or           *)
(* PublicPollPage, whose fetch reads no results): the fetch it starts when *)
(* it is mounted or its :pollId changes, the hook useWebSocket, and the    *)
(* PollSocket objects the hook makes, with their reconnection. Of the      *)
(* server it has what a connection meets: the room is joined some time     *)
(* after the upgrade, and is sent results in any order, new and old, for   *)
(* handlers overlap. Results are told apart by how many votes they count;  *)
(* the viewer count is left out.                                           *)
(***************************************************************************)
EXTENDS Naturals, Sequences, FiniteSets

CONSTANTS
  Polls,
  Sockets,      \* PollSocket objects; one that is closed for good is NoSocket, and is
                \* used again
  Calls,        \* fetches of one page in flight at once
  MaxAttempts,  \* maxReconnectAttempts
  MaxVotes,     \* poll -> bound on the votes its results count
  MaxInbox,     \* what the channel to a client holds (256 in the code)
  None

Results  == UNION {[poll : {p}, n : 0..MaxVotes[p]] : p \in Polls}
Of(p)    == {m \in Results : m.poll = p}

ASSUME LiveAssumption ==
  /\ None \notin Polls \cup Sockets \cup Results
  /\ MaxAttempts \in Nat /\ MaxVotes \in [Polls -> Nat] /\ MaxInbox \in Nat

NoSocket == [poll |-> None, closed |-> TRUE, ws |-> "closed", timer |-> FALSE,
             attempts |-> 0, failures |-> 0, seat |-> "none", inbox |-> <<>>]
NoCall   == [url |-> None, stage |-> "idle", results |-> None]
Away     == [url |-> None, poll |-> None, loading |-> FALSE, error |-> FALSE]

VARIABLES
  page,     \* the page mounted and its state; page.url is the route's :pollId, None
            \* on every other page
  calls,    \* its fetches: "idle", "sent", "answered" with the results read
  results,  \* the hook's results
  sockets,  \* PollSocket: pollId, isExplicitlyClosed, the WebSocket, reconnectTimer,
            \* reconnectAttempts; failures is a history: closings since it was last open;
            \* at the server, its connection's seat in the room and the messages sent to it
  ref,      \* socketRef.current
  switched, \* history: the :pollId of the mounted page has changed
  heard,    \* history: the current PollSocket has delivered results
  given     \* history: the results the mounted page was sent last, by its fetch or over
            \* its connection; None when they were lost with the connection

tab   == <<page, calls, switched>>
hook  == <<results, heard, ref>>
vars  == <<tab, hook, sockets, given>>

Init ==
  /\ page = Away /\ calls = [c \in Calls |-> NoCall] /\ switched = FALSE
  /\ results = None /\ heard = FALSE /\ given = None
  /\ sockets = [s \in Sockets |-> NoSocket] /\ ref = None

-----------------------------------------------------------------------------
(* PollSocket. Connecting either starts a WebSocket or throws.              *)

OffByOne(r) ==  \* mutant: one attempt too many
  IF r.attempts > MaxAttempts THEN r
  ELSE [r EXCEPT !.attempts = @ + 1, !.timer = TRUE]

scheduleReconnect(r) ==
  IF r.attempts >= MaxAttempts THEN r
  ELSE [r EXCEPT !.attempts = @ + 1, !.timer = TRUE]

Failed(r) == scheduleReconnect([r EXCEPT !.failures = @ + 1])

connect(r) ==
  IF r.closed THEN {r} ELSE {[r EXCEPT !.ws = "connecting"], Failed(r)}

NewSocket(p) == connect([NoSocket EXCEPT !.poll = p, !.closed = FALSE])

Unflagged(r) ==  \* mutant: isExplicitlyClosed is not set
  IF r.ws \in {"connecting", "open"}
  THEN [r EXCEPT !.timer = FALSE, !.seat = "none", !.inbox = <<>>, !.ws = "closing"]
  ELSE NoSocket

disconnect(r) ==  \* nothing but isExplicitlyClosed is read of a closed object again
  IF r.ws \in {"connecting", "open"} THEN [NoSocket EXCEPT !.ws = "closing"] ELSE NoSocket

KeepAttempts(s) ==  \* mutant: an opened connection does not earn its attempts back
  /\ sockets[s].ws = "connecting"
  /\ sockets' = [sockets EXCEPT ![s].ws = "open", ![s].failures = 0]
  /\ UNCHANGED <<tab, hook, given>>

OnOpen(s) ==
  /\ sockets[s].ws = "connecting"
  /\ sockets' = [sockets EXCEPT ![s].ws = "open", ![s].failures = 0, ![s].attempts = 0]
  /\ UNCHANGED <<tab, hook, given>>

OnMessage(s) ==
  LET m == Head(sockets[s].inbox) IN
    /\ sockets[s].ws = "open" /\ sockets[s].inbox # <<>>
    /\ sockets' = [sockets EXCEPT ![s].inbox = Tail(@)]
    /\ results' = m
    /\ heard' = (heard \/ s = ref)
    /\ UNCHANGED <<tab, ref, given>>

OnClose(s) ==
  LET r == [sockets[s] EXCEPT !.ws = "closed", !.seat = "none", !.inbox = <<>>] IN
    /\ sockets[s].ws \in {"connecting", "open", "closing"}
    /\ sockets' = [sockets EXCEPT ![s] = IF r.closed THEN NoSocket ELSE Failed(r)]
    /\ given' = IF sockets[s].inbox = <<>> THEN given ELSE None
    /\ UNCHANGED <<tab, hook>>

AwaitResults(s) ==  \* mutant: a page without results does not reconnect
  /\ sockets[s].timer /\ results # None
  /\ \E r \in connect([sockets[s] EXCEPT !.timer = FALSE]) : sockets' = [sockets EXCEPT ![s] = r]
  /\ UNCHANGED <<tab, hook, given>>

TimerFires(s) ==
  /\ sockets[s].timer
  /\ \E r \in connect([sockets[s] EXCEPT !.timer = FALSE]) : sockets' = [sockets EXCEPT ![s] = r]
  /\ UNCHANGED <<tab, hook, given>>

-----------------------------------------------------------------------------
(* useWebSocket. React runs the effect of a changed poll.id some time after *)
(* it has rendered the poll, and before it renders or unmounts again.       *)

Bound   == IF ref = None THEN None ELSE sockets[ref].poll
Pending == page.poll # Bound
Free    == {s \in Sockets : sockets[s] = NoSocket}

NoCleanup == sockets  \* mutant: the effect does not disconnect its socket

Cleanup == IF ref = None THEN sockets ELSE [sockets EXCEPT ![ref] = disconnect(@)]

SocketEffect ==
  /\ Pending /\ page.poll # None
  /\ Free # {}
  /\ ref' = CHOOSE s \in Free : TRUE
  /\ \E r \in NewSocket(page.poll) : sockets' = [Cleanup EXCEPT ![ref'] = r]
  /\ heard' = FALSE
  /\ UNCHANGED <<tab, results, given>>

-----------------------------------------------------------------------------
(* The page. A fetch reads the poll and its results; when only the results  *)
(* fail, and on the voting page always, the page keeps what the hook has.   *)

Fetch(p) == [url |-> p, stage |-> "sent", results |-> None]

Unmount ==
  /\ ~Pending
  /\ sockets' = Cleanup /\ ref' = None
  /\ results' = None /\ heard' = FALSE /\ switched' = FALSE /\ given' = None

Mount(p) ==
  /\ Unmount
  /\ page' = [url |-> p, poll |-> None, loading |-> TRUE, error |-> FALSE]
  /\ LET c == CHOOSE c \in Calls : TRUE IN
       calls' = [d \in Calls |-> IF d = c THEN Fetch(p) ELSE NoCall]

Leave ==
  /\ page.url # None /\ Unmount
  /\ page' = Away /\ calls' = [c \in Calls |-> NoCall]

Switch(p) ==
  /\ page.url # None /\ p # page.url /\ ~Pending
  /\ page' = [page EXCEPT !.url = p, !.loading = TRUE, !.error = FALSE]
  /\ \E c \in Calls : calls[c].stage = "idle"
  /\ LET c == CHOOSE c \in Calls : calls[c].stage = "idle" IN
       calls' = [calls EXCEPT ![c] = Fetch(p)]
  /\ switched' = TRUE
  /\ UNCHANGED <<hook, sockets, given>>

Answer(c) ==
  /\ calls[c].stage = "sent"
  /\ \E r \in Of(calls[c].url) \cup {None} :
       /\ calls' = [calls EXCEPT ![c].stage = "answered", ![c].results = r]
       /\ given' = IF r = None THEN given ELSE r
  /\ UNCHANGED <<page, switched, hook, sockets>>

NoSetResults(c) ==  \* mutant: the results that were fetched are not shown
  /\ calls[c].stage = "answered" /\ ~Pending
  /\ page' = [page EXCEPT !.poll = calls[c].url, !.loading = FALSE]
  /\ calls' = [calls EXCEPT ![c] = NoCall]
  /\ UNCHANGED <<switched, hook, sockets, given>>

FetchDone(c) ==
  /\ calls[c].stage = "answered" /\ ~Pending
  /\ page' = [page EXCEPT !.poll = calls[c].url, !.loading = FALSE]
  /\ results' = IF calls[c].results = None THEN results ELSE calls[c].results
  /\ calls' = [calls EXCEPT ![c] = NoCall]
  /\ UNCHANGED <<switched, heard, ref, sockets, given>>

StillLoading(c) ==  \* mutant: loading is not reset when the fetch fails
  /\ calls[c].stage # "idle" /\ ~Pending
  /\ page' = [page EXCEPT !.error = TRUE]
  /\ calls' = [calls EXCEPT ![c] = NoCall]
  /\ UNCHANGED <<switched, hook, sockets, given>>

FetchFails(c) ==
  /\ calls[c].stage # "idle" /\ ~Pending
  /\ page' = [page EXCEPT !.error = TRUE, !.loading = FALSE]
  /\ calls' = [calls EXCEPT ![c] = NoCall]
  /\ UNCHANGED <<switched, hook, sockets, given>>

(* What is rendered. Without results every option is listed with no votes.  *)
View ==
  CASE page.loading                    -> "skeleton"
    [] ~page.loading /\ (page.error \/ page.poll = None) -> "error"
    [] OTHER                           -> "poll"

Shown == IF results = None THEN [poll |-> page.poll, n |-> 0] ELSE results

-----------------------------------------------------------------------------
(* The server. The hub takes a connection into its poll's room some time    *)
(* after the upgrade, and sends every client there the results a handler    *)
(* computed, or closes its channel when that is full.                       *)

Register(s) ==
  /\ sockets[s].ws \in {"connecting", "open"} /\ sockets[s].seat = "none"
  /\ sockets' = [sockets EXCEPT ![s].seat = "joined"]
  /\ UNCHANGED <<tab, hook, given>>

Room(p) == {s \in Sockets : sockets[s].poll = p /\ sockets[s].seat = "joined"}
Full(s) == Len(sockets[s].inbox) >= MaxInbox

Sent(m, s) ==
  IF Full(s) THEN [sockets[s] EXCEPT !.seat = "evicted"]
  ELSE [sockets[s] EXCEPT !.inbox = Append(@, m)]

Broadcast(m) ==
  /\ Room(m.poll) # {}
  /\ sockets' = [s \in Sockets |-> IF s \in Room(m.poll) THEN Sent(m, s) ELSE sockets[s]]
  /\ given' = IF ref \in Room(m.poll) /\ ~Full(ref) THEN m ELSE given
  /\ UNCHANGED <<tab, hook>>

Navigate ==
  \/ Leave
  \/ \E p \in Polls : Switch(p) \/ Mount(p)

Next ==
  \/ \E s \in Sockets : OnOpen(s) \/ OnMessage(s) \/ OnClose(s) \/ TimerFires(s) \/ Register(s)
  \/ \E c \in Calls : Answer(c) \/ FetchDone(c) \/ FetchFails(c)
  \/ \E m \in Results : Broadcast(m)
  \/ SocketEffect \/ Navigate

Spec == Init /\ [][Next]_vars

(* The browser runs its timers and effects, and every connection attempt    *)
(* and every fetch ends (the fetch by its 30 s timeout). Nobody has to      *)
(* leave, and the server need not take the connection into a room.         *)
Fairness ==
  /\ WF_vars(SocketEffect)
  /\ \A s \in Sockets : WF_vars(TimerFires(s))
                        /\ WF_vars(sockets[s].ws \in {"connecting", "closing"}
                                   /\ (OnOpen(s) \/ OnClose(s)))
  /\ \A c \in Calls : WF_vars(FetchDone(c) \/ FetchFails(c))

FairSpec == Spec /\ Fairness

-----------------------------------------------------------------------------
SocketType ==
  [poll : Polls \cup {None}, closed : BOOLEAN, timer : BOOLEAN,
   ws : {"connecting", "open", "closing", "closed"},
   attempts : 0..MaxAttempts, failures : 0..(MaxAttempts + 1),
   seat : {"none", "joined", "evicted"}, inbox : Seq(Results)]

(* The state of the page, of its hook and of every PollSocket is well       *)
(* typed; in particular no socket counts more than its ten attempts.        *)
TypeOK ==
  /\ page \in [url : Polls \cup {None}, poll : Polls \cup {None}, loading : BOOLEAN, error : BOOLEAN]
  /\ calls \in [Calls -> [url : Polls \cup {None}, stage : {"idle", "sent", "answered"},
                          results : Results \cup {None}]]
  /\ {results, given} \subseteq Results \cup {None}
  /\ sockets \in [Sockets -> SocketType] /\ ref \in Sockets \cup {None}
  /\ \A s \in Sockets : Len(sockets[s].inbox) <= MaxInbox
  /\ switched \in BOOLEAN /\ heard \in BOOLEAN

(* However a tab moves between pages and polls, a PollSocket that is not    *)
(* the current one of the mounted page has been told to close: it keeps no  *)
(* connection and no timer, and never opens another.                        *)
NoZombies ==
  \A s \in Sockets \ {ref} :
    sockets[s].closed /\ ~sockets[s].timer /\ sockets[s].ws \notin {"connecting", "open"}

(* A page stops reconnecting only after MaxAttempts + 1 failures in a row:  *)
(* an opened connection gives all attempts back.                            *)
GivesUpOnlyWhenSpent ==
  \A s \in Sockets :
    ~sockets[s].closed /\ ~sockets[s].timer /\ sockets[s].ws \notin {"connecting", "open"}
      => sockets[s].failures = MaxAttempts + 1

(* The question a page shows and its results are of one poll, once the      *)
(* page's socket has delivered results: no message of a socket it left, and *)
(* no fetch that answers late, mixes two polls. (Such a fetch may put the   *)
(* poll it left back as a whole, until the effect has opened its socket.)   *)
ResultsMatch == heard /\ ~Pending => results # None /\ results.poll = page.poll

(* When nothing is under way, a page that kept its :pollId shows the last   *)
(* results it was sent, by its fetch or over its connection, old or new.    *)
LastSentShown ==
  LET Waiting == \/ \E c \in Calls : calls[c].stage # "idle"
                 \/ Pending
                 \/ sockets[ref].inbox # <<>>
  IN View = "poll" /\ ~switched /\ ~Waiting /\ given # None => Shown = given

(* A socket that lost its connection opens another, unless it is closed or  *)
(* its attempts are spent.                                                  *)
ReconnectEnds ==
  \A s \in Sockets : sockets[s].ws = "closed" /\ ~sockets[s].closed ~>
    sockets[s].ws = "open" \/ sockets[s].closed \/ sockets[s].failures > MaxAttempts

(* A page that loads ends with a poll or an error, unless its user goes on  *)
(* from page to page for ever.                                              *)
LoadingEnds == []<>~page.loading \/ []<><<Navigate>>_vars
=============================================================================
