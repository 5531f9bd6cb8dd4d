# VoteSphere: specifications and proofs

VoteSphere is a polling application: a Go backend (`backend/`) that keeps polls
and votes in MongoDB, counts votes in Redis and pushes live results over
WebSockets, and a React frontend (`frontend/`). This directory holds TLA+ models
of the parts where requests, goroutines, stores, connections and browser tabs
meet, TLC configurations that check them on small instances, and TLAPS proofs
about them for every value of their constants. `PROJECT.json` lists the components, the
runs, the hazards each property is aimed at, and for every definition the lines
of source it stands for.

Contents:

1. [The system](#1-the-system)
2. [Modules](#2-modules)
3. [Runs](#3-runs)
4. [Fairness](#4-fairness)
5. [Proofs](#5-proofs)
6. [Where the code and its documentation part](#6-where-the-code-and-its-documentation-part)
7. [What is not modelled](#7-what-is-not-modelled)
8. [Plan](#8-plan)

To run: `tlc -config VoteInputs.cfg MCVoteService`, `tlapm VoteServiceProofs.tla`,
and so on, in this directory.

## 1. The system

| Component | State it keeps | Operations | Talks to |
|---|---|---|---|
| Voting service, `services/vote_service.go` | none of its own | `CastVote`, `GetPollResults` | repositories, counters, publish/subscribe, hub |
| Live counters, `redis/counters.go` | per poll in Redis: a counter per option, a total, the set of voters, the set of viewers | `IncrementVote`, `RecordVoterHash`, `GetPollResultsFromRedis`, `AddActiveViewer`, `RemoveActiveViewer` | Redis |
| Publish/subscribe, `redis/pubsub.go` | the subscription | `PublishPollUpdate`, `SubscribePattern` | Redis |
| Repositories, `repositories/*_repo.go` | `users`, `polls`, `votes` in MongoDB | finders, `Create`, `Update`, `Delete`, aggregates | MongoDB |
| Poll service, `services/poll_service.go` | none of its own | create, read (which closes an expired poll), close, delete, dashboard | repositories, counters |
| Hub, `websocket/hub.go`, and pumps, `websocket/client.go` | rooms; three channels; a `Send` channel per client | `Run`, `ServeWS`, `BroadcastLocal`, `BroadcastViewerCount`, `listenRedisPubSub`, `ReadPump`, `WritePump` | counters, publish/subscribe, browsers |
| Rate limiter, `middleware/ratelimit_middleware.go` | a counter and a window per address | `Middleware`, the cleanup goroutine | the voting route, before `CastVote` |
| Fallback repositories, `repositories/inmemory_repo.go` | three maps and a JSON file | the repositories' operations, load and save | replace MongoDB when it is out of reach at start |
| Accounts, `services/auth_service.go` | none of its own | register, login, profile | user repository |
| Live socket, `services/socketService.js`, `hooks/useWebSocket.js` | a socket, a timer, a count of attempts; the results last heard | connect, reconnect, disconnect | hub |
| Pages of a poll, `pages/PublicPollPage.jsx`, `PollResultsPage.jsx`, `utils/voterId.js` | the poll, the selection; in the browser: the voter's token (in three places) and the votes remembered | fetch, select, submit, change | live socket, voting route |
| Session, `context/AuthContext.jsx`, `services/authService.js`, `api.js`, layouts and login forms | the user shown; in localStorage: token and user, under two generations of keys | verify at start, login, register, logout, the answer 401, guarded routes | accounts |
| Creator's pages, `pages/DashboardPage.jsx`, `MyPollsPage.jsx`, `CreatePollPage.jsx` | the list, the form, the poll just created | load, close, delete, edit, launch | poll service, session |

One request to vote crosses most of them: rate limiter, `CastVote`, two lookups
and a write in MongoDB, `SADD` and two `INCR`s per option in Redis, a read of all
counters, a `PUBLISH`, and a broadcast in the hub. Redis delivers the published
message back to the same process, so each result reaches the room twice.

### What is hard here

*Concurrency.* `CastVote` holds no lock and uses no transaction: between any two
of its calls another run of it may do anything. Redis pipelines are not
transactions. The hub's state is owned by one goroutine, but its channels are
bounded and shared by handlers, presence goroutines and the relay, and a client
can be removed by a broadcast and by its own disconnect. The rate limiter reads
the clock before it takes its mutex.

*Failure.* MongoDB calls may fail, or take effect and lose their answer. Redis
errors are ignored nearly everywhere, and the Redis client sends a command again
whose answer was lost, so counters may miss increments or have them twice; and Redis
may restart empty. The fallback repositories may be stopped by the operating
system in the middle of replacing their file, and file errors are only logged.

*The browser.* A tab is single-threaded, but its requests, timers and sockets
answer whenever they like: after their page has gone to another poll, after the
user has signed out and somebody else in, after a form was left. React keeps a
page mounted when only its `:pollId` changes, and drops the state of one that is
not. Storage is shared with other tabs, may be cleared, and may refuse a write.

*Ordering and time.* Results are read, published and broadcast in three steps
that overlap with those of other votes. A poll expires or is closed or deleted
while votes for it are under way. Windows of the rate limiter, write deadlines
and the expiry of presence keys depend on the clock.

### What makes each part correct

* Voting: two votes of one voter are stored only when they race; a vote that is
  counted is stored, and counted no more often than its pipeline was sent; with
  nothing lost, counters and collection agree at rest; an answer shows the vote it
  answers; each stored vote reaches the viewers.
* Hub: no channel closed twice; no message lost, repeated or reordered on the
  way to a client that keeps up; a client that does not is disconnected;
  nobody waits for ever on a full channel; viewers end with the newest results.
* Rate limiter: no address passes more than its due; nobody is turned away
  without cause.
* Fallback repositories: what was acknowledged is on the disk; saves are all or
  nothing.
* Live pages: a connection that is lost is sought again until its attempts are
  spent; nothing of a page that was left goes on; the question and the results
  shown are of one poll, and the results are the last ones the page was sent.
* Voting page: a browser is one voter, or each account that signs in there is,
  whatever is lost or cleared, as long as its votes do not overlap; what it
  remembers and marks as its vote is what the server accepted.
* Session: the account shown is the one the requests are made for.
* Creator's pages: the polls listed are the account's own, and follow what the
  page has closed and deleted; one launch makes one poll; and the form lets
  through what the backend accepts.

## 2. Modules

| Module | Models | Extends |
|---|---|---|
| `VoteService` | `CastVote` for one poll, with MongoDB, Redis, the poll's life and their failures | |
| `MCVoteService` | small instances: settings, devices, requests | `VoteService` |
| `VoteServiceProofs` | theorems | `VoteService`, TLAPS |
| `Hub` | the hub, its clients' pumps, presence, and the end of the vote handlers, for one room | |
| `MCHub`, `HubProofs` | instance, theorems | `Hub` |
| `RateLimiter` | the middleware and its cleanup | |
| `MCRateLimiter`, `RateLimiterProofs` | instance, theorems | `RateLimiter` |
| `KeptStore` | abstract: what a store that saves to a file promises | |
| `LocalStore` | the fallback repositories and `saveToFileLocked` step by step; instantiates `KeptStore` | |
| `MCLocalStore`, `LocalStoreProofs` | instance, theorems | `LocalStore` |
| `LivePage` | a page that shows one poll live: its fetches, `useWebSocket` and every `PollSocket` it makes, and what the server does with their connections | |
| `MCLivePage`, `LivePageProofs` | instance, theorems | `LivePage` |
| `VotingPage` | the voting form in one browser, the voter's token, the accounts, the vote remembered, and a server that looks for a ballot and writes one in two steps | |
| `MCVotingPage`, `VotingPageProofs` | instance, theorems | `VotingPage` |
| `Session` | who is signed in, in one tab, and which page is mounted | |
| `PollDraft` | the creation form as pure operators, and the backend's binding and validator, each side with its own conversions of texts | |
| `Workspace` | a creator's tab: session, list, form, and their requests in flight | `Session`, `PollDraft` |
| `MCWorkspace` | instance | `Workspace` |
| `WorkspaceProofs` | theorems of the session, which carry over to the workspace, and of the workspace | `Workspace` |
| `SumLemmas` | what a sum over a finite set is, for the proofs of `VoteService` and `Workspace` | |

Definitions marked "mutant" in a comment are deliberate faults; no specification
uses them. They show that a property notices the fault it is for.

### VoteService

A run of `CastVote` is an element of `Requests`. `pc[r]` says which call comes
next, `pos[r]` which of its options is being counted, `found[r]` is
`existingVote`, `result[r]` the response under construction.

| Actions | Code |
|---|---|
| `FetchPoll`, `CloseExpired` | fetch, status, expiry and option checks; an expired poll is closed in a second call whose error is ignored |
| `Lookup`, `SecondLookup` | the queries of step 4; which are made depends on the protection and the settings |
| `CreateVote`, `UpdateVote` | step 5; with `"db"` in `Events` the call may fail with or without taking effect |
| `DatabaseError` | a query or write that answers with an error, where the handler returns |
| `RecordVoterHash` | `SADD`, whose answer the code discards |
| `IncrOption`, `IncrTotal`, `LoseIncrement` | the two commands of the `IncrementVote` pipeline, for each option in turn; with `"redis"` the replies may be lost at any point, and the client sends the pipeline again (`Retry`) or gives up |
| `LateOption`, `LateTotal` | Redis executes, command by command, a pipeline the client has given up |
| `ReadTotal`, `ReadOption`, `LoseReplies` | the pipeline of `GetPollResultsFromRedis`, command by command |
| `Aggregate` | the tally from MongoDB when Redis reports no votes, complete or cut short |
| `Publish`, `BroadcastLocal` | the two ways out to the viewers, the first of which may be repeated; `feed` is what was sent last |
| `ClosePoll`, `AutoClose`, `DeletePoll`, `DeleteVotes`, `Expire`, `RestartRedis` | the rest of the program and the environment |

A vote is named by the run that inserted it, so `stored` is a set of requests and
`choice` its `optionIds`. `saw[r]` is a history variable: the collection at the
run's first query. Voter hashes, addresses, accounts and option ids are opaque.
The poll exists and its counters are zero at the start: `InitializePollCounters`
uses `SETNX`, so its order with the first votes, or its loss, makes no difference.
Every query reads the collection atomically (one MongoDB read), and the commands of
one pipeline run in order.

`redis/client.go` leaves go-redis at its defaults: a command or pipeline whose
connection fails is sent again, up to 3 times, whether or not the server has
executed it. `MaxRetries` is that number, `try[r]` the sending a run is at, and
`late` counts the pipelines that were given up and may still be executed, so a
selection may be counted as often as its pipeline was sent. Of the commands that
are not counted, a repeated `SADD` changes nothing and a repeated read reads anew
(`LoseReplies`). A `SADD` or `PUBLISH` that Redis executes after it was given up is
left out: nothing calls `HasVoted`, and a late update is one more way in which older
results reach the viewers after newer ones.

### Hub

One client per connection; a browser that reconnects is another client. `room`
is the map entry of one poll, and a missing entry is an empty room. Each case of
the `select` of `Run` is an action: `Register`, `Unregister`, `Broadcast`. A
client is registered together with the start of its pumps, since nothing before
their first step can tell the difference. `TakeFrame` takes everything that is
queued as one frame, as the inner loop of `WritePump` does when nothing arrives
in between; `WritePumpEnds` covers a missed deadline, a failed ping and the end
after the hub closed the channel. `join` and `leave` are the goroutines that
change the presence set and then broadcast its size. Their fallback when Redis
fails is the size of the room as it was when they were started.

`main` always passes a Redis service with a client, even when the server does not
answer, so the branches for a nil service are dead and not modelled. A publish
is not repeated or delayed by the Redis client: the runs that send results
(`HubViewer`) are those in which Redis answers, and `ViewersEndCurrent` says so. The
subscription is taken to be up from the start, and the relay's own buffer is part
of `redisCh`, which is unbounded but never longer than the results published.
`log`, `got` and `joined` are history variables.

### RateLimiter

`Arrive` is the read of the clock; the critical section is one of `OpenWindow`,
`Count` and `Reject`; `Tick` is the clock, which does not pass `MaxTime` and does
not leave a waiting request behind by more than `MaxLag`. `window[r]` is a
history variable.

### LocalStore and KeptStore

`mem` holds the three maps. An operation changes `mem` and starts a save, with
the mutex held: `OpenTmp` (the temporary file is truncated), `WriteTmp`,
`RemoveFile`, `RenameTmp`, or `WriteFails`. `Crash` may come between any two
steps, `Restart` loads the file, or starts empty without one. `CopyVote`,
`ReadPoll` and `DeletePoll` leave behind what a handler has read, for the
operation it performs later. File operations are atomic and durable in the order
they are made: losing what the operating system had not yet written at a power
failure is not modelled.

`KeptStore` is the abstract specification: operations change `docs`; `Save`
keeps all of it; while a save is due the kept documents may be lost altogether;
`Restart` brings back what is kept. The refinement maps `docs` to `mem`, `kept`
to what a restart would load, and `due` to "a save is under way, or the last one
gave up". That a save in progress may lose *everything* is in the abstract
specification because it is what the code does; section 6 has the consequence.

### LivePage

A `PollSocket` is a record: its poll, `isExplicitlyClosed`, the state of its
WebSocket, whether `reconnectTimer` is set, `reconnectAttempts`, and the messages
that have arrived. `disconnect` leaves nothing of a closed object that is read
again except the flag, so a closed object with no connection is `NoSocket`, and
its name may be used for a later one: a tab makes any number of sockets with few
names.

| Actions | Code |
|---|---|
| `OnOpen`, `OnMessage`, `OnClose`, `TimerFires` | the four handlers of `connect` and the timer of `scheduleReconnect`; `connect` may throw instead of connecting |
| `SocketEffect` | the effect of `useWebSocket`, with the cleanup of the one before |
| `Mount`, `Leave`, `Switch` | a page is mounted, left, or kept while its `:pollId` changes |
| `Answer`, `FetchDone`, `FetchFails` | the server reads poll and results; the page takes the answer, or the failure |
| `Register` | the hub takes an upgraded connection into the room of its poll, at any time after the upgrade |
| `Broadcast` | the hub sends results to everybody in a room, or closes the channel of a client where it is full |

The server is cut down to what a connection meets. Results are told apart by how
many votes they count, and `Answer` and `Broadcast` may bring any of them, new or
old, because overlapping handlers publish and overlapping requests answer in
either order (`VoteService`, `Hub`). `seat` is a connection's place at the hub: none
yet, joined, or evicted, and what is sent before it has joined does not reach it.
`inbox` stands for the channel, the write in progress and what has arrived.

`onerror` only logs, and the browser closes the socket after it: `OnClose`. The
growing delay is an unspecified time. React runs an effect after the render that
made it due: `Pending` says that one is due, and navigation and answers, which
render, wait for it. `failures`, `heard`, `given` and `switched` are history
variables.

### VotingPage

`stores` holds the token in localStorage, the cookie and the legacy key; a token
is a fingerprint and a number, for `getDeviceFingerprint` and the random part.
`VoterId` and `KeepToken` are `getOrCreateVoterId`: the first token found is
compared with the present fingerprint and nothing else is looked at; a new one is
written to localStorage and to the cookie, either of which may refuse it.

| Actions | Code |
|---|---|
| `Open`, `Switch` | the page is mounted (in the same document, or a new one) or its `:pollId` changes |
| `FetchDone`, `FetchFails` | `fetchPoll`: the poll, and the remembered vote of this poll and token |
| `handleOptionSelect`, `handleVoteSubmit`, `ChangeChoice` | the form and "Change your choice" |
| `CheckVote` | the server: poll, status, options, and the voter's ballot looked for, by account where the poll asks for one and by token elsewhere |
| `WriteVote` | the server, later: the ballot created or changed, or not, and the answer, which may be an error although the ballot is there |
| `VoteDone`, `VoteFails` | the answer; localStorage may refuse the write, and then the page reports a failure |
| `ClosePoll`, `ClearStorage`, `ClearCookies`, `ChangePrint`, `Session` | the world around the form: `Session` is a sign-in, a sign-out or another account |

A request whose page was left still runs its callback ("left"), and writes what
it remembers; one whose document is gone, or that timed out, has nobody to answer
("gone") and goes on at the server, where its lookup and its write may lie on either
side of its repeat's. Of `Settings` the fields that the page or the server branch on
are kept, the same for all polls of an instance; `after` is
`showResultsAfterVoting`, without which the page goes back to the form. The lookups
by address, and the protection `strict_ip`, are in `VoteService`. `overlapped` says
that a vote was sent while an earlier one for its poll was still under way at the
server, `estranged` that no store kept the token or that the fingerprint changed.

### Session, PollDraft and Workspace

A token stands for the account it was issued to. `getToken` and `getStoredUser`
look at the current keys and then at those of the older name; `VerifyOk` writes the
user under the *older* key only, as the code does. `verify` is the request of
`AuthProvider`; while it is in flight the guarded pages are not mounted
(`Mounted`). `Route` is the layouts' redirect, `Links` what the mounted page offers.
A form whose page was left stays in `forms` as "left": its answer still signs in
and goes to the dashboard. `overtaken` and `foreign` are history variables that
name the two ways in which page and storage part.

`PollDraft` has no state: an option is one of a few texts, and the options are a
bag because nothing here depends on their order. The texts are assumed to be
finitely many, as strings of bounded length are, and the quick templates to have 2
to `MaxOptions` options each, as the literals in `CreatePollPage.jsx` have (3 to 5).
`Edited` is everything the
controls of the form make of a draft and `validate` the page's check; `Binds` is
what gin's binding lets into a `CreatePollRequest`, `Accepts` what
`ValidateCreatePollRequest` lets through of that.

The two sides convert texts differently, and the model has a function for each.
`Lower` is the page's `toLowerCase`, `GoLower` what Go compares: the text as the JSON
decoder leaves it, trimmed and lowered. "İ" becomes "i" with a combining dot in
JavaScript and "i" in Go, a final sigma becomes "ς" in JavaScript alone, and a lone surrogate
is replaced by the decoder. `GoBlank` are the texts of which only Go's trim leaves
nothing (U+0085). A question is counted in UTF-16 units by the page, in runes by the
binding and in bytes by the validator: "wide" and "narrow" are those the page
sends and the other side refuses. `Plain` drafts have only texts that are the same
to both.

`Workspace` extends both. Each step of the session is taken together with `Follow`,
which mounts the page it leads to or keeps the one there is, or with `Remount`
when the document is loaded anew; `Fresh` is the state a page is mounted with, a
list with its first load already sent. `StartLoad` is `loadDashboardData` or
`fetchPolls`, `GetUserPolls`, `ListDone` and `ListFails` its ends; `Change`,
`ChangePoll` and `ChangeDone` a closing or deletion, whose answer starts another
load; `Launch`, `CreatePoll` and `LaunchDone` a creation; `CallFails` a refusal, a
lost answer or the timeout. The server handles one request at a time, and
`ClosePoll` and `DeletePoll` in one step: what happens inside them is in
`VoteService`.

## 3. Runs

All passing runs are complete explorations. Deadlock is checked in `Workspace`,
where a user can always do something; the other models may stop: requests,
versions, votes, crashes and time are finite, and a program at rest is a legal end.

| Run | Instance | Shows |
|---|---|---|
| `VoteInputs` | 2 requests, 2 options, 4 devices that share a hash, an address or an account, empty, unknown, single, repeated and double selections, all 12 settings, no failures | `TypeOK`, `DuplicateOnlyByRace`, `CountedIsStored`, `ExactAtRest`, `OwnVoteVisible`, `TotalAccounted`, `ReadNeverUndercounts`, and `VoteReachesViewers` under fairness |
| `VoteFaults` | 2 requests of one voter for one option, every protection, no vote changes, all six kinds of event: the poll closes, expires or is deleted, database calls fail, Redis loses replies, executes pipelines late and is sent each at most twice, and restarts once | `DuplicateOnlyByRace`, `CountedIsStored` |
| `RateWindows` | 5 requests, 2 addresses, limit 2, window 2, lag 1, time 0..6 | `TypeOK`, `AtMostTwice`, `RejectedOnlyWhenFull` |
| `StoreFile` | 2 users, 1 poll, 2 votes, 2 choices, 2 crashes, file errors | `TypeOK`, `AlwaysOnDisk`, `ImplementsKeptStore` |
| `HubRoom` | 2 clients, both capacities 1, Redis failures, expiring presence | `TypeOK`, `ChannelsClosedOnce`, `NoGaps` |
| `HubViewer` | 1 client, 2 results one after the other, both capacities 1 | `ConnectedIsPresent`, `ViewersEndCurrent`, and under fairness `EvictedLeaves`, `ResultsArrive` |
| `LivePage` | 2 polls, one of them with results of 0 or 1 votes, 2 sockets, 2 fetches at once, 1 reconnect attempt, a channel of 1 message | `TypeOK`, `NoZombies`, `GivesUpOnlyWhenSpent`, `ResultsMatch`, `LastSentShown`, and under fairness `ReconnectEnds`, `LoadingEnds` |
| `VotingPage` | 2 polls, of 2 options and of 1, 2 settings, 1 fingerprint, 1 token, 2 votes sent, 2 closings or changes of page | `TypeOK`, `KeptVoteWasAccepted`, `MarkedIsAccepted` |
| `VotingTokens` | 1 poll of 2 options, 3 settings of which one asks for an account, 2 accounts, 2 fingerprints, 2 tokens, 2 votes sent, 2 events: storage cleared, fingerprint, account or page changed | `OneBallotPerBrowser` |
| `Workspace` | 2 accounts, 2 polls of which at most 1 exists at first, 2 loads at once, 2 calls, forms of at most 3 options out of 4 texts, of which one lowers to another only in Go and is too long, 1 event of the world around | `TypeOK`, `SessionAgrees`, `ListBelongs`, `AcknowledgedShown`, `PlainAccepted`, `OneLaunchOnePoll` |
| `VoteTwice`, `StoreRestart` | the smallest instances that show it | violations: section 6 |

The properties in words:

* `DuplicateOnlyByRace`: of two stored votes that the protection takes for one
  voter, neither was in the collection when the run of the other first looked.
  Under `smart_fingerprint` the code ignores errors of the second lookup, so with
  database errors the property speaks of the hash alone.
* `CountedIsStored`: while votes are not changed and the poll not deleted, the counter
  of an option is at most its votes in the collection times the number of times a
  pipeline may be sent (1 + `MaxRetries` where Redis fails, else 1), whatever is lost,
  repeated, executed late or restarted.
* `TotalAccounted`, `ExactAtRest`: with no loss, the total is the sum of the
  options except inside a pipeline; at rest, the counters are the collection.
* `OwnVoteVisible`: without Redis losses an answer counts the vote it answers.
* `ReadNeverUndercounts`: a torn read may show too much for an option, never a
  total above the sum of the options.
* `VoteReachesViewers`: a stored vote ends up in some update sent to viewers.
* `ChannelsClosedOnce`: the second close, or a send on a closed channel, that
  would end the process cannot happen.
* `NoGaps`: what a client was sent, has in its frame and has queued is a
  contiguous piece of what the room was sent, from its registration on.
* `ViewersEndCurrent`: when votes are handled one after the other, a viewer who
  has seen results has, once all is quiet, last seen the newest ones, though old
  copies may overtake new ones on the way.
* `EvictedLeaves`, `ResultsArrive`: liveness of eviction and of delivery, which
  includes that the blocked producers of the broadcast channel get through.
* `AtMostTwice`, `RejectedOnlyWhenFull`: both directions of the limiter, with the
  lag between clock and mutex accounted for.
* `AlwaysOnDisk`: unless the last save gave up, the file or the temporary file
  holds every operation that has returned, at every moment.
* `NoZombies`: a `PollSocket` that is not the mounted page's current one has no
  connection and no timer, and is not connecting.
* `GivesUpOnlyWhenSpent`, `ReconnectEnds`: a page stops seeking its connection only
  after all its attempts failed in a row, and until then gets it back.
* `ResultsMatch`: once its socket has delivered results, what a page shows as
  question and as results is of one poll, whatever fetches are still to answer and
  whatever sockets it left. It may be the poll the page has left: a fetch that answers
  late brings back poll and results together, and the socket with them.
* `LastSentShown`: at rest, a page that kept its `:pollId` shows the last results it
  was sent, by its fetch or over its connection. Not more can be said: those may be
  older than what it showed before, and votes that fell into a gap of its connection,
  or before the hub had registered it, are not sent to it.
* `LoadingEnds`: a page that loads ends with a poll or an error, unless its user
  goes on from page to page for ever.
* `KeptVoteWasAccepted`, `MarkedIsAccepted`: what the browser remembers, and what
  the page marks as "Your Vote", is a vote the server accepted, for this poll and
  with these options. The second is stated up to an option clicked while the vote
  was being submitted and to a `:pollId` that changed under the page.
* `OneBallotPerBrowser`: a browser has one ballot in a poll, though answers are
  lost, votes sent again and stores cleared, until its fingerprint changes or no
  store keeps the token; where the poll asks for an account, each account has one,
  whatever becomes of the token. Both hold only while each vote leaves the server
  before the next one is sent: a vote sent again while its first request is still
  between lookup and write is stored twice, as in `VoteTwice`.
* `SessionAgrees`: the account shown is the one whose token the requests carry,
  unless another tab changed the storage, or the user signed in or out while the
  profile was being verified.
* `ListBelongs`: the polls listed are those of the account shown beside them,
  unless the session itself disagrees, or the token was exchanged behind the
  mounted list by the answer to a form that was left.
* `AcknowledgedShown`: a list whose loads have ended shows every closing and
  deletion the page has reported, unless the last load failed or crossed another.
* `PlainAccepted`: what the form lets through the backend accepts, if its question is
  of a length all three counts agree on and its options are texts of at most 100 bytes
  that both sides lower alike and find blank alike.
* `OneLaunchOnePoll`: a form makes one poll and shows it before it can make
  another, unless an answer was lost.

*Why the bounds are enough.* Every race in `CastVote` is between two runs. One retry
is enough for a pipeline to be counted twice, late and in time, and two requests for
one option share a counter. Two
options tell a right counter from a wrong one, and repeated or double selections
are the only inputs that count more than once. Capacities of 1 make a full
channel the normal case; two clients are needed for an eviction to leave somebody
behind, one is enough for the order of what a viewer sees. `HubRoom` carries
viewer counts only (`MaxResults` 0) and `HubViewer` results too. Time 0..6 with a
window of 2 holds three windows and the cleanup of an entry. Two crashes let a
restart begin from what the first one left. A page shows one poll and may still
hear of one other; an older and a newer result of one poll are enough to put the
older last, and a channel of one message is full at once; two sockets are the current one and one that is closing, and
`NoSocket` names are used again; two fetches may answer out of order. One
reconnect attempt has the state before, at and after the limit. A voter's browser
needs two polls to carry something from one to the other, and two votes to send
one again or to overlap; what it does with its token does not depend on the number
of polls (`VotingTokens`). Two accounts are enough for one to see what is the other's, and two
loads to cross. Three options leave room between the least (2) and the limit, at
which the form and the validator must agree; one text that the two sides lower
differently is enough for them to part. Text that is blank to one side alone is in no
run, only in the theorem. The theorems of section 5 do not
depend on any of these numbers.

*Symmetry* is used in runs without temporal properties of liveness, over
requests, clients, object ids, options, fingerprints, accounts and polls, which
the specifications only compare.

## 4. Fairness

`VoteService!FairSpec` asks weak fairness of each run once its request has
arrived: the Go scheduler runs every goroutine that can run, and each call
returns or times out. Requests and the environment are under no obligation.

`Hub!FairSpec` asks weak fairness of each goroutine: of each client's pumps,
registration, unregistration and presence goroutines, of the relay, of the
handlers, and of `Broadcast`. That the three cases of `Run` have a condition each
is justified by `select`, which takes a ready case at random: one that stays ready
is taken with probability one. That a pump leaves a write is
justified by the write deadline, and that a dead connection is noticed by the read
deadline, which pings renew. Nothing is asked of peers or of the expiry of keys.

`LivePage!FairSpec` asks weak fairness of the browser's part: a due effect is run,
a timer that is set fires, a connection
attempt or a closing ends (open or closed), and a fetch ends, with its answer or
by axios' timeout of 30 s (`api.js`). Nobody has to leave, a connection need not ever
succeed, and the server need neither take one into a room nor send anything.

`RateLimiter`, `LocalStore`, `VotingPage` and `Workspace` are checked for safety
only.

## 5. Proofs

Eight modules hold the theorems; each is proved for all values of the constants
that satisfy the module's named assumption (`VoteAssumption`, `HubAssumption`,
`RateAssumption`, `StoreAssumption`, `LiveAssumption`, `VotingAssumption`,
`SessionAssumption`, `DraftAssumption`, `WorkspaceAssumption`), and TLC evaluates
these assumptions in the
runs.

Every invariant that a passing run checks is stated by a theorem here. Each
strengthening below was checked by TLC on an instance before its proof was begun.

**`SumLemmas`.** `TotalAccounted`, `ReadNeverUndercounts` and the options of a form
speak of sums, which the community modules define by a fold over the elements in
an unspecified order. `SumIsCount` proves what that fold returns for every finite
set, without induction over an operator: `Units(f, T)` is the set of pairs of an
element and one of its units, its cardinality satisfies the equation of the fold,
so the fold has a solution and satisfies the equation itself, and a smallest set on
which the two differ would have a smaller one. What the proofs need of sums
(`SumIncrement`, `SumDecrement`, `SumAtLeast`, `SumMonotone`, `SumReindexed`) follows
from the theorems about cardinality.

**`VoteServiceProofs`.** `TypeCorrect` proves `TypeOK` with `Admitted`: a run past
`FetchPoll` has a valid selection, without which the type of `choice` and the
index into the selection cannot be shown. `DuplicatesNeedARace` uses
`DuplicateInv`: what a run saw was written (`SeenIsWritten`); a run at its second
lookup found nothing by the first query (`FirstQueryEmpty`); and a run about to
create, and every vote created, saw no vote of its own voter in its first look
that is still there. The last is the property itself, which is not inductive
alone because it says nothing of a run between its lookup and its insert.
`RedisBoundedByAttempts` uses `CountInv`: the counter of an option, together with the
pipelines for it that Redis may still execute late, is at most the number of `INCR`s
sent (`Sent`: triples of a run, a selection and an attempt at it, made or given up),
and what was sent belongs to a stored vote. A restart of Redis lowers the left side,
a late execution leaves it as it is, and a retry is a new triple.

`TotalsAddUp` and `CountersExact` use `ExactInv`: without losses that bound is an
equality (`CountedExactly`), the total lags the options by the runs between their
two `INCR`s, a run that has gone on to read has sent all of its selections
(`AllSent`), and a stored vote's run has left the steps before the write
(`StoredRunsOn`). At rest the selections sent are then those of the stored votes.
`VotersSeeTheirVote` and `TornReadsOvercount` use `ReadInv`. A read in progress is
compared through `Awaited`: for each option what was read of it, or else what its
counter is now. The total was read first and counters only grow, so it stays at
most the sum of `Awaited`, which at the end is the answer. That no run falls back to
the tally of MongoDB rests on `TotalSeen`: a run that reads has counted something.

**`HubProofs`.** `HubTypeCorrect` bounds both channels. `ClientInv` relates the
steps of a client: not registered means untouched, in the room means registered and
not yet unregistered, and its presence goroutines start in order; `NoPanic` and
`PresentUntilUnregistered` follow from it. `DeliveryHasNoGaps` needs the property
pointwise: `Segment` says that the i-th message of the client's line is the
message at place `joined + i` of the log, which appending, framing and writing
preserve, and `SegmentIsSubSeq` turns it into the `SubSeq` of `NoGaps`.
`ViewersAreCurrent` looks at `Hist`, the room's log followed by what is still in
the broadcast channel. `RelayInv` says that votes are handled in order and that
every published result is at most the last one Redis still has to relay, or, once
there is none, at most the last results of `Hist`: the local copy may come before
or after the relayed one, but a newer vote is handled only when the older is done
and its own copies follow. At rest the log ends with the newest results, and what a
client of the room was sent is, by `DeliveryHasNoGaps`, an end of the log.

**`RateLimiterProofs`.** `RateInv` says that a waiting request read the clock at
most the lag ago, and a passed one is counted in a window about its own time
(`Timely`), that two windows of one address start more than a window's length
apart (`Spaced`), that an entry is the latest window of its address and counts
exactly that window's requests (`Current`), that a window without an entry is
long over (`Forgotten`), and that no window counts more than the limit
(`Capped`). `TwoWindowsAtMost` then
bounds the windows that a stretch of time can meet. `RejectionsAreDue` names, for
a rejected request, the requests its entry counts.

**`LocalStoreProofs`.** `TmpWritten` says that between write and rename the
temporary file is what is in memory; `FileCurrent` relates the file to what was
acknowledged, step by step of the save. With the first, no step leaves a torn
store file (`StoreTypeCorrect`); with both, `DiskHoldsReturned`; and
`LocalStoreImplementsKeptStore` maps each operation to `Operate`, the rename to
`Save`, the removal to `Lose`, `Restart` to `Restart` and every other step to a
stutter.

**`LivePageProofs`.** `LiveInv` has three parts. `Live` says that exactly the
current socket is not closed for good, and that such a socket is open with no
attempts counted, connecting or waiting with as many attempts as failures, or
spent (`Alive`), and that what a connection holds is of its socket's poll; `Heard`
that the results are of that poll as well, once the current socket has delivered,
as long as it is the page's poll: an older fetch brings its poll together with its
results, and when it brings a poll alone the effect is due; `Tab` types the page and
ties each fetch's answer to its address. `LiveTyped`, `OnlyCurrentLives`,
`GivesUpSpent` and `OnePollShown` follow, for any number of polls, sockets, fetches and
attempts. `LastSentReachesPage` adds `SeenInv`: as long as the page keeps its `:pollId`
it has one fetch, which ends before there is a socket, and what it was sent last is
the answer under way or `Latest`: the last of the messages that wait at the current
socket, or, when none waits, what the page shows.

**`VotingPageProofs`.** `KeptIsAccepted` needs that every request whose answer is an
acceptance carries a vote the server accepted. `OneBallot` rests on `OneToken`:
while the fingerprint stays and some store keeps the token, every store, request
and ballot that has a token has the same one, and there is none without a token
in a store. `Apart` then says, while no vote has overlapped another (and, where no
account is asked for, the token was kept), that the ballots of one voter in one poll
are the same one, that the server has at most one vote for a poll under way, and that
one which found no ballot still has none to meet. The second part carries the third
across the writes of others, and the third the first across the write itself; where
accounts are asked for, the token plays no part. `MarkedAccepted` uses `MarkInv`: a page waits for at most one request of its
own, what is selected is then what was sent, and no fetch is under way beside it.

**`WorkspaceProofs`.** First the session alone. `SessionAgrees` is not inductive: a
page load takes its user from one key and its token from another. `SessionInv` adds
that the two current keys are written and wiped together, that without an overtaken
verification a user is stored only beside a token, and that a verification in
flight is of the stored token. `KeepsToSession` shows that every step of the
workspace is a step of the session or leaves it alone, so `SessionAgrees` carries
over (`WorkspaceAgreement`).

Then the pages, each with an invariant on top of `ListInv`: a list that has kept its
token has asked for, read and shown the polls of that token's account alone
(`ListOf`), a request of the mounted page is of that page's kind (`Placed`), a poll
that has a creator keeps it (`Grows`), and a form has 2 to `MaxOptions` options
(`Drafts`).

* `ListOwnership`: `ListBelongs` follows from `ListInv` and `SessionAgrees`.
* `WorkspaceTyped` adds `KindInv`: what is mounted is what `page` and `verify` say.
* `PlainLaunch` is about the form alone: the page's check of a draft with plain texts
  says what the backend's does, for any texts and any two conversions that agree on
  the plain ones.
* `LaunchesAccepted` and `LaunchesOnce` use it and `LaunchInv`: at most one launch waits for
  its answer on the page, the form is locked while it does, and while none is lost
  a poll made and not shown is the one whose answer is on its way.
* `ReportedShown` uses `ToldInv`: what the page was told of has happened at the
  server and stays so, a load that has read since then shows it, and unless two
  loads were in flight together there is one at most. The server's states are
  ordered (`Happened`), which is what lets a report outlive later changes.

**Only model-checked.** Liveness (`VoteReachesViewers`, `EvictedLeaves`,
`ResultsArrive`, `ReconnectEnds`, `LoadingEnds`), because TLAPS does not handle
fairness; and the two violations of section 6, which are counterexamples.

## 6. Where the code and its documentation part

Each with a run whose counterexample shows it:

* `VoteTwice`: two overlapping votes of one account are both stored, where the
  poll form promises "100% duplicate-proof".
* `StoreRestart`: a process that ends between the removal of the store file and
  the rename of its successor comes back without users.

Met while modelling, without a run of their own. In the backend:

* An answer may show more votes for an option than in total: the reads of a
  pipeline interleave with the increments of other handlers.
* The Redis client sends a pipeline again whose answer was lost, so one vote may be
  counted up to four times, and nothing takes the surplus back.
* A changed vote is counted for the new option and stays counted for the old one.
* A vote that fetched an active poll is stored after the poll is closed, and one
  that fetched it before `DeletePoll` leaves a vote without a poll.
* The README says that `SADD` answering 0 rejects a vote at once; the code
  discards that answer and asks MongoDB.
* Two overlapping votes may be published in the opposite order of their results.
* After Redis restarts, the first new vote makes its counters positive and hides
  all older ones; while Redis is down, a poll page reports a total of 0, since
  `GetPollResultsFromRedis` never answers an error.
* "Sliding-window" rate limiting is a fixed window: an address may pass twice the
  limit around a boundary. `AtMostTwice` states that it is never more.
* A client that leaves soon after it came may stay in the presence set, and in
  every viewer count, until the key expires; clients still there after two hours
  without a newcomer are no longer counted.
* `Delete` of the fallback repository answers nil when nothing matched, where
  MongoDB's answers an error.

In the frontend:

* A vote cast while a page is not connected, or not yet registered with the hub after
  its upgrade, is not shown until the next one: nothing is fetched again after a
  reconnect.
* A fetch that answers after its page has gone on to another poll puts the poll that
  was left back as a whole, question, results and socket, under the new address.
* A voter who sends a vote again after a timeout may have two ballots, if the first
  request was still between lookup and write; and a browser whose localStorage and
  cookies both refuse the token is another voter each time it asks for one.
* A `:pollId` that changes under a mounted page leaves the old results, selection
  and remembered vote in place until the new answers come, and for good where the
  new poll has none.
* `LoginPage` looks for `state.from.pathname` and `PublicPollPage` sends `from` as a
  string: after the login a voter lands on the dashboard, not on the poll.
* The answer to `GET /auth/me` that comes after a logout writes the user back, and
  a failure of it signs out whoever has signed in since.
* The answer to a login form that was left signs in behind the mounted page; from
  dashboard to dashboard the list is not loaded again and stays the former
  account's.
* A dashboard load that fails shows an empty list, without an error.
* Two loads of a list that cross may end with the older answer.
* The form counts UTF-16 units and leaves options unlimited; the binding counts a
  title's runes; the validator counts bytes and refuses options over 100.
* The form and the validator lower and trim texts by different rules: options that
  the form takes for different ("İzmir" and "Izmir") or for filled (U+0085) are
  refused as duplicates or as empty.
* "Create another poll" clears question and options, and keeps the settings and the
  duration of the poll before.

## 7. What is not modelled

* Percentages and their rounding, texts, slugs, validation of formats, HTTP
  envelopes: data the properties do not tell apart.
* Analytics, counts and timelines: queries that change nothing.
* More than one process, and in `VoteService` and `Hub` more than one poll: polls
  share only the hub's channels and the rate limiter's map; a second process would
  share MongoDB and Redis, which already take steps of other runs at any moment,
  but its hub and its rate limiter are separate.
* Registration and login at the server (`auth_service.go`), and the ownership checks
  of the poll service as calls of their own (`Workspace` has their outcome): planned.
* Go's own data races: the map of the hub is touched by `Run` alone, those of the
  rate limiter and the fallback repositories under a mutex, and finders return
  copies. The one unsynchronised read met, `CreatePoll` building its answer from
  the document it has handed to the fallback repository, touches that answer only.
* In the frontend: the landing page, the demonstration on made-up data, the
  analytics and account pages, charts, dialogs, toasts, clipboard and sharing, the
  page for an unknown address, search and filter, the statistics and the limit of
  six cards on the dashboard, a poll's settings and duration in the form, the order
  of its options. Each shows what it is given, or is one local toggle.
* The browser's Back and Forward (a page may then be mounted that no link of the
  present one leads to), and other tabs beyond what they do to the storage.
* The honeypot field and the viewer count of the poll pages.
* Configuration, deployment, tests.

## 8. Plan

In order; a new run replaces or joins an existing one so that each still asks a
question of its own.

1. `LiveViewer`: `LivePage` composed with `Hub`, so that the results a page hears are
   those the room was sent, in the order the hub sends them.
2. `Accounts`: registration as a lookup and an insert, with the unique index
   present or absent and with the fallback repository; "an email has one account".
3. `PollService`: ownership, the two repositories' answers to a delete that
   matches nothing, closing and deleting against votes under way (orphaned votes),
   and the poll page's total when Redis fails.
4. `VoteLedger`: an abstract specification of voting (a set of votes and a tally)
   and the refinement of `VoteService` to it in the instances without losses; the
   server of `VotingPage` is a first draft of it.
5. `ResultOrder`: `VoteService` with the room of `Hub`, for the order of results
   when votes overlap, and for publishes the Redis client repeats or delays.
6. Proofs: the refinements of 4 step by step, from `CountInv` and `ExactInv`; the
   safety half of each liveness property, such as that an evicted client's
   reader can always go on; theorems for the modules of 1 to 3.
7. The rounding of percentages as an operator on integers, against its
   definition by fractions.
