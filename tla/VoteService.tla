---------------------------- MODULE VoteService ----------------------------
(***************************************************************************)
(* The CastVote handler of the Go backend, for one poll: concurrent runs   *)
(* of the handler, the poll document, the votes collection, the Redis      *)
(* counters of the poll and the results each run hands to the viewers.     *)
(* Every database or Redis call is a step of its own, because the handler  *)
(* holds no lock across two of them.                                       *)
(***************************************************************************)
EXTENDS Naturals, FiniteSets, Sequences, Functions

CONSTANTS
  Requests,     \* the runs of CastVote, one per HTTP request
  PollOptions,  \* poll.Options: the sequence of the poll's option ids
  Inputs,       \* what clients send: [voter, ip, user, options] records
  SettingsSet,  \* poll settings: [protection, allowChanges, multiple] records
  Events,       \* which events of the environment happen (see EventNames)
  MaxRestarts,  \* bound on the restarts of Redis
  MaxRetries,   \* how often the Redis client repeats a pipeline (default 3)
  MaxSelections, \* bound on the number of option ids in a request
  None          \* no vote found, no IP, no user; also an unknown option id

EventNames == {"close", "expire", "delete", "db", "redis", "restart"}
Protections == {"require_account", "strict_ip", "smart_fingerprint"}
Options == Range(PollOptions)

ASSUME VoteAssumption ==
  /\ IsFiniteSet(Requests) /\ None \notin Requests
  /\ PollOptions \in Seq(Options) /\ IsInjective(PollOptions)
  /\ None \notin Options
  /\ \A x \in Inputs : /\ x.options \in Seq(Options \cup {None})
                       /\ Len(x.options) <= MaxSelections
  /\ \A s \in SettingsSet : /\ s.protection \in Protections
                            /\ s.allowChanges \in BOOLEAN
                            /\ s.multiple \in BOOLEAN
  /\ Events \subseteq EventNames
  /\ "restart" \in Events => "redis" \in Events
  /\ MaxRestarts \in Nat /\ MaxRetries \in Nat /\ MaxSelections \in Nat

VARIABLES
  settings,    \* poll.Settings, never changed once the poll exists
  req,         \* the request body and client address of each run
  poll,        \* status of the poll document: "active", "closed", "deleted"
  expired,     \* the clock has passed poll.ExpiresAt
  deleting,    \* DeletePoll has removed the poll but not yet its votes
  stored,      \* the votes collection; a vote is named by the run that made it
  choice,      \* optionIds of each vote
  redisVotes,  \* poll:{id}:votes:{option}
  redisTotal,  \* poll:{id}:total_votes
  redisVoters, \* poll:{id}:voters
  late,        \* pipelines the client gave up and Redis may still execute, by
               \* their next command: INCR of an option, None for the total
  restarts,    \* how often Redis came back empty
  pc,          \* the step each run is at
  pos,         \* index in req.OptionIDs of the selection to count next
  try,         \* how often its pipeline has been sent, this time included
  found,       \* existingVote of each run
  saw,         \* history: the votes collection at the run's first lookup
  result,      \* the PollResultsResponse each run computes
  feed         \* the last results sent towards the viewers of the poll

input   == <<settings, req>>
store   == <<poll, expired, deleting, stored, choice>>
cache   == <<redisVotes, redisTotal, redisVoters, late, restarts>>
handler == <<pos, try, found, saw, result>>
vars    == <<input, store, cache, pc, handler, feed>>

Steps == {"idle", "expire", "lookup", "lookup2", "store", "voter", "incr",
          "incrTotal", "readTotal", "readOption", "aggregate", "publish",
          "broadcast", "done", "rejected", "failed"}
Finished == {"done", "rejected", "failed"}

Goto(r, step) == pc' = [pc EXCEPT ![r] = step]

NoResult == [total |-> 0, votes |-> <<>>]

Init ==
  /\ settings \in SettingsSet
  /\ req \in [Requests -> Inputs]
  /\ poll = "active" /\ expired = FALSE /\ deleting = FALSE
  /\ stored = {} /\ choice = [r \in Requests |-> <<>>]
  /\ redisVotes = [o \in Options |-> 0] /\ redisTotal = 0
  /\ redisVoters = {} /\ restarts = 0
  /\ late = [c \in Options \cup {None} |-> 0]
  /\ pc = [r \in Requests |-> "idle"] /\ pos = [r \in Requests |-> 1]
  /\ try = [r \in Requests |-> 1]
  /\ found = [r \in Requests |-> None] /\ saw = [r \in Requests |-> {}]
  /\ result = [r \in Requests |-> NoResult] /\ feed = NoResult

-----------------------------------------------------------------------------
(* Steps 1-3 of CastVote: fetch the poll, check its status, its expiry and  *)
(* the selected options.                                                    *)

AnyOptionIds(r) ==  \* mutant: the ids are not compared with the poll's options
  /\ req[r].options # <<>>
  /\ settings.multiple \/ Len(req[r].options) = 1

ValidSelection(r) ==
  LET chosen == req[r].options IN
  /\ chosen # <<>>
  /\ settings.multiple \/ Len(chosen) = 1
  /\ Range(chosen) \subseteq Options

Eligible(r) == settings.protection = "require_account" => req[r].user # None

FetchPoll(r) ==
  /\ pc[r] = "idle"
  /\ \/ /\ poll = "active" /\ expired
        /\ Goto(r, "expire")
     \/ /\ poll = "active" /\ ~expired /\ ValidSelection(r) /\ Eligible(r)
        /\ Goto(r, "lookup")
     \/ /\ poll = "active" => ~expired /\ ~(ValidSelection(r) /\ Eligible(r))
        /\ Goto(r, "rejected")
  /\ UNCHANGED <<input, store, cache, handler, feed>>

(* UpdateStatus("closed") on an expired poll; its error is ignored.         *)
CloseExpired(r) ==
  /\ pc[r] = "expire"
  /\ \/ poll' = IF poll = "active" THEN "closed" ELSE poll
     \/ "db" \in Events /\ poll' = poll
  /\ Goto(r, "rejected")
  /\ UNCHANGED <<input, expired, deleting, stored, choice, cache, handler, feed>>

-----------------------------------------------------------------------------
(* Step 4: the duplicate check, one or two queries of the votes collection. *)

ByUser(r)  == {v \in stored : req[v].user = req[r].user}
ByIPHash(r) == {v \in stored : req[v].ip = req[r].ip}
ByVoterHash(r) == {v \in stored : req[v].voter = req[r].voter}

FirstMatches(r) ==
  CASE settings.protection = "require_account" -> ByUser(r)
    [] settings.protection = "strict_ip" /\ req[r].ip # None -> ByIPHash(r)
    [] OTHER -> ByVoterHash(r)

NeedsSecondLookup(r) ==
  /\ settings.protection # "require_account" /\ req[r].ip # None
  /\ settings.protection = "strict_ip" \/ ~settings.allowChanges

SameQueryAgain(r) == ByVoterHash(r)  \* mutant: the hash is looked for twice

SecondMatches(r) ==
  IF settings.protection = "strict_ip" THEN ByVoterHash(r) ELSE ByIPHash(r)

CountBeforeReject(r, matches) ==  \* mutant: the duplicate is counted in Redis
  \E v \in matches :
    /\ found' = [found EXCEPT ![r] = v]
    /\ Goto(r, IF settings.allowChanges THEN "store" ELSE "voter")

(* A vote was found: a change if the poll allows it, else a rejection.      *)
Existing(r, matches) ==
  \E v \in matches :
    /\ found' = [found EXCEPT ![r] = v]
    /\ Goto(r, IF settings.allowChanges THEN "store" ELSE "rejected")

LookupFailsOpen(r) ==  \* mutant: an error of the first query is ignored as well
  /\ pc[r] = "lookup"
  /\ saw' = [saw EXCEPT ![r] = stored]
  /\ \/ Existing(r, FirstMatches(r))
     \/ /\ FirstMatches(r) = {} \/ "db" \in Events
        /\ Goto(r, IF NeedsSecondLookup(r) THEN "lookup2" ELSE "store")
        /\ UNCHANGED found
  /\ UNCHANGED <<input, store, cache, pos, try, result, feed>>

Lookup(r) ==
  /\ pc[r] = "lookup"
  /\ saw' = [saw EXCEPT ![r] = stored]
  /\ \/ Existing(r, FirstMatches(r))
     \/ /\ FirstMatches(r) = {}
        /\ Goto(r, IF NeedsSecondLookup(r) THEN "lookup2" ELSE "store")
        /\ UNCHANGED found
  /\ UNCHANGED <<input, store, cache, pos, try, result, feed>>

(* Under smart_fingerprint the error of the second query is ignored.        *)
SecondLookup(r) ==
  /\ pc[r] = "lookup2"
  /\ \/ Existing(r, SecondMatches(r))
     \/ /\ \/ SecondMatches(r) = {}
           \/ "db" \in Events /\ settings.protection = "smart_fingerprint"
        /\ Goto(r, "store")
        /\ UNCHANGED found
  /\ UNCHANGED <<input, store, cache, pos, try, saw, result, feed>>

-----------------------------------------------------------------------------
(* Step 5: voteRepo.Create and voteRepo.Update. A write whose answer is     *)
(* lost (timeout, request context cancelled) may still have been applied.   *)

Acknowledged(r) ==
  \/ Goto(r, "voter")
  \/ "db" \in Events /\ Goto(r, "rejected")

CreateVote(r) ==
  /\ pc[r] = "store" /\ found[r] = None
  /\ stored' = stored \cup {r}
  /\ choice' = [choice EXCEPT ![r] = req[r].options]
  /\ Acknowledged(r)
  /\ UNCHANGED <<input, poll, expired, deleting, cache, handler, feed>>

(* UpdateOne changes nothing when the vote was deleted in the meantime.     *)
UpdateVote(r) ==
  /\ pc[r] = "store" /\ found[r] # None
  /\ choice' = IF found[r] \in stored
               THEN [choice EXCEPT ![found[r]] = req[r].options] ELSE choice
  /\ Acknowledged(r)
  /\ UNCHANGED <<input, poll, expired, deleting, stored, cache, handler, feed>>

(* A query or a write that fails with nothing written.                      *)
DatabaseError(r) ==
  /\ "db" \in Events
  /\ \/ /\ \/ pc[r] \in {"idle", "lookup", "store"}
           \/ pc[r] = "lookup2" /\ settings.protection = "strict_ip"
        /\ Goto(r, "rejected")
     \/ pc[r] = "aggregate" /\ Goto(r, "failed")
  /\ UNCHANGED <<input, store, cache, handler, feed>>

-----------------------------------------------------------------------------
(* Step 6: SADD of the voter hash, its answer ignored, and one pipeline     *)
(* INCR option; INCR total per selection. The pipeline is not a             *)
(* transaction: Redis serves other clients between its two commands. When   *)
(* the replies do not come, the client drops the connection and sends the   *)
(* whole pipeline again, at most MaxRetries times, whether or not Redis has *)
(* executed it; what it dropped Redis may execute later, or never.          *)

SkipKnownVoter(r) ==  \* mutant: a hash that SADD knows is not counted again
  /\ pc[r] = "voter"
  /\ redisVoters' = redisVoters \cup {req[r].voter}
  /\ Goto(r, IF req[r].voter \in redisVoters THEN "readTotal" ELSE "incr")
  /\ UNCHANGED <<input, store, redisVotes, redisTotal, late, restarts,
                 handler, feed>>

RecordVoterHash(r) ==
  /\ pc[r] = "voter"
  /\ \/ redisVoters' = redisVoters \cup {req[r].voter}
     \/ "redis" \in Events /\ redisVoters' = redisVoters
  /\ Goto(r, "incr")
  /\ UNCHANGED <<input, store, redisVotes, redisTotal, late, restarts,
                 handler, feed>>

Attempts == IF "redis" \in Events THEN MaxRetries + 1 ELSE 1

(* The loop over req.OptionIDs moves to its next selection, or ends.        *)
NextSelection(r) ==
  /\ pos' = [pos EXCEPT ![r] = @ + 1]
  /\ try' = [try EXCEPT ![r] = 1]
  /\ Goto(r, IF pos[r] < Len(req[r].options) THEN "incr" ELSE "readTotal")

RetryForever(r) ==  \* mutant: a loop around Exec that does not count its rounds
  /\ "redis" \in Events
  /\ Goto(r, "incr")
  /\ UNCHANGED <<pos, try>>

Retry(r) ==
  /\ "redis" \in Events /\ try[r] < Attempts
  /\ try' = [try EXCEPT ![r] = @ + 1]
  /\ Goto(r, "incr")
  /\ UNCHANGED pos

IncrOption(r) ==
  /\ pc[r] = "incr"
  /\ redisVotes' = [redisVotes EXCEPT ![req[r].options[pos[r]]] = @ + 1]
  /\ Goto(r, "incrTotal")
  /\ UNCHANGED <<input, store, redisTotal, redisVoters, late, restarts,
                 handler, feed>>

IncrTotalPerVote(r) ==  \* mutant: the total counts votes, not selections
  /\ pc[r] = "incrTotal"
  /\ redisTotal' = IF pos[r] = 1 THEN redisTotal + 1 ELSE redisTotal
  /\ NextSelection(r)
  /\ UNCHANGED <<input, store, redisVotes, redisVoters, late, restarts,
                 found, saw, result, feed>>

(* The replies of a pipeline executed to its end may be lost as well.       *)
IncrTotal(r) ==
  /\ pc[r] = "incrTotal"
  /\ redisTotal' = redisTotal + 1
  /\ NextSelection(r) \/ Retry(r)
  /\ UNCHANGED <<input, store, redisVotes, redisVoters, late, restarts,
                 found, saw, result, feed>>

(* The client drops the connection before Redis has executed the pipeline.  *)
LoseIncrement(r) ==
  /\ "redis" \in Events
  /\ \/ /\ pc[r] = "incr"
        /\ late' = [late EXCEPT ![req[r].options[pos[r]]] = @ + 1]
     \/ /\ pc[r] = "incrTotal"
        /\ late' = [late EXCEPT ![None] = @ + 1]
  /\ NextSelection(r) \/ Retry(r)
  /\ UNCHANGED <<input, store, redisVotes, redisTotal, redisVoters, restarts,
                 found, saw, result, feed>>

(* Redis executes the next command of a pipeline that was given up.         *)
LateOption(o) ==
  /\ late[o] > 0
  /\ redisVotes' = [redisVotes EXCEPT ![o] = @ + 1]
  /\ late' = [late EXCEPT ![o] = @ - 1, ![None] = @ + 1]
  /\ UNCHANGED <<input, store, redisTotal, redisVoters, restarts, pc, handler, feed>>

LateTotal ==
  /\ late[None] > 0
  /\ redisTotal' = redisTotal + 1
  /\ late' = [late EXCEPT ![None] = @ - 1]
  /\ UNCHANGED <<input, store, redisVotes, redisVoters, restarts, pc, handler, feed>>

-----------------------------------------------------------------------------
(* Step 7, calculateResults: GET total, then GET each option in order, a    *)
(* pipeline again; when the total is 0, or unreadable, the tallies of the   *)
(* votes collection instead.                                                *)

ReadTotal(r) ==
  /\ pc[r] = "readTotal"
  /\ \/ /\ redisTotal > 0
        /\ result' = [result EXCEPT ![r] = [total |-> redisTotal, votes |-> <<>>]]
        /\ Goto(r, "readOption")
     \/ /\ redisTotal = 0 \/ "redis" \in Events
        /\ Goto(r, "aggregate")
        /\ UNCHANGED result
  /\ UNCHANGED <<input, store, cache, pos, try, found, saw, feed>>

ReadTotalLast(r) ==  \* mutant: the total is read after the options
  LET i == Len(result[r].votes) + 1 IN
  /\ pc[r] = "readOption" /\ i <= Len(PollOptions)
  /\ result' = [result EXCEPT ![r] =
       [total |-> redisTotal, votes |-> Append(@.votes, redisVotes[PollOptions[i]])]]
  /\ Goto(r, IF i < Len(PollOptions) THEN "readOption" ELSE "publish")
  /\ UNCHANGED <<input, store, cache, pos, try, found, saw, feed>>

ReadOption(r) ==
  LET i == Len(result[r].votes) + 1 IN
  /\ pc[r] = "readOption" /\ i <= Len(PollOptions)
  /\ result' = [result EXCEPT ![r].votes = Append(@, redisVotes[PollOptions[i]])]
  /\ Goto(r, IF i < Len(PollOptions) THEN "readOption" ELSE "publish")
  /\ UNCHANGED <<input, store, cache, pos, try, found, saw, feed>>

(* The connection fails: the client reads everything again, or, after its   *)
(* last attempt, this reply and those after it are taken for 0.             *)
LoseReplies(r) ==
  /\ "redis" \in Events /\ pc[r] = "readOption"
  /\ \/ /\ result' = [result EXCEPT ![r] = NoResult]
        /\ Goto(r, "readTotal")
     \/ /\ result' = [result EXCEPT ![r].votes =
             [i \in DOMAIN PollOptions |-> IF i <= Len(@) THEN @[i] ELSE 0]]
        /\ Goto(r, "publish")
  /\ UNCHANGED <<input, store, cache, pos, try, found, saw, feed>>

(* AggregateOptionVotes: unwind the optionIds of the votes and count those  *)
(* that are in opts.                                                        *)
StoredSelections(opts) ==
  {t \in stored \X (1..MaxSelections) :
     t[2] <= Len(choice[t[1]]) /\ choice[t[1]][t[2]] \in opts}

Tally(o) == Cardinality(StoredSelections({o}))

(* The error of the cursor is not looked at: the groups read before it      *)
(* broke are taken for all of them.                                         *)
Aggregate(r) ==
  /\ pc[r] = "aggregate"
  /\ \E read \in IF "db" \in Events THEN SUBSET Options ELSE {Options} :
       result' = [result EXCEPT ![r] =
         [total |-> Cardinality(StoredSelections(read)),
          votes |-> [i \in DOMAIN PollOptions |->
                       IF PollOptions[i] \in read THEN Tally(PollOptions[i]) ELSE 0]]]
  /\ Goto(r, "publish")
  /\ UNCHANGED <<input, store, cache, pos, try, found, saw, feed>>

-----------------------------------------------------------------------------
(* Steps 8 and 9: PUBLISH the results, its error only logged, then hand     *)
(* them to the local hub. A PUBLISH without an answer is sent again.        *)

ReturnEarly(r) ==  \* mutant: the handler returns before it publishes
  /\ pc[r] = "publish"
  /\ Goto(r, "done")
  /\ UNCHANGED <<input, store, cache, handler, feed>>

Publish(r) ==
  /\ pc[r] = "publish"
  /\ \/ feed' = result[r] /\ Goto(r, "broadcast")
     \/ "redis" \in Events /\ feed' = result[r] /\ Goto(r, "publish")
     \/ "redis" \in Events /\ feed' = feed /\ Goto(r, "broadcast")
  /\ UNCHANGED <<input, store, cache, handler>>

BroadcastLocal(r) ==
  /\ pc[r] = "broadcast"
  /\ feed' = result[r]
  /\ Goto(r, "done")
  /\ UNCHANGED <<input, store, cache, handler>>

-----------------------------------------------------------------------------
(* The rest of the program and its environment, as this poll sees them.     *)

(* ClosePoll by the owner.                                                  *)
ClosePoll ==
  /\ "close" \in Events /\ poll = "active"
  /\ poll' = "closed"
  /\ UNCHANGED <<input, expired, deleting, stored, choice, cache, pc, handler, feed>>

Expire ==
  /\ "expire" \in Events /\ ~expired
  /\ expired' = TRUE
  /\ UNCHANGED <<input, poll, deleting, stored, choice, cache, pc, handler, feed>>

(* GetPollByIDOrSlug closes an expired poll when somebody reads it.         *)
AutoClose ==
  /\ poll = "active" /\ expired
  /\ poll' = "closed"
  /\ UNCHANGED <<input, expired, deleting, stored, choice, cache, pc, handler, feed>>

(* DeletePoll: the poll document, then, in a second call whose error is     *)
(* ignored, its votes. The Redis keys stay.                                 *)
DeletePoll ==
  /\ "delete" \in Events /\ poll # "deleted"
  /\ poll' = "deleted" /\ deleting' = TRUE
  /\ UNCHANGED <<input, expired, stored, choice, cache, pc, handler, feed>>

DeleteVotes ==
  /\ deleting
  /\ deleting' = FALSE
  /\ \/ stored' = {}
     \/ "db" \in Events /\ stored' = stored
  /\ UNCHANGED <<input, poll, expired, choice, cache, pc, handler, feed>>

(* Redis restarts without its data; the pipelines it was executing or had   *)
(* not executed yet are gone.                                               *)
RestartRedis ==
  /\ "restart" \in Events /\ restarts < MaxRestarts
  /\ \A r \in Requests : pc[r] \notin {"incrTotal", "readOption"}
  /\ restarts' = restarts + 1
  /\ redisVotes' = [o \in Options |-> 0] /\ redisTotal' = 0
  /\ redisVoters' = {} /\ late' = [c \in Options \cup {None} |-> 0]
  /\ UNCHANGED <<input, store, pc, handler, feed>>

CastVote(r) ==
  \/ FetchPoll(r) \/ CloseExpired(r) \/ Lookup(r) \/ SecondLookup(r)
  \/ CreateVote(r) \/ UpdateVote(r) \/ DatabaseError(r)
  \/ RecordVoterHash(r) \/ IncrOption(r) \/ IncrTotal(r) \/ LoseIncrement(r)
  \/ ReadTotal(r) \/ ReadOption(r) \/ LoseReplies(r) \/ Aggregate(r)
  \/ Publish(r) \/ BroadcastLocal(r)

Environment ==
  \/ ClosePoll \/ Expire \/ AutoClose \/ DeletePoll \/ DeleteVotes \/ RestartRedis
  \/ LateTotal \/ \E o \in Options : LateOption(o)

Next == Environment \/ \E r \in Requests : CastVote(r)

Spec == Init /\ [][Next]_vars

(* Go runs every handler that can run; requests come when they come.        *)
FairSpec == Spec /\ \A r \in Requests : WF_vars(pc[r] # "idle" /\ CastVote(r))

-----------------------------------------------------------------------------
(* Properties.                                                              *)

(* Every value a variable of the handler, the collections and Redis can     *)
(* take; in particular a run past the checks carries a valid selection.     *)
TypeOK ==
  /\ settings \in SettingsSet /\ req \in [Requests -> Inputs]
  /\ poll \in {"active", "closed", "deleted"}
  /\ expired \in BOOLEAN /\ deleting \in BOOLEAN
  /\ stored \subseteq Requests /\ choice \in [Requests -> Seq(Options)]
  /\ redisVotes \in [Options -> Nat] /\ redisTotal \in Nat /\ restarts \in Nat
  /\ redisVoters \subseteq {x.voter : x \in Inputs}
  /\ late \in [Options \cup {None} -> Nat]
  /\ pc \in [Requests -> Steps] /\ pos \in [Requests -> Nat \ {0}]
  /\ try \in [Requests -> Nat \ {0}] /\ \A r \in Requests : try[r] <= Attempts
  /\ found \in [Requests -> Requests \cup {None}]
  /\ saw \in [Requests -> SUBSET Requests]
  /\ result \in [Requests -> [total : Nat, votes : Seq(Nat)]]
  /\ feed \in [total : Nat, votes : Seq(Nat)]

InFlight(r) == pc[r] \notin Finished \cup {"idle"}
AtRest == \A r \in Requests : ~InFlight(r)
Answered(r) == pc[r] \in {"publish", "broadcast", "done"}
LossFree == Events \cap {"redis", "restart"} = {}

(* Two votes the poll's protection should take for one voter. Under         *)
(* smart_fingerprint the IP query fails open, so with database errors it    *)
(* promises nothing.                                                        *)
SameVoter(v, w) ==
  LET sameIP == req[v].ip = req[w].ip /\ req[w].ip # None IN
  CASE settings.protection = "require_account" -> req[v].user = req[w].user
    [] settings.protection = "strict_ip" -> sameIP \/ req[v].voter = req[w].voter
    [] OTHER -> \/ req[v].voter = req[w].voter
                \/ sameIP /\ ~settings.allowChanges /\ "db" \notin Events

(* The duplicate check of CastVote (step 4) is exact up to concurrency: of  *)
(* two stored votes of one voter, neither was in the collection when the    *)
(* run of the other began to look.                                          *)
DuplicateOnlyByRace ==
  \A v, w \in stored : v # w /\ SameVoter(v, w) => v \notin saw[w]

(* Redis never runs further ahead of MongoDB than the client's attempts can *)
(* take it: while votes are neither changed nor deleted, the counter of an  *)
(* option counts each selection of that option in the votes collection at   *)
(* most once per attempt, so at most once when no reply of Redis is lost.   *)
CountedIsStored ==
  ~settings.allowChanges /\ poll # "deleted" =>
    \A o \in Options : redisVotes[o] <= Attempts * Tally(o)

(* With nothing lost, every INCR of the total has its INCR of an option,    *)
(* the pipelines between their two commands aside.                          *)
TotalAccounted ==
  LossFree =>
    redisTotal + Cardinality({r \in Requests : pc[r] = "incrTotal"})
      = SumFunction(redisVotes)

(* With nothing lost or failed, once no run is in flight the counters agree *)
(* with the votes collection, option by option.                             *)
ExactAtRest ==
  LossFree /\ "db" \notin Events /\ ~settings.allowChanges
    /\ poll # "deleted" /\ AtRest =>
      \A o \in Options : redisVotes[o] = Tally(o)

(* The results a run answers with count the selections it just made, even   *)
(* though other runs count theirs meanwhile and the poll may be deleted.    *)
OwnVoteVisible ==
  LossFree => \A r \in Requests : Answered(r) =>
    \A i \in DOMAIN PollOptions :
      PollOptions[i] \in Range(req[r].options) => result[r].votes[i] >= 1

(* GetPollResultsFromRedis reads the total first: a read torn by other runs *)
(* can only make the options add up to more than the total, never to less.  *)
ReadNeverUndercounts ==
  LossFree => \A r \in Requests : Answered(r) =>
    result[r].total <= SumFunction(result[r].votes)

(* A run that has written its vote gets it to the viewers: some update that *)
(* counts it is sent.                                                       *)
VoteReachesViewers ==
  \A r \in Requests : pc[r] = "voter" ~>
    feed.votes # <<>> /\ \A i \in DOMAIN PollOptions :
      PollOptions[i] \in Range(req[r].options) => feed.votes[i] >= 1

-----------------------------------------------------------------------------
(* What the documentation says and the code does not do.                    *)

(* "100% duplicate-proof" voting with a verified account.                   *)
OneVotePerAccount ==
  settings.protection = "require_account" =>
    \A v, w \in stored : req[v].user = req[w].user => v = w
=============================================================================
