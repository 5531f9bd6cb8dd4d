------------------------- MODULE VoteServiceProofs -------------------------
(***************************************************************************)
(* Proofs about VoteService, for any number of handler runs, any inputs,   *)
(* any settings and any mixture of failures.                               *)
(***************************************************************************)
EXTENDS VoteService, SumLemmas, SequenceTheorems

Unchecked == {"idle", "expire", "rejected"}
Unstored  == {"idle", "expire", "lookup", "lookup2", "store"}
Uncounted == Unstored \cup {"voter", "rejected"}

-----------------------------------------------------------------------------
(* Type correctness.                                                        *)

(* A run that passed the checks of FetchPoll carries option ids of the poll.*)
Admitted == \A r \in Requests : pc[r] \notin Unchecked => ValidSelection(r)

TypeInv == TypeOK /\ Admitted

LEMMA PollOptionsType ==
  /\ DOMAIN PollOptions = 1..Len(PollOptions) /\ Len(PollOptions) \in Nat
  /\ \A i \in DOMAIN PollOptions : PollOptions[i] \in Options
BY VoteAssumption, LenProperties DEF Options, Range

(* A request's option ids form a sequence of bounded length.                *)
LEMMA InputType ==
  ASSUME TypeOK, NEW r \in Requests
  PROVE  /\ req[r].options \in Seq(Options \cup {None})
         /\ Len(req[r].options) \in Nat /\ Len(req[r].options) <= MaxSelections
         /\ DOMAIN req[r].options = 1..Len(req[r].options)
         /\ req[r].voter \in {x.voter : x \in Inputs}
<1>1. req[r] \in Inputs
  BY DEF TypeOK
<1>2. req[r].options \in Seq(Options \cup {None}) /\ Len(req[r].options) <= MaxSelections
  BY <1>1, VoteAssumption
<1> QED BY <1>1, <1>2, LenProperties

(* The option ids of a request that passed the checks.                      *)
LEMMA SelectionType ==
  ASSUME TypeOK, NEW r \in Requests, ValidSelection(r)
  PROVE  /\ req[r].options \in Seq(Options) /\ Len(req[r].options) >= 1
         /\ \A i \in 1..Len(req[r].options) : req[r].options[i] \in Options
<1> DEFINE chosen == req[r].options
<1>1. chosen \in Seq(Options \cup {None}) /\ chosen # <<>>
      /\ Range(chosen) \subseteq Options
  BY InputType DEF ValidSelection
<1>2. /\ chosen \in [1..Len(chosen) -> Options \cup {None}]
      /\ Len(chosen) \in Nat \ {0} /\ DOMAIN chosen = 1..Len(chosen)
  BY <1>1, LenProperties, EmptySeq
<1>3. \A i \in 1..Len(chosen) : chosen[i] \in Options
  BY <1>1, <1>2 DEF Range
<1>4. chosen \in [1..Len(chosen) -> Options]
  BY <1>2, <1>3
<1>5. chosen \in Seq(Options)
  BY <1>2, <1>4, SeqDef
<1> QED BY <1>2, <1>3, <1>5

(* The tallies of the votes collection are natural numbers.                 *)
LEMMA TallyType ==
  ASSUME TypeOK, NEW opts
  PROVE  /\ IsFiniteSet(StoredSelections(opts))
         /\ Cardinality(StoredSelections(opts)) \in Nat
<1>1. IsFiniteSet(stored)
  BY VoteAssumption, FS_Subset DEF TypeOK
<1>2. 1 \in Int /\ MaxSelections \in Int
  BY VoteAssumption
<1>3. IsFiniteSet(1..MaxSelections)
  BY <1>2, FS_Interval
<1>4. IsFiniteSet(stored \X (1..MaxSelections))
  BY <1>1, <1>3, FS_Product
<1>5. IsFiniteSet(StoredSelections(opts))
  BY <1>4, FS_Subset DEF StoredSelections
<1> QED BY <1>5, FS_CardinalityType

(* The number of attempts is positive, and one while Redis loses nothing.   *)
LEMMA AttemptsType ==
  /\ Attempts \in Nat \ {0} /\ 1 \in 1..Attempts
  /\ LossFree => Attempts = 1
BY VoteAssumption DEF Attempts, LossFree

LEMMA TypeInit == Init => TypeInv
<1> SUFFICES ASSUME Init PROVE TypeInv
  OBVIOUS
<1>1. \A S : <<>> \in Seq(S)
  BY EmptySeq
<1>2. NoResult \in [total : Nat, votes : Seq(Nat)]
  BY <1>1 DEF NoResult
<1>3. /\ result \in [Requests -> [total : Nat, votes : Seq(Nat)]]
      /\ feed \in [total : Nat, votes : Seq(Nat)]
      /\ choice \in [Requests -> Seq(Options)]
  BY <1>1, <1>2 DEF Init
<1>4. TypeOK
  <2>1. /\ settings \in SettingsSet /\ req \in [Requests -> Inputs]
        /\ poll \in {"active", "closed", "deleted"}
        /\ expired \in BOOLEAN /\ deleting \in BOOLEAN
    BY DEF Init
  <2>2. /\ stored \subseteq Requests
        /\ redisVotes \in [Options -> Nat] /\ redisTotal \in Nat /\ restarts \in Nat
        /\ redisVoters \subseteq {x.voter : x \in Inputs}
        /\ late \in [Options \cup {None} -> Nat]
    BY DEF Init
  <2>3. /\ pc \in [Requests -> Steps] /\ pos \in [Requests -> Nat \ {0}]
        /\ try \in [Requests -> Nat \ {0}] /\ \A r \in Requests : try[r] <= Attempts
    BY AttemptsType DEF Init, Steps
  <2>4. /\ found \in [Requests -> Requests \cup {None}]
        /\ saw \in [Requests -> SUBSET Requests]
    BY DEF Init
  <2> QED BY <1>3, <2>1, <2>2, <2>3, <2>4 DEF TypeOK
<1>5. Admitted
  BY DEF Init, Admitted, Unchecked
<1> QED BY <1>4, <1>5 DEF TypeInv

(* Moving a run to another step keeps the type of pc, and keeps Admitted    *)
(* when the run carries a valid selection or has been turned away.          *)
LEMMA GotoType ==
  ASSUME TypeInv, NEW r \in Requests, NEW step \in Steps, Goto(r, step),
         UNCHANGED input, step \in Unchecked \/ ValidSelection(r)
  PROVE  pc' \in [Requests -> Steps] /\ Admitted'
<1>1. pc' \in [Requests -> Steps]
  BY DEF TypeInv, TypeOK, Goto
<1>2. \A x \in Requests : ValidSelection(x)' <=> ValidSelection(x)
  BY DEF ValidSelection, input
<1>3. ASSUME NEW x \in Requests, pc'[x] \notin Unchecked
      PROVE  ValidSelection(x)
  BY <1>3 DEF TypeInv, TypeOK, Admitted, Goto
<1> QED BY <1>1, <1>2, <1>3 DEF Admitted

(* A run past the checks: its selection is valid, wherever it goes.         *)
LEMMA MoveType ==
  ASSUME TypeInv, NEW r \in Requests, pc[r] \notin Unchecked,
         NEW step \in Steps, Goto(r, step), UNCHANGED input
  PROVE  pc' \in [Requests -> Steps] /\ Admitted'
<1>1. ValidSelection(r)
  BY DEF TypeInv, Admitted
<1> QED BY <1>1, GotoType

(* The end of a pipeline: the next selection, or another attempt.           *)
AttemptOK == try \in [Requests -> Nat \ {0}] /\ \A r \in Requests : try[r] <= Attempts

LEMMA PipelineEndType ==
  ASSUME TypeInv, NEW r \in Requests, pc[r] \in {"incr", "incrTotal"},
         NextSelection(r) \/ Retry(r), UNCHANGED input
  PROVE  /\ pc' \in [Requests -> Steps] /\ Admitted'
         /\ pos' \in [Requests -> Nat \ {0}] /\ AttemptOK'
<1>0. /\ pos \in [Requests -> Nat \ {0}] /\ AttemptOK
      /\ Attempts \in Nat \ {0} /\ Attempts' = Attempts
  BY AttemptsType DEF TypeInv, TypeOK, AttemptOK, Attempts
<1>1. CASE NextSelection(r)
  <2>1. /\ pos' = [pos EXCEPT ![r] = @ + 1] /\ try' = [try EXCEPT ![r] = 1]
        /\ \E step \in {"incr", "readTotal"} : Goto(r, step)
    BY <1>1 DEF NextSelection
  <2> QED BY <1>0, <2>1, MoveType DEF Unchecked, Steps, AttemptOK
<1>2. CASE Retry(r)
  <2>1. /\ pos' = pos /\ try' = [try EXCEPT ![r] = @ + 1] /\ try[r] < Attempts
        /\ Goto(r, "incr")
    BY <1>2 DEF Retry
  <2> QED BY <1>0, <2>1, MoveType DEF Unchecked, Steps, AttemptOK
<1> QED BY <1>1, <1>2

LEMMA TypeStep == TypeInv /\ [Next]_vars => TypeInv'
<1> SUFFICES ASSUME TypeInv, [Next]_vars PROVE TypeInv'
  OBVIOUS
<1> USE DEF TypeInv
<1>1. ASSUME NEW r \in Requests, FetchPoll(r) PROVE TypeInv'
  <2>1. \E step \in Steps : Goto(r, step) /\ (step \in Unchecked \/ ValidSelection(r))
    BY <1>1 DEF FetchPoll, Steps, Unchecked
  <2>2. pc' \in [Requests -> Steps] /\ Admitted'
    BY <1>1, <2>1, GotoType DEF FetchPoll
  <2> QED BY <1>1, <2>2 DEF FetchPoll, TypeOK, input, store, cache, handler
<1>2. ASSUME NEW r \in Requests, CloseExpired(r) PROVE TypeInv'
  <2>1. pc' \in [Requests -> Steps] /\ Admitted'
    BY <1>2, GotoType DEF CloseExpired, Steps, Unchecked
  <2> QED BY <1>2, <2>1 DEF CloseExpired, TypeOK, input, cache, handler
<1>3. ASSUME NEW r \in Requests, NEW matches \in SUBSET Requests,
             pc[r] \notin Unchecked, Existing(r, matches), UNCHANGED input
      PROVE  /\ pc' \in [Requests -> Steps] /\ Admitted'
             /\ found' \in [Requests -> Requests \cup {None}]
  <2>1. \E step \in Steps : Goto(r, step)
    BY <1>3 DEF Existing, Steps
  <2>2. found' \in [Requests -> Requests \cup {None}]
    BY <1>3 DEF Existing, TypeOK
  <2> QED BY <1>3, <2>1, <2>2, MoveType
<1>4. ASSUME NEW r \in Requests, Lookup(r) PROVE TypeInv'
  <2>1. FirstMatches(r) \in SUBSET Requests
    BY DEF FirstMatches, ByUser, ByIPHash, ByVoterHash, TypeOK
  <2>2. pc[r] \notin Unchecked /\ UNCHANGED input
    BY <1>4 DEF Lookup, Unchecked
  <2>3. /\ pc' \in [Requests -> Steps] /\ Admitted'
        /\ found' \in [Requests -> Requests \cup {None}]
    <3>1. CASE Existing(r, FirstMatches(r))
      BY <2>1, <2>2, <3>1, <1>3
    <3>2. CASE /\ Goto(r, IF NeedsSecondLookup(r) THEN "lookup2" ELSE "store")
               /\ UNCHANGED found
      <4>1. \E step \in Steps : Goto(r, step)
        BY <3>2 DEF Steps
      <4> QED BY <4>1, <3>2, <2>2, MoveType DEF TypeOK
    <3> QED BY <1>4, <3>1, <3>2 DEF Lookup
  <2>4. saw' \in [Requests -> SUBSET Requests]
    BY <1>4 DEF Lookup, TypeOK
  <2> QED BY <1>4, <2>3, <2>4 DEF Lookup, TypeOK, input, store, cache
<1>5. ASSUME NEW r \in Requests, SecondLookup(r) PROVE TypeInv'
  <2>1. SecondMatches(r) \in SUBSET Requests
    BY DEF SecondMatches, ByIPHash, ByVoterHash, TypeOK
  <2>2. pc[r] \notin Unchecked /\ UNCHANGED input
    BY <1>5 DEF SecondLookup, Unchecked
  <2>3. /\ pc' \in [Requests -> Steps] /\ Admitted'
        /\ found' \in [Requests -> Requests \cup {None}]
    <3>1. CASE Existing(r, SecondMatches(r))
      BY <2>1, <2>2, <3>1, <1>3
    <3>2. CASE Goto(r, "store") /\ UNCHANGED found
      BY <3>2, <2>2, MoveType DEF TypeOK, Steps
    <3> QED BY <1>5, <3>1, <3>2 DEF SecondLookup
  <2> QED BY <1>5, <2>3 DEF SecondLookup, TypeOK, input, store, cache
<1>6. ASSUME NEW r \in Requests, Acknowledged(r), pc[r] = "store", UNCHANGED input
      PROVE  pc' \in [Requests -> Steps] /\ Admitted'
  <2>1. \E step \in Steps : Goto(r, step)
    BY <1>6 DEF Acknowledged, Steps
  <2> QED BY <1>6, <2>1, MoveType DEF Unchecked
<1>7. ASSUME NEW r \in Requests, CreateVote(r) PROVE TypeInv'
  <2>1. ValidSelection(r)
    BY <1>7 DEF CreateVote, Admitted, Unchecked
  <2>2. choice' \in [Requests -> Seq(Options)] /\ stored' \subseteq Requests
    BY <1>7, <2>1, SelectionType DEF CreateVote, TypeOK
  <2>3. pc' \in [Requests -> Steps] /\ Admitted'
    BY <1>6, <1>7 DEF CreateVote
  <2> QED BY <1>7, <2>2, <2>3 DEF CreateVote, TypeOK, input, cache, handler
<1>8. ASSUME NEW r \in Requests, UpdateVote(r) PROVE TypeInv'
  <2>1. ValidSelection(r)
    BY <1>8 DEF UpdateVote, Admitted, Unchecked
  <2>2. choice' \in [Requests -> Seq(Options)]
    BY <1>8, <2>1, SelectionType DEF UpdateVote, TypeOK
  <2>3. pc' \in [Requests -> Steps] /\ Admitted'
    BY <1>6, <1>8 DEF UpdateVote
  <2> QED BY <1>8, <2>2, <2>3 DEF UpdateVote, TypeOK, input, cache, handler
<1>9. ASSUME NEW r \in Requests, DatabaseError(r) PROVE TypeInv'
  <2>1. pc' \in [Requests -> Steps] /\ Admitted'
    BY <1>9, GotoType, MoveType DEF DatabaseError, Steps, Unchecked
  <2> QED BY <1>9, <2>1 DEF DatabaseError, TypeOK, input, store, cache, handler
<1>10. ASSUME NEW r \in Requests, RecordVoterHash(r) PROVE TypeInv'
  <2>1. pc' \in [Requests -> Steps] /\ Admitted'
    BY <1>10, MoveType DEF RecordVoterHash, Steps, Unchecked
  <2>2. redisVoters' \subseteq {x.voter : x \in Inputs}
    BY <1>10, InputType DEF RecordVoterHash, TypeOK
  <2> QED BY <1>10, <2>1, <2>2 DEF RecordVoterHash, TypeOK, input, store, handler
<1>11. ASSUME NEW r \in Requests, IncrOption(r) PROVE TypeInv'
  <2>1. pc' \in [Requests -> Steps] /\ Admitted'
    BY <1>11, MoveType DEF IncrOption, Steps, Unchecked
  <2>2. redisVotes' \in [Options -> Nat]
    <3> DEFINE o == req[r].options[pos[r]]
    <3>1. redisVotes \in [Options -> Nat] /\ redisVotes' = [redisVotes EXCEPT ![o] = @ + 1]
      BY <1>11 DEF IncrOption, TypeOK
    <3> HIDE DEF o
    <3>2. CASE o \in Options
      BY <3>1, <3>2
    <3>3. CASE o \notin Options
      BY <3>1, <3>3
    <3> QED BY <3>2, <3>3
  <2>3. UNCHANGED <<input, store, redisTotal, redisVoters, late, restarts, handler, feed>>
    BY <1>11 DEF IncrOption
  <2> QED BY <2>1, <2>2, <2>3 DEF TypeOK, input, store, handler
<1>12. ASSUME NEW r \in Requests, IncrTotal(r) PROVE TypeInv'
  <2>1. /\ pc' \in [Requests -> Steps] /\ Admitted'
        /\ pos' \in [Requests -> Nat \ {0}] /\ AttemptOK'
    BY <1>12, PipelineEndType DEF IncrTotal
  <2> QED BY <1>12, <2>1 DEF IncrTotal, AttemptOK, TypeOK, input, store
<1>13. ASSUME NEW r \in Requests, LoseIncrement(r) PROVE TypeInv'
  <2>1. /\ pc' \in [Requests -> Steps] /\ Admitted'
        /\ pos' \in [Requests -> Nat \ {0}] /\ AttemptOK'
    BY <1>13, PipelineEndType DEF LoseIncrement
  <2>2. late' \in [Options \cup {None} -> Nat]
    <3>1. \E c : late' = [late EXCEPT ![c] = @ + 1]
      BY <1>13 DEF LoseIncrement
    <3>2. PICK c : late' = [late EXCEPT ![c] = @ + 1]
      BY <3>1
    <3>3. CASE c \in Options \cup {None}
      BY <3>2, <3>3 DEF TypeOK
    <3>4. CASE c \notin Options \cup {None}
      BY <3>2, <3>4 DEF TypeOK
    <3> QED BY <3>3, <3>4
  <2> QED BY <1>13, <2>1, <2>2 DEF LoseIncrement, AttemptOK, TypeOK, input, store
<1>14. ASSUME NEW r \in Requests, ReadTotal(r) PROVE TypeInv'
  <2>1. pc' \in [Requests -> Steps] /\ Admitted'
    BY <1>14, MoveType DEF ReadTotal, Steps, Unchecked
  <2>2. <<>> \in Seq(Nat)
    BY EmptySeq
  <2>3. result' \in [Requests -> [total : Nat, votes : Seq(Nat)]]
    <3> DEFINE fresh == [total |-> redisTotal, votes |-> <<>>]
    <3>1. fresh \in [total : Nat, votes : Seq(Nat)]
      BY <2>2 DEF TypeOK
    <3>2. result' = [result EXCEPT ![r] = fresh] \/ result' = result
      BY <1>14 DEF ReadTotal
    <3> HIDE DEF fresh
    <3> QED BY <3>1, <3>2 DEF TypeOK
  <2>4. UNCHANGED <<input, store, cache, pos, try, found, saw, feed>>
    BY <1>14 DEF ReadTotal
  <2> QED BY <2>1, <2>3, <2>4 DEF TypeOK, input, store, cache
<1>15. ASSUME NEW r \in Requests, ReadOption(r) PROVE TypeInv'
  <2> DEFINE i == Len(result[r].votes) + 1
  <2>1. pc' \in [Requests -> Steps] /\ Admitted'
    <3>1. \E step \in Steps : Goto(r, step)
      BY <1>15 DEF ReadOption, Steps
    <3> QED BY <1>15, <3>1, MoveType DEF ReadOption, Unchecked
  <2>2. result[r].votes \in Seq(Nat) /\ Len(result[r].votes) \in Nat
    BY LenProperties DEF TypeOK
  <2>3. redisVotes[PollOptions[i]] \in Nat
    BY <1>15, <2>2, PollOptionsType DEF ReadOption, TypeOK
  <2>4. Append(result[r].votes, redisVotes[PollOptions[i]]) \in Seq(Nat)
    BY <2>2, <2>3, AppendProperties
  <2>5. result' \in [Requests -> [total : Nat, votes : Seq(Nat)]]
    BY <1>15, <2>4 DEF ReadOption, TypeOK
  <2> QED BY <1>15, <2>1, <2>5 DEF ReadOption, TypeOK, input, store, cache
<1>16. ASSUME NEW r \in Requests, LoseReplies(r) PROVE TypeInv'
  <2> DEFINE old == result[r].votes
             new == [i \in DOMAIN PollOptions |-> IF i <= Len(old) THEN old[i] ELSE 0]
  <2>1. pc' \in [Requests -> Steps] /\ Admitted'
    BY <1>16, MoveType DEF LoseReplies, Steps, Unchecked
  <2>2. /\ Len(old) \in Nat /\ old \in [1..Len(old) -> Nat]
    BY LenProperties DEF TypeOK
  <2>3. new \in [1..Len(PollOptions) -> Nat]
    BY <2>2, PollOptionsType
  <2>4. new \in Seq(Nat) /\ NoResult \in [total : Nat, votes : Seq(Nat)]
    BY <2>3, PollOptionsType, SeqDef, EmptySeq DEF NoResult
  <2>5. result' = [result EXCEPT ![r] = NoResult] \/ result' = [result EXCEPT ![r].votes = new]
    BY <1>16 DEF LoseReplies
  <2> HIDE DEF new
  <2>6. result' \in [Requests -> [total : Nat, votes : Seq(Nat)]]
    <3>1. CASE result' = [result EXCEPT ![r] = NoResult]
      BY <2>4, <3>1 DEF TypeOK
    <3>2. CASE result' = [result EXCEPT ![r].votes = new]
      BY <2>4, <3>2 DEF TypeOK
    <3> QED BY <2>5, <3>1, <3>2
  <2> QED BY <1>16, <2>1, <2>6 DEF LoseReplies, TypeOK, input, store, cache
<1>17. ASSUME NEW r \in Requests, Aggregate(r) PROVE TypeInv'
  <2>1. pc' \in [Requests -> Steps] /\ Admitted'
    BY <1>17, MoveType DEF Aggregate, Steps, Unchecked
  <2>2. PICK read : result' = [result EXCEPT ![r] =
          [total |-> Cardinality(StoredSelections(read)),
           votes |-> [i \in DOMAIN PollOptions |->
                        IF PollOptions[i] \in read THEN Tally(PollOptions[i]) ELSE 0]]]
    BY <1>17 DEF Aggregate
  <2> DEFINE votes == [i \in DOMAIN PollOptions |->
                         IF PollOptions[i] \in read THEN Tally(PollOptions[i]) ELSE 0]
  <2>3. \A o : Tally(o) \in Nat
    BY TallyType DEF Tally
  <2>4. votes \in [1..Len(PollOptions) -> Nat]
    BY <2>3, PollOptionsType
  <2>5. votes \in Seq(Nat)
    BY <2>4, PollOptionsType, SeqDef
  <2>6. Cardinality(StoredSelections(read)) \in Nat
    BY TallyType
  <2>7. result' \in [Requests -> [total : Nat, votes : Seq(Nat)]]
    BY <2>2, <2>5, <2>6 DEF TypeOK
  <2> QED BY <1>17, <2>1, <2>7 DEF Aggregate, TypeOK, input, store, cache
<1>18. ASSUME NEW r \in Requests, Publish(r) \/ BroadcastLocal(r) PROVE TypeInv'
  <2>1. pc' \in [Requests -> Steps] /\ Admitted'
    BY <1>18, MoveType DEF Publish, BroadcastLocal, Steps, Unchecked
  <2>2. feed' \in [total : Nat, votes : Seq(Nat)]
    BY <1>18 DEF Publish, BroadcastLocal, TypeOK
  <2> QED BY <1>18, <2>1, <2>2 DEF Publish, BroadcastLocal, TypeOK, input, store,
                                   cache, handler
<1>19. CASE Environment
  <2>1. Admitted'
    BY <1>19 DEF Environment, ClosePoll, Expire, AutoClose, DeletePoll, DeleteVotes,
                 RestartRedis, LateTotal, LateOption, Admitted, ValidSelection, input
  <2>2. CASE ClosePoll \/ Expire \/ AutoClose \/ DeletePoll \/ DeleteVotes
    BY <2>1, <2>2 DEF ClosePoll, Expire, AutoClose, DeletePoll, DeleteVotes, TypeOK,
                      input, cache, handler
  <2>3. CASE RestartRedis
    BY <2>1, <2>3 DEF RestartRedis, TypeOK, input, store, handler
  <2>4. CASE LateTotal \/ \E o \in Options : LateOption(o)
    <3>1. late' \in [Options \cup {None} -> Nat] /\ redisTotal' \in Nat
          /\ redisVotes' \in [Options -> Nat]
      <4>1. CASE LateTotal
        BY <4>1 DEF LateTotal, TypeOK
      <4>2. ASSUME NEW o \in Options, LateOption(o)
            PROVE  late' \in [Options \cup {None} -> Nat] /\ redisTotal' \in Nat
                   /\ redisVotes' \in [Options -> Nat]
        <5>1. /\ late \in [Options \cup {None} -> Nat] /\ late[o] \in Nat \ {0}
              /\ redisVotes \in [Options -> Nat] /\ o # None /\ redisTotal \in Nat
          BY <4>2, VoteAssumption DEF LateOption, TypeOK
        <5>2. /\ late' = [late EXCEPT ![o] = @ - 1, ![None] = @ + 1]
              /\ redisVotes' = [redisVotes EXCEPT ![o] = @ + 1] /\ UNCHANGED redisTotal
          BY <4>2 DEF LateOption
        <5>3. [late EXCEPT ![o] = @ - 1] \in [Options \cup {None} -> Nat]
          BY <5>1
        <5>4. late' = [[late EXCEPT ![o] = @ - 1] EXCEPT ![None] = @ + 1]
          BY <5>1, <5>2
        <5>5. late' \in [Options \cup {None} -> Nat]
          BY <5>3, <5>4
        <5> QED BY <5>1, <5>2, <5>5
      <4> QED BY <2>4, <4>1, <4>2
    <3> QED BY <2>1, <2>4, <3>1 DEF LateTotal, LateOption, TypeOK, input, store, handler
  <2> QED BY <1>19, <2>2, <2>3, <2>4 DEF Environment
<1>20. CASE UNCHANGED vars
  BY <1>20 DEF vars, TypeOK, Admitted, ValidSelection, input, store, cache, handler
<1> QED BY <1>1, <1>2, <1>4, <1>5, <1>7, <1>8, <1>9, <1>10, <1>11, <1>12, <1>13,
           <1>14, <1>15, <1>16, <1>17, <1>18, <1>19, <1>20 DEF Next, CastVote

(* Type correctness of the handler, whatever is interleaved, lost or fails. *)
THEOREM TypeCorrect == Spec => [](TypeOK /\ Admitted)
<1>1. Init => TypeInv
  BY TypeInit
<1>2. TypeInv /\ [Next]_vars => TypeInv'
  BY TypeStep
<1> QED BY <1>1, <1>2, PTL DEF Spec, TypeInv

-----------------------------------------------------------------------------
(* Duplicate votes.                                                         *)

(* The strengthening: a vote a run has seen, or that is stored, is past its *)
(* own write; and what a run has looked for so far was not among the votes  *)
(* it saw that are still stored.                                            *)
SeenIsWritten ==
  \A r \in Requests : \A v \in stored \cup saw[r] : pc[v] \notin Unstored
FirstQueryEmpty ==
  \A w \in Requests : pc[w] = "lookup2" =>
    NeedsSecondLookup(w) /\ saw[w] \cap FirstMatches(w) = {}
NoOwnVoteSeen(w) == \A v \in saw[w] \cap stored : ~SameVoter(v, w)
CreatesUnseen ==
  \A w \in Requests : pc[w] = "store" /\ found[w] = None => NoOwnVoteSeen(w)
CreatedUnseen == \A w \in stored : NoOwnVoteSeen(w)

DuplicateInv == SeenIsWritten /\ FirstQueryEmpty /\ CreatesUnseen /\ CreatedUnseen

(* Steps that neither look up nor create a vote keep the invariant.         *)
LEMMA DuplicateFrame ==
  ASSUME TypeInv, DuplicateInv, UNCHANGED <<input, found, saw>>,
         stored' \subseteq stored,
         \A x \in Requests : /\ pc'[x] \in Unstored => pc[x] \in Unstored
                             /\ pc'[x] \in {"lookup2", "store"} => pc'[x] = pc[x]
  PROVE  DuplicateInv'
<1>1. stored \subseteq Requests /\ \A r \in Requests : saw[r] \subseteq Requests
  BY DEF TypeInv, TypeOK
<1>2. SeenIsWritten'
  BY <1>1 DEF DuplicateInv, SeenIsWritten
<1>3. \A v, w \in Requests : SameVoter(v, w)' <=> SameVoter(v, w)
  BY DEF SameVoter, input
<1>4. \A w \in Requests : NoOwnVoteSeen(w) => NoOwnVoteSeen(w)'
  BY <1>1, <1>3 DEF NoOwnVoteSeen
<1>5. FirstQueryEmpty'
  <2>1. \A w \in Requests : FirstMatches(w)' \subseteq FirstMatches(w)
    BY DEF FirstMatches, ByUser, ByIPHash, ByVoterHash, input
  <2>2. \A w \in Requests : NeedsSecondLookup(w)' <=> NeedsSecondLookup(w)
    BY DEF NeedsSecondLookup, input
  <2> QED BY <2>1, <2>2 DEF DuplicateInv, FirstQueryEmpty
<1>6. CreatesUnseen' /\ CreatedUnseen'
  BY <1>1, <1>4 DEF DuplicateInv, CreatesUnseen, CreatedUnseen
<1> QED BY <1>2, <1>5, <1>6 DEF DuplicateInv

(* A query that finds nothing among the stored votes rules out the stored   *)
(* votes of the same voter, if no other query is needed.                    *)
LEMMA FirstQueryDecides ==
  ASSUME NEW w \in Requests, FirstMatches(w) = {}, ~NeedsSecondLookup(w),
         settings.protection \in Protections
  PROVE  \A v \in stored : ~SameVoter(v, w)
BY DEF FirstMatches, NeedsSecondLookup, SameVoter, ByUser, ByIPHash, ByVoterHash,
       Protections

(* The same of the second query, for votes the first one has ruled out.     *)
LEMMA SecondQueryDecides ==
  ASSUME NEW w \in Requests, NeedsSecondLookup(w), settings.protection \in Protections,
         \/ SecondMatches(w) = {}
         \/ "db" \in Events /\ settings.protection = "smart_fingerprint"
  PROVE  \A v \in stored \ FirstMatches(w) : ~SameVoter(v, w)
BY DEF FirstMatches, SecondMatches, NeedsSecondLookup, SameVoter, ByUser, ByIPHash,
       ByVoterHash, Protections

LEMMA DuplicateStep == TypeInv /\ DuplicateInv /\ [Next]_vars => DuplicateInv'
<1> SUFFICES ASSUME TypeInv, DuplicateInv, [Next]_vars PROVE DuplicateInv'
  OBVIOUS
<1>0. /\ stored \subseteq Requests /\ \A r \in Requests : saw[r] \subseteq Requests
      /\ settings.protection \in Protections /\ pc \in [Requests -> Steps]
      /\ found \in [Requests -> Requests \cup {None}]
      /\ saw \in [Requests -> SUBSET Requests]
  BY VoteAssumption DEF TypeInv, TypeOK
<1>1. ASSUME NEW r \in Requests, Lookup(r) PROVE DuplicateInv'
  <2>1. /\ pc[r] = "lookup" /\ UNCHANGED <<input, stored>>
        /\ saw' = [saw EXCEPT ![r] = stored]
    BY <1>1 DEF Lookup, store
  <2>2. PICK step \in {"lookup2", "store", "rejected"} : Goto(r, step)
    BY <1>1 DEF Lookup, Existing
  <2>3. /\ found' = found \/ found'[r] # None
        /\ \A x \in Requests \ {r} : found'[x] = found[x]
    BY <1>0, <1>1, VoteAssumption DEF Lookup, Existing, FirstMatches, ByUser, ByIPHash,
                                  ByVoterHash
  <2>4. step = "lookup2" \/ (step = "store" /\ found'[r] = None) =>
          /\ FirstMatches(r) = {}
          /\ step = "lookup2" => NeedsSecondLookup(r)
          /\ step = "store" => ~NeedsSecondLookup(r)
    BY <1>0, <1>1, <2>2, VoteAssumption DEF Lookup, Existing, FirstMatches, ByUser,
                                            ByIPHash, ByVoterHash, Goto
  <2>5. \A v, w \in Requests : SameVoter(v, w)' <=> SameVoter(v, w)
    BY <2>1 DEF SameVoter, input
  <2>6. SeenIsWritten'
    BY <1>0, <2>1, <2>2 DEF DuplicateInv, SeenIsWritten, Goto, Unstored
  <2>7. FirstQueryEmpty'
    <3>1. \A w \in Requests : /\ FirstMatches(w)' = FirstMatches(w)
                              /\ NeedsSecondLookup(w)' <=> NeedsSecondLookup(w)
      BY <2>1 DEF FirstMatches, ByUser, ByIPHash, ByVoterHash, NeedsSecondLookup, input
    <3> QED BY <1>0, <2>1, <2>2, <2>4, <3>1 DEF DuplicateInv, FirstQueryEmpty, Goto
  <2>8. \A w \in Requests \ {r} : NoOwnVoteSeen(w) => NoOwnVoteSeen(w)'
    BY <1>0, <2>1, <2>5 DEF NoOwnVoteSeen
  <2>9. pc'[r] = "store" /\ found'[r] = None => NoOwnVoteSeen(r)'
    BY <1>0, <2>1, <2>2, <2>4, <2>5, FirstQueryDecides DEF NoOwnVoteSeen, Goto
  <2>10. r \notin stored
    BY <1>0, <2>1 DEF DuplicateInv, SeenIsWritten, Unstored
  <2>11. CreatesUnseen' /\ CreatedUnseen'
    BY <1>0, <2>1, <2>2, <2>3, <2>8, <2>9, <2>10
       DEF DuplicateInv, CreatesUnseen, CreatedUnseen, Goto
  <2> QED BY <2>6, <2>7, <2>11 DEF DuplicateInv
<1>2. ASSUME NEW r \in Requests, SecondLookup(r) PROVE DuplicateInv'
  <2>1. /\ pc[r] = "lookup2" /\ UNCHANGED <<input, stored, saw>>
    BY <1>2 DEF SecondLookup, store
  <2>2. PICK step \in {"store", "rejected"} : Goto(r, step)
    BY <1>2 DEF SecondLookup, Existing
  <2>3. /\ found' = found \/ found'[r] # None
        /\ \A x \in Requests \ {r} : found'[x] = found[x]
    BY <1>0, <1>2, VoteAssumption DEF SecondLookup, Existing, SecondMatches, ByIPHash,
                                  ByVoterHash
  <2>4. step = "store" /\ found'[r] = None =>
          \/ SecondMatches(r) = {}
          \/ "db" \in Events /\ settings.protection = "smart_fingerprint"
    BY <1>0, <1>2, <2>2, VoteAssumption DEF SecondLookup, Existing, SecondMatches,
                                            ByIPHash, ByVoterHash, Goto
  <2>5. \A v, w \in Requests : SameVoter(v, w)' <=> SameVoter(v, w)
    BY <2>1 DEF SameVoter, input
  <2>6. SeenIsWritten'
    BY <1>0, <2>1, <2>2 DEF DuplicateInv, SeenIsWritten, Goto, Unstored
  <2>7. FirstQueryEmpty'
    <3>1. \A w \in Requests : /\ FirstMatches(w)' = FirstMatches(w)
                              /\ NeedsSecondLookup(w)' <=> NeedsSecondLookup(w)
      BY <2>1 DEF FirstMatches, ByUser, ByIPHash, ByVoterHash, NeedsSecondLookup, input
    <3> QED BY <1>0, <2>1, <2>2, <3>1 DEF DuplicateInv, FirstQueryEmpty, Goto
  <2>8. \A w \in Requests : NoOwnVoteSeen(w) => NoOwnVoteSeen(w)'
    BY <1>0, <2>1, <2>5 DEF NoOwnVoteSeen
  <2>9. step = "store" /\ found'[r] = None => NoOwnVoteSeen(r)'
    <3>1. NeedsSecondLookup(r) /\ saw[r] \cap FirstMatches(r) = {}
      BY <2>1 DEF DuplicateInv, FirstQueryEmpty
    <3> QED BY <1>0, <2>1, <2>4, <2>5, <3>1, SecondQueryDecides DEF NoOwnVoteSeen
  <2>10. CreatesUnseen' /\ CreatedUnseen'
    BY <1>0, <2>1, <2>2, <2>3, <2>8, <2>9
       DEF DuplicateInv, CreatesUnseen, CreatedUnseen, Goto
  <2> QED BY <2>6, <2>7, <2>10 DEF DuplicateInv
<1>3. ASSUME NEW r \in Requests, CreateVote(r) PROVE DuplicateInv'
  <2>1. /\ pc[r] = "store" /\ found[r] = None /\ UNCHANGED <<input, found, saw>>
        /\ stored' = stored \cup {r}
    BY <1>3 DEF CreateVote, handler
  <2>2. PICK step \in {"voter", "rejected"} : Goto(r, step)
    BY <1>3 DEF CreateVote, Acknowledged
  <2>3. \A w \in Requests : r \notin saw[w]
    BY <2>1 DEF DuplicateInv, SeenIsWritten, Unstored
  <2>4. \A v, w \in Requests : SameVoter(v, w)' <=> SameVoter(v, w)
    BY <2>1 DEF SameVoter, input
  <2>5. SeenIsWritten'
    BY <1>0, <2>1, <2>2 DEF DuplicateInv, SeenIsWritten, Goto, Unstored
  <2>6. FirstQueryEmpty'
    <3>1. \A w \in Requests : /\ FirstMatches(w)' \subseteq FirstMatches(w) \cup {r}
                              /\ NeedsSecondLookup(w)' <=> NeedsSecondLookup(w)
      BY <2>1 DEF FirstMatches, ByUser, ByIPHash, ByVoterHash, NeedsSecondLookup, input
    <3> QED BY <1>0, <2>1, <2>2, <2>3, <3>1 DEF DuplicateInv, FirstQueryEmpty, Goto
  <2>7. \A w \in Requests : NoOwnVoteSeen(w) => NoOwnVoteSeen(w)'
    BY <1>0, <2>1, <2>3, <2>4 DEF NoOwnVoteSeen
  <2>8. CreatesUnseen' /\ CreatedUnseen'
    BY <1>0, <2>1, <2>2, <2>7 DEF DuplicateInv, CreatesUnseen, CreatedUnseen, Goto
  <2> QED BY <2>5, <2>6, <2>8 DEF DuplicateInv
<1>4. ASSUME NEW r \in Requests, CastVote(r), ~Lookup(r), ~SecondLookup(r), ~CreateVote(r)
      PROVE  DuplicateInv'
  <2>1. UNCHANGED <<input, found, saw, stored>>
    BY <1>4 DEF CastVote, FetchPoll, CloseExpired, UpdateVote, DatabaseError,
         RecordVoterHash, IncrOption, IncrTotal, LoseIncrement, ReadTotal, ReadOption,
         LoseReplies, Aggregate, Publish, BroadcastLocal, store, handler
  <2>2. \E step \in Steps :
          /\ Goto(r, step) /\ step \notin {"lookup2", "store"}
          /\ step \in Unstored => pc[r] \in Unstored
    BY <1>4 DEF CastVote, FetchPoll, CloseExpired, UpdateVote, DatabaseError,
         RecordVoterHash, IncrOption, IncrTotal, LoseIncrement, ReadTotal, ReadOption,
         LoseReplies, Aggregate, Publish, BroadcastLocal, NextSelection, Retry,
         Acknowledged, Steps, Unstored
  <2>3. \A x \in Requests : /\ pc'[x] \in Unstored => pc[x] \in Unstored
                            /\ pc'[x] \in {"lookup2", "store"} => pc'[x] = pc[x]
    BY <1>0, <2>2 DEF Goto
  <2> QED BY <2>1, <2>3, DuplicateFrame
<1>5. CASE Environment \/ UNCHANGED vars
  <2>1. UNCHANGED <<input, found, saw, pc>> /\ stored' \subseteq stored
    BY <1>5 DEF Environment, ClosePoll, Expire, AutoClose, DeletePoll, DeleteVotes,
                RestartRedis, LateTotal, LateOption, vars, handler, store
  <2> QED BY <2>1, DuplicateFrame
<1> QED BY <1>1, <1>2, <1>3, <1>4, <1>5 DEF Next

LEMMA DuplicateInit == Init => DuplicateInv
BY DEF Init, DuplicateInv, SeenIsWritten, FirstQueryEmpty, CreatesUnseen, CreatedUnseen

(* However many runs overlap and whatever fails, two stored votes of one    *)
(* voter come only from runs neither of which could see the other's vote.   *)
THEOREM DuplicatesNeedARace == Spec => []DuplicateOnlyByRace
<1>1. Init => TypeInv /\ DuplicateInv
  BY TypeInit, DuplicateInit
<1>2. (TypeInv /\ DuplicateInv) /\ [Next]_vars => (TypeInv /\ DuplicateInv)'
  BY TypeStep, DuplicateStep
<1>3. DuplicateInv => DuplicateOnlyByRace
  BY DEF DuplicateInv, CreatedUnseen, NoOwnVoteSeen, DuplicateOnlyByRace
<1> QED BY <1>1, <1>2, <1>3, PTL DEF Spec

-----------------------------------------------------------------------------
(* Redis against MongoDB.                                                   *)

(* The INCRs of option o that can have reached Redis: one for each attempt  *)
(* a run has made, or made and given up, for each of its selections of o.   *)
Attempted(r, i, k) ==
  \/ i < pos[r]
  \/ i = pos[r] /\ (k < try[r] \/ (k = try[r] /\ pc[r] = "incrTotal"))
Slots == (Requests \X (1..MaxSelections)) \X (1..Attempts)
Sent(o) ==
  {t \in Slots :
     /\ t[1][2] <= Len(req[t[1][1]].options) /\ req[t[1][1]].options[t[1][2]] = o
     /\ Attempted(t[1][1], t[1][2], t[2])}

(* The strengthening: a counter, together with what Redis may still execute *)
(* late, is bounded by the INCRs sent to it; INCRs are sent only by runs    *)
(* past their write, whose votes stay as they were written while nobody     *)
(* changes or deletes them.                                                 *)
CountedIsSent == \A o \in Options : redisVotes[o] + late[o] <= Cardinality(Sent(o))
PosInRange ==
  \A r \in Requests : /\ pc[r] \in Uncounted => pos[r] = 1 /\ try[r] = 1
                      /\ pc[r] \in {"incr", "incrTotal"} => pos[r] <= Len(req[r].options)
ChangesAllowed ==
  /\ \A r \in Requests : pc[r] \in Unstored /\ found[r] # None => settings.allowChanges
  /\ deleting => poll = "deleted"
WrittenIsStored ==
  ~settings.allowChanges /\ poll # "deleted" =>
    \A r \in Requests : pc[r] \notin Unstored \cup {"rejected"} => r \in stored
StoredAsSent ==
  ~settings.allowChanges => \A v \in stored : choice[v] = req[v].options

CountInv ==
  CountedIsSent /\ PosInRange /\ ChangesAllowed /\ WrittenIsStored /\ StoredAsSent

LEMMA SlotsFinite == IsFiniteSet(Slots)
<1>1. /\ 1 \in Int /\ MaxSelections \in Int /\ Attempts \in Int
      /\ IsFiniteSet(Requests)
  BY VoteAssumption, AttemptsType
<1>2. IsFiniteSet(1..MaxSelections) /\ IsFiniteSet(1..Attempts)
  BY <1>1, FS_Interval
<1>3. IsFiniteSet(Requests \X (1..MaxSelections))
  BY <1>1, <1>2, FS_Product
<1> QED BY <1>2, <1>3, FS_Product DEF Slots

LEMMA SentFinite ==
  ASSUME NEW o
  PROVE  /\ IsFiniteSet(Sent(o)) /\ Cardinality(Sent(o)) \in Nat
         /\ IsFiniteSet(Sent(o)') /\ Cardinality(Sent(o)') \in Nat
<1>1. Sent(o) \in SUBSET Slots /\ Sent(o)' \in SUBSET Slots
  BY DEF Sent, Slots
<1> QED BY <1>1, SlotsFinite, FS_Subset, FS_CardinalityType

(* A run's attempts go forward: to another selection, to another attempt,   *)
(* or nowhere, and then it stays between its two INCRs if it is there.      *)
GoesOn(x) ==
  \/ pos'[x] > pos[x]
  \/ pos'[x] = pos[x] /\ try'[x] > try[x]
  \/ pos'[x] = pos[x] /\ try'[x] = try[x] /\ (pc[x] = "incrTotal" => pc'[x] = "incrTotal")

(* What was sent stays sent.                                                *)
LEMMA SentGrows ==
  ASSUME TypeInv, TypeInv', UNCHANGED req, NEW o, \A x \in Requests : GoesOn(x)
  PROVE  Sent(o) \subseteq Sent(o)' /\ Cardinality(Sent(o)) <= Cardinality(Sent(o)')
<1>1. \A x \in Requests : /\ pos[x] \in Nat /\ pos'[x] \in Nat
                          /\ try[x] \in Nat /\ try'[x] \in Nat
  BY AttemptsType DEF TypeInv, TypeOK
<1>2. \A x \in Requests, i \in 1..MaxSelections, k \in 1..Attempts :
        Attempted(x, i, k) => Attempted(x, i, k)'
  BY <1>1, VoteAssumption, AttemptsType DEF Attempted, GoesOn
<1>3. ASSUME NEW t \in Sent(o) PROVE t \in Sent(o)'
  <2>1. /\ t \in Slots /\ t[1][1] \in Requests
        /\ t[1][2] \in 1..MaxSelections /\ t[2] \in 1..Attempts
    BY DEF Sent, Slots
  <2> QED BY <1>2, <2>1 DEF Sent, Slots
<1> QED BY <1>3, SentFinite, FS_Subset

LEMMA CountersType ==
  ASSUME TypeInv, NEW o \in Options
  PROVE  redisVotes[o] \in Nat /\ late[o] \in Nat
BY DEF TypeInv, TypeOK

(* Steps that touch neither the counters nor the votes keep the invariant.  *)
LEMMA CountFrame ==
  ASSUME TypeInv, TypeInv', CountInv,
         UNCHANGED <<input, redisVotes, late, pos, try, stored, choice, deleting>>,
         poll' = poll \/ (poll' \in {"closed", "deleted"} /\ poll # "deleted"),
         \A x \in Requests :
           /\ pc'[x] \in Uncounted => pc[x] \in Uncounted
           /\ pc[x] = "incrTotal" => pc'[x] = "incrTotal"
           /\ pc'[x] \in {"incr", "incrTotal"} =>
                pc[x] \in {"incr", "incrTotal"} \/ pc[x] \in Uncounted
           /\ pc'[x] \in Unstored /\ found'[x] # None =>
                (pc[x] \in Unstored /\ found[x] # None) \/ settings.allowChanges
           /\ pc'[x] \notin Unstored \cup {"rejected"} =>
                pc[x] \notin Unstored \cup {"rejected"}
  PROVE  CountInv'
<1>1. CountedIsSent'
  <2>1. UNCHANGED req /\ \A x \in Requests : GoesOn(x)
    BY DEF input, GoesOn
  <2>2. \A o \in Options : Cardinality(Sent(o)) <= Cardinality(Sent(o)')
    BY <2>1, SentGrows
  <2> QED BY <2>2, CountersType, SentFinite DEF CountInv, CountedIsSent
<1>2. PosInRange'
  <2>1. \A x \in Requests : pc'[x] \in {"incr", "incrTotal"} => ValidSelection(x)
    BY DEF TypeInv, Admitted, ValidSelection, Unchecked, input
  <2>2. \A x \in Requests : pc'[x] \in {"incr", "incrTotal"} => Len(req[x].options) >= 1
    BY <2>1, SelectionType DEF TypeInv
  <2> QED BY <2>2 DEF CountInv, PosInRange, input
<1>3. ChangesAllowed' /\ WrittenIsStored' /\ StoredAsSent'
  BY DEF CountInv, ChangesAllowed, WrittenIsStored, StoredAsSent, input
<1> QED BY <1>1, <1>2, <1>3 DEF CountInv

LEMMA CountStep == TypeInv /\ TypeInv' /\ CountInv /\ [Next]_vars => CountInv'
<1> SUFFICES ASSUME TypeInv, TypeInv', CountInv, [Next]_vars PROVE CountInv'
  OBVIOUS
<1>0. /\ pc \in [Requests -> Steps] /\ pos \in [Requests -> Nat \ {0}]
      /\ Attempts \in Nat \ {0}
      /\ redisVotes \in [Options -> Nat] /\ choice \in [Requests -> Seq(Options)]
      /\ try \in [Requests -> Nat \ {0}] /\ \A r \in Requests : try[r] <= Attempts
      /\ stored \subseteq Requests /\ found \in [Requests -> Requests \cup {None}]
  BY AttemptsType DEF TypeInv, TypeOK
(* Steps that move a run along without counting or writing.                 *)
<1>1. ASSUME NEW r \in Requests, CastVote(r), ~CreateVote(r), ~UpdateVote(r),
             ~IncrOption(r), ~IncrTotal(r), ~LoseIncrement(r)
      PROVE  CountInv'
  <2>1. /\ UNCHANGED <<input, redisVotes, late, pos, try, stored, choice, deleting>>
        /\ poll' = poll \/ (poll = "active" /\ poll' = "closed")
    BY <1>1 DEF CastVote, FetchPoll, CloseExpired, Lookup, SecondLookup, DatabaseError,
         RecordVoterHash, ReadTotal, ReadOption, LoseReplies, Aggregate, Publish,
         BroadcastLocal, store, cache, handler
  <2>2. \E step \in Steps :
          /\ Goto(r, step) /\ pc[r] # "incrTotal"
          /\ step \in Uncounted => pc[r] \in Uncounted
          /\ step = "incr" => pc[r] = "voter"
          /\ step # "incrTotal"
          /\ step \in Unstored =>
               pc[r] \in Unstored /\ (settings.allowChanges \/ found' = found)
          /\ step \notin Unstored \cup {"rejected"} =>
               pc[r] \notin Unstored \cup {"rejected"}
    BY <1>1 DEF CastVote, FetchPoll, CloseExpired, Lookup, SecondLookup, Existing,
         DatabaseError, RecordVoterHash, ReadTotal, ReadOption, LoseReplies, Aggregate,
         Publish, BroadcastLocal, Steps, Unstored, Uncounted, handler
  <2>3. \A x \in Requests \ {r} : found'[x] = found[x] /\ pc'[x] = pc[x]
    BY <1>0, <1>1, <2>2 DEF CastVote, FetchPoll, CloseExpired, Lookup, SecondLookup,
         Existing, DatabaseError, RecordVoterHash, ReadTotal, ReadOption, LoseReplies,
         Aggregate, Publish, BroadcastLocal, handler, Goto
  <2> QED BY <1>0, <2>1, <2>2, <2>3, CountFrame DEF Goto, Uncounted, Unstored
(* The write of the vote.                                                   *)
<1>2. ASSUME NEW r \in Requests, CreateVote(r) \/ UpdateVote(r) PROVE CountInv'
  <2>1. /\ pc[r] = "store"
        /\ UNCHANGED <<input, redisVotes, late, pos, try, found, poll, deleting>>
        /\ stored \subseteq stored'
        /\ \E step \in {"voter", "rejected"} : Goto(r, step)
    BY <1>2 DEF CreateVote, UpdateVote, Acknowledged, cache, handler
  <2>2. /\ pc' = [pc EXCEPT ![r] = pc'[r]] /\ pc'[r] \in {"voter", "rejected"}
    BY <1>0, <2>1 DEF Goto
  <2>3. CountedIsSent'
    <3>1. UNCHANGED req /\ \A x \in Requests : GoesOn(x)
      BY <1>0, <2>1, <2>2 DEF input, GoesOn
    <3>2. \A o \in Options : Cardinality(Sent(o)) <= Cardinality(Sent(o)')
      BY <3>1, SentGrows
    <3> QED BY <2>1, <3>2, CountersType, SentFinite DEF CountInv, CountedIsSent
  <2>4. PosInRange'
    BY <1>0, <2>1, <2>2 DEF CountInv, PosInRange, Uncounted, Unstored, input
  <2>5. ChangesAllowed'
    BY <1>0, <2>1, <2>2 DEF CountInv, ChangesAllowed, Unstored, input
  <2>6. CASE CreateVote(r)
    <3>1. stored' = stored \cup {r} /\ choice' = [choice EXCEPT ![r] = req[r].options]
      BY <2>6 DEF CreateVote
    <3>2. WrittenIsStored'
      BY <1>0, <2>1, <2>2, <3>1 DEF CountInv, WrittenIsStored, Unstored, input
    <3>3. StoredAsSent'
      BY <1>0, <2>1, <3>1 DEF CountInv, StoredAsSent, input
    <3> QED BY <2>3, <2>4, <2>5, <3>2, <3>3 DEF CountInv
  <2>7. CASE UpdateVote(r)
    <3>1. settings.allowChanges
      BY <2>7 DEF UpdateVote, CountInv, ChangesAllowed, Unstored
    <3>2. WrittenIsStored' /\ StoredAsSent'
      BY <2>1, <3>1 DEF WrittenIsStored, StoredAsSent, input
    <3> QED BY <2>3, <2>4, <2>5, <3>2 DEF CountInv
  <2> QED BY <1>2, <2>6, <2>7
(* The two INCRs, and their loss.                                           *)
<1>3. ASSUME NEW r \in Requests, IncrOption(r) \/ IncrTotal(r) \/ LoseIncrement(r)
      PROVE  /\ ChangesAllowed' /\ WrittenIsStored' /\ StoredAsSent' /\ PosInRange'
             /\ \A x \in Requests : GoesOn(x)
             /\ UNCHANGED req
  <2>1. /\ UNCHANGED <<input, stored, choice, poll, deleting, found>>
        /\ pc[r] \in {"incr", "incrTotal"}
    BY <1>3 DEF IncrOption, IncrTotal, LoseIncrement, store, handler
  <2>2. \/ pc[r] = "incr" /\ Goto(r, "incrTotal") /\ UNCHANGED <<pos, try>>
        \/ NextSelection(r) \/ Retry(r)
    BY <1>3 DEF IncrOption, IncrTotal, LoseIncrement, handler
  <2>3. \E step \in {"incr", "incrTotal", "readTotal"} : Goto(r, step)
    BY <2>2 DEF NextSelection, Retry
  <2>4. ChangesAllowed' /\ WrittenIsStored' /\ StoredAsSent'
    BY <1>0, <2>1, <2>3 DEF CountInv, ChangesAllowed, WrittenIsStored, StoredAsSent,
                            Goto, Unstored, input
  <2>5. /\ pos[r] \in Nat \ {0} /\ pos[r] <= Len(req[r].options) /\ try[r] \in Nat
        /\ Len(req[r].options) \in Nat
    BY <1>0, <2>1, InputType, AttemptsType DEF CountInv, PosInRange, TypeInv
  <2>6. \A x \in Requests \ {r} : pos'[x] = pos[x] /\ try'[x] = try[x] /\ pc'[x] = pc[x]
    BY <1>0, <2>2 DEF NextSelection, Retry, Goto
  <2>7. PosInRange' /\ GoesOn(r)
    <3>1. CASE pc[r] = "incr" /\ Goto(r, "incrTotal") /\ UNCHANGED <<pos, try>>
      BY <1>0, <2>1, <2>5, <2>6, <3>1
         DEF CountInv, PosInRange, GoesOn, Uncounted, Unstored, Goto, input
    <3>2. CASE NextSelection(r)
      <4>1. /\ pos'[r] = pos[r] + 1
            /\ pc'[r] = IF pos[r] < Len(req[r].options) THEN "incr" ELSE "readTotal"
        BY <1>0, <3>2 DEF NextSelection, Goto
      <4>2. PosInRange'
        BY SMTT(30), <2>1, <2>5, <2>6, <4>1 DEF CountInv, PosInRange, Uncounted,
                                                Unstored, input
      <4> QED BY <2>5, <4>1, <4>2 DEF GoesOn
    <3>3. CASE Retry(r)
      <4>1. pos'[r] = pos[r] /\ try'[r] = try[r] + 1 /\ pc'[r] = "incr"
        BY <1>0, <3>3 DEF Retry, Goto
      <4>2. PosInRange'
        BY SMTT(30), <2>1, <2>5, <2>6, <4>1 DEF CountInv, PosInRange, Uncounted,
                                                Unstored, input
      <4> QED BY <2>5, <4>1, <4>2 DEF GoesOn
    <3> QED BY <2>2, <3>1, <3>2, <3>3
  <2>8. \A x \in Requests : GoesOn(x)
    BY <2>6, <2>7 DEF GoesOn
  <2> QED BY <2>1, <2>4, <2>7, <2>8 DEF input
(* An INCR of an option executed, or given up before it was.                *)
<1>4. ASSUME NEW r \in Requests, pc[r] = "incr", IncrOption(r) \/ LoseIncrement(r)
      PROVE  CountInv'
  <2> DEFINE chosen == req[r].options[pos[r]]
             token == <<<<r, pos[r]>>, try[r]>>
  <2>1. /\ \A x \in Requests : GoesOn(x)
        /\ UNCHANGED req /\ ChangesAllowed' /\ WrittenIsStored' /\ StoredAsSent'
        /\ PosInRange'
    BY <1>3, <1>4
  <2>2. /\ pos[r] \in Nat \ {0} /\ pos[r] <= Len(req[r].options) /\ try[r] \in 1..Attempts
        /\ try[r] \in Nat /\ Len(req[r].options) \in Nat
        /\ Len(req[r].options) <= MaxSelections
    BY <1>0, <1>4, InputType, AttemptsType DEF CountInv, PosInRange, TypeInv
  <2>3. token \in Slots /\ token[1][1] = r /\ token[1][2] = pos[r] /\ token[2] = try[r]
    BY <2>2, VoteAssumption DEF Slots
  <2>4. \/ redisVotes' = [redisVotes EXCEPT ![chosen] = @ + 1] /\ UNCHANGED late
        \/ late' = [late EXCEPT ![chosen] = @ + 1] /\ UNCHANGED redisVotes
    BY <1>4 DEF IncrOption, LoseIncrement
  <2>5. \A i, k : i = pos[r] /\ k = try[r] => Attempted(r, i, k)'
    <3>1. CASE IncrOption(r)
      BY <1>0, <3>1 DEF IncrOption, handler, Goto, Attempted
    <3>2. CASE NextSelection(r)
      BY <1>0, <2>2, <3>2 DEF NextSelection, Attempted
    <3>3. CASE Retry(r)
      BY <1>0, <2>2, <3>3 DEF Retry, Attempted
    <3> QED BY <1>4, <3>1, <3>2, <3>3 DEF LoseIncrement
  <2>6. \A o \in Options : Cardinality(Sent(o)) <= Cardinality(Sent(o)')
    BY <2>1, SentGrows
  <2>7. ASSUME NEW o \in Options, o = chosen
        PROVE  Cardinality(Sent(o)) + 1 <= Cardinality(Sent(o)')
    <3> HIDE DEF token
    <3>1. Sent(o) \subseteq Sent(o)'
      BY <2>1, SentGrows
    <3>2. token \notin Sent(o)
      BY <1>0, <1>4, <2>2, <2>3 DEF Sent, Attempted
    <3>3. token \in Sent(o)'
      BY <2>1, <2>2, <2>3, <2>5, <2>7 DEF Sent, Slots
    <3>4. /\ IsFiniteSet(Sent(o)) /\ IsFiniteSet(Sent(o)')
          /\ Cardinality(Sent(o)) \in Nat
      BY SentFinite
    <3>5. /\ IsFiniteSet(Sent(o) \cup {token})
          /\ Cardinality(Sent(o) \cup {token}) = Cardinality(Sent(o)) + 1
      BY <3>2, <3>4, FS_AddElement
    <3>6. Cardinality(Sent(o) \cup {token}) <= Cardinality(Sent(o)')
      BY <3>1, <3>3, <3>4, FS_Subset
    <3> QED BY <3>5, <3>6
  <2>8. CountedIsSent'
    <3>1. ASSUME NEW o \in Options PROVE redisVotes'[o] + late'[o] <= Cardinality(Sent(o)')
      <4>1. /\ redisVotes[o] \in Nat /\ late[o] \in Nat
            /\ redisVotes[o] + late[o] <= Cardinality(Sent(o))
            /\ Cardinality(Sent(o)) \in Nat /\ Cardinality(Sent(o)') \in Nat
        BY CountersType, SentFinite DEF CountInv, CountedIsSent
      <4> HIDE DEF chosen
      <4>2. CASE o = chosen
        <5>1. redisVotes \in [Options -> Nat] /\ late \in [Options \cup {None} -> Nat]
          BY DEF TypeInv, TypeOK
        <5>2. CASE redisVotes' = [redisVotes EXCEPT ![chosen] = @ + 1] /\ UNCHANGED late
          BY <2>7, <4>1, <4>2, <5>1, <5>2
        <5>3. CASE late' = [late EXCEPT ![chosen] = @ + 1] /\ UNCHANGED redisVotes
          BY <2>7, <4>1, <4>2, <5>1, <5>3
        <5> QED BY <2>4, <5>2, <5>3
      <4>3. CASE o # chosen
        <5>1. redisVotes'[o] = redisVotes[o] /\ late'[o] = late[o]
          BY <2>4, <4>3 DEF TypeInv, TypeOK
        <5> QED BY <2>6, <4>1, <5>1
      <4> QED BY <4>2, <4>3
    <3> QED BY <3>1 DEF CountedIsSent
  <2> QED BY <2>1, <2>8 DEF CountInv
(* The INCR of the total, executed or given up.                             *)
<1>5. ASSUME NEW r \in Requests, pc[r] = "incrTotal", IncrTotal(r) \/ LoseIncrement(r)
      PROVE  CountInv'
  <2>1. /\ UNCHANGED redisVotes /\ \A o \in Options : late'[o] = late[o]
    BY <1>5, VoteAssumption DEF IncrTotal, LoseIncrement, TypeInv, TypeOK
  <2>2. \A o \in Options : Cardinality(Sent(o)) <= Cardinality(Sent(o)')
    BY <1>3, <1>5, SentGrows
  <2>3. CountedIsSent'
    BY <2>1, <2>2, CountersType, SentFinite DEF CountInv, CountedIsSent
  <2> QED BY <1>3, <1>5, <2>3 DEF CountInv
<1>6. CASE Environment
  <2>1. CASE ClosePoll \/ Expire \/ AutoClose
    <3>1. /\ UNCHANGED <<input, redisVotes, late, pos, try, stored, choice, deleting,
                       pc, found>>
          /\ poll' = poll \/ (poll = "active" /\ poll' = "closed")
      BY <2>1 DEF ClosePoll, Expire, AutoClose, cache, handler
    <3> QED BY <3>1, CountFrame
  <2>2. ASSUME UNCHANGED <<input, pos, try, pc, found>>,
               \A o \in Options : redisVotes'[o] + late'[o] <= redisVotes[o] + late[o]
        PROVE  CountedIsSent' /\ PosInRange'
    <3>1. \A o : Sent(o)' = Sent(o)
      BY <2>2 DEF Sent, Attempted, Slots, input
    <3>2. ASSUME NEW o \in Options PROVE redisVotes'[o] + late'[o] <= Cardinality(Sent(o)')
      <4>1. redisVotes'[o] \in Nat /\ late'[o] \in Nat
        BY DEF TypeInv, TypeOK
      <4> QED BY <2>2, <3>1, <4>1, CountersType, SentFinite DEF CountInv, CountedIsSent
    <3> QED BY <2>2, <3>2 DEF CountInv, CountedIsSent, PosInRange, input
  <2>3. CASE DeletePoll \/ DeleteVotes
    <3>1. /\ UNCHANGED <<input, redisVotes, late, pos, try, choice, pc, found>>
          /\ stored' \subseteq stored /\ poll' = "deleted"
      BY <2>3 DEF DeletePoll, DeleteVotes, cache, handler, CountInv, ChangesAllowed
    <3>2. CountedIsSent' /\ PosInRange'
      BY <2>2, <3>1, CountersType
    <3>3. ChangesAllowed' /\ WrittenIsStored' /\ StoredAsSent'
      BY <3>1 DEF CountInv, ChangesAllowed, WrittenIsStored, StoredAsSent, input
    <3> QED BY <3>2, <3>3 DEF CountInv
  <2>4. CASE RestartRedis
    <3>1. /\ UNCHANGED <<input, store, pos, try, pc, found>>
          /\ \A o \in Options : redisVotes'[o] = 0 /\ late'[o] = 0
      BY <2>4 DEF RestartRedis, handler
    <3>2. CountedIsSent' /\ PosInRange'
      BY <2>2, <3>1, CountersType
    <3>3. ChangesAllowed' /\ WrittenIsStored' /\ StoredAsSent'
      BY <3>1 DEF CountInv, ChangesAllowed, WrittenIsStored, StoredAsSent, input, store
    <3> QED BY <3>2, <3>3 DEF CountInv
  <2>5. CASE LateTotal \/ \E o \in Options : LateOption(o)
    <3>1. UNCHANGED <<input, store, pos, try, pc, found>>
      BY <2>5 DEF LateTotal, LateOption, handler
    <3>2. ASSUME NEW o \in Options
          PROVE  redisVotes'[o] + late'[o] <= redisVotes[o] + late[o]
      <4>1. o # None /\ late \in [Options \cup {None} -> Nat] /\ redisVotes \in [Options -> Nat]
        BY VoteAssumption DEF TypeInv, TypeOK
      <4>2. CASE LateTotal
        BY <4>1, <4>2 DEF LateTotal
      <4>3. ASSUME NEW p \in Options, LateOption(p)
            PROVE  redisVotes'[o] + late'[o] <= redisVotes[o] + late[o]
        <5>1. /\ redisVotes' = [redisVotes EXCEPT ![p] = @ + 1]
              /\ late' = [late EXCEPT ![p] = @ - 1, ![None] = @ + 1]
          BY <4>3 DEF LateOption
        <5>2. CASE o = p
          BY <4>1, <5>1, <5>2
        <5>3. CASE o # p
          BY <4>1, <5>1, <5>3
        <5> QED BY <5>2, <5>3
      <4> QED BY <2>5, <4>2, <4>3
    <3>3. CountedIsSent' /\ PosInRange'
      BY <2>2, <3>1, <3>2
    <3>4. ChangesAllowed' /\ WrittenIsStored' /\ StoredAsSent'
      BY <3>1 DEF CountInv, ChangesAllowed, WrittenIsStored, StoredAsSent, input, store
    <3> QED BY <3>3, <3>4 DEF CountInv
  <2> QED BY <1>6, <2>1, <2>3, <2>4, <2>5 DEF Environment
<1>7. CASE UNCHANGED vars
  BY <1>7, CountFrame DEF vars, store, cache, handler
<1>8. ASSUME NEW r \in Requests, IncrOption(r) \/ IncrTotal(r) \/ LoseIncrement(r)
      PROVE  CountInv'
  BY <1>4, <1>5, <1>8 DEF IncrOption, IncrTotal, LoseIncrement
<1> QED BY <1>1, <1>2, <1>6, <1>7, <1>8 DEF Next

LEMMA CountInit == Init => CountInv
<1> SUFFICES ASSUME Init PROVE CountInv
  OBVIOUS
<1>1. CountedIsSent
  BY SentFinite DEF Init, CountedIsSent
<1>2. PosInRange /\ ChangesAllowed /\ WrittenIsStored /\ StoredAsSent
  BY DEF Init, PosInRange, ChangesAllowed, WrittenIsStored, StoredAsSent, Unstored
<1> QED BY <1>1, <1>2 DEF CountInv

(* What was sent for an option is in the votes collection.                  *)
LEMMA SentIsStored ==
  ASSUME TypeInv, CountInv, ~settings.allowChanges, poll # "deleted", NEW o \in Options
  PROVE  Sent(o) \subseteq StoredSelections({o}) \X (1..Attempts)
<1> SUFFICES ASSUME NEW t \in Sent(o)
             PROVE  t \in StoredSelections({o}) \X (1..Attempts)
  OBVIOUS
<1> DEFINE s == t[1]
           r == t[1][1]
           i == t[1][2]
           k == t[2]
<1>0. /\ t = <<s, k>> /\ s \in Requests \X (1..MaxSelections) /\ k \in 1..Attempts
      /\ r \in Requests /\ i \in 1..MaxSelections
      /\ i <= Len(req[r].options) /\ req[r].options[i] = o /\ Attempted(r, i, k)
  BY DEF Sent, Slots
<1>1. /\ pos[r] \in Nat /\ try[r] \in Nat /\ pc[r] \in Steps /\ i \in Nat \ {0}
      /\ k \in Nat \ {0}
  <2>1. pos[r] \in Nat /\ try[r] \in Nat /\ pc[r] \in Steps
    BY <1>0 DEF TypeInv, TypeOK
  <2> QED BY <1>0, <2>1, VoteAssumption, AttemptsType
<1>2. pc[r] \notin Uncounted
  BY <1>0, <1>1 DEF Attempted, CountInv, PosInRange, Uncounted, Unstored
<1>3. r \in stored
  BY <1>0, <1>2 DEF CountInv, WrittenIsStored, Uncounted
<1>4. choice[r] = req[r].options
  BY <1>3 DEF CountInv, StoredAsSent
<1>5. s \in StoredSelections({o})
  BY <1>0, <1>3, <1>4 DEF StoredSelections
<1> QED BY <1>0, <1>5

(* Redis never runs further ahead of MongoDB than its client's attempts:    *)
(* for any number of overlapping runs, with pipelines cut short, repeated   *)
(* or executed late, with database errors and restarts of Redis, an         *)
(* option's counter counts every selection of the option in the votes       *)
(* collection at most once per attempt, and counts nothing else.            *)
THEOREM RedisBoundedByAttempts == Spec => []CountedIsStored
<1>1. Init => TypeInv /\ CountInv
  BY TypeInit, CountInit
<1>2. (TypeInv /\ CountInv) /\ [Next]_vars => (TypeInv /\ CountInv)'
  BY TypeStep, CountStep
<1>3. TypeInv /\ CountInv => CountedIsStored
  <2> SUFFICES ASSUME TypeInv, CountInv, ~settings.allowChanges, poll # "deleted",
                      NEW o \in Options
               PROVE  redisVotes[o] <= Attempts * Tally(o)
    BY DEF CountedIsStored
  <2>1. /\ IsFiniteSet(StoredSelections({o})) /\ Tally(o) \in Nat
        /\ Tally(o) = Cardinality(StoredSelections({o}))
    BY TallyType DEF Tally, TypeInv
  <2>2. /\ IsFiniteSet(1..Attempts) /\ Cardinality(1..Attempts) = Attempts
        /\ Attempts \in Nat
    <3>1. Attempts \in Int /\ 1 \in Int /\ Attempts \in Nat /\ Attempts >= 1
      BY AttemptsType
    <3> QED BY <3>1, FS_Interval
  <2>3. /\ IsFiniteSet(StoredSelections({o}) \X (1..Attempts))
        /\ Cardinality(StoredSelections({o}) \X (1..Attempts)) = Tally(o) * Attempts
    <3> DEFINE A == StoredSelections({o})
               B == 1..Attempts
    <3>1. IsFiniteSet(A) /\ IsFiniteSet(B) /\ Cardinality(A) = Tally(o)
          /\ Cardinality(B) = Attempts
      BY <2>1, <2>2
    <3> HIDE DEF A, B
    <3>2. IsFiniteSet(A \X B) /\ Cardinality(A \X B) = Tally(o) * Attempts
      BY <3>1, FS_Product
    <3> QED BY <3>2 DEF A, B
  <2>4. Cardinality(Sent(o)) <= Tally(o) * Attempts
    <3> DEFINE P == StoredSelections({o}) \X (1..Attempts)
    <3>1. Sent(o) \in SUBSET P /\ IsFiniteSet(P) /\ Cardinality(P) = Tally(o) * Attempts
      BY <2>3, SentIsStored
    <3> HIDE DEF P
    <3>2. Cardinality(Sent(o)) <= Cardinality(P)
      BY <3>1, FS_Subset
    <3> QED BY <3>1, <3>2
  <2>5. Tally(o) * Attempts = Attempts * Tally(o) /\ Attempts * Tally(o) \in Nat
    BY <2>1, <2>2
  <2>6. redisVotes[o] + late[o] <= Cardinality(Sent(o)) /\ Cardinality(Sent(o)) \in Nat
    BY SentFinite DEF CountInv, CountedIsSent
  <2> HIDE DEF Attempts
  <2> QED BY <2>4, <2>5, <2>6, CountersType
<1> QED BY <1>1, <1>2, <1>3, PTL DEF Spec

-----------------------------------------------------------------------------
(* With nothing lost. Equalities instead of bounds: a counter counts what   *)
(* was sent to it, the total what was sent to any of them, but for the runs *)
(* between their two INCRs; and what a run reads follows from that.         *)

Counted  == {"readTotal", "readOption", "aggregate", "publish", "broadcast",
             "done", "failed"}
Between  == {r \in Requests : pc[r] = "incrTotal"}

CountedExactly == LossFree => \A o \in Options : redisVotes[o] = Cardinality(Sent(o))
TotalSeen == LossFree => \A r \in Requests : pos[r] > 1 => redisTotal >= 1
AllSent ==
  \A r \in Requests : pc[r] \in Counted => pos[r] > Len(req[r].options)
StoredRunsOn ==
  "db" \notin Events /\ ~settings.allowChanges =>
    \A r \in stored : pc[r] \notin Unstored \cup {"rejected"}

NothingLate == LossFree => \A c \in Options \cup {None} : late[c] = 0

ExactInv ==
  /\ CountedExactly /\ TotalAccounted /\ TotalSeen /\ AllSent /\ StoredRunsOn
  /\ NothingLate

(* The poll's options are finitely many, and the poll lists all of them.    *)
LEMMA OptionsFinite ==
  /\ IsFiniteSet(Options) /\ IsFiniteSet(DOMAIN PollOptions)
  /\ PollOptions \in Surjection(DOMAIN PollOptions, Options)
<1>1. DOMAIN PollOptions = 1..Len(PollOptions) /\ Len(PollOptions) \in Int /\ 1 \in Int
  BY PollOptionsType
<1>2. IsFiniteSet(DOMAIN PollOptions)
  BY <1>1, FS_Interval
<1>3. PollOptions \in [1..Len(PollOptions) -> Options]
  BY VoteAssumption, LenProperties
<1>4. PollOptions \in Surjection(DOMAIN PollOptions, Options)
  BY <1>1, <1>3 DEF Surjection, Options, Range
<1> QED BY <1>2, <1>4, FS_Surjection

LEMMA BetweenFinite ==
  /\ IsFiniteSet(Between) /\ Cardinality(Between) \in Nat
  /\ IsFiniteSet(Between') /\ Cardinality(Between') \in Nat
<1>1. Between \in SUBSET Requests /\ Between' \in SUBSET Requests
  BY DEF Between
<1> QED BY <1>1, VoteAssumption, FS_Subset, FS_CardinalityType

(* With nothing lost there is one attempt at everything.                    *)
LEMMA FirstAttempt ==
  ASSUME TypeInv, LossFree
  PROVE  /\ Attempts = 1 /\ \A x \in Requests : try[x] = 1 /\ ~Retry(x) /\ ~LoseIncrement(x)
         /\ \A t \in Slots : t[2] = 1
<1>1. Attempts = 1 /\ "redis" \notin Events
  BY AttemptsType DEF LossFree
<1>2. \A n \in 1..Attempts : n = 1
  BY <1>1
<1> QED BY <1>1, <1>2 DEF TypeInv, TypeOK, Slots, Retry, LoseIncrement

(* Steps that leave the counters and the loops over them alone.             *)
LEMMA ExactFrame ==
  ASSUME ExactInv,
         UNCHANGED <<input, redisVotes, redisTotal, late, pos, try>>,
         \A x \in Requests : /\ pc'[x] = "incrTotal" <=> pc[x] = "incrTotal"
                             /\ pc'[x] \in Counted => pc[x] \in Counted
  PROVE  CountedExactly' /\ TotalAccounted' /\ TotalSeen' /\ AllSent' /\ NothingLate'
<1>1. \A o : Sent(o)' = Sent(o)
  BY DEF Sent, Attempted, Slots, input
<1>2. Between' = Between
  BY DEF Between
<1>3. CountedExactly'
  BY <1>1 DEF ExactInv, CountedExactly, LossFree
<1>4. TotalAccounted'
  BY <1>2 DEF ExactInv, TotalAccounted, Between, LossFree
<1>5. TotalSeen' /\ AllSent' /\ NothingLate'
  BY DEF ExactInv, TotalSeen, AllSent, NothingLate, LossFree, input
<1> QED BY <1>3, <1>4, <1>5

(* One INCR of an option's counter.                                         *)
LEMMA ExactIncrOption ==
  ASSUME TypeInv, TypeInv', CountInv, ExactInv, NEW r \in Requests, IncrOption(r)
  PROVE  CountedExactly' /\ TotalAccounted' /\ TotalSeen' /\ AllSent' /\ NothingLate'
<1> DEFINE chosen == req[r].options[pos[r]]
           token == <<<<r, pos[r]>>, 1>>
<1>0. /\ pc \in [Requests -> Steps] /\ pos \in [Requests -> Nat \ {0}]
      /\ redisVotes \in [Options -> Nat] /\ redisTotal \in Nat
  BY DEF TypeInv, TypeOK
<1>1. /\ pc[r] = "incr" /\ UNCHANGED <<input, pos, try, redisTotal, late>>
      /\ redisVotes' = [redisVotes EXCEPT ![chosen] = @ + 1]
      /\ pc' = [pc EXCEPT ![r] = "incrTotal"]
  BY DEF IncrOption, handler, Goto
<1>2. /\ pos[r] \in 1..MaxSelections /\ pos[r] <= Len(req[r].options)
      /\ pos[r] \in 1..Len(req[r].options)
  BY <1>0, <1>1, InputType, VoteAssumption DEF CountInv, PosInRange, TypeInv
<1>3. chosen \in Options
  BY <1>1, <1>2, SelectionType DEF TypeInv, Admitted, Unchecked
<1>4. CountedExactly'
  <2> SUFFICES ASSUME LossFree, NEW o \in Options
               PROVE  redisVotes'[o] = Cardinality(Sent(o)')
    BY DEF CountedExactly, LossFree
  <2>1. /\ redisVotes[o] = Cardinality(Sent(o)) /\ redisVotes[o] \in Nat
        /\ IsFiniteSet(Sent(o))
    BY <1>0, SentFinite DEF ExactInv, CountedExactly
  <2>2. CASE o = chosen
    <3>0. /\ token \in Slots /\ token[1][1] = r /\ token[1][2] = pos[r] /\ token[2] = 1
          /\ \A t \in Slots : t = <<<<t[1][1], t[1][2]>>, t[2]>> /\ t[1][1] \in Requests
      BY <1>2, AttemptsType DEF Slots
    <3> HIDE DEF token
    <3>1. Sent(o)' = Sent(o) \cup {token}
      <4>1. ASSUME NEW t \in Slots
            PROVE  Attempted(t[1][1], t[1][2], t[2])'
                     <=> Attempted(t[1][1], t[1][2], t[2]) \/ t = token
        BY <1>0, <1>1, <3>0, FirstAttempt DEF Attempted, token
      <4> QED BY <1>1, <1>2, <2>2, <3>0, <4>1 DEF Sent, Slots, input
    <3>2. token \notin Sent(o)
      BY <1>0, <1>1, <3>0, FirstAttempt DEF Sent, Attempted
    <3>3. Cardinality(Sent(o) \cup {token}) = Cardinality(Sent(o)) + 1
      BY <2>1, <3>2, FS_AddElement
    <3>4. redisVotes'[o] = redisVotes[o] + 1
      BY <1>0, <1>1, <2>2
    <3> QED BY <2>1, <3>1, <3>3, <3>4
  <2>3. CASE o # chosen
    <3>1. Sent(o)' = Sent(o)
      BY <1>0, <1>1, <2>3, FirstAttempt DEF Sent, Attempted, Slots, input
    <3>2. redisVotes'[o] = redisVotes[o]
      BY <1>0, <1>1, <2>3
    <3> QED BY <2>1, <3>1, <3>2
  <2> QED BY <2>2, <2>3
<1>5. TotalAccounted'
  <2> SUFFICES ASSUME LossFree
               PROVE  redisTotal' + Cardinality(Between') = SumFunction(redisVotes')
    BY DEF TotalAccounted, Between, LossFree
  <2>1. Between' = Between \cup {r} /\ r \notin Between
    BY <1>0, <1>1 DEF Between
  <2>2. Cardinality(Between') = Cardinality(Between) + 1
    BY <2>1, BetweenFinite, FS_AddElement
  <2>3. SumFunction(redisVotes') = SumFunction(redisVotes) + 1
    <3> HIDE DEF chosen
    <3> QED BY <1>0, <1>1, <1>3, OptionsFinite, SumIncrement
  <2>4. redisTotal + Cardinality(Between) = SumFunction(redisVotes)
    BY DEF ExactInv, TotalAccounted, Between
  <2> QED BY <1>0, <1>1, <2>2, <2>3, <2>4, BetweenFinite
<1>6. TotalSeen' /\ AllSent' /\ NothingLate'
  BY <1>0, <1>1 DEF ExactInv, TotalSeen, AllSent, NothingLate, LossFree, input, Counted
<1> QED BY <1>4, <1>5, <1>6

(* The loop moves on: every selection before the next one has been sent.    *)
LEMMA AllSentNext ==
  ASSUME TypeInv, CountInv, ExactInv, NEW r \in Requests,
         pc[r] \in {"incr", "incrTotal"}, NextSelection(r) \/ Retry(r), UNCHANGED input
  PROVE  AllSent'
<1>1. /\ pc \in [Requests -> Steps] /\ pos \in [Requests -> Nat \ {0}]
      /\ Len(req[r].options) \in Nat
  BY InputType DEF TypeInv, TypeOK
<1>2. CASE NextSelection(r)
  <2>1. /\ pos' = [pos EXCEPT ![r] = pos[r] + 1]
        /\ pc' = [pc EXCEPT ![r] = IF pos[r] < Len(req[r].options)
                                   THEN "incr" ELSE "readTotal"]
    BY <1>2 DEF NextSelection, Goto
  <2> QED BY <1>1, <2>1 DEF ExactInv, AllSent, Counted, input
<1>3. CASE Retry(r)
  BY <1>1, <1>3 DEF Retry, Goto, ExactInv, AllSent, Counted, input
<1> QED BY <1>2, <1>3

(* One INCR of the total, which completes the pair.                         *)
LEMMA ExactIncrTotal ==
  ASSUME TypeInv, TypeInv', CountInv, ExactInv, NEW r \in Requests, IncrTotal(r)
  PROVE  CountedExactly' /\ TotalAccounted' /\ TotalSeen' /\ AllSent' /\ NothingLate'
<1>0. /\ pc \in [Requests -> Steps] /\ pos \in [Requests -> Nat \ {0}]
      /\ redisVotes \in [Options -> Nat] /\ redisTotal \in Nat
      /\ Len(req[r].options) \in Nat
  BY InputType DEF TypeInv, TypeOK
<1>1. /\ pc[r] = "incrTotal" /\ UNCHANGED <<input, redisVotes, late>>
      /\ redisTotal' = redisTotal + 1 /\ (NextSelection(r) \/ Retry(r))
  BY DEF IncrTotal
<1>2. AllSent'
  BY <1>1, AllSentNext
<1> SUFFICES ASSUME LossFree
             PROVE  CountedExactly' /\ TotalAccounted' /\ TotalSeen' /\ NothingLate'
  BY <1>2 DEF CountedExactly, TotalAccounted, TotalSeen, NothingLate, LossFree
<1>3. /\ pos' = [pos EXCEPT ![r] = pos[r] + 1]
      /\ try' = [try EXCEPT ![r] = 1] /\ \A x \in Requests : try[x] = 1 /\ try'[x] = 1
      /\ pc' = [pc EXCEPT ![r] = IF pos[r] < Len(req[r].options)
                                 THEN "incr" ELSE "readTotal"]
  BY <1>1, FirstAttempt DEF NextSelection, Goto, TypeInv, TypeOK
<1>4. ASSUME NEW o PROVE Sent(o)' = Sent(o)
  <2>1. \A x \in Requests, i \in 1..MaxSelections :
          Attempted(x, i, 1)' <=> Attempted(x, i, 1)
    BY <1>0, <1>1, <1>3, VoteAssumption DEF Attempted
  <2>2. \A t \in Slots : /\ t[2] = 1 /\ t[1][1] \in Requests
                         /\ t[1][2] \in 1..MaxSelections
    BY FirstAttempt DEF Slots
  <2>3. \A t \in Slots : Attempted(t[1][1], t[1][2], t[2])'
                           <=> Attempted(t[1][1], t[1][2], t[2])
    BY <2>1, <2>2
  <2> QED BY <1>1, <2>3 DEF Sent, Slots, input
<1>5. CountedExactly'
  BY <1>1, <1>4 DEF ExactInv, CountedExactly, LossFree
<1>6. TotalAccounted'
  <2> SUFFICES redisTotal' + Cardinality(Between') = SumFunction(redisVotes')
    BY DEF TotalAccounted, Between, LossFree
  <2>1. Between' = Between \ {r} /\ r \in Between
    BY <1>0, <1>1, <1>3 DEF Between
  <2>2. Cardinality(Between') = Cardinality(Between) - 1
    BY <2>1, BetweenFinite, FS_RemoveElement
  <2>3. redisTotal + Cardinality(Between) = SumFunction(redisVotes)
    BY DEF ExactInv, TotalAccounted, Between
  <2> QED BY <1>0, <1>1, <2>2, <2>3, BetweenFinite
<1>7. TotalSeen' /\ NothingLate'
  BY <1>0, <1>1 DEF ExactInv, TotalSeen, NothingLate, LossFree
<1> QED BY <1>5, <1>6, <1>7

(* A stored vote belongs to a run that goes on to count it.                 *)
LEMMA StoredRunsOnStep ==
  ASSUME TypeInv, CountInv, StoredRunsOn, [Next]_vars
  PROVE  StoredRunsOn'
<1> SUFFICES ASSUME "db" \notin Events, ~settings.allowChanges, UNCHANGED input
             PROVE  \A x \in stored' : pc'[x] \notin Unstored \cup {"rejected"}
  <2>1. UNCHANGED input
    BY DEF Next, Environment, ClosePoll, Expire, AutoClose, DeletePoll, DeleteVotes,
         RestartRedis, LateTotal, LateOption, CastVote, FetchPoll, CloseExpired, Lookup,
         SecondLookup, CreateVote, UpdateVote, DatabaseError, RecordVoterHash, IncrOption,
         IncrTotal, LoseIncrement, ReadTotal, ReadOption, LoseReplies, Aggregate, Publish,
         BroadcastLocal, vars
  <2> QED BY <2>1 DEF StoredRunsOn, input
<1>0. /\ pc \in [Requests -> Steps] /\ stored \subseteq Requests
      /\ \A x \in stored : pc[x] \notin Unstored \cup {"rejected"}
  BY DEF TypeInv, TypeOK, StoredRunsOn
<1>1. ASSUME NEW r \in Requests, CastVote(r), ~CreateVote(r), ~UpdateVote(r)
      PROVE  \A x \in stored' : pc'[x] \notin Unstored \cup {"rejected"}
  <2>1. UNCHANGED stored
    BY <1>1 DEF CastVote, FetchPoll, CloseExpired, Lookup, SecondLookup, DatabaseError,
         RecordVoterHash, IncrOption, IncrTotal, LoseIncrement, ReadTotal, ReadOption,
         LoseReplies, Aggregate, Publish, BroadcastLocal, store
  <2>2. \E step \in Steps : /\ Goto(r, step)
                            /\ step \in Unstored \cup {"rejected"} =>
                                 pc[r] \in Unstored \cup {"rejected"}
    BY <1>1 DEF CastVote, FetchPoll, CloseExpired, Lookup, SecondLookup, Existing,
         DatabaseError, RecordVoterHash, IncrOption, IncrTotal, LoseIncrement,
         NextSelection, Retry, ReadTotal, ReadOption, LoseReplies, Aggregate, Publish,
         BroadcastLocal, Steps, Unstored
  <2> QED BY <1>0, <2>1, <2>2 DEF Goto
<1>2. ASSUME NEW r \in Requests, CreateVote(r)
      PROVE  \A x \in stored' : pc'[x] \notin Unstored \cup {"rejected"}
  <2>1. stored' = stored \cup {r} /\ Goto(r, "voter")
    BY <1>2 DEF CreateVote, Acknowledged
  <2> QED BY <1>0, <2>1 DEF Goto, Unstored
<1>3. ASSUME NEW r \in Requests PROVE ~UpdateVote(r)
  BY DEF UpdateVote, CountInv, ChangesAllowed, Unstored
<1>4. CASE Environment
  <2>1. UNCHANGED pc /\ stored' \subseteq stored
    BY <1>4 DEF Environment, ClosePoll, Expire, AutoClose, DeletePoll, DeleteVotes,
         RestartRedis, LateTotal, LateOption, store
  <2> QED BY <1>0, <2>1
<1>5. CASE UNCHANGED vars
  BY <1>0, <1>5 DEF vars, store
<1> QED BY <1>1, <1>2, <1>3, <1>4, <1>5 DEF Next

LEMMA ExactStep ==
  TypeInv /\ TypeInv' /\ CountInv /\ ExactInv /\ [Next]_vars => ExactInv'
<1> SUFFICES ASSUME TypeInv, TypeInv', CountInv, ExactInv, [Next]_vars
             PROVE  CountedExactly' /\ TotalAccounted' /\ TotalSeen' /\ AllSent' /\ NothingLate'
  BY StoredRunsOnStep DEF ExactInv
<1>0. pc \in [Requests -> Steps]
  BY DEF TypeInv, TypeOK
<1>1. ASSUME NEW r \in Requests, CastVote(r), ~IncrOption(r), ~IncrTotal(r),
             ~LoseIncrement(r)
      PROVE  CountedExactly' /\ TotalAccounted' /\ TotalSeen' /\ AllSent' /\ NothingLate'
  <2>1. UNCHANGED <<input, redisVotes, redisTotal, late, pos, try>>
    BY <1>1 DEF CastVote, FetchPoll, CloseExpired, Lookup, SecondLookup, CreateVote,
         UpdateVote, DatabaseError, RecordVoterHash, ReadTotal, ReadOption, LoseReplies,
         Aggregate, Publish, BroadcastLocal, cache, handler
  <2>2. \E step \in Steps : /\ Goto(r, step) /\ pc[r] # "incrTotal" /\ step # "incrTotal"
                            /\ step \in Counted => pc[r] \in Counted
    BY <1>1 DEF CastVote, FetchPoll, CloseExpired, Lookup, SecondLookup, Existing,
         CreateVote, UpdateVote, Acknowledged, DatabaseError, RecordVoterHash, ReadTotal,
         ReadOption, LoseReplies, Aggregate, Publish, BroadcastLocal, Steps, Counted
  <2> QED BY <1>0, <2>1, <2>2, ExactFrame DEF Goto
<1>2. ASSUME NEW r \in Requests, LoseIncrement(r)
      PROVE  CountedExactly' /\ TotalAccounted' /\ TotalSeen' /\ AllSent' /\ NothingLate'
  <2>1. ~LossFree /\ ~LossFree'
    BY <1>2 DEF LoseIncrement, LossFree
  <2>2. AllSent'
    BY <1>2, AllSentNext DEF LoseIncrement
  <2> QED BY <2>1, <2>2 DEF CountedExactly, TotalAccounted, TotalSeen, NothingLate
<1>3. CASE Environment
  <2>1. CASE RestartRedis
    <3>1. ~LossFree /\ ~LossFree' /\ UNCHANGED <<input, pc, pos>>
      BY <2>1 DEF RestartRedis, LossFree, handler
    <3> QED BY <3>1 DEF ExactInv, CountedExactly, TotalAccounted, TotalSeen, AllSent,
                        NothingLate, input
  <2>2. CASE ClosePoll \/ Expire \/ AutoClose \/ DeletePoll \/ DeleteVotes
    <3>1. UNCHANGED <<input, redisVotes, redisTotal, late, pos, try, pc>>
      BY <2>2 DEF ClosePoll, Expire, AutoClose, DeletePoll, DeleteVotes, cache, handler
    <3> QED BY <3>1, ExactFrame
  <2>3. CASE LateTotal \/ \E o \in Options : LateOption(o)
    <3>1. ~LossFree /\ ~LossFree' /\ UNCHANGED <<input, pc, pos>>
      BY <2>3 DEF LateTotal, LateOption, LossFree, ExactInv, NothingLate, handler
    <3> QED BY <3>1 DEF ExactInv, CountedExactly, TotalAccounted, TotalSeen, AllSent,
                        NothingLate, input
  <2> QED BY <1>3, <2>1, <2>2, <2>3 DEF Environment
<1>4. CASE UNCHANGED vars
  BY <1>4, ExactFrame DEF vars, cache, handler
<1> QED BY <1>1, <1>2, <1>3, <1>4, ExactIncrOption, ExactIncrTotal DEF Next

LEMMA ExactInit == Init => ExactInv
<1> SUFFICES ASSUME Init PROVE ExactInv
  OBVIOUS
<1>1. ASSUME NEW o PROVE Cardinality(Sent(o)) = 0
  <2>1. Sent(o) = {}
    BY VoteAssumption, AttemptsType DEF Init, Sent, Slots, Attempted
  <2> QED BY <2>1, FS_EmptySet
<1>2. TotalAccounted
  <2>1. Between = {} /\ Cardinality({}) = 0
    BY FS_EmptySet DEF Init, Between
  <2>2. redisVotes \in [Options -> Nat] /\ \A o \in Options : redisVotes[o] = 0
    BY DEF Init
  <2>3. SumFunction(redisVotes) = 0
    BY <2>2, OptionsFinite, SumZero
  <2>4. redisTotal + Cardinality(Between) = SumFunction(redisVotes)
    BY <2>1, <2>3 DEF Init
  <2> QED BY <2>4 DEF TotalAccounted, Between
<1>3. CountedExactly
  BY <1>1 DEF Init, CountedExactly
<1>4. TotalSeen /\ AllSent /\ StoredRunsOn /\ NothingLate
  BY DEF Init, TotalSeen, AllSent, StoredRunsOn, NothingLate, Counted
<1> QED BY <1>2, <1>3, <1>4 DEF ExactInv

(* Every step keeps what the results are computed from.                     *)
LEMMA CountsStep ==
  TypeInv /\ CountInv /\ ExactInv /\ [Next]_vars => (TypeInv /\ CountInv /\ ExactInv)'
BY TypeStep, CountStep, ExactStep

(* As long as no reply and no restart of Redis is lost, each INCR of the    *)
(* total has its INCR of an option, for any number of options and runs.     *)
THEOREM TotalsAddUp == Spec => []TotalAccounted
<1>1. Init => TypeInv /\ CountInv /\ ExactInv
  BY TypeInit, CountInit, ExactInit
<1>2. TypeInv /\ CountInv /\ ExactInv => TotalAccounted
  BY DEF ExactInv
<1> QED BY <1>1, <1>2, CountsStep, PTL DEF Spec

(* With nothing lost or failed, counters and collection agree at rest.      *)
THEOREM CountersExact == Spec => []ExactAtRest
<1>1. Init => TypeInv /\ CountInv /\ ExactInv
  BY TypeInit, CountInit, ExactInit
<1>2. TypeInv /\ CountInv /\ ExactInv => ExactAtRest
  <2> SUFFICES ASSUME TypeInv, CountInv, ExactInv, LossFree, "db" \notin Events,
                      ~settings.allowChanges, poll # "deleted", AtRest,
                      NEW o \in Options
               PROVE  redisVotes[o] = Tally(o)
    BY DEF ExactAtRest
  <2>1. Attempts = 1 /\ IsFiniteSet(1..1) /\ Cardinality(1..1) = 1
    <3>1. Attempts = 1
      BY FirstAttempt
    <3>2. 1..1 = {1}
      OBVIOUS
    <3> QED BY <3>1, <3>2, FS_Singleton
  <2>2. ASSUME NEW t \in StoredSelections({o}) \X (1..1) PROVE t \in Sent(o)
    <3> DEFINE r == t[1][1]
               i == t[1][2]
    <3>1. /\ t \in Slots /\ r \in stored /\ r \in Requests
          /\ i \in 1..MaxSelections /\ i <= Len(choice[r]) /\ choice[r][i] = o
      BY <2>1 DEF StoredSelections, TypeInv, TypeOK, Slots
    <3>2. choice[r] = req[r].options
      BY <3>1 DEF CountInv, StoredAsSent
    <3>3. pc[r] \in Counted
      BY <3>1 DEF ExactInv, StoredRunsOn, AtRest, InFlight, Finished, Unstored, Counted,
           TypeInv, TypeOK, Steps
    <3>4. pos[r] > Len(req[r].options) /\ pos[r] \in Nat /\ Len(req[r].options) \in Nat
      BY <3>1, <3>3, InputType DEF ExactInv, AllSent, TypeInv, TypeOK
    <3> QED BY <3>1, <3>2, <3>4, VoteAssumption DEF Sent, Attempted
  <2>3. Sent(o) = StoredSelections({o}) \X (1..1)
    BY <2>1, <2>2, SentIsStored
  <2>4. IsFiniteSet(StoredSelections({o})) /\ Tally(o) \in Nat
        /\ Tally(o) = Cardinality(StoredSelections({o}))
    BY TallyType DEF Tally, TypeInv
  <2>5. Cardinality(Sent(o)) = Tally(o) * 1
    <3> DEFINE A == StoredSelections({o})
               B == 1..1
    <3>1. /\ IsFiniteSet(A) /\ IsFiniteSet(B) /\ Cardinality(A) = Tally(o)
          /\ Cardinality(B) = 1 /\ Sent(o) = A \X B
      BY <2>1, <2>3, <2>4
    <3> HIDE DEF A, B
    <3> QED BY <3>1, FS_Product
  <2> QED BY <2>4, <2>5 DEF ExactInv, CountedExactly
<1> QED BY <1>1, <1>2, CountsStep, PTL DEF Spec

-----------------------------------------------------------------------------
(* What a run reads when nothing is lost. It has counted its own selections *)
(* by then, so the total is not 0 and no counter of its own options is. A   *)
(* counter not yet read can only have grown when it is, so what is read and *)
(* what is still to be read never add up to less than the total read first. *)

Reading(r) == pc[r] = "readOption" \/ Answered(r)
Awaited(r) ==
  [i \in DOMAIN PollOptions |-> IF i <= Len(result[r].votes)
                                THEN result[r].votes[i] ELSE redisVotes[PollOptions[i]]]
ReadsOwn(r) ==
  \A i \in 1..Len(result[r].votes) :
    PollOptions[i] \in Range(req[r].options) => result[r].votes[i] >= 1

ReadInv ==
  LossFree => \A r \in Requests :
    /\ pc[r] \notin {"aggregate", "failed"}
    /\ pc[r] = "readOption" => Len(result[r].votes) < Len(PollOptions)
    /\ Answered(r) => Len(result[r].votes) = Len(PollOptions)
    /\ Reading(r) => ReadsOwn(r) /\ result[r].total <= SumFunction(Awaited(r))

LEMMA AwaitedType ==
  ASSUME TypeInv, NEW r \in Requests
  PROVE  /\ Awaited(r) \in [DOMAIN PollOptions -> Nat]
         /\ Len(result[r].votes) \in Nat /\ result[r].total \in Nat
         /\ result[r].votes \in [1..Len(result[r].votes) -> Nat]
<1>1. /\ Len(result[r].votes) \in Nat /\ result[r].total \in Nat
      /\ result[r].votes \in [1..Len(result[r].votes) -> Nat]
  BY LenProperties DEF TypeInv, TypeOK
<1>2. redisVotes \in [Options -> Nat]
  BY DEF TypeInv, TypeOK
<1> QED BY <1>1, <1>2, PollOptionsType DEF Awaited

(* The total read first is at most what the counters add up to.             *)
LEMMA TotalAtMost ==
  ASSUME TypeInv, ExactInv, LossFree, NEW g \in [DOMAIN PollOptions -> Nat],
         \A i \in DOMAIN PollOptions : g[i] = redisVotes[PollOptions[i]]
  PROVE  redisTotal <= SumFunction(g)
<1>1. redisVotes \in [Options -> Nat] /\ redisTotal \in Nat
  BY DEF TypeInv, TypeOK
<1>2. SumFunction(redisVotes) <= SumFunction(g)
  BY <1>1, OptionsFinite, SumReindexed
<1>3. redisTotal + Cardinality(Between) = SumFunction(redisVotes)
  BY DEF ExactInv, TotalAccounted, Between
<1>4. SumFunction(redisVotes) \in Nat /\ SumFunction(g) \in Nat
  BY <1>1, OptionsFinite, SumCounts
<1> QED BY <1>1, <1>2, <1>3, <1>4, BetweenFinite

(* A run past its loop finds its own selections counted.                    *)
LEMMA OwnCounted ==
  ASSUME TypeInv, ExactInv, LossFree, NEW r \in Requests, pc[r] \in Counted
  PROVE  /\ redisTotal >= 1 /\ Len(PollOptions) >= 1
         /\ \A o \in Range(req[r].options) : redisVotes[o] >= 1
<1>1. /\ ValidSelection(r) /\ pos[r] \in Nat
      /\ Len(req[r].options) \in Nat /\ Len(req[r].options) <= MaxSelections
      /\ DOMAIN req[r].options = 1..Len(req[r].options)
  BY InputType DEF TypeInv, TypeOK, Admitted, Unchecked, Counted
<1>2. Len(req[r].options) >= 1 /\ pos[r] > Len(req[r].options)
  BY <1>1, SelectionType DEF ExactInv, AllSent, TypeInv
<1>3. redisTotal >= 1
  BY <1>1, <1>2 DEF ExactInv, TotalSeen
<1>4. ASSUME NEW o \in Range(req[r].options) PROVE redisVotes[o] >= 1
  <2>1. PICK i \in 1..Len(req[r].options) : req[r].options[i] = o
    BY <1>1 DEF Range
  <2>2. <<<<r, i>>, 1>> \in Sent(o)
    BY <1>1, <1>2, <2>1, VoteAssumption, AttemptsType DEF Sent, Slots, Attempted
  <2>3. Cardinality(Sent(o)) # 0 /\ Cardinality(Sent(o)) \in Nat
    BY <2>2, SentFinite, FS_EmptySet
  <2>4. o \in Options
    BY <1>1, <2>1, SelectionType DEF TypeInv
  <2> QED BY <2>3, <2>4 DEF ExactInv, CountedExactly
<1>5. Len(PollOptions) >= 1
  <2>1. req[r].options[1] \in Options
    BY <1>1, <1>2, SelectionType DEF TypeInv
  <2> QED BY <2>1, PollOptionsType DEF Options, Range
<1> QED BY <1>3, <1>4, <1>5

(* While a run does not read, what it has read and awaits can only grow.    *)
LEMMA ReadFrame ==
  ASSUME TypeInv, TypeInv', ReadInv, UNCHANGED input, NEW r \in Requests, LossFree,
         result'[r] = result[r],
         \A o \in Options : redisVotes'[o] >= redisVotes[o],
         pc'[r] \in {"aggregate", "failed"} => pc[r] \in {"aggregate", "failed"},
         pc'[r] = "readOption" => pc[r] = "readOption",
         Answered(r)' => Answered(r)
  PROVE  /\ pc'[r] \notin {"aggregate", "failed"}
         /\ pc'[r] = "readOption" => Len(result'[r].votes) < Len(PollOptions)
         /\ Answered(r)' => Len(result'[r].votes) = Len(PollOptions)
         /\ Reading(r)' => ReadsOwn(r)' /\ result'[r].total <= SumFunction(Awaited(r)')
<1>1. ASSUME Reading(r)' PROVE ReadsOwn(r)' /\ result'[r].total <= SumFunction(Awaited(r)')
  <2>1. Reading(r)
    BY <1>1 DEF Reading
  <2>2. ReadsOwn(r) /\ result[r].total <= SumFunction(Awaited(r))
    BY <2>1 DEF ReadInv
  <2>3. ReadsOwn(r)'
    BY <2>2 DEF ReadsOwn, input
  <2>4. Awaited(r)' \in [DOMAIN PollOptions -> Nat]
    <3>1. /\ Len(result'[r].votes) \in Nat
          /\ result'[r].votes \in [1..Len(result'[r].votes) -> Nat]
      BY LenProperties DEF TypeInv, TypeOK
    <3>2. redisVotes' \in [Options -> Nat]
      BY DEF TypeInv, TypeOK
    <3> QED BY <3>1, <3>2, PollOptionsType DEF Awaited
  <2>5. \A i \in DOMAIN PollOptions : Awaited(r)[i] <= Awaited(r)'[i]
    <3>1. redisVotes \in [Options -> Nat] /\ redisVotes' \in [Options -> Nat]
      BY DEF TypeInv, TypeOK
    <3> QED BY <3>1, AwaitedType, PollOptionsType DEF Awaited
  <2>6. SumFunction(Awaited(r)) <= SumFunction(Awaited(r)')
    BY <2>4, <2>5, AwaitedType, OptionsFinite, SumMonotone
  <2>7. SumFunction(Awaited(r)) \in Nat /\ SumFunction(Awaited(r)') \in Nat
    BY <2>4, AwaitedType, OptionsFinite, SumCounts
  <2> QED BY <2>2, <2>3, <2>6, <2>7, AwaitedType
<1> QED BY <1>1 DEF ReadInv

(* GET total.                                                               *)
LEMMA ReadTotalKeeps ==
  ASSUME TypeInv, TypeInv', ExactInv, ReadInv, LossFree, NEW r \in Requests, ReadTotal(r)
  PROVE  /\ pc'[r] = "readOption" /\ ~Answered(r)'
         /\ Len(result'[r].votes) < Len(PollOptions)
         /\ ReadsOwn(r)' /\ result'[r].total <= SumFunction(Awaited(r)')
<1>0. /\ pc \in [Requests -> Steps] /\ redisTotal \in Nat
      /\ result \in [Requests -> [total : Nat, votes : Seq(Nat)]]
  BY DEF TypeInv, TypeOK
<1>1. redisTotal >= 1 /\ Len(PollOptions) >= 1
  BY OwnCounted DEF ReadTotal, Counted
<1>2. "redis" \notin Events
  BY DEF LossFree
<1>3. /\ result' = [result EXCEPT ![r] = [total |-> redisTotal, votes |-> <<>>]]
      /\ Goto(r, "readOption") /\ UNCHANGED redisVotes
  BY <1>0, <1>1, <1>2 DEF ReadTotal, cache
<1>4. /\ result'[r].total = redisTotal /\ result'[r].votes = <<>>
      /\ pc'[r] = "readOption"
  BY <1>0, <1>3 DEF Goto
<1>5. Len(result'[r].votes) = 0
  BY <1>4, EmptySeq
<1>6. Awaited(r)' = [i \in DOMAIN PollOptions |-> redisVotes[PollOptions[i]]]
  BY <1>3, <1>5, PollOptionsType DEF Awaited
<1>7. Awaited(r)' \in [DOMAIN PollOptions -> Nat]
  BY <1>6, PollOptionsType DEF TypeInv, TypeOK
<1>8. result'[r].total <= SumFunction(Awaited(r)')
  <2> DEFINE g == Awaited(r)'
  <2>1. g \in [DOMAIN PollOptions -> Nat]
        /\ \A i \in DOMAIN PollOptions : g[i] = redisVotes[PollOptions[i]]
    BY <1>6, <1>7
  <2> HIDE DEF g
  <2>2. redisTotal <= SumFunction(g)
    BY <2>1, TotalAtMost
  <2> QED BY <1>4, <2>2 DEF g
<1> QED BY <1>1, <1>4, <1>5, <1>8, PollOptionsType DEF ReadsOwn, Answered

(* GET option: what was awaited is what is read.                            *)
LEMMA ReadOptionKeeps ==
  ASSUME TypeInv, TypeInv', ExactInv, ReadInv, LossFree, NEW r \in Requests, ReadOption(r)
  PROVE  /\ pc'[r] \notin {"aggregate", "failed"}
         /\ pc'[r] = "readOption" => Len(result'[r].votes) < Len(PollOptions)
         /\ Answered(r)' => Len(result'[r].votes) = Len(PollOptions)
         /\ ReadsOwn(r)' /\ result'[r].total <= SumFunction(Awaited(r)')
<1> DEFINE old == result[r].votes
           i == Len(old) + 1
           new == Append(old, redisVotes[PollOptions[i]])
<1>0. /\ pc \in [Requests -> Steps] /\ redisVotes \in [Options -> Nat]
      /\ result \in [Requests -> [total : Nat, votes : Seq(Nat)]]
      /\ old \in Seq(Nat) /\ Len(old) \in Nat
  BY LenProperties DEF TypeInv, TypeOK
<1>1. /\ pc[r] = "readOption" /\ i <= Len(PollOptions) /\ UNCHANGED <<redisVotes, req>>
      /\ result' = [result EXCEPT ![r].votes = new]
      /\ Goto(r, IF i < Len(PollOptions) THEN "readOption" ELSE "publish")
  BY DEF ReadOption, cache, input
<1>2. i \in 1..Len(PollOptions) /\ PollOptions[i] \in Options
  BY <1>0, <1>1, PollOptionsType
<1>3. /\ Len(new) = i /\ new[i] = redisVotes[PollOptions[i]]
      /\ \A j \in 1..Len(old) : new[j] = old[j]
  BY <1>0, <1>2, AppendProperties
<1>4. /\ result'[r].votes = new /\ result'[r].total = result[r].total
      /\ pc'[r] = IF i < Len(PollOptions) THEN "readOption" ELSE "publish"
  BY <1>0, <1>1 DEF Goto
<1> HIDE DEF new
<1>5. Awaited(r)' = Awaited(r)
  <2>1. \A j \in DOMAIN PollOptions :
          (IF j <= i THEN new[j] ELSE redisVotes[PollOptions[j]])
            = (IF j <= Len(old) THEN old[j] ELSE redisVotes[PollOptions[j]])
    BY <1>0, <1>2, <1>3, PollOptionsType
  <2> QED BY <1>1, <1>3, <1>4, <2>1 DEF Awaited
<1>6. ReadsOwn(r) /\ result[r].total <= SumFunction(Awaited(r))
  BY <1>1 DEF ReadInv, Reading
<1>7. ReadsOwn(r)'
  <2>1. \A o \in Range(req[r].options) : redisVotes[o] >= 1
    BY <1>1, OwnCounted DEF Counted
  <2>2. ASSUME NEW j \in 1..i, PollOptions[j] \in Range(req[r].options)
        PROVE  new[j] >= 1
    <3>1. CASE j = i
      BY <1>3, <2>1, <2>2, <3>1
    <3>2. CASE j # i
      <4>1. j \in 1..Len(old)
        BY <1>0, <3>2
      <4> QED BY <1>3, <1>6, <2>2, <4>1 DEF ReadsOwn
    <3> QED BY <3>1, <3>2
  <2> QED BY <1>1, <1>3, <1>4, <2>2 DEF ReadsOwn
<1> QED BY <1>0, <1>1, <1>3, <1>4, <1>5, <1>6, <1>7, PollOptionsType DEF Answered

LEMMA ReadStep ==
  TypeInv /\ TypeInv' /\ CountInv /\ ExactInv /\ ReadInv /\ [Next]_vars => ReadInv'
<1> SUFFICES ASSUME TypeInv, TypeInv', CountInv, ExactInv, ReadInv, [Next]_vars, LossFree
             PROVE  ReadInv'
  BY DEF ReadInv, LossFree
<1>0. /\ pc \in [Requests -> Steps] /\ redisVotes \in [Options -> Nat]
      /\ result \in [Requests -> [total : Nat, votes : Seq(Nat)]]
  BY DEF TypeInv, TypeOK
<1> DEFINE Good(x) == /\ pc'[x] \notin {"aggregate", "failed"}
                      /\ pc'[x] = "readOption" => Len(result'[x].votes) < Len(PollOptions)
                      /\ Answered(x)' => Len(result'[x].votes) = Len(PollOptions)
                      /\ Reading(x)' => /\ ReadsOwn(x)'
                                        /\ result'[x].total <= SumFunction(Awaited(x)')
<1>1. SUFFICES \A x \in Requests : Good(x)
  BY DEF ReadInv
<1>2. ASSUME NEW r \in Requests, CastVote(r), ~ReadTotal(r), ~ReadOption(r)
      PROVE  \A x \in Requests : Good(x)
  <2>1. ~LoseReplies(r) /\ ~Aggregate(r)
    BY DEF LoseReplies, Aggregate, ReadInv, LossFree
  <2>2. UNCHANGED <<input, result>>
    BY <1>2, <2>1 DEF CastVote, FetchPoll, CloseExpired, Lookup, SecondLookup, CreateVote,
         UpdateVote, DatabaseError, RecordVoterHash, IncrOption, IncrTotal, LoseIncrement,
         Publish, BroadcastLocal, handler
  <2>3. \A o \in Options : redisVotes'[o] >= redisVotes[o]
    <3>1. CASE IncrOption(r)
      <4> DEFINE chosen == req[r].options[pos[r]]
      <4>1. redisVotes' = [redisVotes EXCEPT ![chosen] = @ + 1]
        BY <3>1 DEF IncrOption
      <4> HIDE DEF chosen
      <4> QED BY <1>0, <4>1
    <3>2. CASE ~IncrOption(r)
      <4>1. UNCHANGED redisVotes
        BY <1>2, <2>1, <3>2 DEF CastVote, FetchPoll, CloseExpired, Lookup, SecondLookup,
             CreateVote, UpdateVote, DatabaseError, RecordVoterHash, IncrTotal,
             LoseIncrement, Publish, BroadcastLocal, cache
      <4> QED BY <1>0, <4>1
    <3> QED BY <3>1, <3>2
  <2>4. \E step \in Steps :
          /\ Goto(r, step)
          /\ step \in {"aggregate", "failed"} => pc[r] \in {"aggregate", "failed"}
          /\ step # "readOption"
          /\ step \in {"publish", "broadcast", "done"} =>
               pc[r] \in {"publish", "broadcast", "done"}
    BY <1>2, <2>1 DEF CastVote, FetchPoll, CloseExpired, Lookup, SecondLookup, Existing,
         CreateVote, UpdateVote, Acknowledged, DatabaseError, RecordVoterHash, IncrOption,
         IncrTotal, LoseIncrement, NextSelection, Retry, Publish, BroadcastLocal, Steps
  <2>5. ASSUME NEW x \in Requests
        PROVE  /\ pc'[x] \in {"aggregate", "failed"} => pc[x] \in {"aggregate", "failed"}
               /\ pc'[x] = "readOption" => pc[x] = "readOption"
               /\ Answered(x)' => Answered(x)
    BY <1>0, <2>4 DEF Goto, Answered
  <2> QED BY <2>2, <2>3, <2>5, ReadFrame
<1>3. ASSUME NEW r \in Requests, ReadTotal(r) \/ ReadOption(r)
      PROVE  \A x \in Requests : Good(x)
  <2>1. UNCHANGED <<input, redisVotes>> /\ \E step \in Steps : Goto(r, step)
    BY <1>3 DEF ReadTotal, ReadOption, cache, Steps
  <2>2. \A x \in Requests \ {r} : pc'[x] = pc[x] /\ result'[x] = result[x]
    BY <1>0, <1>3, <2>1 DEF ReadTotal, ReadOption, Goto
  <2>3. \A o \in Options : redisVotes'[o] >= redisVotes[o]
    BY <1>0, <2>1
  <2>4. \A x \in Requests \ {r} : Good(x)
    BY <2>1, <2>2, <2>3, ReadFrame DEF Answered
  <2>5. Good(r)
    BY <1>3, ReadTotalKeeps, ReadOptionKeeps
  <2> QED BY <2>4, <2>5
<1>4. CASE Environment
  <2>1. ~RestartRedis /\ ~LateTotal /\ \A o \in Options : ~LateOption(o)
    BY DEF RestartRedis, LateTotal, LateOption, LossFree, ExactInv, NothingLate
  <2>2. UNCHANGED <<input, pc, result, redisVotes>>
    BY <1>4, <2>1 DEF Environment, ClosePoll, Expire, AutoClose, DeletePoll, DeleteVotes,
         cache, handler
  <2> QED BY <1>0, <2>2, ReadFrame DEF Answered
<1>5. CASE UNCHANGED vars
  BY <1>0, <1>5, ReadFrame DEF vars, cache, handler, Answered
<1> QED BY <1>2, <1>3, <1>4, <1>5 DEF Next

LEMMA ReadInit == Init => ReadInv
BY DEF Init, ReadInv, Reading, Answered

(* The answer to a vote counts that vote: no interleaving of other runs,    *)
(* closes or deletions makes it miss a selection its own run has made.      *)
THEOREM VotersSeeTheirVote == Spec => []OwnVoteVisible
<1>1. Init => TypeInv /\ CountInv /\ ExactInv /\ ReadInv
  BY TypeInit, CountInit, ExactInit, ReadInit
<1>2. (TypeInv /\ CountInv /\ ExactInv) /\ ReadInv /\ [Next]_vars =>
        (TypeInv /\ CountInv /\ ExactInv)' /\ ReadInv'
  BY CountsStep, ReadStep
<1>3. TypeInv /\ ReadInv => OwnVoteVisible
  BY PollOptionsType DEF ReadInv, OwnVoteVisible, Reading, ReadsOwn
<1> QED BY <1>1, <1>2, <1>3, PTL DEF Spec

(* A read torn by other runs overcounts, never undercounts: its options add *)
(* up to at least the total it gives.                                       *)
THEOREM TornReadsOvercount == Spec => []ReadNeverUndercounts
<1>1. Init => TypeInv /\ CountInv /\ ExactInv /\ ReadInv
  BY TypeInit, CountInit, ExactInit, ReadInit
<1>2. (TypeInv /\ CountInv /\ ExactInv) /\ ReadInv /\ [Next]_vars =>
        (TypeInv /\ CountInv /\ ExactInv)' /\ ReadInv'
  BY CountsStep, ReadStep
<1>3. TypeInv /\ ReadInv => ReadNeverUndercounts
  <2> SUFFICES ASSUME TypeInv, ReadInv, LossFree, NEW r \in Requests, Answered(r)
               PROVE  result[r].total <= SumFunction(result[r].votes)
    BY DEF ReadNeverUndercounts
  <2>1. /\ Len(result[r].votes) = Len(PollOptions)
        /\ result[r].total <= SumFunction(Awaited(r))
    BY DEF ReadInv, Reading
  <2>2. Awaited(r) = result[r].votes
    BY <2>1, AwaitedType, PollOptionsType DEF Awaited
  <2> QED BY <2>1, <2>2
<1> QED BY <1>1, <1>2, <1>3, PTL DEF Spec

=============================================================================
