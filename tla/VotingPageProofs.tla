-------------------------- MODULE VotingPageProofs --------------------------
(* Proofs about VotingPage, for any polls, options, settings and bounds.    *)
EXTENDS VotingPage, TLAPS

(* The token that getOrCreateVoterId finds or makes.                        *)
LEMMA VoterIdTyped ==
  ASSUME TypeOK, KeepToken
  PROVE  /\ VoterId \in Tokens /\ made' \in 0..MaxTokens
         /\ stores' \in [local : Tokens \cup {None}, cookie : Tokens \cup {None},
                         legacy : Tokens \cup {None}]
         /\ print' \in Prints /\ estranged' \in BOOLEAN
<1>1. MaxTokens \in Nat
  BY VotingAssumption
<1>2. Saved \in Tokens \cup {None}
  BY DEF Saved, TypeOK
<1>3. CASE Matches
  BY <1>1, <1>2, <1>3 DEF Matches, VoterId, KeepToken, TypeOK, device
<1>4. CASE ~Matches
  <2>1. made + 1 \in 0..MaxTokens /\ made' = made + 1 /\ UNCHANGED print
    BY <1>1, <1>4 DEF KeepToken, TypeOK
  <2>2. VoterId \in Tokens
    BY <1>4, <2>1 DEF VoterId, Tokens, TypeOK
  <2>3. PICK local \in {stores.local, VoterId}, cookie \in {stores.cookie, VoterId} :
           stores' = [stores EXCEPT !.local = local, !.cookie = cookie]
    BY <1>4 DEF KeepToken
  <2>4. estranged' \in BOOLEAN
    BY <1>4 DEF KeepToken, TypeOK
  <2> QED BY <2>1, <2>2, <2>3, <2>4 DEF TypeOK
<1> QED BY <1>3, <1>4

LEMMA NoneIsNoPoll == None \notin Polls /\ None \notin Tokens
BY VotingAssumption DEF Tokens

LEMMA FormOpenHasPoll == TypeOK /\ FormOpen => page.poll \in Polls
BY DEF FormOpen, View, TypeOK

LEMMA InitTyped == Init => TypeOK
<1> SUFFICES ASSUME Init PROVE TypeOK
  OBVIOUS
<1>1. \E p \in Polls : page = [Fresh EXCEPT !.url = p] /\ fetching = {p}
  BY DEF Init
<1>2. /\ page \in [url : Polls, poll : Polls \cup {None}, shut : BOOLEAN,
                   loading : BOOLEAN, error : BOOLEAN, selected : SUBSET Options,
                   hasVoted : BOOLEAN, submitting : BOOLEAN]
      /\ fetching \subseteq Polls
  BY <1>1 DEF Fresh
<1>3. signedIn \in Users
  BY DEF Init, Users
<1>4. <<print, 0>> \in Tokens /\ 0 \in 0..MaxTokens /\ 0 \in 0..MaxEvents /\ 0 \in 0..MaxRequests
  BY VotingAssumption DEF Init, Tokens
<1> QED BY <1>2, <1>3, <1>4 DEF Init, TypeOK

(* The requests of a page that is left, and of one whose request ends.      *)
LEMMA RequestsTyped ==
  ASSUME NEW r \in Request
  PROVE  /\ \A how \in {"left", "gone"} : [r EXCEPT !.at = how] \in Request
         /\ r.vote \in Vote
BY DEF Request

(* At the server a request goes on, or is over and nobody waits for it.     *)
Same(q, r) == q.vote = r.vote /\ q.user = r.user /\ q.nth = r.nth /\ q.at = r.at

Goes(r, q) ==
  /\ q \in Request /\ Same(q, r)
  /\ \/ requests' = (requests \ {r}) \cup {q}
     \/ r.at = "gone" /\ requests' = requests \ {r}

LEMMA ReplyGoes ==
  ASSUME NEW r \in Request, NEW stage \in {"accepted", "rejected"}, Reply(r, stage)
  PROVE  \E q : Goes(r, q) /\ q.stage = stage
<1> DEFINE q == [r EXCEPT !.stage = stage]
<1>1. q \in Request /\ Same(q, r) /\ q.stage = stage
  BY DEF Request, Same
<1>2. requests' = (requests \ {r}) \cup {q} \/ (r.at = "gone" /\ requests' = requests \ {r})
  BY DEF Reply
<1> QED BY <1>1, <1>2 DEF Goes

LEMMA CheckGoes ==
  ASSUME TypeOK, NEW r \in requests, CheckVote(r)
  PROVE  \E q : /\ Goes(r, q) /\ r.stage = "sent" /\ q.stage \in {"checked", "rejected"}
                /\ q.stage = "checked" /\ q.found = 0 => Existing(r) = {}
<1>0. r \in Request /\ MaxRequests \in Nat /\ r.stage = "sent"
  BY VotingAssumption DEF TypeOK, CheckVote
<1> DEFINE Q(n) == [r EXCEPT !.stage = "checked", !.found = n]
<1>1. \A n \in 0..MaxRequests : Q(n) \in Request /\ Same(Q(n), r) /\ Q(n).stage = "checked"
                                /\ Q(n).found = n
  BY <1>0 DEF Request, Same
<1>2. \/ Existing(r) = {} /\ requests' = (requests \ {r}) \cup {Q(0)}
      \/ \E b \in Existing(r) : requests' = (requests \ {r}) \cup {Q(b.nth)}
      \/ Reply(r, "rejected")
  BY DEF CheckVote
<1> HIDE DEF Q
<1>3. CASE Existing(r) = {} /\ requests' = (requests \ {r}) \cup {Q(0)}
  BY <1>0, <1>1, <1>3 DEF Goes
<1>4. ASSUME NEW b \in Existing(r), requests' = (requests \ {r}) \cup {Q(b.nth)}
      PROVE  \E q : /\ Goes(r, q) /\ r.stage = "sent" /\ q.stage \in {"checked", "rejected"}
                    /\ q.stage = "checked" /\ q.found = 0 => Existing(r) = {}
  <2>1. b.nth \in 1..MaxRequests
    BY DEF Existing, TypeOK, Ballot
  <2>2. b.nth \in 0..MaxRequests /\ b.nth # 0
    BY <1>0, <2>1
  <2> QED BY <1>0, <1>1, <1>4, <2>2 DEF Goes
<1>5. CASE Reply(r, "rejected")
  BY <1>0, <1>5, ReplyGoes
<1> QED BY <1>2, <1>3, <1>4, <1>5

LEMMA WriteGoes ==
  ASSUME TypeOK, NEW r \in requests, WriteVote(r)
  PROVE  \E q : /\ Goes(r, q) /\ r.stage = "checked"
                /\ \/ q.stage = "accepted" /\ accepted' = accepted \cup {r.vote}
                   \/ q.stage = "rejected" /\ UNCHANGED accepted
<1>1. r \in Request /\ r.stage = "checked"
  BY DEF TypeOK, WriteVote
<1>2. \/ Reply(r, "accepted") /\ accepted' = accepted \cup {r.vote}
      \/ Reply(r, "rejected") /\ UNCHANGED accepted
  BY DEF WriteVote
<1> QED BY <1>1, <1>2, ReplyGoes

PageType == [url : Polls, poll : Polls \cup {None}, shut : BOOLEAN,
             loading : BOOLEAN, error : BOOLEAN, selected : SUBSET Options,
             hasVoted : BOOLEAN, submitting : BOOLEAN]

LEMMA NextTyped == TypeOK /\ [Next]_vars => TypeOK'
<1> SUFFICES ASSUME TypeOK, [Next]_vars PROVE TypeOK'
  OBVIOUS
<1> USE DEF PageType
<1>0. MaxTokens \in Nat /\ MaxRequests \in Nat /\ MaxEvents \in Nat
  BY VotingAssumption
<1>a. page \in PageType
  BY DEF TypeOK
<1>b. \A e : Happens(e) => events' \in 0..MaxEvents
  BY <1>0 DEF Happens, TypeOK
<1>1. ASSUME NEW p \in Polls, NEW how \in {"left", "gone"}, Open(p, how) PROVE TypeOK'
  <2>1. requests' \subseteq Request
    BY <1>1, RequestsTyped DEF Open, Abandon, TypeOK
  <2>2. page' \in PageType
    BY <1>1 DEF Open, Fresh
  <2> QED BY <1>1, <1>b, <2>1, <2>2 DEF Open, Abandon, TypeOK, server, device
<1>2. ASSUME NEW p \in Polls, Switch(p) PROVE TypeOK'
  BY <1>2, <1>b DEF Switch, TypeOK, server, device
<1>3. ASSUME NEW p \in Polls, FetchDone(p) PROVE TypeOK'
  <2>1. VoterId \in Tokens /\ made' \in 0..MaxTokens
        /\ stores' \in [local : Tokens \cup {None}, cookie : Tokens \cup {None},
                         legacy : Tokens \cup {None}]
        /\ print' \in Prints /\ estranged' \in BOOLEAN
    BY <1>3, VoterIdTyped DEF FetchDone
  <2>2. page' \in PageType
    <3> DEFINE S == [page EXCEPT !.poll = p, !.shut = p \in closed, !.loading = FALSE]
    <3>1. S \in PageType
      <4>1. \A b \in BOOLEAN : [page EXCEPT !.poll = p, !.shut = b, !.loading = FALSE] \in PageType
        BY <1>a
      <4>2. (p \in closed) \in BOOLEAN
        OBVIOUS
      <4> QED BY <4>1, <4>2, Zenon
    <3>2. \/ page' = S
          \/ \E v \in kept : page' = [S EXCEPT !.selected = v.options, !.hasVoted = TRUE]
      <4> DEFINE Votes == {v \in kept : v.poll = p /\ v.token = VoterId}
      <4>1. \/ page' = S
            \/ \E v \in Votes : page' = [S EXCEPT !.selected = v.options, !.hasVoted = TRUE]
        BY <1>3 DEF FetchDone
      <4> HIDE DEF S
      <4> QED BY <4>1
    <3>3. \A v \in kept : v.options \in SUBSET Options
      BY DEF TypeOK, Vote
    <3> HIDE DEF S
    <3> QED BY <3>1, <3>2, <3>3
  <2> QED BY <1>3, <2>1, <2>2 DEF FetchDone, TypeOK, server, limits
<1>4. ASSUME NEW p \in Polls, FetchFails(p) PROVE TypeOK'
  BY <1>4 DEF FetchFails, TypeOK, server, device, limits
<1>5. ASSUME NEW p \in Polls, ClosePoll(p) PROVE TypeOK'
  BY <1>5, <1>b DEF ClosePoll, TypeOK, device, form
<1>6. ASSUME NEW o \in Options, handleOptionSelect(o) PROVE TypeOK'
  <2>1. PICK S \in SUBSET Options : page' = [page EXCEPT !.selected = S]
    BY <1>6, <1>a DEF handleOptionSelect
  <2>2. page' \in PageType
    BY <1>a, <2>1
  <2> QED BY <1>6, <2>2 DEF handleOptionSelect, TypeOK, server, device, limits
<1>7. CASE handleVoteSubmit
  <2>1. VoterId \in Tokens /\ made' \in 0..MaxTokens
        /\ stores' \in [local : Tokens \cup {None}, cookie : Tokens \cup {None},
                         legacy : Tokens \cup {None}]
        /\ print' \in Prints /\ estranged' \in BOOLEAN
    BY <1>7, VoterIdTyped DEF handleVoteSubmit
  <2>2. page.poll \in Polls /\ page.selected \in SUBSET Options
    BY <1>7, <1>a, FormOpenHasPoll DEF handleVoteSubmit
  <2>3. [vote |-> [poll |-> page.poll, token |-> VoterId, options |-> page.selected],
         user |-> signedIn, nth |-> sent + 1, at |-> "page", stage |-> "sent",
         found |-> 0] \in Request
    <3>1. sent + 1 \in 1..MaxRequests /\ 0 \in 0..MaxRequests
      BY <1>0, <1>7 DEF handleVoteSubmit, TypeOK
    <3> QED BY <2>1, <2>2, <3>1 DEF Request, Vote, TypeOK
  <2>4. requests' \subseteq Request /\ overlapped' \in BOOLEAN
    BY <1>7, <2>3 DEF handleVoteSubmit, TypeOK
  <2>5. page' \in PageType
    BY <1>7, <1>a DEF handleVoteSubmit
  <2>6. sent' \in 0..MaxRequests
    BY <1>0, <1>7 DEF handleVoteSubmit, TypeOK
  <2> QED BY <1>7, <2>1, <2>4, <2>5, <2>6 DEF handleVoteSubmit, TypeOK, server
<1>8. CASE ChangeChoice
  BY <1>8 DEF ChangeChoice, TypeOK, server, device, limits
<1>9. ASSUME NEW r \in requests, CheckVote(r) \/ WriteVote(r) PROVE TypeOK'
  <2>1. r \in Request /\ r.vote \in Vote /\ r.user \in Users /\ r.nth \in 1..MaxRequests
    BY RequestsTyped DEF TypeOK, Request
  <2>2. requests' \subseteq Request
    <3>1. PICK q : Goes(r, q)
      BY <1>9, CheckGoes, WriteGoes
    <3> QED BY <3>1 DEF Goes, TypeOK
  <2>3. CASE CheckVote(r)
    <3>1. UNCHANGED <<settings, closed, ballots, accepted, print, stores, made, estranged, kept>>
          /\ UNCHANGED <<signedIn, fetching, page, switched, touched, sent, overlapped, events>>
      BY <2>3 DEF CheckVote, server, device, form, limits
    <3> QED BY <2>2, <3>1 DEF TypeOK
  <2>4. CASE WriteVote(r)
    <3>1. accepted' \subseteq Vote
      BY <2>1, <2>4 DEF WriteVote, TypeOK
    <3>2. \A b \in ballots : [b EXCEPT !.vote.options = r.vote.options] \in Ballot
      <4>1. \A v \in Vote : [v EXCEPT !.options = r.vote.options] \in Vote
        BY <2>1 DEF Vote
      <4>2. \A b \in Ballot : [b EXCEPT !.vote = [b.vote EXCEPT !.options = r.vote.options]] \in Ballot
        BY <4>1 DEF Ballot
      <4> QED BY <4>2 DEF TypeOK
    <3>3. [vote |-> r.vote, user |-> r.user, nth |-> r.nth] \in Ballot
      BY <2>1 DEF Ballot
    <3>4. \/ ballots' = ballots \cup {[vote |-> r.vote, user |-> r.user, nth |-> r.nth]}
          \/ ballots' = {IF b.nth = r.found THEN [b EXCEPT !.vote.options = r.vote.options]
                         ELSE b : b \in ballots}
          \/ ballots' = ballots
      BY <2>4 DEF WriteVote
    <3>5. ballots' \subseteq Ballot
      BY <3>2, <3>3, <3>4 DEF TypeOK
    <3> QED BY <2>2, <2>4, <3>1, <3>5 DEF WriteVote, TypeOK, device, form, limits
  <2> QED BY <1>9, <2>3, <2>4
<1>10. ASSUME NEW r \in requests, VoteDone(r) PROVE TypeOK'
  <2>1. r.vote \in Vote
    BY RequestsTyped DEF TypeOK
  <2>2. kept' \subseteq kept \cup {r.vote} /\ requests' \subseteq requests
    BY <1>10 DEF VoteDone, Remember
  <2>3. page' \in PageType
    BY <1>10, <1>a DEF VoteDone
  <2> QED BY <1>10, <2>1, <2>2, <2>3 DEF VoteDone, TypeOK, server, device, limits
<1>11. ASSUME NEW r \in requests, VoteFails(r) PROVE TypeOK'
  <2>1. requests' \subseteq requests \cup {[r EXCEPT !.at = "gone"]}
    BY <1>11 DEF VoteFails
  <2>2. requests' \subseteq Request
    BY <2>1, RequestsTyped DEF TypeOK
  <2>3. page' \in PageType
    BY <1>11, <1>a DEF VoteFails
  <2> QED BY <1>11, <2>2, <2>3 DEF VoteFails, TypeOK, server, device, limits
<1>12. CASE ClearStorage \/ ClearCookies
  <2>1. /\ stores' \in [local : Tokens \cup {None}, cookie : Tokens \cup {None},
                        legacy : Tokens \cup {None}]
        /\ kept' \subseteq kept /\ estranged' \in BOOLEAN
    BY <1>12 DEF ClearStorage, ClearCookies, Clear, TypeOK
  <2> QED BY <1>12, <1>b, <2>1 DEF ClearStorage, ClearCookies, Clear, TypeOK, server, form
<1>13. CASE Session
  BY <1>13, <1>b DEF Session, TypeOK, server, device, form
<1>14. ASSUME NEW f \in Prints, ChangePrint(f) PROVE TypeOK'
  BY <1>14, <1>b DEF ChangePrint, TypeOK, server, form
<1>15. CASE UNCHANGED vars
  BY <1>15 DEF vars, TypeOK, server, device, form, limits
<1> QED BY <1>1, <1>2, <1>3, <1>4, <1>5, <1>6, <1>7, <1>8, <1>9, <1>10, <1>11, <1>12, <1>13,
           <1>14, <1>15 DEF Next

(* The page's state, and what the browser keeps, is well typed.             *)
THEOREM VotingTyped == Spec => []TypeOK
BY InitTyped, NextTyped, PTL DEF Spec

-----------------------------------------------------------------------------
(* The vote remembered: the server has accepted every vote in whose answer  *)
(* the page would find an acceptance.                                       *)

KeptInv ==
  /\ kept \subseteq accepted
  /\ \A r \in requests : r.stage = "accepted" => r.vote \in accepted

LEMMA KeptNext == TypeOK /\ KeptInv /\ [Next]_vars => KeptInv'
<1> SUFFICES ASSUME TypeOK, KeptInv, [Next]_vars PROVE KeptInv'
  OBVIOUS
<1>0. requests \subseteq Request
  BY DEF TypeOK
<1>1. ASSUME NEW p \in Polls, NEW how \in {"left", "gone"}, Open(p, how) PROVE KeptInv'
  <2>1. \A r \in requests' : \E q \in requests : r.stage = q.stage /\ r.vote = q.vote
    BY <1>0, <1>1 DEF Open, Abandon, Request
  <2> QED BY <1>1, <2>1 DEF Open, KeptInv, server
<1>2. ASSUME NEW r \in requests, CheckVote(r) \/ WriteVote(r) PROVE KeptInv'
  <2>1. PICK q : /\ Goes(r, q)
                 /\ \/ q.stage = "accepted" /\ accepted' = accepted \cup {r.vote}
                    \/ q.stage # "accepted" /\ accepted' = accepted
    <3>1. CASE CheckVote(r)
      <4>1. accepted' = accepted
        BY <3>1 DEF CheckVote, server
      <4> QED BY <3>1, <4>1, CheckGoes
    <3>2. CASE WriteVote(r)
      BY <3>2, WriteGoes
    <3> QED BY <1>2, <3>1, <3>2
  <2>2. kept' = kept
    BY <1>2 DEF CheckVote, WriteVote
  <2> QED BY <2>1, <2>2 DEF KeptInv, Goes, Same
<1>3. ASSUME NEW r \in requests, VoteDone(r) PROVE KeptInv'
  <2>1. r.vote \in accepted /\ accepted' = accepted /\ requests' \subseteq requests
    BY <1>3 DEF VoteDone, KeptInv, server
  <2>2. kept' \subseteq kept \cup {r.vote}
    BY <1>3 DEF VoteDone, Remember
  <2> QED BY <2>1, <2>2 DEF KeptInv
<1>4. ASSUME NEW r \in requests, VoteFails(r) PROVE KeptInv'
  <2>1. \A q \in requests' : q \in requests \/ (q.stage # "accepted" /\ q.vote = r.vote)
    BY <1>0, <1>4 DEF VoteFails, Pending, Request
  <2> QED BY <1>4, <2>1 DEF VoteFails, KeptInv, server
<1>5. CASE handleVoteSubmit
  <2>1. \A q \in requests' : q \in requests \/ q.stage = "sent"
    BY <1>5 DEF handleVoteSubmit
  <2> QED BY <1>5, <2>1 DEF handleVoteSubmit, KeptInv, server
<1>6. ASSUME NEW p \in Polls, Switch(p) \/ FetchDone(p) \/ FetchFails(p) \/ ClosePoll(p)
      PROVE  KeptInv'
  BY <1>6 DEF Switch, FetchDone, FetchFails, ClosePoll, KeptInv, server
<1>7. ASSUME NEW o \in Options, handleOptionSelect(o) PROVE KeptInv'
  BY <1>7 DEF handleOptionSelect, KeptInv, server
<1>8. CASE ClearStorage \/ ClearCookies \/ ChangeChoice \/ Session
  BY <1>8 DEF ClearStorage, ClearCookies, Clear, ChangeChoice, Session, KeptInv, server
<1>9. ASSUME NEW f \in Prints, ChangePrint(f) PROVE KeptInv'
  BY <1>9 DEF ChangePrint, KeptInv, server
<1>10. CASE UNCHANGED vars
  BY <1>10 DEF vars, KeptInv, server
<1> QED BY <1>1, <1>2, <1>3, <1>4, <1>5, <1>6, <1>7, <1>8, <1>9, <1>10 DEF Next

(* Whatever the browser remembers having voted, the server has accepted.    *)
THEOREM KeptIsAccepted == Spec => []KeptVoteWasAccepted
<1>1. Init => KeptInv
  BY DEF Init, KeptInv
<1>2. KeptInv => KeptVoteWasAccepted
  BY DEF KeptInv, KeptVoteWasAccepted
<1> QED BY <1>1, <1>2, VotingTyped, KeptNext, PTL DEF Spec

-----------------------------------------------------------------------------
(* One ballot. While the print stays and one store keeps the token, every   *)
(* store that holds a token, every request and every ballot have the same.  *)

SameToken(S, sv) ==
  /\ S.local \in {sv, None} /\ S.cookie \in {sv, None} /\ S.legacy \in {sv, None}

OneToken ==
  ~estranged =>
    /\ SameToken(stores, Saved)
    /\ Saved = None => ballots = {} /\ requests = {}
    /\ Saved # None => /\ Saved[1] = print
                       /\ \A b \in ballots : b.vote.token = Saved
                       /\ \A r \in requests : r.vote.token = Saved

(* While no vote overlaps another, the server has one vote of a poll under  *)
(* way; one that found no ballot still has none to meet.                    *)
Known == (settings.account \/ ~estranged) /\ ~overlapped

Alike(b, c) == b.vote.poll = c.vote.poll /\ b.user = c.user

Apart ==
  Known => /\ \A b, c \in ballots : Alike(b, c) => b = c
           /\ \A r, q \in requests : Pending(r) /\ Pending(q) /\ r.vote.poll = q.vote.poll => r = q
           /\ \A r \in requests : r.stage = "checked" /\ r.found = 0 =>
                \A b \in ballots : ~Alike(b, r)

LEMMA SavedIs ==
  Saved = IF stores.local # None THEN stores.local
          ELSE IF stores.cookie # None THEN stores.cookie ELSE stores.legacy
BY DEF Saved

(* A step after which no more is known, with the same ballots, and with     *)
(* requests that are over or as they were.                                  *)
LEMMA SameApart ==
  ASSUME Apart, Known' => Known, UNCHANGED ballots,
         \A r \in requests' : r \in requests \/ ~Pending(r)
  PROVE  Apart'
<1> SUFFICES ASSUME Known' PROVE Apart'
  BY DEF Apart
<1>1. \A r \in requests' : r.stage = "checked" => Pending(r)
  BY DEF Pending
<1> QED BY <1>1 DEF Apart

(* A step with the same ballots, in which one request goes on, or is over.  *)
LEMMA GoesApart ==
  ASSUME Apart, Known' => Known, UNCHANGED ballots,
         NEW r \in requests, Pending(r), NEW q, q.vote = r.vote, q.user = r.user,
         \A t \in requests' : t = q \/ t \in requests \ {r},
         Known /\ q.stage = "checked" /\ q.found = 0 => \A b \in ballots : ~Alike(b, q)
  PROVE  Apart'
<1> SUFFICES ASSUME Known' PROVE Apart'
  BY DEF Apart
<1>1. \A s, t \in requests : Pending(s) /\ Pending(t) /\ s.vote.poll = t.vote.poll => s = t
  BY DEF Apart
<1>2. ASSUME NEW s \in requests', NEW t \in requests', Pending(s), Pending(t),
             s.vote.poll = t.vote.poll
      PROVE  s = t
  BY <1>1, <1>2
<1>3. ASSUME NEW t \in requests', t.stage = "checked", t.found = 0
      PROVE  \A b \in ballots' : ~Alike(b, t)
  BY <1>3 DEF Apart
<1>4. \A b, c \in ballots' : Alike(b, c) => b = c
  BY DEF Apart
<1> QED BY <1>2, <1>3, <1>4 DEF Apart

(* A step that leaves the stores and the print alone and brings no new      *)
(* token.                                                                   *)
LEMMA SameStores ==
  ASSUME OneToken, UNCHANGED device,
         \A b \in ballots' : \/ \E c \in ballots : b.vote.token = c.vote.token
                             \/ \E r \in requests : b.vote.token = r.vote.token,
         \A r \in requests' : \E q \in requests : r.vote = q.vote
  PROVE  OneToken'
<1>1. UNCHANGED <<stores, print, estranged>> /\ Saved' = Saved
  BY SavedIs DEF device, Saved
<1> QED BY <1>1 DEF OneToken, SameToken

(* A page that asks for its token finds the one there is, or makes the      *)
(* first; from then on it is in a store, or the voter is estranged.         *)
LEMMA KeepTokenKeeps ==
  ASSUME TypeOK, OneToken, KeepToken, ~estranged'
  PROVE  /\ ~estranged /\ SameToken(stores', VoterId) /\ Saved' = VoterId
         /\ VoterId # None /\ VoterId[1] = print'
         /\ \A b \in ballots : b.vote.token = VoterId
         /\ \A r \in requests : r.vote.token = VoterId
<1>1. VoterId \in Tokens /\ VoterId # None /\ print' = print
  BY VoterIdTyped, NoneIsNoPoll DEF KeepToken, device
<1>2. ~estranged
  BY DEF KeepToken, device
<1>3. CASE Saved # None
  <2>1. Matches
    BY <1>2, <1>3 DEF OneToken, Matches
  <2>2. VoterId = Saved /\ stores' = stores
    BY <2>1 DEF VoterId, KeepToken, device
  <2>3. Saved' = Saved
    BY <2>2 DEF Saved
  <2> QED BY <1>1, <1>2, <1>3, <2>2, <2>3 DEF OneToken
<1>4. CASE Saved = None
  <2>1. ~Matches
    BY <1>4 DEF Matches
  <2>2. PICK local \in {stores.local, VoterId}, cookie \in {stores.cookie, VoterId} :
           stores' = [stores EXCEPT !.local = local, !.cookie = cookie]
    BY <2>1 DEF KeepToken
  <2>3. Saved' = VoterId
    BY <2>1 DEF KeepToken
  <2>4. /\ stores.local = None /\ stores.cookie = None /\ stores.legacy = None
        /\ ballots = {} /\ requests = {}
    BY <1>2, <1>4, SavedIs DEF OneToken, SameToken
  <2>5. /\ stores'.local \in {VoterId, None} /\ stores'.cookie \in {VoterId, None}
        /\ stores'.legacy = None
    BY <2>2, <2>4 DEF TypeOK
  <2>6. SameToken(stores', VoterId)
    BY <2>5 DEF SameToken
  <2>7. VoterId[1] = print'
    BY <1>1, <2>1 DEF VoterId
  <2> QED BY <1>1, <1>2, <2>3, <2>4, <2>6, <2>7
<1> QED BY <1>3, <1>4

LEMMA EstrangedStays == TypeOK /\ KeepToken /\ ~estranged' => ~estranged
BY DEF TypeOK, KeepToken, device

LEMMA OneTokenNext == TypeOK /\ OneToken /\ [Next]_vars => OneToken'
<1> SUFFICES ASSUME TypeOK, OneToken, [Next]_vars PROVE OneToken'
  OBVIOUS
<1>0. requests \subseteq Request /\ ballots \subseteq Ballot
  BY DEF TypeOK
<1>1. ASSUME NEW p \in Polls, NEW how \in {"left", "gone"}, Open(p, how) PROVE OneToken'
  <2>1. \A r \in requests' : \E q \in requests : r.vote = q.vote
    BY <1>0, <1>1 DEF Open, Abandon, Request
  <2> QED BY <1>1, <2>1, SameStores DEF Open, server
<1>2. ASSUME NEW r \in requests, CheckVote(r) \/ WriteVote(r) PROVE OneToken'
  <2>1. PICK q : Goes(r, q)
    BY <1>2, CheckGoes, WriteGoes
  <2>2. \A t \in requests' : t \in requests \/ t.vote = r.vote
    BY <2>1 DEF Goes, Same
  <2>3. \A b \in ballots' : \/ \E c \in ballots : b.vote.token = c.vote.token
                           \/ b.vote.token = r.vote.token
    <3>1. \/ ballots' = ballots
          \/ ballots' = ballots \cup {[vote |-> r.vote, user |-> r.user, nth |-> r.nth]}
          \/ ballots' = {IF b.nth = r.found THEN [b EXCEPT !.vote.options = r.vote.options]
                         ELSE b : b \in ballots}
      BY <1>2 DEF CheckVote, WriteVote, server
    <3> DEFINE Put(b) == IF b.nth = r.found THEN [b EXCEPT !.vote.options = r.vote.options] ELSE b
    <3>2. \A b \in ballots : Put(b).vote.token = b.vote.token
      BY <1>0 DEF Ballot, Vote
    <3>3. CASE ballots' = {Put(b) : b \in ballots}
      <4> HIDE DEF Put
      <4> QED BY <3>2, <3>3
    <3> QED BY <3>1, <3>3
  <2>4. UNCHANGED device
    BY <1>2 DEF CheckVote, WriteVote
  <2> QED BY <2>2, <2>3, <2>4, SameStores
<1>3. ASSUME NEW r \in requests, VoteDone(r) PROVE OneToken'
  BY <1>3, SameStores DEF VoteDone, server
<1>4. ASSUME NEW r \in requests, VoteFails(r) PROVE OneToken'
  <2>1. \A q \in requests' : q \in requests \/ q.vote = r.vote
    BY <1>0, <1>4 DEF VoteFails, Request
  <2> QED BY <1>4, <2>1, SameStores DEF VoteFails, server
<1>5. ASSUME NEW p \in Polls, Switch(p) \/ FetchFails(p) \/ ClosePoll(p) PROVE OneToken'
  BY <1>5, SameStores DEF Switch, FetchFails, ClosePoll, server
<1>6. ASSUME NEW o \in Options, handleOptionSelect(o) PROVE OneToken'
  BY <1>6, SameStores DEF handleOptionSelect, server
<1>7. CASE ChangeChoice \/ Session
  BY <1>7, SameStores DEF ChangeChoice, Session, server
<1>8. ASSUME NEW p \in Polls, FetchDone(p) PROVE OneToken'
  <2>1. KeepToken /\ UNCHANGED <<ballots, requests>>
    BY <1>8 DEF FetchDone, server
  <2> QED BY <2>1, KeepTokenKeeps DEF OneToken
<1>9. CASE handleVoteSubmit
  <2>1. KeepToken /\ UNCHANGED ballots
    BY <1>9 DEF handleVoteSubmit, server
  <2>2. \A r \in requests' : r \in requests \/ r.vote.token = VoterId
    BY <1>9 DEF handleVoteSubmit
  <2> QED BY <2>1, <2>2, KeepTokenKeeps DEF OneToken
<1>10. CASE ClearStorage \/ ClearCookies
  <2>1. /\ UNCHANGED <<ballots, requests, print>>
        /\ \/ stores' = [stores EXCEPT !.local = None, !.legacy = None]
           \/ stores' = [stores EXCEPT !.cookie = None]
        /\ estranged' = (estranged \/ \A k \in DOMAIN stores' : stores'[k] = None)
    BY <1>10 DEF ClearStorage, ClearCookies, Clear, server
  <2>2. /\ DOMAIN stores' = {"local", "cookie", "legacy"}
        /\ stores'.local \in {stores.local, None} /\ stores'.cookie \in {stores.cookie, None}
        /\ stores'.legacy \in {stores.legacy, None}
    BY <2>1 DEF TypeOK
  <2>3. SUFFICES ASSUME ~estranged' PROVE OneToken'
    BY DEF OneToken
  <2>4. ~estranged /\ ~(stores'.local = None /\ stores'.cookie = None /\ stores'.legacy = None)
    BY <2>1, <2>2, <2>3
  <2>5. Saved' = IF stores'.local # None THEN stores'.local
                 ELSE IF stores'.cookie # None THEN stores'.cookie ELSE stores'.legacy
    BY DEF Saved
  <2>6. SameToken(stores, Saved)
    BY <2>4 DEF OneToken
  <2>7. Saved' = Saved /\ Saved # None /\ SameToken(stores', Saved)
    BY <2>2, <2>4, <2>5, <2>6 DEF SameToken
  <2> QED BY <2>1, <2>4, <2>7 DEF OneToken
<1>11. ASSUME NEW f \in Prints, ChangePrint(f) PROVE OneToken'
  BY <1>11 DEF ChangePrint, OneToken
<1>12. CASE UNCHANGED vars
  BY <1>12, SameStores DEF vars, server
<1> QED BY <1>1, <1>2, <1>3, <1>4, <1>5, <1>6, <1>7, <1>8, <1>9, <1>10, <1>11, <1>12 DEF Next

LEMMA ApartNext == TypeOK /\ OneToken /\ Apart /\ [Next]_vars => Apart'
<1> SUFFICES ASSUME TypeOK, OneToken, Apart, [Next]_vars PROVE Apart'
  OBVIOUS
<1>0. requests \subseteq Request /\ ballots \subseteq Ballot
  BY DEF TypeOK
<1>1. ASSUME NEW p \in Polls, NEW how \in {"left", "gone"}, Open(p, how) PROVE Apart'
  <2> DEFINE Left(r) == IF r.at = "gone" THEN r ELSE [r EXCEPT !.at = how]
  <2>1. requests' = {Left(r) : r \in requests} /\ UNCHANGED ballots /\ (Known' => Known)
    BY <1>1 DEF Open, Abandon, server, device, Known
  <2>2. \A r \in requests : /\ Left(r).vote = r.vote /\ Left(r).user = r.user
                            /\ Left(r).stage = r.stage /\ Left(r).found = r.found
    BY <1>0 DEF Request
  <2> HIDE DEF Left
  <2> SUFFICES ASSUME Known' PROVE Apart'
    BY DEF Apart
  <2>3. ASSUME NEW r \in requests', NEW q \in requests', Pending(r), Pending(q),
               r.vote.poll = q.vote.poll
        PROVE  r = q
    <3>1. PICK s \in requests, t \in requests : r = Left(s) /\ q = Left(t)
      BY <2>1
    <3>2. s = t
      BY <2>1, <2>2, <2>3, <3>1 DEF Apart, Pending
    <3> QED BY <3>1, <3>2
  <2>4. ASSUME NEW r \in requests', r.stage = "checked", r.found = 0
        PROVE  \A b \in ballots' : ~Alike(b, r)
    <3>1. PICK s \in requests : r = Left(s)
      BY <2>1
    <3> QED BY <2>1, <2>2, <2>4, <3>1 DEF Apart, Alike
  <2>5. \A b, c \in ballots' : Alike(b, c) => b = c
    BY <2>1 DEF Apart
  <2> QED BY <2>3, <2>4, <2>5 DEF Apart
<1>2. ASSUME NEW r \in requests, CheckVote(r) PROVE Apart'
  <2>1. PICK q : /\ Goes(r, q) /\ r.stage = "sent"
                 /\ q.stage = "checked" /\ q.found = 0 => Existing(r) = {}
    BY <1>2, CheckGoes
  <2>2. UNCHANGED ballots /\ (Known' => Known)
    BY <1>2 DEF CheckVote, server, device, limits, Known
  <2>3. ASSUME Known, q.stage = "checked", q.found = 0, NEW b \in ballots PROVE ~Alike(b, q)
    <3>1. b \notin Existing(r)
      BY <2>1, <2>3
    <3>2. ~settings.account => b.vote.token = r.vote.token
      BY <2>3 DEF OneToken, Known
    <3> QED BY <2>1, <3>1, <3>2 DEF Existing, Alike, Goes, Same
  <2>4. \A t \in requests' : t = q \/ t \in requests \ {r}
    BY <2>1 DEF Goes
  <2>5. q.vote = r.vote /\ q.user = r.user /\ Pending(r)
    BY <2>1 DEF Goes, Same, Pending
  <2> QED BY <2>2, <2>3, <2>4, <2>5, GoesApart
<1>3. ASSUME NEW r \in requests, WriteVote(r) PROVE Apart'
  <2>1. PICK q : /\ Goes(r, q) /\ r.stage = "checked" /\ ~Pending(q)
    BY <1>3, WriteGoes DEF Pending
  <2>2. /\ \A t \in requests' : ~Pending(t) \/ (t \in requests /\ t # r)
        /\ Known' => Known
    BY <1>3, <2>1 DEF Goes, WriteVote, device, limits, Known
  <2>3. CASE UNCHANGED ballots
    BY <2>2, <2>3, SameApart
  <2>4. SUFFICES ASSUME Known, ~UNCHANGED ballots PROVE Apart'
    BY <2>2, <2>3 DEF Apart
  <2>5. ASSUME NEW t \in requests', t.stage = "checked" PROVE t \in requests /\ t # r
    BY <2>2, <2>5 DEF Pending
  <2>6. \A t \in requests' : t.stage = "checked" => t.vote.poll # r.vote.poll
    BY <2>1, <2>4, <2>5 DEF Apart, Pending
  <2>7. \A s, t \in requests' : Pending(s) /\ Pending(t) /\ s.vote.poll = t.vote.poll => s = t
    BY <2>2, <2>4 DEF Apart
  <2>8. CASE /\ r.found = 0
             /\ ballots' = ballots \cup {[vote |-> r.vote, user |-> r.user, nth |-> r.nth]}
    <3> DEFINE n == [vote |-> r.vote, user |-> r.user, nth |-> r.nth]
    <3>1. \A b \in ballots : ~Alike(b, r)
      BY <2>1, <2>4, <2>8 DEF Apart
    <3>2. \A b \in ballots : ~Alike(b, n) /\ ~Alike(n, b)
      BY <3>1 DEF Alike
    <3>3. \A b, c \in ballots' : Alike(b, c) => b = c
      BY <2>4, <2>8, <3>2 DEF Apart
    <3>4. ASSUME NEW t \in requests', t.stage = "checked", t.found = 0, NEW b \in ballots'
          PROVE  ~Alike(b, t)
      <4>1. CASE b \in ballots
        BY <2>4, <2>5, <3>4, <4>1 DEF Apart
      <4>2. CASE b = n
        BY <2>6, <3>4, <4>2 DEF Alike
      <4> QED BY <2>8, <4>1, <4>2
    <3> QED BY <2>7, <3>3, <3>4 DEF Apart
  <2>9. CASE ballots' = {IF b.nth = r.found THEN [b EXCEPT !.vote.options = r.vote.options]
                         ELSE b : b \in ballots}
    <3> DEFINE Put(b) == IF b.nth = r.found THEN [b EXCEPT !.vote.options = r.vote.options] ELSE b
    <3>1. \A b \in ballots : Put(b).vote.poll = b.vote.poll /\ Put(b).user = b.user
      BY <1>0 DEF Ballot, Vote
    <3>2. ballots' = {Put(b) : b \in ballots}
      BY <2>9
    <3> HIDE DEF Put
    <3>3. ASSUME NEW b \in ballots', NEW c \in ballots', Alike(b, c) PROVE b = c
      <4>1. PICK x \in ballots, y \in ballots : b = Put(x) /\ c = Put(y)
        BY <3>2
      <4>2. x = y
        BY <2>4, <3>1, <3>3, <4>1 DEF Apart, Alike
      <4> QED BY <4>1, <4>2
    <3>4. ASSUME NEW t \in requests', t.stage = "checked", t.found = 0, NEW b \in ballots'
          PROVE  ~Alike(b, t)
      <4>1. PICK x \in ballots : b = Put(x)
        BY <3>2
      <4> QED BY <2>4, <2>5, <3>1, <3>4, <4>1 DEF Apart, Alike
    <3> QED BY <2>7, <3>3, <3>4 DEF Apart
  <2> QED BY <1>3, <2>4, <2>8, <2>9 DEF WriteVote
<1>4. ASSUME NEW r \in requests, VoteFails(r) PROVE Apart'
  <2>1. UNCHANGED ballots /\ (Known' => Known)
    BY <1>4 DEF VoteFails, server, device, limits, Known
  <2>2. CASE Pending(r)
    <3> DEFINE q == [r EXCEPT !.at = "gone"]
    <3>1. q.vote = r.vote /\ q.user = r.user /\ q.stage = r.stage /\ q.found = r.found
      BY <1>0 DEF Request
    <3>2. \A t \in requests' : t = q \/ t \in requests \ {r}
      BY <1>4, <2>2 DEF VoteFails
    <3> HIDE DEF q
    <3>3. Known /\ q.stage = "checked" /\ q.found = 0 => \A b \in ballots : ~Alike(b, q)
      BY <3>1 DEF Apart, Alike
    <3> QED BY <2>1, <2>2, <3>1, <3>2, <3>3, GoesApart
  <2>3. CASE ~Pending(r)
    BY <1>4, <2>1, <2>3, SameApart DEF VoteFails
  <2> QED BY <2>2, <2>3
<1>5. CASE handleVoteSubmit
  <2>1. PICK n : /\ n.stage = "sent" /\ n.vote.poll = page.poll /\ requests' = requests \cup {n}
    BY <1>5 DEF handleVoteSubmit
  <2>2. /\ UNCHANGED <<ballots, settings>> /\ KeepToken
        /\ overlapped' = (overlapped \/ \E r \in requests : Pending(r) /\ r.vote.poll = page.poll)
    BY <1>5 DEF handleVoteSubmit, server
  <2>3. SUFFICES ASSUME Known' PROVE Apart'
    BY DEF Apart
  <2>4. Known /\ \A r \in requests : ~(Pending(r) /\ r.vote.poll = page.poll)
    BY <2>2, <2>3, EstrangedStays DEF Known
  <2>5. \A s, t \in requests' : Pending(s) /\ Pending(t) /\ s.vote.poll = t.vote.poll => s = t
    BY <2>1, <2>4 DEF Apart
  <2>6. \A t \in requests' : t.stage = "checked" => t \in requests
    BY <2>1
  <2> QED BY <2>2, <2>4, <2>5, <2>6 DEF Apart
<1>6. ASSUME NEW r \in requests, VoteDone(r) PROVE Apart'
  BY <1>6, SameApart DEF VoteDone, server, device, limits, Known
<1>7. ASSUME NEW p \in Polls, Switch(p) \/ FetchFails(p) \/ ClosePoll(p) PROVE Apart'
  BY <1>7, SameApart DEF Switch, FetchFails, ClosePoll, server, device, limits, Known
<1>8. ASSUME NEW p \in Polls, FetchDone(p) PROVE Apart'
  <2>1. UNCHANGED <<ballots, requests, settings, overlapped>> /\ KeepToken
    BY <1>8 DEF FetchDone, server, limits
  <2> QED BY <2>1, EstrangedStays, SameApart DEF Known
<1>9. ASSUME NEW o \in Options, handleOptionSelect(o) PROVE Apart'
  BY <1>9, SameApart DEF handleOptionSelect, server, device, limits, Known
<1>10. CASE ChangeChoice \/ Session
  BY <1>10, SameApart DEF ChangeChoice, Session, server, device, limits, Known
<1>11. CASE ClearStorage \/ ClearCookies
  <2>1. UNCHANGED <<ballots, requests, settings, overlapped>> /\ (~estranged' => ~estranged)
    BY <1>11 DEF ClearStorage, ClearCookies, Clear, server
  <2> QED BY <2>1, SameApart DEF Known
<1>12. ASSUME NEW f \in Prints, ChangePrint(f) PROVE Apart'
  <2>1. UNCHANGED <<ballots, requests, settings, overlapped>> /\ estranged' = TRUE
    BY <1>12 DEF ChangePrint, server
  <2> QED BY <2>1, SameApart DEF Known
<1>13. CASE UNCHANGED vars
  BY <1>13, SameApart DEF vars, server, device, limits, Known
<1> QED BY <1>1, <1>2, <1>3, <1>4, <1>5, <1>6, <1>7, <1>8, <1>9, <1>10, <1>11, <1>12, <1>13 DEF Next

LEMMA OneTokenInit == Init => OneToken /\ Apart
<1> SUFFICES ASSUME Init PROVE OneToken /\ Apart
  OBVIOUS
<1>1. /\ stores \in [local : {None}, cookie : {None}, legacy : {None, <<print, 0>>}]
      /\ ballots = {} /\ requests = {}
  BY DEF Init
<1>2. Saved \in {None, <<print, 0>>} /\ SameToken(stores, Saved)
  BY <1>1, SavedIs DEF SameToken
<1> QED BY <1>1, <1>2 DEF OneToken, Apart

(* However many votes are sent, lost, refused and sent again, in however    *)
(* many polls and from however many accounts: one browser, or one account,  *)
(* has one ballot in a poll, while its fingerprint stays and one store      *)
(* keeps its token, as long as no vote is sent over one still under way.    *)
THEOREM OneBallot == Spec => []OneBallotPerBrowser
<1>1. Apart => OneBallotPerBrowser
  BY DEF Apart, Known, Alike, OneBallotPerBrowser
<1> QED BY <1>1, VotingTyped, OneTokenInit, OneTokenNext, ApartNext, PTL DEF Spec

-----------------------------------------------------------------------------
(* "Your Vote". A page has at most one request of its own, and while it     *)
(* waits for its answer what is selected is what was sent.                  *)

AtPage == {r \in requests : r.at = "page"}

MarkInv ==
  /\ \A r \in AtPage : page.submitting = TRUE
  /\ \A r, q \in AtPage : r = q
  /\ ~switched => /\ fetching \subseteq {page.url}
                  /\ fetching # {} => /\ page.loading = TRUE /\ page.hasVoted = FALSE
                                      /\ AtPage = {}
  /\ ~switched /\ ~touched =>
       \A r \in AtPage : r.vote.poll = page.poll /\ r.vote.options = page.selected
  /\ ~switched /\ ~touched /\ settings.after /\ page.hasVoted = TRUE =>
       \E v \in accepted : v.poll = page.poll /\ v.options = page.selected

LEMMA FormOpenMeans ==
  ASSUME TypeOK, MarkInv, FormOpen
  PROVE  /\ page.loading = FALSE /\ (settings.after => page.hasVoted = FALSE)
         /\ ~switched => fetching = {}
<1>1. page \in PageType
  BY DEF TypeOK, PageType
<1>2. page.loading = FALSE /\ (settings.after => page.hasVoted = FALSE)
  BY <1>1 DEF FormOpen, View, PageType
<1> QED BY <1>2 DEF MarkInv

(* A step that leaves the page as it is and at most takes a request of its  *)
(* own further.                                                             *)
LEMMA MarkStays ==
  ASSUME MarkInv, UNCHANGED <<settings, form>>, accepted \subseteq accepted',
         NEW r, NEW q,
         AtPage' \subseteq AtPage
           \/ (AtPage' = (AtPage \ {r}) \cup {q} /\ r \in AtPage /\ q.vote = r.vote)
  PROVE  MarkInv'
<1>1. UNCHANGED <<fetching, page, switched, touched>>
  BY DEF form
<1>2. CASE AtPage' \subseteq AtPage
  BY <1>1, <1>2 DEF MarkInv
<1>3. CASE AtPage' = (AtPage \ {r}) \cup {q} /\ r \in AtPage /\ q.vote = r.vote
  BY <1>1, <1>3 DEF MarkInv
<1> QED BY <1>2, <1>3

LEMMA MarkNext == TypeOK /\ KeptInv /\ MarkInv /\ [Next]_vars => MarkInv'
<1> SUFFICES ASSUME TypeOK, KeptInv, MarkInv, [Next]_vars PROVE MarkInv'
  OBVIOUS
<1>0. requests \subseteq Request /\ page \in PageType
  BY DEF TypeOK, PageType
<1>1. ASSUME NEW p \in Polls, NEW how \in {"left", "gone"}, Open(p, how) PROVE MarkInv'
  <2>1. AtPage' = {}
    BY <1>0, <1>1 DEF Open, Abandon, Request, AtPage
  <2>2. page'.url = p /\ page'.loading = TRUE /\ page'.hasVoted = FALSE /\ fetching' = {p}
    BY <1>1 DEF Open, Fresh
  <2> QED BY <2>1, <2>2 DEF MarkInv
<1>2. ASSUME NEW p \in Polls, Switch(p) PROVE MarkInv'
  <2>1. AtPage' = AtPage /\ switched' = TRUE
    BY <1>2 DEF Switch, AtPage
  <2>2. page'.submitting = page.submitting
    BY <1>0, <1>2 DEF Switch, PageType
  <2> QED BY <2>1, <2>2 DEF MarkInv
<1>3. ASSUME NEW p \in Polls, FetchDone(p) PROVE MarkInv'
  <2> DEFINE Votes == {v \in kept : v.poll = p /\ v.token = VoterId}
             S == [page EXCEPT !.poll = p, !.shut = p \in closed, !.loading = FALSE]
  <2>1. /\ AtPage' = AtPage /\ p \in fetching /\ fetching' = fetching \ {p}
        /\ UNCHANGED <<switched, touched, settings, accepted>>
    BY <1>3 DEF FetchDone, AtPage, server
  <2>2. \/ page' = S
        \/ \E v \in Votes : page' = [S EXCEPT !.selected = v.options, !.hasVoted = TRUE]
    BY <1>3 DEF FetchDone
  <2>3. /\ S.poll = p /\ S.submitting = page.submitting /\ S.hasVoted = page.hasVoted
        /\ S.url = page.url
    BY <1>0 DEF PageType
  <2>4. \A v \in Votes : LET T == [S EXCEPT !.selected = v.options, !.hasVoted = TRUE] IN
          /\ T.poll = p /\ T.submitting = page.submitting /\ T.selected = v.options
          /\ T.url = page.url
    BY <1>0 DEF PageType
  <2>5. \A v \in Votes : v \in accepted /\ v.poll = p
    BY DEF KeptInv
  <2> HIDE DEF S, Votes
  <2>6. /\ page'.submitting = page.submitting /\ page'.url = page.url /\ page'.poll = p
        /\ \/ page'.hasVoted = page.hasVoted
           \/ \E v \in accepted : v.poll = page'.poll /\ v.options = page'.selected
    BY <2>2, <2>3, <2>4, <2>5
  <2>7. ~switched => fetching' = {} /\ AtPage = {} /\ page.hasVoted = FALSE
    <3>1. ~switched => fetching \subseteq {page.url} /\ AtPage = {} /\ page.hasVoted = FALSE
      BY <2>1 DEF MarkInv
    <3>2. fetching \subseteq {page.url} => fetching \ {p} = {}
      BY <2>1, Zenon
    <3> QED BY <2>1, <3>1, <3>2
  <2> QED BY <2>1, <2>6, <2>7 DEF MarkInv
<1>4. ASSUME NEW p \in Polls, FetchFails(p) PROVE MarkInv'
  <2>1. /\ AtPage' = AtPage /\ p \in fetching /\ fetching' = fetching \ {p}
        /\ UNCHANGED <<switched, touched, settings, accepted>>
    BY <1>4 DEF FetchFails, AtPage, server
  <2>2. /\ page'.submitting = page.submitting /\ page'.url = page.url
        /\ page'.poll = page.poll /\ page'.selected = page.selected
        /\ page'.hasVoted = page.hasVoted
    BY <1>0, <1>4 DEF FetchFails, PageType
  <2>3. ~switched => fetching' = {}
    <3>1. ~switched => fetching \subseteq {page.url}
      BY DEF MarkInv
    <3>2. fetching \subseteq {page.url} => fetching \ {p} = {}
      BY <2>1, Zenon
    <3> QED BY <2>1, <3>1, <3>2
  <2> QED BY <2>1, <2>2, <2>3 DEF MarkInv
<1>5. ASSUME NEW p \in Polls, ClosePoll(p) PROVE MarkInv'
  <2>1. AtPage' = AtPage
    BY <1>5 DEF ClosePoll, AtPage
  <2> QED BY <1>5, <2>1, MarkStays DEF ClosePoll
<1>6. ASSUME NEW o \in Options, handleOptionSelect(o) PROVE MarkInv'
  <2>1. /\ AtPage' = AtPage /\ UNCHANGED <<switched, settings, accepted, fetching>> /\ FormOpen
        /\ touched' = (touched \/ page.submitting)
    BY <1>6 DEF handleOptionSelect, AtPage, server
  <2>2. PICK s \in SUBSET Options : page' = [page EXCEPT !.selected = s]
    BY <1>0, <1>6 DEF handleOptionSelect, PageType
  <2>3. /\ page'.submitting = page.submitting /\ page'.url = page.url
        /\ page'.hasVoted = page.hasVoted /\ page'.loading = page.loading
    BY <1>0, <2>2 DEF PageType
  <2>4. settings.after => page.hasVoted = FALSE
    BY <2>1, FormOpenMeans
  <2>5. ~switched' /\ ~touched' => AtPage = {}
    BY <2>1 DEF MarkInv
  <2> QED BY <2>1, <2>3, <2>4, <2>5 DEF MarkInv
<1>7. CASE handleVoteSubmit
  <2> DEFINE r == [vote |-> [poll |-> page.poll, token |-> VoterId, options |-> page.selected],
                   user |-> signedIn, nth |-> sent + 1, at |-> "page", stage |-> "sent",
                   found |-> 0]
  <2>1. /\ requests' = requests \cup {r} /\ FormOpen /\ ~page.submitting
        /\ UNCHANGED <<switched, settings, accepted, fetching>>
        /\ page' = [page EXCEPT !.submitting = TRUE]
    BY <1>7 DEF handleVoteSubmit, server
  <2>2. AtPage = {}
    BY <2>1 DEF MarkInv
  <2>3. AtPage' = {r}
    BY <2>1, <2>2 DEF AtPage
  <2>4. page'.submitting = TRUE /\ page'.poll = page.poll /\ page'.selected = page.selected
        /\ page'.hasVoted = page.hasVoted /\ page'.url = page.url
    BY <1>0, <2>1 DEF PageType
  <2>5. r.vote.poll = page.poll /\ r.vote.options = page.selected
    OBVIOUS
  <2>6. (~switched => fetching = {}) /\ (settings.after => page.hasVoted = FALSE)
    BY <2>1, FormOpenMeans
  <2> HIDE DEF r
  <2> QED BY <2>1, <2>3, <2>4, <2>5, <2>6 DEF MarkInv
<1>8. CASE ChangeChoice
  <2>1. /\ AtPage' = AtPage /\ UNCHANGED <<switched, touched, settings, accepted, fetching>>
        /\ page' = [page EXCEPT !.hasVoted = FALSE]
    BY <1>8 DEF ChangeChoice, AtPage, server
  <2>2. /\ page'.submitting = page.submitting /\ page'.url = page.url /\ page'.hasVoted = FALSE
        /\ page'.loading = page.loading /\ page'.poll = page.poll /\ page'.selected = page.selected
    BY <1>0, <2>1 DEF PageType
  <2> QED BY <2>1, <2>2 DEF MarkInv
<1>9. ASSUME NEW r \in requests, CheckVote(r) \/ WriteVote(r) PROVE MarkInv'
  <2>1. PICK q : Goes(r, q)
    BY <1>9, CheckGoes, WriteGoes
  <2>2. \/ AtPage' \subseteq AtPage
        \/ AtPage' = (AtPage \ {r}) \cup {q} /\ r \in AtPage /\ q.vote = r.vote
    BY <2>1 DEF Goes, Same, AtPage
  <2>3. UNCHANGED <<settings, form>> /\ accepted \subseteq accepted'
    BY <1>9 DEF CheckVote, WriteVote, server
  <2> QED BY <2>2, <2>3, MarkStays
<1>10. ASSUME NEW r \in requests, VoteDone(r) PROVE MarkInv'
  <2>1. /\ r.stage = "accepted" /\ r.vote \in accepted /\ AtPage' = AtPage \ {r}
        /\ UNCHANGED <<switched, touched, settings, accepted, fetching>>
    BY <1>10 DEF VoteDone, AtPage, server, KeptInv
  <2>2. /\ page'.url = page.url /\ page'.loading = page.loading /\ page'.poll = page.poll
        /\ page'.selected = page.selected
        /\ r.at # "page" => page'.submitting = page.submitting /\ page'.hasVoted = page.hasVoted
    BY <1>0, <1>10 DEF VoteDone, PageType
  <2>3. CASE r.at = "page"
    <3>1. r \in AtPage /\ AtPage' = {}
      BY <2>1, <2>3 DEF AtPage, MarkInv
    <3>2. ~switched => fetching = {}
      BY <3>1, Zenon DEF MarkInv
    <3>3. ~switched /\ ~touched =>
            r.vote.poll = page.poll /\ r.vote.options = page.selected
      BY <3>1 DEF MarkInv
    <3> QED BY <2>1, <2>2, <3>1, <3>2, <3>3 DEF MarkInv
  <2>4. CASE r.at # "page"
    BY <2>1, <2>2, <2>4 DEF MarkInv
  <2> QED BY <2>3, <2>4
<1>11. ASSUME NEW r \in requests, VoteFails(r) PROVE MarkInv'
  <2>1. /\ AtPage' = AtPage \ {r}
        /\ UNCHANGED <<switched, touched, settings, accepted, fetching>>
    BY <1>0, <1>11 DEF VoteFails, AtPage, server, Request
  <2>2. /\ page'.url = page.url /\ page'.loading = page.loading /\ page'.poll = page.poll
        /\ page'.selected = page.selected /\ page'.hasVoted = page.hasVoted
        /\ r.at # "page" => page'.submitting = page.submitting
    BY <1>0, <1>11 DEF VoteFails, PageType
  <2>3. r.at = "page" => AtPage' = {}
    BY <2>1 DEF AtPage, MarkInv
  <2> QED BY <2>1, <2>2, <2>3 DEF MarkInv
<1>12. CASE ClearStorage \/ ClearCookies
  <2>1. AtPage' = AtPage
    BY <1>12 DEF ClearStorage, ClearCookies, Clear, AtPage
  <2> QED BY <1>12, <2>1, MarkStays DEF ClearStorage, ClearCookies, Clear, server
<1>13. CASE Session
  <2>1. AtPage' = AtPage
    BY <1>13 DEF Session, AtPage
  <2> QED BY <1>13, <2>1, MarkStays DEF Session, server
<1>14. ASSUME NEW f \in Prints, ChangePrint(f) PROVE MarkInv'
  <2>1. AtPage' = AtPage
    BY <1>14 DEF ChangePrint, AtPage
  <2> QED BY <1>14, <2>1, MarkStays DEF ChangePrint, server
<1>15. CASE UNCHANGED vars
  <2>1. AtPage' = AtPage
    BY <1>15 DEF vars, AtPage
  <2> QED BY <1>15, <2>1, MarkStays DEF vars, server
<1> QED BY <1>1, <1>2, <1>3, <1>4, <1>5, <1>6, <1>7, <1>8, <1>9, <1>10, <1>11, <1>12, <1>13,
           <1>14, <1>15 DEF Next

LEMMA MarkInit == Init => KeptInv /\ MarkInv
<1> SUFFICES ASSUME Init PROVE KeptInv /\ MarkInv
  OBVIOUS
<1>1. requests = {} /\ kept = {} /\ AtPage = {}
  BY DEF Init, AtPage
<1>2. PICK p \in Polls : page = [Fresh EXCEPT !.url = p] /\ fetching = {p}
  BY DEF Init
<1>3. page.url = p /\ page.loading = TRUE /\ page.hasVoted = FALSE
  BY <1>2 DEF Fresh
<1> QED BY <1>1, <1>2, <1>3 DEF KeptInv, MarkInv

(* The options marked as the voter's own are those of a vote the server     *)
(* accepted for the poll on the page.                                       *)
THEOREM MarkedAccepted == Spec => []MarkedIsAccepted
<1>1. ASSUME TypeOK, MarkInv, View = "voted", ~touched, ~switched
      PROVE  \E v \in accepted : v.poll = page.poll /\ v.options = YourVote
  <2>1. page.hasVoted = TRUE /\ settings.after
    BY <1>1 DEF View, TypeOK
  <2> QED BY <1>1, <2>1 DEF MarkInv, YourVote
<1>2. TypeOK /\ MarkInv => MarkedIsAccepted
  BY <1>1 DEF MarkedIsAccepted
<1> QED BY <1>2, VotingTyped, MarkInit, KeptNext, MarkNext, PTL DEF Spec
=============================================================================
