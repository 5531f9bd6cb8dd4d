----------------------------- MODULE VotingPage -----------------------------
(***************************************************************************)
(* PublicPollPage as a voter's browser runs it: the form and its one       *)
(* request, the voter token that voterId keeps in localStorage and in a    *)
(* cookie, the accounts that sign in, and the vote the page remembers. At  *)
(* the server a request looks for the voter's ballot and later writes one, *)
(* so one the page has given up overlaps its repeat. Counters, and polls   *)
(* that check the address, are VoteService's.                              *)
(***************************************************************************)
EXTENDS Naturals, FiniteSets

CONSTANTS
  Polls,
  OptionsOf,    \* poll -> the ids of its options
  Settings,     \* the settings a poll may have: see SettingsType
  Accounts,     \* the accounts that sign in here
  Prints,       \* hardware fingerprints the device may show (zoom, screen, language)
  MaxTokens,    \* bound on the tokens made
  MaxRequests,  \* bound on the votes sent
  Events,       \* "clear", "print", "close", "session", "open", "switch": what
                \* may happen
  MaxEvents,    \* bound on how many of these do
  None

SettingsType == [multiple : BOOLEAN, changes : BOOLEAN, after : BOOLEAN, account : BOOLEAN]

ASSUME VotingAssumption ==
  /\ OptionsOf \in [Polls -> SUBSET UNION {OptionsOf[p] : p \in Polls}]
  /\ Settings \subseteq SettingsType
  /\ MaxTokens \in Nat /\ MaxRequests \in Nat /\ MaxEvents \in Nat
  /\ None \notin Polls \cup Accounts \cup (Prints \X (0..MaxTokens))

Options == UNION {OptionsOf[p] : p \in Polls}
Tokens  == Prints \X (0..MaxTokens)
Vote    == [poll : Polls, token : Tokens, options : SUBSET Options]
Users   == Accounts \cup {None}
Ballot  == [vote : Vote, user : Users, nth : 1..MaxRequests]
Request == [vote : Vote, user : Users, nth : 1..MaxRequests, at : {"page", "left", "gone"},
            stage : {"sent", "checked", "accepted", "rejected"}, found : 0..MaxRequests]

VARIABLES
  settings,  \* of every poll
  closed,    \* the server: the polls that are closed
  ballots,   \* the server: the votes stored, each with the serial number of the request
             \* that stored it, and the user's id where the poll asks for an account
  requests,  \* votes in flight; "left": the page that waits for the answer is not
             \* mounted any more, "gone": nobody waits; "checked": the ballot of its voter
             \* was looked for, and the one found is number found, or there was none (0)
  print,     \* the device's fingerprint now
  stores,    \* the voter token in localStorage, in the cookie, under the legacy key
  made,      \* tokens made so far
  kept,      \* localStorage: the votes remembered, by poll and token
  signedIn,  \* the account signed in, or None, where the poll asks for one
  fetching,  \* polls the page is waiting for
  page,      \* the state of the page; page.shut is the status it was fetched with
  sent,      \* votes sent so far
  events,    \* how many of Events have happened
  accepted,  \* history: the votes the server accepted
  switched,  \* history: the :pollId of the mounted page has changed
  touched,   \* history: an option was chosen while a vote was being submitted
  estranged, \* history: the print changed, or no store has kept the token
  overlapped \* history: a vote was sent while the server still had an earlier one for
             \* the poll under way

server  == <<settings, closed, ballots, accepted>>
device  == <<print, stores, made, estranged>>
form    == <<fetching, page, switched, touched>>
limits  == <<sent, overlapped, events>>
vars    == <<server, requests, device, kept, signedIn, form, limits>>

Happens(e) == e \in Events /\ events < MaxEvents /\ events' = events + 1

Fresh == [url |-> None, poll |-> None, shut |-> FALSE, loading |-> TRUE, error |-> FALSE,
          selected |-> {}, hasVoted |-> FALSE, submitting |-> FALSE]

Init ==
  /\ settings \in Settings /\ closed = {} /\ ballots = {} /\ accepted = {}
  /\ requests = {} /\ print \in Prints /\ made = 0 /\ estranged = FALSE
  /\ stores \in [local : {None}, cookie : {None}, legacy : {None, <<print, 0>>}]
  /\ kept = {} /\ events = 0 /\ sent = 0 /\ overlapped = FALSE
  /\ signedIn \in IF settings.account THEN Users ELSE {None}
  /\ \E p \in Polls : page = [Fresh EXCEPT !.url = p] /\ fetching = {p}
  /\ switched = FALSE /\ touched = FALSE

-----------------------------------------------------------------------------
(* getOrCreateVoterId. Only the first token found is looked at, and a token *)
(* found in the cookie is not copied back.                                  *)

IgnoreCookie ==  \* mutant: the token is looked for in localStorage alone
  IF stores.local # None THEN stores.local ELSE stores.legacy

Saved ==
  CASE stores.local # None                          -> stores.local
    [] stores.local = None /\ stores.cookie # None  -> stores.cookie
    [] OTHER                                        -> stores.legacy

Matches == Saved # None /\ Saved[1] = print
VoterId == IF Matches THEN Saved ELSE <<print, made + 1>>

(* A new token is written to both stores; each may refuse it.               *)
KeepToken ==
  \/ Matches /\ UNCHANGED device
  \/ /\ ~Matches /\ made < MaxTokens
     /\ made' = made + 1
     /\ \E local \in {stores.local, VoterId}, cookie \in {stores.cookie, VoterId} :
          stores' = [stores EXCEPT !.local = local, !.cookie = cookie]
     /\ estranged' = (estranged \/ Saved' # VoterId)
     /\ UNCHANGED print

-----------------------------------------------------------------------------
View ==
  CASE page.loading                                      -> "skeleton"
    [] ~page.loading /\ (page.error \/ page.poll = None) -> "error"
    [] ~page.loading /\ ~page.error /\ page.poll # None
       /\ page.hasVoted /\ settings.after                -> "voted"
    [] OTHER                                             -> "form"

NeedsAccount == settings.account /\ signedIn = None
FormOpen     == View = "form" /\ ~page.shut /\ ~NeedsAccount
YourVote     == IF View = "voted" THEN page.selected ELSE {}

(* Mounting forgets what the page held; an answer still to come finds the   *)
(* page unmounted ("left") or its whole document gone.                      *)
Abandon(how) ==
  /\ requests' = {IF r.at = "gone" THEN r ELSE [r EXCEPT !.at = how] : r \in requests}
  /\ switched' = FALSE /\ touched' = FALSE

Open(p, how) ==
  /\ Happens("open") /\ Abandon(how)
  /\ page' = [Fresh EXCEPT !.url = p] /\ fetching' = {p}
  /\ UNCHANGED <<server, device, kept, signedIn, sent, overlapped>>

Switch(p) ==
  /\ Happens("switch") /\ page.url # p
  /\ page' = [page EXCEPT !.url = p, !.loading = TRUE, !.error = FALSE]
  /\ fetching' = fetching \cup {p} /\ switched' = TRUE
  /\ UNCHANGED <<server, requests, device, kept, signedIn, touched, sent, overlapped>>

RestoreWhole(p) ==  \* mutant: the remembered list becomes one selected option
  LET Shown == [page EXCEPT !.poll = p, !.shut = p \in closed, !.loading = FALSE]
      Votes == {v \in kept : v.poll = p /\ v.token = VoterId}
  IN /\ p \in fetching /\ fetching' = fetching \ {p}
     /\ KeepToken
     /\ \/ Votes = {} /\ page' = Shown
        \/ \E v \in Votes : page' = [Shown EXCEPT !.selected = {v.options}, !.hasVoted = TRUE]
     /\ UNCHANGED <<server, requests, kept, signedIn, switched, touched, limits>>

FetchDone(p) ==
  LET Shown == [page EXCEPT !.poll = p, !.shut = p \in closed, !.loading = FALSE]
      Votes == {v \in kept : v.poll = p /\ v.token = VoterId}
  IN /\ p \in fetching /\ fetching' = fetching \ {p}
     /\ KeepToken
     /\ \/ Votes = {} /\ page' = Shown
        \/ \E v \in Votes : page' = [Shown EXCEPT !.selected = v.options, !.hasVoted = TRUE]
     /\ UNCHANGED <<server, requests, kept, signedIn, switched, touched, limits>>

FetchFails(p) ==
  /\ p \in fetching /\ fetching' = fetching \ {p}
  /\ page' = [page EXCEPT !.error = TRUE, !.loading = FALSE]
  /\ UNCHANGED <<server, requests, device, kept, signedIn, switched, touched, limits>>

handleOptionSelect(o) ==
  LET Chosen == page.selected IN
    /\ FormOpen /\ o \in OptionsOf[page.poll]
    /\ page' = [page EXCEPT !.selected =
         IF ~settings.multiple THEN {o}
         ELSE IF o \in Chosen THEN Chosen \ {o} ELSE Chosen \cup {o}]
    /\ touched' = (touched \/ page.submitting)
    /\ UNCHANGED <<server, requests, device, kept, signedIn, fetching, switched, limits>>

Pending(r) == r.stage \in {"sent", "checked"}

handleVoteSubmit ==
  /\ FormOpen /\ ~page.submitting /\ page.selected # {}
  /\ sent < MaxRequests /\ sent' = sent + 1
  /\ KeepToken
  /\ requests' = requests \cup
       {[vote |-> [poll |-> page.poll, token |-> VoterId, options |-> page.selected],
         user |-> signedIn, nth |-> sent + 1, at |-> "page", stage |-> "sent", found |-> 0]}
  /\ overlapped' = (overlapped \/ \E r \in requests : Pending(r) /\ r.vote.poll = page.poll)
  /\ page' = [page EXCEPT !.submitting = TRUE] /\ touched' = FALSE
  /\ UNCHANGED <<server, kept, signedIn, fetching, switched, events>>

Remember(v) == kept' = {w \in kept : w.poll # v.poll \/ w.token # v.token} \cup {v}

KeepSelected(r) ==  \* mutant: what is selected when the answer comes is remembered
  /\ r.stage = "accepted" /\ r.at # "gone"
  /\ requests' = requests \ {r}
  /\ \/ /\ Remember([r.vote EXCEPT !.options = page.selected])
        /\ page' = [page EXCEPT !.hasVoted = @ \/ r.at = "page",
                                !.submitting = @ /\ r.at # "page"]
     \/ /\ page' = [page EXCEPT !.submitting = @ /\ r.at # "page"]
        /\ UNCHANGED kept
  /\ UNCHANGED <<server, device, signedIn, fetching, switched, touched, limits>>

(* The answer arrives: the vote is remembered, or localStorage refuses and  *)
(* the page reports a failure.                                              *)
VoteDone(r) ==
  /\ r.stage = "accepted" /\ r.at # "gone"
  /\ requests' = requests \ {r}
  /\ \/ /\ Remember(r.vote)
        /\ page' = [page EXCEPT !.hasVoted = @ \/ r.at = "page",
                                !.submitting = @ /\ r.at # "page"]
     \/ /\ page' = [page EXCEPT !.submitting = @ /\ r.at # "page"]
        /\ UNCHANGED kept
  /\ UNCHANGED <<server, device, signedIn, fetching, switched, touched, limits>>

CountFailed(r) ==  \* mutant: the page takes any end of the request for a vote
  /\ r.at # "gone"
  /\ requests' = (requests \ {r}) \cup
       (IF Pending(r) THEN {[r EXCEPT !.at = "gone"]} ELSE {})
  /\ page' = [page EXCEPT !.hasVoted = @ \/ r.at = "page",
                          !.submitting = @ /\ r.at # "page"]
  /\ UNCHANGED <<server, device, kept, signedIn, fetching, switched, touched, limits>>

(* A refusal, a lost answer or the timeout of 30 s, after which the server  *)
(* may still receive the vote.                                              *)
VoteFails(r) ==
  /\ r.at # "gone"
  /\ requests' = (requests \ {r}) \cup
       (IF Pending(r) THEN {[r EXCEPT !.at = "gone"]} ELSE {})
  /\ page' = [page EXCEPT !.submitting = @ /\ r.at # "page"]
  /\ UNCHANGED <<server, device, kept, signedIn, fetching, switched, touched, limits>>

ChangeChoice ==
  /\ View = "voted" /\ settings.changes /\ ~page.shut
  /\ page' = [page EXCEPT !.hasVoted = FALSE]
  /\ UNCHANGED <<server, requests, device, kept, signedIn, fetching, switched, touched, limits>>

-----------------------------------------------------------------------------
(* The server, and the world around the browser.                            *)

Existing(r) ==
  {b \in ballots : /\ b.vote.poll = r.vote.poll
                   /\ IF settings.account THEN b.user = r.user ELSE b.vote.token = r.vote.token}

Reply(r, stage) ==
  requests' = (requests \ {r}) \cup
              (IF r.at = "gone" THEN {} ELSE {[r EXCEPT !.stage = stage]})

CheckVote(r) ==
  LET v       == r.vote
      Take(n) == requests' = (requests \ {r}) \cup {[r EXCEPT !.stage = "checked", !.found = n]}
  IN /\ r.stage = "sent"
     /\ \/ /\ v.poll \notin closed /\ v.options \subseteq OptionsOf[v.poll]
           /\ settings.multiple \/ Cardinality(v.options) = 1
           /\ \/ Existing(r) = {} /\ Take(0)
              \/ settings.changes /\ \E b \in Existing(r) : Take(b.nth)
        \/ Reply(r, "rejected")
     /\ UNCHANGED <<server, device, kept, signedIn, form, limits>>

(* The ballot is stored or changed, or it is not; and once it is the reply  *)
(* may still be an error, when the results cannot be read.                  *)
WriteVote(r) ==
  /\ r.stage = "checked"
  /\ \/ Reply(r, "rejected") /\ UNCHANGED <<ballots, accepted>>
     \/ /\ \/ /\ r.found = 0
              /\ ballots' = ballots \cup {[vote |-> r.vote, user |-> r.user, nth |-> r.nth]}
           \/ /\ r.found # 0
              /\ ballots' = {IF b.nth = r.found THEN [b EXCEPT !.vote.options = r.vote.options]
                             ELSE b : b \in ballots}
        /\ \/ Reply(r, "accepted") /\ accepted' = accepted \cup {r.vote}
           \/ Reply(r, "rejected") /\ UNCHANGED accepted
  /\ UNCHANGED <<settings, closed, device, kept, signedIn, form, limits>>

ClosePoll(p) ==
  /\ Happens("close") /\ closed' = closed \cup {p}
  /\ UNCHANGED <<settings, ballots, accepted, requests, device, kept, signedIn, form, sent, overlapped>>

Clear(left, votes) ==
  /\ Happens("clear")
  /\ stores' = left /\ kept' = votes
  /\ estranged' = (estranged \/ \A k \in DOMAIN left : left[k] = None)
  /\ UNCHANGED <<server, requests, print, made, signedIn, form, sent, overlapped>>

ClearStorage == Clear([stores EXCEPT !.local = None, !.legacy = None], {})
ClearCookies == Clear([stores EXCEPT !.cookie = None], kept)

ChangePrint(f) ==
  /\ Happens("print") /\ f # print
  /\ print' = f /\ estranged' = TRUE
  /\ UNCHANGED <<server, requests, stores, made, kept, signedIn, form, sent, overlapped>>

Session ==
  /\ Happens("session") /\ settings.account
  /\ \E u \in Users \ {signedIn} : signedIn' = u
  /\ UNCHANGED <<server, requests, device, kept, form, sent, overlapped>>

Next ==
  \/ \E p \in Polls : \/ \E how \in {"left", "gone"} : Open(p, how)
                      \/ Switch(p) \/ FetchDone(p) \/ FetchFails(p) \/ ClosePoll(p)
  \/ \E o \in Options : handleOptionSelect(o)
  \/ handleVoteSubmit \/ ChangeChoice
  \/ \E r \in requests : CheckVote(r) \/ WriteVote(r) \/ VoteDone(r) \/ VoteFails(r)
  \/ ClearStorage \/ ClearCookies \/ Session \/ \E f \in Prints : ChangePrint(f)

Spec == Init /\ [][Next]_vars

-----------------------------------------------------------------------------
(* The browser's and the page's state is well typed.                        *)
TypeOK ==
  /\ settings \in Settings /\ closed \subseteq Polls
  /\ ballots \subseteq Ballot /\ accepted \subseteq Vote /\ kept \subseteq Vote
  /\ requests \subseteq Request
  /\ print \in Prints /\ made \in 0..MaxTokens
  /\ stores \in [local : Tokens \cup {None}, cookie : Tokens \cup {None},
                 legacy : Tokens \cup {None}]
  /\ events \in 0..MaxEvents /\ sent \in 0..MaxRequests
  /\ signedIn \in Users /\ fetching \subseteq Polls
  /\ page \in [url : Polls, poll : Polls \cup {None}, shut : BOOLEAN,
               loading : BOOLEAN, error : BOOLEAN, selected : SUBSET Options,
               hasVoted : BOOLEAN, submitting : BOOLEAN]
  /\ switched \in BOOLEAN /\ touched \in BOOLEAN /\ estranged \in BOOLEAN
  /\ overlapped \in BOOLEAN

(* What the browser remembers of a poll is a vote the server accepted, with *)
(* the options and the token it was accepted with, whatever was chosen,     *)
(* opened or cleared while its answer was on the way.                       *)
KeptVoteWasAccepted == kept \subseteq accepted

(* A browser has one ballot in a poll, and in one that asks for an account  *)
(* every account has one, though answers are lost, votes are sent again and *)
(* a store is cleared. It needs the token, where no account is asked for,   *)
(* until the print changes or no store keeps it; and it needs each vote to  *)
(* leave the server before the next is sent: no index holds ballots apart.  *)
OneBallotPerBrowser ==
  (settings.account \/ ~estranged) /\ ~overlapped =>
    \A b, c \in ballots : b.vote.poll = c.vote.poll /\ b.user = c.user => b = c

(* "Your Vote" marks the options of a vote the server accepted for this     *)
(* poll, unless an option was chosen while the vote was being submitted or  *)
(* the page went from one poll to another without being mounted again.      *)
MarkedIsAccepted ==
  View = "voted" /\ ~touched /\ ~switched =>
    \E v \in accepted : v.poll = page.poll /\ v.options = YourVote
=============================================================================
