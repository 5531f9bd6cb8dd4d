----------------------------- MODULE Workspace -----------------------------
(***************************************************************************)
(* A creator's tab: the session, the page that lists the creator's polls   *)
(* (DashboardPage or MyPollsPage), the page that creates one, and the      *)
(* requests they leave in flight when the tab moves on. The server handles *)
(* one request at a time. Search, filter, statistics and the limit of six  *)
(* cards on the dashboard are left out.                                    *)
(***************************************************************************)
EXTENDS Session, PollDraft

CONSTANTS
  Polls,      \* the polls that may ever exist
  MaxOld,     \* bound on how many of them exist at first
  Loads,      \* loads of one list in flight at once
  MaxCalls,   \* bound on the closings, deletions and launches sent
  Events,     \* "load", "form", "tab", "device": what may happen
  MaxEvents   \* bound on how many of these do

ASSUME WorkspaceAssumption ==
  /\ None \notin Polls /\ MaxOld \in Nat /\ MaxCalls \in Nat /\ MaxEvents \in Nat
  /\ \E l \in Loads : TRUE

Shown    == {"none", "active", "closed"}
Status   == {"unborn", "active", "closed", "deleted"}
ListLoad == [stage : {"idle", "sent", "read"}, account : Accounts \cup {None},
             polls : [Polls -> Shown]]
Call     == [kind : {"close", "delete", "create"}, poll : Polls \cup {None},
             account : Accounts \cup {None}, at : {"page", "left"},
             stage : {"sent", "ok", "refused"}, accepted : BOOLEAN, plain : BOOLEAN]

VARIABLES
  owner, status,  \* the server: every poll's creator and status
  calls,          \* closings, deletions and launches in flight; "left": the page that
                  \* waits for the answer is not mounted any more
  local,          \* the state of the mounted page
  sent, events    \* counted against the bounds

server == <<owner, status>>
vars   == <<session, server, calls, local, sent, events>>

Happens(e) == e \in Events /\ events < MaxEvents /\ events' = events + 1

-----------------------------------------------------------------------------
(* The pages as they are mounted. A list starts its first load at once.     *)

Nothing == [p \in Polls |-> "none"]
Idle    == [stage |-> "idle", account |-> None, polls |-> Nothing]

LegacyFirst(L, s) ==  \* mutant: requests prefer the token of the older name
  LET a == IF s.legacyJwt # None THEN s.legacyJwt ELSE s.jwt
      l == CHOOSE l \in Loads : L.loads[l].stage = "idle"
  IN [L EXCEPT !.loads[l] = [Idle EXCEPT !.stage = "sent", !.account = a], !.loading = TRUE,
               !.crossed = \E k \in Loads : L.loads[k].stage # "idle"]

(* loadDashboardData and fetchPolls, with the token stored when they start. *)
StartLoad(L, s) ==
  LET l == CHOOSE l \in Loads : L.loads[l].stage = "idle"
  IN [L EXCEPT !.loads[l] = [Idle EXCEPT !.stage = "sent", !.account = getToken(s)],
               !.loading = TRUE,
               !.crossed = \E k \in Loads : L.loads[k].stage # "idle"]

NoList ==
  [kind |-> "list", shown |-> Nothing, loading |-> TRUE, loads |-> [l \in Loads |-> Idle],
   told    |-> Nothing,  \* history: what the page was told it had closed or deleted
   crossed |-> FALSE,    \* history: the last load was started while another was in flight
   failed  |-> FALSE,    \* history: the last load to end failed and left the old list
   changed |-> FALSE]    \* history: the stored token has changed since the page was mounted

NoDraft ==
  [kind |-> "draft", draft |-> NewDraft, launching |-> FALSE, created |-> None,
   unseen |-> {},        \* history: polls this page launched and has not shown yet
   lost   |-> FALSE]     \* history: a launch failed whose poll may exist

Elsewhere == [kind |-> "none"]
Lists     == {"dashboard", "mypolls"}

Fresh(p, v, s) ==
  CASE p \in Lists /\ v = None    -> StartLoad(NoList, s)
    [] p = "create" /\ v = None   -> NoDraft
    [] OTHER                      -> Elsewhere

Remount ==
  /\ local' = Fresh(page', verify', store')
  /\ calls' = {[c EXCEPT !.at = "left"] : c \in {c \in calls : c.stage = "sent"}}

(* A step of the session mounts another page, or leaves the page there is.  *)
Follow ==
  IF page' # page \/ Ready(page', verify') # Mounted THEN Remount
  ELSE /\ local' = IF local.kind = "list" /\ getToken(store') # getToken(store)
                   THEN [local EXCEPT !.changed = TRUE] ELSE local
       /\ UNCHANGED calls

Init ==
  /\ SessionInit
  /\ \E P \in SUBSET Polls, a \in Accounts :
       /\ Cardinality(P) <= MaxOld
       /\ owner = [p \in Polls |-> IF p \in P THEN a ELSE None]
       /\ status = [p \in Polls |-> IF p \in P THEN "active" ELSE "unborn"]
  /\ calls = {} /\ local = Fresh(page, verify, store)
  /\ sent = 0 /\ events = 0

-----------------------------------------------------------------------------
(* The session. A card, and the view of a created poll, carry its links.    *)

Listed == local.kind = "list" /\ ~local.loading

OnCard(p)  == page \in Lists /\ p \in CardLinks => Listed /\ local.shown # Nothing
Created(p) == page = "create" /\ p = "poll" => local.created # None
Offered(p) == OnCard(p) /\ Created(p)

Reload == \E p \in Pages : Happens("load") /\ Load(p) /\ Remount

Navigate == \E p \in Pages : Go(p) /\ Offered(p) /\ Follow /\ UNCHANGED events

SignIn ==
  /\ \/ Happens("form") /\ \E a \in Accounts : Login(a) \/ Register(a)
     \/ UNCHANGED events /\ \E f \in forms : FormOk(f) \/ FormFails(f)
  /\ Follow

Verified  == (VerifyOk \/ VerifyFails) /\ Follow /\ UNCHANGED events
SignOut   == Logout /\ Follow /\ UNCHANGED events
Expelled  == Unauthorized /\ Remount /\ UNCHANGED events
OtherTab  == /\ OtherTabLogsOut \/ \E a \in Accounts : OtherTabLogsIn(a)
             /\ Happens("tab") /\ Follow

SessionStep ==
  /\ Reload \/ Navigate \/ SignIn \/ Verified \/ SignOut \/ Expelled \/ OtherTab
  /\ UNCHANGED <<server, sent>>

-----------------------------------------------------------------------------
(* The list of polls.                                                       *)

GetUserPolls(l) ==
  LET Own(p) == owner[p] = local.loads[l].account /\ status[p] \in Shown IN
    /\ local.kind = "list"
    /\ local.loads[l].stage = "sent" /\ local.loads[l].account # None
    /\ local' = [local EXCEPT !.loads[l] = [stage |-> "read", account |-> None,
         polls |-> [p \in Polls |-> IF Own(p) THEN status[p] ELSE "none"]]]
    /\ UNCHANGED <<session, server, calls, sent, events>>

ListDone(l) ==
  /\ local.kind = "list" /\ local.loads[l].stage = "read"
  /\ local' = [local EXCEPT !.shown = local.loads[l].polls, !.loading = FALSE,
                            !.loads[l] = Idle, !.failed = FALSE]
  /\ UNCHANGED <<session, server, calls, sent, events>>

(* The dashboard takes a failure for an empty list, MyPollsPage keeps its   *)
(* list.                                                                    *)
ListFails(l) ==
  /\ local.kind = "list" /\ local.loads[l].stage # "idle"
  /\ local' = [local EXCEPT !.shown = IF page = "dashboard" THEN Nothing ELSE @,
                            !.failed = page # "dashboard",
                            !.loading = FALSE, !.loads[l] = Idle]
  /\ UNCHANGED <<session, server, calls, sent, events>>

Request(kind, p) ==
  [kind |-> kind, poll |-> p, account |-> getToken(store), at |-> "page", stage |-> "sent",
   accepted |-> TRUE, plain |-> TRUE]

(* A card's menu, and its confirmation.                                     *)
Change(kind, p) ==
  /\ Listed /\ sent < MaxCalls /\ Request(kind, p) \notin calls
  /\ \/ kind = "close" /\ local.shown[p] = "active"
     \/ kind = "delete" /\ local.shown[p] # "none"
  /\ calls' = calls \cup {Request(kind, p)} /\ sent' = sent + 1
  /\ UNCHANGED <<session, server, local, events>>

Becomes(kind) == IF kind = "close" THEN "closed" ELSE "deleted"

ChangePoll(c) ==
  /\ c.stage = "sent" /\ c.kind # "create"
  /\ \/ /\ owner[c.poll] = c.account /\ status[c.poll] \in Shown
        /\ status' = [status EXCEPT ![c.poll] = Becomes(c.kind)]
        /\ calls' = (calls \ {c}) \cup (IF c.at = "left" THEN {} ELSE {[c EXCEPT !.stage = "ok"]})
     \/ /\ calls' = (calls \ {c}) \cup
                    (IF c.at = "left" THEN {} ELSE {[c EXCEPT !.stage = "refused"]})
        /\ UNCHANGED status
  /\ UNCHANGED <<session, owner, local, sent, events>>

NoReload(c) ==  \* mutant: the list is not loaded again after a change
  /\ c \in calls /\ c.kind # "create" /\ c.at = "page" /\ c.stage = "ok"
  /\ calls' = calls \ {c}
  /\ local' = [local EXCEPT !.told[c.poll] = Becomes(c.kind)]
  /\ UNCHANGED <<session, server, sent, events>>

ChangeDone(c) ==
  /\ c \in calls /\ c.kind # "create" /\ c.at = "page" /\ c.stage = "ok"
  /\ \E l \in Loads : local.loads[l].stage = "idle"
  /\ calls' = calls \ {c}
  /\ local' = StartLoad([local EXCEPT !.told[c.poll] = Becomes(c.kind)], store)
  /\ UNCHANGED <<session, server, sent, events>>

-----------------------------------------------------------------------------
(* The form. Its fields stay open while a launch is in flight.              *)

Writing == local.kind = "draft" /\ local.created = None

Edit ==
  /\ Writing
  /\ \E d \in Edited(local.draft) : d # local.draft /\ local' = [local EXCEPT !.draft = d]
  /\ UNCHANGED <<session, server, calls, sent, events>>

LaunchAgain ==  \* mutant: the button stays enabled while a launch is in flight
  /\ Writing /\ validate(local.draft) /\ sent < MaxCalls
  /\ local' = [local EXCEPT !.launching = TRUE]
  /\ calls' = calls \cup
       {[Request("create", None) EXCEPT !.accepted = Accepts(local.draft),
                                        !.plain = Plain(local.draft)]}
  /\ sent' = sent + 1
  /\ UNCHANGED <<session, server, events>>

Launch ==
  /\ Writing /\ ~local.launching /\ validate(local.draft) /\ sent < MaxCalls
  /\ local' = [local EXCEPT !.launching = TRUE]
  /\ calls' = calls \cup
       {[Request("create", None) EXCEPT !.accepted = Accepts(local.draft),
                                        !.plain = Plain(local.draft)]}
  /\ sent' = sent + 1
  /\ UNCHANGED <<session, server, events>>

CreatePoll(c) ==
  /\ c.stage = "sent" /\ c.kind = "create"
  /\ \/ \E p \in Polls :
          /\ c.accepted /\ c.account # None /\ status[p] = "unborn"
          /\ status' = [status EXCEPT ![p] = "active"]
          /\ owner' = [owner EXCEPT ![p] = c.account]
          /\ \/ /\ c.at = "left" /\ calls' = calls \ {c} /\ UNCHANGED local
             \/ /\ c.at = "page"
                /\ calls' = (calls \ {c}) \cup {[c EXCEPT !.stage = "ok", !.poll = p]}
                /\ local' = [local EXCEPT !.unseen = @ \cup {p}]
     \/ /\ calls' = (calls \ {c}) \cup
                    (IF c.at = "left" THEN {} ELSE {[c EXCEPT !.stage = "refused"]})
        /\ UNCHANGED <<server, local>>
  /\ UNCHANGED <<session, sent, events>>

LaunchDone(c) ==
  /\ c \in calls /\ c.kind = "create" /\ c.at = "page" /\ c.stage = "ok"
  /\ calls' = calls \ {c}
  /\ local' = [local EXCEPT !.created = c.poll, !.launching = FALSE,
                            !.unseen = @ \ {c.poll}]
  /\ UNCHANGED <<session, server, sent, events>>

CreateAnother ==
  /\ local.kind = "draft" /\ local.created # None
  /\ local' = [local EXCEPT !.created = None, !.draft = NewDraft]
  /\ UNCHANGED <<session, server, calls, sent, events>>

(* A refusal, a lost answer or the timeout: the server may still receive    *)
(* the request.                                                             *)
CallFails(c) ==
  /\ c \in calls /\ c.at = "page"
  /\ calls' = (calls \ {c}) \cup (IF c.stage = "sent" THEN {[c EXCEPT !.at = "left"]} ELSE {})
  /\ local' = IF c.kind # "create" THEN local
              ELSE [local EXCEPT !.launching = FALSE, !.lost = @ \/ c.stage # "refused"]
  /\ UNCHANGED <<session, server, sent, events>>

(* The poll is closed or deleted from another device, or expires.           *)
OtherDevice ==
  /\ Happens("device")
  /\ \E p \in Polls, s \in {"closed", "deleted"} :
       status[p] \in Shown /\ status' = [status EXCEPT ![p] = s]
  /\ UNCHANGED <<session, owner, calls, local, sent>>

Next ==
  \/ SessionStep
  \/ \E l \in Loads : GetUserPolls(l) \/ ListDone(l) \/ ListFails(l)
  \/ \E p \in Polls, kind \in {"close", "delete"} : Change(kind, p)
  \/ \E c \in calls : ChangePoll(c) \/ ChangeDone(c) \/ CreatePoll(c) \/ LaunchDone(c) \/ CallFails(c)
  \/ Edit \/ Launch \/ CreateAnother \/ OtherDevice

Spec == Init /\ [][Next]_vars

-----------------------------------------------------------------------------
ListType ==
  [kind : {"list"}, shown : [Polls -> Shown], loading : BOOLEAN, loads : [Loads -> ListLoad],
   told : [Polls -> {"none", "closed", "deleted"}], crossed : BOOLEAN, failed : BOOLEAN,
   changed : BOOLEAN]

DraftType ==
  [kind : {"draft"}, draft : [question : Questions, options : Bags],
   launching : BOOLEAN, created : Polls \cup {None}, unseen : SUBSET Polls, lost : BOOLEAN]

(* The state of the tab and of its requests is well typed, and a page holds *)
(* the state of its own kind exactly while it is mounted.                   *)
TypeOK ==
  /\ SessionTypeOK
  /\ owner \in [Polls -> Accounts \cup {None}] /\ status \in [Polls -> Status]
  /\ calls \subseteq Call /\ sent \in 0..MaxCalls /\ events \in 0..MaxEvents
  /\ local \in {Elsewhere} \cup ListType \cup DraftType
  /\ local.kind = "list" <=> page \in Lists /\ Mounted
  /\ local.kind = "draft" <=> page = "create" /\ Mounted
  /\ local.kind = "draft" => Size(local.draft.options) <= MaxOptions

(* The polls listed belong to the account shown beside them, whichever      *)
(* accounts sign in, out and in again while loads are in flight: unless     *)
(* the session is at odds with its token, or the token was exchanged behind *)
(* the mounted list.                                                        *)
ListBelongs ==
  local.kind = "list" /\ ~overtaken /\ ~foreign /\ ~local.changed =>
    \A p \in Polls : local.shown[p] # "none" => owner[p] = user

(* When its loads have ended, the list shows every closing and deletion     *)
(* the page has reported: unless the last load failed, or was in flight     *)
(* together with an earlier one, whose answer may come last.                *)
AcknowledgedShown ==
  local.kind = "list" /\ ~local.crossed /\ ~local.failed
    /\ (\A l \in Loads : local.loads[l].stage = "idle") =>
    \A p \in Polls : /\ local.told[p] = "deleted" => local.shown[p] = "none"
                     /\ local.told[p] = "closed" => local.shown[p] # "active"

(* A poll the page launches is one the backend accepts, if its texts are    *)
(* plain: short in every unit, and the same to JavaScript and to Go when    *)
(* they are trimmed and compared in lower case.                             *)
PlainAccepted == \A c \in calls : c.kind = "create" /\ c.plain => c.accepted

(* A launch makes one poll, and the page shows it before it can launch      *)
(* another: unless the answer to a launch was lost.                         *)
OneLaunchOnePoll ==
  local.kind = "draft" /\ ~local.lost => Cardinality(local.unseen) <= 1
=============================================================================
