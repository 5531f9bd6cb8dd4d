-------------------------- MODULE WorkspaceProofs --------------------------
(* Proofs about Session, and about Workspace, which adds the pages and their *)
(* requests to it, for any accounts, polls and bounds.                       *)
EXTENDS Workspace, SumLemmas

-----------------------------------------------------------------------------
(* The session by itself.                                                   *)

(* The strengthening of SessionAgrees. The two current keys are written and *)
(* wiped together. Unless a logout or login has overtaken a verification, a *)
(* user is stored only beside a token, and a verification in flight is of   *)
(* the stored token, or at least of a session that still has one.           *)
KeysTogether == store.jwt = store.userKey
UserHasToken == ~overtaken /\ getToken(store) = None => store.legacyUser = None
VerifyHasToken == ~overtaken /\ verify # None => getToken(store) # None
VerifiesOwn == verify # None /\ ~overtaken /\ ~foreign => verify = getToken(store)

SessionInv ==
  /\ SessionTypeOK
  /\ KeysTogether /\ UserHasToken /\ VerifyHasToken /\ VerifiesOwn
  /\ SessionAgrees

LEMMA NoStoreTyped == NoStore \in Store /\ getToken(NoStore) = None
                      /\ getStoredUser(NoStore) = None
BY DEF NoStore, Store, getToken, getStoredUser

LEMMA TokenTyped ==
  ASSUME NEW s \in Store
  PROVE  getToken(s) \in Accounts \cup {None} /\ getStoredUser(s) \in Accounts \cup {None}
BY DEF Store, getToken, getStoredUser

LEMMA RouteTyped ==
  ASSUME NEW p \in Pages, NEW u, NEW v
  PROVE  Route(p, u, v) \in Pages
BY DEF Route, Pages, Public

LEMMA LeftTyped ==
  ASSUME NEW F \in SUBSET Form
  PROVE  Left(F) \subseteq Form
BY DEF Left, Form

(* A page load takes user and verification from the store as it is.         *)
LEMMA StartKeeps ==
  ASSUME NEW s \in Store, NEW p \in Pages, Start(s, p), store' = s, SessionInv,
         s = store \/ s = NoStore
  PROVE  SessionInv'
<1>1. /\ getToken(s) \in Accounts \cup {None} /\ getStoredUser(s) \in Accounts \cup {None}
      /\ Route(p, getStoredUser(s), getToken(s)) \in Pages
  BY TokenTyped, RouteTyped
<1>2. SessionTypeOK'
  BY <1>1 DEF SessionInv, SessionTypeOK, Start
<1>3. KeysTogether'
  BY DEF SessionInv, KeysTogether, NoStore
<1>4. ASSUME ~overtaken', getToken(s) = None PROVE s.legacyUser = None
  <2>1. CASE s = NoStore
    BY <2>1 DEF NoStore
  <2>2. CASE s = store
    <3>1. ~overtaken
      BY <1>4 DEF Start
    <3> QED BY <1>4, <2>2, <3>1 DEF SessionInv, UserHasToken
  <2> QED BY <2>1, <2>2
<1>5. ~overtaken' /\ getToken(s) = None => getStoredUser(s) = None
  BY <1>3, <1>4 DEF KeysTogether, getToken, getStoredUser
<1>6. UserHasToken' /\ VerifyHasToken' /\ VerifiesOwn'
  BY <1>4 DEF UserHasToken, VerifyHasToken, VerifiesOwn, Start
<1>7. SessionAgrees'
  BY <1>5 DEF SessionAgrees, Start
<1> QED BY <1>2, <1>3, <1>6, <1>7 DEF SessionInv

LEMMA InitHolds == SessionInit => SessionInv
<1> SUFFICES ASSUME SessionInit PROVE SessionInv
  OBVIOUS
<1>1. PICK a \in Accounts :
        store \in {NoStore, [NoStore EXCEPT !.jwt = a, !.userKey = a],
                   [NoStore EXCEPT !.jwt = a, !.userKey = a, !.legacyUser = a],
                   [NoStore EXCEPT !.legacyJwt = a, !.legacyUser = a]}
  BY DEF SessionInit
<1>2. store \in Store /\ KeysTogether
      /\ (getToken(store) = None => getStoredUser(store) = None /\ store.legacyUser = None)
  <2> USE SessionAssumption
  <2>1. CASE store = NoStore
    BY <2>1 DEF NoStore, Store, KeysTogether, getToken, getStoredUser
  <2>2. CASE store = [NoStore EXCEPT !.jwt = a, !.userKey = a]
    BY <2>2 DEF NoStore, Store, KeysTogether, getToken, getStoredUser
  <2>3. CASE store = [NoStore EXCEPT !.jwt = a, !.userKey = a, !.legacyUser = a]
    BY <2>3 DEF NoStore, Store, KeysTogether, getToken, getStoredUser
  <2>4. CASE store = [NoStore EXCEPT !.legacyJwt = a, !.legacyUser = a]
    BY <2>4 DEF NoStore, Store, KeysTogether, getToken, getStoredUser
  <2> QED BY <1>1, <2>1, <2>2, <2>3, <2>4
<1>3. page \in Pages
  BY RouteTyped DEF SessionInit
<1>4. SessionTypeOK
  BY <1>2, <1>3, TokenTyped DEF SessionInit, SessionTypeOK
<1> QED
  BY <1>2, <1>4 DEF SessionInit, SessionInv, UserHasToken, VerifyHasToken, VerifiesOwn,
     SessionAgrees

LEMMA NextKeeps == SessionInv /\ [SessionNext]_session => SessionInv'
<1> SUFFICES ASSUME SessionInv, [SessionNext]_session PROVE SessionInv'
  OBVIOUS
<1> USE SessionAssumption
<1>1. ASSUME NEW p \in Pages, Load(p) PROVE SessionInv'
  BY <1>1, StartKeeps DEF Load, SessionInv, SessionTypeOK
<1>2. ASSUME NEW p \in Pages, Go(p) PROVE SessionInv'
  <2>1. page' \in Pages /\ forms' \subseteq Form
    BY <1>2, RouteTyped, LeftTyped DEF Go, SessionInv, SessionTypeOK
  <2> QED
    BY <1>2, <2>1 DEF Go, SessionInv, SessionTypeOK, KeysTogether, UserHasToken,
       VerifyHasToken, VerifiesOwn, SessionAgrees
<1>3. ASSUME NEW a \in Accounts, Login(a) \/ Register(a) PROVE SessionInv'
  BY <1>3 DEF Login, Register, Send, Form, SessionInv, SessionTypeOK, KeysTogether, UserHasToken,
     VerifyHasToken, VerifiesOwn, SessionAgrees
<1>4. ASSUME NEW a \in Accounts, OtherTabLogsIn(a) PROVE SessionInv'
  <2>1. store' \in Store /\ KeysTogether' /\ getToken(store') = a
    BY <1>4 DEF OtherTabLogsIn, SessionInv, SessionTypeOK, Store, KeysTogether, getToken
  <2> QED
    BY <1>4, <2>1 DEF OtherTabLogsIn, SessionInv, SessionTypeOK, UserHasToken,
       VerifyHasToken, VerifiesOwn, SessionAgrees
<1>5. ASSUME NEW f \in forms, FormOk(f) PROVE SessionInv'
  <2>1. f.account \in Accounts
    BY DEF SessionInv, SessionTypeOK, Form
  <2>2. store' \in Store /\ KeysTogether' /\ getToken(store') = f.account
    BY <1>5, <2>1 DEF FormOk, SessionInv, SessionTypeOK, Store, KeysTogether, getToken
  <2>3. SessionTypeOK'
    BY <1>5, <2>1, <2>2, LeftTyped DEF FormOk, SessionInv, SessionTypeOK, Pages, Guarded, Dashboard
  <2> QED
    BY <1>5, <2>1, <2>2, <2>3 DEF FormOk, SessionInv, UserHasToken, VerifyHasToken,
       VerifiesOwn, SessionAgrees
<1>6. ASSUME NEW f \in forms, FormFails(f) PROVE SessionInv'
  BY <1>6 DEF FormFails, SessionInv, SessionTypeOK, KeysTogether, UserHasToken,
     VerifyHasToken, VerifiesOwn, SessionAgrees
<1>7. ASSUME VerifyOk PROVE SessionInv'
  <2>1. store' \in Store /\ KeysTogether' /\ getToken(store') = getToken(store)
    BY <1>7 DEF VerifyOk, SessionInv, SessionTypeOK, Store, KeysTogether, getToken
  <2> QED
    BY <1>7, <2>1 DEF VerifyOk, SessionInv, SessionTypeOK, UserHasToken, VerifyHasToken,
       VerifiesOwn, SessionAgrees
<1>8. ASSUME VerifyFails PROVE SessionInv'
  <2>1. page' \in Pages /\ forms' \subseteq Form
    BY <1>8, RouteTyped, LeftTyped DEF VerifyFails, SessionInv, SessionTypeOK
  <2> QED
    BY <1>8, <2>1, NoStoreTyped DEF VerifyFails, SessionInv, SessionTypeOK, NoStore,
       KeysTogether, UserHasToken, VerifyHasToken, VerifiesOwn, SessionAgrees
<1>9. ASSUME Unauthorized PROVE SessionInv'
  <2>1. "login" \in Pages
    BY DEF Pages, Public
  <2> QED
    BY <1>9, <2>1, StartKeeps, NoStoreTyped DEF Unauthorized
<1>10. ASSUME Logout PROVE SessionInv'
  <2>1. page' \in Pages /\ forms' \subseteq Form
    BY <1>10, LeftTyped DEF Logout, Pages, Public, SessionInv, SessionTypeOK
  <2> QED
    BY <1>10, <2>1, NoStoreTyped DEF Logout, SessionInv, SessionTypeOK, NoStore,
       KeysTogether, UserHasToken, VerifyHasToken, VerifiesOwn, SessionAgrees
<1>11. ASSUME OtherTabLogsOut PROVE SessionInv'
  BY <1>11, NoStoreTyped DEF OtherTabLogsOut, SessionInv, SessionTypeOK, NoStore,
     KeysTogether, UserHasToken, VerifyHasToken, VerifiesOwn, SessionAgrees
<1>12. ASSUME UNCHANGED session PROVE SessionInv'
  BY <1>12 DEF session, SessionInv, SessionTypeOK, KeysTogether, UserHasToken,
     VerifyHasToken, VerifiesOwn, SessionAgrees
<1> QED
  BY <1>1, <1>2, <1>3, <1>4, <1>5, <1>6, <1>7, <1>8, <1>9, <1>10, <1>11, <1>12 DEF SessionNext

(* The strengthened invariant holds of every behaviour of the session.      *)
THEOREM SessionInvariant == SessionSpec => []SessionInv
BY InitHolds, NextKeeps, PTL DEF SessionSpec

(* The session's state is well typed: of every page load, form, logout,     *)
(* failed request and other tab.                                            *)
THEOREM SessionTyped == SessionSpec => []SessionTypeOK
<1>1. SessionInv => SessionTypeOK
  BY DEF SessionInv
<1> QED BY <1>1, SessionInvariant, PTL

(* The account that is shown is the one the requests are made for, except   *)
(* after a change by another tab or an overtaken verification.              *)
THEOREM SessionAgreement == SessionSpec => []SessionAgrees
<1>1. SessionInv => SessionAgrees
  BY DEF SessionInv
<1> QED BY <1>1, SessionInvariant, PTL

-----------------------------------------------------------------------------
(* The session inside the workspace.                                        *)


LEMMA InitStarts == Init => SessionInit
BY DEF Init

LEMMA StepIsSession == [Next]_vars => [SessionNext]_session
<1> SUFFICES ASSUME [Next]_vars PROVE [SessionNext]_session
  OBVIOUS
<1>1. CASE SessionStep
  BY <1>1 DEF SessionStep, Reload, Navigate, SignIn, Verified, SignOut, Expelled, OtherTab,
     SessionNext
<1>2. ASSUME NEW l \in Loads, GetUserPolls(l) \/ ListDone(l) \/ ListFails(l)
      PROVE  UNCHANGED session
  BY <1>2 DEF GetUserPolls, ListDone, ListFails
<1>3. ASSUME NEW p \in Polls, NEW kind \in {"close", "delete"}, Change(kind, p)
      PROVE  UNCHANGED session
  BY <1>3 DEF Change
<1>4. ASSUME NEW c \in calls, ChangePoll(c) \/ ChangeDone(c) \/ CreatePoll(c)
                              \/ LaunchDone(c) \/ CallFails(c)
      PROVE  UNCHANGED session
  BY <1>4 DEF ChangePoll, ChangeDone, CreatePoll, LaunchDone, CallFails
<1>5. CASE Edit \/ Launch \/ CreateAnother \/ OtherDevice
  BY <1>5 DEF Edit, Launch, CreateAnother, OtherDevice
<1>6. CASE UNCHANGED vars
  BY <1>6 DEF vars, session
<1> QED BY <1>1, <1>2, <1>3, <1>4, <1>5, <1>6 DEF Next

(* Whatever its pages and its requests do, the workspace takes no step that *)
(* the session by itself does not take.                                     *)
THEOREM KeepsToSession == Spec => SessionSpec
BY InitStarts, StepIsSession, PTL DEF Spec, SessionSpec

(* In the workspace too, the account shown is the one requests are made     *)
(* for.                                                                     *)
THEOREM WorkspaceAgreement == Spec => []SessionAgrees
BY KeepsToSession, SessionAgreement, PTL

-----------------------------------------------------------------------------
(* Whose polls the list shows. A list that has been mounted with the stored *)
(* token, and has kept it, has asked for, read and shown the polls of that  *)
(* token's account alone; a poll that has a creator keeps it.               *)

Token == Accounts \cup {None}

(* A form with as many options as the page lets it have.                    *)
Drafts ==
  {d \in [question : Questions, options : Bags] : Size(d.options) \in 2..MaxOptions}

DraftShape ==
  [kind : {"draft"}, draft : Drafts,
   launching : BOOLEAN, created : Polls \cup {None}, unseen : SUBSET Polls, lost : BOOLEAN]

ListOf(L, t) ==
  ~L.changed =>
    /\ \A l \in Loads : L.loads[l].stage = "sent" => L.loads[l].account = t
    /\ \A l \in Loads, p \in Polls :
         L.loads[l].polls[p] # "none" => owner[p] = t /\ status[p] # "unborn"
    /\ \A p \in Polls : L.shown[p] # "none" => owner[p] = t /\ status[p] # "unborn"

(* A request of the mounted page is of that page's kind, and changes a poll. *)
Placed(c) ==
  /\ c \in Call
  /\ c.at = "page" => local.kind = IF c.kind = "create" THEN "draft" ELSE "list"
  /\ c.kind # "create" => c.poll \in Polls

ListInv ==
  /\ owner \in [Polls -> Token] /\ status \in [Polls -> Status]
  /\ local \in {Elsewhere} \cup ListType \cup DraftShape
  /\ \A c \in calls : Placed(c)
  /\ local.kind = "list" => page \in Lists /\ verify = None /\ ListOf(local, getToken(store))

LEMMA KindTells ==
  ASSUME local \in {Elsewhere} \cup ListType \cup DraftShape
  PROVE  /\ local.kind = "list" => local \in ListType
         /\ local.kind = "draft" => local \in DraftShape
BY DEF Elsewhere, ListType, DraftShape

LEMMA IdleTyped == Idle \in ListLoad /\ Nothing \in [Polls -> Shown]
BY DEF Idle, Nothing, ListLoad, Shown

(* A load starts with the token in the store.                               *)
LEMMA StartLoadKeeps ==
  ASSUME NEW L \in ListType, NEW s \in Store, ListOf(L, getToken(s)),
         \E l \in Loads : L.loads[l].stage = "idle"
  PROVE  /\ StartLoad(L, s) \in ListType
         /\ ListOf(StartLoad(L, s), getToken(s))
<1> DEFINE l == CHOOSE l \in Loads : L.loads[l].stage = "idle"
           r == [Idle EXCEPT !.stage = "sent", !.account = getToken(s)]
           S == StartLoad(L, s)
<1>1. l \in Loads
  OBVIOUS
<1>2. r \in ListLoad /\ r.stage = "sent" /\ r.account = getToken(s) /\ r.polls = Nothing
  BY TokenTyped, IdleTyped DEF Idle, ListLoad, Nothing, Shown
<1>3. S = [L EXCEPT !.loads = [L.loads EXCEPT ![l] = r], !.loading = TRUE,
                    !.crossed = \E k \in Loads : L.loads[k].stage # "idle"]
  BY DEF StartLoad, ListType
<1> HIDE DEF l, r
<1>4. L.loads \in [Loads -> ListLoad] /\ [L.loads EXCEPT ![l] = r] \in [Loads -> ListLoad]
  BY <1>1, <1>2 DEF ListType
<1>5. S \in ListType
  BY <1>3, <1>4 DEF ListType
<1>6. S.shown = L.shown /\ S.changed = L.changed /\ S.loads = [L.loads EXCEPT ![l] = r]
  BY <1>3 DEF ListType
<1>7. ListOf(S, getToken(s))
  BY <1>1, <1>2, <1>4, <1>6 DEF ListOf, Nothing
<1> QED BY <1>5, <1>7

LEMMA FreshList ==
  ASSUME NEW s \in Store
  PROVE  StartLoad(NoList, s) \in ListType /\ ListOf(StartLoad(NoList, s), getToken(s))
<1>1. NoList \in ListType
  BY IdleTyped DEF NoList, ListType, Nothing
<1>2. ListOf(NoList, getToken(s))
  BY DEF ListOf, NoList, Idle, Nothing
<1>3. \E l \in Loads : NoList.loads[l].stage = "idle"
  BY WorkspaceAssumption DEF NoList, Idle
<1> QED BY <1>1, <1>2, <1>3, StartLoadKeeps

(* An option occurs at most as often as there are options.                  *)
LEMMA BagTyped ==
  ASSUME NEW o \in [Texts -> Nat]
  PROVE  /\ Size(o) \in Nat
         /\ Size(o) <= MaxOptions => o \in Bags
<1>1. Size(o) \in Nat /\ \A t \in Texts : o[t] <= Size(o)
  BY DraftAssumption, SumCounts, SumAtLeast DEF Size
<1>2. ASSUME Size(o) <= MaxOptions PROVE o \in Bags
  <2>1. \A t \in Texts : o[t] \in 0..MaxOptions
    BY <1>1, <1>2, DraftAssumption
  <2> QED BY <2>1 DEF Bags
<1> QED BY <1>1, <1>2

(* The form starts with two empty options.                                  *)
LEMMA NewDraftTyped == NewDraft \in Drafts
<1> DEFINE zero == [t \in Texts |-> 0]
           one == [zero EXCEPT ![Blank] = @ + 1]
           two == [one EXCEPT ![Blank] = @ + 1]
           o == [t \in Texts |-> IF t = Blank THEN 2 ELSE 0]
<1>1. zero \in [Texts -> Nat] /\ one \in [Texts -> Nat] /\ o \in [Texts -> Nat]
  <2>1. zero \in [Texts -> Nat] /\ o \in [Texts -> Nat]
    OBVIOUS
  <2>2. one \in [Texts -> Nat]
    <3>1. zero \in [Texts -> Nat] /\ Blank \in Texts
      BY <2>1, DraftAssumption
    <3> HIDE DEF zero
    <3> QED BY <3>1
  <2> QED BY <2>1, <2>2
<1>2. o = two
  BY DraftAssumption
<1>3. SumFunction(zero) = 0
  BY <1>1, DraftAssumption, SumZero
<1>4. SumFunction(one) = SumFunction(zero) + 1
  <2> HIDE DEF zero
  <2> QED BY <1>1, DraftAssumption, SumIncrement
<1>5. SumFunction(two) = SumFunction(one) + 1
  <2> HIDE DEF one
  <2> QED BY <1>1, DraftAssumption, SumIncrement
<1>6. Size(o) = 2
  BY <1>2, <1>3, <1>4, <1>5 DEF Size
<1>7. o \in Bags /\ Size(o) \in 2..MaxOptions
  BY <1>1, <1>6, BagTyped, DraftAssumption
<1> QED BY <1>7 DEF NewDraft, Drafts, Questions

(* What a page that is mounted holds.                                       *)
LEMMA FreshTyped ==
  ASSUME NEW p \in Pages, NEW v, NEW s \in Store
  PROVE  /\ Fresh(p, v, s) \in {Elsewhere} \cup ListType \cup DraftShape
         /\ Fresh(p, v, s).kind = "list" =>
              p \in Lists /\ v = None /\ ListOf(Fresh(p, v, s), getToken(s))
<1>1. NewDraft \in Drafts
  BY NewDraftTyped
<1>2. NoDraft \in DraftShape /\ NoDraft.kind = "draft"
  BY <1>1 DEF NoDraft, DraftShape
<1>3. CASE p \in Lists /\ v = None
  BY <1>3, FreshList DEF Fresh, Lists
<1>4. CASE p = "create" /\ v = None
  BY <1>2, <1>4 DEF Fresh, Lists
<1>5. CASE ~(p \in Lists /\ v = None) /\ ~(p = "create" /\ v = None)
  BY <1>5 DEF Fresh, Elsewhere
<1> QED BY <1>3, <1>4, <1>5

LEMMA ListInit == Init => ListInv
<1> SUFFICES ASSUME Init PROVE ListInv
  OBVIOUS
<1>1. PICK P \in SUBSET Polls, a \in Accounts :
        /\ owner = [p \in Polls |-> IF p \in P THEN a ELSE None]
        /\ status = [p \in Polls |-> IF p \in P THEN "active" ELSE "unborn"]
  BY DEF Init
<1>2. owner \in [Polls -> Token] /\ status \in [Polls -> Status]
  BY <1>1 DEF Token, Status
<1>3. page \in Pages /\ store \in Store
  BY InitHolds, InitStarts DEF SessionInv, SessionTypeOK
<1>4. calls = {} /\ local = Fresh(page, verify, store)
  BY DEF Init
<1> QED BY <1>2, <1>3, <1>4, FreshTyped DEF ListInv

LEMMA RemountKeeps ==
  ASSUME ListInv, SessionInv', Remount, UNCHANGED <<owner, status>>
  PROVE  ListInv'
<1>1. page' \in Pages /\ store' \in Store
  BY DEF SessionInv, SessionTypeOK
<1>2. /\ local' \in {Elsewhere} \cup ListType \cup DraftShape
      /\ local'.kind = "list" =>
           page' \in Lists /\ verify' = None /\ ListOf(local', getToken(store'))
  BY <1>1, FreshTyped DEF Remount
<1>3. ListOf(local', getToken(store')) => ListOf(local, getToken(store))'
  BY DEF ListOf
<1>4. \A c \in calls' : Placed(c)'
  BY DEF Remount, ListInv, Placed, Call
<1> QED BY <1>2, <1>3, <1>4 DEF ListInv

LEMMA FollowKeeps ==
  ASSUME ListInv, SessionInv', Follow, UNCHANGED <<owner, status>>
  PROVE  ListInv'
<1>1. CASE page' # page \/ Ready(page', verify') # Mounted
  BY <1>1, RemountKeeps DEF Follow
<1>2. CASE page' = page /\ Ready(page', verify') = Mounted
  <2>1. /\ local' = IF local.kind = "list" /\ getToken(store') # getToken(store)
                     THEN [local EXCEPT !.changed = TRUE] ELSE local
        /\ calls' = calls
    BY <1>2 DEF Follow
  <2>2. CASE local.kind = "list"
    <3>1. local \in ListType /\ page \in Lists /\ verify = None /\ ListOf(local, getToken(store))
      BY <2>2, KindTells DEF ListInv
    <3>2. verify' = None
      BY <1>2, <3>1 DEF Ready, Mounted, Lists, Public
    <3>3. local' \in ListType /\ local'.kind = "list"
      BY <2>1, <3>1 DEF ListType
    <3>4. ListOf(local, getToken(store))'
      <4>1. CASE getToken(store') # getToken(store)
        BY <2>1, <2>2, <3>1, <4>1 DEF ListOf, ListType
      <4>2. CASE getToken(store') = getToken(store)
        BY <2>1, <3>1, <4>2 DEF ListOf
      <4> QED BY <4>1, <4>2
    <3>5. \A c \in calls' : Placed(c)'
      BY <2>1, <2>2, <3>3 DEF ListInv, Placed
    <3> QED BY <1>2, <2>1, <2>2, <3>1, <3>2, <3>3, <3>4, <3>5 DEF ListInv
  <2>3. CASE local.kind # "list"
    BY <2>1, <2>3 DEF ListInv, Placed
  <2> QED BY <2>2, <2>3
<1> QED BY <1>1, <1>2

LEMMA SessionKeepsList ==
  ASSUME ListInv, SessionInv', SessionStep
  PROVE  ListInv'
<1>1. UNCHANGED <<owner, status>>
  BY DEF SessionStep, server
<1>2. Remount \/ Follow
  BY DEF SessionStep, Reload, Navigate, SignIn, Verified, SignOut, Expelled, OtherTab
<1> QED BY <1>1, <1>2, RemountKeeps, FollowKeeps

(* A step inside a list, which leaves the session as it is.                 *)
LEMMA InListKeeps ==
  ASSUME ListInv, UNCHANGED <<session, owner, status>>, local.kind = "list",
         local' \in ListType, ListOf(local', getToken(store)),
         calls' \subseteq calls
  PROVE  ListInv'
<1>1. page' = page /\ verify' = verify /\ store' = store
  BY DEF session
<1>2. local'.kind = "list" /\ ListOf(local, getToken(store))'
  BY <1>1 DEF ListOf, ListType
<1>3. \A c \in calls' : Placed(c)'
  BY <1>2 DEF ListInv, Placed
<1> QED BY <1>1, <1>2, <1>3 DEF ListInv

LEMMA ListKeepsList ==
  ASSUME ListInv, NEW l \in Loads, GetUserPolls(l) \/ ListDone(l) \/ ListFails(l)
  PROVE  ListInv'
<1>1. local.kind = "list" /\ UNCHANGED <<session, owner, status, calls>>
  BY DEF GetUserPolls, ListDone, ListFails, server
<1>2. local \in ListType /\ ListOf(local, getToken(store))
  BY <1>1, KindTells DEF ListInv
<1>3. local.loads \in [Loads -> ListLoad] /\ local.shown \in [Polls -> Shown]
  BY <1>2 DEF ListType
<1>4. CASE GetUserPolls(l)
  <2> DEFINE Own(p) == owner[p] = local.loads[l].account /\ status[p] \in Shown
             r == [stage |-> "read", account |-> None,
                   polls |-> [p \in Polls |-> IF Own(p) THEN status[p] ELSE "none"]]
  <2>1. local' = [local EXCEPT !.loads = [local.loads EXCEPT ![l] = r]]
    BY <1>2, <1>4 DEF GetUserPolls, ListType
  <2>2. r \in ListLoad
    BY DEF ListLoad, Shown
  <2>3. local' \in ListType
    BY <1>2, <1>3, <2>1, <2>2 DEF ListType
  <2>4. \A p \in Polls : r.polls[p] # "none" =>
          owner[p] = local.loads[l].account /\ status[p] # "unborn"
    BY DEF Shown
  <2>5. local.loads[l].stage = "sent" /\ r.stage = "read"
    BY <1>4 DEF GetUserPolls
  <2> HIDE DEF r
  <2>6. local'.loads = [local.loads EXCEPT ![l] = r] /\ local'.shown = local.shown
        /\ local'.changed = local.changed
    BY <1>2, <2>1 DEF ListType
  <2>7. ListOf(local', getToken(store))
    BY <1>2, <1>3, <2>4, <2>5, <2>6 DEF ListOf
  <2> QED BY <1>1, <2>3, <2>7, InListKeeps
<1>5. CASE ListDone(l)
  <2>1. local' = [local EXCEPT !.shown = local.loads[l].polls, !.loading = FALSE,
                               !.loads = [local.loads EXCEPT ![l] = Idle], !.failed = FALSE]
    BY <1>2, <1>5 DEF ListDone, ListType
  <2>2. local' \in ListType
    BY <1>2, <1>3, <2>1, IdleTyped DEF ListType, ListLoad
  <2>3. local'.loads = [local.loads EXCEPT ![l] = Idle] /\ local'.shown = local.loads[l].polls
        /\ local'.changed = local.changed
    BY <1>2, <2>1 DEF ListType
  <2>4. ListOf(local', getToken(store))
    BY <1>2, <1>3, <2>3 DEF ListOf, Idle, Nothing
  <2> QED BY <1>1, <2>2, <2>4, InListKeeps
<1>6. CASE ListFails(l)
  <2>1. local' = [local EXCEPT !.shown = IF page = "dashboard" THEN Nothing ELSE local.shown,
                               !.failed = page # "dashboard", !.loading = FALSE,
                               !.loads = [local.loads EXCEPT ![l] = Idle]]
    BY <1>2, <1>6 DEF ListFails, ListType
  <2>2. local' \in ListType
    BY <1>2, <1>3, <2>1, IdleTyped DEF ListType, ListLoad
  <2>3. /\ local'.loads = [local.loads EXCEPT ![l] = Idle]
        /\ local'.shown = Nothing \/ local'.shown = local.shown
        /\ local'.changed = local.changed
    BY <1>2, <2>1 DEF ListType
  <2>4. ListOf(local', getToken(store))
    BY <1>2, <1>3, <2>3 DEF ListOf, Idle, Nothing
  <2> QED BY <1>1, <2>2, <2>4, InListKeeps
<1> QED BY <1>4, <1>5, <1>6

(* The server: a poll that exists goes on existing, and keeps its creator.  *)
Grows ==
  /\ owner' \in [Polls -> Token] /\ status' \in [Polls -> Status]
  /\ \A p \in Polls : status[p] # "unborn" => owner'[p] = owner[p] /\ status'[p] # "unborn"

LEMMA GrowingKeepsListOf ==
  ASSUME NEW L, NEW t, Grows, ListOf(L, t)
  PROVE  \/ L.changed
         \/ /\ \A l \in Loads : L.loads[l].stage = "sent" => L.loads[l].account = t
            /\ \A l \in Loads, p \in Polls :
                 L.loads[l].polls[p] # "none" => owner'[p] = t /\ status'[p] # "unborn"
            /\ \A p \in Polls : L.shown[p] # "none" => owner'[p] = t /\ status'[p] # "unborn"
BY DEF ListOf, Grows

(* A step that leaves the page alone and adds no request of another page.   *)
LEMMA PageStays ==
  ASSUME ListInv, UNCHANGED <<session, local>>, Grows, \A c \in calls' : Placed(c)
  PROVE  ListInv'
<1>1. page' = page /\ verify' = verify /\ store' = store /\ local' = local
  BY DEF session
<1>2. ListOf(local, getToken(store)) => ListOf(local, getToken(store))'
  BY <1>1, GrowingKeepsListOf DEF ListOf
<1>3. owner' \in [Polls -> Token] /\ status' \in [Polls -> Status]
  BY DEF Grows
<1>4. \A c \in calls' : Placed(c)'
  BY <1>1 DEF Placed
<1> QED BY <1>1, <1>2, <1>3, <1>4 DEF ListInv

LEMMA InDraftKeeps ==
  ASSUME ListInv, UNCHANGED session, local.kind = "draft", local' \in DraftShape, Grows,
         calls' \subseteq Call,
         \A c \in calls' : c \in calls \/ c.kind = "create"
  PROVE  ListInv'
<1>1. local'.kind = "draft"
  BY DEF DraftShape
<1>2. \A c \in calls' : Placed(c)'
  BY <1>1 DEF ListInv, Placed
<1>4. owner' \in [Polls -> Token] /\ status' \in [Polls -> Status]
  BY DEF Grows
<1> QED BY <1>1, <1>2, <1>4 DEF ListInv

LEMMA SameServerGrows == ListInv /\ UNCHANGED server => Grows
BY DEF ListInv, server, Grows

LEMMA RequestTyped ==
  ASSUME SessionInv, NEW kind \in {"close", "delete", "create"}, NEW p \in Polls \cup {None}
  PROVE  /\ Request(kind, p) \in Call
         /\ Request(kind, p).kind = kind /\ Request(kind, p).poll = p
BY TokenTyped DEF Request, Call, SessionInv, SessionTypeOK

LEMMA ChangeKeeps ==
  ASSUME ListInv, SessionInv, NEW p \in Polls, NEW kind \in {"close", "delete"}, Change(kind, p)
  PROVE  ListInv'
<1>1. /\ calls' = calls \cup {Request(kind, p)} /\ local.kind = "list"
      /\ UNCHANGED <<session, local, server>>
  BY DEF Change, Listed
<1>2. Request(kind, p) \in Call /\ Request(kind, p).kind # "create" /\ Request(kind, p).poll = p
  BY RequestTyped
<1>3. \A c \in calls' : Placed(c)
  BY <1>1, <1>2 DEF ListInv, Placed
<1>4. Grows
  BY <1>1, SameServerGrows
<1> QED BY <1>1, <1>3, <1>4, PageStays

LEMMA ChangePollKeeps ==
  ASSUME ListInv, NEW c \in calls, ChangePoll(c)
  PROVE  ListInv'
<1>1. UNCHANGED <<session, local, owner>> /\ c \in Call /\ c.kind # "create" /\ c.poll \in Polls
  BY DEF ChangePoll, ListInv, Placed
<1>2. /\ status' = status \/ status' = [status EXCEPT ![c.poll] = Becomes(c.kind)]
      /\ Becomes(c.kind) \in {"closed", "deleted"}
  BY DEF ChangePoll, Becomes
<1>3. Grows
  BY <1>1, <1>2 DEF ListInv, Grows, Status
<1>4. \A d \in calls' : d \in calls
        \/ (c.at # "left" /\ (d = [c EXCEPT !.stage = "ok"] \/ d = [c EXCEPT !.stage = "refused"]))
  BY DEF ChangePoll
<1>5. \A x \in {"ok", "refused"} : /\ [c EXCEPT !.stage = x] \in Call
                                   /\ [c EXCEPT !.stage = x].at = c.at
                                   /\ [c EXCEPT !.stage = x].kind = c.kind
                                   /\ [c EXCEPT !.stage = x].poll = c.poll
  BY <1>1 DEF Call
<1>6. \A d \in calls' : Placed(d)
  BY <1>1, <1>4, <1>5 DEF ListInv, Placed
<1> QED BY <1>1, <1>3, <1>6, PageStays

LEMMA ChangeDoneKeeps ==
  ASSUME ListInv, SessionInv, NEW c \in calls, ChangeDone(c)
  PROVE  ListInv'
<1> DEFINE L == [local EXCEPT !.told[c.poll] = Becomes(c.kind)]
<1>1. /\ c.kind # "create" /\ c.at = "page" /\ UNCHANGED <<session, owner, status>>
      /\ calls' \subseteq calls /\ local' = StartLoad(L, store)
      /\ \E l \in Loads : local.loads[l].stage = "idle"
  BY DEF ChangeDone, server
<1>2. local.kind = "list" /\ c.poll \in Polls
  BY <1>1 DEF ListInv, Placed
<1>3. local \in ListType /\ ListOf(local, getToken(store))
  BY <1>2, KindTells DEF ListInv
<1>4. L = [local EXCEPT !.told = [local.told EXCEPT ![c.poll] = Becomes(c.kind)]]
  BY <1>3 DEF ListType
<1>5. L \in ListType /\ L.loads = local.loads /\ L.shown = local.shown /\ L.changed = local.changed
  BY <1>2, <1>3, <1>4 DEF ListType, Becomes
<1> HIDE DEF L
<1>6. ListOf(L, getToken(store))
  BY <1>3, <1>5 DEF ListOf
<1>7. store \in Store
  BY DEF SessionInv, SessionTypeOK
<1>8. StartLoad(L, store) \in ListType /\ ListOf(StartLoad(L, store), getToken(store))
  BY <1>1, <1>5, <1>6, <1>7, StartLoadKeeps
<1> QED BY <1>1, <1>2, <1>8, InListKeeps

LEMMA CreatePollKeeps ==
  ASSUME ListInv, NEW c \in calls, CreatePoll(c)
  PROVE  ListInv'
<1>1. c \in Call /\ c.kind = "create" /\ UNCHANGED session
  BY DEF CreatePoll, ListInv, Placed
<1>2. \A x \in {"ok", "refused"}, p \in Polls \cup {None} :
        /\ [c EXCEPT !.stage = x, !.poll = p] \in Call /\ [c EXCEPT !.stage = x] \in Call
        /\ [c EXCEPT !.stage = x, !.poll = p].kind = "create"
        /\ [c EXCEPT !.stage = x].kind = "create" /\ [c EXCEPT !.stage = x].at = c.at
  BY <1>1 DEF Call
<1>3. calls \subseteq Call
  BY DEF ListInv, Placed
<1>4. ASSUME NEW p \in Polls, c.account # None, status[p] = "unborn",
             status' = [status EXCEPT ![p] = "active"],
             owner' = [owner EXCEPT ![p] = c.account]
      PROVE  Grows
  BY <1>1, <1>4 DEF Grows, ListInv, Status, Token, Call
<1>5. CASE \E p \in Polls :
             /\ c.account # None /\ status[p] = "unborn"
             /\ status' = [status EXCEPT ![p] = "active"]
             /\ owner' = [owner EXCEPT ![p] = c.account]
             /\ c.at = "left" /\ calls' = calls \ {c} /\ UNCHANGED local
  <2>1. Grows
    BY <1>4, <1>5
  <2>2. calls' \subseteq calls /\ UNCHANGED local
    BY <1>5
  <2>3. \A d \in calls' : Placed(d)
    BY <2>2 DEF ListInv
  <2> QED BY <1>1, <2>1, <2>2, <2>3, PageStays
<1>6. CASE \E p \in Polls :
             /\ c.account # None /\ status[p] = "unborn"
             /\ status' = [status EXCEPT ![p] = "active"]
             /\ owner' = [owner EXCEPT ![p] = c.account]
             /\ c.at = "page"
             /\ calls' = (calls \ {c}) \cup {[c EXCEPT !.stage = "ok", !.poll = p]}
             /\ local' = [local EXCEPT !.unseen = @ \cup {p}]
  <2>1. PICK p \in Polls :
          /\ c.account # None /\ status[p] = "unborn"
          /\ status' = [status EXCEPT ![p] = "active"]
          /\ owner' = [owner EXCEPT ![p] = c.account]
          /\ c.at = "page"
          /\ calls' = (calls \ {c}) \cup {[c EXCEPT !.stage = "ok", !.poll = p]}
          /\ local' = [local EXCEPT !.unseen = @ \cup {p}]
    BY <1>6
  <2>2. Grows
    BY <1>4, <2>1
  <2>3. local.kind = "draft" /\ local \in DraftShape
    BY <1>1, <2>1, KindTells DEF ListInv, Placed
  <2>4. local' \in DraftShape
    BY <2>1, <2>3 DEF DraftShape
  <2>5. \A d \in calls' : d \in calls \/ d = [c EXCEPT !.stage = "ok", !.poll = p]
    BY <2>1
  <2>6. \A d \in calls' : d \in Call /\ (d \in calls \/ d.kind = "create")
    BY <1>2, <1>3, <2>5
  <2> QED BY <1>1, <2>2, <2>3, <2>4, <2>6, InDraftKeeps
<1>7. CASE /\ calls' = (calls \ {c}) \cup
                       (IF c.at = "left" THEN {} ELSE {[c EXCEPT !.stage = "refused"]})
           /\ UNCHANGED <<server, local>>
  <2>1. \A d \in calls' : d \in calls \/ (c.at # "left" /\ d = [c EXCEPT !.stage = "refused"])
    BY <1>7
  <2>2. \A d \in calls' : Placed(d)
    BY <1>1, <1>2, <2>1 DEF ListInv, Placed
  <2> QED BY <1>1, <1>7, <2>2, SameServerGrows, PageStays
<1> QED BY <1>5, <1>6, <1>7 DEF CreatePoll

LEMMA LaunchDoneKeeps ==
  ASSUME ListInv, NEW c \in calls, LaunchDone(c)
  PROVE  ListInv'
<1>1. /\ c.kind = "create" /\ c.at = "page" /\ UNCHANGED <<session, server>>
      /\ calls' \subseteq calls /\ c \in Call
      /\ local' = [local EXCEPT !.created = c.poll, !.launching = FALSE, !.unseen = @ \ {c.poll}]
  BY DEF LaunchDone, ListInv, Placed
<1>2. local.kind = "draft" /\ local \in DraftShape
  BY <1>1, KindTells DEF ListInv, Placed
<1>3. local' \in DraftShape
  BY <1>1, <1>2 DEF DraftShape, Call
<1>4. \A d \in calls' : d \in Call /\ d \in calls
  BY <1>1 DEF ListInv, Placed
<1> QED BY <1>1, <1>2, <1>3, <1>4, SameServerGrows, InDraftKeeps

LEMMA CallFailsKeeps ==
  ASSUME ListInv, NEW c \in calls, CallFails(c)
  PROVE  ListInv'
<1>1. /\ c.at = "page" /\ UNCHANGED <<session, server>> /\ Placed(c)
      /\ calls' = (calls \ {c}) \cup (IF c.stage = "sent" THEN {[c EXCEPT !.at = "left"]} ELSE {})
  BY DEF CallFails, ListInv
<1>2. /\ [c EXCEPT !.at = "left"] \in Call
      /\ [c EXCEPT !.at = "left"].at = "left" /\ [c EXCEPT !.at = "left"].kind = c.kind
      /\ [c EXCEPT !.at = "left"].poll = c.poll
  BY <1>1 DEF Call, Placed
<1>3. \A d \in calls' : d \in calls \/ d = [c EXCEPT !.at = "left"]
  BY <1>1
<1>4. \A d \in calls' : Placed(d)
  BY <1>1, <1>2, <1>3 DEF ListInv, Placed
<1>5. CASE c.kind # "create"
  BY <1>1, <1>4, <1>5, SameServerGrows, PageStays DEF CallFails
<1>6. CASE c.kind = "create"
  <2>1. local.kind = "draft" /\ local \in DraftShape
    BY <1>1, <1>6, KindTells DEF ListInv, Placed
  <2>2. local' = [local EXCEPT !.launching = FALSE, !.lost = @ \/ c.stage # "refused"]
    BY <1>6 DEF CallFails
  <2>3. local' \in DraftShape
    BY <2>1, <2>2 DEF DraftShape
  <2>4. \A d \in calls' : d \in Call /\ (d \in calls \/ d.kind = "create")
    BY <1>2, <1>3, <1>4, <1>6 DEF Placed
  <2> QED BY <1>1, <2>1, <2>3, <2>4, SameServerGrows, InDraftKeeps
<1> QED BY <1>5, <1>6

(* What the form's handlers do to its fields: an option is added below the  *)
(* limit only and removed above two only, and a change of text keeps their  *)
(* number.                                                                  *)
LEMMA OptionAdded ==
  ASSUME NEW o \in [Texts -> Nat], NEW t \in Texts
  PROVE  With(o, t) \in [Texts -> Nat] /\ Size(With(o, t)) = Size(o) + 1
<1>1. With(o, t) \in [Texts -> Nat]
  BY DEF With
<1>2. Size(With(o, t)) = Size(o) + 1
  BY DraftAssumption, SumIncrement DEF With, Size
<1> QED BY <1>1, <1>2

LEMMA OptionRemoved ==
  ASSUME NEW o \in [Texts -> Nat], NEW t \in Texts, o[t] > 0
  PROVE  Without(o, t) \in [Texts -> Nat] /\ Size(Without(o, t)) = Size(o) - 1
BY DraftAssumption, SumDecrement DEF Without, Size

LEMMA EditTyped == ASSUME NEW d \in Drafts PROVE Edited(d) \subseteq Drafts
<1> DEFINE In == {t \in Texts : d.options[t] > 0}
           o == d.options
<1>1. /\ d \in [question : Questions, options : Bags] /\ o \in [Texts -> Nat]
      /\ Size(o) \in 2..MaxOptions /\ Size(o) \in Nat /\ MaxOptions \in Nat
      /\ Blank \in Texts
  BY DraftAssumption, BagTyped DEF Drafts, Bags
<1>2. ASSUME NEW b \in [Texts -> Nat], Size(b) \in 2..MaxOptions
      PROVE  [d EXCEPT !.options = b] \in Drafts
  <2>1. b \in Bags
    BY <1>1, <1>2, BagTyped
  <2> QED BY <1>1, <1>2, <2>1 DEF Drafts
<1>3. ASSUME NEW t \in Templates PROVE applyTemplate(d, t) \in Drafts
  <2>1. t.question \in Questions /\ t.options \in Bags /\ Size(t.options) \in 2..MaxOptions
    BY DraftAssumption DEF Questions
  <2> QED BY <1>1, <2>1 DEF applyTemplate, Drafts
<1>4. ASSUME NEW q \in Questions PROVE setQuestion(d, q) \in Drafts
  BY <1>1 DEF setQuestion, Drafts
<1>5. handleAddOption(d) \in Drafts
  <2>1. CASE Size(o) >= MaxOptions
    BY <2>1 DEF handleAddOption
  <2>2. CASE ~(Size(o) >= MaxOptions)
    <3>1. With(o, Blank) \in [Texts -> Nat] /\ Size(With(o, Blank)) \in 2..MaxOptions
      BY <1>1, <2>2, OptionAdded
    <3>2. handleAddOption(d) = [d EXCEPT !.options = With(o, Blank)]
      BY <2>2 DEF handleAddOption
    <3> QED BY <1>2, <3>1, <3>2
  <2> QED BY <2>1, <2>2
<1>6. ASSUME NEW t \in In PROVE handleRemoveOption(d, t) \in Drafts
  <2>1. CASE Size(o) <= 2
    BY <2>1 DEF handleRemoveOption
  <2>2. CASE ~(Size(o) <= 2)
    <3>1. Without(o, t) \in [Texts -> Nat] /\ Size(Without(o, t)) \in 2..MaxOptions
      BY <1>1, <2>2, OptionRemoved
    <3>2. handleRemoveOption(d, t) = [d EXCEPT !.options = Without(o, t)]
      BY <2>2 DEF handleRemoveOption
    <3> QED BY <1>2, <3>1, <3>2
  <2> QED BY <2>1, <2>2
<1>7. ASSUME NEW t \in In, NEW u \in Texts PROVE handleOptionChange(d, t, u) \in Drafts
  <2> DEFINE b == Without(o, t)
  <2>1. b \in [Texts -> Nat] /\ Size(b) = Size(o) - 1
    BY <1>1, OptionRemoved
  <2> HIDE DEF b
  <2>2. With(b, u) \in [Texts -> Nat] /\ Size(With(b, u)) = Size(b) + 1
    BY <2>1, OptionAdded
  <2>3. Size(With(b, u)) \in 2..MaxOptions
    BY <1>1, <2>1, <2>2
  <2>4. handleOptionChange(d, t, u) = [d EXCEPT !.options = With(b, u)]
    BY DEF handleOptionChange, b
  <2> QED BY <1>2, <2>2, <2>3, <2>4
<1> HIDE DEF In
<1>9. Edited(d) =
        {applyTemplate(d, t) : t \in Templates} \cup {setQuestion(d, q) : q \in Questions}
        \cup {handleAddOption(d)} \cup {handleRemoveOption(d, t) : t \in In}
        \cup UNION {{handleOptionChange(d, t, u) : u \in Texts} : t \in In}
  BY Zenon DEF Edited, In
<1>10. {applyTemplate(d, t) : t \in Templates} \subseteq Drafts
  BY <1>3, Zenon
<1>11. {setQuestion(d, q) : q \in Questions} \subseteq Drafts
  BY <1>4, Zenon
<1>12. {handleRemoveOption(d, t) : t \in In} \subseteq Drafts
  BY <1>6, Zenon
<1>13. UNION {{handleOptionChange(d, t, u) : u \in Texts} : t \in In} \subseteq Drafts
  <2>1. ASSUME NEW t \in In PROVE {handleOptionChange(d, t, u) : u \in Texts} \subseteq Drafts
    BY <1>7, Zenon
  <2> DEFINE Changes(t) == {handleOptionChange(d, t, u) : u \in Texts}
  <2>2. \A t \in In : Changes(t) \subseteq Drafts
    BY <2>1
  <2> HIDE DEF Changes
  <2>3. UNION {Changes(t) : t \in In} \subseteq Drafts
    BY <2>2, Zenon
  <2> QED BY <2>3 DEF Changes
<1> QED BY <1>5, <1>9, <1>10, <1>11, <1>12, <1>13, Zenon

LEMMA FormKeeps ==
  ASSUME ListInv, SessionInv, Edit \/ Launch \/ CreateAnother
  PROVE  ListInv'
<1>1. local.kind = "draft" /\ UNCHANGED <<session, server>>
  BY DEF Edit, Launch, CreateAnother, Writing
<1>2. local \in DraftShape /\ Grows
  BY <1>1, KindTells, SameServerGrows DEF ListInv
<1>3. \A c \in calls : c \in Call
  BY DEF ListInv, Placed
<1>4. CASE Edit
  <2>1. PICK e \in Drafts :
          local' = [local EXCEPT !.draft = e]
    <3>1. local.draft \in Drafts
      BY <1>2 DEF DraftShape
    <3> QED BY <1>4, <3>1, EditTyped DEF Edit
  <2>2. local' \in DraftShape
    BY <1>2, <2>1 DEF DraftShape
  <2>3. calls' = calls
    BY <1>4 DEF Edit
  <2> QED BY <1>1, <1>2, <1>3, <2>2, <2>3, InDraftKeeps
<1>5. CASE Launch
  <2> DEFINE r == [Request("create", None) EXCEPT !.accepted = Accepts(local.draft),
                                                  !.plain = Plain(local.draft)]
  <2>1. calls' = calls \cup {r} /\ local' = [local EXCEPT !.launching = TRUE]
    BY <1>5 DEF Launch
  <2>2. Accepts(local.draft) \in BOOLEAN /\ Plain(local.draft) \in BOOLEAN
    BY DEF Accepts, Plain
  <2>3. Request("create", None) \in Call /\ Request("create", None).kind = "create"
    BY RequestTyped
  <2>4. r \in Call /\ r.kind = "create"
    BY <2>2, <2>3 DEF Call
  <2> HIDE DEF r
  <2>5. local' \in DraftShape
    BY <1>2, <2>1 DEF DraftShape
  <2>6. \A c \in calls' : c \in Call /\ (c \in calls \/ c.kind = "create")
    BY <1>3, <2>1, <2>4
  <2> QED BY <1>1, <1>2, <2>5, <2>6, InDraftKeeps
<1>6. CASE CreateAnother
  <2>1. NewDraft \in Drafts
    BY NewDraftTyped
  <2>2. local' \in DraftShape /\ calls' = calls
    BY <1>2, <1>6, <2>1 DEF CreateAnother, DraftShape
  <2> QED BY <1>1, <1>2, <1>3, <2>2, InDraftKeeps
<1> QED BY <1>4, <1>5, <1>6

LEMMA OtherDeviceKeeps == ListInv /\ OtherDevice => ListInv'
<1> SUFFICES ASSUME ListInv, OtherDevice PROVE ListInv'
  OBVIOUS
<1>1. UNCHANGED <<session, local, owner, calls>>
  BY DEF OtherDevice
<1>2. PICK p \in Polls, s \in {"closed", "deleted"} : status' = [status EXCEPT ![p] = s]
  BY DEF OtherDevice
<1>3. Grows
  BY <1>1, <1>2 DEF ListInv, Grows, Status
<1>4. \A c \in calls' : Placed(c)
  BY <1>1 DEF ListInv
<1> QED BY <1>1, <1>3, <1>4, PageStays

LEMMA ListNext == ListInv /\ SessionInv /\ SessionInv' /\ [Next]_vars => ListInv'
<1> SUFFICES ASSUME ListInv, SessionInv, SessionInv', [Next]_vars PROVE ListInv'
  OBVIOUS
<1>1. CASE SessionStep
  BY <1>1, SessionKeepsList
<1>2. ASSUME NEW l \in Loads, GetUserPolls(l) \/ ListDone(l) \/ ListFails(l) PROVE ListInv'
  BY <1>2, ListKeepsList
<1>3. ASSUME NEW p \in Polls, NEW kind \in {"close", "delete"}, Change(kind, p) PROVE ListInv'
  BY <1>3, ChangeKeeps
<1>4. ASSUME NEW c \in calls, ChangePoll(c) \/ ChangeDone(c) \/ CreatePoll(c)
                              \/ LaunchDone(c) \/ CallFails(c)
      PROVE  ListInv'
  BY <1>4, ChangePollKeeps, ChangeDoneKeeps, CreatePollKeeps, LaunchDoneKeeps, CallFailsKeeps
<1>5. CASE Edit \/ Launch \/ CreateAnother \/ OtherDevice
  BY <1>5, FormKeeps, OtherDeviceKeeps
<1>6. CASE UNCHANGED vars
  <2>1. UNCHANGED <<session, local, server, calls>>
    BY <1>6 DEF vars
  <2>2. \A c \in calls' : Placed(c)
    BY <2>1 DEF ListInv
  <2> QED BY <2>1, <2>2, SameServerGrows, PageStays
<1> QED BY <1>1, <1>2, <1>3, <1>4, <1>5, <1>6 DEF Next

LEMMA ListShows == ListInv /\ SessionAgrees => ListBelongs
BY DEF ListInv, ListOf, SessionAgrees, ListBelongs

(* For any number of accounts, polls and loads in flight: the polls listed  *)
(* belong to the account shown beside them.                                 *)
THEOREM ListOwnership == Spec => []ListBelongs
<1>1. Spec => []SessionInv
  BY KeepsToSession, SessionInvariant, PTL
<1>2. Spec => []SessionAgrees
  BY WorkspaceAgreement
<1> QED BY <1>1, <1>2, ListInit, ListNext, ListShows, PTL DEF Spec
-----------------------------------------------------------------------------
(* Type correctness. A page holds the state of its own kind exactly while   *)
(* it is mounted, and the bounds are kept.                                  *)

KindOf(p, v) ==
  IF p \in Lists /\ v = None THEN "list" ELSE IF p = "create" /\ v = None THEN "draft" ELSE "none"

KindInv ==
  /\ local.kind = KindOf(page, verify)
  /\ sent \in 0..MaxCalls /\ events \in 0..MaxEvents

LEMMA FreshKind ==
  ASSUME NEW p \in Pages, NEW v, NEW s \in Store
  PROVE  Fresh(p, v, s).kind = KindOf(p, v)
<1>1. StartLoad(NoList, s).kind = "list"
  BY FreshList DEF ListType
<1> QED BY <1>1 DEF Fresh, KindOf, NoDraft, Elsewhere, Lists

(* A step of the session mounts another page, or leaves the page there is.  *)
LEMMA FollowCases ==
  ASSUME ListInv, SessionInv, SessionStep
  PROVE  \/ Remount
         \/ /\ KindOf(page', verify') = KindOf(page, verify) /\ UNCHANGED calls
            /\ \/ UNCHANGED local
               \/ local.kind = "list" /\ local' = [local EXCEPT !.changed = TRUE]
<1>1. Remount \/ Follow
  BY DEF SessionStep, Reload, Navigate, SignIn, Verified, SignOut, Expelled, OtherTab
<1>2. CASE page' = page /\ Ready(page', verify') = Mounted /\ Follow
  BY <1>2 DEF Follow, KindOf, Ready, Mounted, Lists, Public
<1> QED BY <1>1, <1>2 DEF Follow

(* The other steps keep the page and its kind.                              *)
LEMMA KindStays ==
  ASSUME ListInv, [Next]_vars, ~SessionStep
  PROVE  UNCHANGED session /\ local'.kind = local.kind
<1>1. local.kind = "list" => local \in ListType
  BY KindTells DEF ListInv
<1>2. local.kind = "draft" => local \in DraftShape
  BY KindTells DEF ListInv
<1>3. ASSUME NEW l \in Loads, GetUserPolls(l) \/ ListDone(l) \/ ListFails(l)
      PROVE  UNCHANGED session /\ local'.kind = local.kind
  BY <1>1, <1>3 DEF GetUserPolls, ListDone, ListFails, ListType
<1>4. ASSUME NEW c \in calls, ChangeDone(c)
      PROVE  UNCHANGED session /\ local'.kind = local.kind
  <2>1. local.kind = "list"
    BY <1>4 DEF ChangeDone, ListInv, Placed
  <2> QED BY <1>1, <1>4, <2>1 DEF ChangeDone, StartLoad, ListType
<1>5. ASSUME NEW c \in calls, CreatePoll(c) \/ LaunchDone(c) \/ CallFails(c)
      PROVE  UNCHANGED session /\ local'.kind = local.kind
  <2>1. Placed(c)
    BY DEF ListInv
  <2>2. UNCHANGED session
    BY <1>5 DEF CreatePoll, LaunchDone, CallFails
  <2>3. c.kind = "create" /\ c.at = "page" => local \in DraftShape
    BY <1>2, <2>1 DEF Placed
  <2> QED BY <1>5, <2>2, <2>3 DEF CreatePoll, LaunchDone, CallFails, DraftShape
<1>6. CASE Edit \/ Launch \/ CreateAnother
  BY <1>2, <1>6 DEF Edit, Launch, CreateAnother, Writing, DraftShape
<1>7. CASE OtherDevice \/ UNCHANGED vars
  BY <1>7 DEF OtherDevice, vars
<1>8. ASSUME NEW c \in calls, ChangePoll(c)
      PROVE  UNCHANGED session /\ local'.kind = local.kind
  BY <1>8 DEF ChangePoll
<1>9. ASSUME NEW p \in Polls, NEW kind \in {"close", "delete"}, Change(kind, p)
      PROVE  UNCHANGED session /\ local'.kind = local.kind
  BY <1>9 DEF Change
<1> QED BY <1>3, <1>4, <1>5, <1>6, <1>7, <1>8, <1>9 DEF Next

LEMMA BoundsStay ==
  ASSUME sent \in 0..MaxCalls, events \in 0..MaxEvents, [Next]_vars
  PROVE  sent' \in 0..MaxCalls /\ events' \in 0..MaxEvents
<1>0. MaxCalls \in Nat /\ MaxEvents \in Nat
  BY WorkspaceAssumption
<1>1. CASE SessionStep
  <2>1. sent' = sent
    BY <1>1 DEF SessionStep
  <2>2. events' = events \/ (events < MaxEvents /\ events' = events + 1)
    BY <1>1 DEF SessionStep, Reload, Navigate, SignIn, Verified, SignOut, Expelled, OtherTab,
       Happens
  <2> QED BY <1>0, <2>1, <2>2
<1>2. CASE ~SessionStep
  <2>1. sent' = sent \/ (sent < MaxCalls /\ sent' = sent + 1)
    BY <1>2 DEF Next, vars, GetUserPolls, ListDone, ListFails, Change, ChangePoll, ChangeDone,
       CreatePoll, LaunchDone, CallFails, Edit, Launch, CreateAnother, OtherDevice
  <2>2. events' = events \/ (events < MaxEvents /\ events' = events + 1)
    BY <1>2 DEF Next, vars, GetUserPolls, ListDone, ListFails, Change, ChangePoll, ChangeDone,
       CreatePoll, LaunchDone, CallFails, Edit, Launch, CreateAnother, OtherDevice, Happens
  <2> QED BY <1>0, <2>1, <2>2
<1> QED BY <1>1, <1>2

LEMMA KindStep ==
  ListInv /\ SessionInv /\ SessionInv' /\ KindInv /\ [Next]_vars => KindInv'
<1> SUFFICES ASSUME ListInv, SessionInv, SessionInv', KindInv, [Next]_vars
             PROVE  local'.kind = KindOf(page', verify')
  BY BoundsStay DEF KindInv
<1>1. CASE SessionStep
  <2>1. page' \in Pages /\ store' \in Store
    BY DEF SessionInv, SessionTypeOK
  <2>2. CASE Remount
    BY <2>1, <2>2, FreshKind DEF Remount
  <2>3. local.kind = "list" /\ local' = [local EXCEPT !.changed = TRUE] => local'.kind = local.kind
    BY KindTells DEF ListInv, ListType
  <2> QED BY <1>1, <2>2, <2>3, FollowCases DEF KindInv
<1>2. CASE ~SessionStep
  BY <1>2, KindStays DEF KindInv, session
<1> QED BY <1>1, <1>2

LEMMA KindInit == Init => KindInv
<1> SUFFICES ASSUME Init PROVE KindInv
  OBVIOUS
<1>1. page \in Pages /\ store \in Store
  BY InitHolds, InitStarts DEF SessionInv, SessionTypeOK
<1> QED BY <1>1, FreshKind, WorkspaceAssumption DEF Init, KindInv

LEMMA KindTyped ==
  ASSUME SessionInv, ListInv, KindInv
  PROVE  TypeOK
<1>1. local \in {Elsewhere} \cup ListType \cup DraftType
  BY DEF ListInv, DraftShape, DraftType, Drafts
<1>2. local.kind = "draft" => Size(local.draft.options) <= MaxOptions
  <2> SUFFICES ASSUME local.kind = "draft" PROVE Size(local.draft.options) <= MaxOptions
    OBVIOUS
  <2>1. local.draft \in Drafts
    BY KindTells DEF ListInv, DraftShape
  <2> QED BY <2>1, DraftAssumption DEF Drafts
<1>3. /\ local.kind = "list" <=> page \in Lists /\ Mounted
      /\ local.kind = "draft" <=> page = "create" /\ Mounted
  BY DEF KindInv, KindOf, Mounted, Ready, Lists, Public
<1>4. calls \subseteq Call
  BY DEF ListInv, Placed
<1> QED BY <1>1, <1>2, <1>3, <1>4 DEF TypeOK, SessionInv, ListInv, KindInv, Token

(* Type correctness of the workspace, for any texts an option may have: in  *)
(* particular no sequence of edits gives a form more options than allowed.  *)
THEOREM WorkspaceTyped == Spec => []TypeOK
<1>1. Spec => []SessionInv
  BY KeepsToSession, SessionInvariant, PTL
<1>2. Init => ListInv /\ KindInv
  BY ListInit, KindInit
<1>3. (ListInv /\ KindInv) /\ SessionInv /\ SessionInv' /\ [Next]_vars => (ListInv /\ KindInv)'
  BY ListNext, KindStep
<1> QED BY <1>1, <1>2, <1>3, KindTyped, PTL DEF Spec

-----------------------------------------------------------------------------
(* Launches. The page has one launch in flight at most, and while no launch *)
(* is lost, a poll it has made and not shown is the one whose answer is on  *)
(* its way.                                                                 *)

Waiting == {c \in calls : c.kind = "create" /\ c.at = "page"}

LaunchInv ==
  /\ PlainAccepted
  /\ \A c, d \in Waiting : c = d
  /\ local.kind = "draft" =>
       /\ Waiting # {} => local.launching
       /\ ~local.lost => \A p \in local.unseen : \E c \in Waiting : c.stage = "ok" /\ c.poll = p

(* A request, as its stage and its place change.                            *)
LEMMA CallLeft ==
  ASSUME NEW c \in Call, NEW d, d = [c EXCEPT !.at = "left"]
  PROVE  /\ d.at = "left" /\ d.kind = c.kind /\ d.poll = c.poll /\ d.stage = c.stage
         /\ d.accepted = c.accepted /\ d.plain = c.plain
BY DEF Call

LEMMA CallAnswered ==
  ASSUME NEW c \in Call, NEW x, NEW d, d = [c EXCEPT !.stage = x]
  PROVE  /\ d.stage = x /\ d.kind = c.kind /\ d.poll = c.poll /\ d.at = c.at
         /\ d.accepted = c.accepted /\ d.plain = c.plain
BY DEF Call

LEMMA CallsTyped == ListInv => calls \subseteq Call
BY DEF ListInv, Placed

(* Elsewhere than on the form no launch is waited for.                      *)
LEMMA NoneWaits == ListInv /\ local.kind # "draft" => Waiting = {}
BY DEF ListInv, Placed, Waiting

LEMMA RemountLaunch ==
  ASSUME ListInv, LaunchInv, Remount
  PROVE  LaunchInv'
<1>1. ASSUME NEW d \in calls'
      PROVE  /\ d.at = "left"
             /\ d.kind = "create" => (d.plain => d.accepted)
  <2>1. PICK c \in calls : d = [c EXCEPT !.at = "left"]
    BY DEF Remount
  <2> QED BY <2>1, CallsTyped, CallLeft DEF LaunchInv, PlainAccepted
<1>2. Waiting' = {}
  BY <1>1 DEF Waiting
<1>3. local'.kind = "draft" => local'.unseen = {}
  <2>1. local' = Fresh(page', verify', store')
    BY DEF Remount
  <2>2. \A s : StartLoad(NoList, s).kind = "list"
    BY DEF StartLoad, NoList
  <2> QED BY <2>1, <2>2 DEF Fresh, NoDraft, Elsewhere
<1> QED BY <1>1, <1>2, <1>3 DEF LaunchInv, PlainAccepted

(* A step that changes no launch, and of the form its fields at most.       *)
LEMMA LaunchFrame ==
  ASSUME LaunchInv, local'.kind = local.kind,
         local.kind = "draft" => /\ local'.launching = local.launching
                                 /\ local'.lost = local.lost /\ local'.unseen = local.unseen,
         \A d : d.kind = "create" => (d \in calls' <=> d \in calls)
  PROVE  LaunchInv'
<1>1. Waiting' = Waiting
  BY DEF Waiting
<1>2. PlainAccepted'
  BY DEF LaunchInv, PlainAccepted
<1> QED BY <1>1, <1>2 DEF LaunchInv

(* The page's check of a plain form says what the backend's says.           *)
LEMMA PlainLaunch ==
  ASSUME NEW d \in Drafts, validate(d), Plain(d)
  PROVE  Accepts(d)
<1> DEFINE o == d.options
<1>1. o \in Bags /\ d.question \in Questions /\ Size(o) \in 2..MaxOptions
  BY DEF Drafts
<1>2. o[Blank] = 0 /\ Distinct(o, Lower) /\ d.question = "fit"
  BY <1>1 DEF validate, Filled, Plain, Questions
<1>3. \A t \in Texts : o[t] \in Nat /\ (o[t] > 0 => t \in PlainTexts)
  BY <1>1, DraftAssumption DEF Bags, Plain
<1> HIDE DEF o
<1>4. \A t \in Long : o[t] = 0
  BY <1>3, DraftAssumption DEF PlainTexts
<1>5. Filled(o, GoBlank)
  BY <1>2, <1>3, DraftAssumption DEF PlainTexts, Filled
<1>6. Distinct(o, GoLower)
  <2> SUFFICES ASSUME NEW t \in Texts, NEW u \in Texts, GoLower[t] = GoLower[u],
                      o[t] > 0, o[u] > 0
               PROVE  t = u /\ o[t] = 1
    BY DEF Distinct
  <2>1. Lower[t] = Lower[u]
    BY <1>3 DEF PlainTexts
  <2> QED BY <1>2, <2>1 DEF Distinct
<1> QED BY <1>1, <1>2, <1>4, <1>5, <1>6 DEF Accepts, Binds, o

LEMMA LaunchKeeps ==
  ASSUME ListInv, LaunchInv, Launch
  PROVE  LaunchInv'
<1> DEFINE r == [Request("create", None) EXCEPT !.accepted = Accepts(local.draft),
                                                !.plain = Plain(local.draft)]
<1>1. /\ local.kind = "draft" /\ local \in DraftShape /\ ~local.launching
      /\ validate(local.draft) /\ local' = [local EXCEPT !.launching = TRUE]
      /\ calls' = calls \cup {r}
  BY KindTells DEF Launch, Writing, ListInv
<1>2. /\ r.kind = "create" /\ r.at = "page"
      /\ r.accepted = Accepts(local.draft) /\ r.plain = Plain(local.draft)
  BY DEF Request
<1>3. Plain(local.draft) => Accepts(local.draft)
  BY <1>1, PlainLaunch DEF DraftShape
<1> HIDE DEF r
<1>4. Waiting = {}
  BY <1>1 DEF LaunchInv
<1>5. Waiting' = {r}
  BY <1>1, <1>2, <1>4 DEF Waiting
<1>6. /\ local'.kind = "draft" /\ local'.launching
      /\ local'.lost = local.lost /\ local'.unseen = local.unseen
  BY <1>1 DEF DraftShape
<1>7. PlainAccepted'
  BY <1>1, <1>2, <1>3 DEF LaunchInv, PlainAccepted
<1> QED BY <1>1, <1>4, <1>5, <1>6, <1>7 DEF LaunchInv

LEMMA CreatePollLaunch ==
  ASSUME ListInv, LaunchInv, NEW c \in calls, CreatePoll(c)
  PROVE  LaunchInv'
<1>1. c \in Call /\ c.kind = "create" /\ c.stage = "sent" /\ Placed(c)
  BY DEF CreatePoll, ListInv, Placed
<1>2. PlainAccepted'
  <2>1. ASSUME NEW d \in calls'
        PROVE  \/ d \in calls \/ d = [c EXCEPT !.stage = "refused"]
               \/ \E p \in Polls : d = [c EXCEPT !.stage = "ok", !.poll = p]
    BY DEF CreatePoll
  <2>2. ASSUME NEW p \in Polls, NEW d, d = [c EXCEPT !.stage = "ok", !.poll = p]
        PROVE  d.accepted = c.accepted /\ d.plain = c.plain
    BY <1>1, <2>2 DEF Call
  <2>3. c.plain => c.accepted
    BY <1>1 DEF LaunchInv, PlainAccepted
  <2>4. ASSUME NEW d \in calls', d.kind = "create" PROVE (d.plain => d.accepted)
    <3>1. CASE d \in calls
      BY <2>4, <3>1 DEF LaunchInv, PlainAccepted
    <3>2. CASE d = [c EXCEPT !.stage = "refused"]
      BY <1>1, <2>3, <3>2, CallAnswered
    <3>3. CASE \E p \in Polls : d = [c EXCEPT !.stage = "ok", !.poll = p]
      BY <2>2, <2>3, <3>3
    <3> QED BY <2>1, <3>1, <3>2, <3>3
  <2> QED BY <2>4 DEF PlainAccepted
<1>3. CASE c.at = "left"
  <2>1. calls' = calls \ {c} /\ UNCHANGED local
    BY <1>3 DEF CreatePoll
  <2>2. Waiting' = Waiting
    BY <1>3, <2>1 DEF Waiting
  <2> QED BY <1>2, <2>1, <2>2 DEF LaunchInv
<1>4. CASE c.at = "page"
  <2>1. c \in Waiting /\ Waiting = {c} /\ local.kind = "draft" /\ local \in DraftShape
    BY <1>1, <1>4, KindTells DEF Waiting, LaunchInv, Placed, ListInv
  <2>2. ~local.lost => local.unseen = {}
    BY <1>1, <2>1 DEF LaunchInv
  <2>3. CASE \E p \in Polls :
               /\ calls' = (calls \ {c}) \cup {[c EXCEPT !.stage = "ok", !.poll = p]}
               /\ local' = [local EXCEPT !.unseen = @ \cup {p}]
    <3>0. PICK p \in Polls :
            /\ calls' = (calls \ {c}) \cup {[c EXCEPT !.stage = "ok", !.poll = p]}
            /\ local' = [local EXCEPT !.unseen = @ \cup {p}]
      BY <2>3
    <3>1. PICK d : d = [c EXCEPT !.stage = "ok", !.poll = p] /\ calls' = (calls \ {c}) \cup {d}
      BY <3>0
    <3>2. d.stage = "ok" /\ d.poll = p /\ d.kind = "create" /\ d.at = "page"
      BY <1>1, <1>4, <3>1 DEF Call
    <3>3. Waiting' = {d}
      BY <2>1, <3>1, <3>2 DEF Waiting
    <3>4. /\ local'.kind = "draft" /\ local'.launching = local.launching
          /\ local'.lost = local.lost /\ local'.unseen = local.unseen \cup {p}
      BY <2>1, <3>0 DEF DraftShape
    <3> QED BY <1>2, <2>1, <2>2, <3>2, <3>3, <3>4 DEF LaunchInv
  <2>4. CASE /\ calls' = (calls \ {c}) \cup
                         (IF c.at = "left" THEN {} ELSE {[c EXCEPT !.stage = "refused"]})
             /\ UNCHANGED local
    <3>1. PICK d : d = [c EXCEPT !.stage = "refused"] /\ calls' = (calls \ {c}) \cup {d}
      BY <1>4, <2>4
    <3>2. d.kind = "create" /\ d.at = "page"
      BY <1>1, <1>4, <3>1, CallAnswered
    <3>3. Waiting' = {d}
      BY <2>1, <3>1, <3>2 DEF Waiting
    <3> QED BY <1>2, <2>1, <2>2, <2>4, <3>3 DEF LaunchInv
  <2> QED BY <1>4, <2>3, <2>4 DEF CreatePoll
<1> QED BY <1>1, <1>3, <1>4 DEF Call

LEMMA LaunchDoneLaunch ==
  ASSUME ListInv, LaunchInv, NEW c \in calls, LaunchDone(c)
  PROVE  LaunchInv'
<1>1. /\ c.kind = "create" /\ c.at = "page" /\ c.stage = "ok" /\ Placed(c)
      /\ calls' = calls \ {c}
      /\ local' = [local EXCEPT !.created = c.poll, !.launching = FALSE, !.unseen = @ \ {c.poll}]
  BY DEF LaunchDone, ListInv
<1>2. local.kind = "draft" /\ local \in DraftShape /\ Waiting = {c}
  BY <1>1, KindTells DEF Waiting, LaunchInv, Placed, ListInv
<1>3. Waiting' = {}
  BY <1>1, <1>2 DEF Waiting
<1>4. /\ local'.lost = local.lost /\ local'.unseen = local.unseen \ {c.poll}
  BY <1>1, <1>2 DEF DraftShape
<1>5. ~local.lost => local.unseen \subseteq {c.poll}
  BY <1>2 DEF LaunchInv
<1>6. PlainAccepted'
  BY <1>1 DEF LaunchInv, PlainAccepted
<1> QED BY <1>3, <1>4, <1>5, <1>6 DEF LaunchInv

LEMMA CallFailsLaunch ==
  ASSUME ListInv, LaunchInv, NEW c \in calls, CallFails(c)
  PROVE  LaunchInv'
<1>1. /\ c.at = "page" /\ c \in Call /\ Placed(c)
      /\ calls' = (calls \ {c}) \cup (IF c.stage = "sent" THEN {[c EXCEPT !.at = "left"]} ELSE {})
  BY DEF CallFails, ListInv, Placed
<1>2. ASSUME NEW d \in calls', d \notin calls
      PROVE  /\ d.at = "left" /\ d.kind = c.kind
             /\ d.accepted = c.accepted /\ d.plain = c.plain
  BY <1>1, <1>2, CallLeft
<1>3. PlainAccepted'
  BY <1>1, <1>2 DEF LaunchInv, PlainAccepted
<1>4. CASE c.kind # "create"
  <2>1. Waiting' = Waiting /\ UNCHANGED local
    BY <1>1, <1>2, <1>4 DEF Waiting, CallFails
  <2> QED BY <1>3, <2>1 DEF LaunchInv
<1>5. CASE c.kind = "create"
  <2>1. local.kind = "draft" /\ local \in DraftShape /\ Waiting = {c}
    BY <1>1, <1>5, KindTells DEF Waiting, LaunchInv, Placed, ListInv
  <2>2. Waiting' = {}
    <3>1. c \notin calls'
      BY <1>1, CallLeft
    <3>2. \A d \in calls' : d \in calls \/ d.at = "left"
      BY <1>2
    <3> QED BY <2>1, <3>1, <3>2 DEF Waiting
  <2>3. local' = [local EXCEPT !.launching = FALSE, !.lost = @ \/ c.stage # "refused"]
    BY <1>5 DEF CallFails
  <2>4. local'.lost = (local.lost \/ c.stage # "refused") /\ local'.unseen = local.unseen
    BY <2>1, <2>3 DEF DraftShape
  <2>5. ~local'.lost => local'.unseen = {}
    BY <2>1, <2>4 DEF LaunchInv
  <2> QED BY <1>3, <2>2, <2>5 DEF LaunchInv
<1> QED BY <1>4, <1>5

(* The steps of a list, and those that change a poll, are of no launch.     *)
LEMMA OtherLaunch ==
  ASSUME ListInv, SessionInv, LaunchInv, [Next]_vars, ~SessionStep,
         ~Launch, \A c \in calls : ~CreatePoll(c) /\ ~LaunchDone(c) /\ ~CallFails(c)
  PROVE  LaunchInv'
<1>1. local'.kind = local.kind
  BY KindStays
<1>2. local.kind = "draft" => /\ local'.launching = local.launching
                              /\ local'.lost = local.lost /\ local'.unseen = local.unseen
  <2> SUFFICES ASSUME local.kind = "draft"
               PROVE  /\ local'.launching = local.launching
                      /\ local'.lost = local.lost /\ local'.unseen = local.unseen
    OBVIOUS
  <2>1. local \in DraftShape
    BY KindTells DEF ListInv
  <2>2. \A c \in calls : ~ChangeDone(c)
    BY DEF ChangeDone, ListInv, Placed
  <2> QED BY <2>1, <2>2 DEF Next, vars, GetUserPolls, ListDone, ListFails, Change, ChangePoll,
             Edit, CreateAnother, OtherDevice, DraftShape
<1>3. \A d : d.kind = "create" => (d \in calls' <=> d \in calls)
  <2>1. ASSUME NEW p \in Polls, NEW kind \in {"close", "delete"}, Change(kind, p)
        PROVE  \A d : d.kind = "create" => (d \in calls' <=> d \in calls)
    BY <2>1, RequestTyped DEF Change
  <2>2. ASSUME NEW c \in calls, ChangePoll(c)
        PROVE  \A d : d.kind = "create" => (d \in calls' <=> d \in calls)
    <3>1. c \in Call /\ c.kind # "create"
      BY <2>2, CallsTyped DEF ChangePoll
    <3>2. \A d : d \in calls' => d \in calls \/ d = [c EXCEPT !.stage = "ok"]
                                   \/ d = [c EXCEPT !.stage = "refused"]
      BY <2>2 DEF ChangePoll
    <3>3. \A d \in calls : d # c => d \in calls'
      BY <2>2 DEF ChangePoll
    <3> QED BY <3>1, <3>2, <3>3, CallAnswered
  <2>3. ASSUME NEW c \in calls, ChangeDone(c)
        PROVE  \A d : d.kind = "create" => (d \in calls' <=> d \in calls)
    BY <2>3 DEF ChangeDone
  <2>4. CASE UNCHANGED calls
    BY <2>4
  <2> QED BY <2>1, <2>2, <2>3, <2>4 DEF Next, vars, GetUserPolls, ListDone, ListFails, Edit,
             CreateAnother, OtherDevice
<1> QED BY <1>1, <1>2, <1>3, LaunchFrame

LEMMA LaunchStep == ListInv /\ SessionInv /\ LaunchInv /\ [Next]_vars => LaunchInv'
<1> SUFFICES ASSUME ListInv, SessionInv, LaunchInv, [Next]_vars PROVE LaunchInv'
  OBVIOUS
<1>1. CASE SessionStep
  <2>1. CASE /\ UNCHANGED calls
             /\ UNCHANGED local \/ (local.kind = "list" /\ local' = [local EXCEPT !.changed = TRUE])
    <3>1. local'.kind = local.kind /\ (local.kind = "draft" => UNCHANGED local)
      BY <2>1, KindTells DEF ListInv, ListType
    <3> QED BY <2>1, <3>1, LaunchFrame
  <2> QED BY <1>1, <2>1, FollowCases, RemountLaunch
<1> QED BY <1>1, LaunchKeeps, CreatePollLaunch, LaunchDoneLaunch, CallFailsLaunch, OtherLaunch

LEMMA LaunchInit == Init => LaunchInv
<1> SUFFICES ASSUME Init PROVE LaunchInv
  OBVIOUS
<1>1. local = Fresh(page, verify, store) /\ calls = {}
  BY DEF Init
<1>2. \A s : StartLoad(NoList, s).kind = "list"
  BY DEF StartLoad, NoList
<1>3. local.kind = "draft" => local.unseen = {}
  BY <1>1, <1>2 DEF Fresh, NoDraft, Elsewhere
<1> QED BY <1>1, <1>3 DEF LaunchInv, PlainAccepted, Waiting

(* What a creator may launch, the backend takes if its texts are plain: for *)
(* any texts, conversions, templates, limits and sequences of edits.        *)
THEOREM LaunchesAccepted == Spec => []PlainAccepted
<1>1. Spec => []SessionInv
  BY KeepsToSession, SessionInvariant, PTL
<1>2. Init => ListInv /\ LaunchInv
  BY ListInit, LaunchInit
<1>3. (ListInv /\ LaunchInv) /\ SessionInv /\ SessionInv' /\ [Next]_vars => (ListInv /\ LaunchInv)'
  BY ListNext, LaunchStep
<1>4. LaunchInv => PlainAccepted
  BY DEF LaunchInv
<1> QED BY <1>1, <1>2, <1>3, <1>4, PTL DEF Spec

(* One launch makes one poll, shown before the next launch: for any order   *)
(* of edits, answers and page changes, as long as no answer is lost.        *)
THEOREM LaunchesOnce == Spec => []OneLaunchOnePoll
<1>1. Spec => []SessionInv
  BY KeepsToSession, SessionInvariant, PTL
<1>2. Init => ListInv /\ LaunchInv
  BY ListInit, LaunchInit
<1>3. (ListInv /\ LaunchInv) /\ SessionInv /\ SessionInv' /\ [Next]_vars => (ListInv /\ LaunchInv)'
  BY ListNext, LaunchStep
<1>4. LaunchInv => OneLaunchOnePoll
  <2> SUFFICES ASSUME LaunchInv, local.kind = "draft", ~local.lost
               PROVE  Cardinality(local.unseen) <= 1
    BY DEF OneLaunchOnePoll
  <2>1. \A p, q \in local.unseen : p = q
    BY DEF LaunchInv
  <2>2. local.unseen = {} \/ \E p : local.unseen = {p}
    BY <2>1
  <2>3. CASE local.unseen = {}
    BY <2>3, FS_EmptySet
  <2>4. CASE \E p : local.unseen = {p}
    <3>1. PICK p : local.unseen = {p}
      BY <2>4
    <3>2. Cardinality({p}) = 1
      BY FS_Singleton
    <3> QED BY <3>1, <3>2
  <2> QED BY <2>2, <2>3, <2>4
<1> QED BY <1>1, <1>2, <1>3, <1>4, PTL DEF Spec
-----------------------------------------------------------------------------
(* What the page was told of. The server has done what it reports, loads    *)
(* that started later read it, and only loads in flight together may end in *)
(* another order.                                                           *)

Happened(s, t) == (t = "deleted" => s = "deleted") /\ (t = "closed" => s \in {"closed", "deleted"})
Undone(t, s)   == (t = "deleted" => s = "none") /\ (t = "closed" => s # "active")
InFlight(L)    == {l \in Loads : L.loads[l].stage # "idle"}

ToldOf(L, st) ==
  /\ \A p \in Polls : Happened(st[p], L.told[p])
  /\ ~L.crossed =>
       /\ \A k, l \in InFlight(L) : k = l
       /\ \A l \in Loads, p \in Polls :
            L.loads[l].stage = "read" => Undone(L.told[p], L.loads[l].polls[p])
       /\ ~L.failed /\ InFlight(L) = {} => \A p \in Polls : Undone(L.told[p], L.shown[p])

CallsTold ==
  \A c \in calls : c.kind # "create" /\ c.stage = "ok" => Happened(status[c.poll], Becomes(c.kind))

ToldInv == CallsTold /\ (local.kind = "list" => ToldOf(local, status))

(* What has happened to a poll stays: it is never opened again, and nothing *)
(* follows its deletion.                                                    *)
LEMMA StatusAdvances ==
  ASSUME ListInv, [Next]_vars, NEW p \in Polls, NEW t, Happened(status[p], t)
  PROVE  Happened(status'[p], t)
<1>0. status \in [Polls -> Status]
  BY DEF ListInv
<1>1. CASE UNCHANGED status
  BY <1>1
<1>2. CASE \E q \in Polls, s \in {"closed", "deleted"} :
             status[q] \in Shown /\ status' = [status EXCEPT ![q] = s]
  BY <1>0, <1>2 DEF Happened, Shown
<1>3. CASE \E q \in Polls : status[q] = "unborn" /\ status' = [status EXCEPT ![q] = "active"]
  BY <1>0, <1>3 DEF Happened
<1>4. ASSUME NEW c \in calls, ChangePoll(c)
      PROVE  \/ UNCHANGED status
             \/ \E q \in Polls, s \in {"closed", "deleted"} :
                  status[q] \in Shown /\ status' = [status EXCEPT ![q] = s]
  BY <1>4 DEF ChangePoll, Becomes, ListInv, Placed
<1>5. ASSUME NEW c \in calls, CreatePoll(c)
      PROVE  \/ UNCHANGED status
             \/ \E q \in Polls : status[q] = "unborn" /\ status' = [status EXCEPT ![q] = "active"]
  BY <1>5 DEF CreatePoll, server
<1>6. CASE SessionStep
  BY <1>1, <1>6 DEF SessionStep, server
<1>7. CASE OtherDevice
  BY <1>2, <1>7 DEF OtherDevice
<1> QED BY <1>1, <1>2, <1>3, <1>4, <1>5, <1>6, <1>7 DEF Next, vars, server, GetUserPolls, ListDone,
           ListFails, Change, ChangeDone, LaunchDone, CallFails, Edit, Launch, CreateAnother

(* A load that starts alone will read what has happened by then.            *)
LEMMA StartLoadTold ==
  ASSUME NEW L \in ListType, NEW s, NEW st, \A p \in Polls : Happened(st[p], L.told[p]),
         \E l \in Loads : L.loads[l].stage = "idle"
  PROVE  ToldOf(StartLoad(L, s), st)
<1> DEFINE l == CHOOSE l \in Loads : L.loads[l].stage = "idle"
           r == [Idle EXCEPT !.stage = "sent", !.account = getToken(s)]
           S == StartLoad(L, s)
<1>1. l \in Loads
  OBVIOUS
<1>2. r.stage = "sent"
  BY DEF Idle
<1>3. S = [L EXCEPT !.loads = [L.loads EXCEPT ![l] = r], !.loading = TRUE,
                    !.crossed = \E k \in Loads : L.loads[k].stage # "idle"]
  BY DEF StartLoad, ListType
<1> HIDE DEF l, r
<1>4. /\ S.told = L.told /\ S.loads = [L.loads EXCEPT ![l] = r]
      /\ S.crossed = (\E k \in Loads : L.loads[k].stage # "idle")
      /\ L.loads \in [Loads -> ListLoad]
  BY <1>3 DEF ListType
<1>5. ASSUME ~S.crossed PROVE InFlight(S) = {l} /\ \A k \in Loads : S.loads[k].stage # "read"
  BY <1>1, <1>2, <1>4, <1>5 DEF InFlight
<1> QED BY <1>4, <1>5 DEF ToldOf

LEMMA FreshTold ==
  ASSUME NEW s \in Store, NEW st
  PROVE  ToldOf(StartLoad(NoList, s), st)
<1>1. NoList \in ListType
  BY IdleTyped DEF NoList, ListType, Nothing
<1>2. \A p \in Polls : Happened(st[p], NoList.told[p])
  BY DEF NoList, Nothing, Happened
<1>3. \E l \in Loads : NoList.loads[l].stage = "idle"
  BY WorkspaceAssumption DEF NoList, Idle
<1> QED BY <1>1, <1>2, <1>3, StartLoadTold

LEMMA CallsToldStep ==
  ASSUME ListInv, SessionInv, CallsTold, [Next]_vars
  PROVE  CallsTold'
<1> SUFFICES ASSUME NEW d \in calls', d.kind # "create", d.stage = "ok"
             PROVE  Happened(status'[d.poll], Becomes(d.kind))
  BY DEF CallsTold
<1>1. CASE d \in calls
  <2>1. d.poll \in Polls /\ Happened(status[d.poll], Becomes(d.kind))
    BY <1>1 DEF CallsTold, ListInv, Placed
  <2> QED BY <2>1, StatusAdvances
<1>2. ASSUME d \notin calls, SessionStep PROVE FALSE
  <2>1. PICK c \in calls : c.stage = "sent" /\ d = [c EXCEPT !.at = "left"]
    BY <1>2, FollowCases DEF Remount
  <2> QED BY <2>1, CallsTyped, CallLeft
<1>3. ASSUME d \notin calls, NEW c \in calls, ChangePoll(c)
      PROVE  Happened(status'[d.poll], Becomes(d.kind))
  <2>1. c \in Call /\ c.poll \in Polls /\ status \in [Polls -> Status]
    BY <1>3 DEF ListInv, Placed, ChangePoll
  <2>2. CASE d = [c EXCEPT !.stage = "refused"]
    BY <2>1, <2>2, CallAnswered
  <2>3. CASE /\ d = [c EXCEPT !.stage = "ok"]
             /\ status' = [status EXCEPT ![c.poll] = Becomes(c.kind)]
    <3>1. d.poll = c.poll /\ d.kind = c.kind
      BY <2>1, <2>3, CallAnswered
    <3> QED BY <2>1, <2>3, <3>1 DEF Happened, Becomes
  <2> QED BY <1>3, <2>2, <2>3 DEF ChangePoll
<1>4. ASSUME d \notin calls, NEW c \in calls, CreatePoll(c) \/ CallFails(c) PROVE FALSE
  <2>1. c \in Call
    BY DEF ListInv, Placed
  <2>2. CASE CallFails(c)
    <3>1. c.stage = "sent" /\ d = [c EXCEPT !.at = "left"]
      BY <1>4, <2>2 DEF CallFails
    <3> QED BY <2>1, <3>1, CallLeft
  <2>3. CASE CreatePoll(c)
    <3>1. \/ d = [c EXCEPT !.stage = "refused"]
          \/ \E p \in Polls : d = [c EXCEPT !.stage = "ok", !.poll = p]
      BY <1>4, <2>3 DEF CreatePoll
    <3>2. c.kind = "create"
      BY <2>3 DEF CreatePoll
    <3> QED BY <2>1, <3>1, <3>2 DEF Call
  <2> QED BY <1>4, <2>2, <2>3
<1>5. ASSUME d \notin calls, NEW p \in Polls, NEW kind \in {"close", "delete"}, Change(kind, p)
      PROVE FALSE
  BY <1>5 DEF Change, Request
<1>6. ASSUME d \notin calls, Launch PROVE FALSE
  BY <1>6 DEF Launch, Request
<1> QED BY <1>1, <1>2, <1>3, <1>4, <1>5, <1>6 DEF Next, vars, GetUserPolls, ListDone, ListFails,
           ChangeDone, LaunchDone, Edit, CreateAnother, OtherDevice

(* The list's own steps.                                                    *)
LEMMA ListToldStep ==
  ASSUME ListInv, local.kind = "list", ToldOf(local, status), NEW l \in Loads,
         GetUserPolls(l) \/ ListDone(l) \/ ListFails(l)
  PROVE  ToldOf(local', status)
<1>1. local \in ListType
  BY KindTells DEF ListInv
<1>2. local.loads \in [Loads -> ListLoad] /\ local.shown \in [Polls -> Shown]
  BY <1>1 DEF ListType
<1>3. CASE GetUserPolls(l)
  <2> DEFINE Own(p) == owner[p] = local.loads[l].account /\ status[p] \in Shown
             r == [stage |-> "read", account |-> None,
                   polls |-> [p \in Polls |-> IF Own(p) THEN status[p] ELSE "none"]]
  <2>1. local' = [local EXCEPT !.loads = [local.loads EXCEPT ![l] = r]]
    BY <1>1, <1>3 DEF GetUserPolls, ListType
  <2>2. \A p \in Polls : r.polls[p] = "none" \/ (r.polls[p] = status[p] /\ status[p] \in Shown)
    OBVIOUS
  <2>3. r.stage = "read" /\ local.loads[l].stage = "sent"
    BY <1>3 DEF GetUserPolls
  <2> HIDE DEF r
  <2>4. /\ local'.loads = [local.loads EXCEPT ![l] = r] /\ local'.shown = local.shown
        /\ local'.told = local.told /\ local'.crossed = local.crossed
        /\ local'.failed = local.failed
    BY <1>1, <2>1 DEF ListType
  <2>5. \A k \in Loads : k # l => local'.loads[k] = local.loads[k]
    BY <1>2, <2>4
  <2>6. local'.loads[l] = r
    BY <1>2, <2>4
  <2>7. InFlight(local') = InFlight(local)
    BY <2>3, <2>5, <2>6 DEF InFlight
  <2>8. \A p \in Polls : Undone(local.told[p], r.polls[p])
    BY <2>2 DEF ToldOf, Happened, Undone, Shown
  <2> QED BY <2>4, <2>5, <2>6, <2>7, <2>8 DEF ToldOf
<1>4. CASE ListDone(l) \/ ListFails(l)
  <2>1. /\ local'.loads = [local.loads EXCEPT ![l] = Idle]
        /\ local'.told = local.told /\ local'.crossed = local.crossed
        /\ local.loads[l].stage # "idle"
    BY <1>1, <1>4 DEF ListDone, ListFails, ListType
  <2>2. \/ local.loads[l].stage = "read" /\ local'.shown = local.loads[l].polls
        \/ local'.failed
        \/ local'.shown = Nothing
    BY <1>1, <1>4 DEF ListDone, ListFails, ListType
  <2>3. \A k \in Loads : k # l => local'.loads[k] = local.loads[k]
    BY <1>2, <2>1
  <2>4. local'.loads[l] = Idle /\ Idle.stage = "idle"
    BY <1>2, <2>1 DEF Idle
  <2>5. InFlight(local') = InFlight(local) \ {l}
    BY <2>3, <2>4 DEF InFlight
  <2>6. \A p \in Polls : Undone(local.told[p], Nothing[p])
    BY DEF Nothing, Undone
  <2>7. \A p \in Polls : ~local.crossed /\ ~local'.failed => Undone(local.told[p], local'.shown[p])
    BY <2>2, <2>6 DEF ToldOf
  <2> QED BY <2>1, <2>3, <2>4, <2>5, <2>7 DEF ToldOf
<1> QED BY <1>3, <1>4

LEMMA ChangeDoneTold ==
  ASSUME ListInv, CallsTold, NEW c \in calls, ChangeDone(c), ToldOf(local, status)
  PROVE  ToldOf(local', status)
<1> DEFINE L == [local EXCEPT !.told[c.poll] = Becomes(c.kind)]
<1>1. /\ c.kind # "create" /\ c.at = "page" /\ c.stage = "ok" /\ local' = StartLoad(L, store)
      /\ \E l \in Loads : local.loads[l].stage = "idle"
  BY DEF ChangeDone
<1>2. local \in ListType /\ c.poll \in Polls
  BY <1>1, KindTells DEF ListInv, Placed
<1>3. L = [local EXCEPT !.told = [local.told EXCEPT ![c.poll] = Becomes(c.kind)]]
  BY <1>2 DEF ListType
<1>4. /\ L \in ListType /\ L.loads = local.loads
      /\ L.told = [local.told EXCEPT ![c.poll] = Becomes(c.kind)]
      /\ local.told \in [Polls -> {"none", "closed", "deleted"}]
  BY <1>2, <1>3 DEF ListType, Becomes
<1> HIDE DEF L
<1>5. Happened(status[c.poll], Becomes(c.kind))
  BY <1>1 DEF CallsTold
<1>6. \A p \in Polls : Happened(status[p], L.told[p])
  BY <1>4, <1>5 DEF ToldOf
<1> QED BY <1>1, <1>4, <1>6, StartLoadTold

(* A step that changes nothing of the list but its history of the token.    *)
LEMMA ToldFrame ==
  ASSUME NEW L, NEW M, NEW st, NEW tt, ToldOf(L, st),
         \A p \in Polls : \A t : Happened(st[p], t) => Happened(tt[p], t),
         M.loads = L.loads, M.told = L.told, M.crossed = L.crossed, M.failed = L.failed,
         M.shown = L.shown
  PROVE  ToldOf(M, tt)
<1>1. InFlight(M) = InFlight(L)
  BY DEF InFlight
<1> QED BY <1>1 DEF ToldOf

LEMMA ToldStep == ListInv /\ SessionInv /\ SessionInv' /\ ToldInv /\ [Next]_vars => ToldInv'
<1> SUFFICES ASSUME ListInv, SessionInv, SessionInv', ToldInv, [Next]_vars,
                    local'.kind = "list"
             PROVE  ToldOf(local', status')
  BY CallsToldStep DEF ToldInv
<1>1. \A p \in Polls : \A t : Happened(status[p], t) => Happened(status'[p], t)
  BY StatusAdvances
<1>2. CASE Remount
  <2>1. local' = Fresh(page', verify', store') /\ store' \in Store
    BY <1>2 DEF Remount, SessionInv, SessionTypeOK
  <2>2. local' = StartLoad(NoList, store')
    BY <2>1 DEF Fresh, NoDraft, Elsewhere
  <2> QED BY <2>1, <2>2, FreshTold
<1>3. ASSUME local.kind = "list", local' = local \/ local' = [local EXCEPT !.changed = TRUE]
      PROVE  ToldOf(local', status')
  <2>1. local \in ListType /\ ToldOf(local, status)
    BY <1>3, KindTells DEF ListInv, ToldInv
  <2>2. /\ local'.loads = local.loads /\ local'.told = local.told /\ local'.shown = local.shown
        /\ local'.crossed = local.crossed /\ local'.failed = local.failed
    BY <1>3, <2>1 DEF ListType
  <2> QED BY <1>1, <2>1, <2>2, ToldFrame
<1>4. CASE SessionStep
  <2>1. local.kind # "list" /\ UNCHANGED local => FALSE
    OBVIOUS
  <2> QED BY <1>2, <1>3, <1>4, <2>1, FollowCases
<1>5. CASE ~SessionStep
  <2>1. local.kind = "list"
    BY <1>5, KindStays
  <2>2. ToldOf(local, status)
    BY <2>1 DEF ToldInv
  <2>3. ASSUME NEW l \in Loads, GetUserPolls(l) \/ ListDone(l) \/ ListFails(l)
        PROVE  ToldOf(local', status')
    <3>1. ToldOf(local', status)
      BY <2>1, <2>2, <2>3, ListToldStep
    <3>2. status' = status
      BY <2>3 DEF GetUserPolls, ListDone, ListFails, server
    <3> QED BY <3>1, <3>2
  <2>4. ASSUME NEW c \in calls, ChangeDone(c) PROVE ToldOf(local', status')
    <3>1. ToldOf(local', status)
      BY <2>2, <2>4, ChangeDoneTold DEF ToldInv
    <3>2. status' = status
      BY <2>4 DEF ChangeDone, server
    <3> QED BY <3>1, <3>2
  <2>5. ASSUME NEW c \in calls, CreatePoll(c) \/ LaunchDone(c) \/ CallFails(c)
        PROVE  UNCHANGED local
    <3>1. c.kind = "create" => c.at # "page"
      BY <2>1 DEF ListInv, Placed
    <3> QED BY <2>5, <3>1 DEF CreatePoll, LaunchDone, CallFails
  <2>6. ~Edit /\ ~Launch /\ ~CreateAnother
    BY <2>1 DEF Edit, Launch, CreateAnother, Writing
  <2>7. CASE UNCHANGED local
    BY <1>3, <2>1, <2>7
  <2> QED BY <1>5, <2>3, <2>4, <2>5, <2>6, <2>7 DEF Next, vars, Change, ChangePoll, OtherDevice
<1> QED BY <1>4, <1>5

LEMMA ToldInit == Init => ToldInv
<1> SUFFICES ASSUME Init, local.kind = "list" PROVE ToldOf(local, status)
  BY DEF ToldInv, CallsTold, Init
<1>1. local = Fresh(page, verify, store) /\ store \in Store
  BY InitHolds, InitStarts DEF SessionInv, SessionTypeOK, Init
<1>2. local = StartLoad(NoList, store)
  BY <1>1 DEF Fresh, NoDraft, Elsewhere
<1> QED BY <1>1, <1>2, FreshTold

(* For any number of polls, loads and requests: when its loads have ended,  *)
(* the list shows every closing and deletion the page has reported, unless  *)
(* the last load failed or crossed an earlier one.                          *)
THEOREM ReportedShown == Spec => []AcknowledgedShown
<1>1. Spec => []SessionInv
  BY KeepsToSession, SessionInvariant, PTL
<1>2. Init => ListInv /\ ToldInv
  BY ListInit, ToldInit
<1>3. (ListInv /\ ToldInv) /\ SessionInv /\ SessionInv' /\ [Next]_vars => (ListInv /\ ToldInv)'
  BY ListNext, ToldStep
<1>4. ToldInv => AcknowledgedShown
  BY DEF ToldInv, ToldOf, AcknowledgedShown, InFlight, Undone
<1> QED BY <1>1, <1>2, <1>3, <1>4, PTL DEF Spec
=============================================================================
