------------------------------ MODULE Session ------------------------------
(***************************************************************************)
(* Who is signed in, in one tab: AuthContext with the credentials that     *)
(* authService keeps in localStorage, the login and registration forms,    *)
(* and the routes and layouts that decide which page is mounted. A token   *)
(* stands for the account it was issued to. The browser's Back and Forward *)
(* are left out.                                                           *)
(***************************************************************************)
EXTENDS Naturals

CONSTANTS Accounts, None

ASSUME SessionAssumption == None \notin Accounts

(* The pages: "poll" is either page of a poll, "mypolls" has two addresses; *)
(* the page for an unknown address is left out.                             *)
Dashboard == {"dashboard", "mypolls", "settings"}  \* addresses under /dashboard
Guarded   == Dashboard \cup {"create", "analytics"}
Public    == {"home", "login", "register", "demo", "poll"}
Pages     == Public \cup Guarded

VARIABLES
  store,      \* localStorage: the keys votesphere_* and the older pulsepoll_*
  user,       \* AuthContext: the account shown as signed in
  verify,     \* the account whose GET /auth/me is in flight: loading is verify # None
  forms,      \* logins and registrations in flight; "left": their form is not mounted
  page,       \* the route
  overtaken,  \* history: while a verification was in flight its user signed out, or
              \* signed in as somebody
  foreign     \* history: another tab changed the store since this one read or wrote it

session == <<store, user, verify, forms, page, overtaken, foreign>>

Store   == [jwt : Accounts \cup {None}, userKey : Accounts \cup {None},
            legacyJwt : Accounts \cup {None}, legacyUser : Accounts \cup {None}]
NoStore == [jwt |-> None, userKey |-> None, legacyJwt |-> None, legacyUser |-> None]
Form    == [account : Accounts, at : {"page", "left"}]

getToken(s)      == IF s.jwt # None THEN s.jwt ELSE s.legacyJwt
getStoredUser(s) == IF s.userKey # None THEN s.userKey ELSE s.legacyUser

-----------------------------------------------------------------------------
(* Routes and layouts. A guarded page is not mounted while the session is   *)
(* being verified, and sends a visitor without a user to the login.         *)

Route(p, u, v) == IF p \in Guarded /\ v = None /\ u = None THEN "login" ELSE p
Ready(p, v)    == p \in Public \/ v = None
Mounted        == Ready(page, verify)

NavbarLinks  == {"home", "demo"} \cup
                (IF user = None THEN {"login", "register"} ELSE {"create", "dashboard"})
FooterLinks  == {"home", "demo", "create", "login", "register"}
SidebarLinks == {"home", "dashboard", "mypolls", "create", "settings"}
CardLinks    == {"poll", "analytics"}

Links ==
  CASE page \in Public                   -> NavbarLinks \cup FooterLinks
    [] page \in {"dashboard", "mypolls"} -> SidebarLinks \cup CardLinks
    [] page \in {"create", "analytics"}  -> SidebarLinks \cup {"poll"}
    [] OTHER                             -> SidebarLinks

Left(F) == {[f EXCEPT !.at = "left"] : f \in F}

-----------------------------------------------------------------------------
(* The document is loaded at p: a reload, a typed address, a new tab.       *)
Start(s, p) ==
  /\ user' = getStoredUser(s) /\ verify' = getToken(s)
  /\ page' = Route(p, getStoredUser(s), getToken(s))
  /\ forms' = {} /\ foreign' = FALSE
  /\ overtaken' = (overtaken /\ getToken(s) = None)

SessionInit ==
  /\ \E a \in Accounts :
       store \in {NoStore, [NoStore EXCEPT !.jwt = a, !.userKey = a],
                  [NoStore EXCEPT !.jwt = a, !.userKey = a, !.legacyUser = a],
                  [NoStore EXCEPT !.legacyJwt = a, !.legacyUser = a]}
  /\ user = getStoredUser(store) /\ verify = getToken(store)
  /\ page \in {Route(p, user, verify) : p \in Pages}
  /\ forms = {} /\ overtaken = FALSE /\ foreign = FALSE

Load(p) == Start(store, p) /\ UNCHANGED store

(* GET /auth/me answers, whatever has become of the session since it left.  *)
VerifyOk ==
  /\ verify # None
  /\ user' = verify /\ store' = [store EXCEPT !.legacyUser = verify]
  /\ verify' = None
  /\ UNCHANGED <<forms, page, overtaken, foreign>>

VerifyFails ==
  /\ verify # None
  /\ user' = None /\ store' = NoStore /\ verify' = None
  /\ page' = Route(page, None, None)
  /\ forms' = IF page' = page THEN forms ELSE Left(forms)
  /\ overtaken' = FALSE /\ foreign' = FALSE

(* The interceptor: a 401 that arrives on a page under /dashboard, whatever *)
(* was asked, from which page and with whose token.                         *)
Unauthorized ==
  /\ page \in Dashboard
  /\ store' = NoStore /\ Start(NoStore, "login")

(* A form that its page finds complete is sent, one at a time.              *)
Send(a) ==
  /\ \A f \in forms : f.at # "page"
  /\ forms' = forms \cup {[account |-> a, at |-> "page"]}
  /\ UNCHANGED <<store, user, verify, page, overtaken, foreign>>

Login(a)    == page = "login" /\ Send(a)
Register(a) == page = "register" /\ Send(a)

(* A form succeeds and goes to the dashboard, from wherever the tab is now. *)
FormOk(f) ==
  /\ f \in forms
  /\ user' = f.account
  /\ store' = [store EXCEPT !.jwt = f.account, !.userKey = f.account]
  /\ page' = "dashboard" /\ forms' = Left(forms \ {f})
  /\ overtaken' = (verify # None) /\ foreign' = FALSE
  /\ UNCHANGED verify

FormFails(f) ==
  /\ f \in forms /\ forms' = forms \ {f}
  /\ UNCHANGED <<store, user, verify, page, overtaken, foreign>>

KeepLegacy ==  \* mutant: the keys of the older name survive a logout
  /\ Mounted /\ user # None
  /\ user' = None /\ store' = [store EXCEPT !.jwt = None, !.userKey = None]
  /\ page' = "login" /\ forms' = IF page = "login" THEN forms ELSE Left(forms)
  /\ overtaken' = (verify # None) /\ foreign' = FALSE
  /\ UNCHANGED verify

Logout ==
  /\ Mounted /\ user # None
  /\ user' = None /\ store' = NoStore
  /\ page' = "login" /\ forms' = IF page = "login" THEN forms ELSE Left(forms)
  /\ overtaken' = (verify # None) /\ foreign' = FALSE
  /\ UNCHANGED verify

(* A link or button to p. A guarded page without a user takes the visitor   *)
(* to a new login page, also from the login page itself.                    *)
Go(p) ==
  /\ Mounted /\ p \in Links \ {page}
  /\ page' = Route(p, user, verify) /\ forms' = Left(forms)
  /\ UNCHANGED <<store, user, verify, overtaken, foreign>>

OtherTabLogsIn(a) ==
  /\ store' = [store EXCEPT !.jwt = a, !.userKey = a] /\ foreign' = TRUE
  /\ UNCHANGED <<user, verify, forms, page, overtaken>>

OtherTabLogsOut ==
  /\ store' = NoStore /\ foreign' = TRUE
  /\ overtaken' = (overtaken \/ verify # None)
  /\ UNCHANGED <<user, verify, forms, page>>

SessionNext ==
  \/ \E p \in Pages : Load(p) \/ Go(p)
  \/ \E a \in Accounts : Login(a) \/ Register(a) \/ OtherTabLogsIn(a)
  \/ \E f \in forms : FormOk(f) \/ FormFails(f)
  \/ VerifyOk \/ VerifyFails \/ Unauthorized \/ Logout \/ OtherTabLogsOut

SessionSpec == SessionInit /\ [][SessionNext]_session

-----------------------------------------------------------------------------
SessionTypeOK ==
  /\ store \in Store
  /\ user \in Accounts \cup {None} /\ verify \in Accounts \cup {None}
  /\ forms \subseteq Form /\ page \in Pages
  /\ overtaken \in BOOLEAN /\ foreign \in BOOLEAN

(* The account the pages show is the one whose token their requests carry,  *)
(* and nobody is shown without one: unless another tab changed the store,   *)
(* or the user signed out or in while a verification was in flight, whose   *)
(* answer then takes over the session.                                      *)
SessionAgrees ==
  verify = None /\ ~overtaken /\ ~foreign => user = getToken(store)
=============================================================================
