------------------------------- MODULE Session -------------------------------
(***************************************************************************)
(* Who is signed in: the store with its token cookie, the current-user     *)
(* query, the forms of the account pages, the interceptor that ends a      *)
(* session at a 401, and the guards of the router.                         *)
(*                                                                         *)
(* A token is the number of its session; the server knows whose it is.  A  *)
(* location is a sequence of pages: the sign-in page is followed by the    *)
(* location to come back to.  A navigation changes the location at once    *)
(* and the view when its guard has decided.  Of a profile only its owner,  *)
(* hence the roles, is kept.                                               *)
(***************************************************************************)
EXTENDS Cookies

CONSTANTS Users, Admins

ASSUME UsersAssumption == Admins \subseteq Users

VARIABLES
  owners,   \* owners[s]: the user of session s, the server's side of the tokens
  expired,  \* the sessions the server does not accept any more
  auth,     \* the store: the user and the token
  me,       \* the current-user query: its data, the session that asks, if any, and
            \* whether a guard has been waiting for the answer
  requests, \* the requests of forms and pages that are under way
  url,      \* the location
  view,     \* the mounted page
  nav,      \* the admin page whose guard is under way
  mount,    \* how many views were mounted
  dialog,   \* the sign-out dialog is open
  stale,    \* history: sessions begun while a profile was under way
  odd       \* history: somebody signed in has been at the sign-in page

sessionVars == <<owners, expired, auth, me, requests, url, view, nav, mount, dialog, stale, odd>>

Nobody == "nobody"
NoPage == "no page"
NoSession == 0
NotAsking == -1
NoAuth == [user |-> Nobody, token |-> NoSession]
NoQuery == [data |-> Nobody, session |-> NotAsking, guard |-> FALSE]

AdminPages == {"products"}
Settings == {"profile", "account", "appearance"}
Guarded == {"dashboard"} \union AdminPages \union Settings
Pages == Guarded \union {"sign-in", "sign-up", "403", "500"}

IsAdminUser(user) == user \in Admins

(* getSidebarData: the links of the side bar for a user. *)
SidebarLinks(user) == {"dashboard"} \union (IF IsAdminUser(user) THEN AdminPages ELSE {})

CurrentUser == IF auth.user # Nobody THEN auth.user ELSE me.data

(* Where the sign-in page leads: the location in its search, or home. *)
Destination == IF Len(url) > 1 THEN Tail(url) ELSE <<"dashboard">>

-----------------------------------------------------------------------------
(* The router.  Mounting the layout, or the profile form, asks for the     *)
(* current user unless that is under way; known data become the user.  An  *)
(* open sign-out dialog may stay, in the side bar, or go, with a page's    *)
(* header.  t is the tab as the navigation finds it. *)
Tab == [view |-> view, auth |-> auth, me |-> me, requests |-> requests]

Asking(q, token) == [q EXCEPT !.session = IF @ = NotAsking THEN token ELSE @]

PageRequest(token) == [kind |-> "page", who |-> Nobody, to |-> <<>>, session |-> token, mount |-> 0]

Mounted(p, t) ==
  LET layout == p \in Guarded /\ t.view \notin Guarded
      data == IF t.me.data # Nobody THEN t.me.data ELSE t.auth.user
  IN /\ view' = p
     /\ mount' = mount + 1
     /\ dialog' \in {FALSE, dialog /\ {p, t.view} \subseteq Guarded}
     /\ auth' = IF layout /\ data # Nobody THEN [t.auth EXCEPT !.user = data] ELSE t.auth
     /\ me' = IF layout \/ p = "profile"
              THEN Asking([t.me EXCEPT !.data = data], t.auth.token) ELSE t.me
     /\ requests' = t.requests \union (IF p \in {"dashboard"} \union AdminPages
                                       THEN {PageRequest(t.auth.token)} ELSE {})

(* beforeLoad of the routes: without a token a business page leads to the  *)
(* sign-in page, and an admin page waits for the profile. *)
Navigate(location, t) ==
  LET p == Head(location)
      turned == p \in Guarded /\ t.auth.token = NoSession
      waits == p \in AdminPages /\ ~ turned
  IN /\ url' = IF turned THEN <<"sign-in">> \o location ELSE location
     /\ nav' = IF waits THEN p ELSE NoPage
     /\ IF waits \/ (t.view = Head(url'))
        THEN /\ view' = t.view /\ auth' = t.auth /\ requests' = t.requests
             /\ me' = IF waits THEN [Asking(t.me, t.auth.token) EXCEPT !.guard = TRUE] ELSE t.me
             /\ dialog' = (dialog /\ t.view \in Guarded)
             /\ UNCHANGED mount
        ELSE Mounted(Head(url'), t)
     /\ odd' = (odd \/ (t.auth.token # NoSession /\ Head(url') = "sign-in"))

Follow(p) ==
  /\ url # <<p>> /\ ~ dialog
  /\ Navigate(<<p>>, Tab)
  /\ Event
  /\ UNCHANGED <<cookies, lapsed, owners, expired, stale>>

(* Pointing at a link runs the guard of its page in advance. *)
Preload(p) ==
  /\ p \in AdminPages /\ auth.token # NoSession /\ ~ dialog
  /\ me' = [Asking(me, auth.token) EXCEPT !.guard = TRUE]
  /\ me' # me
  /\ Event
  /\ UNCHANGED <<cookies, lapsed, owners, expired, auth, requests, url, view, nav, mount, dialog, stale, odd>>

(* A link of the account menu or of the settings' own navigation, of the   *)
(* sign-in and sign-up pages, or back home from an error page. *)
Links ==
  CASE view \in Guarded -> Settings
    [] view = "sign-in" -> {"sign-up"}
    [] view = "sign-up" -> {"sign-in"}
    [] OTHER -> {"dashboard"}

(* A page load, with whatever location: nothing is left but the cookies. *)
LoadSession(location) ==
  /\ Navigate(location, [view |-> "loading", auth |-> [user |-> Nobody, token |-> cookies.token],
                         me |-> NoQuery, requests |-> {}])
  /\ UNCHANGED <<owners, expired, stale>>

-----------------------------------------------------------------------------
(* The forms.  Each has its button off while its own request is under way. *)
Busy == \E r \in requests : r.kind # "page" /\ r.mount = mount

Send(kind, who) ==
  /\ ~ Busy
  /\ Event
  /\ requests' = requests \union {[kind |-> kind, who |-> who, to |-> Destination,
                                        session |-> auth.token, mount |-> mount]}
  /\ UNCHANGED <<cookies, lapsed, owners, expired, auth, me, url, view, nav, mount, dialog, stale, odd>>

(* The lengths a name and a password may have. *)
ValidLogin(name, password) == name \in 3..64 /\ password \in 6..72

SignIn(who, name, password) ==
  view = "sign-in" /\ ValidLogin(name, password) /\ Send("login", who)

SignUp(name, password, confirmed) ==
  view = "sign-up" /\ ValidLogin(name, password) /\ confirmed = password /\ Send("register", Nobody)

(* The profile form works on the profile it shows. *)
SaveProfile(nickname) ==
  view = "profile" /\ nickname \in 1..64 /\ me.data # Nobody /\ ~ dialog /\ Send("profile", me.data)

ChangePassword(old, new, confirmed) ==
  /\ view = "account" /\ ~ dialog
  /\ old > 0 /\ new \in 6..72 /\ new # old /\ confirmed = new
  /\ Send("password", Nobody)

-----------------------------------------------------------------------------
(* The end of a session. *)
Reset == RemoveCookie("token")

(* Defect: a 401 is handled whether or not somebody is signed in. *)
UnauthorizedAlways(t) ==
  /\ Reset
  /\ Navigate(<<"sign-in">> \o url, [t EXCEPT !.auth = NoAuth])

(* The interceptor, at a 401: a session that is over already is not ended  *)
(* again. *)
Unauthorized(t) ==
  IF auth.token = NoSession
  THEN /\ me' = t.me /\ requests' = t.requests
       /\ UNCHANGED <<cookies, lapsed, auth, url, view, nav, mount, dialog, odd>>
  ELSE /\ Reset
       /\ Navigate(<<"sign-in">> \o url, [t EXCEPT !.auth = NoAuth])

AskSignOut ==
  /\ view \in Guarded /\ ~ dialog
  /\ dialog' = TRUE
  /\ UNCHANGED <<cookieVars, owners, expired, auth, me, requests, url, view, nav, mount, stale, odd>>

CancelSignOut ==
  /\ dialog
  /\ dialog' = FALSE
  /\ UNCHANGED <<cookieVars, owners, expired, auth, me, requests, url, view, nav, mount, stale, odd>>

HandleSignOut ==
  /\ dialog
  /\ Event
  /\ Reset
  /\ Navigate(<<"sign-in">> \o url, [Tab EXCEPT !.auth = NoAuth])
  /\ UNCHANGED <<owners, expired, stale>>

Expire ==
  /\ \E s \in DOMAIN owners \ expired : expired' = expired \union {s}
  /\ Event
  /\ UNCHANGED <<cookies, lapsed, owners, auth, me, requests, url, view, nav, mount, dialog, stale, odd>>

-----------------------------------------------------------------------------
(* The answers.  Nothing but the tab's own part changes: Ends. *)
Without(r) == [Tab EXCEPT !.requests = @ \ {r}]

Ends(t) ==
  /\ auth' = t.auth /\ me' = t.me /\ requests' = t.requests
  /\ UNCHANGED <<cookies, lapsed, url, view, nav, mount, dialog, odd>>

(* A failed query of a page, answered with an internal error of the        *)
(* server, leads to the page for it from anywhere; a form only says so. *)
Fails(r) ==
  /\ Event
  /\ \/ Ends(Without(r))
     \/ r.kind = "page" /\ Navigate(<<"500">>, Without(r)) /\ UNCHANGED <<cookies, lapsed>>
  /\ UNCHANGED <<owners, expired, stale>>

Denied(r) ==
  /\ r.session \in expired
  /\ Unauthorized(Without(r))
  /\ UNCHANGED <<events, owners, expired, stale>>

(* Defect: the profile of the session before stays in the query. *)
LoggedInKeepingQuery(r) ==
  /\ owners' = Append(owners, r.who)
  /\ SetCookies([token |-> Len(owners')])
  /\ Navigate(r.to, [Without(r) EXCEPT !.auth = [user |-> r.who, token |-> Len(owners')]])
  /\ stale' = stale \union (IF me.session # NotAsking \/ \E q \in requests : q.kind = "profile"
                            THEN {Len(owners')} ELSE {})
  /\ UNCHANGED <<events, expired>>

LoggedIn(r) ==
  /\ owners' = Append(owners, r.who)
  /\ SetCookies([token |-> Len(owners')])
  /\ Navigate(r.to, [Without(r) EXCEPT !.auth = [user |-> r.who, token |-> Len(owners')],
                                       !.me.data = r.who])
  /\ stale' = stale \union (IF me.session # NotAsking \/ \E q \in requests : q.kind = "profile"
                            THEN {Len(owners')} ELSE {})
  /\ UNCHANGED <<events, expired>>

(* A wrong password is a 401 as well. *)
LoginRefused(r) ==
  /\ Event
  /\ Unauthorized(Without(r))
  /\ UNCHANGED <<owners, expired, stale>>

Registered(r) ==
  /\ Navigate(<<"sign-in">>, Without(r))
  /\ UNCHANGED <<cookies, lapsed, events, owners, expired, stale>>

ProfileSaved(r) ==
  /\ Ends([Without(r) EXCEPT !.me.data = r.who, !.auth.user = r.who])
  /\ UNCHANGED <<events, owners, expired, stale>>

Done(r) == Ends(Without(r)) /\ UNCHANGED <<events, owners, expired, stale>>

Answer(r) ==
  \/ r.kind # "login" /\ r.kind # "register" /\ Denied(r)
  \/ r.kind = "login" /\ (LoggedIn(r) \/ LoginRefused(r))
  \/ r.kind = "register" /\ Registered(r)
  \/ r.kind = "profile" /\ r.session \notin expired /\ ProfileSaved(r)
  \/ r.kind \in {"password", "page"} /\ r.session \notin expired /\ Done(r)
  \/ Fails(r)

(* Defect: any profile will do. *)
DecideOnAnyProfile(t) ==
  IF t.me.data # Nobody
  THEN /\ Mounted(nav, t)
       /\ nav' = NoPage
       /\ UNCHANGED <<url, odd>>
  ELSE Navigate(<<"403">>, t)

(* requireAdmin, once the profile is there. *)
Decide(t) ==
  IF IsAdminUser(t.me.data)
  THEN /\ Mounted(nav, t)
       /\ nav' = NoPage
       /\ UNCHANGED <<url, odd>>
  ELSE Navigate(<<"403">>, t)

(* The current user is answered: the side bar and every guard that waited  *)
(* for the answer put it into the store. *)
ProfileFetched ==
  LET who == owners[me.session]
      t == [Tab EXCEPT !.me = [NoQuery EXCEPT !.data = who],
                       !.auth.user = IF view \in Guarded \/ me.guard THEN who ELSE @]
  IN /\ me.session \in DOMAIN owners \ expired
     /\ IF nav = NoPage THEN Ends(t) ELSE Decide(t) /\ UNCHANGED <<cookies, lapsed>>
     /\ UNCHANGED <<events, owners, expired, stale>>

ProfileDenied ==
  /\ me.session \in expired
  /\ Unauthorized([Tab EXCEPT !.me = [NoQuery EXCEPT !.data = me.data]])
  /\ UNCHANGED <<events, owners, expired, stale>>

(* Defect: the page asked for is waited for on. *)
ProfileFailsSilently ==
  /\ me.session # NotAsking
  /\ Event
  /\ Ends([Tab EXCEPT !.me = [NoQuery EXCEPT !.data = me.data]])
  /\ UNCHANGED <<owners, expired, stale>>

(* A failure shows the error view for the page asked for; an internal      *)
(* error of the server leads to its page from anywhere. *)
ProfileFails ==
  LET t == [Tab EXCEPT !.me = [NoQuery EXCEPT !.data = me.data]] IN
  /\ me.session # NotAsking
  /\ Event
  /\ \/ nav = NoPage /\ Ends(t)
     \/ /\ nav # NoPage /\ nav' = NoPage
        /\ Mounted("error", t)
        /\ UNCHANGED <<cookies, lapsed, url, odd>>
     \/ Navigate(<<"500">>, t) /\ UNCHANGED <<cookies, lapsed>>
  /\ UNCHANGED <<owners, expired, stale>>

SessionAnswers == (\E r \in requests : Answer(r)) \/ ProfileFetched \/ ProfileDenied \/ ProfileFails

SessionForms ==
  \/ \E who \in Users, name \in {2, 3}, password \in {5, 6} : SignIn(who, name, password)
  \/ \E name \in {2, 3}, password, confirmed \in {5, 6} : SignUp(name, password, confirmed)
  \/ \E nickname \in 0..1 : SaveProfile(nickname)
  \/ \E old \in 6..7, new, confirmed \in 5..6 : ChangePassword(old, new, confirmed)
  \/ AskSignOut \/ CancelSignOut \/ HandleSignOut

(* A first visit, or one with the cookie of an earlier session. *)
SessionInit ==
  /\ expired = {} /\ requests = {} /\ mount = 0 /\ dialog = FALSE /\ stale = {} /\ odd = FALSE
  /\ nav = NoPage
  /\ \/ /\ cookies.token = NoSession /\ owners = <<>>
        /\ auth = NoAuth /\ me = NoQuery
        /\ view = "sign-in" /\ url = <<"sign-in", "dashboard">>
     \/ /\ cookies.token = 1 /\ \E u \in Users : owners = <<u>>
        /\ auth = [NoAuth EXCEPT !.token = 1] /\ me = [NoQuery EXCEPT !.session = 1]
        /\ view = "dashboard" /\ url = <<"dashboard">>
=============================================================================
