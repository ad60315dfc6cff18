---------------------------- MODULE BrowserProofs ----------------------------
(***************************************************************************)
(* Who is signed in, what an administrator's page shows, where the sign-in *)
(* page leads, what a page load keeps and how the document looks, for any  *)
(* users, any administrators among them, and any number of events.         *)
(***************************************************************************)
EXTENDS Browser, SequenceTheorems, TLAPS

Somebody == Users \union {Nobody}
Locations == Seq(Pages) \ {<<>>}

SessionTypes ==
  /\ DOMAIN cookies = Names /\ cookies.token \in Nat
  /\ owners \in Seq(Somebody)
  /\ auth \in [user : Somebody, token : Nat]
  /\ me \in [data : Somebody, session : Nat \union {NotAsking}, guard : BOOLEAN]
  /\ \A r \in requests : r.who \in Somebody /\ (r.kind = "login" => r.to \in Locations)
  /\ url \in Locations
  /\ nav \in AdminPages \union {NoPage}
  /\ odd \in BOOLEAN

(* Business pages and their guards need a session. *)
GuardedHaveToken == view \in Guarded \/ nav # NoPage => auth.token # NoSession

(* The sign-out dialog is part of them. *)
DialogOfLayout == dialog => view \in Guarded

(* Of a session that began while no profile was under way, everything a    *)
(* tab knows about its user is about the owner of the token; ow and st     *)
(* stand for owners and stale. *)
OfToken(t, ow, st) ==
  t.auth.token # NoSession /\ t.auth.token \notin st =>
    /\ t.auth.user \in {Nobody, ow[t.auth.token]}
    /\ t.me.data \in {Nobody, ow[t.auth.token]}
    /\ t.me.session \in {NotAsking, t.auth.token}
    /\ \A r \in t.requests : r.kind = "profile" => r.who = ow[t.auth.token]

(* A location without the sign-in page. *)
Elsewhere(location) == \A i \in DOMAIN location : location[i] # "sign-in"

(* The sign-in page is first in a location or not in it; it is not at all  *)
(* while somebody is signed in, nor where a login leads. *)
SignInOnce == odd \/
  /\ \A i \in DOMAIN url : url[i] = "sign-in" => i = 1
  /\ auth.token # NoSession => url[1] # "sign-in"
  /\ \A r \in requests : r.kind = "login" => Elsewhere(r.to)

SessionInv ==
  /\ SessionTypes
  /\ GuardedHaveToken
  /\ DialogOfLayout
  /\ OfToken(Tab, owners, stale)
  /\ AdminPageByAdmin
  /\ SignInOnce

-----------------------------------------------------------------------------
(* A tab as a step hands it on. *)
Sessions == [user : Somebody, token : Nat]
Queries == [data : Somebody, session : Nat \union {NotAsking}, guard : BOOLEAN]

TabTypes(t) ==
  /\ t.auth \in Sessions
  /\ t.me \in Queries
  /\ \A r \in t.requests : r.who \in Somebody /\ (r.kind = "login" => r.to \in Locations)

(* What it becomes when a page is mounted: the session is the same, and    *)
(* only requests of pages are new. *)
HandsOn(t) ==
  /\ auth'.token = t.auth.token
  /\ \A r \in requests' : r \in t.requests \/ r.kind = "page"

LEMMA AskingIsTyped ==
  ASSUME NEW q \in Queries, NEW token \in Nat
  PROVE  /\ Asking(q, token) \in Queries
         /\ Asking(q, token).data = q.data
         /\ Asking(q, token).session \in {q.session, token}
         /\ q.session # NotAsking => Asking(q, token).session = q.session
BY DEF Asking, Queries

LEMMA MountKeeps ==
  ASSUME NEW p, NEW t, NEW ow, NEW st, TabTypes(t), OfToken(t, ow, st), Mounted(p, t)
  PROVE  TabTypes(Tab') /\ OfToken(Tab', ow, st) /\ HandsOn(t) /\ view' = p /\ DialogOfLayout'
<1> DEFINE data == IF t.me.data # Nobody THEN t.me.data ELSE t.auth.user
           known == [t.me EXCEPT !.data = data]
<1>1. t.auth \in Sessions /\ t.me \in Queries /\ t.auth.token \in Nat /\ data \in Somebody
  BY DEF TabTypes, Sessions, Queries
<1>2. known \in Queries /\ known.data = data /\ known.session = t.me.session
  BY <1>1 DEF Queries
<1>3. /\ view' = p
      /\ auth' \in {t.auth, [t.auth EXCEPT !.user = data]}
      /\ me' \in {t.me, Asking(known, t.auth.token)}
      /\ requests' \in {t.requests, t.requests \union {PageRequest(t.auth.token)}}
  BY DEF Mounted
<1> HIDE DEF known
<1>4. auth' \in Sessions /\ auth'.token = t.auth.token /\ auth'.user \in {t.auth.user, data}
  BY <1>1, <1>3 DEF Sessions
<1>5. /\ me' \in Queries /\ me'.data \in {t.me.data, data}
      /\ me'.session \in {t.me.session, t.auth.token}
  BY <1>1, <1>2, <1>3, AskingIsTyped
<1>6. \A r \in requests' : r \in t.requests \/ (r.kind = "page" /\ r.who = Nobody)
  BY <1>3 DEF PageRequest
<1>7. TabTypes(Tab')
  BY <1>4, <1>5, <1>6 DEF TabTypes, Tab, Somebody
<1>8. OfToken(Tab', ow, st)
  BY <1>4, <1>5, <1>6 DEF OfToken, Tab
<1>9. DialogOfLayout'
  BY <1>3 DEF Mounted, DialogOfLayout
<1> QED BY <1>3, <1>4, <1>6, <1>7, <1>8, <1>9 DEF HandsOn

(* The sign-in page before a location. *)
LEMMA SignInFirst ==
  ASSUME NEW location \in Locations
  PROVE  /\ <<"sign-in">> \o location \in Locations
         /\ (<<"sign-in">> \o location)[1] = "sign-in"
         /\ \A i \in DOMAIN (<<"sign-in">> \o location) :
              i # 1 => i - 1 \in DOMAIN location /\ (<<"sign-in">> \o location)[i] = location[i - 1]
<1> DEFINE first == <<"sign-in">>
           whole == first \o location
<1>1. /\ first \in Seq(Pages) /\ Len(first) = 1 /\ first[1] = "sign-in"
      /\ location \in Seq(Pages) /\ Len(location) \in Nat
  <2>1. "sign-in" \in Pages
    BY DEF Pages
  <2>2. first \in Seq(Pages) /\ Len(first) = 1 /\ first[1] = "sign-in"
    BY <2>1
  <2>3. location \in Seq(Pages)
    BY DEF Locations
  <2> QED BY <2>2, <2>3, LenProperties
<1> HIDE DEF first
<1>2. /\ whole \in Seq(Pages) /\ Len(whole) = 1 + Len(location)
      /\ \A i \in 1..1 + Len(location) :
           whole[i] = IF i <= 1 THEN first[i] ELSE location[i - 1]
  <2>1. /\ whole \in Seq(Pages) /\ Len(whole) = Len(first) + Len(location)
        /\ \A i \in 1..Len(first) + Len(location) :
             whole[i] = IF i <= Len(first) THEN first[i] ELSE location[i - Len(first)]
    BY <1>1, ConcatProperties, Zenon
  <2> HIDE DEF whole
  <2> QED BY <1>1, <2>1
<1>3. DOMAIN whole = 1..1 + Len(location) /\ DOMAIN location = 1..Len(location)
  BY <1>1, <1>2, LenProperties
<1> HIDE DEF whole
<1>4. whole # <<>> /\ 1 \in 1..1 + Len(location)
  BY <1>1, <1>2
<1>5. whole \in Locations /\ whole[1] = "sign-in"
  BY <1>1, <1>2, <1>4 DEF Locations
<1>6. \A i \in DOMAIN whole : i # 1 => i - 1 \in DOMAIN location /\ whole[i] = location[i - 1]
  BY <1>1, <1>2, <1>3
<1> QED BY <1>5, <1>6 DEF whole, first

LEMMA LocationHead ==
  ASSUME NEW location \in Locations
  PROVE  Head(location) = location[1] /\ location[1] \in Pages /\ 1 \in DOMAIN location
<1>1. location \in Seq(Pages) /\ location # <<>>
  BY DEF Locations
<1>2. Len(location) \in Nat \ {0} /\ DOMAIN location = 1..Len(location)
  BY <1>1, EmptySeq, LenProperties
<1> QED BY <1>1, <1>2

LEMMA NavigationKeeps ==
  ASSUME NEW location \in Locations, NEW t, NEW ow, NEW st,
         TabTypes(t), OfToken(t, ow, st), Navigate(location, t), odd \in BOOLEAN
  PROVE  /\ TabTypes(Tab') /\ OfToken(Tab', ow, st) /\ HandsOn(t)
         /\ url' = location \/ (Head(location) \in Guarded /\ url' = <<"sign-in">> \o location)
         /\ url' \in Locations
         /\ nav' \in AdminPages \union {NoPage}
         /\ odd' \in BOOLEAN
         /\ odd' = (odd \/ (auth'.token # NoSession /\ url'[1] = "sign-in"))
         /\ GuardedHaveToken' /\ DialogOfLayout'
         /\ nav' = NoPage => view' \notin AdminPages
<1> DEFINE p == Head(location)
           turned == p \in Guarded /\ t.auth.token = NoSession
           waits == p \in AdminPages /\ ~ turned
<1>1. p \in Pages /\ p = location[1]
  BY LocationHead
<1>2. /\ url' = IF turned THEN <<"sign-in">> \o location ELSE location
      /\ nav' = IF waits THEN p ELSE NoPage
      /\ odd' = (odd \/ (t.auth.token # NoSession /\ Head(url') = "sign-in"))
  BY DEF Navigate
<1>3. url' \in Locations /\ (turned => url'[1] = "sign-in") /\ (~ turned => url'[1] = p)
  BY <1>1, <1>2, SignInFirst
<1>4. Head(url') = url'[1]
  BY <1>3, LocationHead
<1>5. nav' \in AdminPages \union {NoPage} /\ odd' \in BOOLEAN /\ (nav' # NoPage => waits)
  BY <1>2 DEF AdminPages
<1>6. waits => t.auth.token # NoSession
  BY DEF AdminPages, Guarded
<1>7. CASE waits \/ t.view = Head(url')
  <2>1. /\ view' = t.view /\ auth' = t.auth /\ requests' = t.requests
        /\ me' \in {t.me, [Asking(t.me, t.auth.token) EXCEPT !.guard = TRUE]}
    BY <1>7 DEF Navigate
  <2>2. t.auth \in Sessions /\ t.me \in Queries /\ t.auth.token \in Nat
    BY DEF TabTypes, Sessions
  <2>3. /\ me' \in Queries /\ me'.data = t.me.data
        /\ me'.session \in {t.me.session, t.auth.token}
    <3>1. PICK q \in Queries : q = Asking(t.me, t.auth.token) /\ q.data = t.me.data
                               /\ q.session \in {t.me.session, t.auth.token}
      BY <2>2, AskingIsTyped
    <3> QED BY <2>1, <2>2, <3>1 DEF Queries
  <2>4. TabTypes(Tab') /\ OfToken(Tab', ow, st) /\ HandsOn(t)
    BY <2>1, <2>2, <2>3 DEF TabTypes, OfToken, HandsOn, Tab
  <2>5. GuardedHaveToken'
    BY <1>3, <1>4, <1>5, <1>6, <1>7, <2>1 DEF GuardedHaveToken, Guarded, AdminPages, Settings
  <2>6. nav' = NoPage => view' \notin AdminPages
    BY <1>1, <1>2, <1>3, <1>4, <1>7, <2>1 DEF AdminPages, Guarded, NoPage
  <2>7. DialogOfLayout'
    BY <1>7, <2>1 DEF Navigate, DialogOfLayout
  <2> QED BY <1>2, <1>3, <1>4, <1>5, <2>4, <2>5, <2>6, <2>7 DEF HandsOn
<1>8. CASE ~ (waits \/ t.view = Head(url'))
  <2>1. Mounted(Head(url'), t)
    BY <1>8 DEF Navigate
  <2>2. TabTypes(Tab') /\ OfToken(Tab', ow, st) /\ HandsOn(t) /\ view' = Head(url') /\ DialogOfLayout'
    BY <2>1, MountKeeps
  <2>3. GuardedHaveToken'
    BY <1>3, <1>4, <1>5, <1>8, <2>2 DEF GuardedHaveToken, HandsOn, Guarded, AdminPages, Settings
  <2>4. nav' = NoPage => view' \notin AdminPages
    BY <1>1, <1>3, <1>4, <1>8, <2>2 DEF AdminPages, Guarded, NoPage
  <2> QED BY <1>2, <1>3, <1>4, <1>5, <2>2, <2>3, <2>4 DEF HandsOn
<1> QED BY <1>7, <1>8

-----------------------------------------------------------------------------
(* What a step needs of the tab it hands on. *)
LoginsLeadElsewhere(t) == odd \/ \A r \in t.requests : r.kind = "login" => Elsewhere(r.to)

Fit(t) == TabTypes(t) /\ OfToken(t, owners', stale') /\ LoginsLeadElsewhere(t)

(* A step changes no cookie but that of the token, and that one with the   *)
(* token. *)
TokenKept == cookies'.token = cookies.token /\ lapsed' = lapsed /\ auth'.token = auth.token
TokenStored == cookies'.token = auth'.token /\ lapsed' = lapsed \ {"token"}

CookieFollows ==
  /\ DOMAIN cookies' = Names
  /\ \A n \in Preferences : cookies'[n] = cookies[n]
  /\ TokenKept \/ TokenStored

LEMMA TokenWritten ==
  ASSUME SessionTypes, NEW vs, DOMAIN vs = {"token"}, vs["token"] = auth'.token, SetCookies(vs)
  PROVE  CookieFollows
<1>1. /\ cookies' = [n \in Names |-> IF n \in DOMAIN vs THEN vs[n] ELSE cookies[n]]
      /\ lapsed' = lapsed \ {"token"}
  BY DEF SetCookies, Updated, SessionTypes
<1>2. "token" \in Names /\ "token" \notin Preferences /\ Preferences \subseteq Names
  BY DEF Names, Preferences
<1> QED BY <1>1, <1>2 DEF CookieFollows, TokenStored

LEMMA NoCookieWritten ==
  ASSUME SessionTypes, UNCHANGED <<cookies, lapsed>>, auth'.token = auth.token
  PROVE  CookieFollows
BY DEF SessionTypes, CookieFollows, TokenKept

LEMMA ArrivalInv ==
  ASSUME SessionTypes, owners' \in Seq(Somebody),
         DOMAIN cookies' = Names, cookies'.token \in {cookies.token, auth'.token},
         NEW location \in Locations, NEW t, Fit(t), Navigate(location, t),
         odd \/ \A i \in DOMAIN location : location[i] = "sign-in" => i = 1
  PROVE  SessionInv'
<1>1. /\ TabTypes(Tab') /\ OfToken(Tab', owners', stale') /\ HandsOn(t)
      /\ url' = location \/ (Head(location) \in Guarded /\ url' = <<"sign-in">> \o location)
      /\ url' \in Locations
      /\ nav' \in AdminPages \union {NoPage}
      /\ odd' \in BOOLEAN
      /\ odd' = (odd \/ (auth'.token # NoSession /\ url'[1] = "sign-in"))
      /\ GuardedHaveToken' /\ DialogOfLayout'
      /\ nav' = NoPage => view' \notin AdminPages
  <2>1. TabTypes(t) /\ OfToken(t, owners', stale') /\ odd \in BOOLEAN
    BY DEF Fit, SessionTypes
  <2> HIDE DEF TabTypes, OfToken
  <2> QED BY <2>1, NavigationKeeps
<1>2. SessionTypes'
  <2>1. cookies'.token \in Nat
    BY <1>1 DEF SessionTypes, TabTypes, Sessions, Tab
  <2> QED BY <1>1, <2>1 DEF SessionTypes, TabTypes, Tab, Sessions, Queries
<1>3. AdminPageByAdmin'
  BY <1>1 DEF AdminPageByAdmin
<1>4. SignInOnce'
  <2> SUFFICES ASSUME ~ odd' PROVE SignInOnce'
    BY DEF SignInOnce
  <2>1. /\ ~ odd /\ (auth'.token # NoSession => url'[1] # "sign-in")
        /\ \A i \in DOMAIN location : location[i] = "sign-in" => i = 1
    BY <1>1
  <2>2. \A i \in DOMAIN url' : url'[i] = "sign-in" => i = 1
    <3>1. CASE url' = location
      BY <2>1, <3>1
    <3>2. CASE Head(location) \in Guarded /\ url' = <<"sign-in">> \o location
      <4>1. \A i \in DOMAIN location : location[i] # "sign-in"
        BY <2>1, <3>2, LocationHead DEF Guarded, AdminPages, Settings
      <4> QED BY <3>2, <4>1, SignInFirst
    <3> QED BY <1>1, <3>1, <3>2
  <2>3. \A r \in requests' : r.kind = "login" => Elsewhere(r.to)
    BY <1>1, <2>1 DEF Fit, LoginsLeadElsewhere, HandsOn
  <2> QED BY <2>1, <2>2, <2>3 DEF SignInOnce
<1> QED BY <1>1, <1>2, <1>3, <1>4 DEF SessionInv

LEMMA NavigationInv ==
  ASSUME SessionTypes, owners' \in Seq(Somebody), CookieFollows,
         NEW location \in Locations, NEW t, Fit(t), Navigate(location, t),
         odd \/ \A i \in DOMAIN location : location[i] = "sign-in" => i = 1
  PROVE  SessionInv'
BY ArrivalInv DEF CookieFollows, TokenKept, TokenStored

(* An answer, or a request, that moves nobody. *)
LEMMA StayingInv ==
  ASSUME SessionInv, CookieFollows, NEW t, Fit(t), t.auth.token = auth.token,
         auth' = t.auth, me' = t.me, requests' = t.requests,
         UNCHANGED <<owners, stale, url, view, nav, dialog, odd>>
  PROVE  SessionInv'
<1>1. SessionTypes'
  <2>1. cookies'.token \in Nat
    BY DEF CookieFollows, TokenKept, TokenStored, SessionInv, SessionTypes
  <2> QED BY <2>1 DEF SessionInv, SessionTypes, Fit, TabTypes, Sessions, Queries, CookieFollows
<1>2. GuardedHaveToken' /\ DialogOfLayout' /\ AdminPageByAdmin'
  BY DEF SessionInv, GuardedHaveToken, DialogOfLayout, AdminPageByAdmin
<1>3. OfToken(Tab', owners', stale')
  BY DEF Fit, OfToken, Tab
<1>4. SignInOnce'
  BY DEF SessionInv, SignInOnce, Fit, LoginsLeadElsewhere
<1> QED BY <1>1, <1>2, <1>3, <1>4 DEF SessionInv

(* A guard, or a failure, that mounts a page at once. *)
LEMMA MountingInv ==
  ASSUME SessionInv, CookieFollows, NEW p, NEW t, Fit(t), t.auth.token = auth.token,
         Mounted(p, t), nav' = NoPage, UNCHANGED <<owners, stale, url, odd>>,
         p \in Guarded => auth.token # NoSession,
         p \in AdminPages => owners[auth.token] \in Admins \/ auth.token \in stale
  PROVE  SessionInv'
<1>1. TabTypes(Tab') /\ OfToken(Tab', owners', stale') /\ HandsOn(t) /\ view' = p /\ DialogOfLayout'
  BY MountKeeps DEF Fit
<1>2. SessionTypes'
  <2>1. cookies'.token \in Nat
    BY <1>1 DEF CookieFollows, TokenKept, TokenStored, SessionInv, SessionTypes, HandsOn
  <2> QED BY <1>1, <2>1 DEF SessionInv, SessionTypes, TabTypes, Tab, Sessions, Queries, CookieFollows
<1>3. GuardedHaveToken' /\ AdminPageByAdmin'
  BY <1>1 DEF GuardedHaveToken, AdminPageByAdmin, HandsOn, AdminPages, Guarded
<1>4. SignInOnce'
  BY <1>1 DEF SessionInv, SignInOnce, Fit, LoginsLeadElsewhere, HandsOn
<1> QED BY <1>1, <1>2, <1>3, <1>4 DEF SessionInv

-----------------------------------------------------------------------------
(* The steps of the session. *)
LEMMA SinglePage ==
  ASSUME NEW p \in Pages
  PROVE  <<p>> \in Locations /\ Head(<<p>>) = p /\ \A i \in DOMAIN <<p>> : i = 1
<1>1. <<p>> \in Seq(Pages) /\ Len(<<p>>) = 1 /\ <<p>> # <<>> /\ Head(<<p>>) = p
  OBVIOUS
<1>2. DOMAIN <<p>> = 1..1
  BY <1>1, LenProperties
<1> QED BY <1>1, <1>2 DEF Locations

(* The tab as it is, with requests answered, and signed in or not. *)
LEMMA FitTab ==
  ASSUME SessionInv, UNCHANGED <<owners, stale>>, NEW t,
         t.requests \subseteq requests, t.auth \in {auth, NoAuth},
         t.me \in Queries, t.me.data = me.data, t.me.session \in {me.session, NotAsking}
  PROVE  Fit(t)
<1>1. TabTypes(t)
  BY DEF SessionInv, SessionTypes, TabTypes, Sessions, NoAuth, Somebody, NoSession
<1>2. OfToken(t, owners', stale')
  BY DEF SessionInv, OfToken, Tab, NoAuth
<1>3. LoginsLeadElsewhere(t)
  BY DEF SessionInv, SignInOnce, LoginsLeadElsewhere
<1> QED BY <1>1, <1>2, <1>3 DEF Fit

LEMMA FitNow ==
  ASSUME SessionInv, UNCHANGED <<owners, stale>>
  PROVE  /\ Fit(Tab) /\ Tab.auth = auth
         /\ \A r : Fit(Without(r)) /\ Without(r).auth = auth
<1>1. me \in Queries
  BY DEF SessionInv, SessionTypes, Queries
<1>2. Tab.auth = auth /\ Tab.me = me /\ Tab.requests = requests
  BY DEF Tab
<1>3. ASSUME NEW r
      PROVE  Without(r).auth = auth /\ Without(r).me = me /\ Without(r).requests \subseteq requests
  BY DEF Without, Tab
<1> QED BY <1>1, <1>2, <1>3, FitTab

LEMMA NavigationToken ==
  ASSUME SessionInv, NEW location \in Locations, NEW t, Fit(t), Navigate(location, t)
  PROVE  auth'.token = t.auth.token
BY NavigationKeeps DEF Fit, SessionInv, SessionTypes, HandsOn

LEMMA FollowInv ==
  ASSUME SessionInv, NEW p \in Pages, Follow(p)
  PROVE  SessionInv' /\ CookieFollows
<1>1. Navigate(<<p>>, Tab) /\ UNCHANGED <<cookies, lapsed, owners, stale>>
  BY DEF Follow
<1>2. Fit(Tab) /\ Tab.auth = auth /\ <<p>> \in Locations
  BY <1>1, FitNow, SinglePage
<1>3. auth'.token = auth.token
  BY <1>1, <1>2, NavigationToken
<1>4. CookieFollows
  BY <1>1, <1>3, NoCookieWritten DEF SessionInv
<1>5. owners' \in Seq(Somebody) /\ SessionTypes
  BY <1>1 DEF SessionInv, SessionTypes
<1> QED BY <1>1, <1>2, <1>4, <1>5, NavigationInv, SinglePage

LEMMA PreloadInv ==
  ASSUME SessionInv, NEW p, Preload(p)
  PROVE  SessionInv' /\ CookieFollows
<1>1. /\ auth.token # NoSession /\ me' = [Asking(me, auth.token) EXCEPT !.guard = TRUE]
      /\ UNCHANGED <<cookies, lapsed, owners, stale, auth, requests, url, view, nav, dialog, odd>>
  BY DEF Preload
<1>2. me \in Queries /\ auth \in Sessions /\ auth.token \in Nat
  BY DEF SessionInv, SessionTypes, Queries, Sessions
<1>3. PICK q \in Queries : q = Asking(me, auth.token) /\ q.data = me.data
                           /\ q.session \in {me.session, auth.token}
  BY <1>2, AskingIsTyped
<1>4. me' \in Queries /\ me'.data = me.data /\ me'.session \in {me.session, auth.token}
  BY <1>1, <1>3 DEF Queries
<1> DEFINE t == [view |-> view, auth |-> auth, me |-> me', requests |-> requests]
<1>5. t.auth = auth /\ t.me = me' /\ t.requests = requests
  OBVIOUS
<1> HIDE DEF t
<1>6. TabTypes(t)
  BY <1>2, <1>4, <1>5 DEF TabTypes, SessionInv, SessionTypes
<1>7. OfToken(t, owners', stale')
  BY <1>1, <1>4, <1>5 DEF SessionInv, OfToken, Tab
<1>8. Fit(t)
  BY <1>5, <1>6, <1>7 DEF Fit, SessionInv, SignInOnce, LoginsLeadElsewhere
<1>9. CookieFollows
  BY <1>1, NoCookieWritten DEF SessionInv
<1> QED BY <1>1, <1>5, <1>8, <1>9, StayingInv

LEMMA SendInv ==
  ASSUME SessionInv, NEW kind, NEW who \in Somebody, Send(kind, who),
         kind = "profile" => who = me.data /\ who # Nobody
  PROVE  SessionInv' /\ CookieFollows
<1> DEFINE r == [kind |-> kind, who |-> who, to |-> Destination,
                 session |-> auth.token, mount |-> mount]
           t == [view |-> view, auth |-> auth, me |-> me, requests |-> requests']
<1>1. /\ requests' = requests \union {r} /\ r.kind = kind /\ r.who = who /\ r.to = Destination
      /\ UNCHANGED <<cookies, lapsed, owners, stale, auth, me, url, view, nav, dialog, odd>>
  BY DEF Send
<1>2. t.auth = auth /\ t.me = me /\ t.requests = requests'
  OBVIOUS
<1> HIDE DEF r, t
<1>3. Destination \in Locations /\ (SignInOnce => odd \/ Elsewhere(Destination))
  <2>1. url \in Seq(Pages) /\ Len(url) \in Nat
    BY LenProperties DEF SessionInv, SessionTypes, Locations
  <2>2. CASE Len(url) > 1
    <3>1. Destination = Tail(url) /\ url # <<>>
      BY <2>1, <2>2 DEF Destination
    <3>2. PICK rest \in Seq(Pages) :
            /\ rest = Destination /\ Len(rest) = Len(url) - 1
            /\ \A i \in 1..Len(rest) : rest[i] = url[i + 1]
      BY <2>1, <3>1, HeadTailProperties
    <3>3. rest # <<>> /\ DOMAIN rest = 1..Len(rest) /\ DOMAIN url = 1..Len(url)
      <4>1. Len(rest) # 0
        BY <2>1, <2>2, <3>2
      <4>2. rest # <<>>
        BY <4>1
      <4> QED BY <2>1, <3>2, <4>2, LenProperties
    <3>4. \A i \in DOMAIN rest : i + 1 \in DOMAIN url /\ i + 1 # 1 /\ rest[i] = url[i + 1]
      BY <2>1, <3>2, <3>3
    <3> QED BY <3>1, <3>2, <3>3, <3>4 DEF Locations, Elsewhere, SignInOnce
  <2>3. CASE ~ Len(url) > 1
    <3>1. Destination = <<"dashboard">> /\ "dashboard" \in Pages
      BY <2>3 DEF Destination, Pages, Guarded
    <3>2. <<"dashboard">>[1] = "dashboard"
      OBVIOUS
    <3> QED BY <3>1, <3>2, SinglePage DEF Elsewhere
  <2> QED BY <2>2, <2>3
<1>4. TabTypes(t)
  BY <1>1, <1>2, <1>3 DEF TabTypes, SessionInv, SessionTypes, Sessions, Queries
<1>5. OfToken(t, owners', stale')
  BY <1>1, <1>2 DEF SessionInv, OfToken, Tab
<1>6. Fit(t)
  BY <1>1, <1>2, <1>3, <1>4, <1>5 DEF Fit, SessionInv, SignInOnce, LoginsLeadElsewhere
<1>7. CookieFollows
  BY <1>1, NoCookieWritten DEF SessionInv
<1> QED BY <1>1, <1>2, <1>6, <1>7, StayingInv

(* The session ends: the token is forgotten and the location kept. *)
LEMMA SignedOutInv ==
  ASSUME SessionInv, auth.token # NoSession, UNCHANGED <<owners, stale>>,
         NEW t, Fit(t), t.auth = NoAuth, Reset, Navigate(<<"sign-in">> \o url, t)
  PROVE  SessionInv' /\ CookieFollows
<1>1. url \in Locations /\ SessionTypes /\ owners' \in Seq(Somebody)
  BY DEF SessionInv, SessionTypes
<1>2. <<"sign-in">> \o url \in Locations
  BY <1>1, SignInFirst
<1>3. odd \/ \A i \in DOMAIN (<<"sign-in">> \o url) : (<<"sign-in">> \o url)[i] = "sign-in" => i = 1
  <2>1. odd \/ \A i \in DOMAIN url : url[i] # "sign-in"
    BY DEF SessionInv, SignInOnce
  <2> QED BY <1>1, <2>1, SignInFirst
<1>4. auth'.token = NoSession
  BY <1>2, NavigationToken DEF NoAuth
<1>5. CookieFollows
  <2>1. SetCookies([m \in {"token"} |-> Absent(m)])
    BY DEF Reset, RemoveCookie
  <2>2. PICK vs : vs = [m \in {"token"} |-> Absent(m)]
    OBVIOUS
  <2>3. DOMAIN vs = {"token"} /\ vs["token"] = auth'.token
    BY <1>4, <2>2 DEF Absent, NoSession
  <2> QED BY <1>1, <2>1, <2>2, <2>3, TokenWritten
<1> QED BY <1>1, <1>2, <1>3, <1>5, NavigationInv

LEMMA UnauthorizedInv ==
  ASSUME SessionInv, UNCHANGED <<owners, stale>>, NEW t, Unauthorized(t),
         Fit(t), t.auth = auth, t.me \in Queries, t.me.data = me.data,
         t.me.session \in {me.session, NotAsking}, t.requests \subseteq requests,
         t = [view |-> t.view, auth |-> t.auth, me |-> t.me, requests |-> t.requests]
  PROVE  SessionInv' /\ CookieFollows
<1>1. CASE auth.token = NoSession
  <2>1. /\ me' = t.me /\ requests' = t.requests
        /\ UNCHANGED <<cookies, lapsed, auth, url, view, nav, dialog, odd>>
    BY <1>1 DEF Unauthorized
  <2>2. CookieFollows
    BY <2>1, NoCookieWritten DEF SessionInv
  <2> QED BY <2>1, <2>2, StayingInv
<1>2. CASE auth.token # NoSession
  <2>1. PICK out : out = [t EXCEPT !.auth = NoAuth]
    OBVIOUS
  <2>2. Reset /\ Navigate(<<"sign-in">> \o url, out)
    BY <1>2, <2>1 DEF Unauthorized
  <2>3. out.auth = NoAuth /\ out.me = t.me /\ out.requests = t.requests
    BY <2>1
  <2>4. Fit(out)
    BY <2>3, FitTab
  <2> QED BY <1>2, <2>2, <2>3, <2>4, SignedOutInv
<1> QED BY <1>1, <1>2

LEMMA SignOutInv ==
  ASSUME SessionInv, HandleSignOut
  PROVE  SessionInv' /\ CookieFollows
<1>1. PICK out : out = [Tab EXCEPT !.auth = NoAuth]
  OBVIOUS
<1>2. /\ Reset /\ Navigate(<<"sign-in">> \o url, out) /\ UNCHANGED <<owners, stale>>
      /\ auth.token # NoSession
  BY <1>1 DEF HandleSignOut, SessionInv, DialogOfLayout, GuardedHaveToken
<1>3. out.auth = NoAuth /\ out.me = me /\ out.requests = requests
  BY <1>1 DEF Tab
<1>4. Fit(out)
  BY <1>2, <1>3, FitTab DEF SessionInv, SessionTypes, Queries
<1> QED BY <1>2, <1>3, <1>4, SignedOutInv

(* A login: the session is new, and what is known is about its user. *)
LEMMA LoggedInInv ==
  ASSUME SessionInv, NEW r \in requests, r.kind = "login", LoggedIn(r)
  PROVE  SessionInv' /\ CookieFollows
<1> DEFINE new == Len(owners) + 1
<1>1. owners \in Seq(Somebody) /\ r.who \in Somebody /\ r.to \in Locations /\ me \in Queries /\ SessionTypes
  BY DEF SessionInv, SessionTypes, Queries
<1>2. owners' = Append(owners, r.who)
  BY DEF LoggedIn
<1>3. /\ owners' \in Seq(Somebody) /\ Len(owners') = new /\ new \in Nat \ {0}
      /\ owners'[new] = r.who
  BY <1>1, <1>2
<1> HIDE DEF new
<1>4. PICK t : t = [Without(r) EXCEPT !.auth = [user |-> r.who, token |-> new], !.me.data = r.who]
  OBVIOUS
<1>5. /\ SetCookies([token |-> new]) /\ Navigate(r.to, t)
      /\ stale' = stale \union (IF me.session # NotAsking \/ \E q \in requests : q.kind = "profile"
                                THEN {new} ELSE {})
  BY <1>3, <1>4 DEF LoggedIn
<1>6. /\ t.auth = [user |-> r.who, token |-> new] /\ t.requests \subseteq requests
      /\ t.me = [me EXCEPT !.data = r.who]
  BY <1>4 DEF Without, Tab
<1>7. t.me \in Queries /\ t.me.data = r.who /\ t.me.session = me.session
  BY <1>1, <1>6 DEF Queries
<1>8. TabTypes(t)
  BY <1>1, <1>3, <1>6, <1>7 DEF TabTypes, Sessions, SessionTypes
<1>9. OfToken(t, owners', stale')
  BY <1>3, <1>5, <1>6, <1>7 DEF OfToken
<1>10. Fit(t)
  BY <1>6, <1>8, <1>9 DEF Fit, LoginsLeadElsewhere, SessionInv, SignInOnce
<1>11. auth'.token = new
  BY <1>1, <1>5, <1>6, <1>10, NavigationToken
<1>12. CookieFollows
  <2>1. DOMAIN [token |-> new] = {"token"} /\ [token |-> new]["token"] = auth'.token
    BY <1>11
  <2> QED BY <1>1, <1>5, <2>1, TokenWritten
<1>13. odd \/ \A i \in DOMAIN r.to : r.to[i] = "sign-in" => i = 1
  BY DEF SessionInv, SignInOnce, Elsewhere
<1> QED BY <1>1, <1>3, <1>5, <1>10, <1>12, <1>13, NavigationInv

LEMMA WithoutIsTab ==
  \A r : Without(r) = [view |-> view, auth |-> auth, me |-> me, requests |-> requests \ {r}]
BY DEF Without, Tab

LEMMA AnswerInv ==
  ASSUME SessionInv, NEW r \in requests, Answer(r)
  PROVE  SessionInv' /\ CookieFollows
<1>1. me \in Queries /\ SessionTypes
  BY DEF SessionInv, SessionTypes, Queries
<1>2. CASE UNCHANGED <<owners, stale>> /\ Unauthorized(Without(r))
  <2>1. PICK t : t = Without(r)
    OBVIOUS
  <2>2. t = [view |-> view, auth |-> auth, me |-> me, requests |-> requests \ {r}]
    BY <2>1, WithoutIsTab
  <2>3. Fit(t) /\ t.auth = auth /\ Unauthorized(t)
    BY <1>2, <2>1, FitNow
  <2>4. /\ t.me \in Queries /\ t.me.data = me.data
        /\ t.me.session \in {me.session, NotAsking}
        /\ t.requests \subseteq requests
        /\ t = [view |-> t.view, auth |-> t.auth, me |-> t.me, requests |-> t.requests]
    BY <1>1, <2>2
  <2> QED BY <1>2, <2>3, <2>4, UnauthorizedInv
<1>3. CASE UNCHANGED <<owners, stale>> /\ Ends(Without(r))
  <2>1. /\ auth' = Without(r).auth /\ me' = Without(r).me /\ requests' = Without(r).requests
        /\ UNCHANGED <<cookies, lapsed, url, view, nav, dialog, odd>>
    BY <1>3 DEF Ends
  <2>2. Fit(Without(r)) /\ Without(r).auth = auth
    BY <1>3, FitNow
  <2>3. CookieFollows
    BY <1>1, <2>1, <2>2, NoCookieWritten
  <2> QED BY <1>3, <2>1, <2>2, <2>3, StayingInv
<1>4. ASSUME NEW p \in {"sign-in", "500"}, Navigate(<<p>>, Without(r)),
             UNCHANGED <<cookies, lapsed, owners, stale>>
      PROVE  SessionInv' /\ CookieFollows
  <2>1. p \in Pages
    BY DEF Pages
  <2>2. <<p>> \in Locations /\ \A i \in DOMAIN <<p>> : i = 1
    BY <2>1, SinglePage
  <2>3. Fit(Without(r)) /\ Without(r).auth = auth
    BY <1>4, FitNow
  <2>4. CookieFollows
    BY <1>1, <1>4, <2>2, <2>3, NavigationToken, NoCookieWritten
  <2>5. owners' \in Seq(Somebody)
    BY <1>1, <1>4 DEF SessionTypes
  <2> QED BY <1>1, <1>4, <2>2, <2>3, <2>4, <2>5, NavigationInv
<1>5. CASE r.kind = "profile" /\ ProfileSaved(r)
  <2>1. PICK t : t = [Without(r) EXCEPT !.me.data = r.who, !.auth.user = r.who]
    OBVIOUS
  <2>2. Ends(t) /\ UNCHANGED <<owners, stale>>
    BY <1>5, <2>1 DEF ProfileSaved
  <2>3. /\ t.requests = requests \ {r} /\ t.me = [me EXCEPT !.data = r.who]
        /\ t.auth = [auth EXCEPT !.user = r.who]
    BY <2>1, WithoutIsTab
  <2>4. auth \in Sessions /\ r.who \in Somebody
    BY <1>1 DEF SessionTypes, Sessions
  <2>5. /\ t.me \in Queries /\ t.me.data = r.who /\ t.me.session = me.session
        /\ t.auth \in Sessions /\ t.auth.user = r.who /\ t.auth.token = auth.token
    BY <1>1, <2>3, <2>4 DEF Queries, Sessions
  <2>6. TabTypes(t)
    BY <1>1, <2>3, <2>5 DEF TabTypes, SessionTypes
  <2>7. OfToken(t, owners', stale')
    BY <1>5, <2>2, <2>3, <2>5 DEF SessionInv, OfToken, Tab
  <2>8. Fit(t)
    BY <2>3, <2>6, <2>7 DEF Fit, LoginsLeadElsewhere, SessionInv, SignInOnce
  <2>9. /\ auth' = t.auth /\ me' = t.me /\ requests' = t.requests
        /\ UNCHANGED <<cookies, lapsed, url, view, nav, dialog, odd>>
    BY <2>2 DEF Ends
  <2>10. CookieFollows
    BY <1>1, <2>5, <2>9, NoCookieWritten
  <2> QED BY <2>2, <2>5, <2>8, <2>9, <2>10, StayingInv
<1>6. CASE Registered(r)
  BY <1>4, <1>6 DEF Registered
<1>7. CASE Fails(r)
  BY <1>3, <1>4, <1>7 DEF Fails
<1> QED BY <1>2, <1>3, <1>5, <1>6, <1>7, LoggedInInv DEF Answer, Denied, LoginRefused, Done

(* The answer for the current user, or the lack of one. *)
LEMMA ProfileFetchedInv ==
  ASSUME SessionInv, ProfileFetched
  PROVE  SessionInv' /\ CookieFollows
<1> DEFINE who == owners[me.session]
<1>1. PICK t : t = [Tab EXCEPT !.me = [NoQuery EXCEPT !.data = who],
                               !.auth.user = IF view \in Guarded \/ me.guard THEN who ELSE @]
  OBVIOUS
<1>2. /\ me.session \in DOMAIN owners \ expired /\ UNCHANGED <<owners, stale>>
      /\ IF nav = NoPage THEN Ends(t) ELSE Decide(t) /\ UNCHANGED <<cookies, lapsed>>
  BY <1>1 DEF ProfileFetched
<1>3. /\ owners \in Seq(Somebody) /\ auth \in Sessions /\ auth.token \in Nat /\ me \in Queries
      /\ nav \in AdminPages \union {NoPage} /\ SessionTypes
  BY DEF SessionInv, SessionTypes, Sessions, Queries
<1>4. who \in Somebody /\ me.session # NotAsking
  <2>1. DOMAIN owners = 1..Len(owners)
    BY <1>3, LenProperties
  <2>2. me.session \in 1..Len(owners)
    BY <1>2, <2>1
  <2> QED BY <1>3, <2>2, ElementOfSeq DEF NotAsking
<1>5. /\ t.me = [NoQuery EXCEPT !.data = who] /\ t.requests = requests
      /\ t.auth = [auth EXCEPT !.user = IF view \in Guarded \/ me.guard THEN who ELSE @]
  BY <1>1 DEF Tab
<1> HIDE DEF who
<1>6. t.me \in Queries /\ t.me.data = who /\ t.me.session = NotAsking
  BY <1>4, <1>5 DEF NoQuery, Queries, Somebody
<1>7. t.auth \in Sessions /\ t.auth.token = auth.token /\ t.auth.user \in {auth.user, who}
  BY <1>3, <1>4, <1>5 DEF Sessions
<1>8. auth.token # NoSession /\ auth.token \notin stale => who = owners[auth.token]
  BY <1>4 DEF SessionInv, OfToken, Tab, who
<1>9. TabTypes(t)
  BY <1>5, <1>6, <1>7 DEF TabTypes, SessionInv, SessionTypes
<1>10. OfToken(t, owners', stale')
  BY <1>2, <1>5, <1>6, <1>7, <1>8 DEF SessionInv, OfToken, Tab
<1>11. Fit(t)
  BY <1>5, <1>9, <1>10 DEF Fit, LoginsLeadElsewhere, SessionInv, SignInOnce
<1>12. CASE nav = NoPage
  <2>1. /\ auth' = t.auth /\ me' = t.me /\ requests' = t.requests
        /\ UNCHANGED <<cookies, lapsed, url, view, nav, dialog, odd>>
    BY <1>2, <1>12 DEF Ends
  <2>2. CookieFollows
    BY <1>3, <1>7, <2>1, NoCookieWritten
  <2> QED BY <1>2, <1>7, <1>11, <2>1, <2>2, StayingInv
<1>13. CASE nav # NoPage
  <2>1. Decide(t) /\ UNCHANGED <<cookies, lapsed>> /\ auth.token # NoSession
    BY <1>2, <1>13 DEF SessionInv, GuardedHaveToken
  <2>2. CASE IsAdminUser(who)
    <3>1. Mounted(nav, t) /\ nav' = NoPage /\ UNCHANGED <<url, odd>>
      BY <1>6, <2>1, <2>2 DEF Decide
    <3>2. auth'.token = auth.token
      BY <1>7, <1>9, <1>10, <3>1, MountKeeps DEF HandsOn
    <3>3. CookieFollows
      BY <1>3, <2>1, <3>2, NoCookieWritten
    <3>4. owners[auth.token] \in Admins \/ auth.token \in stale
      BY <1>8, <2>1, <2>2 DEF IsAdminUser
    <3> QED BY <1>2, <1>7, <1>11, <2>1, <3>1, <3>3, <3>4, MountingInv
  <2>3. CASE ~ IsAdminUser(who)
    <3>1. Navigate(<<"403">>, t) /\ "403" \in Pages
      BY <1>6, <2>1, <2>3 DEF Decide, Pages
    <3>2. <<"403">> \in Locations /\ \A i \in DOMAIN <<"403">> : i = 1
      BY <3>1, SinglePage
    <3>3. auth'.token = auth.token
      BY <1>7, <1>11, <3>1, <3>2, NavigationToken
    <3>4. CookieFollows /\ owners' \in Seq(Somebody)
      BY <1>2, <1>3, <2>1, <3>3, NoCookieWritten
    <3> QED BY <1>3, <1>11, <3>1, <3>2, <3>4, NavigationInv
  <2> QED BY <2>2, <2>3
<1> QED BY <1>12, <1>13

LEMMA ProfileLostInv ==
  ASSUME SessionInv, ProfileDenied \/ ProfileFails
  PROVE  SessionInv' /\ CookieFollows
<1>1. PICK t : t = [Tab EXCEPT !.me = [NoQuery EXCEPT !.data = me.data]]
  OBVIOUS
<1>2. t = [view |-> view, auth |-> auth, me |-> [NoQuery EXCEPT !.data = me.data], requests |-> requests]
  BY <1>1 DEF Tab
<1>3. UNCHANGED <<owners, stale>> /\ owners' \in Seq(Somebody) /\ me \in Queries /\ SessionTypes
  BY DEF ProfileDenied, ProfileFails, SessionInv, SessionTypes, Queries
<1>4. /\ t.auth = auth /\ t.requests = requests /\ t.me = [NoQuery EXCEPT !.data = me.data]
      /\ t = [view |-> t.view, auth |-> t.auth, me |-> t.me, requests |-> t.requests]
  BY <1>2
<1>5. t.me \in Queries /\ t.me.data = me.data /\ t.me.session = NotAsking
  BY <1>3, <1>4 DEF NoQuery, Queries
<1>6. Fit(t)
  BY <1>3, <1>4, <1>5, FitTab
<1>7. CASE Unauthorized(t)
  BY <1>3, <1>4, <1>5, <1>6, <1>7, UnauthorizedInv
<1>8. CASE Ends(t)
  <2>1. /\ auth' = t.auth /\ me' = t.me /\ requests' = t.requests
        /\ UNCHANGED <<cookies, lapsed, url, view, nav, dialog, odd>>
    BY <1>8 DEF Ends
  <2>2. CookieFollows
    BY <1>3, <1>4, <2>1, NoCookieWritten
  <2> QED BY <1>3, <1>4, <1>6, <2>1, <2>2, StayingInv
<1>9. CASE nav' = NoPage /\ Mounted("error", t) /\ UNCHANGED <<cookies, lapsed, url, odd>>
  <2>1. auth'.token = auth.token
    BY <1>4, <1>6, <1>9, MountKeeps DEF Fit, HandsOn
  <2>2. CookieFollows
    BY <1>3, <1>9, <2>1, NoCookieWritten
  <2>3. "error" \notin Guarded /\ "error" \notin AdminPages
    BY DEF Guarded, AdminPages, Settings
  <2> QED BY <1>3, <1>4, <1>6, <1>9, <2>2, <2>3, MountingInv
<1>10. CASE Navigate(<<"500">>, t) /\ UNCHANGED <<cookies, lapsed>>
  <2>1. "500" \in Pages
    BY DEF Pages
  <2>2. <<"500">> \in Locations /\ \A i \in DOMAIN <<"500">> : i = 1
    BY <2>1, SinglePage
  <2>3. auth'.token = auth.token
    BY <1>4, <1>6, <1>10, <2>2, NavigationToken
  <2>4. CookieFollows
    BY <1>3, <1>10, <2>3, NoCookieWritten
  <2> QED BY <1>3, <1>6, <1>10, <2>2, <2>4, NavigationInv
<1> QED BY <1>1, <1>7, <1>8, <1>9, <1>10 DEF ProfileDenied, ProfileFails

(* The forms, the dialog and the server's clock. *)
LEMMA FormsInv ==
  ASSUME SessionInv, SessionForms \/ Expire
  PROVE  SessionInv' /\ CookieFollows
<1>1. CASE \E who \in Users, name \in {2, 3}, password \in {5, 6} : SignIn(who, name, password)
  <2>1. PICK who \in Users : Send("login", who)
    BY <1>1 DEF SignIn
  <2> QED BY <2>1, SendInv DEF Somebody
<1>2. CASE \E name \in {2, 3}, password, confirmed \in {5, 6} : SignUp(name, password, confirmed)
  <2>1. Send("register", Nobody)
    BY <1>2 DEF SignUp
  <2> QED BY <2>1, SendInv DEF Somebody
<1>3. CASE \E nickname \in 0..1 : SaveProfile(nickname)
  <2>1. Send("profile", me.data) /\ me.data # Nobody
    BY <1>3 DEF SaveProfile
  <2>2. me.data \in Somebody
    BY DEF SessionInv, SessionTypes
  <2> QED BY <2>1, <2>2, SendInv
<1>4. CASE \E old \in 6..7, new, confirmed \in 5..6 : ChangePassword(old, new, confirmed)
  <2>1. Send("password", Nobody)
    BY <1>4 DEF ChangePassword
  <2> QED BY <2>1, SendInv DEF Somebody
<1>5. CASE AskSignOut \/ CancelSignOut \/ Expire
  <2>1. /\ UNCHANGED <<cookies, lapsed, owners, auth, me, requests, url, view, nav, stale, odd>>
        /\ dialog' => dialog \/ view \in Guarded
    BY <1>5 DEF AskSignOut, CancelSignOut, Expire, cookieVars
  <2>2. SessionTypes' /\ GuardedHaveToken' /\ DialogOfLayout'
    BY <2>1 DEF SessionInv, SessionTypes, GuardedHaveToken, DialogOfLayout
  <2>3. OfToken(Tab', owners', stale') /\ AdminPageByAdmin' /\ SignInOnce'
    BY <2>1 DEF SessionInv, OfToken, Tab, AdminPageByAdmin, SignInOnce
  <2>4. CookieFollows
    BY <2>1, NoCookieWritten DEF SessionInv
  <2> QED BY <2>2, <2>3, <2>4 DEF SessionInv
<1>6. CASE HandleSignOut
  BY <1>6, SignOutInv
<1> QED BY <1>1, <1>2, <1>3, <1>4, <1>5, <1>6 DEF SessionForms

(* A page load knows nothing but the token in the cookie. *)
LEMMA LoadInv ==
  ASSUME SessionInv, NEW location, location = url \/ \E p \in Pages : location = <<p>>,
         LoadSession(location), UNCHANGED cookies
  PROVE  SessionInv' /\ auth'.token = cookies'.token
<1>1. PICK t : t = [view |-> "loading", auth |-> [user |-> Nobody, token |-> cookies.token],
                    me |-> NoQuery, requests |-> {}]
  OBVIOUS
<1>2. Navigate(location, t) /\ UNCHANGED <<owners, stale>>
  BY <1>1 DEF LoadSession
<1>3. SessionTypes /\ owners' \in Seq(Somebody)
  BY <1>2 DEF SessionInv, SessionTypes
<1>4. location \in Locations /\ (odd \/ \A i \in DOMAIN location : location[i] = "sign-in" => i = 1)
  BY <1>3, SinglePage DEF SessionInv, SessionTypes, SignInOnce
<1>5. /\ t.auth.user = Nobody /\ t.auth.token = cookies.token /\ t.auth \in Sessions
      /\ t.me = NoQuery /\ NoQuery \in Queries /\ t.requests = {}
  BY <1>1, <1>3 DEF SessionTypes, Sessions, Queries, NoQuery, Somebody
<1>6. TabTypes(t) /\ OfToken(t, owners', stale')
  BY <1>5 DEF TabTypes, OfToken, NoQuery
<1>7. Fit(t)
  BY <1>5, <1>6 DEF Fit, LoginsLeadElsewhere
<1>8. auth'.token = cookies.token
  BY <1>2, <1>4, <1>5, <1>7, NavigationToken
<1>9. DOMAIN cookies' = Names /\ cookies'.token = cookies.token
  BY <1>3 DEF SessionTypes
<1> QED BY <1>2, <1>3, <1>4, <1>7, <1>8, <1>9, ArrivalInv

-----------------------------------------------------------------------------
(* What is stored and what is shown.  Settings with a cookie are those of  *)
(* the document and three of the layout. *)
LayoutSettings == DOMAIN DefaultLayout

LookTypes ==
  /\ DOMAIN prefs = DOMAIN Default
  /\ DOMAIN layout = LayoutSettings \union {"openMobile", "search"}

TokenIsStored == "token" \notin lapsed => auth.token = cookies.token

PrefsAreStored ==
  \A n \in DOMAIN Default : n \in lapsed \/ prefs[n] = GetCookie(n, Default[n])

LayoutIsStored ==
  \A n \in LayoutSettings : n \in lapsed \/ layout[n] = GetCookie(n, DefaultLayout[n])

LookInv ==
  /\ LookTypes
  /\ TokenIsStored
  /\ PrefsAreStored
  /\ view \in Guarded => LayoutIsStored
  /\ ThemeApplied

LEMMA SettingsAre ==
  /\ DOMAIN Default = {"theme", "font", "dir"}
  /\ LayoutSettings = {"variant", "collapsible", "sidebar"}
  /\ DOMAIN Default \subseteq Preferences /\ LayoutSettings \subseteq Preferences
  /\ Names = Preferences \union {"token"} /\ "token" \notin Preferences
BY DEF Default, DefaultLayout, LayoutSettings, Preferences, Names

LEMMA FreshOnes ==
  /\ DOMAIN FreshPrefs = DOMAIN Default
  /\ \A n \in DOMAIN Default : FreshPrefs[n] = GetCookie(n, Default[n])
  /\ DOMAIN FreshLayout = LayoutSettings \union {"openMobile", "search"}
  /\ \A n \in LayoutSettings : FreshLayout[n] = GetCookie(n, DefaultLayout[n])
<1>1. DOMAIN FreshPrefs = DOMAIN Default /\ \A n \in DOMAIN Default : FreshPrefs[n] = GetCookie(n, Default[n])
  BY DEF FreshPrefs
<1>2. DOMAIN FreshLayout = LayoutSettings \union {"openMobile", "search"}
  BY SettingsAre DEF FreshLayout
<1>3. /\ FreshLayout["variant"] = GetCookie("variant", DefaultLayout["variant"])
      /\ FreshLayout["collapsible"] = GetCookie("collapsible", DefaultLayout["collapsible"])
      /\ FreshLayout["sidebar"] = GetCookie("sidebar", DefaultLayout["sidebar"])
  BY DEF FreshLayout
<1> QED BY <1>1, <1>2, <1>3, SettingsAre

LEMMA LookInvGives ==
  ASSUME LookInv
  PROVE  SurvivesReload /\ ThemeApplied
BY FreshOnes, SettingsAre DEF LookInv, LookTypes, TokenIsStored, PrefsAreStored, LayoutIsStored, SurvivesReload

(* What a cookie is after vs was written. *)
LEMMA Written ==
  ASSUME DOMAIN cookies = Names, NEW vs, SetCookies(vs), DOMAIN vs \subseteq Preferences
  PROVE  /\ DOMAIN cookies' = Names /\ cookies'.token = cookies.token
         /\ \A n \in Preferences : cookies'[n] = IF n \in DOMAIN vs THEN vs[n] ELSE cookies[n]
         /\ lapsed' = lapsed \ DOMAIN vs
<1>1. /\ cookies' = [n \in Names |-> IF n \in DOMAIN vs THEN vs[n] ELSE cookies[n]]
      /\ lapsed' = lapsed \ DOMAIN vs
  BY DEF SetCookies, Updated
<1> QED BY <1>1, SettingsAre

LEMMA SessionUntouched ==
  ASSUME SessionInv, UNCHANGED sessionVars, DOMAIN cookies' = Names, cookies'.token \in Nat
  PROVE  SessionInv'
<1>1. UNCHANGED <<owners, auth, me, requests, url, view, nav, dialog, stale, odd>>
  BY DEF sessionVars
<1>2. SessionTypes' /\ GuardedHaveToken' /\ DialogOfLayout'
  BY <1>1 DEF SessionInv, SessionTypes, GuardedHaveToken, DialogOfLayout
<1>3. OfToken(Tab', owners', stale') /\ AdminPageByAdmin' /\ SignInOnce'
  BY <1>1 DEF SessionInv, OfToken, Tab, AdminPageByAdmin, SignInOnce
<1> QED BY <1>2, <1>3 DEF SessionInv

(* A setting is what was written, or its default if it was emptied. *)
Chosen(vs, n, default) == IF vs[n] = "" THEN default ELSE vs[n]

LEMMA SettingsInv ==
  ASSUME SessionInv, LookInv, UNCHANGED sessionVars, LookTypes', ThemeApplied',
         NEW vs, SetCookies(vs), DOMAIN vs \subseteq Preferences,
         \A n \in DOMAIN Default :
           prefs'[n] = IF n \in DOMAIN vs THEN Chosen(vs, n, Default[n]) ELSE prefs[n],
         \A n \in LayoutSettings :
           layout'[n] = IF n \in DOMAIN vs THEN Chosen(vs, n, DefaultLayout[n]) ELSE layout[n]
  PROVE  SessionInv' /\ LookInv'
<1>1. DOMAIN cookies = Names /\ cookies.token \in Nat
  BY DEF SessionInv, SessionTypes
<1>2. /\ DOMAIN cookies' = Names /\ cookies'.token = cookies.token
      /\ \A n \in Preferences : cookies'[n] = IF n \in DOMAIN vs THEN vs[n] ELSE cookies[n]
      /\ lapsed' = lapsed \ DOMAIN vs
  BY <1>1, Written
<1>3. SessionInv'
  BY <1>1, <1>2, SessionUntouched
<1>4. \A n \in Preferences : Absent(n) = ""
  BY SettingsAre DEF Absent
<1>5. PrefsAreStored'
  <2> SUFFICES ASSUME NEW n \in DOMAIN Default, n \notin lapsed'
               PROVE  prefs'[n] = IF cookies'[n] = "" THEN Default[n] ELSE cookies'[n]
    BY <1>4, SettingsAre DEF PrefsAreStored, GetCookie
  <2>1. n \in Preferences
    BY SettingsAre
  <2>2. CASE n \in DOMAIN vs
    BY <1>2, <2>1, <2>2 DEF Chosen
  <2>3. CASE n \notin DOMAIN vs
    BY <1>2, <1>4, <2>1, <2>3 DEF LookInv, PrefsAreStored, GetCookie
  <2> QED BY <2>2, <2>3
<1>6. LayoutIsStored => LayoutIsStored'
  <2> SUFFICES ASSUME LayoutIsStored, NEW n \in LayoutSettings, n \notin lapsed'
               PROVE  layout'[n] = IF cookies'[n] = "" THEN DefaultLayout[n] ELSE cookies'[n]
    BY <1>4, SettingsAre DEF LayoutIsStored, GetCookie
  <2>1. n \in Preferences
    BY SettingsAre
  <2>2. CASE n \in DOMAIN vs
    BY <1>2, <2>1, <2>2 DEF Chosen
  <2>3. CASE n \notin DOMAIN vs
    BY <1>2, <1>4, <2>1, <2>3 DEF LayoutIsStored, GetCookie
  <2> QED BY <2>2, <2>3
<1>7. TokenIsStored'
  BY <1>2, SettingsAre DEF LookInv, TokenIsStored, sessionVars
<1> QED BY <1>3, <1>5, <1>6, <1>7 DEF LookInv, sessionVars

(* The theme's effect applies it. *)
LEMMA EffectApplies ==
  ASSUME LookInv, ThemeEffect(prefs'.theme), UNCHANGED os
  PROVE  ThemeApplied'
BY DEF LookInv, ThemeEffect, ThemeApplied, Resolved

LEMMA PrefsInv ==
  ASSUME SessionInv, LookInv, UNCHANGED sessionVars,
         NEW vs, SetPrefs(vs), DOMAIN vs \subseteq DOMAIN Default, \A n \in DOMAIN vs : vs[n] # ""
  PROVE  SessionInv' /\ LookInv'
<1>1. /\ SetCookies(vs) /\ prefs' = Updated(prefs, vs)
      /\ ThemeEffect(prefs'.theme) /\ UNCHANGED <<layout, os>>
  BY DEF SetPrefs
<1>2. DOMAIN prefs = DOMAIN Default
  BY DEF LookInv, LookTypes
<1>3. /\ LookTypes'
      /\ \A n \in DOMAIN Default : prefs'[n] = IF n \in DOMAIN vs THEN vs[n] ELSE prefs[n]
  BY <1>1, <1>2 DEF LookInv, LookTypes, Updated
<1>4. \A n \in DOMAIN Default :
        prefs'[n] = IF n \in DOMAIN vs THEN Chosen(vs, n, Default[n]) ELSE prefs[n]
  BY <1>3 DEF Chosen
<1>5. \A n \in LayoutSettings :
        layout'[n] = IF n \in DOMAIN vs THEN Chosen(vs, n, DefaultLayout[n]) ELSE layout[n]
  BY <1>1, SettingsAre
<1>6. DOMAIN vs \subseteq Preferences
  BY SettingsAre
<1>7. ThemeApplied'
  BY <1>1, EffectApplies
<1> QED BY <1>1, <1>3, <1>4, <1>5, <1>6, <1>7, SettingsInv

LEMMA LayoutInv ==
  ASSUME SessionInv, LookInv, UNCHANGED sessionVars,
         NEW vs, SetLayout(vs), DOMAIN vs \subseteq LayoutSettings, \A n \in DOMAIN vs : vs[n] # ""
  PROVE  SessionInv' /\ LookInv'
<1>1. SetCookies(vs) /\ layout' = Updated(layout, vs) /\ UNCHANGED <<prefs, class, os>>
  BY DEF SetLayout
<1>2. /\ LookTypes'
      /\ \A n \in LayoutSettings : layout'[n] = IF n \in DOMAIN vs THEN vs[n] ELSE layout[n]
  BY <1>1 DEF LookInv, LookTypes, Updated
<1>3. \A n \in LayoutSettings :
        layout'[n] = IF n \in DOMAIN vs THEN Chosen(vs, n, DefaultLayout[n]) ELSE layout[n]
  BY <1>2 DEF Chosen
<1>4. \A n \in DOMAIN Default :
        prefs'[n] = IF n \in DOMAIN vs THEN Chosen(vs, n, Default[n]) ELSE prefs[n]
  BY <1>1, SettingsAre
<1>5. DOMAIN vs \subseteq Preferences
  BY SettingsAre
<1>6. ThemeApplied'
  BY <1>1 DEF LookInv, ThemeApplied, Resolved
<1> QED BY <1>1, <1>2, <1>3, <1>4, <1>5, <1>6, SettingsInv

(* The layout shows something else of what has no cookie. *)
LEMMA ShowInv ==
  ASSUME SessionInv, LookInv, UNCHANGED sessionVars, UNCHANGED <<cookies, lapsed, prefs, class, os>>,
         LookTypes', \A n \in LayoutSettings : layout'[n] = layout[n]
  PROVE  SessionInv' /\ LookInv'
<1>1. SessionInv'
  BY SessionUntouched DEF SessionInv, SessionTypes
<1>2. TokenIsStored' /\ PrefsAreStored' /\ ThemeApplied'
  BY DEF LookInv, TokenIsStored, PrefsAreStored, ThemeApplied, Resolved, GetCookie, sessionVars
<1>3. LayoutIsStored => LayoutIsStored'
  BY DEF LayoutIsStored, GetCookie
<1> QED BY <1>1, <1>2, <1>3 DEF LookInv, sessionVars

LEMMA HandleResetInv ==
  ASSUME SessionInv, LookInv, UNCHANGED sessionVars, HandleReset
  PROVE  SessionInv' /\ LookInv'
<1>1. PICK vs : vs = [dir |-> "", theme |-> "", variant |-> DefaultLayout.variant,
                      collapsible |-> DefaultLayout.collapsible, sidebar |-> DefaultLayout.sidebar]
  OBVIOUS
<1>2. /\ SetCookies(vs)
      /\ prefs' = [prefs EXCEPT !.theme = Default.theme, !.dir = Default.dir]
      /\ ThemeEffect(Default.theme)
      /\ layout' = Updated(layout, DefaultLayout) /\ UNCHANGED os
  BY <1>1 DEF HandleReset
<1>3. DOMAIN prefs = {"theme", "font", "dir"}
  BY SettingsAre DEF LookInv, LookTypes
<1>4. /\ DOMAIN prefs' = DOMAIN prefs /\ prefs'["theme"] = Default.theme
      /\ prefs'["dir"] = Default.dir /\ prefs'["font"] = prefs["font"]
  BY <1>2, <1>3
<1>5. /\ DOMAIN layout' = DOMAIN layout
      /\ \A n \in LayoutSettings : layout'[n] = DefaultLayout[n]
  BY <1>2 DEF Updated, LookInv, LookTypes, LayoutSettings
<1>6. LookTypes'
  BY <1>4, <1>5 DEF LookInv, LookTypes
<1>7. ThemeApplied'
  BY <1>2, <1>4, EffectApplies
<1>8. DOMAIN vs = {"dir", "theme", "variant", "collapsible", "sidebar"}
  BY <1>1
<1>9. DOMAIN vs \subseteq Preferences
  BY <1>8 DEF Preferences
<1>10. \A n \in DOMAIN Default :
         prefs'[n] = IF n \in DOMAIN vs THEN Chosen(vs, n, Default[n]) ELSE prefs[n]
  <2>1. vs["theme"] = "" /\ vs["dir"] = ""
    BY <1>1
  <2> QED BY <1>4, <1>8, <2>1, SettingsAre DEF Chosen
<1>11. \A n \in LayoutSettings :
         layout'[n] = IF n \in DOMAIN vs THEN Chosen(vs, n, DefaultLayout[n]) ELSE layout[n]
  <2>1. /\ vs["variant"] = DefaultLayout["variant"] /\ vs["collapsible"] = DefaultLayout["collapsible"]
        /\ vs["sidebar"] = DefaultLayout["sidebar"]
    BY <1>1
  <2>2. \A n \in LayoutSettings : vs[n] = DefaultLayout[n]
    BY <2>1, SettingsAre
  <2> QED BY <1>5, <1>8, <2>2, SettingsAre DEF Chosen
<1> QED BY <1>2, <1>6, <1>7, <1>9, <1>10, <1>11, SettingsInv

LEMMA RunThemeInv ==
  ASSUME SessionInv, LookInv, UNCHANGED sessionVars, NEW theme \in Themes, RunTheme(theme)
  PROVE  SessionInv' /\ LookInv'
<1>1. PICK vs : vs = [theme |-> theme]
  OBVIOUS
<1>2. /\ SetCookies(vs) /\ prefs' = [prefs EXCEPT !.theme = theme] /\ ThemeEffect(theme)
      /\ layout' = [layout EXCEPT !.search = FALSE] /\ UNCHANGED os
  BY <1>1 DEF RunTheme
<1>3. DOMAIN vs = {"theme"} /\ vs["theme"] = theme /\ theme # ""
  BY <1>1 DEF Themes
<1>4. /\ DOMAIN prefs' = DOMAIN prefs /\ prefs'["theme"] = theme
      /\ \A n \in DOMAIN Default : n # "theme" => prefs'[n] = prefs[n]
  BY <1>2, SettingsAre DEF LookInv, LookTypes
<1>5. DOMAIN layout' = DOMAIN layout /\ \A n \in LayoutSettings : layout'[n] = layout[n]
  BY <1>2, SettingsAre DEF LookInv, LookTypes
<1>6. LookTypes'
  BY <1>4, <1>5 DEF LookInv, LookTypes
<1>7. ThemeApplied'
  BY <1>2, <1>4, EffectApplies
<1>8. DOMAIN vs \subseteq Preferences
  BY <1>3 DEF Preferences
<1>9. \A n \in DOMAIN Default :
        prefs'[n] = IF n \in DOMAIN vs THEN Chosen(vs, n, Default[n]) ELSE prefs[n]
  BY <1>3, <1>4 DEF Chosen
<1>10. \A n \in LayoutSettings :
         layout'[n] = IF n \in DOMAIN vs THEN Chosen(vs, n, DefaultLayout[n]) ELSE layout[n]
  BY <1>3, <1>5, SettingsAre
<1> QED BY <1>2, <1>6, <1>7, <1>8, <1>9, <1>10, SettingsInv

LEMMA ConfigDrawerInv ==
  ASSUME SessionInv, LookInv, UNCHANGED sessionVars, ConfigDrawer \/ ThemeSwitch
  PROVE  SessionInv' /\ LookInv'
<1>1. CASE \E theme \in Themes : SetTheme(theme)
  <2>1. PICK theme \in Themes : SetPrefs([theme |-> theme])
    BY <1>1 DEF SetTheme
  <2>2. PICK vs : vs = [theme |-> theme]
    OBVIOUS
  <2>3. DOMAIN vs = {"theme"} /\ vs["theme"] # ""
    BY <2>2 DEF Themes
  <2> QED BY <2>1, <2>2, <2>3, SettingsAre, PrefsInv
<1>2. CASE \E dir \in Dirs : DirConfig(dir)
  <2>1. PICK dir \in Dirs : SetPrefs([dir |-> dir])
    BY <1>2 DEF DirConfig, SetDir
  <2>2. PICK vs : vs = [dir |-> dir]
    OBVIOUS
  <2>3. DOMAIN vs = {"dir"} /\ vs["dir"] # ""
    BY <2>2 DEF Dirs
  <2> QED BY <2>1, <2>2, <2>3, SettingsAre, PrefsInv
<1>3. CASE \E variant \in Variants : SidebarConfig(variant)
  <2>1. PICK variant \in Variants : SetLayout([variant |-> variant])
    BY <1>3 DEF SidebarConfig
  <2>2. PICK vs : vs = [variant |-> variant]
    OBVIOUS
  <2>3. DOMAIN vs = {"variant"} /\ vs["variant"] # ""
    BY <2>2 DEF Variants
  <2> QED BY <2>1, <2>2, <2>3, SettingsAre, LayoutInv
<1>4. CASE SetLayout([sidebar |-> "true"])
  <2>1. PICK vs : vs = [sidebar |-> "true"]
    OBVIOUS
  <2>2. DOMAIN vs = {"sidebar"} /\ vs["sidebar"] # ""
    BY <2>1
  <2> QED BY <1>4, <2>1, <2>2, SettingsAre, LayoutInv
<1>5. CASE \E s \in {"true", "false"}, choice \in Collapsibles :
             SetLayout([sidebar |-> s, collapsible |-> choice])
  <2>1. PICK s \in {"true", "false"}, choice \in Collapsibles :
          SetLayout([sidebar |-> s, collapsible |-> choice])
    BY <1>5
  <2>2. PICK vs : vs = [sidebar |-> s, collapsible |-> choice]
    OBVIOUS
  <2>3. DOMAIN vs = {"sidebar", "collapsible"} /\ vs["sidebar"] # "" /\ vs["collapsible"] # ""
    BY <2>2 DEF Collapsibles
  <2> QED BY <2>1, <2>2, <2>3, SettingsAre, LayoutInv
<1>6. \A choice \in Collapsibles \union {"default"} : LayoutConfig(choice) =>
        \/ SetLayout([sidebar |-> "true"])
        \/ \E s \in {"true", "false"}, c \in Collapsibles : SetLayout([sidebar |-> s, collapsible |-> c])
  BY DEF LayoutConfig
<1>7. LayoutReset =>
        \E s \in {"true", "false"}, c \in Collapsibles : SetLayout([sidebar |-> s, collapsible |-> c])
  <2>1. DefaultLayout.collapsible \in Collapsibles
    BY DEF DefaultLayout, Collapsibles
  <2> QED BY <2>1 DEF LayoutReset
<1>8. HandleReset => SessionInv' /\ LookInv'
  BY HandleResetInv
<1> QED BY <1>1, <1>2, <1>3, <1>4, <1>5, <1>6, <1>7, <1>8 DEF ConfigDrawer, ThemeSwitch, ThemeConfig

LEMMA SidebarInv ==
  ASSUME SessionInv, LookInv, UNCHANGED sessionVars, ToggleSidebar \/ ToggleSearch
  PROVE  SessionInv' /\ LookInv'
<1>1. DOMAIN layout = LayoutSettings \union {"openMobile", "search"}
  BY DEF LookInv, LookTypes
<1>2. ASSUME NEW l, Show(l), DOMAIN l = DOMAIN layout, \A n \in LayoutSettings : l[n] = layout[n]
      PROVE  SessionInv' /\ LookInv'
  <2>1. layout' = l /\ UNCHANGED <<cookies, lapsed, prefs, class, os>>
    BY <1>2 DEF Show
  <2>2. LookTypes'
    BY <1>2, <2>1 DEF LookInv, LookTypes
  <2> QED BY <1>2, <2>1, <2>2, ShowInv
<1>3. CASE ToggleSearch
  <2>1. PICK l : l = [layout EXCEPT !.search = ~ @]
    OBVIOUS
  <2>2. DOMAIN l = DOMAIN layout /\ \A n \in LayoutSettings : l[n] = layout[n]
    BY <1>1, <2>1, SettingsAre
  <2> QED BY <1>2, <1>3, <2>1, <2>2 DEF ToggleSearch
<1>4. CASE ToggleSidebar /\ mobile
  <2>1. PICK l : l = [layout EXCEPT !.openMobile = ~ @]
    OBVIOUS
  <2>2. DOMAIN l = DOMAIN layout /\ \A n \in LayoutSettings : l[n] = layout[n]
    BY <1>1, <2>1, SettingsAre
  <2> QED BY <1>2, <1>4, <2>1, <2>2 DEF ToggleSidebar
<1>5. CASE ToggleSidebar /\ ~ mobile
  <2>1. PICK vs : vs = [sidebar |-> IF layout.sidebar = "true" THEN "false" ELSE "true"]
    OBVIOUS
  <2>2. SetLayout(vs)
    BY <1>5, <2>1 DEF ToggleSidebar
  <2>3. DOMAIN vs = {"sidebar"} /\ vs["sidebar"] # ""
    BY <2>1
  <2> QED BY <2>2, <2>3, SettingsAre, LayoutInv
<1> QED BY <1>3, <1>4, <1>5

LEMMA SubmitAppearanceInv ==
  ASSUME SessionInv, LookInv, UNCHANGED sessionVars,
         NEW font \in Fonts, NEW theme \in Themes, SubmitAppearance(font, theme)
  PROVE  SessionInv' /\ LookInv'
<1> DEFINE form == [font |-> font, theme |-> theme]
           changed == {m \in {"font", "theme"} : form[m] # prefs[m]}
<1>1. PICK vs : vs = [n \in changed |-> form[n]]
  OBVIOUS
<1>2. SetPrefs(vs)
  BY <1>1 DEF SubmitAppearance
<1>3. form["font"] = font /\ form["theme"] = theme /\ font # "" /\ theme # ""
  BY DEF Fonts, Themes
<1> HIDE DEF form
<1>4. DOMAIN vs \subseteq {"font", "theme"} /\ \A n \in DOMAIN vs : vs[n] # ""
  BY <1>1, <1>3
<1> QED BY <1>2, <1>4, SettingsAre, PrefsInv

LEMMA LookStep ==
  ASSUME SessionInv, LookInv, Look
  PROVE  SessionInv' /\ LookInv'
<1>1. UNCHANGED sessionVars
  BY DEF Look
<1>2. CASE SystemChanges \/ Resize
  <2>1. /\ UNCHANGED <<cookies, lapsed, prefs, layout>>
        /\ class' = (IF os' = os \/ prefs.theme # "system" THEN class ELSE os')
    BY <1>2 DEF SystemChanges, Resize
  <2>2. SessionInv'
    BY <1>1, <2>1, SessionUntouched DEF SessionInv, SessionTypes
  <2>3. ThemeApplied'
    BY <2>1 DEF LookInv, ThemeApplied, Resolved
  <2>4. TokenIsStored' /\ PrefsAreStored' /\ LookTypes' /\ (LayoutIsStored => LayoutIsStored')
    BY <1>1, <2>1 DEF LookInv, LookTypes, TokenIsStored, PrefsAreStored, LayoutIsStored, GetCookie, sessionVars
  <2> QED BY <1>1, <2>2, <2>3, <2>4 DEF LookInv, sessionVars
<1>3. CASE UseLayout
  BY <1>1, <1>3, ConfigDrawerInv, SidebarInv, RunThemeInv DEF UseLayout
<1>4. CASE \E font \in Fonts, theme \in Themes : SubmitAppearance(font, theme)
  BY <1>1, <1>4, SubmitAppearanceInv
<1> QED BY <1>2, <1>3, <1>4 DEF Look

LEMMA LapseStep ==
  ASSUME SessionInv, LookInv, CookieLapses
  PROVE  SessionInv' /\ LookInv'
<1>1. PICK n \in Names : Lapse(n)
  BY DEF CookieLapses
<1>2. /\ UNCHANGED sessionVars /\ UNCHANGED <<prefs, class, layout, os>>
      /\ cookies' = [cookies EXCEPT ![n] = Absent(n)] /\ lapsed' = lapsed \union {n}
  BY <1>1 DEF CookieLapses, Lapse, lookVars
<1>3. DOMAIN cookies = Names /\ cookies.token \in Nat
  BY DEF SessionInv, SessionTypes
<1>4. /\ DOMAIN cookies' = Names /\ \A m \in Names : m # n => cookies'[m] = cookies[m]
      /\ cookies'["token"] \in Nat
  <2>1. cookies'[n] = Absent(n)
    BY <1>2, <1>3
  <2>2. n = "token" => Absent(n) \in Nat
    BY DEF Absent
  <2>3. "token" \in Names
    BY SettingsAre
  <2> QED BY <1>2, <1>3, <2>1, <2>2, <2>3
<1>5. SessionInv'
  BY <1>2, <1>4, SessionUntouched
<1>6. TokenIsStored'
  BY <1>2, <1>4, SettingsAre DEF LookInv, TokenIsStored, sessionVars
<1>7. PrefsAreStored' /\ (LayoutIsStored => LayoutIsStored')
  BY <1>2, <1>4, SettingsAre DEF LookInv, PrefsAreStored, LayoutIsStored, GetCookie
<1>8. LookTypes' /\ ThemeApplied'
  BY <1>2 DEF LookInv, LookTypes, ThemeApplied, Resolved
<1> QED BY <1>2, <1>5, <1>6, <1>7, <1>8 DEF LookInv, sessionVars

-----------------------------------------------------------------------------
(* The session moves: the layout is kept, or mounted afresh. *)
LEMMA LayoutKept ==
  ASSUME LookInv, CookieFollows, UNCHANGED <<prefs, class, os>>,
         \/ view \in Guarded /\ DOMAIN layout' = DOMAIN layout
            /\ \A n \in LayoutSettings : layout'[n] = layout[n]
         \/ LayoutFollows
  PROVE  LookInv'
<1>1. \A n \in Preferences : cookies'[n] = cookies[n] /\ (n \in lapsed => n \in lapsed')
  BY SettingsAre DEF CookieFollows, TokenKept, TokenStored
<1>2. TokenIsStored'
  BY DEF CookieFollows, TokenKept, TokenStored, LookInv, TokenIsStored
<1>3. PrefsAreStored'
  BY <1>1, SettingsAre DEF LookInv, PrefsAreStored, GetCookie
<1>4. ThemeApplied'
  BY DEF LookInv, ThemeApplied, Resolved
<1>5. LookTypes' /\ (view' \in Guarded => LayoutIsStored')
  <2>1. CASE view \in Guarded /\ DOMAIN layout' = DOMAIN layout
             /\ \A n \in LayoutSettings : layout'[n] = layout[n]
    BY <1>1, <2>1, SettingsAre DEF LookInv, LookTypes, LayoutIsStored, GetCookie
  <2>2. CASE LayoutFollows
    <3>1. CASE view \notin Guarded /\ view' \in Guarded
      <4>1. layout' = FreshLayout'
        BY <2>2, <3>1 DEF LayoutFollows
      <4>2. DOMAIN layout' = LayoutSettings \union {"openMobile", "search"}
        <5>1. DOMAIN FreshLayout' = LayoutSettings \union {"openMobile", "search"}
          BY SettingsAre DEF FreshLayout
        <5> QED BY <4>1, <5>1
      <4>3. LayoutIsStored'
        <5>1. /\ FreshLayout'["variant"] = GetCookie("variant", DefaultLayout["variant"])'
              /\ FreshLayout'["collapsible"] = GetCookie("collapsible", DefaultLayout["collapsible"])'
              /\ FreshLayout'["sidebar"] = GetCookie("sidebar", DefaultLayout["sidebar"])'
          BY DEF FreshLayout
        <5> QED BY <4>1, <5>1, SettingsAre DEF LayoutIsStored
      <4> QED BY <4>2, <4>3 DEF LookInv, LookTypes
    <3>2. CASE ~ (view \notin Guarded /\ view' \in Guarded)
      <4>1. layout' = layout
        BY <2>2, <3>2 DEF LayoutFollows
      <4> QED BY <1>1, <3>2, <4>1, SettingsAre DEF LookInv, LookTypes, LayoutIsStored, GetCookie
    <3> QED BY <3>1, <3>2
  <2> QED BY <2>1, <2>2
<1> QED BY <1>2, <1>3, <1>4, <1>5 DEF LookInv

LEMMA GoStep ==
  ASSUME SessionInv, LookInv, Go
  PROVE  SessionInv' /\ LookInv'
<1>1. DOMAIN layout = LayoutSettings \union {"openMobile", "search"}
  BY DEF LookInv, LookTypes
<1>2. Guarded \subseteq Pages
  BY DEF Pages
<1>3. CASE \E p \in Guarded : SidebarMenuLink(p)
  <2>1. PICK p \in Pages : /\ Follow(p) \/ Preload(p)
                           /\ layout' \in {layout, [layout EXCEPT !.openMobile = FALSE]}
                           /\ view \in Guarded /\ UNCHANGED <<prefs, class, os>>
    BY <1>2, <1>3 DEF SidebarMenuLink
  <2>2. DOMAIN layout' = DOMAIN layout /\ \A n \in LayoutSettings : layout'[n] = layout[n]
    BY <1>1, <2>1, SettingsAre
  <2> QED BY <2>1, <2>2, FollowInv, PreloadInv, LayoutKept
<1>4. CASE \E p \in Guarded : RunCommand(p)
  <2>1. PICK p \in Pages : /\ Follow(p) /\ layout' = [layout EXCEPT !.search = FALSE]
                           /\ view \in Guarded /\ UNCHANGED <<prefs, class, os>>
    BY <1>2, <1>4 DEF RunCommand
  <2>2. DOMAIN layout' = DOMAIN layout /\ \A n \in LayoutSettings : layout'[n] = layout[n]
    BY <1>1, <2>1, SettingsAre
  <2> QED BY <2>1, <2>2, FollowInv, LayoutKept
<1>5. CASE \E p \in Links : Follow(p) /\ LayoutFollows
  <2>1. Links \subseteq Pages
    BY DEF Links, Pages, Guarded, Settings
  <2>2. PICK p \in Pages : Follow(p) /\ LayoutFollows
    BY <1>5, <2>1
  <2> QED BY <2>2, FollowInv, LayoutKept DEF LayoutFollows
<1> QED BY <1>3, <1>4, <1>5 DEF Go

LEMMA LoadStep ==
  ASSUME SessionInv, LookInv, Load
  PROVE  SessionInv' /\ LookInv'
<1>1. PICK location : /\ location = url \/ \E p \in Pages : location = <<p>>
                      /\ LoadSession(location)
  BY DEF Load
<1>2. LoadLook /\ lapsed' = {} /\ UNCHANGED cookies
  BY DEF Load
<1>3. SessionInv' /\ auth'.token = cookies'.token
  BY <1>1, <1>2, LoadInv
<1>4. /\ prefs' = FreshPrefs /\ layout' = FreshLayout
      /\ class' = Resolved(prefs'.theme) /\ UNCHANGED os
  BY <1>2 DEF LoadLook
<1>5. LookTypes'
  BY <1>4, FreshOnes DEF LookTypes
<1>6. PrefsAreStored' /\ LayoutIsStored'
  BY <1>2, <1>4, FreshOnes DEF PrefsAreStored, LayoutIsStored, GetCookie
<1>7. ThemeApplied'
  BY <1>4 DEF ThemeApplied, Resolved
<1> QED BY <1>3, <1>5, <1>6, <1>7 DEF LookInv, TokenIsStored

BrowserInv == SessionInv /\ LookInv

LEMMA BrowserStep == BrowserInv /\ [Next]_browserVars => BrowserInv'
<1> SUFFICES ASSUME SessionInv, LookInv, [Next]_browserVars PROVE SessionInv' /\ LookInv'
  BY DEF BrowserInv
<1>1. CASE Go
  BY <1>1, GoStep
<1>2. CASE Load
  BY <1>2, LoadStep
<1>3. CASE Look
  BY <1>3, LookStep
<1>4. CASE CookieLapses
  BY <1>4, LapseStep
<1>5. CASE Answers
  <2>1. SessionAnswers /\ LayoutFollows
    BY <1>5 DEF Answers
  <2>2. SessionInv' /\ CookieFollows
    BY <2>1, AnswerInv, ProfileFetchedInv, ProfileLostInv DEF SessionAnswers
  <2> QED BY <2>1, <2>2, LayoutKept DEF LayoutFollows
<1>6. CASE (SessionForms \/ Expire) /\ LayoutFollows
  BY <1>6, FormsInv, LayoutKept DEF LayoutFollows
<1>7. CASE UNCHANGED browserVars
  <2>1. UNCHANGED sessionVars /\ UNCHANGED <<cookies, lapsed, prefs, class, layout, os>>
    BY <1>7 DEF browserVars, cookieVars, lookVars
  <2>2. SessionInv'
    BY <2>1, SessionUntouched DEF SessionInv, SessionTypes
  <2>3. LookInv'
    BY <2>1 DEF LookInv, LookTypes, TokenIsStored, PrefsAreStored, LayoutIsStored, GetCookie, ThemeApplied, Resolved, sessionVars
  <2> QED BY <2>2, <2>3
<1> QED BY <1>1, <1>2, <1>3, <1>4, <1>5, <1>6, <1>7 DEF Next

LEMMA BrowserInit == Init => BrowserInv
<1> SUFFICES ASSUME Init PROVE SessionInv /\ LookInv
  BY DEF BrowserInv
<1>1. PICK token \in {0, 1} : cookies = [n \in Names |-> IF n = "token" THEN token ELSE Absent(n)]
  BY DEF Init
<1>2. DOMAIN cookies = Names /\ cookies.token = token /\ token \in Nat
  BY <1>1, SettingsAre
<1>3. /\ requests = {} /\ dialog = FALSE /\ stale = {} /\ odd = FALSE /\ nav = NoPage
      /\ \/ /\ cookies.token = NoSession /\ owners = <<>>
            /\ auth = NoAuth /\ me = NoQuery
            /\ view = "sign-in" /\ url = <<"sign-in", "dashboard">>
         \/ /\ cookies.token = 1 /\ \E u \in Users : owners = <<u>>
            /\ auth = [NoAuth EXCEPT !.token = 1] /\ me = [NoQuery EXCEPT !.session = 1]
            /\ view = "dashboard" /\ url = <<"dashboard">>
  BY DEF Init, SessionInit
<1>4. /\ <<"sign-in", "dashboard">> \in Locations /\ <<"dashboard">> \in Locations
      /\ <<"dashboard">>[1] = "dashboard" /\ <<"sign-in", "dashboard">>[2] = "dashboard"
      /\ DOMAIN <<"dashboard">> = {1} /\ DOMAIN <<"sign-in", "dashboard">> = {1, 2}
  <2>1. "sign-in" \in Pages /\ "dashboard" \in Pages
    BY DEF Pages, Guarded
  <2>2. <<"dashboard">> \in Locations /\ <<"dashboard">>[1] = "dashboard"
        /\ DOMAIN <<"dashboard">> = {1}
    BY <2>1, SinglePage
  <2>3. PICK both : both = <<"sign-in", "dashboard">>
    OBVIOUS
  <2>4. /\ both \in Seq(Pages) /\ Len(both) = 2 /\ both # <<>>
        /\ both[2] = "dashboard"
    BY <2>1, <2>3
  <2>5. DOMAIN both = 1..2
    BY <2>4, LenProperties
  <2> QED BY <2>2, <2>3, <2>4, <2>5 DEF Locations
<1>5. SessionTypes
  <2>1. owners \in Seq(Somebody)
    <3>1. CASE owners = <<>>
      BY <3>1
    <3>2. CASE \E u \in Users : owners = <<u>>
      BY <3>2 DEF Somebody
    <3> QED BY <1>3, <3>1, <3>2
  <2>2. auth \in [user : Somebody, token : Nat]
    BY <1>3 DEF NoAuth, Somebody, NoSession
  <2>3. me \in [data : Somebody, session : Nat \union {NotAsking}, guard : BOOLEAN]
    <3>1. NoQuery \in [data : Somebody, session : Nat \union {NotAsking}, guard : BOOLEAN]
      BY DEF NoQuery, Somebody
    <3>2. me = NoQuery \/ me = [NoQuery EXCEPT !.session = 1]
      BY <1>3
    <3> QED BY <3>1, <3>2
  <2>4. url \in Locations /\ nav \in AdminPages \union {NoPage}
    BY <1>3, <1>4
  <2>5. odd \in BOOLEAN
    BY <1>3
  <2> QED BY <1>2, <1>3, <2>1, <2>2, <2>3, <2>4, <2>5 DEF SessionTypes
<1>6. auth.token = cookies.token
  BY <1>3 DEF NoAuth
<1>7. SessionInv
  <2>1. GuardedHaveToken /\ DialogOfLayout
    BY <1>3, <1>6 DEF GuardedHaveToken, DialogOfLayout, Guarded, AdminPages, Settings, NoSession
  <2>2. OfToken(Tab, owners, stale)
    BY <1>3 DEF OfToken, Tab, NoAuth, NoQuery, NoSession
  <2>3. AdminPageByAdmin
    BY <1>3 DEF AdminPageByAdmin, AdminPages
  <2>4. SignInOnce
    BY <1>3, <1>4, <1>6 DEF SignInOnce
  <2> QED BY <1>5, <2>1, <2>2, <2>3, <2>4 DEF SessionInv
<1>8. LookInv
  <2>1. prefs = FreshPrefs /\ layout = FreshLayout /\ class = Resolved(prefs.theme)
    BY DEF Init, LookInit
  <2> QED BY <1>6, <2>1, FreshOnes DEF LookInv, LookTypes, TokenIsStored, PrefsAreStored, LayoutIsStored, ThemeApplied
<1> QED BY <1>7, <1>8

LEMMA BrowserCorrect == Spec => []BrowserInv
BY BrowserInit, BrowserStep, PTL DEF Spec

(* The user in the store is the owner of the token, across sign-outs,      *)
(* expired sessions and the cached profile, unless a profile was under way *)
(* when the session began. *)
THEOREM UserIsOwner == Spec => []UserOfToken
<1>1. BrowserInv => UserOfToken
  BY DEF BrowserInv, SessionInv, OfToken, Tab, UserOfToken
<1> QED BY <1>1, BrowserCorrect, PTL

(* requireAdmin lets nobody but an administrator see an admin page,        *)
(* whatever happens while it waits, with the same exception. *)
THEOREM AdminPagesAreGuarded == Spec => []AdminPageByAdmin
<1>1. BrowserInv => AdminPageByAdmin
  BY DEF BrowserInv, SessionInv
<1> QED BY <1>1, BrowserCorrect, PTL

(* However many 401s come, the sign-in page does not lead back to itself,  *)
(* unless somebody signed in has opened it. *)
THEOREM RedirectsLeadBack == Spec => []RedirectNotNested
<1>1. BrowserInv => RedirectNotNested
  BY DEF BrowserInv, SessionInv, SignInOnce, RedirectNotNested
<1> QED BY <1>1, BrowserCorrect, PTL

(* A page load restores the session and the settings from the cookies that *)
(* have not lapsed. *)
THEOREM ReloadRestores == Spec => []SurvivesReload
<1>1. BrowserInv => SurvivesReload
  BY LookInvGives DEF BrowserInv
<1> QED BY <1>1, BrowserCorrect, PTL

(* The document has the class of the theme, or of the system's scheme,     *)
(* although the resolved theme is not computed again. *)
THEOREM ThemeIsApplied == Spec => []ThemeApplied
<1>1. BrowserInv => ThemeApplied
  BY LookInvGives DEF BrowserInv
<1> QED BY <1>1, BrowserCorrect, PTL
=============================================================================
