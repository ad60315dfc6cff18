------------------------------- MODULE Browser -------------------------------
(***************************************************************************)
(* The frame of the console in one tab: the session and the appearance     *)
(* share the cookies, the layout lives as long as business pages are       *)
(* shown, and a page load starts both again.                               *)
(***************************************************************************)
EXTENDS Session, Appearance

browserVars == <<cookieVars, sessionVars, lookVars>>

(* The layout is mounted with the first business page. *)
LayoutFollows ==
  /\ layout' = IF view \notin Guarded /\ view' \in Guarded THEN FreshLayout' ELSE layout
  /\ UNCHANGED <<prefs, memo, class, os, mobile>>

(* A link of the side bar, clicked or pointed at, closes its sheet when it *)
(* is clicked; one of the command menu closes the menu; the account and    *)
(* settings links do neither. *)
SidebarMenuLink(p) ==
  /\ view \in Guarded /\ ~ layout.search /\ SidebarView # "hidden"
  /\ p \in SidebarLinks(CurrentUser)
  /\ \/ Follow(p) /\ layout' = [layout EXCEPT !.openMobile = FALSE]
     \/ Preload(p) /\ UNCHANGED layout
  /\ UNCHANGED <<prefs, memo, class, os, mobile>>

RunCommand(p) ==
  /\ view \in Guarded /\ layout.search
  /\ p \in SidebarLinks(auth.user)
  /\ Follow(p)
  /\ layout' = [layout EXCEPT !.search = FALSE]
  /\ UNCHANGED <<prefs, memo, class, os, mobile>>

Go ==
  \/ \E p \in Guarded : SidebarMenuLink(p) \/ RunCommand(p)
  \/ \E p \in Links : Follow(p) /\ LayoutFollows

(* Loading the page again, or another one by its address. *)
Load ==
  /\ \E location \in {url} \union {<<p>> : p \in Pages} : LoadSession(location)
  /\ LoadLook
  /\ lapsed' = {}
  /\ Event
  /\ UNCHANGED cookies

Look ==
  /\ \/ view \in Guarded /\ ~ dialog /\ UseLayout
     \/ /\ view = "appearance" /\ ~ dialog /\ ~ layout.search
        /\ \E font \in Fonts, theme \in Themes : SubmitAppearance(font, theme)
        /\ Event
     \/ SystemChanges \/ Resize
  /\ UNCHANGED sessionVars

CookieLapses == (\E n \in Names : Lapse(n)) /\ UNCHANGED <<sessionVars, lookVars>>

Answers == SessionAnswers /\ LayoutFollows

Next ==
  \/ Go \/ Load \/ Look \/ CookieLapses \/ Answers
  \/ SessionForms /\ LayoutFollows
  \/ Expire /\ LayoutFollows

Init ==
  /\ events = 0 /\ lapsed = {}
  /\ \E token \in {0, 1} : cookies = [n \in Names |-> IF n = "token" THEN token ELSE Absent(n)]
  /\ SessionInit
  /\ LookInit

Spec == Init /\ [][Next]_browserVars /\ WF_browserVars(Answers)

-----------------------------------------------------------------------------
(* The user in the store is the owner of the token, across sign-outs,      *)
(* expired sessions and the profile kept in the query cache, unless a      *)
(* profile was under way when the session began. *)
UserOfToken ==
  auth.token # NoSession /\ auth.user # Nobody /\ auth.token \notin stale
    => auth.user = owners[auth.token]

(* An admin page is shown to the owner of an admin's session only, with    *)
(* the same exception, whatever was signed out, expired or clicked while   *)
(* its guard waited. *)
AdminPageByAdmin ==
  view \in AdminPages /\ nav = NoPage
    => /\ auth.token # NoSession
       /\ owners[auth.token] \in Admins \/ auth.token \in stale

(* However many answers say that the session is over, the sign-in page     *)
(* leads back to a page and not to itself, unless it was opened while      *)
(* somebody was signed in. *)
RedirectNotNested == odd \/ \A i \in DOMAIN url : url[i] = "sign-in" => i = 1

(* Loading the page again changes neither who is signed in nor how the     *)
(* console looks, except for cookies that have lapsed. *)
SurvivesReload ==
  /\ "token" \notin lapsed => auth.token = cookies.token
  /\ \A n \in DOMAIN prefs \ lapsed : prefs[n] = FreshPrefs[n]
  /\ view \in Guarded =>
       \A n \in {"variant", "collapsible", "sidebar"} \ lapsed : layout[n] = FreshLayout[n]

(* The document has the class of the chosen theme, or of the operating     *)
(* system's scheme at the moment, although the resolved theme may be old. *)
ThemeApplied == class = Resolved(prefs.theme)

(* A page asked for is shown, or another one: no guard waits for ever. *)
GuardDecides == nav # NoPage ~> nav = NoPage
=============================================================================
