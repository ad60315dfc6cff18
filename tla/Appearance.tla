----------------------------- MODULE Appearance -----------------------------
(***************************************************************************)
(* How the console looks: theme, font and direction of the document, which *)
(* live as long as the page; variant, collapsible and state of the side    *)
(* bar and the command menu, which live as long as the layout is mounted;  *)
(* and the operating system's colour scheme and the width of the window,   *)
(* which change by themselves.                                             *)
(***************************************************************************)
EXTENDS Cookies

VARIABLES
  prefs,   \* theme, font and dir of the providers
  memo,    \* the resolved theme, computed when the theme changes
  class,   \* the theme class of the document
  layout,  \* variant, collapsible, sidebar (expanded), openMobile, search
  os,      \* the operating system's scheme
  mobile   \* the window is narrow

lookVars == <<prefs, memo, class, layout, os, mobile>>

Themes == {"system", "light", "dark"}
Fonts == {"inter", "manrope"}
Dirs == {"ltr", "rtl"}
Variants == {"inset", "floating", "sidebar"}
Collapsibles == {"icon", "offcanvas"}

Default == [theme |-> "system", font |-> "inter", dir |-> "ltr"]
DefaultLayout == [variant |-> "inset", collapsible |-> "icon", sidebar |-> "true"]

-----------------------------------------------------------------------------
(* The providers of the document read their cookies when the page is       *)
(* loaded, those of the layout when it is mounted. *)
FreshPrefs == [n \in DOMAIN Default |-> GetCookie(n, Default[n])]

FreshLayout ==
  [variant |-> GetCookie("variant", DefaultLayout.variant),
   collapsible |-> GetCookie("collapsible", DefaultLayout.collapsible),
   sidebar |-> GetCookie("sidebar", DefaultLayout.sidebar), openMobile |-> FALSE, search |-> FALSE]

Resolved(theme) == IF theme = "system" THEN os ELSE theme

(* Defect: the class follows the theme the effect was set up with. *)
SystemChangesMemo ==
  /\ \E s \in {"light", "dark"} \ {os} : os' = s
  /\ class' = IF prefs.theme = "system" THEN memo ELSE class
  /\ Event
  /\ UNCHANGED <<cookies, lapsed, prefs, memo, layout, mobile>>

(* The listener of the colour scheme; the resolved theme is not computed   *)
(* again. *)
SystemChanges ==
  /\ \E s \in {"light", "dark"} \ {os} : os' = s
  /\ class' = IF prefs.theme = "system" THEN os' ELSE class
  /\ Event
  /\ UNCHANGED <<cookies, lapsed, prefs, memo, layout, mobile>>

(* The effect of the theme provider runs when the theme has changed. *)
ThemeEffect(theme) ==
  /\ memo' = IF theme = prefs.theme THEN memo ELSE Resolved(theme)
  /\ class' = IF theme = prefs.theme THEN class ELSE memo'

(* The setters write state and cookies. *)
SetPrefs(vs) ==
  /\ SetCookies(vs)
  /\ prefs' = Updated(prefs, vs)
  /\ ThemeEffect(prefs'.theme)
  /\ UNCHANGED <<layout, os, mobile>>

SetTheme(theme) == SetPrefs([theme |-> theme])
SetDir(dir) == SetPrefs([dir |-> dir])

SetLayout(vs) ==
  /\ SetCookies(vs)
  /\ layout' = Updated(layout, vs)
  /\ UNCHANGED <<prefs, memo, class, os, mobile>>

Show(l) ==
  /\ layout' = l
  /\ UNCHANGED <<cookies, lapsed, prefs, memo, class, os, mobile>>

-----------------------------------------------------------------------------
(* The drawer of settings.  A radio group tells changes only; the part     *)
(* about the side bar is hidden in a narrow window. *)
ThemeConfig(theme) == theme # prefs.theme /\ SetTheme(theme)

SidebarConfig(variant) ==
  ~ mobile /\ variant # layout.variant /\ SetLayout([variant |-> variant])

RadioState == IF layout.sidebar = "true" THEN "default" ELSE layout.collapsible

LayoutConfig(choice) ==
  /\ ~ mobile /\ choice # RadioState
  /\ IF choice = "default" THEN SetLayout([sidebar |-> "true"])
     ELSE SetLayout([sidebar |-> "false", collapsible |-> choice])

LayoutReset ==
  /\ ~ mobile /\ RadioState # "default"
  /\ SetLayout([sidebar |-> "true", collapsible |-> DefaultLayout.collapsible])

DirConfig(dir) == dir # prefs.dir /\ SetDir(dir)

(* Defect: the cookie of the theme is left. *)
ResetKeepingCookie ==
  /\ SetCookies([dir |-> "", variant |-> DefaultLayout.variant,
                 collapsible |-> DefaultLayout.collapsible, sidebar |-> DefaultLayout.sidebar])
  /\ prefs' = [prefs EXCEPT !.theme = Default.theme, !.dir = Default.dir]
  /\ ThemeEffect(Default.theme)
  /\ layout' = Updated(layout, DefaultLayout)
  /\ UNCHANGED <<os, mobile>>

(* The drawer's reset removes the cookies of direction and theme and       *)
(* writes those of the layout; the font is none of its settings. *)
HandleReset ==
  /\ SetCookies([dir |-> "", theme |-> "", variant |-> DefaultLayout.variant,
                 collapsible |-> DefaultLayout.collapsible, sidebar |-> DefaultLayout.sidebar])
  /\ prefs' = [prefs EXCEPT !.theme = Default.theme, !.dir = Default.dir]
  /\ ThemeEffect(Default.theme)
  /\ layout' = Updated(layout, DefaultLayout)
  /\ UNCHANGED <<os, mobile>>

ConfigDrawer ==
  \/ \E theme \in Themes : ThemeConfig(theme)
  \/ \E variant \in Variants : SidebarConfig(variant)
  \/ \E choice \in Collapsibles \union {"default"} : LayoutConfig(choice)
  \/ \E dir \in Dirs : DirConfig(dir)
  \/ LayoutReset \/ HandleReset

(* The menu in the header. *)
ThemeSwitch == \E theme \in Themes : SetTheme(theme)

(* The appearance form accepts no system theme, and sets what it changes. *)
SubmitAppearance(font, theme) ==
  /\ theme \in {"light", "dark"}
  /\ SetPrefs([n \in {m \in {"font", "theme"} : [font |-> font, theme |-> theme][m] # prefs[m]}
                 |-> [font |-> font, theme |-> theme][n]])

(* The trigger, the rail and the shortcut of the side bar: in a narrow     *)
(* window it is a sheet, whose state is not kept. *)
ToggleSidebar ==
  IF mobile THEN Show([layout EXCEPT !.openMobile = ~ @])
  ELSE SetLayout([sidebar |-> IF layout.sidebar = "true" THEN "false" ELSE "true"])

(* Where the side bar is: a sheet over the page, next to the page in full  *)
(* or as icons, or nowhere. *)
SidebarView ==
  IF mobile THEN (IF layout.openMobile THEN "sheet" ELSE "hidden")
  ELSE IF layout.sidebar = "true" THEN "expanded"
  ELSE IF layout.collapsible = "icon" THEN "icons" ELSE "hidden"

(* The command menu. *)
ToggleSearch == Show([layout EXCEPT !.search = ~ @])

RunTheme(theme) ==
  /\ layout.search
  /\ SetCookies([theme |-> theme])
  /\ prefs' = [prefs EXCEPT !.theme = theme]
  /\ ThemeEffect(theme)
  /\ layout' = [layout EXCEPT !.search = FALSE]
  /\ UNCHANGED <<os, mobile>>

(* What can be done where the layout is mounted; the header is covered by  *)
(* the command menu and by the sheet. *)
UseLayout ==
  /\ \/ ToggleSidebar \/ ToggleSearch
     \/ ~ layout.search /\ SidebarView # "sheet" /\ (ConfigDrawer \/ ThemeSwitch)
     \/ \E theme \in Themes : RunTheme(theme)
  /\ Event

Resize ==
  /\ mobile' = ~ mobile
  /\ Event
  /\ UNCHANGED <<cookies, lapsed, prefs, memo, class, layout, os>>

(* A page load. *)
LoadLook ==
  /\ prefs' = FreshPrefs
  /\ memo' = Resolved(prefs'.theme)
  /\ class' = memo'
  /\ layout' = FreshLayout
  /\ UNCHANGED <<os, mobile>>

LookInit ==
  /\ os = "light" /\ mobile = FALSE
  /\ prefs = FreshPrefs
  /\ memo = Resolved(prefs.theme) /\ class = memo
  /\ layout = FreshLayout
=============================================================================
