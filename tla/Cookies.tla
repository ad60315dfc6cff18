------------------------------- MODULE Cookies -------------------------------
(***************************************************************************)
(* What outlives a page load: the cookies of the console.  A cookie lapses *)
(* after its Max-Age while the page goes on with the value it has read.    *)
(***************************************************************************)
EXTENDS Integers, Sequences

CONSTANT MaxEvents   \* bound: what the user does and what goes wrong, together

VARIABLES
  cookies,  \* cookies[n]: the value of cookie n, Absent(n) if there is none
  lapsed,   \* history: the cookies that lapsed since they were written or read
  events    \* how many of the bounded events have happened

cookieVars == <<cookies, lapsed, events>>

Preferences == {"theme", "font", "dir", "collapsible", "variant", "sidebar"}
Names == Preferences \union {"token"}
Absent(n) == IF n = "token" THEN 0 ELSE ""

Event == events < MaxEvents /\ events' = events + 1

GetCookie(n, default) == IF cookies[n] = Absent(n) THEN default ELSE cookies[n]

(* f with the values that vs has. *)
Updated(f, vs) == [n \in DOMAIN f |-> IF n \in DOMAIN vs THEN vs[n] ELSE f[n]]

(* Writing the cookies that vs has values for. *)
SetCookies(vs) ==
  /\ cookies' = Updated(cookies, vs)
  /\ lapsed' = lapsed \ DOMAIN vs

RemoveCookie(n) == SetCookies([m \in {n} |-> Absent(m)])

Lapse(n) ==
  /\ cookies[n] # Absent(n)
  /\ cookies' = [cookies EXCEPT ![n] = Absent(n)]
  /\ lapsed' = lapsed \union {n}
  /\ Event
=============================================================================
