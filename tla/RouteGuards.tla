----------------------------- MODULE RouteGuards -----------------------------
(***************************************************************************)
(* Navigation of the dashboard: the route table (router/index.ts), its two *)
(* global guards (router/guards.ts), the session and cluster stores they   *)
(* read and write (store/modules/user.ts, store/modules/bitalosproxy.ts)   *)
(* and the login form (views/Login.tsx).                                   *)
(*                                                                         *)
(* A navigation to a path is matched against the table in declaration     *)
(* order; loginGuard lets it through to the Login route, or when a role    *)
(* is stored or the utoken cookie is present, and otherwise redirects to   *)
(* /login; bitalosproxyGuard then stores the id of a Home route as the     *)
(* selected cluster.  The login form posts the credentials with rxjs ajax  *)
(* (not through the axios adapter); an answer without errmsg.cause        *)
(* stores the role and pushes '/'.  The backend sets the utoken cookie     *)
(* with that answer; the cookie later expires.                             *)
(***************************************************************************)
EXTENDS Naturals

CONSTANTS
    Clusters    \* the cluster names of the navigation list

\* A path is one segment: /login, /index, /about, / ("root"), or /<cluster>.
Paths == {"login", "index", "about", "root"} \cup Clusters

\* vue-router's matcher: the first entry of the table whose path matches.
\* '/:id' comes before '/about', so /about resolves to Home with id about.
Match(p) ==
    CASE p = "login" -> [name |-> "Login", id |-> ""]
      [] p = "index" -> [name |-> "Index", id |-> ""]
      [] p = "root"  -> [name |-> "none", id |-> ""]
      [] OTHER       -> [name |-> "Home", id |-> p]

VARIABLES
    route,      \* the confirmed route ($route)
    cluster,    \* bitalosproxy/name, the selected cluster ('' at start)
    role,       \* user/role is set (truthy)
    utoken,     \* the utoken cookie is present
    loginSent   \* the login form's POST is in flight

vars == <<route, cluster, role, utoken, loginSent>>

-----------------------------------------------------------------------------
(* Translation of the code.                                                *)

\* loginGuard: the Login route always passes; any other needs a stored role
\* or the cookie, else the navigation is redirected to /login.
Admits(to) == to.name = "Login" \/ role \/ utoken

\* A navigation to path p through both guards, with role and cookie as
\* they are when it starts: a redirect becomes a navigation to /login (which loginGuard admits); an admitted Home route
\* with an id sets the selected cluster (bitalosproxyGuard).
Navigate(p) ==
    LET to == IF Admits(Match(p)) THEN Match(p) ELSE Match("login")
    IN  /\ route' = to
        /\ cluster' = IF to.name = "Home" /\ to.id # "" THEN to.id ELSE cluster

\* The Login button: login$ posts the credentials.
LoginClick ==
    /\ route.name = "Login"
    /\ ~loginSent
    /\ loginSent' = TRUE
    /\ UNCHANGED <<route, cluster, role, utoken>>

\* The answer to the login POST: without errmsg.cause (accepted, the
\* backend also sets the cookie) the role is stored and '/' pushed; with a
\* cause, or an error the catch logs, nothing changes.
LoginAnswer(accepted) ==
    /\ loginSent
    /\ loginSent' = FALSE
    /\ IF accepted
       THEN /\ role' = TRUE
            /\ utoken' = TRUE
            /\ route' = Match("root")   \* '/' passes both guards; no route matches
            /\ UNCHANGED cluster
       ELSE UNCHANGED <<route, cluster, role, utoken>>

\* The browser's cookie jar: the cookie expires, or another tab logs in.
CookieChange ==
    /\ utoken' = ~utoken
    /\ UNCHANGED <<route, cluster, role, loginSent>>

-----------------------------------------------------------------------------

\* The page is loaded at some path with no role stored.
Init ==
    /\ utoken \in BOOLEAN
    /\ role = FALSE
    /\ cluster = ""
    /\ loginSent = FALSE
    /\ \E p \in Paths :
          route = IF Admits(Match(p)) THEN Match(p) ELSE Match("login")

Next ==
    \/ \E p \in Paths : Navigate(p) /\ UNCHANGED <<role, utoken, loginSent>>
    \/ LoginClick
    \/ \E accepted \in BOOLEAN : LoginAnswer(accepted)
    \/ CookieChange

Spec == Init /\ [][Next]_vars

-----------------------------------------------------------------------------
(* Properties.                                                             *)

\* The spec's route guard: a navigation that ends on a route other than
\* the login route happens only while the token cookie is present (the
\* cookie as the guard reads it: a login's push runs once the answer set it).
GuardRequiresToken ==
    [][route' # route /\ route'.name # "Login" => utoken']_vars

=============================================================================
