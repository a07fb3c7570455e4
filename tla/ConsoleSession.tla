----------------------------- MODULE ConsoleSession ----------------------------
(***************************************************************************)
(* The session as one tab of the Console sees it.  The Console cannot read *)
(* the session cookie: it takes the answer of /auth/me for it and caches   *)
(* that, while the cookie changes in the browser with every login, logout  *)
(* and expiry, and requests sent before are still in flight.               *)
(***************************************************************************)
EXTENDS QueryCache

CONSTANT Users

\* What the cookie is when it is no user's; logged out, or past its lifetime.
ASSUME UsersAssumption == Users \cap {"nobody", "expired"} = {}

VARIABLES
    cookie,         \* the session cookie in the browser
    path,           \* the route
    from,           \* location.state.from, "none" without
    me,             \* the query of useMe; a request carries the cookie it was sent with
    login,          \* the mutation of useLogin, and whether its form is still there
    logout,         \* the mutation of useLogout, and whether its menu is still there
    crashed         \* an error nothing catches has emptied the page

sessionVars == <<cookie, path, from, me, login, logout, crashed>>

\* The routes of App.tsx behind ProtectedRoute.
ProtectedPaths == {"/", "/servers"}
Paths == ProtectedPaths \union {"/login"}
Cookies == Users \union {"nobody", "expired"}

NoMe == Unfetched("nobody")
NoLogin == [state |-> "idle", user |-> "nobody", mounted |-> FALSE]
NoLogout == [state |-> "idle", mounted |-> FALSE]

\* A tab is opened, or loaded again.
Load(p, f) ==
    /\ path' = p
    /\ from' = f
    /\ me' = Fetch(NoMe, cookie)
    /\ login' = NoLogin
    /\ logout' = NoLogout
    /\ crashed' = FALSE
    /\ UNCHANGED cookie

SessionInit ==
    /\ cookie \in Users \union {"nobody"}
    /\ path \in Paths
    /\ from = "none"
    /\ me = Fetch(NoMe, cookie)
    /\ login = NoLogin
    /\ logout = NoLogout
    /\ crashed = FALSE

\* ProtectedRoute renders its children; LoginPage renders the form.
ProtectedShown == ~crashed /\ path \in ProtectedPaths /\ me.has
FormShown == ~crashed /\ path = "/login" /\ ~me.has

-----------------------------------------------------------------------------
(* The query of the current user.                                          *)

\* Core answers /auth/me for the cookie the request carries.
MeAnswer ==
    /\ IsFetching(me)
    /\ me.carries \in Users
    /\ me' = Succeed(me, me.carries)
    /\ UNCHANGED <<cookie, path, from, login, logout, crashed>>

\* 401: the request carries no session, or one that has ended meanwhile.
MeRefused ==
    /\ IsFetching(me)
    /\ me.carries \notin Users \/ cookie = "expired"
    /\ me' = Fail(me)
    /\ UNCHANGED <<cookie, path, from, login, logout, crashed>>

\* Any other failure is not tried again and thrown (throwOnError); no component of
\* the Console catches it.
MeFails ==
    /\ IsFetching(me)
    /\ me' = Fail(me)
    /\ crashed' = TRUE
    /\ UNCHANGED <<cookie, path, from, login, logout>>

\* The browser is online again and the data is stale.
Reconnect ==
    /\ ~crashed
    /\ ~IsFetching(me)
    /\ me' = Fetch(me, cookie)
    /\ UNCHANGED <<cookie, path, from, login, logout, crashed>>

\* The cookie and the token in it live as long as the Core's token lifetime.
Expire ==
    /\ cookie \in Users
    /\ cookie' = "expired"
    /\ UNCHANGED <<path, from, me, login, logout, crashed>>

-----------------------------------------------------------------------------
(* Routes.                                                                 *)

\* Another route: the guard stays mounted between two protected ones, otherwise a
\* new page mounts its own useMe.
Visit(p, f) ==
    /\ path' = p
    /\ from' = f
    /\ me' \in IF path \in ProtectedPaths /\ p \in ProtectedPaths THEN {me}
               ELSE Mounts(me, cookie)
    /\ login' = [login EXCEPT !.mounted = @ /\ p = "/login"]
    /\ logout' = [logout EXCEPT !.mounted = @ /\ p \in ProtectedPaths]
    /\ UNCHANGED <<cookie, crashed>>

\* A link of the sidebar, or the browser's history, whose entries for /login keep
\* their state.
Browse ==
    /\ ~crashed
    /\ \E p \in Paths \ {path} :
        \E f \in IF p = "/login" THEN ProtectedPaths \union {"none"} ELSE {"none"} :
            Visit(p, f)

\* Variant: the guard waits for a query that succeeds.
RedirectToLogin_OnSuccess ==
    /\ ~crashed
    /\ path \in ProtectedPaths
    /\ me.status = "success"
    /\ ~me.has
    /\ Visit("/login", path)

\* ProtectedRoute: not pending and no user.
RedirectToLogin ==
    /\ ~crashed
    /\ path \in ProtectedPaths
    /\ me.status # "pending"
    /\ ~me.has
    /\ Visit("/login", path)

\* LoginPage: there is a user already.
LeaveLogin ==
    /\ ~crashed
    /\ path = "/login"
    /\ me.has
    /\ Visit("/", "none")

\* The person loads the page again, or types an address of the Console.
Reload == \/ Load(path, from)
          \/ \E p \in Paths : Load(p, "none")

-----------------------------------------------------------------------------
(* Login and logout.                                                       *)

\* The form's button is disabled while its request is in flight.  Bound: one login
\* in flight, also across two forms.
SubmitLogin(user) ==
    /\ FormShown
    /\ login.state = "idle"
    /\ login' = [state |-> "sent", user |-> user, mounted |-> TRUE]
    /\ UNCHANGED <<cookie, path, from, me, logout, crashed>>

RedirectTo == IF from = "none" THEN "/" ELSE from

\* The browser stores the cookie; the hook's onSuccess puts the user into the cache;
\* then the form, if it is still there, navigates.  LoginPage, which finds a user now,
\* navigates to "/" as well: which of the two comes last is up to React.
LoginAnswer ==
    /\ login.state = "sent"
    /\ cookie' = login.user
    /\ me' = SetData(me, login.user)
    /\ login' = NoLogin
    /\ IF login.mounted /\ ~crashed
       THEN path' \in {RedirectTo, "/"} /\ from' = "none"
       ELSE UNCHANGED <<path, from>>
    /\ UNCHANGED <<logout, crashed>>

\* Refused, or lost: the form shows an error.
LoginFails ==
    /\ login.state = "sent"
    /\ login' = NoLogin
    /\ UNCHANGED <<cookie, path, from, me, logout, crashed>>

\* The menu of NavUser.  Bound: one logout in flight.
SubmitLogout ==
    /\ ProtectedShown
    /\ logout.state = "idle"
    /\ logout' = [state |-> "sent", mounted |-> TRUE]
    /\ UNCHANGED <<cookie, path, from, me, login, crashed>>

\* Variant: the cookie is forgotten and the query is not.
ForgottenMe_NotRemoved(c) == Fetch(me, c)

\* onSettled of useLogout removes the query, and its request with it; the page that
\* shows it asks anew.
ForgottenMe(c) == IF crashed THEN NoMe ELSE Fetch(NoMe, c)

\* onSettled also runs when the request failed; the cookie is cleared when it did not.
LogoutSettles ==
    /\ logout.state = "sent"
    /\ cookie' \in {"nobody", cookie}
    /\ me' = ForgottenMe(cookie')
    /\ logout' = NoLogout
    /\ IF logout.mounted /\ ~crashed
       THEN path' = "/login" /\ from' = "none"
       ELSE UNCHANGED <<path, from>>
    /\ UNCHANGED <<login, crashed>>

-----------------------------------------------------------------------------
AnswerMe == MeAnswer \/ MeRefused \/ MeFails

SessionNext ==
    \/ AnswerMe
    \/ Reconnect
    \/ Expire
    \/ Browse
    \/ RedirectToLogin
    \/ LeaveLogin
    \/ Reload
    \/ \E user \in Users : SubmitLogin(user)
    \/ LoginAnswer
    \/ LoginFails
    \/ SubmitLogout
    \/ LogoutSettles

\* Requests end.  React carries out a redirect it has rendered at once; a person is
\* not always faster.
SessionSpec ==
    /\ SessionInit /\ [][SessionNext]_sessionVars
    /\ WF_sessionVars(AnswerMe)
    /\ SF_sessionVars(RedirectToLogin)
    /\ SF_sessionVars(LeaveLogin)

-----------------------------------------------------------------------------
(* Properties.                                                             *)

MeQueries ==
    [has : BOOLEAN, data : Users \union {"nobody"},
     status : {"pending", "success", "error"}, invalid : BOOLEAN,
     request : {"idle", "asked"}, carries : Cookies]

\* The query is pending exactly as long as there is no answer, and then it is being
\* fetched: no page waits for a request that was dropped.
SessionTypeOK ==
    /\ cookie \in Cookies
    /\ path \in Paths
    /\ from \in ProtectedPaths \union {"none"}
    /\ me \in MeQueries
    /\ me.has => me.data \in Users
    /\ ~me.has => me.status # "success"
    /\ me.status = "pending" => ~me.has /\ (crashed \/ IsFetching(me))
    /\ login \in [state : {"idle", "sent"}, user : Users \union {"nobody"},
                  mounted : BOOLEAN]
    /\ login.state = "sent" => login.user \in Users
    /\ logout \in [state : {"idle", "sent"}, mounted : BOOLEAN]
    /\ crashed \in BOOLEAN

\* Once a logout has cleared the cookie the Console shows nobody until the next
\* login, whatever requests were in flight with the old cookie.
LoggedOutForgets == cookie = "nobody" => ~me.has

\* What LoggedOutForgets needs to be inductive: no request in flight carries a user.
LoggedOutAsksForNobody ==
    cookie = "nobody" /\ IsFetching(me) => me.carries \notin Users

SessionInv == SessionTypeOK /\ LoggedOutForgets /\ LoggedOutAsksForNobody

\* A tab that is not empty comes to rest again and again: with the form and no user,
\* or with a protected page and a user.  No redirect goes round for ever, and no
\* skeleton stays.
SessionSettles == []<>(crashed \/ FormShown \/ ProtectedShown)
=============================================================================
