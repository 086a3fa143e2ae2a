----------------------------- MODULE AuthSession -----------------------------
(***************************************************************************)
(* Who is signed in, in one tab of the browser: the token and its storage  *)
(* (frontend/src/api/client.ts, api/auth.ts), AuthContext.tsx, LoginPage   *)
(* and the routes of App.tsx.  Workspace adds what is behind the login.    *)
(*                                                                         *)
(* A token is the account it was issued to.  A handler waits for its       *)
(* request to be answered or to fail; meanwhile the user goes on, and the  *)
(* component that runs it may be unmounted: its setState calls then have   *)
(* no effect, what it does to the context, storage and path still has.     *)
(***************************************************************************)
EXTENDS Naturals

CONSTANTS
    Accounts,
    NoOne,      \* null, an empty string
    Tasks,      \* handlers of LoginPage and logouts: a bound on how many wait
    MaxLoads    \* bound: how often the tab is reloaded

ASSUME AuthAssumption == NoOne \notin Accounts /\ MaxLoads \in Nat

Someone == Accounts \cup {NoOne}
Paths == {"login", "dashboard", "room", "elsewhere"}

VARIABLES
    cookie,     \* the HttpOnly session cookie, of all tabs
    legacy,     \* a token in localStorage, where it used to be kept; of all tabs
    token,      \* the token in sessionStorage, of this tab
    user,       \* AuthContext
    loading,
    asked,      \* the token that refresh sent with getMe, until it is answered
    path,       \* location.pathname, the room's id left out
    loads,      \* how often the tab was reloaded
    step,       \* LoginPage: the form that is shown,
    email,      \* its email field,
    busy,       \* and its loading
    doing,      \* what a handler waits for
    of,         \* the e-mail of its request
    attached    \* the handlers whose LoginPage is still mounted

form == <<step, email, busy, attached>>
tasks == <<doing, of>>
session == <<cookie, legacy, token, user, loading, asked, path, loads>>
authVars == <<session, form, tasks>>

AuthTypeOK ==
    /\ cookie \in Someone /\ legacy \in Someone /\ token \in Someone
    /\ user \in Someone /\ loading \in BOOLEAN /\ asked \in Someone
    /\ path \in Paths /\ loads \in 0..MaxLoads
    /\ step \in {"email", "otp"} /\ email \in Someone /\ busy \in BOOLEAN
    /\ doing \in [Tasks -> {"idle", "request", "verify", "logout"}]
    /\ of \in [Tasks -> Someone]
    /\ attached \subseteq Tasks

\* The tab has just been opened, perhaps as a copy of another; refresh has read
\* the token, and moved it if it was in localStorage.
AuthInit ==
    /\ cookie \in Someone /\ token \in Someone
    /\ legacy \in IF token = NoOne THEN {NoOne} ELSE Someone
    /\ user = NoOne /\ asked = token /\ loading = (token # NoOne)
    /\ path \in Paths /\ loads = 0
    /\ step = "email" /\ email = NoOne /\ busy = FALSE /\ attached = {}
    /\ doing = [t \in Tasks |-> "idle"] /\ of = [t \in Tasks |-> NoOne]

-----------------------------------------------------------------------------
(* The pages *)

LoginShown == ~loading /\ user = NoOne /\ path = "login"
ShellShown == ~loading /\ user # NoOne /\ path \in {"dashboard", "room"}

\* Where the routes lead: to path itself, or to what a <Navigate> names.
Target ==
    IF user = NoOne THEN "login"
    ELSE IF path \in {"dashboard", "room"} THEN path ELSE "dashboard"

\* LoginPage keeps its state for as long as it is shown.
RenderLogin ==
    IF LoginShown /\ LoginShown'
    THEN UNCHANGED form
    ELSE step' = "email" /\ email' = NoOne /\ busy' = FALSE /\ attached' = {}

-----------------------------------------------------------------------------
(* api/client.ts *)

Stored == IF token # NoOne THEN token ELSE legacy

\* readStoredToken moves a token from localStorage to sessionStorage.
Migrate == token' = Stored /\ legacy' = IF token = NoOne THEN NoOne ELSE legacy

SetToken(a) == token' = a /\ legacy' = NoOne
ClearToken == token' = NoOne /\ legacy' = NoOne

\* Mutant of Acting: the server looks at the cookie first.
ActingByCookie == IF cookie # NoOne THEN cookie ELSE Stored

\* The account that a request of this tab is taken to be from: the bearer's or,
\* without one, the cookie's.
Acting == IF Stored # NoOne THEN Stored ELSE cookie

-----------------------------------------------------------------------------
(* AuthContext *)

\* The tab is reloaded: nothing waits any more, and refresh reads the token.
Load(p) ==
    /\ loads < MaxLoads /\ loads' = loads + 1
    /\ path' = p
    /\ Migrate
    /\ user' = NoOne /\ asked' = Stored /\ loading' = (Stored # NoOne)
    /\ step' = "email" /\ email' = NoOne /\ busy' = FALSE /\ attached' = {}
    /\ doing' = [t \in Tasks |-> "idle"] /\ of' = [t \in Tasks |-> NoOne]
    /\ UNCHANGED cookie

Refreshed ==
    /\ asked # NoOne
    /\ user' = asked /\ asked' = NoOne /\ loading' = FALSE
    /\ UNCHANGED <<cookie, legacy, token, path, loads, tasks>>
    /\ RenderLogin

\* Mutant of RefreshFailed: loading ends only if getMe is answered.
RefreshHangs ==
    /\ asked # NoOne
    /\ ClearToken
    /\ user' = NoOne /\ asked' = NoOne
    /\ UNCHANGED <<cookie, loading, path, loads, tasks>>
    /\ RenderLogin

\* Whatever the failure is, also of the network: the token is given up.
RefreshFailed ==
    /\ asked # NoOne
    /\ ClearToken
    /\ user' = NoOne /\ asked' = NoOne /\ loading' = FALSE
    /\ UNCHANGED <<cookie, path, loads, tasks>>
    /\ RenderLogin

\* logoutSession is not waited for.
Logout(t) ==
    /\ ShellShown /\ doing[t] = "idle"
    /\ doing' = [doing EXCEPT ![t] = "logout"]
    /\ ClearToken
    /\ user' = NoOne
    /\ UNCHANGED <<cookie, loading, asked, path, loads, of>>
    /\ RenderLogin

\* The server has the browser delete the cookie, whosever it is by then.
LoggedOut(t) ==
    /\ doing[t] = "logout"
    /\ doing' = [doing EXCEPT ![t] = "idle"]
    /\ cookie' \in {cookie, NoOne}
    /\ UNCHANGED <<legacy, token, user, loading, asked, path, loads, form, of>>

-----------------------------------------------------------------------------
(* LoginPage *)

Typing == LoginShown /\ UNCHANGED session

\* The field is not disabled while a code is requested.
EditEmail(a) ==
    /\ Typing /\ step = "email" /\ email # a
    /\ email' = a
    /\ UNCHANGED <<step, busy, attached, tasks>>

Submit(t, what) ==
    /\ Typing /\ ~busy /\ email # NoOne
    /\ doing[t] = "idle"
    /\ doing' = [doing EXCEPT ![t] = what] /\ of' = [of EXCEPT ![t] = email]
    /\ busy' = TRUE /\ attached' = attached \cup {t}
    /\ UNCHANGED <<step, email>>

RequestOtp(t) == step = "email" /\ Submit(t, "request")
VerifyOtp(t) == step = "otp" /\ Submit(t, "verify")

UseOtherEmail ==
    /\ Typing /\ step = "otp"
    /\ step' = "email"
    /\ UNCHANGED <<email, busy, attached, tasks>>

Finish(t) ==
    /\ doing' = [doing EXCEPT ![t] = "idle"] /\ of' = [of EXCEPT ![t] = NoOne]
    /\ attached' = attached \ {t}
    /\ UNCHANGED <<session, email>>

Requested(t) ==
    /\ doing[t] = "request"
    /\ Finish(t)
    /\ IF t \in attached THEN step' = "otp" /\ busy' = FALSE ELSE UNCHANGED <<step, busy>>

\* Mutant of FormFailed: only an answer ends loading.
FormFailedBusy(t) ==
    /\ doing[t] \in {"request", "verify"}
    /\ Finish(t)
    /\ UNCHANGED <<step, busy>>

\* Of either form: the e-mail is not sent, the code is wrong, ...
FormFailed(t) ==
    /\ doing[t] \in {"request", "verify"}
    /\ Finish(t)
    /\ busy' = IF t \in attached THEN FALSE ELSE busy
    /\ UNCHANGED step

\* login, then navigate: also if LoginPage has been left in the meantime.
Verified(t) ==
    /\ doing[t] = "verify"
    /\ doing' = [doing EXCEPT ![t] = "idle"] /\ of' = [of EXCEPT ![t] = NoOne]
    /\ cookie' = of[t] /\ SetToken(of[t])
    /\ user' = of[t] /\ path' = "dashboard"
    /\ UNCHANGED <<loading, asked, loads>>
    /\ RenderLogin

-----------------------------------------------------------------------------
(* The browser *)

\* A link, or a step through the history.
Visit(p) ==
    /\ path' = p
    /\ UNCHANGED <<cookie, legacy, token, user, loading, asked, loads, tasks>>
    /\ RenderLogin

\* Mutant of Redirect: the page that asked for the login is kept.
RedirectBack ==
    /\ ~loading /\ path # Target
    /\ path' = IF user = NoOne THEN "login" ELSE "/"
    /\ UNCHANGED <<cookie, legacy, token, user, loading, asked, loads, tasks>>
    /\ RenderLogin

Redirect ==
    /\ ~loading /\ path # Target
    /\ path' = Target
    /\ UNCHANGED <<cookie, legacy, token, user, loading, asked, loads, tasks>>
    /\ RenderLogin

\* Another tab is opened, signs in or signs out.
OtherTab ==
    /\ cookie' \in Someone /\ legacy' \in {legacy, NoOne}
    /\ UNCHANGED <<token, user, loading, asked, path, loads, form, tasks>>

-----------------------------------------------------------------------------
(* Properties *)

\* The account that the tab shows is the one its requests are taken to be from,
\* although other tabs replace or delete the cookie that all tabs send, late
\* answers to a logout delete the cookie of a newer login, and verifications
\* that were given up may still be answered (README: HttpOnly session cookie
\* plus sessionStorage token).
ActsAsShown == user # NoOne => Acting = user
=============================================================================
