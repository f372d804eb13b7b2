---------------------------- MODULE AdminSession ----------------------------
(***************************************************************************)
(* The login of the admin UI (internal/admin/auth_handlers.go, server.go), *)
(* served by processes that start, stop and start again (Startup).  The    *)
(* one session token of a process is 32 random bytes made when the server  *)
(* is made: a cookie holds the token of a process, a token whose process   *)
(* is gone, or nothing.                                                    *)
(*                                                                         *)
(* The tabs of a browser share its cookie.  A request carries the cookie   *)
(* of the moment it is sent, is handled by whoever listens then (README    *)
(* puts nginx in front), and its answer may set the cookie when it comes.  *)
(***************************************************************************)
EXTENDS Startup

CONSTANTS
  Tabs,      \* tabs of one browser
  Logins,    \* what the login form may be filled with: functions over Keys
  NoCookie,  \* no cookie, or an empty one
  Stale      \* a token of a process that has stopped

ASSUME SessionAssumption ==
  /\ {NoCookie, Stale} \cap Processes = {}
  /\ Logins \subseteq [Keys -> Values]

VARIABLES
  cookie,   \* of the browser
  tab,      \* what each tab is doing
  admitted  \* history: processes that were given their credentials since they started

sessionVars == <<cookie, tab, admitted>>
vars == <<startupVars, sessionVars>>

Cookies == Processes \cup {NoCookie, Stale}
Quiet   == [state |-> "idle"]
Request == [state : {"sent"}, form : {"page", "logout", "wallet"}, cookie : Cookies]
             \cup [state : {"sent"}, form : {"login"}, cookie : Cookies, login : Logins]
\* An answer that sets the cookie; other answers leave the tab idle.
Answer  == [state : {"answered"}, cookie : Cookies]

\* The type of every variable.
SessionTypeOK ==
  /\ environment \in Environments /\ dotenv \in Files
  /\ tables \subseteq ToSet(Tables) /\ columns \subseteq ToSet(Columns)
  /\ stored \subseteq WalletIds /\ blank \subseteq stored
  /\ proc \in [Processes -> Process]
  /\ adminPort \in Processes \cup {NoProcess} /\ proxyPort \in Processes \cup {NoProcess}
  /\ stops \in 0..MaxStops
  /\ cookie \in Cookies
  /\ tab \in [Tabs -> {Quiet} \cup Request \cup Answer]
  /\ admitted \subseteq Processes

-----------------------------------------------------------------------------
Send(t, request) ==
  /\ tab[t] = Quiet
  /\ tab' = [tab EXCEPT ![t] = request]
  /\ UNCHANGED <<startupVars, cookie, admitted>>

Sent(t, form) == tab[t].state = "sent" /\ tab[t].form = form /\ adminPort # NoProcess

Done(t) == tab' = [tab EXCEPT ![t] = Quiet]

Authenticated(t) == tab[t].cookie = adminPort

\* requireAuth: without the token, the page of the login form.
HandlePage(t) ==
  /\ Sent(t, "page")
  /\ Done(t)
  /\ UNCHANGED <<startupVars, cookie, admitted>>

HandleCreateWallet(t, w) ==
  /\ Sent(t, "wallet")
  /\ Done(t)
  /\ IF Authenticated(t) THEN CreateWallet(w) ELSE UNCHANGED startupVars
  /\ UNCHANGED <<cookie, admitted>>

\* validAdminCredentials: user name and password are those of the process, which
\* Get never leaves empty.
ValidAdminCredentials(t) == tab[t].login = proc[adminPort].settings

\* Fault model: the cookie of a login is what was typed.
LoginWithOwnCookie(t) ==
  /\ Sent(t, "login")
  /\ IF ValidAdminCredentials(t)
     THEN /\ tab' = [tab EXCEPT ![t] = [state |-> "answered", cookie |-> tab[t].login]]
          /\ admitted' = admitted \cup {adminPort}
     ELSE Done(t) /\ UNCHANGED admitted
  /\ UNCHANGED <<startupVars, cookie>>

HandleLogin(t) ==
  /\ Sent(t, "login")
  /\ IF ValidAdminCredentials(t)
     THEN /\ tab' = [tab EXCEPT ![t] = [state |-> "answered", cookie |-> adminPort]]
          /\ admitted' = admitted \cup {adminPort}
     ELSE Done(t) /\ UNCHANGED admitted
  /\ UNCHANGED <<startupVars, cookie>>

\* The cookie is cleared whether or not it was valid, and the token stays.
HandleLogout(t) ==
  /\ Sent(t, "logout")
  /\ tab' = [tab EXCEPT ![t] = [state |-> "answered", cookie |-> NoCookie]]
  /\ UNCHANGED <<startupVars, cookie, admitted>>

Receive(t) ==
  /\ tab[t].state = "answered"
  /\ cookie' = tab[t].cookie
  /\ Done(t)
  /\ UNCHANGED <<startupVars, admitted>>

\* The connection breaks before the request is handled or the answer is here.
Lose(t) ==
  /\ tab[t] # Quiet
  /\ Done(t)
  /\ UNCHANGED <<startupVars, cookie, admitted>>

-----------------------------------------------------------------------------
Retired(c, p) == IF c = p THEN Stale ELSE c

\* Fault model: the token is computed from the credentials.
SameToken(p) == UNCHANGED <<cookie, tab>> /\ admitted' = admitted \ {p}

\* A new token: the old one is nobody's any more.
NewSessionToken(p) ==
  /\ cookie' = Retired(cookie, p)
  /\ tab' = [t \in Tabs |-> IF tab[t] = Quiet THEN Quiet
                            ELSE [tab[t] EXCEPT !.cookie = Retired(@, p)]]
  /\ admitted' = admitted \ {p}

New(p) == Wire(p) /\ NewSessionToken(p)

MainStep(p) == \/ New(p)
               \/ (Start(p) \/ Migrating(p) \/ ListenProxy(p)) /\ UNCHANGED sessionVars

AdminListener(p) == ListenAdmin(p) /\ UNCHANGED sessionVars

BrowserStep(t) ==
  \/ \E form \in {"page", "logout", "wallet"} :
       Send(t, [state |-> "sent", form |-> form, cookie |-> cookie])
  \/ \E login \in Logins :
       Send(t, [state |-> "sent", form |-> "login", cookie |-> cookie, login |-> login])
  \/ Receive(t) \/ Lose(t)

AdminStep(t) == \/ HandlePage(t) \/ HandleLogin(t) \/ HandleLogout(t)
                \/ \E w \in WalletIds : HandleCreateWallet(t, w)

Next == \/ \E p \in Processes : \/ MainStep(p) \/ AdminListener(p)
                                \/ Stop(p) /\ UNCHANGED sessionVars
        \/ \E t \in Tabs : BrowserStep(t) \/ AdminStep(t)
        \/ Edit /\ UNCHANGED sessionVars

Init == StartupInit /\ cookie = NoCookie /\ tab = [t \in Tabs |-> Quiet] /\ admitted = {}

Spec == Init /\ [][Next]_vars

\* A goroutine that can go on does, and a process that has ended is started again.
Fairness == \A p \in Processes : WF_vars(MainStep(p)) /\ WF_vars(AdminListener(p))

LiveSpec == Spec /\ Fairness

-----------------------------------------------------------------------------
(* What makes the start and the login correct.                             *)

\* Whoever serves finds every table and column, and no wallet without an
\* endpoint, wherever earlier starts were cut short and whoever else migrated
\* (Migrate runs every statement on every start).
ServingIsMigrated ==
  (\E p \in Processes : proc[p].pc \in {"wire", "listen", "serving"} \/ adminPort = p) =>
    tables = ToSet(Tables) /\ columns = ToSet(Columns) /\ blank = {}

\* A process works with what the environment says, else with the first line of
\* .env that says anything, else with the default, as they were when it started.
InForce(key) ==
  LET lines == <<[key |-> key, value |-> environment[key]]>> \o dotenv
      said  == {i \in DOMAIN lines : lines[i].key = key /\ lines[i].value # Unset}
  IN  IF said = {} THEN "admin" ELSE lines[Min(said)].value

SettingsInForce ==
  [][\A p \in Processes : proc[p].pc = "down" /\ proc'[p].pc # "down" =>
       proc'[p].settings = [key \in Keys |-> InForce(key)]]_vars

\* The administrator's data change only through a process that was given its
\* credentials since it started: no token outlives its process, however
\* requests, answers, logouts and restarts cross each other.
ChangesNeedLogin == [][stored' # stored => adminPort \in admitted]_vars

\* However two processes collide on columns and ports, and wherever one is
\* stopped, there comes a time from which the proxy is served.
EventuallyServing == <>[](proxyPort # NoProcess)
=============================================================================
