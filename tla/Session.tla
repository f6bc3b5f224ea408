------------------------------- MODULE Session -------------------------------
(***************************************************************************)
(* Who is signed in: the tabs of one browser                               *)
(* (web/src/hooks/useAuth.ts, web/src/App.tsx, web/src/pages/AuthPage.tsx) *)
(* against the server (internal/api/auth_handlers.go,                      *)
(* internal/auth/auth.go). Tabs share the cookie and nothing else: each    *)
(* has its own answer of /api/auth/me and its own CSRF token, which every  *)
(* request but a GET must carry. The server is external to the tabs' code. *)
(* The modes without login are not modelled. One user name is enough.      *)
(***************************************************************************)
EXTENDS Naturals

CONSTANTS
    Tabs,
    Ids,        \* sessions: cookie and CSRF token of a session are one value
    MaxClicks,  \* bound on what the user does
    MaxEvents   \* bound on expiries, reconnections and lost answers

\* What the constants are: assumed by Pages.
SessionConstants ==
    /\ Ids \subseteq Nat \ {0}
    /\ MaxClicks \in Nat /\ MaxEvents \in Nat

None == 0       \* no cookie, no token

VARIABLES
    admins,     \* rows of the table of users
    valid,      \* sessions that the server knows
    given,      \* sessions there have been
    cookie,     \* the browser's
    page,       \* what a tab shows: "loading", "setup", "login", "app", or "error"
    token,      \* csrfToken, a variable of the tab's module api
    me,         \* the tab's request for /api/auth/me, with the cookie it carries;
                \* late is history: why its answer may be wrong
    dropped,    \* sessions whose token a request for it still brings that was dropped
    act,        \* its request to set up, log in or log out
    doubt,      \* history: why a tab may be wrong
    clicks, events

server == <<admins, valid, given>>
vars == <<server, cookie, page, token, me, dropped, act, doubt, clicks, events>>

Quiet == [stage |-> "idle", with |-> None, says |-> "loading", id |-> None, late |-> {}]
Rest  == [do |-> "rest", stage |-> "idle", with |-> None, id |-> None]

Screens == {"loading", "setup", "login", "app", "error"}
Reasons == {"overtaken", "elsewhere", "expired", "lost"}

\* Requests that carry, or bring, one of the sessions g or none.
Asked(g) == [stage : {"idle", "sent", "answered"}, with : g \cup {None},
             says : Screens, id : g \cup {None}, late : SUBSET Reasons]
Doing(g) == [do : {"rest", "setup", "login", "logout"},
             stage : {"idle", "sent", "checked", "good", "bad"},
             with : g \cup {None}, id : g \cup {None}]

TypeOK ==
    /\ admins \in Nat
    /\ valid \subseteq given /\ given \subseteq Ids
    /\ cookie \in given \cup {None}
    /\ page \in [Tabs -> Screens]
    /\ token \in [Tabs -> given \cup {None}]
    /\ me \in [Tabs -> Asked(given)]
    /\ dropped \in [Tabs -> SUBSET given]
    /\ act \in [Tabs -> Doing(given)]
    /\ \A t \in Tabs : act[t].do = "rest" <=> act[t].stage = "idle"
    /\ doubt \in [Tabs -> SUBSET Reasons]
    /\ clicks \in 0..MaxClicks /\ events \in 0..MaxEvents

\* The server has an administrator or not; the tabs ask who they are.
Init ==
    /\ admins \in 0..1 /\ valid = {} /\ given = {} /\ cookie = None
    /\ page = [t \in Tabs |-> "loading"] /\ token = [t \in Tabs |-> None]
    /\ me = [t \in Tabs |-> [Quiet EXCEPT !.stage = "sent"]]
    /\ dropped = [t \in Tabs |-> {}]
    /\ act = [t \in Tabs |-> Rest]
    /\ doubt = [t \in Tabs |-> {}]
    /\ clicks = 0 /\ events = 0

Click == clicks < MaxClicks /\ clicks' = clicks + 1 /\ UNCHANGED events
Event == events < MaxEvents /\ events' = events + 1 /\ UNCHANGED clicks

\* The cause r makes what the tabs in T know, or are being told, wrong.
Later(T, r) == [t \in Tabs |->
    IF t \in T /\ me[t].stage # "idle" THEN [me[t] EXCEPT !.late = @ \cup {r}] ELSE me[t]]
Wrong(T, r) == [t \in Tabs |-> doubt[t] \cup {x \in {r} : t \in T}]

Others(t) == Tabs \ {t}

\* AuthPage and the button "Log out": off while the request is under way.
Submit(t, do) ==
    /\ act[t].do = "rest"
    /\ page[t] = (IF do = "logout" THEN "app" ELSE do)
    /\ Click
    /\ act' = [act EXCEPT ![t] = [do |-> do, stage |-> "sent", with |-> cookie, id |-> None]]
    /\ UNCHANGED <<server, cookie, dropped, page, token, me, doubt>>

\* handleAuthSetup asks whether there are users, and then creates one.
CheckSetup(t) ==
    /\ act[t].do = "setup" /\ act[t].stage = "sent"
    /\ act' = [act EXCEPT ![t].stage = IF admins = 0 THEN "checked" ELSE "bad"]
    /\ UNCHANGED <<server, cookie, dropped, page, token, me, doubt, clicks, events>>

\* A session begins, after the user was created or the password was right. What the
\* tabs know of the administrator or of the cookie is old.
Begin(t) ==
    \E s \in Ids \ given :
        /\ given' = given \cup {s} /\ valid' = valid \cup {s}
        /\ act' = [act EXCEPT ![t].stage = "good", ![t].id = s]

CreateUser(t) ==
    /\ act[t].do = "setup" /\ act[t].stage = "checked"
    /\ \/ admins' = admins + 1 /\ Begin(t)
       \/ /\ act' = [act EXCEPT ![t].stage = "bad"]
          /\ \/ admins' = admins + 1              \* the login that follows fails
             \/ UNCHANGED admins                 \* refused: the name is taken, say
          /\ UNCHANGED <<valid, given>>
    /\ me' = Later(Others(t), "elsewhere") /\ doubt' = Wrong(Others(t), "elsewhere")
    /\ UNCHANGED <<cookie, dropped, page, token, clicks, events>>

Login(t) ==
    /\ act[t].do = "login" /\ act[t].stage = "sent"
    /\ \/ admins > 0 /\ Begin(t)
       \/ act' = [act EXCEPT ![t].stage = "bad"] /\ UNCHANGED <<valid, given>>
    /\ UNCHANGED <<admins, cookie, dropped, page, token, me, doubt, clicks, events>>

\* It deletes the session of the request's cookie, if it has one.
Logout(t) ==
    /\ act[t].do = "logout" /\ act[t].stage = "sent"
    /\ valid' = valid \ {act[t].with}
    /\ act' = [act EXCEPT ![t].stage = "good"]
    /\ me' = Later(Others(t), "elsewhere") /\ doubt' = Wrong(Others(t), "elsewhere")
    /\ UNCHANGED <<admins, given, cookie, dropped, page, token, clicks, events>>

\* Broken: the token is not kept.
SignedInWithoutToken(t) ==
    /\ act[t].do \in {"setup", "login"} /\ act[t].stage = "good"
    /\ cookie' = act[t].id /\ page' = [page EXCEPT ![t] = "app"]
    /\ act' = [act EXCEPT ![t] = Rest]
    /\ me' = [Later(Others(t), "elsewhere") EXCEPT ![t] = Later({t}, "overtaken")[t]]
    /\ doubt' = [Wrong(Others(t), "elsewhere") EXCEPT ![t] = {}]
    /\ UNCHANGED <<server, dropped, token, clicks, events>>

\* The answer sets the cookie of all tabs, and token and page of this one. It leaves
\* a request for /api/auth/me alone that is under way.
SignedIn(t) ==
    /\ act[t].do \in {"setup", "login"} /\ act[t].stage = "good"
    /\ cookie' = act[t].id
    /\ token' = [token EXCEPT ![t] = act[t].id] /\ page' = [page EXCEPT ![t] = "app"]
    /\ act' = [act EXCEPT ![t] = Rest]
    /\ me' = [Later(Others(t), "elsewhere") EXCEPT ![t] = Later({t}, "overtaken")[t]]
    /\ doubt' = [Wrong(Others(t), "elsewhere") EXCEPT
                    ![t] = {r \in {"expired"} : act[t].id \notin valid}]
    /\ UNCHANGED <<server, dropped, clicks, events>>

\* The token that the answer to a request for /api/auth/me brings, or may still.
Brings(m) ==
    IF m.stage = "answered" THEN {m.id} \ {None}
    ELSE IF m.stage = "sent" THEN {m.with} \cap valid ELSE {}

\* Logged out: the cookie goes, and the tab asks again who it is. An older request
\* for that is dropped, but not what reads its answer.
SignedOut(t) ==
    /\ act[t].do = "logout" /\ act[t].stage = "good"
    /\ cookie' = None
    /\ token' = [token EXCEPT ![t] = None]
    /\ act' = [act EXCEPT ![t] = Rest]
    /\ me' = [Later(Others(t), "elsewhere") EXCEPT ![t] = [Quiet EXCEPT !.stage = "sent"]]
    /\ dropped' = [dropped EXCEPT ![t] = @ \cup Brings(me[t])]
    /\ doubt' = Wrong(Others(t), "elsewhere")
    /\ UNCHANGED <<server, page, clicks, events>>

\* Refused: the page says so, and knows no more than before.
Rejected(t) ==
    /\ act[t].stage = "bad"
    /\ act' = [act EXCEPT ![t] = Rest]
    /\ UNCHANGED <<server, cookie, dropped, page, token, me, doubt, clicks, events>>

\* The answer gets lost; the server may have done what it was asked.
ActLost(t) ==
    /\ act[t].stage # "idle"
    /\ Event
    /\ act' = [act EXCEPT ![t] = Rest]
    /\ me' = Later({t}, "lost") /\ doubt' = Wrong({t}, "lost")
    /\ UNCHANGED <<server, cookie, dropped, page, token>>

\* Where there is no user the setup is required.
Answer(t) ==
    /\ me[t].stage = "sent"
    /\ me' = [me EXCEPT ![t] =
                [stage |-> "answered", with |-> me[t].with, late |-> me[t].late,
                 id |-> IF me[t].with \in valid THEN me[t].with ELSE None,
                 says |-> IF admins = 0 THEN "setup"
                          ELSE IF me[t].with \in valid THEN "app" ELSE "login"]]
    /\ UNCHANGED <<server, cookie, dropped, page, token, act, doubt, clicks, events>>

\* An answer without a token leaves the old one.
Receive(t) ==
    /\ me[t].stage = "answered"
    /\ page' = [page EXCEPT ![t] = me[t].says]
    /\ token' = [token EXCEPT ![t] = IF me[t].id # None THEN me[t].id ELSE @]
    /\ doubt' = [doubt EXCEPT ![t] = me[t].late]
    /\ me' = [me EXCEPT ![t] = Quiet]
    /\ UNCHANGED <<server, cookie, dropped, act, clicks, events>>

\* The function that fetches keeps the token, for an answer that nobody asks for any
\* more too.
DroppedArrives(t) ==
    \E s \in dropped[t] :
        /\ dropped' = [dropped EXCEPT ![t] = @ \ {s}]
        /\ token' = [token EXCEPT ![t] = s]
        /\ doubt' = Wrong({x \in {t} : page[x] = "app"}, "overtaken")
        /\ UNCHANGED <<server, cookie, page, me, act, clicks, events>>

\* It fails: the page says that the server cannot be reached, whatever it knew.
MeFails(t) ==
    /\ me[t].stage # "idle"
    /\ Event
    /\ page' = [page EXCEPT ![t] = "error"]
    /\ doubt' = Wrong({t}, "lost")
    /\ me' = [me EXCEPT ![t] = Quiet]
    /\ UNCHANGED <<server, cookie, dropped, token, act>>

\* A tab asks again when the network comes back and its answer is older than five
\* minutes, and when the user loads it again, which loses what it knew.
AskAgain(t) ==
    /\ me[t].stage = "idle"
    /\ Event
    /\ me' = [me EXCEPT ![t] = [Quiet EXCEPT !.stage = "sent", !.with = cookie]]
    /\ \/ UNCHANGED <<page, token, dropped>>
       \/ /\ act[t].do = "rest" /\ dropped' = [dropped EXCEPT ![t] = {}]
          /\ page' = [page EXCEPT ![t] = "loading"] /\ token' = [token EXCEPT ![t] = None]
    /\ UNCHANGED <<server, cookie, act, doubt>>

\* A session ends by itself. No tab looks at the status 401 of what it asks for then.
Expire(s) ==
    /\ s \in valid
    /\ Event
    /\ valid' = valid \ {s}
    /\ me' = Later(Tabs, "expired") /\ doubt' = Wrong(Tabs, "expired")
    /\ UNCHANGED <<admins, given, cookie, dropped, page, token, act>>

Next ==
    \/ \E t \in Tabs :
        \/ \E do \in {"setup", "login", "logout"} : Submit(t, do)
        \/ CheckSetup(t) \/ CreateUser(t) \/ Login(t) \/ Logout(t)
        \/ SignedIn(t) \/ SignedOut(t) \/ Rejected(t) \/ ActLost(t)
        \/ Answer(t) \/ Receive(t) \/ DroppedArrives(t) \/ MeFails(t) \/ AskAgain(t)
    \/ \E s \in Ids : Expire(s)

Spec == Init /\ [][Next]_vars

-----------------------------------------------------------------------------
\* A tab with nothing under way shows the application exactly if the browser's cookie
\* is a session, and its requests then carry that session's CSRF token
\* (useAuth.ts:10-14, 27, 50; api.ts:22), except for four reasons: an answer to
\* /api/auth/me was older than the login, or came to a request that had been dropped;
\* another tab signed in or out; the session expired; an answer was lost.
SignedInForAReason ==
    \A t \in Tabs :
        (me[t].stage = "idle" /\ act[t].do = "rest" /\ doubt[t] = {}) =>
            /\ page[t] = "app" <=> cookie \in valid
            /\ page[t] = "app" => token[t] = cookie

-----------------------------------------------------------------------------
(* Why it holds.                                                           *)

\* The server has ended the tab's session, and the tab has not heard of it.
LoggedOut(t) == act[t].do = "logout" /\ act[t].stage = "good"

\* Only an administrator signs in, and a login that succeeded made a session.
ServerInv ==
    /\ valid # {} => admins > 0
    /\ \A t \in Tabs : (act[t].do \in {"setup", "login"} /\ act[t].stage = "good")
                            => act[t].id # None

\* What a tab is being told is true of the browser's cookie, if nothing overtook it.
AnswerInv ==
    \A t \in Tabs : (me[t].stage # "idle" /\ me[t].late = {} /\ ~LoggedOut(t)) =>
        /\ me[t].with = cookie
        /\ me[t].stage = "answered" =>
            /\ me[t].says = "app" <=> cookie \in valid
            /\ cookie \in valid => me[t].id = cookie

\* What it shows is true, also while it waits for an answer of another kind.
ScreenInv ==
    \A t \in Tabs : (me[t].stage = "idle" /\ doubt[t] = {} /\ ~LoggedOut(t)) =>
        /\ page[t] = "app" <=> cookie \in valid
        /\ page[t] = "app" => token[t] = cookie

SessionInv == ServerInv /\ AnswerInv /\ ScreenInv
=============================================================================
