---------------------------- MODULE SessionProofs ----------------------------
(***************************************************************************)
(* Theorems about Session, for any number of tabs, of sessions, of clicks  *)
(* and of lost answers.                                                    *)
(***************************************************************************)
EXTENDS Session, TLAPS

\* What Later and Wrong do to one tab.
LEMMA Marks ==
    ASSUME NEW T \in SUBSET Tabs, NEW r \in Reasons, TypeOK, NEW t \in Tabs
    PROVE  /\ t \in T /\ me[t].stage # "idle" => Later(T, r)[t].late # {}
           /\ t \notin T => Later(T, r)[t] = me[t] /\ Wrong(T, r)[t] = doubt[t]
           /\ Later(T, r)[t].stage = me[t].stage
           /\ t \in T => Wrong(T, r)[t] # {}
BY DEF Later, Wrong, TypeOK, Asked

\* More sessions, more requests.
LEMMA RequestsGrow ==
    ASSUME NEW g, NEW h, g \subseteq h
    PROVE  Asked(g) \subseteq Asked(h) /\ Doing(g) \subseteq Doing(h)
BY DEF Asked, Doing

\* Marking keeps the types.
LEMMA MarkTypes ==
    ASSUME NEW T \in SUBSET Tabs, NEW r \in Reasons, TypeOK
    PROVE  Later(T, r) \in [Tabs -> Asked(given)] /\ Wrong(T, r) \in [Tabs -> SUBSET Reasons]
BY DEF Later, Wrong, TypeOK, Asked

\* The request of a tab gets on, or is over.
LEMMA ActTypes ==
    ASSUME TypeOK, NEW t \in Tabs
    PROVE  /\ \A s \in {"checked", "good", "bad"} :
                act[t].do # "rest" =>
                    [act EXCEPT ![t].stage = s] \in [Tabs -> Doing(given)]
           /\ [act EXCEPT ![t] = Rest] \in [Tabs -> Doing(given)]
BY DEF TypeOK, Doing, Rest

\* A step keeps the types.
LEMMA StepType ==
    ASSUME SessionConstants, TypeOK, [Next]_vars
    PROVE  TypeOK'
<1>. USE DEF SessionConstants
<1>1. ASSUME NEW t \in Tabs, NEW do \in {"setup", "login", "logout"}, Submit(t, do)
      PROVE  TypeOK'
    <2>1. [do |-> do, stage |-> "sent", with |-> cookie, id |-> None] \in Doing(given)
        BY DEF TypeOK, Doing
    <2>2. act' \in [Tabs -> Doing(given)]
        BY <1>1, <2>1 DEF TypeOK, Submit
    <2>3. \A u \in Tabs : act'[u].do = "rest" <=> act'[u].stage = "idle"
        BY <1>1 DEF TypeOK, Submit
    <2>. QED
        BY <1>1, <2>2, <2>3 DEF TypeOK, server, Submit, Click
<1>2. ASSUME NEW t \in Tabs, CheckSetup(t)
      PROVE  TypeOK'
    <2>1. act' \in [Tabs -> Doing(given)]
        BY <1>2, ActTypes DEF CheckSetup
    <2>2. \A u \in Tabs : act'[u].do = "rest" <=> act'[u].stage = "idle"
        BY <1>2 DEF TypeOK, CheckSetup, Doing
    <2>. QED
        BY <1>2, <2>1, <2>2 DEF TypeOK, server, CheckSetup
<1>3. ASSUME NEW t \in Tabs, Begin(t), act[t].do # "rest"
      PROVE  /\ given \subseteq given' /\ valid' \subseteq given' /\ given' \subseteq Ids
             /\ act' \in [Tabs -> Doing(given')]
             /\ \A u \in Tabs : act'[u].do = "rest" <=> act'[u].stage = "idle"
    <2>1. PICK s \in Ids \ given :
            /\ given' = given \cup {s} /\ valid' = valid \cup {s}
            /\ act' = [act EXCEPT ![t].stage = "good", ![t].id = s]
        BY <1>3 DEF Begin
    <2>2. act'[t] = [act[t] EXCEPT !.stage = "good", !.id = s]
        BY <2>1 DEF TypeOK
    <2>3. act'[t] \in Doing(given')
        <3>1. act[t] \in Doing(given') /\ s \in given'
            BY <2>1, RequestsGrow DEF TypeOK
        <3>. QED
            BY <2>2, <3>1 DEF Doing
    <2>4. \A u \in Tabs \ {t} : act'[u] = act[u]
        BY <2>1 DEF TypeOK
    <2>5. \A u \in Tabs : act'[u] \in Doing(given')
        BY <2>1, <2>3, <2>4, RequestsGrow DEF TypeOK
    <2>6. act' \in [Tabs -> Doing(given')]
        BY <2>1, <2>5 DEF TypeOK
    <2>7. act'[t].do = act[t].do /\ act'[t].stage = "good"
        BY <2>2 DEF TypeOK, Doing
    <2>. QED
        BY <1>3, <2>1, <2>4, <2>6, <2>7 DEF TypeOK
<1>4. ASSUME NEW t \in Tabs, CreateUser(t)
      PROVE  TypeOK'
    <2>1. /\ me' \in [Tabs -> Asked(given)]
          /\ doubt' \in [Tabs -> SUBSET Reasons]
        BY <1>4, MarkTypes DEF CreateUser, Others, Reasons
    <2>2. CASE admins' = admins + 1 /\ Begin(t)
        <3>1. Asked(given) \subseteq Asked(given')
            BY <1>3, <1>4, <2>2, RequestsGrow DEF CreateUser
        <3>2. me' \in [Tabs -> Asked(given')]
            BY <2>1, <3>1
        <3>. QED
            BY <1>3, <1>4, <2>1, <2>2, <3>2 DEF TypeOK, CreateUser
    <2>3. CASE /\ act' = [act EXCEPT ![t].stage = "bad"]
               /\ admins' \in {admins, admins + 1} /\ UNCHANGED <<valid, given>>
        <3>1. act' \in [Tabs -> Doing(given)]
            BY <1>4, <2>3, ActTypes DEF CreateUser
        <3>2. \A u \in Tabs : act'[u].do = "rest" <=> act'[u].stage = "idle"
            BY <1>4, <2>3 DEF TypeOK, CreateUser, Doing
        <3>. QED
            BY <1>4, <2>1, <2>3, <3>1, <3>2 DEF TypeOK, CreateUser
    <2>. QED
        BY <1>4, <2>2, <2>3 DEF CreateUser
<1>5. ASSUME NEW t \in Tabs, Login(t)
      PROVE  TypeOK'
    <2>1. CASE Begin(t)
        <3>1. Asked(given) \subseteq Asked(given')
            BY <1>3, <1>5, <2>1, RequestsGrow DEF Login
        <3>2. me' \in [Tabs -> Asked(given')]
            BY <1>5, <3>1 DEF Login, TypeOK
        <3>. QED
            BY <1>3, <1>5, <2>1, <3>2 DEF TypeOK, Login
    <2>2. CASE act' = [act EXCEPT ![t].stage = "bad"] /\ UNCHANGED <<valid, given>>
        <3>1. act' \in [Tabs -> Doing(given)]
            BY <1>5, <2>2, ActTypes DEF Login
        <3>2. \A u \in Tabs : act'[u].do = "rest" <=> act'[u].stage = "idle"
            BY <1>5, <2>2 DEF TypeOK, Login, Doing
        <3>. QED
            BY <1>5, <2>2, <3>1, <3>2 DEF TypeOK, Login
    <2>. QED
        BY <1>5, <2>1, <2>2 DEF Login
<1>6. ASSUME NEW t \in Tabs, Logout(t)
      PROVE  TypeOK'
    <2>1. /\ me' \in [Tabs -> Asked(given)]
          /\ doubt' \in [Tabs -> SUBSET Reasons]
        BY <1>6, MarkTypes DEF Logout, Others, Reasons
    <2>2. act' \in [Tabs -> Doing(given)]
        BY <1>6, ActTypes DEF Logout
    <2>3. \A u \in Tabs : act'[u].do = "rest" <=> act'[u].stage = "idle"
        BY <1>6 DEF TypeOK, Logout, Doing
    <2>. QED
        BY <1>6, <2>1, <2>2, <2>3 DEF TypeOK, Logout
<1>7. ASSUME NEW t \in Tabs, SignedIn(t)
      PROVE  TypeOK'
    <2>1. act[t].id \in given \cup {None}
        BY DEF TypeOK, Doing
    <2>2. me' \in [Tabs -> Asked(given)]
        BY <1>7, MarkTypes DEF SignedIn, Others, Reasons
    <2>3. doubt' \in [Tabs -> SUBSET Reasons]
        BY <1>7, MarkTypes DEF SignedIn, Others, Reasons
    <2>4. act' \in [Tabs -> Doing(given)]
        BY <1>7, ActTypes DEF SignedIn
    <2>5. \A u \in Tabs : act'[u].do = "rest" <=> act'[u].stage = "idle"
        BY <1>7 DEF TypeOK, SignedIn, Rest
    <2>. QED
        BY <1>7, <2>1, <2>2, <2>3, <2>4, <2>5 DEF TypeOK, server, SignedIn, Screens
<1>8. ASSUME NEW t \in Tabs, SignedOut(t)
      PROVE  TypeOK'
    <2>1. [Quiet EXCEPT !.stage = "sent"] \in Asked(given)
        BY DEF Quiet, Asked, Screens
    <2>2. me' \in [Tabs -> Asked(given)]
        BY <1>8, <2>1, MarkTypes DEF SignedOut, Others, Reasons
    <2>3. doubt' \in [Tabs -> SUBSET Reasons]
        BY <1>8, MarkTypes DEF SignedOut, Others, Reasons
    <2>4. act' \in [Tabs -> Doing(given)]
        BY <1>8, ActTypes DEF SignedOut
    <2>5. \A u \in Tabs : act'[u].do = "rest" <=> act'[u].stage = "idle"
        BY <1>8 DEF TypeOK, SignedOut, Rest
    <2>6. dropped' \in [Tabs -> SUBSET given]
        <3>1. Brings(me[t]) \subseteq given
            BY DEF TypeOK, Asked, Brings
        <3>. QED
            BY <1>8, <3>1 DEF TypeOK, SignedOut
    <2>. QED
        BY <1>8, <2>2, <2>3, <2>4, <2>5, <2>6 DEF TypeOK, server, SignedOut
<1>9. ASSUME NEW t \in Tabs, Rejected(t) \/ ActLost(t)
      PROVE  TypeOK'
    <2>1. act' = [act EXCEPT ![t] = Rest]
        BY <1>9 DEF Rejected, ActLost
    <2>2. act' \in [Tabs -> Doing(given)]
        BY <2>1, ActTypes
    <2>3. \A u \in Tabs : act'[u].do = "rest" <=> act'[u].stage = "idle"
        BY <2>1 DEF TypeOK, Rest
    <2>4. me' \in [Tabs -> Asked(given)] /\ doubt' \in [Tabs -> SUBSET Reasons]
        <3>1. Later({t}, "lost") \in [Tabs -> Asked(given)]
              /\ Wrong({t}, "lost") \in [Tabs -> SUBSET Reasons]
            BY MarkTypes DEF Reasons
        <3>. QED
            BY <1>9, <3>1 DEF Rejected, ActLost, TypeOK
    <2>5. clicks' \in 0..MaxClicks /\ events' \in 0..MaxEvents
        BY <1>9 DEF TypeOK, Rejected, ActLost, Event
    <2>. QED
        BY <1>9, <2>2, <2>3, <2>4, <2>5 DEF TypeOK, server, Rejected, ActLost
<1>10. ASSUME NEW t \in Tabs, Answer(t)
       PROVE  TypeOK'
    <2>1. me'[t] \in Asked(given)
        BY <1>10 DEF TypeOK, Answer, Asked, Screens
    <2>2. me' \in [Tabs -> Asked(given)]
        BY <1>10, <2>1 DEF TypeOK, Answer
    <2>. QED
        BY <1>10, <2>2 DEF TypeOK, server, Answer
<1>11. Quiet \in Asked(given)
    BY DEF Quiet, Asked, Screens
<1>12. ASSUME NEW t \in Tabs, Receive(t) \/ MeFails(t)
       PROVE  TypeOK'
    <2>1. me' \in [Tabs -> Asked(given)]
        BY <1>11, <1>12 DEF TypeOK, Receive, MeFails
    <2>2. me[t].late \in SUBSET Reasons /\ me[t].id \in given \cup {None} /\ me[t].says \in Screens
        BY DEF TypeOK, Asked
    <2>3. doubt' \in [Tabs -> SUBSET Reasons]
        <3>1. Wrong({t}, "lost") \in [Tabs -> SUBSET Reasons]
            BY MarkTypes DEF Reasons
        <3>. QED
            BY <1>12, <2>2, <3>1 DEF TypeOK, Receive, MeFails
    <2>4. page' \in [Tabs -> Screens] /\ token' \in [Tabs -> given \cup {None}]
        BY <1>12, <2>2 DEF TypeOK, Receive, MeFails, Screens
    <2>5. clicks' \in 0..MaxClicks /\ events' \in 0..MaxEvents
        BY <1>12 DEF TypeOK, Receive, MeFails, Event
    <2>. QED
        BY <1>12, <2>1, <2>3, <2>4, <2>5 DEF TypeOK, server, Receive, MeFails
<1>13. ASSUME NEW t \in Tabs, AskAgain(t)
       PROVE  TypeOK'
    <2>1. [Quiet EXCEPT !.stage = "sent", !.with = cookie] \in Asked(given)
        BY DEF Quiet, Asked, Screens, TypeOK
    <2>2. me' \in [Tabs -> Asked(given)]
        BY <1>13, <2>1 DEF TypeOK, AskAgain
    <2>3. page' \in [Tabs -> Screens] /\ token' \in [Tabs -> given \cup {None}]
        BY <1>13 DEF TypeOK, AskAgain, Screens
    <2>4. dropped' \in [Tabs -> SUBSET given]
        BY <1>13 DEF TypeOK, AskAgain
    <2>. QED
        BY <1>13, <2>2, <2>3, <2>4 DEF TypeOK, server, AskAgain, Event
<1>14. ASSUME NEW s \in Ids, Expire(s)
       PROVE  TypeOK'
    <2>1. me' \in [Tabs -> Asked(given)] /\ doubt' \in [Tabs -> SUBSET Reasons]
        BY <1>14, MarkTypes DEF Expire, Reasons
    <2>. QED
        BY <1>14, <2>1 DEF TypeOK, Expire, Event
<1>15. ASSUME UNCHANGED vars
       PROVE  TypeOK'
    BY <1>15 DEF TypeOK, vars, server
<1>16. ASSUME NEW t \in Tabs, DroppedArrives(t)
       PROVE  TypeOK'
    <2>1. PICK s \in dropped[t] : /\ dropped' = [dropped EXCEPT ![t] = @ \ {s}]
                                  /\ token' = [token EXCEPT ![t] = s]
        BY <1>16 DEF DroppedArrives
    <2>2. dropped' \in [Tabs -> SUBSET given] /\ token' \in [Tabs -> given \cup {None}]
        BY <2>1 DEF TypeOK
    <2>3. doubt' \in [Tabs -> SUBSET Reasons]
        BY <1>16 DEF DroppedArrives, Wrong, TypeOK, Reasons
    <2>. QED
        BY <1>16, <2>2, <2>3 DEF TypeOK, server, DroppedArrives
<1>. QED
    BY <1>1, <1>2, <1>4, <1>5, <1>6, <1>7, <1>8, <1>9, <1>10, <1>12, <1>13, <1>14, <1>15,
       <1>16
    DEF Next

\* What another tab does to the browser's cookie and to the sessions is marked at the
\* tabs u that it concerns, so that nothing is claimed of them.
LEMMA Marked ==
    ASSUME TypeOK, NEW T \in SUBSET Tabs, NEW r \in Reasons, NEW u \in T,
           me'[u] = Later(T, r)[u], doubt'[u] = Wrong(T, r)[u]
    PROVE  doubt'[u] # {} /\ (me'[u].stage # "idle" => me'[u].late # {})
BY Marks DEF TypeOK

\* What a tab is told, and what it shows, stays true of it while the step leaves it, the
\* cookie and the cookie's session alone.
Told(u) == (me[u].stage # "idle" /\ me[u].late = {} /\ ~LoggedOut(u)) =>
    /\ me[u].with = cookie
    /\ me[u].stage = "answered" =>
        /\ me[u].says = "app" <=> cookie \in valid
        /\ cookie \in valid => me[u].id = cookie
Shows(u) == (me[u].stage = "idle" /\ doubt[u] = {} /\ ~LoggedOut(u)) =>
    /\ page[u] = "app" <=> cookie \in valid
    /\ page[u] = "app" => token[u] = cookie

\* A step of the server or of a tab keeps the invariant.
LEMMA StepInv ==
    ASSUME SessionConstants, TypeOK, SessionInv, [Next]_vars
    PROVE  SessionInv'
<1>. SUFFICES ASSUME TypeOK'
              PROVE  ServerInv' /\ \A u \in Tabs : Told(u)' /\ Shows(u)'
    BY StepType DEF SessionInv, AnswerInv, ScreenInv, Told, Shows
<1>0. \A u \in Tabs : Told(u) /\ Shows(u)
    BY DEF SessionInv, AnswerInv, ScreenInv, Told, Shows
<1>. USE DEF SessionConstants
<1>1. ASSUME NEW t \in Tabs, NEW do \in {"setup", "login", "logout"}, Submit(t, do)
      PROVE  ServerInv' /\ \A u \in Tabs : Told(u)' /\ Shows(u)'
    <2>1. ServerInv'
        BY <1>1 DEF SessionInv, ServerInv, TypeOK, server, Submit
    <2>2. \A u \in Tabs : ~LoggedOut(u)' => ~LoggedOut(u)
        BY <1>1 DEF LoggedOut, TypeOK, Submit
    <2>. QED
        BY <1>0, <1>1, <2>1, <2>2 DEF Told, Shows, server, Submit
<1>2. ASSUME NEW t \in Tabs, CheckSetup(t)
      PROVE  ServerInv' /\ \A u \in Tabs : Told(u)' /\ Shows(u)'
    <2>1. ServerInv'
        BY <1>2 DEF SessionInv, ServerInv, TypeOK, Doing, server, CheckSetup
    <2>2. \A u \in Tabs : ~LoggedOut(u)' => ~LoggedOut(u)
        BY <1>2 DEF LoggedOut, TypeOK, Doing, CheckSetup
    <2>. QED
        BY <1>0, <1>2, <2>1, <2>2 DEF Told, Shows, server, CheckSetup
\* The session of a login is new, so the cookie is not it.
<1>3. ASSUME NEW t \in Tabs, Begin(t), act[t].do \in {"setup", "login"},
             admins' \in Nat, admins' > 0
      PROVE  /\ ServerInv'
             /\ cookie \in valid <=> cookie \in valid'
             /\ \A u \in Tabs : LoggedOut(u)' <=> LoggedOut(u)
    <2>1. PICK s \in Ids \ given :
            /\ given' = given \cup {s} /\ valid' = valid \cup {s}
            /\ act' = [act EXCEPT ![t].stage = "good", ![t].id = s]
        BY <1>3 DEF Begin
    <2>2. act'[t] = [act[t] EXCEPT !.stage = "good", !.id = s]
        BY <2>1 DEF TypeOK
    <2>3. act'[t].do = act[t].do /\ act'[t].stage = "good" /\ act'[t].id = s
        <3>1. act[t] \in Doing(given)
            BY DEF TypeOK
        <3>. QED
            BY <2>2, <3>1 DEF Doing
    <2>4. \A u \in Tabs \ {t} : act'[u] = act[u]
        BY <2>1 DEF TypeOK
    <2>5. ServerInv'
        BY <1>3, <2>1, <2>3, <2>4 DEF SessionInv, ServerInv, None
    <2>6. cookie # s
        BY <2>1 DEF TypeOK, None
    <2>. QED
        BY <1>3, <2>1, <2>3, <2>4, <2>5, <2>6 DEF LoggedOut
<1>4. ASSUME NEW t \in Tabs, CreateUser(t)
      PROVE  ServerInv' /\ \A u \in Tabs : Told(u)' /\ Shows(u)'
    <2>1. ServerInv' /\ (cookie \in valid <=> cookie \in valid')
          /\ \A u \in Tabs : LoggedOut(u)' <=> LoggedOut(u)
        <3>1. CASE admins' = admins + 1 /\ Begin(t)
            BY <1>3, <1>4, <3>1 DEF CreateUser, TypeOK
        <3>2. CASE /\ act' = [act EXCEPT ![t].stage = "bad"]
                   /\ admins' \in {admins, admins + 1} /\ UNCHANGED <<valid, given>>
            BY <1>4, <3>2 DEF CreateUser, SessionInv, ServerInv, TypeOK, Doing, LoggedOut
        <3>. QED
            BY <1>4, <3>1, <3>2 DEF CreateUser
    <2>2. \A u \in Others(t) : Told(u)' /\ Shows(u)'
        BY <1>4, Marked DEF CreateUser, Told, Shows, Others, Reasons
    <2>3. me'[t] = me[t] /\ doubt'[t] = doubt[t]
        BY <1>4, Marks DEF CreateUser, Others, Reasons
    <2>4. Told(t)' /\ Shows(t)'
        BY <1>0, <1>4, <2>1, <2>3 DEF CreateUser, Told, Shows
    <2>. QED
        BY <2>1, <2>2, <2>4 DEF Others
<1>5. ASSUME NEW t \in Tabs, Login(t)
      PROVE  ServerInv' /\ \A u \in Tabs : Told(u)' /\ Shows(u)'
    <2>1. ServerInv' /\ (cookie \in valid <=> cookie \in valid')
          /\ \A u \in Tabs : LoggedOut(u)' <=> LoggedOut(u)
        <3>1. CASE admins > 0 /\ Begin(t)
            BY <1>3, <1>5, <3>1 DEF Login, TypeOK
        <3>2. CASE act' = [act EXCEPT ![t].stage = "bad"] /\ UNCHANGED <<valid, given>>
            BY <1>5, <3>2 DEF Login, SessionInv, ServerInv, TypeOK, Doing, LoggedOut
        <3>. QED
            BY <1>5, <3>1, <3>2 DEF Login
    <2>. QED
        BY <1>0, <1>5, <2>1 DEF Login, Told, Shows
<1>6. ASSUME NEW t \in Tabs, Logout(t)
      PROVE  ServerInv' /\ \A u \in Tabs : Told(u)' /\ Shows(u)'
    <2>1. ServerInv'
        BY <1>6 DEF Logout, SessionInv, ServerInv, TypeOK, Doing
    <2>2. \A u \in Others(t) : Told(u)' /\ Shows(u)'
        BY <1>6, Marked DEF Logout, Told, Shows, Others, Reasons
    <2>3. LoggedOut(t)'
        BY <1>6 DEF Logout, LoggedOut, TypeOK, Doing
    <2>. QED
        BY <2>1, <2>2, <2>3 DEF Others, Told, Shows
<1>7. ASSUME NEW t \in Tabs, SignedIn(t)
      PROVE  ServerInv' /\ \A u \in Tabs : Told(u)' /\ Shows(u)'
    <2>1. ServerInv'
        BY <1>7 DEF SignedIn, server, SessionInv, ServerInv, TypeOK, Rest
    <2>2. \A u \in Others(t) : me'[u] = Later(Others(t), "elsewhere")[u]
                              /\ doubt'[u] = Wrong(Others(t), "elsewhere")[u]
        BY <1>7, MarkTypes DEF SignedIn, Others, Reasons
    <2>3. \A u \in Others(t) : Told(u)' /\ Shows(u)'
        BY <2>2, Marked DEF Told, Shows, Others, Reasons
    <2>4. me'[t] = Later({t}, "overtaken")[t]
        BY <1>7, MarkTypes DEF SignedIn, Others, Reasons
    <2>5. me'[t].stage # "idle" => me'[t].late # {}
        BY <2>4, Marks DEF Reasons
    <2>6. doubt'[t] = {r \in {"expired"} : act[t].id \notin valid}
        BY <1>7, MarkTypes DEF SignedIn, Others, Reasons
    <2>7. Shows(t)'
        BY <1>7, <2>6 DEF SignedIn, Shows, TypeOK, server
    <2>. QED
        BY <2>1, <2>3, <2>5, <2>7 DEF Others, Told
<1>8. ASSUME NEW t \in Tabs, SignedOut(t)
      PROVE  ServerInv' /\ \A u \in Tabs : Told(u)' /\ Shows(u)'
    <2>1. ServerInv'
        BY <1>8 DEF SignedOut, server, SessionInv, ServerInv, TypeOK, Rest
    <2>2. \A u \in Others(t) : me'[u] = Later(Others(t), "elsewhere")[u]
                              /\ doubt'[u] = Wrong(Others(t), "elsewhere")[u]
        BY <1>8, MarkTypes DEF SignedOut, Others, Reasons
    <2>3. \A u \in Others(t) : Told(u)' /\ Shows(u)'
        BY <2>2, Marked DEF Told, Shows, Others, Reasons
    <2>4. me'[t] = [Quiet EXCEPT !.stage = "sent"]
        BY <1>8, MarkTypes DEF SignedOut, Others, Reasons
    <2>5. me'[t].stage = "sent" /\ me'[t].with = None
        BY <2>4 DEF Quiet
    <2>6. cookie' = None
        BY <1>8 DEF SignedOut
    <2>7. Told(t)' /\ Shows(t)'
        BY <2>5, <2>6 DEF Told, Shows
    <2>. QED
        BY <2>1, <2>3, <2>7 DEF Others
<1>9. ASSUME NEW t \in Tabs, Rejected(t)
      PROVE  ServerInv' /\ \A u \in Tabs : Told(u)' /\ Shows(u)'
    <2>1. ServerInv'
        BY <1>9 DEF Rejected, server, SessionInv, ServerInv, TypeOK, Rest
    <2>2. \A u \in Tabs : ~LoggedOut(u)' => ~LoggedOut(u)
        BY <1>9 DEF LoggedOut, TypeOK, Rejected
    <2>. QED
        BY <1>0, <1>9, <2>1, <2>2 DEF Told, Shows, server, Rejected
<1>10. ASSUME NEW t \in Tabs, ActLost(t)
       PROVE  ServerInv' /\ \A u \in Tabs : Told(u)' /\ Shows(u)'
    <2>1. ServerInv'
        BY <1>10 DEF ActLost, server, SessionInv, ServerInv, TypeOK, Rest
    <2>2. Told(t)' /\ Shows(t)'
        BY <1>10, Marked DEF ActLost, Told, Shows, Reasons
    <2>3. \A u \in Others(t) : me'[u] = me[u] /\ doubt'[u] = doubt[u]
        BY <1>10, Marks DEF ActLost, Others, Reasons
    <2>4. \A u \in Others(t) : act'[u] = act[u]
        BY <1>10 DEF ActLost, Others, TypeOK
    <2>5. \A u \in Others(t) : Told(u)' /\ Shows(u)'
        <3>1. UNCHANGED <<valid, cookie, page, token>>
            BY <1>10 DEF ActLost, server
        <3>. QED
            BY <1>0, <2>3, <2>4, <3>1 DEF Told, Shows, Others, LoggedOut
    <2>. QED
        BY <2>1, <2>2, <2>5 DEF Others
<1>11. ASSUME NEW t \in Tabs, Answer(t)
       PROVE  ServerInv' /\ \A u \in Tabs : Told(u)' /\ Shows(u)'
    <2>1. ServerInv'
        BY <1>11 DEF Answer, server, SessionInv, ServerInv
    <2>2. \A u \in Others(t) : me'[u] = me[u]
        BY <1>11 DEF Answer, Others, TypeOK
    <2>3. \A u \in Others(t) : Told(u)' /\ Shows(u)'
        BY <1>0, <1>11, <2>2 DEF Answer, Told, Shows, Others, server, LoggedOut
    <2>4. /\ me'[t].stage = "answered" /\ me'[t].with = me[t].with
          /\ me'[t].late = me[t].late
          /\ me'[t].id = IF me[t].with \in valid THEN me[t].with ELSE None
          /\ me'[t].says = IF admins = 0 THEN "setup"
                           ELSE IF me[t].with \in valid THEN "app" ELSE "login"
        BY <1>11 DEF Answer, TypeOK
    <2>5. Told(t)' /\ Shows(t)'
        BY <1>0, <1>11, <2>4 DEF Answer, Told, Shows, server, LoggedOut, SessionInv, ServerInv,
            TypeOK
    <2>. QED
        BY <2>1, <2>3, <2>5 DEF Others
<1>12. ASSUME NEW t \in Tabs, Receive(t)
       PROVE  ServerInv' /\ \A u \in Tabs : Told(u)' /\ Shows(u)'
    <2>1. ServerInv'
        BY <1>12 DEF Receive, server, SessionInv, ServerInv
    <2>2. \A u \in Others(t) : /\ me'[u] = me[u] /\ doubt'[u] = doubt[u]
                              /\ page'[u] = page[u] /\ token'[u] = token[u]
        BY <1>12 DEF Receive, Others, TypeOK
    <2>3. \A u \in Others(t) : Told(u)' /\ Shows(u)'
        BY <1>0, <1>12, <2>2 DEF Receive, Told, Shows, Others, server, LoggedOut
    <2>4. /\ me'[t].stage = "idle" /\ doubt'[t] = me[t].late /\ page'[t] = me[t].says
          /\ token'[t] = IF me[t].id # None THEN me[t].id ELSE token[t]
        BY <1>12 DEF Receive, TypeOK, Quiet
    <2>5. Told(t)' /\ Shows(t)'
        BY <1>0, <1>12, <2>4 DEF Receive, Told, Shows, server, LoggedOut, TypeOK, None
    <2>. QED
        BY <2>1, <2>3, <2>5 DEF Others
<1>13. ASSUME NEW t \in Tabs, MeFails(t)
       PROVE  ServerInv' /\ \A u \in Tabs : Told(u)' /\ Shows(u)'
    <2>1. ServerInv'
        BY <1>13 DEF MeFails, server, SessionInv, ServerInv
    <2>2. \A u \in Others(t) : me'[u] = me[u] /\ doubt'[u] = doubt[u] /\ page'[u] = page[u]
        <3>1. \A u \in Others(t) : doubt'[u] = doubt[u]
            BY <1>13, Marks DEF MeFails, Others, Reasons
        <3>2. \A u \in Others(t) : me'[u] = me[u] /\ page'[u] = page[u]
            BY <1>13 DEF MeFails, Others, TypeOK
        <3>. QED
            BY <3>1, <3>2
    <2>3. \A u \in Others(t) : Told(u)' /\ Shows(u)'
        <3>1. UNCHANGED <<valid, cookie, token, act>>
            BY <1>13 DEF MeFails, server
        <3>. QED
            BY <1>0, <2>2, <3>1 DEF Told, Shows, Others, LoggedOut
    <2>4. me'[t].stage = "idle" /\ doubt'[t] # {}
        <3>1. doubt'[t] # {}
            BY <1>13, Marks DEF MeFails, Reasons
        <3>2. me'[t].stage = "idle"
            BY <1>13 DEF MeFails, TypeOK, Quiet
        <3>. QED
            BY <3>1, <3>2
    <2>. QED
        BY <2>1, <2>3, <2>4 DEF Others, Told, Shows
<1>14. ASSUME NEW t \in Tabs, AskAgain(t)
       PROVE  ServerInv' /\ \A u \in Tabs : Told(u)' /\ Shows(u)'
    <2>1. ServerInv'
        BY <1>14 DEF AskAgain, server, SessionInv, ServerInv
    <2>2. \A u \in Others(t) : /\ me'[u] = me[u]
                              /\ page'[u] = page[u] /\ token'[u] = token[u]
        BY <1>14 DEF AskAgain, Others, TypeOK
    <2>3. \A u \in Others(t) : Told(u)' /\ Shows(u)'
        BY <1>0, <1>14, <2>2 DEF AskAgain, Told, Shows, Others, server, LoggedOut
    <2>4. me'[t].stage = "sent" /\ me'[t].with = cookie
        BY <1>14 DEF AskAgain, TypeOK, Quiet
    <2>. QED
        BY <1>14, <2>1, <2>3, <2>4 DEF Others, Told, Shows, AskAgain
<1>15. ASSUME NEW s \in Ids, Expire(s)
       PROVE  ServerInv' /\ \A u \in Tabs : Told(u)' /\ Shows(u)'
    <2>1. ServerInv'
        BY <1>15 DEF Expire, SessionInv, ServerInv
    <2>2. \A u \in Tabs : Told(u)' /\ Shows(u)'
        BY <1>15, Marked DEF Expire, Told, Shows, Reasons
    <2>. QED
        BY <2>1, <2>2
<1>16. ASSUME UNCHANGED vars
       PROVE  ServerInv' /\ \A u \in Tabs : Told(u)' /\ Shows(u)'
    BY <1>0, <1>16 DEF vars, server, Told, Shows, LoggedOut, SessionInv, ServerInv
<1>17. ASSUME NEW t \in Tabs, DroppedArrives(t)
       PROVE  ServerInv' /\ \A u \in Tabs : Told(u)' /\ Shows(u)'
    <2>1. ServerInv'
        BY <1>17 DEF DroppedArrives, server, SessionInv, ServerInv
    <2>2. UNCHANGED <<valid, cookie, page, me, act>>
        BY <1>17 DEF DroppedArrives, server
    <2>3. \A u \in Others(t) : token'[u] = token[u] /\ doubt'[u] = doubt[u]
        BY <1>17 DEF DroppedArrives, Others, Wrong, TypeOK
    <2>4. page[t] = "app" => doubt'[t] # {}
        BY <1>17 DEF DroppedArrives, Wrong
    <2>5. doubt'[t] = {} => doubt[t] = {}
        BY <1>17 DEF DroppedArrives, Wrong
    <2>6. \A u \in Tabs : Told(u)'
        BY <1>0, <2>2 DEF Told, LoggedOut
    <2>7. \A u \in Others(t) : Shows(u)'
        BY <1>0, <2>2, <2>3 DEF Shows, LoggedOut, Others
    <2>8. Shows(t)'
        BY <1>0, <2>2, <2>4, <2>5 DEF Shows, LoggedOut
    <2>. QED
        BY <2>1, <2>6, <2>7, <2>8 DEF Others
<1>. QED
    BY <1>1, <1>2, <1>4, <1>5, <1>6, <1>7, <1>8, <1>9, <1>10, <1>11, <1>12, <1>13, <1>14,
       <1>15, <1>16, <1>17
    DEF Next

\* The invariant holds in every state.
THEOREM Inductive ==
    ASSUME SessionConstants
    PROVE  Spec => [](TypeOK /\ SessionInv)
<1>1. Init => TypeOK
    BY DEF SessionConstants, Init, TypeOK, Asked, Doing, Quiet, Rest, Screens
<1>2. Init => SessionInv
    BY DEF Init, SessionInv, ServerInv, AnswerInv, ScreenInv, LoggedOut, Quiet, Rest, None
<1>3. TypeOK /\ SessionInv /\ [Next]_vars => (TypeOK /\ SessionInv)'
    BY StepType, StepInv
<1>. QED
    BY <1>1, <1>2, <1>3, PTL DEF Spec

\* Tabs, cookie, sessions and requests have their types: a request carries, and a tab
\* keeps, only sessions that there have been (useAuth.ts:5-53, auth.go).
THEOREM TypeCorrect ==
    ASSUME SessionConstants
    PROVE  Spec => []TypeOK
BY Inductive, PTL

\* A tab at rest shows the application exactly if its cookie is a session, and has that
\* session's CSRF token, but for four reasons (useAuth.ts:10-14, 27, 50; api.ts:22).
THEOREM SignedInIsTrue ==
    ASSUME SessionConstants
    PROVE  Spec => []SignedInForAReason
<1>1. SessionInv => SignedInForAReason
    BY DEF SessionInv, ScreenInv, SignedInForAReason, LoggedOut
<1>. QED
    BY <1>1, Inductive, PTL
=============================================================================
