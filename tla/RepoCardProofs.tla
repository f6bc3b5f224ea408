---------------------------- MODULE RepoCardProofs ----------------------------
(***************************************************************************)
(* Theorems about RepoCard, for every set of snapshots and schedules and   *)
(* any number of clicks, losses and changes from elsewhere.                *)
(***************************************************************************)
EXTENDS RepoCard, FiniteSetTheorems, TLAPS

\* The actions that touch neither the schedule and its controls, nor the list.
Aside ==
    \/ \E a \in Simple : ClickSimple(a)
    \/ ClickCheck \/ ClickPrune \/ ClickDelete \/ ClickCopy
    \/ \E what \in {"delete", "prune"} : Ask(what)
    \/ ClickForget \/ ClickFind \/ ClickDiff \/ ClickRestore
    \/ \E s \in Snaps : AskForget(s) \/ Browse(s) \/ \E i \in 1..2 : Choose(i, s)
    \/ \E n \in {""} \cup Nodes : PickNode(n)
    \/ \E a \in Kinds : AnswerSimple(a)
    \/ AnswerPrune \/ AnswerCopy \/ HandleForget \/ AnswerForget \/ AnswerFind
    \/ AnswerDiff \/ AnswerRestore \/ HandleDelete \/ AnswerDelete \/ CardLeaves

\* Those of the list, and of the operations that change what it shows.
Listing ==
    \/ TogglePanel \/ AnswerList \/ LoadList \/ FailList \/ EventArrives \/ NewsLost
    \/ BackupEnds \/ \E s \in Snaps : ForgetEnds(s)

\* Those of the schedule.
Scheduling ==
    \/ \E v \in {"", "custom"} \cup Presets : ChooseMenu(v)
    \/ \E c \in Cron : TypeText(c)
    \/ SaveText
    \/ \E s \in saves : HandleSave(s) \/ AnswerSave(s) \/ SaveLost(s)
    \/ CronElsewhere

\* There are no others.
LEMMA Split ==
    ASSUME Next
    PROVE  Aside \/ Listing \/ Scheduling
BY DEF Next, User, System, Aside, Listing, Scheduling

\* A click counts up, and nothing counts down.
LEMMA ClicksGrow ==
    ASSUME clicks \in Nat, Next
    PROVE  clicks' = clicks \/ clicks' = clicks + 1
<1>1. CASE Aside
    BY <1>1 DEF Aside, Click, bounds, ClickSimple, ClickCheck, ClickPrune, ClickDelete,
           HandleDelete, AnswerDelete, CardLeaves, ClickCopy, Ask, ClickForget, ClickFind,
           ClickDiff, ClickRestore, AskForget, Browse, Choose, PickNode,
           AnswerSimple, AnswerPrune, AnswerCopy, HandleForget, AnswerForget, AnswerFind,
           AnswerDiff, AnswerRestore
<1>2. CASE Listing
    BY <1>2 DEF Listing, Click, Event, bounds, TogglePanel, AnswerList, LoadList, FailList,
           EventArrives, NewsLost, BackupEnds, ForgetEnds
<1>3. CASE Scheduling
    BY <1>3 DEF Scheduling, Click, Event, bounds, ChooseMenu, TypeText, SaveText, HandleSave,
           AnswerSave, SaveLost, CronElsewhere
<1>. QED
    BY <1>1, <1>2, <1>3, Split

\* What the other actions leave alone.
LEMMA AsideKeeps ==
    ASSUME Aside
    PROVE  UNCHANGED <<cron, menu, text, saves, saving, excuse, held, news, panel, list, loaded,
                       fetch, fetched, missed, since>>
BY DEF Aside, server, store, query, sched, ClickSimple, ClickCheck, ClickPrune, ClickDelete,
       HandleDelete, AnswerDelete, CardLeaves, ClickCopy, Ask, ClickForget, ClickFind,
       ClickDiff, ClickRestore, AskForget, Browse, Choose, PickNode,
       AnswerSimple, AnswerPrune, AnswerCopy, HandleForget, AnswerForget, AnswerFind, AnswerDiff,
       AnswerRestore

\* What the actions of the list leave alone.
LEMMA ListingKeeps ==
    ASSUME Listing
    PROVE  UNCHANGED <<cron, menu, text, saves, saving, excuse, feedback, last>>
BY DEF Listing, server, store, sched, report, TogglePanel, AnswerList, LoadList, FailList,
       EventArrives,
       NewsLost, BackupEnds, ForgetEnds

\* And what those of the schedule do.
LEMMA SchedulingKeeps ==
    ASSUME Scheduling
    PROVE  UNCHANGED <<held, news, panel, list, loaded, fetch, fetched, missed, since>>
BY DEF Scheduling, server, store, query, ChooseMenu, TypeText, SaveText, HandleSave,
       AnswerSave, SaveLost,
       CronElsewhere

-----------------------------------------------------------------------------
\* Every step keeps what is known of the list of snapshots.
LEMMA SnapsStep ==
    ASSUME SnapsInv, [Next]_vars
    PROVE  SnapsInv'
<1>1. CASE Aside \/ Scheduling
    BY <1>1, AsideKeeps, SchedulingKeeps DEF SnapsInv
<1>2. CASE UNCHANGED vars
    BY <1>2 DEF vars, server, store, query, SnapsInv
<1>3. CASE Listing
    <2>1. CASE TogglePanel
        BY <2>1 DEF SnapsInv, TogglePanel, server, store
    <2>2. CASE AnswerList
        BY <2>2 DEF SnapsInv, AnswerList, server, store
    <2>3. CASE LoadList
        BY <2>3 DEF SnapsInv, LoadList, server, store
    <2>4. CASE FailList
        BY <2>4 DEF SnapsInv, FailList, server, store
    <2>5. CASE EventArrives
        <3>1. news' \in Nat /\ UNCHANGED <<held, panel, list, loaded, fetched, missed>>
            BY <2>5 DEF SnapsInv, EventArrives, store
        <3>2. CASE panel /\ (loaded \/ fetch = "idle")
            BY <2>5, <3>1, <3>2 DEF SnapsInv, EventArrives, store
        <3>3. CASE ~(panel /\ (loaded \/ fetch = "idle"))
            <4>1. fetch' = fetch /\ (fetch = "answered" => since')
                BY <2>5, <3>3 DEF EventArrives
            <4>. QED
                BY <3>1, <3>3, <4>1 DEF SnapsInv
        <3>. QED
            BY <3>2, <3>3
    <2>6. CASE NewsLost
        BY <2>6 DEF SnapsInv, NewsLost, store
    <2>7. CASE BackupEnds
        BY <2>7 DEF SnapsInv, BackupEnds
    <2>8. ASSUME NEW s \in Snaps, ForgetEnds(s)
          PROVE  SnapsInv'
        BY <2>8 DEF SnapsInv, ForgetEnds
    <2>. QED
        BY <1>3, <2>1, <2>2, <2>3, <2>4, <2>5, <2>6, <2>7, <2>8 DEF Listing
<1>. QED
    BY <1>1, <1>2, <1>3, Split

\* An open panel shows the repository's snapshots, or has a reason not to.
THEOREM SnapshotsAreCurrent == Spec => []SnapshotsAreStaleForAReason
<1>1. Init => SnapsInv
    BY DEF Init, SnapsInv
<1>2. SnapsInv /\ [Next]_vars => SnapsInv'
    BY SnapsStep
<1>3. SnapsInv => SnapshotsAreStaleForAReason
    BY DEF SnapsInv, SnapshotsAreStaleForAReason
<1>. QED
    BY <1>1, <1>2, <1>3, PTL DEF Spec

-----------------------------------------------------------------------------
\* A save sends what the controls show from then on.
LEMMA SaveStep ==
    ASSUME SchedInv, NEW c \in Cron, Save(c), clicks' = clicks + 1, cron' = cron,
           Displayed' = c
    PROVE  SchedInv'
<1>0. PICK new : new = [cron |-> c, at |-> clicks + 1, stage |-> "sent"]
    OBVIOUS
<1>1. /\ saves' = saves \cup {new} /\ saving' = clicks + 1
      /\ new \in [cron : Cron, at : Nat, stage : {"sent", "done", "refused"}]
      /\ new.at = clicks + 1 /\ new.stage = "sent" /\ new.cron = c
    BY <1>0 DEF Save, SchedInv
<1>2. \A s \in saves : s.at \in Nat /\ s.at < clicks + 1
    BY DEF SchedInv
<1>3. clicks' \in Nat /\ saving' \in Nat /\ saving' <= clicks'
    BY <1>1 DEF SchedInv
<1>4. saves' \subseteq [cron : Cron, at : Nat, stage : {"sent", "done", "refused"}]
    BY <1>1 DEF SchedInv
<1>5. \A s \in saves' : s.at <= saving'
    BY <1>1, <1>2 DEF SchedInv
<1>6. \A s, r \in saves' : s.at = r.at => s = r
    BY <1>1, <1>2 DEF SchedInv
<1>7. \A s \in saves' : Newest(s)' => s = new
    BY <1>1, <1>2 DEF Newest
<1>8. Newest(new)'
    BY <1>1 DEF Newest
<1>9. \A s \in saves' : Newest(s)' => s.cron = Displayed'
    BY <1>1, <1>7
<1>10. \E s \in saves' : Newest(s)' /\ s.stage = "sent"
    BY <1>1, <1>8
<1>. QED
    BY <1>3, <1>4, <1>5, <1>6, <1>9, <1>10 DEF SchedInv, Newest

\* A request that is handled, answered or lost.
LEMMA RequestStep ==
    ASSUME SchedInv, NEW s \in saves, HandleSave(s) \/ AnswerSave(s) \/ SaveLost(s)
    PROVE  SchedInv'
<1>. s.cron \in Cron /\ s.at \in Nat /\ s.stage \in {"sent", "done", "refused"}
    BY DEF SchedInv
<1>1. Displayed' = Displayed /\ saving' = saving /\ clicks' = clicks
    BY DEF HandleSave, AnswerSave, SaveLost, Event, Displayed, bounds
<1>2. CASE AnswerSave(s)
    <2>1. saves' = saves \ {s} /\ s.stage # "sent" /\ excuse' = excuse /\ cron' = cron
        BY <1>2 DEF AnswerSave, server, store
    <2>. QED
        BY <1>1, <2>1 DEF SchedInv, Newest
<1>3. CASE SaveLost(s)
    <2>1. /\ saves' = saves \ {s} /\ cron' = cron
          /\ excuse' = excuse \cup {e \in {"refused"} : s.stage = "sent" /\ Newest(s)}
        BY <1>3 DEF SaveLost, server, store
    <2>2. CASE s.stage = "sent" /\ Newest(s)
        <3>1. excuse' # {} /\ ("unsaved" \notin excuse' => "unsaved" \notin excuse)
            BY <2>1, <2>2
        <3>. QED
            BY <1>1, <2>1, <3>1 DEF SchedInv, Newest
    <2>3. CASE ~(s.stage = "sent" /\ Newest(s))
        <3>1. excuse' = excuse
            BY <2>1, <2>3
        <3>. QED
            BY <1>1, <2>1, <2>3, <3>1 DEF SchedInv, Newest
    <2>. QED
        BY <2>2, <2>3
<1>4. CASE HandleSave(s)
    <2>1. PICK st \in {"done", "refused"} :
            /\ saves' = (saves \ {s}) \cup {[s EXCEPT !.stage = st]}
            /\ st = "refused" => /\ cron' = cron
                                 /\ excuse' = excuse \cup {e \in {"refused"} : Newest(s)}
            /\ st = "done" =>
                  /\ cron' = s.cron
                  /\ excuse' = IF ~Newest(s) THEN excuse
                               ELSE (excuse \cap {"unsaved"}) \cup
                                    {e \in {"overtaken"} :
                                        {r \in saves \ {s} : r.stage = "sent" /\ r.at < s.at} # {}}
        BY <1>4 DEF HandleSave
    <2>2. s.stage = "sent"
        BY <1>4 DEF HandleSave
    <2>3. /\ [s EXCEPT !.stage = st] \in [cron : Cron, at : Nat, stage : {"sent", "done", "refused"}]
          /\ [s EXCEPT !.stage = st].at = s.at /\ [s EXCEPT !.stage = st].stage = st
        BY DEF SchedInv
    <2>4. PICK t : t = [s EXCEPT !.stage = st]
        OBVIOUS
    <2>5. /\ t \in [cron : Cron, at : Nat, stage : {"sent", "done", "refused"}]
          /\ t.at = s.at /\ t.stage # "sent" /\ saves' = (saves \ {s}) \cup {t}
        BY <2>1, <2>3, <2>4
    <2>6. saves' \subseteq [cron : Cron, at : Nat, stage : {"sent", "done", "refused"}]
        BY <2>5 DEF SchedInv
    <2>7. \A r \in saves' : r.at <= saving'
        BY <1>1, <2>5 DEF SchedInv
    <2>8. \A q, r \in saves' : q.at = r.at => q = r
        BY <2>5 DEF SchedInv
    <2>9. \A r \in saves' : r.stage = "sent" => r \in saves /\ r # s
        BY <2>5
    <2>10. CASE ~Newest(s)
        <3>1. excuse' = excuse
            BY <2>1, <2>10
        <3>2. excuse = {} => \E r \in saves : Newest(r) /\ r.stage = "sent"
            BY <2>2 DEF SchedInv
        <3>3. excuse' = {} => \E r \in saves' : Newest(r)' /\ r.stage = "sent"
            BY <1>1, <2>5, <2>10, <3>1, <3>2 DEF Newest
        <3>4. "unsaved" \notin excuse' =>
                \A r \in saves' : Newest(r)' /\ r.stage = "sent" => r.cron = Displayed'
            BY <1>1, <2>9, <3>1 DEF SchedInv, Newest
        <3>. QED
            BY <1>1, <2>6, <2>7, <2>8, <3>3, <3>4 DEF SchedInv, Newest
    <2>11. CASE Newest(s)
        <3>1. \A r \in saves' : r.stage = "sent" => ~Newest(r)'
            BY <1>1, <2>9, <2>11 DEF SchedInv, Newest
        <3>2. ASSUME excuse' = {}
              PROVE  Displayed' = cron' /\ \A r \in saves' : r.stage # "sent"
            <4>1. st = "done" /\ cron' = s.cron /\ "unsaved" \notin excuse
                BY <2>1, <2>11, <3>2
            <4>2. \A r \in saves \ {s} : r.stage = "sent" => ~(r.at < s.at)
                BY <2>1, <2>11, <3>2, <4>1
            <4>3. \A r \in saves : r.at \in Nat /\ r.at <= s.at
                BY <2>11 DEF SchedInv, Newest
            <4>4. \A r \in saves \ {s} : r.at # s.at
                BY DEF SchedInv
            <4>5. \A r \in saves \ {s} : r.stage # "sent"
                BY <4>2, <4>3, <4>4
            <4>6. s.cron = Displayed
                BY <2>2, <2>11, <4>1 DEF SchedInv
            <4>. QED
                BY <1>1, <2>9, <4>1, <4>5, <4>6
        <3>. QED
            BY <1>1, <2>6, <2>7, <2>8, <3>1, <3>2 DEF SchedInv, Newest
    <2>. QED
        BY <2>10, <2>11
<1>. QED
    BY <1>2, <1>3, <1>4

\* A bound on a number that is counted up holds on.
LEMMA OneMore ==
    \A n, m \in Nat : m <= n => n + 1 \in Nat /\ m <= n + 1
OBVIOUS

\* The controls, with or without a save, and a change from elsewhere.
LEMMA ControlStep ==
    ASSUME SchedInv,
           \/ \E v \in {"", "custom"} \cup Presets : ChooseMenu(v)
           \/ \E c \in Cron : TypeText(c)
           \/ SaveText /\ text \in Cron
           \/ CronElsewhere
    PROVE  SchedInv'
<1>0. clicks \in Nat /\ saving \in Nat /\ saving <= clicks
    BY DEF SchedInv
<1>. clicks + 1 \in Nat /\ saving \in Nat /\ saving <= clicks + 1
    BY <1>0, OneMore
<1>1. ASSUME NEW v \in {"", "custom"} \cup Presets, ChooseMenu(v)
      PROVE  SchedInv'
    <2>1. clicks' = clicks + 1 /\ cron' = cron
        BY <1>1 DEF ChooseMenu, Click, server, store
    <2>2. CASE v = "custom"
        <3>1. "unsaved" \in excuse' /\ saves' = saves /\ saving' = saving
            BY <1>1, <2>2 DEF ChooseMenu
        <3>. QED
            BY <2>1, <3>1 DEF SchedInv, Newest
    <2>3. CASE v # "custom"
        <3>1. Save(v) /\ Displayed' = v /\ v \in Cron
            BY <1>1, <2>3 DEF ChooseMenu, Displayed, Cron
        <3>. QED
            BY <2>1, <3>1, SaveStep
    <2>. QED
        BY <2>2, <2>3
<1>2. ASSUME NEW c \in Cron, TypeText(c)
      PROVE  SchedInv'
    <2>1. /\ clicks' = clicks + 1 /\ cron' = cron /\ saves' = saves /\ saving' = saving
          /\ "unsaved" \in excuse'
        BY <1>2 DEF TypeText, Click, server, store
    <2>. QED
        BY <2>1 DEF SchedInv, Newest
<1>3. CASE SaveText /\ text \in Cron
    <2>1. /\ Save(text) /\ clicks' = clicks + 1 /\ cron' = cron /\ Displayed' = text
        BY <1>3 DEF SaveText, Click, server, store, Displayed
    <2>. QED
        BY <1>3, <2>1, SaveStep
<1>4. CASE CronElsewhere
    <2>1. /\ clicks' = clicks /\ saves' = saves /\ saving' = saving
          /\ excuse' = excuse \cup {"elsewhere"}
          /\ Displayed' = Displayed
        BY <1>4 DEF CronElsewhere, Event, Displayed
    <2>. QED
        BY <2>1 DEF SchedInv, Newest
<1>. QED
    BY <1>1, <1>2, <1>3, <1>4

\* The first state of the schedule and its controls.
LEMMA SchedFirst ==
    ASSUME CardConstants, Init
    PROVE  SchedInv /\ text \in Cron
<1>1. /\ cron \in Cron /\ text = cron /\ menu = MenuOf(cron) /\ saves = {} /\ saving = 0
      /\ clicks = 0
    BY DEF Init
<1>2. Displayed = cron
    BY <1>1 DEF CardConstants, Displayed, MenuOf, Cron
<1>. QED
    BY <1>1, <1>2 DEF SchedInv

\* Every step keeps what is known of them.
LEMMA SchedStep ==
    ASSUME SchedInv, text \in Cron, [Next]_vars
    PROVE  SchedInv' /\ text' \in Cron
<1>1. CASE UNCHANGED vars
    BY <1>1 DEF vars, server, store, sched, bounds, SchedInv, Newest, Displayed
<1>2. CASE Next /\ (Aside \/ Listing)
    <2>1. UNCHANGED <<cron, menu, text, saves, saving, excuse>>
        BY <1>2, AsideKeeps, ListingKeeps
    <2>2. clicks \in Nat /\ saving \in Nat /\ saving <= clicks
          /\ (clicks' = clicks \/ clicks' = clicks + 1)
        BY <1>2, ClicksGrow DEF SchedInv
    <2>3. clicks' \in Nat /\ saving \in Nat /\ saving <= clicks'
        BY <2>2
    <2>. QED
        BY <2>1, <2>3 DEF SchedInv, Newest, Displayed
<1>3. CASE Scheduling
    <2>1. text' \in Cron
        BY <1>3 DEF Scheduling, ChooseMenu, TypeText, SaveText, HandleSave, AnswerSave, SaveLost,
                    CronElsewhere
    <2>. QED
        BY <1>3, <2>1, RequestStep, ControlStep DEF Scheduling
<1>. QED
    BY <1>1, <1>2, <1>3, Split

\* The controls show the schedule of the repository, or have a reason not to.
THEOREM ScheduleIsShown ==
    ASSUME CardConstants
    PROVE  Spec => []ScheduleShownForAReason
<1>1. Init => SchedInv /\ text \in Cron
    BY SchedFirst
<1>2. SchedInv /\ text \in Cron /\ [Next]_vars => SchedInv' /\ (text \in Cron)'
    BY SchedStep
<1>3. SchedInv => ScheduleShownForAReason
    BY DEF SchedInv, ScheduleShownForAReason
<1>. QED
    BY <1>1, <1>2, <1>3, PTL DEF Spec

-----------------------------------------------------------------------------
(* Types.                                                                  *)

\* TypeOK by the groups of variables that the actions leave alone.
ServerTypes ==
    /\ held \subseteq Snaps /\ forgets \subseteq Snaps /\ cron \in Cron
    /\ gone \in BOOLEAN /\ news \in Nat
QueryTypes ==
    /\ {panel, loaded, missed, since} \subseteq BOOLEAN
    /\ list \subseteq Snaps /\ fetched \subseteq Snaps
    /\ fetch \in {"idle", "sent", "answered"}
StageTypes ==
    /\ stage \in [Kinds -> {"idle", "sent", "done"}]
    /\ Cardinality({a \in Simple : stage[a] # "idle"}) <= 1
ButtonTypes ==
    /\ shown \in BOOLEAN /\ deletes \in Nat /\ confirm \subseteq {"delete", "prune"}
    /\ {trash, forgetting} \subseteq Snaps \cup {None} /\ again \in BOOLEAN
SchedTypes ==
    /\ menu \in {"", "custom"} \cup Presets /\ text \in Cron
    /\ saves \subseteq [cron : Cron, at : Nat, stage : {"sent", "done", "refused"}]
    /\ saving \in 0..MaxClicks
    /\ excuse \subseteq {"unsaved", "refused", "overtaken", "elsewhere"}
ReportTypes == feedback \in Feedback /\ last \in Feedback \cup Untold
BrowserTypes ==
    /\ browsing \in Snaps \cup {None}
    /\ picked \in Pick /\ request \in Restore /\ notice \in Restore
CompareTypes == found \subseteq Snaps /\ chosen \in Pair /\ asked \in Pair
BoundTypes == clicks \in 0..MaxClicks /\ events \in 0..MaxEvents

\* A request to forget names a snapshot, and its row asks unless another has.
ForgetInv ==
    /\ stage["forget"] = "sent" => forgetting \in Snaps
    /\ RowInv

\* These are all groups.
LEMMA Groups ==
    /\ TypeOK <=> /\ ServerTypes /\ QueryTypes /\ StageTypes /\ ButtonTypes /\ SchedTypes
                  /\ ReportTypes /\ BrowserTypes /\ CompareTypes /\ BoundTypes
    /\ TypeOK' <=> /\ ServerTypes' /\ QueryTypes' /\ StageTypes' /\ ButtonTypes' /\ SchedTypes'
                   /\ ReportTypes' /\ BrowserTypes' /\ CompareTypes' /\ BoundTypes'
BY DEF TypeOK, ServerTypes, QueryTypes, StageTypes, ButtonTypes, SchedTypes, ReportTypes,
       BrowserTypes, CompareTypes, BoundTypes

\* A group that is left alone keeps its types.
LEMMA Rest ==
    /\ UNCHANGED server => (ServerTypes => ServerTypes')
    /\ UNCHANGED query => (QueryTypes => QueryTypes')
    /\ UNCHANGED stage => (StageTypes => StageTypes')
    /\ UNCHANGED <<asks, row>> => (ButtonTypes => ButtonTypes')
    /\ UNCHANGED sched => (SchedTypes => SchedTypes')
    /\ UNCHANGED report => (ReportTypes => ReportTypes')
    /\ UNCHANGED browser => (BrowserTypes => BrowserTypes')
    /\ UNCHANGED compare => (CompareTypes => CompareTypes')
    /\ UNCHANGED bounds => (BoundTypes => BoundTypes')
    /\ UNCHANGED <<stage, row>> => (ForgetInv => ForgetInv')
<1>1. UNCHANGED server => (ServerTypes => ServerTypes')
    BY DEF server, store, ServerTypes
<1>2. UNCHANGED query => (QueryTypes => QueryTypes')
    BY DEF query, QueryTypes
<1>3. UNCHANGED stage => (StageTypes => StageTypes')
    BY DEF StageTypes
<1>4. UNCHANGED <<asks, row>> => (ButtonTypes => ButtonTypes')
    BY DEF asks, row, ButtonTypes
<1>5. UNCHANGED sched => (SchedTypes => SchedTypes')
    BY DEF sched, SchedTypes
<1>6. UNCHANGED report => (ReportTypes => ReportTypes')
    BY DEF report, ReportTypes
<1>7. UNCHANGED browser => (BrowserTypes => BrowserTypes')
    BY DEF browser, BrowserTypes
<1>8. UNCHANGED compare => (CompareTypes => CompareTypes')
    BY DEF compare, CompareTypes
<1>9. UNCHANGED bounds => (BoundTypes => BoundTypes')
    BY DEF bounds, BoundTypes
<1>10. UNCHANGED <<stage, row>> => (ForgetInv => ForgetInv')
    BY DEF ForgetInv, RowInv, Idle, row
<1>. QED
    BY <1>1, <1>2, <1>3, <1>4, <1>5, <1>6, <1>7, <1>8, <1>9, <1>10

\* A click and an event count up to their bounds.
LEMMA Counts ==
    ASSUME CardConstants, BoundTypes, Click \/ Event
    PROVE  BoundTypes'
<1>1. MaxClicks \in Nat /\ MaxEvents \in Nat
    BY DEF CardConstants
<1>2. CASE Click
    <2>1. clicks' \in 0..MaxClicks
        BY <1>1, <1>2 DEF BoundTypes, Click
    <2>. QED
        BY <1>2, <2>1 DEF BoundTypes, Click
<1>3. CASE Event
    <2>1. events' \in 0..MaxEvents
        BY <1>1, <1>3 DEF BoundTypes, Event
    <2>. QED
        BY <1>3, <2>1 DEF BoundTypes, Event
<1>. QED
    BY <1>2, <1>3

\* At most one of the three buttons is busy.
LEMMA GoTypes ==
    ASSUME StageTypes, NEW a \in Kinds, NEW st \in {"idle", "sent", "done"}, Go(a, st),
           (a \in Simple /\ st # "idle") => \A b \in Simple : Idle(b)
    PROVE  StageTypes' /\ stage' = [stage EXCEPT ![a] = st]
<1>. DEFINE busy == {b \in Simple : stage[b] # "idle"}
            busier == {b \in Simple : stage'[b] # "idle"}
<1>1. stage' \in [Kinds -> {"idle", "sent", "done"}]
    BY DEF Go, StageTypes
<1>2. \A b \in Simple : stage'[b] = IF b = a THEN st ELSE stage[b]
    BY DEF Go, StageTypes, Kinds
<1>3. IsFiniteSet(busy) /\ Cardinality(busy) \in Nat /\ Cardinality(busy) <= 1
    <2>1. IsFiniteSet({"test"}) /\ IsFiniteSet({"test"} \cup {"init"})
        BY FS_Singleton, FS_AddElement
    <2>2. IsFiniteSet({"test"} \cup {"init"} \cup {"unlock"})
        BY <2>1, FS_AddElement
    <2>3. Simple = {"test"} \cup {"init"} \cup {"unlock"}
        BY DEF Simple
    <2>4. IsFiniteSet(busy)
        BY <2>2, <2>3, FS_Subset
    <2>. QED
        BY <2>4, FS_CardinalityType DEF StageTypes
<1>4. CASE a \in Simple /\ st # "idle"
    <2>1. busier \in SUBSET {a}
        BY <1>2, <1>4 DEF Idle
    <2>2. IsFiniteSet({a}) /\ Cardinality({a}) = 1
        BY FS_Singleton
    <2>3. Cardinality(busier) <= 1
        BY <2>1, <2>2, FS_Subset
    <2>. QED
        BY <1>1, <2>3 DEF Go, StageTypes
<1>5. CASE ~(a \in Simple /\ st # "idle")
    <2>1. busier \in SUBSET busy
        BY <1>2, <1>5
    <2>2. IsFiniteSet(busier) /\ Cardinality(busier) <= Cardinality(busy)
        BY <1>3, <2>1, FS_Subset
    <2>3. Cardinality(busier) \in Nat
        BY <2>2, FS_CardinalityType
    <2>4. Cardinality(busier) <= 1
        <3>. HIDE DEF busy, busier
        <3>. QED
            BY <1>3, <2>2, <2>3
    <2>. QED
        BY <1>1, <2>4 DEF Go, StageTypes
<1>. QED
    BY <1>4, <1>5

\* What is told is feedback.
LEMMA TellTypes ==
    ASSUME NEW a \in Reporting, NEW good \in BOOLEAN, Answered(a, good), Tell(a, good)
    PROVE  ReportTypes'
BY DEF Tell, Answered, ReportTypes, Feedback

\* A set of numbers that is finite and not empty has a largest.
LEMMA Largest ==
    ASSUME NEW S, S \subseteq Nat, IsFiniteSet(S), S # {}
    PROVE  \E m \in S : \A t \in S : t <= m
<1>. DEFINE HasLargest(T) == \E m \in T : \A t \in T : t <= m
            bad == {T \in FiniteSubsetsOf(Nat) : T # {} /\ ~HasLargest(T)}
<1>1. SUFFICES ASSUME bad # {}
               PROVE  FALSE
    BY DEF FiniteSubsetsOf
<1>2. PICK T \in bad : \A U \in bad : <<U, T>> \notin StrictSubsetOrdering(Nat)
    <2>1. bad \subseteq FiniteSubsetsOf(Nat)
        OBVIOUS
    <2>. HIDE DEF bad
    <2>. QED
        BY <1>1, <2>1, FS_StrictSubsetOrderingWellFounded, WFMin
<1>3. T \subseteq Nat /\ IsFiniteSet(T) /\ T # {} /\ ~HasLargest(T)
    BY DEF FiniteSubsetsOf
<1>4. PICK x \in T : TRUE
    BY <1>3
<1>5. IsFiniteSet(T \ {x})
    BY <1>3, FS_RemoveElement
<1>6. CASE T \ {x} = {}
    BY <1>3, <1>4, <1>6
<1>7. CASE T \ {x} # {}
    <2>1. <<T \ {x}, T>> \in StrictSubsetOrdering(Nat)
        BY <1>3, <1>4 DEF StrictSubsetOrdering
    <2>2. T \ {x} \notin bad
        BY <1>2, <2>1
    <2>3. T \ {x} \in FiniteSubsetsOf(Nat)
        BY <1>3, <1>5 DEF FiniteSubsetsOf
    <2>4. HasLargest(T \ {x})
        BY <1>7, <2>2, <2>3
    <2>5. PICK m \in T \ {x} : \A t \in T \ {x} : t <= m
        BY <2>4
    <2>6. CASE x <= m
        BY <1>3, <2>5, <2>6
    <2>7. CASE ~(x <= m)
        BY <1>3, <1>4, <2>5, <2>7
    <2>. QED
        BY <2>6, <2>7
<1>. QED
    BY <1>6, <1>7

\* What the menus of the comparison show are snapshots.
LEMMA ComparedType ==
    ASSUME CardConstants, QueryTypes, CompareTypes, Cardinality(list) >= 2
    PROVE  Compared \in Pair
<1>1. list \subseteq Nat /\ IsFiniteSet(list) /\ list \subseteq Snaps
    BY FS_Subset DEF CardConstants, QueryTypes
<1>2. \A S : S \subseteq list /\ S # {} => (CHOOSE s \in S : \A t \in S : t <= s) \in S
    <2>1. ASSUME NEW S, S \subseteq list, S # {}
          PROVE  \E s \in S : \A t \in S : t <= s
        BY <1>1, <2>1, FS_Subset, Largest
    <2>. QED
        BY <2>1
<1>3. \A x : list \ {x} # {}
    <2>1. SUFFICES ASSUME NEW x, list \subseteq {x}
                   PROVE  FALSE
        OBVIOUS
    <2>2. IsFiniteSet({x}) /\ Cardinality({x}) = 1
        BY FS_Singleton
    <2>3. Cardinality(list) <= 1 /\ Cardinality(list) \in Nat
        BY <1>1, <2>1, <2>2, FS_Subset, FS_CardinalityType
    <2>. QED
        BY <2>3
<1>4. PICK new : new = CHOOSE s \in list : \A t \in list : t <= s
    OBVIOUS
<1>5. PICK old : old = CHOOSE s \in list \ {new} : \A t \in list \ {new} : t <= s
    OBVIOUS
<1>6. list # {}
    BY <1>3
<1>7. new \in Snaps
    BY <1>1, <1>2, <1>4, <1>6
<1>8. old \in Snaps
    BY <1>1, <1>2, <1>3, <1>5
<1>9. Compared = <<IF chosen[1] # None THEN chosen[1] ELSE old,
                   IF chosen[2] # None THEN chosen[2] ELSE new>>
    BY <1>4, <1>5 DEF Compared
<1>10. chosen[1] \in Snaps \cup {None} /\ chosen[2] \in Snaps \cup {None}
    BY DEF CompareTypes, Pair
<1>. QED
    BY <1>7, <1>8, <1>9, <1>10 DEF Pair

\* The records that stand for nothing, and what is told, have their types.
LEMMA Records ==
    /\ NoPick \in Pick /\ NoRestore \in Restore /\ Silent \in Feedback
    /\ \A a \in Reporting : \A good \in BOOLEAN : [of |-> a, good |-> good] \in Feedback
<1>1. NoPick \in Pick
    BY DEF NoPick, Pick
<1>2. NoRestore \in Restore
    BY <1>1 DEF NoRestore, Restore
<1>. QED
    BY <1>1, <1>2 DEF Silent, Feedback

\* The browser that leaves the screen.
LEMMA CloseTypes ==
    ASSUME StageTypes, CloseBrowser
    PROVE  /\ StageTypes' /\ stage'["forget"] = stage["forget"]
           /\ picked' \in Pick /\ request' \in Restore /\ notice' \in Restore
<1>1. StageTypes'
    BY GoTypes DEF CloseBrowser, Kinds, Simple
<1>2. stage'["forget"] = stage["forget"]
    BY DEF CloseBrowser, Go, StageTypes, Kinds, Started
<1>. QED
    BY <1>1, <1>2, Records DEF CloseBrowser

\* A save is a request.
LEMMA SaveTypes ==
    ASSUME CardConstants, SchedTypes, BoundTypes, Click, NEW c \in Cron, Save(c)
    PROVE  /\ saves' \subseteq [cron : Cron, at : Nat, stage : {"sent", "done", "refused"}]
           /\ saving' \in 0..MaxClicks
           /\ excuse' \subseteq {"unsaved", "refused", "overtaken", "elsewhere"}
           /\ feedback' \in Feedback
<1>1. clicks + 1 \in 0..MaxClicks /\ clicks + 1 \in Nat
    <2>1. MaxClicks \in Nat /\ clicks \in 0..MaxClicks /\ clicks < MaxClicks
        BY DEF CardConstants, BoundTypes, Click
    <2>. QED
        BY <2>1
<1>2. [cron |-> c, at |-> clicks + 1, stage |-> "sent"] \in
        [cron : Cron, at : Nat, stage : {"sent", "done", "refused"}]
    BY <1>1
<1>. QED
    BY <1>1, <1>2, Records DEF Save, SchedTypes

\* What the buttons of operations do, and the answers to them.
LEMMA OperationTypes ==
    ASSUME CardConstants, TypeOK, ForgetInv,
           \/ ClickCheck \/ ClickPrune \/ ClickDelete \/ ClickCopy \/ AnswerPrune
           \/ AnswerCopy \/ HandleDelete \/ AnswerDelete \/ CardLeaves
           \/ \E a \in Simple : ClickSimple(a)
           \/ \E what \in {"delete", "prune"} : Ask(what)
           \/ \E a \in Kinds : AnswerSimple(a)
    PROVE  TypeOK' /\ ForgetInv'
<1>1. /\ ServerTypes /\ QueryTypes /\ StageTypes /\ ButtonTypes /\ SchedTypes
      /\ ReportTypes /\ BrowserTypes /\ CompareTypes /\ BoundTypes
    BY Groups
<1>2. ASSUME NEW a \in Simple, ClickSimple(a)
      PROVE  TypeOK' /\ ForgetInv'
    <2>1. StageTypes'
        BY <1>1, <1>2, GoTypes DEF ClickSimple, Kinds, Started, Simple, Idle
    <2>2. ReportTypes'
        BY <1>1, <1>2 DEF ClickSimple, ReportTypes, Feedback, Silent
    <2>3. ForgetInv'
        BY <1>1, <1>2 DEF ClickSimple, Go, StageTypes, ForgetInv, RowInv, Idle, row, Kinds,
            Started,
            Simple
    <2>. QED
        BY <1>1, <1>2, <2>1, <2>2, <2>3, Groups, Rest, Counts DEF ClickSimple,
            buttons
<1>3. CASE ClickCheck
    <2>1. StageTypes'
        BY <1>1, <1>3, GoTypes DEF ClickCheck, Kinds, Started, Simple, Idle
    <2>2. ReportTypes'
        BY <1>1, <1>3 DEF ClickCheck, ReportTypes, Feedback, Silent
    <2>3. ForgetInv'
        BY <1>1, <1>3 DEF ClickCheck, Go, StageTypes, ForgetInv, RowInv, Idle, row, Kinds,
            Started,
            Simple
    <2>. QED
        BY <1>1, <1>3, <2>1, <2>2, <2>3, Groups, Rest, Counts DEF ClickCheck,
            buttons
<1>4. ASSUME NEW what \in {"delete", "prune"}, Ask(what)
      PROVE  TypeOK' /\ ForgetInv'
    <2>1. ButtonTypes'
        BY <1>1, <1>4 DEF Ask, ButtonTypes, row
    <2>. QED
        BY <1>1, <1>4, <2>1, Groups, Rest, Counts DEF Ask, buttons
<1>5. CASE ClickPrune
    <2>1. StageTypes'
        BY <1>1, <1>5, GoTypes DEF ClickPrune, Kinds, Started, Simple, Idle
    <2>2. ForgetInv'
        BY <1>1, <1>5 DEF ClickPrune, Go, StageTypes, ForgetInv, RowInv, Idle, row, Kinds,
            Started,
            Simple
    <2>. QED
        BY <1>1, <1>5, <2>1, <2>2, Groups, Rest, Counts DEF ClickPrune, buttons
<1>6. CASE ClickDelete
    <2>1. ButtonTypes'
        BY <1>1, <1>6 DEF ClickDelete, ButtonTypes, row
    <2>. QED
        BY <1>1, <1>6, <2>1, Groups, Rest, Counts DEF ClickDelete, buttons
<1>7. CASE ClickCopy
    <2>1. StageTypes'
        BY <1>1, <1>7, GoTypes DEF ClickCopy, Kinds, Started, Simple, Idle
    <2>2. ForgetInv'
        BY <1>1, <1>7 DEF ClickCopy, Go, StageTypes, ForgetInv, RowInv, Idle, row, Kinds, Started,
            Simple
    <2>. QED
        BY <1>1, <1>7, <2>1, <2>2, Groups, Rest, Counts DEF ClickCopy, buttons
<1>8. ASSUME NEW a \in Kinds, AnswerSimple(a)
      PROVE  TypeOK' /\ ForgetInv'
    <2>1. StageTypes'
        BY <1>1, <1>8, GoTypes DEF AnswerSimple, Kinds, Started, Simple, Idle
    <2>2. ReportTypes'
        BY <1>1, <1>8, TellTypes DEF AnswerSimple, Reporting, Started
    <2>3. ForgetInv'
        BY <1>1, <1>8 DEF AnswerSimple, Go, StageTypes, ForgetInv, RowInv, Idle, row, Kinds,
            Started,
            Simple
    <2>. QED
        BY <1>1, <1>8, <2>1, <2>2, <2>3, Groups, Rest, Counts DEF AnswerSimple,
            buttons
<1>9. CASE AnswerPrune
    <2>1. StageTypes'
        BY <1>1, <1>9, GoTypes DEF AnswerPrune, Kinds, Started, Simple, Idle
    <2>2. ButtonTypes'
        BY <1>1, <1>9 DEF AnswerPrune, ButtonTypes, row
    <2>3. ReportTypes'
        BY <1>1, <1>9, TellTypes DEF AnswerPrune, Reporting, Started
    <2>4. ForgetInv'
        BY <1>1, <1>9 DEF AnswerPrune, Go, StageTypes, ForgetInv, RowInv, Idle, row, Kinds,
            Started,
            Simple
    <2>. QED
        BY <1>1, <1>9, <2>1, <2>2, <2>3, <2>4, Groups, Rest, Counts DEF AnswerPrune,
            buttons
<1>10. CASE AnswerCopy
    <2>1. StageTypes'
        BY <1>1, <1>10, GoTypes DEF AnswerCopy, Kinds, Started, Simple, Idle
    <2>2. ReportTypes'
        BY <1>1, <1>10, Records DEF AnswerCopy, TellSuccess, Answered, Tell, ReportTypes,
            Reporting, Started, Untold
    <2>3. ForgetInv'
        BY <1>1, <1>10 DEF AnswerCopy, Go, StageTypes, ForgetInv, RowInv, Idle, row, Kinds,
            Started,
            Simple
    <2>. QED
        BY <1>1, <1>10, <2>1, <2>2, <2>3, Groups, Rest, Counts DEF AnswerCopy,
            buttons
<1>11. CASE HandleDelete
    <2>1. ServerTypes'
        BY <1>1, <1>11 DEF HandleDelete, ServerTypes
    <2>. QED
        BY <1>1, <1>11, <2>1, Groups, Rest DEF HandleDelete, buttons
<1>12. CASE AnswerDelete
    <2>1. ButtonTypes'
        BY <1>1, <1>12 DEF AnswerDelete, ButtonTypes, row
    <2>2. ReportTypes'
        <3>1. PICK good \in {FALSE, gone} : last' = [of |-> "delete", good |-> good]
            BY <1>12 DEF AnswerDelete, Answered
        <3>2. good \in BOOLEAN
            BY <1>1, <3>1 DEF ServerTypes
        <3>3. last' \in Untold /\ feedback' = feedback
            BY <1>12, <3>1, <3>2 DEF AnswerDelete, Untold
        <3>. QED
            BY <1>1, <3>3 DEF ReportTypes
    <2>. QED
        BY <1>1, <1>12, <2>1, <2>2, Groups, Rest DEF AnswerDelete, buttons
<1>13. CASE CardLeaves
    <2>1. ButtonTypes'
        BY <1>1, <1>13 DEF CardLeaves, ButtonTypes, row
    <2>. QED
        BY <1>1, <1>13, <2>1, Groups, Rest DEF CardLeaves, buttons
<1>. QED
    BY <1>2, <1>3, <1>4, <1>5, <1>6, <1>7, <1>8, <1>9, <1>10, <1>11, <1>12, <1>13

\* What the controls of the schedule do, and their requests.
LEMMA SchedTypesStep ==
    ASSUME CardConstants, TypeOK, ForgetInv,
           \/ SaveText \/ CronElsewhere
           \/ \E v \in {"", "custom"} \cup Presets : ChooseMenu(v)
           \/ \E c \in Cron : TypeText(c)
           \/ \E s \in saves : HandleSave(s)
           \/ \E s \in saves : AnswerSave(s)
           \/ \E s \in saves : SaveLost(s)
    PROVE  TypeOK' /\ ForgetInv'
<1>1. /\ ServerTypes /\ QueryTypes /\ StageTypes /\ ButtonTypes /\ SchedTypes
      /\ ReportTypes /\ BrowserTypes /\ CompareTypes /\ BoundTypes
    BY Groups
<1>2. ASSUME NEW v \in {"", "custom"} \cup Presets, ChooseMenu(v)
      PROVE  TypeOK' /\ ForgetInv'
    <2>1. SchedTypes'
        BY <1>1, <1>2, SaveTypes DEF ChooseMenu, SchedTypes, Cron
    <2>2. ReportTypes'
        BY <1>1, <1>2, SaveTypes DEF ChooseMenu, ReportTypes, Cron
    <2>. QED
        BY <1>1, <1>2, <2>1, <2>2, Groups, Rest, Counts DEF ChooseMenu, buttons
<1>3. ASSUME NEW c \in Cron, TypeText(c)
      PROVE  TypeOK' /\ ForgetInv'
    <2>1. SchedTypes'
        BY <1>1, <1>3 DEF TypeText, SchedTypes
    <2>. QED
        BY <1>1, <1>3, <2>1, Groups, Rest, Counts DEF TypeText, buttons
<1>4. CASE SaveText
    <2>1. SchedTypes'
        BY <1>1, <1>4, SaveTypes DEF SaveText, SchedTypes
    <2>2. ReportTypes'
        BY <1>1, <1>4, SaveTypes DEF SaveText, ReportTypes, SchedTypes
    <2>. QED
        BY <1>1, <1>4, <2>1, <2>2, Groups, Rest, Counts DEF SaveText, buttons
<1>5. ASSUME NEW s \in saves, HandleSave(s)
      PROVE  TypeOK' /\ ForgetInv'
    <2>1. SchedTypes'
        BY <1>1, <1>5 DEF HandleSave, SchedTypes
    <2>2. ServerTypes'
        BY <1>1, <1>5 DEF HandleSave, ServerTypes, SchedTypes
    <2>. QED
        BY <1>1, <1>5, <2>1, <2>2, Groups, Rest, Counts DEF HandleSave, buttons
<1>6. ASSUME NEW s \in saves, AnswerSave(s)
      PROVE  TypeOK' /\ ForgetInv'
    <2>1. SchedTypes'
        BY <1>1, <1>6 DEF AnswerSave, SchedTypes
    <2>2. ReportTypes'
        BY <1>1, <1>6, TellTypes DEF AnswerSave, Reporting
    <2>. QED
        BY <1>1, <1>6, <2>1, <2>2, Groups, Rest, Counts DEF AnswerSave, buttons
<1>7. ASSUME NEW s \in saves, SaveLost(s)
      PROVE  TypeOK' /\ ForgetInv'
    <2>1. SchedTypes'
        BY <1>1, <1>7 DEF SaveLost, SchedTypes
    <2>2. ReportTypes'
        BY <1>1, <1>7, TellTypes DEF SaveLost, Reporting
    <2>. QED
        BY <1>1, <1>7, <2>1, <2>2, Groups, Rest, Counts DEF SaveLost, buttons
<1>8. CASE CronElsewhere
    <2>1. SchedTypes'
        BY <1>1, <1>8 DEF CronElsewhere, SchedTypes
    <2>2. ServerTypes'
        BY <1>1, <1>8 DEF CronElsewhere, ServerTypes, SchedTypes
    <2>. QED
        BY <1>1, <1>8, <2>1, <2>2, Groups, Rest, Counts DEF CronElsewhere, buttons
<1>. QED
    BY <1>2, <1>3, <1>4, <1>5, <1>6, <1>7, <1>8

\* What the list of snapshots does, and what happens to the repository.
LEMMA ListingTypes ==
    ASSUME CardConstants, TypeOK, ForgetInv,
           \/ TogglePanel \/ AnswerList \/ LoadList \/ FailList \/ EventArrives
           \/ NewsLost \/ BackupEnds
           \/ \E s \in Snaps : ForgetEnds(s)
    PROVE  TypeOK' /\ ForgetInv'
<1>1. /\ ServerTypes /\ QueryTypes /\ StageTypes /\ ButtonTypes /\ SchedTypes
      /\ ReportTypes /\ BrowserTypes /\ CompareTypes /\ BoundTypes
    BY Groups
<1>2. CASE TogglePanel
    <2>1. QueryTypes'
        BY <1>1, <1>2 DEF TogglePanel, QueryTypes
    <2>2. StageTypes'
        BY <1>1, <1>2, CloseTypes, Rest DEF TogglePanel
    <2>3. BrowserTypes'
        BY <1>1, <1>2, CloseTypes DEF TogglePanel, BrowserTypes
    <2>4. ForgetInv'
        BY <1>1, <1>2, CloseTypes DEF TogglePanel, ForgetInv, RowInv, Idle, row, buttons
    <2>. QED
        BY <1>1, <1>2, <2>1, <2>2, <2>3, <2>4, Groups, Rest, Counts DEF TogglePanel,
            buttons
<1>3. CASE AnswerList
    <2>1. QueryTypes'
        BY <1>1, <1>3 DEF AnswerList, QueryTypes, ServerTypes
    <2>. QED
        BY <1>1, <1>3, <2>1, Groups, Rest, Counts DEF AnswerList, buttons
<1>4. CASE LoadList
    <2>1. QueryTypes'
        BY <1>1, <1>4 DEF LoadList, QueryTypes
    <2>2. StageTypes'
        BY <1>1, <1>4, CloseTypes, Rest DEF LoadList
    <2>3. BrowserTypes'
        BY <1>1, <1>4, CloseTypes DEF LoadList, BrowserTypes
    <2>4. ForgetInv'
        BY <1>1, <1>4, CloseTypes DEF LoadList, ForgetInv, RowInv, Idle, row, buttons
    <2>. QED
        BY <1>1, <1>4, <2>1, <2>2, <2>3, <2>4, Groups, Rest, Counts DEF LoadList,
            buttons
<1>5. CASE FailList
    <2>1. QueryTypes'
        BY <1>1, <1>5 DEF FailList, QueryTypes
    <2>. QED
        BY <1>1, <1>5, <2>1, Groups, Rest, Counts DEF FailList, buttons
<1>6. CASE EventArrives
    <2>1. QueryTypes'
        BY <1>1, <1>6 DEF EventArrives, QueryTypes
    <2>2. ServerTypes'
        BY <1>1, <1>6 DEF EventArrives, ServerTypes, store
    <2>. QED
        BY <1>1, <1>6, <2>1, <2>2, Groups, Rest, Counts DEF EventArrives, buttons
<1>7. CASE NewsLost
    <2>1. QueryTypes'
        BY <1>1, <1>7 DEF NewsLost, QueryTypes
    <2>2. ServerTypes'
        BY <1>1, <1>7 DEF NewsLost, ServerTypes, store
    <2>. QED
        BY <1>1, <1>7, <2>1, <2>2, Groups, Rest, Counts DEF NewsLost, buttons
<1>8. CASE BackupEnds
    <2>1. ServerTypes'
        BY <1>1, <1>8 DEF BackupEnds, ServerTypes
    <2>. QED
        BY <1>1, <1>8, <2>1, Groups, Rest, Counts DEF BackupEnds, buttons
<1>9. ASSUME NEW s \in Snaps, ForgetEnds(s)
      PROVE  TypeOK' /\ ForgetInv'
    <2>1. ServerTypes'
        BY <1>1, <1>9 DEF ForgetEnds, ServerTypes
    <2>. QED
        BY <1>1, <1>9, <2>1, Groups, Rest, Counts DEF ForgetEnds, buttons
<1>. QED
    BY <1>2, <1>3, <1>4, <1>5, <1>6, <1>7, <1>8, <1>9

\* What the rows of the list do: forget, search, compare.
LEMMA RowTypes ==
    ASSUME CardConstants, TypeOK, ForgetInv,
           \/ ClickForget \/ HandleForget \/ AnswerForget \/ ClickFind \/ AnswerFind
           \/ ClickDiff \/ AnswerDiff
           \/ \E s \in Snaps : AskForget(s)
           \/ \E i \in 1..2 : \E s \in Snaps : Choose(i, s)
    PROVE  TypeOK' /\ ForgetInv'
<1>1. /\ ServerTypes /\ QueryTypes /\ StageTypes /\ ButtonTypes /\ SchedTypes
      /\ ReportTypes /\ BrowserTypes /\ CompareTypes /\ BoundTypes
    BY Groups
<1>2. ASSUME NEW s \in Snaps, AskForget(s)
      PROVE  TypeOK' /\ ForgetInv'
    <2>1. ButtonTypes'
        BY <1>1, <1>2 DEF AskForget, ButtonTypes, asks, None
    <2>2. ForgetInv'
        BY <1>1, <1>2 DEF AskForget, ForgetInv, RowInv, Idle
    <2>. QED
        BY <1>1, <1>2, <2>1, <2>2, Groups, Rest, Counts DEF AskForget, buttons
<1>3. CASE ClickForget
    <2>1. StageTypes'
        BY <1>1, <1>3, GoTypes DEF ClickForget, Kinds, Started, Simple, Idle
    <2>2. ButtonTypes' /\ ForgetInv'
        BY <1>1, <1>3 DEF ClickForget, ButtonTypes, ForgetInv, RowInv, asks, QueryTypes
    <2>. QED
        BY <1>1, <1>3, <2>1, <2>2, Groups, Rest, Counts DEF ClickForget, buttons
<1>4. CASE HandleForget
    <2>1. StageTypes'
        BY <1>1, <1>4, GoTypes DEF HandleForget, Kinds, Started, Simple, Idle
    <2>2. ServerTypes'
        BY <1>1, <1>4 DEF HandleForget, ServerTypes, ForgetInv
    <2>3. ForgetInv'
        BY <1>1, <1>4 DEF HandleForget, Go, StageTypes, ForgetInv, RowInv, Idle, row, Kinds,
            Started,
            Simple
    <2>. QED
        BY <1>1, <1>4, <2>1, <2>2, <2>3, Groups, Rest, Counts DEF HandleForget,
            buttons
<1>5. CASE AnswerForget
    <2>1. StageTypes'
        BY <1>1, <1>5, GoTypes DEF AnswerForget, Kinds, Started, Simple, Idle
    <2>2. ButtonTypes'
        BY <1>1, <1>5 DEF AnswerForget, ButtonTypes, asks, None
    <2>3. ReportTypes'
        BY <1>1, <1>5, TellTypes DEF AnswerForget, Reporting, Started
    <2>4. ForgetInv'
        BY <1>1, <1>5 DEF AnswerForget, Go, StageTypes, ForgetInv, RowInv, Idle, row, Kinds,
            Started,
            Simple
    <2>. QED
        BY <1>1, <1>5, <2>1, <2>2, <2>3, <2>4, Groups, Rest, Counts DEF
            AnswerForget, buttons
<1>6. CASE ClickFind
    <2>1. StageTypes'
        BY <1>1, <1>6, GoTypes DEF ClickFind, Kinds, Started, Simple, Idle
    <2>2. CompareTypes'
        BY <1>1, <1>6 DEF ClickFind, CompareTypes
    <2>3. ForgetInv'
        BY <1>1, <1>6 DEF ClickFind, Go, StageTypes, ForgetInv, RowInv, Idle, row, Kinds, Started,
            Simple
    <2>. QED
        BY <1>1, <1>6, <2>1, <2>2, <2>3, Groups, Rest, Counts DEF ClickFind, buttons
<1>7. CASE AnswerFind
    <2>1. StageTypes'
        BY <1>1, <1>7, GoTypes DEF AnswerFind, Kinds, Started, Simple, Idle
    <2>2. CompareTypes'
        BY <1>1, <1>7 DEF AnswerFind, CompareTypes, ServerTypes
    <2>3. ForgetInv'
        BY <1>1, <1>7 DEF AnswerFind, Go, StageTypes, ForgetInv, RowInv, Idle, row, Kinds,
            Started,
            Simple
    <2>. QED
        BY <1>1, <1>7, <2>1, <2>2, <2>3, Groups, Rest, Counts DEF AnswerFind,
            buttons
<1>8. ASSUME NEW i \in 1..2, NEW s \in Snaps, Choose(i, s)
      PROVE  TypeOK' /\ ForgetInv'
    <2>1. CompareTypes'
        BY <1>1, <1>8 DEF Choose, CompareTypes, Pair
    <2>. QED
        BY <1>1, <1>8, <2>1, Groups, Rest, Counts DEF Choose, buttons
<1>9. CASE ClickDiff
    <2>1. StageTypes'
        BY <1>1, <1>9, GoTypes DEF ClickDiff, Kinds, Started, Simple, Idle
    <2>2. CompareTypes'
        BY <1>1, <1>9, ComparedType DEF ClickDiff, CompareTypes
    <2>3. ForgetInv'
        BY <1>1, <1>9 DEF ClickDiff, Go, StageTypes, ForgetInv, RowInv, Idle, row, Kinds, Started,
            Simple
    <2>. QED
        BY <1>1, <1>9, <2>1, <2>2, <2>3, Groups, Rest, Counts DEF ClickDiff, buttons
<1>10. CASE AnswerDiff
    <2>1. StageTypes'
        BY <1>1, <1>10, GoTypes DEF AnswerDiff, Kinds, Started, Simple, Idle
    <2>2. CompareTypes'
        BY <1>1, <1>10 DEF AnswerDiff, CompareTypes, Pair, compare
    <2>3. ForgetInv'
        BY <1>1, <1>10 DEF AnswerDiff, Go, StageTypes, ForgetInv, RowInv, Idle, row, Kinds,
            Started,
            Simple
    <2>. QED
        BY <1>1, <1>10, <2>1, <2>2, <2>3, Groups, Rest, Counts DEF AnswerDiff,
            buttons
<1>. QED
    BY <1>2, <1>3, <1>4, <1>5, <1>6, <1>7, <1>8, <1>9, <1>10

\* What the browser of a snapshot does.
LEMMA BrowserTypesStep ==
    ASSUME CardConstants, TypeOK, ForgetInv,
           \/ ClickRestore \/ AnswerRestore
           \/ \E s \in Snaps : Browse(s)
           \/ \E n \in {""} \cup Nodes : PickNode(n)
    PROVE  TypeOK' /\ ForgetInv'
<1>1. /\ ServerTypes /\ QueryTypes /\ StageTypes /\ ButtonTypes /\ SchedTypes
      /\ ReportTypes /\ BrowserTypes /\ CompareTypes /\ BoundTypes
    BY Groups
<1>2. ASSUME NEW s \in Snaps, Browse(s)
      PROVE  TypeOK' /\ ForgetInv'
    <2>1. StageTypes'
        BY <1>1, <1>2, CloseTypes, Rest DEF Browse
    <2>2. BrowserTypes'
        BY <1>1, <1>2, CloseTypes DEF Browse, BrowserTypes
    <2>3. ForgetInv'
        BY <1>1, <1>2, CloseTypes DEF Browse, ForgetInv, RowInv, Idle, row, buttons
    <2>. QED
        BY <1>1, <1>2, <2>1, <2>2, <2>3, Groups, Rest, Counts DEF Browse, buttons
<1>3. ASSUME NEW n \in {""} \cup Nodes, PickNode(n)
      PROVE  TypeOK' /\ ForgetInv'
    <2>1. BrowserTypes'
        BY <1>1, <1>3 DEF PickNode, BrowserTypes, Pick, NoPick
    <2>. QED
        BY <1>1, <1>3, <2>1, Groups, Rest, Counts DEF PickNode, buttons
<1>4. CASE ClickRestore
    <2>1. StageTypes'
        BY <1>1, <1>4, GoTypes DEF ClickRestore, Kinds, Started, Simple, Idle
    <2>2. BrowserTypes'
        BY <1>1, <1>4 DEF ClickRestore, BrowserTypes, Pick, NoPick, Restore,
            NoRestore
    <2>3. ForgetInv'
        BY <1>1, <1>4 DEF ClickRestore, Go, StageTypes, ForgetInv, RowInv, Idle, row, Kinds,
            Started,
            Simple
    <2>. QED
        BY <1>1, <1>4, <2>1, <2>2, <2>3, Groups, Rest, Counts DEF ClickRestore,
            buttons
<1>5. CASE AnswerRestore
    <2>1. StageTypes'
        BY <1>1, <1>5, GoTypes DEF AnswerRestore, Kinds, Started, Simple, Idle
    <2>2. BrowserTypes'
        BY <1>1, <1>5, Records DEF AnswerRestore, BrowserTypes
    <2>3. ForgetInv'
        BY <1>1, <1>5 DEF AnswerRestore, Go, StageTypes, ForgetInv, RowInv, Idle, row, Kinds,
            Started,
            Simple
    <2>. QED
        BY <1>1, <1>5, <2>1, <2>2, <2>3, Groups, Rest, Counts DEF AnswerRestore,
            buttons
<1>. QED
    BY <1>2, <1>3, <1>4, <1>5

\* TypeOK, with ForgetInv, is inductive.
LEMMA TypeStep ==
    ASSUME CardConstants, TypeOK, ForgetInv, [Next]_vars
    PROVE  TypeOK' /\ ForgetInv'
<1>1. CASE Next
    BY <1>1, OperationTypes, SchedTypesStep, ListingTypes, RowTypes, BrowserTypesStep
       DEF Next, User, System
<1>2. CASE UNCHANGED vars
    BY <1>2, Groups, Rest DEF vars, buttons
<1>. QED
    BY <1>1, <1>2

\* The first state has its types.
LEMMA TypeFirst ==
    ASSUME CardConstants, Init
    PROVE  TypeOK /\ ForgetInv
<1>0. 0 \in 0..MaxClicks /\ 0 \in 0..MaxEvents
    <2>1. MaxClicks \in Nat /\ MaxEvents \in Nat
        BY DEF CardConstants
    <2>. QED
        BY <2>1
<1>1. ServerTypes /\ QueryTypes /\ ButtonTypes
    BY DEF CardConstants, Init, ServerTypes, QueryTypes, ButtonTypes
<1>2. StageTypes /\ ForgetInv
    <2>1. {a \in Simple : stage[a] # "idle"} = {}
        BY DEF Init, Kinds
    <2>. QED
        BY <2>1, FS_EmptySet DEF Init, StageTypes, ForgetInv, RowInv, Idle, row, Kinds, Started
<1>3. SchedTypes
    BY <1>0 DEF Init, SchedTypes, MenuOf, Cron
<1>4. ReportTypes /\ BrowserTypes /\ CompareTypes
    BY Records DEF Init, ReportTypes, BrowserTypes, CompareTypes, Pair
<1>5. BoundTypes
    BY <1>0 DEF Init, BoundTypes
<1>. QED
    BY <1>1, <1>2, <1>3, <1>4, <1>5, Groups

\* Every variable of the card keeps its type.
THEOREM TypeCorrect ==
    ASSUME CardConstants
    PROVE  Spec => []TypeOK
<1>1. Init => TypeOK /\ ForgetInv
    BY TypeFirst
<1>2. TypeOK /\ ForgetInv /\ [Next]_vars => TypeOK' /\ ForgetInv'
    BY TypeStep
<1>. QED
    BY <1>1, <1>2, PTL DEF Spec

-----------------------------------------------------------------------------
(* What answers do to each other.                                          *)

\* What the user does is a click.
LEMMA UserClicks ==
    ASSUME clicks \in Nat, User
    PROVE  clicks' # clicks
<1>1. Click => clicks' # clicks
    BY DEF Click
<1>. QED
    BY <1>1 DEF User, ClickSimple, ClickCheck, ClickPrune, ClickDelete, ClickCopy, Ask,
           ChooseMenu, TypeText, SaveText, TogglePanel, ClickForget, ClickFind, ClickDiff,
           ClickRestore, AskForget, Browse, Choose, PickNode

\* A step that answers no request of those that may be told, and touches neither the
\* line nor a question.
LEMMA Quietly ==
    ASSUME StageTypes, ButtonTypes, UNCHANGED <<saves, deletes, feedback, asks, row>>,
           NEW a \in {"find", "diff", "restore"}, \A b \in Kinds \ {a} : stage'[b] = stage[b]
    PROVE  Apart
<1>1. UNCHANGED <<confirm, trash>>
    BY DEF asks, row
<1>2. Ended \subseteq {a}
    BY DEF Ended, Idle, ButtonTypes
<1>3. a \notin Reporting \cup {"delete"}
    BY DEF Reporting, Simple, Started
<1>. QED
    BY <1>1, <1>2, <1>3 DEF Apart

\* Nothing else is answered with one of the mutations.
LEMMA OneEnds ==
    ASSUME StageTypes, ButtonTypes, UNCHANGED <<saves, deletes>>,
           NEW a \in Kinds, ~Idle(a), Go(a, "idle")
    PROVE  Ended = {a}
<1>1. \A b \in Kinds : stage'[b] = IF b = a THEN "idle" ELSE stage[b]
    BY DEF Go, StageTypes
<1>. QED
    BY <1>1 DEF Ended, Idle, ButtonTypes

\* The answers of the requests that start something, and of a delete.
LEMMA OperationsApart ==
    ASSUME TypeOK, ForgetInv,
           \/ AnswerPrune \/ AnswerCopy \/ HandleDelete \/ AnswerDelete \/ CardLeaves
           \/ HandleForget \/ AnswerForget \/ AnswerFind \/ AnswerDiff \/ AnswerRestore
           \/ \E a \in Kinds : AnswerSimple(a)
    PROVE  Apart
<1>1. StageTypes /\ ButtonTypes /\ ServerTypes
    BY Groups
<1>2. ASSUME NEW a \in Kinds, AnswerSimple(a)
      PROVE  Apart
    <2>1. UNCHANGED <<saves, deletes, confirm, trash>> /\ ~Idle(a)
        BY <1>2 DEF AnswerSimple, asks, row, sched, Idle
    <2>2. Ended = {a}
        BY <1>1, <1>2, <2>1, OneEnds DEF AnswerSimple
    <2>3. feedback' = last' /\ last'.of = a
        BY <1>2 DEF AnswerSimple, Answered, Tell
    <2>. QED
        BY <2>1, <2>2, <2>3 DEF Apart
<1>3. CASE AnswerPrune
    <2>1. UNCHANGED <<saves, deletes, trash>> /\ ~Idle("prune")
        BY <1>3 DEF AnswerPrune, row, sched, Idle
    <2>2. Ended = {"prune"}
        BY <1>1, <1>3, <2>1, OneEnds DEF AnswerPrune, Kinds, Started
    <2>3. feedback' = last' /\ last'.of = "prune"
        BY <1>3 DEF AnswerPrune, Answered, Tell
    <2>4. confirm \ confirm' \subseteq {"prune"}
        BY <1>3 DEF AnswerPrune
    <2>. QED
        BY <2>1, <2>2, <2>3, <2>4 DEF Apart
<1>4. CASE AnswerCopy
    <2>1. UNCHANGED <<saves, deletes, confirm, trash>> /\ ~Idle("copy")
        BY <1>4 DEF AnswerCopy, asks, row, sched, Idle
    <2>2. Ended = {"copy"}
        BY <1>1, <1>4, <2>1, OneEnds DEF AnswerCopy, Kinds, Started
    <2>3. \/ feedback' = last' /\ last'.of = "copy"
          \/ feedback' = feedback /\ last' \in Untold
        <3>1. \/ Answered("copy", TRUE) /\ Tell("copy", TRUE)
              \/ Answered("copy", FALSE) /\ feedback' = feedback
            BY <1>4 DEF AnswerCopy, TellSuccess
        <3>2. Answered("copy", TRUE) /\ Tell("copy", TRUE) =>
                  feedback' = last' /\ last'.of = "copy"
            BY DEF Answered, Tell
        <3>3. Answered("copy", FALSE) => last' \in Untold
            BY DEF Answered, Untold
        <3>. QED
            BY <3>1, <3>2, <3>3
    <2>. QED
        BY <2>1, <2>2, <2>3 DEF Apart
<1>5. CASE AnswerForget
    <2>1. UNCHANGED <<saves, deletes, confirm>> /\ ~Idle("forget") /\ trash' = None
        BY <1>5 DEF AnswerForget, asks, sched
    <2>2. Ended = {"forget"}
        BY <1>1, <1>5, <2>1, OneEnds DEF AnswerForget, Kinds, Started
    <2>3. feedback' = last' /\ last'.of = "forget"
        BY <1>5 DEF AnswerForget, Answered, Tell
    <2>4. trash' # trash => trash = forgetting \/ again
        BY <2>1 DEF ForgetInv, RowInv
    <2>. QED
        BY <2>1, <2>2, <2>3, <2>4 DEF Apart
<1>6. CASE AnswerDelete
    <2>1. UNCHANGED <<stage, saves, feedback, confirm, trash>> /\ deletes' < deletes
        BY <1>1, <1>6 DEF AnswerDelete, row, sched, ButtonTypes
    <2>2. Ended = {"delete"}
        BY <2>1 DEF Ended, Idle
    <2>3. last' \in Untold
        <3>1. PICK good \in {FALSE, gone} : last' = [of |-> "delete", good |-> good]
            BY <1>6 DEF AnswerDelete, Answered
        <3>2. good \in BOOLEAN
            BY <1>1, <3>1 DEF ServerTypes
        <3>. QED
            BY <3>1, <3>2 DEF Untold
    <2>. QED
        BY <2>1, <2>2, <2>3 DEF Apart
<1>7. CASE HandleDelete \/ CardLeaves
    <2>1. UNCHANGED <<stage, saves, deletes, feedback, confirm, trash>>
        BY <1>7 DEF HandleDelete, CardLeaves, buttons, asks, row, sched, report
    <2>2. Ended = {}
        BY <1>1, <2>1 DEF Ended, Idle, ButtonTypes
    <2>. QED
        BY <2>1, <2>2 DEF Apart
<1>8. CASE HandleForget
    <2>1. UNCHANGED <<saves, deletes, feedback, confirm, trash>>
        BY <1>8 DEF HandleForget, asks, row, sched, report
    <2>2. \A b \in Kinds : stage'[b] = IF b = "forget" THEN "done" ELSE stage[b]
        BY <1>1, <1>8 DEF HandleForget, Go, StageTypes
    <2>3. Ended = {}
        BY <1>1, <2>1, <2>2 DEF Ended, Idle, ButtonTypes
    <2>. QED
        BY <2>1, <2>3 DEF Apart
<1>9. CASE AnswerFind
    <2>1. UNCHANGED <<saves, deletes, feedback, asks, row>>
        BY <1>9 DEF AnswerFind, sched, report, asks
    <2>2. \A b \in Kinds \ {"find"} : stage'[b] = stage[b]
        BY <1>1, <1>9 DEF AnswerFind, Go, StageTypes
    <2>. QED
        BY <1>1, <2>1, <2>2, Quietly
<1>10. CASE AnswerDiff
    <2>1. UNCHANGED <<saves, deletes, feedback, asks, row>>
        BY <1>10 DEF AnswerDiff, sched, report, asks
    <2>2. \A b \in Kinds \ {"diff"} : stage'[b] = stage[b]
        BY <1>1, <1>10 DEF AnswerDiff, Go, StageTypes
    <2>. QED
        BY <1>1, <2>1, <2>2, Quietly
<1>11. CASE AnswerRestore
    <2>1. UNCHANGED <<saves, deletes, feedback, asks, row>>
        BY <1>11 DEF AnswerRestore, sched, report, asks
    <2>2. \A b \in Kinds \ {"restore"} : stage'[b] = stage[b]
        BY <1>1, <1>11 DEF AnswerRestore, Go, StageTypes
    <2>. QED
        BY <1>1, <2>1, <2>2, Quietly
<1>. QED
    BY <1>2, <1>3, <1>4, <1>5, <1>6, <1>7, <1>8, <1>9, <1>10, <1>11

\* The requests that set the schedule.
LEMMA SchedulesApart ==
    ASSUME TypeOK, SchedInv, NEW s \in saves, HandleSave(s) \/ AnswerSave(s) \/ SaveLost(s)
    PROVE  Apart
<1>1. ButtonTypes /\ SchedTypes
    BY Groups
<1>2. UNCHANGED <<stage, deletes, confirm, trash>>
    BY DEF HandleSave, AnswerSave, SaveLost, buttons, asks, row
<1>3. CASE HandleSave(s)
    <2>1. PICK st \in {"done", "refused"} :
              saves' = (saves \ {s}) \cup {[s EXCEPT !.stage = st]}
        BY <1>3 DEF HandleSave
    <2>2. [s EXCEPT !.stage = st].at = s.at
        BY <1>1 DEF SchedTypes
    <2>3. \A r \in saves : r.at \in {q.at : q \in saves'}
        BY <2>1, <2>2
    <2>4. Ended = {} /\ feedback' = feedback
        BY <1>1, <1>2, <1>3, <2>3 DEF Ended, Idle, ButtonTypes, HandleSave, report
    <2>. QED
        BY <1>2, <2>4 DEF Apart
<1>4. CASE AnswerSave(s) \/ SaveLost(s)
    <2>1. saves' = saves \ {s} /\ feedback' = last' /\ last'.of = "schedule"
        <3>1. PICK good \in {s.stage = "done", FALSE} :
                  saves' = saves \ {s} /\ Answered("schedule", good) /\ Tell("schedule", good)
            BY <1>4 DEF AnswerSave, SaveLost
        <3>2. last' = [of |-> "schedule", good |-> good] /\ feedback' = last'
            BY <3>1 DEF Answered, Tell
        <3>. QED
            BY <3>1, <3>2
    <2>2. s.at \notin {r.at : r \in saves'}
        BY <2>1 DEF SchedInv
    <2>3. Ended = {"schedule"}
        BY <1>1, <1>2, <2>2 DEF Ended, Idle, ButtonTypes
    <2>. QED
        BY <1>2, <2>1, <2>3 DEF Apart
<1>. QED
    BY <1>3, <1>4

\* Every step that is no click keeps answers apart.
LEMMA ApartStep ==
    ASSUME TypeOK, ForgetInv, SchedInv, Next, clicks' = clicks
    PROVE  Apart
<1>1. StageTypes /\ ButtonTypes
    BY Groups
<1>2. ~User
    BY UserClicks DEF SchedInv
<1>3. ASSUME \/ CronElsewhere \/ AnswerList \/ FailList \/ EventArrives \/ NewsLost
             \/ BackupEnds \/ \E s \in Snaps : ForgetEnds(s)
      PROVE  Apart
    <2>1. UNCHANGED <<buttons, saves, feedback>>
        BY <1>3 DEF CronElsewhere, AnswerList, FailList, EventArrives, NewsLost, BackupEnds,
                    ForgetEnds, sched, report
    <2>. QED
        <3>1. UNCHANGED <<saves, deletes, feedback, asks, row>>
            BY <2>1 DEF buttons, asks
        <3>2. \A b \in Kinds \ {"find"} : stage'[b] = stage[b]
            BY <2>1 DEF buttons
        <3>. QED
            BY <1>1, <3>1, <3>2, Quietly
<1>4. ASSUME LoadList
      PROVE  Apart
    <2>1. UNCHANGED <<saves, deletes, feedback, asks, row>>
        BY <1>4 DEF LoadList, sched, report, asks
    <2>2. \A b \in Kinds \ {"restore"} : stage'[b] = stage[b]
        BY <1>1, <1>4 DEF LoadList, CloseBrowser, Go, StageTypes
    <2>. QED
        BY <1>1, <2>1, <2>2, Quietly
<1>. QED
    BY <1>2, <1>3, <1>4, OperationsApart, SchedulesApart DEF Next, System

\* Each answer is told as it comes, but for those named, and no answer touches the
\* question of another request.
THEOREM AnswersAreApart ==
    ASSUME CardConstants
    PROVE  Spec => AnswersStayApart
<1>. DEFINE Known == TypeOK /\ ForgetInv /\ SchedInv /\ text \in Cron
<1>1. Init => Known
    BY TypeFirst, SchedFirst
<1>2. Known /\ [Next]_vars => Known'
    BY TypeStep, SchedStep
<1>3. Known /\ [Next]_vars => [clicks' = clicks => Apart]_vars
    BY ApartStep
<1>. QED
    BY <1>1, <1>2, <1>3, PTL DEF Spec, AnswersStayApart
=============================================================================
