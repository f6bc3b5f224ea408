------------------------------ MODULE RepoCard ------------------------------
(***************************************************************************)
(* The card of one repository in one browser tab                           *)
(* (web/src/components/repos/RepoCard.tsx) with the snapshot browser in it *)
(* (SnapshotBrowser.tsx) and the hooks both use (web/src/hooks/useRepos.ts)*)
(* Cards have a key and share no state. A card has a dozen buttons whose   *)
(* requests run beside each other and report in one line of text; its list *)
(* of snapshots follows events; a schedule is saved by choosing it.        *)
(* The server, restic, React and TanStack Query are external here.         *)
(***************************************************************************)
EXTENDS Naturals, FiniteSets

CONSTANTS
    Snaps,      \* ids of snapshots: a later one is larger
    Old,        \* the snapshots that the repository holds at first
    Nodes,      \* paths of files and folders
    Presets,    \* cron expressions that the menu offers, without ""
    Crons,      \* other cron expressions
    MaxClicks,  \* bound on what the user does
    MaxEvents   \* bound on operations that end, on losses and other changes

\* What the constants are: assumed by Pages.
CardConstants ==
    /\ Snaps \subseteq Nat \ {0} /\ IsFiniteSet(Snaps)
    /\ Old \subseteq Snaps
    /\ "" \notin Nodes
    /\ Presets \cap Crons = {} /\ {"", "custom"} \cap (Presets \cup Crons) = {}
    /\ MaxClicks \in Nat /\ MaxEvents \in Nat

None == 0                               \* instead of a snapshot
Cron == {""} \cup Presets \cup Crons
Simple == {"test", "init", "unlock"}    \* the three buttons of btn()
Started == {"check", "prune", "forget", "copy"}
Kinds == Simple \cup Started \cup {"restore", "diff", "find"}
Reporting == Simple \cup Started \cup {"schedule"}
Feedback == [of : Reporting, good : BOOLEAN] \cup [of : {"nothing"}, good : {FALSE}]
Silent == [of |-> "nothing", good |-> FALSE]
Untold == [of : {"copy"}, good : {FALSE}] \cup [of : {"delete"}, good : BOOLEAN]

\* What the user picked in the browser: a path, "" for all of it. from is history:
\* the snapshot that was browsed.
Pick == [path : {""} \cup Nodes, from : Snaps] \cup [path : {""}, from : {None}]
NoPick == [path |-> "", from |-> None]
Restore == [snap : Snaps \cup {None}, pick : Pick]
NoRestore == [snap |-> None, pick |-> NoPick]
Pair == (Snaps \cup {None}) \X (Snaps \cup {None})

VARIABLES
    held,       \* the snapshots in the repository
    gone,       \* its row has been deleted
    cron,       \* column check_schedule_cron
    forgets,    \* snapshots whose forget operation is queued or running
    news,       \* events of ended operations on their way to the tab
    shown,      \* the card is there
    deletes,    \* requests under way that delete the repository
    panel,      \* showSnapshots
    list,       \* the data of the query ["snapshots", id]
    loaded,     \* it has data
    fetch,      \* its fetch: "idle", "sent", "answered"
    fetched,    \* what has been answered
    stage,      \* the mutations but those of the schedule; "done": handled
    confirm,    \* what asks for confirmation: "delete", "prune"
    trash,      \* confirmForget
    forgetting, \* the snapshot in the request to forget
    menu,       \* checkPreset
    text,       \* checkCronDraft
    saves,      \* requests that set the schedule, with the click that sent them
    saving,     \* the click that sent the latest: isPending is about that one
    feedback,   \* the line of text
    found,      \* snapshots that the search may have named
    browsing,   \* browsingSnap
    picked,     \* restoring
    request,    \* the restore under way
    notice,     \* the restore that the browser says has started
    chosen,     \* diffFrom, diffTo
    asked,      \* the two snapshots of the diff under way or on the screen
    missed, since, \* history: list, fetched lack a change, and nothing will tell
    last,       \* history: the outcome of the request that was answered last
    again,      \* history: a row has asked since the request to forget was sent
    excuse,     \* history: why the menu may not show the schedule
    clicks, events

store   == <<held, gone, cron, forgets>>
server  == <<store, news>>
query   == <<panel, list, loaded, fetch, fetched, missed, since>>
asks    == <<shown, deletes, confirm>>
row     == <<trash, forgetting, again>>
buttons == <<asks, row, stage>>
sched   == <<menu, text, saves, saving, excuse>>
report  == <<feedback, last>>
browser == <<browsing, picked, request, notice>>
compare == <<found, chosen, asked>>
bounds  == <<clicks, events>>
vars == <<server, query, buttons, sched, report, browser, compare, bounds>>

TypeOK ==
    /\ held \subseteq Snaps /\ forgets \subseteq Snaps
    /\ cron \in Cron
    /\ news \in Nat
    /\ {gone, shown, again, panel, loaded, missed, since} \subseteq BOOLEAN
    /\ deletes \in Nat
    /\ list \subseteq Snaps /\ fetched \subseteq Snaps /\ found \subseteq Snaps
    /\ fetch \in {"idle", "sent", "answered"}
    /\ stage \in [Kinds -> {"idle", "sent", "done"}]
    /\ Cardinality({a \in Simple : stage[a] # "idle"}) <= 1
    /\ confirm \subseteq {"delete", "prune"}
    /\ {trash, forgetting, browsing} \subseteq Snaps \cup {None}
    /\ menu \in {"", "custom"} \cup Presets /\ text \in Cron
    /\ saves \subseteq [cron : Cron, at : Nat, stage : {"sent", "done", "refused"}]
    /\ saving \in 0..MaxClicks
    /\ feedback \in Feedback /\ last \in Feedback \cup Untold
    /\ picked \in Pick /\ request \in Restore /\ notice \in Restore
    /\ chosen \in Pair /\ asked \in Pair
    /\ excuse \subseteq {"unsaved", "refused", "overtaken", "elsewhere"}
    /\ clicks \in 0..MaxClicks /\ events \in 0..MaxEvents

\* Broken: a schedule that the menu does not offer is given to it.
MenuRaw(c) == c

\* What the menu shows of a schedule when the card appears.
MenuOf(c) == IF c \in {""} \cup Presets THEN c ELSE "custom"

Init ==
    /\ held = Old /\ gone = FALSE /\ cron \in Cron /\ forgets = {} /\ news = 0
    /\ shown = TRUE /\ deletes = 0
    /\ panel = FALSE /\ list = {} /\ loaded = FALSE /\ fetch = "idle" /\ fetched = {}
    /\ stage = [a \in Kinds |-> "idle"]
    /\ confirm = {} /\ trash = None /\ forgetting = None /\ again = FALSE
    /\ menu = MenuOf(cron) /\ text = cron /\ saves = {} /\ saving = 0
    /\ feedback = Silent /\ last = Silent
    /\ found = {} /\ browsing = None
    /\ picked = NoPick /\ request = NoRestore /\ notice = NoRestore
    /\ chosen = <<None, None>> /\ asked = <<None, None>>
    /\ missed = FALSE /\ since = FALSE
    /\ excuse = {}
    /\ clicks = 0 /\ events = 0

Click == clicks < MaxClicks /\ clicks' = clicks + 1 /\ UNCHANGED events
Event == events < MaxEvents /\ events' = events + 1 /\ UNCHANGED clicks

Idle(a) == stage[a] = "idle"
Go(a, st) == stage' = [stage EXCEPT ![a] = st]

\* A request has ended; the line of text tells how one has.
Answered(a, good) == last' = [of |-> a, good |-> good]
Tell(a, good) == feedback' = [of |-> a, good |-> good]

\* The handler has no catch: the line stays as it was after a failure.
TellSuccess(a) ==
    \/ Answered(a, TRUE) /\ Tell(a, TRUE)
    \/ Answered(a, FALSE) /\ UNCHANGED feedback

-----------------------------------------------------------------------------
(* Requests that start an operation, run restic at once, or delete.        *)

\* Test, Init and Unlock share busyAction; Check has a flag of its own.
ClickSimple(a) ==
    /\ \A b \in Simple : Idle(b)
    /\ Click
    /\ Go(a, "sent") /\ feedback' = Silent
    /\ UNCHANGED <<server, query, asks, row, sched, last, browser,
                   compare>>

ClickCheck ==
    /\ Idle("check")
    /\ Click
    /\ Go("check", "sent") /\ feedback' = Silent
    /\ UNCHANGED <<server, query, asks, row, sched, last, browser,
                   compare>>

\* The question before a delete or a prune is put, or withdrawn.
Ask(what) ==
    /\ Click
    /\ confirm' = IF what \in confirm THEN confirm \ {what} ELSE confirm \cup {what}
    /\ UNCHANGED <<server, query, shown, deletes, row, stage, sched, report, browser,
                   compare>>

ClickPrune ==
    /\ "prune" \in confirm /\ Idle("prune")
    /\ Click
    /\ Go("prune", "sent")
    /\ UNCHANGED <<server, query, asks, row, sched, report,
                   browser, compare>>

\* No flag holds off a second click. Nothing is told, now or later.
ClickDelete ==
    /\ "delete" \in confirm
    /\ Click
    /\ deletes' = deletes + 1
    /\ UNCHANGED <<server, query, shown, confirm, row, stage, sched, report, browser,
                   compare>>

\* The server's half.
HandleDelete ==
    /\ deletes > 0 /\ ~gone
    /\ gone' = TRUE
    /\ UNCHANGED <<held, cron, forgets, news, query, buttons, sched, report, browser,
                   compare, bounds>>

\* A good answer makes the tab ask for the repositories again; a refusal or a loss
\* is not caught, and the line of text stays as it was.
AnswerDelete ==
    /\ deletes > 0
    /\ deletes' = deletes - 1
    /\ \E good \in {FALSE, gone} : Answered("delete", good)
    /\ UNCHANGED <<server, query, shown, confirm, row, stage, sched, feedback, browser,
                   compare, bounds>>

\* The list of repositories, fetched again, no longer has it.
CardLeaves ==
    /\ gone /\ shown' = FALSE
    /\ UNCHANGED <<server, query, deletes, confirm, row, stage, sched, report, browser,
                   compare, bounds>>

\* The list's rows and what is below them are there.
Rows == panel /\ loaded /\ list # {}

\* Replicate to the repository of a menu.
ClickCopy ==
    /\ Rows /\ Idle("copy")
    /\ Click
    /\ Go("copy", "sent")
    /\ UNCHANGED <<server, query, asks, row, sched, report,
                   browser, compare>>

\* Test, Init, Unlock and Check tell how they went.
AnswerSimple(a) ==
    /\ a \in Simple \cup {"check"} /\ stage[a] = "sent"
    /\ Go(a, "idle")
    /\ \E good \in BOOLEAN : Answered(a, good) /\ Tell(a, good)
    /\ UNCHANGED <<server, query, asks, row, sched, browser,
                   compare, bounds>>

\* Broken: nothing catches a failure.
AnswerPruneUncaught ==
    /\ stage["prune"] = "sent"
    /\ Go("prune", "idle")
    /\ confirm' = confirm \ {"prune"}
    /\ TellSuccess("prune")
    /\ UNCHANGED <<server, query, shown, deletes, row, sched, browser, compare, bounds>>

\* So does Prune, whose question closes, whichever it is.
AnswerPrune ==
    /\ stage["prune"] = "sent"
    /\ Go("prune", "idle")
    /\ confirm' = confirm \ {"prune"}
    /\ \E good \in BOOLEAN : Answered("prune", good) /\ Tell("prune", good)
    /\ UNCHANGED <<server, query, shown, deletes, row, sched, browser, compare, bounds>>

\* Nothing catches the failure of a copy: the line stays as it was.
AnswerCopy ==
    /\ stage["copy"] = "sent"
    /\ Go("copy", "idle")
    /\ TellSuccess("copy")
    /\ UNCHANGED <<server, query, asks, row, sched, browser,
                   compare, bounds>>

-----------------------------------------------------------------------------
(* The schedule of checks.                                                 *)

Newest(s) == s.at = saving

\* saveCheckSchedule: nothing waits for a request under way.
Save(c) ==
    /\ saves' = saves \cup {[cron |-> c, at |-> clicks + 1, stage |-> "sent"]}
    /\ saving' = clicks + 1
    /\ feedback' = Silent
    /\ excuse' = excuse \ {"unsaved"}

\* Broken: the value of the last render is saved.
ChooseMenuStale(v) ==
    /\ menu # v
    /\ Click
    /\ menu' = v
    /\ IF v # "custom"
       THEN Save(IF menu = "custom" THEN text ELSE menu)
       ELSE excuse' = excuse \cup {"unsaved"} /\ UNCHANGED <<saves, saving, feedback>>
    /\ UNCHANGED <<server, query, buttons, text, last, browser, compare>>

\* The menu shows the new value before anything has been saved.
ChooseMenu(v) ==
    /\ menu # v
    /\ Click
    /\ menu' = v
    /\ IF v # "custom"
       THEN Save(v)
       ELSE excuse' = excuse \cup {"unsaved"} /\ UNCHANGED <<saves, saving, feedback>>
    /\ UNCHANGED <<server, query, buttons, text, last, browser, compare>>

TypeText(c) ==
    /\ menu = "custom" /\ text # c
    /\ Click
    /\ text' = c
    /\ excuse' = excuse \cup {"unsaved"}
    /\ UNCHANGED <<server, query, buttons, menu, saves, saving, report, browser, compare>>

SaveText ==
    /\ menu = "custom" /\ text # "" /\ ~\E s \in saves : Newest(s)
    /\ Click
    /\ Save(text)
    /\ UNCHANGED <<server, query, buttons, menu, text, last, browser, compare>>

\* The server's half. It refuses what is no cron expression, and any for no repository.
HandleSave(s) ==
    LET Becomes(st) == saves' = (saves \ {s}) \cup {[s EXCEPT !.stage = st]}
        older == {r \in saves \ {s} : r.stage = "sent" /\ r.at < s.at}
    IN  /\ s.stage = "sent"
        /\ \/ /\ ~gone
              /\ Becomes("done")
              /\ cron' = s.cron
              /\ excuse' = IF ~Newest(s) THEN excuse
                           ELSE (excuse \cap {"unsaved"})
                                \cup {e \in {"overtaken"} : older # {}}
           \/ /\ s.cron \in Crons \/ gone
              /\ Becomes("refused")
              /\ excuse' = excuse \cup {e \in {"refused"} : Newest(s)}
              /\ UNCHANGED cron
        /\ UNCHANGED <<held, gone, forgets, news, query, buttons, menu, text, saving,
                       report, browser, compare, bounds>>

AnswerSave(s) ==
    /\ s.stage # "sent"
    /\ saves' = saves \ {s}
    /\ Answered("schedule", s.stage = "done") /\ Tell("schedule", s.stage = "done")
    /\ UNCHANGED <<server, query, buttons, menu, text, saving, excuse, browser, compare,
                   bounds>>

SaveLost(s) ==
    /\ Event
    /\ saves' = saves \ {s}
    /\ Answered("schedule", FALSE) /\ Tell("schedule", FALSE)
    /\ excuse' = excuse \cup {e \in {"refused"} : s.stage = "sent" /\ Newest(s)}
    /\ UNCHANGED <<server, query, buttons, menu, text, saving, browser, compare>>

\* Another tab sets the schedule; the card took its own from the first render.
CronElsewhere ==
    /\ ~gone
    /\ Event
    /\ \E c \in Cron \ {cron} : cron' = c
    /\ excuse' = excuse \cup {"elsewhere"}
    /\ UNCHANGED <<held, gone, forgets, news, query, buttons, menu, text, saves, saving,
                   report, browser, compare>>

-----------------------------------------------------------------------------
(* The list of snapshots.                                                  *)

\* The browser's state is lost when it leaves the screen.
CloseBrowser ==
    /\ picked' = NoPick /\ request' = NoRestore /\ notice' = NoRestore
    /\ Go("restore", "idle")

\* The panel opens with a fetch, or waits for the one that is under way.
TogglePanel ==
    /\ Click
    /\ panel' = ~panel
    /\ IF panel
       THEN CloseBrowser /\ UNCHANGED <<fetch, since>>
       ELSE /\ fetch' = (IF fetch = "idle" THEN "sent" ELSE fetch)
            /\ since' = (fetch # "idle" /\ since)
            /\ UNCHANGED <<stage, picked, request, notice>>
    /\ UNCHANGED <<server, list, loaded, fetched, missed, asks, row,
                   sched, report, browsing, compare>>

AnswerList ==
    /\ fetch = "sent" /\ ~gone
    /\ fetch' = "answered" /\ fetched' = held
    /\ since' = FALSE
    /\ UNCHANGED <<server, panel, list, loaded, missed, buttons, sched, report, browser,
                   compare, bounds>>

LoadList ==
    /\ fetch = "answered"
    /\ fetch' = "idle" /\ list' = fetched /\ loaded' = TRUE
    /\ missed' = since /\ since' = FALSE
    /\ IF fetched = {} THEN CloseBrowser ELSE UNCHANGED <<stage, picked, request, notice>>
    /\ UNCHANGED <<server, panel, fetched, asks, row, sched, report,
                   browsing, compare, bounds>>

\* As it does for a repository that is gone.
FailList ==
    /\ fetch # "idle"
    /\ \/ Event
       \/ gone /\ fetch = "sent" /\ UNCHANGED bounds
    /\ fetch' = "idle"
    /\ missed' = TRUE /\ since' = FALSE
    /\ UNCHANGED <<server, panel, list, loaded, fetched, buttons, sched, report, browser,
                   compare>>

\* Broken: a fetch under way is left alone.
EventArrivesUnlessFetching ==
    /\ news > 0
    /\ news' = news - 1
    /\ IF panel /\ fetch = "idle"
       THEN fetch' = "sent" /\ since' = FALSE
       ELSE UNCHANGED <<fetch, since>>
    /\ UNCHANGED <<store, panel, list, loaded, fetched, missed, buttons, sched,
                   report, browser, compare, bounds>>

\* The event of an ended operation invalidates the list. If it is on the screen it
\* is fetched again, from the beginning, but not while it is loaded for the first
\* time; an answer that was under way then counts as fresh.
EventArrives ==
    /\ news > 0
    /\ news' = news - 1
    /\ IF panel /\ (loaded \/ fetch = "idle")
       THEN fetch' = "sent" /\ since' = FALSE
       ELSE since' = (since \/ fetch = "answered") /\ UNCHANGED fetch
    /\ UNCHANGED <<store, panel, list, loaded, fetched, missed, buttons, sched,
                   report, browser, compare, bounds>>

\* The stream breaks, and it repeats nothing.
NewsLost ==
    /\ news > 0
    /\ Event
    /\ news' = 0
    /\ missed' = TRUE /\ since' = (since \/ fetch = "answered")
    /\ UNCHANGED <<store, panel, list, loaded, fetch, fetched, buttons, sched,
                   report, browser, compare>>

\* A backup adds a snapshot, or has failed.
BackupEnds ==
    /\ Event
    /\ \/ \E s \in Snaps : (\A t \in Old \cup held : t < s) /\ held' = held \cup {s}
       \/ UNCHANGED held
    /\ news' = news + 1
    /\ UNCHANGED <<gone, cron, forgets, query, buttons, sched, report, browser, compare>>

\* The operation that forgets a snapshot ends, well or not.
ForgetEnds(s) ==
    /\ s \in forgets
    /\ forgets' = forgets \ {s}
    /\ held' = held \ {s} \/ UNCHANGED held
    /\ news' = news + 1
    /\ UNCHANGED <<gone, cron, query, buttons, sched, report, browser, compare, bounds>>

-----------------------------------------------------------------------------
(* The rows: forget, search, compare.                                      *)

\* One row asks at a time.
AskForget(s) ==
    /\ Rows /\ s \in list
    /\ Click
    /\ trash' = IF trash = s THEN None ELSE s
    /\ again' = (again \/ (trash # s /\ ~Idle("forget")))
    /\ UNCHANGED <<server, query, asks, stage, forgetting, sched, report, browser,
                   compare>>

ClickForget ==
    /\ Rows /\ trash \in list /\ Idle("forget")
    /\ Click
    /\ Go("forget", "sent") /\ forgetting' = trash /\ again' = FALSE
    /\ UNCHANGED <<server, query, asks, trash, sched, report, browser, compare>>

\* The server's half: it starts an operation.
HandleForget ==
    /\ stage["forget"] = "sent" /\ ~gone
    /\ Go("forget", "done")
    /\ forgets' = forgets \cup {forgetting}
    /\ UNCHANGED <<held, gone, cron, news, query, asks, row, sched, report,
                   browser, compare, bounds>>

\* The answer withdraws the question, even one that another row has put since.
AnswerForget ==
    /\ ~Idle("forget")
    /\ Go("forget", "idle") /\ forgetting' = None
    /\ \E good \in {FALSE, stage["forget"] = "done"} :      \* refused, or lost
          Answered("forget", good) /\ Tell("forget", good)
    /\ trash' = None /\ again' = FALSE
    /\ UNCHANGED <<server, query, asks, sched, browser, compare, bounds>>

ClickFind ==
    /\ Rows /\ Idle("find")
    /\ Click
    /\ Go("find", "sent") /\ found' = {}
    /\ UNCHANGED <<server, query, asks, row, sched, report, browser,
                   chosen, asked>>

\* Every snapshot may have a match.
AnswerFind ==
    /\ stage["find"] = "sent"
    /\ Go("find", "idle")
    /\ found' = held \/ UNCHANGED found
    /\ UNCHANGED <<server, query, asks, row, sched, report, browser,
                   chosen, asked, bounds>>

\* Where nothing is chosen the menus show the two latest snapshots of the list.
Compared ==
    LET Latest(S) == CHOOSE s \in S : \A t \in S : t <= s
        new == Latest(list)
    IN  <<IF chosen[1] # None THEN chosen[1] ELSE Latest(list \ {new}),
          IF chosen[2] # None THEN chosen[2] ELSE new>>

Choose(i, s) ==
    /\ Rows /\ Cardinality(list) >= 2 /\ s \in list /\ Compared[i] # s
    /\ Click
    /\ chosen' = [chosen EXCEPT ![i] = s]
    /\ UNCHANGED <<server, query, buttons, sched, report, browser, found, asked>>

ClickDiff ==
    /\ Rows /\ Cardinality(list) >= 2 /\ Idle("diff") /\ Compared[1] # Compared[2]
    /\ Click
    /\ Go("diff", "sent") /\ asked' = Compared
    /\ UNCHANGED <<server, query, asks, row, sched, report, browser,
                   found, chosen>>

AnswerDiff ==
    /\ stage["diff"] = "sent"
    /\ Go("diff", "idle")
    /\ UNCHANGED asked \/ asked' = <<None, None>>      \* the result, or the error
    /\ UNCHANGED <<server, query, asks, row, sched, report, browser,
                   found, chosen, bounds>>

-----------------------------------------------------------------------------
(* The browser of one snapshot.                                            *)

\* A click on a row, or on a match, opens the browser, which has no key: when it is
\* there already it only gets another prop. A click on its row closes it.
Browse(s) ==
    /\ Rows /\ s \in list \cup found
    /\ Click
    /\ IF s = browsing /\ s \in list
       THEN browsing' = None /\ CloseBrowser
       ELSE browsing' = s /\ UNCHANGED <<stage, picked, request, notice>>
    /\ UNCHANGED <<server, query, asks, row, sched, report, compare>>

\* A node of the listing, or the whole snapshot; a second click withdraws it. The
\* panel with the target opens. Downloads are links.
PickNode(n) ==
    /\ Rows /\ browsing # None
    /\ Click
    /\ picked' = IF picked.from # None /\ picked.path = n THEN NoPick
                 ELSE [path |-> n, from |-> browsing]
    /\ UNCHANGED <<server, query, buttons, sched, report, browsing, request, notice,
                   compare>>

\* doRestore: the path comes from the pick, the snapshot from the prop.
ClickRestore ==
    /\ Rows /\ picked.from # None /\ Idle("restore")
    /\ Click
    /\ Go("restore", "sent")
    /\ request' = [snap |-> browsing, pick |-> picked] /\ notice' = NoRestore
    /\ UNCHANGED <<server, query, asks, row, sched, report, browsing,
                   picked, compare>>

\* A good answer says what has started, and closes the panel, whatever is picked.
AnswerRestore ==
    /\ stage["restore"] = "sent"
    /\ Go("restore", "idle") /\ request' = NoRestore
    /\ \/ notice' = request /\ picked' = NoPick
       \/ UNCHANGED <<notice, picked>>
    /\ UNCHANGED <<server, query, asks, row, sched, report, browsing,
                   compare, bounds>>

-----------------------------------------------------------------------------
User ==
    \/ \E a \in Simple : ClickSimple(a)
    \/ ClickCheck \/ ClickPrune \/ ClickDelete \/ ClickCopy
    \/ \E what \in {"delete", "prune"} : Ask(what)
    \/ \E v \in {"", "custom"} \cup Presets : ChooseMenu(v)
    \/ \E c \in Cron : TypeText(c)
    \/ SaveText \/ TogglePanel \/ ClickForget \/ ClickFind \/ ClickDiff \/ ClickRestore
    \/ \E s \in Snaps : AskForget(s) \/ Browse(s) \/ \E i \in 1..2 : Choose(i, s)
    \/ \E n \in {""} \cup Nodes : PickNode(n)

System ==
    \/ \E a \in Kinds : AnswerSimple(a)
    \/ HandleDelete \/ AnswerDelete \/ CardLeaves
    \/ AnswerPrune \/ AnswerCopy \/ HandleForget \/ AnswerForget \/ AnswerFind
    \/ AnswerDiff \/ AnswerRestore
    \/ \E s \in saves : HandleSave(s) \/ AnswerSave(s) \/ SaveLost(s)
    \/ CronElsewhere \/ AnswerList \/ LoadList \/ FailList \/ EventArrives \/ NewsLost
    \/ BackupEnds
    \/ \E s \in Snaps : ForgetEnds(s)

Next == shown /\ (User \/ System)

Spec == Init /\ [][Next]_vars

-----------------------------------------------------------------------------
(* Inductive invariants.                                                   *)

\* What the controls show.
Displayed == IF menu = "custom" THEN text ELSE menu

\* Where the requests that set the schedule stand, and what the controls show of them.
SchedInv ==
    /\ clicks \in Nat /\ saving \in Nat /\ saving <= clicks
    /\ saves \subseteq [cron : Cron, at : Nat, stage : {"sent", "done", "refused"}]
    /\ \A s \in saves : s.at <= saving
    /\ \A s, r \in saves : s.at = r.at => s = r
    /\ "unsaved" \notin excuse =>
          \A s \in saves : Newest(s) /\ s.stage = "sent" => s.cron = Displayed
    /\ excuse = {} => \/ \E s \in saves : Newest(s) /\ s.stage = "sent"
                      \/ Displayed = cron /\ \A s \in saves : s.stage # "sent"

\* Where the list of snapshots stands once no event is on its way.
SnapsInv ==
    /\ news \in Nat
    /\ news = 0 => /\ panel /\ fetch = "idle" /\ loaded /\ ~missed => list = held
                   /\ fetch = "answered" /\ ~since => fetched = held

\* While a snapshot is being forgotten its row asks, or none, unless another has since.
RowInv == ~Idle("forget") /\ ~again => trash \in {forgetting, None}

-----------------------------------------------------------------------------
(* Properties.                                                             *)

\* Once all requests are answered the controls show the schedule that the server has
\* (RepoCard.tsx:70-75, 109-123, 274-278), unless it was changed from elsewhere, the
\* last save was refused or lost, two saves overtook each other, or what the
\* controls show has not been saved.
ScheduleShownForAReason ==
    (saves = {} /\ excuse = {}) => Displayed = cron

\* An open panel with nothing under way shows the snapshots that there are
\* (useOperations.ts:180-186), unless a fetch failed, an event was lost, or it came
\* during the first load or while the panel was closed over a fetch.
SnapshotsAreStaleForAReason ==
    (panel /\ loaded /\ fetch = "idle" /\ news = 0 /\ ~missed) => list = held

\* What an answer that arrives in this step was to.
Ended ==
    {a \in Kinds : ~Idle(a) /\ stage'[a] = "idle"}
    \cup {x \in {"schedule"} : \E s \in saves : s.at \notin {r.at : r \in saves'}}
    \cup {x \in {"delete"} : deletes' < deletes}

\* What such an answer may do.
Apart ==
    /\ feedback' # feedback => feedback' = last' /\ feedback'.of \in Ended
    /\ Ended \cap (Reporting \cup {"delete"}) # {} => feedback' = last' \/ last' \in Untold
    /\ confirm \ confirm' \subseteq Ended \cap {"prune"}
    /\ trash' # trash =>
          "forget" \in Ended /\ trash' = None /\ (trash = forgetting \/ again)

\* Of many requests beside each other each answer is told as it comes, but that of a
\* delete (RepoCard.tsx:179) or the failure of a copy (596-599); no answer to one
\* touches another's question: without a click the question before a delete stays,
\* only a prune's answer closes the question before a prune, and that of a row is
\* closed by the answer to its own request, or by one during which another row has
\* put its question (453).
AnswersStayApart == [][clicks' = clicks => Apart]_vars

\* The notice "Restore of <name> started" (SnapshotBrowser.tsx:63), where the name of
\* a whole snapshot is its id (line 35), names the snapshot that is restored.
NoticeNamesTheSnapshot == notice.pick.path = "" => notice.pick.from = notice.snap
=============================================================================
