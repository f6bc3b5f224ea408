-------------------------------- MODULE Pages --------------------------------
(***************************************************************************)
(* The pages of the web UI side by side (web/src/App.tsx). A tab shows one *)
(* of them at a time, and a page that is left is unmounted with all its    *)
(* state, so a behaviour of the tab is one of RepoCard, RepoForm and       *)
(* HistoryPage after the other, or, before and around them, of Session.    *)
(* The page of plans is PlansPage; what a page and the stream share is     *)
(* EventStream.                                                            *)
(***************************************************************************)
EXTENDS Naturals

CONSTANTS
    Snaps, Old, Nodes, Presets, Crons, CardClicks, CardEvents,          \* RepoCard
    Names, FormClicks, FormEvents,                                      \* RepoForm
    Ops, Existing, Filters, PageSize, HistoryClicks, HistoryEvents,     \* HistoryPage
    Tabs, Ids, SessionClicks, SessionEvents                             \* Session

VARIABLES
    on,         \* the page that is shown
    held, gone, cron, forgets, news, shown, deletes, panel, list, loaded, fetch, fetched,
    stage, confirm, trash, forgetting, again, menu, text, saves, saving, feedback, found,
    browsing, picked, request, notice, chosen, asked, missed, since, last, excuse,
    repos, adding, backend, name, typed, auto, preset, checkCron, phase, input, error, did,
    rows, hub, filter, cache, get, reason,
    admins, valid, given, cookie, page, token, me, dropped, act, doubt,
    clicks, events

\* A module of proofs is its page's module and the theorems about it.
Card    == INSTANCE RepoCardProofs WITH MaxClicks <- CardClicks, MaxEvents <- CardEvents
Form    == INSTANCE RepoForm WITH MaxClicks <- FormClicks, MaxEvents <- FormEvents
History == INSTANCE HistoryPageProofs
    WITH MaxClicks <- HistoryClicks, MaxEvents <- HistoryEvents
Signing == INSTANCE SessionProofs WITH MaxClicks <- SessionClicks, MaxEvents <- SessionEvents

ASSUME PagesAssumption ==
    /\ Card!CardConstants
    /\ Form!FormConstants
    /\ History!HistoryConstants
    /\ Signing!SessionConstants

cardVars == <<held, gone, cron, forgets, news, shown, deletes, panel, list, loaded, fetch,
              fetched, stage, confirm, trash, forgetting, again, menu, text, saves, saving,
              feedback, found, browsing, picked, request, notice, chosen, asked, missed,
              since, last, excuse>>
formVars == <<repos, adding, backend, name, typed, auto, preset, checkCron, phase, input,
              error, did>>
historyVars == <<rows, hub, filter, cache, get, reason>>
sessionVars == <<admins, valid, given, cookie, page, token, me, dropped, act, doubt>>
vars == <<on, cardVars, formVars, historyVars, sessionVars, clicks, events>>

TypeOK ==
    /\ on \in {"card", "form", "history", "session"}
    /\ on = "card" => Card!TypeOK
    /\ on = "form" => Form!TypeOK
    /\ on = "history" => History!TypeOK
    /\ on = "session" => Signing!TypeOK

\* A page that is not shown starts with one value, which nobody reads.
Init ==
    /\ on \in {"card", "form", "history", "session"}
    /\ Card!Init /\ Form!Init /\ History!Init /\ Signing!Init
    /\ on # "card" => cron = ""
    /\ on # "form" => repos = {}
    /\ on # "session" => admins = 0

Next ==
    /\ UNCHANGED on
    /\ \/ on = "card" /\ Card!Next /\ UNCHANGED <<formVars, historyVars, sessionVars>>
       \/ on = "form" /\ Form!Next /\ UNCHANGED <<cardVars, historyVars, sessionVars>>
       \/ on = "history" /\ History!Next /\ UNCHANGED <<cardVars, formVars, sessionVars>>
       \/ on = "session" /\ Signing!Next /\ UNCHANGED <<cardVars, formVars, historyVars>>

Spec == Init /\ [][Next]_vars

-----------------------------------------------------------------------------
(* The properties of the pages, which their modules explain.               *)

\* The controls of a card show the schedule of checks that the server has, except for
\* the reasons named in RepoCard (RepoCard.tsx:70-75, 109-123, 274-278).
ScheduleShownForAReason == Card!ScheduleShownForAReason

\* A card's list of snapshots is the repository's, except for the reasons named in
\* RepoCard (useOperations.ts:180-186, useRepos.ts:68-75).
SnapshotsAreStaleForAReason == Card!SnapshotsAreStaleForAReason

\* Each answer is told on the card as it comes, but for those that RepoCard names, and
\* touches no other request's question (RepoCard.tsx:109-138, 179, 201-239, 440-455).
AnswersStayApart == Card!AnswersStayApart

\* A form for a repository that closes by itself has created it, and initialised it if
\* the box was ticked at the submission (RepoForm.tsx:78-90).
FormClosesInitialised == Form!FormClosesInitialised

\* The pages of the history fit together (useOperations.ts:71-82).
HistoryHasNoHoles == History!HistoryHasNoHoles

\* The history is what the table has, except for the reasons named in HistoryPage
\* (useOperations.ts:153-179).
HistoryIsWrongForAReason == History!HistoryIsWrongForAReason

\* A tab knows whether it is signed in, and has the session's token, except for the
\* reasons named in Session (useAuth.ts:5-53).
SignedInForAReason == Signing!SignedInForAReason
=============================================================================
