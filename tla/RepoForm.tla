------------------------------ MODULE RepoForm ------------------------------
(***************************************************************************)
(* The form that adds a repository, on the page of repositories            *)
(* (web/src/components/repos/RepoForm.tsx,                                 *)
(* web/src/pages/RepositoriesPage.tsx). It sends two requests, one after   *)
(* the other: create the repository's row, then run "restic init". Its     *)
(* controls stay live meanwhile. The server's half is external.            *)
(***************************************************************************)
EXTENDS Naturals

CONSTANTS
    Names,      \* names that a user may type
    Presets,    \* cron expressions that the menu offers, without ""
    Crons,      \* other cron expressions
    MaxClicks,  \* bound on what the user does
    MaxEvents   \* bound on lost answers and deleted repositories

\* What the constants are: assumed by Pages.
FormConstants ==
    /\ Names # {} /\ {"", "blank"} \cap Names = {}
    /\ {"", "custom"} \cap (Presets \cup Crons) = {}
    /\ MaxClicks \in Nat /\ MaxEvents \in Nat

Backends == {"local", "s3", "sftp", "rclone"}

\* The fields that a backend shows and the form insists on. "password" has them all.
Required == [local  |-> {"password", "path"},
             s3     |-> {"password", "endpoint", "bucket", "accessKeyId",
                         "secretAccessKey"},
             sftp   |-> {"password", "host", "user", "path"},
             rclone |-> {"password", "remote", "path"}]
Fields == UNION {Required[b] : b \in Backends}
Secret == {"password", "secretAccessKey"}

Field == {"empty", "blank", "text"}     \* what a field holds; "blank" is only spaces
Typed == [Fields -> Field]
Unfilled == [x \in Fields |-> "empty"]
Cron == {""} \cup Presets \cup Crons
Input == [name : {""} \cup Names, backend : Backends, config : SUBSET Fields,
          cron : Cron, auto : BOOLEAN]

VARIABLES
    repos,      \* names in the table of repositories
    adding,     \* the page shows the form
    backend,    \* the backend in the menu
    name,       \* the field of that name
    typed,      \* the other fields, those on the screen
    auto,       \* autoInit
    preset,     \* checkPreset
    checkCron,  \* the text beside it
    phase,      \* where the submission stands: between two effects each
    input,      \* what it sends, with autoInit as it was then
    error,      \* the line of text
    did,        \* history: what the server did for it: "create", "init"
    clicks, events

form == <<backend, name, typed, auto, preset, checkCron>>
vars == <<repos, adding, form, phase, input, error, did, clicks, events>>

NoInput == [name |-> "", backend |-> "local", config |-> {}, cron |-> "", auto |-> TRUE]

TypeOK ==
    /\ repos \subseteq Names
    /\ {adding, auto, error} \subseteq BOOLEAN
    /\ backend \in Backends
    /\ name \in {"", "blank"} \cup Names
    /\ typed \in Typed
    /\ \A x \in Fields \ Required[backend] : typed[x] = "empty"
    /\ preset \in {"", "custom"} \cup Presets /\ checkCron \in {""} \cup Crons
    /\ phase \in {"idle", "creating", "created", "listing", "initializing",
                  "initialized", "refused"}
    /\ phase # "idle" => adding
    /\ input \in Input
    /\ did \subseteq {"create", "init"} /\ ("init" \in did => "create" \in did)
    /\ clicks \in 0..MaxClicks /\ events \in 0..MaxEvents

Init ==
    /\ repos \in SUBSET Names /\ adding = FALSE
    /\ backend = "local" /\ name = "" /\ typed = Unfilled
    /\ auto = TRUE /\ preset = "" /\ checkCron = ""
    /\ phase = "idle" /\ input = NoInput /\ error = FALSE /\ did = {}
    /\ clicks = 0 /\ events = 0

Click == clicks < MaxClicks /\ clicks' = clicks + 1 /\ UNCHANGED events
Event == events < MaxEvents /\ events' = events + 1 /\ UNCHANGED clicks

\* The form leaves the page, and forgets everything.
Close ==
    /\ adding' = FALSE
    /\ backend' = "local" /\ name' = "" /\ typed' = Unfilled
    /\ auto' = TRUE /\ preset' = "" /\ checkCron' = ""
    /\ phase' = "idle" /\ input' = NoInput /\ error' = FALSE /\ did' = {}

ClickAdd ==
    /\ ~adding
    /\ Click
    /\ adding' = TRUE
    /\ UNCHANGED <<repos, form, phase, input, error, did>>

TypeName(x) ==
    /\ adding /\ name # x
    /\ Click
    /\ name' = x
    /\ UNCHANGED <<repos, adding, backend, typed, auto, preset, checkCron, phase, input,
                   error, did>>

\* Another backend shows other fields; the password stays.
ChooseBackend(b) ==
    /\ adding /\ backend # b
    /\ Click
    /\ backend' = b
    /\ typed' = [Unfilled EXCEPT !["password"] = typed["password"]]
    /\ UNCHANGED <<repos, adding, name, auto, preset, checkCron, phase, input, error, did>>

\* The user fills the empty fields on the screen. Those that the form does not insist
\* on are sent as they are.
Fill(x) ==
    /\ adding
    /\ \E f \in Required[backend] : typed[f] = "empty"
    /\ Click
    /\ typed' = [f \in Fields |-> IF f \in Required[backend] /\ typed[f] = "empty" THEN x
                                  ELSE typed[f]]
    /\ UNCHANGED <<repos, adding, backend, name, auto, preset, checkCron, phase, input,
                   error, did>>

ToggleAuto ==
    /\ adding
    /\ Click
    /\ auto' = ~auto
    /\ UNCHANGED <<repos, adding, backend, name, typed, preset, checkCron, phase, input,
                   error, did>>

ChooseSchedule ==
    /\ adding
    /\ Click
    /\ \/ \E v \in {"", "custom"} \cup Presets : preset' = v /\ UNCHANGED checkCron
       \/ /\ preset = "custom"
          /\ \E c \in {""} \cup Crons : checkCron' = c
          /\ UNCHANGED preset
    /\ UNCHANGED <<repos, adding, backend, name, typed, auto, phase, input, error, did>>

Cancel ==
    /\ adding /\ phase = "idle"
    /\ Click
    /\ Close
    /\ UNCHANGED repos

\* The browser wants every required field filled, and takes spaces for that; the form
\* then trims them. "custom" without a text sends no schedule.
Submit ==
    /\ adding /\ phase = "idle"
    /\ name # "" /\ \A f \in Required[backend] : typed[f] # "empty"
    /\ Click
    /\ phase' = "creating" /\ error' = FALSE /\ did' = {}
    /\ input' = [name |-> IF name = "blank" THEN "" ELSE name, backend |-> backend,
                 config |-> {f \in Required[backend] : typed[f] = "text"},
                 cron |-> IF preset = "custom" THEN checkCron ELSE preset, auto |-> auto]
    /\ UNCHANGED <<repos, adding, form>>

\* Create: it validates the input, and names are unique. It may refuse a text.
HandleCreate ==
    /\ phase = "creating"
    /\ \/ /\ input.name \in Names \ repos
          /\ input.config = Required[input.backend]
          /\ repos' = repos \cup {input.name}
          /\ phase' = "created" /\ did' = {"create"}
       \/ phase' = "refused" /\ UNCHANGED <<repos, did>>
    /\ UNCHANGED <<adding, form, input, error, clicks, events>>

\* The mutation ends only with the fetch of the list of repositories.
Created ==
    /\ phase = "created"
    /\ phase' = "listing"
    /\ UNCHANGED <<repos, adding, form, input, error, did, clicks, events>>

\* Broken: the box is read after the answer.
ListedReadingBox ==
    /\ phase = "listing"
    /\ IF auto
       THEN phase' = "initializing" /\ UNCHANGED <<adding, form, input, error, did>>
       ELSE Close
    /\ UNCHANGED <<repos, clicks, events>>

\* However that fetch ended, the repository is initialised, if the box was ticked.
Listed ==
    /\ phase = "listing"
    /\ IF input.auto
       THEN phase' = "initializing" /\ UNCHANGED <<adding, form, input, error, did>>
       ELSE Close
    /\ UNCHANGED <<repos, clicks, events>>

\* restic init needs the row.
HandleInit ==
    /\ phase = "initializing"
    /\ \/ /\ input.name \in repos
          /\ phase' = "initialized" /\ did' = did \cup {"init"}
       \/ phase' = "refused" /\ UNCHANGED did
    /\ UNCHANGED <<repos, adding, form, input, error, clicks, events>>

Initialized ==
    /\ phase = "initialized"
    /\ Close
    /\ UNCHANGED <<repos, clicks, events>>

\* A refusal, or a lost answer, leaves the form open with its text; a repository that
\* was created stays, and its name is taken now.
Refused ==
    /\ phase = "refused"
    /\ phase' = "idle" /\ error' = TRUE
    /\ UNCHANGED <<repos, adding, form, input, did, clicks, events>>

Lost ==
    /\ phase \in {"creating", "created", "initializing", "initialized"}
    /\ Event
    /\ phase' = "idle" /\ error' = TRUE
    /\ UNCHANGED <<repos, adding, form, input, did>>

\* A repository's card is deleted, in this tab or in another.
Deleted(n) ==
    /\ n \in repos
    /\ Event
    /\ repos' = repos \ {n}
    /\ UNCHANGED <<adding, form, phase, input, error, did>>

Next ==
    \/ ClickAdd \/ ToggleAuto \/ ChooseSchedule \/ Cancel \/ Submit
    \/ \E x \in {"blank"} \cup Names : TypeName(x)
    \/ \E b \in Backends : ChooseBackend(b)
    \/ \E x \in {"blank", "text"} : Fill(x)
    \/ HandleCreate \/ Created \/ Listed \/ HandleInit \/ Initialized \/ Refused \/ Lost
    \/ \E n \in Names : Deleted(n)

Spec == Init /\ [][Next]_vars

-----------------------------------------------------------------------------
\* What a submission has achieved so far. With the constants' assumption it is inductive.
FormInv ==
    /\ phase \in {"created", "listing", "initializing"} => did = {"create"}
    /\ phase = "initialized" => did = {"create", "init"}
    /\ phase \in {"initializing", "initialized"} => input.auto
    /\ phase \in {"created", "listing", "initializing", "initialized"} =>
          input.name # "" /\ input.config = Required[input.backend]

\* A form that closes by itself (RepoForm.tsx:85) has created a repository with every
\* field that its backend needs, and has initialised it if the box was ticked when the
\* user pressed the button, whatever he has changed since.
FormClosesInitialised ==
    [][(adding /\ ~adding' /\ clicks' = clicks) =>
          /\ did = {"create"} \cup {x \in {"init"} : input.auto}
          /\ input.name # "" /\ input.config = Required[input.backend]]_vars
=============================================================================
