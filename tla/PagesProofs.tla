----------------------------- MODULE PagesProofs -----------------------------
(***************************************************************************)
(* Theorems about Pages: what is proved of a page by itself holds of the   *)
(* page in a tab, for every value of the constants of all pages.           *)
(***************************************************************************)
EXTENDS Pages, Sequences, TLAPS

\* A tab that shows the card behaves as the card does.
LEMMA CardBehaves == Spec => (on = "card" => Card!Spec)
<1>1. Init => Card!Init
    BY DEF Init
<1>2. ASSUME on = "card", [Next]_vars
      PROVE  [Card!Next]_(Card!vars) /\ (on = "card")'
    BY <1>2 DEF Next, vars, cardVars, Card!vars, Card!server, Card!store, Card!query,
        Card!buttons, Card!asks, Card!row,
        Card!sched, Card!report, Card!browser, Card!compare, Card!bounds
<1>. QED
    BY <1>1, <1>2, PTL DEF Spec, Card!Spec

\* Where it is not shown, it rests.
LEMMA CardRests ==
    ASSUME ~(on = "card"), [Next]_vars
    PROVE  UNCHANGED cardVars /\ (~(on = "card"))'
BY DEF Next, vars

\* Each answer is told on the card as it comes, but for those named, and no answer
\* touches the question of another request.
THEOREM AnswersAreApart == Spec => AnswersStayApart
<1>1. Spec /\ on = "card" => AnswersStayApart
    <2>1. Card!CardConstants
        BY PagesAssumption
    <2>. QED
        BY <2>1, CardBehaves, Card!AnswersAreApart, PTL DEF AnswersStayApart
<1>2. Init => deletes = 0
    BY DEF Init, Card!Init
<1>3. ASSUME ~(on = "card"), deletes = 0, [Next]_vars
      PROVE  Card!Apart /\ (deletes = 0)' /\ (~(on = "card"))'
    <2>1. UNCHANGED cardVars /\ (~(on = "card"))'
        BY <1>3, CardRests
    <2>2. UNCHANGED <<stage, saves, deletes, feedback, confirm, trash>>
        BY <2>1 DEF cardVars
    <2>3. Card!Ended = {}
        BY <1>3, <2>2 DEF Card!Ended, Card!Idle
    <2>. QED
        BY <1>3, <2>1, <2>2, <2>3 DEF Card!Apart
<1>. QED
    BY <1>1, <1>2, <1>3, PTL DEF Spec, AnswersStayApart, Card!AnswersStayApart

\* An open panel shows the repository's snapshots, or has a reason not to.
THEOREM SnapshotsAreCurrent == Spec => []SnapshotsAreStaleForAReason
<1>1. Init => SnapshotsAreStaleForAReason
    BY DEF Init, Card!Init, SnapshotsAreStaleForAReason, Card!SnapshotsAreStaleForAReason
<1>2. ASSUME ~(on = "card"), SnapshotsAreStaleForAReason, [Next]_vars
      PROVE  SnapshotsAreStaleForAReason' /\ (~(on = "card"))'
    BY <1>2, CardRests DEF cardVars, SnapshotsAreStaleForAReason,
        Card!SnapshotsAreStaleForAReason
<1>3. Card!SnapshotsAreStaleForAReason => SnapshotsAreStaleForAReason
    BY DEF SnapshotsAreStaleForAReason
<1>. QED
    BY <1>1, <1>2, <1>3, CardBehaves, Card!SnapshotsAreCurrent, PTL DEF Spec

\* The controls show the repository's schedule, or have a reason not to.
THEOREM ScheduleIsShown == Spec => []ScheduleShownForAReason
<1>1. Spec /\ on = "card" => []ScheduleShownForAReason
    <2>1. Card!CardConstants
        BY PagesAssumption
    <2>2. Card!Spec => []Card!ScheduleShownForAReason
        BY <2>1, Card!ScheduleIsShown
    <2>3. Card!ScheduleShownForAReason => ScheduleShownForAReason
        BY DEF ScheduleShownForAReason
    <2>. QED
        BY <2>2, <2>3, CardBehaves, PTL
<1>2. Init /\ ~(on = "card") => ScheduleShownForAReason
    BY PagesAssumption DEF Init, Card!Init, Card!CardConstants, Card!MenuOf, Card!Cron,
        Card!Displayed, ScheduleShownForAReason, Card!ScheduleShownForAReason
<1>3. ASSUME ~(on = "card"), ScheduleShownForAReason, [Next]_vars
      PROVE  ScheduleShownForAReason' /\ (~(on = "card"))'
    BY <1>3, CardRests DEF cardVars, ScheduleShownForAReason, Card!ScheduleShownForAReason,
        Card!Displayed
<1>. QED
    BY <1>1, <1>2, <1>3, PTL DEF Spec

-----------------------------------------------------------------------------
(* The form of a new repository by itself, then in a tab.                  *)

\* What the user does while a submission is under way does not touch what it sends.
LEMMA FormUser ==
    ASSUME Form!FormInv,
           Form!ClickAdd \/ Form!ToggleAuto \/ Form!ChooseSchedule \/ Form!Cancel \/ Form!Submit
           \/ (\E x \in {"blank"} \cup Names : Form!TypeName(x))
           \/ (\E b \in Form!Backends : Form!ChooseBackend(b))
           \/ (\E x \in {"blank", "text"} : Form!Fill(x))
    PROVE  Form!FormInv'
<1>1. CASE Form!ClickAdd
    BY <1>1 DEF Form!FormInv, Form!ClickAdd
<1>2. CASE Form!ToggleAuto
    BY <1>2 DEF Form!FormInv, Form!ToggleAuto
<1>3. CASE Form!ChooseSchedule
    BY <1>3 DEF Form!FormInv, Form!ChooseSchedule
<1>4. CASE Form!Cancel
    BY <1>4 DEF Form!FormInv, Form!Cancel, Form!Close
<1>5. CASE Form!Submit
    BY <1>5 DEF Form!FormInv, Form!Submit
<1>6. ASSUME NEW x, Form!TypeName(x)
      PROVE  Form!FormInv'
    BY <1>6 DEF Form!FormInv, Form!TypeName
<1>7. ASSUME NEW b, Form!ChooseBackend(b)
      PROVE  Form!FormInv'
    BY <1>7 DEF Form!FormInv, Form!ChooseBackend
<1>8. ASSUME NEW x, Form!Fill(x)
      PROVE  Form!FormInv'
    BY <1>8 DEF Form!FormInv, Form!Fill
<1>. QED
    BY <1>1, <1>2, <1>3, <1>4, <1>5, <1>6, <1>7, <1>8

\* The server's answers, the form's effects and what goes wrong keep it too. Only
\* HandleCreate needs the assumption: a name that the server accepts is not empty.
LEMMA FormSystem ==
    ASSUME Form!FormConstants, Form!FormInv,
           Form!HandleCreate \/ Form!Created \/ Form!Listed \/ Form!HandleInit
           \/ Form!Initialized \/ Form!Refused \/ Form!Lost
           \/ (\E n \in Names : Form!Deleted(n))
    PROVE  Form!FormInv'
<1>1. CASE Form!HandleCreate
    BY <1>1 DEF Form!FormConstants, Form!FormInv, Form!HandleCreate
<1>2. CASE Form!Created
    BY <1>2 DEF Form!FormInv, Form!Created
<1>3. CASE Form!Listed
    <2>1. CASE input.auto
        BY <1>3, <2>1 DEF Form!FormInv, Form!Listed
    <2>2. CASE ~input.auto
        BY <1>3, <2>2 DEF Form!FormInv, Form!Listed, Form!Close
    <2>. QED
        BY <2>1, <2>2
<1>4. CASE Form!HandleInit
    BY <1>4 DEF Form!FormInv, Form!HandleInit
<1>5. CASE Form!Initialized
    BY <1>5 DEF Form!FormInv, Form!Initialized, Form!Close
<1>6. CASE Form!Refused
    BY <1>6 DEF Form!FormInv, Form!Refused
<1>7. CASE Form!Lost
    BY <1>7 DEF Form!FormInv, Form!Lost
<1>8. ASSUME NEW n, Form!Deleted(n)
      PROVE  Form!FormInv'
    BY <1>8 DEF Form!FormInv, Form!Deleted
<1>. QED
    BY <1>1, <1>2, <1>3, <1>4, <1>5, <1>6, <1>7, <1>8

\* Every step without a click that closes the form is one of two, and both follow
\* from where the invariant says the submission stands.
LEMMA FormClosing ==
    ASSUME Form!FormInv, Form!Next, adding, ~adding', clicks' = clicks, clicks \in Nat
    PROVE  /\ did = {"create"} \cup {x \in {"init"} : input.auto}
           /\ input.name # "" /\ input.config = Form!Required[input.backend]
<1>1. ~Form!Click
    BY DEF Form!Click
<1>2. CASE Form!Listed
    BY <1>2 DEF Form!Listed, Form!FormInv
<1>3. CASE Form!Initialized
    BY <1>3 DEF Form!Initialized, Form!FormInv
<1>4. CASE Form!ClickAdd \/ Form!ToggleAuto \/ Form!ChooseSchedule \/ Form!Cancel \/ Form!Submit
    BY <1>1, <1>4 DEF Form!ClickAdd, Form!ToggleAuto, Form!ChooseSchedule, Form!Cancel,
        Form!Submit
<1>5. CASE \/ \E x \in {"blank"} \cup Names : Form!TypeName(x)
           \/ \E b \in Form!Backends : Form!ChooseBackend(b)
           \/ \E x \in {"blank", "text"} : Form!Fill(x)
    BY <1>1, <1>5 DEF Form!TypeName, Form!ChooseBackend, Form!Fill
<1>6. CASE \/ Form!HandleCreate \/ Form!Created \/ Form!HandleInit \/ Form!Refused \/ Form!Lost
           \/ \E n \in Names : Form!Deleted(n)
    BY <1>6 DEF Form!HandleCreate, Form!Created, Form!HandleInit, Form!Refused, Form!Lost,
        Form!Deleted
<1>. QED
    BY <1>2, <1>3, <1>4, <1>5, <1>6 DEF Form!Next

\* The number of clicks is a number: a click is a change of it.
LEMMA FormClicksStep ==
    ASSUME clicks \in Nat, [Form!Next]_(Form!vars)
    PROVE  clicks' \in Nat
<1>1. CASE Form!Next
    <2>1. Form!Click => clicks' \in Nat
        BY DEF Form!Click
    <2>2. Form!Event => clicks' \in Nat
        BY DEF Form!Event
    <2>. QED
        BY <1>1, <2>1, <2>2
           DEF Form!Next, Form!ClickAdd, Form!ToggleAuto, Form!ChooseSchedule, Form!Cancel,
               Form!Submit, Form!TypeName, Form!ChooseBackend, Form!Fill, Form!HandleCreate,
               Form!Created, Form!Listed, Form!HandleInit, Form!Initialized, Form!Refused,
               Form!Lost, Form!Deleted
<1>2. CASE UNCHANGED Form!vars
    BY <1>2 DEF Form!vars
<1>. QED
    BY <1>1, <1>2

\* A submission keeps what FormInv says of it.
LEMMA FormSubmission ==
    ASSUME Form!FormConstants
    PROVE  Form!Spec => [](Form!FormInv /\ clicks \in Nat)
<1>1. Form!Init => Form!FormInv /\ clicks \in Nat
    <2>1. Form!Init => phase = "idle" /\ clicks = 0
        BY DEF Form!Init
    <2>2. phase = "idle" => Form!FormInv
        BY DEF Form!FormInv
    <2>. QED
        BY <2>1, <2>2
<1>2. Form!FormInv /\ clicks \in Nat /\ [Form!Next]_(Form!vars)
        => Form!FormInv' /\ (clicks \in Nat)'
    <2>. SUFFICES ASSUME Form!FormInv, clicks \in Nat, [Form!Next]_(Form!vars)
                  PROVE  Form!FormInv' /\ clicks' \in Nat
        OBVIOUS
    <2>1. CASE Form!Next
        BY <2>1, FormUser, FormSystem, FormClicksStep DEF Form!Next
    <2>2. CASE UNCHANGED Form!vars
        BY <2>2 DEF Form!vars, Form!form, Form!FormInv
    <2>. QED
        BY <2>1, <2>2
<1>. QED
    BY <1>1, <1>2, PTL DEF Form!Spec

\* A form that closes by itself has created a complete repository, and initialised it
\* if the box was ticked at the submission.
LEMMA FormCompletes ==
    ASSUME Form!FormConstants
    PROVE  Form!Spec => Form!FormClosesInitialised
<1>1. Form!FormInv /\ clicks \in Nat /\ [Form!Next]_(Form!vars) =>
        ((adding /\ ~adding' /\ clicks' = clicks) =>
            /\ did = {"create"} \cup {x \in {"init"} : input.auto}
            /\ input.name # "" /\ input.config = Form!Required[input.backend])
    BY FormClosing DEF Form!vars
<1>. QED
    BY <1>1, FormSubmission, PTL DEF Form!Spec, Form!FormClosesInitialised

\* The types of the form by groups: the controls, the submission, the bounds.
FormControls ==
    /\ backend \in Form!Backends /\ name \in {"", "blank"} \cup Names
    /\ typed \in Form!Typed /\ \A x \in Form!Fields \ Form!Required[backend] : typed[x] = "empty"
    /\ auto \in BOOLEAN
    /\ preset \in {"", "custom"} \cup Presets /\ checkCron \in {""} \cup Crons
FormSubmits ==
    /\ adding \in BOOLEAN /\ error \in BOOLEAN
    /\ phase \in {"idle", "creating", "created", "listing", "initializing",
                  "initialized", "refused"}
    /\ phase # "idle" => adding
    /\ input \in Form!Input
    /\ did \subseteq {"create", "init"} /\ ("init" \in did => "create" \in did)
FormBounds == clicks \in 0..FormClicks /\ events \in 0..FormEvents

\* These are all.
LEMMA FormGroups ==
    /\ Form!TypeOK <=> repos \subseteq Names /\ FormControls /\ FormSubmits /\ FormBounds
    /\ Form!TypeOK' <=> repos' \subseteq Names /\ FormControls' /\ FormSubmits' /\ FormBounds'
BY DEF Form!TypeOK, FormControls, FormSubmits, FormBounds

\* Every backend shows the password, and only fields.
LEMMA FormFields ==
    /\ "password" \in Form!Fields
    /\ \A b \in Form!Backends : "password" \in Form!Required[b]
                                /\ Form!Required[b] \subseteq Form!Fields
    /\ Form!Unfilled \in Form!Typed /\ \A x \in Form!Fields : Form!Unfilled[x] = "empty"
<1>1. \A b \in Form!Backends : "password" \in Form!Required[b]
    BY DEF Form!Backends, Form!Required
<1>2. \A b \in Form!Backends : Form!Required[b] \subseteq Form!Fields
    BY DEF Form!Fields
<1>3. "local" \in Form!Backends
    BY DEF Form!Backends
<1>4. Form!Unfilled \in Form!Typed /\ \A x \in Form!Fields : Form!Unfilled[x] = "empty"
    BY DEF Form!Unfilled, Form!Typed, Form!Field
<1>. QED
    BY <1>1, <1>2, <1>3, <1>4

\* What a form has when it appears.
LEMMA FormEmpty ==
    /\ "local" \in Form!Backends /\ Form!Unfilled \in Form!Typed /\ Form!NoInput \in Form!Input
    /\ Form!Init => FormControls /\ FormSubmits
    /\ Form!Close => FormControls' /\ FormSubmits'
<1>1. "local" \in Form!Backends
    BY DEF Form!Backends
<1>2. Form!NoInput \in Form!Input
    BY <1>1 DEF Form!NoInput, Form!Input, Form!Cron
<1>3. Form!Init => FormControls /\ FormSubmits
    BY <1>1, <1>2, FormFields DEF Form!Init, FormControls, FormSubmits
<1>4. Form!Close => FormControls' /\ FormSubmits'
    BY <1>1, <1>2, FormFields DEF Form!Close, FormControls, FormSubmits
<1>. QED
    BY <1>1, <1>2, <1>3, <1>4, FormFields

\* A click and an event count up to their bounds.
LEMMA FormCounts ==
    ASSUME Form!FormConstants, FormBounds, Form!Click \/ Form!Event
    PROVE  FormBounds'
<1>1. FormClicks \in Nat /\ FormEvents \in Nat
    BY DEF Form!FormConstants
<1>2. CASE Form!Click
    <2>1. clicks' \in 0..FormClicks
        BY <1>1, <1>2 DEF FormBounds, Form!Click
    <2>. QED
        BY <1>2, <2>1 DEF FormBounds, Form!Click
<1>3. CASE Form!Event
    <2>1. events' \in 0..FormEvents
        BY <1>1, <1>3 DEF FormBounds, Form!Event
    <2>. QED
        BY <1>3, <2>1 DEF FormBounds, Form!Event
<1>. QED
    BY <1>2, <1>3

\* What the user does keeps the types.
LEMMA FormUserTypes ==
    ASSUME Form!FormConstants, Form!TypeOK,
           Form!ClickAdd \/ Form!ToggleAuto \/ Form!ChooseSchedule \/ Form!Cancel \/ Form!Submit
           \/ (\E x \in {"blank"} \cup Names : Form!TypeName(x))
           \/ (\E b \in Form!Backends : Form!ChooseBackend(b))
           \/ (\E x \in {"blank", "text"} : Form!Fill(x))
    PROVE  Form!TypeOK'
<1>1. repos \subseteq Names /\ FormControls /\ FormSubmits /\ FormBounds
    BY FormGroups
<1>2. CASE Form!ClickAdd
    <2>1. FormControls' /\ FormSubmits'
        BY <1>1, <1>2 DEF Form!ClickAdd, Form!form, FormControls, FormSubmits
    <2>. QED
        BY <1>1, <1>2, <2>1, FormCounts, FormGroups DEF Form!ClickAdd
<1>3. CASE Form!ToggleAuto
    <2>1. FormControls' /\ FormSubmits'
        BY <1>1, <1>3 DEF Form!ToggleAuto, FormControls, FormSubmits
    <2>. QED
        BY <1>1, <1>3, <2>1, FormCounts, FormGroups DEF Form!ToggleAuto
<1>4. CASE Form!ChooseSchedule
    <2>1. FormControls' /\ FormSubmits'
        BY <1>1, <1>4 DEF Form!ChooseSchedule, FormControls, FormSubmits
    <2>. QED
        BY <1>1, <1>4, <2>1, FormCounts, FormGroups DEF Form!ChooseSchedule
<1>5. CASE Form!Cancel
    BY <1>1, <1>5, FormEmpty, FormCounts, FormGroups DEF Form!Cancel
<1>6. CASE Form!Submit
    <2>1. input' \in Form!Input
        <3>1. (IF name = "blank" THEN "" ELSE name) \in {""} \cup Names
            BY <1>1 DEF FormControls
        <3>2. {f \in Form!Required[backend] : typed[f] = "text"} \in SUBSET Form!Fields
            BY <1>1, FormFields DEF FormControls
        <3>3. (IF preset = "custom" THEN checkCron ELSE preset) \in Form!Cron
            BY <1>1 DEF FormControls, Form!Cron
        <3>. QED
            BY <1>1, <1>6, <3>1, <3>2, <3>3 DEF Form!Submit, Form!Input, FormControls
    <2>2. FormControls' /\ FormSubmits'
        BY <1>1, <1>6, <2>1 DEF Form!Submit, Form!form, FormControls, FormSubmits
    <2>. QED
        BY <1>1, <1>6, <2>2, FormCounts, FormGroups DEF Form!Submit
<1>7. ASSUME NEW x \in {"blank"} \cup Names, Form!TypeName(x)
      PROVE  Form!TypeOK'
    <2>1. FormControls' /\ FormSubmits'
        BY <1>1, <1>7 DEF Form!TypeName, FormControls, FormSubmits
    <2>. QED
        BY <1>1, <1>7, <2>1, FormCounts, FormGroups DEF Form!TypeName
<1>8. ASSUME NEW b \in Form!Backends, Form!ChooseBackend(b)
      PROVE  Form!TypeOK'
    <2>1. typed' \in Form!Typed /\ \A x \in Form!Fields \ Form!Required[b] : typed'[x] = "empty"
        BY <1>1, <1>8, FormFields DEF Form!ChooseBackend, FormControls, Form!Typed
    <2>2. FormControls' /\ FormSubmits'
        BY <1>1, <1>8, <2>1 DEF Form!ChooseBackend, FormControls, FormSubmits
    <2>. QED
        BY <1>1, <1>8, <2>2, FormCounts, FormGroups DEF Form!ChooseBackend
<1>9. ASSUME NEW x \in {"blank", "text"}, Form!Fill(x)
      PROVE  Form!TypeOK'
    <2>1. /\ typed' \in Form!Typed
          /\ \A y \in Form!Fields \ Form!Required[backend] : typed'[y] = "empty"
        BY <1>1, <1>9 DEF Form!Fill, FormControls, Form!Typed, Form!Field
    <2>2. FormControls' /\ FormSubmits'
        BY <1>1, <1>9, <2>1 DEF Form!Fill, FormControls, FormSubmits
    <2>. QED
        BY <1>1, <1>9, <2>2, FormCounts, FormGroups DEF Form!Fill
<1>. QED
    BY <1>2, <1>3, <1>4, <1>5, <1>6, <1>7, <1>8, <1>9

\* So does everything else. That a repository was created before it is initialised is
\* what HandleInit needs FormInv for.
LEMMA FormSystemTypes ==
    ASSUME Form!FormConstants, Form!TypeOK, Form!FormInv,
           Form!HandleCreate \/ Form!Created \/ Form!Listed \/ Form!HandleInit
           \/ Form!Initialized \/ Form!Refused \/ Form!Lost
           \/ (\E n \in Names : Form!Deleted(n))
    PROVE  Form!TypeOK'
<1>1. repos \subseteq Names /\ FormControls /\ FormSubmits /\ FormBounds
    BY FormGroups
<1>2. UNCHANGED Form!form => FormControls'
    BY <1>1 DEF Form!form, FormControls
<1>3. UNCHANGED <<clicks, events>> => FormBounds'
    BY <1>1 DEF FormBounds
<1>4. CASE Form!HandleCreate
    <2>1. FormSubmits' /\ repos' \subseteq Names
        BY <1>1, <1>4 DEF Form!HandleCreate, FormSubmits
    <2>. QED
        BY <1>2, <1>3, <1>4, <2>1, FormGroups DEF Form!HandleCreate
<1>5. CASE Form!Created
    <2>1. FormSubmits'
        BY <1>1, <1>5 DEF Form!Created, FormSubmits
    <2>. QED
        BY <1>1, <1>2, <1>3, <1>5, <2>1, FormGroups DEF Form!Created
<1>6. CASE Form!Listed
    <2>1. CASE input.auto
        <3>1. FormSubmits'
            BY <1>1, <1>6, <2>1 DEF Form!Listed, FormSubmits
        <3>. QED
            BY <1>1, <1>2, <1>3, <1>6, <2>1, <3>1, FormGroups DEF Form!Listed
    <2>2. CASE ~input.auto
        BY <1>1, <1>3, <1>6, <2>2, FormEmpty, FormGroups DEF Form!Listed
    <2>. QED
        BY <2>1, <2>2
<1>7. CASE Form!HandleInit
    <2>1. FormSubmits'
        BY <1>1, <1>7 DEF Form!HandleInit, Form!FormInv, FormSubmits
    <2>. QED
        BY <1>1, <1>2, <1>3, <1>7, <2>1, FormGroups DEF Form!HandleInit
<1>8. CASE Form!Initialized
    BY <1>1, <1>3, <1>8, FormEmpty, FormGroups DEF Form!Initialized
<1>9. CASE Form!Refused
    <2>1. FormSubmits'
        BY <1>1, <1>9 DEF Form!Refused, FormSubmits
    <2>. QED
        BY <1>1, <1>2, <1>3, <1>9, <2>1, FormGroups DEF Form!Refused
<1>10. CASE Form!Lost
    <2>1. FormSubmits'
        BY <1>1, <1>10 DEF Form!Lost, FormSubmits
    <2>. QED
        BY <1>1, <1>2, <1>10, <2>1, FormCounts, FormGroups DEF Form!Lost
<1>11. ASSUME NEW n \in Names, Form!Deleted(n)
       PROVE  Form!TypeOK'
    <2>1. FormSubmits' /\ repos' \subseteq Names
        BY <1>1, <1>11 DEF Form!Deleted, FormSubmits
    <2>. QED
        BY <1>2, <1>11, <2>1, FormCounts, FormGroups DEF Form!Deleted
<1>. QED
    BY <1>4, <1>5, <1>6, <1>7, <1>8, <1>9, <1>10, <1>11

\* Every variable of the form keeps its type.
LEMMA FormTypeCorrect ==
    ASSUME Form!FormConstants
    PROVE  Form!Spec => []Form!TypeOK
<1>1. Form!Init => Form!TypeOK
    <2>1. FormClicks \in Nat /\ FormEvents \in Nat
        BY DEF Form!FormConstants
    <2>2. 0 \in 0..FormClicks /\ 0 \in 0..FormEvents
        BY <2>1
    <2>. QED
        BY <2>2, FormEmpty, FormGroups DEF Form!Init, FormBounds
<1>2. Form!TypeOK /\ Form!FormInv /\ [Form!Next]_(Form!vars) => Form!TypeOK'
    <2>. SUFFICES ASSUME Form!TypeOK, Form!FormInv, [Form!Next]_(Form!vars)
                  PROVE  Form!TypeOK'
        OBVIOUS
    <2>1. CASE Form!Next
        BY <2>1, FormUserTypes, FormSystemTypes DEF Form!Next
    <2>2. CASE UNCHANGED Form!vars
        BY <2>2, FormGroups
           DEF Form!vars, Form!form, FormControls, FormSubmits, FormBounds
    <2>. QED
        BY <2>1, <2>2
<1>. QED
    BY <1>1, <1>2, FormSubmission, PTL DEF Form!Spec

\* A tab that shows the form behaves as the form does.
LEMMA FormBehaves == Spec => (on = "form" => Form!Spec)
<1>1. Init => Form!Init
    BY DEF Init
<1>2. ASSUME on = "form", [Next]_vars
      PROVE  [Form!Next]_(Form!vars) /\ (on = "form")'
    BY <1>2 DEF Next, vars, formVars, Form!vars, Form!form
<1>. QED
    BY <1>1, <1>2, PTL DEF Spec, Form!Spec

\* Where it is not shown, it rests.
LEMMA FormRests ==
    ASSUME ~(on = "form"), [Next]_vars
    PROVE  UNCHANGED formVars /\ (~(on = "form"))'
BY DEF Next, vars

\* A form that closes by itself has done what it was asked.
THEOREM ClosedFormIsComplete == Spec => FormClosesInitialised
<1>1. Spec /\ on = "form" => FormClosesInitialised
    <2>1. Form!FormConstants
        BY PagesAssumption
    <2>. QED
        BY <2>1, FormBehaves, FormCompletes, PTL DEF FormClosesInitialised
<1>2. ASSUME ~(on = "form"), [Next]_vars
      PROVE  ~(adding /\ ~adding') /\ (~(on = "form"))'
    BY <1>2, FormRests DEF formVars
<1>. QED
    BY <1>1, <1>2, PTL DEF Spec, FormClosesInitialised, Form!FormClosesInitialised

\* The same for the tabs before and around the pages.
LEMMA SessionBehaves == Spec => (on = "session" => Signing!Spec)
<1>1. Init => Signing!Init
    BY DEF Init
<1>2. ASSUME on = "session", [Next]_vars
      PROVE  [Signing!Next]_(Signing!vars) /\ (on = "session")'
    BY <1>2 DEF Next, vars, sessionVars, Signing!vars, Signing!server
<1>. QED
    BY <1>1, <1>2, PTL DEF Spec, Signing!Spec

\* Where they are not shown, they rest.
LEMMA SessionRests ==
    ASSUME ~(on = "session"), [Next]_vars
    PROVE  UNCHANGED sessionVars /\ (~(on = "session"))'
BY DEF Next, vars

\* A tab at rest knows whether it is signed in, or has a reason not to.
THEOREM SignedInIsTrue == Spec => []SignedInForAReason
<1>1. Spec /\ on = "session" => []SignedInForAReason
    <2>1. Signing!SessionConstants
        BY PagesAssumption
    <2>2. Signing!SignedInForAReason => SignedInForAReason
        BY DEF SignedInForAReason
    <2>. QED
        BY <2>1, <2>2, SessionBehaves, Signing!SignedInIsTrue, PTL
<1>2. Init => SignedInForAReason
    BY DEF Init, Signing!Init, Signing!Quiet, SignedInForAReason, Signing!SignedInForAReason
<1>3. ASSUME ~(on = "session"), SignedInForAReason, [Next]_vars
      PROVE  SignedInForAReason' /\ (~(on = "session"))'
    BY <1>3, SessionRests DEF sessionVars, SignedInForAReason, Signing!SignedInForAReason
<1>. QED
    BY <1>1, <1>2, <1>3, PTL DEF Spec

\* The same for the history.
LEMMA HistoryBehaves == Spec => (on = "history" => History!Spec)
<1>1. Init => History!Init
    BY DEF Init
<1>2. ASSUME on = "history", [Next]_vars
      PROVE  [History!Next]_(History!vars) /\ (on = "history")'
    BY <1>2 DEF Next, vars, historyVars, History!vars
<1>. QED
    BY <1>1, <1>2, PTL DEF Spec, History!Spec

\* Where it is not shown, it rests.
LEMMA HistoryRests ==
    ASSUME ~(on = "history"), [Next]_vars
    PROVE  UNCHANGED historyVars /\ (~(on = "history"))'
BY DEF Next, vars

\* The pages of the history fit together.
THEOREM NoHoles == Spec => []HistoryHasNoHoles
<1>1. Spec /\ on = "history" => []HistoryHasNoHoles
    <2>1. History!HistoryConstants
        BY PagesAssumption
    <2>2. History!HistoryHasNoHoles => HistoryHasNoHoles
        BY DEF HistoryHasNoHoles
    <2>. QED
        BY <2>1, <2>2, HistoryBehaves, History!NoHoles, PTL
<1>2. Init => HistoryHasNoHoles
    <2>1. History!Init => \A f \in Filters : cache[f].pages = <<>>
        BY DEF History!Init
    <2>2. 1..Len(<<>>) = {} /\ 1..(Len(<<>>) - 1) = {}
        OBVIOUS
    <2>3. (\A f \in Filters : cache[f].pages = <<>>) => HistoryHasNoHoles
        <3>. SUFFICES ASSUME \A f \in Filters : cache[f].pages = <<>>
                      PROVE  HistoryHasNoHoles
            OBVIOUS
        <3>1. \A f \in Filters : /\ 1..Len(cache[f].pages) = {}
                                /\ 1..(Len(cache[f].pages) - 1) = {}
            BY <2>2
        <3>. QED
            BY <3>1 DEF HistoryHasNoHoles, History!HistoryHasNoHoles
    <2>. QED
        BY <2>1, <2>3 DEF Init
<1>3. ASSUME ~(on = "history"), HistoryHasNoHoles, [Next]_vars
      PROVE  HistoryHasNoHoles' /\ (~(on = "history"))'
    BY <1>3, HistoryRests DEF historyVars, HistoryHasNoHoles, History!HistoryHasNoHoles
<1>. QED
    BY <1>1, <1>2, <1>3, PTL DEF Spec

\* The history is the table's, or has a reason not to be.
THEOREM WrongForAReason == Spec => []HistoryIsWrongForAReason
<1>1. Spec /\ on = "history" => []HistoryIsWrongForAReason
    <2>1. History!HistoryConstants
        BY PagesAssumption
    <2>2. History!HistoryIsWrongForAReason => HistoryIsWrongForAReason
        BY DEF HistoryIsWrongForAReason
    <2>. QED
        BY <2>1, <2>2, HistoryBehaves, History!WrongForAReason, PTL
<1>2. Init => HistoryIsWrongForAReason
    <2>1. "all" \in Filters
        BY PagesAssumption DEF History!HistoryConstants
    <2>2. History!Init => filter = "all" /\ ~cache["all"].loaded
        BY <2>1 DEF History!Init
    <2>. QED
        BY <2>2 DEF Init, HistoryIsWrongForAReason, History!HistoryIsWrongForAReason
<1>3. ASSUME ~(on = "history"), HistoryIsWrongForAReason, [Next]_vars
      PROVE  HistoryIsWrongForAReason' /\ (~(on = "history"))'
    BY <1>3, HistoryRests DEF historyVars, HistoryIsWrongForAReason,
        History!HistoryIsWrongForAReason, History!Shown, History!HasNext, History!Matches,
        History!Last
<1>. QED
    BY <1>1, <1>2, <1>3, PTL DEF Spec

-----------------------------------------------------------------------------
\* Every variable of the page that is shown keeps its type.
THEOREM TypeCorrect == Spec => []TypeOK
<1>1. Spec => [](on = "card" => Card!TypeOK)
    <2>1. Card!CardConstants
        BY PagesAssumption
    <2>2. ASSUME ~(on = "card"), [Next]_vars
          PROVE  (~(on = "card"))'
        BY <2>2, CardRests
    <2>. QED
        BY <2>1, <2>2, CardBehaves, Card!TypeCorrect, PTL DEF Spec
<1>2. Spec => [](on = "form" => Form!TypeOK)
    <2>1. Form!FormConstants
        BY PagesAssumption
    <2>2. ASSUME ~(on = "form"), [Next]_vars
          PROVE  (~(on = "form"))'
        BY <2>2, FormRests
    <2>. QED
        BY <2>1, <2>2, FormBehaves, FormTypeCorrect, PTL DEF Spec
<1>3. Spec => [](on = "history" => History!TypeOK)
    <2>1. History!HistoryConstants
        BY PagesAssumption
    <2>2. ASSUME ~(on = "history"), [Next]_vars
          PROVE  (~(on = "history"))'
        BY <2>2, HistoryRests
    <2>. QED
        BY <2>1, <2>2, HistoryBehaves, History!TypeCorrect, PTL DEF Spec
<1>4. Spec => [](on = "session" => Signing!TypeOK)
    <2>1. Signing!SessionConstants
        BY PagesAssumption
    <2>2. ASSUME ~(on = "session"), [Next]_vars
          PROVE  (~(on = "session"))'
        BY <2>2, SessionRests
    <2>. QED
        BY <2>1, <2>2, SessionBehaves, Signing!TypeCorrect, PTL DEF Spec
<1>5. Spec => [](on \in {"card", "form", "history", "session"})
    <2>1. Init => on \in {"card", "form", "history", "session"}
        BY DEF Init
    <2>2. ASSUME on \in {"card", "form", "history", "session"}, [Next]_vars
          PROVE  (on \in {"card", "form", "history", "session"})'
        BY <2>2 DEF Next, vars
    <2>. QED
        BY <2>1, <2>2, PTL DEF Spec
<1>6. /\ on \in {"card", "form", "history", "session"}
      /\ on = "card" => Card!TypeOK
      /\ on = "form" => Form!TypeOK
      /\ on = "history" => History!TypeOK
      /\ on = "session" => Signing!TypeOK
      => TypeOK
    BY DEF TypeOK
<1>. QED
    BY <1>1, <1>2, <1>3, <1>4, <1>5, <1>6, PTL
=============================================================================
