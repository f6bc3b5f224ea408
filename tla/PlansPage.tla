------------------------------ MODULE PlansPage ------------------------------
(***************************************************************************)
(* The page of backup plans in one browser tab                             *)
(* (web/src/pages/PlansPage.tsx) with its form                             *)
(* (web/src/components/plans/PlanForm.tsx) and the hooks both use          *)
(* (web/src/hooks/usePlans.ts). A form holds what it read from a row when  *)
(* it was opened; the row may change under it, requests are answered late  *)
(* or never, and the fields stay live while a request is under way.        *)
(* The table and the rules of React and TanStack Query are external.       *)
(* "Run now" is in EventStream.                                            *)
(***************************************************************************)
EXTENDS Naturals, FiniteSets

CONSTANTS
    Plans,      \* ids of plans
    Names,      \* names that a user may type
    Contents,   \* sources, excludes, tags and options: what a backup takes
    Presets,    \* cron expressions that the schedule's menu offers
    Crons,      \* other cron expressions
    Views,      \* the previews asked for, a subset of {"retention", "dryRun"}
    Start,      \* tables to start from
    MaxClicks,  \* bound on what the user does on the page
    MaxEvents   \* bound on lost answers, changes from elsewhere and operations

\* A row. keep says whether some retention count is positive.
Row == [name : Names, contents : Contents, schedule : {""} \cup Presets \cup Crons,
        keep : BOOLEAN, prune : BOOLEAN, enabled : BOOLEAN]
RowField == {"name", "contents", "schedule", "keep", "prune", "enabled"}
Table == [ids : SUBSET Plans, row : [Plans -> Row]]

ASSUME PageAssumption ==
    /\ Plans \subseteq Nat \ {0}
    /\ Names # {} /\ "" \notin Names
    /\ Contents # {}
    /\ Presets \cap Crons = {} /\ {"", "custom"} \cap (Presets \cup Crons) = {}
    /\ Views \subseteq {"retention", "dryRun"}
    /\ Start \subseteq Table
    /\ \A t \in Start, p \in Plans :
          /\ p \in t.ids => (t.row[p].prune => t.row[p].keep)
          /\ \A q \in t.ids \ {p} : p \in t.ids => t.row[p].name # t.row[q].name
    /\ MaxClicks \in Nat /\ MaxEvents \in Nat

None == 0    \* instead of an id

\* The controls of a form.
Draft == [name : {""} \cup Names, contents : Contents,
          preset : {"", "custom"} \cup Presets, cron : {""} \cup Crons,
          keep : BOOLEAN, prune : BOOLEAN, enabled : BOOLEAN]
Field == {"name", "contents", "preset", "cron", "keep", "prune", "enabled"}

\* Broken: the menu is given a value that it does not have.
FormOfRaw(r) ==
    [name |-> r.name, contents |-> r.contents, preset |-> r.schedule, cron |-> "",
     keep |-> r.keep, prune |-> TRUE, enabled |-> r.enabled]

\* Broken: the menu says "custom" and the text beside it is empty.
FormOfMenuOnly(r) ==
    [name |-> r.name, contents |-> r.contents,
     preset |-> IF r.schedule \in {""} \cup Presets THEN r.schedule ELSE "custom",
     cron |-> "", keep |-> r.keep, prune |-> TRUE, enabled |-> r.enabled]

\* What a new form shows of a row. The server leaves prune out when it is false,
\* and the form takes a missing prune for true, so its value is lost.
FormOf(r) ==
    LET offered == r.schedule \in {""} \cup Presets
    IN  [name |-> r.name, contents |-> r.contents,
         preset |-> IF offered THEN r.schedule ELSE "custom",
         cron |-> IF offered THEN "" ELSE r.schedule,
         keep |-> r.keep, prune |-> TRUE, enabled |-> r.enabled]

Blank == [name |-> "", contents |-> CHOOSE c \in Contents : TRUE, preset |-> "",
          cron |-> "", keep |-> FALSE, prune |-> TRUE, enabled |-> TRUE]

\* What a form sends. Without a positive count the policy is sent empty.
InputOf(d) ==
    [name |-> d.name, contents |-> d.contents,
     schedule |-> IF d.preset = "custom" THEN d.cron ELSE d.preset,
     keep |-> d.keep, prune |-> d.keep /\ d.prune, enabled |-> d.enabled]

Forms == {"add", "edit"}

\* What a preview of a form asks about.
Questions == [contents : Contents, keep : BOOLEAN, prune : BOOLEAN]
Question(d, v) == [contents |-> d.contents,
                   keep |-> v = "retention" /\ d.keep, prune |-> v = "retention" /\ d.prune]

VARIABLES
    table,      \* the table of plans
    used,       \* ids given out so far: AUTOINCREMENT gives none out twice
    list,       \* the data of the query ["plans"]: the cards
    loaded,     \* it has data
    fetch,      \* its fetch: "idle", "sent" or "answered"
    fetched,    \* what the server has answered
    open,       \* the forms on the page
    target,     \* the id in a form's prop existing
    draft,      \* a form's controls
    phase,      \* its mutation: "idle", "sent", "done", "refused" or "refetch"
    input,      \* what the mutation sends, to which id
    asking,     \* requests for previews under way
    preview,    \* previews on the screen (at most one each), by what was asked
    confirm,    \* cards that ask whether to delete
    calls,      \* the cards' mutations under way
    base,       \* history: the id and row that a form was opened on
    touched,    \* history: fields that the user has set in a form
    wanted,     \* history: what was asked last for a preview
    born,       \* history: rows created by the form "add" since it was opened
    unsure,     \* history: forms with a lost answer since they were opened
    missed,     \* history: why list may lack a change, a set of Reasons
    since,      \* history: the same for fetched
    clicks, events

server  == <<table, used>>
query   == <<list, loaded, fetch, fetched>>
forms   == <<open, target, draft, phase, input>>
views   == <<asking, preview>>
cards   == <<confirm, calls>>
origin  == <<base, touched, wanted, born, unsure>>
gaps    == <<missed, since>>
bounds  == <<clicks, events>>
vars == <<table, used, list, loaded, fetch, fetched, open, target, draft, phase, input,
          asking, preview, confirm, calls, base, touched, wanted, born, unsure,
          missed, since, clicks, events>>

\* Why the cards may be wrong: nobody told this tab of a change, or its fetch failed,
\* or the change was announced when the first load had been answered already.
Reasons == {"untold", "failed", "early"}

Call == [do : {"enable", "disable", "delete"}, to : Plans, done : BOOLEAN]

TypeOK ==
    /\ table \in Table /\ list \in Table /\ fetched \in Table
    /\ table.ids \subseteq used /\ used \subseteq Plans
    /\ loaded \in BOOLEAN /\ fetch \in {"idle", "sent", "answered"}
    /\ open \subseteq Forms
    /\ target \in [Forms -> Plans \cup {None}]
    /\ draft \in [Forms -> Draft]
    /\ phase \in [Forms -> {"idle", "sent", "done", "refused", "refetch"}]
    /\ input \in [Forms -> [to : Plans \cup {None}, d : Draft, touched : SUBSET Field]]
    /\ asking \in [Forms -> [Views -> SUBSET Questions]]
    /\ preview \in [Forms -> [Views -> SUBSET Questions]]
    /\ confirm \subseteq Plans
    /\ calls \subseteq Call
    /\ base \in [Forms -> [id : Plans \cup {None}, row : Row]]
    /\ touched \in [Forms -> SUBSET Field]
    /\ wanted \in [Forms -> [Views -> SUBSET Questions]]
    /\ born \subseteq Plans
    /\ unsure \subseteq Forms
    /\ missed \subseteq Reasons /\ since \subseteq Reasons
    /\ clicks \in 0..MaxClicks /\ events \in 0..MaxEvents

NoViews == [v \in Views |-> {}]

NoRow   == [id |-> None, row |-> CHOOSE r \in Row : TRUE]
NoInput == [to |-> None, d |-> Blank, touched |-> {}]

\* The page has just been opened: it shows no card and no form, and its list is being
\* loaded. "Add plan" is there already.
Init ==
    /\ table \in Start
    /\ used = table.ids
    /\ list = [table EXCEPT !.ids = {}] /\ loaded = FALSE
    /\ fetch = "sent" /\ fetched = list
    /\ open = {}
    /\ target = [k \in Forms |-> None]
    /\ draft = [k \in Forms |-> Blank]
    /\ phase = [k \in Forms |-> "idle"]
    /\ input = [k \in Forms |-> NoInput]
    /\ asking = [k \in Forms |-> NoViews] /\ preview = asking /\ wanted = asking
    /\ confirm = {} /\ calls = {}
    /\ base = [k \in Forms |-> NoRow]
    /\ touched = [k \in Forms |-> {}]
    /\ born = {} /\ unsure = {}
    /\ missed = {} /\ since = {}
    /\ clicks = 0 /\ events = 0

-----------------------------------------------------------------------------
(* The form's controls.                                                    *)

Click == clicks < MaxClicks /\ clicks' = clicks + 1 /\ UNCHANGED events

\* A form that mounts takes its state from its props and asks nothing.
Mount(k, p, d, from) ==
    /\ open' = open \cup {k}
    /\ target' = [target EXCEPT ![k] = p]
    /\ draft' = [draft EXCEPT ![k] = d]
    /\ base' = [base EXCEPT ![k] = from]
    /\ UNCHANGED <<server, query, phase, input, views, cards, touched, wanted, born,
                   unsure, gaps>>

\* One that unmounts forgets everything.
Unmount(K) ==
    LET Forget(f, x) == [k \in Forms |-> IF k \in K THEN x ELSE f[k]]
    IN  /\ open' = open \ K
        /\ target' = Forget(target, None) /\ draft' = Forget(draft, Blank)
        /\ input' = Forget(input, NoInput)
        /\ asking' = Forget(asking, NoViews) /\ preview' = Forget(preview, NoViews)
        /\ base' = Forget(base, NoRow) /\ touched' = Forget(touched, {})
        /\ wanted' = Forget(wanted, NoViews)
        /\ born' = (IF "add" \in K THEN {} ELSE born)
        /\ unsure' = unsure \ K

\* "Add plan" is shown while no form is.
ClickAdd ==
    /\ open = {}
    /\ Click
    /\ Mount("add", None, Blank, NoRow)

\* A card's pencil. The form has no key: when it is on the page already it only
\* gets another prop and keeps the rest of its state.
ClickEdit(p) ==
    /\ p \in list.ids
    /\ Click
    /\ IF "edit" \notin open
       THEN Mount("edit", p, FormOf(list.row[p]), [id |-> p, row |-> list.row[p]])
       ELSE /\ target' = [target EXCEPT !["edit"] = p]
            /\ UNCHANGED <<server, query, open, draft, phase, input, views, cards,
                           origin, gaps>>

Edit(k, f, d) ==
    /\ k \in open
    /\ draft[k] # d
    /\ Click
    /\ draft' = [draft EXCEPT ![k] = d]
    /\ touched' = [touched EXCEPT ![k] = @ \cup {f}]
    /\ UNCHANGED <<server, query, open, target, phase, input, views, cards, base,
                   wanted, born, unsure, gaps>>

EditName(k) == \E x \in Names : Edit(k, "name", [draft[k] EXCEPT !.name = x])

\* Source folders, excludes, tags and options; folders may come from the browser.
EditContents(k) == \E x \in Contents : Edit(k, "contents", [draft[k] EXCEPT !.contents = x])

EditSchedule(k) ==
    \/ \E x \in {"", "custom"} \cup Presets :
          Edit(k, "preset", [draft[k] EXCEPT !.preset = x])
    \/ /\ draft[k].preset = "custom"
       /\ \E x \in {""} \cup Crons : Edit(k, "cron", [draft[k] EXCEPT !.cron = x])

EditRetention(k) ==
    \E x \in BOOLEAN : \/ Edit(k, "keep", [draft[k] EXCEPT !.keep = x])
                       \/ Edit(k, "prune", [draft[k] EXCEPT !.prune = x])

EditEnabled(k) == \E x \in BOOLEAN : Edit(k, "enabled", [draft[k] EXCEPT !.enabled = x])

\* Broken: the button stays on.
CanPreviewAlways(k, v) == v = "retention" => draft[k].keep

\* Previews. A click clears the old one; the button is off while one is asked.
CanPreview(k, v) ==
    /\ v = "retention" => draft[k].keep
    /\ asking[k][v] = {}

ClickPreview(k, v) ==
    /\ k \in open
    /\ CanPreview(k, v)
    /\ Click
    /\ LET q == Question(draft[k], v)
       IN  /\ asking' = [asking EXCEPT ![k][v] = @ \cup {q}]
           /\ wanted' = [wanted EXCEPT ![k][v] = {q}]
    /\ preview' = [preview EXCEPT ![k][v] = {}]
    /\ UNCHANGED <<server, query, forms, cards, base, touched, born, unsure, gaps>>

AnswerPreview(k, v) ==
    /\ k \in open
    /\ \E q \in asking[k][v] :
        /\ asking' = [asking EXCEPT ![k][v] = @ \ {q}]
        /\ \/ preview' = [preview EXCEPT ![k][v] = {q}]
           \/ UNCHANGED preview     \* the server refuses, or its answer is lost
    /\ UNCHANGED <<server, query, forms, cards, origin, gaps, bounds>>

-----------------------------------------------------------------------------
(* Saving.                                                                 *)

Busy(k) == phase[k] # "idle"

\* Cancel, which is off while the form is busy.
Cancel(k) ==
    /\ k \in open /\ ~Busy(k)
    /\ Click
    /\ Unmount({k})
    /\ UNCHANGED <<server, query, phase, cards, gaps>>

\* Broken: the button stays on.
SubmitTwice(k) ==
    /\ k \in open /\ draft[k].name # ""
    /\ Click
    /\ phase' = [phase EXCEPT ![k] = "sent"]
    /\ input' = [input EXCEPT ![k] =
                   [to |-> target[k], d |-> draft[k], touched |-> touched[k]]]
    /\ UNCHANGED <<server, query, open, target, draft, views, cards, origin, gaps>>

Submit(k) ==
    /\ k \in open /\ ~Busy(k) /\ draft[k].name # ""
    /\ Click
    /\ phase' = [phase EXCEPT ![k] = "sent"]
    /\ input' = [input EXCEPT ![k] =
                   [to |-> target[k], d |-> draft[k], touched |-> touched[k]]]
    /\ UNCHANGED <<server, query, open, target, draft, views, cards, origin, gaps>>

NameFree(n, except) == \A p \in table.ids \ {except} : table.row[p].name # n

\* The server refuses what does not pass Validate, a name that is taken, and a row or a
\* repository that is gone.
Refuse(k) ==
    /\ phase' = [phase EXCEPT ![k] = "refused"]
    /\ UNCHANGED <<server, born>>

\* The row p gets all fields of the input.
Write(k, p) ==
    /\ NameFree(input[k].d.name, p)
    /\ table' = [ids |-> table.ids \cup {p},
                 row |-> [table.row EXCEPT ![p] = InputOf(input[k].d)]]
    /\ phase' = [phase EXCEPT ![k] = "done"]

Post(k) ==
    /\ input[k].to = None
    /\ \/ \E p \in Plans \ used :
            Write(k, p) /\ used' = used \cup {p} /\ born' = born \cup {p}
       \/ Refuse(k)

Put(k) ==
    /\ input[k].to # None
    /\ \/ input[k].to \in table.ids /\ Write(k, input[k].to) /\ UNCHANGED <<used, born>>
       \/ Refuse(k)

\* The server's half: POST inserts, PUT replaces the whole row, names are unique.
Handle(k) ==
    /\ phase[k] = "sent"
    /\ Post(k) \/ Put(k)
    /\ UNCHANGED <<query, open, target, draft, input, views, cards, base, touched,
                   wanted, unsure, gaps, bounds>>

\* Broken: an invalidation leaves a fetch alone that is under way.
RefetchUnlessFetching ==
    /\ fetch' = (IF fetch = "idle" THEN "sent" ELSE fetch)
    /\ UNCHANGED <<list, loaded, fetched, gaps>>

\* A fetch is started again by an invalidation, but not the first load.
Restarts == loaded \/ fetch = "idle"

Refetch ==
    /\ IF Restarts
       THEN /\ fetch' = "sent" /\ fetched' = list /\ since' = {}
       ELSE /\ UNCHANGED <<fetch, fetched>>
            /\ since' = IF fetch = "answered" THEN since \cup {"early"} ELSE since
    /\ UNCHANGED <<list, loaded, missed>>

Waiting == {k \in Forms : phase[k] = "refetch"}

\* Some of those who wait for a fetch wait no longer, and their forms close; others
\* begin to wait.
Settle(some, others) ==
    /\ Unmount(some)
    /\ phase' = [k \in Forms |-> IF k \in some THEN "idle"
                                ELSE IF k \in others THEN "refetch" ELSE phase[k]]

\* The mutations in others end with the fetch that an invalidation starts; whoever
\* waited for the fetch that it replaces is let go.
Invalidate(others) == Refetch /\ Settle(IF Restarts THEN Waiting ELSE {}, others)

\* A good answer: the mutation ends only with the fetch of the list.
Saved(k) ==
    /\ phase[k] = "done"
    /\ Invalidate({k})
    /\ UNCHANGED <<server, cards, bounds>>

\* Broken: an answer other than 2xx does not throw.
RefusedClosed(k) ==
    /\ phase[k] = "refused"
    /\ phase' = [phase EXCEPT ![k] = "idle"]
    /\ Unmount({k})
    /\ UNCHANGED <<server, query, cards, gaps, bounds>>

\* A bad one, which the form shows.
Refused(k) ==
    /\ phase[k] = "refused"
    /\ phase' = [phase EXCEPT ![k] = "idle"]
    /\ UNCHANGED <<server, query, open, target, draft, input, views, cards, origin,
                   gaps, bounds>>

Event == events < MaxEvents /\ events' = events + 1 /\ UNCHANGED clicks
Miss  ==
    /\ missed' = missed \cup {"untold"}
    /\ since' = IF fetch = "answered" THEN since \cup {"untold"} ELSE since

\* The connection breaks, before or after the server has handled the request.
SaveLost(k) ==
    /\ phase[k] \in {"sent", "done", "refused"}
    /\ Event /\ Miss
    /\ phase' = [phase EXCEPT ![k] = "idle"]
    /\ unsure' = unsure \cup {k}
    /\ UNCHANGED <<server, query, open, target, draft, input, views, cards, base,
                   touched, wanted, born>>

-----------------------------------------------------------------------------
(* The list of plans.                                                      *)

AnswerList ==
    /\ fetch = "sent"
    /\ fetch' = "answered"
    /\ fetched' = table
    /\ since' = {}
    /\ UNCHANGED <<server, list, loaded, forms, views, cards, origin, missed, bounds>>

LoadList ==
    /\ fetch = "answered"
    /\ fetch' = "idle"
    /\ list' = fetched /\ loaded' = TRUE
    /\ missed' = since /\ since' = {}
    /\ Settle(Waiting, {})
    /\ UNCHANGED <<server, fetched, cards, bounds>>

FailList ==
    /\ fetch # "idle"
    /\ Event
    /\ fetch' = "idle" /\ fetched' = list
    /\ missed' = missed \cup {"failed"} /\ since' = {}
    /\ Settle(Waiting, {})
    /\ UNCHANGED <<server, list, loaded, cards>>

\* The event of an operation that has ended invalidates the list too.
OperationEnded ==
    /\ Event
    /\ Invalidate({})
    /\ UNCHANGED <<server, cards>>

-----------------------------------------------------------------------------
(* The cards.                                                              *)

\* The switch: it asks for the opposite of what the list shows.
ClickEnabled(p) ==
    /\ p \in list.ids
    /\ Click
    /\ calls' = calls \cup {[do |-> IF list.row[p].enabled THEN "disable" ELSE "enable",
                             to |-> p, done |-> FALSE]}
    /\ UNCHANGED <<server, query, forms, views, confirm, origin, gaps>>

AskDelete(p) ==
    /\ p \in list.ids
    /\ Click
    /\ confirm' = IF p \in confirm THEN confirm \ {p} ELSE confirm \cup {p}
    /\ UNCHANGED <<server, query, forms, views, calls, origin, gaps>>

ClickDelete(p) ==
    /\ p \in confirm \cap list.ids
    /\ Click
    /\ calls' = calls \cup {[do |-> "delete", to |-> p, done |-> FALSE]}
    /\ UNCHANGED <<server, query, forms, views, confirm, origin, gaps>>

\* The server's half: a row that is gone is refused, and the card does not care.
HandleCall(c) ==
    /\ c \in calls /\ ~c.done
    /\ IF c.to \in table.ids
       THEN /\ calls' = (calls \ {c}) \cup {[c EXCEPT !.done = TRUE]}
            /\ table' = IF c.do = "delete"
                        THEN [table EXCEPT !.ids = @ \ {c.to}]
                        ELSE [table EXCEPT !.row[c.to].enabled = (c.do = "enable")]
       ELSE /\ calls' = calls \ {c}
            /\ UNCHANGED table
    /\ UNCHANGED <<used, query, forms, views, confirm, origin, gaps, bounds>>

CallDone(c) ==
    /\ c \in calls /\ c.done
    /\ calls' = calls \ {c}
    /\ Invalidate({})
    /\ UNCHANGED <<server, confirm, bounds>>

CallLost(c) ==
    /\ c \in calls
    /\ Event /\ Miss
    /\ calls' = calls \ {c}
    /\ UNCHANGED <<server, query, forms, views, confirm, origin>>

-----------------------------------------------------------------------------
\* Another tab, or a script: a row changes or goes. No event tells this tab, which
\* learns of it with its next fetch.
Elsewhere(p) ==
    /\ p \in table.ids
    /\ Event /\ Miss
    /\ \/ \E x \in Contents \ {table.row[p].contents} :
            table' = [table EXCEPT !.row[p].contents = x]
       \/ table' = [table EXCEPT !.ids = @ \ {p}]
    /\ UNCHANGED <<used, query, forms, views, cards, origin>>

User ==
    \/ ClickAdd
    \/ \E p \in Plans : ClickEdit(p) \/ ClickEnabled(p) \/ AskDelete(p) \/ ClickDelete(p)
    \/ \E k \in Forms :
        \/ EditName(k) \/ EditContents(k) \/ EditSchedule(k) \/ EditRetention(k)
        \/ EditEnabled(k) \/ Cancel(k) \/ Submit(k)
        \/ \E v \in Views : ClickPreview(k, v)

System ==
    \/ AnswerList \/ LoadList \/ FailList \/ OperationEnded
    \/ \E k \in Forms :
        \/ Handle(k) \/ Saved(k) \/ Refused(k) \/ SaveLost(k)
        \/ \E v \in Views : AnswerPreview(k, v)
    \/ \E c \in calls : HandleCall(c) \/ CallDone(c) \/ CallLost(c)
    \/ \E p \in Plans : Elsewhere(p)

Next == User \/ System

Spec == Init /\ [][Next]_vars

-----------------------------------------------------------------------------
(* Properties.                                                             *)

\* The controls that decide a field of the row.
Controls(f) == CASE f = "schedule" -> {"preset", "cron"}
                 [] f = "prune" -> {"prune", "keep"}
                 [] OTHER -> {f}

\* A form that saves a row (PlanForm.tsx:103-117) changes a field only if the
\* user has set it, if the form was opened on another row than it saves, if the
\* row has changed since it was opened, or if the field is prune of a policy
\* without it. The list is complete: opening a plan and saving it changes
\* nothing else.
UpdateChangesForAReason ==
    [][\A k \in Forms, f \in RowField :
          LET p == input[k].to
          IN  (/\ phase[k] = "sent" /\ phase'[k] = "done" /\ p # None
               /\ table'.row[p][f] # table.row[p][f])
              => \/ Controls(f) \cap input[k].touched # {}
                 \/ base[k].id # p
                 \/ base[k].row[f] # table.row[p][f]
                 \/ f = "prune" /\ base[k].row.keep /\ ~base[k].row.prune]_vars

\* A form that closes by itself (PlanForm.tsx:121) has been saved, and what it
\* loses is what the user typed after he had pressed the button.
ClosedFormIsSaved ==
    [][\A k \in Forms :
          (k \in open \ open' /\ clicks' = clicks)
          => /\ phase[k] = "refetch"
             /\ \A f \in Field : draft[k][f] # input[k].d[f] => f \in touched[k]]_vars

\* What a form shows is what it was opened on but for what the user has set, and it
\* sends what it showed at the submission.
ControlsInv ==
    /\ \A t \in {table, list, fetched} : \A p \in t.ids : t.row[p].prune => t.row[p].keep
    /\ "edit" \in open =>
          /\ base["edit"].row \in Row
          /\ base["edit"].row.prune => base["edit"].row.keep
          /\ \A f \in Field \ touched["edit"] : draft["edit"][f] = FormOf(base["edit"].row)[f]
    /\ phase["edit"] # "idle" =>
          \A f \in Field \ input["edit"].touched :
              input["edit"].d[f] = FormOf(base["edit"].row)[f]

\* Where submissions and previews stand.
RequestsInv ==
    /\ \A k \in Forms : phase[k] # "idle" => k \in open /\ input[k].touched \subseteq touched[k]
    /\ \A k \in Forms : phase[k] = "sent" => input[k].d.name # ""
    /\ target["add"] = None /\ input["add"].to = None
    /\ "edit" \in open => target["edit"] # None
    /\ phase["edit"] # "idle" => input["edit"].to # None
    /\ \A k \in Forms : phase[k] # "idle" =>
          \A f \in Field : draft[k][f] # input[k].d[f] => f \in touched[k]
    /\ \A k \in Forms, v \in Views : asking[k][v] \cup preview[k][v] \subseteq wanted[k][v]
    /\ "add" \notin unsure =>
          /\ phase["add"] \in {"idle", "sent", "refused"} => born = {}
          /\ \A p, q \in born : p = q

\* Until a change is announced by its own request, the list, or what is on its way to
\* it, is the table, or somebody has missed something.
ListInv ==
    (/\ \A c \in calls : ~c.done
     /\ \A k \in Forms : phase[k] # "done") =>
        /\ fetch = "idle" /\ missed = {} => list = table
        /\ fetch = "answered" /\ since = {} => fetched = table

\* Together with TypeOK this is inductive.
PageInv == ControlsInv /\ RequestsInv

\* One form creates one plan, unless an answer got lost and the user tried again
\* (PlanForm.tsx:70, 514).
CreatedOnce == Cardinality(born) > 1 => "add" \in unsure

\* A preview on the screen answers the last click on its button (PlanForm.tsx:73,
\* 83): an older answer never takes its place.
PreviewAnswersLastClick ==
    \A k \in open, v \in Views : preview[k][v] \subseteq wanted[k][v]

\* Once everything has arrived the cards show the table, or one of the Reasons stands
\* (usePlans.ts:12-44, PlansPage.tsx:148): the row changed elsewhere or the answer to
\* this tab's own request was lost, the last fetch failed, or the list is that of the
\* first load and a change was announced after its answer.
CardsAreStaleForAReason ==
    (/\ fetch = "idle" /\ calls = {} /\ missed = {}
     /\ \A k \in open : phase[k] = "idle") => list = table

\* The comment of PlanForm.tsx:25 and the heading of line 156 ("Edit plan: ...") say
\* that a form edits one plan: what it has saved went to the row it was opened on.
SavesThePlanOpened ==
    \A k \in open : phase[k] \in {"done", "refetch"} => input[k].to = base[k].id
=============================================================================
