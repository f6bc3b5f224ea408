----------------------------- MODULE HistoryPage -----------------------------
(***************************************************************************)
(* The page of operations in one browser tab                               *)
(* (web/src/pages/OperationsPage.tsx) with its list, which is filtered and *)
(* read page by page (useFilteredOperations in                             *)
(* web/src/hooks/useOperations.ts). Every filter has a list of its own in  *)
(* the query cache; events change the rows of all of them, and one that    *)
(* finds no row fetches the list that is on the screen.                    *)
(* The server and TanStack Query are external. An operation is queued or   *)
(* running at first ("live") and ends once.                                *)
(***************************************************************************)
EXTENDS Naturals, Sequences, SequencesExt

CONSTANTS
    Ops,        \* ids of operations
    Existing,   \* tables to start from
    Filters,    \* filters that the user chooses, of {"all", "live", "ended"}
    PageSize,   \* PAGE_SIZE
    MaxClicks,  \* bound on what the user does
    MaxEvents   \* bound on operations that start or end, and on losses

Row == [id : Ops, status : {"live", "ended"}]

\* What the constants are: assumed by Pages.
HistoryConstants ==
    /\ Ops \subseteq Nat \ {0}
    /\ Existing \subseteq [Ops -> {"none", "live", "ended"}]
    /\ \A table \in Existing : \A p, q \in Ops : q < p /\ table[p] # "none" => table[q] # "none"
    /\ Filters \subseteq {"all", "live", "ended"} /\ "all" \in Filters
    /\ PageSize \in Nat \ {0}
    /\ MaxClicks \in Nat /\ MaxEvents \in Nat

VARIABLES
    rows,       \* the table of operations
    hub,        \* events on their way to the tab, in order
    filter,     \* the filter on the screen
    cache,      \* for each filter: does its list have data, and its pages
    get,        \* its fetch: of all pages, or of one more; the pages got, how many
                \* it wants; late is history: what it will be wrong about
    reason,     \* history: why the list may be wrong
    clicks, events

view == <<filter, cache, get, reason>>
vars == <<rows, hub, filter, cache, get, reason, clicks, events>>

Reason == {"overtaken", "left", "elsewhere", "cancelled", "lost"}
Pages == Seq(Seq(Row))
Nothing == [kind |-> "idle", got |-> <<>>, want |-> 0, late |-> {}]

TypeOK ==
    /\ rows \in [Ops -> {"none", "live", "ended"}]
    /\ hub \in Seq(Row)
    /\ filter \in Filters
    /\ cache \in [Filters -> [loaded : BOOLEAN, pages : Pages]]
    /\ get \in [Filters -> [kind : {"idle", "all", "more"}, got : Pages, want : Nat,
                            late : SUBSET Reason]]
    /\ reason \in [Filters -> SUBSET Reason]
    /\ \A f \in Filters :
        /\ cache[f].loaded <=> cache[f].pages # <<>>
        /\ get[f].kind = "idle" <=> get[f].want = 0
        /\ Len(get[f].got) <= get[f].want
    /\ clicks \in 0..MaxClicks /\ events \in 0..MaxEvents

Matches(f, status) == f = "all" \/ f = status

\* The rows of the table below a cursor, 0 for none.
Below(f, cursor) ==
    {p \in Ops : rows[p] # "none" /\ Matches(f, rows[p]) /\ (cursor # 0 => p < cursor)}

\* The server's answer has the latest of them: ORDER BY id DESC LIMIT PageSize.
Latest(ids, f, cursor) ==
    /\ \A i \in DOMAIN ids : ids[i] \in Below(f, cursor)
    /\ \A i, j \in DOMAIN ids : i < j => ids[j] < ids[i]
    /\ \A p \in Below(f, cursor) :
        \/ \E i \in DOMAIN ids : ids[i] = p
        \/ Len(ids) = PageSize /\ \A i \in DOMAIN ids : p < ids[i]

\* Broken: the cursor is the first row of the last page.
CursorFirst(pages) == IF pages = <<>> THEN 0 ELSE Head(Last(pages)).id

\* getNextPageParam: a page that is not full is the last.
Cursor(pages) == IF pages = <<>> THEN 0 ELSE Last(Last(pages)).id
HasNext(pages) == pages = <<>> \/ Len(Last(pages)) = PageSize

\* A fetch of all pages begins with the first one, and goes as far as the list did.
Start(f) == [kind |-> "all", got |-> <<>>, late |-> {},
             want |-> IF cache[f].loaded THEN Len(cache[f].pages) ELSE 1]

Init ==
    /\ rows \in Existing /\ hub = <<>>
    /\ filter = "all"
    /\ cache = [f \in Filters |-> [loaded |-> FALSE, pages |-> <<>>]]
    /\ get = [f \in Filters |-> IF f = "all" THEN [Nothing EXCEPT !.kind = "all", !.want = 1]
                                ELSE Nothing]
    /\ reason = [f \in Filters |-> {}]
    /\ clicks = 0 /\ events = 0

Click == clicks < MaxClicks /\ clicks' = clicks + 1 /\ UNCHANGED events
Event == events < MaxEvents /\ events' = events + 1 /\ UNCHANGED clicks

\* The menus, and "Clear filters". The list is fetched, or its fetch is awaited.
ChooseFilter(f) ==
    /\ f # filter
    /\ Click
    /\ filter' = f
    /\ get' = [get EXCEPT ![f] = IF @.kind = "idle" THEN Start(f) ELSE @]
    /\ UNCHANGED <<rows, hub, cache, reason>>

\* "Load more" is off only while it is at work. It cancels a fetch of all pages.
LoadMore ==
    /\ cache[filter].loaded /\ HasNext(cache[filter].pages)
    /\ get[filter].kind # "more"
    /\ Click
    /\ get' = [get EXCEPT ![filter] =
                 [kind |-> "more", got |-> cache[filter].pages, late |-> {},
                  want |-> Len(cache[filter].pages) + 1]]
    /\ reason' = [reason EXCEPT ![filter] =
                    @ \cup {r \in {"cancelled"} : get[filter].kind = "all"}]
    /\ UNCHANGED <<rows, hub, filter, cache>>

Complete(g) == Len(g.got) = g.want \/ ~HasNext(g.got)

\* A fetch asks for its pages one after the other.
AnswerPage(f) ==
    /\ get[f].kind # "idle" /\ ~Complete(get[f])
    /\ \E n \in 0..PageSize : \E ids \in [1..n -> Ops] :
        /\ Latest(ids, f, Cursor(get[f].got))
        /\ get' = [get EXCEPT ![f].got =
                     Append(@, [i \in 1..n |-> [id |-> ids[i], status |-> rows[ids[i]]]])]
    /\ UNCHANGED <<rows, hub, filter, cache, reason, clicks, events>>

\* All of it replaces the data.
Load(f) ==
    /\ get[f].kind # "idle" /\ Complete(get[f])
    /\ cache' = [cache EXCEPT ![f] = [loaded |-> TRUE, pages |-> get[f].got]]
    /\ reason' = [reason EXCEPT ![f] =
                    get[f].late \cup (IF get[f].kind = "more" THEN @ ELSE {})]
    /\ get' = [get EXCEPT ![f] = Nothing]
    /\ UNCHANGED <<rows, hub, filter, clicks, events>>

Fail(f) ==
    /\ get[f].kind # "idle"
    /\ Event
    /\ get' = [get EXCEPT ![f] = Nothing]
    /\ reason' = [reason EXCEPT ![f] = @ \cup {"lost"}]
    /\ UNCHANGED <<rows, hub, filter, cache>>

Holds(f, p) == \E i \in 1..Len(cache[f].pages) :
                  \E j \in 1..Len(cache[f].pages[i]) : cache[f].pages[i][j].id = p

\* The rows of an operation get its status.
Patched(f, e) ==
    [cache[f] EXCEPT !.pages =
        [i \in DOMAIN @ |-> [j \in DOMAIN @[i] |-> IF @[i][j].id = e.id THEN e ELSE @[i][j]]]]

\* A fetch that goes on although an event has come.
Later(g) == IF g.kind = "idle" THEN g ELSE [g EXCEPT !.late = @ \cup {"overtaken"}]

\* Broken: an event that finds no row fetches nothing.
EventArrivesQuietly ==
    /\ hub # <<>>
    /\ LET e == Head(hub)
       IN  /\ hub' = Tail(hub)
           /\ cache' = [f \in Filters |-> Patched(f, e)]
           /\ get' = [f \in Filters |-> Later(get[f])]
           /\ reason' = reason
    /\ UNCHANGED <<rows, filter, clicks, events>>

\* An event changes the row wherever it is cached. If it is nowhere, the list on the
\* screen is fetched again, unless it is being loaded for the first time. A row stays
\* when the filter no longer matches, and one that is cached under another filter is
\* not fetched into this list.
EventArrives ==
    /\ hub # <<>>
    /\ LET e == Head(hub)
           matchedAnywhere == \E f \in Filters : Holds(f, e.id)
           restarts(f) == /\ ~matchedAnywhere /\ f = filter
                          /\ cache[f].loaded \/ get[f].kind = "idle"
           wrong(f) == {r \in Reason : /\ matchedAnywhere
                                       /\ \/ r = "left" /\ Holds(f, e.id) /\ ~Matches(f, e.status)
                                          \/ r = "elsewhere" /\ ~Holds(f, e.id)}
       IN  /\ hub' = Tail(hub)
           /\ cache' = [f \in Filters |-> Patched(f, e)]
           /\ get' = [f \in Filters |-> IF restarts(f) THEN Start(f) ELSE Later(get[f])]
           /\ reason' = [f \in Filters |-> reason[f] \cup wrong(f)]
    /\ UNCHANGED <<rows, filter, clicks, events>>

\* The stream breaks, and it repeats nothing.
EventsLost ==
    /\ hub # <<>>
    /\ Event
    /\ hub' = <<>>
    /\ get' = [f \in Filters |-> [get[f] EXCEPT !.late =
                                    @ \cup {r \in {"lost"} : get[f].kind # "idle"}]]
    /\ reason' = [f \in Filters |-> reason[f] \cup {"lost"}]
    /\ UNCHANGED <<rows, filter, cache>>

\* An operation starts or ends, and its event sets out. Ids grow.
Change(p) ==
    /\ rows[p] # "ended" /\ \A q \in Ops : q < p => rows[q] # "none"
    /\ Event
    /\ rows' = [rows EXCEPT ![p] = IF @ = "none" THEN "live" ELSE "ended"]
    /\ hub' = Append(hub, [id |-> p, status |-> rows'[p]])
    /\ UNCHANGED view

Next ==
    \/ \E f \in Filters : ChooseFilter(f) \/ AnswerPage(f) \/ Load(f) \/ Fail(f)
    \/ LoadMore \/ EventArrives \/ EventsLost
    \/ \E p \in Ops : Change(p)

Spec == Init /\ [][Next]_vars

-----------------------------------------------------------------------------
(* Properties.                                                             *)

Shown(f) == UNION {{cache[f].pages[i][j] : j \in DOMAIN cache[f].pages[i]} :
                    i \in DOMAIN cache[f].pages}

\* Pages fit together, whatever happens while they are read (useOperations.ts:71-82):
\* ids descend within a page and to the next, the list of all operations has no gap, and
\* no page but the last has room.
HistoryHasNoHoles ==
    \A f \in Filters :
        LET pages == cache[f].pages
            fits(upper, lower) == /\ lower < upper
                                  /\ f = "all" => \A p \in Ops : ~(lower < p /\ p < upper)
        IN  /\ \A i \in 1..Len(pages) : \A j \in 1..(Len(pages[i]) - 1) :
                    fits(pages[i][j].id, pages[i][j + 1].id)
            /\ \A i \in 1..(Len(pages) - 1) :
                    /\ Len(pages[i]) = PageSize
                    /\ pages[i + 1] # <<>> => fits(Last(pages[i]).id, Head(pages[i + 1]).id)

\* Once everything has arrived, the list on the screen is what the table has down to
\* its last row (useOperations.ts:153-179), except for five reasons: an answer is older
\* than an event; a row no longer matches the filter; an event found its row in the
\* list of another filter; "Load more" cancelled a fetch; an event or a fetch was lost.
HistoryIsWrongForAReason ==
    LET pages == cache[filter].pages
        below(p) == HasNext(pages) /\ p < Last(Last(pages)).id
    IN  (hub = <<>> /\ get[filter].kind = "idle" /\ cache[filter].loaded
         /\ reason[filter] = {})
        => Shown(filter) =
           {[id |-> p, status |-> rows[p]] : p \in
               {q \in Ops : rows[q] # "none" /\ Matches(filter, rows[q]) /\ ~below(q)}}

-----------------------------------------------------------------------------
(* Why they hold.                                                          *)

\* The list has a row of operation p.
Lists(pages, p) == \E i \in DOMAIN pages : \E j \in DOMAIN pages[i] : pages[i][j].id = p

\* Ids are given out in order.
TableInv == \A p, q \in Ops : q < p /\ rows[p] # "none" => rows[q] # "none"

\* An event tells what the table has, unless a later one does.
HubInv ==
    \A k \in DOMAIN hub :
        \/ rows[hub[k].id] = hub[k].status
        \/ \E m \in DOMAIN hub : k < m /\ hub[m].id = hub[k].id

\* Pages that were read one after the other fit together.
Fit(f, pages) ==
    /\ \A i \in DOMAIN pages :
        Len(pages[i]) <= PageSize /\ (i < Len(pages) => Len(pages[i]) = PageSize)
    /\ \A i, k \in DOMAIN pages : \A j \in DOMAIN pages[i], l \in DOMAIN pages[k] :
        (i < k \/ (i = k /\ j < l)) => pages[k][l].id < pages[i][j].id
    /\ \A p \in Ops : Lists(pages, p) => rows[p] # "none"
    /\ f = "all" => \A lo, p, hi \in Ops :
        (Lists(pages, lo) /\ Lists(pages, hi) /\ lo < p /\ p < hi) => Lists(pages, p)

Coming(p) == \E k \in DOMAIN hub : hub[k].id = p

\* They have what the table has as far down as they go, but for what is on its way.
Agrees(f, pages) ==
    /\ \A i \in DOMAIN pages : \A j \in DOMAIN pages[i] :
        \/ Coming(pages[i][j].id)
        \/ pages[i][j].status = rows[pages[i][j].id] /\ Matches(f, pages[i][j].status)
    /\ \A p \in Ops : (rows[p] # "none" /\ Matches(f, rows[p])) =>
        \/ Lists(pages, p) \/ Coming(p)
        \/ HasNext(pages) /\ (pages = <<>> \/ p < Last(Last(pages)).id)

\* So do the pages of a fetch, if no event overtook it,
FetchInv(f) ==
    (get[f].kind # "idle" /\ get[f].late = {} /\ (get[f].kind = "more" => reason[f] = {}))
        => Agrees(f, get[f].got)

\* and the list on the screen, if nothing is under way that replaces it.
ListInv ==
    (get[filter].kind = "idle" /\ cache[filter].loaded /\ reason[filter] = {})
        => Agrees(filter, cache[filter].pages)

HistoryInv ==
    /\ TableInv /\ HubInv
    /\ \A f \in Filters :
        /\ Fit(f, cache[f].pages) /\ Fit(f, get[f].got)
        /\ FetchInv(f)
    /\ ListInv
=============================================================================
