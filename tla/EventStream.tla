----------------------------- MODULE EventStream -----------------------------
(***************************************************************************)
(* How a browser tab learns what operations do. The runner writes a row and*)
(* publishes it (ops/runner.go); the hub puts the event into the channel of*)
(* each subscriber, or drops it when the channel is full (ops/events.go);  *)
(* the stream handler sends the channel over a WebSocket                   *)
(* (api/ops_handlers.go); the tab folds events into two cached queries,    *)
(* which it also fetches with GET, and raises toasts                       *)
(* (web/src/hooks/useOperations.ts). Tabs do not influence each other, so  *)
(* there is one.                                                           *)
(***************************************************************************)
EXTENDS Naturals, Sequences

CONSTANTS
    Ops,        \* operations
    Outcomes,   \* how they end: a subset of Terminal
    Cap,        \* capacity of a subscriber's channel (256 in the code)
    Events      \* what may go wrong, a subset of EventSet

Terminal == {"success", "warning", "error", "canceled"}
EventSet == {"slow",        \* the tab reads so slowly that its channel fills
             "disconnect",  \* WebSockets break and are opened again, GETs fail
             "unread",      \* a row that was written cannot be read again
             "crash"}       \* the server stops and is started again

ASSUME StreamAssumption ==
    /\ Outcomes \subseteq Terminal
    /\ Outcomes # {}
    /\ Cap \in Nat \ {0}
    /\ Events \subseteq EventSet

\* "none" is an operation without a row, or not in a list.
Status == {"none", "queued", "running"} \cup Terminal
Rank(s) == CASE s = "none" -> 0 [] s = "queued" -> 1 [] s = "running" -> 2 [] OTHER -> 3

\* The event of type "op". Log lines and progress take the same way.
Event == [op : Ops, status : Status \ {"none"}]

\* ["operations"], shown by PlansPage, and ["operations", "filtered", {}], shown
\* by OperationsPage.
Queries == {"recent", "history"}

VARIABLES
    row,        \* the operations table: column status
    unsent,     \* operations with a row that is written and not yet published
    orphans,    \* queued operations whose goroutine was never started
    channel,    \* the events that wait in the subscriber's channel
    connected,  \* the tab's WebSocket is open, the hub has its channel
    page,       \* the query whose page is shown
    loaded,     \* the queries with data in the query cache
    shown,      \* these data
    fetch,      \* the fetch of each query: "idle", "sent" or "answered"
    answer,     \* what the server has answered
    seen,       \* useEventStream's map of last statuses
    toasts,     \* history: toasts raised per operation, counted up to 2
    past,       \* history: operations that had ended when the tab was opened
    missed,     \* history: per query, operations with a change that the tab was
                \* not told since the server read the data of the query
    since,      \* history: the same for the answer that has not arrived yet
    overtaken   \* history: per query, operations whose data are older than an
                \* event that the tab had received before

server  == <<row, unsent, orphans>>
stream  == <<channel, connected>>
queries == <<page, loaded, shown, fetch, answer>>
tab     == <<seen, toasts>>
history == <<past, missed, since, overtaken>>
vars == <<row, unsent, orphans, channel, connected, page, loaded, shown, fetch,
          answer, seen, toasts, past, missed, since, overtaken>>

TypeOK ==
    /\ row \in [Ops -> Status]
    /\ unsent \subseteq Ops
    /\ orphans \subseteq Ops
    /\ channel \in Seq(Event) /\ Len(channel) <= Cap
    /\ connected \in BOOLEAN
    /\ page \in Queries
    /\ loaded \subseteq Queries
    /\ shown \in [Queries -> [Ops -> Status]]
    /\ fetch \in [Queries -> {"idle", "sent", "answered"}]
    /\ answer \in [Queries -> [Ops -> Status]]
    /\ seen \in [Ops -> Status]
    /\ toasts \in [Ops -> 0..2]
    /\ past \subseteq Ops
    /\ missed \in [Queries -> SUBSET Ops]
    /\ since \in [Queries -> SUBSET Ops]
    /\ overtaken \in [Queries -> SUBSET Ops]

Nothing == [o \in Ops |-> "none"]

\* The tab opens on a page. Operations may have ended before.
Init ==
    /\ row \in [Ops -> {"none"} \cup Outcomes]
    /\ unsent = {}
    /\ orphans = {}
    /\ channel = <<>>
    /\ connected = FALSE
    /\ page \in Queries
    /\ loaded = {}
    /\ shown = [q \in Queries |-> Nothing]
    /\ fetch = [q \in Queries |-> IF q = page THEN "sent" ELSE "idle"]
    /\ answer = [q \in Queries |-> Nothing]
    /\ seen = Nothing
    /\ toasts = [o \in Ops |-> 0]
    /\ past = {o \in Ops : row[o] \in Terminal}
    /\ missed = [q \in Queries |-> {}]
    /\ since = [q \in Queries |-> {}]
    /\ overtaken = [q \in Queries |-> {}]

-----------------------------------------------------------------------------
(* The runner and the hub. The statuses come in OpsRunner's order; refused  *)
(* writes are left to that module.                                         *)

\* Broken: a write that fails is announced as if it had not.
WriteRowLost(o, s) ==
    /\ o \notin unsent /\ connected /\ Len(channel) < Cap
    /\ row[o] = "none" /\ s = "queued"
    /\ channel' = Append(channel, [op |-> o, status |-> s])
    /\ UNCHANGED <<server, connected, queries, tab, history>>

\* Enqueue and setStatus: the row is written and read again ...
WriteRow(o, s) ==
    /\ o \notin unsent \cup orphans
    /\ \/ row[o] = "none" /\ s = "queued"
       \/ row[o] = "queued" /\ s = "running"
       \/ row[o] = "running" /\ s \in Outcomes
    /\ row' = [row EXCEPT ![o] = s]
    /\ unsent' = unsent \cup {o}
    /\ UNCHANGED <<orphans, stream, queries, tab, history>>

Miss(os) ==
    /\ missed' = [q \in Queries |-> missed[q] \cup os]
    /\ since' = [q \in Queries |-> since[q] \cup os]

\* Broken: a full channel stops the publisher, and with it the operation.
PublishBlocking(o) ==
    /\ o \in unsent
    /\ connected => Len(channel) < Cap
    /\ unsent' = unsent \ {o}
    /\ IF connected
         THEN channel' = Append(channel, [op |-> o, status |-> row[o]]) /\ UNCHANGED <<missed, since>>
         ELSE Miss({o}) /\ UNCHANGED channel
    /\ UNCHANGED <<row, orphans, connected, queries, tab, past, overtaken>>

\* Broken: the channel has no bound.
PublishUnbounded(o) ==
    /\ o \in unsent
    /\ connected
    /\ unsent' = unsent \ {o}
    /\ channel' = Append(channel, [op |-> o, status |-> row[o]])
    /\ UNCHANGED <<row, orphans, connected, queries, tab, history>>

\* Broken: each event is sent by a goroutine of its own, so that the last one may
\* be the first.
PublishInAnyOrder(o) ==
    /\ o \in unsent
    /\ connected /\ Len(channel) < Cap
    /\ unsent' = unsent \ {o}
    /\ channel' = <<[op |-> o, status |-> row[o]]>> \o channel
    /\ UNCHANGED <<row, orphans, connected, queries, tab, history>>

\* ... and published: Hub.Publish never waits.
Publish(o) ==
    /\ o \in unsent
    /\ Len(channel) < Cap \/ "slow" \in Events
    /\ unsent' = unsent \ {o}
    /\ IF connected /\ Len(channel) < Cap
         THEN channel' = Append(channel, [op |-> o, status |-> row[o]]) /\ UNCHANGED <<missed, since>>
         ELSE Miss({o}) /\ UNCHANGED channel
    /\ UNCHANGED <<row, orphans, connected, queries, tab, past, overtaken>>

\* ... or not: when the row cannot be read again, nobody is told of the change.
\* setStatus goes on, Enqueue returns before it has started the goroutine.
SkipPublish(o) ==
    /\ o \in unsent
    /\ "unread" \in Events
    /\ unsent' = unsent \ {o}
    /\ orphans' = IF row[o] = "queued" THEN orphans \cup {o} ELSE orphans
    /\ Miss({o})
    /\ UNCHANGED <<row, stream, queries, tab, past, overtaken>>

Waiting == {channel[i].op : i \in DOMAIN channel}
Live   == {o \in Ops : row[o] \in {"queued", "running"}}

\* The server stops and starts: ResumeInterrupted ends what was queued or running,
\* and publishes nothing.
Interrupt ==
    /\ "crash" \in Events
    /\ row' = [o \in Ops |-> IF o \in Live THEN "error" ELSE row[o]]
    /\ unsent' = {}
    /\ orphans' = {}
    /\ connected' = FALSE
    /\ channel' = <<>>
    /\ Miss(Live \cup unsent \cup Waiting)
    /\ UNCHANGED <<queries, tab, past, overtaken>>

-----------------------------------------------------------------------------
(* The WebSocket.                                                          *)

\* Broken: a new subscriber first gets what has ended.
ConnectWithReplay ==
    /\ ~connected
    /\ connected' = TRUE
    /\ \E o \in Ops : row[o] \in Terminal /\ channel' = <<[op |-> o, status |-> row[o]]>>
    /\ UNCHANGED <<server, queries, tab, history>>

\* Subscribe. The hub replays nothing.
Connect ==
    /\ ~connected
    /\ connected' = TRUE
    /\ channel' = <<>>
    /\ UNCHANGED <<server, queries, tab, history>>

\* A write or a ping fails, or the network: the handler unsubscribes, and what
\* waits in the channel is gone. The tab tries again later.
Disconnect ==
    /\ connected
    /\ "disconnect" \in Events
    /\ connected' = FALSE
    /\ channel' = <<>>
    /\ Miss(Waiting)
    /\ UNCHANGED <<server, queries, tab, past, overtaken>>

-----------------------------------------------------------------------------
(* The tab: events.                                                        *)

\* maybeToast: not for repeats, not for what the user has done himself.
Toasts(e) ==
    /\ e.status \in Terminal \ {"canceled"}
    /\ seen[e.op] \notin Terminal

\* invalidateQueries: the query of the page that is shown is fetched again. The
\* answer of a fetch under way is thrown away, but not that of the first one.
Invalidated(q) == q = page /\ (fetch[q] = "idle" \/ q \in loaded)

\* Broken: an event of an operation that is on no page is ignored.
ReceiveMatched ==
    /\ channel # <<>>
    /\ LET e == Head(channel)
           o == e.op
           known == {q \in loaded : q = "recent" \/ shown[q][o] # "none"}
       IN
         /\ seen' = [seen EXCEPT ![o] = e.status]
         /\ toasts' = IF Toasts(e) /\ toasts[o] < 2 THEN [toasts EXCEPT ![o] = @ + 1] ELSE toasts
         /\ shown' = [q \in Queries |-> IF q \in known THEN [shown[q] EXCEPT ![o] = e.status] ELSE shown[q]]
         /\ overtaken' = [q \in Queries |-> IF q \in known THEN overtaken[q] \ {o} ELSE overtaken[q]]
    /\ channel' = Tail(channel)
    /\ UNCHANGED <<server, connected, page, loaded, fetch, answer, past, missed, since>>

\* onmessage: "recent" is updated or extended, a row of "history" is replaced;
\* when it is not there, "history" is fetched again.
Receive ==
    /\ channel # <<>>
    /\ LET e == Head(channel)
           o == e.op
           known == {q \in loaded : q = "recent" \/ shown[q][o] # "none"}
           again == "history" \notin known /\ Invalidated("history")
       IN
         /\ seen' = [seen EXCEPT ![o] = e.status]
         /\ toasts' = IF Toasts(e) /\ toasts[o] < 2 THEN [toasts EXCEPT ![o] = @ + 1] ELSE toasts
         /\ shown' = [q \in Queries |-> IF q \in known THEN [shown[q] EXCEPT ![o] = e.status] ELSE shown[q]]
         /\ overtaken' = [q \in Queries |-> IF q \in known THEN overtaken[q] \ {o} ELSE overtaken[q]]
         /\ IF again
              THEN fetch' = [fetch EXCEPT !["history"] = "sent"] /\ answer' = [answer EXCEPT !["history"] = Nothing]
              ELSE UNCHANGED <<fetch, answer>>
    /\ channel' = Tail(channel)
    /\ UNCHANGED <<server, connected, page, loaded, past, missed, since>>

-----------------------------------------------------------------------------
(* The tab: queries.                                                       *)

\* The user goes to the other page. A query that mounts is fetched, unless a
\* fetch is still under way.
Visit(q) ==
    /\ page # q
    /\ page' = q
    /\ fetch' = IF fetch[q] = "idle" THEN [fetch EXCEPT ![q] = "sent"] ELSE fetch
    /\ UNCHANGED <<server, stream, loaded, shown, answer, tab, history>>

\* useRunPlan: the answer to "Run now" invalidates both queries.
RunNow ==
    /\ Invalidated(page)
    /\ fetch' = [fetch EXCEPT ![page] = "sent"]
    /\ answer' = [answer EXCEPT ![page] = Nothing]
    /\ UNCHANGED <<server, stream, page, loaded, shown, tab, history>>

\* handleOpsList: ListOperations reads the table.
Answer(q) ==
    /\ fetch[q] = "sent"
    /\ fetch' = [fetch EXCEPT ![q] = "answered"]
    /\ answer' = [answer EXCEPT ![q] = row]
    /\ since' = [since EXCEPT ![q] = missed[q] \cap (unsent \cup Waiting)]
    /\ UNCHANGED <<server, stream, page, loaded, shown, tab, past, missed, overtaken>>

\* The answer replaces what the cache holds, whatever has come meanwhile.
Load(q) ==
    /\ fetch[q] = "answered"
    /\ loaded' = loaded \cup {q}
    /\ shown' = [shown EXCEPT ![q] = answer[q]]
    /\ fetch' = [fetch EXCEPT ![q] = "idle"]
    /\ answer' = [answer EXCEPT ![q] = Nothing]
    /\ missed' = [missed EXCEPT ![q] = since[q]]
    /\ since' = [since EXCEPT ![q] = {}]
    /\ overtaken' = [overtaken EXCEPT ![q] = {o \in Ops : Rank(answer[q][o]) < Rank(seen[o])}]
    /\ UNCHANGED <<server, stream, page, tab, past>>

\* The request fails (twice): the cache stays as it is.
Fail(q) ==
    /\ fetch[q] # "idle"
    /\ "disconnect" \in Events
    /\ fetch' = [fetch EXCEPT ![q] = "idle"]
    /\ answer' = [answer EXCEPT ![q] = Nothing]
    /\ overtaken' = [overtaken EXCEPT ![q] = @ \cup {o \in Ops : Rank(shown[q][o]) < Rank(seen[o])}]
    /\ UNCHANGED <<server, stream, page, loaded, shown, tab, past, missed, since>>

Next ==
    \/ \E o \in Ops : (\E s \in Status : WriteRow(o, s)) \/ Publish(o) \/ SkipPublish(o)
    \/ Interrupt
    \/ Connect \/ Disconnect \/ Receive
    \/ \E q \in Queries : Visit(q) \/ Answer(q) \/ Load(q) \/ Fail(q)
    \/ RunNow

\* Only the server's goroutines are sure to run: a tab may hang.
Fairness ==
    \A o \in Ops :
        /\ WF_vars(Publish(o))
        /\ WF_vars(\E s \in Status \ {"queued"} : WriteRow(o, s))

Spec == Init /\ [][Next]_vars
FairSpec == Spec /\ Fairness

-----------------------------------------------------------------------------
(* Properties.                                                             *)

\* The tab has been told everything about the operation that it will be told.
Settled(o) == o \notin unsent /\ \A i \in DOMAIN channel : channel[i].op # o

\* What the page shows of an operation is its present status, unless a change was
\* missed after the list was read (a full channel, a broken WebSocket, a row that
\* nobody could read again, a restart of the server), or the list was read before
\* an event that came first. Nothing else, no order of fetches, events, visits and
\* invalidations, makes the page wrong for good.
ViewIsWrongForAReason ==
    \A o \in Ops :
        page \in loaded /\ fetch[page] = "idle" /\ connected /\ Settled(o) =>
            shown[page][o] = row[o] \/ o \in missed[page] \cup overtaken[page]

\* A page never shows what has not happened yet.
NothingIsInvented ==
    \A q \in Queries, o \in Ops : Rank(shown[q][o]) <= Rank(row[o])

\* "A first-seen terminal status is always a genuine live completion": across
\* reconnects each operation that ends is announced at most once, with the
\* outcome it has, and one that ended before the tab was opened never.
ToastsAreLive ==
    [][\A o \in Ops : toasts'[o] > toasts[o] =>
        /\ o \notin past
        /\ toasts[o] = 0
        /\ row[o] \in Terminal \ {"canceled"}
        /\ seen'[o] = row[o]]_vars

\* What the tab is told of one operation never goes back.
EventsMoveForward ==
    [][\A o \in Ops : Rank(seen'[o]) >= Rank(seen[o])]_vars

\* "Slow subscribers drop events rather than blocking operations." Each one whose
\* goroutine is started ends.
OperationsEnd ==
    \A o \in Ops : o \in Live ~> (row[o] \in Terminal /\ o \notin unsent) \/ o \in orphans

\* "The live WebSocket-fed cache that the Dashboard and PlanCard rely on for
\* real-time status" (useOperations.ts:62-66): with a good connection the page of
\* plans is right once everything has arrived. It is not: an answer that the
\* server gave before an event may arrive after it, and replaces it.
ViewIsCurrent ==
    \A o \in Ops :
        /\ page = "recent" /\ "recent" \in loaded /\ fetch["recent"] = "idle"
        /\ connected /\ Settled(o) /\ o \notin missed["recent"]
        => shown["recent"][o] = row[o]
-----------------------------------------------------------------------------
(* Why the properties hold: together with TypeOK, StreamInv is inductive.   *)

\* s is the present status of the operation, or an earlier one.
Happened(s, o) == s = row[o] \/ Rank(s) < Rank(row[o])

InChannel(o) == \E i \in DOMAIN channel : channel[i].op = o

\* The event of the present status waits in the channel (it is then the last
\* one of the operation).
Arriving(o) == \E i \in DOMAIN channel : channel[i].op = o /\ channel[i].status = row[o]

\* The events of one operation wait in the order in which they happened, and
\* each is news; what is not published yet is nowhere.
ChannelInv ==
    /\ ~connected => channel = <<>>
    /\ \A o \in Ops : Happened(seen[o], o)
    /\ \A i \in DOMAIN channel :
         /\ Happened(channel[i].status, channel[i].op)
         /\ Rank(seen[channel[i].op]) < Rank(channel[i].status)
    /\ \A i, j \in DOMAIN channel :
         i < j /\ channel[i].op = channel[j].op => Rank(channel[i].status) < Rank(channel[j].status)
    /\ \A o \in unsent : seen[o] # row[o] /\ ~Arriving(o)

\* What had ended before the tab was opened is never heard of, and what was
\* announced has been seen to end.
ToastInv ==
    /\ \A o \in past : /\ row[o] \in Terminal /\ o \notin unsent
                       /\ seen[o] = "none" /\ toasts[o] = 0 /\ ~InChannel(o)
    /\ \A o \in Ops : toasts[o] > 0 => seen[o] \in Terminal

\* Who has missed nothing of an operation since the server read the data will
\* receive its present status, or has received it, or read it.
Informed(o, gap, data) ==
    o \notin gap \cup unsent =>
        IF InChannel(o) THEN Arriving(o) ELSE data[o] = row[o] \/ seen[o] = row[o]

QueryInv ==
    /\ \A q \in Queries, o \in Ops : Happened(shown[q][o], o) /\ Happened(answer[q][o], o)
    /\ \A q \in Queries, o \in Ops : o \notin missed[q] \cup unsent /\ InChannel(o) => Arriving(o)
    /\ \A q \in loaded, o \in Ops : Informed(o, missed[q], shown[q])
    /\ \A q \in Queries, o \in Ops :
         fetch[q] = "answered" => Informed(o, since[q], answer[q])
    /\ \A q \in loaded, o \in Ops :
         (q = "recent" \/ (q = page /\ fetch[q] = "idle")) /\ o \notin overtaken[q]
         => Rank(shown[q][o]) >= Rank(seen[o])

StreamInv == ChannelInv /\ ToastInv /\ QueryInv
=============================================================================
