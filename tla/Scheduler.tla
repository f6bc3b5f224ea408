------------------------------ MODULE Scheduler ------------------------------
(***************************************************************************)
(* The two cron schedulers (internal/schedule/scheduler.go), one for the   *)
(* backup plans and one for the integrity checks of repositories, between  *)
(* the tables they mirror and the HTTP handlers that change these tables.  *)
(* A handler writes a row and then calls Reload, which reads the table     *)
(* first and takes the scheduler's mutex only to replace all cron entries, *)
(* one by one. cron's own goroutine does not take this mutex, it fires     *)
(* from the list as it finds it.                                           *)
(***************************************************************************)
EXTENDS Naturals

CONSTANTS
    Plans,      \* ids of plans
    Repos,      \* ids of repositories
    Specs,      \* cron expressions that parse
    Manual,     \* the empty cron expression
    Requests,   \* slots for HTTP requests that are served at the same time
    Events,     \* what may happen around them, a subset of EventSet
    MaxWrites   \* bound: how often the tables are written

EventSet == {"disconnect",  \* a request's context ends, or SQLite fails a read
             "cascade",     \* a repository that has plans may be deleted
             "crash"}       \* the process stops; it may be started again

ASSUME SchedulerAssumption ==
    /\ MaxWrites \in Nat
    /\ Manual \notin Specs
    /\ Plans \cap Repos = {}
    /\ Events \subseteq EventSet

Kinds == {"plan", "check"}
Ids   == Plans \cup Repos
IdsOf(k) == IF k = "plan" THEN Plans ELSE Repos

\* What the schedulers need of a row. A repository's row names itself, and it
\* has no switch.
PlanRow == [repo : Repos, enabled : BOOLEAN, spec : Specs \cup {Manual}]
RepoRow(r) == [repo : {r}, enabled : {TRUE}, spec : Specs \cup {Manual}]
Item == [id : Ids, spec : Specs]

\* An entry of cron. The version of the table it was loaded from stands for its
\* EntryID: it tells the entries of two Reloads apart.
Entry == [id : Ids, spec : Specs, version : 0..MaxWrites]
EntryOf(item, v) == [id |-> item.id, spec |-> item.spec, version |-> v]
ItemsOf(es) == {[id |-> e.id, spec |-> e.spec] : e \in es}

VARIABLES
    rows,       \* the two tables, a function on the ids that have a row
    used,       \* ids that have been given out (AUTOINCREMENT)
    up,         \* the server process runs
    cron,       \* per scheduler: what cron fires
    entries,    \* per scheduler: the entries of cron that its map knows
    jobs,       \* ids of jobs that cron has started and that have not run yet
    req,        \* per request slot: where its handler stands
    version,    \* history: number of writes
    written,    \* history: per table, the version of its last write
    past,       \* history: per version, what each table wanted scheduled
    installed,  \* history: per scheduler, the version its list is from
    skipped,    \* history: kinds with a write that no Reload has followed
    overtaken   \* history: schedulers where an older Reload came last

table   == <<rows, used, version, written, past>>
history == <<installed, skipped, overtaken>>
lists   == <<cron, entries>>
vars == <<rows, used, up, cron, entries, jobs, req, version, written, past,
          installed, skipped, overtaken>>

\* Broken: the query without its test for an empty expression.
ScheduledWithoutSpec(t, k) ==
    {[id |-> i, spec |-> t[i].spec] : i \in {j \in DOMAIN t \cap IdsOf(k) : t[j].enabled}}

\* ListScheduled and ListCheckScheduled.
Scheduled(t, k) ==
    {[id |-> i, spec |-> t[i].spec] :
        i \in {j \in DOMAIN t \cap IdsOf(k) : t[j].enabled /\ t[j].spec # Manual}}

Standing(at, k, ids, items, v) ==
    [at |-> at, kind |-> k, of |-> ids, items |-> items, version |-> v]
Idle == Standing("idle", "plan", {}, {}, 0)

Request == [at      : {"idle", "reread", "reload", "lock", "remove", "add"},
            kind    : Kinds,            \* whose Reload it calls
            of      : SUBSET Ids,       \* the row it reads again
            items   : SUBSET Item,      \* what its Reload has yet to add
            version : 0..MaxWrites]     \* history: and when

Tables(t) ==
    /\ \A p \in DOMAIN t \cap Plans : t[p] \in PlanRow
    /\ \A r \in DOMAIN t \cap Repos : t[r] \in RepoRow(r)

TypeOK ==
    /\ Tables(rows)
    /\ DOMAIN rows \subseteq used
    /\ used \subseteq Ids
    /\ up \in BOOLEAN
    /\ cron \in [Kinds -> SUBSET Entry]
    /\ entries \in [Kinds -> SUBSET Entry]
    /\ jobs \subseteq Ids
    /\ req \in [Requests -> Request]
    /\ version \in 0..MaxWrites
    /\ written \in [Kinds -> 0..version]
    /\ past \in [0..MaxWrites -> [Kinds -> SUBSET Item]]
    /\ installed \in [Kinds -> 0..version]
    /\ skipped \subseteq Kinds
    /\ overtaken \subseteq Kinds

AllScheduled(t) == [k \in Kinds |-> Scheduled(t, k)]

\* The process has started on a new database.
Init ==
    /\ rows = [i \in {} |-> i]
    /\ used = {}
    /\ up = TRUE
    /\ cron = [k \in Kinds |-> {}]
    /\ entries = [k \in Kinds |-> {}]
    /\ jobs = {}
    /\ req = [h \in Requests |-> Idle]
    /\ version = 0
    /\ written = [k \in Kinds |-> 0]
    /\ past = [v \in 0..MaxWrites |-> [k \in Kinds |-> {}]]
    /\ installed = [k \in Kinds |-> 0]
    /\ skipped = {}
    /\ overtaken = {}

-----------------------------------------------------------------------------
(* Handlers: the write.                                                    *)

\* One statement makes t of the tables; it writes to the tables of the kinds ks.
Write(t, ks) ==
    /\ up
    /\ version < MaxWrites
    /\ rows' = t
    /\ used' = used \cup DOMAIN t
    /\ version' = version + 1
    /\ written' = [k \in Kinds |-> IF k \in ks THEN version + 1 ELSE written[k]]
    /\ past' = [past EXCEPT ![version + 1] = AllScheduled(t)]

\* The handler goes on with the call of a scheduler's Reload.
GoOn(h, at, k, ids) ==
    req' = [req EXCEPT ![h] = Standing(at, k, ids, {}, 0)]

With(i, row) == [j \in DOMAIN rows \cup {i} |-> IF j = i THEN row ELSE rows[j]]
Without(ids) == [j \in DOMAIN rows \ ids |-> rows[j]]

\* INSERT gives out a new id, UPDATE needs the row.
Writable(i) == i \in DOMAIN rows \/ i \notin used

\* handlePlanCreate, handlePlanUpdate: the row is read again before Reload.
SavePlan(h, p, row) ==
    /\ req[h].at = "idle"
    /\ Writable(p)
    /\ row.repo \in DOMAIN rows
    /\ Write(With(p, row), {"plan"})
    /\ GoOn(h, "reread", "plan", {p})
    /\ UNCHANGED <<up, lists, jobs, history>>

\* Broken: the handler forgets to call Reload.
SetEnabledOnly(h, p, on) ==
    /\ req[h].at = "idle"
    /\ p \in DOMAIN rows
    /\ Write(With(p, [rows[p] EXCEPT !.enabled = on]), {"plan"})
    /\ UNCHANGED <<up, lists, jobs, req, history>>

SetEnabled(h, p, on) ==
    /\ req[h].at = "idle"
    /\ p \in DOMAIN rows
    /\ Write(With(p, [rows[p] EXCEPT !.enabled = on]), {"plan"})
    /\ GoOn(h, "reload", "plan", {})
    /\ UNCHANGED <<up, lists, jobs, history>>

DeletePlan(h, p) ==
    /\ req[h].at = "idle"
    /\ p \in DOMAIN rows
    /\ Write(Without({p}), {"plan"})
    /\ GoOn(h, "reload", "plan", {})
    /\ UNCHANGED <<up, lists, jobs, history>>

\* handleRepoCreate, handleRepoUpdate.
SaveRepo(h, r, row) ==
    /\ req[h].at = "idle"
    /\ Writable(r)
    /\ Write(With(r, row), {"check"})
    /\ GoOn(h, "reread", "check", {r})
    /\ UNCHANGED <<up, lists, jobs, history>>

\* handleRepoSetCheckSchedule. It reads the row again too, but after Reload.
SetCheckSchedule(h, r, spec) ==
    /\ req[h].at = "idle"
    /\ r \in DOMAIN rows
    /\ Write(With(r, [rows[r] EXCEPT !.spec = spec]), {"check"})
    /\ GoOn(h, "reload", "check", {})
    /\ UNCHANGED <<up, lists, jobs, history>>

PlansOf(r) == {p \in DOMAIN rows \cap Plans : rows[p].repo = r}

\* Broken: the handler reloads the other scheduler.
DeleteRepoReloadsPlans(h, r) ==
    /\ req[h].at = "idle"
    /\ r \in DOMAIN rows
    /\ PlansOf(r) # {} => "cascade" \in Events
    /\ LET ks == IF PlansOf(r) = {} THEN {"check"} ELSE Kinds IN
         /\ Write(Without({r} \cup PlansOf(r)), ks)
         /\ skipped' = skipped \cup (ks \ {"check"})
    /\ GoOn(h, "reload", "plan", {})
    /\ UNCHANGED <<up, lists, jobs, installed, overtaken>>

\* The foreign key deletes the repository's plans with it, and handleRepoDelete
\* reloads only the scheduler of the checks.
DeleteRepo(h, r) ==
    /\ req[h].at = "idle"
    /\ r \in DOMAIN rows
    /\ PlansOf(r) # {} => "cascade" \in Events
    /\ LET ks == IF PlansOf(r) = {} THEN {"check"} ELSE Kinds IN
         /\ Write(Without({r} \cup PlansOf(r)), ks)
         /\ skipped' = skipped \cup (ks \ {"check"})
    /\ GoOn(h, "reload", "check", {})
    /\ UNCHANGED <<up, lists, jobs, installed, overtaken>>

-----------------------------------------------------------------------------
(* Handlers: the reload.                                                   *)

\* The handler ends without having reloaded.
GiveUp(h) ==
    /\ req' = [req EXCEPT ![h] = Idle]
    /\ skipped' = skipped \cup {req[h].kind}
    /\ UNCHANGED <<table, up, lists, jobs, installed, overtaken>>

\* Create and Update end with Get, which fails when another request has deleted
\* the row meanwhile.
Reread(h) ==
    /\ req[h].at = "reread"
    /\ \/ /\ req[h].of \subseteq DOMAIN rows
          /\ GoOn(h, "reload", req[h].kind, {})
          /\ UNCHANGED <<table, up, lists, jobs, history>>
       \/ ~ req[h].of \subseteq DOMAIN rows /\ GiveUp(h)
       \/ "disconnect" \in Events /\ GiveUp(h)

\* Reload before the mutex. An error of load is only logged by the handler.
Load(h) ==
    /\ req[h].at = "reload"
    /\ \/ /\ LET k == req[h].kind IN
              req' = [req EXCEPT ![h] =
                        Standing("lock", k, {}, Scheduled(rows, k), version)]
          /\ UNCHANGED <<table, up, lists, jobs, history>>
       \/ "disconnect" \in Events /\ GiveUp(h)

\* A Reload holds the mutex of scheduler k.
Reloading(k) == \E h \in Requests : req[h].kind = k /\ req[h].at \in {"remove", "add"}

\* Broken: Reload does not wait for the mutex.
LockAnyway(h) ==
    /\ req[h].at = "lock"
    /\ req' = [req EXCEPT ![h].at = "remove"]
    /\ UNCHANGED <<table, up, lists, jobs, history>>

Lock(h) ==
    /\ req[h].at = "lock"
    /\ ~Reloading(req[h].kind)
    /\ req' = [req EXCEPT ![h].at = "remove"]
    /\ UNCHANGED <<table, up, lists, jobs, history>>

\* The first loop: cron.Remove for an entry of the map that cron still has.
Remove(h) ==
    LET k == req[h].kind IN
    /\ req[h].at = "remove"
    /\ \E e \in entries[k] \cap cron[k] : cron' = [cron EXCEPT ![k] = @ \ {e}]
    /\ UNCHANGED <<table, up, entries, jobs, req, history>>

\* From here on scheduler k's list is, as far as it goes, that of version v.
Note(k, v) ==
    /\ installed' = [installed EXCEPT ![k] = v]
    /\ IF v >= written[k]
         THEN skipped' = skipped \ {k} /\ overtaken' = overtaken \ {k}
         ELSE /\ overtaken' = IF installed[k] >= written[k]
                                THEN overtaken \cup {k} ELSE overtaken
              /\ UNCHANGED skipped

\* Broken: the map is emptied before the loop over it.
ClearFirst(h) ==
    LET k == req[h].kind IN
    /\ req[h].at = "remove"
    /\ entries' = [entries EXCEPT ![k] = {}]
    /\ Note(k, req[h].version)
    /\ req' = [req EXCEPT ![h].at = "add"]
    /\ UNCHANGED <<table, up, cron, jobs>>

\* After that loop the map is made anew.
Clear(h) ==
    LET k == req[h].kind IN
    /\ req[h].at = "remove"
    /\ entries[k] \cap cron[k] = {}
    /\ entries' = [entries EXCEPT ![k] = {}]
    /\ Note(k, req[h].version)
    /\ req' = [req EXCEPT ![h].at = "add"]
    /\ UNCHANGED <<table, up, cron, jobs>>

\* The second loop: AddFunc for an item, whose id then stands for the new entry.
Add(h) ==
    LET k == req[h].kind IN
    /\ req[h].at = "add"
    /\ \E item \in req[h].items :
         LET new == EntryOf(item, req[h].version) IN
           /\ cron' = [cron EXCEPT ![k] = @ \cup {new}]
           /\ entries' = [entries EXCEPT ![k] = {e \in @ : e.id # item.id} \cup {new}]
           /\ req' = [req EXCEPT ![h].items = @ \ {item}]
    /\ UNCHANGED <<table, up, jobs, history>>

\* Reload returns.
Unlock(h) ==
    /\ req[h].at = "add"
    /\ req[h].items = {}
    /\ req' = [req EXCEPT ![h] = Idle]
    /\ UNCHANGED <<table, up, lists, jobs, history>>

-----------------------------------------------------------------------------
(* cron and the process.                                                   *)

\* cron starts the job of an entry in a goroutine of its own.
Fire(i) ==
    /\ up
    /\ \E k \in Kinds : \E e \in cron[k] : e.id = i
    /\ jobs' = jobs \cup {i}
    /\ UNCHANGED <<table, up, lists, req, history>>

\* The job calls EnqueueBackup or EnqueueCheck.
RunJob(i) ==
    /\ i \in jobs
    /\ jobs' = jobs \ {i}
    /\ UNCHANGED <<table, up, lists, req, history>>

Crash ==
    /\ up
    /\ "crash" \in Events
    /\ up' = FALSE
    /\ cron' = [k \in Kinds |-> {}]
    /\ entries' = [k \in Kinds |-> {}]
    /\ jobs' = {}
    /\ req' = [h \in Requests |-> Idle]
    /\ UNCHANGED <<table, history>>

\* Broken: the start does not load the tables.
RestartUnloaded ==
    /\ ~up
    /\ up' = TRUE
    /\ UNCHANGED <<table, lists, jobs, req, history>>

\* Server.Start reloads both schedulers before cron runs. What should have run
\* meanwhile is not made up for.
Restart ==
    /\ ~up
    /\ up' = TRUE
    /\ cron' = [k \in Kinds |-> {EntryOf(i, version) : i \in Scheduled(rows, k)}]
    /\ entries' = cron'
    /\ installed' = [k \in Kinds |-> version]
    /\ skipped' = {}
    /\ overtaken' = {}
    /\ UNCHANGED <<table, jobs, req>>

Serve(h) ==
    \/ Reread(h) \/ Load(h)
    \/ Lock(h) \/ Remove(h) \/ Clear(h) \/ Add(h) \/ Unlock(h)

Next ==
    \/ \E h \in Requests :
         \/ \E p \in Plans :
              \/ \E row \in PlanRow : SavePlan(h, p, row)
              \/ \E on \in BOOLEAN : SetEnabled(h, p, on)
              \/ DeletePlan(h, p)
         \/ \E r \in Repos :
              \/ \E row \in RepoRow(r) : SaveRepo(h, r, row)
              \/ \E spec \in Specs \cup {Manual} : SetCheckSchedule(h, r, spec)
              \/ DeleteRepo(h, r)
         \/ Reread(h) \/ Load(h)
         \/ Lock(h) \/ Remove(h) \/ Clear(h) \/ Add(h) \/ Unlock(h)
    \/ \E i \in Ids : Fire(i) \/ RunJob(i)
    \/ Crash
    \/ Restart

\* Handlers and jobs are goroutines, and the supervisor restarts the process.
Fairness ==
    /\ \A h \in Requests : WF_vars(Serve(h))
    /\ \A i \in Ids : WF_vars(RunJob(i))
    /\ WF_vars(Restart)

Spec == Init /\ [][Next]_vars
FairSpec == Spec /\ Fairness

-----------------------------------------------------------------------------
(* Properties.                                                             *)

\* The request will still bring the scheduler of kind k up to date.
Brings(h, k) ==
    /\ req[h].kind = k
    /\ \/ req[h].at \in {"reread", "reload"}
       \/ req[h].at \in {"lock", "remove"} /\ req[h].version >= written[k]

InSync(k) == ItemsOf(cron[k]) = Scheduled(rows, k)

\* Versions recorded while reloads and writes interleave are true: loaded items
\* are those the table held at their version, and the table has not changed since
\* its last write.
VersionsAreTrue ==
    /\ \A k \in Kinds, v \in 0..MaxWrites : \A e, f \in past[v][k] :
         e.id \in IdsOf(k) /\ (e.id = f.id => e = f)
    /\ \A k \in Kinds : \A v \in written[k]..version : past[v][k] = Scheduled(rows, k)
    /\ \A h \in Requests :
         req[h].at \in {"lock", "remove"} =>
            /\ req[h].version <= version
            /\ req[h].items = past[req[h].version][req[h].kind]

\* How far the list of scheduler k is: complete, or what the Reload in the mutex
\* has left of the old one or added of the new one.
ListStands(k) ==
    /\ \A e \in entries[k] : e.version = installed[k]
    /\ cron[k] \subseteq entries[k]
    /\ up /\ ~Reloading(k) => /\ cron[k] = entries[k]
                              /\ ItemsOf(cron[k]) = past[installed[k]][k]
    /\ \A h \in Requests : req[h].kind = k =>
         /\ req[h].at = "remove" => ItemsOf(entries[k]) = past[installed[k]][k]
         /\ req[h].at = "add" =>
              /\ req[h].version = installed[k]
              /\ cron[k] = entries[k]
              /\ ItemsOf(cron[k]) \cup req[h].items = past[installed[k]][k]

\* One Reload of a kind is in the mutex.
OneReloads ==
    /\ ~up => /\ \A h \in Requests : req[h].at = "idle"
              /\ \A k \in Kinds : cron[k] = {}
    /\ \A h, g \in Requests :
         /\ req[h].at \in {"remove", "add"} /\ req[g].at \in {"remove", "add"}
         /\ req[h].kind = req[g].kind
         => h = g
    /\ \A k \in Kinds : ListStands(k)

\* A scheduler whose list is older than its table's last write has one of the
\* reasons of OutOfSyncForAReason.
BehindForAReason ==
    up => \A k \in Kinds :
            \/ installed[k] >= written[k]
            \/ \E h \in Requests : Brings(h, k)
            \/ k \in skipped \cup overtaken

\* The inductive invariant of reloading: no step of a handler, of cron or of the
\* process can leave cron behind unnoticed, or with an entry nobody knows of.
SchedulerInv == VersionsAreTrue /\ OneReloads /\ BehindForAReason

\* However reloads, writes and cron interleave, and in the middle of a Reload too,
\* cron never has entries from two loads, nor two of one id, which would run a
\* backup twice, nor one that the map has forgotten and no later Reload would
\* remove. It lacks an item of the list it was given only while a Reload holds
\* the mutex: a schedule can miss a minute only there.
CronHoldsOneList ==
    \A k \in Kinds :
        /\ \A e, f \in cron[k] : e.version = f.version /\ (e.id = f.id => e = f)
        /\ cron[k] \subseteq entries[k]
        /\ ItemsOf(cron[k]) \subseteq past[installed[k]][k]
        /\ up /\ ItemsOf(cron[k]) # past[installed[k]][k] => Reloading(k)

\* A scheduler that disagrees with its table has a reason: a request that is
\* about to reload it or in the middle of that, a request that ended without
\* reloading it (or the cascade of a repository's deletion), or an older Reload
\* that installed last. No other sequence of requests, crashes and restarts
\* leaves cron behind.
OutOfSyncForAReason ==
    up => \A k \in Kinds :
            \/ InSync(k)
            \/ Reloading(k)
            \/ \E h \in Requests : Brings(h, k)
            \/ k \in skipped \cup overtaken

\* cron starts a job only for a row that exists, is enabled and has a schedule,
\* also when it fires from half a list, unless the scheduler is out of sync
\* for one of the other reasons: a plan or a repository whose deletion has been
\* answered does not run again.
FiresWhatIsScheduled ==
    [][\A i \in Ids : i \in jobs' \ jobs =>
         LET k == IF i \in Plans THEN "plan" ELSE "check" IN
            \/ i \in {e.id : e \in Scheduled(rows, k)}
            \/ \E h \in Requests : Brings(h, k)
            \/ k \in skipped \cup overtaken]_vars

\* Whatever is written, and whenever the process stops, each scheduler again
\* and again agrees with its table, or a request has failed it for good.
CatchesUp ==
    \A k \in Kinds : []<>(up /\ (InSync(k) \/ k \in skipped \cup overtaken))

\* "Reload re-registers all scheduled items. Call after any mutation."
\* (scheduler.go): once all requests are answered, cron runs what is scheduled.
InSyncWhenQuiet ==
    (up /\ \A h \in Requests : req[h].at = "idle") => \A k \in Kinds : InSync(k)
=============================================================================
