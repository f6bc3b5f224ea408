------------------------------ MODULE OpsRunner ------------------------------
(***************************************************************************)
(* The operation runner of restic-ui (internal/ops/runner.go, commands.go) *)
(* with the parts of the database, of the HTTP handlers and of the restic  *)
(* child processes that it meets.                                          *)
(*                                                                         *)
(* Every operation is a row of the table "operations" and, once it was     *)
(* started, a goroutine that takes its repository's mutex, registers a     *)
(* cancel function, runs restic, writes the terminal status and leaves.    *)
(* A backup and any other command do the last part in different orders.    *)
(* Meanwhile users enqueue and cancel operations, edit or delete plans and *)
(* repositories, and the process may die and start again.                  *)
(***************************************************************************)
EXTENDS Naturals

CONSTANTS
    Repos,      \* repository ids (AUTOINCREMENT: an id is never used again)
    Plans,      \* plan ids (likewise)
    NoRepo,     \* the repository of a row that was never inserted
    NoPlan,     \* the plan of an operation that has none (a NULL plan_id)
    MaxOps,     \* bound: how many rows "operations" may get
    Kinds,      \* the kinds of operation that are enqueued
    Events      \* what may happen around the runner, a subset of EventSet

EventSet == {"edit",        \* users change and delete plans and repositories
             "cancel",      \* users cancel operations
             "crash",       \* the process stops; it may be started again
             "disconnect",  \* a client goes away before its request is answered
             "db"}          \* SQLite refuses a write or a read

\* "prune" stands for prune and forget, "check" for check and restore: the
\* runner treats the two of a pair alike.
BackupKind   == "backup"
CommandKinds == {"retention", "prune", "copy", "check"}
StatsKinds   == {"retention", "prune", "copy"}      \* statsCaptureTypes

ASSUME ConstantsAssumption ==
    /\ MaxOps \in Nat
    /\ Kinds \subseteq {BackupKind} \cup CommandKinds
    /\ Events \subseteq EventSet
    /\ NoRepo \notin Repos
    /\ NoPlan \notin Plans

OpId == 1..MaxOps
NoOp == 0

Live     == {"queued", "running"}
Terminal == {"success", "warning", "error", "canceled"}
Produced == {"success", "warning"}   \* the results that saved a snapshot
Status   == {"absent"} \cup Live \cup Terminal

\* What restic did for an operation: "ok" is exit code 0, "partial" exit code 3.
ProcState == {"unborn", "running", "ok", "partial", "failed", "killed"}

\* Where the code that works for an operation stands.
PC == {"none",       \* no code: no row yet, or the process restarted
       "inserted",   \* Enqueue* has inserted the row and re-reads it
       "dropped",    \* Enqueue* returned an error after the insert
       "lock",       \* the goroutine waits for the repository's mutex
       "register",   \* it holds the mutex
       "begin",      \* its cancel function is registered
       "config",     \* BuildRepoConfig is next
       "start",      \* cmd.Start is next
       "restic",     \* it reads restic's output and waits for its end
       "stats",      \* captureRepoStats is next
       "record",     \* the terminal setStatus is next
       "finish",     \* runCommand: notifyDone, inside the mutex
       "leave",      \* deferred: cancel(), delete(cancels, opID)
       "unlock",     \* deferred: lock.Unlock()
       "report",     \* backup: notifyDone, outside the mutex
       "chain",      \* backup: EnqueueForget is next
       "done"}       \* the goroutine has ended

\* What a goroutine captured when its operation was enqueued.
\* keep: the backup's copy of the plan has a retention policy;
\* parent: the backup that chained this retention (history, not in the code).
Job == [kind   : {"none", BackupKind} \cup CommandKinds,
        repo   : Repos \cup {NoRepo},
        plan   : Plans \cup {NoPlan},
        keep   : BOOLEAN,
        parent : OpId \cup {NoOp}]
NoJob == [kind |-> "none", repo |-> NoRepo, plan |-> NoPlan,
          keep |-> FALSE, parent |-> NoOp]

PlanRow     == [repo : Repos, keep : BOOLEAN]
DeletedPlan == [repo |-> NoRepo, keep |-> FALSE]

VARIABLES
    repoRows,   \* table repos: the ids of the rows
    planRows,   \* table plans: the columns the runner reads
    nextOp,     \* table operations: the next AUTOINCREMENT id
    status,     \* table operations: column status
    stats,      \* table repo_stats_history: the operation_ids it holds
    up,         \* the server process runs
    pc, job, result,  \* the goroutines: place, captured values, final status
    holder,     \* Runner.repoLocks: the operation that holds each mutex
    cancels,    \* Runner.cancels: its keys
    cancelReq,  \* Cancel: cancel func "found" under mu, then called ("fired")
    restic,     \* the restic child process of each operation
    notified,   \* the status NotifyOp was handed, "none" before
    lost        \* history: operations one of whose status writes was refused

db       == <<repoRows, planRows, nextOp, status, stats>>
tables   == <<repoRows, planRows>>
memory   == <<pc, job, result, holder, cancels, cancelReq>>
vars     == <<repoRows, planRows, nextOp, status, stats, up, pc, job, result,
              holder, cancels, cancelReq, restic, notified, lost>>

TypeOK ==
    /\ repoRows \subseteq Repos
    /\ planRows \in [Plans -> PlanRow \cup {DeletedPlan}]
    /\ nextOp \in 1..(MaxOps + 1)
    /\ status \in [OpId -> Status]
    /\ stats \subseteq OpId
    /\ up \in BOOLEAN
    /\ pc \in [OpId -> PC]
    /\ job \in [OpId -> Job]
    /\ result \in [OpId -> {"none"} \cup Terminal]
    /\ holder \in [Repos -> OpId \cup {NoOp}]
    /\ cancels \subseteq OpId
    /\ cancelReq \in [OpId -> {"none", "found", "fired"}]
    /\ restic \in [OpId -> ProcState]
    /\ notified \in [OpId -> {"none"} \cup Status]
    /\ lost \subseteq OpId

Init ==
    /\ repoRows = Repos
    /\ planRows \in [Plans -> PlanRow]
    /\ nextOp = 1
    /\ status = [o \in OpId |-> "absent"]
    /\ stats = {}
    /\ up = TRUE
    /\ pc = [o \in OpId |-> "none"]
    /\ job = [o \in OpId |-> NoJob]
    /\ result = [o \in OpId |-> "none"]
    /\ holder = [r \in Repos |-> NoOp]
    /\ cancels = {}
    /\ cancelReq = [o \in OpId |-> "none"]
    /\ restic = [o \in OpId |-> "unborn"]
    /\ notified = [o \in OpId |-> "none"]
    /\ lost = {}

-----------------------------------------------------------------------------
(* Enqueue: read the plan or the repository, insert the row, read it back, *)
(* start the goroutine. The reads and the insert are one step: a plan that *)
(* changes between them is a plan that changes right after them, and one   *)
(* that is deleted between them makes the insert fail.                     *)

Insert(kind, r, p, keep, parent) ==
    /\ nextOp <= MaxOps
    /\ r \in repoRows
    /\ nextOp' = nextOp + 1
    /\ status' = [status EXCEPT ![nextOp] = "queued"]
    /\ job' = [job EXCEPT ![nextOp] =
                [kind |-> kind, repo |-> r, plan |-> p,
                 keep |-> keep, parent |-> parent]]

\* POST /plans/{id}/run, or a cron entry that fires; enabled is not looked at.
EnqueueBackup(p) ==
    /\ up
    /\ BackupKind \in Kinds
    /\ planRows[p] # DeletedPlan
    /\ Insert(BackupKind, planRows[p].repo, p, planRows[p].keep, NoOp)
    /\ pc' = [pc EXCEPT ![nextOp] = "inserted"]
    /\ UNCHANGED <<tables, stats, up, result, holder, cancels, cancelReq,
                   restic, notified, lost>>

\* EnqueueForget refuses a plan without a policy.
Forgettable(p) == planRows[p] # DeletedPlan /\ planRows[p].keep

EnqueueForget(p) ==
    /\ up
    /\ "retention" \in Kinds
    /\ Forgettable(p)
    /\ Insert("retention", planRows[p].repo, p, FALSE, NoOp)
    /\ pc' = [pc EXCEPT ![nextOp] = "inserted"]
    /\ UNCHANGED <<tables, stats, up, result, holder, cancels, cancelReq,
                   restic, notified, lost>>

\* EnqueuePrune, EnqueueForgetSnapshot, EnqueueCheck, EnqueueRestore.
EnqueueCommand(kind, r) ==
    /\ up
    /\ kind \in Kinds \cap {"prune", "check"}
    /\ Insert(kind, r, NoPlan, FALSE, NoOp)
    /\ pc' = [pc EXCEPT ![nextOp] = "inserted"]
    /\ UNCHANGED <<tables, stats, up, result, holder, cancels, cancelReq,
                   restic, notified, lost>>

\* EnqueueCopy builds both configurations before it inserts the row.
EnqueueCopy(src, dest) ==
    /\ up
    /\ "copy" \in Kinds
    /\ src # dest
    /\ src \in repoRows
    /\ Insert("copy", dest, NoPlan, FALSE, NoOp)
    /\ pc' = [pc EXCEPT ![nextOp] = "inserted"]
    /\ UNCHANGED <<tables, stats, up, result, holder, cancels, cancelReq,
                   restic, notified, lost>>

\* GetOperation answered: go func() { ... }.
Spawn(o) ==
    /\ pc[o] = "inserted"
    /\ pc' = [pc EXCEPT ![o] = "lock"]
    /\ UNCHANGED <<db, up, job, result, holder, cancels, cancelReq, restic,
                   notified, lost>>

\* GetOperation failed, because the request's context ended or the read did:
\* Enqueue* returns the error and the row stays queued without a goroutine.
Drop(o) ==
    /\ pc[o] = "inserted"
    /\ Events \cap {"disconnect", "db"} # {}
    /\ job[o].parent = NoOp \/ "db" \in Events
    /\ pc' = [pc EXCEPT ![o] = "dropped"]
    /\ UNCHANGED <<db, up, job, result, holder, cancels, cancelReq, restic,
                   notified, lost>>

-----------------------------------------------------------------------------
(* The goroutine: runBackup and runCommand.                                *)

\* setStatus: a refused UPDATE is logged and otherwise ignored.
SetStatus(o, s) ==
    \/ /\ status' = [status EXCEPT ![o] = s]
       /\ UNCHANGED lost
    \/ /\ "db" \in Events
       /\ lost' = lost \cup {o}
       /\ UNCHANGED status

\* Broken: every goroutine gets a mutex of its own.
AcquireOwnLock(o) ==
    /\ pc[o] = "lock"
    /\ holder' = [holder EXCEPT ![job[o].repo] = o]
    /\ pc' = [pc EXCEPT ![o] = "register"]
    /\ UNCHANGED <<db, up, job, result, cancels, cancelReq, restic, notified,
                   lost>>

AcquireLock(o) ==
    /\ pc[o] = "lock"
    /\ holder[job[o].repo] = NoOp
    /\ holder' = [holder EXCEPT ![job[o].repo] = o]
    /\ pc' = [pc EXCEPT ![o] = "register"]
    /\ UNCHANGED <<db, up, job, result, cancels, cancelReq, restic, notified,
                   lost>>

Register(o) ==
    /\ pc[o] = "register"
    /\ cancels' = cancels \cup {o}
    /\ pc' = [pc EXCEPT ![o] = "begin"]
    /\ UNCHANGED <<db, up, job, result, holder, cancelReq, restic, notified,
                   lost>>

\* Only copy brings a configuration along.
SetRunning(o) ==
    /\ pc[o] = "begin"
    /\ SetStatus(o, "running")
    /\ pc' = [pc EXCEPT ![o] = IF job[o].kind = "copy" THEN "start" ELSE "config"]
    /\ UNCHANGED <<tables, nextOp, stats, up, job, result, holder, cancels,
                   cancelReq, restic, notified>>

\* Broken: an early return that does not write the terminal status.
FailSilently(o, place) ==
    /\ pc[o] = place
    /\ result' = [result EXCEPT ![o] = "error"]
    /\ pc' = [pc EXCEPT ![o] = "leave"]
    /\ UNCHANGED <<db, up, job, holder, cancels, cancelReq, restic, notified,
                   lost>>

\* Broken: an early return that writes a status nobody has set.
FailUnset(o, place) ==
    /\ pc[o] = place
    /\ pc' = [pc EXCEPT ![o] = "record"]
    /\ UNCHANGED <<db, up, job, result, holder, cancels, cancelReq, restic,
                   notified, lost>>

\* Both early returns of the code: the result is "error" whatever the reason.
FailBefore(o, place) ==
    /\ pc[o] = place
    /\ result' = [result EXCEPT ![o] = "error"]
    /\ pc' = [pc EXCEPT ![o] = "record"]
    /\ UNCHANGED <<db, up, job, holder, cancels, cancelReq, restic, notified,
                   lost>>

\* BuildRepoConfig reads the row with the operation's context: it fails when
\* the repository is gone or the operation was canceled, and may fail when a
\* secret cannot be opened or a credential file cannot be written.
BuildConfig(o) ==
    \/ /\ pc[o] = "config"
       /\ job[o].repo \in repoRows
       /\ cancelReq[o] # "fired"
       /\ pc' = [pc EXCEPT ![o] = "start"]
       /\ UNCHANGED <<db, up, job, result, holder, cancels, cancelReq, restic,
                      notified, lost>>
    \/ FailBefore(o, "config")

\* cmd.Start refuses a context that is already done; the binary may be missing.
StartRestic(o) ==
    \/ /\ pc[o] = "start"
       /\ cancelReq[o] # "fired"
       /\ restic' = [restic EXCEPT ![o] = "running"]
       /\ pc' = [pc EXCEPT ![o] = "restic"]
       /\ UNCHANGED <<db, up, job, result, holder, cancels, cancelReq,
                      notified, lost>>
    \/ FailBefore(o, "start")

\* Broken: the exit code is looked at before the context.
ResultByExitCode(o) ==
    CASE restic[o] = "ok"                                   -> "success"
      [] restic[o] = "partial" /\ job[o].kind = BackupKind  -> "warning"
      [] OTHER                                              -> "error"

\* The status switch after cmd.Wait: a done context wins over any exit code,
\* and only a backup knows the warning of exit code 3.
ResultOf(o) ==
    IF cancelReq[o] = "fired" THEN "canceled"
    ELSE CASE restic[o] = "ok"                                  -> "success"
           [] restic[o] = "partial" /\ job[o].kind = BackupKind -> "warning"
           [] OTHER                                             -> "error"

\* Broken: the history gets a point whatever the result was.
CapturesAlways(kind, res) == kind = BackupKind \/ kind \in StatsKinds

CapturesStats(kind, res) ==
    IF kind = BackupKind THEN res \in Produced
                         ELSE res = "success" /\ kind \in StatsKinds

\* A backup writes its status first and captures stats after it;
\* a command captures stats first.
Decide(o) ==
    /\ pc[o] = "restic"
    /\ restic[o] # "running"
    /\ result' = [result EXCEPT ![o] = ResultOf(o)]
    /\ pc' = [pc EXCEPT ![o] =
                IF job[o].kind # BackupKind /\ CapturesStats(job[o].kind, ResultOf(o))
                THEN "stats" ELSE "record"]
    /\ UNCHANGED <<db, up, job, holder, cancels, cancelReq, restic, notified,
                   lost>>

\* restic stats may fail or time out, and the INSERT needs the repository's
\* row (foreign key): a missing point is only logged.
CaptureStats(o) ==
    /\ pc[o] = "stats"
    /\ \/ /\ job[o].repo \in repoRows
          /\ stats' = stats \cup {o}
       \/ UNCHANGED stats
    /\ pc' = [pc EXCEPT ![o] = IF job[o].kind = BackupKind THEN "leave" ELSE "record"]
    /\ UNCHANGED <<tables, nextOp, status, up, job, result, holder, cancels,
                   cancelReq, restic, notified, lost>>

Record(o) ==
    /\ pc[o] = "record"
    /\ SetStatus(o, result[o])
    /\ pc' = [pc EXCEPT ![o] =
                IF job[o].kind # BackupKind THEN "finish"
                ELSE IF CapturesStats(BackupKind, result[o]) THEN "stats"
                ELSE "leave"]
    /\ UNCHANGED <<tables, nextOp, stats, up, job, result, holder, cancels,
                   cancelReq, restic, notified>>

\* Broken: the notifier gets the operation as Enqueue* returned it.
NotifyEnqueued(o) == notified' = [notified EXCEPT ![o] = "queued"]

\* notifyDone hands the notifier the row as it reads it; no row, no message.
NotifyDone(o) ==
    \/ notified' = [notified EXCEPT ![o] = status[o]]
    \/ "db" \in Events /\ UNCHANGED notified

Finish(o) ==
    /\ pc[o] = "finish"
    /\ NotifyDone(o)
    /\ pc' = [pc EXCEPT ![o] = "leave"]
    /\ UNCHANGED <<db, up, job, result, holder, cancels, cancelReq, restic, lost>>

\* Broken: the cancel function stays in the table.
LeaveRegistered(o) ==
    /\ pc[o] = "leave"
    /\ pc' = [pc EXCEPT ![o] = "unlock"]
    /\ UNCHANGED <<db, up, job, result, holder, cancels, cancelReq, restic,
                   notified, lost>>

Leave(o) ==
    /\ pc[o] = "leave"
    /\ cancels' = cancels \ {o}
    /\ pc' = [pc EXCEPT ![o] = "unlock"]
    /\ UNCHANGED <<db, up, job, result, holder, cancelReq, restic, notified,
                   lost>>

\* Broken: a path that returns without unlocking.
KeepLock(o) ==
    /\ pc[o] = "unlock"
    /\ pc' = [pc EXCEPT ![o] = IF job[o].kind = BackupKind THEN "report" ELSE "done"]
    /\ UNCHANGED <<db, up, job, result, holder, cancels, cancelReq, restic,
                   notified, lost>>

Unlock(o) ==
    /\ pc[o] = "unlock"
    /\ holder' = [holder EXCEPT ![job[o].repo] = NoOp]
    /\ pc' = [pc EXCEPT ![o] = IF job[o].kind = BackupKind THEN "report" ELSE "done"]
    /\ UNCHANGED <<db, up, job, result, cancels, cancelReq, restic, notified,
                   lost>>

\* Broken: the retention is chained whatever the result was.
ReportAndChain(o) ==
    /\ pc[o] = "report"
    /\ NotifyDone(o)
    /\ pc' = [pc EXCEPT ![o] = IF job[o].keep THEN "chain" ELSE "done"]
    /\ UNCHANGED <<db, up, job, result, holder, cancels, cancelReq, restic, lost>>

\* The retention test is on the plan as it was when the backup was enqueued.
Report(o) ==
    /\ pc[o] = "report"
    /\ NotifyDone(o)
    /\ pc' = [pc EXCEPT ![o] =
                IF result[o] \in Produced /\ job[o].keep THEN "chain" ELSE "done"]
    /\ UNCHANGED <<db, up, job, result, holder, cancels, cancelReq, restic, lost>>

\* EnqueueForget reads the plan again: the retention goes to the repository
\* the plan has now, and is only logged as an error when there is none.
Chain(o) ==
    LET p == job[o].plan
    IN  /\ pc[o] = "chain"
        /\ \/ /\ Forgettable(p)
              /\ Insert("retention", planRows[p].repo, p, FALSE, o)
              /\ pc' = [pc EXCEPT ![o] = "done", ![nextOp] = "inserted"]
           \/ /\ ~Forgettable(p) \/ "db" \in Events
              /\ pc' = [pc EXCEPT ![o] = "done"]
              /\ UNCHANGED <<nextOp, status, job>>
        /\ UNCHANGED <<tables, stats, up, result, holder, cancels, cancelReq,
                       restic, notified, lost>>

-----------------------------------------------------------------------------
(* restic, users, and the process itself.                                  *)

\* The child process ends by itself.
ResticExit(o) ==
    /\ restic[o] = "running"
    /\ \E s \in {"ok", "partial", "failed"} : restic' = [restic EXCEPT ![o] = s]
    /\ UNCHANGED <<db, up, memory, notified, lost>>

\* Broken: restic is started without the operation's context.
ResticNotKilled(o) ==
    /\ restic[o] = "running"
    /\ cancelReq[o] = "fired" /\ FALSE
    /\ UNCHANGED vars

\* exec.CommandContext kills the child of a context that is done.
ResticKilled(o) ==
    /\ restic[o] = "running"
    /\ cancelReq[o] = "fired"
    /\ restic' = [restic EXCEPT ![o] = "killed"]
    /\ UNCHANGED <<db, up, memory, notified, lost>>

\* Cancel looks the function up under mu, and calls it after mu is released.
\* An operation that is not in the table is answered with 409.
CancelFind(o) ==
    /\ up
    /\ "cancel" \in Events
    /\ o \in cancels
    /\ cancelReq[o] = "none"
    /\ cancelReq' = [cancelReq EXCEPT ![o] = "found"]
    /\ UNCHANGED <<db, up, pc, job, result, holder, cancels, restic, notified,
                   lost>>

CancelFire(o) ==
    /\ cancelReq[o] = "found"
    /\ cancelReq' = [cancelReq EXCEPT ![o] = "fired"]
    /\ UNCHANGED <<db, up, pc, job, result, holder, cancels, restic, notified,
                   lost>>

UpdatePlan(p, r, keep) ==
    /\ up
    /\ "edit" \in Events
    /\ planRows[p] # DeletedPlan
    /\ r \in repoRows
    /\ planRows' = [planRows EXCEPT ![p] = [repo |-> r, keep |-> keep]]
    /\ UNCHANGED <<repoRows, nextOp, status, stats, up, memory, restic,
                   notified, lost>>

DeletePlan(p) ==
    /\ up
    /\ "edit" \in Events
    /\ planRows[p] # DeletedPlan
    /\ planRows' = [planRows EXCEPT ![p] = DeletedPlan]
    /\ UNCHANGED <<repoRows, nextOp, status, stats, up, memory, restic,
                   notified, lost>>

\* ON DELETE CASCADE takes the repository's plans and stats history along.
DeleteRepo(r) ==
    /\ up
    /\ "edit" \in Events
    /\ r \in repoRows
    /\ repoRows' = repoRows \ {r}
    /\ planRows' = [p \in Plans |->
                      IF planRows[p].repo = r THEN DeletedPlan ELSE planRows[p]]
    /\ stats' = {o \in stats : job[o].repo # r}
    /\ UNCHANGED <<nextOp, status, up, memory, restic, notified, lost>>

\* The process ends (a crash, or main returning while goroutines run) and its
\* children with it, as they do when a container stops. job and
\* restic of the dead goroutines stay as history.
Crash ==
    /\ up
    /\ "crash" \in Events
    /\ up' = FALSE
    /\ pc' = [o \in OpId |-> "none"]
    /\ holder' = [r \in Repos |-> NoOp]
    /\ cancels' = {}
    /\ result' = [o \in OpId |-> "none"]
    /\ cancelReq' = [o \in OpId |-> "none"]
    /\ restic' = [o \in OpId |-> IF restic[o] = "running" THEN "killed" ELSE restic[o]]
    /\ UNCHANGED <<db, job, notified, lost>>

\* Broken: rows that were still queued are not resumed.
RestartForRunning ==
    /\ ~up
    /\ up' = TRUE
    /\ status' = [o \in OpId |-> IF status[o] = "running" THEN "error" ELSE status[o]]
    /\ UNCHANGED <<tables, nextOp, stats, memory, restic, notified, lost>>

\* Broken: the UPDATE has lost its WHERE clause.
RestartForAll ==
    /\ ~up
    /\ up' = TRUE
    /\ status' = [o \in OpId |-> IF status[o] = "absent" THEN "absent" ELSE "error"]
    /\ UNCHANGED <<tables, nextOp, stats, memory, restic, notified, lost>>

\* Server.Start runs ResumeInterrupted before anything can be enqueued.
Restart ==
    /\ ~up
    /\ up' = TRUE
    /\ status' = [o \in OpId |-> IF status[o] \in Live THEN "error" ELSE status[o]]
    /\ UNCHANGED <<tables, nextOp, stats, memory, restic, notified, lost>>

-----------------------------------------------------------------------------
Enqueue ==
    \/ \E p \in Plans : EnqueueBackup(p) \/ EnqueueForget(p)
    \/ \E r \in Repos, kind \in Kinds : EnqueueCommand(kind, r)
    \/ \E src, dest \in Repos : EnqueueCopy(src, dest)

\* The steps an operation's goroutine takes once it holds the mutex, and after.
Work(o) ==
    \/ Register(o) \/ SetRunning(o) \/ BuildConfig(o) \/ StartRestic(o)
    \/ Decide(o) \/ CaptureStats(o) \/ Record(o) \/ Finish(o)
    \/ Leave(o) \/ Unlock(o) \/ Report(o) \/ Chain(o)

Edit ==
    \/ \E p \in Plans, r \in Repos, keep \in BOOLEAN : UpdatePlan(p, r, keep)
    \/ \E p \in Plans : DeletePlan(p)
    \/ \E r \in Repos : DeleteRepo(r)

Next ==
    \/ Enqueue
    \/ \E o \in OpId : Spawn(o) \/ Drop(o) \/ AcquireLock(o) \/ Work(o)
    \/ \E o \in OpId : ResticExit(o) \/ ResticKilled(o) \/ CancelFind(o) \/ CancelFire(o)
    \/ Edit
    \/ Crash
    \/ Restart

Spec == Init /\ [][Next]_vars

\* A goroutine is not starved of the mutex (Go's sync.Mutex hands it over in
\* order once a waiter has waited 1 ms); code that can run does run; a service
\* manager starts the process again. That restic ends is not assumed here.
Fairness ==
    /\ \A o \in OpId : /\ WF_vars(Spawn(o))
                       /\ SF_vars(AcquireLock(o))
                       /\ WF_vars(Work(o))
                       /\ WF_vars(ResticKilled(o))
                       /\ WF_vars(CancelFire(o))
    /\ WF_vars(Restart)

FairSpec == Spec /\ Fairness

-----------------------------------------------------------------------------
(* What the runner promises.                                               *)

\* The operation's goroutine is the one that holds its repository's mutex.
HasLock(o) == job[o].repo \in Repos /\ holder[job[o].repo] = o

\* The goroutine is between lock.Lock() and the end of lock.Unlock().
Inside == {"register", "begin", "config", "start", "restic", "stats",
           "record", "finish", "leave", "unlock"}

\* Why the mutexes work: who is inside holds its repository's mutex, exactly
\* those between the two updates of Runner.cancels are in it, and a restic
\* runs only for an operation that waits for it.
LockInv ==
    /\ \A o \in OpId : pc[o] \in Inside => HasLock(o)
    /\ \A o \in OpId : o \in cancels <=> pc[o] \in Inside \ {"register", "unlock"}
    /\ \A o \in OpId : restic[o] = "running" => pc[o] = "restic"

\* What a goroutine works with: an id that the database has not given out is
\* nobody's, an operation has a repository, a backup has a plan, only a backup
\* reports and chains, and what is recorded has been decided before.
JobInv ==
    /\ \A o \in OpId : o >= nextOp => pc[o] = "none" /\ restic[o] = "unborn"
    /\ \A o \in OpId : pc[o] # "none" => job[o].repo \in Repos
    /\ \A o \in OpId : job[o].kind = BackupKind => job[o].plan \in Plans
    /\ \A o \in OpId : pc[o] \in {"report", "chain"} => job[o].kind = BackupKind
    /\ \A o \in OpId : pc[o] \in {"stats", "record"} => result[o] \in Terminal

\* Two restic processes of two operations never work on the same repository
\* at once ("one at a time per repository").
OneResticPerRepo ==
    \A o, n \in OpId :
        restic[o] = "running" /\ restic[n] = "running" /\ job[o].repo = job[n].repo
        => o = n

\* A row says "running" only while its goroutine holds the repository's mutex,
\* so the history never shows two running operations of one repository; the
\* exception is a row whose terminal UPDATE was refused.
RunningRowHoldsLock ==
    up => \A o \in OpId :
            status[o] = "running" /\ o \notin lost => HasLock(o)

\* While the server runs, a queued or running row has code that will still
\* finish it: no early return, restart or cancel forgets a row, but for rows
\* whose Enqueue* failed after the insert and rows with a refused UPDATE.
LiveRowsAreServed ==
    up => \A o \in OpId :
            status[o] \in Live /\ o \notin lost => pc[o] \notin {"none", "done"}

\* Cancel can only reach the operation that holds its repository's mutex, and
\* it can reach every operation whose restic runs.
CancelReachesRunning ==
    /\ \A o \in cancels : HasLock(o)
    /\ \A o \in OpId : restic[o] = "running" => o \in cancels

\* The status agrees with what restic did: success only after exit code 0,
\* warning only after a backup's exit code 3, canceled only after a cancel,
\* and a killed restic is never anything but canceled, unless the whole
\* process died with it.
StatusTellsOutcome ==
    \A o \in OpId :
        /\ status[o] = "success" => restic[o] = "ok"
        /\ status[o] = "warning" => restic[o] = "partial" /\ job[o].kind = BackupKind
        /\ status[o] = "canceled" /\ pc[o] # "none" => cancelReq[o] = "fired"
        /\ status[o] \in Terminal /\ restic[o] = "killed" /\ pc[o] # "none"
           => status[o] = "canceled"

\* NotifyOp is told the final status: whatever it was handed is what the row
\* says ever after, and it is handed a live status only when the terminal
\* UPDATE was refused (such a message is never sent).
NotifiedOfFinalStatus ==
    \A o \in OpId :
        /\ notified[o] \in Terminal => status[o] = notified[o]
        /\ notified[o] \in Live => o \in lost

\* A chained retention belongs to one backup that had a policy, saved a
\* snapshot and released its repository's mutex before, and no backup chains
\* two ("once the backup releases the repo lock").
RetentionFollowsBackup ==
    \A c \in OpId : job[c].parent # NoOp =>
        LET o == job[c].parent
        IN  /\ job[o].kind = BackupKind /\ job[o].keep
            /\ restic[o] \in {"ok", "partial"}
            /\ ~HasLock(o)
            /\ \A d \in OpId \ {c} : job[d].parent # o

\* Conversely, who holds a mutex is inside, and it is its repository's.
HolderInv ==
    \A r \in Repos : holder[r] # NoOp =>
        pc[holder[r]] \in Inside /\ job[holder[r]].repo = r

\* Where the code of an operation stands, seen from its row: no status has been
\* written yet, the running one has been, or the terminal one has been.
Before == {"inserted", "dropped", "lock", "register", "begin"}

AtWork(o) ==
    \/ pc[o] \in {"config", "start", "restic", "record"}
    \/ pc[o] = "stats" /\ job[o].kind # BackupKind

Recorded(o) ==
    \/ pc[o] \in {"finish", "leave", "unlock", "report", "chain", "done"}
    \/ pc[o] = "stats" /\ job[o].kind = BackupKind

\* What the row of an operation says follows from where its code stands, but
\* for the writes that were refused; once there is no code, and the server has
\* started again, it is final.
RowInv ==
    /\ \A o \in OpId : status[o] = "absent" <=> o >= nextOp
    /\ \A o \in OpId : pc[o] \in Before => status[o] = "queued"
    /\ \A o \in OpId : AtWork(o) =>
            status[o] = "running" \/ (o \in lost /\ status[o] = "queued")
    /\ \A o \in OpId : Recorded(o) =>
            /\ result[o] \in Terminal
            /\ status[o] = result[o] \/ (o \in lost /\ status[o] \in Live)
    /\ \A o \in OpId : pc[o] = "none" /\ up => status[o] \notin Live
    /\ \A o \in OpId : ~up => pc[o] = "none"
    /\ "db" \notin Events => lost = {}

\* What was decided follows from what restic did and from the cancel; only what
\* produced data is measured, and only a backup with a policy goes on to chain.
OutcomeInv ==
    /\ \A o \in OpId : pc[o] \in Before \cup {"config", "start"} => restic[o] = "unborn"
    /\ \A o \in OpId : restic[o] = "killed" /\ pc[o] # "none" => cancelReq[o] = "fired"
    /\ \A o \in OpId : pc[o] \in {"stats", "record"} \/ Recorded(o) =>
            /\ result[o] = "success" => restic[o] = "ok"
            /\ result[o] = "warning" => restic[o] = "partial" /\ job[o].kind = BackupKind
            /\ result[o] = "canceled" => cancelReq[o] = "fired"
            /\ restic[o] = "killed" => result[o] = "canceled"
    /\ \A o \in OpId : pc[o] \in {"stats", "chain"} => result[o] \in Produced
    /\ \A o \in OpId : pc[o] = "chain" => job[o].keep

\* The backup of a chained retention has ended, and chained nothing else.
ParentInv ==
    /\ \A c \in OpId : c >= nextOp => job[c] = NoJob
    /\ \A c, o \in OpId : job[c].parent = o =>
            /\ job[o].kind = BackupKind /\ job[o].keep
            /\ restic[o] \in {"ok", "partial"}
            /\ pc[o] \in {"none", "done"}
            /\ \A d \in OpId : job[d].parent = o => d = c

\* Who holds what, and what everybody works with.
MutexInv == LockInv /\ JobInv

\* What the tables and the notifier have been told.
HistoryInv ==
    HolderInv /\ RowInv /\ OutcomeInv /\ StatusTellsOutcome /\ NotifiedOfFinalStatus /\ ParentInv

\* Together with TypeOK this is inductive.
RunnerInv == MutexInv /\ HistoryInv

\* A status only moves forward, queued, running, terminal; a terminal status
\* is final, across a restart too.
StatusMovesForward ==
    [][\A o \in OpId :
         /\ status[o] \in Terminal => status'[o] = status[o]
         /\ status[o] = "running" => status'[o] # "queued"
         /\ status[o] # "absent" => status'[o] # "absent"]_vars

\* A point of the size history is taken by an operation that saved or removed
\* data, while it still keeps every other operation off the repository: the
\* point is about the state that operation left.
StatsAreOwn ==
    [][\A o \in stats' \ stats :
         /\ restic[o] \in {"ok", "partial"}
         /\ HasLock(o)
         /\ \A n \in OpId : job[n].repo = job[o].repo => restic[n] # "running"]_vars

\* restic ends by itself sooner or later (a property of the environment).
ResticEnds == \A o \in OpId : WF_vars(ResticExit(o))

\* Every operation whose goroutine was started ends with a terminal status,
\* by itself or by a restart, whatever the others do to their repositories.
StartedOperationsEnd ==
    ResticEnds => \A o \in OpId : pc[o] = "lock" ~> status[o] \in Terminal

\* A canceled operation gives its repository back even when its restic hangs.
CancelFreesRepository ==
    \A o \in OpId :
        cancelReq[o] = "fired" /\ restic[o] = "running"
        ~> ~HasLock(o)

\* The history the runner keeps is one of a serial queue per repository, as
\* SerialOps tells it ("executes operations, one at a time per repository"),
\* as long as SQLite accepts the status writes.
Serial == INSTANCE SerialOps WITH
            Ids <- OpId, state <- status, repoOf <- [o \in OpId |-> job[o].repo]

ImplementsSerialOps == Serial!SSpec

-----------------------------------------------------------------------------
(* What comments, tests and the README say and the code does not keep.     *)

\* "creates a queued backup operation for a plan and starts it in the
\* background": a queued row is started (runner.go:103).
QueuedIsStarted ==
    \A o \in OpId : status[o] = "queued" ~> status[o] # "queued"

\* TestStatsHistoryCapture counts history rows as soon as the status is
\* terminal: nothing is still to be captured then (runner_test.go:258).
StatsBeforeTerminalStatus ==
    \A o \in OpId : status[o] \in Terminal => pc[o] # "stats"

\* "Chain retention after a snapshot-producing run": a backup whose restic
\* ended with exit code 0 gets as far as the retention test with a status
\* that passes it (runner.go:128).
SnapshotIsFollowedByRetention ==
    \A o \in OpId :
        /\ job[o].kind = BackupKind
        /\ pc[o] \in {"report", "chain", "done"}
        /\ restic[o] = "ok"
        => result[o] \in Produced
=============================================================================
