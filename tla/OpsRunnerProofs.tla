--------------------------- MODULE OpsRunnerProofs ---------------------------
(***************************************************************************)
(* Theorems about OpsRunner, for every set of repositories and plans, every*)
(* number of operations and every choice of Kinds and Events.              *)
(***************************************************************************)
EXTENDS OpsRunner, TLAPS

\* An INSERT keeps the types of the columns and values it sets.
LEMMA InsertType ==
    ASSUME TypeOK,
           NEW kind \in CommandKinds \cup {BackupKind}, NEW r \in Repos,
           NEW p \in Plans \cup {NoPlan}, NEW keep \in BOOLEAN,
           NEW parent \in OpId \cup {NoOp},
           Insert(kind, r, p, keep, parent)
    PROVE  /\ nextOp \in OpId
           /\ nextOp' \in 1..(MaxOps + 1)
           /\ status' \in [OpId -> Status]
           /\ job' \in [OpId -> Job]
           /\ nextOp' = nextOp + 1
           /\ \A n \in OpId \ {nextOp} : job'[n] = job[n]
           /\ job'[nextOp].repo = r /\ job'[nextOp].kind = kind /\ job'[nextOp].plan = p
<1>1. nextOp \in OpId /\ nextOp' \in 1..(MaxOps + 1)
    BY ConstantsAssumption DEF TypeOK, Insert, OpId
<1>2. status' \in [OpId -> Status]
    BY <1>1 DEF TypeOK, Insert, Status, Live
<1>3. [kind |-> kind, repo |-> r, plan |-> p, keep |-> keep, parent |-> parent] \in Job
    BY DEF Job
<1>4. job' \in [OpId -> Job]
    BY <1>1, <1>3 DEF TypeOK, Insert
<1>5. /\ nextOp' = nextOp + 1
      /\ \A n \in OpId \ {nextOp} : job'[n] = job[n]
      /\ job'[nextOp].repo = r /\ job'[nextOp].kind = kind /\ job'[nextOp].plan = p
    BY <1>1 DEF TypeOK, Insert
<1>. QED
    BY <1>1, <1>2, <1>4, <1>5

\* A step of the enqueueing code keeps TypeOK.
LEMMA EnqueueType ==
    ASSUME TypeOK, Enqueue
    PROVE  TypeOK'
<1>1. ASSUME NEW p \in Plans, EnqueueBackup(p)
      PROVE  TypeOK'
    <2>1. planRows[p].repo \in Repos /\ planRows[p].keep \in BOOLEAN
        BY <1>1 DEF TypeOK, EnqueueBackup, PlanRow, DeletedPlan
    <2>2. nextOp \in OpId /\ nextOp' \in 1..(MaxOps + 1)
          /\ status' \in [OpId -> Status] /\ job' \in [OpId -> Job]
        BY <1>1, <2>1, InsertType DEF EnqueueBackup
    <2>. QED
        BY <1>1, <2>2 DEF TypeOK, EnqueueBackup, tables, PC
<1>2. ASSUME NEW p \in Plans, EnqueueForget(p)
      PROVE  TypeOK'
    <2>1. planRows[p].repo \in Repos
        BY <1>2 DEF TypeOK, EnqueueForget, Forgettable, PlanRow, DeletedPlan
    <2>2. nextOp \in OpId /\ nextOp' \in 1..(MaxOps + 1)
          /\ status' \in [OpId -> Status] /\ job' \in [OpId -> Job]
        BY <1>2, <2>1, InsertType DEF EnqueueForget, CommandKinds
    <2>. QED
        BY <1>2, <2>2 DEF TypeOK, EnqueueForget, tables, PC
<1>3. ASSUME NEW r \in Repos, NEW kind \in Kinds, EnqueueCommand(kind, r)
      PROVE  TypeOK'
    <2>1. nextOp \in OpId /\ nextOp' \in 1..(MaxOps + 1)
          /\ status' \in [OpId -> Status] /\ job' \in [OpId -> Job]
        BY <1>3, InsertType DEF EnqueueCommand, CommandKinds
    <2>. QED
        BY <1>3, <2>1 DEF TypeOK, EnqueueCommand, tables, PC
<1>4. ASSUME NEW src \in Repos, NEW dest \in Repos, EnqueueCopy(src, dest)
      PROVE  TypeOK'
    <2>1. nextOp \in OpId /\ nextOp' \in 1..(MaxOps + 1)
          /\ status' \in [OpId -> Status] /\ job' \in [OpId -> Job]
        BY <1>4, InsertType DEF EnqueueCopy, CommandKinds
    <2>. QED
        BY <1>4, <2>1 DEF TypeOK, EnqueueCopy, tables, PC
<1>. QED
    BY <1>1, <1>2, <1>3, <1>4 DEF Enqueue

\* A step of a goroutine that has been given the mutex keeps TypeOK.
LEMMA WorkType ==
    ASSUME TypeOK, JobInv, NEW o \in OpId, Work(o)
    PROVE  TypeOK'
<1>1. Register(o) => TypeOK'
    BY DEF TypeOK, Register, db, tables, memory, PC
<1>2. SetRunning(o) => TypeOK'
    BY DEF TypeOK, SetRunning, db, tables, memory, PC, SetStatus, Status, Live
<1>3. BuildConfig(o) => TypeOK'
    BY DEF TypeOK, BuildConfig, db, tables, memory, PC, FailBefore, Terminal
<1>4. StartRestic(o) => TypeOK'
    BY DEF TypeOK, StartRestic, db, tables, memory, PC, FailBefore, Terminal, ProcState
<1>5. Decide(o) => TypeOK'
    BY DEF TypeOK, Decide, db, tables, memory, PC, ResultOf, Terminal
<1>6. CaptureStats(o) => TypeOK'
    BY DEF TypeOK, CaptureStats, db, tables, memory, PC
<1>7. Record(o) => TypeOK'
    BY DEF TypeOK, JobInv, Record, db, tables, memory, PC, SetStatus, Status, Live, Terminal
<1>8. Finish(o) => TypeOK'
    BY DEF TypeOK, Finish, db, tables, memory, PC, NotifyDone
<1>9. Leave(o) => TypeOK'
    BY DEF TypeOK, Leave, db, tables, memory, PC
<1>10. Unlock(o) => TypeOK'
    BY DEF TypeOK, Unlock, db, tables, memory, PC, Job, NoOp
<1>11. Report(o) => TypeOK'
    BY DEF TypeOK, Report, db, tables, memory, PC, NotifyDone
<1>12. ASSUME Chain(o)
      PROVE  TypeOK'
    <2>1. CASE /\ Forgettable(job[o].plan)
               /\ Insert("retention", planRows[job[o].plan].repo, job[o].plan, FALSE, o)
               /\ pc' = [pc EXCEPT ![o] = "done", ![nextOp] = "inserted"]
        <3>1. job[o].plan \in Plans
            BY <1>12 DEF JobInv, Chain
        <3>2. planRows[job[o].plan].repo \in Repos
            BY <2>1, <3>1 DEF TypeOK, Forgettable, PlanRow, DeletedPlan
        <3>3. nextOp \in OpId /\ nextOp' \in 1..(MaxOps + 1)
              /\ status' \in [OpId -> Status] /\ job' \in [OpId -> Job]
            BY <2>1, <3>1, <3>2, InsertType DEF CommandKinds
        <3>. QED
            BY <1>12, <2>1, <3>3 DEF TypeOK, Chain, tables, PC
    <2>2. CASE UNCHANGED <<nextOp, status, job>>
        BY <1>12, <2>2 DEF TypeOK, Chain, tables, PC
    <2>. QED
        BY <1>12, <2>1, <2>2 DEF Chain
<1>. QED
    BY <1>1, <1>2, <1>3, <1>4, <1>5, <1>6, <1>7, <1>8, <1>9, <1>10, <1>11, <1>12 DEF Work

\* restic, users, the process itself.
LEMMA OutsideType ==
    ASSUME TypeOK
    PROVE  /\ \A o \in OpId : Spawn(o) \/ Drop(o) \/ AcquireLock(o) => TypeOK'
           /\ \A o \in OpId : ResticExit(o) \/ ResticKilled(o) => TypeOK'
           /\ \A o \in OpId : CancelFind(o) \/ CancelFire(o) => TypeOK'
           /\ Edit => TypeOK'
           /\ Crash \/ Restart => TypeOK'
<1>1. ASSUME NEW o \in OpId, Spawn(o) \/ Drop(o) \/ AcquireLock(o)
      PROVE  TypeOK'
    BY <1>1 DEF TypeOK, Spawn, Drop, AcquireLock, db, PC
<1>2. ASSUME NEW o \in OpId, ResticExit(o) \/ ResticKilled(o)
      PROVE  TypeOK'
    BY <1>2 DEF TypeOK, ResticExit, ResticKilled, db, memory, ProcState
<1>3. ASSUME NEW o \in OpId, CancelFind(o) \/ CancelFire(o)
      PROVE  TypeOK'
    BY <1>3 DEF TypeOK, CancelFind, CancelFire, db
<1>4. ASSUME NEW p \in Plans, NEW r \in Repos, NEW keep \in BOOLEAN, UpdatePlan(p, r, keep)
      PROVE  TypeOK'
    BY <1>4 DEF TypeOK, UpdatePlan, memory, PlanRow
<1>5. ASSUME NEW p \in Plans, DeletePlan(p)
      PROVE  TypeOK'
    BY <1>5 DEF TypeOK, DeletePlan, memory
<1>6. ASSUME NEW r \in Repos, DeleteRepo(r)
      PROVE  TypeOK'
    BY <1>6 DEF TypeOK, DeleteRepo, memory
<1>7. Crash => TypeOK'
    <2>. SUFFICES ASSUME Crash
                  PROVE  TypeOK'
        OBVIOUS
    <2>1. restic' \in [OpId -> ProcState]
        BY DEF TypeOK, Crash, ProcState
    <2>. QED
        BY <2>1 DEF TypeOK, Crash, db, PC, NoOp
<1>8. Restart => TypeOK'
    BY DEF TypeOK, Restart, tables, memory, Status, Terminal
<1>. QED
    BY <1>1, <1>2, <1>3, <1>4, <1>5, <1>6, <1>7, <1>8 DEF Edit

\* The next id has gone to an operation that knows its repository and, if it
\* is a backup, its plan.
Inserted ==
    /\ nextOp \in OpId /\ nextOp' = nextOp + 1
    /\ \A n \in OpId \ {nextOp} : job'[n] = job[n]
    /\ job'[nextOp].repo \in Repos
    /\ job'[nextOp].kind = BackupKind => job'[nextOp].plan \in Plans

\* An INSERT gives the next id to a row whose goroutine is not inside; the
\* only other goroutine that moves is the one that chains.
LEMMA InsertInv ==
    ASSUME TypeOK, MutexInv,
           Inserted,
           pc'[nextOp] = "inserted",
           \A n \in OpId \ {nextOp} :
               pc'[n] = pc[n] \/ (pc[n] = "chain" /\ pc'[n] = "done"),
           holder' = holder, cancels' = cancels, restic' = restic, result' = result
    PROVE  MutexInv'
<1>. USE DEF Inserted
<1>1. pc[nextOp] = "none" /\ restic[nextOp] = "unborn"
    BY ConstantsAssumption DEF MutexInv, JobInv, TypeOK, OpId
<1>2. \A n \in OpId \ {nextOp} : job'[n] = job[n]
    OBVIOUS
<1>3. LockInv'
    <2>1. \A n \in OpId : pc'[n] \in Inside => pc'[n] = pc[n] /\ job'[n] = job[n]
        BY <1>1, <1>2 DEF Inside
    <2>2. \A n \in OpId : pc[n] \in Inside => pc'[n] = pc[n]
        BY <1>1, <1>2 DEF Inside
    <2>3. \A n \in OpId : pc'[n] \in Inside => HasLock(n)'
        BY <2>1 DEF MutexInv, LockInv, HasLock
    <2>4. \A n \in OpId : n \in cancels' <=> pc'[n] \in Inside \ {"register", "unlock"}
        BY <2>1, <2>2 DEF MutexInv, LockInv
    <2>5. \A n \in OpId : restic'[n] = "running" => pc'[n] = "restic"
        BY <2>2 DEF MutexInv, LockInv, Inside
    <2>. QED
        BY <2>3, <2>4, <2>5 DEF LockInv
<1>4. JobInv'
    <2>1. \A n \in OpId : n >= nextOp' => pc'[n] = "none" /\ restic'[n] = "unborn"
        BY <1>1, <1>2 DEF MutexInv, JobInv, OpId, TypeOK
    <2>2. \A n \in OpId : pc'[n] # "none" => job'[n].repo \in Repos
        BY <1>1, <1>2 DEF MutexInv, JobInv
    <2>3. \A n \in OpId : job'[n].kind = BackupKind => job'[n].plan \in Plans
        BY <1>1, <1>2 DEF MutexInv, JobInv
    <2>4. \A n \in OpId : pc'[n] \in {"report", "chain"} => job'[n].kind = BackupKind
        BY <1>1, <1>2 DEF MutexInv, JobInv
    <2>5. \A n \in OpId : pc'[n] \in {"stats", "record"} => result'[n] \in Terminal
        BY <1>1, <1>2 DEF MutexInv, JobInv
    <2>. QED
        BY <2>1, <2>2, <2>3, <2>4, <2>5 DEF JobInv
<1>. QED
    BY <1>3, <1>4 DEF MutexInv

\* A step of a goroutine that has been given the mutex keeps the mutexes right.
LEMMA WorkInv ==
    ASSUME TypeOK, MutexInv, NEW o \in OpId, Work(o)
    PROVE  MutexInv'
<1>. USE DEF MutexInv
<1>1. ASSUME Register(o)
      PROVE  MutexInv'
    <2>1. LockInv'
        BY <1>1 DEF TypeOK, LockInv, HasLock, Inside, Register
    <2>2. JobInv'
        BY <1>1 DEF TypeOK, JobInv, Register, db, tables
    <2>. QED
        BY <2>1, <2>2 DEF MutexInv
<1>2. ASSUME SetRunning(o)
      PROVE  MutexInv'
    <2>1. LockInv'
        BY <1>2 DEF TypeOK, LockInv, HasLock, Inside, SetRunning
    <2>2. JobInv'
        BY <1>2 DEF TypeOK, JobInv, SetRunning, db, tables
    <2>. QED
        BY <2>1, <2>2 DEF MutexInv
<1>3. ASSUME BuildConfig(o)
      PROVE  MutexInv'
    <2>1. LockInv'
        BY <1>3 DEF TypeOK, LockInv, HasLock, Inside, BuildConfig, FailBefore
    <2>2. JobInv'
        BY <1>3 DEF TypeOK, JobInv, BuildConfig, db, tables, FailBefore, Terminal
    <2>. QED
        BY <2>1, <2>2 DEF MutexInv
<1>4. ASSUME StartRestic(o)
      PROVE  MutexInv'
    <2>1. LockInv'
        BY <1>4 DEF TypeOK, LockInv, HasLock, Inside, StartRestic, FailBefore
    <2>2. JobInv'
        BY <1>4 DEF TypeOK, JobInv, StartRestic, db, tables, FailBefore, Terminal
    <2>. QED
        BY <2>1, <2>2 DEF MutexInv
<1>5. ASSUME Decide(o)
      PROVE  MutexInv'
    <2>1. LockInv'
        BY <1>5 DEF TypeOK, LockInv, HasLock, Inside, Decide
    <2>2. JobInv'
        BY <1>5 DEF TypeOK, JobInv, Decide, db, tables, ResultOf, Terminal
    <2>. QED
        BY <2>1, <2>2 DEF MutexInv
<1>6. ASSUME CaptureStats(o)
      PROVE  MutexInv'
    <2>1. LockInv'
        BY <1>6 DEF TypeOK, LockInv, HasLock, Inside, CaptureStats
    <2>2. JobInv'
        BY <1>6 DEF TypeOK, JobInv, CaptureStats, db, tables, CapturesStats
    <2>. QED
        BY <2>1, <2>2 DEF MutexInv
<1>7. ASSUME Record(o)
      PROVE  MutexInv'
    <2>1. LockInv'
        BY <1>7 DEF TypeOK, LockInv, HasLock, Inside, Record, CapturesStats
    <2>2. JobInv'
        BY <1>7 DEF TypeOK, JobInv, Record, db, tables, CapturesStats, Produced
    <2>. QED
        BY <2>1, <2>2 DEF MutexInv
<1>8. ASSUME Finish(o)
      PROVE  MutexInv'
    <2>1. LockInv'
        BY <1>8 DEF TypeOK, LockInv, HasLock, Inside, Finish
    <2>2. JobInv'
        BY <1>8 DEF TypeOK, JobInv, Finish, db, tables
    <2>. QED
        BY <2>1, <2>2 DEF MutexInv
<1>9. ASSUME Leave(o)
      PROVE  MutexInv'
    <2>1. LockInv'
        BY <1>9 DEF TypeOK, LockInv, HasLock, Inside, Leave
    <2>2. JobInv'
        BY <1>9 DEF TypeOK, JobInv, Leave, db, tables
    <2>. QED
        BY <2>1, <2>2 DEF MutexInv
<1>10. ASSUME Unlock(o)
      PROVE  MutexInv'
    <2>1. LockInv'
        BY <1>10 DEF TypeOK, LockInv, HasLock, Inside, Unlock
    <2>2. JobInv'
        BY <1>10 DEF TypeOK, JobInv, Unlock, db, tables
    <2>. QED
        BY <2>1, <2>2 DEF MutexInv
<1>11. ASSUME Report(o)
      PROVE  MutexInv'
    <2>1. LockInv'
        BY <1>11 DEF TypeOK, LockInv, HasLock, Inside, Report
    <2>2. JobInv'
        BY <1>11 DEF TypeOK, JobInv, Report, db, tables
    <2>. QED
        BY <2>1, <2>2 DEF MutexInv
<1>12. ASSUME Chain(o)
      PROVE  MutexInv'
    <2>1. CASE pc' = [pc EXCEPT ![o] = "done"] /\ UNCHANGED <<nextOp, status, job>>
        BY <1>12, <2>1 DEF TypeOK, LockInv, JobInv, HasLock, Inside, Chain, tables
    <2>2. CASE /\ Forgettable(job[o].plan)
               /\ Insert("retention", planRows[job[o].plan].repo, job[o].plan, FALSE, o)
               /\ pc' = [pc EXCEPT ![o] = "done", ![nextOp] = "inserted"]
        <3>1. job[o].plan \in Plans
            BY <1>12 DEF JobInv, Chain
        <3>2. planRows[job[o].plan].repo \in Repos
            BY <2>2, <3>1 DEF TypeOK, Forgettable, PlanRow, DeletedPlan
        <3>3. holder' = holder /\ cancels' = cancels /\ restic' = restic /\ result' = result
            BY <1>12 DEF Chain
        <3>4. Inserted
            BY <2>2, <3>1, <3>2, InsertType DEF CommandKinds, BackupKind, Inserted
        <3>5. /\ pc'[nextOp] = "inserted"
              /\ \A n \in OpId \ {nextOp} :
                    pc'[n] = pc[n] \/ (pc[n] = "chain" /\ pc'[n] = "done")
            BY <1>12, <2>2, <3>4 DEF TypeOK, Chain, Inserted
        <3>. QED
            BY <3>3, <3>4, <3>5, InsertInv
    <2>. QED
        BY <1>12, <2>1, <2>2 DEF Chain
<1>. QED
    BY <1>1, <1>2, <1>3, <1>4, <1>5, <1>6, <1>7, <1>8, <1>9, <1>10, <1>11, <1>12 DEF Work

\* An enqueueing step keeps the mutexes right.
LEMMA EnqueueInv ==
    ASSUME TypeOK, MutexInv, Enqueue
    PROVE  MutexInv'
<1>1. ASSUME NEW p \in Plans, EnqueueBackup(p)
      PROVE  MutexInv'
    <2>1. planRows[p].repo \in Repos /\ planRows[p].keep \in BOOLEAN
        BY <1>1 DEF TypeOK, EnqueueBackup, PlanRow, DeletedPlan
    <2>2. Inserted
        <3>1. Insert(BackupKind, planRows[p].repo, p, planRows[p].keep, NoOp)
            BY <1>1 DEF EnqueueBackup
        <3>2. /\ nextOp \in OpId /\ nextOp' = nextOp + 1
              /\ \A n \in OpId \ {nextOp} : job'[n] = job[n]
              /\ job'[nextOp].repo = planRows[p].repo /\ job'[nextOp].plan = p
            BY <2>1, <3>1, InsertType
        <3>. QED
            BY <2>1, <3>2 DEF Inserted
    <2>3. /\ pc'[nextOp] = "inserted"
          /\ \A n \in OpId \ {nextOp} :
                pc'[n] = pc[n] \/ (pc[n] = "chain" /\ pc'[n] = "done")
        BY <1>1, <2>2 DEF TypeOK, EnqueueBackup, Inserted
    <2>. QED
        BY <1>1, <2>2, <2>3, InsertInv DEF EnqueueBackup
<1>2. ASSUME NEW p \in Plans, EnqueueForget(p)
      PROVE  MutexInv'
    <2>1. planRows[p].repo \in Repos
        BY <1>2 DEF TypeOK, EnqueueForget, Forgettable, PlanRow, DeletedPlan
    <2>2. Inserted
        BY <1>2, <2>1, InsertType DEF EnqueueForget, CommandKinds, BackupKind, Inserted
    <2>3. /\ pc'[nextOp] = "inserted"
          /\ \A n \in OpId \ {nextOp} :
                pc'[n] = pc[n] \/ (pc[n] = "chain" /\ pc'[n] = "done")
        BY <1>2, <2>2 DEF TypeOK, EnqueueForget, Inserted
    <2>. QED
        BY <1>2, <2>2, <2>3, InsertInv DEF EnqueueForget
<1>3. ASSUME NEW r \in Repos, NEW kind \in Kinds, EnqueueCommand(kind, r)
      PROVE  MutexInv'
    <2>1. Inserted
        BY <1>3, InsertType DEF EnqueueCommand, CommandKinds, BackupKind, Inserted
    <2>2. /\ pc'[nextOp] = "inserted"
          /\ \A n \in OpId \ {nextOp} :
                pc'[n] = pc[n] \/ (pc[n] = "chain" /\ pc'[n] = "done")
        BY <1>3, <2>1 DEF TypeOK, EnqueueCommand, Inserted
    <2>. QED
        BY <1>3, <2>1, <2>2, InsertInv DEF EnqueueCommand
<1>4. ASSUME NEW src \in Repos, NEW dest \in Repos, EnqueueCopy(src, dest)
      PROVE  MutexInv'
    <2>1. Inserted
        BY <1>4, InsertType DEF EnqueueCopy, CommandKinds, BackupKind, Inserted
    <2>2. /\ pc'[nextOp] = "inserted"
          /\ \A n \in OpId \ {nextOp} :
                pc'[n] = pc[n] \/ (pc[n] = "chain" /\ pc'[n] = "done")
        BY <1>4, <2>1 DEF TypeOK, EnqueueCopy, Inserted
    <2>. QED
        BY <1>4, <2>1, <2>2, InsertInv DEF EnqueueCopy
<1>. QED
    BY <1>1, <1>2, <1>3, <1>4 DEF Enqueue

\* The steps of the caller, of the mutex, of restic, of users and of the
\* process keep the mutexes right.
LEMMA OutsideInv ==
    ASSUME TypeOK, MutexInv
    PROVE  /\ \A o \in OpId : Spawn(o) \/ Drop(o) \/ AcquireLock(o) => MutexInv'
           /\ \A o \in OpId : ResticExit(o) \/ ResticKilled(o) => MutexInv'
           /\ \A o \in OpId : CancelFind(o) \/ CancelFire(o) => MutexInv'
           /\ Edit => MutexInv'
           /\ Crash \/ Restart => MutexInv'
<1>. USE DEF MutexInv
<1>1. ASSUME NEW o \in OpId, Spawn(o) \/ Drop(o)
      PROVE  MutexInv'
    BY <1>1 DEF TypeOK, LockInv, JobInv, HasLock, Inside, Spawn, Drop, db
<1>2. ASSUME NEW o \in OpId, AcquireLock(o)
      PROVE  MutexInv'
    <2>1. LockInv'
        BY <1>2 DEF TypeOK, LockInv, JobInv, HasLock, Inside, AcquireLock, OpId, NoOp
    <2>2. JobInv'
        BY <1>2 DEF TypeOK, JobInv, AcquireLock, db
    <2>. QED
        BY <2>1, <2>2
<1>3. ASSUME NEW o \in OpId, ResticExit(o) \/ ResticKilled(o)
      PROVE  MutexInv'
    BY <1>3 DEF TypeOK, LockInv, JobInv, HasLock, ResticExit, ResticKilled, db, memory
<1>4. ASSUME NEW o \in OpId, CancelFind(o) \/ CancelFire(o)
      PROVE  MutexInv'
    BY <1>4 DEF LockInv, JobInv, HasLock, CancelFind, CancelFire, db
<1>5. Edit => MutexInv'
    BY DEF LockInv, JobInv, HasLock, Edit, UpdatePlan, DeletePlan, DeleteRepo, memory
<1>6. ASSUME Crash
      PROVE  MutexInv'
    BY <1>6 DEF TypeOK, LockInv, JobInv, HasLock, Inside, Crash, db
<1>7. Restart => MutexInv'
    BY DEF LockInv, JobInv, HasLock, Restart, tables, memory
<1>. QED
    BY <1>1, <1>2, <1>3, <1>4, <1>5, <1>6, <1>7

\* The first half of the inductive invariant: the types, and who holds what.
THEOREM Mutexes == Spec => [](TypeOK /\ MutexInv)
<1>1. Init => TypeOK /\ MutexInv
    <2>. SUFFICES ASSUME Init
                  PROVE  TypeOK /\ MutexInv
        OBVIOUS
    <2>1. NoJob \in Job /\ NoJob.kind # BackupKind
        BY DEF NoJob, Job, NoOp, BackupKind
    <2>2. TypeOK
        BY <2>1, ConstantsAssumption DEF Init, TypeOK, Status, ProcState, PC, NoOp
    <2>3. MutexInv
        BY <2>1 DEF Init, MutexInv, LockInv, JobInv, Inside
    <2>. QED
        BY <2>2, <2>3
<1>2. TypeOK /\ MutexInv /\ [Next]_vars => TypeOK' /\ MutexInv'
    <2>. SUFFICES ASSUME TypeOK, MutexInv, [Next]_vars
                  PROVE  TypeOK' /\ MutexInv'
        OBVIOUS
    <2>1. CASE Enqueue
        BY <2>1, EnqueueType, EnqueueInv
    <2>2. ASSUME NEW o \in OpId, Work(o)
          PROVE  TypeOK' /\ MutexInv'
        BY <2>2, WorkType, WorkInv DEF MutexInv
    <2>3. ASSUME NEW o \in OpId, Spawn(o) \/ Drop(o) \/ AcquireLock(o)
          PROVE  TypeOK' /\ MutexInv'
        BY <2>3, OutsideType, OutsideInv
    <2>4. ASSUME NEW o \in OpId,
                 ResticExit(o) \/ ResticKilled(o) \/ CancelFind(o) \/ CancelFire(o)
          PROVE  TypeOK' /\ MutexInv'
        BY <2>4, OutsideType, OutsideInv
    <2>5. CASE Edit \/ Crash \/ Restart
        BY <2>5, OutsideType, OutsideInv
    <2>6. CASE UNCHANGED vars
        BY <2>6 DEF vars, TypeOK, MutexInv, LockInv, JobInv, HasLock
    <2>. QED
        BY <2>1, <2>2, <2>3, <2>4, <2>5, <2>6 DEF Next
<1>. QED
    BY <1>1, <1>2, PTL DEF Spec

\* Every column and every variable keeps to its type.
THEOREM TypeCorrect == Spec => []TypeOK
BY Mutexes, PTL

-----------------------------------------------------------------------------
(* The second half: what the tables and the notifier have been told.        *)

\* The INSERT of a request or of a cron entry: a queued row that no backup has
\* chained.
LEMMA Enqueued ==
    ASSUME TypeOK, Enqueue
    PROVE  /\ Inserted
           /\ up
           /\ job'[nextOp].parent = NoOp
           /\ status' = [status EXCEPT ![nextOp] = "queued"]
           /\ pc' = [pc EXCEPT ![nextOp] = "inserted"]
           /\ UNCHANGED <<up, result, holder, cancelReq, restic, notified, lost>>
<1>1. ASSUME NEW kind \in CommandKinds \cup {BackupKind}, NEW r \in Repos,
             NEW p \in Plans \cup {NoPlan}, NEW keep \in BOOLEAN,
             Insert(kind, r, p, keep, NoOp),
             kind = BackupKind => p \in Plans
      PROVE  /\ Inserted
             /\ job'[nextOp].parent = NoOp
             /\ status' = [status EXCEPT ![nextOp] = "queued"]
    <2>1. Inserted
        BY <1>1, InsertType DEF Inserted, NoOp
    <2>2. job'[nextOp].parent = NoOp
        BY <1>1, <2>1 DEF TypeOK, Insert, Inserted
    <2>. QED
        BY <1>1, <2>1, <2>2 DEF Insert
<1>2. ASSUME NEW p \in Plans, planRows[p] # DeletedPlan
      PROVE  planRows[p].repo \in Repos /\ planRows[p].keep \in BOOLEAN
    BY <1>2 DEF TypeOK, PlanRow, DeletedPlan
<1>3. CASE \E p \in Plans : EnqueueBackup(p)
    BY <1>1, <1>2, <1>3 DEF EnqueueBackup
<1>4. CASE \E p \in Plans : EnqueueForget(p)
    BY <1>1, <1>2, <1>4 DEF EnqueueForget, Forgettable, CommandKinds, BackupKind
<1>5. CASE \E r \in Repos, kind \in Kinds : EnqueueCommand(kind, r)
    BY <1>1, <1>5 DEF EnqueueCommand, CommandKinds, BackupKind
<1>6. CASE \E src, dest \in Repos : EnqueueCopy(src, dest)
    BY <1>1, <1>6 DEF EnqueueCopy, CommandKinds, BackupKind
<1>. QED
    BY <1>3, <1>4, <1>5, <1>6 DEF Enqueue

\* The INSERT of a chained retention, or none.
LEMMA Chained ==
    ASSUME TypeOK, MutexInv, NEW o \in OpId, Chain(o)
    PROVE  /\ pc[o] = "chain"
           /\ UNCHANGED <<up, result, holder, cancelReq, restic, notified, lost>>
           /\ \/ /\ Inserted
                 /\ job'[nextOp].parent = o
                 /\ status' = [status EXCEPT ![nextOp] = "queued"]
                 /\ pc' = [pc EXCEPT ![o] = "done", ![nextOp] = "inserted"]
              \/ /\ pc' = [pc EXCEPT ![o] = "done"]
                 /\ UNCHANGED <<nextOp, status, job>>
<1>1. CASE /\ Forgettable(job[o].plan)
           /\ Insert("retention", planRows[job[o].plan].repo, job[o].plan, FALSE, o)
           /\ pc' = [pc EXCEPT ![o] = "done", ![nextOp] = "inserted"]
    <2>1. job[o].plan \in Plans
        BY DEF MutexInv, JobInv, Chain
    <2>2. planRows[job[o].plan].repo \in Repos
        BY <1>1, <2>1 DEF TypeOK, Forgettable, PlanRow, DeletedPlan
    <2>3. Inserted
        BY <1>1, <2>1, <2>2, InsertType DEF CommandKinds, BackupKind, Inserted
    <2>4. job'[nextOp].parent = o
        BY <1>1, <2>3 DEF TypeOK, Insert, Inserted
    <2>. QED
        BY <1>1, <2>3, <2>4 DEF Chain, Insert
<1>2. CASE UNCHANGED <<nextOp, status, job>> /\ pc' = [pc EXCEPT ![o] = "done"]
    BY <1>2 DEF Chain
<1>. QED
    BY <1>1, <1>2 DEF Chain

\* An INSERT gives the next id, of which nobody knows, to a queued row; the
\* only other code that moves is that of the backup that chains it.
LEMMA InsertHistory ==
    ASSUME TypeOK, MutexInv, HistoryInv,
           Inserted, up,
           status' = [status EXCEPT ![nextOp] = "queued"],
           pc'[nextOp] = "inserted",
           \A n \in OpId \ {nextOp} :
               pc'[n] = pc[n] \/ (n = job'[nextOp].parent /\ pc[n] = "chain" /\ pc'[n] = "done"),
           \A o \in OpId : job'[nextOp].parent = o => pc[o] = "chain" /\ (nextOp # o => pc'[o] = "done"),
           UNCHANGED <<up, result, holder, cancelReq, restic, notified, lost>>
    PROVE  HistoryInv'
<1>. USE DEF HistoryInv, MutexInv, Inserted
<1>1. /\ status[nextOp] = "absent" /\ pc[nextOp] = "none" /\ restic[nextOp] = "unborn"
      /\ status'[nextOp] = "queued"
    BY DEF TypeOK, JobInv, RowInv
<1>2. \A n \in OpId \ {nextOp} :
        job'[n] = job[n] /\ status'[n] = status[n] /\ (n >= nextOp' <=> n >= nextOp)
    BY ConstantsAssumption DEF TypeOK, OpId
<1>3. HolderInv'
    <2>. SUFFICES ASSUME NEW r \in Repos, holder[r] # NoOp
                  PROVE  pc'[holder[r]] \in Inside /\ job'[holder[r]].repo = r
        BY DEF HolderInv
    <2>1. holder[r] \in OpId \ {nextOp}
        BY <1>1 DEF TypeOK, HolderInv, Inside
    <2>. QED
        BY <1>2, <2>1 DEF HolderInv, Inside
<1>4. RowInv'
    <2>1. \A n \in OpId \ {nextOp} : AtWork(n)' => AtWork(n)
        BY <1>2 DEF AtWork
    <2>2. \A n \in OpId \ {nextOp} : Recorded(n)' => Recorded(n)
        BY <1>2 DEF Recorded
    <2>3. \A n \in OpId : n = nextOp => ~AtWork(n)' /\ ~Recorded(n)'
        BY DEF AtWork, Recorded
    <2>4. \A n \in OpId : status'[n] = "absent" <=> n >= nextOp'
        BY <1>1, <1>2, ConstantsAssumption DEF RowInv, TypeOK, OpId
    <2>5. \A n \in OpId : pc'[n] \in Before => status'[n] = "queued"
        BY <1>1, <1>2 DEF RowInv, Before
    <2>6. \A n \in OpId : AtWork(n)' =>
            status'[n] = "running" \/ (n \in lost' /\ status'[n] = "queued")
        BY <1>2, <2>1, <2>3 DEF RowInv
    <2>7. \A n \in OpId : Recorded(n)' =>
            /\ result'[n] \in Terminal
            /\ status'[n] = result'[n] \/ (n \in lost' /\ status'[n] \in Live)
        BY <1>2, <2>2, <2>3 DEF RowInv
    <2>8. \A n \in OpId : pc'[n] = "none" /\ up' => status'[n] \notin Live
        BY <1>2 DEF RowInv
    <2>. QED
        BY <2>4, <2>5, <2>6, <2>7, <2>8 DEF RowInv
<1>5. OutcomeInv'
    BY <1>1, <1>2 DEF OutcomeInv, Recorded, Before
<1>6. StatusTellsOutcome'
    BY <1>1, <1>2 DEF StatusTellsOutcome, RowInv, Recorded, OutcomeInv, Terminal
<1>7. NotifiedOfFinalStatus'
    BY <1>1, <1>2 DEF NotifiedOfFinalStatus, Terminal
<1>8. ParentInv'
    <2>1. \A c \in OpId : c >= nextOp' => job'[c] = NoJob
        BY <1>2 DEF ParentInv, TypeOK, OpId
    <2>2. ASSUME NEW c \in OpId, NEW o \in OpId, job'[c].parent = o
          PROVE  /\ job'[o].kind = BackupKind /\ job'[o].keep
                 /\ restic'[o] \in {"ok", "partial"}
                 /\ pc'[o] \in {"none", "done"}
                 /\ \A d \in OpId : job'[d].parent = o => d = c
        <3>1. CASE c = nextOp
            <4>1. pc[o] = "chain" /\ o # nextOp /\ pc'[o] = "done" /\ job'[o] = job[o]
                BY <1>1, <1>2, <2>2, <3>1
            <4>2. job[o].kind = BackupKind /\ job[o].keep /\ restic[o] \in {"ok", "partial"}
                BY <4>1 DEF JobInv, OutcomeInv, Recorded, Produced
            <4>3. \A d \in OpId : job[d].parent # o
                BY <4>1 DEF ParentInv
            <4>. QED
                BY <1>2, <3>1, <4>1, <4>2, <4>3
        <3>2. CASE c # nextOp
            <4>1. job[c].parent = o
                BY <1>2, <2>2, <3>2
            <4>2. o # nextOp
                BY <1>1, <4>1 DEF ParentInv
            <4>3. job'[nextOp].parent # o
                BY <4>1 DEF ParentInv
            <4>. QED
                BY <1>2, <4>1, <4>2, <4>3 DEF ParentInv
        <3>. QED
            BY <3>1, <3>2
    <2>. QED
        BY <2>1, <2>2 DEF ParentInv
<1>. QED
    BY <1>3, <1>4, <1>5, <1>6, <1>7, <1>8

\* A step of a goroutine that has been given the mutex.
LEMMA WorkHistory ==
    ASSUME TypeOK, MutexInv, HistoryInv, NEW o \in OpId, Work(o)
    PROVE  HistoryInv'
<1>. USE DEF HistoryInv, MutexInv
<1>1. ASSUME Register(o)
      PROVE  HistoryInv'
    <2>1. HolderInv'
        BY <1>1 DEF TypeOK, db, tables, memory, HolderInv, Inside, Register
    <2>2. RowInv'
        BY <1>1 DEF TypeOK, db, tables, memory, RowInv, Before, AtWork, Recorded, Register
    <2>3. OutcomeInv'
        BY <1>1 DEF TypeOK, db, tables, memory, OutcomeInv, Before, Recorded, Register
    <2>4. StatusTellsOutcome'
        BY <1>1 DEF TypeOK, db, tables, StatusTellsOutcome, Register
    <2>5. NotifiedOfFinalStatus'
        BY <1>1 DEF TypeOK, db, tables, NotifiedOfFinalStatus, Register
    <2>6. ParentInv'
        BY <1>1 DEF TypeOK, db, tables, ParentInv, Register
    <2>. QED
        BY <2>1, <2>2, <2>3, <2>4, <2>5, <2>6
<1>2. ASSUME SetRunning(o)
      PROVE  HistoryInv'
    <2>1. HolderInv'
        BY <1>2 DEF TypeOK, db, tables, memory, HolderInv, Inside, SetRunning
    <2>2. RowInv'
        BY <1>2 DEF TypeOK, db, tables, memory, RowInv, Before, AtWork, Recorded, SetRunning,
                    SetStatus
    <2>3. OutcomeInv'
        BY <1>2 DEF TypeOK, db, tables, memory, OutcomeInv, Before, Recorded, SetRunning
    <2>4. StatusTellsOutcome'
        BY <1>2 DEF TypeOK, db, tables, memory, StatusTellsOutcome, SetRunning, SetStatus,
                    Terminal
    <2>5. NotifiedOfFinalStatus'
        BY <1>2 DEF TypeOK, db, tables, memory, NotifiedOfFinalStatus, SetRunning, SetStatus,
                    Terminal, RowInv, Before
    <2>6. ParentInv'
        BY <1>2 DEF TypeOK, db, tables, memory, ParentInv, SetRunning
    <2>. QED
        BY <2>1, <2>2, <2>3, <2>4, <2>5, <2>6
<1>3. ASSUME BuildConfig(o)
      PROVE  HistoryInv'
    <2>1. HolderInv'
        BY <1>3 DEF TypeOK, db, tables, memory, HolderInv, Inside, BuildConfig, FailBefore
    <2>2. RowInv'
        BY <1>3 DEF TypeOK, db, tables, memory, RowInv, Before, AtWork, Recorded, BuildConfig,
                    FailBefore
    <2>3. OutcomeInv'
        BY <1>3 DEF TypeOK, db, tables, memory, OutcomeInv, Before, Recorded, BuildConfig,
                    FailBefore
    <2>4. StatusTellsOutcome'
        BY <1>3 DEF TypeOK, db, tables, memory, StatusTellsOutcome, BuildConfig, FailBefore
    <2>5. NotifiedOfFinalStatus'
        BY <1>3 DEF TypeOK, db, tables, memory, NotifiedOfFinalStatus, BuildConfig, FailBefore
    <2>6. ParentInv'
        BY <1>3 DEF TypeOK, db, tables, memory, ParentInv, BuildConfig, FailBefore
    <2>. QED
        BY <2>1, <2>2, <2>3, <2>4, <2>5, <2>6
<1>4. ASSUME StartRestic(o)
      PROVE  HistoryInv'
    <2>1. HolderInv'
        BY <1>4 DEF TypeOK, db, tables, memory, HolderInv, Inside, StartRestic, FailBefore
    <2>2. RowInv'
        BY <1>4 DEF TypeOK, db, tables, memory, RowInv, Before, AtWork, Recorded, StartRestic,
                    FailBefore
    <2>3. OutcomeInv'
        BY <1>4 DEF TypeOK, db, tables, memory, OutcomeInv, Before, Recorded, StartRestic,
                    FailBefore
    <2>4. StatusTellsOutcome'
        BY <1>4 DEF TypeOK, db, tables, memory, StatusTellsOutcome, StartRestic, FailBefore,
                    Terminal, RowInv, AtWork
    <2>5. NotifiedOfFinalStatus'
        BY <1>4 DEF TypeOK, db, tables, memory, NotifiedOfFinalStatus, StartRestic, FailBefore
    <2>6. ParentInv'
        BY <1>4 DEF TypeOK, db, tables, memory, ParentInv, StartRestic, FailBefore
    <2>. QED
        BY <2>1, <2>2, <2>3, <2>4, <2>5, <2>6
<1>5. ASSUME Decide(o)
      PROVE  HistoryInv'
    <2>1. HolderInv'
        BY <1>5 DEF TypeOK, db, tables, memory, HolderInv, Inside, Decide
    <2>2. RowInv'
        BY <1>5 DEF TypeOK, db, tables, memory, RowInv, Before, AtWork, Recorded, Decide
    <2>3. OutcomeInv'
        BY <1>5 DEF TypeOK, db, tables, memory, OutcomeInv, Before, Recorded, Decide, LockInv,
                    ResultOf, CapturesStats, Produced
    <2>4. StatusTellsOutcome'
        BY <1>5 DEF TypeOK, db, tables, memory, StatusTellsOutcome, Decide
    <2>5. NotifiedOfFinalStatus'
        BY <1>5 DEF TypeOK, db, tables, NotifiedOfFinalStatus, Decide
    <2>6. ParentInv'
        BY <1>5 DEF TypeOK, db, tables, ParentInv, Decide
    <2>. QED
        BY <2>1, <2>2, <2>3, <2>4, <2>5, <2>6
<1>6. ASSUME CaptureStats(o)
      PROVE  HistoryInv'
    <2>1. HolderInv'
        BY <1>6 DEF TypeOK, db, tables, memory, HolderInv, Inside, CaptureStats
    <2>2. RowInv'
        BY <1>6 DEF TypeOK, db, tables, memory, RowInv, Before, AtWork, Recorded, CaptureStats
    <2>3. OutcomeInv'
        BY <1>6 DEF TypeOK, db, tables, memory, OutcomeInv, Before, Recorded, CaptureStats
    <2>4. StatusTellsOutcome'
        BY <1>6 DEF TypeOK, db, tables, StatusTellsOutcome, CaptureStats
    <2>5. NotifiedOfFinalStatus'
        BY <1>6 DEF TypeOK, db, tables, NotifiedOfFinalStatus, CaptureStats
    <2>6. ParentInv'
        BY <1>6 DEF TypeOK, db, tables, ParentInv, CaptureStats
    <2>. QED
        BY <2>1, <2>2, <2>3, <2>4, <2>5, <2>6
<1>7. ASSUME Record(o)
      PROVE  HistoryInv'
    <2>1. HolderInv'
        BY <1>7 DEF TypeOK, db, tables, memory, HolderInv, Inside, Record
    <2>2. RowInv'
        BY <1>7 DEF TypeOK, db, tables, memory, RowInv, Before, AtWork, Recorded, Record,
                    SetStatus, CapturesStats, JobInv, Terminal, Live
    <2>3. OutcomeInv'
        BY <1>7 DEF TypeOK, db, tables, memory, OutcomeInv, Before, Recorded, Record,
                    CapturesStats
    <2>4. StatusTellsOutcome'
        BY <1>7 DEF TypeOK, db, tables, memory, StatusTellsOutcome, Record, SetStatus,
                    OutcomeInv
    <2>5. NotifiedOfFinalStatus'
        BY <1>7 DEF TypeOK, db, tables, memory, NotifiedOfFinalStatus, Record, SetStatus,
                    RowInv, AtWork, Terminal
    <2>6. ParentInv'
        BY <1>7 DEF TypeOK, db, tables, memory, ParentInv, Record
    <2>. QED
        BY <2>1, <2>2, <2>3, <2>4, <2>5, <2>6
<1>8. ASSUME Finish(o)
      PROVE  HistoryInv'
    <2>1. HolderInv'
        BY <1>8 DEF TypeOK, db, tables, memory, HolderInv, Inside, Finish
    <2>2. RowInv'
        BY <1>8 DEF TypeOK, db, tables, memory, RowInv, Before, AtWork, Recorded, Finish
    <2>3. OutcomeInv'
        BY <1>8 DEF TypeOK, db, tables, memory, OutcomeInv, Before, Recorded, Finish
    <2>4. StatusTellsOutcome'
        BY <1>8 DEF TypeOK, db, tables, StatusTellsOutcome, Finish
    <2>5. NotifiedOfFinalStatus'
        BY <1>8 DEF TypeOK, db, tables, memory, NotifiedOfFinalStatus, Finish, NotifyDone,
                    RowInv, Recorded, Terminal, Live
    <2>6. ParentInv'
        BY <1>8 DEF TypeOK, db, tables, ParentInv, Finish
    <2>. QED
        BY <2>1, <2>2, <2>3, <2>4, <2>5, <2>6
<1>9. ASSUME Leave(o)
      PROVE  HistoryInv'
    <2>1. HolderInv'
        BY <1>9 DEF TypeOK, db, tables, memory, HolderInv, Inside, Leave
    <2>2. RowInv'
        BY <1>9 DEF TypeOK, db, tables, memory, RowInv, Before, AtWork, Recorded, Leave
    <2>3. OutcomeInv'
        BY <1>9 DEF TypeOK, db, tables, memory, OutcomeInv, Before, Recorded, Leave
    <2>4. StatusTellsOutcome'
        BY <1>9 DEF TypeOK, db, tables, StatusTellsOutcome, Leave
    <2>5. NotifiedOfFinalStatus'
        BY <1>9 DEF TypeOK, db, tables, NotifiedOfFinalStatus, Leave
    <2>6. ParentInv'
        BY <1>9 DEF TypeOK, db, tables, ParentInv, Leave
    <2>. QED
        BY <2>1, <2>2, <2>3, <2>4, <2>5, <2>6
<1>10. ASSUME Unlock(o)
      PROVE  HistoryInv'
    <2>1. HolderInv'
        BY <1>10 DEF TypeOK, db, tables, memory, HolderInv, Inside, Unlock
    <2>2. RowInv'
        BY <1>10 DEF TypeOK, db, tables, memory, RowInv, Before, AtWork, Recorded, Unlock
    <2>3. OutcomeInv'
        BY <1>10 DEF TypeOK, db, tables, memory, OutcomeInv, Before, Recorded, Unlock
    <2>4. StatusTellsOutcome'
        BY <1>10 DEF TypeOK, db, tables, StatusTellsOutcome, Unlock
    <2>5. NotifiedOfFinalStatus'
        BY <1>10 DEF TypeOK, db, tables, NotifiedOfFinalStatus, Unlock
    <2>6. ParentInv'
        BY <1>10 DEF TypeOK, db, tables, ParentInv, Unlock
    <2>. QED
        BY <2>1, <2>2, <2>3, <2>4, <2>5, <2>6
<1>11. ASSUME Report(o)
      PROVE  HistoryInv'
    <2>1. HolderInv'
        BY <1>11 DEF TypeOK, db, tables, memory, HolderInv, Inside, Report
    <2>2. RowInv'
        BY <1>11 DEF TypeOK, db, tables, memory, RowInv, Before, AtWork, Recorded, Report
    <2>3. OutcomeInv'
        BY <1>11 DEF TypeOK, db, tables, memory, OutcomeInv, Before, Recorded, Report
    <2>4. StatusTellsOutcome'
        BY <1>11 DEF TypeOK, db, tables, StatusTellsOutcome, Report
    <2>5. NotifiedOfFinalStatus'
        BY <1>11 DEF TypeOK, db, tables, memory, NotifiedOfFinalStatus, Report, NotifyDone,
                     RowInv, Recorded, Terminal, Live
    <2>6. ParentInv'
        BY <1>11 DEF TypeOK, db, tables, ParentInv, Report
    <2>. QED
        BY <2>1, <2>2, <2>3, <2>4, <2>5, <2>6
<1>12. ASSUME Chain(o)
       PROVE  HistoryInv'
    <2>1. /\ pc[o] = "chain" /\ up
          /\ UNCHANGED <<up, result, holder, cancelReq, restic, notified, lost>>
        BY <1>12, Chained DEF RowInv
    <2>2. ASSUME pc' = [pc EXCEPT ![o] = "done"], UNCHANGED <<nextOp, status, job>>
          PROVE  HistoryInv'
        <3>1. HolderInv'
            BY <2>1, <2>2 DEF TypeOK, HolderInv, Inside
        <3>2. RowInv'
            BY <2>1, <2>2 DEF TypeOK, RowInv, Before, AtWork, Recorded
        <3>3. OutcomeInv'
            BY <2>1, <2>2 DEF TypeOK, OutcomeInv, Before, Recorded
        <3>4. StatusTellsOutcome'
            BY <2>1, <2>2 DEF TypeOK, StatusTellsOutcome
        <3>5. NotifiedOfFinalStatus'
            BY <2>1, <2>2 DEF TypeOK, NotifiedOfFinalStatus
        <3>6. ParentInv'
            BY <2>1, <2>2 DEF TypeOK, ParentInv
        <3>. QED
            BY <3>1, <3>2, <3>3, <3>4, <3>5, <3>6
    <2>3. ASSUME Inserted, pc' = [pc EXCEPT ![o] = "done", ![nextOp] = "inserted"],
                 status' = [status EXCEPT ![nextOp] = "queued"],
                 job'[nextOp].parent = o
          PROVE  HistoryInv'
        <3>1. pc[nextOp] = "none" /\ nextOp \in OpId
            BY <2>3, ConstantsAssumption DEF JobInv, Inserted, OpId
        <3>2. pc'[nextOp] = "inserted" /\ pc'[o] = "done"
              /\ \A n \in OpId \ {nextOp} :
                    pc'[n] = pc[n] \/ (n = o /\ pc[n] = "chain" /\ pc'[n] = "done")
            BY <2>1, <2>3, <3>1 DEF TypeOK
        <3>. QED
            BY <2>1, <2>3, <3>2, InsertHistory
    <2>. QED
        BY <1>12, <2>2, <2>3, Chained
<1>. QED
    BY <1>1, <1>2, <1>3, <1>4, <1>5, <1>6, <1>7, <1>8, <1>9, <1>10, <1>11, <1>12 DEF Work

\* A row is inserted.
LEMMA EnqueueHistory ==
    ASSUME TypeOK, MutexInv, HistoryInv, Enqueue
    PROVE  HistoryInv'
<1>. USE DEF HistoryInv, MutexInv
<1>1. pc'[nextOp] = "inserted" /\ \A n \in OpId \ {nextOp} : pc'[n] = pc[n]
    BY Enqueued DEF TypeOK, Inserted
<1>. QED
    BY <1>1, Enqueued, InsertHistory DEF OpId, NoOp

\* The steps of the caller, of the mutex, of restic, of users and of the process.
LEMMA OutsideHistory ==
    ASSUME TypeOK, MutexInv, HistoryInv
    PROVE  /\ \A o \in OpId : Spawn(o) \/ Drop(o) \/ AcquireLock(o) => HistoryInv'
           /\ \A o \in OpId : ResticExit(o) \/ ResticKilled(o) => HistoryInv'
           /\ \A o \in OpId : CancelFind(o) \/ CancelFire(o) => HistoryInv'
           /\ Edit => HistoryInv'
           /\ Crash \/ Restart => HistoryInv'
<1>. USE DEF HistoryInv, MutexInv
<1>1. ASSUME NEW o \in OpId, Spawn(o) \/ Drop(o)
      PROVE  HistoryInv'
    <2>1. HolderInv'
        BY <1>1 DEF TypeOK, db, tables, memory, HolderInv, Inside, Spawn, Drop
    <2>2. RowInv'
        BY <1>1 DEF TypeOK, db, tables, memory, RowInv, Before, AtWork, Recorded, Spawn, Drop
    <2>3. OutcomeInv'
        BY <1>1 DEF TypeOK, db, tables, memory, OutcomeInv, Before, Recorded, Spawn, Drop
    <2>4. StatusTellsOutcome'
        BY <1>1 DEF TypeOK, db, tables, memory, StatusTellsOutcome, Spawn, Drop
    <2>5. NotifiedOfFinalStatus'
        BY <1>1 DEF TypeOK, db, tables, memory, NotifiedOfFinalStatus, Spawn, Drop
    <2>6. ParentInv'
        BY <1>1 DEF TypeOK, db, tables, memory, ParentInv, Spawn, Drop
    <2>. QED
        BY <2>1, <2>2, <2>3, <2>4, <2>5, <2>6
<1>2. ASSUME NEW o \in OpId, AcquireLock(o)
      PROVE  HistoryInv'
    <2>1. HolderInv'
        BY <1>2 DEF TypeOK, db, tables, memory, HolderInv, Inside, AcquireLock
    <2>2. RowInv'
        BY <1>2 DEF TypeOK, db, tables, memory, RowInv, Before, AtWork, Recorded, AcquireLock
    <2>3. OutcomeInv'
        BY <1>2 DEF TypeOK, db, tables, memory, OutcomeInv, Before, Recorded, AcquireLock
    <2>4. StatusTellsOutcome'
        BY <1>2 DEF TypeOK, db, tables, StatusTellsOutcome, AcquireLock
    <2>5. NotifiedOfFinalStatus'
        BY <1>2 DEF TypeOK, db, tables, NotifiedOfFinalStatus, AcquireLock
    <2>6. ParentInv'
        BY <1>2 DEF TypeOK, db, tables, ParentInv, AcquireLock
    <2>. QED
        BY <2>1, <2>2, <2>3, <2>4, <2>5, <2>6
<1>3. ASSUME NEW o \in OpId, ResticExit(o) \/ ResticKilled(o)
      PROVE  HistoryInv'
    <2>1. HolderInv'
        BY <1>3 DEF TypeOK, db, tables, memory, HolderInv, Inside, ResticExit, ResticKilled
    <2>2. RowInv'
        BY <1>3 DEF TypeOK, db, tables, memory, RowInv, Before, AtWork, Recorded, ResticExit,
                    ResticKilled
    <2>3. OutcomeInv'
        BY <1>3 DEF TypeOK, db, tables, memory, OutcomeInv, Before, Recorded, ResticExit,
                    ResticKilled, LockInv
    <2>4. StatusTellsOutcome'
        BY <1>3 DEF TypeOK, db, tables, memory, StatusTellsOutcome, ResticExit, ResticKilled,
                    LockInv, RowInv, AtWork, Terminal
    <2>5. NotifiedOfFinalStatus'
        BY <1>3 DEF TypeOK, db, tables, memory, NotifiedOfFinalStatus, ResticExit, ResticKilled
    <2>6. ParentInv'
        BY <1>3 DEF TypeOK, db, tables, memory, ParentInv, ResticExit, ResticKilled
    <2>. QED
        BY <2>1, <2>2, <2>3, <2>4, <2>5, <2>6
<1>4. ASSUME NEW o \in OpId, CancelFind(o) \/ CancelFire(o)
      PROVE  HistoryInv'
    <2>1. HolderInv'
        BY <1>4 DEF TypeOK, db, tables, memory, HolderInv, CancelFind, CancelFire
    <2>2. RowInv'
        BY <1>4 DEF TypeOK, db, tables, memory, RowInv, Before, AtWork, Recorded, CancelFind,
                    CancelFire
    <2>3. OutcomeInv'
        BY <1>4 DEF TypeOK, db, tables, memory, OutcomeInv, Before, Recorded, CancelFind,
                    CancelFire
    <2>4. StatusTellsOutcome'
        BY <1>4 DEF TypeOK, db, tables, memory, StatusTellsOutcome, CancelFind, CancelFire
    <2>5. NotifiedOfFinalStatus'
        BY <1>4 DEF TypeOK, db, tables, memory, NotifiedOfFinalStatus, CancelFind, CancelFire
    <2>6. ParentInv'
        BY <1>4 DEF TypeOK, db, tables, memory, ParentInv, CancelFind, CancelFire
    <2>. QED
        BY <2>1, <2>2, <2>3, <2>4, <2>5, <2>6
<1>5. ASSUME Edit
      PROVE  HistoryInv'
    <2>1. HolderInv'
        BY <1>5 DEF TypeOK, db, tables, memory, HolderInv, Inside, Edit, UpdatePlan, DeletePlan,
                    DeleteRepo
    <2>2. RowInv'
        BY <1>5 DEF TypeOK, db, tables, memory, RowInv, Before, AtWork, Recorded, Edit,
                    UpdatePlan, DeletePlan, DeleteRepo
    <2>3. OutcomeInv'
        BY <1>5 DEF TypeOK, db, tables, memory, OutcomeInv, Before, Recorded, Edit, UpdatePlan,
                    DeletePlan, DeleteRepo
    <2>4. StatusTellsOutcome'
        BY <1>5 DEF TypeOK, db, tables, memory, StatusTellsOutcome, Edit, UpdatePlan,
                    DeletePlan, DeleteRepo
    <2>5. NotifiedOfFinalStatus'
        BY <1>5 DEF TypeOK, db, tables, memory, NotifiedOfFinalStatus, Edit, UpdatePlan,
                    DeletePlan, DeleteRepo
    <2>6. ParentInv'
        BY <1>5 DEF TypeOK, db, tables, memory, ParentInv, Edit, UpdatePlan, DeletePlan,
                    DeleteRepo
    <2>. QED
        BY <2>1, <2>2, <2>3, <2>4, <2>5, <2>6
<1>6. ASSUME Crash
      PROVE  HistoryInv'
    <2>1. HolderInv'
        BY <1>6 DEF TypeOK, db, tables, memory, HolderInv, Crash
    <2>2. RowInv'
        BY <1>6 DEF TypeOK, db, tables, memory, RowInv, Before, AtWork, Recorded, Crash
    <2>3. OutcomeInv'
        BY <1>6 DEF TypeOK, db, tables, memory, OutcomeInv, Before, Recorded, Crash
    <2>4. StatusTellsOutcome'
        BY <1>6 DEF TypeOK, db, tables, StatusTellsOutcome, Crash
    <2>5. NotifiedOfFinalStatus'
        BY <1>6 DEF TypeOK, db, tables, NotifiedOfFinalStatus, Crash
    <2>6. ParentInv'
        BY <1>6 DEF TypeOK, db, tables, ParentInv, Crash
    <2>. QED
        BY <2>1, <2>2, <2>3, <2>4, <2>5, <2>6
<1>7. ASSUME Restart
      PROVE  HistoryInv'
    <2>1. HolderInv'
        BY <1>7 DEF TypeOK, db, tables, memory, HolderInv, Restart
    <2>2. RowInv'
        BY <1>7 DEF TypeOK, db, tables, memory, RowInv, Before, AtWork, Recorded, Restart, Live
    <2>3. OutcomeInv'
        BY <1>7 DEF TypeOK, db, tables, memory, OutcomeInv, Recorded, Restart
    <2>4. StatusTellsOutcome'
        BY <1>7 DEF TypeOK, db, tables, memory, StatusTellsOutcome, Restart, RowInv
    <2>5. NotifiedOfFinalStatus'
        BY <1>7 DEF TypeOK, db, tables, memory, NotifiedOfFinalStatus, Restart, Live, Terminal
    <2>6. ParentInv'
        BY <1>7 DEF TypeOK, db, tables, memory, ParentInv, Restart
    <2>. QED
        BY <2>1, <2>2, <2>3, <2>4, <2>5, <2>6
<1>. QED
    BY <1>1, <1>2, <1>3, <1>4, <1>5, <1>6, <1>7

\* The inductive invariant of the runner.
THEOREM Inductive == Spec => [](TypeOK /\ RunnerInv)
<1>1. Init => HistoryInv
    <2>. SUFFICES ASSUME Init
                  PROVE  HistoryInv
        OBVIOUS
    <2>1. RowInv /\ OutcomeInv
        BY DEF Init, RowInv, OutcomeInv, Before, AtWork, Recorded, Live, OpId
    <2>2. StatusTellsOutcome /\ NotifiedOfFinalStatus
        BY DEF Init, StatusTellsOutcome, NotifiedOfFinalStatus, Terminal, Live
    <2>3. HolderInv /\ ParentInv
        BY DEF Init, HolderInv, ParentInv, NoJob, NoOp, OpId
    <2>. QED
        BY <2>1, <2>2, <2>3 DEF HistoryInv
<1>2. TypeOK /\ MutexInv /\ HistoryInv /\ [Next]_vars => HistoryInv'
    <2>. SUFFICES ASSUME TypeOK, MutexInv, HistoryInv, [Next]_vars
                  PROVE  HistoryInv'
        OBVIOUS
    <2>1. CASE Enqueue
        BY <2>1, EnqueueHistory
    <2>2. ASSUME NEW o \in OpId, Work(o)
          PROVE  HistoryInv'
        BY <2>2, WorkHistory
    <2>3. ASSUME NEW o \in OpId, Spawn(o) \/ Drop(o) \/ AcquireLock(o)
          PROVE  HistoryInv'
        BY <2>3, OutsideHistory
    <2>4. ASSUME NEW o \in OpId,
                 ResticExit(o) \/ ResticKilled(o) \/ CancelFind(o) \/ CancelFire(o)
          PROVE  HistoryInv'
        BY <2>4, OutsideHistory
    <2>5. CASE Edit \/ Crash \/ Restart
        BY <2>5, OutsideHistory
    <2>6. CASE UNCHANGED vars
        BY <2>6 DEF vars, HistoryInv, HolderInv, RowInv, OutcomeInv, StatusTellsOutcome,
                    NotifiedOfFinalStatus, ParentInv, AtWork, Recorded
    <2>. QED
        BY <2>1, <2>2, <2>3, <2>4, <2>5, <2>6 DEF Next
<1>3. Spec => []HistoryInv
    BY <1>1, <1>2, Mutexes, PTL DEF Spec
<1>. QED
    BY <1>3, Mutexes, PTL DEF RunnerInv

\* No two restic processes work on one repository at once, whatever crashes,
\* is canceled, edited or refused by SQLite.
THEOREM OneAtATime == Spec => []OneResticPerRepo
<1>1. TypeOK /\ MutexInv => OneResticPerRepo
    BY DEF TypeOK, MutexInv, LockInv, HasLock, Inside, OneResticPerRepo
<1>. QED
    BY <1>1, Mutexes, PTL

\* Cancel reaches only operations that hold their mutex, and all whose restic
\* runs.
THEOREM CancelReach == Spec => []CancelReachesRunning
<1>1. TypeOK /\ MutexInv => CancelReachesRunning
    BY DEF TypeOK, MutexInv, LockInv, Inside, CancelReachesRunning
<1>. QED
    BY <1>1, Mutexes, PTL

\* A row says "running" only while its goroutine holds the repository's mutex,
\* or its terminal write was refused.
THEOREM RunningHoldsLock == Spec => []RunningRowHoldsLock
<1>1. TypeOK /\ RunnerInv => RunningRowHoldsLock
    <2>. SUFFICES ASSUME TypeOK, RunnerInv, up,
                         NEW o \in OpId, status[o] = "running", o \notin lost
                  PROVE  HasLock(o)
        BY DEF RunningRowHoldsLock
    <2>1. AtWork(o)
        BY DEF RunnerInv, HistoryInv, RowInv, AtWork, Recorded, Before, TypeOK, PC, Live,
               Terminal
    <2>. QED
        BY <2>1 DEF RunnerInv, MutexInv, LockInv, AtWork, Inside
<1>. QED
    BY <1>1, Inductive, PTL

\* No row is forgotten: while the server runs, code that will still finish it
\* stands behind every queued or running row, but for the excepted ones.
THEOREM NoRowForgotten == Spec => []LiveRowsAreServed
<1>1. TypeOK /\ RunnerInv => LiveRowsAreServed
    BY DEF TypeOK, RunnerInv, HistoryInv, RowInv, Recorded, Live, Terminal, LiveRowsAreServed
<1>. QED
    BY <1>1, Inductive, PTL

\* The status of every row agrees with what restic did and with the cancel.
THEOREM StatusIsTrue == Spec => []StatusTellsOutcome
BY Inductive, PTL DEF RunnerInv, HistoryInv

\* What the notifier was handed is what the row says ever after.
THEOREM NotificationIsFinal == Spec => []NotifiedOfFinalStatus
BY Inductive, PTL DEF RunnerInv, HistoryInv

\* A chained retention follows one backup that saved a snapshot and has given
\* its repository back.
THEOREM RetentionIsChained == Spec => []RetentionFollowsBackup
<1>1. TypeOK /\ RunnerInv => RetentionFollowsBackup
    <2>. SUFFICES ASSUME TypeOK, RunnerInv, NEW c \in OpId, NEW o \in OpId,
                         job[c].parent = o
                  PROVE  /\ job[o].kind = BackupKind /\ job[o].keep
                         /\ restic[o] \in {"ok", "partial"}
                         /\ ~HasLock(o)
                         /\ \A d \in OpId \ {c} : job[d].parent # o
        BY DEF RetentionFollowsBackup, TypeOK, Job
    <2>1. ~HasLock(o)
        BY DEF RunnerInv, HistoryInv, ParentInv, HolderInv, HasLock, Inside, OpId, NoOp
    <2>. QED
        BY <2>1 DEF RunnerInv, HistoryInv, ParentInv
<1>. QED
    BY <1>1, Inductive, PTL

\* What any step does to the status of an operation: it is inserted, it starts
\* running, it ends as its goroutine has decided, or a restart declares it
\* failed; the step of a goroutine that is not recorded writes nothing.
LEMMA StatusSteps ==
    ASSUME TypeOK, MutexInv, [Next]_vars
    PROVE  \/ /\ Inserted
              /\ status' = [status EXCEPT ![nextOp] = "queued"]
           \/ /\ UNCHANGED job
              /\ \E o \in OpId :
                    /\ pc[o] = "begin"
                    /\ status' = [status EXCEPT ![o] = "running"]
           \/ /\ UNCHANGED job
              /\ \E o \in OpId :
                    /\ pc[o] = "record"
                    /\ status' = [status EXCEPT ![o] = result[o]]
           \/ /\ UNCHANGED job
              /\ status' = [o \in OpId |-> IF status[o] \in Live THEN "error" ELSE status[o]]
           \/ UNCHANGED <<job, status>>
<1>1. CASE Enqueue
    BY <1>1, Enqueued
<1>2. ASSUME NEW o \in OpId, Chain(o)
      PROVE  \/ Inserted /\ status' = [status EXCEPT ![nextOp] = "queued"]
             \/ UNCHANGED <<job, status>>
    BY <1>2, Chained
<1>3. ASSUME NEW o \in OpId, SetRunning(o)
      PROVE  /\ UNCHANGED job
             /\ pc[o] = "begin"
             /\ status' = [status EXCEPT ![o] = "running"] \/ UNCHANGED status
    BY <1>3 DEF SetRunning, SetStatus
<1>4. ASSUME NEW o \in OpId, Record(o)
      PROVE  /\ UNCHANGED job
             /\ pc[o] = "record"
             /\ status' = [status EXCEPT ![o] = result[o]] \/ UNCHANGED status
    BY <1>4 DEF Record, SetStatus
<1>5. ASSUME NEW o \in OpId, Register(o) \/ BuildConfig(o) \/ StartRestic(o) \/ Decide(o)
                             \/ CaptureStats(o) \/ Finish(o) \/ Leave(o) \/ Unlock(o) \/ Report(o)
      PROVE  UNCHANGED <<job, status>>
    BY <1>5 DEF Register, BuildConfig, StartRestic, Decide, CaptureStats, Finish, Leave, Unlock,
                Report, FailBefore, db
<1>6. ASSUME NEW o \in OpId, Spawn(o) \/ Drop(o) \/ AcquireLock(o) \/ ResticExit(o)
                             \/ ResticKilled(o) \/ CancelFind(o) \/ CancelFire(o)
      PROVE  UNCHANGED <<job, status>>
    BY <1>6 DEF Spawn, Drop, AcquireLock, ResticExit, ResticKilled, CancelFind, CancelFire, db,
                memory
<1>7. CASE Edit \/ Crash
    BY <1>7 DEF Edit, UpdatePlan, DeletePlan, DeleteRepo, Crash, db, memory
<1>8. CASE Restart
    BY <1>8 DEF Restart, memory
<1>9. CASE UNCHANGED vars
    BY <1>9 DEF vars
<1>. QED
    BY <1>1, <1>2, <1>3, <1>4, <1>5, <1>6, <1>7, <1>8, <1>9 DEF Next, Work

\* A status moves forward only; a terminal one is final, across restarts too.
THEOREM StatusIsMonotonic == Spec => StatusMovesForward
<1>1. ASSUME TypeOK, RunnerInv, [Next]_vars
      PROVE  [\A o \in OpId :
                /\ status[o] \in Terminal => status'[o] = status[o]
                /\ status[o] = "running" => status'[o] # "queued"
                /\ status[o] # "absent" => status'[o] # "absent"]_vars
    <2>. USE DEF RunnerInv, HistoryInv, MutexInv, TypeOK, RowInv, AtWork, Before, Live, Terminal
    <2>1. CASE Inserted /\ status' = [status EXCEPT ![nextOp] = "queued"]
        BY <1>1, <2>1, ConstantsAssumption DEF Inserted, OpId
    <2>2. CASE \E o \in OpId : pc[o] = "begin" /\ status' = [status EXCEPT ![o] = "running"]
        BY <1>1, <2>2
    <2>3. CASE \E o \in OpId : pc[o] = "record" /\ status' = [status EXCEPT ![o] = result[o]]
        BY <1>1, <2>3 DEF JobInv
    <2>4. CASE status' = [o \in OpId |-> IF status[o] \in Live THEN "error" ELSE status[o]]
        BY <2>4
    <2>5. CASE UNCHANGED status
        BY <2>5
    <2>. QED
        BY <1>1, <2>1, <2>2, <2>3, <2>4, <2>5, StatusSteps
<1>. QED
    BY <1>1, Inductive, PTL DEF Spec, StatusMovesForward

\* A point of the size history is taken by who has saved or removed data, and
\* while nobody else's restic works on the repository.
THEOREM StatsAreTheirOwn == Spec => StatsAreOwn
<1>1. ASSUME TypeOK, RunnerInv, [Next]_vars
      PROVE  [\A o \in stats' \ stats :
                /\ restic[o] \in {"ok", "partial"}
                /\ HasLock(o)
                /\ \A n \in OpId : job[n].repo = job[o].repo => restic[n] # "running"]_vars
    <2>. SUFFICES ASSUME NEW o \in stats' \ stats
                  PROVE  /\ restic[o] \in {"ok", "partial"}
                         /\ HasLock(o)
                         /\ \A n \in OpId : job[n].repo = job[o].repo => restic[n] # "running"
        OBVIOUS
    <2>1. o \in OpId /\ CaptureStats(o)
        BY <1>1 DEF Next, Work, Enqueue, EnqueueBackup, EnqueueForget, EnqueueCommand,
                    EnqueueCopy, Register, SetRunning, BuildConfig, StartRestic, Decide,
                    CaptureStats, Record, Finish, Leave, Unlock, Report, Chain, FailBefore,
                    Spawn, Drop, AcquireLock, ResticExit, ResticKilled, CancelFind, CancelFire,
                    Edit, UpdatePlan, DeletePlan, DeleteRepo, Crash, Restart, db, vars
    <2>2. pc[o] = "stats" /\ HasLock(o) /\ restic[o] # "running"
        BY <1>1, <2>1 DEF CaptureStats, RunnerInv, MutexInv, LockInv, Inside
    <2>3. restic[o] \in {"ok", "partial"}
        BY <1>1, <2>1, <2>2 DEF RunnerInv, HistoryInv, OutcomeInv, Produced
    <2>4. ASSUME NEW n \in OpId, job[n].repo = job[o].repo, restic[n] = "running"
          PROVE  FALSE
        <3>1. HasLock(n) /\ n # o
            BY <1>1, <2>2, <2>4 DEF RunnerInv, MutexInv, LockInv, Inside
        <3>. QED
            BY <2>2, <2>4, <3>1 DEF HasLock
    <2>. QED
        BY <2>2, <2>3, <2>4
<1>. QED
    BY <1>1, Inductive, PTL DEF Spec, StatsAreOwn

-----------------------------------------------------------------------------
(* The refinement of SerialOps.                                            *)

\* As long as SQLite accepts the status writes, the history that the runner
\* keeps is one of a serial queue per repository.
THEOREM Refinement == Spec /\ [](lost = {}) => ImplementsSerialOps
<1>1. Init => Serial!SInit
    BY ConstantsAssumption DEF Init, Serial!SInit, NoJob
<1>2. ASSUME TypeOK, RunnerInv, lost = {}, [Next]_vars
      PROVE  [Serial!SNext]_(Serial!svars)
    <2>. USE DEF RunnerInv, HistoryInv, MutexInv
    <2>1. ASSUME Inserted, status' = [status EXCEPT ![nextOp] = "queued"]
          PROVE  Serial!Submit(nextOp, job'[nextOp].repo)
        <3>1. status[nextOp] = "absent"
            BY <1>2, <2>1, ConstantsAssumption DEF Inserted, RowInv, OpId
        <3>2. [o \in OpId |-> job'[o].repo]
                = [[o \in OpId |-> job[o].repo] EXCEPT ![nextOp] = job'[nextOp].repo]
            BY <2>1 DEF Inserted
        <3>. QED
            BY <2>1, <3>1, <3>2 DEF Serial!Submit
    <2>2. ASSUME UNCHANGED job, NEW o \in OpId, pc[o] = "begin",
                 status' = [status EXCEPT ![o] = "running"]
          PROVE  Serial!Begin(o)
        <3>1. status[o] = "queued" /\ up /\ HasLock(o)
            BY <1>2, <2>2 DEF RowInv, Before, LockInv, Inside
        <3>2. ASSUME NEW n \in OpId, job[n].repo = job[o].repo
              PROVE  status[n] # "running"
            <4>. SUFFICES ASSUME status[n] = "running"
                          PROVE  FALSE
                OBVIOUS
            <4>1. AtWork(n)
                BY <1>2, <3>1 DEF RowInv, AtWork, Recorded, Before, TypeOK, PC, Live, Terminal
            <4>2. HasLock(n)
                BY <1>2, <4>1 DEF LockInv, AtWork, Inside
            <4>. QED
                BY <3>1, <3>2, <4>2 DEF HasLock
        <3>. QED
            BY <2>2, <3>1, <3>2 DEF Serial!Begin, Serial!Free
    <2>3. ASSUME UNCHANGED job, NEW o \in OpId, pc[o] = "record",
                 status' = [status EXCEPT ![o] = result[o]]
          PROVE  result[o] \in Serial!Outcome /\ Serial!End(o, result[o])
        BY <1>2, <2>3 DEF RowInv, AtWork, JobInv, Terminal, Serial!End, Serial!Outcome
    <2>4. ASSUME UNCHANGED job,
                 status' = [o \in OpId |-> IF status[o] \in Live THEN "error" ELSE status[o]]
          PROVE  Serial!Interrupt
        BY <2>4 DEF Serial!Interrupt, Serial!Unfinished, Live
    <2>5. ASSUME UNCHANGED <<job, status>>
          PROVE  UNCHANGED Serial!svars
        BY <2>5 DEF Serial!svars
    <2>6. ASSUME UNCHANGED job,
                 \E o \in OpId : pc[o] = "begin" /\ status' = [status EXCEPT ![o] = "running"]
          PROVE  Serial!SNext
        BY <2>2, <2>6 DEF Serial!SNext
    <2>7. ASSUME UNCHANGED job,
                 \E o \in OpId : pc[o] = "record" /\ status' = [status EXCEPT ![o] = result[o]]
          PROVE  Serial!SNext
        BY <2>3, <2>7 DEF Serial!SNext
    <2>8. ASSUME Inserted, status' = [status EXCEPT ![nextOp] = "queued"]
          PROVE  Serial!SNext
        <3>1. nextOp \in OpId /\ \E r \in Repos : Serial!Submit(nextOp, r)
            BY <2>1, <2>8 DEF Inserted, Serial!Submit
        <3>. QED
            BY <3>1 DEF Serial!SNext
    <2>9. Serial!Interrupt => Serial!SNext
        BY DEF Serial!SNext
    <2>. QED
        BY <1>2, <2>4, <2>5, <2>6, <2>7, <2>8, <2>9, StatusSteps
<1>. QED
    BY <1>1, <1>2, Inductive, PTL DEF Spec, ImplementsSerialOps, Serial!SSpec

\* In particular where writes are never refused.
THEOREM ImplementsQueue ==
    ASSUME "db" \notin Events
    PROVE  Spec => ImplementsSerialOps
<1>1. RunnerInv => lost = {}
    BY DEF RunnerInv, HistoryInv, RowInv
<1>. QED
    BY <1>1, Inductive, Refinement, PTL
=============================================================================
