\* Two requests at a time; clients leave, repositories are deleted with their
\* plans, the process crashes. Two plans, for lists that can be half there.
CONSTANTS
    Plans = {p1, p2}
    Repos = {r1}
    Specs = {c1, c2}
    Manual = Manual
    Requests = {h1, h2}
    Events = {"disconnect", "cascade", "crash"}
    MaxWrites = 3
SPECIFICATION FairSpec
INVARIANTS
    TypeOK
    SchedulerInv
    CronHoldsOneList
    OutOfSyncForAReason
PROPERTIES
    FiresWhatIsScheduled
    CatchesUp
