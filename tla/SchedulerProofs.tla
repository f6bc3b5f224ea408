--------------------------- MODULE SchedulerProofs ---------------------------
(***************************************************************************)
(* Theorems about Scheduler, for every set of plans, repositories and cron *)
(* expressions, any number of concurrent requests and of writes.           *)
(***************************************************************************)
EXTENDS Scheduler, TLAPS

IInv == TypeOK /\ SchedulerInv

\* What a well-typed table wants scheduled are items of its kind.
LEMMA ScheduledType ==
    ASSUME NEW t, Tables(t), DOMAIN t \subseteq Ids, NEW k \in Kinds
    PROVE  /\ Scheduled(t, k) \in SUBSET Item
           /\ \A e, f \in Scheduled(t, k) : e.id \in IdsOf(k) /\ (e.id = f.id => e = f)
<1>1. ASSUME NEW i \in DOMAIN t \cap IdsOf(k), t[i].spec # Manual
      PROVE  t[i].spec \in Specs /\ i \in Ids
    BY <1>1 DEF Tables, PlanRow, RepoRow, IdsOf, Ids
<1>. QED
    BY <1>1 DEF Scheduled, Item

\* Both tables at once.
LEMMA AllScheduledType ==
    ASSUME NEW t, Tables(t), DOMAIN t \subseteq Ids
    PROVE  /\ AllScheduled(t) \in [Kinds -> SUBSET Item]
           /\ \A k \in Kinds : AllScheduled(t)[k] = Scheduled(t, k)
<1>. QED
    BY ScheduledType DEF AllScheduled

\* A step that touches neither the lists nor a request in the mutex, and leaves
\* the versions alone that the lists are from.
LEMMA ListsStay ==
    ASSUME TypeOK, OneReloads,
           up \/ \A g \in Requests : req'[g] = req[g],
           \A g \in Requests : \/ req'[g] = req[g]
                              \/ /\ req[g].at \notin {"remove", "add"}
                                 /\ req'[g].at \notin {"remove", "add"},
           cron' = cron, entries' = entries, installed' = installed, up' = up,
           \A k \in Kinds : past'[installed[k]] = past[installed[k]]
    PROVE  OneReloads'
<1>1. \A g \in Requests : (req[g].at \in {"remove", "add"} \/ req'[g].at \in {"remove", "add"})
                           => req'[g] = req[g] /\ req[g].kind \in Kinds
    BY DEF TypeOK, Request
<1>2. \A k \in Kinds : Reloading(k)' <=> Reloading(k)
    BY <1>1 DEF Reloading
<1>. QED
    BY <1>1, <1>2 DEF OneReloads, ListStands, ItemsOf

\* A handler that writes to a table, and goes on to reload the scheduler of one
\* kind, keeps the invariant if it notes the other kinds it wrote to as skipped.
LEMMA WriteKeeps ==
    ASSUME IInv, NEW h \in Requests, NEW k \in Kinds, NEW ks \in SUBSET Kinds,
           NEW at \in {"reread", "reload"}, NEW ids \in SUBSET Ids, NEW t,
           Tables(t), DOMAIN t \subseteq Ids,
           \A j \in Kinds \ ks : Scheduled(t, j) = Scheduled(rows, j),
           req[h].at = "idle",
           Write(t, ks), GoOn(h, at, k, ids),
           skipped' = skipped \cup (ks \ {k}),
           UNCHANGED <<up, lists, jobs, installed, overtaken>>
    PROVE  IInv'
<1>. USE SchedulerAssumption DEF IInv, SchedulerInv
<1>1. /\ version \in 0..MaxWrites /\ version < MaxWrites
      /\ version' = version + 1 /\ version' \in 0..MaxWrites
    BY DEF Write, TypeOK
<1>2. AllScheduled(t) \in [Kinds -> SUBSET Item]
    BY AllScheduledType
<1>3. /\ past' \in [0..MaxWrites -> [Kinds -> SUBSET Item]]
      /\ past'[version + 1] = AllScheduled(t)
      /\ \A v \in 0..version : past'[v] = past[v]
    BY <1>1, <1>2 DEF Write, TypeOK
<1>4. /\ written' \in [Kinds -> 0..version']
      /\ \A j \in ks : written'[j] = version + 1
      /\ \A j \in Kinds \ ks : written'[j] = written[j]
    BY <1>1 DEF Write, TypeOK
<1>5. Standing(at, k, ids, {}, 0) \in Request
    BY DEF Standing, Request
<1>6. /\ req' \in [Requests -> Request]
      /\ req'[h].at = at /\ req'[h].kind = k
      /\ \A g \in Requests \ {h} : req'[g] = req[g]
    BY <1>5 DEF GoOn, TypeOK, Standing
<1>7. TypeOK'
    <2>1. installed' \in [Kinds -> 0..version']
        BY <1>1 DEF TypeOK
    <2>2. rows' = t /\ used' = used \cup DOMAIN t
        BY DEF Write
    <2>3. Tables(rows)'
        BY <2>2 DEF Tables
    <2>. QED
        BY <1>1, <1>3, <1>4, <1>6, <2>1, <2>2, <2>3 DEF TypeOK, lists
<1>8. VersionsAreTrue'
    <2>1. rows' = t
        BY DEF Write
    <2>2. \A j \in Kinds, v \in 0..MaxWrites : \A e, f \in past'[v][j] :
            e.id \in IdsOf(j) /\ (e.id = f.id => e = f)
        <3>1. \A j \in Kinds : \A e, f \in past'[version + 1][j] :
                e.id \in IdsOf(j) /\ (e.id = f.id => e = f)
            BY <1>3, AllScheduledType, ScheduledType
        <3>2. \A v \in 0..MaxWrites : v # version + 1 => past'[v] = past[v]
            BY <1>1 DEF Write, TypeOK
        <3>. QED
            BY <3>1, <3>2 DEF VersionsAreTrue
    <2>3. \A j \in Kinds : \A v \in written'[j]..version' : past'[v][j] = Scheduled(t, j)
        <3>1. \A j \in Kinds : past'[version + 1][j] = Scheduled(t, j)
            BY <1>3, AllScheduledType
        <3>2. ASSUME NEW j \in Kinds \ ks, NEW v \in written[j]..version
              PROVE  past'[v][j] = Scheduled(t, j)
            <4>1. v \in 0..version /\ past[v][j] = Scheduled(rows, j)
                BY DEF VersionsAreTrue, TypeOK
            <4>. QED
                BY <4>1, <1>3
        <3>3. ASSUME NEW j \in Kinds, NEW v \in written'[j]..version', v # version + 1
              PROVE  j \in Kinds \ ks /\ v \in written[j]..version
            BY <3>3, <1>1, <1>4 DEF TypeOK
        <3>. QED
            BY <3>1, <3>2, <3>3
    <2>4. ASSUME NEW g \in Requests, req'[g].at \in {"lock", "remove"}
          PROVE  req'[g].version <= version' /\ req'[g].items = past'[req'[g].version][req'[g].kind]
        <3>1. g # h
            BY <2>4, <1>6
        <3>2. req'[g] = req[g] /\ req[g].version \in 0..version
            BY <2>4, <3>1, <1>6 DEF VersionsAreTrue, TypeOK, Request
        <3>. QED
            BY <2>4, <3>2, <1>1, <1>3 DEF VersionsAreTrue
    <2>6. Scheduled(rows, k)' = Scheduled(t, k) /\ \A j \in Kinds : Scheduled(rows, j)' = Scheduled(t, j)
        BY <2>1 DEF Scheduled
    <2>. QED
        BY <2>1, <2>2, <2>3, <2>4, <2>6 DEF VersionsAreTrue
<1>9. BehindForAReason'
    <2>1. ASSUME NEW j \in Kinds, up
          PROVE  \/ installed[j] >= written'[j]
                 \/ \E g \in Requests : Brings(g, j)'
                 \/ j \in skipped' \cup overtaken
        <3>1. CASE j = k
            BY <3>1, <1>6 DEF Brings
        <3>2. CASE j # k /\ j \in ks
            BY <3>2
        <3>3. CASE j # k /\ j \notin ks
            <4>1. CASE installed[j] >= written[j]
                BY <3>3, <4>1, <1>4
            <4>2. ASSUME NEW g \in Requests, Brings(g, j)
                  PROVE  Brings(g, j)'
                <5>1. g # h
                    BY <4>2 DEF Brings
                <5>. QED
                    BY <4>2, <5>1, <1>4, <1>6, <3>3 DEF Brings
            <4>3. CASE j \in skipped \cup overtaken
                BY <4>3
            <4>. QED
                BY <4>1, <4>2, <4>3, <2>1 DEF BehindForAReason
        <3>. QED
            BY <3>1, <3>2, <3>3
    <2>. QED
        BY <2>1 DEF BehindForAReason
<1>10. OneReloads'
    <2>1. \A j \in Kinds : installed[j] \in 0..version
        BY DEF TypeOK
    <2>. QED
        BY <2>1, <1>3, <1>6, ListsStay DEF lists, Write
<1>. QED
    BY <1>7, <1>8, <1>9, <1>10

\* The handlers that write.
LEMMA HandlersKeep ==
    ASSUME IInv, NEW h \in Requests
    PROVE  /\ \A p \in Plans :
                /\ \A row \in PlanRow : SavePlan(h, p, row) => IInv'
                /\ \A on \in BOOLEAN : SetEnabled(h, p, on) => IInv'
                /\ DeletePlan(h, p) => IInv'
           /\ \A r \in Repos :
                /\ \A row \in RepoRow(r) : SaveRepo(h, r, row) => IInv'
                /\ \A spec \in Specs \cup {Manual} : SetCheckSchedule(h, r, spec) => IInv'
                /\ DeleteRepo(h, r) => IInv'
<1>. USE SchedulerAssumption
<1>1. Tables(rows) /\ DOMAIN rows \subseteq Ids
    BY DEF IInv, TypeOK
<1>2. ASSUME NEW p \in Plans, NEW row \in PlanRow
      PROVE  /\ Tables(With(p, row)) /\ DOMAIN With(p, row) \subseteq Ids
             /\ \A j \in Kinds \ {"plan"} : Scheduled(With(p, row), j) = Scheduled(rows, j)
    <2>1. p \notin Repos /\ p \in Ids
        BY DEF Ids
    <2>2. Tables(With(p, row)) /\ DOMAIN With(p, row) \subseteq Ids
        BY <1>1, <2>1 DEF With, Tables
    <2>3. /\ DOMAIN With(p, row) \cap Repos = DOMAIN rows \cap Repos
          /\ \A r \in DOMAIN rows \cap Repos : With(p, row)[r] = rows[r]
        BY <2>1 DEF With
    <2>4. \A j \in Kinds \ {"plan"} : IdsOf(j) = Repos
        BY DEF Kinds, IdsOf
    <2>. QED
        BY <2>2, <2>3, <2>4 DEF Scheduled
<1>3. ASSUME NEW r \in Repos, NEW row \in RepoRow(r)
      PROVE  /\ Tables(With(r, row)) /\ DOMAIN With(r, row) \subseteq Ids
             /\ \A j \in Kinds \ {"check"} : Scheduled(With(r, row), j) = Scheduled(rows, j)
    <2>1. r \notin Plans /\ r \in Ids
        BY DEF Ids
    <2>2. Tables(With(r, row)) /\ DOMAIN With(r, row) \subseteq Ids
        BY <1>1, <2>1 DEF With, Tables
    <2>3. /\ DOMAIN With(r, row) \cap Plans = DOMAIN rows \cap Plans
          /\ \A p \in DOMAIN rows \cap Plans : With(r, row)[p] = rows[p]
        BY <2>1 DEF With
    <2>4. \A j \in Kinds \ {"check"} : IdsOf(j) = Plans
        BY DEF Kinds, IdsOf
    <2>. QED
        BY <2>2, <2>3, <2>4 DEF Scheduled
<1>4. ASSUME NEW ids \in SUBSET Ids
      PROVE  /\ Tables(Without(ids)) /\ DOMAIN Without(ids) \subseteq Ids
             /\ \A j \in Kinds : ids \cap IdsOf(j) = {} => Scheduled(Without(ids), j) = Scheduled(rows, j)
    <2>1. Tables(Without(ids)) /\ DOMAIN Without(ids) \subseteq Ids
        BY <1>1 DEF Without, Tables
    <2>2. /\ DOMAIN Without(ids) = DOMAIN rows \ ids
          /\ \A i \in DOMAIN rows \ ids : Without(ids)[i] = rows[i]
        BY DEF Without
    <2>3. ASSUME NEW j \in Kinds, ids \cap IdsOf(j) = {}
          PROVE  Scheduled(Without(ids), j) = Scheduled(rows, j)
        BY <2>2, <2>3 DEF Scheduled
    <2>. QED
        BY <2>1, <2>3
<1>5. ASSUME NEW p \in Plans, NEW row \in PlanRow, SavePlan(h, p, row)
      PROVE  IInv'
    <2>1. {p} \in SUBSET Ids /\ "plan" \in Kinds /\ {"plan"} \in SUBSET Kinds
        BY DEF Ids, Kinds
    <2>. QED
        BY <1>2, <1>5, <2>1, WriteKeeps DEF SavePlan, history
<1>6. ASSUME NEW p \in Plans, NEW on \in BOOLEAN, SetEnabled(h, p, on)
      PROVE  IInv'
    <2>1. [rows[p] EXCEPT !.enabled = on] \in PlanRow
        BY <1>1, <1>6 DEF SetEnabled, Tables, PlanRow
    <2>2. "plan" \in Kinds /\ {"plan"} \in SUBSET Kinds
        BY DEF Kinds
    <2>. QED
        BY <1>2, <1>6, <2>1, <2>2, WriteKeeps DEF SetEnabled, history
<1>7. ASSUME NEW p \in Plans, DeletePlan(h, p)
      PROVE  IInv'
    <2>1. /\ {p} \in SUBSET Ids /\ "plan" \in Kinds /\ {"plan"} \in SUBSET Kinds
          /\ \A j \in Kinds \ {"plan"} : {p} \cap IdsOf(j) = {}
        BY DEF Ids, Kinds, IdsOf
    <2>. QED
        BY <1>4, <1>7, <2>1, WriteKeeps DEF DeletePlan, history
<1>8. ASSUME NEW r \in Repos, NEW row \in RepoRow(r), SaveRepo(h, r, row)
      PROVE  IInv'
    <2>1. {r} \in SUBSET Ids /\ "check" \in Kinds /\ {"check"} \in SUBSET Kinds
        BY DEF Ids, Kinds
    <2>. QED
        BY <1>3, <1>8, <2>1, WriteKeeps DEF SaveRepo, history
<1>9. ASSUME NEW r \in Repos, NEW spec \in Specs \cup {Manual}, SetCheckSchedule(h, r, spec)
      PROVE  IInv'
    <2>1. [rows[r] EXCEPT !.spec = spec] \in RepoRow(r)
        <3>1. r \in DOMAIN rows
            BY <1>9 DEF SetCheckSchedule
        <3>2. rows[r] \in RepoRow(r)
            BY <1>1, <3>1 DEF Tables
        <3>3. \A row \in RepoRow(r) : [row EXCEPT !.spec = spec] \in RepoRow(r)
            BY DEF RepoRow
        <3>. QED
            BY <3>2, <3>3
    <2>2. "check" \in Kinds /\ {"check"} \in SUBSET Kinds
        BY DEF Kinds
    <2>. QED
        BY <1>3, <1>9, <2>1, <2>2, WriteKeeps DEF SetCheckSchedule, history
<1>10. ASSUME NEW r \in Repos, DeleteRepo(h, r)
       PROVE  IInv'
    <2>. DEFINE ks == IF PlansOf(r) = {} THEN {"check"} ELSE Kinds
    <2>1. /\ {r} \cup PlansOf(r) \in SUBSET Ids
          /\ "check" \in Kinds /\ ks \in SUBSET Kinds
        BY DEF Ids, Kinds, PlansOf
    <2>2. \A j \in Kinds \ ks : ({r} \cup PlansOf(r)) \cap IdsOf(j) = {}
        BY DEF Kinds, IdsOf
    <2>. QED
        BY <1>4, <1>10, <2>1, <2>2, WriteKeeps DEF DeleteRepo
<1>. QED
    BY <1>5, <1>6, <1>7, <1>8, <1>9, <1>10

\* A handler that ends without a Reload says so in skipped.
LEMMA GiveUpKeeps ==
    ASSUME IInv, NEW h \in Requests, GiveUp(h), req[h].at \in {"reread", "reload"}
    PROVE  IInv'
<1>. USE SchedulerAssumption DEF IInv, SchedulerInv
<1>1. req[h].kind \in Kinds
    BY DEF TypeOK, Request
<1>2. Idle \in Request /\ Idle.at = "idle"
    BY DEF Idle, Standing, Request, Kinds
<1>3. /\ req' \in [Requests -> Request]
      /\ req'[h].at = "idle"
      /\ \A g \in Requests \ {h} : req'[g] = req[g]
    BY <1>2 DEF GiveUp, TypeOK
<1>4. TypeOK'
    BY <1>1, <1>3 DEF GiveUp, TypeOK, table, lists
<1>5. VersionsAreTrue'
    BY <1>3 DEF GiveUp, VersionsAreTrue, table
<1>7. OneReloads'
    <2>1. up
        BY DEF OneReloads
    <2>. QED
        BY <2>1, <1>3, ListsStay DEF GiveUp, table, lists
<1>6. BehindForAReason'
    <2>1. ASSUME NEW k \in Kinds, NEW g \in Requests, Brings(g, k)
          PROVE  Brings(g, k)' \/ k \in skipped'
        <3>1. CASE g = h
            BY <2>1, <3>1 DEF Brings, GiveUp
        <3>2. CASE g # h
            BY <2>1, <3>2, <1>3 DEF Brings, GiveUp, table
        <3>. QED
            BY <3>1, <3>2
    <2>. QED
        BY <2>1 DEF BehindForAReason, GiveUp, table
<1>. QED
    BY <1>4, <1>5, <1>6, <1>7

\* Entries made of items, and back.
LEMMA EntriesOfItems ==
    ASSUME NEW items \in SUBSET Item, NEW v \in 0..MaxWrites
    PROVE  LET es == {EntryOf(i, v) : i \in items} IN
             /\ es \in SUBSET Entry
             /\ ItemsOf(es) = items
             /\ \A e \in es : e.version = v
<1>. DEFINE es == {EntryOf(i, v) : i \in items}
<1>1. \A i \in items : /\ EntryOf(i, v) \in Entry
                       /\ EntryOf(i, v).id = i.id /\ EntryOf(i, v).spec = i.spec
                       /\ EntryOf(i, v).version = v
                       /\ [id |-> i.id, spec |-> i.spec] = i
    BY DEF EntryOf, Entry, Item
<1>2. ItemsOf(es) = {[id |-> EntryOf(i, v).id, spec |-> EntryOf(i, v).spec] : i \in items}
    BY DEF ItemsOf
<1>3. ItemsOf(es) = {i : i \in items}
    BY <1>1, <1>2
<1>. QED
    BY <1>1, <1>3

\* The steps of a request from its write to the mutex.
LEMMA RequestKeeps ==
    ASSUME IInv, NEW h \in Requests, Reread(h) \/ Load(h)
    PROVE  IInv'
<1>. USE SchedulerAssumption DEF IInv, SchedulerInv
<1>0. PICK k \in Kinds : req[h].kind = k
    BY DEF TypeOK, Request
<1>1. req[h] \in Request /\ req[h].kind = k /\ up
    BY <1>0 DEF TypeOK, Reread, Load, OneReloads
<1>2. ASSUME req[h].at = "reread", GoOn(h, "reload", k, {}),
             UNCHANGED <<table, up, lists, jobs, history>>
      PROVE  IInv'
    <2>1. Standing("reload", k, {}, {}, 0) \in Request
        BY <1>1 DEF Standing, Request
    <2>2. /\ req' \in [Requests -> Request]
          /\ req'[h].at = "reload" /\ req'[h].kind = k
          /\ \A g \in Requests \ {h} : req'[g] = req[g]
        BY <1>2, <2>1 DEF GoOn, TypeOK, Standing
    <2>3. TypeOK'
        BY <1>2, <2>2 DEF TypeOK, table, lists, history
    <2>4. VersionsAreTrue'
        BY <1>2, <2>2 DEF VersionsAreTrue, table, history
    <2>5. ASSUME NEW j \in Kinds, NEW g \in Requests, Brings(g, j)
          PROVE  Brings(g, j)'
        <3>1. CASE g = h
            BY <3>1, <2>5, <1>1, <2>2 DEF Brings
        <3>2. CASE g # h
            <4>1. req'[g] = req[g] /\ written' = written
                BY <3>2, <1>2, <2>2 DEF table
            <4>. QED
                BY <4>1, <2>5 DEF Brings
        <3>. QED
            BY <3>1, <3>2
    <2>6. BehindForAReason'
        BY <1>2, <2>5 DEF BehindForAReason, table, history
    <2>7. OneReloads'
        BY <1>1, <1>2, <2>2, ListsStay DEF table, lists, history
    <2>. QED
        BY <2>3, <2>4, <2>6, <2>7
<1>3. ASSUME req[h].at = "reload",
             req' = [req EXCEPT ![h] = Standing("lock", k, {}, Scheduled(rows, k), version)],
             UNCHANGED <<table, up, lists, jobs, history>>
      PROVE  IInv'
    <2>1. Scheduled(rows, k) \in SUBSET Item
        BY <1>1, ScheduledType DEF TypeOK
    <2>2. Standing("lock", k, {}, Scheduled(rows, k), version) \in Request
        BY <1>1, <2>1 DEF Standing, Request, TypeOK
    <2>3. /\ req' \in [Requests -> Request]
          /\ req'[h].at = "lock" /\ req'[h].kind = k
          /\ req'[h].items = Scheduled(rows, k) /\ req'[h].version = version
          /\ \A g \in Requests \ {h} : req'[g] = req[g]
        BY <1>3, <2>2 DEF TypeOK, Standing
    <2>4. TypeOK'
        BY <1>3, <2>3 DEF TypeOK, table, lists, history
    <2>5. version \in written[k]..version
        BY <1>1 DEF TypeOK
    <2>6. Scheduled(rows, k) = past[version][k]
        BY <1>1, <2>5 DEF VersionsAreTrue
    <2>7. VersionsAreTrue'
        <3>1. ASSUME NEW g \in Requests, req'[g].at \in {"lock", "remove"}
              PROVE  /\ req'[g].version <= version
                     /\ req'[g].items = past[req'[g].version][req'[g].kind]
            <4>1. version <= version
                BY DEF TypeOK
            <4>. QED
                BY <3>1, <4>1, <2>3, <2>6 DEF VersionsAreTrue
        <3>. QED
            BY <1>3, <3>1 DEF VersionsAreTrue, table, history
    <2>8. \A j \in Kinds, g \in Requests : Brings(g, j) => Brings(g, j)'
        BY <1>1, <1>3, <2>3, <2>5 DEF Brings, table, TypeOK
    <2>9. BehindForAReason'
        BY <1>3, <2>8 DEF BehindForAReason, table, history
    <2>10. OneReloads'
        BY <1>1, <1>3, <2>3, ListsStay DEF table, lists, history
    <2>. QED
        BY <2>4, <2>7, <2>9, <2>10
<1>5. CASE Reread(h)
    BY <1>1, <1>2, <1>5, GiveUpKeeps DEF Reread
<1>6. CASE Load(h)
    BY <1>1, <1>3, <1>6, GiveUpKeeps DEF Load
<1>. QED
    BY <1>5, <1>6

\* What the steps under the mutex have in common: only one request moves, and
\* only the lists of its kind change.
LEMMA OtherKinds ==
    ASSUME IInv, NEW h \in Requests, NEW k \in Kinds, req[h].kind = k,
           req' \in [Requests -> Request], req'[h].kind = k \/ req'[h].at = "idle",
           \A g \in Requests \ {h} : req'[g] = req[g],
           \A j \in Kinds \ {k} : /\ cron'[j] = cron[j] /\ entries'[j] = entries[j]
                                  /\ installed'[j] = installed[j],
           up' = up, past' = past
    PROVE  \A j \in Kinds \ {k} : ListStands(j)'
<1>. USE DEF IInv, SchedulerInv
<1>. SUFFICES ASSUME NEW j \in Kinds \ {k}
              PROVE  ListStands(j)'
    OBVIOUS
<1>1. Reloading(j)' <=> Reloading(j)
    BY DEF Reloading
<1>2. \A g \in Requests : req'[g].kind = j /\ req'[g].at # "idle" => req'[g] = req[g]
    OBVIOUS
<1>3. ListStands(j)
    BY DEF OneReloads
<1>. QED
    BY <1>1, <1>2, <1>3 DEF ListStands, ItemsOf

\* Reload waits for the mutex, and nobody else is in it then.
LEMMA LockKeeps ==
    ASSUME IInv, NEW h \in Requests, Lock(h)
    PROVE  IInv'
<1>. USE SchedulerAssumption DEF IInv, SchedulerInv
<1>0. PICK k \in Kinds : req[h].kind = k
    BY DEF TypeOK, Request
<1>1. /\ req[h] \in Request /\ req[h].at = "lock" /\ up /\ ~Reloading(k)
      /\ UNCHANGED <<table, up, lists, jobs, history>>
    BY <1>0 DEF TypeOK, Lock, OneReloads
<1>2. /\ req' \in [Requests -> Request]
      /\ req'[h] = [req[h] EXCEPT !.at = "remove"]
      /\ req'[h].at = "remove" /\ req'[h].kind = k
      /\ req'[h].items = req[h].items /\ req'[h].version = req[h].version
      /\ \A g \in Requests \ {h} : req'[g] = req[g]
    BY <1>0, <1>1 DEF Lock, TypeOK, Request
<1>3. TypeOK'
    BY <1>1, <1>2 DEF TypeOK, table, lists, history
<1>4. VersionsAreTrue'
    <2>1. ASSUME NEW g \in Requests, req'[g].at \in {"lock", "remove"}
          PROVE  /\ req'[g].version <= version
                 /\ req'[g].items = past[req'[g].version][req'[g].kind]
        <3>1. CASE g = h
            BY <3>1, <1>0, <1>1, <1>2 DEF VersionsAreTrue
        <3>2. CASE g # h
            BY <2>1, <3>2, <1>2 DEF VersionsAreTrue
        <3>. QED
            BY <3>1, <3>2
    <2>. QED
        BY <2>1, <1>1 DEF VersionsAreTrue, table, history
<1>5. BehindForAReason'
    <2>1. \A j \in Kinds, g \in Requests : Brings(g, j) => Brings(g, j)'
        BY <1>0, <1>1, <1>2 DEF Brings, table
    <2>. QED
        BY <1>1, <2>1 DEF BehindForAReason, table, history
<1>6. OneReloads'
    <2>1. \A g \in Requests : req[g].at \in {"remove", "add"} => req[g].kind # k
        BY <1>1 DEF Reloading
    <2>2. /\ Reloading(k)'
          /\ \A e \in entries'[k] : e.version = installed'[k]
          /\ cron'[k] \subseteq entries'[k]
          /\ ItemsOf(entries'[k]) = past'[installed'[k]][k]
        BY <1>1, <1>2 DEF OneReloads, ListStands, Reloading, table, lists, history, ItemsOf
    <2>3. \A g, f \in Requests :
             /\ req'[f].at \in {"remove", "add"} /\ req'[g].at \in {"remove", "add"}
             /\ req'[f].kind = req'[g].kind
             => f = g
        <3>1. \A g, f \in Requests \ {h} :
                 /\ req'[f].at \in {"remove", "add"} /\ req'[g].at \in {"remove", "add"}
                 /\ req'[f].kind = req'[g].kind
                 => f = g
            BY <1>2 DEF OneReloads
        <3>2. \A g \in Requests \ {h} : req'[g].at \in {"remove", "add"} => req'[g].kind # k
            BY <1>2, <2>1
        <3>. QED
            BY <1>2, <3>1, <3>2
    <2>4. \A g \in Requests : req'[g].kind = k /\ req'[g].at \in {"remove", "add"} => g = h
        BY <1>2, <2>1
    <2>5. \A g \in Requests : req'[g].kind = k => req'[g].at # "add"
        BY <1>2, <2>4
    <2>6. ListStands(k)'
        BY <2>2, <2>5 DEF ListStands
    <2>7. \A j \in Kinds \ {k} : ListStands(j)'
        BY <1>0, <1>1, <1>2, OtherKinds DEF table, lists, history
    <2>. QED
        BY <1>1, <2>3, <2>6, <2>7 DEF OneReloads
<1>. QED
    BY <1>3, <1>4, <1>5, <1>6

\* cron loses one entry, the map keeps all.
LEMMA RemoveKeeps ==
    ASSUME IInv, NEW h \in Requests, Remove(h)
    PROVE  IInv'
<1>. USE SchedulerAssumption DEF IInv, SchedulerInv
<1>0. PICK k \in Kinds : req[h].kind = k
    BY DEF TypeOK, Request
<1>1. /\ req[h].at = "remove" /\ up /\ Reloading(k)
      /\ UNCHANGED <<table, up, entries, jobs, req, history>>
    BY <1>0 DEF Remove, OneReloads, Reloading
<1>2. /\ cron' \in [Kinds -> SUBSET Entry]
      /\ cron'[k] \subseteq cron[k]
      /\ \A j \in Kinds \ {k} : cron'[j] = cron[j]
    BY <1>0 DEF Remove, TypeOK
<1>3. TypeOK'
    BY <1>1, <1>2 DEF TypeOK, table, history
<1>4. VersionsAreTrue' /\ BehindForAReason'
    BY <1>1 DEF VersionsAreTrue, BehindForAReason, Brings, table, history
<1>5. OneReloads'
    <2>1. \A g \in Requests : req[g].kind = k => req[g].at # "add"
        BY <1>0, <1>1 DEF OneReloads
    <2>2. req' \in [Requests -> Request]
        BY <1>1 DEF TypeOK
    <2>3. Reloading(k)'
        BY <1>1 DEF Reloading
    <2>4. \A g \in Requests : req[g].kind \in Kinds
        BY DEF TypeOK, Request
    <2>5. ListStands(k)'
        BY <1>0, <1>1, <1>2, <2>1, <2>3 DEF OneReloads, ListStands, table, history, ItemsOf
    <2>6. \A j \in Kinds \ {k} : ListStands(j)'
        BY <1>0, <1>1, <1>2, <2>2, OtherKinds DEF table, history
    <2>. QED
        BY <1>1, <2>5, <2>6 DEF OneReloads
<1>. QED
    BY <1>3, <1>4, <1>5

\* The map is emptied when cron is: from here on the list is of the new version.
LEMMA ClearKeeps ==
    ASSUME IInv, NEW h \in Requests, Clear(h)
    PROVE  IInv'
<1>. USE SchedulerAssumption DEF IInv, SchedulerInv
<1>0. PICK k \in Kinds : req[h].kind = k
    BY DEF TypeOK, Request
<1>1. req[h] \in Request /\ req[h].at = "remove" /\ up
    BY DEF TypeOK, Clear, OneReloads
<1>2. PICK v \in 0..version : req[h].version = v
    <2>1. req[h].version <= version
        BY <1>1 DEF VersionsAreTrue
    <2>2. req[h].version \in 0..MaxWrites /\ version \in Nat
        BY <1>1 DEF Request, TypeOK
    <2>. QED
        BY <2>1, <2>2
<1>3. req[h].items = past[v][k]
    BY <1>0, <1>1, <1>2 DEF VersionsAreTrue
<1>4. cron[k] = {}
    BY <1>0 DEF Clear, OneReloads, ListStands
<1>5. /\ entries' = [entries EXCEPT ![k] = {}]
      /\ installed' = [installed EXCEPT ![k] = v]
      /\ UNCHANGED <<table, up, cron, jobs>>
    BY <1>0, <1>2 DEF Clear, Note
<1>6. /\ v >= written[k] => skipped' = skipped \ {k} /\ overtaken' = overtaken \ {k}
      /\ ~(v >= written[k]) =>
            /\ skipped' = skipped
            /\ overtaken' \in {overtaken, overtaken \cup {k}}
            /\ installed[k] >= written[k] => k \in overtaken'
    BY <1>0, <1>2 DEF Clear, Note
<1>7. /\ req' \in [Requests -> Request]
      /\ req'[h] = [req[h] EXCEPT !.at = "add"]
      /\ req'[h].at = "add" /\ req'[h].kind = k
      /\ req'[h].items = req[h].items /\ req'[h].version = v
      /\ \A g \in Requests \ {h} : req'[g] = req[g]
    BY <1>0, <1>1, <1>2 DEF Clear, TypeOK, Request
<1>8. TypeOK'
    BY <1>5, <1>6, <1>7 DEF TypeOK, table
<1>9. VersionsAreTrue'
    <2>1. ASSUME NEW g \in Requests, req'[g].at \in {"lock", "remove"}
          PROVE  /\ req'[g].version <= version
                 /\ req'[g].items = past[req'[g].version][req'[g].kind]
        <3>1. g # h /\ req'[g] = req[g]
            BY <2>1, <1>7
        <3>. QED
            BY <2>1, <3>1 DEF VersionsAreTrue
    <2>. QED
        BY <2>1, <1>5 DEF VersionsAreTrue, table
<1>10. BehindForAReason'
    <2>1. ASSUME NEW j \in Kinds
          PROVE  \/ installed'[j] >= written[j]
                 \/ \E g \in Requests : Brings(g, j)'
                 \/ j \in skipped' \cup overtaken'
        <3>1. CASE j # k
            <4>1. installed'[j] = installed[j]
                BY <3>1, <1>5 DEF TypeOK
            <4>2. j \in skipped \cup overtaken => j \in skipped' \cup overtaken'
                BY <3>1, <1>6
            <4>3. ASSUME NEW g \in Requests, Brings(g, j)
                  PROVE  Brings(g, j)'
                <5>1. req'[g] = req[g] /\ written' = written
                    BY <3>1, <4>3, <1>0, <1>5, <1>7 DEF Brings, table
                <5>. QED
                    BY <5>1, <4>3 DEF Brings
            <4>. QED
                BY <1>1, <4>1, <4>2, <4>3 DEF BehindForAReason
        <3>2. CASE j = k /\ v >= written[k]
            BY <3>2, <1>5 DEF TypeOK
        <3>3. CASE j = k /\ ~(v >= written[k])
            <4>1. CASE installed[k] >= written[k]
                BY <3>3, <4>1, <1>6
            <4>2. ASSUME NEW g \in Requests, Brings(g, k)
                  PROVE  Brings(g, k)'
                <5>1. g # h
                    BY <3>3, <4>2, <1>1, <1>2 DEF Brings
                <5>. QED
                    BY <4>2, <5>1, <1>5, <1>7 DEF Brings, table
            <4>3. CASE k \in skipped \cup overtaken
                BY <3>3, <4>3, <1>6
            <4>. QED
                BY <1>1, <3>3, <4>1, <4>2, <4>3 DEF BehindForAReason
        <3>. QED
            BY <3>1, <3>2, <3>3
    <2>. QED
        BY <2>1, <1>5 DEF BehindForAReason, table
<1>11. OneReloads'
    <2>1. \A g \in Requests : g # h /\ req[g].kind = k => req[g].at \notin {"remove", "add"}
        BY <1>0, <1>1 DEF OneReloads
    <2>2. Reloading(k)'
        BY <1>7 DEF Reloading
    <2>3. /\ entries'[k] = {} /\ cron'[k] = {} /\ installed'[k] = v
          /\ \A j \in Kinds \ {k} : /\ cron'[j] = cron[j] /\ entries'[j] = entries[j]
                                    /\ installed'[j] = installed[j]
        BY <1>4, <1>5 DEF TypeOK
    <2>4. ItemsOf(cron'[k]) \cup req'[h].items = past'[installed'[k]][k]
        BY <1>3, <1>5, <1>7, <2>3 DEF ItemsOf, table
    <2>5. \A g, f \in Requests :
             /\ req'[f].at \in {"remove", "add"} /\ req'[g].at \in {"remove", "add"}
             /\ req'[f].kind = req'[g].kind
             => f = g
        <3>1. \A g, f \in Requests \ {h} :
                 /\ req'[f].at \in {"remove", "add"} /\ req'[g].at \in {"remove", "add"}
                 /\ req'[f].kind = req'[g].kind
                 => f = g
            BY <1>7 DEF OneReloads
        <3>2. \A g \in Requests \ {h} : req'[g].at \in {"remove", "add"} => req'[g].kind # k
            BY <1>7, <2>1
        <3>. QED
            BY <1>7, <3>1, <3>2
    <2>7. up' = up /\ past' = past
        BY <1>5 DEF table
    <2>8. ListStands(k)'
        <3>1. \A g \in Requests : req'[g].kind = k /\ req'[g].at \in {"remove", "add"} => g = h
            BY <1>7, <2>1
        <3>. QED
            BY <1>7, <2>2, <2>3, <2>4, <3>1 DEF ListStands
    <2>9. \A j \in Kinds \ {k} : ListStands(j)'
        BY <1>0, <1>7, <2>3, <2>7, OtherKinds
    <2>. QED
        BY <1>1, <2>5, <2>7, <2>8, <2>9 DEF OneReloads
<1>. QED
    BY <1>8, <1>9, <1>10, <1>11

\* One item more, in cron and in the map.
LEMMA AddKeeps ==
    ASSUME IInv, NEW h \in Requests, Add(h)
    PROVE  IInv'
<1>. USE SchedulerAssumption DEF IInv, SchedulerInv
<1>0. PICK k \in Kinds : req[h].kind = k
    BY DEF TypeOK, Request
<1>1. /\ req[h] \in Request /\ req[h].at = "add" /\ up /\ req[h].version = installed[k]
      /\ cron[k] = entries[k]
      /\ ItemsOf(cron[k]) \cup req[h].items = past[installed[k]][k]
      /\ UNCHANGED <<table, up, jobs, history>>
    BY <1>0 DEF TypeOK, Add, OneReloads, ListStands
<1>2. PICK item \in req[h].items :
        /\ cron' = [cron EXCEPT ![k] = @ \cup {EntryOf(item, req[h].version)}]
        /\ entries' = [entries EXCEPT ![k] = {e \in @ : e.id # item.id}
                                                \cup {EntryOf(item, req[h].version)}]
        /\ req' = [req EXCEPT ![h].items = @ \ {item}]
    BY <1>0 DEF Add
<1>. DEFINE new == EntryOf(item, req[h].version)
<1>3. /\ item \in Item /\ new \in Entry
      /\ new.id = item.id /\ new.spec = item.spec /\ new.version = installed[k]
      /\ [id |-> new.id, spec |-> new.spec] = item
    BY <1>1 DEF Request, EntryOf, Entry, Item
<1>4. /\ req' \in [Requests -> Request]
      /\ req'[h] = [req[h] EXCEPT !.items = req[h].items \ {item}]
      /\ req'[h].at = "add" /\ req'[h].kind = k /\ req'[h].version = installed[k]
      /\ req'[h].items = req[h].items \ {item}
      /\ \A g \in Requests \ {h} : req'[g] = req[g]
    BY <1>0, <1>1, <1>2 DEF TypeOK, Request
<1>5. /\ cron' \in [Kinds -> SUBSET Entry] /\ entries' \in [Kinds -> SUBSET Entry]
      /\ cron'[k] = cron[k] \cup {new}
      /\ entries'[k] = {e \in entries[k] : e.id # item.id} \cup {new}
      /\ \A j \in Kinds \ {k} : cron'[j] = cron[j] /\ entries'[j] = entries[j]
    BY <1>2, <1>3 DEF TypeOK
<1>6. TypeOK'
    BY <1>1, <1>4, <1>5 DEF TypeOK, table, history
<1>7. VersionsAreTrue'
    <2>1. ASSUME NEW g \in Requests, req'[g].at \in {"lock", "remove"}
          PROVE  /\ req'[g].version <= version
                 /\ req'[g].items = past[req'[g].version][req'[g].kind]
        <3>1. g # h /\ req'[g] = req[g]
            BY <2>1, <1>4
        <3>. QED
            BY <2>1, <3>1 DEF VersionsAreTrue
    <2>. QED
        BY <2>1, <1>1 DEF VersionsAreTrue, table, history
<1>8. BehindForAReason'
    <2>1. \A j \in Kinds, g \in Requests : Brings(g, j) => Brings(g, j)'
        BY <1>1, <1>4 DEF Brings, table
    <2>. QED
        BY <1>1, <2>1 DEF BehindForAReason, table, history
<1>9. OneReloads'
    <2>1. \A g \in Requests : g # h /\ req[g].kind = k => req[g].at \notin {"remove", "add"}
        BY <1>0, <1>1 DEF OneReloads
    <2>2. Reloading(k)'
        BY <1>4 DEF Reloading
    <2>3. cron'[k] = entries'[k]
        <3>1. ASSUME NEW e \in cron[k], e.id = item.id
              PROVE  e = new
            <4>1. e.version = installed[k] /\ e \in Entry
                BY <1>1 DEF OneReloads, ListStands, TypeOK
            <4>2. [id |-> e.id, spec |-> e.spec] \in past[installed[k]][k]
                BY <1>1 DEF ItemsOf
            <4>3. item \in past[installed[k]][k]
                BY <1>1, <1>2
            <4>4. e.spec = item.spec
                BY <3>1, <4>2, <4>3, <1>1 DEF VersionsAreTrue, TypeOK
            <4>. QED
                BY <3>1, <4>1, <4>4, <1>3 DEF Entry
        <3>. QED
            BY <1>1, <1>5, <3>1
    <2>4. ItemsOf(cron'[k]) \cup req'[h].items = past[installed[k]][k]
        <3>1. ItemsOf(cron'[k]) = ItemsOf(cron[k]) \cup {item}
            BY <1>3, <1>5 DEF ItemsOf
        <3>. QED
            BY <3>1, <1>1, <1>2, <1>4
    <2>5. \A e \in entries'[k] : e.version = installed[k]
        BY <1>3, <1>5 DEF OneReloads, ListStands
    <2>6. \A g, f \in Requests :
             /\ req'[f].at \in {"remove", "add"} /\ req'[g].at \in {"remove", "add"}
             /\ req'[f].kind = req'[g].kind
             => f = g
        <3>1. \A g, f \in Requests \ {h} :
                 /\ req'[f].at \in {"remove", "add"} /\ req'[g].at \in {"remove", "add"}
                 /\ req'[f].kind = req'[g].kind
                 => f = g
            BY <1>4 DEF OneReloads
        <3>2. \A g \in Requests \ {h} : req'[g].at \in {"remove", "add"} => req'[g].kind # k
            BY <1>4, <2>1
        <3>. QED
            BY <1>4, <3>1, <3>2
    <2>8. up' = up /\ past' = past /\ installed' = installed
        BY <1>1 DEF table, history
    <2>9. ListStands(k)'
        <3>1. \A g \in Requests : req'[g].kind = k /\ req'[g].at \in {"remove", "add"} => g = h
            BY <1>4, <2>1
        <3>. QED
            BY <1>4, <2>2, <2>3, <2>4, <2>5, <2>8, <3>1 DEF ListStands
    <2>10. \A j \in Kinds \ {k} : ListStands(j)'
        BY <1>0, <1>4, <1>5, <2>8, OtherKinds
    <2>. QED
        BY <1>1, <2>6, <2>8, <2>9, <2>10 DEF OneReloads
<1>. QED
    BY <1>6, <1>7, <1>8, <1>9

\* Reload returns once its list is complete.
LEMMA UnlockKeeps ==
    ASSUME IInv, NEW h \in Requests, Unlock(h)
    PROVE  IInv'
<1>. USE SchedulerAssumption DEF IInv, SchedulerInv
<1>0. PICK k \in Kinds : req[h].kind = k
    BY DEF TypeOK, Request
<1>1. /\ req[h].at = "add" /\ req[h].items = {} /\ up
      /\ cron[k] = entries[k]
      /\ ItemsOf(cron[k]) = past[installed[k]][k]
      /\ UNCHANGED <<table, up, lists, jobs, history>>
    <2>1. /\ req[h].at = "add" /\ req[h].items = {} /\ up
          /\ UNCHANGED <<table, up, lists, jobs, history>>
        BY DEF Unlock, OneReloads
    <2>2. /\ cron[k] = entries[k]
          /\ ItemsOf(cron[k]) \cup req[h].items = past[installed[k]][k]
        BY <1>0, <2>1 DEF OneReloads, ListStands
    <2>. QED
        BY <2>1, <2>2
<1>2. Idle \in Request /\ Idle.at = "idle"
    BY DEF Idle, Standing, Request, Kinds
<1>3. /\ req' \in [Requests -> Request]
      /\ req'[h].at = "idle"
      /\ \A g \in Requests \ {h} : req'[g] = req[g]
    BY <1>2 DEF Unlock, TypeOK
<1>4. TypeOK'
    BY <1>1, <1>3 DEF TypeOK, table, lists, history
<1>5. VersionsAreTrue'
    BY <1>1, <1>3 DEF VersionsAreTrue, table, history
<1>6. BehindForAReason'
    <2>1. \A j \in Kinds, g \in Requests : Brings(g, j) => Brings(g, j)'
        BY <1>1, <1>3 DEF Brings, table
    <2>. QED
        BY <1>1, <2>1 DEF BehindForAReason, table, history
<1>7. OneReloads'
    <2>1. \A g \in Requests : g # h /\ req[g].kind = k => req[g].at \notin {"remove", "add"}
        BY <1>0, <1>1 DEF OneReloads
    <2>2. \A g, f \in Requests :
             /\ req'[f].at \in {"remove", "add"} /\ req'[g].at \in {"remove", "add"}
             /\ req'[f].kind = req'[g].kind
             => f = g
        BY <1>3 DEF OneReloads
    <2>4. \A g \in Requests : req'[g].at \in {"remove", "add"} => g # h /\ req'[g].kind # k
        BY <1>3, <2>1
    <2>5. /\ up' = up /\ past' = past /\ installed' = installed
          /\ cron' = cron /\ entries' = entries
        BY <1>1 DEF table, lists, history
    <2>6. cron[k] \subseteq entries[k] /\ \A e \in entries[k] : e.version = installed[k]
        BY DEF OneReloads, ListStands
    <2>7. ListStands(k)'
        BY <1>1, <2>4, <2>5, <2>6 DEF ListStands
    <2>8. \A j \in Kinds \ {k} : ListStands(j)'
        BY <1>0, <1>3, <2>5, OtherKinds
    <2>. QED
        BY <1>1, <2>2, <2>5, <2>7, <2>8 DEF OneReloads
<1>. QED
    BY <1>4, <1>5, <1>6, <1>7

\* The steps of a request after its write.
LEMMA ServeKeeps ==
    ASSUME IInv, NEW h \in Requests, Serve(h)
    PROVE  IInv'
BY RequestKeeps, LockKeeps, RemoveKeeps, ClearKeeps, AddKeeps, UnlockKeeps DEF Serve

\* cron and the process.
LEMMA OutsideKeeps ==
    ASSUME IInv,
           (\E i \in Ids : Fire(i) \/ RunJob(i)) \/ Crash \/ Restart \/ UNCHANGED vars
    PROVE  IInv'
<1>. USE SchedulerAssumption DEF IInv, SchedulerInv
<1>1. ASSUME NEW i \in Ids, Fire(i) \/ RunJob(i)
      PROVE  IInv'
    <2>1. jobs' \subseteq Ids /\ UNCHANGED <<table, up, lists, req, history>>
        BY <1>1 DEF Fire, RunJob, TypeOK
    <2>2. TypeOK'
        BY <2>1 DEF TypeOK, table, lists, history
    <2>3. VersionsAreTrue'
        BY <2>1 DEF VersionsAreTrue, table, history
    <2>4. BehindForAReason'
        BY <2>1 DEF BehindForAReason, Brings, table, history
    <2>5. OneReloads'
        BY <2>1, ListsStay DEF table, lists, history
    <2>. QED
        BY <2>2, <2>3, <2>4, <2>5
<1>2. CASE Crash
    <2>1. Idle \in Request /\ Idle.at = "idle"
        BY DEF Idle, Standing, Request, Kinds
    <2>2. req' \in [Requests -> Request] /\ \A h \in Requests : req'[h].at = "idle"
        BY <1>2, <2>1 DEF Crash
    <2>3. TypeOK'
        BY <1>2, <2>2 DEF Crash, TypeOK, table, history
    <2>4. VersionsAreTrue'
        BY <1>2, <2>2 DEF Crash, VersionsAreTrue, table, history
    <2>5. BehindForAReason'
        BY <1>2 DEF Crash, BehindForAReason
    <2>6. OneReloads'
        BY <1>2, <2>2 DEF Crash, OneReloads, ListStands
    <2>. QED
        BY <2>3, <2>4, <2>5, <2>6
<1>3. CASE Restart
    <2>1. /\ AllScheduled(rows) \in [Kinds -> SUBSET Item]
          /\ \A k \in Kinds : AllScheduled(rows)[k] = Scheduled(rows, k)
        BY AllScheduledType DEF TypeOK
    <2>2. version \in 0..version /\ \A k \in Kinds : version \in written[k]..version
        BY DEF TypeOK
    <2>7. version \in 0..MaxWrites
        BY DEF TypeOK
    <2>8. \A k \in Kinds : LET es == {EntryOf(i, version) : i \in Scheduled(rows, k)} IN
             /\ es \in SUBSET Entry
             /\ ItemsOf(es) = Scheduled(rows, k)
             /\ \A e \in es : e.version = version
        BY <2>1, <2>7, EntriesOfItems
    <2>3. TypeOK'
        BY <1>3, <2>1, <2>2, <2>8 DEF Restart, TypeOK, table
    <2>4. VersionsAreTrue'
        BY <1>3, <2>1, <2>2 DEF Restart, VersionsAreTrue, table
    <2>5. BehindForAReason'
        BY <1>3, <2>2 DEF Restart, BehindForAReason, table, TypeOK
    <2>6. OneReloads'
        <3>1. \A k \in Kinds : past[version][k] = Scheduled(rows, k)
            BY <2>2 DEF VersionsAreTrue
        <3>2. \A h \in Requests : req[h].at = "idle"
            BY <1>3 DEF Restart, OneReloads
        <3>. QED
            BY <1>3, <2>8, <3>1, <3>2 DEF Restart, OneReloads, ListStands, table
    <2>. QED
        BY <2>3, <2>4, <2>5, <2>6
<1>4. CASE UNCHANGED vars
    <2>1. TypeOK'
        BY <1>4 DEF vars, TypeOK
    <2>2. VersionsAreTrue'
        BY <1>4 DEF vars, VersionsAreTrue
    <2>3. BehindForAReason'
        BY <1>4 DEF vars, BehindForAReason, Brings
    <2>4. OneReloads'
        BY <1>4, ListsStay DEF vars
    <2>. QED
        BY <2>1, <2>2, <2>3, <2>4
<1>. QED
    BY <1>1, <1>2, <1>3, <1>4

\* TypeOK and SchedulerInv hold in every reachable state: what a Reload loads and
\* installs is one version of the table, and cron is behind only for a reason.
THEOREM Inductive == Spec => [](TypeOK /\ SchedulerInv)
<1>. USE SchedulerAssumption DEF IInv
<1>1. Init => IInv
    <2>. SUFFICES ASSUME Init PROVE IInv
        OBVIOUS
    <2>1. Idle \in Request /\ Idle.at = "idle"
        BY DEF Idle, Standing, Request, Kinds
    <2>2. DOMAIN rows = {} /\ \A k \in Kinds : Scheduled(rows, k) = {}
        BY DEF Init, Scheduled
    <2>3. TypeOK
        BY <2>1, <2>2 DEF Init, TypeOK, Tables
    <2>4. VersionsAreTrue
        BY <2>1, <2>2 DEF Init, VersionsAreTrue
    <2>5. BehindForAReason
        BY DEF Init, BehindForAReason
    <2>6. OneReloads
        BY <2>1 DEF Init, OneReloads, ListStands, ItemsOf
    <2>. QED
        BY <2>3, <2>4, <2>5, <2>6 DEF SchedulerInv
<1>2. IInv /\ [Next]_vars => IInv'
    <2>. SUFFICES ASSUME IInv, [Next]_vars PROVE IInv'
        OBVIOUS
    <2>1. CASE Next
        BY <2>1, HandlersKeep, ServeKeeps, OutsideKeeps DEF Next, Serve
    <2>2. CASE UNCHANGED vars
        BY <2>2, OutsideKeeps
    <2>. QED
        BY <2>1, <2>2
<1>. QED
    BY <1>1, <1>2, PTL DEF Spec

\* Tables, versions, entries, jobs and requests have their types (scheduler.go, plan.go,
\* repo.go), for any number of requests and writes.
THEOREM TypeCorrect == Spec => []TypeOK
BY Inductive, PTL

\* cron fires no item that is not in the list it is being given.
LEMMA ListIsPart ==
    ASSUME TypeOK, SchedulerInv, NEW k \in Kinds
    PROVE  ItemsOf(cron[k]) \subseteq past[installed[k]][k]
<1>. USE DEF SchedulerInv, OneReloads, ListStands
<1>1. CASE ~up
    BY <1>1 DEF ItemsOf
<1>2. CASE up /\ ~Reloading(k)
    BY <1>2
<1>3. CASE Reloading(k)
    <2>1. PICK h \in Requests : req[h].kind = k /\ req[h].at \in {"remove", "add"}
        BY <1>3 DEF Reloading
    <2>2. ItemsOf(cron[k]) \subseteq ItemsOf(entries[k])
        BY DEF ItemsOf
    <2>. QED
        BY <2>1, <2>2
<1>. QED
    BY <1>1, <1>2, <1>3

\* In the middle of a Reload too, cron has one entry for an item, all of one load,
\* and the map knows them; only a Reload in the mutex makes the list incomplete.
THEOREM OneList == Spec => []CronHoldsOneList
<1>1. ASSUME TypeOK, SchedulerInv
      PROVE  CronHoldsOneList
    <2>. SUFFICES ASSUME NEW k \in Kinds
                  PROVE  /\ \A e, f \in cron[k] : e.version = f.version /\ (e.id = f.id => e = f)
                         /\ cron[k] \subseteq entries[k]
                         /\ ItemsOf(cron[k]) \subseteq past[installed[k]][k]
                         /\ up /\ ItemsOf(cron[k]) # past[installed[k]][k] => Reloading(k)
        BY DEF CronHoldsOneList
    <2>1. cron[k] \subseteq entries[k] /\ cron[k] \subseteq Entry
        BY <1>1 DEF SchedulerInv, OneReloads, ListStands, TypeOK
    <2>2. ItemsOf(cron[k]) \subseteq past[installed[k]][k]
        BY <1>1, ListIsPart
    <2>3. ASSUME NEW e \in cron[k], NEW f \in cron[k]
          PROVE  e.version = f.version /\ (e.id = f.id => e = f)
        <3>1. e.version = installed[k] /\ f.version = installed[k]
            BY <1>1, <2>1 DEF SchedulerInv, OneReloads, ListStands
        <3>2. /\ [id |-> e.id, spec |-> e.spec] \in past[installed[k]][k]
              /\ [id |-> f.id, spec |-> f.spec] \in past[installed[k]][k]
            BY <2>2 DEF ItemsOf
        <3>3. e.id = f.id => e.spec = f.spec
            BY <3>2, <1>1, SchedulerAssumption DEF SchedulerInv, VersionsAreTrue, TypeOK
        <3>. QED
            BY <2>1, <3>1, <3>3 DEF Entry
    <2>4. up /\ ItemsOf(cron[k]) # past[installed[k]][k] => Reloading(k)
        BY <1>1 DEF SchedulerInv, OneReloads, ListStands
    <2>. QED
        BY <2>1, <2>2, <2>3, <2>4
<1>. QED
    BY <1>1, Inductive, PTL

\* The invariant bounds how a scheduler can disagree with its table.
LEMMA ReasonFromInv ==
    ASSUME TypeOK, SchedulerInv
    PROVE  /\ OutOfSyncForAReason
           /\ up => \A k \in Kinds : \/ ItemsOf(cron[k]) \subseteq Scheduled(rows, k)
                                     \/ \E h \in Requests : Brings(h, k)
                                     \/ k \in skipped \cup overtaken
<1>1. ASSUME NEW k \in Kinds, up, installed[k] >= written[k]
      PROVE  InSync(k) \/ Reloading(k)
    <2>1. installed[k] \in written[k]..version
        BY <1>1 DEF TypeOK
    <2>2. past[installed[k]][k] = Scheduled(rows, k)
        BY <2>1 DEF SchedulerInv, VersionsAreTrue
    <2>. QED
        BY <1>1, <2>2 DEF SchedulerInv, OneReloads, ListStands, InSync
<1>2. ASSUME NEW k \in Kinds, up, installed[k] >= written[k]
      PROVE  ItemsOf(cron[k]) \subseteq Scheduled(rows, k)
    <2>1. installed[k] \in written[k]..version
        BY <1>2 DEF TypeOK
    <2>2. past[installed[k]][k] = Scheduled(rows, k)
        BY <2>1 DEF SchedulerInv, VersionsAreTrue
    <2>. QED
        BY <2>2, ListIsPart
<1>3. OutOfSyncForAReason
    BY <1>1 DEF SchedulerInv, BehindForAReason, OutOfSyncForAReason
<1>. QED
    BY <1>2, <1>3 DEF SchedulerInv, BehindForAReason

\* A scheduler disagrees with its table only while a request is about to reload
\* it, after a request or a cascade has skipped the reload, or after an older
\* Reload came last: for any number of requests, writes, crashes and restarts.
THEOREM Reasons == Spec => []OutOfSyncForAReason
<1>. QED
    BY ReasonFromInv, Inductive, PTL

\* cron never starts a job for a row that is gone, disabled or without schedule,
\* except for one of the reasons above.
THEOREM Fires == Spec => FiresWhatIsScheduled
<1>. DEFINE Good == \A i \in Ids : i \in jobs' \ jobs =>
                LET k == IF i \in Plans THEN "plan" ELSE "check" IN
                   \/ i \in {e.id : e \in Scheduled(rows, k)}
                   \/ \E h \in Requests : Brings(h, k)
                   \/ k \in skipped \cup overtaken
<1>1. TypeOK /\ SchedulerInv /\ [Next]_vars => [Good]_vars
    <2>. SUFFICES ASSUME TypeOK, SchedulerInv, [Next]_vars, NEW i \in Ids, i \in jobs' \ jobs,
                         NEW k, k = IF i \in Plans THEN "plan" ELSE "check"
                  PROVE  \/ i \in {e.id : e \in Scheduled(rows, k)}
                         \/ \E h \in Requests : Brings(h, k)
                         \/ k \in skipped \cup overtaken
        OBVIOUS
    <2>0. jobs' # jobs /\ ~ jobs' \subseteq jobs
        OBVIOUS
    <2>1. Fire(i)
        <3>1. ASSUME NEW h \in Requests, Serve(h)
              PROVE  jobs' = jobs
            BY <3>1 DEF Serve, Reread, Load, Lock, Remove, Clear, Add, Unlock, GiveUp
        <3>2. ASSUME NEW h \in Requests, NEW p \in Plans,
                     \/ \E row \in PlanRow : SavePlan(h, p, row)
                     \/ \E on \in BOOLEAN : SetEnabled(h, p, on)
                     \/ DeletePlan(h, p)
              PROVE  jobs' = jobs
            BY <3>2 DEF SavePlan, SetEnabled, DeletePlan
        <3>3. ASSUME NEW h \in Requests, NEW r \in Repos,
                     \/ \E row \in RepoRow(r) : SaveRepo(h, r, row)
                     \/ \E spec \in Specs \cup {Manual} : SetCheckSchedule(h, r, spec)
                     \/ DeleteRepo(h, r)
              PROVE  jobs' = jobs
            BY <3>3 DEF SaveRepo, SetCheckSchedule, DeleteRepo
        <3>4. (\E j \in Ids : RunJob(j)) \/ Crash \/ Restart \/ UNCHANGED vars => jobs' \subseteq jobs
            BY DEF RunJob, Crash, Restart, vars
        <3>5. \E j \in Ids : Fire(j)
            BY <2>0, <3>1, <3>2, <3>3, <3>4 DEF Next, Serve
        <3>. QED
            BY <3>5 DEF Fire
    <2>7. PICK j \in Kinds : \E e \in cron[j] : e.id = i
        BY <2>1 DEF Fire
    <2>2. PICK e \in cron[j] : e.id = i
        BY <2>7
    <2>3. [id |-> e.id, spec |-> e.spec] \in ItemsOf(cron[j])
        BY DEF ItemsOf
    <2>4. i \in IdsOf(j)
        <3>1. installed[j] \in 0..MaxWrites
            BY SchedulerAssumption DEF TypeOK
        <3>2. [id |-> e.id, spec |-> e.spec] \in past[installed[j]][j]
            BY <2>3, ListIsPart
        <3>. QED
            BY <2>2, <3>1, <3>2 DEF SchedulerInv, VersionsAreTrue
    <2>5. j = k
        BY <2>4, SchedulerAssumption DEF IdsOf, Kinds
    <2>6. CASE ItemsOf(cron[j]) \subseteq Scheduled(rows, j)
        BY <2>2, <2>3, <2>5, <2>6
    <2>. QED
        BY <2>1, <2>5, <2>6, ReasonFromInv DEF Fire
<1>. QED
    BY <1>1, Inductive, PTL DEF Spec, FiresWhatIsScheduled
=============================================================================
