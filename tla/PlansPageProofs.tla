--------------------------- MODULE PlansPageProofs ---------------------------
(***************************************************************************)
(* Theorems about PlansPage, for every set of plans, names and schedules,  *)
(* and any number of clicks, lost answers and changes from elsewhere.      *)
(***************************************************************************)
EXTENDS PlansPage, TLAPS, FiniteSetTheorems

\* A form shows a row with its own controls.
LEMMA FormOfType ==
    ASSUME NEW r \in Row
    PROVE  FormOf(r) \in Draft
BY PageAssumption DEF FormOf, Row, Draft

\* A form with a name sends a row.
LEMMA InputOfType ==
    ASSUME NEW d \in Draft, d.name # ""
    PROVE  InputOf(d) \in Row
BY PageAssumption DEF InputOf, Row, Draft

\* A new form has controls.
LEMMA BlankType == Blank \in Draft /\ NoRow.row \in Row
<1>1. (CHOOSE c \in Contents : TRUE) \in Contents
    BY PageAssumption
<1>2. PICK n \in Names, c \in Contents : TRUE
    BY PageAssumption
<1>3. [name |-> n, contents |-> c, schedule |-> "", keep |-> TRUE, prune |-> TRUE,
       enabled |-> TRUE] \in Row
    BY <1>2 DEF Row
<1>4. (CHOOSE r \in Row : TRUE) \in Row
    BY <1>3
<1>. QED
    BY <1>1, <1>4 DEF Blank, Draft, NoRow

\* Opening a plan and saving it as it is sends the row, but for prune.
LEMMA RoundTrip ==
    ASSUME NEW r \in Row, NEW f \in RowField, f # "prune"
    PROVE  InputOf(FormOf(r))[f] = r[f]
<1>1. "custom" \notin {""} \cup Presets
    BY PageAssumption
<1>2. CASE f = "schedule"
    BY <1>1, <1>2 DEF InputOf, FormOf, Row
<1>3. CASE f = "name"
    BY <1>3 DEF InputOf, FormOf, Row
<1>4. CASE f = "contents"
    BY <1>4 DEF InputOf, FormOf, Row
<1>5. CASE f = "keep"
    BY <1>5 DEF InputOf, FormOf, Row
<1>6. CASE f = "enabled"
    BY <1>6 DEF InputOf, FormOf, Row
<1>. QED
    BY <1>2, <1>3, <1>4, <1>5, <1>6 DEF RowField

\* prune is sent as it is unless the policy is without it.
LEMMA RoundTripPrune ==
    ASSUME NEW r \in Row, r.prune => r.keep, ~(r.keep /\ ~r.prune)
    PROVE  InputOf(FormOf(r)).prune = r.prune
BY DEF InputOf, FormOf, Row

\* A form that leaves the page leaves nothing behind.
LEMMA UnmountType ==
    ASSUME TypeOK, NEW K \in SUBSET Forms, Unmount(K)
    PROVE  /\ open' \subseteq Forms
           /\ target' \in [Forms -> Plans \cup {None}]
           /\ draft' \in [Forms -> Draft]
           /\ input' \in [Forms -> [to : Plans \cup {None}, d : Draft, touched : SUBSET Field]]
           /\ asking' \in [Forms -> [Views -> SUBSET Questions]]
           /\ preview' \in [Forms -> [Views -> SUBSET Questions]]
           /\ base' \in [Forms -> [id : Plans \cup {None}, row : Row]]
           /\ touched' \in [Forms -> SUBSET Field]
           /\ wanted' \in [Forms -> [Views -> SUBSET Questions]]
           /\ born' \subseteq Plans
           /\ unsure' \subseteq Forms
<1>1. NoViews \in [Views -> SUBSET Questions]
    BY DEF NoViews
<1>2. NoInput \in [to : Plans \cup {None}, d : Draft, touched : SUBSET Field]
    BY BlankType DEF NoInput
<1>3. NoRow \in [id : Plans \cup {None}, row : Row]
    BY BlankType DEF NoRow
<1>4. /\ open' \subseteq Forms /\ born' \subseteq Plans /\ unsure' \subseteq Forms
      /\ target' \in [Forms -> Plans \cup {None}]
      /\ touched' \in [Forms -> SUBSET Field]
    BY DEF TypeOK, Unmount
<1>5. draft' \in [Forms -> Draft]
    BY BlankType DEF TypeOK, Unmount
<1>6. input' \in [Forms -> [to : Plans \cup {None}, d : Draft, touched : SUBSET Field]]
    BY <1>2 DEF TypeOK, Unmount
<1>7. /\ asking' \in [Forms -> [Views -> SUBSET Questions]]
      /\ preview' \in [Forms -> [Views -> SUBSET Questions]]
      /\ wanted' \in [Forms -> [Views -> SUBSET Questions]]
    BY <1>1 DEF TypeOK, Unmount
<1>8. base' \in [Forms -> [id : Plans \cup {None}, row : Row]]
    BY <1>3 DEF TypeOK, Unmount
<1>. QED
    BY <1>4, <1>5, <1>6, <1>7, <1>8

\* A click is counted.
LEMMA ClickType ==
    ASSUME TypeOK
    PROVE  /\ Click => clicks' \in 0..MaxClicks /\ events' \in 0..MaxEvents
           /\ Event => clicks' \in 0..MaxClicks /\ events' \in 0..MaxEvents
<1>1. MaxClicks \in Nat /\ MaxEvents \in Nat
    BY PageAssumption
<1>2. clicks \in 0..MaxClicks /\ events \in 0..MaxEvents
    BY DEF TypeOK
<1>3. ASSUME NEW n \in Nat, NEW m \in 0..n, m < n
      PROVE  m + 1 \in 0..n
    BY <1>3
<1>. QED
    BY <1>1, <1>2, <1>3 DEF Click, Event

\* Editing a form keeps TypeOK.
LEMMA EditType ==
    ASSUME TypeOK, NEW k \in Forms,
           EditName(k) \/ EditContents(k) \/ EditSchedule(k) \/ EditRetention(k)
           \/ EditEnabled(k)
    PROVE  TypeOK'
<1>. draft[k] \in Draft
    BY DEF TypeOK
<1>1. ASSUME NEW f \in Field, NEW d \in Draft, Edit(k, f, d)
      PROVE  TypeOK'
    <2>1. draft' \in [Forms -> Draft] /\ touched' \in [Forms -> SUBSET Field]
        BY <1>1 DEF TypeOK, Edit
    <2>2. clicks' \in 0..MaxClicks /\ events' \in 0..MaxEvents
        BY <1>1, ClickType DEF Edit
    <2>. QED
        BY <1>1, <2>1, <2>2 DEF TypeOK, Edit, server, query, views, cards, gaps
<1>2. \A x \in Names : [draft[k] EXCEPT !.name = x] \in Draft
    BY DEF Draft
<1>3. \A x \in Contents : [draft[k] EXCEPT !.contents = x] \in Draft
    BY DEF Draft
<1>4. \A x \in {"", "custom"} \cup Presets : [draft[k] EXCEPT !.preset = x] \in Draft
    BY DEF Draft
<1>5. \A x \in {""} \cup Crons : [draft[k] EXCEPT !.cron = x] \in Draft
    BY DEF Draft
<1>6. \A x \in BOOLEAN : /\ [draft[k] EXCEPT !.keep = x] \in Draft
                         /\ [draft[k] EXCEPT !.prune = x] \in Draft
                         /\ [draft[k] EXCEPT !.enabled = x] \in Draft
    BY DEF Draft
<1>7. CASE EditName(k)
    BY <1>1, <1>2, <1>7 DEF EditName, Field
<1>8. CASE EditContents(k)
    BY <1>1, <1>3, <1>8 DEF EditContents, Field
<1>9. CASE EditSchedule(k)
    BY <1>1, <1>4, <1>5, <1>9 DEF EditSchedule, Field
<1>10. CASE EditRetention(k)
    BY <1>1, <1>6, <1>10 DEF EditRetention, Field
<1>11. CASE EditEnabled(k)
    BY <1>1, <1>6, <1>11 DEF EditEnabled, Field
<1>. QED
    BY <1>7, <1>8, <1>9, <1>10, <1>11

\* Opening a form keeps TypeOK, and so does asking for a preview.
LEMMA ControlsType ==
    ASSUME TypeOK, NEW k \in Forms,
           \/ ClickAdd \/ \E p \in Plans : ClickEdit(p)
           \/ \E v \in Views : ClickPreview(k, v) \/ AnswerPreview(k, v)
    PROVE  TypeOK'
<1>1. ASSUME NEW n \in Forms, NEW q \in Plans \cup {None}, NEW d \in Draft,
             NEW r \in [id : Plans \cup {None}, row : Row], Mount(n, q, d, r), Click
      PROVE  TypeOK'
    <2>1. clicks' \in 0..MaxClicks /\ events' \in 0..MaxEvents
        BY <1>1, ClickType
    <2>2. /\ open' \subseteq Forms
          /\ target' \in [Forms -> Plans \cup {None}]
          /\ draft' \in [Forms -> Draft]
          /\ base' \in [Forms -> [id : Plans \cup {None}, row : Row]]
        BY <1>1 DEF TypeOK, Mount
    <2>. QED
        BY <1>1, <2>1, <2>2 DEF TypeOK, Mount, server, query, views, cards, gaps
<1>2. CASE ClickAdd
    <2>1. NoRow \in [id : Plans \cup {None}, row : Row]
        BY BlankType DEF NoRow
    <2>. QED
        BY <1>1, <1>2, <2>1, BlankType DEF ClickAdd, Forms
<1>3. ASSUME NEW p \in Plans, ClickEdit(p)
      PROVE  TypeOK'
    <2>1. list.row[p] \in Row
        BY DEF TypeOK, Table
    <2>2. FormOf(list.row[p]) \in Draft
        BY <2>1, FormOfType
    <2>3. CASE "edit" \notin open
        BY <1>1, <1>3, <2>1, <2>2, <2>3 DEF ClickEdit, Forms
    <2>4. CASE "edit" \in open
        <3>1. clicks' \in 0..MaxClicks /\ events' \in 0..MaxEvents
            BY <1>3, ClickType DEF ClickEdit
        <3>2. target' \in [Forms -> Plans \cup {None}]
            BY <1>3, <2>4 DEF TypeOK, ClickEdit, Forms
        <3>. QED
            BY <1>3, <2>4, <3>1, <3>2
               DEF TypeOK, ClickEdit, server, query, views, cards, origin, gaps
    <2>. QED
        BY <2>3, <2>4
<1>4. ASSUME NEW v \in Views, ClickPreview(k, v)
      PROVE  TypeOK'
    <2>1. draft[k] \in Draft
        BY DEF TypeOK
    <2>2. Question(draft[k], v) \in Questions
        BY <2>1 DEF Draft, Question, Questions
    <2>3. /\ asking' \in [Forms -> [Views -> SUBSET Questions]]
          /\ wanted' \in [Forms -> [Views -> SUBSET Questions]]
          /\ preview' \in [Forms -> [Views -> SUBSET Questions]]
        BY <1>4, <2>2 DEF TypeOK, ClickPreview
    <2>4. clicks' \in 0..MaxClicks /\ events' \in 0..MaxEvents
        BY <1>4, ClickType DEF ClickPreview
    <2>. QED
        BY <1>4, <2>3, <2>4 DEF TypeOK, ClickPreview, server, query, forms, cards, gaps
<1>5. ASSUME NEW v \in Views, AnswerPreview(k, v)
      PROVE  TypeOK'
    <2>1. PICK q \in asking[k][v] :
            /\ asking' = [asking EXCEPT ![k][v] = @ \ {q}]
            /\ preview' = [preview EXCEPT ![k][v] = {q}] \/ preview' = preview
        BY <1>5 DEF AnswerPreview
    <2>2. asking \in [Forms -> [Views -> SUBSET Questions]]
          /\ preview \in [Forms -> [Views -> SUBSET Questions]]
        BY DEF TypeOK
    <2>3. q \in Questions
        BY <2>1, <2>2
    <2>4. asking' \in [Forms -> [Views -> SUBSET Questions]]
        BY <2>1, <2>2
    <2>5. [preview EXCEPT ![k][v] = {q}] \in [Forms -> [Views -> SUBSET Questions]]
        <3>1. [preview[k] EXCEPT ![v] = {q}] \in [Views -> SUBSET Questions]
            BY <2>2, <2>3
        <3>. QED
            BY <2>2, <3>1
    <2>6. preview' \in [Forms -> [Views -> SUBSET Questions]]
        BY <2>1, <2>2, <2>5
    <2>. QED
        BY <1>5, <2>4, <2>6
           DEF TypeOK, AnswerPreview, server, query, forms, cards, origin, gaps, bounds
<1>. QED
    BY <1>2, <1>3, <1>4, <1>5

\* Pressing the button, or Cancel, keeps TypeOK; so do a refusal and a lost answer.
LEMMA SubmitType ==
    ASSUME TypeOK, NEW k \in Forms, Cancel(k) \/ Submit(k) \/ Refused(k) \/ SaveLost(k)
    PROVE  TypeOK'
<1>1. CASE Cancel(k)
    <2>1. clicks' \in 0..MaxClicks /\ events' \in 0..MaxEvents
        BY <1>1, ClickType DEF Cancel
    <2>2. {k} \in SUBSET Forms /\ Unmount({k})
        BY <1>1 DEF Cancel
    <2>. QED
        BY <1>1, <2>1, <2>2, UnmountType DEF TypeOK, Cancel, server, query, cards, gaps
<1>2. CASE Submit(k)
    <2>1. clicks' \in 0..MaxClicks /\ events' \in 0..MaxEvents
        BY <1>2, ClickType DEF Submit
    <2>2. [to |-> target[k], d |-> draft[k], touched |-> touched[k]]
            \in [to : Plans \cup {None}, d : Draft, touched : SUBSET Field]
        BY DEF TypeOK
    <2>3. /\ phase' \in [Forms -> {"idle", "sent", "done", "refused", "refetch"}]
          /\ input' \in [Forms -> [to : Plans \cup {None}, d : Draft,
                                   touched : SUBSET Field]]
        BY <1>2, <2>2 DEF TypeOK, Submit
    <2>. QED
        BY <1>2, <2>1, <2>3 DEF TypeOK, Submit, server, query, views, cards, origin, gaps
<1>3. CASE Refused(k)
    BY <1>3
       DEF TypeOK, Refused, server, query, views, cards, origin, gaps, bounds
<1>4. CASE SaveLost(k)
    <2>1. clicks' \in 0..MaxClicks /\ events' \in 0..MaxEvents
        BY <1>4, ClickType DEF SaveLost
    <2>2. phase' \in [Forms -> {"idle", "sent", "done", "refused", "refetch"}]
          /\ unsure' \subseteq Forms /\ missed' \subseteq Reasons /\ since' \subseteq Reasons
        BY <1>4 DEF TypeOK, SaveLost, Miss, Reasons
    <2>. QED
        BY <1>4, <2>1, <2>2 DEF TypeOK, SaveLost, server, query, views, cards
<1>. QED
    BY <1>1, <1>2, <1>3, <1>4

\* A row that the server writes is a row.
LEMMA HandleType ==
    ASSUME TypeOK, NEW k \in Forms, input[k].d.name # "", Handle(k)
    PROVE  TypeOK'
<1>1. InputOf(input[k].d) \in Row
    <2>1. input[k].d \in Draft
        BY DEF TypeOK
    <2>. QED
        BY <2>1, InputOfType
<1>2. ASSUME NEW p \in Plans, Write(k, p)
      PROVE  /\ table' \in Table /\ table'.ids = table.ids \cup {p}
             /\ phase' \in [Forms -> {"idle", "sent", "done", "refused", "refetch"}]
    <2>1. table.ids \in SUBSET Plans /\ table.row \in [Plans -> Row]
        BY DEF TypeOK, Table
    <2>2. [table.row EXCEPT ![p] = InputOf(input[k].d)] \in [Plans -> Row]
        BY <1>1, <2>1
    <2>3. phase' \in [Forms -> {"idle", "sent", "done", "refused", "refetch"}]
        BY <1>2 DEF TypeOK, Write
    <2>. QED
        BY <1>2, <2>1, <2>2, <2>3 DEF Table, Write
<1>3. /\ table \in Table /\ table.ids \subseteq used /\ used \subseteq Plans
      /\ born \subseteq Plans
      /\ phase \in [Forms -> {"idle", "sent", "done", "refused", "refetch"}]
      /\ input[k].to \in Plans \cup {None}
    BY DEF TypeOK
<1>4. CASE Refuse(k)
    <2>1. phase' \in [Forms -> {"idle", "sent", "done", "refused", "refetch"}]
        BY <1>3, <1>4 DEF Refuse
    <2>. QED
        BY <1>4, <2>1 DEF TypeOK, Handle, Refuse, server, query, views, cards, gaps, bounds
<1>5. ASSUME NEW p \in Plans \ used, Write(k, p), used' = used \cup {p},
             born' = born \cup {p}
      PROVE  TypeOK'
    <2>1. table'.ids \subseteq used' /\ used' \subseteq Plans /\ born' \subseteq Plans
        BY <1>2, <1>3, <1>5
    <2>. QED
        BY <1>2, <1>5, <2>1 DEF TypeOK, Handle, query, views, cards, gaps, bounds
<1>6. CASE /\ input[k].to # None /\ input[k].to \in table.ids
           /\ Write(k, input[k].to) /\ UNCHANGED <<used, born>>
    <2>1. table'.ids \subseteq used' /\ used' \subseteq Plans /\ born' \subseteq Plans
        BY <1>2, <1>3, <1>6
    <2>. QED
        BY <1>2, <1>3, <1>6, <2>1 DEF TypeOK, Handle, query, views, cards, gaps, bounds
<1>. QED
    BY <1>4, <1>5, <1>6 DEF Handle, Post, Put

\* Forms that waited for a fetch close, others begin to wait.
LEMMA SettleType ==
    ASSUME TypeOK, NEW G \in SUBSET Waiting, NEW K \in SUBSET Forms, Settle(G, K)
    PROVE  /\ phase' \in [Forms -> {"idle", "sent", "done", "refused", "refetch"}]
           /\ \E W \in SUBSET Forms : Unmount(W)
BY DEF TypeOK, Settle, Waiting

\* What ends or starts a fetch keeps TypeOK.
LEMMA FetchType ==
    ASSUME TypeOK, NEW G \in SUBSET Waiting, NEW K \in SUBSET Forms, Settle(G, K),
           UNCHANGED <<table, used, confirm>>, calls' \subseteq Call,
           list' \in Table, loaded' \in BOOLEAN, fetched' \in Table,
           fetch' \in {"idle", "sent", "answered"},
           missed' \subseteq Reasons, since' \subseteq Reasons,
           clicks' \in 0..MaxClicks, events' \in 0..MaxEvents
    PROVE  TypeOK'
<1>1. PICK W \in SUBSET Forms : Unmount(W)
    BY SettleType
<1>. QED
    BY <1>1, SettleType, UnmountType DEF TypeOK

\* An invalidation changes no data, and lets go only who waits.
LEMMA InvalidateSettles ==
    ASSUME TypeOK, NEW K \in SUBSET Forms, Invalidate(K)
    PROVE  /\ \E G \in SUBSET Waiting : Settle(G, K)
           /\ list' = list /\ loaded' = loaded /\ missed' = missed
           /\ fetched' \in {list, fetched} /\ since' \subseteq Reasons
           /\ fetch' \in {"idle", "sent", "answered"}
<1>1. (IF Restarts THEN Waiting ELSE {}) \in SUBSET Waiting
    OBVIOUS
<1>2. \E G \in SUBSET Waiting : Settle(G, K)
    BY <1>1 DEF Invalidate
<1>. QED
    BY <1>2 DEF TypeOK, Invalidate, Refetch, Reasons

\* The steps of the query keep TypeOK.
LEMMA QueryType ==
    ASSUME TypeOK,
           \/ AnswerList \/ LoadList \/ FailList \/ OperationEnded
           \/ \E k \in Forms : Saved(k)
           \/ \E c \in calls : CallDone(c)
    PROVE  TypeOK'
<1>1. /\ table \in Table /\ list \in Table /\ fetched \in Table /\ loaded \in BOOLEAN
      /\ missed \subseteq Reasons /\ since \subseteq Reasons /\ calls \subseteq Call
      /\ clicks \in 0..MaxClicks /\ events \in 0..MaxEvents
      /\ {} \in SUBSET Forms /\ Waiting \in SUBSET Waiting
    BY DEF TypeOK
<1>2. CASE AnswerList
    BY <1>1, <1>2
       DEF TypeOK, AnswerList, server, forms, views, cards, origin, bounds
<1>3. CASE LoadList
    BY <1>1, <1>3, FetchType DEF LoadList, server, cards, bounds
<1>4. CASE FailList
    <2>1. missed' \subseteq Reasons
        BY <1>1, <1>4 DEF FailList, Reasons
    <2>. QED
        BY <1>1, <1>4, <2>1, FetchType, ClickType DEF FailList, server, cards
<1>5. ASSUME NEW K \in SUBSET Forms, Invalidate(K),
             UNCHANGED <<table, used, confirm>>, calls' \subseteq Call,
             clicks' \in 0..MaxClicks, events' \in 0..MaxEvents
      PROVE  TypeOK'
    <2>1. PICK G \in SUBSET Waiting : Settle(G, K)
        BY <1>5, InvalidateSettles
    <2>. QED
        BY <1>1, <1>5, <2>1, InvalidateSettles, FetchType
<1>6. CASE OperationEnded
    BY <1>1, <1>5, <1>6, ClickType DEF OperationEnded, server, cards
<1>7. ASSUME NEW k \in Forms, Saved(k)
      PROVE  TypeOK'
    <2>1. {k} \in SUBSET Forms
        OBVIOUS
    <2>. QED
        BY <1>1, <1>5, <1>7, <2>1 DEF Saved, server, cards, bounds
<1>8. ASSUME NEW c \in calls, CallDone(c)
      PROVE  TypeOK'
    BY <1>1, <1>5, <1>8 DEF CallDone, server, bounds
<1>. QED
    BY <1>2, <1>3, <1>4, <1>6, <1>7, <1>8

\* The cards' buttons and their requests keep TypeOK.
LEMMA CardType ==
    ASSUME TypeOK, NEW p \in Plans, ClickEnabled(p) \/ AskDelete(p) \/ ClickDelete(p)
    PROVE  TypeOK'
<1>1. Click => clicks' \in 0..MaxClicks /\ events' \in 0..MaxEvents
    BY ClickType
<1>. calls \subseteq Call
    BY DEF TypeOK
<1>5. \A do \in {"enable", "disable", "delete"} : [do |-> do, to |-> p, done |-> FALSE] \in Call
    BY DEF Call
<1>2. CASE ClickEnabled(p)
    <2>1. calls' \subseteq Call
        <3>1. CASE list.row[p].enabled
            BY <1>2, <1>5, <3>1 DEF ClickEnabled
        <3>2. CASE ~list.row[p].enabled
            BY <1>2, <1>5, <3>2 DEF ClickEnabled
        <3>. QED
            BY <3>1, <3>2
    <2>. QED
        BY <1>1, <1>2, <2>1
           DEF TypeOK, ClickEnabled, server, query, forms, views, origin, gaps
<1>3. CASE AskDelete(p)
    <2>1. confirm' \subseteq Plans
        BY <1>3 DEF TypeOK, AskDelete
    <2>. QED
        BY <1>1, <1>3, <2>1 DEF TypeOK, AskDelete, server, query, forms, views, origin, gaps
<1>4. CASE ClickDelete(p)
    <2>1. calls' \subseteq Call
        BY <1>4, <1>5 DEF ClickDelete
    <2>. QED
        BY <1>1, <1>4, <2>1
           DEF TypeOK, ClickDelete, server, query, forms, views, origin, gaps
<1>. QED
    BY <1>2, <1>3, <1>4

\* So do the server's answers to them, lost ones and changes from elsewhere.
LEMMA CallsType ==
    ASSUME TypeOK,
           \/ \E c \in calls : HandleCall(c) \/ CallLost(c)
           \/ \E p \in Plans : Elsewhere(p)
    PROVE  TypeOK'
<1>1. /\ table.ids \in SUBSET Plans /\ table.row \in [Plans -> Row]
      /\ table \in [ids : SUBSET Plans, row : [Plans -> Row]]
      /\ table.ids \subseteq used /\ calls \subseteq Call
    BY DEF TypeOK, Table
<1>2. ASSUME NEW p \in Plans
      PROVE  [table EXCEPT !.ids = @ \ {p}] \in Table
             /\ [table EXCEPT !.ids = @ \ {p}].ids \subseteq used
    BY <1>1 DEF Table
<1>3. ASSUME NEW p \in Plans, NEW r \in Row
      PROVE  [table EXCEPT !.row[p] = r] \in Table
             /\ [table EXCEPT !.row[p] = r].ids \subseteq used
    <2>1. [table.row EXCEPT ![p] = r] \in [Plans -> Row]
        BY <1>1
    <2>. QED
        BY <1>1, <2>1 DEF Table
<1>4. ASSUME NEW c \in calls, HandleCall(c)
      PROVE  TypeOK'
    <2>1. c \in Call /\ c.to \in Plans
        BY <1>1 DEF Call
    <2>2. [c EXCEPT !.done = TRUE] \in Call
        BY <2>1 DEF Call
    <2>3. calls' \subseteq Call
        BY <1>1, <1>4, <2>2 DEF HandleCall
    <2>4. \A on \in BOOLEAN : [table.row[c.to] EXCEPT !.enabled = on] \in Row
        BY <1>1, <2>1 DEF Row
    <2>5. table' \in Table /\ table'.ids \subseteq used
        <3>1. CASE c.to \in table.ids /\ c.do = "delete"
            BY <1>2, <1>4, <2>1, <3>1 DEF HandleCall
        <3>2. CASE c.to \in table.ids /\ c.do # "delete"
            <4>1. [table EXCEPT !.row[c.to].enabled = (c.do = "enable")]
                    = [table EXCEPT !.row[c.to] =
                          [table.row[c.to] EXCEPT !.enabled = (c.do = "enable")]]
                BY <1>1, <2>1
            <4>2. table' = [table EXCEPT !.row[c.to] =
                          [table.row[c.to] EXCEPT !.enabled = (c.do = "enable")]]
                BY <1>4, <3>2, <4>1 DEF HandleCall
            <4>3. [table.row[c.to] EXCEPT !.enabled = (c.do = "enable")] \in Row
                BY <2>4
            <4>. QED
                BY <1>3, <2>1, <4>2, <4>3
        <3>3. CASE c.to \notin table.ids
            BY <1>1, <1>4, <3>3 DEF HandleCall, Table
        <3>. QED
            BY <3>1, <3>2, <3>3
    <2>. QED
        BY <1>4, <2>3, <2>5 DEF TypeOK, HandleCall, query, forms, views, origin, gaps, bounds
<1>5. ASSUME NEW c \in calls, CallLost(c)
      PROVE  TypeOK'
    <2>1. clicks' \in 0..MaxClicks /\ events' \in 0..MaxEvents
        BY <1>5, ClickType DEF CallLost
    <2>2. missed' \subseteq Reasons /\ since' \subseteq Reasons /\ calls' \subseteq Call
        BY <1>1, <1>5 DEF TypeOK, CallLost, Miss, Reasons
    <2>. QED
        BY <1>5, <2>1, <2>2 DEF TypeOK, CallLost, server, query, forms, views, origin
<1>6. ASSUME NEW p \in Plans, Elsewhere(p)
      PROVE  TypeOK'
    <2>1. clicks' \in 0..MaxClicks /\ events' \in 0..MaxEvents
        BY <1>6, ClickType DEF Elsewhere
    <2>2. missed' \subseteq Reasons /\ since' \subseteq Reasons
        BY <1>6 DEF TypeOK, Elsewhere, Miss, Reasons
    <2>3. table' \in Table /\ table'.ids \subseteq used
        <3>1. ASSUME NEW x \in Contents, table' = [table EXCEPT !.row[p].contents = x]
              PROVE  table' \in Table /\ table'.ids \subseteq used
            <4>1. [table.row[p] EXCEPT !.contents = x] \in Row
                BY <1>1 DEF Row
            <4>2. [table EXCEPT !.row[p].contents = x]
                    = [table EXCEPT !.row[p] = [table.row[p] EXCEPT !.contents = x]]
                BY <1>1
            <4>. QED
                BY <1>3, <3>1, <4>1, <4>2
        <3>. QED
            BY <1>2, <1>6, <3>1 DEF Elsewhere
    <2>. QED
        BY <1>6, <2>1, <2>2, <2>3 DEF TypeOK, Elsewhere, query, forms, views, cards, origin
<1>. QED
    BY <1>4, <1>5, <1>6

\* The initial states have their types.
LEMMA InitType ==
    ASSUME Init
    PROVE  TypeOK
<1>1. table \in Table /\ list \in Table /\ fetched \in Table
      /\ table.ids \subseteq used /\ used \subseteq Plans
    BY PageAssumption DEF Init, Table
<1>2. /\ fetch = "sent" /\ loaded = FALSE /\ open = {} /\ confirm = {} /\ calls = {} /\ born = {}
      /\ unsure = {} /\ missed = {} /\ since = {} /\ clicks = 0 /\ events = 0
    BY DEF Init
<1>3. MaxClicks \in Nat /\ MaxEvents \in Nat
    BY PageAssumption
<1>4. /\ target \in [Forms -> Plans \cup {None}]
      /\ draft \in [Forms -> Draft]
      /\ phase \in [Forms -> {"idle", "sent", "done", "refused", "refetch"}]
      /\ touched \in [Forms -> SUBSET Field]
    BY BlankType DEF Init
<1>5. input \in [Forms -> [to : Plans \cup {None}, d : Draft, touched : SUBSET Field]]
    <2>1. NoInput \in [to : Plans \cup {None}, d : Draft, touched : SUBSET Field]
        BY BlankType DEF NoInput
    <2>. QED
        BY <2>1 DEF Init
<1>6. /\ asking \in [Forms -> [Views -> SUBSET Questions]]
      /\ preview \in [Forms -> [Views -> SUBSET Questions]]
      /\ wanted \in [Forms -> [Views -> SUBSET Questions]]
    <2>1. NoViews \in [Views -> SUBSET Questions]
        BY DEF NoViews
    <2>. QED
        BY <2>1 DEF Init
<1>7. base \in [Forms -> [id : Plans \cup {None}, row : Row]]
    <2>1. NoRow \in [id : Plans \cup {None}, row : Row]
        BY BlankType DEF NoRow
    <2>. QED
        BY <2>1 DEF Init
<1>8. clicks \in 0..MaxClicks /\ events \in 0..MaxEvents
    BY <1>2, <1>3
<1>9. /\ fetch \in {"idle", "sent", "answered"} /\ loaded \in BOOLEAN /\ open \subseteq Forms
      /\ confirm \subseteq Plans /\ calls \subseteq Call /\ born \subseteq Plans
      /\ unsure \subseteq Forms /\ missed \subseteq Reasons /\ since \subseteq Reasons
    BY <1>2
<1>. QED
    BY <1>1, <1>4, <1>5, <1>6, <1>7, <1>8, <1>9 DEF TypeOK

-----------------------------------------------------------------------------
\* Setting a control changes that one and no other.
LEMMA EditChangesOne ==
    ASSUME TypeOK, NEW k \in Forms,
           EditName(k) \/ EditContents(k) \/ EditSchedule(k) \/ EditRetention(k)
           \/ EditEnabled(k)
    PROVE  \E f \in Field, d \in Draft :
               Edit(k, f, d) /\ \A g \in Field \ {f} : d[g] = draft[k][g]
<1>. draft[k] \in Draft
    BY DEF TypeOK
<1>1. CASE EditName(k)
    <2>1. PICK x \in Names : Edit(k, "name", [draft[k] EXCEPT !.name = x])
        BY <1>1 DEF EditName
    <2>2. [draft[k] EXCEPT !.name = x] \in Draft
        BY DEF Draft
    <2>3. \A g \in Field \ {"name"} : [draft[k] EXCEPT !.name = x][g] = draft[k][g]
        BY DEF Draft, Field
    <2>. QED
        BY <2>1, <2>2, <2>3 DEF Field
<1>2. CASE EditContents(k)
    <2>1. PICK x \in Contents : Edit(k, "contents", [draft[k] EXCEPT !.contents = x])
        BY <1>2 DEF EditContents
    <2>2. [draft[k] EXCEPT !.contents = x] \in Draft
        BY DEF Draft
    <2>3. \A g \in Field \ {"contents"} : [draft[k] EXCEPT !.contents = x][g] = draft[k][g]
        BY DEF Draft, Field
    <2>. QED
        BY <2>1, <2>2, <2>3 DEF Field
<1>3. CASE EditSchedule(k)
    <2>1. ASSUME NEW x \in {"", "custom"} \cup Presets,
                 Edit(k, "preset", [draft[k] EXCEPT !.preset = x])
          PROVE  \E f \in Field, d \in Draft :
                     Edit(k, f, d) /\ \A g \in Field \ {f} : d[g] = draft[k][g]
        <3>1. [draft[k] EXCEPT !.preset = x] \in Draft
            BY DEF Draft
        <3>2. \A g \in Field \ {"preset"} : [draft[k] EXCEPT !.preset = x][g] = draft[k][g]
            BY DEF Draft, Field
        <3>. QED
            BY <2>1, <3>1, <3>2 DEF Field
    <2>2. ASSUME NEW x \in {""} \cup Crons, Edit(k, "cron", [draft[k] EXCEPT !.cron = x])
          PROVE  \E f \in Field, d \in Draft :
                     Edit(k, f, d) /\ \A g \in Field \ {f} : d[g] = draft[k][g]
        <3>1. [draft[k] EXCEPT !.cron = x] \in Draft
            BY DEF Draft
        <3>2. \A g \in Field \ {"cron"} : [draft[k] EXCEPT !.cron = x][g] = draft[k][g]
            BY DEF Draft, Field
        <3>. QED
            BY <2>2, <3>1, <3>2 DEF Field
    <2>. QED
        BY <1>3, <2>1, <2>2 DEF EditSchedule
<1>4. CASE EditRetention(k)
    <2>1. PICK x \in BOOLEAN : \/ Edit(k, "keep", [draft[k] EXCEPT !.keep = x])
                              \/ Edit(k, "prune", [draft[k] EXCEPT !.prune = x])
        BY <1>4 DEF EditRetention
    <2>2. [draft[k] EXCEPT !.keep = x] \in Draft /\ [draft[k] EXCEPT !.prune = x] \in Draft
        BY DEF Draft
    <2>3. /\ \A g \in Field \ {"keep"} : [draft[k] EXCEPT !.keep = x][g] = draft[k][g]
          /\ \A g \in Field \ {"prune"} : [draft[k] EXCEPT !.prune = x][g] = draft[k][g]
        BY DEF Draft, Field
    <2>. QED
        BY <2>1, <2>2, <2>3 DEF Field
<1>5. CASE EditEnabled(k)
    <2>1. PICK x \in BOOLEAN : Edit(k, "enabled", [draft[k] EXCEPT !.enabled = x])
        BY <1>5 DEF EditEnabled
    <2>2. [draft[k] EXCEPT !.enabled = x] \in Draft
        BY DEF Draft
    <2>3. \A g \in Field \ {"enabled"} : [draft[k] EXCEPT !.enabled = x][g] = draft[k][g]
        BY DEF Draft, Field
    <2>. QED
        BY <2>1, <2>2, <2>3 DEF Field
<1>. QED
    BY <1>1, <1>2, <1>3, <1>4, <1>5

\* A step of the forms keeps what is known of submissions and previews.
LEMMA RequestsForms ==
    ASSUME TypeOK, RequestsInv, NEW k \in Forms,
           \/ ClickAdd \/ \E p \in Plans : ClickEdit(p)
           \/ \E v \in Views : ClickPreview(k, v) \/ AnswerPreview(k, v)
           \/ \E f \in Field, d \in Draft :
                 Edit(k, f, d) /\ \A g \in Field \ {f} : d[g] = draft[k][g]
    PROVE  RequestsInv'
<1>1. CASE ClickAdd
    BY <1>1 DEF TypeOK, RequestsInv, ClickAdd, Mount, views, Forms
<1>2. ASSUME NEW p \in Plans, ClickEdit(p)
      PROVE  RequestsInv'
    <2>. p # None
        BY PageAssumption DEF None
    <2>1. CASE "edit" \notin open
        <3>1. UNCHANGED <<phase, input, asking, preview, touched, wanted, born, unsure>>
            BY <1>2, <2>1 DEF ClickEdit, Mount, views
        <3>2. /\ open' = open \cup {"edit"} /\ target'["edit"] = p
              /\ target'["add"] = target["add"] /\ draft'["add"] = draft["add"]
            BY <1>2, <2>1 DEF TypeOK, ClickEdit, Mount, Forms
        <3>3. phase["edit"] = "idle"
            BY <2>1 DEF RequestsInv, Forms
        <3>. QED
            BY <3>1, <3>2, <3>3 DEF RequestsInv, Forms
    <2>2. CASE "edit" \in open
        BY <1>2, <2>2 DEF TypeOK, RequestsInv, ClickEdit, views, origin, Forms
    <2>. QED
        BY <2>1, <2>2
<1>3. ASSUME NEW v \in Views, ClickPreview(k, v)
      PROVE  RequestsInv'
    BY <1>3 DEF TypeOK, RequestsInv, ClickPreview, CanPreview, forms
<1>4. ASSUME NEW v \in Views, AnswerPreview(k, v)
      PROVE  RequestsInv'
    <2>1. PICK q \in asking[k][v] :
            /\ asking' = [asking EXCEPT ![k][v] = @ \ {q}]
            /\ preview' = [preview EXCEPT ![k][v] = {q}] \/ preview' = preview
        BY <1>4 DEF AnswerPreview
    <2>2. asking \in [Forms -> [Views -> SUBSET Questions]]
          /\ preview \in [Forms -> [Views -> SUBSET Questions]]
        BY DEF TypeOK
    <2>3. \A n \in Forms, w \in Views : asking'[n][w] \subseteq asking[n][w]
        BY <2>1, <2>2
    <2>4. \A n \in Forms, w \in Views :
              preview'[n][w] \subseteq asking[n][w] \cup preview[n][w]
        <3>1. CASE preview' = preview
            BY <3>1
        <3>2. CASE preview' = [preview EXCEPT ![k][v] = {q}]
            <4>1. \A n \in Forms : n # k => preview'[n] = preview[n]
                BY <2>2, <3>2
            <4>2. preview'[k] = [preview[k] EXCEPT ![v] = {q}]
                BY <2>2, <3>2
            <4>. QED
                BY <2>1, <2>2, <4>1, <4>2
        <3>. QED
            BY <2>1, <3>1, <3>2
    <2>5. \A n \in Forms, w \in Views : asking'[n][w] \cup preview'[n][w] \subseteq wanted'[n][w]
        BY <1>4, <2>3, <2>4 DEF RequestsInv, AnswerPreview, origin
    <2>. QED
        BY <1>4, <2>5 DEF RequestsInv, AnswerPreview, forms, origin
<1>5. ASSUME NEW f \in Field, NEW d \in Draft, Edit(k, f, d),
             \A g \in Field \ {f} : d[g] = draft[k][g]
      PROVE  RequestsInv'
    <2>1. /\ draft \in [Forms -> Draft] /\ draft' = [draft EXCEPT ![k] = d]
          /\ touched \in [Forms -> SUBSET Field]
          /\ touched' = [touched EXCEPT ![k] = @ \cup {f}]
          /\ UNCHANGED <<open, target, phase, input, asking, preview, wanted, born, unsure>>
        BY <1>5 DEF TypeOK, Edit, views
    <2>2. ASSUME NEW n \in Forms, phase[n] # "idle", NEW g \in Field,
                 draft'[n][g] # input[n].d[g]
          PROVE  g \in touched'[n]
        <3>1. draft[n][g] # input[n].d[g] => g \in touched[n]
            BY <2>2 DEF RequestsInv
        <3>2. CASE n = k
            BY <1>5, <2>1, <2>2, <3>1, <3>2
        <3>3. CASE n # k
            BY <2>1, <2>2, <3>1, <3>3
        <3>. QED
            BY <3>2, <3>3
    <2>3. \A n \in Forms : touched[n] \subseteq touched'[n]
        BY <2>1
    <2>. QED
        BY <2>1, <2>2, <2>3 DEF RequestsInv
<1>. QED
    BY <1>1, <1>2, <1>3, <1>4, <1>5

\* So does a step of a submission.
LEMMA RequestsSubmit ==
    ASSUME TypeOK, RequestsInv, NEW k \in Forms,
           Cancel(k) \/ Submit(k) \/ Refused(k) \/ SaveLost(k) \/ Handle(k)
    PROVE  RequestsInv'
<1>1. CASE Cancel(k)
    BY <1>1 DEF TypeOK, RequestsInv, Cancel, Busy, Unmount, NoViews, NoInput, Forms
<1>2. CASE Submit(k)
    BY <1>2 DEF TypeOK, RequestsInv, Submit, Busy, views, origin, Forms
<1>3. CASE Refused(k)
    BY <1>3 DEF TypeOK, RequestsInv, Refused, views, origin, Forms
<1>4. CASE SaveLost(k)
    BY <1>4 DEF TypeOK, RequestsInv, SaveLost, views, Forms
<1>5. CASE Handle(k)
    <2>1. CASE Refuse(k)
        BY <1>5, <2>1 DEF TypeOK, RequestsInv, Handle, Refuse, views, Forms
    <2>2. ASSUME NEW q \in Plans, Write(k, q),
                 \/ k = "add" /\ born' = born \cup {q}
                 \/ k = "edit" /\ born' = born
          PROVE  RequestsInv'
        <3>1. /\ phase \in [Forms -> {"idle", "sent", "done", "refused", "refetch"}]
              /\ phase' = [phase EXCEPT ![k] = "done"] /\ phase[k] = "sent"
              /\ UNCHANGED <<open, target, draft, input, asking, preview, touched, wanted,
                             unsure>>
            BY <1>5, <2>2 DEF TypeOK, Handle, Write, views
        <3>2. "add" \notin unsure' =>
                /\ phase'["add"] \in {"idle", "sent", "refused"} => born' = {}
                /\ \A a, b \in born' : a = b
            <4>1. "add" \notin unsure =>
                    /\ phase["add"] \in {"idle", "sent", "refused"} => born = {}
                    /\ \A a, b \in born : a = b
                BY DEF RequestsInv
            <4>2. CASE k = "add"
                BY <2>2, <3>1, <4>1, <4>2 DEF Forms
            <4>3. CASE k = "edit"
                BY <2>2, <3>1, <4>1, <4>3 DEF Forms
            <4>. QED
                BY <4>2, <4>3 DEF Forms
        <3>3. \A n \in Forms : /\ phase'[n] # "idle" => phase[n] # "idle"
                               /\ phase'[n] = "sent" => phase[n] = "sent"
            BY <3>1
        <3>4. "edit" \in Forms
            BY DEF Forms
        <3>. QED
            BY <3>1, <3>2, <3>3, <3>4 DEF RequestsInv
    <2>3. CASE Post(k)
        <3>1. k = "add"
            BY <1>5, <2>3 DEF RequestsInv, Handle, Post, Forms
        <3>2. CASE ~Refuse(k)
            <4>1. PICK q \in Plans \ used : Write(k, q) /\ born' = born \cup {q}
                BY <2>3, <3>2 DEF Post
            <4>2. q \in Plans /\ Write(k, q) /\ k = "add" /\ born' = born \cup {q}
                BY <3>1, <4>1
            <4>. QED
                BY <2>2, <4>2
        <3>. QED
            BY <2>1, <3>2
    <2>4. CASE Put(k)
        <3>1. k = "edit" /\ input[k].to \in Plans
            BY <2>4 DEF TypeOK, RequestsInv, Put, Forms
        <3>. QED
            BY <2>1, <2>2, <2>4, <3>1 DEF Put
    <2>. QED
        BY <1>5, <2>3, <2>4 DEF Handle
<1>. QED
    BY <1>1, <1>2, <1>3, <1>4, <1>5

\* So do forms that close after a fetch, or begin to wait for one.
LEMMA RequestsSettle ==
    ASSUME TypeOK, RequestsInv, NEW G \in SUBSET Waiting, NEW K \in SUBSET Forms,
           \A k \in K : phase[k] = "done", Settle(G, K)
    PROVE  RequestsInv'
BY DEF TypeOK, RequestsInv, Settle, Waiting, Unmount, NoViews, NoInput, Forms

-----------------------------------------------------------------------------
\* What ControlsInv says of a table.
Kept(t) == \A p \in t.ids : t.row[p].prune => t.row[p].keep

\* No write of a row makes a policy that prunes and keeps nothing.
LEMMA TableKept ==
    ASSUME TypeOK, Kept(table),
           \/ \E k \in Forms : Handle(k)
           \/ \E c \in calls : HandleCall(c)
           \/ \E p \in Plans : Elsewhere(p)
    PROVE  Kept(table')
<1>1. /\ table.ids \in SUBSET Plans /\ table.row \in [Plans -> Row]
      /\ table \in [ids : SUBSET Plans, row : [Plans -> Row]] /\ calls \subseteq Call
    BY DEF TypeOK, Table
<1>2. ASSUME NEW p, table' = [table EXCEPT !.ids = @ \ {p}]
      PROVE  Kept(table')
    BY <1>1, <1>2 DEF Kept
<1>3. ASSUME NEW p \in Plans, NEW r \in Row, table' = [table EXCEPT !.row[p] = r],
             r.prune = table.row[p].prune, r.keep = table.row[p].keep
      PROVE  Kept(table')
    <2>1. /\ table'.ids = table.ids /\ table'.row[p] = r
          /\ \A q \in Plans : q # p => table'.row[q] = table.row[q]
        BY <1>1, <1>3
    <2>. QED
        BY <1>1, <1>3, <2>1 DEF Kept
<1>4. ASSUME NEW k \in Forms, Handle(k)
      PROVE  Kept(table')
    <2>1. CASE Refuse(k)
        BY <2>1 DEF Refuse, server, Kept
    <2>2. ASSUME NEW p \in Plans, Write(k, p)
          PROVE  Kept(table')
        <3>1. /\ table'.ids = table.ids \cup {p} /\ table'.row[p] = InputOf(input[k].d)
              /\ \A q \in Plans : q # p => table'.row[q] = table.row[q]
            BY <1>1, <2>2 DEF Write
        <3>2. InputOf(input[k].d).prune => InputOf(input[k].d).keep
            BY DEF InputOf
        <3>. QED
            BY <1>1, <3>1, <3>2 DEF Kept
    <2>3. input[k].to \in Plans \cup {None}
        BY DEF TypeOK
    <2>. QED
        BY <1>4, <2>1, <2>2, <2>3 DEF Handle, Post, Put
<1>5. ASSUME NEW c \in calls, HandleCall(c)
      PROVE  Kept(table')
    <2>1. c.to \in Plans
        BY <1>1 DEF Call
    <2>2. CASE c.to \in table.ids /\ c.do # "delete"
        <3>1. [table.row[c.to] EXCEPT !.enabled = (c.do = "enable")] \in Row
            BY <1>1, <2>1 DEF Row
        <3>2. table' = [table EXCEPT !.row[c.to].enabled = (c.do = "enable")]
            BY <1>5, <2>2 DEF HandleCall
        <3>3. table' = [table EXCEPT !.row[c.to] =
                          [table.row[c.to] EXCEPT !.enabled = (c.do = "enable")]]
            BY <1>1, <2>1, <3>2
        <3>4. table.row[c.to] \in Row
            BY <1>1, <2>1
        <3>. QED
            BY <1>3, <2>1, <3>1, <3>3, <3>4 DEF Row
    <2>3. CASE ~(c.to \in table.ids /\ c.do # "delete")
        BY <1>2, <1>5, <2>3 DEF HandleCall
    <2>. QED
        BY <2>2, <2>3
<1>6. ASSUME NEW p \in Plans, Elsewhere(p)
      PROVE  Kept(table')
    <2>1. ASSUME NEW x \in Contents, table' = [table EXCEPT !.row[p].contents = x]
          PROVE  Kept(table')
        <3>1. [table.row[p] EXCEPT !.contents = x] \in Row /\ table.row[p] \in Row
            BY <1>1 DEF Row
        <3>2. table' = [table EXCEPT !.row[p] = [table.row[p] EXCEPT !.contents = x]]
            BY <1>1, <2>1
        <3>. QED
            BY <1>3, <3>1, <3>2 DEF Row
    <2>. QED
        BY <1>2, <1>6, <2>1 DEF Elsewhere
<1>. QED
    BY <1>4, <1>5, <1>6

\* An edited form keeps what is known of its controls, and so does any other step.
LEMMA ControlsForms ==
    ASSUME TypeOK, RequestsInv, ControlsInv, NEW k \in Forms,
           \/ ClickAdd \/ \E p \in Plans : ClickEdit(p)
           \/ \E v \in Views : ClickPreview(k, v) \/ AnswerPreview(k, v)
           \/ \E f \in Field, d \in Draft :
                 Edit(k, f, d) /\ \A g \in Field \ {f} : d[g] = draft[k][g]
    PROVE  ControlsInv'
<1>1. CASE ClickAdd
    <2>1. UNCHANGED <<table, list, fetched, phase, input, touched>>
        BY <1>1 DEF ClickAdd, Mount, server, query
    <2>2. /\ "edit" \in open' <=> "edit" \in open
          /\ base'["edit"] = base["edit"] /\ draft'["edit"] = draft["edit"]
        BY <1>1 DEF TypeOK, ClickAdd, Mount, Forms
    <2>. QED
        BY <2>1, <2>2 DEF ControlsInv
<1>2. ASSUME NEW p \in Plans, ClickEdit(p)
      PROVE  ControlsInv'
    <2>1. UNCHANGED <<table, list, fetched, phase, input, touched>>
        BY <1>2 DEF ClickEdit, Mount, server, query, forms, origin
    <2>2. CASE "edit" \notin open
        <3>1. /\ base'["edit"].row = list.row[p]
              /\ draft'["edit"] = FormOf(list.row[p])
            BY <1>2, <2>2 DEF TypeOK, ClickEdit, Mount, Forms
        <3>2. list.row[p] \in Row /\ (list.row[p].prune => list.row[p].keep)
            BY <1>2 DEF TypeOK, Table, ControlsInv, ClickEdit
        <3>3. phase'["edit"] = "idle"
            BY <2>1, <2>2 DEF RequestsInv, Forms
        <3>. QED
            BY <2>1, <3>1, <3>2, <3>3 DEF ControlsInv
    <2>3. CASE "edit" \in open
        BY <1>2, <2>1, <2>3 DEF ControlsInv, ClickEdit, origin
    <2>. QED
        BY <2>2, <2>3
<1>3. ASSUME NEW v \in Views, ClickPreview(k, v)
      PROVE  ControlsInv'
    BY <1>3 DEF ControlsInv, ClickPreview, server, query, forms
<1>4. ASSUME NEW v \in Views, AnswerPreview(k, v)
      PROVE  ControlsInv'
    BY <1>4 DEF ControlsInv, AnswerPreview, server, query, forms, origin
<1>5. ASSUME NEW f \in Field, NEW d \in Draft, Edit(k, f, d),
             \A g \in Field \ {f} : d[g] = draft[k][g]
      PROVE  ControlsInv'
    <2>1. /\ draft \in [Forms -> Draft] /\ draft' = [draft EXCEPT ![k] = d]
          /\ touched \in [Forms -> SUBSET Field]
          /\ touched' = [touched EXCEPT ![k] = @ \cup {f}]
          /\ UNCHANGED <<table, list, fetched, open, phase, input, base>>
        BY <1>5 DEF TypeOK, Edit, server, query
    <2>2. \A g \in Field \ touched'["edit"] :
              g \in Field \ touched["edit"] /\ draft'["edit"][g] = draft["edit"][g]
        <3>1. CASE k = "edit"
            BY <1>5, <2>1, <3>1
        <3>2. CASE k # "edit"
            <4>1. "edit" \in Forms
                BY DEF Forms
            <4>. QED
                BY <2>1, <3>2, <4>1
        <3>. QED
            BY <3>1, <3>2
    <2>. QED
        BY <2>1, <2>2 DEF ControlsInv
<1>. QED
    BY <1>1, <1>2, <1>3, <1>4, <1>5

\* A submission keeps it.
LEMMA ControlsSubmit ==
    ASSUME TypeOK, RequestsInv, ControlsInv, NEW k \in Forms,
           Cancel(k) \/ Submit(k) \/ Refused(k) \/ SaveLost(k) \/ Handle(k)
    PROVE  ControlsInv'
<1>1. CASE Cancel(k)
    <2>1. UNCHANGED <<table, list, fetched, phase>> /\ phase[k] = "idle"
        BY <1>1 DEF Cancel, Busy, server, query
    <2>2. CASE k = "edit"
        BY <1>1, <2>1, <2>2 DEF ControlsInv, Cancel, Unmount
    <2>3. CASE k # "edit"
        <3>1. /\ "edit" \in open' <=> "edit" \in open
              /\ base'["edit"] = base["edit"] /\ draft'["edit"] = draft["edit"]
              /\ touched'["edit"] = touched["edit"] /\ input'["edit"] = input["edit"]
            BY <1>1, <2>3 DEF TypeOK, Cancel, Unmount, Forms
        <3>. QED
            BY <2>1, <3>1 DEF ControlsInv
    <2>. QED
        BY <2>2, <2>3
<1>2. CASE Submit(k)
    <2>1. UNCHANGED <<table, list, fetched, open, base, draft, touched>>
        BY <1>2 DEF Submit, server, query, origin
    <2>2. CASE k = "edit"
        <3>1. input'["edit"].d = draft["edit"] /\ input'["edit"].touched = touched["edit"]
              /\ "edit" \in open
            BY <1>2, <2>2 DEF TypeOK, Submit
        <3>. QED
            BY <2>1, <3>1 DEF ControlsInv
    <2>3. CASE k # "edit"
        <3>1. input'["edit"] = input["edit"] /\ phase'["edit"] = phase["edit"]
            BY <1>2, <2>3 DEF TypeOK, Submit, Forms
        <3>. QED
            BY <2>1, <3>1 DEF ControlsInv
    <2>. QED
        BY <2>2, <2>3
<1>3. CASE Refused(k) \/ SaveLost(k)
    <2>1. /\ UNCHANGED <<table, list, fetched, open, base, draft, touched, input>>
          /\ phase' = [phase EXCEPT ![k] = "idle"]
        BY <1>3 DEF Refused, SaveLost, server, query, origin
    <2>2. phase'["edit"] # "idle" => phase["edit"] # "idle"
        BY <2>1 DEF TypeOK, Forms
    <2>. QED
        BY <2>1, <2>2 DEF ControlsInv
<1>4. CASE Handle(k)
    <2>1. UNCHANGED <<list, fetched, open, base, draft, touched, input>>
        BY <1>4 DEF Handle, query
    <2>2. phase'["edit"] # "idle" => phase["edit"] # "idle"
        BY <1>4 DEF TypeOK, Handle, Post, Put, Write, Refuse, Forms
    <2>3. Kept(table')
        BY <1>4, TableKept DEF ControlsInv, Kept
    <2>. QED
        BY <2>1, <2>2, <2>3 DEF ControlsInv, Kept
<1>. QED
    BY <1>1, <1>2, <1>3, <1>4

\* And so do forms that close after a fetch, whatever list the fetch has brought.
LEMMA ControlsSettle ==
    ASSUME TypeOK, RequestsInv, ControlsInv, NEW G \in SUBSET Waiting,
           NEW K \in SUBSET Forms, \A k \in K : phase[k] = "done", Settle(G, K),
           Kept(table'), Kept(list'), Kept(fetched')
    PROVE  ControlsInv'
<1>1. CASE "edit" \in G
    <2>1. "edit" \notin open' /\ phase'["edit"] = "idle"
        BY <1>1 DEF Settle, Unmount, Forms
    <2>. QED
        BY <2>1 DEF ControlsInv, Kept
<1>2. CASE "edit" \notin G
    <2>1. /\ "edit" \in open' <=> "edit" \in open
          /\ base'["edit"] = base["edit"] /\ draft'["edit"] = draft["edit"]
          /\ touched'["edit"] = touched["edit"] /\ input'["edit"] = input["edit"]
          /\ phase'["edit"] # "idle" => phase["edit"] # "idle"
        BY <1>2 DEF TypeOK, Settle, Unmount, Forms
    <2>. QED
        BY <2>1 DEF ControlsInv, Kept
<1>. QED
    BY <1>1, <1>2

\* A step of the query settles the forms that wait.
LEMMA QueryInv ==
    ASSUME TypeOK, PageInv,
           \/ AnswerList \/ LoadList \/ FailList \/ OperationEnded
           \/ \E k \in Forms : Saved(k)
           \/ \E c \in calls : CallDone(c)
    PROVE  PageInv'
<1>. Kept(table) /\ Kept(list) /\ Kept(fetched) /\ RequestsInv /\ ControlsInv
    BY DEF PageInv, ControlsInv, Kept
<1>. {} \in SUBSET Forms
    OBVIOUS
<1>1. CASE AnswerList
    BY <1>1 DEF PageInv, RequestsInv, ControlsInv, AnswerList, server, forms, views, origin
<1>2. CASE LoadList
    <2>1. Settle(Waiting, {}) /\ table' = table /\ list' = fetched /\ fetched' = fetched
        BY <1>2 DEF LoadList, server
    <2>. QED
        BY <2>1, RequestsSettle, ControlsSettle DEF PageInv
<1>3. CASE FailList
    <2>1. Settle(Waiting, {}) /\ table' = table /\ list' = list /\ fetched' = list
        BY <1>3 DEF FailList, server
    <2>. QED
        BY <2>1, RequestsSettle, ControlsSettle DEF PageInv
<1>4. ASSUME NEW K \in SUBSET Forms, \A k \in K : phase[k] = "done", Invalidate(K),
             table' = table
      PROVE  PageInv'
    <2>1. PICK G \in SUBSET Waiting : Settle(G, K)
        BY <1>4, InvalidateSettles
    <2>2. Kept(table') /\ Kept(list') /\ Kept(fetched')
        BY <1>4, InvalidateSettles
    <2>. QED
        BY <1>4, <2>1, <2>2, RequestsSettle, ControlsSettle DEF PageInv
<1>5. CASE OperationEnded \/ \E c \in calls : CallDone(c)
    BY <1>4, <1>5 DEF OperationEnded, CallDone, server
<1>6. ASSUME NEW k \in Forms, Saved(k)
      PROVE  PageInv'
    <2>1. {k} \in SUBSET Forms
        OBVIOUS
    <2>. QED
        BY <1>4, <1>6, <2>1 DEF Saved, server
<1>. QED
    BY <1>1, <1>2, <1>3, <1>5, <1>6

\* A step of the cards touches no form.
LEMMA CardsInv ==
    ASSUME TypeOK, PageInv,
           \/ \E p \in Plans : \/ ClickEnabled(p) \/ AskDelete(p) \/ ClickDelete(p)
                              \/ Elsewhere(p)
           \/ \E c \in calls : HandleCall(c) \/ CallLost(c)
    PROVE  PageInv'
<1>1. UNCHANGED <<list, fetched, open, target, draft, phase, input, asking, preview, base,
                  touched, wanted, born, unsure>>
    BY DEF ClickEnabled, AskDelete, ClickDelete, Elsewhere, HandleCall, CallLost, query, forms,
           views, origin
<1>2. Kept(table')
    <2>1. Kept(table)
        BY DEF PageInv, ControlsInv, Kept
    <2>2. CASE table' = table
        BY <2>1, <2>2
    <2>3. CASE table' # table
        <3>1. (\E c \in calls : HandleCall(c)) \/ (\E p \in Plans : Elsewhere(p))
            BY <2>3 DEF ClickEnabled, AskDelete, ClickDelete, CallLost, server
        <3>. QED
            BY <2>1, <3>1, TableKept
    <2>. QED
        BY <2>2, <2>3
<1>. QED
    BY <1>1, <1>2 DEF PageInv, RequestsInv, ControlsInv, Kept

-----------------------------------------------------------------------------
\* The inductive invariant of the page.
THEOREM PageInductive == Spec => [](TypeOK /\ PageInv)
<1>1. Init => TypeOK /\ PageInv
    <2>. SUFFICES ASSUME Init
                  PROVE  TypeOK /\ PageInv
        OBVIOUS
    <2>1. table \in Start /\ list = [table EXCEPT !.ids = {}] /\ fetched = list
        BY DEF Init
    <2>2. Kept(table) /\ Kept(list) /\ Kept(fetched)
        BY <2>1, PageAssumption DEF Kept, Table
    <2>3. /\ open = {} /\ born = {}
          /\ \A k \in Forms : phase[k] = "idle" /\ target[k] = None /\ input[k].to = None
        BY DEF Init, NoInput
    <2>4. \A k \in Forms, v \in Views : asking[k][v] = {} /\ preview[k][v] = {}
        BY DEF Init, NoViews
    <2>. QED
        BY <2>2, <2>3, <2>4, InitType DEF PageInv, ControlsInv, RequestsInv, Kept, Forms
<1>2. TypeOK /\ PageInv /\ [Next]_vars => TypeOK' /\ PageInv'
    <2>. SUFFICES ASSUME TypeOK, PageInv, [Next]_vars
                  PROVE  TypeOK' /\ PageInv'
        OBVIOUS
    <2>. RequestsInv /\ ControlsInv
        BY DEF PageInv
    <2>1. ASSUME NEW k \in Forms,
                 \/ ClickAdd \/ \E p \in Plans : ClickEdit(p)
                 \/ \E v \in Views : ClickPreview(k, v) \/ AnswerPreview(k, v)
          PROVE  TypeOK' /\ PageInv'
        BY <2>1, ControlsType, RequestsForms, ControlsForms DEF PageInv
    <2>2. ASSUME NEW k \in Forms,
                 EditName(k) \/ EditContents(k) \/ EditSchedule(k) \/ EditRetention(k)
                 \/ EditEnabled(k)
          PROVE  TypeOK' /\ PageInv'
        <3>1. \E f \in Field, d \in Draft :
                 Edit(k, f, d) /\ \A g \in Field \ {f} : d[g] = draft[k][g]
            BY <2>2, EditChangesOne
        <3>. QED
            BY <2>2, <3>1, EditType, RequestsForms, ControlsForms DEF PageInv
    <2>3. ASSUME NEW k \in Forms, Cancel(k) \/ Submit(k) \/ Refused(k) \/ SaveLost(k)
          PROVE  TypeOK' /\ PageInv'
        BY <2>3, SubmitType, RequestsSubmit, ControlsSubmit DEF PageInv
    <2>4. ASSUME NEW k \in Forms, Handle(k)
          PROVE  TypeOK' /\ PageInv'
        <3>1. input[k].d.name # ""
            BY <2>4 DEF RequestsInv, Handle
        <3>. QED
            BY <2>4, <3>1, HandleType, RequestsSubmit, ControlsSubmit DEF PageInv
    <2>5. CASE \/ AnswerList \/ LoadList \/ FailList \/ OperationEnded
               \/ \E k \in Forms : Saved(k)
               \/ \E c \in calls : CallDone(c)
        BY <2>5, QueryType, QueryInv
    <2>6. CASE \/ \E p \in Plans : ClickEnabled(p) \/ AskDelete(p) \/ ClickDelete(p)
               \/ \E p \in Plans : Elsewhere(p)
               \/ \E c \in calls : HandleCall(c) \/ CallLost(c)
        <3>1. TypeOK'
            BY <2>6, CardType, CallsType
        <3>2. PageInv'
            BY <2>6, CardsInv
        <3>. QED
            BY <3>1, <3>2
    <2>7. CASE UNCHANGED vars
        <3>1. TypeOK'
            BY <2>7 DEF vars, TypeOK
        <3>2. PageInv'
            BY <2>7 DEF vars, PageInv, RequestsInv, ControlsInv
        <3>. QED
            BY <3>1, <3>2
    <2>8. \E k : k \in Forms
        BY DEF Forms
    <2>9. CASE User
        BY <2>1, <2>2, <2>3, <2>6, <2>8, <2>9 DEF User
    <2>10. CASE System
        BY <2>1, <2>3, <2>4, <2>5, <2>6, <2>10 DEF System
    <2>. QED
        BY <2>7, <2>9, <2>10 DEF Next
<1>. QED
    BY <1>1, <1>2, PTL DEF Spec

\* Every variable keeps to its type.
THEOREM PageTypeCorrect == Spec => []TypeOK
BY PageInductive, PTL

\* A form creates one plan unless an answer got lost.
THEOREM FormCreatesOnce == Spec => []CreatedOnce
<1>1. TypeOK /\ PageInv => CreatedOnce
    <2>. SUFFICES ASSUME TypeOK, PageInv, "add" \notin unsure
                  PROVE  ~(Cardinality(born) > 1)
        BY DEF CreatedOnce
    <2>1. \A p, q \in born : p = q
        BY DEF PageInv, RequestsInv
    <2>2. CASE born = {}
        BY <2>2, FS_EmptySet
    <2>3. ASSUME NEW p, p \in born
          PROVE  ~(Cardinality(born) > 1)
        <3>1. born = {p}
            BY <2>1, <2>3
        <3>2. Cardinality({p}) = 1
            BY FS_Singleton
        <3>. QED
            BY <3>1, <3>2
    <2>. QED
        BY <2>2, <2>3
<1>. QED
    BY <1>1, PageInductive, PTL

\* A preview on the screen answers the last click.
THEOREM PreviewIsCurrent == Spec => []PreviewAnswersLastClick
<1>1. TypeOK /\ PageInv => PreviewAnswersLastClick
    BY DEF TypeOK, PageInv, RequestsInv, PreviewAnswersLastClick
<1>. QED
    BY <1>1, PageInductive, PTL

-----------------------------------------------------------------------------
\* A field of the row depends on its own controls only.
LEMMA InputDependsOnControls ==
    ASSUME NEW d, NEW e, NEW f \in RowField, \A g \in Controls(f) : d[g] = e[g]
    PROVE  InputOf(d)[f] = InputOf(e)[f]
<1>1. CASE f = "schedule"
    BY <1>1 DEF InputOf, Controls
<1>2. CASE f = "prune"
    BY <1>2 DEF InputOf, Controls
<1>3. CASE f = "name"
    BY <1>3 DEF InputOf, Controls
<1>4. CASE f = "contents"
    BY <1>4 DEF InputOf, Controls
<1>5. CASE f = "keep"
    BY <1>5 DEF InputOf, Controls
<1>6. CASE f = "enabled"
    BY <1>6 DEF InputOf, Controls
<1>. QED
    BY <1>1, <1>2, <1>3, <1>4, <1>5, <1>6 DEF RowField

\* Only the server's half ends the sending of a request well.
LEMMA OnlyHandleSaves ==
    ASSUME TypeOK, [Next]_vars, NEW k \in Forms, phase[k] = "sent", phase'[k] = "done"
    PROVE  Handle(k)
<1>. phase \in [Forms -> {"idle", "sent", "done", "refused", "refetch"}]
    BY DEF TypeOK
<1>1. phase' # phase
    OBVIOUS
<1>2. ASSUME NEW G \in SUBSET Waiting, NEW K \in SUBSET Forms, Settle(G, K)
      PROVE  FALSE
    BY <1>2 DEF Settle
<1>2a. \A K \in SUBSET Forms : ~Invalidate(K)
    BY <1>2, InvalidateSettles
<1>3. ASSUME NEW j \in Forms, Handle(j)
      PROVE  j = k
    BY <1>3 DEF Handle, Post, Put, Write, Refuse
<1>4. ASSUME NEW j \in Forms, Submit(j) \/ Refused(j) \/ SaveLost(j)
      PROVE  FALSE
    BY <1>4 DEF Submit, Refused, SaveLost
<1>5. ~User
    BY <1>1, <1>4
       DEF User, ClickAdd, ClickEdit, Mount, ClickEnabled, AskDelete, ClickDelete, EditName,
           EditContents, EditSchedule, EditRetention, EditEnabled, Edit, Cancel, ClickPreview,
           forms
<1>6. ~(LoadList \/ FailList \/ OperationEnded)
    <2>1. {} \in SUBSET Forms /\ Waiting \in SUBSET Waiting
        OBVIOUS
    <2>. QED
        BY <1>2, <1>2a, <2>1 DEF LoadList, FailList, OperationEnded
<1>7. ~\E c \in calls : HandleCall(c) \/ CallDone(c) \/ CallLost(c)
    <2>1. {} \in SUBSET Forms
        OBVIOUS
    <2>. QED
        BY <1>1, <1>2a, <2>1 DEF HandleCall, CallDone, CallLost, forms
<1>8. ~(AnswerList \/ \E p \in Plans : Elsewhere(p))
    BY <1>1 DEF AnswerList, Elsewhere, forms
<1>9. ~\E j \in Forms : Saved(j) \/ \E v \in Views : AnswerPreview(j, v)
    <2>1. \A j \in Forms : {j} \in SUBSET Forms
        OBVIOUS
    <2>. QED
        BY <1>1, <1>2a, <2>1 DEF Saved, AnswerPreview, forms
<1>10. System
    BY <1>1, <1>5 DEF Next, vars
<1>. QED
    BY <1>3, <1>4, <1>6, <1>7, <1>8, <1>9, <1>10 DEF System

\* A form that saves a row changes a field only for the reasons that the property names.
THEOREM UpdateIsIntended == Spec => UpdateChangesForAReason
<1>1. ASSUME TypeOK, PageInv, [Next]_vars, NEW k \in Forms, NEW f \in RowField,
             phase[k] = "sent", phase'[k] = "done", input[k].to # None,
             table'.row[input[k].to][f] # table.row[input[k].to][f],
             Controls(f) \cap input[k].touched = {},
             base[k].id = input[k].to,
             base[k].row[f] = table.row[input[k].to][f],
             ~(f = "prune" /\ base[k].row.keep /\ ~base[k].row.prune)
      PROVE  FALSE
    <2>1. k = "edit" /\ "edit" \in open
        BY <1>1 DEF PageInv, RequestsInv, Forms
    <2>2. Write(k, input[k].to) /\ input[k].to \in Plans
        <3>1. Handle(k)
            BY <1>1, OnlyHandleSaves
        <3>2. Put(k) /\ ~Refuse(k)
            BY <1>1, <3>1 DEF TypeOK, Handle, Post, Refuse
        <3>. QED
            BY <1>1, <3>2 DEF TypeOK, Put
    <2>3. table'.row[input[k].to] = InputOf(input[k].d)
        BY <1>1, <2>2 DEF TypeOK, Table, Write
    <2>4. /\ base["edit"].row \in Row
          /\ base["edit"].row.prune => base["edit"].row.keep
          /\ \A g \in Field \ input["edit"].touched :
                input["edit"].d[g] = FormOf(base["edit"].row)[g]
        BY <1>1, <2>1 DEF PageInv, ControlsInv
    <2>5. Controls(f) \subseteq Field
        BY DEF Controls, RowField, Field
    <2>6. InputOf(input[k].d)[f] = InputOf(FormOf(base[k].row))[f]
        BY <1>1, <2>1, <2>4, <2>5, InputDependsOnControls
    <2>7. CASE f = "prune"
        BY <1>1, <2>1, <2>3, <2>4, <2>6, <2>7, RoundTripPrune
    <2>8. CASE f # "prune"
        BY <1>1, <2>1, <2>3, <2>4, <2>6, <2>8, RoundTrip
    <2>. QED
        BY <2>7, <2>8
<1>2. TypeOK /\ PageInv /\ [Next]_vars =>
        \A k \in Forms, f \in RowField :
            LET p == input[k].to
            IN  (/\ phase[k] = "sent" /\ phase'[k] = "done" /\ p # None
                 /\ table'.row[p][f] # table.row[p][f])
                => \/ Controls(f) \cap input[k].touched # {}
                   \/ base[k].id # p
                   \/ base[k].row[f] # table.row[p][f]
                   \/ f = "prune" /\ base[k].row.keep /\ ~base[k].row.prune
    BY <1>1
<1>. QED
    BY <1>2, PageInductive, PTL DEF Spec, UpdateChangesForAReason

\* A form that closes without a click has been saved.
THEOREM ClosedFormWasSaved == Spec => ClosedFormIsSaved
<1>1. ASSUME TypeOK, PageInv, [Next]_vars, NEW k \in Forms, k \in open, k \notin open',
             clicks' = clicks
      PROVE  /\ phase[k] = "refetch"
             /\ \A f \in Field : draft[k][f] # input[k].d[f] => f \in touched[k]
    <2>1. clicks \in Nat /\ ~Click
        <3>1. clicks \in Nat
            <4>1. clicks \in 0..MaxClicks
                BY <1>1 DEF TypeOK
            <4>. QED
                BY <4>1
        <3>. QED
            BY <1>1, <3>1 DEF Click
    <2>2. ASSUME NEW G \in SUBSET Waiting, NEW K \in SUBSET Forms, Settle(G, K)
          PROVE  phase[k] = "refetch"
        BY <1>1, <2>2 DEF Settle, Waiting, Unmount
    <2>3. ~User
        BY <2>1
           DEF User, ClickAdd, ClickEdit, ClickEnabled, AskDelete, ClickDelete, EditName,
               EditContents, EditSchedule, EditRetention, EditEnabled, Edit, Cancel, Submit,
               ClickPreview
    <2>4. open' # open
        BY <1>1
    <2>5. ~\/ AnswerList \/ \E p \in Plans : Elsewhere(p)
           \/ \E c \in calls : HandleCall(c) \/ CallLost(c)
           \/ \E j \in Forms : \/ Handle(j) \/ Refused(j) \/ SaveLost(j)
                               \/ \E v \in Views : AnswerPreview(j, v)
        BY <2>4 DEF AnswerList, Elsewhere, HandleCall, CallLost, Handle, Refused, SaveLost,
                    AnswerPreview, forms
    <2>6. \E G \in SUBSET Waiting : \E K \in SUBSET Forms : Settle(G, K)
        <3>1. System
            BY <2>3, <2>4, <1>1 DEF Next, vars
        <3>2. {} \in SUBSET Forms /\ Waiting \in SUBSET Waiting
              /\ \A j \in Forms : {j} \in SUBSET Forms
            OBVIOUS
        <3>3. \/ LoadList \/ FailList
              \/ \E K \in SUBSET Forms : Invalidate(K)
            BY <2>5, <3>1, <3>2 DEF System, OperationEnded, Saved, CallDone
        <3>4. CASE LoadList \/ FailList
            BY <3>2, <3>4 DEF LoadList, FailList
        <3>5. CASE \E K \in SUBSET Forms : Invalidate(K)
            BY <1>1, <3>5, InvalidateSettles
        <3>. QED
            BY <3>3, <3>4, <3>5
    <2>7. phase[k] = "refetch"
        BY <2>2, <2>6
    <2>. QED
        BY <1>1, <2>7 DEF PageInv, RequestsInv
<1>2. TypeOK /\ PageInv /\ [Next]_vars =>
        \A k \in Forms :
            (k \in open \ open' /\ clicks' = clicks)
            => /\ phase[k] = "refetch"
               /\ \A f \in Field : draft[k][f] # input[k].d[f] => f \in touched[k]
    BY <1>1
<1>. QED
    BY <1>2, PageInductive, PTL DEF Spec, ClosedFormIsSaved

-----------------------------------------------------------------------------
\* What the user does changes neither the table nor the list, and ends no request.
LEMMA ListUser ==
    ASSUME TypeOK, ListInv, User
    PROVE  ListInv'
<1>1. UNCHANGED <<table, fetch, fetched, list, missed, since>>
    BY DEF User, ClickAdd, ClickEdit, Mount, ClickEnabled, AskDelete, ClickDelete, EditName,
           EditContents, EditSchedule, EditRetention, EditEnabled, Edit, Cancel, Submit,
           ClickPreview, server, query, gaps
<1>2. \A c \in calls : c \in calls'
    BY DEF User, ClickAdd, ClickEdit, Mount, ClickEnabled, AskDelete, ClickDelete, EditName,
           EditContents, EditSchedule, EditRetention, EditEnabled, Edit, Cancel, Submit,
           ClickPreview, cards
<1>3. \A k \in Forms : phase'[k] # "done" => phase[k] # "done"
    <2>1. phase \in [Forms -> {"idle", "sent", "done", "refused", "refetch"}]
        BY DEF TypeOK
    <2>2. ASSUME NEW k \in Forms, Submit(k)
          PROVE  \A j \in Forms : phase'[j] # "done" => phase[j] # "done"
        BY <2>1, <2>2 DEF Submit, Busy
    <2>3. CASE phase' = phase
        BY <2>3
    <2>4. CASE phase' # phase
        <3>1. \E k \in Forms : Submit(k)
            BY <2>4 DEF User, ClickAdd, ClickEdit, Mount, ClickEnabled, AskDelete, ClickDelete,
                        EditName, EditContents, EditSchedule, EditRetention, EditEnabled, Edit,
                        Cancel, ClickPreview, forms
        <3>. QED
            BY <2>2, <3>1
    <2>. QED
        BY <2>3, <2>4
<1>. QED
    BY <1>1, <1>2, <1>3 DEF ListInv

\* A step that starts the fetch again owes nobody anything yet; one that ends it hands
\* over what was answered; one that changes the table is announced, or missed.
LEMMA ListSystem ==
    ASSUME TypeOK, ListInv, System
    PROVE  ListInv'
<1>. phase \in [Forms -> {"idle", "sent", "done", "refused", "refetch"}]
    BY DEF TypeOK
<1>1. ASSUME NEW G \in SUBSET Waiting, NEW K \in SUBSET Forms, Settle(G, K)
      PROVE  \A k \in Forms \ K : phase[k] = "done" => phase'[k] = "done"
    BY <1>1 DEF Settle, Waiting
<1>. {} \in SUBSET Forms /\ \A k \in Forms : {k} \in SUBSET Forms
    OBVIOUS
<1>2. CASE AnswerList
    BY <1>2 DEF ListInv, AnswerList, server, forms, cards
<1>3. CASE LoadList
    <2>1. Settle(Waiting, {}) /\ Waiting \in SUBSET Waiting
        BY <1>3 DEF LoadList
    <2>. QED
        BY <1>1, <1>3, <2>1 DEF ListInv, LoadList, server, cards
<1>4. CASE FailList
    BY <1>4 DEF ListInv, FailList
<1>5. CASE \/ OperationEnded
           \/ \E k \in Forms : Saved(k)
           \/ \E c \in calls : CallDone(c)
    <2>1. \E K \in SUBSET Forms : Invalidate(K)
        BY <1>5 DEF OperationEnded, Saved, CallDone
    <2>2. ~Restarts => fetch = "sent" \/ fetch = "answered"
        BY DEF TypeOK, Restarts
    <2>3. /\ fetch' # "idle"
          /\ fetch' = "answered" => since' # {}
        BY <2>1, <2>2 DEF Invalidate, Refetch
    <2>. QED
        BY <2>3 DEF ListInv
<1>6. CASE \/ \E k \in Forms : SaveLost(k)
           \/ \E c \in calls : CallLost(c)
           \/ \E p \in Plans : Elsewhere(p)
    BY <1>6 DEF ListInv, SaveLost, CallLost, Elsewhere, Miss, query
<1>7. ASSUME NEW k \in Forms, Refused(k) \/ \E v \in Views : AnswerPreview(k, v)
      PROVE  ListInv'
    BY <1>7 DEF ListInv, Refused, AnswerPreview, server, query, cards, gaps, forms
<1>8. ASSUME NEW k \in Forms, Handle(k)
      PROVE  ListInv'
    <2>1. UNCHANGED <<calls, fetch, fetched, list, missed, since>>
        BY <1>8 DEF Handle, query, cards, gaps
    <2>2. CASE Refuse(k)
        BY <1>8, <2>1, <2>2 DEF ListInv, Handle, Refuse, server
    <2>3. CASE ~Refuse(k)
        <3>1. phase'[k] = "done"
            BY <1>8, <2>3 DEF Handle, Post, Put, Write
        <3>. QED
            BY <3>1 DEF ListInv
    <2>. QED
        BY <2>2, <2>3
<1>9. ASSUME NEW c \in calls, HandleCall(c)
      PROVE  ListInv'
    <2>1. UNCHANGED <<phase, fetch, fetched, list, missed, since>>
        BY <1>9 DEF HandleCall, forms, query, gaps
    <2>2. CASE c.to \in table.ids
        <3>1. [c EXCEPT !.done = TRUE] \in calls' /\ [c EXCEPT !.done = TRUE].done
            BY <1>9, <2>2 DEF TypeOK, Call, HandleCall
        <3>. QED
            BY <3>1 DEF ListInv
    <2>3. CASE c.to \notin table.ids
        <3>1. table' = table /\ calls' = calls \ {c} /\ ~c.done
            BY <1>9, <2>3 DEF HandleCall
        <3>. QED
            BY <2>1, <3>1 DEF ListInv
    <2>. QED
        BY <2>2, <2>3
<1>. QED
    BY <1>2, <1>3, <1>4, <1>5, <1>6, <1>7, <1>8, <1>9 DEF System

\* The cards show the table, or have a reason not to.
THEOREM CardsAreCurrent == Spec => []CardsAreStaleForAReason
<1>1. Init => ListInv
    BY DEF Init, ListInv
<1>2. TypeOK /\ ListInv /\ [Next]_vars => ListInv'
    <2>1. UNCHANGED vars /\ ListInv => ListInv'
        BY DEF vars, ListInv
    <2>. QED
        BY <2>1, ListUser, ListSystem DEF Next
<1>3. ListInv /\ PageInv => CardsAreStaleForAReason
    <2>. SUFFICES ASSUME ListInv, PageInv, fetch = "idle", calls = {}, missed = {},
                         \A k \in open : phase[k] = "idle"
                  PROVE  list = table
        BY DEF CardsAreStaleForAReason
    <2>1. \A k \in Forms : phase[k] = "idle"
        BY DEF PageInv, RequestsInv
    <2>. QED
        BY <2>1 DEF ListInv
<1>. QED
    BY <1>1, <1>2, <1>3, PageInductive, PTL DEF Spec
=============================================================================
