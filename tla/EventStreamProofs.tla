-------------------------- MODULE EventStreamProofs --------------------------
(***************************************************************************)
(* Theorems about EventStream, for every set of operations, every capacity *)
(* of the channel, and a tab that may be slow, disconnected, or both.      *)
(***************************************************************************)
EXTENDS EventStream, TLAPS

\* A status only has a rank; the ranks follow the life of an operation, and
\* only the outcomes share one.
LEMMA Ranks ==
    /\ \A s \in Status : Rank(s) \in 0..3
    /\ Rank("none") = 0 /\ Rank("queued") = 1 /\ Rank("running") = 2
    /\ \A s \in Terminal : Rank(s) = 3
    /\ \A s \in Status : Rank(s) = 3 => s \in Terminal
    /\ \A s, t \in Status : Rank(s) = Rank(t) => s = t \/ (s \in Terminal /\ t \in Terminal)
    /\ \A s \in Status \ {"none"} : Rank(s) > 0
<1>1. Rank("none") = 0 /\ Rank("queued") = 1 /\ Rank("running") = 2
    BY DEF Rank
<1>2. ASSUME NEW s \in Terminal
      PROVE  Rank(s) = 3
    <2>1. s # "none" /\ s # "queued" /\ s # "running"
        BY DEF Terminal
    <2>. QED
        BY <2>1 DEF Rank
<1>. QED
    BY <1>1, <1>2 DEF Status

\* A rank is a number.
LEMMA RankType == \A s \in Status : Rank(s) \in Nat
BY Ranks

\* What Append and Tail make of a channel.
LEMMA Appended ==
    ASSUME NEW c \in Seq(Event), NEW e \in Event
    PROVE  /\ Append(c, e) \in Seq(Event) /\ Len(Append(c, e)) = Len(c) + 1
           /\ \A i \in DOMAIN c : i \in DOMAIN Append(c, e) /\ Append(c, e)[i] = c[i]
                                  /\ i < Len(c) + 1
           /\ Len(c) + 1 \in DOMAIN Append(c, e) /\ Append(c, e)[Len(c) + 1] = e
           /\ \A i \in DOMAIN Append(c, e) : i \in DOMAIN c \/ i = Len(c) + 1
           /\ DOMAIN c \subseteq Nat /\ Len(c) \in Nat
OBVIOUS

\* And what is left of it when its first event is taken.
LEMMA Received ==
    ASSUME NEW c \in Seq(Event), c # <<>>
    PROVE  /\ Head(c) \in Event /\ Head(c) = c[1] /\ 1 \in DOMAIN c
           /\ Tail(c) \in Seq(Event) /\ Len(Tail(c)) = Len(c) - 1
           /\ \A i \in DOMAIN Tail(c) : i + 1 \in DOMAIN c /\ Tail(c)[i] = c[i + 1] /\ i \in Nat /\ 1 < i + 1
           /\ \A i \in DOMAIN c : i = 1 \/ (i - 1 \in DOMAIN Tail(c) /\ Tail(c)[i - 1] = c[i])
           /\ DOMAIN c \subseteq Nat /\ Len(c) \in Nat
OBVIOUS

-----------------------------------------------------------------------------
(* Types.                                                                   *)

\* The constants and the data that any step may put somewhere.
LEMMA EventType ==
    ASSUME TypeOK
    PROVE  \A i \in DOMAIN channel :
              /\ channel[i] \in Event
              /\ channel[i].op \in Ops /\ channel[i].status \in Status \ {"none"}
<1>1. ASSUME NEW i \in DOMAIN channel
      PROVE  channel[i] \in Event
    <2>1. channel \in Seq(Event) /\ DOMAIN channel = 1..Len(channel)
        BY DEF TypeOK
    <2>. QED
        BY <2>1
<1>2. ASSUME NEW e \in Event
      PROVE  e.op \in Ops /\ e.status \in Status \ {"none"}
    BY DEF Event
<1>. QED
    BY <1>1, <1>2

\* What a list has missed is a set of operations.
LEMMA MissType ==
    ASSUME TypeOK, NEW os \in SUBSET Ops, Miss(os)
    PROVE  missed' \in [Queries -> SUBSET Ops] /\ since' \in [Queries -> SUBSET Ops]
BY DEF TypeOK, Miss

\* What is written and not yet published is a status.
LEMMA UnpublishedHasRow ==
    ASSUME TypeOK, StreamInv
    PROVE  \A o \in unsent : row[o] \in Status \ {"none"} /\ Rank(seen[o]) < Rank(row[o])
<1>. SUFFICES ASSUME NEW o \in unsent
              PROVE  row[o] # "none" /\ Rank(seen[o]) < Rank(row[o])
    BY DEF TypeOK
<1>1. o \in Ops /\ seen[o] \in Status /\ row[o] \in Status
    BY DEF TypeOK
<1>2. Rank(seen[o]) < Rank(row[o])
    BY <1>1 DEF StreamInv, ChannelInv, Happened
<1>3. Rank(seen[o]) \in 0..3 /\ Rank("none") = 0
    BY <1>1, Ranks
<1>. QED
    BY <1>2, <1>3

\* Receive, with its event e, the operation o of it, and the queries whose data
\* know of o.
Receives(e, o, known) ==
    /\ channel # <<>> /\ e = Head(channel) /\ o = e.op /\ channel' = Tail(channel)
    /\ known = {q \in loaded : q = "recent" \/ shown[q][o] # "none"}
    /\ seen' = [seen EXCEPT ![o] = e.status]
    /\ \/ toasts' = toasts
       \/ Toasts(e) /\ toasts[o] < 2 /\ toasts' = [toasts EXCEPT ![o] = @ + 1]
    /\ shown' = [q \in Queries |->
                   IF q \in known THEN [shown[q] EXCEPT ![o] = e.status] ELSE shown[q]]
    /\ overtaken' = [q \in Queries |->
                       IF q \in known THEN overtaken[q] \ {o} ELSE overtaken[q]]
    /\ \/ /\ "history" \notin known /\ Invalidated("history")
          /\ fetch' = [fetch EXCEPT !["history"] = "sent"]
          /\ answer' = [answer EXCEPT !["history"] = Nothing]
       \/ /\ ~("history" \notin known /\ Invalidated("history"))
          /\ UNCHANGED <<fetch, answer>>
    /\ UNCHANGED <<row, unsent, orphans, connected, page, loaded, past, missed, since>>

\* A received event is handled as Receives says, for some lists that are known.
LEMMA Receiving ==
    ASSUME TypeOK, Receive
    PROVE  \E e \in Event, o \in Ops, known \in SUBSET Queries :
              o = e.op /\ e.status \in Status \ {"none"} /\ Receives(e, o, known)
<1>. DEFINE e     == Head(channel)
            known == {q \in loaded : q = "recent" \/ shown[q][e.op] # "none"}
<1>1. e \in Event /\ e.op \in Ops /\ e.status \in Status \ {"none"}
    BY Received, EventType DEF TypeOK, Receive
<1>2. known \in SUBSET Queries
    BY DEF TypeOK
<1>3. Receives(e, e.op, known)
    BY DEF Receive, Receives, server
<1>. QED
    BY <1>1, <1>2, <1>3

\* Every step keeps TypeOK, given that what is published has a status.
LEMMA StepType ==
    ASSUME TypeOK, StreamInv, [Next]_vars
    PROVE  TypeOK'
<1>. USE DEF server, stream, queries, tab, history
<1>1. ASSUME NEW o \in Ops, NEW s \in Status, WriteRow(o, s)
      PROVE  TypeOK'
    BY <1>1 DEF TypeOK, WriteRow
<1>2. ASSUME NEW o \in Ops, Publish(o)
      PROVE  TypeOK'
    <2>1. channel' \in Seq(Event) /\ Len(channel') <= Cap
        <3>1. row[o] \in Status \ {"none"}
            BY <1>2, UnpublishedHasRow DEF Publish
        <3>2. [op |-> o, status |-> row[o]] \in Event
            BY <3>1 DEF Event
        <3>3. CASE connected /\ Len(channel) < Cap
            <4>1. channel' = Append(channel, [op |-> o, status |-> row[o]])
                BY <1>2, <3>3 DEF Publish
            <4>. QED
                BY <3>2, <3>3, <4>1, Appended, StreamAssumption DEF TypeOK
        <3>4. CASE ~(connected /\ Len(channel) < Cap)
            BY <1>2, <3>4 DEF TypeOK, Publish
        <3>. QED
            BY <3>3, <3>4
    <2>2. missed' \in [Queries -> SUBSET Ops] /\ since' \in [Queries -> SUBSET Ops]
        BY <1>2, MissType DEF TypeOK, Publish
    <2>. QED
        BY <1>2, <2>1, <2>2 DEF TypeOK, Publish
<1>3. CASE Connect
    BY <1>3, StreamAssumption DEF TypeOK, Connect
<1>4. CASE Disconnect
    <2>1. Waiting \subseteq Ops
        BY EventType DEF Waiting
    <2>2. missed' \in [Queries -> SUBSET Ops] /\ since' \in [Queries -> SUBSET Ops]
        BY <1>4, <2>1, MissType DEF Disconnect
    <2>3. channel' \in Seq(Event) /\ Len(channel') <= Cap
        BY <1>4, StreamAssumption DEF Disconnect
    <2>. QED
        BY <1>4, <2>2, <2>3 DEF TypeOK, Disconnect
<1>5. CASE Receive
    <2>1. PICK e \in Event, o \in Ops, known \in SUBSET Queries :
                 e.status \in Status \ {"none"} /\ Receives(e, o, known)
        BY <1>5, Receiving
    <2>2. channel' \in Seq(Event) /\ Len(channel') <= Cap
        BY <2>1, Received, StreamAssumption DEF TypeOK, Receives
    <2>3. seen' \in [Ops -> Status] /\ toasts' \in [Ops -> 0..2]
        <3>1. seen' \in [Ops -> Status]
            BY <2>1 DEF TypeOK, Receives
        <3>2. toasts[o] < 2 => toasts[o] + 1 \in 0..2
            BY DEF TypeOK
        <3>3. toasts' = toasts \/ (toasts[o] < 2 /\ toasts' = [toasts EXCEPT ![o] = toasts[o] + 1])
            BY <2>1 DEF Receives
        <3>. QED
            BY <3>1, <3>2, <3>3 DEF TypeOK
    <2>4. shown' \in [Queries -> [Ops -> Status]] /\ overtaken' \in [Queries -> SUBSET Ops]
        BY <2>1 DEF TypeOK, Receives
    <2>5. fetch' \in [Queries -> {"idle", "sent", "answered"}] /\ answer' \in [Queries -> [Ops -> Status]]
        BY <2>1 DEF TypeOK, Receives, Nothing, Status, Queries
    <2>. QED
        BY <2>1, <2>2, <2>3, <2>4, <2>5 DEF TypeOK, Receives
<1>6. ASSUME NEW q \in Queries, Visit(q)
      PROVE  TypeOK'
    BY <1>6 DEF TypeOK, Visit
<1>7. ASSUME NEW q \in Queries, Answer(q)
      PROVE  TypeOK'
    BY <1>7 DEF TypeOK, Answer
<1>8. ASSUME NEW q \in Queries, Load(q)
      PROVE  TypeOK'
    BY <1>8 DEF TypeOK, Load, Nothing, Status
<1>9. ASSUME NEW q \in Queries, Fail(q)
      PROVE  TypeOK'
    BY <1>9 DEF TypeOK, Fail, Nothing, Status
<1>10. CASE RunNow
    BY <1>10 DEF TypeOK, RunNow, Nothing, Status
<1>11. CASE UNCHANGED vars
    BY <1>11 DEF TypeOK, vars
<1>12. ASSUME NEW o \in Ops, SkipPublish(o)
       PROVE  TypeOK'
    BY <1>12, MissType DEF TypeOK, SkipPublish
<1>13. CASE Interrupt
    <2>1. Live \cup unsent \cup Waiting \in SUBSET Ops
        BY EventType DEF TypeOK, Live, Waiting
    <2>2. missed' \in [Queries -> SUBSET Ops] /\ since' \in [Queries -> SUBSET Ops]
        BY <1>13, <2>1, MissType DEF Interrupt
    <2>3. channel' \in Seq(Event) /\ Len(channel') <= Cap
        BY <1>13, StreamAssumption DEF Interrupt
    <2>4. row' \in [Ops -> Status]
        BY <1>13 DEF TypeOK, Interrupt, Status, Terminal
    <2>. QED
        BY <1>13, <2>2, <2>3, <2>4 DEF TypeOK, Interrupt
<1>. QED
    BY <1>1, <1>2, <1>3, <1>4, <1>5, <1>6, <1>7, <1>8, <1>9, <1>10, <1>11, <1>12, <1>13 DEF Next

-----------------------------------------------------------------------------
(* StreamInv, action by action.                                             *)

\* The row of an operation moves on to a status that it has never had.
LEMMA WriteRowInv ==
    ASSUME TypeOK, StreamInv, NEW o \in Ops, NEW s \in Status, WriteRow(o, s)
    PROVE  StreamInv'
<1>. USE DEF server, stream, queries, tab, history
<1>1. /\ o \notin unsent /\ row[o] \notin Terminal
      /\ row' = [row EXCEPT ![o] = s] /\ unsent' = unsent \cup {o}
      /\ Rank(row[o]) < Rank(s)
    <2>1. /\ o \notin unsent
          /\ row' = [row EXCEPT ![o] = s] /\ unsent' = unsent \cup {o}
          /\ \/ row[o] = "none" /\ s = "queued"
             \/ row[o] = "queued" /\ s = "running"
             \/ row[o] = "running" /\ s \in Terminal
        BY StreamAssumption DEF WriteRow
    <2>2. row[o] \notin Terminal
        BY <2>1 DEF Terminal
    <2>3. Rank(row[o]) < Rank(s)
        BY <2>1, Ranks
    <2>. QED
        BY <2>1, <2>2, <2>3
<1>2. ASSUME NEW t \in Status, NEW n \in Ops, Happened(t, n)
      PROVE  /\ t = row'[n] \/ Rank(t) < Rank(row'[n])
             /\ n = o => t # row'[n]
    <2>1. Rank(t) \in Nat /\ Rank(row[n]) \in Nat /\ Rank(s) \in Nat
        <3>1. row[n] \in Status
            BY DEF TypeOK
        <3>. QED
            BY <3>1, RankType
    <2>2. t = row[n] \/ Rank(t) < Rank(row[n])
        BY <1>2 DEF Happened
    <2>3. CASE n = o
        <3>1. row'[n] = s /\ Rank(t) < Rank(s)
            BY <1>1, <2>1, <2>2, <2>3 DEF TypeOK
        <3>. QED
            BY <2>1, <3>1
    <2>4. CASE n # o
        BY <1>1, <2>2, <2>4 DEF TypeOK
    <2>. QED
        BY <2>3, <2>4
<1>3. ChannelInv'
    <2>1. \A n \in Ops : Happened(seen[n], n)'
        BY <1>2 DEF TypeOK, WriteRow, StreamInv, ChannelInv, Happened
    <2>2. \A i \in DOMAIN channel : Happened(channel[i].status, channel[i].op)'
        BY <1>2, EventType DEF WriteRow, StreamInv, ChannelInv, Happened
    <2>3. \A n \in unsent' : seen'[n] # row'[n]
        BY <1>1, <1>2 DEF TypeOK, WriteRow, StreamInv, ChannelInv
    <2>4. ASSUME NEW n \in unsent', NEW i \in DOMAIN channel, channel[i].op = n
          PROVE  channel[i].status # row'[n]
        <3>1. CASE n = o
            BY <1>2, <2>4, <3>1, EventType DEF StreamInv, ChannelInv
        <3>2. CASE n # o
            BY <1>1, <2>4, <3>2 DEF TypeOK, StreamInv, ChannelInv, Arriving
        <3>. QED
            BY <3>1, <3>2
    <2>. QED
        BY <2>1, <2>2, <2>3, <2>4 DEF WriteRow, StreamInv, ChannelInv, Arriving
<1>4. ToastInv'
    BY <1>1 DEF TypeOK, WriteRow, StreamInv, ToastInv, InChannel
<1>5. QueryInv'
    <2>1. \A q \in Queries, n \in Ops : (Happened(shown[q][n], n) /\ Happened(answer[q][n], n))'
        BY <1>2 DEF TypeOK, WriteRow, StreamInv, QueryInv, Happened
    <2>2. \A n \in Ops \ unsent' : n \notin unsent /\ row'[n] = row[n]
        BY <1>1 DEF TypeOK
    <2>3. UNCHANGED <<channel, page, loaded, shown, fetch, answer, seen, missed, since, overtaken>>
        BY DEF WriteRow
    <2>4. \A n \in Ops \ unsent' : (Arriving(n) => Arriving(n)') /\ (InChannel(n)' <=> InChannel(n))
        BY <2>2, <2>3 DEF Arriving, InChannel
    <2>. QED
        BY <2>1, <2>2, <2>3, <2>4 DEF StreamInv, QueryInv, Informed
<1>. QED
    BY <1>3, <1>4, <1>5 DEF StreamInv

\* A change that is not announced is missed by everybody.
LEMMA UntoldInv ==
    ASSUME TypeOK, StreamInv, NEW o \in unsent, unsent' = unsent \ {o},
           channel' = channel, Miss({o}),
           UNCHANGED <<row, connected, page, loaded, shown, fetch, answer, seen, toasts, past, overtaken>>
    PROVE  StreamInv'
<1>1. \A q \in Queries : missed'[q] = missed[q] \cup {o} /\ since'[q] = since[q] \cup {o}
    BY DEF Miss
<1>2. \A n \in Ops : (InChannel(n)' <=> InChannel(n)) /\ (Arriving(n)' <=> Arriving(n))
    BY DEF InChannel, Arriving
<1>3. ChannelInv' /\ ToastInv'
    BY <1>2 DEF TypeOK, StreamInv, ChannelInv, ToastInv, Happened
<1>4. QueryInv'
    <2>1. \A q \in Queries, n \in Ops : (Happened(shown[q][n], n) /\ Happened(answer[q][n], n))'
        BY DEF StreamInv, QueryInv, Happened
    <2>. QED
        BY <1>1, <1>2, <2>1 DEF TypeOK, StreamInv, QueryInv, Informed
<1>. QED
    BY <1>3, <1>4 DEF StreamInv

\* The hub puts the event behind all others, or everybody misses it.
LEMMA PublishInv ==
    ASSUME TypeOK, StreamInv, NEW o \in Ops, Publish(o)
    PROVE  StreamInv'
<1>. USE DEF server, stream, queries, tab, history
<1>1. /\ o \in unsent /\ unsent' = unsent \ {o}
      /\ UNCHANGED <<row, connected, page, loaded, shown, fetch, answer, seen, toasts, past, overtaken>>
    BY DEF Publish
<1>2. row[o] \in Status \ {"none"} /\ Rank(seen[o]) < Rank(row[o])
    BY <1>1, UnpublishedHasRow
<1>3. CASE connected /\ Len(channel) < Cap
    <2>. DEFINE e == [op |-> o, status |-> row[o]]
                k == Len(channel) + 1
    <2>1. channel' = Append(channel, e) /\ UNCHANGED <<missed, since>>
        BY <1>3 DEF Publish
    <2>2. e \in Event /\ e.op = o /\ e.status = row[o]
        BY <1>2 DEF Event
    <2>. HIDE DEF e
    <2>3. /\ \A i \in DOMAIN channel : i \in DOMAIN channel' /\ channel'[i] = channel[i] /\ i < k
          /\ k \in DOMAIN channel' /\ channel'[k] = e
          /\ \A i \in DOMAIN channel' : i \in DOMAIN channel \/ i = k
          /\ DOMAIN channel \subseteq Nat /\ k \in Nat
        BY <2>1, <2>2, Appended DEF TypeOK
    <2>. HIDE DEF k
    <2>4. \A n \in Ops \ {o} : (InChannel(n)' <=> InChannel(n)) /\ (Arriving(n)' <=> Arriving(n))
        BY <1>1, <2>2, <2>3 DEF InChannel, Arriving
    <2>5. Arriving(o)'
        BY <1>1, <2>2, <2>3 DEF Arriving
    <2>6. ChannelInv'
        <3>1. ASSUME NEW i \in DOMAIN channel'
              PROVE  /\ Happened(channel'[i].status, channel'[i].op)
                     /\ Rank(seen[channel'[i].op]) < Rank(channel'[i].status)
            BY <1>2, <2>2, <2>3 DEF StreamInv, ChannelInv, Happened
        <3>2. ASSUME NEW i \in DOMAIN channel', NEW j \in DOMAIN channel',
                     i < j, channel'[i].op = channel'[j].op
              PROVE  Rank(channel'[i].status) < Rank(channel'[j].status)
            <4>1. i \in DOMAIN channel
                BY <2>3, <3>2
            <4>2. CASE j = k
                <5>1. channel[i].op = o /\ channel'[j].status = row[o]
                    BY <2>2, <2>3, <3>2, <4>1, <4>2
                <5>2. channel[i].status # row[o]
                    BY <1>1, <4>1, <5>1 DEF StreamInv, ChannelInv, Arriving
                <5>. QED
                    BY <2>3, <4>1, <5>1, <5>2 DEF StreamInv, ChannelInv, Happened
            <4>3. CASE j # k
                BY <2>3, <3>2, <4>1, <4>3 DEF StreamInv, ChannelInv
            <4>. QED
                BY <4>2, <4>3
        <3>3. \A n \in unsent' : seen[n] # row[n] /\ ~Arriving(n)'
            BY <1>1, <2>4 DEF StreamInv, ChannelInv, TypeOK
        <3>. QED
            BY <1>1, <1>3, <3>1, <3>2, <3>3 DEF StreamInv, ChannelInv, Happened
    <2>7. ToastInv'
        BY <1>1, <2>4 DEF TypeOK, StreamInv, ToastInv
    <2>8. QueryInv'
        <3>1. \A q \in Queries, n \in Ops : (Happened(shown[q][n], n) /\ Happened(answer[q][n], n))'
            BY <1>1 DEF StreamInv, QueryInv, Happened
        <3>. QED
            BY <1>1, <2>1, <2>4, <2>5, <3>1 DEF StreamInv, QueryInv, Informed, InChannel,
               Arriving
    <2>. QED
        BY <2>6, <2>7, <2>8 DEF StreamInv
<1>4. CASE ~(connected /\ Len(channel) < Cap)
    BY <1>1, <1>4, UntoldInv DEF Publish
<1>. QED
    BY <1>3, <1>4

\* A row that cannot be read again is not announced.
LEMMA SkipPublishInv ==
    ASSUME TypeOK, StreamInv, NEW o \in Ops, SkipPublish(o)
    PROVE  StreamInv'
BY UntoldInv DEF SkipPublish, stream, queries, tab

\* A restart of the server moves rows on, and leaves no channel.
LEMMA InterruptInv ==
    ASSUME TypeOK, StreamInv, Interrupt
    PROVE  StreamInv'
<1>. USE DEF stream, queries, tab, history
<1>. DEFINE os == Live \cup unsent \cup Waiting
<1>1. /\ channel' = <<>> /\ connected' = FALSE /\ unsent' = {}
      /\ \A q \in Queries : missed'[q] = missed[q] \cup os /\ since'[q] = since[q] \cup os
      /\ UNCHANGED <<page, loaded, shown, fetch, answer, seen, toasts, past, overtaken>>
    BY DEF Interrupt, Miss
<1>2. \A o \in Ops : /\ o \in Live => Rank(row[o]) < Rank(row'[o])
                     /\ o \notin Live => row'[o] = row[o]
    <2>1. \A o \in Live : row'[o] = "error" /\ row[o] \in {"queued", "running"}
        BY DEF Interrupt, Live
    <2>2. Rank("error") = 3
        BY Ranks DEF Terminal
    <2>. QED
        BY <2>1, <2>2, Ranks DEF Interrupt, Live
<1>3. ASSUME NEW t \in Status, NEW n \in Ops, Happened(t, n)
      PROVE  t = row'[n] \/ Rank(t) < Rank(row'[n])
    <2>1. row[n] \in Status /\ row'[n] \in Status
        BY DEF TypeOK, Interrupt, Status, Terminal
    <2>2. Rank(t) \in Nat /\ Rank(row[n]) \in Nat /\ Rank(row'[n]) \in Nat
        BY <2>1, RankType
    <2>3. CASE n \in Live
        BY <1>2, <1>3, <2>2, <2>3 DEF Happened
    <2>4. CASE n \notin Live
        BY <1>2, <1>3, <2>4 DEF Happened
    <2>. QED
        BY <2>3, <2>4
<1>4. \A o \in Ops : ~InChannel(o)' /\ ~Arriving(o)' /\ (InChannel(o) => o \in os)
    BY <1>1 DEF InChannel, Arriving, Waiting
<1>5. ChannelInv'
    <2>1. \A n \in Ops : Happened(seen[n], n)'
        BY <1>1, <1>3 DEF TypeOK, StreamInv, ChannelInv, Happened
    <2>. QED
        BY <1>1, <2>1 DEF ChannelInv
<1>6. ToastInv'
    <2>1. \A o \in past : o \notin Live /\ o \in Ops
        BY DEF TypeOK, StreamInv, ToastInv, Live, Terminal
    <2>. QED
        BY <1>1, <1>2, <1>4, <2>1 DEF TypeOK, StreamInv, ToastInv
<1>7. QueryInv'
    <2>1. \A q \in Queries, n \in Ops : (Happened(shown[q][n], n) /\ Happened(answer[q][n], n))'
        BY <1>1, <1>3 DEF TypeOK, StreamInv, QueryInv, Happened
    <2>2. \A n \in Ops \ os : row'[n] = row[n] /\ n \notin unsent /\ ~InChannel(n)
        BY <1>2, <1>4
    <2>3. \A q \in Queries, n \in Ops : n \notin missed'[q] => n \notin os /\ n \notin missed[q]
        BY <1>1
    <2>4. \A q \in Queries, n \in Ops : n \notin since'[q] => n \notin os /\ n \notin since[q]
        BY <1>1
    <2>5. \A q \in loaded, n \in Ops : Informed(n, missed[q], shown[q])'
        BY <1>1, <1>4, <2>2, <2>3 DEF TypeOK, StreamInv, QueryInv, Informed
    <2>6. \A q \in Queries, n \in Ops : fetch[q] = "answered" => Informed(n, since[q], answer[q])'
        BY <1>1, <1>4, <2>2, <2>4 DEF TypeOK, StreamInv, QueryInv, Informed
    <2>. QED
        BY <1>1, <1>4, <2>1, <2>5, <2>6 DEF StreamInv, QueryInv
<1>. QED
    BY <1>5, <1>6, <1>7 DEF StreamInv

\* A new channel is empty, as that of no connection was.
LEMMA ConnectInv ==
    ASSUME TypeOK, StreamInv, Connect
    PROVE  StreamInv'
<1>1. channel = <<>> /\ channel' = channel
    BY DEF Connect, StreamInv, ChannelInv
<1>2. UNCHANGED <<row, unsent, page, loaded, shown, fetch, answer, seen, toasts, past, missed,
                  since, overtaken>>
    BY DEF Connect, server, queries, tab, history
<1>. QED
    BY <1>1, <1>2 DEF StreamInv, ChannelInv, ToastInv, QueryInv, Informed, InChannel, Arriving,
       Happened

\* What waited in the channel is missed by everybody.
LEMMA DisconnectInv ==
    ASSUME TypeOK, StreamInv, Disconnect
    PROVE  StreamInv'
<1>1. /\ channel' = <<>>
      /\ missed' = [q \in Queries |-> missed[q] \cup Waiting]
      /\ since' = [q \in Queries |-> since[q] \cup Waiting]
      /\ UNCHANGED <<row, unsent, page, loaded, shown, fetch, answer, seen, toasts, past, overtaken>>
    BY DEF Disconnect, Miss, server, queries, tab
<1>2. \A o \in Ops : ~InChannel(o)' /\ ~Arriving(o)' /\ (InChannel(o) => o \in Waiting)
    BY <1>1 DEF InChannel, Arriving, Waiting
<1>3. ChannelInv'
    BY <1>1, <1>2 DEF TypeOK, StreamInv, ChannelInv, Happened
<1>4. ToastInv'
    BY <1>1, <1>2 DEF TypeOK, StreamInv, ToastInv
<1>5. QueryInv'
    <2>1. \A q \in Queries, n \in Ops : (Happened(shown[q][n], n) /\ Happened(answer[q][n], n))'
        BY <1>1 DEF StreamInv, QueryInv, Happened
    <2>. QED
        BY <1>1, <1>2, <2>1 DEF TypeOK, StreamInv, QueryInv, Informed
<1>. QED
    BY <1>3, <1>4, <1>5 DEF StreamInv

\* The tab takes the oldest event.
LEMMA ReceiveInv ==
    ASSUME TypeOK, StreamInv, Receive
    PROVE  StreamInv'
<1>1. PICK e \in Event, o \in Ops, known \in SUBSET Queries :
             o = e.op /\ e.status \in Status \ {"none"} /\ Receives(e, o, known)
    BY Receiving
<1>2. UNCHANGED <<row, unsent, connected, page, loaded, past, missed, since>>
    BY <1>1 DEF Receives
<1>3. /\ channel[1] = e /\ 1 \in DOMAIN channel
      /\ \A i \in DOMAIN channel' :
            i + 1 \in DOMAIN channel /\ channel'[i] = channel[i + 1] /\ i \in Nat /\ 1 < i + 1
      /\ \A i \in DOMAIN channel : i = 1 \/ (i - 1 \in DOMAIN channel' /\ channel'[i - 1] = channel[i])
    BY <1>1, Received DEF TypeOK, Receives
<1>4. /\ seen'[o] = e.status
      /\ \A n \in Ops \ {o} : seen'[n] = seen[n]
      /\ Rank(seen[o]) < Rank(e.status) /\ Happened(e.status, o)
    BY <1>1, <1>3 DEF TypeOK, Receives, StreamInv, ChannelInv
<1>5. \A i \in DOMAIN channel' : channel'[i].op = o => Rank(e.status) < Rank(channel'[i].status)
    BY <1>1, <1>3 DEF StreamInv, ChannelInv
<1>6. \A n \in Ops \ {o} : (InChannel(n)' <=> InChannel(n)) /\ (Arriving(n)' <=> Arriving(n))
    BY <1>1, <1>2, <1>3 DEF InChannel, Arriving
<1>7. /\ InChannel(o)
      /\ Arriving(o) => (IF InChannel(o)' THEN Arriving(o)' ELSE e.status = row[o])
    <2>1. InChannel(o)
        BY <1>1, <1>3 DEF InChannel
    <2>2. ASSUME Arriving(o), InChannel(o)'
          PROVE  Arriving(o)'
        <3>1. e.status # row[o]
            <4>1. PICK i \in DOMAIN channel' : channel'[i].op = o
                BY <1>2, <2>2 DEF InChannel
            <4>2. Rank(e.status) < Rank(channel'[i].status)
                BY <1>5, <4>1
            <4>3. channel'[i].status = row[o] \/ Rank(channel'[i].status) < Rank(row[o])
                BY <1>3, <4>1 DEF StreamInv, ChannelInv, Happened
            <4>4. Rank(e.status) \in Nat /\ Rank(row[o]) \in Nat /\ Rank(channel'[i].status) \in Nat
                BY <1>1, <1>3, <4>1, RankType, EventType DEF TypeOK
            <4>. QED
                BY <4>2, <4>3, <4>4
        <3>2. PICK i \in DOMAIN channel : channel[i].op = o /\ channel[i].status = row[o]
            BY <2>2 DEF Arriving
        <3>3. i # 1
            BY <1>3, <3>1, <3>2
        <3>. QED
            BY <1>2, <1>3, <3>2, <3>3 DEF Arriving
    <2>3. ASSUME Arriving(o), ~InChannel(o)'
          PROVE  e.status = row[o]
        BY <1>2, <1>3, <2>3 DEF Arriving, InChannel
    <2>. QED
        BY <2>1, <2>2, <2>3
<1>8. ChannelInv'
    <2>1. connected
        BY <1>1 DEF Receives, StreamInv, ChannelInv
    <2>2. \A n \in Ops : Happened(seen'[n], n)
        BY <1>4 DEF StreamInv, ChannelInv
    <2>3. ASSUME NEW i \in DOMAIN channel'
          PROVE  /\ Happened(channel'[i].status, channel'[i].op)
                 /\ Rank(seen'[channel'[i].op]) < Rank(channel'[i].status)
        <3>1. i + 1 \in DOMAIN channel /\ channel'[i] = channel[i + 1] /\ channel'[i].op \in Ops
            BY <1>3, EventType
        <3>. QED
            BY <1>4, <1>5, <3>1 DEF StreamInv, ChannelInv
    <2>4. ASSUME NEW i \in DOMAIN channel', NEW j \in DOMAIN channel',
                 i < j, channel'[i].op = channel'[j].op
          PROVE  Rank(channel'[i].status) < Rank(channel'[j].status)
        <3>1. i + 1 < j + 1
            BY <1>3, <2>4
        <3>. QED
            BY <1>3, <2>4, <3>1 DEF StreamInv, ChannelInv
    <2>5. ASSUME NEW n \in unsent
          PROVE  seen'[n] # row[n] /\ ~Arriving(n)'
        <3>1. n \in Ops /\ ~Arriving(n) /\ seen[n] # row[n]
            BY DEF TypeOK, StreamInv, ChannelInv
        <3>2. ~Arriving(n)'
            BY <1>2, <1>3, <3>1 DEF Arriving
        <3>3. seen'[n] # row[n]
            BY <1>1, <1>3, <1>4, <3>1 DEF Arriving
        <3>. QED
            BY <3>2, <3>3
    <2>. QED
        BY <1>2, <2>1, <2>2, <2>3, <2>4, <2>5 DEF ChannelInv, Happened
<1>9. ToastInv'
    <2>1. \A n \in Ops \ {o} : toasts'[n] = toasts[n]
        BY <1>1 DEF TypeOK, Receives
    <2>2. o \notin past
        BY <1>7 DEF StreamInv, ToastInv
    <2>3. toasts'[o] > 0 => seen'[o] \in Terminal
        <3>1. CASE e.status \in Terminal
            BY <1>4, <3>1
        <3>2. CASE e.status \notin Terminal
            <4>1. toasts'[o] = toasts[o]
                BY <1>1, <3>2 DEF Receives, Toasts
            <4>2. Rank(seen[o]) # 3
                <5>1. seen[o] \in Status
                    BY DEF TypeOK
                <5>2. Rank(seen[o]) \in 0..3 /\ Rank(e.status) \in 0..3
                    BY <1>1, <5>1, Ranks
                <5>. QED
                    BY <1>4, <5>2
            <4>3. seen[o] \notin Terminal
                BY <4>2, Ranks
            <4>. QED
                BY <4>1, <4>3 DEF StreamInv, ToastInv
        <3>. QED
            BY <3>1, <3>2
    <2>. QED
        BY <1>2, <1>4, <1>6, <2>1, <2>2, <2>3 DEF TypeOK, StreamInv, ToastInv
<1>10. QueryInv'
    <2>1. \A q \in Queries : /\ \A n \in Ops \ {o} : shown'[q][n] = shown[q][n]
                             /\ shown'[q][o] = IF q \in known THEN e.status ELSE shown[q][o]
        BY <1>1 DEF TypeOK, Receives
    <2>2. \A q \in Queries : \/ fetch'[q] = fetch[q] /\ answer'[q] = answer[q]
                             \/ fetch'[q] = "sent" /\ answer'[q] = Nothing
        <3>1. CASE UNCHANGED <<fetch, answer>>
            BY <3>1
        <3>2. CASE /\ fetch' = [fetch EXCEPT !["history"] = "sent"]
                   /\ answer' = [answer EXCEPT !["history"] = Nothing]
            BY <3>2 DEF TypeOK
        <3>. QED
            BY <1>1, <3>1, <3>2 DEF Receives
    <2>3. \A q \in Queries, n \in Ops : Happened(shown'[q][n], n) /\ Happened(answer'[q][n], n)
        <3>1. ASSUME NEW n \in Ops
              PROVE  Happened("none", n)
            <4>1. row[n] \in Status
                BY DEF TypeOK
            <4>. QED
                BY <4>1, Ranks DEF Happened
        <3>. QED
            BY <1>4, <2>1, <2>2, <3>1 DEF StreamInv, QueryInv, Nothing
    <2>4. \A q \in Queries, n \in Ops : n \notin missed[q] \cup unsent /\ InChannel(n)' => Arriving(n)'
        BY <1>6, <1>7 DEF StreamInv, QueryInv
    <2>5. ASSUME NEW q \in loaded, NEW n \in Ops, n \notin missed[q] \cup unsent
          PROVE  IF InChannel(n)' THEN Arriving(n)' ELSE shown'[q][n] = row[n] \/ seen'[n] = row[n]
        <3>1. CASE n = o
            BY <1>4, <1>7, <2>5, <3>1 DEF TypeOK, StreamInv, QueryInv
        <3>2. CASE n # o
            BY <1>4, <1>6, <2>1, <2>5, <3>2 DEF TypeOK, StreamInv, QueryInv, Informed
        <3>. QED
            BY <3>1, <3>2
    <2>6. ASSUME NEW q \in Queries, NEW n \in Ops, fetch'[q] = "answered", n \notin since[q] \cup unsent
          PROVE  IF InChannel(n)' THEN Arriving(n)' ELSE answer'[q][n] = row[n] \/ seen'[n] = row[n]
        <3>1. fetch[q] = "answered" /\ answer'[q] = answer[q] /\ Informed(n, since[q], answer[q])
            BY <2>2, <2>6 DEF StreamInv, QueryInv
        <3>2. CASE n = o
            BY <1>4, <1>7, <2>6, <3>1, <3>2 DEF Informed
        <3>3. CASE n # o
            BY <1>4, <1>6, <2>6, <3>1, <3>3 DEF Informed
        <3>. QED
            BY <3>2, <3>3
    <2>7. ASSUME NEW q \in loaded, NEW n \in Ops, n \notin overtaken'[q],
                 q = "recent" \/ (q = page /\ fetch'[q] = "idle")
          PROVE  Rank(shown'[q][n]) >= Rank(seen'[n])
        <3>1. CASE n = o
            <4>1. q \in known
                BY <1>1, <2>7, <3>1 DEF TypeOK, Receives, Invalidated, Queries
            <4>. QED
                BY <1>1, <1>4, <2>1, <3>1, <4>1, RankType DEF TypeOK
        <3>2. CASE n # o
            <4>1. n \notin overtaken[q] /\ (fetch'[q] = "idle" => fetch[q] = "idle")
                BY <1>1, <2>2, <2>7, <3>2 DEF TypeOK, Receives
            <4>. QED
                BY <1>4, <2>1, <2>7, <3>2, <4>1 DEF TypeOK, StreamInv, QueryInv
        <3>. QED
            BY <3>1, <3>2
    <2>. QED
        BY <1>2, <2>3, <2>4, <2>5, <2>6, <2>7 DEF QueryInv, Informed, Happened
<1>. QED
    BY <1>8, <1>9, <1>10 DEF StreamInv

\* The steps of the queries leave the server, the channel and the toasts alone.
LEMMA QueryKeeps ==
    ASSUME StreamInv, UNCHANGED <<row, unsent, channel, connected, seen, toasts, past>>
    PROVE  /\ ChannelInv' /\ ToastInv'
           /\ \A n \in Ops : (InChannel(n)' <=> InChannel(n)) /\ (Arriving(n)' <=> Arriving(n))
<1>1. \A n \in Ops : (InChannel(n)' <=> InChannel(n)) /\ (Arriving(n)' <=> Arriving(n))
    BY DEF InChannel, Arriving
<1>2. ChannelInv'
    BY DEF StreamInv, ChannelInv, Happened, Arriving
<1>3. ToastInv'
    BY DEF StreamInv, ToastInv, InChannel
<1>. QED
    BY <1>1, <1>2, <1>3

\* No operation's status comes before "none".
LEMMA NothingHappened ==
    ASSUME TypeOK
    PROVE  \A n \in Ops : Happened(Nothing[n], n)
<1>. SUFFICES ASSUME NEW n \in Ops
              PROVE  Happened("none", n)
    BY DEF Nothing
<1>1. row[n] \in Status
    BY DEF TypeOK
<1>. QED
    BY <1>1, Ranks DEF Happened

\* QueryInv after such a step, from the data that the queries then have.
LEMMA QueryInvNext ==
    ASSUME StreamInv, UNCHANGED <<row, unsent, channel, connected, seen, toasts, past>>,
           \A p \in Queries, n \in Ops : Happened(shown'[p][n], n) /\ Happened(answer'[p][n], n),
           \A p \in Queries, n \in Ops : n \notin missed'[p] \cup unsent /\ InChannel(n) => Arriving(n),
           \A p \in loaded', n \in Ops : Informed(n, missed'[p], shown'[p]),
           \A p \in Queries, n \in Ops :
              fetch'[p] = "answered" => Informed(n, since'[p], answer'[p]),
           \A p \in loaded', n \in Ops :
              (p = "recent" \/ (p = page' /\ fetch'[p] = "idle")) /\ n \notin overtaken'[p]
              => Rank(shown'[p][n]) >= Rank(seen[n])
    PROVE  QueryInv'
BY DEF QueryInv, Informed, Happened, InChannel, Arriving

\* Visits, fetches and their ends.
LEMMA QueriesInv ==
    ASSUME TypeOK, StreamInv,
           RunNow \/ \E q \in Queries : Visit(q) \/ Answer(q) \/ Load(q) \/ Fail(q)
    PROVE  StreamInv'
<1>. USE DEF server, stream, queries, tab, history
<1>1. UNCHANGED <<row, unsent, channel, connected, seen, toasts, past>>
    BY DEF RunNow, Visit, Answer, Load, Fail
<1>2. /\ ChannelInv' /\ ToastInv'
      /\ \A n \in Ops : (InChannel(n)' <=> InChannel(n)) /\ (Arriving(n)' <=> Arriving(n))
    BY <1>1, QueryKeeps
<1>3. ASSUME NEW q \in Queries, Visit(q)
      PROVE  QueryInv'
    <2>1. \A p \in Queries : /\ fetch'[p] = fetch[p] \/ (p = q /\ fetch[q] = "idle" /\ fetch'[q] = "sent")
                             /\ fetch'[q] # "idle"
        BY <1>3 DEF TypeOK, Visit
    <2>2. page' = q /\ UNCHANGED <<loaded, shown, answer, missed, since, overtaken>>
        BY <1>3 DEF Visit
    <2>. QED
        BY <1>1, <1>2, <2>1, <2>2 DEF TypeOK, StreamInv, QueryInv, Informed, Happened
<1>4. ASSUME RunNow
      PROVE  QueryInv'
    <2>1. \A p \in Queries : \/ fetch'[p] = fetch[p] /\ answer'[p] = answer[p]
                             \/ fetch'[p] = "sent" /\ answer'[p] = Nothing
        BY <1>4 DEF TypeOK, RunNow
    <2>2. UNCHANGED <<page, loaded, shown, missed, since, overtaken>>
        BY <1>4 DEF RunNow
    <2>3. \A p \in Queries, n \in Ops : Happened(shown'[p][n], n) /\ Happened(answer'[p][n], n)
        BY <2>1, <2>2, NothingHappened DEF StreamInv, QueryInv
    <2>4. \A p \in Queries, n \in Ops : fetch'[p] = "answered" => Informed(n, since'[p], answer'[p])
        BY <2>1, <2>2 DEF StreamInv, QueryInv
    <2>5. \A p \in loaded, n \in Ops :
             (p = "recent" \/ (p = page' /\ fetch'[p] = "idle")) /\ n \notin overtaken'[p]
             => Rank(shown'[p][n]) >= Rank(seen[n])
        BY <2>1, <2>2 DEF TypeOK, StreamInv, QueryInv
    <2>6. /\ \A p \in Queries, n \in Ops : n \notin missed'[p] \cup unsent /\ InChannel(n) => Arriving(n)
          /\ \A p \in loaded', n \in Ops : Informed(n, missed'[p], shown'[p])
        BY <2>2 DEF StreamInv, QueryInv
    <2>7. \A p \in loaded', n \in Ops :
             (p = "recent" \/ (p = page' /\ fetch'[p] = "idle")) /\ n \notin overtaken'[p]
             => Rank(shown'[p][n]) >= Rank(seen[n])
        BY <2>2, <2>5
    <2>. QED
        BY <1>1, <2>3, <2>4, <2>6, <2>7, QueryInvNext
<1>5. ASSUME NEW q \in Queries, Answer(q)
      PROVE  QueryInv'
    <2>1. /\ \A p \in Queries \ {q} : fetch'[p] = fetch[p] /\ answer'[p] = answer[p] /\ since'[p] = since[p]
          /\ fetch'[q] = "answered" /\ answer'[q] = row
          /\ since'[q] = missed[q] \cap (unsent \cup Waiting)
          /\ UNCHANGED <<page, loaded, shown, missed, overtaken>>
        BY <1>5 DEF TypeOK, Answer
    <2>2. \A n \in Ops : n \notin since'[q] \cup unsent /\ InChannel(n) => Arriving(n)
        BY <2>1 DEF StreamInv, QueryInv, InChannel, Waiting
    <2>3. \A p \in Queries, n \in Ops : Happened(shown'[p][n], n) /\ Happened(answer'[p][n], n)
        BY <2>1 DEF StreamInv, QueryInv, Happened
    <2>4. \A p \in Queries, n \in Ops : fetch'[p] = "answered" => Informed(n, since'[p], answer'[p])
        BY <2>1, <2>2 DEF StreamInv, QueryInv, Informed
    <2>5. \A p \in Queries : fetch'[p] = "idle" => fetch[p] = "idle"
        BY <2>1
    <2>. QED
        BY <1>1, <2>1, <2>3, <2>4, <2>5, QueryInvNext DEF TypeOK, StreamInv, QueryInv
<1>6. ASSUME NEW q \in Queries, Load(q)
      PROVE  QueryInv'
    <2>1. /\ fetch[q] = "answered" /\ loaded' = loaded \cup {q} /\ page' = page
          /\ \A p \in Queries \ {q} : /\ fetch'[p] = fetch[p] /\ answer'[p] = answer[p]
                                      /\ since'[p] = since[p] /\ missed'[p] = missed[p]
                                      /\ shown'[p] = shown[p] /\ overtaken'[p] = overtaken[p]
          /\ fetch'[q] = "idle" /\ answer'[q] = Nothing /\ shown'[q] = answer[q]
          /\ missed'[q] = since[q]
          /\ overtaken'[q] = {o \in Ops : Rank(answer[q][o]) < Rank(seen[o])}
        BY <1>6 DEF TypeOK, Load
    <2>2. \A p \in Queries, n \in Ops : Happened(shown'[p][n], n) /\ Happened(answer'[p][n], n)
        BY <2>1, NothingHappened DEF StreamInv, QueryInv
    <2>3. \A n \in Ops : n \notin overtaken'[q] => Rank(shown'[q][n]) >= Rank(seen[n])
        <3>1. \A n \in Ops : Rank(answer[q][n]) \in Nat /\ Rank(seen[n]) \in Nat
            BY RankType DEF TypeOK
        <3>. QED
            BY <2>1, <3>1
    <2>4. \A n \in Ops : Informed(n, missed'[q], shown'[q])
        BY <2>1 DEF StreamInv, QueryInv
    <2>5. \A p \in Queries, n \in Ops : n \notin missed'[p] \cup unsent /\ InChannel(n) => Arriving(n)
        BY <2>1 DEF StreamInv, QueryInv, Informed
    <2>6. \A p \in loaded', n \in Ops : Informed(n, missed'[p], shown'[p])
        BY <2>1, <2>4 DEF TypeOK, StreamInv, QueryInv
    <2>7. \A p \in Queries, n \in Ops : fetch'[p] = "answered" => Informed(n, since'[p], answer'[p])
        BY <2>1 DEF StreamInv, QueryInv
    <2>8. \A p \in loaded', n \in Ops :
             (p = "recent" \/ (p = page' /\ fetch'[p] = "idle")) /\ n \notin overtaken'[p]
             => Rank(shown'[p][n]) >= Rank(seen[n])
        BY <2>1, <2>3 DEF TypeOK, StreamInv, QueryInv
    <2>. QED
        BY <1>1, <2>2, <2>5, <2>6, <2>7, <2>8, QueryInvNext
<1>7. ASSUME NEW q \in Queries, Fail(q)
      PROVE  QueryInv'
    <2>1. /\ \A p \in Queries \ {q} : /\ fetch'[p] = fetch[p] /\ answer'[p] = answer[p]
                                      /\ overtaken'[p] = overtaken[p]
          /\ fetch'[q] = "idle" /\ answer'[q] = Nothing
          /\ overtaken'[q] = overtaken[q] \cup {o \in Ops : Rank(shown[q][o]) < Rank(seen[o])}
          /\ UNCHANGED <<page, loaded, shown, missed, since>>
        BY <1>7 DEF TypeOK, Fail
    <2>2. \A n \in Ops : n \notin overtaken'[q] => Rank(shown[q][n]) >= Rank(seen[n])
        <3>1. \A n \in Ops : Rank(shown[q][n]) \in Nat /\ Rank(seen[n]) \in Nat
            BY RankType DEF TypeOK
        <3>. QED
            BY <2>1, <3>1
    <2>3. \A p \in Queries, n \in Ops : Happened(shown'[p][n], n) /\ Happened(answer'[p][n], n)
        BY <2>1, NothingHappened DEF StreamInv, QueryInv
    <2>4. \A p \in Queries, n \in Ops : fetch'[p] = "answered" => Informed(n, since'[p], answer'[p])
        BY <2>1 DEF StreamInv, QueryInv
    <2>5. \A p \in loaded, n \in Ops :
             (p = "recent" \/ (p = page' /\ fetch'[p] = "idle")) /\ n \notin overtaken'[p]
             => Rank(shown'[p][n]) >= Rank(seen[n])
        BY <2>1, <2>2 DEF TypeOK, StreamInv, QueryInv
    <2>. QED
        BY <1>1, <2>1, <2>3, <2>4, <2>5, QueryInvNext DEF TypeOK, StreamInv, QueryInv
<1>. QED
    BY <1>2, <1>3, <1>4, <1>5, <1>6, <1>7 DEF StreamInv

-----------------------------------------------------------------------------
\* The inductive invariant of the event stream.
THEOREM Inductive == Spec => [](TypeOK /\ StreamInv)
<1>1. Init => TypeOK /\ StreamInv
    <2>. SUFFICES ASSUME Init
                  PROVE  TypeOK /\ StreamInv
        OBVIOUS
    <2>1. TypeOK
        <3>1. Nothing \in [Ops -> Status]
            BY DEF Nothing, Status
        <3>2. row \in [Ops -> Status]
            BY StreamAssumption DEF Init, Status
        <3>3. channel \in Seq(Event) /\ Len(channel) <= Cap
            BY StreamAssumption DEF Init
        <3>4. past \in SUBSET Ops /\ toasts \in [Ops -> 0..2]
            BY DEF Init
        <3>. QED
            BY <3>1, <3>2, <3>3, <3>4 DEF Init, TypeOK
    <2>2. \A o \in Ops : Happened(seen[o], o)
        BY <2>1, NothingHappened DEF Init
    <2>3. ChannelInv
        BY <2>2 DEF Init, ChannelInv
    <2>4. ToastInv
        BY DEF Init, ToastInv, InChannel, Nothing
    <2>5. QueryInv
        BY <2>1, NothingHappened DEF Init, QueryInv, InChannel, Arriving
    <2>. QED
        BY <2>1, <2>3, <2>4, <2>5 DEF StreamInv
<1>2. TypeOK /\ StreamInv /\ [Next]_vars => TypeOK' /\ StreamInv'
    <2>. SUFFICES ASSUME TypeOK, StreamInv, [Next]_vars
                  PROVE  StreamInv'
        BY StepType
    <2>1. ASSUME NEW o \in Ops, NEW s \in Status, WriteRow(o, s)
          PROVE  StreamInv'
        BY <2>1, WriteRowInv
    <2>2. ASSUME NEW o \in Ops, Publish(o)
          PROVE  StreamInv'
        BY <2>2, PublishInv
    <2>6. ASSUME NEW o \in Ops, SkipPublish(o)
          PROVE  StreamInv'
        BY <2>6, SkipPublishInv
    <2>7. CASE Interrupt
        BY <2>7, InterruptInv
    <2>3. CASE Connect \/ Disconnect \/ Receive
        BY <2>3, ConnectInv, DisconnectInv, ReceiveInv
    <2>4. CASE RunNow \/ \E q \in Queries : Visit(q) \/ Answer(q) \/ Load(q) \/ Fail(q)
        BY <2>4, QueriesInv
    <2>5. CASE UNCHANGED vars
        BY <2>5 DEF vars, StreamInv, ChannelInv, ToastInv, QueryInv, Informed, InChannel,
                    Arriving, Happened
    <2>. QED
        BY <2>1, <2>2, <2>3, <2>4, <2>5, <2>6, <2>7 DEF Next
<1>. QED
    BY <1>1, <1>2, PTL DEF Spec

\* Every variable keeps to its type; the channel never holds more than Cap events.
THEOREM TypeCorrect == Spec => []TypeOK
BY Inductive, PTL

\* A page never shows what has not happened yet.
THEOREM NoInvention == Spec => []NothingIsInvented
<1>1. TypeOK /\ StreamInv => NothingIsInvented
    <2>. SUFFICES ASSUME TypeOK, StreamInv, NEW q \in Queries, NEW o \in Ops
                  PROVE  Rank(shown[q][o]) <= Rank(row[o])
        BY DEF NothingIsInvented
    <2>1. Rank(shown[q][o]) \in Nat /\ Rank(row[o]) \in Nat
        BY RankType DEF TypeOK
    <2>. QED
        BY <2>1 DEF StreamInv, QueryInv, Happened
<1>. QED
    BY <1>1, Inductive, PTL

\* A page that has settled is wrong only for a change that was missed, because its
\* event was dropped or never published, or for an event that came before an
\* answer older than it.
THEOREM WrongForAReason == Spec => []ViewIsWrongForAReason
<1>1. TypeOK /\ StreamInv => ViewIsWrongForAReason
    <2>. SUFFICES ASSUME TypeOK, StreamInv, NEW o \in Ops,
                         page \in loaded, fetch[page] = "idle", Settled(o),
                         o \notin missed[page] \cup overtaken[page]
                  PROVE  shown[page][o] = row[o]
        BY DEF ViewIsWrongForAReason
    <2>1. page \in Queries /\ o \notin unsent /\ ~InChannel(o)
        BY DEF TypeOK, Settled, InChannel
    <2>2. shown[page][o] = row[o] \/ seen[o] = row[o]
        BY <2>1 DEF StreamInv, QueryInv, Informed
    <2>3. Rank(shown[page][o]) >= Rank(seen[o])
        BY <2>1 DEF StreamInv, QueryInv
    <2>4. shown[page][o] = row[o] \/ Rank(shown[page][o]) < Rank(row[o])
        BY <2>1 DEF StreamInv, QueryInv, Happened
    <2>5. Rank(shown[page][o]) \in Nat /\ Rank(row[o]) \in Nat
        BY <2>1, RankType DEF TypeOK
    <2>. QED
        BY <2>2, <2>3, <2>4, <2>5
<1>. QED
    BY <1>1, Inductive, PTL

\* What a step does to the tab's memory of events: only Receive changes it.
LEMMA SeenSteps ==
    ASSUME [Next]_vars, ~Receive
    PROVE  seen' = seen /\ toasts' = toasts
BY DEF Next, WriteRow, Publish, SkipPublish, Interrupt, Connect, Disconnect, Visit, Answer, Load, Fail, RunNow, vars,
       server, stream, queries, tab, history

\* What the tab is told of an operation never goes back.
THEOREM Forward == Spec => EventsMoveForward
<1>1. ASSUME TypeOK, StreamInv, [Next]_vars
      PROVE  [\A o \in Ops : Rank(seen'[o]) >= Rank(seen[o])]_vars
    <2>1. \A n \in Ops : Rank(seen[n]) \in Nat
        BY <1>1, RankType DEF TypeOK
    <2>2. CASE ~Receive
        BY <1>1, <2>1, <2>2, SeenSteps
    <2>3. CASE Receive
        <3>1. PICK e \in Event, o \in Ops, known \in SUBSET Queries : Receives(e, o, known)
            BY <1>1, <2>3, Receiving
        <3>2. channel[1] = e /\ 1 \in DOMAIN channel /\ o = e.op
            BY <1>1, <3>1, Received DEF TypeOK, Receives
        <3>3. Rank(seen[o]) < Rank(e.status) /\ e.status \in Status
            BY <1>1, <3>2, EventType DEF StreamInv, ChannelInv
        <3>4. seen'[o] = e.status /\ \A n \in Ops \ {o} : seen'[n] = seen[n]
            BY <1>1, <3>1 DEF TypeOK, Receives
        <3>. QED
            BY <2>1, <3>3, <3>4, RankType
    <2>. QED
        BY <2>2, <2>3
<1>. QED
    BY <1>1, Inductive, PTL DEF Spec, EventsMoveForward

\* A toast announces an end that the tab could witness, once, with its outcome.
THEOREM LiveToasts == Spec => ToastsAreLive
<1>1. ASSUME TypeOK, StreamInv, [Next]_vars
      PROVE  [\A o \in Ops : toasts'[o] > toasts[o] =>
                /\ o \notin past
                /\ toasts[o] = 0
                /\ row[o] \in Terminal \ {"canceled"}
                /\ seen'[o] = row[o]]_vars
    <2>. SUFFICES ASSUME NEW n \in Ops, toasts'[n] > toasts[n]
                  PROVE  /\ n \notin past
                         /\ toasts[n] = 0
                         /\ row[n] \in Terminal \ {"canceled"}
                         /\ seen'[n] = row[n]
        OBVIOUS
    <2>1. toasts[n] \in 0..2 /\ toasts'[n] # toasts[n]
        BY <1>1 DEF TypeOK
    <2>2. Receive
        BY <1>1, <2>1, SeenSteps
    <2>3. PICK e \in Event, o \in Ops, known \in SUBSET Queries : Receives(e, o, known)
        BY <1>1, <2>2, Receiving
    <2>4. n = o /\ Toasts(e) /\ e.op = n
        BY <1>1, <2>1, <2>3 DEF TypeOK, Receives
    <2>5. channel[1] = e /\ 1 \in DOMAIN channel
        BY <1>1, <2>3, Received DEF TypeOK, Receives
    <2>6. e.status \in Terminal \ {"canceled"} /\ seen[n] \notin Terminal
        BY <2>4 DEF Toasts
    <2>7. e.status = row[n]
        <3>1. e.status = row[n] \/ Rank(e.status) < Rank(row[n])
            BY <1>1, <2>4, <2>5 DEF StreamInv, ChannelInv, Happened
        <3>2. Rank(e.status) = 3 /\ Rank(row[n]) \in 0..3
            BY <1>1, <2>6, Ranks DEF TypeOK
        <3>. QED
            BY <3>1, <3>2
    <2>8. n \notin past
        BY <1>1, <2>4, <2>5 DEF StreamInv, ToastInv, InChannel
    <2>9. toasts[n] = 0
        BY <1>1, <2>1, <2>6 DEF StreamInv, ToastInv
    <2>10. seen'[n] = e.status
        BY <1>1, <2>3, <2>4 DEF TypeOK, Receives
    <2>. QED
        BY <2>6, <2>7, <2>8, <2>9, <2>10
<1>. QED
    BY <1>1, Inductive, PTL DEF Spec, ToastsAreLive
=============================================================================
