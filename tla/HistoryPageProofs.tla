-------------------------- MODULE HistoryPageProofs --------------------------
(***************************************************************************)
(* Theorems about HistoryPage, for every size of a page, any set of        *)
(* filters and any number of operations, clicks and losses.                *)
(***************************************************************************)
EXTENDS HistoryPage, TLAPS

\* What the rows of a list are.
LEMMA RowTypes ==
    ASSUME NEW pages \in Pages
    PROVE  /\ DOMAIN pages = 1..Len(pages) /\ Len(pages) \in Nat
           /\ pages # <<>> <=> Len(pages) > 0
           /\ \A i \in DOMAIN pages :
                /\ pages[i] \in Seq(Row) /\ Len(pages[i]) \in Nat
                /\ DOMAIN pages[i] = 1..Len(pages[i])
                /\ \A j \in DOMAIN pages[i] :
                    /\ pages[i][j] \in Row /\ pages[i][j].id \in Ops
                    /\ pages[i][j].status \in {"live", "ended"}
<1>1. ASSUME NEW s \in Seq(Row)
      PROVE  /\ Len(s) \in Nat /\ DOMAIN s = 1..Len(s)
             /\ \A j \in DOMAIN s : s[j] \in Row
    OBVIOUS
<1>2. \A r \in Row : r.id \in Ops /\ r.status \in {"live", "ended"}
    BY DEF Row
<1>3. /\ DOMAIN pages = 1..Len(pages) /\ Len(pages) \in Nat
      /\ pages # <<>> <=> Len(pages) > 0
      /\ \A i \in DOMAIN pages : pages[i] \in Seq(Row)
    BY DEF Pages
<1>. QED
    BY <1>1, <1>2, <1>3

\* A list that has a next page ends with a row, whose id is the cursor.
LEMMA CursorIsLast ==
    ASSUME HistoryConstants, NEW pages \in Pages, pages # <<>>, HasNext(pages)
    PROVE  /\ Len(pages) \in DOMAIN pages /\ Len(pages[Len(pages)]) = PageSize
           /\ PageSize \in DOMAIN pages[Len(pages)]
           /\ Cursor(pages) = pages[Len(pages)][PageSize].id
           /\ Last(Last(pages)).id = Cursor(pages)
           /\ Cursor(pages) \in Ops /\ Cursor(pages) # 0
<1>1. Len(pages) \in DOMAIN pages
    BY RowTypes
<1>2. Len(pages[Len(pages)]) = PageSize
    BY DEF HasNext, Last
<1>3. PageSize \in DOMAIN pages[Len(pages)]
    BY <1>1, <1>2, RowTypes DEF HistoryConstants
<1>4. Cursor(pages) = pages[Len(pages)][PageSize].id /\ Last(Last(pages)).id = Cursor(pages)
    BY <1>2 DEF Cursor, Last
<1>5. Cursor(pages) \in Ops
    BY <1>1, <1>3, <1>4, RowTypes
<1>. QED
    BY <1>1, <1>2, <1>3, <1>4, <1>5 DEF HistoryConstants

\* It is the smallest of all.
LEMMA CursorIsSmallest ==
    ASSUME HistoryConstants, NEW pages \in Pages, pages # <<>>, HasNext(pages),
           NEW f \in Filters, Fit(f, pages), NEW p \in Ops, Lists(pages, p)
    PROVE  Cursor(pages) <= p
<1>1. PICK i \in DOMAIN pages : \E j \in DOMAIN pages[i] : pages[i][j].id = p
    BY DEF Lists
<1>2. PICK j \in DOMAIN pages[i] : pages[i][j].id = p
    BY <1>1
<1>3. i \in 1..Len(pages) /\ j \in 1..Len(pages[i]) /\ Len(pages[i]) \in Nat /\ Len(pages) \in Nat
    BY RowTypes
<1>4. Len(pages[i]) <= PageSize /\ PageSize \in Nat
    BY DEF Fit, HistoryConstants
<1>5. CASE i = Len(pages) /\ j = PageSize
    BY <1>2, <1>5, CursorIsLast DEF HistoryConstants
<1>6. CASE i < Len(pages) \/ (i = Len(pages) /\ j < PageSize)
    <2>1. pages[Len(pages)][PageSize].id < pages[i][j].id
        BY <1>6, CursorIsLast DEF Fit
    <2>2. Cursor(pages) \in Nat /\ p \in Nat
        BY CursorIsLast DEF HistoryConstants
    <2>. QED
        BY <1>2, <2>1, <2>2, CursorIsLast
<1>. QED
    BY <1>3, <1>4, <1>5, <1>6

\* The page that the server answers, and the list with it.
Answered(ids) == [i \in DOMAIN ids |-> [id |-> ids[i], status |-> rows[ids[i]]]]

\* What it looks like: as many rows as ids, each the table's.
LEMMA AnswerTypes ==
    ASSUME HistoryConstants, TypeOK, NEW f \in Filters, NEW cursor, NEW n \in 0..PageSize,
           NEW ids \in [1..n -> Ops], Latest(ids, f, cursor)
    PROVE  /\ Answered(ids) \in Seq(Row) /\ Len(Answered(ids)) = n /\ Len(ids) = n
           /\ DOMAIN Answered(ids) = 1..n /\ n <= PageSize /\ n \in Nat
           /\ \A j \in 1..n : /\ Answered(ids)[j].id = ids[j] /\ ids[j] \in Below(f, cursor)
                              /\ Answered(ids)[j].status = rows[ids[j]]
<1>1. PageSize \in Nat /\ n \in Nat /\ n <= PageSize /\ DOMAIN ids = 1..n
    BY DEF HistoryConstants
<1>2. ids \in Seq(Ops) /\ Len(ids) = n
    BY <1>1
<1>3. \A j \in 1..n : ids[j] \in Below(f, cursor) /\ ids[j] \in Ops
    BY <1>1 DEF Latest
<1>4. \A j \in 1..n : [id |-> ids[j], status |-> rows[ids[j]]] \in Row
    BY <1>3 DEF Below, Row, TypeOK
<1>5. Answered(ids) \in [1..n -> Row]
    BY <1>1, <1>4 DEF Answered
<1>6. Answered(ids) \in Seq(Row) /\ Len(Answered(ids)) = n
    BY <1>1, <1>5
<1>. QED
    BY <1>1, <1>2, <1>3, <1>5, <1>6 DEF Answered

\* What appending does to places.
LEMMA AppendPlaces ==
    ASSUME NEW pages \in Pages, NEW page \in Seq(Row)
    PROVE  LET more == Append(pages, page)
           IN  /\ more \in Pages /\ Len(more) = Len(pages) + 1 /\ more # <<>>
               /\ DOMAIN more = 1..(Len(pages) + 1)
               /\ \A i \in DOMAIN pages : i \in DOMAIN more /\ more[i] = pages[i]
               /\ more[Len(pages) + 1] = page
               /\ Last(more) = page
BY DEF Pages, Last

\* A list with one more page has the rows of both.
LEMMA AppendLists ==
    ASSUME NEW pages \in Pages, NEW page \in Seq(Row), NEW p
    PROVE  Lists(Append(pages, page), p) <=>
             Lists(pages, p) \/ \E j \in DOMAIN page : page[j].id = p
<1>. DEFINE more == Append(pages, page)
<1>1. /\ DOMAIN more = 1..(Len(pages) + 1) /\ DOMAIN pages = 1..Len(pages) /\ Len(pages) \in Nat
      /\ \A i \in DOMAIN pages : i \in DOMAIN more /\ more[i] = pages[i]
      /\ more[Len(pages) + 1] = page
    BY AppendPlaces, RowTypes
<1>2. \A i \in DOMAIN more : i \in DOMAIN pages \/ i = Len(pages) + 1
    BY <1>1
<1>. HIDE DEF more
<1>3. Lists(more, p) <=> Lists(pages, p) \/ \E j \in DOMAIN page : page[j].id = p
    BY <1>1, <1>2 DEF Lists
<1>. QED
    BY <1>3 DEF more

\* A page that is read below the cursor fits to the list.
LEMMA AppendFits ==
    ASSUME HistoryConstants, TypeOK, TableInv, NEW f \in Filters,
           NEW pages \in Pages, HasNext(pages), Fit(f, pages),
           NEW n \in 0..PageSize, NEW ids \in [1..n -> Ops], Latest(ids, f, Cursor(pages))
    PROVE  Fit(f, Append(pages, Answered(ids)))
<1>. DEFINE page == Answered(ids)
            more == Append(pages, page)
<1>1. /\ page \in Seq(Row) /\ Len(page) = n /\ Len(ids) = n /\ DOMAIN page = 1..n
      /\ n <= PageSize /\ n \in Nat /\ PageSize \in Nat
      /\ \A j \in 1..n : page[j].id = ids[j] /\ ids[j] \in Below(f, Cursor(pages))
    <2>1. PageSize \in Nat
        BY DEF HistoryConstants
    <2>2. page \in Seq(Row) /\ Len(page) = n /\ DOMAIN page = 1..n
        BY AnswerTypes
    <2>3. Len(ids) = n
        BY AnswerTypes
    <2>4. n <= PageSize /\ n \in Nat
        BY <2>1
    <2>5. \A j \in 1..n : page[j].id = ids[j] /\ ids[j] \in Below(f, Cursor(pages))
        BY AnswerTypes
    <2>. QED
        BY <2>1, <2>2, <2>3, <2>4, <2>5
<1>2. /\ DOMAIN more = 1..(Len(pages) + 1) /\ Len(more) = Len(pages) + 1
      /\ DOMAIN pages = 1..Len(pages) /\ Len(pages) \in Nat
      /\ \A i \in DOMAIN pages : i \in DOMAIN more /\ more[i] = pages[i]
      /\ more[Len(pages) + 1] = page
    BY <1>1, AppendPlaces, RowTypes
<1>3. \A i \in DOMAIN more : i \in DOMAIN pages \/ i = Len(pages) + 1
    BY <1>2
<1>4. \A p \in Ops : Lists(more, p) <=> Lists(pages, p) \/ \E j \in 1..n : ids[j] = p
    BY <1>1, AppendLists
<1>5. \A i \in DOMAIN pages : \A j \in DOMAIN pages[i] :
        pages[i][j].id \in Ops /\ Lists(pages, pages[i][j].id)
    BY RowTypes DEF Lists
<1>6. ASSUME NEW p \in Ops, Lists(pages, p)
      PROVE  Cursor(pages) \in Ops /\ Cursor(pages) # 0 /\ Cursor(pages) <= p
             /\ pages # <<>>
    <2>1. pages # <<>>
        BY <1>6, RowTypes DEF Lists
    <2>. QED
        BY <1>6, <2>1, CursorIsLast, CursorIsSmallest
<1>7. \A j \in 1..n : \A p \in Ops : Lists(pages, p) => ids[j] < p
    <2>1. ASSUME NEW j \in 1..n, NEW p \in Ops, Lists(pages, p)
          PROVE  ids[j] < p
        <3>1. /\ Cursor(pages) \in Ops /\ Cursor(pages) # 0 /\ Cursor(pages) <= p
              /\ ids[j] \in Ops
            BY <1>6, <2>1
        <3>2. ids[j] < Cursor(pages)
            BY <1>1, <3>1 DEF Below
        <3>3. ids[j] \in Nat /\ Cursor(pages) \in Nat /\ p \in Nat
            BY <3>1 DEF HistoryConstants
        <3>. QED
            BY <3>1, <3>2, <3>3
    <2>. QED
        BY <2>1
<1>8. Ops \subseteq Nat
    BY DEF HistoryConstants
<1>. HIDE DEF page, more
<1>9. \A i \in DOMAIN more :
        Len(more[i]) <= PageSize /\ (i < Len(more) => Len(more[i]) = PageSize)
    <2>1. ASSUME NEW i \in DOMAIN pages
          PROVE  Len(pages[i]) = PageSize
        <3>1. CASE i < Len(pages)
            BY <3>1 DEF Fit
        <3>2. CASE i = Len(pages)
            BY <1>2, <3>2, CursorIsLast
        <3>. QED
            BY <1>2, <3>1, <3>2
    <2>. QED
        BY <1>1, <1>2, <1>3, <2>1
<1>10. ASSUME NEW i \in DOMAIN more, NEW k \in DOMAIN more,
              NEW j \in DOMAIN more[i], NEW l \in DOMAIN more[k],
              i < k \/ (i = k /\ j < l)
       PROVE  more[k][l].id < more[i][j].id
    <2>1. CASE k \in DOMAIN pages
        <3>1. i \in DOMAIN pages
            BY <1>2, <1>10, <2>1
        <3>. QED
            BY <1>2, <1>10, <2>1, <3>1 DEF Fit
    <2>2. CASE k = Len(pages) + 1 /\ i \in DOMAIN pages
        <3>1. more[k][l].id = ids[l] /\ l \in 1..n
            BY <1>1, <1>2, <2>2
        <3>2. more[i][j].id \in Ops /\ Lists(pages, more[i][j].id)
            BY <1>2, <1>5, <2>2
        <3>. QED
            BY <1>7, <3>1, <3>2
    <2>3. CASE k = Len(pages) + 1 /\ i = Len(pages) + 1
        <3>1. more[k][l].id = ids[l] /\ more[i][j].id = ids[j] /\ l \in 1..n /\ j \in 1..n /\ j < l
            BY <1>1, <1>2, <1>10, <2>3
        <3>2. DOMAIN ids = 1..n
            OBVIOUS
        <3>. QED
            BY <3>1, <3>2 DEF Latest
    <2>. QED
        BY <1>3, <2>1, <2>2, <2>3
<1>11. \A p \in Ops : Lists(more, p) => rows[p] # "none"
    BY <1>1, <1>4 DEF Fit, Below
<1>12. ASSUME f = "all", NEW lo \in Ops, NEW p \in Ops, NEW hi \in Ops,
              Lists(more, lo), Lists(more, hi), lo < p, p < hi
       PROVE  Lists(more, p)
    <2>1. CASE Lists(pages, lo)
        <3>1. Lists(pages, hi)
            BY <1>4, <1>7, <1>8, <1>12, <2>1
        <3>. QED
            BY <1>4, <1>12, <2>1, <3>1 DEF Fit
    <2>2. CASE \E j \in 1..n : ids[j] = lo
        <3>1. rows[p] # "none"
            BY <1>11, <1>12 DEF TableInv
        <3>2. CASE p \in Below(f, Cursor(pages))
            <4>1. DOMAIN ids = 1..n
                OBVIOUS
            <4>2. \E j \in 1..n : ids[j] = p
                BY <1>8, <1>12, <2>2, <3>2, <4>1 DEF Latest
            <4>. QED
                BY <1>4, <4>2
        <3>3. CASE p \notin Below(f, Cursor(pages))
            <4>1. Cursor(pages) # 0 /\ ~(p < Cursor(pages))
                BY <1>12, <3>1, <3>3 DEF Below, Matches
            <4>2. pages # <<>>
                BY <4>1 DEF Cursor
            <4>3. Cursor(pages) \in Ops /\ Lists(pages, Cursor(pages))
                BY <4>2, CursorIsLast DEF Lists
            <4>4. CASE p = Cursor(pages)
                BY <1>4, <4>3, <4>4
            <4>5. CASE Cursor(pages) < p
                <5>1. Lists(pages, hi)
                    <6>1. CASE \E j \in 1..n : ids[j] = hi
                        <7>1. hi < Cursor(pages)
                            BY <1>7, <4>3, <6>1
                        <7>2. hi \in Nat /\ p \in Nat /\ Cursor(pages) \in Nat
                            BY <1>8, <4>3
                        <7>. QED
                            BY <1>12, <4>5, <7>1, <7>2
                    <6>. QED
                        BY <1>4, <1>12, <6>1
                <5>. QED
                    BY <1>4, <1>12, <4>3, <4>5, <5>1 DEF Fit
            <4>6. p \in Nat /\ Cursor(pages) \in Nat
                BY <1>8, <4>3
            <4>. QED
                BY <4>1, <4>4, <4>5, <4>6
        <3>. QED
            BY <3>2, <3>3
    <2>. QED
        BY <1>4, <1>12, <2>1, <2>2
<1>13. Fit(f, more)
    BY <1>9, <1>10, <1>11, <1>12 DEF Fit
<1>. QED
    BY <1>13 DEF more, page

\* It has what the table has, and so does the list with it.
LEMMA AppendAgrees ==
    ASSUME HistoryConstants, TypeOK, NEW f \in Filters,
           NEW pages \in Pages, HasNext(pages), Agrees(f, pages),
           NEW n \in 0..PageSize, NEW ids \in [1..n -> Ops], Latest(ids, f, Cursor(pages))
    PROVE  Agrees(f, Append(pages, Answered(ids)))
<1>0. PICK page : page = Answered(ids)
    OBVIOUS
<1>1. page \in Seq(Row) /\ Len(page) = n /\ DOMAIN page = 1..n
    BY <1>0, AnswerTypes
<1>2. \A j \in 1..n : /\ page[j].id = ids[j] /\ ids[j] \in Below(f, Cursor(pages))
                      /\ page[j].status = rows[ids[j]]
    BY <1>0, AnswerTypes
<1>. DEFINE more == Append(pages, page)
<1>3. /\ DOMAIN more = 1..(Len(pages) + 1) /\ more # <<>>
      /\ DOMAIN pages = 1..Len(pages) /\ Len(pages) \in Nat
      /\ \A i \in DOMAIN pages : i \in DOMAIN more /\ more[i] = pages[i]
      /\ more[Len(pages) + 1] = page /\ Last(more) = page
    BY <1>1, AppendPlaces, RowTypes
<1>4. \A i \in DOMAIN more : i \in DOMAIN pages \/ i = Len(pages) + 1
    BY <1>3
<1>5. \A p \in Ops : Lists(more, p) <=> Lists(pages, p) \/ \E j \in 1..n : ids[j] = p
    BY <1>1, <1>2, AppendLists
<1>6. DOMAIN ids = 1..n /\ Len(ids) = n
    BY AnswerTypes
<1>. HIDE DEF more
<1>7. ASSUME NEW i \in DOMAIN more, NEW j \in DOMAIN more[i]
      PROVE  \/ Coming(more[i][j].id)
             \/ more[i][j].status = rows[more[i][j].id] /\ Matches(f, more[i][j].status)
    <2>1. CASE i \in DOMAIN pages
        BY <1>3, <1>7, <2>1 DEF Agrees
    <2>2. CASE i = Len(pages) + 1
        BY <1>1, <1>2, <1>3, <1>7, <2>2 DEF Below
    <2>. QED
        BY <1>4, <2>1, <2>2
<1>8. ASSUME NEW p \in Ops, rows[p] # "none", Matches(f, rows[p])
      PROVE  \/ Lists(more, p) \/ Coming(p)
             \/ HasNext(more) /\ (more = <<>> \/ p < Last(Last(more)).id)
    <2>1. CASE Lists(pages, p) \/ Coming(p)
        BY <1>5, <2>1
    <2>2. CASE pages = <<>> \/ p < Last(Last(pages)).id
        <3>1. p \in Below(f, Cursor(pages))
            BY <1>8, <2>2 DEF Below, Cursor
        <3>2. CASE \E i \in DOMAIN ids : ids[i] = p
            BY <1>5, <1>6, <3>2
        <3>3. CASE Len(ids) = PageSize /\ \A i \in DOMAIN ids : p < ids[i]
            <4>1. n = PageSize /\ n \in 1..n
                BY <1>6, <3>3 DEF HistoryConstants
            <4>2. HasNext(more)
                BY <1>1, <1>3, <4>1 DEF HasNext
            <4>3. Last(Last(more)).id = ids[n]
                BY <1>1, <1>2, <1>3, <4>1 DEF Last
            <4>. QED
                BY <1>6, <3>3, <4>1, <4>2, <4>3
        <3>. QED
            BY <3>1, <3>2, <3>3 DEF Latest
    <2>. QED
        BY <1>8, <2>1, <2>2 DEF Agrees
<1>9. Agrees(f, more)
    BY <1>7, <1>8 DEF Agrees
<1>. QED
    BY <1>0, <1>9 DEF more

\* An event changes statuses and nothing else.
Alike(pages, other) ==
    /\ Len(other) = Len(pages) /\ DOMAIN other = DOMAIN pages
    /\ \A i \in DOMAIN pages :
        /\ Len(other[i]) = Len(pages[i]) /\ DOMAIN other[i] = DOMAIN pages[i]
        /\ \A j \in DOMAIN pages[i] : other[i][j].id = pages[i][j].id

\* What a list patched by an event is.
LEMMA PatchTypes ==
    ASSUME TypeOK, NEW f \in Filters, NEW e \in Row
    PROVE  /\ Patched(f, e) \in [loaded : BOOLEAN, pages : Pages]
           /\ Patched(f, e).loaded = cache[f].loaded
           /\ \A i \in DOMAIN cache[f].pages : \A j \in DOMAIN cache[f].pages[i] :
                Patched(f, e).pages[i][j] =
                    IF cache[f].pages[i][j].id = e.id THEN e ELSE cache[f].pages[i][j]
           /\ Alike(cache[f].pages, Patched(f, e).pages)
<1>. DEFINE pages == cache[f].pages
            patched == [i \in DOMAIN pages |-> [j \in DOMAIN pages[i] |->
                            IF pages[i][j].id = e.id THEN e ELSE pages[i][j]]]
<1>1. cache[f] \in [loaded : BOOLEAN, pages : Pages]
    BY DEF TypeOK
<1>2. Patched(f, e) = [cache[f] EXCEPT !.pages = patched]
    BY DEF Patched
<1>3. /\ DOMAIN pages = 1..Len(pages) /\ Len(pages) \in Nat
      /\ \A i \in DOMAIN pages :
            /\ pages[i] \in Seq(Row) /\ Len(pages[i]) \in Nat
            /\ DOMAIN pages[i] = 1..Len(pages[i])
            /\ \A j \in DOMAIN pages[i] : pages[i][j] \in Row
    BY <1>1, RowTypes
<1>. HIDE DEF pages
<1>4. ASSUME NEW i \in DOMAIN pages
      PROVE  /\ patched[i] \in Seq(Row) /\ Len(patched[i]) = Len(pages[i])
             /\ DOMAIN patched[i] = DOMAIN pages[i]
             /\ \A j \in DOMAIN pages[i] :
                    patched[i][j] = IF pages[i][j].id = e.id THEN e ELSE pages[i][j]
    <2>1. patched[i] = [j \in 1..Len(pages[i]) |->
                            IF pages[i][j].id = e.id THEN e ELSE pages[i][j]]
        BY <1>3
    <2>2. \A j \in 1..Len(pages[i]) :
            (IF pages[i][j].id = e.id THEN e ELSE pages[i][j]) \in Row
        BY <1>3
    <2>. QED
        BY <1>3, <2>1, <2>2
<1>5. patched \in Pages /\ Len(patched) = Len(pages) /\ DOMAIN patched = DOMAIN pages
    <2>1. patched \in [1..Len(pages) -> Seq(Row)]
        BY <1>3, <1>4
    <2>. HIDE DEF patched
    <2>. QED
        BY <1>3, <2>1 DEF Pages
<1>. HIDE DEF patched
<1>6. /\ Patched(f, e).pages = patched /\ Patched(f, e).loaded = cache[f].loaded
      /\ Patched(f, e) \in [loaded : BOOLEAN, pages : Pages]
    BY <1>1, <1>2, <1>5
<1>7. Alike(pages, patched)
    BY <1>4, <1>5 DEF Alike
<1>. QED
    BY <1>4, <1>6, <1>7 DEF pages

\* What lists with the same ids have in common.
LEMMA AlikeFits ==
    ASSUME HistoryConstants, NEW pages \in Pages, NEW other \in Pages, Alike(pages, other)
    PROVE  /\ \A p : Lists(other, p) <=> Lists(pages, p)
           /\ HasNext(other) <=> HasNext(pages)
           /\ other = <<>> <=> pages = <<>>
           /\ (HasNext(pages) /\ pages # <<>>) => Last(Last(other)).id = Last(Last(pages)).id
           /\ \A f \in Filters : Fit(f, pages) => Fit(f, other)
<1>1. \A p : Lists(other, p) <=> Lists(pages, p)
    BY DEF Alike, Lists
<1>2. other = <<>> <=> pages = <<>>
    BY RowTypes DEF Alike
<1>3. CASE pages = <<>>
    <2>1. HasNext(other) /\ HasNext(pages)
        BY <1>2, <1>3 DEF HasNext
    <2>2. DOMAIN pages = {} /\ DOMAIN other = {}
        BY <1>2, <1>3
    <2>3. \A f \in Filters : Fit(f, other)
        BY <2>2 DEF Fit, Lists
    <2>. QED
        BY <1>1, <1>2, <1>3, <2>1, <2>3
<1>4. CASE pages # <<>>
    <2>1. Len(pages) \in DOMAIN pages /\ Len(other) = Len(pages)
        BY <1>4, RowTypes DEF Alike
    <2>2. HasNext(other) <=> HasNext(pages)
        BY <1>2, <1>4, <2>1 DEF HasNext, Last, Alike
    <2>3. ASSUME HasNext(pages)
          PROVE  Last(Last(other)).id = Last(Last(pages)).id
        <3>1. PageSize \in DOMAIN pages[Len(pages)] /\ Len(pages[Len(pages)]) = PageSize
            BY <1>4, <2>3, CursorIsLast
        <3>. QED
            BY <2>1, <3>1 DEF Last, Alike
    <2>4. ASSUME NEW f \in Filters, Fit(f, pages)
          PROVE  Fit(f, other)
        <3>1. \A i \in DOMAIN other :
                Len(other[i]) <= PageSize /\ (i < Len(other) => Len(other[i]) = PageSize)
            BY <2>4 DEF Fit, Alike
        <3>2. \A i, k \in DOMAIN other : \A j \in DOMAIN other[i], l \in DOMAIN other[k] :
                (i < k \/ (i = k /\ j < l)) => other[k][l].id < other[i][j].id
            BY <2>4 DEF Fit, Alike
        <3>. QED
            BY <1>1, <2>4, <3>1, <3>2 DEF Fit
    <2>. QED
        BY <1>1, <1>2, <2>2, <2>3, <2>4
<1>. QED
    BY <1>3, <1>4

-----------------------------------------------------------------------------
(* Types.                                                                   *)

Fetch == [kind : {"idle", "all", "more"}, got : Pages, want : Nat, late : SUBSET Reason]

\* It wants something if it is under way, and does not go further.
FetchOK(g) == (g.kind = "idle" <=> g.want = 0) /\ Len(g.got) <= g.want

\* A fetch that rests, and one that begins.
LEMMA FetchTypes ==
    ASSUME TypeOK, NEW f \in Filters
    PROVE  /\ Nothing \in Fetch /\ Nothing.kind = "idle" /\ Nothing.want = 0
           /\ Nothing.got = <<>>
           /\ Start(f) \in Fetch /\ Start(f).kind = "all" /\ Start(f).want # 0
           /\ Start(f).got = <<>> /\ Start(f).late = {} /\ Len(<<>>) = 0
           /\ get[f] \in Fetch /\ Later(get[f]) \in Fetch
           /\ Later(get[f]).kind = get[f].kind /\ Later(get[f]).got = get[f].got
           /\ Later(get[f]).want = get[f].want
           /\ get[f].kind # "idle" => Later(get[f]).late # {}
           /\ FetchOK(Nothing) /\ FetchOK(Start(f)) /\ FetchOK(Later(get[f]))
<1>1. <<>> \in Pages
    BY DEF Pages
<1>2. Nothing \in Fetch /\ Nothing.kind = "idle" /\ Nothing.want = 0 /\ Nothing.got = <<>>
    BY <1>1 DEF Nothing, Fetch
<1>3. cache[f] \in [loaded : BOOLEAN, pages : Pages] /\ (cache[f].loaded <=> cache[f].pages # <<>>)
    BY DEF TypeOK
<1>4. IF cache[f].loaded THEN Len(cache[f].pages) \in Nat \ {0} ELSE TRUE
    BY <1>3, RowTypes
<1>5. (IF cache[f].loaded THEN Len(cache[f].pages) ELSE 1) \in Nat \ {0}
    BY <1>4
<1>6. /\ Start(f) \in Fetch /\ Start(f).kind = "all" /\ Start(f).want # 0
      /\ Start(f).got = <<>> /\ Start(f).late = {}
    BY <1>1, <1>5 DEF Start, Fetch
<1>7. get[f] \in Fetch
    BY DEF TypeOK, Fetch
<1>8. /\ Later(get[f]) \in Fetch
      /\ Later(get[f]).kind = get[f].kind /\ Later(get[f]).got = get[f].got
      /\ Later(get[f]).want = get[f].want
      /\ get[f].kind # "idle" => Later(get[f]).late # {}
    BY <1>7 DEF Later, Fetch, Reason
<1>9. FetchOK(Nothing) /\ FetchOK(Start(f))
    <2>1. Len(<<>>) = 0 /\ Start(f).want \in Nat
        BY <1>6 DEF Fetch
    <2>. QED
        BY <1>2, <1>6, <2>1 DEF FetchOK
<1>10. FetchOK(get[f]) /\ FetchOK(Later(get[f]))
    BY <1>8 DEF TypeOK, FetchOK
<1>. QED
    BY <1>2, <1>6, <1>7, <1>8, <1>9, <1>10

\* A step keeps the types.
LEMMA StepType ==
    ASSUME HistoryConstants, TypeOK, [Next]_vars
    PROVE  TypeOK'
<1>. USE DEF HistoryConstants
<1>0. /\ get \in [Filters -> Fetch] /\ \A f \in Filters : FetchOK(get[f])
      /\ cache \in [Filters -> [loaded : BOOLEAN, pages : Pages]]
      /\ \A f \in Filters : cache[f].loaded <=> cache[f].pages # <<>>
    BY DEF TypeOK, Fetch, FetchOK
<1>1. ASSUME /\ rows' \in [Ops -> {"none", "live", "ended"}] /\ hub' \in Seq(Row)
             /\ filter' \in Filters
             /\ cache' \in [Filters -> [loaded : BOOLEAN, pages : Pages]]
             /\ \A f \in Filters : cache'[f].loaded <=> cache'[f].pages # <<>>
             /\ get' \in [Filters -> Fetch] /\ \A f \in Filters : FetchOK(get'[f])
             /\ reason' \in [Filters -> SUBSET Reason]
             /\ clicks' \in 0..MaxClicks /\ events' \in 0..MaxEvents
      PROVE  TypeOK'
    BY <1>1 DEF TypeOK, Fetch, FetchOK
<1>2. ASSUME NEW f \in Filters, ChooseFilter(f)
      PROVE  TypeOK'
    <2>1. get' \in [Filters -> Fetch]
        BY <1>0, <1>2, FetchTypes DEF ChooseFilter
    <2>2. \A g \in Filters : FetchOK(get'[g])
        BY <1>0, <1>2, FetchTypes DEF ChooseFilter
    <2>3. clicks' \in 0..MaxClicks /\ events' \in 0..MaxEvents
        BY <1>2 DEF TypeOK, ChooseFilter, Click
    <2>. QED
        BY <1>0, <1>1, <1>2, <2>1, <2>2, <2>3 DEF TypeOK, ChooseFilter
<1>3. ASSUME LoadMore
      PROVE  TypeOK'
    <2>. DEFINE new == [kind |-> "more", got |-> cache[filter].pages, late |-> {},
                        want |-> Len(cache[filter].pages) + 1]
    <2>1. filter \in Filters /\ cache[filter].pages \in Pages
        BY <1>0 DEF TypeOK
    <2>2. Len(cache[filter].pages) \in Nat
        BY <2>1, RowTypes
    <2>3. new \in Fetch /\ FetchOK(new)
        BY <2>1, <2>2 DEF Fetch, FetchOK
    <2>4. get' = [get EXCEPT ![filter] = new]
        BY <1>3 DEF LoadMore
    <2>. HIDE DEF new
    <2>5. get' \in [Filters -> Fetch] /\ \A g \in Filters : FetchOK(get'[g])
        BY <1>0, <2>1, <2>3, <2>4
    <2>6. reason' \in [Filters -> SUBSET Reason]
        BY <1>3, <2>1 DEF TypeOK, LoadMore, Reason
    <2>7. clicks' \in 0..MaxClicks /\ events' \in 0..MaxEvents
        BY <1>3 DEF TypeOK, LoadMore, Click
    <2>. QED
        BY <1>0, <1>1, <1>3, <2>5, <2>6, <2>7 DEF TypeOK, LoadMore
<1>4. ASSUME NEW f \in Filters, AnswerPage(f)
      PROVE  TypeOK'
    <2>1. PICK n \in 0..PageSize : \E ids \in [1..n -> Ops] :
            /\ Latest(ids, f, Cursor(get[f].got))
            /\ get' = [get EXCEPT ![f].got = Append(@, Answered(ids))]
        BY <1>4 DEF AnswerPage, Answered
    <2>2. PICK ids \in [1..n -> Ops] :
            /\ Latest(ids, f, Cursor(get[f].got))
            /\ get' = [get EXCEPT ![f].got = Append(@, Answered(ids))]
        BY <2>1
    <2>3. Answered(ids) \in Seq(Row)
        BY <2>2, AnswerTypes
    <2>4. get[f] \in Fetch /\ get[f].got \in Pages /\ FetchOK(get[f])
        BY <1>0 DEF Fetch
    <2>5. /\ Append(get[f].got, Answered(ids)) \in Pages
          /\ Len(Append(get[f].got, Answered(ids))) = Len(get[f].got) + 1
        BY <2>3, <2>4, AppendPlaces
    <2>6. Len(get[f].got) < get[f].want
        <3>1. Len(get[f].got) # get[f].want
            BY <1>4 DEF AnswerPage, Complete
        <3>2. Len(get[f].got) \in Nat /\ get[f].want \in Nat
            BY <2>4, RowTypes DEF Fetch
        <3>. QED
            BY <2>4, <3>1, <3>2 DEF FetchOK
    <2>7. /\ get'[f] \in Fetch /\ get'[f].kind = get[f].kind /\ get'[f].want = get[f].want
          /\ get'[f].got = Append(get[f].got, Answered(ids))
        BY <1>0, <2>2, <2>4, <2>5 DEF Fetch
    <2>8. FetchOK(get'[f])
        <3>1. Len(get[f].got) \in Nat /\ get[f].want \in Nat
            BY <2>4, RowTypes DEF Fetch
        <3>. QED
            BY <2>4, <2>5, <2>6, <2>7, <3>1 DEF FetchOK
    <2>9. get' \in [Filters -> Fetch] /\ \A g \in Filters : FetchOK(get'[g])
        BY <1>0, <2>2, <2>7, <2>8
    <2>. QED
        BY <1>0, <1>1, <1>4, <2>9 DEF TypeOK, AnswerPage
<1>5. ASSUME NEW f \in Filters, Load(f)
      PROVE  TypeOK'
    <2>1. get[f].got \in Pages /\ FetchOK(get[f]) /\ get[f] \in Fetch
        BY <1>0 DEF Fetch
    <2>2. get[f].got # <<>>
        <3>1. Len(get[f].got) \in Nat /\ (get[f].got # <<>> <=> Len(get[f].got) > 0)
            BY <2>1, RowTypes
        <3>. QED
            BY <1>5, <2>1, <3>1 DEF Load, Complete, HasNext, FetchOK
    <2>3. /\ cache' \in [Filters -> [loaded : BOOLEAN, pages : Pages]]
          /\ \A g \in Filters : cache'[g].loaded <=> cache'[g].pages # <<>>
        BY <1>0, <1>5, <2>1, <2>2 DEF Load
    <2>4. get' \in [Filters -> Fetch] /\ \A g \in Filters : FetchOK(get'[g])
        BY <1>0, <1>5, FetchTypes DEF Load, FetchOK
    <2>5. reason' \in [Filters -> SUBSET Reason]
        BY <1>5, <2>1 DEF TypeOK, Load, Fetch
    <2>. QED
        BY <1>1, <1>5, <2>3, <2>4, <2>5 DEF TypeOK, Load
<1>6. ASSUME NEW f \in Filters, Fail(f)
      PROVE  TypeOK'
    <2>1. get' \in [Filters -> Fetch] /\ \A g \in Filters : FetchOK(get'[g])
        BY <1>0, <1>6, FetchTypes DEF Fail, FetchOK
    <2>2. reason' \in [Filters -> SUBSET Reason]
        BY <1>6 DEF TypeOK, Fail, Reason
    <2>3. clicks' \in 0..MaxClicks /\ events' \in 0..MaxEvents
        BY <1>6 DEF TypeOK, Fail, Event
    <2>. QED
        BY <1>0, <1>1, <1>6, <2>1, <2>2, <2>3 DEF TypeOK, Fail
<1>7. ASSUME EventArrives
      PROVE  TypeOK'
    <2>. DEFINE e == Head(hub)
    <2>1. e \in Row /\ Tail(hub) \in Seq(Row)
        BY <1>7 DEF TypeOK, EventArrives
    <2>2. /\ cache' = [f \in Filters |-> Patched(f, e)]
          /\ \A f \in Filters : get'[f] = Start(f) \/ get'[f] = Later(get[f])
          /\ get' = [f \in Filters |-> get'[f]]
          /\ hub' = Tail(hub)
          /\ reason' \in [Filters -> SUBSET Reason]
        BY <1>7 DEF TypeOK, EventArrives, Reason
    <2>. HIDE DEF e
    <2>3. cache' \in [Filters -> [loaded : BOOLEAN, pages : Pages]]
        BY <2>1, <2>2, PatchTypes
    <2>4. ASSUME NEW f \in Filters
          PROVE  cache'[f].loaded <=> cache'[f].pages # <<>>
        <3>1. /\ Patched(f, e).loaded = cache[f].loaded
              /\ Len(Patched(f, e).pages) = Len(cache[f].pages)
              /\ Patched(f, e).pages \in Pages /\ cache[f].pages \in Pages
            BY <1>0, <2>1, PatchTypes DEF Alike
        <3>2. Patched(f, e).pages # <<>> <=> cache[f].pages # <<>>
            BY <3>1, RowTypes
        <3>. QED
            BY <1>0, <2>2, <3>1, <3>2
    <2>5. \A f \in Filters : get'[f] \in Fetch /\ FetchOK(get'[f])
        BY <2>2, FetchTypes
    <2>6. get' \in [Filters -> Fetch]
        BY <2>2, <2>5
    <2>. QED
        BY <1>1, <1>7, <2>1, <2>2, <2>3, <2>4, <2>5, <2>6 DEF TypeOK, EventArrives
<1>8. ASSUME EventsLost
      PROVE  TypeOK'
    <2>1. get' \in [Filters -> Fetch] /\ \A g \in Filters : FetchOK(get'[g])
        <3>1. ASSUME NEW g \in Filters
              PROVE  get'[g] \in Fetch /\ FetchOK(get'[g])
            <4>1. get'[g] = [get[g] EXCEPT !.late =
                                @ \cup {r \in {"lost"} : get[g].kind # "idle"}]
                BY <1>8 DEF EventsLost
            <4>2. get[g] \in Fetch /\ FetchOK(get[g])
                BY <1>0
            <4>. QED
                BY <4>1, <4>2 DEF FetchOK, Fetch, Reason
        <3>. QED
            BY <1>8, <3>1 DEF EventsLost
    <2>2. reason' \in [Filters -> SUBSET Reason]
        BY <1>8 DEF TypeOK, EventsLost, Reason
    <2>3. clicks' \in 0..MaxClicks /\ events' \in 0..MaxEvents
        BY <1>8 DEF TypeOK, EventsLost, Event
    <2>. QED
        <3>1. hub' = <<>> /\ <<>> \in Seq(Row) /\ UNCHANGED <<rows, filter, cache>>
            BY <1>8 DEF EventsLost
        <3>2. rows \in [Ops -> {"none", "live", "ended"}] /\ filter \in Filters
            BY DEF TypeOK
        <3>. QED
            BY <1>0, <1>1, <2>1, <2>2, <2>3, <3>1, <3>2
<1>9. ASSUME NEW p \in Ops, Change(p)
      PROVE  TypeOK'
    <2>1. rows' \in [Ops -> {"none", "live", "ended"}] /\ rows'[p] \in {"live", "ended"}
        BY <1>9 DEF TypeOK, Change
    <2>2. [id |-> p, status |-> rows'[p]] \in Row
        BY <2>1 DEF Row
    <2>3. hub' \in Seq(Row)
        BY <1>9, <2>2 DEF TypeOK, Change
    <2>4. clicks' \in 0..MaxClicks /\ events' \in 0..MaxEvents
        BY <1>9 DEF TypeOK, Change, Event
    <2>. QED
        BY <1>0, <1>1, <1>9, <2>1, <2>3, <2>4 DEF TypeOK, Change, view
<1>10. ASSUME UNCHANGED vars
       PROVE  TypeOK'
    BY <1>0, <1>1, <1>10 DEF TypeOK, vars, view
<1>. QED
    BY <1>2, <1>3, <1>4, <1>5, <1>6, <1>7, <1>8, <1>9, <1>10 DEF Next

-----------------------------------------------------------------------------
(* The invariant.                                                          *)

\* While the table and what is on its way stay, so does what is true of a list.
LEMMA AgreesStays ==
    ASSUME UNCHANGED <<rows, hub>>
    PROVE  /\ TableInv' <=> TableInv
           /\ HubInv' <=> HubInv
           /\ \A f, pages : /\ Fit(f, pages)' <=> Fit(f, pages)
                            /\ Agrees(f, pages)' <=> Agrees(f, pages)
BY DEF TableInv, HubInv, Fit, Agrees, Coming, Matches, Lists, HasNext

\* An empty list fits and is true.
LEMMA EmptyList == \A f : Fit(f, <<>>) /\ Agrees(f, <<>>)
BY DEF Fit, Agrees, Lists, HasNext

\* The steps of the user and of the fetches.
LEMMA FetchKeeps ==
    ASSUME HistoryConstants, TypeOK, HistoryInv, UNCHANGED <<rows, hub>>,
           \/ \E f \in Filters : ChooseFilter(f) \/ AnswerPage(f) \/ Load(f) \/ Fail(f)
           \/ LoadMore
    PROVE  HistoryInv'
<1>. DEFINE Fits == \A f \in Filters : Fit(f, cache'[f].pages) /\ Fit(f, get'[f].got)
            Fetches == \A f \in Filters :
                (get'[f].kind # "idle" /\ get'[f].late = {}
                    /\ (get'[f].kind = "more" => reason'[f] = {})) => Agrees(f, get'[f].got)
            List == (get'[filter'].kind = "idle" /\ cache'[filter'].loaded
                        /\ reason'[filter'] = {}) => Agrees(filter', cache'[filter'].pages)
<1>. SUFFICES Fits /\ Fetches /\ List
    BY AgreesStays DEF HistoryInv, FetchInv, ListInv
<1>0. /\ get \in [Filters -> Fetch] /\ reason \in [Filters -> SUBSET Reason]
      /\ cache \in [Filters -> [loaded : BOOLEAN, pages : Pages]] /\ filter \in Filters
    BY DEF TypeOK, Fetch
<1>1. /\ \A f \in Filters : Fit(f, cache[f].pages) /\ Fit(f, get[f].got) /\ FetchInv(f)
      /\ ListInv /\ TableInv
    BY DEF HistoryInv
<1>2. ASSUME NEW f \in Filters, ChooseFilter(f)
      PROVE  Fits /\ Fetches /\ List
    <2>1. /\ get' = [get EXCEPT ![f] = IF @.kind = "idle" THEN Start(f) ELSE @]
          /\ filter' = f /\ UNCHANGED <<cache, reason>>
        BY <1>2 DEF ChooseFilter
    <2>2. \A g \in Filters : get'[g] = get[g] \/ (g = f /\ get'[g] = Start(f))
        BY <1>0, <2>1
    <2>3. get'[f].kind # "idle"
        BY <1>0, <2>1, FetchTypes
    <2>4. Fits
        BY <1>1, <2>1, <2>2, FetchTypes, EmptyList
    <2>5. Fetches
        BY <1>1, <2>1, <2>2, FetchTypes, EmptyList DEF FetchInv
    <2>. QED
        BY <2>1, <2>3, <2>4, <2>5
<1>3. ASSUME LoadMore
      PROVE  Fits /\ Fetches /\ List
    <2>. DEFINE new == [kind |-> "more", got |-> cache[filter].pages, late |-> {},
                        want |-> Len(cache[filter].pages) + 1]
    <2>1. /\ get' = [get EXCEPT ![filter] = new]
          /\ reason' = [reason EXCEPT ![filter] =
                           @ \cup {r \in {"cancelled"} : get[filter].kind = "all"}]
          /\ cache[filter].loaded /\ get[filter].kind # "more"
          /\ UNCHANGED <<cache, filter>>
        BY <1>3 DEF LoadMore
    <2>2. new.kind = "more" /\ new.got = cache[filter].pages
        OBVIOUS
    <2>. HIDE DEF new
    <2>3. /\ get'[filter] = new /\ \A g \in Filters \ {filter} : get'[g] = get[g]
          /\ \A g \in Filters \ {filter} : reason'[g] = reason[g]
        BY <1>0, <2>1
    <2>4. Fits
        BY <1>0, <1>1, <2>1, <2>2, <2>3
    <2>5. ASSUME reason'[filter] = {}
          PROVE  Agrees(filter, cache[filter].pages)
        <3>1. reason[filter] = {} /\ get[filter].kind # "all"
            BY <1>0, <2>1, <2>5
        <3>2. get[filter].kind = "idle"
            BY <1>0, <2>1, <3>1 DEF Fetch
        <3>. QED
            BY <1>1, <2>1, <3>1, <3>2 DEF ListInv
    <2>6. Fetches
        BY <1>1, <2>2, <2>3, <2>5 DEF FetchInv
    <2>. QED
        BY <2>1, <2>2, <2>3, <2>4, <2>6
<1>4. ASSUME NEW f \in Filters, AnswerPage(f)
      PROVE  Fits /\ Fetches /\ List
    <2>1. PICK n \in 0..PageSize : \E ids \in [1..n -> Ops] :
            /\ Latest(ids, f, Cursor(get[f].got))
            /\ get' = [get EXCEPT ![f].got = Append(@, Answered(ids))]
        BY <1>4 DEF AnswerPage, Answered
    <2>2. PICK ids \in [1..n -> Ops] :
            /\ Latest(ids, f, Cursor(get[f].got))
            /\ get' = [get EXCEPT ![f].got = Append(@, Answered(ids))]
        BY <2>1
    <2>3. get[f] \in Fetch /\ get[f].got \in Pages
        BY <1>0 DEF Fetch
    <2>4. HasNext(get[f].got) /\ UNCHANGED <<cache, reason, filter>> /\ get[f].kind # "idle"
        BY <1>4 DEF AnswerPage, Complete
    <2>5. /\ get'[f].kind = get[f].kind /\ get'[f].late = get[f].late
          /\ get'[f].got = Append(get[f].got, Answered(ids))
          /\ \A g \in Filters \ {f} : get'[g] = get[g]
        BY <1>0, <2>2, <2>3 DEF Fetch
    <2>6. Fit(f, get'[f].got)
        BY <1>1, <2>2, <2>3, <2>4, <2>5, AppendFits
    <2>7. Agrees(f, get[f].got) => Agrees(f, get'[f].got)
        BY <2>2, <2>3, <2>4, <2>5, AppendAgrees
    <2>8. Fits
        BY <1>1, <2>4, <2>5, <2>6
    <2>9. Fetches
        BY <1>1, <2>4, <2>5, <2>7 DEF FetchInv
    <2>10. List
        BY <1>0, <1>1, <2>4, <2>5 DEF ListInv
    <2>. QED
        BY <2>8, <2>9, <2>10
<1>5. ASSUME NEW f \in Filters, Load(f)
      PROVE  Fits /\ Fetches /\ List
    <2>1. /\ get[f].kind # "idle" /\ get' = [get EXCEPT ![f] = Nothing]
          /\ cache' = [cache EXCEPT ![f] = [loaded |-> TRUE, pages |-> get[f].got]]
          /\ reason' = [reason EXCEPT ![f] =
                           get[f].late \cup (IF get[f].kind = "more" THEN @ ELSE {})]
          /\ filter' = filter
        BY <1>5 DEF Load
    <2>2. /\ get'[f] = Nothing /\ cache'[f].pages = get[f].got
          /\ reason'[f] = get[f].late \cup (IF get[f].kind = "more" THEN reason[f] ELSE {})
        BY <1>0, <2>1
    <2>3. \A g \in Filters \ {f} :
            get'[g] = get[g] /\ cache'[g] = cache[g] /\ reason'[g] = reason[g]
        BY <1>0, <2>1
    <2>4. Fits
        BY <1>1, <2>2, <2>3, FetchTypes, EmptyList
    <2>5. Fetches
        BY <1>1, <2>2, <2>3, FetchTypes DEF FetchInv
    <2>6. ASSUME reason'[f] = {}
          PROVE  Agrees(f, cache'[f].pages)
        BY <1>1, <2>1, <2>2, <2>6 DEF FetchInv
    <2>7. List
        BY <1>0, <1>1, <2>1, <2>3, <2>6 DEF ListInv
    <2>. QED
        BY <2>4, <2>5, <2>7
<1>6. ASSUME NEW f \in Filters, Fail(f)
      PROVE  Fits /\ Fetches /\ List
    <2>1. /\ get' = [get EXCEPT ![f] = Nothing]
          /\ reason' = [reason EXCEPT ![f] = @ \cup {"lost"}]
          /\ UNCHANGED <<cache, filter>>
        BY <1>6 DEF Fail
    <2>2. /\ get'[f] = Nothing /\ reason'[f] # {}
          /\ \A g \in Filters \ {f} : get'[g] = get[g] /\ reason'[g] = reason[g]
        BY <1>0, <2>1
    <2>3. Fits
        BY <1>1, <2>1, <2>2, FetchTypes, EmptyList
    <2>4. Fetches
        BY <1>1, <2>2, FetchTypes DEF FetchInv
    <2>5. List
        BY <1>0, <1>1, <2>1, <2>2 DEF ListInv
    <2>. QED
        BY <2>3, <2>4, <2>5
<1>. QED
    BY <1>2, <1>3, <1>4, <1>5, <1>6

\* The event at the head of the channel, which is taken.
LEMMA HeadTaken ==
    ASSUME TypeOK, HubInv, hub # <<>>, hub' = Tail(hub), rows' = rows,
           NEW e, e = Head(hub)
    PROVE  /\ e \in Row /\ e.id \in Ops
           /\ HubInv'
           /\ \A p : Coming(p) => p = e.id \/ Coming(p)'
           /\ Coming(e.id)' \/ rows[e.id] = e.status
<1>1. /\ hub \in Seq(Row) /\ DOMAIN hub = 1..Len(hub) /\ Len(hub) \in Nat /\ Len(hub) > 0
      /\ e = hub[1] /\ e \in Row
    BY DEF TypeOK
<1>2. /\ DOMAIN hub' = 1..(Len(hub) - 1)
      /\ \A k \in DOMAIN hub' : hub'[k] = hub[k + 1]
    BY <1>1
<1>3. \A k \in DOMAIN hub : k = 1 \/ (k - 1 \in DOMAIN hub' /\ hub'[k - 1] = hub[k])
    BY <1>1, <1>2
<1>4. HubInv'
    <2>. SUFFICES ASSUME NEW k \in DOMAIN hub', rows[hub'[k].id] # hub'[k].status
                  PROVE  \E m \in DOMAIN hub' : k < m /\ hub'[m].id = hub'[k].id
        BY DEF HubInv
    <2>1. k + 1 \in DOMAIN hub /\ hub'[k] = hub[k + 1] /\ k \in Nat
        BY <1>1, <1>2
    <2>2. PICK m \in DOMAIN hub : k + 1 < m /\ hub[m].id = hub[k + 1].id
        BY <2>1 DEF HubInv
    <2>3. m - 1 \in DOMAIN hub' /\ hub'[m - 1] = hub[m] /\ k < m - 1
        BY <1>1, <1>3, <2>1, <2>2
    <2>. QED
        BY <2>1, <2>2, <2>3
<1>5. \A p : Coming(p) => p = e.id \/ Coming(p)'
    BY <1>1, <1>3 DEF Coming
<1>6. Coming(e.id)' \/ rows[e.id] = e.status
    <2>1. 1 \in DOMAIN hub
        BY <1>1
    <2>2. CASE \E m \in DOMAIN hub : 1 < m /\ hub[m].id = hub[1].id
        <3>1. PICK m \in DOMAIN hub : 1 < m /\ hub[m].id = hub[1].id
            BY <2>2
        <3>2. m - 1 \in DOMAIN hub' /\ hub'[m - 1].id = e.id
            BY <1>1, <1>3, <3>1
        <3>. QED
            BY <3>2 DEF Coming
    <2>. QED
        BY <1>1, <2>1, <2>2 DEF HubInv
<1>. QED
    BY <1>1, <1>4, <1>5, <1>6 DEF Row

\* A list that holds the operation of an event, and has it match, stays true.
LEMMA PatchAgrees ==
    ASSUME HistoryConstants, TypeOK, HubInv, hub # <<>>, hub' = Tail(hub), rows' = rows,
           NEW f \in Filters, Agrees(f, cache[f].pages),
           NEW e, e = Head(hub), Holds(f, e.id), Matches(f, e.status),
           NEW other, other = Patched(f, e).pages
    PROVE  Agrees(f, other)'
<1>. DEFINE pages == cache[f].pages
<1>1. /\ e \in Row /\ \A p : Coming(p) => p = e.id \/ Coming(p)'
      /\ Coming(e.id)' \/ rows[e.id] = e.status
    BY HeadTaken
<1>2. /\ pages \in Pages /\ other \in Pages /\ Alike(pages, other)
      /\ \A i \in DOMAIN pages : \A j \in DOMAIN pages[i] :
            other[i][j] = IF pages[i][j].id = e.id THEN e ELSE pages[i][j]
    BY <1>1, PatchTypes DEF TypeOK
<1>3. /\ \A p : Lists(other, p) <=> Lists(pages, p)
      /\ HasNext(other) <=> HasNext(pages)
      /\ other = <<>> <=> pages = <<>>
      /\ (HasNext(pages) /\ pages # <<>>) => Last(Last(other)).id = Last(Last(pages)).id
    BY <1>2, AlikeFits
<1>4. Lists(pages, e.id)
    BY <1>2, RowTypes DEF Holds, Lists
<1>5. DOMAIN other = DOMAIN pages /\ \A i \in DOMAIN pages : DOMAIN other[i] = DOMAIN pages[i]
    BY <1>2 DEF Alike
<1>6. Agrees(f, pages)
    OBVIOUS
<1>. HIDE DEF pages
<1>7. ASSUME NEW i \in DOMAIN pages, NEW j \in DOMAIN pages[i]
      PROVE  \/ Coming(other[i][j].id)'
             \/ other[i][j].status = rows[other[i][j].id] /\ Matches(f, other[i][j].status)
    <2>1. CASE pages[i][j].id = e.id
        BY <1>1, <1>2, <2>1
    <2>2. CASE pages[i][j].id # e.id
        BY <1>1, <1>2, <1>6, <2>2 DEF Agrees
    <2>. QED
        BY <2>1, <2>2
<1>8. ASSUME NEW p \in Ops, rows[p] # "none", Matches(f, rows[p])
      PROVE  \/ Lists(other, p) \/ Coming(p)'
             \/ HasNext(other) /\ (other = <<>> \/ p < Last(Last(other)).id)
    <2>1. CASE p = e.id
        BY <1>3, <1>4, <2>1
    <2>2. CASE p # e.id
        BY <1>1, <1>3, <1>6, <1>8, <2>2 DEF Agrees
    <2>. QED
        BY <2>1, <2>2
<1>9. \A i \in DOMAIN other : \A j \in DOMAIN other[i] :
        \/ Coming(other[i][j].id)'
        \/ other[i][j].status = rows[other[i][j].id] /\ Matches(f, other[i][j].status)
    BY <1>5, <1>7
<1>. QED
    BY <1>8, <1>9 DEF Agrees, Matches, Lists, HasNext

\* An event is handled: the list on the screen is patched or fetched again.
LEMMA EventKeeps ==
    ASSUME HistoryConstants, TypeOK, HistoryInv, EventArrives
    PROVE  HistoryInv'
<1>. DEFINE e == Head(hub)
<1>1. /\ hub # <<>> /\ hub' = Tail(hub) /\ UNCHANGED <<rows, filter>>
      /\ \A f \in Filters : cache'[f] = Patched(f, e)
    BY DEF EventArrives
<1>2. \A f \in Filters : get'[f] = Start(f) \/ get'[f] = Later(get[f])
    BY DEF EventArrives
<1>3. TableInv /\ HubInv /\ filter \in Filters
    BY DEF HistoryInv, TypeOK
<1>4. e \in Row /\ e.id \in Ops /\ HubInv'
    BY <1>1, <1>3, HeadTaken
<1>5. TableInv'
    BY <1>1, <1>3 DEF TableInv
<1>6. ASSUME NEW f \in Filters
      PROVE  Fit(f, cache[f].pages)' /\ Fit(f, get[f].got)'
    <2>1. cache[f].pages \in Pages
        BY DEF TypeOK
    <2>2. Fit(f, Patched(f, e).pages)
        <3>1. /\ Patched(f, e).pages \in Pages /\ Alike(cache[f].pages, Patched(f, e).pages)
            BY <1>4, PatchTypes
        <3>. QED
            BY <2>1, <3>1, AlikeFits DEF HistoryInv
    <2>3. Fit(f, Start(f).got) /\ Fit(f, Later(get[f]).got)
        BY FetchTypes, EmptyList DEF HistoryInv
    <2>4. Fit(f, cache'[f].pages) /\ Fit(f, get'[f].got)
        BY <1>1, <1>2, <2>2, <2>3
    <2>. QED
        BY <1>1, <2>4 DEF Fit
<1>7. ASSUME NEW f \in Filters
      PROVE  FetchInv(f)'
    <2>1. CASE get'[f] = Start(f)
        <3>1. Agrees(f, <<>>)'
            BY EmptyList DEF Agrees, Lists, HasNext
        <3>. QED
            BY <2>1, <3>1, FetchTypes DEF FetchInv
    <2>2. CASE get'[f] = Later(get[f])
        BY <2>2, FetchTypes DEF FetchInv
    <2>. QED
        BY <1>2, <2>1, <2>2
<1>8. ListInv'
    <2>. SUFFICES ASSUME get'[filter].kind = "idle", cache'[filter].loaded,
                         reason'[filter] = {}
                  PROVE  Agrees(filter, cache[filter].pages)'
        BY <1>1 DEF ListInv
    <2>1. get'[filter] # Start(filter)
        BY <1>3, FetchTypes
    <2>2. get[filter].kind = "idle" /\ cache[filter].loaded
        BY <1>1, <1>2, <1>3, <1>4, <2>1, FetchTypes, PatchTypes
    <2>3. /\ \E f \in Filters : Holds(f, e.id)
          /\ reason[filter] = {}
          /\ Holds(filter, e.id) /\ Matches(filter, e.status)
        <3>1. \E f \in Filters : Holds(f, e.id)
            BY <1>3, <2>1, <2>2 DEF EventArrives
        <3>2. reason[filter] = {} /\ Holds(filter, e.id) /\ Matches(filter, e.status)
            BY <1>3, <3>1 DEF EventArrives, Reason
        <3>. QED
            BY <3>1, <3>2
    <2>4. Agrees(filter, cache[filter].pages)
        BY <2>2, <2>3 DEF HistoryInv, ListInv
    <2>5. PICK other : other = Patched(filter, e).pages
        OBVIOUS
    <2>6. Agrees(filter, other)'
        BY <1>1, <1>3, <2>3, <2>4, <2>5, PatchAgrees
    <2>7. filter' = filter /\ cache'[filter].pages = other
        BY <1>1, <1>3, <2>5
    <2>. QED
        BY <2>6, <2>7
<1>. QED
    BY <1>4, <1>5, <1>6, <1>7, <1>8 DEF HistoryInv

\* An operation starts or ends.
LEMMA ChangeKeeps ==
    ASSUME HistoryConstants, TypeOK, HistoryInv, NEW p \in Ops, Change(p)
    PROVE  HistoryInv'
<1>. DEFINE e == [id |-> p, status |-> rows'[p]]
<1>1. /\ rows' = [rows EXCEPT ![p] = IF @ = "none" THEN "live" ELSE "ended"]
      /\ hub' = Append(hub, e) /\ UNCHANGED view
      /\ \A q \in Ops : q < p => rows[q] # "none"
    BY DEF Change
<1>2. rows \in [Ops -> {"none", "live", "ended"}] /\ hub \in Seq(Row)
    BY DEF TypeOK
<1>3. rows'[p] \in {"live", "ended"} /\ \A q \in Ops \ {p} : rows'[q] = rows[q]
    BY <1>1, <1>2
<1>4. e \in Row /\ e.id = p /\ e.status = rows'[p]
    BY <1>3 DEF Row
<1>. HIDE DEF e
<1>5. /\ DOMAIN hub = 1..Len(hub) /\ Len(hub) \in Nat
      /\ DOMAIN hub' = 1..(Len(hub) + 1) /\ hub'[Len(hub) + 1] = e
      /\ \A k \in DOMAIN hub : k \in DOMAIN hub' /\ hub'[k] = hub[k] /\ hub[k].id \in Ops
                              /\ k < Len(hub) + 1
      /\ \A k \in DOMAIN hub' : k \in DOMAIN hub \/ k = Len(hub) + 1
    <2>1. DOMAIN hub = 1..Len(hub) /\ Len(hub) \in Nat /\ \A k \in DOMAIN hub : hub[k] \in Row
        BY <1>2
    <2>2. DOMAIN hub' = 1..(Len(hub) + 1) /\ hub'[Len(hub) + 1] = e
        BY <1>1, <1>2, <1>4
    <2>3. \A k \in DOMAIN hub : hub'[k] = hub[k]
        BY <1>1, <1>2, <1>4
    <2>4. \A r \in Row : r.id \in Ops
        BY DEF Row
    <2>. QED
        BY <2>1, <2>2, <2>3, <2>4
<1>6. TableInv'
    BY <1>1, <1>3 DEF HistoryInv, TableInv
<1>7. HubInv'
    <2>. SUFFICES ASSUME NEW k \in DOMAIN hub', rows'[hub'[k].id] # hub'[k].status
                  PROVE  \E m \in DOMAIN hub' : k < m /\ hub'[m].id = hub'[k].id
        BY DEF HubInv
    <2>1. k \in DOMAIN hub /\ hub'[k] = hub[k]
        BY <1>4, <1>5
    <2>2. CASE hub[k].id = p
        BY <1>4, <1>5, <2>1, <2>2
    <2>3. CASE hub[k].id # p
        <3>1. PICK m \in DOMAIN hub : k < m /\ hub[m].id = hub[k].id
            BY <1>3, <1>5, <2>1, <2>3 DEF HistoryInv, HubInv
        <3>. QED
            BY <1>5, <2>1, <3>1
    <2>. QED
        BY <2>2, <2>3
<1>8. Coming(p)' /\ \A q : Coming(q) => Coming(q)'
    BY <1>4, <1>5 DEF Coming
<1>9. ASSUME NEW f, NEW pages \in Pages, Agrees(f, pages)
      PROVE  Agrees(f, pages)'
    <2>1. \A i \in DOMAIN pages : \A j \in DOMAIN pages[i] : pages[i][j].id \in Ops
        BY RowTypes
    <2>2. \A i \in DOMAIN pages : \A j \in DOMAIN pages[i] :
            \/ Coming(pages[i][j].id)'
            \/ pages[i][j].status = rows'[pages[i][j].id] /\ Matches(f, pages[i][j].status)
        BY <1>3, <1>8, <1>9, <2>1 DEF Agrees
    <2>3. \A q \in Ops : (rows'[q] # "none" /\ Matches(f, rows'[q])) =>
            \/ Lists(pages, q) \/ Coming(q)'
            \/ HasNext(pages) /\ (pages = <<>> \/ q < Last(Last(pages)).id)
        BY <1>3, <1>8, <1>9 DEF Agrees
    <2>. QED
        BY <2>2, <2>3 DEF Agrees, Matches, Lists, HasNext
<1>10. \A f, pages : Fit(f, pages) => Fit(f, pages)'
    BY <1>3 DEF Fit, Lists
<1>11. filter \in Filters /\ \A f \in Filters : cache[f].pages \in Pages /\ get[f].got \in Pages
    BY DEF TypeOK
<1>12. UNCHANGED <<filter, cache, get, reason>>
    BY <1>1 DEF view
<1>13. ASSUME NEW f \in Filters
       PROVE  /\ Fit(f, cache[f].pages)' /\ Fit(f, get[f].got)' /\ FetchInv(f)'
    <2>1. Fit(f, cache[f].pages)' /\ Fit(f, get[f].got)'
        BY <1>10, <1>12 DEF HistoryInv
    <2>2. FetchInv(f)'
        BY <1>9, <1>11, <1>12 DEF HistoryInv, FetchInv
    <2>. QED
        BY <2>1, <2>2
<1>14. ListInv'
    BY <1>9, <1>11, <1>12 DEF HistoryInv, ListInv
<1>. QED
    BY <1>6, <1>7, <1>13, <1>14 DEF HistoryInv

\* The stream breaks: nothing is claimed any more.
LEMMA LossKeeps ==
    ASSUME HistoryConstants, TypeOK, HistoryInv, EventsLost
    PROVE  HistoryInv'
<1>1. hub' = <<>> /\ UNCHANGED <<rows, filter, cache>> /\ filter \in Filters
    BY DEF EventsLost, TypeOK
<1>2. ASSUME NEW f \in Filters
      PROVE  /\ get'[f].kind = get[f].kind /\ get'[f].got = get[f].got
             /\ get'[f].kind # "idle" => get'[f].late # {}
             /\ reason'[f] # {}
    <2>1. get'[f] = [get[f] EXCEPT !.late = @ \cup {r \in {"lost"} : get[f].kind # "idle"}]
        BY DEF EventsLost
    <2>2. get[f] \in Fetch
        BY DEF TypeOK, Fetch
    <2>3. reason'[f] # {}
        BY DEF EventsLost
    <2>. QED
        BY <2>1, <2>2, <2>3 DEF Fetch
<1>3. TableInv' /\ HubInv'
    BY <1>1 DEF HistoryInv, TableInv, HubInv
<1>4. ASSUME NEW f \in Filters
      PROVE  Fit(f, cache[f].pages)' /\ Fit(f, get[f].got)'
    BY <1>1, <1>2 DEF HistoryInv, Fit
<1>5. \A f \in Filters : FetchInv(f)'
    BY <1>2 DEF FetchInv
<1>6. ListInv'
    BY <1>1, <1>2 DEF ListInv
<1>. QED
    BY <1>3, <1>4, <1>5, <1>6 DEF HistoryInv

\* The invariant holds in every state.
THEOREM Inductive ==
    ASSUME HistoryConstants
    PROVE  Spec => [](TypeOK /\ HistoryInv)
<1>1. ASSUME Init
      PROVE  TypeOK /\ HistoryInv
    <2>1. <<>> \in Pages /\ <<>> \in Seq(Row) /\ Len(<<>>) = 0
        BY DEF Pages
    <2>2. rows \in [Ops -> {"none", "live", "ended"}] /\ TableInv
        BY <1>1 DEF Init, HistoryConstants, TableInv
    <2>3. [Nothing EXCEPT !.kind = "all", !.want = 1] \in Fetch /\ Nothing \in Fetch
        BY <2>1 DEF Nothing, Fetch
    <2>4. \A f \in Filters : /\ cache[f].loaded = FALSE /\ cache[f].pages = <<>>
                             /\ get[f].got = <<>> /\ Len(get[f].got) <= get[f].want
                             /\ get[f].kind = "idle" <=> get[f].want = 0
        BY <1>1, <2>1 DEF Init, Nothing
    <2>5. cache \in [Filters -> [loaded : BOOLEAN, pages : Pages]] /\ get \in [Filters -> Fetch]
        BY <1>1, <2>1, <2>3 DEF Init
    <2>6. /\ hub = <<>> /\ filter \in Filters /\ reason \in [Filters -> SUBSET Reason]
          /\ clicks \in 0..MaxClicks /\ events \in 0..MaxEvents
        BY <1>1 DEF Init, HistoryConstants
    <2>7. TypeOK
        BY <2>1, <2>2, <2>4, <2>5, <2>6 DEF TypeOK, Fetch
    <2>8. HubInv
        BY <2>6 DEF HubInv
    <2>9. \A f \in Filters : /\ Fit(f, cache[f].pages) /\ Fit(f, get[f].got)
                             /\ FetchInv(f)
        BY <2>4, EmptyList DEF FetchInv
    <2>10. ListInv
        BY <2>4, <2>6 DEF ListInv
    <2>. QED
        BY <2>2, <2>7, <2>8, <2>9, <2>10 DEF HistoryInv
<1>2. ASSUME TypeOK, HistoryInv, [Next]_vars
      PROVE  (TypeOK /\ HistoryInv)'
    <2>1. ASSUME NEW f \in Filters, ChooseFilter(f) \/ AnswerPage(f) \/ Load(f) \/ Fail(f)
          PROVE  HistoryInv'
        BY <1>2, <2>1, FetchKeeps DEF ChooseFilter, AnswerPage, Load, Fail
    <2>2. ASSUME LoadMore
          PROVE  HistoryInv'
        BY <1>2, <2>2, FetchKeeps DEF LoadMore
    <2>3. ASSUME UNCHANGED vars
          PROVE  HistoryInv'
        BY <1>2, <2>3, AgreesStays DEF vars, view, HistoryInv, FetchInv, ListInv
    <2>. QED
        BY <1>2, <2>1, <2>2, <2>3, StepType, EventKeeps, ChangeKeeps, LossKeeps DEF Next
<1>. QED
    BY <1>1, <1>2, PTL DEF Spec

\* Tables, pages and fetches have their types: no list grows beyond what was wanted, and
\* one that has data has a page (useOperations.ts:60-84).
THEOREM TypeCorrect ==
    ASSUME HistoryConstants
    PROVE  Spec => []TypeOK
BY Inductive, PTL

\* No row of the list is between its row j of page i and row l of page k.
Adjacent(pages, i, j, k, l) ==
    \A m \in DOMAIN pages : \A q \in DOMAIN pages[m] :
        \/ m < i \/ (m = i /\ q < j) \/ (m = i /\ q = j)
        \/ k < m \/ (k = m /\ l < q) \/ (m = k /\ q = l)

\* Then no operation is between them either.
LEMMA Neighbours ==
    ASSUME HistoryConstants, NEW f, NEW pages \in Pages, Fit(f, pages),
           NEW i \in DOMAIN pages, NEW j \in DOMAIN pages[i],
           NEW k \in DOMAIN pages, NEW l \in DOMAIN pages[k],
           i < k \/ (i = k /\ j < l), Adjacent(pages, i, j, k, l)
    PROVE  /\ pages[k][l].id < pages[i][j].id
           /\ f = "all" => \A p \in Ops : ~(pages[k][l].id < p /\ p < pages[i][j].id)
<1>1. pages[k][l].id < pages[i][j].id
    BY DEF Fit
<1>2. ASSUME f = "all", NEW p \in Ops, pages[k][l].id < p, p < pages[i][j].id
      PROVE  FALSE
    <2>1. /\ pages[k][l].id \in Ops /\ pages[i][j].id \in Ops
          /\ Lists(pages, pages[k][l].id) /\ Lists(pages, pages[i][j].id)
        BY RowTypes DEF Lists
    <2>2. Lists(pages, p)
        BY <1>2, <2>1 DEF Fit
    <2>3. PICK m \in DOMAIN pages : \E q \in DOMAIN pages[m] : pages[m][q].id = p
        BY <2>2 DEF Lists
    <2>4. PICK q \in DOMAIN pages[m] : pages[m][q].id = p
        BY <2>3
    <2>5. /\ p \in Nat /\ pages[k][l].id \in Nat /\ pages[i][j].id \in Nat
        BY <2>1 DEF HistoryConstants
    <2>6. CASE m < i \/ (m = i /\ q < j)
        <3>1. pages[i][j].id < pages[m][q].id
            BY <2>6 DEF Fit
        <3>. QED
            BY <1>2, <2>4, <2>5, <3>1
    <2>7. CASE k < m \/ (k = m /\ l < q)
        <3>1. pages[m][q].id < pages[k][l].id
            BY <2>7 DEF Fit
        <3>. QED
            BY <1>2, <2>4, <2>5, <3>1
    <2>8. CASE (m = i /\ q = j) \/ (m = k /\ q = l)
        BY <1>2, <2>4, <2>5, <2>8
    <2>. QED
        BY <2>6, <2>7, <2>8 DEF Adjacent
<1>. QED
    BY <1>1, <1>2

\* The pages of every list fit together (useOperations.ts:71-82).
THEOREM NoHoles ==
    ASSUME HistoryConstants
    PROVE  Spec => []HistoryHasNoHoles
<1>1. ASSUME TypeOK, HistoryInv
      PROVE  HistoryHasNoHoles
    <2>. SUFFICES ASSUME NEW f \in Filters, NEW pages, pages = cache[f].pages
                  PROVE  /\ \A i \in 1..Len(pages) : \A j \in 1..(Len(pages[i]) - 1) :
                            /\ pages[i][j + 1].id < pages[i][j].id
                            /\ f = "all" => \A p \in Ops :
                                ~(pages[i][j + 1].id < p /\ p < pages[i][j].id)
                         /\ \A i \in 1..(Len(pages) - 1) :
                            /\ Len(pages[i]) = PageSize
                            /\ pages[i + 1] # <<>> =>
                                /\ Head(pages[i + 1]).id < Last(pages[i]).id
                                /\ f = "all" => \A p \in Ops :
                                    ~(Head(pages[i + 1]).id < p /\ p < Last(pages[i]).id)
        BY DEF HistoryHasNoHoles
    <2>1. pages \in Pages /\ Fit(f, pages)
        BY <1>1 DEF TypeOK, HistoryInv
    <2>2. /\ DOMAIN pages = 1..Len(pages) /\ Len(pages) \in Nat
          /\ \A i \in DOMAIN pages :
                DOMAIN pages[i] = 1..Len(pages[i]) /\ Len(pages[i]) \in Nat
        BY <2>1, RowTypes
    <2>3. ASSUME NEW i \in 1..Len(pages), NEW j \in 1..(Len(pages[i]) - 1)
          PROVE  /\ pages[i][j + 1].id < pages[i][j].id
                 /\ f = "all" => \A p \in Ops :
                        ~(pages[i][j + 1].id < p /\ p < pages[i][j].id)
        <3>1. j \in DOMAIN pages[i] /\ j + 1 \in DOMAIN pages[i] /\ j < j + 1
            BY <2>2
        <3>2. Adjacent(pages, i, j, i, j + 1)
            BY <2>2 DEF Adjacent
        <3>. QED
            BY <2>1, <2>2, <3>1, <3>2, Neighbours
    <2>4. ASSUME NEW i \in 1..(Len(pages) - 1), pages[i + 1] # <<>>
          PROVE  /\ Head(pages[i + 1]).id < Last(pages[i]).id
                 /\ f = "all" => \A p \in Ops :
                        ~(Head(pages[i + 1]).id < p /\ p < Last(pages[i]).id)
        <3>1. i \in DOMAIN pages /\ i + 1 \in DOMAIN pages /\ i < i + 1 /\ i \in Nat
            BY <2>2
        <3>2. Len(pages[i]) \in DOMAIN pages[i]
            BY <2>1, <2>2, <3>1 DEF Fit, HistoryConstants
        <3>3. pages[i + 1] \in Seq(Row)
            BY <2>1, <3>1, RowTypes
        <3>4. 1 \in DOMAIN pages[i + 1] /\ Head(pages[i + 1]) = pages[i + 1][1]
            BY <2>4, <3>3
        <3>5. Last(pages[i]) = pages[i][Len(pages[i])]
            BY DEF Last
        <3>6. Adjacent(pages, i, Len(pages[i]), i + 1, 1)
            BY <2>2, <3>1 DEF Adjacent
        <3>7. /\ pages[i + 1][1].id < pages[i][Len(pages[i])].id
              /\ f = "all" => \A p \in Ops :
                    ~(pages[i + 1][1].id < p /\ p < pages[i][Len(pages[i])].id)
            BY <2>1, <3>1, <3>2, <3>4, <3>6, Neighbours
        <3>. QED
            BY <3>4, <3>5, <3>7
    <2>5. \A i \in 1..(Len(pages) - 1) : Len(pages[i]) = PageSize
        BY <2>1, <2>2 DEF Fit
    <2>. QED
        BY <2>3, <2>4, <2>5
<1>. QED
    BY <1>1, Inductive, PTL

\* Once everything has arrived the list on the screen is what the table has, as far down
\* as it goes, or has a reason not to be (useOperations.ts:153-179).
THEOREM WrongForAReason ==
    ASSUME HistoryConstants
    PROVE  Spec => []HistoryIsWrongForAReason
<1>1. ASSUME TypeOK, HistoryInv
      PROVE  HistoryIsWrongForAReason
    <2>. SUFFICES ASSUME hub = <<>>, get[filter].kind = "idle", cache[filter].loaded,
                         reason[filter] = {}, NEW pages, pages = cache[filter].pages
                  PROVE  Shown(filter) =
                          {[id |-> p, status |-> rows[p]] : p \in
                            {q \in Ops : /\ rows[q] # "none" /\ Matches(filter, rows[q])
                                        /\ ~(HasNext(pages) /\ q < Last(Last(pages)).id)}}
        BY DEF HistoryIsWrongForAReason
    <2>1. /\ filter \in Filters /\ pages \in Pages /\ pages # <<>>
          /\ Fit(filter, pages) /\ Agrees(filter, pages)
        BY <1>1 DEF TypeOK, HistoryInv, ListInv
    <2>2. \A p : ~Coming(p)
        BY DEF Coming
    <2>3. ASSUME NEW i \in DOMAIN pages, NEW j \in DOMAIN pages[i]
          PROVE  /\ pages[i][j].id \in Ops /\ rows[pages[i][j].id] # "none"
                 /\ pages[i][j] = [id |-> pages[i][j].id, status |-> rows[pages[i][j].id]]
                 /\ Matches(filter, rows[pages[i][j].id])
                 /\ ~(HasNext(pages) /\ pages[i][j].id < Last(Last(pages)).id)
        <3>1. /\ pages[i][j] \in Row /\ pages[i][j].id \in Ops
              /\ pages[i][j].status \in {"live", "ended"}
            BY <2>1, RowTypes
        <3>2. /\ pages[i][j].status = rows[pages[i][j].id]
              /\ Matches(filter, pages[i][j].status)
            BY <2>1, <2>2 DEF Agrees
        <3>3. Lists(pages, pages[i][j].id)
            BY DEF Lists
        <3>4. ASSUME HasNext(pages)
              PROVE  ~(pages[i][j].id < Last(Last(pages)).id)
            <4>1. /\ Cursor(pages) <= pages[i][j].id /\ Last(Last(pages)).id = Cursor(pages)
                  /\ Cursor(pages) \in Ops
                BY <2>1, <3>1, <3>3, <3>4, CursorIsLast, CursorIsSmallest
            <4>2. Cursor(pages) \in Nat /\ pages[i][j].id \in Nat
                BY <3>1, <4>1 DEF HistoryConstants
            <4>. QED
                BY <4>1, <4>2
        <3>. QED
            BY <3>1, <3>2, <3>4 DEF Row
    <2>4. ASSUME NEW q \in Ops, rows[q] # "none", Matches(filter, rows[q]),
                 ~(HasNext(pages) /\ q < Last(Last(pages)).id)
          PROVE  \E i \in DOMAIN pages : \E j \in DOMAIN pages[i] :
                    pages[i][j] = [id |-> q, status |-> rows[q]]
        <3>1. Lists(pages, q)
            BY <2>1, <2>2, <2>4 DEF Agrees
        <3>2. PICK i \in DOMAIN pages : \E j \in DOMAIN pages[i] : pages[i][j].id = q
            BY <3>1 DEF Lists
        <3>3. PICK j \in DOMAIN pages[i] : pages[i][j].id = q
            BY <3>2
        <3>. QED
            BY <2>3, <3>3
    <2>5. Shown(filter) =
            UNION {{pages[i][j] : j \in DOMAIN pages[i]} : i \in DOMAIN pages}
        BY DEF Shown
    <2>6. ASSUME NEW row
          PROVE  row \in Shown(filter) <=>
                    \E p \in Ops : /\ row = [id |-> p, status |-> rows[p]]
                                  /\ rows[p] # "none" /\ Matches(filter, rows[p])
                                  /\ ~(HasNext(pages) /\ p < Last(Last(pages)).id)
        <3>1. row \in Shown(filter) <=>
                \E i \in DOMAIN pages : \E j \in DOMAIN pages[i] : row = pages[i][j]
            BY <2>5
        <3>2. ASSUME NEW i \in DOMAIN pages, NEW j \in DOMAIN pages[i], row = pages[i][j]
              PROVE  \E p \in Ops : /\ row = [id |-> p, status |-> rows[p]]
                                   /\ rows[p] # "none" /\ Matches(filter, rows[p])
                                   /\ ~(HasNext(pages) /\ p < Last(Last(pages)).id)
            <4>1. PICK p \in Ops : p = pages[i][j].id
                BY <2>3
            <4>. QED
                BY <2>3, <3>2, <4>1
        <3>3. ASSUME NEW p \in Ops, row = [id |-> p, status |-> rows[p]],
                     rows[p] # "none", Matches(filter, rows[p]),
                     ~(HasNext(pages) /\ p < Last(Last(pages)).id)
              PROVE  \E i \in DOMAIN pages : \E j \in DOMAIN pages[i] : row = pages[i][j]
            BY <2>4, <3>3
        <3>. QED
            BY <3>1, <3>2, <3>3
    <2>. QED
        BY <2>6
<1>. QED
    BY <1>1, Inductive, PTL
=============================================================================
