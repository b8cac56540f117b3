---------------------------- MODULE CatalogProofs ----------------------------
(***************************************************************************)
(* Theorems about Catalog, for every number of readers, writers, hotels    *)
(* and rooms, with and without faults and administrators.                  *)
(***************************************************************************)
EXTENDS Catalog, FiniteSetTheorems, TLAPS

-----------------------------------------------------------------------------
\* What a query returns is a page of its key, or nothing.
LEMMA CurrentIsPage ==
  ASSUME row \in [Objects -> Contents \cup {None}], NEW k \in Keys
  PROVE  Current(k) \in Pages(k) \cup {None}
<1>1. CASE k \in Lists
  <2>1. Listed(k) \subseteq Objects
    BY DEF Listed, Objects
  <2> QED
    BY <1>1, <2>1 DEF Current, PageOf, Pages
<1>2. CASE k \notin Lists
  BY <1>2 DEF Current, PageOf, Pages, Keys
<1> QED
  BY <1>1, <1>2

\* Changing one row changes the row's own page and its list at most.
LEMMA ChangesTwoPages ==
  ASSUME row \in [Objects -> Contents \cup {None}], NEW o \in Objects, NEW c, NEW k \in Keys,
         k # o, k # ListOf(o)
  PROVE  PageOf([row EXCEPT ![o] = c], k) = Current(k)
<1>1. CASE k \in Lists
  <2>1. o \notin Listed(k)
    BY <1>1, CatalogAssumption DEF Listed, ListOf, Lists, Objects
  <2>2. Listed(k) \subseteq Objects
    BY DEF Listed, Objects
  <2> QED
    BY <1>1, <2>1, <2>2 DEF Current, PageOf
<1>2. CASE k \notin Lists
  BY <1>2 DEF Current, PageOf, Keys
<1> QED
  BY <1>1, <1>2

LEMMA PagesOfKey == \A k \in Keys : Pages(k) \subseteq AllPages
BY DEF AllPages

LEMMA ListOfIsKey ==
  ASSUME NEW o \in Objects
  PROVE  ListOf(o) \in Keys /\ o \in Keys
BY DEF ListOf, Keys, Lists

-----------------------------------------------------------------------------
LEMMA TypeInit == Init => TypeOK
BY DEF Init, TypeOK, AutoPcs, TxPcs

LEMMA TypeRead == TypeOK /\ ReadStep => TypeOK'
<1> SUFFICES ASSUME TypeOK, NEW r \in Readers,
                    \/ \E k \in Keys : Miss(r, k)
                    \/ \E h \in Hotels : OpenHotel(r, h)
                    \/ Query(r) \/ LookUpHotel(r) \/ Fill(r)
             PROVE  TypeOK'
  BY DEF ReadStep
<1> USE DEF TypeOK
<1>1. ASSUME NEW k \in Keys, Miss(r, k) PROVE TypeOK'
  BY <1>1 DEF Miss
<1>2. ASSUME NEW h \in Hotels, OpenHotel(r, h) PROVE TypeOK'
  <2>1. h \in Keys /\ Pages(h) = Contents
    BY CatalogAssumption DEF Keys, Objects, Pages
  <2>2. row[h] \in Pages(h)
    BY <1>2, <2>1 DEF OpenHotel, Objects
  <2> QED
    BY <1>2, <2>1, <2>2, PagesOfKey DEF OpenHotel
<1>3. CASE Query(r)
  <2>1. key[r] \in Keys
    BY <1>3 DEF Query
  <2>2. Current(key[r]) \in Pages(key[r]) \cup {None}
    BY <2>1, CurrentIsPage, PagesOfKey
  <2> QED
    BY <1>3, <2>1, <2>2, PagesOfKey DEF Query, Answer
<1>4. CASE LookUpHotel(r)
  BY <1>4 DEF LookUpHotel, Answer
<1>5. CASE Fill(r)
  <2>1. key[r] \in Keys /\ page[r] \in Pages(key[r])
    BY <1>5 DEF Fill
  <2> QED
    BY <1>5, <2>1 DEF Fill, Answer
<1> QED
  BY <1>1, <1>2, <1>3, <1>4, <1>5

LEMMA TypeWrite == TypeOK /\ WriteStep => TypeOK'
<1> SUFFICES ASSUME TypeOK, NEW w \in Writers,
                    \/ \E o \in Objects, c \in Contents : Create(w, o, c) \/ Update(w, o, c)
                    \/ \E rm \in Rooms : DeleteRoom(w, rm)
                    \/ \E h \in Hotels : DeleteHotel(w, h)
                    \/ \E h \in Hotels, c \in Contents : AdminHotel(w, h, c)
                    \/ Store(w) \/ DropDetail(w) \/ DropList(w) \/ Commit(w)
             PROVE  TypeOK'
  BY DEF WriteStep
<1> USE DEF TypeOK, readVars, AutoPcs, TxPcs
<1>1. ASSUME NEW o \in Objects, NEW c \in Contents, Create(w, o, c) \/ Update(w, o, c)
      PROVE  TypeOK'
  BY <1>1 DEF Create, Update, Begin
<1>2. ASSUME NEW rm \in Rooms, DeleteRoom(w, rm) PROVE TypeOK'
  BY <1>2 DEF DeleteRoom, Begin, Objects
<1>3. ASSUME NEW h \in Hotels, DeleteHotel(w, h) PROVE TypeOK'
  BY <1>3 DEF DeleteHotel, Begin, Objects
<1>4. ASSUME NEW h \in Hotels, NEW c \in Contents, AdminHotel(w, h, c) PROVE TypeOK'
  BY <1>4 DEF AdminHotel, Begin, Objects
<1>5. CASE Store(w)
  BY <1>5 DEF Store, Finish
<1>6. CASE DropDetail(w)
  BY <1>6, ListOfIsKey DEF DropDetail, Drop, Goto
<1>7. CASE DropList(w)
  BY <1>7, ListOfIsKey DEF DropList, Drop, Goto, Finish
<1>8. CASE Commit(w)
  <2>1. Cascade(obj[w]) \in [Objects -> Contents \cup {None}]
    BY DEF Cascade
  <2> QED
    BY <1>8, <2>1 DEF Commit, Finish, Outdated, Stored
<1> QED
  BY <1>1, <1>2, <1>3, <1>4, <1>5, <1>6, <1>7, <1>8

LEMMA TypeStep == TypeOK /\ [Next]_vars => TypeOK'
<1> SUFFICES ASSUME TypeOK, [Next]_vars PROVE TypeOK'
  OBVIOUS
<1>1. CASE ReadStep
  BY <1>1, TypeRead
<1>2. CASE WriteStep
  BY <1>2, TypeWrite
<1>3. ASSUME NEW rm \in Rooms, NEW c \in Contents \cup {None}, AdminRoom(rm, c) PROVE TypeOK'
  BY <1>3 DEF AdminRoom, TypeOK, Outdated, Stored, readVars, Objects
<1>4. ASSUME NEW k \in Keys, Expire(k) PROVE TypeOK'
  BY <1>4 DEF Expire, TypeOK, readVars
<1>5. CASE Crash
  BY <1>5 DEF Crash, TypeOK, Stored
<1>6. CASE UNCHANGED vars
  BY <1>6 DEF vars, readVars, TypeOK
<1> QED
  BY <1>1, <1>2, <1>3, <1>4, <1>5, <1>6 DEF Next

\* Every variable keeps its type: in particular a reader never holds, and Redis never
\* stores, anything but a page of the key it is for.
THEOREM TypeCorrect == Spec => []TypeOK
<1> QED
  BY TypeInit, TypeStep, PTL DEF Spec

-----------------------------------------------------------------------------
\* An insert drops its list but not its page, so nobody may have cached that page: a row
\* that is not stored yet is in no page, held or cached, and only its writer works on it.
Inserting(w, o) == wpc[w] = "inserting" /\ obj[w] = o
Newborn(o) == o \in unused \/ \E w \in Writers : Inserting(w, o)

NewbornUnseen ==
  \A o \in Objects : Newborn(o) =>
    /\ row[o] = None /\ cache[o] = None
    /\ \A r \in Readers : rpc[r] \in {"loaded", "filling"} => key[r] # o
BusyAllocated == \A w \in Writers : wpc[w] # "idle" => obj[w] \notin unused
InsertAlone ==
  \A v, w \in Writers : v # w /\ wpc[v] = "inserting" /\ wpc[w] # "idle" => obj[v] # obj[w]

CacheInv == TypeOK /\ NewbornUnseen /\ BusyAllocated /\ InsertAlone /\ StaleHasCause

LEMMA CacheInit == Init => CacheInv
<1> SUFFICES ASSUME Init PROVE CacheInv
  OBVIOUS
<1>1. TypeOK
  BY TypeInit
<1>2. NewbornUnseen
  BY DEF Init, NewbornUnseen, Newborn, Inserting, Keys
<1>3. StaleHasCause
  BY DEF Init, StaleHasCause, Stale, Stored
<1> QED
  BY <1>1, <1>2, <1>3 DEF Init, CacheInv, BusyAllocated, InsertAlone

\* A step that leaves the tables, the cache and the writers alone leaves every reason.
LEMMA CauseStays ==
  ASSUME StaleHasCause, UNCHANGED <<row, cache, exposed>>,
         \A k \in Keys : DropDue(k) => DropDue(k)'
  PROVE  StaleHasCause'
BY DEF StaleHasCause, Stale, Stored, Current, PageOf

LEMMA CacheRead == CacheInv /\ ReadStep => CacheInv'
<1> SUFFICES ASSUME CacheInv, NEW r \in Readers,
                    \/ \E k \in Keys : Miss(r, k)
                    \/ \E h \in Hotels : OpenHotel(r, h)
                    \/ Query(r) \/ LookUpHotel(r) \/ Fill(r)
             PROVE  CacheInv'
  BY DEF ReadStep
<1>1. TypeOK'
  BY TypeRead DEF ReadStep, CacheInv
<1>2. UNCHANGED <<row, unused, wpc, obj, new>>
  BY DEF Miss, OpenHotel, Query, LookUpHotel, Fill
<1>3. BusyAllocated' /\ InsertAlone'
  BY <1>2 DEF CacheInv, BusyAllocated, InsertAlone
<1>4. \A o \in Objects : Newborn(o)' = Newborn(o)
  BY <1>2 DEF Newborn, Inserting
<1>5. \A k \in Keys : DropDue(k) => DropDue(k)'
  BY <1>2 DEF DropDue
<1>6. ASSUME NEW k \in Keys, Miss(r, k) PROVE NewbornUnseen' /\ StaleHasCause'
  <2>1. StaleHasCause'
    BY <1>5, <1>6, CauseStays DEF Miss, CacheInv
  <2> QED
    BY <1>4, <1>6, <2>1 DEF Miss, CacheInv, TypeOK, NewbornUnseen
<1>7. ASSUME NEW h \in Hotels, OpenHotel(r, h) PROVE NewbornUnseen' /\ StaleHasCause'
  <2>1. StaleHasCause'
    BY <1>5, <1>7, CauseStays DEF OpenHotel, CacheInv
  <2> QED
    BY <1>4, <1>7, <2>1 DEF OpenHotel, CacheInv, TypeOK, NewbornUnseen
<1>8. ASSUME Query(r) PROVE NewbornUnseen' /\ StaleHasCause'
  <2>1. StaleHasCause'
    BY <1>5, <1>8, CauseStays DEF Query, CacheInv
  <2>2. \A o \in Objects : Newborn(o) => Current(o) = None
    BY CatalogAssumption DEF CacheInv, NewbornUnseen, Current, PageOf
  <2> QED
    BY <1>4, <1>8, <2>1, <2>2, CatalogAssumption
       DEF Query, Answer, CacheInv, TypeOK, NewbornUnseen
<1>9. ASSUME LookUpHotel(r) PROVE NewbornUnseen' /\ StaleHasCause'
  <2>1. StaleHasCause'
    BY <1>5, <1>9, CauseStays DEF LookUpHotel, CacheInv
  <2> QED
    BY <1>4, <1>9, <2>1 DEF LookUpHotel, Answer, CacheInv, TypeOK, NewbornUnseen
<1>10. ASSUME Fill(r) PROVE NewbornUnseen' /\ StaleHasCause'
  <2>1. NewbornUnseen'
    BY <1>4, <1>10 DEF Fill, Answer, CacheInv, TypeOK, NewbornUnseen, Keys
  <2>2. StaleHasCause'
    <3>1. \A k \in Keys : Current(k)' = Current(k)
      BY <1>2 DEF Current, PageOf
    <3> QED
      BY <1>5, <1>10, <3>1 DEF Fill, CacheInv, TypeOK, StaleHasCause, Stale, Stored
  <2> QED
    BY <2>1, <2>2
<1> QED
  BY <1>1, <1>3, <1>6, <1>7, <1>8, <1>9, <1>10 DEF CacheInv

\* A writer that sets out.
LEMMA CacheBegin ==
  ASSUME CacheInv, TypeOK', NEW w \in Writers, NEW o \in Objects, NEW c, NEW label,
         label \in {"inserting", "saving", "txDetail"}, Begin(w, label, o, c),
         \/ o \in unused /\ unused' = unused \ {o}
         \/ row[o] # None /\ label # "inserting" /\ unused' = unused
         \/ row[o] # None /\ label # "inserting" /\ unused' = unused \ {o}
  PROVE  CacheInv'
<1> USE DEF Begin, CacheInv, TypeOK
<1>1. \A p \in Objects : Newborn(p)' => Newborn(p)
  BY DEF Newborn, Inserting
<1>2. NewbornUnseen'
  BY <1>1 DEF NewbornUnseen, readVars
<1>3. BusyAllocated'
  <2>1. o \notin unused'
    BY DEF NewbornUnseen, Newborn
  <2> QED
    BY <2>1 DEF BusyAllocated
<1>4. InsertAlone'
  <2>1. ASSUME NEW v \in Writers, v # w, wpc[v] # "idle", label = "inserting" PROVE obj[v] # o
    BY <2>1 DEF BusyAllocated
  <2>2. ASSUME NEW v \in Writers, v # w, wpc[v] = "inserting" PROVE obj[v] # o
    <3>1. Newborn(obj[v]) /\ obj[v] \in Objects
      BY <2>2 DEF Newborn, Inserting
    <3>2. row[obj[v]] = None /\ obj[v] \notin unused
      BY <2>2, <3>1 DEF NewbornUnseen, BusyAllocated
    <3> QED
      BY <3>2
  <2> QED
    BY <2>1, <2>2 DEF InsertAlone
<1>5. StaleHasCause'
  <2>1. \A k \in Keys : DropDue(k) => DropDue(k)'
    BY DEF DropDue
  <2> QED
    BY <2>1, CauseStays
<1> QED
  BY <1>2, <1>3, <1>4, <1>5
\* Writers that finish or move on, and never to "inserting", keep the new rows theirs.
LEMMA WritersMoveOn ==
  ASSUME CacheInv, NEW w \in Writers, UNCHANGED unused,
         \/ Finish(w)
         \/ /\ wpc[w] # "idle" /\ obj' = obj
            /\ \E label \in {"dropDetail", "dropList", "txList", "committing"} :
                 wpc' = [wpc EXCEPT ![w] = label]
  PROVE  /\ BusyAllocated' /\ InsertAlone'
         /\ \A p \in Objects : Newborn(p)' => Newborn(p)
         /\ wpc[w] # "idle" => \A p \in Objects : Newborn(p)' => p # obj[w]
<1> USE DEF CacheInv, TypeOK
<1>1. \A v \in Writers : v # w => wpc'[v] = wpc[v] /\ obj'[v] = obj[v]
  BY DEF Finish
<1>2. wpc'[w] # "inserting" /\ (wpc'[w] # "idle" => wpc[w] # "idle" /\ obj'[w] = obj[w])
  BY DEF Finish
<1>3. BusyAllocated'
  BY <1>1, <1>2 DEF BusyAllocated
<1>4. InsertAlone'
  BY <1>1, <1>2 DEF InsertAlone
<1>5. ASSUME NEW p \in Objects, Newborn(p)'
      PROVE  Newborn(p) /\ (wpc[w] # "idle" => p # obj[w])
  <2>1. CASE p \in unused
    BY <2>1 DEF Newborn, BusyAllocated
  <2>2. CASE p \notin unused
    <3>1. PICK v \in Writers : Inserting(v, p)'
      BY <1>5, <2>2 DEF Newborn
    <3>2. v # w /\ wpc[v] = "inserting" /\ obj[v] = p
      BY <1>1, <1>2, <3>1 DEF Inserting
    <3> QED
      BY <3>2 DEF Newborn, Inserting, InsertAlone
  <2> QED
    BY <2>1, <2>2
<1> QED
  BY <1>3, <1>4, <1>5

LEMMA CacheStore == ASSUME CacheInv, NEW w \in Writers, Store(w) PROVE CacheInv'
<1> DEFINE o == obj[w]
<1> USE DEF CacheInv
<1>1. TypeOK'
  BY TypeWrite DEF WriteStep
<1>2. o \in Objects /\ o \in Keys /\ wpc[w] \in {"inserting", "saving"}
  BY ListOfIsKey DEF Store, TypeOK
<1>3. UNCHANGED <<unused, cache, rpc, key, exposed>>
  BY DEF Store, readVars
<1>4. CASE wpc'[w] # "idle"
  <2>1. /\ row' = [row EXCEPT ![o] = new[w]] /\ obj' = obj
        /\ wpc' = [wpc EXCEPT ![w] =
             IF wpc[w] = "inserting" /\ o \in Rooms THEN "dropList" ELSE "dropDetail"]
    BY <1>4 DEF Store, Finish, TypeOK
  <2>2. /\ BusyAllocated' /\ InsertAlone'
        /\ \A p \in Objects : Newborn(p)' => Newborn(p) /\ p # o
    BY <1>2, <1>3, <2>1, WritersMoveOn
  <2>3. NewbornUnseen'
    BY <1>3, <2>1, <2>2 DEF NewbornUnseen, TypeOK
  <2>4. ASSUME NEW k \in Keys, Stale(k)' PROVE DropDue(k)' \/ k \in exposed'
    <3>1. CASE k = o
      <4>1. cache[o] # None
        BY <1>3, <2>4, <3>1 DEF Stale, Stored
      <4>2. wpc[w] # "inserting"
        BY <1>2, <4>1 DEF NewbornUnseen, Newborn, Inserting
      <4>3. wpc'[w] = "dropDetail"
        BY <2>1, <4>2 DEF TypeOK
      <4> QED
        BY <2>1, <3>1, <4>3 DEF DropDue
    <3>2. CASE k = ListOf(o)
      <4>1. wpc'[w] \in {"dropDetail", "dropList"}
        BY <2>1 DEF TypeOK
      <4> QED
        BY <2>1, <3>2, <4>1 DEF DropDue
    <3>3. CASE k # o /\ k # ListOf(o)
      <4>1. Current(k)' = Current(k)
        <5>1. PageOf([row EXCEPT ![o] = new[w]], k) = Current(k)
          BY <1>2, <3>3, ChangesTwoPages DEF TypeOK
        <5> QED
          BY <2>1, <5>1 DEF Current, PageOf
      <4>2. DropDue(k) \/ k \in exposed
        BY <1>3, <2>4, <4>1 DEF StaleHasCause, Stale, Stored
      <4>3. DropDue(k) => DropDue(k)'
        BY <1>2, <2>1 DEF DropDue, TypeOK
      <4> QED
        BY <1>3, <4>2, <4>3
    <3> QED
      BY <3>1, <3>2, <3>3
  <2> QED
    BY <1>1, <2>2, <2>3, <2>4 DEF StaleHasCause
<1>5. CASE wpc'[w] = "idle"
  <2>1. Finish(w) /\ row' = row
    BY <1>5 DEF Store, TypeOK
  <2>2. /\ BusyAllocated' /\ InsertAlone'
        /\ \A p \in Objects : Newborn(p)' => Newborn(p)
    BY <1>3, <2>1, WritersMoveOn
  <2>3. NewbornUnseen'
    BY <1>3, <2>1, <2>2 DEF NewbornUnseen
  <2>4. \A k \in Keys : DropDue(k) => DropDue(k)'
    BY <1>2, <2>1 DEF DropDue, Finish, TypeOK
  <2>5. StaleHasCause'
    BY <1>3, <2>1, <2>4, CauseStays
  <2> QED
    BY <1>1, <2>2, <2>3, <2>5
<1> QED
  BY <1>4, <1>5

LEMMA CacheDrop ==
  ASSUME CacheInv, NEW w \in Writers, DropDetail(w) \/ DropList(w)
  PROVE  CacheInv'
<1> USE DEF CacheInv
<1>1. TypeOK'
  BY TypeWrite DEF WriteStep
<1>2. wpc[w] # "idle" /\ obj[w] \in Objects
  BY DEF DropDetail, DropList, TypeOK
<1>3. UNCHANGED <<row, unused, rpc, key>>
  BY DEF DropDetail, DropList, readVars
<1> DEFINE k0 == IF wpc[w] \in {"dropDetail", "txDetail"} THEN obj[w] ELSE ListOf(obj[w])
<1>4. k0 \in Keys /\ Drop(k0)
  BY <1>2, ListOfIsKey DEF DropDetail, DropList
<1>5. \A k \in Keys : cache'[k] \in {cache[k], None}
  BY <1>4 DEF Drop, TypeOK
<1>6. \/ Finish(w)
      \/ /\ wpc[w] # "idle" /\ obj' = obj
         /\ \E label \in {"dropDetail", "dropList", "txList", "committing"} :
              wpc' = [wpc EXCEPT ![w] = label]
  BY <1>2 DEF DropDetail, DropList, Goto
<1>7. /\ BusyAllocated' /\ InsertAlone'
      /\ \A p \in Objects : Newborn(p)' => Newborn(p)
  BY <1>3, <1>6, WritersMoveOn
<1>8. NewbornUnseen'
  BY <1>3, <1>5, <1>7 DEF NewbornUnseen, Keys
<1>9. ASSUME NEW k \in Keys, Stale(k)' PROVE DropDue(k)' \/ k \in exposed'
  <2>1. Current(k)' = Current(k)
    BY <1>3 DEF Current, PageOf
  <2>2. Stale(k)
    BY <1>5, <1>9, <2>1 DEF Stale, Stored
  <2>3. CASE k = k0
    BY <1>4, <1>9, <2>2, <2>3 DEF Drop, Stale, Stored, TypeOK
  <2>4. CASE k # k0
    <3>1. k \in exposed => k \in exposed'
      BY <1>4, <2>4 DEF Drop
    <3>2. DropDue(k) => DropDue(k)'
      BY <1>2, <2>4 DEF DropDue, DropDetail, DropList, Goto, Finish, TypeOK
    <3> QED
      BY <2>2, <3>1, <3>2 DEF StaleHasCause
  <2> QED
    BY <2>3, <2>4
<1> QED
  BY <1>1, <1>7, <1>8, <1>9 DEF StaleHasCause

\* A change of the tables that is followed by no drop exposes the pages it outdates.
LEMMA OutdatedExposed ==
  ASSUME CacheInv, NEW rows, row' = rows, exposed' = exposed \cup Outdated(rows),
         UNCHANGED cache, \A k \in Keys : DropDue(k) => DropDue(k)'
  PROVE  StaleHasCause'
<1> SUFFICES ASSUME NEW k \in Keys, Stale(k)' PROVE DropDue(k)' \/ k \in exposed'
  BY DEF StaleHasCause
<1>1. CASE PageOf(rows, k) # Current(k)
  BY <1>1 DEF Outdated, Stale, Stored
<1>2. CASE PageOf(rows, k) = Current(k)
  BY <1>2 DEF CacheInv, StaleHasCause, Stale, Stored, Current
<1> QED
  BY <1>1, <1>2

LEMMA CacheCommit == ASSUME CacheInv, NEW w \in Writers, Commit(w) PROVE CacheInv'
<1> DEFINE rows == IF new[w] = None THEN Cascade(obj[w]) ELSE [row EXCEPT ![obj[w]] = new[w]]
<1> USE DEF CacheInv
<1>1. TypeOK'
  BY TypeWrite DEF WriteStep
<1>2. /\ wpc[w] = "committing" /\ obj[w] \in Objects /\ Finish(w)
      /\ UNCHANGED <<unused, cache, rpc, key>>
  BY DEF Commit, TypeOK, readVars
<1>3. /\ BusyAllocated' /\ InsertAlone'
      /\ \A p \in Objects : Newborn(p)' => Newborn(p) /\ p # obj[w]
  BY <1>2, WritersMoveOn
<1>4. \A p \in Objects : row[p] = None /\ p # obj[w] => rows[p] = None
  BY DEF Cascade, TypeOK
<1>5. row' = row \/ row' = rows
  BY DEF Commit
<1>6. NewbornUnseen'
  BY <1>2, <1>3, <1>4, <1>5 DEF NewbornUnseen
<1>7. \A k \in Keys : DropDue(k) => DropDue(k)'
  BY <1>2 DEF DropDue, Finish, TypeOK
<1>8. StaleHasCause'
  <2>1. CASE row' = rows /\ exposed' = exposed \cup Outdated(rows)
    BY <1>2, <1>7, <2>1, OutdatedExposed
  <2>2. CASE UNCHANGED <<row, exposed>>
    BY <1>2, <1>7, <2>2, CauseStays
  <2> QED
    BY <2>1, <2>2 DEF Commit
<1> QED
  BY <1>1, <1>3, <1>6, <1>8

LEMMA CacheWrite == CacheInv /\ WriteStep => CacheInv'
<1> SUFFICES ASSUME CacheInv, WriteStep, NEW w \in Writers,
                    \/ \E o \in Objects, c \in Contents : Create(w, o, c) \/ Update(w, o, c)
                    \/ \E rm \in Rooms : DeleteRoom(w, rm)
                    \/ \E h \in Hotels : DeleteHotel(w, h)
                    \/ \E h \in Hotels, c \in Contents : AdminHotel(w, h, c)
                    \/ Store(w) \/ DropDetail(w) \/ DropList(w) \/ Commit(w)
             PROVE  CacheInv'
  BY DEF WriteStep
<1>1. TypeOK'
  BY TypeWrite DEF CacheInv
<1>2. ASSUME NEW o \in Objects, NEW c \in Contents, Create(w, o, c) \/ Update(w, o, c)
      PROVE  CacheInv'
  BY <1>1, <1>2, CacheBegin DEF Create, Update
<1>3. ASSUME NEW rm \in Rooms, DeleteRoom(w, rm) PROVE CacheInv'
  BY <1>1, <1>3, CacheBegin DEF DeleteRoom, Objects
<1>4. ASSUME NEW h \in Hotels, DeleteHotel(w, h) PROVE CacheInv'
  BY <1>1, <1>4, CacheBegin DEF DeleteHotel, Objects
<1>5. ASSUME NEW h \in Hotels, NEW c \in Contents, AdminHotel(w, h, c) PROVE CacheInv'
  BY <1>1, <1>5, CacheBegin DEF AdminHotel, Objects
<1> QED
  BY <1>2, <1>3, <1>4, <1>5, CacheStore, CacheDrop, CacheCommit

-----------------------------------------------------------------------------
LEMMA CacheAdminRoom ==
  ASSUME CacheInv, NEW rm \in Rooms, NEW c \in Contents \cup {None}, AdminRoom(rm, c)
  PROVE  CacheInv'
<1> USE DEF CacheInv
<1>1. TypeOK'
  BY TypeStep DEF Next
<1>2. /\ UNCHANGED <<cache, rpc, key, wpc, obj>>
      /\ row' = [row EXCEPT ![rm] = c] /\ unused' = unused \ {rm} /\ rm \in Objects
  BY DEF AdminRoom, readVars, Objects
<1>3. \A p \in Objects : Newborn(p)' => Newborn(p) /\ p # rm
  <2>1. ASSUME Newborn(rm)' PROVE FALSE
    <3>1. PICK v \in Writers : Inserting(v, rm)
      BY <1>2, <2>1 DEF Newborn, Inserting
    <3>2. rm \notin unused /\ row[rm] = None
      BY <1>2, <3>1 DEF BusyAllocated, NewbornUnseen, Newborn, Inserting
    <3> QED
      BY <3>2 DEF AdminRoom
  <2> QED
    BY <1>2, <2>1 DEF Newborn, Inserting
<1>4. NewbornUnseen'
  BY <1>2, <1>3 DEF NewbornUnseen, TypeOK
<1>5. BusyAllocated' /\ InsertAlone'
  BY <1>2 DEF BusyAllocated, InsertAlone
<1>6. \A k \in Keys : DropDue(k) => DropDue(k)'
  BY <1>2 DEF DropDue
<1>7. StaleHasCause'
  BY <1>2, <1>6, OutdatedExposed DEF AdminRoom
<1> QED
  BY <1>1, <1>4, <1>5, <1>7

LEMMA CacheExpire == ASSUME CacheInv, NEW k0 \in Keys, Expire(k0) PROVE CacheInv'
<1> USE DEF CacheInv
<1>1. TypeOK'
  BY TypeStep DEF Next
<1>2. /\ UNCHANGED <<row, unused, rpc, key, wpc, obj>>
      /\ cache' = [cache EXCEPT ![k0] = None] /\ exposed' = exposed \ {k0}
  BY DEF Expire, readVars
<1>3. NewbornUnseen' /\ BusyAllocated' /\ InsertAlone'
  BY <1>2 DEF NewbornUnseen, Newborn, Inserting, BusyAllocated, InsertAlone, TypeOK, Keys
<1>4. ASSUME NEW k \in Keys, Stale(k)' PROVE DropDue(k)' \/ k \in exposed'
  <2>1. Stale(k) /\ k # k0
    BY <1>2, <1>4 DEF Stale, Stored, Current, PageOf, TypeOK
  <2>2. DropDue(k) => DropDue(k)'
    BY <1>2 DEF DropDue
  <2> QED
    BY <1>2, <2>1, <2>2 DEF StaleHasCause
<1> QED
  BY <1>1, <1>3, <1>4 DEF StaleHasCause

LEMMA CacheCrash == CacheInv /\ Crash => CacheInv'
<1> SUFFICES ASSUME CacheInv, Crash PROVE CacheInv'
  OBVIOUS
<1> USE DEF CacheInv
<1>1. TypeOK'
  BY TypeStep DEF Next
<1>2. NewbornUnseen' /\ BusyAllocated' /\ InsertAlone'
  BY DEF Crash, NewbornUnseen, Newborn, Inserting, BusyAllocated, InsertAlone
<1>3. StaleHasCause'
  BY DEF Crash, StaleHasCause, Stale, Stored, Current, PageOf
<1> QED
  BY <1>1, <1>2, <1>3

LEMMA CacheStep == CacheInv /\ [Next]_vars => CacheInv'
<1> SUFFICES ASSUME CacheInv, [Next]_vars PROVE CacheInv'
  OBVIOUS
<1>1. CASE UNCHANGED vars
  <2>1. TypeOK'
    BY TypeStep DEF CacheInv
  <2>2. NewbornUnseen' /\ BusyAllocated' /\ InsertAlone'
    BY <1>1 DEF vars, readVars, CacheInv, NewbornUnseen, Newborn, Inserting, BusyAllocated,
                InsertAlone
  <2>3. StaleHasCause'
    BY <1>1 DEF vars, CacheInv, StaleHasCause, Stale, Stored, Current, PageOf, DropDue
  <2> QED
    BY <2>1, <2>2, <2>3 DEF CacheInv
<1> QED
  BY <1>1, CacheRead, CacheWrite, CacheAdminRoom, CacheExpire, CacheCrash DEF Next

\* For any number of threads, and whatever fails, a cached page is out of date only while a
\* request still has to drop it or through one of the holes StaleHasCause names.
THEOREM StalenessIsExplained == Spec => []StaleHasCause
<1>1. CacheInv => StaleHasCause
  BY DEF CacheInv
<1> QED
  BY CacheInit, CacheStep, <1>1, PTL DEF Spec

-----------------------------------------------------------------------------
\* A room is stored only with a hotel that is there, whatever a stale save stores again and
\* whichever transaction deletes the hotel.  A save of a hotel never stores "no row",
\* and transactions write hotels.
Housed == \A rm \in Rooms : row[rm] # None => row[HotelOf[row[rm]]] # None
HotelJobs ==
  \A w \in Writers :
    /\ wpc[w] \in {"inserting", "saving"} /\ obj[w] \in Hotels => new[w] # None
    /\ wpc[w] \in TxPcs => obj[w] \in Hotels

HousedInv == Housed /\ HotelJobs

LEMMA HousedStore == ASSUME TypeOK, HousedInv, NEW w \in Writers, Store(w) PROVE HousedInv'
<1> USE DEF TypeOK, HousedInv
<1>1. PICK o \in Objects : o = obj[w]
  BY DEF Store
<1>2. wpc[w] \in {"inserting", "saving"}
  BY DEF Store
<1>3. HotelJobs'
  BY DEF Store, Finish, HotelJobs, TxPcs
<1>4. CASE wpc'[w] # "idle"
  <2>1. row' = [row EXCEPT ![o] = new[w]] /\ HotelKnown(o, new[w])
    BY <1>1, <1>4 DEF Store, Finish
  <2>2. o \in Hotels => new[w] # None
    BY <1>1, <1>2 DEF HotelJobs
  <2> SUFFICES ASSUME NEW rm \in Rooms, row'[rm] # None PROVE row'[HotelOf[row'[rm]]] # None
    BY <1>3 DEF Housed
  <2>3. row'[rm] \in Contents /\ HotelOf[row'[rm]] \in Hotels /\ HotelOf[row'[rm]] \in Objects
    BY <2>1, CatalogAssumption DEF Objects
  <2>4. row[HotelOf[row'[rm]]] # None
    BY <2>1, <2>3 DEF HotelKnown, Housed, Objects
  <2> QED
    BY <2>1, <2>2, <2>3, <2>4, CatalogAssumption
<1>5. CASE wpc'[w] = "idle"
  BY <1>1, <1>3, <1>5 DEF Store, Housed
<1> QED
  BY <1>4, <1>5

LEMMA HousedCommit == ASSUME TypeOK, HousedInv, NEW w \in Writers, Commit(w) PROVE HousedInv'
<1> USE DEF TypeOK, HousedInv
<1>1. HotelJobs'
  BY DEF Commit, Finish, HotelJobs, TxPcs
<1>2. PICK h \in Hotels : h = obj[w]
  BY DEF Commit, HotelJobs, TxPcs
<1>3. CASE row' = Cascade(h)
  <2> SUFFICES ASSUME NEW x \in Rooms, row'[x] # None PROVE row'[HotelOf[row'[x]]] # None
    BY <1>1 DEF Housed
  <2>1. row'[x] = row[x] /\ HotelOf[row[x]] # h
    BY <1>3 DEF Cascade, Objects
  <2>2. row[x] \in Contents /\ HotelOf[row[x]] \in Hotels
    BY <2>1, CatalogAssumption DEF Objects
  <2>3. row'[HotelOf[row[x]]] = row[HotelOf[row[x]]]
    BY <1>3, <2>1, <2>2, CatalogAssumption DEF Cascade, Objects
  <2> QED
    BY <2>1, <2>3 DEF Housed
<1>4. CASE new[w] # None /\ row' = [row EXCEPT ![h] = new[w]]
  BY <1>1, <1>4, CatalogAssumption DEF Housed, Objects
<1>5. CASE row' = row
  BY <1>1, <1>5 DEF Housed
<1> QED
  BY <1>2, <1>3, <1>4, <1>5 DEF Commit

LEMMA HousedStep == TypeOK /\ HousedInv /\ [Next]_vars => HousedInv'
<1> SUFFICES ASSUME TypeOK, HousedInv, [Next]_vars PROVE HousedInv'
  OBVIOUS
<1> USE DEF TypeOK, HousedInv
<1>1. ASSUME UNCHANGED <<row, wpc, obj, new>> PROVE HousedInv'
  BY <1>1 DEF Housed, HotelJobs
<1>2. CASE ReadStep
  BY <1>1, <1>2 DEF ReadStep, Miss, OpenHotel, Query, LookUpHotel, Fill
<1>3. ASSUME NEW w \in Writers, NEW label, NEW o \in Objects, NEW c, Begin(w, label, o, c),
             label \in {"inserting", "saving"} /\ o \in Hotels => c # None,
             label \in TxPcs => o \in Hotels
      PROVE  HousedInv'
  BY <1>3 DEF Begin, Housed, HotelJobs
<1>4. ASSUME NEW w \in Writers,
             \/ \E o \in Objects, c \in Contents : Create(w, o, c) \/ Update(w, o, c)
             \/ \E rm \in Rooms : DeleteRoom(w, rm)
             \/ \E h \in Hotels : DeleteHotel(w, h)
             \/ \E h \in Hotels, c \in Contents : AdminHotel(w, h, c)
      PROVE  HousedInv'
  BY <1>3, <1>4, CatalogAssumption
  DEF Create, Update, DeleteRoom, DeleteHotel, AdminHotel, Objects, TxPcs
<1>5. ASSUME NEW w \in Writers, DropDetail(w) \/ DropList(w) PROVE HousedInv'
  BY <1>5 DEF DropDetail, DropList, Goto, Finish, Housed, HotelJobs, TxPcs
<1>6. ASSUME NEW rm \in Rooms, NEW c \in Contents \cup {None}, AdminRoom(rm, c) PROVE HousedInv'
  <2>1. HotelJobs'
    BY <1>6 DEF AdminRoom, HotelJobs
  <2> SUFFICES ASSUME NEW x \in Rooms, row'[x] # None PROVE row'[HotelOf[row'[x]]] # None
    BY <2>1 DEF Housed
  <2>2. row' = [row EXCEPT ![rm] = c] /\ HotelKnown(rm, c)
    BY <1>6 DEF AdminRoom
  <2>3. row'[x] \in Contents /\ HotelOf[row'[x]] \in Hotels /\ HotelOf[row'[x]] \in Objects
    BY <2>2, CatalogAssumption DEF Objects
  <2>4. row[HotelOf[row'[x]]] # None
    BY <2>2, <2>3 DEF HotelKnown, Housed, Objects
  <2> QED
    BY <2>2, <2>3, <2>4, CatalogAssumption
<1>7. CASE \E k \in Keys : Expire(k)
  BY <1>1, <1>7 DEF Expire
<1>8. CASE Crash
  BY <1>8 DEF Crash, Housed, HotelJobs, TxPcs
<1>9. CASE UNCHANGED vars
  BY <1>1, <1>9 DEF vars
<1> QED
  BY <1>2, <1>4, <1>5, <1>6, <1>7, <1>8, <1>9, HousedStore, HousedCommit DEF Next, WriteStep

\* Whatever requests overlap, fail or die, no stored room is without its hotel: a room that
\* a stale save stores again comes back only while its hotel is there.
THEOREM RoomsAreHoused == Spec => []Housed
<1>1. Init => HousedInv
  <2> SUFFICES ASSUME Init PROVE HousedInv
    OBVIOUS
  <2>1. ASSUME NEW rm \in Rooms, row[rm] # None PROVE row[HotelOf[row[rm]]] # None
    BY <2>1 DEF Init, Objects
  <2> QED
    BY <2>1 DEF Init, HousedInv, Housed, HotelJobs, TxPcs
<1>2. HousedInv => Housed
  BY DEF HousedInv
<1> QED
  BY <1>1, <1>2, HousedStep, TypeCorrect, PTL DEF Spec

-----------------------------------------------------------------------------
\* Writes that meet no other request.  Readers hold current pages, however many they are, a
\* writer works on the row it found, and a page that a change put out of date is still to
\* be dropped.  What is left are rooms that went with their hotel, and they keep their
\* excuse because a hotel's key is never used again.
Fresh(k, o) ==
  \/ ShownAs(k, o) = row[o]
  \/ /\ o \in Rooms /\ row[o] = None /\ ShownAs(k, o) # None
     /\ row[HotelOf[ShownAs(k, o)]] = None
Good(k) == cache[k] # None => \A o \in Shown(k) : Fresh(k, o)

HotelsKnown ==
  \A k \in Keys : cache[k] # None =>
    \A o \in Shown(k) : o \in Rooms /\ ShownAs(k, o) # None => ~Newborn(HotelOf[ShownAs(k, o)])
HeldCurrent == \A r \in Readers : rpc[r] \in {"loaded", "filling"} => page[r] = Current(key[r])
JobsOK ==
  \A w \in Writers :
    /\ wpc[w] \in TxPcs => obj[w] \in Hotels /\ new[w] = None
    /\ wpc[w] = "inserting" => new[w] # None
    /\ wpc[w] = "saving" => row[obj[w]] # None /\ (new[w] = None => obj[w] \in Rooms)
DroppedFirst ==
  \A w \in Writers :
    /\ wpc[w] \in {"txList", "committing"} => cache[obj[w]] = None
    /\ wpc[w] = "committing" => cache[HotelList] = None

QuietInv ==
  /\ HotelsKnown /\ HeldCurrent /\ JobsOK /\ DroppedFirst
  /\ \A k \in Keys : Good(k) \/ DropDue(k)

\* What a cached page shows of an object is a content, or nothing.
LEMMA ShownType ==
  ASSUME TypeOK, NEW k \in Keys, cache[k] # None, NEW o \in Shown(k)
  PROVE  ShownAs(k, o) \in Contents \cup {None} /\ o \in Objects
<1>1. cache[k] \in Pages(k)
  BY DEF TypeOK
<1>2. CASE k \in Lists
  BY <1>1, <1>2 DEF Shown, ShownAs, Pages, Listed, Objects
<1>3. CASE k \notin Lists
  BY <1>1, <1>3 DEF Shown, ShownAs, Pages, Keys
<1> QED
  BY <1>2, <1>3

LEMMA GoodStays ==
  ASSUME UNCHANGED row, NEW k \in Keys, cache'[k] \in {cache[k], None}, Good(k)
  PROVE  Good(k)'
BY DEF Good, Fresh, ShownAs

LEMMA KnownStays ==
  ASSUME TypeOK, HotelsKnown, \A k \in Keys : cache'[k] \in {cache[k], None},
         \A p \in Objects : Newborn(p)' => Newborn(p)
  PROVE  HotelsKnown'
<1> SUFFICES ASSUME NEW k \in Keys, cache'[k] # None, NEW o \in Shown(k), o \in Rooms,
                    ShownAs(k, o)' # None, Newborn(HotelOf[ShownAs(k, o)])'
             PROVE  FALSE
  BY DEF HotelsKnown
<1>1. cache'[k] = cache[k]
  OBVIOUS
<1>2. ShownAs(k, o)' = ShownAs(k, o)
  BY <1>1 DEF ShownAs
<1>3. HotelOf[ShownAs(k, o)] \in Objects
  BY <1>1, <1>2, ShownType, CatalogAssumption DEF Objects
<1>4. Newborn(HotelOf[ShownAs(k, o)])
  BY <1>2, <1>3 DEF Newborn, Inserting
<1> QED
  BY <1>1, <1>2, <1>4 DEF HotelsKnown

LEMMA QuietInit == Init => QuietInv
BY DEF Init, QuietInv, Good, HotelsKnown, HeldCurrent, JobsOK, DroppedFirst, TxPcs

LEMMA QuietRead ==
  ASSUME CacheInv, QuietInv, Housed, WritesAlone, WritesAlone', ReadStep
  PROVE  QuietInv'
<1> USE DEF CacheInv, TypeOK, QuietInv
<1>1. PICK r \in Readers :
        \/ \E k \in Keys : Miss(r, k)
        \/ \E h \in Hotels : OpenHotel(r, h)
        \/ Query(r) \/ LookUpHotel(r) \/ Fill(r)
  BY DEF ReadStep
<1>2. UNCHANGED <<row, unused, wpc, obj, new>>
  BY <1>1 DEF Miss, OpenHotel, Query, LookUpHotel, Fill
<1>3. \A s \in Readers : s # r => rpc'[s] = rpc[s] /\ key'[s] = key[s] /\ page'[s] = page[s]
  BY <1>1 DEF Miss, OpenHotel, Query, LookUpHotel, Fill, Answer
<1>4. \A w \in Writers : wpc[w] = "idle"
  <2>1. rpc[r] # "idle" \/ rpc'[r] # "idle"
    BY <1>1 DEF Miss, OpenHotel, Query, LookUpHotel, Fill
  <2> QED
    BY <1>2, <2>1 DEF WritesAlone
<1>5. JobsOK' /\ DroppedFirst'
  BY <1>2, <1>4 DEF JobsOK, DroppedFirst, TxPcs
<1>7. HeldCurrent'
  <2>1. \A h \in Hotels : h \in Keys /\ Current(h) = row[h]
    BY CatalogAssumption DEF Keys, Objects, Current, PageOf
  <2>2. rpc'[r] \in {"loaded", "filling"} => page'[r] = PageOf(row, key'[r])
    BY <1>1, <2>1 DEF Miss, OpenHotel, Query, LookUpHotel, Fill, Answer, HeldCurrent, Current
  <2>3. \A s \in Readers : s # r /\ rpc'[s] \in {"loaded", "filling"} => page'[s] = PageOf(row, key'[s])
    BY <1>3 DEF HeldCurrent, Current
  <2> QED
    BY <1>2, <2>2, <2>3 DEF HeldCurrent, Current
<1>8. \A k \in Keys : Good(k) /\ ~DropDue(k)
  BY <1>4 DEF DropDue
<1>9. \A p \in Objects : Newborn(p)' = Newborn(p)
  BY <1>2 DEF Newborn, Inserting
<1>10. CASE UNCHANGED cache
  <2>1. \A k \in Keys : Good(k)'
    BY <1>2, <1>8, <1>10, GoodStays
  <2>2. HotelsKnown'
    BY <1>9, <1>10, KnownStays
  <2> QED
    BY <1>5, <1>7, <2>1, <2>2
<1>11. CASE Fill(r) /\ cache' = [cache EXCEPT ![key[r]] = page[r]]
  <2>0. PICK k0 \in Keys : k0 = key[r]
    BY <1>11 DEF Fill
  <2>1. cache'[k0] = Current(k0) /\ \A k \in Keys : k # k0 => cache'[k] = cache[k]
    BY <1>11, <2>0 DEF Fill, HeldCurrent
  <2>2. ASSUME NEW o \in Shown(k0) PROVE ShownAs(k0, o)' = row[o] /\ o \in Objects
    BY <2>1, <2>2 DEF Shown, ShownAs, Current, PageOf, Listed, Objects, Keys
  <2>3. Good(k0)'
    BY <1>2, <2>2 DEF Good, Fresh
  <2>4. ASSUME NEW k \in Keys, k # k0 PROVE Good(k)'
    BY <1>2, <1>8, <2>1, <2>4, GoodStays
  <2>5. HotelsKnown'
    <3> SUFFICES ASSUME NEW k \in Keys, cache'[k] # None, NEW o \in Shown(k), o \in Rooms,
                        ShownAs(k, o)' # None
                 PROVE  ~Newborn(HotelOf[ShownAs(k, o)])'
      BY DEF HotelsKnown
    <3>1. CASE k = k0
      <4>1. ShownAs(k, o)' = row[o] /\ row[o] \in Contents
        BY <2>2, <3>1 DEF Objects
      <4>2. HotelOf[row[o]] \in Objects /\ row[HotelOf[row[o]]] # None
        BY <4>1, CatalogAssumption DEF Housed, Objects
      <4>3. ~Newborn(HotelOf[row[o]])
        BY <4>2 DEF NewbornUnseen
      <4> QED
        BY <1>2, <4>1, <4>3 DEF Newborn, Inserting
    <3>2. CASE k # k0
      <4>1. cache'[k] = cache[k]
        BY <2>1, <3>2
      <4>2. ShownAs(k, o)' = ShownAs(k, o)
        BY <4>1 DEF ShownAs
      <4>3. ~Newborn(HotelOf[ShownAs(k, o)])
        BY <4>1, <4>2 DEF HotelsKnown
      <4> QED
        BY <1>2, <4>2, <4>3 DEF Newborn, Inserting
    <3> QED
      BY <3>1, <3>2
  <2> QED
    BY <1>5, <1>7, <2>3, <2>4, <2>5
<1> QED
  BY <1>1, <1>10, <1>11 DEF Miss, OpenHotel, Query, LookUpHotel, Fill

\* A writer that sets out, and is to meet nobody, finds nobody, and every page good.
LEMMA QuietBegin ==
  ASSUME CacheInv, QuietInv, WritesAlone', NEW w \in Writers, NEW o \in Objects, NEW c, NEW label,
         Begin(w, label, o, c),
         label # "idle",
         \/ label = "inserting" /\ o \in unused /\ c # None /\ unused' = unused \ {o}
         \/ label = "saving" /\ row[o] # None /\ (c = None => o \in Rooms) /\ unused' = unused
         \/ label = "txDetail" /\ o \in Hotels /\ c = None /\ unused' = unused
  PROVE  QuietInv'
<1> USE DEF CacheInv, TypeOK, QuietInv, Begin
<1>1. /\ \A r \in Readers : rpc[r] = "idle"
      /\ \A v \in Writers : wpc[v] = "idle"
  <2>1. wpc'[w] # "idle" /\ rpc' = rpc /\ \A v \in Writers \ {w} : wpc'[v] = wpc[v]
    BY DEF readVars
  <2> QED
    BY <2>1 DEF WritesAlone
<1>2. /\ \A v \in Writers : v # w => wpc'[v] = "idle"
      /\ wpc'[w] = label /\ obj'[w] = o /\ new'[w] = c
      /\ UNCHANGED <<row, cache, rpc, key, page>>
  BY <1>1 DEF readVars
<1>3. HeldCurrent'
  BY <1>1, <1>2 DEF HeldCurrent
<1>4. JobsOK' /\ DroppedFirst'
  BY <1>2 DEF JobsOK, DroppedFirst, TxPcs
<1>5. \A p \in Objects : Newborn(p)' => Newborn(p)
  BY <1>1, <1>2 DEF Newborn, Inserting
<1>6. HotelsKnown'
  BY <1>2, <1>5, KnownStays
<1>7. \A k \in Keys : Good(k)'
  BY <1>1, <1>2, GoodStays DEF DropDue
<1> QED
  BY <1>3, <1>4, <1>6, <1>7

LEMMA QuietStore ==
  ASSUME CacheInv, QuietInv, WritesAlone, NEW w \in Writers, Store(w)
  PROVE  QuietInv'
<1> USE DEF CacheInv, TypeOK, QuietInv
<1>1. /\ \A r \in Readers : rpc[r] = "idle"
      /\ \A v \in Writers : v # w => wpc[v] = "idle"
  BY DEF WritesAlone, Store
<1>2. PICK o \in Objects : o = obj[w]
  BY DEF Store
<1>3. wpc[w] \in {"inserting", "saving"} /\ UNCHANGED <<unused, cache, rpc, key, page>>
  BY DEF Store, readVars
<1>4. \A k \in Keys : Good(k)
  BY <1>1, <1>3 DEF DropDue
<1>5. CASE wpc'[w] # "idle"
  <2>1. /\ row' = [row EXCEPT ![o] = new[w]] /\ obj' = obj
        /\ wpc' = [wpc EXCEPT ![w] =
             IF wpc[w] = "inserting" /\ o \in Rooms THEN "dropList" ELSE "dropDetail"]
    BY <1>2, <1>5 DEF Store, Finish
  <2>2. \A p \in Objects : Newborn(p)' => Newborn(p)
    BY <1>3, <2>1, WritersMoveOn
  <2>3. HotelsKnown'
    BY <1>3, <2>2, KnownStays
  <2>4. HeldCurrent' /\ JobsOK' /\ DroppedFirst'
    BY <1>1, <1>3, <2>1 DEF HeldCurrent, JobsOK, DroppedFirst, TxPcs
  <2>7. ASSUME NEW k \in Keys, k # o, k # ListOf(o) PROVE Good(k)'
    <3> SUFFICES ASSUME cache[k] # None, NEW x \in Shown(k) PROVE Fresh(k, x)'
      BY <1>3 DEF Good
    <3>1. x # o /\ x \in Objects
      BY <2>7, ShownType, CatalogAssumption DEF Shown, Listed, ListOf, Lists, Objects
    <3>2. row'[x] = row[x] /\ ShownAs(k, x)' = ShownAs(k, x)
      BY <1>3, <2>1, <3>1 DEF ShownAs
    <3>3. CASE ShownAs(k, x) = row[x]
      BY <3>2, <3>3 DEF Fresh
    <3>4. CASE ShownAs(k, x) # row[x]
      <4>1. /\ x \in Rooms /\ row[x] = None /\ ShownAs(k, x) # None
            /\ row[HotelOf[ShownAs(k, x)]] = None
        BY <1>4, <3>4 DEF Good, Fresh
      <4>2. HotelOf[ShownAs(k, x)] \in Objects /\ ~Newborn(HotelOf[ShownAs(k, x)])
        BY <4>1, ShownType, CatalogAssumption DEF Objects, HotelsKnown
      <4>3. HotelOf[ShownAs(k, x)] # o
        BY <1>2, <1>3, <4>1, <4>2 DEF Newborn, Inserting, JobsOK
      <4> QED
        BY <2>1, <3>2, <4>1, <4>2, <4>3 DEF Fresh
    <3> QED
      BY <3>3, <3>4
  <2>8. Good(o)' \/ DropDue(o)'
    <3>1. CASE wpc[w] = "inserting"
      BY <1>2, <1>3, <3>1 DEF Good, NewbornUnseen, Newborn, Inserting, Keys
    <3>2. CASE wpc[w] = "saving"
      BY <1>2, <2>1, <3>2 DEF DropDue
    <3> QED
      BY <1>3, <3>1, <3>2
  <2>9. DropDue(ListOf(o))'
    BY <1>2, <2>1 DEF DropDue
  <2> QED
    BY <2>3, <2>4, <2>7, <2>8, <2>9
<1>6. CASE wpc'[w] = "idle"
  <2>1. Finish(w) /\ row' = row
    BY <1>2, <1>6 DEF Store
  <2>2. \A p \in Objects : Newborn(p)' => Newborn(p)
    BY <1>3, <2>1, WritersMoveOn
  <2>3. HotelsKnown'
    BY <1>3, <2>2, KnownStays
  <2>4. HeldCurrent' /\ JobsOK' /\ DroppedFirst'
    BY <1>1, <1>3, <2>1 DEF Finish, HeldCurrent, JobsOK, DroppedFirst, TxPcs
  <2>5. \A k \in Keys : Good(k)'
    BY <1>3, <1>4, <2>1, GoodStays
  <2> QED
    BY <2>3, <2>4, <2>5
<1> QED
  BY <1>5, <1>6

LEMMA QuietDrop ==
  ASSUME Faults = FALSE, CacheInv, QuietInv, WritesAlone, NEW w \in Writers, DropDetail(w) \/ DropList(w)
  PROVE  QuietInv'
<1> USE DEF CacheInv, TypeOK, QuietInv
<1>1. /\ \A r \in Readers : rpc[r] = "idle"
      /\ \A v \in Writers : v # w => wpc[v] = "idle"
  BY DEF WritesAlone, DropDetail, DropList
<1>2. PICK o \in Objects : o = obj[w] /\ o \in Keys /\ ListOf(o) \in Keys
  BY ListOfIsKey DEF DropDetail, DropList
<1>3. UNCHANGED <<row, unused, rpc, key, page>>
  BY DEF DropDetail, DropList, readVars
<1>4. PICK k0 \in Keys :
        /\ k0 = IF wpc[w] \in {"dropDetail", "txDetail"} THEN o ELSE ListOf(o)
        /\ cache' = [cache EXCEPT ![k0] = None]
  BY <1>2 DEF DropDetail, DropList, Drop
<1>5. \/ Finish(w)
      \/ /\ wpc[w] # "idle" /\ obj' = obj /\ new' = new
         /\ \E label \in {"dropDetail", "dropList", "txList", "committing"} :
              wpc' = [wpc EXCEPT ![w] = label]
  BY DEF DropDetail, DropList, Goto
<1>6. \A p \in Objects : Newborn(p)' => Newborn(p)
  BY <1>3, <1>5, WritersMoveOn
<1>7. HotelsKnown'
  BY <1>4, <1>6, KnownStays
<1>8. HeldCurrent'
  BY <1>1, <1>3, <1>5 DEF Finish, HeldCurrent
<1>9. JobsOK' /\ DroppedFirst'
  <2>1. \A v \in Writers : v # w => wpc'[v] = "idle"
    BY <1>1, <1>5 DEF Finish
  <2>2. wpc[w] \in TxPcs => ListOf(o) = HotelList
    BY <1>2 DEF JobsOK, ListOf
  <2> QED
    BY <1>2, <1>4, <2>1, <2>2 DEF DropDetail, DropList, Goto, Finish, JobsOK, DroppedFirst, TxPcs
<1>10. ASSUME NEW k \in Keys PROVE Good(k)' \/ DropDue(k)'
  <2>1. CASE Good(k)
    BY <1>3, <1>4, <2>1, GoodStays
  <2>2. CASE k = k0
    BY <1>4, <2>2 DEF Good
  <2>3. CASE DropDue(k) /\ k # k0
    BY <1>1, <1>2, <1>4, <2>3 DEF DropDue, DropDetail, DropList, Goto
  <2> QED
    BY <2>1, <2>2, <2>3
<1> QED
  BY <1>7, <1>8, <1>9, <1>10

LEMMA QuietCommit ==
  ASSUME CacheInv, QuietInv, WritesAlone, NEW w \in Writers, Commit(w)
  PROVE  QuietInv'
<1> USE DEF CacheInv, TypeOK, QuietInv
<1>1. /\ \A r \in Readers : rpc[r] = "idle"
      /\ \A v \in Writers : v # w => wpc[v] = "idle"
  BY DEF WritesAlone, Commit
<1>2. PICK h \in Hotels : h = obj[w] /\ new[w] = None /\ cache[h] = None /\ cache[HotelList] = None
  BY DEF Commit, JobsOK, DroppedFirst, TxPcs
<1>3. wpc[w] = "committing" /\ Finish(w) /\ UNCHANGED <<unused, cache, rpc, key, page>>
  BY DEF Commit, readVars
<1>4. row' = row \/ row' = Cascade(h)
  BY <1>2 DEF Commit
<1>5. \A k \in Keys : Good(k)
  BY <1>1, <1>3 DEF DropDue
<1>6. \A p \in Objects : Newborn(p)' => Newborn(p)
  BY <1>3, WritersMoveOn
<1>7. HotelsKnown'
  BY <1>3, <1>6, KnownStays
<1>8. HeldCurrent' /\ JobsOK' /\ DroppedFirst'
  BY <1>1, <1>3 DEF Finish, HeldCurrent, JobsOK, DroppedFirst, TxPcs
<1>9. CASE row' = row
  <2>1. \A k \in Keys : Good(k)'
    BY <1>3, <1>5, <1>9, GoodStays
  <2> QED
    BY <1>7, <1>8, <2>1
<1>10. CASE row' = Cascade(h)
  <2>1. /\ \A g \in Hotels : row'[g] = IF g = h THEN None ELSE row[g]
        /\ \A x \in Rooms : row'[x] = IF row[x] # None /\ HotelOf[row[x]] = h THEN None ELSE row[x]
    BY <1>10, CatalogAssumption DEF Cascade, Objects
  <2>3. ASSUME NEW k \in Keys, cache[k] # None, NEW x \in Shown(k) PROVE Fresh(k, x)'
    <3>1. ShownAs(k, x)' = ShownAs(k, x)
      BY <1>3 DEF ShownAs
    <3>2. CASE x \in Hotels
      <4>1. ShownAs(k, x) = row[x]
        BY <1>5, <2>3, <3>2, CatalogAssumption DEF Good, Fresh
      <4>2. x # h
        BY <1>2, <2>3, <3>2, CatalogAssumption DEF Shown, Listed, Lists
      <4> QED
        BY <2>1, <3>1, <3>2, <4>1, <4>2 DEF Fresh
    <3>3. CASE x \in Rooms
      <4>1. ShownAs(k, x) # None => HotelOf[ShownAs(k, x)] \in Hotels
        BY <2>3, ShownType, CatalogAssumption
      <4>2. Fresh(k, x)
        BY <1>5, <2>3 DEF Good
      <4> QED
        BY <2>1, <3>1, <3>3, <4>1, <4>2 DEF Fresh
    <3> QED
      BY <2>3, <3>2, <3>3, ShownType DEF Objects
  <2>4. \A k \in Keys : Good(k)'
    BY <1>3, <2>3 DEF Good
  <2> QED
    BY <1>7, <1>8, <2>4
<1> QED
  BY <1>4, <1>9, <1>10

LEMMA QuietExpire == ASSUME CacheInv, QuietInv, NEW k0 \in Keys, Expire(k0) PROVE QuietInv'
<1> USE DEF CacheInv, TypeOK, QuietInv
<1>1. /\ UNCHANGED <<row, unused, rpc, key, page, wpc, obj, new>>
      /\ cache' = [cache EXCEPT ![k0] = None]
  BY DEF Expire, readVars
<1>2. HeldCurrent' /\ JobsOK'
  BY <1>1 DEF HeldCurrent, Current, PageOf, JobsOK
<1>3. DroppedFirst'
  BY <1>1, CatalogAssumption DEF DroppedFirst, Keys, Lists
<1>4. HotelsKnown'
  BY <1>1, KnownStays DEF Newborn, Inserting
<1>5. \A k \in Keys : Good(k)' \/ DropDue(k)'
  BY <1>1, GoodStays DEF DropDue
<1> QED
  BY <1>2, <1>3, <1>4, <1>5

LEMMA QuietStep ==
  ASSUME Faults = FALSE, Admin = FALSE
  PROVE  CacheInv /\ QuietInv /\ Housed /\ WritesAlone /\ WritesAlone' /\ [Next]_vars => QuietInv'
<1> SUFFICES ASSUME CacheInv, QuietInv, Housed, WritesAlone, WritesAlone', [Next]_vars
             PROVE  QuietInv'
  OBVIOUS
<1>1. ASSUME NEW w \in Writers,
             \/ \E o \in Objects, c \in Contents : Create(w, o, c) \/ Update(w, o, c)
             \/ \E rm \in Rooms : DeleteRoom(w, rm)
             \/ \E h \in Hotels : DeleteHotel(w, h)
      PROVE  QuietInv'
  BY <1>1, QuietBegin, CatalogAssumption DEF Create, Update, DeleteRoom, DeleteHotel, Objects
<1>2. CASE WriteStep
  BY <1>1, <1>2, QuietStore, QuietDrop, QuietCommit DEF WriteStep, AdminHotel
<1>3. CASE UNCHANGED vars
  BY <1>3 DEF vars, readVars, QuietInv, HotelsKnown, HeldCurrent, JobsOK, DroppedFirst,
              Good, Fresh, DropDue, Newborn, Inserting, ShownAs, Current, PageOf
<1> QED
  BY <1>2, <1>3, QuietRead, QuietExpire DEF Next, AdminRoom, Crash

\* Any number of threads and readers: were every write to meet no other request, the cache
\* would show between writes, without administrator and fault, what the tables hold, but
\* for rooms that went with their hotel.  The drops of the views and signals cover all else.
THEOREM LockedWritesKeepCacheFresh ==
  ASSUME Faults = FALSE, Admin = FALSE
  PROVE  Spec /\ []WritesAlone => []FreshButForCascades
<1>1. CacheInv /\ QuietInv => FreshButForCascades
  BY DEF FreshButForCascades, NoWriteUnderWay, QuietInv, Good, Fresh, DropDue
<1>2. CacheInv /\ [Next]_vars => CacheInv'
  BY CacheStep
<1>3. CacheInv /\ QuietInv /\ Housed /\ WritesAlone /\ WritesAlone' /\ [Next]_vars => QuietInv'
  BY QuietStep
<1> QED
  BY CacheInit, QuietInit, RoomsAreHoused, <1>1, <1>2, <1>3, PTL DEF Spec

-----------------------------------------------------------------------------
\* A serial server is such a lock.
Alone ==
  /\ \A v, w \in Writers : wpc[v] # "idle" /\ wpc[w] # "idle" => v = w
  /\ \A r \in Readers, w \in Writers : rpc[r] = "idle" \/ wpc[w] = "idle"

LEMMA OneThread ==
  ASSUME Workers = 1, TypeOK, FreeWorker
  PROVE  (\A r \in Readers : rpc[r] = "idle") /\ (\A w \in Writers : wpc[w] = "idle")
<1> DEFINE All == ({"read"} \X Readers) \cup ({"write"} \X Writers)
<1>1. IsFiniteSet(All)
  BY CatalogAssumption, FS_Singleton, FS_Product, FS_Union
<1>2. InFlight \in SUBSET All
  BY DEF InFlight
<1>3. IsFiniteSet(InFlight)
  BY <1>1, <1>2, FS_Subset
<1>4. Cardinality(InFlight) = 0
  BY <1>3, FS_CardinalityType DEF FreeWorker
<1>5. InFlight = {}
  BY <1>3, <1>4, FS_EmptySet
<1> QED
  BY <1>5 DEF InFlight

LEMMA AloneStep ==
  ASSUME Workers = 1
  PROVE  TypeOK /\ Alone /\ [Next]_vars => Alone'
<1> SUFFICES ASSUME TypeOK, Alone, [Next]_vars PROVE Alone'
  OBVIOUS
<1> USE DEF TypeOK
<1>1. ASSUME NEW r \in Readers, (\E k \in Keys : Miss(r, k)) \/ \E h \in Hotels : OpenHotel(r, h)
      PROVE  Alone'
  <2>1. \A w \in Writers : wpc[w] = "idle"
    BY <1>1, OneThread DEF Miss, OpenHotel
  <2> QED
    BY <1>1, <2>1 DEF Miss, OpenHotel, Alone
<1>2. ASSUME NEW r \in Readers, Query(r) \/ LookUpHotel(r) \/ Fill(r) PROVE Alone'
  BY <1>2 DEF Query, LookUpHotel, Fill, Answer, Alone
<1>3. ASSUME NEW w \in Writers, NEW label, NEW o, NEW c, Begin(w, label, o, c) PROVE Alone'
  <2>1. (\A r \in Readers : rpc[r] = "idle") /\ \A v \in Writers : wpc[v] = "idle"
    BY <1>3, OneThread DEF Begin
  <2> QED
    BY <1>3, <2>1 DEF Begin, readVars, Alone
<1>4. ASSUME NEW w \in Writers, Store(w) \/ DropDetail(w) \/ DropList(w) \/ Commit(w) PROVE Alone'
  BY <1>4 DEF Store, DropDetail, DropList, Commit, Finish, Goto, readVars, Alone
<1>5. ASSUME NEW w \in Writers,
             \/ \E o \in Objects, c \in Contents : Create(w, o, c) \/ Update(w, o, c)
             \/ \E rm \in Rooms : DeleteRoom(w, rm)
             \/ \E h \in Hotels : DeleteHotel(w, h)
             \/ \E h \in Hotels, c \in Contents : AdminHotel(w, h, c)
      PROVE  Alone'
  BY <1>3, <1>5 DEF Create, Update, DeleteRoom, DeleteHotel, AdminHotel
<1>6. CASE (\E rm \in Rooms, c \in Contents \cup {None} : AdminRoom(rm, c)) \/ \E k \in Keys : Expire(k)
  BY <1>6 DEF AdminRoom, Expire, readVars, Alone
<1>7. CASE Crash
  BY <1>7 DEF Crash, Alone
<1>8. CASE UNCHANGED vars
  BY <1>8 DEF vars, readVars, Alone
<1> QED
  BY <1>1, <1>2, <1>4, <1>5, <1>6, <1>7, <1>8 DEF Next, ReadStep, WriteStep

\* With one thread, no administrator and no fault, the cache shows between writes what the
\* tables hold, but for rooms that went with their hotel.
THEOREM SerialCacheIsFresh ==
  ASSUME Workers = 1, Faults = FALSE, Admin = FALSE
  PROVE  Spec => []FreshButForCascades
<1>1. Init => Alone
  BY DEF Init, Alone
<1>2. TypeOK /\ Alone /\ [Next]_vars => Alone'
  BY AloneStep
<1>3. Alone => WritesAlone
  BY DEF Alone, WritesAlone
<1> QED
  BY <1>1, <1>2, <1>3, TypeCorrect, LockedWritesKeepCacheFresh, PTL DEF Spec
==============================================================================
