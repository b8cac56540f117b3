------------------------------- MODULE Catalog -------------------------------
(***************************************************************************)
(* Hotels and rooms behind a read-through cache in Redis:                  *)
(* apps/hotels/{views,signals}.py, apps/rooms/views.py and the cache_*     *)
(* functions of apps/abstract/redis_storage.py.                            *)
(*                                                                         *)
(*   read a page      Miss -> Query -> Fill                                *)
(*   read a hotel     OpenHotel -> Miss -> Fill     (row first, then cache)*)
(*   API write        Begin* -> Store -> DropDetail -> DropList            *)
(*   delete a hotel,  Begin* -> DropDetail -> DropList -> Commit           *)
(*   admin hotel                                                           *)
(*                                                                         *)
(* Each arrow separates two database or Redis calls, and requests          *)
(* interleave there.  The second kind of write drops the cached pages from *)
(* a signal sent inside the transaction, before other connections can see  *)
(* the change.  One page stands for all pages and filters of a list.       *)
(***************************************************************************)
EXTENDS Integers, FiniteSets

CONSTANTS Readers, Writers,   \* threads that serve reads, and writes
          Hotels, Rooms,      \* primary keys; the database never uses one twice
          Contents,           \* what the columns of a row may hold
          HotelOf,            \* the hotel a room with that content belongs to
          Workers,            \* request-serving threads that may be busy at once
          Faults,             \* whether Redis calls fail and the server dies
          Admin,              \* whether an administrator edits hotels and rooms
          HotelList, RoomList, None

VARIABLES
  row,       \* the hotels and rooms tables: content by primary key, or None
  unused,    \* primary keys not allocated yet
  cache,     \* Redis: the page stored under a key, or None
  rpc, key, page,   \* readers: program counter, the key they read, the page they hold
  wpc, obj, new,    \* writers: program counter, the row they write, the content it gets
  exposed    \* history: keys whose entry may be out of date with no drop to come

readVars == <<rpc, key, page>>
vars == <<row, unused, cache, readVars, wpc, obj, new, exposed>>

-----------------------------------------------------------------------------
Objects == Hotels \cup Rooms
Lists == {HotelList, RoomList}
Keys == Objects \cup Lists     \* an object stands for the key of its detail page

ListOf(o) == IF o \in Hotels THEN HotelList ELSE RoomList
Listed(k) == IF k = HotelList THEN Hotels ELSE Rooms
Pages(k)  == IF k \in Lists THEN [Listed(k) -> Contents \cup {None}] ELSE Contents
AllPages  == UNION {Pages(k) : k \in Keys}

ASSUME CatalogAssumption ==
  /\ IsFiniteSet(Readers) /\ IsFiniteSet(Writers) /\ Workers \in Nat \ {0}
  /\ HotelOf \in [Contents -> Hotels]
  /\ Faults \in BOOLEAN /\ Admin \in BOOLEAN
  /\ Hotels \cap Rooms = {} /\ Objects \cap Lists = {} /\ HotelList # RoomList
  /\ None \notin Keys /\ None \notin Contents /\ \A k \in Lists : None \notin Pages(k)

\* The program counters of a write in autocommit, and of one in a transaction.
AutoPcs == {"inserting", "saving", "dropDetail", "dropList"}
TxPcs   == {"txDetail", "txList", "committing"}

TypeOK ==
  /\ row \in [Objects -> Contents \cup {None}]
  /\ unused \subseteq Objects
  /\ cache \in [Keys -> AllPages \cup {None}]
  /\ \A k \in Keys : cache[k] \in Pages(k) \cup {None}
  /\ rpc \in [Readers -> {"idle", "missed", "loaded", "filling"}]
  /\ key \in [Readers -> Keys \cup {None}]
  /\ \A r \in Readers : rpc[r] # "idle" => key[r] \in Keys
  /\ page \in [Readers -> AllPages \cup {None}]
  /\ \A r \in Readers : rpc[r] \in {"loaded", "filling"} => page[r] \in Pages(key[r])
  /\ wpc \in [Writers -> {"idle"} \cup AutoPcs \cup TxPcs]
  /\ obj \in [Writers -> Objects \cup {None}]
  /\ \A w \in Writers : wpc[w] # "idle" => obj[w] \in Objects
  /\ new \in [Writers -> Contents \cup {None}]
  /\ exposed \subseteq Keys

-----------------------------------------------------------------------------
\* What a query for key k returns on these rows: a list, or a row (None is a 404).
PageOf(rows, k) == IF k \in Lists THEN [o \in Listed(k) |-> rows[o]] ELSE rows[k]
Current(k) == PageOf(row, k)
Stored == {k \in Keys : cache[k] # None}
\* Stored pages that a change of the tables to these rows puts out of date.
Outdated(rows) == {k \in Stored : PageOf(rows, k) # Current(k)}

InFlight ==
  {<<"read", r>> : r \in {x \in Readers : rpc[x] # "idle"}}
    \cup {<<"write", w>> : w \in {x \in Writers : wpc[x] # "idle"}}
FreeWorker == Cardinality(InFlight) < Workers

Init ==
  /\ unused \in SUBSET Objects
  /\ row \in [Objects -> Contents \cup {None}]
  /\ \A o \in Objects : row[o] = None <=> o \in unused
  /\ \A r \in Rooms \ unused : row[HotelOf[row[r]]] # None
  /\ cache = [k \in Keys |-> None]
  /\ rpc = [r \in Readers |-> "idle"]
  /\ key = [r \in Readers |-> None]
  /\ page = [r \in Readers |-> None]
  /\ wpc = [w \in Writers |-> "idle"]
  /\ obj = [w \in Writers |-> None]
  /\ new = [w \in Writers |-> None]
  /\ exposed = {}

-----------------------------------------------------------------------------
\* A hit is answered at once and changes nothing, so only misses are steps: the key has no
\* entry, or reading it failed.
Absent(k) == cache[k] = None \/ Faults

Answer(r) ==
  /\ rpc' = [rpc EXCEPT ![r] = "idle"]
  /\ key' = [key EXCEPT ![r] = None]
  /\ page' = [page EXCEPT ![r] = None]

Miss(r, k) ==
  /\ rpc[r] = "idle" /\ FreeWorker
  /\ k \notin Hotels /\ Absent(k)
  /\ rpc' = [rpc EXCEPT ![r] = "missed"]
  /\ key' = [key EXCEPT ![r] = k]
  /\ UNCHANGED <<row, unused, cache, page, wpc, obj, new, exposed>>

\* Faulty Query: no look at DoesNotExist.
QueryUnchecked(r) ==
  /\ rpc[r] = "missed"
  /\ page' = [page EXCEPT ![r] = Current(key[r])]
  /\ rpc' = [rpc EXCEPT ![r] = "filling"]
  /\ UNCHANGED <<row, unused, cache, key, wpc, obj, new, exposed>>

Query(r) ==
  /\ rpc[r] = "missed"
  /\ \/ /\ Current(key[r]) = None
        /\ Answer(r)
     \/ /\ Current(key[r]) # None
        /\ page' = [page EXCEPT ![r] = Current(key[r])]
        /\ rpc' = [rpc EXCEPT ![r] = "filling"]
        /\ UNCHANGED key
  /\ UNCHANGED <<row, unused, cache, wpc, obj, new, exposed>>

\* hotel_details gets the row from its decorator before it looks in the cache.
OpenHotel(r, h) ==
  /\ rpc[r] = "idle" /\ FreeWorker
  /\ row[h] # None
  /\ rpc' = [rpc EXCEPT ![r] = "loaded"]
  /\ key' = [key EXCEPT ![r] = h]
  /\ page' = [page EXCEPT ![r] = row[h]]
  /\ UNCHANGED <<row, unused, cache, wpc, obj, new, exposed>>

LookUpHotel(r) ==
  /\ rpc[r] = "loaded"
  /\ \/ cache[key[r]] # None /\ Answer(r)
     \/ /\ Absent(key[r])
        /\ rpc' = [rpc EXCEPT ![r] = "filling"]
        /\ UNCHANGED <<key, page>>
  /\ UNCHANGED <<row, unused, cache, wpc, obj, new, exposed>>

\* cache_set: whatever happened since the query, the page in hand is stored.
Fill(r) ==
  LET k == key[r] IN
  /\ rpc[r] = "filling"
  /\ \/ /\ cache' = [cache EXCEPT ![k] = page[r]]
        /\ exposed' = IF page[r] = Current(k) THEN exposed \ {k} ELSE exposed \cup {k}
     \/ Faults /\ UNCHANGED <<cache, exposed>>
  /\ Answer(r)
  /\ UNCHANGED <<row, unused, wpc, obj, new>>

-----------------------------------------------------------------------------
Finish(w) ==
  /\ wpc' = [wpc EXCEPT ![w] = "idle"]
  /\ obj' = [obj EXCEPT ![w] = None]
  /\ new' = [new EXCEPT ![w] = None]

Goto(w, label) == wpc' = [wpc EXCEPT ![w] = label] /\ UNCHANGED <<obj, new>>

\* Writer w sets out to give row o content c (None: to delete it).
Begin(w, label, o, c) ==
  /\ wpc[w] = "idle" /\ FreeWorker
  /\ wpc' = [wpc EXCEPT ![w] = label]
  /\ obj' = [obj EXCEPT ![w] = o]
  /\ new' = [new EXCEPT ![w] = c]
  /\ UNCHANGED <<row, cache, readVars, exposed>>

\* The foreign key of a room, checked by its serializer and again by full_clean().
HotelKnown(o, c) == o \in Rooms /\ c # None => row[HotelOf[c]] # None

Create(w, o, c) ==
  /\ o \in unused /\ HotelKnown(o, c)
  /\ unused' = unused \ {o}
  /\ Begin(w, "inserting", o, c)

Update(w, o, c) ==
  /\ row[o] # None /\ HotelKnown(o, c)
  /\ Begin(w, "saving", o, c) /\ UNCHANGED unused

DeleteRoom(w, rm) == row[rm] # None /\ Begin(w, "saving", rm, None) /\ UNCHANGED unused

\* Rows an open transaction has written, or deleted with their hotel, are locked.
Deleting(h) == \E w \in Writers : wpc[w] \in TxPcs /\ obj[w] = h /\ new[w] = None
Locked(o, c) ==
  \/ \E w \in Writers : wpc[w] \in TxPcs /\ obj[w] = o
  \/ o \in Rooms /\ row[o] # None /\ Deleting(HotelOf[row[o]])
  \/ o \in Rooms /\ c # None /\ Deleting(HotelOf[c])

\* Through the API or the admin site: the same transaction.  It waits here for the row.
DeleteHotel(w, h) ==
  /\ row[h] # None /\ ~Locked(h, None)
  /\ Begin(w, "txDetail", h, None) /\ UNCHANGED unused

\* The admin site opens a transaction around the save and its signals.
AdminHotel(w, h, c) ==
  /\ Admin /\ (row[h] # None \/ h \in unused) /\ ~Locked(h, c)
  /\ unused' = unused \ {h}
  /\ Begin(w, "txDetail", h, c)

\* Faulty Store: an update drops the lists only.
StoreListOnly(w) ==
  /\ wpc[w] \in {"inserting", "saving"}
  /\ ~Locked(obj[w], new[w]) /\ HotelKnown(obj[w], new[w])
  /\ row' = [row EXCEPT ![obj[w]] = new[w]]
  /\ Goto(w, "dropList")
  /\ UNCHANGED <<unused, cache, readVars, exposed>>

\* save() or delete() in autocommit.  A save is an UPDATE of every column or, when the
\* row is gone, an INSERT that stores it again.  A refused save (the room's hotel is gone,
\* the hotel's name was taken meanwhile) is a 500 and drops nothing.
Store(w) ==
  LET o == obj[w] IN
  /\ wpc[w] \in {"inserting", "saving"}
  /\ ~Locked(o, new[w])
  /\ \/ /\ HotelKnown(o, new[w])
        /\ row' = [row EXCEPT ![o] = new[w]]
        /\ new' = [new EXCEPT ![w] = None]
        /\ wpc' = [wpc EXCEPT ![w] =
             IF wpc[w] = "inserting" /\ o \in Rooms THEN "dropList" ELSE "dropDetail"]
        /\ UNCHANGED obj
     \/ /\ ~HotelKnown(o, new[w]) \/ o \in Hotels
        /\ Finish(w)
        /\ UNCHANGED row
  /\ UNCHANGED <<unused, cache, readVars, exposed>>

Drop(k) ==
  \/ /\ cache' = [cache EXCEPT ![k] = None]
     /\ exposed' = exposed \ {k}
  \/ Faults /\ exposed' = exposed \cup ({k} \cap Stored) /\ UNCHANGED cache

DropDetail(w) ==
  /\ wpc[w] \in {"dropDetail", "txDetail"}
  /\ Drop(obj[w])
  /\ Goto(w, IF wpc[w] = "txDetail" THEN "txList" ELSE "dropList")
  /\ UNCHANGED <<row, unused, readVars>>

\* Faulty DropList: the detail page once more.
DropDetailAgain(w) ==
  /\ wpc[w] \in {"dropList", "txList"}
  /\ Drop(obj[w])
  /\ IF wpc[w] = "txList" THEN Goto(w, "committing") ELSE Finish(w)
  /\ UNCHANGED <<row, unused, readVars>>

DropList(w) ==
  /\ wpc[w] \in {"dropList", "txList"}
  /\ Drop(ListOf(obj[w]))
  /\ IF wpc[w] = "txList" THEN Goto(w, "committing") ELSE Finish(w)
  /\ UNCHANGED <<row, unused, readVars>>

\* Deleting a hotel takes its rooms along, and no one drops their pages.
Cascade(h) == [o \in Objects |->
  IF o = h \/ (o \in Rooms /\ row[o] # None /\ HotelOf[row[o]] = h) THEN None ELSE row[o]]

\* The transaction commits or is rolled back; either way its signals have been sent.
Commit(w) ==
  LET rows == IF new[w] = None THEN Cascade(obj[w]) ELSE [row EXCEPT ![obj[w]] = new[w]] IN
  /\ wpc[w] = "committing"
  /\ \/ row' = rows /\ exposed' = exposed \cup Outdated(rows)
     \/ UNCHANGED <<row, exposed>>
  /\ Finish(w)
  /\ UNCHANGED <<unused, cache, readVars>>

\* No signal is connected to Room: what the admin site does to a room drops nothing.
AdminRoom(rm, c) ==
  LET rows == [row EXCEPT ![rm] = c] IN
  /\ Admin /\ FreeWorker
  /\ row[rm] # None \/ (rm \in unused /\ c # None)
  /\ HotelKnown(rm, c) /\ ~Locked(rm, c)
  /\ row' = rows
  /\ unused' = unused \ {rm}
  /\ exposed' = exposed \cup Outdated(rows)
  /\ UNCHANGED <<cache, readVars, wpc, obj, new>>

-----------------------------------------------------------------------------
\* Redis drops an entry at the end of its TTL.
Expire(k) ==
  /\ cache[k] # None
  /\ cache' = [cache EXCEPT ![k] = None]
  /\ exposed' = exposed \ {k}
  /\ UNCHANGED <<row, unused, readVars, wpc, obj, new>>

\* A writer has still to drop key k for a change that is visible already.
DropDue(k) ==
  \E w \in Writers :
    \/ wpc[w] = "dropDetail" /\ k \in {obj[w], ListOf(obj[w])}
    \/ wpc[w] = "dropList" /\ k = ListOf(obj[w])

\* The server stops between two calls: open transactions roll back, drops are lost.
Crash ==
  /\ Faults
  /\ exposed' = exposed \cup {k \in Stored : DropDue(k)}
  /\ rpc' = [r \in Readers |-> "idle"]
  /\ key' = [r \in Readers |-> None]
  /\ page' = [r \in Readers |-> None]
  /\ wpc' = [w \in Writers |-> "idle"]
  /\ obj' = [w \in Writers |-> None]
  /\ new' = [w \in Writers |-> None]
  /\ UNCHANGED <<row, unused, cache>>

ReadStep ==
  \E r \in Readers :
    \/ \E k \in Keys : Miss(r, k)
    \/ \E h \in Hotels : OpenHotel(r, h)
    \/ Query(r) \/ LookUpHotel(r) \/ Fill(r)

WriteStep ==
  \E w \in Writers :
    \/ \E o \in Objects, c \in Contents : Create(w, o, c) \/ Update(w, o, c)
    \/ \E rm \in Rooms : DeleteRoom(w, rm)
    \/ \E h \in Hotels : DeleteHotel(w, h)
    \/ \E h \in Hotels, c \in Contents : AdminHotel(w, h, c)
    \/ Store(w) \/ DropDetail(w) \/ DropList(w) \/ Commit(w)

Next ==
  \/ ReadStep \/ WriteStep
  \/ \E rm \in Rooms, c \in Contents \cup {None} : AdminRoom(rm, c)
  \/ \E k \in Keys : Expire(k)
  \/ Crash

Spec == Init /\ [][Next]_vars

-----------------------------------------------------------------------------
Stale(k) == k \in Stored /\ cache[k] # Current(k)

\* An entry is out of date only while the request that made it so has yet to drop it, or
\* through one of the known holes: a reader stored a page older than the last change, the
\* change was committed after its drop (a hotel deleted, the admin site) or without one
\* (rooms of a deleted hotel, rooms in the admin site), a drop failed or died with the
\* server.  No order of updates, stale saves, creations and fills opens another.
StaleHasCause == \A k \in Keys : Stale(k) => DropDue(k) \/ k \in exposed

\* What a readers-writers lock around the requests would give: a write meets no other
\* request.  The code takes none; one thread gives it.
WritesAlone ==
  \A w \in Writers : wpc[w] # "idle" =>
    (\A r \in Readers : rpc[r] = "idle") /\ (\A v \in Writers \ {w} : wpc[v] = "idle")

NoWriteUnderWay == \A w \in Writers : wpc[w] = "idle"

\* With one request at a time, no administrator and no fault, between writes the cache
\* shows what the tables hold, but for rooms that were deleted with their hotel.
Shown(k) == IF k \in Lists THEN Listed(k) ELSE {k}
ShownAs(k, o) == IF k \in Lists THEN cache[k][o] ELSE cache[k]

FreshButForCascades ==
  NoWriteUnderWay =>
    \A k \in Keys : cache[k] # None =>
      \A o \in Shown(k) :
        \/ ShownAs(k, o) = row[o]
        \/ /\ o \in Rooms /\ row[o] = None /\ ShownAs(k, o) # None
           /\ row[HotelOf[ShownAs(k, o)]] = None

\* "Owner can delete their hotel and the next list omits it." (hotels/tests.py)
NextListOmits ==
  NoWriteUnderWay /\ cache[HotelList] # None =>
    \A h \in Hotels : row[h] = None => cache[HotelList][h] = None
==============================================================================
