------------------------------ MODULE Bookings ------------------------------
(***************************************************************************)
(* Reservations of rooms: apps/bookings/{views,serializers,models,admin}.  *)
(*                                                                         *)
(* A request is served by a worker thread and is a sequence of database    *)
(* statements, each atomic by itself: the project sets no ATOMIC_REQUESTS, *)
(* opens no transaction and takes no row lock around them, so the steps    *)
(* of concurrent requests interleave.                                      *)
(*                                                                         *)
(*   create   ReadRoom -> CheckOverlap -> InsertBooking                    *)
(*   cancel   LoadBooking -> SaveCancelled -> Notify                       *)
(*   room     LoadRoom -> SaveRoom            (update of a room)           *)
(*   admin    OpenForm (GET) ... SubmitForm (POST), DeleteBooking          *)
(*                                                                         *)
(* A booking is named by the request that creates it, so that a request    *)
(* stores at most one.  Workers bounds the requests in flight: it is the   *)
(* number of threads that serve requests, and 1 makes the server serial.   *)
(***************************************************************************)
EXTENDS Integers, FiniteSets

CONSTANTS CreateReqs,   \* create requests, and the bookings they store
          CancelReqs,   \* cancel requests
          AdminForms,   \* change forms an administrator opens; each is submitted once
          Rooms,
          Users,
          Days,         \* calendar days, as integers
          Prices,       \* nightly prices a room may be given
          MaxTotal,     \* largest value Booking.total_price can hold
          Workers,      \* request-serving threads
          Guest,        \* the user who sends each create request
          Caller,       \* the user who sends each cancel request
          Owner,        \* the owner of each room's hotel
          None          \* no row, nothing read yet

VARIABLES
  roomPrice,   \* the rooms table: nightly price of a room, or None
  roomEdits,   \* rooms loaded by an update request that has not saved yet
  booking,     \* the bookings table: the row of a booking, or None
  createPc,    \* where each create request is
  ask,         \* while it is in flight: the room and dates it asks for, the price it read
  seen,        \* history: the bookings stored before its overlap check
  cancelPc,    \* where each cancel request is
  target,      \* the booking it cancels
  copy,        \* while it is in flight: the row it loaded
  form,        \* the booking of each admin form and, while it is open, the row it shows
  edited       \* history: the bookings an admin form has saved

createVars == <<createPc, ask, seen>>
cancelVars == <<cancelPc, target, copy>>
adminVars  == <<form, edited>>
vars == <<roomPrice, roomEdits, booking, createVars, cancelVars, adminVars>>

-----------------------------------------------------------------------------
Status == {"pending", "confirmed", "completed", "cancelled"}
Stays  == [room : Rooms, checkIn : Days, checkOut : Days]
Asks   == [room : Rooms, checkIn : Days, checkOut : Days, price : Prices]
Rows   == [room : Rooms, checkIn : Days, checkOut : Days, status : Status, total : Nat]
Forms  == [of : CreateReqs, row : Rows \cup {None}]

CreateAnswers == {"created", "refused", "failed"}      \* 201, 400, 500
CancelAnswers == {"answered", "alreadyCancelled", "notFound", "forbidden", "failed"}

ASSUME RequestsAssumption ==
  /\ IsFiniteSet(CreateReqs) /\ IsFiniteSet(CancelReqs) /\ IsFiniteSet(Rooms)
  /\ Workers \in Nat \ {0}
  /\ Guest \in [CreateReqs -> Users]
  /\ Caller \in [CancelReqs -> Users]
  /\ Owner \in [Rooms -> Users]

ASSUME DataAssumption ==
  /\ Days \subseteq Int
  /\ Prices \subseteq Nat \ {0}
  /\ MaxTotal \in Nat
  /\ None \notin Prices /\ None \notin CreateReqs
  /\ None \notin Asks /\ None \notin Rows /\ None \notin Forms

TypeOK ==
  /\ roomPrice \in [Rooms -> Prices \cup {None}]
  /\ roomEdits \subseteq Rooms
  /\ booking \in [CreateReqs -> Rows \cup {None}]
  /\ createPc \in [CreateReqs -> {"idle", "quoted", "checked"} \cup CreateAnswers]
  /\ ask \in [CreateReqs -> Asks \cup {None}]
  /\ seen \in [CreateReqs -> SUBSET CreateReqs]
  /\ cancelPc \in [CancelReqs -> {"idle", "loaded", "saved"} \cup CancelAnswers]
  /\ target \in [CancelReqs -> CreateReqs \cup {None}]
  /\ copy \in [CancelReqs -> Rows \cup {None}]
  /\ form \in [AdminForms -> Forms \cup {None}]
  /\ edited \subseteq CreateReqs

-----------------------------------------------------------------------------
Chronological(stay) == stay.checkIn < stay.checkOut
Nights(stay) == stay.checkOut - stay.checkIn

Overlaps(a, b) ==
  /\ a.room = b.room
  /\ a.checkIn < b.checkOut
  /\ b.checkIn < a.checkOut

RoomExists(rm) == roomPrice[rm] # None

\* The row exists with a status the overlap query filters on: it holds its room.
Active(b) == booking[b] # None /\ booking[b].status \in {"pending", "confirmed"}

\* What full_clean() accepts.
Storable(row) == Chronological(row) /\ row.total <= MaxTotal /\ RoomExists(row.room)

\* Faulty Conflicts: sees only rows under way on the day of arrival.
ConflictsOnArrival(stay) ==
  {b \in CreateReqs : /\ Active(b) /\ booking[b].room = stay.room
                      /\ booking[b].checkIn <= stay.checkIn
                      /\ stay.checkIn < booking[b].checkOut}

\* The rows the overlap query returns for a room and dates.
Conflicts(stay) == {b \in CreateReqs : Active(b) /\ Overlaps(booking[b], stay)}

\* The user who booked, or the owner of the hotel.
MayCancel(user, b) == user = Guest[b] \/ user = Owner[booking[b].room]

InFlight ==
  {<<"create", r>> : r \in {x \in CreateReqs : createPc[x] \in {"quoted", "checked"}}}
    \cup {<<"cancel", c>> : c \in {x \in CancelReqs : cancelPc[x] \in {"loaded", "saved"}}}
    \cup {<<"room", rm>> : rm \in roomEdits}

FreeWorker == Cardinality(InFlight) < Workers

-----------------------------------------------------------------------------
Init ==
  /\ roomPrice \in [Rooms -> Prices]
  /\ roomEdits = {}
  /\ booking = [b \in CreateReqs |-> None]
  /\ createPc = [r \in CreateReqs |-> "idle"]
  /\ ask = [r \in CreateReqs |-> None]
  /\ seen = [r \in CreateReqs |-> {}]
  /\ cancelPc = [c \in CancelReqs |-> "idle"]
  /\ target = [c \in CancelReqs |-> None]
  /\ copy = [c \in CancelReqs |-> None]
  /\ form = [f \in AdminForms |-> None]
  /\ edited = {}

\* Faulty ReadRoom: takes the key on trust.
ReadRoomUnresolved(r, stay) ==
  /\ createPc[r] = "idle" /\ FreeWorker
  /\ createPc' = [createPc EXCEPT ![r] = "quoted"]
  /\ ask' = [ask EXCEPT ![r] =
       [room |-> stay.room, checkIn |-> stay.checkIn, checkOut |-> stay.checkOut,
        price |-> roomPrice[stay.room]]]
  /\ UNCHANGED <<roomPrice, roomEdits, booking, seen, cancelVars, adminVars>>

\* Field validation resolves the room's primary key: the row, with its price, is read
\* once, here; an unknown room is a 400.
ReadRoom(r, stay) ==
  /\ createPc[r] = "idle" /\ FreeWorker
  /\ \/ /\ RoomExists(stay.room)
        /\ createPc' = [createPc EXCEPT ![r] = "quoted"]
        /\ ask' = [ask EXCEPT ![r] =
             [room |-> stay.room, checkIn |-> stay.checkIn, checkOut |-> stay.checkOut,
              price |-> roomPrice[stay.room]]]
     \/ /\ ~RoomExists(stay.room)
        /\ createPc' = [createPc EXCEPT ![r] = "refused"]
        /\ UNCHANGED ask
  /\ UNCHANGED <<roomPrice, roomEdits, booking, seen, cancelVars, adminVars>>

\* Faulty CheckOverlap: checks the dates only.
CheckDatesOnly(r) ==
  /\ createPc[r] = "quoted"
  /\ seen' = [seen EXCEPT ![r] = {b \in CreateReqs : createPc[b] = "created"}]
  /\ Chronological(ask[r])
  /\ createPc' = [createPc EXCEPT ![r] = "checked"]
  /\ UNCHANGED <<roomPrice, roomEdits, booking, ask, cancelVars, adminVars>>

\* validate(): the dates, then the overlap query.
CheckOverlap(r) ==
  /\ createPc[r] = "quoted"
  /\ seen' = [seen EXCEPT ![r] = {b \in CreateReqs : createPc[b] = "created"}]
  /\ \/ /\ Chronological(ask[r]) /\ Conflicts(ask[r]) = {}
        /\ createPc' = [createPc EXCEPT ![r] = "checked"]
        /\ UNCHANGED ask
     \/ /\ ~Chronological(ask[r]) \/ Conflicts(ask[r]) # {}
        /\ createPc' = [createPc EXCEPT ![r] = "refused"]
        /\ ask' = [ask EXCEPT ![r] = None]
  /\ UNCHANGED <<roomPrice, roomEdits, booking, cancelVars, adminVars>>

\* create(): the price read by ReadRoom times the nights, then save(), whose
\* full_clean() refuses a total that does not fit and a room that is gone (a 500).
NewRow(a) ==
  [room |-> a.room, checkIn |-> a.checkIn, checkOut |-> a.checkOut,
   status |-> "pending", total |-> a.price * Nights(a)]

\* Faulty InsertBooking: stores without full_clean().
InsertUnclean(r) ==
  /\ createPc[r] = "checked"
  /\ booking' = [booking EXCEPT ![r] = NewRow(ask[r])]
  /\ createPc' = [createPc EXCEPT ![r] = "created"]
  /\ ask' = [ask EXCEPT ![r] = None]
  /\ UNCHANGED <<roomPrice, roomEdits, seen, cancelVars, adminVars>>

\* Faulty InsertBooking: a refused save leaves the request without an answer.
InsertOrHang(r) ==
  createPc[r] = "checked" /\ Storable(NewRow(ask[r])) /\ InsertUnclean(r)

InsertBooking(r) ==
  /\ createPc[r] = "checked"
  /\ \/ /\ Storable(NewRow(ask[r]))
        /\ booking' = [booking EXCEPT ![r] = NewRow(ask[r])]
        /\ createPc' = [createPc EXCEPT ![r] = "created"]
     \/ /\ ~Storable(NewRow(ask[r]))
        /\ createPc' = [createPc EXCEPT ![r] = "failed"]
        /\ UNCHANGED booking
  /\ ask' = [ask EXCEPT ![r] = None]
  /\ UNCHANGED <<roomPrice, roomEdits, seen, cancelVars, adminVars>>

-----------------------------------------------------------------------------
\* Faulty LoadBooking: no look at the status.
LoadAnyStatus(c, b) ==
  /\ cancelPc[c] = "idle" /\ FreeWorker
  /\ booking[b] # None /\ MayCancel(Caller[c], b)
  /\ cancelPc' = [cancelPc EXCEPT ![c] = "loaded"]
  /\ target' = [target EXCEPT ![c] = b]
  /\ copy' = [copy EXCEPT ![c] = booking[b]]
  /\ UNCHANGED <<roomPrice, roomEdits, booking, createVars, adminVars>>

\* The row is read once; the checks that follow look at that copy only.
LoadBooking(c, b) ==
  /\ cancelPc[c] = "idle" /\ FreeWorker
  /\ \/ /\ booking[b] # None /\ MayCancel(Caller[c], b) /\ booking[b].status # "cancelled"
        /\ cancelPc' = [cancelPc EXCEPT ![c] = "loaded"]
        /\ target' = [target EXCEPT ![c] = b]
        /\ copy' = [copy EXCEPT ![c] = booking[b]]
     \/ /\ \/ /\ booking[b] = None
              /\ cancelPc' = [cancelPc EXCEPT ![c] = "notFound"]
           \/ /\ booking[b] # None /\ ~MayCancel(Caller[c], b)
              /\ cancelPc' = [cancelPc EXCEPT ![c] = "forbidden"]
           \/ /\ booking[b] # None /\ MayCancel(Caller[c], b) /\ booking[b].status = "cancelled"
              /\ cancelPc' = [cancelPc EXCEPT ![c] = "alreadyCancelled"]
        /\ UNCHANGED <<target, copy>>
  /\ UNCHANGED <<roomPrice, roomEdits, booking, createVars, adminVars>>

\* Faulty SaveCancelled: saves before it assigns the status.
SaveUnassigned(c) ==
  /\ cancelPc[c] = "loaded" /\ Storable(copy[c])
  /\ booking' = [booking EXCEPT ![target[c]] = copy[c]]
  /\ cancelPc' = [cancelPc EXCEPT ![c] = "saved"]
  /\ copy' = [copy EXCEPT ![c] = None]
  /\ UNCHANGED <<roomPrice, roomEdits, createVars, target, adminVars>>

\* save() of the whole copy: an UPDATE of every column or, when the row has been
\* deleted meanwhile, an INSERT that stores it again.  full_clean() runs first.
SaveCancelled(c) ==
  LET row == [copy[c] EXCEPT !.status = "cancelled"] IN
  /\ cancelPc[c] = "loaded"
  /\ \/ /\ Storable(row)
        /\ booking' = [booking EXCEPT ![target[c]] = row]
        /\ cancelPc' = [cancelPc EXCEPT ![c] = "saved"]
     \/ /\ ~Storable(row)
        /\ cancelPc' = [cancelPc EXCEPT ![c] = "failed"]
        /\ UNCHANGED booking
  /\ copy' = [copy EXCEPT ![c] = None]
  /\ UNCHANGED <<roomPrice, roomEdits, createVars, target, adminVars>>

\* notify() swallows every error of the channel layer: the answer is 200 regardless.
Notify(c) ==
  /\ cancelPc[c] = "saved"
  /\ cancelPc' = [cancelPc EXCEPT ![c] = "answered"]
  /\ UNCHANGED <<roomPrice, roomEdits, booking, createVars, target, copy, adminVars>>

-----------------------------------------------------------------------------
LoadRoom(rm) ==
  /\ rm \notin roomEdits /\ RoomExists(rm) /\ FreeWorker
  /\ roomEdits' = roomEdits \cup {rm}
  /\ UNCHANGED <<roomPrice, booking, createVars, cancelVars, adminVars>>

\* Like every save(): a room deleted since LoadRoom is stored again.
SaveRoom(rm, price) ==
  /\ rm \in roomEdits
  /\ roomPrice' = [roomPrice EXCEPT ![rm] = price]
  /\ roomEdits' = roomEdits \ {rm}
  /\ UNCHANGED <<booking, createVars, cancelVars, adminVars>>

\* Faulty DeleteRoom: no cascade.
DeleteRoomOnly(rm) ==
  /\ RoomExists(rm) /\ FreeWorker
  /\ roomPrice' = [roomPrice EXCEPT ![rm] = None]
  /\ UNCHANGED <<roomEdits, booking, createVars, cancelVars, adminVars>>

\* One transaction: on_delete=CASCADE takes the bookings of the room along.  (When an
\* INSERT slips in between, the foreign key aborts it and nothing changes.)
DeleteRoom(rm) ==
  /\ RoomExists(rm) /\ FreeWorker
  /\ roomPrice' = [roomPrice EXCEPT ![rm] = None]
  /\ booking' = [b \in CreateReqs |->
       IF booking[b] # None /\ booking[b].room = rm THEN None ELSE booking[b]]
  /\ UNCHANGED <<roomEdits, createVars, cancelVars, adminVars>>

-----------------------------------------------------------------------------
OpenForm(f, b) ==
  /\ form[f] = None /\ booking[b] # None /\ FreeWorker
  /\ form' = [form EXCEPT ![f] = [of |-> b, row |-> booking[b]]]
  /\ UNCHANGED <<roomPrice, roomEdits, booking, createVars, cancelVars, edited>>

\* Every field is posted back, so the row becomes the form: the row as OpenForm read it
\* with the administrator's changes.  No overlap check; a row that is gone is not saved.
SubmitForm(f, status, in, out) ==
  /\ form[f] # None /\ form[f].row # None /\ FreeWorker
  /\ LET b   == form[f].of
         row == [form[f].row EXCEPT !.status = status, !.checkIn = in, !.checkOut = out]
     IN \/ /\ booking[b] # None /\ Storable(row)
           /\ booking' = [booking EXCEPT ![b] = row]
           /\ edited' = edited \cup {b}
        \/ /\ booking[b] = None
           /\ UNCHANGED <<booking, edited>>
  /\ form' = [form EXCEPT ![f].row = None]
  /\ UNCHANGED <<roomPrice, roomEdits, createVars, cancelVars>>

DeleteBooking(b) ==
  /\ AdminForms # {} /\ booking[b] # None /\ FreeWorker
  /\ booking' = [booking EXCEPT ![b] = None]
  /\ UNCHANGED <<roomPrice, roomEdits, createVars, cancelVars, adminVars>>

-----------------------------------------------------------------------------
CreateStep == \E r \in CreateReqs : (\E s \in Stays : ReadRoom(r, s)) \/ CheckOverlap(r) \/ InsertBooking(r)
CancelStep == \E c \in CancelReqs : (\E b \in CreateReqs : LoadBooking(c, b)) \/ SaveCancelled(c) \/ Notify(c)
RoomStep   == \E rm \in Rooms : LoadRoom(rm) \/ (\E p \in Prices : SaveRoom(rm, p)) \/ DeleteRoom(rm)
AdminStep  ==
  \/ \E f \in AdminForms, b \in CreateReqs : OpenForm(f, b)
  \/ \E f \in AdminForms, s \in Status, in, out \in Days : SubmitForm(f, s, in, out)
  \/ \E b \in CreateReqs : DeleteBooking(b)

Next == CreateStep \/ CancelStep \/ RoomStep \/ AdminStep

Spec == Init /\ [][Next]_vars

-----------------------------------------------------------------------------
\* What full_clean() demands of a row (models.py: clean(), max_digits, the foreign key)
\* holds of every stored row, whichever statement wrote it last: the insert, the
\* whole-row save of a cancel, an admin form or the cascade of a room's deletion.
StoredRowsAreClean == \A b \in CreateReqs : booking[b] # None => Storable(booking[b])

\* Two bookings made through the API hold the same room on the same night only when each
\* was inserted after the other's overlap check had run: the one hole is the window
\* between check and insert; no order of cancels, deletions, room updates and stale saves
\* opens another.  Bookings an administrator saved are exempt: that form does not check.
OverlapOnlyByRace ==
  \A a, b \in CreateReqs \ edited :
    a # b /\ Active(a) /\ Active(b) /\ Overlaps(booking[a], booking[b])
      => a \notin seen[b] /\ b \notin seen[a]

Succeeded(c) == cancelPc[c] \in {"saved", "answered"}

\* A cancel that saved releases the room for good, however stale the copies are that
\* other requests save after it: only an administrator can make the booking count again.
CancelSticks ==
  \A c \in CancelReqs :
    Succeeded(c) /\ target[c] \notin edited => ~Active(target[c])

\* A booking that was cancelled, completed or deleted holds its room again only through
\* an admin form: a cancel that stores a deleted row again stores it as cancelled.
RevivedOnlyByAdmin ==
  [][\A b \in CreateReqs :
       createPc[b] = "created" /\ ~Active(b) /\ Active(b)'
         => \E f \in AdminForms : form[f] # None /\ form[f].of = b /\ form'[f] # form[f]]_vars

\* Every request that has begun is answered, on its failing paths too: the room deleted
\* under it, a total that is too large, the booking deleted, edited or cancelled by another
\* since it was loaded, a notification that failed.  A request is sent once, so in the end
\* nobody waits.
RequestsAnswered ==
  <>[](/\ \A r \in CreateReqs : createPc[r] \in {"idle"} \cup CreateAnswers
       /\ \A c \in CancelReqs : cancelPc[c] \in {"idle"} \cup CancelAnswers)

\* "Overlapping dates with an existing PENDING booking are rejected" (bookings/tests.py):
\* no room is promised twice for a night.  True of a serial server only.
NoDoubleBooking ==
  \A a, b \in CreateReqs \ edited :
    a # b /\ Active(a) /\ Active(b) => ~Overlaps(booking[a], booking[b])

\* "Cancelling an already-cancelled booking returns 400" (bookings/tests.py): one cancel
\* per booking succeeds, and so notifies, unless an administrator revived the booking.
\* True of a serial server only.
OneCancelSucceeds ==
  \A c, d \in CancelReqs :
    c # d /\ Succeeded(c) /\ Succeeded(d) /\ target[c] = target[d] => target[c] \in edited

\* What a lock would have to give.  ChecksApart: two requests for overlapping stays are
\* never both between check and insert (a lock on the room, held from one to the other).
\* CancelsApart: two cancels of one booking are never both between load and save (a lock
\* on the booking's row).  The code takes neither lock; one thread gives both.
ChecksApart ==
  \A r, q \in CreateReqs :
    r # q /\ createPc[r] = "checked" /\ createPc[q] = "checked" => ~Overlaps(ask[r], ask[q])

CancelsApart ==
  \A c, d \in CancelReqs :
    c # d /\ cancelPc[c] = "loaded" /\ cancelPc[d] = "loaded" => target[c] # target[d]

\* A serial server implements Reservations: the insert is the step that reserves, and a
\* save, a deletion or a cascade that makes rows inactive is the step that releases.
Hold(b) ==
  IF Active(b)
  THEN [room |-> booking[b].room, checkIn |-> booking[b].checkIn, checkOut |-> booking[b].checkOut]
  ELSE None

Promise == INSTANCE Reservations WITH
  Names <- CreateReqs, NoHold <- None,
  held <- [b \in CreateReqs |-> Hold(b)],
  reserved <- {b \in CreateReqs : createPc[b] = "created"}

ImplementsReservations == Promise!RSpec
=============================================================================
