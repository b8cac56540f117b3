--------------------------- MODULE BookingsProofs ---------------------------
(***************************************************************************)
(* Theorems about Bookings, for every number of requests, rooms, days and  *)
(* worker threads.                                                         *)
(***************************************************************************)
EXTENDS Bookings, FiniteSetTheorems, TLAPS

-----------------------------------------------------------------------------
\* A request in flight has the local variables its next step reads, and a request that
\* works on a booking works on one that was created.
AskOK  == \A r \in CreateReqs : createPc[r] \in {"quoted", "checked"} => ask[r] \in Asks
CopyOK == \A c \in CancelReqs : cancelPc[c] = "loaded" => copy[c] \in Rows
TargetOK == \A c \in CancelReqs : cancelPc[c] = "loaded" \/ Succeeded(c)
              => target[c] \in CreateReqs /\ createPc[target[c]] = "created"
RowsCreated  == \A b \in CreateReqs : booking[b] # None => createPc[b] = "created"
FormsCreated == \A f \in AdminForms : form[f] # None => createPc[form[f].of] = "created"

LocalsOK == AskOK /\ CopyOK /\ TargetOK /\ RowsCreated /\ FormsCreated

TypeInv == TypeOK /\ LocalsOK

\* The total of a row is a natural number once its dates are in order.
LEMMA NewRowType ==
  ASSUME NEW a \in Asks, Chronological(a)
  PROVE  NewRow(a) \in Rows
<1>1. a.price \in Nat /\ a.room \in Rooms /\ a.checkIn \in Days /\ a.checkOut \in Days
  BY DataAssumption DEF Asks
<1>2. a.checkIn \in Int /\ a.checkOut \in Int
  BY <1>1, DataAssumption
<1>3. Nights(a) \in Nat
  BY <1>2 DEF Chronological, Nights
<1>4. a.price * Nights(a) \in Nat
  BY <1>1, <1>3
<1> QED
  BY <1>1, <1>4 DEF NewRow, Rows, Status

LEMMA TypeInit == Init => TypeInv
BY DEF Init, TypeInv, TypeOK, LocalsOK, AskOK, CopyOK, TargetOK, RowsCreated, FormsCreated,
       Succeeded

LEMMA TypeCreate == TypeInv /\ CreateStep => TypeInv'
<1> SUFFICES ASSUME TypeInv, CreateStep PROVE TypeInv'
  OBVIOUS
<1>1. PICK r \in CreateReqs : (\E s \in Stays : ReadRoom(r, s)) \/ CheckOverlap(r) \/ InsertBooking(r)
  BY DEF CreateStep
<1>2. UNCHANGED <<roomPrice, roomEdits, cancelPc, target, copy, form, edited>>
  BY <1>1 DEF ReadRoom, CheckOverlap, InsertBooking, cancelVars, adminVars
<1>3. /\ \A x \in CreateReqs : createPc[x] = "created" => createPc'[x] = "created"
      /\ createPc' \in [CreateReqs -> {"idle", "quoted", "checked"} \cup CreateAnswers]
  BY <1>1 DEF ReadRoom, CheckOverlap, InsertBooking, TypeInv, TypeOK, CreateAnswers
<1>4. /\ \A x \in CreateReqs : createPc'[x] \in {"quoted", "checked"} => ask'[x] \in Asks
      /\ ask' \in [CreateReqs -> Asks \cup {None}]
  <2>1. ASSUME NEW s \in Stays, ReadRoom(r, s), RoomExists(s.room)
        PROVE  [room |-> s.room, checkIn |-> s.checkIn, checkOut |-> s.checkOut,
                price |-> roomPrice[s.room]] \in Asks
    BY <2>1 DEF Stays, Asks, RoomExists, TypeInv, TypeOK
  <2> QED
    BY <1>1, <2>1 DEF ReadRoom, CheckOverlap, InsertBooking, TypeInv, TypeOK, LocalsOK, AskOK
<1>5. /\ booking' \in [CreateReqs -> Rows \cup {None}]
      /\ \A b \in CreateReqs : booking'[b] # None => createPc'[b] = "created"
  <2>1. ASSUME InsertBooking(r), Storable(NewRow(ask[r])) PROVE NewRow(ask[r]) \in Rows
    <3>1. ask[r] \in Asks
      BY <2>1 DEF InsertBooking, TypeInv, LocalsOK, AskOK
    <3>2. Chronological(ask[r])
      BY <2>1 DEF Storable, Chronological, NewRow
    <3> QED
      BY <3>1, <3>2, NewRowType
  <2> QED
    BY <1>1, <1>3, <2>1 DEF ReadRoom, CheckOverlap, InsertBooking, TypeInv, TypeOK, LocalsOK, RowsCreated
<1>6. seen' \in [CreateReqs -> SUBSET CreateReqs]
  BY <1>1 DEF ReadRoom, CheckOverlap, InsertBooking, TypeInv, TypeOK
<1>7. TypeOK'
  BY <1>2, <1>3, <1>4, <1>5, <1>6 DEF TypeInv, TypeOK
<1>8. (CopyOK /\ TargetOK)'
  BY <1>2, <1>3 DEF TypeInv, LocalsOK, CopyOK, TargetOK, Succeeded
<1>9. FormsCreated'
  BY <1>2, <1>3 DEF TypeInv, TypeOK, Forms, LocalsOK, FormsCreated
<1> QED
  BY <1>4, <1>5, <1>7, <1>8, <1>9 DEF TypeInv, LocalsOK, AskOK, RowsCreated

LEMMA TypeCancel == TypeInv /\ CancelStep => TypeInv'
<1> SUFFICES ASSUME TypeInv, CancelStep PROVE TypeInv'
  OBVIOUS
<1> USE DEF TypeInv, TypeOK, LocalsOK, AskOK, CopyOK, TargetOK, RowsCreated, FormsCreated,
            Succeeded, CancelAnswers
<1>1. PICK c \in CancelReqs : (\E b \in CreateReqs : LoadBooking(c, b)) \/ SaveCancelled(c) \/ Notify(c)
  BY DEF CancelStep
<1>2. ASSUME NEW b \in CreateReqs, LoadBooking(c, b) PROVE TypeInv'
  BY <1>2 DEF LoadBooking, createVars, adminVars
<1>3. CASE SaveCancelled(c)
  <2>1. [copy[c] EXCEPT !.status = "cancelled"] \in Rows
    BY <1>3 DEF SaveCancelled, Rows, Status
  <2> QED
    BY <1>3, <2>1 DEF SaveCancelled, createVars, adminVars
<1>4. CASE Notify(c)
  BY <1>4 DEF Notify, createVars, adminVars
<1> QED
  BY <1>1, <1>2, <1>3, <1>4

LEMMA TypeRoom == TypeInv /\ RoomStep => TypeInv'
<1> SUFFICES ASSUME TypeInv, RoomStep PROVE TypeInv'
  OBVIOUS
<1> USE DEF TypeInv, TypeOK, LocalsOK, AskOK, CopyOK, TargetOK, RowsCreated, FormsCreated,
            Succeeded
<1>1. PICK rm \in Rooms : LoadRoom(rm) \/ (\E p \in Prices : SaveRoom(rm, p)) \/ DeleteRoom(rm)
  BY DEF RoomStep
<1>2. CASE LoadRoom(rm)
  BY <1>2 DEF LoadRoom, createVars, cancelVars, adminVars
<1>3. ASSUME NEW p \in Prices, SaveRoom(rm, p) PROVE TypeInv'
  BY <1>3 DEF SaveRoom, createVars, cancelVars, adminVars
<1>4. CASE DeleteRoom(rm)
  BY <1>4 DEF DeleteRoom, createVars, cancelVars, adminVars
<1> QED
  BY <1>1, <1>2, <1>3, <1>4

LEMMA TypeAdmin == TypeInv /\ AdminStep => TypeInv'
<1> SUFFICES ASSUME TypeInv, AdminStep PROVE TypeInv'
  OBVIOUS
<1> USE DEF TypeInv, TypeOK, LocalsOK, AskOK, CopyOK, TargetOK, RowsCreated, FormsCreated,
            Succeeded
<1>1. ASSUME NEW f \in AdminForms, NEW b \in CreateReqs, OpenForm(f, b) PROVE TypeInv'
  BY <1>1 DEF OpenForm, Forms, createVars, cancelVars
<1>2. ASSUME NEW f \in AdminForms, NEW s \in Status, NEW in \in Days, NEW out \in Days,
             SubmitForm(f, s, in, out)
      PROVE  TypeInv'
  <2>1. form[f] \in Forms /\ form[f].of \in CreateReqs /\ form[f].row \in Rows
    BY <1>2 DEF SubmitForm, Forms
  <2>2. [form[f].row EXCEPT !.status = s, !.checkIn = in, !.checkOut = out] \in Rows
    BY <2>1 DEF Rows
  <2>3. /\ form' = [form EXCEPT ![f] = [of |-> form[f].of, row |-> None]]
        /\ [of |-> form[f].of, row |-> None] \in Forms
    <3>1. form' = [form EXCEPT ![f] = [form[f] EXCEPT !.row = None]]
      BY <1>2 DEF SubmitForm
    <3>2. [form[f] EXCEPT !.row = None] = [of |-> form[f].of, row |-> None]
      BY <2>1 DEF Forms
    <3> QED
      BY <2>1, <3>1, <3>2 DEF Forms
  <2>4. /\ booking' \in [CreateReqs -> Rows \cup {None}]
        /\ edited' \subseteq CreateReqs
        /\ \A b \in CreateReqs : booking'[b] # None => booking[b] # None
    BY <1>2, <2>1, <2>2 DEF SubmitForm
  <2>5. UNCHANGED <<roomPrice, roomEdits, createVars, cancelVars>>
    BY <1>2 DEF SubmitForm
  <2>6. TypeOK'
    BY <2>3, <2>4, <2>5 DEF createVars, cancelVars
  <2>7. FormsCreated'
    BY <2>1, <2>3, <2>5, <1>2 DEF SubmitForm, createVars
  <2> QED
    BY <2>4, <2>5, <2>6, <2>7 DEF createVars, cancelVars
<1>3. ASSUME NEW b \in CreateReqs, DeleteBooking(b) PROVE TypeInv'
  BY <1>3 DEF DeleteBooking, createVars, cancelVars, adminVars
<1> QED
  BY <1>1, <1>2, <1>3 DEF AdminStep

LEMMA TypeStep == TypeInv /\ [Next]_vars => TypeInv'
<1>1. TypeInv /\ UNCHANGED vars => TypeInv'
  BY DEF TypeInv, TypeOK, LocalsOK, AskOK, CopyOK, TargetOK, RowsCreated, FormsCreated,
         Succeeded, vars, createVars, cancelVars, adminVars
<1> QED
  BY <1>1, TypeCreate, TypeCancel, TypeRoom, TypeAdmin DEF Next

\* Every variable keeps its type, in every interleaving of requests and forms.
THEOREM TypeCorrect == Spec => []TypeOK
<1>1. TypeInv => TypeOK
  BY DEF TypeInv
<1> QED
  BY <1>1, TypeInit, TypeStep, PTL DEF Spec

-----------------------------------------------------------------------------
\* Why overlaps come from races only.  What a check saw had been created (SeenCreated),
\* and a request that passed its check saw no active booking in its way (LateCheck): at
\* its insert, then, a booking in its way is one it did not see, and cannot have seen it.
SeenCreated == \A r, b \in CreateReqs : b \in seen[r] => createPc[b] = "created"
LateCheck ==
  \A a \in CreateReqs \ edited, r \in CreateReqs :
    createPc[r] = "checked" /\ Active(a) /\ Overlaps(booking[a], ask[r]) => a \notin seen[r]

RaceInv == SeenCreated /\ LateCheck /\ OverlapOnlyByRace

SafetyInv == TypeInv /\ StoredRowsAreClean /\ RaceInv /\ CancelSticks

LEMMA SafetyInit == Init => SafetyInv
BY TypeInit DEF Init, SafetyInv, StoredRowsAreClean, RaceInv, SeenCreated, LateCheck,
   OverlapOnlyByRace, CancelSticks, Active, Succeeded

\* Steps that create nothing: the bookings no administrator saved keep their row or
\* stop counting.
Settles ==
  /\ edited \subseteq edited' /\ UNCHANGED <<createPc, ask, seen>>
  /\ \A a \in CreateReqs \ edited' : Active(a)' => Active(a) /\ booking'[a] = booking[a]

LEMMA RaceSettles == RaceInv /\ Settles => RaceInv'
BY DEF RaceInv, SeenCreated, LateCheck, OverlapOnlyByRace, Settles, Active, Overlaps

LEMMA CleanStep == TypeInv /\ StoredRowsAreClean /\ Next => StoredRowsAreClean'
<1> SUFFICES ASSUME TypeInv, StoredRowsAreClean, Next PROVE StoredRowsAreClean'
  OBVIOUS
<1> USE DEF StoredRowsAreClean, Storable, RoomExists
<1>1. CASE CreateStep
  BY <1>1 DEF CreateStep, ReadRoom, CheckOverlap, InsertBooking, TypeInv, TypeOK
<1>2. CASE CancelStep
  BY <1>2 DEF CancelStep, LoadBooking, SaveCancelled, Notify, TypeInv, TypeOK
<1>3. CASE RoomStep
  <2>1. ASSUME NEW rm \in Rooms, LoadRoom(rm) PROVE StoredRowsAreClean'
    BY <2>1 DEF LoadRoom
  <2>2. ASSUME NEW rm \in Rooms, NEW p \in Prices, SaveRoom(rm, p) PROVE StoredRowsAreClean'
    <3>1. p # None
      BY DataAssumption
    <3> QED
      BY <2>2, <3>1 DEF SaveRoom, TypeInv, TypeOK, Rows
  <2>3. ASSUME NEW rm \in Rooms, DeleteRoom(rm) PROVE StoredRowsAreClean'
    BY <2>3 DEF DeleteRoom, TypeInv, TypeOK, Rows
  <2> QED
    BY <1>3, <2>1, <2>2, <2>3 DEF RoomStep
<1>4. CASE AdminStep
  <2>1. ASSUME NEW f \in AdminForms, NEW b \in CreateReqs, OpenForm(f, b)
        PROVE  StoredRowsAreClean'
    BY <2>1 DEF OpenForm
  <2>2. ASSUME NEW f \in AdminForms, NEW s \in Status, NEW in \in Days, NEW out \in Days,
               SubmitForm(f, s, in, out)
        PROVE  StoredRowsAreClean'
    BY <2>2 DEF SubmitForm, TypeInv, TypeOK
  <2>3. ASSUME NEW b \in CreateReqs, DeleteBooking(b) PROVE StoredRowsAreClean'
    BY <2>3 DEF DeleteBooking, TypeInv, TypeOK
  <2> QED
    BY <1>4, <2>1, <2>2, <2>3 DEF AdminStep
<1> QED
  BY <1>1, <1>2, <1>3, <1>4 DEF Next

LEMMA OthersSettle == TypeInv /\ (CancelStep \/ RoomStep \/ AdminStep) => Settles
<1> SUFFICES ASSUME TypeInv, CancelStep \/ RoomStep \/ AdminStep PROVE Settles
  OBVIOUS
<1>1. CASE CancelStep
  <2>1. ASSUME NEW c \in CancelReqs, SaveCancelled(c) PROVE Settles
    <3>1. [copy[c] EXCEPT !.status = "cancelled"].status = "cancelled"
      BY <2>1 DEF SaveCancelled, TypeInv, LocalsOK, CopyOK, Rows
    <3> QED
      BY <2>1, <3>1 DEF SaveCancelled, Settles, Active, createVars, adminVars, TypeInv, TypeOK
  <2>2. ASSUME NEW c \in CancelReqs, NEW b \in CreateReqs, LoadBooking(c, b) PROVE Settles
    BY <2>2 DEF LoadBooking, Settles, Active, createVars, adminVars
  <2>3. ASSUME NEW c \in CancelReqs, Notify(c) PROVE Settles
    BY <2>3 DEF Notify, Settles, Active, createVars, adminVars
  <2> QED
    BY <1>1, <2>1, <2>2, <2>3 DEF CancelStep
<1>2. CASE RoomStep
  BY <1>2 DEF RoomStep, LoadRoom, SaveRoom, DeleteRoom, Settles, Active, createVars, adminVars
<1>3. CASE AdminStep
  BY <1>3 DEF AdminStep, OpenForm, SubmitForm, DeleteBooking, Settles, Active, createVars, adminVars,
              TypeInv, TypeOK
<1> QED
  BY <1>1, <1>2, <1>3

LEMMA RaceStep == TypeInv /\ RaceInv /\ Next => RaceInv'
<1> SUFFICES ASSUME TypeInv, RaceInv, Next PROVE RaceInv'
  OBVIOUS
<1>1. ASSUME NEW r \in CreateReqs, NEW s \in Stays, ReadRoom(r, s) PROVE RaceInv'
  BY <1>1 DEF ReadRoom, RaceInv, SeenCreated, LateCheck, OverlapOnlyByRace, Active, adminVars,
              TypeInv, TypeOK
<1>2. ASSUME NEW r \in CreateReqs, CheckOverlap(r) PROVE RaceInv'
  <2>1. \A b \in CreateReqs : createPc'[b] = "created" <=> createPc[b] = "created"
    BY <1>2 DEF CheckOverlap, TypeInv, TypeOK
  <2>2. SeenCreated'
    BY <1>2, <2>1 DEF CheckOverlap, RaceInv, SeenCreated, TypeInv, TypeOK
  <2>3. LateCheck'
    BY <1>2 DEF CheckOverlap, Conflicts, RaceInv, LateCheck, Active, adminVars, TypeInv, TypeOK
  <2>4. \A b \in CreateReqs : Active(b) => b # r
    BY <1>2 DEF CheckOverlap, Active, TypeInv, LocalsOK, RowsCreated
  <2>5. OverlapOnlyByRace'
    BY <1>2, <2>4 DEF CheckOverlap, RaceInv, OverlapOnlyByRace, Active, adminVars, TypeInv, TypeOK
  <2> QED
    BY <2>2, <2>3, <2>5 DEF RaceInv
<1>3. ASSUME NEW r \in CreateReqs, InsertBooking(r) PROVE RaceInv'
  <2>1. /\ \A b \in CreateReqs \ {r} : booking'[b] = booking[b] /\ createPc'[b] = createPc[b]
                                      /\ ask'[b] = ask[b]
        /\ createPc'[r] # "checked" /\ UNCHANGED <<seen, edited>>
    BY <1>3 DEF InsertBooking, adminVars, TypeInv, TypeOK
  <2>2. \A b \in CreateReqs : r \notin seen[b]
    BY <1>3 DEF InsertBooking, RaceInv, SeenCreated
  <2>3. SeenCreated'
    BY <1>3, <2>1 DEF InsertBooking, RaceInv, SeenCreated
  <2>4. LateCheck'
    BY <2>1, <2>2 DEF RaceInv, LateCheck, Active
  <2>5. \A a \in CreateReqs \ edited : a # r /\ Active(a) /\ Active(r)' /\ Overlaps(booking[a], booking'[r])
          => a \notin seen[r]
    <3>1. CASE booking'[r] = NewRow(ask[r])
      <4>1. booking'[r].room = ask[r].room /\ booking'[r].checkIn = ask[r].checkIn
            /\ booking'[r].checkOut = ask[r].checkOut
        BY <3>1 DEF NewRow
      <4> QED
        BY <4>1, <1>3 DEF InsertBooking, RaceInv, LateCheck, Overlaps
    <3>2. CASE booking'[r] = booking[r]
      <4>1. booking[r] = None
        BY <1>3 DEF InsertBooking, TypeInv, LocalsOK, RowsCreated
      <4> QED
        BY <3>2, <4>1 DEF Active
    <3> QED
      BY <1>3, <3>1, <3>2 DEF InsertBooking, TypeInv, TypeOK
  <2>6. OverlapOnlyByRace'
    <3> SUFFICES ASSUME NEW a \in CreateReqs \ edited, NEW b \in CreateReqs \ edited, a # b,
                        Active(a)', Active(b)', Overlaps(booking'[a], booking'[b])
                 PROVE  a \notin seen[b] /\ b \notin seen[a]
      BY <2>1 DEF OverlapOnlyByRace
    <3>1. Overlaps(booking'[b], booking'[a])
      BY DEF Overlaps
    <3>2. CASE a # r /\ b # r
      BY <2>1, <3>2 DEF RaceInv, OverlapOnlyByRace, Active
    <3>3. CASE a = r
      BY <2>1, <2>2, <2>5, <3>1, <3>3 DEF Active
    <3>4. CASE b = r
      BY <2>1, <2>2, <2>5, <3>4 DEF Active
    <3> QED
      BY <3>2, <3>3, <3>4
  <2> QED
    BY <2>3, <2>4, <2>6 DEF RaceInv
<1>4. CASE CancelStep \/ RoomStep \/ AdminStep
  BY <1>4, OthersSettle, RaceSettles
<1> QED
  BY <1>1, <1>2, <1>3, <1>4 DEF Next, CreateStep

LEMMA CancelSticksStep == TypeInv /\ CancelSticks /\ Next => CancelSticks'
<1> SUFFICES ASSUME TypeInv, CancelSticks, Next PROVE CancelSticks'
  OBVIOUS
<1>1. CASE CreateStep
  <2>1. PICK r \in CreateReqs : (\E s \in Stays : ReadRoom(r, s)) \/ CheckOverlap(r) \/ InsertBooking(r)
    BY <1>1 DEF CreateStep
  <2>2. /\ \A b \in CreateReqs \ {r} : booking'[b] = booking[b]
        /\ booking'[r] = booking[r] \/ createPc[r] # "created"
        /\ UNCHANGED <<cancelPc, target, edited>>
    BY <2>1 DEF ReadRoom, CheckOverlap, InsertBooking, cancelVars, adminVars, TypeInv, TypeOK
  <2> QED
    BY <2>2 DEF CancelSticks, Succeeded, Active, TypeInv, LocalsOK, TargetOK
<1>2. CASE CancelStep
  <2>1. ASSUME NEW c \in CancelReqs, SaveCancelled(c) PROVE CancelSticks'
    <3>1. [copy[c] EXCEPT !.status = "cancelled"].status = "cancelled"
      BY <2>1 DEF SaveCancelled, TypeInv, LocalsOK, CopyOK, Rows
    <3>2. target[c] \in CreateReqs
      BY <2>1 DEF SaveCancelled, TypeInv, LocalsOK, TargetOK
    <3>3. \A b \in CreateReqs : Active(b)' => Active(b) /\ (b = target[c] => cancelPc'[c] = "failed")
      BY <2>1, <3>1, <3>2 DEF SaveCancelled, Active, TypeInv, TypeOK
    <3>4. /\ \A d \in CancelReqs \ {c} : cancelPc'[d] = cancelPc[d]
          /\ UNCHANGED <<target, edited>>
      BY <2>1 DEF SaveCancelled, adminVars, TypeInv, TypeOK
    <3> QED
      BY <3>2, <3>3, <3>4 DEF CancelSticks, Succeeded, TypeInv, LocalsOK, TargetOK
  <2>2. ASSUME NEW c \in CancelReqs, NEW b \in CreateReqs, LoadBooking(c, b) PROVE CancelSticks'
    BY <2>2 DEF LoadBooking, CancelSticks, Succeeded, Active, adminVars, TypeInv, TypeOK
  <2>3. ASSUME NEW c \in CancelReqs, Notify(c) PROVE CancelSticks'
    BY <2>3 DEF Notify, CancelSticks, Succeeded, Active, adminVars, TypeInv, TypeOK
  <2> QED
    BY <1>2, <2>1, <2>2, <2>3 DEF CancelStep
<1>3. CASE RoomStep \/ AdminStep
  <2>1. UNCHANGED cancelVars /\ edited \subseteq edited'
    BY <1>3 DEF RoomStep, LoadRoom, SaveRoom, DeleteRoom, AdminStep, OpenForm, SubmitForm,
                DeleteBooking, adminVars
  <2>2. \A a \in CreateReqs \ edited' : Active(a)' => Active(a)
    BY <1>3 DEF RoomStep, LoadRoom, SaveRoom, DeleteRoom, AdminStep, OpenForm, SubmitForm,
                DeleteBooking, Active, TypeInv, TypeOK
  <2> QED
    BY <2>1, <2>2 DEF CancelSticks, Succeeded, cancelVars, TypeInv, LocalsOK, TargetOK
<1> QED
  BY <1>1, <1>2, <1>3 DEF Next

LEMMA SafetyStep == SafetyInv /\ [Next]_vars => SafetyInv'
<1>1. SafetyInv /\ UNCHANGED vars => SafetyInv'
  BY TypeStep DEF SafetyInv, StoredRowsAreClean, Storable, RoomExists, Chronological, RaceInv, SeenCreated,
     LateCheck, OverlapOnlyByRace, CancelSticks, Active, Succeeded, vars, createVars, cancelVars, adminVars
<1> QED
  BY <1>1, TypeStep, CleanStep, RaceStep, CancelSticksStep DEF SafetyInv

LEMMA SafetyCorrect == Spec => []SafetyInv
BY SafetyInit, SafetyStep, PTL DEF Spec

\* Whatever interleaves, every stored row passes full_clean().
THEOREM RowsStayClean == Spec => []StoredRowsAreClean
<1>1. SafetyInv => StoredRowsAreClean
  BY DEF SafetyInv
<1> QED
  BY <1>1, SafetyCorrect, PTL

\* Two API bookings that hold one room on one night were each checked before the other
\* was inserted, with any number of requests, threads and administrators.
THEOREM OverlapsAreRaces == Spec => []OverlapOnlyByRace
<1>1. SafetyInv => OverlapOnlyByRace
  BY DEF SafetyInv, RaceInv
<1> QED
  BY <1>1, SafetyCorrect, PTL

\* A booking whose cancel succeeded no longer holds its room.
THEOREM CancelsStick == Spec => []CancelSticks
<1>1. SafetyInv => CancelSticks
  BY DEF SafetyInv
<1> QED
  BY <1>1, SafetyCorrect, PTL

LEMMA RevivalStep ==
  ASSUME SafetyInv, Next, NEW b \in CreateReqs, createPc[b] = "created", ~Active(b), Active(b)'
  PROVE  \E f \in AdminForms : form[f] # None /\ form[f].of = b /\ form'[f] # form[f]
<1> USE DEF SafetyInv, TypeInv, TypeOK
<1>1. ~CreateStep
  BY DEF CreateStep, ReadRoom, CheckOverlap, InsertBooking, Active
<1>2. ~CancelStep
  <2>1. ASSUME NEW c \in CancelReqs, SaveCancelled(c) PROVE FALSE
    <3>1. [copy[c] EXCEPT !.status = "cancelled"].status = "cancelled"
      BY <2>1 DEF SaveCancelled, LocalsOK, CopyOK, Rows
    <3> QED
      BY <2>1, <3>1 DEF SaveCancelled, Active
  <2> QED
    BY <2>1 DEF CancelStep, LoadBooking, Notify, Active
<1>3. ~RoomStep
  BY DEF RoomStep, LoadRoom, SaveRoom, DeleteRoom, Active
<1>4. ASSUME NEW f \in AdminForms, NEW s \in Status, NEW in \in Days, NEW out \in Days,
             SubmitForm(f, s, in, out)
      PROVE  form[f] # None /\ form[f].of = b /\ form'[f] # form[f]
  <2>1. form[f] \in Forms /\ form[f].row # None
    BY <1>4 DEF SubmitForm
  <2>2. form'[f].row = None
    BY <1>4, <2>1 DEF SubmitForm, Forms
  <2>3. form[f].of = b
    BY <1>4 DEF SubmitForm, Active
  <2> QED
    BY <1>4, <2>1, <2>2, <2>3 DEF SubmitForm
<1>5. ASSUME NEW f \in AdminForms, NEW a \in CreateReqs, OpenForm(f, a) PROVE FALSE
  BY <1>5 DEF OpenForm, Active
<1>6. ASSUME NEW a \in CreateReqs, DeleteBooking(a) PROVE FALSE
  BY <1>6 DEF DeleteBooking, Active
<1> QED
  BY <1>1, <1>2, <1>3, <1>4, <1>5, <1>6 DEF Next, AdminStep

\* A booking that stopped counting counts again only through an admin form: no stale
\* save of a cancel, and no row it stores again, makes a room less free.
THEOREM OnlyAdminRevives == Spec => RevivedOnlyByAdmin
<1>1. SafetyInv /\ [Next]_vars =>
        [\A b \in CreateReqs :
           createPc[b] = "created" /\ ~Active(b) /\ Active(b)'
             => \E f \in AdminForms : form[f] # None /\ form[f].of = b /\ form'[f] # form[f]]_vars
  BY RevivalStep
<1> QED
  BY <1>1, SafetyCorrect, PTL DEF Spec, RevivedOnlyByAdmin

-----------------------------------------------------------------------------
\* The one hole is the window between check and insert: when no two requests for
\* overlapping stays are in it together, what a request checked is still true when it
\* inserts (StillFree), on any number of threads and with the administrator at work.
StillFree ==
  \A a \in CreateReqs \ edited, r \in CreateReqs :
    createPc[r] = "checked" /\ Active(a) => ~Overlaps(booking[a], ask[r])

ApartInv == StillFree /\ NoDoubleBooking

LEMMA ApartInit == Init => ApartInv
BY DEF Init, ApartInv, StillFree, NoDoubleBooking, Active

LEMMA ApartSettles == ApartInv /\ Settles => ApartInv'
BY DEF ApartInv, StillFree, NoDoubleBooking, Settles, Active, Overlaps

LEMMA ApartInsert ==
  ASSUME TypeInv, ApartInv, ChecksApart, NEW r \in CreateReqs, InsertBooking(r)
  PROVE  ApartInv'
<1>1. /\ \A b \in CreateReqs \ {r} : booking'[b] = booking[b] /\ createPc'[b] = createPc[b]
                                    /\ ask'[b] = ask[b]
      /\ createPc[r] = "checked" /\ createPc'[r] # "checked" /\ UNCHANGED edited
  BY DEF InsertBooking, adminVars, TypeInv, TypeOK
<1>2. Active(r)' => /\ booking'[r].room = ask[r].room
                    /\ booking'[r].checkIn = ask[r].checkIn
                    /\ booking'[r].checkOut = ask[r].checkOut
  <2>1. booking[r] = None
    BY DEF InsertBooking, TypeInv, LocalsOK, RowsCreated
  <2>2. booking'[r] = NewRow(ask[r]) \/ booking'[r] = None
    BY <2>1 DEF InsertBooking, TypeInv, TypeOK
  <2> QED
    BY <2>2 DEF Active, NewRow
<1>3. \A q \in CreateReqs : createPc'[q] = "checked" /\ Active(r)' => ~Overlaps(booking'[r], ask'[q])
  BY <1>1, <1>2 DEF ChecksApart, Overlaps
<1>4. \A a \in CreateReqs \ edited : a # r /\ Active(a)' /\ Active(r)'
        => ~Overlaps(booking'[a], booking'[r]) /\ ~Overlaps(booking'[r], booking'[a])
  BY <1>1, <1>2 DEF ApartInv, StillFree, Active, Overlaps
<1>5. StillFree'
  BY <1>1, <1>3 DEF ApartInv, StillFree, Active
<1>6. NoDoubleBooking'
  BY <1>1, <1>4 DEF ApartInv, NoDoubleBooking, Active
<1> QED
  BY <1>5, <1>6 DEF ApartInv

LEMMA ApartStep == SafetyInv /\ ApartInv /\ ChecksApart /\ [Next]_vars => ApartInv'
<1> SUFFICES ASSUME SafetyInv, ApartInv, ChecksApart, [Next]_vars PROVE ApartInv'
  OBVIOUS
<1> USE DEF SafetyInv
<1>1. ASSUME NEW r \in CreateReqs, NEW s \in Stays, ReadRoom(r, s) PROVE ApartInv'
  BY <1>1 DEF ReadRoom, ApartInv, StillFree, NoDoubleBooking, Active, adminVars, TypeInv, TypeOK
<1>2. ASSUME NEW r \in CreateReqs, CheckOverlap(r) PROVE ApartInv'
  BY <1>2 DEF CheckOverlap, Conflicts, ApartInv, StillFree, NoDoubleBooking, Active, adminVars,
              TypeInv, TypeOK
<1>3. ASSUME NEW r \in CreateReqs, InsertBooking(r) PROVE ApartInv'
  BY <1>3, ApartInsert
<1>4. CASE CancelStep \/ RoomStep \/ AdminStep
  BY <1>4, OthersSettle, ApartSettles
<1>5. CASE UNCHANGED vars
  BY <1>5, ApartSettles DEF vars, createVars, adminVars, Settles, Active
<1> QED
  BY <1>1, <1>2, <1>3, <1>4, <1>5 DEF Next, CreateStep

\* Any number of threads: a lock that keeps overlapping requests out of the window
\* between check and insert is all it takes for no room to be promised twice.
THEOREM LockedChecksNeverDoubleBook == Spec /\ []ChecksApart => []NoDoubleBooking
<1>1. ApartInv => NoDoubleBooking
  BY DEF ApartInv
<1> QED
  BY <1>1, ApartInit, ApartStep, SafetyCorrect, PTL DEF Spec

-----------------------------------------------------------------------------
\* Cancels: a booking whose cancel saved shows as cancelled, or is gone, until an
\* administrator saves it, so a second cancel that succeeds had loaded it before that.
Closed(b) == booking[b] = None \/ booking[b].status = "cancelled"

CancelInv ==
  /\ \A c \in CancelReqs : Succeeded(c) /\ target[c] \notin edited => Closed(target[c])
  /\ \A c, d \in CancelReqs :
       c # d /\ Succeeded(c) /\ (Succeeded(d) \/ cancelPc[d] = "loaded") /\ target[c] = target[d]
         => target[c] \in edited

LEMMA CancelInvStep == SafetyInv /\ CancelInv /\ CancelsApart /\ [Next]_vars => CancelInv'
<1> SUFFICES ASSUME SafetyInv, CancelInv, CancelsApart, [Next]_vars PROVE CancelInv'
  OBVIOUS
<1> USE DEF SafetyInv, TypeInv, TypeOK
<1>0. \A c \in CancelReqs : Succeeded(c) \/ cancelPc[c] = "loaded" =>
        target[c] \in CreateReqs /\ createPc[target[c]] = "created"
  BY DEF LocalsOK, TargetOK
<1>1. ASSUME UNCHANGED cancelVars, edited \subseteq edited',
             \A b \in CreateReqs :
               createPc[b] = "created" /\ Closed(b) /\ b \notin edited' => Closed(b)'
      PROVE  CancelInv'
  BY <1>0, <1>1 DEF CancelInv, Succeeded, cancelVars
<1>2. ASSUME CreateStep PROVE CancelInv'
  BY <1>1, <1>2 DEF CreateStep, ReadRoom, CheckOverlap, InsertBooking, Closed, cancelVars, adminVars
<1>3. ASSUME NEW c \in CancelReqs, NEW b \in CreateReqs, LoadBooking(c, b) PROVE CancelInv'
  <2>1. cancelPc'[c] = "loaded" => ~Closed(b) /\ target'[c] = b
    BY <1>3 DEF LoadBooking, Closed
  <2>2. /\ \A d \in CancelReqs \ {c} : cancelPc'[d] = cancelPc[d] /\ target'[d] = target[d]
        /\ ~(Succeeded(c)') /\ UNCHANGED <<booking, edited>>
    BY <1>3 DEF LoadBooking, Succeeded, adminVars
  <2> QED
    BY <2>1, <2>2 DEF CancelInv, Closed, Succeeded
<1>4. ASSUME NEW c \in CancelReqs, SaveCancelled(c) PROVE CancelInv'
  <2>1. [copy[c] EXCEPT !.status = "cancelled"].status = "cancelled"
    BY <1>4 DEF SaveCancelled, LocalsOK, CopyOK, Rows
  <2>2. \A b \in CreateReqs : Closed(b) => Closed(b)'
    BY <1>4, <2>1 DEF SaveCancelled, Closed
  <2>3. cancelPc'[c] = "saved" => Closed(target[c])'
    BY <1>0, <1>4, <2>1 DEF SaveCancelled, Closed
  <2>4. /\ \A d \in CancelReqs \ {c} : cancelPc'[d] = cancelPc[d]
        /\ cancelPc[c] = "loaded" /\ cancelPc'[c] # "loaded" /\ UNCHANGED <<target, edited>>
    BY <1>4 DEF SaveCancelled, adminVars
  <2>5. \A x \in CancelReqs : Succeeded(x)' /\ target[x] \notin edited => Closed(target[x])'
    <3> SUFFICES ASSUME NEW x \in CancelReqs, Succeeded(x)', target[x] \notin edited
                 PROVE  Closed(target[x])'
      OBVIOUS
    <3>1. CASE x = c
      BY <1>4, <2>3, <3>1 DEF SaveCancelled, Succeeded
    <3>2. CASE x # c
      <4>1. Succeeded(x) /\ target[x] \in CreateReqs /\ Closed(target[x])
        BY <1>0, <2>4, <3>2 DEF CancelInv, Succeeded
      <4> QED
        BY <2>2, <2>4, <4>1 DEF Closed
    <3> QED
      BY <3>1, <3>2
  <2>6. \A d \in CancelReqs \ {c} :
          Succeeded(d) \/ cancelPc[d] = "loaded" => target[d] # target[c] \/ target[c] \in edited
    BY <2>4 DEF CancelInv, CancelsApart
  <2>7. ASSUME NEW x \in CancelReqs, NEW y \in CancelReqs, x # y, Succeeded(x)',
               Succeeded(y)' \/ cancelPc'[y] = "loaded", target[x] = target[y]
        PROVE  target[x] \in edited
    <3>1. CASE x = c
      BY <2>4, <2>6, <2>7, <3>1 DEF Succeeded
    <3>2. CASE y = c
      BY <2>4, <2>6, <2>7, <3>2 DEF Succeeded
    <3>3. CASE x # c /\ y # c
      BY <2>4, <2>7, <3>3 DEF CancelInv, Succeeded
    <3> QED
      BY <3>1, <3>2, <3>3
  <2> QED
    BY <2>4, <2>5, <2>7 DEF CancelInv
<1>5. ASSUME NEW c \in CancelReqs, Notify(c) PROVE CancelInv'
  BY <1>5 DEF Notify, CancelInv, Closed, Succeeded, adminVars
<1>6. ASSUME RoomStep PROVE CancelInv'
  BY <1>1, <1>6 DEF RoomStep, LoadRoom, SaveRoom, DeleteRoom, Closed, adminVars
<1>7. ASSUME AdminStep PROVE CancelInv'
  BY <1>1, <1>7 DEF AdminStep, OpenForm, SubmitForm, DeleteBooking, Closed, adminVars
<1>8. CASE UNCHANGED vars
  BY <1>1, <1>8 DEF vars, Closed, adminVars
<1> QED
  BY <1>2, <1>3, <1>4, <1>5, <1>6, <1>7, <1>8 DEF Next, CancelStep

\* Any number of threads: when no two cancels of a booking are between load and save
\* together, one of them succeeds, and notifies, and no more.
THEOREM LockedCancelsSucceedOnce == Spec /\ []CancelsApart => []OneCancelSucceeds
<1>1. Init => CancelInv
  BY DEF Init, CancelInv, Succeeded
<1>2. CancelInv => OneCancelSucceeds
  BY DEF CancelInv, OneCancelSucceeds
<1> QED
  BY <1>1, <1>2, CancelInvStep, SafetyCorrect, PTL DEF Spec

-----------------------------------------------------------------------------
\* A serial server is such a lock: with one thread no two requests are in progress.
InProgress(r) == createPc[r] \in {"quoted", "checked"}
InHand(c) == cancelPc[c] \in {"loaded", "saved"}

SerialInv ==
  /\ \A r, q \in CreateReqs : InProgress(r) /\ InProgress(q) => r = q
  /\ \A c, d \in CancelReqs : InHand(c) /\ InHand(d) => c = d

LEMMA OneThread ==
  ASSUME Workers = 1, TypeOK, FreeWorker
  PROVE  /\ \A r \in CreateReqs : ~InProgress(r)
         /\ \A c \in CancelReqs : ~InHand(c)
<1> DEFINE All == ({"create"} \X CreateReqs) \cup ({"cancel"} \X CancelReqs) \cup ({"room"} \X Rooms)
<1>1. IsFiniteSet(All)
  BY RequestsAssumption, FS_Singleton, FS_Product, FS_Union
<1>2. InFlight \in SUBSET All
  BY DEF InFlight, TypeOK
<1>3. IsFiniteSet(InFlight)
  BY <1>1, <1>2, FS_Subset
<1>4. Cardinality(InFlight) = 0
  BY <1>3, FS_CardinalityType DEF FreeWorker
<1>5. InFlight = {}
  BY <1>3, <1>4, FS_EmptySet
<1> QED
  BY <1>5 DEF InFlight, InProgress, InHand

LEMMA SerialStep ==
  ASSUME Workers = 1
  PROVE  SafetyInv /\ SerialInv /\ [Next]_vars => SerialInv'
<1> SUFFICES ASSUME SafetyInv, SerialInv, [Next]_vars PROVE SerialInv'
  OBVIOUS
<1> USE DEF SafetyInv, TypeInv, TypeOK, SerialInv, InProgress, InHand
<1>1. ASSUME NEW r \in CreateReqs, NEW s \in Stays, ReadRoom(r, s) PROVE SerialInv'
  <2>1. \A q \in CreateReqs : ~InProgress(q)
    BY <1>1, OneThread DEF ReadRoom
  <2> QED
    BY <1>1, <2>1 DEF ReadRoom, cancelVars
<1>2. ASSUME NEW r \in CreateReqs, CheckOverlap(r) \/ InsertBooking(r) PROVE SerialInv'
  BY <1>2 DEF CheckOverlap, InsertBooking, cancelVars
<1>3. ASSUME NEW c \in CancelReqs, NEW b \in CreateReqs, LoadBooking(c, b) PROVE SerialInv'
  <2>1. \A d \in CancelReqs : ~InHand(d)
    BY <1>3, OneThread DEF LoadBooking
  <2> QED
    BY <1>3, <2>1 DEF LoadBooking, createVars
<1>4. ASSUME NEW c \in CancelReqs, SaveCancelled(c) \/ Notify(c) PROVE SerialInv'
  BY <1>4 DEF SaveCancelled, Notify, createVars
<1>5. CASE RoomStep \/ AdminStep
  BY <1>5 DEF RoomStep, LoadRoom, SaveRoom, DeleteRoom, AdminStep, OpenForm, SubmitForm, DeleteBooking,
              createVars, cancelVars
<1>6. CASE UNCHANGED vars
  BY <1>6 DEF vars, createVars, cancelVars
<1> QED
  BY <1>1, <1>2, <1>3, <1>4, <1>5, <1>6 DEF Next, CreateStep, CancelStep

LEMMA SerialIsApart ==
  ASSUME Workers = 1
  PROVE  Spec => [](ChecksApart /\ CancelsApart)
<1>1. Init => SerialInv
  BY DEF Init, SerialInv, InProgress, InHand
<1>2. SafetyInv /\ SerialInv /\ [Next]_vars => SerialInv'
  BY SerialStep
<1>3. SerialInv => ChecksApart /\ CancelsApart
  BY DEF SerialInv, InProgress, InHand, ChecksApart, CancelsApart
<1> QED
  BY <1>1, <1>2, <1>3, SafetyCorrect, PTL DEF Spec

\* A server that handles one request at a time never promises a room twice for a night.
THEOREM SerialServerNeverDoubleBooks ==
  ASSUME Workers = 1
  PROVE  Spec => []NoDoubleBooking
BY SerialIsApart, LockedChecksNeverDoubleBook, PTL

\* A server that handles one request at a time lets one cancel of a booking succeed.
THEOREM SerialServerCancelsOnce ==
  ASSUME Workers = 1
  PROVE  Spec => []OneCancelSucceeds
BY SerialIsApart, LockedCancelsSucceedOnce, PTL

-----------------------------------------------------------------------------
\* Refinement: while ChecksApart holds and no administrator saves a booking, every step is
\* a Reserve, a Release or a stutter of Reservations.
NoAdmin == edited = {}

LEMMA ReleaseStep ==
  ASSUME UNCHANGED createPc,
         \A b \in CreateReqs : Active(b)' => Active(b) /\ booking'[b] = booking[b]
  PROVE  Promise!RNext
<1> DEFINE gone == {b \in CreateReqs : ~Active(b)'}
<1>1. \A b \in CreateReqs : Hold(b)' = IF b \in gone THEN None ELSE Hold(b)
  BY DEF Hold, Active
<1>2. Promise!Release(gone)
  BY <1>1 DEF Promise!Release
<1>3. gone \in SUBSET CreateReqs
  OBVIOUS
<1> QED
  BY <1>2, <1>3 DEF Promise!RNext

LEMMA ReserveStep ==
  ASSUME SafetyInv, ApartInv, NoAdmin, NEW r \in CreateReqs, InsertBooking(r), Storable(NewRow(ask[r]))
  PROVE  Promise!RNext
<1> USE DEF SafetyInv, TypeInv, TypeOK
<1> DEFINE row  == NewRow(ask[r])
           stay == [room |-> row.room, checkIn |-> row.checkIn, checkOut |-> row.checkOut]
<1>1. /\ createPc[r] = "checked" /\ createPc' = [createPc EXCEPT ![r] = "created"]
      /\ booking' = [booking EXCEPT ![r] = row]
  BY DEF InsertBooking
<1>2. /\ ask[r] \in Asks
      /\ row.room = ask[r].room /\ row.checkIn = ask[r].checkIn /\ row.checkOut = ask[r].checkOut
      /\ row.status = "pending"
  BY <1>1 DEF LocalsOK, AskOK, NewRow
<1>3. row \in Rows
  BY <1>2, NewRowType DEF Storable, Chronological
<1>4. stay \in Stays
  BY <1>3 DEF Rows, Stays
<1>5. PICK t \in Stays : t = stay
  BY <1>4
<1>6. \A m \in CreateReqs : Hold(m) # None => ~Promise!Clash(Hold(m), t)
  <2> SUFFICES ASSUME NEW m \in CreateReqs, Hold(m) # None, Promise!Clash(Hold(m), t) PROVE FALSE
    OBVIOUS
  <2>1. Active(m)
    BY DEF Hold
  <2>2. Overlaps(booking[m], ask[r])
    BY <2>1, <1>2, <1>5 DEF Hold, Overlaps, Promise!Clash
  <2> QED
    BY <2>1, <2>2, <1>1 DEF ApartInv, StillFree, NoAdmin
<1>7. \A m \in CreateReqs : Hold(m)' = IF m = r THEN t ELSE Hold(m)
  BY <1>1, <1>2, <1>3, <1>5, DataAssumption DEF Hold, Active
<1>8. Promise!Reserve(r, t)
  BY <1>1, <1>6, <1>7 DEF Promise!Reserve
<1> QED
  BY <1>8 DEF Promise!RNext

LEMMA PromiseStep ==
  ASSUME AdminForms = {}
  PROVE  SafetyInv /\ ApartInv /\ NoAdmin /\ [Next]_vars => [Promise!RNext]_(Promise!rvars)
<1> SUFFICES ASSUME SafetyInv, ApartInv, NoAdmin, [Next]_vars PROVE [Promise!RNext]_(Promise!rvars)
  OBVIOUS
<1> USE DEF SafetyInv, TypeInv, TypeOK
<1>1. ASSUME UNCHANGED booking, \A b \in CreateReqs : createPc'[b] = "created" <=> createPc[b] = "created"
      PROVE  UNCHANGED Promise!rvars
  BY <1>1 DEF Promise!rvars, Hold, Active
<1>2. ASSUME NEW r \in CreateReqs, NEW s \in Stays, ReadRoom(r, s) PROVE UNCHANGED Promise!rvars
  BY <1>1, <1>2 DEF ReadRoom
<1>3. ASSUME NEW r \in CreateReqs, CheckOverlap(r) PROVE UNCHANGED Promise!rvars
  BY <1>1, <1>3 DEF CheckOverlap
<1>4. ASSUME NEW r \in CreateReqs, InsertBooking(r) PROVE [Promise!RNext]_(Promise!rvars)
  <2>1. CASE Storable(NewRow(ask[r]))
    BY <1>4, <2>1, ReserveStep
  <2>2. CASE ~Storable(NewRow(ask[r]))
    BY <1>1, <1>4, <2>2 DEF InsertBooking
  <2> QED
    BY <2>1, <2>2
<1>5. ASSUME NEW c \in CancelReqs, SaveCancelled(c) PROVE Promise!RNext
  <2>1. [copy[c] EXCEPT !.status = "cancelled"].status = "cancelled"
    BY <1>5 DEF SaveCancelled, LocalsOK, CopyOK, Rows
  <2>2. \A b \in CreateReqs : Active(b)' => Active(b) /\ booking'[b] = booking[b]
    BY <1>5, <2>1 DEF SaveCancelled, Active
  <2> QED
    BY <1>5, <2>2, ReleaseStep DEF SaveCancelled, createVars
<1>6. ASSUME NEW c \in CancelReqs, (\E b \in CreateReqs : LoadBooking(c, b)) \/ Notify(c)
      PROVE  UNCHANGED Promise!rvars
  BY <1>1, <1>6 DEF LoadBooking, Notify, createVars
<1>7. CASE RoomStep
  <2>1. UNCHANGED createPc /\ \A b \in CreateReqs : Active(b)' => Active(b) /\ booking'[b] = booking[b]
    BY <1>7 DEF RoomStep, LoadRoom, SaveRoom, DeleteRoom, Active, createVars
  <2> QED
    BY <2>1, ReleaseStep
<1>8. ~AdminStep
  BY DEF AdminStep, DeleteBooking
<1>9. CASE UNCHANGED vars
  BY <1>1, <1>9 DEF vars, createVars
<1> QED
  BY <1>2, <1>3, <1>4, <1>5, <1>6, <1>7, <1>8, <1>9 DEF Next, CreateStep, CancelStep

\* Without an administrator, a server whose overlapping requests do not meet between check
\* and insert implements Reservations: each reservation is one atomic, conflict-free step.
THEOREM LockedChecksImplementReservations ==
  ASSUME AdminForms = {}
  PROVE  Spec /\ []ChecksApart => ImplementsReservations
<1>1. Init => Promise!RInit
  BY DEF Init, Promise!RInit, Hold, Active
<1>2. Init => NoAdmin
  BY DEF Init, NoAdmin
<1>3. NoAdmin /\ [Next]_vars => NoAdmin'
  BY DEF NoAdmin, Next, vars, adminVars, CreateStep, ReadRoom, CheckOverlap, InsertBooking, CancelStep,
         LoadBooking, SaveCancelled, Notify, RoomStep, LoadRoom, SaveRoom, DeleteRoom, AdminStep, DeleteBooking
<1>4. Spec => []SafetyInv
  BY SafetyCorrect
<1>5. SafetyInv /\ ApartInv /\ NoAdmin /\ [Next]_vars => [Promise!RNext]_(Promise!rvars)
  BY PromiseStep
<1> QED
  BY <1>1, <1>2, <1>3, <1>4, <1>5, ApartInit, ApartStep, PTL
  DEF Spec, ImplementsReservations, Promise!RSpec

\* A serial server without an administrator implements Reservations.
THEOREM SerialServerImplementsReservations ==
  ASSUME Workers = 1, AdminForms = {}
  PROVE  Spec => ImplementsReservations
BY SerialIsApart, LockedChecksImplementReservations, PTL
=============================================================================
