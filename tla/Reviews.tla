------------------------------- MODULE Reviews -------------------------------
(***************************************************************************)
(* Reviews of hotels and their cached lists: apps/reviews/{views,models,   *)
(* signals,serializers,admin}.py and the reviews of seed_data.py.          *)
(*                                                                         *)
(*   post a review    Submit -> CheckFirst -> Insert -> DropLists          *)
(*   list reviews     Miss -> Query -> Fill                                *)
(*   admin site,      Edit / Remove / DeleteHotel -> DropInside -> Commit  *)
(*   delete a hotel                                                        *)
(*                                                                         *)
(* Each arrow separates two database or Redis calls, and requests          *)
(* interleave there.  A guest may review a hotel who had a confirmed or    *)
(* completed booking there, and once; the unique constraint of the table   *)
(* is the last to say so.  The signals of an open transaction are sent     *)
(* before other connections see what it changed.                           *)
(***************************************************************************)
EXTENDS Integers, FiniteSets

CONSTANTS Posters, Readers, Editors,  \* threads that post, list and edit
          Users, Hotels,
          Texts, Emails,  \* what a review says, and how its author is shown
          Workers,        \* request-serving threads that may be busy at once
          Faults,         \* whether Redis calls fail and the server dies
          None

VARIABLES
  hotels,    \* the hotels that exist; a deleted one does not come back
  status,    \* the booking of a user in a hotel, or None
  email,     \* users table: the address a review is shown under
  reviews,   \* the hotels_review table
  cache, stored,  \* Redis: the lists by hotel, and which of them are there
  ppc, draft,       \* posters: program counter, what they post
  rpc, key, page,   \* readers: program counter, the list they read, the page they hold
  epc, job,         \* editors: program counter, what their transaction does
  earned, vouched,  \* history: pairs that had a booking to show, pairs that staff put in
  overtaken, failed,  \* history: posters that others got ahead of, posters told 500
  exposed    \* history: hotels whose list may be out of date with no drop to come

posterVars == <<ppc, draft, overtaken, failed>>
readVars == <<rpc, key, page>>
editVars == <<epc, job>>
cacheVars == <<cache, stored>>
tables == <<hotels, status, email, reviews>>
history == <<earned, vouched>>
vars == <<tables, cacheVars, posterVars, readVars, editVars, history, exposed>>

-----------------------------------------------------------------------------
Statuses == {"pending", "confirmed", "completed", "cancelled"}
Valid == {"confirmed", "completed"}

ASSUME ReviewsAssumption ==
  /\ IsFiniteSet(Posters) /\ IsFiniteSet(Readers) /\ IsFiniteSet(Editors)
  /\ Workers \in Nat \ {0} /\ Faults \in BOOLEAN
  /\ None \notin Hotels \cup Users \cup Statuses

Pairs == Users \X Hotels
Rows == [user : Users, hotel : Hotels, text : Texts]
Pages == SUBSET [user : Users, email : Emails, text : Texts]
Jobs == [gone : SUBSET Rows, added : SUBSET Rows, closing : Hotels \cup {None}]

Pair(r) == <<r.user, r.hotel>>
RowsOf(h) == {r \in reviews : r.hotel = h}
Reviewed(u, h) == \E r \in reviews : Pair(r) = <<u, h>>

NoDraft == [user |-> None, hotel |-> None]
NoJob == [gone |-> {}, added |-> {}, closing |-> None]

TypeOK ==
  /\ hotels \subseteq Hotels
  /\ status \in [Pairs -> Statuses \cup {None}]
  /\ email \in [Users -> Emails]
  /\ reviews \subseteq Rows
  /\ cache \in [Hotels -> Pages] /\ stored \subseteq Hotels
  /\ ppc \in [Posters -> {"idle", "eligible", "inserting", "dropping"}]
  /\ draft \in [Posters -> [user : Users, hotel : Hotels] \cup {NoDraft}]
  /\ \A p \in Posters : ppc[p] # "idle" => draft[p] \in [user : Users, hotel : Hotels]
  /\ rpc \in [Readers -> {"idle", "missed", "filling"}]
  /\ key \in [Readers -> Hotels \cup {None}]
  /\ \A r \in Readers : rpc[r] # "idle" => key[r] \in Hotels
  /\ page \in [Readers -> Pages]
  /\ epc \in [Editors -> {"idle", "dropping", "committing"}]
  /\ job \in [Editors -> Jobs]
  /\ earned \subseteq Pairs /\ vouched \subseteq Pairs
  /\ overtaken \subseteq Posters /\ failed \subseteq Posters
  /\ exposed \subseteq Hotels

-----------------------------------------------------------------------------
\* Faulty PageOf: the serializer leaves out user_email.
PageWithoutAddress(rows, mails, h) ==
  {[user |-> r.user, text |-> r.text] : r \in {x \in rows : x.hotel = h}}

\* The list of hotel h, with these reviews and addresses.  A hotel that does not exist has
\* an empty one: list() never looks at the hotels table.
PageOf(rows, mails, h) ==
  {[user |-> r.user, email |-> mails[r.user], text |-> r.text] :
     r \in {x \in rows : x.hotel = h}}
Current(h) == PageOf(reviews, email, h)
\* Stored lists that a change of the tables puts out of date.
Outdated(rows, mails) == {h \in stored : PageOf(rows, mails, h) # Current(h)}

InFlight ==
  {<<"post", p>> : p \in {x \in Posters : ppc[x] # "idle"}}
    \cup {<<"list", r>> : r \in {x \in Readers : rpc[x] # "idle"}}
    \cup {<<"edit", e>> : e \in {x \in Editors : epc[x] # "idle"}}
FreeWorker == Cardinality(InFlight) < Workers

Init ==
  /\ hotels = Hotels
  /\ status = [p \in Pairs |-> None]
  /\ email \in [Users -> Emails]
  /\ reviews = {}
  /\ cache = [h \in Hotels |-> {}] /\ stored = {}
  /\ ppc = [p \in Posters |-> "idle"]
  /\ draft = [p \in Posters |-> NoDraft]
  /\ rpc = [r \in Readers |-> "idle"]
  /\ key = [r \in Readers |-> None]
  /\ page = [r \in Readers |-> {}]
  /\ epc = [e \in Editors |-> "idle"]
  /\ job = [e \in Editors |-> NoJob]
  /\ earned = {} /\ vouched = {}
  /\ overtaken = {} /\ failed = {}
  /\ exposed = {}

-----------------------------------------------------------------------------
\* create(): has the user a booking in the hotel that was confirmed or completed?
Eligible(u, h) == status[<<u, h>>] \in Valid

\* Rows an open transaction inserted or deleted make other inserts of the pair wait.
Locked(u, h) ==
  \E e \in Editors : epc[e] # "idle" /\ \E r \in job[e].gone \cup job[e].added : Pair(r) = <<u, h>>

\* What the table refuses: a second review of the pair, or one of no hotel.
Refused(rows, open, u, h) == h \notin open \/ \E r \in rows : Pair(r) = <<u, h>>

\* Posters past a check that these tables no longer bear out.
OvertakenBy(rows, open) ==
  {p \in Posters :
     \/ ppc[p] \in {"eligible", "inserting"} /\ draft[p].hotel \notin open
     \/ ppc[p] = "inserting" /\ Refused(rows, open, draft[p].user, draft[p].hotel)}

\* Faulty Submit: any booking will do.
SubmitAnyBooking(p, u, h) ==
  /\ ppc[p] = "idle" /\ FreeWorker
  /\ status[<<u, h>>] # None
  /\ ppc' = [ppc EXCEPT ![p] = "eligible"]
  /\ draft' = [draft EXCEPT ![p] = [user |-> u, hotel |-> h]]
  /\ overtaken' = overtaken \ {p} /\ failed' = failed \ {p}
  /\ UNCHANGED <<tables, cacheVars, readVars, editVars, history, exposed>>

\* A request of anyone else is answered 400 at once and changes nothing.
Submit(p, u, h) ==
  /\ ppc[p] = "idle" /\ FreeWorker
  /\ Eligible(u, h)
  /\ ppc' = [ppc EXCEPT ![p] = "eligible"]
  /\ draft' = [draft EXCEPT ![p] = [user |-> u, hotel |-> h]]
  /\ overtaken' = overtaken \ {p} /\ failed' = failed \ {p}
  /\ UNCHANGED <<tables, cacheVars, readVars, editVars, history, exposed>>

Answer(p) ==
  /\ ppc' = [ppc EXCEPT ![p] = "idle"]
  /\ draft' = [draft EXCEPT ![p] = NoDraft]

\* Faulty CheckFirst: straight to the insert.
SkipExists(p) ==
  /\ ppc[p] = "eligible"
  /\ ppc' = [ppc EXCEPT ![p] = "inserting"]
  /\ UNCHANGED <<draft, overtaken, failed>>
  /\ UNCHANGED <<tables, cacheVars, readVars, editVars, history, exposed>>

\* The exists() query, then the body.  400: reviewed already, or an invalid body.
CheckFirst(p) ==
  /\ ppc[p] = "eligible"
  /\ \/ Answer(p)
     \/ /\ ~Reviewed(draft[p].user, draft[p].hotel)
        /\ ppc' = [ppc EXCEPT ![p] = "inserting"]
        /\ UNCHANGED draft
  /\ UNCHANGED <<overtaken, failed, tables, cacheVars, readVars, editVars, history, exposed>>

\* Review.objects.create() in autocommit.  An IntegrityError is a 500.
Insert(p, t) ==
  LET d == draft[p]
      rows == reviews \cup {[user |-> d.user, hotel |-> d.hotel, text |-> t]} IN
  /\ ppc[p] = "inserting" /\ ~Locked(d.user, d.hotel)
  /\ \/ /\ ~Refused(reviews, hotels, d.user, d.hotel)
        /\ reviews' = rows
        /\ ppc' = [ppc EXCEPT ![p] = "dropping"]
        /\ overtaken' = overtaken \cup (OvertakenBy(rows, hotels) \ {p})
        /\ UNCHANGED <<draft, failed>>
     \/ /\ Refused(reviews, hotels, d.user, d.hotel)
        /\ Answer(p)
        /\ failed' = failed \cup {p}
        /\ UNCHANGED <<reviews, overtaken>>
  /\ UNCHANGED <<hotels, status, email, cacheVars, readVars, editVars, history, exposed>>

\* cache_delete_pattern("reviews:hotel:list:*"): the lists of every hotel, or none of them.
DropAll ==
  \/ cache' = [h \in Hotels |-> {}] /\ stored' = {} /\ exposed' = {}
  \/ Faults /\ exposed' = exposed \cup stored /\ UNCHANGED cacheVars

\* Faulty DropLists: no receiver for post_save.
DropNothing(p) ==
  /\ ppc[p] = "dropping"
  /\ Answer(p)
  /\ UNCHANGED <<overtaken, failed, tables, cacheVars, readVars, editVars, history, exposed>>

\* post_save, after the commit; then 201.
DropLists(p) ==
  /\ ppc[p] = "dropping"
  /\ DropAll
  /\ Answer(p)
  /\ UNCHANGED <<overtaken, failed, tables, readVars, editVars, history>>

-----------------------------------------------------------------------------
\* A hit is answered at once and changes nothing, so only misses are steps.
Miss(r, h) ==
  /\ rpc[r] = "idle" /\ FreeWorker
  /\ h \notin stored \/ Faults
  /\ rpc' = [rpc EXCEPT ![r] = "missed"]
  /\ key' = [key EXCEPT ![r] = h]
  /\ UNCHANGED <<tables, cacheVars, posterVars, page, editVars, history, exposed>>

Query(r) ==
  /\ rpc[r] = "missed"
  /\ rpc' = [rpc EXCEPT ![r] = "filling"]
  /\ page' = [page EXCEPT ![r] = Current(key[r])]
  /\ UNCHANGED <<tables, cacheVars, posterVars, key, editVars, history, exposed>>

\* cache_set: whatever happened since the query, the page in hand is stored.
Fill(r) ==
  LET h == key[r] IN
  /\ rpc[r] = "filling"
  /\ \/ /\ cache' = [cache EXCEPT ![h] = page[r]] /\ stored' = stored \cup {h}
        /\ exposed' = IF page[r] = Current(h) THEN exposed \ {h} ELSE exposed \cup {h}
     \/ Faults /\ UNCHANGED <<cacheVars, exposed>>
  /\ rpc' = [rpc EXCEPT ![r] = "idle"]
  /\ key' = [key EXCEPT ![r] = None]
  /\ page' = [page EXCEPT ![r] = {}]
  /\ UNCHANGED <<tables, posterVars, editVars, history>>

-----------------------------------------------------------------------------
\* An editor opens a transaction that removes rows, adds rows or closes a hotel.  Deleting
\* a review sends its signal inside, like saving one; the signals of several deletions follow
\* each other and count as one drop; with no review there is no signal.
Begin(e, gone, added, closing) ==
  /\ epc[e] = "idle" /\ FreeWorker
  /\ \A r \in gone \cup added : ~Locked(r.user, r.hotel)
  /\ epc' = [epc EXCEPT ![e] = IF gone \cup added = {} THEN "committing" ELSE "dropping"]
  /\ job' = [job EXCEPT ![e] = [gone |-> gone, added |-> added, closing |-> closing]]
  /\ UNCHANGED <<tables, cacheVars, posterVars, readVars, history, exposed>>

\* The admin forms: add a review (no booking is asked for), or change one in any column.
Edit(e, gone, row) ==
  /\ row.hotel \in hotels
  /\ gone \subseteq reviews /\ row \notin gone
  /\ ~\E r \in reviews \ gone : Pair(r) = Pair(row)
  /\ Begin(e, gone, {row}, None)

\* One review, or the reviews selected in the list.
Remove(e, gone) == gone # {} /\ gone \subseteq reviews /\ Begin(e, gone, {}, None)

\* hotel.delete(), in the API or the admin site: collects the reviews that go with it.
DeleteHotel(e, h) == h \in hotels /\ Begin(e, RowsOf(h), {}, h)

DropInside(e) ==
  /\ epc[e] = "dropping"
  /\ DropAll
  /\ epc' = [epc EXCEPT ![e] = "committing"]
  /\ UNCHANGED <<tables, posterVars, readVars, job, history>>

\* The foreign keys hold at the commit, or it is a rollback: a review added to the hotel
\* since the collector looked keeps the hotel, a hotel that went keeps a review out.
Sound(e, rows, open) ==
  /\ \A r \in rows : r.hotel \in open
  /\ job[e].closing # None =>
       ~\E x \in Editors \ {e} : epc[x] # "idle" /\ \E r \in job[x].added : r.hotel = job[e].closing

Commit(e) ==
  LET rows == (reviews \ job[e].gone) \cup job[e].added
      open == hotels \ {job[e].closing} IN
  /\ epc[e] = "committing"
  /\ \/ /\ Sound(e, rows, open)
        /\ reviews' = rows /\ hotels' = open
        /\ status' = [p \in Pairs |-> IF p[2] \in open THEN status[p] ELSE None]
        /\ overtaken' = overtaken \cup OvertakenBy(rows, open)
        /\ exposed' = exposed \cup Outdated(rows, email)
        /\ vouched' = vouched \cup {Pair(r) : r \in job[e].added}
     \/ UNCHANGED <<reviews, hotels, status, overtaken, exposed, vouched>>
  /\ epc' = [epc EXCEPT ![e] = "idle"]
  /\ job' = [job EXCEPT ![e] = NoJob]
  /\ UNCHANGED <<email, cacheVars, ppc, draft, failed, readVars, earned>>

\* _generate_reviews: bulk_create sends no signal, asks for no booking and passes over
\* reviews that exist; a hotel that went meanwhile fails the whole batch.
Seed(batch) ==
  LET rows == reviews \cup batch IN
  /\ batch # {}
  /\ \A r \in batch : r.hotel \in hotels /\ ~Reviewed(r.user, r.hotel) /\ ~Locked(r.user, r.hotel)
  /\ \A r, s \in batch : Pair(r) = Pair(s) => r = s
  /\ reviews' = rows
  /\ vouched' = vouched \cup {Pair(r) : r \in batch}
  /\ overtaken' = overtaken \cup OvertakenBy(rows, hotels)
  /\ exposed' = exposed \cup Outdated(rows, email)
  /\ UNCHANGED <<hotels, status, email, cacheVars, ppc, draft, failed, readVars, editVars, earned>>

\* No signal is connected to User: an address changed in the admin site drops no list.
ChangeEmail(u, m) ==
  LET mails == [email EXCEPT ![u] = m] IN
  /\ email[u] # m /\ FreeWorker
  /\ email' = mails
  /\ exposed' = exposed \cup Outdated(reviews, mails)
  /\ UNCHANGED <<hotels, status, reviews, cacheVars, posterVars, readVars, editVars, history>>

\* What Bookings and the admin site do to a booking: made, confirmed, completed, cancelled,
\* reopened, deleted.
ChangeBooking(u, h, s) ==
  /\ h \in hotels /\ status[<<u, h>>] # s
  /\ status' = [status EXCEPT ![<<u, h>>] = s]
  /\ earned' = IF s \in Valid THEN earned \cup {<<u, h>>} ELSE earned
  /\ UNCHANGED <<hotels, email, reviews, cacheVars, posterVars, readVars, editVars, vouched, exposed>>

Expire(h) ==
  /\ h \in stored
  /\ cache' = [cache EXCEPT ![h] = {}] /\ stored' = stored \ {h}
  /\ exposed' = exposed \ {h}
  /\ UNCHANGED <<tables, posterVars, readVars, editVars, history>>

\* A poster has still to drop the list of h for a review that is visible already.
DropDue(h) == \E p \in Posters : ppc[p] = "dropping" /\ draft[p].hotel = h

\* The server stops between two calls: open transactions roll back, drops are lost.
Crash ==
  /\ Faults
  /\ exposed' = exposed \cup {h \in stored : DropDue(h)}
  /\ ppc' = [p \in Posters |-> "idle"]
  /\ draft' = [p \in Posters |-> NoDraft]
  /\ rpc' = [r \in Readers |-> "idle"]
  /\ key' = [r \in Readers |-> None]
  /\ page' = [r \in Readers |-> {}]
  /\ epc' = [e \in Editors |-> "idle"]
  /\ job' = [e \in Editors |-> NoJob]
  /\ UNCHANGED <<tables, cacheVars, overtaken, failed, history>>

PostStep ==
  \E p \in Posters :
    \/ \E u \in Users, h \in Hotels : Submit(p, u, h)
    \/ CheckFirst(p)
    \/ \E t \in Texts : Insert(p, t)
    \/ DropLists(p)

ReadStep == \E r \in Readers : (\E h \in Hotels : Miss(r, h)) \/ Query(r) \/ Fill(r)

EditStep ==
  \E e \in Editors :
    \/ \E row \in Rows : Edit(e, {}, row)
    \/ \E gone \in SUBSET reviews : Remove(e, gone)
    \/ \E old \in reviews, row \in Rows : Edit(e, {old}, row)
    \/ \E h \in Hotels : DeleteHotel(e, h)
    \/ DropInside(e) \/ Commit(e)

Around ==
  \/ \E batch \in SUBSET Rows : Seed(batch)
  \/ \E u \in Users, m \in Emails : ChangeEmail(u, m)
  \/ \E u \in Users, h \in Hotels, s \in Statuses \cup {None} : ChangeBooking(u, h, s)
  \/ \E h \in Hotels : Expire(h)

Next == PostStep \/ ReadStep \/ EditStep \/ Around \/ Crash

Spec == Init /\ [][Next]_vars

-----------------------------------------------------------------------------
\* "User can review the hotel only once" and "only after a confirmed/completed booking"
\* (views.py): there is one review of a user for a hotel, of an author who had such a
\* booking at some time or whose review staff put there.  A booking cancelled between the
\* check and the insert, posts that overlap, forms that move a review to another author or
\* hotel, seeded batches and cascades leave it so.
OneEarnedReview ==
  /\ \A r, s \in reviews : Pair(r) = Pair(s) => r = s
  /\ \A r \in reviews : Pair(r) \in earned \cup vouched

\* The constraint is reached only in a race: a poster is told 500 only when, after its own
\* checks passed, someone else reviewed for the same user and hotel or the hotel was deleted.
ServerErrorOnlyByRace == failed \subseteq overtaken

\* A cached list is out of date only while a poster has yet to drop it, or through a known
\* hole: a late fill, a change committed after its signal, one without a signal (seeded
\* reviews, a changed address), or a drop that failed or died with the server.
StaleListHasCause ==
  \A h \in stored : cache[h] # Current(h) => DropDue(h) \/ h \in exposed
==============================================================================
