---------------------------- MODULE ReviewsProofs ----------------------------
(***************************************************************************)
(* Theorems about Reviews, for every number of posters, readers, editors,  *)
(* users and hotels, with and without faults.                              *)
(***************************************************************************)
EXTENDS Reviews, TLAPS

-----------------------------------------------------------------------------
\* What a query returns is a page.
LEMMA PageOfIsPage ==
  ASSUME NEW rows \in SUBSET Rows, NEW mails \in [Users -> Emails], NEW h
  PROVE  PageOf(rows, mails, h) \in Pages
BY DEF PageOf, Pages, Rows

LEMMA DropAllTyped ==
  ASSUME TypeOK, DropAll
  PROVE  cache' \in [Hotels -> Pages] /\ stored' \subseteq Hotels /\ exposed' \subseteq Hotels
BY DEF TypeOK, DropAll, cacheVars, Pages

LEMMA TypeInit == Init => TypeOK
<1> SUFFICES ASSUME Init PROVE TypeOK
  OBVIOUS
<1>1. NoJob \in Jobs
  BY DEF NoJob, Jobs
<1> QED
  BY <1>1 DEF Init, TypeOK, Pages

LEMMA TypePost == TypeOK /\ PostStep => TypeOK'
<1> SUFFICES ASSUME TypeOK, NEW p \in Posters,
                    \/ \E u \in Users, h \in Hotels : Submit(p, u, h)
                    \/ CheckFirst(p)
                    \/ \E t \in Texts : Insert(p, t)
                    \/ DropLists(p)
             PROVE  TypeOK'
  BY DEF PostStep
<1> USE DEF TypeOK, tables, readVars, editVars, history, cacheVars
<1>1. ASSUME NEW u \in Users, NEW h \in Hotels, Submit(p, u, h) PROVE TypeOK'
  BY <1>1 DEF Submit
<1>2. CASE CheckFirst(p)
  BY <1>2 DEF CheckFirst, Answer
<1>3. ASSUME NEW t \in Texts, Insert(p, t) PROVE TypeOK'
  <2>1. [user |-> draft[p].user, hotel |-> draft[p].hotel, text |-> t] \in Rows
    BY <1>3 DEF Insert, Rows
  <2> QED
    BY <1>3, <2>1 DEF Insert, Answer, OvertakenBy
<1>4. CASE DropLists(p)
  BY <1>4, DropAllTyped DEF DropLists, Answer
<1> QED
  BY <1>1, <1>2, <1>3, <1>4

LEMMA TypeRead == TypeOK /\ ReadStep => TypeOK'
<1> SUFFICES ASSUME TypeOK, NEW r \in Readers,
                    (\E h \in Hotels : Miss(r, h)) \/ Query(r) \/ Fill(r)
             PROVE  TypeOK'
  BY DEF ReadStep
<1> USE DEF TypeOK, tables, posterVars, editVars, history, cacheVars
<1>1. ASSUME NEW h \in Hotels, Miss(r, h) PROVE TypeOK'
  BY <1>1 DEF Miss
<1>2. CASE Query(r)
  <2>1. Current(key[r]) \in Pages
    BY PageOfIsPage DEF Current
  <2> QED
    BY <1>2, <2>1 DEF Query
<1>3. CASE Fill(r)
  <2>1. key[r] \in Hotels /\ page[r] \in Pages /\ {} \in Pages
    BY <1>3 DEF Fill, Pages
  <2> QED
    BY <1>3, <2>1 DEF Fill
<1> QED
  BY <1>1, <1>2, <1>3

\* The steps of an editor: a transaction opens, drops, or ends.
LEMMA EditorSteps ==
  ASSUME TypeOK, EditStep
  PROVE  \E e \in Editors :
           \/ \E gone \in SUBSET Rows, added \in SUBSET Rows, closing \in Hotels \cup {None} :
                /\ Begin(e, gone, added, closing)
                /\ gone \subseteq reviews
                /\ \A a, b \in added : a = b
                /\ \A a \in added, r \in reviews \ gone : Pair(r) # Pair(a)
           \/ DropInside(e) \/ Commit(e)
<1> PICK e \in Editors :
           \/ \E row \in Rows : Edit(e, {}, row)
           \/ \E gone \in SUBSET reviews : Remove(e, gone)
           \/ \E old \in reviews, row \in Rows : Edit(e, {old}, row)
           \/ \E h \in Hotels : DeleteHotel(e, h)
           \/ DropInside(e) \/ Commit(e)
  BY DEF EditStep
<1> DEFINE Opens == \E gone \in SUBSET Rows, added \in SUBSET Rows, closing \in Hotels \cup {None} :
                      /\ Begin(e, gone, added, closing)
                      /\ gone \subseteq reviews
                      /\ \A a, b \in added : a = b
                      /\ \A a \in added, r \in reviews \ gone : Pair(r) # Pair(a)
<1>1. ASSUME NEW gone \in SUBSET reviews, NEW row \in Rows, Edit(e, gone, row) PROVE Opens
  BY <1>1 DEF Edit, TypeOK
<1>2. ASSUME NEW gone \in SUBSET reviews, Remove(e, gone) PROVE Opens
  BY <1>2 DEF Remove, TypeOK
<1>3. ASSUME NEW h \in Hotels, DeleteHotel(e, h) PROVE Opens
  <2>1. RowsOf(h) \subseteq reviews /\ RowsOf(h) \in SUBSET Rows
    BY DEF RowsOf, TypeOK
  <2> QED
    BY <1>3, <2>1 DEF DeleteHotel
<1> QED
  BY <1>1, <1>2, <1>3

LEMMA TypeEdit == TypeOK /\ EditStep => TypeOK'
<1> SUFFICES ASSUME TypeOK, EditStep PROVE TypeOK'
  OBVIOUS
<1> USE DEF TypeOK, tables, posterVars, readVars, history
<1>1. ASSUME NEW e \in Editors, NEW gone \in SUBSET Rows, NEW added \in SUBSET Rows,
             NEW closing \in Hotels \cup {None}, Begin(e, gone, added, closing)
      PROVE  TypeOK'
  <2>1. [gone |-> gone, added |-> added, closing |-> closing] \in Jobs
    BY DEF Jobs
  <2> QED
    BY <1>1, <2>1 DEF Begin, cacheVars
<1>2. ASSUME NEW e \in Editors, DropInside(e) PROVE TypeOK'
  BY <1>2, DropAllTyped DEF DropInside
<1>3. ASSUME NEW e \in Editors, Commit(e) PROVE TypeOK'
  <2>1. NoJob \in Jobs /\ job[e] \in Jobs
    BY DEF NoJob, Jobs
  <2>2. {Pair(r) : r \in job[e].added} \subseteq Pairs
    BY <2>1 DEF Pair, Pairs, Jobs, Rows
  <2>3. (reviews \ job[e].gone) \cup job[e].added \subseteq Rows
    BY <2>1 DEF Jobs
  <2> QED
    BY <1>3, <2>1, <2>2, <2>3 DEF Commit, OvertakenBy, Outdated, cacheVars
<1> QED
  BY EditorSteps, <1>1, <1>2, <1>3

LEMMA TypeAround == TypeOK /\ Around => TypeOK'
<1> SUFFICES ASSUME TypeOK, Around PROVE TypeOK'
  OBVIOUS
<1> USE DEF TypeOK, tables, posterVars, readVars, editVars, history, cacheVars
<1>1. ASSUME NEW batch \in SUBSET Rows, Seed(batch) PROVE TypeOK'
  <2>1. {Pair(r) : r \in batch} \subseteq Pairs
    BY DEF Pair, Pairs, Rows
  <2> QED
    BY <1>1, <2>1 DEF Seed, OvertakenBy, Outdated
<1>2. ASSUME NEW u \in Users, NEW m \in Emails, ChangeEmail(u, m) PROVE TypeOK'
  BY <1>2 DEF ChangeEmail, Outdated
<1>3. ASSUME NEW u \in Users, NEW h \in Hotels, NEW s \in Statuses \cup {None},
             ChangeBooking(u, h, s)
      PROVE  TypeOK'
  BY <1>3 DEF ChangeBooking, Pairs
<1>4. ASSUME NEW h \in Hotels, Expire(h) PROVE TypeOK'
  BY <1>4 DEF Expire, Pages
<1> QED
  BY <1>1, <1>2, <1>3, <1>4 DEF Around

LEMMA TypeStep == TypeOK /\ [Next]_vars => TypeOK'
<1> SUFFICES ASSUME TypeOK, [Next]_vars PROVE TypeOK'
  OBVIOUS
<1>1. CASE Crash
  <2>1. NoJob \in Jobs /\ {} \in Pages
    BY DEF NoJob, Jobs, Pages
  <2> QED
    BY <1>1, <2>1 DEF Crash, TypeOK, tables, history, cacheVars
<1>2. CASE UNCHANGED vars
  BY <1>2 DEF vars, tables, cacheVars, posterVars, readVars, editVars, history, TypeOK
<1> QED
  BY <1>1, <1>2, TypePost, TypeRead, TypeEdit, TypeAround DEF Next

\* Every variable keeps its type: readers hold and Redis stores pages of rows that the
\* serializer can have rendered, and transactions work on rows of the table.
THEOREM TypeCorrect == Spec => []TypeOK
<1> QED
  BY TypeInit, TypeStep, PTL DEF Spec

-----------------------------------------------------------------------------
\* What an open transaction may rely on: nobody else works on its pairs, and its new row
\* meets no other review of its pair.
PairsOf(e) == {Pair(r) : r \in job[e].gone \cup job[e].added}
Open(e) == epc[e] # "idle"

JobsApart == \A e, f \in Editors : Open(e) /\ Open(f) /\ e # f => PairsOf(e) \cap PairsOf(f) = {}
JobFits ==
  \A e \in Editors : Open(e) =>
    /\ \A a, b \in job[e].added : a = b
    /\ \A a \in job[e].added, r \in reviews \ job[e].gone : Pair(r) # Pair(a)

\* Bookings are of hotels that exist, and who is past the first check had one to show.
Deserved ==
  /\ \A p \in Pairs : status[p] # None => p[2] \in hotels
  /\ \A p \in Pairs : status[p] \in Valid => p \in earned
  /\ \A p \in Posters : ppc[p] # "idle" => <<draft[p].user, draft[p].hotel>> \in earned

\* A poster whose check no longer holds was overtaken.
Excused == OvertakenBy(reviews, hotels) \subseteq overtaken

ReviewInv ==
  TypeOK /\ JobsApart /\ JobFits /\ Deserved /\ OneEarnedReview /\ Excused /\ ServerErrorOnlyByRace

LEMMA ReviewInit == Init => ReviewInv
<1> SUFFICES ASSUME Init PROVE ReviewInv
  OBVIOUS
<1>1. TypeOK
  BY TypeInit
<1> QED
  BY <1>1, ReviewsAssumption DEF Init, ReviewInv, JobsApart, JobFits, Open, Deserved, OneEarnedReview, Excused,
              OvertakenBy, ServerErrorOnlyByRace, Valid, Statuses

\* A step that leaves editors and reviews alone leaves their invariants alone.
LEMMA EditorsUntouched ==
  ASSUME JobsApart, JobFits, UNCHANGED <<editVars, reviews>>
  PROVE  JobsApart' /\ JobFits'
BY DEF JobsApart, JobFits, Open, PairsOf, editVars

LEMMA InsertReviewed ==
  ASSUME ReviewInv, NEW p \in Posters, NEW t \in Texts, Insert(p, t)
  PROVE  ReviewInv'
<1> USE DEF ReviewInv
<1> DEFINE d == draft[p]
           row == [user |-> d.user, hotel |-> d.hotel, text |-> t]
<1>1. TypeOK'
  BY TypeStep DEF Next, PostStep
<1>2. d \in [user : Users, hotel : Hotels] /\ Pair(row) = <<d.user, d.hotel>>
  BY DEF TypeOK, Insert, Pair
<1>3. UNCHANGED <<hotels, status, earned, vouched, epc, job>>
  BY DEF Insert, editVars, history
<1>4. CASE Refused(reviews, hotels, d.user, d.hotel)
  <2>1. UNCHANGED reviews /\ Answer(p) /\ failed' = failed \cup {p} /\ UNCHANGED overtaken
    BY <1>4 DEF Insert
  <2>2. JobsApart' /\ JobFits'
    BY <2>1, <1>3, EditorsUntouched DEF editVars
  <2>3. Deserved'
    BY <2>1, <1>3 DEF Deserved, Answer, TypeOK
  <2>4. OneEarnedReview'
    BY <2>1, <1>3 DEF OneEarnedReview
  <2>5. Excused'
    BY <2>1, <1>3 DEF Excused, OvertakenBy, Answer, TypeOK
  <2>6. p \in overtaken
    BY <1>4 DEF Excused, OvertakenBy, Insert
  <2> QED
    BY <1>1, <2>1, <2>2, <2>3, <2>4, <2>5, <2>6 DEF ServerErrorOnlyByRace
<1>5. CASE ~Refused(reviews, hotels, d.user, d.hotel)
  <2>1. /\ reviews' = reviews \cup {row}
        /\ ppc' = [ppc EXCEPT ![p] = "dropping"] /\ ppc[p] = "inserting"
        /\ overtaken' = overtaken \cup (OvertakenBy(reviews \cup {row}, hotels) \ {p})
        /\ UNCHANGED <<draft, failed>> /\ ~Locked(d.user, d.hotel)
    BY <1>5 DEF Insert
  <2>2. JobsApart'
    BY <1>3 DEF JobsApart, Open, PairsOf
  <2>3. JobFits'
    <3> SUFFICES ASSUME NEW e \in Editors, Open(e), NEW a \in job[e].added
                 PROVE  Pair(row) # Pair(a)
      BY <2>1, <1>3 DEF JobFits, Open
    <3> QED
      BY <2>1, <1>2 DEF Locked, Open
  <2>4. Deserved'
    BY <2>1, <1>3 DEF Deserved, TypeOK
  <2>5. OneEarnedReview'
    <3>1. \A r \in reviews : Pair(r) # Pair(row)
      BY <1>5, <1>2 DEF Refused
    <3>2. Pair(row) \in earned
      BY <2>1, <1>2 DEF Deserved
    <3> QED
      BY <2>1, <1>3, <3>1, <3>2 DEF OneEarnedReview
  <2>6. Excused'
    BY <2>1, <1>3 DEF Excused, OvertakenBy, TypeOK
  <2> QED
    BY <1>1, <2>1, <2>2, <2>3, <2>4, <2>5, <2>6 DEF ServerErrorOnlyByRace
<1> QED
  BY <1>4, <1>5

LEMMA PostReviewed == ReviewInv /\ PostStep => ReviewInv'
<1> SUFFICES ASSUME ReviewInv, PostStep PROVE ReviewInv'
  OBVIOUS
<1> USE DEF ReviewInv
<1>1. TypeOK'
  BY TypeStep DEF Next
<1>2. ASSUME NEW p \in Posters, NEW u \in Users, NEW h \in Hotels, Submit(p, u, h)
      PROVE  ReviewInv'
  <2>1. /\ UNCHANGED <<tables, editVars, history>>
        /\ ppc' = [ppc EXCEPT ![p] = "eligible"]
        /\ draft' = [draft EXCEPT ![p] = [user |-> u, hotel |-> h]]
        /\ overtaken' = overtaken \ {p} /\ failed' = failed \ {p}
    BY <1>2 DEF Submit
  <2>2. h \in hotels /\ <<u, h>> \in earned
    BY <1>2, ReviewsAssumption DEF Submit, Eligible, Deserved, Valid, Statuses, Pairs, TypeOK
  <2>3. Deserved'
    BY <2>1, <2>2 DEF Deserved, tables, history, TypeOK
  <2>4. Excused'
    BY <2>1, <2>2 DEF Excused, OvertakenBy, tables, TypeOK
  <2>5. OneEarnedReview' /\ ServerErrorOnlyByRace'
    BY <2>1 DEF OneEarnedReview, ServerErrorOnlyByRace, tables, history
  <2> QED
    BY <1>1, <2>1, <2>3, <2>4, <2>5, EditorsUntouched DEF tables
<1>3. ASSUME NEW p \in Posters, CheckFirst(p) PROVE ReviewInv'
  <2>1. UNCHANGED <<overtaken, failed, tables, editVars, history>>
    BY <1>3 DEF CheckFirst
  <2>2. Deserved'
    BY <1>3, <2>1 DEF Deserved, CheckFirst, Answer, tables, history, TypeOK
  <2>3. Excused'
    BY <1>3, <2>1 DEF Excused, OvertakenBy, Refused, Reviewed, CheckFirst, Answer, tables, TypeOK
  <2>4. OneEarnedReview' /\ ServerErrorOnlyByRace'
    BY <2>1 DEF OneEarnedReview, ServerErrorOnlyByRace, tables, history
  <2> QED
    BY <1>1, <2>1, <2>2, <2>3, <2>4, EditorsUntouched DEF tables
<1>4. ASSUME NEW p \in Posters, DropLists(p) PROVE ReviewInv'
  <2>1. UNCHANGED <<overtaken, failed, tables, editVars, history>> /\ Answer(p)
    BY <1>4 DEF DropLists
  <2>2. Deserved' /\ Excused'
    BY <2>1 DEF Deserved, Excused, OvertakenBy, Answer, tables, history, TypeOK
  <2>3. OneEarnedReview' /\ ServerErrorOnlyByRace'
    BY <2>1 DEF OneEarnedReview, ServerErrorOnlyByRace, tables, history
  <2> QED
    BY <1>1, <2>1, <2>2, <2>3, EditorsUntouched DEF tables
<1> QED
  BY <1>2, <1>3, <1>4, InsertReviewed DEF PostStep

LEMMA CommitReviewed ==
  ASSUME ReviewInv, NEW e \in Editors, Commit(e)
  PROVE  ReviewInv'
<1> USE DEF ReviewInv
<1> DEFINE rows == (reviews \ job[e].gone) \cup job[e].added
           open == hotels \ {job[e].closing}
<1>1. TypeOK'
  BY TypeStep DEF Next, EditStep
<1>2. /\ Open(e) /\ epc' = [epc EXCEPT ![e] = "idle"] /\ job' = [job EXCEPT ![e] = NoJob]
      /\ UNCHANGED <<ppc, draft, failed, earned>>
  BY DEF Commit, Open
<1>3. JobsApart'
  BY <1>2 DEF JobsApart, Open, PairsOf, TypeOK
<1>4. CASE UNCHANGED <<reviews, hotels, status, overtaken, vouched>>
  <2>1. JobFits'
    BY <1>2, <1>4 DEF JobFits, Open, TypeOK
  <2>2. Deserved' /\ Excused' /\ OneEarnedReview' /\ ServerErrorOnlyByRace'
    BY <1>2, <1>4 DEF Deserved, Excused, OvertakenBy, OneEarnedReview, ServerErrorOnlyByRace
  <2> QED
    BY <1>1, <1>3, <2>1, <2>2
<1>5. CASE /\ reviews' = rows /\ hotels' = open
           /\ status' = [p \in Pairs |-> IF p[2] \in open THEN status[p] ELSE None]
           /\ overtaken' = overtaken \cup OvertakenBy(rows, open)
           /\ vouched' = vouched \cup {Pair(r) : r \in job[e].added}
  <2>1. JobFits'
    <3> SUFFICES ASSUME NEW f \in Editors, Open(f), f # e, NEW a \in job[f].added,
                        NEW r \in rows, r \notin job[f].gone
                 PROVE  Pair(r) # Pair(a)
      BY <1>2, <1>5 DEF JobFits, Open, TypeOK
    <3>1. CASE r \in reviews
      BY <3>1 DEF JobFits
    <3>2. CASE r \in job[e].added
      <4>1. Pair(r) \in PairsOf(e) /\ Pair(a) \in PairsOf(f)
        BY <3>2 DEF PairsOf
      <4> QED
        BY <4>1, <1>2 DEF JobsApart
    <3> QED
      BY <3>1, <3>2
  <2>2. Deserved'
    BY <1>2, <1>5, ReviewsAssumption DEF Deserved, Valid, Statuses
  <2>3. Excused'
    BY <1>2, <1>5 DEF Excused, OvertakenBy
  <2>4. OneEarnedReview'
    <3>1. \A r, s \in rows : Pair(r) = Pair(s) => r = s
      BY <1>2 DEF OneEarnedReview, JobFits
    <3> QED
      BY <1>2, <1>5, <3>1 DEF OneEarnedReview
  <2> QED
    BY <1>1, <1>2, <1>3, <1>5, <2>1, <2>2, <2>3, <2>4 DEF ServerErrorOnlyByRace
<1> QED
  BY <1>4, <1>5 DEF Commit

LEMMA EditReviewed == ReviewInv /\ EditStep => ReviewInv'
<1> SUFFICES ASSUME ReviewInv, EditStep PROVE ReviewInv'
  OBVIOUS
<1> USE DEF ReviewInv
<1>1. TypeOK'
  BY TypeStep DEF Next
<1>2. ASSUME NEW e \in Editors, NEW gone \in SUBSET Rows, NEW added \in SUBSET Rows,
             NEW closing \in Hotels \cup {None}, Begin(e, gone, added, closing),
             gone \subseteq reviews,
             \A a, b \in added : a = b,
             \A a \in added, r \in reviews \ gone : Pair(r) # Pair(a)
      PROVE  ReviewInv'
  <2>1. /\ UNCHANGED <<tables, posterVars, history>> /\ ~Open(e)
        /\ job' = [job EXCEPT ![e] = [gone |-> gone, added |-> added, closing |-> closing]]
        /\ \A f \in Editors : f # e => epc'[f] = epc[f]
        /\ \A r \in gone \cup added : ~Locked(r.user, r.hotel)
    BY <1>2 DEF Begin, Open, TypeOK
  <2>2. \A f \in Editors \ {e} : Open(f) => PairsOf(f) \cap {Pair(r) : r \in gone \cup added} = {}
    BY <2>1 DEF Locked, Open, PairsOf, Pair
  <2>3. /\ PairsOf(e)' = {Pair(r) : r \in gone \cup added}
        /\ \A f \in Editors \ {e} : PairsOf(f)' = PairsOf(f) /\ Open(f)' = Open(f) /\ job'[f] = job[f]
    BY <2>1 DEF PairsOf, Open, TypeOK
  <2>4. JobsApart'
    BY <2>2, <2>3 DEF JobsApart
  <2>5. JobFits'
    BY <1>2, <2>1, <2>3 DEF JobFits, tables, TypeOK
  <2>6. Deserved' /\ Excused' /\ OneEarnedReview' /\ ServerErrorOnlyByRace'
    BY <2>1 DEF Deserved, Excused, OvertakenBy, OneEarnedReview, ServerErrorOnlyByRace, tables,
                posterVars, history
  <2> QED
    BY <1>1, <2>4, <2>5, <2>6
<1>3. ASSUME NEW e \in Editors, DropInside(e) PROVE ReviewInv'
  <2>1. /\ UNCHANGED <<tables, posterVars, job, history>>
        /\ \A f \in Editors : Open(f)' => Open(f)
    BY <1>3 DEF DropInside, Open, TypeOK
  <2>2. JobsApart' /\ JobFits'
    BY <2>1 DEF JobsApart, JobFits, PairsOf, tables
  <2>3. Deserved' /\ Excused' /\ OneEarnedReview' /\ ServerErrorOnlyByRace'
    BY <2>1 DEF Deserved, Excused, OvertakenBy, OneEarnedReview, ServerErrorOnlyByRace, tables,
                posterVars, history
  <2> QED
    BY <1>1, <2>2, <2>3
<1> QED
  BY EditorSteps, <1>2, <1>3, CommitReviewed

LEMMA AroundReviewed == ReviewInv /\ Around => ReviewInv'
<1> SUFFICES ASSUME ReviewInv, Around PROVE ReviewInv'
  OBVIOUS
<1> USE DEF ReviewInv
<1>1. TypeOK'
  BY TypeStep DEF Next
<1>2. ASSUME NEW batch \in SUBSET Rows, Seed(batch) PROVE ReviewInv'
  <2>1. /\ reviews' = reviews \cup batch
        /\ vouched' = vouched \cup {Pair(r) : r \in batch}
        /\ overtaken' = overtaken \cup OvertakenBy(reviews \cup batch, hotels)
        /\ UNCHANGED <<hotels, status, ppc, draft, failed, epc, job, earned>>
    BY <1>2 DEF Seed, editVars
  <2>2. JobsApart'
    BY <2>1 DEF JobsApart, Open, PairsOf
  <2>3. JobFits'
    <3>1. \A e \in Editors : \A a \in job[e].added, r \in batch : Open(e) => Pair(r) # Pair(a)
      BY <1>2 DEF Seed, Locked, Open, Pair
    <3> QED
      BY <2>1, <3>1 DEF JobFits, Open
  <2>4. OneEarnedReview'
    <3>1. \A r \in batch, s \in reviews : Pair(r) # Pair(s)
      BY <1>2 DEF Seed, Reviewed, Pair
    <3>2. \A r, s \in batch : Pair(r) = Pair(s) => r = s
      BY <1>2 DEF Seed
    <3> QED
      BY <2>1, <3>1, <3>2 DEF OneEarnedReview
  <2>5. Deserved' /\ Excused' /\ ServerErrorOnlyByRace'
    BY <2>1 DEF Deserved, Excused, OvertakenBy, ServerErrorOnlyByRace
  <2> QED
    BY <1>1, <2>2, <2>3, <2>4, <2>5
<1>3. ASSUME NEW u \in Users, NEW m \in Emails, ChangeEmail(u, m) PROVE ReviewInv'
  <2>1. UNCHANGED <<hotels, status, reviews, posterVars, editVars, history>>
    BY <1>3 DEF ChangeEmail
  <2>2. Deserved' /\ Excused' /\ OneEarnedReview' /\ ServerErrorOnlyByRace'
    BY <2>1 DEF Deserved, Excused, OvertakenBy, OneEarnedReview, ServerErrorOnlyByRace,
                posterVars, history
  <2> QED
    BY <1>1, <2>1, <2>2, EditorsUntouched
<1>4. ASSUME NEW u \in Users, NEW h \in Hotels, NEW s \in Statuses \cup {None},
             ChangeBooking(u, h, s)
      PROVE  ReviewInv'
  <2>1. /\ UNCHANGED <<hotels, reviews, posterVars, editVars, vouched>>
        /\ status' = [status EXCEPT ![<<u, h>>] = s] /\ h \in hotels
        /\ earned' = IF s \in Valid THEN earned \cup {<<u, h>>} ELSE earned
    BY <1>4 DEF ChangeBooking
  <2>2. Deserved'
    BY <2>1 DEF Deserved, Pairs, posterVars, TypeOK
  <2>3. Excused' /\ OneEarnedReview' /\ ServerErrorOnlyByRace'
    BY <2>1 DEF Excused, OvertakenBy, OneEarnedReview, ServerErrorOnlyByRace, posterVars
  <2> QED
    BY <1>1, <2>1, <2>2, <2>3, EditorsUntouched
<1>5. ASSUME NEW h \in Hotels, Expire(h) PROVE ReviewInv'
  <2>1. UNCHANGED <<tables, posterVars, editVars, history>>
    BY <1>5 DEF Expire
  <2>2. Deserved' /\ Excused' /\ OneEarnedReview' /\ ServerErrorOnlyByRace'
    BY <2>1 DEF Deserved, Excused, OvertakenBy, OneEarnedReview, ServerErrorOnlyByRace,
                tables, posterVars, history
  <2> QED
    BY <1>1, <2>1, <2>2, EditorsUntouched DEF tables
<1> QED
  BY <1>2, <1>3, <1>4, <1>5 DEF Around

LEMMA ReviewStep == ReviewInv /\ [Next]_vars => ReviewInv'
<1> SUFFICES ASSUME ReviewInv, [Next]_vars PROVE ReviewInv'
  OBVIOUS
<1> USE DEF ReviewInv
<1>1. TypeOK'
  BY TypeStep
<1>2. CASE ReadStep \/ UNCHANGED vars
  <2>1. UNCHANGED <<tables, posterVars, editVars, history>>
    BY <1>2 DEF ReadStep, Miss, Query, Fill, vars
  <2>2. Deserved' /\ Excused' /\ OneEarnedReview' /\ ServerErrorOnlyByRace'
    BY <2>1 DEF Deserved, Excused, OvertakenBy, OneEarnedReview, ServerErrorOnlyByRace,
                tables, posterVars, history
  <2> QED
    BY <1>1, <2>1, <2>2, EditorsUntouched DEF tables
<1>3. CASE Crash
  <2>1. /\ UNCHANGED <<tables, overtaken, failed, history>>
        /\ \A p \in Posters : ppc'[p] = "idle"
        /\ \A e \in Editors : epc'[e] = "idle"
    BY <1>3 DEF Crash
  <2>2. JobsApart' /\ JobFits'
    BY <2>1 DEF JobsApart, JobFits, Open
  <2>3. Deserved' /\ Excused' /\ OneEarnedReview' /\ ServerErrorOnlyByRace'
    BY <2>1 DEF Deserved, Excused, OvertakenBy, OneEarnedReview, ServerErrorOnlyByRace, tables,
                history
  <2> QED
    BY <1>1, <2>2, <2>3
<1> QED
  BY <1>2, <1>3, PostReviewed, EditReviewed, AroundReviewed DEF Next

\* However requests, transactions and batches interleave, a user has one review of a hotel
\* at most, and had a booking to show for it unless staff put it there.
THEOREM OneReviewEach == Spec => []OneEarnedReview
<1>1. ReviewInv => OneEarnedReview
  BY DEF ReviewInv
<1> QED
  BY ReviewInit, ReviewStep, <1>1, PTL DEF Spec

\* The 500 of the unique constraint needs somebody else: a poster alone is told 400.
THEOREM ConstraintOnlyInRaces == Spec => []ServerErrorOnlyByRace
<1>1. ReviewInv => ServerErrorOnlyByRace
  BY DEF ReviewInv
<1> QED
  BY ReviewInit, ReviewStep, <1>1, PTL DEF Spec

-----------------------------------------------------------------------------
ListInv == TypeOK /\ StaleListHasCause

\* A list that is stored, out of date, and stays as it is keeps its cause unless a drop
\* removes it.
LEMMA CauseStays ==
  ASSUME TypeOK, StaleListHasCause, UNCHANGED <<cache, stored, reviews, email>>,
         exposed \subseteq exposed',
         \A h \in Hotels : DropDue(h) => DropDue(h)' \/ h \in exposed'
  PROVE  StaleListHasCause'
BY DEF StaleListHasCause, Current, TypeOK

\* A change of the tables that exposes what it puts out of date is covered.
LEMMA ChangeExposes ==
  ASSUME TypeOK, StaleListHasCause, UNCHANGED <<cache, stored, ppc, draft>>,
         exposed' = exposed \cup Outdated(reviews', email')
  PROVE  StaleListHasCause'
<1> SUFFICES ASSUME NEW h \in stored, cache[h] # Current(h)'
             PROVE  DropDue(h)' \/ h \in exposed'
  BY DEF StaleListHasCause
<1>1. CASE Current(h)' = Current(h)
  BY <1>1 DEF StaleListHasCause, DropDue
<1>2. CASE Current(h)' # Current(h)
  BY <1>2 DEF Outdated, Current, TypeOK
<1> QED
  BY <1>1, <1>2

\* Dropping every list leaves nothing out of date; failing to exposes what is there.
LEMMA DropAllCovers == ASSUME DropAll PROVE StaleListHasCause'
BY DEF DropAll, StaleListHasCause, cacheVars

LEMMA ListPost == ListInv /\ PostStep => StaleListHasCause'
<1> SUFFICES ASSUME ListInv, NEW p \in Posters,
                    \/ \E u \in Users, h \in Hotels : Submit(p, u, h)
                    \/ CheckFirst(p)
                    \/ \E t \in Texts : Insert(p, t)
                    \/ DropLists(p)
             PROVE  StaleListHasCause'
  BY DEF PostStep
<1> USE DEF ListInv
<1>1. ASSUME NEW u \in Users, NEW h \in Hotels, Submit(p, u, h) PROVE StaleListHasCause'
  BY <1>1, CauseStays DEF Submit, DropDue, tables, cacheVars, TypeOK
<1>2. CASE CheckFirst(p)
  BY <1>2, CauseStays DEF CheckFirst, Answer, DropDue, tables, cacheVars, TypeOK
<1>3. ASSUME NEW t \in Texts, Insert(p, t) PROVE StaleListHasCause'
  <2> DEFINE row == [user |-> draft[p].user, hotel |-> draft[p].hotel, text |-> t]
  <2>1. UNCHANGED <<cache, stored, email, exposed>> /\ ppc[p] = "inserting"
    BY <1>3 DEF Insert, cacheVars
  <2>2. CASE UNCHANGED reviews /\ Answer(p)
    BY <2>1, <2>2, CauseStays DEF Answer, DropDue, TypeOK
  <2>3. CASE reviews' = reviews \cup {row} /\ ppc' = [ppc EXCEPT ![p] = "dropping"] /\ UNCHANGED draft
    <3> SUFFICES ASSUME NEW h \in stored, cache[h] # Current(h)' PROVE DropDue(h)' \/ h \in exposed
      BY <2>1 DEF StaleListHasCause
    <3>1. CASE h = draft[p].hotel
      BY <2>3, <3>1 DEF DropDue, TypeOK
    <3>2. CASE h # draft[p].hotel
      <4>1. {x \in reviews \cup {row} : x.hotel = h} = {x \in reviews : x.hotel = h}
        BY <3>2
      <4>2. Current(h)' = Current(h)
        BY <2>1, <2>3, <4>1 DEF Current, PageOf
      <4>3. DropDue(h) => DropDue(h)'
        BY <2>3 DEF DropDue, TypeOK
      <4> QED
        BY <4>2, <4>3 DEF StaleListHasCause
    <3> QED
      BY <3>1, <3>2
  <2> QED
    BY <1>3, <2>2, <2>3 DEF Insert
<1>4. CASE DropLists(p)
  BY <1>4, DropAllCovers DEF DropLists
<1> QED
  BY <1>1, <1>2, <1>3, <1>4

LEMMA ListRead == ListInv /\ ReadStep => StaleListHasCause'
<1> SUFFICES ASSUME ListInv, NEW r \in Readers,
                    (\E h \in Hotels : Miss(r, h)) \/ Query(r) \/ Fill(r)
             PROVE  StaleListHasCause'
  BY DEF ReadStep
<1> USE DEF ListInv
<1>1. CASE (\E h \in Hotels : Miss(r, h)) \/ Query(r)
  BY <1>1, CauseStays DEF Miss, Query, DropDue, tables, cacheVars, posterVars
<1>2. CASE Fill(r)
  <2>1. UNCHANGED <<reviews, email, ppc, draft>> /\ key[r] \in Hotels
    BY <1>2 DEF Fill, tables, posterVars, TypeOK
  <2>2. CASE UNCHANGED <<cache, stored, exposed>>
    BY <2>1, <2>2, CauseStays DEF DropDue
  <2>3. CASE /\ cache' = [cache EXCEPT ![key[r]] = page[r]] /\ stored' = stored \cup {key[r]}
             /\ exposed' = IF page[r] = Current(key[r]) THEN exposed \ {key[r]}
                                                       ELSE exposed \cup {key[r]}
    <3> SUFFICES ASSUME NEW h \in stored', cache'[h] # Current(h)' PROVE DropDue(h)' \/ h \in exposed'
      BY DEF StaleListHasCause
    <3>1. Current(h)' = Current(h) /\ (DropDue(h) => DropDue(h)')
      BY <2>1 DEF Current, DropDue
    <3>2. CASE h = key[r]
      BY <2>1, <2>3, <3>1, <3>2 DEF TypeOK
    <3>3. CASE h # key[r]
      BY <2>3, <3>1, <3>3 DEF TypeOK, StaleListHasCause
    <3> QED
      BY <3>2, <3>3
  <2> QED
    BY <1>2, <2>2, <2>3 DEF Fill, cacheVars
<1> QED
  BY <1>1, <1>2

LEMMA ListEdit == ListInv /\ EditStep => StaleListHasCause'
<1> SUFFICES ASSUME ListInv, EditStep PROVE StaleListHasCause'
  OBVIOUS
<1> USE DEF ListInv
<1>1. ASSUME NEW e \in Editors, NEW gone \in SUBSET Rows, NEW added \in SUBSET Rows,
             NEW closing \in Hotels \cup {None}, Begin(e, gone, added, closing)
      PROVE  StaleListHasCause'
  BY <1>1, CauseStays DEF Begin, DropDue, tables, cacheVars, posterVars
<1>2. ASSUME NEW e \in Editors, DropInside(e) PROVE StaleListHasCause'
  BY <1>2, DropAllCovers DEF DropInside
<1>3. ASSUME NEW e \in Editors, Commit(e) PROVE StaleListHasCause'
  <2>1. UNCHANGED <<email, cache, stored, ppc, draft>>
    BY <1>3 DEF Commit, cacheVars
  <2>2. CASE UNCHANGED <<reviews, exposed>>
    BY <2>1, <2>2, CauseStays DEF DropDue
  <2>3. CASE exposed' = exposed \cup Outdated(reviews', email)
    BY <2>1, <2>3, ChangeExposes
  <2> QED
    BY <1>3, <2>2, <2>3 DEF Commit
<1> QED
  BY EditorSteps, <1>1, <1>2, <1>3

LEMMA ListStep == ListInv /\ [Next]_vars => ListInv'
<1> SUFFICES ASSUME ListInv, [Next]_vars PROVE StaleListHasCause'
  BY TypeStep DEF ListInv
<1> USE DEF ListInv
<1>1. ASSUME NEW batch \in SUBSET Rows, Seed(batch) PROVE StaleListHasCause'
  BY <1>1, ChangeExposes DEF Seed, cacheVars
<1>2. ASSUME NEW u \in Users, NEW m \in Emails, ChangeEmail(u, m) PROVE StaleListHasCause'
  BY <1>2, ChangeExposes DEF ChangeEmail, cacheVars, posterVars
<1>3. ASSUME NEW u \in Users, NEW h \in Hotels, NEW s \in Statuses \cup {None},
             ChangeBooking(u, h, s)
      PROVE  StaleListHasCause'
  BY <1>3, CauseStays DEF ChangeBooking, DropDue, cacheVars, posterVars
<1>4. ASSUME NEW h0 \in Hotels, Expire(h0) PROVE StaleListHasCause'
  <2>1. /\ UNCHANGED <<reviews, email, ppc, draft>>
        /\ cache' = [cache EXCEPT ![h0] = {}] /\ stored' = stored \ {h0} /\ exposed' = exposed \ {h0}
    BY <1>4 DEF Expire, tables, posterVars
  <2> SUFFICES ASSUME NEW h \in stored', cache'[h] # Current(h)' PROVE DropDue(h)' \/ h \in exposed'
    BY DEF StaleListHasCause
  <2>2. h \in stored /\ h # h0 /\ cache'[h] = cache[h]
    BY <2>1 DEF TypeOK
  <2>3. Current(h)' = Current(h) /\ (DropDue(h) => DropDue(h)')
    BY <2>1 DEF Current, DropDue
  <2> QED
    BY <2>1, <2>2, <2>3 DEF StaleListHasCause
<1>5. CASE Crash
  <2>1. exposed' = exposed \cup {h \in stored : DropDue(h)} /\ UNCHANGED <<reviews, email, cache, stored>>
    BY <1>5 DEF Crash, tables, cacheVars
  <2> QED
    BY <2>1 DEF StaleListHasCause, Current
<1>6. CASE UNCHANGED vars
  BY <1>6, CauseStays DEF vars, tables, cacheVars, posterVars, DropDue
<1> QED
  BY <1>1, <1>2, <1>3, <1>4, <1>5, <1>6, ListPost, ListRead, ListEdit DEF Next, Around

\* For any number of threads, and whatever fails, a cached list of reviews is out of date only
\* while a poster still has to drop it or through one of the holes StaleListHasCause names.
THEOREM StaleListsExplained == Spec => []StaleListHasCause
<1>1. Init => ListInv
  BY TypeInit DEF Init, ListInv, StaleListHasCause
<1>2. ListInv => StaleListHasCause
  BY DEF ListInv
<1> QED
  BY <1>1, <1>2, ListStep, PTL DEF Spec
==============================================================================
