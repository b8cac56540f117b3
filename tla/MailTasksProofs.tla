-------------------------- MODULE MailTasksProofs ---------------------------
(***************************************************************************)
(* Theorems about MailTasks, for any number of runs, users and bookings    *)
(* and however slow or faulty the mail server is.                          *)
(***************************************************************************)
EXTENDS MailTasks, TLAPS

\* A user's mail is with one thread or out once, and only after it was handed over; who is
\* left to mail was not handed over yet.
MailInv ==
  \A r \in Runs, u \in Users :
    /\ threads[r][u] + copies[r][u] <= 1
    /\ u \notin handed[r] => threads[r][u] = 0 /\ copies[r][u] = 0
    /\ u \in left[r] => u \notin handed[r]

\* What the task has been told, or has counted, is out.
ReportInv ==
  /\ ReportIsHonest
  /\ \A r \in Runs : awaited[r] # None /\ answer[r] = "sent" => copies[r][awaited[r]] > 0

\* Guests of bookings due since the tables were read are left to mail, or were handed over.
LoopInv ==
  /\ \A r \in Runs : pc[r] = "queued" => left[r] = {} /\ handed[r] = {}
  /\ \A r \in Runs : pc[r] = "finished" => left[r] = {}
  /\ \A r \in Runs : pc[r] \in {"running", "finished"} /\ CodeFor[r] = None =>
       \A b \in due \ since[r] : Guest[b] \in left[r] \cup handed[r]

Inv == TypeOK /\ MailInv /\ ReportInv /\ LoopInv

LEMMA InvInit == Init => Inv
BY TasksAssumption DEF Init, Inv, TypeOK, MailInv, ReportInv, ReportIsHonest, LoopInv

LEMMA BookingSteps == Inv /\ BookingStep => Inv'
<1> SUFFICES ASSUME Inv, NEW now \in SUBSET Bookings, TablesChange(now) PROVE Inv'
  BY DEF BookingStep
<1> USE DEF Inv, TablesChange
<1>1. TypeOK'
  BY DEF TypeOK, taskVars, mailVars
<1>2. MailInv' /\ ReportInv'
  BY DEF MailInv, ReportInv, ReportIsHonest, taskVars, mailVars
<1>3. LoopInv'
  <2>1. ASSUME NEW r \in Runs, pc[r] \in {"running", "finished"}, CodeFor[r] = None
        PROVE  due' \ since'[r] \subseteq due \ since[r]
    BY <2>1
  <2> QED
    BY <2>1 DEF LoopInv, taskVars, mailVars
<1> QED
  BY <1>1, <1>2, <1>3

\* Begin: the bookings due now are those whose guests are left to mail.
LEMMA BeginStep ==
  ASSUME Inv, NEW r \in Runs, Begin(r) PROVE Inv'
<1> USE TasksAssumption DEF Inv, Begin, mailVars
<1>1. ToMail(r) \subseteq Users
  <2>1. CASE CodeFor[r] # None
    BY <2>1 DEF ToMail
  <2>2. CASE CodeFor[r] = None
    BY <2>2 DEF ToMail, TypeOK
  <2> QED
    BY <2>1, <2>2
<1>2. TypeOK'
  BY <1>1 DEF TypeOK
<1>3. MailInv' /\ ReportInv'
  BY <1>1 DEF TypeOK, MailInv, ReportInv, ReportIsHonest, LoopInv
<1>4. LoopInv'
  <2>1. \A q \in Runs : pc'[q] = "queued" => left'[q] = {} /\ handed'[q] = {}
    BY DEF TypeOK, LoopInv
  <2>2. \A q \in Runs : pc'[q] = "finished" => left'[q] = {}
    BY DEF TypeOK, LoopInv
  <2>3. ASSUME NEW q \in Runs, pc'[q] \in {"running", "finished"}, CodeFor[q] = None,
               NEW b \in due' \ since'[q]
        PROVE  Guest[b] \in left'[q] \cup handed'[q]
    <3>1. CASE q = r
      BY <2>3, <3>1 DEF TypeOK, ToMail
    <3>2. CASE q # r
      BY <2>3, <3>2 DEF TypeOK, LoopInv
    <3> QED
      BY <3>1, <3>2
  <2> QED
    BY <2>1, <2>2, <2>3 DEF LoopInv
<1> QED
  BY <1>2, <1>3, <1>4

\* Hand: the one step that starts a thread takes the user off the list.
LEMMA HandStep ==
  ASSUME Inv, NEW r \in Runs, NEW u \in Users, Hand(r, u) PROVE Inv'
<1> USE TasksAssumption DEF Inv, Hand
<1>1. TypeOK'
  BY DEF TypeOK
<1>2. MailInv'
  BY DEF TypeOK, MailInv
<1>3. ReportInv'
  BY DEF TypeOK, ReportInv, ReportIsHonest
<1>4. LoopInv'
  BY DEF TypeOK, LoopInv
<1> QED
  BY <1>1, <1>2, <1>3, <1>4

\* Deliver and Refuse: a thread ends, perhaps with a mail.
LEMMA ThreadEffect ==
  ASSUME TypeOK, NEW r \in Runs, NEW u \in Users, Deliver(r, u) \/ Refuse(r, u)
  PROVE  /\ threads[r][u] > 0
         /\ threads' = [threads EXCEPT ![r][u] = threads[r][u] - 1]
         /\ \/ copies' = copies /\ ~Deliver(r, u)
            \/ copies' = [copies EXCEPT ![r][u] = copies[r][u] + 1]
         /\ \/ answer' = answer /\ awaited[r] # u
            \/ answer' = [answer EXCEPT ![r] = "sent"] /\ awaited[r] = u /\ Deliver(r, u)
            \/ answer' = [answer EXCEPT ![r] = "error"] /\ awaited[r] = u
         /\ UNCHANGED <<due, pc, left, awaited, counted, handed, since>>
<1>1. CASE Deliver(r, u)
  BY <1>1 DEF Deliver, MailOut, ThreadEnds
<1>2. CASE Refuse(r, u) /\ ~Deliver(r, u)
  BY <1>2 DEF Refuse, MailOut, ThreadEnds
<1> QED
  BY <1>1, <1>2

\* Changing one number of a table of numbers.
LEMMA TableUpdate ==
  ASSUME NEW f \in [Runs -> [Users -> Nat]], NEW r \in Runs, NEW u \in Users, NEW n \in Nat
  PROVE  [f EXCEPT ![r][u] = n] \in [Runs -> [Users -> Nat]]
<1> DEFINE row == [f[r] EXCEPT ![u] = n]
<1>1. row \in [Users -> Nat]
  OBVIOUS
<1>2. [f EXCEPT ![r][u] = n] = [f EXCEPT ![r] = row]
  OBVIOUS
<1> HIDE DEF row
<1> QED
  BY <1>1, <1>2

LEMMA ThreadSteps ==
  ASSUME Inv, NEW r \in Runs, NEW u \in Users, Deliver(r, u) \/ Refuse(r, u) PROVE Inv'
<1> USE TasksAssumption DEF Inv
<1> DEFINE mine(q, v) == q = r /\ v = u
<1>1. threads' \in [Runs -> [Users -> Nat]] /\ copies' \in [Runs -> [Users -> Nat]]
  <2>1. threads[r][u] - 1 \in Nat /\ copies[r][u] + 1 \in Nat
    BY ThreadEffect DEF TypeOK
  <2>2. threads' \in [Runs -> [Users -> Nat]]
    <3>1. threads \in [Runs -> [Users -> Nat]]
      BY DEF TypeOK
    <3>2. threads' = [threads EXCEPT ![r][u] = threads[r][u] - 1]
      BY ThreadEffect
    <3> QED
      BY <2>1, <3>1, <3>2, TableUpdate
  <2>3. copies' \in [Runs -> [Users -> Nat]]
    <3>1. [copies EXCEPT ![r][u] = copies[r][u] + 1] \in [Runs -> [Users -> Nat]]
      BY <2>1, TableUpdate DEF TypeOK
    <3>2. \/ copies' = copies
          \/ copies' = [copies EXCEPT ![r][u] = copies[r][u] + 1]
      BY ThreadEffect
    <3> QED
      BY <3>1, <3>2 DEF TypeOK
  <2> QED
    BY <2>2, <2>3
<1>2. \A q \in Runs, v \in Users :
        /\ ~mine(q, v) => threads'[q][v] = threads[q][v] /\ copies'[q][v] = copies[q][v]
        /\ mine(q, v) => /\ threads'[q][v] = threads[q][v] - 1
                         /\ copies'[q][v] \in {copies[q][v], copies[q][v] + 1}
  BY ThreadEffect DEF TypeOK
<1> HIDE DEF mine
<1>3. TypeOK'
  <2>1. answer' \in [Runs -> {"none", "sent", "error"}]
    <3>1. answer \in [Runs -> {"none", "sent", "error"}]
      BY DEF TypeOK
    <3>2. \/ answer' = answer
          \/ answer' = [answer EXCEPT ![r] = "sent"]
          \/ answer' = [answer EXCEPT ![r] = "error"]
      BY ThreadEffect
    <3> QED
      BY <3>1, <3>2
  <2> QED
    BY <1>1, <2>1, ThreadEffect DEF TypeOK
<1>4. MailInv'
  <2> SUFFICES ASSUME NEW q \in Runs, NEW v \in Users
               PROVE  /\ threads'[q][v] + copies'[q][v] <= 1
                      /\ v \notin handed'[q] => threads'[q][v] = 0 /\ copies'[q][v] = 0
                      /\ v \in left'[q] => v \notin handed'[q]
    BY DEF MailInv
  <2>1. threads[q][v] \in Nat /\ copies[q][v] \in Nat
    BY DEF TypeOK
  <2>2. CASE mine(q, v)
    BY <1>2, <2>1, <2>2, ThreadEffect DEF MailInv, mine
  <2>3. CASE ~mine(q, v)
    BY <1>2, <2>3, ThreadEffect DEF MailInv
  <2> QED
    BY <2>2, <2>3
<1>5. ReportInv'
  <2>1. \A q \in Runs, v \in Users : copies[q][v] > 0 => copies'[q][v] > 0
    <3> SUFFICES ASSUME NEW q \in Runs, NEW v \in Users, copies[q][v] > 0 PROVE copies'[q][v] > 0
      OBVIOUS
    <3>1. copies[q][v] \in Nat
      BY DEF TypeOK
    <3> QED
      BY <1>2, <3>1
  <2>2. ReportIsHonest'
    BY <2>1, ThreadEffect DEF TypeOK, ReportInv, ReportIsHonest
  <2>3. ASSUME NEW q \in Runs, awaited'[q] # None, answer'[q] = "sent"
        PROVE  copies'[q][awaited'[q]] > 0
    <3>1. CASE answer[q] = "sent"
      BY <2>1, <2>3, <3>1, ThreadEffect DEF TypeOK, ReportInv
    <3>2. CASE answer[q] # "sent"
      <4>1. q = r /\ awaited[r] = u /\ Deliver(r, u)
        BY <2>3, <3>2, ThreadEffect DEF TypeOK
      <4>2. copies'[r][u] = copies[r][u] + 1 /\ copies[r][u] \in Nat
        BY <4>1 DEF TypeOK, Deliver, MailOut
      <4> QED
        BY <4>1, <4>2, ThreadEffect
    <3> QED
      BY <3>1, <3>2
  <2> QED
    BY <2>2, <2>3 DEF ReportInv
<1>6. LoopInv'
  BY ThreadEffect DEF LoopInv
<1> QED
  BY <1>3, <1>4, <1>5, <1>6

\* Resume, TimeOut, Finish and Kill touch no mail and take nobody off the list.
LEMMA LoopSteps ==
  ASSUME Inv, NEW r \in Runs, Resume(r) \/ TimeOut(r) \/ Finish(r) \/ Kill(r) PROVE Inv'
<1> USE TasksAssumption DEF Inv
<1>1. UNCHANGED <<due, left, answer, mailVars, since>>
  BY DEF StopWaiting, Resume, TimeOut, Finish, Kill
<1>2. /\ pc' \in [Runs -> {"queued", "running", "finished", "lost"}]
      /\ awaited' \in [Runs -> Users \cup {None}]
  BY DEF TypeOK, StopWaiting, Resume, TimeOut, Finish, Kill
<1>3. /\ counted' \in [Runs -> SUBSET Users]
      /\ \A q \in Runs : \A u \in counted'[q] :
           u \in counted[q] \/ (u = awaited[q] /\ awaited[q] # None /\ answer[q] = "sent")
  <2>1. CASE Resume(r)
    <3>1. CASE answer[r] = "sent" /\ Count(r)
      BY <2>1, <3>1 DEF TypeOK, Resume, StopWaiting, Count
    <3>2. CASE counted' = counted
      BY <3>2 DEF TypeOK
    <3> QED
      BY <2>1, <3>1, <3>2 DEF Resume
  <2>2. CASE counted' = counted
    BY <2>2 DEF TypeOK
  <2> QED
    BY <2>1, <2>2 DEF TimeOut, Finish, Kill
<1>4. TypeOK'
  BY <1>1, <1>2, <1>3 DEF TypeOK, mailVars
<1>5. MailInv'
  BY <1>1 DEF MailInv, mailVars
<1>6. ReportInv'
  <2>1. \A q \in Runs : awaited'[q] \in {awaited[q], None}
    BY DEF TypeOK, StopWaiting, Resume, TimeOut, Finish, Kill
  <2> QED
    BY <1>1, <1>3, <2>1 DEF TypeOK, ReportInv, ReportIsHonest, mailVars
<1>7. LoopInv'
  BY <1>1 DEF TypeOK, LoopInv, mailVars, StopWaiting, Resume, TimeOut, Finish, Kill
<1> QED
  BY <1>4, <1>5, <1>6, <1>7

LEMMA InvStep == Inv /\ [Next]_vars => Inv'
<1> SUFFICES ASSUME Inv, [Next]_vars PROVE Inv'
  OBVIOUS
<1>1. CASE UNCHANGED vars
  BY <1>1 DEF Inv, TypeOK, MailInv, ReportInv, ReportIsHonest, LoopInv, vars, taskVars, mailVars
<1> QED
  BY <1>1, BookingSteps, BeginStep, HandStep, ThreadSteps, LoopSteps DEF Next, TaskStep, ThreadStep

LEMMA InvCorrect == Spec => []Inv
BY InvInit, InvStep, PTL DEF Spec

\* Every variable of the tasks, their threads and the table keeps its type.
THEOREM TypeCorrect == Spec => []TypeOK
<1>1. Inv => TypeOK
  BY DEF Inv
<1> QED
  BY <1>1, InvCorrect, PTL

\* No run mails a user twice, whatever times out, fails late or is delivered late.
THEOREM OneMailPerUser == Spec => []AtMostOneMail
<1>1. Inv => AtMostOneMail
  BY DEF Inv, TypeOK, MailInv, AtMostOneMail
<1> QED
  BY <1>1, InvCorrect, PTL

\* What a task reports as sent is out.
THEOREM ReportsAreHonest == Spec => []ReportIsHonest
<1>1. Inv => ReportIsHonest
  BY DEF Inv, ReportInv
<1> QED
  BY <1>1, InvCorrect, PTL

\* A finished run of the reminders left out no guest with a booking that was due from
\* before it began.
THEOREM NobodyIsSkipped == Spec => []DueGuestsTried
<1>1. Inv => DueGuestsTried
  BY DEF Inv, LoopInv, DueGuestsTried
<1> QED
  BY <1>1, InvCorrect, PTL
=============================================================================
