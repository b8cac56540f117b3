----------------------------- MODULE MailTasks ------------------------------
(***************************************************************************)
(* The Celery tasks that send mail: the daily check-in reminders of        *)
(* apps/bookings/tasks.py and the one-time codes of apps/users/tasks.py,   *)
(* over the threads and timeouts of apps/abstract/async_io.py.             *)
(*                                                                         *)
(*   task    Begin -> (Hand -> Resume | TimeOut)* -> Finish                *)
(*   thread  Hand -> Deliver | Refuse                                      *)
(*                                                                         *)
(* A timeout ends the waiting and not the thread, whose mail may still go  *)
(* out.  Meanwhile bookings come and go (module Bookings), and the worker  *)
(* may be killed; the broker may hand one message out twice, which is      *)
(* another run.                                                            *)
(***************************************************************************)
EXTENDS Integers

CONSTANTS Runs,        \* executions of tasks
          Users,
          Bookings,
          Guest,       \* who made each booking
          CodeFor,     \* the user a run sends a code to, or None for a run of the reminders
          None

ASSUME TasksAssumption ==
  /\ Guest \in [Bookings -> Users]
  /\ CodeFor \in [Runs -> Users \cup {None}]
  /\ None \notin Users

VARIABLES
  due,       \* the tables: bookings that check in today, pending or confirmed, of active users
  pc,        \* where each run is
  left,      \* the users it has yet to mail
  awaited,   \* the user whose mail it waits for, or None
  answer,    \* what the thread of that mail returned
  counted,   \* the users whose mail it reports as sent: reminders_sent is their number
  threads,   \* how many threads still send a user's mail
  copies,    \* how many mails of the run reached a user
  handed,    \* history: the users whose mail went to a thread
  since      \* history: the bookings that became due since a run of the reminders read them

taskVars == <<pc, left, awaited, answer, counted>>
mailVars == <<threads, copies, handed>>
vars == <<due, taskVars, mailVars, since>>

-----------------------------------------------------------------------------
TypeOK ==
  /\ due \subseteq Bookings
  /\ pc \in [Runs -> {"queued", "running", "finished", "lost"}]
  /\ left \in [Runs -> SUBSET Users]
  /\ awaited \in [Runs -> Users \cup {None}]
  /\ answer \in [Runs -> {"none", "sent", "error"}]
  /\ counted \in [Runs -> SUBSET Users]
  /\ threads \in [Runs -> [Users -> Nat]]
  /\ copies \in [Runs -> [Users -> Nat]]
  /\ handed \in [Runs -> SUBSET Users]
  /\ since \in [Runs -> SUBSET Bookings]

Init ==
  /\ due \in SUBSET Bookings
  /\ pc = [r \in Runs |-> "queued"]
  /\ left = [r \in Runs |-> {}]
  /\ awaited = [r \in Runs |-> None]
  /\ answer = [r \in Runs |-> "none"]
  /\ counted = [r \in Runs |-> {}]
  /\ threads = [r \in Runs |-> [u \in Users |-> 0]]
  /\ copies = [r \in Runs |-> [u \in Users |-> 0]]
  /\ handed = [r \in Runs |-> {}]
  /\ since = [r \in Runs |-> {}]

-----------------------------------------------------------------------------
\* Guests and administrators make, change, cancel and delete bookings, one or (with their
\* room, or from the list of the admin site) several at once, and disable and enable users.
TablesChange(now) ==
  /\ due' = now
  /\ since' = [r \in Runs |->
       IF CodeFor[r] = None /\ pc[r] # "queued" THEN since[r] \cup (now \ due) ELSE since[r]]
  /\ UNCHANGED <<taskVars, mailVars>>

-----------------------------------------------------------------------------
\* Whom a run mails: the recipient of a code, or the guests of one query's bookings, each once.
ToMail(r) ==
  IF CodeFor[r] # None THEN {CodeFor[r]}
  ELSE {Guest[b] : b \in due}

Begin(r) ==
  /\ pc[r] = "queued"
  /\ pc' = [pc EXCEPT ![r] = "running"]
  /\ left' = [left EXCEPT ![r] = ToMail(r)]
  /\ UNCHANGED <<due, awaited, answer, counted, mailVars, since>>

\* The next mail goes to a thread, and the task waits for it.  (The code takes users in
\* the order of their ids; nothing depends on it.)
Hand(r, u) ==
  /\ pc[r] = "running" /\ awaited[r] = None /\ u \in left[r]
  /\ left' = [left EXCEPT ![r] = @ \ {u}]
  /\ awaited' = [awaited EXCEPT ![r] = u]
  /\ answer' = [answer EXCEPT ![r] = "none"]
  /\ threads' = [threads EXCEPT ![r][u] = @ + 1]
  /\ handed' = [handed EXCEPT ![r] = @ \cup {u}]
  /\ UNCHANGED <<due, pc, counted, copies, since>>

-----------------------------------------------------------------------------
\* A thread ends.  The task learns how only if it still waits for that mail.
ThreadEnds(r, u, how) ==
  /\ threads' = [threads EXCEPT ![r][u] = @ - 1]
  /\ answer' = IF awaited[r] = u THEN [answer EXCEPT ![r] = how] ELSE answer
  /\ UNCHANGED <<due, pc, left, awaited, counted, handed, since>>

MailOut(r, u) == copies' = [copies EXCEPT ![r][u] = @ + 1]

\* Faulty Deliver: a thread that has ended delivers again.
DeliverAgain(r, u) == u \in handed[r] /\ MailOut(r, u) /\ ThreadEnds(r, u, "sent")

Deliver(r, u) == threads[r][u] > 0 /\ MailOut(r, u) /\ ThreadEnds(r, u, "sent")

\* send_mail() raises; the mail may be out all the same, when the connection broke late.
Refuse(r, u) ==
  /\ threads[r][u] > 0
  /\ MailOut(r, u) \/ UNCHANGED copies
  /\ ThreadEnds(r, u, "error")

-----------------------------------------------------------------------------
StopWaiting(r) ==
  /\ pc[r] = "running" /\ awaited[r] # None
  /\ awaited' = [awaited EXCEPT ![r] = None]
  /\ UNCHANGED <<due, pc, answer, mailVars, since>>

Count(r) == counted' = [counted EXCEPT ![r] = @ \cup {awaited[r]}]

\* Faulty Resume: an error ends the loop.
ResumeOrBreak(r) ==
  /\ answer[r] # "none" /\ StopWaiting(r)
  /\ \/ answer[r] = "sent" /\ Count(r) /\ UNCHANGED left
     \/ answer[r] = "error" /\ left' = [left EXCEPT ![r] = {}] /\ UNCHANGED counted

\* A mail that was sent counts; after an error the loop continues with the next user.
Resume(r) ==
  /\ StopWaiting(r) /\ UNCHANGED left
  /\ (answer[r] = "sent" /\ Count(r)) \/ (answer[r] = "error" /\ UNCHANGED counted)

\* Faulty TimeOut: tries the user again later.
TimeOutAndRetry(r) ==
  StopWaiting(r) /\ left' = [left EXCEPT ![r] = @ \cup {awaited[r]}] /\ UNCHANGED counted

\* Faulty TimeOut: takes silence for success.
TimeOutCounted(r) == StopWaiting(r) /\ Count(r) /\ UNCHANGED left

\* Faulty TimeOut: waits for as long as the thread runs.
NeverTimeOut(r) == answer[r] # "none" /\ StopWaiting(r) /\ UNCHANGED <<left, counted>>

\* wait_for() gives up, perhaps on a thread that has just ended.
TimeOut(r) == StopWaiting(r) /\ UNCHANGED <<left, counted>>

Finish(r) ==
  /\ pc[r] = "running" /\ awaited[r] = None /\ left[r] = {}
  /\ pc' = [pc EXCEPT ![r] = "finished"]
  /\ UNCHANGED <<due, left, awaited, answer, counted, mailVars, since>>

\* The worker is killed: the message was acknowledged when the task began, so nobody
\* resumes it.  Mails in its threads may be out or not.
Kill(r) ==
  /\ pc[r] = "running"
  /\ pc' = [pc EXCEPT ![r] = "lost"]
  /\ awaited' = [awaited EXCEPT ![r] = None]
  /\ UNCHANGED <<due, left, answer, counted, mailVars, since>>

-----------------------------------------------------------------------------
BookingStep == \E now \in SUBSET Bookings : TablesChange(now)

TaskStep == \E r \in Runs :
  \/ Begin(r) \/ (\E u \in Users : Hand(r, u))
  \/ Resume(r) \/ TimeOut(r) \/ Finish(r) \/ Kill(r)

ThreadStep == \E r \in Runs, u \in Users : Deliver(r, u) \/ Refuse(r, u)

Next == BookingStep \/ TaskStep \/ ThreadStep

Spec == Init /\ [][Next]_vars

\* A worker that runs a task keeps running it, and its clock ticks.  Mail servers owe
\* nothing: a thread may hang for ever.
FairSpec ==
  /\ Spec
  /\ \A r \in Runs : WF_vars((\E u \in Users : Hand(r, u)) \/ TimeOut(r) \/ Finish(r))

-----------------------------------------------------------------------------
\* "Users with one or more bookings starting today get a single reminder email"
\* (bookings/tests.py): no run mails a user twice, whatever times out or is delivered late.
AtMostOneMail == \A r \in Runs, u \in Users : copies[r][u] <= 1

\* What a task reports as sent reached the user's mail server; the converse fails, since a
\* mail that timed out may be delivered later.
ReportIsHonest == \A r \in Runs : \A u \in counted[r] : copies[r][u] > 0

\* A run that finished has sent mail, or tried to, to every guest with a booking that was
\* due from before the run began: no failure or timeout of another's mail and no
\* cancellation meanwhile makes the loop skip one.
DueGuestsTried ==
  \A r \in Runs : pc[r] = "finished" /\ CodeFor[r] = None =>
    \A b \in due \ since[r] : Guest[b] \in handed[r]

\* Every run comes to an end, although mail servers may never answer.
TaskEnds == \A r \in Runs : pc[r] = "running" ~> pc[r] \in {"finished", "lost"}
=============================================================================
