------------------------ MODULE BookingNotifications ------------------------
(***************************************************************************)
(* Bookings together with the WebSockets that are told of cancellations:   *)
(* apps/bookings/consumers.py over the Redis channel layer.                *)
(*                                                                         *)
(*   socket   Connect -> Join -> Accept -> Deliver* -> Close -> Leave      *)
(*   cancel   LoadBooking -> SaveCancelled -> Send                         *)
(*                                                                         *)
(* A cancel runs in a worker thread and sockets in the event loop: their   *)
(* steps interleave at every await.  A consumer handles one message at a   *)
(* time, so what arrives while it connects waits in its inbox.             *)
(***************************************************************************)
EXTENDS Bookings, Sequences

CONSTANTS Sockets,
          Viewer,      \* the user whose token a socket presents
          Capacity,    \* messages the channel layer keeps for a socket
          Faults       \* whether calls of the channel layer fail or time out

ASSUME SocketsAssumption ==
  /\ Viewer \in [Sockets -> Users]
  /\ Capacity \in Nat \ {0} /\ Faults \in BOOLEAN

VARIABLES
  phase,      \* where each socket is
  group,      \* the channel layer's groups: the sockets that are in their user's group
  inbox,      \* the channel of each socket: the bookings it is to be told of, oldest first
  told,       \* history: the bookings each socket was told are cancelled
  deaf        \* history: sockets that lost a message or their place in the group to a fault

socketVars == <<phase, group, inbox, told, deaf>>
nvars == <<vars, socketVars>>

-----------------------------------------------------------------------------
NTypeOK ==
  /\ phase \in [Sockets -> {"new", "joining", "joined", "open", "leaving", "gone"}]
  /\ group \subseteq Sockets
  /\ inbox \in [Sockets -> Seq(CreateReqs)]
  /\ \A s \in Sockets : Len(inbox[s]) <= Capacity
  /\ told \in [Sockets -> SUBSET CreateReqs]
  /\ deaf \subseteq Sockets

NInit ==
  /\ Init
  /\ phase = [s \in Sockets |-> "new"]
  /\ group = {}
  /\ inbox = [s \in Sockets |-> << >>]
  /\ told = [s \in Sockets |-> {}]
  /\ deaf = {}

Goto(s, label) == phase' = [phase EXCEPT ![s] = label]

\* No token, a bad one or one without a user closes the socket (4401).
Connect(s) ==
  /\ phase[s] = "new"
  /\ Goto(s, "joining") \/ Goto(s, "gone")
  /\ UNCHANGED <<vars, group, inbox, told, deaf>>

\* Faulty Join: the group is not joined.
JoinNothing(s) ==
  /\ phase[s] = "joining"
  /\ Goto(s, "joined")
  /\ UNCHANGED <<vars, group, inbox, told, deaf>>

\* group_add.  One that failed or timed out, with or without effect, closes the socket (1011).
Join(s) ==
  /\ phase[s] = "joining"
  /\ \/ group' = group \cup {s} /\ Goto(s, "joined")
     \/ Faults /\ group' \in {group, group \cup {s}} /\ Goto(s, "leaving")
  /\ UNCHANGED <<vars, inbox, told, deaf>>

Accept(s) ==
  /\ phase[s] = "joined"
  /\ Goto(s, "open")
  /\ UNCHANGED <<vars, group, inbox, told, deaf>>

\* booking_status
Deliver(s) ==
  /\ phase[s] = "open" /\ inbox[s] # << >>
  /\ told' = [told EXCEPT ![s] = @ \cup {Head(inbox[s])}]
  /\ inbox' = [inbox EXCEPT ![s] = Tail(@)]
  /\ UNCHANGED <<vars, phase, group, deaf>>

\* The client goes away; what waits in the inbox is not delivered any more.
Close(s) ==
  /\ phase[s] \in {"joined", "open"}
  /\ Goto(s, "leaving")
  /\ UNCHANGED <<vars, group, inbox, told, deaf>>

\* disconnect(): a group_discard that failed or timed out leaves the socket in the group.
Leave(s) ==
  /\ phase[s] = "leaving"
  /\ group' = group \ {s} \/ (Faults /\ group' = group)
  /\ Goto(s, "gone")
  /\ UNCHANGED <<vars, inbox, told, deaf>>

\* The channel layer forgets a membership after a day, of open sockets too.
Lapse(s) ==
  /\ Faults /\ s \in group
  /\ group' = group \ {s}
  /\ deaf' = deaf \cup {s}
  /\ UNCHANGED <<vars, phase, inbox, told>>

-----------------------------------------------------------------------------
\* Faulty Audience: the group of whoever owns the hotel.
AudienceOfOwner(b) ==
  {s \in group : booking[b] # None /\ Viewer[s] = Owner[booking[b].room]}

\* The sockets in the group of a booking's guest.
Audience(b) == {s \in group : Viewer[s] = Guest[b]}

\* Faulty Push: inboxes without a bound.
PushAll(b) ==
  /\ inbox' = [s \in Sockets |-> IF s \in Audience(b) THEN Append(inbox[s], b) ELSE inbox[s]]
  /\ UNCHANGED deaf

\* group_send: a full inbox drops the message without a word.
Push(b) ==
  LET full == {s \in Audience(b) : Len(inbox[s]) = Capacity} IN
  /\ inbox' = [s \in Sockets |->
       IF s \in Audience(b) \ full THEN Append(inbox[s], b) ELSE inbox[s]]
  /\ deaf' = deaf \cup full

\* notify(): a send that fails or times out, with or without effect, is logged only.
Send(c) ==
  /\ Notify(c)
  /\ \/ Push(target[c])
     \/ Faults /\ deaf' = deaf \cup Audience(target[c]) /\ UNCHANGED inbox
  /\ UNCHANGED <<phase, group, told>>

-----------------------------------------------------------------------------
SocketStep == \E s \in Sockets :
  Connect(s) \/ Join(s) \/ Accept(s) \/ Deliver(s) \/ Close(s) \/ Leave(s) \/ Lapse(s)

\* What Bookings does, but for Notify.
BookingStep ==
  /\ \/ CreateStep \/ RoomStep \/ AdminStep
     \/ \E c \in CancelReqs : (\E b \in CreateReqs : LoadBooking(c, b)) \/ SaveCancelled(c)
  /\ UNCHANGED socketVars

NNext == BookingStep \/ (\E c \in CancelReqs : Send(c)) \/ SocketStep

NSpec == NInit /\ [][NNext]_nvars

\* A thread that serves a request is never suspended for ever, and the event loop runs;
\* clients may stay, or stay away, as they like, and no request ever has to start.
NFairSpec ==
  /\ NSpec
  /\ \A r \in CreateReqs : WF_nvars((CheckOverlap(r) \/ InsertBooking(r)) /\ UNCHANGED socketVars)
  /\ \A c \in CancelReqs : WF_nvars((SaveCancelled(c) /\ UNCHANGED socketVars) \/ Send(c))
  /\ \A s \in Sockets : WF_nvars(Deliver(s))

-----------------------------------------------------------------------------
\* A socket is told, or about to be told, of its own user's bookings only, and only that
\* a booking is cancelled which is: stale saves, deletions and faults do not make a
\* message false, only an administrator's form does.
News(s) == told[s] \cup {inbox[s][i] : i \in DOMAIN inbox[s]}

NewsIsTrue ==
  \A s \in Sockets : \A b \in News(s) :
    Viewer[s] = Guest[b] /\ (b \notin edited => ~Active(b))

\* A socket that is open when a cancel of its user's booking is saved hears of it, unless
\* it closes, or a message to it or its membership was lost: joining before accepting
\* leaves no gap in which an open socket misses a message.
OpenSocketsHear ==
  \A s \in Sockets, c \in CancelReqs :
    cancelPc[c] = "saved" /\ phase[s] = "open" /\ Viewer[s] = Guest[target[c]]
      ~> target[c] \in told[s] \/ phase[s] # "open" \/ s \in deaf

\* The half of it that needs no fairness: the step that sends puts the cancellation in the
\* inbox of every socket of the guest that has joined, or marks the socket deaf, and what
\* is in an inbox stays until it is delivered.
NothingIsLost ==
  [][\A s \in Sockets :
       /\ News(s) \subseteq News(s)'
       /\ \A c \in CancelReqs :
            Send(c) /\ phase[s] \in {"joined", "open"} /\ Viewer[s] = Guest[target[c]]
              => target[c] \in News(s)' \/ s \in deaf']_nvars
=============================================================================
