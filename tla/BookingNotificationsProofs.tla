--------------------- MODULE BookingNotificationsProofs ---------------------
(***************************************************************************)
(* Theorems about BookingNotifications, for any number of sockets and any  *)
(* capacity: what is proved of Bookings holds with sockets attached, and   *)
(* what sockets are told is true.                                          *)
(***************************************************************************)
EXTENDS BookingNotifications, BookingsProofs

-----------------------------------------------------------------------------
\* A step of the composition is a step of Bookings, or leaves bookings alone.
LEMMA StepIsBookingStep == [NNext]_nvars => [Next]_vars
<1> SUFFICES ASSUME [NNext]_nvars PROVE [Next]_vars
  OBVIOUS
<1>1. CASE BookingStep
  BY <1>1 DEF BookingStep, Next, CancelStep
<1>2. ASSUME NEW c \in CancelReqs, Send(c) PROVE Next
  BY <1>2 DEF Send, Next, CancelStep
<1>3. CASE SocketStep
  BY <1>3 DEF SocketStep, Connect, Join, Accept, Deliver, Close, Leave, Lapse
<1>4. CASE UNCHANGED nvars
  BY <1>4 DEF nvars
<1> QED
  BY <1>1, <1>2, <1>3, <1>4 DEF NNext

\* Attaching sockets takes no behaviour of Bookings beyond its specification: every
\* property of Bookings is one of the composition.
THEOREM NotificationsKeepBookings == NSpec => Spec
<1>1. NInit => Init
  BY DEF NInit
<1> QED
  BY <1>1, StepIsBookingStep, PTL DEF NSpec, Spec

-----------------------------------------------------------------------------
\* group_send keeps every inbox within its capacity.
LEMMA PushType ==
  ASSUME NTypeOK, NEW b \in CreateReqs, Push(b)
  PROVE  /\ inbox' \in [Sockets -> Seq(CreateReqs)]
         /\ \A s \in Sockets : Len(inbox'[s]) <= Capacity
         /\ deaf' \subseteq Sockets
<1>1. ASSUME NEW s \in Sockets
      PROVE  /\ inbox'[s] \in Seq(CreateReqs) /\ Len(inbox'[s]) <= Capacity
             /\ inbox'[s] = inbox[s]
                  \/ (inbox'[s] = Append(inbox[s], b) /\ s \in Audience(b))
  <2>1. inbox[s] \in Seq(CreateReqs) /\ Len(inbox[s]) \in Nat /\ Len(inbox[s]) <= Capacity
    BY DEF NTypeOK
  <2>2. CASE s \in Audience(b) /\ Len(inbox[s]) # Capacity
    <3>1. inbox'[s] = Append(inbox[s], b)
      BY <2>2 DEF Push
    <3> QED
      BY <2>1, <2>2, <3>1, SocketsAssumption
  <2>3. CASE ~(s \in Audience(b) /\ Len(inbox[s]) # Capacity)
    BY <2>1, <2>3 DEF Push
  <2> QED
    BY <2>2, <2>3
<1>2. inbox' \in [Sockets -> Seq(CreateReqs)]
  <2>1. inbox' = [s \in Sockets |-> inbox'[s]]
    BY DEF Push
  <2> QED
    BY <1>1, <2>1
<1>3. deaf' \subseteq Sockets
  BY DEF Push, Audience, NTypeOK
<1> QED
  BY <1>1, <1>2, <1>3

\* A cancel that is about to notify works on a booking that exists as a name.
LEMMA TargetNamed ==
  ASSUME TypeInv, NEW c \in CancelReqs, Send(c)
  PROVE  target[c] \in CreateReqs /\ Succeeded(c)
BY DEF TypeInv, LocalsOK, TargetOK, Send, Notify, Succeeded

LEMMA NTypeStep == TypeInv /\ NTypeOK /\ [NNext]_nvars => NTypeOK'
<1> SUFFICES ASSUME TypeInv, NTypeOK, [NNext]_nvars PROVE NTypeOK'
  OBVIOUS
<1>1. CASE BookingStep
  BY <1>1 DEF BookingStep, socketVars, NTypeOK
<1>2. ASSUME NEW c \in CancelReqs, Send(c) PROVE NTypeOK'
  <2>1. target[c] \in CreateReqs
    BY <1>2, TargetNamed
  <2>2. CASE Push(target[c])
    BY <1>2, <2>1, <2>2, PushType DEF Send, NTypeOK
  <2>3. CASE UNCHANGED inbox /\ deaf' = deaf \cup Audience(target[c])
    BY <1>2, <2>3 DEF Send, NTypeOK, Audience
  <2> QED
    BY <1>2, <2>2, <2>3 DEF Send
<1>3. ASSUME NEW s \in Sockets, Deliver(s) PROVE NTypeOK'
  <2>1. inbox[s] \in Seq(CreateReqs) /\ inbox[s] # << >> /\ Len(inbox[s]) <= Capacity
    BY <1>3 DEF Deliver, NTypeOK
  <2>2. /\ Head(inbox[s]) \in CreateReqs /\ Tail(inbox[s]) \in Seq(CreateReqs)
        /\ Len(Tail(inbox[s])) <= Capacity
    BY <2>1, SocketsAssumption
  <2>3. /\ told' \in [Sockets -> SUBSET CreateReqs]
        /\ inbox' \in [Sockets -> Seq(CreateReqs)]
        /\ \A x \in Sockets : Len(inbox'[x]) <= Capacity
    BY <1>3, <2>2 DEF Deliver, NTypeOK
  <2> QED
    BY <1>3, <2>3 DEF Deliver, NTypeOK
<1>4. ASSUME NEW s \in Sockets, Connect(s) \/ Join(s) \/ Accept(s) \/ Close(s) \/ Leave(s) \/ Lapse(s)
      PROVE  NTypeOK'
  BY <1>4 DEF Connect, Join, Accept, Close, Leave, Lapse, Goto, NTypeOK
<1>5. CASE UNCHANGED nvars
  BY <1>5 DEF nvars, socketVars, NTypeOK
<1> QED
  BY <1>1, <1>2, <1>3, <1>4, <1>5 DEF NNext, SocketStep

LEMMA NTypeInit == NInit => NTypeOK
BY SocketsAssumption DEF NInit, NTypeOK

\* The variables of sockets and groups keep their types, and inboxes their capacity.
THEOREM NTypeCorrect == NSpec => []NTypeOK
<1>1. Spec => []SafetyInv
  BY SafetyCorrect
<1>2. SafetyInv => TypeInv
  BY DEF SafetyInv
<1> QED
  BY <1>1, <1>2, NTypeInit, NTypeStep, NotificationsKeepBookings, PTL DEF NSpec

-----------------------------------------------------------------------------
\* Why messages are true: each stems from a cancel that saved, and such a cancel sticks.
Heralded(b) == \E c \in CancelReqs : Succeeded(c) /\ target[c] = b

NewsInv ==
  \A s \in Sockets : \A b \in News(s) : Viewer[s] = Guest[b] /\ Heralded(b)

LEMMA SuccessLasts ==
  ASSUME TypeInv, [Next]_vars, NEW c \in CancelReqs, Succeeded(c)
  PROVE  Succeeded(c)' /\ target'[c] = target[c]
<1>1. CASE CancelStep
  BY <1>1 DEF CancelStep, LoadBooking, SaveCancelled, Notify, Succeeded, TypeInv, TypeOK
<1>2. CASE CreateStep
  BY <1>2 DEF CreateStep, ReadRoom, CheckOverlap, InsertBooking, cancelVars, Succeeded
<1>3. CASE RoomStep
  BY <1>3 DEF RoomStep, LoadRoom, SaveRoom, DeleteRoom, cancelVars, Succeeded
<1>4. CASE AdminStep
  BY <1>4 DEF AdminStep, OpenForm, SubmitForm, DeleteBooking, cancelVars, Succeeded
<1>5. CASE UNCHANGED vars
  BY <1>5 DEF vars, cancelVars, Succeeded
<1> QED
  BY <1>1, <1>2, <1>3, <1>4, <1>5 DEF Next

LEMMA HeraldedLasts ==
  ASSUME TypeInv, [NNext]_nvars, NEW b, Heralded(b)
  PROVE  Heralded(b)'
<1>1. PICK c \in CancelReqs : Succeeded(c) /\ target[c] = b
  BY DEF Heralded
<1>2. Succeeded(c)' /\ target'[c] = b
  BY <1>1, StepIsBookingStep, SuccessLasts
<1> QED
  BY <1>2 DEF Heralded

\* What a socket has after a step it had before, or a cancel just sent it.
LEMMA NewsGrowsBySends ==
  ASSUME TypeInv, NTypeOK, [NNext]_nvars, NEW s \in Sockets, NEW b \in News(s)'
  PROVE  b \in News(s) \/ \E c \in CancelReqs : Send(c) /\ b = target[c] /\ s \in Audience(b)
<1> DEFINE Waiting == {inbox[s][i] : i \in DOMAIN inbox[s]}
<1>0. inbox[s] \in Seq(CreateReqs) /\ told \in [Sockets -> SUBSET CreateReqs]
      /\ inbox \in [Sockets -> Seq(CreateReqs)]
  BY DEF NTypeOK
<1>1. CASE UNCHANGED <<inbox, told>>
  BY <1>1 DEF News
<1>2. ASSUME NEW x \in Sockets, Deliver(x) PROVE b \in News(s)
  <2>1. CASE x = s
    <3>1. /\ told'[s] = told[s] \cup {Head(inbox[s])} /\ inbox'[s] = Tail(inbox[s])
          /\ inbox[s] # << >>
      BY <1>0, <1>2, <2>1 DEF Deliver
    <3>2. Head(inbox[s]) = inbox[s][1] /\ 1 \in DOMAIN inbox[s]
      BY <1>0, <3>1
    <3>3. ASSUME NEW i \in DOMAIN Tail(inbox[s])
          PROVE  i + 1 \in DOMAIN inbox[s] /\ Tail(inbox[s])[i] = inbox[s][i + 1]
      BY <1>0, <3>1, <3>3
    <3> QED
      BY <3>1, <3>2, <3>3 DEF News
  <2>2. CASE x # s
    BY <1>0, <1>2, <2>2 DEF Deliver, News
  <2> QED
    BY <2>1, <2>2
<1>3. ASSUME NEW c \in CancelReqs, Send(c), b \notin News(s)
      PROVE  b = target[c] /\ s \in Audience(b)
  <2>1. told' = told /\ (Push(target[c]) \/ inbox' = inbox)
    BY <1>3 DEF Send
  <2>2. Push(target[c]) /\ inbox'[s] # inbox[s]
    BY <1>3, <2>1 DEF News
  <2>3. inbox'[s] = Append(inbox[s], target[c]) /\ s \in Audience(target[c])
    BY <2>2 DEF Push
  <2>4. target[c] \in CreateReqs
    BY <1>3, TargetNamed
  <2>5. ASSUME NEW i \in DOMAIN inbox'[s]
        PROVE  inbox'[s][i] = target[c] \/ (i \in DOMAIN inbox[s] /\ inbox'[s][i] = inbox[s][i])
    BY <1>0, <2>3, <2>4, <2>5
  <2> QED
    BY <1>3, <2>1, <2>3, <2>5 DEF News
<1>4. CASE SocketStep
  <2>1. PICK x \in Sockets :
          Connect(x) \/ Join(x) \/ Accept(x) \/ Deliver(x) \/ Close(x) \/ Leave(x) \/ Lapse(x)
    BY <1>4 DEF SocketStep
  <2> QED
    BY <1>1, <1>2, <2>1 DEF Connect, Join, Accept, Close, Leave, Lapse
<1>5. CASE BookingStep \/ UNCHANGED nvars
  BY <1>1, <1>5 DEF BookingStep, nvars, socketVars
<1> QED
  BY <1>3, <1>4, <1>5 DEF NNext

LEMMA NewsStep == TypeInv /\ NTypeOK /\ NewsInv /\ [NNext]_nvars => NewsInv'
<1> SUFFICES ASSUME TypeInv, NTypeOK, NewsInv, [NNext]_nvars, NEW s \in Sockets, NEW b \in News(s)'
             PROVE  Viewer[s] = Guest[b] /\ Heralded(b)'
  BY DEF NewsInv
<1>1. CASE b \in News(s)
  BY <1>1, HeraldedLasts DEF NewsInv
<1>2. ASSUME NEW c \in CancelReqs, Send(c), b = target[c], s \in Audience(b)
      PROVE  Viewer[s] = Guest[b] /\ Heralded(b)'
  <2>1. Heralded(b)
    BY <1>2, TargetNamed DEF Heralded
  <2> QED
    BY <1>2, <2>1, HeraldedLasts DEF Audience
<1> QED
  BY <1>1, <1>2, NewsGrowsBySends

LEMMA NewsInit == NInit => NewsInv
BY DEF NInit, NewsInv, News

LEMMA NewsFollows == SafetyInv /\ NewsInv => NewsIsTrue
BY DEF SafetyInv, CancelSticks, NewsInv, NewsIsTrue, Heralded

\* Whatever sockets come and go, and whatever the channel layer loses, a guest is told of
\* the guest's own bookings only, and only of cancellations that hold.
THEOREM NewsStaysTrue == NSpec => []NewsIsTrue
<1>1. Spec => []SafetyInv
  BY SafetyCorrect
<1>2. SafetyInv => TypeInv
  BY DEF SafetyInv
<1> QED
  BY <1>1, <1>2, NTypeCorrect, NewsInit, NewsStep, NewsFollows, NotificationsKeepBookings, PTL
     DEF NSpec

-----------------------------------------------------------------------------
\* Why nothing is lost: a socket that has joined is in its group until it leaves, unless a
\* fault took it out, and then it is deaf.
JoinedInGroup ==
  \A s \in Sockets : phase[s] \in {"joined", "open"} /\ s \notin deaf => s \in group

LEMMA JoinedStep == NTypeOK /\ JoinedInGroup /\ [NNext]_nvars => JoinedInGroup'
<1> SUFFICES ASSUME NTypeOK, JoinedInGroup, [NNext]_nvars PROVE JoinedInGroup'
  OBVIOUS
<1> USE DEF NTypeOK, JoinedInGroup
<1>1. ASSUME NEW s \in Sockets,
             Connect(s) \/ Join(s) \/ Accept(s) \/ Deliver(s) \/ Close(s) \/ Leave(s) \/ Lapse(s)
      PROVE  JoinedInGroup'
  BY <1>1 DEF Connect, Join, Accept, Deliver, Close, Leave, Lapse, Goto
<1>2. ASSUME NEW c \in CancelReqs, Send(c) PROVE JoinedInGroup'
  BY <1>2 DEF Send, Push
<1>3. CASE BookingStep \/ UNCHANGED nvars
  BY <1>3 DEF BookingStep, nvars, socketVars
<1> QED
  BY <1>1, <1>2, <1>3 DEF NNext, SocketStep

\* Only a delivery takes a message out of an inbox, and it tells the socket.
LEMMA NewsLasts ==
  ASSUME TypeInv, NTypeOK, [NNext]_nvars, NEW s \in Sockets
  PROVE  News(s) \subseteq News(s)'
<1>0. inbox[s] \in Seq(CreateReqs) /\ told \in [Sockets -> SUBSET CreateReqs]
      /\ inbox \in [Sockets -> Seq(CreateReqs)]
  BY DEF NTypeOK
<1>1. CASE told'[s] = told[s] /\ inbox'[s] = inbox[s]
  BY <1>1 DEF News
<1>2. ASSUME NEW x \in Sockets, Deliver(x) PROVE News(s) \subseteq News(s)'
  <2>1. CASE x = s
    <3>1. /\ told'[s] = told[s] \cup {Head(inbox[s])} /\ inbox'[s] = Tail(inbox[s])
          /\ inbox[s] # << >>
      BY <1>0, <1>2, <2>1 DEF Deliver
    <3>2. ASSUME NEW i \in DOMAIN inbox[s]
          PROVE  inbox[s][i] \in News(s)'
      <4>1. CASE i = 1
        BY <1>0, <3>1, <4>1 DEF News
      <4>2. CASE i # 1
        <5>1. i - 1 \in DOMAIN Tail(inbox[s]) /\ Tail(inbox[s])[i - 1] = inbox[s][i]
          BY <1>0, <3>1, <4>2
        <5> QED
          BY <3>1, <5>1 DEF News
      <4> QED
        BY <4>1, <4>2
    <3> QED
      BY <3>1, <3>2 DEF News
  <2>2. CASE x # s
    BY <1>0, <1>1, <1>2, <2>2 DEF Deliver
  <2> QED
    BY <2>1, <2>2
<1>3. ASSUME NEW c \in CancelReqs, Send(c) PROVE News(s) \subseteq News(s)'
  <2>1. target[c] \in CreateReqs
    BY <1>3, TargetNamed
  <2>2. told' = told
    BY <1>3 DEF Send
  <2>3. inbox'[s] = inbox[s] \/ inbox'[s] = Append(inbox[s], target[c])
    BY <1>3 DEF Send, Push
  <2>4. ASSUME NEW i \in DOMAIN inbox[s]
        PROVE  i \in DOMAIN inbox'[s] /\ inbox'[s][i] = inbox[s][i]
    BY <1>0, <2>1, <2>3
  <2> QED
    BY <2>2, <2>4 DEF News
<1>4. CASE SocketStep
  <2>1. PICK x \in Sockets :
          Connect(x) \/ Join(x) \/ Accept(x) \/ Deliver(x) \/ Close(x) \/ Leave(x) \/ Lapse(x)
    BY <1>4 DEF SocketStep
  <2> QED
    BY <1>1, <1>2, <2>1 DEF Connect, Join, Accept, Close, Leave, Lapse
<1>5. CASE BookingStep \/ UNCHANGED nvars
  BY <1>1, <1>5 DEF BookingStep, nvars, socketVars
<1> QED
  BY <1>3, <1>4, <1>5 DEF NNext

\* The send of a cancel reaches the inbox of every socket of the guest in the group.
LEMMA SendReaches ==
  ASSUME TypeInv, NTypeOK, JoinedInGroup,
         NEW s \in Sockets, NEW c \in CancelReqs, Send(c),
         phase[s] \in {"joined", "open"}, Viewer[s] = Guest[target[c]]
  PROVE  target[c] \in News(s)' \/ s \in deaf'
<1>1. target[c] \in CreateReqs
  BY TargetNamed
<1>2. CASE s \in deaf
  BY <1>2 DEF Send, Push
<1>3. CASE s \notin deaf
  <2>1. s \in Audience(target[c])
    BY <1>3 DEF JoinedInGroup, Audience
  <2>2. CASE Push(target[c]) /\ Len(inbox[s]) # Capacity
    <3>1. inbox'[s] = Append(inbox[s], target[c]) /\ inbox[s] \in Seq(CreateReqs)
      BY <2>1, <2>2 DEF Push, NTypeOK
    <3>2. Len(inbox[s]) + 1 \in DOMAIN inbox'[s] /\ inbox'[s][Len(inbox[s]) + 1] = target[c]
      BY <1>1, <3>1
    <3> QED
      BY <3>2 DEF News
  <2>3. CASE Push(target[c]) /\ Len(inbox[s]) = Capacity
    BY <2>1, <2>3 DEF Push
  <2>4. CASE deaf' = deaf \cup Audience(target[c])
    BY <2>1, <2>4
  <2> QED
    BY <2>2, <2>3, <2>4 DEF Send
<1> QED
  BY <1>2, <1>3

\* Joining the group before accepting leaves no gap: from the moment a socket has joined,
\* each cancellation of its user's bookings reaches it or marks it deaf, and waits there.
THEOREM NoCancellationIsLost == NSpec => NothingIsLost
<1> DEFINE Kept == \A s \in Sockets :
             /\ News(s) \subseteq News(s)'
             /\ \A c \in CancelReqs :
                  Send(c) /\ phase[s] \in {"joined", "open"} /\ Viewer[s] = Guest[target[c]]
                    => target[c] \in News(s)' \/ s \in deaf'
<1>1. NInit => JoinedInGroup
  BY DEF NInit, JoinedInGroup
<1>2. TypeInv /\ NTypeOK /\ JoinedInGroup /\ [NNext]_nvars => [Kept]_nvars
  <2> SUFFICES ASSUME TypeInv, NTypeOK, JoinedInGroup, [NNext]_nvars, NEW s \in Sockets
               PROVE  /\ News(s) \subseteq News(s)'
                      /\ \A c \in CancelReqs :
                           Send(c) /\ phase[s] \in {"joined", "open"} /\ Viewer[s] = Guest[target[c]]
                             => target[c] \in News(s)' \/ s \in deaf'
    OBVIOUS
  <2>1. News(s) \subseteq News(s)'
    BY NewsLasts
  <2>2. ASSUME NEW c \in CancelReqs, Send(c),
               phase[s] \in {"joined", "open"}, Viewer[s] = Guest[target[c]]
        PROVE  target[c] \in News(s)' \/ s \in deaf'
    BY <2>2, SendReaches
  <2> QED
    BY <2>1, <2>2
<1>3. Spec => []SafetyInv
  BY SafetyCorrect
<1>4. SafetyInv => TypeInv
  BY DEF SafetyInv
<1> QED
  BY <1>1, <1>2, <1>3, <1>4, JoinedStep, NTypeCorrect, NotificationsKeepBookings, PTL
     DEF NSpec, NothingIsLost
=============================================================================
