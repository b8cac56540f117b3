------------------------------ MODULE Throttles ------------------------------
(***************************************************************************)
(* Rate limits kept in Redis: apps/abstract/{mixins,throttles}.py, the     *)
(* rates and default throttles of settings/conf.py, and the "auth" scope   *)
(* of apps/users/views.py.                                                 *)
(*                                                                         *)
(*   a request:  Arrive -> Get -> Set -> Get -> ... -> served or 429       *)
(*                                                                         *)
(* A throttle is a list of time stamps under a scope and a user or         *)
(* address.  The library reads the list, drops what has left the window,   *)
(* refuses at the rate, and else writes the list back with one more stamp. *)
(* Nothing holds the list in between, and every failure lets requests      *)
(* through.  All throttles of a view are asked, also after one refused, so *)
(* the answer (429 if any did) decides nothing more here.                  *)
(***************************************************************************)
EXTENDS Integers, FiniteSets, Sequences

CONSTANTS Requests,          \* slots: a request keeps one until its stamps left the window
          Users, Addresses,
          Views,             \* the kinds of views that are asked for
          Rate, Window,      \* by scope: requests allowed, and for how many ticks
          Faults             \* whether Redis fails or loses its data

VARIABLES
  hist,    \* Redis: the stamps in the list of a throttle, named by their requests
  pc, todo,       \* of a request: program counter, the throttles it has yet to ask
  copy,    \* the list in the hands of a request that is about to write it
  age,     \* how long ago a throttle stamped a request; Window when out of it
  passed,  \* history: requests a throttle let through in its last window
  dirty,   \* history: whether the list has changed under a request that will write it
  trouble  \* history: how long ago a throttle lost a stamp; Window when out of it

vars == <<hist, pc, todo, copy, age, passed, dirty, trouble>>

-----------------------------------------------------------------------------
Scopes == {"anon", "user", "auth"}
Throttles == Scopes \X (Users \cup Addresses)
W(b) == Window[b[1]]

ASSUME ThrottlesAssumption ==
  /\ IsFiniteSet(Requests)
  /\ Users \cap Addresses = {}
  /\ Views \subseteq {"plain", "scoped"}
  /\ Rate \in [Scopes -> Nat \ {0}] /\ Window \in [Scopes -> Nat \ {0}]
  /\ Faults \in BOOLEAN

\* What get_throttles and get_cache_key make of a view and a client: the scoped throttle for
\* registration, verification, resending and login; else one for a user, two for an address.
Asked(view, who) ==
  IF view = "scoped" THEN << <<"auth", who>> >>
  ELSE IF who \in Users THEN << <<"user", who>> >>
  ELSE << <<"anon", who>>, <<"user", who>> >>

TypeOK ==
  /\ hist \in [Throttles -> SUBSET Requests]
  /\ pc \in [Requests -> {"idle", "asking", "writing"}]
  /\ todo \in [Requests -> Seq(Throttles)]
  /\ \A q \in Requests : pc[q] = "idle" <=> todo[q] = <<>>
  /\ copy \in [Requests -> SUBSET Requests]
  /\ age \in [Requests -> [Throttles -> Nat]]
  /\ \A q \in Requests, b \in Throttles : age[q][b] <= W(b)
  /\ passed \in [Throttles -> SUBSET Requests]
  /\ dirty \subseteq Requests
  /\ trouble \in [Throttles -> Nat]
  /\ \A b \in Throttles : trouble[b] <= W(b)

Init ==
  /\ hist = [b \in Throttles |-> {}]
  /\ pc = [q \in Requests |-> "idle"] /\ todo = [q \in Requests |-> <<>>]
  /\ copy = [q \in Requests |-> {}]
  /\ age = [q \in Requests |-> [b \in Throttles |-> W(b)]]
  /\ passed = [b \in Throttles |-> {}]
  /\ dirty = {} /\ trouble = [b \in Throttles |-> W(b)]

-----------------------------------------------------------------------------
\* The throttle a request is at, and the others at the same one with the list in hand.
At(q) == Head(todo[q])
Rivals(q) == {r \in Requests \ {q} : pc[r] = "writing" /\ At(r) = At(q)}
Full(b) == Cardinality(hist[b]) >= Rate[b[1]]

\* On to the next throttle, or to the answer.
Proceed(q) ==
  /\ todo' = [todo EXCEPT ![q] = Tail(todo[q])]
  /\ pc' = [pc EXCEPT ![q] = IF Tail(todo[q]) = <<>> THEN "idle" ELSE "asking"]
  /\ copy' = [copy EXCEPT ![q] = {}]

\* A stamp that no list holds, or that some list may lack from now on.
Lost(b) == trouble' = [trouble EXCEPT ![b] = 0]

\* Past authentication and permissions; a request they refuse is not counted.
Arrive(q, view, who) ==
  /\ pc[q] = "idle"
  /\ \A b \in Throttles : age[q][b] = W(b)
  /\ todo' = [todo EXCEPT ![q] = Asked(view, who)]
  /\ pc' = [pc EXCEPT ![q] = "asking"]
  /\ UNCHANGED <<hist, copy, age, passed, dirty, trouble>>

\* Faulty Refuse: the attempt is written to the list as well.
RefuseAndCount(q) ==
  LET b == At(q) IN
  /\ pc[q] = "asking" /\ Full(b)
  /\ hist' = [hist EXCEPT ![b] = @ \cup {q}]
  /\ age' = [age EXCEPT ![q][b] = 0]
  /\ Proceed(q)
  /\ UNCHANGED <<passed, dirty, trouble>>

\* throttle_failure: 429, and the list stays as it is.
Refuse(q) ==
  /\ pc[q] = "asking" /\ Full(At(q))
  /\ Proceed(q)
  /\ UNCHANGED <<hist, age, passed, dirty, trouble>>

\* Faulty Get: one too many.
GetLate(q) ==
  LET b == At(q) IN
  /\ pc[q] = "asking" /\ Cardinality(hist[b]) <= Rate[b[1]]
  /\ copy' = [copy EXCEPT ![q] = hist[b]]
  /\ age' = [age EXCEPT ![q][b] = 0]
  /\ dirty' = dirty \ {q}
  /\ pc' = [pc EXCEPT ![q] = "writing"]
  /\ UNCHANGED <<hist, todo, passed, trouble>>

\* There is room in the window: the request is stamped, and holds the list it read.
Get(q) ==
  LET b == At(q) IN
  /\ pc[q] = "asking" /\ ~Full(b)
  /\ copy' = [copy EXCEPT ![q] = hist[b]]
  /\ age' = [age EXCEPT ![q][b] = 0]
  /\ dirty' = dirty \ {q}
  /\ pc' = [pc EXCEPT ![q] = "writing"]
  /\ UNCHANGED <<hist, todo, passed, trouble>>

\* A failed read that django-redis ignores looks like an empty list.
GetNothing(q) ==
  LET b == At(q) IN
  /\ Faults /\ pc[q] = "asking"
  /\ age' = [age EXCEPT ![q][b] = 0]
  /\ dirty' = dirty \cup {q}
  /\ pc' = [pc EXCEPT ![q] = "writing"]
  /\ UNCHANGED <<hist, todo, copy, passed, trouble>>

\* One that it raises is caught: allowed, and not recorded.
FailOpen(q) ==
  LET b == At(q) IN
  /\ Faults /\ pc[q] = "asking"
  /\ age' = [age EXCEPT ![q][b] = 0]
  /\ passed' = [passed EXCEPT ![b] = @ \cup {q}]
  /\ Lost(b)
  /\ Proceed(q)
  /\ UNCHANGED <<hist, dirty>>

\* Stamps of b that are in the window.
Recent(b, S) == {r \in S : age[r][b] < W(b)}

\* Faulty Set: goes on to a throttle after the last.
SetAndAskOn(q) ==
  LET b == At(q) IN
  /\ pc[q] = "writing"
  /\ hist' = [hist EXCEPT ![b] = Recent(b, copy[q] \cup {q})]
  /\ passed' = [passed EXCEPT ![b] = Recent(b, @ \cup {q})]
  /\ dirty' = (dirty \cup Rivals(q)) \ {q}
  /\ IF q \in dirty THEN Lost(b) ELSE UNCHANGED trouble
  /\ todo' = [todo EXCEPT ![q] = Tail(todo[q])]
  /\ pc' = [pc EXCEPT ![q] = "asking"]
  /\ copy' = [copy EXCEPT ![q] = {}]
  /\ UNCHANGED age

\* throttle_success: what others wrote since the read is overwritten.
Set(q) ==
  LET b == At(q) IN
  /\ pc[q] = "writing"
  /\ hist' = [hist EXCEPT ![b] = Recent(b, copy[q] \cup {q})]
  /\ passed' = [passed EXCEPT ![b] = Recent(b, @ \cup {q})]
  /\ dirty' = (dirty \cup Rivals(q)) \ {q}
  /\ IF q \in dirty THEN Lost(b) ELSE UNCHANGED trouble
  /\ Proceed(q)
  /\ UNCHANGED age

SetFails(q) ==
  LET b == At(q) IN
  /\ Faults /\ pc[q] = "writing"
  /\ passed' = [passed EXCEPT ![b] = Recent(b, @ \cup {q})]
  /\ dirty' = dirty \ {q}
  /\ Lost(b)
  /\ Proceed(q)
  /\ UNCHANGED <<hist, age>>

\* The server stops: the request is not answered, and only what is written counts.
Crash(q) ==
  /\ Faults /\ pc[q] # "idle"
  /\ pc' = [pc EXCEPT ![q] = "idle"] /\ todo' = [todo EXCEPT ![q] = <<>>]
  /\ copy' = [copy EXCEPT ![q] = {}] /\ dirty' = dirty \ {q}
  /\ age' = IF pc[q] = "writing" THEN [age EXCEPT ![q][At(q)] = W(At(q))] ELSE age
  /\ UNCHANGED <<hist, passed, trouble>>

\* Redis restarts, or evicts the list.
Evict(b) ==
  /\ Faults /\ hist[b] # {}
  /\ hist' = [hist EXCEPT ![b] = {}]
  /\ dirty' = dirty \cup {q \in Requests : pc[q] = "writing" /\ At(q) = b}
  /\ Lost(b)
  /\ UNCHANGED <<pc, todo, copy, age, passed>>

\* Time passes.  A stamp that leaves the window is as good as gone: every reader drops it, and
\* the key lapses no sooner (cache.set with the window as its timeout).
Tick ==
  LET Older(a, b) == IF a < W(b) THEN a + 1 ELSE a
      Still(b, S) == {r \in S : age[r][b] + 1 < W(b)} IN
  /\ age' = [q \in Requests |-> [b \in Throttles |-> Older(age[q][b], b)]]
  /\ trouble' = [b \in Throttles |-> Older(trouble[b], b)]
  /\ hist' = [b \in Throttles |-> Still(b, hist[b])]
  /\ passed' = [b \in Throttles |-> Still(b, passed[b])]
  /\ copy' = [q \in Requests |-> IF pc[q] = "writing" THEN Still(At(q), copy[q]) ELSE {}]
  /\ UNCHANGED <<pc, todo, dirty>>

Ask(q) == Refuse(q) \/ Get(q) \/ GetNothing(q) \/ FailOpen(q) \/ Set(q) \/ SetFails(q)

Next ==
  \/ \E q \in Requests :
       \/ \E view \in Views, who \in Users \cup Addresses : Arrive(q, view, who)
       \/ Ask(q) \/ Crash(q)
  \/ \E b \in Throttles : Evict(b)
  \/ Tick

Spec == Init /\ [][Next]_vars
FairSpec == Spec /\ WF_vars(Tick)

-----------------------------------------------------------------------------
\* The rate is held, and overlaps do no lasting harm: of any window, a throttle lets
\* through what its rate allows, unless in that window a request wrote its list over
\* the write of another, or Redis failed ("fail open when Redis is unavailable", mixins.py).
RateHeld ==
  \A b \in Throttles : trouble[b] = W(b) => Cardinality(passed[b]) <= Rate[b[1]]

\* A refusal is earned, whatever overlaps or fails: a throttle that refuses has let its rate
\* of requests through in the window.  What it counts got through; a refused attempt, one
\* cut off before its write or one whose write was overwritten counts for nothing.
RefusedAtRate == \A b \in Throttles : Full(b) => Cardinality(passed[b]) >= Rate[b[1]]

\* A client that goes on asking while it is refused gets through again: a full window does
\* not stay full, but for writes that were lost or failed within it.
BlockEnds == \A b \in Throttles : Full(b) ~> (~Full(b) \/ trouble[b] < W(b))

\* Without failures the overlap of two writes is the one hole.  NoOverlaps is what one lock
\* for each list, held from read to write, would have to give; the code takes none.
NoOverlaps == \A q \in Requests : pc[q] = "writing" => Rivals(q) = {}
RateHeldAlways == \A b \in Throttles : Cardinality(passed[b]) <= Rate[b[1]]
=============================================================================
