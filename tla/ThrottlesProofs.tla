--------------------------- MODULE ThrottlesProofs ---------------------------
(***************************************************************************)
(* Proofs about Throttles, for any rates, windows, clients and numbers of  *)
(* requests.                                                               *)
(***************************************************************************)
EXTENDS Throttles, FiniteSetTheorems, TLAPS

Writing(q) == pc[q] = "writing"

\* A request comes to each throttle it has yet to ask for the first time.
Fresh ==
  \A q \in Requests :
    /\ \A i, j \in 1..Len(todo[q]) : todo[q][i] = todo[q][j] => i = j
    /\ \A i \in 1..Len(todo[q]) :
         i > 1 \/ pc[q] = "asking" => age[q][todo[q][i]] = W(todo[q][i])

\* Lists hold stamps of the window, and none of a request that is about to write its own.
Placed ==
  /\ \A b \in Throttles : \A r \in hist[b] \cup passed[b] : age[r][b] < W(b)
  /\ \A q \in Requests : ~Writing(q) => copy[q] = {}
  /\ \A q \in Requests : Writing(q) => \A r \in copy[q] : age[r][At(q)] < W(At(q))
  /\ \A q \in Requests : Writing(q) => q \notin hist[At(q)] \cup passed[At(q)]
  /\ \A q, r \in Requests : Writing(q) /\ Writing(r) /\ At(q) = At(r) => q \notin copy[r]

\* No list is longer than the rate, nor will be once it is written back.
Short ==
  /\ \A b \in Throttles : Cardinality(hist[b]) <= Rate[b[1]]
  /\ \A q \in Requests : Writing(q) => Cardinality(copy[q]) < Rate[At(q)[1]]

\* A list that changed under nobody is in the hands of whoever writes it; a stamp it lacks
\* was there before the last trouble.
Complete ==
  /\ \A q \in Requests : Writing(q) /\ q \notin dirty => hist[At(q)] \subseteq copy[q]
  /\ \A b \in Throttles : \A r \in passed[b] \ hist[b] : age[r][b] >= trouble[b]

RateInv == TypeOK /\ Fresh /\ Placed /\ Short /\ Complete
-----------------------------------------------------------------------------
LEMMA RatesAndWindows ==
  ASSUME NEW b \in Throttles
  PROVE  W(b) \in Nat \ {0} /\ Rate[b[1]] \in Nat \ {0}
BY ThrottlesAssumption DEF Throttles, W

\* A view asks one or two throttles, which differ.
LEMMA AskedOfClient ==
  ASSUME NEW view \in Views, NEW who \in Users \cup Addresses
  PROVE  /\ Asked(view, who) \in Seq(Throttles) /\ Asked(view, who) # <<>>
         /\ \A i, j \in 1..Len(Asked(view, who)) :
              Asked(view, who)[i] = Asked(view, who)[j] => i = j
<1>1. \A c \in Scopes : <<c, who>> \in Throttles
  BY DEF Throttles
<1> QED
  BY <1>1 DEF Asked, Scopes

\* What TypeOK says of a request that is being asked about.
LEMMA AtThrottle ==
  ASSUME TypeOK, NEW q \in Requests, pc[q] # "idle"
  PROVE  /\ At(q) \in Throttles /\ At(q) = todo[q][1] /\ Len(todo[q]) \in Nat \ {0}
         /\ Tail(todo[q]) \in Seq(Throttles)
         /\ Len(Tail(todo[q])) = Len(todo[q]) - 1
         /\ \A i \in 1..Len(Tail(todo[q])) : Tail(todo[q])[i] = todo[q][i + 1]
<1>1. todo[q] \in Seq(Throttles) /\ todo[q] # <<>>
  BY DEF TypeOK
<1> QED
  BY <1>1 DEF At

\* Going on changes nothing but where the request is.
LEMMA Proceeds ==
  ASSUME TypeOK, NEW q \in Requests, pc[q] # "idle", Proceed(q)
  PROVE  /\ pc' \in [Requests -> {"idle", "asking", "writing"}]
         /\ todo' \in [Requests -> Seq(Throttles)]
         /\ \A r \in Requests : pc'[r] = "idle" <=> todo'[r] = <<>>
         /\ copy' \in [Requests -> SUBSET Requests]
         /\ pc'[q] \in {"idle", "asking"} /\ copy'[q] = {} /\ todo'[q] = Tail(todo[q])
         /\ \A r \in Requests \ {q} : pc'[r] = pc[r] /\ copy'[r] = copy[r] /\ todo'[r] = todo[r]
<1>1. Tail(todo[q]) \in Seq(Throttles)
  BY AtThrottle
<1> QED
  BY <1>1 DEF Proceed, TypeOK

LEMMA TypeInit == Init => TypeOK
<1> SUFFICES ASSUME Init PROVE TypeOK
  OBVIOUS
<1>1. \A b \in Throttles : W(b) \in Nat
  BY RatesAndWindows
<1> QED
  BY <1>1 DEF Init, TypeOK

LEMMA TypeAsk == ASSUME TypeOK, NEW q \in Requests, Ask(q) PROVE TypeOK'
<1> DEFINE b == At(q)
<1>1. pc[q] # "idle" /\ b \in Throttles /\ W(b) \in Nat \ {0}
  <2>1. pc[q] # "idle"
    BY DEF Ask, Refuse, Get, GetNothing, FailOpen, Set, SetFails, TypeOK
  <2> QED
    BY <2>1, AtThrottle, RatesAndWindows
<1>2. CASE Refuse(q)
  BY <1>1, <1>2, Proceeds DEF Refuse, TypeOK
<1>3. CASE Get(q)
  BY <1>1, <1>3 DEF Get, TypeOK
<1>4. CASE GetNothing(q)
  BY <1>1, <1>4 DEF GetNothing, TypeOK
<1>5. CASE FailOpen(q)
  BY <1>1, <1>5, Proceeds DEF FailOpen, Lost, TypeOK
<1>6. CASE Set(q)
  <2>1. Recent(b, copy[q] \cup {q}) \subseteq Requests /\ Recent(b, passed[b] \cup {q}) \subseteq Requests
    BY <1>1 DEF Recent, TypeOK
  <2>2. hist' \in [Throttles -> SUBSET Requests] /\ passed' \in [Throttles -> SUBSET Requests]
    BY <1>1, <1>6, <2>1 DEF Set, TypeOK
  <2>3. trouble' \in [Throttles -> Nat] /\ \A c \in Throttles : trouble'[c] <= W(c)
    <3>1. trouble' = trouble \/ trouble' = [trouble EXCEPT ![b] = 0]
      BY <1>6 DEF Set, Lost
    <3>2. \A c \in Throttles : W(c) \in Nat
      BY RatesAndWindows
    <3>3. trouble \in [Throttles -> Nat] /\ \A c \in Throttles : trouble[c] <= W(c)
      BY DEF TypeOK
    <3> QED
      BY <1>1, <3>1, <3>2, <3>3
  <2>4. dirty' \subseteq Requests /\ age' = age
    BY <1>6 DEF Set, Rivals, TypeOK
  <2>5. Proceed(q)
    BY <1>6 DEF Set
  <2> QED
    BY <1>1, <2>2, <2>3, <2>4, <2>5, Proceeds DEF TypeOK
<1>7. CASE SetFails(q)
  BY <1>1, <1>7, Proceeds DEF SetFails, Lost, Recent, TypeOK
<1> QED
  BY <1>2, <1>3, <1>4, <1>5, <1>6, <1>7 DEF Ask

LEMMA TypeArrive ==
  ASSUME TypeOK, NEW q \in Requests, NEW view \in Views, NEW who \in Users \cup Addresses,
         Arrive(q, view, who)
  PROVE  TypeOK'
BY AskedOfClient DEF Arrive, TypeOK

LEMMA TypeTick == TypeOK /\ Tick => TypeOK'
<1> SUFFICES ASSUME TypeOK, Tick PROVE TypeOK'
  OBVIOUS
<1>1. \A b \in Throttles : W(b) \in Nat
  BY RatesAndWindows
<1> QED
  BY <1>1 DEF TypeOK, Tick

LEMMA TypeStep == TypeOK /\ [Next]_vars => TypeOK'
<1> SUFFICES ASSUME TypeOK, [Next]_vars PROVE TypeOK'
  OBVIOUS
<1>1. ASSUME NEW q \in Requests, Crash(q) PROVE TypeOK'
  <2>1. At(q) \in Throttles /\ W(At(q)) \in Nat
    BY <1>1, AtThrottle, RatesAndWindows DEF Crash
  <2>2. <<>> \in Seq(Throttles)
    OBVIOUS
  <2> QED
    BY <1>1, <2>1, <2>2 DEF Crash, TypeOK
<1>2. ASSUME NEW b \in Throttles, Evict(b) PROVE TypeOK'
  BY <1>2, RatesAndWindows DEF Evict, Lost, TypeOK
<1>3. CASE UNCHANGED vars
  BY <1>3 DEF vars, TypeOK
<1> QED
  BY <1>1, <1>2, <1>3, TypeAsk, TypeArrive, TypeTick DEF Next

\* Every reachable state has the declared shape.
THEOREM TypeCorrect == Spec => []TypeOK
BY TypeInit, TypeStep, PTL DEF Spec
-----------------------------------------------------------------------------
LEMMA RateInit == Init => RateInv
<1> SUFFICES ASSUME Init PROVE RateInv
  OBVIOUS
<1>1. Fresh /\ Placed /\ Complete
  BY DEF Init, Fresh, Placed, Complete, Writing
<1>2. Short
  BY RatesAndWindows, FS_EmptySet DEF Init, Short, Writing
<1> QED
  BY <1>1, <1>2, TypeInit DEF RateInv

\* What a step of a request leaves alone: other requests, and throttles it is not at.
Local(q) ==
  /\ pc[q] # "idle"
  /\ \A r \in Requests \ {q} :
       pc'[r] = pc[r] /\ todo'[r] = todo[r] /\ copy'[r] = copy[r] /\ age'[r] = age[r]
  /\ \A c \in Throttles \ {At(q)} :
       hist'[c] = hist[c] /\ passed'[c] = passed[c] /\ trouble'[c] = trouble[c] /\ age'[q][c] = age[q][c]

\* The request takes the list in hand,
Starts(q) ==
  /\ pc[q] = "asking" /\ pc'[q] = "writing" /\ todo'[q] = todo[q]
  /\ copy'[q] \in {{}, hist[At(q)]} /\ Cardinality(copy'[q]) < Rate[At(q)[1]]
  /\ q \in dirty' \/ copy'[q] = hist[At(q)]
  /\ dirty \ {q} \subseteq dirty'
  /\ age'[q][At(q)] = 0
  /\ hist'[At(q)] = hist[At(q)] /\ passed'[At(q)] = passed[At(q)] /\ trouble' = trouble

\* or is through with the throttle, and has changed the list or not.
Leaves(q) ==
  /\ pc'[q] \in {"idle", "asking"} /\ todo'[q] \in {<<>>, Tail(todo[q])} /\ copy'[q] = {}
  /\ \/ hist'[At(q)] = hist[At(q)] /\ dirty \ {q} \subseteq dirty'
     \/ /\ Writing(q) /\ hist'[At(q)] \subseteq copy[q] \cup {q}
        /\ (dirty \cup Rivals(q)) \ {q} \subseteq dirty'
  /\ Cardinality(hist'[At(q)]) <= Rate[At(q)[1]]
  /\ passed'[At(q)] \subseteq passed[At(q)] \cup {q}
  /\ \A r \in hist'[At(q)] \cup passed'[At(q)] : age'[r][At(q)] < W(At(q))
  /\ \A r \in passed'[At(q)] \ hist'[At(q)] : age'[r][At(q)] >= trouble'[At(q)]

\* Before its answer to a request, a throttle has no stamp of it.
LEMMA NewHere ==
  ASSUME TypeOK, Fresh, Placed, NEW q \in Requests, pc[q] # "idle"
  PROVE  /\ q \notin hist[At(q)] \cup passed[At(q)]
         /\ pc[q] = "asking" => age[q][At(q)] = W(At(q))
<1>1. At(q) \in Throttles /\ At(q) = todo[q][1] /\ Len(todo[q]) \in Nat \ {0}
  BY AtThrottle
<1>2. pc[q] = "asking" => age[q][At(q)] = W(At(q))
  BY <1>1 DEF Fresh
<1>3. pc[q] = "asking" => q \notin hist[At(q)] \cup passed[At(q)]
  <2>1. \A r \in hist[At(q)] \cup passed[At(q)] : age[r][At(q)] < W(At(q))
    BY <1>1 DEF Placed
  <2>2. W(At(q)) \in Nat
    BY <1>1, RatesAndWindows
  <2> QED
    BY <1>2, <2>1, <2>2
<1>4. pc[q] = "writing" => q \notin hist[At(q)] \cup passed[At(q)]
  BY DEF Placed, Writing
<1> QED
  BY <1>2, <1>3, <1>4 DEF TypeOK

LEMMA StartsAtGet ==
  ASSUME RateInv, NEW q \in Requests, Get(q) \/ GetNothing(q)
  PROVE  Local(q) /\ Starts(q)
<1> DEFINE b == At(q)
<1>1. pc[q] = "asking" /\ copy[q] = {}
  BY DEF Get, GetNothing, RateInv, Placed, Writing
<1>2. b \in Throttles /\ Rate[b[1]] \in Nat \ {0} /\ TypeOK
  BY <1>1, AtThrottle, RatesAndWindows DEF RateInv
<1>3. IsFiniteSet(hist[b]) /\ Cardinality({}) = 0
  BY <1>2, FS_Subset, FS_EmptySet, ThrottlesAssumption DEF TypeOK
<1>4. Cardinality(hist[b]) \in Nat
  BY <1>3, FS_CardinalityType
<1>5. CASE Get(q)
  BY <1>1, <1>2, <1>4, <1>5 DEF Get, Full, Local, Starts, TypeOK
<1>6. CASE GetNothing(q)
  <2>1. /\ age' = [age EXCEPT ![q][b] = 0] /\ pc' = [pc EXCEPT ![q] = "writing"]
        /\ dirty' = dirty \cup {q} /\ UNCHANGED <<hist, todo, copy, passed, trouble>>
    BY <1>6 DEF GetNothing
  <2>2. /\ \A r \in Requests \ {q} : age'[r] = age[r]
        /\ \A c \in Throttles \ {b} : age'[q][c] = age[q][c]
        /\ age'[q][b] = 0
    BY <1>2, <2>1 DEF TypeOK
  <2> QED
    <3>1. pc'[q] = "writing" /\ \A r \in Requests \ {q} : pc'[r] = pc[r]
      BY <1>2, <2>1 DEF TypeOK
    <3>2. Local(q)
      BY <1>1, <2>1, <2>2, <3>1 DEF Local
    <3>3. copy'[q] = {} /\ Cardinality(copy'[q]) < Rate[b[1]]
      BY <1>1, <1>2, <1>3, <2>1
    <3> QED
      BY <1>1, <2>1, <2>2, <3>1, <3>2, <3>3 DEF Starts
<1> QED
  BY <1>5, <1>6

\* The length of a list that is written back.
LEMMA OneMore ==
  ASSUME RateInv, NEW q \in Requests, Writing(q), NEW S \in SUBSET (copy[q] \cup {q})
  PROVE  Cardinality(S) <= Rate[At(q)[1]]
<1>1. Rate[At(q)[1]] \in Nat /\ Cardinality(copy[q]) < Rate[At(q)[1]]
  BY AtThrottle, RatesAndWindows DEF RateInv, Short, Writing
<1>2. IsFiniteSet(copy[q])
  BY FS_Subset, ThrottlesAssumption DEF RateInv, TypeOK
<1>3. IsFiniteSet(copy[q] \cup {q}) /\ Cardinality(copy[q] \cup {q}) <= Cardinality(copy[q]) + 1
  <2>1. IsFiniteSet(copy[q] \cup {q})
    BY <1>2, FS_AddElement
  <2>2. Cardinality(copy[q] \cup {q}) = IF q \in copy[q] THEN Cardinality(copy[q]) ELSE Cardinality(copy[q]) + 1
    BY <1>2, FS_AddElement
  <2>3. Cardinality(copy[q]) \in Nat
    BY <1>2, FS_CardinalityType
  <2> QED
    BY <2>1, <2>2, <2>3
<1>4. Cardinality(S) <= Cardinality(copy[q] \cup {q}) /\ IsFiniteSet(S)
  BY <1>3, FS_Subset
<1>5. Cardinality(S) \in Nat /\ Cardinality(copy[q] \cup {q}) \in Nat /\ Cardinality(copy[q]) \in Nat
  BY <1>2, <1>3, <1>4, FS_CardinalityType
<1> QED
  BY <1>1, <1>3, <1>4, <1>5

LEMMA LeavesAtAnswer ==
  ASSUME RateInv, NEW q \in Requests,
         Refuse(q) \/ FailOpen(q) \/ Set(q) \/ SetFails(q) \/ Crash(q)
  PROVE  Local(q) /\ Leaves(q)
<1> DEFINE b == At(q)
<1>1. pc[q] # "idle" /\ TypeOK
  BY DEF Refuse, FailOpen, Set, SetFails, Crash, RateInv
<1>2. b \in Throttles /\ W(b) \in Nat \ {0}
  BY <1>1, AtThrottle, RatesAndWindows
<1>3. q \notin hist[b] \cup passed[b]
  BY <1>1, NewHere DEF RateInv
<1>4. /\ Cardinality(hist[b]) <= Rate[b[1]]
      /\ \A r \in hist[b] \cup passed[b] : age[r][b] < W(b)
      /\ \A r \in passed[b] \ hist[b] : age[r][b] >= trouble[b]
  BY <1>2 DEF RateInv, Short, Placed, Complete
<1>5. Proceed(q) => /\ pc'[q] \in {"idle", "asking"} /\ copy'[q] = {} /\ todo'[q] = Tail(todo[q])
                    /\ \A r \in Requests \ {q} :
                         pc'[r] = pc[r] /\ copy'[r] = copy[r] /\ todo'[r] = todo[r]
  BY <1>1, Proceeds
<1>6. CASE Refuse(q)
  BY <1>1, <1>2, <1>4, <1>5, <1>6 DEF Refuse, Local, Leaves
<1>7. CASE FailOpen(q)
  <2>1. /\ \A r \in Requests \ {q} : age'[r] = age[r]
        /\ \A c \in Throttles \ {b} : age'[q][c] = age[q][c]
        /\ age'[q][b] = 0
    <3>1. age' = [age EXCEPT ![q][b] = 0]
      BY <1>7 DEF FailOpen
    <3> QED
      BY <1>1, <1>2, <3>1 DEF TypeOK
  <2>2. /\ passed'[b] = passed[b] \cup {q} /\ trouble'[b] = 0 /\ hist' = hist
        /\ \A c \in Throttles \ {b} : passed'[c] = passed[c] /\ trouble'[c] = trouble[c]
    BY <1>1, <1>2, <1>7 DEF FailOpen, Lost, TypeOK
  <2>3. Local(q)
    BY <1>1, <1>5, <1>7, <2>1, <2>2 DEF FailOpen, Local
  <2>4. /\ \A r \in hist'[b] \cup passed'[b] : age'[r][b] < W(b)
        /\ \A r \in passed'[b] \ hist'[b] : age'[r][b] >= trouble'[b]
    BY <1>1, <1>2, <1>3, <1>4, <2>1, <2>2 DEF TypeOK
  <2> QED
    BY <1>4, <1>5, <1>7, <2>2, <2>3, <2>4 DEF FailOpen, Leaves
<1>8. CASE Set(q)
  <2>1. Proceed(q) /\ age' = age /\ Writing(q)
    BY <1>8 DEF Set, Writing
  <2>2. /\ hist'[b] = Recent(b, copy[q] \cup {q})
        /\ passed'[b] = Recent(b, passed[b] \cup {q})
        /\ \A c \in Throttles \ {b} : hist'[c] = hist[c] /\ passed'[c] = passed[c]
    BY <1>1, <1>2, <1>8 DEF Set, TypeOK
  <2>3. \/ q \in dirty /\ trouble' = [trouble EXCEPT ![b] = 0]
        \/ q \notin dirty /\ trouble' = trouble
    BY <1>8 DEF Set, Lost
  <2>4. Local(q)
    BY <1>1, <1>2, <1>5, <2>1, <2>2, <2>3 DEF Local, TypeOK
  <2>5. Cardinality(hist'[b]) <= Rate[b[1]] /\ hist'[b] \subseteq copy[q] \cup {q}
    BY <2>1, <2>2, OneMore DEF Recent
  <2>6. \A r \in hist'[b] \cup passed'[b] : age'[r][b] < W(b)
    BY <2>1, <2>2 DEF Recent
  <2>7. ASSUME NEW r \in passed'[b] \ hist'[b] PROVE age'[r][b] >= trouble'[b]
    <3>1. r \in Requests /\ r # q /\ r \in passed[b] /\ r \notin copy[q] /\ age[r][b] \in Nat
      BY <1>1, <1>2, <2>2 DEF Recent, TypeOK
    <3>2. CASE q \in dirty
      BY <1>1, <1>2, <2>1, <2>3, <3>1, <3>2 DEF TypeOK
    <3>3. CASE q \notin dirty
      <4>1. hist[b] \subseteq copy[q]
        BY <2>1, <3>3 DEF RateInv, Complete
      <4> QED
        BY <1>4, <2>1, <2>3, <3>1, <3>3, <4>1
    <3> QED
      BY <3>2, <3>3
  <2>8. (dirty \cup Rivals(q)) \ {q} \subseteq dirty' /\ passed'[b] \subseteq passed[b] \cup {q}
    BY <1>8, <2>2 DEF Set, Recent
  <2> QED
    BY <1>5, <2>1, <2>4, <2>5, <2>6, <2>7, <2>8 DEF Leaves
<1>9. CASE SetFails(q)
  <2>1. Proceed(q) /\ age' = age /\ hist' = hist /\ dirty' = dirty \ {q}
    BY <1>9 DEF SetFails
  <2>2. /\ passed'[b] = Recent(b, passed[b] \cup {q}) /\ trouble'[b] = 0
        /\ \A c \in Throttles \ {b} : passed'[c] = passed[c] /\ trouble'[c] = trouble[c]
    BY <1>1, <1>2, <1>9 DEF SetFails, Lost, TypeOK
  <2>3. Local(q)
    BY <1>1, <1>5, <2>1, <2>2 DEF Local
  <2>4. \A r \in passed'[b] : r \in Requests /\ age[r][b] \in Nat /\ age[r][b] < W(b)
    BY <1>1, <1>2, <2>2 DEF Recent, TypeOK
  <2>5. passed'[b] \subseteq passed[b] \cup {q}
    BY <2>2 DEF Recent
  <2>6. /\ \A r \in hist'[b] \cup passed'[b] : age'[r][b] < W(b)
        /\ \A r \in passed'[b] \ hist'[b] : age'[r][b] >= trouble'[b]
    <3>1. \A r \in hist'[b] : age'[r][b] < W(b)
      BY <1>4, <2>1
    <3>2. \A r \in passed'[b] : age'[r][b] < W(b) /\ age'[r][b] >= 0
      BY <2>1, <2>4
    <3> QED
      BY <2>2, <3>1, <3>2
  <2> QED
    BY <1>4, <1>5, <2>1, <2>3, <2>5, <2>6 DEF Leaves
<1>10. CASE Crash(q)
  <2>1. /\ \A r \in Requests \ {q} :
             pc'[r] = pc[r] /\ todo'[r] = todo[r] /\ copy'[r] = copy[r] /\ age'[r] = age[r]
        /\ \A c \in Throttles \ {b} : age'[q][c] = age[q][c]
        /\ pc'[q] = "idle" /\ todo'[q] = <<>> /\ copy'[q] = {}
    BY <1>2, <1>10 DEF Crash, RateInv, TypeOK
  <2>2. hist' = hist /\ passed' = passed /\ trouble' = trouble /\ dirty' = dirty \ {q}
    BY <1>10 DEF Crash
  <2>3. \A r \in hist[b] \cup passed[b] : age'[r][b] = age[r][b]
    BY <1>1, <1>2, <1>3, <2>1 DEF TypeOK
  <2> QED
    BY <1>1, <1>4, <2>1, <2>2, <2>3 DEF Local, Leaves
<1> QED
  BY <1>6, <1>7, <1>8, <1>9, <1>10
-----------------------------------------------------------------------------
LEMMA FreshKept ==
  ASSUME RateInv, NEW q \in Requests, Local(q), Starts(q) \/ Leaves(q)
  PROVE  Fresh'
<1> SUFFICES ASSUME NEW r \in Requests
             PROVE  /\ \A i, j \in 1..Len(todo'[r]) : todo'[r][i] = todo'[r][j] => i = j
                    /\ \A i \in 1..Len(todo'[r]) :
                         i > 1 \/ pc'[r] = "asking" => age'[r][todo'[r][i]] = W(todo'[r][i])
  BY DEF Fresh, W
<1>1. CASE r # q
  BY <1>1 DEF Local, RateInv, Fresh
<1>2. CASE r = q
  <2>1. /\ At(q) = todo[q][1] /\ Len(todo[q]) \in Nat \ {0}
        /\ Len(Tail(todo[q])) = Len(todo[q]) - 1
        /\ \A i \in 1..Len(Tail(todo[q])) : Tail(todo[q])[i] = todo[q][i + 1]
    BY AtThrottle DEF Local, RateInv
  <2>2. \A i, j \in 1..Len(todo[q]) : todo[q][i] = todo[q][j] => i = j
    BY DEF RateInv, Fresh
  <2>3. \A i \in 2..Len(todo[q]) : age'[q][todo[q][i]] = W(todo[q][i])
    <3> TAKE i \in 2..Len(todo[q])
    <3>1. age[q][todo[q][i]] = W(todo[q][i])
      BY <2>1 DEF RateInv, Fresh
    <3>2. todo[q][i] # At(q)
      BY <2>1, <2>2
    <3>3. todo[q][i] \in Throttles
      BY <2>1 DEF RateInv, TypeOK
    <3> QED
      BY <3>1, <3>2, <3>3 DEF Local
  <2>4. CASE todo'[q] = <<>>
    BY <1>2, <2>4
  <2>5. CASE todo'[q] = Tail(todo[q])
    BY <1>2, <2>1, <2>2, <2>3, <2>5
  <2>6. CASE todo'[q] = todo[q] /\ pc'[q] = "writing"
    BY <1>2, <2>1, <2>2, <2>3, <2>6
  <2> QED
    BY <2>4, <2>5, <2>6 DEF Starts, Leaves
<1> QED
  BY <1>1, <1>2

LEMMA PlacedKept ==
  ASSUME RateInv, NEW q \in Requests, Local(q), Starts(q) \/ Leaves(q)
  PROVE  Placed'
<1> DEFINE b == At(q)
<1>1. TypeOK /\ Fresh /\ Placed /\ pc[q] # "idle"
  BY DEF RateInv, Local
<1>2. b \in Throttles /\ W(b) \in Nat \ {0} /\ b = Head(todo[q])
  BY <1>1, AtThrottle, RatesAndWindows DEF At
<1>3. q \notin hist[b] \cup passed[b]
  BY <1>1, NewHere
\* A list in other hands does not hold q, which has not been answered here.
<1>4. \A r \in Requests \ {q} : Writing(r) /\ At(r) = b => q \notin copy[r]
  <2> TAKE r \in Requests \ {q}
  <2>1. CASE pc[q] = "asking"
    <3>1. age[q][b] = W(b)
      BY <1>1, <2>1, NewHere
    <3>2. Writing(r) /\ At(r) = b => \A x \in copy[r] : age[x][b] < W(b)
      BY <1>1 DEF Placed
    <3> QED
      BY <1>2, <3>1, <3>2
  <2>2. CASE pc[q] = "writing"
    BY <1>1, <2>2 DEF Placed, Writing
  <2> QED
    BY <1>1, <2>1, <2>2 DEF TypeOK
<1>5. \A r \in Requests \ {q} :
        Writing(r)' = Writing(r) /\ At(r)' = At(r) /\ copy'[r] = copy[r] /\ age'[r] = age[r]
  BY DEF Local, Writing, At
<1>6. \A r \in Requests \ {q} : Writing(r) => At(r) \in Throttles
  BY <1>1, AtThrottle DEF Writing
<1>7. Writing(q)' => Starts(q) /\ At(q)' = b
  BY DEF Starts, Leaves, Writing, At
\* Ages change for q, at this throttle, only.
<1>8. ASSUME NEW x \in Requests, NEW c \in Throttles, x # q \/ c # b
      PROVE  age'[x][c] = age[x][c]
  BY <1>5, <1>8 DEF Local
<1>9. ASSUME NEW c \in Throttles, NEW r \in hist'[c] \cup passed'[c] PROVE age'[r][c] < W(c)
  <2>1. CASE c # b
    <3>1. r \in hist[c] \cup passed[c]
      BY <1>9, <2>1 DEF Local
    <3> QED
      BY <1>1, <1>8, <2>1, <3>1 DEF Placed, TypeOK
  <2>2. CASE c = b /\ Leaves(q)
    BY <1>9, <2>2 DEF Leaves
  <2>3. CASE c = b /\ Starts(q)
    <3>1. r \in hist[b] \cup passed[b] /\ r # q /\ r \in Requests
      BY <1>1, <1>2, <1>3, <1>9, <2>3 DEF Starts, TypeOK
    <3> QED
      BY <1>1, <1>2, <1>8, <2>3, <3>1 DEF Placed
  <2> QED
    BY <2>1, <2>2, <2>3
<1>10. ASSUME NEW r \in Requests, ~Writing(r)' PROVE copy'[r] = {}
  BY <1>1, <1>5, <1>10 DEF Placed, Writing, Starts, Leaves
<1>11. ASSUME NEW r \in Requests, Writing(r)', NEW x \in copy'[r]
       PROVE  age'[x][At(r)'] < W(At(r)')
  <2>1. CASE r # q
    <3>1. Writing(r) /\ At(r)' = At(r) /\ x \in copy[r] /\ x \in Requests /\ At(r) \in Throttles
      BY <1>1, <1>5, <1>6, <1>11, <2>1 DEF TypeOK
    <3>2. age[x][At(r)] < W(At(r))
      BY <1>1, <3>1 DEF Placed
    <3>3. x # q \/ At(r) # b
      BY <1>4, <2>1, <3>1
    <3> QED
      BY <1>8, <3>1, <3>2, <3>3
  <2>2. CASE r = q
    <3>1. x \in hist[b] /\ x # q /\ x \in Requests /\ At(r)' = b
      BY <1>1, <1>2, <1>3, <1>7, <1>11, <2>2 DEF Starts, TypeOK
    <3> QED
      BY <1>1, <1>2, <1>8, <3>1 DEF Placed
  <2> QED
    BY <2>1, <2>2
<1>12. ASSUME NEW r \in Requests, Writing(r)' PROVE r \notin hist'[At(r)'] \cup passed'[At(r)']
  <2>1. CASE r # q
    <3>1. Writing(r) /\ At(r)' = At(r) /\ At(r) \in Throttles /\ r \notin hist[At(r)] \cup passed[At(r)]
      BY <1>1, <1>5, <1>6, <1>12, <2>1 DEF Placed
    <3>2. CASE At(r) # b
      BY <3>1, <3>2 DEF Local
    <3>3. CASE At(r) = b
      <4>1. Writing(q) => r \notin copy[q]
        BY <1>1, <3>1, <3>3 DEF Placed
      <4> QED
        BY <2>1, <3>1, <3>3, <4>1 DEF Starts, Leaves
    <3> QED
      BY <3>2, <3>3
  <2>2. CASE r = q
    BY <1>3, <1>7, <1>12, <2>2 DEF Starts
  <2> QED
    BY <2>1, <2>2
<1>13. ASSUME NEW r \in Requests, NEW x \in Requests, Writing(r)', Writing(x)', At(r)' = At(x)'
       PROVE  r \notin copy'[x]
  <2>1. CASE r # q /\ x # q
    BY <1>1, <1>5, <1>13, <2>1 DEF Placed
  <2>2. CASE r = q /\ x # q
    BY <1>4, <1>5, <1>7, <1>13, <2>2
  <2>3. CASE x = q
    <3>1. copy'[q] \subseteq hist[b] /\ At(q)' = b
      BY <1>7, <1>13, <2>3 DEF Starts
    <3>2. r # q => r \notin hist[b]
      BY <1>1, <1>5, <1>13, <2>3, <3>1 DEF Placed
    <3> QED
      BY <1>3, <2>3, <3>1, <3>2
  <2> QED
    BY <2>1, <2>2, <2>3
<1> QED
  BY <1>9, <1>10, <1>11, <1>12, <1>13 DEF Placed, W

LEMMA ShortKept ==
  ASSUME RateInv, NEW q \in Requests, Local(q), Starts(q) \/ Leaves(q)
  PROVE  Short'
<1>1. ASSUME NEW c \in Throttles PROVE Cardinality(hist'[c]) <= Rate[c[1]]
  BY <1>1 DEF Local, Starts, Leaves, RateInv, Short
<1>2. ASSUME NEW r \in Requests, Writing(r)' PROVE Cardinality(copy'[r]) < Rate[At(r)'[1]]
  BY <1>2 DEF Local, Starts, Leaves, RateInv, Short, Writing, At
<1> QED
  BY <1>1, <1>2 DEF Short

LEMMA CompleteKept ==
  ASSUME RateInv, NEW q \in Requests, Local(q), Starts(q) \/ Leaves(q)
  PROVE  Complete'
<1> DEFINE b == At(q)
<1>1. TypeOK /\ Fresh /\ Placed /\ Complete /\ pc[q] # "idle"
  BY DEF RateInv, Local
<1>2. b \in Throttles
  BY <1>1, AtThrottle
<1>3. ASSUME NEW r \in Requests, Writing(r)', r \notin dirty' PROVE hist'[At(r)'] \subseteq copy'[r]
  <2>1. CASE r = q
    BY <1>3, <2>1 DEF Starts, Leaves, Writing, At
  <2>2. CASE r # q
    <3>1. Writing(r) /\ At(r)' = At(r) /\ copy'[r] = copy[r]
      BY <1>3, <2>2 DEF Local, Writing, At
    <3>2. At(r) \in Throttles
      BY <1>1, <3>1, AtThrottle DEF Writing
    <3>3. r \notin dirty /\ hist'[At(r)] = hist[At(r)]
      <4>1. CASE At(r) # b
        BY <1>3, <2>2, <3>2, <4>1 DEF Local, Starts, Leaves
      <4>2. CASE At(r) = b
        <5>1. r \in Rivals(q)
          BY <2>2, <3>1, <4>2 DEF Rivals, Writing
        <5> QED
          BY <1>3, <2>2, <4>2, <5>1 DEF Starts, Leaves
      <4> QED
        BY <4>1, <4>2
    <3> QED
      BY <1>1, <3>1, <3>3 DEF Complete
  <2> QED
    BY <2>1, <2>2
<1>4. ASSUME NEW c \in Throttles, NEW r \in passed'[c] \ hist'[c] PROVE age'[r][c] >= trouble'[c]
  <2>1. CASE c # b
    <3>1. r \in passed[c] \ hist[c] /\ trouble'[c] = trouble[c] /\ r \in Requests
      BY <1>1, <1>4, <2>1 DEF Local, TypeOK
    <3>2. age'[r][c] = age[r][c]
      BY <2>1, <3>1 DEF Local
    <3> QED
      BY <1>1, <3>1, <3>2 DEF Complete
  <2>2. CASE c = b /\ Leaves(q)
    BY <1>4, <2>2 DEF Leaves
  <2>3. CASE c = b /\ Starts(q)
    <3>1. r \in passed[b] \ hist[b] /\ r # q /\ r \in Requests /\ trouble' = trouble
      BY <1>1, <1>2, <1>4, <2>3, NewHere DEF Starts, TypeOK
    <3>2. age'[r] = age[r]
      BY <3>1 DEF Local
    <3> QED
      BY <1>1, <1>2, <2>3, <3>1, <3>2 DEF Complete
  <2> QED
    BY <2>1, <2>2, <2>3
<1> QED
  BY <1>3, <1>4 DEF Complete

LEMMA RateRequest ==
  ASSUME RateInv, NEW q \in Requests, Ask(q) \/ Crash(q)
  PROVE  Fresh' /\ Placed' /\ Short' /\ Complete'
<1>1. Local(q) /\ (Starts(q) \/ Leaves(q))
  BY StartsAtGet, LeavesAtAnswer DEF Ask
<1> QED
  BY <1>1, FreshKept, PlacedKept, ShortKept, CompleteKept
LEMMA RateArrive ==
  ASSUME RateInv, NEW q \in Requests, NEW view \in Views, NEW who \in Users \cup Addresses,
         Arrive(q, view, who)
  PROVE  Fresh' /\ Placed' /\ Short' /\ Complete'
<1>1. /\ Asked(view, who) \in Seq(Throttles)
      /\ \A i, j \in 1..Len(Asked(view, who)) :
           Asked(view, who)[i] = Asked(view, who)[j] => i = j
  BY AskedOfClient
<1>2. /\ pc[q] = "idle" /\ \A b \in Throttles : age[q][b] = W(b)
      /\ pc'[q] = "asking" /\ todo'[q] = Asked(view, who)
      /\ \A r \in Requests \ {q} : pc'[r] = pc[r] /\ todo'[r] = todo[r]
      /\ UNCHANGED <<hist, copy, age, passed, dirty, trouble>>
  BY DEF Arrive, RateInv, TypeOK
<1>3. \A r \in Requests : Writing(r)' = Writing(r) /\ (Writing(r) => At(r)' = At(r))
  BY <1>2 DEF Writing, At
<1>4. Fresh'
  <2>1. \A i \in 1..Len(Asked(view, who)) : Asked(view, who)[i] \in Throttles
    BY <1>1
  <2>2. ASSUME NEW r \in Requests
        PROVE  /\ \A i, j \in 1..Len(todo'[r]) : todo'[r][i] = todo'[r][j] => i = j
               /\ \A i \in 1..Len(todo'[r]) :
                    i > 1 \/ pc'[r] = "asking" => age'[r][todo'[r][i]] = W(todo'[r][i])
    <3>1. CASE r = q
      BY <1>1, <1>2, <2>1, <3>1
    <3>2. CASE r # q
      BY <1>2, <3>2 DEF RateInv, Fresh
    <3> QED
      BY <3>1, <3>2
  <2> QED
    BY <2>2 DEF Fresh, W
<1>5. Placed'
  BY <1>2, <1>3 DEF RateInv, Placed, W
<1>6. Short' /\ Complete'
  BY <1>2, <1>3 DEF RateInv, Short, Complete
<1> QED
  BY <1>4, <1>5, <1>6

LEMMA RateEvict ==
  ASSUME RateInv, NEW b \in Throttles, Evict(b)
  PROVE  Fresh' /\ Placed' /\ Short' /\ Complete'
<1>1. /\ hist'[b] = {} /\ trouble'[b] = 0 /\ b \in Throttles
      /\ \A c \in Throttles \ {b} : hist'[c] = hist[c] /\ trouble'[c] = trouble[c]
      /\ dirty' = dirty \cup {q \in Requests : pc[q] = "writing" /\ At(q) = b}
      /\ UNCHANGED <<pc, todo, copy, age, passed>>
  BY DEF Evict, Lost, RateInv, TypeOK
<1>2. \A r \in Requests : Writing(r)' = Writing(r) /\ At(r)' = At(r)
  BY <1>1 DEF Writing, At
<1>3. \A r \in Requests : Writing(r) => At(r) \in Throttles
  BY AtThrottle DEF Writing, RateInv
<1>4. \A c \in Throttles : hist'[c] \subseteq hist[c]
  BY <1>1
<1>5. Fresh'
  BY <1>1 DEF RateInv, Fresh, W
<1>6. Placed'
  BY <1>1, <1>2, <1>3, <1>4 DEF RateInv, Placed, W
<1>7. Short'
  <2>1. Rate[b[1]] \in Nat /\ Cardinality({}) = 0
    BY RatesAndWindows, FS_EmptySet
  <2>2. \A c \in Throttles : Cardinality(hist'[c]) <= Rate[c[1]]
    BY <1>1, <2>1 DEF RateInv, Short
  <2> QED
    BY <1>1, <1>2, <2>2 DEF RateInv, Short
<1>8. Complete'
  <2>1. ASSUME NEW r \in Requests, Writing(r)', r \notin dirty' PROVE hist'[At(r)'] \subseteq copy'[r]
    BY <1>1, <1>2, <1>3, <1>4, <2>1 DEF RateInv, Complete, Writing
  <2>2. ASSUME NEW c \in Throttles, NEW r \in passed'[c] \ hist'[c] PROVE age'[r][c] >= trouble'[c]
    <3>1. CASE c = b
      <4>1. r \in Requests
        BY <1>1, <2>2 DEF RateInv, TypeOK
      <4> QED
        BY <1>1, <3>1, <4>1 DEF RateInv, TypeOK
    <3>2. CASE c # b
      BY <1>1, <2>2, <3>2 DEF RateInv, Complete
    <3> QED
      BY <3>1, <3>2
  <2> QED
    BY <2>1, <2>2 DEF Complete
<1> QED
  BY <1>5, <1>6, <1>7, <1>8

LEMMA RateTick == ASSUME RateInv, Tick PROVE Fresh' /\ Placed' /\ Short' /\ Complete'
<1>1. TypeOK /\ Fresh /\ Placed /\ Short /\ Complete
  BY DEF RateInv
<1>2. \A b \in Throttles : W(b) \in Nat \ {0} /\ Rate[b[1]] \in Nat
  BY RatesAndWindows
<1>3. \A q \in Requests, b \in Throttles :
        age'[q][b] = IF age[q][b] < W(b) THEN age[q][b] + 1 ELSE age[q][b]
  BY DEF Tick
<1>4. \A b \in Throttles :
        /\ trouble'[b] = IF trouble[b] < W(b) THEN trouble[b] + 1 ELSE trouble[b]
        /\ hist'[b] = {r \in hist[b] : age[r][b] + 1 < W(b)}
        /\ passed'[b] = {r \in passed[b] : age[r][b] + 1 < W(b)}
  BY DEF Tick
<1>5. \A q \in Requests :
        copy'[q] = IF Writing(q) THEN {r \in copy[q] : age[r][At(q)] + 1 < W(At(q))} ELSE {}
  BY DEF Tick, Writing
<1>6. /\ UNCHANGED <<pc, todo, dirty>>
      /\ \A r \in Requests : Writing(r)' = Writing(r) /\ At(r)' = At(r)
      /\ \A r \in Requests : Writing(r) => At(r) \in Throttles
  BY <1>1, AtThrottle DEF Tick, Writing, At
<1>7. \A q \in Requests, b \in Throttles : age[q][b] \in Nat /\ age[q][b] <= W(b)
  BY <1>1 DEF TypeOK
<1>8. Fresh'
  <2>1. ASSUME NEW q \in Requests, NEW i \in 1..Len(todo[q]), age[q][todo[q][i]] = W(todo[q][i])
        PROVE  age'[q][todo[q][i]] = W(todo[q][i])
    <3>1. todo[q][i] \in Throttles
      BY <1>1 DEF TypeOK
    <3> QED
      BY <1>2, <1>3, <2>1, <3>1
  <2> QED
    BY <1>1, <1>6, <2>1 DEF Fresh, W
<1>9. Placed'
  <2>1. ASSUME NEW b \in Throttles, NEW r \in hist'[b] \cup passed'[b] PROVE age'[r][b] < W(b)
    <3>1. r \in Requests /\ age[r][b] + 1 < W(b)
      BY <1>1, <1>4, <2>1 DEF TypeOK
    <3> QED
      BY <1>2, <1>3, <1>7, <3>1
  <2>2. ASSUME NEW q \in Requests, Writing(q), NEW r \in copy'[q] PROVE age'[r][At(q)] < W(At(q))
    <3>1. r \in Requests /\ At(q) \in Throttles /\ age[r][At(q)] + 1 < W(At(q))
      BY <1>1, <1>5, <1>6, <2>2 DEF TypeOK
    <3> QED
      BY <1>2, <1>3, <1>7, <3>1
  <2>3. \A q \in Requests : Writing(q) => q \notin hist'[At(q)] \cup passed'[At(q)]
    BY <1>1, <1>4, <1>6 DEF Placed
  <2>4. \A q, r \in Requests : Writing(q) /\ Writing(r) /\ At(q) = At(r) => q \notin copy'[r]
    BY <1>1, <1>5 DEF Placed
  <2> QED
    BY <1>5, <1>6, <2>1, <2>2, <2>3, <2>4 DEF Placed, W
\* Time shortens lists.
<1>10. ASSUME NEW S, NEW T \in SUBSET S, S \subseteq Requests
       PROVE  Cardinality(T) <= Cardinality(S) /\ Cardinality(T) \in Nat /\ Cardinality(S) \in Nat
  BY <1>10, FS_Subset, FS_CardinalityType, ThrottlesAssumption
<1>11. Short'
  <2>1. ASSUME NEW b \in Throttles PROVE Cardinality(hist'[b]) <= Rate[b[1]]
    <3>1. hist'[b] \subseteq hist[b] /\ hist[b] \subseteq Requests
      BY <1>1, <1>4 DEF TypeOK
    <3>2. Cardinality(hist[b]) <= Rate[b[1]]
      BY <1>1 DEF Short
    <3> QED
      BY <1>2, <1>10, <3>1, <3>2
  <2>2. ASSUME NEW q \in Requests, Writing(q) PROVE Cardinality(copy'[q]) < Rate[At(q)[1]]
    <3>1. copy'[q] \subseteq copy[q] /\ copy[q] \subseteq Requests
      BY <1>1, <1>5, <2>2 DEF TypeOK
    <3>2. Cardinality(copy[q]) < Rate[At(q)[1]] /\ Rate[At(q)[1]] \in Nat
      BY <1>1, <1>2, <1>6, <2>2 DEF Short
    <3> QED
      BY <1>10, <3>1, <3>2
  <2> QED
    BY <1>6, <2>1, <2>2 DEF Short
<1>12. Complete'
  <2>1. ASSUME NEW q \in Requests, Writing(q), q \notin dirty PROVE hist'[At(q)] \subseteq copy'[q]
    BY <1>1, <1>4, <1>5, <1>6, <2>1 DEF Complete
  <2>2. ASSUME NEW b \in Throttles, NEW r \in passed'[b] \ hist'[b] PROVE age'[r][b] >= trouble'[b]
    <3>1. r \in passed[b] \ hist[b] /\ r \in Requests /\ age[r][b] + 1 < W(b)
      BY <1>1, <1>4, <2>2 DEF TypeOK
    <3>2. age[r][b] >= trouble[b] /\ trouble[b] \in Nat /\ age[r][b] \in Nat
      BY <1>1, <3>1 DEF Complete, TypeOK
    <3> QED
      BY <1>2, <1>3, <1>4, <3>1, <3>2
  <2> QED
    BY <1>6, <2>1, <2>2 DEF Complete
<1> QED
  BY <1>8, <1>9, <1>11, <1>12

LEMMA RateStep == RateInv /\ [Next]_vars => RateInv'
<1> SUFFICES ASSUME RateInv, [Next]_vars PROVE RateInv'
  OBVIOUS
<1>1. TypeOK'
  BY TypeStep DEF RateInv
<1>2. CASE UNCHANGED vars
  BY <1>1, <1>2 DEF vars, RateInv, Fresh, Placed, Short, Complete, Writing, At, W
<1> QED
  BY <1>1, <1>2, RateRequest, RateArrive, RateEvict, RateTick DEF Next, RateInv

\* In a window without trouble, a throttle lets through no more than its rate.
THEOREM RateIsHeld == Spec => []RateHeld
<1>1. RateInv => RateHeld
  <2> SUFFICES ASSUME RateInv, NEW b \in Throttles, trouble[b] = W(b)
               PROVE  Cardinality(passed[b]) <= Rate[b[1]]
    BY DEF RateHeld
  <2>1. W(b) \in Nat /\ Rate[b[1]] \in Nat
    BY RatesAndWindows
  <2>2. \A r \in passed[b] : age[r][b] < W(b) /\ age[r][b] \in Nat
    BY DEF RateInv, Placed, TypeOK
  <2>3. passed[b] \subseteq hist[b]
    BY <2>1, <2>2 DEF RateInv, Complete
  <2>4. IsFiniteSet(hist[b])
    BY FS_Subset, ThrottlesAssumption DEF RateInv, TypeOK
  <2>5. /\ Cardinality(passed[b]) <= Cardinality(hist[b])
        /\ Cardinality(passed[b]) \in Nat /\ Cardinality(hist[b]) \in Nat
    BY <2>3, <2>4, FS_Subset, FS_CardinalityType
  <2>6. Cardinality(hist[b]) <= Rate[b[1]]
    BY DEF RateInv, Short
  <2> QED
    BY <2>1, <2>5, <2>6
<1> QED
  BY RateInit, RateStep, <1>1, PTL DEF Spec

-----------------------------------------------------------------------------
\* Why a refusal is earned: what a list counts, and what a request is about to write back,
\* was let through in the window.
Counted ==
  /\ \A b \in Throttles : hist[b] \subseteq passed[b]
  /\ \A q \in Requests : Writing(q) => copy[q] \subseteq passed[At(q)]

LEMMA CountedRequest ==
  ASSUME RateInv, Counted, NEW q \in Requests, Ask(q) \/ Crash(q)
  PROVE  Counted'
<1> DEFINE b == At(q)
<1>1. pc[q] # "idle" /\ TypeOK
  BY DEF Ask, Refuse, Get, GetNothing, FailOpen, Set, SetFails, Crash, RateInv
<1>2. b \in Throttles
  BY <1>1, AtThrottle
<1>3. \A r \in Requests \ {q} : pc'[r] = pc[r] /\ copy'[r] = copy[r] /\ todo'[r] = todo[r]
  BY <1>1, Proceeds DEF Ask, Refuse, Get, GetNothing, FailOpen, Set, SetFails, Crash, TypeOK
<1>4. \A r \in copy[q] \cup passed[b] : Writing(q) => r \in passed[b] /\ age[r][b] < W(b)
  BY <1>2 DEF RateInv, Placed, Counted
<1>5. /\ \A c \in Throttles \ {b} : hist'[c] = hist[c] /\ passed'[c] = passed[c]
      /\ passed[b] \subseteq passed'[b]
      /\ hist'[b] = hist[b] \/ (Set(q) /\ hist'[b] \subseteq copy[q] \cup {q} /\ hist'[b] \subseteq passed'[b])
  <2>1. CASE Refuse(q) \/ Get(q) \/ GetNothing(q) \/ Crash(q)
    BY <2>1 DEF Refuse, Get, GetNothing, Crash
  <2>2. CASE FailOpen(q)
    BY <1>1, <1>2, <2>2 DEF FailOpen, TypeOK
  <2>3. CASE Set(q)
    BY <1>1, <1>2, <1>4, <2>3 DEF Set, Recent, TypeOK, Writing, RateInv, Placed
  <2>4. CASE SetFails(q)
    BY <1>1, <1>2, <1>4, <2>4 DEF SetFails, Recent, TypeOK, Writing
  <2> QED
    BY <2>1, <2>2, <2>3, <2>4 DEF Ask
<1>6. Writing(q)' => copy'[q] \in {{}, hist[b]} /\ At(q)' = b /\ passed'[b] = passed[b]
  <2>1. CASE Get(q) \/ GetNothing(q)
    BY <2>1, StartsAtGet DEF Starts, At
  <2>2. CASE Refuse(q) \/ FailOpen(q) \/ Set(q) \/ SetFails(q) \/ Crash(q)
    BY <2>2, LeavesAtAnswer DEF Leaves, Writing
  <2> QED
    BY <2>1, <2>2 DEF Ask
<1>7. \A c \in Throttles : passed[c] \subseteq passed'[c] /\ hist'[c] \subseteq passed'[c]
  BY <1>2, <1>5 DEF Counted
<1>8. ASSUME NEW r \in Requests, Writing(r)' PROVE copy'[r] \subseteq passed'[At(r)']
  <2>1. CASE r = q
    <3>1. copy'[r] \in {{}, hist[b]} /\ At(r)' = b /\ passed'[b] = passed[b]
      BY <1>6, <1>8, <2>1
    <3>2. hist[b] \subseteq passed[b]
      BY <1>2 DEF Counted
    <3> QED
      BY <3>1, <3>2
  <2>2. CASE r # q
    <3>1. Writing(r) /\ copy'[r] = copy[r] /\ At(r)' = At(r)
      BY <1>3, <1>8, <2>2 DEF Writing, At
    <3>2. At(r) \in Throttles
      BY <1>1, <3>1, AtThrottle DEF Writing
    <3> QED
      BY <1>7, <3>1, <3>2 DEF Counted
  <2> QED
    BY <2>1, <2>2
<1> QED
  BY <1>7, <1>8 DEF Counted

LEMMA CountedStep == RateInv /\ Counted /\ [Next]_vars => Counted'
<1> SUFFICES ASSUME RateInv, Counted, [Next]_vars PROVE Counted'
  OBVIOUS
<1>1. ASSUME NEW q \in Requests, NEW view \in Views, NEW who \in Users \cup Addresses,
             Arrive(q, view, who)
      PROVE  Counted'
  BY <1>1 DEF Arrive, Counted, Writing, At, RateInv, TypeOK
<1>2. ASSUME NEW b \in Throttles, Evict(b) PROVE Counted'
  BY <1>2 DEF Evict, Counted, Writing, At, RateInv, TypeOK
<1>3. CASE Tick
  <2>1. /\ pc' = pc /\ todo' = todo
        /\ \A b \in Throttles : /\ hist'[b] = {r \in hist[b] : age[r][b] + 1 < W(b)}
                                /\ passed'[b] = {r \in passed[b] : age[r][b] + 1 < W(b)}
        /\ \A q \in Requests : Writing(q) =>
             copy'[q] = {r \in copy[q] : age[r][At(q)] + 1 < W(At(q))}
    BY <1>3 DEF Tick, Writing
  <2>2. \A q \in Requests : Writing(q) => At(q) \in Throttles
    BY AtThrottle DEF Writing, RateInv
  <2> QED
    BY <2>1, <2>2 DEF Counted, Writing, At
<1>4. CASE UNCHANGED vars
  BY <1>4 DEF vars, Counted, Writing, At
<1> QED
  BY <1>1, <1>2, <1>3, <1>4, CountedRequest DEF Next

\* However requests overlap and Redis fails, a throttle refuses only what comes after its
\* rate of requests got through in the window.
THEOREM RefusalsAreEarned == Spec => []RefusedAtRate
<1>1. RateInv /\ Counted => RefusedAtRate
  <2> SUFFICES ASSUME RateInv, Counted, NEW b \in Throttles, Full(b)
               PROVE  Cardinality(passed[b]) >= Rate[b[1]]
    BY DEF RefusedAtRate
  <2>1. hist[b] \subseteq passed[b] /\ IsFiniteSet(passed[b])
    BY FS_Subset, ThrottlesAssumption DEF Counted, RateInv, TypeOK
  <2>2. Cardinality(hist[b]) <= Cardinality(passed[b]) /\ IsFiniteSet(hist[b])
    BY <2>1, FS_Subset
  <2>3. Cardinality(hist[b]) \in Nat /\ Cardinality(passed[b]) \in Nat /\ Rate[b[1]] \in Nat
    BY <2>1, <2>2, FS_CardinalityType, RatesAndWindows
  <2> QED
    BY <2>2, <2>3 DEF Full
<1>2. Init => Counted
  BY DEF Init, Counted, Writing
<1> QED
  BY <1>1, <1>2, RateInit, RateStep, CountedStep, PTL DEF Spec

-----------------------------------------------------------------------------
\* Without overlaps and failures nothing is ever lost.
Untroubled == dirty = {} /\ \A b \in Throttles : trouble[b] = W(b)

LEMMA UntroubledStep ==
  ASSUME Faults = FALSE
  PROVE  TypeOK /\ Untroubled /\ NoOverlaps /\ [Next]_vars => Untroubled'
<1> SUFFICES ASSUME TypeOK, Untroubled, NoOverlaps, [Next]_vars PROVE Untroubled'
  OBVIOUS
<1>1. CASE UNCHANGED <<dirty, trouble>>
  BY <1>1 DEF Untroubled, W
<1>2. ASSUME NEW q \in Requests, Set(q) PROVE Untroubled'
  BY <1>2 DEF Set, Untroubled, NoOverlaps, W
<1>3. ASSUME NEW q \in Requests, Get(q) PROVE Untroubled'
  BY <1>3 DEF Get, Untroubled, W
<1>4. CASE Tick
  <2>1. ASSUME NEW b \in Throttles PROVE trouble'[b] = W(b)
    <3>1. trouble'[b] = IF trouble[b] < W(b) THEN trouble[b] + 1 ELSE trouble[b]
      BY <1>4 DEF Tick
    <3>2. trouble[b] = W(b) /\ W(b) \in Nat
      BY RatesAndWindows DEF Untroubled
    <3> QED
      BY <3>1, <3>2
  <2>2. dirty' = {}
    BY <1>4 DEF Tick, Untroubled
  <2> QED
    BY <2>1, <2>2 DEF Untroubled, W
<1>5. ASSUME NEW q \in Requests,
             Refuse(q) \/ \E view \in Views, who \in Users \cup Addresses : Arrive(q, view, who)
      PROVE  Untroubled'
  BY <1>1, <1>5 DEF Refuse, Arrive
<1>6. CASE UNCHANGED vars
  BY <1>1, <1>6 DEF vars
<1> QED
  BY <1>2, <1>3, <1>4, <1>5, <1>6 DEF Next, Ask, GetNothing, FailOpen, SetFails, Crash, Evict

\* While Redis works, a lock on each list from read to write is all it takes for every
\* window of every throttle to hold its rate.
THEOREM LockedListsHoldRate ==
  ASSUME Faults = FALSE
  PROVE  Spec /\ []NoOverlaps => []RateHeldAlways
<1>1. Init => Untroubled
  BY DEF Init, Untroubled
<1>2. TypeOK /\ Untroubled /\ NoOverlaps /\ [Next]_vars => Untroubled'
  BY UntroubledStep
<1>3. Untroubled /\ RateHeld => RateHeldAlways
  BY DEF Untroubled, RateHeld, RateHeldAlways
<1> QED
  BY <1>1, <1>2, <1>3, TypeCorrect, RateIsHeld, PTL DEF Spec
=============================================================================
