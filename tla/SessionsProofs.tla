--------------------------- MODULE SessionsProofs ---------------------------
(***************************************************************************)
(* Proofs about Sessions, for any numbers of users, requests, sessions and *)
(* tokens.                                                                 *)
(***************************************************************************)
EXTENDS Sessions, FiniteSetTheorems, TLAPS

USE SessionsAssumption

Past(q) == pc[q] \in {"refresh", "rotate", "logout"}

\* A session that was not forked has one token at most that is not blacklisted or one
\* request that owes it one; a request past the check holds that token, and holds it alone.
Unforked(s) ==
  /\ \A t, x \in Tokens :
       session[t] = s /\ session[x] = s /\ t \notin black /\ x \notin black => t = x
  /\ \A q, r \in Requests :
       pc[q] = "next" /\ pc[r] = "next" /\ session[hand[q]] = s /\ session[hand[r]] = s => q = r
  /\ \A q \in Requests, t \in Tokens :
       pc[q] = "next" /\ session[hand[q]] = s /\ session[t] = s => t \in black
  /\ \A q \in Requests : Past(q) /\ session[hand[q]] = s => hand[q] \notin black
  /\ \A q, r \in Requests :
       Past(q) /\ Past(r) /\ session[hand[q]] = s /\ hand[q] = hand[r] => q = r

\* Something is left of a session that is not over.
Kept(s) ==
  \/ s \in over
  \/ \A t \in Tokens : session[t] # s
  \/ \E t \in Tokens : session[t] = s /\ t \notin black
  \/ \E q \in Requests : pc[q] = "next" /\ session[hand[q]] = s

\* Nothing is left of a session that was logged out.
Closed(s) ==
  /\ \A t \in Tokens : session[t] = s => t \in black \cup expired
  /\ \A q \in Requests : pc[q] \notin {"idle", "login"} => session[hand[q]] # s

Chains ==
  /\ \A s \in Sessions \ forked : Unforked(s)
  /\ \A s \in Sessions : Kept(s)
  /\ \A s \in ended \ forked : Closed(s)
  /\ \A s \in ended : \E t \in Tokens : session[t] = s
  /\ \A t \in expired \ black : session[t] \in over

SessionInv == TypeOK /\ Chains
-----------------------------------------------------------------------------
LEMMA TypeInit == Init => TypeOK
BY DEF Init, TypeOK, Steps

LEMMA TypeStep == TypeOK /\ [Next]_vars => TypeOK'
<1> SUFFICES ASSUME TypeOK, [Next]_vars PROVE TypeOK'
  OBVIOUS
<1> USE DEF TypeOK, Steps
<1>1. ASSUME NEW q \in Requests, NEW u \in Users, ReadUser(q, u) PROVE TypeOK'
  BY <1>1 DEF ReadUser, tokenVars, history
<1>2. ASSUME NEW q \in Requests, NEW s \in Sessions, NEW t \in Tokens, IssueFirst(q, s, t)
      PROVE  TypeOK'
  BY <1>2 DEF IssueFirst, Issue, Done, history
<1>3. ASSUME NEW q \in Requests, NEW t \in Tokens, NEW step \in {"refresh", "logout"},
             TakeToken(q, t, step)
      PROVE  TypeOK'
  BY <1>3 DEF TakeToken, Live, tokenVars
<1>4. ASSUME NEW q \in Requests, ReadOwner(q) PROVE TypeOK'
  BY <1>4 DEF ReadOwner, Done, tokenVars, history
<1>5. ASSUME NEW q \in Requests, Rotate(q) PROVE TypeOK'
  BY <1>5 DEF Rotate, history
<1>6. ASSUME NEW q \in Requests, NEW t \in Tokens, IssueNext(q, t) PROVE TypeOK'
  BY <1>6 DEF IssueNext, Issue, Done, history
<1>7. ASSUME NEW q \in Requests, Leave(q) PROVE TypeOK'
  BY <1>7 DEF Leave, Done
<1>8. ASSUME NEW q \in Requests, Cut(q) PROVE TypeOK'
  BY <1>8 DEF Cut, Done, tokenVars
<1>9. ASSUME NEW u \in Users, SetActive(u) PROVE TypeOK'
  BY <1>9 DEF SetActive, tokenVars, requestVars, history
<1>10. ASSUME NEW t \in Tokens, Expire(t) PROVE TypeOK'
  BY <1>10 DEF Expire, requestVars
<1>11. ASSUME NEW t \in Tokens, Forget(t) PROVE TypeOK'
  <2>1. \A x \in Tokens : session'[x] # None => x # t /\ session'[x] = session[x]
    BY <1>11 DEF Forget
  <2>2. \A x \in Tokens : session'[x] # None => owner'[session'[x]] = owner[session[x]]
    BY <1>11, <2>1 DEF Forget, Issued
  <2>3. \A q \in Requests :
          pc'[q] \notin {"idle", "login"} => hand'[q] \in Tokens /\ session'[hand'[q]] # None
    BY <1>11 DEF Forget, InHand, requestVars
  <2> QED
    BY <1>11, <2>1, <2>2, <2>3 DEF Forget, Issued, requestVars
<1>12. CASE UNCHANGED vars
  BY <1>12 DEF vars, tokenVars, requestVars, history
<1> QED
  BY <1>1, <1>2, <1>3, <1>4, <1>5, <1>6, <1>7, <1>8, <1>9, <1>10, <1>11, <1>12
  DEF Next, Arrive, Proceed

\* Every reachable state has the declared shape.
THEOREM TypeCorrect == Spec => []TypeOK
BY TypeInit, TypeStep, PTL DEF Spec

-----------------------------------------------------------------------------
LEMMA ChainsInit == Init => Chains
BY DEF Init, Chains, Unforked, Kept, Closed, Past

LEMMA ChainsStep == TypeOK /\ Chains /\ [Next]_vars => Chains'
<1> SUFFICES ASSUME TypeOK, Chains, [Next]_vars PROVE Chains'
  OBVIOUS
<1> USE DEF TypeOK, Steps, Chains, Unforked, Kept, Closed, Past
<1>1. ASSUME NEW q \in Requests, NEW u \in Users, ReadUser(q, u) PROVE Chains'
  BY <1>1 DEF ReadUser, tokenVars, history
<1>2. ASSUME NEW q \in Requests, NEW s \in Sessions, NEW t \in Tokens, IssueFirst(q, s, t)
      PROVE  Chains'
  BY <1>2 DEF IssueFirst, Issue, Issued, Done, history
<1>3. ASSUME NEW q \in Requests, NEW t \in Tokens, NEW step \in {"refresh", "logout"},
             TakeToken(q, t, step)
      PROVE  Chains'
  BY <1>3 DEF TakeToken, Live, Holding, tokenVars
<1>4. ASSUME NEW q \in Requests, ReadOwner(q) PROVE Chains'
  BY <1>4 DEF ReadOwner, Done, tokenVars, history
<1>5. ASSUME NEW q \in Requests, Rotate(q) PROVE Chains'
  BY <1>5 DEF Rotate, history
<1>6. ASSUME NEW q \in Requests, NEW t \in Tokens, IssueNext(q, t) PROVE Chains'
  BY <1>6 DEF IssueNext, Issue, Done, history
<1>7. ASSUME NEW q \in Requests, Leave(q) PROVE Chains'
  BY <1>7 DEF Leave, Done
<1>8. ASSUME NEW q \in Requests, Cut(q) PROVE Chains'
  BY <1>8 DEF Cut, Done, tokenVars
<1>9. ASSUME NEW u \in Users, SetActive(u) PROVE Chains'
  BY <1>9 DEF SetActive, tokenVars, requestVars, history
<1>10. ASSUME NEW t \in Tokens, Expire(t) PROVE Chains'
  BY <1>10 DEF Expire, requestVars
<1>11. ASSUME NEW t \in Tokens, Forget(t) PROVE Chains'
  BY <1>11 DEF Forget, Issued, InHand, requestVars
<1>12. CASE UNCHANGED vars
  BY <1>12 DEF vars, tokenVars, requestVars, history
<1> QED
  BY <1>1, <1>2, <1>3, <1>4, <1>5, <1>6, <1>7, <1>8, <1>9, <1>10, <1>11, <1>12
  DEF Next, Arrive, Proceed

LEMMA SessionStep == SessionInv /\ [Next]_vars => SessionInv'
BY TypeStep, ChainsStep DEF SessionInv

\* Of a set with one element at most, the cardinality is 0 or 1.
LEMMA AtMostOne ==
  ASSUME NEW S, \A x, y \in S : x = y
  PROVE  IsFiniteSet(S) /\ Cardinality(S) = IF S = {} THEN 0 ELSE 1
<1>1. CASE S = {}
  BY <1>1, FS_EmptySet
<1>2. CASE S # {}
  <2>1. PICK x \in S : TRUE
    BY <1>2
  <2>2. S = {x}
    BY <2>1
  <2> QED
    BY <2>2, <1>2, FS_Singleton
<1> QED
  BY <1>1, <1>2

\* A session has one usable token at a time, or a request about to issue it, unless two
\* requests held one token at once; and it is not left without any by rotation.
THEOREM RotationKeepsOne == Spec => []OneTokenPerSession
<1>1. SessionInv => OneTokenPerSession
  <2> SUFFICES ASSUME SessionInv, NEW s \in Sessions
               PROVE  LET usable == Issued(s) \ black IN
                      /\ s \notin forked => Cardinality(usable) + Cardinality(Owing(s)) <= 1
                      /\ Issued(s) # {} /\ s \notin over => usable \cup Owing(s) # {}
    BY DEF OneTokenPerSession
  <2> DEFINE usable == Issued(s) \ black
  <2>1. ASSUME s \notin forked PROVE Cardinality(usable) + Cardinality(Owing(s)) <= 1
    <3>1. /\ \A x, y \in usable : x = y
          /\ \A x, y \in Owing(s) : x = y
          /\ usable = {} \/ Owing(s) = {}
      BY <2>1 DEF SessionInv, Chains, Unforked, Issued, Owing
    <3>2. /\ Cardinality(usable) = IF usable = {} THEN 0 ELSE 1
          /\ Cardinality(Owing(s)) = IF Owing(s) = {} THEN 0 ELSE 1
      BY <3>1, AtMostOne
    <3> QED
      BY <3>1, <3>2
  <2>2. Issued(s) # {} /\ s \notin over => usable \cup Owing(s) # {}
    BY DEF SessionInv, Chains, Kept, Issued, Owing
  <2> QED
    BY <2>1, <2>2
<1> QED
  BY TypeInit, ChainsInit, SessionStep, <1>1, PTL DEF Spec, SessionInv

\* A session that was logged out stays so, unless a request held the same token at the time.
THEOREM LogoutIsFinal == Spec => []LoggedOutStaysOut
<1>1. SessionInv => LoggedOutStaysOut
  BY DEF SessionInv, TypeOK, Chains, Closed, LoggedOutStaysOut, Issued, Owing
<1> QED
  BY TypeInit, ChainsInit, SessionStep, <1>1, PTL DEF Spec, SessionInv

-----------------------------------------------------------------------------
\* What a step may do for user u: take requests and tokens away, or let a request that was
\* granted issue its one token.
Fewer(u) == Granted(u)' \subseteq Granted(u) /\ TokensOf(u)' \subseteq TokensOf(u)
UsesGrant(u) ==
  /\ Granted(u)' \subseteq Granted(u)
  /\ \E q \in Granted(u) \ Granted(u)', t \in Tokens : TokensOf(u)' \subseteq TokensOf(u) \cup {t}

LEMMA GrantStep ==
  ASSUME TypeOK, [Next]_vars, NEW u \in Users, u \notin active
  PROVE  Fewer(u) \/ UsesGrant(u)
<1> USE DEF TypeOK, Steps, Fewer, UsesGrant, Granted, TokensOf
<1>1. ASSUME NEW q \in Requests, NEW v \in Users, ReadUser(q, v) PROVE Fewer(u)
  BY <1>1 DEF ReadUser, tokenVars
<1>2. ASSUME NEW q \in Requests, NEW s \in Sessions, NEW t \in Tokens, IssueFirst(q, s, t)
      PROVE  Fewer(u) \/ UsesGrant(u)
  <2>1. /\ \A x \in Tokens : session[x] # s
        /\ \A x \in Tokens \ {t} : session'[x] = session[x]
        /\ session[t] = None /\ session'[t] = s
        /\ owner' = [owner EXCEPT ![s] = hand[q]]
        /\ pc' = [pc EXCEPT ![q] = "idle"] /\ pc[q] = "login"
        /\ \A r \in Requests \ {q} : hand'[r] = hand[r]
    BY <1>2 DEF IssueFirst, Issue, Issued, Done
  <2>2. \A x \in Tokens \ {t} : x \in TokensOf(u)' <=> x \in TokensOf(u)
    BY <2>1
  <2>3. Granted(u)' \subseteq Granted(u) /\ q \notin Granted(u)'
    BY <2>1
  <2>4. CASE hand[q] = u
    <3>1. q \in Granted(u)
      BY <2>1, <2>4
    <3>2. TokensOf(u)' \subseteq TokensOf(u) \cup {t}
      BY <2>2
    <3> QED
      BY <2>3, <3>1, <3>2
  <2>5. CASE hand[q] # u
    <3>1. t \notin TokensOf(u)'
      BY <2>1, <2>5
    <3>2. TokensOf(u)' \subseteq TokensOf(u)
      BY <2>2, <3>1
    <3> QED
      BY <2>3, <3>2
  <2> QED
    BY <2>4, <2>5
<1>3. ASSUME NEW q \in Requests, NEW t \in Tokens, NEW step \in {"refresh", "logout"},
             TakeToken(q, t, step)
      PROVE  Fewer(u)
  BY <1>3 DEF TakeToken, tokenVars
<1>4. ASSUME NEW q \in Requests, ReadOwner(q) PROVE Fewer(u)
  BY <1>4 DEF ReadOwner, Done, tokenVars
<1>5. ASSUME NEW q \in Requests, Rotate(q) PROVE Fewer(u)
  BY <1>5 DEF Rotate
<1>6. ASSUME NEW q \in Requests, NEW t \in Tokens, IssueNext(q, t) PROVE Fewer(u) \/ UsesGrant(u)
  <2>1. /\ pc[q] = "next" /\ pc' = [pc EXCEPT ![q] = "idle"] /\ owner' = owner
        /\ session[t] = None /\ session'[t] = session[hand[q]]
        /\ \A x \in Tokens \ {t} : session'[x] = session[x]
        /\ \A r \in Requests \ {q} : hand'[r] = hand[r]
    BY <1>6 DEF IssueNext, Issue, Done
  <2>2. \A x \in Tokens \ {t} : x \in TokensOf(u)' <=> x \in TokensOf(u)
    BY <2>1
  <2>3. Granted(u)' \subseteq Granted(u) /\ q \notin Granted(u)'
    BY <2>1
  <2>4. CASE owner[session[hand[q]]] = u
    <3>1. q \in Granted(u)
      BY <2>1, <2>4
    <3>2. TokensOf(u)' \subseteq TokensOf(u) \cup {t}
      BY <2>2
    <3> QED
      BY <2>3, <3>1, <3>2
  <2>5. CASE owner[session[hand[q]]] # u
    <3>1. t \notin TokensOf(u)'
      BY <2>1, <2>5
    <3>2. TokensOf(u)' \subseteq TokensOf(u)
      BY <2>2, <3>1
    <3> QED
      BY <2>3, <3>2
  <2> QED
    BY <2>4, <2>5
<1>7. ASSUME NEW q \in Requests, Leave(q) \/ Cut(q) PROVE Fewer(u)
  BY <1>7 DEF Leave, Cut, Done, tokenVars
<1>8. ASSUME NEW v \in Users, SetActive(v) PROVE Fewer(u)
  BY <1>8 DEF SetActive, tokenVars, requestVars
<1>9. ASSUME NEW t \in Tokens, Expire(t) PROVE Fewer(u)
  BY <1>9 DEF Expire, requestVars
<1>10. ASSUME NEW t \in Tokens, Forget(t) PROVE Fewer(u)
  <2>1. /\ pc' = pc /\ hand' = hand
        /\ \A x \in Tokens : session'[x] # None => x # t /\ session'[x] = session[x]
        /\ \A s \in Sessions : owner'[s] \in {owner[s], None}
    BY <1>10 DEF Forget, requestVars
  <2>2. TokensOf(u)' \subseteq TokensOf(u)
    BY <2>1
  <2>3. \A q \in Requests : pc[q] \notin {"idle", "login"} => hand[q] # t /\ session'[hand[q]] = session[hand[q]]
    BY <1>10 DEF Forget, InHand
  <2>4. Granted(u)' \subseteq Granted(u)
    BY <2>1, <2>3
  <2> QED
    BY <2>2, <2>4
<1>11. CASE UNCHANGED vars
  BY <1>11 DEF vars, tokenVars, requestVars
<1> QED
  BY <1>1, <1>2, <1>3, <1>4, <1>5, <1>6, <1>7, <1>8, <1>9, <1>10, <1>11 DEF Next, Arrive, Proceed

\* From the moment a user is disabled, no request is let through for that user: tokens appear
\* only from the requests that had been, one from each.
THEOREM DisabledUsersGetNoMore == Spec => DisabledGetNoMore
<1>1. TypeOK /\ [Next]_vars =>
        [\A u \in Users \ active :
           /\ Granted(u)' \subseteq Granted(u)
           /\ \/ TokensOf(u)' \subseteq TokensOf(u)
              \/ \E q \in Granted(u) \ Granted(u)', t \in Tokens :
                   TokensOf(u)' \subseteq TokensOf(u) \cup {t}]_vars
  BY GrantStep DEF Fewer, UsesGrant
<1> QED
  BY <1>1, TypeCorrect, PTL DEF Spec, DisabledGetNoMore
=============================================================================
