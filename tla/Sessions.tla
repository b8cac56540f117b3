------------------------------ MODULE Sessions ------------------------------
(***************************************************************************)
(* Login sessions and their refresh tokens: login and logout of            *)
(* apps/users/views.py, the token endpoints of settings/urls.py and what   *)
(* SIMPLE_JWT of settings/conf.py makes of them.                           *)
(*                                                                         *)
(*   login     ReadUser -> IssueFirst                                      *)
(*   refresh   TakeToken -> ReadOwner -> Rotate -> IssueNext               *)
(*   logout    TakeToken -> Leave                                          *)
(*                                                                         *)
(* A session is a login and the tokens that refreshing makes of it, each   *)
(* replaced by the next (ROTATE_REFRESH_TOKENS) and then not accepted      *)
(* again (BLACKLIST_AFTER_ROTATION).  Looking in the blacklist, writing to *)
(* it and storing the next token are separate statements in autocommit.    *)
(***************************************************************************)
EXTENDS Integers, FiniteSets

CONSTANTS Users,
          Requests,         \* threads that serve a login, a refresh or a logout
          Sessions, Tokens, \* as many as exist at once; ids of gone ones are taken again
          None

VARIABLES
  active,          \* users table: is_active
  session, owner,  \* the session of a token (None: not issued), the user of a session
  black,           \* the blacklist
  expired,         \* tokens past their exp claim
  pc, hand,        \* requests: program counter, the user or token they work with
  forked, ended, over  \* history: sessions with a token two requests held at once,
                       \* logged out, and logged out, expired or cut off

tokenVars == <<session, owner, black, expired>>
requestVars == <<pc, hand>>
history == <<forked, ended, over>>
vars == <<active, tokenVars, requestVars, history>>

ASSUME SessionsAssumption ==
  /\ IsFiniteSet(Tokens) /\ IsFiniteSet(Requests)
  /\ Users \cap Tokens = {}
  /\ None \notin Users \cup Sessions \cup Tokens

Steps == {"idle", "login", "refresh", "rotate", "next", "logout"}

TypeOK ==
  /\ active \subseteq Users
  /\ session \in [Tokens -> Sessions \cup {None}]
  /\ owner \in [Sessions -> Users \cup {None}]
  /\ \A t \in Tokens : session[t] # None => owner[session[t]] \in Users
  /\ \A t \in black \cup expired : t \in Tokens /\ session[t] # None
  /\ pc \in [Requests -> Steps]
  /\ hand \in [Requests -> Users \cup Tokens \cup {None}]
  /\ \A q \in Requests :
       /\ pc[q] = "login" => hand[q] \in Users
       /\ pc[q] \notin {"idle", "login"} => hand[q] \in Tokens /\ session[hand[q]] # None
  /\ forked \subseteq Sessions /\ ended \subseteq Sessions /\ over \subseteq Sessions

-----------------------------------------------------------------------------
\* Requests past the blacklist check of token t that have not written to it.
Holding(t) == {q \in Requests : pc[q] \in {"refresh", "rotate", "logout"} /\ hand[q] = t}
\* Requests that owe session s a token.
Owing(s) == {q \in Requests : pc[q] = "next" /\ session[hand[q]] = s}
InHand(t) == \E q \in Requests : pc[q] \notin {"idle", "login"} /\ hand[q] = t

Issued(s) == {t \in Tokens : session[t] = s}
\* RefreshToken(...): signed here, of the right type, not expired and not blacklisted.
Live(t) == session[t] # None /\ t \notin black \cup expired

Init ==
  /\ active \in SUBSET Users
  /\ session = [t \in Tokens |-> None] /\ owner = [s \in Sessions |-> None]
  /\ black = {} /\ expired = {}
  /\ pc = [q \in Requests |-> "idle"] /\ hand = [q \in Requests |-> None]
  /\ forked = {} /\ ended = {} /\ over = {}

Done(q) ==
  /\ pc' = [pc EXCEPT ![q] = "idle"]
  /\ hand' = [hand EXCEPT ![q] = None]

\* for_user(), set_jti() and outstand(): a token with a jti of its own is on record.
Issue(t, s) == session[t] = None /\ session' = [session EXCEPT ![t] = s]

-----------------------------------------------------------------------------
\* Login and TokenObtainPairView read the user; only login asks for a verified address.
ReadUser(q, u) ==
  /\ pc[q] = "idle" /\ u \in active
  /\ pc' = [pc EXCEPT ![q] = "login"]
  /\ hand' = [hand EXCEPT ![q] = u]
  /\ UNCHANGED <<active, tokenVars, history>>

\* Faulty IssueFirst: RefreshToken() for no user.
IssueUnowned(q, s, t) ==
  /\ pc[q] = "login" /\ Issued(s) = {}
  /\ Issue(t, s)
  /\ Done(q)
  /\ UNCHANGED <<active, owner, black, expired, history>>

\* The key that login stores in Redis under the jti is never read, and is left out.
IssueFirst(q, s, t) ==
  /\ pc[q] = "login" /\ Issued(s) = {}
  /\ Issue(t, s)
  /\ owner' = [owner EXCEPT ![s] = hand[q]]
  /\ Done(q)
  /\ UNCHANGED <<active, black, expired, history>>

\* The token sent with a refresh or a logout; 401 or 400 unless it is live.  A logout needs
\* an access token as well, of a user who is active; whose it is is not compared.
TakeToken(q, t, step) ==
  /\ pc[q] = "idle" /\ Live(t)
  /\ step = "logout" => active # {}
  /\ pc' = [pc EXCEPT ![q] = step]
  /\ hand' = [hand EXCEPT ![q] = t]
  /\ forked' = IF Holding(t) = {} THEN forked ELSE forked \cup {session[t]}
  /\ UNCHANGED <<active, tokenVars, ended, over>>

\* Faulty ReadOwner: a disabled user's token is as good as any.
ReadNobody(q) ==
  /\ pc[q] = "refresh"
  /\ pc' = [pc EXCEPT ![q] = "rotate"]
  /\ UNCHANGED <<active, tokenVars, hand, history>>

\* USER_AUTHENTICATION_RULE, before anything is written: 401 unless the user is active.
ReadOwner(q) ==
  /\ pc[q] = "refresh"
  /\ IF owner[session[hand[q]]] \in active
     THEN pc' = [pc EXCEPT ![q] = "rotate"] /\ UNCHANGED hand
     ELSE Done(q)
  /\ UNCHANGED <<active, tokenVars, history>>

\* Faulty Rotate: BLACKLIST_AFTER_ROTATION is off.
RotateWithoutBlacklist(q) ==
  /\ pc[q] = "rotate"
  /\ pc' = [pc EXCEPT ![q] = "next"]
  /\ UNCHANGED <<active, tokenVars, hand, history>>

\* refresh.blacklist() is a get_or_create: a token that is there already is no error.
Rotate(q) ==
  /\ pc[q] = "rotate"
  /\ black' = black \cup {hand[q]}
  /\ pc' = [pc EXCEPT ![q] = "next"]
  /\ UNCHANGED <<active, session, owner, expired, hand, history>>

IssueNext(q, t) ==
  /\ pc[q] = "next"
  /\ Issue(t, session[hand[q]])
  /\ Done(q)
  /\ UNCHANGED <<active, owner, black, expired, history>>

\* Faulty Leave: answers without token.blacklist().
LeaveWithoutBlacklist(q) ==
  LET s == session[hand[q]] IN
  /\ pc[q] = "logout"
  /\ ended' = ended \cup {s} /\ over' = over \cup {s}
  /\ Done(q)
  /\ UNCHANGED <<active, tokenVars, forked>>

Leave(q) ==
  LET s == session[hand[q]] IN
  /\ pc[q] = "logout"
  /\ black' = black \cup {hand[q]}
  /\ ended' = ended \cup {s} /\ over' = over \cup {s}
  /\ Done(q)
  /\ UNCHANGED <<active, session, owner, expired, forked>>

\* The server stops, or PostgreSQL fails, before the request is through.
Cut(q) ==
  /\ pc[q] # "idle"
  /\ over' = IF pc[q] = "next" THEN over \cup {session[hand[q]]} ELSE over
  /\ Done(q)
  /\ UNCHANGED <<active, tokenVars, forked, ended>>

-----------------------------------------------------------------------------
\* The admin site enables and disables users; deleting one through its model leaves is_active.
SetActive(u) ==
  /\ active' = IF u \in active THEN active \ {u} ELSE active \cup {u}
  /\ UNCHANGED <<tokenVars, requestVars, history>>

\* REFRESH_TOKEN_LIFETIME, with no LEEWAY.  Rotation gives the next token a whole one.
Expire(t) ==
  /\ session[t] # None /\ t \notin expired
  /\ expired' = expired \cup {t}
  /\ over' = IF t \in black THEN over ELSE over \cup {session[t]}
  /\ UNCHANGED <<active, session, owner, black, requestVars, forked, ended>>

\* An expired token that no request holds is never accepted again: its id, and that of a
\* session with no other, may stand for a new one.
Forget(t) ==
  LET gone == {s \in Sessions : Issued(s) = {t}} IN
  /\ t \in expired /\ ~InHand(t)
  /\ session' = [session EXCEPT ![t] = None]
  /\ owner' = [s \in Sessions |-> IF s \in gone THEN None ELSE owner[s]]
  /\ black' = black \ {t} /\ expired' = expired \ {t}
  /\ forked' = forked \ gone /\ ended' = ended \ gone /\ over' = over \ gone
  /\ UNCHANGED <<active, requestVars>>

Proceed(q) ==
  \/ \E s \in Sessions, t \in Tokens : IssueFirst(q, s, t)
  \/ \E t \in Tokens : IssueNext(q, t)
  \/ ReadOwner(q) \/ Rotate(q) \/ Leave(q)

Arrive(q) ==
  \/ \E u \in Users : ReadUser(q, u)
  \/ \E t \in Tokens, step \in {"refresh", "logout"} : TakeToken(q, t, step)

Next ==
  \/ \E q \in Requests : Arrive(q) \/ Proceed(q) \/ Cut(q)
  \/ \E u \in Users : SetActive(u)
  \/ \E t \in Tokens : Expire(t) \/ Forget(t)

\* Requests that arrived go on, and time goes on for every token.
Fairness ==
  /\ \A q \in Requests : WF_vars(Proceed(q))
  /\ \A t \in Tokens : WF_vars(Expire(t)) /\ WF_vars(Forget(t))

Spec == Init /\ [][Next]_vars
FairSpec == Spec /\ Fairness

-----------------------------------------------------------------------------
\* Rotation passes one token on.  A session that was not forked has one that is not
\* blacklisted, or one request that will issue it, never two; and no session is left with
\* none, unless it was logged out, expired or cut off in the middle of a refresh: a
\* refresh that is refused keeps its token.
OneTokenPerSession ==
  \A s \in Sessions :
    LET usable == Issued(s) \ black IN
    /\ s \notin forked => Cardinality(usable) + Cardinality(Owing(s)) <= 1
    /\ Issued(s) # {} /\ s \notin over => usable \cup Owing(s) # {}

\* "Blacklist the refresh token so it can no longer be used" (logout): a session that was
\* logged out has no token left and no request about to issue one, unless a refresh
\* or another logout held the same token past its check at the time.
LoggedOutStaysOut ==
  \A s \in ended \ forked : Issued(s) \subseteq black \cup expired /\ Owing(s) = {}

\* A user who is disabled for good runs out of tokens, however many sessions and requests
\* are under way: rotation does not keep a session alive that its user may not use.
DisabledRunsOut ==
  \A u \in Users :
    <>[](u \notin active) => <>[](\A t \in Tokens : Live(t) => owner[session[t]] # u)

\* The half of it that needs no fairness.  Requests that were let through while the user was
\* active still issue one token each; while the user is disabled no request joins them, and
\* no other token of the user's appears.
Granted(u) ==
  {q \in Requests : \/ pc[q] = "login" /\ hand[q] = u
                    \/ pc[q] \in {"rotate", "next"} /\ owner[session[hand[q]]] = u}
TokensOf(u) == {t \in Tokens : session[t] # None /\ owner[session[t]] = u}

DisabledGetNoMore ==
  [][\A u \in Users \ active :
       /\ Granted(u)' \subseteq Granted(u)
       /\ \/ TokensOf(u)' \subseteq TokensOf(u)
          \/ \E q \in Granted(u) \ Granted(u)', t \in Tokens :
               TokensOf(u)' \subseteq TokensOf(u) \cup {t}]_vars
=============================================================================
