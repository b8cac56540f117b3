-------------------------- MODULE EmailVerification --------------------------
(***************************************************************************)
(* Registration and e-mail verification by one-time code:                  *)
(* apps/users/{views,services,models}.py over apps/abstract/redis_storage. *)
(*                                                                         *)
(* All state is about ONE address: accounts whose e-mails differ in case   *)
(* only are found by the same case-insensitive query and share one Redis   *)
(* key, and addresses that differ otherwise share nothing.                 *)
(*                                                                         *)
(*   register  LookUp -> Validate -> CreateUser -> StoreCode -> Enqueue    *)
(*             LookUp -> StoreCode -> Enqueue  (account not verified yet)  *)
(*   resend    Resend -> StoreCode -> Enqueue                              *)
(*   verify    Verify -> Compare -> MarkVerified -> ClearCode              *)
(*                                                                         *)
(* Each arrow separates two database, Redis or broker calls, and requests  *)
(* interleave there.  Redis errors are swallowed by _safe_cache_call.      *)
(***************************************************************************)
EXTENDS Naturals

CONSTANTS Requests,
          Emails,        \* spellings of the address
          Normal,        \* normalize_email: the spelling with its domain in lower case
          Codes,         \* one-time codes; a code may be drawn again
          RedisMayFail, BrokerMayFail,
          None

ASSUME EmailAssumption ==
  /\ Normal \in [Emails -> Emails]
  /\ \A e \in Emails : Normal[Normal[e]] = Normal[e]
  /\ RedisMayFail \in BOOLEAN /\ BrokerMayFail \in BOOLEAN
  /\ None \notin Emails /\ None \notin Codes

VARIABLES
  account,   \* the users table, by the spelling stored
  eldest,    \* the account with the lowest primary key
  stored,    \* the code under the address's Redis key
  mailed,    \* history: the codes handed to the mail queue
  pc,        \* where each request is
  email,     \* the spelling it was sent
  user,      \* the account it works on
  code,      \* the code it dispatches or was sent
  outlasting \* history: requests whose code may outlast the verification of the address

locals == <<email, user, code>>
vars == <<account, eldest, stored, mailed, pc, locals, outlasting>>

Busy == {"validating", "creating", "dispatching", "enqueueing", "comparing", "accepted", "clearing"}
Answers == {"sent", "verified", "alreadyVerified", "refused", "notFound", "failed"}

TypeOK ==
  /\ account \in [Emails -> {"none", "unverified", "verified"}]
  /\ eldest \in Emails \cup {None}
  /\ stored \in Codes \cup {None}
  /\ mailed \subseteq Codes
  /\ pc \in [Requests -> {"idle"} \cup Busy \cup Answers]
  /\ email \in [Requests -> Emails \cup {None}]
  /\ user \in [Requests -> Emails \cup {None}]
  /\ code \in [Requests -> Codes \cup {None}]
  /\ outlasting \subseteq Requests
  /\ \A q \in Requests : pc[q] \in Busy => email[q] \in Emails
  /\ \A q \in Requests : pc[q] \in Busy \ {"validating", "creating"} => user[q] \in Emails
  /\ \A q \in Requests : pc[q] \in Busy \ {"validating", "creating", "dispatching"} => code[q] \in Codes

Init ==
  /\ account = [e \in Emails |-> "none"]
  /\ eldest = None
  /\ stored = None
  /\ mailed = {}
  /\ pc = [q \in Requests |-> "idle"]
  /\ email = [q \in Requests |-> None]
  /\ user = [q \in Requests |-> None]
  /\ code = [q \in Requests |-> None]
  /\ outlasting = {}

-----------------------------------------------------------------------------
Goto(q, label) == pc' = [pc EXCEPT ![q] = label]

\* Faulty Found: an exact match.
FoundExact(e) == IF account[e] # "none" THEN e ELSE None

\* User.objects.filter(email__iexact=e).first(): every spelling finds the oldest account.
Found(e) == eldest

Unverified(u) == u # None /\ account[u] = "unverified"
Verified(u) == u # None /\ account[u] = "verified"

\* A request arrives for spelling e and has found its account.
Arrive(q, e) ==
  /\ pc[q] = "idle"
  /\ email' = [email EXCEPT ![q] = e]
  /\ user' = [user EXCEPT ![q] = Found(e)]

LookUp(q, e) ==
  /\ Arrive(q, e)
  /\ Goto(q, IF Unverified(Found(e)) THEN "dispatching" ELSE "validating")
  /\ UNCHANGED <<account, eldest, stored, mailed, code, outlasting>>

\* The serializer's unique validator compares spellings as sent.
Validate(q) ==
  /\ pc[q] = "validating"
  /\ Goto(q, IF account[email[q]] = "none" THEN "creating" ELSE "refused")
  /\ UNCHANGED <<account, eldest, stored, mailed, locals, outlasting>>

\* Faulty CreateUser: no unique constraint behind the validator.
CreateOver(q) ==
  LET e == Normal[email[q]] IN
  /\ pc[q] = "creating"
  /\ account' = [account EXCEPT ![e] = "unverified"]
  /\ eldest' = IF eldest = None THEN e ELSE eldest
  /\ user' = [user EXCEPT ![q] = e]
  /\ Goto(q, "dispatching")
  /\ UNCHANGED <<stored, mailed, email, code, outlasting>>

\* The unique constraint on the normalized spelling decides; a loser is a 500.
CreateUser(q) ==
  LET e == Normal[email[q]] IN
  /\ pc[q] = "creating"
  /\ \/ /\ account[e] = "none"
        /\ account' = [account EXCEPT ![e] = "unverified"]
        /\ eldest' = IF eldest = None THEN e ELSE eldest
        /\ user' = [user EXCEPT ![q] = e]
        /\ Goto(q, "dispatching")
     \/ /\ account[e] # "none"
        /\ Goto(q, "failed")
        /\ UNCHANGED <<account, eldest, user>>
  /\ UNCHANGED <<stored, mailed, email, code, outlasting>>

\* A failed set is not noticed: the code in hand is mailed, an older one stays stored.
StoreCode(q, c) ==
  /\ pc[q] = "dispatching"
  /\ code' = [code EXCEPT ![q] = c]
  /\ stored' = c \/ (RedisMayFail /\ stored' = stored)
  /\ Goto(q, "enqueueing")
  /\ UNCHANGED <<account, eldest, mailed, email, user, outlasting>>

\* Faulty Enqueue: the message is built with a code of its own.
EnqueueAnother(q) ==
  /\ pc[q] = "enqueueing"
  /\ \E c \in Codes : mailed' = mailed \cup {c}
  /\ Goto(q, "sent")
  /\ UNCHANGED <<account, eldest, stored, locals, outlasting>>

Enqueue(q) ==
  /\ pc[q] = "enqueueing"
  /\ \/ mailed' = mailed \cup {code[q]} /\ Goto(q, "sent")
     \/ BrokerMayFail /\ Goto(q, "failed") /\ UNCHANGED mailed
  /\ UNCHANGED <<account, eldest, stored, locals, outlasting>>

-----------------------------------------------------------------------------
\* Faulty Resend: does not stop at an unknown address.
ResendToAny(q, e) ==
  /\ Arrive(q, e)
  /\ Goto(q, IF Verified(Found(e)) THEN "refused" ELSE "dispatching")
  /\ UNCHANGED <<account, eldest, stored, mailed, code, outlasting>>

Resend(q, e) ==
  /\ Arrive(q, e)
  /\ \/ Found(e) = None /\ Goto(q, "notFound")
     \/ Verified(Found(e)) /\ Goto(q, "refused")
     \/ Unverified(Found(e)) /\ Goto(q, "dispatching")
  /\ UNCHANGED <<account, eldest, stored, mailed, code, outlasting>>

Verify(q, e, c) ==
  /\ Arrive(q, e)
  /\ \/ Found(e) = None /\ Goto(q, "notFound")
     \/ Verified(Found(e)) /\ Goto(q, "alreadyVerified")
     \/ Unverified(Found(e)) /\ Goto(q, "comparing")
  /\ code' = [code EXCEPT ![q] = c]
  /\ UNCHANGED <<account, eldest, stored, mailed, outlasting>>

\* A read that fails counts as no code stored.
Compare(q) ==
  /\ pc[q] = "comparing"
  /\ \/ stored = code[q] /\ Goto(q, "accepted")
     \/ (stored # code[q] \/ RedisMayFail) /\ Goto(q, "refused")
  /\ UNCHANGED <<account, eldest, stored, mailed, locals, outlasting>>

\* save(update_fields=["is_email_verified"])
MarkVerified(q) ==
  /\ pc[q] = "accepted"
  /\ account' = [account EXCEPT ![user[q]] = "verified"]
  /\ outlasting' = outlasting \cup {r \in Requests : pc[r] = "dispatching"}
  /\ Goto(q, "clearing")
  /\ UNCHANGED <<eldest, stored, mailed, locals>>

\* Faulty ClearCode: deletes the code only if it is the one that was shown.
ClearOwnCode(q) ==
  /\ pc[q] = "clearing"
  /\ stored' = IF stored = code[q] THEN None ELSE stored
  /\ Goto(q, "verified")
  /\ UNCHANGED <<account, eldest, mailed, locals, outlasting>>

\* Deletes the address's key, whatever code it holds by now.
ClearCode(q) ==
  /\ pc[q] = "clearing"
  /\ \/ stored' = None /\ UNCHANGED outlasting
     \/ /\ RedisMayFail
        /\ outlasting' = outlasting \cup {r \in Requests : stored # None /\ code[r] = stored}
        /\ UNCHANGED stored
  /\ Goto(q, "verified")
  /\ UNCHANGED <<account, eldest, mailed, locals>>

\* Redis drops the key at the end of its TTL.
Expire ==
  /\ stored # None
  /\ stored' = None
  /\ UNCHANGED <<account, eldest, mailed, pc, locals, outlasting>>

Proceed(q) ==
  \/ Validate(q) \/ CreateUser(q) \/ (\E c \in Codes : StoreCode(q, c)) \/ Enqueue(q)
  \/ Compare(q) \/ MarkVerified(q) \/ ClearCode(q)

Next ==
  \/ \E q \in Requests, e \in Emails : LookUp(q, e) \/ Resend(q, e) \/ (\E c \in Codes : Verify(q, e, c))
  \/ \E q \in Requests : Proceed(q)
  \/ Expire

Spec == Init /\ [][Next]_vars

-----------------------------------------------------------------------------
\* Whatever spelling is verified, only the oldest account of the address ever is: the
\* case-insensitive lookup shields it, and shuts every later account out.
OnlyEldestVerified == \A e \in Emails : account[e] = "verified" => e = eldest

\* Registering never touches an account that exists and nothing undoes a verification,
\* even when several requests passed the same check before any of them wrote.
AccountsOnlyAdvance ==
  [][\A e \in Emails : account[e] # "none" /\ account'[e] # account[e]
       => account[e] = "unverified" /\ account'[e] = "verified"]_vars

\* The code was mailed to the address, is about to be, or the broker failed its request.
Dispatched(c) ==
  \/ c \in mailed
  \/ \E q \in Requests : pc[q] \in {"enqueueing", "failed"} /\ code[q] = c

\* Whoever verifies an account shows a code that was sent to its address: what Redis holds
\* was dispatched, and each verified account was verified by a request that sent such a
\* code for it, however stores, failures, resends and concurrent verifications interleave.
OnlyMailedCodesVerify ==
  /\ stored # None => Dispatched(stored)
  /\ \A e \in Emails : account[e] = "verified" =>
       \E q \in Requests :
         pc[q] \in {"clearing", "verified"} /\ user[q] = e /\ Dispatched(code[q])

\* A verified address has no code left (users/tests.py:79) once no request is about to clear
\* it, but for the code of a request that was between its lookup and its store when the
\* address was verified, of one whose code a failed deletion left, and of a registration
\* of the address under another spelling, which stores its code under the same key.
LeftoverHasCause ==
  Verified(eldest) /\ stored # None =>
    \/ \E q \in Requests : pc[q] = "clearing"
    \/ \E q \in Requests :
         /\ pc[q] \in {"enqueueing", "sent", "failed"} /\ code[q] = stored
         /\ q \in outlasting \/ user[q] # eldest
=============================================================================
