---------------------- MODULE EmailVerificationProofs ----------------------
(***************************************************************************)
(* Theorems about EmailVerification, for any number of requests, spellings *)
(* and codes, with or without failures of Redis and of the broker.         *)
(***************************************************************************)
EXTENDS EmailVerification, TLAPS

\* The oldest account exists once any does, and verify requests work on it.
EldestOK ==
  /\ eldest # None => account[eldest] # "none"
  /\ \A e \in Emails : account[e] # "none" => eldest # None
  /\ \A q \in Requests : pc[q] \in {"comparing", "accepted", "clearing"} => user[q] = eldest

\* A request that verified an account keeps the code it was sent.
CodesKept == \A q \in Requests : pc[q] = "verified" => code[q] \in Codes

Inv == TypeOK /\ EldestOK /\ OnlyEldestVerified /\ CodesKept

LEMMA InvInit == Init => Inv
BY EmailAssumption DEF Init, Inv, TypeOK, EldestOK, OnlyEldestVerified, CodesKept, Busy, Answers

LEMMA InvStep == Inv /\ [Next]_vars => Inv'
<1> SUFFICES ASSUME Inv, [Next]_vars PROVE Inv'
  OBVIOUS
<1> USE EmailAssumption DEF Inv, TypeOK, EldestOK, OnlyEldestVerified, CodesKept, Busy, Answers,
        Goto, Found, Unverified, Verified, locals
<1>1. ASSUME NEW q \in Requests, NEW e \in Emails, LookUp(q, e) PROVE Inv'
  BY <1>1 DEF LookUp, Arrive
<1>2. ASSUME NEW q \in Requests, NEW e \in Emails, Resend(q, e) PROVE Inv'
  BY <1>2 DEF Resend, Arrive
<1>3. ASSUME NEW q \in Requests, NEW e \in Emails, NEW c \in Codes, Verify(q, e, c) PROVE Inv'
  BY <1>3 DEF Verify, Arrive
<1>4. ASSUME NEW q \in Requests, Validate(q) PROVE Inv'
  BY <1>4 DEF Validate
<1>5. ASSUME NEW q \in Requests, CreateUser(q) PROVE Inv'
  BY <1>5 DEF CreateUser
<1>6. ASSUME NEW q \in Requests, NEW c \in Codes, StoreCode(q, c) PROVE Inv'
  BY <1>6 DEF StoreCode
<1>7. ASSUME NEW q \in Requests, Enqueue(q) PROVE Inv'
  BY <1>7 DEF Enqueue
<1>8. ASSUME NEW q \in Requests, Compare(q) PROVE Inv'
  BY <1>8 DEF Compare
<1>9. ASSUME NEW q \in Requests, MarkVerified(q) PROVE Inv'
  BY <1>9 DEF MarkVerified
<1>10. ASSUME NEW q \in Requests, ClearCode(q) PROVE Inv'
  BY <1>10 DEF ClearCode
<1>11. CASE Expire
  BY <1>11 DEF Expire
<1>12. CASE UNCHANGED vars
  BY <1>12 DEF vars
<1> QED
  BY <1>1, <1>2, <1>3, <1>4, <1>5, <1>6, <1>7, <1>8, <1>9, <1>10, <1>11, <1>12 DEF Next, Proceed

LEMMA InvCorrect == Spec => []Inv
BY InvInit, InvStep, PTL DEF Spec

\* Types, and the local variables each waiting request needs.
THEOREM TypeCorrect == Spec => []TypeOK
<1>1. Inv => TypeOK
  BY DEF Inv
<1> QED
  BY <1>1, InvCorrect, PTL

\* No account but the oldest of its address is ever verified.
THEOREM OnlyTheEldest == Spec => []OnlyEldestVerified
<1>1. Inv => OnlyEldestVerified
  BY DEF Inv
<1> QED
  BY <1>1, InvCorrect, PTL

-----------------------------------------------------------------------------
\* Why verified accounts showed a mailed code: the request that marks one compared its
\* code with a stored, hence dispatched, one, and what was dispatched stays so.
AcceptedOK == \A q \in Requests : pc[q] = "accepted" => Dispatched(code[q])

CodeInv == OnlyMailedCodesVerify /\ AcceptedOK

LEMMA DispatchedLasts ==
  ASSUME Inv, [Next]_vars, NEW c \in Codes, Dispatched(c)
  PROVE  Dispatched(c)'
<1> USE DEF Inv, TypeOK, Busy, Answers, Goto, locals, Dispatched
<1>1. ASSUME NEW q \in Requests, NEW e \in Emails,
             LookUp(q, e) \/ Resend(q, e) \/ (\E k \in Codes : Verify(q, e, k))
      PROVE  Dispatched(c)'
  BY <1>1 DEF LookUp, Resend, Verify, Arrive
<1>2. ASSUME NEW q \in Requests, Validate(q) \/ CreateUser(q) \/ Compare(q) PROVE Dispatched(c)'
  BY <1>2 DEF Validate, CreateUser, Compare
<1>3. ASSUME NEW q \in Requests, NEW k \in Codes, StoreCode(q, k) PROVE Dispatched(c)'
  BY <1>3 DEF StoreCode
<1>4. ASSUME NEW q \in Requests, Enqueue(q) PROVE Dispatched(c)'
  BY <1>4 DEF Enqueue
<1>5. ASSUME NEW q \in Requests, MarkVerified(q) \/ ClearCode(q) PROVE Dispatched(c)'
  BY <1>5 DEF MarkVerified, ClearCode
<1>6. CASE Expire \/ UNCHANGED vars
  BY <1>6 DEF Expire, vars
<1> QED
  BY <1>1, <1>2, <1>3, <1>4, <1>5, <1>6 DEF Next, Proceed

\* Requests that have verified an account stay as they are.
LEMMA VerifierLasts ==
  ASSUME Inv, [Next]_vars, NEW q \in Requests, pc[q] \in {"accepted", "clearing", "verified"}
  PROVE  /\ user'[q] = user[q] /\ code'[q] = code[q]
         /\ pc[q] \in {"clearing", "verified"} => pc'[q] \in {"clearing", "verified"}
<1> USE DEF Inv, TypeOK, Goto, locals
<1>1. CASE \E r \in Requests, e \in Emails :
             LookUp(r, e) \/ Resend(r, e) \/ (\E k \in Codes : Verify(r, e, k))
  BY <1>1 DEF LookUp, Resend, Verify, Arrive
<1>2. CASE \E r \in Requests : Proceed(r)
  BY <1>2 DEF Proceed, Validate, CreateUser, StoreCode, Enqueue, Compare, MarkVerified, ClearCode
<1>3. CASE Expire \/ UNCHANGED vars
  BY <1>3 DEF Expire, vars
<1> QED
  BY <1>1, <1>2, <1>3 DEF Next

LEMMA CodeStep == Inv /\ CodeInv /\ [Next]_vars => CodeInv'
<1> SUFFICES ASSUME Inv, CodeInv, [Next]_vars PROVE CodeInv'
  OBVIOUS
<1> USE DEF Inv, TypeOK
<1>1. ASSUME stored' # None PROVE Dispatched(stored)'
  <2>1. CASE stored' = stored
    BY <1>1, <2>1, DispatchedLasts DEF CodeInv, OnlyMailedCodesVerify
  <2>2. CASE stored' # stored
    <3>1. PICK q \in Requests, c \in Codes : StoreCode(q, c)
      BY <1>1, <2>2 DEF Next, Proceed, LookUp, Resend, Verify, Arrive, Validate, CreateUser, Enqueue,
                        Compare, MarkVerified, ClearCode, Expire, vars
    <3>2. stored' = c /\ pc'[q] = "enqueueing" /\ code'[q] = c
      BY <2>2, <3>1 DEF StoreCode, Goto
    <3> QED
      BY <3>2 DEF Dispatched
  <2> QED
    BY <2>1, <2>2
<1>2. ASSUME NEW q \in Requests, pc'[q] = "accepted" PROVE Dispatched(code[q])' /\ code'[q] = code[q]
  <2>1. CASE pc[q] = "accepted"
    <3>1. code[q] \in Codes
      BY <2>1 DEF Busy
    <3> QED
      BY <2>1, <3>1, VerifierLasts, DispatchedLasts DEF CodeInv, AcceptedOK, Dispatched
  <2>2. CASE pc[q] # "accepted"
    <3>1. Compare(q)
      BY <1>2, <2>2 DEF Next, Proceed, LookUp, Resend, Verify, Arrive, Validate, CreateUser, StoreCode,
                        Enqueue, Compare, MarkVerified, ClearCode, Expire, vars, Goto
    <3>2. stored = code[q] /\ code' = code /\ stored \in Codes
      BY <1>2, <3>1, EmailAssumption DEF Compare, Goto, locals, Busy
    <3>3. Dispatched(code[q])
      BY <3>2, EmailAssumption DEF CodeInv, OnlyMailedCodesVerify
    <3> QED
      BY <3>2, <3>3, DispatchedLasts DEF Dispatched
  <2> QED
    BY <2>1, <2>2
<1>3. ASSUME NEW e \in Emails, account'[e] = "verified"
      PROVE  \E q \in Requests :
               pc'[q] \in {"clearing", "verified"} /\ user'[q] = e /\ Dispatched(code[q])'
  <2>1. CASE account[e] = "verified"
    <3>1. PICK q \in Requests :
            pc[q] \in {"clearing", "verified"} /\ user[q] = e /\ Dispatched(code[q])
      BY <2>1 DEF CodeInv, OnlyMailedCodesVerify
    <3>2. code[q] \in Codes
      BY <3>1 DEF Inv, CodesKept, Busy
    <3> QED
      BY <3>1, <3>2, VerifierLasts, DispatchedLasts DEF Dispatched
  <2>2. CASE account[e] # "verified"
    <3>1. PICK q \in Requests : MarkVerified(q) /\ user[q] = e
      BY <1>3, <2>2 DEF Next, Proceed, LookUp, Resend, Verify, Arrive, Validate, CreateUser, StoreCode,
                        Enqueue, Compare, MarkVerified, ClearCode, Expire, vars, Busy
    <3>2. pc[q] = "accepted" /\ pc'[q] = "clearing" /\ code[q] \in Codes /\ Dispatched(code[q])
      BY <3>1 DEF MarkVerified, Goto, Busy, CodeInv, AcceptedOK
    <3> QED
      BY <3>1, <3>2, VerifierLasts, DispatchedLasts DEF Dispatched
  <2> QED
    BY <2>1, <2>2
<1> QED
  BY <1>1, <1>2, <1>3 DEF CodeInv, OnlyMailedCodesVerify, AcceptedOK

\* Whatever spelling a request is sent and whatever fails, an account is verified only by a
\* code that was dispatched to its address.
THEOREM MailedCodesVerify == Spec => []OnlyMailedCodesVerify
<1>1. Init => CodeInv
  BY DEF Init, CodeInv, OnlyMailedCodesVerify, AcceptedOK
<1>2. CodeInv => OnlyMailedCodesVerify
  BY DEF CodeInv
<1> QED
  BY <1>1, <1>2, CodeStep, InvCorrect, PTL DEF Spec

-----------------------------------------------------------------------------
LEMMA AdvanceStep ==
  ASSUME Inv, Next, NEW e \in Emails, account[e] # "none", account'[e] # account[e]
  PROVE  account[e] = "unverified" /\ account'[e] = "verified"
<1> USE DEF Inv, TypeOK
<1>1. ASSUME NEW q \in Requests, MarkVerified(q)
      PROVE  account[e] = "unverified" /\ account'[e] = "verified"
  BY <1>1 DEF MarkVerified
<1>2. ASSUME NEW q \in Requests, CreateUser(q) PROVE FALSE
  BY <1>2 DEF CreateUser
<1>3. ASSUME UNCHANGED account PROVE FALSE
  BY <1>3
<1>4. CASE \E q \in Requests, a \in Emails : LookUp(q, a) \/ Resend(q, a) \/ (\E c \in Codes : Verify(q, a, c))
  BY <1>3, <1>4 DEF LookUp, Resend, Verify
<1>5. CASE \E q \in Requests : Validate(q) \/ (\E c \in Codes : StoreCode(q, c)) \/ Enqueue(q)
                                 \/ Compare(q) \/ ClearCode(q)
  BY <1>3, <1>5 DEF Validate, StoreCode, Enqueue, Compare, ClearCode
<1>6. CASE Expire
  BY <1>3, <1>6 DEF Expire
<1> QED
  BY <1>1, <1>2, <1>4, <1>5, <1>6 DEF Next, Proceed

\* An existing account only ever goes from unverified to verified.
THEOREM AccountsAdvance == Spec => AccountsOnlyAdvance
<1>1. Inv /\ [Next]_vars =>
        [\A e \in Emails : account[e] # "none" /\ account'[e] # account[e]
           => account[e] = "unverified" /\ account'[e] = "verified"]_vars
  BY AdvanceStep
<1> QED
  BY <1>1, InvCorrect, PTL DEF Spec, AccountsOnlyAdvance
-----------------------------------------------------------------------------
\* Why every leftover has its cause: the stored code is some request's, and since the
\* address is verified only requests that were already past their lookup store one for
\* the account that was verified.
StoredOK ==
  stored # None =>
    \E q \in Requests :
      /\ pc[q] \in {"enqueueing", "sent", "failed"} /\ code[q] = stored
      /\ Verified(eldest) =>
           \/ \E r \in Requests : pc[r] = "clearing"
           \/ q \in outlasting \/ user[q] # eldest

DispatchingOK ==
  \A q \in Requests :
    pc[q] = "dispatching" /\ Verified(eldest) => q \in outlasting \/ user[q] # eldest

LeftoverInv == StoredOK /\ DispatchingOK

LEMMA DispatchingStep == Inv /\ LeftoverInv /\ [Next]_vars => DispatchingOK'
<1> SUFFICES ASSUME Inv, LeftoverInv, [Next]_vars PROVE DispatchingOK'
  OBVIOUS
<1> USE EmailAssumption DEF Inv, TypeOK, EldestOK, Busy, Answers, LeftoverInv, DispatchingOK,
        Goto, Verified, locals
<1>1. ASSUME NEW q \in Requests, NEW e \in Emails,
             LookUp(q, e) \/ Resend(q, e) \/ (\E c \in Codes : Verify(q, e, c))
      PROVE  DispatchingOK'
  BY <1>1 DEF LookUp, Resend, Verify, Arrive, Found, Unverified
<1>2. ASSUME NEW q \in Requests, CreateUser(q) PROVE DispatchingOK'
  BY <1>2 DEF CreateUser
<1>3. ASSUME NEW q \in Requests, MarkVerified(q) PROVE DispatchingOK'
  BY <1>3 DEF MarkVerified
<1>4. ASSUME NEW q \in Requests,
             Validate(q) \/ (\E c \in Codes : StoreCode(q, c)) \/ Enqueue(q) \/ Compare(q)
      PROVE  DispatchingOK'
  BY <1>4 DEF Validate, StoreCode, Enqueue, Compare
<1>5. ASSUME NEW q \in Requests, ClearCode(q) PROVE DispatchingOK'
  BY <1>5 DEF ClearCode
<1>6. CASE Expire \/ UNCHANGED vars
  BY <1>6 DEF Expire, vars
<1> QED
  BY <1>1, <1>2, <1>3, <1>4, <1>5, <1>6 DEF Next, Proceed

LEMMA StoredStep == Inv /\ LeftoverInv /\ [Next]_vars => StoredOK'
<1> SUFFICES ASSUME Inv, LeftoverInv, [Next]_vars PROVE StoredOK'
  OBVIOUS
<1> USE EmailAssumption DEF Inv, TypeOK, EldestOK, Busy, Answers, LeftoverInv, StoredOK,
        Goto, Verified, locals
<1>1. ASSUME NEW q \in Requests, NEW e \in Emails,
             LookUp(q, e) \/ Resend(q, e) \/ (\E c \in Codes : Verify(q, e, c))
      PROVE  StoredOK'
  BY <1>1 DEF LookUp, Resend, Verify, Arrive
<1>2. ASSUME NEW q \in Requests, CreateUser(q) PROVE StoredOK'
  BY <1>2 DEF CreateUser
<1>3. ASSUME NEW q \in Requests, NEW c \in Codes, StoreCode(q, c) PROVE StoredOK'
  BY <1>3 DEF StoreCode, DispatchingOK
<1>4. ASSUME NEW q \in Requests, Validate(q) \/ Enqueue(q) \/ Compare(q) PROVE StoredOK'
  BY <1>4 DEF Validate, Enqueue, Compare
<1>5. ASSUME NEW q \in Requests, MarkVerified(q) PROVE StoredOK'
  BY <1>5 DEF MarkVerified
<1>6. ASSUME NEW q \in Requests, ClearCode(q) PROVE StoredOK'
  BY <1>6 DEF ClearCode
<1>7. CASE Expire \/ UNCHANGED vars
  BY <1>7 DEF Expire, vars
<1> QED
  BY <1>1, <1>2, <1>3, <1>4, <1>5, <1>6, <1>7 DEF Next, Proceed

\* A code that is left under a verified address is about to be cleared or was stored by a
\* request that overlapped the verification, left by a failed deletion, or stored for
\* another spelling: there is no other way for a code to outlast the verification.
THEOREM LeftoversExplained == Spec => []LeftoverHasCause
<1>1. Init => LeftoverInv
  BY DEF Init, LeftoverInv, StoredOK, DispatchingOK
<1>2. Inv /\ LeftoverInv /\ [Next]_vars => LeftoverInv'
  BY DispatchingStep, StoredStep DEF LeftoverInv
<1>3. LeftoverInv => LeftoverHasCause
  BY DEF LeftoverInv, StoredOK, LeftoverHasCause
<1> QED
  BY <1>1, <1>2, <1>3, InvCorrect, PTL DEF Spec
=============================================================================
