------------------------- MODULE MCEmailVerification -------------------------
(***************************************************************************)
(* Instances of EmailVerification: a spelling in lower case, one with the  *)
(* local part in upper case and one with the domain in upper case.         *)
(***************************************************************************)
EXTENDS EmailVerification

CONSTANTS lower, upperLocal, upperDomain

MCEmails == {lower, upperLocal, upperDomain}
MCNormal == [e \in MCEmails |-> IF e = upperDomain THEN lower ELSE e]
==============================================================================
