---------------------------- MODULE MCMailTasks -----------------------------
EXTENDS MailTasks, TLC

CONSTANTS ann, bob, b1, b2, reminders, code

\* Ann and Bob have a booking each; Ann also waits for a code.
MCGuest == b1 :> ann @@ b2 :> bob
MCCodeFor == reminders :> None @@ code :> ann
=============================================================================
