-------------------------------- MODULE Outbox --------------------------------
(***************************************************************************)
(* What the queue of confirmation emails promises when one worker serves   *)
(* it, without rows, locks, rounds or attempts: what was asked for stays   *)
(* open until it ends as sent or as failed; mails go out only while it is  *)
(* open; "sent" has a mail behind it; "failed" is the end, and so is       *)
(* "sent" until an answer is lost.  As long as nothing went wrong there is *)
(* one mail at the most, and "failed" means that there was none.           *)
(* Module Notifications implements this contract.                          *)
(***************************************************************************)
EXTENDS Naturals

CONSTANT Order

VARIABLES
  outcome,   \* "none" before the mail is asked for, "open", "sent" or "failed"
  mails,     \* how many mails about the order went out
  calm,      \* nothing was lost, died or took too long
  answered   \* no answer was lost

outboxVars == <<outcome, mails, calm, answered>>

Init ==
  /\ outcome = [o \in Order |-> "none"]
  /\ mails = [o \in Order |-> 0]
  /\ calm = TRUE
  /\ answered = TRUE

Open(o) == outcome[o] = "open"

\* Things may go wrong, and stay so; a lost answer is one of them.
Trouble ==
  /\ calm' \in {calm, FALSE} /\ answered' \in {answered, FALSE}
  /\ calm' => answered'

Ask(o) ==
  /\ outcome[o] = "none"
  /\ outcome' = [outcome EXCEPT ![o] = "open"]
  /\ UNCHANGED <<mails, calm, answered>>

\* The mail goes out, and whether it did may remain unknown.
Mail(o) ==
  /\ Open(o)
  /\ calm => mails[o] = 0
  /\ mails' = [mails EXCEPT ![o] = @ + 1]
  /\ Trouble /\ UNCHANGED outcome

\* The outcome is recorded, and whether it was may remain unknown.
End(o, result) ==
  /\ Open(o)
  /\ outcome' = [outcome EXCEPT ![o] = result]
  /\ Trouble /\ UNCHANGED mails

Confirm(o) == mails[o] > 0 /\ End(o, "sent")

GiveUp(o) == (calm => mails[o] = 0) /\ End(o, "failed")

\* Who did not hear that "sent" was recorded takes the mail for failed.
Reopen(o) ==
  /\ outcome[o] = "sent" /\ ~answered
  /\ outcome' = [outcome EXCEPT ![o] = "open"]
  /\ Trouble /\ UNCHANGED mails

Disturb == Trouble /\ UNCHANGED <<outcome, mails>>

Next ==
  \/ \E o \in Order : Ask(o) \/ Mail(o) \/ Confirm(o) \/ GiveUp(o) \/ Reopen(o)
  \/ Disturb

Spec == Init /\ [][Next]_outboxVars
===============================================================================
