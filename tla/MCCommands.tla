----------------------------- MODULE MCCommands ------------------------------
(***************************************************************************)
(* Small instances of the commands together for TLC.                       *)
(***************************************************************************)
EXTENDS CommandsProperties

Customer1(reason, amount, profile, pay_on) ==
  [failure |-> [amount_paise |-> amount, error_reason |-> reason],
   truth |-> [profile |-> profile, pay_on_reminder |-> pay_on]]

\* A payer, an opt-out, a climber that waits first, one a human must take.
CommandIntake ==
  {Customer1("insufficient_funds", 10000, "pays_after_reminder", 1),
   Customer1("bank_downtime", 10000, "pays_after_wait", 0),
   Customer1("bank_downtime", 10000, "opts_out", 0),
   Customer1("incorrect_pin", 750000, "high_value", 0)}

\* A generic failure, that the language model reads differently each time, and an opt-out.
ReportIntake ==
  {Customer1("", 10000, "pays_after_reminder", 1),
   Customer1("insufficient_funds", 10000, "opts_out", 0)}

\* One that waits before it opts out, one that pays on the last reminder.
TwoIntake ==
  {Customer1("insufficient_funds", 10000, "pays_after_reminder", 1),
   Customer1("bank_downtime", 10000, "opts_out", 0)}

OneIntake == {Customer1("bank_downtime", 10000, "opts_out", 0)}

\* Seeded, a payer or an opt-out; listed, a failure that is waited for first.
TurnIntake ==
  {Customer1("bank_downtime", 10000, "pays_after_reminder", 1),
   Customer1("bank_downtime", 10000, "opts_out", 0)}

DoubtfulReplies ==
  {[cause |-> "invalid_otp", confidence |-> 90],
   [cause |-> "insufficient_funds", confidence |-> 59]}

NoReplies == {}
NoIds == {}
First1 == {1}
Second2 == {2}
Third3 == {3}
SecondAndThird == {2, 3}
All3 == {1, 2, 3}
DryOnly == {"dry"}
LiveOnly == {"live"}
NeverKilled == {FALSE}
NotForced == {FALSE}
MayForce == BOOLEAN
=============================================================================
