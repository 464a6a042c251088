------------------------------ MODULE MCRunner ------------------------------
(***************************************************************************)
(* Small instances of the `run` command for TLC.  Amounts keep the         *)
(* threshold of the source: 500000 is still the agent's, 750000 (the       *)
(* seeder's high_value) is not.                                            *)
(***************************************************************************)
EXTENDS RunnerRefinement

Start(reason, amount, profile, pay_on) ==
  [failure |-> [amount_paise |-> amount, error_reason |-> reason],
   truth |-> [profile |-> profile, pay_on_reminder |-> pay_on]]

Detected(reason, amount) ==
  [failure |-> [amount_paise |-> amount, error_reason |-> reason],
   truth |-> NoTruth]

\* Every profile, and detected cases on both sides of the threshold.
AllIntake ==
  {Start("insufficient_funds", 10000, "pays_on_first_link", 0),
   Start("invalid_otp", 10000, "pays_after_reminder", 2),
   Start("bank_downtime", 10000, "pays_if_fast", 0),
   Start("issuer_unavailable", 10000, "pays_after_wait", 0),
   Start("bank_downtime", 10000, "opts_out", 0),
   Start("insufficient_funds", 10000, "opts_out", 0),
   Start("bank_downtime", 10000, "never_pays", 0),
   Start("incorrect_pin", 750000, "high_value", 0),
   Start("", 10000, "pays_on_first_link", 0),
   Detected("insufficient_funds", 500000),
   Detected("bank_downtime", 500001)}

\* The longest climb, a payer, an opt-out and an escalation.
FewIntake ==
  {Start("bank_downtime", 10000, "never_pays", 0),
   Start("insufficient_funds", 10000, "pays_after_reminder", 1),
   Start("bank_downtime", 10000, "opts_out", 0),
   Start("incorrect_pin", 750000, "high_value", 0)}

DetectedIntake == {Detected("insufficient_funds", 10000), Detected("bank_downtime", 10000)}

NoReplies == {}

\* A usable cause, a transient one the failure does not name, doubt, and a
\* confidence out of range.
SomeReplies ==
  {[cause |-> "invalid_otp", confidence |-> 90],
   [cause |-> "bank_downtime", confidence |-> 140],
   [cause |-> "insufficient_funds", confidence |-> 59],
   [cause |-> "made_up", confidence |-> -5]}

OneCase == {1}
AllModes == {"dry", "live", "inject"}
DryAndLive == {"dry", "live"}
LiveOnly == {"live"}
AnyKill == BOOLEAN
NeverKilled == {FALSE}
=============================================================================
