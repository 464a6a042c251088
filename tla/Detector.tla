------------------------------ MODULE Detector -------------------------------
(***************************************************************************)
(* The `detect` command (src/payrecover/detector.py, cli.py): one read of  *)
(* Razorpay's payments, then for each failed one a read of its row and,    *)
(* in a second transaction, a write of what was read with the failure just *)
(* listed.  A detect whose listing fails does nothing and is left out.     *)
(***************************************************************************)
EXTENDS Store

CONSTANTS Payments,     \* case ids "rzp_<payment id>"
          Foreign,      \* payments in a currency other than INR
          MaxListings   \* bound: invocations

ASSUME DetectorAssumption ==
  /\ Payments \subseteq Cases
  /\ Foreign \subseteq Payments
  /\ MaxListings \in Nat

VARIABLES payments,   \* what Razorpay says of each payment; it never changes
          failed,     \* those that have failed so far
          dpc,        \* what detect does next
          listed,     \* failed payments of the listing not ingested yet
          merging,    \* the one being ingested, and its row as read
          listings

detectorVars == <<payments, failed, dpc, listed, merging, listings>>

NoMerge == [id |-> 0, row |-> NoCase]

DetectorTypeOK ==
  /\ payments \in [Payments -> Failure]
  /\ failed \subseteq Payments
  /\ dpc \in {"idle", "read", "write"}
  /\ listed \subseteq Payments
  /\ merging \in [id : Nat, row : Case \cup {NoCase}]
  /\ listings \in 0..MaxListings

DetectorInit ==
  /\ failed = {} /\ dpc = "idle" /\ listed = {} /\ merging = NoMerge /\ listings = 0

\* A customer's payment fails, whatever the commands do meanwhile.
FailPayment ==
  /\ \E c \in Payments \ failed : failed' = failed \cup {c}
  /\ UNCHANGED <<storeVars, payments, dpc, listed, merging, listings>>

\* Payments in any other state than failed are passed over.
ListPayments ==
  /\ dpc = "idle" /\ listings < MaxListings
  /\ dpc' = "read" /\ listed' = failed /\ listings' = listings + 1
  /\ UNCHANGED <<storeVars, payments, failed, merging>>

\* get_case: a terminal row is kept as it is, any other is merged next.
ReadRow(c) ==
  /\ dpc = "read" /\ c \in listed \ Foreign
  /\ IF cases[c] # NoCase /\ cases[c].status \in Terminal
     THEN listed' = listed \ {c} /\ UNCHANGED <<dpc, merging>>
     ELSE /\ dpc' = "write" /\ merging' = [id |-> c, row |-> cases[c]]
          /\ UNCHANGED listed
  /\ UNCHANGED <<storeVars, payments, failed, listings>>

\* A payment not in INR is no PaymentFailure: the error ends the command there.
RejectForeign(c) ==
  /\ dpc = "read" /\ c \in listed \cap Foreign
  /\ dpc' = "idle" /\ listed' = {}
  /\ UNCHANGED <<storeVars, payments, failed, merging, listings>>

\* Mutant: a case in progress is offered its link anew.
MergedForgetting(id, row, failure) ==
  IF row = NoCase THEN NewCase(id, failure)
  ELSE [row EXCEPT !.failure = failure, !.active_payment_link_id = NoLink]

\* Mutant: what a re-detect finds is a new case.
MergedAnew(id, row, failure) == NewCase(id, failure)

Merged(id, row, failure) ==
  IF row = NoCase THEN NewCase(id, failure) ELSE [row EXCEPT !.failure = failure]

\* Mutant: a case without a row is returned and not written.
WriteKnownRow ==
  /\ dpc = "write"
  /\ IF merging.row = NoCase THEN UNCHANGED cases
     ELSE Upsert(Merged(merging.id, merging.row, payments[merging.id]))
  /\ dpc' = "read" /\ listed' = listed \ {merging.id} /\ merging' = NoMerge
  /\ UNCHANGED <<truths, audit, payments, failed, listings>>

\* upsert_case, of the row as it was read.
WriteRow ==
  /\ dpc = "write"
  /\ Upsert(Merged(merging.id, merging.row, payments[merging.id]))
  /\ dpc' = "read" /\ listed' = listed \ {merging.id} /\ merging' = NoMerge
  /\ UNCHANGED <<truths, audit, payments, failed, listings>>

ReturnDetect ==
  /\ dpc = "read" /\ listed = {}
  /\ dpc' = "idle"
  /\ UNCHANGED <<storeVars, payments, failed, listed, merging, listings>>

DetectStep ==
  (\E c \in Payments : ReadRow(c) \/ RejectForeign(c)) \/ WriteRow \/ ReturnDetect

DieDetecting ==
  /\ dpc # "idle"
  /\ dpc' = "idle" /\ listed' = {} /\ merging' = NoMerge
  /\ UNCHANGED <<storeVars, payments, failed, listings>>
=============================================================================
