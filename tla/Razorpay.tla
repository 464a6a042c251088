------------------------------ MODULE Razorpay ------------------------------
(***************************************************************************)
(* The Razorpay test-mode service, as the write calls of                   *)
(* src/payrecover/razorpay_client.py meet it.  A write is never retried by *)
(* the client: its caller sees one reply, or one error that does not tell  *)
(* whether the write was applied.                                          *)
(***************************************************************************)
EXTENDS Actions, Store

CONSTANTS MaxFaults,    \* bound: writes whose request or answer is lost
          UniqueRefs,   \* the service refuses a reference_id it has seen
          BlankIds      \* the service may answer a creation without an id

ASSUME RazorpayAssumption ==
  /\ MaxFaults \in Nat
  /\ UniqueRefs \in BOOLEAN
  /\ BlankIds \in BOOLEAN

VARIABLES created,    \* live links the service has made for a case
          notified,   \* reminders the service has sent for a case
          refs,       \* attempt numbers of the reference ids seen for a case
          faults      \* calls lost so far

razorpayVars == <<created, notified, refs, faults>>

RazorpayTypeOK ==
  /\ created \in [Cases -> Nat]
  /\ notified \in [Cases -> Nat]
  /\ refs \in [Cases -> SUBSET Nat]
  /\ faults \in 0..MaxFaults

RazorpayInit ==
  /\ created = [c \in Cases |-> 0]
  /\ notified = [c \in Cases |-> 0]
  /\ refs = [c \in Cases |-> {}]
  /\ faults = 0

Served(id) == [ok |-> TRUE, id |-> id]

ClientError == [ok |-> FALSE, id |-> NoLink]

Lose == faults < MaxFaults /\ faults' = faults + 1

Accepts(c, attempt) == UniqueRefs => attempt \notin refs[c]

MakeLink(c, attempt) ==
  /\ Accepts(c, attempt)
  /\ created' = [created EXCEPT ![c] = @ + 1]
  /\ refs' = [refs EXCEPT ![c] = @ \cup {attempt}]
  /\ UNCHANGED notified

SendReminder(c) ==
  /\ notified' = [notified EXCEPT ![c] = @ + 1]
  /\ UNCHANGED <<created, refs>>

\* A payment link creation and the reply its caller sees: served, applied with
\* the answer lost, lost on the way, or refused.
CreatePaymentLink(c, attempt, reply) ==
  \/ /\ MakeLink(c, attempt)
     /\ reply \in {Served(LiveLink)} \cup (IF BlankIds THEN {Served(BlankLink)} ELSE {})
     /\ UNCHANGED faults
  \/ MakeLink(c, attempt) /\ Lose /\ reply = ClientError
  \/ Lose /\ reply = ClientError /\ UNCHANGED <<created, notified, refs>>
  \/ ~Accepts(c, attempt) /\ reply = ClientError /\ UNCHANGED razorpayVars

\* A reminder on a link, likewise; an id the service never gave is refused.
NotifyPaymentLink(c, link, reply) ==
  \/ /\ link = LiveLink
     /\ SendReminder(c)
     /\ reply = Served(link)
     /\ UNCHANGED faults
  \/ link = LiveLink /\ SendReminder(c) /\ Lose /\ reply = ClientError
  \/ Lose /\ reply = ClientError /\ UNCHANGED <<created, notified, refs>>
  \/ link # LiveLink /\ reply = ClientError /\ UNCHANGED razorpayVars
=============================================================================
