---------------------------- MODULE RazorpayCalls ----------------------------
(***************************************************************************)
(* One call after another of the Razorpay client                           *)
(* (src/payrecover/razorpay_client.py, _call): reads are tried again while *)
(* they fail in passing, writes never, because a write that timed out may  *)
(* have been applied.  Razorpay and Runner take one call as one step; this *)
(* is what happens inside it.                                              *)
(***************************************************************************)
EXTENDS Integers

CONSTANTS ReadRetries,   \* razorpay_read_retries
          MaxCalls       \* bound: calls

ASSUME RetriesAssumption == ReadRetries \in 1..5 /\ MaxCalls \in Nat

\* What the SDK may raise; unauthorized: the text says so.
Exceptions ==
  [class : {"Timeout", "ConnectionError", "BadRequestError", "GatewayError",
            "ServerError", "RequestException", "other"}, unauthorized : BOOLEAN]

\* Mutant: what no test matches is raised as it came.
MapErrorOrPass(exc) ==
  IF exc.class = "Timeout" THEN "timeout"
  ELSE IF exc.class \in {"ConnectionError", "RequestException"} THEN "unavailable"
  ELSE IF exc.unauthorized THEN "auth"
  ELSE exc.class

\* The class of client error it becomes; the first test that matches wins.
MapError(exc) ==
  IF exc.class = "Timeout" THEN "timeout"
  ELSE IF exc.class = "ConnectionError" THEN "unavailable"
  ELSE IF exc.unauthorized THEN "auth"
  ELSE IF exc.class = "RequestException" THEN "unavailable"
  ELSE "api"

Errors == {"timeout", "unavailable", "auth", "api"}

IsTransient(error) == error \in {"timeout", "unavailable"}

VARIABLES at,        \* between calls, waiting for Razorpay, asleep before a retry, or
                     \* past the loop
          write,     \* the call writes
          attempt,
          applied,   \* tries of a write that Razorpay carried out
          outcome,   \* "ok", or the error the caller sees
          calls

vars == <<at, write, attempt, applied, outcome, calls>>

TypeOK ==
  /\ at \in {"idle", "trying", "sleeping", "spent"}
  /\ write \in BOOLEAN
  /\ attempt \in 0..ReadRetries
  /\ applied \in Nat
  /\ outcome \in Errors \cup {"ok", "none"}
  /\ calls \in 0..MaxCalls

Init ==
  /\ at = "idle" /\ write = FALSE /\ attempt = 0 /\ applied = 0
  /\ outcome = "none" /\ calls = 0

\* Mutant: a write is made with the retries of a read.
RetryAll == TRUE

\* The flag _read and _write call with.
Retry == ~write

Attempts == IF Retry THEN ReadRetries ELSE 1

Call ==
  /\ at = "idle" /\ calls < MaxCalls
  /\ at' = "trying" /\ write' \in BOOLEAN
  /\ attempt' = 0 /\ applied' = 0 /\ outcome' = "none" /\ calls' = calls + 1

Succeed ==
  /\ at = "trying"
  /\ at' = "idle" /\ outcome' = "ok" /\ applied' = applied + IF write THEN 1 ELSE 0
  /\ UNCHANGED <<write, attempt, calls>>

\* Mutant: one retry too many.
RaisesOneLater(error) == ~Retry \/ ~IsTransient(error) \/ attempt = Attempts

Raises(error) == ~Retry \/ ~IsTransient(error) \/ attempt = Attempts - 1

\* An error does not tell whether the write was carried out.
Fail ==
  /\ at = "trying"
  /\ \E exc \in Exceptions :
       LET error == MapError(exc)
       IN IF Raises(error)
          THEN at' = "idle" /\ outcome' = error
          ELSE at' = "sleeping" /\ UNCHANGED outcome
  /\ applied' \in {applied, applied + IF write THEN 1 ELSE 0}
  /\ UNCHANGED <<write, attempt, calls>>

\* Mutant: each retry starts the loop again.
SleepAndRestart ==
  /\ at = "sleeping"
  /\ attempt' = 0 /\ at' = "trying"
  /\ UNCHANGED <<write, applied, outcome, calls>>

\* The sleep (how long is left out), and the head of the loop: with no attempt left
\* it ends.
Sleep ==
  /\ at = "sleeping"
  /\ attempt' = attempt + 1
  /\ at' = IF attempt + 1 < Attempts THEN "trying" ELSE "spent"
  /\ UNCHANGED <<write, applied, outcome, calls>>

Rest == at = "idle" /\ calls = MaxCalls /\ UNCHANGED vars

Next == Call \/ Succeed \/ Fail \/ Sleep \/ Rest

\* The client's timeout makes each try end; sleeping ends.
Spec == Init /\ [][Next]_vars /\ WF_vars(Succeed \/ Fail \/ Sleep)

-----------------------------------------------------------------------------
\* "Reads may retry; writes never do": one call applies a write at most once,
\* although its caller may be told it failed.
WritesApplyOnce == applied <= 1

\* The statements after the loop are not reached, and no call sleeps before it
\* raises: the last sleep is followed by a try.
LoopRaisesInside ==
  /\ at # "spent"
  /\ at = "sleeping" => attempt + 1 < ReadRetries

\* A call comes back, whatever each of its tries meets.
CallsReturn == at # "idle" ~> at = "idle"
=============================================================================
