------------------------- MODULE RazorpayCallsProofs -------------------------
(***************************************************************************)
(* Proofs about one call of the Razorpay client, for every number of read  *)
(* retries the settings allow.                                             *)
(***************************************************************************)
EXTENDS RazorpayCalls, TLAPS

\* While a write is being tried it has not been applied, and it never sleeps;
\* while a read is, it applies nothing and has an attempt left.
LoopInv ==
  /\ TypeOK
  /\ applied <= 1
  /\ at # "spent"
  /\ at = "trying" => applied = 0 /\ attempt < Attempts
  /\ at = "sleeping" => applied = 0 /\ ~write /\ attempt + 1 < ReadRetries

\* A call starts with its first attempt.
LEMMA CallKeeps == LoopInv /\ Call => LoopInv'
<1> SUFFICES ASSUME LoopInv, Call PROVE LoopInv'
  OBVIOUS
<1>1. /\ at' = "trying" /\ write' \in BOOLEAN /\ attempt' = 0 /\ applied' = 0
      /\ outcome' = "none" /\ calls' = calls + 1 /\ calls < MaxCalls
  BY DEF Call
<1>2. Attempts' \in Nat /\ Attempts' > 0 /\ ReadRetries \in Nat
  BY RetriesAssumption DEF Attempts
<1> QED BY <1>1, <1>2, RetriesAssumption DEF LoopInv, TypeOK

\* What a try that comes back, with an answer or an error, leaves behind.
LEMMA TryKeeps == LoopInv /\ (Succeed \/ Fail) => LoopInv'
<1> SUFFICES ASSUME LoopInv, Succeed \/ Fail PROVE LoopInv'
  OBVIOUS
<1>1. /\ at = "trying" /\ applied = 0 /\ attempt < Attempts /\ write \in BOOLEAN
      /\ attempt \in 0..ReadRetries /\ ReadRetries \in 1..5
      /\ UNCHANGED <<write, attempt, calls>>
  BY RetriesAssumption DEF LoopInv, TypeOK, Succeed, Fail
<1>2. applied' \in Nat /\ applied' <= 1 /\ (~write => applied' = 0)
  BY <1>1 DEF Succeed, Fail
<1>3. CASE Succeed
  <2>1. at' = "idle" /\ outcome' = "ok"
    BY <1>3 DEF Succeed
  <2> QED BY <1>1, <1>2, <2>1 DEF LoopInv, TypeOK
<1>4. CASE Fail
  <2>1. PICK exc \in Exceptions :
          IF Raises(MapError(exc))
          THEN at' = "idle" /\ outcome' = MapError(exc)
          ELSE at' = "sleeping" /\ UNCHANGED outcome
    BY <1>4 DEF Fail
  <2>2. MapError(exc) \in Errors
    BY DEF MapError, Errors
  <2>3. CASE Raises(MapError(exc))
    BY <1>1, <1>2, <2>1, <2>2, <2>3 DEF LoopInv, TypeOK
  <2>4. CASE ~Raises(MapError(exc))
    <3>1. ~write /\ attempt # ReadRetries - 1 /\ attempt < ReadRetries
      BY <1>1, <2>4 DEF Raises, Retry, Attempts
    <3>2. attempt + 1 < ReadRetries
      BY <1>1, <3>1
    <3> QED BY <1>1, <1>2, <2>1, <2>4, <3>1, <3>2 DEF LoopInv, TypeOK
  <2> QED BY <2>3, <2>4
<1> QED BY <1>3, <1>4

\* A sleep always has a try after it.
LEMMA SleepKeeps == LoopInv /\ Sleep => LoopInv'
<1> SUFFICES ASSUME LoopInv, Sleep PROVE LoopInv'
  OBVIOUS
<1>1. /\ at = "sleeping" /\ applied = 0 /\ ~write /\ attempt + 1 < ReadRetries
      /\ attempt \in 0..ReadRetries /\ ReadRetries \in 1..5
      /\ attempt' = attempt + 1
      /\ at' = IF attempt + 1 < Attempts THEN "trying" ELSE "spent"
      /\ UNCHANGED <<write, applied, outcome, calls>>
  BY RetriesAssumption DEF LoopInv, TypeOK, Sleep
<1>2. Attempts = ReadRetries /\ Attempts' = ReadRetries
  BY <1>1 DEF Attempts, Retry
<1>3. at' = "trying" /\ attempt' \in 0..ReadRetries
  BY <1>1, <1>2
<1> QED BY <1>1, <1>2, <1>3 DEF LoopInv, TypeOK

\* The invariant of the retry loop holds, whatever each try meets.
THEOREM LoopInvariant == Spec => []LoopInv
<1>1. Init => LoopInv
  <2> SUFFICES ASSUME Init PROVE LoopInv
    OBVIOUS
  <2>1. at = "idle" /\ attempt = 0 /\ applied = 0 /\ outcome = "none" /\ calls = 0
    BY DEF Init
  <2>2. write \in BOOLEAN
    BY DEF Init
  <2>3. attempt \in 0..ReadRetries /\ calls \in 0..MaxCalls
    BY <2>1, RetriesAssumption
  <2> QED BY <2>1, <2>2, <2>3 DEF LoopInv, TypeOK
<1>2. LoopInv /\ [Next]_vars => LoopInv'
  <2>1. LoopInv /\ UNCHANGED vars => LoopInv'
    BY DEF vars, LoopInv, TypeOK, Attempts, Retry
  <2> QED BY <2>1, CallKeeps, TryKeeps, SleepKeeps DEF Next, Rest
<1> QED BY <1>1, <1>2, PTL DEF Spec

\* Every variable of a call keeps its type.
THEOREM CallsTypeSafe == Spec => []TypeOK
<1>1. LoopInv => TypeOK
  BY DEF LoopInv
<1> QED BY <1>1, LoopInvariant, PTL

\* No call carries out a write twice.
THEOREM WritesOnce == Spec => []WritesApplyOnce
<1>1. LoopInv => WritesApplyOnce
  BY DEF LoopInv, WritesApplyOnce
<1> QED BY <1>1, LoopInvariant, PTL

\* The error of a failed read is raised inside the loop, never after it.
THEOREM RaisedInside == Spec => []LoopRaisesInside
<1>1. LoopInv => LoopRaisesInside
  BY DEF LoopInv, LoopRaisesInside
<1> QED BY <1>1, LoopInvariant, PTL
=============================================================================
