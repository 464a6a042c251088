---------------------------- MODULE ServiceCalls -----------------------------
(***************************************************************************)
(* One process that asks Razorpay and the language model in turn, never    *)
(* both at once, as a turn of the runner does.                             *)
(***************************************************************************)
EXTENDS RazorpayCalls, LlmCalls

callVars == <<vars, llmVars>>

CallsInit == Init /\ LlmInit

CallsNext ==
  \/ llm = "idle" /\ Next /\ UNCHANGED llmVars
  \/ at = "idle" /\ LlmNext /\ UNCHANGED vars

\* The timeouts of both clients make each try and each question end; sleeping ends.
CallsSpec ==
  /\ CallsInit /\ [][CallsNext]_callVars
  /\ WF_callVars(llm = "idle" /\ (Succeed \/ Fail \/ Sleep) /\ UNCHANGED llmVars)
  /\ WF_callVars(at = "idle" /\ Work /\ UNCHANGED vars)
=============================================================================
