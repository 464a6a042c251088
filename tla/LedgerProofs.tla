---------------------------- MODULE LedgerProofs -----------------------------
(***************************************************************************)
(* Proofs that the books balance: how many audit rows, payments and        *)
(* contacts may be missing from what they should agree with, and that each *)
(* one missing is paid for by a death or a lost call.                      *)
(***************************************************************************)
EXTENDS SoloProofs, FiniteSetTheorems

-----------------------------------------------------------------------------
(* What a step writes on the trail, and of which case.                      *)

\* While a process works on a case it goes on working on that case.
LEMMA SameCase ==
  ASSUME NEW F, Held(F), NEW p \in Procs, Turn(p) \/ EndOfTurn(p) \/ LogDetected(p)
  PROVE  cur'[p].case_id = cur[p].case_id
<1> USE LocalTypes
<1>1. CASE \/ ExecuteLocally(p) \/ ExecuteInjected(p)
           \/ ExecuteCreate(p) \/ ExecuteNotify(p)
  <2>1. ClientError \in Reply /\ Served(DryLink) \in Reply
    BY DEF ClientError, Served, Reply, LinkId
  <2>2. PICK reply \in Reply : Execute(p, reply)
    BY <1>1, <2>1 DEF ExecuteLocally, ExecuteInjected, ExecuteCreate, ExecuteNotify
  <2>3. cur'[p] = Dispatch(action[p], cur[p], reply).case
    BY <2>2 DEF Execute, Held, TypeOK
  <2> QED BY <2>3, DispatchId
<1>2. CASE StopKilled(p)
  <2>1. cur' = [cur EXCEPT ![p] = [cur[p] EXCEPT !.status = "stopped"]]
    BY <1>2 DEF StopKilled
  <2>2. cur'[p] = [cur[p] EXCEPT !.status = "stopped"]
    BY <2>1 DEF Held, TypeOK
  <2> QED BY <2>2, StatusUpdate DEF CaseStatus
<1>3. CASE AskCustomer(p)
  <2> DEFINE new == Answered(cur[p], Respond(cur[p], action[p], truths[cur[p].case_id]))
  <2>1. cur'[p] = new
    BY <1>3 DEF AskCustomer, Held, TypeOK
  <2> QED BY <2>1, AnswerStatus
<1>4. CASE UNCHANGED cur
  BY <1>4
<1> QED BY <1>1, <1>2, <1>3, <1>4
        DEF Turn, EndOfTurn, LogDetected, Diagnose, LogVerdict, LogAttempt, RefuseKilled,
            Save, LogResult, ParkFailed, NoCustomer, SaveAnswer, CloseCase, NextTurn,
            ParkExpired, caseVars

\* The trail only ever grows by rows of the case at hand, under the number of
\* the invocation that writes them.
LEMMA OneEvent ==
  ASSUME NEW p \in Procs, Step(p) \/ Crash(p) \/ StartRun(p)
  PROVE  UNCHANGED audit \/ \E e : Append(e) /\ e.by = job[p].by
<1>1. CASE \/ Crash(p) \/ StartRun(p) \/ OpenCase(p) \/ Return(p) \/ RefuseKilled(p)
           \/ ExecuteLocally(p) \/ ExecuteInjected(p) \/ ExecuteCreate(p)
           \/ ExecuteNotify(p) \/ Save(p) \/ StopKilled(p) \/ NoCustomer(p)
           \/ SaveAnswer(p) \/ NextTurn(p)
  BY <1>1 DEF Crash, StartRun, OpenCase, Return, RefuseKilled, ExecuteLocally,
       ExecuteInjected, ExecuteCreate, ExecuteNotify, Save, StopKilled, NoCustomer,
       SaveAnswer, NextTurn, storeVars
<1>2. CASE \/ LogVerdict(p) \/ LogAttempt(p) \/ LogResult(p) \/ ParkFailed(p)
           \/ CloseCase(p) \/ AskCustomer(p)
  <2>1. PICK type, what, link : Log(p, type, what, link)
    BY <1>2 DEF LogVerdict, LogAttempt, LogResult, ParkFailed, CloseCase, AskCustomer
  <2> QED BY <2>1 DEF Log, Event
<1>3. CASE SkipTerminal(p) \/ LogDetected(p) \/ Diagnose(p) \/ ParkExpired(p)
  <2>1. PICK c, type, turn, what, link : Append(Event(c, type, job[p].by, turn, what, link))
    BY <1>3 DEF SkipTerminal, LogDetected, Diagnose, ParkExpired
  <2> QED BY <2>1 DEF Event
<1> QED BY <1>1, <1>2, <1>3 DEF Step, Turn, EndOfTurn

-----------------------------------------------------------------------------
(* Attempts and their results, whatever processes overlap.                  *)

InFlight == {p \in Procs : pc[p] \in {"dispatch", "save", "result"}}

ResultsOf(e) ==
  {f \in audit : /\ f.event_type = "action_result"
                 /\ f.case_id = e.case_id /\ f.by = e.by /\ f.step = e.step}

Unanswered == {e \in audit : e.event_type = "action_attempted" /\ ResultsOf(e) = {}}

\* Where a turn still has its attempt, or its result, to write.
ToAttempt == {"verdict", "attempt"}
ToResult == ToAttempt \cup {"dispatch", "save", "result"}

\* A row of turn n on case c is not on the trail while it is still due.
Due(p, c, n, before) ==
  c \in todo[p] =>
    /\ pc[p] # "next" /\ c = cur[p].case_id
    /\ n <= step[p]
    /\ pc[p] \in before => n < step[p]

\* What p has on the trail already is of its earlier turns.
RowDue(p, e) ==
  /\ e.event_type = "action_attempted" => Due(p, e.case_id, e.step, ToAttempt)
  /\ e.event_type = "action_result" => Due(p, e.case_id, e.step, ToResult)

\* An invocation has its number to itself, and has written the attempt that it
\* is executing.
OwnRows(p) ==
  pc[p] # "idle" =>
    /\ job[p].by <= runs
    /\ \A q \in Procs \ {p} : pc[q] # "idle" => job[q].by # job[p].by
    /\ \A e \in audit : e.by = job[p].by => RowDue(p, e)
    /\ pc[p] # "next" => cur[p].case_id \in todo[p]
    /\ p \in InFlight => \E e \in audit : /\ e.event_type = "action_attempted"
                                          /\ e.case_id = cur[p].case_id
                                          /\ e.by = job[p].by /\ e.step = step[p]

AnswerInv ==
  /\ \A e \in audit : e.by <= runs
  /\ \A p \in Procs : OwnRows(p)
  /\ IsFiniteSet(InFlight) /\ IsFiniteSet(Unanswered)
  /\ Cardinality(Unanswered) <= crashes + Cardinality(InFlight)

\* A process that does not move keeps its part: the rows of another invocation
\* are not its own.
LEMMA OthersOwn ==
  ASSUME NEW F, Held(F), AnswerInv, NEW p \in Procs, NEW q \in Procs \ {p},
         \A r \in Procs \ {p} : LocalKept(r) /\ todo'[r] = todo[r],
         runs' \in {runs, runs + 1},
         UNCHANGED audit \/ (pc[p] # "idle" /\ \E e : Append(e) /\ e.by = job[p].by),
         \/ pc'[p] = "idle"
         \/ pc[p] # "idle" /\ job'[p].by = job[p].by
         \/ job'[p].by = runs + 1
  PROVE  OwnRows(q)'
<1> SUFFICES ASSUME pc[q] # "idle" PROVE OwnRows(q)'
  BY DEF OwnRows, LocalKept
<1>1. runs \in Nat /\ job[q].by \in Nat
  BY LocalTypes, RunnerAssumption DEF Held, TypeOK
<1>2. OwnRows(q) /\ OwnRows(p) /\ LocalKept(q) /\ todo'[q] = todo[q]
  BY DEF AnswerInv
<1>3. job[q].by <= runs'
  BY <1>1, <1>2 DEF OwnRows
<1>4. \A r \in Procs \ {q} : pc'[r] # "idle" => job'[r].by # job[q].by
  <2>1. ASSUME pc'[p] # "idle" PROVE job'[p].by # job[q].by
    BY <1>1, <1>2, <2>1 DEF OwnRows
  <2>2. ASSUME NEW r \in Procs \ {p, q}, pc'[r] # "idle" PROVE job'[r].by # job[q].by
    BY <1>2, <2>2 DEF OwnRows, LocalKept
  <2> QED BY <2>1, <2>2
<1>5. \A e \in audit' : e.by = job[q].by => e \in audit
  BY <1>2 DEF OwnRows, Append
<1>6. \A e : RowDue(q, e) => RowDue(q, e)'
  BY <1>2 DEF RowDue, Due, LocalKept
<1>7. audit \subseteq audit'
  BY DEF Append
<1>8. (q \in InFlight)' => q \in InFlight
  BY <1>2 DEF InFlight, LocalKept
<1> QED BY <1>2, <1>3, <1>4, <1>5, <1>6, <1>7, <1>8 DEF OwnRows, LocalKept

\* Moves that write no result, and owe none that they did not owe before.
LEMMA OwnMoves ==
  ASSUME NEW F, Held(F), AnswerInv, NEW p \in Procs, pc[p] # "idle",
         \A r \in Procs \ {p} : LocalKept(r),
         job'[p] = job[p], runs' = runs,
         UNCHANGED audit \/ \E e : /\ Append(e)
                                   /\ e.event_type \notin {"action_attempted", "action_result"},
         \/ pc'[p] = "idle"
         \/ pc'[p] = "next" /\ pc[p] = "next" /\ todo'[p] \subseteq todo[p]
         \/ pc'[p] = "next" /\ todo'[p] \subseteq todo[p] \ {cur[p].case_id}
         \/ /\ todo'[p] = todo[p] /\ step'[p] = step[p]
            /\ cur'[p].case_id = cur[p].case_id
            /\ pc[p] # "next" /\ pc'[p] # "next"
            /\ pc'[p] \in ToAttempt => pc[p] \in ToAttempt
            /\ pc'[p] \in ToResult => pc[p] \in ToResult
            /\ (p \in InFlight)' => p \in InFlight
  PROVE  OwnRows(p)'
<1> SUFFICES ASSUME pc'[p] # "idle" PROVE OwnRows(p)'
  BY DEF OwnRows
<1>1. OwnRows(p)
  BY DEF AnswerInv
<1>2. \A r \in Procs \ {p} : pc'[r] # "idle" => job'[r].by # job'[p].by
  BY <1>1 DEF OwnRows, LocalKept
<1>3. /\ audit \subseteq audit'
      /\ \A e \in audit' : e \in audit \/ RowDue(p, e)'
  BY DEF Append, RowDue
<1>4. CASE pc'[p] = "next"
  <2>1. \A e : RowDue(p, e) => RowDue(p, e)'
    BY <1>4 DEF RowDue, Due
  <2>2. p \notin InFlight'
    BY <1>4 DEF InFlight
  <2> QED BY <1>1, <1>2, <1>3, <1>4, <2>1, <2>2 DEF OwnRows
<1>5. CASE pc'[p] # "next"
  <2>1. \A e : RowDue(p, e) => RowDue(p, e)'
    BY <1>5 DEF RowDue, Due
  <2> QED BY <1>1, <1>2, <1>3, <1>5, <2>1 DEF OwnRows
<1> QED BY <1>4, <1>5

\* A row that is no attempt answers attempts, if anything.
LEMMA UnansweredShrinks ==
  ASSUME AnswerInv,
         UNCHANGED audit \/ \E e : Append(e) /\ e.event_type # "action_attempted"
  PROVE  /\ Unanswered' \subseteq Unanswered
         /\ IsFiniteSet(Unanswered')
         /\ Cardinality(Unanswered') <= Cardinality(Unanswered)
         /\ Cardinality(Unanswered') \in Nat /\ Cardinality(Unanswered) \in Nat
<1>1. Unanswered' \subseteq Unanswered
  BY DEF Unanswered, ResultsOf, Append
<1> QED BY <1>1, FS_Subset, FS_CardinalityType DEF AnswerInv

\* Only the process that moves enters or leaves the set of those in flight.
LEMMA InFlightMoves ==
  ASSUME AnswerInv, NEW p \in Procs, \A r \in Procs \ {p} : LocalKept(r)
  PROVE  /\ IsFiniteSet(InFlight') /\ Cardinality(InFlight') \in Nat
         /\ Cardinality(InFlight) \in Nat
         /\ (p \in InFlight' <=> p \in InFlight) =>
              Cardinality(InFlight') = Cardinality(InFlight)
         /\ p \in InFlight' /\ p \notin InFlight =>
              Cardinality(InFlight') = Cardinality(InFlight) + 1
         /\ p \notin InFlight' /\ p \in InFlight =>
              Cardinality(InFlight) = Cardinality(InFlight') + 1
<1>1. \A r \in Procs \ {p} : r \in InFlight' <=> r \in InFlight
  BY DEF InFlight, LocalKept
<1>2. InFlight \subseteq Procs /\ InFlight' \subseteq Procs
  BY DEF InFlight
<1>3. IsFiniteSet(InFlight) /\ Cardinality(InFlight) \in Nat
  BY FS_CardinalityType DEF AnswerInv
<1>4. CASE (p \in InFlight' <=> p \in InFlight)
  <2>1. InFlight' = InFlight
    BY <1>1, <1>2, <1>4
  <2> QED BY <1>3, <1>4, <2>1
<1>5. CASE p \in InFlight' /\ p \notin InFlight
  <2>1. InFlight' = InFlight \cup {p}
    BY <1>1, <1>2, <1>5
  <2>2. IsFiniteSet(InFlight') /\ Cardinality(InFlight') = Cardinality(InFlight) + 1
    BY <1>3, <1>5, <2>1, FS_AddElement
  <2> QED BY <1>3, <1>5, <2>2
<1>6. CASE p \notin InFlight' /\ p \in InFlight
  <2>1. InFlight' = InFlight \ {p}
    BY <1>1, <1>2, <1>6
  <2>2. IsFiniteSet(InFlight') /\ Cardinality(InFlight') = Cardinality(InFlight) - 1
    BY <1>3, <1>6, <2>1, FS_RemoveElement
  <2>3. Cardinality(InFlight') \in Nat
    BY <2>2, FS_CardinalityType
  <2> QED BY <1>3, <1>6, <2>2, <2>3
<1> QED BY <1>4, <1>5, <1>6

\* Starting, opening and diagnosing: the books are opened for a turn.
LEMMA OwnOpens ==
  ASSUME NEW F, Held(F), AnswerInv, NEW p \in Procs, StartRun(p) \/ OpenCase(p) \/ Diagnose(p)
  PROVE  /\ OwnRows(p)' /\ (p \in InFlight' <=> p \in InFlight)
         /\ UNCHANGED audit \/ \E e : Append(e) /\ e.event_type = "diagnosis_completed"
<1> USE LocalTypes DEF runVars, caseVars, storeVars
<1>1. /\ OwnRows(p) /\ runs \in Nat
      /\ job \in [Procs -> [mode : {"dry", "live", "inject"}, kill : BOOLEAN, by : Nat]]
      /\ step \in [Procs -> 0..MaxSteps] /\ cur \in [Procs -> Case]
  BY RunnerAssumption DEF AnswerInv, Held, TypeOK
<1>2. CASE StartRun(p)
  <2>1. /\ pc[p] = "idle" /\ pc'[p] = "next" /\ runs' = runs + 1 /\ UNCHANGED audit
        /\ job'[p].by = runs + 1
        /\ \A r \in Procs \ {p} : job'[r] = job[r] /\ pc'[r] = pc[r]
    BY <1>1, <1>2 DEF StartRun, Go
  <2>2. \A e \in audit : e.by <= runs /\ e.by \in Nat
    BY DEF AnswerInv, AuditEvent
  <2>3. \A r \in Procs \ {p} : pc[r] # "idle" => job[r].by <= runs /\ job[r].by \in Nat
    BY LocalTypes DEF AnswerInv, OwnRows
  <2>4. p \notin InFlight /\ p \notin InFlight'
    BY <2>1 DEF InFlight
  <2> QED BY <1>1, <2>1, <2>2, <2>3, <2>4 DEF OwnRows
<1>3. CASE OpenCase(p)
  <2>1. PICK c \in Cases : /\ cur' = [cur EXCEPT ![p] = snap[p][c]]
                           /\ c \in todo[p] /\ pc[p] = "next" /\ snap[p][c] # NoCase
    BY <1>3 DEF OpenCase, IsNext, Go, Held, Selected
  <2>2. /\ pc'[p] \in {"detect", "diagnose"} /\ UNCHANGED <<job, todo, runs, audit>>
        /\ \A r \in Procs \ {p} : pc'[r] = pc[r]
    BY <1>3 DEF OpenCase, Go, AfterOpen
  <2>3. cur'[p].case_id = c
    BY <1>1, <2>1 DEF SnapOK, CopyOf, Held, Selected
  <2>4. \A e : RowDue(p, e) => RowDue(p, e)'
    BY <2>1, <2>2 DEF RowDue, Due
  <2>5. p \notin InFlight /\ p \notin InFlight'
    BY <2>1, <2>2 DEF InFlight
  <2> QED BY <1>1, <2>1, <2>2, <2>3, <2>4, <2>5 DEF OwnRows
<1>4. CASE Diagnose(p)
  <2>1. /\ pc[p] = "diagnose" /\ pc'[p] = "verdict" /\ UNCHANGED <<job, todo, runs, cur>>
        /\ step'[p] = step[p] + 1
        /\ \A r \in Procs \ {p} : pc'[r] = pc[r]
    BY <1>1, <1>4 DEF Diagnose, Go
  <2>2. PICK e : Append(e) /\ e.event_type = "diagnosis_completed"
    BY <1>4 DEF Diagnose, Event
  <2>3. \A f \in audit' : (f \in audit /\ f.step \in Nat) \/ RowDue(p, f)'
    BY <2>2 DEF Append, AuditEvent, RowDue
  <2>4. \A f : f.step \in Nat /\ RowDue(p, f) => RowDue(p, f)'
    BY <1>1, <2>1 DEF RowDue, Due
  <2>5. p \notin InFlight /\ p \notin InFlight'
    BY <2>1 DEF InFlight
  <2> QED BY <1>1, <2>1, <2>2, <2>3, <2>4, <2>5 DEF OwnRows
<1> QED BY <1>2, <1>3, <1>4

\* An attempt is written once in its turn, and its case is then in flight.
LEMMA OwnAttempt ==
  ASSUME NEW F, Held(F), AnswerInv, NEW p \in Procs, LogAttempt(p)
  PROVE  /\ OwnRows(p)' /\ p \notin InFlight /\ p \in InFlight'
         /\ \E e : Unanswered' \subseteq Unanswered \cup {e}
<1> USE LocalTypes DEF runVars, caseVars
<1> DEFINE e == Event(cur[p].case_id, "action_attempted", job[p].by, step[p],
                      action[p].action_type, action[p].payment_link_id)
<1>0. step[p] \in Nat /\ step[p] <= step[p]
  BY LocalTypes
<1>1. /\ pc[p] = "attempt" /\ pc'[p] = "dispatch" /\ Append(e)
      /\ UNCHANGED <<job, todo, runs, cur, step>>
      /\ \A r \in Procs \ {p} : pc'[r] = pc[r]
  BY DEF LogAttempt, Go, Log
<1>2. /\ e.case_id = cur[p].case_id /\ e.event_type = "action_attempted"
      /\ e.by = job[p].by /\ e.step = step[p]
  BY DEF Event
<1> HIDE DEF e
<1>3. OwnRows(p) /\ e \in audit'
  BY <1>1 DEF AnswerInv, Append
<1>4. \A f \in audit' : f \in audit \/ f = e
  BY <1>1 DEF Append
<1>5. \A f : RowDue(p, f) => RowDue(p, f)'
  BY <1>1 DEF RowDue, Due, ToAttempt, ToResult
<1>6. ASSUME NEW f, f.event_type = "action_attempted", f.case_id = cur[p].case_id,
             f.step = step[p]
      PROVE  RowDue(p, f)'
  <2>1. f.step <= step[p]
    BY <1>0, <1>6
  <2>2. Due(p, f.case_id, f.step, ToAttempt)'
    BY <1>1, <1>6, <2>1 DEF Due, ToAttempt
  <2> QED BY <1>6, <2>2 DEF RowDue
<1>7. OwnRows(p)'
  BY <1>1, <1>2, <1>3, <1>4, <1>5, <1>6 DEF OwnRows
<1>8. p \notin InFlight /\ p \in InFlight'
  BY <1>1 DEF InFlight
<1>9. Unanswered' \subseteq Unanswered \cup {e}
  BY <1>1 DEF Unanswered, ResultsOf, Append
<1> QED BY <1>7, <1>8, <1>9

\* The result answers the attempt of its turn, which nothing had answered before.
LEMMA OwnResult ==
  ASSUME NEW F, Held(F), AnswerInv, NEW p \in Procs, LogResult(p)
  PROVE  /\ OwnRows(p)' /\ p \in InFlight /\ p \notin InFlight'
         /\ \E a \in Unanswered : Unanswered' \subseteq Unanswered \ {a}
<1> USE LocalTypes DEF runVars, caseVars
<1> DEFINE e == Event(cur[p].case_id, "action_result", job[p].by, step[p],
                      result[p].error_type, result[p].payment_link_id)
<1>0. step[p] \in Nat /\ step[p] <= step[p]
  BY LocalTypes
<1>1. /\ pc[p] = "result" /\ pc'[p] = "outcome" /\ Append(e)
      /\ UNCHANGED <<job, todo, runs, cur, step>>
      /\ \A r \in Procs \ {p} : pc'[r] = pc[r]
  BY DEF LogResult, Go, Log
<1>2. /\ e.case_id = cur[p].case_id /\ e.event_type = "action_result"
      /\ e.by = job[p].by /\ e.step = step[p]
  BY DEF Event
<1> HIDE DEF e
<1>3. OwnRows(p) /\ e \in audit' /\ audit \subseteq audit'
  BY <1>1 DEF AnswerInv, Append
<1>4. p \in InFlight /\ p \notin InFlight'
  BY <1>1 DEF InFlight
<1>5. PICK a \in audit : /\ a.event_type = "action_attempted"
                         /\ a.case_id = cur[p].case_id
                         /\ a.by = job[p].by /\ a.step = step[p]
  BY <1>1, <1>3, <1>4 DEF OwnRows
<1>6. ResultsOf(a) = {}
  <2> SUFFICES ASSUME NEW f \in ResultsOf(a) PROVE FALSE
    OBVIOUS
  <2>1. Due(p, cur[p].case_id, step[p], ToResult)
    BY <1>1, <1>3, <1>5 DEF ResultsOf, OwnRows, RowDue
  <2>2. cur[p].case_id \in todo[p]
    BY <1>1, <1>3 DEF OwnRows
  <2> QED BY <1>1, <2>1, <2>2 DEF Due, ToResult
<1>7. Unanswered' \subseteq Unanswered \ {a}
  <2>1. e \in ResultsOf(a)'
    BY <1>2, <1>3, <1>5 DEF ResultsOf
  <2> QED BY <1>1, <1>2, <2>1 DEF Unanswered, ResultsOf, Append
<1>8. \A f : RowDue(p, f) => RowDue(p, f)'
  BY <1>1 DEF RowDue, Due, ToAttempt, ToResult
<1>9. ASSUME NEW f, f.event_type = "action_result", f.case_id = cur[p].case_id,
             f.step = step[p]
      PROVE  RowDue(p, f)'
  <2>1. f.step <= step[p]
    BY <1>0, <1>9
  <2>2. Due(p, f.case_id, f.step, ToResult)'
    BY <1>1, <1>9, <2>1 DEF Due, ToAttempt, ToResult
  <2> QED BY <1>9, <2>2 DEF RowDue
<1>10. \A f \in audit' : f \in audit \/ f = e
  BY <1>1 DEF Append
<1>11. OwnRows(p)'
  BY <1>1, <1>2, <1>3, <1>4, <1>8, <1>9, <1>10 DEF OwnRows
<1> QED BY <1>4, <1>5, <1>6, <1>7, <1>11 DEF Unanswered

\* Everything else writes neither attempt nor result; dying leaves at most one
\* attempt without its result.
LEMMA OwnRest ==
  ASSUME NEW F, Held(F), AnswerInv, NEW p \in Procs,
         \/ SkipTerminal(p) \/ LogDetected(p) \/ Return(p) \/ Crash(p) \/ EndOfTurn(p)
         \/ LogVerdict(p) \/ RefuseKilled(p) \/ ExecuteLocally(p) \/ ExecuteInjected(p)
         \/ ExecuteCreate(p) \/ ExecuteNotify(p) \/ Save(p)
  PROVE  /\ OwnRows(p)' /\ (Crash(p) \/ (p \in InFlight' <=> p \in InFlight))
         /\ UNCHANGED audit \/ \E e : /\ Append(e)
                                      /\ e.event_type \notin {"action_attempted", "action_result"}
<1> USE LocalTypes DEF runVars, caseVars, storeVars
<1>1. UNCHANGED audit \/ \E e : /\ Append(e)
                                /\ e.event_type \notin {"action_attempted", "action_result"}
  <2>1. CASE \/ Return(p) \/ Crash(p) \/ RefuseKilled(p) \/ ExecuteLocally(p)
             \/ ExecuteInjected(p) \/ ExecuteCreate(p) \/ ExecuteNotify(p) \/ Save(p)
             \/ StopKilled(p) \/ NoCustomer(p) \/ SaveAnswer(p) \/ NextTurn(p)
    BY <2>1 DEF Return, Crash, RefuseKilled, ExecuteLocally, ExecuteInjected, ExecuteCreate,
                ExecuteNotify, Save, StopKilled, NoCustomer, SaveAnswer, NextTurn
  <2>2. CASE LogVerdict(p) \/ ParkFailed(p) \/ CloseCase(p) \/ AskCustomer(p)
    <3>1. PICK type \in {"policy_verdict", "case_terminal", "customer_response"} :
            \E what, link : Log(p, type, what, link)
      BY <2>2 DEF LogVerdict, ParkFailed, CloseCase, AskCustomer
    <3> QED BY <3>1 DEF Log, Event
  <2>3. CASE SkipTerminal(p) \/ LogDetected(p) \/ ParkExpired(p)
    <3>1. PICK type \in {"policy_verdict", "case_terminal", "case_detected"} :
            \E c, turn, what, link : Append(Event(c, type, job[p].by, turn, what, link))
      BY <2>3 DEF SkipTerminal, LogDetected, ParkExpired
    <3> QED BY <3>1 DEF Event
  <2> QED BY <2>1, <2>2, <2>3 DEF EndOfTurn
<1>2. /\ pc[p] # "idle" /\ job'[p] = job[p] /\ runs' = runs
      /\ \A r \in Procs \ {p} : LocalKept(r)
  BY DEF SkipTerminal, LogDetected, Return, Crash, EndOfTurn, LogVerdict, RefuseKilled,
         ExecuteLocally, ExecuteInjected, ExecuteCreate, ExecuteNotify, Save, StopKilled,
         ParkFailed, AskCustomer, NoCustomer, SaveAnswer, CloseCase, NextTurn, ParkExpired,
         Go, Execute, LocalKept, Held, TypeOK
<1>3. CASE SkipTerminal(p) \/ Return(p) \/ Crash(p) \/ ParkFailed(p) \/ CloseCase(p) \/ ParkExpired(p)
  <2>1. \/ pc'[p] = "idle"
        \/ pc'[p] = "next" /\ pc[p] = "next" /\ todo'[p] \subseteq todo[p]
        \/ pc'[p] = "next" /\ todo'[p] \subseteq todo[p] \ {cur[p].case_id}
    BY <1>3 DEF SkipTerminal, Return, Crash, ParkFailed, CloseCase, ParkExpired, Go, FinishCase
  <2>2. Crash(p) \/ (p \notin InFlight /\ p \notin InFlight')
    BY <1>3 DEF SkipTerminal, Return, ParkFailed, CloseCase, ParkExpired, Go, InFlight
  <2> QED BY <1>1, <1>2, <2>1, <2>2, OwnMoves
<1>4. CASE \/ LogDetected(p) \/ LogVerdict(p) \/ RefuseKilled(p) \/ ExecuteLocally(p)
           \/ ExecuteInjected(p) \/ ExecuteCreate(p) \/ ExecuteNotify(p) \/ Save(p)
           \/ StopKilled(p) \/ AskCustomer(p) \/ NoCustomer(p) \/ SaveAnswer(p) \/ NextTurn(p)
  <2>1. todo'[p] = todo[p] /\ step'[p] = step[p]
    BY <1>4 DEF LogDetected, LogVerdict, RefuseKilled, ExecuteLocally, ExecuteInjected,
                ExecuteCreate, ExecuteNotify, Save, StopKilled, AskCustomer, NoCustomer,
                SaveAnswer, NextTurn
  <2>2. cur'[p].case_id = cur[p].case_id
    BY <1>4, SameCase DEF Turn, EndOfTurn
  <2>3. \/ pc[p] = "detect" /\ pc'[p] = "diagnose"
        \/ pc[p] = "verdict" /\ pc'[p] = "attempt"
        \/ pc[p] = "dispatch" /\ pc'[p] = "save"
        \/ pc[p] = "save" /\ pc'[p] = "result"
        \/ pc[p] = "outcome" /\ pc'[p] \in {"close", "apply"}
        \/ pc[p] = "apply" /\ pc'[p] = "close"
        \/ pc[p] = "close" /\ pc'[p] = "diagnose"
    BY <1>4 DEF LogDetected, LogVerdict, RefuseKilled, ExecuteLocally, ExecuteInjected,
                ExecuteCreate, ExecuteNotify, Save, StopKilled, AskCustomer, NoCustomer,
                SaveAnswer, NextTurn, Go
  <2>4. p \in InFlight' <=> p \in InFlight
    BY <2>3 DEF InFlight
  <2>5. OwnRows(p)'
    BY <1>1, <1>2, <2>1, <2>2, <2>3, <2>4, OwnMoves DEF ToAttempt, ToResult
  <2> QED BY <1>1, <2>4, <2>5
<1> QED BY <1>3, <1>4 DEF EndOfTurn

\* Every step balances: one attempt more is one case more in flight, one case
\* less in flight is an attempt answered or a death.
LEMMA AnswerStepKept ==
  ASSUME NEW F, Held(F), AnswerInv, NEW p \in Procs, StartRun(p) \/ Step(p) \/ Crash(p)
  PROVE  AnswerInv'
<1> USE LocalTypes
<1>1. \A r \in Procs \ {p} : LocalKept(r) /\ todo'[r] = todo[r]
  BY DEF Step, Turn, EndOfTurn, StartRun, SkipTerminal, OpenCase, LogDetected,
       Return, Crash, Diagnose, LogVerdict, LogAttempt, RefuseKilled, ExecuteLocally,
       ExecuteInjected, ExecuteCreate, ExecuteNotify, Execute, Save, LogResult, StopKilled,
       ParkFailed, AskCustomer, NoCustomer, SaveAnswer, CloseCase, NextTurn, ParkExpired,
       FinishCase, Go, LocalKept, Held, TypeOK, runVars, caseVars
<1>2. UNCHANGED audit \/ (pc[p] # "idle" /\ \E e : Append(e) /\ e.by = job[p].by)
  <2>1. StartRun(p) => UNCHANGED audit
    BY DEF StartRun, storeVars
  <2>2. pc[p] = "idle" => StartRun(p)
    BY DEF Step, Turn, EndOfTurn, SkipTerminal, OpenCase, LogDetected,
       Return, Crash, Diagnose, LogVerdict, LogAttempt, RefuseKilled, ExecuteLocally,
       ExecuteInjected, ExecuteCreate, ExecuteNotify, Save, LogResult, StopKilled,
       ParkFailed, AskCustomer, NoCustomer, SaveAnswer, CloseCase, NextTurn, ParkExpired, Go
  <2> QED BY <2>1, <2>2, OneEvent
<1>3. /\ StartRun(p) => runs' = runs + 1 /\ job'[p].by = runs + 1
      /\ ~StartRun(p) => runs' = runs /\ job'[p] = job[p] /\ pc[p] # "idle"
  BY DEF Step, Turn, EndOfTurn, StartRun, SkipTerminal, OpenCase, LogDetected,
       Return, Crash, Diagnose, LogVerdict, LogAttempt, RefuseKilled, ExecuteLocally,
       ExecuteInjected, ExecuteCreate, ExecuteNotify, Save, LogResult, StopKilled,
       ParkFailed, AskCustomer, NoCustomer, SaveAnswer, CloseCase, NextTurn, ParkExpired,
       Go, Held, TypeOK, runVars, caseVars
<1>4. \A q \in Procs \ {p} : OwnRows(q)'
  BY <1>1, <1>2, <1>3, OthersOwn
<1>5. \A e \in audit' : e.by <= runs'
  <2>1. runs \in Nat /\ job[p].by \in Nat /\ \A e \in audit : e.by \in Nat
    BY RunnerAssumption DEF Held, TypeOK, StoreTypeOK, AuditEvent
  <2>2. pc[p] # "idle" => job[p].by <= runs
    BY DEF AnswerInv, OwnRows
  <2> QED BY <1>2, <1>3, <2>1, <2>2 DEF AnswerInv, Append
<1>6. crashes \in Nat /\ crashes' = IF Crash(p) THEN crashes + 1 ELSE crashes
  BY RunnerAssumption DEF Step, Turn, EndOfTurn, StartRun, SkipTerminal, OpenCase,
       LogDetected, Return, Crash, Diagnose, LogVerdict, LogAttempt, RefuseKilled,
       ExecuteLocally, ExecuteInjected, ExecuteCreate, ExecuteNotify, Save, LogResult,
       StopKilled, ParkFailed, AskCustomer, NoCustomer, SaveAnswer, CloseCase, NextTurn,
       ParkExpired, Held, TypeOK
<1>7. /\ OwnRows(p)' /\ IsFiniteSet(Unanswered')
      /\ Cardinality(Unanswered') <= crashes' + Cardinality(InFlight')
  <2> DEFINE u == Cardinality(Unanswered)
             v == Cardinality(Unanswered')
             m == Cardinality(InFlight)
             n == Cardinality(InFlight')
  <2>1. /\ m \in Nat /\ n \in Nat
        /\ (p \in InFlight' <=> p \in InFlight) => n = m
        /\ p \in InFlight' /\ p \notin InFlight => n = m + 1
        /\ p \notin InFlight' /\ p \in InFlight => m = n + 1
    BY <1>1, InFlightMoves
  <2>2. u \in Nat /\ u <= crashes + m /\ IsFiniteSet(Unanswered)
    BY FS_CardinalityType DEF AnswerInv
  <2>3. CASE LogAttempt(p)
    <3>1. PICK e : Unanswered' \subseteq Unanswered \cup {e}
      BY <2>3, OwnAttempt
    <3>2. /\ IsFiniteSet(Unanswered \cup {e})
          /\ Cardinality(Unanswered \cup {e}) \in Nat
          /\ Cardinality(Unanswered \cup {e}) <= u + 1
      <4>1. /\ IsFiniteSet(Unanswered \cup {e})
            /\ Cardinality(Unanswered \cup {e}) = IF e \in Unanswered THEN u ELSE u + 1
        BY <2>2, FS_AddElement
      <4> QED BY <2>2, <4>1
    <3>3. IsFiniteSet(Unanswered') /\ v \in Nat /\ v <= Cardinality(Unanswered \cup {e})
      BY <3>1, <3>2, FS_Subset, FS_CardinalityType
    <3>4. OwnRows(p)' /\ n = m + 1 /\ crashes' = crashes
      BY <1>6, <2>1, <2>3, OwnAttempt DEF LogAttempt, Crash, Go
    <3> QED BY <1>6, <2>1, <2>2, <3>2, <3>3, <3>4
  <2>4. CASE LogResult(p)
    <3>1. PICK a \in Unanswered : Unanswered' \subseteq Unanswered \ {a}
      BY <2>4, OwnResult
    <3>2. IsFiniteSet(Unanswered \ {a}) /\ Cardinality(Unanswered \ {a}) = u - 1
      BY <2>2, FS_RemoveElement
    <3>3. IsFiniteSet(Unanswered') /\ v \in Nat /\ v <= u - 1
      BY <3>1, <3>2, FS_Subset, FS_CardinalityType
    <3>4. OwnRows(p)' /\ m = n + 1 /\ crashes' = crashes
      BY <1>6, <2>1, <2>4, OwnResult DEF LogResult, Crash, Go
    <3> QED BY <1>6, <2>1, <2>2, <3>3, <3>4
  <2>5. CASE ~LogAttempt(p) /\ ~LogResult(p)
    <3>1. /\ OwnRows(p)' /\ (Crash(p) \/ (p \in InFlight' <=> p \in InFlight))
          /\ UNCHANGED audit \/ \E e : Append(e) /\ e.event_type # "action_attempted"
      <4>1. CASE StartRun(p) \/ OpenCase(p) \/ Diagnose(p)
        BY <4>1, OwnOpens
      <4>2. CASE ~(StartRun(p) \/ OpenCase(p) \/ Diagnose(p))
        BY <2>5, <4>2, OwnRest DEF Step, Turn
      <4> QED BY <4>1, <4>2
    <3>2. IsFiniteSet(Unanswered') /\ v \in Nat /\ v <= u
      BY <3>1, UnansweredShrinks
    <3>3. m <= n \/ (Crash(p) /\ m <= n + 1)
      BY <2>1, <3>1
    <3> QED BY <1>6, <2>1, <2>2, <3>1, <3>2, <3>3
  <2> QED BY <2>3, <2>4, <2>5
<1>8. IsFiniteSet(InFlight')
  BY <1>1, InFlightMoves
<1> QED BY <1>4, <1>5, <1>7, <1>8 DEF AnswerInv
\* Beside the runs nothing is attempted.
LEMMA AnswerAside ==
  ASSUME AnswerInv, UNCHANGED <<audit, pc, runVars, caseVars>>, crashes' \in {crashes, crashes + 1},
         crashes \in Nat
  PROVE  AnswerInv'
<1>1. UNCHANGED <<audit, pc, job, todo, cur, step, runs>>
  BY DEF runVars, caseVars
<1>2. Unanswered' = Unanswered /\ InFlight' = InFlight
  BY <1>1 DEF Unanswered, ResultsOf, InFlight
<1>3. \A p \in Procs : OwnRows(p)'
  BY <1>1, <1>2 DEF AnswerInv, OwnRows, RowDue, Due
<1>4. Cardinality(Unanswered) \in Nat /\ Cardinality(InFlight) \in Nat
  BY FS_CardinalityType DEF AnswerInv
<1> QED BY <1>1, <1>2, <1>3, <1>4 DEF AnswerInv

\* Where only runs write, every step balances.
LEMMA AnswerKept == IInv /\ AnswerInv /\ [Next]_vars => AnswerInv'
<1> SUFFICES ASSUME IInv, AnswerInv, [Next]_vars PROVE AnswerInv'
  OBVIOUS
<1>1. PICK F : Held(F)
  BY DEF IInv
<1>2. CASE UNCHANGED vars
  <2>1. crashes \in Nat /\ crashes' = crashes
    BY <1>1, <1>2, RunnerAssumption DEF Held, TypeOK, vars
  <2> QED BY <1>2, <2>1, AnswerAside DEF vars, storeVars
<1>3. ASSUME NEW p \in Procs, StartRun(p) \/ Step(p) \/ Crash(p) PROVE AnswerInv'
  BY <1>1, <1>3, AnswerStepKept
<1> QED BY <1>2, <1>3 DEF Next, Done

\* Nothing is attempted before the first invocation.
LEMMA AnswerStarts == Init => AnswerInv
<1> SUFFICES ASSUME Init PROVE AnswerInv
  OBVIOUS
<1>1. /\ audit = {} /\ crashes = 0 /\ pc = [p \in Procs |-> "idle"]
  BY DEF Init, Fresh
<1>2. InFlight = {} /\ Unanswered = {}
  BY <1>1 DEF InFlight, Unanswered
<1>3. IsFiniteSet({}) /\ Cardinality({}) = 0
  BY FS_EmptySet
<1>4. \A p \in Procs : OwnRows(p)
  BY <1>1 DEF OwnRows
<1> QED BY <1>1, <1>2, <1>3, <1>4 DEF AnswerInv

\* An attempt without its result is in flight, or died with its invocation, for
\* any number of processes and cases.
THEOREM AttemptsAreAnswered == Spec => []AttemptsAnswered
<1>1. AnswerInv => AttemptsAnswered
  BY DEF AnswerInv, AttemptsAnswered, Unanswered, ResultsOf, InFlight
<1> QED BY <1>1, AnswerStarts, AnswerKept, Invariant, PTL DEF Spec

-----------------------------------------------------------------------------
(* Attempts and what Razorpay did, whatever processes overlap.              *)

Contacts == {"issue_link", "remind"}

\* How often Razorpay has done what an attempt of that type asks for.
Made(c, type) == IF type = "issue_link" THEN created[c] ELSE notified[c]

Attempts(c, type) ==
  {e \in EventsOf(c) : e.event_type = "action_attempted" /\ e.what = type}

\* Processes whose attempt is on the trail and not executed yet.
Trying(c, type) ==
  {p \in Procs : pc[p] = "dispatch" /\ cur[p].case_id = c /\ action[p].action_type = type}

CountOK(c, type) ==
  /\ IsFiniteSet(Attempts(c, type)) /\ IsFiniteSet(Trying(c, type))
  /\ Made(c, type) + Cardinality(Trying(c, type)) <= Cardinality(Attempts(c, type))

CountInv == \A c \in Cases : \A type \in Contacts : CountOK(c, type)

\* The trail only grows, and by a row it did not have if that is new.
LEMMA AttemptsGrow ==
  ASSUME NEW c, NEW type, IsFiniteSet(Attempts(c, type)),
         UNCHANGED audit \/ \E e : Append(e)
  PROVE  /\ IsFiniteSet(Attempts(c, type)')
         /\ Cardinality(Attempts(c, type)) \in Nat /\ Cardinality(Attempts(c, type)') \in Nat
         /\ Cardinality(Attempts(c, type)) <= Cardinality(Attempts(c, type)')
         /\ (\E e \in Attempts(c, type)' : e \notin audit) =>
              Cardinality(Attempts(c, type)') = Cardinality(Attempts(c, type)) + 1
<1> DEFINE A == Attempts(c, type)
           B == Attempts(c, type)'
<1>1. Cardinality(A) \in Nat
  BY FS_CardinalityType
<1>2. CASE B = A
  <2>1. A \subseteq audit
    BY DEF Attempts, EventsOf
  <2> QED BY <1>1, <1>2, <2>1
<1>3. CASE B # A
  <2>1. PICK e : Append(e)
    BY <1>3 DEF Attempts, EventsOf
  <2>2. B = A \cup {e} /\ e \notin A
    BY <1>3, <2>1 DEF Append, Attempts, EventsOf
  <2>3. IsFiniteSet(B) /\ Cardinality(B) = Cardinality(A) + 1
    BY <2>2, FS_AddElement
  <2> QED BY <1>1, <2>3
<1> QED BY <1>2, <1>3

\* Only the process that moves starts or stops trying.
LEMMA TryingMoves ==
  ASSUME NEW c, NEW type, IsFiniteSet(Trying(c, type)), NEW p \in Procs,
         \A r \in Procs \ {p} : LocalKept(r)
  PROVE  /\ IsFiniteSet(Trying(c, type)')
         /\ Cardinality(Trying(c, type)) \in Nat /\ Cardinality(Trying(c, type)') \in Nat
         /\ p \notin Trying(c, type)' =>
              Cardinality(Trying(c, type)') + (IF p \in Trying(c, type) THEN 1 ELSE 0)
                = Cardinality(Trying(c, type))
         /\ p \in Trying(c, type)' /\ p \notin Trying(c, type) =>
              Cardinality(Trying(c, type)') = Cardinality(Trying(c, type)) + 1
<1> DEFINE T == Trying(c, type)
           U == Trying(c, type)'
<1>1. \A r \in Procs \ {p} : r \in U <=> r \in T
  BY DEF Trying, LocalKept
<1>2. T \subseteq Procs /\ U \subseteq Procs
  BY DEF Trying
<1>3. Cardinality(T) \in Nat
  BY FS_CardinalityType
<1> HIDE DEF T, U
<1>4. CASE p \in U <=> p \in T
  <2>1. U = T
    BY <1>1, <1>2, <1>4
  <2> QED BY <1>3, <1>4, <2>1 DEF T, U
<1>5. CASE p \in U /\ p \notin T
  <2>1. U = T \cup {p}
    BY <1>1, <1>2, <1>5
  <2>2. IsFiniteSet(U) /\ Cardinality(U) = Cardinality(T) + 1
    BY <1>5, <2>1, FS_AddElement DEF T
  <2> QED BY <1>3, <1>5, <2>2 DEF T, U
<1>6. CASE p \notin U /\ p \in T
  <2>1. U = T \ {p}
    BY <1>1, <1>2, <1>6
  <2>2. IsFiniteSet(U) /\ Cardinality(U) = Cardinality(T) - 1
    BY <1>6, <2>1, FS_RemoveElement DEF T
  <2>3. Cardinality(U) \in Nat
    BY <2>2, FS_CardinalityType
  <2> QED BY <1>3, <1>6, <2>2, <2>3 DEF T, U
<1> QED BY <1>4, <1>5, <1>6

\* The row of an attempt is new: no earlier turn, and no other invocation, has it.
LEMMA AttemptIsNew ==
  ASSUME NEW F, Held(F), AnswerInv, NEW p \in Procs, LogAttempt(p)
  PROVE  \E e : /\ Append(e) /\ e \notin audit /\ e.event_type = "action_attempted"
                /\ e.case_id = cur[p].case_id /\ e.what = action[p].action_type
<1> DEFINE e == Event(cur[p].case_id, "action_attempted", job[p].by, step[p],
                      action[p].action_type, action[p].payment_link_id)
<1>1. /\ Append(e) /\ pc[p] = "attempt"
      /\ e.case_id = cur[p].case_id /\ e.event_type = "action_attempted"
      /\ e.by = job[p].by /\ e.step = step[p] /\ e.what = action[p].action_type
  BY DEF LogAttempt, Log, Event, Go
<1> HIDE DEF e
<1>2. ASSUME e \in audit PROVE FALSE
  <2>1. Due(p, cur[p].case_id, step[p], ToAttempt) /\ cur[p].case_id \in todo[p]
    BY <1>1, <1>2 DEF AnswerInv, OwnRows, RowDue
  <2>2. step[p] < step[p] /\ step[p] \in Nat
    BY <1>1, <2>1, LocalTypes DEF Due, ToAttempt
  <2> QED BY <2>2
<1> QED BY <1>1, <1>2

\* Razorpay does at most once what the process that calls it is trying.
LEMMA MadeOnce ==
  ASSUME NEW F, Held(F), NEW p \in Procs, StartRun(p) \/ Step(p) \/ Crash(p),
         NEW c \in Cases, NEW type \in Contacts
  PROVE  /\ Made(c, type) \in Nat /\ Made(c, type)' \in Nat
         /\ Made(c, type)' <= Made(c, type) + (IF p \in Trying(c, type) THEN 1 ELSE 0)
<1>1. created \in [Cases -> Nat] /\ notified \in [Cases -> Nat] /\ Made(c, type) \in Nat
  BY DEF Held, TypeOK, RazorpayTypeOK, Made, Contacts
<1>2. CASE ExecuteCreate(p)
  <2>1. PICK reply : CreatePaymentLink(cur[p].case_id, Reference(p), reply)
    BY <1>2 DEF ExecuteCreate
  <2>2. /\ created'[c] = created[c] \/ (c = cur[p].case_id /\ created'[c] = created[c] + 1)
        /\ notified' = notified
    BY <1>1, <2>1 DEF CreatePaymentLink, MakeLink, razorpayVars
  <2>3. pc[p] = "dispatch" /\ action[p].action_type = "issue_link"
    BY <1>2 DEF ExecuteCreate, Go, Calls
  <2> QED BY <1>1, <2>2, <2>3 DEF Made, Trying, Contacts
<1>3. CASE ExecuteNotify(p)
  <2>1. PICK reply :
          NotifyPaymentLink(cur[p].case_id, RemindedLink(action[p], cur[p]), reply)
    BY <1>3 DEF ExecuteNotify
  <2>2. /\ notified'[c] = notified[c] \/ (c = cur[p].case_id /\ notified'[c] = notified[c] + 1)
        /\ created' = created
    BY <1>1, <2>1 DEF NotifyPaymentLink, SendReminder, razorpayVars
  <2>3. pc[p] = "dispatch" /\ action[p].action_type = "remind"
    BY <1>3 DEF ExecuteNotify, Go, Calls
  <2> QED BY <1>1, <2>2, <2>3 DEF Made, Trying, Contacts
<1>4. CASE ~ExecuteCreate(p) /\ ~ExecuteNotify(p)
  <2>1. UNCHANGED razorpayVars
    BY <1>4 DEF Step, Turn, EndOfTurn, StartRun, SkipTerminal, OpenCase, LogDetected, Return,
                Crash, Diagnose, LogVerdict, LogAttempt, RefuseKilled, ExecuteLocally,
                ExecuteInjected, Save, LogResult, StopKilled, ParkFailed, AskCustomer,
                NoCustomer, SaveAnswer, CloseCase, NextTurn, ParkExpired
  <2> QED BY <1>1, <2>1 DEF razorpayVars, Made
<1> QED BY <1>2, <1>3, <1>4

\* Each attempt is on the trail before its call leaves, and pays for one call.
LEMMA CountStepKept ==
  ASSUME NEW F, Held(F), AnswerInv, CountInv, NEW p \in Procs,
         StartRun(p) \/ Step(p) \/ Crash(p)
  PROVE  CountInv'
<1> SUFFICES ASSUME NEW c \in Cases, NEW type \in Contacts PROVE CountOK(c, type)'
  BY DEF CountInv
<1> USE LocalTypes
<1> DEFINE m == Made(c, type)
           n == Made(c, type)'
           a == Cardinality(Attempts(c, type))
           b == Cardinality(Attempts(c, type)')
           t == Cardinality(Trying(c, type))
           u == Cardinality(Trying(c, type)')
<1>1. \A r \in Procs \ {p} : LocalKept(r)
  BY DEF Step, Turn, EndOfTurn, StartRun, SkipTerminal, OpenCase, LogDetected,
       Return, Crash, Diagnose, LogVerdict, LogAttempt, RefuseKilled, ExecuteLocally,
       ExecuteInjected, ExecuteCreate, ExecuteNotify, Execute, Save, LogResult, StopKilled,
       ParkFailed, AskCustomer, NoCustomer, SaveAnswer, CloseCase, NextTurn, ParkExpired,
       FinishCase, Go, LocalKept, Held, TypeOK, runVars, caseVars
<1>2. UNCHANGED audit \/ \E e : Append(e)
  BY OneEvent
<1>3. /\ IsFiniteSet(Attempts(c, type)) /\ IsFiniteSet(Trying(c, type)) /\ m + t <= a
  BY DEF CountInv, CountOK
<1>4. /\ IsFiniteSet(Attempts(c, type)') /\ a \in Nat /\ b \in Nat /\ a <= b
      /\ (\E e \in Attempts(c, type)' : e \notin audit) => b = a + 1
  BY <1>2, <1>3, AttemptsGrow
<1>5. /\ IsFiniteSet(Trying(c, type)') /\ t \in Nat /\ u \in Nat
      /\ p \notin Trying(c, type)' => u + (IF p \in Trying(c, type) THEN 1 ELSE 0) = t
      /\ p \in Trying(c, type)' /\ p \notin Trying(c, type) => u = t + 1
  BY <1>1, <1>3, TryingMoves
<1>6. /\ m \in Nat /\ n \in Nat /\ n <= m + (IF p \in Trying(c, type) THEN 1 ELSE 0)
  BY MadeOnce
<1> HIDE DEF m, n, a, b, t, u
<1>7. CASE LogAttempt(p)
  <2>1. PICK e : /\ Append(e) /\ e \notin audit /\ e.event_type = "action_attempted"
                 /\ e.case_id = cur[p].case_id /\ e.what = action[p].action_type
    BY <1>7, AttemptIsNew
  <2>2. pc[p] = "attempt" /\ pc'[p] = "dispatch" /\ cur' = cur /\ action' = action
    BY <1>7 DEF LogAttempt, Go, caseVars
  <2>3. p \notin Trying(c, type)
    BY <2>2 DEF Trying
  <2>4. p \in Trying(c, type)' => e \in Attempts(c, type)'
    BY <2>1, <2>2 DEF Trying, Attempts, EventsOf, Append
  <2>5. n + u <= b
    BY <1>3, <1>4, <1>5, <1>6, <2>1, <2>3, <2>4
  <2> QED BY <1>4, <1>5, <2>5 DEF CountOK, n, u, b
<1>8. CASE ~LogAttempt(p)
  <2>1. pc'[p] # "dispatch"
    BY <1>8 DEF Step, Turn, EndOfTurn, StartRun, SkipTerminal, OpenCase, LogDetected, Return,
                Crash, Diagnose, LogVerdict, RefuseKilled, ExecuteLocally, ExecuteInjected,
                ExecuteCreate, ExecuteNotify, Save, LogResult, StopKilled, ParkFailed,
                AskCustomer, NoCustomer, SaveAnswer, CloseCase, NextTurn, ParkExpired, Go, AfterOpen
  <2>2. p \notin Trying(c, type)'
    BY <2>1 DEF Trying
  <2>3. n + u <= b
    BY <1>3, <1>4, <1>5, <1>6, <2>2
  <2> QED BY <1>4, <1>5, <2>3 DEF CountOK, n, u, b
<1> QED BY <1>7, <1>8

\* Beside the runs nothing is asked of Razorpay.
LEMMA CountAside ==
  ASSUME CountInv, UNCHANGED <<audit, razorpayVars, pc, caseVars>>
  PROVE  CountInv'
BY DEF CountInv, CountOK, Attempts, EventsOf, Trying, Made, razorpayVars, caseVars

-----------------------------------------------------------------------------
(* Detections, where invocations follow one another.                        *)

Detections(c) == {e \in EventsOf(c) : e.event_type = "case_detected"}

DetectInv ==
  /\ \A c \in Cases :
       /\ \A e, f \in Detections(c) : e = f
       /\ Detections(c) = {} =>
            ~\E e \in EventsOf(c) : e.event_type = "diagnosis_completed"
  /\ \A p \in Procs :
       /\ pc[p] = "detect" => Detections(cur[p].case_id) = {}
       /\ pc[p] \notin {"idle", "next", "detect"} => Detections(cur[p].case_id) # {}

\* A lone process that leaves the trail without detection or diagnosis keeps what
\* it knows of the detections of its case.
LEMMA DetectMoves ==
  ASSUME DetectInv, NEW p \in Procs, Procs = {p},
         UNCHANGED audit \/ \E e : /\ Append(e)
                                   /\ e.event_type \notin {"case_detected", "diagnosis_completed"},
         \/ pc'[p] \in {"idle", "next"}
         \/ /\ pc[p] \notin {"idle", "next", "detect"}
            /\ pc'[p] \notin {"idle", "next", "detect"}
            /\ cur'[p].case_id = cur[p].case_id
  PROVE  DetectInv'
<1>1. \A c : Detections(c)' = Detections(c)
  BY DEF Detections, EventsOf, Append
<1>2. \A c : (\E e \in EventsOf(c)' : e.event_type = "diagnosis_completed") =>
               \E e \in EventsOf(c) : e.event_type = "diagnosis_completed"
  BY DEF EventsOf, Append
<1> QED BY <1>1, <1>2 DEF DetectInv

\* Opening a case looks for its detection, writing it or diagnosing follows.
LEMMA DetectOpens ==
  ASSUME NEW F, Held(F), DetectInv, NEW p \in Procs, Procs = {p},
         OpenCase(p) \/ LogDetected(p) \/ Diagnose(p)
  PROVE  DetectInv'
<1> USE LocalTypes DEF runVars, caseVars, storeVars
<1>1. CASE OpenCase(p)
  <2>1. PICK c \in Cases : /\ cur' = [cur EXCEPT ![p] = snap[p][c]]
                           /\ pc' = [pc EXCEPT ![p] = AfterOpen(c)]
                           /\ snap[p][c] # NoCase
    BY <1>1 DEF OpenCase, IsNext, Go, Held, Selected
  <2>2. cur'[p].case_id = c /\ pc'[p] = AfterOpen(c) /\ UNCHANGED audit
    BY <1>1, <2>1 DEF OpenCase, SnapOK, CopyOf, Held, TypeOK
  <2>3. \A d : Detections(d)' = Detections(d) /\ EventsOf(d)' = EventsOf(d)
    BY <2>2 DEF Detections, EventsOf
  <2>4. AfterOpen(c) = IF Detections(c) # {} THEN "diagnose" ELSE "detect"
    BY DEF AfterOpen, Detections
  <2> QED BY <2>2, <2>3, <2>4 DEF DetectInv
<1>2. CASE LogDetected(p)
  <2> DEFINE e == Event(cur[p].case_id, "case_detected", job[p].by, 0, "none", NoLink)
  <2>1. /\ pc[p] = "detect" /\ pc'[p] = "diagnose" /\ UNCHANGED cur /\ Append(e)
    BY <1>2 DEF LogDetected, Go
  <2>2. e.case_id = cur[p].case_id /\ e.event_type = "case_detected"
    BY DEF Event
  <2> HIDE DEF e
  <2>3. /\ Detections(cur[p].case_id) = {}
        /\ \A d : d # cur[p].case_id => Detections(d)' = Detections(d)
    BY <2>1, <2>2 DEF DetectInv, Detections, EventsOf, Append
  <2>4. \A x : x = cur[p].case_id => Detections(x)' = {e}
    BY <2>1, <2>2, <2>3 DEF Detections, EventsOf, Append
  <2>5. \A d : (\E f \in EventsOf(d)' : f.event_type = "diagnosis_completed") =>
                 \E f \in EventsOf(d) : f.event_type = "diagnosis_completed"
    BY <2>1, <2>2 DEF EventsOf, Append
  <2> QED BY <2>1, <2>3, <2>4, <2>5 DEF DetectInv
<1>3. CASE Diagnose(p)
  <2>1. PICK what : Append(Event(cur[p].case_id, "diagnosis_completed", job[p].by,
                                 step[p] + 1, what, NoLink))
    BY <1>3 DEF Diagnose
  <2>2. pc[p] = "diagnose" /\ pc'[p] = "verdict" /\ UNCHANGED cur
    BY <1>3 DEF Diagnose, Go
  <2>3. \A d : Detections(d)' = Detections(d)
    BY <2>1 DEF Detections, EventsOf, Append, Event
  <2>4. \A d : d # cur[p].case_id => EventsOf(d)' = EventsOf(d)
    BY <2>1 DEF EventsOf, Append, Event
  <2>5. Detections(cur[p].case_id) # {}
    BY <2>2 DEF DetectInv
  <2> QED BY <2>2, <2>3, <2>4, <2>5 DEF DetectInv
<1> QED BY <1>1, <1>2, <1>3

\* Of a lone process every step keeps the detections.
LEMMA DetectKept == Solo /\ IInv /\ DetectInv /\ [Next]_vars => DetectInv'
<1> SUFFICES ASSUME Solo, IInv, DetectInv, [Next]_vars PROVE DetectInv'
  OBVIOUS
<1>0. PICK F : Held(F)
  BY DEF IInv
<1>1. ASSUME NEW p \in Procs, Procs = {p}, StartRun(p) \/ Step(p) \/ Crash(p)
      PROVE  DetectInv'
  <2> USE <1>0
  <2> USE LocalTypes DEF runVars, caseVars, storeVars
  <2>1. CASE OpenCase(p) \/ LogDetected(p) \/ Diagnose(p)
    BY <1>1, <2>1, DetectOpens
  <2>2. CASE \/ StartRun(p) \/ SkipTerminal(p) \/ Return(p) \/ Crash(p)
             \/ ParkFailed(p) \/ CloseCase(p) \/ ParkExpired(p)
    <3>1. pc'[p] \in {"idle", "next"}
      BY <2>2 DEF StartRun, SkipTerminal, Return, Crash, ParkFailed, CloseCase, ParkExpired, Go
    <3>2. UNCHANGED audit \/ \E type \in {"policy_verdict", "case_terminal"} :
            \E c, turn, what, link : Append(Event(c, type, job[p].by, turn, what, link))
      BY <2>2 DEF StartRun, SkipTerminal, Return, Crash, ParkFailed, CloseCase, ParkExpired, Log
    <3>3. UNCHANGED audit \/ \E e : /\ Append(e)
             /\ e.event_type \notin {"case_detected", "diagnosis_completed"}
      <4>1. CASE ~UNCHANGED audit
        <5>1. PICK type \in {"policy_verdict", "case_terminal"} :
                \E c, turn, what, link : Append(Event(c, type, job[p].by, turn, what, link))
          BY <3>2, <4>1
        <5> QED BY <5>1 DEF Event
      <4> QED BY <4>1
    <3> QED BY <1>1, <3>1, <3>3, DetectMoves
  <2>3. CASE \/ LogVerdict(p) \/ LogAttempt(p) \/ LogResult(p) \/ AskCustomer(p)
             \/ RefuseKilled(p) \/ ExecuteLocally(p) \/ ExecuteInjected(p)
             \/ ExecuteCreate(p) \/ ExecuteNotify(p) \/ Save(p) \/ StopKilled(p)
             \/ NoCustomer(p) \/ SaveAnswer(p) \/ NextTurn(p)
    <3>1. /\ pc[p] \notin {"idle", "next", "detect"}
          /\ pc'[p] \notin {"idle", "next", "detect"}
      BY <2>3 DEF LogVerdict, LogAttempt, LogResult, AskCustomer, RefuseKilled,
         ExecuteLocally, ExecuteInjected, ExecuteCreate, ExecuteNotify, Save, StopKilled,
         NoCustomer, SaveAnswer, NextTurn, Go
    <3>2. cur'[p].case_id = cur[p].case_id
      BY <1>1, <2>3, SameCase DEF Turn, EndOfTurn
    <3>3. UNCHANGED audit \/ \E type \in {"policy_verdict", "action_attempted",
                                          "action_result", "customer_response"} :
            \E what, link : Log(p, type, what, link)
      BY <2>3 DEF LogVerdict, LogAttempt, LogResult, AskCustomer, RefuseKilled,
         ExecuteLocally, ExecuteInjected, ExecuteCreate, ExecuteNotify, Save, StopKilled,
         NoCustomer, SaveAnswer, NextTurn
    <3>4. UNCHANGED audit \/ \E e : /\ Append(e)
             /\ e.event_type \notin {"case_detected", "diagnosis_completed"}
      <4>1. CASE ~UNCHANGED audit
        <5>1. PICK type \in {"policy_verdict", "action_attempted", "action_result",
                            "customer_response"} : \E what, link : Log(p, type, what, link)
          BY <3>3, <4>1
        <5> QED BY <5>1 DEF Event, Log
      <4> QED BY <4>1
    <3> QED BY <1>1, <3>1, <3>2, <3>4, DetectMoves
  <2> QED BY <1>1, <2>1, <2>2, <2>3 DEF Step, Turn, EndOfTurn
<1>2. CASE UNCHANGED vars
  BY <1>2 DEF vars, storeVars, caseVars, DetectInv, Detections, EventsOf
<1> QED BY <1>1, <1>2 DEF Next, Done, Solo

\* A case is detected once, before anything diagnoses it, whatever dies between
\* the two.
THEOREM CasesDetectedOnce == ASSUME Solo PROVE Spec => []DetectedOnce
<1>1. Init => DetectInv
  BY DEF Init, Fresh, DetectInv, Detections, EventsOf
<1>2. DetectInv => DetectedOnce
  <2> SUFFICES ASSUME DetectInv, NEW c \in Cases
               PROVE  /\ Cardinality(Detections(c)) <= 1
                      /\ Detections(c) = {} =>
                           ~\E e \in EventsOf(c) : e.event_type = "diagnosis_completed"
    BY DEF DetectedOnce, Detections
  <2>1. Detections(c) = {} \/ \E e : Detections(c) = {e}
    BY DEF DetectInv
  <2>2. Cardinality(Detections(c)) <= 1
    <3>1. CASE Detections(c) = {}
      <4>1. Cardinality(Detections(c)) = 0
        BY <3>1, FS_EmptySet
      <4> QED BY <4>1
    <3>2. CASE \E e : Detections(c) = {e}
      <4>1. Cardinality(Detections(c)) = 1
        BY <3>2, FS_Singleton
      <4> QED BY <4>1
    <3> QED BY <2>1, <3>1, <3>2
  <2> QED BY <2>2 DEF DetectInv
<1> QED BY <1>1, <1>2, DetectKept, Invariant, PTL DEF Spec

-----------------------------------------------------------------------------
(* Payments on the trail and recovered rows.                                *)

Paid(c) ==
  \E e \in EventsOf(c) : /\ e.event_type = "customer_response"
                         /\ e.what = "paid" /\ HasLink(e.link)

\* The payment is in the memory of a process that is about to save it.
Saving(c) ==
  \E p \in Procs : pc[p] = "apply" /\ cur[p].case_id = c /\ cur[p].status = "recovered"

Unpaid == {c \in Cases : cases[c].status # "recovered" /\ Paid(c) /\ ~Saving(c)}

PaidInv == IsFiniteSet(Unpaid) /\ Cardinality(Unpaid) <= crashes

\* No payment is forgotten by a step that adds no case to those not recovered.
LEMMA UnpaidKept ==
  ASSUME PaidInv, Unpaid' \subseteq Unpaid, crashes' = crashes, crashes \in Nat
  PROVE  PaidInv'
<1>1. IsFiniteSet(Unpaid') /\ Cardinality(Unpaid') <= Cardinality(Unpaid)
  BY FS_Subset DEF PaidInv
<1>2. Cardinality(Unpaid') \in Nat /\ Cardinality(Unpaid) \in Nat
  BY <1>1, FS_CardinalityType DEF PaidInv
<1> QED BY <1>1, <1>2 DEF PaidInv

\* A payment is either in memory, on its way to the row, or none was made.
LEMMA PaidAsks ==
  ASSUME NEW F, Held(F), PaidInv, NEW p \in Procs, Procs = {p}, AskCustomer(p)
  PROVE  PaidInv'
<1> USE LocalTypes DEF runVars
<1> DEFINE answer == Respond(cur[p], action[p], truths[cur[p].case_id])
           new == Answered(cur[p], answer)
           e == Event(cur[p].case_id, "customer_response", job[p].by, step[p],
                      answer.kind, answer.payment_link_id)
<1>1. /\ pc[p] = "outcome" /\ Append(e) /\ UNCHANGED <<cases, crashes>>
      /\ cur' = [cur EXCEPT ![p] = new]
      /\ pc' = [pc EXCEPT ![p] = IF cur'[p] = cur[p] THEN "close" ELSE "apply"]
  BY DEF AskCustomer, Log
<1>2. answer.kind = "paid" => Open(cur[p])
  BY <1>1 DEF Respond, TurnOK
<1>3. answer.kind = "paid" /\ HasLink(answer.payment_link_id) => new.status = "recovered"
  BY StatusUpdate DEF Answered, CaseStatus
<1>4. /\ e.case_id = cur[p].case_id
      /\ e.what = answer.kind /\ e.link = answer.payment_link_id
  BY DEF Event
<1>5. new.case_id = cur[p].case_id
  BY AnswerStatus
<1> HIDE DEF answer, new, e
<1>6. /\ cur'[p] = new
      /\ pc'[p] = IF new = cur[p] THEN "close" ELSE "apply"
  BY <1>1 DEF Held, TypeOK
<1>7. \A c : ~Saving(c)
  BY <1>1 DEF Saving
<1>8. CASE answer.kind = "paid" /\ HasLink(answer.payment_link_id)
  <2>1. pc'[p] = "apply" /\ new.status = "recovered"
    BY <1>2, <1>3, <1>6, <1>8 DEF Open, Terminal
  <2>2. \A c : c = cur[p].case_id => Saving(c)'
    BY <1>5, <1>6, <2>1 DEF Saving
  <2>3. \A c : c # cur[p].case_id => EventsOf(c)' = EventsOf(c)
    BY <1>1, <1>4 DEF EventsOf, Append
  <2>4. Unpaid' \subseteq Unpaid
    BY <1>1, <1>7, <2>2, <2>3 DEF Unpaid, Paid
  <2> QED BY <1>1, <2>4, UnpaidKept
<1>9. CASE ~(answer.kind = "paid" /\ HasLink(answer.payment_link_id))
  <2>1. \A c : Paid(c)' => Paid(c)
    BY <1>1, <1>4, <1>9 DEF Paid, EventsOf, Append
  <2>2. Unpaid' \subseteq Unpaid
    BY <1>1, <1>7, <2>1 DEF Unpaid
  <2> QED BY <1>1, <2>2, UnpaidKept
<1> QED BY <1>8, <1>9

\* A save writes the payment it holds, and takes none back.
LEMMA PaidSaves ==
  ASSUME NEW F, Held(F), SoloInv, PaidInv, NEW p \in Procs, Procs = {p},
         Save(p) \/ SaveAnswer(p) \/ StopKilled(p)
  PROVE  PaidInv'
<1> USE LocalTypes DEF runVars, caseVars
<1>1. /\ UNCHANGED <<audit, crashes>> /\ Upsert(cur'[p])
      /\ \/ pc[p] \in {"save", "outcome"} /\ pc'[p] \in {"result", "close"}
         \/ pc[p] = "apply" /\ pc'[p] = "close" /\ UNCHANGED cur
  BY DEF Save, SaveAnswer, StopKilled, Go
<1>2. cur'[p].case_id = cur[p].case_id /\ cur[p].case_id \in Cases
  BY SameCase DEF Turn, EndOfTurn, CurOK, Save, SaveAnswer, StopKilled, Go
<1>3. Open(cases[cur[p].case_id])
  BY SoloSaves DEF Alone
<1>4. /\ \A c \in Cases \ {cur[p].case_id} : cases'[c] = cases[c]
      /\ cases'[cur[p].case_id] = cur'[p]
  BY <1>1, <1>2 DEF Upsert
<1>5. \A c : Paid(c)' = Paid(c) /\ ~Saving(c)'
  BY <1>1 DEF Paid, EventsOf, Saving
<1>6. \A c : Saving(c) => /\ c = cur[p].case_id /\ pc[p] = "apply"
                          /\ cur[p].status = "recovered"
  BY DEF Saving
<1>7. Unpaid' \subseteq Unpaid
  <2> SUFFICES ASSUME NEW c \in Unpaid' PROVE c \in Unpaid
    OBVIOUS
  <2>1. c \in Cases /\ cases'[c].status # "recovered" /\ Paid(c)
    BY <1>5 DEF Unpaid
  <2>2. cases[c].status # "recovered"
    BY <1>3, <1>4, <2>1 DEF Open, Terminal
  <2>3. ~Saving(c)
    BY <1>1, <1>4, <1>6, <2>1
  <2> QED BY <2>1, <2>2, <2>3 DEF Unpaid
<1> QED BY <1>1, <1>7, UnpaidKept

\* Of a lone process every step keeps the payments; a death costs one at most.
LEMMA PaidKept == Solo /\ IInv /\ SoloInv /\ PaidInv /\ [Next]_vars => PaidInv'
<1> SUFFICES ASSUME Solo, IInv, SoloInv, PaidInv, [Next]_vars PROVE PaidInv'
  OBVIOUS
<1>0. PICK F : Held(F)
  BY DEF IInv
<1>1. ASSUME NEW p \in Procs, Procs = {p}, StartRun(p) \/ Step(p) \/ Crash(p)
      PROVE  PaidInv'
  <2> USE <1>0
  <2> USE LocalTypes DEF runVars, caseVars, storeVars
  <2>1. CASE AskCustomer(p)
    BY <1>1, <2>1, PaidAsks
  <2>2. CASE Save(p) \/ SaveAnswer(p) \/ StopKilled(p)
    BY <1>1, <2>2, PaidSaves
  <2>3. CASE Crash(p)
    <3>1. UNCHANGED <<cases, audit, cur>> /\ crashes' = crashes + 1
      BY <2>3 DEF Crash
    <3>2. \A c : EventsOf(c)' = EventsOf(c)
      BY <3>1 DEF EventsOf
    <3>3. \A c : Saving(c) => c = cur[p].case_id
      BY <1>1 DEF Saving
    <3>4. Unpaid' \subseteq Unpaid \cup {cur[p].case_id}
      BY <3>1, <3>2, <3>3 DEF Unpaid, Paid
    <3>5. /\ IsFiniteSet(Unpaid) /\ Cardinality(Unpaid) \in Nat
          /\ Cardinality(Unpaid) <= crashes
      BY FS_CardinalityType DEF PaidInv
    <3>6. /\ IsFiniteSet(Unpaid \cup {cur[p].case_id})
          /\ Cardinality(Unpaid \cup {cur[p].case_id}) =
               IF cur[p].case_id \in Unpaid THEN Cardinality(Unpaid) ELSE Cardinality(Unpaid) + 1
      BY <3>5, FS_AddElement
    <3>7. /\ IsFiniteSet(Unpaid') /\ Cardinality(Unpaid') \in Nat
          /\ Cardinality(Unpaid') <= Cardinality(Unpaid \cup {cur[p].case_id})
      BY <3>4, <3>6, FS_Subset, FS_CardinalityType
    <3> QED BY <3>1, <3>5, <3>6, <3>7 DEF PaidInv
  <2>4. CASE \/ StartRun(p) \/ SkipTerminal(p) \/ OpenCase(p) \/ LogDetected(p) \/ Return(p)
             \/ Diagnose(p) \/ LogVerdict(p) \/ LogAttempt(p) \/ RefuseKilled(p)
             \/ ExecuteLocally(p) \/ ExecuteInjected(p) \/ ExecuteCreate(p)
             \/ ExecuteNotify(p) \/ LogResult(p) \/ ParkFailed(p) \/ NoCustomer(p)
             \/ CloseCase(p) \/ NextTurn(p) \/ ParkExpired(p)
    <3>1. /\ UNCHANGED <<cases, crashes>> /\ pc[p] # "apply"
      BY <2>4 DEF StartRun, SkipTerminal, OpenCase, LogDetected, Return, Diagnose, LogVerdict,
         LogAttempt, RefuseKilled, ExecuteLocally, ExecuteInjected, ExecuteCreate,
         ExecuteNotify, LogResult, ParkFailed, NoCustomer, CloseCase, NextTurn, ParkExpired, Go
    <3>2. UNCHANGED audit \/ \E type \in AuditEventType \ {"customer_response"} :
            \E c, turn, what, link : Append(Event(c, type, job[p].by, turn, what, link))
      <4>1. CASE \/ StartRun(p) \/ OpenCase(p) \/ Return(p) \/ RefuseKilled(p)
                 \/ ExecuteLocally(p) \/ ExecuteInjected(p) \/ ExecuteCreate(p)
                 \/ ExecuteNotify(p) \/ NoCustomer(p) \/ NextTurn(p)
        BY <4>1 DEF StartRun, OpenCase, Return, RefuseKilled, ExecuteLocally, ExecuteInjected,
           ExecuteCreate, ExecuteNotify, NoCustomer, NextTurn
      <4>2. CASE \/ SkipTerminal(p) \/ LogDetected(p) \/ Diagnose(p) \/ LogVerdict(p)
                 \/ LogAttempt(p) \/ LogResult(p) \/ ParkFailed(p) \/ CloseCase(p)
                 \/ ParkExpired(p)
        BY <4>2 DEF SkipTerminal, LogDetected, Diagnose, LogVerdict, LogAttempt, LogResult,
           ParkFailed, CloseCase, ParkExpired, Log, AuditEventType
      <4> QED BY <2>4, <4>1, <4>2
    <3>3. \A c : Paid(c)' => Paid(c)
      <4>1. CASE UNCHANGED audit
        BY <4>1 DEF Paid, EventsOf
      <4>2. CASE ~UNCHANGED audit
        <5>1. PICK e : Append(e) /\ e.event_type # "customer_response"
          <6>1. PICK type \in AuditEventType \ {"customer_response"} :
                  \E c, turn, what, link : Append(Event(c, type, job[p].by, turn, what, link))
            BY <3>2, <4>2
          <6> QED BY <6>1 DEF Event
        <5> QED BY <5>1 DEF Paid, EventsOf, Append
      <4> QED BY <4>1, <4>2
    <3>4. \A c : ~Saving(c)
      BY <1>1, <3>1 DEF Saving
    <3>5. Unpaid' \subseteq Unpaid
      BY <3>1, <3>3, <3>4 DEF Unpaid
    <3> QED BY <3>1, <3>5, UnpaidKept
  <2> QED BY <1>1, <2>1, <2>2, <2>3, <2>4 DEF Step, Turn, EndOfTurn
<1>2. CASE UNCHANGED vars
  BY <1>2 DEF vars, storeVars, caseVars, PaidInv, Unpaid, Paid, EventsOf, Saving
<1> QED BY <1>1, <1>2 DEF Next, Done, Solo

\* The report's paid cases are recovered rows, but for one per death and the one
\* being written.
THEOREM PaymentsAreRecovered == ASSUME Solo PROVE Spec => []PaidIsRecovered
<1>1. Init => PaidInv
  <2> SUFFICES ASSUME Init PROVE PaidInv
    OBVIOUS
  <2>1. audit = {} /\ crashes = 0
    BY DEF Init, Fresh
  <2>2. Unpaid = {}
    BY <2>1 DEF Unpaid, Paid, EventsOf
  <2> QED BY <2>1, <2>2, FS_EmptySet DEF PaidInv
<1>2. IInv /\ PaidInv => PaidIsRecovered
  <2> SUFFICES ASSUME IInv, PaidInv PROVE PaidIsRecovered
    OBVIOUS
  <2> DEFINE Missing == {c \in Rows : /\ cases[c].status # "recovered"
                                      /\ Paid(c)
                                      /\ ~\E p \in Procs : pc[p] = "apply" /\ cur[p].case_id = c}
  <2>1. Missing \subseteq Unpaid
    BY DEF Rows, Unpaid, Saving
  <2>2. /\ IsFiniteSet(Unpaid) /\ IsFiniteSet(Missing)
        /\ Cardinality(Missing) <= Cardinality(Unpaid)
    BY <2>1, FS_Subset DEF PaidInv
  <2>3. Cardinality(Missing) \in Nat /\ Cardinality(Unpaid) \in Nat /\ crashes \in Nat
    BY <2>2, FS_CardinalityType, RunnerAssumption DEF IInv, Held, TypeOK
  <2>4. Cardinality(Missing) <= crashes
    BY <2>2, <2>3 DEF PaidInv
  <2> QED BY <2>4 DEF PaidIsRecovered, Paid
<1> QED BY <1>1, <1>2, PaidKept, Invariant, SoloInvariant, PTL DEF Spec

-----------------------------------------------------------------------------
(* Contacts made and contacts counted.                                      *)

Counted(case) == case.link_count + case.reminder_count

\* While a contact is being saved the copy in memory counts it, else the row does.
ContactInv ==
  \A c \in Cases :
    /\ \A p \in Procs : pc[p] = "save" /\ cur[p].case_id = c =>
         Contacted(c) <= Counted(cur[p]) + faults + crashes
    /\ (\A p \in Procs : pc[p] = "save" => cur[p].case_id # c) =>
         Contacted(c) <= Counted(cases[c]) + faults + crashes

\* The executor counts each reply it is given, and takes no count back.
LEMMA DispatchCounts ==
  ASSUME NEW case \in Case, NEW a, a.action_type \in ActionType, NEW reply \in Reply,
         NEW done, done = Dispatch(a, case, reply)
  PROVE  /\ Counted(done.case) \in Nat /\ Counted(case) <= Counted(done.case)
         /\ reply.ok /\ Calls(a, case) # "none" => Counted(done.case) = Counted(case) + 1
<1>1. case.link_count \in Nat /\ case.reminder_count \in Nat /\ reply.id \in LinkId
  BY DEF Case, Reply
<1>2. Counted(Linked(case, reply.id)) = Counted(case) + 1
  BY <1>1, LinkUpdate DEF Counted
<1>3. Counted([case EXCEPT !.reminder_count = @ + 1]) = Counted(case) + 1
  BY <1>1, ReminderUpdate DEF Counted
<1>4. Counted([case EXCEPT !.status = "waiting", !.wait_completed = TRUE]) = Counted(case)
  BY WaitUpdate DEF Counted
<1>5. \A s \in CaseStatus : Counted([case EXCEPT !.status = s]) = Counted(case)
  BY StatusUpdate DEF Counted
<1>6. Counted(case) \in Nat
  BY <1>1 DEF Counted
<1>7. CASE a.action_type = "issue_link"
  <2>1. done = IssueLink(a, case, reply)
    BY <1>7 DEF Dispatch
  <2>2. Calls(a, case) # "none" <=> /\ Amount(a, case) = case.failure.amount_paise
                                    /\ ~HasLink(case.active_payment_link_id)
    BY <1>7 DEF Calls
  <2>3. done.case = IF Calls(a, case) # "none" /\ reply.ok THEN Linked(case, reply.id) ELSE case
    BY <2>1, <2>2 DEF IssueLink, Executed
  <2> QED BY <1>2, <1>6, <2>3
<1>8. CASE a.action_type = "remind"
  <2>1. done = Remind(a, case, reply)
    BY <1>8 DEF Dispatch
  <2>2. Calls(a, case) # "none" <=> HasLink(RemindedLink(a, case))
    BY <1>8 DEF Calls
  <2>3. done.case = IF Calls(a, case) # "none" /\ reply.ok
                    THEN [case EXCEPT !.reminder_count = @ + 1] ELSE case
    BY <2>1, <2>2 DEF Remind, Executed
  <2> QED BY <1>3, <1>6, <2>3
<1>9. CASE a.action_type \in {"wait", "escalate", "stop"}
  <2>1. Calls(a, case) = "none"
    BY <1>9 DEF Calls
  <2>2. \/ done.case = [case EXCEPT !.status = "waiting", !.wait_completed = TRUE]
        \/ \E s \in CaseStatus : done.case = [case EXCEPT !.status = s]
    <3>1. CASE a.action_type = "wait"
      BY <3>1 DEF Dispatch, Wait, Executed
    <3>2. CASE a.action_type = "escalate"
      BY <3>2 DEF Dispatch, Escalate, Executed, CaseStatus
    <3>3. CASE a.action_type = "stop"
      <4> DEFINE s == IF a.rationale = "exhausted" THEN "exhausted" ELSE "stopped"
      <4>1. done.case = [case EXCEPT !.status = s]
        BY <3>3 DEF Dispatch, Stop, Executed
      <4>2. s \in CaseStatus
        BY DEF CaseStatus
      <4> QED BY <4>1, <4>2
    <3> QED BY <1>9, <3>1, <3>2, <3>3
  <2>3. Counted(done.case) = Counted(case)
    <3>1. CASE \E s \in CaseStatus : done.case = [case EXCEPT !.status = s]
      BY <1>5, <3>1
    <3> QED BY <1>4, <2>2, <3>1
  <2> QED BY <1>6, <2>1, <2>3
<1> QED BY <1>7, <1>8, <1>9 DEF ActionType

\* A contact that Razorpay makes without an answer costs one of the lost calls.
LEMMA ServiceCounts ==
  ASSUME RazorpayTypeOK, NEW c \in Cases, NEW n \in Nat, NEW link, NEW reply,
         CreatePaymentLink(c, n, reply) \/ NotifyPaymentLink(c, link, reply)
  PROVE  /\ faults \in Nat /\ faults' \in Nat /\ faults <= faults'
         /\ \A x \in Cases : Contacted(x) \in Nat /\ Contacted(x)' \in Nat
         /\ \A x \in Cases \ {c} : Contacted(x)' = Contacted(x)
         /\ reply.ok => Contacted(c)' <= Contacted(c) + 1
         /\ ~reply.ok => Contacted(c)' <= Contacted(c) + (faults' - faults)
<1>1. /\ created \in [Cases -> Nat] /\ notified \in [Cases -> Nat]
      /\ faults \in Nat
  BY RazorpayAssumption DEF RazorpayTypeOK
<1>2. /\ \/ UNCHANGED <<created, notified>>
         \/ created' = [created EXCEPT ![c] = @ + 1] /\ UNCHANGED notified
         \/ notified' = [notified EXCEPT ![c] = @ + 1] /\ UNCHANGED created
      /\ \/ faults' = faults + 1
         \/ faults' = faults /\ (reply.ok \/ UNCHANGED <<created, notified>>)
  <2>1. CASE CreatePaymentLink(c, n, reply)
    BY <2>1 DEF CreatePaymentLink, MakeLink, Lose, Served, ClientError, razorpayVars
  <2>2. CASE NotifyPaymentLink(c, link, reply)
    BY <2>2 DEF NotifyPaymentLink, SendReminder, Lose, Served, ClientError, razorpayVars
  <2> QED BY <2>1, <2>2
<1> QED BY <1>1, <1>2 DEF Contacted

\* One rung up counts at most one contact more.
LEMMA RisesCounts ==
  ASSUME NEW case \in Case, NEW new \in Case, Shape(case), Shape(new),
         Rises(RungOf(case), RungOf(new))
  PROVE  Counted(case) <= Counted(new) /\ Counted(new) <= Counted(case) + 1
<1> DEFINE r == RungOf(case)
           s == RungOf(new)
<1>1. /\ r.reminders = case.reminder_count /\ s.reminders = new.reminder_count
      /\ r.link = LinkSeen(case.active_payment_link_id)
      /\ s.link = LinkSeen(new.active_payment_link_id)
  BY DEF RungOf
<1>2. /\ case.link_count \in Nat /\ new.link_count \in Nat
      /\ case.reminder_count \in Nat /\ new.reminder_count \in Nat
      /\ DOMAIN r = {"waited", "link", "reminders", "opted_out", "end"}
  BY DEF Case, RungOf
<1> HIDE DEF r, s
<1>3. \/ s.reminders = r.reminders /\ s.link = r.link
      \/ s.reminders = r.reminders + 1 /\ s.link = r.link
      \/ s.reminders = r.reminders /\ r.link = "none"
  BY <1>2 DEF Rises, r, s, RungOf
<1>4. /\ case.link_count <= new.link_count /\ new.link_count <= 1
      /\ s.link = r.link => case.link_count = new.link_count
  BY <1>1, <1>2, RisesAdvance DEF Shape, LinkSeen
<1> QED BY <1>1, <1>2, <1>3, <1>4, RisesAdvance DEF Counted

\* The executor: what Razorpay does beyond what it answers, a lost call pays for.
LEMMA ContactExecutes ==
  ASSUME NEW F, Held(F), cases \in [Cases -> Case],
         SoloInv, ContactInv, NEW p \in Procs, Procs = {p},
         RefuseKilled(p) \/ ExecuteLocally(p) \/ ExecuteInjected(p)
           \/ ExecuteCreate(p) \/ ExecuteNotify(p)
  PROVE  ContactInv'
<1> USE LocalTypes DEF runVars, storeVars
<1>1. /\ pc[p] = "dispatch" /\ pc'[p] = "save" /\ UNCHANGED <<cases, crashes>>
  BY DEF RefuseKilled, ExecuteLocally, ExecuteInjected, ExecuteCreate, ExecuteNotify, Go
<1>2. /\ Row(p) = cur[p] /\ cur[p].case_id \in Cases
      /\ cur'[p].case_id = cur[p].case_id
  BY <1>1, SameCase DEF SoloInv, SoloOK, InStep, CurOK, Turn
<1>3. /\ RazorpayTypeOK /\ faults \in Nat /\ crashes \in Nat
      /\ \A x \in Cases : Contacted(x) \in Nat
      /\ \A x \in Cases : Counted(cases[x]) \in Nat
  BY RazorpayAssumption, RunnerAssumption
     DEF Held, TypeOK, RazorpayTypeOK, Contacted, Counted, Case
<1>4. \A x \in Cases : Contacted(x) <= Counted(cases[x]) + faults + crashes
  BY <1>1 DEF ContactInv
<1>5. PICK c \in Cases : c = cur[p].case_id /\ \A x : Contacted(x) = created[x] + notified[x]
  BY <1>2 DEF Contacted
<1>6. /\ faults' \in Nat /\ faults <= faults'
      /\ \A x \in Cases : Contacted(x)' \in Nat
      /\ \A x \in Cases \ {c} : Contacted(x)' = Contacted(x)
      /\ Counted(cur'[p]) \in Nat
      /\ Contacted(c)' + Counted(cur[p]) + faults <= Contacted(c) + Counted(cur'[p]) + faults'
  <2>1. Counted(cur[p]) \in Nat
    BY DEF Counted
  <2>2. CASE RefuseKilled(p)
    <3>1. UNCHANGED <<created, notified, faults>> /\ cur'[p] = cur[p]
      BY <2>2 DEF RefuseKilled, razorpayVars
    <3>2. \A x : Contacted(x)' = Contacted(x)
      BY <3>1 DEF Contacted
    <3> QED BY <1>3, <2>1, <3>1, <3>2
  <2>3. CASE ExecuteLocally(p) \/ ExecuteInjected(p)
    <3>1. UNCHANGED <<created, notified, faults>>
      BY <2>3 DEF ExecuteLocally, ExecuteInjected, razorpayVars
    <3>2. \A x : Contacted(x)' = Contacted(x)
      BY <3>1 DEF Contacted
    <3>3. ClientError \in Reply /\ Served(DryLink) \in Reply
      BY DEF ClientError, Served, Reply, LinkId
    <3>4. PICK reply \in Reply : Execute(p, reply)
      BY <2>3, <3>3 DEF ExecuteLocally, ExecuteInjected
    <3>5. cur'[p] = Dispatch(action[p], cur[p], reply).case
      BY <3>4 DEF Execute, Held, TypeOK
    <3>6. Counted(cur'[p]) \in Nat /\ Counted(cur[p]) <= Counted(cur'[p])
      BY <3>5, DispatchCounts
    <3> QED BY <1>3, <2>1, <3>1, <3>2, <3>6
  <2>4. CASE ExecuteCreate(p) \/ ExecuteNotify(p)
    <3>1. Reference(p) \in Nat
      BY DEF Reference
    <3>2. PICK reply \in Reply :
            /\ Execute(p, reply)
            /\ \/ CreatePaymentLink(c, Reference(p), reply)
               \/ NotifyPaymentLink(c, RemindedLink(action[p], cur[p]), reply)
      BY <1>5, <2>4 DEF ExecuteCreate, ExecuteNotify
    <3>3. Calls(action[p], cur[p]) # "none"
      BY <2>4 DEF ExecuteCreate, ExecuteNotify
    <3>4. cur'[p] = Dispatch(action[p], cur[p], reply).case
      BY <3>2 DEF Execute, Held, TypeOK
    <3>5. /\ Counted(cur'[p]) \in Nat /\ Counted(cur[p]) <= Counted(cur'[p])
          /\ reply.ok => Counted(cur'[p]) = Counted(cur[p]) + 1
      BY <3>3, <3>4, DispatchCounts
    <3>6. /\ faults' \in Nat /\ faults <= faults'
          /\ \A x \in Cases : Contacted(x)' \in Nat
          /\ \A x \in Cases \ {c} : Contacted(x)' = Contacted(x)
          /\ reply.ok => Contacted(c)' <= Contacted(c) + 1
          /\ ~reply.ok => Contacted(c)' <= Contacted(c) + (faults' - faults)
      BY <1>3, <3>1, <3>2, ServiceCounts
    <3>7. Contacted(c) \in Nat /\ Contacted(c)' \in Nat /\ faults \in Nat
      BY <1>3, <3>6
    <3> QED BY <2>1, <3>5, <3>6, <3>7
  <2> QED BY <2>2, <2>3, <2>4
<1>7. Contacted(c)' <= Counted(cur'[p]) + faults' + crashes
  <2>1. /\ Contacted(c) \in Nat /\ Contacted(c)' \in Nat /\ Counted(cur[p]) \in Nat
        /\ Contacted(c) <= Counted(cur[p]) + faults + crashes
    BY <1>2, <1>3, <1>4, <1>5, <1>6 DEF Row, Counted
  <2> QED BY <1>3, <1>6, <2>1
<1>8. \A x \in Cases \ {c} : Contacted(x)' <= Counted(cases[x]) + faults' + crashes
  BY <1>3, <1>4, <1>6
<1> QED BY <1>1, <1>2, <1>5, <1>7, <1>8 DEF ContactInv, Counted

\* A save moves the count from the copy to the row; no other write lowers it.
LEMMA ContactSaves ==
  ASSUME NEW F, Held(F), Held(F)', cases' \in [Cases -> Case], cases \in [Cases -> Case],
         SoloInv, ContactInv, NEW p \in Procs, Procs = {p},
         Save(p) \/ SaveAnswer(p) \/ StopKilled(p)
  PROVE  ContactInv'
<1> USE LocalTypes DEF runVars, caseVars
<1>1. /\ UNCHANGED <<created, notified, faults, crashes>> /\ Upsert(cur'[p])
      /\ pc'[p] \in {"result", "close"}
      /\ pc[p] = "save" => UNCHANGED cur
  BY DEF Save, SaveAnswer, StopKilled, Go, razorpayVars
<1>2. cur'[p].case_id = cur[p].case_id /\ cur[p].case_id \in Cases
  BY SameCase DEF Turn, EndOfTurn, CurOK, Save, SaveAnswer, StopKilled, Go
<1>3. PICK c \in Cases : c = cur[p].case_id
  BY <1>2
<1>4. Raises(c)
  BY <1>3, SoloSaves DEF Alone
<1>5. cases'[c] = cur'[p] /\ \A x \in Cases \ {c} : cases'[x] = cases[x]
  BY <1>1, <1>2, <1>3 DEF Upsert
<1>6. /\ faults \in Nat /\ crashes \in Nat
      /\ \A x \in Cases : Contacted(x) \in Nat /\ Contacted(x)' = Contacted(x)
      /\ \A x \in Cases : Counted(cases[x]) \in Nat /\ Counted(cases'[x]) \in Nat
  <2>1. created \in [Cases -> Nat] /\ notified \in [Cases -> Nat]
    BY DEF Held, TypeOK, RazorpayTypeOK
  <2>2. cases \in [Cases -> Case] /\ cases' \in [Cases -> Case]
    BY DEF Held
  <2>3. faults \in Nat /\ crashes \in Nat
    BY RazorpayAssumption, RunnerAssumption DEF Held, TypeOK, RazorpayTypeOK
  <2> QED BY <1>1, <2>1, <2>2, <2>3 DEF Contacted, Counted, Case
<1>7. Contacted(c) <= Counted(cases'[c]) + faults + crashes
  <2>1. CASE pc[p] = "save"
    BY <1>1, <1>3, <1>5, <2>1 DEF ContactInv, Counted
  <2>2. CASE pc[p] # "save"
    <3>1. /\ cases[c] \in Case /\ cases'[c] \in Case
          /\ Shape(cases[c]) /\ Shape(cases'[c])
      BY StoreAssumption DEF Held, Rows, CopyOf, RowsInv
    <3>2. Counted(cases[c]) <= Counted(cases'[c])
      BY <1>4, <1>6, <3>1, RisesCounts DEF Raises
    <3>3. Contacted(c) <= Counted(cases[c]) + faults + crashes
      BY <2>2 DEF ContactInv
    <3> QED BY <1>6, <3>2, <3>3
  <2> QED BY <2>1, <2>2
<1>8. \A x \in Cases \ {c} : Contacted(x) <= Counted(cases'[x]) + faults + crashes
  BY <1>3, <1>5 DEF ContactInv
<1> QED BY <1>1, <1>6, <1>7, <1>8 DEF ContactInv, Counted

\* Dying while a contact is being saved forgets one; nothing else touches a count.
LEMMA ContactRest ==
  ASSUME NEW F, Held(F), cases \in [Cases -> Case],
         SoloInv, ContactInv, NEW p \in Procs, Procs = {p},
         UNCHANGED <<cases, created, notified, faults>>,
         \/ pc[p] # "save" /\ crashes' \in {crashes, crashes + 1} /\ pc'[p] # "save"
         \/ Crash(p)
  PROVE  ContactInv'
<1> USE LocalTypes
<1>1. /\ faults \in Nat /\ crashes \in Nat
      /\ \A x \in Cases : Contacted(x) \in Nat /\ Contacted(x)' = Contacted(x)
      /\ \A x \in Cases : Counted(cases[x]) \in Nat
  BY RazorpayAssumption, RunnerAssumption
     DEF Held, TypeOK, RazorpayTypeOK, Contacted, Counted, Case
<1>2. pc'[p] # "save" /\ crashes' \in {crashes, crashes + 1}
  BY DEF Crash
<1>3. ASSUME NEW c \in Cases
      PROVE  Contacted(c) <= Counted(cases[c]) + faults + crashes'
  <2>1. CASE pc[p] = "save" /\ cur[p].case_id = c
    <3>1. Contacted(c) <= Counted(cur[p]) + faults + crashes /\ crashes' = crashes + 1
      BY <2>1 DEF ContactInv, Crash
    <3>2. /\ Row(p) = cases[c] /\ cases[c] \in Case /\ Shape(cases[c]) /\ Shape(cur[p])
          /\ cases[c] = cur[p] \/ Rises(RungOf(cases[c]), RungOf(cur[p]))
      BY <2>1 DEF Row, SoloInv, SoloOK, InStep, Rows, CopyOf, Held, RowsInv, CurOK
    <3>3. Counted(cur[p]) \in Nat /\ Counted(cur[p]) <= Counted(cases[c]) + 1
      <4>1. Counted(cur[p]) \in Nat
        BY DEF Counted
      <4> QED BY <1>1, <3>2, <4>1, RisesCounts
    <3> QED BY <1>1, <3>1, <3>3
  <2>2. CASE ~(pc[p] = "save" /\ cur[p].case_id = c)
    <3>1. Contacted(c) <= Counted(cases[c]) + faults + crashes
      BY <2>2 DEF ContactInv
    <3> QED BY <1>1, <1>2, <3>1
  <2> QED BY <2>1, <2>2
<1> QED BY <1>1, <1>2, <1>3 DEF ContactInv, Counted

\* Of a lone process every step keeps the contacts.
LEMMA ContactKept ==
  Solo /\ IInv /\ IInv' /\ SoloInv /\ ContactInv /\ [Next]_vars => ContactInv'
<1> SUFFICES ASSUME Solo, IInv, IInv', SoloInv, ContactInv, [Next]_vars
             PROVE  ContactInv'
  OBVIOUS
<1>0. PICK F : F = RowFailures
  OBVIOUS
<1>a. Held(F) /\ cases \in [Cases -> Case] /\ cases' \in [Cases -> Case]
  BY <1>0 DEF IInv
<1>1. ASSUME NEW p \in Procs, Procs = {p}, StartRun(p) \/ Step(p) \/ Crash(p)
      PROVE  ContactInv'
  <2> USE <1>a DEF runVars, caseVars, storeVars, razorpayVars
  <2>0. Held(F)' /\ pc \in [Procs -> PC]
    BY <1>1, StepKeeps, LocalTypes
  <2>1. CASE \/ RefuseKilled(p) \/ ExecuteLocally(p) \/ ExecuteInjected(p)
             \/ ExecuteCreate(p) \/ ExecuteNotify(p)
    BY <1>1, <2>1, ContactExecutes
  <2>2. CASE Save(p) \/ SaveAnswer(p) \/ StopKilled(p)
    BY <1>1, <2>0, <2>2, ContactSaves
  <2>3. CASE Crash(p)
    <3>1. UNCHANGED <<cases, created, notified, faults>>
      BY <2>3 DEF Crash
    <3> QED BY <1>1, <2>3, <3>1, ContactRest
  <2>4. CASE \/ StartRun(p) \/ SkipTerminal(p) \/ OpenCase(p) \/ LogDetected(p) \/ Return(p)
             \/ Diagnose(p) \/ LogVerdict(p) \/ LogAttempt(p) \/ LogResult(p)
             \/ ParkFailed(p) \/ AskCustomer(p) \/ NoCustomer(p) \/ CloseCase(p)
             \/ NextTurn(p) \/ ParkExpired(p)
    <3>1. /\ UNCHANGED <<cases, created, notified, faults, crashes>>
          /\ pc[p] # "save" /\ pc'[p] # "save"
      BY <2>0, <2>4 DEF StartRun, SkipTerminal, OpenCase, AfterOpen, LogDetected, Return, Diagnose,
         LogVerdict, LogAttempt, LogResult, ParkFailed, AskCustomer, NoCustomer, CloseCase,
         NextTurn, ParkExpired, Go
    <3> QED BY <1>1, <3>1, ContactRest
  <2> QED BY <1>1, <2>1, <2>2, <2>3, <2>4 DEF Step, Turn, EndOfTurn
<1>2. CASE UNCHANGED vars
  <2>1. UNCHANGED <<cases, created, notified, faults, crashes, pc, cur>>
    BY <1>2 DEF vars, storeVars, razorpayVars, caseVars
  <2> QED BY <2>1 DEF ContactInv, Contacted, Counted
<1> QED BY <1>1, <1>2 DEF Next, Done, Solo

\* What Razorpay did for a case exceeds what its row counts by no more than the
\* lost calls, the deaths and the write being saved, for any caps and bounds.
THEOREM ContactsAreAccounted == ASSUME Solo PROVE Spec => []ContactsAccounted
<1>1. Init => ContactInv
  <2> SUFFICES ASSUME Init PROVE ContactInv
    OBVIOUS
  <2>1. /\ created = [c \in Cases |-> 0] /\ notified = [c \in Cases |-> 0]
        /\ faults = 0 /\ crashes = 0 /\ pc = [p \in Procs |-> "idle"]
        /\ \A c \in Cases : cases[c].link_count = 0 /\ cases[c].reminder_count = 0
    BY DEF Init, Fresh, RazorpayInit, NewCase
  <2> QED BY <2>1 DEF ContactInv, Contacted, Counted
<1>2. Solo /\ IInv /\ SoloInv /\ ContactInv => ContactsAccounted
  <2> SUFFICES ASSUME IInv, SoloInv, ContactInv, NEW p \in Procs, Procs = {p}, NEW c \in Rows
               PROVE  Contacted(c) <= cases[c].link_count + cases[c].reminder_count
                        + faults + crashes
                        + Cardinality({q \in Procs : pc[q] = "save" /\ cur[q].case_id = c})
    BY DEF ContactsAccounted, Solo
  <2> DEFINE Savers == {q \in Procs : pc[q] = "save" /\ cur[q].case_id = c}
  <2> DEFINE F == RowFailures
  <2>0. Held(F) /\ cases \in [Cases -> Case]
    BY DEF IInv
  <2> HIDE DEF F
  <2>1. /\ c \in Cases /\ Contacted(c) \in Nat /\ Counted(cases[c]) \in Nat
        /\ Counted(cases[c]) = cases[c].link_count + cases[c].reminder_count
        /\ faults \in Nat /\ crashes \in Nat
    BY <2>0, RazorpayAssumption, RunnerAssumption
       DEF Rows, Held, TypeOK, RazorpayTypeOK, Contacted, Counted, Case
  <2>2. CASE pc[p] = "save" /\ cur[p].case_id = c
    <3>1. Savers = {p}
      BY <2>2
    <3>2. Cardinality(Savers) = 1
      BY <3>1, FS_Singleton
    <3>3. /\ cases[c] \in Case /\ Shape(cases[c]) /\ Shape(cur[p])
          /\ cases[c] = cur[p] \/ Rises(RungOf(cases[c]), RungOf(cur[p]))
      BY <2>0, <2>1, <2>2 DEF Row, SoloInv, SoloOK, InStep, Rows, CopyOf, Held, RowsInv, CurOK
    <3>4. Counted(cur[p]) \in Nat /\ Counted(cur[p]) <= Counted(cases[c]) + 1
      <4>1. Counted(cur[p]) \in Nat /\ cur[p] \in Case
        BY <2>0, LocalTypes DEF Counted
      <4> QED BY <2>1, <3>3, <4>1, RisesCounts
    <3>5. Contacted(c) <= Counted(cur[p]) + faults + crashes
      BY <2>1, <2>2 DEF ContactInv
    <3> QED BY <2>1, <3>2, <3>4, <3>5
  <2>3. CASE ~(pc[p] = "save" /\ cur[p].case_id = c)
    <3>1. Savers = {}
      BY <2>3
    <3>2. Cardinality(Savers) = 0
      BY <3>1, FS_EmptySet
    <3>3. Contacted(c) <= Counted(cases[c]) + faults + crashes
      BY <2>1, <2>3 DEF ContactInv
    <3> QED BY <2>1, <3>2, <3>3
  <2> QED BY <2>2, <2>3
<1> QED BY <1>1, <1>2, ContactKept, Invariant, SoloInvariant, PTL DEF Spec
=============================================================================
