------------------------- MODULE CommandsProperties --------------------------
(***************************************************************************)
(* What must hold of the database while the commands work on it together,  *)
(* and sentences of the documents that fail when they do.                  *)
(***************************************************************************)
EXTENDS Commands, RunnerRefinement

\* Whatever detect and seed write over a running batch, each row stays one that
\* the ladder knows: detect hands back a row as it read it, seed a new one.
RowsStayWellFormed == \A c \in Rows : cases[c].case_id = c /\ Shape(cases[c])

\* A batch on record is whole: each of its cases has its row and its customer,
\* although seed commits them one by one and may die in between.  Else a
\* simulated case would be worked as a detected one, that nobody answers for.
RecordedBatchIsWhole ==
  recorded => \A c \in Batch : cases[c] # NoCase /\ truths[c] = batch[c].truth

\* Only seed takes a case back: detect and run, one after the other and however
\* they die, leave every row at least where it was, and a terminal one as it was.
OnlySeedTakesBack ==
  [][spc = spc' =>
       \A c \in Rows :
         /\ cases'[c] # NoCase
         /\ cases[c].link_count <= cases'[c].link_count
         /\ cases[c].reminder_count <= cases'[c].reminder_count
         /\ cases[c].opted_out => cases'[c].opted_out
         /\ cases[c].wait_completed => cases'[c].wait_completed
         /\ cases[c].status \in Terminal => cases'[c] = cases[c]]_allVars

\* README invariant 2, "Every decision is audited": commands that follow one
\* another leave no ended row without what ended it, the payment on its link, the
\* verdict that stopped or exhausted it or sent it to a human.  The trail goes
\* before the rows when seed is forced, so it takes a death to part them.
EndsAreAudited == crashes = 0 /\ spc # "delete" => StatusBackedByTrail

\* A seed that is not killed any more leaves its batch on record, also when an
\* earlier one died half-way through.
SeedCompletes == spc # "idle" /\ crashes = MaxCrashes ~> recorded

\* cli.py detect, "Read failed Razorpay payments and upsert them as cases":
\* once nothing dies any more, each payment listed gets its row, unless one in
\* a foreign currency comes before it and ends the command.
ListedBecomeCases ==
  \A c \in Payments :
    /\ c \in listed /\ listed \cap Foreign = {}
    /\ crashes = MaxCrashes
    ~> cases[c] # NoCase

\* The report's two ways to count recoveries agree, because the rows are read
\* before the trail that is written ahead of them: a run between the two reads
\* can make a case recovered by trail and not yet by row, never the reverse.  So
\* no case falls between the lists, which cover the cases: what is not recovered,
\* stopped or escalated is exhausted or an exception.  A case may be on two, where
\* a payment is on the trail and the row that was to be recovered never saved.
RecoveriesAgree ==
  rpc = "built" =>
    /\ {c \in Reported : ReportOutcome(c) = "recovered"} = RecoveredCases
    /\ Reported = UNION {RecoveredCases, ExceptionList, PolicyStopList,
                         WithStatus("escalated"), WithStatus("exhausted")}

\* Every case the report hands to a human says why, and the cause and the
\* rationale, found separately in the trail, are of the same decision, as long as
\* runs follow one another and no seed makes a case new while report reads.
EscalationsExplained ==
  rpc = "built" =>
    \A e \in Escalations :
      /\ e.cause # "none" /\ e.rationale # "none"
      /\ e.rationale = "ambiguous" => e.cause = "ambiguous"
      /\ e.rationale = "low_confidence" => e.cause # "ambiguous"

\* The evaluator's list of profiles that would pay covers every customer that
\* did: a recovered simulated case is one the capture rate counts as captured.
RecoveredAreCaptured ==
  rpc = "built" => \A c \in RecoveredCases : seen.truths[c] # NoTruth => c \in Captured

\* Every link and reminder Razorpay was asked for is among the action counts of
\* the report, as the attempt is on the trail before the call leaves: lost
\* answers and dead invocations hide none (README invariant 8).
ContactsAreCounted ==
  \A c \in Cases :
    /\ created[c] <= ActionCount(EventsOf(c), "issue_link")
    /\ notified[c] <= ActionCount(EventsOf(c), "remind")

-----------------------------------------------------------------------------
(* Sentences of the documents that the code does not keep.                  *)

\* detector.py, "Idempotent: same case_id keeps terminal/in-progress state on
\* re-detect": a write of detect changes nothing of a row but its failure.
RedetectKeepsState ==
  [][dpc = "write" /\ dpc' = "read" /\ cases[merging.id] # NoCase =>
       LET c == merging.id
       IN cases'[c] = [cases[c] EXCEPT !.failure = cases'[c].failure]]_allVars

\* README invariant 3, "opt-out is a permanent stop".
OptOutIsPermanent ==
  [][\A c \in Rows : cases[c].opted_out => cases'[c] # NoCase /\ cases'[c].opted_out]_allVars
=============================================================================
