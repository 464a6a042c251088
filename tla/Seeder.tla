------------------------------- MODULE Seeder --------------------------------
(***************************************************************************)
(* The `seed` command (src/payrecover/simulator/batchgen.py, cli.py): a    *)
(* batch is written case by case, a row and its ground truth in a commit   *)
(* each, and recorded in a last one; --force first wipes the database, in  *)
(* two commits of its own.  One operator seeds; the batch of a seed number *)
(* is the same each time.                                                  *)
(***************************************************************************)
EXTENDS Store

CONSTANTS Batch,     \* case ids of the batch
          Forces,    \* values of --force among the invocations
          MaxSeeds   \* bound: invocations that do anything

ASSUME SeederAssumption ==
  /\ Batch \subseteq Cases
  /\ Forces \subseteq BOOLEAN
  /\ MaxSeeds \in Nat

VARIABLES batch,      \* the failure and the hidden truth of each case of the batch
          recorded,   \* the batches table holds it
          spc,        \* what seed does next
          left,       \* cases still to write
          seeds

seederVars == <<batch, recorded, spc, left, seeds>>

SeederTypeOK ==
  /\ batch \in [Batch -> [failure : Failure, truth : GroundTruth]]
  /\ recorded \in BOOLEAN
  /\ spc \in {"idle", "drop", "delete", "case", "truth"}
  /\ left \subseteq Batch
  /\ seeds \in 0..MaxSeeds

SeederInit == recorded = FALSE /\ spc = "idle" /\ left = {} /\ seeds = 0

\* A batch on record is left alone unless --force.
StartSeed ==
  /\ spc = "idle" /\ seeds < MaxSeeds
  /\ \E force \in Forces :
       /\ force \/ ~recorded
       /\ spc' = IF force THEN "drop" ELSE "case"
  /\ left' = Batch /\ seeds' = seeds + 1
  /\ UNCHANGED <<storeVars, batch, recorded>>

\* wipe, first commit: the audit table is dropped and made anew.
DropTrail ==
  /\ spc = "drop"
  /\ spc' = "delete" /\ audit' = {}
  /\ UNCHANGED <<cases, truths, batch, recorded, left, seeds>>

\* Mutant: wipe leaves the rows to be overwritten by the new batch.
DeleteBatchOnly ==
  /\ spc = "delete"
  /\ spc' = "case" /\ recorded' = FALSE
  /\ UNCHANGED <<storeVars, batch, left, seeds>>

\* wipe, second commit: truths, rows and batches.
DeleteRows ==
  /\ spc = "delete"
  /\ spc' = "case" /\ recorded' = FALSE
  /\ cases' = [c \in Cases |-> NoCase]
  /\ truths' = [c \in Cases |-> NoTruth]
  /\ UNCHANGED <<audit, batch, left, seeds>>

First(c) == c \in left /\ \A d \in left : c <= d

SeedCase ==
  /\ spc = "case"
  /\ \E c \in left : First(c) /\ Upsert(NewCase(c, batch[c].failure))
  /\ spc' = "truth"
  /\ UNCHANGED <<truths, audit, batch, recorded, left, seeds>>

SeedTruth ==
  /\ spc = "truth"
  /\ \E c \in left :
       /\ First(c)
       /\ truths' = [truths EXCEPT ![c] = batch[c].truth]
       /\ left' = left \ {c}
  /\ spc' = "case"
  /\ UNCHANGED <<cases, audit, batch, recorded, seeds>>

\* Mutant: the batch is recorded before its cases are written.
WrittenAnyway == TRUE

Written == left = {}

\* Mutant: the insert into batches is not committed.
RecordUncommitted ==
  /\ spc = "case" /\ Written
  /\ spc' = "idle" /\ left' = {}
  /\ UNCHANGED <<storeVars, batch, recorded, seeds>>

RecordBatch ==
  /\ spc = "case" /\ Written
  /\ spc' = "idle" /\ recorded' = TRUE /\ left' = {}
  /\ UNCHANGED <<storeVars, batch, seeds>>

SeedStep == DropTrail \/ DeleteRows \/ SeedCase \/ SeedTruth \/ RecordBatch

DieSeeding ==
  /\ spc # "idle"
  /\ spc' = "idle" /\ left' = {}
  /\ UNCHANGED <<storeVars, batch, recorded, seeds>>
=============================================================================
