-------------------------------- MODULE Store -------------------------------
(***************************************************************************)
(* The SQLite file every command opens (src/payrecover/store.py, audit.py):*)
(* the rows of cases, the hidden ground truth, and the append-only audit   *)
(* table.  Each write below is one committed transaction; nothing commits  *)
(* two of them together, so a process can die between any two.             *)
(***************************************************************************)
EXTENDS Models, FiniteSets

CONSTANTS Cases,     \* case ids; their order is the one of ORDER BY case_id
          NoCase,    \* no row with that id
          NoTruth    \* no ground truth for that id

ASSUME StoreAssumption ==
  /\ Cases \subseteq Nat
  /\ NoCase \notin Case
  /\ NoTruth \notin GroundTruth

VARIABLES cases, truths, audit

storeVars == <<cases, truths, audit>>

StoreTypeOK ==
  /\ cases \in [Cases -> Case \cup {NoCase}]
  /\ truths \in [Cases -> GroundTruth \cup {NoTruth}]
  /\ audit \subseteq AuditEvent

Rows == {c \in Cases : cases[c] # NoCase}

Upsert(case) == cases' = [cases EXCEPT ![case.case_id] = case]

Event(c, type, by, turn, what, link) ==
  [case_id |-> c, event_type |-> type, by |-> by, step |-> turn,
   what |-> what, link |-> link]

\* event_id is a fresh uuid; within one turn no event type is written twice, so
\* a set of rows loses none of them.
Append(event) == audit' = audit \cup {event}

EventsOf(c) == {e \in audit : e.case_id = c}

\* The rows of a case with one of the given payloads.
Logged(c, type, whats) == \E e \in EventsOf(c) : e.event_type = type /\ e.what \in whats
=============================================================================
