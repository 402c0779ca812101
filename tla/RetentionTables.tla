--------------------------- MODULE RetentionTables ---------------------------
(***************************************************************************)
(* What retention_actions and retention_results hold, and what the service *)
(* reports of it.  Shared by the abstract ledger and the coordinator.      *)
(***************************************************************************)
EXTENDS Naturals, Sequences, Functions

CONSTANTS
  Callers,           \* caller Instances
  RetentionCallers,  \* config.retention_callers
  Actions,           \* action_id values
  Intents,           \* scope_kind, scope_id, subject, mode and trimmed reason
  Guards,            \* Instances that may be bound as Retention Guards
  Participants,      \* Instances that may be bound as Retention Participants
  Compositions,      \* [guards, participants]: the Plans the App may resolve
  Receipts,          \* well-formed receipts
  NoReceipt,         \* SQL NULL in retention_results.receipt
  NoRow,             \* no row in retention_actions
  NoIntent           \* read_retention carries no intent

ASSUME CallerAssumption == RetentionCallers \subseteq Callers
ASSUME ReceiptAssumption == NoReceipt \notin Receipts

(* The handler refuses any other composition before it asks a guard        *)
(* (lib.rs:451-472).                                                       *)
ASSUME CompositionAssumption ==
  Compositions \subseteq [guards : Seq(Guards), participants : Seq(Participants)]
ASSUME PlanAssumption ==
  \A c \in Compositions : c.participants # << >> /\ IsInjective(c.guards)

(* A row of retention_actions: RetentionIdentity. *)
Rows == [owner : RetentionCallers, intent : Intents,
         participants : {c.participants : c \in Compositions}]

ASSUME RowAssumption == NoRow \notin Rows

(* A row of retention_results, or its absence. *)
Absent == [status |-> "absent", receipt |-> NoReceipt]
Rejected == [status |-> "rejected", receipt |-> NoReceipt]
CompletedWith(r) == [status |-> "completed", receipt |-> r]
Results == {Absent, Rejected} \cup {CompletedWith(r) : r \in Receipts}

(* One line of a report. *)
Pending == [status |-> "pending", receipt |-> NoReceipt]
Lines == {Pending, Rejected} \cup {CompletedWith(r) : r \in Receipts}

(* The report lists the frozen participants; one without a row is pending. *)
ReportOf(row, stored) ==
  [p \in Range(row.participants) |-> IF stored[p] = Absent THEN Pending ELSE stored[p]]

Reports == UNION {[S -> Lines] : S \in SUBSET Participants}

NoReport == [p \in {} |-> Pending]

(* Mutant: a participant without a row is overlooked. *)
StatusOfRows(report) ==
  IF \E p \in DOMAIN report : report[p] = Rejected THEN "partial" ELSE "completed"

StatusOf(report) ==
  IF \E p \in DOMAIN report : report[p] = Pending THEN "in_progress"
  ELSE IF \E p \in DOMAIN report : report[p] = Rejected THEN "partial"
  ELSE "completed"

(* What a caller sends. *)
Requests == [op : {"execute", "read"}, caller : Callers, action : Actions,
             intent : Intents \cup {NoIntent}]

(* What it may be told: a Domain error, a RuntimeFailure ("failed") or ok.  *)
Refusals == {"forbidden", "invalid_request", "blocked_by_guard", "idempotency_conflict",
             "not_found"}
=============================================================================
