--------------------------- MODULE RetentionLedger ---------------------------
(***************************************************************************)
(* What lenso.data-retention@1 promises, without invocations, statements   *)
(* or races: a ledger in which an action is frozen once, every frozen      *)
(* participant moves from no entry through rejections to one completion    *)
(* that never changes, and every answer is one look at the ledger as it    *)
(* is when the answer is given.                                            *)
(***************************************************************************)
EXTENDS RetentionTables

VARIABLES
  actions,  \* action_id -> frozen row, or NoRow
  results,  \* action_id -> participant -> entry
  issued,   \* action_id -> participant -> receipts it has issued
  reply     \* the answer given by the latest step, if it gave one

ledger == <<actions, results, issued, reply>>

Replies == [kind : Refusals \cup {"failed", "ok"}, to : Requests, report : Reports]
NoReply == [kind |-> "none"]

Init ==
  /\ actions = [a \in Actions |-> NoRow]
  /\ results = [a \in Actions |-> [p \in Participants |-> Absent]]
  /\ issued = [a \in Actions |-> [p \in Participants |-> {}]]
  /\ reply = NoReply

FrozenFor(a, p) == actions[a] # NoRow /\ p \in Range(actions[a].participants)

Freeze(a, row) ==
  /\ actions[a] = NoRow
  /\ actions' = [actions EXCEPT ![a] = row]
  /\ UNCHANGED <<results, issued>>

(* Only a participant of the frozen list ever acts. *)
Perform(a, p, r) ==
  /\ FrozenFor(a, p)
  /\ issued' = [issued EXCEPT ![a][p] = @ \cup {r}]
  /\ UNCHANGED <<actions, results>>

(* An unfinished entry takes a rejection or a receipt the participant issued. *)
Record(a, p, entry) ==
  /\ FrozenFor(a, p)
  /\ results[a][p] \in {Absent, Rejected}
  /\ entry \in {Rejected} \cup {CompletedWith(r) : r \in issued[a][p]}
  /\ results' = [results EXCEPT ![a][p] = entry]
  /\ UNCHANGED <<actions, issued>>

(* The owner, asking for the stored intent, is told the ledger as it is;   *)
(* a conflict or a missing action is told only to somebody else.           *)
Truthful(r) ==
  LET row == actions[r.to.action] IN
  /\ r.kind = "ok" =>
       /\ row # NoRow
       /\ r.to.caller = row.owner
       /\ r.to.op = "execute" => r.to.intent = row.intent
       /\ r.report = ReportOf(row, results[r.to.action])
  /\ r.kind = "idempotency_conflict" =>
       /\ r.to.op = "execute"
       /\ row # NoRow
       /\ r.to.caller # row.owner \/ r.to.intent # row.intent
  /\ r.kind = "not_found" =>
       /\ r.to.op = "read"
       /\ row = NoRow \/ r.to.caller # row.owner
  /\ r.kind = "forbidden" <=> r.to.caller \notin RetentionCallers

Answer ==
  /\ reply' \in Replies
  /\ Truthful(reply')
  /\ UNCHANGED <<actions, results, issued>>

Quiet == reply' = NoReply

Next ==
  \/ Quiet /\ \E a \in Actions, row \in Rows : Freeze(a, row)
  \/ Quiet /\ \E a \in Actions, p \in Participants, r \in Receipts : Perform(a, p, r)
  \/ Quiet /\ \E a \in Actions, p \in Participants : \E entry \in Results : Record(a, p, entry)
  \/ Quiet /\ UNCHANGED <<actions, results, issued>>
  \/ Answer

Spec == Init /\ [][Next]_ledger
=============================================================================
