------------------------ MODULE RetentionCoordinator ------------------------
(***************************************************************************)
(* lenso.data-retention@1 of the PostgreSQL coordinator: execute_retention *)
(* and read_retention, step by step between their await points, over the   *)
(* two tables retention_actions and retention_results.                     *)
(*                                                                         *)
(* Any number of invocations ("slots") run at once.  Every SQL statement   *)
(* is one autocommitted step.  Guards and participants are other Plugins:  *)
(* they answer whenever and whatever they like.  An invocation may die at  *)
(* any await (database error, provider RuntimeFailure, deadline, dropped   *)
(* future, process crash); a statement it had already sent may still       *)
(* commit later.  The App may be recomposed with other guards and          *)
(* participants while actions are unfinished.                              *)
(***************************************************************************)
EXTENDS RetentionTables, FiniteSets

CONSTANTS
  Slots,        \* concurrent invocations
  BadReceipt,   \* an empty, oversized or control-character receipt
  NoRequest,    \* the request of an idle slot
  NoPlan,       \* the ports of an idle slot
  MaxLate       \* bound: statements of dead invocations outstanding at once

ASSUME BadReceiptAssumption == BadReceipt \notin Receipts
ASSUME MaxLateAssumption == MaxLate \in Nat

VARIABLES
  actions,     \* table retention_actions: action_id -> row or NoRow
  results,     \* table retention_results: action_id -> Instance -> row
  lateFreezes, \* INSERTs sent by invocations that died before the answer
  lateStores,  \* result upserts sent by invocations that died
  bound,       \* the Plan the running App is composed with
  asked,       \* every apply_retention request ever sent
  issued,      \* receipts each participant has issued for each action
  pc,          \* per slot: the await point
  req,         \* per slot: the request
  comp,        \* per slot: ports cloned when the handler was called
  verdicts,    \* per slot: guard answers accepted so far
  identity,    \* per slot: the row load_retention_identity returned
  completed,   \* per slot: what completed_participants returned
  next,        \* per slot: loop position in comp.participants
  outcome,     \* per slot: the result row about to be stored
  called,      \* per slot: participants this invocation has called (history)
  doneBefore,  \* per slot: participants completed when it began (history)
  reply,       \* the answer the latest step gave, if it gave one
  reported     \* completions ever reported to a caller (history)

tables  == <<actions, results>>
late    == <<lateFreezes, lateStores>>
world   == <<bound, asked, issued>>
request == <<req, comp, doneBefore>>
loop    == <<verdicts, identity, completed, next, outcome, called>>
answers == <<reply, reported>>
vars    == <<tables, late, world, pc, request, loop, answers>>

-----------------------------------------------------------------------------
(* The decisions the code takes on one datum each *)

(* What a guard may answer: `named` is a well-formed decision_id.          *)
Verdicts == [allowed : BOOLEAN, named : BOOLEAN, reason : {"none", "valid", "malformed"}]

Allow == [allowed |-> TRUE, named |-> TRUE, reason |-> "none"]

valid_guard_decision(v) ==
  /\ v.named
  /\ \/ v.allowed /\ v.reason = "none"
     \/ ~v.allowed /\ v.reason = "valid"

(* Mutant: the owner is not part of the intent. *)
IntentWithoutOwner(row, r) == row.intent = r.intent

same_retention_intent(row, r) ==
  /\ row.owner = r.caller
  /\ row.intent = r.intent

(* Mutant: DO UPDATE. *)
InsertOverwrites(old, new) == new

(* INSERT INTO retention_actions ... ON CONFLICT DO NOTHING *)
InsertAction(old, new) == IF old = NoRow THEN new ELSE old

(* Mutants: no CASE; a CASE on EXCLUDED; a CASE on the status column only.  *)
LastWriteWins(old, new) == new
CompletionWins(old, new) == IF new.status = "completed" THEN new ELSE old
StickyStatusOnly(old, new) ==
  [status |-> IF old.status = "completed" THEN old.status ELSE new.status,
   receipt |-> new.receipt]

(* INSERT INTO retention_results ... ON CONFLICT DO UPDATE SET CASE ... *)
UpsertResult(old, new) == IF old.status = "completed" THEN old ELSE new

(* Mutant: a rejected participant counts as done. *)
settled_participants(a) ==
  {p \in Participants : results[a][p] # Absent}

completed_participants(a) ==
  {p \in Participants : results[a][p].status = "completed"}

(* Mutant: the owner constraint is not passed. *)
VisibleToAll(row, caller) == row # NoRow

(* The identity query constrained to requester_instance = the caller. *)
Visible(row, caller) == row # NoRow /\ row.owner = caller

(* Mutants: no completed check; no frozen check. *)
CallAllFrozen(frozen, done, p) == p \in Range(frozen.participants)
CallAllUnfinished(frozen, done, p) == p \notin done

(* `continue` unless the participant was frozen and is not completed *)
MustCall(frozen, done, p) == p \in Range(frozen.participants) /\ p \notin done

-----------------------------------------------------------------------------
(* Initial state: empty tables, no invocation *)

NoReply == [kind |-> "none"]

Init ==
  /\ actions = [a \in Actions |-> NoRow]
  /\ results = [a \in Actions |-> [p \in Participants |-> Absent]]
  /\ lateFreezes = {}
  /\ lateStores = {}
  /\ bound \in Compositions
  /\ asked = {}
  /\ issued = [a \in Actions |-> [p \in Participants |-> {}]]
  /\ pc = [s \in Slots |-> "idle"]
  /\ req = [s \in Slots |-> NoRequest]
  /\ comp = [s \in Slots |-> NoPlan]
  /\ doneBefore = [s \in Slots |-> {}]
  /\ verdicts = [s \in Slots |-> << >>]
  /\ identity = [s \in Slots |-> NoRow]
  /\ completed = [s \in Slots |-> {}]
  /\ next = [s \in Slots |-> 1]
  /\ outcome = [s \in Slots |-> Absent]
  /\ called = [s \in Slots |-> {}]
  /\ reply = NoReply
  /\ reported = {}

-----------------------------------------------------------------------------
(* Where an invocation goes next *)

Quiet == reply' = NoReply /\ UNCHANGED reported

GoTo(s, label) == pc' = [pc EXCEPT ![s] = label] /\ Quiet

Say(kind, r, report) ==
  /\ reply' = [kind |-> kind, to |-> r, report |-> report]
  /\ reported' = reported \cup {[action |-> r.action, participant |-> p, line |-> report[p]] :
                                  p \in {q \in DOMAIN report : report[q].status = "completed"}}

(* The future resolves: the caller has its answer, the locals are dropped. *)
Finish(s, kind, report) ==
  /\ Say(kind, req[s], report)
  /\ pc' = [pc EXCEPT ![s] = "idle"]
  /\ req' = [req EXCEPT ![s] = NoRequest]
  /\ comp' = [comp EXCEPT ![s] = NoPlan]
  /\ doneBefore' = [doneBefore EXCEPT ![s] = {}]
  /\ verdicts' = [verdicts EXCEPT ![s] = << >>]
  /\ identity' = [identity EXCEPT ![s] = NoRow]
  /\ completed' = [completed EXCEPT ![s] = {}]
  /\ next' = [next EXCEPT ![s] = 1]
  /\ outcome' = [outcome EXCEPT ![s] = Absent]
  /\ called' = [called EXCEPT ![s] = {}]

(* The handler looks at the caller and the request before anything else. *)
Refuse(r, wellFormed) ==
  /\ \/ r.caller \notin RetentionCallers /\ Say("forbidden", r, NoReport)
     \/ r.caller \in RetentionCallers /\ ~wellFormed /\ Say("invalid_request", r, NoReport)
  /\ UNCHANGED <<pc, request>>

Admit(s, r, wellFormed, label) ==
  /\ r.caller \in RetentionCallers
  /\ wellFormed
  /\ req' = [req EXCEPT ![s] = r]
  /\ GoTo(s, label)

(* Mutant: the last guard is not asked. *)
AfterVerdictsButOne(c, n) == IF n + 1 >= Len(c.guards) THEN "freeze" ELSE "guard"

(* After `n` valid allow decisions: the next guard, or the first INSERT.   *)
AfterVerdicts(c, n) == IF n = Len(c.guards) THEN "freeze" ELSE "guard"

-----------------------------------------------------------------------------
(* execute_retention: admission and preflight *)

(* The handler is called: it clones its ports b, then checks the caller    *)
(* and the request before it touches a port or the database.               *)
StartExecute(s, b, c, a, i, wellFormed) ==
  LET r == [op |-> "execute", caller |-> c, action |-> a, intent |-> i] IN
  /\ pc[s] = "idle"
  /\ \/ Refuse(r, wellFormed)
     \/ /\ Admit(s, r, wellFormed, AfterVerdicts(b, 0))
        /\ comp' = [comp EXCEPT ![s] = b]
        /\ doneBefore' = [doneBefore EXCEPT ![s] = completed_participants(a)]
  /\ UNCHANGED <<tables, late, world, loop>>

(* An ambiguous decision is a protocol violation. *)
GuardIsAmbiguous(s, v) ==
  /\ pc[s] = "guard"
  /\ ~valid_guard_decision(v)
  /\ Finish(s, "failed", NoReport)
  /\ UNCHANGED <<tables, late, world>>

GuardDenies(s, v) ==
  /\ pc[s] = "guard"
  /\ valid_guard_decision(v)
  /\ ~v.allowed
  /\ Finish(s, "blocked_by_guard", NoReport)
  /\ UNCHANGED <<tables, late, world>>

GuardAllows(s, v) ==
  /\ pc[s] = "guard"
  /\ valid_guard_decision(v)
  /\ v.allowed
  /\ verdicts' = [verdicts EXCEPT ![s] = Append(@, v)]
  /\ GoTo(s, AfterVerdicts(comp[s], Len(verdicts[s]) + 1))
  /\ UNCHANGED <<tables, late, world, request, identity, completed, next, outcome, called>>

-----------------------------------------------------------------------------
(* execute_retention: the frozen identity *)

NewRow(s) == [owner |-> req[s].caller, intent |-> req[s].intent,
              participants |-> comp[s].participants]

(* The participants' keys are checked once the guards have been asked; the *)
(* invocation fails on two that are alike.                                 *)
FreezeAction(s) ==
  /\ pc[s] = "freeze"
  /\ IsInjective(comp[s].participants)
  /\ actions' = [actions EXCEPT ![req[s].action] = InsertAction(@, NewRow(s))]
  /\ GoTo(s, "identify")
  /\ UNCHANGED <<results, late, world, request, loop>>

(* load_retention_identity without an owner constraint, then the           *)
(* comparison with the stored intent.                                      *)
IntentConflicts(s) ==
  /\ pc[s] = "identify"
  /\ actions[req[s].action] # NoRow
  /\ ~same_retention_intent(actions[req[s].action], req[s])
  /\ Finish(s, "idempotency_conflict", NoReport)
  /\ UNCHANGED <<tables, late, world>>

Identify(s) ==
  /\ pc[s] = "identify"
  /\ actions[req[s].action] # NoRow
  /\ same_retention_intent(actions[req[s].action], req[s])
  /\ identity' = [identity EXCEPT ![s] = actions[req[s].action]]
  /\ GoTo(s, "snapshot")
  /\ UNCHANGED <<tables, late, world, request, verdicts, completed, next, outcome, called>>

(* completed_participants is read once, before the loop. *)
Snapshot(s) ==
  /\ pc[s] = "snapshot"
  /\ completed' = [completed EXCEPT ![s] = completed_participants(req[s].action)]
  /\ GoTo(s, "loop")
  /\ UNCHANGED <<tables, late, world, request, verdicts, identity, next, outcome, called>>

-----------------------------------------------------------------------------
(* execute_retention: the participant loop *)

Current(s) == comp[s].participants[next[s]]

MoreParticipants(s) == pc[s] = "loop" /\ next[s] <= Len(comp[s].participants)

(* Mutant: `break` for `continue`. *)
BreakAtParticipant(s) ==
  /\ MoreParticipants(s)
  /\ ~MustCall(identity[s], completed[s], Current(s))
  /\ GoTo(s, "load")
  /\ UNCHANGED <<tables, late, world, request, loop>>

SkipParticipant(s) ==
  /\ MoreParticipants(s)
  /\ ~MustCall(identity[s], completed[s], Current(s))
  /\ next' = [next EXCEPT ![s] = @ + 1]
  /\ GoTo(s, "loop")
  /\ UNCHANGED <<tables, late, world, request, verdicts, identity, completed, outcome, called>>

(* apply_retention is sent with the request's own intent. *)
CallParticipant(s) ==
  /\ MoreParticipants(s)
  /\ MustCall(identity[s], completed[s], Current(s))
  /\ asked' = asked \cup {[action |-> req[s].action, participant |-> Current(s),
                           intent |-> req[s].intent]}
  /\ called' = [called EXCEPT ![s] = @ \cup {Current(s)}]
  /\ GoTo(s, "apply")
  /\ UNCHANGED <<tables, late, bound, issued, request, verdicts, identity, completed, next,
                 outcome>>

Await(s, new) ==
  /\ pc[s] = "apply"
  /\ outcome' = [outcome EXCEPT ![s] = new]
  /\ GoTo(s, "store")
  /\ UNCHANGED <<tables, late, world, request, verdicts, identity, completed, next, called>>

(* The participant returned a receipt it has issued for this action. *)
ParticipantCompletes(s, r) ==
  /\ pc[s] = "apply"
  /\ r \in issued[req[s].action][Current(s)]
  /\ Await(s, CompletedWith(r))

(* Mutant: a rejection is answered instead of stored. *)
RejectionIsAnswered(s) ==
  /\ pc[s] = "apply"
  /\ Finish(s, "blocked_by_guard", NoReport)
  /\ UNCHANGED <<tables, late, world>>

(* The participant answered with a Domain error. *)
ParticipantRejects(s) == Await(s, Rejected)

(* Mutant: the receipt is not checked. *)
ReceiptIsNotChecked(s, r) == r = BadReceipt /\ Await(s, CompletedWith(r))

(* A malformed receipt is a protocol violation and is not stored. *)
ReceiptIsMalformed(s, r) ==
  /\ pc[s] = "apply"
  /\ r = BadReceipt
  /\ Finish(s, "failed", NoReport)
  /\ UNCHANGED <<tables, late, world>>

StoreIn(a, p, new) ==
  results' = [results EXCEPT ![a][p] = UpsertResult(@, new)]

(* Mutant: a rejected participant is called again at once. *)
StoreAndRetryRejected(s) ==
  /\ pc[s] = "store"
  /\ StoreIn(req[s].action, Current(s), outcome[s])
  /\ outcome' = [outcome EXCEPT ![s] = Absent]
  /\ next' = [next EXCEPT ![s] = IF outcome[s] = Rejected THEN @ ELSE @ + 1]
  /\ GoTo(s, "loop")
  /\ UNCHANGED <<actions, late, world, request, verdicts, identity, completed, called>>

StoreResult(s) ==
  /\ pc[s] = "store"
  /\ StoreIn(req[s].action, Current(s), outcome[s])
  /\ outcome' = [outcome EXCEPT ![s] = Absent]
  /\ next' = [next EXCEPT ![s] = @ + 1]
  /\ GoTo(s, "loop")
  /\ UNCHANGED <<actions, late, world, request, verdicts, identity, completed, called>>

EndLoop(s) ==
  /\ pc[s] = "loop"
  /\ next[s] > Len(comp[s].participants)
  /\ GoTo(s, "load")
  /\ UNCHANGED <<tables, late, world, request, loop>>

-----------------------------------------------------------------------------
(* load_retention_response: two queries, shared with read_retention *)

StartRead(s, c, a, wellFormed) ==
  LET r == [op |-> "read", caller |-> c, action |-> a, intent |-> NoIntent] IN
  /\ pc[s] = "idle"
  /\ \/ Refuse(r, wellFormed)
     \/ Admit(s, r, wellFormed, "load") /\ UNCHANGED <<comp, doneBefore>>
  /\ UNCHANGED <<tables, late, world, loop>>

LoadIdentity(s) ==
  /\ pc[s] = "load"
  /\ Visible(actions[req[s].action], req[s].caller)
  /\ identity' = [identity EXCEPT ![s] = actions[req[s].action]]
  /\ GoTo(s, "results")
  /\ UNCHANGED <<tables, late, world, request, verdicts, completed, next, outcome, called>>

(* No row for this owner: NotFound to a reader.  (To execute_retention it  *)
(* would be a failure; ActionNeverDisappears says it does not happen.)     *)
NothingToRead(s) ==
  /\ pc[s] = "load"
  /\ ~Visible(actions[req[s].action], req[s].caller)
  /\ Finish(s, IF req[s].op = "read" THEN "not_found" ELSE "failed", NoReport)
  /\ UNCHANGED <<tables, late, world>>

LoadResults(s) ==
  /\ pc[s] = "results"
  /\ Finish(s, "ok", ReportOf(identity[s], results[req[s].action]))
  /\ UNCHANGED <<tables, late, world>>

-----------------------------------------------------------------------------
(* The environment *)

(* The invocation ends at an await: a database error, the plugin is not    *)
(* prepared, participants with the same key, a guard or participant        *)
(* failure, a deadline, a dropped future, a crash.                         *)
Fail(s) ==
  /\ pc[s] \in {"guard", "freeze", "identify", "snapshot", "apply", "store", "load",
                "results"}
  /\ Finish(s, "failed", NoReport)
  /\ UNCHANGED <<tables, late, world>>

(* The same, while a write it was awaiting is on its way to the server.    *)
FailInFlight(s) ==
  /\ Cardinality(lateFreezes) + Cardinality(lateStores) < MaxLate
  /\ \/ /\ pc[s] = "freeze"
        /\ IsInjective(comp[s].participants)
        /\ lateFreezes' = lateFreezes \cup {<<req[s].action, NewRow(s)>>}
        /\ UNCHANGED lateStores
     \/ /\ pc[s] = "store"
        /\ lateStores' = lateStores \cup {<<req[s].action, Current(s), outcome[s]>>}
        /\ UNCHANGED lateFreezes
  /\ Finish(s, "failed", NoReport)
  /\ UNCHANGED <<tables, world>>

LateFreeze(w) ==
  /\ w \in lateFreezes
  /\ lateFreezes' = lateFreezes \ {w}
  /\ actions' = [actions EXCEPT ![w[1]] = InsertAction(@, w[2])]
  /\ Quiet
  /\ UNCHANGED <<results, lateStores, world, pc, request, loop>>

LateStore(w) ==
  /\ w \in lateStores
  /\ lateStores' = lateStores \ {w}
  /\ StoreIn(w[1], w[2], w[3])
  /\ Quiet
  /\ UNCHANGED <<actions, lateFreezes, world, pc, request, loop>>

(* A participant carries out a request it was sent, perhaps long after the *)
(* invocation that sent it died, and issues a receipt.                     *)
Perform(a, p, r) ==
  /\ \E m \in asked : m.action = a /\ m.participant = p
  /\ issued' = [issued EXCEPT ![a][p] = @ \cup {r}]
  /\ Quiet
  /\ UNCHANGED <<tables, late, bound, asked, pc, request, loop>>

Recompose(c) ==
  /\ bound' = c
  /\ Quiet
  /\ UNCHANGED <<tables, late, asked, issued, pc, request, loop>>

-----------------------------------------------------------------------------
(* Specification *)

Advance(s) ==
  \/ \E v \in Verdicts : GuardIsAmbiguous(s, v) \/ GuardDenies(s, v) \/ GuardAllows(s, v)
  \/ FreezeAction(s)
  \/ IntentConflicts(s)
  \/ Identify(s)
  \/ Snapshot(s)
  \/ SkipParticipant(s)
  \/ CallParticipant(s)
  \/ \E r \in Receipts : ParticipantCompletes(s, r)
  \/ ParticipantRejects(s)
  \/ ReceiptIsMalformed(s, BadReceipt)
  \/ StoreResult(s)
  \/ EndLoop(s)
  \/ LoadIdentity(s)
  \/ NothingToRead(s)
  \/ LoadResults(s)

Start(s, b) ==
  \E c \in Callers, a \in Actions, wellFormed \in BOOLEAN :
    \/ \E i \in Intents : StartExecute(s, b, c, a, i, wellFormed)
    \/ StartRead(s, c, a, wellFormed)

Environment ==
  \/ \E w \in lateFreezes : LateFreeze(w)
  \/ \E w \in lateStores : LateStore(w)
  \/ \E a \in Actions, p \in Participants, r \in Receipts : Perform(a, p, r)
  \/ \E c \in Compositions : Recompose(c)

Next ==
  \/ Environment
  \/ \E s \in Slots : Start(s, bound) \/ Advance(s) \/ Fail(s) \/ FailInFlight(s)

Spec == Init /\ [][Next]_vars

-----------------------------------------------------------------------------
(* Fairness: the executor polls every future, a guard or participant called *)
(* with the InvocationContext answers or runs into its deadline, and, which *)
(* is assumed, PostgreSQL answers a statement or its connection fails (the  *)
(* statements carry no deadline of their own).  So an invocation never      *)
(* stays at one await for ever: it advances or it fails.                    *)
Fairness == \A s \in Slots : WF_vars(Advance(s) \/ Fail(s) \/ FailInFlight(s))

FairSpec == Spec /\ Fairness

-----------------------------------------------------------------------------
(* Type invariant *)

Executing(s) == pc[s] # "idle" /\ req[s].op = "execute"

Replies == [kind : Refusals \cup {"failed", "ok"}, to : Requests, report : Reports]

(* Every variable holds what the code's types and the two tables allow, in *)
(* particular a result row never pairs a receipt with a rejection or none  *)
(* with a completion (migrations/001:34).                                  *)
TypeOK ==
  /\ actions \in [Actions -> Rows \cup {NoRow}]
  /\ results \in [Actions -> [Participants -> Results]]
  /\ lateFreezes \subseteq Actions \X Rows
  /\ lateStores \subseteq Actions \X Participants \X (Results \ {Absent})
  /\ bound \in Compositions
  /\ asked \subseteq [action : Actions, participant : Participants, intent : Intents]
  /\ issued \in [Actions -> [Participants -> SUBSET Receipts]]
  /\ pc \in [Slots -> {"idle", "guard", "freeze", "identify", "snapshot", "loop", "apply",
                       "store", "load", "results"}]
  /\ req \in [Slots -> Requests \cup {NoRequest}]
  /\ comp \in [Slots -> Compositions \cup {NoPlan}]
  /\ doneBefore \in [Slots -> SUBSET Participants]
  /\ verdicts \in [Slots -> Seq(Verdicts)]
  /\ identity \in [Slots -> Rows \cup {NoRow}]
  /\ completed \in [Slots -> SUBSET Participants]
  /\ next \in [Slots -> Nat \ {0}]
  /\ outcome \in [Slots -> Results]
  /\ called \in [Slots -> SUBSET Participants]
  /\ reply \in Replies \cup {NoReply}
  /\ reported \subseteq [action : Actions, participant : Participants, line : Lines]

-----------------------------------------------------------------------------
(* Safety *)

(* Whatever raced or was retried, every apply_retention request that ever  *)
(* left the coordinator names a participant of the frozen list and carries *)
(* exactly the intent of the stored action (lib.rs:551-580).               *)
ApplyMatchesFrozenAction ==
  \A m \in asked :
    LET row == actions[m.action] IN
    /\ row # NoRow
    /\ m.intent = row.intent
    /\ m.participant \in Range(row.participants)

(* A result row belongs to a frozen participant of an existing action, so  *)
(* the report never drops one and the foreign key never trips, even after  *)
(* the App was recomposed (lib.rs:562, migrations/001:28).                 *)
ResultsOfFrozenParticipants ==
  \A a \in Actions, p \in Participants :
    results[a][p] # Absent =>
      actions[a] # NoRow /\ p \in Range(actions[a].participants)

(* A stored receipt is one that very participant issued for that action.   *)
ReceiptsAreGenuine ==
  \A a \in Actions, p \in Participants :
    results[a][p].status = "completed" => results[a][p].receipt \in issued[a][p]

(* "Every bound guard must return a valid allow decision before the first  *)
(* participant call" (README): a participant is called only by an          *)
(* invocation that holds one unambiguous allow from each guard bound when  *)
(* it began, whatever the App was recomposed with meanwhile.               *)
UnanimousPreflight ==
  \A s \in Slots :
    pc[s] = "apply" =>
      /\ Len(verdicts[s]) = Len(comp[s].guards)
      /\ \A g \in DOMAIN verdicts[s] : verdicts[s][g] = Allow

(* "resumed without repeating completed participants" (README): no         *)
(* invocation calls a participant whose completion was already stored when *)
(* the invocation began.                                                   *)
NoRepeatedDelivery == \A s \in Slots : called[s] \cap doneBefore[s] = {}

(* The failures "Retention action disappeared" and "... disappeared after  *)
(* execution" (lib.rs:548, lib.rs:616) cannot happen: what an executor     *)
(* froze or found stays there, under the owner it checked.                 *)
ActionNeverDisappears ==
  \A s \in Slots :
    /\ pc[s] = "identify" => actions[req[s].action] # NoRow
    /\ Executing(s) /\ pc[s] = "load" => Visible(actions[req[s].action], req[s].caller)

(* Status "completed" is the truth end to end: every frozen participant    *)
(* was asked to apply the stored intent and issued the reported receipt.   *)
CompletedMeansApplied ==
  reply.kind = "ok" /\ StatusOf(reply.report) = "completed" =>
    LET a == reply.to.action IN
    \A p \in Range(actions[a].participants) :
      /\ reply.report[p].receipt \in issued[a][p]
      /\ [action |-> a, participant |-> p, intent |-> actions[a].intent] \in asked

(* A completion a caller was ever told, with its receipt, is never         *)
(* withdrawn or given another receipt, whatever commits late.              *)
ReportedCompletionIsFinal ==
  \A m \in reported : results[m.action][m.participant] = m.line

(* "cannot read, purge, or continue that owner's state" (README): a        *)
(* participant is called for, and an ok answer goes to, the owner only.    *)
OwnerOnly ==
  /\ \A s \in Slots : pc[s] \in {"apply", "store"} =>
       actions[req[s].action].owner = req[s].caller
  /\ reply.kind = "ok" => actions[reply.to.action].owner = reply.to.caller

(* execute_retention answers with a pending participant only if that       *)
(* participant is not bound any more: every bound one was driven to a row. *)
PendingMeansUnbound ==
  [][\A s \in Slots :
       Executing(s) /\ reply'.kind = "ok" /\ pc'[s] = "idle" =>
         \A p \in Range(comp[s].participants) \cap DOMAIN reply'.report :
           reply'.report[p] # Pending]_vars

(* A domain error is told only by an invocation that called nobody. *)
RefusalsCallNobody ==
  [][\A s \in Slots :
       pc[s] # "idle" /\ pc'[s] = "idle" /\ reply'.kind \in Refusals => called[s] = {}]_vars

(* "a stored completion is sticky and cannot be downgraded by a racing     *)
(* rejection" (plugin card), nor by a late write or another receipt.       *)
CompletionIsSticky ==
  [][\A a \in Actions, p \in Participants :
       results[a][p].status = "completed" => results'[a][p] = results[a][p]]_results

(* "a same-ID retry from that caller is an idempotency conflict" (README,  *)
(* of an allowlisted caller that does not own the action).  The code asks  *)
(* the guards before it looks at the stored owner, so a denying guard      *)
(* answers first (lib.rs:473-518 before lib.rs:551).                       *)
ForeignRetryConflicts ==
  reply.kind = "blocked_by_guard" /\ actions[reply.to.action] # NoRow =>
    actions[reply.to.action].owner = reply.to.caller

(* The service implements the abstract ledger. *)
Ledger == INSTANCE RetentionLedger WITH
  actions <- actions, results <- results, issued <- issued, reply <- reply
ImplementsLedger == Ledger!Spec

-----------------------------------------------------------------------------
(* Liveness *)

(* Every invocation gets an answer: a rejecting participant or a resumed   *)
(* action never keeps the loop at one participant (lib.rs:560-612).        *)
InvocationEnds == \A s \in Slots : (pc[s] # "idle") ~> (pc[s] = "idle")

(* What callers and other Plugins have to contribute to a completion:      *)
(* from some time on no invocation is failed or denied and the            *)
(* frozen participants stay bound; the owner executes the action again and *)
(* again; a participant that is asked again and again does not reject for  *)
(* ever.  It may complete in one attempt and its neighbour in another.     *)
Interrupted ==
  \E s \in Slots : /\ pc[s] # "idle" /\ pc'[s] = "idle"
                   /\ reply'.kind \in {"failed", "blocked_by_guard"}

Attempt(s, a) ==
  Executing(s) /\ req[s].action = a /\ same_retention_intent(actions[a], req[s])

Cooperation(a) ==
  /\ <>[][~Interrupted]_vars
  /\ <>[](actions[a] # NoRow => Range(actions[a].participants) \subseteq Range(bound.participants))
  /\ []<>(\E s \in Slots : actions[a] # NoRow /\ Attempt(s, a))
  /\ \A p \in Participants :
       []<>(\E s \in Slots : pc[s] = "apply" /\ req[s].action = a /\ Current(s) = p) =>
         []<><<\E s \in Slots, r \in Receipts :
                 /\ pc[s] = "apply" /\ req[s].action = a /\ Current(s) = p
                 /\ ParticipantCompletes(s, r)>>_vars

(* A failed execution "can be resumed" (README): with that contribution     *)
(* every frozen action is completed in the end and its owner is told so,   *)
(* whatever was rejected, lost or raced before.  A rejection once stored   *)
(* is not final (lib.rs:562, lib.rs:851).                                  *)
RetriesComplete ==
  \A a \in Actions :
    Cooperation(a) =>
      (actions[a] # NoRow ~>
         /\ reply.kind = "ok" /\ reply.to.op = "execute" /\ reply.to.action = a
         /\ StatusOf(reply.report) = "completed")
=============================================================================
