--------------------------- MODULE RetentionProofs ---------------------------
(***************************************************************************)
(* Theorems about RetentionCoordinator, for every value of its constants:  *)
(* the types and where the locals stand, the safety theorems from the      *)
(* inductive invariant Core and from what invocations remember, and that   *)
(* the coordinator implements RetentionLedger.                             *)
(***************************************************************************)
EXTENDS RetentionCoordinator, TLAPS

(* The locals of an invocation agree with the await point it has reached.  *)
Placed ==
  \A s \in Slots :
    /\ pc[s] # "idle" => req[s] \in Requests /\ req[s].caller \in RetentionCallers
    /\ pc[s] \in {"guard", "freeze", "identify", "snapshot", "loop", "apply", "store"} =>
         req[s].op = "execute"
    /\ Executing(s) => comp[s] \in Compositions /\ req[s].intent \in Intents
    /\ pc[s] \in {"apply", "store"} => next[s] <= Len(comp[s].participants)
    /\ pc[s] = "results" => identity[s] # NoRow
    /\ pc[s] = "store" => outcome[s] # Absent

-----------------------------------------------------------------------------
(* Lemmas about the data *)

(* What the assumptions say of one Plan. *)
LEMMA PlanType ==
  ASSUME NEW c \in Compositions
  PROVE  /\ c.guards \in Seq(Guards)
         /\ c.participants \in Seq(Participants)
         /\ Range(c.participants) \subseteq Participants
         /\ \A i \in Nat \ {0} : i <= Len(c.participants) =>
              c.participants[i] \in Participants
<1>1. c \in [guards : Seq(Guards), participants : Seq(Participants)]
  BY CompositionAssumption
<1>2. c.participants \in Seq(Participants) /\ c.guards \in Seq(Guards)
  BY <1>1
<1>3. \A i \in DOMAIN c.participants : c.participants[i] \in Participants
  BY <1>2
<1>4. DOMAIN c.participants = 1..Len(c.participants)
  BY <1>2
<1>5. \A i \in Nat \ {0} : i <= Len(c.participants) => i \in 1..Len(c.participants)
  BY <1>2
<1>. QED BY <1>2, <1>3, <1>4, <1>5 DEF Range

LEMMA RowType ==
  ASSUME NEW row \in Rows
  PROVE  /\ row.owner \in RetentionCallers
         /\ row.intent \in Intents
         /\ Range(row.participants) \subseteq Participants
<1>1. PICK c \in Compositions : row.participants = c.participants
  BY DEF Rows
<1>. QED BY <1>1, PlanType DEF Rows

LEMMA ReportOfType ==
  ASSUME NEW row \in Rows, NEW stored \in [Participants -> Results]
  PROVE  ReportOf(row, stored) \in Reports
<1>1. Range(row.participants) \in SUBSET Participants
  BY RowType
<1>2. \A p \in Range(row.participants) : stored[p] \in Results
  BY <1>1
<1>3. ReportOf(row, stored) \in [Range(row.participants) -> Lines]
  BY <1>2 DEF ReportOf, Results, Lines
<1>. QED BY <1>1, <1>3 DEF Reports

LEMMA NoReportType == NoReport \in Reports /\ DOMAIN NoReport = {}
<1>1. NoReport \in [{} -> Lines]
  BY DEF NoReport
<1>. QED BY <1>1 DEF Reports, NoReport

LEMMA ReportsType ==
  ASSUME NEW rep \in Reports
  PROVE  DOMAIN rep \subseteq Participants /\ \A p \in DOMAIN rep : rep[p] \in Lines
BY DEF Reports

LEMMA UpsertType ==
  ASSUME NEW old \in Results, NEW new \in Results
  PROVE  UpsertResult(old, new) \in Results
BY DEF UpsertResult

(* The constants of the empty tables are what their names say. *)
LEMMA NamesDiffer ==
  /\ Absent \in Results /\ Rejected \in Results /\ Absent # Rejected
  /\ \A r \in Receipts : CompletedWith(r) \in Results /\ CompletedWith(r) # Absent
BY DEF Results, Absent, Rejected, CompletedWith

-----------------------------------------------------------------------------
(* What an answer does *)

LEMMA SayType ==
  ASSUME TypeOK, NEW r \in Requests, NEW kind \in Refusals \cup {"failed", "ok"},
         NEW rep \in Reports, Say(kind, r, rep)
  PROVE  /\ reply' \in Replies \cup {NoReply}
         /\ reported' \subseteq [action : Actions, participant : Participants, line : Lines]
<1>1. r.action \in Actions
  BY DEF Requests
<1>2. DOMAIN rep \subseteq Participants /\ \A p \in DOMAIN rep : rep[p] \in Lines
  BY ReportsType
<1>. QED BY <1>1, <1>2 DEF Say, TypeOK, Replies

LEMMA FinishKeepsTypes ==
  ASSUME TypeOK, Placed, NEW s \in Slots, pc[s] # "idle",
         NEW kind \in Refusals \cup {"failed", "ok"}, NEW rep \in Reports,
         Finish(s, kind, rep), UNCHANGED <<tables, world>>,
         lateFreezes' \subseteq Actions \X Rows,
         lateStores' \subseteq Actions \X Participants \X (Results \ {Absent})
  PROVE  TypeOK' /\ Placed'
<1>1. req[s] \in Requests /\ Say(kind, req[s], rep)
  BY DEF Placed, Finish
<1>2. /\ reply' \in Replies \cup {NoReply}
      /\ reported' \subseteq [action : Actions, participant : Participants, line : Lines]
  BY <1>1, SayType
<1>3. TypeOK'
  BY <1>2, NamesDiffer DEF TypeOK, Finish, tables, world
<1>4. Placed'
  BY DEF TypeOK, Placed, Executing, Finish, tables, world
<1>. QED BY <1>3, <1>4

-----------------------------------------------------------------------------
(* Types and places are inductive *)

LEMMA PlacedInit == Init => TypeOK /\ Placed
<1>. SUFFICES ASSUME Init PROVE TypeOK /\ Placed
  OBVIOUS
<1>1. TypeOK
  BY NamesDiffer DEF Init, TypeOK, NoReply
<1>2. Placed
  BY DEF Init, Placed, Executing
<1>. QED BY <1>1, <1>2

(* Where a running execute_retention stands in its Plan. *)
LEMMA CurrentType ==
  ASSUME TypeOK, Placed, NEW s \in Slots, Executing(s)
  PROVE  /\ comp[s] \in Compositions
         /\ Len(comp[s].participants) \in Nat
         /\ next[s] <= Len(comp[s].participants) => Current(s) \in Participants
<1>1. comp[s] \in Compositions /\ next[s] \in Nat \ {0}
  BY DEF TypeOK, Placed
<1>. QED BY <1>1, PlanType DEF Current

LEMMA NewRowType ==
  ASSUME TypeOK, Placed, NEW s \in Slots, Executing(s)
  PROVE  NewRow(s) \in Rows /\ req[s].action \in Actions
<1>1. /\ comp[s] \in Compositions /\ req[s].intent \in Intents
      /\ req[s].caller \in RetentionCallers /\ req[s].action \in Actions
  BY DEF Placed, Executing, Requests
<1>. QED BY <1>1 DEF NewRow, Rows

LEMMA RefuseKeepsTypes ==
  ASSUME TypeOK, Placed, NEW r \in Requests, NEW w \in BOOLEAN, Refuse(r, w),
         UNCHANGED <<tables, late, world, loop>>
  PROVE  TypeOK' /\ Placed'
<1>1. /\ reply' \in Replies \cup {NoReply}
      /\ reported' \subseteq [action : Actions, participant : Participants, line : Lines]
  BY SayType, NoReportType DEF Refuse, Refusals
<1>2. TypeOK'
  BY <1>1 DEF TypeOK, Refuse, tables, late, world, request, loop
<1>3. Placed'
  BY DEF Placed, Executing, Refuse, request, loop
<1>. QED BY <1>2, <1>3

(* Starting an invocation, whatever Plan the ports it clones come from.    *)
BeginsWith(s, b, c, a, w) ==
  (\E i \in Intents : StartExecute(s, b, c, a, i, w)) \/ StartRead(s, c, a, w)

Begins(s, c, a, w) == \E b \in Compositions : BeginsWith(s, b, c, a, w)

LEMMA StartKeepsTypes ==
  ASSUME TypeOK, Placed, NEW s \in Slots, NEW c \in Callers, NEW a \in Actions,
         NEW w \in BOOLEAN,
         Begins(s, c, a, w)
  PROVE  TypeOK' /\ Placed'
<1>1. ASSUME NEW b \in Compositions, NEW i \in Intents, StartExecute(s, b, c, a, i, w)
      PROVE  TypeOK' /\ Placed'
  <2>. DEFINE r == [op |-> "execute", caller |-> c, action |-> a, intent |-> i]
  <2>1. r \in Requests
    BY DEF Requests
  <2>2. CASE Refuse(r, w)
    BY <1>1, <2>1, <2>2, RefuseKeepsTypes DEF StartExecute
  <2>3. CASE /\ Admit(s, r, w, AfterVerdicts(b, 0))
             /\ comp' = [comp EXCEPT ![s] = b]
             /\ doneBefore' = [doneBefore EXCEPT ![s] = completed_participants(a)]
    <3>1. AfterVerdicts(b, 0) \in {"freeze", "guard"}
      BY DEF AfterVerdicts
    <3>2. completed_participants(a) \subseteq Participants
      BY DEF completed_participants
    <3>3. TypeOK'
      BY <1>1, <2>1, <2>3, <3>1, <3>2
      DEF TypeOK, StartExecute, Admit, GoTo, Quiet, tables, late, world, loop
    <3>4. Placed'
      BY <1>1, <2>1, <2>3, <3>1
      DEF TypeOK, Placed, Executing, StartExecute, Admit, GoTo, tables, late, world, loop
    <3>. QED BY <3>3, <3>4
  <2>. QED BY <1>1, <2>2, <2>3 DEF StartExecute
<1>2. ASSUME StartRead(s, c, a, w)
      PROVE  TypeOK' /\ Placed'
  <2>. DEFINE r == [op |-> "read", caller |-> c, action |-> a, intent |-> NoIntent]
  <2>1. r \in Requests
    BY DEF Requests
  <2>2. CASE Refuse(r, w)
    BY <1>2, <2>1, <2>2, RefuseKeepsTypes DEF StartRead
  <2>3. CASE Admit(s, r, w, "load") /\ UNCHANGED <<comp, doneBefore>>
    <3>1. TypeOK'
      BY <1>2, <2>1, <2>3
      DEF TypeOK, StartRead, Admit, GoTo, Quiet, tables, late, world, loop
    <3>2. Placed'
      BY <1>2, <2>1, <2>3
      DEF TypeOK, Placed, Executing, StartRead, Admit, GoTo, tables, late, world, loop
    <3>. QED BY <3>1, <3>2
  <2>. QED BY <1>2, <2>2, <2>3 DEF StartRead
<1>. QED BY <1>1, <1>2 DEF Begins, BeginsWith

(* The steps by which an invocation ends. *)
Ends(s) ==
  \/ \E v \in Verdicts : GuardIsAmbiguous(s, v) \/ GuardDenies(s, v)
  \/ IntentConflicts(s)
  \/ ReceiptIsMalformed(s, BadReceipt)
  \/ NothingToRead(s)
  \/ LoadResults(s)
  \/ Fail(s)
  \/ FailInFlight(s)

LEMMA EndKeepsTypes ==
  ASSUME TypeOK, Placed, NEW s \in Slots, Ends(s)
  PROVE  TypeOK' /\ Placed'
<1>. USE NoReportType DEF Refusals
<1>1. lateFreezes \subseteq Actions \X Rows
  BY DEF TypeOK
<1>2. lateStores \subseteq Actions \X Participants \X (Results \ {Absent})
  BY DEF TypeOK
<1>3. ASSUME NEW v \in Verdicts, GuardIsAmbiguous(s, v)
      PROVE  TypeOK' /\ Placed'
  BY <1>1, <1>2, <1>3, FinishKeepsTypes DEF GuardIsAmbiguous, late
<1>4. ASSUME NEW v \in Verdicts, GuardDenies(s, v)
      PROVE  TypeOK' /\ Placed'
  BY <1>1, <1>2, <1>4, FinishKeepsTypes DEF GuardDenies, late
<1>5. CASE IntentConflicts(s)
  BY <1>1, <1>2, <1>5, FinishKeepsTypes DEF IntentConflicts, late
<1>6. CASE ReceiptIsMalformed(s, BadReceipt)
  BY <1>1, <1>2, <1>6, FinishKeepsTypes DEF ReceiptIsMalformed, late
<1>7. CASE NothingToRead(s)
  BY <1>1, <1>2, <1>7, FinishKeepsTypes DEF NothingToRead, late
<1>8. CASE LoadResults(s)
  <2>1. identity[s] \in Rows /\ results[req[s].action] \in [Participants -> Results]
    BY <1>8 DEF LoadResults, TypeOK, Placed, Requests
  <2>2. ReportOf(identity[s], results[req[s].action]) \in Reports
    BY <2>1, ReportOfType
  <2>. QED BY <1>1, <1>2, <1>8, <2>2, FinishKeepsTypes DEF LoadResults, late
<1>9. CASE Fail(s)
  BY <1>1, <1>2, <1>9, FinishKeepsTypes DEF Fail, late
<1>10. CASE FailInFlight(s)
  <2>1. pc[s] # "idle" /\ pc[s] \in {"freeze", "store"}
    BY <1>10 DEF FailInFlight
  <2>2. Executing(s)
    BY <2>1 DEF Placed, Executing
  <2>3. lateFreezes' \subseteq Actions \X Rows
    BY <1>1, <1>10, <2>2, NewRowType DEF FailInFlight
  <2>4. lateStores' \subseteq Actions \X Participants \X (Results \ {Absent})
    <3>1. pc[s] = "store" =>
            /\ next[s] <= Len(comp[s].participants)
            /\ outcome[s] \in Results \ {Absent}
      BY DEF TypeOK, Placed
    <3>. QED BY <1>2, <1>10, <2>2, <3>1, CurrentType, NewRowType DEF FailInFlight
  <2>. QED BY <1>10, <2>1, <2>3, <2>4, FinishKeepsTypes DEF FailInFlight
<1>. QED BY <1>3, <1>4, <1>5, <1>6, <1>7, <1>8, <1>9, <1>10 DEF Ends

(* The steps by which an invocation moves on. *)
Moves(s) ==
  \/ \E v \in Verdicts : GuardAllows(s, v)
  \/ FreezeAction(s)
  \/ Identify(s)
  \/ Snapshot(s)
  \/ SkipParticipant(s)
  \/ CallParticipant(s)
  \/ \E r \in Receipts : ParticipantCompletes(s, r)
  \/ ParticipantRejects(s)
  \/ StoreResult(s)
  \/ EndLoop(s)
  \/ LoadIdentity(s)

LEMMA MoveKeepsTypes ==
  ASSUME TypeOK, Placed, NEW s \in Slots, Moves(s)
  PROVE  TypeOK' /\ Placed'
<1>. USE DEF GoTo, Quiet, tables, late, world, request, loop
<1>1. ASSUME NEW v \in Verdicts, GuardAllows(s, v)
      PROVE  TypeOK' /\ Placed'
  <2>1. AfterVerdicts(comp[s], Len(verdicts[s]) + 1) \in {"freeze", "guard"}
    BY DEF AfterVerdicts
  <2>2. Append(verdicts[s], v) \in Seq(Verdicts)
    BY DEF TypeOK
  <2>3. TypeOK'
    BY <1>1, <2>1, <2>2 DEF TypeOK, GuardAllows
  <2>4. Placed'
    BY <1>1, <2>1 DEF TypeOK, Placed, Executing, GuardAllows
  <2>. QED BY <2>3, <2>4
<1>2. CASE FreezeAction(s)
  <2>1. Executing(s)
    BY <1>2 DEF FreezeAction, Placed, Executing
  <2>2. NewRow(s) \in Rows /\ req[s].action \in Actions
    BY <2>1, NewRowType
  <2>3. TypeOK'
    BY <1>2, <2>2 DEF TypeOK, FreezeAction, InsertAction
  <2>4. Placed'
    BY <1>2 DEF TypeOK, Placed, Executing, FreezeAction
  <2>. QED BY <2>3, <2>4
<1>3. CASE Identify(s)
  <2>1. actions[req[s].action] \in Rows
    BY <1>3 DEF Identify, Placed, Requests, TypeOK
  <2>2. TypeOK'
    BY <1>3, <2>1 DEF TypeOK, Identify
  <2>3. Placed'
    BY <1>3 DEF TypeOK, Placed, Executing, Identify
  <2>. QED BY <2>2, <2>3
<1>4. CASE Snapshot(s)
  <2>1. completed_participants(req[s].action) \subseteq Participants
    BY DEF completed_participants
  <2>2. TypeOK'
    BY <1>4, <2>1 DEF TypeOK, Snapshot
  <2>3. Placed'
    BY <1>4 DEF TypeOK, Placed, Executing, Snapshot
  <2>. QED BY <2>2, <2>3
<1>5. CASE SkipParticipant(s)
  <2>1. TypeOK'
    BY <1>5 DEF TypeOK, SkipParticipant, MoreParticipants
  <2>2. Placed'
    BY <1>5 DEF TypeOK, Placed, Executing, SkipParticipant, MoreParticipants
  <2>. QED BY <2>1, <2>2
<1>6. CASE CallParticipant(s)
  <2>1. Executing(s) /\ next[s] <= Len(comp[s].participants)
    BY <1>6 DEF CallParticipant, MoreParticipants, Placed, Executing
  <2>2. /\ Current(s) \in Participants
        /\ req[s].action \in Actions /\ req[s].intent \in Intents
    BY <2>1, CurrentType DEF Placed, Executing, Requests
  <2>3. TypeOK'
    BY <1>6, <2>2 DEF TypeOK, CallParticipant, MoreParticipants
  <2>4. Placed'
    BY <1>6 DEF TypeOK, Placed, Executing, CallParticipant, MoreParticipants
  <2>. QED BY <2>3, <2>4
<1>7. ASSUME NEW new \in Results \ {Absent}, Await(s, new)
      PROVE  TypeOK' /\ Placed'
  <2>1. TypeOK'
    BY <1>7 DEF TypeOK, Await
  <2>2. Placed'
    BY <1>7 DEF TypeOK, Placed, Executing, Await
  <2>. QED BY <2>1, <2>2
<1>8. ASSUME NEW r \in Receipts, ParticipantCompletes(s, r)
      PROVE  TypeOK' /\ Placed'
  BY <1>7, <1>8, NamesDiffer DEF ParticipantCompletes
<1>9. CASE ParticipantRejects(s)
  BY <1>7, <1>9, NamesDiffer DEF ParticipantRejects
<1>10. CASE StoreResult(s)
  <2>1. Executing(s) /\ next[s] <= Len(comp[s].participants)
    BY <1>10 DEF StoreResult, Placed, Executing
  <2>2. Current(s) \in Participants /\ req[s].action \in Actions
    BY <2>1, CurrentType, NewRowType
  <2>3. UpsertResult(results[req[s].action][Current(s)], outcome[s]) \in Results
    BY <2>2, UpsertType DEF TypeOK
  <2>4. results' \in [Actions -> [Participants -> Results]]
    BY <1>10, <2>2, <2>3 DEF TypeOK, StoreResult, StoreIn
  <2>5. TypeOK'
    BY <1>10, <2>4, NamesDiffer DEF TypeOK, StoreResult
  <2>6. Placed'
    BY <1>10 DEF TypeOK, Placed, Executing, StoreResult
  <2>. QED BY <2>5, <2>6
<1>11. CASE EndLoop(s)
  <2>1. TypeOK'
    BY <1>11 DEF TypeOK, EndLoop
  <2>2. Placed'
    BY <1>11 DEF TypeOK, Placed, Executing, EndLoop
  <2>. QED BY <2>1, <2>2
<1>12. CASE LoadIdentity(s)
  <2>1. actions[req[s].action] \in Rows
    BY <1>12 DEF LoadIdentity, Visible, Placed, Requests, TypeOK
  <2>2. TypeOK'
    BY <1>12, <2>1 DEF TypeOK, LoadIdentity
  <2>3. Placed'
    BY <1>12, <2>1, RowAssumption DEF TypeOK, Placed, Executing, LoadIdentity
  <2>. QED BY <2>2, <2>3
<1>. QED
  BY <1>1, <1>2, <1>3, <1>4, <1>5, <1>6, <1>8, <1>9, <1>10, <1>11, <1>12 DEF Moves

LEMMA EnvironmentKeepsTypes ==
  ASSUME TypeOK, Placed, Environment
  PROVE  TypeOK' /\ Placed'
<1>. USE DEF Quiet, tables, late, world, request, loop
<1>1. ASSUME NEW w \in lateFreezes, LateFreeze(w)
      PROVE  TypeOK' /\ Placed'
  <2>1. w[1] \in Actions /\ w[2] \in Rows
    BY DEF TypeOK
  <2>2. TypeOK'
    BY <1>1, <2>1 DEF TypeOK, LateFreeze, InsertAction
  <2>3. Placed'
    BY <1>1 DEF Placed, Executing, LateFreeze
  <2>. QED BY <2>2, <2>3
<1>2. ASSUME NEW w \in lateStores, LateStore(w)
      PROVE  TypeOK' /\ Placed'
  <2>1. w[1] \in Actions /\ w[2] \in Participants /\ w[3] \in Results
    BY DEF TypeOK
  <2>2. UpsertResult(results[w[1]][w[2]], w[3]) \in Results
    BY <2>1, UpsertType DEF TypeOK
  <2>3. TypeOK'
    BY <1>2, <2>1, <2>2 DEF TypeOK, LateStore, StoreIn
  <2>4. Placed'
    BY <1>2 DEF Placed, Executing, LateStore
  <2>. QED BY <2>3, <2>4
<1>3. ASSUME NEW a \in Actions, NEW p \in Participants, NEW r \in Receipts, Perform(a, p, r)
      PROVE  TypeOK' /\ Placed'
  <2>1. TypeOK'
    BY <1>3 DEF TypeOK, Perform
  <2>2. Placed'
    BY <1>3 DEF Placed, Executing, Perform
  <2>. QED BY <2>1, <2>2
<1>4. ASSUME NEW c \in Compositions, Recompose(c)
      PROVE  TypeOK' /\ Placed'
  <2>1. TypeOK'
    BY <1>4 DEF TypeOK, Recompose
  <2>2. Placed'
    BY <1>4 DEF Placed, Executing, Recompose
  <2>. QED BY <2>1, <2>2
<1>. QED BY <1>1, <1>2, <1>3, <1>4 DEF Environment

(* What a slot may do in one step. *)
SlotSteps(s) ==
  \/ \E c \in Callers, a \in Actions, w \in BOOLEAN : Begins(s, c, a, w)
  \/ Moves(s)
  \/ Ends(s)

(* The invariants do not depend on which Plan an invocation cloned its     *)
(* ports from: they hold of every step below, of which the coordinator's   *)
(* are some (an invocation clones the ports of the bound Plan).            *)
AnyStep == Environment \/ \E s \in Slots : SlotSteps(s)

LEMMA Steps ==
  ASSUME AnyStep
  PROVE  Environment \/ \E s \in Slots : SlotSteps(s)
BY DEF AnyStep

LEMMA NextSteps ==
  ASSUME Next
  PROVE  \/ Environment
         \/ \E s \in Slots :
              \/ \E c \in Callers, a \in Actions, w \in BOOLEAN :
                   BeginsWith(s, bound, c, a, w)
              \/ Moves(s)
              \/ Ends(s)
BY DEF Next, Start, Advance, Moves, Ends, BeginsWith

LEMMA NextIsAnyStep ==
  ASSUME TypeOK, [Next]_vars
  PROVE  [AnyStep]_vars
<1>1. bound \in Compositions
  BY DEF TypeOK
<1>. QED BY <1>1, NextSteps DEF AnyStep, SlotSteps, Begins

LEMMA TypesAreInductive ==
  ASSUME TypeOK, Placed, [AnyStep]_vars
  PROVE  TypeOK' /\ Placed'
<1>1. CASE UNCHANGED vars
  BY <1>1
  DEF TypeOK, Placed, Executing, vars, tables, late, world, request, loop, answers
<1>2. CASE AnyStep
  BY <1>2, EnvironmentKeepsTypes, StartKeepsTypes, MoveKeepsTypes, EndKeepsTypes
  DEF AnyStep, SlotSteps
<1>. QED BY <1>1, <1>2

(* Every variable always has its type, for any number of invocations,      *)
(* callers, actions, guards, participants and Plans.                       *)
THEOREM TypeCorrect == Spec => []TypeOK
<1>1. Init => TypeOK /\ Placed
  BY PlacedInit
<1>2. TypeOK /\ Placed /\ [Next]_vars => (TypeOK /\ Placed)'
  BY TypesAreInductive, NextIsAnyStep
<1>. QED BY <1>1, <1>2, PTL DEF Spec

LEMMA StepsHold == Spec => [][AnyStep]_vars
<1>1. TypeOK /\ [Next]_vars => [AnyStep]_vars
  BY NextIsAnyStep
<1>. QED BY <1>1, TypeCorrect, PTL DEF Spec

-----------------------------------------------------------------------------
(* Frozen identities *)

(* What an invocation holds of the stored action, and may rely on: once it *)
(* has passed the INSERT there is a row, once it has compared the intent   *)
(* the row is its own, and its copy is still what the table says.          *)
FrozenIdentity ==
  \A s \in Slots :
    LET row == actions[req[s].action] IN
    /\ pc[s] = "identify" => row # NoRow
    /\ pc[s] \in {"snapshot", "loop", "apply", "store"} =>
         row # NoRow /\ identity[s] = row /\ same_retention_intent(row, req[s])
    /\ Executing(s) /\ pc[s] \in {"load", "results"} =>
         row # NoRow /\ same_retention_intent(row, req[s])
    /\ pc[s] = "results" =>
         row # NoRow /\ identity[s] = row /\ row.owner = req[s].caller

(* A stored action never changes: DO NOTHING on conflict, and no DELETE.   *)
LEMMA RowsStay ==
  ASSUME TypeOK, Placed, [AnyStep]_vars
  PROVE  \A a \in Actions : actions[a] # NoRow => actions'[a] = actions[a]
<1>. USE DEF tables, TypeOK
<1>1. CASE UNCHANGED actions
  BY <1>1
<1>2. ASSUME NEW s \in Slots, FreezeAction(s)
      PROVE  \A a \in Actions : actions[a] # NoRow => actions'[a] = actions[a]
  BY <1>2 DEF FreezeAction, InsertAction
<1>3. ASSUME NEW w \in lateFreezes, LateFreeze(w)
      PROVE  \A a \in Actions : actions[a] # NoRow => actions'[a] = actions[a]
  BY <1>3 DEF LateFreeze, InsertAction
<1>4. CASE UNCHANGED vars
  BY <1>1, <1>4 DEF vars
<1>5. CASE Environment
  BY <1>1, <1>3, <1>5 DEF Environment, LateStore, Perform, Recompose
<1>6. ASSUME NEW s \in Slots, NEW c \in Callers, NEW a \in Actions, NEW w \in BOOLEAN,
             Begins(s, c, a, w)
      PROVE  UNCHANGED actions
  BY <1>6 DEF Begins, BeginsWith, StartExecute, StartRead
<1>7. ASSUME NEW s \in Slots, Moves(s), ~FreezeAction(s)
      PROVE  UNCHANGED actions
  BY <1>7
  DEF Moves, GuardAllows, Identify, Snapshot, SkipParticipant, CallParticipant,
      ParticipantCompletes, ParticipantRejects, Await, StoreResult, EndLoop, LoadIdentity
<1>8. ASSUME NEW s \in Slots, Ends(s)
      PROVE  UNCHANGED actions
  BY <1>8
  DEF Ends, GuardIsAmbiguous, GuardDenies, IntentConflicts, ReceiptIsMalformed, NothingToRead,
      LoadResults, Fail, FailInFlight
<1>. QED BY <1>1, <1>2, <1>4, <1>5, <1>6, <1>7, <1>8, Steps DEF SlotSteps

(* What a step leaves alone in a slot that is not taking it. *)
LEMMA OthersWait ==
  ASSUME TypeOK, Placed, NEW s \in Slots, NEW t \in Slots, t # s,
         \/ \E c \in Callers, a \in Actions, w \in BOOLEAN :
              Begins(s, c, a, w)
         \/ Moves(s)
         \/ Ends(s)
  PROVE  /\ pc'[t] = pc[t] /\ req'[t] = req[t] /\ comp'[t] = comp[t]
         /\ doneBefore'[t] = doneBefore[t] /\ verdicts'[t] = verdicts[t]
         /\ identity'[t] = identity[t] /\ completed'[t] = completed[t]
         /\ next'[t] = next[t] /\ outcome'[t] = outcome[t] /\ called'[t] = called[t]
<1>. USE DEF GoTo, Quiet, tables, late, world, request, loop, TypeOK
<1>1. ASSUME NEW c \in Callers, NEW a \in Actions, NEW w \in BOOLEAN,
             Begins(s, c, a, w)
      PROVE  /\ pc'[t] = pc[t] /\ req'[t] = req[t] /\ comp'[t] = comp[t]
             /\ doneBefore'[t] = doneBefore[t] /\ UNCHANGED loop
  BY <1>1 DEF Begins, BeginsWith, StartExecute, StartRead, Refuse, Admit
<1>2. CASE Moves(s)
  <2>1. UNCHANGED request /\ pc'[t] = pc[t]
    BY <1>2
    DEF Moves, GuardAllows, FreezeAction, Identify, Snapshot, SkipParticipant,
        CallParticipant, ParticipantCompletes, ParticipantRejects, Await, StoreResult,
        EndLoop, LoadIdentity
  <2>2. /\ verdicts'[t] = verdicts[t] /\ identity'[t] = identity[t]
        /\ completed'[t] = completed[t]
    BY <1>2
    DEF Moves, GuardAllows, FreezeAction, Identify, Snapshot, SkipParticipant,
        CallParticipant, ParticipantCompletes, ParticipantRejects, Await, StoreResult,
        EndLoop, LoadIdentity
  <2>3. next'[t] = next[t] /\ outcome'[t] = outcome[t] /\ called'[t] = called[t]
    BY <1>2
    DEF Moves, GuardAllows, FreezeAction, Identify, Snapshot, SkipParticipant,
        CallParticipant, ParticipantCompletes, ParticipantRejects, Await, StoreResult,
        EndLoop, LoadIdentity
  <2>. QED BY <2>1, <2>2, <2>3
<1>3. CASE Ends(s)
  <2>1. \E kind, rep : Finish(s, kind, rep)
    BY <1>3
    DEF Ends, GuardIsAmbiguous, GuardDenies, IntentConflicts, ReceiptIsMalformed,
        NothingToRead, LoadResults, Fail, FailInFlight
  <2>. QED BY <2>1 DEF Finish
<1>. QED BY <1>1, <1>2, <1>3

(* An invocation that ends leaves nothing behind in its slot. *)
LEMMA EndsIdle ==
  ASSUME TypeOK, NEW s \in Slots, Ends(s)
  PROVE  pc'[s] = "idle" /\ called'[s] = {} /\ doneBefore'[s] = {} /\ verdicts'[s] = << >>
<1>1. \E kind, rep : Finish(s, kind, rep)
  BY DEF Ends, GuardIsAmbiguous, GuardDenies, IntentConflicts, ReceiptIsMalformed,
         NothingToRead, LoadResults, Fail, FailInFlight
<1>. QED BY <1>1 DEF Finish, TypeOK

(* The environment leaves every invocation where it is. *)
LEMMA EnvironmentWaits ==
  ASSUME Environment \/ UNCHANGED vars
  PROVE  UNCHANGED <<pc, request, loop>>
BY DEF Environment, LateFreeze, LateStore, Perform, Recompose, vars

(* Where an admitted invocation starts. *)
LEMMA StartPlacesWith ==
  ASSUME TypeOK, NEW s \in Slots, NEW b \in Compositions,
         NEW c \in Callers, NEW a \in Actions, NEW w \in BOOLEAN,
         BeginsWith(s, b, c, a, w)
  PROVE  /\ UNCHANGED <<tables, late, world, loop>>
         /\ pc[s] = "idle"
         /\ \/ UNCHANGED <<pc, request>>
            \/ /\ pc'[s] = AfterVerdicts(b, 0) /\ comp'[s] = b
               /\ req'[s].op = "execute" /\ req'[s].action = a
               /\ doneBefore'[s] = completed_participants(a)
            \/ /\ pc'[s] = "load" /\ req'[s].op = "read"
               /\ UNCHANGED <<comp, doneBefore>>
<1>. USE DEF GoTo, TypeOK, Admit
<1>1. ASSUME NEW i \in Intents, StartExecute(s, b, c, a, i, w)
      PROVE  /\ UNCHANGED <<tables, late, world, loop>> /\ pc[s] = "idle"
             /\ \/ UNCHANGED <<pc, request>>
                \/ /\ pc'[s] = AfterVerdicts(b, 0) /\ comp'[s] = b
                   /\ req'[s].op = "execute" /\ req'[s].action = a
                   /\ doneBefore'[s] = completed_participants(a)
  BY <1>1 DEF StartExecute, Refuse
<1>2. ASSUME StartRead(s, c, a, w)
      PROVE  /\ UNCHANGED <<tables, late, world, loop>> /\ pc[s] = "idle"
             /\ \/ UNCHANGED <<pc, request>>
                \/ /\ pc'[s] = "load" /\ req'[s].op = "read"
                   /\ UNCHANGED <<comp, doneBefore>>
  BY <1>2 DEF StartRead, Refuse
<1>. QED BY <1>1, <1>2 DEF BeginsWith

LEMMA StartPlaces ==
  ASSUME TypeOK, NEW s \in Slots, NEW c \in Callers, NEW a \in Actions, NEW w \in BOOLEAN,
         Begins(s, c, a, w)
  PROVE  /\ UNCHANGED <<tables, late, world, loop>>
         /\ pc[s] = "idle"
         /\ \/ UNCHANGED <<pc, request>>
            \/ /\ \E b \in Compositions : pc'[s] = AfterVerdicts(b, 0) /\ comp'[s] = b
               /\ req'[s].op = "execute" /\ req'[s].action = a
               /\ doneBefore'[s] = completed_participants(a)
            \/ /\ pc'[s] = "load" /\ req'[s].op = "read"
               /\ UNCHANGED <<comp, doneBefore>>
<1>1. PICK b \in Compositions : BeginsWith(s, b, c, a, w)
  BY DEF Begins
<1>. QED BY <1>1, StartPlacesWith

LEMMA FrozenIsInductive ==
  ASSUME TypeOK, Placed, FrozenIdentity, [AnyStep]_vars, TypeOK', Placed'
  PROVE  FrozenIdentity'
<1>. DEFINE Holds(s) ==
       LET row == actions[req[s].action] IN
       /\ pc[s] = "identify" => row # NoRow
       /\ pc[s] \in {"snapshot", "loop", "apply", "store"} =>
            row # NoRow /\ identity[s] = row /\ same_retention_intent(row, req[s])
       /\ Executing(s) /\ pc[s] \in {"load", "results"} =>
            row # NoRow /\ same_retention_intent(row, req[s])
       /\ pc[s] = "results" =>
            row # NoRow /\ identity[s] = row /\ row.owner = req[s].caller
<1>1. \A s \in Slots : pc[s] # "idle" => req[s].action \in Actions
  BY DEF Placed, Requests
<1>2. \A a \in Actions : actions[a] # NoRow => actions'[a] = actions[a]
  BY RowsStay
<1>3. ASSUME NEW t \in Slots, pc'[t] = pc[t], req'[t] = req[t], identity'[t] = identity[t]
      PROVE  Holds(t)'
  BY <1>1, <1>2, <1>3 DEF FrozenIdentity, Executing, same_retention_intent
<1>4. ASSUME NEW s \in Slots, Moves(s)
      PROVE  Holds(s)'
  <2>. USE <1>1, <1>2 DEF GoTo, Quiet, tables, late, world, request, loop, TypeOK,
                          FrozenIdentity, Executing, same_retention_intent
  <2>1. ASSUME NEW v \in Verdicts, GuardAllows(s, v)
        PROVE  Holds(s)'
    BY <2>1 DEF GuardAllows, AfterVerdicts
  <2>2. CASE FreezeAction(s)
    <3>1. Executing(s)
      BY <2>2 DEF FreezeAction, Placed
    <3>2. NewRow(s) # NoRow /\ req[s].action \in Actions
      BY <3>1, NewRowType, RowAssumption
    <3>. QED BY <2>2, <3>2 DEF FreezeAction, InsertAction
  <2>3. CASE Identify(s)
    BY <2>3 DEF Identify
  <2>4. CASE Snapshot(s)
    BY <2>4 DEF Snapshot
  <2>5. CASE SkipParticipant(s)
    BY <2>5 DEF SkipParticipant, MoreParticipants
  <2>6. CASE CallParticipant(s)
    BY <2>6 DEF CallParticipant, MoreParticipants
  <2>7. ASSUME NEW new \in Results, Await(s, new)
        PROVE  Holds(s)'
    BY <2>7 DEF Await
  <2>8. CASE StoreResult(s)
    BY <2>8 DEF StoreResult
  <2>9. CASE EndLoop(s)
    BY <2>9 DEF EndLoop
  <2>10. CASE LoadIdentity(s)
    BY <2>10 DEF LoadIdentity, Visible
  <2>. QED
    BY <1>4, <2>1, <2>2, <2>3, <2>4, <2>5, <2>6, <2>7, <2>8, <2>9, <2>10, NamesDiffer
    DEF Moves, ParticipantCompletes, ParticipantRejects
<1>5. ASSUME NEW s \in Slots, Ends(s)
      PROVE  Holds(s)'
  BY <1>5, EndsIdle DEF Executing
<1>6. ASSUME NEW s \in Slots, NEW c \in Callers, NEW a \in Actions, NEW w \in BOOLEAN,
             Begins(s, c, a, w)
      PROVE  Holds(s)'
  <2>1. \/ UNCHANGED pc
        \/ \E b \in Compositions : pc'[s] = AfterVerdicts(b, 0)
        \/ pc'[s] = "load" /\ req'[s].op = "read"
    BY <1>6, StartPlaces
  <2>2. pc[s] = "idle"
    BY <1>6, StartPlaces
  <2>. QED BY <2>1, <2>2 DEF Executing, AfterVerdicts
<1>7. \A t \in Slots : Holds(t)'
  <2>1. CASE Environment \/ UNCHANGED vars
    <3>1. UNCHANGED <<pc, req, identity>>
      BY <2>1, EnvironmentWaits DEF request, loop
    <3>. QED BY <1>3, <3>1
  <2>2. ASSUME NEW s \in Slots,
               \/ \E c \in Callers, a \in Actions, w \in BOOLEAN :
                    Begins(s, c, a, w)
               \/ Moves(s)
               \/ Ends(s)
        PROVE  \A t \in Slots : Holds(t)'
    <3>1. Holds(s)'
      BY <1>4, <1>5, <1>6, <2>2
    <3>2. \A t \in Slots \ {s} :
            pc'[t] = pc[t] /\ req'[t] = req[t] /\ identity'[t] = identity[t]
      BY <2>2, OthersWait
    <3>. QED BY <1>3, <3>1, <3>2
  <2>. QED BY <2>1, <2>2, Steps DEF SlotSteps
<1>. QED BY <1>7 DEF FrozenIdentity

-----------------------------------------------------------------------------
(* Delivery *)

(* Somebody has sent participant p an apply_retention for action a.        *)
Requested(a, p) == \E m \in asked : m.action = a /\ m.participant = p

(* An entry that participant p has earned for action a. *)
Genuine(a, p, entry) ==
  \/ entry = Rejected
  \/ \E r \in issued[a][p] : entry = CompletedWith(r)

(* Every receipt and every result, stored, about to be stored or on its    *)
(* way, comes from a participant that was asked for that action.           *)
Delivery ==
  /\ ApplyMatchesFrozenAction
  /\ \A a \in Actions, p \in Participants :
       /\ issued[a][p] # {} => Requested(a, p)
       /\ results[a][p] # Absent => Requested(a, p) /\ Genuine(a, p, results[a][p])
  /\ \A s \in Slots :
       pc[s] \in {"apply", "store"} =>
         [action |-> req[s].action, participant |-> Current(s), intent |-> req[s].intent]
           \in asked
  /\ \A s \in Slots :
       pc[s] = "store" => Genuine(req[s].action, Current(s), outcome[s])
  /\ \A w \in lateStores : Requested(w[1], w[2]) /\ Genuine(w[1], w[2], w[3])

(* Requests and receipts are only ever added. *)
LEMMA WorldGrows ==
  ASSUME TypeOK, [AnyStep]_vars
  PROVE  /\ asked \subseteq asked'
         /\ \A a \in Actions, p \in Participants : issued[a][p] \subseteq issued'[a][p]
<1>. USE DEF world, TypeOK
<1>1. CASE UNCHANGED <<asked, issued>>
  BY <1>1
<1>2. CASE Environment \/ UNCHANGED vars
  <2>1. ASSUME NEW a \in Actions, NEW p \in Participants, NEW r \in Receipts, Perform(a, p, r)
        PROVE  /\ UNCHANGED asked
               /\ \A b \in Actions, q \in Participants : issued[b][q] \subseteq issued'[b][q]
    BY <2>1 DEF Perform
  <2>2. (\E a \in Actions, p \in Participants, r \in Receipts : Perform(a, p, r))
          \/ UNCHANGED <<asked, issued>>
    BY <1>2 DEF Environment, LateFreeze, LateStore, Recompose, vars
  <2>. QED BY <1>1, <2>1, <2>2
<1>3. ASSUME NEW s \in Slots,
             \E c \in Callers, a \in Actions, w \in BOOLEAN :
               Begins(s, c, a, w)
      PROVE  UNCHANGED <<asked, issued>>
  BY <1>3, StartPlaces
<1>4. ASSUME NEW s \in Slots, Moves(s)
      PROVE  asked \subseteq asked' /\ UNCHANGED issued
  BY <1>4
  DEF Moves, GuardAllows, FreezeAction, Identify, Snapshot, SkipParticipant, CallParticipant,
      ParticipantCompletes, ParticipantRejects, Await, StoreResult, EndLoop, LoadIdentity
<1>5. ASSUME NEW s \in Slots, Ends(s)
      PROVE  UNCHANGED <<asked, issued>>
  BY <1>5
  DEF Ends, GuardIsAmbiguous, GuardDenies, IntentConflicts, ReceiptIsMalformed, NothingToRead,
      LoadResults, Fail, FailInFlight
<1>. QED BY <1>1, <1>2, <1>3, <1>4, <1>5, Steps DEF SlotSteps

(* What a single upsert does to the table. *)
LEMMA StoreInKeeps ==
  ASSUME TypeOK, NEW a \in Actions, NEW p \in Participants, NEW new \in Results,
         StoreIn(a, p, new)
  PROVE  \A b \in Actions, q \in Participants :
           results'[b][q] = results[b][q] \/ (b = a /\ q = p /\ results'[b][q] = new)
BY DEF TypeOK, StoreIn, UpsertResult

(* The only steps that touch the results are upserts of genuine entries    *)
(* for participants that were asked.                                       *)
LEMMA ResultSteps ==
  ASSUME TypeOK, Placed, Delivery, [AnyStep]_vars
  PROVE  \/ UNCHANGED results
         \/ \E a \in Actions, p \in Participants, new \in Results :
              Requested(a, p) /\ Genuine(a, p, new) /\ StoreIn(a, p, new)
<1>. USE DEF tables
<1>1. CASE Environment \/ UNCHANGED vars
  <2>1. ASSUME NEW w \in lateStores, LateStore(w)
        PROVE  \E a \in Actions, p \in Participants, new \in Results :
                 Requested(a, p) /\ Genuine(a, p, new) /\ StoreIn(a, p, new)
    <3>1. w[1] \in Actions /\ w[2] \in Participants /\ w[3] \in Results
      BY DEF TypeOK
    <3>. QED BY <2>1, <3>1 DEF LateStore, Delivery
  <2>. QED BY <1>1, <2>1 DEF Environment, LateFreeze, Perform, Recompose, vars
<1>2. ASSUME NEW s \in Slots,
             \E c \in Callers, a \in Actions, w \in BOOLEAN :
               Begins(s, c, a, w)
      PROVE  UNCHANGED results
  BY <1>2, StartPlaces
<1>3. ASSUME NEW s \in Slots, StoreResult(s)
      PROVE  \E a \in Actions, p \in Participants, new \in Results :
               Requested(a, p) /\ Genuine(a, p, new) /\ StoreIn(a, p, new)
  <2>1. Executing(s) /\ pc[s] = "store" /\ next[s] <= Len(comp[s].participants)
    BY <1>3 DEF StoreResult, Placed, Executing
  <2>2. /\ req[s].action \in Actions /\ Current(s) \in Participants
        /\ outcome[s] \in Results
    BY <2>1, CurrentType, NewRowType DEF TypeOK
  <2>3. Requested(req[s].action, Current(s)) /\ Genuine(req[s].action, Current(s), outcome[s])
    BY <2>1 DEF Delivery, Requested
  <2>. QED BY <1>3, <2>2, <2>3 DEF StoreResult
<1>4. ASSUME NEW s \in Slots, Moves(s), ~StoreResult(s)
      PROVE  UNCHANGED results
  BY <1>4
  DEF Moves, GuardAllows, FreezeAction, Identify, Snapshot, SkipParticipant, CallParticipant,
      ParticipantCompletes, ParticipantRejects, Await, EndLoop, LoadIdentity
<1>5. ASSUME NEW s \in Slots, Ends(s)
      PROVE  UNCHANGED results
  BY <1>5
  DEF Ends, GuardIsAmbiguous, GuardDenies, IntentConflicts, ReceiptIsMalformed, NothingToRead,
      LoadResults, Fail, FailInFlight
<1>. QED BY <1>1, <1>2, <1>3, <1>4, <1>5, Steps DEF SlotSteps

(* Requests leave only for frozen participants, with the stored intent. *)
LEMMA AskedIsInductive ==
  ASSUME TypeOK, Placed, FrozenIdentity, ApplyMatchesFrozenAction, [AnyStep]_vars
  PROVE  ApplyMatchesFrozenAction'
<1>. USE DEF world
<1>1. \A a \in Actions : actions[a] # NoRow => actions'[a] = actions[a]
  BY RowsStay
<1>2. \A m \in asked : m.action \in Actions
  BY DEF TypeOK
<1>3. CASE UNCHANGED asked
  BY <1>1, <1>2, <1>3 DEF ApplyMatchesFrozenAction
<1>4. ASSUME NEW s \in Slots, CallParticipant(s)
      PROVE  ApplyMatchesFrozenAction'
  <2>1. pc[s] = "loop" /\ Current(s) \in Range(identity[s].participants)
    BY <1>4 DEF CallParticipant, MoreParticipants, MustCall
  <2>2. /\ req[s].action \in Actions
        /\ actions[req[s].action] # NoRow
        /\ identity[s] = actions[req[s].action]
        /\ req[s].intent = actions[req[s].action].intent
    BY <2>1 DEF FrozenIdentity, same_retention_intent, Placed, Requests
  <2>3. UNCHANGED actions
    BY <1>4 DEF CallParticipant, tables
  <2>. QED BY <1>2, <1>4, <2>1, <2>2, <2>3 DEF CallParticipant, ApplyMatchesFrozenAction
<1>5. (\E s \in Slots : CallParticipant(s)) \/ UNCHANGED asked
  <2>1. CASE Environment \/ UNCHANGED vars
    BY <2>1 DEF Environment, LateFreeze, LateStore, Perform, Recompose, vars
  <2>2. ASSUME NEW s \in Slots, Moves(s), ~CallParticipant(s)
        PROVE  UNCHANGED asked
    BY <2>2
    DEF Moves, GuardAllows, FreezeAction, Identify, Snapshot, SkipParticipant,
        ParticipantCompletes, ParticipantRejects, Await, StoreResult, EndLoop, LoadIdentity
  <2>3. ASSUME NEW s \in Slots, Ends(s)
        PROVE  UNCHANGED asked
    BY <2>3
    DEF Ends, GuardIsAmbiguous, GuardDenies, IntentConflicts, ReceiptIsMalformed,
        NothingToRead, LoadResults, Fail, FailInFlight
  <2>. QED BY <2>1, <2>2, <2>3, Steps, StartPlaces DEF SlotSteps
<1>. QED BY <1>3, <1>4, <1>5

LEMMA GenuineStays ==
  ASSUME TypeOK, [AnyStep]_vars, NEW a \in Actions, NEW p \in Participants
  PROVE  /\ Requested(a, p) => Requested(a, p)'
         /\ \A entry : Genuine(a, p, entry) => Genuine(a, p, entry)'
BY WorldGrows DEF Requested, Genuine

LEMMA DeliveryIsInductive ==
  ASSUME TypeOK, Placed, FrozenIdentity, Delivery, [AnyStep]_vars, TypeOK', Placed'
  PROVE  Delivery'
<1>. DEFINE SlotDelivers(s) ==
       /\ pc[s] \in {"apply", "store"} =>
            [action |-> req[s].action, participant |-> Current(s), intent |-> req[s].intent]
              \in asked
       /\ pc[s] = "store" => Genuine(req[s].action, Current(s), outcome[s])
<1>1. ApplyMatchesFrozenAction'
  BY AskedIsInductive DEF Delivery
<1>2. \A a \in Actions, p \in Participants :
        (results[a][p] # Absent => Requested(a, p) /\ Genuine(a, p, results[a][p]))'
  <2>1. CASE UNCHANGED results
    BY <2>1, GenuineStays DEF Delivery, Genuine
  <2>2. ASSUME NEW a \in Actions, NEW p \in Participants, NEW new \in Results,
               Requested(a, p), Genuine(a, p, new), StoreIn(a, p, new)
        PROVE  \A b \in Actions, q \in Participants :
                 (results[b][q] # Absent => Requested(b, q) /\ Genuine(b, q, results[b][q]))'
    <3>. SUFFICES ASSUME NEW b \in Actions, NEW q \in Participants, results'[b][q] # Absent
                  PROVE  (Requested(b, q) /\ Genuine(b, q, results[b][q]))'
      BY DEF Absent
    <3>1. CASE results'[b][q] = results[b][q]
      <4>1. Requested(b, q) /\ Genuine(b, q, results[b][q])
        BY <3>1 DEF Delivery
      <4>. QED BY <3>1, <4>1, GenuineStays DEF Genuine
    <3>2. CASE b = a /\ q = p /\ results'[b][q] = new
      BY <2>2, <3>2, GenuineStays DEF Genuine
    <3>. QED BY <2>2, <3>1, <3>2, StoreInKeeps
  <2>. QED BY <2>1, <2>2, ResultSteps
<1>3. \A a \in Actions, p \in Participants : issued'[a][p] # {} => Requested(a, p)'
  <2>1. CASE UNCHANGED issued
    BY <2>1, GenuineStays DEF Delivery
  <2>2. ASSUME NEW a \in Actions, NEW p \in Participants, NEW r \in Receipts, Perform(a, p, r)
        PROVE  \A b \in Actions, q \in Participants : issued'[b][q] # {} => Requested(b, q)'
    <3>1. \A b \in Actions, q \in Participants :
            issued'[b][q] = issued[b][q] \/ (b = a /\ q = p)
      BY <2>2 DEF Perform, TypeOK
    <3>2. Requested(a, p)
      BY <2>2 DEF Perform, Requested
    <3>. QED BY <3>1, <3>2, GenuineStays DEF Delivery
  <2>3. \/ UNCHANGED issued
        \/ \E a \in Actions, p \in Participants, r \in Receipts : Perform(a, p, r)
    <3>1. CASE Environment \/ UNCHANGED vars
      BY <3>1 DEF Environment, LateFreeze, LateStore, Recompose, vars, world
    <3>2. ASSUME NEW s \in Slots, Moves(s)
          PROVE  UNCHANGED issued
      BY <3>2
      DEF Moves, GuardAllows, FreezeAction, Identify, Snapshot, SkipParticipant,
          CallParticipant, ParticipantCompletes, ParticipantRejects, Await, StoreResult,
          EndLoop, LoadIdentity, world
    <3>3. ASSUME NEW s \in Slots, Ends(s)
          PROVE  UNCHANGED issued
      BY <3>3
      DEF Ends, GuardIsAmbiguous, GuardDenies, IntentConflicts, ReceiptIsMalformed,
          NothingToRead, LoadResults, Fail, FailInFlight, world
    <3>. QED BY <3>1, <3>2, <3>3, Steps, StartPlaces DEF world, SlotSteps
  <2>. QED BY <2>1, <2>2, <2>3
<1>4. ASSUME NEW t \in Slots, pc'[t] = pc[t], req'[t] = req[t], comp'[t] = comp[t],
             next'[t] = next[t], outcome'[t] = outcome[t]
      PROVE  SlotDelivers(t)'
  <2>1. Current(t)' = Current(t)
    BY <1>4 DEF Current
  <2>2. pc[t] \in {"apply", "store"} => req[t].action \in Actions /\ Current(t) \in Participants
    BY CurrentType, NewRowType DEF Placed, Executing
  <2>. QED BY <1>4, <2>1, <2>2, WorldGrows, GenuineStays DEF Delivery
<1>5. ASSUME NEW s \in Slots, Moves(s)
      PROVE  SlotDelivers(s)'
  <2>. USE DEF GoTo, TypeOK
  <2>1. CASE CallParticipant(s)
    <3>1. Current(s)' = Current(s) /\ pc'[s] = "apply" /\ UNCHANGED req
      BY <2>1 DEF CallParticipant, MoreParticipants, Current, request
    <3>. QED BY <2>1, <3>1 DEF CallParticipant
  <2>2. ASSUME NEW new \in Results, Await(s, new), Genuine(req[s].action, Current(s), new)
        PROVE  SlotDelivers(s)'
    <3>1. /\ Current(s)' = Current(s) /\ pc[s] = "apply" /\ pc'[s] = "store"
          /\ outcome'[s] = new /\ UNCHANGED <<req, asked, issued>>
      BY <2>2 DEF Await, Current, request, world
    <3>. QED BY <2>2, <3>1 DEF Delivery, Genuine
  <2>3. ASSUME NEW r \in Receipts, ParticipantCompletes(s, r)
        PROVE  SlotDelivers(s)'
    BY <2>2, <2>3, NamesDiffer DEF ParticipantCompletes, Genuine
  <2>4. CASE ParticipantRejects(s)
    BY <2>2, <2>4, NamesDiffer DEF ParticipantRejects, Genuine
  <2>5. ASSUME ~CallParticipant(s), ~ParticipantRejects(s),
               ~(\E r \in Receipts : ParticipantCompletes(s, r))
        PROVE  pc'[s] \notin {"apply", "store"}
    BY <1>5, <2>5
    DEF Moves, GuardAllows, AfterVerdicts, FreezeAction, Identify, Snapshot, SkipParticipant,
        MoreParticipants, StoreResult, EndLoop, LoadIdentity
  <2>. QED BY <2>1, <2>3, <2>4, <2>5
<1>6. ASSUME NEW s \in Slots, Ends(s)
      PROVE  SlotDelivers(s)'
  BY <1>6, EndsIdle
<1>7. ASSUME NEW s \in Slots, NEW c \in Callers, NEW a \in Actions, NEW w \in BOOLEAN,
             Begins(s, c, a, w)
      PROVE  SlotDelivers(s)'
  <2>1. pc'[s] \in {"idle", "load", "freeze", "guard"}
    BY <1>7, StartPlaces DEF AfterVerdicts
  <2>. QED BY <2>1
<1>8. \A t \in Slots : SlotDelivers(t)'
  <2>1. CASE Environment \/ UNCHANGED vars
    BY <1>4, <2>1, EnvironmentWaits DEF request, loop
  <2>2. ASSUME NEW s \in Slots,
               \/ \E c \in Callers, a \in Actions, w \in BOOLEAN :
                    Begins(s, c, a, w)
               \/ Moves(s)
               \/ Ends(s)
        PROVE  \A t \in Slots : SlotDelivers(t)'
    <3>1. SlotDelivers(s)'
      BY <1>5, <1>6, <1>7, <2>2
    <3>2. \A t \in Slots \ {s} :
            /\ pc'[t] = pc[t] /\ req'[t] = req[t] /\ comp'[t] = comp[t]
            /\ next'[t] = next[t] /\ outcome'[t] = outcome[t]
      BY <2>2, OthersWait
    <3>. QED BY <1>4, <3>1, <3>2
  <2>. QED BY <2>1, <2>2, Steps DEF SlotSteps
<1>9. \A w \in lateStores' : Requested(w[1], w[2])' /\ Genuine(w[1], w[2], w[3])'
  <2>1. \A w \in lateStores : w[1] \in Actions /\ w[2] \in Participants
    BY DEF TypeOK
  <2>2. CASE lateStores' \subseteq lateStores
    BY <2>1, <2>2, GenuineStays DEF Delivery
  <2>3. ASSUME NEW s \in Slots, pc[s] = "store",
               lateStores' = lateStores \cup {<<req[s].action, Current(s), outcome[s]>>}
        PROVE  \A w \in lateStores' : Requested(w[1], w[2])' /\ Genuine(w[1], w[2], w[3])'
    <3>1. Executing(s) /\ next[s] <= Len(comp[s].participants)
      BY <2>3 DEF Placed, Executing
    <3>2. req[s].action \in Actions /\ Current(s) \in Participants
      BY <3>1, CurrentType, NewRowType
    <3>3. Requested(req[s].action, Current(s)) /\ Genuine(req[s].action, Current(s), outcome[s])
      BY <2>3 DEF Delivery, Requested
    <3>. QED BY <2>1, <2>3, <3>2, <3>3, GenuineStays DEF Delivery
  <2>4. \/ lateStores' \subseteq lateStores
        \/ \E s \in Slots :
             /\ pc[s] = "store"
             /\ lateStores' = lateStores \cup {<<req[s].action, Current(s), outcome[s]>>}
    <3>1. CASE Environment \/ UNCHANGED vars
      BY <3>1 DEF Environment, LateFreeze, LateStore, Perform, Recompose, vars, late
    <3>2. ASSUME NEW s \in Slots, Moves(s)
          PROVE  UNCHANGED lateStores
      BY <3>2
      DEF Moves, GuardAllows, FreezeAction, Identify, Snapshot, SkipParticipant,
          CallParticipant, ParticipantCompletes, ParticipantRejects, Await, StoreResult,
          EndLoop, LoadIdentity, late
    <3>3. ASSUME NEW s \in Slots, Ends(s), ~FailInFlight(s)
          PROVE  UNCHANGED lateStores
      BY <3>3
      DEF Ends, GuardIsAmbiguous, GuardDenies, IntentConflicts, ReceiptIsMalformed,
          NothingToRead, LoadResults, Fail, late
    <3>4. ASSUME NEW s \in Slots, FailInFlight(s)
          PROVE  \/ UNCHANGED lateStores
                 \/ /\ pc[s] = "store"
                    /\ lateStores' =
                         lateStores \cup {<<req[s].action, Current(s), outcome[s]>>}
      BY <3>4 DEF FailInFlight
    <3>. QED BY <3>1, <3>2, <3>3, <3>4, Steps, StartPlaces DEF late, SlotSteps
  <2>. QED BY <2>2, <2>3, <2>4
<1>. QED BY <1>1, <1>2, <1>3, <1>8, <1>9 DEF Delivery

-----------------------------------------------------------------------------
(* Safety: from the inductive invariants above and three more, what an ok  *)
(* answer says, what a reported completion rests on, and what an           *)
(* invocation remembers.                                                   *)

Core == TypeOK /\ Placed /\ FrozenIdentity /\ Delivery

LEMMA CoreInit == Init => Core
<1>. SUFFICES ASSUME Init PROVE Core
  OBVIOUS
<1>1. TypeOK /\ Placed
  BY PlacedInit
<1>2. FrozenIdentity
  BY DEF Init, FrozenIdentity, Executing
<1>3. Delivery
  BY DEF Init, Delivery, ApplyMatchesFrozenAction
<1>. QED BY <1>1, <1>2, <1>3 DEF Core

LEMMA CoreStep ==
  ASSUME Core, [AnyStep]_vars
  PROVE  Core'
<1>1. TypeOK' /\ Placed'
  BY TypesAreInductive DEF Core
<1>2. FrozenIdentity' /\ Delivery'
  BY <1>1, FrozenIsInductive, DeliveryIsInductive DEF Core
<1>. QED BY <1>1, <1>2 DEF Core

LEMMA CoreHolds == Spec => []Core
BY CoreInit, CoreStep, StepsHold, PTL DEF Spec

-----------------------------------------------------------------------------
(* Theorems that follow from the core invariant *)

(* No apply_retention request ever strays from the frozen participants or  *)
(* the stored intent (lib.rs:551-580).                                     *)
THEOREM FrozenRequestsOnly == Spec => []ApplyMatchesFrozenAction
<1>1. Core => ApplyMatchesFrozenAction
  BY DEF Core, Delivery
<1>. QED BY <1>1, CoreHolds, PTL

(* No result row is an orphan of the report or of the foreign key          *)
(* (lib.rs:562, migrations/001:28).                                        *)
THEOREM ResultsAreReported == Spec => []ResultsOfFrozenParticipants
<1>1. Core => ResultsOfFrozenParticipants
  BY DEF Core, Delivery, ApplyMatchesFrozenAction, Requested, ResultsOfFrozenParticipants
<1>. QED BY <1>1, CoreHolds, PTL

(* The coordinator never stores a receipt it was not given (lib.rs:581).   *)
THEOREM NoInventedReceipt == Spec => []ReceiptsAreGenuine
<1>1. ASSUME Core, NEW a \in Actions, NEW p \in Participants,
             results[a][p].status = "completed"
      PROVE  results[a][p].receipt \in issued[a][p]
  <2>1. results[a][p] # Absent /\ results[a][p] # Rejected
    BY <1>1 DEF Absent, Rejected
  <2>2. PICK r \in issued[a][p] : results[a][p] = CompletedWith(r)
    BY <1>1, <2>1 DEF Core, Delivery, Genuine
  <2>. QED BY <2>2 DEF CompletedWith
<1>2. Core => ReceiptsAreGenuine
  BY <1>1 DEF ReceiptsAreGenuine
<1>. QED BY <1>2, CoreHolds, PTL

(* The two "action disappeared" failures are unreachable (lib.rs:548, 616) *)
THEOREM DisappearanceIsImpossible == Spec => []ActionNeverDisappears
<1>1. Core => ActionNeverDisappears
  BY DEF Core, FrozenIdentity, ActionNeverDisappears, Visible, same_retention_intent
<1>. QED BY <1>1, CoreHolds, PTL

LEMMA CompletionStays ==
  ASSUME Core, [AnyStep]_vars, NEW a \in Actions, NEW p \in Participants,
         results[a][p].status = "completed"
  PROVE  results'[a][p] = results[a][p]
<1>1. CASE UNCHANGED results
  BY <1>1
<1>2. ASSUME NEW b \in Actions, NEW q \in Participants, NEW new \in Results, StoreIn(b, q, new)
      PROVE  results'[a][p] = results[a][p]
  BY <1>2 DEF Core, TypeOK, StoreIn, UpsertResult
<1>. QED BY <1>1, <1>2, ResultSteps DEF Core

(* A stored completion and its receipt survive every step (lib.rs:879).    *)
THEOREM StickyCompletion == Spec => CompletionIsSticky
<1>1. Core /\ [AnyStep]_vars =>
        [\A a \in Actions, p \in Participants :
           results[a][p].status = "completed" => results'[a][p] = results[a][p]]_results
  BY CompletionStays
<1>. QED BY <1>1, CoreHolds, StepsHold, PTL DEF Spec, CompletionIsSticky

-----------------------------------------------------------------------------
(* What an ok answer says *)

(* An ok answer was a look at the owner's row and at every result of it.   *)
AnswerIsALook ==
  reply.kind = "ok" =>
    LET a == reply.to.action IN
    /\ a \in Actions /\ actions[a] \in Rows
    /\ actions[a].owner = reply.to.caller
    /\ reply.report = ReportOf(actions[a], results[a])

(* Every step that is not LoadResults answers otherwise or not at all.     *)
LEMMA OnlyLooksAreOk ==
  ASSUME TypeOK, AnyStep, reply'.kind = "ok"
  PROVE  \E s \in Slots : LoadResults(s)
<1>. USE DEF Quiet, GoTo, NoReply
<1>1. ASSUME Environment
      PROVE  FALSE
  BY <1>1 DEF Environment, LateFreeze, LateStore, Perform, Recompose
<1>2. ASSUME NEW s \in Slots, NEW c \in Callers, NEW a \in Actions, NEW w \in BOOLEAN,
             Begins(s, c, a, w)
      PROVE  FALSE
  BY <1>2 DEF Begins, BeginsWith, StartExecute, StartRead, Refuse, Admit, Say
<1>3. ASSUME NEW s \in Slots, Moves(s)
      PROVE  FALSE
  BY <1>3
  DEF Moves, GuardAllows, FreezeAction, Identify, Snapshot, SkipParticipant, CallParticipant,
      ParticipantCompletes, ParticipantRejects, Await, StoreResult, EndLoop, LoadIdentity
<1>4. ASSUME NEW s \in Slots, Ends(s), ~LoadResults(s)
      PROVE  FALSE
  BY <1>4
  DEF Ends, GuardIsAmbiguous, GuardDenies, IntentConflicts, ReceiptIsMalformed, NothingToRead,
      Fail, FailInFlight, Finish, Say
<1>. QED BY <1>1, <1>2, <1>3, <1>4, Steps DEF SlotSteps

LEMMA LookStep ==
  ASSUME Core, AnswerIsALook, [AnyStep]_vars
  PROVE  AnswerIsALook'
<1>1. CASE UNCHANGED vars
  BY <1>1 DEF AnswerIsALook, vars, answers, tables
<1>2. ASSUME NEW s \in Slots, LoadResults(s)
      PROVE  AnswerIsALook'
  <2>. DEFINE a == req[s].action
  <2>1. /\ a \in Actions /\ identity[s] = actions[a] /\ identity[s] \in Rows
        /\ actions[a].owner = req[s].caller
    BY <1>2 DEF LoadResults, Core, TypeOK, Placed, Requests, FrozenIdentity
  <2>2. /\ reply'.to = req[s] /\ reply'.report = ReportOf(actions[a], results[a])
        /\ UNCHANGED <<actions, results>>
    BY <1>2, <2>1 DEF LoadResults, Finish, Say, tables
  <2>. QED BY <2>1, <2>2 DEF AnswerIsALook
<1>3. CASE AnyStep /\ reply'.kind = "ok"
  BY <1>2, <1>3, OnlyLooksAreOk DEF Core
<1>. QED BY <1>1, <1>3 DEF AnswerIsALook

LEMMA LookHolds == Spec => [](Core /\ AnswerIsALook)
<1>1. Init => AnswerIsALook
  BY DEF Init, AnswerIsALook, NoReply
<1>. QED BY <1>1, CoreHolds, LookStep, StepsHold, PTL DEF Spec

(* Only the owner is told of an action, and only the owner's invocations   *)
(* call its participants (lib.rs:837, lib.rs:895).                         *)
THEOREM OwnersOnly == Spec => []OwnerOnly
<1>1. Core /\ AnswerIsALook => OwnerOnly
  BY DEF Core, AnswerIsALook, OwnerOnly, FrozenIdentity, same_retention_intent
<1>. QED BY <1>1, LookHolds, PTL

(* A report "completed" is the truth about every frozen participant        *)
(* (lib.rs:909-957).                                                       *)
THEOREM CompletedIsTrue == Spec => []CompletedMeansApplied
<1>. SUFFICES ASSUME Core, AnswerIsALook PROVE CompletedMeansApplied
  BY LookHolds, PTL
<1>. DEFINE a == reply.to.action
<1>. SUFFICES ASSUME reply.kind = "ok", StatusOf(reply.report) = "completed",
                     NEW p \in Range(actions[a].participants)
              PROVE  /\ reply.report[p].receipt \in issued[a][p]
                     /\ [action |-> a, participant |-> p, intent |-> actions[a].intent] \in asked
  BY DEF CompletedMeansApplied
<1>1. /\ a \in Actions /\ actions[a] \in Rows
      /\ reply.report = ReportOf(actions[a], results[a])
  BY DEF AnswerIsALook
<1>2. p \in Participants
  BY <1>1, RowType
<1>3. reply.report[p] # Pending /\ reply.report[p] # Rejected /\ p \in DOMAIN reply.report
  BY <1>1 DEF StatusOf, ReportOf
<1>4. results[a][p] # Absent /\ reply.report[p] = results[a][p]
  BY <1>1, <1>3 DEF ReportOf
<1>5. Requested(a, p) /\ Genuine(a, p, results[a][p])
  BY <1>1, <1>2, <1>4 DEF Core, Delivery
<1>6. PICK r \in issued[a][p] : results[a][p] = CompletedWith(r)
  BY <1>3, <1>4, <1>5 DEF Genuine
<1>7. reply.report[p].receipt \in issued[a][p]
  BY <1>4, <1>6 DEF CompletedWith
<1>8. PICK m \in asked : m.action = a /\ m.participant = p
  BY <1>5 DEF Requested
<1>9. m.intent = actions[a].intent
  BY <1>8 DEF Core, Delivery, ApplyMatchesFrozenAction
<1>10. m = [action |-> a, participant |-> p, intent |-> actions[a].intent]
  BY <1>8, <1>9 DEF Core, TypeOK
<1>. QED BY <1>7, <1>8, <1>10

-----------------------------------------------------------------------------
(* Reported completions *)

Told ==
  /\ ReportedCompletionIsFinal
  /\ \A m \in reported : m.line.status = "completed"

(* A step reports nothing new unless it is LoadResults, which reports what *)
(* is stored.                                                              *)
LEMMA ReportsAreLooks ==
  ASSUME Core, AnswerIsALook, [AnyStep]_vars
  PROVE  \A m \in reported' : m \in reported
           \/ /\ m.action \in Actions /\ m.participant \in Participants
              /\ m.line = results'[m.action][m.participant]
              /\ m.line.status = "completed"
<1>. USE DEF Quiet, GoTo
<1>1. CASE Environment \/ UNCHANGED vars
  BY <1>1 DEF Environment, LateFreeze, LateStore, Perform, Recompose, vars, answers
<1>2. ASSUME NEW s \in Slots, NEW c \in Callers, NEW a \in Actions, NEW w \in BOOLEAN,
             Begins(s, c, a, w)
      PROVE  reported' \subseteq reported
  <2>1. DOMAIN NoReport = {}
    BY NoReportType
  <2>. QED BY <1>2, <2>1
           DEF Begins, BeginsWith, StartExecute, StartRead, Refuse, Admit, Say
<1>3. ASSUME NEW s \in Slots, Moves(s)
      PROVE  UNCHANGED reported
  BY <1>3
  DEF Moves, GuardAllows, FreezeAction, Identify, Snapshot, SkipParticipant, CallParticipant,
      ParticipantCompletes, ParticipantRejects, Await, StoreResult, EndLoop, LoadIdentity
<1>4. ASSUME NEW s \in Slots, Ends(s), ~LoadResults(s)
      PROVE  reported' \subseteq reported
  <2>1. DOMAIN NoReport = {}
    BY NoReportType
  <2>2. \E kind : Finish(s, kind, NoReport)
    BY <1>4
    DEF Ends, GuardIsAmbiguous, GuardDenies, IntentConflicts, ReceiptIsMalformed,
        NothingToRead, Fail, FailInFlight
  <2>. QED BY <2>1, <2>2 DEF Finish, Say
<1>5. ASSUME NEW s \in Slots, LoadResults(s), NEW m \in reported', m \notin reported
      PROVE  /\ m.action \in Actions /\ m.participant \in Participants
             /\ m.line = results'[m.action][m.participant]
             /\ m.line.status = "completed"
  <2>. DEFINE a == req[s].action
              rep == ReportOf(identity[s], results[a])
  <2>1. a \in Actions /\ identity[s] \in Rows
    BY <1>5 DEF LoadResults, Core, TypeOK, Placed, Requests
  <2>2. PICK p \in DOMAIN rep :
          /\ rep[p].status = "completed"
          /\ m = [action |-> a, participant |-> p, line |-> rep[p]]
    BY <1>5 DEF LoadResults, Finish, Say
  <2>3. p \in Participants /\ DOMAIN rep = Range(identity[s].participants)
    BY <2>1, <2>2, RowType DEF ReportOf
  <2>4. rep[p] = results[a][p]
    BY <2>2, <2>3 DEF ReportOf, Pending
  <2>5. UNCHANGED results
    BY <1>5 DEF LoadResults, tables
  <2>. QED BY <2>1, <2>2, <2>3, <2>4, <2>5
<1>. QED BY <1>1, <1>2, <1>3, <1>4, <1>5, Steps DEF SlotSteps

LEMMA ToldStep ==
  ASSUME Core, AnswerIsALook, Told, [AnyStep]_vars
  PROVE  Told'
<1>1. \A m \in reported : m.action \in Actions /\ m.participant \in Participants
  BY DEF Core, TypeOK
<1>2. ASSUME NEW m \in reported
      PROVE  results'[m.action][m.participant] = m.line /\ m.line.status = "completed"
  BY <1>1, <1>2, CompletionStays DEF Told, ReportedCompletionIsFinal
<1>. QED BY <1>2, ReportsAreLooks DEF Told, ReportedCompletionIsFinal

(* A caller is never told a completion that is later withdrawn or given    *)
(* another receipt (lib.rs:872-933).                                       *)
THEOREM ReportedIsFinal == Spec => []ReportedCompletionIsFinal
<1>1. Init => Told
  BY DEF Init, Told, ReportedCompletionIsFinal
<1>2. Told => ReportedCompletionIsFinal
  BY DEF Told
<1>. QED BY <1>1, <1>2, LookHolds, ToldStep, StepsHold, PTL DEF Spec

-----------------------------------------------------------------------------
(* What an invocation remembers *)

(* Until the loop, what was complete when the invocation began still is;   *)
(* in the loop it is among the participants to skip.  Nobody is called     *)
(* before the loop.                                                        *)
Memory(s) ==
  /\ called[s] \cap doneBefore[s] = {}
  /\ pc[s] \in {"idle", "guard", "freeze", "identify", "snapshot"} => called[s] = {}
  /\ pc[s] \in {"guard", "freeze", "identify", "snapshot"} =>
       doneBefore[s] \subseteq completed_participants(req[s].action)
  /\ pc[s] \in {"loop", "apply", "store"} => doneBefore[s] \subseteq completed[s]
  /\ pc[s] = "load" /\ req[s].op = "read" => called[s] = {}

(* The guard answers held: one Allow from each guard asked so far.         *)
Consent(s) ==
  /\ \A g \in DOMAIN verdicts[s] : verdicts[s][g] = Allow
  /\ pc[s] = "idle" => verdicts[s] = << >>
  /\ pc[s] \in {"freeze", "identify", "snapshot", "loop", "apply", "store"} =>
       Len(verdicts[s]) = Len(comp[s].guards)

LEMMA OnlyAllowPasses ==
  ASSUME NEW v \in Verdicts, valid_guard_decision(v), v.allowed
  PROVE  v = Allow
BY DEF Verdicts, valid_guard_decision, Allow

(* A slot that only waits keeps what it remembers. *)
LEMMA WaitingRemembers ==
  ASSUME Core, [AnyStep]_vars, NEW t \in Slots, Memory(t), Consent(t),
         pc'[t] = pc[t], req'[t] = req[t], comp'[t] = comp[t], verdicts'[t] = verdicts[t],
         doneBefore'[t] = doneBefore[t], completed'[t] = completed[t], called'[t] = called[t]
  PROVE  Memory(t)' /\ Consent(t)'
<1>1. pc[t] # "idle" => req[t].action \in Actions
  BY DEF Core, Placed, Requests
<1>2. pc[t] # "idle" => completed_participants(req[t].action)
                          \subseteq completed_participants(req[t].action)'
  BY <1>1, CompletionStays DEF completed_participants
<1>3. Memory(t)'
  BY <1>2 DEF Memory
<1>. QED BY <1>3 DEF Consent

LEMMA StartRemembers ==
  ASSUME Core, NEW s \in Slots, NEW c \in Callers, NEW a \in Actions, NEW w \in BOOLEAN,
         Memory(s), Consent(s),
         Begins(s, c, a, w)
  PROVE  Memory(s)' /\ Consent(s)'
<1>1. /\ pc[s] = "idle" /\ UNCHANGED <<results, called, verdicts, completed>>
      /\ called[s] = {} /\ verdicts[s] = << >>
  BY StartPlaces DEF Core, tables, loop, Memory, Consent
<1>2. CASE UNCHANGED <<pc, request>>
  BY <1>1, <1>2 DEF Memory, Consent, request
<1>3. CASE /\ \E b \in Compositions : pc'[s] = AfterVerdicts(b, 0) /\ comp'[s] = b
           /\ req'[s].op = "execute" /\ req'[s].action = a
           /\ doneBefore'[s] = completed_participants(a)
  BY <1>1, <1>3 DEF Memory, Consent, AfterVerdicts, completed_participants
<1>4. CASE pc'[s] = "load" /\ req'[s].op = "read" /\ UNCHANGED <<comp, doneBefore>>
  BY <1>1, <1>4 DEF Memory, Consent
<1>. QED BY <1>2, <1>3, <1>4, StartPlaces DEF Core

LEMMA MoveRemembers ==
  ASSUME Core, [AnyStep]_vars, NEW s \in Slots, Memory(s), Consent(s), Moves(s)
  PROVE  Memory(s)' /\ Consent(s)'
<1>. USE DEF GoTo, Core, TypeOK, request, loop, tables, Memory, Consent
<1>1. req[s].action \in Actions /\ UNCHANGED <<req, comp, doneBefore>>
  BY DEF Moves, GuardAllows, FreezeAction, Identify, Snapshot, SkipParticipant,
         CallParticipant, ParticipantCompletes, ParticipantRejects, Await, StoreResult,
         EndLoop, LoadIdentity, MoreParticipants, Placed, Requests
<1>2. completed_participants(req[s].action) \subseteq completed_participants(req[s].action)'
  BY <1>1, CompletionStays DEF completed_participants
<1>3. ASSUME NEW v \in Verdicts, GuardAllows(s, v)
      PROVE  Memory(s)' /\ Consent(s)'
  <2>1. v = Allow
    BY <1>3, OnlyAllowPasses DEF GuardAllows
  <2>2. verdicts'[s] = Append(verdicts[s], v) /\ verdicts[s] \in Seq(Verdicts)
    BY <1>3 DEF GuardAllows
  <2>3. \A g \in DOMAIN verdicts'[s] : verdicts'[s][g] = Allow
    BY <2>1, <2>2
  <2>4. Len(verdicts'[s]) = Len(verdicts[s]) + 1
    BY <2>2
  <2>5. /\ pc[s] = "guard" /\ pc'[s] = AfterVerdicts(comp[s], Len(verdicts[s]) + 1)
        /\ UNCHANGED <<called, completed>>
    BY <1>3 DEF GuardAllows
  <2>6. Consent(s)'
    BY <1>1, <2>3, <2>4, <2>5 DEF AfterVerdicts
  <2>7. Memory(s)'
    BY <1>1, <1>2, <2>5 DEF AfterVerdicts
  <2>. QED BY <2>6, <2>7
<1>4. CASE FreezeAction(s)
  BY <1>1, <1>2, <1>4 DEF FreezeAction
<1>5. CASE Identify(s)
  BY <1>1, <1>2, <1>5 DEF Identify
<1>6. CASE Snapshot(s)
  BY <1>1, <1>2, <1>6 DEF Snapshot
<1>7. CASE SkipParticipant(s)
  BY <1>1, <1>7 DEF SkipParticipant, MoreParticipants
<1>8. CASE CallParticipant(s)
  BY <1>1, <1>8 DEF CallParticipant, MoreParticipants, MustCall
<1>9. ASSUME NEW new \in Results, Await(s, new)
      PROVE  Memory(s)' /\ Consent(s)'
  BY <1>1, <1>9 DEF Await
<1>10. CASE StoreResult(s)
  BY <1>1, <1>10 DEF StoreResult
<1>11. CASE EndLoop(s)
  BY <1>1, <1>11 DEF EndLoop, Placed
<1>12. CASE LoadIdentity(s)
  BY <1>1, <1>12 DEF LoadIdentity
<1>. QED
  BY <1>3, <1>4, <1>5, <1>6, <1>7, <1>8, <1>9, <1>10, <1>11, <1>12, NamesDiffer
  DEF Moves, ParticipantCompletes, ParticipantRejects

LEMMA EndRemembers ==
  ASSUME Core, NEW s \in Slots, Ends(s)
  PROVE  Memory(s)' /\ Consent(s)'
<1>1. pc'[s] = "idle" /\ called'[s] = {} /\ doneBefore'[s] = {} /\ verdicts'[s] = << >>
  BY EndsIdle DEF Core
<1>. QED BY <1>1 DEF Memory, Consent

Remembered == \A s \in Slots : Memory(s) /\ Consent(s)

LEMMA RememberedStep ==
  ASSUME Core, Remembered, [AnyStep]_vars
  PROVE  Remembered'
<1>1. CASE Environment \/ UNCHANGED vars
  <2>1. UNCHANGED <<pc, request, loop>>
    BY <1>1, EnvironmentWaits
  <2>. QED BY <2>1, WaitingRemembers DEF Remembered, request, loop
<1>2. ASSUME NEW s \in Slots, SlotSteps(s)
      PROVE  Remembered'
  <2>1. Memory(s)' /\ Consent(s)'
    BY <1>2, StartRemembers, MoveRemembers, EndRemembers DEF SlotSteps, Remembered
  <2>2. ASSUME NEW t \in Slots \ {s}
        PROVE  Memory(t)' /\ Consent(t)'
    BY <1>2, <2>2, OthersWait, WaitingRemembers DEF Core, SlotSteps, Remembered
  <2>. QED BY <2>1, <2>2 DEF Remembered
<1>. QED BY <1>1, <1>2, Steps DEF SlotSteps

LEMMA RememberedHolds == Spec => [](Core /\ Remembered)
<1>1. Init => Remembered
  BY DEF Init, Remembered, Memory, Consent
<1>. QED BY <1>1, CoreHolds, RememberedStep, StepsHold, PTL DEF Spec

(* A completion stored before an invocation began is not delivered again   *)
(* by it (lib.rs:559-564).                                                 *)
THEOREM NeverDeliveredAgain == Spec => []NoRepeatedDelivery
<1>1. Remembered => NoRepeatedDelivery
  BY DEF Remembered, Memory, NoRepeatedDelivery
<1>. QED BY <1>1, RememberedHolds, PTL

(* A participant is called only on the unambiguous allow of every guard    *)
(* bound when the invocation began (lib.rs:462-518).                       *)
THEOREM PreflightIsUnanimous == Spec => []UnanimousPreflight
<1>1. Remembered => UnanimousPreflight
  BY DEF Remembered, Consent, UnanimousPreflight
<1>. QED BY <1>1, RememberedHolds, PTL

(* A domain error is told only by an invocation that has called nobody, so *)
(* no participant retains data for a request that was refused              *)
(* (lib.rs:441-558).                                                       *)
THEOREM RefusedIsUncalled == Spec => RefusalsCallNobody
<1>. DEFINE Uncalled ==
       \A s \in Slots :
         pc[s] # "idle" /\ pc'[s] = "idle" /\ reply'.kind \in Refusals => called[s] = {}
<1>1. ASSUME TypeOK, Placed, Remembered, NEW s \in Slots, Ends(s), reply'.kind \in Refusals
      PROVE  called[s] = {}
  <2>1. CASE \/ \E v \in Verdicts : GuardDenies(s, v)
             \/ IntentConflicts(s)
    BY <1>1, <2>1 DEF GuardDenies, IntentConflicts, Remembered, Memory
  <2>2. CASE NothingToRead(s)
    <3>1. req[s].op # "read" => reply'.kind = "failed"
      BY <2>2 DEF NothingToRead, Finish, Say
    <3>2. pc[s] = "load" /\ req[s].op = "read"
      BY <1>1, <2>2, <3>1 DEF NothingToRead, Refusals
    <3>. QED BY <1>1, <3>2 DEF Remembered, Memory
  <2>3. CASE \/ \E v \in Verdicts : GuardIsAmbiguous(s, v)
             \/ ReceiptIsMalformed(s, BadReceipt) \/ LoadResults(s)
             \/ Fail(s) \/ FailInFlight(s)
    <3>1. reply'.kind \in {"failed", "ok"}
      BY <2>3
      DEF GuardIsAmbiguous, ReceiptIsMalformed, LoadResults, Fail, FailInFlight, Finish, Say
    <3>. QED BY <1>1, <3>1 DEF Refusals
  <2>. QED BY <1>1, <2>1, <2>2, <2>3 DEF Ends
<1>2. ASSUME Core, [AnyStep]_vars, NEW s \in Slots, pc[s] # "idle", pc'[s] = "idle"
      PROVE  Ends(s)
  <2>1. CASE Environment \/ UNCHANGED vars
    BY <1>2, <2>1, EnvironmentWaits
  <2>2. ASSUME NEW t \in Slots, t # s, SlotSteps(t)
        PROVE  FALSE
    BY <1>2, <2>2, OthersWait DEF Core, SlotSteps
  <2>3. CASE SlotSteps(s)
    <3>1. ~Moves(s)
      BY <1>2
      DEF Core, TypeOK, GoTo, Moves, GuardAllows, FreezeAction, Identify, Snapshot,
          SkipParticipant, CallParticipant, ParticipantCompletes, ParticipantRejects, Await,
          StoreResult, EndLoop, LoadIdentity, AfterVerdicts
    <3>. QED BY <1>2, <2>3, <3>1, StartPlaces DEF SlotSteps, Core
  <2>. QED BY <1>2, <2>1, <2>2, <2>3, Steps DEF SlotSteps
<1>3. ASSUME Core, Remembered, [AnyStep]_vars
      PROVE  [Uncalled]_vars
  BY <1>1, <1>2, <1>3 DEF Core
<1>. QED BY <1>3, RememberedHolds, StepsHold, PTL DEF Spec, RefusalsCallNobody

-----------------------------------------------------------------------------
(* The loop *)

(* Position i of the bound participants is done: frozen, it has a row. *)
Driven(s, i) ==
  LET a == req[s].action
      p == comp[s].participants[i] IN
  p \in Range(actions[a].participants) => results[a][p] # Absent

(* The loop drives every bound participant before its position to a row,   *)
(* and skips only what is completed and stays so.                          *)
Progress(s) ==
  /\ pc[s] \in {"idle", "guard", "freeze", "identify", "snapshot"} => next[s] = 1
  /\ pc[s] \in {"loop", "apply", "store"} =>
       /\ completed[s] \subseteq completed_participants(req[s].action)
       /\ \A i \in 1..Len(comp[s].participants) : i < next[s] => Driven(s, i)
  /\ Executing(s) /\ pc[s] \in {"load", "results"} =>
       \A i \in 1..Len(comp[s].participants) : Driven(s, i)

(* A row, once there, is not taken away. *)
LEMMA ResultsRemain ==
  ASSUME Core, [AnyStep]_vars, NEW a \in Actions, NEW p \in Participants, results[a][p] # Absent
  PROVE  results'[a][p] # Absent
<1>1. ASSUME NEW b \in Actions, NEW q \in Participants, NEW new \in Results,
             Genuine(b, q, new), StoreIn(b, q, new)
      PROVE  results'[a][p] # Absent
  <2>1. new # Absent
    BY <1>1 DEF Genuine, Absent, Rejected, CompletedWith
  <2>. QED BY <1>1, <2>1, StoreInKeeps DEF Core
<1>. QED BY <1>1, ResultSteps DEF Core

(* What was driven stays so, whoever steps. *)
LEMMA DrivenStays ==
  ASSUME Core, [AnyStep]_vars, NEW s \in Slots, Executing(s),
         pc[s] \in {"loop", "apply", "store", "load", "results"},
         req'[s] = req[s], comp'[s] = comp[s],
         NEW i \in 1..Len(comp[s].participants), Driven(s, i)
  PROVE  Driven(s, i)'
<1>1. req[s].action \in Actions /\ comp[s] \in Compositions
  BY DEF Core, Placed, Executing, Requests
<1>2. comp[s].participants[i] \in Participants
  BY <1>1, PlanType
<1>3. actions'[req[s].action] = actions[req[s].action]
  <2>1. actions[req[s].action] # NoRow
    BY DEF Core, FrozenIdentity
  <2>. QED BY <1>1, <2>1, RowsStay DEF Core
<1>. QED BY <1>1, <1>2, <1>3, ResultsRemain DEF Driven

LEMMA DoneStays ==
  ASSUME Core, [AnyStep]_vars, NEW a \in Actions
  PROVE  completed_participants(a) \subseteq completed_participants(a)'
BY CompletionStays DEF completed_participants

LEMMA WaitingProgresses ==
  ASSUME Core, [AnyStep]_vars, NEW t \in Slots, Progress(t),
         pc'[t] = pc[t], req'[t] = req[t], comp'[t] = comp[t],
         completed'[t] = completed[t], next'[t] = next[t]
  PROVE  Progress(t)'
<1>1. pc[t] \in {"loop", "apply", "store"} => Executing(t) /\ req[t].action \in Actions
  BY DEF Core, Placed, Executing, Requests
<1>2. pc[t] \in {"loop", "apply", "store"} =>
        completed[t] \subseteq completed_participants(req[t].action)'
  BY <1>1, DoneStays DEF Progress
<1>3. pc[t] \in {"loop", "apply", "store"} =>
        \A i \in 1..Len(comp[t].participants) : i < next[t] => Driven(t, i)'
  BY <1>1, DrivenStays DEF Progress
<1>4. Executing(t) /\ pc[t] \in {"load", "results"} =>
        \A i \in 1..Len(comp[t].participants) : Driven(t, i)'
  BY DrivenStays DEF Progress
<1>. QED BY <1>2, <1>3, <1>4 DEF Progress, Executing

LEMMA MoveProgresses ==
  ASSUME Core, [AnyStep]_vars, NEW s \in Slots, Progress(s), Moves(s)
  PROVE  Progress(s)'
<1>. DEFINE a == req[s].action
            size == Len(comp[s].participants)
<1>. USE DEF GoTo, Core, TypeOK, request
<1>1. /\ UNCHANGED <<req, comp>> /\ a \in Actions /\ next[s] \in Nat \ {0}
      /\ pc[s] \notin {"load"} => Executing(s) /\ comp[s] \in Compositions /\ size \in Nat
  <2>1. UNCHANGED <<req, comp>> /\ pc[s] # "idle"
    BY DEF Moves, GuardAllows, FreezeAction, Identify, Snapshot, SkipParticipant,
           CallParticipant, ParticipantCompletes, ParticipantRejects, Await, StoreResult,
           EndLoop, LoadIdentity, MoreParticipants
  <2>2. pc[s] # "results"
    BY DEF Moves, GuardAllows, FreezeAction, Identify, Snapshot, SkipParticipant,
           CallParticipant, ParticipantCompletes, ParticipantRejects, Await, StoreResult,
           EndLoop, LoadIdentity, MoreParticipants
  <2>3. a \in Actions /\ (pc[s] # "load" => Executing(s) /\ comp[s] \in Compositions)
    BY <2>1, <2>2 DEF Placed, Requests, Executing
  <2>. QED BY <2>1, <2>3, PlanType
<1>2. completed_participants(a) \subseteq completed_participants(a)'
  BY <1>1, DoneStays
<1>3. ASSUME NEW i \in 1..size, Driven(s, i), Executing(s),
             pc[s] \in {"loop", "apply", "store", "load"}
      PROVE  Driven(s, i)'
  BY <1>1, <1>3, DrivenStays
<1>4. CASE (\E v \in Verdicts : GuardAllows(s, v)) \/ FreezeAction(s) \/ Identify(s)
  <2>1. /\ pc[s] \in {"guard", "freeze", "identify"} /\ next'[s] = next[s]
        /\ pc'[s] \in {"guard", "freeze", "identify", "snapshot"}
    BY <1>4 DEF GuardAllows, FreezeAction, Identify, loop, AfterVerdicts
  <2>. QED BY <2>1 DEF Progress
<1>5. CASE Snapshot(s)
  <2>1. /\ next[s] = 1 /\ next'[s] = 1 /\ pc'[s] = "loop"
        /\ completed'[s] = completed_participants(a)
    BY <1>5 DEF Snapshot, Progress
  <2>. QED BY <1>1, <1>2, <2>1 DEF Progress, Executing
<1>6. CASE SkipParticipant(s)
  <2>1. /\ pc[s] = "loop" /\ pc'[s] = "loop" /\ next[s] \in 1..size
        /\ next'[s] = next[s] + 1 /\ completed'[s] = completed[s]
        /\ UNCHANGED <<actions, results>>
    BY <1>1, <1>6 DEF SkipParticipant, MoreParticipants, tables
  <2>2. Driven(s, next[s])
    <3>1. \/ Current(s) \notin Range(actions[a].participants)
          \/ Current(s) \in completed_participants(a)
      BY <1>6, <2>1
      DEF SkipParticipant, MustCall, MoreParticipants, FrozenIdentity, Progress
    <3>2. Current(s) \in completed_participants(a) => results[a][Current(s)] # Absent
      BY DEF completed_participants, Absent
    <3>. QED BY <3>1, <3>2 DEF Driven, Current
  <2>3. \A i \in 1..size : i < next[s] + 1 => Driven(s, i)
    <3>1. \A i \in 1..size : i < next[s] + 1 => i < next[s] \/ i = next[s]
      BY <1>1
    <3>. QED BY <2>1, <2>2, <3>1 DEF Progress
  <2>4. \A i \in 1..size : i < next'[s] => Driven(s, i)'
    BY <1>1, <1>3, <2>1, <2>3
  <2>. QED BY <1>1, <1>2, <2>1, <2>4 DEF Progress, Executing
<1>7. CASE CallParticipant(s) \/ \E new \in Results : Await(s, new)
  <2>1. /\ pc[s] \in {"loop", "apply"} /\ pc'[s] \in {"apply", "store"}
        /\ next'[s] = next[s] /\ completed'[s] = completed[s]
    BY <1>7 DEF CallParticipant, MoreParticipants, Await
  <2>2. \A i \in 1..size : i < next'[s] => Driven(s, i)'
    BY <1>1, <1>3, <2>1 DEF Progress
  <2>. QED BY <1>1, <1>2, <2>1, <2>2 DEF Progress, Executing
<1>8. CASE StoreResult(s)
  <2>1. /\ pc[s] = "store" /\ pc'[s] = "loop" /\ next[s] \in 1..size
        /\ next'[s] = next[s] + 1 /\ completed'[s] = completed[s]
        /\ outcome[s] # Absent /\ StoreIn(a, Current(s), outcome[s])
    BY <1>1, <1>8 DEF StoreResult, Placed
  <2>2. Current(s) \in Participants
    BY <1>1, <2>1, PlanType DEF Current
  <2>3. results'[a][Current(s)] # Absent
    BY <1>1, <2>1, <2>2 DEF StoreIn, UpsertResult, Absent
  <2>4. ASSUME NEW i \in 1..size, i = next[s]
        PROVE  Driven(s, i)'
    BY <1>1, <2>3, <2>4 DEF Driven, Current
  <2>5. \A i \in 1..size : i < next[s] + 1 => Driven(s, i)'
    <3>1. \A i \in 1..size : i < next[s] + 1 => i < next[s] \/ i = next[s]
      BY <1>1
    <3>. QED BY <1>1, <1>3, <2>1, <2>4, <3>1 DEF Progress
  <2>. QED BY <1>1, <1>2, <2>1, <2>5 DEF Progress, Executing
<1>9. CASE EndLoop(s)
  <2>1. pc[s] = "loop" /\ pc'[s] = "load" /\ next[s] > size
    BY <1>9 DEF EndLoop
  <2>2. \A i \in 1..size : i < next[s]
    BY <1>1, <2>1
  <2>3. \A i \in 1..size : Driven(s, i)'
    BY <1>1, <1>3, <2>1, <2>2 DEF Progress
  <2>. QED BY <1>1, <2>1, <2>3 DEF Progress
<1>10. CASE LoadIdentity(s)
  <2>1. pc[s] = "load" /\ pc'[s] = "results"
    BY <1>10 DEF LoadIdentity
  <2>2. Executing(s) => \A i \in 1..size : Driven(s, i)'
    BY <1>3, <2>1 DEF Progress
  <2>. QED BY <1>1, <2>1, <2>2 DEF Progress, Executing
<1>. QED
  BY <1>4, <1>5, <1>6, <1>7, <1>8, <1>9, <1>10, NamesDiffer
  DEF Moves, ParticipantCompletes, ParticipantRejects

LEMMA PendingIsNoRow == Pending \notin Results
<1>1. Absent.status # "pending" /\ Rejected.status # "pending"
  BY DEF Absent, Rejected
<1>2. \A r \in Receipts : CompletedWith(r).status # "pending"
  BY DEF CompletedWith
<1>3. Pending.status = "pending"
  BY DEF Pending
<1>. QED BY <1>1, <1>2, <1>3 DEF Results

Progressed == \A s \in Slots : Progress(s)

LEMMA ProgressedStep ==
  ASSUME Core, Progressed, [AnyStep]_vars
  PROVE  Progressed'
<1>1. CASE Environment \/ UNCHANGED vars
  <2>1. UNCHANGED <<pc, request, loop>>
    BY <1>1, EnvironmentWaits
  <2>. QED BY <2>1, WaitingProgresses DEF Progressed, request, loop
<1>2. ASSUME NEW s \in Slots, SlotSteps(s)
      PROVE  Progressed'
  <2>1. ASSUME Ends(s)
        PROVE  Progress(s)'
    <3>1. \E kind, rep : Finish(s, kind, rep)
      BY <2>1
      DEF Ends, GuardIsAmbiguous, GuardDenies, IntentConflicts, ReceiptIsMalformed,
          NothingToRead, LoadResults, Fail, FailInFlight
    <3>2. pc'[s] = "idle" /\ next'[s] = 1
      BY <3>1 DEF Finish, Core, TypeOK
    <3>. QED BY <3>2 DEF Progress, Executing
  <2>2. ASSUME \E c \in Callers, a \in Actions, w \in BOOLEAN :
                 Begins(s, c, a, w)
        PROVE  Progress(s)'
    <3>1. pc[s] = "idle" /\ UNCHANGED loop /\ next[s] = 1
      BY <2>2, StartPlaces DEF Core, Progressed, Progress
    <3>2. \/ pc'[s] \in {"idle", "guard", "freeze"}
          \/ pc'[s] = "load" /\ req'[s].op = "read"
      BY <2>2, <3>1, StartPlaces DEF Core, AfterVerdicts
    <3>. QED BY <3>1, <3>2 DEF Progress, Executing, loop
  <2>3. Progress(s)'
    BY <1>2, <2>1, <2>2, MoveProgresses DEF SlotSteps, Progressed
  <2>4. ASSUME NEW t \in Slots \ {s}
        PROVE  Progress(t)'
    BY <1>2, <2>4, OthersWait, WaitingProgresses DEF Core, SlotSteps, Progressed
  <2>. QED BY <2>3, <2>4 DEF Progressed
<1>. QED BY <1>1, <1>2, Steps DEF SlotSteps

(* An execution never answers that a participant it was composed with is   *)
(* pending: whatever was skipped, rejected or stored by others meanwhile,  *)
(* each frozen one it is bound to has a row (lib.rs:560-612).              *)
THEOREM PendingIsUnbound == Spec => PendingMeansUnbound
<1>1. Init => Progressed
  BY DEF Init, Progressed, Progress, Executing
<1>2. ASSUME Core, Progressed, NEW s \in Slots, LoadResults(s), Executing(s),
             NEW p \in Range(comp[s].participants) \cap DOMAIN reply'.report
      PROVE  reply'.report[p] # Pending
  <2>. DEFINE a == req[s].action
  <2>1. /\ pc[s] = "results" /\ a \in Actions /\ comp[s] \in Compositions
        /\ identity[s] = actions[a]
    BY <1>2 DEF LoadResults, Core, Placed, Requests, FrozenIdentity
  <2>2. reply'.report = ReportOf(actions[a], results[a])
    BY <1>2, <2>1 DEF LoadResults, Finish, Say
  <2>3. p \in Range(actions[a].participants)
    BY <1>2, <2>2 DEF ReportOf
  <2>4. PICK i \in 1..Len(comp[s].participants) : comp[s].participants[i] = p
    <3>1. comp[s].participants \in Seq(Participants)
      BY <2>1, PlanType
    <3>. QED BY <1>2, <3>1 DEF Range
  <2>5. results[a][p] # Absent
    BY <1>2, <2>1, <2>3, <2>4 DEF Progressed, Progress, Driven
  <2>6. p \in Participants
    BY <2>1, <2>4, PlanType DEF Range
  <2>7. results[a][p] \in Results
    BY <1>2, <2>1, <2>6 DEF Core, TypeOK
  <2>8. results[a][p] # Pending
    BY <2>7, PendingIsNoRow
  <2>. QED BY <2>2, <2>3, <2>5, <2>8 DEF ReportOf
<1>3. ASSUME Core, Progressed, [AnyStep]_vars
      PROVE  [\A s \in Slots :
                Executing(s) /\ reply'.kind = "ok" /\ pc'[s] = "idle" =>
                  \A p \in Range(comp[s].participants) \cap DOMAIN reply'.report :
                    reply'.report[p] # Pending]_vars
  <2>1. CASE UNCHANGED vars
    BY <2>1
  <2>2. ASSUME AnyStep, NEW s \in Slots, Executing(s), reply'.kind = "ok", pc'[s] = "idle",
               NEW p \in Range(comp[s].participants) \cap DOMAIN reply'.report
        PROVE  reply'.report[p] # Pending
    <3>1. PICK t \in Slots : LoadResults(t)
      BY <1>3, <2>2, OnlyLooksAreOk DEF Core
    <3>2. t = s
      BY <1>3, <2>2, <3>1, OthersWait DEF Core, Ends, Executing
    <3>. QED BY <1>2, <1>3, <2>2, <3>1, <3>2
  <2>. QED BY <1>3, <2>1, <2>2
<1>. QED BY <1>1, <1>3, CoreHolds, ProgressedStep, StepsHold, PTL DEF Spec, PendingMeansUnbound

-----------------------------------------------------------------------------
(* How far an invocation is from its end *)

(* Guards not asked yet; steps of the participants not reached yet. *)
Unasked(s) == Len(comp[s].guards) - Len(verdicts[s])
Ahead(s)   == 3 * (Len(comp[s].participants) + 1 - next[s])

StepsLeft(s) ==
  CASE pc[s] = "guard"    -> Ahead(s) + 6 + Unasked(s)
    [] pc[s] = "freeze"   -> Ahead(s) + 6
    [] pc[s] = "identify" -> Ahead(s) + 5
    [] pc[s] = "snapshot" -> Ahead(s) + 4
    [] pc[s] = "loop"     -> Ahead(s) + 3
    [] pc[s] = "apply"    -> Ahead(s) + 2
    [] pc[s] = "store"    -> Ahead(s) + 1
    [] pc[s] = "load"     -> 2
    [] pc[s] = "results"  -> 1
    [] pc[s] = "idle"     -> 0

Unfinished == {"guard", "freeze", "identify", "snapshot", "loop", "apply", "store"}

(* What an execution with the ports of Plan b may take. *)
Longest(b) == 6 + Len(b.guards) + 3 * Len(b.participants)

(* A counter never runs past the list it counts along.                     *)
InSight(s) ==
  /\ pc[s] = "idle" => next[s] = 1 /\ verdicts[s] = << >>
  /\ pc[s] \in Unfinished => Ahead(s) \in Nat
  /\ pc[s] \in {"guard"} => Unasked(s) \in Nat \ {0}

LEMMA CountersAre ==
  ASSUME TypeOK, Placed, NEW s \in Slots, pc[s] \in Unfinished
  PROVE  /\ Executing(s) /\ next[s] \in Nat \ {0} /\ Len(verdicts[s]) \in Nat
         /\ Len(comp[s].participants) \in Nat /\ Len(comp[s].guards) \in Nat
<1>1. Executing(s)
  BY DEF Placed, Executing, Unfinished
<1>2. comp[s] \in Compositions /\ next[s] \in Nat \ {0} /\ verdicts[s] \in Seq(Verdicts)
  BY <1>1 DEF TypeOK, Placed
<1>3. comp[s].participants \in Seq(Participants) /\ comp[s].guards \in Seq(Guards)
  BY <1>2, PlanType
<1>. QED BY <1>1, <1>2, <1>3

LEMMA StepsLeftType ==
  ASSUME TypeOK, NEW s \in Slots, InSight(s)
  PROVE  StepsLeft(s) \in Nat /\ (pc[s] # "idle" => StepsLeft(s) > 0)
<1>. HIDE DEF Ahead, Unasked
<1>1. pc[s] \in Unfinished \cup {"load", "results", "idle"}
  BY DEF TypeOK, Unfinished
<1>. QED BY <1>1 DEF StepsLeft, InSight, Unfinished

(* A step of its own brings an invocation nearer to its end, or is its end. *)
LEMMA MoveNears ==
  ASSUME TypeOK, Placed, NEW s \in Slots, InSight(s), Moves(s)
  PROVE  InSight(s)' /\ StepsLeft(s)' < StepsLeft(s)
<1>. USE DEF GoTo
<1>1. UNCHANGED comp
  BY DEF Moves, GuardAllows, FreezeAction, Identify, Snapshot, SkipParticipant,
         CallParticipant, ParticipantCompletes, ParticipantRejects, Await, StoreResult,
         EndLoop, LoadIdentity, request
<1>2. ASSUME NEW v \in Verdicts, GuardAllows(s, v)
      PROVE  InSight(s)' /\ StepsLeft(s)' < StepsLeft(s)
  <2>1. /\ pc[s] = "guard" /\ pc'[s] = AfterVerdicts(comp[s], Len(verdicts[s]) + 1)
        /\ verdicts'[s] = Append(verdicts[s], v) /\ next'[s] = next[s]
    BY <1>2 DEF GuardAllows, TypeOK
  <2>2. Len(verdicts'[s]) = Len(verdicts[s]) + 1
    BY <2>1 DEF TypeOK
  <2>3. Ahead(s)' = Ahead(s) /\ Unasked(s)' = Unasked(s) - 1
    BY <1>1, <2>1, <2>2, CountersAre DEF Ahead, Unasked, Unfinished
  <2>4. Unasked(s)' = 0 <=> Len(verdicts[s]) + 1 = Len(comp[s].guards)
    BY <1>1, <2>1, <2>2, CountersAre DEF Unasked, Unfinished
  <2>5. pc'[s] = IF Unasked(s)' = 0 THEN "freeze" ELSE "guard"
    BY <2>1, <2>4 DEF AfterVerdicts
  <2>. HIDE DEF Ahead, Unasked
  <2>. QED BY <2>1, <2>3, <2>5 DEF InSight, StepsLeft, Unfinished
<1>3. ASSUME UNCHANGED <<next[s], verdicts[s]>>, <<pc[s], pc'[s]>> \in
               {<<"freeze", "identify">>, <<"identify", "snapshot">>, <<"snapshot", "loop">>,
                <<"loop", "apply">>, <<"apply", "store">>, <<"loop", "load">>,
                <<"load", "results">>}
      PROVE  InSight(s)' /\ StepsLeft(s)' < StepsLeft(s)
  <2>1. Ahead(s)' = Ahead(s)
    BY <1>1, <1>3 DEF Ahead
  <2>. HIDE DEF Ahead, Unasked
  <2>. QED BY <1>3, <2>1 DEF InSight, StepsLeft, Unfinished
<1>4. ASSUME pc[s] \in {"loop", "store"}, pc'[s] = "loop", next'[s] = next[s] + 1,
             next[s] <= Len(comp[s].participants)
      PROVE  InSight(s)' /\ StepsLeft(s)' < StepsLeft(s)
  <2>. DEFINE n == Len(comp[s].participants)
              k == next[s]
  <2>1. Ahead(s)' = Ahead(s) - 3 /\ Ahead(s)' \in Nat
    <3>1. n \in Nat /\ k \in Nat /\ k <= n
      BY <1>4, CountersAre DEF Unfinished
    <3>2. Ahead(s) = 3 * (n + 1 - k) /\ Ahead(s)' = 3 * (n + 1 - (k + 1))
      BY <1>1, <1>4 DEF Ahead
    <3>. HIDE DEF n, k
    <3>. QED BY <3>1, <3>2
  <2>. HIDE DEF Ahead, Unasked
  <2>. QED BY <1>4, <2>1 DEF InSight, StepsLeft, Unfinished
<1>5. CASE \/ FreezeAction(s) \/ Identify(s) \/ Snapshot(s) \/ CallParticipant(s)
           \/ EndLoop(s) \/ LoadIdentity(s) \/ \E new \in Results : Await(s, new)
  BY <1>3, <1>5
  DEF FreezeAction, Identify, Snapshot, CallParticipant, MoreParticipants, EndLoop,
      LoadIdentity, Await, loop, TypeOK
<1>6. CASE SkipParticipant(s)
  BY <1>4, <1>6 DEF SkipParticipant, MoreParticipants, TypeOK
<1>7. CASE StoreResult(s)
  BY <1>4, <1>7 DEF StoreResult, TypeOK, Placed
<1>. QED BY <1>2, <1>5, <1>6, <1>7, NamesDiffer
         DEF Moves, ParticipantCompletes, ParticipantRejects

LEMMA EndNears ==
  ASSUME TypeOK, NEW s \in Slots, InSight(s), pc[s] # "idle", Ends(s)
  PROVE  InSight(s)' /\ StepsLeft(s)' < StepsLeft(s)
<1>1. \E kind, rep : Finish(s, kind, rep)
  BY DEF Ends, GuardIsAmbiguous, GuardDenies, IntentConflicts, ReceiptIsMalformed,
         NothingToRead, LoadResults, Fail, FailInFlight
<1>2. pc'[s] = "idle" /\ next'[s] = 1 /\ verdicts'[s] = << >>
  BY <1>1 DEF Finish, TypeOK
<1>3. StepsLeft(s)' = 0 /\ InSight(s)'
  BY <1>2 DEF StepsLeft, InSight, Unfinished
<1>. QED BY <1>3, StepsLeftType

LEMMA LongestType ==
  ASSUME NEW b \in Compositions
  PROVE  Len(b.guards) \in Nat /\ Len(b.participants) \in Nat /\ Longest(b) \in Nat \ 0..5
<1>. DEFINE g == Len(b.guards)
            p == Len(b.participants)
<1>1. g \in Nat /\ p \in Nat
  <2>1. b.guards \in Seq(Guards) /\ b.participants \in Seq(Participants)
    BY PlanType
  <2>. QED BY <2>1
<1>2. Longest(b) = 6 + g + 3 * p
  BY DEF Longest
<1>. HIDE DEF g, p
<1>3. Longest(b) \in Nat \ 0..5
  BY <1>1, <1>2
<1>. QED BY <1>1, <1>3 DEF g, p

LEMMA StartInSight ==
  ASSUME TypeOK, NEW s \in Slots, InSight(s),
         NEW b \in Compositions, NEW c \in Callers, NEW a \in Actions, NEW w \in BOOLEAN,
         BeginsWith(s, b, c, a, w)
  PROVE  InSight(s)' /\ StepsLeft(s)' <= Longest(b)
<1>1. pc[s] = "idle" /\ next'[s] = 1 /\ verdicts'[s] = << >>
  BY StartPlacesWith DEF InSight, loop
<1>2. Len(b.guards) \in Nat /\ Len(b.participants) \in Nat /\ Longest(b) \in Nat \ 0..5
  BY LongestType
<1>3. CASE UNCHANGED <<pc, request>> \/ pc'[s] = "load"
  <2>1. StepsLeft(s)' <= 2
    BY <1>1, <1>3 DEF StepsLeft
  <2>2. InSight(s)'
    BY <1>1, <1>3 DEF InSight, Unfinished
  <2>3. StepsLeft(s)' \in Int
    BY <1>1, <1>3 DEF StepsLeft
  <2>. QED BY <1>2, <2>1, <2>2, <2>3
<1>4. CASE pc'[s] = AfterVerdicts(b, 0) /\ comp'[s] = b
  <2>1. pc'[s] = IF Len(b.guards) = 0 THEN "freeze" ELSE "guard"
    BY <1>4 DEF AfterVerdicts
  <2>2. Ahead(s)' = 3 * Len(b.participants) /\ Unasked(s)' = Len(b.guards)
    BY <1>1, <1>2, <1>4 DEF Ahead, Unasked
  <2>3. StepsLeft(s)' = Longest(b)
    <3>. DEFINE g == Len(b.guards)
                n == Len(b.participants)
    <3>1. StepsLeft(s)' = IF g = 0 THEN 3 * n + 6 ELSE 3 * n + 6 + g
      BY <2>1, <2>2 DEF StepsLeft
    <3>2. g \in Nat /\ n \in Nat /\ Longest(b) = 6 + g + 3 * n
      BY <1>2 DEF Longest
    <3>. HIDE DEF g, n
    <3>. QED BY <3>1, <3>2
  <2>. HIDE DEF Ahead, Unasked
  <2>4. InSight(s)'
    BY <1>1, <1>2, <2>1, <2>2 DEF InSight, Unfinished
  <2>. QED BY <1>2, <2>3, <2>4
<1>. QED BY <1>3, <1>4, StartPlacesWith

AllInSight == \A s \in Slots : InSight(s)

LEMMA InSightStep ==
  ASSUME TypeOK, Placed, AllInSight, TypeOK', Placed', [AnyStep]_vars
  PROVE  AllInSight'
<1>1. ASSUME NEW t \in Slots, UNCHANGED <<pc[t], comp[t], verdicts[t], next[t]>>
      PROVE  InSight(t)'
  BY <1>1 DEF AllInSight, InSight, Ahead, Unasked
<1>2. CASE Environment \/ UNCHANGED vars
  <2>1. UNCHANGED <<pc, request, loop>>
    BY <1>2, EnvironmentWaits
  <2>. QED BY <1>1, <2>1 DEF AllInSight, request, loop
<1>3. ASSUME NEW s \in Slots, SlotSteps(s)
      PROVE  AllInSight'
  <2>1. InSight(s)'
    <3>1. CASE Ends(s)
      <4>1. pc[s] # "idle"
        BY <3>1 DEF Ends, GuardIsAmbiguous, GuardDenies, IntentConflicts, ReceiptIsMalformed,
                    NothingToRead, LoadResults, Fail, FailInFlight
      <4>. QED BY <3>1, <4>1, EndNears DEF AllInSight
    <3>. QED BY <1>3, <3>1, StartInSight, MoveNears DEF SlotSteps, Begins, AllInSight
  <2>2. \A t \in Slots \ {s} : InSight(t)'
    BY <1>1, <1>3, OthersWait DEF SlotSteps
  <2>. QED BY <2>1, <2>2 DEF AllInSight
<1>. QED BY <1>2, <1>3, Steps DEF SlotSteps

LEMMA InSightHolds == Spec => [](TypeOK /\ Placed /\ AllInSight)
<1>1. Init => AllInSight
  BY DEF Init, AllInSight, InSight, Unfinished
<1>. QED BY <1>1, PlacedInit, TypesAreInductive, InSightStep, StepsHold, PTL DEF Spec

(* Whatever the guards and participants answer and however invocations     *)
(* race, each step of an invocation brings it nearer to its end and no     *)
(* step of another, of the database or of another Plugin takes it back: it *)
(* makes at most 6 + guards + 3 * participants steps (lib.rs:462-616).     *)
(* This is what InvocationEnds rests on; that the steps are taken is       *)
(* fairness.                                                               *)
THEOREM EveryStepNearsTheEnd ==
  Spec => /\ [](\A s \in Slots : StepsLeft(s) \in Nat)
          /\ [][\A s \in Slots :
                  IF pc[s] = "idle" THEN StepsLeft(s)' <= Longest(bound)
                  ELSE \/ StepsLeft(s)' < StepsLeft(s)
                       \/ /\ ~(Advance(s) \/ Fail(s) \/ FailInFlight(s))
                          /\ StepsLeft(s)' = StepsLeft(s)]_vars
<1>. DEFINE Nears(s) ==
       IF pc[s] = "idle" THEN StepsLeft(s)' <= Longest(bound)
       ELSE \/ StepsLeft(s)' < StepsLeft(s)
            \/ /\ ~(Advance(s) \/ Fail(s) \/ FailInFlight(s))
               /\ StepsLeft(s)' = StepsLeft(s)
<1>1. TypeOK /\ AllInSight => \A s \in Slots : StepsLeft(s) \in Nat
  BY StepsLeftType DEF AllInSight
<1>2. ASSUME TypeOK, Placed, AllInSight, [Next]_vars, NEW s \in Slots
      PROVE  Nears(s)
  <2>1. Advance(s) \/ Fail(s) \/ FailInFlight(s) => Moves(s) \/ Ends(s)
    BY DEF Advance, Moves, Ends
  <2>2. Moves(s) \/ (Ends(s) /\ pc[s] # "idle") => StepsLeft(s)' < StepsLeft(s)
    BY <1>2, MoveNears, EndNears DEF AllInSight
  <2>3. ASSUME UNCHANGED <<pc[s], comp[s], verdicts[s], next[s]>>
        PROVE  StepsLeft(s)' = StepsLeft(s)
    BY <2>3 DEF StepsLeft, Ahead, Unasked
  <2>4. ASSUME Environment \/ UNCHANGED vars
        PROVE  UNCHANGED <<pc[s], comp[s], verdicts[s], next[s]>>
    BY <2>4, EnvironmentWaits DEF request, loop
  <2>5. ASSUME NEW t \in Slots,
               \/ \E c \in Callers, a \in Actions, w \in BOOLEAN : BeginsWith(t, bound, c, a, w)
               \/ Moves(t)
               \/ Ends(t)
        PROVE  \/ Moves(s) \/ Ends(s)
               \/ UNCHANGED <<pc[s], comp[s], verdicts[s], next[s]>>
               \/ pc[s] = "idle" /\ StepsLeft(s)' <= Longest(bound)
    <3>1. bound \in Compositions
      BY <1>2 DEF TypeOK
    <3>2. ASSUME t = s
          PROVE  Moves(s) \/ Ends(s) \/ (pc[s] = "idle" /\ StepsLeft(s)' <= Longest(bound))
      BY <1>2, <2>5, <3>1, <3>2, StartInSight, StartPlacesWith DEF AllInSight
    <3>3. ASSUME t # s
          PROVE  UNCHANGED <<pc[s], comp[s], verdicts[s], next[s]>>
      BY <1>2, <2>5, <3>1, <3>3, OthersWait DEF Begins
    <3>. QED BY <3>2, <3>3
  <2>6. CASE pc[s] = "idle"
    <3>1. ~(Moves(s) \/ Ends(s))
      BY <2>6
      DEF Moves, GuardAllows, FreezeAction, Identify, Snapshot, SkipParticipant,
          CallParticipant, ParticipantCompletes, ParticipantRejects, Await, StoreResult,
          EndLoop, LoadIdentity, MoreParticipants, Ends, GuardIsAmbiguous, GuardDenies,
          IntentConflicts, ReceiptIsMalformed, NothingToRead, LoadResults, Fail, FailInFlight
    <3>2. StepsLeft(s) = 0 /\ Longest(bound) \in Nat
      BY <1>2, <2>6, LongestType DEF StepsLeft, TypeOK
    <3>. QED BY <1>2, <2>3, <2>4, <2>5, <2>6, <3>1, <3>2, NextSteps
  <2>7. CASE pc[s] # "idle"
    <3>1. \/ Moves(s) \/ Ends(s)
          \/ UNCHANGED <<pc[s], comp[s], verdicts[s], next[s]>>
      BY <1>2, <2>4, <2>5, <2>7, NextSteps
    <3>. QED BY <2>1, <2>2, <2>3, <2>7, <3>1
  <2>. QED BY <2>6, <2>7
<1>3. TypeOK /\ Placed /\ AllInSight /\ [Next]_vars => \A s \in Slots : Nears(s)
  BY <1>2
<1>. QED BY <1>1, <1>3, InSightHolds, PTL DEF Spec

-----------------------------------------------------------------------------
(* The coordinator implements the ledger *)

LEMMA SameTables ==
  /\ Ledger!Rows = Rows /\ Ledger!Refusals = Refusals /\ Ledger!Requests = Requests
  /\ Ledger!Reports = Reports
  /\ \A q : Ledger!Range(q) = Range(q)
<1>1. Ledger!Lines = Lines
  BY DEF Ledger!Lines, Lines, Ledger!Pending, Pending, Ledger!Rejected, Rejected,
         Ledger!CompletedWith, CompletedWith
<1>2. Ledger!Reports = Reports
  BY <1>1 DEF Ledger!Reports, Reports
<1>3. Ledger!Rows = Rows /\ Ledger!Refusals = Refusals /\ Ledger!Requests = Requests
  BY DEF Ledger!Rows, Rows, Ledger!Refusals, Refusals, Ledger!Requests, Requests
<1>. QED BY <1>2, <1>3 DEF Ledger!Range, Range

LEMMA AnswerMaps ==
  ASSUME TypeOK', reply' # NoReply, UNCHANGED <<tables, issued>>,
         Ledger!Truthful(reply')
  PROVE  Ledger!Next
BY SameTables DEF TypeOK, Replies, tables, Ledger!Replies, Ledger!Answer, Ledger!Next

LEMMA QuietMaps ==
  ASSUME Quiet, UNCHANGED <<tables, issued>>
  PROVE  Ledger!Next
BY DEF Quiet, NoReply, tables, Ledger!Quiet, Ledger!NoReply, Ledger!Next

LEMMA RequestedIsFrozen ==
  ASSUME Core, NEW a, NEW p, Requested(a, p)
  PROVE  Ledger!FrozenFor(a, p)
BY SameTables DEF Core, Delivery, ApplyMatchesFrozenAction, Requested, Ledger!FrozenFor

LEMMA UpsertMaps ==
  ASSUME Core, Quiet, UNCHANGED <<actions, issued>>,
         NEW a \in Actions, NEW p \in Participants, NEW new \in Results,
         Requested(a, p), Genuine(a, p, new), StoreIn(a, p, new)
  PROVE  Ledger!Next
<1>1. CASE results[a][p].status = "completed"
  <2>1. results' = results
    BY <1>1 DEF Core, TypeOK, StoreIn, UpsertResult
  <2>. QED BY <2>1, QuietMaps DEF tables
<1>2. CASE results[a][p].status # "completed"
  <2>1. results[a][p] \in {Absent, Rejected}
    BY <1>2 DEF Core, TypeOK, Results, CompletedWith
  <2>2. results' = [results EXCEPT ![a][p] = new]
    BY <1>2 DEF StoreIn, UpsertResult, Core, TypeOK
  <2>3. new \in {Rejected} \cup {CompletedWith(r) : r \in issued[a][p]}
    BY DEF Genuine
  <2>4. Ledger!Record(a, p, new)
    BY <2>1, <2>2, <2>3, RequestedIsFrozen
    DEF Ledger!Record, Absent, Rejected, CompletedWith, Ledger!Absent, Ledger!Rejected,
        Ledger!CompletedWith
  <2>5. new \in Ledger!Results /\ Ledger!Quiet
    BY DEF Results, Absent, Rejected, CompletedWith, Ledger!Results, Ledger!Absent,
           Ledger!Rejected, Ledger!CompletedWith, Quiet, NoReply, Ledger!Quiet, Ledger!NoReply
  <2>. QED BY <2>4, <2>5 DEF Ledger!Next
<1>. QED BY <1>1, <1>2

LEMMA FreezeMaps ==
  ASSUME Core, Quiet, UNCHANGED <<results, issued>>, NEW a \in Actions, NEW row \in Rows,
         actions' = [actions EXCEPT ![a] = InsertAction(@, row)]
  PROVE  Ledger!Next
<1>1. CASE actions[a] = NoRow
  BY <1>1
  DEF InsertAction, Core, TypeOK, Rows, Quiet, NoReply, Ledger!Freeze, Ledger!Rows,
      Ledger!Quiet, Ledger!NoReply, Ledger!Next
<1>2. CASE actions[a] # NoRow
  <2>1. actions' = actions
    BY <1>2 DEF InsertAction, Core, TypeOK
  <2>. QED BY <2>1, QuietMaps DEF tables
<1>. QED BY <1>1, <1>2

LEMMA SameReport == \A row, stored : Ledger!ReportOf(row, stored) = ReportOf(row, stored)
BY SameTables
DEF ReportOf, Ledger!ReportOf, Absent, Ledger!Absent, Pending, Ledger!Pending

(* A refusal of the request itself. *)
LEMMA RefuseMaps ==
  ASSUME TypeOK', NEW r, NEW wellFormed \in BOOLEAN, Refuse(r, wellFormed),
         UNCHANGED <<tables, issued>>
  PROVE  Ledger!Next
<1>1. /\ reply'.to = r
      /\ \/ reply'.kind = "forbidden" /\ r.caller \notin RetentionCallers
         \/ reply'.kind = "invalid_request" /\ r.caller \in RetentionCallers
  BY DEF Refuse, Say
<1>2. reply' # NoReply
  BY <1>1 DEF NoReply
<1>3. Ledger!Truthful(reply')
  BY <1>1 DEF Ledger!Truthful
<1>. QED BY <1>2, <1>3, AnswerMaps

(* What an invocation is told at its end. *)
LEMMA EndMaps ==
  ASSUME Core, TypeOK', NEW s \in Slots, Ends(s)
  PROVE  Ledger!Next
<1>. DEFINE row == actions[req[s].action]
<1>1. pc[s] # "idle" /\ req[s].caller \in RetentionCallers
  <2>1. pc[s] # "idle"
    BY DEF Ends, GuardIsAmbiguous, GuardDenies, IntentConflicts, ReceiptIsMalformed,
           NothingToRead, LoadResults, Fail, FailInFlight
  <2>. QED BY <2>1 DEF Core, Placed
<1>2. UNCHANGED <<tables, issued>>
  BY DEF Ends, GuardIsAmbiguous, GuardDenies, IntentConflicts, ReceiptIsMalformed,
         NothingToRead, LoadResults, Fail, FailInFlight, world
<1>3. ASSUME NEW kind, NEW report, Finish(s, kind, report), kind # "none"
      PROVE  reply' # NoReply /\ reply'.kind = kind /\ reply'.to = req[s]
             /\ reply'.report = report
  <2>1. reply' = [kind |-> kind, to |-> req[s], report |-> report]
    BY <1>3 DEF Finish, Say
  <2>. QED BY <1>3, <2>1 DEF NoReply
<1>4. CASE IntentConflicts(s)
  <2>1. /\ reply' # NoReply /\ reply'.kind = "idempotency_conflict" /\ reply'.to = req[s]
        /\ row # NoRow /\ ~same_retention_intent(row, req[s]) /\ req[s].op = "execute"
    BY <1>3, <1>4 DEF IntentConflicts, Core, Placed
  <2>2. Ledger!Truthful(reply')
    BY <1>1, <2>1 DEF Ledger!Truthful, same_retention_intent
  <2>. QED BY <1>2, <2>1, <2>2, AnswerMaps
<1>5. CASE LoadResults(s)
  <2>1. /\ reply' # NoReply /\ reply'.kind = "ok" /\ reply'.to = req[s]
        /\ reply'.report = ReportOf(identity[s], results[req[s].action])
        /\ pc[s] = "results"
    BY <1>3, <1>5 DEF LoadResults
  <2>2. /\ row # NoRow /\ identity[s] = row /\ row.owner = req[s].caller
        /\ req[s].op = "execute" => row.intent = req[s].intent
    BY <2>1 DEF Core, FrozenIdentity, Executing, same_retention_intent
  <2>3. reply'.report = Ledger!ReportOf(row, results[req[s].action])
    BY <2>1, <2>2, SameReport
  <2>4. Ledger!Truthful(reply')
    BY <1>1, <2>1, <2>2, <2>3 DEF Ledger!Truthful
  <2>. QED BY <1>2, <2>1, <2>4, AnswerMaps
<1>6. CASE NothingToRead(s)
  <2>1. /\ reply' # NoReply /\ reply'.to = req[s]
        /\ reply'.kind = IF req[s].op = "read" THEN "not_found" ELSE "failed"
        /\ ~Visible(row, req[s].caller)
    BY <1>3, <1>6 DEF NothingToRead
  <2>2. Ledger!Truthful(reply')
    BY <1>1, <2>1 DEF Ledger!Truthful, Visible
  <2>. QED BY <1>2, <2>1, <2>2, AnswerMaps
<1>7. CASE \/ \E v \in Verdicts : GuardIsAmbiguous(s, v) \/ GuardDenies(s, v)
           \/ ReceiptIsMalformed(s, BadReceipt) \/ Fail(s) \/ FailInFlight(s)
  <2>1. /\ reply' # NoReply /\ reply'.to = req[s]
        /\ reply'.kind \in {"failed", "blocked_by_guard"}
    BY <1>3, <1>7 DEF GuardIsAmbiguous, GuardDenies, ReceiptIsMalformed, Fail, FailInFlight
  <2>2. Ledger!Truthful(reply')
    BY <1>1, <2>1 DEF Ledger!Truthful
  <2>. QED BY <1>2, <2>1, <2>2, AnswerMaps
<1>. QED BY <1>4, <1>5, <1>6, <1>7 DEF Ends

LEMMA MoveMaps ==
  ASSUME Core, NEW s \in Slots, Moves(s)
  PROVE  Ledger!Next
<1>. USE DEF GoTo
<1>1. CASE FreezeAction(s)
  <2>1. Executing(s) /\ req[s].action \in Actions
    BY <1>1 DEF FreezeAction, Core, Placed, Executing, Requests
  <2>2. NewRow(s) \in Rows
    BY <2>1, NewRowType DEF Core
  <2>. QED BY <1>1, <2>1, <2>2, FreezeMaps DEF FreezeAction, world
<1>2. CASE StoreResult(s)
  <2>1. /\ Executing(s) /\ req[s].action \in Actions /\ pc[s] = "store"
        /\ next[s] <= Len(comp[s].participants)
    BY <1>2 DEF StoreResult, Core, Placed, Executing, Requests
  <2>2. Current(s) \in Participants /\ outcome[s] \in Results
    BY <2>1, CurrentType DEF Core, TypeOK
  <2>3. Requested(req[s].action, Current(s)) /\ Genuine(req[s].action, Current(s), outcome[s])
    BY <2>1 DEF Core, Delivery, Requested
  <2>4. StoreIn(req[s].action, Current(s), outcome[s]) /\ Quiet /\ UNCHANGED <<actions, issued>>
    BY <1>2 DEF StoreResult, world
  <2>. QED BY <2>1, <2>2, <2>3, <2>4, UpsertMaps
<1>3. CASE ~FreezeAction(s) /\ ~StoreResult(s)
  <2>1. Quiet /\ UNCHANGED <<tables, issued>>
    BY <1>3
    DEF Moves, GuardAllows, Identify, Snapshot, SkipParticipant, CallParticipant,
        ParticipantCompletes, ParticipantRejects, Await, EndLoop, LoadIdentity, world
  <2>. QED BY <2>1, QuietMaps
<1>. QED BY <1>1, <1>2, <1>3

LEMMA EnvironmentMaps ==
  ASSUME Core, Environment
  PROVE  Ledger!Next
<1>1. ASSUME NEW w \in lateFreezes, LateFreeze(w)
      PROVE  Ledger!Next
  <2>1. w[1] \in Actions /\ w[2] \in Rows
    BY DEF Core, TypeOK
  <2>. QED BY <1>1, <2>1, FreezeMaps DEF LateFreeze, world
<1>2. ASSUME NEW w \in lateStores, LateStore(w)
      PROVE  Ledger!Next
  <2>1. w[1] \in Actions /\ w[2] \in Participants /\ w[3] \in Results
    BY DEF Core, TypeOK
  <2>2. Requested(w[1], w[2]) /\ Genuine(w[1], w[2], w[3])
    BY DEF Core, Delivery
  <2>. QED BY <1>2, <2>1, <2>2, UpsertMaps DEF LateStore, world
<1>3. ASSUME NEW a \in Actions, NEW p \in Participants, NEW r \in Receipts, Perform(a, p, r)
      PROVE  Ledger!Next
  <2>1. Requested(a, p)
    BY <1>3 DEF Perform, Requested
  <2>. QED
    BY <1>3, <2>1, RequestedIsFrozen
    DEF Perform, Quiet, NoReply, tables, Ledger!Perform, Ledger!Quiet, Ledger!NoReply,
        Ledger!Next
<1>4. ASSUME NEW c \in Compositions, Recompose(c)
      PROVE  Ledger!Next
  BY <1>4, QuietMaps DEF Recompose
<1>. QED BY <1>1, <1>2, <1>3, <1>4 DEF Environment

(* Every coordinator step is a step of the ledger or leaves it alone.      *)
LEMMA LedgerSteps ==
  ASSUME Core, [AnyStep]_vars
  PROVE  [Ledger!Next]_(Ledger!ledger)
<1>1. TypeOK'
  BY CoreStep DEF Core
<1>2. CASE UNCHANGED vars
  BY <1>2 DEF vars, tables, world, answers, Ledger!ledger
<1>3. ASSUME NEW s \in Slots, NEW c \in Callers, NEW a \in Actions, NEW w \in BOOLEAN,
             Begins(s, c, a, w)
      PROVE  Ledger!Next
  <2>1. UNCHANGED <<tables, issued>>
    BY <1>3, StartPlaces DEF Core, world
  <2>2. Quiet \/ \E r : Refuse(r, w)
    BY <1>3 DEF Begins, BeginsWith, StartExecute, StartRead, Admit, GoTo
  <2>. QED BY <1>1, <2>1, <2>2, QuietMaps, RefuseMaps
<1>. QED BY <1>1, <1>2, <1>3, MoveMaps, EndMaps, EnvironmentMaps, Steps DEF SlotSteps

(* Whatever invocations race, die or commit late, and however often the    *)
(* App is recomposed, callers and participants see one ledger in which     *)
(* actions are frozen once, entries only advance and answers are truthful  *)
(* (lib.rs:441-640, lib.rs:837-957).                                       *)
THEOREM LedgerIsImplemented == Spec => ImplementsLedger
<1>1. Init => Ledger!Init
  BY DEF Init, NoReply, Absent, Ledger!Init, Ledger!NoReply, Ledger!Absent
<1>. QED BY <1>1, LedgerSteps, CoreHolds, StepsHold, PTL DEF Spec, ImplementsLedger, Ledger!Spec
=============================================================================
