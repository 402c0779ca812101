--------------------------- MODULE RetentionService ---------------------------
(***************************************************************************)
(* execute_retention and read_retention inside the Plugin Instance: the    *)
(* invocations of RetentionCoordinator, each working on the clone of the   *)
(* Plugin it was called with and on the pool it took from that clone's     *)
(* cell, while PluginLifecycle activates, deactivates and restarts it.     *)
(*                                                                         *)
(* Every step is a step of the coordinator, of the lifecycle, or of both.  *)
(* Each incarnation may have another configuration and another Plan, also  *)
(* ones that are refused: `bound`, the coordinator's idea of the running   *)
(* Plan, is not used, an invocation has the ports of its clone.            *)
(***************************************************************************)
EXTENDS RetentionCoordinator

CONSTANTS
  Instances, ValidNames, Configs, BindingPlans, PortLimit, MaxIncarnations  \* of PluginLifecycle

VARIABLES
  config, plan, current, stage, ports, prepared, pool,  \* of PluginLifecycle
  at,         \* per slot: what the invocation does with its clone
  of,         \* per slot: the incarnation it was called in
  limits,     \* per slot: how many guards and participants its clone may have
  lateCalls   \* per slot: participants called after its pool began to close (history)

Plugin == INSTANCE PluginLifecycle WITH
  Plans <- BindingPlans,
  config <- config, plan <- plan, current <- current, stage <- stage, ports <- ports,
  prepared <- prepared, pool <- pool, at <- at, of <- of

plugin  == <<config, plan, current, stage, ports, prepared, pool>>
service == <<vars, plugin, at, of, limits, lateCalls>>

CompositionOf(p) == [guards |-> p["guard"], participants |-> p["participant"]]

LimitsOf(c) == [guards |-> c.max_guards, participants |-> c.max_participants]

(* What the handler checks of its ports before it asks a guard. *)
HandlerAccepts(l, p) ==
  /\ Len(p["participant"]) \in 1..l.participants
  /\ Len(p["guard"]) <= l.guards
  /\ Plugin!Keys(p["guard"])

(* Those of PluginLifecycle. *)
ASSUME PluginAssumption ==
  /\ ValidNames \subseteq Instances
  /\ PortLimit \in Nat \ {0}
  /\ MaxIncarnations \in Nat \ {0}
  /\ BindingPlans \subseteq Seq(Plugin!Bindings)

(* The coordinator's compositions are those the handler lets through. *)
ASSUME HandledAssumption ==
  \A c \in Configs, p \in BindingPlans :
    HandlerAccepts(LimitsOf(c), Plugin!PortsOf(p)) =>
      CompositionOf(Plugin!PortsOf(p)) \in Compositions

ServiceInit ==
  /\ Init /\ bound = CHOOSE c \in Compositions : TRUE
  /\ Plugin!Init
  /\ limits = [s \in Slots |-> LimitsOf(config)]
  /\ lateCalls = [s \in Slots |-> 0]

-----------------------------------------------------------------------------
(* Invocations *)

(* The endpoint is invoked on a clone of the Plugin; the future it returns *)
(* is not polled yet.                                                      *)
Invoke(s) ==
  /\ pc[s] = "idle"
  /\ Plugin!Begin(s)
  /\ limits' = [limits EXCEPT ![s] = LimitsOf(config)]
  /\ UNCHANGED <<vars, lateCalls>>

(* Its future is dropped, or the handler refuses the ports it finds when   *)
(* it is polled (InvalidResolvedPlan).                                     *)
ComesTooEarly(s) ==
  /\ pc[s] = "idle"
  /\ Plugin!Ends(s)
  /\ UNCHANGED <<vars, limits, lateCalls>>

TakesWhatIsThere(s) ==
  \/ pc'[s] = "idle" /\ Plugin!Ends(s)
  \/ pc'[s] # "idle" /\ Plugin!TakePrepared(s)
  \/ pc'[s] # "idle" /\ ~prepared[of[s]] /\ UNCHANGED <<plugin, at, of>>

(* Mutant: the handler relies on activation to have looked at the ports. *)
PollUnchecked(s) ==
  /\ at[s] = "running"
  /\ Start(s, CompositionOf(ports[of[s]]))
  /\ TakesWhatIsThere(s)
  /\ UNCHANGED <<limits, lateCalls>>

(* The first poll calls the handler.  It takes the ports of its clone and  *)
(* looks into the cell at once, and keeps the answer until the guards have *)
(* been asked.                                                             *)
Poll(s) ==
  /\ at[s] = "running"
  /\ Start(s, CompositionOf(ports[of[s]]))
  /\ Executing(s)' => HandlerAccepts(limits[s], ports[of[s]])
  /\ TakesWhatIsThere(s)
  /\ UNCHANGED <<limits, lateCalls>>

Statements == {"freeze", "identify", "snapshot", "store", "load", "results"}

(* A statement needs a connection of the pool the invocation holds. *)
Acquire(s) ==
  /\ pc[s] \in Statements
  /\ Plugin!Query(s)
  /\ UNCHANGED <<vars, limits, lateCalls>>

EndsWith(s) == pc'[s] = "idle" <=> at'[s] = "idle"

StatementAnswers(s) ==
  /\ at[s] = "statement"
  /\ \/ FreezeAction(s)
     \/ IntentConflicts(s) \/ Identify(s)
     \/ Snapshot(s)
     \/ StoreResult(s)
     \/ LoadIdentity(s) \/ NothingToRead(s)
     \/ LoadResults(s)
  /\ Plugin!Answered(s)
  /\ EndsWith(s)
  /\ lateCalls' = [lateCalls EXCEPT ![s] = IF pc'[s] = "idle" THEN 0 ELSE @]
  /\ UNCHANGED limits

(* Between two statements: guards and participants are asked, the loop     *)
(* goes on.  No pool is needed, not even an open one.                      *)
AfterClose(s) == pc'[s] = "apply" /\ pc[s] = "loop" /\ pool[of[s]] # "open"

Asks(s) ==
  /\ at[s] \in {"running", "holding"}
  /\ \/ \E v \in Verdicts : GuardIsAmbiguous(s, v) \/ GuardDenies(s, v) \/ GuardAllows(s, v)
     \/ SkipParticipant(s) \/ CallParticipant(s) \/ EndLoop(s)
     \/ \E r \in Receipts : ParticipantCompletes(s, r)
     \/ ParticipantRejects(s)
     \/ ReceiptIsMalformed(s, BadReceipt)
  /\ \/ pc'[s] = "idle" /\ Plugin!Ends(s)
     \/ pc'[s] # "idle" /\ UNCHANGED <<plugin, at, of>>
  /\ lateCalls' = [lateCalls EXCEPT ![s] = IF pc'[s] = "idle" THEN 0
                                           ELSE IF AfterClose(s) THEN @ + 1 ELSE @]
  /\ UNCHANGED limits

(* The invocation fails: the cell was empty when it looked, another Plugin *)
(* failed, or its future is dropped between two statements.                *)
Fails(s) ==
  /\ Fail(s)
  /\ Plugin!Ends(s)
  /\ lateCalls' = [lateCalls EXCEPT ![s] = 0]
  /\ UNCHANGED limits

(* Mutant: a result that cannot be stored is dropped, the loop goes on. *)
StoreErrorIsIgnored(s) ==
  /\ pc[s] \in Statements
  /\ at[s] = "holding" /\ pool[of[s]] # "open"
  /\ IF pc[s] = "store"
     THEN /\ next' = [next EXCEPT ![s] = @ + 1]
          /\ outcome' = [outcome EXCEPT ![s] = Absent]
          /\ GoTo(s, "loop")
          /\ UNCHANGED <<tables, late, world, request, verdicts, identity, completed, called>>
          /\ UNCHANGED <<plugin, at, of, lateCalls>>
     ELSE Fail(s) /\ Plugin!QueryFails(s) /\ lateCalls' = [lateCalls EXCEPT ![s] = 0]
  /\ UNCHANGED limits

PoolIsClosed(s) ==
  /\ pc[s] \in Statements
  /\ Fail(s)
  /\ Plugin!QueryFails(s)
  /\ lateCalls' = [lateCalls EXCEPT ![s] = 0]
  /\ UNCHANGED limits

StatementFails(s) ==
  /\ at[s] = "statement"
  /\ Fail(s) \/ FailInFlight(s)
  /\ Plugin!Answered(s)
  /\ EndsWith(s)
  /\ lateCalls' = [lateCalls EXCEPT ![s] = 0]
  /\ UNCHANGED limits

-----------------------------------------------------------------------------
(* The Plugin Instance and the other Plugins *)

(* Its invocations have died one by one (Fails, StatementFails). *)
ProcessDies == (\A s \in Slots : at[s] = "idle") /\ Plugin!Crash

Lives ==
  /\ \/ Plugin!ConfigIsRefused \/ Plugin!PortIsUnavailable \/ Plugin!ConnectPorts
     \/ Plugin!PlanIsRefused \/ Plugin!ActivateBegins \/ Plugin!SecretResolves
     \/ Plugin!PostgresIsPrepared \/ Plugin!ActivateFails
     \/ Plugin!Deactivate \/ Plugin!PoolCloses \/ ProcessDies
     \/ \E c \in Configs, p \in BindingPlans : Plugin!Resolve(c, p)
  /\ UNCHANGED <<vars, limits, lateCalls>>

Elsewhere ==
  /\ \/ \E w \in lateFreezes : LateFreeze(w)
     \/ \E w \in lateStores : LateStore(w)
     \/ \E a \in Actions, p \in Participants, r \in Receipts : Perform(a, p, r)
  /\ UNCHANGED <<plugin, at, of, limits, lateCalls>>

ServiceNext ==
  \/ Lives
  \/ Elsewhere
  \/ \E s \in Slots :
       \/ Invoke(s) \/ ComesTooEarly(s) \/ Poll(s)
       \/ Acquire(s) \/ StatementAnswers(s) \/ Asks(s)
       \/ Fails(s) \/ PoolIsClosed(s) \/ StatementFails(s)

ServiceSpec == ServiceInit /\ [][ServiceNext]_service

-----------------------------------------------------------------------------
(* Properties *)

(* An execution of nothing would be reported as completed (a frozen list    *)
(* without participants has none pending).  Two checks in two places keep   *)
(* it from happening, the handler's on its own ports (lib.rs:451-472) and   *)
(* activation's on all three, which the handler relies on through the cell  *)
(* (lib.rs:660-710): nobody is asked to allow an execution without          *)
(* participants, an action is frozen only with the participants of an       *)
(* incarnation whose Plan activation accepts as a whole, its sources        *)
(* included, and no report is empty, though clones of earlier incarnations  *)
(* go on after the App was resolved with other ports.                       *)
SoundPorts(p) ==
  /\ p["source"] # << >> /\ p["participant"] # << >>
  /\ \A capability \in DOMAIN p : Plugin!Keys(p[capability])

NoVacuousExecution ==
  /\ \A s \in Slots : pc[s] = "guard" => comp[s].participants # << >>
  /\ \A a \in Actions : actions[a] # NoRow =>
       \E n \in Plugin!Incarnations :
         SoundPorts(ports[n]) /\ actions[a].participants = ports[n]["participant"]
  /\ reply.kind = "ok" => DOMAIN reply.report # {}

(* Deactivation does not reach a handler that is waiting for another        *)
(* Plugin, so an invocation may still call a participant after its pool     *)
(* began to close (lib.rs:565), but only one: it cannot store the receipt   *)
(* and must not go on to a second, whose retention would be lost as well.   *)
OneCallAfterClose ==
  \A s \in Slots :
    lateCalls[s] <= 1 /\ (lateCalls[s] = 1 => pc[s] \in {"apply", "store"})

(* The tables change, and an answer that depends on them is given, only by  *)
(* a statement of the incarnation that is active or waits for its last      *)
(* statements: a handler that outlived its incarnation neither writes under *)
(* the next one nor reports for it.  (What a dropped statement does later,  *)
(* PostgreSQL decides.)                                                     *)
Served(s) == at[s] = "statement" /\ of[s] = current /\ stage \in {"active", "closing"}

DatabaseNeedsItsPool ==
  [][\/ \E s \in Slots : Served(s) /\ pc'[s] # pc[s]
     \/ late' # late
     \/ /\ UNCHANGED tables
        /\ reply' # reply => reply'.kind \notin {"ok", "not_found", "idempotency_conflict"}]_vars
=============================================================================
