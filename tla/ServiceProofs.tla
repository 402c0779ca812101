----------------------------- MODULE ServiceProofs -----------------------------
(* Theorems about RetentionService.  The coordinator's inductive invariant  *)
(* does not depend on which ports an invocation has, as long as its handler *)
(* accepted them, and the lifecycle's is about any invocations; both hold   *)
(* of the service, and what the two have to do with each other follows.     *)
EXTENDS RetentionService, RetentionProofs

Life == INSTANCE LifecycleProofs WITH
  Plans <- BindingPlans,
  config <- config, plan <- plan, current <- current, stage <- stage, ports <- ports,
  prepared <- prepared, pool <- pool, at <- at, of <- of

-----------------------------------------------------------------------------
(* What an incarnation may be connected to *)

(* Ports are empty or those of a Plan, so that what a handler accepts is    *)
(* one of the coordinator's compositions.                                   *)
Resolved ==
  /\ \A n \in Plugin!Incarnations :
       ports[n] = Plugin!NoPorts \/ \E p \in BindingPlans : ports[n] = Plugin!PortsOf(p)
  /\ limits = [s \in Slots |-> limits[s]]
  /\ \A s \in Slots : \E c \in Configs : limits[s] = LimitsOf(c)

LEMMA AcceptedIsAComposition ==
  ASSUME Resolved, NEW s \in Slots, of[s] \in Plugin!Incarnations,
         HandlerAccepts(limits[s], ports[of[s]])
  PROVE  CompositionOf(ports[of[s]]) \in Compositions
<1>1. ports[of[s]] # Plugin!NoPorts
  BY DEF HandlerAccepts, Plugin!NoPorts
<1>2. PICK p \in BindingPlans, c \in Configs :
        ports[of[s]] = Plugin!PortsOf(p) /\ limits[s] = LimitsOf(c)
  BY <1>1 DEF Resolved
<1>. QED BY <1>2, HandledAssumption

-----------------------------------------------------------------------------
(* The steps of the service as steps of the two *)

(* An execution that goes on has ports its handler accepted; one that is    *)
(* refused, and a read, might have had any.                                 *)
LEMMA PollStarts ==
  ASSUME TypeOK, Resolved, NEW s \in Slots, of[s] \in Plugin!Incarnations, Poll(s)
  PROVE  \E c \in Callers, a \in Actions, w \in BOOLEAN : Begins(s, c, a, w)
<1>. DEFINE mine == CompositionOf(ports[of[s]])
<1>1. bound \in Compositions
  BY DEF TypeOK
<1>2. PICK c \in Callers, a \in Actions, w \in BOOLEAN :
        (\E i \in Intents : StartExecute(s, mine, c, a, i, w)) \/ StartRead(s, c, a, w)
  BY DEF Poll, Start
<1>3. CASE StartRead(s, c, a, w)
  BY <1>1, <1>3 DEF Begins, BeginsWith
<1>4. ASSUME NEW i \in Intents, StartExecute(s, mine, c, a, i, w)
      PROVE  Begins(s, c, a, w)
  <2>. DEFINE r == [op |-> "execute", caller |-> c, action |-> a, intent |-> i]
  <2>1. CASE Refuse(r, w)
    <3>1. StartExecute(s, bound, c, a, i, w)
      BY <1>4, <2>1 DEF StartExecute
    <3>. QED BY <1>1, <3>1 DEF Begins, BeginsWith
  <2>2. CASE Admit(s, r, w, AfterVerdicts(mine, 0))
    <3>1. Executing(s)'
      BY <2>2 DEF Executing, Admit, GoTo, AfterVerdicts, TypeOK
    <3>2. mine \in Compositions
      BY <3>1, AcceptedIsAComposition DEF Poll
    <3>. QED BY <1>4, <3>2 DEF Begins, BeginsWith
  <2>. QED BY <1>4, <2>1, <2>2 DEF StartExecute
<1>. QED BY <1>2, <1>3, <1>4

LEMMA CoordinatorSteps ==
  ASSUME TypeOK, Resolved, \A s \in Slots : of[s] \in Plugin!Incarnations,
         [ServiceNext]_service
  PROVE  [AnyStep]_vars
<1>1. CASE Lives \/ UNCHANGED service
  BY <1>1 DEF Lives, service
<1>2. CASE Elsewhere
  BY <1>2 DEF Elsewhere, AnyStep, Environment
<1>3. ASSUME NEW s \in Slots, Invoke(s) \/ ComesTooEarly(s) \/ Acquire(s)
      PROVE  UNCHANGED vars
  BY <1>3 DEF Invoke, ComesTooEarly, Acquire
<1>4. ASSUME NEW s \in Slots, Poll(s)
      PROVE  SlotSteps(s)
  BY <1>4, PollStarts DEF SlotSteps
<1>5. ASSUME NEW s \in Slots, StatementAnswers(s) \/ Asks(s)
      PROVE  SlotSteps(s)
  BY <1>5 DEF StatementAnswers, Asks, SlotSteps, Moves, Ends
<1>6. ASSUME NEW s \in Slots, Fails(s) \/ PoolIsClosed(s) \/ StatementFails(s)
      PROVE  SlotSteps(s)
  BY <1>6 DEF Fails, PoolIsClosed, StatementFails, SlotSteps, Ends
<1>. QED BY <1>1, <1>2, <1>3, <1>4, <1>5, <1>6 DEF ServiceNext, AnyStep

LEMMA InvocationSteps ==
  ASSUME NEW s \in Slots,
         \/ Plugin!Begin(s) \/ Plugin!TakePrepared(s) \/ Plugin!Query(s) \/ Plugin!QueryFails(s)
         \/ Plugin!Answered(s) \/ Plugin!Ends(s)
  PROVE  Life!Next
BY DEF Plugin!Begin, Plugin!TakePrepared, Plugin!Query, Plugin!QueryFails, Plugin!Answered,
       Plugin!Ends, Plugin!instance,
       Life!Begin, Life!TakePrepared, Life!Query, Life!QueryFails, Life!Answered,
       Life!Ends, Life!instance, Life!Invocation, Life!Next

LEMMA SameChecks ==
  /\ \A c : Plugin!validate(c) <=> Life!validate(c)
  /\ \A c, p : Plugin!Accepts(c, p) <=> Life!Accepts(c, p)
  /\ \A p : Plugin!PortsOf(p) = Life!PortsOf(p)
  /\ Plugin!NoPorts = Life!NoPorts /\ Plugin!Incarnations = Life!Incarnations
<1>1. ASSUME NEW c
      PROVE  Plugin!validate(c) <=> Life!validate(c)
  <2>1. Plugin!ExportLimitsValid(c) <=> Life!ExportLimitsValid(c)
    <3>1. Plugin!LargestItem = Life!LargestItem
      BY SMT DEF Plugin!LargestItem, Life!LargestItem
    <3>2. Plugin!LargestTotal = Life!LargestTotal
      BY SMT DEF Plugin!LargestTotal, Life!LargestTotal
    <3>. QED BY <3>1, <3>2 DEF Plugin!ExportLimitsValid, Life!ExportLimitsValid
  <2>. QED BY <2>1
       DEF Plugin!validate, Life!validate, Plugin!PortLimitsValid, Life!PortLimitsValid,
           Plugin!Range, Life!Range
<1>2. ASSUME NEW c, NEW p
      PROVE  Plugin!Accepts(c, p) <=> Life!Accepts(c, p)
  BY DEF Plugin!Accepts, Life!Accepts, Plugin!Keys, Life!Keys, Plugin!Range, Life!Range,
         Plugin!IsInjective, Life!IsInjective
<1>3. ASSUME NEW p
      PROVE  Plugin!PortsOf(p) = Life!PortsOf(p)
  <2>1. ASSUME NEW c
        PROVE  Plugin!Many(p, c) = Life!Many(p, c)
    BY DEF Plugin!Many, Life!Many
  <2>. QED BY <2>1 DEF Plugin!PortsOf, Life!PortsOf
<1>. QED BY <1>1, <1>2, <1>3
     DEF Plugin!NoPorts, Life!NoPorts, Plugin!Incarnations, Life!Incarnations

LEMMA LivesSteps ==
  ASSUME Lives
  PROVE  Life!Next
<1>. USE DEF Plugin!instance, Life!instance, Plugin!invocations, Life!invocations
<1>1. CASE Plugin!ConnectPorts
  BY <1>1, SameChecks DEF Plugin!ConnectPorts, Life!ConnectPorts, Life!Next
<1>2. CASE Plugin!ActivateBegins
  BY <1>2, SameChecks DEF Plugin!ActivateBegins, Life!ActivateBegins, Life!Next
<1>3. CASE Plugin!SecretResolves \/ Plugin!PostgresIsPrepared \/ Plugin!ActivateFails
  BY <1>3
  DEF Plugin!SecretResolves, Life!SecretResolves, Plugin!PostgresIsPrepared,
      Life!PostgresIsPrepared, Plugin!ActivateFails, Life!ActivateFails, Life!Next
<1>4. CASE Plugin!Deactivate \/ Plugin!PoolCloses
  BY <1>4 DEF Plugin!Deactivate, Life!Deactivate, Plugin!PoolCloses, Life!PoolCloses, Life!Next
<1>5. CASE ProcessDies
  BY <1>5
  DEF ProcessDies, Plugin!Crash, Life!Crash, Plugin!Incarnations, Life!Incarnations, Life!Next
<1>6. ASSUME NEW c \in Configs, NEW p \in BindingPlans, Plugin!Resolve(c, p)
      PROVE  Life!Next
  BY <1>6
  DEF Plugin!Resolve, Life!Resolve, Plugin!Incarnations, Life!Incarnations, Life!Next
<1>7. CASE Plugin!ConfigIsRefused \/ Plugin!PortIsUnavailable \/ Plugin!PlanIsRefused
  BY <1>7, SameChecks
  DEF Plugin!ConfigIsRefused, Life!ConfigIsRefused, Plugin!PortIsUnavailable,
      Life!PortIsUnavailable, Plugin!PlanIsRefused, Life!PlanIsRefused, Life!Next
<1>. QED BY <1>1, <1>2, <1>3, <1>4, <1>5, <1>6, <1>7 DEF Lives

LEMMA LifecycleSteps ==
  ASSUME [ServiceNext]_service
  PROVE  [Life!Next]_(Life!vars)
<1>1. CASE UNCHANGED <<plugin, at, of>>
  BY <1>1 DEF plugin, Life!vars
<1>2. CASE Elsewhere \/ UNCHANGED service
  BY <1>1, <1>2 DEF Elsewhere, service
<1>3. CASE Lives
  BY <1>3, LivesSteps
<1>4. ASSUME NEW s \in Slots,
             \/ Invoke(s) \/ ComesTooEarly(s) \/ Poll(s)
             \/ Acquire(s) \/ StatementAnswers(s) \/ Asks(s)
             \/ Fails(s) \/ PoolIsClosed(s) \/ StatementFails(s)
      PROVE  Life!Next \/ UNCHANGED <<plugin, at, of>>
  BY <1>4, InvocationSteps
  DEF Invoke, ComesTooEarly, Poll, TakesWhatIsThere, Acquire, StatementAnswers, Asks, Fails,
      PoolIsClosed, StatementFails
<1>. QED BY <1>1, <1>2, <1>3, <1>4 DEF ServiceNext

-----------------------------------------------------------------------------
(* The two hold together *)

Both == Core /\ Life!Inv /\ Life!Unconnected /\ Resolved

LEMMA BothInit == ServiceInit => Both
<1>. SUFFICES ASSUME ServiceInit PROVE Both
  OBVIOUS
<1>1. Core
  BY CoreInit DEF ServiceInit
<1>2. Life!Init
  BY DEF ServiceInit, Plugin!Init, Life!Init, Plugin!NoPorts, Life!NoPorts,
         Plugin!Incarnations, Life!Incarnations
<1>3. Life!Inv
  BY <1>2, Life!InvInit, PluginAssumption DEF Plugin!Bindings, Life!Bindings
<1>4. Life!Unconnected
  BY <1>2 DEF Life!Init, Life!Unconnected
<1>5. Resolved
  BY DEF ServiceInit, Plugin!Init, Resolved
<1>. QED BY <1>1, <1>3, <1>4, <1>5 DEF Both

(* What the handlers do to the ports and the limits of their clones.       *)
LEMMA HandlersKeepPorts ==
  ASSUME NEW s \in Slots,
         \/ Invoke(s) \/ ComesTooEarly(s) \/ Poll(s)
         \/ Acquire(s) \/ StatementAnswers(s) \/ Asks(s)
         \/ Fails(s) \/ PoolIsClosed(s) \/ StatementFails(s)
  PROVE  /\ UNCHANGED ports
         /\ limits' = limits \/ limits' = [limits EXCEPT ![s] = LimitsOf(config)]
BY DEF plugin, Plugin!instance, Invoke, ComesTooEarly, Poll, TakesWhatIsThere, Acquire,
       StatementAnswers, Asks, Fails, PoolIsClosed, StatementFails, Plugin!Begin, Plugin!Ends,
       Plugin!TakePrepared, Plugin!Query, Plugin!QueryFails, Plugin!Answered

(* Ports come from the Plan at hand when they are connected. *)
LEMMA ResolvedStep ==
  ASSUME Life!TypeOK, Resolved, [ServiceNext]_service
  PROVE  Resolved'
<1>. USE DEF Resolved
<1>1. CASE UNCHANGED <<ports, limits>>
  BY <1>1, SameChecks DEF Plugin!Incarnations, Plugin!NoPorts, Plugin!PortsOf, Plugin!Many
<1>2. CASE Plugin!ConnectPorts /\ UNCHANGED limits
  <2>1. plan \in BindingPlans /\ ports' = [ports EXCEPT ![current] = Plugin!PortsOf(plan)]
    BY <1>2 DEF Life!TypeOK, Plugin!ConnectPorts
  <2>2. \A n \in Plugin!Incarnations :
          ports'[n] = ports[n] \/ ports'[n] = Plugin!PortsOf(plan)
    BY <2>1, SameChecks DEF Life!TypeOK
  <2>. QED BY <1>2, <2>1, <2>2
       DEF Plugin!Incarnations, Plugin!NoPorts, Plugin!PortsOf, Plugin!Many
<1>3. CASE Lives \/ Elsewhere \/ UNCHANGED service
  <2>1. UNCHANGED limits /\ (Plugin!ConnectPorts \/ UNCHANGED ports)
    BY <1>3
    DEF Lives, Elsewhere, service, plugin, Plugin!instance, Plugin!ConfigIsRefused,
        Plugin!PortIsUnavailable, Plugin!PlanIsRefused, Plugin!ActivateBegins,
        Plugin!SecretResolves, Plugin!PostgresIsPrepared, Plugin!ActivateFails,
        Plugin!Deactivate, Plugin!PoolCloses, ProcessDies, Plugin!Crash, Plugin!Resolve
  <2>. QED BY <1>1, <1>2, <2>1
<1>4. ASSUME NEW s \in Slots, UNCHANGED ports, limits' = [limits EXCEPT ![s] = LimitsOf(config)]
      PROVE  Resolved'
  <2>1. config \in Configs
    BY DEF Life!TypeOK
  <2>. QED BY <1>4, <2>1 DEF Plugin!Incarnations, Plugin!NoPorts, Plugin!PortsOf, Plugin!Many
<1>. QED BY <1>1, <1>3, <1>4, HandlersKeepPorts DEF ServiceNext

LEMMA BothStep ==
  ASSUME Both, [ServiceNext]_service
  PROVE  Both'
<1>1. \A s \in Slots : of[s] \in Plugin!Incarnations
  BY SameChecks DEF Both, Life!Inv, Life!TypeOK
<1>2. Core'
  BY <1>1, CoordinatorSteps, CoreStep DEF Both, Core
<1>3. Life!Inv'
  BY LifecycleSteps, Life!InvStep, PluginAssumption DEF Both, Plugin!Bindings, Life!Bindings
<1>4. Life!Unconnected'
  BY LifecycleSteps, Life!PortsConnectOnce, PluginAssumption
  DEF Both, Life!Inv, Plugin!Bindings, Life!Bindings
<1>5. Resolved'
  BY ResolvedStep DEF Both, Life!Inv
<1>. QED BY <1>2, <1>3, <1>4, <1>5 DEF Both

LEMMA BothHold == ServiceSpec => []Both
BY BothInit, BothStep, PTL DEF ServiceSpec

-----------------------------------------------------------------------------
(* What an invocation does with its clone *)

(* An execution has the ports of its incarnation; an invocation that       *)
(* called a participant after its pool began to close holds that pool and  *)
(* is not to use it.                                                       *)
Joined(s) ==
  /\ at[s] = "idle" => pc[s] = "idle"
  /\ at[s] = "running" => pc[s] \in {"idle", "guard", "freeze", "load"}
  /\ at[s] = "holding" => pc[s] # "idle"
  /\ at[s] = "statement" => pc[s] \in Statements
  /\ Executing(s) => comp[s] = CompositionOf(ports[of[s]])
  /\ lateCalls[s] # 0 =>
       /\ lateCalls[s] = 1
       /\ pc[s] \in {"apply", "store"}
       /\ at[s] = "holding"
       /\ pool[of[s]] \in {"closing", "closed"}

Histories == lateCalls = [s \in Slots |-> lateCalls[s]]

LEMMA NothingConnected == CompositionOf(Life!NoPorts) \notin Compositions
BY PlanAssumption DEF CompositionOf, Life!NoPorts

(* A slot that takes no step keeps its ports and its pool stays closed.    *)
LEMMA WaitingJoined ==
  ASSUME Both, [ServiceNext]_service, NEW t \in Slots, Joined(t),
         pc'[t] = pc[t], req'[t] = req[t], comp'[t] = comp[t], at'[t] = at[t], of'[t] = of[t],
         lateCalls'[t] = lateCalls[t]
  PROVE  Joined(t)'
<1>1. of[t] \in Life!Incarnations
  BY DEF Both, Life!Inv, Life!TypeOK
<1>2. pool[of[t]] \in {"closing", "closed"} => pool'[of[t]] \in {"closing", "closed"}
  BY <1>1, LifecycleSteps, Life!PoolsStayClosed, PluginAssumption
  DEF Both, Plugin!Bindings, Life!Bindings
<1>3. ports[of[t]] # Life!NoPorts => ports'[of[t]] = ports[of[t]]
  BY <1>1, LifecycleSteps, Life!PortsConnectOnce, PluginAssumption
  DEF Both, Life!Inv, Plugin!Bindings, Life!Bindings
<1>4. Executing(t) => comp[t] \in Compositions
  BY DEF Both, Core, Placed
<1>5. Executing(t) => ports'[of[t]] = ports[of[t]]
  BY <1>3, <1>4, NothingConnected DEF Joined
<1>. QED BY <1>2, <1>5 DEF Joined, CompositionOf, Executing

(* Where a move of the coordinator leads. *)
LEMMA MovesLead ==
  ASSUME Core, NEW s \in Slots, Moves(s)
  PROVE  /\ comp' = comp /\ req' = req /\ pc[s] # "idle" /\ pc'[s] # "idle"
         /\ pc[s] = "guard" => pc'[s] \in {"guard", "freeze"}
         /\ pc[s] = "freeze" => pc'[s] = "identify"
         /\ pc[s] = "loop" => pc'[s] \in {"loop", "apply", "load"}
         /\ pc[s] = "apply" => pc'[s] = "store"
         /\ pc'[s] = "apply" => pc[s] = "loop"
BY DEF Core, TypeOK, GoTo, Moves, GuardAllows, FreezeAction, Identify, Snapshot,
       SkipParticipant, CallParticipant, ParticipantCompletes, ParticipantRejects, Await,
       StoreResult, EndLoop, LoadIdentity, MoreParticipants, AfterVerdicts, request

LEMMA EndsLead ==
  ASSUME Core, NEW s \in Slots, Ends(s)
  PROVE  pc'[s] = "idle"
<1>1. \E kind, rep : Finish(s, kind, rep)
  BY DEF Ends, GuardIsAmbiguous, GuardDenies, IntentConflicts, ReceiptIsMalformed,
         NothingToRead, LoadResults, Fail, FailInFlight
<1>. QED BY <1>1 DEF Finish, Core, TypeOK

LEMMA PollPlaces ==
  ASSUME TypeOK, NEW s \in Slots, Poll(s)
  PROVE  /\ pc[s] = "idle" /\ pc'[s] \in {"idle", "guard", "freeze", "load"}
         /\ Executing(s)' => comp'[s] = CompositionOf(ports[of[s]])
<1>. USE DEF TypeOK, Refuse, Admit, GoTo, Executing, request
<1>. DEFINE mine == CompositionOf(ports[of[s]])
<1>1. PICK c \in Callers, a \in Actions, w \in BOOLEAN :
        (\E i \in Intents : StartExecute(s, mine, c, a, i, w)) \/ StartRead(s, c, a, w)
  BY DEF Poll, Start
<1>2. ASSUME NEW i \in Intents, StartExecute(s, mine, c, a, i, w)
      PROVE  /\ pc[s] = "idle" /\ pc'[s] \in {"idle", "guard", "freeze", "load"}
             /\ Executing(s)' => comp'[s] = mine
  <2>1. AfterVerdicts(mine, 0) \in {"guard", "freeze"}
    BY DEF AfterVerdicts
  <2>. HIDE DEF mine
  <2>. QED BY <1>2, <2>1 DEF StartExecute
<1>3. ASSUME StartRead(s, c, a, w)
      PROVE  /\ pc[s] = "idle" /\ pc'[s] \in {"idle", "guard", "freeze", "load"}
             /\ ~Executing(s)'
  BY <1>3 DEF StartRead
<1>. QED BY <1>1, <1>2, <1>3

LEMMA InvocationsJoin ==
  ASSUME Both, Histories, [ServiceNext]_service, NEW s \in Slots, Joined(s),
         \/ Invoke(s) \/ ComesTooEarly(s) \/ Poll(s)
         \/ Acquire(s) \/ StatementAnswers(s) \/ Asks(s)
         \/ Fails(s) \/ PoolIsClosed(s) \/ StatementFails(s)
  PROVE  Joined(s)'
<1>. USE DEF Histories, plugin, Executing
<1>0. /\ at = [t \in Slots |-> at[t]] /\ of = [t \in Slots |-> of[t]]
      /\ UNCHANGED <<ports, pool>> => \A n : ports'[n] = ports[n] /\ pool'[n] = pool[n]
  BY DEF Both, Life!Inv, Life!TypeOK
<1>1. CASE Invoke(s)
  BY <1>0, <1>1 DEF Invoke, Plugin!Begin, Plugin!instance, Joined, vars, request
<1>2. CASE ComesTooEarly(s)
  BY <1>0, <1>2 DEF ComesTooEarly, Plugin!Ends, Plugin!instance, Joined, vars, request
<1>3. CASE Acquire(s)
  BY <1>0, <1>3 DEF Acquire, Plugin!Query, Plugin!instance, Joined, vars, request
<1>4. CASE Poll(s)
  <2>1. /\ pc[s] = "idle" /\ lateCalls[s] = 0
        /\ pc'[s] \in {"idle", "guard", "freeze", "load"}
    BY <1>4, PollPlaces DEF Both, Core, Joined
  <2>2. /\ at[s] = "running" /\ of'[s] = of[s] /\ ports' = ports /\ lateCalls' = lateCalls
        /\ IF pc'[s] = "idle" THEN at'[s] = "idle" ELSE at'[s] \in {"running", "holding"}
    BY <1>0, <1>4
    DEF Poll, TakesWhatIsThere, Plugin!Ends, Plugin!TakePrepared, Plugin!instance
  <2>. QED BY <1>4, <2>1, <2>2, PollPlaces DEF Joined, CompositionOf, Both, Core
<1>5. CASE StatementAnswers(s)
  <2>1. /\ at[s] = "statement" /\ at'[s] \in {"holding", "idle"} /\ lateCalls[s] = 0
        /\ of' = of /\ ports' = ports /\ lateCalls'[s] = 0
        /\ pc'[s] = "idle" <=> at'[s] = "idle"
    BY <1>0, <1>5
    DEF StatementAnswers, Plugin!Answered, Plugin!instance, EndsWith, Joined
  <2>2. Moves(s) \/ Ends(s)
    BY <1>5 DEF StatementAnswers, Moves, Ends
  <2>. QED BY <2>1, <2>2, MovesLead, EndsLead DEF Joined, CompositionOf, Both
<1>6. CASE Asks(s)
  <2>1. Moves(s) \/ Ends(s)
    BY <1>6 DEF Asks, Moves, Ends
  <2>2. /\ at[s] \in {"running", "holding"}
        /\ of' = of /\ ports' = ports /\ pool' = pool
        /\ IF pc'[s] = "idle" THEN at'[s] = "idle" ELSE at'[s] = at[s]
        /\ lateCalls'[s] = IF pc'[s] = "idle" THEN 0
                           ELSE IF AfterClose(s) THEN lateCalls[s] + 1 ELSE lateCalls[s]
    BY <1>0, <1>6 DEF Asks, Plugin!Ends, Plugin!instance
  <2>3. pc[s] \in {"guard", "loop", "apply"}
    BY <1>6
    DEF Asks, GuardIsAmbiguous, GuardDenies, GuardAllows, SkipParticipant, CallParticipant,
        EndLoop, ParticipantCompletes, ParticipantRejects, ReceiptIsMalformed, Await,
        MoreParticipants
  <2>4. CASE Ends(s)
    BY <2>2, <2>4, EndsLead DEF Joined, Both
  <2>5. CASE Moves(s)
    <3>1. at[s] = "holding" => pool[of[s]] \in {"open", "closing", "closed"}
      BY DEF Both, Life!Inv, Life!TypeOK, Life!Connections
    <3>2. AfterClose(s) => /\ lateCalls[s] = 0 /\ at[s] = "holding" /\ pc'[s] = "apply"
                           /\ pool[of[s]] \in {"closing", "closed"}
      BY <2>2, <3>1 DEF AfterClose, Joined
    <3>. QED BY <2>2, <2>3, <2>5, <3>2, MovesLead DEF Joined, CompositionOf, Both
  <2>. QED BY <2>1, <2>4, <2>5
<1>7. CASE Fails(s) \/ PoolIsClosed(s) \/ StatementFails(s)
  <2>1. Ends(s)
    BY <1>7 DEF Fails, PoolIsClosed, StatementFails, Ends
  <2>2. pc'[s] = "idle"
    BY <2>1, EndsLead DEF Both
  <2>3. at'[s] = "idle" /\ lateCalls'[s] = 0
    BY <1>0, <1>7, <2>2
    DEF Fails, PoolIsClosed, StatementFails, EndsWith, Plugin!Ends, Plugin!QueryFails
  <2>. QED BY <2>2, <2>3 DEF Joined
<1>. QED BY <1>1, <1>2, <1>3, <1>4, <1>5, <1>6, <1>7

(* What a step of the service leaves alone in the other slots. *)
LEMMA OthersStay ==
  ASSUME Both, Histories, NEW s \in Slots, NEW t \in Slots, t # s,
         \/ Invoke(s) \/ ComesTooEarly(s) \/ Poll(s)
         \/ Acquire(s) \/ StatementAnswers(s) \/ Asks(s)
         \/ Fails(s) \/ PoolIsClosed(s) \/ StatementFails(s)
  PROVE  /\ pc'[t] = pc[t] /\ req'[t] = req[t] /\ comp'[t] = comp[t]
         /\ at'[t] = at[t] /\ of'[t] = of[t] /\ lateCalls'[t] = lateCalls[t]
<1>1. pc'[t] = pc[t] /\ req'[t] = req[t] /\ comp'[t] = comp[t]
  <2>1. CASE Invoke(s) \/ ComesTooEarly(s) \/ Acquire(s)
    BY <2>1 DEF Invoke, ComesTooEarly, Acquire, vars, request
  <2>2. CASE Poll(s)
    <3>1. \E c \in Callers, a \in Actions, w \in BOOLEAN : Begins(s, c, a, w)
      BY <2>2, PollStarts, SameChecks DEF Both, Core, Life!Inv, Life!TypeOK
    <3>. QED BY <3>1, OthersWait DEF Both, Core
  <2>3. CASE StatementAnswers(s) \/ Asks(s) \/ Fails(s) \/ PoolIsClosed(s) \/ StatementFails(s)
    <3>1. Moves(s) \/ Ends(s)
      BY <2>3 DEF StatementAnswers, Asks, Fails, PoolIsClosed, StatementFails, Moves, Ends
    <3>. QED BY <3>1, OthersWait DEF Both, Core
  <2>. QED BY <2>1, <2>2, <2>3
<1>2. at'[t] = at[t] /\ of'[t] = of[t]
  BY DEF Both, Life!Inv, Life!TypeOK, plugin, Invoke, ComesTooEarly, Poll, TakesWhatIsThere,
         Acquire, StatementAnswers, Asks, Fails, PoolIsClosed, StatementFails, Plugin!Begin,
         Plugin!Ends, Plugin!TakePrepared, Plugin!Query, Plugin!QueryFails, Plugin!Answered
<1>3. lateCalls'[t] = lateCalls[t]
  BY DEF Histories, Invoke, ComesTooEarly, Poll, Acquire, StatementAnswers, Asks, Fails,
         PoolIsClosed, StatementFails
<1>. QED BY <1>1, <1>2, <1>3

ServiceInv == Both /\ Histories /\ \A s \in Slots : Joined(s)

LEMMA ServiceInvInit == ServiceInit => ServiceInv
<1>. SUFFICES ASSUME ServiceInit PROVE ServiceInv
  OBVIOUS
<1>1. Histories /\ \A s \in Slots : Joined(s)
  BY DEF ServiceInit, Init, Plugin!Init, Histories, Joined, Executing
<1>. QED BY <1>1, BothInit DEF ServiceInv

LEMMA ServiceInvStep ==
  ASSUME ServiceInv, [ServiceNext]_service
  PROVE  ServiceInv'
<1>1. Both'
  BY BothStep DEF ServiceInv
<1>2. Histories'
  BY DEF ServiceInv, Histories, ServiceNext, service, Lives, Elsewhere, Invoke, ComesTooEarly,
         Poll, Acquire, StatementAnswers, Asks, Fails, PoolIsClosed, StatementFails
<1>3. ASSUME NEW s \in Slots,
             \/ Invoke(s) \/ ComesTooEarly(s) \/ Poll(s)
             \/ Acquire(s) \/ StatementAnswers(s) \/ Asks(s)
             \/ Fails(s) \/ PoolIsClosed(s) \/ StatementFails(s),
             NEW t \in Slots
      PROVE  Joined(t)'
  <2>1. CASE t = s
    BY <1>3, <2>1, InvocationsJoin DEF ServiceInv
  <2>2. CASE t # s
    BY <1>3, <2>2, OthersStay, WaitingJoined DEF ServiceInv
  <2>. QED BY <2>1, <2>2
<1>4. ASSUME Lives \/ Elsewhere \/ UNCHANGED service, NEW t \in Slots
      PROVE  Joined(t)'
  <2>1. /\ pc'[t] = pc[t] /\ req'[t] = req[t] /\ comp'[t] = comp[t]
        /\ lateCalls'[t] = lateCalls[t]
    <3>1. CASE Elsewhere
      BY <1>4, <3>1, EnvironmentWaits DEF Elsewhere, Environment, request
    <3>2. CASE Lives \/ UNCHANGED service
      BY <1>4, <3>2 DEF Lives, service, vars, request
    <3>. QED BY <1>4, <3>1, <3>2
  <2>2. at'[t] = at[t] /\ of'[t] = of[t]
    <3>1. CASE UNCHANGED <<at, of>>
      BY <3>1
    <3>2. CASE ProcessDies
      BY <3>2 DEF ProcessDies, Plugin!Crash
    <3>. QED
      BY <1>4, <3>1, <3>2
      DEF Lives, Elsewhere, service, Plugin!invocations, Plugin!ConnectPorts,
          Plugin!ActivateBegins, Plugin!SecretResolves, Plugin!PostgresIsPrepared,
          Plugin!ActivateFails, Plugin!Deactivate, Plugin!PoolCloses, Plugin!Resolve,
          Plugin!ConfigIsRefused, Plugin!PortIsUnavailable, Plugin!PlanIsRefused
  <2>. QED BY <2>1, <2>2, WaitingJoined DEF ServiceInv
<1>. QED BY <1>1, <1>2, <1>3, <1>4 DEF ServiceInv, ServiceNext

LEMMA ServiceInvHolds == ServiceSpec => []ServiceInv
BY ServiceInvInit, ServiceInvStep, PTL DEF ServiceSpec

-----------------------------------------------------------------------------

(* A handler that outlives its pool calls at most one more participant     *)
(* (lib.rs:565), however the deactivation and its loop interleave: once    *)
(* the pool began to close no statement of it is served, and the loop      *)
(* cannot go on without one.                                               *)
THEOREM AtMostOneLateCall == ServiceSpec => []OneCallAfterClose
<1>1. ServiceInv => OneCallAfterClose
  BY DEF ServiceInv, Joined, OneCallAfterClose
<1>. QED BY <1>1, ServiceInvHolds, PTL

-----------------------------------------------------------------------------
(* What was frozen comes from an incarnation that could be activated *)

Frozen(row, port) ==
  \E n \in Plugin!Incarnations :
    SoundPorts(port[n]) /\ row.participants = port[n]["participant"]

(* The rows, those on their way to the server, and what is being told. *)
NothingIsVacuous ==
  /\ \A a \in Actions : actions[a] # NoRow => Frozen(actions[a], ports)
  /\ \A w \in lateFreezes : Frozen(w[2], ports)
  /\ reply.kind = "ok" => DOMAIN reply.report # {}

(* Ports that are sound stay where they are. *)
LEMMA FrozenStays ==
  ASSUME Both, [ServiceNext]_service, NEW row, Frozen(row, ports)
  PROVE  Frozen(row, ports')
<1>1. PICK n \in Plugin!Incarnations :
        SoundPorts(ports[n]) /\ row.participants = ports[n]["participant"]
  BY DEF Frozen
<1>2. ports[n] # Life!NoPorts
  BY <1>1 DEF SoundPorts, Life!NoPorts
<1>3. ports'[n] = ports[n]
  BY <1>1, <1>2, SameChecks, LifecycleSteps, Life!PortsConnectOnce, PluginAssumption
  DEF Both, Life!Inv, Plugin!Bindings, Life!Bindings
<1>. QED BY <1>1, <1>3 DEF Frozen

(* An execution at a statement froze, or is to freeze, what its own         *)
(* incarnation was activated with.                                          *)
LEMMA NewRowIsFrozen ==
  ASSUME Both, NEW s \in Slots, Joined(s), at[s] = "statement", pc[s] = "freeze"
  PROVE  Frozen(NewRow(s), ports)
<1>1. of[s] \in Life!Incarnations /\ pool[of[s]] # "unopened"
  BY DEF Both, Life!Inv, Life!TypeOK, Life!Connections
<1>2. Life!Sound(ports[of[s]])
  BY <1>1 DEF Both, Life!Inv, Life!Served
<1>3. SoundPorts(ports[of[s]])
  BY <1>2
  DEF Life!Sound, SoundPorts, Plugin!Keys, Plugin!Range, Life!Range, Plugin!IsInjective,
      Life!IsInjective
<1>4. comp[s] = CompositionOf(ports[of[s]])
  BY DEF Joined, Executing, Both, Core, Placed
<1>5. NewRow(s).participants = ports[of[s]]["participant"]
  BY <1>4 DEF NewRow, CompositionOf
<1>. QED BY <1>1, <1>3, <1>5, SameChecks DEF Frozen

(* What a step adds to the rows and to those on their way. *)
LEMMA RowSteps ==
  ASSUME Both, [ServiceNext]_service
  PROVE  LET rows == {actions[a] : a \in Actions} \cup {w[2] : w \in lateFreezes}
             new  == {NewRow(s) : s \in {t \in Slots : at[t] = "statement" /\ pc[t] = "freeze"}}
         IN  /\ \A a \in Actions : actions'[a] \in rows \cup new
             /\ \A w \in lateFreezes' : w[2] \in rows \cup new
<1>. DEFINE rows == {actions[a] : a \in Actions} \cup {w[2] : w \in lateFreezes}
            new  == {NewRow(s) : s \in {t \in Slots : at[t] = "statement" /\ pc[t] = "freeze"}}
            Goal == /\ \A a \in Actions : actions'[a] \in rows \cup new
                    /\ \A w \in lateFreezes' : w[2] \in rows \cup new
<1>0. actions \in [Actions -> Rows \cup {NoRow}]
  BY DEF Both, Core, TypeOK
<1>1. ASSUME UNCHANGED <<actions, lateFreezes>>
      PROVE  Goal
  BY <1>1
<1>2. ASSUME NEW s \in Slots, StatementAnswers(s)
      PROVE  Goal
  <2>1. CASE FreezeAction(s)
    <3>1. /\ NewRow(s) \in new /\ UNCHANGED lateFreezes
          /\ actions' = [actions EXCEPT ![req[s].action] = InsertAction(@, NewRow(s))]
      BY <1>2, <2>1 DEF StatementAnswers, FreezeAction, late
    <3>. HIDE DEF new
    <3>. QED BY <1>0, <3>1 DEF InsertAction
  <2>2. CASE ~FreezeAction(s)
    <3>1. UNCHANGED <<actions, lateFreezes>>
      BY <1>2, <2>2
      DEF StatementAnswers, IntentConflicts, Identify, Snapshot, StoreResult, LoadIdentity,
          NothingToRead, LoadResults, tables, late
    <3>. QED BY <1>1, <3>1
  <2>. QED BY <2>1, <2>2
<1>3. ASSUME NEW s \in Slots, StatementFails(s)
      PROVE  Goal
  <2>1. CASE UNCHANGED lateFreezes
    BY <1>1, <1>3, <2>1 DEF StatementFails, Fail, FailInFlight, tables
  <2>2. CASE lateFreezes' # lateFreezes
    <3>1. /\ NewRow(s) \in new /\ UNCHANGED actions
          /\ lateFreezes' = lateFreezes \cup {<<req[s].action, NewRow(s)>>}
      BY <1>3, <2>2 DEF StatementFails, Fail, FailInFlight, tables, late
    <3>. HIDE DEF new
    <3>. QED BY <1>0, <3>1
  <2>. QED BY <2>1, <2>2
<1>4. CASE Elsewhere
  <2>1. ASSUME NEW w \in lateFreezes, LateFreeze(w)
        PROVE  Goal
    BY <1>0, <2>1 DEF LateFreeze, InsertAction
  <2>2. ASSUME ~\E w \in lateFreezes : LateFreeze(w)
        PROVE  UNCHANGED <<actions, lateFreezes>>
    BY <1>4, <2>2 DEF Elsewhere, LateStore, Perform, tables, late
  <2>. QED BY <1>1, <2>1, <2>2
<1>5. CASE Lives \/ UNCHANGED service
  BY <1>1, <1>5 DEF Lives, service, vars, tables, late
<1>6. ASSUME NEW s \in Slots,
             \/ Invoke(s) \/ ComesTooEarly(s) \/ Poll(s) \/ Acquire(s)
             \/ Asks(s) \/ Fails(s) \/ PoolIsClosed(s)
      PROVE  UNCHANGED <<actions, lateFreezes>>
  BY <1>6
  DEF Invoke, ComesTooEarly, Poll, Start, StartExecute, StartRead, Acquire, Asks, Fails,
      PoolIsClosed, Fail, GuardIsAmbiguous, GuardDenies, GuardAllows, SkipParticipant,
      CallParticipant, EndLoop, ParticipantCompletes, ParticipantRejects, ReceiptIsMalformed,
      Await, vars, tables, late
<1>7. Goal
  <2>1. ASSUME NEW s \in Slots,
               \/ Invoke(s) \/ ComesTooEarly(s) \/ Poll(s)
               \/ Acquire(s) \/ StatementAnswers(s) \/ Asks(s)
               \/ Fails(s) \/ PoolIsClosed(s) \/ StatementFails(s)
        PROVE  Goal
    <3>1. UNCHANGED <<actions, lateFreezes>> \/ StatementAnswers(s) \/ StatementFails(s)
      BY <1>6, <2>1
    <3>. HIDE DEF Goal
    <3>. QED BY <1>1, <1>2, <1>3, <3>1
  <2>2. CASE Lives \/ UNCHANGED service
    BY <1>5, <2>2
  <2>3. CASE Elsewhere
    BY <1>4, <2>3
  <2>. HIDE DEF Goal, rows, new
  <2>. QED BY <2>1, <2>2, <2>3 DEF ServiceNext
<1>. QED BY <1>7

LEMMA NothingIsVacuousStep ==
  ASSUME ServiceInv, NothingIsVacuous, [ServiceNext]_service
  PROVE  NothingIsVacuous'
<1>1. \A s \in Slots : at[s] = "statement" /\ pc[s] = "freeze" => Frozen(NewRow(s), ports)
  BY NewRowIsFrozen DEF ServiceInv
<1>2. \A row : Frozen(row, ports) => Frozen(row, ports')
  BY FrozenStays DEF ServiceInv
<1>3. /\ \A a \in Actions : actions'[a] # NoRow => Frozen(actions'[a], ports')
      /\ \A w \in lateFreezes' : Frozen(w[2], ports')
  <2>1. Both
    BY DEF ServiceInv
  <2>. DEFINE rows == {actions[a] : a \in Actions} \cup {w[2] : w \in lateFreezes}
              new  == {NewRow(s) : s \in {t \in Slots : at[t] = "statement" /\ pc[t] = "freeze"}}
  <2>2. /\ \A a \in Actions : actions'[a] \in rows \cup new
        /\ \A w \in lateFreezes' : w[2] \in rows \cup new
    BY <2>1, RowSteps
  <2>3. \A row \in rows \cup new : row # NoRow => Frozen(row, ports)
    BY <1>1 DEF NothingIsVacuous
  <2>4. \A w \in lateFreezes' : w[2] # NoRow
    BY BothStep, RowAssumption DEF ServiceInv, Both, Core, TypeOK
  <2>. HIDE DEF rows, new
  <2>. QED BY <1>2, <2>2, <2>3, <2>4
<1>4. reply'.kind = "ok" => DOMAIN reply'.report # {}
  <2>1. [AnyStep]_vars
    BY CoordinatorSteps, SameChecks DEF ServiceInv, Both, Core, Life!Inv, Life!TypeOK
  <2>2. CASE UNCHANGED vars
    BY <2>2 DEF vars, answers, NothingIsVacuous
  <2>3. ASSUME AnyStep, reply'.kind = "ok"
        PROVE  DOMAIN reply'.report # {}
    <3>1. PICK s \in Slots : LoadResults(s)
      BY <2>3, OnlyLooksAreOk DEF ServiceInv, Both, Core
    <3>2. identity[s] \in Rows
      BY <3>1 DEF ServiceInv, Both, Core, TypeOK, Placed, LoadResults
    <3>3. PICK c \in Compositions : identity[s].participants = c.participants
      BY <3>2 DEF Rows
    <3>4. c.participants # << >> /\ c.participants \in Seq(Participants)
      BY PlanAssumption, PlanType
    <3>5. Range(identity[s].participants) # {}
      <4>1. 1 \in DOMAIN c.participants
        BY <3>4
      <4>. QED BY <3>3, <4>1 DEF Range
    <3>6. reply'.report = ReportOf(identity[s], results[req[s].action])
      BY <3>1 DEF LoadResults, Finish, Say
    <3>. QED BY <3>5, <3>6 DEF ReportOf
  <2>. QED BY <2>1, <2>2, <2>3
<1>. QED BY <1>3, <1>4 DEF NothingIsVacuous, Frozen, SoundPorts, Plugin!Keys, Plugin!Range,
                         Plugin!IsInjective, Plugin!Incarnations

(* Whatever the App is resolved with from one incarnation to the next, and *)
(* whichever clones outlive theirs, guards are asked about an execution     *)
(* that has participants, every frozen action names exactly the            *)
(* participants of a Plan that activation accepts as a whole, and no report *)
(* is empty (lib.rs:451-472, lib.rs:660-710).                              *)
THEOREM NoExecutionIsVacuous == ServiceSpec => []NoVacuousExecution
<1>1. ServiceInit => NothingIsVacuous
  BY DEF ServiceInit, Init, NothingIsVacuous, NoReply
<1>2. ServiceInv /\ NothingIsVacuous /\ [ServiceNext]_service => NothingIsVacuous'
  BY NothingIsVacuousStep
<1>3. ASSUME ServiceInv, NothingIsVacuous
      PROVE  NoVacuousExecution
  <2>1. ASSUME NEW s \in Slots, pc[s] = "guard"
        PROVE  comp[s].participants # << >>
    <3>1. comp[s] \in Compositions
      BY <1>3, <2>1 DEF ServiceInv, Both, Core, Placed, Executing
    <3>. QED BY <3>1, PlanAssumption
  <2>. QED BY <1>3, <2>1 DEF NothingIsVacuous, Frozen, NoVacuousExecution
<1>. QED BY <1>1, <1>2, <1>3, ServiceInvHolds, PTL DEF ServiceSpec

-----------------------------------------------------------------------------
(* What needs the database *)

LEMMA StatementsAreServed ==
  ASSUME ServiceInv, NEW s \in Slots, at[s] = "statement"
  PROVE  Served(s)
<1>1. /\ of[s] \in Life!Incarnations /\ current \in Life!Incarnations
      /\ pool[of[s]] \in {"open", "closing"} /\ stage \in Life!Stages
  BY DEF ServiceInv, Both, Life!Inv, Life!TypeOK, Life!Connections
<1>2. of[s] = current
  <2>1. of[s] < current \/ of[s] = current \/ of[s] > current
    BY <1>1, PluginAssumption DEF Life!Incarnations
  <2>. QED BY <1>1, <2>1 DEF ServiceInv, Both, Life!Inv, Life!Pools
<1>3. stage \in {"active", "closing"}
  BY <1>1, <1>2 DEF ServiceInv, Both, Life!Inv, Life!Pools, Life!Stages
<1>. QED BY <1>2, <1>3 DEF Served

(* No handler writes under an incarnation, or reports what is stored,      *)
(* except by a statement of the incarnation that is there to serve it      *)
(* (lib.rs:722-728).                                                       *)
THEOREM DatabaseOnlyThroughThePool == ServiceSpec => DatabaseNeedsItsPool
<1>. DEFINE Allowed ==
       \/ \E s \in Slots : Served(s) /\ pc'[s] # pc[s]
       \/ late' # late
       \/ /\ UNCHANGED tables
          /\ reply' # reply => reply'.kind \notin {"ok", "not_found", "idempotency_conflict"}
<1>. USE DEF Quiet, GoTo, NoReply
<1>1. ASSUME UNCHANGED <<tables, reply>>
      PROVE  Allowed
  BY <1>1
<1>2. ASSUME Lives
      PROVE  Allowed
  <2>1. UNCHANGED <<tables, reply>>
    BY <1>2 DEF Lives, vars, answers
  <2>. QED BY <2>1, <1>1
<1>3. ASSUME Elsewhere
      PROVE  Allowed
  <2>1. ASSUME NEW w \in lateFreezes, LateFreeze(w)
        PROVE  late' # late
    BY <2>1 DEF LateFreeze, late
  <2>2. ASSUME NEW w \in lateStores, LateStore(w)
        PROVE  late' # late
    BY <2>2 DEF LateStore, late
  <2>3. ASSUME NEW a \in Actions, NEW p \in Participants, NEW r \in Receipts, Perform(a, p, r)
        PROVE  UNCHANGED tables /\ reply'.kind = "none"
    BY <2>3 DEF Perform
  <2>. QED BY <1>3, <2>1, <2>2, <2>3 DEF Elsewhere
<1>4. ASSUME NEW s \in Slots, Invoke(s) \/ ComesTooEarly(s) \/ Acquire(s)
      PROVE  Allowed
  BY <1>4 DEF Invoke, ComesTooEarly, Acquire, vars, answers, tables
<1>5. ASSUME NEW s \in Slots, Poll(s)
      PROVE  Allowed
  BY <1>5 DEF Poll, Start, StartExecute, StartRead, Refuse, Admit, Say
<1>6. ASSUME NEW s \in Slots, Asks(s)
      PROVE  Allowed
  <2>1. UNCHANGED tables /\ reply'.kind \in {"none", "failed", "blocked_by_guard"}
    BY <1>6
    DEF Asks, GuardIsAmbiguous, GuardDenies, GuardAllows, SkipParticipant, CallParticipant,
        EndLoop, ParticipantCompletes, ParticipantRejects, ReceiptIsMalformed, Await, Finish, Say
  <2>. QED BY <2>1
<1>7. ASSUME NEW s \in Slots, Fails(s) \/ PoolIsClosed(s) \/ StatementFails(s)
      PROVE  Allowed
  <2>1. UNCHANGED tables /\ reply'.kind = "failed"
    BY <1>7 DEF Fails, PoolIsClosed, StatementFails, Fail, FailInFlight, Finish, Say
  <2>. QED BY <2>1
<1>8. ASSUME ServiceInv, NEW s \in Slots, StatementAnswers(s)
      PROVE  Allowed
  <2>1. Served(s)
    BY <1>8, StatementsAreServed DEF StatementAnswers
  <2>2. pc'[s] # pc[s]
    BY <1>8
    DEF ServiceInv, Both, Core, TypeOK, StatementAnswers, FreezeAction, IntentConflicts,
        Identify, Snapshot, StoreResult, LoadIdentity, NothingToRead, LoadResults, Finish
  <2>. QED BY <2>1, <2>2
<1>9. ASSUME ServiceInv, [ServiceNext]_service
      PROVE  [Allowed]_vars
  <2>1. CASE UNCHANGED service
    BY <2>1 DEF service
  <2>2. CASE ServiceNext
    <3>. HIDE DEF Allowed
    <3>. QED BY <1>2, <1>3, <1>4, <1>5, <1>6, <1>7, <1>8, <1>9, <2>2 DEF ServiceNext
  <2>. QED BY <1>9, <2>1, <2>2
<1>. QED BY <1>9, ServiceInvHolds, PTL DEF ServiceSpec, DatabaseNeedsItsPool
=============================================================================
