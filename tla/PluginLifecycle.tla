---------------------------- MODULE PluginLifecycle ----------------------------
(***************************************************************************)
(* The Plugin Instance: its configuration and Plan are validated, its      *)
(* ports connected, it is activated and deactivated, while invocations of  *)
(* the present and of earlier incarnations run.  An incarnation has its    *)
(* own ports and its own Rc<RefCell<Option<PreparedDataGovernance>>>; an   *)
(* invocation works on a clone of both (the generated lowering clones the  *)
(* Plugin).  Activation has two await points, deactivation has one.        *)
(***************************************************************************)
EXTENDS Naturals, Sequences, FiniteSets, Functions

CONSTANTS
  Instances,     \* Instance keys, the malformed ones included
  ValidNames,    \* those valid_name accepts
  Configs,       \* configurations the App may give
  Plans,         \* sequences of bindings the App may resolve
  Slots,         \* concurrent invocations
  PortLimit,     \* what a configured limit on bound Instances may be at most: 64
  MaxIncarnations \* bound: how often the Plugin is instantiated

ASSUME NameAssumption == ValidNames \subseteq Instances
ASSUME LimitAssumption == PortLimit \in Nat \ {0}
ASSUME IncarnationAssumption == MaxIncarnations \in Nat \ {0}

Incarnations == 1..MaxIncarnations

Bindings == [capability : {"source", "guard", "participant"}, instance : Instances,
             connected : BOOLEAN]

ASSUME PlanAssumption == Plans \subseteq Seq(Bindings)

VARIABLES
  config,    \* the configuration of the current incarnation
  plan,      \* its bindings
  current,   \* which incarnation that is
  stage,     \* how far its activation or deactivation has come
  ports,     \* per incarnation: its three ManyPorts
  prepared,  \* per incarnation: the state cell is Some
  pool,      \* per incarnation: its connection pool
  at,        \* per slot: what the invocation is doing
  of         \* per slot: the incarnation whose clone it works on

vars == <<config, plan, current, stage, ports, prepared, pool, at, of>>

invocations == <<at, of>>
instance    == <<config, plan, current, ports>>

-----------------------------------------------------------------------------
(* Configuration and Plan *)

(* No configuration admits an export beyond these. *)
LargestItem  == 1048576
LargestTotal == 16777216

(* Mutant: one more than a Port may have is let pass. *)
PortLimitsOffByOne(c) ==
  /\ c.max_sources \in 1..(PortLimit + 1)
  /\ c.max_guards \in 0..PortLimit
  /\ c.max_participants \in 1..PortLimit

(* The limits on bound Instances, and those on an export. *)
PortLimitsValid(c) ==
  /\ c.max_sources \in 1..PortLimit
  /\ c.max_guards \in 0..PortLimit
  /\ c.max_participants \in 1..PortLimit

ExportLimitsValid(c) ==
  /\ c.max_items \in 1..512
  /\ c.max_item_bytes \in 1..LargestItem
  /\ c.max_total_bytes \in 1..LargestTotal
  /\ c.max_item_bytes <= c.max_total_bytes

(* DataGovernanceConfig::validate *)
validate(c) ==
  /\ c.schema_valid /\ c.secret_valid
  /\ \A callers \in {c.export_callers, c.retention_callers} :
       callers # << >> /\ Range(callers) \subseteq ValidNames
  /\ PortLimitsValid(c)
  /\ ExportLimitsValid(c)

(* Mutant: the last binding comes first. *)
ManyReversed(bindings, capability) ==
  LET many[n \in 0..Len(bindings)] ==
        IF n = 0 THEN << >>
        ELSE IF bindings[n].capability = capability THEN <<bindings[n]>> \o many[n - 1]
        ELSE many[n - 1]
  IN many[Len(bindings)]

(* The bindings of one capability, in the order of the resolved Plan. *)
Many(bindings, capability) ==
  LET many[n \in 0..Len(bindings)] ==
        IF n = 0 THEN << >>
        ELSE IF bindings[n].capability = capability THEN Append(many[n - 1], bindings[n])
        ELSE many[n - 1]
  IN many[Len(bindings)]

PortsOf(bindings) ==
  [c \in {"source", "guard", "participant"} |->
     [i \in DOMAIN Many(bindings, c) |-> Many(bindings, c)[i].instance]]

NoPorts == [c \in {"source", "guard", "participant"} |-> << >>]

Keys(port) == Range(port) \subseteq ValidNames /\ IsInjective(port)

(* Mutant: the keys are not looked at. *)
CountsOnly(c, p) ==
  /\ Len(p["source"]) \in 1..c.max_sources
  /\ Len(p["guard"]) <= c.max_guards
  /\ Len(p["participant"]) \in 1..c.max_participants

(* Mutant: too many Instances are accepted. *)
NoUpperLimit(c, p) ==
  /\ p["source"] # << >> /\ p["participant"] # << >>
  /\ \A capability \in DOMAIN p : Keys(p[capability])

Accepts(c, p) ==
  /\ Len(p["source"]) \in 1..c.max_sources
  /\ Len(p["guard"]) <= c.max_guards
  /\ Len(p["participant"]) \in 1..c.max_participants
  /\ \A capability \in DOMAIN p : Keys(p[capability])

-----------------------------------------------------------------------------

Init ==
  /\ config \in Configs
  /\ plan \in Plans
  /\ current = 1
  /\ stage = "resolved"
  /\ ports = [n \in Incarnations |-> NoPorts]
  /\ prepared = [n \in Incarnations |-> FALSE]
  /\ pool = [n \in Incarnations |-> "unopened"]
  /\ at = [s \in Slots |-> "idle"]
  /\ of = [s \in Slots |-> 1]

(* The App is resolved again, in a new incarnation of the Plugin.          *)
Resolve(c, p) ==
  /\ stage = "down"
  /\ current + 1 \in Incarnations
  /\ current' = current + 1
  /\ config' = c
  /\ plan' = p
  /\ stage' = "resolved"
  /\ UNCHANGED <<ports, prepared, pool, invocations>>

ConfigIsRefused ==
  /\ stage = "resolved"
  /\ ~validate(config)
  /\ stage' = "down"
  /\ UNCHANGED <<instance, prepared, pool, invocations>>

(* A binding of one of the three capabilities without a handle makes the   *)
(* Port, and so the Plugin, unavailable.                                   *)
PortIsUnavailable ==
  /\ stage = "resolved"
  /\ validate(config)
  /\ \E i \in DOMAIN plan : ~plan[i].connected
  /\ stage' = "down"
  /\ UNCHANGED <<instance, prepared, pool, invocations>>

ConnectPorts ==
  /\ stage = "resolved"
  /\ validate(config)
  /\ \A i \in DOMAIN plan : plan[i].connected
  /\ ports' = [ports EXCEPT ![current] = PortsOf(plan)]
  /\ stage' = "connected"
  /\ UNCHANGED <<config, plan, current, prepared, pool, invocations>>

(* activate: the checks on the Plan precede the first await. *)
PlanIsRefused ==
  /\ stage = "connected"
  /\ ~Accepts(config, ports[current])
  /\ stage' = "down"
  /\ UNCHANGED <<instance, prepared, pool, invocations>>

ActivateBegins ==
  /\ stage = "connected"
  /\ Accepts(config, ports[current])
  /\ stage' = "resolving secret"
  /\ UNCHANGED <<instance, prepared, pool, invocations>>

SecretResolves ==
  /\ stage = "resolving secret"
  /\ stage' = "preparing"
  /\ UNCHANGED <<instance, prepared, pool, invocations>>

(* Mutant: the state cell is filled before the checks. *)
PreparedTooEarly ==
  /\ stage \in {"connected", "preparing"}
  /\ pool' = [pool EXCEPT ![current] = "open"]
  /\ prepared' = [prepared EXCEPT ![current] = TRUE]
  /\ stage' = IF stage = "preparing" THEN "active" ELSE stage
  /\ UNCHANGED <<instance, invocations>>

PostgresIsPrepared ==
  /\ stage = "preparing"
  /\ pool' = [pool EXCEPT ![current] = "open"]
  /\ prepared' = [prepared EXCEPT ![current] = TRUE]
  /\ stage' = "active"
  /\ UNCHANGED <<instance, invocations>>

(* The secret is rejected or times out, PostgreSQL is unreachable or the   *)
(* schema is not the planned one, or activation is cancelled.              *)
ActivateFails ==
  /\ stage \in {"resolving secret", "preparing"}
  /\ stage' = "down"
  /\ UNCHANGED <<instance, prepared, pool, invocations>>

(* deactivate: take() empties the cell, close() refuses new connections at *)
(* once and then waits for those in use.                                   *)
Deactivate ==
  /\ stage = "active"
  /\ prepared' = [prepared EXCEPT ![current] = FALSE]
  /\ pool' = [pool EXCEPT ![current] = "closing"]
  /\ stage' = "closing"
  /\ UNCHANGED <<instance, invocations>>

(* Mutant: the close is not awaited. *)
ClosesAtOnce ==
  /\ stage = "closing"
  /\ pool' = [pool EXCEPT ![current] = "closed"]
  /\ stage' = "down"
  /\ UNCHANGED <<instance, prepared, invocations>>

PoolCloses ==
  /\ stage = "closing"
  /\ \A s \in Slots : ~(at[s] = "statement" /\ of[s] = current)
  /\ pool' = [pool EXCEPT ![current] = "closed"]
  /\ stage' = "down"
  /\ UNCHANGED <<instance, prepared, invocations>>

(* The process dies, and everything in it. *)
Crash ==
  /\ stage # "down"
  /\ stage' = "down"
  /\ prepared' = [prepared EXCEPT ![current] = FALSE]
  /\ pool' = [n \in Incarnations |-> IF pool[n] = "unopened" THEN "unopened" ELSE "closed"]
  /\ at' = [s \in Slots |-> "idle"]
  /\ UNCHANGED <<instance, of>>

-----------------------------------------------------------------------------
(* Invocations of the Plugin *)

(* The endpoint is invoked: the lowering clones the Plugin, whose handler   *)
(* is not called before the future is first polled.                        *)
Begin(s) ==
  /\ at[s] = "idle"
  /\ at' = [at EXCEPT ![s] = "running"]
  /\ of' = [of EXCEPT ![s] = current]
  /\ UNCHANGED <<instance, stage, prepared, pool>>

(* self.prepared()? clones the pool out of the cell. *)
TakePrepared(s) ==
  /\ at[s] = "running"
  /\ prepared[of[s]]
  /\ at' = [at EXCEPT ![s] = "holding"]
  /\ UNCHANGED <<instance, stage, prepared, pool, of>>

NotPrepared(s) ==
  /\ at[s] = "running"
  /\ ~prepared[of[s]]
  /\ at' = [at EXCEPT ![s] = "idle"]
  /\ UNCHANGED <<instance, stage, prepared, pool, of>>

(* Mutant: a connection is handed out as long as the pool is not closed. *)
QueryWhileClosing(s) ==
  /\ at[s] = "holding"
  /\ pool[of[s]] \in {"open", "closing"}
  /\ at' = [at EXCEPT ![s] = "statement"]
  /\ UNCHANGED <<instance, stage, prepared, pool, of>>

Query(s) ==
  /\ at[s] = "holding"
  /\ pool[of[s]] = "open"
  /\ at' = [at EXCEPT ![s] = "statement"]
  /\ UNCHANGED <<instance, stage, prepared, pool, of>>

(* Acquiring a connection of a closed pool is a database error. *)
QueryFails(s) ==
  /\ at[s] = "holding"
  /\ pool[of[s]] # "open"
  /\ at' = [at EXCEPT ![s] = "idle"]
  /\ UNCHANGED <<instance, stage, prepared, pool, of>>

(* The statement is answered: the handler goes on, or ends. *)
Answered(s) ==
  /\ at[s] = "statement"
  /\ at' \in {[at EXCEPT ![s] = label] : label \in {"holding", "idle"}}
  /\ UNCHANGED <<instance, stage, prepared, pool, of>>

(* The request is refused, another Plugin's answer ends the handler, or the *)
(* future is dropped.                                                      *)
Ends(s) ==
  /\ at[s] \in {"running", "holding"}
  /\ at' = [at EXCEPT ![s] = "idle"]
  /\ UNCHANGED <<instance, stage, prepared, pool, of>>

-----------------------------------------------------------------------------

Invocation(s) ==
  \/ Begin(s) \/ TakePrepared(s) \/ NotPrepared(s)
  \/ Query(s) \/ QueryFails(s) \/ Answered(s) \/ Ends(s)

Next ==
  \/ \E c \in Configs, p \in Plans : Resolve(c, p)
  \/ ConfigIsRefused \/ PortIsUnavailable \/ ConnectPorts
  \/ PlanIsRefused \/ ActivateBegins \/ SecretResolves \/ PostgresIsPrepared \/ ActivateFails
  \/ Deactivate \/ PoolCloses \/ Crash
  \/ \E s \in Slots : Invocation(s)

Spec == Init /\ [][Next]_vars

(* Assumed: PostgreSQL answers a statement or its connection fails (the    *)
(* statements carry no deadline of their own), and the executor polls the  *)
(* close once it can complete.                                             *)
Fairness == WF_vars(PoolCloses) /\ \A s \in Slots : WF_vars(Answered(s))

FairSpec == Spec /\ Fairness

-----------------------------------------------------------------------------
(* Properties *)

Stages == {"down", "resolved", "connected", "resolving secret", "preparing", "active",
           "closing"}

(* Every variable has its type, and the cell of an incarnation is Some     *)
(* exactly while that incarnation is active with an open pool.             *)
TypeOK ==
  /\ config \in Configs /\ plan \in Plans
  /\ current \in Incarnations /\ stage \in Stages
  /\ ports \in [Incarnations -> [{"source", "guard", "participant"} -> Seq(Instances)]]
  /\ pool \in [Incarnations -> {"unopened", "open", "closing", "closed"}]
  /\ at \in [Slots -> {"idle", "running", "holding", "statement"}]
  /\ of \in [Slots -> Incarnations]
  /\ prepared = [n \in Incarnations |-> n = current /\ stage = "active"]

(* What the coordinators take for granted of their ports: an invocation    *)
(* that has the database was given at least one source and one participant *)
(* and at most PortLimit of anything, all of them well-named and distinct  *)
(* within their Port.  While its incarnation is the current one these are  *)
(* also within the configured limits, and the n-th Instance of a Port is   *)
(* the n-th that the Plan binds to that capability, with none left over    *)
(* (lib.rs:658-720).                                                       *)
Providing(capability) == {i \in DOMAIN plan : plan[i].capability = capability}

InPlanOrder(port, capability) ==
  /\ Len(port) = Cardinality(Providing(capability))
  /\ \A i \in Providing(capability) :
       port[Cardinality({j \in Providing(capability) : j <= i})] = plan[i].instance

WithinLimits(c, p) ==
  /\ Len(p["source"]) <= c.max_sources
  /\ Len(p["guard"]) <= c.max_guards
  /\ Len(p["participant"]) <= c.max_participants

SoundPlanServes ==
  \A s \in Slots : at[s] \in {"holding", "statement"} =>
    LET p == ports[of[s]] IN
    /\ p["source"] # << >> /\ p["participant"] # << >>
    /\ \A c \in DOMAIN p :
         Len(p[c]) <= PortLimit /\ IsInjective(p[c]) /\ Range(p[c]) \subseteq ValidNames
    /\ of[s] = current => WithinLimits(config, p) /\ \A c \in DOMAIN p : InPlanOrder(p[c], c)

(* Once deactivation has returned, or activation has failed, nothing of    *)
(* that incarnation uses PostgreSQL and no pool of it is left open, even   *)
(* if invocations of it are still running (lib.rs:722-728).                *)
QuiescentWhenDown ==
  \A n \in Incarnations : n < current \/ stage = "down" =>
    /\ pool[n] \in {"unopened", "closed"}
    /\ \A s \in Slots : ~(at[s] = "statement" /\ of[s] = n)

(* deactivate returns: waiting for the connections in use cannot be kept   *)
(* up by handlers that go on to their next statement (lib.rs:725).         *)
DeactivationEnds == stage = "closing" ~> stage = "down"
=============================================================================
