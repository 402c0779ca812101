--------------------------- MODULE LifecycleProofs ---------------------------
(* Theorems about PluginLifecycle, for every value of its constants. *)
EXTENDS PluginLifecycle, Induction, FiniteSetTheorems

Capabilities == {"source", "guard", "participant"}

-----------------------------------------------------------------------------
(* Many: exactly the bindings of the capability, in their order *)

Picks(f, b, c, k) ==
  f = [n \in 0..k |-> IF n = 0 THEN << >>
                      ELSE IF b[n].capability = c THEN Append(f[n - 1], b[n])
                      ELSE f[n - 1]]

LEMMA PicksExist ==
  ASSUME NEW b \in Seq(Bindings), NEW c, NEW k \in 0..Len(b)
  PROVE  \E f : Picks(f, b, c, k)
<1>. DEFINE S == {n \in Nat : n <= Len(b) => \E f : Picks(f, b, c, n)}
<1>1. 0 \in S
  <2>1. Picks([n \in 0..0 |-> << >>], b, c, 0)
    BY DEF Picks
  <2>. QED BY <2>1
<1>2. ASSUME NEW n \in S, n + 1 <= Len(b)
      PROVE  \E f : Picks(f, b, c, n + 1)
  <2>1. PICK f : Picks(f, b, c, n)
    BY <1>2
  <2>. DEFINE g == [m \in 0..(n + 1) |->
                      IF m = n + 1
                      THEN IF b[m].capability = c THEN Append(f[n], b[m]) ELSE f[n]
                      ELSE f[m]]
  <2>2. \A m \in 0..n : f[m] = IF m = 0 THEN << >>
                               ELSE IF b[m].capability = c THEN Append(f[m - 1], b[m])
                               ELSE f[m - 1]
    BY <2>1 DEF Picks
  <2>3. \A m \in 0..(n + 1) : g[m] = IF m = 0 THEN << >>
                                     ELSE IF b[m].capability = c THEN Append(g[m - 1], b[m])
                                     ELSE g[m - 1]
    <3>1. \A m \in 0..n : g[m] = f[m]
      OBVIOUS
    <3>2. g[n + 1] = IF b[n + 1].capability = c THEN Append(f[n], b[n + 1]) ELSE f[n]
      OBVIOUS
    <3>3. \A m \in 0..(n + 1) : m = n + 1 \/ (m \in 0..n /\ (m # 0 => m - 1 \in 0..n))
      OBVIOUS
    <3>4. n \in 0..n /\ (n + 1) - 1 = n /\ n + 1 # 0
      OBVIOUS
    <3>. HIDE DEF g
    <3>. QED BY <2>2, <3>1, <3>2, <3>3, <3>4
  <2>4. g = [m \in 0..(n + 1) |-> IF m = 0 THEN << >>
                                  ELSE IF b[m].capability = c THEN Append(g[m - 1], b[m])
                                  ELSE g[m - 1]]
    BY <2>3
  <2>. QED BY <2>4 DEF Picks
<1>3. \A n \in S : n + 1 \in S
  BY <1>2
<1>4. S = Nat
  <2>. HIDE DEF S
  <2>. QED BY <1>1, <1>3, NaturalInduction DEF S
<1>. QED BY <1>4

LEMMA ManyIs ==
  ASSUME NEW b \in Seq(Bindings), NEW c
  PROVE  \E f : Picks(f, b, c, Len(b)) /\ Many(b, c) = f[Len(b)]
<1>. DEFINE f == CHOOSE g : Picks(g, b, c, Len(b))
<1>1. Len(b) \in 0..Len(b)
  OBVIOUS
<1>2. Picks(f, b, c, Len(b))
  BY <1>1, PicksExist
<1>3. Many(b, c) = f[Len(b)]
  BY DEF Many, Picks
<1>. QED BY <1>2, <1>3

(* The bindings of a capability among the first n. *)
BoundIn(b, c, n) == {j \in 1..n : b[j].capability = c}

LEMMA BoundInGrows ==
  ASSUME NEW b, NEW c, NEW n \in Nat
  PROVE  /\ IsFiniteSet(BoundIn(b, c, n)) /\ Cardinality(BoundIn(b, c, n)) \in Nat
         /\ BoundIn(b, c, n + 1) = IF b[n + 1].capability = c THEN BoundIn(b, c, n) \cup {n + 1}
                                   ELSE BoundIn(b, c, n)
         /\ n + 1 \notin BoundIn(b, c, n)
         /\ \A j \in BoundIn(b, c, n) :
              Cardinality(BoundIn(b, c, j)) \in 1..Cardinality(BoundIn(b, c, n))
<1>1. ASSUME NEW m \in Nat
      PROVE  IsFiniteSet(BoundIn(b, c, m)) /\ Cardinality(BoundIn(b, c, m)) \in Nat
  <2>1. IsFiniteSet(1..m)
    BY FS_Interval
  <2>2. BoundIn(b, c, m) \in SUBSET (1..m)
    BY DEF BoundIn
  <2>3. IsFiniteSet(BoundIn(b, c, m))
    BY <2>1, <2>2, FS_Subset
  <2>. QED BY <2>3, FS_CardinalityType
<1>2. BoundIn(b, c, n + 1) = IF b[n + 1].capability = c THEN BoundIn(b, c, n) \cup {n + 1}
                             ELSE BoundIn(b, c, n)
  <2>1. \A j : j \in 1..(n + 1) <=> j \in 1..n \/ j = n + 1
    OBVIOUS
  <2>. QED BY <2>1 DEF BoundIn
<1>3. n + 1 \notin BoundIn(b, c, n)
  BY DEF BoundIn
<1>4. ASSUME NEW j \in BoundIn(b, c, n)
      PROVE  Cardinality(BoundIn(b, c, j)) \in 1..Cardinality(BoundIn(b, c, n))
  <2>1. j \in 1..n /\ j \in Nat /\ j \in BoundIn(b, c, j)
    BY DEF BoundIn
  <2>2. BoundIn(b, c, j) \in SUBSET BoundIn(b, c, n)
    BY <2>1 DEF BoundIn
  <2>3. Cardinality(BoundIn(b, c, j)) <= Cardinality(BoundIn(b, c, n))
    BY <1>1, <2>2, FS_Subset
  <2>4. Cardinality(BoundIn(b, c, j)) # 0
    BY <1>1, <2>1, FS_EmptySet
  <2>. QED BY <1>1, <2>1, <2>3, <2>4
<1>. QED BY <1>1, <1>2, <1>3, <1>4

(* What has been picked from the first n bindings: each binding of the     *)
(* capability stands where counting puts it, and there are no others.      *)
PickedOf(q, b, c, n) ==
  /\ q \in Seq(Bindings)
  /\ Len(q) = Cardinality(BoundIn(b, c, n))
  /\ \A j \in BoundIn(b, c, n) : q[Cardinality(BoundIn(b, c, j))] = b[j]

LEMMA ManyPicks ==
  ASSUME NEW b \in Seq(Bindings), NEW c
  PROVE  PickedOf(Many(b, c), b, c, Len(b))
<1>1. PICK f : Picks(f, b, c, Len(b)) /\ Many(b, c) = f[Len(b)]
  BY ManyIs
<1>2. \A n \in 0..Len(b) : f[n] = IF n = 0 THEN << >>
                                  ELSE IF b[n].capability = c THEN Append(f[n - 1], b[n])
                                  ELSE f[n - 1]
  BY <1>1 DEF Picks
<1>. DEFINE S == {n \in Nat : n <= Len(b) => PickedOf(f[n], b, c, n)}
<1>3. 0 \in S
  <2>1. f[0] = << >>
    BY <1>2
  <2>2. BoundIn(b, c, 0) = {}
    BY DEF BoundIn
  <2>3. PickedOf(<< >>, b, c, 0)
    BY <2>2, FS_EmptySet DEF PickedOf
  <2>. QED BY <2>1, <2>3
<1>4. ASSUME NEW n \in S, n + 1 <= Len(b)
      PROVE  PickedOf(f[n + 1], b, c, n + 1)
  <2>. DEFINE B == BoundIn(b, c, n)
              q == f[n]
  <2>1. /\ n \in Nat /\ PickedOf(q, b, c, n) /\ b[n + 1] \in Bindings
        /\ n + 1 \in 0..Len(b) /\ n + 1 # 0 /\ (n + 1) - 1 = n
    BY <1>4
  <2>2. /\ IsFiniteSet(B) /\ Cardinality(B) \in Nat /\ n + 1 \notin B
        /\ \A j \in B : Cardinality(BoundIn(b, c, j)) \in 1..Cardinality(B)
        /\ BoundIn(b, c, n + 1) = IF b[n + 1].capability = c THEN B \cup {n + 1} ELSE B
    BY <2>1, BoundInGrows
  <2>3. q \in Seq(Bindings) /\ Len(q) = Cardinality(B)
    BY <2>1 DEF PickedOf
  <2>4. \A j \in B : q[Cardinality(BoundIn(b, c, j))] = b[j]
    BY <2>1 DEF PickedOf
  <2>5. CASE b[n + 1].capability = c
    <3>1. f[n + 1] = Append(q, b[n + 1])
      BY <1>2, <2>1, <2>5
    <3>2. BoundIn(b, c, n + 1) = B \cup {n + 1} /\ Cardinality(B \cup {n + 1}) = Cardinality(B) + 1
      BY <2>2, <2>5, FS_AddElement
    <3>. HIDE DEF q, B
    <3>3. /\ f[n + 1] \in Seq(Bindings) /\ Len(f[n + 1]) = Len(q) + 1
          /\ f[n + 1][Len(q) + 1] = b[n + 1]
          /\ \A i \in 1..Len(q) : f[n + 1][i] = q[i]
      BY <2>1, <2>3, <3>1
    <3>4. \A j \in B : f[n + 1][Cardinality(BoundIn(b, c, j))] = b[j]
      BY <2>2, <2>3, <2>4, <3>3
    <3>5. f[n + 1][Cardinality(BoundIn(b, c, n + 1))] = b[n + 1]
      BY <2>3, <3>2, <3>3
    <3>. QED BY <2>3, <3>2, <3>3, <3>4, <3>5 DEF PickedOf
  <2>6. CASE b[n + 1].capability # c
    <3>1. f[n + 1] = q
      BY <1>2, <2>1, <2>6
    <3>. QED BY <2>2, <2>3, <2>4, <2>6, <3>1 DEF PickedOf
  <2>. QED BY <2>5, <2>6
<1>5. \A n \in S : n + 1 \in S
  BY <1>4
<1>6. S = Nat
  <2>. HIDE DEF S
  <2>. QED BY <1>3, <1>5, NaturalInduction DEF S
<1>. QED BY <1>1, <1>6

(* What a Port holds: the Instances bound to its capability, one by one.   *)
PortsOfPlan(p, b) ==
  \A c \in Capabilities :
    /\ Len(p[c]) = Cardinality(BoundIn(b, c, Len(b)))
    /\ \A j \in BoundIn(b, c, Len(b)) :
         p[c][Cardinality(BoundIn(b, c, j))] = b[j].instance

LEMMA PortsType ==
  ASSUME NEW b \in Seq(Bindings)
  PROVE  /\ PortsOf(b) \in [Capabilities -> Seq(Instances)]
         /\ PortsOfPlan(PortsOf(b), b)
<1>1. ASSUME NEW c \in Capabilities
      PROVE  /\ PortsOf(b)[c] \in Seq(Instances)
             /\ Len(PortsOf(b)[c]) = Cardinality(BoundIn(b, c, Len(b)))
             /\ \A j \in BoundIn(b, c, Len(b)) :
                  PortsOf(b)[c][Cardinality(BoundIn(b, c, j))] = b[j].instance
  <2>. DEFINE q == Many(b, c)
  <2>1. PickedOf(q, b, c, Len(b))
    BY ManyPicks
  <2>. HIDE DEF q
  <2>2. q \in Seq(Bindings) /\ DOMAIN q = 1..Len(q) /\ Len(q) \in Nat
    BY <2>1 DEF PickedOf
  <2>3. PortsOf(b)[c] = [i \in DOMAIN q |-> q[i].instance]
    BY <1>1 DEF PortsOf, Capabilities, q
  <2>4. \A i \in 1..Len(q) : q[i].instance \in Instances
    <3>1. \A i \in 1..Len(q) : q[i] \in Bindings
      BY <2>2
    <3>. QED BY <3>1 DEF Bindings
  <2>5. PortsOf(b)[c] \in Seq(Instances) /\ Len(PortsOf(b)[c]) = Len(q)
    BY <2>2, <2>3, <2>4
  <2>6. Len(b) \in Nat
    OBVIOUS
  <2>7. \A j \in BoundIn(b, c, Len(b)) : Cardinality(BoundIn(b, c, j)) \in 1..Len(q)
    BY <2>1, <2>6, BoundInGrows DEF PickedOf
  <2>8. \A j \in BoundIn(b, c, Len(b)) :
          PortsOf(b)[c][Cardinality(BoundIn(b, c, j))] = b[j].instance
    BY <2>1, <2>2, <2>3, <2>7 DEF PickedOf
  <2>9. Len(PortsOf(b)[c]) = Cardinality(BoundIn(b, c, Len(b)))
    BY <2>1, <2>5 DEF PickedOf
  <2>. QED BY <2>5, <2>8, <2>9
<1>2. PortsOf(b) = [c \in Capabilities |-> PortsOf(b)[c]]
  BY DEF PortsOf, Capabilities
<1>. QED BY <1>1, <1>2 DEF PortsOfPlan

-----------------------------------------------------------------------------
(* Types *)

LEMMA TypeInit == Init => TypeOK
<1>. SUFFICES ASSUME Init PROVE TypeOK
  OBVIOUS
<1>1. NoPorts \in [Capabilities -> Seq(Instances)]
  BY DEF NoPorts, Capabilities
<1>2. 1 \in Incarnations
  BY IncarnationAssumption DEF Incarnations
<1>. QED BY <1>1, <1>2 DEF Init, TypeOK, Stages, Capabilities

LEMMA TypeStep ==
  ASSUME TypeOK, [Next]_vars
  PROVE  TypeOK'
<1>. USE DEF TypeOK, Stages, instance, invocations
<1>1. CASE ConnectPorts
  <2>1. PortsOf(plan) \in [Capabilities -> Seq(Instances)]
    BY PortsType, PlanAssumption
  <2>. QED BY <1>1, <2>1 DEF ConnectPorts, Capabilities
<1>2. ASSUME NEW c \in Configs, NEW p \in Plans, Resolve(c, p)
      PROVE  TypeOK'
  BY <1>2 DEF Resolve
<1>3. CASE ConfigIsRefused \/ PortIsUnavailable \/ PlanIsRefused \/ ActivateBegins
  BY <1>3 DEF ConfigIsRefused, PortIsUnavailable, PlanIsRefused, ActivateBegins
<1>4. CASE SecretResolves \/ ActivateFails
  BY <1>4 DEF SecretResolves, ActivateFails
<1>5. CASE PostgresIsPrepared
  BY <1>5 DEF PostgresIsPrepared
<1>6. CASE Deactivate
  BY <1>6 DEF Deactivate
<1>7. CASE PoolCloses
  BY <1>7 DEF PoolCloses
<1>8. CASE Crash
  BY <1>8 DEF Crash
<1>9. ASSUME NEW s \in Slots, Invocation(s)
      PROVE  TypeOK'
  BY <1>9 DEF Invocation, Begin, TakePrepared, NotPrepared, Query, QueryFails, Answered, Ends
<1>10. CASE UNCHANGED vars
  BY <1>10 DEF vars
<1>. QED BY <1>1, <1>2, <1>3, <1>4, <1>5, <1>6, <1>7, <1>8, <1>9, <1>10 DEF Next

(* Every variable of the Plugin's lifecycle has its type; above all, the   *)
(* state cell of an incarnation is Some exactly while it is the current    *)
(* one and active, across failed activations, crashes and re-resolution.   *)
THEOREM TypeCorrect == Spec => []TypeOK
BY TypeInit, TypeStep, PTL DEF Spec

-----------------------------------------------------------------------------
(* What the pools tell of the stage *)

Pools ==
  /\ \A n \in Incarnations : n > current => pool[n] = "unopened"
  /\ \A n \in Incarnations : n < current => pool[n] \in {"unopened", "closed"}
  /\ stage \in {"resolved", "connected", "resolving secret", "preparing"} =>
       pool[current] = "unopened"
  /\ stage = "active" => pool[current] = "open"
  /\ stage = "closing" => pool[current] = "closing"
  /\ stage = "down" => pool[current] \in {"unopened", "closed"}

(* A clone of the pool outlives the cell; a statement needs a connection.  *)
Connections ==
  \A s \in Slots :
    /\ at[s] = "statement" => pool[of[s]] \in {"open", "closing"}
    /\ at[s] = "holding" => pool[of[s]] # "unopened"

(* How far the checks have been made. *)
Checked ==
  /\ stage \in {"connected", "resolving secret", "preparing", "active", "closing"} =>
       validate(config) /\ ports[current] = PortsOf(plan)
  /\ stage \in {"resolving secret", "preparing", "active", "closing"} =>
       Accepts(config, ports[current])

Sound(p) ==
  /\ p["source"] # << >> /\ p["participant"] # << >>
  /\ \A c \in DOMAIN p :
       Len(p[c]) <= PortLimit /\ IsInjective(p[c]) /\ Range(p[c]) \subseteq ValidNames

(* A pool was only ever opened over ports that had passed the checks. *)
Served ==
  \A n \in Incarnations : pool[n] # "unopened" =>
    /\ Sound(ports[n])
    /\ n = current => ports[n] = PortsOf(plan) /\ WithinLimits(config, ports[n])

Inv == TypeOK /\ Pools /\ Connections /\ Checked /\ Served

LEMMA AcceptedIsSound ==
  ASSUME NEW c, NEW p \in [Capabilities -> Seq(Instances)], validate(c), Accepts(c, p)
  PROVE  Sound(p) /\ WithinLimits(c, p)
<1>1. c.max_sources \in 1..PortLimit /\ c.max_guards \in 0..PortLimit /\ c.max_participants \in 1..PortLimit
  BY Zenon DEF validate, PortLimitsValid
<1>2. /\ Len(p["source"]) \in 1..c.max_sources
      /\ Len(p["guard"]) <= c.max_guards
      /\ Len(p["participant"]) \in 1..c.max_participants
  BY DEF Accepts
<1>3. \A k \in Capabilities : p[k] \in Seq(Instances) /\ Len(p[k]) \in Nat
  OBVIOUS
<1>4. p["source"] # << >> /\ p["participant"] # << >>
  BY <1>1, <1>2
<1>5. \A k \in Capabilities : Len(p[k]) <= PortLimit
  <2>1. \A max \in 1..PortLimit : \A n \in 1..max : n <= PortLimit
    BY LimitAssumption
  <2>2. \A max \in 0..PortLimit : \A n \in Nat : n <= max => n <= PortLimit
    BY LimitAssumption
  <2>3. Len(p["source"]) <= PortLimit /\ Len(p["participant"]) <= PortLimit
    BY <1>1, <1>2, <2>1, Zenon
  <2>4. Len(p["guard"]) <= PortLimit
    <3>1. Len(p["guard"]) \in Nat
      BY <1>3 DEF Capabilities
    <3>. QED BY <1>1, <1>2, <2>2, <3>1, Zenon
  <2>. QED BY <2>3, <2>4 DEF Capabilities
<1>6. \A k \in DOMAIN p : IsInjective(p[k]) /\ Range(p[k]) \subseteq ValidNames
  BY DEF Accepts, Keys
<1>7. WithinLimits(c, p)
  <2>1. \A max \in 1..PortLimit : \A n \in 1..max : n <= max
    BY LimitAssumption
  <2>2. Len(p["source"]) <= c.max_sources /\ Len(p["participant"]) <= c.max_participants
    BY <1>1, <1>2, <2>1, Zenon
  <2>. QED BY <1>2, <2>2 DEF WithinLimits
<1>. QED BY <1>4, <1>5, <1>6, <1>7 DEF Sound

LEMMA InvInit == Init => Inv
<1>. SUFFICES ASSUME Init PROVE Inv
  OBVIOUS
<1>1. Pools /\ Connections /\ Checked /\ Served
  BY TypeInit DEF Init, TypeOK, Pools, Connections, Checked, Served
<1>. QED BY <1>1, TypeInit DEF Inv

LEMMA InvocationKeeps ==
  ASSUME Inv, NEW s \in Slots, Invocation(s)
  PROVE  Pools' /\ Connections' /\ Checked' /\ Served'
<1>1. UNCHANGED <<config, plan, current, ports, stage, pool>>
  BY DEF Invocation, Begin, TakePrepared, NotPrepared, Query, QueryFails, Answered, Ends, instance
<1>2. Connections'
  BY DEF Inv, TypeOK, Pools, Connections, Invocation, Begin, TakePrepared, NotPrepared, Query,
         QueryFails, Answered, Ends, instance
<1>. QED BY <1>1, <1>2 DEF Inv, Pools, Checked, Served

LEMMA OtherIncarnation ==
  ASSUME NEW m \in Incarnations
  PROVE  \A n \in Incarnations : n > m \/ n < m => n # m
BY DEF Incarnations

LEMMA InvStep ==
  ASSUME Inv, [Next]_vars
  PROVE  Inv'
<1>0. TypeOK'
  BY TypeStep DEF Inv
<1>. SUFFICES Pools' /\ Connections' /\ Checked' /\ Served'
  BY <1>0 DEF Inv
<1>. USE DEF Inv, TypeOK, Pools, Connections, Checked, Served, instance, invocations
<1>1. ASSUME NEW c \in Configs, NEW p \in Plans, Resolve(c, p)
      PROVE  Pools' /\ Connections' /\ Checked' /\ Served'
  BY <1>1 DEF Resolve, Incarnations
<1>2. CASE ConfigIsRefused \/ PortIsUnavailable \/ PlanIsRefused
  <2>1. stage \in {"resolved", "connected"} /\ stage' = "down"
    BY <1>2 DEF ConfigIsRefused, PortIsUnavailable, PlanIsRefused
  <2>2. UNCHANGED <<config, plan, current, ports, prepared, pool, at, of>>
    BY <1>2 DEF ConfigIsRefused, PortIsUnavailable, PlanIsRefused
  <2>. QED BY <2>1, <2>2
<1>3. CASE ConnectPorts
  BY <1>3 DEF ConnectPorts
<1>4. CASE ActivateBegins \/ SecretResolves \/ ActivateFails
  <2>1. /\ UNCHANGED <<config, plan, current, ports, prepared, pool, at, of>>
        /\ \/ stage = "connected" /\ stage' = "resolving secret" /\ Accepts(config, ports[current])
           \/ stage = "resolving secret" /\ stage' = "preparing"
           \/ stage \in {"resolving secret", "preparing"} /\ stage' = "down"
    BY <1>4 DEF ActivateBegins, SecretResolves, ActivateFails
  <2>. QED BY <2>1
<1>5. CASE PostgresIsPrepared
  <2>1. ports[current] \in [Capabilities -> Seq(Instances)]
    BY DEF Capabilities
  <2>2. validate(config) /\ Accepts(config, ports[current])
    BY <1>5 DEF PostgresIsPrepared
  <2>3. Sound(ports[current]) /\ WithinLimits(config, ports[current])
    BY <2>1, <2>2, AcceptedIsSound
  <2>4. Pools'
    <3>1. /\ current' = current /\ stage' = "active" /\ current \in Incarnations
          /\ pool' = [pool EXCEPT ![current] = "open"]
      BY <1>5 DEF PostgresIsPrepared
    <3>2. pool'[current] = "open" /\ \A n \in Incarnations : n # current => pool'[n] = pool[n]
      BY <3>1
    <3>3. \A n \in Incarnations : n > current \/ n < current => n # current
      BY <3>1, OtherIncarnation
    <3>. QED BY <3>1, <3>2, <3>3
  <2>5. Connections'
    BY <1>5 DEF PostgresIsPrepared
  <2>6. Checked'
    BY <1>5 DEF PostgresIsPrepared
  <2>7. Served'
    BY <1>5, <2>3 DEF PostgresIsPrepared
  <2>. QED BY <2>4, <2>5, <2>6, <2>7
<1>6. CASE Deactivate
  BY <1>6 DEF Deactivate
<1>7. CASE PoolCloses
  BY <1>7 DEF PoolCloses
<1>8. CASE Crash
  BY <1>8 DEF Crash
<1>9. ASSUME NEW s \in Slots, Invocation(s)
      PROVE  Pools' /\ Connections' /\ Checked' /\ Served'
  BY <1>9, InvocationKeeps
<1>10. CASE UNCHANGED vars
  BY <1>10 DEF vars
<1>. QED BY <1>1, <1>2, <1>3, <1>4, <1>5, <1>6, <1>7, <1>8, <1>9, <1>10 DEF Next

(* Ports are connected once in an incarnation, before anything uses them.  *)
Unconnected ==
  \A n \in Incarnations :
    n > current \/ (n = current /\ stage = "resolved") => ports[n] = NoPorts

LEMMA PortsConnectOnce ==
  ASSUME TypeOK, Unconnected, [Next]_vars
  PROVE  /\ Unconnected'
         /\ \A n \in Incarnations : ports[n] # NoPorts => ports'[n] = ports[n]
<1>. USE DEF TypeOK, Unconnected, instance
<1>1. CASE ConnectPorts
  <2>1. \A n \in Incarnations : n > current => n # current
    BY OtherIncarnation
  <2>. QED BY <1>1, <2>1 DEF ConnectPorts
<1>2. ASSUME NEW c \in Configs, NEW p \in Plans, Resolve(c, p)
      PROVE  /\ Unconnected'
             /\ \A n \in Incarnations : ports[n] # NoPorts => ports'[n] = ports[n]
  <2>1. \A n \in Incarnations : n >= current + 1 => n > current
    BY DEF Incarnations
  <2>2. \A n \in Incarnations : n > current + 1 \/ n = current + 1 => n >= current + 1
    BY DEF Incarnations
  <2>. QED BY <1>2, <2>1, <2>2 DEF Resolve
<1>3. CASE UNCHANGED <<current, ports>> /\ stage' # "resolved"
  BY <1>3
<1>4. CASE UNCHANGED <<current, ports, stage>>
  BY <1>4
<1>5. ASSUME NEW s \in Slots, Invocation(s)
      PROVE  UNCHANGED <<current, ports, stage>>
  BY <1>5
  DEF Invocation, Begin, TakePrepared, NotPrepared, Query, QueryFails, Answered, Ends
<1>. QED
  BY <1>1, <1>2, <1>3, <1>4, <1>5
  DEF Next, ConfigIsRefused, PortIsUnavailable, PlanIsRefused, ActivateBegins, SecretResolves,
      PostgresIsPrepared, ActivateFails, Deactivate, PoolCloses, Crash, vars

(* A pool that began to close never opens again. *)
LEMMA PoolsStayClosed ==
  ASSUME Inv, [Next]_vars, NEW n \in Incarnations, pool[n] \in {"closing", "closed"}
  PROVE  pool'[n] \in {"closing", "closed"}
<1>. USE DEF Inv, TypeOK, Pools
<1>1. CASE PostgresIsPrepared
  BY <1>1 DEF PostgresIsPrepared
<1>2. CASE Deactivate \/ PoolCloses \/ Crash
  BY <1>2 DEF Deactivate, PoolCloses, Crash
<1>3. ASSUME NEW s \in Slots, Invocation(s)
      PROVE  UNCHANGED pool
  BY <1>3
  DEF Invocation, Begin, TakePrepared, NotPrepared, Query, QueryFails, Answered, Ends
<1>. QED
  BY <1>1, <1>2, <1>3
  DEF Next, ConfigIsRefused, PortIsUnavailable, ConnectPorts, PlanIsRefused, ActivateBegins,
      SecretResolves, ActivateFails, Resolve, vars

THEOREM InvAlways == Spec => []Inv
BY InvInit, InvStep, PTL DEF Spec

(* No invocation ever has the database over ports that the checks of       *)
(* activation would refuse; of the current incarnation they are within the *)
(* configured limits and exactly those bound to each capability, in Plan   *)
(* order: for Plans of any length, and for clones of the pool that outlive *)
(* the deactivation of their incarnation.                                  *)
THEOREM ServesOnlySoundPlans == Spec => []SoundPlanServes
<1>1. ASSUME Inv
      PROVE  SoundPlanServes
  <2>. SUFFICES ASSUME NEW s \in Slots, at[s] \in {"holding", "statement"}
                PROVE  /\ Sound(ports[of[s]])
                       /\ of[s] = current =>
                            /\ WithinLimits(config, ports[of[s]])
                            /\ \A c \in DOMAIN ports[of[s]] : InPlanOrder(ports[of[s]][c], c)
    BY DEF SoundPlanServes, Sound
  <2>1. /\ of[s] \in Incarnations /\ pool[of[s]] # "unopened"
        /\ ports[of[s]] \in [Capabilities -> Seq(Instances)] /\ plan \in Seq(Bindings)
    BY <1>1, PlanAssumption DEF Inv, TypeOK, Connections, Capabilities
  <2>2. /\ Sound(ports[of[s]])
        /\ of[s] = current =>
             ports[of[s]] = PortsOf(plan) /\ WithinLimits(config, ports[of[s]])
    BY <1>1, <2>1 DEF Inv, Served
  <2>3. PortsOfPlan(PortsOf(plan), plan)
    BY <2>1, PortsType
  <2>4. ASSUME NEW c \in Capabilities
        PROVE  InPlanOrder(PortsOf(plan)[c], c)
    <3>1. DOMAIN plan = 1..Len(plan) /\ Len(plan) \in Nat
      BY <2>1
    <3>2. Providing(c) = BoundIn(plan, c, Len(plan))
      BY <3>1 DEF Providing, BoundIn
    <3>3. \A i \in Providing(c) : {j \in Providing(c) : j <= i} = BoundIn(plan, c, i)
      BY <3>1 DEF Providing, BoundIn
    <3>. QED BY <2>3, <3>2, <3>3 DEF PortsOfPlan, InPlanOrder
  <2>. QED BY <2>1, <2>2, <2>4
<1>. QED BY <1>1, InvAlways, PTL

(* After a deactivation has returned, an activation has failed or the      *)
(* process has died, no statement of that incarnation runs and no pool of  *)
(* it is open, however many invocations still hold a clone of the pool.    *)
THEOREM DownIsQuiet == Spec => []QuiescentWhenDown
<1>1. Inv => QuiescentWhenDown
  <2>. SUFFICES ASSUME Inv, NEW n \in Incarnations, n < current \/ stage = "down"
                PROVE  /\ pool[n] \in {"unopened", "closed"}
                       /\ \A s \in Slots : ~(at[s] = "statement" /\ of[s] = n)
    BY DEF QuiescentWhenDown
  <2>1. n < current \/ n = current \/ n > current
    BY DEF Inv, TypeOK, Incarnations
  <2>2. pool[n] \in {"unopened", "closed"}
    BY <2>1 DEF Inv, Pools
  <2>. QED BY <2>2 DEF Inv, Connections
<1>. QED BY <1>1, InvAlways, PTL

(* The statements that the close waits for. *)
InUse == {s \in Slots : at[s] = "statement" /\ of[s] = current}

(* From the moment deactivation begins, the statements it waits for only   *)
(* become fewer: no handler gets another connection of that pool, however  *)
(* many hold a clone of it, until none is left or the process dies         *)
(* (lib.rs:722-728).  This is what DeactivationEnds rests on; that each    *)
(* statement is answered is fairness.                                      *)
THEOREM ClosingOnlyDrains ==
  Spec => [][stage = "closing" =>
               IF stage' = "down" THEN InUse' = {}
               ELSE /\ stage' = "closing" /\ InUse' \subseteq InUse
                    /\ \A s \in InUse : Answered(s) => s \notin InUse']_vars
<1>1. ASSUME Inv, Next, stage = "closing"
      PROVE  IF stage' = "down" THEN InUse' = {}
             ELSE /\ stage' = "closing" /\ InUse' \subseteq InUse
                  /\ \A s \in InUse : Answered(s) => s \notin InUse'
  <2>. USE <1>1 DEF Inv, TypeOK, Pools, InUse
  <2>1. CASE PoolCloses
    BY <2>1 DEF PoolCloses, instance, invocations
  <2>2. CASE Crash
    BY <2>2 DEF Crash, instance
  <2>3. ASSUME NEW s \in Slots, Invocation(s)
        PROVE  stage' = "closing" /\ InUse' \subseteq InUse
    <3>1. stage' = "closing" /\ current' = current
      BY <2>3
      DEF Invocation, Begin, TakePrepared, NotPrepared, Query, QueryFails, Answered, Ends, instance
    <3>2. s \in InUse' => s \in InUse
      BY <2>3, <3>1
      DEF Invocation, Begin, TakePrepared, NotPrepared, Query, QueryFails, Answered, Ends
    <3>3. \A t \in Slots : t # s => at'[t] = at[t] /\ of'[t] = of[t]
      BY <2>3
      DEF Invocation, Begin, TakePrepared, NotPrepared, Query, QueryFails, Answered, Ends
    <3>. QED BY <3>1, <3>2, <3>3
  <2>4. ASSUME NEW s \in InUse, Answered(s)
        PROVE  s \notin InUse'
    BY <2>4 DEF Answered
  <2>5. PoolCloses \/ Crash \/ \E s \in Slots : Invocation(s)
    BY DEF Next, Resolve, ConfigIsRefused, PortIsUnavailable, ConnectPorts, PlanIsRefused,
           ActivateBegins, SecretResolves, PostgresIsPrepared, ActivateFails, Deactivate
  <2>. QED BY <2>1, <2>2, <2>3, <2>4, <2>5
<1>2. Inv /\ [Next]_vars =>
        [stage = "closing" =>
           IF stage' = "down" THEN InUse' = {}
           ELSE /\ stage' = "closing" /\ InUse' \subseteq InUse
                /\ \A s \in InUse : Answered(s) => s \notin InUse']_vars
  BY <1>1
<1>. QED BY <1>2, InvAlways, PTL DEF Spec
=============================================================================
