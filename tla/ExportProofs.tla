----------------------------- MODULE ExportProofs -----------------------------
(***************************************************************************)
(* Theorems about ExportCoordinator, for every value of its constants: the *)
(* sums of the byte counts, and the types.                                 *)
(***************************************************************************)
EXTENDS ExportCoordinator, Induction

-----------------------------------------------------------------------------
(* SumOf: the running sums exist, and are what the recursion says. *)

Sums(f, w, k) == f = [n \in 0..k |-> IF n = 0 THEN 0 ELSE f[n - 1] + w[n]]

LEMMA SumsExist ==
  ASSUME NEW w \in Seq(Nat), NEW k \in 0..Len(w)
  PROVE  \E f : Sums(f, w, k)
<1>. DEFINE S == {n \in Nat : n <= Len(w) => \E f : Sums(f, w, n)}
<1>1. 0 \in S
  <2>1. Sums([n \in 0..0 |-> 0], w, 0)
    BY DEF Sums
  <2>. QED BY <2>1
<1>2. ASSUME NEW n \in S, n + 1 <= Len(w)
      PROVE  \E f : Sums(f, w, n + 1)
  <2>1. PICK f : Sums(f, w, n)
    BY <1>2
  <2>. DEFINE g == [m \in 0..(n + 1) |-> IF m = n + 1 THEN f[n] + w[n + 1] ELSE f[m]]
  <2>2. \A m \in 0..n : f[m] = IF m = 0 THEN 0 ELSE f[m - 1] + w[m]
    BY <2>1 DEF Sums
  <2>3. \A m \in 0..(n + 1) : g[m] = IF m = 0 THEN 0 ELSE g[m - 1] + w[m]
    BY <2>2
  <2>4. g = [m \in 0..(n + 1) |-> IF m = 0 THEN 0 ELSE g[m - 1] + w[m]]
    BY <2>3
  <2>. QED BY <2>4 DEF Sums
<1>3. \A n \in S : n + 1 \in S
  BY <1>2
<1>4. S = Nat
  <2>. HIDE DEF S
  <2>. QED BY <1>1, <1>3, NaturalInduction DEF S
<1>. QED BY <1>4

LEMMA SumsAre ==
  ASSUME NEW w \in Seq(Nat)
  PROVE  \E f : Sums(f, w, Len(w)) /\ SumOf(w) = f[Len(w)]
<1>. DEFINE f == CHOOSE g : Sums(g, w, Len(w))
<1>1. Len(w) \in 0..Len(w)
  OBVIOUS
<1>2. Sums(f, w, Len(w))
  BY <1>1, SumsExist
<1>3. SumOf(w) = f[Len(w)]
  BY DEF SumOf, Sums
<1>. QED BY <1>2, <1>3

(* The sums grow from each position to the next. *)
LEMMA SumsStep ==
  ASSUME NEW w \in Seq(Nat), NEW k \in 0..Len(w), NEW f, Sums(f, w, k)
  PROVE  /\ f[0] = 0
         /\ \A n \in 0..k : n # 0 => f[n] = f[n - 1] + w[n]
         /\ \A n \in 0..k : f[n] \in Nat
<1>1. \A n \in 0..k : f[n] = IF n = 0 THEN 0 ELSE f[n - 1] + w[n]
  BY DEF Sums
<1>. DEFINE S == {n \in Nat : n <= k => f[n] \in Nat}
<1>2. 0 \in S
  BY <1>1
<1>3. ASSUME NEW n \in S PROVE n + 1 \in S
  <2>1. n + 1 <= k => f[n] \in Nat /\ w[n + 1] \in Nat /\ f[n + 1] = f[n] + w[n + 1]
    BY <1>1
  <2>. QED BY <2>1
<1>4. S = Nat
  <2>. HIDE DEF S
  <2>. QED BY <1>2, <1>3, NaturalInduction DEF S
<1>. QED BY <1>1, <1>4

(* Sequences that agree so far have the same sums so far. *)
LEMMA SumsAgree ==
  ASSUME NEW v \in Seq(Nat), NEW w \in Seq(Nat), Len(v) <= Len(w),
         \A n \in 1..Len(v) : v[n] = w[n],
         NEW f, Sums(f, v, Len(v)), NEW g, Sums(g, w, Len(w))
  PROVE  \A n \in 0..Len(v) : f[n] = g[n]
<1>0. Len(v) \in 0..Len(v) /\ Len(w) \in 0..Len(w)
  OBVIOUS
<1>1. f[0] = 0 /\ \A n \in 0..Len(v) : n # 0 => f[n] = f[n - 1] + v[n]
  BY <1>0, SumsStep
<1>2. g[0] = 0 /\ \A n \in 0..Len(w) : n # 0 => g[n] = g[n - 1] + w[n]
  BY <1>0, SumsStep
<1>. DEFINE S == {n \in Nat : n <= Len(v) => f[n] = g[n]}
<1>3. 0 \in S
  BY <1>1, <1>2
<1>4. ASSUME NEW n \in S PROVE n + 1 \in S
  <2>1. n + 1 <= Len(v) => f[n + 1] = f[n] + v[n + 1] /\ g[n + 1] = g[n] + w[n + 1]
    BY <1>1, <1>2
  <2>. QED BY <2>1
<1>5. S = Nat
  <2>. HIDE DEF S
  <2>. QED BY <1>3, <1>4, NaturalInduction DEF S
<1>. QED BY <1>5

LEMMA SumOfType ==
  ASSUME NEW w \in Seq(Nat)
  PROVE  SumOf(w) \in Nat
<1>1. PICK f : Sums(f, w, Len(w)) /\ SumOf(w) = f[Len(w)]
  BY SumsAre
<1>2. Len(w) \in 0..Len(w)
  OBVIOUS
<1>. QED BY <1>1, <1>2, SumsStep

LEMMA SumOfNone ==
  ASSUME NEW w \in Seq(Nat), Len(w) = 0
  PROVE  SumOf(w) = 0
<1>1. PICK f : Sums(f, w, Len(w)) /\ SumOf(w) = f[Len(w)]
  BY SumsAre
<1>2. Len(w) \in 0..Len(w)
  OBVIOUS
<1>. QED BY <1>1, <1>2, SumsStep

(* One more number adds that number. *)
LEMMA SumOfOneMore ==
  ASSUME NEW v \in Seq(Nat), NEW w \in Seq(Nat), Len(w) = Len(v) + 1,
         \A n \in 1..Len(v) : v[n] = w[n]
  PROVE  SumOf(w) = SumOf(v) + w[Len(w)]
<1>1. PICK f : Sums(f, v, Len(v)) /\ SumOf(v) = f[Len(v)]
  BY SumsAre
<1>2. PICK g : Sums(g, w, Len(w)) /\ SumOf(w) = g[Len(w)]
  BY SumsAre
<1>3. g[Len(w)] = g[Len(v)] + w[Len(w)]
  <2>1. Len(w) \in 0..Len(w) /\ Len(w) # 0 /\ Len(w) - 1 = Len(v)
    OBVIOUS
  <2>. QED BY <1>2, <2>1, SumsStep
<1>4. f[Len(v)] = g[Len(v)]
  BY <1>1, <1>2, SumsAgree
<1>. QED BY <1>1, <1>2, <1>3, <1>4

(* A longer sequence has no smaller sum. *)
LEMMA SumOfPrefix ==
  ASSUME NEW v \in Seq(Nat), NEW w \in Seq(Nat), Len(v) <= Len(w),
         \A n \in 1..Len(v) : v[n] = w[n]
  PROVE  SumOf(v) <= SumOf(w)
<1>1. PICK f : Sums(f, v, Len(v)) /\ SumOf(v) = f[Len(v)]
  BY SumsAre
<1>2. PICK g : Sums(g, w, Len(w)) /\ SumOf(w) = g[Len(w)]
  BY SumsAre
<1>3. f[Len(v)] = g[Len(v)]
  BY <1>1, <1>2, SumsAgree
<1>4. /\ \A n \in 0..Len(w) : n # 0 => g[n] = g[n - 1] + w[n]
      /\ \A n \in 0..Len(w) : g[n] \in Nat
  <2>1. Len(w) \in 0..Len(w)
    OBVIOUS
  <2>. QED BY <1>2, <2>1, SumsStep
<1>. DEFINE S == {n \in Nat : Len(v) + n <= Len(w) => g[Len(v)] <= g[Len(v) + n]}
<1>5. 0 \in S
  BY <1>4
<1>6. ASSUME NEW n \in S PROVE n + 1 \in S
  <2>1. Len(v) + n + 1 <= Len(w) =>
          /\ g[Len(v) + n + 1] = g[Len(v) + n] + w[Len(v) + n + 1]
          /\ w[Len(v) + n + 1] \in Nat
          /\ g[Len(v)] \in Nat /\ g[Len(v) + n] \in Nat
    BY <1>4
  <2>. QED BY <2>1
<1>7. S = Nat
  <2>. HIDE DEF S
  <2>. QED BY <1>5, <1>6, NaturalInduction DEF S
<1>8. Len(w) - Len(v) \in S
  <2>. HIDE DEF S
  <2>. QED BY <1>7
<1>. QED BY <1>1, <1>2, <1>3, <1>8

-----------------------------------------------------------------------------
(* Lemmas about the data *)

LEMMA PlanType ==
  ASSUME NEW p \in Plans
  PROVE  /\ p \in Seq(Sources) /\ Len(p) \in Nat \ {0}
         /\ \A i \in 1..Len(p) : p[i] \in Sources
         /\ \A i, j \in 1..Len(p) : p[i] = p[j] => i = j
<1>1. p \in Seq(Sources) /\ p # << >> /\ IsInjective(p)
  BY SourcePlanAssumption
<1>2. DOMAIN p = 1..Len(p) /\ Len(p) \in Nat
  BY <1>1
<1>3. Len(p) # 0
  BY <1>1
<1>. QED BY <1>1, <1>2, <1>3 DEF IsInjective

LEMMA ItemType ==
  ASSUME NEW i \in Items
  PROVE  i.bytes \in Nat /\ i.wire \in Nat /\ i.valid \in BOOLEAN
BY ItemAssumption

(* The byte counts of an artifact are a sequence of numbers. *)
LEMMA BytesType ==
  ASSUME NEW its \in Seq(StoredItems)
  PROVE  /\ [i \in DOMAIN its |-> its[i].item.bytes] \in Seq(Nat)
         /\ Len([i \in DOMAIN its |-> its[i].item.bytes]) = Len(its)
<1>1. DOMAIN its = 1..Len(its) /\ Len(its) \in Nat
  OBVIOUS
<1>2. \A i \in 1..Len(its) : its[i].item.bytes \in Nat
  <2>1. \A i \in 1..Len(its) : its[i] \in StoredItems
    BY <1>1
  <2>. QED BY <2>1, ItemType DEF StoredItems
<1>. QED BY <1>1, <1>2

LEMMA PayloadType ==
  ASSUME NEW its \in Seq(StoredItems)
  PROVE  PayloadBytes(its) \in Nat
BY BytesType, SumOfType DEF PayloadBytes

LEMMA SerializedType ==
  ASSUME NEW its \in Seq(StoredItems)
  PROVE  SerializedBytes(its) \in Nat
<1>. DEFINE w == [i \in DOMAIN its |-> its[i].item.wire]
<1>1. DOMAIN its = 1..Len(its) /\ Len(its) \in Nat
  OBVIOUS
<1>2. \A i \in 1..Len(its) : its[i].item.wire \in Nat
  <2>1. \A i \in 1..Len(its) : its[i] \in StoredItems
    BY <1>1
  <2>. QED BY <2>1, ItemType DEF StoredItems
<1>3. w \in Seq(Nat)
  BY <1>1, <1>2
<1>4. SumOf(w) \in Nat
  <2>. HIDE DEF w
  <2>. QED BY <1>3, SumOfType
<1>5. its # << >> => Len(its) - 1 \in Nat
  BY <1>1
<1>. QED BY <1>4, <1>5 DEF SerializedBytes

LEMMA PayloadOfNone == PayloadBytes(<< >>) = 0
<1>1. << >> \in Seq(StoredItems) /\ Len(<< >>) = 0
  OBVIOUS
<1>. QED BY <1>1, BytesType, SumOfNone DEF PayloadBytes

(* `total_bytes += item.bytes` keeps total_bytes the payload's size. *)
LEMMA PayloadOfOneMore ==
  ASSUME NEW its \in Seq(StoredItems), NEW x \in StoredItems
  PROVE  PayloadBytes(Append(its, x)) = PayloadBytes(its) + x.item.bytes
<1>. DEFINE more == Append(its, x)
            v == [i \in DOMAIN its |-> its[i].item.bytes]
            w == [i \in DOMAIN more |-> more[i].item.bytes]
<1>1. /\ more \in Seq(StoredItems) /\ Len(more) = Len(its) + 1
      /\ more[Len(more)] = x /\ \A i \in 1..Len(its) : more[i] = its[i]
      /\ DOMAIN more = 1..Len(more) /\ DOMAIN its = 1..Len(its)
  OBVIOUS
<1>2. v \in Seq(Nat) /\ Len(v) = Len(its) /\ w \in Seq(Nat) /\ Len(w) = Len(more)
  BY <1>1, BytesType
<1>3. \A i \in 1..Len(v) : v[i] = w[i]
  BY <1>1, <1>2
<1>4. w[Len(w)] = x.item.bytes
  BY <1>1, <1>2
<1>5. SumOf(w) = SumOf(v) + w[Len(w)]
  <2>. HIDE DEF v, w, more
  <2>. QED BY <1>1, <1>2, <1>3, SumOfOneMore
<1>. QED BY <1>4, <1>5 DEF PayloadBytes

(* What is collected later does not make the payload smaller. *)
LEMMA PayloadOfMore ==
  ASSUME NEW its \in Seq(StoredItems), NEW more \in Seq(StoredItems), Len(its) <= Len(more),
         \A i \in 1..Len(its) : its[i] = more[i]
  PROVE  PayloadBytes(its) <= PayloadBytes(more)
<1>. DEFINE v == [i \in DOMAIN its |-> its[i].item.bytes]
            w == [i \in DOMAIN more |-> more[i].item.bytes]
<1>1. v \in Seq(Nat) /\ Len(v) = Len(its) /\ w \in Seq(Nat) /\ Len(w) = Len(more)
  BY BytesType
<1>2. \A i \in 1..Len(v) : v[i] = w[i]
  BY <1>1
<1>3. SumOf(v) <= SumOf(w)
  <2>. HIDE DEF v, w
  <2>. QED BY <1>1, <1>2, SumOfPrefix
<1>. QED BY <1>3 DEF PayloadBytes

-----------------------------------------------------------------------------
(* The locals of an invocation agree with the await point it has reached.  *)

Collecting == {"source", "items", "insert"}
Creating == Collecting \cup {"lookup", "reload"}

(* Nothing has been collected yet. *)
Fresh(s) ==
  /\ source[s] = 1 /\ inbox[s] = << >> /\ items[s] = << >> /\ total[s] = 0
  /\ heard[s] = << >> /\ sent[s] = << >>

Placed ==
  \A s \in Slots :
    /\ pc[s] # "idle" => req[s] \in Requests /\ req[s].caller \in ExportCallers
    /\ pc[s] \in Creating =>
         /\ req[s].op = "create" /\ req[s].target \in Targets
         /\ plan[s] \in Plans /\ source[s] <= Len(plan[s])
    /\ pc[s] \in {"read", "purge"} => req[s].op = pc[s]
    /\ pc[s] = "insert" => source[s] = Len(plan[s])
    /\ pc[s] \notin Collecting \cup {"reload"} => Fresh(s)

Bodies == Summaries \cup Artifacts \cup {Nothing}

LEMMA RowType ==
  ASSUME NEW row \in Rows
  PROVE  /\ row.owner \in ExportCallers /\ row.target \in Targets
         /\ row.items \in Seq(StoredItems)
         /\ row # NoExport
         /\ Summary(row) \in Summaries /\ Artifact(row) \in Artifacts
<1>1. row.items \in Seq(StoredItems) /\ Len(row.items) \in Nat
  BY DEF Rows
<1>. QED BY <1>1, NoExportAssumption DEF Rows, Summary, Summaries, Artifact, Artifacts

LEMMA NewRowType ==
  ASSUME TypeOK, Placed, NEW s \in Slots, pc[s] = "insert"
  PROVE  NewRow(s) \in Rows /\ req[s].export \in Exports
<1>1. /\ req[s].caller \in ExportCallers /\ req[s].target \in Targets
      /\ req[s].export \in Exports
      /\ plan[s] \in Plans /\ items[s] \in Seq(StoredItems) /\ total[s] \in Nat
  BY DEF TypeOK, Placed, Requests, Creating, Collecting
<1>2. Len(plan[s]) \in Nat
  BY <1>1, PlanType
<1>. QED BY <1>1, <1>2 DEF NewRow, Rows

LEMMA SayType ==
  ASSUME NEW r \in Requests, NEW body \in Bodies,
         NEW kind \in Refusals \cup {"failed", "created", "existing", "artifact", "purged",
                                     "unchanged"},
         Say(kind, r, body)
  PROVE  reply' \in Replies \cup {NoReply}
BY DEF Say, Replies, Bodies

LEMMA FinishKeepsTypes ==
  ASSUME TypeOK, Placed, NEW s \in Slots, pc[s] # "idle", NEW body \in Bodies,
         NEW kind \in Refusals \cup {"failed", "created", "existing", "artifact", "purged",
                                     "unchanged"},
         kind \in {"created", "existing"} => body \in Summaries,
         Finish(s, kind, body), UNCHANGED <<bound, purges>>,
         exports' \in [Exports -> Rows \cup {NoExport}],
         lateInserts' \subseteq Exports \X Rows,
         lateDeletes' \subseteq Exports \X ExportCallers
  PROVE  TypeOK' /\ Placed'
<1>1. req[s] \in Requests /\ req[s].export \in Exports /\ req[s].caller \in ExportCallers
  BY DEF Placed, Requests
<1>2. reply' \in Replies \cup {NoReply}
  BY <1>1, SayType DEF Finish
<1>3. told' \subseteq [export : Exports, owner : ExportCallers, summary : Summaries]
  BY <1>1 DEF Finish, TypeOK
<1>4. gone' \subseteq Exports \X ExportCallers
  BY <1>1 DEF Finish, TypeOK
<1>5. /\ pc' \in [Slots -> {"idle", "lookup", "source", "items", "insert", "reload", "read",
                             "purge"}]
      /\ req' \in [Slots -> Requests \cup {NoRequest}]
      /\ plan' \in [Slots -> Plans \cup {NoPlan}]
      /\ source' \in [Slots -> Nat \ {0}]
      /\ inbox' \in [Slots -> Seq(Items)]
      /\ items' \in [Slots -> Seq(StoredItems)]
      /\ total' \in [Slots -> Nat]
      /\ heard' \in [Slots -> Seq(Sources)]
      /\ sent' \in [Slots -> Seq(StoredItems)]
  BY DEF Finish, TypeOK
<1>6. TypeOK'
  BY <1>2, <1>3, <1>4, <1>5 DEF TypeOK
<1>7. Placed'
  BY DEF TypeOK, Placed, Fresh, Creating, Collecting, Finish
<1>. QED BY <1>6, <1>7

-----------------------------------------------------------------------------
(* Types and places are inductive *)

LEMMA PlacedInit == Init => TypeOK /\ Placed
<1>. SUFFICES ASSUME Init PROVE TypeOK /\ Placed
  OBVIOUS
<1>1. TypeOK
  BY DEF Init, TypeOK
<1>2. Placed
  BY DEF Init, Placed, Fresh, Creating, Collecting
<1>. QED BY <1>1, <1>2

LEMMA RefuseKeepsTypes ==
  ASSUME TypeOK, Placed, NEW r \in Requests, NEW w \in BOOLEAN, Refuse(r, w),
         UNCHANGED <<exports, late, bound, collect>>
  PROVE  TypeOK' /\ Placed'
<1>1. reply' \in Replies \cup {NoReply}
  BY SayType DEF Refuse, Refusals, Bodies
<1>2. TypeOK'
  BY <1>1 DEF TypeOK, Refuse, late, collect
<1>3. Placed'
  BY DEF Placed, Fresh, Refuse, collect
<1>. QED BY <1>2, <1>3

(* Starting an invocation. *)
Starts(s, c, e, w) ==
  \/ \E t \in Targets : StartCreate(s, c, e, t, w)
  \/ StartRead(s, c, e, w)
  \/ StartPurge(s, c, e, w)

LEMMA StartKeepsTypes ==
  ASSUME TypeOK, Placed, NEW s \in Slots, NEW c \in Callers, NEW e \in Exports,
         NEW w \in BOOLEAN, Starts(s, c, e, w)
  PROVE  TypeOK' /\ Placed'
<1>0. Fresh(s) \/ pc[s] # "idle"
  BY DEF Placed, Collecting
<1>1. ASSUME NEW t \in Targets, StartCreate(s, c, e, t, w)
      PROVE  TypeOK' /\ Placed'
  <2>. DEFINE r == [op |-> "create", caller |-> c, export |-> e, target |-> t]
  <2>1. r \in Requests /\ r.target \in Targets
    BY DEF Requests
  <2>2. CASE Refuse(r, w)
    BY <1>1, <2>1, <2>2, RefuseKeepsTypes DEF StartCreate
  <2>3. CASE Admit(s, r, w, "lookup") /\ plan' = [plan EXCEPT ![s] = bound] /\ UNCHANGED purges
    <3>1. TypeOK'
      BY <1>1, <2>1, <2>3 DEF TypeOK, StartCreate, Admit, Enter, late, collect
    <3>2. bound \in Plans /\ 1 <= Len(bound)
      BY PlanType DEF TypeOK
    <3>3. Placed'
      BY <1>0, <1>1, <2>1, <2>3, <3>2
      DEF TypeOK, Placed, Fresh, Creating, Collecting, StartCreate, Admit, Enter, late, collect
    <3>. QED BY <3>1, <3>3
  <2>. QED BY <1>1, <2>2, <2>3 DEF StartCreate
<1>2. ASSUME StartRead(s, c, e, w)
      PROVE  TypeOK' /\ Placed'
  <2>. DEFINE r == [op |-> "read", caller |-> c, export |-> e, target |-> NoTarget]
  <2>1. r \in Requests
    BY DEF Requests
  <2>2. CASE Refuse(r, w)
    BY <1>2, <2>1, <2>2, RefuseKeepsTypes DEF StartRead
  <2>3. CASE Admit(s, r, w, "read") /\ UNCHANGED <<plan, purges>>
    <3>1. TypeOK'
      BY <1>2, <2>1, <2>3 DEF TypeOK, StartRead, Admit, Enter, late, collect
    <3>2. Placed'
      BY <1>0, <1>2, <2>1, <2>3
      DEF TypeOK, Placed, Fresh, Creating, Collecting, StartRead, Admit, Enter, late, collect
    <3>. QED BY <3>1, <3>2
  <2>. QED BY <1>2, <2>2, <2>3 DEF StartRead
<1>3. ASSUME StartPurge(s, c, e, w)
      PROVE  TypeOK' /\ Placed'
  <2>. DEFINE r == [op |-> "purge", caller |-> c, export |-> e, target |-> NoTarget]
  <2>1. r \in Requests
    BY DEF Requests
  <2>2. CASE Refuse(r, w)
    BY <1>3, <2>1, <2>2, RefuseKeepsTypes DEF StartPurge
  <2>3. CASE /\ Admit(s, r, w, "purge")
             /\ purges' = purges \cup {<<e, c>>}
             /\ UNCHANGED plan
    <3>1. c \in ExportCallers
      BY <2>3 DEF Admit
    <3>2. TypeOK'
      BY <1>3, <2>1, <2>3, <3>1 DEF TypeOK, StartPurge, Admit, Enter, late, collect
    <3>3. Placed'
      BY <1>0, <1>3, <2>1, <2>3
      DEF TypeOK, Placed, Fresh, Creating, Collecting, StartPurge, Admit, Enter, late, collect
    <3>. QED BY <3>2, <3>3
  <2>. QED BY <1>3, <2>2, <2>3 DEF StartPurge
<1>. QED BY <1>1, <1>2, <1>3 DEF Starts

(* The steps by which an invocation ends. *)
Ends(s) ==
  \/ AnswerExisting(s)
  \/ AnswerConflict(s)
  \/ ReloadFindsNothing(s)
  \/ SourceRejects(s)
  \/ ItemTooLarge(s)
  \/ ItemIsMalformed(s)
  \/ ArtifactTooLarge(s)
  \/ InsertWins(s)
  \/ ReadArtifact(s)
  \/ PurgeArtifact(s)
  \/ Fail(s)
  \/ FailInFlight(s)

(* The row an invocation looks at. *)
LEMMA LookType ==
  ASSUME TypeOK, Placed, NEW s \in Slots, pc[s] # "idle"
  PROVE  /\ req[s].export \in Exports
         /\ Row(s) = exports[req[s].export]
         /\ Row(s) \in Rows \cup {NoExport}
         /\ Row(s) # NoExport =>
              Row(s) \in Rows /\ Summary(Row(s)) \in Summaries /\ Artifact(Row(s)) \in Artifacts
BY RowType DEF TypeOK, Placed, Requests, Row

LEMMA EndKeepsTypes ==
  ASSUME TypeOK, Placed, NEW s \in Slots, Ends(s)
  PROVE  TypeOK' /\ Placed'
<1>. USE DEF Refusals, Bodies
<1>1. /\ exports \in [Exports -> Rows \cup {NoExport}]
      /\ lateInserts \subseteq Exports \X Rows
      /\ lateDeletes \subseteq Exports \X ExportCallers
  BY DEF TypeOK
<1>2. CASE AnswerExisting(s)
  <2>1. Summary(Row(s)) \in Summaries
    BY <1>2, LookType DEF AnswerExisting
  <2>. QED BY <1>1, <1>2, <2>1, FinishKeepsTypes DEF AnswerExisting, late
<1>3. CASE AnswerConflict(s)
  BY <1>1, <1>3, FinishKeepsTypes DEF AnswerConflict, late
<1>4. CASE ReloadFindsNothing(s)
  BY <1>1, <1>4, FinishKeepsTypes DEF ReloadFindsNothing, late
<1>5. CASE SourceRejects(s)
  BY <1>1, <1>5, FinishKeepsTypes DEF SourceRejects, late
<1>6. CASE ItemTooLarge(s)
  BY <1>1, <1>6, FinishKeepsTypes DEF ItemTooLarge, late
<1>7. CASE ItemIsMalformed(s)
  BY <1>1, <1>7, FinishKeepsTypes DEF ItemIsMalformed, late
<1>8. CASE ArtifactTooLarge(s)
  BY <1>1, <1>8, FinishKeepsTypes DEF ArtifactTooLarge, late
<1>9. CASE InsertWins(s)
  <2>1. pc[s] = "insert" /\ NewRow(s) \in Rows
    BY <1>9, NewRowType DEF InsertWins
  <2>2. Summary(NewRow(s)) \in Summaries
    BY <2>1, RowType
  <2>3. exports' \in [Exports -> Rows \cup {NoExport}]
    BY <1>1, <1>9, <2>1 DEF InsertWins, StoreIn, InsertExport
  <2>. QED BY <1>1, <1>9, <2>1, <2>2, <2>3, FinishKeepsTypes DEF InsertWins, late
<1>10. CASE ReadArtifact(s)
  <2>1. OwnedBy(Row(s), req[s].caller) => Artifact(Row(s)) \in Artifacts
    BY <1>10, LookType DEF ReadArtifact, OwnedBy
  <2>. QED BY <1>1, <1>10, <2>1, FinishKeepsTypes DEF ReadArtifact, late
<1>11. CASE PurgeArtifact(s)
  <2>1. exports' \in [Exports -> Rows \cup {NoExport}]
    BY <1>1, <1>11 DEF PurgeArtifact, DeleteIn
  <2>. QED BY <1>1, <1>11, <2>1, FinishKeepsTypes DEF PurgeArtifact, late
<1>12. CASE Fail(s)
  BY <1>1, <1>12, FinishKeepsTypes DEF Fail, late
<1>13. CASE FailInFlight(s)
  <2>1. pc[s] # "idle" /\ pc[s] \in {"insert", "purge"}
    BY <1>13 DEF FailInFlight
  <2>2. lateInserts' \subseteq Exports \X Rows
    BY <1>1, <1>13, NewRowType DEF FailInFlight
  <2>3. req[s].export \in Exports /\ req[s].caller \in ExportCallers
    BY <2>1, LookType DEF Placed
  <2>4. lateDeletes' \subseteq Exports \X ExportCallers
    BY <1>1, <1>13, <2>3 DEF FailInFlight
  <2>. QED BY <1>1, <1>13, <2>1, <2>2, <2>4, FinishKeepsTypes DEF FailInFlight
<1>. QED BY <1>2, <1>3, <1>4, <1>5, <1>6, <1>7, <1>8, <1>9, <1>10, <1>11, <1>12, <1>13 DEF Ends

(* The steps by which an invocation moves on. *)
Moves(s) ==
  \/ LookupFindsNothing(s)
  \/ \E offer \in Offers : SourceContributes(s, offer)
  \/ KeepItem(s)
  \/ NextSource(s)
  \/ Serialize(s)
  \/ InsertLoses(s)

(* Where the loop over the sources stands. *)
LEMMA SourceType ==
  ASSUME TypeOK, Placed, NEW s \in Slots, pc[s] \in Creating
  PROVE  /\ Len(plan[s]) \in Nat /\ source[s] \in 1..Len(plan[s])
         /\ plan[s][source[s]] \in Sources
<1>1. plan[s] \in Plans /\ source[s] \in Nat \ {0} /\ source[s] <= Len(plan[s])
  BY DEF TypeOK, Placed
<1>. QED BY <1>1, PlanType

(* What the loop over the items adds to the artifact. *)
NewItem(s) == [source |-> plan[s][source[s]], item |-> Head(inbox[s])]

LEMMA NewItemType ==
  ASSUME TypeOK, Placed, NEW s \in Slots, pc[s] = "items", inbox[s] # << >>
  PROVE  /\ Head(inbox[s]) \in Items /\ Tail(inbox[s]) \in Seq(Items)
         /\ Head(inbox[s]).bytes \in Nat
         /\ NewItem(s) \in StoredItems
         /\ Append(items[s], NewItem(s)) \in Seq(StoredItems)
<1>1. inbox[s] \in Seq(Items) /\ items[s] \in Seq(StoredItems)
  BY DEF TypeOK
<1>2. Head(inbox[s]) \in Items /\ Tail(inbox[s]) \in Seq(Items)
  BY <1>1
<1>3. plan[s][source[s]] \in Sources
  BY SourceType DEF Creating, Collecting
<1>. QED BY <1>1, <1>2, <1>3, ItemType DEF NewItem, StoredItems

(* The items of one response, under their source. *)
LEMMA FromType ==
  ASSUME NEW src \in Sources, NEW its \in Seq(Items)
  PROVE  /\ From(src, its) \in Seq(StoredItems)
         /\ Len(From(src, its)) = Len(its)
         /\ \A i \in 1..Len(its) : From(src, its)[i] = [source |-> src, item |-> its[i]]
<1>1. DOMAIN its = 1..Len(its) /\ Len(its) \in Nat
  OBVIOUS
<1>2. \A i \in 1..Len(its) : [source |-> src, item |-> its[i]] \in StoredItems
  BY DEF StoredItems
<1>. QED BY <1>1, <1>2 DEF From

LEMMA MoveKeepsTypes ==
  ASSUME TypeOK, Placed, NEW s \in Slots, Moves(s)
  PROVE  TypeOK' /\ Placed'
<1>. USE DEF GoTo, Quiet, late, locals, collect
<1>1. CASE LookupFindsNothing(s)
  <2>1. TypeOK'
    BY <1>1 DEF TypeOK, LookupFindsNothing
  <2>2. Placed'
    BY <1>1 DEF TypeOK, Placed, Fresh, Creating, Collecting, LookupFindsNothing
  <2>. QED BY <2>1, <2>2
<1>2. ASSUME NEW offer \in Offers, SourceContributes(s, offer)
      PROVE  TypeOK' /\ Placed'
  <2>1. offer \in Seq(Items)
    BY OfferAssumption
  <2>2. plan[s][source[s]] \in Sources
    BY <1>2, SourceType DEF SourceContributes, Creating, Collecting
  <2>3. From(plan[s][source[s]], offer) \in Seq(StoredItems)
    BY <2>1, <2>2, FromType
  <2>4. /\ Append(heard[s], plan[s][source[s]]) \in Seq(Sources)
        /\ sent[s] \o From(plan[s][source[s]], offer) \in Seq(StoredItems)
    BY <2>2, <2>3 DEF TypeOK
  <2>5. TypeOK'
    BY <1>2, <2>1, <2>4 DEF TypeOK, SourceContributes
  <2>6. Placed'
    BY <1>2 DEF TypeOK, Placed, Fresh, Creating, Collecting, SourceContributes
  <2>. QED BY <2>5, <2>6
<1>3. CASE KeepItem(s)
  <2>1. /\ Append(items[s], NewItem(s)) \in Seq(StoredItems)
        /\ Tail(inbox[s]) \in Seq(Items)
        /\ Head(inbox[s]).bytes \in Nat
    BY <1>3, NewItemType DEF KeepItem
  <2>2. TypeOK'
    BY <1>3, <2>1 DEF TypeOK, KeepItem, NewItem
  <2>3. Placed'
    BY <1>3 DEF TypeOK, Placed, Fresh, Creating, Collecting, KeepItem
  <2>. QED BY <2>2, <2>3
<1>4. CASE NextSource(s)
  <2>1. Len(plan[s]) \in Nat /\ source[s] \in Nat
    BY <1>4, SourceType DEF NextSource, Creating, Collecting
  <2>2. TypeOK'
    BY <1>4 DEF TypeOK, NextSource
  <2>3. Placed'
    BY <1>4, <2>1 DEF TypeOK, Placed, Fresh, Creating, Collecting, NextSource
  <2>. QED BY <2>2, <2>3
<1>5. CASE Serialize(s)
  <2>1. TypeOK'
    BY <1>5 DEF TypeOK, Serialize
  <2>2. Placed'
    BY <1>5 DEF TypeOK, Placed, Fresh, Creating, Collecting, Serialize
  <2>. QED BY <2>1, <2>2
<1>6. CASE InsertLoses(s)
  <2>1. NewRow(s) \in Rows /\ req[s].export \in Exports
    BY <1>6, NewRowType DEF InsertLoses
  <2>2. TypeOK'
    BY <1>6, <2>1 DEF TypeOK, InsertLoses, StoreIn, InsertExport
  <2>3. Placed'
    BY <1>6 DEF TypeOK, Placed, Fresh, Creating, Collecting, InsertLoses
  <2>. QED BY <2>2, <2>3
<1>. QED BY <1>1, <1>2, <1>3, <1>4, <1>5, <1>6 DEF Moves

LEMMA EnvironmentKeepsTypes ==
  ASSUME TypeOK, Placed, Environment
  PROVE  TypeOK' /\ Placed'
<1>. USE DEF Quiet, late, locals, collect
<1>1. ASSUME NEW w \in lateInserts, LateInsert(w)
      PROVE  TypeOK' /\ Placed'
  <2>1. w[1] \in Exports /\ w[2] \in Rows
    BY DEF TypeOK
  <2>2. TypeOK'
    BY <1>1, <2>1 DEF TypeOK, LateInsert, StoreIn, InsertExport
  <2>3. Placed'
    BY <1>1 DEF Placed, Fresh, LateInsert
  <2>. QED BY <2>2, <2>3
<1>2. ASSUME NEW w \in lateDeletes, LateDelete(w)
      PROVE  TypeOK' /\ Placed'
  <2>1. TypeOK'
    BY <1>2 DEF TypeOK, LateDelete, DeleteIn
  <2>2. Placed'
    BY <1>2 DEF Placed, Fresh, LateDelete
  <2>. QED BY <2>1, <2>2
<1>3. ASSUME NEW p \in Plans, Recompose(p)
      PROVE  TypeOK' /\ Placed'
  <2>1. TypeOK'
    BY <1>3 DEF TypeOK, Recompose
  <2>2. Placed'
    BY <1>3 DEF Placed, Fresh, Recompose
  <2>. QED BY <2>1, <2>2
<1>. QED BY <1>1, <1>2, <1>3 DEF Environment

(* Every step is one of these. *)
LEMMA Steps ==
  ASSUME Next
  PROVE  \/ Environment
         \/ \E s \in Slots :
              \/ \E c \in Callers, e \in Exports, w \in BOOLEAN : Starts(s, c, e, w)
              \/ Moves(s)
              \/ Ends(s)
BY DEF Next, Start, Starts, Advance, Moves, Ends

LEMMA PlacedStep ==
  ASSUME TypeOK, Placed, [Next]_vars
  PROVE  TypeOK' /\ Placed'
<1>1. CASE Next
  BY <1>1, Steps, EnvironmentKeepsTypes, StartKeepsTypes, MoveKeepsTypes, EndKeepsTypes
<1>2. CASE UNCHANGED vars
  <2>1. TypeOK'
    BY <1>2 DEF TypeOK, vars, late, locals, collect, answers
  <2>2. Placed'
    BY <1>2 DEF Placed, Fresh, vars, late, locals, collect, answers
  <2>. QED BY <2>1, <2>2
<1>. QED BY <1>1, <1>2

THEOREM PlacedAlways == Spec => [](TypeOK /\ Placed)
BY PlacedInit, PlacedStep, PTL DEF Spec

(* Every variable of the export coordinator has its type in every          *)
(* reachable state: in particular every row and every INSERT still on its  *)
(* way names an allowlisted owner and well-typed items, whatever races.    *)
THEOREM TypeCorrect == Spec => []TypeOK
BY PlacedAlways, PTL
=============================================================================
