----------------------------- MODULE ExportSafety -----------------------------
(***************************************************************************)
(* The safety properties of ExportCoordinator, for every value of its      *)
(* constants, and that it implements ExportRegistry.                       *)
(***************************************************************************)
EXTENDS ExportProofs

-----------------------------------------------------------------------------
(* What a step leaves alone *)

LEMMA EnvironmentWaits ==
  ASSUME Environment
  PROVE  UNCHANGED <<pc, req, plan, source, inbox, items, total, heard, sent, purges>>
         /\ Quiet
BY DEF Environment, LateInsert, LateDelete, Recompose, locals, collect

LEMMA StartTouchesItself ==
  ASSUME TypeOK, NEW s \in Slots, NEW c \in Callers, NEW e \in Exports, NEW w \in BOOLEAN,
         Starts(s, c, e, w)
  PROVE  /\ pc[s] = "idle" /\ pc'[s] \in {"idle", "lookup", "read", "purge"}
         /\ UNCHANGED <<exports, lateInserts, lateDeletes, bound, source, inbox, items, total,
                        heard, sent, told>>
         /\ purges \subseteq purges'
         /\ \A t \in Slots : t # s => pc'[t] = pc[t] /\ req'[t] = req[t] /\ plan'[t] = plan[t]
BY DEF TypeOK, Starts, StartCreate, StartRead, StartPurge, Refuse, Admit, Enter, late, collect

(* The locals of the other invocations. *)
OthersWait(s) ==
  \A t \in Slots : t # s =>
    /\ pc'[t] = pc[t] /\ req'[t] = req[t] /\ plan'[t] = plan[t] /\ source'[t] = source[t]
    /\ inbox'[t] = inbox[t] /\ items'[t] = items[t] /\ total'[t] = total[t]
    /\ heard'[t] = heard[t] /\ sent'[t] = sent[t]

LEMMA FinishTouchesItself ==
  ASSUME TypeOK, NEW s \in Slots, NEW kind, NEW body, Finish(s, kind, body)
  PROVE  pc'[s] = "idle" /\ OthersWait(s)
BY DEF TypeOK, Finish, OthersWait

LEMMA EndTouchesItself ==
  ASSUME TypeOK, NEW s \in Slots, Ends(s)
  PROVE  /\ pc[s] # "idle" /\ pc'[s] = "idle" /\ OthersWait(s)
         /\ UNCHANGED <<bound, purges>>
<1>1. \E kind, body : Finish(s, kind, body)
  BY DEF Ends, AnswerExisting, AnswerConflict, ReloadFindsNothing, SourceRejects, ItemTooLarge,
         ItemIsMalformed, ArtifactTooLarge, InsertWins, ReadArtifact, PurgeArtifact, Fail,
         FailInFlight
<1>2. pc[s] # "idle" /\ UNCHANGED <<bound, purges>>
  BY DEF Ends, AnswerExisting, AnswerConflict, ReloadFindsNothing, SourceRejects, ItemTooLarge,
         ItemIsMalformed, ArtifactTooLarge, InsertWins, ReadArtifact, PurgeArtifact, Fail,
         FailInFlight
<1>. QED BY <1>1, <1>2, FinishTouchesItself

LEMMA MoveTouchesItself ==
  ASSUME TypeOK, NEW s \in Slots, Moves(s)
  PROVE  /\ pc[s] \in Creating /\ pc'[s] \in {"source", "items", "insert", "reload"}
         /\ OthersWait(s) /\ Quiet
         /\ UNCHANGED <<bound, purges, req, plan, lateInserts, lateDeletes>>
<1>. USE DEF TypeOK, OthersWait, GoTo, Quiet, Creating, Collecting, late, locals, collect
<1>1. CASE LookupFindsNothing(s)
  BY <1>1 DEF LookupFindsNothing
<1>2. ASSUME NEW offer \in Offers, SourceContributes(s, offer)
      PROVE  /\ pc[s] \in Creating /\ pc'[s] \in {"source", "items", "insert", "reload"}
             /\ OthersWait(s) /\ Quiet
             /\ UNCHANGED <<bound, purges, req, plan, lateInserts, lateDeletes>>
  BY <1>2 DEF SourceContributes
<1>3. CASE KeepItem(s)
  BY <1>3 DEF KeepItem
<1>4. CASE NextSource(s)
  BY <1>4 DEF NextSource
<1>5. CASE Serialize(s)
  BY <1>5 DEF Serialize
<1>6. CASE InsertLoses(s)
  BY <1>6 DEF InsertLoses
<1>. QED BY <1>1, <1>2, <1>3, <1>4, <1>5, <1>6 DEF Moves

-----------------------------------------------------------------------------
(* Purges have been asked for *)

(* Every DELETE under way was asked for by the caller it is scoped to. *)
Asked ==
  /\ lateDeletes \subseteq purges
  /\ \A s \in Slots : pc[s] = "purge" => <<req[s].export, req[s].caller>> \in purges

LEMMA AskedStep ==
  ASSUME TypeOK, Asked, Next
  PROVE  Asked'
<1>1. CASE Environment
  <2>1. lateDeletes' \subseteq lateDeletes
    BY <1>1 DEF Environment, LateInsert, LateDelete, Recompose, late
  <2>. QED BY <1>1, <2>1, EnvironmentWaits DEF Asked
<1>2. ASSUME NEW s \in Slots, NEW c \in Callers, NEW e \in Exports, NEW w \in BOOLEAN,
             Starts(s, c, e, w)
      PROVE  Asked'
  <2>1. /\ \A t \in Slots : t # s => pc'[t] = pc[t] /\ req'[t] = req[t]
        /\ UNCHANGED lateDeletes /\ purges \subseteq purges'
    BY <1>2, StartTouchesItself
  <2>2. pc'[s] = "purge" => <<req'[s].export, req'[s].caller>> \in purges'
    <3>1. CASE StartPurge(s, c, e, w)
      BY <3>1 DEF TypeOK, StartPurge, Refuse, Admit, Enter
    <3>2. CASE ~StartPurge(s, c, e, w)
      BY <1>2, <3>2 DEF TypeOK, Starts, StartCreate, StartRead, Refuse, Admit, Enter
    <3>. QED BY <3>1, <3>2
  <2>. QED BY <2>1, <2>2 DEF Asked
<1>3. ASSUME NEW s \in Slots, Moves(s)
      PROVE  Asked'
  BY <1>3, MoveTouchesItself DEF Asked, OthersWait
<1>4. ASSUME NEW s \in Slots, Ends(s)
      PROVE  Asked'
  <2>1. pc'[s] = "idle" /\ OthersWait(s) /\ UNCHANGED purges
    BY <1>4, EndTouchesItself
  <2>2. \/ UNCHANGED lateDeletes
        \/ /\ pc[s] = "purge"
           /\ lateDeletes' = lateDeletes \cup {<<req[s].export, req[s].caller>>}
    BY <1>4
    DEF Ends, AnswerExisting, AnswerConflict, ReloadFindsNothing, SourceRejects, ItemTooLarge,
        ItemIsMalformed, ArtifactTooLarge, InsertWins, ReadArtifact, PurgeArtifact, Fail,
        FailInFlight, late
  <2>. QED BY <2>1, <2>2 DEF Asked, OthersWait
<1>. QED BY <1>1, <1>2, <1>3, <1>4, Steps

-----------------------------------------------------------------------------
(* What a step may do to the table *)

(* One free row is filled, by an INSERT that was under way. *)
Stores(e, row) ==
  /\ exports[e] = NoExport
  /\ exports' = [exports EXCEPT ![e] = row]
  /\ \/ <<e, row>> \in lateInserts
     \/ \E s \in Slots : pc[s] = "insert" /\ req[s].export = e /\ row = NewRow(s)

(* One row is deleted, as its owner has asked. *)
Removes(e) ==
  /\ exports[e] # NoExport
  /\ <<e, exports[e].owner>> \in purges
  /\ exports' = [exports EXCEPT ![e] = NoExport]

LEMMA DeleteSteps ==
  ASSUME TypeOK, NEW e \in Exports, NEW c, <<e, c>> \in purges, DeleteIn(e, c)
  PROVE  UNCHANGED exports \/ Removes(e)
BY DEF TypeOK, DeleteIn, OwnedBy, Removes

LEMMA StoreSteps ==
  ASSUME TypeOK, NEW e \in Exports, NEW row \in Rows, StoreIn(e, row),
         \/ <<e, row>> \in lateInserts
         \/ \E s \in Slots : pc[s] = "insert" /\ req[s].export = e /\ row = NewRow(s)
  PROVE  UNCHANGED exports \/ Stores(e, row)
BY DEF TypeOK, StoreIn, InsertExport, Stores

LEMMA TableSteps ==
  ASSUME TypeOK, Placed, Asked, Next
  PROVE  \/ UNCHANGED exports
         \/ \E e \in Exports, row \in Rows : Stores(e, row)
         \/ \E e \in Exports : Removes(e)
<1>1. CASE Environment
  <2>1. ASSUME NEW w \in lateInserts, LateInsert(w)
        PROVE  UNCHANGED exports \/ \E e \in Exports, row \in Rows : Stores(e, row)
    <3>0. w \in Exports \X Rows
      BY DEF TypeOK
    <3>1. w[1] \in Exports /\ w[2] \in Rows /\ <<w[1], w[2]>> \in lateInserts
      BY <3>0
    <3>. QED BY <2>1, <3>1, StoreSteps DEF LateInsert
  <2>2. ASSUME NEW w \in lateDeletes, LateDelete(w)
        PROVE  UNCHANGED exports \/ \E e \in Exports : Removes(e)
    <3>0. w \in Exports \X ExportCallers /\ w \in purges
      BY DEF TypeOK, Asked
    <3>1. w[1] \in Exports /\ <<w[1], w[2]>> \in purges
      BY <3>0
    <3>. QED BY <2>2, <3>1, DeleteSteps DEF LateDelete
  <2>3. ASSUME NEW p \in Plans, Recompose(p)
        PROVE  UNCHANGED exports
    BY <2>3 DEF Recompose
  <2>. QED BY <1>1, <2>1, <2>2, <2>3 DEF Environment
<1>2. ASSUME NEW s \in Slots, NEW c \in Callers, NEW e \in Exports, NEW w \in BOOLEAN,
             Starts(s, c, e, w)
      PROVE  UNCHANGED exports
  BY <1>2, StartTouchesItself
<1>3. ASSUME NEW s \in Slots, Moves(s)
      PROVE  UNCHANGED exports \/ \E e \in Exports, row \in Rows : Stores(e, row)
  <2>1. CASE InsertLoses(s)
    <3>1. pc[s] = "insert" /\ StoreIn(req[s].export, NewRow(s))
      BY <2>1 DEF InsertLoses
    <3>. QED BY <3>1, NewRowType, StoreSteps
  <2>2. CASE ~InsertLoses(s)
    BY <1>3, <2>2 DEF Moves, LookupFindsNothing, SourceContributes, KeepItem, NextSource,
                      Serialize
  <2>. QED BY <2>1, <2>2
<1>4. ASSUME NEW s \in Slots, Ends(s)
      PROVE  \/ UNCHANGED exports
             \/ \E e \in Exports, row \in Rows : Stores(e, row)
             \/ \E e \in Exports : Removes(e)
  <2>1. CASE InsertWins(s)
    <3>1. pc[s] = "insert" /\ StoreIn(req[s].export, NewRow(s))
      BY <2>1 DEF InsertWins
    <3>. QED BY <3>1, NewRowType, StoreSteps
  <2>2. CASE PurgeArtifact(s)
    <3>1. /\ req[s].export \in Exports /\ <<req[s].export, req[s].caller>> \in purges
          /\ DeleteIn(req[s].export, req[s].caller)
      BY <2>2, LookType DEF PurgeArtifact, Asked
    <3>. QED BY <3>1, DeleteSteps
  <2>3. CASE ~InsertWins(s) /\ ~PurgeArtifact(s)
    BY <1>4, <2>3
    DEF Ends, AnswerExisting, AnswerConflict, ReloadFindsNothing, SourceRejects, ItemTooLarge,
        ItemIsMalformed, ArtifactTooLarge, ReadArtifact, Fail, FailInFlight
  <2>. QED BY <2>1, <2>2, <2>3
<1>. QED BY <1>1, <1>2, <1>3, <1>4, Steps

-----------------------------------------------------------------------------
(* Artifacts stay as stored *)

Core == TypeOK /\ Placed /\ Asked

LEMMA CoreInit == Init => Core
BY PlacedInit DEF Core, Init, Asked

LEMMA CoreStep ==
  ASSUME Core, [Next]_vars
  PROVE  Core'
<1>1. CASE Next
  BY <1>1, PlacedStep, AskedStep DEF Core
<1>2. CASE UNCHANGED vars
  <2>1. Asked'
    BY <1>2 DEF Core, Asked, vars, late, locals
  <2>. QED BY <1>2, <2>1, PlacedStep DEF Core
<1>. QED BY <1>1, <1>2

THEOREM CoreAlways == Spec => []Core
BY CoreInit, CoreStep, PTL DEF Spec

(* Once stored, an artifact is never rewritten, and it disappears only     *)
(* under a DELETE its owner asked for: whichever creates, retries, purges  *)
(* and statements of dead invocations interleave.                          *)
THEOREM StoredIsImmutable == Spec => ArtifactStaysAsStored
<1>1. ASSUME Core, [Next]_vars, exports' # exports, NEW e \in Exports,
             exports[e] # NoExport, exports'[e] # exports[e]
      PROVE  exports'[e] = NoExport /\ <<e, exports[e].owner>> \in purges
  <2>1. Next
    BY <1>1 DEF vars
  <2>2. exports \in [Exports -> Rows \cup {NoExport}]
    BY <1>1 DEF Core, TypeOK
  <2>. QED BY <1>1, <2>1, <2>2, TableSteps DEF Core, Stores, Removes
<1>2. Core /\ [Next]_vars
        => [\A e \in Exports :
              exports[e] # NoExport /\ exports'[e] # exports[e] =>
                exports'[e] = NoExport /\ <<e, exports[e].owner>> \in purges]_exports
  BY <1>1
<1>. QED BY <1>2, CoreAlways, PTL DEF Spec, ArtifactStaysAsStored

-----------------------------------------------------------------------------
(* What has been collected respects every limit *)

(* The item-by-item checks of the loop, as a fact about the whole list.    *)
Within(its, bytes) ==
  /\ Len(its) <= MaxItems
  /\ \A j \in 1..Len(its) : its[j].item.bytes <= MaxItemBytes
  /\ WellFormed(its)
  /\ bytes = PayloadBytes(its)
  /\ bytes <= MaxTotalBytes

Collected ==
  \A s \in Slots :
    /\ pc[s] \in Collecting => Within(items[s], total[s])
    /\ pc[s] = "insert" => ~SerializedTooLarge(items[s])

LEMMA NothingIsWithin == Within(<< >>, 0)
<1>1. Len(<< >>) = 0 /\ DOMAIN << >> = {} /\ Range(<< >>) = {}
  BY DEF Range
<1>. QED BY <1>1, PayloadOfNone, LimitAssumption DEF Within, WellFormed

(* One round of the loop over the items keeps the list within the limits.  *)
LEMMA KeptIsWithin ==
  ASSUME NEW its \in Seq(StoredItems), NEW bytes \in Nat, Within(its, bytes),
         NEW src \in Sources, NEW i \in Items, ItemVerdict(its, bytes, src, i) = "keep"
  PROVE  Within(Append(its, [source |-> src, item |-> i]), bytes + i.bytes)
<1>. DEFINE x == [source |-> src, item |-> i]
            more == Append(its, x)
<1>1. /\ i.valid /\ <<src, i.name>> \notin Keys(its)
      /\ ~(i.bytes > MaxItemBytes) /\ Len(its) # MaxItems /\ ~(bytes + i.bytes > MaxTotalBytes)
  BY DEF ItemVerdict
<1>2. x \in StoredItems /\ i.bytes \in Nat
  BY ItemType DEF StoredItems
<1>3. /\ more \in Seq(StoredItems) /\ Len(more) = Len(its) + 1
      /\ more[Len(more)] = x /\ \A j \in 1..Len(its) : more[j] = its[j]
      /\ DOMAIN more = 1..Len(more) /\ DOMAIN its = 1..Len(its) /\ Len(its) \in Nat
  BY <1>2
<1>4. Len(more) <= MaxItems
  <2>1. Len(its) <= MaxItems /\ Len(its) # MaxItems /\ Len(its) \in Nat /\ MaxItems \in Nat
    BY <1>1, <1>3, LimitAssumption DEF Within
  <2>2. Len(its) + 1 <= MaxItems
    BY <2>1
  <2>. QED BY <1>3, <2>2
<1>5. \A j \in 1..Len(more) : more[j].item.bytes <= MaxItemBytes
  <2>1. x.item.bytes <= MaxItemBytes
    BY <1>1, <1>2, LimitAssumption
  <2>. QED BY <1>3, <2>1 DEF Within
<1>6. WellFormed(more)
  <2>. HIDE DEF more
  <2>1. \A j \in 1..Len(more) : j = Len(more) \/ j \in 1..Len(its)
    BY <1>3
  <2>2. \A k \in Range(more) : k.item.valid
    <3>1. \A k \in Range(more) : k = x \/ k \in Range(its)
      BY <1>3, <2>1 DEF Range
    <3>. QED BY <1>1, <3>1 DEF Within, WellFormed
  <2>3. \A j \in 1..Len(its) :
          <<its[j].source, its[j].item.name>> # <<src, i.name>>
    BY <1>1, <1>3 DEF Keys, Range
  <2>4. \A j, k \in 1..Len(more) : j # k =>
          <<more[j].source, more[j].item.name>> # <<more[k].source, more[k].item.name>>
    BY <1>3, <2>1, <2>3 DEF Within, WellFormed
  <2>. QED BY <1>3, <2>2, <2>4 DEF WellFormed
<1>7. bytes + i.bytes = PayloadBytes(more)
  BY <1>2, PayloadOfOneMore DEF Within
<1>8. bytes + i.bytes <= MaxTotalBytes
  BY <1>1, <1>2, LimitAssumption
<1>. QED BY <1>4, <1>5, <1>6, <1>7, <1>8 DEF Within

LEMMA CollectedStep ==
  ASSUME Core, Collected, Next
  PROVE  Collected'
<1>0. TypeOK /\ Placed
  BY DEF Core
<1>1. CASE Environment
  BY <1>1, EnvironmentWaits DEF Collected, Within, WellFormed, SerializedTooLarge
<1>2. ASSUME NEW s \in Slots, NEW c \in Callers, NEW e \in Exports, NEW w \in BOOLEAN,
             Starts(s, c, e, w)
      PROVE  Collected'
  BY <1>0, <1>2, StartTouchesItself DEF Collected, Collecting
<1>3. ASSUME NEW s \in Slots, Moves(s)
      PROVE  Collected'
  <2>1. /\ \A t \in Slots : t # s =>
             pc'[t] = pc[t] /\ items'[t] = items[t] /\ total'[t] = total[t]
        /\ pc[s] \in Creating
    BY <1>0, <1>3, MoveTouchesItself DEF OthersWait
  <2>. SUFFICES /\ pc'[s] \in Collecting => Within(items'[s], total'[s])
                /\ pc'[s] = "insert" => ~SerializedTooLarge(items'[s])
    BY <2>1 DEF Collected
  <2>. USE DEF TypeOK, GoTo, Collecting, locals, collect
  <2>2. CASE LookupFindsNothing(s)
    <3>1. items[s] = << >> /\ total[s] = 0
      BY <1>0, <2>2 DEF LookupFindsNothing, Placed, Fresh
    <3>. QED BY <1>0, <2>2, <3>1, NothingIsWithin DEF LookupFindsNothing
  <2>3. ASSUME NEW offer \in Offers, SourceContributes(s, offer)
        PROVE  /\ pc'[s] = "items" /\ Within(items'[s], total'[s])
    BY <1>0, <2>3 DEF SourceContributes, Collected
  <2>4. CASE KeepItem(s)
    <3>1. /\ items'[s] = Append(items[s], [source |-> plan[s][source[s]],
                                           item |-> Head(inbox[s])])
          /\ total'[s] = total[s] + Head(inbox[s]).bytes
          /\ pc'[s] = "items"
      BY <1>0, <2>4 DEF KeepItem
    <3>2. plan[s][source[s]] \in Sources /\ Head(inbox[s]) \in Items
      BY <1>0, <2>1, <2>4, SourceType, NewItemType DEF KeepItem
    <3>3. /\ Within(items[s], total[s]) /\ items[s] \in Seq(StoredItems) /\ total[s] \in Nat
          /\ ItemVerdict(items[s], total[s], plan[s][source[s]], Head(inbox[s])) = "keep"
      BY <1>0, <2>4 DEF KeepItem, Collected, Verdict
    <3>. QED BY <3>1, <3>2, <3>3, KeptIsWithin
  <2>5. CASE NextSource(s)
    BY <1>0, <2>5 DEF NextSource, Collected
  <2>6. CASE Serialize(s)
    BY <1>0, <2>6 DEF Serialize, Collected
  <2>7. CASE InsertLoses(s)
    BY <1>0, <2>7 DEF InsertLoses
  <2>. QED BY <1>3, <2>2, <2>3, <2>4, <2>5, <2>6, <2>7 DEF Moves
<1>4. ASSUME NEW s \in Slots, Ends(s)
      PROVE  Collected'
  BY <1>0, <1>4, EndTouchesItself DEF Collected, Collecting, OthersWait
<1>. QED BY <1>1, <1>2, <1>3, <1>4, Steps

-----------------------------------------------------------------------------
(* What is stored fits *)

Storable(row) ==
  /\ Fits(row.items) /\ WellFormed(row.items) /\ row.total_bytes = PayloadBytes(row.items)

LEMMA NewRowIsStorable ==
  ASSUME Core, Collected, NEW s \in Slots, pc[s] = "insert"
  PROVE  Storable(NewRow(s))
<1>1. items[s] \in Seq(StoredItems) /\ Within(items[s], total[s])
      /\ ~SerializedTooLarge(items[s])
  BY DEF Core, TypeOK, Collected, Collecting
<1>2. Fits(items[s])
  <2>1. \A i \in Range(items[s]) : i.item.bytes <= MaxItemBytes
    BY <1>1 DEF Within, Range
  <2>2. SerializedBytes(items[s]) <= MaxTotalBytes
    <3>1. SerializedBytes(items[s]) \in Nat
      BY <1>1, SerializedType
    <3>. QED BY <1>1, <3>1, LimitAssumption DEF SerializedTooLarge
  <2>. QED BY <1>1, <2>1, <2>2 DEF Fits, Within
<1>. QED BY <1>1, <1>2 DEF Storable, NewRow, Within

LEMMA FitStep ==
  ASSUME Core, Collected, StoredArtifactsFit, Next
  PROVE  StoredArtifactsFit'
<1>0. /\ exports \in [Exports -> Rows \cup {NoExport}] /\ TypeOK /\ Placed /\ Asked
      /\ \A e \in Exports : exports[e] # NoExport => Storable(exports[e])
      /\ \A w \in lateInserts : Storable(w[2])
  BY DEF Core, TypeOK, StoredArtifactsFit, Storable, Range
<1>1. /\ DOMAIN exports' = Exports
      /\ \A e \in Exports : exports'[e] # NoExport => Storable(exports'[e])
  <2>1. ASSUME NEW e \in Exports, NEW row \in Rows, Stores(e, row)
        PROVE  Storable(row)
    BY <1>0, <2>1, NewRowIsStorable DEF Stores
  <2>2. CASE UNCHANGED exports
    BY <1>0, <2>2
  <2>3. ASSUME NEW e \in Exports, NEW row \in Rows, Stores(e, row)
        PROVE  <1>1!1 /\ <1>1!2
    BY <1>0, <2>1, <2>3 DEF Stores
  <2>4. ASSUME NEW e \in Exports, Removes(e)
        PROVE  <1>1!1 /\ <1>1!2
    BY <1>0, <2>4 DEF Removes
  <2>. QED BY <1>0, <2>2, <2>3, <2>4, TableSteps
<1>2. \A w \in lateInserts' : Storable(w[2])
  <2>1. \A w \in lateInserts' :
          w \in lateInserts \/ \E s \in Slots : pc[s] = "insert" /\ w[2] = NewRow(s)
    <3>1. CASE Environment
      BY <3>1 DEF Environment, LateInsert, LateDelete, Recompose, late
    <3>2. ASSUME NEW s \in Slots, NEW c \in Callers, NEW e \in Exports, NEW w \in BOOLEAN,
                 Starts(s, c, e, w)
          PROVE  UNCHANGED lateInserts
      BY <1>0, <3>2, StartTouchesItself
    <3>3. ASSUME NEW s \in Slots, Moves(s)
          PROVE  UNCHANGED lateInserts
      BY <1>0, <3>3, MoveTouchesItself
    <3>4. ASSUME NEW s \in Slots, Ends(s)
          PROVE  \/ UNCHANGED lateInserts
                 \/ /\ pc[s] = "insert"
                    /\ lateInserts' = lateInserts \cup {<<req[s].export, NewRow(s)>>}
      BY <3>4
      DEF Ends, AnswerExisting, AnswerConflict, ReloadFindsNothing, SourceRejects,
          ItemTooLarge, ItemIsMalformed, ArtifactTooLarge, InsertWins, ReadArtifact,
          PurgeArtifact, Fail, FailInFlight, late
    <3>. QED BY <3>1, <3>2, <3>3, <3>4, Steps
  <2>. QED BY <1>0, <2>1, NewRowIsStorable
<1>. QED BY <1>1, <1>2 DEF StoredArtifactsFit, Storable, Range

Fitting == Core /\ Collected /\ StoredArtifactsFit

LEMMA FittingInit == Init => Fitting
<1>. SUFFICES ASSUME Init PROVE Fitting
  OBVIOUS
<1>1. Collected
  BY DEF Init, Collected, Collecting
<1>2. StoredArtifactsFit
  BY DEF Init, StoredArtifactsFit, Range
<1>. QED BY <1>1, <1>2, CoreInit DEF Fitting

LEMMA FittingStep ==
  ASSUME Fitting, [Next]_vars
  PROVE  Fitting'
<1>1. CASE Next
  BY <1>1, CoreStep, CollectedStep, FitStep DEF Fitting
<1>2. CASE UNCHANGED vars
  <2>1. Collected'
    BY <1>2 DEF Fitting, Collected, vars, locals, collect
  <2>2. StoredArtifactsFit'
    BY <1>2 DEF Fitting, StoredArtifactsFit, vars, late
  <2>. QED BY <1>2, <2>1, <2>2, CoreStep DEF Fitting
<1>. QED BY <1>1, <1>2

THEOREM FittingAlways == Spec => []Fitting
BY FittingInit, FittingStep, PTL DEF Spec

(* Whatever the sources send, in whatever pieces: an artifact that is      *)
(* stored, or that an INSERT on its way may still store, respects every    *)
(* limit measured on the whole of it, lists no item of a source twice, and *)
(* its recorded byte count is the true sum.  The code only ever checks one *)
(* item against a running total.                                           *)
THEOREM StoredFits == Spec => []StoredArtifactsFit
<1>1. Fitting => StoredArtifactsFit
  BY DEF Fitting
<1>. QED BY <1>1, FittingAlways, PTL

-----------------------------------------------------------------------------
(* What an answer tells *)

(* An answer that shows an artifact shows the row of its caller.           *)
Shows(s) ==
  \/ /\ AnswerExisting(s) /\ Finish(s, "existing", Summary(Row(s)))
     /\ UNCHANGED exports
     /\ Row(s) # NoExport /\ Row(s).owner = req[s].caller /\ Row(s).target = req[s].target
  \/ /\ InsertWins(s) /\ Finish(s, "created", Summary(NewRow(s)))
     /\ exports' = [exports EXCEPT ![req[s].export] = NewRow(s)]

LEMMA EndAnswers ==
  ASSUME NEW s \in Slots, Ends(s)
  PROVE  \/ Shows(s)
         \/ /\ ReadArtifact(s) /\ OwnedBy(Row(s), req[s].caller)
            /\ Finish(s, "artifact", Artifact(Row(s)))
         \/ /\ PurgeArtifact(s)
            /\ \E kind \in {"purged", "unchanged"} : Finish(s, kind, Nothing)
         \/ \E kind \in Refusals \cup {"failed"} : Finish(s, kind, Nothing)
<1>. USE DEF Refusals
<1>1. CASE AnswerExisting(s)
  BY <1>1 DEF AnswerExisting, SameExport, Shows
<1>2. CASE InsertWins(s)
  BY <1>2 DEF InsertWins, StoreIn, InsertExport, Shows, Row
<1>3. CASE ReadArtifact(s)
  BY <1>3 DEF ReadArtifact
<1>4. CASE PurgeArtifact(s)
  BY <1>4 DEF PurgeArtifact
<1>5. CASE AnswerConflict(s) \/ ReloadFindsNothing(s) \/ SourceRejects(s) \/ ItemTooLarge(s)
  BY <1>5 DEF AnswerConflict, ReloadFindsNothing, SourceRejects, ItemTooLarge
<1>6. CASE ItemIsMalformed(s) \/ ArtifactTooLarge(s) \/ Fail(s) \/ FailInFlight(s)
  BY <1>6 DEF ItemIsMalformed, ArtifactTooLarge, Fail, FailInFlight
<1>. QED BY <1>1, <1>2, <1>3, <1>4, <1>5, <1>6 DEF Ends

(* The row that an answer shows is in the table when the answer is given.  *)
LEMMA ShownIsStored ==
  ASSUME Core, NEW s \in Slots, Shows(s)
  PROVE  /\ req[s].export \in Exports
         /\ exports'[req[s].export] # NoExport
         /\ exports'[req[s].export].owner = req[s].caller
         /\ exports'[req[s].export].target = req[s].target
         /\ \E kind \in {"created", "existing"} :
              Finish(s, kind, Summary(exports'[req[s].export]))
<1>0. TypeOK /\ Placed
  BY DEF Core
<1>1. CASE AnswerExisting(s) /\ Finish(s, "existing", Summary(Row(s)))
  <2>1. pc[s] # "idle" /\ UNCHANGED exports
    BY <1>1 DEF AnswerExisting
  <2>2. req[s].export \in Exports /\ Row(s) = exports'[req[s].export]
    BY <1>0, <2>1, LookType
  <2>3. Row(s) # NoExport /\ Row(s).owner = req[s].caller /\ Row(s).target = req[s].target
    BY <1>1 DEF AnswerExisting, SameExport
  <2>. QED BY <1>1, <2>2, <2>3
<1>2. CASE /\ InsertWins(s) /\ Finish(s, "created", Summary(NewRow(s)))
           /\ exports' = [exports EXCEPT ![req[s].export] = NewRow(s)]
  <2>1. NewRow(s) \in Rows /\ req[s].export \in Exports
    BY <1>0, <1>2, NewRowType DEF InsertWins
  <2>2. exports'[req[s].export] = NewRow(s)
    BY <1>0, <1>2, <2>1 DEF TypeOK
  <2>3. NewRow(s).owner = req[s].caller /\ NewRow(s).target = req[s].target
    BY DEF NewRow
  <2>. QED BY <1>2, <2>1, <2>2, <2>3, RowType
<1>. QED BY <1>1, <1>2 DEF Shows

LEMMA OwnerOnlyStep ==
  ASSUME Core, Next
  PROVE  AnswersToOwnerOnly'
<1>0. TypeOK /\ Placed
  BY DEF Core
<1>1. CASE Environment
  BY <1>1, EnvironmentWaits DEF Quiet, NoReply, AnswersToOwnerOnly
<1>2. ASSUME NEW s \in Slots, NEW c \in Callers, NEW e \in Exports, NEW w \in BOOLEAN,
             Starts(s, c, e, w)
      PROVE  AnswersToOwnerOnly'
  <2>1. reply'.kind \in {"none", "forbidden", "invalid_request"}
    BY <1>2 DEF Starts, StartCreate, StartRead, StartPurge, Refuse, Say, Admit, Enter, NoReply
  <2>. QED BY <2>1 DEF AnswersToOwnerOnly
<1>3. ASSUME NEW s \in Slots, Moves(s)
      PROVE  AnswersToOwnerOnly'
  BY <1>0, <1>3, MoveTouchesItself DEF Quiet, NoReply, AnswersToOwnerOnly
<1>4. ASSUME NEW s \in Slots, Ends(s)
      PROVE  AnswersToOwnerOnly'
  <2>1. CASE Shows(s)
    <3>1. PICK kind \in {"created", "existing"} :
            reply' = [kind |-> kind, to |-> req[s], body |-> Summary(exports'[req[s].export])]
      BY <2>1, ShownIsStored DEF Finish, Say
    <3>. QED BY <2>1, <3>1, ShownIsStored DEF AnswersToOwnerOnly
  <2>2. CASE /\ ReadArtifact(s) /\ OwnedBy(Row(s), req[s].caller)
             /\ Finish(s, "artifact", Artifact(Row(s)))
    <3>1. pc[s] # "idle" /\ UNCHANGED exports
      BY <2>2 DEF ReadArtifact
    <3>2. Row(s) = exports'[req[s].export]
      BY <1>0, <3>1, LookType
    <3>3. reply' = [kind |-> "artifact", to |-> req[s], body |-> Artifact(Row(s))]
      BY <2>2 DEF Finish, Say
    <3>. QED BY <2>2, <3>2, <3>3 DEF AnswersToOwnerOnly, OwnedBy
  <2>3. ASSUME NEW kind \in Refusals \cup {"failed", "purged", "unchanged"},
               Finish(s, kind, Nothing)
        PROVE  AnswersToOwnerOnly'
    BY <2>3 DEF Finish, Say, Refusals, AnswersToOwnerOnly
  <2>. QED BY <1>4, <2>1, <2>2, <2>3, EndAnswers
<1>. QED BY <1>1, <1>2, <1>3, <1>4, Steps

(* An answer shows an artifact only to the caller that owns it, and only   *)
(* for the target that caller asked for: in every interleaving, and even   *)
(* when the row was replaced between the caller's lookup and its answer.   *)
THEOREM OwnersLearn == Spec => []AnswersToOwnerOnly
<1>1. Init => AnswersToOwnerOnly
  BY DEF Init, NoReply, AnswersToOwnerOnly
<1>2. Core /\ AnswersToOwnerOnly /\ [Next]_vars => AnswersToOwnerOnly'
  <2>1. AnswersToOwnerOnly /\ UNCHANGED vars => AnswersToOwnerOnly'
    BY DEF vars, answers, AnswersToOwnerOnly
  <2>. QED BY <2>1, OwnerOnlyStep
<1>. QED BY <1>1, <1>2, CoreAlways, PTL DEF Spec

-----------------------------------------------------------------------------
(* What was told stays true until a purge is asked for *)

LEMMA ToldSteps ==
  ASSUME Core, Next
  PROVE  \A t \in told' : t \in told \/
           \E s \in Slots :
             /\ Shows(s) /\ UNCHANGED purges
             /\ t.export = req[s].export /\ t.owner = req[s].caller
             /\ t.summary = Summary(exports'[req[s].export])
<1>0. TypeOK
  BY DEF Core
<1>1. Environment => UNCHANGED told
  BY EnvironmentWaits DEF Quiet
<1>2. ASSUME NEW s \in Slots, NEW c \in Callers, NEW e \in Exports, NEW w \in BOOLEAN,
             Starts(s, c, e, w)
      PROVE  UNCHANGED told
  BY <1>0, <1>2, StartTouchesItself
<1>3. ASSUME NEW s \in Slots, Moves(s)
      PROVE  UNCHANGED told
  BY <1>0, <1>3, MoveTouchesItself DEF Quiet
<1>4. ASSUME NEW s \in Slots, Ends(s)
      PROVE  UNCHANGED told \/
               /\ Shows(s) /\ UNCHANGED purges
               /\ \A t \in told' : t \in told \/
                    t = [export |-> req[s].export, owner |-> req[s].caller,
                         summary |-> Summary(exports'[req[s].export])]
  <2>1. CASE Shows(s)
    <3>1. UNCHANGED purges
      BY <1>0, <1>4, EndTouchesItself
    <3>2. PICK kind \in {"created", "existing"} :
            Finish(s, kind, Summary(exports'[req[s].export]))
      BY <2>1, ShownIsStored
    <3>3. \A t \in told' : t \in told \/
            t = [export |-> req[s].export, owner |-> req[s].caller,
                 summary |-> Summary(exports'[req[s].export])]
      BY <3>2 DEF Finish
    <3>. QED BY <2>1, <3>1, <3>3
  <2>2. CASE \E kind, body : kind \notin {"created", "existing"} /\ Finish(s, kind, body)
    BY <2>2 DEF Finish
  <2>. QED BY <1>4, <2>1, <2>2, EndAnswers DEF Refusals
<1>. QED BY <1>1, <1>2, <1>3, <1>4, Steps

LEMMA PurgesStay ==
  ASSUME Core, Next
  PROVE  purges \subseteq purges'
<1>. TypeOK
  BY DEF Core
<1>. QED BY Steps, EnvironmentWaits, StartTouchesItself, MoveTouchesItself, EndTouchesItself

LEMMA SettledStep ==
  ASSUME Core, SettledUntilPurged, Next
  PROVE  SettledUntilPurged'
<1>. SUFFICES ASSUME NEW t \in told', <<t.export, t.owner>> \notin purges'
              PROVE  /\ exports'[t.export] # NoExport
                     /\ exports'[t.export].owner = t.owner
                     /\ Summary(exports'[t.export]) = t.summary
  BY DEF SettledUntilPurged
<1>1. CASE t \in told
  <2>1. <<t.export, t.owner>> \notin purges
    BY PurgesStay
  <2>2. /\ exports[t.export] # NoExport
        /\ exports[t.export].owner = t.owner
        /\ Summary(exports[t.export]) = t.summary
    BY <1>1, <2>1 DEF SettledUntilPurged
  <2>3. t.export \in Exports /\ exports \in [Exports -> Rows \cup {NoExport}]
    BY <1>1 DEF Core, TypeOK
  <2>4. exports'[t.export] = exports[t.export]
    <3>1. ASSUME NEW e \in Exports, NEW row \in Rows, Stores(e, row)
          PROVE  exports'[t.export] = exports[t.export]
      BY <2>2, <2>3, <3>1 DEF Stores
    <3>2. ASSUME NEW e \in Exports, Removes(e)
          PROVE  exports'[t.export] = exports[t.export]
      BY <2>1, <2>2, <2>3, <3>2 DEF Removes
    <3>. QED BY <3>1, <3>2, TableSteps DEF Core
  <2>. QED BY <2>2, <2>4
<1>2. CASE t \notin told
  BY <1>2, ToldSteps, ShownIsStored
<1>. QED BY <1>1, <1>2

(* Every summary an owner was ever told of is still the stored one's, up   *)
(* to the moment it asks for a purge: no race of creates, no INSERT that   *)
(* arrives after its invocation has died, and no other caller changes it.  *)
THEOREM RetriesFindTheSame == Spec => []SettledUntilPurged
<1>1. Init => SettledUntilPurged
  BY DEF Init, SettledUntilPurged
<1>2. Core /\ SettledUntilPurged /\ [Next]_vars => SettledUntilPurged'
  <2>1. SettledUntilPurged /\ UNCHANGED vars => SettledUntilPurged'
    BY DEF vars, answers, SettledUntilPurged
  <2>. QED BY <2>1, SettledStep
<1>. QED BY <1>1, <1>2, CoreAlways, PTL DEF Spec

-----------------------------------------------------------------------------
(* What was purged is gone *)

(* ... and no create of that caller is left that could bring it back. *)
GoneForGood ==
  \A g \in gone : ~OwnedBy(exports[g[1]], g[2]) /\ ~MayStillStore(g[1], g[2])

(* Only an INSERT under way gives a caller an artifact. *)
LEMMA OwnedSteps ==
  ASSUME Core, Next, NEW e \in Exports, NEW c, OwnedBy(exports'[e], c)
  PROVE  OwnedBy(exports[e], c) \/ MayStillStore(e, c)
<1>1. exports \in [Exports -> Rows \cup {NoExport}]
  BY DEF Core, TypeOK
<1>2. ASSUME NEW d \in Exports, NEW row \in Rows, Stores(d, row)
      PROVE  OwnedBy(exports[e], c) \/ MayStillStore(e, c)
  <2>1. CASE e = d
    <3>1. row.owner = c
      BY <1>1, <1>2, <2>1 DEF Stores, OwnedBy
    <3>2. ASSUME <<d, row>> \in lateInserts PROVE MayStillStore(e, c)
      BY <2>1, <3>1, <3>2 DEF MayStillStore
    <3>3. ASSUME NEW s \in Slots, pc[s] = "insert", req[s].export = d, row = NewRow(s)
          PROVE  MayStillStore(e, c)
      BY <2>1, <3>1, <3>3 DEF MayStillStore, NewRow
    <3>. QED BY <1>2, <3>2, <3>3 DEF Stores
  <2>2. CASE e # d
    BY <1>1, <1>2, <2>2 DEF Stores
  <2>. QED BY <2>1, <2>2
<1>3. ASSUME NEW d \in Exports, Removes(d)
      PROVE  OwnedBy(exports[e], c)
  BY <1>1, <1>3 DEF Removes, OwnedBy
<1>. QED BY <1>2, <1>3, TableSteps DEF Core

(* A create that may still store is admitted, and then only runs out.      *)
LEMMA MayStillStoreSteps ==
  ASSUME Core, Next, NEW x, NEW c, MayStillStore(x, c)'
  PROVE  MayStillStore(x, c) \/ <<x, c>> \notin gone'
<1>0. TypeOK /\ Placed
  BY DEF Core
<1>. DEFINE Storing == {"lookup", "source", "items", "insert"}
            By(t) == pc[t] \in Storing /\ req[t].export = x /\ req[t].caller = c
            Late(w) == w[1] = x /\ w[2].owner = c
<1>1. (\E t \in Slots : By(t)') \/ (\E w \in lateInserts' : Late(w))
  BY DEF MayStillStore
<1>2. ((\E t \in Slots : By(t)) \/ (\E w \in lateInserts : Late(w))) => MayStillStore(x, c)
  BY DEF MayStillStore
<1>3. CASE Environment
  <2>1. lateInserts' \subseteq lateInserts
    BY <1>3 DEF Environment, LateInsert, LateDelete, Recompose, late
  <2>. QED BY <1>1, <1>2, <1>3, <2>1, EnvironmentWaits
<1>4. ASSUME NEW s \in Slots, NEW d \in Callers, NEW e \in Exports, NEW w \in BOOLEAN,
             Starts(s, d, e, w)
      PROVE  MayStillStore(x, c) \/ <<x, c>> \notin gone'
  <2>1. /\ UNCHANGED lateInserts
        /\ \A t \in Slots : t # s => pc'[t] = pc[t] /\ req'[t] = req[t]
    BY <1>0, <1>4, StartTouchesItself
  <2>2. CASE By(s)'
    <3>1. ASSUME NEW t \in Targets, StartCreate(s, d, e, t, w)
          PROVE  <<x, c>> \notin gone'
      BY <1>0, <2>2, <3>1 DEF TypeOK, StartCreate, Refuse, Admit, Enter
    <3>2. ~StartRead(s, d, e, w)
      BY <1>0, <2>2 DEF TypeOK, StartRead, Refuse, Admit, Enter
    <3>3. ~StartPurge(s, d, e, w)
      BY <1>0, <2>2 DEF TypeOK, StartPurge, Refuse, Admit, Enter
    <3>. QED BY <1>4, <3>1, <3>2, <3>3 DEF Starts
  <2>3. CASE ~By(s)'
    BY <1>1, <1>2, <2>1, <2>3
  <2>. QED BY <2>2, <2>3
<1>5. ASSUME NEW s \in Slots, Moves(s)
      PROVE  MayStillStore(x, c)
  <2>1. /\ UNCHANGED <<lateInserts, req>> /\ OthersWait(s)
        /\ pc[s] \in Creating /\ pc[s] # "reload"
    BY <1>0, <1>5, MoveTouchesItself
    DEF Moves, LookupFindsNothing, SourceContributes, KeepItem, NextSource, Serialize,
        InsertLoses
  <2>2. \A t \in Slots : By(t)' => By(t)
    BY <2>1 DEF OthersWait, Creating, Collecting
  <2>. QED BY <1>1, <1>2, <2>1, <2>2
<1>6. ASSUME NEW s \in Slots, Ends(s)
      PROVE  MayStillStore(x, c)
  <2>1. pc'[s] = "idle" /\ OthersWait(s)
    BY <1>0, <1>6, EndTouchesItself
  <2>2. \A t \in Slots : By(t)' => By(t)
    BY <2>1 DEF OthersWait
  <2>3. \/ UNCHANGED lateInserts
        \/ /\ pc[s] = "insert"
           /\ lateInserts' = lateInserts \cup {<<req[s].export, NewRow(s)>>}
    BY <1>6
    DEF Ends, AnswerExisting, AnswerConflict, ReloadFindsNothing, SourceRejects,
        ItemTooLarge, ItemIsMalformed, ArtifactTooLarge, InsertWins, ReadArtifact,
        PurgeArtifact, Fail, FailInFlight, late
  <2>4. \A w \in lateInserts' : Late(w) => w \in lateInserts \/ By(s)
    BY <2>3 DEF NewRow
  <2>. QED BY <1>1, <1>2, <2>2, <2>4
<1>. QED BY <1>3, <1>4, <1>5, <1>6, Steps

(* Only a DELETE that has just found nothing more to delete is told of. *)
LEMMA GoneSteps ==
  ASSUME Core, Next, NEW g \in gone'
  PROVE  \/ g \in gone
         \/ \E s \in Slots :
              /\ PurgeArtifact(s)
              /\ g = <<req[s].export, req[s].caller>> /\ ~MayStillStore(g[1], g[2])
              /\ ~OwnedBy(exports'[g[1]], g[2])
<1>0. TypeOK /\ Placed
  BY DEF Core
<1>1. Environment => UNCHANGED gone
  BY EnvironmentWaits DEF Quiet
<1>2. ASSUME NEW s \in Slots, NEW c \in Callers, NEW e \in Exports, NEW w \in BOOLEAN,
             Starts(s, c, e, w)
      PROVE  gone' \subseteq gone
  BY <1>2 DEF Starts, StartCreate, StartRead, StartPurge, Refuse, Admit, Enter
<1>3. ASSUME NEW s \in Slots, Moves(s)
      PROVE  UNCHANGED gone
  BY <1>0, <1>3, MoveTouchesItself DEF Quiet
<1>4. ASSUME NEW s \in Slots, Ends(s), g \notin gone
      PROVE  /\ PurgeArtifact(s)
             /\ g = <<req[s].export, req[s].caller>> /\ ~MayStillStore(g[1], g[2])
             /\ ~OwnedBy(exports'[g[1]], g[2])
  <2>1. CASE \E kind, body : kind \notin {"purged", "unchanged"} /\ Finish(s, kind, body)
    BY <1>4, <2>1 DEF Finish
  <2>2. CASE /\ PurgeArtifact(s)
             /\ \E kind \in {"purged", "unchanged"} : Finish(s, kind, Nothing)
    <3>1. g = <<req[s].export, req[s].caller>> /\ ~MayStillStore(req[s].export, req[s].caller)
      BY <1>4, <2>2 DEF Finish
    <3>2. req[s].export \in Exports /\ exports \in [Exports -> Rows \cup {NoExport}]
      BY <1>0, <2>2, LookType DEF PurgeArtifact, TypeOK
    <3>3. ~OwnedBy(exports'[req[s].export], req[s].caller)
      BY <2>2, <3>2 DEF PurgeArtifact, DeleteIn, OwnedBy
    <3>. QED BY <2>2, <3>1, <3>3
  <2>3. CASE Shows(s)
    BY <2>1, <2>3 DEF Shows
  <2>. QED BY <1>4, <2>1, <2>2, <2>3, EndAnswers DEF Refusals
<1>. QED BY <1>1, <1>2, <1>3, <1>4, Steps

LEMMA GoneStep ==
  ASSUME Core, GoneForGood, Next
  PROVE  GoneForGood'
<1>. SUFFICES ASSUME NEW g \in gone'
              PROVE  ~OwnedBy(exports'[g[1]], g[2]) /\ ~MayStillStore(g[1], g[2])'
  BY DEF GoneForGood, OwnedBy, MayStillStore
<1>0. gone' \subseteq Exports \X ExportCallers
  BY CoreStep DEF Core, TypeOK
<1>1. g = <<g[1], g[2]>> /\ g[1] \in Exports
  BY <1>0
<1>2. ~MayStillStore(g[1], g[2])
  BY GoneSteps DEF GoneForGood
<1>3. ~MayStillStore(g[1], g[2])'
  BY <1>1, <1>2, MayStillStoreSteps
<1>4. ~OwnedBy(exports'[g[1]], g[2])
  BY <1>1, <1>2, GoneSteps, OwnedSteps DEF GoneForGood
<1>. QED BY <1>3, <1>4

(* Once a purge is answered, the artifact stays deleted until its owner    *)
(* asks for the export again: neither a create that had already lost its   *)
(* INSERT, nor a retry of the purge, nor another caller brings it back.    *)
THEOREM PurgedStaysPurged == Spec => []PurgeIsFinal
<1>1. Init => GoneForGood
  BY DEF Init, GoneForGood
<1>2. Core /\ GoneForGood /\ [Next]_vars => GoneForGood'
  <2>1. GoneForGood /\ UNCHANGED vars => GoneForGood'
    BY DEF vars, answers, late, locals, GoneForGood, OwnedBy, MayStillStore
  <2>. QED BY <2>1, GoneStep
<1>3. GoneForGood => PurgeIsFinal
  BY DEF GoneForGood, PurgeIsFinal
<1>. QED BY <1>1, <1>2, <1>3, CoreAlways, PTL DEF Spec

-----------------------------------------------------------------------------
(* Every source contributes, in Plan order, and all it sends is kept *)

(* What was kept of the responses, and what was not yet looked at. *)
InHand(s) == items[s] \o From(plan[s][source[s]], inbox[s])

LEMMA Concatenated ==
  ASSUME NEW S, NEW v \in Seq(S), NEW w \in Seq(S)
  PROVE  /\ v \o w \in Seq(S) /\ Len(v \o w) = Len(v) + Len(w)
         /\ \A j \in 1..Len(v) : (v \o w)[j] = v[j]
         /\ Len(w) >= 1 => (v \o w)[Len(v) + 1] = w[1]
         /\ w = << >> => v \o w = v
<1>1. v \o w \in Seq(S)
  OBVIOUS
<1>2. Len(v \o w) = Len(v) + Len(w)
  OBVIOUS
<1>3. \A j \in 1..Len(v) : (v \o w)[j] = v[j]
  OBVIOUS
<1>4. Len(w) >= 1 => (v \o w)[Len(v) + 1] = w[1]
  OBVIOUS
<1>5. w = << >> => v \o w = v
  OBVIOUS
<1>. QED BY <1>1, <1>2, <1>3, <1>4, <1>5

LEMMA InHandType ==
  ASSUME Core, NEW s \in Slots, pc[s] = "items"
  PROVE  /\ items[s] \in Seq(StoredItems) /\ InHand(s) \in Seq(StoredItems)
         /\ Len(InHand(s)) = Len(items[s]) + Len(inbox[s])
         /\ \A j \in 1..Len(items[s]) : InHand(s)[j] = items[s][j]
         /\ inbox[s] # << >> => InHand(s)[Len(items[s]) + 1] = NewItem(s)
         /\ inbox[s] = << >> => InHand(s) = items[s]
<1>. DEFINE rest == From(plan[s][source[s]], inbox[s])
<1>1. /\ inbox[s] \in Seq(Items) /\ items[s] \in Seq(StoredItems)
      /\ plan[s][source[s]] \in Sources
  BY SourceType DEF Core, TypeOK, Creating, Collecting
<1>2. DOMAIN inbox[s] = 1..Len(inbox[s]) /\ Len(inbox[s]) \in Nat
  BY <1>1
<1>3. rest \in Seq(StoredItems) /\ Len(rest) = Len(inbox[s])
  BY <1>1, FromType
<1>4. inbox[s] # << >> => rest[1] = NewItem(s)
  BY <1>1, <1>2, FromType DEF NewItem
<1>5. inbox[s] # << >> => Len(rest) >= 1
  BY <1>1, <1>3
<1>6. InHand(s) = items[s] \o rest
  BY DEF InHand
<1>7. inbox[s] = << >> => rest = << >>
  BY <1>2, <1>3
<1>. HIDE DEF rest
<1>8. /\ items[s] \o rest \in Seq(StoredItems)
      /\ Len(items[s] \o rest) = Len(items[s]) + Len(rest)
      /\ \A j \in 1..Len(items[s]) : (items[s] \o rest)[j] = items[s][j]
      /\ Len(rest) >= 1 => (items[s] \o rest)[Len(items[s]) + 1] = rest[1]
      /\ rest = << >> => items[s] \o rest = items[s]
  <2>1. items[s] \in Seq(StoredItems) /\ rest \in Seq(StoredItems)
    BY <1>1, <1>3
  <2>. QED BY <2>1, Concatenated, Zenon
<1>. QED BY <1>1, <1>3, <1>4, <1>5, <1>6, <1>7, <1>8

(* How many sources of its Plan have answered. *)
Heard(s) == IF pc[s] = "source" THEN source[s] - 1 ELSE source[s]

(* The sources answered in Plan order, and none of their items was lost.   *)
HeardInOrder(s) ==
  /\ Len(heard[s]) = Heard(s)
  /\ \A i \in 1..Heard(s) : heard[s][i] = plan[s][i]
  /\ sent[s] = IF pc[s] = "items" THEN InHand(s) ELSE items[s]

InOrder == \A s \in Slots : pc[s] \in Collecting => HeardInOrder(s)

(* Keeping the next item moves it from the response to the artifact.       *)
LEMMA MovedOver ==
  ASSUME NEW its \in Seq(StoredItems), NEW src \in Sources, NEW box \in Seq(Items), box # << >>
  PROVE  its \o From(src, box)
           = Append(its, [source |-> src, item |-> Head(box)]) \o From(src, Tail(box))
<1>. DEFINE x == [source |-> src, item |-> Head(box)]
            all == From(src, box)
            rest == From(src, Tail(box))
<1>1. /\ Tail(box) \in Seq(Items) /\ Len(Tail(box)) = Len(box) - 1 /\ Len(box) \in Nat
      /\ Len(box) >= 1 /\ Head(box) = box[1] /\ Head(box) \in Items
      /\ \A i \in 1..Len(Tail(box)) : Tail(box)[i] = box[i + 1]
  OBVIOUS
<1>2. /\ all \in Seq(StoredItems) /\ Len(all) = Len(box) /\ all[1] = x
      /\ \A i \in 1..Len(box) : all[i] = [source |-> src, item |-> box[i]]
  <2>1. /\ all \in Seq(StoredItems) /\ Len(all) = Len(box)
        /\ \A i \in 1..Len(box) : all[i] = [source |-> src, item |-> box[i]]
    BY FromType
  <2>2. 1 \in 1..Len(box)
    BY <1>1
  <2>. HIDE DEF all
  <2>3. all[1] = x
    BY <1>1, <2>1, <2>2
  <2>. QED BY <2>1, <2>3
<1>3. /\ rest \in Seq(StoredItems) /\ Len(rest) = Len(box) - 1
      /\ \A i \in 1..(Len(box) - 1) : rest[i] = all[i + 1]
  <2>1. \A i \in 1..(Len(box) - 1) : i + 1 \in 1..Len(box)
    BY <1>1
  <2>2. \A i \in 1..(Len(box) - 1) : rest[i] = [source |-> src, item |-> Tail(box)[i]]
    BY <1>1, FromType
  <2>. HIDE DEF all, rest
  <2>3. \A i \in 1..(Len(box) - 1) : rest[i] = all[i + 1]
    BY <1>1, <1>2, <2>1, <2>2
  <2>. QED BY <1>1, <2>3, FromType DEF rest
<1>4. x \in StoredItems
  BY <1>1 DEF StoredItems
<1>. HIDE DEF x, all, rest
<1>5. its \o all = Append(its, x) \o rest
  <2>. DEFINE more == Append(its, x)
  <2>1. /\ more \in Seq(StoredItems) /\ Len(more) = Len(its) + 1 /\ more[Len(its) + 1] = x
        /\ \A i \in 1..Len(its) : more[i] = its[i]
        /\ Len(its) \in Nat
    BY <1>4
  <2>. HIDE DEF more
  <2>2. /\ Len(its \o all) = Len(its) + Len(box)
        /\ Len(more \o rest) = Len(its) + Len(box)
    <3>1. Len(its \o all) = Len(its) + Len(all) /\ Len(more \o rest) = Len(more) + Len(rest)
      <4>1. /\ its \in Seq(StoredItems) /\ all \in Seq(StoredItems)
            /\ more \in Seq(StoredItems) /\ rest \in Seq(StoredItems)
        BY <1>2, <1>3, <2>1
      <4>. QED BY <4>1, Concatenated, Zenon
    <3>2. \A m, n \in Nat : (m + 1) + (n - 1) = m + n
      OBVIOUS
    <3>. QED BY <1>1, <1>2, <1>3, <2>1, <3>1, <3>2
  <2>3. ASSUME NEW i \in 1..Len(its \o all)
        PROVE  (its \o all)[i] = (more \o rest)[i]
    <3>. DEFINE m == Len(its)
                n == Len(box)
    <3>1. m \in Nat /\ n \in Nat /\ n >= 1 /\ i \in 1..(m + n) /\ Len(its \o all) = m + n
      BY <1>1, <2>1, <2>2
    <3>2. CASE i <= m
      <4>1. i \in 1..m /\ i \in 1..(m + 1)
        BY <3>1, <3>2
      <4>2. (its \o all)[i] = its[i]
        BY <1>2, <4>1
      <4>3. (more \o rest)[i] = more[i]
        BY <1>3, <2>1, <4>1
      <4>. QED BY <2>1, <4>1, <4>2, <4>3
    <3>3. CASE i = m + 1
      <4>1. (its \o all)[i] = all[1]
        BY <1>1, <1>2, <3>1, <3>3
      <4>2. (more \o rest)[i] = more[m + 1]
        BY <1>3, <2>1, <3>1, <3>3
      <4>. QED BY <1>2, <2>1, <4>1, <4>2
    <3>4. CASE i > m + 1
      <4>1. (its \o all)[i] = all[i - m]
        BY <1>1, <1>2, <3>1, <3>4
      <4>2. (more \o rest)[i] = rest[i - (m + 1)]
        BY <1>1, <1>3, <2>1, <3>1, <3>4
      <4>3. i - (m + 1) \in 1..(n - 1) /\ (i - (m + 1)) + 1 = i - m
        BY <3>1, <3>4
      <4>4. rest[i - (m + 1)] = all[(i - (m + 1)) + 1]
        BY <1>3, <4>3
      <4>. QED BY <4>1, <4>2, <4>3, <4>4
    <3>5. i <= m \/ i = m + 1 \/ i > m + 1
      BY <3>1
    <3>. QED BY <3>2, <3>3, <3>4, <3>5
  <2>4. its \o all \in Seq(StoredItems) /\ more \o rest \in Seq(StoredItems)
    BY <1>2, <1>3, <2>1
  <2>5. its \o all = more \o rest
    BY <2>2, <2>3, <2>4
  <2>. QED BY <2>5 DEF more
<1>. QED BY <1>5 DEF x, all, rest

LEMMA InOrderMoves ==
  ASSUME Core, InOrder, NEW s \in Slots, Moves(s), pc'[s] \in Collecting
  PROVE  HeardInOrder(s)'
<1>0. TypeOK /\ Placed
  BY DEF Core
<1>1. /\ pc[s] \in Creating /\ plan' = plan
      /\ plan[s] \in Plans /\ Len(plan[s]) \in Nat /\ source[s] \in 1..Len(plan[s])
      /\ plan[s][source[s]] \in Sources
      /\ items[s] \in Seq(StoredItems) /\ inbox[s] \in Seq(Items)
      /\ heard[s] \in Seq(Sources)
  BY <1>0, MoveTouchesItself, SourceType DEF Placed, TypeOK
<1>2. pc[s] \in Collecting => HeardInOrder(s)
  BY DEF InOrder
<1>. USE DEF TypeOK, GoTo, Collecting, locals, collect
<1>3. CASE LookupFindsNothing(s)
  <2>1. /\ source'[s] = 1 /\ items'[s] = << >> /\ heard'[s] = << >> /\ sent'[s] = << >>
        /\ pc'[s] = "source"
    BY <1>0, <1>3 DEF LookupFindsNothing, Placed, Fresh
  <2>. QED BY <2>1 DEF HeardInOrder, Heard
<1>4. ASSUME NEW offer \in Offers, SourceContributes(s, offer)
      PROVE  HeardInOrder(s)'
  <2>1. /\ pc[s] = "source" /\ pc'[s] = "items" /\ UNCHANGED <<items, source>>
        /\ heard'[s] = Append(heard[s], plan[s][source[s]])
        /\ sent'[s] = sent[s] \o From(plan[s][source[s]], offer)
        /\ inbox'[s] = offer
    BY <1>0, <1>4 DEF SourceContributes
  <2>2. Heard(s) = source[s] - 1 /\ Heard(s)' = source[s]
    BY <2>1 DEF Heard
  <2>3. sent'[s] = InHand(s)'
    BY <1>1, <1>2, <2>1 DEF HeardInOrder, InHand
  <2>4. Len(heard'[s]) = source[s] /\ \A i \in 1..source[s] : heard'[s][i] = plan[s][i]
    <3>1. Len(heard[s]) = source[s] - 1 /\ \A i \in 1..(source[s] - 1) : heard[s][i] = plan[s][i]
      BY <1>2, <2>1, <2>2 DEF HeardInOrder
    <3>. QED BY <1>1, <2>1, <3>1
  <2>. QED BY <1>1, <2>1, <2>2, <2>3, <2>4 DEF HeardInOrder
<1>5. CASE KeepItem(s)
  <2>1. /\ pc[s] = "items" /\ pc'[s] = "items" /\ UNCHANGED <<heard, sent, source>>
        /\ inbox[s] # << >> /\ inbox'[s] = Tail(inbox[s])
        /\ items'[s] = Append(items[s], [source |-> plan[s][source[s]], item |-> Head(inbox[s])])
    BY <1>0, <1>5 DEF KeepItem
  <2>2. InHand(s)' = InHand(s)
    BY <1>1, <2>1, MovedOver DEF InHand
  <2>. QED BY <1>1, <1>2, <2>1, <2>2 DEF HeardInOrder, Heard
<1>6. CASE NextSource(s)
  <2>1. /\ pc[s] = "items" /\ pc'[s] = "source" /\ UNCHANGED <<items, heard, sent>>
        /\ source'[s] = source[s] + 1 /\ inbox[s] = << >>
    BY <1>0, <1>6 DEF NextSource
  <2>2. Heard(s)' = Heard(s)
    BY <1>1, <2>1 DEF Heard
  <2>3. InHand(s) = items[s]
    BY <2>1, InHandType
  <2>. QED BY <1>1, <1>2, <2>1, <2>2, <2>3 DEF HeardInOrder
<1>7. CASE Serialize(s)
  <2>1. /\ pc[s] = "items" /\ pc'[s] = "insert" /\ UNCHANGED <<items, heard, sent, source>>
        /\ inbox[s] = << >>
    BY <1>0, <1>7 DEF Serialize
  <2>2. InHand(s) = items[s]
    BY <2>1, InHandType
  <2>. QED BY <1>1, <1>2, <2>1, <2>2 DEF HeardInOrder, Heard
<1>8. CASE InsertLoses(s)
  BY <1>0, <1>8 DEF InsertLoses
<1>. QED BY <1>3, <1>4, <1>5, <1>6, <1>7, <1>8 DEF Moves

LEMMA StaysInOrder ==
  ASSUME NEW t \in Slots, HeardInOrder(t), pc'[t] = pc[t], plan'[t] = plan[t],
         source'[t] = source[t], inbox'[t] = inbox[t], items'[t] = items[t],
         heard'[t] = heard[t], sent'[t] = sent[t]
  PROVE  HeardInOrder(t)'
BY DEF HeardInOrder, Heard, InHand

LEMMA InOrderStep ==
  ASSUME Core, InOrder, [Next]_vars
  PROVE  InOrder'
<1>0. TypeOK
  BY DEF Core
<1>. SUFFICES ASSUME NEW t \in Slots, pc'[t] \in Collecting
              PROVE  HeardInOrder(t)'
  BY DEF InOrder
<1>1. pc[t] \in Collecting => HeardInOrder(t)
  BY DEF InOrder
<1>2. CASE UNCHANGED vars
  BY <1>1, <1>2, StaysInOrder DEF vars, locals, collect
<1>3. CASE Environment
  BY <1>1, <1>3, EnvironmentWaits, StaysInOrder
<1>4. ASSUME NEW s \in Slots, NEW c \in Callers, NEW e \in Exports, NEW w \in BOOLEAN,
             Starts(s, c, e, w)
      PROVE  HeardInOrder(t)'
  BY <1>0, <1>1, <1>4, StartTouchesItself, StaysInOrder DEF Collecting
<1>5. ASSUME NEW s \in Slots, Moves(s)
      PROVE  HeardInOrder(t)'
  BY <1>0, <1>1, <1>5, MoveTouchesItself, InOrderMoves, StaysInOrder DEF OthersWait
<1>6. ASSUME NEW s \in Slots, Ends(s)
      PROVE  HeardInOrder(t)'
  BY <1>0, <1>1, <1>6, EndTouchesItself, StaysInOrder DEF OthersWait, Collecting
<1>. QED BY <1>2, <1>3, <1>4, <1>5, <1>6, Steps

LEMMA InOrderIsWhole ==
  ASSUME Core, InOrder
  PROVE  NoPartialArtifact
<1>. SUFFICES ASSUME NEW s \in Slots, pc[s] = "insert"
              PROVE  heard[s] = plan[s] /\ items[s] = sent[s]
  BY DEF NoPartialArtifact
<1>1. /\ plan[s] \in Plans /\ source[s] = Len(plan[s]) /\ heard[s] \in Seq(Sources)
      /\ HeardInOrder(s)
  BY DEF Core, TypeOK, Placed, Creating, Collecting, InOrder
<1>2. plan[s] \in Seq(Sources)
  BY <1>1, PlanType
<1>3. Len(heard[s]) = Len(plan[s]) /\ \A i \in 1..Len(plan[s]) : heard[s][i] = plan[s][i]
  BY <1>1 DEF HeardInOrder, Heard
<1>4. heard[s] = plan[s]
  BY <1>1, <1>2, <1>3
<1>. QED BY <1>1, <1>4 DEF HeardInOrder

LEMMA InOrderInit == Init => InOrder
BY DEF Init, InOrder, Collecting

(* No INSERT is reached before every source of the Plan has answered, once *)
(* and in Plan order, and it carries all the items of all their answers in *)
(* the order in which they came, and no others; for Plans of any length    *)
(* and sources that answer any number of items.                            *)
THEOREM ArtifactsAreWhole == Spec => []NoPartialArtifact
BY InOrderInit, InOrderStep, InOrderIsWhole, CoreAlways, PTL DEF Spec

-----------------------------------------------------------------------------
(* A refusal for size is deserved *)

LEMMA TooLargeItem ==
  ASSUME Fitting, NEW s \in Slots, ItemTooLarge(s)
  PROVE  ~Fits(InHand(s))
<1>. DEFINE i == Head(inbox[s])
            more == Append(items[s], NewItem(s))
<1>0. Core /\ TypeOK /\ Placed /\ pc[s] = "items" /\ inbox[s] # << >> /\ inbox[s] \in Seq(Items)
  BY DEF Fitting, Core, ItemTooLarge, TypeOK
<1>1. /\ i.bytes > MaxItemBytes \/ Len(items[s]) = MaxItems \/ total[s] + i.bytes > MaxTotalBytes
      /\ total[s] = PayloadBytes(items[s])
  BY <1>0 DEF ItemTooLarge, Verdict, ItemVerdict, Fitting, Collected, Within, Collecting
<1>2. /\ i.bytes \in Nat /\ NewItem(s) \in StoredItems /\ NewItem(s).item = i
      /\ more \in Seq(StoredItems)
  BY <1>0, NewItemType DEF NewItem
<1>3. /\ InHand(s) \in Seq(StoredItems) /\ items[s] \in Seq(StoredItems)
      /\ Len(InHand(s)) = Len(items[s]) + Len(inbox[s]) /\ Len(inbox[s]) >= 1
      /\ \A j \in 1..Len(items[s]) : InHand(s)[j] = items[s][j]
      /\ InHand(s)[Len(items[s]) + 1] = NewItem(s)
      /\ Len(items[s]) + 1 \in 1..Len(InHand(s)) /\ DOMAIN InHand(s) = 1..Len(InHand(s))
  <2>1. Len(inbox[s]) >= 1
    BY <1>0
  <2>2. InHand(s) \in Seq(StoredItems) /\ items[s] \in Seq(StoredItems)
    BY <1>0, InHandType
  <2>3. Len(InHand(s)) = Len(items[s]) + Len(inbox[s])
    BY <1>0, InHandType
  <2>6. /\ \A j \in 1..Len(items[s]) : InHand(s)[j] = items[s][j]
        /\ InHand(s)[Len(items[s]) + 1] = NewItem(s)
    BY <1>0, InHandType
  <2>4. Len(items[s]) \in Nat /\ Len(inbox[s]) \in Nat /\ DOMAIN InHand(s) = 1..Len(InHand(s))
    BY <1>0, <2>2
  <2>5. Len(items[s]) + 1 \in 1..Len(InHand(s))
    <3>1. \A m, n \in Nat : n >= 1 => m + 1 \in 1..(m + n)
      OBVIOUS
    <3>. QED BY <2>1, <2>3, <2>4, <3>1
  <2>. QED BY <2>1, <2>2, <2>3, <2>4, <2>5, <2>6
<1>. HIDE DEF i
<1>4. CASE i.bytes > MaxItemBytes
  <2>1. NewItem(s) \in Range(InHand(s))
    BY <1>0, <1>3 DEF Range
  <2>2. ~(NewItem(s).item.bytes <= MaxItemBytes)
    BY <1>2, <1>4, LimitAssumption
  <2>. QED BY <2>1, <2>2 DEF Fits
<1>5. CASE Len(items[s]) = MaxItems
  <2>1. ~(Len(InHand(s)) <= MaxItems)
    BY <1>0, <1>3, <1>5, LimitAssumption
  <2>. QED BY <2>1 DEF Fits
<1>6. CASE total[s] + i.bytes > MaxTotalBytes
  <2>1. /\ Len(more) <= Len(InHand(s))
        /\ \A j \in 1..Len(more) : more[j] = InHand(s)[j]
    <3>1. /\ Len(more) = Len(items[s]) + 1 /\ more[Len(items[s]) + 1] = NewItem(s)
          /\ \A j \in 1..Len(items[s]) : more[j] = items[s][j]
      BY <1>2, <1>3
    <3>2. Len(items[s]) \in Nat /\ Len(inbox[s]) \in Nat
      BY <1>0, <1>3
    <3>3. \A j \in 1..(Len(items[s]) + 1) : j \in 1..Len(items[s]) \/ j = Len(items[s]) + 1
      BY <3>2
    <3>. HIDE DEF more
    <3>4. Len(more) <= Len(InHand(s))
      BY <1>3, <3>1, <3>2
    <3>. QED BY <1>3, <3>1, <3>3, <3>4
  <2>. HIDE DEF more
  <2>2. PayloadBytes(more) <= PayloadBytes(InHand(s))
    BY <1>2, <1>3, <2>1, PayloadOfMore
  <2>3. PayloadBytes(more) = total[s] + i.bytes
    BY <1>1, <1>2, <1>3, PayloadOfOneMore DEF more
  <2>4. total[s] + i.bytes \in Nat /\ PayloadBytes(InHand(s)) \in Nat
    BY <1>0, <1>2, <1>3, PayloadType DEF TypeOK
  <2>5. ~(PayloadBytes(InHand(s)) <= MaxTotalBytes)
    BY <1>6, <2>2, <2>3, <2>4, LimitAssumption
  <2>. QED BY <2>5 DEF Fits
<1>. QED BY <1>1, <1>4, <1>5, <1>6

LEMMA TooLargeArtifact ==
  ASSUME Fitting, NEW s \in Slots, ArtifactTooLarge(s)
  PROVE  ~Fits(InHand(s))
<1>1. InHand(s) = items[s] /\ items[s] \in Seq(StoredItems) /\ SerializedTooLarge(items[s])
  BY InHandType DEF Fitting, ArtifactTooLarge
<1>2. SerializedBytes(items[s]) \in Nat
  BY <1>1, SerializedType
<1>3. ~(SerializedBytes(items[s]) <= MaxTotalBytes)
  BY <1>1, <1>2, LimitAssumption DEF SerializedTooLarge
<1>. QED BY <1>1, <1>3 DEF Fits

LEMMA TooLargeStep ==
  ASSUME Fitting, [Next]_vars, NEW s \in Slots,
         pc[s] = "items", pc'[s] = "idle", reply'.kind = "artifact_too_large"
  PROVE  ~Fits(InHand(s))
<1>0. TypeOK
  BY DEF Fitting, Core
<1>1. Next
  BY DEF vars
<1>2. ~Environment
  BY EnvironmentWaits
<1>3. ASSUME NEW t \in Slots, NEW c \in Callers, NEW e \in Exports, NEW w \in BOOLEAN,
             Starts(t, c, e, w)
      PROVE  FALSE
  BY <1>0, <1>3, StartTouchesItself
<1>4. ASSUME NEW t \in Slots, Moves(t)
      PROVE  FALSE
  BY <1>0, <1>4, MoveTouchesItself DEF OthersWait
<1>5. ASSUME NEW t \in Slots, Ends(t)
      PROVE  ItemTooLarge(s) \/ ArtifactTooLarge(s)
  <2>1. t = s
    BY <1>0, <1>5, EndTouchesItself DEF OthersWait
  <2>2. ~ItemIsMalformed(s)
    BY DEF ItemIsMalformed, Finish, Say
  <2>. QED BY <1>5, <2>1, <2>2 DEF Ends, AnswerExisting, AnswerConflict, ReloadFindsNothing,
             SourceRejects, InsertWins, ReadArtifact, PurgeArtifact, Fail, FailInFlight
<1>. QED BY <1>1, <1>2, <1>3, <1>4, <1>5, Steps, TooLargeItem, TooLargeArtifact

(* A caller is told artifact_too_large only of an export that, taken       *)
(* whole, exceeds a documented limit: the running checks refuse nothing    *)
(* that would have fitted.  With StoredFits, the limits are exact.         *)
THEOREM RefusalsAreDeserved == Spec => TooLargeIsTrue
<1>1. ASSUME Fitting, InOrder, [Next]_vars
      PROVE  [\A s \in Slots :
                pc[s] = "items" /\ pc'[s] = "idle" /\ reply'.kind = "artifact_too_large" =>
                  ~Fits(sent[s])]_vars
  BY <1>1, TooLargeStep DEF InOrder, HeardInOrder, Collecting
<1>2. Spec => []InOrder
  BY InOrderInit, InOrderStep, CoreAlways, PTL DEF Spec
<1>. QED BY <1>1, <1>2, FittingAlways, PTL DEF Spec, TooLargeIsTrue

-----------------------------------------------------------------------------
(* How far an invocation is from its end *)

(* Items that may still be kept; steps of the sources not reached yet. *)
Room(s)  == MaxItems - Len(items[s])
Ahead(s) == 2 * (Len(plan[s]) - source[s])

StepsLeft(s) ==
  CASE pc[s] = "lookup" -> Room(s) + Ahead(s) + 5
    [] pc[s] = "source" -> Room(s) + Ahead(s) + 4
    [] pc[s] = "items"  -> Room(s) + Ahead(s) + 3
    [] pc[s] = "insert" -> 2
    [] pc[s] \in {"reload", "read", "purge"} -> 1
    [] pc[s] = "idle"   -> 0

(* What creating an export from the current sources may take. *)
Longest == MaxItems + 2 * Len(bound) + 3

LEMMA CountersAre ==
  ASSUME Fitting, NEW s \in Slots, pc[s] \in {"lookup", "source", "items"}
  PROVE  /\ Room(s) \in Nat /\ Len(items[s]) \in Nat
         /\ source[s] \in Nat /\ Len(plan[s]) \in Nat /\ Ahead(s) \in Nat
<1>1. pc[s] \in Creating /\ (pc[s] # "lookup" => pc[s] \in Collecting)
  BY DEF Creating, Collecting
<1>2. Len(items[s]) \in Nat /\ Len(items[s]) <= MaxItems /\ MaxItems \in Nat
  <2>1. items[s] \in Seq(StoredItems)
    BY DEF Fitting, Core, TypeOK
  <2>2. pc[s] = "lookup" => Len(items[s]) = 0
    BY DEF Fitting, Core, Placed, Fresh, Collecting
  <2>. QED BY <1>1, <2>1, <2>2, LimitAssumption DEF Fitting, Collected, Within
<1>3. Len(plan[s]) \in Nat /\ source[s] \in 1..Len(plan[s])
  BY <1>1, SourceType DEF Fitting, Core
<1>. QED BY <1>2, <1>3 DEF Room, Ahead

LEMMA StepsLeftType ==
  ASSUME Fitting, NEW s \in Slots
  PROVE  StepsLeft(s) \in Nat /\ (pc[s] # "idle" => StepsLeft(s) > 0)
<1>1. pc[s] \in {"lookup", "source", "items", "insert", "reload", "read", "purge", "idle"}
  BY DEF Fitting, Core, TypeOK
<1>. HIDE DEF Room, Ahead
<1>. QED BY <1>1, CountersAre DEF StepsLeft

(* A step of its own brings an invocation nearer to its end, or is its end. *)
LEMMA MoveNears ==
  ASSUME Fitting, NEW s \in Slots, Moves(s)
  PROVE  StepsLeft(s)' < StepsLeft(s)
<1>. USE DEF GoTo
<1>0. TypeOK
  BY DEF Fitting, Core
<1>1. UNCHANGED plan /\ pc[s] # "reload"
  BY <1>0, MoveTouchesItself
  DEF Moves, LookupFindsNothing, SourceContributes, KeepItem, NextSource, Serialize, InsertLoses
<1>2. ASSUME <<pc[s], pc'[s]>> \in {<<"lookup", "source">>, <<"source", "items">>},
             UNCHANGED <<source[s], items[s]>>
      PROVE  StepsLeft(s)' < StepsLeft(s)
  <2>1. Room(s)' = Room(s) /\ Ahead(s)' = Ahead(s) /\ Room(s) \in Nat /\ Ahead(s) \in Nat
    BY <1>1, <1>2, CountersAre DEF Room, Ahead
  <2>. HIDE DEF Room, Ahead
  <2>. QED BY <1>2, <2>1 DEF StepsLeft
<1>3. CASE LookupFindsNothing(s)
  BY <1>0, <1>2, <1>3 DEF LookupFindsNothing, TypeOK, locals, collect
<1>4. ASSUME NEW offer \in Offers, SourceContributes(s, offer)
      PROVE  StepsLeft(s)' < StepsLeft(s)
  BY <1>0, <1>2, <1>4 DEF SourceContributes, TypeOK
<1>5. CASE KeepItem(s)
  <2>1. /\ pc[s] = "items" /\ pc'[s] = "items" /\ source'[s] = source[s]
        /\ items'[s] = Append(items[s], NewItem(s)) /\ items[s] \in Seq(StoredItems)
    BY <1>0, <1>5 DEF KeepItem, NewItem, TypeOK
  <2>2. Len(items'[s]) = Len(items[s]) + 1
    BY <2>1
  <2>3. Room(s)' = Room(s) - 1 /\ Ahead(s)' = Ahead(s) /\ Room(s) \in Nat /\ Ahead(s) \in Nat
    BY <1>1, <2>1, <2>2, CountersAre, LimitAssumption DEF Room, Ahead
  <2>. HIDE DEF Room, Ahead
  <2>. QED BY <2>1, <2>3 DEF StepsLeft
<1>6. CASE NextSource(s)
  <2>1. /\ pc[s] = "items" /\ pc'[s] = "source" /\ source'[s] = source[s] + 1
        /\ items'[s] = items[s]
    BY <1>0, <1>6 DEF NextSource, TypeOK
  <2>2. Room(s)' = Room(s) /\ Ahead(s)' = Ahead(s) - 2 /\ Room(s) \in Nat /\ Ahead(s) \in Nat
    BY <1>1, <2>1, CountersAre DEF Room, Ahead
  <2>. HIDE DEF Room, Ahead
  <2>. QED BY <2>1, <2>2 DEF StepsLeft
<1>7. CASE Serialize(s)
  <2>1. pc[s] = "items" /\ pc'[s] = "insert"
    BY <1>0, <1>7 DEF Serialize, TypeOK
  <2>. HIDE DEF Room, Ahead
  <2>. QED BY <2>1, CountersAre DEF StepsLeft
<1>8. CASE InsertLoses(s)
  <2>1. pc[s] = "insert" /\ pc'[s] = "reload"
    BY <1>0, <1>8 DEF InsertLoses, TypeOK
  <2>. QED BY <2>1 DEF StepsLeft
<1>. QED BY <1>3, <1>4, <1>5, <1>6, <1>7, <1>8 DEF Moves

LEMMA EndNears ==
  ASSUME Fitting, NEW s \in Slots, Ends(s)
  PROVE  pc[s] # "idle" /\ StepsLeft(s)' < StepsLeft(s)
<1>1. pc[s] # "idle" /\ pc'[s] = "idle"
  BY EndTouchesItself DEF Fitting, Core
<1>2. StepsLeft(s)' = 0
  BY <1>1 DEF StepsLeft
<1>. QED BY <1>1, <1>2, StepsLeftType

LEMMA StartIsBounded ==
  ASSUME Fitting, NEW s \in Slots, NEW c \in Callers, NEW e \in Exports, NEW w \in BOOLEAN,
         Starts(s, c, e, w)
  PROVE  pc[s] = "idle" /\ StepsLeft(s)' <= Longest
<1>. DEFINE n == Len(bound)
<1>1. /\ pc[s] = "idle" /\ pc'[s] \in {"idle", "lookup", "read", "purge"}
      /\ UNCHANGED <<source, items>>
  BY StartTouchesItself DEF Fitting, Core
<1>2. n \in Nat /\ MaxItems \in Nat /\ Longest = MaxItems + 2 * n + 3
  BY PlanType, LimitAssumption DEF Fitting, Core, TypeOK, Longest
<1>3. CASE pc'[s] = "lookup"
  <2>1. plan'[s] = bound
    BY <1>1, <1>3
    DEF Fitting, Core, TypeOK, Starts, StartCreate, StartRead, StartPurge, Refuse, Admit, Enter
  <2>2. source[s] = 1 /\ Len(items[s]) = 0
    BY <1>1 DEF Fitting, Core, Placed, Fresh, Collecting
  <2>3. Room(s)' = MaxItems /\ Ahead(s)' = 2 * (n - 1)
    BY <1>1, <1>2, <2>1, <2>2 DEF Room, Ahead
  <2>4. StepsLeft(s)' = MaxItems + 2 * (n - 1) + 5
    BY <1>3, <2>3 DEF StepsLeft
  <2>. HIDE DEF n
  <2>. QED BY <1>1, <1>2, <2>4
<1>4. CASE pc'[s] # "lookup"
  <2>1. StepsLeft(s)' \in {0, 1}
    BY <1>1, <1>4 DEF StepsLeft
  <2>. HIDE DEF n
  <2>. QED BY <1>1, <1>2, <2>1
<1>. QED BY <1>3, <1>4

(* However much the sources send, whatever they answer and however creates *)
(* and purges chase each other, each step of an invocation brings it       *)
(* nearer to its end and no step of another takes it back: it makes at     *)
(* most max_items + 2 * sources + 3 steps (lib.rs:242-336).  This is what  *)
(* InvocationEnds rests on; that the steps are taken is fairness.          *)
THEOREM EveryStepNearsTheEnd ==
  Spec => /\ [](\A s \in Slots : StepsLeft(s) \in Nat)
          /\ [][\A s \in Slots :
                  IF pc[s] = "idle" THEN StepsLeft(s)' <= Longest
                  ELSE \/ StepsLeft(s)' < StepsLeft(s)
                       \/ /\ ~(Advance(s) \/ Fail(s) \/ FailInFlight(s))
                          /\ StepsLeft(s)' = StepsLeft(s)]_vars
<1>. DEFINE Nears(s) ==
       IF pc[s] = "idle" THEN StepsLeft(s)' <= Longest
       ELSE \/ StepsLeft(s)' < StepsLeft(s)
            \/ /\ ~(Advance(s) \/ Fail(s) \/ FailInFlight(s))
               /\ StepsLeft(s)' = StepsLeft(s)
<1>1. Fitting => \A s \in Slots : StepsLeft(s) \in Nat
  BY StepsLeftType
<1>2. ASSUME Fitting, [Next]_vars, NEW s \in Slots
      PROVE  Nears(s)
  <2>0. TypeOK
    BY <1>2 DEF Fitting, Core
  <2>1. Advance(s) \/ Fail(s) \/ FailInFlight(s) => Moves(s) \/ Ends(s)
    BY DEF Advance, Moves, Ends
  <2>2. Moves(s) \/ Ends(s) => pc[s] # "idle" /\ StepsLeft(s)' < StepsLeft(s)
    <3>1. Moves(s) => pc[s] # "idle"
      BY <2>0, MoveTouchesItself DEF Creating, Collecting
    <3>. QED BY <1>2, <3>1, MoveNears, EndNears
  <2>3. \/ Moves(s) \/ Ends(s)
        \/ pc[s] = "idle" /\ StepsLeft(s)' <= Longest
        \/ UNCHANGED <<pc[s], plan[s], source[s], items[s]>>
    <3>1. CASE Environment \/ UNCHANGED vars
      BY <3>1, EnvironmentWaits DEF vars, locals, collect
    <3>2. ASSUME NEW t \in Slots, Moves(t) \/ Ends(t)
          PROVE  t = s \/ UNCHANGED <<pc[s], plan[s], source[s], items[s]>>
      BY <2>0, <3>2, MoveTouchesItself, EndTouchesItself DEF OthersWait
    <3>3. ASSUME NEW t \in Slots, NEW c \in Callers, NEW e \in Exports, NEW w \in BOOLEAN,
                 Starts(t, c, e, w)
          PROVE  \/ pc[s] = "idle" /\ StepsLeft(s)' <= Longest
                 \/ UNCHANGED <<pc[s], plan[s], source[s], items[s]>>
      <4>1. t # s => UNCHANGED <<pc[s], plan[s], source[s], items[s]>>
        BY <2>0, <3>3, StartTouchesItself
      <4>2. t = s => pc[s] = "idle" /\ StepsLeft(s)' <= Longest
        BY <1>2, <3>3, StartIsBounded
      <4>. QED BY <4>1, <4>2
    <3>. QED BY <1>2, <3>1, <3>2, <3>3, Steps
  <2>4. UNCHANGED <<pc[s], plan[s], source[s], items[s]>> => StepsLeft(s)' = StepsLeft(s)
    BY DEF StepsLeft, Room, Ahead
  <2>5. pc[s] = "idle" => StepsLeft(s) <= Longest
    <3>. DEFINE n == Len(bound)
    <3>1. n \in Nat /\ MaxItems \in Nat /\ Longest = MaxItems + 2 * n + 3
      BY <2>0, PlanType, LimitAssumption DEF TypeOK, Longest
    <3>2. pc[s] = "idle" => StepsLeft(s) = 0
      BY DEF StepsLeft
    <3>. HIDE DEF n
    <3>. QED BY <3>1, <3>2
  <2>6. StepsLeft(s) \in Nat
    BY <1>2, <1>1
  <2>. QED BY <2>1, <2>2, <2>3, <2>4, <2>5, <2>6
<1>3. Fitting /\ [Next]_vars => \A s \in Slots : Nears(s)
  BY <1>2
<1>. QED BY <1>1, <1>3, FittingAlways, PTL DEF Spec

-----------------------------------------------------------------------------
(* The registry measures artifacts as the coordinator does. *)

LEMMA SameSums == \A w : Registry!SumOf(w) = SumOf(w)
BY DEF SumOf, Registry!SumOf

LEMMA SameMeasures ==
  /\ \A its : Registry!PayloadBytes(its) = PayloadBytes(its)
  /\ \A its : Registry!SerializedBytes(its) = SerializedBytes(its)
  /\ \A its : Registry!Fits(its) <=> Fits(its)
  /\ \A its : Registry!WellFormed(its) <=> WellFormed(its)
  /\ \A row : Registry!Summary(row) = Summary(row)
  /\ \A row : Registry!Artifact(row) = Artifact(row)
  /\ Registry!NoReply = NoReply
<1>1. \A its : Registry!PayloadBytes(its) = PayloadBytes(its)
  BY SameSums DEF PayloadBytes, Registry!PayloadBytes
<1>2. \A its : Registry!SerializedBytes(its) = SerializedBytes(its)
  BY SameSums DEF SerializedBytes, Registry!SerializedBytes
<1>0. \A its : Registry!Range(its) = Range(its)
  BY DEF Range, Registry!Range
<1>3. \A its : Registry!Fits(its) <=> Fits(its)
  BY <1>0, <1>1, <1>2 DEF Fits, Registry!Fits
<1>4. \A its : Registry!WellFormed(its) <=> WellFormed(its)
  BY <1>0 DEF WellFormed, Registry!WellFormed
<1>5. /\ \A row : Registry!Summary(row) = Summary(row)
      /\ \A row : Registry!Artifact(row) = Artifact(row)
      /\ Registry!NoReply = NoReply
  BY DEF Summary, Registry!Summary, Artifact, Registry!Artifact, NoReply, Registry!NoReply
<1>. QED BY <1>1, <1>2, <1>3, <1>4, <1>5

-----------------------------------------------------------------------------
(* Steps that map to a stutter or to one answer *)

LEMMA QuietStep ==
  ASSUME reply' = NoReply, UNCHANGED <<exports, purges>>
  PROVE  Registry!Next
BY SameMeasures DEF Registry!Next

LEMMA AnswerStep ==
  ASSUME NEW kind, NEW r, NEW body, Say(kind, r, body), UNCHANGED <<exports, purges>>,
         Registry!Truthful([kind |-> kind, to |-> r, body |-> body])
  PROVE  Registry!Next
<1>1. reply' = [kind |-> kind, to |-> r, body |-> body]
  BY DEF Say
<1>2. reply' # Registry!NoReply
  <2>1. DOMAIN reply' # DOMAIN Registry!NoReply
    BY <1>1 DEF Registry!NoReply
  <2>. QED BY <2>1
<1>. QED BY <1>1, <1>2 DEF Registry!Next, Registry!Answer

(* An INSERT that finds the id free is the artifact's appearance. *)
LEMMA StoreStep ==
  ASSUME Fitting, NEW e \in Exports, NEW row \in Rows, Stores(e, row), UNCHANGED purges,
         \/ reply' = NoReply
         \/ /\ reply'.kind = "created" /\ reply'.to.export = e
            /\ reply'.to.caller = row.owner /\ reply'.to.target = row.target
            /\ reply'.body = Summary(row)
  PROVE  Registry!Next
<1>1. Storable(row)
  BY NewRowIsStorable DEF Fitting, StoredArtifactsFit, Storable, Stores
<1>2. exports \in [Exports -> Rows \cup {NoExport}]
  BY DEF Fitting, Core, TypeOK
<1>3. exports'[e] = row /\ exports[e] = NoExport /\ exports' = [exports EXCEPT ![e] = row]
  BY <1>2 DEF Stores
<1>4. Registry!Store(e, row)
  BY <1>1, <1>3, SameMeasures, RowType DEF Registry!Store, Storable
<1>. QED BY <1>3, <1>4 DEF Registry!Next

(* A DELETE that finds its row is the artifact's removal. *)
LEMMA RemoveStep ==
  ASSUME NEW e \in Exports, Removes(e), UNCHANGED purges,
         \/ reply' = NoReply
         \/ /\ reply'.kind = "purged" /\ reply'.to.op = "purge" /\ reply'.to.export = e
            /\ reply'.to.caller = exports[e].owner
  PROVE  Registry!Next
BY SameMeasures DEF Removes, Registry!Next, Registry!Remove

-----------------------------------------------------------------------------
(* Every step maps to a step *)

LEMMA EnvironmentMaps ==
  ASSUME Fitting, Environment
  PROVE  Registry!Next
<1>1. Core /\ TypeOK /\ Placed /\ Asked /\ reply' = NoReply /\ UNCHANGED purges /\ Next
  BY EnvironmentWaits DEF Fitting, Core, Quiet, Next
<1>. QED BY <1>1, TableSteps, QuietStep, StoreStep, RemoveStep

LEMMA RefuseMaps ==
  ASSUME NEW r \in Requests, NEW w \in BOOLEAN, Refuse(r, w), UNCHANGED exports
  PROVE  Registry!Next
<1>1. CASE r.caller \notin ExportCallers /\ Say("forbidden", r, Nothing)
  <2>1. Registry!Truthful([kind |-> "forbidden", to |-> r, body |-> Nothing])
    BY <1>1 DEF Registry!Truthful
  <2>. QED BY <1>1, <2>1, AnswerStep DEF Refuse
<1>2. CASE r.caller \in ExportCallers /\ Say("invalid_request", r, Nothing)
  <2>1. Registry!Truthful([kind |-> "invalid_request", to |-> r, body |-> Nothing])
    BY <1>2 DEF Registry!Truthful
  <2>. QED BY <1>2, <2>1, AnswerStep DEF Refuse
<1>. QED BY <1>1, <1>2 DEF Refuse

LEMMA StartMaps ==
  ASSUME Fitting, NEW s \in Slots, NEW c \in Callers, NEW e \in Exports, NEW w \in BOOLEAN,
         Starts(s, c, e, w)
  PROVE  Registry!Next
<1>0. UNCHANGED exports
  BY StartTouchesItself DEF Fitting, Core
<1>1. ASSUME NEW t \in Targets, StartCreate(s, c, e, t, w)
      PROVE  Registry!Next
  <2>. DEFINE r == [op |-> "create", caller |-> c, export |-> e, target |-> t]
  <2>1. r \in Requests
    BY DEF Requests
  <2>2. Refuse(r, w) \/ (reply' = NoReply /\ UNCHANGED purges)
    BY <1>1 DEF StartCreate, Admit, Enter
  <2>. HIDE DEF r
  <2>. QED BY <1>0, <2>1, <2>2, RefuseMaps, QuietStep
<1>2. ASSUME StartRead(s, c, e, w)
      PROVE  Registry!Next
  <2>. DEFINE r == [op |-> "read", caller |-> c, export |-> e, target |-> NoTarget]
  <2>1. r \in Requests
    BY DEF Requests
  <2>2. Refuse(r, w) \/ (reply' = NoReply /\ UNCHANGED purges)
    BY <1>2 DEF StartRead, Admit, Enter
  <2>. HIDE DEF r
  <2>. QED BY <1>0, <2>1, <2>2, RefuseMaps, QuietStep
<1>3. ASSUME StartPurge(s, c, e, w)
      PROVE  Registry!Next
  <2>. DEFINE r == [op |-> "purge", caller |-> c, export |-> e, target |-> NoTarget]
  <2>1. r \in Requests
    BY DEF Requests
  <2>2. Refuse(r, w) \/
          /\ reply' = NoReply /\ purges' = purges \cup {<<e, c>>}
          /\ c \in ExportCallers
    BY <1>3 DEF StartPurge, Admit, Enter
  <2>3. CASE Refuse(r, w)
    <3>. HIDE DEF r
    <3>. QED BY <1>0, <2>1, <2>3, RefuseMaps
  <2>4. CASE /\ reply' = NoReply /\ purges' = purges \cup {<<e, c>>}
             /\ c \in ExportCallers
    BY <1>0, <2>4, SameMeasures DEF Registry!Next, Registry!AskPurge
  <2>. QED BY <2>2, <2>3, <2>4
<1>. QED BY <1>1, <1>2, <1>3 DEF Starts

LEMMA MoveMaps ==
  ASSUME Fitting, NEW s \in Slots, Moves(s)
  PROVE  Registry!Next
<1>1. reply' = NoReply /\ UNCHANGED purges
  BY MoveTouchesItself DEF Fitting, Core, Quiet
<1>2. Core /\ TypeOK /\ Placed /\ Asked /\ Next
  BY DEF Fitting, Core, Next, Advance, Moves
<1>. QED BY <1>1, <1>2, TableSteps, QuietStep, StoreStep, RemoveStep

(* The answers that show no artifact of the caller. *)
LEMMA RefusalMaps ==
  ASSUME Core, NEW s \in Slots, pc[s] # "idle", UNCHANGED <<exports, purges>>,
         NEW kind, Finish(s, kind, Nothing),
         \/ kind = "failed"
         \/ kind \in {"source_rejected", "artifact_too_large"} /\ pc[s] \in Creating
         \/ /\ kind = "idempotency_conflict" /\ pc[s] \in Creating
            /\ Row(s) # NoExport /\ ~SameExport(Row(s), req[s])
         \/ kind = "not_found" /\ pc[s] = "read" /\ ~OwnedBy(Row(s), req[s].caller)
         \/ kind = "unchanged" /\ pc[s] = "purge" /\ ~OwnedBy(Row(s), req[s].caller)
  PROVE  Registry!Next
<1>1. /\ req[s].caller \in ExportCallers /\ Row(s) = exports[req[s].export]
      /\ pc[s] \in Creating => req[s].op = "create"
      /\ pc[s] \in {"read", "purge"} => req[s].op = pc[s]
  BY LookType DEF Core, Placed
<1>2. Registry!Truthful([kind |-> kind, to |-> req[s], body |-> Nothing])
  BY <1>1 DEF Registry!Truthful, Registry!Mine, SameExport, OwnedBy
<1>. QED BY <1>2, AnswerStep DEF Finish

LEMMA EndMaps ==
  ASSUME Fitting, NEW s \in Slots, Ends(s)
  PROVE  Registry!Next
<1>0. Core /\ TypeOK /\ Placed /\ Asked /\ UNCHANGED purges /\ pc[s] # "idle"
  BY EndTouchesItself DEF Fitting, Core
<1>1. /\ req[s].export \in Exports /\ Row(s) = exports[req[s].export]
      /\ req[s].caller \in ExportCallers
  BY <1>0, LookType DEF Placed
<1>2. CASE AnswerExisting(s)
  <2>1. /\ pc[s] \in Creating /\ Finish(s, "existing", Summary(Row(s))) /\ UNCHANGED exports
        /\ Row(s) # NoExport /\ Row(s).owner = req[s].caller /\ Row(s).target = req[s].target
    BY <1>2 DEF AnswerExisting, SameExport, Creating
  <2>2. req[s].op = "create"
    BY <1>0, <2>1 DEF Placed
  <2>3. Registry!Truthful([kind |-> "existing", to |-> req[s], body |-> Summary(Row(s))])
    BY <1>1, <2>1, <2>2, SameMeasures DEF Registry!Truthful, Registry!Mine
  <2>. QED BY <1>0, <2>1, <2>3, AnswerStep DEF Finish
<1>3. CASE ReadArtifact(s)
  <2>1. CASE OwnedBy(Row(s), req[s].caller) /\ Finish(s, "artifact", Artifact(Row(s)))
    <3>1. req[s].op = "read" /\ UNCHANGED exports
      BY <1>0, <1>3 DEF ReadArtifact, Placed
    <3>2. Registry!Truthful([kind |-> "artifact", to |-> req[s], body |-> Artifact(Row(s))])
      BY <1>1, <2>1, <3>1, SameMeasures DEF Registry!Truthful, Registry!Mine, OwnedBy
    <3>. QED BY <1>0, <2>1, <3>1, <3>2, AnswerStep DEF Finish
  <2>2. CASE ~OwnedBy(Row(s), req[s].caller) /\ Finish(s, "not_found", Nothing)
    BY <1>0, <1>3, <2>2, RefusalMaps DEF ReadArtifact
  <2>. QED BY <1>3, <2>1, <2>2 DEF ReadArtifact
<1>4. CASE InsertWins(s)
  <2>1. /\ pc[s] = "insert" /\ Row(s) = NoExport /\ StoreIn(req[s].export, NewRow(s))
        /\ reply' = [kind |-> "created", to |-> req[s], body |-> Summary(NewRow(s))]
    BY <1>4 DEF InsertWins, Finish, Say
  <2>2. NewRow(s) \in Rows /\ Stores(req[s].export, NewRow(s))
    BY <1>0, <1>1, <2>1, NewRowType DEF Stores, StoreIn, InsertExport
  <2>3. NewRow(s).owner = req[s].caller /\ NewRow(s).target = req[s].target
    BY DEF NewRow
  <2>. QED BY <1>0, <1>1, <2>1, <2>2, <2>3, StoreStep
<1>5. CASE PurgeArtifact(s)
  <2>1. pc[s] = "purge" /\ req[s].op = "purge" /\ DeleteIn(req[s].export, req[s].caller)
    BY <1>0, <1>5 DEF PurgeArtifact, Placed
  <2>2. CASE OwnedBy(Row(s), req[s].caller) /\ Finish(s, "purged", Nothing)
    <3>1. Removes(req[s].export)
      BY <1>0, <1>1, <2>1, <2>2 DEF Asked, Removes, DeleteIn, OwnedBy
    <3>2. exports[req[s].export].owner = req[s].caller
      BY <1>1, <2>2 DEF OwnedBy
    <3>. QED BY <1>0, <1>1, <2>1, <2>2, <3>1, <3>2, RemoveStep DEF Finish, Say
  <2>3. CASE ~OwnedBy(Row(s), req[s].caller) /\ Finish(s, "unchanged", Nothing)
    <3>1. UNCHANGED exports
      BY <1>0, <1>1, <2>1, <2>3 DEF TypeOK, DeleteIn
    <3>. QED BY <1>0, <2>1, <2>3, <3>1, RefusalMaps
  <2>. QED BY <1>5, <2>2, <2>3 DEF PurgeArtifact
<1>6. CASE AnswerConflict(s)
  BY <1>0, <1>6, RefusalMaps DEF AnswerConflict, Creating
<1>7. CASE ReloadFindsNothing(s)
  BY <1>0, <1>7, RefusalMaps DEF ReloadFindsNothing
<1>8. CASE SourceRejects(s)
  BY <1>0, <1>8, RefusalMaps DEF SourceRejects, Creating, Collecting
<1>9. CASE ItemTooLarge(s)
  BY <1>0, <1>9, RefusalMaps DEF ItemTooLarge, Creating, Collecting
<1>10. CASE ItemIsMalformed(s)
  BY <1>0, <1>10, RefusalMaps DEF ItemIsMalformed
<1>11. CASE ArtifactTooLarge(s)
  BY <1>0, <1>11, RefusalMaps DEF ArtifactTooLarge, Creating, Collecting
<1>12. CASE Fail(s)
  BY <1>0, <1>12, RefusalMaps DEF Fail
<1>13. CASE FailInFlight(s)
  BY <1>0, <1>13, RefusalMaps DEF FailInFlight
<1>. QED BY <1>2, <1>3, <1>4, <1>5, <1>6, <1>7, <1>8, <1>9, <1>10, <1>11, <1>12, <1>13 DEF Ends

LEMMA StepMaps ==
  ASSUME Fitting, [Next]_vars
  PROVE  [Registry!Next]_(Registry!registry)
<1>1. CASE Next
  BY <1>1, Steps, EnvironmentMaps, StartMaps, MoveMaps, EndMaps
<1>2. CASE UNCHANGED vars
  BY <1>2 DEF vars, answers, Registry!registry
<1>. QED BY <1>1, <1>2

(* The coordinator, with its races, losses and late statements, is the     *)
(* registry: an artifact appears whole, in one step, under a free id and   *)
(* within the limits; it goes only at its owner's request; and every       *)
(* answer is one look at the table at the moment it is given.              *)
THEOREM RegistryIsImplemented == Spec => ImplementsRegistry
<1>1. Init => Registry!Init
  BY SameMeasures DEF Init, Registry!Init
<1>. QED BY <1>1, StepMaps, FittingAlways, PTL DEF Spec, ImplementsRegistry, Registry!Spec
=============================================================================
