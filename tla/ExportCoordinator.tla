-------------------------- MODULE ExportCoordinator --------------------------
(***************************************************************************)
(* lenso.data-export@1 of the PostgreSQL coordinator: create_export,       *)
(* read_export and purge_export, step by step between their await points,  *)
(* over the table data_exports.                                            *)
(*                                                                         *)
(* Any number of invocations ("slots") run at once; every SQL statement is *)
(* one autocommitted step.  Sources are other Plugins and contribute what  *)
(* they like.  An invocation may die at any await; a statement it had sent *)
(* may still commit later.  The App may be recomposed with other sources.  *)
(***************************************************************************)
EXTENDS ExportTables, FiniteSets, SequencesExt

CONSTANTS
  Slots,      \* concurrent invocations
  Offers,     \* what a source may answer: sequences of Items
  NoRequest,  \* the request of an idle slot
  NoPlan,     \* the ports of an idle slot
  MaxLate     \* bound: statements of dead invocations outstanding at once

ASSUME OfferAssumption == Offers \subseteq Seq(Items)
ASSUME MaxLateAssumption == MaxLate \in Nat

VARIABLES
  exports,      \* table data_exports: export_id -> row or NoExport
  lateInserts,  \* INSERTs sent by invocations that died before the answer
  lateDeletes,  \* DELETEs sent by invocations that died before the answer
  bound,        \* the sources the running App is composed with
  purges,       \* <<export_id, caller>> of every admitted purge request
  pc,           \* per slot: the await point
  req,          \* per slot: the request
  plan,         \* per slot: source ports cloned when the handler was called
  source,       \* per slot: position in plan of the awaited source
  inbox,        \* per slot: items of the last response not yet looked at
  items,        \* per slot: the artifact collected so far
  total,        \* per slot: total_bytes
  heard,        \* per slot: sources that answered, in order (history)
  sent,         \* per slot: every item they answered with, in order (history)
  reply,        \* the answer the latest step gave, if it gave one
  told,         \* summaries told to owners that had not asked for a purge (history)
  gone          \* <<export_id, caller>> told to be deleted while no create of that
                \* caller could still store it, and not asked for since (history)

late    == <<lateInserts, lateDeletes>>
collect == <<source, inbox, items, total, heard, sent>>
locals  == <<req, plan, collect>>
answers == <<reply, told, gone>>
vars    == <<exports, late, bound, purges, pc, locals, answers>>

-----------------------------------------------------------------------------
(* The decisions the code takes on one datum each *)

(* Mutant: DO UPDATE. *)
InsertOverwrites(old, new) == new

(* INSERT INTO data_exports ... ON CONFLICT DO NOTHING *)
InsertExport(old, new) == IF old = NoExport THEN new ELSE old

(* Mutant: no requester_instance in the WHERE. *)
OwnedByAnyone(row, caller) == row # NoExport

(* WHERE export_id = $1 AND requester_instance = $2 *)
OwnedBy(row, caller) == row # NoExport /\ row.owner = caller

(* existing_export_response: is the stored artifact this request's? *)
SameExport(row, r) == row.owner = r.caller /\ row.target = r.target

(* Mutants: one item too many; an item of exactly the limit refused. *)
ItemVerdictOneTooMany(sofar, bytes, src, i) ==
  IF ~i.valid \/ <<src, i.name>> \in Keys(sofar) THEN "violation"
  ELSE IF i.bytes > MaxItemBytes \/ Len(sofar) > MaxItems \/ bytes + i.bytes > MaxTotalBytes
       THEN "too_large"
  ELSE "keep"

ItemVerdictTooStrict(sofar, bytes, src, i) ==
  IF ~i.valid \/ <<src, i.name>> \in Keys(sofar) THEN "violation"
  ELSE IF i.bytes >= MaxItemBytes \/ Len(sofar) = MaxItems \/ bytes + i.bytes > MaxTotalBytes
       THEN "too_large"
  ELSE "keep"

(* What the loop does with one item, in the code's order of checks. *)
ItemVerdict(sofar, bytes, src, i) ==
  IF ~i.valid \/ <<src, i.name>> \in Keys(sofar) THEN "violation"
  ELSE IF i.bytes > MaxItemBytes \/ Len(sofar) = MaxItems \/ bytes + i.bytes > MaxTotalBytes
       THEN "too_large"
  ELSE "keep"

(* serialize_export_items returns None *)
SerializedTooLarge(sofar) == SerializedBytes(sofar) > MaxTotalBytes

-----------------------------------------------------------------------------
(* Initial state: an empty table, no invocation *)

NoReply == [kind |-> "none"]

Init ==
  /\ exports = [e \in Exports |-> NoExport]
  /\ lateInserts = {}
  /\ lateDeletes = {}
  /\ bound \in Plans
  /\ purges = {}
  /\ pc = [s \in Slots |-> "idle"]
  /\ req = [s \in Slots |-> NoRequest]
  /\ plan = [s \in Slots |-> NoPlan]
  /\ source = [s \in Slots |-> 1]
  /\ inbox = [s \in Slots |-> << >>]
  /\ items = [s \in Slots |-> << >>]
  /\ total = [s \in Slots |-> 0]
  /\ heard = [s \in Slots |-> << >>]
  /\ sent = [s \in Slots |-> << >>]
  /\ reply = NoReply
  /\ told = {}
  /\ gone = {}

-----------------------------------------------------------------------------
(* Where an invocation goes next *)

Quiet == reply' = NoReply /\ UNCHANGED <<told, gone>>

GoTo(s, label) == pc' = [pc EXCEPT ![s] = label] /\ Quiet

Say(kind, r, body) == reply' = [kind |-> kind, to |-> r, body |-> body]

(* Until its INSERT has been decided, a create may still store the export. *)
MayStillStore(e, c) ==
  \/ \E s \in Slots :
       /\ pc[s] \in {"lookup", "source", "items", "insert"}
       /\ req[s].export = e /\ req[s].caller = c
  \/ \E w \in lateInserts : w[1] = e /\ w[2].owner = c

(* The future resolves: the caller has its answer, the locals are dropped. *)
Finish(s, kind, body) ==
  /\ Say(kind, req[s], body)
  /\ told' = IF kind \in {"created", "existing"} /\ <<req[s].export, req[s].caller>> \notin purges
             THEN told \cup {[export |-> req[s].export, owner |-> req[s].caller,
                              summary |-> body]}
             ELSE told
  /\ gone' = IF kind \in {"purged", "unchanged"} /\ ~MayStillStore(req[s].export, req[s].caller)
             THEN gone \cup {<<req[s].export, req[s].caller>>}
             ELSE gone
  /\ pc' = [pc EXCEPT ![s] = "idle"]
  /\ req' = [req EXCEPT ![s] = NoRequest]
  /\ plan' = [plan EXCEPT ![s] = NoPlan]
  /\ source' = [source EXCEPT ![s] = 1]
  /\ inbox' = [inbox EXCEPT ![s] = << >>]
  /\ items' = [items EXCEPT ![s] = << >>]
  /\ total' = [total EXCEPT ![s] = 0]
  /\ heard' = [heard EXCEPT ![s] = << >>]
  /\ sent' = [sent EXCEPT ![s] = << >>]

Row(s) == exports[req[s].export]

-----------------------------------------------------------------------------
(* Admission, common to the three operations: the caller and the request   *)
(* are checked before a port or the database is touched.                   *)

Refuse(r, wellFormed) ==
  /\ \/ r.caller \notin ExportCallers /\ Say("forbidden", r, Nothing)
     \/ r.caller \in ExportCallers /\ ~wellFormed /\ Say("invalid_request", r, Nothing)
  /\ UNCHANGED <<told, gone, purges, pc, req, plan>>

Enter(s, r, label) ==
  /\ req' = [req EXCEPT ![s] = r]
  /\ pc' = [pc EXCEPT ![s] = label]
  /\ reply' = NoReply
  /\ gone' = IF r.op = "create" THEN gone \ {<<r.export, r.caller>>} ELSE gone
  /\ UNCHANGED told

(* Mutant: the allowlist is not consulted. *)
AdmitAnyCaller(s, r, wellFormed, label) ==
  /\ wellFormed
  /\ Enter(s, r, label)

Admit(s, r, wellFormed, label) ==
  /\ r.caller \in ExportCallers
  /\ wellFormed
  /\ Enter(s, r, label)

StartCreate(s, c, e, t, wellFormed) ==
  LET r == [op |-> "create", caller |-> c, export |-> e, target |-> t] IN
  /\ pc[s] = "idle"
  /\ \/ Refuse(r, wellFormed)
     \/ /\ Admit(s, r, wellFormed, "lookup")
        /\ plan' = [plan EXCEPT ![s] = bound]
        /\ UNCHANGED purges
  /\ UNCHANGED <<exports, late, bound, collect>>

StartRead(s, c, e, wellFormed) ==
  LET r == [op |-> "read", caller |-> c, export |-> e, target |-> NoTarget] IN
  /\ pc[s] = "idle"
  /\ \/ Refuse(r, wellFormed)
     \/ Admit(s, r, wellFormed, "read") /\ UNCHANGED <<plan, purges>>
  /\ UNCHANGED <<exports, late, bound, collect>>

StartPurge(s, c, e, wellFormed) ==
  LET r == [op |-> "purge", caller |-> c, export |-> e, target |-> NoTarget] IN
  /\ pc[s] = "idle"
  /\ \/ Refuse(r, wellFormed)
     \/ /\ Admit(s, r, wellFormed, "purge")
        /\ purges' = purges \cup {<<e, c>>}
        /\ UNCHANGED plan
  /\ UNCHANGED <<exports, late, bound, collect>>

-----------------------------------------------------------------------------
(* create_export *)

(* load_export_summary: an existing artifact answers at once, from the     *)
(* first lookup or from the one after a lost INSERT.                       *)
AnswerExisting(s) ==
  /\ pc[s] \in {"lookup", "reload"}
  /\ Row(s) # NoExport
  /\ SameExport(Row(s), req[s])
  /\ Finish(s, "existing", Summary(Row(s)))
  /\ UNCHANGED <<exports, late, bound, purges>>

AnswerConflict(s) ==
  /\ pc[s] \in {"lookup", "reload"}
  /\ Row(s) # NoExport
  /\ ~SameExport(Row(s), req[s])
  /\ Finish(s, "idempotency_conflict", Nothing)
  /\ UNCHANGED <<exports, late, bound, purges>>

LookupFindsNothing(s) ==
  /\ pc[s] = "lookup"
  /\ Row(s) = NoExport
  /\ GoTo(s, "source")
  /\ UNCHANGED <<exports, late, bound, purges, locals>>

(* Mutant: look up and collect again. *)
ReloadLooksUpAgain(s) ==
  /\ pc[s] = "reload"
  /\ Row(s) = NoExport
  /\ pc' = [pc EXCEPT ![s] = "lookup"]
  /\ items' = [items EXCEPT ![s] = << >>]
  /\ total' = [total EXCEPT ![s] = 0]
  /\ source' = [source EXCEPT ![s] = 1]
  /\ heard' = [heard EXCEPT ![s] = << >>]
  /\ sent' = [sent EXCEPT ![s] = << >>]
  /\ Quiet
  /\ UNCHANGED <<exports, late, bound, purges, req, plan, inbox>>

(* "concurrent Data Export disappeared" *)
ReloadFindsNothing(s) ==
  /\ pc[s] = "reload"
  /\ Row(s) = NoExport
  /\ Finish(s, "failed", Nothing)
  /\ UNCHANGED <<exports, late, bound, purges>>

(* Items as the artifact lists them, under the source they came from. *)
From(src, its) == [i \in DOMAIN its |-> [source |-> src, item |-> its[i]]]

(* collect_export of the awaited source *)
SourceContributes(s, offer) ==
  /\ pc[s] = "source"
  /\ inbox' = [inbox EXCEPT ![s] = offer]
  /\ heard' = [heard EXCEPT ![s] = Append(@, plan[s][source[s]])]
  /\ sent' = [sent EXCEPT ![s] = @ \o From(plan[s][source[s]], offer)]
  /\ GoTo(s, "items")
  /\ UNCHANGED <<exports, late, bound, purges, req, plan, source, items, total>>

(* Mutant: a rejecting source is skipped. *)
SkipRejectingSource(s) ==
  /\ pc[s] = "source"
  /\ inbox' = [inbox EXCEPT ![s] = << >>]
  /\ GoTo(s, "items")
  /\ UNCHANGED <<exports, late, bound, purges, req, plan, source, items, total, heard, sent>>

SourceRejects(s) ==
  /\ pc[s] = "source"
  /\ Finish(s, "source_rejected", Nothing)
  /\ UNCHANGED <<exports, late, bound, purges>>

(* One round of `for item in response.items`. *)
Verdict(s) == ItemVerdict(items[s], total[s], plan[s][source[s]], Head(inbox[s]))

(* Mutants: one item is all that is taken of a response; the newest first. *)
KeepFirstItem(s) ==
  /\ pc[s] = "items"
  /\ inbox[s] # << >>
  /\ Verdict(s) = "keep"
  /\ items' = [items EXCEPT ![s] =
                 Append(@, [source |-> plan[s][source[s]], item |-> Head(inbox[s])])]
  /\ total' = [total EXCEPT ![s] = @ + Head(inbox[s]).bytes]
  /\ inbox' = [inbox EXCEPT ![s] = << >>]
  /\ GoTo(s, "items")
  /\ UNCHANGED <<exports, late, bound, purges, req, plan, source, heard, sent>>

KeepItemInFront(s) ==
  /\ pc[s] = "items"
  /\ inbox[s] # << >>
  /\ Verdict(s) = "keep"
  /\ items' = [items EXCEPT ![s] =
                 <<[source |-> plan[s][source[s]], item |-> Head(inbox[s])]>> \o @]
  /\ total' = [total EXCEPT ![s] = @ + Head(inbox[s]).bytes]
  /\ inbox' = [inbox EXCEPT ![s] = Tail(@)]
  /\ GoTo(s, "items")
  /\ UNCHANGED <<exports, late, bound, purges, req, plan, source, heard, sent>>

KeepItem(s) ==
  /\ pc[s] = "items"
  /\ inbox[s] # << >>
  /\ Verdict(s) = "keep"
  /\ items' = [items EXCEPT ![s] =
                 Append(@, [source |-> plan[s][source[s]], item |-> Head(inbox[s])])]
  /\ total' = [total EXCEPT ![s] = @ + Head(inbox[s]).bytes]
  /\ inbox' = [inbox EXCEPT ![s] = Tail(@)]
  /\ GoTo(s, "items")
  /\ UNCHANGED <<exports, late, bound, purges, req, plan, source, heard, sent>>

ItemTooLarge(s) ==
  /\ pc[s] = "items"
  /\ inbox[s] # << >>
  /\ Verdict(s) = "too_large"
  /\ Finish(s, "artifact_too_large", Nothing)
  /\ UNCHANGED <<exports, late, bound, purges>>

ItemIsMalformed(s) ==
  /\ pc[s] = "items"
  /\ inbox[s] # << >>
  /\ Verdict(s) = "violation"
  /\ Finish(s, "failed", Nothing)
  /\ UNCHANGED <<exports, late, bound, purges>>

NextSource(s) ==
  /\ pc[s] = "items"
  /\ inbox[s] = << >>
  /\ source[s] < Len(plan[s])
  /\ source' = [source EXCEPT ![s] = @ + 1]
  /\ GoTo(s, "source")
  /\ UNCHANGED <<exports, late, bound, purges, req, plan, inbox, items, total, heard, sent>>

(* After the last source: the serialized artifact is measured, too. *)
Serialize(s) ==
  /\ pc[s] = "items"
  /\ inbox[s] = << >>
  /\ source[s] = Len(plan[s])
  /\ ~SerializedTooLarge(items[s])
  /\ GoTo(s, "insert")
  /\ UNCHANGED <<exports, late, bound, purges, locals>>

ArtifactTooLarge(s) ==
  /\ pc[s] = "items"
  /\ inbox[s] = << >>
  /\ source[s] = Len(plan[s])
  /\ SerializedTooLarge(items[s])
  /\ Finish(s, "artifact_too_large", Nothing)
  /\ UNCHANGED <<exports, late, bound, purges>>

NewRow(s) ==
  [owner |-> req[s].caller, target |-> req[s].target, source_count |-> Len(plan[s]),
   items |-> items[s], total_bytes |-> total[s]]

StoreIn(e, row) == exports' = [exports EXCEPT ![e] = InsertExport(@, row)]

(* rows_affected() = 1 *)
InsertWins(s) ==
  /\ pc[s] = "insert"
  /\ Row(s) = NoExport
  /\ StoreIn(req[s].export, NewRow(s))
  /\ Finish(s, "created", Summary(NewRow(s)))
  /\ UNCHANGED <<late, bound, purges>>

(* Mutant: rows_affected() is not looked at. *)
LoserSaysCreated(s) ==
  /\ pc[s] = "insert"
  /\ Row(s) # NoExport
  /\ Finish(s, "created", Summary(NewRow(s)))
  /\ UNCHANGED <<exports, late, bound, purges>>

(* rows_affected() = 0 *)
InsertLoses(s) ==
  /\ pc[s] = "insert"
  /\ Row(s) # NoExport
  /\ StoreIn(req[s].export, NewRow(s))
  /\ GoTo(s, "reload")
  /\ UNCHANGED <<late, bound, purges, locals>>

-----------------------------------------------------------------------------
(* read_export and purge_export: one owner-scoped statement each *)

ReadArtifact(s) ==
  /\ pc[s] = "read"
  /\ \/ OwnedBy(Row(s), req[s].caller) /\ Finish(s, "artifact", Artifact(Row(s)))
     \/ ~OwnedBy(Row(s), req[s].caller) /\ Finish(s, "not_found", Nothing)
  /\ UNCHANGED <<exports, late, bound, purges>>

(* Mutant: any caller's purge deletes. *)
DeleteForAnyone(e, caller) == exports' = [exports EXCEPT ![e] = NoExport]

DeleteIn(e, caller) ==
  exports' = [exports EXCEPT ![e] = IF OwnedBy(@, caller) THEN NoExport ELSE @]

PurgeArtifact(s) ==
  /\ pc[s] = "purge"
  /\ DeleteIn(req[s].export, req[s].caller)
  /\ \/ OwnedBy(Row(s), req[s].caller) /\ Finish(s, "purged", Nothing)
     \/ ~OwnedBy(Row(s), req[s].caller) /\ Finish(s, "unchanged", Nothing)
  /\ UNCHANGED <<late, bound, purges>>

-----------------------------------------------------------------------------
(* The environment *)

(* The invocation ends at an await: a database error, the plugin is not    *)
(* prepared, a source failure, a deadline, a dropped future, a crash.      *)
Fail(s) ==
  /\ pc[s] \in {"lookup", "source", "insert", "reload", "read", "purge"}
  /\ Finish(s, "failed", Nothing)
  /\ UNCHANGED <<exports, late, bound, purges>>

(* The same, while a write it was awaiting is on its way to the server.    *)
FailInFlight(s) ==
  /\ Cardinality(lateInserts) + Cardinality(lateDeletes) < MaxLate
  /\ \/ /\ pc[s] = "insert"
        /\ lateInserts' = lateInserts \cup {<<req[s].export, NewRow(s)>>}
        /\ UNCHANGED lateDeletes
     \/ /\ pc[s] = "purge"
        /\ lateDeletes' = lateDeletes \cup {<<req[s].export, req[s].caller>>}
        /\ UNCHANGED lateInserts
  /\ Finish(s, "failed", Nothing)
  /\ UNCHANGED <<exports, bound, purges>>

LateInsert(w) ==
  /\ w \in lateInserts
  /\ lateInserts' = lateInserts \ {w}
  /\ StoreIn(w[1], w[2])
  /\ Quiet
  /\ UNCHANGED <<lateDeletes, bound, purges, pc, locals>>

LateDelete(w) ==
  /\ w \in lateDeletes
  /\ lateDeletes' = lateDeletes \ {w}
  /\ DeleteIn(w[1], w[2])
  /\ Quiet
  /\ UNCHANGED <<lateInserts, bound, purges, pc, locals>>

Recompose(p) ==
  /\ bound' = p
  /\ Quiet
  /\ UNCHANGED <<exports, late, purges, pc, locals>>

-----------------------------------------------------------------------------
(* Specification *)

Advance(s) ==
  \/ AnswerExisting(s)
  \/ AnswerConflict(s)
  \/ LookupFindsNothing(s)
  \/ ReloadFindsNothing(s)
  \/ \E offer \in Offers : SourceContributes(s, offer)
  \/ SourceRejects(s)
  \/ KeepItem(s)
  \/ ItemTooLarge(s)
  \/ ItemIsMalformed(s)
  \/ NextSource(s)
  \/ Serialize(s)
  \/ ArtifactTooLarge(s)
  \/ InsertWins(s)
  \/ InsertLoses(s)
  \/ ReadArtifact(s)
  \/ PurgeArtifact(s)

Start(s) ==
  \E c \in Callers, e \in Exports, wellFormed \in BOOLEAN :
    \/ \E t \in Targets : StartCreate(s, c, e, t, wellFormed)
    \/ StartRead(s, c, e, wellFormed)
    \/ StartPurge(s, c, e, wellFormed)

Environment ==
  \/ \E w \in lateInserts : LateInsert(w)
  \/ \E w \in lateDeletes : LateDelete(w)
  \/ \E p \in Plans : Recompose(p)

Next == Environment \/ \E s \in Slots : Start(s) \/ Advance(s) \/ Fail(s) \/ FailInFlight(s)

Spec == Init /\ [][Next]_vars

(* The executor polls every future.  A call of a source inherits the       *)
(* caller's deadline; that a statement is answered or fails some time is   *)
(* an assumption about the database, as no statement has its own deadline. *)
Fairness == \A s \in Slots : WF_vars(Advance(s) \/ Fail(s) \/ FailInFlight(s))

FairSpec == Spec /\ Fairness

-----------------------------------------------------------------------------
(* Type invariant *)

Summaries == [source_count : Nat, item_count : Nat, total_bytes : Nat]
Artifacts == [target : Targets, items : Seq(StoredItems)]

Replies == [kind : Refusals \cup {"failed", "created", "existing", "artifact", "purged",
                                  "unchanged"},
            to : Requests, body : Summaries \cup Artifacts \cup {Nothing}]

(* Every variable holds what the code's types and data_exports allow. *)
TypeOK ==
  /\ exports \in [Exports -> Rows \cup {NoExport}]
  /\ lateInserts \subseteq Exports \X Rows
  /\ lateDeletes \subseteq Exports \X ExportCallers
  /\ bound \in Plans
  /\ purges \subseteq Exports \X ExportCallers
  /\ pc \in [Slots -> {"idle", "lookup", "source", "items", "insert", "reload", "read",
                       "purge"}]
  /\ req \in [Slots -> Requests \cup {NoRequest}]
  /\ plan \in [Slots -> Plans \cup {NoPlan}]
  /\ source \in [Slots -> Nat \ {0}]
  /\ inbox \in [Slots -> Seq(Items)]
  /\ items \in [Slots -> Seq(StoredItems)]
  /\ total \in [Slots -> Nat]
  /\ heard \in [Slots -> Seq(Sources)]
  /\ sent \in [Slots -> Seq(StoredItems)]
  /\ reply \in Replies \cup {NoReply}
  /\ told \subseteq [export : Exports, owner : ExportCallers, summary : Summaries]
  /\ gone \subseteq Exports \X ExportCallers

-----------------------------------------------------------------------------
(* Safety *)

(* "v1 stores only a strictly configured, size-bounded inline export"      *)
(* (README): whatever is stored, or may still be stored late, respects     *)
(* every limit measured on the whole artifact, the recorded byte count is  *)
(* the true one, and no source contributed an item name twice.             *)
StoredArtifactsFit ==
  \A row \in (Range(exports) \ {NoExport}) \cup {w[2] : w \in lateInserts} :
    /\ Fits(row.items)
    /\ WellFormed(row.items)
    /\ row.total_bytes = PayloadBytes(row.items)

(* An INSERT is reached only when every source of the Plan has answered,   *)
(* each once and in Plan order, and it carries every item they answered    *)
(* with, in the order they sent them, and nothing else ("All bound sources *)
(* contribute in resolved Plan order", plugin card).                       *)
NoPartialArtifact ==
  \A s \in Slots : pc[s] = "insert" => heard[s] = plan[s] /\ items[s] = sent[s]

(* "an exact same-owner retry returns the existing artifact" (plugin       *)
(* card): until the owner asks for a purge, every summary it was ever told *)
(* of an artifact is the stored one's, whatever raced or committed late.   *)
SettledUntilPurged ==
  \A t \in told :
    <<t.export, t.owner>> \notin purges =>
      /\ exports[t.export] # NoExport
      /\ exports[t.export].owner = t.owner
      /\ Summary(exports[t.export]) = t.summary

(* "their owning callers must purge them explicitly" (README): once a purge *)
(* is answered, the artifact is gone until its owner asks for it again,    *)
(* save for a create whose INSERT was still to come.  A create that has    *)
(* lost its INSERT, and finds nothing when it reloads, stores nothing.     *)
PurgeIsFinal == \A g \in gone : ~OwnedBy(exports[g[1]], g[2])

(* Whatever shows an artifact or says that it is stored, goes to its owner *)
(* at a moment at which it is stored, and a create is answered for the     *)
(* target it asked for.  (A conflict does tell another caller that the id  *)
(* is taken, and an answered purge shows nothing.)                         *)
AnswersToOwnerOnly ==
  /\ reply.kind \in {"created", "existing", "artifact"} =>
       /\ exports[reply.to.export] # NoExport
       /\ exports[reply.to.export].owner = reply.to.caller
  /\ reply.kind \in {"created", "existing"} =>
       exports[reply.to.export].target = reply.to.target

(* A stored artifact never changes, and it goes only if its owner asked.   *)
ArtifactStaysAsStored ==
  [][\A e \in Exports :
       exports[e] # NoExport /\ exports'[e] # exports[e] =>
         exports'[e] = NoExport /\ <<e, exports[e].owner>> \in purges]_exports

(* The caller is told that its export is too large only if what the        *)
(* sources sent, taken together, really exceeds a documented limit.        *)
TooLargeIsTrue ==
  [][\A s \in Slots :
       pc[s] = "items" /\ pc'[s] = "idle" /\ reply'.kind = "artifact_too_large" =>
         ~Fits(sent[s])]_vars

(* The service implements the abstract registry. *)
Registry == INSTANCE ExportRegistry WITH
  exports <- exports, purges <- purges, reply <- reply
ImplementsRegistry == Registry!Spec

-----------------------------------------------------------------------------
(* Liveness *)

(* Every invocation gets an answer, even when create and purge of the same *)
(* id chase each other for ever (lib.rs:329-336).                          *)
InvocationEnds == \A s \in Slots : (pc[s] # "idle") ~> (pc[s] = "idle")
=============================================================================
