---------------------------- MODULE ExportRegistry ----------------------------
(***************************************************************************)
(* What lenso.data-export@1 promises: a registry of immutable artifacts.   *)
(* An artifact appears whole, stays as it is until its owner purges it,    *)
(* and every answer is one look at the registry at the moment it is given. *)
(***************************************************************************)
EXTENDS ExportTables

VARIABLES
  exports,  \* export_id -> artifact row, or NoExport
  purges,   \* <<export_id, caller>> of every purge request
  reply     \* the answer given by the latest step, if it gave one

registry == <<exports, purges, reply>>

NoReply == [kind |-> "none"]

Init ==
  /\ exports = [e \in Exports |-> NoExport]
  /\ purges = {}
  /\ reply = NoReply

Mine(r) == exports[r.export] # NoExport /\ exports[r.export].owner = r.caller

(* An artifact within the limits appears under a free id.  If the step     *)
(* gives an answer, it tells its owner that this very artifact is new.     *)
Store(e, row) ==
  /\ exports[e] = NoExport
  /\ row # NoExport
  /\ row.owner \in ExportCallers
  /\ Fits(row.items) /\ WellFormed(row.items)
  /\ row.total_bytes = PayloadBytes(row.items)
  /\ exports' = [exports EXCEPT ![e] = row]
  /\ UNCHANGED purges
  /\ \/ reply' = NoReply
     \/ /\ reply'.kind = "created"
        /\ reply'.to.export = e
        /\ reply'.to.caller = row.owner
        /\ reply'.to.target = row.target
        /\ reply'.body = Summary(row)

AskPurge(e, c) ==
  /\ c \in ExportCallers
  /\ purges' = purges \cup {<<e, c>>}
  /\ reply' = NoReply
  /\ UNCHANGED exports

(* It goes only if its owner has asked for that. *)
Remove(e) ==
  /\ exports[e] # NoExport
  /\ <<e, exports[e].owner>> \in purges
  /\ exports' = [exports EXCEPT ![e] = NoExport]
  /\ UNCHANGED purges
  /\ \/ reply' = NoReply
     \/ /\ reply'.kind = "purged"
        /\ reply'.to.op = "purge"
        /\ reply'.to.export = e
        /\ reply'.to.caller = exports[e].owner

Truthful(r) ==
  LET row == exports[r.to.export] IN
  /\ r.kind \notin {"created", "purged"}
  /\ r.kind = "existing" =>
       /\ r.to.op = "create" /\ Mine(r.to)
       /\ r.to.target = row.target
       /\ r.body = Summary(row)
  /\ r.kind = "artifact" => r.to.op = "read" /\ Mine(r.to) /\ r.body = Artifact(row)
  /\ r.kind = "not_found" => r.to.op = "read" /\ ~Mine(r.to)
  /\ r.kind = "unchanged" => r.to.op = "purge" /\ ~Mine(r.to)
  /\ r.kind = "idempotency_conflict" =>
       /\ r.to.op = "create"
       /\ row # NoExport
       /\ row.owner # r.to.caller \/ row.target # r.to.target
  /\ r.kind \in {"source_rejected", "artifact_too_large"} => r.to.op = "create"
  /\ r.kind = "forbidden" <=> r.to.caller \notin ExportCallers

Answer ==
  /\ reply' # NoReply
  /\ Truthful(reply')
  /\ UNCHANGED <<exports, purges>>

Next ==
  \/ \E e \in Exports : Store(e, exports'[e])
  \/ \E e \in Exports, c \in Callers : AskPurge(e, c)
  \/ \E e \in Exports : Remove(e)
  \/ Answer
  \/ reply' = NoReply /\ UNCHANGED <<exports, purges>>

Spec == Init /\ [][Next]_registry
=============================================================================
