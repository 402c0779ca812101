----------------------------- MODULE ExportTables -----------------------------
(***************************************************************************)
(* What data_exports holds, what callers are told of it, and the limits an *)
(* inline artifact must respect.  Shared by the abstract registry and the  *)
(* coordinator.                                                            *)
(***************************************************************************)
EXTENDS Naturals, Sequences, Functions

CONSTANTS
  Callers,        \* caller Instances
  ExportCallers,  \* config.export_callers
  Exports,        \* export_id values
  Targets,        \* scope_kind, scope_id and subject
  Sources,        \* Instances that may be bound as Data Export Sources
  Plans,          \* lists of Sources the App may resolve
  Items,          \* items a source may contribute, see ItemAssumption
  MaxItems,       \* config.max_items
  MaxItemBytes,   \* config.max_item_bytes
  MaxTotalBytes,  \* config.max_total_bytes
  NoExport,       \* no row in data_exports
  NoTarget        \* read_export and purge_export carry no target

ASSUME ExportCallerAssumption == ExportCallers \subseteq Callers

(* Activation refuses any other composition (Lifecycle::activate). *)
ASSUME SourcePlanAssumption ==
  Plans \subseteq {s \in Seq(Sources) : s # << >> /\ IsInjective(s)}

(* DataGovernanceConfig::validate *)
ASSUME LimitAssumption ==
  /\ MaxItems \in Nat \ {0}
  /\ MaxItemBytes \in Nat \ {0}
  /\ MaxTotalBytes \in Nat \ {0}
  /\ MaxItemBytes <= MaxTotalBytes

(* `bytes` is the payload's length, `wire` its share of the serialized     *)
(* artifact (keys, quotes, escapes); `valid` covers the item name, the     *)
(* media type and the absence of NUL.                                      *)
ASSUME ItemAssumption ==
  \A i \in Items : /\ DOMAIN i = {"name", "bytes", "wire", "valid"}
                   /\ i.bytes \in Nat /\ i.wire \in Nat /\ i.wire > i.bytes
                   /\ i.valid \in BOOLEAN

(* An item of the artifact: ReadExportResponseItemsItem. *)
StoredItems == [source : Sources, item : Items]

(* A row of data_exports. *)
Rows == [owner : ExportCallers, target : Targets, source_count : Nat,
         items : Seq(StoredItems), total_bytes : Nat]

ASSUME NoExportAssumption == NoExport \notin Rows

(* What create_export and read_export tell of a row. *)
Summary(row) == [source_count |-> row.source_count, item_count |-> Len(row.items),
                 total_bytes |-> row.total_bytes]
Artifact(row) == [target |-> row.target, items |-> row.items]

Nothing == << >>

(* The running sums of the code: `total_bytes +=`, item by item. *)
SumOf(numbers) ==
  LET sum[n \in 0..Len(numbers)] == IF n = 0 THEN 0 ELSE sum[n - 1] + numbers[n]
  IN sum[Len(numbers)]

PayloadBytes(items) == SumOf([i \in DOMAIN items |-> items[i].item.bytes])

(* Two brackets, the items, and a comma between two of them. *)
SerializedBytes(items) ==
  2 + SumOf([i \in DOMAIN items |-> items[i].item.wire])
    + (IF items = << >> THEN 0 ELSE Len(items) - 1)

Keys(items) == {<<i.source, i.item.name>> : i \in Range(items)}

(* The documented limits, of a whole artifact (README, "first-slice limit"). *)
Fits(items) ==
  /\ Len(items) <= MaxItems
  /\ \A i \in Range(items) : i.item.bytes <= MaxItemBytes
  /\ PayloadBytes(items) <= MaxTotalBytes
  /\ SerializedBytes(items) <= MaxTotalBytes

WellFormed(items) ==
  /\ \A i \in Range(items) : i.item.valid
  /\ \A j, k \in DOMAIN items :
       j # k => <<items[j].source, items[j].item.name>> # <<items[k].source, items[k].item.name>>

Requests == [op : {"create", "read", "purge"}, caller : Callers, export : Exports,
             target : Targets \cup {NoTarget}]

Refusals == {"forbidden", "invalid_request", "idempotency_conflict", "source_rejected",
             "artifact_too_large", "not_found"}
=============================================================================
