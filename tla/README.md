# Verification of the Lenso data export / retention plugin

TLA+ models of the PostgreSQL data-governance coordinator and its capability
bindings, TLC configurations that check them on small instances, and TLAPS
proofs, for all instances, of every safety property and refinement that the runs
check: of both coordinators, the lifecycle, their composition, the bindings and
the validators. Every definition is
translated from the Rust and SQL sources; `lib.rs` below is
`crates/lenso-data-export-retention-postgres-plugin/src/lib.rs` and
`generated.rs` the file of that name in each capability crate.

    tlc -config retention_race.cfg MCRetention.tla      # model-check one run
    tlapm RetentionProofs.tla                           # check the proofs of one module

## 1. Inventory

### Data-retention coordinator (`lib.rs:424-653`, `790-1002`)

*State.* Two tables: `retention_actions` (action_id → owner, intent, the list of
participants frozen at first execution) and `retention_results` (action_id,
participant → `completed` with a receipt, or `rejected`). Nothing else outlives
an invocation.

*Operations.* `execute_retention`: check caller and request; ask every bound
guard in order; `INSERT ... ON CONFLICT DO NOTHING` the action; load it back and
compare owner and intent; read which participants have completed, once; for
each bound participant that was frozen and had not completed, call
`apply_retention` and upsert its receipt or rejection with a `CASE` that keeps
a stored completion; load identity and results in two queries and report.
`read_retention`: the two queries only, constrained to the owner.

*Interaction.* Calls `check_retention` of the guards and `apply_retention` of the
participants, other Plugins that answer when and what they like. Each such
call has the deadline of the invocation's context.

*Hard.* Every `.await` is a point where another invocation of the same action
runs, where the future may be dropped, the process die, the database fail, or
the App have been recomposed. There is no transaction around anything: each
statement commits alone, and one that was sent before its client died may
commit afterwards.

*Correct when* the frozen list and the stored intent are all that is ever driven;
a completion stays with its receipt; an answer tells the truth, to the owner
only; no call precedes unanimous consent; a retry repeats no completed call.

### Data-export coordinator (`lib.rs:219-420`, `731-788`)

*State.* One table, `data_exports` (export_id → owner, target, counts, the
serialized artifact).

*Operations.* `create_export`: an existing artifact answers at once; otherwise
collect from every bound source in Plan order, checking each item against
duplicate names and three limits, measure the serialized artifact, `INSERT ... ON
CONFLICT DO NOTHING`, and on a lost race answer with the winner's artifact.
`read_export`, `purge_export`: one owner-constrained statement each.

*Hard.* Creates of one id race across source calls of any length; the winner's
artifact may be purged before the loser reloads it; an INSERT may commit after
its caller was told of a failure.

*Correct when* what is stored is whole and within the limits; it never changes
and goes only on its owner's request; nobody else sees it or removes it.

### Plugin lifecycle, configuration, ports (`lib.rs:54-217`, `657-728`, `1111-1133`)

*State.* Configuration, three many-provider ports, and a cell
`Rc<RefCell<Option<PreparedDataGovernance>>>` with the connection pool.
*Operations.* `validate`, connecting the ports, `activate` (two awaits),
`deactivate` (takes the cell, awaits the close of the pool), `prepared()`.
*Hard.* Invocations hold clones of the cell and of the pool, of the current or of
an earlier incarnation, at every moment of activation and deactivation. Nothing
tells a running handler that its Plugin is deactivated; it finds out when it asks
the closed pool for a connection.
*Correct when* only a validated configuration with a sound Plan ever serves,
deactivation leaves nothing in use and returns, and a handler that outlives its
incarnation neither writes nor reports.

### Validators (`lib.rs:445-448`, `583-590`, `1046-1101`)

*State.* None: predicates on the texts that callers, guards, participants, sources
and the configuration send. *Hard.* Each combines tests on the whole text, on its
segments and on its length in bytes; reasons and receipts are tested as sent and
kept trimmed. *Correct when* two accepted paths that differ are different paths,
and what is kept is accepted, and is the same, when it comes back.

### Capability contracts and generated bindings (five crates)

*State.* None but the call in progress. *Operations.* The typed fast path and the
erased endpoint, lowering of four handler result types, unfolding by the
client, and the portable encoding of Domain errors. *Hard.* Unknown codes of
later versions, names that do not fit the request, objects dropped before the
first poll. *Correct when* exactly the named handler runs and what it answered
is what the client returns.

### Not modelled

- `operator.rs`: the CLI hands the schema plan to the `lenso-postgres` crate;
  whatever is stateful is in that crate.
- Contract build scripts, `build_support.rs`: code generation without state of
  its own. Release process and workflows: configuration of a hosted service; the repository holds no code of it.
- `valid_name`, `valid_dimension` and `valid_media_type`: single tests on characters,
  with nothing to relate them to; and the date format, which the `time` crate
  renders. In the coordinators a request, item,
  verdict or receipt is well formed or not, and in the lifecycle a name is in
  `ValidNames` or not; what makes a path, a reason or a receipt well formed,
  `TextValidators` models.
- Encodings of requests and responses: serde derives.

## 2. Modules

| module | models |
| --- | --- |
| `RetentionTables` | the rows, requests and reports both retention modules speak of; `ReportOf`, `StatusOf` are `load_retention_response` |
| `RetentionLedger` | abstract: what `lenso.data-retention@1` promises, without invocations or statements |
| `RetentionCoordinator` | `execute_retention`, `read_retention` between awaits |
| `RetentionProofs` | type correctness and the step lemmas; on top of them the safety theorems, the ledger is implemented |
| `Induction` | induction and recursion over the naturals, for what loops compute |
| `ExportTables`, `ExportRegistry` | rows and limits; abstract registry of immutable artifacts |
| `ExportCoordinator` | `create_export`, `read_export`, `purge_export` between awaits |
| `ExportProofs`, `ExportSafety` | sums and type correctness; safety theorems, the registry is implemented |
| `PluginLifecycle` | validation, ports, activation, deactivation, invocations of several incarnations |
| `LifecycleProofs` | its invariant and theorems |
| `CapabilityDispatch` | one call through the generated bindings |
| `DispatchProofs` | encoding lemmas and the call's theorems |
| `RetentionService` | composition of `RetentionCoordinator` and `PluginLifecycle`: invocations inside a Plugin Instance that comes and goes |
| `ServiceProofs` | the invariants of both hold of it; the theorems that relate the two |
| `TextValidators` | the predicates on item names, secret references, reasons and receipts |
| `TextProofs` | what `split` and `trim` compute, and the theorems about texts of any length |
| `MCRetention`, `MCExport`, `MCLifecycle`, `MCDispatch`, `MCService` | values of the constants for TLC |

### How the coordinators correspond to the code

A *slot* is one invocation; `pc[s]` names the await it is at, and the other
per-slot variables are the handler's locals (`req` the request, `comp`/`plan` the
ports it cloned when called, `identity`, `completed`, `next`, `outcome`; `source`,
`inbox`, `items`, `total`). Everything between two awaits is one action; a SQL
statement is one step, since each is autocommitted. The generated endpoint
declares a concurrency of one, which binds one process; the README and the
sticky upsert speak of concurrent attempts, and several processes may share
the schema, so any number of slots runs.

| await in the code | `pc` | actions |
| --- | --- | --- |
| guard call, `lib.rs:473` | `guard` | `GuardAllows`, `GuardDenies`, `GuardIsAmbiguous` |
| INSERT of the action, `533` | `freeze` | `FreezeAction` |
| identity load, `546` | `identify` | `Identify`, `IntentConflicts` |
| `completed_participants`, `559` | `snapshot` | `Snapshot` |
| loop, `560` | `loop` | `SkipParticipant`, `CallParticipant`, `EndLoop` |
| participant call, `565` | `apply` | `ParticipantCompletes`, `ParticipantRejects`, `ReceiptIsMalformed` |
| result upsert, `872` | `store` | `StoreResult` |
| response: identity, results, `890`, `899` | `load`, `results` | `LoadIdentity`, `NothingToRead`, `LoadResults` |
| summary load, `242` and `329` | `lookup`, `reload` | `AnswerExisting`, `AnswerConflict`, `LookupFindsNothing`, `ReloadFindsNothing` |
| source call, `262`; its items, `281` | `source`, `items` | `SourceContributes`, `SourceRejects`; `KeepItem`, `ItemTooLarge`, `ItemIsMalformed`, `NextSource`, `Serialize`, `ArtifactTooLarge` |
| INSERT of the artifact, `316` | `insert` | `InsertWins`, `InsertLoses` |
| read, purge, `362`, `403` | `read`, `purge` | `ReadArtifact`, `PurgeArtifact` |

`Fail` is every way an invocation may end at an await: database error,
unprepared or closed plugin, provider failure, deadline, dropped future, crash
(a process crash is `Fail` of all its slots, in any order with the other steps,
since the tables are all that survives). `FailInFlight` is the same while a
write was on its way, and `LateFreeze`, `LateStore`, `LateInsert`, `LateDelete`
commit it at any later time. `Recompose` changes the ports that later
invocations clone.

History variables serve the properties only and no guard reads them: `asked`
(requests sent) and `issued` (receipts given) describe the participants' side,
`called`, `doneBefore`, `reported`, `heard`, `sent`, `told`, `gone`, `purges`, `lateCalls` what was
said and done before. (`asked` and `issued` do guard what participants, which are external,
can answer: a receipt only for something they were asked.)

Abstractions: `intent` stands for the request's scope, subject, mode and trimmed
reason together, `target` for an export's scope and subject, since the code only
compares them whole. The time stamps are left out; no decision reads them. Item
payloads have two sizes, `bytes` of the payload and `wire` of its JSON in the
artifact, because the code measures both.

### Lifecycle and dispatch

In `PluginLifecycle` an incarnation is one resolved instance of the Plugin. `stage`
follows it from `resolved` through the two awaits of `activate` and the one of
`deactivate`; `Crash` ends the process. A slot's clone belongs to the incarnation
in which the endpoint was invoked: the generated lowering clones the Plugin there,
but calls the handler only when the future is first polled, maybe much later. The pool is modelled as sqlx documents it: `close()`
refuses new connections at once and waits for those handed out. A dropped
`deactivate` future is only modelled as part of a crash.

`CapabilityDispatch` follows one call. The five generated files are one template;
they differ in tables of operations and codes, which are the five contract
definitions. `CrossesLane` encodes and decodes a Domain error, possibly for a
client that was generated before one of the codes existed. `Details` may not
contain `code` or `payload` (named assumption): members of an `Unknown` error come
out of an object from which these two were taken.

### The composition

`RetentionService` EXTENDS the coordinator and takes the lifecycle as an instance;
each of its steps is a step of one of them or of both at once. A slot goes through

    Invoke -> Poll -> (Asks)* -> Acquire -> StatementAnswers -> ... -> idle

`Invoke` clones the Plugin (`at` becomes `running`, `of` the incarnation). `Poll` calls
the handler, which validates the request, clones the ports of *that* incarnation
(`CompositionOf`), and looks into the cell at once although it uses the answer only
after the guards (`lib.rs:431`, `519`): `at` becomes `holding`, or stays `running` if the
cell was empty, and then the invocation can get no further than the guards.
`Acquire` needs the pool to be open, and from there to `StatementAnswers` the pool
cannot finish closing. `Asks` is everything between statements, guards and
participants included, which needs no pool; `PoolIsClosed` is what becomes of the
next statement. `ProcessDies` comes after its invocations have failed one by one,
in any order with what else happens; that is `Fail` of the coordinator again.

Each incarnation may be resolved with another configuration and another Plan, the
refused ones included. So `Poll` cannot assume that its ports are sound: the endpoint of
a Plugin that was never activated, or whose activation was refused, may be invoked too,
and its ports may be empty, too many or doubly bound. `HandlerAccepts` is the handler's
own check (`lib.rs:451-472`), with the limits of the clone's configuration (`limits`).
It does not look at the sources; activation does, and an execution past its guards
relies on that through the cell. `NoVacuousExecution` is what the two checks have to
achieve together: a frozen list without participants would be reported as completed.
The coordinator's own `bound` is not used here; `HandledAssumption` says that the
compositions the handler accepts are among the coordinator's, and the run checks it.
What was an allowance in the coordinator alone, `Fail` at any await for want of a pool,
is derived here.

### Texts

In `TextValidators` a text is a sequence of character classes: one for letters,
digits, `_` and `-`; `.` and `/`; any other printable one; white space of two bytes;
control characters that are white space and that are not. The state is one text that is
typed and cleared, so a run enumerates all of them. The real limits (256, 512,
1024 bytes) are constants, given values that texts of six characters can reach,
by length in characters and by length in bytes.

## 3. Runs

| run | instance | shows |
| --- | --- | --- |
| `retention_race` | 2 slots, 1 owner, 1 guard, 2 participants, 2 receipts, 1 late write | `TypeOK`, `ReceiptsAreGenuine`, `NoRepeatedDelivery`, `ReportedCompletionIsFinal`, `CompletionIsSticky`; the coordinator implements `RetentionLedger` |
| `retention_recompose` | Plans `<<p1>>` and `<<p2,p1>>`, 2 late writes | `ApplyMatchesFrozenAction`, `ResultsOfFrozenParticipants`, `CompletedMeansApplied`, `PendingMeansUnbound` |
| `retention_callers` | owner, allowlisted peer, outsider; 2 intents; 0 or 2 guards | `UnanimousPreflight`, `OwnerOnly`, `ActionNeverDisappears`, `RefusalsCallNobody`; the same refinement |
| `retention_liveness` | 2 slots, Plans `<<p1,p2>>` and guarded `<<p2>>`, fair | `InvocationEnds`, `RetriesComplete` |
| `retention_foreign_retry` | owner and peer, 1 guard | violation of `ForeignRetryConflicts`, see section 5 |
| `export_race` | 2 slots, 2 Plans, 2 late writes, fair | `SettledUntilPurged`, `PurgeIsFinal`, `InvocationEnds`; the coordinator implements `ExportRegistry` |
| `export_owners` | owner, peer, outsider; 2 targets | `TypeOK`, `AnswersToOwnerOnly`, `ArtifactStaysAsStored`; the same refinement |
| `export_limits` | 1 slot, 2 sources, 10 kinds of answer | `StoredArtifactsFit`, `NoPartialArtifact`, `TooLargeIsTrue` |
| `service_restarts` | 2 incarnations, 2 slots, 2 configurations, 5 Plans, 1 guard, 2 participants | `NoVacuousExecution`, `OneCallAfterClose`, `DatabaseNeedsItsPool` |
| `text_validation` | all texts of up to 6 characters of 7 classes | `PathsAreCanonical`, `KeptTextIsAcceptedAgain` |
| `lifecycle_restarts` | 2 incarnations, 2 slots, 5 configurations, 13 Plans, `PortLimit` 2 | `TypeOK`, `SoundPlanServes`, `QuiescentWhenDown`, `DeactivationEnds` (fair) |
| `dispatch_calls` | every operation of every contract | `AnswersAreFaithful`, `OnlyTheNamedHandlerRuns` |

*Bounds.* Runs are never bounded in length: a slot starts again whenever it is
idle, so each explores all retries. One action or export id suffices because
every statement is constrained to one id and no state is shared between ids.
Two slots give every race of two; a third attempt is a slot that starts again
after its first one died, with `MaxLate` (1 or 2) statements of dead attempts
still to commit, so up to four writers of one row interleave. Two participants
tell a stored result of this participant from one of another and let the loop
be interrupted between them; two receipts tell a replaced receipt from a
repeated one. The limits run keeps the real relation between limits
(`LimitAssumption`, from `validate`) at small numbers: items that are empty, fill a
limit exactly, exceed it by one, or grow by escaping. `lifecycle_restarts` takes
configurations at and just beyond the real limits of items and bytes. The 64 providers
that any port may have are the constant `PortLimit`, here 2: a configuration that
allows three must be refused, and Plans with three sources, three participants or more
guards than configured exceed what is allowed. `service_restarts` has, besides two Plans that
are accepted, one without a source, one without a participant and one that is
unconnected, with a configuration that is accepted and one that is not; one more
incarnation than the shortest hazard needs, a handler of the first and one of the
second at work on one action, and two participants, so that a call after the close
can be followed by a forbidden second one; late writes are left to the
coordinator's own runs. Six characters suffice for every relation the validators
tell apart: two separators with a segment before, between and after them, dots
alone and doubled in each, blanks on either side of a kept text, and a text that
is within its limit in characters and beyond it in bytes.

Slots, receipts, intents and targets are symmetric: no definition singles one
out, and symmetry is not used in the runs with a liveness property. Deadlock is checked
everywhere but in `dispatch_calls`, whose only call ends.

*Fairness.* Weak fairness of "this slot advances or fails". The executor polls
every future. A call of a guard, participant or source inherits the deadline of the
invocation's `InvocationContext`. A statement carries no deadline of its own: that
PostgreSQL answers it or its connection fails some time is an assumption about the
database. Nothing is assumed of which of the two happens, of what guards, participants
and sources answer, of late writes, or of new invocations. The lifecycle run assumes the
same of the answer to a statement, and that the awaited close is polled once it can
complete. Nothing
more is assumed of the code's callers: what they and other Plugins must contribute
to a completion is `Cooperation`, the antecedent of `RetriesComplete`. From some time
on no attempt is failed or denied and the frozen participants stay bound; the owner
executes the action again and again; a participant that is asked again and again
does not reject for ever. Each conjunct is needed: without it an owner may never
be told `completed`, and the code promises nothing then.

*Mutants.* Each property has a plausible bug that breaks it in its own run, kept
next to the definition it replaces under a comment `Mutant`: a missing `CASE` in
the upsert, an owner left out of a comparison, `break` for `continue`, one guard
too few, an ignored `rows_affected`, `>=` for `>`.

## 4. Proofs

The theorems hold for any sets of slots, callers, actions, exports, participants,
Plans, limits and incarnations, assuming of them only what the modules' named
assumptions say: sentinels are outside the sets they extend; Plans and what
sources send are sequences; an export's sources are distinct and at least one, as
activation sees to; an execution has a participant, and distinct guards, as its handler
sees to (`HandledAssumption` says so of the service); `MaxLate` is a number, `PortLimit`
a positive one, the limits are related as `validate` requires, `ValidNames`
are names. TLC evaluates the assumptions in every run.

| module | theorem | property |
| --- | --- | --- |
| `RetentionProofs` | `TypeCorrect` | `TypeOK` |
| | `FrozenRequestsOnly` | `ApplyMatchesFrozenAction` |
| | `ResultsAreReported` | `ResultsOfFrozenParticipants` |
| | `NoInventedReceipt` | `ReceiptsAreGenuine` |
| | `DisappearanceIsImpossible` | `ActionNeverDisappears` |
| | `StickyCompletion` | `CompletionIsSticky` |
| | `OwnersOnly` | `OwnerOnly` |
| | `CompletedIsTrue` | `CompletedMeansApplied` |
| | `ReportedIsFinal` | `ReportedCompletionIsFinal` |
| | `NeverDeliveredAgain` | `NoRepeatedDelivery` |
| | `PreflightIsUnanimous` | `UnanimousPreflight` |
| | `RefusedIsUncalled` | `RefusalsCallNobody` |
| | `PendingIsUnbound` | `PendingMeansUnbound` |
| | `LedgerIsImplemented` | `ImplementsLedger` |
| | `EveryStepNearsTheEnd` | the safety half of `InvocationEnds` |
| `ExportProofs` | `TypeCorrect` | `TypeOK` |
| `ExportSafety` | `StoredIsImmutable` | `ArtifactStaysAsStored` |
| | `StoredFits` | `StoredArtifactsFit` |
| | `OwnersLearn` | `AnswersToOwnerOnly` |
| | `RetriesFindTheSame` | `SettledUntilPurged` |
| | `PurgedStaysPurged` | `PurgeIsFinal` |
| | `ArtifactsAreWhole` | `NoPartialArtifact` |
| | `RefusalsAreDeserved` | `TooLargeIsTrue` |
| | `RegistryIsImplemented` | `ImplementsRegistry` |
| | `EveryStepNearsTheEnd` | the safety half of `InvocationEnds` |
| `LifecycleProofs` | `TypeCorrect` | `TypeOK` |
| | `ServesOnlySoundPlans` | `SoundPlanServes` |
| | `DownIsQuiet` | `QuiescentWhenDown` |
| | `ClosingOnlyDrains` | the safety half of `DeactivationEnds` |
| `ServiceProofs` | `NoExecutionIsVacuous` | `NoVacuousExecution` |
| | `AtMostOneLateCall` | `OneCallAfterClose` |
| | `DatabaseOnlyThroughThePool` | `DatabaseNeedsItsPool` |
| `DispatchProofs` | `AnswersArrive` | `AnswersAreFaithful` |
| | `OnlyItsOwnHandler` | `OnlyTheNamedHandlerRuns` |
| `TextProofs` | `PathsAreNormal` | `PathsAreCanonical` |
| | `AcceptedPathsDiffer` | two accepted texts with one path are one text |
| | `KeptTextIsKept` | `KeptTextIsAcceptedAgain` |

### Retention

None of the invariants is inductive alone; `Core` is what makes them so:

- `TypeOK`, and `Placed`: at each await the locals are what the code left there
  (an executor at `apply` points at a participant of its Plan, a reader never
  enters the loop, a slot at `store` has an outcome);
- `FrozenIdentity`: past `identify`, the identity in a slot is the stored row, its
  owner and intent are the request's. It is preserved because `InsertAction` never
  changes an existing row, late or not;
- `Delivery`: every request sent names a frozen participant and the stored
  intent; everything on its way to the results table (`outcome` at `store`, a late
  store, a stored row) belongs to a participant that was asked, and a completion
  carries a receipt which that participant issued for that action. This is where a
  write that commits after its invocation died is covered: it carries its own
  evidence.

`CoreStep` proves that every step keeps `Core`. The owner, truth and disappearance
theorems follow from `Core` and from `AnswerIsALook`: an `ok` answer is the report of
the stored row and the results at that moment. `ReportedIsFinal` adds `Told` (what
was reported is still stored) to stickiness. `NeverDeliveredAgain` and
`PreflightIsUnanimous` use `Remembered`: what was complete at the beginning is in
the snapshot, and the verdicts kept are all `Allow`, one per guard passed.
`PendingIsUnbound` adds `Progressed`, the invariant of the loop over the
participants: at position `next`, each earlier one that is frozen has a row
(`Driven`), and so has each one in the snapshot, whatever others store meanwhile.

`LedgerIsImplemented` maps every step of the coordinator to one of `RetentionLedger`
or to a stutter. `Core` is needed where the code stores what it decided earlier: the
upsert of a receipt is the ledger's step only because the participant is frozen
and issued it (`Delivery`), and an answer is the ledger's because the identity that
was loaded one query earlier is still the stored row (`FrozenIdentity`).

### Exports

`Placed` is the same idea. On top of it:

- `Asked`: every DELETE running or late is scoped to a caller that asked for a purge;
- `Collected`: the items kept so far are within the item limits *as a whole*, their
  keys differ, and `total` is the sum of their sizes; a row about to be inserted, or
  inserted late, is within the serialized limit too. The code never measures the
  whole list: it adds and compares item by item, so the proof needs facts about sums
  of sequences (`SumOfOneMore`, `SumOfPrefix`) for the step;
- `InOrder`: the sources heard are a prefix of the Plan, and what they sent is, in order,
  what was kept followed by what was not yet looked at (`InHand`). An item that is kept
  moves from the one to the other (`MovedOver`), so `ArtifactsAreWhole` follows when
  nothing is left;
- `GoneForGood`: what was purged is not stored, and no INSERT running or late can
  store it for that caller again.

`StoredIsImmutable` follows from `TableSteps`: a row is filled only when it is free, and
removed only by a DELETE that was asked for. `RetriesFindTheSame` adds that what was
told was stored when told. `RefusalsAreDeserved` is the other half of
`StoredFits`: the code refuses at the first item too many, and `SumOfPrefix` shows
that the whole of what was sent, which `InOrder` says begins with what was kept, then
exceeds the limit. `RegistryIsImplemented` maps
`InsertWins` and late INSERTs to the registry's store, answers to its answers, and
everything between awaits to a stutter.

### Lifecycle, and the service

The lifecycle's inductive invariant has four parts. `Pools` ties the pool of every
incarnation to `stage` and `current`; `Connections` says that a statement holds a
connection of a pool that is not closed, and a holder one that was opened;
`Checked` says how far the checks have been made at each stage; and `Served`, that a
pool was only ever opened over ports that had passed them. The last is what
`SoundPlanServes` needs of *earlier* incarnations, whose configuration is gone.
`ManyPicks` shows of the generated `many_from_dependencies` loop that it keeps
exactly the bindings of its capability, in order.

`ServiceProofs` takes both components' lemmas as they are, the lifecycle's through
`INSTANCE` under `PluginAssumption`. Every step of the service is a step or a stutter of
the lifecycle (`LifecycleSteps`), and a step that keeps the coordinator's `Core`
(`CoordinatorSteps`): `CoreStep` is proved of `AnyStep`, which lets an invocation start
with any composition, not only the one that is `bound`. That the handler's check yields
such a composition is `AcceptedIsAComposition`, which needs `Resolved`: the ports of an
incarnation are empty or those of some Plan. `Both` collects what holds of each part alone.

What relates the two is
`Joined`: the await a slot is at and what it does with its clone fit, its ports are
those of its incarnation, and a slot that has called a participant after its pool
began to close holds that pool, waits for that call or for its store, and can never
get a connection again. It is preserved because closed pools stay closed
(`PoolsStayClosed`) and ports are connected once (`PortsConnectOnce`).
`NoExecutionIsVacuous` adds where rows come from (`RowSteps`): from an INSERT,
running or late, of an invocation that held a connection. Its pool was opened over ports
that activation accepted (the lifecycle's `Served`), these are the ports of its clone
(`Joined`), and they stay what they are, although the incarnation may be long gone
when the late INSERT commits (`FrozenStays`).

### Dispatch

`Inv` follows one call through its phases: before the handler nothing has run; after it
either the call was refused without a handler or exactly the named one ran, once, and the
result is what its return type makes of its answer. `KnownCrosses` and `UnknownCrosses` show
that the portable encoding loses nothing, for any code, payload and extra members and
for any set of codes the client knows; `ReturnTypesAgree` that the four lowerings
agree; `ClientHears` that the client unfolds the answer to what was meant.

### Texts

`TextOK` only says that the state is a text; everything else is about the operators,
for texts of any length. `Segments` is a recursion over the positions of the text, as
`split` is; `SegmentsOfOneMore` says what one more character does to the segments,
and from it, by induction over the length, `SegmentsDetermine`: two texts with the
same segments are the same text. (`GrowIsInjective` is the step: the segments tell
whether the last character was a separator, and if not, which it was.)
`WalksStraightDown` then shows that a path none of whose segments is empty, `.` or
`..` is walked segment by segment, so `PathsAreNormal`; with `SegmentsDetermine`,
`AcceptedPathsDiffer`.

`TrimIs` gives the trimmed text as the stretch between the first and the last
character that is not white space; both its ends are solid, so trimming it again
changes nothing (`TrimAgain`). `TrimIsNoLonger` is about bytes: the
two-byte characters of the trimmed text are among those of the text, shifted, so
the limit that was measured before trimming holds after it.

### What ends, and what fairness adds

The liveness properties themselves need fairness and `ENABLED`, which are out of the
prover's reach. What can be proved is that there is nothing else to them.
`StepsLeft(s)` bounds the steps an invocation can still make;
`EveryStepNearsTheEnd` shows, of each coordinator, that it is a natural number, that
each step of the invocation lowers it whatever the step's outcome, that no step of
another invocation, of the database, of other Plugins or of a recomposition changes
it, and that it starts at no more than `Longest`: six steps, one for every guard
and three for every participant, or three, two for every source and one for every
item that the limit admits. The retention measure needs `Placed` (the loop's counter never
runs past the Plan that was cloned), the export one `Collected` (the items kept
never exceed the limit, whatever a source sends). `ClosingOnlyDrains`
is the same for `deactivate`: while the pool closes, the statements it waits for
become fewer and never more. What TLC adds on its instances is that these steps
are always enabled, and taken under weak fairness.

### Induction

`SumOf`, `Many`, `Segments` and `Walk` are recursive functions over the positions of a
sequence, as the loops they stand for are. The library's induction theorems take an
operator as a parameter and cannot be instantiated here; `Induction` derives
induction for a *set* of numbers from the library's `WFMin`, which has none, and the
lemmas about sums, loops and texts apply it to the set of the lengths for which they
hold. `RecursionExists` shows in the same way that a recursive function which applies
the functions of a sequence one after the other exists, with values of the expected
type; without it nothing could be said of a value that `Segments` computes.

### Model-checked only

- Liveness, out of the prover's reach: `InvocationEnds`, `RetriesComplete`,
  `DeactivationEnds`. Of the first and the last the safety half is proved, see above;
  `RetriesComplete` rests on `StickyCompletion`, `NeverDeliveredAgain` and
  `PendingIsUnbound`.
- The finding, `ForeignRetryConflicts`, which does not hold.

## 5. Finding

The repository's `README.md:16-17` says of an allowlisted caller that does not own an
action: "a same-ID retry from that caller is an idempotency conflict". The code
asks all guards (`lib.rs:473-518`) before it loads the stored owner (`lib.rs:551`), so a
guard that denies answers such a retry with `blocked_by_guard`, and guards are
consulted about an action that the caller cannot drive. `retention_foreign_retry`
finds it: the owner freezes the action, the peer retries, a guard denies.

Three observations that contradict no document. A create whose INSERT is still to come
when its owner's purge is answered, running or already dropped, may store the
artifact again; `SettledUntilPurged` speaks of owners that have not asked for a
purge, and `PurgeIsFinal` says that such a create is the only way back. A guard's
consent is taken before, not at, the participant calls, and holds for that attempt;
a retry asks again (`UnanimousPreflight`). A participant may be called after
deactivation has begun; its receipt is then lost with the pool, and a retry
delivers again (`OneCallAfterClose` bounds this to one call per invocation).

## 6. Plan

Done: both coordinators with their abstract specifications, lifecycle, dispatch,
validators, retention composed with the lifecycle, liveness under retry, and proofs of
every safety property, the refinements included. Left, in this order:

1. The export coordinator composed with the lifecycle, as `RetentionService` does for
   retention; `Joined` carries over with sources in the place of participants.
2. A cancelled `deactivate`, whose pool is closed by nobody's await.
