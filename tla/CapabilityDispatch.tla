-------------------------- MODULE CapabilityDispatch --------------------------
(***************************************************************************)
(* The generated bindings of the five capability crates: how one call gets *)
(* from a client to the handler of its operation and how the outcome gets  *)
(* back, over the typed fast path, the erased endpoint and, for another    *)
(* lane, the portable encoding of Domain errors.  The five files are one   *)
(* template; they differ in the tables below.                              *)
(***************************************************************************)
EXTENDS Naturals, Sequences

CONSTANTS
  NewCode,   \* an error code of a later version of the provider
  Details    \* names of extra members of a Domain error object

ASSUME DetailAssumption == {"code", "payload"} \cap Details = {}

VARIABLES
  phase,    \* where the call is
  call,     \* what was called, through what
  object,   \* the Plugin object: "live", or "gone" once it was dropped
  ran,      \* the handlers that were run, in order (history)
  meant,    \* what the handler meant to answer
  result,   \* the native result on its way to the client
  answer    \* what the client method returned

vars == <<phase, call, object, ran, meant, result, answer>>

-----------------------------------------------------------------------------
(* The contracts: operations and their Domain error codes *)

DataExport == [
  create_export |-> {"artifact_too_large", "forbidden", "idempotency_conflict",
                     "invalid_request", "source_rejected"},
  purge_export  |-> {"forbidden", "invalid_request"},
  read_export   |-> {"forbidden", "invalid_request", "not_found"}]

DataRetention == [
  execute_retention |-> {"blocked_by_guard", "forbidden", "idempotency_conflict",
                         "invalid_request"},
  read_retention    |-> {"forbidden", "invalid_request", "not_found"}]

DataExportSource == [collect_export |-> {"forbidden", "invalid_request"}]

RetentionGuard == [check_retention |-> {"forbidden", "invalid_request", "unsupported_mode"}]

RetentionParticipant ==
  [apply_retention |-> {"forbidden", "invalid_request", "unsupported_mode"}]

Contracts == {DataExport, DataRetention, DataExportSource, RetentionGuard, RetentionParticipant}

ASSUME NewCodeAssumption == \A c \in Contracts : \A o \in DOMAIN c : NewCode \notin c[o]

-----------------------------------------------------------------------------
(* Domain errors and their portable encoding *)

Known(code) == [variant |-> "known", code |-> code]
Unknown(code, payload, extra) ==
  [variant |-> "unknown", code |-> code, payload |-> payload, extra |-> extra]

NoMembers == [m \in {} |-> "null"]

(* What a handler of this operation may answer with: its own codes, or an  *)
(* error that it received from elsewhere and passes on.                    *)
DomainErrors(codes) ==
  {Known(code) : code \in codes} \cup
  {Unknown(NewCode, payload, extra) :
     payload \in {{}, {"null"}, {"some"}}, extra \in UNION {[S -> {"some"}] : S \in SUBSET Details}}

(* Serialize: a known code is a string, anything else an object, in which *)
(* the extra members are written last.                                    *)
serialize(e) ==
  IF e.variant = "known" THEN [json |-> "string", code |-> e.code]
  ELSE [json |-> "object",
        members |-> [m \in DOMAIN e.extra \cup {"payload" : v \in e.payload} \cup {"code"} |->
                       IF m \in DOMAIN e.extra THEN e.extra[m]
                       ELSE IF m = "code" THEN e.code
                       ELSE CHOOSE v \in e.payload : TRUE]]

(* Deserialize *)
deserialize(codes, w) ==
  IF w.json = "string"
  THEN IF w.code \in codes THEN Known(w.code) ELSE Unknown(w.code, {}, NoMembers)
  ELSE Unknown(w.members["code"],
               {w.members[m] : m \in DOMAIN w.members \cap {"payload"}},
               [m \in DOMAIN w.members \ {"code", "payload"} |-> w.members[m]])

-----------------------------------------------------------------------------
(* Outcomes and the Results they are written in *)

Value == [kind |-> "value"]
Domain(e) == [kind |-> "domain", error |-> e]
Runtime(f) == [kind |-> "runtime", failure |-> f]

Ok(x) == [result |-> "ok", of |-> x]
Err(x) == [result |-> "err", of |-> x]

(* The four return types a handler may be written with.  "plugin" stands   *)
(* for PluginError and "invocation" for a client's InvocationError.        *)
Written(type, o) ==
  CASE type = "plain" -> IF o.kind = "value" THEN Ok(o) ELSE Err(o)
    [] type = "nested" -> IF o.kind = "runtime" THEN Err(o)
                          ELSE IF o.kind = "value" THEN Ok(Ok(o)) ELSE Ok(Err(o))
    [] type \in {"plugin", "invocation"} -> IF o.kind = "value" THEN Ok(o) ELSE Err(o)

(* Mutant: a failure is wrapped as an unknown Domain error. *)
LowersToDomain(type, written) ==
  CASE type = "plain" -> Ok(written)
    [] type = "nested" -> written
    [] OTHER -> IF written.result = "ok" \/ written.of.kind = "domain" THEN Ok(written)
                ELSE Ok(Err(Domain(Unknown(NewCode, {}, NoMembers))))

(* __lenso_into_result: Result<Result<Response, Error>, RuntimeFailure> *)
into_result(type, written) ==
  CASE type = "plain" -> Ok(written)
    [] type = "nested" -> written
    [] OTHER -> IF written.result = "ok" THEN Ok(written)
                ELSE IF written.of.kind = "domain" THEN Ok(written) ELSE written

(* The client: .map_err(Runtime)?.map_err(Domain) *)
client_result(r) ==
  IF r.result = "err" THEN Err([kind |-> "runtime", failure |-> r.of.failure])
  ELSE IF r.of.result = "err" THEN Err([kind |-> "domain", error |-> r.of.of.error])
  ELSE r.of

-----------------------------------------------------------------------------

NoCall == [lane |-> "none"]
NoOutcome == [kind |-> "none"]

Init ==
  /\ phase = "idle"
  /\ call = NoCall
  /\ object = "live"
  /\ ran = << >>
  /\ meant = NoOutcome
  /\ result = NoOutcome
  /\ answer = NoOutcome

(* A handle of the type of operation `typed` is invoked with the operation *)
(* name `named`.  The endpoint is this lane's, or a stand-in for another   *)
(* lane's; there the client may be of an earlier version.                  *)
Call(contract, typed, named, lane, codes) ==
  /\ phase = "idle"
  /\ call' = [contract |-> contract, typed |-> typed, named |-> named, lane |-> lane,
              codes |-> codes]
  /\ phase' = "invoking"
  /\ UNCHANGED <<object, ran, meant, result, answer>>

(* Mutant: the operation name is not compared. *)
AnyNameIsTyped ==
  /\ phase = "invoking"
  /\ call.lane = "own"
  /\ phase' = "polled"
  /\ UNCHANGED <<call, object, ran, meant, result, answer>>

(* invoke_native, the fast path: the endpoint is this crate's. *)
InvokeTyped ==
  /\ phase = "invoking"
  /\ call.named = call.typed
  /\ call.lane = "own"
  /\ phase' = "polled"
  /\ UNCHANGED <<call, object, ran, meant, result, answer>>

(* Any other call is left to the kernel, which boxes the request.          *)
InvokeErased ==
  /\ phase = "invoking"
  /\ ~(call.named = call.typed /\ call.lane = "own")
  /\ phase' = "erased"
  /\ UNCHANGED <<call, object, ran, meant, result, answer>>

Refuse(failure) ==
  /\ result' = Err(Runtime(failure))
  /\ phase' = "returned"
  /\ UNCHANGED <<call, object, ran, meant, answer>>

UnknownOperation ==
  /\ phase = "erased"
  /\ call.named \notin DOMAIN call.contract
  /\ Refuse("unknown operation")

(* The boxed request is not of the operation's type. *)
DowncastFails ==
  /\ phase = "erased"
  /\ call.named \in DOMAIN call.contract
  /\ call.named # call.typed
  /\ Refuse("protocol violation")

EndpointInvokes ==
  /\ phase = "erased"
  /\ call.named \in DOMAIN call.contract
  /\ call.named = call.typed
  /\ phase' = "polled"
  /\ UNCHANGED <<call, object, ran, meant, result, answer>>

(* object.get()? when the future is first polled. *)
ObjectIsGone ==
  /\ phase = "polled"
  /\ object = "gone"
  /\ Refuse("plugin failure")

HandlerRuns ==
  /\ phase = "polled"
  /\ object = "live"
  /\ ran' = Append(ran, call.typed)
  /\ phase' = "handling"
  /\ UNCHANGED <<call, object, meant, result, answer>>

HandlerReturns(type, o) ==
  /\ phase = "handling"
  /\ type = "plain" => o.kind # "runtime"
  /\ meant' = o
  /\ result' = into_result(type, Written(type, o))
  /\ phase' = "returned"
  /\ UNCHANGED <<call, object, ran, answer>>

(* In another lane a Domain error crosses as portable JSON. *)
CrossesLane(r) ==
  IF call.lane = "other" /\ r.result = "ok" /\ r.of.result = "err"
  THEN Ok(Err(Domain(deserialize(call.codes, serialize(r.of.of.error)))))
  ELSE r

(* Mutant: a call that failed is made again. *)
RetriesFailure ==
  /\ phase = "returned"
  /\ \/ result.result = "err" /\ phase' = "invoking" /\ UNCHANGED answer
     \/ /\ result.result = "ok"
        /\ answer' = client_result(CrossesLane(result))
        /\ phase' = "answered"
  /\ UNCHANGED <<call, object, ran, meant, result>>

ClientReturns ==
  /\ phase = "returned"
  /\ answer' = client_result(CrossesLane(result))
  /\ phase' = "answered"
  /\ UNCHANGED <<call, object, ran, meant, result>>

(* The Plugin is dropped at any time; a running handler has its clone.     *)
ObjectDropped ==
  /\ object = "live"
  /\ phase # "answered"
  /\ object' = "gone"
  /\ UNCHANGED <<phase, call, ran, meant, result, answer>>

Outcomes(codes) ==
  {Value, Runtime("handler failure")} \cup {Domain(e) : e \in DomainErrors(codes)}

Next ==
  \/ \E contract \in Contracts :
       \E typed \in DOMAIN contract, named \in DOMAIN contract \cup {"novel_operation"},
          lane \in {"own", "other"} :
         \E older \in {{}} \cup {{code} : code \in contract[typed]} :
           Call(contract, typed, named, lane, contract[typed] \ older)
  \/ InvokeTyped \/ InvokeErased
  \/ UnknownOperation \/ DowncastFails \/ EndpointInvokes
  \/ ObjectIsGone \/ HandlerRuns
  \/ /\ phase = "handling"
     /\ \E type \in {"plain", "nested", "plugin", "invocation"},
           o \in Outcomes(call.contract[call.typed]) : HandlerReturns(type, o)
  \/ ClientReturns
  \/ ObjectDropped

Spec == Init /\ [][Next]_vars

-----------------------------------------------------------------------------
(* Properties *)

(* What a handler answered is what the client returns: a value stays a     *)
(* value, a Domain error is never taken for a RuntimeFailure or the other  *)
(* way round, and a code the client knows arrives as that variant, one it  *)
(* does not as Unknown, with nothing lost, whatever the return type of the *)
(* handler and the way the call took.                                      *)
AnswersAreFaithful ==
  phase = "answered" /\ ran # << >> =>
    CASE meant.kind = "value" -> answer = Ok(Value)
      [] meant.kind = "runtime" -> answer = Err(meant)
      [] meant.kind = "domain" ->
           LET e == meant.error IN
           answer = Err(Domain(IF e.variant = "known" /\ call.lane = "other" /\ e.code \notin call.codes
                               THEN Unknown(e.code, {}, NoMembers) ELSE e))

(* A handler runs only for a request of its own type under its own name;   *)
(* one call runs at most one handler and runs it at most once, whatever    *)
(* fails after it; and a call that runs none is answered with a            *)
(* RuntimeFailure, never with a Domain error of the contract.              *)
OnlyTheNamedHandlerRuns ==
  /\ Len(ran) <= 1
  /\ \A i \in DOMAIN ran : ran[i] = call.named /\ ran[i] = call.typed
  /\ phase = "answered" /\ ran = << >> =>
       answer.result = "err" /\ answer.of.kind = "runtime"
=============================================================================
