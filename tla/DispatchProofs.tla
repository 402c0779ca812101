---------------------------- MODULE DispatchProofs ----------------------------
(* Theorems about CapabilityDispatch, for every new code and every set of  *)
(* extra members of a Domain error.                                        *)
EXTENDS CapabilityDispatch, TLAPS

(* Extra members of a Domain error, as another lane may add them. *)
Extras == UNION {[S -> {"some"}] : S \in SUBSET Details}
Payloads == {{}, {"null"}, {"some"}}

-----------------------------------------------------------------------------
(* The portable encoding *)

(* A code the reader knows comes back as itself, one it does not know as   *)
(* Unknown with nothing but its code.                                      *)
LEMMA KnownCrosses ==
  ASSUME NEW codes, NEW code
  PROVE  deserialize(codes, serialize(Known(code))) =
           IF code \in codes THEN Known(code) ELSE Unknown(code, {}, NoMembers)
BY DEF deserialize, serialize, Known

(* An Unknown comes back with its payload and every extra member. *)
LEMMA UnknownCrosses ==
  ASSUME NEW codes, NEW payload \in Payloads, NEW extra \in Extras
  PROVE  deserialize(codes, serialize(Unknown(NewCode, payload, extra))) =
           Unknown(NewCode, payload, extra)
<1>. DEFINE e == Unknown(NewCode, payload, extra)
            members == serialize(e).members
<1>1. PICK S \in SUBSET Details : extra \in [S -> {"some"}]
  BY DEF Extras
<1>2. "code" \notin S /\ "payload" \notin S
  BY <1>1, DetailAssumption
<1>3. /\ DOMAIN members = S \cup {"payload" : v \in payload} \cup {"code"}
      /\ members["code"] = NewCode
      /\ payload # {} => members["payload"] = (CHOOSE v \in payload : TRUE)
      /\ \A m \in S : members[m] = extra[m]
  BY <1>1, <1>2 DEF serialize, Unknown
<1>. HIDE DEF members
<1>4. {members[m] : m \in DOMAIN members \cap {"payload"}} = payload
  <2>1. CASE payload = {}
    BY <1>2, <1>3, <2>1
  <2>2. ASSUME NEW x, payload = {x}
        PROVE  {members[m] : m \in DOMAIN members \cap {"payload"}} = payload
    BY <1>2, <1>3, <2>2
  <2>. QED BY <2>1, <2>2 DEF Payloads
<1>5. [m \in DOMAIN members \ {"code", "payload"} |-> members[m]] = extra
  <2>1. DOMAIN members \ {"code", "payload"} = S
    BY <1>2, <1>3
  <2>. QED BY <1>1, <1>3, <2>1
<1>6. serialize(e).json = "object"
  BY DEF serialize, Unknown
<1>. QED BY <1>3, <1>4, <1>5, <1>6 DEF deserialize, members

-----------------------------------------------------------------------------
(* Outcomes on their way *)

(* What a handler may mean. *)
Meaning(o) ==
  \/ o = Value
  \/ o = Runtime("handler failure")
  \/ \E code : o = Domain(Known(code))
  \/ \E payload \in Payloads, extra \in Extras : o = Domain(Unknown(NewCode, payload, extra))

(* Result<Result<Response, Error>, RuntimeFailure> *)
Native(o) ==
  IF o.kind = "runtime" THEN Err(o) ELSE IF o.kind = "value" THEN Ok(Ok(o)) ELSE Ok(Err(o))

(* What the client method makes of it. *)
Heard(o) ==
  CASE o.kind = "value" -> Ok(Value)
    [] o.kind = "runtime" -> Err(o)
    [] o.kind = "domain" ->
         LET e == o.error IN
         Err(Domain(IF e.variant = "known" /\ call.lane = "other" /\ e.code \notin call.codes
                    THEN Unknown(e.code, {}, NoMembers) ELSE e))

LEMMA HandlersMean ==
  ASSUME NEW codes, NEW o \in Outcomes(codes)
  PROVE  Meaning(o)
<1>1. ASSUME NEW e \in DomainErrors(codes), o = Domain(e)
      PROVE  Meaning(o)
  <2>1. \/ \E code \in codes : e = Known(code)
        \/ \E payload \in Payloads, extra \in Extras : e = Unknown(NewCode, payload, extra)
    BY DEF DomainErrors, Payloads, Extras
  <2>. QED BY <1>1, <2>1 DEF Meaning
<1>2. o = Value \/ o = Runtime("handler failure") \/ \E e \in DomainErrors(codes) : o = Domain(e)
  BY DEF Outcomes
<1>. QED BY <1>1, <1>2 DEF Meaning

LEMMA KindsOfMeaning ==
  ASSUME NEW o, Meaning(o)
  PROVE  \/ o.kind = "value" /\ o = Value
         \/ o.kind = "runtime" /\ o = Runtime("handler failure")
         \/ o.kind = "domain" /\ o = Domain(o.error)
<1>1. Value.kind = "value" /\ Runtime("handler failure").kind = "runtime"
  BY DEF Value, Runtime
<1>2. ASSUME NEW e, o = Domain(e)
      PROVE  o.kind = "domain" /\ o = Domain(o.error)
  <2>1. o.kind = "domain" /\ o.error = e
    BY <1>2 DEF Domain
  <2>. QED BY <1>2, <2>1
<1>. QED BY <1>1, <1>2 DEF Meaning

(* Whichever of its four return types a handler is written with, its       *)
(* meaning becomes the same native result.                                 *)
LEMMA ReturnTypesAgree ==
  ASSUME NEW o, Meaning(o), NEW type \in {"plain", "nested", "plugin", "invocation"},
         type = "plain" => o.kind # "runtime"
  PROVE  into_result(type, Written(type, o)) = Native(o)
<1>1. CASE type = "plain"
  BY <1>1, KindsOfMeaning DEF into_result, Written, Native
<1>2. CASE type = "nested"
  BY <1>2, KindsOfMeaning DEF into_result, Written, Native
<1>3. CASE type \in {"plugin", "invocation"}
  BY <1>3, KindsOfMeaning DEF into_result, Written, Native, Ok, Err
<1>. QED BY <1>1, <1>2, <1>3

(* And the client method returns that meaning, through its own lane or     *)
(* another.                                                                *)
LEMMA ClientHears ==
  ASSUME NEW o, Meaning(o)
  PROVE  client_result(CrossesLane(Native(o))) = Heard(o)
<1>. USE DEF Ok, Err
<1>1. CASE o.kind = "value"
  BY <1>1, KindsOfMeaning DEF Native, CrossesLane, client_result, Heard, Value
<1>2. CASE o.kind = "runtime"
  <2>1. o = Runtime("handler failure") /\ Native(o) = Err(o) /\ Heard(o) = Err(o)
    BY <1>2, KindsOfMeaning DEF Native, Heard
  <2>2. CrossesLane(Err(o)) = Err(o)
    BY DEF CrossesLane
  <2>3. client_result(Err(o)) = Err([kind |-> "runtime", failure |-> o.failure])
    BY DEF client_result
  <2>4. o = [kind |-> "runtime", failure |-> o.failure]
    BY <2>1 DEF Runtime
  <2>. QED BY <2>1, <2>2, <2>3, <2>4
<1>3. CASE o.kind = "domain"
  <2>1. o = Domain(o.error) /\ o = [kind |-> "domain", error |-> o.error]
    BY <1>3, KindsOfMeaning DEF Domain
  <2>2. Native(o) = Ok(Err(o))
    BY <1>3 DEF Native
  <2>3. CASE call.lane # "other"
    BY <1>3, <2>1, <2>2, <2>3 DEF CrossesLane, client_result, Heard, Domain
  <2>4. CASE call.lane = "other"
    <3>1. CrossesLane(Native(o)) =
            Ok(Err(Domain(deserialize(call.codes, serialize(o.error)))))
      BY <2>2, <2>4 DEF CrossesLane
    <3>2. client_result(CrossesLane(Native(o))) =
            Err(Domain(deserialize(call.codes, serialize(o.error))))
      BY <3>1 DEF client_result, Domain
    <3>3. \/ \E code : o.error = Known(code)
          \/ \E payload \in Payloads, extra \in Extras :
               o.error = Unknown(NewCode, payload, extra)
      <4>1. o # Value /\ o # Runtime("handler failure")
        <5>1. Value.kind # "domain" /\ Runtime("handler failure").kind # "domain"
          BY DEF Value, Runtime
        <5>. QED BY <1>3, <5>1
      <4>2. \A e : o = Domain(e) => o.error = e
        BY DEF Domain
      <4>. QED BY <4>1, <4>2 DEF Meaning
    <3>4. ASSUME NEW code, o.error = Known(code)
          PROVE  client_result(CrossesLane(Native(o))) = Heard(o)
      <4>1. o.error.variant = "known" /\ o.error.code = code
        BY <3>4 DEF Known
      <4>. QED BY <1>3, <2>4, <3>2, <3>4, <4>1, KnownCrosses DEF Heard
    <3>5. ASSUME NEW payload \in Payloads, NEW extra \in Extras,
                 o.error = Unknown(NewCode, payload, extra)
          PROVE  client_result(CrossesLane(Native(o))) = Heard(o)
      <4>1. o.error.variant = "unknown"
        BY <3>5 DEF Unknown
      <4>. QED BY <1>3, <3>2, <3>5, <4>1, UnknownCrosses DEF Heard
    <3>. QED BY <3>3, <3>4, <3>5
  <2>. QED BY <2>3, <2>4
<1>. QED BY <1>1, <1>2, <1>3, KindsOfMeaning

-----------------------------------------------------------------------------
(* The call *)

(* Either no handler ran, and the result is a RuntimeFailure, or the one   *)
(* that was called by its own name did, once, and the result is what it    *)
(* meant.                                                                  *)
Refused(r) == ran = << >> /\ \E f : r = Err(Runtime(f))

Handled == ran = <<call.typed>> /\ call.named = call.typed

Inv ==
  /\ phase \in {"idle", "invoking", "erased", "polled", "handling", "returned", "answered"}
  /\ phase \in {"idle", "invoking", "erased", "polled"} => ran = << >>
  /\ phase = "polled" => call.named = call.typed
  /\ phase = "handling" => Handled
  /\ phase = "returned" =>
       Refused(result) \/ (Handled /\ Meaning(meant) /\ result = Native(meant))
  /\ phase = "answered" =>
       Refused(answer) \/ (Handled /\ Meaning(meant) /\ answer = Heard(meant))

LEMMA InvStep ==
  ASSUME Inv, [Next]_vars
  PROVE  Inv'
<1>1. CASE UNCHANGED vars
  BY <1>1 DEF Inv, vars, Refused, Handled, Heard
<1>2. ASSUME NEW contract, NEW typed, NEW named, NEW lane, NEW codes,
             Call(contract, typed, named, lane, codes)
      PROVE  Inv'
  BY <1>2 DEF Call, Inv
<1>3. CASE InvokeTyped \/ InvokeErased \/ EndpointInvokes
  BY <1>3 DEF InvokeTyped, InvokeErased, EndpointInvokes, Inv
<1>4. CASE UnknownOperation \/ DowncastFails \/ ObjectIsGone
  <2>1. \E failure : Refuse(failure) /\ ran = << >>
    BY <1>4 DEF UnknownOperation, DowncastFails, ObjectIsGone, Inv
  <2>. QED BY <2>1 DEF Refuse, Refused, Inv
<1>5. CASE HandlerRuns
  BY <1>5 DEF HandlerRuns, Handled, Inv
<1>6. ASSUME NEW type \in {"plain", "nested", "plugin", "invocation"},
             NEW o \in Outcomes(call.contract[call.typed]), HandlerReturns(type, o)
      PROVE  Inv'
  <2>1. Meaning(o) /\ (type = "plain" => o.kind # "runtime")
    BY <1>6, HandlersMean DEF HandlerReturns
  <2>2. result' = Native(o) /\ meant' = o
    BY <1>6, <2>1, ReturnTypesAgree DEF HandlerReturns
  <2>3. Handled' /\ phase' = "returned"
    BY <1>6 DEF HandlerReturns, Handled, Inv
  <2>4. Native(meant)' = Native(o) /\ Meaning(meant)'
    BY <2>1, <2>2 DEF Native, Meaning
  <2>. QED BY <2>2, <2>3, <2>4 DEF Inv
<1>7. CASE ClientReturns
  <2>1. phase = "returned" /\ phase' = "answered" /\ UNCHANGED <<call, ran, meant>>
    BY <1>7 DEF ClientReturns
  <2>2. CASE Refused(result)
    <3>1. PICK f : result = Err(Runtime(f))
      BY <2>2 DEF Refused
    <3>2. client_result(CrossesLane(result)) = Err(Runtime(f))
      BY <3>1 DEF CrossesLane, client_result, Err, Runtime
    <3>. QED BY <1>7, <2>1, <2>2, <3>2 DEF ClientReturns, Refused, Inv
  <2>3. CASE Handled /\ Meaning(meant) /\ result = Native(meant)
    <3>1. answer' = Heard(meant)
      BY <1>7, <2>3, ClientHears DEF ClientReturns
    <3>2. Heard(meant)' = Heard(meant) /\ Handled' /\ Meaning(meant)'
      BY <2>1, <2>3 DEF Heard, Handled, Meaning
    <3>. QED BY <2>1, <3>1, <3>2 DEF Inv
  <2>. QED BY <2>1, <2>2, <2>3 DEF Inv
<1>8. CASE ObjectDropped
  BY <1>8 DEF ObjectDropped, Inv, Refused, Handled, Heard
<1>. QED BY <1>1, <1>2, <1>3, <1>4, <1>5, <1>6, <1>7, <1>8 DEF Next

LEMMA InvHolds == Spec => []Inv
<1>1. Init => Inv
  BY DEF Init, Inv
<1>. QED BY <1>1, InvStep, PTL DEF Spec

(* What a handler answered is what the client gets, whatever the handler's *)
(* return type, the lane of the call and the age of the client: no Domain  *)
(* error turns into a failure or back, and nothing of it is lost           *)
(* (generated.rs:242-295 and the client methods).                          *)
THEOREM AnswersArrive == Spec => []AnswersAreFaithful
<1>1. ASSUME Inv, phase = "answered", ran # << >>
      PROVE  Meaning(meant) /\ answer = Heard(meant)
  BY <1>1 DEF Inv, Refused
<1>2. Inv => AnswersAreFaithful
  BY <1>1, KindsOfMeaning DEF AnswersAreFaithful, Heard
<1>. QED BY <1>2, InvHolds, PTL

(* No call runs the handler of another operation, none runs two handlers   *)
(* or the same one twice, and one that runs none is answered with a        *)
(* RuntimeFailure.                                                         *)
THEOREM OnlyItsOwnHandler == Spec => []OnlyTheNamedHandlerRuns
<1>1. ASSUME Inv
      PROVE  OnlyTheNamedHandlerRuns
  <2>0. \A f : Err(Runtime(f)).result = "err" /\ Err(Runtime(f)).of.kind = "runtime"
    BY DEF Err, Runtime
  <2>1. ran = << >> \/ Handled
    BY <1>1 DEF Inv, Refused
  <2>2. CASE ran = << >>
    BY <1>1, <2>0, <2>2 DEF Inv, Refused, Handled, OnlyTheNamedHandlerRuns
  <2>3. CASE Handled
    <3>1. Len(ran) = 1 /\ DOMAIN ran = {1} /\ ran[1] = call.typed /\ call.named = call.typed
      BY <2>3 DEF Handled
    <3>2. ran # << >>
      BY <2>3 DEF Handled
    <3>. QED BY <3>1, <3>2 DEF OnlyTheNamedHandlerRuns
  <2>. QED BY <2>1, <2>2, <2>3
<1>. QED BY <1>1, InvHolds, PTL
=============================================================================
