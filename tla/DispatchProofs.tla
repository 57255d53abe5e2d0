--------------------------- MODULE DispatchProofs ---------------------------
(***************************************************************************)
(* Proofs of Dispatch's safety properties for every set of invocations.    *)
(* The inductive invariant says, for each place the callback can stand at, *)
(* what the gates behind it have already established about the call.       *)
(***************************************************************************)
EXTENDS Dispatch, TLAPS

\* Places behind the parent's ACL gate, and behind the approval check.
PastAcl      == {"approve", "prompt", "route", "checks", "gate",
                 "gatePrompt", "body"}
PastApproval == {"route", "checks", "gate", "gatePrompt", "body"}
InExecutor   == {"checks", "gate", "gatePrompt"}
AfterStart   == {"running", "format", "audit", "logged", "failed", "exited"}
DryPlaces    == {"input", "preflight", "acl", "approve", "prompt", "failed",
                 "exited"}

\* The parent's gate has refused every denied sandboxed call, and nothing
\* denied passes the executor's acl_check but under a bypassing strategy.
DenyInv ==
  /\ (pc \in PastAcl /\ call.sandbox) => call.acl # "deny"
  /\ pc \in {"gate", "gatePrompt"} => call.acl # "deny"
  /\ pc \in InExecutor => Route(call).place = "process"
  /\ pc \in InExecutor \union {"body"} =>
       warned = (/\ Route(call).warns
                 /\ call.strategy \in AclBypassStrategies
                 /\ call.acl # "unattached")
  /\ (pc = "body" /\ call.acl = "deny") =>
       Route(call).place = "process" /\ ~Gated(call)

\* What is known of the audit log at each place.
LogInv ==
  /\ pc \notin {"logged", "exited"} => log = <<>>
  /\ pc = "logged" => log = IF call.logger = "on"
                              THEN <<[status |-> "success", code |-> 0]>>
                              ELSE <<>>
  /\ ran # "no" => pc \in AfterStart
  /\ pc # "exited" => ~interrupted

\* A dry run stays off the execution path.
DryInv ==
  call.dry => /\ pc \in DryPlaces
              /\ ran = "no"
              /\ call.via = "module" => pc \notin {"acl", "approve", "prompt"}

\* The three promises about the record left behind.
RecordInv == EveryRunAudited /\ RecordTellsOutcome /\ DryRunInert

IInv == TypeOK /\ DenyInv /\ LogInv /\ DryInv /\ DeniedNeverRuns /\ RecordInv

\* Consent, where the approval check and the executor's gate have asked.
ConsentInv ==
  /\ pc \in PastAcl => aclApproval = (call.sandbox /\ call.acl = "ask")
  /\ (pc \in PastApproval /\ (call.annotated \/ (call.sandbox /\ call.acl = "ask")))
       => consent # "none"
  /\ (pc = "body" /\ NeedsHuman(call)) => consent # "none"

HInv == TypeOK /\ LogInv /\ ConsentInv /\ HumanWasAsked
-----------------------------------------------------------------------------
(* Facts about the operators of the model. *)

\* Every field of an invocation has its type.
LEMMA CallFields ==
  ASSUME NEW c \in Calls
  PROVE  /\ c.via \in {"module", "exec"}
         /\ c.sandbox \in BOOLEAN
         /\ c.dry \in BOOLEAN
         /\ c.strategy \in Strategies
         /\ c.annotated \in BOOLEAN
         /\ c.acl \in AclVerdicts
  BY CallsAssumption DEF CallSpace

\* An error is never reported as success: cli.py and exit_codes.py fall back
\* to 1 and no entry of either map is 0.
LEMMA ErrorCodeNonZero ==
  ASSUME NEW via, NEW e
  PROVE  ExitCodeFor(via, e) \in Nat \ {0}
  BY DEF ExitCodeFor, ClassCode, WireCode

\* A subprocess is chosen only for --sandbox, and a bypassing strategy takes
\* effect only when it was asked for and on a route that prints the warning.
LEMMA RouteFacts ==
  ASSUME NEW c \in Calls
  PROVE  /\ Route(c).place \in {"process", "subprocess"}
         /\ Route(c).place = "subprocess" => c.sandbox
         /\ ~Gated(c) => /\ Route(c).place = "process"
                         /\ c.strategy \in AclBypassStrategies
                         /\ Route(c).warns
<1>1. CASE Streams(c)
  BY <1>1 DEF Route, Gated, AclBypassStrategies
<1>2. CASE ~Streams(c) /\ Traced(c)
  BY <1>2 DEF Route, Gated, AclBypassStrategies
<1>3. CASE ~Streams(c) /\ ~Traced(c)
  <2>1. Route(c) =
          [place    |-> IF c.sandbox THEN "subprocess" ELSE "process",
           strategy |-> IF c.sandbox \/ "call_with_trace" \notin c.caps
                          THEN "none" ELSE c.strategy,
           warns    |-> "call_with_trace" \in c.caps]
    BY <1>3 DEF Route
  <2>2. Gated(c) <=> (c.sandbox \/ "call_with_trace" \notin c.caps
                       \/ c.strategy \notin AclBypassStrategies)
    BY <2>1 DEF Gated, AclBypassStrategies
  <2>3. /\ Route(c).place = IF c.sandbox THEN "subprocess" ELSE "process"
        /\ Route(c).warns = ("call_with_trace" \in c.caps)
    BY <2>1
  <2>4. QED
    BY <2>2, <2>3, CallFields
<1>4. QED
  BY <1>1, <1>2, <1>3
-----------------------------------------------------------------------------
(* Type correctness. *)

\* Appending a record, or failing to, keeps the log a sequence of records.
LEMMA LoggedType ==
  ASSUME TypeOK, NEW record \in Records
  PROVE  Logged(record) \in Seq(Records)
<1>1. log \in Seq(Records)
  BY DEF TypeOK
<1>2. Append(log, record) \in Seq(Records)
  BY <1>1
<1>3. QED
  BY <1>1, <1>2, Zenon DEF Logged

LEMMA TypeInit == Init => TypeOK
<1> SUFFICES ASSUME Init
             PROVE  TypeOK
  OBVIOUS
<1>1. exit \in Int
  BY DEF Init
<1>2. log \in Seq(Records)
  BY DEF Init
<1>3. QED
  BY <1>1, <1>2, Zenon DEF Init, TypeOK, Busy

LEMMA TypeStep == TypeOK /\ [Next]_vars => TypeOK'
<1> SUFFICES ASSUME TypeOK, [Next]_vars
             PROVE  TypeOK'
  OBVIOUS
<1> USE DEF TypeOK, Busy, Prompts, Goto, Raise, Quit
<1>1. CASE CollectInput
  BY <1>1 DEF CollectInput
<1>2. CASE Preflight
  BY <1>2 DEF Preflight, CheckCode, Errors, CliErrors
<1>3. CASE ValidateSchema
  BY <1>3 DEF ValidateSchema
<1>4. CASE EnforceAcl
  BY <1>4, CallFields DEF EnforceAcl
<1>5. CASE CheckApproval
  BY <1>5 DEF CheckApproval, AfterApproval, Errors, CliErrors
<1>6. CASE AnswerPrompt
  BY <1>6 DEF AnswerPrompt, Answer, AfterApproval, Errors, CliErrors
<1>7. CASE ChooseRoute
  BY <1>7 DEF ChooseRoute
<1>8. CASE PipelineChecks
  BY <1>8 DEF PipelineChecks, Errors, CliErrors
<1>9. CASE RequestApproval
  BY <1>9 DEF RequestApproval, Errors, CliErrors
<1>10. CASE AnswerGatePrompt
  BY <1>10 DEF AnswerGatePrompt, Answer, Errors, CliErrors
<1>11. CASE StartBody
  BY <1>11, RouteFacts DEF StartBody
<1>12. CASE EndBody
  BY <1>12 DEF EndBody, Errors, CliErrors
<1>13. CASE FormatResult
  BY <1>13 DEF FormatResult, Errors, CliErrors
<1>14. CASE LogSuccess
  <2>1. [status |-> "success", code |-> 0] \in Records
    BY DEF Records
  <2>2. log' \in Seq(Records)
    BY <1>14, <2>1, LoggedType DEF LogSuccess
  <2>3. QED
    BY <1>14, <2>2 DEF LogSuccess
<1>15. CASE Return
  BY <1>15 DEF Return
<1>16. CASE HandleError
  <2>1. ExitCodeFor(call.via, err) \in Nat
    BY ErrorCodeNonZero
  <2>2. [status |-> "error", code |-> ExitCodeFor(call.via, err)] \in Records
    BY <2>1 DEF Records
  <2>3. log' \in Seq(Records)
    BY <1>16, <2>2, LoggedType DEF HandleError
  <2>4. QED
    BY <1>16, <2>1, <2>3 DEF HandleError
<1>17. CASE Interrupt
  BY <1>17 DEF Interrupt
<1>18. CASE UNCHANGED vars
  BY <1>18 DEF vars
<1>19. QED
  BY <1>1, <1>2, <1>3, <1>4, <1>5, <1>6, <1>7, <1>8, <1>9, <1>10, <1>11,
     <1>12, <1>13, <1>14, <1>15, <1>16, <1>17, <1>18 DEF Next

\* Every reachable state of a dispatch is well typed.
THEOREM TypeCorrect == Spec => []TypeOK
  BY TypeInit, TypeStep, PTL DEF Spec
-----------------------------------------------------------------------------
(* The invariant is inductive, one part at a time. *)

\* A step keeps what the gates have established about a denied call.
LEMMA DenyStep ==
  TypeOK /\ DenyInv /\ [Next]_vars => DenyInv'
<1> SUFFICES ASSUME TypeOK /\ DenyInv, [Next]_vars
             PROVE  DenyInv'
  OBVIOUS
<1> USE DEF TypeOK, DenyInv, PastAcl, InExecutor, Busy, Prompts, Goto, Raise, Quit
<1>1. CASE CollectInput
  BY <1>1 DEF CollectInput
<1>2. CASE Preflight
  BY <1>2 DEF Preflight
<1>3. CASE ValidateSchema
  BY <1>3 DEF ValidateSchema
<1>4. CASE EnforceAcl
  BY <1>4 DEF EnforceAcl
<1>5. CASE CheckApproval
  BY <1>5 DEF CheckApproval, AfterApproval
<1>6. CASE AnswerPrompt
  BY <1>6 DEF AnswerPrompt, Answer, AfterApproval
<1>7. CASE ChooseRoute
  <2>1. /\ Route(call).place \in {"process", "subprocess"}
        /\ Route(call).place = "subprocess" => call.sandbox
    BY RouteFacts
  <2>2. /\ pc = "route"
        /\ call' = call
        /\ warned' = (/\ Route(call).warns
                      /\ call.strategy \in AclBypassStrategies
                      /\ call.acl # "unattached")
    BY <1>7 DEF ChooseRoute
  <2>3. CASE Route(call).place = "process"
    <3>1. pc' = "checks"
      BY <1>7, <2>3 DEF ChooseRoute
    <3>2. QED
      BY <2>2, <2>3, <3>1
  <2>4. CASE Route(call).place = "subprocess"
    <3>1. /\ pc' \in {"body", "exited"}
          /\ pc' = "body" => call.acl # "deny"
      BY <1>7, <2>4 DEF ChooseRoute
    <3>2. QED
      BY <2>2, <3>1
  <2>5. QED
    BY <2>1, <2>3, <2>4
<1>8. CASE PipelineChecks
  BY <1>8 DEF PipelineChecks
<1>9. CASE RequestApproval
  BY <1>9 DEF RequestApproval
<1>10. CASE AnswerGatePrompt
  BY <1>10 DEF AnswerGatePrompt, Answer
<1>11. CASE StartBody
  BY <1>11 DEF StartBody
<1>12. CASE EndBody
  BY <1>12 DEF EndBody
<1>13. CASE FormatResult
  BY <1>13 DEF FormatResult
<1>14. CASE LogSuccess
  BY <1>14 DEF LogSuccess
<1>15. CASE Return
  BY <1>15 DEF Return
<1>16. CASE HandleError
  BY <1>16 DEF HandleError
<1>17. CASE Interrupt
  BY <1>17 DEF Interrupt
<1>18. CASE UNCHANGED vars
  BY <1>18 DEF vars
<1>19. QED
  BY <1>1, <1>2, <1>3, <1>4, <1>5, <1>6, <1>7, <1>8, <1>9, <1>10, <1>11,
     <1>12, <1>13, <1>14, <1>15, <1>16, <1>17, <1>18 DEF Next

\* A step keeps the log empty until the callback reaches its end.
LEMMA LogStep ==
  TypeOK /\ LogInv /\ [Next]_vars => LogInv'
<1> SUFFICES ASSUME TypeOK /\ LogInv, [Next]_vars
             PROVE  LogInv'
  OBVIOUS
<1> USE DEF TypeOK, LogInv, AfterStart, Busy, Prompts, Goto, Raise, Quit
<1>1. CASE CollectInput
  BY <1>1 DEF CollectInput
<1>2. CASE Preflight
  BY <1>2 DEF Preflight
<1>3. CASE ValidateSchema
  BY <1>3 DEF ValidateSchema
<1>4. CASE EnforceAcl
  BY <1>4 DEF EnforceAcl
<1>5. CASE CheckApproval
  BY <1>5 DEF CheckApproval, AfterApproval
<1>6. CASE AnswerPrompt
  BY <1>6 DEF AnswerPrompt, Answer, AfterApproval
<1>7. CASE ChooseRoute
  BY <1>7 DEF ChooseRoute
<1>8. CASE PipelineChecks
  BY <1>8 DEF PipelineChecks
<1>9. CASE RequestApproval
  BY <1>9 DEF RequestApproval
<1>10. CASE AnswerGatePrompt
  BY <1>10 DEF AnswerGatePrompt, Answer
<1>11. CASE StartBody
  BY <1>11 DEF StartBody
<1>12. CASE EndBody
  BY <1>12 DEF EndBody
<1>13. CASE FormatResult
  BY <1>13 DEF FormatResult
<1>14. CASE LogSuccess
  BY <1>14 DEF LogSuccess, Logged
<1>15. CASE Return
  BY <1>15 DEF Return
<1>16. CASE HandleError
  BY <1>16 DEF HandleError
<1>17. CASE Interrupt
  BY <1>17 DEF Interrupt
<1>18. CASE UNCHANGED vars
  BY <1>18 DEF vars
<1>19. QED
  BY <1>1, <1>2, <1>3, <1>4, <1>5, <1>6, <1>7, <1>8, <1>9, <1>10, <1>11,
     <1>12, <1>13, <1>14, <1>15, <1>16, <1>17, <1>18 DEF Next

\* A step keeps a dry run off the execution path.
LEMMA DryStep ==
  TypeOK /\ DryInv /\ [Next]_vars => DryInv'
<1> SUFFICES ASSUME TypeOK /\ DryInv, [Next]_vars
             PROVE  DryInv'
  OBVIOUS
<1> USE DEF TypeOK, DryInv, DryPlaces, Busy, Prompts, Goto, Raise, Quit
<1>1. CASE CollectInput
  BY <1>1, CallFields DEF CollectInput
<1>2. CASE Preflight
  BY <1>2 DEF Preflight
<1>3. CASE ValidateSchema
  BY <1>3 DEF ValidateSchema
<1>4. CASE EnforceAcl
  BY <1>4 DEF EnforceAcl
<1>5. CASE CheckApproval
  BY <1>5, CallFields DEF CheckApproval, AfterApproval
<1>6. CASE AnswerPrompt
  BY <1>6, CallFields DEF AnswerPrompt, Answer, AfterApproval
<1>7. CASE ChooseRoute
  BY <1>7 DEF ChooseRoute
<1>8. CASE PipelineChecks
  BY <1>8 DEF PipelineChecks
<1>9. CASE RequestApproval
  BY <1>9 DEF RequestApproval
<1>10. CASE AnswerGatePrompt
  BY <1>10 DEF AnswerGatePrompt, Answer
<1>11. CASE StartBody
  BY <1>11 DEF StartBody
<1>12. CASE EndBody
  BY <1>12 DEF EndBody
<1>13. CASE FormatResult
  BY <1>13 DEF FormatResult
<1>14. CASE LogSuccess
  BY <1>14 DEF LogSuccess
<1>15. CASE Return
  BY <1>15 DEF Return
<1>16. CASE HandleError
  BY <1>16 DEF HandleError
<1>17. CASE Interrupt
  BY <1>17 DEF Interrupt
<1>18. CASE UNCHANGED vars
  BY <1>18 DEF vars
<1>19. QED
  BY <1>1, <1>2, <1>3, <1>4, <1>5, <1>6, <1>7, <1>8, <1>9, <1>10, <1>11,
     <1>12, <1>13, <1>14, <1>15, <1>16, <1>17, <1>18 DEF Next

\* Only StartBody can break DeniedNeverRuns, and the gates in front of it hold.
LEMMA DeniedStep ==
  TypeOK /\ DenyInv /\ LogInv /\ DeniedNeverRuns /\ [Next]_vars => DeniedNeverRuns'
<1> SUFFICES ASSUME TypeOK /\ DenyInv /\ LogInv /\ DeniedNeverRuns, [Next]_vars
             PROVE  DeniedNeverRuns'
  OBVIOUS
<1> USE DEF TypeOK, DenyInv, LogInv, PastAcl, AfterStart, DeniedNeverRuns, Goto, Raise, Quit
<1>1. CASE CollectInput
  BY <1>1 DEF CollectInput
<1>2. CASE Preflight
  BY <1>2 DEF Preflight
<1>3. CASE ValidateSchema
  BY <1>3 DEF ValidateSchema
<1>4. CASE EnforceAcl
  BY <1>4 DEF EnforceAcl
<1>5. CASE CheckApproval
  BY <1>5 DEF CheckApproval, AfterApproval
<1>6. CASE AnswerPrompt
  BY <1>6 DEF AnswerPrompt, Answer, AfterApproval
<1>7. CASE ChooseRoute
  BY <1>7 DEF ChooseRoute
<1>8. CASE PipelineChecks
  BY <1>8 DEF PipelineChecks
<1>9. CASE RequestApproval
  BY <1>9 DEF RequestApproval
<1>10. CASE AnswerGatePrompt
  BY <1>10 DEF AnswerGatePrompt, Answer
<1>11. CASE StartBody
  <2>1. CASE call.acl = "deny"
    <3>1. /\ Route(call).place = "process"
          /\ ~Gated(call)
          /\ warned = (/\ Route(call).warns
                       /\ call.strategy \in AclBypassStrategies
                       /\ call.acl # "unattached")
      BY <1>11, <2>1 DEF StartBody
    <3>2. Route(call).warns /\ call.strategy \in AclBypassStrategies
      BY <3>1, RouteFacts
    <3>3. QED
      BY <1>11, <2>1, <3>1, <3>2 DEF StartBody
  <2>2. CASE call.acl # "deny"
    BY <1>11, <2>2 DEF StartBody
  <2>3. QED
    BY <2>1, <2>2
<1>12. CASE EndBody
  BY <1>12 DEF EndBody
<1>13. CASE FormatResult
  BY <1>13 DEF FormatResult
<1>14. CASE LogSuccess
  BY <1>14 DEF LogSuccess
<1>15. CASE Return
  BY <1>15 DEF Return
<1>16. CASE HandleError
  BY <1>16 DEF HandleError
<1>17. CASE Interrupt
  BY <1>17 DEF Interrupt
<1>18. CASE UNCHANGED vars
  BY <1>18 DEF vars
<1>19. QED
  BY <1>1, <1>2, <1>3, <1>4, <1>5, <1>6, <1>7, <1>8, <1>9, <1>10, <1>11,
     <1>12, <1>13, <1>14, <1>15, <1>16, <1>17, <1>18 DEF Next

\* The record left behind is the only one, and it agrees with the exit status.
LEMMA RecordStep ==
  TypeOK /\ LogInv /\ DryInv /\ RecordInv /\ [Next]_vars => RecordInv'
<1> SUFFICES ASSUME TypeOK /\ LogInv /\ DryInv /\ RecordInv, [Next]_vars
             PROVE  RecordInv'
  OBVIOUS
<1> USE DEF TypeOK, LogInv, AfterStart, RecordInv, EveryRunAudited,
            RecordTellsOutcome, DryRunInert, DryInv, DryPlaces,
            Goto, Raise, Quit
<1>1. CASE CollectInput
  BY <1>1 DEF CollectInput
<1>2. CASE Preflight
  BY <1>2 DEF Preflight
<1>3. CASE ValidateSchema
  BY <1>3 DEF ValidateSchema
<1>4. CASE EnforceAcl
  BY <1>4 DEF EnforceAcl
<1>5. CASE CheckApproval
  BY <1>5 DEF CheckApproval, AfterApproval
<1>6. CASE AnswerPrompt
  BY <1>6 DEF AnswerPrompt, Answer, AfterApproval
<1>7. CASE ChooseRoute
  BY <1>7 DEF ChooseRoute
<1>8. CASE PipelineChecks
  BY <1>8 DEF PipelineChecks
<1>9. CASE RequestApproval
  BY <1>9 DEF RequestApproval
<1>10. CASE AnswerGatePrompt
  BY <1>10 DEF AnswerGatePrompt, Answer
<1>11. CASE StartBody
  BY <1>11 DEF StartBody
<1>12. CASE EndBody
  BY <1>12 DEF EndBody
<1>13. CASE FormatResult
  BY <1>13 DEF FormatResult
<1>14. CASE LogSuccess
  BY <1>14 DEF LogSuccess, Logged
<1>15. CASE Return
  BY <1>15 DEF Return
<1>16. CASE HandleError
  <2> DEFINE record == [status |-> "error", code |-> ExitCodeFor(call.via, err)]
  <2>1. ExitCodeFor(call.via, err) \in Nat \ {0}
    BY ErrorCodeNonZero
  <2>2. log = <<>> /\ log' = IF call.logger = "on" THEN <<record>> ELSE <<>>
    BY <1>16 DEF HandleError, Logged
  <2>3. exit' = ExitCodeFor(call.via, err)
    BY <1>16 DEF HandleError
  <2>4. pc' = "exited" /\ UNCHANGED <<call, ran, interrupted>>
    BY <1>16 DEF HandleError
  <2>5. QED
    BY <2>1, <2>2, <2>3, <2>4
<1>17. CASE Interrupt
  BY <1>17 DEF Interrupt
<1>18. CASE UNCHANGED vars
  BY <1>18 DEF vars
<1>19. QED
  BY <1>1, <1>2, <1>3, <1>4, <1>5, <1>6, <1>7, <1>8, <1>9, <1>10, <1>11,
     <1>12, <1>13, <1>14, <1>15, <1>16, <1>17, <1>18 DEF Next

\* With requests that do not carry the annotation, every way to the body of a
\* module that needs a human goes past one of the two gates.
LEMMA HumanStep ==
  ASSUME RequestNamesModule = FALSE
  PROVE  /\ TypeOK /\ LogInv /\ ConsentInv /\ HumanWasAsked
         /\ [Next]_vars
         => (ConsentInv /\ HumanWasAsked)'
<1> SUFFICES ASSUME TypeOK, LogInv, ConsentInv, HumanWasAsked, [Next]_vars
             PROVE  (ConsentInv /\ HumanWasAsked)'
  OBVIOUS
<1> USE DEF TypeOK, LogInv, AfterStart, ConsentInv, HumanWasAsked, PastAcl,
            PastApproval, Goto, Raise, Quit
<1>1. CASE CollectInput
  BY <1>1 DEF CollectInput
<1>2. CASE Preflight
  BY <1>2 DEF Preflight
<1>3. CASE ValidateSchema
  BY <1>3 DEF ValidateSchema
<1>4. CASE EnforceAcl
  BY <1>4, CallFields DEF EnforceAcl
<1>5. CASE CheckApproval
  <2>1. /\ call' = call /\ aclApproval' = aclApproval /\ ran' = ran
        /\ pc' \in {"preflight", "route", "prompt", "failed"}
    BY <1>5 DEF CheckApproval, AfterApproval
  <2>2. (call.annotated \/ aclApproval) /\ pc' = "route" => consent' # "none"
    BY <1>5 DEF CheckApproval, AfterApproval
  <2>3. QED
    BY <1>5, <2>1, <2>2 DEF CheckApproval
<1>6. CASE AnswerPrompt
  BY <1>6 DEF AnswerPrompt, Answer, AfterApproval
<1>7. CASE ChooseRoute
  <2>1. pc = "route" /\ UNCHANGED <<call, aclApproval, consent, ran>>
    BY <1>7 DEF ChooseRoute
  <2>2. pc' \in {"checks", "body", "exited"} /\ (pc' = "body" => call.sandbox)
    BY <1>7, RouteFacts DEF ChooseRoute
  <2>3. (pc' = "body" /\ NeedsHuman(call)) => consent # "none"
    BY <2>1, <2>2 DEF NeedsHuman
  <2>4. QED
    BY <2>1, <2>2, <2>3
<1>8. CASE PipelineChecks
  <2>1. pc = "checks" /\ UNCHANGED <<call, aclApproval, consent, ran>>
    BY <1>8 DEF PipelineChecks
  <2>2. /\ pc' \in {"gate", "body", "failed"}
        /\ pc' = "body" => ~(Gated(call) /\ call.acl = "ask" /\ call.wired)
    BY <1>8 DEF PipelineChecks, GateAsks
  <2>3. (pc' = "body" /\ NeedsHuman(call)) => consent # "none"
    BY <2>1, <2>2 DEF NeedsHuman
  <2>4. QED
    BY <2>1, <2>2, <2>3
<1>9. CASE RequestApproval
  BY <1>9 DEF RequestApproval, HandlerAutoApproves
<1>10. CASE AnswerGatePrompt
  BY <1>10 DEF AnswerGatePrompt, Answer
<1>11. CASE StartBody
  BY <1>11 DEF StartBody
<1>12. CASE EndBody
  BY <1>12 DEF EndBody
<1>13. CASE FormatResult
  BY <1>13 DEF FormatResult
<1>14. CASE LogSuccess
  BY <1>14 DEF LogSuccess
<1>15. CASE Return
  BY <1>15 DEF Return
<1>16. CASE HandleError
  BY <1>16 DEF HandleError
<1>17. CASE Interrupt
  BY <1>17 DEF Interrupt
<1>18. CASE UNCHANGED vars
  BY <1>18 DEF vars
<1>19. QED
  BY <1>1, <1>2, <1>3, <1>4, <1>5, <1>6, <1>7, <1>8, <1>9, <1>10, <1>11,
     <1>12, <1>13, <1>14, <1>15, <1>16, <1>17, <1>18 DEF Next
-----------------------------------------------------------------------------
(* The theorems. *)

LEMMA InvInit == Init => IInv
<1> SUFFICES ASSUME Init
             PROVE  IInv
  OBVIOUS
<1>1. TypeOK
  BY TypeInit
<1>2. DenyInv /\ LogInv /\ DryInv
  BY CallFields DEF Init, DenyInv, LogInv, DryInv, PastAcl, InExecutor,
                    DryPlaces
<1>3. DeniedNeverRuns
  BY DEF Init, DeniedNeverRuns
<1>4. RecordInv
  BY DEF Init, RecordInv, EveryRunAudited, RecordTellsOutcome, DryRunInert
<1>5. QED
  BY <1>1, <1>2, <1>3, <1>4 DEF IInv

LEMMA InvStep == IInv /\ [Next]_vars => IInv'
  BY TypeStep, DenyStep, LogStep, DryStep, DeniedStep, RecordStep DEF IInv

\* IInv holds of every reachable state.
THEOREM InvCorrect == Spec => []IInv
  BY InvInit, InvStep, PTL DEF Spec

\* A denied call reaches the body only in-process, unsandboxed, under a
\* bypassing strategy and after the warning (both commands, every flag).
THEOREM DenialHolds == Spec => []DeniedNeverRuns
<1>1. IInv => DeniedNeverRuns
  BY DEF IInv
<1>2. QED
  BY InvCorrect, <1>1, PTL

\* A body that ran leaves one audit record, unless SIGINT or a failing log.
THEOREM RunsAreAudited == Spec => []EveryRunAudited
<1>1. IInv => EveryRunAudited
  BY DEF IInv, RecordInv
<1>2. QED
  BY InvCorrect, <1>1, PTL

\* At most one record, and it agrees with the exit status.
THEOREM RecordsAgree == Spec => []RecordTellsOutcome
<1>1. IInv => RecordTellsOutcome
  BY DEF IInv, RecordInv
<1>2. QED
  BY InvCorrect, <1>1, PTL

\* --dry-run never starts the body and never logs a success.
THEOREM DryRunsAreInert == Spec => []DryRunInert
<1>1. IInv => DryRunInert
  BY DEF IInv, RecordInv
<1>2. QED
  BY InvCorrect, <1>1, PTL

LEMMA HumanInit == Init => HInv
<1> SUFFICES ASSUME Init
             PROVE  HInv
  OBVIOUS
<1>1. TypeOK
  BY TypeInit
<1>2. LogInv /\ ConsentInv /\ HumanWasAsked
  BY DEF Init, LogInv, ConsentInv, HumanWasAsked, PastAcl, PastApproval
<1>3. QED
  BY <1>1, <1>2 DEF HInv

\* When approval requests do not carry the descriptor's annotation (the value
\* the runs use), no body that needs a human runs without consent, whichever
\* of check_approval and request_approval had to ask.
THEOREM ConsentIsAsked ==
  ASSUME RequestNamesModule = FALSE
  PROVE  Spec => []HumanWasAsked
<1>1. Init => HInv
  BY HumanInit
<1>2. HInv /\ [Next]_vars => HInv'
  BY TypeStep, LogStep, HumanStep DEF HInv
<1>3. HInv => HumanWasAsked
  BY DEF HInv
<1>4. QED
  BY <1>1, <1>2, <1>3, PTL DEF Spec
-----------------------------------------------------------------------------
(* Dispatch implements GovernedCall. *)

\* Where the body has started and not failed, what has not happened yet before
\* the route is chosen and before the exit, and who gets to the preflight.
StageInv ==
  /\ pc \in {"running", "format", "audit", "logged"} => ran # "no"
  /\ pc \in {"input", "preflight", "schema", "acl", "approve", "prompt", "route"}
       => ~warned
  /\ pc # "exited" => exit = -1
  /\ pc = "preflight" => call.dry

RInv == IInv /\ HInv /\ StageInv

LEMMA StageStep == TypeOK /\ LogInv /\ StageInv /\ [Next]_vars => StageInv'
<1> SUFFICES ASSUME TypeOK, LogInv, StageInv, [Next]_vars
             PROVE  StageInv'
  OBVIOUS
<1> USE DEF TypeOK, LogInv, AfterStart, StageInv, Goto, Raise, Quit
<1>1. CASE CollectInput
  BY <1>1 DEF CollectInput
<1>2. CASE Preflight
  BY <1>2 DEF Preflight
<1>3. CASE ValidateSchema
  BY <1>3 DEF ValidateSchema
<1>4. CASE EnforceAcl
  BY <1>4 DEF EnforceAcl
<1>5. CASE CheckApproval
  BY <1>5 DEF CheckApproval, AfterApproval
<1>6. CASE AnswerPrompt
  BY <1>6 DEF AnswerPrompt, Answer, AfterApproval
<1>7. CASE ChooseRoute
  <2>1. pc' \in {"checks", "body", "exited"}
    BY <1>7 DEF ChooseRoute
  <2>2. pc' # "exited" => exit' = exit
    BY <1>7 DEF ChooseRoute
  <2>3. QED
    BY <1>7, <2>1, <2>2 DEF ChooseRoute
<1>8. CASE PipelineChecks
  BY <1>8 DEF PipelineChecks
<1>9. CASE RequestApproval
  BY <1>9 DEF RequestApproval
<1>10. CASE AnswerGatePrompt
  BY <1>10 DEF AnswerGatePrompt, Answer
<1>11. CASE StartBody
  <2>1. Route(call).place # "no"
    BY RouteFacts
  <2>2. QED
    BY <1>11, <2>1 DEF StartBody
<1>12. CASE EndBody
  BY <1>12 DEF EndBody
<1>13. CASE FormatResult
  BY <1>13 DEF FormatResult
<1>14. CASE LogSuccess
  BY <1>14 DEF LogSuccess
<1>15. CASE Return
  BY <1>15 DEF Return
<1>16. CASE HandleError
  BY <1>16 DEF HandleError
<1>17. CASE Interrupt
  BY <1>17 DEF Interrupt
<1>18. CASE UNCHANGED vars
  BY <1>18 DEF vars
<1>19. QED
  BY <1>1, <1>2, <1>3, <1>4, <1>5, <1>6, <1>7, <1>8, <1>9, <1>10, <1>11,
     <1>12, <1>13, <1>14, <1>15, <1>16, <1>17, <1>18 DEF Next

\* A step that neither starts the body nor ends the call, and at most adds to
\* the grounds, prepares or stutters.
LEMMA QuietStep ==
  ASSUME pc # "exited", pc' # "exited", UNCHANGED <<call, ran, exit>>,
         warned' \in {warned, TRUE},
         consent # "none" => consent' # "none",
         ran # "no" => UNCHANGED <<warned, consent>>
  PROVE  [Governed!Next]_(Governed!vars)
<1>1. CASE ran = "no"
  <2>1. Governed!Prepare
    BY <1>1 DEF Governed!Prepare
  <2>2. QED
    BY <2>1 DEF Governed!Next
<1>2. CASE ran # "no"
  BY <1>2 DEF Governed!vars
<1>3. QED
  BY <1>1, <1>2

\* A step that ends a call before its body has started.
LEMMA RefuseStep ==
  ASSUME pc # "exited", pc' = "exited", ran = "no",
         UNCHANGED <<call, ran, consent, warned>>,
         call \in Calls, exit' \in Nat, exit' = 0 => call.dry,
         \/ log' = <<>>
         \/ /\ exit' # 0 /\ call.logger = "on"
            /\ log' = <<[status |-> "error", code |-> exit']>>
  PROVE  [Governed!Next]_(Governed!vars)
<1>1. Governed!Refuse
  BY DEF Governed!Refuse, Governed!Failure
<1>2. QED
  BY <1>1 DEF Governed!Next

\* A step that ends a call after its body has started.
LEMMA FinishStep ==
  ASSUME pc # "exited", pc' = "exited", ran # "no",
         UNCHANGED <<call, ran, consent, warned>>,
         call \in Calls, exit' \in Nat,
         log' = IF call.logger = "on"
                  THEN <<[status |-> IF exit' = 0 THEN "success" ELSE "error",
                          code |-> exit']>>
                  ELSE <<>>
  PROVE  [Governed!Next]_(Governed!vars)
<1>1. Governed!Finish
  BY DEF Governed!Finish, Governed!Failure, Governed!Success
<1>2. QED
  BY <1>1 DEF Governed!Next

\* Every step of Dispatch is a step of GovernedCall or leaves it unchanged.
LEMMA GovernedStep ==
  ASSUME RInv, RInv', [Next]_vars
  PROVE  [Governed!Next]_(Governed!vars)
<1> USE DEF Goto, Raise, Quit
<1> DEFINE Before == {"input", "preflight", "schema", "acl", "approve", "prompt",
                      "route", "checks", "gate", "gatePrompt", "body"}
<1>0. /\ call \in Calls /\ warned \in BOOLEAN
      /\ pc \in Before => ran = "no" /\ log = <<>>
  BY DEF RInv, IInv, TypeOK, LogInv, AfterStart
<1>1. CASE CollectInput
  <2>1. CASE pc' = "exited"
    BY <1>0, <1>1, <2>1, RefuseStep DEF CollectInput
  <2>2. CASE pc' # "exited"
    BY <1>0, <1>1, <2>2, QuietStep DEF CollectInput
  <2>3. QED
    BY <2>1, <2>2
<1>2. CASE Preflight
  <2>1. CASE pc' = "exited"
    <3>1. exit' \in Nat /\ log' = <<>>
      BY <1>0, <1>2, <2>1 DEF Preflight, CheckCode
    <3>2. call.dry
      BY <1>2 DEF Preflight, RInv, StageInv
    <3>3. QED
      BY <1>0, <1>2, <2>1, <3>1, <3>2, RefuseStep DEF Preflight
  <2>2. CASE pc' # "exited"
    BY <1>0, <1>2, <2>2, QuietStep DEF Preflight
  <2>3. QED
    BY <2>1, <2>2
<1>3. CASE ValidateSchema
  <2>1. CASE pc' = "exited"
    BY <1>0, <1>3, <2>1, RefuseStep DEF ValidateSchema
  <2>2. CASE pc' # "exited"
    BY <1>0, <1>3, <2>2, QuietStep DEF ValidateSchema
  <2>3. QED
    BY <2>1, <2>2
<1>4. CASE EnforceAcl
  <2>1. CASE pc' = "exited"
    BY <1>0, <1>4, <2>1, RefuseStep DEF EnforceAcl
  <2>2. CASE pc' # "exited"
    BY <1>0, <1>4, <2>2, QuietStep DEF EnforceAcl
  <2>3. QED
    BY <2>1, <2>2
<1>5. CASE CheckApproval
  BY <1>0, <1>5, QuietStep DEF CheckApproval, AfterApproval
<1>6. CASE AnswerPrompt
  BY <1>0, <1>6, QuietStep DEF AnswerPrompt, Answer, AfterApproval
<1>7. CASE ChooseRoute
  <2>1. warned = FALSE /\ warned' \in {warned, TRUE}
    BY <1>0, <1>7 DEF ChooseRoute, RInv, StageInv
  <2>2. pc' # "exited"
    <3>1. pc = "route" /\ (call.sandbox => call.acl # "deny")
      BY <1>7 DEF ChooseRoute, RInv, IInv, DenyInv, PastAcl
    <3>2. QED
      BY <1>0, <1>7, <3>1, RouteFacts DEF ChooseRoute
  <2>3. QED
    BY <1>0, <1>7, <2>1, <2>2, QuietStep DEF ChooseRoute
<1>8. CASE PipelineChecks
  BY <1>0, <1>8, QuietStep DEF PipelineChecks
<1>9. CASE RequestApproval
  BY <1>0, <1>9, QuietStep DEF RequestApproval
<1>10. CASE AnswerGatePrompt
  BY <1>0, <1>10, QuietStep DEF AnswerGatePrompt, Answer
<1>11. CASE StartBody
  <2>1. /\ pc = "body" /\ pc' = "running" /\ ran = "no"
        /\ UNCHANGED <<call, consent, warned, log, exit>>
    BY <1>0, <1>11 DEF StartBody
  <2>2. ran' # "no"
    BY <1>0, <1>11, RouteFacts DEF StartBody
  <2>3. /\ call.acl = "deny" => Forced(call) /\ warned
        /\ NeedsHuman(call) => consent # "none"
        /\ ~call.dry
    <3>1. (DeniedNeverRuns /\ HumanWasAsked /\ DryRunInert)'
      BY DEF RInv, IInv, HInv, RecordInv
    <3>2. QED
      BY <2>1, <2>2, <3>1
      DEF DeniedNeverRuns, HumanWasAsked, DryRunInert, Forced, NeedsHuman, Gated, Route, Streams, Traced
  <2>4. Governed!Start
    BY <1>0, <2>1, <2>2, <2>3 DEF Governed!Start
  <2>5. QED
    BY <2>4 DEF Governed!Next
<1>12. CASE EndBody
  BY <1>0, <1>12, QuietStep DEF EndBody
<1>13. CASE FormatResult
  BY <1>0, <1>13, QuietStep DEF FormatResult
<1>14. CASE LogSuccess
  BY <1>0, <1>14, QuietStep DEF LogSuccess
<1>15. CASE Return
  <2>1. ran # "no" /\ log' = IF call.logger = "on"
                               THEN <<[status |-> "success", code |-> 0]>>
                               ELSE <<>>
    BY <1>15 DEF Return, RInv, IInv, LogInv, StageInv
  <2>2. QED
    BY <1>0, <1>15, <2>1, FinishStep DEF Return
<1>16. CASE HandleError
  <2>1. exit' \in Nat \ {0}
    BY <1>16, ErrorCodeNonZero DEF HandleError
  <2>2. log' = IF call.logger = "on"
                 THEN <<[status |-> "error", code |-> exit']>> ELSE <<>>
    <3>1. log = <<>>
      BY <1>16 DEF HandleError, RInv, IInv, LogInv
    <3>2. QED
      BY <1>16, <3>1 DEF HandleError, Logged
  <2>3. CASE ran = "no"
    BY <1>0, <1>16, <2>1, <2>2, <2>3, RefuseStep DEF HandleError
  <2>4. CASE ran # "no"
    BY <1>0, <1>16, <2>1, <2>2, <2>4, FinishStep DEF HandleError
  <2>5. QED
    BY <2>3, <2>4
<1>17. CASE Interrupt
  <2>1. /\ pc # "exited" /\ pc' = "exited" /\ exit' \in {1, 130}
        /\ UNCHANGED <<call, ran, consent, warned, log>>
    BY <1>17 DEF Interrupt, Busy
  <2>2. \/ log = <<>>
        \/ /\ ran # "no" /\ call.logger = "on"
           /\ log = <<[status |-> "success", code |-> 0]>>
    BY <2>1 DEF RInv, IInv, LogInv, StageInv
  <2>3. Governed!Cut
    BY <1>0, <2>1, <2>2 DEF Governed!Cut, Governed!Success
  <2>4. QED
    BY <2>3 DEF Governed!Next
<1>18. CASE UNCHANGED vars
  BY <1>18 DEF vars, Governed!vars
<1>19. QED
  BY <1>1, <1>2, <1>3, <1>4, <1>5, <1>6, <1>7, <1>8, <1>9, <1>10, <1>11,
     <1>12, <1>13, <1>14, <1>15, <1>16, <1>17, <1>18 DEF Next

\* For every set of invocations, both commands keep the promises of a governed
\* call, as long as approval requests do not carry the annotation.
THEOREM DispatchImplements ==
  ASSUME RequestNamesModule = FALSE
  PROVE  Spec => ImplementsGovernedCall
<1>1. Init => RInv
  <2> SUFFICES ASSUME Init
               PROVE  RInv
    OBVIOUS
  <2>1. IInv /\ HInv
    BY InvInit, HumanInit
  <2>2. StageInv
    BY DEF Init, StageInv
  <2>3. QED
    BY <2>1, <2>2 DEF RInv
<1>2. RInv /\ [Next]_vars => RInv'
  <2> SUFFICES ASSUME RInv, [Next]_vars
               PROVE  RInv'
    OBVIOUS
  <2>1. IInv'
    BY InvStep DEF RInv
  <2>2. HInv'
    BY TypeStep, LogStep, HumanStep DEF RInv, HInv
  <2>3. StageInv'
    BY StageStep DEF RInv, IInv
  <2>4. QED
    BY <2>1, <2>2, <2>3 DEF RInv
<1>3. Init => Governed!Init
  BY DEF Init, Governed!Init
<1>4. RInv /\ RInv' /\ [Next]_vars => [Governed!Next]_(Governed!vars)
  BY GovernedStep
<1>5. QED
  BY <1>1, <1>2, <1>3, <1>4, PTL DEF Spec, Governed!Spec, ImplementsGovernedCall
=============================================================================
