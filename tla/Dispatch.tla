------------------------------ MODULE Dispatch ------------------------------
(***************************************************************************)
(* One dispatch of a module by the CLI: from the parsed command line,      *)
(* through the access and approval gates, to the module's body, the        *)
(* printed result, the audit record and the exit status.                   *)
(*                                                                         *)
(* Two commands share the shape and differ in the order of their steps:    *)
(* the per-module command (cli.py, callback of build_module_command) and   *)
(* the generic "apcli exec" (discovery.py, exec_cmd).  The apcore Executor *)
(* is external: the CLI relies on its pipeline running acl_check and       *)
(* approval_gate before the body, except under the strategies that omit    *)
(* both (strategy.py, _PRESET_STEPS).  The sandbox subprocess has neither  *)
(* gate (_sandbox_runner.py).                                              *)
(***************************************************************************)
EXTENDS Integers, Sequences

CONSTANTS
  Calls,             \* the invocations considered
  BodyErrors,        \* errors the module's own code may end with
  RequestNamesModule \* does apcore's ApprovalRequest carry the descriptor's
                     \* annotation, which request_approval looks at first?

\* _PRESET_STEPS: strategies without acl_check, hence without approval_gate.
AclBypassStrategies == {"internal", "testing", "minimal"}
Strategies == {"none", "standard", "performance"} \union AclBypassStrategies

\* What check_access answers for this call; "ask" is an allow whose matched
\* rule carries "approval: required"; "unattached" means no ACL is configured.
AclVerdicts == {"unattached", "allow", "ask", "deny"}

CallSpace ==
  [ via       : {"module", "exec"},
    yes       : BOOLEAN,     \* --yes
    sandbox   : BOOLEAN,     \* --sandbox
    dry       : BOOLEAN,     \* --dry-run
    trace     : BOOLEAN,     \* --trace
    stream    : BOOLEAN,     \* --stream
    strategy  : Strategies,  \* --strategy
    autoEnv   : BOOLEAN,     \* APCORE_CLI_AUTO_APPROVE is "1"
    tty       : BOOLEAN,     \* stdin is a terminal
    acl       : AclVerdicts,
    annotated : BOOLEAN,     \* annotations.requires_approval is True
    streaming : BOOLEAN,     \* annotations.streaming
    caps      : SUBSET {"call_with_trace", "stream", "validate"},
    wired     : BOOLEAN,     \* the Executor took the CliApprovalHandler
    logger    : {"on", "off", "failing"} ]

\* Errors that `except Exception` turns into an exit status, and the two maps
\* that do it: exec consults the class map and then the wire map, the module
\* command the wire map alone (an error without a `code` string exits 1).
ClassCode == [ApprovalDenied |-> 46, ApprovalTimeout |-> 46,
              AuthenticationError |-> 77, ConfigDecryptionError |-> 47]
WireCode  == [ApprovalDenied |-> 46, ApprovalTimeout |-> 46,
              AclDenied |-> 77, ModuleNotFound |-> 44]
CliErrors == {"ApprovalDenied", "ApprovalTimeout", "AclDenied", "Abort",
              "OutputFailed", "AttributeError", "ModuleExecutionError"}
Errors    == CliErrors \union BodyErrors

ASSUME CallsAssumption == Calls \subseteq CallSpace
ASSUME BodyErrorsAssumption == "none" \notin BodyErrors
ASSUME RequestAssumption == RequestNamesModule \in BOOLEAN

\* Mutant of ExitCodeFor: a lookup whose default is -1.
ExitCodeOrMinusOne(via, e) == IF e \in DOMAIN WireCode THEN WireCode[e] ELSE -1

ExitCodeFor(via, e) ==
  IF via = "exec" /\ e \in DOMAIN ClassCode THEN ClassCode[e]
  ELSE IF e \in DOMAIN WireCode THEN WireCode[e]
  ELSE 1

\* first_failed_exit_code: the exit status of a failed preflight check.
CheckCode == [module_id |-> 2, module_lookup |-> 44, call_chain |-> 1,
              acl |-> 77, schema |-> 45, approval |-> 46,
              module_preflight |-> 1]

\* factory.py wires CliApprovalHandler(auto_approve=False) whatever the flags.
HandlerAutoApproves == FALSE
-----------------------------------------------------------------------------
VARIABLES
  call,         \* the invocation, fixed for the whole behaviour
  pc,           \* where the callback stands
  err,          \* the exception on its way to the except clause
  aclApproval,  \* _acl_approval: the sandbox gate's matched rule asks a human
  consent,      \* who approved: a flag, the environment or the terminal user
  ran,          \* where the module's body started running
  warned,       \* the strategy warning about an unenforced ACL was printed
  log,          \* records this invocation appended to the audit log
  exit,         \* process exit status, -1 while running
  interrupted   \* SIGINT reached the callback

vars == <<call, pc, err, aclApproval, consent, ran, warned, log, exit,
          interrupted>>

Prompts == {"prompt", "gatePrompt"}
Busy    == {"input", "preflight", "schema", "acl", "approve", "route",
            "checks", "gate", "body", "running", "format", "audit",
            "logged", "failed"} \union Prompts

Records == [status : {"success", "error"}, code : Nat]

TypeOK ==
  /\ call \in Calls
  /\ pc \in Busy \union {"exited"}
  /\ err \in Errors \union {"none"}
  /\ aclApproval \in BOOLEAN
  /\ consent \in {"none", "yes", "env", "tty"}
  /\ ran \in {"no", "process", "subprocess"}
  /\ warned \in BOOLEAN
  /\ log \in Seq(Records)
  /\ exit \in Int
  /\ interrupted \in BOOLEAN

Init ==
  /\ call \in Calls
  /\ pc = "input"
  /\ err = "none"
  /\ aclApproval = FALSE
  /\ consent = "none"
  /\ ran = "no"
  /\ warned = FALSE
  /\ log = <<>>
  /\ exit = -1
  /\ interrupted = FALSE
-----------------------------------------------------------------------------
(* Ways a step can end. *)
Goto(s)    == pc' = s /\ UNCHANGED <<err, exit>>
Raise(e)   == pc' = "failed" /\ err' = e /\ UNCHANGED exit
Quit(code) == pc' = "exited" /\ exit' = code /\ UNCHANGED err

Logged(record) ==
  IF call.logger = "on" THEN Append(log, record) ELSE log

(* Where the call will run, under which strategy, and whether the bypass   *)
(* warning may be printed.  Streaming drops the strategy and comes first;  *)
(* tracing wins over the sandbox in both commands, a bare strategy in exec.*)
Streams(c) == /\ c.via = "module"
              /\ c.stream /\ c.streaming /\ "stream" \in c.caps
Traced(c)  == /\ "call_with_trace" \in c.caps
              /\ c.trace \/ (c.via = "exec" /\ c.strategy # "none")

Route(c) ==
  CASE Streams(c) ->
         [place |-> "process", strategy |-> "none", warns |-> FALSE]
    [] ~Streams(c) /\ Traced(c) ->
         [place |-> "process", strategy |-> c.strategy, warns |-> TRUE]
    [] OTHER ->
         [place    |-> IF c.sandbox THEN "subprocess" ELSE "process",
          strategy |-> IF c.sandbox \/ "call_with_trace" \notin c.caps
                         THEN "none" ELSE c.strategy,
          warns    |-> "call_with_trace" \in c.caps]

\* The executor call passes acl_check and approval_gate.
Gated(c) == Route(c).strategy \notin AclBypassStrategies
-----------------------------------------------------------------------------
(* Steps of the command callbacks. *)

\* collect_input, and for exec the id check and the registry lookup: a refusal
\* exits 2 (44 for an unknown id) at once, outside the audit.
CollectInput ==
  /\ pc = "input"
  /\ \/ \E code \in IF call.via = "exec" THEN {2, 44} ELSE {2} : Quit(code)
     \/ Goto(CASE call.via = "exec" -> "acl"
               [] call.via = "module" /\ call.dry -> "preflight"
               [] OTHER -> "schema")
  /\ UNCHANGED <<call, aclApproval, consent, ran, warned, log, interrupted>>

\* --dry-run.  The module command exits by the first failed check, exec always
\* with 0.  An executor without validate ends in AttributeError in both: the
\* module command calls it unguarded, exec formats a dict as if an object.
Preflight ==
  /\ pc = "preflight"
  /\ \/ "validate" \notin call.caps /\ Raise("AttributeError")
     \/ "validate" \in call.caps /\ Raise("OutputFailed")
     \/ "validate" \in call.caps /\ Quit(0)
     \/ /\ "validate" \in call.caps
        /\ \E check \in DOMAIN CheckCode :
             Quit(IF call.via = "exec" THEN 0 ELSE CheckCode[check])
  /\ UNCHANGED <<call, aclApproval, consent, ran, warned, log, interrupted>>

\* jsonschema.validate in the module command: a mismatch exits 45, unaudited.
ValidateSchema ==
  /\ pc = "schema"
  /\ Quit(45) \/ Goto("acl")
  /\ UNCHANGED <<call, aclApproval, consent, ran, warned, log, interrupted>>

\* Mutant of EnforceAcl: the decision is left to the subprocess.
EnforceAclNowhere ==
  /\ pc = "acl"
  /\ Goto("approve")
  /\ UNCHANGED <<call, aclApproval, consent, ran, warned, log, interrupted>>

\* Mutant of EnforceAcl: the matched rule's approval requirement is dropped.
EnforceAclDenyOnly ==
  /\ pc = "acl"
  /\ IF call.sandbox /\ call.acl = "deny" THEN Quit(77) ELSE Goto("approve")
  /\ UNCHANGED <<call, aclApproval, consent, ran, warned, log, interrupted>>

\* enforce_acl_for_unguarded_path, asked in the parent when --sandbox is given.
EnforceAcl ==
  /\ pc = "acl"
  /\ IF call.sandbox /\ call.acl = "deny" THEN Quit(77) ELSE Goto("approve")
  /\ aclApproval' = (call.sandbox /\ call.acl = "ask")
  /\ UNCHANGED <<call, consent, ran, warned, log, interrupted>>

\* Mutant of AfterApproval: exec runs before it looks at --dry-run.
AfterApprovalRuns == "route"

AfterApproval == IF call.via = "exec" /\ call.dry THEN "preflight" ELSE "route"

\* check_approval: nothing to ask, the two bypasses, no terminal, the prompt.
CheckApproval ==
  /\ pc = "approve"
  /\ CASE ~call.annotated /\ ~aclApproval ->
            Goto(AfterApproval) /\ UNCHANGED consent
       [] (call.annotated \/ aclApproval) /\ call.yes ->
            Goto(AfterApproval) /\ consent' = "yes"
       [] (call.annotated \/ aclApproval) /\ ~call.yes /\ call.autoEnv ->
            Goto(AfterApproval) /\ consent' = "env"
       [] OTHER ->
            /\ IF call.tty THEN Goto("prompt") ELSE Raise("ApprovalDenied")
            /\ UNCHANGED consent
  /\ UNCHANGED <<call, aclApproval, ran, warned, log, interrupted>>

\* Mutant of Answer: a prompt that times out lets the call pass.
AnswerTimeoutPasses(where, next) ==
  /\ pc = where
  /\ \/ Goto(next) /\ consent' \in {"tty", consent}
     \/ /\ \E e \in {"ApprovalDenied", "Abort"} : Raise(e)
        /\ UNCHANGED consent
  /\ UNCHANGED <<call, aclApproval, ran, warned, log, interrupted>>

\* What the terminal user does with a prompt: agree, decline, let it time out,
\* or press Ctrl-C, which click.confirm turns into Abort, a RuntimeError.
Answer(where, next) ==
  /\ pc = where
  /\ \/ Goto(next) /\ consent' = "tty"
     \/ /\ \E e \in {"ApprovalDenied", "ApprovalTimeout", "Abort"} : Raise(e)
        /\ UNCHANGED consent
  /\ UNCHANGED <<call, aclApproval, ran, warned, log, interrupted>>

AnswerPrompt == Answer("prompt", AfterApproval)

\* Choosing the executor call, and warn_if_acl_bypassed in front of it.  The
\* subprocess branch passes Sandbox.execute's own refusal of a denied call.
ChooseRoute ==
  /\ pc = "route"
  /\ CASE Route(call).place = "process" -> Goto("checks")
       [] Route(call).place = "subprocess" /\ call.acl = "deny" -> Quit(77)
       [] OTHER -> Goto("body")
  /\ warned' = (/\ Route(call).warns
                /\ call.strategy \in AclBypassStrategies
                /\ call.acl # "unattached")
  /\ UNCHANGED <<call, aclApproval, consent, ran, log, interrupted>>
-----------------------------------------------------------------------------
(* Steps of the apcore Executor and of the handler it calls back. *)

\* approval_gate asks when the annotation or the matched rule says so, and
\* skips when no handler is wired.
GateAsks(c) == c.wired /\ (c.annotated \/ c.acl = "ask")

\* acl_check, then approval_gate.
PipelineChecks ==
  /\ pc = "checks"
  /\ CASE Gated(call) /\ call.acl = "deny" -> Raise("AclDenied")
       [] Gated(call) /\ call.acl # "deny" /\ GateAsks(call) -> Goto("gate")
       [] OTHER -> Goto("body")
  /\ UNCHANGED <<call, aclApproval, consent, ran, warned, log, interrupted>>

\* CliApprovalHandler.request_approval.
RequestApproval ==
  /\ pc = "gate"
  /\ CASE RequestNamesModule /\ ~call.annotated ->
            Goto("body") /\ UNCHANGED consent
       [] ~(RequestNamesModule /\ ~call.annotated) /\ HandlerAutoApproves ->
            Goto("body") /\ consent' = "yes"
       [] /\ ~(RequestNamesModule /\ ~call.annotated)
          /\ ~HandlerAutoApproves /\ call.autoEnv ->
            Goto("body") /\ consent' = "env"
       [] OTHER ->
            /\ IF call.tty THEN Goto("gatePrompt") ELSE Raise("ApprovalDenied")
            /\ UNCHANGED consent
  /\ UNCHANGED <<call, aclApproval, ran, warned, log, interrupted>>

AnswerGatePrompt == Answer("gatePrompt", "body")

StartBody ==
  /\ pc = "body"
  /\ ran' = Route(call).place
  /\ Goto("running")
  /\ UNCHANGED <<call, aclApproval, consent, warned, log, interrupted>>

\* Mutant of EndBody: success is recorded before the result is printed.
EndBodyLogsEarly ==
  /\ pc = "running"
  /\ Goto("format")
  /\ log' = Logged([status |-> "success", code |-> 0])
  /\ UNCHANGED <<call, aclApproval, consent, ran, warned, interrupted>>

\* The body returns or raises.  From the subprocess every failure arrives as
\* ModuleExecutionError; a stream prints its chunks while the body runs.
EndBody ==
  /\ pc = "running"
  /\ \/ Goto(IF Streams(call) THEN "audit" ELSE "format")
     \/ ran = "subprocess" /\ Raise("ModuleExecutionError")
     \/ ran = "process" /\ \E e \in BodyErrors : Raise(e)
     \/ Streams(call) /\ Raise("OutputFailed")
  /\ UNCHANGED <<call, aclApproval, consent, ran, warned, log, interrupted>>
-----------------------------------------------------------------------------
(* The end of the callback. *)

FormatResult ==
  /\ pc = "format"
  /\ Goto("audit") \/ Raise("OutputFailed")
  /\ UNCHANGED <<call, aclApproval, consent, ran, warned, log, interrupted>>

LogSuccess ==
  /\ pc = "audit"
  /\ log' = Logged([status |-> "success", code |-> 0])
  /\ Goto("logged")
  /\ UNCHANGED <<call, aclApproval, consent, ran, warned, interrupted>>

Return ==
  /\ pc = "logged"
  /\ Quit(0)
  /\ UNCHANGED <<call, aclApproval, consent, ran, warned, log, interrupted>>

\* Mutant of HandleError: the exit status is raised past the audit.
HandleErrorUnaudited ==
  /\ pc = "failed"
  /\ Quit(ExitCodeFor(call.via, err))
  /\ UNCHANGED <<call, aclApproval, consent, ran, warned, log, interrupted>>

\* except Exception: one error record, then the mapped exit status.
HandleError ==
  /\ pc = "failed"
  /\ log' = Logged([status |-> "error", code |-> ExitCodeFor(call.via, err)])
  /\ Quit(ExitCodeFor(call.via, err))
  /\ UNCHANGED <<call, aclApproval, consent, ran, warned, interrupted>>

\* SIGINT outside a prompt.  The module command's except clause exits 130
\* without a record; exec has no such clause, nor has an except clause that is
\* itself interrupted: click ends those with 1.
Interrupt ==
  /\ pc \in Busy \ Prompts
  /\ Quit(IF call.via = "module" /\ pc # "failed" THEN 130 ELSE 1)
  /\ interrupted' = TRUE
  /\ UNCHANGED <<call, aclApproval, consent, ran, warned, log>>

Next ==
  \/ CollectInput \/ Preflight \/ ValidateSchema \/ EnforceAcl
  \/ CheckApproval \/ AnswerPrompt \/ ChooseRoute
  \/ PipelineChecks \/ RequestApproval \/ AnswerGatePrompt
  \/ StartBody \/ EndBody
  \/ FormatResult \/ LogSuccess \/ Return \/ HandleError \/ Interrupt

Spec == Init /\ [][Next]_vars
-----------------------------------------------------------------------------
(* Properties. *)

\* A call the ACL denies reaches the module's body only in this process, under
\* a strategy that omits acl_check, after the warning, and never when
\* --sandbox was given: no flag combination loses the denial silently.
DeniedNeverRuns ==
  (ran # "no" /\ call.acl = "deny") =>
     /\ ran = "process"
     /\ ~call.sandbox
     /\ call.strategy \in AclBypassStrategies
     /\ warned

\* Somebody must consent: always for a module annotated requires_approval, and
\* for an ACL rule that demands it unless the strategy in effect drops the
\* gates or no handler could be wired into the Executor.
NeedsHuman(c) ==
  \/ c.annotated
  \/ c.acl = "ask" /\ (c.sandbox \/ (Gated(c) /\ c.wired))

\* A body that needs a human runs only with consent, on every execution path.
HumanWasAsked == (ran # "no" /\ NeedsHuman(call)) => consent # "none"

\* A finished call whose body started left exactly one audit record, wherever
\* it ran and however it failed, unless Ctrl-C cut it short or the log could
\* not be written.
EveryRunAudited ==
  (pc = "exited" /\ ran # "no" /\ call.logger = "on" /\ ~interrupted)
     => Len(log) = 1

\* The audit log never holds two records of one call, and the record says what
\* the caller saw: its code is the exit status, success exactly when 0.
RecordTellsOutcome ==
  /\ Len(log) <= 1
  /\ (pc = "exited" /\ Len(log) = 1 /\ ~interrupted) =>
        /\ log[1].code = exit
        /\ (log[1].status = "success") <=> (exit = 0)

\* A dry run never starts the body and never claims a success in the log.
DryRunInert ==
  call.dry => ran = "no" /\ \A i \in DOMAIN log : log[i].status = "error"

\* README: "--yes / -y: Bypass approval prompts" - with --yes no call ends as
\* denied or timed out approval.  The executor's own gate does not know --yes.
YesBypassesApproval == (pc = "exited" /\ exit = 46) => ~call.yes \/ call.dry

-----------------------------------------------------------------------------
(* Dispatch implements GovernedCall. *)

\* The strategy and the route a denied call may be forced along.
Forced(c) == ~c.sandbox /\ c.strategy \in AclBypassStrategies

Governed == INSTANCE GovernedCall WITH
  Forbidden   <- {c \in Calls : c.acl = "deny" /\ ~Forced(c)},
  Overridden  <- {c \in Calls : c.acl = "deny" /\ Forced(c)},
  NeedConsent <- {c \in Calls : NeedsHuman(c)},
  Dry         <- {c \in Calls : c.dry},
  Audited     <- {c \in Calls : c.logger = "on"},
  stage       <- IF pc = "exited" THEN "over"
                 ELSE IF ran = "no" THEN "deciding" ELSE "running",
  consented   <- consent # "none",
  record      <- IF pc = "exited" THEN log ELSE <<>>

\* Both commands keep the promises of a governed call: decided, run and over in
\* that order, on sufficient grounds, the record written before the status.
ImplementsGovernedCall == Governed!Spec
=============================================================================
