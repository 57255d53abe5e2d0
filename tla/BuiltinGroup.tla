---------------------------- MODULE BuiltinGroup ----------------------------
(***************************************************************************)
(* The built-in group of a CLI and the commands in it that change the      *)
(* system.  create_cli decides from four tiers which subcommands exist and *)
(* whether the group shows in --help (builtin_group.py, factory.py); the   *)
(* CLI's user then invokes system commands (system_cmd.py), one after the  *)
(* other: approval, call, audit record, output, in that order.             *)
(*                                                                         *)
(* create_cli always has an Executor by the time it registers, so the      *)
(* registrars' case without one is left out.  The Executor's gates and the *)
(* system.* modules are external: a module takes effect or raises.         *)
(***************************************************************************)
EXTENDS Integers, Sequences

CONSTANTS
  Setups,  \* what create_cli is given and finds, see SetupSpace
  Requests \* command lines of system commands, see RequestSpace

Subcommands ==
  {"list", "describe", "exec", "validate", "init", "health", "usage", "enable",
   "disable", "reload", "config", "completion", "describe-pipeline", "acl", "openapi"}
SystemSubcommands == {"health", "usage", "enable", "disable", "reload", "config"}
AlwaysRegistered  == {"exec"}

Modes == {"all", "none", "include", "exclude"}

\* The value of apcli= or of the apcli: key.  The fields matter in a "dict".
Block == [ shape   : {"absent", "true", "false", "dict", "other"},
           mode    : Modes \union {"unset", "bad"},
           include : SUBSET (Subcommands \union {"unknown"}),
           exclude : SUBSET (Subcommands \union {"unknown"}),
           seal    : BOOLEAN ]         \* disable_env

SetupSpace ==
  [ given    : Block,                  \* apcli=
    prebuilt : {"no", "cli", "yaml"},  \* given as an ApcliGroup, built by that constructor
    claims   : BOOLEAN,                \* and with this registry_injected
    yaml     : Block,                  \* apcli: in apcore.yaml
    env      : {"unset", "show", "hide", "typo"}, \* APCORE_CLI_APCLI
    injected : BOOLEAN,                \* registry= or app= was given
    validate : {"absent", "returns", "raises"},   \* executor.validate, asked for system.health.summary
    registry : {"absent", "knows", "lacks", "raises"}, \* executor._registry
    requires : BOOLEAN,                \* system.control modules require approval
    wired    : BOOLEAN,                \* the Executor has the CLI's approval handler
    logger   : BOOLEAN ]               \* an AuditLogger is installed

RequestSpace ==
  [ cmd  : {"health", "usage", "enable", "disable", "reload", "config set", "config get"},
    yes  : BOOLEAN, auto : BOOLEAN, tty : BOOLEAN ]

ASSUME SetupsAssumption ==
  Setups \subseteq {s \in SetupSpace : s.prebuilt # "no" => s.given.shape # "other"}
ASSUME RequestsAssumption == Requests \subseteq RequestSpace /\ Requests # {}
-----------------------------------------------------------------------------
(* Which subcommands there are. *)

\* _build: an ApcliGroup.
Build(b, injected, fromCli) ==
  [ mode     |-> CASE b.shape = "true"  -> "all"
                   [] b.shape = "false" -> "none"
                   [] b.shape = "dict" /\ b.mode # "unset" -> b.mode
                   [] OTHER -> "auto",
    include  |-> IF b.shape = "dict" THEN b.include ELSE {},
    exclude  |-> IF b.shape = "dict" THEN b.exclude ELSE {},
    sealed   |-> b.shape = "dict" /\ b.seal,
    injected |-> injected,
    fromCli  |-> fromCli ]

Consulted(s) ==
  IF s.prebuilt = "no" /\ s.given.shape = "absent" THEN s.yaml ELSE s.given

Group(s) ==
  IF s.prebuilt = "no"
    THEN Build(Consulted(s), s.injected, s.given.shape # "absent")
    ELSE Build(s.given, s.claims, s.prebuilt = "cli")

\* A wrong mode ends create_cli from either source, a wrong type only from
\* apcli=; the same in apcore.yaml is auto-detection.
Fails(s) ==
  \/ s.given.shape = "other"
  \/ Consulted(s).shape = "dict" /\ Consulted(s).mode = "bad"

\* _parse_env.
ParseEnv(env) ==
  CASE env = "show" -> "all" [] env = "hide" -> "none" [] OTHER -> "nothing"

\* Mutant of Visibility: the environment before the host.
VisibilityEnvFirst(g, env) ==
  CASE ~g.sealed /\ ParseEnv(env) # "nothing" -> ParseEnv(env)
    [] (g.sealed \/ ParseEnv(env) = "nothing") /\ g.mode # "auto" -> g.mode
    [] OTHER -> IF g.injected THEN "none" ELSE "all"

\* resolve_visibility.
Visibility(g, env) ==
  IF g.fromCli /\ g.mode # "auto" THEN g.mode
  ELSE IF ~g.sealed /\ ParseEnv(env) # "nothing" THEN ParseEnv(env)
  ELSE IF g.mode # "auto" THEN g.mode
  ELSE IF g.injected THEN "none" ELSE "all"

\* Mutant of Admits: a hidden group is an empty one.
AdmitsIfShown(g, mode, name) ==
  \/ mode = "all" \/ name \in AlwaysRegistered
  \/ mode = "include" /\ name \in g.include
  \/ mode = "exclude" /\ name \notin g.exclude

Admits(g, mode, name) ==
  \/ mode \in {"all", "none"} \/ name \in AlwaysRegistered
  \/ mode = "include" /\ name \in g.include
  \/ mode = "exclude" /\ name \notin g.exclude

\* _try_get_module_def, _system_modules_available.
Defined(s) == s.registry = "knows"
SystemAvailable(s) ==
  s.validate = "returns" \/ (s.validate = "absent" /\ Defined(s))

Registered(s) ==
  {name \in Subcommands :
     /\ Admits(Group(s), Visibility(Group(s), s.env), name)
     /\ name \in SystemSubcommands => SystemAvailable(s)}

Hidden(s) == Visibility(Group(s), s.env) = "none"
-----------------------------------------------------------------------------
VARIABLES
  setup,    \* what create_cli is given and finds
  commands, \* the subcommands of the group
  hidden,   \* the group is left out of root --help
  pc,       \* where create_cli, or the command under way, stands
  req,      \* the request
  consent,  \* who has agreed to it
  applied,  \* a system.control module has taken effect
  records,  \* its audit records
  error,    \* the exception under way
  exit      \* its exit status

vars == <<setup, commands, hidden, pc, req, consent, applied, records, error, exit>>
made == <<setup, commands, hidden>>

Errors == {"none", "ApprovalDenied", "AclDenied", "NotFound", "Other", "Interrupt"}
NoRequest == CHOOSE r \in Requests : TRUE

\* Mutant of ExitCodeFor: no default.
ExitCodeForKnown(e) ==
  CASE e = "ApprovalDenied" -> 46 [] e = "AclDenied" -> 77 [] e = "NotFound" -> 44 [] OTHER -> -1

\* exit_code_for_error.
ExitCodeFor(e) ==
  CASE e = "ApprovalDenied" -> 46 [] e = "AclDenied" -> 77 [] e = "NotFound" -> 44 [] OTHER -> 1

NameOf(cmd) == IF cmd \in {"config set", "config get"} THEN "config" ELSE cmd
Controls(cmd) == cmd \in {"enable", "disable", "reload", "config set"}

Codes == {0, 1, 44, 46, 77}
TypeOK ==
  /\ setup \in SetupSpace /\ commands \subseteq Subcommands /\ hidden \in BOOLEAN
  /\ pc \in {"make", "stopped", "ready", "approve", "prompt", "call", "gatePrompt",
             "body", "record", "print", "caught", "exited"}
  /\ req \in Requests /\ consent \in {"none", "flag", "human"} /\ applied \in BOOLEAN
  /\ records \in Seq([status : {"success", "error"}, code : Codes]) /\ Len(records) <= 2
  /\ error \in Errors /\ exit \in Codes \union {2}

Init ==
  /\ setup \in Setups /\ commands = {} /\ hidden = FALSE
  /\ pc = "make" /\ req = NoRequest /\ consent = "none" /\ applied = FALSE
  /\ records = <<>> /\ error = "none" /\ exit = 0

MakeCli ==
  /\ pc = "make"
  /\ IF Fails(setup)
       THEN /\ pc' = "stopped" /\ exit' = 2
            /\ UNCHANGED <<commands, hidden>>
       ELSE /\ pc' = "ready" /\ commands' = Registered(setup) /\ hidden' = Hidden(setup)
            /\ UNCHANGED exit
  /\ UNCHANGED <<setup, req, consent, applied, records, error>>

\* click looks the name up, in a hidden group as well.
Invoke(r) ==
  /\ pc = "ready"
  /\ req' = r
  /\ pc' = CASE NameOf(r.cmd) \notin commands -> "exited"
             [] NameOf(r.cmd) \in commands /\ Controls(r.cmd) -> "approve"
             [] OTHER -> "body"
  /\ exit' = IF NameOf(r.cmd) \notin commands THEN 2 ELSE 0
  /\ UNCHANGED <<made, consent, applied, records, error>>

Goto(place) == pc' = place /\ UNCHANGED error
Raise(e) == pc' = "caught" /\ error' = e

\* check_approval and request_approval, once somebody has to be asked; next
\* is where the call goes on, prompt where the user answers.
Asked(bypass, prompt, next) ==
  CASE bypass             -> Goto(next) /\ consent' = "flag"
    [] ~bypass /\ req.tty -> Goto(prompt) /\ UNCHANGED consent
    [] OTHER              -> Raise("ApprovalDenied") /\ UNCHANGED consent

\* Mutant of CheckSystemApproval: without a terminal nobody is asked.
CheckIfInteractive ==
  /\ pc = "approve"
  /\ IF Defined(setup) /\ setup.requires /\ req.tty
       THEN Asked(req.yes \/ req.auto, "prompt", "call")
       ELSE Goto("call") /\ UNCHANGED consent
  /\ UNCHANGED <<made, req, applied, records, exit>>

\* _check_system_approval: no definition, no question.
CheckSystemApproval ==
  /\ pc = "approve"
  /\ IF Defined(setup) /\ setup.requires
       THEN Asked(req.yes \/ req.auto, "prompt", "call")
       ELSE Goto("call") /\ UNCHANGED consent
  /\ UNCHANGED <<made, req, applied, records, exit>>

\* Agreed, declined or timed out, or Ctrl-C, which click turns into Abort.
Answer(prompt, next) ==
  /\ pc = prompt
  /\ \/ Goto(next) /\ consent' = "human"
     \/ (\E e \in {"ApprovalDenied", "Other"} : Raise(e)) /\ UNCHANGED consent
  /\ UNCHANGED <<made, req, applied, records, exit>>

\* The Executor's gates.  Its handler knows the environment and not --yes.
Call ==
  /\ pc = "call"
  /\ \/ Raise("AclDenied") /\ UNCHANGED consent
     \/ IF setup.requires /\ setup.wired
          THEN Asked(req.auto, "gatePrompt", "body")
          ELSE Goto("body") /\ UNCHANGED consent
  /\ UNCHANGED <<made, req, applied, records, exit>>

\* The module: system.control takes effect, system.health and usage answer,
\* config get reads; or it raises, or there is none.
Body ==
  /\ pc = "body"
  /\ \/ /\ Goto(IF Controls(req.cmd) THEN "record" ELSE "print")
        /\ applied' = Controls(req.cmd)
     \/ /\ \E e \in {"NotFound", "AclDenied", "Other"} :
             (e = "Other" \/ req.cmd # "config get") /\ Raise(e)
        /\ UNCHANGED applied
  /\ UNCHANGED <<made, req, consent, records, exit>>

Log(status, code) ==
  records' = IF setup.logger THEN Append(records, [status |-> status, code |-> code])
             ELSE records

\* Mutant of RecordSuccess: output first, as the module commands do.
RecordAfterPrint ==
  /\ pc = "record"
  /\ \/ Raise("Other") /\ UNCHANGED records
     \/ /\ pc' = "exited" /\ UNCHANGED error
        /\ Log("success", 0)
  /\ UNCHANGED <<made, req, consent, applied, exit>>

RecordSuccess ==
  /\ pc = "record"
  /\ Log("success", 0)
  /\ Goto("print")
  /\ UNCHANGED <<made, req, consent, applied, exit>>

\* The output may fail: a closed pipe, a result that is not a mapping.
PrintResult ==
  /\ pc = "print"
  /\ Goto("exited") \/ Raise("Other")
  /\ UNCHANGED <<made, req, consent, applied, records, exit>>

HandleError ==
  /\ pc = "caught"
  /\ IF Controls(req.cmd) THEN Log("error", ExitCodeFor(error)) ELSE UNCHANGED records
  /\ pc' = "exited" /\ exit' = ExitCodeFor(error)
  /\ UNCHANGED <<made, req, consent, applied, error>>

\* Ctrl-C outside the prompts, and the except clause is not for it:
\* click ends the process.
Interrupt ==
  /\ pc \in {"approve", "call", "body", "record", "print", "caught"}
  /\ pc' = "exited" /\ error' = "Interrupt" /\ exit' = 1
  /\ UNCHANGED <<made, req, consent, applied, records>>

Leave ==
  /\ pc = "exited"
  /\ pc' = "ready" /\ req' = NoRequest /\ consent' = "none" /\ applied' = FALSE
  /\ records' = <<>> /\ error' = "none" /\ exit' = 0
  /\ UNCHANGED made

Next ==
  \/ MakeCli
  \/ \E r \in Requests : Invoke(r)
  \/ CheckSystemApproval \/ Answer("prompt", "call")
  \/ Call \/ Answer("gatePrompt", "body") \/ Body
  \/ RecordSuccess \/ PrintResult \/ HandleError \/ Interrupt \/ Leave

Spec == Init /\ [][Next]_vars
-----------------------------------------------------------------------------
(* Properties. *)

YamlBlocks == {s.yaml : s \in Setups}
SameCli(s) == commands = Registered(s) /\ hidden = Hidden(s)

\* The host's word is final: a mode it passes to create_cli leaves the same
\* subcommands whatever the environment and apcore.yaml say, and disable_env
\* keeps the environment out of every decision, the auto-detected one included.
HostHasTheLastWord ==
  pc = "ready" =>
    /\ (/\ setup.prebuilt # "yaml"
        /\ \/ setup.given.shape \in {"true", "false"}
           \/ setup.given.shape = "dict" /\ setup.given.mode # "unset")
       => \A env \in {"unset", "show", "hide"}, block \in YamlBlocks :
             SameCli([setup EXCEPT !.env = env, !.yaml = block])
    /\ (Consulted(setup).shape = "dict" /\ Consulted(setup).seal)
       => \A env \in {"unset", "show", "hide"} : SameCli([setup EXCEPT !.env = env])

\* Hiding is not removing: a hidden group serves every subcommand, and a setting
\* can withhold only what an include or exclude list withholds from a group that
\* is shown.  Not a word about exec: the code keeps it whatever the lists say
\* (_ALWAYS_REGISTERED), where README.md:417-418 let them decide.
HidingRemovesNothing ==
  pc = "ready" =>
    LET offered == {c \in Subcommands \ {"exec"} :
                      c \in SystemSubcommands => SystemAvailable(setup)}
        withheld == offered \ commands
    IN  /\ hidden => withheld = {}
        /\ withheld # {} => \/ withheld = Consulted(setup).exclude \intersect offered
                            \/ withheld = offered \ Consulted(setup).include

\* Where approval is required, a control module takes effect only after a
\* consent: of a human or the environment if the Executor's gate is wired,
\* whatever --yes says, and at least the flag's if only the CLI can ask.
ControlNeedsConsent ==
  (applied /\ setup.requires) =>
    /\ setup.wired => consent = "human" \/ (consent = "flag" /\ req.auto)
    /\ Defined(setup) => consent # "none"

\* What took effect is on record as a success, whether or not its result could
\* be printed, and nothing else is; a control command that was found leaves a
\* record, its last record tells the exit status, and two records mean that it
\* took effect and failed afterwards: the log accounts for the system's state.
AppliedIffRecorded ==
  (pc = "exited" /\ error # "Interrupt" /\ setup.logger) =>
    /\ applied <=> \E i \in DOMAIN records : records[i].status = "success"
    /\ (Controls(req.cmd) /\ NameOf(req.cmd) \in commands) =>
         /\ records # <<>>
         /\ records[Len(records)].code = exit
         /\ Len(records) = 2 => applied /\ exit = 1
=============================================================================
