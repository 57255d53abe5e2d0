# Verification of apcore-cli (Python)

`apcore-cli` turns the modules of an apcore registry into a command line: every
module becomes a click command, `apcli` adds built-in commands around them, and
each call passes an access-control gate, an approval gate, an execution path
(in-process, traced, streaming or a sandbox subprocess) and an audit log. This
directory holds TLA+ models of the parts whose correctness depends on order,
concurrency or failure, the TLC runs that check them, and TLAPS proofs.

All source paths below are under `src/src/apcore_cli/`.

## 1. Inventory

| Component | State it keeps | Operations | Interacts with |
|---|---|---|---|
| **Command dispatch** (`cli.py` callback of `build_module_command`, `discovery.py` `exec_cmd`, `strategy.py`, `validate.py`, `exit_codes.py`) | the call under way: merged input, approval requirement of the matched ACL rule, error, exit status | collect input, dry run, schema, ACL gate, approval, choose path, run, print, audit | all of the following |
| **Approval gate** (`approval.py`) | SIGALRM handler and alarm (Unix), timer thread (Windows) | `check_approval`, `CliApprovalHandler.request_approval`, `_prompt_unix`, `_prompt_windows` | called by dispatch, and called back by the apcore Executor's `approval_gate` step |
| **Sandbox** (`security/sandbox.py`, `_sandbox_runner.py`) | child process, two pipes and buffers, overflow flag, deadline | `execute`, `_run_streaming`, `_drain` threads, verdict | called by dispatch; asks the ACL itself |
| **Command tree** (`cli.py` `GroupedModuleGroup`, `exposure.py`) | alias map, descriptor cache, group map, top-level map, "built" flags, command caches | `list_commands`, `get_command`, `format_help`, `_LazyGroup.get_command` | reads the registry, which may raise |
| **Audit log** (`security/audit.py`, `system_usage.py`) | one JSON-lines file shared by all CLI processes, "warned" flag | `log_execution`, `log_acl_decision`, `compute_summary` | written by dispatch, system commands and the ACL's audit callback; read by `apcli list --sort` |
| **ACL** (`acl_loader.py`, `acl_cmd.py`) | process-wide ACL and identity | resolve root, load, merge identity, `check_access`, `enforce_acl_for_unguarded_path`, `apcli acl check` | factory installs it, dispatch and sandbox consult it |
| **Factory and built-in group** (`factory.py`, `builtin_group.py`) | wiring of one CLI, and the process-wide ACL, identity and audit logger; visibility mode of `apcli` | `create_cli`, four-tier visibility, registration table | builds everything else |
| **System commands** (`system_cmd.py`) | none beyond the call under way | health, usage, enable, disable, reload, config | executor, approval, audit |
| **Schemas** (`ref_resolver.py`, `schema_parser.py`, `collect_input` and `reconvert_enum_values`) | the definitions of the schema being resolved, which are changed in place | `resolve_refs`, options from a schema, arguments and STDIN to input | command tree builds commands from them, dispatch runs on their input |
| **Configuration and secrets** (`config.py`, `security/config_encryptor.py`, `security/auth.py`) | flattened config file | four-tier `resolve`, `store`/`retrieve`, API key | factory, ACL |
| **OpenAPI and scaffolding** (`openapi_source.py`, `openapi_cmd.py`, `init_cmd.py`) | files on disk, which others edit too | scan, generate, init | the toolkit's writer, which names files by itself |
| **Presentation** (`output.py`, `shell.py`, `display_helpers.py`) | none | tables, completion scripts, man pages | dispatch |

What is hard, and what makes each part correct:

* *Dispatch.* Two commands with differently ordered steps, five flags, three
  optional executor capabilities and two places that ask for consent. Correct
  when no combination runs a denied call quietly or an unapproved one at all,
  when each run leaves exactly one truthful audit record whatever fails, and
  when a dry run does nothing.
* *Approval prompt.* An asynchronous exception races the answer. Correct when
  only a typed yes starts the module, a yes that was returned is final, and the
  host program's signal handling is untouched.
* *Sandbox.* A child, the parent thread and two drainer threads around bounded
  pipes, a byte cap and a deadline; copies are taken without the lock. Correct
  when a result is the whole document of a child that succeeded within its
  caps, when a healthy child is not failed, when memory stays bounded, and when
  the call ends.
* *Command tree.* Caches built lazily from calls that may fail in the middle.
  Correct when what is served is what the module declares and the exposure
  filter admits, and when the caches agree.
* *Schemas.* A resolver that changes the definitions it walks, recursion cut by
  a depth and a visited set, property names that three spellings (flag, negative
  flag, click's destination) can make meet. Correct when what comes out means
  what went in whatever the order and sharing, and when the module gets each
  value the user gave, under its own name and type.
* *ACL and factory.* Globals shared by the CLIs of a process, four sources of a
  root, four ways to a decision. Correct when each decision is made with the
  ACL, identity and context the invocation is entitled to, and is recorded.
* *Built-in group and system commands.* Four tiers decide what exists; commands
  that change the system fail before, in or after the change. Correct when the
  host keeps the last word, hiding does not remove, and changes need consent and
  are accounted for.
* *Scaffolding.* Existence is looked up before the write, by names that another
  party computes again; writes fail halfway. Correct when a file found is left
  alone, a success is complete and a dry run tells what a run would do.
* *Audit log.* Unlocked appends, torn lines. Correct when losses stay local.

The full list of hazards, each at its line, with the properties aimed at it, is
in `PROJECT.json`.

## 2. Modules

### Dispatch.tla
One invocation from parsed command line to exit status. `call` is the record of
everything that is fixed beforehand (flags, environment, terminal, the ACL's
answer, the module's annotations, what the Executor can do, whether the audit
log works); `pc` is the place in the callback; the other variables are the
exception under way, the approval requirement taken from the ACL rule
(`_acl_approval`), who consented, where the body started, whether the bypass
warning was printed, the audit records and the exit status.

| Action | Code |
|---|---|
| `CollectInput`, `Preflight`, `ValidateSchema` | `collect_input`, id check and lookup; the dry-run branches; `jsonschema.validate` |
| `EnforceAcl` | `enforce_acl_for_unguarded_path`, in the parent, when `--sandbox` is given |
| `CheckApproval`, `AnswerPrompt` | `check_approval` and its prompt |
| `ChooseRoute` (`Route`) | streaming, traced, sandboxed or plain, and `warn_if_acl_bypassed` |
| `PipelineChecks`, `RequestApproval`, `AnswerGatePrompt` | the Executor's `acl_check` and `approval_gate` (external) calling `CliApprovalHandler` |
| `StartBody`, `EndBody` | the module's body, in this process or in the sandbox's |
| `FormatResult`, `LogSuccess`, `Return`, `HandleError`, `Interrupt` | output before audit, the success record, the except clauses, Ctrl-C |

The Executor is external. What is assumed of it is what the CLI's code and
comments rely on: a strategy of `_PRESET_STEPS` that contains `acl_check` and
`approval_gate` runs them before the body, the others do not; `stream` and
`call` use the default strategy. `RequestNamesModule` leaves open whether the
approval request carries the descriptor, which `request_approval` reads with
`getattr`; the runs and one theorem fix it to FALSE, because with TRUE the
handler lets every call of an un-annotated module pass, an ACL rule's
`approval: required` included.

### GovernedCall.tla
What any call promises, with no commands, flags or paths in it: it is deciding,
then perhaps running, then over; `Start` needs sufficient grounds (not
forbidden, not dry, announced if overridden, consented if consent is needed);
`Refuse`, `Finish` and `Cut` fix the exit status together with the record that
tells it. `Dispatch!Governed` instantiates it: the stage is read off `pc` and
`ran`, the grounds off `consent` and `warned`, and the record is what the log
holds once the callback has exited, so writing the record and raising the exit
status, two statements of the code, are one step of the promise. A denied call
is forbidden unless it is unsandboxed and names a bypassing strategy (`Forced`);
then it is overridden. `ImplementsGovernedCall` is `Governed!Spec`. Beyond the
invariants it says that nothing is decided, printed or recorded about a call
after it is over, that the body starts at most once, that grounds are not
withdrawn, and that success before the body is the privilege of a dry run.

### Question.tla
What the rest of the program takes the prompt for: a question that is open and
then settled once, in one step, by a yes that starts the body or by a refusal,
a timeout or an abort; afterwards only a timer thread may cut the body off.
`Answer` of Dispatch and BuiltinGroup is that step, and a late cut one of the
errors a body may end with. `ApprovalPrompt!Asked` instantiates it: the question
is open until the body starts or the prompt has raised.

### ApprovalPrompt.tla
The main thread inside `_prompt_unix` / `_prompt_windows`, one action per
statement that touches the alarm, the timer or the handler, and the module's
body behind it. `Ring` is the alarm or timer, `Surface` is the point where the
pending exception is raised in the main thread: out of any statement on Unix,
out of any statement but the blocking read on Windows.

### Sandbox.tla
The parent thread (`WriteInput` ... `Judge`), the child (`ReadInput`, `Write`,
`Crash`, `Exit`), the two drainers (`Fill`, `ReadReturns`, `Store`, `Flag`) and
the deadline (`Expire`). The critical section of `_drain` is two steps, because
the parent copies without the lock; the other drainer is excluded between them.
Contents are counted: what is told apart is how many bytes were written, sit in
the pipe, in a pending read, in a buffer, and whether stdout is one document.

### CommandTree.tla
`_build_alias_map` and `_build_group_map` one loop round at a time, every
registry call free to raise; `Ask` begins a lookup or listing, `Serve` ends it
and caches what it hands out, `ServeMember` is a lookup inside a group.
`Resolve`, `Clashes`, `IsTop` and `IsExposed` are the pure functions of the
same names. A module carries its schema as a document the tree does not look
into: `Builds` says whether `build_module_command` makes a command of it, and a
lookup that does not build ends the process without caching.
`TreeIsComplete` compares the result with a declarative reference (`LastClaim`):
at each place the last module of the catalogue that asks for it.

### RefResolver.tla
`_resolve_node` on schema documents. The resolver writes what it has resolved
back into the definitions, so `ResolveNode` returns three things: the resolved
node, the node as it is left behind, and the definitions as they are left
behind, each step working on what the one before left (`upTo` chains).
`ResolveDefs` is the walk over `$defs` as an ordinary child of the root, before or after the properties, as the
document has it. What two places of a result share is not tracked (the module's
header says what depends on it). `SchemaIsInlined` compares `ResolveRefs` with
`Meaning`, a definition that neither shares, marks nor updates anything.

### Composition.tla
`Merged`, what takes the place of an `allOf`, `anyOf` or `oneOf` whose branches
are resolved, and `Updated`, the `dict.update` it is made with: functions over
the entries of a dict in their order. It is the part of the resolver that needs
no recursion over documents, and so the part that can be proved about.

### InputSchema.tla
The schema nodes, and the option side of `schema_parser.py`. `FlagsClash`,
`TakesBuiltIn` and the reserved names are the refusals of
`schema_to_click_options` and `build_module_command`, `Outcome` their exit
status. The resolution is a parameter, `Resolved`, which the configurations give
the value `ResolveRefs`: what options are made of depends on no more than that
its results are schemas (`BuildsAssumption`), and the module stays free of
recursion for the proofs. A property's default is any value of JSON
(`JsonValues`), null or absent; the members of an enumeration are scalars.

### CommandLine.tla
The composition of CommandTree and InputSchema, which the runs complete with
RefResolver: while no command line is under way the tree steps (`LineNext`'s
first disjunct is CommandTree's `Next`), and a command the tree has handed out
and cached can be invoked.

| Action | Code |
|---|---|
| `Invoke` | the command's options with any arguments, and an object for `--input` or one that cannot be read |
| `Receive` (`Cast`, `Kwargs`, `Collected`, `Reconverted`, `Valid`) | click's parsing of arguments and defaults, the callback's keyword arguments, `collect_input`, `reconvert_enum_values`, `jsonschema.validate` where the schema has properties |
| `Finish` | the end of the call |

`Cast` is what `click.Option` makes of a value, be it typed or the schema's
default (`schema_parser.py:186-230` passes both through the option's type): the
spelling, for an option without a type of its own; the spelling of a member, for
an enumeration; and for integers, numbers and booleans what the external
`Reading` says, which may also refuse the value (exit 2) or raise a `TypeError`
that nobody catches (exit 1). One option that fails stops the command.

`BuildsAssumption` ties `Builds` to `Built`. Where two options answer to one
flag, which one click knows is left open (`owner`). `ModuleGetsWhatWasMeant`
compares the input with `Intended`, which reads it off the user's words property
by property, and both ways: where click understands every option and what was
meant is valid, it arrives, every value with its type; and whatever arrives was
meant, property by property and as it was spelled. It speaks of properties that
are `Unmistakable`; the other cases are finding 3, and three that a schema's author
brings about: a name that click spells differently, members of one enumeration
that are spelled alike, and, where no argument takes its place, a default that
the option does not take as it is (`DefaultStays`). The model has what the code
makes of those, section 5 lists it; the property promises nothing of them.

### Governance.tla
One process in which a host program calls `create_cli` again and again and
invokes the CLIs it got. Three globals outlive the calls: the ACL of the
parent's gate (`_cli_acl`), the asserted identity (`_cli_identity`) and the
audit logger. `setup` is what a `create_cli` call is given and finds: whose
Executor, an ACL object or a path, which tiers name a root and what is on disk
there, whether `set_acl` works, the audit settings.

| Action | Code |
|---|---|
| `CreateCli` (`RootTier`, `Loaded`, `Found`, `Fails`, `GateAfter`) | `_resolve_cli_acl`, `resolve_acl_root`, `load_cli_acl`, `set_acl`, `set_cli_acl`; exit 47 before the reset, exit 2 or a ValueError behind it |
| `Invoke` (`BuildIdentity`) | the root group's callback |
| `Call`, `Stream` | the Executor's pipeline given `cli_context()`, and not given it |
| `Gate`, `Backstop` | `enforce_acl_for_unguarded_path` from the command and from `Sandbox.execute` |
| `Check` (`MergeIdentity`, `BuildContext`) | `apcli acl check` |
| `Leave` | the end of the command; the identity stays |

`Ask` is one `check_access` with the audit callback it makes. The ACL itself is
external: the first matching rule decides, and a conditional rule matches only a
call with a context. `GateAgreesWithPipeline` is about the CLI made last, since
the gate's ACL is the process's: with two live CLIs the first is gated by the
ACL of the second. `newest` is the `create_cli` that got as far as the gate last.
One that fails in the resolution of its ACL (exit 47) does not get there and
leaves the gate as it was. One that fails behind the gate (`rest` is FALSE: a bad
`apcli` block, `factory.py:455-461`, or an extra command of a taken name,
`651-655`) has replaced the gate, and on a host's Executor given `acl=` the ACL
too, though no CLI comes of it; of the CLIs made before it the property then
says nothing.

### BuiltinGroup.tla
One CLI and, after it is made, its user's system commands. `setup` is what
`create_cli` is given and finds: `apcli=` or a ready ApcliGroup, the block in
`apcore.yaml`, `APCORE_CLI_APCLI`, whether a registry was injected, what the
Executor answers to the probe for system modules.

| Action | Code |
|---|---|
| `MakeCli` (`Group`, `Visibility`, `Admits`, `Registered`) | `from_cli_config`, `from_yaml`, `resolve_visibility`, `_register_apcli_subcommands`; exit 2 on a wrong block |
| `Invoke` | click's lookup in the group, hidden or not |
| `CheckSystemApproval`, `Answer` | `_check_system_approval` and the prompts |
| `Call`, `Body` | the Executor's gates and the system module (external): it takes effect, or raises and has none |
| `RecordSuccess`, `PrintResult`, `HandleError` | record, then output; the except clause records once more |
| `Interrupt`, `Leave` | Ctrl-C, which passes the except clause; the end of the command |

A system command records before it prints, a module command (Dispatch) after:
`AppliedIffRecorded` is what the first order is good for. `HidingRemovesNothing`
leaves `exec` apart, which the code keeps whatever an include or exclude list
says (`AlwaysRegistered`), against what the repository's README says of the
lists (section 5).

### AuditLog.tla
Processes hand records to an append-only file, a piece per write call. A write
may be short (`MaxPieces`), fail (`Fail`) or be cut by the death of the process
(`Die`). `Counted` is `compute_summary`'s reading: lines that parse. The
warning printed on the first failure is left out.

### Scaffolding.tla
Commands run one after another over one output directory that others edit
between any two steps.

| Action | Code |
|---|---|
| `Generate`, `ScanFails` | `openapi generate` with its flags; every way loading a document ends the command |
| `Scanned`, `PlanName` (`Free`), `AllPlanned` | `_planned_output_paths`, one module per step |
| `Find` (`LeftAlone`), `AllFound` | the existence check, one planned path per step; the dry run's report |
| `WriteNext`, `WriterRaises` | the toolkit's `YAMLWriter` (external), which numbers names within the batch it is handed |
| `Report` (`Failed`) | exit 1 when a result failed |
| `InitModule`, `Look`, `PutFile` | `init module` in its three styles: look a file up, write it, next file |
| `Edit`, `ChangeDocument` | somebody else |

The writer is external: what is assumed of it is what `_planned_output_paths`
and the tests of `openapi_cmd.py` say, that it sanitizes like the CLI and counts
up within one call. `DryRunForetells` is less than what the comment at
`openapi_cmd.py:429` says of a dry run: always the number of files a real run
attempts, but their names only when nothing is skipped or every module has a
name of its own. Elsewhere the writer's renaming of finding 4 makes the dry run
announce `a_b_1` and the run write `a_b`.

### Proof modules
`DispatchProofs`, `ApprovalPromptProofs`, `SandboxProofs`, `CommandTreeProofs`,
`GovernanceProofs`, `BuiltinGroupProofs`, `AuditLogProofs` and
`ScaffoldingProofs` each extend the module of that name and hold its theorems,
section 4; `CommandTreeProofs` extends CommandLine and Composition.

## 3. Runs

| Run | Module | What it shows | States |
|---|---|---|---|
| `dispatch` | MCDispatch | type, denial, consent, audit, dry run, over all combinations, and that a dispatch is a governed call | 771,550 |
| `sandbox` | Sandbox | soundness and completeness of results, the culprit of an overflow, progress, what is left in the temporary directory | 753,745 |
| `approval_prompt` | MCApprovalPrompt | consent, signal hygiene and termination under every race | 708 |
| `command_tree` | MCCommandTree | serving, completeness, agreement of caches; schemas are resolved to what they mean; the module gets what was meant | 649,401 |
| `audit_log` | AuditLog | losses stay local, what is counted stays counted | 1,090,124 |
| `governance` | MCGovernance | gate, pipeline and simulation agree; decisions are recorded; a host keeps its ACL | 778,935 |
| `builtin_group` | MCBuiltinGroup | who decides on subcommands; control needs consent and is accounted for | 621,316 |
| `scaffolding` | MCScaffolding | success is complete, dry runs tell the truth, files found are kept (where names are distinct) | 865,706 |
| `dispatch_yes` | MCDispatch | finding: `--yes` does not bypass the Executor's gate | |
| `command_tree_retry` | MCCommandTree | finding: a transient registry error is not retried | |
| `command_tree_stdin` | MCCommandTree | finding: a default of the schema replaces a value given on STDIN | |
| `scaffolding_clobber` | MCScaffolding | finding: a skipped file is overwritten by another module | |

Bounds, and why they are enough:

* Dispatch has no loop and one call, so the runs are exhaustive up to the choice
  of representatives: one gated and one bypassing strategy beside none, an
  executor with all optional methods or none, one error that only the exec
  command's map knows and one that neither knows. The theorems need none of it.
* Sandbox scales 64 MiB to 2 bytes. `Cap = 2`, `ChunkSize = 2`, `PipeSize = 2`,
  `InputSize = 3`, `MaxOutput = 4` put lengths below, at and two above the cap on both streams,
  make a chunk end at the cap or straddle it, fill the pipe, and make the input
  (3) larger than a pipe.
* ApprovalPrompt takes timeouts on both sides of both bounds of the clamp.
* CommandTree takes all three-module sequences of a pool in which two modules
  meet at one place by id, by alias and by explicit group, at the top level, by
  an unsafe group, with a group's name, with the reserved name, and one module
  has no definition; four filters; three modules suffice for a collision with an
  error on either side of it.
* The same run takes single modules with a document each. For the resolver: two
  definitions with each of ten bodies (plain, referring to either or to a missing
  one, objects, compositions that refer), five roots, `$defs` first or last, and
  `MaxDepth = 3`: cycles of length one and two, a definition shared by two
  places, a reference resolved before and after its use, chains at and over the
  depth. The depth is 32 in the code and is passed on unchanged, so a chain at
  the limit is the same case. For the options: one or two properties of every
  type, enumerations whose spellings meet across types, names that meet as
  flag, negative flag and destination, tokens that are and are not numerals, defaults
  of the option's own type and of every other fate (a number for a property
  without a type, a whole number for a float, a list, null, a value outside the
  enumeration, a string that reads as an integer). `MCReading` is `int()`,
  `float()` and click's BOOL on the values of the instance; the theorems hold for
  every `Reading`.
* Governance takes two CLIs in either order over some thirty-five setups: which tiers
  name a root against three layouts of the disk (a rule set at every tier, roots
  without file, an unreadable file), audit settings spelt on, off, wrong or not
  at all, own and shared Executors, with and without `set_acl`, calls that fail ahead
  of the gate and behind it. The rule sets
  deny outright, on an argument, and by default after granting to a role and a
  type, so every condition changes some verdict. Two CLIs suffice for a global
  to be stale; invocations repeat without bound. Names of the CLIs are symmetric.
* BuiltinGroup takes every pair of blocks from `apcli=` and `apcore.yaml` (each
  shape and mode, sealed or not, lists that name a control command, `exec` and an
  unknown one) with each spelling of the environment, every kind of Executor and
  every request.
* Scaffolding takes documents of up to three modules whose ids are sanitized to
  one name or have another's numbered name, templates that share files with each
  other, two commands (`MaxRuns`) and one foreign edit (`MaxEdits`) at any
  point: a dry run and the run it foretells, a second run over the first one's
  torn file, a refusal after the first of two files.
* AuditLog takes two processes with two records of up to two pieces each: a
  short write of one process around a whole record of the other, a torn tail
  before a record, and a failure before and after a success of the same process.

`CHECK_DEADLOCK FALSE` is given where the modelled activity ends (one call, one
prompt, the bound on commands of Scaffolding, processes that die or have nothing
left to log, a host program whose
CLIs could not be made, a CLI refused with exit 2); the command tree never
stops and is checked for deadlock.

Fairness. Sandbox: the parent thread, the drainers, the clock and the runner's
reading of its own input are ordinary threads and scheduled code, hence weakly
fair; the module is not fair at all, it may hang anywhere. ApprovalPrompt: the
main thread's own statements, the alarm and its delivery are weakly fair; the
user and the module are not. On Windows the prompt need not end (the planted
exception does not leave a blocking read), so `PromptEnds` is about Unix.
`CallEnds` is about calls with a timeout; without one the code waits for ever on
a module that hangs, by design.

Every property of a passing run has a mutant beside the definition it changes:
the same operator with a plausible mistake, under which the run must fail.

## 4. Proofs

Eight modules hold the proofs, about every value of the constants.

| Module | Theorem | Property |
|---|---|---|
| DispatchProofs | `TypeCorrect` | `TypeOK` |
| | `DenialHolds` | `DeniedNeverRuns` |
| | `ConsentIsAsked` | `HumanWasAsked`, assuming `RequestNamesModule = FALSE` |
| | `RunsAreAudited` | `EveryRunAudited` |
| | `RecordsAgree` | `RecordTellsOutcome` |
| | `DryRunsAreInert` | `DryRunInert` |
| | `DispatchImplements` | `ImplementsGovernedCall`, assuming `RequestNamesModule = FALSE` |
| | `InvCorrect` | the inductive invariant |
| ApprovalPromptProofs | `PromptTypes`, `PromptInvariant` | `TypeOK`, the inductive invariant |
| | `GrantHolds` | `GrantIsTheUsers` |
| | `NoTrace` | `AnswerLeavesNoTrace` |
| | `PromptNeverStuck` | the safety half of `PromptEnds`: the prompt waits for nobody but the user, and on Unix never without an alarm |
| | `PromptIsFinite` | every step of the prompt brings its end nearer |
| | `SettledPromptEnds` | on both platforms a prompt that is settled ends, assuming `[]GuardsSuffice` |
| | `PromptEndsByItself` | `PromptEnds`, assuming `[]GuardsSuffice` |
| | `PromptIsOneQuestion` | `SettledOnce`: ApprovalPrompt implements Question |
| SandboxProofs | `SandboxTypes`, `SandboxInvariant` | `TypeOK`, the inductive invariant |
| | `CulpritNamed` | `OverflowNamesCulprit` |
| | `ResultsAreSound` | `ResultIsSound` |
| | `HealthyRunsReturn` | `HealthyRunReturns` |
| | `NeverStuck` | the safety half of `CallEnds` and `OutputDrained`: nobody waits for everybody |
| | `RoomIsMade`, `EndIsNear` | drainers bring room in a full pipe nearer, the parent the end of the call |
| | `OutputIsDrained` | `OutputDrained`, assuming `[]GuardsSuffice` |
| | `InputGoesOn` | one more byte of input gets through or the parent stops writing, assuming `[]GuardsSuffice` |
| | `CallEndsInTime` | `CallEnds`, assuming `[]GuardsSuffice` and `CountdownEnds` |
| CommandTreeProofs | `TreeTypes`, `TreeInvariant` | `TypeOK` of the tree, the inductive invariant |
| | `OverlaysRule` | `ServedAsDeclared` |
| | `TreeHoldsAll` | `TreeIsComplete` |
| | `CachesKeepUp` | `CachesAgree` |
| | `LineKeepsTree`, `TreeUnderLines` | `LineSpec` implements the tree's `Spec`, and the three properties under `LineSpec` |
| | `LineTypes`, `LineInvariant` | `LineTypeOK`, the inductive invariant |
| | `ArgumentsArrive` | `ModuleGetsWhatWasMeant` |
| | `CompositionMeans` | what `SchemaIsInlined` says of one composition, for every node and list of resolved branches |
| GovernanceProofs | `WiringTypes`, `WiringInvariant` | `TypeOK`, the inductive invariant |
| | `GateAgrees` | `GateAgreesWithPipeline` |
| | `CheckForetells` | `CheckForetellsCall` |
| | `DecisionsRecorded` | `DecisionsAreRecorded` |
| | `HostAclKept` | `HostKeepsItsAcl` |
| BuiltinGroupProofs | `GroupTypes`, `GroupInvariant` | `TypeOK`, the inductive invariant |
| | `ControlConsented` | `ControlNeedsConsent` |
| | `EffectsRecorded` | `AppliedIffRecorded` |
| | `HostIsFinal` | `HostHasTheLastWord` |
| | `NothingLost` | `HidingRemovesNothing` |
| AuditLogProofs | `LogTypes`, `LogInvariant` | `TypeOK`, the inductive invariant |
| | `LossesAreLocal` | `LossIsLocal` |
| | `ReadsAreFinal` | `SummaryOnlyGrows` |
| ScaffoldingProofs | `ScaffoldingTypes`, `ScaffoldingInvariant` | `TypeOK`, the inductive invariant |
| | `SuccessComplete` | `SuccessIsComplete` |
| | `DryRunTells` | `DryRunForetells` |
| | `FilesKept` | `ExistingFilesKeptIfDistinct` |

The assumptions are the named `ASSUME`s of the modules: that the calls, setups,
requests, invocations, registries and documents are values of their spaces
(`CallsAssumption`, `SetupsAssumption`, `RequestsAssumption`,
`InvocationsAssumption`, `RegistriesAssumption`, `SplitAssumption`,
`TemplatesAssumption`), that the tree hands out what `Built` makes a command of
and makes it from a schema (`BuildsAssumption`: the theorems hold for any
resolver whose results are schemas, and TLC checks that those of `ResolveRefs`
are), that a negative flag is its own property's flag behind `no-`
(`FlagsAssumption`), that what is typed or read can be spelled
(`InputAssumption`), that click makes a scalar of a value or fails
(`ReadingAssumption`), that rules are rules (`RulesAssumption`), that numbering
a name gives as many different names as a document has modules
(`DocumentsAssumption`), that "none", "host" and "" are nobody's name, and
that sizes are naturals, non-zero where the code could not work otherwise
(`SizesAssumption`). TLC evaluates them on every run that extends the module.

None of the properties is inductive. What each proof adds, and why:

*Dispatch.* That a denied call does not run depends on what was established
several steps earlier, on a path that `Route` chooses from flags. `IInv`
therefore records at each place of `pc` what the gates behind it have decided.
`DenyInv` says that behind the parent's gate no sandboxed call is denied, that
only in-process routes reach the Executor's checks, that the warning equals its
condition from `ChooseRoute` on, and that a denied call at the body is on a
bypassing strategy; `RouteFacts` connects that to the flags. `LogInv` says that
the log is empty until the outcome is decided; `DryInv` confines dry runs to the
places they can reach. `HInv` does the same for consent. The refinement rests on
`RInv`, which adds what `StageInv` knows of the stages; `GovernedStep` maps each
action: those that only prepare go through `QuietStep`, refusals through
`RefuseStep`, the ends of a call that ran through `FinishStep`; `StartBody` is
`Start` because the safety properties hold in the next state.

*ApprovalPrompt.* `PlaceInv` ties the place of the main thread to what has been
decided; `AlarmInv`, for Unix, says that the alarm runs only between arming and
disarming and that no timeout is on its way behind the restoring call, which is
why the exception cannot surface in the module's body. That the prompt ends is
liveness, but what could be wrong about it is not: `WaitInv` says that on Unix
the main thread waits for the user only under an alarm that runs or has rung,
which holds because the clamp is positive (`ClampedIsPositive`), so
`PromptCanGoOn` finds somebody who can move at every place before the body; and
`EndComes` has each step lower a rank, the clock's part (`ToRing`) before the
main thread's (`ToEnd`), because a timer's exception may send the main thread
back from `timer.cancel()` to the except clause. `PromptEndsByItself` takes the
same way with the fairness of `Spec`: from each place of the main thread
`StepsMove` says where a step can lead and `FairStepsLeave` that the fair step
leaves it, and the alarm leads out of the read. `SettledPromptEnds` is the part
that holds on Windows too. The refinement of Question needs
`FateInv`, that something is decided behind the answer and a prompt that has
raised was not granted; every step that ends the prompt without a body is then
`Refuse`, `Proceed` with a yes is `Grant`, an exception surfacing in the body is
`Cut`, and the rest are stutters. No run checks `SettledOnce`, since the theorem
does for every timeout.

*Sandbox.* `BytesInv` is the balance: until an overflow is flagged, what a child
wrote is in its pipe, in a pending read or in its buffer, and never counted
twice. `BufferInv` says who may be in the critical section and how far over the
cap each buffer can be. `DoneInv` makes the end of file final. `ParentInv` says
what holds behind each wait; with the others it gives that the copy taken
without the lock is the whole buffer when the drainer was joined. `VerdictInv`
carries what the verdict was decided on to the end of the call.
Liveness has a safety half here, too. `NobodyIsStuck` is the absence of a
deadlock among the parent, the runner, the module and the two drainers: input
larger than a pipe waits for a runner that is there to read, and a module
blocked on a full pipe for a drainer that can go on, or for one that waits for a
lock which the other is about to release. `RoomComes` and `EndComes` are
decreasing ranks: a drainer's own steps bring room in its pipe nearer, the
parent's the end of the call, and nobody else's undo it; the parent's polls
before the deadline are the only steps back.
Liveness itself goes along chains of places. A blocked module's drainer is
(`BlockedPlaces`) not started, hungry, full, locked out, storing or over the
cap; `DrainerSteps` says which of these leads to which, whoever moves, and
`OutputIsDrained` follows: the chain has no cycle but those through room in the
pipe. For `CallEndsInTime` the parent first writes its input: with `n` bytes
unsent (`Writing(n)`) it writes one more, or the runner makes room, or the child
is gone (`InputGoesOn`). Behind the input `CallSteps` and `ParentLeaves` lead
from place to place; the loop of wait and poll ends because the deadline expires
and a poll that finds it expired does not go back.

*CommandTree.* Two loops over a registry that may raise at every call leave
caches partly filled. The invariant says that there is a place `n` up to which
the modules are described and a place `base` up to which the tree has been built
once: a pass stopped by a clash stops at the same module every time, since what
is described does not change under it. `TreeBuilt(reached, base)` describes the
tree in the middle of a second pass, whose rounds have replaced the places below
`reached`; `CacheInv` says that what was handed out is what `base` gives.
`LineKeepsTree` carries the theorems to the behaviours with command lines, which
the run checks: a command line is a stutter of the tree.

*CommandLine.* The invariant is small: what was handed out was built
(`HandedInv`), and while a command is under way its schema is one that options
were made of and its arguments and object are of that schema (`InputInv`). The
work is in `Receive`, one step of the model and a chain of lemmas.
`FlagsAreOwned`: past the collision map every flag has one owner, so `owner` is
determined and no two properties share a name. `OptionFacts`: one property's
option, the object and a default that stays together give what was meant, except
that a member of an enumeration has become a string; for it `CastFacts` says what
an option makes of any value, and `UnsetFacts` what of a default that stays. `CollectedAsMeant` carries this
through the dictionaries, `UpToType` being what is left to repair;
`ReconvertedFacts` repairs it, because the last member spelled so
(`LastSpelledFacts`, by well-founded induction on positions) is the only one.
`ParsedFacts` says that click's parsing succeeds if every property's argument is
understood and the defaults of the others stay.

*Composition.* The folds over entries and branches are recursive functions, of
which nothing is known before they are known to exist: `Iteration` constructs
them, for any step that stays in a set, and `UpTo` is induction up to `n`, from
the least counterexample. `PutFacts` (one assignment), `UpdatedFacts`
(`dict.update`) and `MergedProps` (all branches) then say which node stands
under which name, and that names keep their places.

*Governance.* `WiringInv` follows the three globals: an Executor carries the ACL
its CLI found, the gate carries that of the `create_cli` that reached it last,
whether or not a CLI came of it, unless a host's own Executor cannot be given it. `InvokedInv` says whose identity is asserted while
a command runs, `DecisionInv` that each way to a decision asked the ACL it is
entitled to with the context it is entitled to, `EntriesInv` what was recorded.
`CheckForetells` needs `MergeIsOverride`: merging identities at the command is
the same as overriding the root's options.

*BuiltinGroup.* `CliInv` says that past `create_cli` the group is what its
settings make of it; `EffectInv` and `RecordInv` fix the order effect, record,
output at each place, `ConsentInv` what has been asked by the time a gate is
reached, `RequestInv` that only a control command that was found gets there.

*AuditLog.* `CurrentInv` and `FileInv` say that a torn piece belongs to a record
that was given up, `KeptInv` that a kept record's last piece is in the file.
`LossIsLocal` compares two cardinalities: the proof gives an injection from the
records kept but not counted into the fragile pieces, each blaming its own.

*Scaffolding.* Planning and writing run the same count, `Free`, over different
names: all that were planned before, or those the writer has given. `FreeFacts`
says that the count ends (the pigeonhole principle: fewer names are taken than
there are numbers), gives a free name, and gives the bare one if that is free.
`PlanInv` has the plan as this count and its names different, `QueueInv` says
which modules await the writer and that those written, waiting and skipped make
up the modules looked at (hence the number of files a dry run announces),
`WriteInv` that the writer's names are the
planned ones where the counts agree (`Agree`): when nothing was skipped, since
both then count over the same names, and when no two modules meet, since then
neither counts. Finding 4 is what happens elsewhere. `ForetoldInv` keeps the
announcement of a dry run as the plan of the document as it is, and
`PlanIsUnique` identifies that with the plan the next run makes.

What the proofs leave to TLC:

* `GuardsSuffice`, of `ApprovalPromptProofs` and of `SandboxProofs`. The provers
  do not compute `ENABLED`, so the five liveness theorems take as an explicit
  hypothesis that an action whose guard holds can be taken, the guard being
  spelled out beside the definition (`PromptCan`, `ParentCan`, `DrainerCan`, ...).
  It is read off the definitions of the actions, says nothing about the code, and
  no run checks it; TLC checks `PromptEnds`, `OutputDrained` and `CallEnds`
  themselves, where `ENABLED` is computed.
* `CountdownEnds`, the hypothesis of `CallEndsInTime` that leads from every byte
  to the whole input: if with `n` bytes unsent there are fewer some time, or the
  writing is over, for every `n`, then the writing is over some time. That is
  the induction rule on naturals, and true whatever the sandbox does; the provers
  have no rule by which a temporal formula is proved by induction. TLC checks
  `CallEnds` as a whole.
* `SchemaIsInlined` beyond one composition: the resolution of references recurses
  over documents, through definitions it rewrites, in an operator that the
  provers cannot expand.

## 5. Findings

1. `--yes` does not reach `CliApprovalHandler` (`factory.py:372`), so the
   Executor's gate rejects or prompts although the CLI's own check was bypassed.
2. An error while descriptors are read is swallowed by `_build_alias_map` and
   the incomplete tree is declared built (`cli.py:316`).
3. A default in the schema, and the off position of every boolean, overrides a
   value given on STDIN though nobody typed the option (`cli.py:1092`).
4. `openapi generate` without `--force` skips an existing file and then lets the
   next module of the same sanitized name overwrite it (`openapi_cmd.py:461`).
   A dry run, for the same reason, announces a name that the run then does not
   use, against the comment at `openapi_cmd.py:429`. The ids have to meet after
   sanitization: `tests/test_openapi_cmd.py:482-492` note that today's scanner
   deduplicates those it derives, so this needs modules from elsewhere, the case
   for which the CLI numbers names at all; line 553 there discloses the writer's
   part in it.

Each is a run whose property quotes the documentation and is violated.

Noticed while modelling, without a run of its own:

* Ctrl-C in a call that `exec` makes passes `except Exception` (`discovery.py:446`):
  click exits 1 and nothing is recorded, where `README.md:353` gives 130. Only the
  module command's except clauses (`cli.py:828`) do. `Interrupt` of Dispatch
  models both.
* `--sandbox` is ignored when `--trace`, `--stream` or exec's `--strategy` is
  given (`discovery.py:420`, `cli.py:670`), though its help (`cli.py:912`,
  `discovery.py:341`) promises a subprocess.
* `executor.stream` is not given the context with the asserted identity
  (`cli.py:690`), so rules on roles or types do not match a streamed call.
* A module with a group name that is not shell-safe and the alias `apcli` passes
  the reserved-name check (`cli.py:313`; the docstring at `cli.py:274`).
* `approval_timeout or 60` hides `APCORE_CLI_APPROVAL_TIMEOUT` (`cli.py:584`,
  `README.md:375`).
* `README.md:378` lets `APCORE_CLI_APCLI` name a mode, `_parse_env` knows only
  show, hide and their synonyms; `README.md:406` lets `apcli=` be a string,
  which exits 2.
* `_system_modules_available` takes an Executor whose `validate` returns for one
  that has the system modules, although `validate.py` maps a returned
  `module_lookup` failure to exit 44.
* The docstring of `is_acl_attached` speaks of the CLI's Executor, which for a
  host's own Executor it does not look at.
* A reference beside a composition, among the composing node's own properties,
  stays unresolved (`SchemaIsInlined` exempts it). `max_depth` counts
  compositions as well as references, though the comment at `ref_resolver.py:172`
  says references only. For `anyOf`, `required` is intersected over the branches
  that have the key, not over all.
* `init module --style binding` that finds the YAML file returns before the
  target file; any refusal exits 0. The file that a failed write left torn is an
  existing file for the next `generate`, which skips it and exits 0.
* `exec` is never withheld by an include or exclude list (`factory.py:739`,
  `852`), where `README.md:417-418` says that only the subcommands of `include`
  are exposed, and all but those of `exclude`.
* A `create_cli` that fails behind the gate (exit 2 at `factory.py:455-461`, a
  ValueError at `651-655`) leaves its ACL in the process-wide gate, and on a
  host's Executor if it was given `acl=`: until the next `create_cli`, `--sandbox`
  calls of a CLI made earlier are decided by the ACL of one that does not exist,
  or by none.
* A schema's default is converted like an argument (`schema_parser.py:224-230`):
  1 arrives as the string 1 where the property has no type, as 1.0 for a number;
  a list or an object becomes a string, which fails validation with 45 where a
  list or an object is asked for; outside the enumeration it makes every call
  that does not give the option exit 2; and a list for an integer raises a
  TypeError (exit 1).
* Convention-style ids that share all but the last segment share one file.

## 6. Not modelled, and what is left

Not modelled. `shell.py`, `output.py`, `display_helpers.py`, strategy rendering
and help texts format and keep no state. `openapi scan`, `acl list`, `validate`,
`status`, `apcli list` and `describe` only print. `ConfigEncryptor` and
`AuthProvider` are exported but no command calls them, and their state is the
platform's keyring; file modes, hashing and encryption primitives have no order
to get wrong. The plain `LazyModuleGroup` lookups are not used by `create_cli`.
The detection of hazards in a document (`openapi_cmd.py`) is a pure scan that
only adds warnings. Discovery and the toolkit's integration in `factory.py`
degrade to warnings without touching the state modelled here. List-form types,
file-path options and the schema keywords beside properties, required, type,
enum and default are left out of RefResolver and InputSchema.

What is left, in this order:

1. The rest of the factory: discovery failures, extra commands beside the
   reserved names, and the reading of argv ahead of click.
2. Sharing inside a resolved schema, which RefResolver leaves open, and the
   time window and sort keys of the usage summary.
