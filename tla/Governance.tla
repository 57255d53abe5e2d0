----------------------------- MODULE Governance -----------------------------
(***************************************************************************)
(* Access control as one process wires and asks it.  A host program makes  *)
(* CLIs in turn, each over an Executor of its own or over the host's;      *)
(* create_cli resolves an ACL and attaches it (factory.py, acl_loader.py). *)
(* Invocations of the CLIs follow one another, and each reaches an access  *)
(* decision in one of four ways: in the Executor's pipeline, in the same   *)
(* pipeline through stream(), in the parent for --sandbox, or simulated by *)
(* "apcli acl check" (acl_cmd.py).  The ACL of the sandbox gate, the       *)
(* identity and the audit logger are globals of the process.               *)
(*                                                                         *)
(* ACL.check_access and the Executor are external: first match wins, and a *)
(* conditional rule does not match a call that has no context.             *)
(***************************************************************************)
EXTENDS Integers, Sequences

CONSTANTS
  Clis,        \* the create_cli calls the host program may make
  Setups,      \* what such a call may be given and find, see SetupSpace
  RuleSets,    \* names of rule sets, the contents of ACL files and objects
  Rules,       \* the rules of each
  Default,     \* and its default_effect
  Invocations, \* command lines, see InvocationSpace
  Roles, Types, Ids \* what identity flags may assert

ASSUME RuleSetsAssumption == "none" \notin RuleSets
ASSUME HostAssumption == "host" \notin Clis /\ "none" \notin Clis
ASSUME FlagsAssumption == "" \notin Types \union Ids /\ "none" \notin Types

\* An ACL's rules, as far as decisions tell them apart.
RuleSpace ==
  [ when   : {"always", "called", "role", "type", "arguments"},
    who    : Roles \union Types \union {""},
    effect : {"allow", "deny"},
    ask    : BOOLEAN ]
ASSUME RulesAssumption ==
  \A r \in RuleSets : Rules[r] \in Seq(RuleSpace) /\ Default[r] \in {"allow", "deny"}

Tiers   == {"flag", "env", "yaml", "default"}
Setting == [env : {"unset", "on", "off", "typo"}, file : {"unset", "on", "off", "typo"}]

SetupSpace ==
  [ host     : BOOLEAN,                \* executor= (or app=) was given
    instance : BOOLEAN,                \* acl= is an ACL object
    named    : SUBSET (Tiers \ {"default"}), \* tiers that name an acl.root
    disk     : [Tiers -> RuleSets \union {"absent", "noFile", "unreadable"}],
    takes    : BOOLEAN,                \* the Executor's set_acl exists and works
    enabled  : Setting,                \* acl.audit.enabled
    denied   : Setting,                \* acl.audit.include_denied
    logger   : BOOLEAN,                \* AuditLogger() could be constructed
    rest     : BOOLEAN ]               \* what create_cli does behind the ACL succeeds

Flags == [id : Ids \union {""}, type : Types \union {""}, roles : SUBSET Roles]

InvocationSpace ==
  [ path  : {"call", "stream", "sandbox", "check"},
    root  : Flags,                     \* the global identity flags
    sub   : Flags,                     \* restated on "acl check"
    input : {"none", "other", "key"} ] \* arguments, and whether a rule's key is among them

\* acl= is an object or a path.
ASSUME SetupsAssumption ==
  Setups \subseteq {s \in SetupSpace : s.instance => "flag" \notin s.named} /\ Setups # {}
ASSUME InvocationsAssumption == Invocations \subseteq InvocationSpace /\ Invocations # {}
-----------------------------------------------------------------------------
(* ACLs and decisions. *)

\* An ACL object: its rules and where its audit callback writes ("own": to the
\* embedder's own callback, or nowhere the CLI knows of).
NoAcl   == [rules |-> "none", sink |-> "off"]
AclOf(r) == [rules |-> r, sink |-> "own"]
Acls    == {NoAcl} \union [rules : RuleSets, sink : {"own", "off", "all", "allows"}]

NoFlags    == [id |-> "", type |-> "", roles |-> {}]
NoIdentity == [id |-> "none", type |-> "none", roles |-> {}]
Identities == {NoIdentity} \union
              [id : Ids \union {"@cli"}, type : Types \union {"user"}, roles : SUBSET Roles]

\* A Context: the identity and the projected argument keys.  Absent, no
\* conditional rule can match.
NoContext == [given |-> FALSE, identity |-> NoIdentity, key |-> FALSE]
ContextOf(identity, key) == [given |-> TRUE, identity |-> identity, key |-> key]

Matches(rule, context) ==
  \/ rule.when = "always"
  \/ /\ context.given
     /\ \/ rule.when = "called"
        \/ rule.when = "role" /\ rule.who \in context.identity.roles
        \/ rule.when = "type" /\ rule.who = context.identity.type
        \/ rule.when = "arguments" /\ context.key

\* check_access: the first rule that matches, or the default effect.
Decide(rules, context) ==
  LET hits == {i \in DOMAIN Rules[rules] : Matches(Rules[rules][i], context)}
      hit  == CHOOSE i \in hits : \A j \in hits : i <= j
  IN  IF hits = {} THEN [access |-> Default[rules], ask |-> FALSE]
      ELSE [access |-> Rules[rules][hit].effect, ask |-> Rules[rules][hit].ask]

Ungated == [access |-> "ungated", ask |-> FALSE]
Verdict(acl, context) ==
  IF acl = NoAcl THEN Ungated ELSE Decide(acl.rules, context)
-----------------------------------------------------------------------------
(* Resolution and loading. *)

\* resolve_acl_root: the tier that names the root, existing or not; ./acl only
\* when it exists.
RootTier(s) ==
  CASE "flag" \in s.named -> "flag"
    [] "flag" \notin s.named /\ "env" \in s.named -> "env"
    [] s.named = {"yaml"} -> "yaml"
    [] s.named = {} /\ s.disk["default"] # "absent" -> "default"
    [] OTHER -> "none"

\* ConfigResolver.resolve without a flag: environment, file, default.
Resolved(setting) == IF setting.env # "unset" THEN setting.env ELSE setting.file

\* Mutant of AsBool: whatever does not read as true is false.
AsBoolStrict(value) == value = "on"

\* _as_bool with the default TRUE of both keys.
AsBool(value) == value # "off"

\* load_cli_acl and make_acl_audit_logger.
SinkOf(s) ==
  CASE ~AsBool(Resolved(s.enabled)) -> "off"
    [] AsBool(Resolved(s.enabled)) /\ AsBool(Resolved(s.denied)) -> "all"
    [] OTHER -> "allows"

Loaded(s) ==
  IF RootTier(s) = "none" \/ s.disk[RootTier(s)] \in {"absent", "noFile"} THEN NoAcl
  ELSE [rules |-> s.disk[RootTier(s)], sink |-> SinkOf(s)]

\* Mutant of Discovers: the host's executor is governed like the CLI's own.
DiscoversAlways(s) == ~s.instance

\* _resolve_cli_acl looks for a root unless acl= is an object, or the executor
\* is the host's and acl= was not given.
Discovers(s) == ~s.instance /\ ("flag" \in s.named \/ ~s.host)

\* The configured file cannot be read or is malformed: exit 47.
Fails(s) ==
  Discovers(s) /\ RootTier(s) # "none" /\ s.disk[RootTier(s)] = "unreadable"

\* The rules of the object passed as acl= are those of the "flag" tier.
Found(s) ==
  CASE s.instance -> IF s.disk["flag"] \in RuleSets THEN AclOf(s.disk["flag"]) ELSE NoAcl
    [] Discovers(s) -> Loaded(s)
    [] OTHER -> NoAcl
-----------------------------------------------------------------------------
VARIABLES
  setup,     \* what each create_cli call was given and found
  made,      \* whether it has been called, and returned
  attached,  \* the ACL of each Executor, the host's included
  cliAcl,    \* _cli_acl: the ACL asked where no Executor is
  identity,  \* _cli_identity
  logger,    \* an AuditLogger is installed
  newest,    \* the create_cli that got as far as the gate last
  pc,        \* where the current invocation stands
  cli,       \* the CLI invoked
  inv,       \* and its command line
  verdict,   \* its access decision
  context,   \* the Context the decision was reached with
  entries    \* ACL records it has added to the audit log

wiring == <<setup, made, attached, cliAcl, logger, newest>>
vars   == <<setup, made, attached, cliAcl, identity, logger, newest, pc, cli,
            inv, verdict, context, entries>>

\* Before a CLI is made, and between invocations.
NoSetup == CHOOSE s \in Setups : TRUE
NoInvocation == CHOOSE i \in Invocations : TRUE

Verdicts == [access : {"pending", "refused", "ungated", "allow", "deny"}, ask : BOOLEAN]
Pending  == [access |-> "pending", ask |-> FALSE]
Refused  == [access |-> "refused", ask |-> FALSE]

ExecutorOf(c) == IF setup[c].host THEN "host" ELSE c

TypeOK ==
  /\ setup \in [Clis -> Setups]
  /\ made \in [Clis -> {"no", "yes", "failed"}]
  /\ attached \in [Clis \union {"host"} -> Acls]
  /\ cliAcl \in Acls
  /\ identity \in Identities
  /\ logger \in BOOLEAN
  /\ newest \in Clis \union {"none"}
  /\ pc \in {"idle", "dispatch", "backstop", "decided"}
  /\ cli \in Clis \union {"none"} /\ inv \in Invocations
  /\ verdict \in Verdicts
  /\ context \in [given : BOOLEAN, identity : Identities, key : BOOLEAN]
  /\ entries \in Seq({"allow", "deny"})

\* The host's Executor may carry an ACL of the host's own.
Init ==
  /\ setup = [c \in Clis |-> NoSetup]
  /\ made = [c \in Clis |-> "no"]
  /\ \E own \in {NoAcl} \union {AclOf(r) : r \in RuleSets} :
       attached = [e \in Clis \union {"host"} |-> IF e = "host" THEN own ELSE NoAcl]
  /\ cliAcl = NoAcl /\ identity = NoIdentity /\ logger = FALSE
  /\ newest = "none" /\ pc = "idle"
  /\ cli = "none" /\ inv = NoInvocation
  /\ verdict = Pending /\ context = NoContext /\ entries = <<>>
-----------------------------------------------------------------------------
(* create_cli. *)

Attaches(s) == ~Fails(s) /\ Found(s) # NoAcl /\ s.takes

\* Mutant of GateAfter: the global of an earlier CLI is not reset.
GateAfterNoReset(s) ==
  IF Attaches(s) THEN Found(s) ELSE cliAcl

\* Resolution comes before the reset: a create_cli that fails in it leaves the
\* gate of the CLI before it.
GateAfter(s) ==
  CASE Fails(s)    -> cliAcl
    [] Attaches(s) -> Found(s)
    [] OTHER       -> NoAcl

\* Behind the gate create_cli can still fail, of a bad apcli= or apcli block
\* (exit 2) or an extra command of a name that is taken (ValueError): the gate
\* and the Executor's ACL stay as it has made them, and no CLI comes of it.
\* What fails ahead of the audit logger (no extensions directory, exit 47)
\* changes nothing and is left out.
CreateCli(c, s) ==
  /\ pc = "idle" /\ made[c] = "no"
  /\ setup' = [setup EXCEPT ![c] = s]
  /\ logger' = (logger \/ s.logger)
  /\ cliAcl' = GateAfter(s)
  /\ attached' = [attached EXCEPT ![IF s.host THEN "host" ELSE c] =
                    IF Attaches(s) THEN Found(s) ELSE @]
  /\ made' = [made EXCEPT ![c] = IF Fails(s) \/ ~s.rest THEN "failed" ELSE "yes"]
  /\ newest' = IF Fails(s) THEN newest ELSE c
  /\ UNCHANGED <<identity, pc, cli, inv, verdict, context, entries>>
-----------------------------------------------------------------------------
(* Identities and contexts. *)

\* Mutant of BuildIdentity: the default type is forgotten.
BuildIdentityBare(f) ==
  IF f = NoFlags THEN NoIdentity
  ELSE [id |-> IF f.id = "" THEN "@cli" ELSE f.id, type |-> f.type, roles |-> f.roles]

BuildIdentity(f) ==
  IF f = NoFlags THEN NoIdentity
  ELSE [id    |-> IF f.id = "" THEN "@cli" ELSE f.id,
        type  |-> IF f.type = "" THEN "user" ELSE f.type,
        roles |-> f.roles]

\* Mutant of MergeIdentity: one restated flag withdraws the root's others.
MergeIdentityWhole(base, f) ==
  IF f = NoFlags THEN base ELSE BuildIdentity(f)

MergeIdentity(base, f) ==
  IF base = NoIdentity THEN BuildIdentity(f)
  ELSE [id    |-> IF f.id = "" THEN base.id ELSE f.id,
        type  |-> IF f.type = "" THEN base.type ELSE f.type,
        roles |-> IF f.roles = {} THEN base.roles ELSE f.roles]

\* build_context: nothing to carry, no context.
BuildContext(who, input) ==
  IF who = NoIdentity /\ input = "none" THEN NoContext
  ELSE ContextOf(who, input = "key")

\* Mutant of DelegatedContext: the simulation's constructor at the gate.
DelegatedContextIfAny(who, input) ==
  IF who = NoIdentity THEN NoContext ELSE ContextOf(who, input = "key")

DelegatedContext(who, input) == ContextOf(who, input = "key")
-----------------------------------------------------------------------------
(* Invocations. *)

RootIdentity(f) == BuildIdentity(f)

\* The callback of the root group.
Invoke(c, i) ==
  /\ pc = "idle" /\ made[c] = "yes"
  /\ identity' = RootIdentity(i.root)
  /\ pc' = "dispatch" /\ cli' = c /\ inv' = i
  /\ UNCHANGED <<wiring, verdict, context, entries>>

\* One check_access, and the callback it makes with its decision.
Ask(acl, ctx) ==
  /\ verdict' = Verdict(acl, ctx)
  /\ context' = ctx
  /\ entries' =
       IF /\ logger
          /\ \/ acl.sink = "all"
             \/ acl.sink = "allows" /\ Verdict(acl, ctx).access = "allow"
         THEN Append(entries, Verdict(acl, ctx).access)
         ELSE entries

\* The pipeline of the Executor makes a Context for every call, around the
\* identity of the one it was given, and projects the arguments.
Pipeline(who) == Ask(attached[ExecutorOf(cli)], ContextOf(who, inv.input = "key"))

\* executor.call, call_with_trace and validate are given cli_context().
Call ==
  /\ pc = "dispatch" /\ inv.path = "call"
  /\ Pipeline(identity)
  /\ pc' = "decided"
  /\ UNCHANGED <<wiring, identity, cli, inv>>

\* executor.stream is not.
Stream ==
  /\ pc = "dispatch" /\ inv.path = "stream"
  /\ Pipeline(NoIdentity)
  /\ pc' = "decided"
  /\ UNCHANGED <<wiring, identity, cli, inv>>

\* enforce_acl_for_unguarded_path, from the command: a denial exits 77.
Gate ==
  /\ pc = "dispatch" /\ inv.path = "sandbox"
  /\ Ask(cliAcl, DelegatedContext(identity, inv.input))
  /\ pc' = IF verdict'.access = "deny" THEN "decided" ELSE "backstop"
  /\ UNCHANGED <<wiring, identity, cli, inv>>

\* And once more from Sandbox.execute, after the approval.
Backstop ==
  /\ pc = "backstop"
  /\ Ask(cliAcl, DelegatedContext(identity, inv.input))
  /\ pc' = "decided"
  /\ UNCHANGED <<wiring, identity, cli, inv>>

\* acl_check reads the ACL its CLI has found, attached or not; where it has
\* found none there is nothing to check, exit 47.
Check ==
  /\ pc = "dispatch" /\ inv.path = "check"
  /\ \/ /\ Found(setup[cli]) # NoAcl
        /\ Ask(Found(setup[cli]), BuildContext(MergeIdentity(identity, inv.sub), inv.input))
     \/ /\ Found(setup[cli]) = NoAcl
        /\ verdict' = Refused
        /\ UNCHANGED <<context, entries>>
  /\ pc' = "decided"
  /\ UNCHANGED <<wiring, identity, cli, inv>>

\* The invocation ends, by return or exit, and the host goes on.  The identity
\* stays where it is.
Leave ==
  /\ pc = "decided"
  /\ pc' = "idle" /\ cli' = "none" /\ inv' = NoInvocation
  /\ verdict' = Pending /\ context' = NoContext /\ entries' = <<>>
  /\ UNCHANGED <<wiring, identity>>

Next ==
  \/ \E c \in Clis, s \in Setups : CreateCli(c, s)
  \/ \E c \in Clis, i \in Invocations : Invoke(c, i)
  \/ Call \/ Stream \/ Gate \/ Backstop \/ Check \/ Leave

Spec == Init /\ [][Next]_vars
-----------------------------------------------------------------------------
(* Properties. *)

Decided == pc = "decided"

\* What the pipeline of the invoked CLI would answer to this invocation, made
\* with the identity its own flags assert.
InPipeline ==
  Verdict(attached[ExecutorOf(cli)], ContextOf(BuildIdentity(inv.root), inv.input = "key"))

\* --sandbox does not change who may call what: for the CLI made last, over an
\* Executor whose ACL is not the host's own, the parent's gate answers as the
\* pipeline would, conditional rules and approval requirement included.  A
\* create_cli that failed since, in its own resolution of an ACL, has not taken
\* the gate away; one that failed behind the gate has, and then nothing is said
\* of the CLI made before it (newest is the one that failed).  And either way a
\* call is decided for the identity its own command line asserts, never for one
\* an earlier invocation of the process left behind.
GateAgreesWithPipeline ==
  (/\ Decided
   /\ \/ inv.path = "call"
      \/ inv.path = "sandbox" /\ cli = newest /\ (setup[cli].host => Attaches(setup[cli])))
  => /\ verdict = InPipeline
     /\ context.identity = BuildIdentity(inv.root)

\* "acl check" foretells the call: if the ACL it reads is the attached one and
\* something is asserted, it answers as the pipeline would a call made with the
\* flags of both levels, the inner overriding the outer field by field.
CheckForetellsCall ==
  LET over(inner, outer) == IF inner = "" THEN outer ELSE inner
      both == [id    |-> over(inv.sub.id, inv.root.id),
               type  |-> over(inv.sub.type, inv.root.type),
               roles |-> IF inv.sub.roles = {} THEN inv.root.roles ELSE inv.sub.roles]
  IN  (/\ Decided /\ inv.path = "check"
       /\ Found(setup[cli]) # NoAcl /\ attached[ExecutorOf(cli)] = Found(setup[cli])
       /\ both # NoFlags \/ inv.input # "none")
      => verdict = Verdict(attached[ExecutorOf(cli)],
                           ContextOf(BuildIdentity(both), inv.input = "key"))

\* Somebody spelled "off" at the first tier that says anything.
Silenced(setting) ==
  setting.env = "off" \/ (setting.env = "unset" /\ setting.file = "off")

\* A decision by an ACL the CLI has loaded leaves its entries, all telling the
\* verdict, unless there is no logger or the operator has switched the audit
\* (of denials) off: a typo in a setting silences nothing.
DecisionsAreRecorded ==
  LET s == setup[cli] IN
  (/\ Decided /\ Discovers(s) /\ verdict.access \in {"allow", "deny"}
   /\ inv.path = "check" \/ (inv.path # "sandbox" /\ ~s.host))
  => IF ~logger \/ Silenced(s.enabled) \/ (verdict.access = "deny" /\ Silenced(s.denied))
       THEN entries = <<>>
       ELSE entries # <<>> /\ \A i \in DOMAIN entries : entries[i] = verdict.access

\* A host that built its own Executor keeps its ACL, through every create_cli
\* over it that was not given acl=, whether it returned or failed.
HostKeepsItsAcl ==
  [][attached'["host"] # attached["host"] =>
       \E c \in Clis : /\ made[c] = "no" /\ made'[c] # "no" /\ setup'[c].host
                       /\ setup'[c].instance \/ "flag" \in setup'[c].named]_vars
=============================================================================
