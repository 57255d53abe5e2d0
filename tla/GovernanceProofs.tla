-------------------------- MODULE GovernanceProofs --------------------------
(***************************************************************************)
(* Proofs about access control, for every set of CLIs, ACLs and command    *)
(* lines.  The invariant relates what create_cli has wired (the Executors' *)
(* ACLs, the sandbox gate's, the settings of each CLI) to one another, and *)
(* an invocation's decision to the ACL, the identity and the arguments it  *)
(* was reached with.                                                       *)
(***************************************************************************)
EXTENDS Governance, TLAPS, WellFoundedInduction

\* An Executor carries what its CLI has found, an unused one nothing; the gate
\* carries what the Executor does of the create_cli that got to it last, unless
\* that is the host's own.
WiringInv ==
  /\ \A c \in Clis :
       /\ made[c] = "no" => attached[c] = NoAcl
       /\ made[c] = "yes" => ~Fails(setup[c])
       /\ (made[c] = "yes" /\ ~setup[c].host) =>
            attached[c] = IF Attaches(setup[c]) THEN Found(setup[c]) ELSE NoAcl
  /\ newest # "none" =>
       /\ made[newest] # "no"
       /\ (setup[newest].host => Attaches(setup[newest])) =>
            cliAcl = attached[ExecutorOf(newest)]

Own == ContextOf(BuildIdentity(inv.root), inv.input = "key")
Merged == BuildContext(MergeIdentity(BuildIdentity(inv.root), inv.sub), inv.input)

InvokedInv ==
  /\ pc # "idle" =>
       cli \in Clis /\ made[cli] = "yes" /\ identity = BuildIdentity(inv.root)
  /\ pc \in {"idle", "dispatch"} => entries = <<>>
  /\ pc = "backstop" => inv.path = "sandbox"

\* Each of the ways to a decision asks its own ACL with its own context.
DecisionInv ==
  Decided =>
    /\ inv.path = "call" =>
         context = Own /\ verdict = Verdict(attached[ExecutorOf(cli)], Own)
    /\ inv.path = "sandbox" => context = Own /\ verdict = Verdict(cliAcl, Own)
    /\ inv.path = "check" =>
         verdict = IF Found(setup[cli]) = NoAcl THEN Refused
                   ELSE Verdict(Found(setup[cli]), Merged)

\* The one record a decision leaves.
RecordOf(acl, access) ==
  IF logger /\ (acl.sink = "all" \/ (acl.sink = "allows" /\ access = "allow"))
    THEN <<access>> ELSE <<>>

EntriesInv ==
  Decided =>
    /\ inv.path \in {"call", "stream"} =>
         /\ entries = RecordOf(attached[ExecutorOf(cli)], verdict.access)
         /\ attached[ExecutorOf(cli)] = NoAcl => verdict = Ungated
    /\ (inv.path = "check" /\ Found(setup[cli]) # NoAcl) =>
         entries = RecordOf(Found(setup[cli]), verdict.access)

IInv == TypeOK /\ WiringInv /\ InvokedInv /\ DecisionInv /\ EntriesInv
-----------------------------------------------------------------------------
(* Facts about the operators of the model. *)

\* A rule set that has a matching rule has a first one.
LEMMA FirstHit ==
  ASSUME NEW hits \in SUBSET Nat, hits # {}
  PROVE  \E i \in hits : \A j \in hits : i <= j
<1> DEFINE less == {ss \in Nat \X Nat : ss[1] < ss[2]}
<1>1. IsWellFoundedOn(less, Nat)
  BY NatLessThanWellFounded, Zenon DEF OpToRel
<1>2. PICK x \in hits : \A y \in hits : ~(<<y, x>> \in less)
  <2> HIDE DEF less
  <2>1. QED
    BY <1>1, WFMin
<1>3. ASSUME NEW y \in hits PROVE x <= y
  <2>1. x \in Nat /\ y \in Nat /\ <<y, x>> \notin less
    BY <1>2
  <2>2. y < x => <<y, x>> \in less
    BY <2>1
  <2>3. QED
    BY <2>1, <2>2
<1>4. QED
  BY <1>3

\* An ACL answers every call with an effect, whatever the context.
LEMMA VerdictType ==
  ASSUME NEW acl \in Acls, NEW ctx
  PROVE  /\ Verdict(acl, ctx) \in [access : {"ungated", "allow", "deny"}, ask : BOOLEAN]
         /\ acl # NoAcl => Verdict(acl, ctx).access \in {"allow", "deny"}
<1>1. CASE acl = NoAcl
  BY <1>1 DEF Verdict, Ungated
<1>2. CASE acl # NoAcl
  <2> DEFINE rules == Rules[acl.rules]
             hits == {i \in DOMAIN rules : Matches(rules[i], ctx)}
             hit == CHOOSE i \in hits : \A j \in hits : i <= j
  <2>1. rules \in Seq(RuleSpace) /\ Default[acl.rules] \in {"allow", "deny"}
    BY <1>2, RulesAssumption DEF Acls
  <2>2. Verdict(acl, ctx) = IF hits = {} THEN [access |-> Default[acl.rules], ask |-> FALSE]
                            ELSE [access |-> rules[hit].effect, ask |-> rules[hit].ask]
    BY <1>2 DEF Verdict, Decide
  <2>3. CASE hits = {}
    BY <2>1, <2>2, <2>3
  <2>4. CASE hits # {}
    <3>1. hits \subseteq DOMAIN rules /\ DOMAIN rules \subseteq Nat
      BY <2>1
    <3>2. \E i \in hits : \A j \in hits : i <= j
      BY <2>4, <3>1, FirstHit
    <3>3. hit \in DOMAIN rules
      BY <3>1, <3>2
    <3>4. rules[hit] \in RuleSpace
      <4> HIDE DEF rules, hit
      <4>1. QED
        BY <2>1, <3>3
    <3>5. rules[hit].effect \in {"allow", "deny"} /\ rules[hit].ask \in BOOLEAN
      <4> HIDE DEF rules, hit
      <4>1. QED
        BY <3>4 DEF RuleSpace
    <3>6. Verdict(acl, ctx) = [access |-> rules[hit].effect, ask |-> rules[hit].ask]
      BY <2>2, <2>4
    <3>7. QED
      <4> HIDE DEF rules, hit
      <4>1. QED
        BY <3>5, <3>6
  <2>5. QED
    BY <2>3, <2>4
<1>3. QED
  BY <1>1, <1>2

\* What create_cli finds, when it does not fail, is an ACL; what it has loaded
\* itself writes where the settings say.
LEMMA FoundType ==
  ASSUME NEW s \in Setups, ~Fails(s)
  PROVE  /\ Found(s) \in Acls
         /\ (Discovers(s) /\ Found(s) # NoAcl) => Found(s).sink = SinkOf(s)
<1>1. s \in SetupSpace
  BY SetupsAssumption
<1>2. SinkOf(s) \in {"off", "all", "allows"}
  BY DEF SinkOf
<1>3. CASE s.instance
  BY <1>3 DEF Found, AclOf, Acls, Discovers
<1>4. CASE ~s.instance /\ Discovers(s)
  <2>1. CASE RootTier(s) = "none" \/ s.disk[RootTier(s)] \in {"absent", "noFile"}
    BY <1>4, <2>1 DEF Found, Loaded, Acls
  <2>2. CASE RootTier(s) # "none" /\ s.disk[RootTier(s)] \notin {"absent", "noFile"}
    <3>1. RootTier(s) \in Tiers
      BY <2>2 DEF RootTier, Tiers
    <3>2. s.disk[RootTier(s)] \in RuleSets
      BY <1>1, <1>4, <2>2, <3>1 DEF SetupSpace, Fails
    <3>3. Found(s) = [rules |-> s.disk[RootTier(s)], sink |-> SinkOf(s)]
      BY <1>4, <2>2 DEF Found, Loaded
    <3>4. QED
      BY <1>2, <3>2, <3>3 DEF Acls
  <2>3. QED
    BY <2>1, <2>2
<1>5. CASE ~s.instance /\ ~Discovers(s)
  BY <1>5 DEF Found, Acls
<1>6. QED
  BY <1>3, <1>4, <1>5

LEMMA BuildIdentityType ==
  ASSUME NEW f \in Flags
  PROVE  /\ BuildIdentity(f) \in Identities
         /\ BuildIdentity(f) = NoIdentity <=> f = NoFlags
<1>1. f.id \in Ids \union {""} /\ f.type \in Types \union {""} /\ f.roles \in SUBSET Roles
  BY DEF Flags
<1>2. CASE f = NoFlags
  BY <1>2 DEF BuildIdentity, Identities
<1>3. CASE f # NoFlags
  <2> DEFINE b == [id |-> IF f.id = "" THEN "@cli" ELSE f.id,
                   type |-> IF f.type = "" THEN "user" ELSE f.type, roles |-> f.roles]
  <2>1. BuildIdentity(f) = b
    BY <1>3 DEF BuildIdentity
  <2>2. b.type # "none"
    BY <1>1, FlagsAssumption
  <2>3. b # NoIdentity
    BY <2>2 DEF NoIdentity
  <2>4. b \in [id : Ids \union {"@cli"}, type : Types \union {"user"}, roles : SUBSET Roles]
    BY <1>1
  <2>5. QED
    BY <1>3, <2>1, <2>3, <2>4 DEF Identities
<1>4. QED
  BY <1>2, <1>3

LEMMA MergeIdentityType ==
  ASSUME NEW base \in Identities, NEW f \in Flags
  PROVE  MergeIdentity(base, f) \in Identities
<1>1. CASE base = NoIdentity
  BY <1>1, BuildIdentityType DEF MergeIdentity
<1>2. CASE base # NoIdentity
  <2>1. base \in [id : Ids \union {"@cli"}, type : Types \union {"user"}, roles : SUBSET Roles]
    BY <1>2 DEF Identities
  <2>2. f.id \in Ids \union {""} /\ f.type \in Types \union {""} /\ f.roles \in SUBSET Roles
    BY DEF Flags
  <2>3. QED
    BY <1>2, <2>1, <2>2 DEF MergeIdentity, Identities
<1>3. QED
  BY <1>1, <1>2

\* The context a call or a check is decided with.
ContextSpace == [given : BOOLEAN, identity : Identities, key : BOOLEAN]
LEMMA ContextType ==
  ASSUME NEW who \in Identities, NEW input
  PROVE  /\ ContextOf(who, input = "key") \in ContextSpace
         /\ BuildContext(who, input) \in ContextSpace
         /\ NoContext \in ContextSpace
<1>1. NoIdentity \in Identities
  BY DEF Identities
<1>2. (input = "key") \in BOOLEAN
  OBVIOUS
<1>3. ContextOf(who, input = "key") \in ContextSpace /\ NoContext \in ContextSpace
  BY <1>1, <1>2 DEF ContextOf, NoContext, ContextSpace
<1>4. QED
  BY <1>3 DEF BuildContext

\* An audit setting reads as off only where somebody spelled "off".
LEMMA SettingRead ==
  ASSUME NEW setting \in Setting
  PROVE  AsBool(Resolved(setting)) <=> ~Silenced(setting)
  BY DEF AsBool, Resolved, Silenced, Setting

\* One question to an ACL: the verdict, the context, the record.
LEMMA AskFacts ==
  ASSUME TypeOK, NEW acl \in Acls, NEW ctx \in ContextSpace, Ask(acl, ctx)
  PROVE  /\ verdict' = Verdict(acl, ctx) /\ verdict' \in Verdicts
         /\ context' = ctx
         /\ entries' \in Seq({"allow", "deny"})
         /\ entries = <<>> => entries' = RecordOf(acl, verdict'.access)
         /\ acl = NoAcl => verdict' = Ungated
<1>1. verdict' = Verdict(acl, ctx) /\ context' = ctx
  BY DEF Ask
<1>2. Verdict(acl, ctx) \in Verdicts
  <2>1. Verdict(acl, ctx) \in [access : {"ungated", "allow", "deny"}, ask : BOOLEAN]
    BY VerdictType
  <2>2. QED
    BY <2>1 DEF Verdicts
<1>3. acl.sink \in {"all", "allows"} => Verdict(acl, ctx).access \in {"allow", "deny"}
  BY VerdictType DEF NoAcl
<1>4. entries' = IF logger /\ (acl.sink = "all" \/ (acl.sink = "allows" /\ verdict'.access = "allow"))
                   THEN Append(entries, verdict'.access) ELSE entries
  BY DEF Ask
<1>5. entries' \in Seq({"allow", "deny"})
  BY <1>1, <1>3, <1>4 DEF TypeOK
<1>6. entries = <<>> => entries' = RecordOf(acl, verdict'.access)
  <2>1. entries = <<>> => Append(entries, verdict'.access) = <<verdict'.access>>
    OBVIOUS
  <2>2. QED
    BY <1>4, <2>1 DEF RecordOf
<1>7. acl = NoAcl => verdict' = Ungated
  BY <1>1 DEF Verdict
<1>8. QED
  BY <1>1, <1>2, <1>5, <1>6, <1>7
-----------------------------------------------------------------------------
(* The invariant holds in every state. *)

LEMMA InvInit == Init => IInv
<1> SUFFICES ASSUME Init
             PROVE  IInv
  OBVIOUS
<1>1. NoSetup \in Setups /\ NoInvocation \in Invocations
  BY SetupsAssumption, InvocationsAssumption DEF NoSetup, NoInvocation
<1>2. TypeOK
  <2>1. attached \in [Clis \union {"host"} -> Acls]
    BY DEF Init, Acls, AclOf
  <2>2. context \in ContextSpace
    BY DEF Init, NoContext, ContextSpace, Identities
  <2>3. cliAcl \in Acls /\ identity \in Identities
    BY DEF Init, Acls, Identities
  <2>4. verdict \in Verdicts /\ entries \in Seq({"allow", "deny"})
    BY DEF Init, Pending, Verdicts
  <2>5. QED
    BY <1>1, <2>1, <2>2, <2>3, <2>4 DEF Init, TypeOK, ContextSpace
<1>3. WiringInv
  BY HostAssumption DEF Init, WiringInv
<1>4. InvokedInv /\ DecisionInv /\ EntriesInv
  BY DEF Init, InvokedInv, DecisionInv, EntriesInv, Decided
<1>5. QED
  BY <1>2, <1>3, <1>4 DEF IInv

\* What attaching needs was found by a CLI that did not fail.
LEMMA CreateCliStep ==
  ASSUME IInv, NEW c \in Clis, NEW s \in Setups, CreateCli(c, s)
  PROVE  IInv'
<1> DEFINE e == IF s.host THEN "host" ELSE c
<1>1. /\ pc = "idle" /\ made[c] = "no" /\ logger' = (logger \/ s.logger)
      /\ setup' = [setup EXCEPT ![c] = s] /\ cliAcl' = GateAfter(s)
      /\ attached' = [attached EXCEPT ![e] = IF Attaches(s) THEN Found(s) ELSE attached[e]]
      /\ made' = [made EXCEPT ![c] = IF Fails(s) \/ ~s.rest THEN "failed" ELSE "yes"]
      /\ newest' = IF Fails(s) THEN newest ELSE c
      /\ UNCHANGED <<identity, pc, cli, inv, verdict, context, entries>>
  BY DEF CreateCli
<1>2. /\ setup \in [Clis -> Setups] /\ made \in [Clis -> {"no", "yes", "failed"}]
      /\ attached \in [Clis \union {"host"} -> Acls] /\ cliAcl \in Acls
      /\ newest \in Clis \union {"none"} /\ logger \in BOOLEAN
      /\ s.logger \in BOOLEAN
  BY SetupsAssumption DEF IInv, TypeOK, SetupSpace
<1>3. Attaches(s) => ~Fails(s) /\ Found(s) \in Acls
  BY FoundType DEF Attaches
<1>4. TypeOK'
  <2>1. NoAcl \in Acls /\ GateAfter(s) \in Acls
    BY <1>2, <1>3 DEF GateAfter, Acls
  <2>2. attached' \in [Clis \union {"host"} -> Acls]
    BY <1>1, <1>2, <1>3
  <2>3. logger' \in BOOLEAN
    BY <1>1, <1>2
  <2>4. setup' \in [Clis -> Setups] /\ made' \in [Clis -> {"no", "yes", "failed"}]
        /\ newest' \in Clis \union {"none"}
    BY <1>1, <1>2
  <2>5. QED
    BY <1>1, <2>1, <2>2, <2>3, <2>4 DEF IInv, TypeOK
<1>5. WiringInv'
  <2>1. ASSUME NEW d \in Clis
        PROVE  /\ made'[d] = "no" => attached'[d] = NoAcl
               /\ made'[d] = "yes" => ~Fails(setup'[d])
               /\ (made'[d] = "yes" /\ ~setup'[d].host) =>
                    attached'[d] = IF Attaches(setup'[d]) THEN Found(setup'[d]) ELSE NoAcl
    <3>1. d # "host"
      BY HostAssumption
    <3>2. /\ made[d] = "no" => attached[d] = NoAcl
          /\ made[d] = "yes" => ~Fails(setup[d])
          /\ (made[d] = "yes" /\ ~setup[d].host) =>
               attached[d] = IF Attaches(setup[d]) THEN Found(setup[d]) ELSE NoAcl
      BY DEF IInv, WiringInv
    <3>3. CASE d = c
      <4>1. setup'[d] = s /\ made'[d] = IF Fails(s) \/ ~s.rest THEN "failed" ELSE "yes"
        BY <1>1, <1>2, <3>3
      <4>2. ~s.host => attached'[d] = IF Attaches(s) THEN Found(s) ELSE NoAcl
        BY <1>1, <1>2, <3>2, <3>3
      <4>3. QED
        BY <4>1, <4>2
    <3>4. CASE d # c
      <4>1. setup'[d] = setup[d] /\ made'[d] = made[d] /\ attached'[d] = attached[d]
        BY <1>1, <1>2, <3>1, <3>4
      <4>2. QED
        BY <3>2, <4>1
    <3>5. QED
      BY <3>3, <3>4
  <2>2. ASSUME newest' # "none"
        PROVE  /\ made'[newest'] # "no"
               /\ (setup'[newest'].host => Attaches(setup'[newest'])) =>
                    cliAcl' = attached'[ExecutorOf(newest)']
    <3>1. CASE Fails(s)
      <4>1. newest' = newest /\ newest # c /\ newest \in Clis
        BY <1>1, <1>2, <2>2, <3>1 DEF IInv, WiringInv
      <4>2. setup'[newest] = setup[newest] /\ made'[newest] = made[newest]
        BY <1>1, <1>2, <3>1, <4>1
      <4>3. attached' = attached /\ cliAcl' = cliAcl
        BY <1>1, <1>2, <3>1 DEF Attaches, GateAfter
      <4>4. QED
        BY <2>2, <4>1, <4>2, <4>3 DEF IInv, WiringInv, ExecutorOf
    <3>2. CASE ~Fails(s)
      <4>1. newest' = c /\ setup'[c] = s /\ made'[c] # "no" /\ ExecutorOf(newest)' = e
        BY <1>1, <1>2, <3>2 DEF ExecutorOf
      <4>2. CASE Attaches(s)
        BY <1>1, <1>2, <3>2, <4>1, <4>2 DEF GateAfter
      <4>3. CASE ~Attaches(s)
        <5>1. cliAcl' = NoAcl /\ attached' = attached
          BY <1>1, <1>2, <3>2, <4>3 DEF GateAfter
        <5>2. attached[c] = NoAcl
          BY <1>1 DEF IInv, WiringInv
        <5>3. QED
          BY <4>1, <4>3, <5>1, <5>2
      <4>4. QED
        BY <4>2, <4>3
    <3>3. QED
      BY <3>1, <3>2
  <2>3. QED
    BY <2>1, <2>2 DEF WiringInv
<1>6. InvokedInv' /\ DecisionInv' /\ EntriesInv'
  BY <1>1 DEF IInv, InvokedInv, DecisionInv, EntriesInv, Decided
<1>7. QED
  BY <1>4, <1>5, <1>6 DEF IInv

\* An invocation leaves the wiring alone.
LEMMA WiringAside ==
  ASSUME WiringInv, UNCHANGED wiring
  PROVE  WiringInv'
  BY DEF WiringInv, wiring, ExecutorOf

LEMMA InvokeStep ==
  ASSUME IInv, NEW c \in Clis, NEW i \in Invocations, Invoke(c, i)
  PROVE  IInv'
<1>1. /\ pc = "idle" /\ made[c] = "yes" /\ identity' = BuildIdentity(i.root)
      /\ pc' = "dispatch" /\ cli' = c /\ inv' = i
      /\ UNCHANGED <<wiring, verdict, context, entries>>
  BY DEF Invoke, RootIdentity
<1>2. identity' \in Identities
  BY <1>1, BuildIdentityType, InvocationsAssumption DEF InvocationSpace
<1>3. TypeOK' /\ WiringInv'
  BY <1>1, <1>2, WiringAside DEF IInv, TypeOK, wiring
<1>4. InvokedInv' /\ DecisionInv' /\ EntriesInv'
  BY <1>1 DEF IInv, InvokedInv, DecisionInv, EntriesInv, Decided, wiring
<1>5. QED
  BY <1>3, <1>4 DEF IInv

\* The types of an invocation under way.
LEMMA UnderWay ==
  ASSUME IInv, pc # "idle"
  PROVE  /\ cli \in Clis /\ made[cli] = "yes" /\ identity = BuildIdentity(inv.root)
         /\ identity \in Identities /\ inv.root \in Flags /\ inv.sub \in Flags
         /\ attached[ExecutorOf(cli)] \in Acls /\ cliAcl \in Acls
         /\ setup[cli] \in Setups /\ ~Fails(setup[cli])
<1>1. cli \in Clis /\ made[cli] = "yes" /\ identity = BuildIdentity(inv.root)
  BY DEF IInv, InvokedInv
<1>2. inv.root \in Flags /\ inv.sub \in Flags
  BY InvocationsAssumption DEF IInv, TypeOK, InvocationSpace
<1>3. QED
  BY <1>1, <1>2 DEF IInv, TypeOK, WiringInv, ExecutorOf

LEMMA PipelineStep ==
  ASSUME IInv, Call \/ Stream
  PROVE  IInv'
<1> DEFINE who == IF inv.path = "call" THEN identity ELSE NoIdentity
           acl == attached[ExecutorOf(cli)]
           ctx == ContextOf(who, inv.input = "key")
<1>1. /\ pc = "dispatch" /\ inv.path \in {"call", "stream"} /\ pc' = "decided"
      /\ Ask(acl, ctx) /\ UNCHANGED <<wiring, identity, cli, inv>>
  BY DEF Call, Stream, Pipeline
<1>2. entries = <<>> /\ acl \in Acls /\ who \in Identities
  BY <1>1, UnderWay DEF IInv, InvokedInv, Identities
<1>3. ctx \in ContextSpace
  BY <1>2, ContextType
<1>4. /\ verdict' = Verdict(acl, ctx) /\ verdict' \in Verdicts /\ context' = ctx
      /\ entries' \in Seq({"allow", "deny"}) /\ entries' = RecordOf(acl, verdict'.access)
      /\ acl = NoAcl => verdict' = Ungated
  <2> HIDE DEF acl, ctx
  <2>1. QED
    BY <1>1, <1>2, <1>3, AskFacts DEF IInv
<1>5. TypeOK' /\ WiringInv'
  BY <1>1, <1>3, <1>4, WiringAside DEF IInv, TypeOK, wiring, ContextSpace
<1>6. InvokedInv'
  BY <1>1 DEF IInv, InvokedInv, wiring
<1>7. DecisionInv'
  BY <1>1, <1>4, UnderWay DEF DecisionInv, Own, wiring, ExecutorOf
<1>8. EntriesInv'
  BY <1>1, <1>4 DEF EntriesInv, RecordOf, wiring, ExecutorOf
<1>9. QED
  BY <1>5, <1>6, <1>7, <1>8 DEF IInv

\* The two questions of a sandboxed call.
LEMMA GateStep ==
  ASSUME IInv, Gate \/ Backstop
  PROVE  IInv'
<1> DEFINE ctx == ContextOf(identity, inv.input = "key")
<1>1. /\ pc \in {"dispatch", "backstop"} /\ inv.path = "sandbox"
      /\ pc' \in {"backstop", "decided"}
      /\ Ask(cliAcl, ctx) /\ UNCHANGED <<wiring, identity, cli, inv>>
  BY DEF Gate, Backstop, DelegatedContext, IInv, InvokedInv
<1>2. cliAcl \in Acls /\ identity \in Identities /\ identity = BuildIdentity(inv.root)
  BY <1>1, UnderWay
<1>3. ctx \in ContextSpace
  BY <1>2, ContextType
<1>4. /\ verdict' = Verdict(cliAcl, ctx) /\ verdict' \in Verdicts /\ context' = ctx
      /\ entries' \in Seq({"allow", "deny"})
  <2> HIDE DEF ctx
  <2>1. QED
    BY <1>1, <1>2, <1>3, AskFacts DEF IInv
<1>5. TypeOK' /\ WiringInv'
  BY <1>1, <1>3, <1>4, WiringAside DEF IInv, TypeOK, wiring, ContextSpace
<1>6. InvokedInv'
  BY <1>1 DEF IInv, InvokedInv, wiring
<1>7. DecisionInv' /\ EntriesInv'
  BY <1>1, <1>2, <1>4 DEF DecisionInv, EntriesInv, Own, wiring
<1>8. QED
  BY <1>5, <1>6, <1>7 DEF IInv

LEMMA CheckStep ==
  ASSUME IInv, Check
  PROVE  IInv'
<1>1. /\ pc = "dispatch" /\ inv.path = "check" /\ pc' = "decided" /\ entries = <<>>
      /\ UNCHANGED <<wiring, identity, cli, inv>>
  BY DEF Check, IInv, InvokedInv
<1>2. /\ identity = BuildIdentity(inv.root) /\ identity \in Identities /\ inv.sub \in Flags
      /\ Found(setup[cli]) \in Acls
  BY <1>1, UnderWay, FoundType
<1>3. CASE Found(setup[cli]) # NoAcl
  <2> DEFINE acl == Found(setup[cli])
  <2>1. Merged \in ContextSpace /\ Ask(acl, Merged)
    BY <1>1, <1>2, <1>3, MergeIdentityType, ContextType DEF Check, Merged
  <2>2. /\ verdict' = Verdict(acl, Merged) /\ verdict' \in Verdicts /\ context' = Merged
        /\ entries' \in Seq({"allow", "deny"}) /\ entries' = RecordOf(acl, verdict'.access)
    <3> HIDE DEF acl
    <3>1. acl \in Acls
      BY <1>2 DEF acl
    <3>2. QED
      BY <1>1, <2>1, <3>1, AskFacts DEF IInv
  <2>3. TypeOK' /\ WiringInv'
    BY <1>1, <2>1, <2>2, WiringAside DEF IInv, TypeOK, wiring, ContextSpace
  <2>4. InvokedInv' /\ DecisionInv' /\ EntriesInv'
    BY <1>1, <1>3, <2>2
    DEF IInv, InvokedInv, DecisionInv, EntriesInv, Merged, RecordOf, wiring
  <2>5. QED
    BY <2>3, <2>4 DEF IInv
<1>4. CASE Found(setup[cli]) = NoAcl
  <2>1. verdict' = Refused /\ UNCHANGED <<context, entries>>
    BY <1>4 DEF Check
  <2>2. TypeOK' /\ WiringInv'
    BY <1>1, <2>1, WiringAside DEF IInv, TypeOK, wiring, Refused, Verdicts
  <2>3. InvokedInv' /\ DecisionInv' /\ EntriesInv'
    BY <1>1, <1>4, <2>1 DEF IInv, InvokedInv, DecisionInv, EntriesInv, wiring
  <2>4. QED
    BY <2>2, <2>3 DEF IInv
<1>5. QED
  BY <1>3, <1>4

LEMMA LeaveStep ==
  ASSUME IInv, Leave
  PROVE  IInv'
<1>1. /\ pc' = "idle" /\ cli' = "none" /\ inv' = NoInvocation /\ verdict' = Pending
      /\ context' = NoContext /\ entries' = <<>> /\ UNCHANGED <<wiring, identity>>
  BY DEF Leave
<1>2. NoInvocation \in Invocations /\ NoIdentity \in Identities
  BY InvocationsAssumption DEF NoInvocation, Identities
<1>3. context' \in ContextSpace /\ verdict' \in Verdicts /\ entries' \in Seq({"allow", "deny"})
  BY <1>1, <1>2 DEF ContextSpace, NoContext, Pending, Verdicts
<1>4. TypeOK' /\ WiringInv'
  BY <1>1, <1>2, <1>3, WiringAside DEF IInv, TypeOK, wiring, ContextSpace
<1>5. InvokedInv' /\ DecisionInv' /\ EntriesInv'
  BY <1>1 DEF InvokedInv, DecisionInv, EntriesInv, Decided
<1>6. QED
  BY <1>4, <1>5 DEF IInv

LEMMA StutterStep ==
  ASSUME IInv, UNCHANGED vars
  PROVE  IInv'
<1>1. WiringInv'
  BY WiringAside DEF IInv, vars, wiring
<1>2. QED
  BY <1>1 DEF IInv, vars, TypeOK, InvokedInv, DecisionInv, EntriesInv, Own, Merged,
              RecordOf, ExecutorOf, Decided

\* The invariant of access control: the gate and the newest CLI's Executor
\* carry one ACL, and every decision was reached by asking the ACL of its way
\* with the identity the command line asserts.
THEOREM WiringInvariant == Spec => []IInv
<1>1. ASSUME IInv, [Next]_vars PROVE IInv'
  <2>1. CASE \E c \in Clis, s \in Setups : CreateCli(c, s)
    BY <1>1, <2>1, CreateCliStep
  <2>2. CASE \E c \in Clis, i \in Invocations : Invoke(c, i)
    BY <1>1, <2>2, InvokeStep
  <2>3. CASE Call \/ Stream
    BY <1>1, <2>3, PipelineStep
  <2>4. CASE Gate \/ Backstop
    BY <1>1, <2>4, GateStep
  <2>5. CASE Check
    BY <1>1, <2>5, CheckStep
  <2>6. CASE Leave
    BY <1>1, <2>6, LeaveStep
  <2>7. CASE UNCHANGED vars
    BY <1>1, <2>7, StutterStep
  <2>8. QED
    BY <1>1, <2>1, <2>2, <2>3, <2>4, <2>5, <2>6, <2>7 DEF Next
<1>2. QED
  BY <1>1, InvInit, PTL DEF Spec
-----------------------------------------------------------------------------
(* The properties. *)

\* The variables of the wiring and of an invocation keep their types.
THEOREM WiringTypes == Spec => []TypeOK
<1>1. IInv => TypeOK
  BY DEF IInv
<1>2. QED
  BY <1>1, WiringInvariant, PTL

\* The parent's gate of --sandbox answers as the pipeline would, for the
\* identity of the call's own command line.
THEOREM GateAgrees == Spec => []GateAgreesWithPipeline
<1>1. ASSUME IInv PROVE GateAgreesWithPipeline
  <2>1. CASE Decided /\ inv.path = "call"
    BY <1>1, <2>1, UnderWay
    DEF IInv, DecisionInv, Decided, GateAgreesWithPipeline, InPipeline, Own, ContextOf
  <2>2. CASE /\ Decided /\ inv.path = "sandbox" /\ cli = newest
             /\ setup[cli].host => Attaches(setup[cli])
    <3>1. newest # "none"
      BY <1>1, <2>2, UnderWay, HostAssumption DEF Decided
    <3>2. cliAcl = attached[ExecutorOf(cli)]
      BY <1>1, <2>2, <3>1 DEF IInv, WiringInv
    <3>3. QED
      BY <1>1, <2>2, <3>2
      DEF IInv, DecisionInv, Decided, GateAgreesWithPipeline, InPipeline, Own, ContextOf
  <2>3. QED
    BY <2>1, <2>2 DEF GateAgreesWithPipeline
<1>2. QED
  BY <1>1, WiringInvariant, PTL

\* Restating flags field by field and then building the identity is the same
\* as building it from the flags that remain.
Overridden(inner, outer) ==
  [id    |-> IF inner.id = "" THEN outer.id ELSE inner.id,
   type  |-> IF inner.type = "" THEN outer.type ELSE inner.type,
   roles |-> IF inner.roles = {} THEN outer.roles ELSE inner.roles]

LEMMA MergeIsOverride ==
  ASSUME NEW inner \in Flags, NEW outer \in Flags
  PROVE  /\ Overridden(inner, outer) \in Flags
         /\ MergeIdentity(BuildIdentity(outer), inner) = BuildIdentity(Overridden(inner, outer))
<1> DEFINE both == Overridden(inner, outer)
<1>1. /\ inner.id \in Ids \union {""} /\ inner.type \in Types \union {""}
      /\ outer.id \in Ids \union {""} /\ outer.type \in Types \union {""}
      /\ inner.roles \in SUBSET Roles /\ outer.roles \in SUBSET Roles
      /\ inner = [id |-> inner.id, type |-> inner.type, roles |-> inner.roles]
      /\ outer = [id |-> outer.id, type |-> outer.type, roles |-> outer.roles]
  BY DEF Flags
<1>2. both \in Flags
  BY <1>1 DEF Overridden, Flags
<1>3. CASE outer = NoFlags
  <2>1. outer.id = "" /\ outer.type = "" /\ outer.roles = {}
    BY <1>3 DEF NoFlags
  <2>2. both = inner
    BY <1>1, <2>1 DEF Overridden
  <2>3. BuildIdentity(outer) = NoIdentity
    BY <1>3 DEF BuildIdentity
  <2>4. QED
    BY <1>2, <2>2, <2>3 DEF MergeIdentity
<1>4. CASE outer # NoFlags
  <2>1. outer.id # "" \/ outer.type # "" \/ outer.roles # {}
    BY <1>1, <1>4 DEF NoFlags
  <2>2. both # NoFlags
    <3>1. both.id # "" \/ both.type # "" \/ both.roles # {}
      BY <2>1 DEF Overridden
    <3>2. NoFlags.id = "" /\ NoFlags.type = "" /\ NoFlags.roles = {}
      BY DEF NoFlags
    <3>3. QED
      <4> HIDE DEF both
      <4>1. QED
        BY <3>1, <3>2
  <2>3. BuildIdentity(outer) # NoIdentity
    BY <1>4, BuildIdentityType
  <2>4. BuildIdentity(outer) = [id |-> IF outer.id = "" THEN "@cli" ELSE outer.id,
                                type |-> IF outer.type = "" THEN "user" ELSE outer.type,
                                roles |-> outer.roles]
    BY <1>4 DEF BuildIdentity
  <2>5. MergeIdentity(BuildIdentity(outer), inner) =
          [id    |-> IF both.id = "" THEN "@cli" ELSE both.id,
           type  |-> IF both.type = "" THEN "user" ELSE both.type,
           roles |-> both.roles]
    <3>1. /\ both.id = IF inner.id = "" THEN outer.id ELSE inner.id
          /\ both.type = IF inner.type = "" THEN outer.type ELSE inner.type
          /\ both.roles = IF inner.roles = {} THEN outer.roles ELSE inner.roles
      BY DEF Overridden
    <3>2. MergeIdentity(BuildIdentity(outer), inner) =
            [id    |-> IF inner.id = "" THEN BuildIdentity(outer).id ELSE inner.id,
             type  |-> IF inner.type = "" THEN BuildIdentity(outer).type ELSE inner.type,
             roles |-> IF inner.roles = {} THEN BuildIdentity(outer).roles ELSE inner.roles]
      BY <2>3 DEF MergeIdentity
    <3>3. /\ BuildIdentity(outer).id = IF outer.id = "" THEN "@cli" ELSE outer.id
          /\ BuildIdentity(outer).type = IF outer.type = "" THEN "user" ELSE outer.type
          /\ BuildIdentity(outer).roles = outer.roles
      <4> DEFINE id == IF outer.id = "" THEN "@cli" ELSE outer.id
                 type == IF outer.type = "" THEN "user" ELSE outer.type
                 roles == outer.roles
      <4>1. BuildIdentity(outer) = [id |-> id, type |-> type, roles |-> roles]
        BY <2>4
      <4> HIDE DEF id, type, roles
      <4>2. /\ BuildIdentity(outer).id = id /\ BuildIdentity(outer).type = type
            /\ BuildIdentity(outer).roles = roles
        BY <4>1
      <4>3. QED
        BY <4>2 DEF id, type, roles
    <3>4. QED
      <4> HIDE DEF both
      <4>1. QED
        BY <3>1, <3>2, <3>3
  <2>6. QED
    BY <1>2, <2>2, <2>5 DEF BuildIdentity
<1>5. QED
  BY <1>3, <1>4

\* "acl check" answers as the call it stands for would be answered.
THEOREM CheckForetells == Spec => []CheckForetellsCall
<1>1. ASSUME IInv PROVE CheckForetellsCall
  <2> DEFINE both == Overridden(inv.sub, inv.root)
  <2> SUFFICES ASSUME Decided, inv.path = "check", Found(setup[cli]) # NoAcl,
                      attached[ExecutorOf(cli)] = Found(setup[cli]),
                      both # NoFlags \/ inv.input # "none"
               PROVE  verdict = Verdict(attached[ExecutorOf(cli)],
                                        ContextOf(BuildIdentity(both), inv.input = "key"))
    BY DEF CheckForetellsCall, Overridden
  <2>1. inv.sub \in Flags /\ inv.root \in Flags
    BY <1>1, UnderWay DEF Decided
  <2>2. both \in Flags /\ MergeIdentity(BuildIdentity(inv.root), inv.sub) = BuildIdentity(both)
    BY <2>1, MergeIsOverride
  <2>3. BuildIdentity(both) = NoIdentity <=> both = NoFlags
    BY <2>2, BuildIdentityType
  <2>4. Merged = ContextOf(BuildIdentity(both), inv.input = "key")
    <3> HIDE DEF both
    <3>1. QED
      BY <2>2, <2>3 DEF Merged, BuildContext
  <2>5. verdict = Verdict(Found(setup[cli]), Merged)
    BY <1>1 DEF IInv, DecisionInv
  <2>6. QED
    BY <2>4, <2>5
<1>2. QED
  BY <1>1, WiringInvariant, PTL

\* What a loaded ACL records of an answer is decided by the spelling of the
\* two settings alone.
LEMMA RecordBySettings ==
  ASSUME NEW s \in Setups, NEW acl, acl.sink = SinkOf(s), NEW access \in {"allow", "deny"}
  PROVE  RecordOf(acl, access) =
           IF ~logger \/ Silenced(s.enabled) \/ (access = "deny" /\ Silenced(s.denied))
             THEN <<>> ELSE <<access>>
<1>1. s.enabled \in Setting /\ s.denied \in Setting
  BY SetupsAssumption DEF SetupSpace
<1>2. /\ AsBool(Resolved(s.enabled)) <=> ~Silenced(s.enabled)
      /\ AsBool(Resolved(s.denied)) <=> ~Silenced(s.denied)
  BY <1>1, SettingRead
<1>3. CASE Silenced(s.enabled)
  BY <1>2, <1>3 DEF SinkOf, RecordOf
<1>4. CASE ~Silenced(s.enabled) /\ Silenced(s.denied)
  BY <1>2, <1>4 DEF SinkOf, RecordOf
<1>5. CASE ~Silenced(s.enabled) /\ ~Silenced(s.denied)
  BY <1>2, <1>5 DEF SinkOf, RecordOf
<1>6. QED
  BY <1>3, <1>4, <1>5

\* Only a spelled-out "off" keeps a decision of a loaded ACL out of the log.
THEOREM DecisionsRecorded == Spec => []DecisionsAreRecorded
<1>1. ASSUME IInv PROVE DecisionsAreRecorded
  <2> DEFINE s == setup[cli]
             silent == ~logger \/ Silenced(s.enabled)
                       \/ (verdict.access = "deny" /\ Silenced(s.denied))
  <2> SUFFICES ASSUME Decided, Discovers(s), verdict.access \in {"allow", "deny"},
                      inv.path = "check" \/ (inv.path # "sandbox" /\ ~s.host)
               PROVE  IF silent THEN entries = <<>>
                      ELSE entries # <<>> /\ \A i \in DOMAIN entries : entries[i] = verdict.access
    BY DEF DecisionsAreRecorded
  <2>1. /\ s \in Setups /\ ~Fails(s) /\ cli \in Clis /\ made[cli] = "yes"
        /\ inv.path \in {"call", "stream", "sandbox", "check"}
    BY <1>1, UnderWay, InvocationsAssumption DEF Decided, IInv, TypeOK, InvocationSpace
  <2>2. PICK acl : acl.sink = SinkOf(s) /\ entries = RecordOf(acl, verdict.access)
    <3>1. CASE inv.path = "check"
      <4>1. Found(s) # NoAcl
        BY <1>1, <3>1 DEF IInv, DecisionInv, Refused
      <4>2. Found(s).sink = SinkOf(s)
        BY <2>1, <4>1, FoundType
      <4>3. entries = RecordOf(Found(s), verdict.access)
        BY <1>1, <3>1, <4>1 DEF IInv, EntriesInv
      <4>4. QED
        BY <4>2, <4>3
    <3>2. CASE inv.path \in {"call", "stream"} /\ ~s.host
      <4>1. /\ entries = RecordOf(attached[cli], verdict.access)
            /\ attached[cli] # NoAcl
        BY <1>1, <3>2 DEF IInv, EntriesInv, ExecutorOf, Ungated
      <4>2. attached[cli] = Found(s) /\ Found(s) # NoAcl
        BY <1>1, <2>1, <3>2, <4>1 DEF IInv, WiringInv
      <4>3. Found(s).sink = SinkOf(s)
        BY <2>1, <4>2, FoundType
      <4>4. QED
        BY <4>1, <4>2, <4>3
    <3>3. QED
      BY <2>1, <3>1, <3>2
  <2>3. entries = IF silent THEN <<>> ELSE <<verdict.access>>
    <3> HIDE DEF s
    <3>1. QED
      BY <2>1, <2>2, RecordBySettings
  <2>4. QED
    <3> HIDE DEF silent
    <3>1. QED
      BY <2>3
<1>2. QED
  BY <1>1, WiringInvariant, PTL

\* No create_cli replaces the ACL of the host's own Executor unasked.
THEOREM HostAclKept == Spec => HostKeepsItsAcl
<1> DEFINE Change ==
      attached'["host"] # attached["host"] =>
        \E c \in Clis : /\ made[c] = "no" /\ made'[c] # "no" /\ setup'[c].host
                        /\ setup'[c].instance \/ "flag" \in setup'[c].named
<1>1. ASSUME IInv, [Next]_vars PROVE Change \/ UNCHANGED vars
  <2>1. ASSUME NEW c \in Clis, NEW s \in Setups, CreateCli(c, s),
               attached'["host"] # attached["host"]
        PROVE  /\ made[c] = "no" /\ made'[c] # "no" /\ setup'[c] = s /\ s.host
               /\ s.instance \/ "flag" \in s.named
    <3>1. /\ setup \in [Clis -> Setups] /\ made \in [Clis -> {"no", "yes", "failed"}]
          /\ attached \in [Clis \union {"host"} -> Acls] /\ c # "host"
      BY <1>1, HostAssumption DEF IInv, TypeOK
    <3>2. Attaches(s) /\ s.host
      BY <2>1, <3>1 DEF CreateCli
    <3>3. ~Fails(s) /\ Found(s) # NoAcl
      BY <3>2 DEF Attaches
    <3>4. s.instance \/ Discovers(s)
      BY <3>3 DEF Found
    <3>5. QED
      BY <2>1, <3>1, <3>2, <3>3, <3>4 DEF CreateCli, Discovers
  <2>2. CASE \E c \in Clis, s \in Setups : CreateCli(c, s)
    BY <2>1, <2>2
  <2>3. CASE \/ \E c \in Clis, i \in Invocations : Invoke(c, i)
             \/ Call \/ Stream \/ Gate \/ Backstop \/ Check \/ Leave
    <3>1. UNCHANGED attached
      BY <2>3 DEF Invoke, Call, Stream, Gate, Backstop, Check, Leave, wiring
    <3>2. QED
      BY <3>1
  <2>4. QED
    BY <1>1, <2>2, <2>3 DEF Next
<1>2. QED
  BY <1>1, WiringInvariant, PTL DEF Spec, HostKeepsItsAcl
=============================================================================
