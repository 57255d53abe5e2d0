---------------------------- MODULE MCGovernance ----------------------------
(* Model values of Governance for TLC. *)
EXTENDS Governance, TLC

\* Rule sets: one that denies by an unconditional rule, one whose denial hangs
\* on the mere presence of a context, one on an argument, and one that grants
\* to a role (asking a human) or a type and denies the rest.
MCRules ==
  [ closed |-> <<[when |-> "always", who |-> "", effect |-> "deny", ask |-> FALSE]>>,
    guard  |-> <<[when |-> "arguments", who |-> "", effect |-> "deny", ask |-> FALSE],
                 [when |-> "called", who |-> "", effect |-> "allow", ask |-> TRUE]>>,
    grant  |-> <<[when |-> "role", who |-> "admin", effect |-> "allow", ask |-> TRUE],
                 [when |-> "type", who |-> "service", effect |-> "allow", ask |-> FALSE]>> ]
MCRuleSets == DOMAIN MCRules
MCDefault == [closed |-> "allow", guard |-> "allow", grant |-> "deny"]

Unset == [env |-> "unset", file |-> "unset"]
Plain == [host |-> FALSE, instance |-> FALSE, named |-> {}, takes |-> TRUE, logger |-> TRUE,
          rest |-> TRUE,
          disk |-> [t \in Tiers |-> "absent"], enabled |-> Unset, denied |-> Unset]
Ladder(a, b, c, d) == [flag |-> a, env |-> b, yaml |-> c, default |-> d]

\* Which root is named and what is there.
Rooted ==
  { [Plain EXCEPT !.named = n, !.disk = d] :
      n \in {{}, {"yaml"}, {"env", "yaml"}, {"flag", "env"}},
      d \in { Ladder("closed", "guard", "grant", "closed"),
              Ladder("absent", "noFile", "absent", "grant"),
              Ladder("unreadable", "absent", "guard", "absent") } }

\* How the ACL's audit is set.
Audited ==
  { [Plain EXCEPT !.disk = Ladder("absent", "absent", "absent", "grant"),
                  !.enabled = e, !.denied = d] :
      e \in {Unset, [env |-> "off", file |-> "on"], [env |-> "typo", file |-> "off"]},
      d \in {Unset, [env |-> "unset", file |-> "off"]} }
  \union {[Plain EXCEPT !.disk = Ladder("absent", "absent", "absent", "grant"), !.logger = FALSE]}

\* Whose Executor it is, and whether it takes an ACL.
Embedded ==
  { [Plain EXCEPT !.host = h, !.instance = i, !.takes = t,
                  !.named = IF f /\ ~i THEN {"flag"} ELSE {},
                  !.disk = Ladder("guard", "absent", "absent", "closed")] :
      h \in BOOLEAN, i \in BOOLEAN, t \in BOOLEAN, f \in BOOLEAN }

\* A create_cli that fails behind the gate, having found an ACL or none.
Abandoned ==
  { [Plain EXCEPT !.host = h, !.named = n, !.rest = FALSE,
                  !.disk = Ladder("guard", "absent", "absent", "absent")] :
      h \in BOOLEAN, n \in {{}, {"flag"}} }

MCSetups == Rooted \union Audited \union Embedded \union Abandoned

Asserted == [NoFlags EXCEPT !.roles = {"admin"}]
Typed    == [NoFlags EXCEPT !.type = "service"]
Named    == [id |-> "alice", type |-> "service", roles |-> {"guest"}]
MCInvocations ==
  [path : {"call", "stream", "sandbox"}, root : {NoFlags, Asserted, Typed, Named},
   sub : {NoFlags}, input : {"other", "key"}]
  \union
  [path : {"check"}, root : {NoFlags, Asserted, Typed, Named},
   sub : {NoFlags, Asserted, Typed}, input : {"none", "key"}]

Symmetry == Permutations(Clis)
=============================================================================
