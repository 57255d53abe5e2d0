--------------------------- MODULE MCBuiltinGroup ---------------------------
(* Model values of BuiltinGroup for TLC. *)
EXTENDS BuiltinGroup

Absent == [shape |-> "absent", mode |-> "unset", include |-> {}, exclude |-> {}, seal |-> FALSE]
Dict   == [Absent EXCEPT !.shape = "dict", !.include = {"enable", "unknown"},
                         !.exclude = {"exec", "disable"}]
Blocks == {[Absent EXCEPT !.shape = sh] : sh \in {"absent", "true", "false", "other"}}
          \union {[Dict EXCEPT !.mode = m, !.seal = x] :
                     m \in {"unset", "none", "include", "exclude"}, x \in BOOLEAN}
          \union {[Dict EXCEPT !.mode = "bad"]}

Plain == [given |-> Absent, prebuilt |-> "no", claims |-> FALSE, yaml |-> Absent,
          env |-> "unset", injected |-> FALSE, validate |-> "returns",
          registry |-> "knows", requires |-> TRUE, wired |-> TRUE, logger |-> TRUE]

\* Who says what about the group.
Tiered ==
  {[Plain EXCEPT !.given = g, !.yaml = y, !.env = e, !.injected = i] :
     g \in Blocks, y \in Blocks, e \in {"unset", "show", "hide", "typo"}, i \in BOOLEAN}
Prebuilt ==
  {[Plain EXCEPT !.given = g, !.prebuilt = p, !.claims = c, !.env = e, !.injected = TRUE] :
     g \in {b \in Blocks : b.shape # "other"}, p \in {"cli", "yaml"}, c \in BOOLEAN,
     e \in {"unset", "show", "hide"}}

\* What the Executor can do and who can be asked.
Executors ==
  {[Plain EXCEPT !.validate = v, !.registry = r, !.requires = q, !.wired = w, !.logger = l] :
     v \in {"absent", "returns", "raises"}, r \in {"absent", "knows", "lacks", "raises"},
     q \in BOOLEAN, w \in BOOLEAN, l \in BOOLEAN}

MCSetups == Tiered \union Prebuilt \union Executors
MCRequests == {r \in RequestSpace : Controls(r.cmd) \/ ~(r.yes \/ r.auto \/ r.tty)}
=============================================================================
