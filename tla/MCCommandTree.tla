--------------------------- MODULE MCCommandTree ---------------------------
(* A pool of modules whose overlays meet in every way _resolve_group allows, *)
(* and single modules whose schemas exercise the resolver and the options.   *)
EXTENDS RefResolver

MCFlag == [ n \in {"n", "e", "x", "y", "force", "no_force", "no-force", "user_id", "userId", "format", "Format"} |->
              CASE n \in {"no_force", "no-force"} -> "--no-force"
                [] n = "user_id" -> "--user-id"
                [] OTHER -> "--" \o n ]
MCNoFlag == [ n \in DOMAIN MCFlag |->
              CASE n \in {"no_force", "no-force"} -> "--no-no-force"
                [] n = "user_id" -> "--no-user-id"
                [] OTHER -> "--no-" \o n ]
MCDest == [ n \in DOMAIN MCFlag |->
              CASE n = "no-force" -> "no_force"
                [] n = "userId"   -> "userid"
                [] n = "Format"   -> "format"
                [] OTHER -> n ]

Typed(t) == [Blank EXCEPT !.type = t]
Ref(d)   == [Blank EXCEPT !.to = d]
Object(props, need) == [Typed("object") EXCEPT !.props = props, !.need = need, !.says = need # {}]
Compose(comp, props, parts) == [Blank EXCEPT !.comp = comp, !.props = props, !.parts = parts]
Untyped == [root |-> Blank, defs |-> <<>>, defsFirst |-> TRUE]

Entry(id, alias, group) ==
  [id |-> id, alias |-> alias, group |-> group, defined |-> id # "gone", schema |-> Untyped]

Pool == { Entry("math.add", "", "absent"),     \* group math, from the dot
          Entry("sum", "math.add", "absent"),  \* the same, by alias
          Entry("plus", "add", "math"),        \* the same, explicitly
          Entry("add", "", "absent"),          \* top level
          Entry("m", "math", ""),              \* top level, named as the group
          Entry("Math.add", "", "absent"),     \* not shell-safe: top level add
          Entry("apcli.x", "", "absent"),      \* reserved group
          Entry("r", "apcli", "BAD!"),         \* reserved name, unsafe group
          Entry("gone", "", "absent") }        \* listed, no definition

(* Documents for the resolver: two definitions, references everywhere. *)
X(node) == <<Named("x", node)>>
Bodies == { Typed("string"), Ref("A"), Ref("B"), Ref("C"),
            Object(X(Typed("integer")), {"x"}), Object(X(Ref("A")), {}), Object(X(Ref("B")), {"x"}),
            Compose("allOf", <<>>, <<Ref("A"), Object(<<Named("y", Ref("B"))>>, {"y"})>>),
            Compose("anyOf", X(Typed("string")), <<Ref("B"), Typed("null")>>),
            Compose("anyOf", X(Ref("A")), <<Object(<<Named("y", Typed("string"))>>, {"y"}), Ref("B")>>) }
Roots == { Object(<<Named("x", Ref("A")), Named("y", Ref("B"))>>, {"x"}),
           Object(<<Named("x", Ref("A")), Named("y", Ref("A"))>>, {}),
           Object(X(Compose("anyOf", <<>>, <<Ref("B"), Typed("null")>>)), {}),
           Compose("allOf", X(Typed("integer")), <<Ref("A"), Ref("B")>>),
           Compose("anyOf", X(Ref("A")), <<Ref("B"), Typed("null")>>) }
RefDocs == { [root |-> r, defs |-> <<Named("A", a), Named("B", b)>>, defsFirst |-> f] :
               r \in Roots, a \in Bodies, b \in Bodies, f \in BOOLEAN }

(* Documents for the options: one or two properties of every kind. *)
Enum(vs, d) == [Blank EXCEPT !.enum = vs, !.default = d]
One == <<"int", "1">>
List == <<"list", "[1]">>
Pairs == { <<Named("n", Typed("integer"))>>,
           <<Named("n", [Typed("integer") EXCEPT !.default = One]), Named("x", Typed("string"))>>,
           <<Named("force", Typed("boolean")), Named("no_force", Typed("string"))>>,
           <<Named("no_force", Typed("string")), Named("force", Typed("boolean"))>>,
           <<Named("no_force", Typed("string")), Named("no-force", Typed("string"))>>,
           <<Named("force", Typed("boolean")), Named("user_id", Typed("string"))>>,
           <<Named("e", Enum(<<One, <<"bool", "True">>>>, Absent)), Named("n", Typed("number"))>>,
           <<Named("e", Enum(<<One, <<"str", "a">>>>, One))>>,
           <<Named("e", Enum(<<One, <<"str", "1">>>>, Absent))>>,
           <<Named("userId", Typed("string")), Named("y", Typed("object"))>>,
           <<Named("format", Typed("string"))>>, <<Named("Format", Typed("string"))>>,
           <<Named("x", Typed(""))>>, <<>> }
         \union { <<Named(n, [Typed(t) EXCEPT !.default = d])>> : <<n, t, d>> \in
                    { <<"x", "", One>>, <<"x", "array", List>>, <<"x", "string", Null>>,
                      <<"n", "number", One>>, <<"n", "integer", List>>,
                      <<"n", "integer", <<"str", "1">>>>, <<"force", "boolean", Null>>,
                      <<"force", "boolean", <<"bool", "True">>>> } }
         \union { <<Named("e", Enum(<<One>>, <<"str", "a">>))>> }
OptionDocs == { [root |-> Object(p, need), defs |-> <<>>, defsFirst |-> TRUE] :
                  p \in Pairs, need \in {{}, {"n"}, {"x"}, {"force"}} }

MCSplit == [ n \in {"math.add", "Math.add", "apcli.x"} |->
               CASE n = "math.add" -> <<"math", "add">>
                 [] n = "Math.add" -> <<"Math", "add">>
                 [] n = "apcli.x"  -> <<"apcli", "x">> ]
Catalogues == { s \in [1..3 -> Pool] :
                  \A j, k \in 1..3 : s[j].id = s[k].id => j = k }
All == [mode |-> "all", hits |-> {}]
Filters == { All,
             [mode |-> "include", hits |-> {"math.add", "m", "r"}],
             [mode |-> "exclude", hits |-> {"math.add", "apcli.x"}],
             [mode |-> "none", hits |-> {}] }
MCRegistries ==
  [catalogue : Catalogues, filter : Filters] \union
  { [catalogue |-> <<[Entry("add", "", "absent") EXCEPT !.schema = d]>>, filter |-> All] :
      d \in RefDocs \union OptionDocs }
MCNames == {"math", "add", "apcli", "gone"}
MCValues == {One, List, <<"str", "a">>, <<"bool", "True">>}

\* int(), float() and click's BOOL on these values; a list is a TypeError.
MCReading ==
  LET ones == {<<"str", "1">>, One, <<"float", "1.0">>, <<"bool", "True">>}
  IN  [ p \in {"integer", "number", "boolean"} \X JsonValues |->
          CASE p[2][1] \in {"list", "dict"} -> Raises
            [] p[1] = "integer" /\ p[2] \in ones -> One
            [] p[1] = "number" /\ p[2] \in ones \union {<<"str", "1.0">>} -> <<"float", "1.0">>
            [] p[1] = "boolean" /\ p[2] \in ones \union {<<"str", "True">>} -> <<"bool", "True">>
            [] p[1] = "boolean" /\ p[2][2] = "False" -> <<"bool", "False">>
            [] OTHER -> Refused ]
MCBuilds(doc) == Built(doc).status = 0
=============================================================================
