---------------------------- MODULE CommandLine ----------------------------
(***************************************************************************)
(* The command tree together with the commands it hands out: cli.py's      *)
(* build_module_command and the first half of the callback, from the       *)
(* user's arguments to the input the rest of the callback works with.      *)
(*                                                                         *)
(* A value is a pair of a JSON type and a spelling; an argument is what    *)
(* was typed after an option.  No name is given twice on a command line.   *)
(***************************************************************************)
EXTENDS CommandTree, InputSchema

CONSTANTS
  Tokens,    \* what a user may type after an option
  NoValue,   \* what follows an option that takes nothing
  Reading,   \* external: what click makes of a value for an option of a type
  Values     \* values a JSON object on STDIN may hold

\* The tree hands out the commands that build_module_command makes, and what
\* it makes them from is a schema.
ASSUME BuildsAssumption ==
  \A r \in Registries : \A k \in DOMAIN r.catalogue :
     LET built == Built(r.catalogue[k].schema)
     IN  /\ Builds(r.catalogue[k].schema) <=> built.status = 0
         /\ built.status = 0 => IsSchema(built.schema)
ASSUME InputAssumption ==
  Tokens \union {NoValue, "True", "False"} \subseteq Spellings /\ Values \subseteq JsonValues

\* click's integers, floats and booleans: a scalar, a usage error (exit 2), or a
\* TypeError that nobody catches (exit 1).
Refused  == <<"refused", "refused">>
Raises   == <<"raises", "raises">>
Failures == {Refused, Raises}
ASSUME ReadingAssumption ==
  Reading \in [{"integer", "number", "boolean"} \X JsonValues -> Scalars \union Failures]

VARIABLES
  stage,     \* "none", "typed" or "answered"
  schema,    \* resolved_schema of the command invoked
  argv,      \* options typed, and what was typed after them
  stdin,     \* the object given with --input
  readable,  \* it was read: present, within the limit, JSON, an object
  received,  \* merged, once validated
  status     \* 0, or the status the callback or click exits with

inputVars == <<stage, schema, argv, stdin, readable, received, status>>
lineVars  == <<vars, inputVars>>

Empty == <<>>
Spelled(node, s) == {v \in Range(node.enum) : v[2] = s}

LineTypeOK ==
  /\ TypeOK
  /\ stage \in {"none", "typed", "answered"}
  /\ DOMAIN schema = DOMAIN Blank
  /\ \A f \in DOMAIN argv : argv[f] \in Tokens \union {NoValue}
  /\ \A k \in DOMAIN stdin : stdin[k] \in Values
  /\ readable \in BOOLEAN
  /\ \A k \in DOMAIN received : received[k] \in JsonValues
  /\ status \in {0, 1, 2, 45}

LineInit ==
  /\ Init
  /\ stage = "none" /\ schema = Blank /\ argv = Empty /\ stdin = Empty
  /\ readable = TRUE /\ received = Empty /\ status = 0
-----------------------------------------------------------------------------
(* What can be typed. *)

\* The flags one property answers to: a switch has two.
FlagsOf(entry) ==
  {Flag[entry.name]} \union IF IsSwitch(entry.node) THEN {NoFlag[entry.name]} ELSE {}

\* Some of the options, each with what a property of that flag takes: a switch
\* takes no value, and is not given both ways.
Takes(entry, token) == IF IsSwitch(entry.node) THEN token = NoValue ELSE token \in Tokens
Argvs(props) ==
  LET flags == UNION {FlagsOf(e) : e \in Range(props)}
  IN  {a \in UNION {[S -> Tokens \union {NoValue}] : S \in SUBSET flags} :
         /\ \A f \in DOMAIN a : \E e \in Range(props) : f \in FlagsOf(e) /\ Takes(e, a[f])
         /\ \A e \in Range(props) : IsSwitch(e.node) => ~(FlagsOf(e) \subseteq DOMAIN a)}

Objects(props) ==
  UNION {[S -> Values] : S \in SUBSET NamesOf(props)}

HandedOut == Range(cmdCache) \union Range(memberCache)

Invoke ==
  /\ pc = "idle" /\ stage = "none"
  /\ \E id \in HandedOut :
       /\ schema' = Built(ModuleAt(id).schema).schema
       /\ argv' \in Argvs(schema'.props)
       /\ \/ stdin' \in Objects(schema'.props) /\ readable' = TRUE
          \/ stdin' = Empty /\ readable' = FALSE
  /\ stage' = "typed"
  /\ UNCHANGED <<vars, received, status>>
-----------------------------------------------------------------------------
(* What is made of it. *)

\* click.Option's conversion of a value, given or default: a Choice takes the
\* spellings of its members, an option without a type of its own any spelling.
\* None is no value.
Cast(node, value) ==
  IF value \in {Absent, Null} THEN Absent
  ELSE IF IsChoice(node) /\ Spelled(node, value[2]) = {} THEN Refused
  ELSE IF IsChoice(node) \/ OptionType(node) = "string" THEN <<"str", value[2]>>
  ELSE Reading[<<OptionType(node), value>>]

\* The value of an option, given what was typed; and failing that, by the
\* schema's default.  An absent switch is off.
Argument(node, token) == Cast(node, <<"str", token>>)
Unset(node) ==
  IF IsSwitch(node) /\ node.default = Absent THEN <<"bool", "False">>
  ELSE Cast(node, node.default)

Converts(node, token) == IsSwitch(node) \/ Argument(node, token) \notin Failures

\* What click makes of the k-th property's option.  Where two options answer
\* to one flag, click knows only the one in owner.
OptionValue(props, owner, k) ==
  LET node == props[k].node
      f == Flag[props[k].name]
      nf == NoFlag[props[k].name]
  IN  IF f \in DOMAIN argv /\ owner[f] = k
        THEN IF IsSwitch(node) THEN <<"bool", "True">> ELSE Argument(node, argv[f])
      ELSE IF IsSwitch(node) /\ nf \in DOMAIN argv /\ owner[nf] = k THEN <<"bool", "False">>
      ELSE Unset(node)

\* The callback's keyword arguments that are not None; no two properties have
\* one destination.
Kwargs(props, owner) ==
  LET given == {k \in DOMAIN props : OptionValue(props, owner, k) # Absent}
  IN  [d \in {Dest[props[k].name] : k \in given} |->
         OptionValue(props, owner, CHOOSE k \in given : Dest[props[k].name] = d)]

\* collect_input: the keyword arguments override the object.
Collected(kwargs) ==
  [d \in DOMAIN kwargs \union DOMAIN stdin |->
     IF d \in DOMAIN kwargs THEN kwargs[d] ELSE stdin[d]]

LastSpelled(enum, s) ==
  LET named == {j \in DOMAIN enum : enum[j][2] = s}
  IN  enum[CHOOSE j \in named : \A k \in named : k <= j]

\* A value spelled as a member of an enumeration gets the type of the last
\* member so spelled; strings are left as they are.
Retyped(enum, value) ==
  LET last == LastSpelled(enum, value[2])
  IN  IF last[1] = "str" THEN value ELSE last

\* reconvert_enum_values
Reconverted(props, merged) ==
  [k \in DOMAIN merged |->
     LET fits == {e \in Range(props) : /\ IsChoice(e.node) /\ Dest[e.name] = k
                                       /\ Spelled(e.node, merged[k][2]) # {}}
     IN  IF fits = {} THEN merged[k]
         ELSE Retyped((CHOOSE e \in fits : TRUE).node.enum, merged[k])]

\* jsonschema.validate (external), as far as types, enum and required go; that
\* it takes a whole float for an integer is left out.  A schema that has no
\* properties is not validated against.
HasType(value, type) ==
  CASE type = "string"  -> value[1] = "str"
    [] type = "integer" -> value[1] = "int"
    [] type = "number"  -> value[1] \in {"int", "float"}
    [] type = "boolean" -> value[1] = "bool"
    [] type = "array"   -> value[1] = "list"
    [] type = "object"  -> value[1] = "dict"
    [] type = ""        -> TRUE
    [] OTHER            -> FALSE
Valid(held, input) ==
  held.props # <<>> =>
    /\ held.need \subseteq DOMAIN input
    /\ \A e \in Range(held.props) : e.name \in DOMAIN input =>
         /\ HasType(input[e.name], e.node.type)
         /\ e.node.enum # <<>> => input[e.name] \in Range(e.node.enum)

\* click parses, and stops at some option it cannot convert; then the callback
\* collects, reconverts and validates.
Receive ==
  /\ stage = "typed"
  /\ stage' = "answered"
  /\ LET props == schema.props
     IN  \E owner \in [DOMAIN argv -> DOMAIN props] :
           /\ \A f \in DOMAIN argv : f \in FlagsOf(props[owner[f]])
           /\ LET values == {OptionValue(props, owner, k) : k \in DOMAIN props}
                  parsed == values \intersect Failures = {}
                  input == Reconverted(props, Collected(Kwargs(props, owner)))
              IN  \/ /\ Refused \in values \/ (parsed /\ ~readable)
                     /\ status' = 2 /\ UNCHANGED received
                  \/ /\ Raises \in values
                     /\ status' = 1 /\ UNCHANGED received
                  \/ /\ parsed /\ readable /\ ~Valid(schema, input)
                     /\ status' = 45 /\ UNCHANGED received
                  \/ /\ parsed /\ readable /\ Valid(schema, input)
                     /\ received' = input /\ UNCHANGED status
  /\ UNCHANGED <<vars, schema, argv, stdin, readable>>

\* The process goes on with the next lookup, as a host's or a test's does.
Finish ==
  /\ stage = "answered"
  /\ stage' = "none" /\ schema' = Blank /\ argv' = Empty /\ stdin' = Empty
  /\ readable' = TRUE /\ received' = Empty /\ status' = 0
  /\ UNCHANGED vars

LineNext ==
  \/ stage = "none" /\ Next /\ UNCHANGED inputVars
  \/ Invoke \/ Receive \/ Finish

LineSpec == LineInit /\ [][LineNext]_lineVars
-----------------------------------------------------------------------------
(* Properties. *)

\* What the user meant by one property's option, or failing that by the object
\* on STDIN, or failing that the schema's default; Absent if nothing.
Meant(entry) ==
  LET node == entry.node
      f == Flag[entry.name]
  IN  IF f \in DOMAIN argv
        THEN IF IsSwitch(node) THEN <<"bool", "True">>
             ELSE IF IsChoice(node) THEN CHOOSE v \in Spelled(node, argv[f]) : TRUE
             ELSE Argument(node, argv[f])
      ELSE IF IsSwitch(node) /\ NoFlag[entry.name] \in DOMAIN argv THEN <<"bool", "False">>
      ELSE IF entry.name \in DOMAIN stdin THEN stdin[entry.name]
      ELSE IF IsSwitch(node) /\ node.default = Absent THEN <<"bool", "False">>
      ELSE IF node.default = Null THEN Absent
      ELSE node.default
Intended(props) ==
  LET meant == {e \in Range(props) : Meant(e) # Absent}
  IN  [p \in NamesOf(props) \intersect {e.name : e \in meant} |-> Meant(Named(p, At(props, p)))]

\* The default reaches the module as the schema has it: one of the enumeration,
\* or of the option's own type.  Any other the option converts, or refuses.
DefaultStays(node) ==
  \/ node.default \in {Absent, Null}
  \/ IF IsChoice(node) THEN node.default \in Range(node.enum)
                       ELSE Cast(node, node.default) = node.default

\* The property's value is in no way taken for another's: click spells its name
\* as the schema does and no two members of its enumeration are spelled alike;
\* and where no argument takes its place, the default is one that stays, and is
\* not laid over a value on STDIN (StdinSurvives is about that).
Unmistakable(entry) ==
  /\ Dest[entry.name] = entry.name
  /\ \A u, v \in Range(entry.node.enum) : u[2] = v[2] => u = v
  /\ FlagsOf(entry) \intersect DOMAIN argv = {} =>
       /\ DefaultStays(entry.node)
       /\ entry.name \in DOMAIN stdin => Unset(entry.node) = Absent

Understood(entry) ==
  Flag[entry.name] \in DOMAIN argv => Converts(entry.node, argv[Flag[entry.name]])

\* Whenever what the user meant is valid input, the module receives it, each
\* value under its own property and with its own type: no argument is lost,
\* refused or taken for another's.  And it never receives anything else: what
\* arrives is spelled as it was meant, and nothing is added.  Defaults that the
\* option does not take as they are (1 for a property without a type or for a
\* number, a list, a value outside the enumeration) are no part of the claim:
\* click makes a string or a float of them, or fails.
ModuleGetsWhatWasMeant ==
  LET props == schema.props
      meant == Intended(props)
  IN  (stage = "answered" /\ \A e \in Range(props) : Unmistakable(e)) =>
        /\ (/\ readable /\ \A e \in Range(props) : Understood(e)
            /\ Valid(schema, meant)) => status = 0 /\ received = meant
        /\ status = 0 => /\ DOMAIN received = DOMAIN meant
                         /\ \A p \in DOMAIN meant : received[p][2] = meant[p][2]

\* README.md: "--input - reads JSON from STDIN, CLI flags override for
\* duplicate keys": a key of the object whose option was not typed arrives.
StdinSurvives ==
  (stage = "answered" /\ status = 0) =>
    \A e \in Range(schema.props) :
      (/\ e.name \in DOMAIN stdin
       /\ {Flag[e.name], NoFlag[e.name]} \intersect DOMAIN argv = {})
      => received[e.name] = stdin[e.name]
=============================================================================
