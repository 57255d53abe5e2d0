---------------------------- MODULE InputSchema ----------------------------
(***************************************************************************)
(* schema_parser.py: from a module's JSON Schema to the options of its     *)
(* command, as build_module_command (cli.py) does.  Resolving the          *)
(* references of a document is left to a parameter, which RefResolver      *)
(* gives its value.                                                        *)
(***************************************************************************)
EXTENDS Naturals, Sequences, FiniteSets, Functions

CONSTANTS
  Flag,        \* a property's option: "--" and "_" replaced by "-"
  NoFlag,      \* its negative form, "--no-..."
  Dest,        \* external: the name click gives the option's value
  Spellings,   \* how a value may be written
  BuiltIn,     \* RESERVED_PROPERTY_NAMES, the destinations of the built-ins
  Resolved(_)  \* resolve_refs: the schema a document stands for, and the error

\* A negative form is its property's own flag behind "no-".
ASSUME FlagsAssumption ==
  \A a, b \in DOMAIN Flag :
     NoFlag[a] # Flag[a] /\ (NoFlag[a] = NoFlag[b] => Flag[a] = Flag[b])

(* A dict is a sequence of named entries, in insertion order. *)
Named(name, node) == [name |-> name, node |-> node]
NamesOf(entries) == {entries[k].name : k \in DOMAIN entries}
At(entries, name) ==
  (CHOOSE e \in Range(entries) : e.name = name).node

\* A schema node.  "says" tells whether the key "required" is there at all;
\* values, in enum and default, are pairs of a type and a spelling, which is
\* what Python's str() makes of them.  A default may be null.
Absent == <<"absent", "absent">>
Null   == <<"null", "None">>
Blank == [to |-> "", comp |-> "", parts |-> <<>>, type |-> "",
          props |-> <<>>, need |-> {}, says |-> FALSE,
          enum |-> <<>>, default |-> Absent]

\* A value that an option or an enumeration may hold, and any value of JSON
\* but null.
Scalars == {"str", "int", "float", "bool"} \X Spellings
JsonValues == Scalars \union ({"list", "dict"} \X Spellings)

\* A schema that options can be made of: a property is a flag's, its default any
\* value; the members of an enumeration are scalars, and an enumeration that is
\* there but empty is left out.
IsSchema(node) ==
  /\ DOMAIN node = DOMAIN Blank
  /\ \A e \in Range(node.props) :
       /\ e = Named(e.name, e.node) /\ e.name \in DOMAIN Flag
       /\ e.node.default \in JsonValues \union {Absent, Null}
       /\ e.node.enum \in Seq(Scalars)
-----------------------------------------------------------------------------
(* schema_parser.py and the checks of build_module_command. *)

\* _map_type: what is not a known type is read as a string.
OptionType(node) ==
  IF node.type \in {"integer", "number", "boolean"} THEN node.type ELSE "string"
IsSwitch(node) == OptionType(node) = "boolean"
IsChoice(node) == node.enum # <<>> /\ ~IsSwitch(node)

\* Mutant of FlagsClash: the negative forms are not registered.
FlagsClashPlain(props) ==
  \E j, k \in DOMAIN props : j # k /\ Flag[props[j].name] = Flag[props[k].name]

\* The collision map of schema_to_click_options: two properties with one flag,
\* or one whose flag is another's negative form.
FlagsClash(props) ==
  \E j, k \in DOMAIN props :
     /\ j # k
     /\ \/ Flag[props[j].name] = Flag[props[k].name]
        \/ IsSwitch(props[j].node) /\ NoFlag[props[j].name] = Flag[props[k].name]

\* An option whose value click would give under a built-in option's name.
TakesBuiltIn(props) == \E name \in NamesOf(props) : Dest[name] \in BuiltIn

\* What build_module_command makes of a resolution: a status to exit with, 0
\* for a command, and the schema its options come from and its input is held to.
Outcome(resolved) ==
  LET props == resolved.out.props
      error == resolved.error
      ambiguous == NamesOf(props) \intersect BuiltIn # {} \/ FlagsClash(props)
  IN  [schema |-> resolved.out,
       status |-> IF error \in {"circular", "deep"} THEN 48
                  ELSE IF error = "missing" THEN 45
                  ELSE IF ambiguous THEN 48
                  ELSE IF TakesBuiltIn(props) THEN 2
                  ELSE 0]

Built(doc) ==
  Outcome(IF doc.root.props = <<>> THEN [out |-> doc.root, error |-> ""]
                                   ELSE Resolved(doc))
=============================================================================
