---------------------------- MODULE Composition ----------------------------
(***************************************************************************)
(* ref_resolver.py: what takes the place of an allOf, anyOf or oneOf, once *)
(* its branches are resolved, and the dict.update it is made with.  Kept   *)
(* apart from the recursion of RefResolver, to be proved about.            *)
(***************************************************************************)
EXTENDS InputSchema

\* d[name] = node: an entry that is there keeps its place.
PutEntry(entries, name, node) ==
  IF name \in NamesOf(entries)
    THEN [k \in DOMAIN entries |-> IF entries[k].name = name
                                   THEN Named(name, node) ELSE entries[k]]
    ELSE Append(entries, Named(name, node))

\* dict.update
Updated(old, new) ==
  LET upTo[k \in 0..Len(new)] ==
        IF k = 0 THEN old
        ELSE PutEntry(upTo[k - 1], new[k].name, new[k].node)
  IN  upTo[Len(new)]
-----------------------------------------------------------------------------
\* The type an Optional[X] gets back: that of the first branch that has one.
FirstType(branches) ==
  LET typed == {k \in DOMAIN branches : branches[k].type \notin {"", "null"}}
  IN  IF typed = {} THEN ""
      ELSE branches[CHOOSE k \in typed : \A j \in typed : k <= j].type

\* Mutant of Merged: the composing node's own properties are dropped.
MergedBranchesOnly(n, branches) ==
  LET upTo[k \in 0..Len(branches)] ==
        IF k = 0 THEN <<>> ELSE Updated(upTo[k - 1], branches[k].props)
  IN  [n EXCEPT !.comp = "", !.parts = <<>>, !.says = TRUE,
                !.props = upTo[Len(branches)],
                !.type = IF n.comp = "allOf" \/ n.type # "" THEN n.type
                                             ELSE FirstType(branches)]

\* The node that takes the place of an allOf, anyOf or oneOf: its own
\* properties, as they stand, extended by those of the resolved branches.
Merged(n, branches) ==
  LET upTo[k \in 0..Len(branches)] ==
        IF k = 0 THEN n.props ELSE Updated(upTo[k - 1], branches[k].props)
      saying == {k \in DOMAIN branches : branches[k].says}
      shared == UNION {branches[k].need : k \in saying}
      needed == IF n.comp = "allOf" THEN shared
                ELSE {r \in shared : \A k \in saying : r \in branches[k].need}
  IN  [n EXCEPT !.comp = "", !.parts = <<>>, !.says = TRUE,
                !.props = upTo[Len(branches)],
                !.need = n.need \union needed,
                !.type = IF n.comp = "allOf" \/ n.type # "" THEN n.type
                                             ELSE FirstType(branches)]
=============================================================================
