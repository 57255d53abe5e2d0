---------------------------- MODULE RefResolver ----------------------------
(***************************************************************************)
(* ref_resolver.py: the schema a document stands for, which CommandLine    *)
(* takes as its parameter Resolved.                                        *)
(*                                                                         *)
(* _resolve_node works in place: what it has resolved inside a definition  *)
(* stays resolved for whoever refers to that definition next.  A step of   *)
(* the resolution therefore gives back three things: what it returns, the  *)
(* node as it is left behind, and the definitions as they are left behind. *)
(* What two places of the result share after that is not tracked: a        *)
(* reference left beside a composition is resolved, in all the places that *)
(* share it, when one of them is reached again.                            *)
(***************************************************************************)
EXTENDS CommandLine, Composition

CONSTANT MaxDepth   \* max_depth

IsRef(n) == n.to # ""
-----------------------------------------------------------------------------
Step(out, self, defs) == [out |-> out, self |-> self, defs |-> defs, error |-> ""]
Fails(why) == [out |-> Blank, self |-> Blank, defs |-> <<>>, error |-> why]

\* _resolve_node.
RECURSIVE ResolveNode(_, _, _, _)
ResolveNode(n, defs, visited, depth) ==
  CASE IsRef(n) ->
         IF depth >= MaxDepth THEN Fails("deep")
         ELSE IF n.to \in visited THEN Fails("circular")
         ELSE IF n.to \notin NamesOf(defs) THEN Fails("missing")
         ELSE LET r == ResolveNode(At(defs, n.to), defs, visited \union {n.to},
                                   depth + 1)
              IN  IF r.error # "" THEN r
                  ELSE Step(r.out, n, PutEntry(r.defs, n.to, r.self))
    [] ~IsRef(n) /\ n.comp # "" ->
         LET upTo[k \in 0..Len(n.parts)] ==
               IF k = 0 THEN [outs |-> <<>>, selves |-> <<>>, defs |-> defs, error |-> ""]
               ELSE IF upTo[k - 1].error # "" THEN upTo[k - 1]
               ELSE LET r == ResolveNode(n.parts[k], upTo[k - 1].defs, visited, depth + 1)
                    IN  [outs |-> Append(upTo[k - 1].outs, r.out),
                         selves |-> Append(upTo[k - 1].selves, r.self),
                         defs |-> r.defs, error |-> r.error]
             all == upTo[Len(n.parts)]
         IN  IF all.error # "" THEN Fails(all.error)
             ELSE Step(Merged(n, all.outs), [n EXCEPT !.parts = all.selves], all.defs)
    [] OTHER ->
         LET upTo[k \in 0..Len(n.props)] ==
               IF k = 0 THEN Step(n, n, defs)
               ELSE IF upTo[k - 1].error # "" THEN upTo[k - 1]
               ELSE LET r == ResolveNode(n.props[k].node, upTo[k - 1].defs, visited, depth)
                        left == [upTo[k - 1].self EXCEPT !.props[k].node = r.out]
                    IN  IF r.error # "" THEN r ELSE Step(left, left, r.defs)
         IN  upTo[Len(n.props)]

\* The root's "$defs" is a dict like any other child and is walked, too.
ResolveDefs(defs) ==
  LET upTo[k \in 0..Len(defs)] ==
        IF k = 0 THEN Step(Blank, Blank, defs)
        ELSE IF upTo[k - 1].error # "" THEN upTo[k - 1]
        ELSE LET r == ResolveNode(upTo[k - 1].defs[k].node, upTo[k - 1].defs, {}, 0)
             IN  IF r.error # "" THEN r
                 ELSE Step(Blank, Blank, PutEntry(r.defs, defs[k].name, r.out))
  IN  upTo[Len(defs)]

\* resolve_refs, of a document whose "$defs" come before or after the rest.
ResolveRefs(doc) ==
  IF IsRef(doc.root) \/ doc.root.comp # ""
    THEN ResolveNode(doc.root, doc.defs, {}, 0)
    ELSE IF doc.defsFirst
      THEN LET d == ResolveDefs(doc.defs)
           IN  IF d.error # "" THEN d ELSE ResolveNode(doc.root, d.defs, {}, 0)
      ELSE LET r == ResolveNode(doc.root, doc.defs, {}, 0)
               d == ResolveDefs(r.defs)
           IN  IF r.error # "" \/ d.error = "" THEN r ELSE d
-----------------------------------------------------------------------------
(* Resolution against a reference that does not share, mark or update. *)

RECURSIVE Mentions(_)
Mentions(n) ==
  IF IsRef(n) THEN {n.to}
  ELSE UNION ({Mentions(p) : p \in Range(n.parts)} \union
              {Mentions(e.node) : e \in Range(n.props)})

\* Definitions reachable from a set of them.
RECURSIVE Reach(_, _)
Reach(defs, names) ==
  LET next == names \union UNION {Mentions(At(defs, d)) : d \in names \intersect NamesOf(defs)}
  IN  IF next = names THEN names ELSE Reach(defs, next)

Sound(doc) ==
  LET all == Mentions(doc.root) \union NamesOf(doc.defs)
  IN  \A d \in Reach(doc.defs, all) :
        d \in NamesOf(doc.defs) /\ d \notin Reach(doc.defs, Mentions(At(doc.defs, d)))

\* The longest chain of references and compositions, in a sound document.
RECURSIVE Height(_, _)
Height(n, defs) ==
  LET below == IF IsRef(n) THEN {1 + Height(At(defs, n.to), defs)}
               ELSE {1 + Height(p, defs) : p \in Range(n.parts)} \union
                    {Height(e.node, defs) : e \in Range(n.props)}
  IN  CHOOSE h \in below \union {0} : \A b \in below \union {0} : b <= h

\* What a node stands for: references replaced, later branches overriding
\* earlier ones and all of them the node's own properties, a name required by
\* allOf if a branch requires it and by anyOf if each that lists any does.
RECURSIVE Meaning(_, _)
Meaning(n, defs) ==
  IF IsRef(n) THEN Meaning(At(defs, n.to), defs)
  ELSE
    LET branch == [k \in DOMAIN n.parts |-> Meaning(n.parts[k], defs)]
        having(p) == {k \in DOMAIN branch : p \in DOMAIN branch[k].props}
        listing == {k \in DOMAIN branch : branch[k].says}
        needs(p) == \/ p \in n.need
                    \/ n.comp = "allOf" /\ \E k \in listing : p \in branch[k].need
                    \/ /\ n.comp = "anyOf" /\ listing # {}
                       /\ \A k \in listing : p \in branch[k].need
        names == NamesOf(n.props) \union UNION {DOMAIN branch[k].props : k \in DOMAIN branch}
        typed == {k \in DOMAIN branch : branch[k].type \notin {"", "null"}}
    IN [type  |-> IF n.type = "" /\ n.comp = "anyOf" /\ typed # {}
                    THEN branch[CHOOSE k \in typed : \A j \in typed : k <= j].type
                    ELSE n.type,
        says  |-> n.says \/ n.comp # "",
        need  |-> {p \in n.need \union UNION {branch[k].need : k \in listing} : needs(p)},
        props |-> [p \in names |->
                     IF having(p) = {} THEN Meaning(At(n.props, p), defs)
                     ELSE branch[CHOOSE k \in having(p) : \A j \in having(p) : j <= k].props[p]]]

RECURSIVE ComposesRefs(_)
ComposesRefs(n) ==
  \/ n.comp # "" /\ UNION {Mentions(e.node) : e \in Range(n.props)} # {}
  \/ \E p \in Range(n.parts) : ComposesRefs(p)
  \/ \E e \in Range(n.props) : ComposesRefs(e.node)

\* A sound document within the depth limit is resolved, whatever the order of
\* its keys and however often a definition is shared; what comes out stands
\* for what went in; and a document with a circular or missing definition is
\* never resolved halfway: either it is refused, or the reference at fault
\* stands beside a composition and is still there.  A reference survives only
\* beside a composition.
SchemaIsInlined ==
  (pc = "build" /\ Len(catalogue) = 1) =>
    LET doc == catalogue[1].schema
        built == ResolveRefs(doc)
        composed == \/ ComposesRefs(doc.root)
                    \/ \E e \in Range(doc.defs) : ComposesRefs(e.node)
    IN  doc.root.props # <<>> =>
         /\ Sound(doc) =>
              /\ built.error \in {"", "deep"}
              /\ (\A e \in Range(Append(doc.defs, Named("", doc.root))) :
                    Height(e.node, doc.defs) <= MaxDepth) => built.error = ""
              /\ built.error = "" => Meaning(built.out, doc.defs) = Meaning(doc.root, doc.defs)
         /\ ~composed =>
              /\ built.error = "" => Mentions(built.out) = {}
              /\ (built.error = "" /\ doc.root.comp = "" /\ ~IsRef(doc.root)) => Sound(doc)
=============================================================================
