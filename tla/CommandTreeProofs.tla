------------------------- MODULE CommandTreeProofs -------------------------
(***************************************************************************)
(* Proofs about the lazily built command tree, for every catalogue, filter *)
(* and sequence of registry errors, and about the input of the commands it *)
(* hands out, for every schema, command line and object on STDIN.          *)
(*                                                                         *)
(* The argument about the tree: the modules described are at all times     *)
(* those the registry defines up to some place of the catalogue. A pass    *)
(* over the catalogue that ends in a clash therefore ends at the same      *)
(* module as the next one, and a pass that does not clash is the last. So  *)
(* there is a place up to which the tree has been built once, "base", and  *)
(* it grows from nothing at most once; a pass that is under way has        *)
(* replaced the modules below its own position, and what it has not        *)
(* reached is as the pass before it left it. The commands handed out are   *)
(* those of the tree up to base.                                           *)
(*                                                                         *)
(* About the input: the collision map leaves every flag one owner, so      *)
(* click's reading of the arguments is not ambiguous; an option then gives *)
(* what was meant, up to the type of an enumeration's member, and a valid  *)
(* member's type is given back to it because no other is spelled like it.  *)
(*                                                                         *)
(* About composition: the recursive functions of Composition exist, being  *)
(* iterations of a step that keeps dicts dicts, and induction over entries *)
(* and branches, from the least counterexample, says what they come to.    *)
(***************************************************************************)
EXTENDS CommandLine, Composition, WellFoundedInduction, TLAPS

\* A command of the tree: at the top, in the group "", or in a group.
InTree(g, c) ==
  IF g = "" THEN c \in DOMAIN top ELSE g \in DOMAIN groups /\ c \in DOMAIN groups[g]
IdAt(g, c) == IF g = "" THEN top[c] ELSE groups[g][c]

\* Where a module goes, and the modules that go there.
GroupOf(m) == IF IsTop(m) THEN "" ELSE Resolve(m)[1]
NameOf(m)  == Resolve(m)[2]
Shown(k)   == catalogue[k].defined /\ IsExposed(catalogue[k])
Claimants(g, c) ==
  {k \in DOMAIN catalogue :
     Shown(k) /\ GroupOf(catalogue[k]) = g /\ NameOf(catalogue[k]) = c}

\* k is the last module below n that claims a place.
Last(k, g, c, n) ==
  k \in Claimants(g, c) /\ k < n /\ \A j \in Claimants(g, c) : j < n => j <= k

\* The tree after a pass up to base and the next one up to reached.
TreeBuilt(reached, base) ==
  /\ \A g, c : InTree(g, c) =>
       \E k \in DOMAIN catalogue :
         /\ catalogue[k].id = IdAt(g, c)
         /\ \/ Last(k, g, c, reached)
            \/ Last(k, g, c, base) /\ \A j \in Claimants(g, c) : j >= reached
  /\ \A k \in DOMAIN catalogue :
       (Shown(k) /\ (k < reached \/ k < base)) =>
         InTree(GroupOf(catalogue[k]), NameOf(catalogue[k]))

Positions == 1..(Len(catalogue) + 1)
DefinedBelow(n) == {catalogue[k].id : k \in {j \in DOMAIN catalogue : j < n /\ catalogue[j].defined}}

\* The modules below n are described.
DescribedInv(n) ==
  /\ described = DefinedBelow(n)
  /\ pc = "aliases" => i <= n
  /\ aliasBuilt => n = Len(catalogue) + 1

\* Where the pass before ended: before the first module, at a clash, or, when
\* the tree is declared built, with the modules described.
Passable(k) == Shown(k) => ~Clashes(catalogue[k])
BaseInv(n, base) ==
  /\ \A k \in DOMAIN catalogue : k < base => Passable(k)
  /\ groupBuilt => base = n /\ pc \in {"idle", "build", "serve"}
  /\ ~groupBuilt =>
       \/ base = 1
       \/ /\ base < n /\ base \in DOMAIN catalogue
          /\ Shown(base) /\ Clashes(catalogue[base])

Reached(n) == IF i < n THEN i ELSE n
PassInv(n, base) ==
  /\ pc = "place" => /\ base > 1 => i <= base
                     /\ TreeBuilt(Reached(n), base)
                     /\ \A k \in DOMAIN catalogue : k < Reached(n) => Passable(k)
  /\ pc # "place" => TreeBuilt(1, base)

\* A command that was handed out was the last to claim its place below base,
\* and a name that was handed out as a command was not a group's.
CacheInv(base) ==
  /\ \A c \in DOMAIN cmdCache :
       /\ \E k \in DOMAIN catalogue : catalogue[k].id = cmdCache[c] /\ Last(k, "", c, base)
       /\ \A k \in DOMAIN catalogue :
            (Shown(k) /\ k < base /\ GroupOf(catalogue[k]) # "") => GroupOf(catalogue[k]) # c
  /\ \A p \in DOMAIN memberCache :
       /\ p = <<p[1], p[2]>> /\ p[1] # ""
       /\ \E k \in DOMAIN catalogue :
            catalogue[k].id = memberCache[p] /\ Last(k, p[1], p[2], base)

RegistryInv == \E r \in Registries : catalogue = r.catalogue /\ filter = r.filter

GroupInv == \A g \in DOMAIN groups : g # "" /\ DOMAIN groups[g] # {}
TreeInv(n, base) == DescribedInv(n) /\ BaseInv(n, base) /\ PassInv(n, base) /\ CacheInv(base)

IInv ==
  /\ TypeOK /\ RegistryInv /\ GroupInv
  /\ \E n \in Positions, base \in Positions : TreeInv(n, base)
-----------------------------------------------------------------------------
(* Facts about the catalogue and the operators of the model. *)

\* The catalogue is a sequence, and an id is one module's.
LEMMA CatalogueFacts ==
  ASSUME RegistryInv
  PROVE  /\ Len(catalogue) \in Nat /\ DOMAIN catalogue = 1..Len(catalogue)
         /\ \A k \in DOMAIN catalogue : DOMAIN catalogue[k] = ModuleFields
         /\ \A j, k \in DOMAIN catalogue : catalogue[j].id = catalogue[k].id => j = k
         /\ \A k \in DOMAIN catalogue : ModuleAt(catalogue[k].id) = catalogue[k]
<1>1. /\ Len(catalogue) \in Nat /\ DOMAIN catalogue = 1..Len(catalogue)
      /\ \A k \in DOMAIN catalogue : DOMAIN catalogue[k] = ModuleFields
      /\ \A j, k \in DOMAIN catalogue : catalogue[j].id = catalogue[k].id => j = k
  BY RegistriesAssumption DEF RegistryInv
<1>2. ASSUME NEW k \in DOMAIN catalogue
      PROVE  ModuleAt(catalogue[k].id) = catalogue[k]
  <2>1. \A m \in Range(catalogue) : m.id = catalogue[k].id => m = catalogue[k]
    BY <1>1 DEF Range
  <2>2. catalogue[k] \in Range(catalogue)
    BY DEF Range
  <2>3. QED
    BY <2>1, <2>2 DEF ModuleAt
<1>3. QED
  BY <1>1, <1>2

\* A module goes to the top, or into the group it asks for.
LEMMA PlaceFacts ==
  ASSUME NEW m
  PROVE  /\ IsTop(m) => GroupOf(m) = ""
         /\ ~IsTop(m) => /\ Resolve(m) = <<GroupOf(m), NameOf(m)>>
                         /\ GroupOf(m) # "" /\ GroupOf(m) \in ShellSafe
<1>1. Resolve(m) = <<Resolve(m)[1], Resolve(m)[2]>>
  <2>1. CASE m.group \notin {"absent", ""} \/ m.group = ""
    BY <2>1 DEF Resolve
  <2>2. CASE m.group = "absent" /\ CliName(m) \in DOMAIN Split
    BY <2>2, SplitAssumption DEF Resolve
  <2>3. CASE m.group = "absent" /\ CliName(m) \notin DOMAIN Split
    BY <2>3 DEF Resolve
  <2>4. QED
    BY <2>1, <2>2, <2>3
<1>2. QED
  BY <1>1 DEF GroupOf, NameOf, IsTop

\* Placing a module takes its place for it and leaves the others alone.
LEMMA PlacedFacts ==
  ASSUME GroupInv, NEW m, Placed(m)
  PROVE  /\ GroupInv'
         /\ \A g, c : InTree(g, c)' <=> InTree(g, c) \/ (g = GroupOf(m) /\ c = NameOf(m))
         /\ \A g, c : InTree(g, c)' =>
              IdAt(g, c)' = IF g = GroupOf(m) /\ c = NameOf(m) THEN m.id ELSE IdAt(g, c)
         /\ DOMAIN top \subseteq DOMAIN top' /\ DOMAIN groups \subseteq DOMAIN groups'
<1> DEFINE g == Resolve(m)[1]
           c == Resolve(m)[2]
           old == IF g \in DOMAIN groups THEN groups[g] ELSE <<>>
<1>1. CASE IsTop(m)
  <2>1. /\ groups' = groups /\ GroupOf(m) = "" /\ NameOf(m) = c
        /\ top' = [x \in DOMAIN top \union {c} |-> IF x = c THEN m.id ELSE top[x]]
    BY <1>1 DEF Placed, Put, GroupOf, NameOf
  <2>2. DOMAIN top' = DOMAIN top \union {c} /\ \A x \in DOMAIN top' : top'[x] = IF x = c THEN m.id ELSE top[x]
    BY <2>1
  <2> HIDE DEF c
  <2>3. GroupInv'
    BY <2>1 DEF GroupInv
  <2>4. \A h, x : InTree(h, x)' <=> InTree(h, x) \/ (h = GroupOf(m) /\ x = NameOf(m))
    BY <2>1, <2>2 DEF InTree
  <2>5. \A h, x : InTree(h, x)' =>
          IdAt(h, x)' = IF h = GroupOf(m) /\ x = NameOf(m) THEN m.id ELSE IdAt(h, x)
    BY <2>1, <2>2 DEF InTree, IdAt
  <2>6. QED
    BY <2>1, <2>2, <2>3, <2>4, <2>5
<1>2. CASE ~IsTop(m)
  <2>1. /\ top' = top /\ GroupOf(m) = g /\ NameOf(m) = c /\ g # ""
        /\ groups' = Put(groups, g, Put(old, c, m.id))
    BY <1>2 DEF Placed, GroupOf, NameOf, IsTop
  <2>2. DOMAIN old = IF g \in DOMAIN groups THEN DOMAIN groups[g] ELSE {}
    OBVIOUS
  <2>3. \A x \in DOMAIN old : g \in DOMAIN groups /\ old[x] = groups[g][x]
    OBVIOUS
  <2> HIDE DEF g, c, old
  <2>4. /\ DOMAIN groups' = DOMAIN groups \union {g}
        /\ groups'[g] = Put(old, c, m.id)
        /\ \A h \in DOMAIN groups : h # g => groups'[h] = groups[h]
    BY <2>1 DEF Put
  <2>5. /\ DOMAIN groups'[g] = DOMAIN old \union {c}
        /\ groups'[g][c] = m.id
        /\ \A x \in DOMAIN old : x # c => groups'[g][x] = old[x]
    BY <2>4 DEF Put
  <2>6. GroupInv'
    BY <2>1, <2>4, <2>5 DEF GroupInv
  <2>7. ASSUME NEW h, NEW x
        PROVE  InTree(h, x)' <=> InTree(h, x) \/ (h = GroupOf(m) /\ x = NameOf(m))
    <3>1. CASE h = ""
      BY <2>1, <3>1 DEF InTree
    <3>2. CASE h # "" /\ h # g
      BY <2>1, <2>4, <3>2 DEF InTree
    <3>3. CASE h = g
      BY <2>1, <2>2, <2>4, <2>5, <3>3 DEF InTree
    <3>4. QED
      BY <3>1, <3>2, <3>3
  <2>8. ASSUME NEW h, NEW x, InTree(h, x)'
        PROVE  IdAt(h, x)' = IF h = GroupOf(m) /\ x = NameOf(m) THEN m.id ELSE IdAt(h, x)
    <3>1. CASE h = ""
      BY <2>1, <3>1 DEF IdAt
    <3>2. CASE h # "" /\ h # g
      BY <2>1, <2>4, <2>8, <3>2 DEF IdAt, InTree
    <3>3. CASE h = g /\ x = c
      BY <2>1, <2>5, <3>3 DEF IdAt
    <3>4. CASE h = g /\ x # c
      BY <2>1, <2>3, <2>5, <2>8, <3>4 DEF IdAt, InTree
    <3>5. QED
      BY <3>1, <3>2, <3>3, <3>4
  <2>9. QED
    BY <2>1, <2>4, <2>6, <2>7, <2>8
<1>3. QED
  BY <1>1, <1>2
-----------------------------------------------------------------------------
(* Passes over the catalogue. *)

treeState == <<catalogue, filter, groups, top>>

\* Steps that leave the catalogue and the tree alone leave what is said of
\* them.
LEMMA TreeAside ==
  ASSUME UNCHANGED treeState, NEW reached, NEW base
  PROVE  /\ TreeBuilt(reached, base)' <=> TreeBuilt(reached, base)
         /\ GroupInv' <=> GroupInv
  BY DEF TreeBuilt, InTree, IdAt, Last, Claimants, Shown, IsExposed, GroupInv, treeState

\* A round over a module that is not shown.
LEMMA PassOver ==
  ASSUME RegistryInv, NEW k \in DOMAIN catalogue, NEW base \in Positions, ~Shown(k),
         TreeBuilt(k, base)
  PROVE  TreeBuilt(k + 1, base)
<1>0. DOMAIN catalogue \subseteq Nat /\ Positions \subseteq Nat
  BY CatalogueFacts DEF Positions
<1>1. \A g, c : k \notin Claimants(g, c)
  BY DEF Claimants
<1>2. \A g, c : \A j \in Claimants(g, c) : j \in DOMAIN catalogue /\ j # k
  BY <1>1 DEF Claimants
<1>3. ASSUME NEW g, NEW c, NEW j, Last(j, g, c, k)
      PROVE  Last(j, g, c, k + 1)
  BY <1>0, <1>2, <1>3 DEF Last
<1>4. ASSUME NEW g, NEW c, \A j \in Claimants(g, c) : j >= k
      PROVE  \A j \in Claimants(g, c) : j >= k + 1
  BY <1>0, <1>2, <1>4
<1>5. ASSUME NEW g, NEW c, InTree(g, c)
      PROVE  \E l \in DOMAIN catalogue :
               /\ catalogue[l].id = IdAt(g, c)
               /\ \/ Last(l, g, c, k + 1)
                  \/ Last(l, g, c, base) /\ \A j \in Claimants(g, c) : j >= k + 1
  BY <1>3, <1>4, <1>5 DEF TreeBuilt
<1>6. \A l \in DOMAIN catalogue : l < k + 1 /\ Shown(l) => l < k
  BY <1>0
<1>7. QED
  BY <1>5, <1>6 DEF TreeBuilt

\* A round that places a module.
LEMMA PlaceOne ==
  ASSUME RegistryInv, GroupInv, NEW k \in DOMAIN catalogue, NEW base \in Positions, Shown(k),
         TreeBuilt(k, base), Placed(catalogue[k]), UNCHANGED registryVars
  PROVE  TreeBuilt(k + 1, base)'
<1> DEFINE m == catalogue[k]
<1>0. DOMAIN catalogue \subseteq Nat /\ Positions \subseteq Nat
  BY CatalogueFacts DEF Positions
<1>1. /\ \A g, c : InTree(g, c)' <=> InTree(g, c) \/ (g = GroupOf(m) /\ c = NameOf(m))
      /\ \A g, c : InTree(g, c)' =>
           IdAt(g, c)' = IF g = GroupOf(m) /\ c = NameOf(m) THEN m.id ELSE IdAt(g, c)
  <2> HIDE DEF m
  <2>1. QED
    BY PlacedFacts DEF m
<1>2. /\ catalogue' = catalogue
      /\ \A j \in DOMAIN catalogue : Shown(j)' <=> Shown(j)
      /\ \A g, c : Claimants(g, c)' = Claimants(g, c)
      /\ \A l, g, c, n : Last(l, g, c, n)' <=> Last(l, g, c, n)
  BY DEF registryVars, Shown, IsExposed, Claimants, Last
<1>3. \A g, c : Claimants(g, c) \subseteq DOMAIN catalogue
  BY DEF Claimants
<1>4. ASSUME NEW g, NEW c, InTree(g, c)'
      PROVE  \E l \in DOMAIN catalogue :
               /\ catalogue[l].id = IdAt(g, c)'
               /\ \/ Last(l, g, c, k + 1)
                  \/ Last(l, g, c, base) /\ \A j \in Claimants(g, c) : j >= k + 1
  <2>1. CASE g = GroupOf(m) /\ c = NameOf(m)
    <3>1. k \in Claimants(g, c)
      BY <2>1 DEF Claimants
    <3>2. Last(k, g, c, k + 1)
      BY <1>0, <1>3, <3>1 DEF Last
    <3>3. QED
      BY <1>1, <1>4, <2>1, <3>2
  <2>2. CASE ~(g = GroupOf(m) /\ c = NameOf(m))
    <3>1. k \notin Claimants(g, c)
      BY <2>2 DEF Claimants
    <3>2. PICK l \in DOMAIN catalogue :
            /\ catalogue[l].id = IdAt(g, c)
            /\ \/ Last(l, g, c, k)
               \/ Last(l, g, c, base) /\ \A j \in Claimants(g, c) : j >= k
      BY <1>1, <1>4, <2>2 DEF TreeBuilt
    <3>3. Last(l, g, c, k) => Last(l, g, c, k + 1)
      BY <1>0, <1>3, <3>1 DEF Last
    <3>4. (\A j \in Claimants(g, c) : j >= k) => \A j \in Claimants(g, c) : j >= k + 1
      BY <1>0, <1>3, <3>1
    <3>5. QED
      BY <1>1, <1>4, <2>2, <3>2, <3>3, <3>4
  <2>3. QED
    BY <2>1, <2>2
<1>5. ASSUME NEW l \in DOMAIN catalogue, Shown(l), l < k + 1 \/ l < base,
             NEW g, g = GroupOf(catalogue[l]), NEW c, c = NameOf(catalogue[l])
      PROVE  InTree(g, c)'
  <2>1. CASE l = k
    BY <1>1, <1>5, <2>1
  <2>2. CASE l # k
    <3>1. l < k \/ l < base
      BY <1>0, <1>5, <2>2
    <3>2. InTree(g, c)
      BY <1>5, <3>1 DEF TreeBuilt
    <3>3. QED
      BY <1>1, <3>2
  <2>3. QED
    BY <2>1, <2>2
<1>6. ASSUME NEW l \in DOMAIN catalogue', Shown(l)', l < k + 1 \/ l < base
      PROVE  InTree(GroupOf(catalogue[l]), NameOf(catalogue[l]))'
  <2>1. \A g, c : g = GroupOf(catalogue[l]) /\ c = NameOf(catalogue[l]) => InTree(g, c)'
    BY <1>2, <1>5, <1>6
  <2>2. QED
    BY <1>2, <2>1 DEF InTree
<1>7. QED
  BY <1>2, <1>4, <1>6 DEF TreeBuilt

\* A pass that starts anew, and one that has caught up with the pass before it
\* or is the first, has built the tree of one pass.
LEMMA PassStarts ==
  ASSUME RegistryInv, NEW n \in Positions, NEW base \in Positions
  PROVE  /\ (TreeBuilt(n, base) /\ (base = 1 \/ base = n)) => TreeBuilt(1, n)
         /\ TreeBuilt(1, base) =>
              \A g, c : InTree(g, c) =>
                \E k \in DOMAIN catalogue : catalogue[k].id = IdAt(g, c) /\ Last(k, g, c, base)
<1>0. /\ DOMAIN catalogue \subseteq Nat \ {0} /\ Positions \subseteq Nat \ {0}
      /\ \A g, c : Claimants(g, c) \subseteq DOMAIN catalogue
  BY CatalogueFacts DEF Positions, Claimants
<1>1. \A k, g, c : ~Last(k, g, c, 1)
  BY <1>0 DEF Last
<1>2. \A g, c : \A j \in Claimants(g, c) : j >= 1
  BY <1>0
<1>3. ASSUME TreeBuilt(n, base), base = 1 \/ base = n
      PROVE  TreeBuilt(1, n)
  <2>1. ASSUME NEW g, NEW c, InTree(g, c)
        PROVE  \E k \in DOMAIN catalogue :
                 catalogue[k].id = IdAt(g, c) /\ Last(k, g, c, n)
    BY <1>1, <1>3, <2>1 DEF TreeBuilt
  <2>2. \A k \in DOMAIN catalogue : ~(k < 1)
    BY <1>0
  <2>3. QED
    BY <1>2, <1>3, <2>1, <2>2 DEF TreeBuilt
<1>4. QED
  BY <1>1, <1>3 DEF TreeBuilt
-----------------------------------------------------------------------------
(* The invariant holds at first and across every step. *)

\* What is said of the catalogue does not change, and what is said of the
\* caches does not while the caches stand.
LEMMA RegistryAside ==
  ASSUME UNCHANGED registryVars
  PROVE  /\ Positions' = Positions /\ Ids' = Ids
         /\ RegistryInv' <=> RegistryInv
         /\ \A n : DefinedBelow(n)' = DefinedBelow(n)
         /\ \A k \in DOMAIN catalogue : /\ Shown(k)' <=> Shown(k)
                                        /\ Passable(k)' <=> Passable(k)
         /\ \A k, g, c, n : Last(k, g, c, n)' <=> Last(k, g, c, n)
  BY DEF registryVars, Positions, Ids, RegistryInv, DefinedBelow, Shown,
         IsExposed, Passable, Last, Claimants

LEMMA CachesAside ==
  ASSUME UNCHANGED <<registryVars, cmdCache, memberCache>>, NEW base
  PROVE  CacheInv(base)' <=> CacheInv(base)
  BY DEF registryVars, CacheInv, Last, Claimants, Shown, IsExposed

\* Nothing was handed out from a tree that was never built.
LEMMA NothingHandedOut ==
  ASSUME RegistryInv, CacheInv(1), NEW base
  PROVE  CacheInv(base)
<1>1. \A k, g, c : ~Last(k, g, c, 1)
  BY CatalogueFacts DEF Last, Claimants
<1>2. DOMAIN cmdCache = {} /\ DOMAIN memberCache = {}
  BY <1>1 DEF CacheInv
<1>3. QED
  BY <1>2 DEF CacheInv

\* A module is described when the registry has it and the alias map got to it.
LEMMA DescribedFacts ==
  ASSUME RegistryInv, NEW n \in Positions, DescribedInv(n), NEW k \in DOMAIN catalogue
  PROVE  catalogue[k].id \in described <=> catalogue[k].defined /\ k < n
  BY CatalogueFacts DEF DescribedInv, DefinedBelow

LEMMA InvInit == Init => IInv
<1> SUFFICES ASSUME Init
             PROVE  IInv
  OBVIOUS
<1>0. RegistryInv
  BY DEF Init, RegistryInv
<1>1. /\ Len(catalogue) \in Nat /\ DOMAIN catalogue = 1..Len(catalogue)
      /\ \A k \in DOMAIN catalogue : DOMAIN catalogue[k] = ModuleFields
  BY <1>0, CatalogueFacts
<1>2. /\ DOMAIN groups = {} /\ DOMAIN top = {} /\ DOMAIN aliases = {}
      /\ DOMAIN cmdCache = {} /\ DOMAIN memberCache = {}
  BY DEF Init
<1>3. TypeOK
  <2>1. filter.mode \in {"all", "include", "exclude", "none"}
    BY RegistriesAssumption DEF Init
  <2>2. i \in 1..(Len(catalogue) + 1) /\ groupCache = {} /\ described = {}
    BY <1>1 DEF Init
  <2>3. /\ pc \in {"idle", "build", "aliases", "list", "place", "serve"}
        /\ asked \in Names \union {"*"} /\ aliasBuilt \in BOOLEAN /\ groupBuilt \in BOOLEAN
    BY DEF Init
  <2>4. QED
    BY <1>1, <1>2, <2>1, <2>2, <2>3 DEF TypeOK
<1>4. GroupInv
  BY <1>2 DEF GroupInv
<1>5. 1 \in Positions
  BY <1>1 DEF Positions
<1>6. \A k \in DOMAIN catalogue : ~(k < 1)
  BY <1>1
<1>7. DescribedInv(1)
  BY <1>6 DEF DescribedInv, DefinedBelow, Init
<1>8. BaseInv(1, 1)
  BY <1>6 DEF BaseInv, Init
<1>9. PassInv(1, 1)
  BY <1>2, <1>6 DEF PassInv, TreeBuilt, InTree, Init
<1>10. CacheInv(1)
  BY <1>2 DEF CacheInv
<1>11. QED
  BY <1>0, <1>3, <1>4, <1>5, <1>7, <1>8, <1>9, <1>10 DEF IInv, TreeInv

LEMMA InvAsk ==
  ASSUME IInv, Ask
  PROVE  IInv'
<1>1. PICK n \in Positions, base \in Positions : TreeInv(n, base)
  BY DEF IInv
<1>2. UNCHANGED registryVars /\ UNCHANGED treeState
  BY DEF Ask, registryVars, treeVars, treeState
<1>3. TypeOK'
  BY DEF IInv, TypeOK, Ask, registryVars, aliasVars, treeVars, cacheVars, Ids
<1>4. RegistryInv' /\ GroupInv'
  BY <1>2, RegistryAside, TreeAside DEF IInv
<1>5. DescribedInv(n)'
  BY <1>1, <1>2, RegistryAside DEF TreeInv, DescribedInv, Ask, aliasVars, registryVars
<1>6. BaseInv(n, base)'
  BY <1>1, <1>2, RegistryAside DEF TreeInv, BaseInv, Ask, treeVars, registryVars
<1>7. PassInv(n, base)'
  BY <1>1, <1>2, TreeAside DEF TreeInv, PassInv, Ask
<1>8. CacheInv(base)'
  BY <1>1, CachesAside DEF TreeInv, Ask, cacheVars
<1>9. QED
  BY <1>2, <1>3, <1>4, <1>5, <1>6, <1>7, <1>8, RegistryAside DEF IInv, TreeInv

LEMMA InvStartBuild ==
  ASSUME IInv, StartBuild
  PROVE  IInv'
<1>1. PICK n \in Positions, base \in Positions : TreeInv(n, base)
  BY DEF IInv
<1>2. UNCHANGED registryVars /\ UNCHANGED treeState
  BY DEF StartBuild, registryVars, treeVars, treeState
<1>3. Len(catalogue) \in Nat /\ n >= 1
  BY CatalogueFacts DEF IInv, Positions
<1>4. TypeOK'
  BY <1>3 DEF IInv, TypeOK, StartBuild, registryVars, aliasVars, treeVars, cacheVars, Ids
<1>5. RegistryInv' /\ GroupInv'
  BY <1>2, RegistryAside, TreeAside DEF IInv
<1>6. DescribedInv(n)'
  BY <1>1, <1>2, <1>3, RegistryAside
     DEF TreeInv, DescribedInv, StartBuild, aliasVars, registryVars
<1>7. BaseInv(n, base)'
  BY <1>1, <1>2, RegistryAside DEF TreeInv, BaseInv, StartBuild, treeVars, registryVars
<1>8. PassInv(n, base)'
  BY <1>1, <1>2, TreeAside DEF TreeInv, PassInv, StartBuild
<1>9. CacheInv(base)'
  BY <1>1, CachesAside DEF TreeInv, StartBuild, cacheVars
<1>10. QED
  BY <1>2, <1>4, <1>5, <1>6, <1>7, <1>8, <1>9, RegistryAside DEF IInv, TreeInv

LEMMA InvDescribeModule ==
  ASSUME IInv, DescribeModule
  PROVE  IInv'
<1>1. PICK n \in Positions, base \in Positions : TreeInv(n, base)
  BY DEF IInv
<1> DEFINE m == catalogue[i]
<1>2. UNCHANGED registryVars /\ UNCHANGED treeState
  BY DEF DescribeModule, registryVars, treeVars, treeState
<1>3. /\ Len(catalogue) \in Nat /\ DOMAIN catalogue = 1..Len(catalogue)
      /\ Positions = 1..(Len(catalogue) + 1)
  BY CatalogueFacts DEF IInv, Positions
<1>4. i \in DOMAIN catalogue /\ i <= n /\ ~groupBuilt
  <2>1. pc = "aliases" /\ i <= Len(catalogue) /\ i \in 1..(Len(catalogue) + 1)
    BY DEF IInv, TypeOK, DescribeModule
  <2>2. QED
    BY <1>1, <1>3, <2>1 DEF TreeInv, DescribedInv, BaseInv
<1>5. PICK next \in Positions : next = (IF i = n THEN n + 1 ELSE n) /\ n <= next
  BY <1>3, <1>4
<1>6. DefinedBelow(next) = IF m.defined THEN DefinedBelow(n) \union {m.id} ELSE DefinedBelow(n)
  <2>1. CASE i = n
    <3>1. {j \in DOMAIN catalogue : j < n + 1 /\ catalogue[j].defined} =
            {j \in DOMAIN catalogue : j < n /\ catalogue[j].defined}
              \union (IF m.defined THEN {i} ELSE {})
      BY <1>3, <1>4, <2>1
    <3>2. QED
      BY <1>5, <2>1, <3>1 DEF DefinedBelow
  <2>2. CASE i # n
    <3>1. i < n
      BY <1>3, <1>4, <2>2
    <3>2. m.defined => m.id \in DefinedBelow(n)
      BY <1>4, <3>1 DEF DefinedBelow
    <3>3. QED
      BY <1>5, <2>2, <3>2
  <2>3. QED
    BY <2>1, <2>2
<1>7. described \subseteq described' /\ described' \subseteq described \union {m.id}
  BY DEF DescribeModule
<1>8. /\ i' \in {i, i + 1} /\ pc' \in {"aliases", "list"} /\ asked' = asked
      /\ \A a \in DOMAIN aliases' : aliases'[a] \in described'
  BY DEF IInv, TypeOK, DescribeModule, Put
<1>9. TypeOK'
  <2>1. m.id \in Ids
    BY <1>4 DEF Ids
  <2>2. described' \subseteq Ids'
    BY <1>2, <1>7, <2>1, RegistryAside DEF IInv, TypeOK
  <2>3. i' \in 1..(Len(catalogue) + 1)
    BY <1>3, <1>4, <1>8
  <2>4. aliasBuilt' \in BOOLEAN
    BY DEF IInv, TypeOK, DescribeModule
  <2>5. UNCHANGED <<registryVars, asked, treeVars, cacheVars>>
    BY DEF DescribeModule
  <2> HIDE DEF m
  <2>6. QED
    BY <1>8, <2>2, <2>3, <2>4, <2>5
       DEF IInv, TypeOK, registryVars, treeVars, cacheVars, Ids
<1>10. RegistryInv' /\ GroupInv'
  BY <1>2, RegistryAside, TreeAside DEF IInv
<1>11. CacheInv(base)'
  BY <1>1, CachesAside DEF TreeInv, DescribeModule, cacheVars
<1>12. PassInv(n, base)' /\ PassInv(next, base)'
  BY <1>1, <1>2, <1>8, TreeAside DEF TreeInv, PassInv, DescribeModule
<1>13. BaseInv(n, base)' /\ BaseInv(next, base)'
  <2>0. groupBuilt' = groupBuilt
    BY DEF DescribeModule, treeVars
  <2>1. base < n => base < next
    BY <1>3, <1>5 DEF Positions
  <2>2. QED
    BY <1>1, <1>2, <1>4, <2>1, <2>0, RegistryAside DEF TreeInv, BaseInv, registryVars
<1>14. aliasBuilt => next = Len(catalogue) + 1 /\ n = Len(catalogue) + 1
  BY <1>1, <1>3, <1>4, <1>5 DEF TreeInv, DescribedInv
<1>15. described = DefinedBelow(n)
  BY <1>1 DEF TreeInv, DescribedInv
<1>16. DescribedInv(next)' \/ DescribedInv(n)'
  <2>1. CASE i' = i + 1
    <3>1. i' # i
      BY <1>3, <1>4, <2>1
    <3>2. described' = IF m.defined THEN described \union {m.id} ELSE described
      BY <3>1 DEF DescribeModule
    <3>3. described' = DefinedBelow(next)
      BY <1>6, <1>15, <3>2
    <3>4. i' <= next
      BY <1>3, <1>4, <1>5, <2>1
    <3>5. QED
      BY <1>2, <1>14, <3>3, <3>4, RegistryAside DEF DescribedInv, DescribeModule, registryVars
  <2>2. CASE i' = i
    <3>1. i' # i + 1
      BY <1>3, <1>4, <2>2
    <3>2. pc' = "list" /\ described' = described
      BY <3>1 DEF DescribeModule
    <3>3. QED
      BY <1>2, <1>14, <1>15, <3>2, RegistryAside DEF DescribedInv, DescribeModule, registryVars
  <2>3. QED
    BY <1>8, <2>1, <2>2
<1>17. QED
  BY <1>2, <1>5, <1>9, <1>10, <1>11, <1>12, <1>13, <1>16, RegistryAside DEF IInv, TreeInv

LEMMA InvEndAliases ==
  ASSUME IInv, EndAliases
  PROVE  IInv'
<1>1. PICK n \in Positions, base \in Positions : TreeInv(n, base)
  BY DEF IInv
<1>2. UNCHANGED registryVars /\ UNCHANGED treeState
  BY DEF EndAliases, registryVars, treeVars, treeState
<1>3. n = Len(catalogue) + 1 /\ ~groupBuilt
  BY <1>1, CatalogueFacts
     DEF IInv, TypeOK, EndAliases, TreeInv, DescribedInv, BaseInv, Positions
<1>4. TypeOK'
  BY DEF IInv, TypeOK, EndAliases, registryVars, treeVars, cacheVars, Ids
<1>5. RegistryInv' /\ GroupInv'
  BY <1>2, RegistryAside, TreeAside DEF IInv
<1>6. DescribedInv(n)'
  BY <1>1, <1>2, <1>3, RegistryAside DEF TreeInv, DescribedInv, EndAliases, registryVars
<1>7. BaseInv(n, base)'
  BY <1>1, <1>2, <1>3, RegistryAside DEF TreeInv, BaseInv, EndAliases, treeVars, registryVars
<1>8. PassInv(n, base)'
  BY <1>1, <1>2, TreeAside DEF TreeInv, PassInv, EndAliases
<1>9. CacheInv(base)'
  BY <1>1, CachesAside DEF TreeInv, EndAliases, cacheVars
<1>10. QED
  BY <1>2, <1>4, <1>5, <1>6, <1>7, <1>8, <1>9, RegistryAside DEF IInv, TreeInv

LEMMA InvListAgain ==
  ASSUME IInv, ListAgain
  PROVE  IInv'
<1>1. PICK n \in Positions, base \in Positions : TreeInv(n, base)
  BY DEF IInv
<1>2. UNCHANGED registryVars /\ UNCHANGED treeState
  BY DEF ListAgain, registryVars, treeVars, treeState
<1>3. /\ Len(catalogue) \in Nat /\ DOMAIN catalogue \subseteq Nat \ {0}
      /\ n \in Nat /\ n >= 1 /\ base \in Nat
  BY CatalogueFacts DEF IInv, Positions
<1>4. TypeOK'
  BY <1>3 DEF IInv, TypeOK, ListAgain, registryVars, aliasVars, treeVars, cacheVars, Ids
<1>5. RegistryInv' /\ GroupInv'
  BY <1>2, RegistryAside, TreeAside DEF IInv
<1>6. DescribedInv(n)'
  BY <1>1, <1>2, RegistryAside DEF TreeInv, DescribedInv, ListAgain, aliasVars, registryVars
<1>7. BaseInv(n, base)'
  BY <1>1, <1>2, RegistryAside DEF TreeInv, BaseInv, ListAgain, treeVars, registryVars
<1>8. PassInv(n, base)'
  <2>1. TreeBuilt(1, base)'
    BY <1>1, <1>2, TreeAside DEF TreeInv, PassInv, ListAgain
  <2>2. i' = 1 /\ Reached(n)' = 1
    BY <1>3 DEF ListAgain, Reached
  <2>3. \A k \in DOMAIN catalogue' : ~(k < 1)
    BY <1>2, <1>3 DEF registryVars
  <2>4. base > 1 => i' <= base
    BY <1>3, <2>2
  <2>5. QED
    BY <2>1, <2>2, <2>3, <2>4 DEF PassInv
<1>9. CacheInv(base)'
  BY <1>1, CachesAside DEF TreeInv, ListAgain, cacheVars
<1>10. QED
  BY <1>2, <1>4, <1>5, <1>6, <1>7, <1>8, <1>9, RegistryAside DEF IInv, TreeInv

\* One round of the group map: the module is passed over, clashes or is placed.
LEMMA InvPlaceModule ==
  ASSUME IInv, PlaceModule
  PROVE  IInv'
<1>1. PICK n \in Positions, base \in Positions : TreeInv(n, base)
  BY DEF IInv
<1> DEFINE m == catalogue[i]
<1>2. UNCHANGED <<registryVars, asked, aliasVars, groupBuilt, cacheVars>> /\ pc = "place"
  BY DEF PlaceModule
<1>3. /\ Len(catalogue) \in Nat /\ DOMAIN catalogue = 1..Len(catalogue)
      /\ Positions = 1..(Len(catalogue) + 1) /\ i \in DOMAIN catalogue
  BY CatalogueFacts DEF IInv, TypeOK, PlaceModule, Positions
<1>4. /\ ~groupBuilt /\ TreeBuilt(Reached(n), base) /\ (base > 1 => i <= base)
      /\ \A k \in DOMAIN catalogue : k < Reached(n) => Passable(k)
      /\ \A k \in DOMAIN catalogue : k < base => Passable(k)
      /\ base = 1 \/ (base < n /\ Shown(base) /\ Clashes(catalogue[base]))
  BY <1>1, <1>2 DEF TreeInv, BaseInv, PassInv
<1>5. m.id \in described /\ IsExposed(m) <=> Shown(i) /\ i < n
  BY <1>1, <1>3, DescribedFacts DEF IInv, TreeInv, Shown
<1>6. DescribedInv(n)'
  <2>1. pc' # "aliases"
    BY <1>2 DEF PlaceModule
  <2>2. QED
    BY <1>1, <1>2, <2>1, RegistryAside DEF TreeInv, DescribedInv, aliasVars, registryVars
<1>7. CacheInv(base)' /\ RegistryInv' /\ Positions' = Positions
  BY <1>1, <1>2, CachesAside, RegistryAside DEF IInv, TreeInv, cacheVars
<1>8. CASE ~(m.id \in described /\ IsExposed(m))
  <2>1. i' = i + 1 /\ UNCHANGED <<pc, groups, top>>
    BY <1>8 DEF PlaceModule
  <2>2. UNCHANGED treeState
    BY <1>2, <2>1 DEF treeState, registryVars
  <2>3. TypeOK'
    <3>1. i' \in 1..(Len(catalogue) + 1)
      BY <1>3, <2>1
    <3>2. QED
      BY <1>2, <2>1, <3>1 DEF IInv, TypeOK, registryVars, aliasVars, cacheVars, Ids
  <2>4. BaseInv(n, base)'
    BY <1>1, <1>2, <2>1, RegistryAside DEF TreeInv, BaseInv, registryVars
  <2>5. PassInv(n, base)'
    <3>1. CASE i < n
      <4>1. PICK k \in DOMAIN catalogue : k = i
        BY <1>3
      <4>2. ~Shown(k) /\ Reached(n) = k /\ Passable(k)
        BY <1>5, <1>8, <3>1, <4>1 DEF Reached, Passable
      <4>3. TreeBuilt(k + 1, base)'
        <5>1. TreeBuilt(k + 1, base)
          BY <1>3, <1>4, <4>2, PassOver DEF IInv
        <5>2. QED
          BY <2>2, <5>1, TreeAside
      <4>4. Reached(n)' = k + 1
        BY <1>3, <2>1, <3>1, <4>1 DEF Reached
      <4>5. base > 1 => i' <= base
        BY <1>3, <1>4, <2>1, <4>1, <4>2
      <4>6. \A j \in DOMAIN catalogue : j < k + 1 => Passable(j)
        BY <1>3, <1>4, <4>2
      <4>7. \A j \in DOMAIN catalogue' : j < k + 1 => Passable(j)'
        BY <1>2, <4>6, RegistryAside DEF registryVars
      <4>8. QED
        BY <1>2, <2>1, <4>3, <4>4, <4>5, <4>7 DEF PassInv
    <3>2. CASE ~(i < n)
      <4>1. Reached(n) = n /\ Reached(n)' = n
        BY <1>3, <2>1, <3>2 DEF Reached
      <4>2. base = 1
        BY <1>3, <1>4, <3>2
      <4>3. TreeBuilt(n, base)'
        BY <1>4, <2>2, <4>1, TreeAside
      <4>4. \A k \in DOMAIN catalogue' : k < n => Passable(k)'
        BY <1>2, <1>4, <4>1, RegistryAside DEF registryVars
      <4>5. QED
        BY <1>2, <2>1, <4>1, <4>2, <4>3, <4>4 DEF PassInv
    <3>3. QED
      BY <3>1, <3>2
  <2>6. GroupInv'
    BY <2>2, TreeAside DEF IInv
  <2>7. QED
    BY <1>6, <1>7, <2>3, <2>4, <2>5, <2>6 DEF IInv, TreeInv
<1>9. CASE m.id \in described /\ IsExposed(m) /\ Clashes(m)
  <2>1. pc' = "idle" /\ UNCHANGED <<i, groups, top>>
    BY <1>9 DEF PlaceModule
  <2>2. UNCHANGED treeState
    BY <1>2, <2>1 DEF treeState, registryVars
  <2>3. TypeOK'
    BY <1>2, <2>1 DEF IInv, TypeOK, registryVars, aliasVars, cacheVars, Ids
  <2>4. Shown(i) /\ i < n /\ Reached(n) = i /\ ~Passable(i)
    BY <1>5, <1>9 DEF Reached, Passable
  <2>5. PICK b \in Positions : b = i
    BY <1>3
  <2>6. base = 1 \/ base = b
    BY <1>3, <1>4, <2>4, <2>5
  <2>7. TreeBuilt(1, b)
    BY <1>4, <2>4, <2>5, <2>6, PassStarts DEF IInv
  <2>8. BaseInv(n, b)'
    <3>1. /\ \A k \in DOMAIN catalogue : k < b => Passable(k)
          /\ b < n /\ b \in DOMAIN catalogue /\ Shown(b) /\ Clashes(catalogue[b])
      BY <1>3, <1>4, <1>9, <2>4, <2>5
    <3>2. \A k \in DOMAIN catalogue' : k < b => Passable(k)'
      BY <1>2, <3>1, RegistryAside DEF registryVars
    <3>3. b \in DOMAIN catalogue' /\ Shown(b)' /\ Clashes(catalogue'[b])
      BY <1>2, <3>1, RegistryAside DEF registryVars
    <3>4. QED
      BY <1>2, <1>4, <3>1, <3>2, <3>3 DEF BaseInv
  <2>9. PassInv(n, b)'
    BY <2>1, <2>2, <2>7, TreeAside DEF PassInv
  <2>10. CacheInv(b)'
    <3>1. CacheInv(b)
      BY <1>1, <2>6, NothingHandedOut DEF IInv, TreeInv
    <3>2. QED
      BY <1>2, <3>1, CachesAside DEF cacheVars
  <2>11. GroupInv'
    BY <2>2, TreeAside DEF IInv
  <2>12. QED
    BY <1>6, <1>7, <2>3, <2>8, <2>9, <2>10, <2>11 DEF IInv, TreeInv
<1>10. CASE m.id \in described /\ IsExposed(m) /\ ~Clashes(m)
  <2>1. i' = i + 1 /\ pc' = pc /\ Placed(m)
    BY <1>10 DEF PlaceModule
  <2>2. Shown(i) /\ i < n /\ Reached(n) = i /\ Passable(i)
    BY <1>5, <1>10 DEF Reached, Passable
  <2> HIDE DEF m
  <2>3. /\ GroupInv'
        /\ \A g, c : InTree(g, c)' => InTree(g, c) \/ (g = GroupOf(m) /\ c = NameOf(m))
        /\ \A g, c : InTree(g, c)' =>
             IdAt(g, c)' = IF g = GroupOf(m) /\ c = NameOf(m) THEN m.id ELSE IdAt(g, c)
        /\ DOMAIN top \subseteq DOMAIN top' /\ DOMAIN groups \subseteq DOMAIN groups'
    BY <2>1, PlacedFacts DEF IInv
  <2>4. TypeOK'
    <3>1. m.id \in Ids
      BY <1>3 DEF Ids, m
    <3>2. \A g, c : InTree(g, c)' => IdAt(g, c)' \in Ids
      BY <2>3, <3>1 DEF IInv, TypeOK, InTree, IdAt
    <3>3. \A c \in DOMAIN top' : top'[c] \in Ids
      BY <3>2 DEF InTree, IdAt
    <3>4. \A g \in DOMAIN groups' : \A c \in DOMAIN groups'[g] : groups'[g][c] \in Ids
      BY <2>3, <3>2 DEF InTree, IdAt, GroupInv
    <3>5. i' \in 1..(Len(catalogue) + 1)
      BY <1>3, <2>1
    <3>6. QED
      BY <1>2, <2>1, <2>3, <3>3, <3>4, <3>5
         DEF IInv, TypeOK, registryVars, aliasVars, cacheVars, Ids
  <2>5. BaseInv(n, base)'
    BY <1>1, <1>2, <2>1, RegistryAside DEF TreeInv, BaseInv, registryVars
  <2>6. PICK k \in DOMAIN catalogue : k = i
    BY <1>3
  <2>7. TreeBuilt(k + 1, base)'
    BY <1>2, <1>3, <1>4, <2>1, <2>2, <2>6, PlaceOne DEF IInv, m
  <2>8. PassInv(n, base)'
    <3>1. Reached(n)' = k + 1
      BY <1>3, <2>1, <2>2, <2>6 DEF Reached
    <3>2. base > 1 => i' <= base
      BY <1>3, <1>4, <1>10, <2>1 DEF m
    <3>3. \A j \in DOMAIN catalogue : j < k + 1 => Passable(j)
      BY <1>3, <1>4, <2>2, <2>6
    <3>4. \A j \in DOMAIN catalogue' : j < k + 1 => Passable(j)'
      BY <1>2, <3>3, RegistryAside DEF registryVars
    <3>5. QED
      BY <1>2, <2>1, <2>7, <3>1, <3>2, <3>4 DEF PassInv
  <2>9. QED
    BY <1>6, <1>7, <2>3, <2>4, <2>5, <2>8 DEF IInv, TreeInv
<1>11. QED
  BY <1>8, <1>9, <1>10

\* A pass that reaches the end is the first that was not abandoned by a clash,
\* and the tree it leaves is the one that stays.
LEMMA InvEndPlacing ==
  ASSUME IInv, EndPlacing
  PROVE  IInv'
<1>1. PICK n \in Positions, base \in Positions : TreeInv(n, base)
  BY DEF IInv
<1>2. UNCHANGED registryVars /\ UNCHANGED treeState
  BY DEF EndPlacing, registryVars, treeState
<1>3. i = Len(catalogue) + 1 /\ Len(catalogue) \in Nat /\ Positions = 1..(Len(catalogue) + 1)
  BY CatalogueFacts DEF IInv, TypeOK, EndPlacing, Positions
<1>4. Reached(n) = n
  BY <1>3 DEF Reached
<1>5. base = 1 /\ TreeBuilt(n, base) /\ \A k \in DOMAIN catalogue : k < n => Passable(k)
  BY <1>1, <1>3, <1>4 DEF EndPlacing, TreeInv, BaseInv, PassInv
<1>6. TypeOK'
  BY DEF IInv, TypeOK, EndPlacing, registryVars, aliasVars, cacheVars, Ids
<1>7. RegistryInv' /\ GroupInv'
  BY <1>2, RegistryAside, TreeAside DEF IInv
<1>8. DescribedInv(n)'
  BY <1>1, <1>2, RegistryAside DEF TreeInv, DescribedInv, EndPlacing, aliasVars, registryVars
<1>9. BaseInv(n, n)'
  BY <1>2, <1>5, RegistryAside DEF BaseInv, EndPlacing, registryVars
<1>10. PassInv(n, n)'
  <2>1. TreeBuilt(1, n)
    BY <1>5, PassStarts DEF IInv
  <2>2. QED
    BY <1>2, <2>1, TreeAside DEF PassInv, EndPlacing
<1>11. CacheInv(n)'
  <2>1. CacheInv(n)
    BY <1>1, <1>5, NothingHandedOut DEF IInv, TreeInv
  <2>2. QED
    BY <2>1, CachesAside DEF EndPlacing, cacheVars
<1>12. QED
  BY <1>2, <1>6, <1>7, <1>8, <1>9, <1>10, <1>11, RegistryAside DEF IInv, TreeInv

LEMMA InvServe ==
  ASSUME IInv, Serve
  PROVE  IInv'
<1>1. PICK n \in Positions, base \in Positions : TreeInv(n, base)
  BY DEF IInv
<1>2. UNCHANGED registryVars /\ UNCHANGED treeState /\ UNCHANGED <<aliasVars, groupBuilt, memberCache>>
  BY DEF Serve, registryVars, treeVars, treeState
<1>3. Len(catalogue) \in Nat /\ pc = "serve" /\ pc' = "idle" /\ i' = 1 /\ asked' = "*"
  BY CatalogueFacts DEF IInv, Serve
<1>4. \/ UNCHANGED cmdCache
      \/ /\ asked \in DOMAIN top \ DOMAIN groups
         /\ cmdCache' = Put(cmdCache, asked, top[asked])
  BY DEF Serve
<1>5. /\ groupCache \subseteq groupCache' /\ groupCache' \subseteq DOMAIN groups
      /\ DOMAIN cmdCache' \subseteq DOMAIN top
  <2>1. groupCache' = groupCache \/ (asked \in DOMAIN groups /\ groupCache' = groupCache \union {asked})
    BY DEF Serve
  <2>2. QED
    BY <1>4, <2>1 DEF IInv, TypeOK, Put
<1>6. TypeOK'
  BY <1>2, <1>3, <1>5 DEF IInv, TypeOK, registryVars, aliasVars, treeState, Ids
<1>7. RegistryInv' /\ GroupInv'
  BY <1>2, RegistryAside, TreeAside DEF IInv
<1>8. DescribedInv(n)'
  BY <1>1, <1>2, <1>3, RegistryAside DEF TreeInv, DescribedInv, aliasVars, registryVars
<1>9. BaseInv(n, base)'
  BY <1>1, <1>2, <1>3, RegistryAside DEF TreeInv, BaseInv, registryVars
<1>10. PassInv(n, base)'
  BY <1>1, <1>2, <1>3, TreeAside DEF TreeInv, PassInv
<1>11. CacheInv(base)'
  <2>1. CASE UNCHANGED cmdCache
    BY <1>1, <1>2, <2>1, CachesAside DEF TreeInv
  <2>2. CASE /\ asked \in DOMAIN top \ DOMAIN groups
             /\ cmdCache' = Put(cmdCache, asked, top[asked])
    <3>1. TreeBuilt(1, base) /\ CacheInv(base)
      BY <1>1, <1>3 DEF TreeInv, PassInv
    <3>2. \E k \in DOMAIN catalogue : catalogue[k].id = top[asked] /\ Last(k, "", asked, base)
      <4>1. InTree("", asked) /\ IdAt("", asked) = top[asked]
        BY <2>2 DEF InTree, IdAt
      <4>2. QED
        BY <3>1, <4>1, PassStarts DEF IInv
    <3>3. \A k \in DOMAIN catalogue :
            (Shown(k) /\ k < base /\ GroupOf(catalogue[k]) # "") => GroupOf(catalogue[k]) # asked
      BY <2>2, <3>1 DEF TreeBuilt, InTree
    <3>4. /\ DOMAIN cmdCache' = DOMAIN cmdCache \union {asked}
          /\ \A c \in DOMAIN cmdCache' : cmdCache'[c] = IF c = asked THEN top[asked] ELSE cmdCache[c]
      BY <2>2 DEF Put
    <3>5. \A c \in DOMAIN cmdCache' :
            /\ \E k \in DOMAIN catalogue : catalogue[k].id = cmdCache'[c] /\ Last(k, "", c, base)
            /\ \A k \in DOMAIN catalogue :
                 (Shown(k) /\ k < base /\ GroupOf(catalogue[k]) # "") => GroupOf(catalogue[k]) # c
      BY <3>1, <3>2, <3>3, <3>4 DEF CacheInv
    <3>6. QED
      BY <1>2, <3>1, <3>5, RegistryAside DEF CacheInv, registryVars
  <2>3. QED
    BY <1>4, <2>1, <2>2
<1>12. QED
  BY <1>2, <1>6, <1>7, <1>8, <1>9, <1>10, <1>11, RegistryAside DEF IInv, TreeInv

LEMMA InvServeMember ==
  ASSUME IInv, ServeMember
  PROVE  IInv'
<1>1. PICK n \in Positions, base \in Positions : TreeInv(n, base)
  BY DEF IInv
<1>2. /\ UNCHANGED <<registryVars, pc, i, asked, aliasVars, treeVars, groupCache, cmdCache>>
      /\ UNCHANGED registryVars /\ UNCHANGED treeState /\ pc = "idle"
  BY DEF ServeMember, registryVars, treeVars, treeState
<1>3. PICK g, c :
        /\ g \in groupCache /\ c \in DOMAIN groups[g]
        /\ memberCache' \in {memberCache, Put(memberCache, <<g, c>>, groups[g][c])}
  BY DEF ServeMember
<1>4. /\ g \in DOMAIN groups /\ g # "" /\ InTree(g, c) /\ IdAt(g, c) = groups[g][c]
      /\ <<g, c>>[1] = g /\ <<g, c>>[2] = c
  BY <1>3 DEF IInv, TypeOK, GroupInv, InTree, IdAt
<1>5. /\ \A p \in DOMAIN memberCache' : p \in DOMAIN memberCache \/ p = <<g, c>>
      /\ \A p \in DOMAIN memberCache' :
           \/ p \in DOMAIN memberCache /\ memberCache'[p] = memberCache[p]
           \/ p = <<g, c>> /\ memberCache'[p] = groups[g][c]
  BY <1>3 DEF Put
<1>6. TypeOK'
  <2>1. \A p \in DOMAIN memberCache' : p[1] \in groupCache
    BY <1>3, <1>4, <1>5 DEF IInv, TypeOK
  <2>2. QED
    BY <1>2, <2>1 DEF IInv, TypeOK, registryVars, aliasVars, treeVars, Ids
<1>7. RegistryInv' /\ GroupInv'
  BY <1>2, RegistryAside, TreeAside DEF IInv
<1>8. DescribedInv(n)'
  BY <1>1, <1>2, RegistryAside DEF TreeInv, DescribedInv, aliasVars, registryVars
<1>9. BaseInv(n, base)'
  BY <1>1, <1>2, RegistryAside DEF TreeInv, BaseInv, treeVars, registryVars
<1>10. PassInv(n, base)'
  BY <1>1, <1>2, TreeAside DEF TreeInv, PassInv
<1>11. CacheInv(base)'
  <2>1. TreeBuilt(1, base) /\ CacheInv(base)
    BY <1>1, <1>2 DEF TreeInv, PassInv
  <2>2. \E k \in DOMAIN catalogue : catalogue[k].id = groups[g][c] /\ Last(k, g, c, base)
    BY <1>4, <2>1, PassStarts DEF IInv
  <2>3. ASSUME NEW p \in DOMAIN memberCache'
        PROVE  /\ p = <<p[1], p[2]>> /\ p[1] # ""
               /\ \E k \in DOMAIN catalogue :
                    catalogue[k].id = memberCache'[p] /\ Last(k, p[1], p[2], base)
    <3>1. CASE p \in DOMAIN memberCache /\ memberCache'[p] = memberCache[p]
      BY <2>1, <3>1 DEF CacheInv
    <3>2. CASE p = <<g, c>> /\ memberCache'[p] = groups[g][c]
      <4>1. p[1] = g /\ p[2] = c
        BY <3>2
      <4>2. QED
        BY <1>4, <2>2, <3>2, <4>1
    <3>3. QED
      BY <1>5, <3>1, <3>2
  <2>4. QED
    BY <1>2, <2>1, <2>3, RegistryAside DEF CacheInv, registryVars
<1>12. QED
  BY <1>2, <1>6, <1>7, <1>8, <1>9, <1>10, <1>11, RegistryAside DEF IInv, TreeInv

LEMMA InvStutter ==
  ASSUME IInv, UNCHANGED vars
  PROVE  IInv'
<1>1. PICK n \in Positions, base \in Positions : TreeInv(n, base)
  BY DEF IInv
<1>2. /\ UNCHANGED <<registryVars, pc, i, asked, aliasVars, treeVars, cacheVars>>
      /\ UNCHANGED registryVars /\ UNCHANGED treeState
  BY DEF vars, registryVars, treeVars, treeState
<1>3. TypeOK'
  BY <1>2 DEF IInv, TypeOK, registryVars, aliasVars, treeVars, cacheVars, Ids
<1>4. RegistryInv' /\ GroupInv'
  BY <1>2, RegistryAside, TreeAside DEF IInv
<1>5. DescribedInv(n)'
  BY <1>1, <1>2, RegistryAside DEF TreeInv, DescribedInv, aliasVars, registryVars
<1>6. BaseInv(n, base)'
  BY <1>1, <1>2, RegistryAside DEF TreeInv, BaseInv, treeVars, registryVars
<1>7. PassInv(n, base)'
  <2>1. Reached(n)' = Reached(n)
    BY <1>2 DEF Reached
  <2>2. \A r : TreeBuilt(r, base)' <=> TreeBuilt(r, base)
    BY <1>2, TreeAside
  <2>3. PICK r : r = Reached(n)
    OBVIOUS
  <2>4. TreeBuilt(Reached(n), base)' <=> TreeBuilt(r, base)'
    BY <2>1, <2>3 DEF TreeBuilt, Last, InTree, IdAt, Claimants, Shown, IsExposed
  <2>5. QED
    BY <1>1, <1>2, <2>1, <2>2, <2>3, <2>4, RegistryAside DEF TreeInv, PassInv, registryVars
<1>8. CacheInv(base)'
  BY <1>1, <1>2, CachesAside DEF TreeInv, cacheVars
<1>9. QED
  BY <1>2, <1>3, <1>4, <1>5, <1>6, <1>7, <1>8, RegistryAside DEF IInv, TreeInv

\* One step of the tree keeps the invariant.
LEMMA InvNext ==
  ASSUME IInv, [Next]_vars
  PROVE  IInv'
BY InvAsk, InvStartBuild, InvDescribeModule, InvEndAliases, InvListAgain,
   InvPlaceModule, InvEndPlacing, InvServe, InvServeMember, InvStutter DEF Next

\* The catalogue stays, and whatever registry calls fail, the tree is that of
\* the passes over the described modules.
THEOREM TreeInvariant == Spec => []IInv
<1>1. IInv /\ [Next]_vars => IInv'
  BY InvNext
<1>2. QED
  BY <1>1, InvInit, PTL DEF Spec
-----------------------------------------------------------------------------
(* What follows from the invariant. *)

\* The caches of the tree have the types the lookups rely on.
THEOREM TreeTypes == Spec => []TypeOK
<1>1. IInv => TypeOK
  BY DEF IInv
<1>2. QED
  BY <1>1, TreeInvariant, PTL

\* get_command hands out, under a name, the module whose overlay declares it,
\* whatever the registry failed at before.
THEOREM OverlaysRule == Spec => []ServedAsDeclared
<1>1. IInv => ServedAsDeclared
  <2> SUFFICES ASSUME IInv
               PROVE  ServedAsDeclared
    OBVIOUS
  <2>1. PICK base \in Positions : CacheInv(base)
    BY DEF IInv, TreeInv
  <2>2. ASSUME NEW k \in DOMAIN catalogue, NEW g, NEW c, Last(k, g, c, base)
        PROVE  /\ ModuleAt(catalogue[k].id) = catalogue[k]
               /\ catalogue[k].defined /\ IsExposed(catalogue[k])
               /\ GroupOf(catalogue[k]) = g /\ NameOf(catalogue[k]) = c
    BY <2>2, CatalogueFacts DEF IInv, Last, Claimants, Shown
  <2>3. ASSUME NEW c \in DOMAIN cmdCache
        PROVE  LET m == ModuleAt(cmdCache[c])
               IN  m.defined /\ IsExposed(m) /\ IsTop(m) /\ Resolve(m)[2] = c
    <3>1. PICK k \in DOMAIN catalogue : catalogue[k].id = cmdCache[c] /\ Last(k, "", c, base)
      BY <2>1 DEF CacheInv
    <3>2. /\ ModuleAt(cmdCache[c]) = catalogue[k]
          /\ catalogue[k].defined /\ IsExposed(catalogue[k])
          /\ GroupOf(catalogue[k]) = "" /\ NameOf(catalogue[k]) = c
      BY <2>2, <3>1
    <3>3. IsTop(catalogue[k])
      BY <3>2, PlaceFacts
    <3>4. QED
      BY <3>2, <3>3 DEF NameOf
  <2>4. ASSUME NEW p \in DOMAIN memberCache
        PROVE  LET m == ModuleAt(memberCache[p])
               IN  m.defined /\ IsExposed(m) /\ Resolve(m) = p /\ p[1] \in ShellSafe
    <3>1. /\ p = <<p[1], p[2]>> /\ p[1] # ""
          /\ \E k \in DOMAIN catalogue :
               catalogue[k].id = memberCache[p] /\ Last(k, p[1], p[2], base)
      BY <2>1 DEF CacheInv
    <3>2. PICK k \in DOMAIN catalogue : catalogue[k].id = memberCache[p] /\ Last(k, p[1], p[2], base)
      BY <3>1
    <3>3. /\ ModuleAt(memberCache[p]) = catalogue[k]
          /\ catalogue[k].defined /\ IsExposed(catalogue[k])
          /\ GroupOf(catalogue[k]) = p[1] /\ NameOf(catalogue[k]) = p[2]
      BY <2>2, <3>2
    <3>4. Resolve(catalogue[k]) = p /\ p[1] \in ShellSafe
      BY <3>1, <3>3, PlaceFacts
    <3>5. QED
      BY <3>3, <3>4
  <2>5. QED
    BY <2>3, <2>4 DEF ServedAsDeclared
<1>2. QED
  BY <1>1, TreeInvariant, PTL

\* A tree that was built from a registry that answered holds every exposed
\* module's place, and the last claim of each.
THEOREM TreeHoldsAll == Spec => []TreeIsComplete
<1>1. IInv => TreeIsComplete
  <2> SUFFICES ASSUME IInv, groupBuilt, aliasBuilt
               PROVE  /\ \A c \in DOMAIN top : LastClaim("", c, top[c])
                      /\ \A g \in DOMAIN groups : \A c \in DOMAIN groups[g] :
                           LastClaim(g, c, groups[g][c])
                      /\ \A k \in DOMAIN catalogue :
                           LET m == catalogue[k]
                               c == Resolve(m)[2]
                           IN  (m.defined /\ IsExposed(m)) =>
                                 IF IsTop(m) THEN c \in DOMAIN top
                                 ELSE /\ Resolve(m)[1] \in DOMAIN groups
                                      /\ c \in DOMAIN groups[Resolve(m)[1]]
    BY DEF TreeIsComplete
  <2>1. PICK end \in Positions : end = Len(catalogue) + 1 /\ TreeBuilt(1, end)
    BY DEF IInv, TreeInv, DescribedInv, BaseInv, PassInv
  <2>2. Len(catalogue) \in Nat /\ DOMAIN catalogue = 1..Len(catalogue)
    BY CatalogueFacts DEF IInv
  <2>3. ASSUME NEW k \in DOMAIN catalogue, NEW g, NEW c
        PROVE  k \in Claimants(g, c) <=> Claims(k, g, c)
    BY PlaceFacts DEF Claimants, Claims, Shown, GroupOf, NameOf
  <2>4. ASSUME NEW g, NEW c, InTree(g, c)
        PROVE  LastClaim(g, c, IdAt(g, c))
    <3>1. PICK k \in DOMAIN catalogue : catalogue[k].id = IdAt(g, c) /\ Last(k, g, c, end)
      BY <2>1, <2>4, PassStarts DEF IInv
    <3>2. Claims(k, g, c) /\ \A j \in DOMAIN catalogue : Claims(j, g, c) => j <= k
      BY <2>1, <2>2, <2>3, <3>1 DEF Last
    <3>3. QED
      BY <3>1, <3>2 DEF LastClaim
  <2>5. \A c \in DOMAIN top : LastClaim("", c, top[c])
    BY <2>4 DEF InTree, IdAt
  <2>6. \A g \in DOMAIN groups : \A c \in DOMAIN groups[g] : LastClaim(g, c, groups[g][c])
    BY <2>4 DEF IInv, GroupInv, InTree, IdAt
  <2>7. \A k \in DOMAIN catalogue : Shown(k) => InTree(GroupOf(catalogue[k]), NameOf(catalogue[k]))
    BY <2>1, <2>2 DEF TreeBuilt
  <2>8. ASSUME NEW k \in DOMAIN catalogue, Shown(k)
        PROVE  IF IsTop(catalogue[k]) THEN NameOf(catalogue[k]) \in DOMAIN top
               ELSE /\ Resolve(catalogue[k])[1] \in DOMAIN groups
                    /\ NameOf(catalogue[k]) \in DOMAIN groups[Resolve(catalogue[k])[1]]
    <3>1. CASE IsTop(catalogue[k])
      BY <2>7, <2>8, <3>1 DEF InTree, GroupOf
    <3>2. CASE ~IsTop(catalogue[k])
      BY <2>7, <2>8, <3>2, PlaceFacts DEF InTree, GroupOf
    <3>3. QED
      BY <3>1, <3>2
  <2>9. QED
    BY <2>5, <2>6, <2>8 DEF Shown, NameOf
<1>2. QED
  BY <1>1, TreeInvariant, PTL

\* Between lookups, a command handed out earlier is the one that help and
\* completion still show under its name.
THEOREM CachesKeepUp == Spec => []CachesAgree
<1>1. IInv => CachesAgree
  <2> SUFFICES ASSUME IInv, pc = "idle"
               PROVE  /\ \A c \in DOMAIN cmdCache : cmdCache[c] = top[c] /\ c \notin DOMAIN groups
                      /\ \A p \in DOMAIN memberCache : memberCache[p] = groups[p[1]][p[2]]
    BY DEF CachesAgree
  <2>1. PICK base \in Positions : CacheInv(base) /\ TreeBuilt(1, base)
    BY DEF IInv, TreeInv, PassInv
  <2>2. ASSUME NEW g, NEW c, InTree(g, c), NEW k \in DOMAIN catalogue, Last(k, g, c, base)
        PROVE  catalogue[k].id = IdAt(g, c)
    <3>1. PICK j \in DOMAIN catalogue : catalogue[j].id = IdAt(g, c) /\ Last(j, g, c, base)
      BY <2>1, <2>2, PassStarts DEF IInv
    <3>2. j <= k /\ k <= j /\ j \in Nat /\ k \in Nat
      BY <2>2, <3>1, CatalogueFacts DEF IInv, Last
    <3>3. QED
      BY <3>1, <3>2
  <2>3. ASSUME NEW c \in DOMAIN cmdCache
        PROVE  cmdCache[c] = top[c] /\ c \notin DOMAIN groups
    <3>1. PICK k \in DOMAIN catalogue : catalogue[k].id = cmdCache[c] /\ Last(k, "", c, base)
      BY <2>1 DEF CacheInv
    <3>2. cmdCache[c] = top[c]
      BY <2>2, <3>1 DEF IInv, TypeOK, InTree, IdAt
    <3>3. ASSUME c \in DOMAIN groups
          PROVE  FALSE
      <4>1. PICK x : x \in DOMAIN groups[c]
        BY <3>3 DEF IInv, GroupInv
      <4>2. InTree(c, x) /\ c # ""
        BY <3>3, <4>1 DEF IInv, GroupInv, InTree
      <4>3. PICK j \in DOMAIN catalogue : Last(j, c, x, base)
        BY <2>1, <4>2, PassStarts DEF IInv
      <4>4. Shown(j) /\ j < base /\ GroupOf(catalogue[j]) = c
        BY <4>3 DEF Last, Claimants
      <4>5. QED
        BY <2>1, <4>2, <4>4 DEF CacheInv
    <3>4. QED
      BY <3>2, <3>3
  <2>4. ASSUME NEW p \in DOMAIN memberCache
        PROVE  memberCache[p] = groups[p[1]][p[2]]
    <3>1. /\ p[1] # ""
          /\ \E k \in DOMAIN catalogue :
               catalogue[k].id = memberCache[p] /\ Last(k, p[1], p[2], base)
      BY <2>1 DEF CacheInv
    <3>2. PICK k \in DOMAIN catalogue : catalogue[k].id = memberCache[p] /\ Last(k, p[1], p[2], base)
      BY <3>1
    <3>3. Shown(k) /\ k < base /\ GroupOf(catalogue[k]) = p[1] /\ NameOf(catalogue[k]) = p[2]
      BY <3>2 DEF Last, Claimants
    <3>4. InTree(p[1], p[2])
      BY <2>1, <3>3 DEF TreeBuilt
    <3>5. catalogue[k].id = IdAt(p[1], p[2])
      BY <2>2, <3>2, <3>4
    <3>6. QED
      BY <3>1, <3>2, <3>5 DEF IdAt
  <2>5. QED
    BY <2>3, <2>4
<1>2. QED
  BY <1>1, TreeInvariant, PTL
-----------------------------------------------------------------------------
(* The command line: the input of a command that the tree handed out.      *)

\* What was handed out is a module's command.
HandedInv == \A id \in HandedOut : id \in Ids /\ IsBuilt(id)

\* The input is that of a command, from its invocation to its answer.
InputInv ==
  /\ stage = "none" =>
       /\ schema = Blank /\ argv = Empty /\ stdin = Empty
       /\ readable = TRUE /\ received = Empty /\ status = 0
  /\ stage # "none" =>
       /\ \E k \in DOMAIN catalogue :
            LET built == Built(catalogue[k].schema)
            IN  built.status = 0 /\ schema = built.schema
       /\ argv \in Argvs(schema.props)
       /\ DOMAIN stdin \subseteq NamesOf(schema.props)
  /\ stage = "typed" => received = Empty /\ status = 0

LineIInv == IInv /\ HandedInv /\ LineTypeOK /\ InputInv /\ ModuleGetsWhatWasMeant

\* The properties of a schema that options were made of have names and flags
\* of their own.
LEMMA FlagsAreOwned ==
  ASSUME NEW props, ~FlagsClash(props), \A e \in Range(props) : e.name \in DOMAIN Flag
  PROVE  /\ \A j, k \in DOMAIN props : props[j].name = props[k].name => j = k
         /\ \A j, k \in DOMAIN props : \A f :
              f \in FlagsOf(props[j]) /\ f \in FlagsOf(props[k]) => j = k
         /\ \A k \in DOMAIN props : NoFlag[props[k].name] # Flag[props[k].name]
<1>1. \A k \in DOMAIN props : props[k].name \in DOMAIN Flag
  BY DEF Range
<1>2. ASSUME NEW j \in DOMAIN props, NEW k \in DOMAIN props, NEW f,
             f \in FlagsOf(props[j]), f \in FlagsOf(props[k]), j # k
      PROVE  FALSE
  <2>1. CASE f = Flag[props[j].name] /\ f = Flag[props[k].name]
    BY <1>2, <2>1 DEF FlagsClash
  <2>2. CASE f = Flag[props[j].name] /\ IsSwitch(props[k].node) /\ f = NoFlag[props[k].name]
    BY <1>2, <2>2 DEF FlagsClash
  <2>3. CASE f = Flag[props[k].name] /\ IsSwitch(props[j].node) /\ f = NoFlag[props[j].name]
    BY <1>2, <2>3 DEF FlagsClash
  <2>4. CASE f = NoFlag[props[j].name] /\ f = NoFlag[props[k].name]
    <3>1. Flag[props[j].name] = Flag[props[k].name]
      BY <1>1, <2>4, FlagsAssumption
    <3>2. QED
      BY <1>2, <3>1 DEF FlagsClash
  <2>5. QED
    BY <1>2, <2>1, <2>2, <2>3, <2>4 DEF FlagsOf
<1>3. ASSUME NEW j \in DOMAIN props, NEW k \in DOMAIN props,
             props[j].name = props[k].name, j # k
      PROVE  FALSE
  BY <1>3 DEF FlagsClash
<1>4. QED
  BY <1>1, <1>2, <1>3, FlagsAssumption

LEMMA SchemaFacts ==
  ASSUME IInv, InputInv, stage # "none"
  PROVE  IsSchema(schema) /\ ~FlagsClash(schema.props)
<1>1. PICK k \in DOMAIN catalogue : Built(catalogue[k].schema).status = 0
                                  /\ schema = Built(catalogue[k].schema).schema
  BY DEF InputInv
<1>2. IsSchema(schema)
  BY <1>1, BuildsAssumption DEF IInv, RegistryInv
<1>3. \A resolved : Outcome(resolved).status = 0 => ~FlagsClash(Outcome(resolved).schema.props)
  BY DEF Outcome
<1>4. QED
  BY <1>1, <1>2, <1>3 DEF Built

\* The last member of an enumeration that is spelled so is one of those.
LEMMA LastSpelledFacts ==
  ASSUME NEW enum \in Seq(Scalars), NEW s, \E v \in Range(enum) : v[2] = s
  PROVE  LastSpelled(enum, s) \in Range(enum) /\ LastSpelled(enum, s)[2] = s
<1> DEFINE named == {j \in DOMAIN enum : enum[j][2] = s}
           above == {Len(enum) - j : j \in named}
           below == {ss \in Nat \X Nat : ss[1] < ss[2]}
<1>1. Len(enum) \in Nat /\ DOMAIN enum = 1..Len(enum)
  OBVIOUS
<1>2. above \in SUBSET Nat /\ above # {}
  BY <1>1 DEF Range
<1>3. PICK n \in above : \A m \in above : ~(<<m, n>> \in below)
  <2> HIDE DEF below, above
  <2>1. IsWellFoundedOn(below, Nat)
    BY NatLessThanWellFounded, Zenon DEF OpToRel, below
  <2>2. QED
    BY <1>2, <2>1, WFMin
<1>4. PICK j \in named : n = Len(enum) - j
  OBVIOUS
<1>5. ASSUME NEW k \in named PROVE k <= j
  <2>1. Len(enum) - k \in above /\ k \in Nat /\ j \in Nat
    BY <1>1
  <2>2. ~(Len(enum) - k < Len(enum) - j)
    BY <1>2, <1>3, <1>4, <2>1
  <2>3. QED
    BY <1>1, <2>1, <2>2
<1>6. LastSpelled(enum, s) \in {enum[k] : k \in named}
  <2> HIDE DEF named
  <2>1. \E k \in named : \A m \in named : m <= k
    BY <1>5
  <2>2. QED
    BY <2>1 DEF LastSpelled, named
<1>7. QED
  BY <1>6 DEF Range

\* The value of a property in the input that collect_input returns, before the
\* types of the enumerations are given back; Absent when there is none.
ValueOf(entry, option) ==
  IF option # Absent THEN option
  ELSE IF entry.name \in DOMAIN stdin THEN stdin[entry.name] ELSE Absent

ValueAt(props, owner, k) == ValueOf(props[k], OptionValue(props, owner, k))

\* A member of an enumeration, or its spelling, is retyped to that member.
LEMMA RetypedFacts ==
  ASSUME NEW enum \in Seq(Scalars), NEW v \in Range(enum), NEW value,
         \A u, w \in Range(enum) : u[2] = w[2] => u = w,
         value = v \/ value = <<"str", v[2]>>
  PROVE  Retyped(enum, value) = v
<1>1. v = <<v[1], v[2]>>
  BY DEF Range, Scalars
<1>2. value[2] = v[2]
  BY <1>1
<1>3. LastSpelled(enum, value[2]) = v
  <2>1. \E u \in Range(enum) : u[2] = value[2]
    BY <1>2
  <2>2. /\ LastSpelled(enum, value[2]) \in Range(enum)
        /\ LastSpelled(enum, value[2])[2] = value[2]
    BY <2>1, LastSpelledFacts
  <2>3. QED
    BY <1>2, <2>2
<1>4. v[1] = "str" => value = v
  BY <1>1
<1>5. QED
  BY <1>3, <1>4 DEF Retyped

\* What a value of JSON is converted to: a scalar, if it is converted at all.
LEMMA CastFacts ==
  ASSUME NEW node, NEW value, value \in JsonValues
  PROVE  Cast(node, value) \in Scalars \union Failures
<1>1. value = <<value[1], value[2]>> /\ value[2] \in Spellings
  BY DEF JsonValues, Scalars
<1>2. <<"str", value[2]>> \in Scalars
  BY <1>1 DEF Scalars
<1>3. value \notin {Absent, Null}
  BY <1>1 DEF JsonValues, Scalars, Absent, Null
<1>4. OptionType(node) # "string" => <<OptionType(node), value>> \in {"integer", "number", "boolean"} \X JsonValues
  BY DEF OptionType
<1>5. OptionType(node) # "string" => Reading[<<OptionType(node), value>>] \in Scalars \union Failures
  BY <1>4, ReadingAssumption
<1>6. QED
  BY <1>2, <1>3, <1>5 DEF Cast, Failures

\* A value of JSON is a value, and no failure.
LEMMA ValueFacts ==
  /\ \A v \in JsonValues : v = <<v[1], v[2]>> /\ v \notin {Absent, Null} /\ v \notin Failures
  /\ Scalars \subseteq JsonValues
  /\ \A t : <<"str", t>> \notin Failures \union {Absent, Null}
  /\ \A t : <<"bool", t>> \notin Failures \union {Absent, Null}
  /\ Absent # Null /\ Absent \notin Failures /\ Null \notin Failures
<1>1. ASSUME NEW v \in JsonValues
      PROVE  v = <<v[1], v[2]>> /\ v[1] \in {"str", "int", "float", "bool", "list", "dict"}
  BY DEF JsonValues, Scalars
<1>2. \A v \in JsonValues : v \notin {Absent, Null} /\ v \notin Failures
  BY <1>1 DEF Absent, Null, Failures, Refused, Raises
<1>3. QED
  BY <1>1, <1>2 DEF JsonValues, Absent, Null, Failures, Refused, Raises

\* What an option that nobody typed holds, when its default stays.
LEMMA UnsetFacts ==
  ASSUME NEW node, node.default \in JsonValues \union {Absent, Null}, DefaultStays(node)
  PROVE  Unset(node) =
           IF IsSwitch(node) /\ node.default = Absent THEN <<"bool", "False">>
           ELSE IF node.default \in {Absent, Null} THEN Absent
           ELSE IF IsChoice(node) THEN <<"str", node.default[2]>>
           ELSE node.default
<1>1. CASE node.default \in {Absent, Null}
  BY <1>1 DEF Unset, Cast
<1>2. CASE node.default \notin {Absent, Null} /\ IsChoice(node)
  <2>1. node.default \in Range(node.enum)
    BY <1>2 DEF DefaultStays
  <2>2. Spelled(node, node.default[2]) # {}
    BY <2>1 DEF Spelled
  <2>3. QED
    BY <1>2, <2>2 DEF Unset, Cast
<1>3. CASE node.default \notin {Absent, Null} /\ ~IsChoice(node)
  BY <1>3 DEF Unset, DefaultStays
<1>4. QED
  BY <1>1, <1>2, <1>3

\* The value of an option whose flags are its own.
OptionOf(entry) ==
  IF Flag[entry.name] \in DOMAIN argv
    THEN IF IsSwitch(entry.node) THEN <<"bool", "True">>
         ELSE Argument(entry.node, argv[Flag[entry.name]])
  ELSE IF IsSwitch(entry.node) /\ NoFlag[entry.name] \in DOMAIN argv THEN <<"bool", "False">>
  ELSE Unset(entry.node)

LEMMA OptionIsItsOwn ==
  ASSUME NEW props, NEW owner,
         \A e \in Range(props) : e.name \in DOMAIN Flag,
         ~FlagsClash(props),
         \A f \in DOMAIN argv : owner[f] \in DOMAIN props /\ f \in FlagsOf(props[owner[f]])
  PROVE  \A k \in DOMAIN props : OptionValue(props, owner, k) = OptionOf(props[k])
<1> TAKE k \in DOMAIN props
<1>1. \A f \in DOMAIN argv : f \in FlagsOf(props[k]) => owner[f] = k
  BY FlagsAreOwned
<1>2. /\ Flag[props[k].name] \in FlagsOf(props[k])
      /\ IsSwitch(props[k].node) => NoFlag[props[k].name] \in FlagsOf(props[k])
  BY DEF FlagsOf
<1>3. QED
  BY <1>1, <1>2 DEF OptionValue, OptionOf

\* One option: what click, the object on STDIN and the default of the schema
\* make of it is what was meant, up to the type of an enumeration's member.
LEMMA OptionFacts ==
  ASSUME NEW entry,
         entry.node.default \in JsonValues \union {Absent, Null},
         entry.node.enum \in Seq(Scalars),
         \A f \in DOMAIN argv : argv[f] \in Spellings,
         \A d \in DOMAIN stdin : stdin[d] \in JsonValues,
         Unmistakable(entry),
         NEW option, option = OptionOf(entry), option \notin Failures
  PROVE  /\ ValueOf(entry, option) = Absent <=> Meant(entry) = Absent
         /\ ~IsChoice(entry.node) => ValueOf(entry, option) = Meant(entry)
         /\ Meant(entry) # Absent =>
              ValueOf(entry, option) \in {Meant(entry), <<"str", Meant(entry)[2]>>}
<1> DEFINE node == entry.node
           f == Flag[entry.name]
<1>1. \A x, y : <<x, y>>[1] = x /\ <<x, y>>[2] = y
  OBVIOUS
<1>2. CASE f \in DOMAIN argv /\ IsSwitch(node)
  BY <1>2, ValueFacts DEF OptionOf, ValueOf, Meant, IsChoice
<1>3. CASE f \in DOMAIN argv /\ IsChoice(node)
  <2>1. option = Cast(node, <<"str", argv[f]>>)
    BY <1>3 DEF OptionOf, IsChoice, Argument
  <2>2. Spelled(node, argv[f]) # {} /\ option = <<"str", argv[f]>>
    BY <1>1, <1>3, <2>1, ValueFacts DEF Cast, Failures
  <2>3. Meant(entry) \in Spelled(node, argv[f])
    BY <1>3, <2>2 DEF Meant, IsChoice
  <2>4. Meant(entry) \in Range(node.enum) /\ Meant(entry)[2] = argv[f]
    BY <2>3 DEF Spelled
  <2>5. Meant(entry) \in JsonValues
    BY <2>4, ValueFacts DEF Range
  <2>6. ValueOf(entry, option) = <<"str", argv[f]>>
    BY <2>2, ValueFacts DEF ValueOf
  <2>7. QED
    BY <1>3, <2>4, <2>5, <2>6, ValueFacts
<1>4. CASE f \in DOMAIN argv /\ ~IsSwitch(node) /\ ~IsChoice(node)
  <2>1. option = Argument(node, argv[f]) /\ Meant(entry) = option
    BY <1>4 DEF OptionOf, Meant
  <2>2. <<"str", argv[f]>> \in JsonValues
    BY <1>4, ValueFacts DEF Scalars
  <2>3. option \in Scalars \union Failures
    BY <2>1, <2>2, CastFacts DEF Argument
  <2>4. option # Absent
    BY <2>3, ValueFacts
  <2>5. QED
    BY <1>4, <2>1, <2>4 DEF ValueOf
<1>5. CASE f \notin DOMAIN argv /\ IsSwitch(node) /\ NoFlag[entry.name] \in DOMAIN argv
  BY <1>5, ValueFacts DEF OptionOf, ValueOf, Meant, IsChoice
<1>6. CASE f \notin DOMAIN argv /\ ~(IsSwitch(node) /\ NoFlag[entry.name] \in DOMAIN argv)
  <2>1. option = Unset(node)
    BY <1>6 DEF OptionOf
  <2>2. FlagsOf(entry) \intersect DOMAIN argv = {}
    BY <1>6 DEF FlagsOf
  <2>3. /\ DefaultStays(node)
        /\ entry.name \in DOMAIN stdin => Unset(node) = Absent
    BY <2>2 DEF Unmistakable
  <2>4. CASE entry.name \in DOMAIN stdin
    <3>1. ValueOf(entry, option) = stdin[entry.name] /\ Meant(entry) = stdin[entry.name]
      BY <1>6, <2>1, <2>3, <2>4 DEF ValueOf, Meant
    <3>2. QED
      BY <2>4, <3>1, ValueFacts
  <2>5. CASE entry.name \notin DOMAIN stdin
    <3>1. Meant(entry) = IF IsSwitch(node) /\ node.default = Absent THEN <<"bool", "False">>
                         ELSE IF node.default = Null THEN Absent ELSE node.default
      BY <1>6, <2>5 DEF Meant
    <3>2. ValueOf(entry, option) = option
      BY <2>5 DEF ValueOf
    <3>3. option = IF IsSwitch(node) /\ node.default = Absent THEN <<"bool", "False">>
                   ELSE IF node.default \in {Absent, Null} THEN Absent
                   ELSE IF IsChoice(node) THEN <<"str", node.default[2]>>
                   ELSE node.default
      BY <2>1, <2>3, UnsetFacts
    <3>4. CASE node.default \in {Absent, Null}
      BY <3>1, <3>2, <3>3, <3>4, ValueFacts
    <3>5. CASE node.default \in JsonValues
      BY <3>1, <3>2, <3>3, <3>5, ValueFacts
    <3>6. QED
      BY <3>4, <3>5
  <2>6. QED
    BY <2>4, <2>5
<1>7. QED
  BY <1>2, <1>3, <1>4, <1>5, <1>6

\* The intended input has a value for each property that was given one.
LEMMA IntendedFacts ==
  ASSUME NEW props,
         \A e \in Range(props) : e = Named(e.name, e.node),
         \A j, k \in DOMAIN props : props[j].name = props[k].name => j = k
  PROVE  /\ \A d \in DOMAIN Intended(props) : \E k \in DOMAIN props :
              d = props[k].name /\ Meant(props[k]) # Absent
         /\ \A k \in DOMAIN props : Meant(props[k]) # Absent =>
              /\ props[k].name \in DOMAIN Intended(props)
              /\ Intended(props)[props[k].name] = Meant(props[k])
<1>1. ASSUME NEW k \in DOMAIN props
      PROVE  Named(props[k].name, At(props, props[k].name)) = props[k]
  <2>1. props[k] \in Range(props) /\ props[k] = Named(props[k].name, props[k].node)
    BY DEF Range
  <2>2. \A e \in Range(props) : e.name = props[k].name => e = props[k]
    BY DEF Range
  <2>3. At(props, props[k].name) = props[k].node
    BY <2>1, <2>2 DEF At
  <2>4. QED
    BY <2>1, <2>3
<1>2. DOMAIN Intended(props) =
        {props[k].name : k \in {j \in DOMAIN props : Meant(props[j]) # Absent}}
  BY DEF Intended, NamesOf, Range
<1>3. ASSUME NEW k \in DOMAIN props, Meant(props[k]) # Absent
      PROVE  Intended(props)[props[k].name] = Meant(props[k])
  <2>1. props[k].name \in DOMAIN Intended(props)
    BY <1>2, <1>3
  <2>2. Intended(props)[props[k].name] = Meant(Named(props[k].name, At(props, props[k].name)))
    BY <2>1 DEF Intended
  <2>3. QED
    BY <1>1, <2>2
<1>4. QED
  BY <1>2, <1>3

\* What collect_input returns has the values of the properties.
LEMMA CollectedFacts ==
  ASSUME NEW props, NEW owner,
         \A k \in DOMAIN props : Dest[props[k].name] = props[k].name,
         \A j, k \in DOMAIN props : props[j].name = props[k].name => j = k,
         DOMAIN stdin \subseteq NamesOf(props),
         \A d \in DOMAIN stdin : stdin[d] # Absent
  PROVE  /\ \A d \in DOMAIN Collected(Kwargs(props, owner)) : \E k \in DOMAIN props :
              d = props[k].name /\ ValueAt(props, owner, k) # Absent
         /\ \A k \in DOMAIN props : ValueAt(props, owner, k) # Absent =>
              /\ props[k].name \in DOMAIN Collected(Kwargs(props, owner))
              /\ Collected(Kwargs(props, owner))[props[k].name] = ValueAt(props, owner, k)
<1> DEFINE merged == Collected(Kwargs(props, owner))
           value(k) == ValueAt(props, owner, k)
           option(k) == OptionValue(props, owner, k)
           given == {k \in DOMAIN props : option(k) # Absent}
           kwargs == Kwargs(props, owner)
<1>1. kwargs = [d \in {Dest[props[k].name] : k \in given} |->
                  option(CHOOSE k \in given : Dest[props[k].name] = d)]
  BY DEF Kwargs
<1> HIDE DEF option
<1>2. DOMAIN kwargs = {props[k].name : k \in given}
  BY <1>1
<1>3. ASSUME NEW k \in given
      PROVE  kwargs[props[k].name] = option(k)
  <2>1. (CHOOSE j \in given : Dest[props[j].name] = props[k].name) = k
    OBVIOUS
  <2>2. kwargs[props[k].name] = option(CHOOSE j \in given : Dest[props[j].name] = props[k].name)
    BY <1>1, <1>2
  <2>3. QED
    BY <2>1, <2>2
<1> HIDE DEF kwargs
<1>4. \A k \in DOMAIN props :
        value(k) = IF option(k) # Absent THEN option(k)
                   ELSE IF props[k].name \in DOMAIN stdin THEN stdin[props[k].name] ELSE Absent
  BY DEF ValueAt, ValueOf, option
<1> HIDE DEF value
<1>5. /\ DOMAIN merged = DOMAIN kwargs \union DOMAIN stdin
      /\ \A d \in DOMAIN merged :
           merged[d] = IF d \in DOMAIN kwargs THEN kwargs[d] ELSE stdin[d]
  BY DEF Collected, kwargs
<1> HIDE DEF merged
<1>6. \A k \in DOMAIN props : props[k].name \in DOMAIN kwargs <=> k \in given
  BY <1>2
<1>7. \A k \in DOMAIN props : props[k].name \in DOMAIN merged <=> value(k) # Absent
  BY <1>4, <1>5, <1>6
<1>8. ASSUME NEW d \in DOMAIN merged PROVE \E k \in DOMAIN props : d = props[k].name
  BY <1>2, <1>5 DEF NamesOf
<1>9. \A k \in DOMAIN props : value(k) # Absent => merged[props[k].name] = value(k)
  BY <1>3, <1>4, <1>5, <1>6, <1>7
<1>10. QED
  BY <1>7, <1>8, <1>9 DEF value, merged

\* Property by property, what was collected is what was meant, up to the type
\* of an enumeration's member.
UpToType(props, merged, meant) ==
  \A k \in DOMAIN props : props[k].name \in DOMAIN merged =>
    /\ ~IsChoice(props[k].node) => merged[props[k].name] = meant[props[k].name]
    /\ merged[props[k].name] \in {meant[props[k].name], <<"str", meant[props[k].name][2]>>}

\* What the callback collects is, property by property, what was meant, up to
\* the type of an enumeration's member.
LEMMA CollectedAsMeant ==
  ASSUME NEW props, NEW owner,
         \A e \in Range(props) :
           /\ e = Named(e.name, e.node) /\ e.name \in DOMAIN Flag
           /\ e.node.default \in JsonValues \union {Absent, Null}
           /\ e.node.enum \in Seq(Scalars) /\ Unmistakable(e),
         ~FlagsClash(props),
         \A f \in DOMAIN argv :
           /\ owner[f] \in DOMAIN props /\ f \in FlagsOf(props[owner[f]])
           /\ argv[f] \in Spellings,
         DOMAIN stdin \subseteq NamesOf(props),
         \A d \in DOMAIN stdin : stdin[d] \in JsonValues,
         \A k \in DOMAIN props : OptionValue(props, owner, k) \notin Failures,
         NEW merged, merged = Collected(Kwargs(props, owner))
  PROVE  /\ DOMAIN merged = DOMAIN Intended(props)
         /\ \A d \in DOMAIN merged : \E k \in DOMAIN props : d = props[k].name
         /\ UpToType(props, merged, Intended(props))
<1> DEFINE intended == Intended(props)
           value(k) == ValueAt(props, owner, k)
<1>1. /\ \A j, k \in DOMAIN props : props[j].name = props[k].name => j = k
      /\ \A j, k \in DOMAIN props : \A f :
           f \in FlagsOf(props[j]) /\ f \in FlagsOf(props[k]) => j = k
      /\ \A k \in DOMAIN props : NoFlag[props[k].name] # Flag[props[k].name]
  BY FlagsAreOwned
<1>2. \A k \in DOMAIN props : props[k] \in Range(props)
  BY DEF Range
<1>3. /\ \A d \in DOMAIN intended : \E k \in DOMAIN props :
           d = props[k].name /\ Meant(props[k]) # Absent
      /\ \A k \in DOMAIN props : Meant(props[k]) # Absent =>
           props[k].name \in DOMAIN intended /\ intended[props[k].name] = Meant(props[k])
  BY <1>1, IntendedFacts
<1>4. \A v \in JsonValues : v # Absent
  BY ValueFacts
<1>5. /\ \A d \in DOMAIN merged : \E k \in DOMAIN props :
           d = props[k].name /\ value(k) # Absent
      /\ \A k \in DOMAIN props : value(k) # Absent =>
           props[k].name \in DOMAIN merged /\ merged[props[k].name] = value(k)
  <2>1. \A k \in DOMAIN props : Dest[props[k].name] = props[k].name
    BY <1>2 DEF Unmistakable
  <2>2. \A d \in DOMAIN stdin : stdin[d] # Absent
    BY <1>4
  <2>3. QED
    BY <1>1, <2>1, <2>2, CollectedFacts
<1>6. ASSUME NEW k \in DOMAIN props
      PROVE  /\ value(k) = Absent <=> Meant(props[k]) = Absent
             /\ ~IsChoice(props[k].node) => value(k) = Meant(props[k])
             /\ Meant(props[k]) # Absent =>
                  value(k) \in {Meant(props[k]), <<"str", Meant(props[k])[2]>>}
  <2> DEFINE entry == props[k]
             option == OptionValue(props, owner, k)
  <2>1. option = OptionOf(entry) /\ option \notin Failures
    BY OptionIsItsOwn
  <2>2. /\ entry.node.default \in JsonValues \union {Absent, Null}
        /\ entry.node.enum \in Seq(Scalars) /\ Unmistakable(entry)
    BY <1>2
  <2>3. value(k) = ValueOf(entry, option)
    BY DEF ValueAt
  <2> HIDE DEF entry, option, value
  <2>4. /\ ValueOf(entry, option) = Absent <=> Meant(entry) = Absent
        /\ ~IsChoice(entry.node) => ValueOf(entry, option) = Meant(entry)
        /\ Meant(entry) # Absent =>
             ValueOf(entry, option) \in {Meant(entry), <<"str", Meant(entry)[2]>>}
    BY <2>1, <2>2, OptionFacts
  <2>5. QED
    BY <2>3, <2>4 DEF entry
<1> HIDE DEF intended, value
<1>7. \A k \in DOMAIN props : value(k) # Absent <=> Meant(props[k]) # Absent
  BY <1>6
<1>8. \A d \in DOMAIN merged : d \in DOMAIN intended
  BY <1>3, <1>5, <1>7
<1>9. \A d \in DOMAIN intended : d \in DOMAIN merged
  BY <1>3, <1>5, <1>7
<1>10. ASSUME NEW k \in DOMAIN props, props[k].name \in DOMAIN merged
       PROVE  /\ Meant(props[k]) # Absent /\ merged[props[k].name] = value(k)
              /\ intended[props[k].name] = Meant(props[k])
  <2>1. PICK j \in DOMAIN props : props[k].name = props[j].name /\ value(j) # Absent
    BY <1>5, <1>10
  <2>2. j = k
    BY <1>1, <2>1
  <2>3. QED
    BY <1>3, <1>5, <1>7, <2>1, <2>2
<1>11. ASSUME NEW k \in DOMAIN props, props[k].name \in DOMAIN merged
       PROVE  /\ ~IsChoice(props[k].node) => merged[props[k].name] = intended[props[k].name]
              /\ merged[props[k].name] \in
                   {intended[props[k].name], <<"str", intended[props[k].name][2]>>}
  BY <1>6, <1>10, <1>11
<1>12. QED
  BY <1>5, <1>8, <1>9, <1>11 DEF intended, UpToType

\* reconvert_enum_values keeps what is there and how it is spelled, and gives
\* the members of the enumerations their types back.
LEMMA ReconvertedFacts ==
  ASSUME NEW props, NEW merged, NEW meant,
         \A j, k \in DOMAIN props : props[j].name = props[k].name => j = k,
         \A k \in DOMAIN props :
           /\ Dest[props[k].name] = props[k].name /\ props[k].node.enum \in Seq(Scalars)
           /\ \A u, v \in Range(props[k].node.enum) : u[2] = v[2] => u = v,
         \A d \in DOMAIN merged : \E k \in DOMAIN props : d = props[k].name,
         UpToType(props, merged, meant)
  PROVE  /\ DOMAIN Reconverted(props, merged) = DOMAIN merged
         /\ \A k \in DOMAIN props : props[k].name \in DOMAIN merged =>
              /\ Reconverted(props, merged)[props[k].name][2] = meant[props[k].name][2]
              /\ (IsChoice(props[k].node) => meant[props[k].name] \in Range(props[k].node.enum)) =>
                   Reconverted(props, merged)[props[k].name] = meant[props[k].name]
<1> DEFINE fits(d) == {e \in Range(props) : /\ IsChoice(e.node) /\ Dest[e.name] = d
                                            /\ Spelled(e.node, merged[d][2]) # {}}
           back(d) == IF fits(d) = {} THEN merged[d]
                      ELSE Retyped((CHOOSE e \in fits(d) : TRUE).node.enum, merged[d])
<1>1. Reconverted(props, merged) = [d \in DOMAIN merged |-> back(d)]
  BY DEF Reconverted
<1>2. \A k \in DOMAIN props : props[k] \in Range(props)
  BY DEF Range
<1>3. ASSUME NEW k \in DOMAIN props, props[k].name \in DOMAIN merged
      PROVE  /\ back(props[k].name)[2] = meant[props[k].name][2]
             /\ (IsChoice(props[k].node) => meant[props[k].name] \in Range(props[k].node.enum)) =>
                  back(props[k].name) = meant[props[k].name]
  <2> DEFINE name == props[k].name
             enum == props[k].node.enum
  <2>1. merged[name][2] = meant[name][2]
    BY <1>3 DEF UpToType
  <2>2. \A e \in fits(name) : e = props[k]
    BY DEF Range
  <2>3. CASE fits(name) = {}
    <3>1. back(name) = merged[name]
      BY <2>3
    <3>2. CASE ~IsChoice(props[k].node)
      BY <1>3, <2>1, <3>1, <3>2 DEF UpToType
    <3>3. CASE IsChoice(props[k].node)
      <4>1. Spelled(props[k].node, merged[name][2]) = {}
        BY <1>2, <2>3, <3>3
      <4>2. meant[name] \notin Range(enum)
        BY <2>1, <4>1 DEF Spelled
      <4>3. QED
        BY <2>1, <3>1, <3>3, <4>2
    <3>4. QED
      BY <3>2, <3>3
  <2>4. CASE fits(name) # {}
    <3>1. props[k] \in fits(name)
      BY <2>2, <2>4
    <3>2. (CHOOSE e \in fits(name) : TRUE) = props[k]
      <4> HIDE DEF fits
      <4>1. QED
        BY <2>2, <2>4
    <3>3. back(name) = Retyped(enum, merged[name])
      BY <2>4, <3>2
    <3>4. enum \in Seq(Scalars) /\ \E v \in Range(enum) : v[2] = merged[name][2]
      BY <3>1 DEF Spelled
    <3>5. back(name)[2] = merged[name][2]
      <4>1. LastSpelled(enum, merged[name][2])[2] = merged[name][2]
        BY <3>4, LastSpelledFacts
      <4>2. QED
        BY <3>3, <4>1 DEF Retyped
    <3>6. ASSUME IsChoice(props[k].node) => meant[name] \in Range(enum)
          PROVE  back(name) = meant[name]
      <4>1. meant[name] \in Range(enum)
        BY <3>1, <3>6
      <4>2. \A u, v \in Range(enum) : u[2] = v[2] => u = v
        OBVIOUS
      <4>3. merged[name] = meant[name] \/ merged[name] = <<"str", meant[name][2]>>
        BY <1>3 DEF UpToType
      <4> DEFINE value == merged[name]
                 meaning == meant[name]
      <4> HIDE DEF name, enum, value, meaning
      <4>4. /\ enum \in Seq(Scalars) /\ meaning \in Range(enum)
            /\ value = meaning \/ value = <<"str", meaning[2]>>
        BY <3>4, <4>1, <4>3 DEF value, meaning
      <4>5. Retyped(enum, value) = meaning
        BY ONLY <4>2, <4>4, RetypedFacts
      <4>6. QED
        BY <3>3, <4>5 DEF value, meaning
    <3>7. QED
      BY <2>1, <3>5, <3>6
  <2>5. QED
    BY <2>3, <2>4
<1>4. QED
  <2> HIDE DEF back
  <2>1. QED
    BY <1>1, <1>3

\* The input of a command: nothing is lost or added, all is spelled as it was
\* meant, and what was meant arrives if it is a valid member.
LEMMA InputArrives ==
  ASSUME NEW props, NEW owner,
         \A e \in Range(props) :
           /\ e = Named(e.name, e.node) /\ e.name \in DOMAIN Flag
           /\ e.node.default \in JsonValues \union {Absent, Null}
           /\ e.node.enum \in Seq(Scalars) /\ Unmistakable(e),
         ~FlagsClash(props),
         \A f \in DOMAIN argv :
           /\ owner[f] \in DOMAIN props /\ f \in FlagsOf(props[owner[f]])
           /\ argv[f] \in Spellings,
         DOMAIN stdin \subseteq NamesOf(props),
         \A d \in DOMAIN stdin : stdin[d] \in JsonValues,
         \A k \in DOMAIN props : OptionValue(props, owner, k) \notin Failures,
         NEW input, input = Reconverted(props, Collected(Kwargs(props, owner)))
  PROVE  /\ DOMAIN input = DOMAIN Intended(props)
         /\ \A d \in DOMAIN input : input[d][2] = Intended(props)[d][2]
         /\ (\A e \in Range(props) : (e.name \in DOMAIN Intended(props) /\ e.node.enum # <<>>) =>
               Intended(props)[e.name] \in Range(e.node.enum)) => input = Intended(props)
<1> DEFINE merged == Collected(Kwargs(props, owner))
           intended == Intended(props)
<1>1. \A j, k \in DOMAIN props : props[j].name = props[k].name => j = k
  BY FlagsAreOwned
<1>2. intended = [d \in DOMAIN intended |-> intended[d]]
  BY DEF Intended
<1>3. /\ DOMAIN merged = DOMAIN intended
      /\ \A d \in DOMAIN merged : \E k \in DOMAIN props : d = props[k].name
      /\ UpToType(props, merged, intended)
  <2> HIDE DEF merged
  <2>1. merged = Collected(Kwargs(props, owner))
    BY DEF merged
  <2>2. QED
    BY <2>1, CollectedAsMeant
<1>4. \A k \in DOMAIN props :
        /\ props[k] \in Range(props)
        /\ Dest[props[k].name] = props[k].name /\ props[k].node.enum \in Seq(Scalars)
        /\ \A u, v \in Range(props[k].node.enum) : u[2] = v[2] => u = v
  BY DEF Range, Unmistakable
<1> HIDE DEF merged, intended
<1>5. /\ input = [d \in DOMAIN merged |-> input[d]] /\ DOMAIN input = DOMAIN merged
      /\ \A k \in DOMAIN props : props[k].name \in DOMAIN merged =>
           /\ input[props[k].name][2] = intended[props[k].name][2]
           /\ (IsChoice(props[k].node) => intended[props[k].name] \in Range(props[k].node.enum)) =>
                input[props[k].name] = intended[props[k].name]
  <2>1. input = Reconverted(props, merged)
    BY DEF merged
  <2>2. input = [d \in DOMAIN merged |-> input[d]]
    BY <2>1 DEF Reconverted
  <2>3. /\ DOMAIN Reconverted(props, merged) = DOMAIN merged
        /\ \A k \in DOMAIN props : props[k].name \in DOMAIN merged =>
             /\ Reconverted(props, merged)[props[k].name][2] = intended[props[k].name][2]
             /\ (IsChoice(props[k].node) => intended[props[k].name] \in Range(props[k].node.enum)) =>
                  Reconverted(props, merged)[props[k].name] = intended[props[k].name]
    BY ONLY <1>1, <1>3, <1>4, ReconvertedFacts
  <2>4. QED
    BY <2>1, <2>2, <2>3
<1>6. ASSUME \A e \in Range(props) : (e.name \in DOMAIN intended /\ e.node.enum # <<>>) =>
               intended[e.name] \in Range(e.node.enum)
      PROVE  input = intended
  <2>1. ASSUME NEW d \in DOMAIN merged PROVE input[d] = intended[d]
    <3>1. PICK k \in DOMAIN props : d = props[k].name
      BY <1>3
    <3>2. IsChoice(props[k].node) => intended[d] \in Range(props[k].node.enum)
      BY <1>3, <1>4, <1>6, <3>1 DEF IsChoice
    <3>3. QED
      BY <1>5, <3>1, <3>2
  <2>2. QED
    BY <1>2, <1>3, <1>5, <2>1
<1>7. \A d \in DOMAIN input : input[d][2] = intended[d][2]
  BY <1>3, <1>5
<1>8. QED
  BY <1>3, <1>5, <1>6, <1>7 DEF intended

\* What reaches the module are values of a JSON object.
LEMMA InputTypes ==
  ASSUME NEW props, NEW owner,
         \A e \in Range(props) :
           /\ e.node.default \in JsonValues \union {Absent, Null}
           /\ e.node.enum \in Seq(Scalars),
         \A f \in DOMAIN argv : argv[f] \in Spellings,
         \A d \in DOMAIN stdin : stdin[d] \in JsonValues,
         \A k \in DOMAIN props : OptionValue(props, owner, k) \notin Failures
  PROVE  LET input == Reconverted(props, Collected(Kwargs(props, owner)))
         IN  \A d \in DOMAIN input : input[d] \in JsonValues
<1> DEFINE kwargs == Kwargs(props, owner)
           merged == Collected(kwargs)
           option(k) == OptionValue(props, owner, k)
           given == {k \in DOMAIN props : option(k) # Absent}
           fits(d) == {e \in Range(props) : /\ IsChoice(e.node) /\ Dest[e.name] = d
                                            /\ Spelled(e.node, merged[d][2]) # {}}
           back(d) == IF fits(d) = {} THEN merged[d]
                      ELSE Retyped((CHOOSE e \in fits(d) : TRUE).node.enum, merged[d])
<1>1. \A node, s : s \in Spellings => Argument(node, s) \in Scalars \union Failures
  <2>1. \A s \in Spellings : <<"str", s>> \in JsonValues
    BY DEF JsonValues, Scalars
  <2>2. QED
    BY <2>1, CastFacts DEF Argument
<1>2. <<"bool", "True">> \in Scalars /\ <<"bool", "False">> \in Scalars
  BY InputAssumption DEF Scalars
<1>3. ASSUME NEW k \in DOMAIN props
      PROVE  Unset(props[k].node) \in Scalars \union Failures \union {Absent}
  <2>1. props[k].node.default \in JsonValues \union {Absent, Null}
    BY DEF Range
  <2>2. CASE props[k].node.default \in {Absent, Null}
    BY <1>2, <2>2 DEF Unset, Cast
  <2>3. CASE props[k].node.default \in JsonValues
    BY <2>3, CastFacts, ValueFacts DEF Unset
  <2>4. QED
    BY <2>1, <2>2, <2>3
<1>4. ASSUME NEW k \in DOMAIN props PROVE option(k) \in Scalars \union {Absent}
  <2>1. option(k) \in Scalars \union Failures \union {Absent}
    BY <1>1, <1>2, <1>3 DEF OptionValue
  <2>2. QED
    BY <2>1
<1>5. kwargs = [d \in {Dest[props[k].name] : k \in given} |->
                  option(CHOOSE k \in given : Dest[props[k].name] = d)]
  BY DEF Kwargs
<1>6. ASSUME NEW d \in DOMAIN kwargs PROVE kwargs[d] \in Scalars
  <2> HIDE DEF kwargs, option
  <2>1. \E k \in given : Dest[props[k].name] = d
    BY <1>5
  <2>2. PICK k \in given : kwargs[d] = option(k)
    BY <1>5, <2>1
  <2>3. QED
    BY <1>4, <2>2
<1>7. ASSUME NEW d \in DOMAIN merged PROVE merged[d] \in JsonValues
  <2> HIDE DEF kwargs
  <2>1. QED
    BY <1>6, ValueFacts DEF Collected
<1>8. ASSUME NEW d \in DOMAIN merged PROVE back(d) \in JsonValues
  <2> HIDE DEF merged
  <2>1. CASE fits(d) # {}
    <3>1. PICK e \in fits(d) : back(d) = Retyped(e.node.enum, merged[d])
      <4> HIDE DEF fits
      <4>1. QED
        BY <2>1
    <3>2. e.node.enum \in Seq(Scalars) /\ \E v \in Range(e.node.enum) : v[2] = merged[d][2]
      BY DEF Spelled
    <3>3. LastSpelled(e.node.enum, merged[d][2]) \in Range(e.node.enum)
      BY <3>2, LastSpelledFacts
    <3>4. LastSpelled(e.node.enum, merged[d][2]) \in JsonValues
      BY <3>2, <3>3, ValueFacts DEF Range
    <3>5. QED
      BY <1>7, <3>1, <3>4 DEF Retyped
  <2>2. QED
    BY <1>7, <2>1
<1>9. Reconverted(props, merged) = [d \in DOMAIN merged |-> back(d)]
  <2> HIDE DEF merged
  <2>1. QED
    BY DEF Reconverted
<1>10. QED
  <2> HIDE DEF merged, back
  <2>1. \A d \in DOMAIN Reconverted(props, merged) : Reconverted(props, merged)[d] \in JsonValues
    BY <1>8, <1>9
  <2>2. QED
    BY <2>1 DEF merged

\* What was meant depends on the arguments and the object alone.
LEMMA MeantStays ==
  ASSUME NEW props, UNCHANGED <<argv, stdin>>
  PROVE  /\ Intended(props)' = Intended(props)
         /\ \A e : Unmistakable(e)' <=> Unmistakable(e)
         /\ \A e : Understood(e)' <=> Understood(e)
<1>1. \A e : Meant(e)' = Meant(e)
  BY DEF Meant
<1>2. QED
  BY <1>1 DEF Intended, Unmistakable, Understood

\* click parses a command line if it understands each property's option, and
\* the defaults of those that nobody typed stay as they are.
LEMMA ParsedFacts ==
  ASSUME NEW props, NEW owner,
         \A e \in Range(props) :
           /\ e.name \in DOMAIN Flag /\ e.node.default \in JsonValues \union {Absent, Null}
           /\ Unmistakable(e) /\ Understood(e),
         ~FlagsClash(props),
         \A f \in DOMAIN argv : owner[f] \in DOMAIN props /\ f \in FlagsOf(props[owner[f]])
  PROVE  \A k \in DOMAIN props : OptionValue(props, owner, k) \notin Failures
<1> TAKE k \in DOMAIN props
<1> DEFINE entry == props[k]
           f == Flag[entry.name]
<1>1. OptionValue(props, owner, k) = OptionOf(entry)
  BY OptionIsItsOwn
<1>2. /\ entry.node.default \in JsonValues \union {Absent, Null}
      /\ Unmistakable(entry) /\ Understood(entry)
  BY DEF Range
<1> HIDE DEF entry
<1>3. CASE f \in DOMAIN argv
  BY <1>1, <1>2, <1>3, ValueFacts DEF OptionOf, Understood, Converts
<1>4. CASE f \notin DOMAIN argv /\ IsSwitch(entry.node) /\ NoFlag[entry.name] \in DOMAIN argv
  BY <1>1, <1>4, ValueFacts DEF OptionOf
<1>5. CASE f \notin DOMAIN argv /\ ~(IsSwitch(entry.node) /\ NoFlag[entry.name] \in DOMAIN argv)
  <2>1. FlagsOf(entry) \intersect DOMAIN argv = {}
    BY <1>5 DEF FlagsOf
  <2>2. DefaultStays(entry.node)
    BY <1>2, <2>1 DEF Unmistakable
  <2>3. Unset(entry.node) \notin Failures
    BY <1>2, <2>2, UnsetFacts, ValueFacts
  <2>4. QED
    BY <1>1, <1>5, <2>3 DEF OptionOf
<1>6. QED
  BY <1>3, <1>4, <1>5

LEMMA LineInvInit == LineInit => LineIInv
<1> SUFFICES ASSUME LineInit
             PROVE  LineIInv
  OBVIOUS
<1>1. IInv
  BY InvInit DEF LineInit
<1>2. HandedOut = {}
  BY DEF LineInit, Init, HandedOut, Range
<1>3. InputInv
  BY DEF LineInit, InputInv
<1>4. LineTypeOK
  <2>1. /\ TypeOK /\ stage = "none" /\ schema = Blank /\ argv = <<>> /\ stdin = <<>>
        /\ readable = TRUE /\ received = <<>> /\ status = 0
    BY <1>1 DEF IInv, LineInit, Empty
  <2>2. DOMAIN argv = {} /\ DOMAIN stdin = {} /\ DOMAIN received = {}
    BY <2>1
  <2>3. QED
    BY <2>1, <2>2 DEF LineTypeOK
<1>5. ModuleGetsWhatWasMeant
  BY DEF LineInit, ModuleGetsWhatWasMeant
<1>6. QED
  BY <1>1, <1>2, <1>3, <1>4, <1>5 DEF LineIInv, HandedInv

\* The tree's steps hand out commands only.
LEMMA HandedNext ==
  ASSUME IInv, HandedInv, [Next]_vars
  PROVE  HandedInv' /\ UNCHANGED registryVars
<1>1. UNCHANGED registryVars
  BY DEF Next, Ask, StartBuild, DescribeModule, EndAliases, ListAgain, PlaceModule,
         EndPlacing, Serve, ServeMember, vars
<1>2. Ids' = Ids /\ \A id : IsBuilt(id)' <=> IsBuilt(id)
  BY <1>1 DEF registryVars, Ids, IsBuilt, ModuleAt
<1>3. \A id \in HandedOut' : id \in HandedOut \/ (id \in Ids /\ IsBuilt(id))
  <2>1. CASE Serve
    <3>1. /\ memberCache' = memberCache
          /\ \/ cmdCache' = cmdCache
             \/ /\ asked \in DOMAIN top /\ IsBuilt(top[asked])
                /\ cmdCache' = Put(cmdCache, asked, top[asked])
      BY <2>1 DEF Serve
    <3>2. asked \in DOMAIN top => top[asked] \in Ids
      BY DEF IInv, TypeOK
    <3>3. QED
      BY <3>1, <3>2 DEF HandedOut, Range, Put
  <2>2. CASE ServeMember
    <3>1. PICK g \in groupCache : \E c \in DOMAIN groups[g] :
            memberCache' = IF <<g, c>> \in DOMAIN memberCache \/ ~IsBuilt(groups[g][c])
                             THEN memberCache
                             ELSE Put(memberCache, <<g, c>>, groups[g][c])
      BY <2>2 DEF ServeMember
    <3>2. PICK c \in DOMAIN groups[g] :
            \/ memberCache' = memberCache
            \/ IsBuilt(groups[g][c]) /\ memberCache' = Put(memberCache, <<g, c>>, groups[g][c])
      BY <3>1
    <3>3. groups[g][c] \in Ids
      BY DEF IInv, TypeOK
    <3>4. cmdCache' = cmdCache
      BY <2>2 DEF ServeMember
    <3>5. QED
      BY <3>2, <3>3, <3>4 DEF HandedOut, Range, Put
  <2>3. CASE ~Serve /\ ~ServeMember
    <3>1. UNCHANGED cacheVars
      BY <2>3 DEF Next, Ask, StartBuild, DescribeModule, EndAliases, ListAgain, PlaceModule,
                  EndPlacing, vars
    <3>2. QED
      BY <3>1 DEF cacheVars, HandedOut
  <2>4. QED
    BY <2>1, <2>2, <2>3
<1>4. QED
  BY <1>1, <1>2, <1>3 DEF HandedInv

\* A command under way keeps its input while the tree changes.
LEMMA InputStays ==
  ASSUME LineIInv, [Next]_vars, UNCHANGED inputVars
  PROVE  LineIInv'
<1>1. IInv' /\ HandedInv' /\ UNCHANGED registryVars
  BY InvNext, HandedNext DEF LineIInv
<1>2. UNCHANGED <<stage, schema, argv, stdin, readable, received, status>> /\ catalogue' = catalogue
  BY <1>1 DEF inputVars, registryVars
<1>3. InputInv'
  BY <1>2 DEF LineIInv, InputInv
<1>4. LineTypeOK'
  BY <1>1, <1>2 DEF LineIInv, LineTypeOK, IInv
<1>5. ModuleGetsWhatWasMeant'
  <2> DEFINE props == schema.props
  <2>1. /\ Intended(props)' = Intended(props)
        /\ \A e : Unmistakable(e)' <=> Unmistakable(e)
        /\ \A e : Understood(e)' <=> Understood(e)
    BY <1>2, MeantStays
  <2>2. Valid(schema, Intended(props))' <=> Valid(schema, Intended(props))
    BY <1>2, <2>1 DEF Valid
  <2>3. QED
    BY <1>2, <2>1, <2>2 DEF LineIInv, ModuleGetsWhatWasMeant
<1>6. QED
  BY <1>1, <1>3, <1>4, <1>5 DEF LineIInv

LEMMA LineInvInvoke ==
  ASSUME LineIInv, Invoke
  PROVE  LineIInv'
<1>1. UNCHANGED vars /\ received' = received /\ status' = status /\ stage = "none" /\ stage' = "typed"
  BY DEF Invoke
<1>2. IInv' /\ HandedInv' /\ UNCHANGED registryVars
  BY <1>1, InvNext, HandedNext DEF LineIInv
<1>3. PICK id \in HandedOut :
        /\ schema' = Built(ModuleAt(id).schema).schema
        /\ argv' \in Argvs(schema'.props)
        /\ \/ stdin' \in Objects(schema'.props) /\ readable' = TRUE
           \/ stdin' = Empty /\ readable' = FALSE
  BY DEF Invoke
<1>4. PICK k \in DOMAIN catalogue : ModuleAt(id) = catalogue[k]
  BY CatalogueFacts DEF LineIInv, IInv, HandedInv, Ids
<1>5. Builds(catalogue[k].schema)
  BY <1>4 DEF LineIInv, HandedInv, IsBuilt
<1>6. Built(catalogue[k].schema).status = 0 /\ IsSchema(Built(catalogue[k].schema).schema)
  BY <1>5, BuildsAssumption DEF LineIInv, IInv, RegistryInv
<1>7. /\ DOMAIN stdin' \subseteq NamesOf(schema'.props)
      /\ \A d \in DOMAIN stdin' : stdin'[d] \in Values
  <2>1. CASE stdin' \in Objects(schema'.props)
    BY <2>1 DEF Objects
  <2>2. CASE stdin' = Empty
    <3>1. DOMAIN stdin' = {}
      BY <2>2 DEF Empty
    <3>2. QED
      BY <3>1
  <2>3. QED
    BY <1>3, <2>1, <2>2
<1>8. InputInv'
  <2>1. received = Empty /\ status = 0
    BY <1>1 DEF LineIInv, InputInv
  <2>2. catalogue' = catalogue
    BY <1>2 DEF registryVars
  <2>3. QED
    BY <1>1, <1>3, <1>4, <1>6, <1>7, <2>1, <2>2 DEF InputInv
<1>9. LineTypeOK'
  <2>1. \A f \in DOMAIN argv' : argv'[f] \in Tokens \union {NoValue}
    BY <1>3 DEF Argvs
  <2>2. DOMAIN schema' = DOMAIN Blank /\ readable' \in BOOLEAN
    BY <1>3, <1>4, <1>6 DEF IsSchema
  <2>3. QED
    BY <1>1, <1>2, <1>7, <2>1, <2>2 DEF LineIInv, IInv, LineTypeOK
<1>10. QED
  BY <1>1, <1>2, <1>8, <1>9 DEF LineIInv, ModuleGetsWhatWasMeant

LEMMA LineInvFinish ==
  ASSUME LineIInv, Finish
  PROVE  LineIInv'
<1>1. /\ UNCHANGED vars /\ stage' = "none" /\ schema' = Blank /\ argv' = <<>> /\ stdin' = <<>>
      /\ readable' = TRUE /\ received' = <<>> /\ status' = 0
  BY DEF Finish, Empty
<1>2. IInv' /\ HandedInv'
  BY <1>1, InvNext, HandedNext DEF LineIInv
<1>3. InputInv'
  BY <1>1 DEF InputInv, Empty
<1>4. LineTypeOK'
  <2>1. DOMAIN argv' = {} /\ DOMAIN stdin' = {} /\ DOMAIN received' = {}
    BY <1>1
  <2>2. QED
    BY <1>1, <1>2, <2>1 DEF IInv, LineTypeOK
<1>5. QED
  BY <1>1, <1>2, <1>3, <1>4 DEF LineIInv, ModuleGetsWhatWasMeant

LEMMA LineInvReceive ==
  ASSUME LineIInv, Receive
  PROVE  LineIInv'
<1> DEFINE props == schema.props
<1>1. /\ UNCHANGED vars /\ UNCHANGED <<schema, argv, stdin, readable>>
      /\ stage = "typed" /\ stage' = "answered" /\ status = 0 /\ received = Empty
  BY DEF Receive, LineIInv, InputInv
<1>2. IInv' /\ HandedInv' /\ catalogue' = catalogue
  BY <1>1, InvNext, HandedNext DEF LineIInv, registryVars
<1>3. PICK owner \in [DOMAIN argv -> DOMAIN props] :
        /\ \A f \in DOMAIN argv : f \in FlagsOf(props[owner[f]])
        /\ LET values == {OptionValue(props, owner, k) : k \in DOMAIN props}
               parsed == values \intersect Failures = {}
               input == Reconverted(props, Collected(Kwargs(props, owner)))
           IN  \/ /\ Refused \in values \/ (parsed /\ ~readable)
                  /\ status' = 2 /\ UNCHANGED received
               \/ /\ Raises \in values
                  /\ status' = 1 /\ UNCHANGED received
               \/ /\ parsed /\ readable /\ ~Valid(schema, input)
                  /\ status' = 45 /\ UNCHANGED received
               \/ /\ parsed /\ readable /\ Valid(schema, input)
                  /\ received' = input /\ UNCHANGED status
  BY DEF Receive
<1> DEFINE input == Reconverted(props, Collected(Kwargs(props, owner)))
           values == {OptionValue(props, owner, k) : k \in DOMAIN props}
           parsed == values \intersect Failures = {}
<1>4. IsSchema(schema) /\ ~FlagsClash(props)
  BY <1>1, SchemaFacts DEF LineIInv
<1>5. \A e \in Range(props) :
        /\ e = Named(e.name, e.node) /\ e.name \in DOMAIN Flag
        /\ e.node.default \in JsonValues \union {Absent, Null} /\ e.node.enum \in Seq(Scalars)
  BY <1>4 DEF IsSchema
<1>6. /\ \A f \in DOMAIN argv : argv[f] \in Spellings
      /\ \A d \in DOMAIN stdin : stdin[d] \in JsonValues
      /\ DOMAIN stdin \subseteq NamesOf(props)
  BY <1>1, InputAssumption DEF LineIInv, LineTypeOK, InputInv
<1>7. InputInv'
  BY <1>1, <1>2 DEF LineIInv, InputInv
<1>8. LineTypeOK'
  <2>1. parsed => \A d \in DOMAIN input : input[d] \in JsonValues
    <3>1. parsed => \A k \in DOMAIN props : OptionValue(props, owner, k) \notin Failures
      OBVIOUS
    <3>2. QED
      BY <1>5, <1>6, <3>1, InputTypes
  <2> HIDE DEF input, parsed
  <2>2. status' \in {0, 1, 2, 45} /\ (received' = received \/ (parsed /\ received' = input))
    BY <1>1, <1>3 DEF input, parsed
  <2>3. \A d \in DOMAIN received' : received'[d] \in JsonValues
    BY <2>1, <2>2 DEF LineIInv, LineTypeOK
  <2>4. QED
    BY <1>1, <1>2, <2>2, <2>3 DEF LineIInv, LineTypeOK, IInv
<1>9. ModuleGetsWhatWasMeant'
  <2> DEFINE meant == Intended(props)
             understood == \A e \in Range(props) : Understood(e)
  <2>1. ASSUME understood, \A e \in Range(props) : Unmistakable(e)
        PROVE  parsed
    <3>1. \A k \in DOMAIN props : OptionValue(props, owner, k) \notin Failures
      BY <1>3, <1>4, <1>5, <2>1, ParsedFacts
    <3>2. QED
      BY <3>1
  <2>2. ASSUME parsed, \A e \in Range(props) : Unmistakable(e)
        PROVE  /\ DOMAIN input = DOMAIN meant
               /\ \A d \in DOMAIN input : input[d][2] = meant[d][2]
               /\ Valid(schema, meant) => input = meant
    <3>1. Valid(schema, meant) =>
            \A e \in Range(props) : (e.name \in DOMAIN meant /\ e.node.enum # <<>>) =>
               meant[e.name] \in Range(e.node.enum)
      <4>1. Range(props) # {} => props # <<>>
        BY DEF Range
      <4>2. QED
        BY <4>1 DEF Valid
    <3>2. \A k \in DOMAIN props : OptionValue(props, owner, k) \notin Failures
      BY <2>2
    <3>3. QED
      BY <1>3, <1>4, <1>5, <1>6, <2>2, <3>1, <3>2, InputArrives
  <2>3. /\ meant' = meant
        /\ \A e : Unmistakable(e)' <=> Unmistakable(e)
        /\ \A e : Understood(e)' <=> Understood(e)
    <3>1. /\ Intended(schema.props)' = Intended(schema.props)'
          /\ schema' = schema
      BY <1>1
    <3>2. QED
      BY <1>1, <3>1, MeantStays
  <2>4. ~parsed <=> (Refused \in values \/ Raises \in values)
    BY DEF Failures
  <2> HIDE DEF values, parsed, input, meant
  <2>5. \/ (Refused \in values \/ (parsed /\ ~readable)) /\ status' = 2
        \/ Raises \in values /\ status' = 1
        \/ parsed /\ readable /\ ~Valid(schema, input) /\ status' = 45
        \/ parsed /\ readable /\ Valid(schema, input) /\ received' = input /\ status' = status
    BY <1>3 DEF values, parsed, input
  <2>6. ASSUME \A e \in Range(props) : Unmistakable(e)
        PROVE  /\ (readable /\ understood /\ Valid(schema, meant)) =>
                    status' = 0 /\ received' = meant
               /\ status' = 0 => /\ DOMAIN received' = DOMAIN meant
                                 /\ \A d \in DOMAIN meant : received'[d][2] = meant[d][2]
    BY <1>1, <2>1, <2>2, <2>4, <2>5, <2>6
  <2>7. Valid(schema, meant)' <=> Valid(schema, meant)
    BY <1>1, <2>3 DEF Valid
  <2>8. QED
    BY <1>1, <2>3, <2>6, <2>7 DEF ModuleGetsWhatWasMeant, meant
<1>10. QED
  BY <1>1, <1>2, <1>7, <1>8, <1>9 DEF LineIInv

\* Whatever is looked up and typed: a command's input is that of a schema that
\* options were made of, and nothing is received before it is validated.
THEOREM LineInvariant == LineSpec => []LineIInv
<1>1. LineIInv /\ [LineNext]_lineVars => LineIInv'
  <2> SUFFICES ASSUME LineIInv, [LineNext]_lineVars
               PROVE  LineIInv'
    OBVIOUS
  <2>1. CASE stage = "none" /\ Next /\ UNCHANGED inputVars
    BY <2>1, InputStays
  <2>2. CASE Invoke
    BY <2>2, LineInvInvoke
  <2>3. CASE Receive
    BY <2>3, LineInvReceive
  <2>4. CASE Finish
    BY <2>4, LineInvFinish
  <2>5. CASE UNCHANGED lineVars
    <3>1. UNCHANGED vars /\ UNCHANGED inputVars
      BY <2>5 DEF lineVars
    <3>2. QED
      BY <3>1, InputStays
  <2>6. QED
    BY <2>1, <2>2, <2>3, <2>4, <2>5 DEF LineNext
<1>2. QED
  BY <1>1, LineInvInit, PTL DEF LineSpec

\* The values a module receives are those of a JSON object, and its status is
\* one the callback or click exits with.
THEOREM LineTypes == LineSpec => []LineTypeOK
<1>1. LineIInv => LineTypeOK
  BY DEF LineIInv
<1>2. QED
  BY <1>1, LineInvariant, PTL

\* collect_input, click's conversions and reconvert_enum_values together give
\* the module what the user meant, for every schema, command line and object,
\* and every reading click may make of a value; where nothing was typed, of a
\* default that the option takes as it is.
THEOREM ArgumentsArrive == LineSpec => []ModuleGetsWhatWasMeant
<1>1. LineIInv => ModuleGetsWhatWasMeant
  BY DEF LineIInv
<1>2. QED
  BY <1>1, LineInvariant, PTL

\* A command line takes no part in the building of the tree: with it, the tree
\* still behaves as the tree's own specification says.
THEOREM LineKeepsTree == LineSpec => Spec
<1>1. LineInit => Init
  BY DEF LineInit
<1>2. [LineNext]_lineVars => [Next]_vars
  BY DEF LineNext, Invoke, Receive, Finish, lineVars
<1>3. QED
  BY <1>1, <1>2, PTL DEF LineSpec, Spec

\* What the runs of the command line check of the tree holds of every catalogue.
THEOREM TreeUnderLines ==
  LineSpec => [](ServedAsDeclared /\ TreeIsComplete /\ CachesAgree)
BY LineKeepsTree, OverlaysRule, TreeHoldsAll, CachesKeepUp, PTL
-----------------------------------------------------------------------------
(* Composition: what dict.update and the merge of branches leave of a dict.  *)

\* A dict's entries have distinct names.
Dicts(Labels, Nodes) ==
  {d \in Seq([name : Labels, node : Nodes]) :
     \A j, k \in DOMAIN d : d[j].name = d[k].name => j = k}

\* What holds of 0, and of k if of k - 1, holds up to n.
LEMMA UpTo ==
  ASSUME NEW n \in Nat, NEW good \in SUBSET (0..n), 0 \in good,
         \A k \in 1..n : k - 1 \in good => k \in good
  PROVE  good = 0..n
<1> DEFINE bad == (0..n) \ good
           below == {ss \in Nat \X Nat : ss[1] < ss[2]}
<1>1. SUFFICES ASSUME bad # {} PROVE FALSE
  OBVIOUS
<1>2. PICK k \in bad : \A m \in bad : ~(<<m, k>> \in below)
  <2>1. bad \in SUBSET Nat
    OBVIOUS
  <2> HIDE DEF below, bad
  <2>2. IsWellFoundedOn(below, Nat)
    BY NatLessThanWellFounded, Zenon DEF OpToRel, below
  <2>3. QED
    BY <1>1, <2>1, <2>2, WFMin
<1>3. k \in 1..n /\ k - 1 \in 0..n /\ k - 1 < k
  OBVIOUS
<1>4. <<k - 1, k>> \in below
  BY <1>3
<1>5. k - 1 \in good
  <2> HIDE DEF below
  <2>1. k - 1 \notin bad
    BY <1>2, <1>4
  <2>2. QED
    BY <1>3, <2>1
<1>6. QED
  BY <1>3, <1>5

\* A function of 0..n may be given by its first value and its steps.
LEMMA Iteration ==
  ASSUME NEW D, NEW a \in D, NEW n \in Nat, NEW step \in [1..n -> [D -> D]]
  PROVE  \E g \in [0..n -> D] : g[0] = a /\ \A k \in 1..n : g[k] = step[k][g[k - 1]]
<1> DEFINE Up(m) == \E g \in [0..m -> D] : g[0] = a /\ \A k \in 1..m : g[k] = step[k][g[k - 1]]
           good == {m \in 0..n : Up(m)}
<1>1. Up(0)
  <2>1. [k \in 0..0 |-> a] \in [0..0 -> D] /\ [k \in 0..0 |-> a][0] = a /\ 1..0 = {}
    OBVIOUS
  <2>2. QED
    BY <2>1
<1>2. ASSUME NEW m \in 1..n, Up(m - 1)
      PROVE  Up(m)
  <2>1. PICK g \in [0..(m - 1) -> D] :
          g[0] = a /\ \A k \in 1..(m - 1) : g[k] = step[k][g[k - 1]]
    BY <1>2
  <2> DEFINE h == [k \in 0..m |-> IF k = m THEN step[m][g[m - 1]] ELSE g[k]]
  <2>2. m - 1 \in 0..(m - 1) /\ g[m - 1] \in D /\ step[m] \in [D -> D] /\ 0 # m
    OBVIOUS
  <2>3. h \in [0..m -> D] /\ h[0] = a
    BY <2>1, <2>2
  <2>4. ASSUME NEW k \in 1..m PROVE h[k] = step[k][h[k - 1]]
    BY <2>1, <2>2
  <2> HIDE DEF h
  <2>5. QED
    BY <2>3, <2>4
<1> HIDE DEF Up
<1>3. good = 0..n
  <2>1. 0 \in good /\ good \in SUBSET (0..n)
    BY <1>1
  <2>2. \A k \in 1..n : k - 1 \in good => k \in good
    BY <1>2
  <2> HIDE DEF good
  <2>3. QED
    BY <2>1, <2>2, UpTo
<1>4. QED
  BY <1>3 DEF Up

\* A dict has the node of an entry under its name.
LEMMA AtFacts ==
  ASSUME NEW Labels, NEW Nodes, NEW d \in Dicts(Labels, Nodes), NEW k \in DOMAIN d
  PROVE  At(d, d[k].name) = d[k].node
<1>1. d[k] \in Range(d)
  BY DEF Range
<1>2. \A e \in Range(d) : e.name = d[k].name => e = d[k]
  BY DEF Dicts, Range
<1>3. (CHOOSE e \in Range(d) : e.name = d[k].name) = d[k]
  BY <1>1, <1>2
<1>4. QED
  BY <1>3 DEF At

\* d[name] = node replaces an entry where it is, or adds one at the end.
LEMMA PutFacts ==
  ASSUME NEW Labels, NEW Nodes, NEW d \in Dicts(Labels, Nodes),
         NEW name \in Labels, NEW node \in Nodes
  PROVE  /\ PutEntry(d, name, node) \in Dicts(Labels, Nodes)
         /\ NamesOf(PutEntry(d, name, node)) = NamesOf(d) \union {name}
         /\ At(PutEntry(d, name, node), name) = node
         /\ \A x \in NamesOf(d) : x # name => At(PutEntry(d, name, node), x) = At(d, x)
         /\ \A k \in DOMAIN d : /\ k \in DOMAIN PutEntry(d, name, node)
                                /\ PutEntry(d, name, node)[k].name = d[k].name
<1> DEFINE p == PutEntry(d, name, node)
<1>1. Named(name, node) \in [name : Labels, node : Nodes]
      /\ Named(name, node).name = name /\ Named(name, node).node = node
  BY DEF Named
<1>2. d \in Seq([name : Labels, node : Nodes]) /\ DOMAIN d = 1..Len(d) /\ Len(d) \in Nat
  BY DEF Dicts
<1>3. \A k \in DOMAIN d : d[k] \in [name : Labels, node : Nodes]
  <2>1. \A E : d \in Seq(E) => \A k \in DOMAIN d : d[k] \in E
    OBVIOUS
  <2>2. QED
    BY <1>2, <2>1, Zenon
<1>4. CASE name \in NamesOf(d)
  <2>1. p = [k \in DOMAIN d |-> IF d[k].name = name THEN Named(name, node) ELSE d[k]]
    BY <1>4 DEF PutEntry
  <2>2. DOMAIN p = DOMAIN d /\ \A k \in DOMAIN d : p[k].name = d[k].name
    BY <1>1, <2>1
  <2>3. p \in Seq([name : Labels, node : Nodes])
    <3>1. p \in [1..Len(d) -> [name : Labels, node : Nodes]]
      BY <1>1, <1>2, <1>3, <2>1
    <3>2. QED
      BY <1>2, <3>1
  <2>4. p \in Dicts(Labels, Nodes)
    BY <2>2, <2>3 DEF Dicts
  <2>5. NamesOf(p) = NamesOf(d) \union {name}
    BY <1>4, <2>2 DEF NamesOf
  <2>6. PICK j \in DOMAIN d : d[j].name = name
    BY <1>4 DEF NamesOf
  <2>7. \A k \in DOMAIN d : At(p, d[k].name) = p[k].node
    BY <2>2, <2>4, AtFacts
  <2>8. At(p, name) = node
    BY <1>1, <2>1, <2>6, <2>7
  <2>9. ASSUME NEW x \in NamesOf(d), x # name
        PROVE  At(p, x) = At(d, x)
    <3>1. PICK k \in DOMAIN d : d[k].name = x
      BY DEF NamesOf
    <3>2. p[k] = d[k]
      BY <2>1, <2>9, <3>1
    <3>3. At(d, d[k].name) = d[k].node
      BY AtFacts
    <3>4. QED
      BY <2>7, <3>1, <3>2, <3>3
  <2>10. QED
    BY <2>2, <2>4, <2>5, <2>8, <2>9
<1>5. CASE name \notin NamesOf(d)
  <2>1. p = Append(d, Named(name, node))
    BY <1>5 DEF PutEntry
  <2>2. /\ p \in Seq([name : Labels, node : Nodes])
        /\ DOMAIN p = 1..(Len(d) + 1)
        /\ p[Len(d) + 1] = Named(name, node)
        /\ \A k \in DOMAIN d : p[k] = d[k]
    BY <1>1, <1>2, <2>1
  <2>3. \A k \in DOMAIN d : d[k].name # name
    BY <1>5 DEF NamesOf
  <2>4. \A k \in DOMAIN p : k \in DOMAIN d \/ k = Len(d) + 1
    BY <1>2, <2>2
  <2>5. p \in Dicts(Labels, Nodes)
    <3>1. ASSUME NEW j \in DOMAIN p, NEW k \in DOMAIN p, p[j].name = p[k].name
          PROVE  j = k
      <4>1. CASE j \in DOMAIN d /\ k \in DOMAIN d
        BY <2>2, <3>1, <4>1 DEF Dicts
      <4>2. CASE j \notin DOMAIN d \/ k \notin DOMAIN d
        BY <1>1, <2>2, <2>3, <2>4, <3>1, <4>2
      <4>3. QED
        BY <4>1, <4>2
    <3>2. QED
      BY <2>2, <3>1 DEF Dicts
  <2>6. Len(d) + 1 \in DOMAIN p /\ DOMAIN d \subseteq DOMAIN p
    BY <1>2, <2>2
  <2>7. NamesOf(p) = NamesOf(d) \union {name}
    BY <1>1, <2>2, <2>4, <2>6 DEF NamesOf
  <2>8. At(p, name) = node
    BY <1>1, <2>2, <2>5, <2>6, AtFacts
  <2>9. ASSUME NEW x \in NamesOf(d)
        PROVE  At(p, x) = At(d, x)
    <3>1. PICK k \in DOMAIN d : d[k].name = x
      BY DEF NamesOf
    <3>2. At(d, d[k].name) = d[k].node /\ At(p, p[k].name) = p[k].node
      BY <2>5, <2>6, AtFacts
    <3>3. QED
      BY <2>2, <3>1, <3>2
  <2>10. QED
    BY <2>2, <2>5, <2>6, <2>7, <2>8, <2>9
<1>6. QED
  BY <1>4, <1>5

\* dict.update: the new entries' nodes where there are any, the old ones' else,
\* and the old names keep their places.
LEMMA UpdatedFacts ==
  ASSUME NEW Labels, NEW Nodes,
         NEW old \in Dicts(Labels, Nodes), NEW new \in Dicts(Labels, Nodes)
  PROVE  /\ Updated(old, new) \in Dicts(Labels, Nodes)
         /\ NamesOf(Updated(old, new)) = NamesOf(old) \union NamesOf(new)
         /\ \A x \in NamesOf(new) : At(Updated(old, new), x) = At(new, x)
         /\ \A x \in NamesOf(old) \ NamesOf(new) : At(Updated(old, new), x) = At(old, x)
         /\ \A k \in DOMAIN old : /\ k \in DOMAIN Updated(old, new)
                                  /\ Updated(old, new)[k].name = old[k].name
<1> DEFINE D == Dicts(Labels, Nodes)
           n == Len(new)
           Steps(g) == g = [k \in 0..n |-> IF k = 0 THEN old
                                           ELSE PutEntry(g[k - 1], new[k].name, new[k].node)]
           f == CHOOSE g : Steps(g)
<1>1. new \in Seq([name : Labels, node : Nodes]) /\ DOMAIN new = 1..n /\ n \in Nat
  BY DEF Dicts
<1>2. \A k \in 1..n : new[k].name \in Labels /\ new[k].node \in Nodes
  <2>1. \A E : new \in Seq(E) => \A k \in DOMAIN new : new[k] \in E
    OBVIOUS
  <2>2. \A k \in 1..n : new[k] \in [name : Labels, node : Nodes]
    BY <1>1, <2>1, Zenon
  <2>3. QED
    BY <2>2
<1>3. Updated(old, new) = f[n]
  BY DEF Updated
<1>4. \E g : Steps(g)
  <2> DEFINE step == [k \in 1..n |-> [d \in D |-> PutEntry(d, new[k].name, new[k].node)]]
  <2>1. \A d \in D, k \in 1..n : PutEntry(d, new[k].name, new[k].node) \in D
    BY <1>2, PutFacts
  <2>2. step \in [1..n -> [D -> D]] /\ old \in D
    BY <2>1
  <2>3. \A g \in [0..n -> D], k \in 1..n :
          step[k][g[k - 1]] = PutEntry(g[k - 1], new[k].name, new[k].node)
    BY <1>1
  <2> HIDE DEF step, D
  <2>4. PICK g \in [0..n -> D] : g[0] = old /\ \A k \in 1..n : g[k] = step[k][g[k - 1]]
    <3> HIDE DEF n
    <3>1. n \in Nat
      BY <1>1
    <3>2. QED
      BY <2>2, <3>1, Iteration
  <2>5. \A k \in 0..n : g[k] = IF k = 0 THEN old
                               ELSE PutEntry(g[k - 1], new[k].name, new[k].node)
    BY <1>1, <2>3, <2>4
  <2>6. Steps(g)
    BY <2>4, <2>5
  <2>7. QED
    BY <2>6
<1>5. Steps(f)
  BY <1>4
<1> HIDE DEF f
<1>6. f[0] = old /\ \A k \in 1..n : f[k] = PutEntry(f[k - 1], new[k].name, new[k].node)
  BY <1>1, <1>5
\* After k entries.
<1> DEFINE UpToNow(k) ==
      /\ f[k] \in D
      /\ NamesOf(f[k]) = NamesOf(old) \union {new[j].name : j \in 1..k}
      /\ \A j \in 1..k : At(f[k], new[j].name) = new[j].node
      /\ \A x \in NamesOf(old) \ {new[j].name : j \in 1..k} : At(f[k], x) = At(old, x)
      /\ \A j \in DOMAIN old : j \in DOMAIN f[k] /\ f[k][j].name = old[j].name
    good == {k \in 0..n : UpToNow(k)}
<1>7. UpToNow(0)
  BY <1>6
<1>8. ASSUME NEW k \in 1..n, UpToNow(k - 1)
      PROVE  UpToNow(k)
  <2> DEFINE before == f[k - 1]
  <2>1. f[k] = PutEntry(before, new[k].name, new[k].node) /\ before \in D
    BY <1>6, <1>8
  <2>2. k \in Nat /\ 1..k = 1..(k - 1) \union {k} /\ k \notin 1..(k - 1)
        /\ k \in DOMAIN new /\ 1..(k - 1) \subseteq DOMAIN new
    BY <1>1
  <2>3. \A j \in 1..(k - 1) : new[j].name # new[k].name
    BY <2>2 DEF Dicts
  <2>4. {new[j].name : j \in 1..k} = {new[j].name : j \in 1..(k - 1)} \union {new[k].name}
    BY <2>2
  <2>5. new[k].name \in Labels /\ new[k].node \in Nodes
    BY <1>2
  <2> HIDE DEF before
  <2>6. /\ f[k] \in D
        /\ NamesOf(f[k]) = NamesOf(before) \union {new[k].name}
        /\ At(f[k], new[k].name) = new[k].node
        /\ \A x \in NamesOf(before) : x # new[k].name => At(f[k], x) = At(before, x)
        /\ \A j \in DOMAIN before : j \in DOMAIN f[k] /\ f[k][j].name = before[j].name
    BY <2>1, <2>5, PutFacts
  <2>7. NamesOf(f[k]) = NamesOf(old) \union {new[j].name : j \in 1..k}
    BY <1>8, <2>4, <2>6 DEF before
  <2>8. ASSUME NEW j \in 1..k PROVE At(f[k], new[j].name) = new[j].node
    <3>1. CASE j = k
      BY <2>6, <3>1
    <3>2. CASE j \in 1..(k - 1)
      <4>1. new[j].name \in NamesOf(before)
        BY <1>8, <3>2 DEF before
      <4>2. QED
        BY <1>8, <2>3, <2>6, <3>2, <4>1 DEF before
    <3>3. QED
      BY <2>2, <3>1, <3>2
  <2>9. ASSUME NEW x \in NamesOf(old) \ {new[j].name : j \in 1..k}
        PROVE  At(f[k], x) = At(old, x)
    <3>1. x \in NamesOf(before) /\ x # new[k].name /\ x \notin {new[j].name : j \in 1..(k - 1)}
      BY <1>8, <2>4 DEF before
    <3>2. QED
      BY <1>8, <2>6, <3>1 DEF before
  <2>10. QED
    BY <1>8, <2>6, <2>7, <2>8, <2>9 DEF before
<1>9. UpToNow(n)
  <2> HIDE DEF UpToNow
  <2>1. good \in SUBSET (0..n) /\ 0 \in good /\ \A k \in 1..n : k - 1 \in good => k \in good
    BY <1>1, <1>7, <1>8
  <2>2. good = 0..n
    <3> HIDE DEF good
    <3>1. QED
      BY <1>1, <2>1, UpTo
  <2>3. QED
    BY <1>1, <2>2
<1>10. NamesOf(new) = {new[j].name : j \in 1..n}
  BY <1>1 DEF NamesOf
<1>11. ASSUME NEW x \in NamesOf(new) PROVE At(f[n], x) = At(new, x)
  <2>1. PICK j \in DOMAIN new : new[j].name = x
    BY DEF NamesOf
  <2>2. At(new, new[j].name) = new[j].node
    BY AtFacts
  <2>3. QED
    BY <1>1, <1>9, <2>1, <2>2
<1>12. QED
  BY <1>3, <1>9, <1>10, <1>11

\* A node that composes, and its branches resolved: their properties are dicts.
Composes(n, branches, Labels, Nodes) ==
  /\ DOMAIN n = DOMAIN Blank /\ n.props \in Dicts(Labels, Nodes)
  /\ Len(branches) \in Nat /\ DOMAIN branches = 1..Len(branches)
  /\ \A k \in DOMAIN branches : branches[k].props \in Dicts(Labels, Nodes)

\* A name has the node of the last branch that has it, or else the composing
\* node's own; the own names keep their places.
LastWins(props, own, branches) ==
  LET Has(k, x) == x \in NamesOf(branches[k].props)
  IN  /\ NamesOf(props) = NamesOf(own)
           \union UNION {NamesOf(branches[k].props) : k \in DOMAIN branches}
      /\ \A k \in DOMAIN branches : \A x \in NamesOf(branches[k].props) :
           (\A j \in DOMAIN branches : Has(j, x) => j <= k)
             => At(props, x) = At(branches[k].props, x)
      /\ \A x \in NamesOf(own) :
           (\A j \in DOMAIN branches : ~Has(j, x)) => At(props, x) = At(own, x)
      /\ \A k \in DOMAIN own : k \in DOMAIN props /\ props[k].name = own[k].name

\* A name is required if the node requires it, or by allOf if some branch does
\* and by the others if each branch that lists any does.
NeedsJoin(need, n, branches) ==
  \A r : r \in need <=>
    \/ r \in n.need
    \/ \E k \in DOMAIN branches :
         /\ branches[k].says /\ r \in branches[k].need
         /\ n.comp = "allOf" \/ \A j \in DOMAIN branches :
                                   branches[j].says => r \in branches[j].need

\* A node without a type gets that of the first branch with one, not from allOf.
FirstTypeWins(type, n, branches) ==
  LET Typed(k) == branches[k].type \notin {"", "null"}
  IN  IF n.comp = "allOf" \/ n.type # "" THEN type = n.type
      ELSE /\ (\A k \in DOMAIN branches : ~Typed(k)) => type = ""
           /\ \A k \in DOMAIN branches :
                Typed(k) /\ (\A j \in DOMAIN branches : Typed(j) => k <= j)
                  => type = branches[k].type

\* The properties of a composition, by induction over the branches.
LEMMA MergedProps ==
  ASSUME NEW Labels, NEW Nodes, NEW n, NEW branches, Composes(n, branches, Labels, Nodes)
  PROVE  /\ Merged(n, branches).props \in Dicts(Labels, Nodes)
         /\ LastWins(Merged(n, branches).props, n.props, branches)
<1> DEFINE D == Dicts(Labels, Nodes)
           len == Len(branches)
           own == n.props
           of(k) == branches[k].props
           Steps(g) == g = [k \in 0..len |-> IF k = 0 THEN own ELSE Updated(g[k - 1], of(k))]
           f == CHOOSE g : Steps(g)
           Has(k, x) == x \in NamesOf(of(k))
<1>1. Merged(n, branches).props = f[len]
  <2>1. "props" \in DOMAIN n
    BY Zenon DEF Composes, Blank
  <2>2. QED
    BY <2>1 DEF Merged
<1>2. own \in D /\ len \in Nat /\ DOMAIN branches = 1..len /\ \A k \in 1..len : of(k) \in D
  BY DEF Composes
<1>3. \E g : Steps(g)
  <2> DEFINE step == [k \in 1..len |-> [d \in D |-> Updated(d, of(k))]]
  <2>1. \A d \in D, k \in 1..len : Updated(d, of(k)) \in D
    BY <1>2, UpdatedFacts
  <2>2. step \in [1..len -> [D -> D]] /\ own \in D
    BY <1>2, <2>1
  <2>3. \A g \in [0..len -> D], k \in 1..len : step[k][g[k - 1]] = Updated(g[k - 1], of(k))
    OBVIOUS
  <2> HIDE DEF step, D
  <2>4. PICK g \in [0..len -> D] : g[0] = own /\ \A k \in 1..len : g[k] = step[k][g[k - 1]]
    <3>1. len \in Nat
      BY <1>2
    <3> HIDE DEF len, own
    <3>2. QED
      BY <2>2, <3>1, Iteration
  <2>5. \A k \in 0..len : g[k] = IF k = 0 THEN own ELSE Updated(g[k - 1], of(k))
    BY <2>3, <2>4
  <2>6. Steps(g)
    BY <2>4, <2>5
  <2>7. QED
    BY <2>6
<1>4. Steps(f)
  BY <1>3
<1> HIDE DEF f
<1>5. f[0] = own /\ \A k \in 1..len : f[k] = Updated(f[k - 1], of(k))
  BY <1>4
\* After k branches.
<1> DEFINE UpToNow(k) ==
      /\ f[k] \in D
      /\ NamesOf(f[k]) = NamesOf(own) \union UNION {NamesOf(of(j)) : j \in 1..k}
      /\ \A b \in 1..k : \A x \in NamesOf(of(b)) :
           (\A j \in 1..k : Has(j, x) => j <= b) => At(f[k], x) = At(of(b), x)
      /\ \A x \in NamesOf(own) : (\A j \in 1..k : ~Has(j, x)) => At(f[k], x) = At(own, x)
      /\ \A j \in DOMAIN own : j \in DOMAIN f[k] /\ f[k][j].name = own[j].name
    good == {k \in 0..len : UpToNow(k)}
<1>6. UpToNow(0)
  BY <1>2, <1>5
<1>7. ASSUME NEW k \in 1..len, UpToNow(k - 1)
      PROVE  UpToNow(k)
  <2> DEFINE before == f[k - 1]
             new == of(k)
  <2>1. f[k] = Updated(before, new) /\ before \in D /\ new \in D
    BY <1>2, <1>5, <1>7
  <2>2. k \in Nat /\ 1..k = 1..(k - 1) \union {k} /\ \A j \in 1..(k - 1) : j < k /\ ~(k <= j)
    OBVIOUS
  <2> HIDE DEF before, new
  <2>3. /\ f[k] \in D
        /\ NamesOf(f[k]) = NamesOf(before) \union NamesOf(new)
        /\ \A x \in NamesOf(new) : At(f[k], x) = At(new, x)
        /\ \A x \in NamesOf(before) \ NamesOf(new) : At(f[k], x) = At(before, x)
        /\ \A j \in DOMAIN before : j \in DOMAIN f[k] /\ f[k][j].name = before[j].name
    BY <2>1, UpdatedFacts
  <2>4. NamesOf(f[k]) = NamesOf(own) \union UNION {NamesOf(of(j)) : j \in 1..k}
    <3>1. NamesOf(new) = NamesOf(of(k))
      BY DEF new
    <3>2. \A x : (\E j \in 1..k : x \in NamesOf(of(j)))
                  <=> (\E j \in 1..(k - 1) : x \in NamesOf(of(j))) \/ x \in NamesOf(of(k))
      <4> HIDE DEF of
      <4>1. QED
        BY ONLY <2>2
    <3>3. NamesOf(before) = NamesOf(own) \union UNION {NamesOf(of(j)) : j \in 1..(k - 1)}
      BY <1>7 DEF before
    <3> HIDE DEF of, own
    <3>4. QED
      BY ONLY <2>3, <3>1, <3>2, <3>3
  <2>5. ASSUME NEW b \in 1..k, NEW x \in NamesOf(of(b)), \A j \in 1..k : Has(j, x) => j <= b
        PROVE  At(f[k], x) = At(of(b), x)
    <3>1. CASE b = k
      BY <2>3, <3>1 DEF new
    <3>2. CASE b \in 1..(k - 1)
      <4>1. x \notin NamesOf(new)
        BY <2>2, <2>5, <3>2 DEF new
      <4>2. x \in NamesOf(before) /\ At(before, x) = At(of(b), x)
        BY <1>7, <2>2, <2>5, <3>2 DEF before
      <4>3. QED
        BY <2>3, <4>1, <4>2
    <3>3. QED
      BY <2>2, <3>1, <3>2
  <2>6. ASSUME NEW x \in NamesOf(own), \A j \in 1..k : ~Has(j, x)
        PROVE  At(f[k], x) = At(own, x)
    <3>1. x \in NamesOf(before) \ NamesOf(new) /\ At(before, x) = At(own, x)
      BY <1>7, <2>2, <2>6 DEF before, new
    <3>2. QED
      BY <2>3, <3>1
  <2>7. QED
    BY <1>7, <2>3, <2>4, <2>5, <2>6 DEF before
<1>8. UpToNow(len)
  <2> HIDE DEF UpToNow
  <2>1. good \in SUBSET (0..len) /\ 0 \in good /\ \A k \in 1..len : k - 1 \in good => k \in good
    BY <1>6, <1>7
  <2>2. good = 0..len
    <3>1. len \in Nat
      BY <1>2
    <3> HIDE DEF good, len
    <3>2. QED
      BY <2>1, <3>1, UpTo
  <2>3. QED
    BY <2>2
<1>9. QED
  BY <1>1, <1>2, <1>8 DEF LastWins

\* What _resolve_node puts in the place of a composition, for every node and
\* every list of resolved branches: whose properties, requirements and type the
\* command's options come from.  Meaning, in RefResolver, says the same of whole
\* documents, where only the runs check it.
THEOREM CompositionMeans ==
  ASSUME NEW Labels, NEW Nodes, NEW n, NEW branches, Composes(n, branches, Labels, Nodes)
  PROVE  /\ Merged(n, branches).props \in Dicts(Labels, Nodes)
         /\ LastWins(Merged(n, branches).props, n.props, branches)
         /\ NeedsJoin(Merged(n, branches).need, n, branches)
         /\ FirstTypeWins(Merged(n, branches).type, n, branches)
<1> DEFINE all == DOMAIN branches
           merged == Merged(n, branches)
           Typed(k) == branches[k].type \notin {"", "null"}
<1>1. "props" \in DOMAIN n /\ "need" \in DOMAIN n /\ "type" \in DOMAIN n
  BY Zenon DEF Composes, Blank
<1>2. NeedsJoin(merged.need, n, branches)
  <2> DEFINE saying == {k \in all : branches[k].says}
             shared == UNION {branches[k].need : k \in saying}
  <2>1. merged.need = n.need \union
          IF n.comp = "allOf" THEN shared
          ELSE {q \in shared : \A k \in saying : q \in branches[k].need}
    BY <1>1 DEF Merged
  <2> HIDE DEF merged
  <2>2. QED
    BY <2>1 DEF NeedsJoin
<1>3. merged.type = IF n.comp = "allOf" \/ n.type # "" THEN n.type ELSE FirstType(branches)
  BY <1>1 DEF Merged
<1>4. (\A k \in all : ~Typed(k)) => FirstType(branches) = ""
  BY DEF FirstType
<1>5. ASSUME NEW k \in all, Typed(k), \A j \in all : Typed(j) => k <= j
      PROVE  FirstType(branches) = branches[k].type
  <2> DEFINE typed == {j \in all : Typed(j)}
  <2>1. k \in typed /\ typed \subseteq Nat /\ \A j \in typed : k <= j
    <3>1. all \subseteq Nat
      BY DEF Composes
    <3> HIDE DEF Typed
    <3>2. QED
      BY <1>5, <3>1
  <2>2. FirstType(branches) = branches[CHOOSE b \in typed : \A j \in typed : b <= j].type
    BY <2>1 DEF FirstType
  <2> HIDE DEF typed
  <2>3. (CHOOSE b \in typed : \A j \in typed : b <= j) = k
    BY <2>1
  <2>4. QED
    BY <2>2, <2>3
<1> HIDE DEF merged
<1>6. FirstTypeWins(merged.type, n, branches)
  BY <1>3, <1>4, <1>5 DEF FirstTypeWins
<1>7. QED
  BY <1>2, <1>6, MergedProps DEF merged
=============================================================================
