---------------------------- MODULE CommandTree ----------------------------
(***************************************************************************)
(* cli.py: the lazily built command tree of GroupedModuleGroup.            *)
(*                                                                         *)
(* The first help page, completion or command lookup builds three caches   *)
(* from the registry: aliases and descriptors (_build_alias_map), then     *)
(* groups and top-level commands (_build_group_map).  Any registry call    *)
(* may raise; what was cached before the error stays.  Lookups then serve  *)
(* commands from the caches and keep each command object they build.       *)
(***************************************************************************)
EXTENDS Naturals, Sequences, Functions

CONSTANTS
  Registries,  \* catalogues, sequences of modules as registry.list() orders
               \* them, each with an exposure filter: a mode and the ids that
               \* its patterns match
  Reserved,    \* _reserved_group_names
  Registered,  \* names of the root commands the factory registered
  ShellSafe,   \* group names that match [a-z][a-z0-9_-]*
  Split,       \* a dotted name's group and command: partition(".")
  Names,       \* names asked for at the root
  Builds(_)    \* whether build_module_command makes a command of a schema

\* One module: its id, display.cli.alias ("" when absent), display.cli.group
\* ("absent" when absent), whether the registry has its definition, and the
\* document of its input schema.
ModuleFields == {"id", "alias", "group", "defined", "schema"}

ASSUME RegistriesAssumption ==
  \A r \in Registries :
     /\ r.filter.mode \in {"all", "include", "exclude", "none"}
     /\ Len(r.catalogue) \in Nat /\ DOMAIN r.catalogue = 1..Len(r.catalogue)
     /\ \A k \in DOMAIN r.catalogue :
          /\ DOMAIN r.catalogue[k] = ModuleFields
          /\ \A j \in DOMAIN r.catalogue :
               r.catalogue[j].id = r.catalogue[k].id => j = k
ASSUME SplitAssumption ==
  \A name \in DOMAIN Split : Split[name] = <<Split[name][1], Split[name][2]>>

VARIABLES
  catalogue,    \* what the registry holds
  filter,       \* the exposure filter
  pc,           \* where the lookup under way stands
  i,            \* loop index, over the catalogue
  asked,        \* the name looked up, or the whole list
  described,    \* keys of _descriptor_cache
  aliases,      \* _alias_map
  aliasBuilt,   \* _alias_map_built
  groups,       \* _group_map: group, then command, to module id
  top,          \* _top_level_modules: command to module id
  groupBuilt,   \* _group_map_built
  groupCache,   \* groups already handed out as _LazyGroup
  cmdCache,     \* _module_cache: top-level commands already handed out
  memberCache   \* _cmd_cache of the handed-out groups

registryVars == <<catalogue, filter>>
aliasVars    == <<described, aliases, aliasBuilt>>
treeVars     == <<groups, top, groupBuilt>>
cacheVars    == <<groupCache, cmdCache, memberCache>>
vars == <<registryVars, pc, i, asked, aliasVars, treeVars, cacheVars>>

Ids == {catalogue[k].id : k \in DOMAIN catalogue}
Put(f, key, value) ==
  [x \in DOMAIN f \union {key} |-> IF x = key THEN value ELSE f[x]]
-----------------------------------------------------------------------------
(* What one module's overlay asks for. *)

CliName(m) == IF m.alias # "" THEN m.alias ELSE m.id

\* _resolve_group: group ("" for None) and command name.
Resolve(m) ==
  CASE m.group \notin {"absent", ""} -> <<m.group, CliName(m)>>
    [] m.group = ""                  -> <<"", CliName(m)>>
    [] m.group = "absent" /\ CliName(m) \in DOMAIN Split -> Split[CliName(m)]
    [] OTHER                         -> <<"", CliName(m)>>

\* A reserved group, or a reserved name for a command with no group.
Clashes(m) == \/ Resolve(m)[1] # "" /\ Resolve(m)[1] \in Reserved
              \/ Resolve(m)[1] = "" /\ Resolve(m)[2] \in Reserved

IsTop(m) == Resolve(m)[1] = "" \/ Resolve(m)[1] \notin ShellSafe

ModuleAt(id) == CHOOSE m \in Range(catalogue) : m.id = id

\* build_module_command gives a command; otherwise it exits the process from
\* within the lookup.
IsBuilt(id) == Builds(ModuleAt(id).schema)

\* ExposureFilter.is_exposed
IsExposed(m) == \/ filter.mode = "all"
                \/ filter.mode = "include" /\ m.id \in filter.hits
                \/ filter.mode = "exclude" /\ m.id \notin filter.hits
-----------------------------------------------------------------------------
TypeOK ==
  /\ \A k \in DOMAIN catalogue : DOMAIN catalogue[k] = ModuleFields
  /\ filter.mode \in {"all", "include", "exclude", "none"}
  /\ pc \in {"idle", "build", "aliases", "list", "place", "serve"}
  /\ i \in 1..(Len(catalogue) + 1)
  /\ asked \in Names \union {"*"}
  /\ described \subseteq Ids
  /\ \A a \in DOMAIN aliases : aliases[a] \in described
  /\ aliasBuilt \in BOOLEAN /\ groupBuilt \in BOOLEAN
  /\ \A g \in DOMAIN groups : \A c \in DOMAIN groups[g] : groups[g][c] \in Ids
  /\ \A c \in DOMAIN top : top[c] \in Ids
  /\ groupCache \subseteq DOMAIN groups
  /\ DOMAIN cmdCache \subseteq DOMAIN top
  /\ \A p \in DOMAIN memberCache : p[1] \in groupCache

Init ==
  /\ \E r \in Registries : catalogue = r.catalogue /\ filter = r.filter
  /\ pc = "idle" /\ i = 1 /\ asked = "*"
  /\ described = {} /\ aliases = <<>> /\ aliasBuilt = FALSE
  /\ groups = <<>> /\ top = <<>> /\ groupBuilt = FALSE
  /\ groupCache = {} /\ cmdCache = <<>> /\ memberCache = <<>>

\* list_commands and format_help ("*"), or get_command of a name that is not
\* one of the registered root commands, which are answered without the tree.
Ask ==
  /\ pc = "idle"
  /\ asked' \in (Names \ Registered) \union {"*"}
  /\ pc' = "build"
  /\ UNCHANGED <<registryVars, i, aliasVars, treeVars, cacheVars>>

\* The two "already built" returns, and registry.list() for the alias map;
\* when it raises, the group map is built from what there is.
StartBuild ==
  /\ pc = "build"
  /\ \/ groupBuilt /\ pc' = "serve"
     \/ ~groupBuilt /\ aliasBuilt /\ pc' = "list"
     \/ ~groupBuilt /\ ~aliasBuilt /\ pc' \in {"aliases", "list"}
  /\ i' = 1
  /\ UNCHANGED <<registryVars, asked, aliasVars, treeVars, cacheVars>>

\* One round of _build_alias_map's loop; get_definition may raise.
DescribeModule ==
  /\ pc = "aliases" /\ i <= Len(catalogue)
  /\ LET m == catalogue[i] IN
     \/ /\ m.defined
        /\ described' = described \union {m.id}
        /\ aliases' = IF m.alias \in {"", m.id} THEN aliases
                      ELSE Put(aliases, m.alias, m.id)
        /\ i' = i + 1
        /\ UNCHANGED pc
     \/ /\ ~m.defined
        /\ i' = i + 1
        /\ UNCHANGED <<pc, described, aliases>>
     \/ /\ pc' = "list"
        /\ UNCHANGED <<i, described, aliases>>
  /\ UNCHANGED <<registryVars, asked, aliasBuilt, treeVars, cacheVars>>

EndAliases ==
  /\ pc = "aliases" /\ i > Len(catalogue)
  /\ aliasBuilt' = TRUE
  /\ pc' = "list"
  /\ UNCHANGED <<registryVars, i, asked, described, aliases, treeVars,
                 cacheVars>>

\* registry.list() for the group map; when it raises, the build is abandoned.
ListAgain ==
  /\ pc = "list"
  /\ pc' \in {"place", "serve"}
  /\ i' = 1
  /\ UNCHANGED <<registryVars, asked, aliasVars, treeVars, cacheVars>>

\* Mutant of Placed: setdefault, so that the first claim of a place wins.
PlacedFirst(m) ==
  LET g == Resolve(m)[1]
      c == Resolve(m)[2]
      old == IF g \in DOMAIN groups THEN groups[g] ELSE <<>>
  IN  IF IsTop(m)
        THEN /\ top' = IF c \in DOMAIN top THEN top ELSE Put(top, c, m.id)
             /\ UNCHANGED groups
        ELSE /\ groups' = Put(groups, g, IF c \in DOMAIN old THEN old
                                         ELSE Put(old, c, m.id))
             /\ UNCHANGED top

\* The module takes its place; a later module with the same place replaces it.
Placed(m) ==
  LET g == Resolve(m)[1]
      c == Resolve(m)[2]
  IN  IF IsTop(m)
        THEN top' = Put(top, c, m.id) /\ UNCHANGED groups
        ELSE /\ groups' = Put(groups, g,
                              Put(IF g \in DOMAIN groups THEN groups[g] ELSE <<>>,
                                  c, m.id))
             /\ UNCHANGED top

\* Mutant of PlaceModule: the exposure filter is forgotten.
PlaceHiddenToo ==
  /\ pc = "place" /\ i <= Len(catalogue)
  /\ LET m == catalogue[i] IN
     \/ /\ m.id \notin described
        /\ i' = i + 1 /\ UNCHANGED <<pc, groups, top>>
     \/ /\ m.id \in described /\ Clashes(m)
        /\ pc' = "idle" /\ UNCHANGED <<i, groups, top>>
     \/ /\ m.id \in described /\ ~Clashes(m)
        /\ Placed(m) /\ i' = i + 1 /\ UNCHANGED pc
  /\ UNCHANGED <<registryVars, asked, aliasVars, groupBuilt, cacheVars>>

\* One round of _build_group_map's loop.  A clash raises UsageError, through
\* the lookup, and leaves the map half built.
PlaceModule ==
  /\ pc = "place" /\ i <= Len(catalogue)
  /\ LET m == catalogue[i] IN
     \/ /\ m.id \notin described \/ ~IsExposed(m)
        /\ i' = i + 1 /\ UNCHANGED <<pc, groups, top>>
     \/ /\ m.id \in described /\ IsExposed(m) /\ Clashes(m)
        /\ pc' = "idle" /\ UNCHANGED <<i, groups, top>>
     \/ /\ m.id \in described /\ IsExposed(m) /\ ~Clashes(m)
        /\ Placed(m) /\ i' = i + 1 /\ UNCHANGED pc
  /\ UNCHANGED <<registryVars, asked, aliasVars, groupBuilt, cacheVars>>

\* Mutant of EndPlacing: a partial alias map leaves the group map to be built
\* again, while commands are already handed out from it.
EndPlacingIfComplete ==
  /\ pc = "place" /\ i > Len(catalogue)
  /\ groupBuilt' = aliasBuilt
  /\ pc' = "serve"
  /\ UNCHANGED <<registryVars, i, asked, aliasVars, groups, top, cacheVars>>

EndPlacing ==
  /\ pc = "place" /\ i > Len(catalogue)
  /\ groupBuilt' = TRUE
  /\ pc' = "serve"
  /\ UNCHANGED <<registryVars, i, asked, aliasVars, groups, top, cacheVars>>

\* Mutant of Serve: an unknown name is handed out as an empty group.
ServeAnything ==
  /\ pc = "serve"
  /\ pc' = "idle" /\ asked' = "*" /\ i' = 1
  /\ groupCache' = IF asked \in DOMAIN top THEN groupCache
                   ELSE groupCache \union {asked}
  /\ UNCHANGED <<registryVars, aliasVars, treeVars, memberCache, cmdCache>>

\* The rest of get_command: a group, then a top-level module, then no such
\* command.  What is handed out is cached; listing caches nothing, nor does a
\* module whose command cannot be built.
Serve ==
  /\ pc = "serve"
  /\ pc' = "idle" /\ asked' = "*" /\ i' = 1
  /\ CASE asked \in DOMAIN groups ->
            groupCache' = groupCache \union {asked} /\ UNCHANGED cmdCache
       [] asked \in DOMAIN top \ DOMAIN groups ->
            /\ cmdCache' = IF asked \in DOMAIN cmdCache \/ ~IsBuilt(top[asked])
                             THEN cmdCache
                             ELSE Put(cmdCache, asked, top[asked])
            /\ UNCHANGED groupCache
       [] OTHER -> UNCHANGED <<groupCache, cmdCache>>
  /\ UNCHANGED <<registryVars, aliasVars, treeVars, memberCache>>

\* _LazyGroup.get_command, on a group handed out before; its members are the
\* very dict of the group map.
ServeMember ==
  /\ pc = "idle"
  /\ \E g \in groupCache : \E c \in DOMAIN groups[g] :
       memberCache' = IF <<g, c>> \in DOMAIN memberCache \/ ~IsBuilt(groups[g][c])
                        THEN memberCache
                        ELSE Put(memberCache, <<g, c>>, groups[g][c])
  /\ UNCHANGED <<registryVars, pc, i, asked, aliasVars, treeVars, groupCache,
                 cmdCache>>

Next ==
  \/ Ask \/ StartBuild \/ DescribeModule \/ EndAliases \/ ListAgain
  \/ PlaceModule \/ EndPlacing \/ Serve \/ ServeMember

Spec == Init /\ [][Next]_vars
-----------------------------------------------------------------------------
(* Properties. *)

\* What is handed out under a name is what the module's own overlay declares
\* under that name, and the exposure filter admits it, however often the
\* registry failed on the way.
ServedAsDeclared ==
  /\ \A c \in DOMAIN cmdCache :
       LET m == ModuleAt(cmdCache[c])
       IN  m.defined /\ IsExposed(m) /\ IsTop(m) /\ Resolve(m)[2] = c
  /\ \A p \in DOMAIN memberCache :
       LET m == ModuleAt(memberCache[p])
       IN  m.defined /\ IsExposed(m) /\ Resolve(m) = p /\ p[1] \in ShellSafe

\* Exposed modules that end up at a place of the tree, and the reference: of
\* several modules that ask for one place the last in the catalogue has it.
Claims(k, g, c) ==
  LET m == catalogue[k]
  IN  /\ m.defined /\ IsExposed(m) /\ Resolve(m)[2] = c
      /\ IF g = "" THEN IsTop(m) ELSE ~IsTop(m) /\ Resolve(m)[1] = g

LastClaim(g, c, id) ==
  \E k \in DOMAIN catalogue :
     /\ catalogue[k].id = id /\ Claims(k, g, c)
     /\ \A j \in DOMAIN catalogue : Claims(j, g, c) => j <= k

\* A tree built without a registry error holds every exposed module's place,
\* and at each place the last module that claims it.
TreeIsComplete ==
  (groupBuilt /\ aliasBuilt) =>
     /\ \A c \in DOMAIN top : LastClaim("", c, top[c])
     /\ \A g \in DOMAIN groups : \A c \in DOMAIN groups[g] :
          LastClaim(g, c, groups[g][c])
     /\ \A k \in DOMAIN catalogue :
          LET m == catalogue[k]
              c == Resolve(m)[2]
          IN  (m.defined /\ IsExposed(m)) =>
                IF IsTop(m) THEN c \in DOMAIN top
                ELSE /\ Resolve(m)[1] \in DOMAIN groups
                     /\ c \in DOMAIN groups[Resolve(m)[1]]

\* Between lookups, what runs under a name is what help and completion show
\* under it: commands handed out earlier agree with the tree as it stands, and
\* a name handed out as a command never becomes a group.
CachesAgree ==
  pc = "idle" =>
     /\ \A c \in DOMAIN cmdCache : cmdCache[c] = top[c] /\ c \notin DOMAIN groups
     /\ \A p \in DOMAIN memberCache : memberCache[p] = groups[p[1]][p[2]]

\* cli.py: "Transient registry errors - allow retry on next call": a tree is
\* not declared built while part of the registry has not been read.
TransientErrorsRetried == groupBuilt => aliasBuilt
=============================================================================
