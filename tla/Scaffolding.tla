---------------------------- MODULE Scaffolding ----------------------------
(***************************************************************************)
(* The commands that write files: "openapi generate" (openapi_cmd.py) and  *)
(* "init module" (init_cmd.py).  Both look whether a file exists and write *)
(* it later.  generate plans a name for every module of a document, leaves *)
(* out those whose file exists, and hands the rest to the toolkit's writer,*)
(* which names them once more, by itself.                                  *)
(*                                                                         *)
(* Between any two steps somebody else may edit a file, and between runs   *)
(* the document may change.  Names are those within one output directory;  *)
(* the content of a file is the module it was written for.                 *)
(***************************************************************************)
EXTENDS Naturals, Sequences, FiniteSets, Functions

CONSTANTS
  Documents,  \* sequences of the ids that scanning a document gives
  Base,       \* _sanitize_for_filename: from ids to names
  Numbered,   \* f"{safe}_{counter}": from a name and a count to a name
  Templates,  \* the files, in order, of each "init module" command
  MaxRuns,    \* bound: commands run
  MaxEdits    \* bound: files edited by somebody else

Ids == DOMAIN Base
Name(base, n) == IF n = 0 THEN base ELSE Numbered[<<base, n>>]

\* Numbers give as many names as a document may need.
ASSUME DocumentsAssumption ==
  \A d \in Documents :
     /\ d \in Seq(Ids)
     /\ \A k \in DOMAIN d : \A m, n \in 0..(Len(d) - 1) :
          /\ n > 0 => <<Base[d[k]], n>> \in DOMAIN Numbered
          /\ m # n => Name(Base[d[k]], m) # Name(Base[d[k]], n)
ASSUME TemplatesAssumption ==
  \A t \in Templates : t.files \in Seq(Range(t.files)) \ {<<>>}

VARIABLES
  document,   \* what scanning the document gives now
  disk,       \* the files there are, and their contents
  runs, edits,
  pc,         \* "idle"; "scan", "plan", "find", "write"; "look", "put"; "done"
  force, dry, \* --force and --dry-run
  planned,    \* generate: the name planned for each module
  i,          \* planned names that have been looked up
  existed,    \* names the command has looked up and found a file at
  skipped,    \* names it leaves alone for that
  queue,      \* modules, or files of the template, still to write
  named,      \* names the toolkit's writer has given in this batch
  results,    \* its results: the module, the name, whether it failed
  status,     \* what the command exits with
  touched,    \* somebody edited a file while the command ran
  foretold    \* what the last dry run announced, while it still applies

worldVars == <<document, disk, runs, edits>>
runVars   == <<pc, force, dry, planned, i, existed, skipped, queue, named, results,
               status>>
vars      == <<worldVars, runVars, touched, foretold>>

NamesOfAll == Range(Base) \union Range(Numbered) \union
              UNION {Range(t.files) : t \in Templates}
Nothing == [valid |-> FALSE, force |-> FALSE, names |-> {}]

TypeOK ==
  /\ document \in Documents
  /\ DOMAIN disk \subseteq NamesOfAll
  /\ Range(disk) \subseteq Ids \union {t.id : t \in Templates} \union {"theirs", "torn"}
  /\ pc \in {"idle", "scan", "plan", "find", "write", "look", "put", "done"}
  /\ force \in BOOLEAN /\ dry \in BOOLEAN /\ touched \in BOOLEAN
  /\ planned \in Seq(NamesOfAll) /\ Cardinality(Range(planned)) = Len(planned)
  /\ i \in 0..Len(planned)
  /\ existed \subseteq NamesOfAll /\ skipped \subseteq existed
  /\ results \in Seq([id : Ids, name : NamesOfAll, failed : BOOLEAN])
  /\ named = {r.name : r \in Range(results)} /\ Cardinality(named) = Len(results)
  /\ status \in {0, 1, 2, 47}
  /\ foretold \in [valid : BOOLEAN, force : BOOLEAN, names : SUBSET NamesOfAll]

Idle ==
  /\ pc = "idle" /\ force = FALSE /\ dry = FALSE /\ planned = <<>> /\ i = 0
  /\ existed = {} /\ skipped = {} /\ queue = <<>> /\ named = {} /\ results = <<>>
  /\ status = 0

Init ==
  /\ Idle
  /\ document \in Documents /\ disk = <<>> /\ runs = 0 /\ edits = 0
  /\ touched = FALSE /\ foretold = Nothing

With(name, content) ==
  [n \in DOMAIN disk \union {name} |-> IF n = name THEN content ELSE disk[n]]
-----------------------------------------------------------------------------
(* openapi generate *)

Generate ==
  /\ pc = "idle" /\ runs < MaxRuns
  /\ pc' = "scan" /\ runs' = runs + 1
  /\ force' \in BOOLEAN /\ dry' \in BOOLEAN
  /\ touched' = FALSE
  /\ UNCHANGED <<document, disk, edits, planned, i, existed, skipped, queue, named,
                 results, status, foretold>>

\* The first of base, base_1, base_2... that is not among those seen.
Free(base, seen) ==
  Name(base, CHOOSE n \in 0..Cardinality(seen) :
               Name(base, n) \notin seen /\ \A k \in 0..(n - 1) : Name(base, k) \in seen)

\* A malformed option or header, an unreadable source, an unsupported version,
\* or whatever else the loader raises.
ScanFails ==
  /\ pc = "scan"
  /\ pc' = "done" /\ status' \in {1, 2, 47}
  /\ UNCHANGED <<worldVars, force, dry, planned, i, existed, skipped, queue, named,
                 results, touched, foretold>>

Scanned ==
  /\ pc = "scan"
  /\ pc' = "plan"
  /\ UNCHANGED <<worldVars, force, dry, planned, i, existed, skipped, queue, named,
                 results, status, touched, foretold>>

\* Mutant of PlanName: modules of one sanitized name collapse onto one file.
PlanBare ==
  /\ pc = "plan" /\ Len(planned) < Len(document)
  /\ planned' = Append(planned, Base[document[Len(planned) + 1]])
  /\ UNCHANGED <<worldVars, pc, force, dry, i, existed, skipped, queue, named,
                 results, status, touched, foretold>>

\* _planned_output_paths, one module.
PlanName ==
  /\ pc = "plan" /\ Len(planned) < Len(document)
  /\ planned' = Append(planned, Free(Base[document[Len(planned) + 1]], Range(planned)))
  /\ UNCHANGED <<worldVars, pc, force, dry, i, existed, skipped, queue, named,
                 results, status, touched, foretold>>

AllPlanned ==
  /\ pc = "plan" /\ Len(planned) = Len(document)
  /\ pc' = "find"
  /\ UNCHANGED <<worldVars, force, dry, planned, i, existed, skipped, queue, named,
                 results, status, touched, foretold>>

\* Mutant of LeftAlone: a dry run announces every planned file.
LeftAloneOnWrite(name) == name \in DOMAIN disk /\ ~force /\ ~dry

\* An existing file is left alone unless --force says otherwise.
LeftAlone(name) == name \in DOMAIN disk /\ ~force

\* path.exists() for the next planned name.
Find ==
  /\ pc = "find" /\ i < Len(planned)
  /\ i' = i + 1
  /\ existed' = existed \union ({planned[i']} \intersect DOMAIN disk)
  /\ IF LeftAlone(planned[i'])
       THEN skipped' = skipped \union {planned[i']} /\ UNCHANGED queue
       ELSE queue' = Append(queue, <<i', document[i']>>) /\ UNCHANGED skipped
  /\ UNCHANGED <<worldVars, pc, force, dry, planned, named, results, status,
                 touched, foretold>>

\* A dry run announces what it has not skipped and is over.
AllFound ==
  /\ pc = "find" /\ i = Len(planned)
  /\ IF dry THEN /\ foretold' = [valid |-> ~touched, force |-> force,
                                 names |-> Range(planned) \ skipped]
                 /\ pc' = "done"
            ELSE pc' = "write" /\ UNCHANGED foretold
  /\ UNCHANGED <<worldVars, force, dry, planned, i, existed, skipped, queue, named,
                 results, status, touched>>

\* YAMLWriter.write (external), one module: it counts within the batch it was
\* given.  A failure is noted in the result; the file is then as it was before,
\* or torn.
WriteNext ==
  /\ pc = "write" /\ queue # <<>>
  /\ LET id == Head(queue)[2]
         name == Free(Base[id], named)
     IN  /\ named' = named \union {name}
         /\ \/ /\ disk' = With(name, id)
               /\ results' = Append(results, [id |-> id, name |-> name, failed |-> FALSE])
            \/ /\ disk' \in {disk, With(name, "torn")}
               /\ results' = Append(results, [id |-> id, name |-> name, failed |-> TRUE])
  /\ queue' = Tail(queue)
  /\ UNCHANGED <<document, runs, edits, pc, force, dry, planned, i, existed, skipped,
                 status, touched, foretold>>

\* The writer raises: what is written stays, the rest is not.
WriterRaises ==
  /\ pc = "write" /\ queue # <<>>
  /\ pc' = "done" /\ status' = 1
  /\ UNCHANGED <<worldVars, force, dry, planned, i, existed, skipped, queue, named,
                 results, touched, foretold>>

\* Mutant of Failed: a result that has a path counts as a success.
FailedWithoutPath(result) == result.failed /\ result.name = ""

Failed(result) == result.failed

Report ==
  /\ pc = "write" /\ queue = <<>>
  /\ pc' = "done"
  /\ status' = IF \E r \in Range(results) : Failed(r) THEN 1 ELSE 0
  /\ UNCHANGED <<worldVars, force, dry, planned, i, existed, skipped, queue, named,
                 results, touched, foretold>>
-----------------------------------------------------------------------------
(* init module *)

InitModule ==
  /\ pc = "idle" /\ runs < MaxRuns
  /\ pc' = "look" /\ runs' = runs + 1
  /\ force' \in BOOLEAN /\ touched' = FALSE
  /\ \E t \in Templates :
       queue' = [k \in DOMAIN t.files |-> <<t.files[k], t.id>>]
  /\ UNCHANGED <<document, disk, edits, dry, planned, i, existed, skipped, named,
                 results, status, foretold>>

\* Mutant of Look: the file that comes after another is not looked up.
LookFirst ==
  /\ pc = "look"
  /\ LET name == Head(queue)[1]
     IN  /\ existed' = existed \union ({name} \intersect DOMAIN disk)
         /\ IF name \in DOMAIN disk /\ ~force /\ Len(queue) > 1
              THEN pc' = "done" /\ skipped' = {name}
              ELSE pc' = "put" /\ UNCHANGED skipped
  /\ UNCHANGED <<worldVars, force, dry, planned, i, queue, named, results, status,
                 touched, foretold>>

\* _refuse_if_exists.  A refusal ends the command, with status 0.
Look ==
  /\ pc = "look"
  /\ LET name == Head(queue)[1]
     IN  /\ existed' = existed \union ({name} \intersect DOMAIN disk)
         /\ IF name \in DOMAIN disk /\ ~force
              THEN pc' = "done" /\ skipped' = {name}
              ELSE pc' = "put" /\ UNCHANGED skipped
  /\ UNCHANGED <<worldVars, force, dry, planned, i, queue, named, results, status,
                 touched, foretold>>

\* Path.write_text; when it raises, the command ends with a traceback and the
\* file is as it was, or torn.
PutFile ==
  /\ pc = "put"
  /\ \/ /\ disk' = With(Head(queue)[1], Head(queue)[2])
        /\ queue' = Tail(queue)
        /\ pc' = IF Len(queue) = 1 THEN "done" ELSE "look"
        /\ UNCHANGED status
     \/ /\ disk' \in {disk, With(Head(queue)[1], "torn")}
        /\ pc' = "done" /\ status' = 1 /\ UNCHANGED queue
  /\ UNCHANGED <<document, runs, edits, force, dry, planned, i, existed, skipped,
                 named, results, touched, foretold>>
-----------------------------------------------------------------------------
(* The world around them. *)

\* Somebody else writes or removes a file.
Edit ==
  /\ edits < MaxEdits /\ edits' = edits + 1
  /\ \E n \in NamesOfAll :
       disk' \in {With(n, "theirs"), Restrict(disk, DOMAIN disk \ {n})} \ {disk}
  /\ touched' = TRUE /\ foretold' = Nothing
  /\ UNCHANGED <<document, runs, runVars>>

ChangeDocument ==
  /\ pc = "idle" /\ runs < MaxRuns
  /\ document' \in Documents \ {document}
  /\ foretold' = Nothing
  /\ UNCHANGED <<disk, runs, edits, runVars, touched>>

Finish ==
  /\ pc = "done"
  /\ pc' = "idle" /\ force' = FALSE /\ dry' = FALSE /\ planned' = <<>> /\ i' = 0
  /\ existed' = {} /\ skipped' = {} /\ queue' = <<>> /\ named' = {} /\ results' = <<>>
  /\ status' = 0
  /\ touched' = FALSE
  /\ foretold' = IF dry THEN foretold ELSE Nothing
  /\ UNCHANGED worldVars

Tool ==
  \/ Generate \/ ScanFails \/ Scanned \/ PlanName \/ AllPlanned \/ Find
  \/ AllFound \/ WriteNext \/ WriterRaises \/ Report
  \/ InitModule \/ Look \/ PutFile \/ Finish

Next == Tool \/ Edit \/ ChangeDocument

Spec == Init /\ [][Next]_vars
-----------------------------------------------------------------------------
(* Properties. *)

\* openapi_cmd.py, of --force: "Without it an existing file is skipped with a
\* warning": no step of the command changes a file it has found there.
ExistingFilesKept ==
  [][(edits' = edits /\ ~force) =>
       \A n \in existed \intersect DOMAIN disk : n \in DOMAIN disk' /\ disk'[n] = disk[n]]_vars

\* No two modules of the document are sanitized to one name.
Distinct(ids) == \A j, k \in DOMAIN ids : j # k => Base[ids[j]] # Base[ids[k]]

\* The same of "init module", which may refuse its second file when the first
\* is written, and of generate when every module has a name of its own, so that
\* the two ways of naming cannot differ.
ExistingFilesKeptIfDistinct ==
  [][(edits' = edits /\ ~force /\ (planned = <<>> \/ Distinct(document))) =>
       \A n \in existed \intersect DOMAIN disk : n \in DOMAIN disk' /\ disk'[n] = disk[n]]_vars

Generated == pc = "done" /\ planned # <<>> /\ ~dry

\* When nobody interferes, a generate that exits with 0 has written every
\* module, under the name planned for it, except those whose file it reported
\* as existing: no module is lost to another of the same name, nor to a writer
\* that fails without raising.  (With a module skipped and another of its name
\* to write, the names differ: ExistingFilesKept.)
SuccessIsComplete ==
  (Generated /\ status = 0 /\ ~touched /\ (skipped = {} \/ Distinct(document))) =>
     \A k \in DOMAIN document :
        \/ planned[k] \in skipped
        \/ planned[k] \in DOMAIN disk /\ disk[planned[k]] = document[k]

\* openapi_cmd.py:429: "a dry run reports what a real run would actually do".  A
\* real run over the same files and document attempts as many files as were
\* announced; and the very files announced, when nothing was skipped or every
\* module has a name of its own.  That is less than the comment says: with a
\* module skipped and another of its name to write, a_b_1 is announced and a_b
\* written, by the same renaming that ExistingFilesKept shows at work.
DryRunForetells ==
  (/\ Generated /\ queue = <<>> /\ ~touched
   /\ foretold.valid /\ foretold.force = force) =>
     LET attempted == {r.name : r \in Range(results)}
     IN  /\ Cardinality(attempted) = Cardinality(foretold.names)
         /\ (skipped = {} \/ Distinct(document)) => attempted = foretold.names
=============================================================================
