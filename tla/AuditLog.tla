------------------------------ MODULE AuditLog ------------------------------
(***************************************************************************)
(* security/audit.py and system_usage.py: several CLI processes append to  *)
(* one JSON-lines file without a lock, a write may stop halfway, a process *)
(* may be killed, and a reader aggregates whatever lines still parse.      *)
(*                                                                         *)
(* open(path, "a") gives each process its own appender, and a record is    *)
(* handed to the system in one write call, atomic at the end of the file;  *)
(* when a call returns short, the rest follows with another call.  The     *)
(* file is the sequence of those pieces; a record is its identity.         *)
(***************************************************************************)
EXTENDS Naturals, Sequences, FiniteSets

CONSTANTS
  Procs,       \* concurrently running CLI processes, one logger each
  MaxRecords,  \* bound: records one process logs
  MaxPieces    \* bound: write calls a record takes, 1 when none is short

ASSUME SizesAssumption == MaxRecords \in Nat /\ MaxPieces \in Nat \ {0}

Records == [proc : Procs, n : 1..MaxRecords, pieces : 1..MaxPieces]

VARIABLES
  file,    \* pieces in the order they reached the file
  current, \* the record a process is appending
  sent,    \* pieces of it that reached the file
  logged,  \* records each process has been asked to append
  kept,    \* records whose append ended without an error
  alive    \* processes that were not killed

vars == <<file, current, sent, logged, kept, alive>>

Idle == [n |-> 0]

TypeOK ==
  /\ \A k \in DOMAIN file : /\ file[k].rec \in Records
                            /\ file[k].part \in 1..file[k].rec.pieces
                            /\ file[k].state \in {"whole", "cut", "bare"}
  /\ \A p \in Procs : current[p] = Idle \/ current[p] \in Records
  /\ sent \in [Procs -> 0..MaxPieces]
  /\ logged \in [Procs -> 0..MaxRecords]
  /\ kept \subseteq Records
  /\ alive \subseteq Procs

Init ==
  /\ file = <<>>
  /\ current = [p \in Procs |-> Idle]
  /\ sent = [p \in Procs |-> 0] /\ logged = sent
  /\ kept = {} /\ alive = Procs
-----------------------------------------------------------------------------
\* "cut": stopped somewhere inside; "bare": the last byte, a newline, is missing.
Piece(rec, part, state) == [rec |-> rec, part |-> part, state |-> state]

\* log_execution or log_acl_decision: a record, and the calls it will take.
Log(p) ==
  /\ p \in alive /\ current[p] = Idle /\ logged[p] < MaxRecords
  /\ \E rec \in Records :
       /\ rec.proc = p /\ rec.n = logged[p] + 1
       /\ current' = [current EXCEPT ![p] = rec]
  /\ logged' = [logged EXCEPT ![p] = @ + 1]
  /\ sent' = [sent EXCEPT ![p] = 0]
  /\ UNCHANGED <<file, kept, alive>>

\* Mutant of Advance: the end of the record is overlooked.
AdvanceForever(p) ==
  /\ sent' = [sent EXCEPT ![p] = @ + 1]
  /\ UNCHANGED <<kept, current, logged, alive>>

\* The next piece of p's record reaches the file; with the last one the record
\* is complete.
Advance(p) ==
  /\ IF sent[p] + 1 = current[p].pieces
       THEN /\ kept' = kept \union {current[p]}
            /\ current' = [current EXCEPT ![p] = Idle]
            /\ UNCHANGED sent
       ELSE sent' = [sent EXCEPT ![p] = @ + 1] /\ UNCHANGED <<kept, current>>
  /\ UNCHANGED <<logged, alive>>

\* Mutants of Flush: the newline is forgotten; the file is opened with "w".
FlushNoNewline(p) ==
  /\ p \in alive /\ current[p] # Idle
  /\ file' = Append(file, Piece(current[p], sent[p] + 1, "bare"))
  /\ Advance(p)
FlushTruncates(p) ==
  /\ p \in alive /\ current[p] # Idle
  /\ file' = IF sent[p] = 0 THEN <<Piece(current[p], 1, "whole")>>
             ELSE Append(file, Piece(current[p], sent[p] + 1, "whole"))
  /\ Advance(p)

Flush(p) ==
  /\ p \in alive /\ current[p] # Idle
  /\ file' = Append(file, Piece(current[p], sent[p] + 1, "whole"))
  /\ Advance(p)

\* What a write that never ends leaves: nothing, or the piece short of its end.
Partly(p) ==
  {file} \union {Append(file, Piece(current[p], sent[p] + 1, state)) :
                   state \in {"cut", "bare"}}

\* OSError: the record is given up (the logger's warning is left out).
Fail(p) ==
  /\ p \in alive /\ current[p] # Idle
  /\ file' \in Partly(p)
  /\ current' = [current EXCEPT ![p] = Idle]
  /\ UNCHANGED <<sent, logged, kept, alive>>

\* The process is killed, perhaps inside a write call.
Die(p) ==
  /\ p \in alive
  /\ alive' = alive \ {p}
  /\ IF current[p] = Idle THEN UNCHANGED file ELSE file' \in Partly(p)
  /\ UNCHANGED <<current, sent, logged, kept>>

Next == \E p \in Procs : Log(p) \/ Flush(p) \/ Fail(p) \/ Die(p)

Spec == Init /\ [][Next]_vars
-----------------------------------------------------------------------------
(* compute_summary. *)

\* A record's last piece ends with the newline.
EndsLine(k) == file[k].state = "whole" /\ file[k].part = file[k].rec.pieces

\* A line, the pieces first..last, parses when it is one record and nothing
\* else, the newline aside: JSONDecodeError skips it otherwise.
Parses(first, last) ==
  /\ last - first + 1 = file[first].rec.pieces
  /\ \A k \in first..last :
       /\ file[k].rec = file[first].rec /\ file[k].part = k - first + 1
       /\ \/ file[k].state = "whole"
          \/ file[k].state = "bare" /\ k = last

Lines ==
  {l \in (DOMAIN file) \X (DOMAIN file) :
     /\ l[1] <= l[2]
     /\ l[1] = 1 \/ EndsLine(l[1] - 1)
     /\ EndsLine(l[2]) \/ l[2] = Len(file)
     /\ \A k \in l[1]..(l[2] - 1) : ~EndsLine(k)}

\* Records the summary reads (an ACL decision is read like a call, and then
\* passed over because it has no module_id).
Counted == {file[l[1]].rec : l \in {m \in Lines : Parses(m[1], m[2])}}
-----------------------------------------------------------------------------
(* Properties. *)

\* Pieces that are cut off, or belong to a record that was written short.
Fragile == {k \in DOMAIN file : file[k].state # "whole" \/ file[k].rec.pieces > 1}

\* Losses are local: the summary loses at most one complete record for each
\* fragile piece in the file.  In particular, while no write is short or cut,
\* no interleaving of processes, and no death, loses anything (_append).
LossIsLocal == Cardinality(kept \ Counted) <= Cardinality(Fragile)

\* A completely appended record that the summary reads is read for good: no
\* later append, failure or death of any process hides it again.
SummaryOnlyGrows == [][Counted \cap kept \subseteq Counted']_vars
=============================================================================
