--------------------------- MODULE AuditLogProofs ---------------------------
(***************************************************************************)
(* Proofs about the audit file, for every number of processes, records and *)
(* write calls per record.                                                 *)
(*                                                                         *)
(* The argument: a record's pieces reach the file whole for as long as it  *)
(* is going to be kept, and the last of them ends its line.  So a record   *)
(* that was kept but is not counted either was written short, and its last *)
(* piece is fragile, or is one whole piece behind a piece that does not    *)
(* end its line, which is fragile; no two records blame the same piece.    *)
(***************************************************************************)
EXTENDS AuditLog, FiniteSetTheorems, TLAPS

Pieces == [rec : Records, part : Nat, state : {"whole", "cut", "bare"}]

\* A record under way is its process's latest, and has pieces left.
CurrentInv ==
  \A p \in Procs : current[p] # Idle =>
     /\ current[p].proc = p /\ current[p].n = logged[p]
     /\ sent[p] < current[p].pieces
     /\ current[p] \notin kept

\* Records in the file have been logged; those with a torn piece are given up.
FileInv ==
  \A k \in DOMAIN file :
     LET rec == file[k].rec
     IN  /\ rec.n <= logged[rec.proc]
         /\ file[k].state # "whole" =>
              rec \notin kept /\ (rec.proc \in alive => current[rec.proc] # rec)

\* The last piece of a record.
EndsRecord(k, rec) == file[k].rec = rec /\ EndsLine(k)

KeptInv == \A rec \in kept : \E k \in DOMAIN file : EndsRecord(k, rec)

IInv ==
  /\ TypeOK
  /\ file \in Seq(Pieces) /\ current \in [Procs -> Records \union {Idle}]
  /\ CurrentInv /\ FileInv /\ KeptInv
-----------------------------------------------------------------------------
LEMMA RecordFacts ==
  ASSUME NEW rec \in Records
  PROVE  /\ rec.proc \in Procs /\ rec.n \in Nat /\ rec.n > 0
         /\ rec.pieces \in Nat /\ rec.pieces > 0 /\ rec.pieces <= MaxPieces
         /\ rec # Idle
  BY SizesAssumption DEF Records, Idle

\* What an appended piece leaves as it was.
LEMMA AppendFacts ==
  ASSUME file \in Seq(Pieces), NEW piece \in Pieces, file' = Append(file, piece)
  PROVE  /\ file' \in Seq(Pieces)
         /\ Len(file) \in Nat /\ DOMAIN file = 1..Len(file)
         /\ Len(file') = Len(file) + 1 /\ DOMAIN file' = 1..(Len(file) + 1)
         /\ \A k \in DOMAIN file : file'[k] = file[k]
         /\ file'[Len(file) + 1] = piece
  OBVIOUS

LEMMA InvInit == Init => IInv
<1> SUFFICES ASSUME Init
             PROVE  IInv
  OBVIOUS
<1>1. /\ file \in Seq(Pieces) /\ DOMAIN file = {}
      /\ current \in [Procs -> Records \union {Idle}]
      /\ sent \in [Procs -> 0..MaxPieces] /\ logged \in [Procs -> 0..MaxRecords]
      /\ kept = {} /\ alive = Procs
      /\ \A p \in Procs : current[p] = Idle
  BY SizesAssumption DEF Init
<1>2. TypeOK
  BY <1>1 DEF TypeOK
<1>3. CurrentInv /\ FileInv /\ KeptInv
  BY <1>1 DEF CurrentInv, FileInv, KeptInv
<1>4. QED
  BY <1>1, <1>2, <1>3 DEF IInv

LEMMA InvLog ==
  ASSUME IInv, NEW p \in Procs, Log(p)
  PROVE  IInv'
<1>1. PICK rec \in Records :
        /\ rec.proc = p /\ rec.n = logged[p] + 1
        /\ current' = [current EXCEPT ![p] = rec]
  BY DEF Log
<1>2. /\ logged' = [logged EXCEPT ![p] = @ + 1] /\ sent' = [sent EXCEPT ![p] = 0]
      /\ UNCHANGED <<file, kept, alive>> /\ logged[p] < MaxRecords
  BY DEF Log
<1>3. /\ logged \in [Procs -> 0..MaxRecords] /\ sent \in [Procs -> 0..MaxPieces]
      /\ current \in [Procs -> Records \union {Idle}] /\ file \in Seq(Pieces)
      /\ MaxRecords \in Nat /\ MaxPieces \in Nat
  BY SizesAssumption DEF IInv, TypeOK
<1>4. /\ current' \in [Procs -> Records \union {Idle}] /\ current'[p] = rec
      /\ \A q \in Procs : q # p => current'[q] = current[q]
      /\ logged' \in [Procs -> 0..MaxRecords] /\ logged'[p] = logged[p] + 1
      /\ \A q \in Procs : q # p => logged'[q] = logged[q]
      /\ sent' \in [Procs -> 0..MaxPieces] /\ sent'[p] = 0
      /\ \A q \in Procs : q # p => sent'[q] = sent[q]
  BY <1>1, <1>2, <1>3
<1>5. \A k \in DOMAIN file : /\ file[k].rec \in Records /\ file[k].rec.proc \in Procs
                             /\ file[k].rec.n \in Nat
                             /\ file[k].rec.n <= logged[file[k].rec.proc]
  BY <1>3, RecordFacts DEF IInv, TypeOK, FileInv
<1>6. \A k \in DOMAIN file : file[k].rec # rec
  BY <1>1, <1>3, <1>5
<1>7. TypeOK'
  BY <1>2, <1>4 DEF IInv, TypeOK
<1>8. CurrentInv'
  <2>1. rec \notin kept
    BY <1>6 DEF IInv, KeptInv, EndsRecord
  <2>2. QED
    BY <1>1, <1>2, <1>4, <2>1, RecordFacts DEF IInv, CurrentInv
<1>9. FileInv'
  <2>1. ASSUME NEW k \in DOMAIN file
        PROVE  /\ file[k].rec.n <= logged'[file[k].rec.proc]
               /\ file[k].state # "whole" =>
                    /\ file[k].rec \notin kept
                    /\ file[k].rec.proc \in alive => current'[file[k].rec.proc] # file[k].rec
    <3>1. file[k].rec.n <= logged'[file[k].rec.proc]
      <4>1. CASE file[k].rec.proc = p
        BY <1>3, <1>4, <1>5, <4>1
      <4>2. CASE file[k].rec.proc # p
        BY <1>4, <1>5, <4>2
      <4>3. QED
        BY <4>1, <4>2
    <3>2. current'[file[k].rec.proc] \in {rec, current[file[k].rec.proc]}
      BY <1>4, <1>5
    <3>3. QED
      BY <1>6, <3>1, <3>2 DEF IInv, FileInv
  <2>2. QED
    BY <1>2, <2>1 DEF FileInv
<1>10. KeptInv'
  BY <1>2 DEF IInv, KeptInv, EndsRecord, EndsLine
<1>11. QED
  BY <1>2, <1>4, <1>7, <1>8, <1>9, <1>10 DEF IInv

\* A record under way, and what is appended of it.
LEMMA CurrentFacts ==
  ASSUME IInv, NEW p \in Procs, current[p] # Idle
  PROVE  /\ current[p] \in Records /\ current[p].proc = p /\ current[p] \notin kept
         /\ current[p].n = logged[p]
         /\ sent[p] \in Nat /\ sent[p] + 1 \in 1..current[p].pieces
         /\ current[p].pieces \in Nat /\ current[p].pieces <= MaxPieces
         /\ \A state \in {"whole", "cut", "bare"} :
              /\ Piece(current[p], sent[p] + 1, state) \in Pieces
              /\ Piece(current[p], sent[p] + 1, state).rec = current[p]
              /\ Piece(current[p], sent[p] + 1, state).part = sent[p] + 1
              /\ Piece(current[p], sent[p] + 1, state).state = state
<1>1. current[p] \in Records /\ sent[p] \in 0..MaxPieces /\ MaxPieces \in Nat
  BY SizesAssumption DEF IInv, TypeOK
<1>2. current[p].pieces \in Nat /\ current[p].pieces <= MaxPieces
  BY <1>1, RecordFacts
<1>3. /\ current[p].proc = p /\ current[p].n = logged[p]
      /\ sent[p] < current[p].pieces /\ current[p] \notin kept
  BY DEF IInv, CurrentInv
<1>4. sent[p] \in Nat /\ sent[p] + 1 \in 1..current[p].pieces
  BY <1>1, <1>2, <1>3
<1>5. QED
  BY <1>1, <1>2, <1>3, <1>4 DEF Piece, Pieces

LEMMA InvFlush ==
  ASSUME IInv, NEW p \in Procs, Flush(p)
  PROVE  IInv'
<1> DEFINE piece == Piece(current[p], sent[p] + 1, "whole")
           end == Len(file) + 1
<1>1. /\ p \in alive /\ current[p] # Idle /\ file' = Append(file, piece)
      /\ Advance(p) /\ UNCHANGED <<logged, alive>>
  BY DEF Flush, Advance
<1>2. /\ current[p] \in Records /\ current[p].proc = p /\ current[p] \notin kept
      /\ current[p].n = logged[p]
      /\ sent[p] \in Nat /\ sent[p] + 1 \in 1..current[p].pieces
      /\ current[p].pieces \in Nat /\ current[p].pieces <= MaxPieces
      /\ piece \in Pieces
      /\ piece.rec = current[p] /\ piece.part = sent[p] + 1 /\ piece.state = "whole"
  BY <1>1, CurrentFacts
<1> HIDE DEF piece
<1>3. /\ file' \in Seq(Pieces)
      /\ Len(file) \in Nat /\ DOMAIN file = 1..Len(file)
      /\ DOMAIN file' = 1..end
      /\ \A k \in DOMAIN file : file'[k] = file[k]
      /\ file'[end] = piece
  BY <1>1, <1>2, AppendFacts DEF IInv
<1>4. /\ logged \in [Procs -> 0..MaxRecords] /\ sent \in [Procs -> 0..MaxPieces]
      /\ current \in [Procs -> Records \union {Idle}]
      /\ MaxRecords \in Nat /\ MaxPieces \in Nat /\ kept \subseteq Records
  BY SizesAssumption DEF IInv, TypeOK
<1>5. \A k \in DOMAIN file' : k \in DOMAIN file \/ k = end
  BY <1>3
<1>6. /\ \A k \in DOMAIN file' : /\ file'[k].rec \in Records
                                 /\ file'[k].part \in 1..file'[k].rec.pieces
                                 /\ file'[k].state \in {"whole", "cut", "bare"}
      /\ \A k \in DOMAIN file' : file'[k].rec.n <= logged[file'[k].rec.proc]
  <2>1. current[p].n <= logged[current[p].proc]
    BY <1>2, <1>4, RecordFacts
  <2>2. QED
    BY <1>2, <1>3, <1>5, <2>1 DEF IInv, TypeOK, FileInv
<1>7. \A k \in DOMAIN file' : file'[k].state # "whole" =>
         k \in DOMAIN file /\ file'[k].rec # current[p]
  BY <1>1, <1>2, <1>3, <1>5 DEF IInv, FileInv
<1>8. CASE sent[p] + 1 = current[p].pieces
  <2>1. /\ kept' = kept \union {current[p]} /\ sent' = sent
        /\ current' = [current EXCEPT ![p] = Idle]
    BY <1>1, <1>8 DEF Advance
  <2>2. /\ current' \in [Procs -> Records \union {Idle}] /\ current'[p] = Idle
        /\ \A q \in Procs : q # p => current'[q] = current[q]
    BY <1>4, <2>1
  <2>3. TypeOK'
    BY <1>1, <1>2, <1>4, <1>6, <2>1, <2>2 DEF TypeOK, IInv
  <2>4. CurrentInv'
    BY <1>1, <1>2, <2>1, <2>2 DEF IInv, CurrentInv
  <2>5. FileInv'
    <3>1. ASSUME NEW k \in DOMAIN file', file'[k].state # "whole"
          PROVE  /\ file'[k].rec \notin kept'
                 /\ file'[k].rec.proc \in alive => current'[file'[k].rec.proc] # file'[k].rec
      BY <1>3, <1>6, <1>7, <2>1, <2>2, <3>1, RecordFacts DEF IInv, FileInv
    <3>2. QED
      BY <1>1, <1>6, <3>1 DEF FileInv
  <2>6. KeptInv'
    <3>1. ASSUME NEW rec \in kept'
          PROVE  \E k \in DOMAIN file' : EndsRecord(k, rec)'
      <4>1. CASE rec \in kept
        BY <1>3, <1>5, <4>1 DEF IInv, KeptInv, EndsRecord, EndsLine
      <4>2. CASE rec = current[p]
        BY <1>2, <1>3, <1>8, <4>2 DEF EndsRecord, EndsLine
      <4>3. QED
        BY <2>1, <4>1, <4>2
    <3>2. QED
      BY <3>1 DEF KeptInv
  <2>7. QED
    BY <1>3, <2>2, <2>3, <2>4, <2>5, <2>6 DEF IInv
<1>9. CASE sent[p] + 1 # current[p].pieces
  <2>1. kept' = kept /\ current' = current /\ sent' = [sent EXCEPT ![p] = @ + 1]
    BY <1>1, <1>9 DEF Advance
  <2>2. /\ sent' \in [Procs -> 0..MaxPieces] /\ sent'[p] = sent[p] + 1
        /\ \A q \in Procs : q # p => sent'[q] = sent[q]
        /\ sent[p] + 1 < current[p].pieces
    BY <1>2, <1>4, <1>9, <2>1
  <2>3. TypeOK'
    BY <1>1, <1>4, <1>6, <2>1, <2>2 DEF TypeOK, IInv
  <2>4. CurrentInv'
    BY <1>1, <2>1, <2>2 DEF IInv, CurrentInv
  <2>5. FileInv'
    BY <1>1, <1>3, <1>6, <1>7, <2>1 DEF IInv, FileInv
  <2>6. KeptInv'
    <3>1. \A rec \in kept' : \E k \in DOMAIN file' : EndsRecord(k, rec)'
      BY <1>3, <2>1 DEF IInv, KeptInv, EndsRecord, EndsLine
    <3>2. QED
      BY <3>1 DEF KeptInv
  <2>7. QED
    BY <1>3, <1>4, <2>1, <2>3, <2>4, <2>5, <2>6 DEF IInv
<1>10. QED
  BY <1>8, <1>9

\* What is left of a write that does not end is a torn piece, or nothing.
LEMMA PartlyFacts ==
  ASSUME IInv, NEW p \in Procs, current[p] # Idle, file' \in Partly(p)
  PROVE  /\ file' \in Seq(Pieces) /\ DOMAIN file \subseteq DOMAIN file'
         /\ \A k \in DOMAIN file : file'[k] = file[k]
         /\ \A k \in DOMAIN file' \ DOMAIN file :
              /\ file'[k].rec = current[p] /\ file'[k].part \in 1..current[p].pieces
              /\ file'[k].state \in {"cut", "bare"}
<1>1. CASE file' = file
  BY <1>1 DEF IInv
<1>2. ASSUME NEW state \in {"cut", "bare"},
             file' = Append(file, Piece(current[p], sent[p] + 1, state))
      PROVE  /\ file' \in Seq(Pieces) /\ DOMAIN file \subseteq DOMAIN file'
             /\ \A k \in DOMAIN file : file'[k] = file[k]
             /\ \A k \in DOMAIN file' \ DOMAIN file :
                  /\ file'[k].rec = current[p] /\ file'[k].part \in 1..current[p].pieces
                  /\ file'[k].state \in {"cut", "bare"}
  <2> DEFINE piece == Piece(current[p], sent[p] + 1, state)
  <2>1. /\ piece \in Pieces /\ piece.rec = current[p]
        /\ piece.part \in 1..current[p].pieces /\ piece.state = state
    BY CurrentFacts
  <2> HIDE DEF piece
  <2>2. /\ file' \in Seq(Pieces)
        /\ Len(file) \in Nat /\ DOMAIN file = 1..Len(file)
        /\ DOMAIN file' = 1..(Len(file) + 1)
        /\ \A k \in DOMAIN file : file'[k] = file[k]
        /\ file'[Len(file) + 1] = piece
    BY <1>2, <2>1, AppendFacts DEF IInv, piece
  <2>3. \A k \in DOMAIN file' \ DOMAIN file : k = Len(file) + 1
    BY <2>2
  <2>4. QED
    BY <2>1, <2>2, <2>3
<1>3. QED
  BY <1>1, <1>2 DEF Partly

LEMMA InvFail ==
  ASSUME IInv, NEW p \in Procs, Fail(p)
  PROVE  IInv'
<1>1. /\ current[p] # Idle /\ file' \in Partly(p) /\ UNCHANGED <<sent, logged, kept, alive>>
      /\ current' = [current EXCEPT ![p] = Idle]
  BY DEF Fail
<1>2. /\ file' \in Seq(Pieces) /\ DOMAIN file \subseteq DOMAIN file'
      /\ \A k \in DOMAIN file : file'[k] = file[k]
      /\ \A k \in DOMAIN file' \ DOMAIN file :
           /\ file'[k].rec = current[p] /\ file'[k].part \in 1..current[p].pieces
           /\ file'[k].state \in {"cut", "bare"}
  BY <1>1, PartlyFacts
<1>3. /\ current[p] \in Records /\ current[p].proc = p /\ current[p] \notin kept
      /\ current[p].n = logged[p]
  BY <1>1, CurrentFacts
<1>4. /\ current' \in [Procs -> Records \union {Idle}] /\ current'[p] = Idle
      /\ \A q \in Procs : q # p => current'[q] = current[q]
  BY <1>1 DEF IInv
<1>5. TypeOK'
  <2>1. \A k \in DOMAIN file' : /\ file'[k].rec \in Records
                                /\ file'[k].part \in 1..file'[k].rec.pieces
                                /\ file'[k].state \in {"whole", "cut", "bare"}
    BY <1>2, <1>3 DEF IInv, TypeOK
  <2>2. QED
    BY <1>1, <1>4, <2>1 DEF IInv, TypeOK
<1>6. CurrentInv'
  BY <1>1, <1>4 DEF IInv, CurrentInv
<1>7. FileInv'
  <2>1. ASSUME NEW k \in DOMAIN file'
        PROVE  LET rec == file'[k].rec
               IN  /\ rec.n <= logged[rec.proc]
                   /\ file'[k].state # "whole" =>
                        rec \notin kept /\ (rec.proc \in alive => current'[rec.proc] # rec)
    <3>1. CASE k \in DOMAIN file
      <4>1. file[k].rec \in Records /\ file[k].rec.proc \in Procs /\ file[k].rec # Idle
        BY <3>1, RecordFacts DEF IInv, TypeOK
      <4>2. QED
        BY <1>2, <1>4, <3>1, <4>1 DEF IInv, FileInv
    <3>2. CASE k \notin DOMAIN file
      <4>1. logged[p] \in Nat
        BY SizesAssumption DEF IInv, TypeOK
      <4>2. QED
        BY <1>2, <1>3, <1>4, <3>2, <4>1, RecordFacts
    <3>3. QED
      BY <3>1, <3>2
  <2>2. QED
    BY <1>1, <2>1 DEF FileInv
<1>8. KeptInv'
  <2>1. \A rec \in kept' : \E k \in DOMAIN file' : EndsRecord(k, rec)'
    BY <1>1, <1>2 DEF IInv, KeptInv, EndsRecord, EndsLine
  <2>2. QED
    BY <2>1 DEF KeptInv
<1>9. QED
  BY <1>2, <1>4, <1>5, <1>6, <1>7, <1>8 DEF IInv

LEMMA InvDie ==
  ASSUME IInv, NEW p \in Procs, Die(p)
  PROVE  IInv'
<1>1. alive' = alive \ {p} /\ UNCHANGED <<current, sent, logged, kept>>
  BY DEF Die
<1>2. CASE current[p] = Idle
  <2>1. file' = file
    BY <1>2 DEF Die
  <2>2. QED
    BY <1>1, <2>1
       DEF IInv, TypeOK, CurrentInv, FileInv, KeptInv, EndsRecord, EndsLine
<1>3. CASE current[p] # Idle
  <2>1. /\ file' \in Seq(Pieces) /\ DOMAIN file \subseteq DOMAIN file'
        /\ \A k \in DOMAIN file : file'[k] = file[k]
        /\ \A k \in DOMAIN file' \ DOMAIN file :
             /\ file'[k].rec = current[p] /\ file'[k].part \in 1..current[p].pieces
             /\ file'[k].state \in {"cut", "bare"}
    BY <1>3, PartlyFacts DEF Die
  <2>2. /\ current[p] \in Records /\ current[p].proc = p /\ current[p] \notin kept
        /\ current[p].n = logged[p]
    BY <1>3, CurrentFacts
  <2>3. TypeOK'
    <3>1. \A k \in DOMAIN file' : /\ file'[k].rec \in Records
                                  /\ file'[k].part \in 1..file'[k].rec.pieces
                                  /\ file'[k].state \in {"whole", "cut", "bare"}
      BY <2>1, <2>2 DEF IInv, TypeOK
    <3>2. QED
      BY <1>1, <3>1 DEF IInv, TypeOK
  <2>4. CurrentInv'
    BY <1>1 DEF IInv, CurrentInv
  <2>5. FileInv'
    <3>1. ASSUME NEW k \in DOMAIN file'
          PROVE  LET rec == file'[k].rec
                 IN  /\ rec.n <= logged[rec.proc]
                     /\ file'[k].state # "whole" =>
                          rec \notin kept /\ (rec.proc \in alive' => current[rec.proc] # rec)
      <4>1. CASE k \in DOMAIN file
        BY <1>1, <2>1, <4>1 DEF IInv, FileInv
      <4>2. CASE k \notin DOMAIN file
        <5>1. logged[p] \in Nat
          BY SizesAssumption DEF IInv, TypeOK
        <5>2. QED
          BY <1>1, <2>1, <2>2, <4>2, <5>1, RecordFacts
      <4>3. QED
        BY <4>1, <4>2
    <3>2. QED
      BY <1>1, <3>1 DEF FileInv
  <2>6. KeptInv'
    <3>1. \A rec \in kept' : \E k \in DOMAIN file' : EndsRecord(k, rec)'
      BY <1>1, <2>1 DEF IInv, KeptInv, EndsRecord, EndsLine
    <3>2. QED
      BY <3>1 DEF KeptInv
  <2>7. QED
    BY <1>1, <2>1, <2>3, <2>4, <2>5, <2>6 DEF IInv
<1>4. QED
  BY <1>2, <1>3

\* The file, the records under way and the records kept stay in step whatever
\* processes append, fail or die.
THEOREM LogInvariant == Spec => []IInv
<1>1. ASSUME IInv, [Next]_vars
      PROVE  IInv'
  <2>1. CASE UNCHANGED vars
    BY <1>1, <2>1 DEF vars, IInv, TypeOK, CurrentInv, FileInv, KeptInv, EndsRecord, EndsLine
  <2>2. QED
    BY <1>1, <2>1, InvLog, InvFlush, InvFail, InvDie DEF Next
<1>2. QED
  BY <1>1, InvInit, PTL DEF Spec

\* The pieces of the file belong to records some process logged.
THEOREM LogTypes == Spec => []TypeOK
<1>1. IInv => TypeOK
  BY DEF IInv
<1>2. QED
  BY <1>1, LogInvariant, PTL
-----------------------------------------------------------------------------
(* What follows from the invariant. *)

\* A kept record that is one whole piece is counted, unless the piece before
\* it leaves its line open.
LEMMA AloneOnItsLine ==
  ASSUME IInv, NEW k \in DOMAIN file, EndsLine(k), file[k].rec.pieces = 1,
         k = 1 \/ EndsLine(k - 1)
  PROVE  file[k].rec \in Counted
<1>1. k \in Nat
  BY DEF IInv
<1>2. <<k, k>> \in Lines
  <2>1. \A j \in k..(k - 1) : FALSE
    BY <1>1
  <2>2. QED
    BY <1>1, <2>1 DEF Lines
<1>3. Parses(k, k)
  <2>1. \A j \in k..k : j = k
    BY <1>1
  <2>2. file[k].part = k - k + 1 /\ k - k + 1 = file[k].rec.pieces
    BY <1>1 DEF EndsLine
  <2>3. QED
    BY <2>1, <2>2 DEF Parses, EndsLine
<1>4. QED
  BY <1>2, <1>3 DEF Counted

\* The summary loses at most one complete record for each fragile piece:
\* each lost record blames a fragile piece of its own.
THEOREM LossesAreLocal == Spec => []LossIsLocal
<1>1. IInv => LossIsLocal
  <2> SUFFICES ASSUME IInv
               PROVE  Cardinality(kept \ Counted) <= Cardinality(Fragile)
    BY DEF LossIsLocal
  <2> DEFINE Lost == kept \ Counted
  <2>1. /\ Len(file) \in Nat /\ DOMAIN file = 1..Len(file)
        /\ \A k \in DOMAIN file : file[k].rec \in Records
    BY DEF IInv, TypeOK
  <2>2. \A rec \in Lost : \E k \in DOMAIN file : EndsRecord(k, rec)
    BY DEF IInv, KeptInv
  <2> DEFINE At(rec) == CHOOSE k \in DOMAIN file : EndsRecord(k, rec)
             Blamed(rec) == IF rec.pieces > 1 THEN At(rec) ELSE At(rec) - 1
  <2>3. ASSUME NEW rec \in Lost
        PROVE  At(rec) \in DOMAIN file /\ EndsRecord(At(rec), rec)
    BY <2>2
  <2> HIDE DEF At
  <2>4. ASSUME NEW rec \in Lost, ~(rec.pieces > 1)
        PROVE  /\ At(rec) - 1 \in DOMAIN file /\ ~EndsLine(At(rec) - 1)
               /\ At(rec) - 1 \in Fragile
    <3>1. /\ At(rec) \in DOMAIN file /\ file[At(rec)].rec = rec /\ EndsLine(At(rec))
          /\ rec \notin Counted
      BY <2>3 DEF EndsRecord
    <3>2. rec.pieces = 1
      BY <2>1, <2>4, <3>1, RecordFacts
    <3>3. At(rec) # 1 /\ ~EndsLine(At(rec) - 1)
      BY <3>1, <3>2, AloneOnItsLine
    <3>4. At(rec) - 1 \in DOMAIN file
      BY <2>1, <3>1, <3>3
    <3>5. file[At(rec) - 1].state # "whole" \/ file[At(rec) - 1].rec.pieces > 1
      <4>1. file[At(rec) - 1].part \in 1..file[At(rec) - 1].rec.pieces
        BY <3>4 DEF IInv, TypeOK
      <4>2. file[At(rec) - 1].rec.pieces \in Nat
        BY <2>1, <3>4, RecordFacts
      <4>3. QED
        BY <3>3, <4>1, <4>2 DEF EndsLine
    <3>6. QED
      BY <3>3, <3>4, <3>5 DEF Fragile
  <2>5. ASSUME NEW rec \in Lost, rec.pieces > 1
        PROVE  /\ At(rec) \in DOMAIN file /\ EndsLine(At(rec))
               /\ At(rec) \in Fragile
    BY <2>3, <2>5 DEF EndsRecord, Fragile
  <2>6. [rec \in Lost |-> Blamed(rec)] \in [Lost -> Fragile]
    BY <2>4, <2>5
  <2>7. ASSUME NEW a \in Lost, NEW b \in Lost, Blamed(a) = Blamed(b)
        PROVE  a = b
    <3>1. At(a) = At(b)
      <4>1. At(a) \in Nat /\ At(b) \in Nat
        BY <2>1, <2>3
      <4>2. CASE a.pieces > 1 /\ b.pieces > 1
        BY <2>7, <4>2
      <4>3. CASE ~(a.pieces > 1) /\ ~(b.pieces > 1)
        BY <2>7, <4>1, <4>3
      <4>4. CASE a.pieces > 1 /\ ~(b.pieces > 1)
        BY <2>4, <2>5, <2>7, <4>4
      <4>5. CASE ~(a.pieces > 1) /\ b.pieces > 1
        BY <2>4, <2>5, <2>7, <4>5
      <4>6. QED
        BY <4>2, <4>3, <4>4, <4>5
    <3>2. QED
      BY <2>3, <3>1 DEF EndsRecord
  <2> HIDE DEF Lost, Blamed
  <2> DEFINE blame == [rec \in Lost |-> Blamed(rec)]
  <2>8. \A a, b \in DOMAIN blame : blame[a] = blame[b] => a = b
    BY <2>7
  <2>9. blame \in Injection(Lost, Fragile)
    BY <2>6, <2>8 DEF Injection, IsInjective
  <2>10. IsFiniteSet(Fragile)
    <3>1. IsFiniteSet(1..Len(file))
      BY <2>1, FS_Interval
    <3>2. Fragile \in SUBSET (1..Len(file))
      BY <2>1 DEF Fragile
    <3>3. QED
      BY <3>1, <3>2, FS_Subset
  <2> HIDE DEF blame
  <2>11. QED
    BY <2>9, <2>10, FS_Injection DEF Lost
<1>2. QED
  BY <1>1, LogInvariant, PTL

\* What was read of the file is a line of the longer file as well, when it was
\* completely appended: such a line ends in its record's last piece.
LEMMA ReadForGood ==
  ASSUME IInv, DOMAIN file \subseteq DOMAIN file',
         \A k \in DOMAIN file : file'[k] = file[k]
  PROVE  Counted \cap kept \subseteq Counted'
<1> SUFFICES ASSUME NEW rec \in Counted, rec \in kept
             PROVE  rec \in Counted'
  OBVIOUS
<1>1. PICK first, last \in DOMAIN file :
        <<first, last>> \in Lines /\ Parses(first, last) /\ rec = file[first].rec
  BY DEF Counted, Lines
<1>2. /\ first <= last /\ (first = 1 \/ EndsLine(first - 1))
      /\ \A k \in first..(last - 1) : ~EndsLine(k)
  BY <1>1 DEF Lines
<1>3. first \in Nat /\ last \in Nat /\ DOMAIN file = 1..Len(file) /\ Len(file) \in Nat
  BY DEF IInv
<1>4. \A k \in first..last : /\ k \in DOMAIN file /\ file[k].rec = rec
                             /\ file[k].part = k - first + 1
                             /\ file[k].state = "whole"
  <2>1. \A k \in first..last : k \in DOMAIN file
    BY <1>3
  <2>2. \A k \in first..last : file[k].rec = rec /\ file[k].part = k - first + 1
    BY <1>1 DEF Parses
  <2>3. \A k \in first..last : file[k].state = "whole"
    BY <2>1, <2>2 DEF IInv, FileInv
  <2>4. QED
    BY <2>1, <2>2, <2>3
<1>5. EndsLine(last)
  BY <1>1, <1>2, <1>3, <1>4 DEF Parses, EndsLine
<1>6. \A k \in DOMAIN file : EndsLine(k)' <=> EndsLine(k)
  BY DEF EndsLine
<1>7. first = 1 \/ first - 1 \in DOMAIN file
  BY <1>3
<1>8. (<<first, last>> \in Lines)'
  <2>1. \A k \in first..(last - 1) : k \in DOMAIN file /\ ~EndsLine(k)'
    BY <1>2, <1>3, <1>6
  <2>2. first = 1 \/ EndsLine(first - 1)'
    BY <1>2, <1>6, <1>7
  <2>3. EndsLine(last)'
    BY <1>5, <1>6
  <2>4. QED
    BY <1>2, <2>1, <2>2, <2>3 DEF Lines
<1>9. Parses(first, last)' /\ rec = file'[first].rec
  BY <1>1, <1>2, <1>3, <1>4 DEF Parses
<1>10. QED
  BY <1>8, <1>9 DEF Counted

\* Whatever is appended or torn behind it, a record that was completely
\* appended and read stays read.
THEOREM ReadsAreFinal == Spec => SummaryOnlyGrows
<1>1. ASSUME IInv, [Next]_vars
      PROVE  [Counted \cap kept \subseteq Counted']_vars
  <2>1. DOMAIN file \subseteq DOMAIN file' /\ \A k \in DOMAIN file : file'[k] = file[k]
    <3>1. CASE file' = file
      BY <3>1
    <3>2. ASSUME NEW p \in Procs, Flush(p)
          PROVE  DOMAIN file \subseteq DOMAIN file' /\ \A k \in DOMAIN file : file'[k] = file[k]
      <4>1. current[p] # Idle /\ file' = Append(file, Piece(current[p], sent[p] + 1, "whole"))
        BY <3>2 DEF Flush
      <4>2. Piece(current[p], sent[p] + 1, "whole") \in Pieces
        BY <4>1, CurrentFacts, <1>1
      <4>3. QED
        BY <1>1, <4>1, <4>2, AppendFacts DEF IInv
    <3>3. ASSUME NEW p \in Procs, current[p] # Idle, file' \in Partly(p)
          PROVE  DOMAIN file \subseteq DOMAIN file' /\ \A k \in DOMAIN file : file'[k] = file[k]
      BY <1>1, <3>3, PartlyFacts
    <3>4. \/ file' = file
          \/ \E p \in Procs : Flush(p)
          \/ \E p \in Procs : current[p] # Idle /\ file' \in Partly(p)
      BY <1>1 DEF Next, Log, Fail, Die, vars
    <3>5. QED
      BY <3>1, <3>2, <3>3, <3>4
  <2>2. QED
    BY <1>1, <2>1, ReadForGood
<1>2. QED
  BY <1>1, LogInvariant, PTL DEF Spec, SummaryOnlyGrows
=============================================================================
