------------------------- MODULE ScaffoldingProofs -------------------------
(***************************************************************************)
(* Proofs about the commands that write files, for every document, every   *)
(* number of runs and every interference.                                  *)
(*                                                                         *)
(* The argument: planning and writing are the same count, the one over all *)
(* modules, the other over those that were not skipped.  They agree when   *)
(* nothing was skipped, since then they count over the same names, and     *)
(* when no two modules meet, since then neither counts.  In both cases the *)
(* writer gives each module the name planned for it, which is no other     *)
(* module's and, without --force, no existing file's.                      *)
(***************************************************************************)
EXTENDS Scaffolding, FiniteSetTheorems, WellFoundedInduction, TLAPS

\* The names planned before the k-th.
Earlier(names, k) == {names[j] : j \in 1..(k - 1)}

\* names is what planning the document gives.
IsPlan(names, ids) ==
  /\ Len(names) = Len(ids)
  /\ \A k \in DOMAIN names : names[k] = Free(Base[ids[k]], Earlier(names, k))

Agree == skipped = {} \/ Distinct(document)
Generating == pc \in {"plan", "find", "write"} \/ (pc = "done" /\ planned # <<>>)

PlanInv ==
  /\ IsFiniteSet(Range(planned)) /\ IsFiniteSet(named)
  /\ Len(planned) <= Len(document)
  /\ \A k \in DOMAIN planned : planned[k] = Free(Base[document[k]], Earlier(planned, k))
  /\ \A j, k \in DOMAIN planned : planned[j] = planned[k] => j = k
  /\ Distinct(document) => \A k \in DOMAIN planned : planned[k] = Base[document[k]]

\* What has not happened yet at each place of a command.
PlaceInv ==
  /\ pc \in {"idle", "scan", "look", "put"} => planned = <<>>
  /\ pc \in {"idle", "scan", "plan"} =>
       i = 0 /\ existed = {} /\ skipped = {} /\ queue = <<>>
  /\ pc \in {"idle", "scan", "plan", "find", "look", "put"} => results = <<>>
  /\ pc \in {"find", "write"} => Len(planned) = Len(document)
  /\ pc = "write" => i = Len(planned)
  /\ (pc = "done" /\ planned # <<>>) => Len(planned) = Len(document) /\ i = Len(planned)
  /\ pc \in {"idle", "write", "look", "put"} => ~dry

\* What awaits the writer: modules looked up and not skipped, each once, and
\* every module if none is skipped.  Each module looked up is skipped, or awaits
\* the writer, or has its result.
QueueInv ==
  Generating =>
    /\ queue \in Seq((1..Len(document)) \X Ids)
    /\ \A q \in DOMAIN queue :
         LET k == queue[q][1]
         IN  k \in 1..i /\ queue[q][2] = document[k] /\ planned[k] \notin skipped
    /\ \A p, q \in DOMAIN queue : queue[p][1] = queue[q][1] => p = q
    /\ IsFiniteSet(skipped) /\ Len(results) + Len(queue) + Cardinality(skipped) = i
    /\ skipped = {} =>
         /\ Len(results) + Len(queue) = i
         /\ \A q \in DOMAIN queue : queue[q][1] = Len(results) + q
    /\ skipped \subseteq Earlier(planned, i + 1)
    /\ IF force THEN skipped = {} ELSE existed = skipped

\* Where both countings agree, the writer's names are those planned.
Awaits(k)  == \E q \in DOMAIN queue : queue[q][1] = k
OnDisk(k)  == planned[k] \in DOMAIN disk /\ disk[planned[k]] = document[k]
Written(k) == \E r \in DOMAIN results :
                 results[r].name = planned[k] /\ (results[r].failed \/ touched \/ OnDisk(k))
WriteInv ==
  (Generating /\ Agree) =>
    /\ named \subseteq Range(planned) \ skipped
    /\ \A q \in DOMAIN queue : planned[queue[q][1]] \notin named
    /\ skipped = {} => named = Earlier(planned, Len(results) + 1)
    /\ \A k \in 1..i : planned[k] \in skipped \/ Awaits(k) \/ Written(k)

OutcomeInv ==
  (pc = "done" /\ planned # <<>> /\ ~dry /\ status = 0) =>
     queue = <<>> /\ \A r \in DOMAIN results : ~results[r].failed

\* What the lookups have found, if nobody interfered.
FoundInv ==
  (pc = "find" /\ ~touched) =>
     skipped = IF force THEN {} ELSE Earlier(planned, i + 1) \intersect DOMAIN disk

\* An announcement that still applies: what a run would do now, and later on
\* what the run under way does.
Announced(names, forced) == Range(names) \ (IF forced THEN {} ELSE DOMAIN disk)
ForetoldInv ==
  foretold.valid =>
    /\ ~touched
    /\ (pc \in {"idle", "scan", "plan", "find"} \/ (pc = "done" /\ dry)) =>
         \E names \in Seq(NamesOfAll) :
            IsPlan(names, document) /\ foretold.names = Announced(names, foretold.force)
    /\ (Generating /\ pc \in {"write", "done"} /\ ~dry /\ foretold.force = force) =>
         foretold.names = Range(planned) \ skipped

\* "init module" goes on only while it has found nothing.
TemplateInv ==
  pc \in {"look", "put"} =>
    /\ queue # <<>>
    /\ \E t \in Templates : queue \in Seq(Range(t.files) \X {t.id})
    /\ ~force => existed = {}

IInv ==
  /\ TypeOK /\ PlanInv /\ PlaceInv /\ QueueInv /\ WriteInv /\ OutcomeInv
  /\ FoundInv /\ ForetoldInv /\ TemplateInv
-----------------------------------------------------------------------------
(* Facts about the operators of the model. *)

LEMMA LeastOf ==
  ASSUME NEW S \in SUBSET Nat, S # {}
  PROVE  \E n \in S : \A m \in S : n <= m
<1> DEFINE below == {ss \in Nat \X Nat : ss[1] < ss[2]}
<1>1. IsWellFoundedOn(below, Nat)
  BY NatLessThanWellFounded, Zenon DEF OpToRel
<1>2. PICK n \in S : \A m \in S : ~(<<m, n>> \in below)
  <2> HIDE DEF below
  <2>1. QED
    BY <1>1, WFMin
<1>3. ASSUME NEW m \in S PROVE n <= m
  <2>1. m \in Nat /\ n \in Nat /\ <<m, n>> \notin below
    BY <1>2
  <2>2. m < n => <<m, n>> \in below
    BY <2>1
  <2>3. QED
    BY <2>1, <2>2
<1>4. QED
  BY <1>3

LEMMA DocumentFacts ==
  ASSUME document \in Documents
  PROVE  /\ document \in Seq(Ids) /\ Len(document) \in Nat
         /\ DOMAIN document = 1..Len(document)
         /\ \A k \in DOMAIN document : document[k] \in Ids /\ Base[document[k]] \in Range(Base)
<1>1. document \in Seq(Ids)
  BY DocumentsAssumption
<1>2. Len(document) \in Nat /\ DOMAIN document = 1..Len(document)
  BY <1>1
<1>3. \A k \in DOMAIN document : document[k] \in Ids
  BY <1>1
<1>4. QED
  BY <1>1, <1>2, <1>3 DEF Ids, Range

\* Among fewer names than the document has modules the count finds a free one,
\* and the bare name if that is free.
LEMMA FreeFacts ==
  ASSUME document \in Documents, NEW k \in DOMAIN document,
         NEW seen, IsFiniteSet(seen), Cardinality(seen) < Len(document)
  PROVE  /\ Free(Base[document[k]], seen) \in NamesOfAll \ seen
         /\ Base[document[k]] \notin seen => Free(Base[document[k]], seen) = Base[document[k]]
<1> DEFINE base  == Base[document[k]]
           most  == Cardinality(seen)
           hits  == {n \in 0..most : Name(base, n) \notin seen}
           Hit(n) == Name(base, n) \notin seen /\ \A m \in 0..(n - 1) : Name(base, m) \in seen
<1>1. most \in Nat /\ Len(document) \in Nat /\ 0..most \subseteq 0..(Len(document) - 1)
  BY FS_CardinalityType, DocumentFacts
<1>2. /\ \A m, n \in 0..most : m # n => Name(base, m) # Name(base, n)
      /\ \A n \in 0..most : n > 0 => <<base, n>> \in DOMAIN Numbered
  BY <1>1, DocumentsAssumption
<1>3. hits # {}
  <2>1. SUFFICES ASSUME \A n \in 0..most : Name(base, n) \in seen
                 PROVE  FALSE
    OBVIOUS
  <2> DEFINE f == [n \in 0..most |-> Name(base, n)]
  <2>2. f \in [0..most -> seen] /\ \A m, n \in 0..most : f[m] = f[n] => m = n
    BY <2>1, <1>2
  <2>3. IsFiniteSet(0..most) /\ Cardinality(0..most) = most + 1
    BY <1>1, FS_Interval
  <2>4. most < most + 1
    BY <1>1
  <2> HIDE DEF f
  <2>5. PICK m, n \in 0..most : m # n /\ f[m] = f[n]
    <3>1. Cardinality(seen) < Cardinality(0..most)
      BY <2>3, <2>4
    <3>2. QED
      BY <2>2, <2>3, <3>1, FS_PigeonHole
  <2>6. QED
    BY <2>2, <2>5
<1>4. PICK n \in hits : \A m \in hits : n <= m
  <2>1. hits \in SUBSET Nat
    BY <1>1
  <2> HIDE DEF hits
  <2>2. QED
    BY <1>3, <2>1, LeastOf
<1>5. n \in 0..most /\ Hit(n)
  <2>1. ASSUME NEW m \in 0..(n - 1) PROVE Name(base, m) \in seen
    <3>1. m \in 0..most /\ m < n
      BY <1>1, <1>4
    <3>2. QED
      BY <3>1, <1>4
  <2>2. QED
    BY <2>1, <1>4
<1> DEFINE count == CHOOSE c \in 0..most : Hit(c)
<1>6. count \in 0..most /\ Hit(count)
  <2> HIDE DEF Hit
  <2>1. QED
    BY <1>5
<1>7. Free(base, seen) = Name(base, count)
  BY DEF Free
<1>8. Name(base, count) \in NamesOfAll
  <2>1. CASE count = 0
    BY <2>1, DocumentFacts DEF Name, NamesOfAll
  <2>2. CASE count # 0
    <3>1. count > 0
      BY <1>6, <1>1, <2>2
    <3>2. <<base, count>> \in DOMAIN Numbered
      BY <1>2, <1>6, <3>1
    <3>3. QED
      BY <2>2, <3>2 DEF Name, NamesOfAll, Range
  <2>3. QED
    BY <2>1, <2>2
<1>9. base \notin seen => count = 0
  <2>1. SUFFICES ASSUME base \notin seen, count # 0
                 PROVE  FALSE
    OBVIOUS
  <2>2. 0 \in 0..(count - 1)
    BY <1>1, <1>6, <2>1
  <2>3. QED
    BY <1>6, <2>1, <2>2 DEF Name
<1> HIDE DEF count
<1>10. QED
  BY <1>6, <1>7, <1>8, <1>9 DEF Name

LEMMA IsEarlier ==
  ASSUME NEW names, NEW k, NEW x \in Earlier(names, k)
  PROVE  \E j \in 1..(k - 1) : names[j] = x
BY DEF Earlier

LEMMA EarlierFacts ==
  ASSUME NEW S, NEW names \in Seq(S)
  PROVE  /\ Earlier(names, 1) = {}
         /\ Earlier(names, Len(names) + 1) = Range(names)
         /\ \A k \in DOMAIN names : Earlier(names, k + 1) = Earlier(names, k) \union {names[k]}
<1>1. Len(names) \in Nat /\ DOMAIN names = 1..Len(names)
  OBVIOUS
<1>2. Earlier(names, Len(names) + 1) = Range(names)
  BY <1>1 DEF Earlier, Range
<1>3. ASSUME NEW k \in DOMAIN names
      PROVE  Earlier(names, k + 1) = Earlier(names, k) \union {names[k]}
  <2>1. 1..(k + 1 - 1) = 1..(k - 1) \union {k}
    BY <1>1
  <2>2. QED
    BY <2>1 DEF Earlier
<1>4. QED
  BY <1>2, <1>3 DEF Earlier

\* Planning is a function of the document.
LEMMA PlanIsUnique ==
  ASSUME NEW ids, NEW S, NEW T, NEW one \in Seq(S), NEW other \in Seq(T), 
         IsPlan(one, ids), IsPlan(other, ids)
  PROVE  one = other
<1>1. /\ Len(one) = Len(other) /\ Len(one) \in Nat
      /\ DOMAIN one = 1..Len(one) /\ DOMAIN other = 1..Len(one)
  BY DEF IsPlan
<1> DEFINE differ == {k \in 1..Len(one) : one[k] # other[k]}
<1>2. differ = {}
  <2>1. SUFFICES ASSUME differ # {}
                 PROVE  FALSE
    OBVIOUS
  <2>2. PICK k \in differ : \A j \in differ : k <= j
    <3>1. differ \in SUBSET Nat
      BY <1>1
    <3> HIDE DEF differ
    <3>2. QED
      BY <2>1, <3>1, LeastOf
  <2>3. \A j \in 1..(k - 1) : one[j] = other[j]
    <3>1. ASSUME NEW j \in 1..(k - 1) PROVE j \in 1..Len(one) /\ j < k
      BY <1>1, <2>2
    <3>2. QED
      BY <2>2, <3>1
  <2>4. Earlier(one, k) = Earlier(other, k)
    BY <2>3 DEF Earlier
  <2>5. QED
    BY <1>1, <2>2, <2>4 DEF IsPlan
<1>3. QED
  BY <1>1, <1>2

\* A name put at the end of a sequence of names.
LEMMA AppendFacts ==
  ASSUME NEW S, NEW names \in Seq(S), NEW x \in S
  PROVE  /\ Append(names, x) \in Seq(S)
         /\ Len(names) \in Nat /\ DOMAIN names = 1..Len(names)
         /\ Len(Append(names, x)) = Len(names) + 1
         /\ DOMAIN Append(names, x) = 1..(Len(names) + 1)
         /\ \A k \in 1..Len(names) : Append(names, x)[k] = names[k]
         /\ Append(names, x)[Len(names) + 1] = x
         /\ Range(Append(names, x)) = Range(names) \union {x}
         /\ \A k \in 1..(Len(names) + 1) : Earlier(Append(names, x), k) = Earlier(names, k)
<1> DEFINE longer == Append(names, x)
<1>1. /\ longer \in Seq(S)
      /\ Len(names) \in Nat /\ DOMAIN names = 1..Len(names)
      /\ Len(longer) = Len(names) + 1 /\ DOMAIN longer = 1..(Len(names) + 1)
      /\ \A k \in 1..Len(names) : longer[k] = names[k]
      /\ longer[Len(names) + 1] = x
  OBVIOUS
<1> HIDE DEF longer
<1>2. Range(longer) = Range(names) \union {x}
  <2>1. DOMAIN longer = DOMAIN names \union {Len(names) + 1}
    BY <1>1
  <2>2. \A k \in DOMAIN names : longer[k] = names[k]
    BY <1>1
  <2>3. QED
    BY <1>1, <2>1, <2>2 DEF Range
<1>3. ASSUME NEW k \in 1..(Len(names) + 1) PROVE Earlier(longer, k) = Earlier(names, k)
  <2>1. \A j \in 1..(k - 1) : longer[j] = names[j]
    BY <1>1
  <2>2. QED
    BY <2>1 DEF Earlier
<1>4. QED
  BY <1>1, <1>2, <1>3 DEF longer

\* The front of a queue taken off.
LEMMA TailFacts ==
  ASSUME NEW S, NEW rest \in Seq(S), rest # <<>>
  PROVE  /\ Head(rest) = rest[1] /\ Tail(rest) \in Seq(S)
         /\ Len(rest) \in Nat /\ Len(rest) > 0 /\ DOMAIN rest = 1..Len(rest)
         /\ Len(Tail(rest)) = Len(rest) - 1
         /\ DOMAIN Tail(rest) = 1..(Len(rest) - 1)
         /\ \A q \in 1..(Len(rest) - 1) : Tail(rest)[q] = rest[q + 1]
  OBVIOUS
-----------------------------------------------------------------------------
(* Each step keeps the invariant. *)

\* What does not plan or write names leaves the plan as it is.
LEMMA PlanAside ==
  ASSUME PlanInv, UNCHANGED <<document, planned, named>>
  PROVE  PlanInv'
BY DEF PlanInv

LEMMA InvInit == Init => IInv
<1> SUFFICES ASSUME Init
             PROVE  IInv
  OBVIOUS
<1> USE DEF Init, Idle
<1>1. Range(planned) = {} /\ Range(results) = {} /\ Range(disk) = {} /\ DOMAIN disk = {}
  BY DEF Range
<1>2. IsFiniteSet({}) /\ Cardinality({}) = 0
  BY FS_EmptySet
<1>3. TypeOK
  <2>1. Nothing \in [valid : BOOLEAN, force : BOOLEAN, names : SUBSET NamesOfAll]
    BY DEF Nothing
  <2>2. {r.name : r \in Range(results)} = {}
    BY <1>1
  <2>3. Len(planned) = 0 /\ Len(results) = 0
    OBVIOUS
  <2>4. planned \in Seq(NamesOfAll) /\ i \in 0..Len(planned)
    BY <2>3
  <2>5. results \in Seq([id : Ids, name : NamesOfAll, failed : BOOLEAN])
    OBVIOUS
  <2>6. /\ document \in Documents
        /\ DOMAIN disk \subseteq NamesOfAll
        /\ Range(disk) \subseteq Ids \union {t.id : t \in Templates} \union {"theirs", "torn"}
        /\ existed \subseteq NamesOfAll /\ skipped \subseteq existed
        /\ touched \in BOOLEAN /\ force \in BOOLEAN /\ dry \in BOOLEAN
    BY <1>1
  <2>7. QED
    BY <1>1, <1>2, <2>1, <2>2, <2>3, <2>4, <2>5, <2>6 DEF TypeOK
<1>4. PlanInv
  <2>1. Len(planned) = 0 /\ DOMAIN planned = {} /\ Len(document) \in Nat
    BY DocumentFacts
  <2>2. IsFiniteSet(Range(planned)) /\ IsFiniteSet(named)
    BY <1>1, <1>2
  <2>3. Len(planned) <= Len(document)
    BY <2>1
  <2> HIDE DEF Init, Idle
  <2>4. QED
    BY <2>1, <2>2, <2>3 DEF PlanInv
<1>5. PlaceInv /\ QueueInv /\ WriteInv /\ OutcomeInv /\ FoundInv /\ TemplateInv
  BY DEF PlaceInv, QueueInv, WriteInv, OutcomeInv, FoundInv, TemplateInv, Generating
<1>6. ForetoldInv
  BY DEF ForetoldInv, Nothing
<1>7. QED
  BY <1>3, <1>4, <1>5, <1>6 DEF IInv

LEMMA GenerateStep ==
  ASSUME IInv, Generate
  PROVE  IInv'
<1> USE DEF Generate
<1>1. TypeOK'
  BY DEF IInv, TypeOK
<1>2. PlanInv'
  BY PlanAside DEF IInv
<1>3. /\ PlaceInv' /\ QueueInv' /\ WriteInv' /\ OutcomeInv' /\ FoundInv' /\ TemplateInv'
  BY DEF IInv, PlaceInv, QueueInv, WriteInv, OutcomeInv, FoundInv, TemplateInv, Generating
<1>4. ForetoldInv'
  BY DEF IInv, ForetoldInv, Announced, Generating
<1>5. QED
  BY <1>1, <1>2, <1>3, <1>4 DEF IInv

LEMMA ScanFailsStep ==
  ASSUME IInv, ScanFails
  PROVE  IInv'
<1> USE DEF ScanFails, worldVars
<1>1. TypeOK'
  BY DEF IInv, TypeOK
<1>2. PlanInv'
  BY PlanAside DEF IInv
<1>3. /\ PlaceInv' /\ QueueInv' /\ WriteInv' /\ OutcomeInv' /\ FoundInv' /\ TemplateInv'
  BY DEF IInv, PlaceInv, QueueInv, WriteInv, OutcomeInv, FoundInv, TemplateInv, Generating
<1>4. ForetoldInv'
  BY DEF IInv, PlaceInv, ForetoldInv, Announced, Generating
<1>5. QED
  BY <1>1, <1>2, <1>3, <1>4 DEF IInv

LEMMA ScannedStep ==
  ASSUME IInv, Scanned
  PROVE  IInv'
<1> USE DEF Scanned, worldVars
<1>1. TypeOK'
  BY DEF IInv, TypeOK
<1>2. PlanInv'
  BY PlanAside DEF IInv
<1>3. PlaceInv' /\ OutcomeInv' /\ FoundInv' /\ TemplateInv'
  BY DEF IInv, PlaceInv, OutcomeInv, FoundInv, TemplateInv, Generating
<1>4. QueueInv'
  BY FS_EmptySet DEF IInv, PlaceInv, QueueInv, Generating
<1>5. WriteInv'
  <2>1. /\ planned = <<>> /\ results = <<>> /\ queue = <<>> /\ i = 0
        /\ Range(planned) = {} /\ Range(results) = {}
    BY DEF IInv, PlaceInv, Range
  <2>2. named = {} /\ Earlier(planned, Len(results) + 1) = {}
    <3>1. Len(results) + 1 = 1 /\ planned \in Seq(NamesOfAll)
      BY <2>1
    <3>2. QED
      BY <2>1, <3>1, EarlierFacts DEF IInv, TypeOK
  <2>3. QED
    BY <2>1, <2>2 DEF WriteInv
<1>6. ForetoldInv'
  BY DEF IInv, ForetoldInv, Announced, Generating
<1>7. QED
  BY <1>1, <1>2, <1>3, <1>4, <1>5, <1>6 DEF IInv

LEMMA AllPlannedStep ==
  ASSUME IInv, AllPlanned
  PROVE  IInv'
<1> USE DEF AllPlanned, worldVars
<1>1. TypeOK'
  BY DEF IInv, TypeOK
<1>2. PlanInv'
  BY PlanAside DEF IInv
<1>3. PlaceInv' /\ OutcomeInv' /\ TemplateInv'
  BY DEF IInv, PlaceInv, OutcomeInv, TemplateInv
<1>4. FoundInv'
  BY EarlierFacts DEF IInv, TypeOK, PlaceInv, FoundInv
<1>5. QueueInv' /\ WriteInv'
  BY DEF IInv, QueueInv, WriteInv, Generating, Agree, Awaits, Written, OnDisk
<1>6. ForetoldInv'
  BY DEF IInv, ForetoldInv, Announced, Generating
<1>7. QED
  BY <1>1, <1>2, <1>3, <1>4, <1>5, <1>6 DEF IInv

\* A new name is no earlier one, and the bare one if no two modules meet.
LEMMA PlanNameStep ==
  ASSUME IInv, PlanName
  PROVE  IInv'
<1> USE DEF PlanName, worldVars
<1> DEFINE n    == Len(planned) + 1
           name == Free(Base[document[n]], Range(planned))
<1>1. /\ planned \in Seq(NamesOfAll) /\ Len(planned) \in Nat
      /\ IsFiniteSet(Range(planned)) /\ Cardinality(Range(planned)) = Len(planned)
      /\ document \in Documents /\ n \in DOMAIN document /\ n \in 1..n
  BY DocumentFacts DEF IInv, TypeOK, PlanInv
<1>2. /\ name \in NamesOfAll /\ name \notin Range(planned)
      /\ Base[document[n]] \notin Range(planned) => name = Base[document[n]]
  BY <1>1, FreeFacts
<1>3. planned' = Append(planned, name)
  OBVIOUS
<1> HIDE DEF name
<1>4. /\ planned' \in Seq(NamesOfAll) /\ DOMAIN planned = 1..Len(planned)
      /\ Len(planned') = n /\ DOMAIN planned' = 1..n
      /\ \A k \in DOMAIN planned : planned'[k] = planned[k]
      /\ planned'[n] = name
      /\ Range(planned') = Range(planned) \union {name}
      /\ \A k \in 1..n : Earlier(planned', k) = Earlier(planned, k)
  BY <1>1, <1>2, <1>3, AppendFacts
<1>5. DOMAIN planned' = DOMAIN planned \union {n}
  BY <1>1, <1>4
<1>6. IsFiniteSet(Range(planned')) /\ Cardinality(Range(planned')) = Len(planned')
  <2>1. IsFiniteSet(Range(planned) \union {name})
    BY <1>1, FS_AddElement
  <2>2. Cardinality(Range(planned) \union {name}) = Cardinality(Range(planned)) + 1
    BY <1>1, <1>2, FS_AddElement
  <2>3. QED
    BY <1>1, <1>4, <2>1, <2>2
<1>7. TypeOK'
  <2>1. i' \in 0..Len(planned')
    BY <1>1, <1>4 DEF IInv, TypeOK
  <2>2. QED
    BY <1>4, <1>6, <2>1 DEF IInv, TypeOK
<1>8. PlanInv'
  <2>1. \A k \in DOMAIN planned' : planned'[k] = Free(Base[document[k]], Earlier(planned', k))
    <3>1. ASSUME NEW k \in DOMAIN planned
          PROVE  planned'[k] = Free(Base[document[k]], Earlier(planned', k))
      <4>1. k \in 1..n
        BY <1>1, <1>4
      <4>2. planned[k] = Free(Base[document[k]], Earlier(planned, k))
        BY DEF IInv, PlanInv
      <4>3. QED
        BY <1>4, <4>1, <4>2
    <3>2. planned'[n] = Free(Base[document[n]], Earlier(planned', n))
      <4>1. Earlier(planned, n) = Range(planned)
        BY <1>1, EarlierFacts
      <4>2. QED
        BY <1>1, <1>4, <4>1 DEF name
    <3>3. QED
      BY <1>5, <3>1, <3>2
  <2>2. \A j, k \in DOMAIN planned' : planned'[j] = planned'[k] => j = k
    <3>1. \A k \in DOMAIN planned : planned[k] # name
      BY <1>2 DEF Range
    <3>2. \A j, k \in DOMAIN planned : planned[j] = planned[k] => j = k
      BY DEF IInv, PlanInv
    <3>3. QED
      BY <1>4, <1>5, <3>1, <3>2
  <2>3. Distinct(document) => \A k \in DOMAIN planned' : planned'[k] = Base[document[k]]
    <3>1. SUFFICES ASSUME Distinct(document)
                   PROVE  \A k \in DOMAIN planned' : planned'[k] = Base[document[k]]
      OBVIOUS
    <3>2. \A k \in DOMAIN planned : planned[k] = Base[document[k]]
      BY <3>1 DEF IInv, PlanInv
    <3>3. \A k \in DOMAIN planned : k \in DOMAIN document /\ k # n
      BY <1>1, <1>4, DocumentFacts
    <3>4. Base[document[n]] \notin Range(planned)
      BY <1>1, <3>1, <3>2, <3>3 DEF Range, Distinct
    <3>5. QED
      BY <1>2, <1>4, <1>5, <3>2, <3>4
  <2>4. Len(planned') <= Len(document)
    BY <1>1, <1>4, DocumentFacts
  <2>5. IsFiniteSet(named)
    BY DEF IInv, PlanInv
  <2>6. QED
    BY <1>6, <2>1, <2>2, <2>3, <2>4, <2>5 DEF PlanInv
<1>9. PlaceInv' /\ OutcomeInv' /\ FoundInv' /\ TemplateInv'
  BY DEF IInv, PlaceInv, OutcomeInv, FoundInv, TemplateInv
<1>10. QueueInv'
  BY DEF IInv, PlaceInv, QueueInv, Generating
<1>11. WriteInv'
  <2>1. /\ results = <<>> /\ queue = <<>> /\ i = 0 /\ Range(results) = {}
    BY DEF IInv, PlaceInv, Range
  <2>2. named = {} /\ Earlier(planned', Len(results) + 1) = {}
    <3>1. Len(results) + 1 = 1
      BY <2>1
    <3>2. QED
      BY <1>4, <2>1, <3>1, EarlierFacts DEF IInv, TypeOK
  <2>3. QED
    BY <2>1, <2>2 DEF WriteInv
<1>12. ForetoldInv'
  BY DEF IInv, ForetoldInv, Announced, Generating
<1>13. QED
  BY <1>7, <1>8, <1>9, <1>10, <1>11, <1>12 DEF IInv

LEMMA FindStep ==
  ASSUME IInv, Find
  PROVE  IInv'
<1> USE DEF Find, worldVars
<1> DEFINE n == i + 1
<1>1. /\ planned \in Seq(NamesOfAll) /\ Len(planned) \in Nat /\ DOMAIN planned = 1..Len(planned)
      /\ Len(planned) = Len(document) /\ DOMAIN document = 1..Len(document)
      /\ i \in Nat /\ i' = n /\ n \in 1..Len(planned) /\ 1..n = 1..i \union {n}
      /\ planned[n] \in NamesOfAll /\ document[n] \in Ids
  <2>1. document \in Documents /\ Len(planned) = Len(document)
    BY DEF IInv, TypeOK, PlaceInv
  <2>2. planned \in Seq(NamesOfAll) /\ i \in 0..Len(planned) /\ i < Len(planned)
    BY DEF IInv, TypeOK
  <2>3. Len(planned) \in Nat /\ DOMAIN planned = 1..Len(planned)
    BY <2>2
  <2>4. n \in 1..Len(planned) /\ i \in Nat /\ 1..n = 1..i \union {n}
    BY <2>2, <2>3
  <2>5. QED
    BY <2>1, <2>2, <2>3, <2>4, DocumentFacts
<1>2. \A k \in 1..i : k \in DOMAIN planned /\ k # n /\ planned[k] # planned[n]
  BY <1>1 DEF IInv, PlanInv
<1>3. /\ results = <<>> /\ Len(results) = 0 /\ named = {}
      /\ queue \in Seq((1..Len(document)) \X Ids)
      /\ \A q \in DOMAIN queue :
           queue[q][1] \in 1..i /\ queue[q][2] = document[queue[q][1]] /\ planned[queue[q][1]] \notin skipped
  <2>1. results = <<>> /\ Range(results) = {}
    BY DEF IInv, PlaceInv, Range
  <2>2. QED
    BY <2>1 DEF IInv, TypeOK, QueueInv, Generating
<1>4. TypeOK'
  <2>1. existed' \subseteq NamesOfAll /\ skipped' \subseteq existed'
    BY <1>1 DEF IInv, TypeOK, LeftAlone
  <2>2. QED
    BY <1>1, <2>1 DEF IInv, TypeOK
<1>5. PlanInv'
  BY PlanAside DEF IInv
<1>6. PlaceInv' /\ OutcomeInv' /\ TemplateInv'
  BY DEF IInv, PlaceInv, OutcomeInv, TemplateInv
<1>7. QueueInv' /\ WriteInv'
  <2>1. CASE LeftAlone(planned[n])
    <3>1. skipped' = skipped \union {planned[n]} /\ queue' = queue /\ ~force
      BY <1>1, <2>1 DEF LeftAlone
    <3>2. existed' = skipped'
      BY <1>1, <2>1, <3>1 DEF IInv, QueueInv, Generating, LeftAlone
    <3>3. \A q \in DOMAIN queue : planned[queue[q][1]] \notin skipped'
      BY <1>2, <1>3, <3>1
    <3>4. IsFiniteSet(skipped') /\ Len(results) + Len(queue) + Cardinality(skipped') = i'
      <4>1. /\ IsFiniteSet(skipped) /\ skipped \subseteq Earlier(planned, n)
            /\ Len(results) + Len(queue) + Cardinality(skipped) = i
        BY DEF IInv, QueueInv, Generating
      <4>2. planned[n] \notin skipped
        BY <1>1, <1>2, <4>1, IsEarlier
      <4>3. /\ IsFiniteSet(skipped') /\ Cardinality(skipped') = Cardinality(skipped) + 1
            /\ Cardinality(skipped) \in Nat
        BY <3>1, <4>1, <4>2, FS_AddElement, FS_CardinalityType
      <4>4. Len(queue) \in Nat
        BY <1>3
      <4>5. QED
        BY <1>1, <1>3, <4>1, <4>3, <4>4
    <3>5. skipped' # {}
      BY <3>1
    <3>6. QueueInv'
      <4>1. Earlier(planned, n + 1) = Earlier(planned, n) \union {planned[n]}
        BY <1>1, EarlierFacts
      <4>2. skipped' \subseteq Earlier(planned, n + 1)
        BY <3>1, <4>1 DEF IInv, QueueInv, Generating
      <4>3. QED
        BY <1>1, <1>3, <3>1, <3>2, <3>3, <3>4, <3>5, <4>2 DEF IInv, QueueInv, Generating
    <3>7. ASSUME Agree', NEW k \in 1..n
          PROVE  planned[k] \in skipped' \/ Awaits(k)'
      <4>1. Agree
        BY <3>5, <3>7 DEF Agree
      <4>2. ASSUME k \in 1..i PROVE planned[k] \in skipped \/ Awaits(k)
        <5>1. ~Written(k)
          BY <1>3 DEF Written
        <5>2. QED
          BY <4>1, <4>2, <5>1 DEF IInv, WriteInv, Generating
      <4>3. QED
        BY <1>1, <3>1, <4>2 DEF Awaits
    <3>8. WriteInv'
      BY <1>1, <1>3, <3>5, <3>7 DEF WriteInv
    <3>9. QED
      BY <3>6, <3>8
  <2>2. CASE ~LeftAlone(planned[n])
    <3>1. skipped' = skipped /\ queue' = Append(queue, <<n, document[n]>>)
      BY <1>1, <2>2
    <3>2. planned[n] \notin skipped
      <4>1. skipped \subseteq Earlier(planned, i + 1)
        BY DEF IInv, QueueInv, Generating
      <4>2. planned[n] \notin Earlier(planned, i + 1)
        <5>1. SUFFICES ASSUME planned[n] \in Earlier(planned, n)
                       PROVE  FALSE
          OBVIOUS
        <5>2. PICK j \in 1..(n - 1) : planned[j] = planned[n]
          BY <5>1, IsEarlier
        <5>3. QED
          BY <1>1, <1>2, <5>2
      <4>3. QED
        BY <4>1, <4>2
    <3>3. /\ queue' \in Seq((1..Len(document)) \X Ids)
          /\ Len(queue) \in Nat /\ DOMAIN queue = 1..Len(queue)
          /\ Len(queue') = Len(queue) + 1 /\ DOMAIN queue' = DOMAIN queue \union {Len(queue) + 1}
          /\ \A q \in DOMAIN queue : queue'[q] = queue[q]
          /\ queue'[Len(queue) + 1] = <<n, document[n]>>
      <4>1. <<n, document[n]>> \in (1..Len(document)) \X Ids
        BY <1>1
      <4>2. 1..(Len(queue) + 1) = 1..Len(queue) \union {Len(queue) + 1}
        BY <1>3
      <4>3. QED
        BY <1>3, <3>1, <4>1, <4>2, AppendFacts
    <3>4. \A q \in DOMAIN queue' :
            /\ queue'[q][1] \in 1..n /\ queue'[q][2] = document[queue'[q][1]]
            /\ planned[queue'[q][1]] \notin skipped
      BY <1>1, <1>3, <3>2, <3>3
    <3>5. \A p, q \in DOMAIN queue' : queue'[p][1] = queue'[q][1] => p = q
      <4>1. \A p, q \in DOMAIN queue : queue[p][1] = queue[q][1] => p = q
        BY DEF IInv, QueueInv, Generating
      <4>2. \A q \in DOMAIN queue : queue[q][1] # n
        BY <1>2, <1>3
      <4>3. QED
        BY <3>3, <4>1, <4>2
    <3>6. IsFiniteSet(skipped) /\ Len(results) + Len(queue') + Cardinality(skipped) = n
      <4>1. IsFiniteSet(skipped) /\ Len(results) + Len(queue) + Cardinality(skipped) = i
        BY DEF IInv, QueueInv, Generating
      <4>2. Cardinality(skipped) \in Nat
        BY <4>1, FS_CardinalityType
      <4>3. QED
        BY <1>1, <1>3, <3>3, <4>1, <4>2
    <3>7. skipped = {} => /\ Len(results) + Len(queue') = n
                         /\ \A q \in DOMAIN queue' : queue'[q][1] = Len(results) + q
      <4>1. SUFFICES ASSUME skipped = {}
                     PROVE  /\ Len(results) + Len(queue') = n
                            /\ \A q \in DOMAIN queue' : queue'[q][1] = Len(results) + q
        OBVIOUS
      <4>2. Len(queue) = i /\ \A q \in DOMAIN queue : queue[q][1] = Len(results) + q
        BY <1>3, <3>3, <4>1 DEF IInv, QueueInv, Generating
      <4>3. QED
        BY <1>1, <1>3, <3>3, <4>2
    <3>8. IF force THEN skipped' = {} ELSE existed' = skipped'
      <4>1. IF force THEN skipped = {} ELSE existed = skipped
        BY DEF IInv, QueueInv, Generating
      <4>2. ~force => existed' = existed
        BY <1>1, <2>2 DEF LeftAlone
      <4>3. QED
        BY <3>1, <4>1, <4>2
    <3>9. skipped \subseteq Earlier(planned, n + 1)
      <4>1. Earlier(planned, n + 1) = Earlier(planned, n) \union {planned[n]}
        BY <1>1, EarlierFacts
      <4>2. QED
        BY <4>1 DEF IInv, QueueInv, Generating
    <3>10. QueueInv'
      BY <1>1, <3>1, <3>3, <3>4, <3>5, <3>6, <3>7, <3>8, <3>9 DEF QueueInv
    <3>11. ASSUME Agree, NEW k \in 1..n
           PROVE  planned[k] \in skipped \/ Awaits(k)'
      <4>1. Len(queue) + 1 \in DOMAIN queue' /\ queue'[Len(queue) + 1][1] = n
        BY <3>3
      <4>2. CASE k \in 1..i
        <5>1. ~Written(k)
          BY <1>3 DEF Written
        <5>2. planned[k] \in skipped \/ Awaits(k)
          BY <3>11, <4>2, <5>1 DEF IInv, WriteInv, Generating
        <5>3. QED
          BY <3>3, <5>2 DEF Awaits
      <4>3. CASE k = n
        BY <4>1, <4>3 DEF Awaits
      <4>4. QED
        BY <1>1, <4>2, <4>3
    <3>12. WriteInv'
      <4>1. skipped = {} => named = Earlier(planned, Len(results) + 1)
        BY <1>1, <1>3, EarlierFacts
      <4>2. Agree' <=> Agree
        BY <3>1 DEF Agree
      <4>3. QED
        BY <1>1, <1>3, <3>1, <3>11, <4>1, <4>2 DEF WriteInv
    <3>13. QED
      BY <3>10, <3>12
  <2>3. QED
    BY <2>1, <2>2
<1>8. FoundInv'
  <2>1. Earlier(planned, n + 1) = Earlier(planned, n) \union {planned[n]}
    BY <1>1, EarlierFacts
  <2>2. QED
    BY <1>1, <2>1 DEF IInv, FoundInv, LeftAlone
<1>9. ForetoldInv'
  BY DEF IInv, ForetoldInv, Announced, Generating
<1>10. QED
  BY <1>4, <1>5, <1>6, <1>7, <1>8, <1>9 DEF IInv

LEMMA AllFoundStep ==
  ASSUME IInv, AllFound
  PROVE  IInv'
<1> USE DEF AllFound, worldVars
<1>1. /\ planned \in Seq(NamesOfAll) /\ Len(planned) = Len(document) /\ i = Len(planned)
      /\ DOMAIN planned = DOMAIN document
      /\ Earlier(planned, i + 1) = Range(planned)
  <2>1. planned \in Seq(NamesOfAll) /\ Len(planned) = Len(document)
    BY DEF IInv, TypeOK, PlaceInv
  <2>2. QED
    BY <2>1, EarlierFacts, DocumentFacts DEF IInv, TypeOK
<1>2. IsPlan(planned, document)
  BY <1>1 DEF IInv, PlanInv, IsPlan
<1>3. ~touched => Range(planned) \ skipped = Announced(planned, force)
  BY <1>1 DEF IInv, FoundInv, Announced
<1>4. Range(planned) \subseteq NamesOfAll
  BY <1>1 DEF Range
<1>5. TypeOK'
  <2>1. foretold' \in [valid : BOOLEAN, force : BOOLEAN, names : SUBSET NamesOfAll]
    <3>1. CASE dry
      <4>1. foretold' = [valid |-> ~touched, force |-> force, names |-> Range(planned) \ skipped]
        BY <3>1
      <4>2. Range(planned) \ skipped \in SUBSET NamesOfAll
        BY <1>4
      <4>3. (~touched) \in BOOLEAN /\ force \in BOOLEAN
        BY DEF IInv, TypeOK
      <4>4. QED
        BY <4>1, <4>2, <4>3, Zenon
    <3>2. CASE ~dry
      BY <3>2 DEF IInv, TypeOK
    <3>3. QED
      BY <3>1, <3>2
  <2>2. pc' \in {"done", "write"}
    OBVIOUS
  <2>3. QED
    BY <2>1, <2>2 DEF IInv, TypeOK
<1>6. PlanInv'
  BY PlanAside DEF IInv
<1>7. PlaceInv' /\ OutcomeInv' /\ FoundInv' /\ TemplateInv'
  BY <1>1 DEF IInv, PlaceInv, OutcomeInv, FoundInv, TemplateInv
<1>8. QueueInv' /\ WriteInv'
  BY DEF IInv, QueueInv, WriteInv, Generating, Agree, Awaits, Written, OnDisk
<1>9. ForetoldInv'
  <2>1. CASE dry
    <3>1. /\ foretold'.valid = ~touched /\ foretold'.force = force
          /\ foretold'.names = Range(planned) \ skipped /\ pc' = "done"
      BY <2>1
    <3>2. QED
      BY <1>1, <1>2, <1>3, <2>1, <3>1 DEF ForetoldInv, Announced
  <2>2. CASE ~dry
    <3>1. SUFFICES ASSUME foretold.valid, foretold.force = force
                   PROVE  foretold.names = Range(planned) \ skipped
      BY <2>2 DEF IInv, ForetoldInv
    <3>2. PICK names \in Seq(NamesOfAll) :
            IsPlan(names, document) /\ foretold.names = Announced(names, force)
      BY <3>1 DEF IInv, ForetoldInv
    <3>3. names = planned
      BY <1>1, <1>2, <3>2, PlanIsUnique
    <3>4. QED
      BY <1>3, <3>1, <3>2, <3>3 DEF IInv, ForetoldInv
  <2>3. QED
    BY <2>1, <2>2 DEF IInv, TypeOK
<1>10. QED
  BY <1>5, <1>6, <1>7, <1>8, <1>9 DEF IInv

\* What the writer calls the next module: a name it has not given yet and, where
\* both countings agree, the one planned.
LEMMA WriterName ==
  ASSUME IInv, pc = "write", queue # <<>>
  PROVE  LET k    == Head(queue)[1]
             name == Free(Base[Head(queue)[2]], named)
         IN  /\ k \in DOMAIN planned /\ Head(queue)[2] = document[k] /\ document[k] \in Ids
             /\ planned[k] \notin skipped
             /\ name \in NamesOfAll /\ name \notin named
             /\ Agree => name = planned[k]
<1> DEFINE k    == Head(queue)[1]
           name == Free(Base[Head(queue)[2]], named)
<1>1. /\ document \in Documents /\ Len(document) \in Nat /\ DOMAIN document = 1..Len(document)
      /\ planned \in Seq(NamesOfAll) /\ Len(planned) = Len(document) /\ i = Len(planned)
      /\ Len(results) \in Nat /\ Cardinality(named) = Len(results) /\ IsFiniteSet(named)
  BY DocumentFacts DEF IInv, TypeOK, PlaceInv, PlanInv
<1>2. /\ queue \in Seq((1..Len(document)) \X Ids)
      /\ Len(results) + Len(queue) + Cardinality(skipped) = i /\ Cardinality(skipped) \in Nat
  BY FS_CardinalityType DEF IInv, QueueInv, Generating
<1>3. Head(queue) = queue[1] /\ Len(queue) \in Nat /\ Len(queue) > 0 /\ 1 \in DOMAIN queue
  BY <1>2, TailFacts
<1>4. k \in 1..i /\ Head(queue)[2] = document[k] /\ planned[k] \notin skipped
  BY <1>3 DEF IInv, QueueInv, Generating
<1>5. k \in DOMAIN document /\ k \in DOMAIN planned /\ document[k] \in Ids
  BY <1>1, <1>4, DocumentFacts
<1>6. Cardinality(named) < Len(document)
  BY <1>1, <1>2, <1>3
<1>7. /\ name \in NamesOfAll /\ name \notin named
      /\ Base[document[k]] \notin named => name = Base[document[k]]
  BY <1>1, <1>4, <1>5, <1>6, FreeFacts
<1>8. planned[k] = Free(Base[document[k]], Earlier(planned, k))
  BY <1>5 DEF IInv, PlanInv
<1>9. ASSUME Agree PROVE name = planned[k]
  <2>1. CASE Distinct(document)
    <3>1. planned[k] = Base[document[k]]
      BY <1>5, <2>1 DEF IInv, PlanInv
    <3>2. planned[k] \notin named
      BY <1>3, <1>9 DEF IInv, WriteInv, Generating
    <3>3. QED
      BY <1>7, <3>1, <3>2
  <2>2. CASE skipped = {}
    <3>1. k = Len(results) + 1
      BY <1>3, <2>2 DEF IInv, QueueInv, Generating
    <3>2. named = Earlier(planned, Len(results) + 1)
      BY <1>9, <2>2 DEF IInv, WriteInv, Generating
    <3>3. QED
      BY <1>4, <1>8, <3>1, <3>2
  <2>3. QED
    BY <1>9, <2>1, <2>2 DEF Agree
<1>10. QED
  BY <1>4, <1>5, <1>7, <1>9

LEMMA WriteNextStep ==
  ASSUME IInv, WriteNext
  PROVE  IInv'
<1> DEFINE k    == Head(queue)[1]
           id   == Head(queue)[2]
           name == Free(Base[id], named)
<1>0. /\ pc = "write" /\ queue # <<>>
      /\ UNCHANGED <<document, runs, edits, pc, force, dry, planned, i, existed, skipped,
                     status, touched, foretold>>
  BY DEF WriteNext
<1>1. /\ k \in DOMAIN planned /\ id = document[k] /\ id \in Ids
      /\ planned[k] \notin skipped
      /\ name \in NamesOfAll /\ name \notin named
      /\ Agree => name = planned[k]
  BY <1>0, WriterName
<1>2. PICK failed \in BOOLEAN, content \in {id, "torn"} :
        /\ results' = Append(results, [id |-> id, name |-> name, failed |-> failed])
        /\ disk' = With(name, content) \/ (failed /\ disk' = disk)
        /\ failed \/ (content = id /\ disk' = With(name, content))
  <2>1. CASE /\ disk' = With(name, id)
             /\ results' = Append(results, [id |-> id, name |-> name, failed |-> FALSE])
    BY <2>1, Zenon
  <2>2. CASE /\ disk' \in {disk, With(name, "torn")}
             /\ results' = Append(results, [id |-> id, name |-> name, failed |-> TRUE])
    BY <2>2, Zenon
  <2>3. QED
    BY <2>1, <2>2 DEF WriteNext
<1>a. /\ DOMAIN disk \subseteq DOMAIN disk' /\ DOMAIN disk' \subseteq DOMAIN disk \union {name}
      /\ Range(disk') \subseteq Range(disk) \union {content}
      /\ \A other \in DOMAIN disk \ {name} : disk'[other] = disk[other]
      /\ failed \/ (name \in DOMAIN disk' /\ disk'[name] = id)
  <2> HIDE DEF name, id
  <2>0. failed \/ content = id
    BY <1>2
  <2>1. CASE disk' = With(name, content)
    <3>1. /\ DOMAIN disk' = DOMAIN disk \union {name}
          /\ disk'[name] = content
          /\ \A other \in DOMAIN disk \ {name} : disk'[other] = disk[other]
          /\ Range(disk') \subseteq Range(disk) \union {content}
      BY <2>1 DEF With, Range
    <3>2. DOMAIN disk \subseteq DOMAIN disk' /\ name \in DOMAIN disk'
      BY <3>1
    <3>3. failed \/ disk'[name] = id
      BY <2>0, <3>1, Zenon
    <3>4. QED
      BY <3>1, <3>2, <3>3, Zenon
  <2>2. CASE failed /\ disk' = disk
    BY <2>2
  <2>3. QED
    BY <1>2, <2>1, <2>2
<1>3. named' = named \union {name} /\ queue' = Tail(queue)
  BY DEF WriteNext
<1> HIDE DEF name
<1> USE <1>0
<1> DEFINE one == [id |-> id, name |-> name, failed |-> failed]
           n   == Len(results) + 1
           All == [id : Ids, name : NamesOfAll, failed : BOOLEAN]
<1>4. one \in All /\ one.name = name /\ one.failed = failed
  BY <1>1
<1>5. /\ results' \in Seq(All)
      /\ Len(results) \in Nat /\ DOMAIN results = 1..Len(results)
      /\ Len(results') = n /\ DOMAIN results' = 1..n
      /\ \A r \in DOMAIN results : results'[r] = results[r]
      /\ results'[n] = one
      /\ Range(results') = Range(results) \union {one}
  <2>1. results \in Seq(All)
    BY DEF IInv, TypeOK
  <2>2. results' = Append(results, one)
    BY <1>2
  <2> HIDE DEF one, All
  <2>3. QED
    BY <1>4, <2>1, <2>2, AppendFacts
<1>6. DOMAIN results' = DOMAIN results \union {n} /\ n \in DOMAIN results'
  BY <1>5
<1>7. /\ queue \in Seq((1..Len(document)) \X Ids) /\ queue' \in Seq((1..Len(document)) \X Ids)
      /\ Head(queue) = queue[1] /\ Len(queue) \in Nat /\ Len(queue) > 0
      /\ DOMAIN queue = 1..Len(queue)
      /\ Len(queue') = Len(queue) - 1
      /\ DOMAIN queue' = 1..(Len(queue) - 1)
      /\ \A q \in 1..(Len(queue) - 1) : queue'[q] = queue[q + 1]
  <2>1. queue \in Seq((1..Len(document)) \X Ids)
    BY DEF IInv, QueueInv, Generating
  <2>2. QED
    BY <1>3, <2>1, TailFacts
<1>8. \A q \in DOMAIN queue' :
        q \in Nat /\ q + 1 \in DOMAIN queue /\ queue'[q] = queue[q + 1] /\ q + 1 # 1
  <2>1. ASSUME NEW q \in 1..(Len(queue) - 1)
        PROVE  q \in Nat /\ q + 1 \in 1..Len(queue) /\ q + 1 # 1
    BY <1>7
  <2>2. QED
    BY <1>7, <2>1
<1>9. IsFiniteSet(named') /\ Cardinality(named') = n
  <2>1. IsFiniteSet(named) /\ Cardinality(named) = Len(results)
    BY DEF IInv, PlanInv, TypeOK
  <2>2. QED
    BY <1>1, <1>3, <2>1, FS_AddElement
<1>10. TypeOK'
  <2>1. named' = {r.name : r \in Range(results')}
    <3>1. named = {r.name : r \in Range(results)}
      BY DEF IInv, TypeOK
    <3> HIDE DEF one
    <3>2. QED
      BY <1>3, <1>4, <1>5, <3>1
  <2>2. DOMAIN disk' \subseteq NamesOfAll
    BY <1>1, <1>a DEF IInv, TypeOK
  <2>3. Range(disk') \subseteq Ids \union {t.id : t \in Templates} \union {"theirs", "torn"}
    BY <1>1, <1>2, <1>a DEF IInv, TypeOK
  <2>4. Cardinality(named') = Len(results')
    BY <1>5, <1>9
  <2>5. QED
    BY <1>5, <2>1, <2>2, <2>3, <2>4 DEF IInv, TypeOK
<1>11. PlanInv'
  BY <1>9 DEF IInv, PlanInv
<1>12. PlaceInv' /\ OutcomeInv' /\ FoundInv' /\ TemplateInv'
  BY DEF IInv, PlaceInv, OutcomeInv, FoundInv, TemplateInv
<1>13. QueueInv'
  <2>1. \A q \in DOMAIN queue' :
          /\ queue'[q][1] \in 1..i /\ queue'[q][2] = document[queue'[q][1]]
          /\ planned[queue'[q][1]] \notin skipped
    BY <1>8 DEF IInv, QueueInv, Generating
  <2>2. \A p, q \in DOMAIN queue' : queue'[p][1] = queue'[q][1] => p = q
    <3>1. \A p, q \in DOMAIN queue : queue[p][1] = queue[q][1] => p = q
      BY DEF IInv, QueueInv, Generating
    <3>2. \A p, q \in DOMAIN queue' : p + 1 = q + 1 => p = q
      BY <1>7
    <3>3. QED
      BY <1>8, <3>1, <3>2
  <2>3. Len(results') + Len(queue') = Len(results) + Len(queue)
    BY <1>5, <1>7
  <2>4. ASSUME skipped = {}, NEW q \in DOMAIN queue'
        PROVE  queue'[q][1] = Len(results') + q
    <3>1. queue[q + 1][1] = Len(results) + (q + 1)
      BY <1>8, <2>4 DEF IInv, QueueInv, Generating
    <3>2. Len(results) + (q + 1) = n + q
      BY <1>5, <1>7
    <3>3. QED
      BY <1>5, <1>8, <3>1, <3>2
  <2>5. QED
    BY <1>7, <2>1, <2>2, <2>3, <2>4 DEF IInv, QueueInv, Generating
<1>14. WriteInv'
  <2>1. SUFFICES ASSUME Agree
                 PROVE  /\ named' \subseteq Range(planned) \ skipped
                        /\ \A q \in DOMAIN queue' : planned[queue'[q][1]] \notin named'
                        /\ skipped = {} => named' = Earlier(planned, Len(results') + 1)
                        /\ \A j \in 1..i : planned[j] \in skipped \/ Awaits(j)' \/ Written(j)'
    BY DEF WriteInv, Agree
  <2>2. name = planned[k]
    BY <1>1, <2>1
  <2>3. named' \subseteq Range(planned) \ skipped
    BY <1>1, <1>3, <2>1, <2>2 DEF IInv, WriteInv, Generating, Range
  <2>4. ASSUME NEW q \in DOMAIN queue' PROVE planned[queue'[q][1]] \notin named'
    <3>1. planned[queue[q + 1][1]] \notin named
      BY <1>8, <2>1 DEF IInv, WriteInv, Generating
    <3>2. queue[q + 1][1] # k
      <4>1. 1 \in DOMAIN queue /\ queue[1][1] = k
        BY <1>7
      <4>2. queue[q + 1][1] = queue[1][1] => q + 1 = 1
        BY <1>8, <4>1 DEF IInv, QueueInv, Generating
      <4>3. QED
        BY <1>8, <4>1, <4>2
    <3>3. queue[q + 1][1] \in DOMAIN planned
      BY <1>8 DEF IInv, TypeOK, PlaceInv, QueueInv, Generating
    <3>4. planned[queue[q + 1][1]] # planned[k]
      BY <1>1, <3>2, <3>3 DEF IInv, PlanInv
    <3>5. QED
      BY <1>3, <1>8, <2>2, <3>1, <3>4
  <2>5. ASSUME skipped = {} PROVE named' = Earlier(planned, Len(results') + 1)
    <3>1. k = n
      <4>1. \A q \in DOMAIN queue : queue[q][1] = Len(results) + q
        BY <2>5 DEF IInv, QueueInv, Generating
      <4>2. QED
        BY <1>5, <1>7, <4>1
    <3>2. named = Earlier(planned, n)
      BY <2>1, <2>5 DEF IInv, WriteInv, Generating
    <3>3. Earlier(planned, n + 1) = Earlier(planned, n) \union {planned[n]}
      BY <1>1, <3>1, EarlierFacts DEF IInv, TypeOK
    <3>4. QED
      BY <1>3, <1>5, <2>2, <3>1, <3>2, <3>3
  <2>6. ASSUME NEW j \in 1..i, planned[j] \notin skipped, ~Awaits(j)'
        PROVE  Written(j)'
    <3>1. CASE j = k
      <4>1. results'[n].name = planned[j] /\ results'[n].failed = failed
        BY <1>5, <2>2, <3>1
      <4>2. failed \/ OnDisk(j)'
        BY <1>1, <1>a, <2>2, <3>1 DEF OnDisk
      <4>3. QED
        BY <1>6, <4>1, <4>2 DEF Written
    <3>2. CASE j # k
      <4>1. ~Awaits(j)
        <5>1. ASSUME NEW q \in DOMAIN queue, queue[q][1] = j PROVE FALSE
          <6>1. q # 1
            BY <1>7, <3>2, <5>1
          <6>2. q - 1 \in DOMAIN queue' /\ queue'[q - 1] = queue[q]
            BY <1>7, <6>1
          <6>3. QED
            BY <2>6, <5>1, <6>2 DEF Awaits
        <5>2. QED
          BY <5>1 DEF Awaits
      <4>2. PICK r \in DOMAIN results :
              results[r].name = planned[j] /\ (results[r].failed \/ touched \/ OnDisk(j))
        BY <2>1, <2>6, <4>1 DEF IInv, WriteInv, Generating, Written
      <4>3. j \in DOMAIN planned
        BY DEF IInv, TypeOK, PlaceInv
      <4>4. planned[j] # name
        BY <1>1, <2>2, <3>2, <4>3 DEF IInv, PlanInv
      <4>5. OnDisk(j) => OnDisk(j)'
        BY <1>a, <4>4 DEF OnDisk
      <4>6. r \in DOMAIN results' /\ results'[r] = results[r]
        BY <1>5, <1>6, <4>2
      <4>7. QED
        BY <4>2, <4>5, <4>6 DEF Written
    <3>3. QED
      BY <3>1, <3>2
  <2>7. QED
    BY <2>3, <2>4, <2>5, <2>6
<1>15. ForetoldInv'
  BY DEF IInv, ForetoldInv, Generating
<1>16. QED
  BY <1>10, <1>11, <1>12, <1>13, <1>14, <1>15 DEF IInv

LEMMA WriterRaisesStep ==
  ASSUME IInv, WriterRaises
  PROVE  IInv'
<1> USE DEF WriterRaises, worldVars
<1>1. TypeOK'
  BY DEF IInv, TypeOK
<1>2. PlanInv'
  BY PlanAside DEF IInv
<1>3. PlaceInv' /\ OutcomeInv' /\ FoundInv' /\ TemplateInv'
  BY DEF IInv, PlaceInv, OutcomeInv, FoundInv, TemplateInv
<1>4. QueueInv' /\ WriteInv'
  BY DEF IInv, QueueInv, WriteInv, Generating, Agree, Awaits, Written, OnDisk
<1>5. ForetoldInv'
  BY DEF IInv, PlaceInv, ForetoldInv, Generating
<1>6. QED
  BY <1>1, <1>2, <1>3, <1>4, <1>5 DEF IInv

LEMMA ReportStep ==
  ASSUME IInv, Report
  PROVE  IInv'
<1> USE DEF Report, worldVars
<1>1. TypeOK'
  BY DEF IInv, TypeOK
<1>2. PlanInv'
  BY PlanAside DEF IInv
<1>3. PlaceInv' /\ FoundInv' /\ TemplateInv'
  BY DEF IInv, PlaceInv, FoundInv, TemplateInv
<1>4. OutcomeInv'
  BY DEF OutcomeInv, Failed, Range
<1>5. QueueInv' /\ WriteInv'
  BY DEF IInv, QueueInv, WriteInv, Generating, Agree, Awaits, Written, OnDisk
<1>6. ForetoldInv'
  BY DEF IInv, PlaceInv, ForetoldInv, Generating
<1>7. QED
  BY <1>1, <1>2, <1>3, <1>4, <1>5, <1>6 DEF IInv

LEMMA InitModuleStep ==
  ASSUME IInv, InitModule
  PROVE  IInv'
<1> USE DEF InitModule
<1>1. TypeOK'
  BY DEF IInv, TypeOK
<1>2. PlanInv'
  BY PlanAside DEF IInv
<1>3. PlaceInv' /\ QueueInv' /\ WriteInv' /\ OutcomeInv' /\ FoundInv'
  BY DEF IInv, PlaceInv, QueueInv, WriteInv, OutcomeInv, FoundInv, Generating
<1>4. TemplateInv'
  <2>1. PICK t \in Templates : queue' = [k \in DOMAIN t.files |-> <<t.files[k], t.id>>]
    OBVIOUS
  <2>2. t.files \in Seq(Range(t.files)) /\ t.files # <<>>
    BY TemplatesAssumption
  <2>3. Len(t.files) \in Nat /\ Len(t.files) # 0 /\ DOMAIN t.files = 1..Len(t.files)
    BY <2>2
  <2>4. queue' \in Seq(Range(t.files) \X {t.id}) /\ queue' # <<>>
    BY <2>1, <2>3 DEF Range
  <2>5. existed' = {}
    BY DEF IInv, PlaceInv
  <2>6. QED
    BY <2>4, <2>5 DEF TemplateInv
<1>5. ForetoldInv'
  BY DEF IInv, ForetoldInv, Generating
<1>6. QED
  BY <1>1, <1>2, <1>3, <1>4, <1>5 DEF IInv

LEMMA LookStep ==
  ASSUME IInv, Look
  PROVE  IInv'
<1> USE DEF Look, worldVars
<1> DEFINE name == Head(queue)[1]
<1>1. name \in NamesOfAll
  <2>1. PICK t \in Templates : queue \in Seq(Range(t.files) \X {t.id}) /\ queue # <<>>
    BY DEF IInv, TemplateInv
  <2>2. queue[1] \in Range(t.files) \X {t.id} /\ Head(queue) = queue[1]
    BY <2>1
  <2>3. QED
    BY <2>2 DEF NamesOfAll
<1>2. existed' = existed \union ({name} \intersect DOMAIN disk)
  OBVIOUS
<1>3. \/ pc' = "done" /\ skipped' = {name} /\ name \in existed'
      \/ pc' = "put" /\ skipped' = skipped /\ (force \/ existed' = existed)
  BY <1>2
<1> HIDE DEF name
<1>4. TypeOK'
  BY <1>1, <1>2, <1>3 DEF IInv, TypeOK
<1>5. PlanInv'
  BY PlanAside DEF IInv
<1>6. planned = <<>>
  BY DEF IInv, PlaceInv
<1>7. PlaceInv' /\ QueueInv' /\ WriteInv' /\ OutcomeInv' /\ FoundInv'
  BY <1>3, <1>6 DEF IInv, PlaceInv, QueueInv, WriteInv, OutcomeInv, FoundInv, Generating
<1>8. TemplateInv'
  BY <1>3 DEF IInv, TemplateInv
<1>9. ForetoldInv'
  BY <1>3, <1>6 DEF IInv, PlaceInv, ForetoldInv, Generating
<1>10. QED
  BY <1>4, <1>5, <1>7, <1>8, <1>9 DEF IInv

LEMMA PutFileStep ==
  ASSUME IInv, PutFile
  PROVE  IInv'
<1> DEFINE name == Head(queue)[1]
<1>0. /\ pc = "put"
      /\ UNCHANGED <<document, runs, edits, force, dry, planned, i, existed, skipped,
                     named, results, touched, foretold>>
      /\ status' \in {status, 1} /\ pc' \in {"look", "done"}
  BY DEF PutFile
<1>1. PICK t \in Templates : queue \in Seq(Range(t.files) \X {t.id}) /\ queue # <<>>
  BY <1>0 DEF IInv, TemplateInv
<1>2. /\ Head(queue) = queue[1] /\ Tail(queue) \in Seq(Range(t.files) \X {t.id})
      /\ Len(queue) \in Nat /\ Len(queue) > 0 /\ 1 \in DOMAIN queue
      /\ Len(Tail(queue)) = Len(queue) - 1
  BY <1>1, TailFacts
<1>3. name \in NamesOfAll /\ Head(queue)[2] = t.id
  <2>1. queue[1] \in Range(t.files) \X {t.id}
    BY <1>1, <1>2
  <2>2. QED
    BY <1>2, <2>1 DEF NamesOfAll
<1>4. \E content \in {t.id, "torn"} : disk' \in {disk, With(name, content)}
  BY <1>3 DEF PutFile
<1>5. pc' = "look" => Tail(queue) # <<>> /\ queue' = Tail(queue)
  <2>1. \/ queue' = Tail(queue) /\ pc' = IF Len(queue) = 1 THEN "done" ELSE "look"
        \/ pc' = "done"
    BY DEF PutFile
  <2>2. pc' = "look" => queue' = Tail(queue) /\ Len(queue) # 1
    BY <2>1
  <2>3. Len(queue) # 1 => Len(Tail(queue)) # 0
    BY <1>2
  <2>4. Tail(queue) = <<>> => Len(Tail(queue)) = 0
    BY Len(<<>>) = 0
  <2>5. QED
    BY <2>2, <2>3, <2>4
<1> HIDE DEF name
<1> USE <1>0
<1>6. TypeOK'
  <2>1. DOMAIN disk' \subseteq DOMAIN disk \union {name}
    BY <1>4 DEF With
  <2>2. Range(disk') \subseteq Range(disk) \union {t.id, "torn"}
    BY <1>4 DEF With, Range
  <2>3. DOMAIN disk' \subseteq NamesOfAll
    BY <1>3, <2>1 DEF IInv, TypeOK
  <2>4. Range(disk') \subseteq Ids \union {u.id : u \in Templates} \union {"theirs", "torn"}
    BY <2>2 DEF IInv, TypeOK
  <2>5. QED
    BY <2>3, <2>4 DEF IInv, TypeOK
<1>7. PlanInv'
  BY PlanAside DEF IInv
<1>8. planned = <<>>
  BY DEF IInv, PlaceInv
<1>9. PlaceInv' /\ QueueInv' /\ WriteInv' /\ OutcomeInv' /\ FoundInv'
  BY <1>8 DEF IInv, PlaceInv, QueueInv, WriteInv, OutcomeInv, FoundInv, Generating
<1>10. TemplateInv'
  BY <1>2, <1>5 DEF IInv, TemplateInv
<1>11. ForetoldInv'
  BY <1>8 DEF IInv, PlaceInv, ForetoldInv, Generating
<1>12. QED
  BY <1>6, <1>7, <1>9, <1>10, <1>11 DEF IInv

LEMMA EditStep ==
  ASSUME IInv, Edit
  PROVE  IInv'
<1> USE DEF runVars
<1>0. UNCHANGED <<document, runs, runVars>> /\ touched' = TRUE /\ foretold' = Nothing
  BY DEF Edit
<1>1. TypeOK'
  <2>1. PICK n \in NamesOfAll :
          disk' \in {With(n, "theirs"), Restrict(disk, DOMAIN disk \ {n})}
    BY DEF Edit
  <2>2. DOMAIN disk' \subseteq DOMAIN disk \union {n}
    BY <2>1 DEF With, Restrict
  <2>3. Range(disk') \subseteq Range(disk) \union {"theirs"}
    BY <2>1 DEF With, Restrict, Range
  <2>4. foretold' \in [valid : BOOLEAN, force : BOOLEAN, names : SUBSET NamesOfAll]
    BY <1>0 DEF Nothing
  <2>5. DOMAIN disk' \subseteq NamesOfAll
    BY <2>2 DEF IInv, TypeOK
  <2>6. Range(disk') \subseteq Ids \union {t.id : t \in Templates} \union {"theirs", "torn"}
    BY <2>3 DEF IInv, TypeOK
  <2>7. QED
    BY <1>0, <2>4, <2>5, <2>6 DEF IInv, TypeOK
<1>2. PlanInv'
  BY <1>0, PlanAside DEF IInv
<1>3. PlaceInv' /\ OutcomeInv' /\ FoundInv' /\ TemplateInv'
  BY <1>0 DEF IInv, PlaceInv, OutcomeInv, FoundInv, TemplateInv
<1>4. QueueInv' /\ WriteInv'
  BY <1>0 DEF IInv, QueueInv, WriteInv, Generating, Agree, Awaits, Written, OnDisk
<1>5. ForetoldInv'
  BY <1>0 DEF ForetoldInv, Nothing
<1>6. QED
  BY <1>1, <1>2, <1>3, <1>4, <1>5 DEF IInv

LEMMA ChangeDocumentStep ==
  ASSUME IInv, ChangeDocument
  PROVE  IInv'
<1> USE DEF ChangeDocument, runVars
<1>1. planned = <<>> /\ Range(planned) = {} /\ Len(planned) = 0 /\ DOMAIN planned = {}
  BY DEF IInv, PlaceInv, Range
<1>2. document' \in Documents /\ Len(document') \in Nat
  <2>1. document' \in Documents
    OBVIOUS
  <2>2. document' \in Seq(Ids)
    BY <2>1, DocumentsAssumption
  <2>3. QED
    BY <2>1, <2>2
<1>3. TypeOK'
  <2>1. foretold' \in [valid : BOOLEAN, force : BOOLEAN, names : SUBSET NamesOfAll]
    BY DEF Nothing
  <2>2. QED
    BY <1>2, <2>1 DEF IInv, TypeOK
<1>4. PlanInv'
  <2>1. DOMAIN planned' = {} /\ Len(planned') <= Len(document')
    BY <1>1, <1>2
  <2>2. IsFiniteSet(Range(planned')) /\ IsFiniteSet(named')
    BY DEF IInv, PlanInv
  <2>3. QED
    BY <2>1, <2>2 DEF PlanInv
<1>5. PlaceInv' /\ QueueInv' /\ WriteInv' /\ OutcomeInv' /\ FoundInv' /\ TemplateInv'
  BY <1>1 DEF IInv, PlaceInv, QueueInv, WriteInv, OutcomeInv, FoundInv, TemplateInv, Generating
<1>6. ForetoldInv'
  BY DEF ForetoldInv, Nothing
<1>7. QED
  BY <1>3, <1>4, <1>5, <1>6 DEF IInv

LEMMA FinishStep ==
  ASSUME IInv, Finish
  PROVE  IInv'
<1> USE DEF Finish, worldVars
<1>1. /\ planned' = <<>> /\ results' = <<>> /\ DOMAIN planned' = {}
      /\ Range(planned') = {} /\ Range(results') = {}
      /\ Len(planned') = 0 /\ Len(results') = 0
  BY DEF Range
<1>2. IsFiniteSet({}) /\ Cardinality({}) = 0
  BY FS_EmptySet
<1>3. TypeOK'
  <2>1. foretold' \in [valid : BOOLEAN, force : BOOLEAN, names : SUBSET NamesOfAll]
    BY DEF IInv, TypeOK, Nothing
  <2>2. {r.name : r \in Range(results')} = {}
    BY <1>1
  <2>3. planned' \in Seq(NamesOfAll) /\ i' \in 0..Len(planned')
    BY <1>1
  <2>4. results' \in Seq([id : Ids, name : NamesOfAll, failed : BOOLEAN])
    BY <1>1
  <2>5. /\ document' \in Documents
        /\ DOMAIN disk' \subseteq NamesOfAll
        /\ Range(disk') \subseteq Ids \union {t.id : t \in Templates} \union {"theirs", "torn"}
    BY DEF IInv, TypeOK
  <2>6. QED
    BY <1>1, <1>2, <2>1, <2>2, <2>3, <2>4, <2>5 DEF TypeOK
<1>4. PlanInv'
  <2>1. Len(planned') <= Len(document')
    BY <1>1, DocumentFacts DEF IInv, TypeOK
  <2>2. IsFiniteSet(Range(planned')) /\ IsFiniteSet(named')
    BY <1>1, <1>2
  <2>3. QED
    BY <1>1, <2>1, <2>2 DEF PlanInv
<1>5. PlaceInv' /\ QueueInv' /\ WriteInv' /\ OutcomeInv' /\ FoundInv' /\ TemplateInv'
  BY DEF PlaceInv, QueueInv, WriteInv, OutcomeInv, FoundInv, TemplateInv, Generating
<1>6. ForetoldInv'
  BY DEF IInv, ForetoldInv, Announced, Nothing, Generating
<1>7. QED
  BY <1>3, <1>4, <1>5, <1>6 DEF IInv

LEMMA StutterStep ==
  ASSUME IInv, UNCHANGED vars
  PROVE  IInv'
<1> USE DEF vars, worldVars, runVars
<1>1. TypeOK' /\ PlaceInv' /\ OutcomeInv' /\ FoundInv' /\ TemplateInv'
  BY DEF IInv, TypeOK, PlaceInv, OutcomeInv, FoundInv, TemplateInv
<1>2. PlanInv'
  BY PlanAside DEF IInv
<1>3. QueueInv' /\ WriteInv'
  BY DEF IInv, QueueInv, WriteInv, Generating, Agree, Awaits, Written, OnDisk
<1>4. ForetoldInv'
  BY DEF IInv, ForetoldInv, Announced, Generating
<1>5. QED
  BY <1>1, <1>2, <1>3, <1>4 DEF IInv

LEMMA InvNext ==
  ASSUME IInv, [Next]_vars
  PROVE  IInv'
BY GenerateStep, ScanFailsStep, ScannedStep, PlanNameStep, AllPlannedStep, FindStep,
   AllFoundStep, WriteNextStep, WriterRaisesStep, ReportStep, InitModuleStep, LookStep,
   PutFileStep, FinishStep, EditStep, ChangeDocumentStep, StutterStep
   DEF Next, Tool
-----------------------------------------------------------------------------
(* The theorems. *)

\* The inductive invariant: what planning, looking up, writing and announcing
\* have done, wherever a command stands.
THEOREM ScaffoldingInvariant == Spec => []IInv
<1>1. Init => IInv
  BY InvInit
<1>2. IInv /\ [Next]_vars => IInv'
  BY InvNext
<1>3. QED
  BY <1>1, <1>2, PTL DEF Spec

\* Every variable keeps its type: among others, no two modules are planned
\* under one name (_planned_output_paths), nor written under one in a batch.
THEOREM ScaffoldingTypes == Spec => []TypeOK
<1>1. IInv => TypeOK
  BY DEF IInv
<1>2. QED
  BY <1>1, ScaffoldingInvariant, PTL

\* The exit status of generate_cmd: 0 means that every module which was not
\* reported as existing is on disk under the name planned for it.
THEOREM SuccessComplete == Spec => []SuccessIsComplete
<1>1. IInv => SuccessIsComplete
  <2>1. SUFFICES ASSUME IInv, Generated, status = 0, ~touched, Agree,
                        NEW k \in DOMAIN document, planned[k] \notin skipped
                 PROVE  planned[k] \in DOMAIN disk /\ disk[planned[k]] = document[k]
    BY DEF SuccessIsComplete, Agree
  <2>2. k \in 1..i
    BY <2>1, DocumentFacts DEF IInv, TypeOK, PlaceInv, Generated
  <2>3. queue = <<>> /\ \A r \in DOMAIN results : ~results[r].failed
    BY <2>1 DEF IInv, OutcomeInv, Generated
  <2>4. ~Awaits(k)
    BY <2>3 DEF Awaits
  <2>5. Written(k)
    BY <2>1, <2>2, <2>4 DEF IInv, WriteInv, Generating, Generated
  <2>6. QED
    BY <2>1, <2>3, <2>5 DEF Written, OnDisk
<1>2. QED
  BY <1>1, ScaffoldingInvariant, PTL

\* --dry-run of generate_cmd: a run over the same files and the same document
\* attempts as many names as the dry run announced, and the very names where
\* nothing was skipped or no two modules meet.
THEOREM DryRunTells == Spec => []DryRunForetells
<1>1. IInv => DryRunForetells
  <2> DEFINE attempted == {r.name : r \in Range(results)}
  <2>1. SUFFICES ASSUME IInv, Generated, queue = <<>>, foretold.valid, foretold.force = force
                 PROVE  /\ Cardinality(attempted) = Cardinality(foretold.names)
                        /\ Agree => attempted = foretold.names
    BY DEF DryRunForetells, Agree
  <2>2. foretold.names = Range(planned) \ skipped
    BY <2>1 DEF IInv, ForetoldInv, Generating, Generated
  <2>3. named = attempted /\ Cardinality(named) = Len(results)
    BY <2>1 DEF IInv, TypeOK
  <2>4. Cardinality(attempted) = Cardinality(foretold.names)
    <3>1. /\ planned \in Seq(NamesOfAll) /\ i = Len(planned) /\ IsFiniteSet(Range(planned))
          /\ Cardinality(Range(planned)) = Len(planned)
      BY <2>1 DEF IInv, TypeOK, PlanInv, PlaceInv, Generated
    <3>2. /\ IsFiniteSet(skipped) /\ skipped \subseteq Earlier(planned, i + 1)
          /\ Len(results) + Len(queue) + Cardinality(skipped) = i
      BY <2>1 DEF IInv, QueueInv, Generating, Generated
    <3>3. Range(planned) \intersect skipped = skipped
      <4>1. Len(planned) \in Nat /\ DOMAIN planned = 1..Len(planned)
        BY <3>1
      <4>2. Earlier(planned, i + 1) \subseteq Range(planned)
        BY <3>1, <4>1 DEF Earlier, Range
      <4>3. QED
        BY <3>2, <4>2
    <3>4. Cardinality(foretold.names) = Len(planned) - Cardinality(skipped)
      BY <2>2, <3>1, <3>3, FS_Difference
    <3>5. Cardinality(skipped) \in Nat /\ Len(results) \in Nat /\ Len(queue) = 0
      <4>1. results \in Seq([id : Ids, name : NamesOfAll, failed : BOOLEAN])
        BY <2>1 DEF IInv, TypeOK
      <4>2. QED
        BY <2>1, <3>2, <4>1, FS_CardinalityType
    <3>6. QED
      BY <2>3, <3>1, <3>2, <3>4, <3>5
  <2>5. ASSUME Agree
        PROVE  attempted = foretold.names
    <3>1. named \subseteq Range(planned) \ skipped
      BY <2>1, <2>5 DEF IInv, WriteInv, Generating, Generated
    <3>2. ASSUME NEW k \in DOMAIN planned, planned[k] \notin skipped
          PROVE  planned[k] \in named
      <4>1. k \in 1..i
        BY <2>1 DEF IInv, TypeOK, PlaceInv, Generated
      <4>2. Written(k)
        BY <2>1, <2>5, <3>2, <4>1 DEF IInv, WriteInv, Awaits, Generating, Generated
      <4>3. QED
        BY <2>3, <4>2 DEF Written, Range
    <3>3. QED
      BY <2>2, <2>3, <3>1, <3>2 DEF Range
  <2>6. QED
    BY <2>4, <2>5
<1>2. QED
  BY <1>1, ScaffoldingInvariant, PTL

\* --force of both commands: without it no step of the command changes a file
\* it has found; of generate, when every module has a name of its own.
THEOREM FilesKept == Spec => ExistingFilesKeptIfDistinct
<1> DEFINE Kept == (edits' = edits /\ ~force /\ (planned = <<>> \/ Distinct(document))) =>
                     \A n \in existed \intersect DOMAIN disk :
                        n \in DOMAIN disk' /\ disk'[n] = disk[n]
<1>1. ASSUME IInv, [Next]_vars PROVE [Kept]_vars
  <2>1. SUFFICES ASSUME edits' = edits, ~force, planned = <<>> \/ Distinct(document),
                        NEW n \in existed \intersect DOMAIN disk
                 PROVE  n \in DOMAIN disk' /\ disk'[n] = disk[n]
    OBVIOUS
  <2>2. CASE WriteNext
    <3> DEFINE name == Free(Base[Head(queue)[2]], named)
    <3>1. /\ Head(queue)[1] \in DOMAIN planned
          /\ planned[Head(queue)[1]] \notin skipped
          /\ Agree => name = planned[Head(queue)[1]]
      BY <1>1, <2>2, WriterName DEF WriteNext
    <3>2. Agree
      BY <2>1, <3>1 DEF Agree
    <3>3. existed = skipped
      BY <1>1, <2>1, <2>2 DEF IInv, QueueInv, Generating, WriteNext
    <3>4. n # name
      BY <3>1, <3>2, <3>3
    <3>5. \E content : disk' \in {disk, With(name, content)}
      BY <2>2 DEF WriteNext
    <3> HIDE DEF name
    <3>6. QED
      BY <3>4, <3>5 DEF With
  <2>3. CASE PutFile
    BY <1>1, <2>1, <2>3 DEF IInv, TemplateInv, PutFile
  <2>4. CASE Edit
    BY <1>1, <2>1, <2>4 DEF IInv, Edit
  <2>5. CASE disk' = disk
    BY <2>5
  <2>6. QED
    <3>1. Next \/ UNCHANGED vars
      BY <1>1
    <3>2. UNCHANGED vars => disk' = disk
      BY DEF vars, worldVars
    <3>3. Next => WriteNext \/ PutFile \/ Edit \/ disk' = disk
      BY DEF Next, Tool, Generate, ScanFails, Scanned, PlanName, AllPlanned, Find, AllFound,
             WriterRaises, Report, InitModule, Look, Finish, ChangeDocument, worldVars
    <3>4. QED
      BY <2>2, <2>3, <2>4, <2>5, <3>1, <3>2, <3>3
<1>2. QED
  BY <1>1, ScaffoldingInvariant, PTL DEF Spec, ExistingFilesKeptIfDistinct
=============================================================================
