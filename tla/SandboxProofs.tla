--------------------------- MODULE SandboxProofs ---------------------------
(***************************************************************************)
(* Proofs of the sandbox's safety properties, for every cap, chunk, pipe,  *)
(* input and output size.  The invariant accounts for every byte the child *)
(* wrote, says how far each buffer can grow before and after an overflow   *)
(* is flagged, and what the parent may rely on although it reads without   *)
(* the lock: a child it has seen dead, drainers it has seen done.  Behind  *)
(* the safety properties stand those of progress: who can go on, and, where*)
(* an action can be taken whose guard holds, that the call ends.           *)
(***************************************************************************)
EXTENDS Sandbox, TLAPS

\* Nothing a child wrote is counted twice, and before an overflow is flagged
\* nothing is lost.
BytesOf(s) ==
  /\ pipe[s] + held[s] + buf[s] <= wrote[s]
  /\ overflow = "none" => pipe[s] + held[s] + buf[s] = wrote[s]
  /\ drainer[s] = "over" => held[s] = 0

BytesInv == \A s \in Streams : BytesOf(s)

\* One drainer at most is in the critical section, with a buffer over the cap,
\* and only before the flag is set.
BufferOf(s) ==
  /\ drainer[s] = "over" =>
       overflow = "none" /\ buf[s] > Cap /\ drainer[Other(s)] # "over"
  /\ (overflow = "none" /\ drainer[s] # "over") => buf[s] <= Cap
  /\ overflow = s => buf[s] > Cap
  /\ buf[s] <= Cap + ChunkSize
  /\ (overflow # "none" /\ overflow # s) => buf[s] <= Cap + 1

BufferInv == \A s \in Streams : BufferOf(s)

\* A drainer is done only at the end of file, and end of file is for good.
DoneInv ==
  /\ \A s \in Streams : drainer[s] = "done" => EndOfFile(s) /\ held[s] = 0
  /\ \A s \in joined : drainer[s] = "done"

Waiting == {"write", "start", "wait", "polled", "kill"}

\* Nothing is drained before the drainers start.  Behind the wait the child is
\* dead; what was copied from a drainer that was joined is all it will store.
ParentInv ==
  /\ pc \in {"write", "start"} =>
       joined = {} /\ \A s \in Streams : drainer[s] = "off"
  /\ pc \notin Waiting => child = "dead"
  /\ child = "starting" => heirs = {}
  /\ (pc = "judge" /\ "stdout" \in joined) => snap = buf["stdout"]
  /\ pc \notin {"clean", "done"} => outcome = "none"
  /\ pc \in {"clean", "done"} => outcome # "none"
  /\ outcome = "cleanup" => pc = "done" /\ "tmpdir" \in heirs

\* What each outcome was decided on.
VerdictInv ==
  /\ outcome = "result" =>
       /\ rc = 0 /\ doc /\ snap = wrote["stdout"]
       /\ joined = Streams => overflow = "none"
  /\ outcome \in Streams => overflow = outcome
  /\ outcome = "exit" => rc # 0
  /\ (outcome = "non-JSON" /\ joined = Streams) => ~doc

IInv == TypeOK /\ BytesInv /\ BufferInv /\ DoneInv /\ ParentInv /\ VerdictInv
-----------------------------------------------------------------------------
(* Facts about the operators of the model. *)

\* The counters of a stream are numbers within their bounds.
LEMMA Counters ==
  ASSUME NEW s \in Streams, TypeOK
  PROVE  /\ Cap \in Nat /\ ChunkSize \in Nat \ {0} /\ PipeSize \in Nat \ {0}
         /\ wrote[s] \in Nat /\ wrote[s] <= MaxOutput
         /\ pipe[s] \in Nat /\ pipe[s] <= PipeSize
         /\ held[s] \in Nat /\ held[s] <= ChunkSize
         /\ buf[s] \in Nat
<1>1. /\ wrote[s] \in 0..MaxOutput /\ pipe[s] \in 0..PipeSize
      /\ held[s] \in 0..ChunkSize /\ buf[s] \in Nat
  BY DEF TypeOK
<1>2. QED
  BY <1>1, SizesAssumption

\* What a drainer keeps of a chunk: all of it until an overflow is flagged,
\* then no more than fills the buffer to one byte over the cap.
LEMMA KeptFacts ==
  ASSUME NEW s \in Streams, TypeOK
  PROVE  /\ Kept(s) \in Nat
         /\ Kept(s) <= held[s]
         /\ overflow = "none" => Kept(s) = held[s]
         /\ (overflow # "none" /\ buf[s] <= Cap + 1) => buf[s] + Kept(s) <= Cap + 1
         /\ (overflow # "none" /\ buf[s] > Cap + 1) => Kept(s) = 0
<1>0. held[s] \in Nat /\ buf[s] \in Nat /\ Cap \in Nat
  BY Counters
<1>1. CASE overflow = "none"
  <2>1. Kept(s) = held[s]
    BY <1>1 DEF Kept
  <2>2. QED
    BY <1>0, <1>1, <2>1
<1>2. CASE overflow # "none" /\ buf[s] + held[s] <= Cap + 1
  <2>1. Kept(s) \in {held[s], 0} /\ (Kept(s) = held[s] \/ buf[s] > Cap)
    BY <1>2 DEF Kept
  <2>2. QED
    BY <1>0, <1>2, <2>1
<1>3. CASE overflow # "none" /\ ~(buf[s] + held[s] <= Cap + 1) /\ buf[s] > Cap
  <2>1. Kept(s) = 0
    BY <1>3 DEF Kept
  <2>2. QED
    BY <1>0, <1>3, <2>1
<1>4. CASE overflow # "none" /\ ~(buf[s] + held[s] <= Cap + 1) /\ ~(buf[s] > Cap)
  <2>1. Kept(s) = Cap + 1 - buf[s]
    BY <1>4 DEF Kept
  <2>2. QED
    BY <1>0, <1>4, <2>1
<1>5. QED
  BY <1>1, <1>2, <1>3, <1>4
-----------------------------------------------------------------------------
\* The inductive invariant holds when the child has been spawned.
LEMMA InvInit == Init => IInv
<1> SUFFICES ASSUME Init
             PROVE  IInv
  OBVIOUS
<1>1. TypeOK
  <2>1. 0 \in 0..MaxOutput /\ 0 \in 0..PipeSize /\ 0 \in 0..ChunkSize
        /\ InputSize \in 0..InputSize
    BY SizesAssumption
  <2>2. /\ wrote \in [Streams -> 0..MaxOutput] /\ pipe \in [Streams -> 0..PipeSize]
        /\ held \in [Streams -> 0..ChunkSize] /\ buf \in [Streams -> Nat]
        /\ drainer \in [Streams -> {"off", "reading", "storing", "over", "done"}]
    BY <2>1 DEF Init
  <2>3. QED
    BY <2>1, <2>2 DEF Init, TypeOK
<1>2. BytesInv /\ BufferInv
  BY SizesAssumption DEF Init, BytesInv, BufferInv, BytesOf, BufferOf, Streams
<1>3. DoneInv /\ ParentInv /\ VerdictInv
  BY DEF Init, DoneInv, ParentInv, VerdictInv, Waiting, Streams
<1>4. QED
  BY <1>1, <1>2, <1>3 DEF IInv

\* A step that touches no stream leaves the accounts as they are.
LEMMA StreamsAside ==
  ASSUME BytesInv, BufferInv, UNCHANGED <<wrote, pipe, held, drainer, buf, overflow>>
  PROVE  BytesInv' /\ BufferInv'
  BY DEF BytesInv, BufferInv, BytesOf, BufferOf, Other

\* The end of file stays where it was while the child's side only ends.
LEMMA DoneAside ==
  ASSUME DoneInv, UNCHANGED <<pipe, held, drainer, heirs, joined>>,
         child = "dead" => child' = "dead"
  PROVE  DoneInv'
  BY DEF DoneInv, EndOfFile

\* The child's own steps.
LEMMA ReadInputStep ==
  ASSUME IInv, ReadInput
  PROVE  IInv'
<1>1. TypeOK'
  <2>1. 0 \in 0..PipeSize
    BY SizesAssumption
  <2>2. inPipe' \in 0..PipeSize /\ heirs' \subseteq Streams \union {"tmpdir"}
        /\ child' \in {"starting", "running", "dead"}
    BY <2>1 DEF IInv, TypeOK, ReadInput
  <2>3. QED
    BY <2>2 DEF IInv, TypeOK, ReadInput, parentVars
<1>2. BytesInv' /\ BufferInv'
  BY StreamsAside DEF IInv, ReadInput
<1>3. DoneInv'
  BY DEF IInv, DoneInv, EndOfFile, ReadInput, parentVars
<1>4. ParentInv' /\ VerdictInv'
  BY DEF IInv, TypeOK, ParentInv, VerdictInv, ReadInput, parentVars, Waiting
<1>5. QED
  BY <1>1, <1>2, <1>3, <1>4 DEF IInv

LEMMA WriteStep ==
  ASSUME IInv, NEW s \in Streams, Write(s)
  PROVE  IInv'
<1>0. TypeOK
  BY DEF IInv
<1>1. TypeOK'
  <2>1. pipe[s] + 1 \in 0..PipeSize /\ wrote[s] + 1 \in 0..MaxOutput
    BY <1>0, Counters, SizesAssumption DEF Write
  <2>2. pipe' \in [Streams -> 0..PipeSize] /\ wrote' \in [Streams -> 0..MaxOutput]
    BY <1>0, <2>1 DEF TypeOK, Write
  <2>3. QED
    BY <1>0, <2>2 DEF TypeOK, Write, parentVars, childVars
<1>2. BytesInv'
  <2> SUFFICES ASSUME NEW t \in Streams
               PROVE  BytesOf(t)'
    BY DEF BytesInv
  <2>1. BytesOf(t) /\ wrote[t] \in Nat /\ pipe[t] \in Nat /\ held[t] \in Nat /\ buf[t] \in Nat
    BY <1>0, Counters DEF IInv, BytesInv
  <2>2. /\ pipe'[t] = IF t = s THEN pipe[t] + 1 ELSE pipe[t]
        /\ wrote'[t] = IF t = s THEN wrote[t] + 1 ELSE wrote[t]
    BY <1>0 DEF TypeOK, Write
  <2>3. UNCHANGED <<held, buf, overflow, drainer>>
    BY DEF Write
  <2>4. QED
    BY <2>1, <2>2, <2>3 DEF BytesOf
<1>3. BufferInv'
  BY DEF IInv, BufferInv, BufferOf, Write, Other
<1>4. DoneInv'
  BY DEF IInv, DoneInv, EndOfFile, Write, parentVars, childVars
<1>5. ParentInv' /\ VerdictInv'
  BY DEF IInv, TypeOK, ParentInv, VerdictInv, Write, parentVars, childVars, Waiting, Streams
<1>6. QED
  BY <1>1, <1>2, <1>3, <1>4, <1>5 DEF IInv

LEMMA CrashStep ==
  ASSUME IInv, Crash
  PROVE  IInv'
<1>1. TypeOK'
  BY DEF IInv, TypeOK, Crash, parentVars
<1>2. BytesInv' /\ BufferInv'
  BY StreamsAside DEF IInv, Crash
<1>3. DoneInv'
  BY DoneAside DEF IInv, Crash, parentVars
<1>4. ParentInv' /\ VerdictInv'
  BY DEF IInv, TypeOK, ParentInv, VerdictInv, Crash, parentVars, Waiting, Streams
<1>5. QED
  BY <1>1, <1>2, <1>3, <1>4 DEF IInv

LEMMA ExitStep ==
  ASSUME IInv, Exit
  PROVE  IInv'
<1>1. TypeOK'
  BY DEF IInv, TypeOK, Exit, parentVars
<1>2. BytesInv' /\ BufferInv'
  BY StreamsAside DEF IInv, Exit
<1>3. DoneInv'
  BY DoneAside DEF IInv, Exit, parentVars
<1>4. ParentInv' /\ VerdictInv'
  BY DEF IInv, TypeOK, ParentInv, VerdictInv, Exit, parentVars, Waiting, Streams, Failures
<1>5. QED
  BY <1>1, <1>2, <1>3, <1>4 DEF IInv
-----------------------------------------------------------------------------
\* The drainers' steps.  What moves from the pipe into a read call, and from
\* there into the buffer, stays accounted for.
LEMMA FillStep ==
  ASSUME IInv, NEW s \in Streams, Fill(s)
  PROVE  IInv'
<1> DEFINE room == ChunkSize - held[s]
           n == IF pipe[s] < room THEN pipe[s] ELSE room
<1>0. TypeOK
  BY DEF IInv
<1>1. /\ held' = [held EXCEPT ![s] = @ + n]
      /\ pipe' = [pipe EXCEPT ![s] = @ - n]
      /\ drainer[s] = "reading" /\ pipe[s] > 0 /\ held[s] < ChunkSize
      /\ UNCHANGED <<parentVars, childVars, expired, unsent, inPipe, wrote,
                     drainer, buf, overflow>>
  BY DEF Fill
<1>2. n \in Nat /\ n <= pipe[s] /\ held[s] + n <= ChunkSize
  BY <1>0, <1>1, Counters
<1> HIDE DEF n
<1>3. TypeOK'
  <2>1. held[s] + n \in 0..ChunkSize /\ pipe[s] - n \in 0..PipeSize
    BY <1>0, <1>2, Counters
  <2>2. held' \in [Streams -> 0..ChunkSize] /\ pipe' \in [Streams -> 0..PipeSize]
    BY <1>0, <1>1, <2>1 DEF TypeOK
  <2>3. QED
    BY <1>0, <1>1, <2>2 DEF TypeOK, parentVars, childVars
<1>4. BytesInv'
  <2> SUFFICES ASSUME NEW t \in Streams
               PROVE  BytesOf(t)'
    BY DEF BytesInv
  <2>1. BytesOf(t) /\ wrote[t] \in Nat /\ pipe[t] \in Nat /\ held[t] \in Nat /\ buf[t] \in Nat
    BY <1>0, Counters DEF IInv, BytesInv
  <2>2. /\ pipe'[t] = IF t = s THEN pipe[t] - n ELSE pipe[t]
        /\ held'[t] = IF t = s THEN held[t] + n ELSE held[t]
    BY <1>0, <1>1 DEF TypeOK
  <2>3. QED
    BY <1>1, <1>2, <2>1, <2>2 DEF BytesOf
<1>5. BufferInv'
  BY <1>1 DEF IInv, BufferInv, BufferOf, Other
<1>6. DoneInv'
  <2>1. \A t \in Streams : drainer[t] = "done" => pipe'[t] = pipe[t] /\ held'[t] = held[t]
    BY <1>0, <1>1 DEF TypeOK
  <2>2. QED
    BY <1>1, <2>1 DEF IInv, DoneInv, EndOfFile, parentVars, childVars
<1>7. ParentInv' /\ VerdictInv'
  BY <1>1 DEF IInv, TypeOK, ParentInv, VerdictInv, parentVars, childVars, Waiting, Streams
<1>8. QED
  BY <1>3, <1>4, <1>5, <1>6, <1>7 DEF IInv

LEMMA ReadReturnsStep ==
  ASSUME IInv, NEW s \in Streams, ReadReturns(s)
  PROVE  IInv'
<1>0. TypeOK
  BY DEF IInv
<1>1. TypeOK'
  BY <1>0 DEF TypeOK, ReadReturns, parentVars, childVars
<1>2. \A t \in Streams : \/ drainer'[t] = drainer[t]
                         \/ t = s /\ drainer'[t] \in {"done", "storing"} /\ drainer[t] = "reading"
  BY <1>0 DEF TypeOK, ReadReturns
<1>3. BytesInv'
  BY <1>2 DEF IInv, BytesInv, BytesOf, ReadReturns
<1>4. BufferInv'
  <2>1. \A t \in Streams : Other(t) \in Streams
    BY DEF Other, Streams
  <2>2. QED
    BY <1>2, <2>1 DEF IInv, BufferInv, BufferOf, ReadReturns
<1>5. DoneInv'
  <2>1. drainer'[s] = "done" => EndOfFile(s) /\ held[s] = 0
    BY <1>0, SizesAssumption DEF TypeOK, ReadReturns
  <2>2. joined \subseteq Streams
    BY <1>0 DEF TypeOK
  <2>3. UNCHANGED <<joined, child, heirs, pipe, held>>
    BY DEF ReadReturns, parentVars, childVars
  <2>4. ASSUME NEW t \in Streams, drainer'[t] = "done"
        PROVE  EndOfFile(t)' /\ held'[t] = 0
    BY <1>2, <2>1, <2>3, <2>4 DEF IInv, DoneInv, EndOfFile
  <2>5. ASSUME NEW t \in joined
        PROVE  drainer'[t] = "done"
    BY <1>2, <2>2, <2>5 DEF IInv, DoneInv
  <2>6. QED
    BY <2>3, <2>4, <2>5 DEF DoneInv
<1>6. ParentInv' /\ VerdictInv'
  BY DEF IInv, ParentInv, VerdictInv, ReadReturns, parentVars, childVars, Waiting
<1>7. QED
  BY <1>1, <1>3, <1>4, <1>5, <1>6 DEF IInv

LEMMA StoreStep ==
  ASSUME IInv, NEW s \in Streams, Store(s)
  PROVE  IInv'
<1>0. TypeOK
  BY DEF IInv
<1> DEFINE k == Kept(s)
<1>1. /\ k \in Nat /\ k <= held[s]
      /\ overflow = "none" => k = held[s]
      /\ (overflow # "none" /\ buf[s] <= Cap + 1) => buf[s] + k <= Cap + 1
      /\ (overflow # "none" /\ buf[s] > Cap + 1) => k = 0
  BY <1>0, KeptFacts
<1>2. /\ drainer[s] = "storing" /\ drainer[Other(s)] # "over"
      /\ buf' = [buf EXCEPT ![s] = @ + k]
      /\ held' = [held EXCEPT ![s] = 0]
      /\ drainer' = [drainer EXCEPT ![s] =
                       IF overflow = "none" /\ TooLong(buf', s) THEN "over"
                                                                ELSE "reading"]
      /\ UNCHANGED <<parentVars, childVars, expired, unsent, inPipe, wrote, pipe,
                     overflow>>
  BY DEF Store
<1> HIDE DEF k
<1>3. \A t \in Streams :
        /\ buf'[t] = IF t = s THEN buf[t] + k ELSE buf[t]
        /\ held'[t] = IF t = s THEN 0 ELSE held[t]
        /\ drainer'[t] = IF t # s THEN drainer[t]
                         ELSE IF overflow = "none" /\ buf[s] + k > Cap
                              THEN "over" ELSE "reading"
  BY <1>0, <1>2 DEF TypeOK, TooLong
<1>4. TypeOK'
  <2>1. buf[s] + k \in Nat /\ 0 \in 0..ChunkSize
    BY <1>0, <1>1, Counters
  <2>2. held' \in [Streams -> 0..ChunkSize] /\ buf' \in [Streams -> Nat]
    BY <1>0, <1>2, <2>1 DEF TypeOK
  <2>3. drainer' \in [Streams -> {"off", "reading", "storing", "over", "done"}]
    BY <1>0, <1>2 DEF TypeOK
  <2>4. QED
    BY <1>0, <1>2, <2>2, <2>3 DEF TypeOK, parentVars, childVars
<1>5. BytesInv'
  <2> SUFFICES ASSUME NEW t \in Streams
               PROVE  BytesOf(t)'
    BY DEF BytesInv
  <2>1. BytesOf(t) /\ wrote[t] \in Nat /\ pipe[t] \in Nat /\ held[t] \in Nat /\ buf[t] \in Nat
    BY <1>0, Counters DEF IInv, BytesInv
  <2>2. QED
    BY <1>1, <1>2, <1>3, <2>1 DEF BytesOf
<1>6. BufferInv'
  <2> SUFFICES ASSUME NEW t \in Streams
               PROVE  BufferOf(t)'
    BY DEF BufferInv
  <2>1. /\ BufferOf(t) /\ Other(t) \in Streams /\ Other(t) # t
        /\ buf[t] \in Nat /\ held[t] \in Nat /\ held[t] <= ChunkSize
        /\ Cap \in Nat /\ ChunkSize \in Nat \ {0}
        /\ t # s => s = Other(t) /\ t = Other(s)
    BY <1>0, Counters DEF IInv, BufferInv, Other, Streams
  <2>2. overflow' = overflow
    BY <1>2
  <2>3. CASE t = s
    <3>1. /\ buf'[t] = buf[t] + k
          /\ drainer'[t] = IF overflow = "none" /\ buf[t] + k > Cap THEN "over" ELSE "reading"
          /\ drainer'[Other(t)] = drainer[Other(t)] /\ drainer[Other(t)] # "over"
      BY <1>2, <1>3, <2>1, <2>3
    <3>2. drainer[t] = "storing"
      BY <1>2, <2>3
    <3>3. overflow = "none" => k <= ChunkSize
      BY <1>1, <2>1, <2>3
    <3>4. /\ overflow = "none" => k = held[t]
          /\ (overflow # "none" /\ buf[t] <= Cap + 1) => buf[t] + k <= Cap + 1
          /\ (overflow # "none" /\ buf[t] > Cap + 1) => k = 0
      BY <1>1, <2>3
    <3>5. QED
      BY <1>1, <2>1, <2>2, <3>1, <3>2, <3>3, <3>4 DEF BufferOf
  <2>4. CASE t # s
    <3>1. buf'[t] = buf[t] /\ drainer'[t] = drainer[t] /\ drainer[t] # "over"
      BY <1>2, <1>3, <2>1, <2>4
    <3>2. QED
      BY <2>1, <2>2, <3>1 DEF BufferOf
  <2>5. QED
    BY <2>3, <2>4
<1>7. DoneInv'
  <2>1. \A t \in Streams : (drainer'[t] = "done" => drainer[t] = "done" /\ held'[t] = held[t])
                        /\ (drainer[t] = "done" => drainer'[t] = "done")
    BY <1>2, <1>3
  <2>2. joined \subseteq Streams
    BY <1>0 DEF TypeOK
  <2>3. QED
    BY <1>2, <2>1, <2>2 DEF IInv, DoneInv, EndOfFile, parentVars, childVars
<1>8. ParentInv' /\ VerdictInv'
  <2>1. "stdout" \in joined => buf'["stdout"] = buf["stdout"]
    BY <1>2, <1>3 DEF IInv, DoneInv, Streams
  <2>2. QED
    BY <1>2, <2>1 DEF IInv, ParentInv, VerdictInv, parentVars, childVars, Waiting
<1>9. QED
  BY <1>4, <1>5, <1>6, <1>7, <1>8 DEF IInv

LEMMA FlagStep ==
  ASSUME IInv, NEW s \in Streams, Flag(s)
  PROVE  IInv'
<1>0. TypeOK
  BY DEF IInv
<1>1. TypeOK'
  BY <1>0 DEF TypeOK, Flag, Kill, parentVars
<1>2. \A t \in Streams : drainer'[t] = IF t = s THEN "reading" ELSE drainer[t]
  BY <1>0 DEF TypeOK, Flag
<1>3. BytesInv'
  <2>1. overflow = "none" /\ overflow' = s /\ s # "none"
    BY DEF IInv, BufferInv, BufferOf, Flag, Streams
  <2>2. QED
    BY <1>2, <2>1 DEF IInv, BytesInv, BytesOf, Flag
<1>4. BufferInv'
  <2> SUFFICES ASSUME NEW t \in Streams
               PROVE  BufferOf(t)'
    BY DEF BufferInv
  <2>1. /\ BufferOf(t) /\ BufferOf(s) /\ Other(t) \in Streams
        /\ buf[t] \in Nat /\ Cap \in Nat /\ s # "none"
        /\ t # s => t = Other(s)
    BY <1>0, Counters DEF IInv, BufferInv, Other, Streams
  <2>2. drainer[s] = "over" /\ overflow' = s /\ UNCHANGED buf
    BY DEF Flag
  <2>3. QED
    BY <1>2, <2>1, <2>2 DEF BufferOf
<1>5. DoneInv'
  <2>1. joined \subseteq Streams /\ drainer[s] = "over"
    BY <1>0 DEF TypeOK, Flag
  <2>2. UNCHANGED <<joined, heirs, pipe, held>> /\ child' = "dead"
    BY DEF Flag, Kill, parentVars
  <2>3. ASSUME NEW t \in Streams, drainer'[t] = "done"
        PROVE  EndOfFile(t)' /\ held'[t] = 0
    BY <1>2, <2>2, <2>3 DEF IInv, DoneInv, EndOfFile
  <2>4. ASSUME NEW t \in joined
        PROVE  drainer'[t] = "done"
    BY <1>2, <2>1, <2>4 DEF IInv, DoneInv
  <2>5. QED
    BY <2>2, <2>3, <2>4 DEF DoneInv
<1>6. ParentInv'
  BY DEF IInv, ParentInv, Flag, Kill, parentVars, Waiting
<1>7. VerdictInv'
  <2>1. overflow = "none"
    BY DEF IInv, BufferInv, BufferOf, Flag
  <2>2. outcome \notin Streams
    BY <2>1 DEF IInv, VerdictInv, Streams
  <2>3. joined # Streams
    BY DEF IInv, DoneInv, Flag
  <2>4. outcome # "none" => child = "dead"
    BY DEF IInv, ParentInv, Waiting
  <2>5. QED
    BY <2>2, <2>3, <2>4 DEF IInv, VerdictInv, Flag, Kill, parentVars
<1>8. QED
  BY <1>1, <1>3, <1>4, <1>5, <1>6, <1>7 DEF IInv
-----------------------------------------------------------------------------
\* The parent's steps, and the deadline.
LEMMA WriteInputStep ==
  ASSUME IInv, WriteInput
  PROVE  IInv'
<1>1. TypeOK'
  <2>1. CASE child # "dead" /\ unsent > 0 /\ inPipe < PipeSize /\ unsent' = unsent - 1
             /\ inPipe' = inPipe + 1 /\ UNCHANGED pc
    <3>1. unsent \in 0..InputSize /\ inPipe \in 0..PipeSize
      BY DEF IInv, TypeOK
    <3>2. unsent - 1 \in 0..InputSize /\ inPipe + 1 \in 0..PipeSize
      BY <2>1, <3>1, SizesAssumption
    <3>3. QED
      BY <2>1, <3>2 DEF IInv, TypeOK, WriteInput, childVars
  <2>2. CASE pc' = "start" /\ UNCHANGED <<unsent, inPipe>>
    BY <2>2 DEF IInv, TypeOK, WriteInput, childVars
  <2>3. QED
    BY <2>1, <2>2 DEF WriteInput
<1>2. BytesInv' /\ BufferInv'
  BY StreamsAside DEF IInv, WriteInput
<1>3. DoneInv'
  BY DoneAside DEF IInv, WriteInput, childVars
<1>4. ParentInv' /\ VerdictInv'
  BY DEF IInv, ParentInv, VerdictInv, WriteInput, childVars, Waiting
<1>5. QED
  BY <1>1, <1>2, <1>3, <1>4 DEF IInv

LEMMA StartDrainersStep ==
  ASSUME IInv, StartDrainers
  PROVE  IInv'
<1>1. TypeOK'
  BY DEF IInv, TypeOK, StartDrainers, childVars
<1>2. BytesInv'
  BY DEF IInv, BytesInv, BytesOf, StartDrainers
<1>3. BufferInv'
  <2> SUFFICES ASSUME NEW t \in Streams
               PROVE  BufferOf(t)'
    BY DEF BufferInv
  <2>1. BufferOf(t) /\ drainer'[t] = "reading" /\ UNCHANGED <<buf, overflow>>
    BY DEF IInv, BufferInv, StartDrainers
  <2>2. drainer[t] # "over"
    BY DEF IInv, ParentInv, StartDrainers
  <2>3. QED
    BY <2>1, <2>2 DEF BufferOf
<1>4. DoneInv'
  BY DEF IInv, DoneInv, ParentInv, StartDrainers, childVars
<1>5. ParentInv' /\ VerdictInv'
  BY DEF IInv, ParentInv, VerdictInv, StartDrainers, childVars, Waiting
<1>6. QED
  BY <1>1, <1>2, <1>3, <1>4, <1>5 DEF IInv
LEMMA ExpireStep ==
  ASSUME IInv, Expire
  PROVE  IInv'
<1>1. TypeOK'
  BY DEF IInv, TypeOK, Expire, parentVars, childVars
<1>2. BytesInv' /\ BufferInv'
  BY StreamsAside DEF IInv, Expire
<1>3. DoneInv'
  BY DoneAside DEF IInv, Expire, parentVars, childVars
<1>4. ParentInv' /\ VerdictInv'
  BY DEF IInv, ParentInv, VerdictInv, Expire, parentVars, childVars
<1>5. QED
  BY <1>1, <1>2, <1>3, <1>4 DEF IInv

LEMMA PollStep ==
  ASSUME IInv, Poll
  PROVE  IInv'
<1>1. /\ pc' \in {"join stdout", "polled", "kill", "wait"}
      /\ pc' = "join stdout" => child = "dead"
  BY DEF Poll
<1>2. TypeOK'
  BY <1>1 DEF IInv, TypeOK, Poll, childVars
<1>3. BytesInv' /\ BufferInv'
  BY StreamsAside DEF IInv, Poll
<1>4. DoneInv'
  BY DoneAside DEF IInv, Poll, childVars
<1>5. ParentInv' /\ VerdictInv'
  BY <1>1 DEF IInv, ParentInv, VerdictInv, Poll, childVars, Waiting
<1>6. QED
  BY <1>2, <1>3, <1>4, <1>5 DEF IInv

LEMMA KillLateStep ==
  ASSUME IInv, KillLate
  PROVE  IInv'
<1>1. TypeOK'
  BY DEF IInv, TypeOK, KillLate, Kill
<1>2. BytesInv' /\ BufferInv'
  BY StreamsAside DEF IInv, KillLate
<1>3. DoneInv'
  BY DoneAside DEF IInv, KillLate, Kill
<1>4. ParentInv' /\ VerdictInv'
  BY DEF IInv, ParentInv, VerdictInv, KillLate, Kill, Waiting, Streams
<1>5. QED
  BY <1>1, <1>2, <1>3, <1>4 DEF IInv

LEMMA JoinStep ==
  ASSUME IInv, JoinDrainers
  PROVE  IInv'
<1>1. /\ pc \in {"join stdout", "join stderr", "late stdout"}
      /\ pc' \in {"join stderr", "copy", "late stderr"}
      /\ \E s \in Streams :
           joined' = IF drainer[s] = "done" THEN joined \union {s} ELSE joined
      /\ UNCHANGED <<timed, snap, outcome, childVars, expired, unsent, inPipe,
                     wrote, pipe, held, drainer, buf, overflow>>
  BY DEF JoinDrainers, Join, Streams
<1>2. TypeOK'
  BY <1>1 DEF IInv, TypeOK, childVars
<1>3. BytesInv' /\ BufferInv'
  BY <1>1, StreamsAside DEF IInv
<1>4. DoneInv'
  BY <1>1 DEF IInv, DoneInv, EndOfFile, childVars
<1>5. ParentInv' /\ VerdictInv'
  BY <1>1 DEF IInv, ParentInv, VerdictInv, childVars, Waiting, Streams
<1>6. QED
  BY <1>2, <1>3, <1>4, <1>5 DEF IInv

LEMMA CopyStep ==
  ASSUME IInv, Copy
  PROVE  IInv'
<1>1. TypeOK'
  BY DEF IInv, TypeOK, Copy, childVars, Streams
<1>2. BytesInv' /\ BufferInv'
  BY StreamsAside DEF IInv, Copy
<1>3. DoneInv'
  BY DoneAside DEF IInv, Copy, childVars
<1>4. ParentInv' /\ VerdictInv'
  BY DEF IInv, ParentInv, VerdictInv, Copy, childVars, Waiting, Streams
<1>5. QED
  BY <1>1, <1>2, <1>3, <1>4 DEF IInv

\* The verdict names the flag that was read; without one, it is about the exit
\* status and the document.
LEMMA VerdictFacts ==
  ASSUME TypeOK
  PROVE  \/ overflow \in Streams /\ Verdict = overflow
         \/ overflow = "none" /\ rc # 0 /\ Verdict = "exit"
         \/ overflow = "none" /\ rc = 0 /\ ~Parses /\ Verdict = "non-JSON"
         \/ overflow = "none" /\ rc = 0 /\ Parses /\ Verdict = "result"
<1>1. CASE overflow # "none"
  BY <1>1 DEF Verdict, TypeOK
<1>2. CASE overflow = "none" /\ rc # 0
  BY <1>2 DEF Verdict
<1>3. CASE overflow = "none" /\ rc = 0 /\ ~Parses
  BY <1>3 DEF Verdict
<1>4. CASE overflow = "none" /\ rc = 0 /\ Parses
  BY <1>4 DEF Verdict
<1>5. QED
  BY <1>1, <1>2, <1>3, <1>4

LEMMA JudgeStep ==
  ASSUME IInv, Judge
  PROVE  IInv'
<1>0. TypeOK
  BY DEF IInv
<1>1. CASE pc = "judge" /\ outcome' = Verdict /\ UNCHANGED joined
  <2>1. TypeOK'
    BY <1>0, <1>1, VerdictFacts DEF TypeOK, Judge, childVars, Failures, Streams
  <2>2. ParentInv'
    BY <1>0, <1>1, VerdictFacts DEF IInv, ParentInv, Judge, childVars, Waiting, Streams
  <2>3. VerdictInv'
    <3>1. (joined = Streams /\ overflow = "none") => snap = wrote["stdout"]
      <4> SUFFICES ASSUME joined = Streams, overflow = "none"
                   PROVE  snap = wrote["stdout"]
        OBVIOUS
      <4>1. snap = buf["stdout"] /\ drainer["stdout"] = "done"
        BY <1>1 DEF IInv, ParentInv, DoneInv, Streams
      <4>2. pipe["stdout"] = 0 /\ held["stdout"] = 0
        BY <4>1 DEF IInv, DoneInv, EndOfFile, Streams
      <4>3. pipe["stdout"] + held["stdout"] + buf["stdout"] = wrote["stdout"]
        BY DEF IInv, BytesInv, BytesOf, Streams
      <4>4. buf["stdout"] \in Nat
        BY <1>0 DEF TypeOK, Streams
      <4>5. QED
        BY <4>1, <4>2, <4>3, <4>4
    <3>2. QED
      BY <1>0, <1>1, <3>1, VerdictFacts
      DEF VerdictInv, Parses, Judge, childVars, Streams
  <2>4. BytesInv' /\ BufferInv' /\ DoneInv'
    BY <1>1, StreamsAside, DoneAside DEF IInv, Judge, childVars
  <2>5. QED
    BY <2>1, <2>2, <2>3, <2>4 DEF IInv
<1>2. CASE /\ pc = "late stderr" /\ outcome' = "timeout"
           /\ joined' = IF drainer["stderr"] = "done" THEN joined \union {"stderr"}
                                                      ELSE joined
  <2>1. TypeOK'
    BY <1>0, <1>2 DEF TypeOK, Judge, childVars, Failures, Streams
  <2>2. ParentInv' /\ VerdictInv'
    BY <1>2 DEF IInv, ParentInv, VerdictInv, Judge, childVars, Waiting, Streams
  <2>3. BytesInv' /\ BufferInv'
    BY StreamsAside DEF IInv, Judge
  <2>4. DoneInv'
    BY <1>2 DEF IInv, DoneInv, EndOfFile, Judge, childVars
  <2>5. QED
    BY <2>1, <2>2, <2>3, <2>4 DEF IInv
<1>3. QED
  BY <1>1, <1>2 DEF Judge

LEMMA CleanStep ==
  ASSUME IInv, Clean
  PROVE  IInv'
<1>1. TypeOK'
  BY DEF IInv, TypeOK, Clean, childVars, Failures
<1>2. BytesInv' /\ BufferInv'
  BY StreamsAside DEF IInv, Clean
<1>3. DoneInv'
  BY DoneAside DEF IInv, Clean, childVars
<1>4. ParentInv' /\ VerdictInv'
  BY DEF IInv, ParentInv, VerdictInv, Clean, childVars, Waiting, Streams
<1>5. QED
  BY <1>1, <1>2, <1>3, <1>4 DEF IInv
-----------------------------------------------------------------------------
\* Every step of the child, the drainers, the clock and the parent keeps the
\* invariant.
LEMMA InvStep ==
  ASSUME IInv, [Next]_vars
  PROVE  IInv'
<1>1. CASE Parent
  BY <1>1, WriteInputStep, StartDrainersStep, PollStep, KillLateStep, JoinStep,
     CopyStep, JudgeStep, CleanStep DEF Parent
<1>2. CASE Child
  BY <1>2, ReadInputStep, CrashStep, ExitStep, WriteStep DEF Child
<1>3. CASE Expire
  BY <1>3, ExpireStep
<1>4. CASE \E s \in Streams : Drain(s)
  BY <1>4, FillStep, ReadReturnsStep, StoreStep, FlagStep DEF Drain
<1>5. CASE UNCHANGED vars
  <2>1. TypeOK'
    BY <1>5 DEF IInv, TypeOK, vars, parentVars, childVars
  <2>2. ParentInv' /\ VerdictInv'
    BY <1>5 DEF IInv, ParentInv, VerdictInv, vars, parentVars, childVars
  <2>3. BytesInv' /\ BufferInv' /\ DoneInv'
    BY <1>5, StreamsAside, DoneAside DEF IInv, vars, parentVars, childVars
  <2>4. QED
    BY <2>1, <2>2, <2>3 DEF IInv
<1>6. QED
  BY <1>1, <1>2, <1>3, <1>4, <1>5 DEF Next

\* _sandboxed_execute and _run_streaming, for every size: the invariant of the
\* child, the pipes, the drainers and the parent.
THEOREM SandboxInvariant == Spec => []IInv
  BY InvInit, InvStep, PTL DEF Spec

\* Every variable of an execution keeps its type: a read call never holds more
\* than a chunk and a pipe never more than its capacity.
THEOREM SandboxTypes == Spec => []TypeOK
<1>1. IInv => TypeOK
  BY DEF IInv
<1>2. QED
  BY <1>1, SandboxInvariant, PTL

\* A stream blamed for an overflow did exceed the cap, and each buffer stays
\* within a chunk, or a byte, over it.
THEOREM CulpritNamed == Spec => []OverflowNamesCulprit
<1>1. IInv => OverflowNamesCulprit
  <2> SUFFICES ASSUME IInv
               PROVE  OverflowNamesCulprit
    OBVIOUS
  <2>1. ASSUME NEW s \in Streams
        PROVE  /\ buf[s] <= Cap + ChunkSize
               /\ (buf[s] > Cap + 1 /\ overflow # "none") => overflow = s
    BY <2>1, Counters DEF IInv, BufferInv, BufferOf
  <2>2. ASSUME outcome \in Streams
        PROVE  wrote[outcome] > Cap
    <3>1. overflow = outcome /\ buf[outcome] > Cap
      BY <2>2 DEF IInv, VerdictInv, BufferInv, BufferOf
    <3>2. pipe[outcome] + held[outcome] + buf[outcome] <= wrote[outcome]
      BY <2>2 DEF IInv, BytesInv, BytesOf
    <3>3. QED
      BY <2>2, <3>1, <3>2, Counters DEF IInv
  <2>3. QED
    BY <2>1, <2>2 DEF OverflowNamesCulprit
<1>2. QED
  BY <1>1, SandboxInvariant, PTL

\* When both drainers were joined and no overflow is flagged, the buffers hold
\* all that was written, within the cap.
LEMMA AllStored ==
  ASSUME IInv, joined = Streams, overflow = "none", NEW s \in Streams
  PROVE  buf[s] = wrote[s] /\ wrote[s] <= Cap
<1>1. drainer[s] = "done" /\ pipe[s] = 0 /\ held[s] = 0
  BY DEF IInv, DoneInv, EndOfFile
<1>2. pipe[s] + held[s] + buf[s] = wrote[s]
  BY DEF IInv, BytesInv, BytesOf
<1>3. buf[s] <= Cap
  BY <1>1 DEF IInv, BufferInv, BufferOf
<1>4. QED
  BY <1>1, <1>2, <1>3, Counters DEF IInv

\* A result is the module's whole document from a child that ended by itself
\* with status 0, within the caps if both drainers were joined.
THEOREM ResultsAreSound == Spec => []ResultIsSound
<1>1. IInv => ResultIsSound
  BY AllStored DEF IInv, VerdictInv, ResultIsSound
<1>2. QED
  BY <1>1, SandboxInvariant, PTL

\* A child that ended well, within the caps and in time, is not failed by the
\* threads, buffers and flags around it.
THEOREM HealthyRunsReturn == Spec => []HealthyRunReturns
<1>1. IInv => HealthyRunReturns
  <2> SUFFICES ASSUME IInv, Finished, rc = 0, child = "dead", doc, joined = Streams,
                      \A s \in Streams : wrote[s] <= Cap,
                      outcome # "timeout", "tmpdir" \notin heirs
               PROVE  outcome = "result"
    BY DEF HealthyRunReturns
  <2>1. outcome \notin Streams
    <3> SUFFICES ASSUME outcome \in Streams
                 PROVE  FALSE
      OBVIOUS
    <3>1. buf[outcome] > Cap /\ pipe[outcome] + held[outcome] + buf[outcome] <= wrote[outcome]
      BY DEF IInv, VerdictInv, BufferInv, BufferOf, BytesInv, BytesOf
    <3>2. QED
      BY <3>1, Counters DEF IInv
  <2>2. outcome \notin {"none", "cleanup", "exit", "non-JSON"}
    BY DEF IInv, ParentInv, VerdictInv, Finished
  <2>3. QED
    BY <2>1, <2>2 DEF IInv, TypeOK, Failures, Streams
<1>2. QED
  BY <1>1, SandboxInvariant, PTL
-----------------------------------------------------------------------------
(* What the liveness of the sandbox rests on, with no fairness at all:     *)
(* nobody waits for everybody, and every step that is waited for brings    *)
(* its end nearer.                                                         *)

\* The parent can take its next step; the runner can read its input or start
\* on it; the drainer of a stream can take one.
ParentCan ==
  \/ pc \notin {"write", "done"}
  \/ pc = "write" /\ (child = "dead" \/ unsent = 0 \/ inPipe < PipeSize)
RunnerCan == child = "starting" /\ (inPipe > 0 \/ pc # "write")
DrainerCan(s) ==
  \/ drainer[s] = "reading" /\ ((pipe[s] > 0 /\ held[s] < ChunkSize) \/ held[s] = ChunkSize)
  \/ drainer[s] = "reading" /\ EndOfFile(s)
  \/ drainer[s] = "storing" /\ drainer[Other(s)] # "over"
  \/ drainer[s] = "over"

\* Input larger than a pipe waits for a runner that is there to read it, and a
\* module blocked on a full pipe for a drainer that is not itself blocked: if
\* it waits for the lock, the other one is about to release it.
NobodyIsStuck ==
  /\ pc = "done" \/ ParentCan \/ RunnerCan
  /\ pc = "write" => child # "running"
  /\ \A s \in Streams : (child = "running" /\ pipe[s] = PipeSize) =>
       \/ pc = "start"
       \/ DrainerCan(s)
       \/ drainer[s] = "storing" /\ DrainerCan(Other(s))

\* The steps a drainer is from making room in its pipe, and the parent from
\* the end of the call once the deadline has passed.
ToRoom(s) ==
  IF drainer[s] = "reading" /\ held[s] < ChunkSize THEN 1
  ELSE IF drainer[s] = "over" THEN 2
  ELSE IF drainer[s] = "storing" THEN 3
  ELSE IF drainer[s] = "reading" THEN 4
  ELSE 5
PlaceToEnd(p) ==
  IF p = "start" THEN 9
  ELSE IF p = "wait" THEN 8
  ELSE IF p = "polled" THEN 7
  ELSE IF p = "kill" \/ p = "join stdout" THEN 6
  ELSE IF p = "late stdout" \/ p = "join stderr" THEN 5
  ELSE IF p = "copy" THEN 4
  ELSE IF p = "late stderr" \/ p = "judge" THEN 3
  ELSE IF p = "clean" THEN 2
  ELSE 1
ToEnd == IF pc = "write" THEN 10 + unsent ELSE PlaceToEnd(pc)

\* While a pipe stays full and its drainer has started, the drainer's steps
\* bring room nearer and nobody else's put it off.
RoomComes ==
  \A s \in Streams :
    (/\ drainer[s] \notin {"off", "done"} /\ child' = "running"
     /\ pipe[s] = PipeSize /\ pipe'[s] = PipeSize) =>
      /\ ToRoom(s)' = ToRoom(s) \/ ToRoom(s)' < ToRoom(s)
      /\ Drain(s) => ToRoom(s)' < ToRoom(s)

\* The parent's steps bring the end of the call nearer, but for going back to
\* its look at the child before the deadline; nobody else's put it off.
EndComes ==
  \/ pc = "polled" /\ pc' = "wait" /\ ~expired
  \/ /\ ToEnd' = ToEnd \/ ToEnd' < ToEnd
     /\ Parent => ToEnd' < ToEnd

\* The runner reads its input before it runs anything, and the drainers have
\* started by the time the parent waits for the child.
WaitInv ==
  /\ pc = "write" => child # "running"
  /\ pc \notin {"write", "start"} => \A s \in Streams : drainer[s] # "off"

\* Every step keeps the waiting invariant.
LEMMA WaitStep ==
  ASSUME IInv, WaitInv, [Next]_vars
  PROVE  WaitInv'
<1>1. CASE Parent
  BY <1>1 DEF WaitInv, Parent, WriteInput, StartDrainers, Poll, KillLate, JoinDrainers, Join,
              Copy, Judge, Clean, childVars
<1>2. CASE Child
  BY <1>2 DEF WaitInv, Child, ReadInput, Crash, Exit, Write, parentVars, childVars
<1>3. CASE Expire \/ UNCHANGED vars
  BY <1>3 DEF WaitInv, Expire, vars, parentVars, childVars
<1>4. ASSUME NEW s \in Streams, Drain(s)
      PROVE  WaitInv'
  <2>1. UNCHANGED pc /\ (child' = child \/ child' = "dead")
    BY <1>4 DEF Drain, Fill, ReadReturns, Store, Flag, Kill, parentVars, childVars
  <2>2. \A t \in Streams : drainer'[t] = drainer[t] \/ drainer'[t] # "off"
    BY <1>4 DEF IInv, TypeOK, Drain, Fill, ReadReturns, Store, Flag
  <2>3. QED
    BY <2>1, <2>2 DEF WaitInv
<1>5. QED
  BY <1>1, <1>2, <1>3, <1>4 DEF Next

\* Both invariants, together.
LEMMA SafeWaits == Spec => [](IInv /\ WaitInv)
<1>1. Init => IInv /\ WaitInv
  BY InvInit DEF Init, WaitInv
<1>2. IInv /\ WaitInv /\ [Next]_vars => (IInv /\ WaitInv)'
  BY InvStep, WaitStep
<1>3. QED
  BY <1>1, <1>2, PTL DEF Spec

\* Until the call is over the parent can go on, or the runner it waits for can.
LEMMA SomebodyCan ==
  ASSUME IInv, WaitInv
  PROVE  pc = "done" \/ ParentCan \/ RunnerCan
<1>1. inPipe \in 0..PipeSize /\ child \in {"starting", "running", "dead"}
  BY DEF IInv, TypeOK
<1>2. inPipe < PipeSize \/ inPipe > 0
  BY <1>1, SizesAssumption
<1>3. QED
  BY <1>1, <1>2 DEF ParentCan, RunnerCan, WaitInv

\* For every size of pipe, chunk, input and output: whenever the parent waits,
\* whoever it waits for can go on, and so can whoever makes room for a module
\* that blocks on its output.
THEOREM NeverStuck == Spec => []NobodyIsStuck
<1>1. IInv /\ WaitInv => NobodyIsStuck
  <2> SUFFICES ASSUME IInv, WaitInv
               PROVE  NobodyIsStuck
    OBVIOUS
  <2>1. pc = "done" \/ ParentCan \/ RunnerCan
    BY SomebodyCan
  <2>2. ASSUME NEW s \in Streams, child = "running", pipe[s] = PipeSize, pc # "start"
        PROVE  DrainerCan(s) \/ (drainer[s] = "storing" /\ DrainerCan(Other(s)))
    <3>1. drainer[s] \in {"reading", "storing", "over"}
      <4>1. drainer[s] \in {"off", "reading", "storing", "over", "done"}
        BY DEF IInv, TypeOK
      <4>2. drainer[s] # "done"
        BY <2>2 DEF IInv, DoneInv, EndOfFile
      <4>3. drainer[s] # "off"
        BY <2>2 DEF WaitInv
      <4>4. QED
        BY <4>1, <4>2, <4>3
    <3>2. pipe[s] > 0 /\ (held[s] < ChunkSize \/ held[s] = ChunkSize)
      BY <2>2, Counters, SizesAssumption DEF IInv
    <3>3. QED
      BY <3>1, <3>2 DEF DrainerCan
  <2>3. QED
    BY <2>1, <2>2 DEF NobodyIsStuck, WaitInv
<1>2. QED
  BY <1>1, SafeWaits, PTL

\* A drainer whose pipe is full takes at most four steps to make room in it,
\* whatever the child, the other drainer and the parent do meanwhile.
THEOREM RoomIsMade == Spec => [][RoomComes]_vars
<1>1. IInv /\ [Next]_vars => [RoomComes]_vars
  <2> SUFFICES ASSUME IInv, Next, NEW s \in Streams,
                      drainer[s] \notin {"off", "done"}, child' = "running",
                      pipe[s] = PipeSize, pipe'[s] = PipeSize
               PROVE  /\ ToRoom(s)' = ToRoom(s) \/ ToRoom(s)' < ToRoom(s)
                      /\ Drain(s) => ToRoom(s)' < ToRoom(s)
    BY DEF RoomComes
  <2>0. /\ pipe[s] \in Nat /\ held[s] \in Nat /\ held[s] <= ChunkSize
        /\ ChunkSize \in Nat \ {0} /\ PipeSize \in Nat \ {0}
    BY Counters DEF IInv
  <2>1. ~Fill(s)
    <3> SUFFICES ASSUME Fill(s)
                 PROVE  FALSE
      OBVIOUS
    <3>1. pipe'[s] = pipe[s] - (IF pipe[s] < ChunkSize - held[s] THEN pipe[s]
                                ELSE ChunkSize - held[s])
      BY DEF IInv, TypeOK, Fill
    <3>2. held[s] < ChunkSize
      BY DEF Fill
    <3>3. QED
      BY <2>0, <3>1, <3>2
  <2>2. CASE ReadReturns(s)
    <3>1. child # "dead"
      BY <2>2 DEF ReadReturns, childVars
    <3>2. /\ drainer[s] = "reading" /\ held[s] = ChunkSize
          /\ drainer'[s] = "storing" /\ held' = held
      BY <2>0, <2>2, <3>1 DEF IInv, TypeOK, ReadReturns, EndOfFile
    <3>3. QED
      BY <2>0, <3>2 DEF ToRoom
  <2>3. CASE Store(s)
    <3>1. /\ drainer[s] = "storing" /\ drainer'[s] \in {"over", "reading"}
          /\ held'[s] = 0
      BY <2>3 DEF IInv, TypeOK, Store
    <3>2. QED
      BY <2>0, <3>1 DEF ToRoom
  <2>4. CASE Flag(s)
    BY <2>4 DEF Flag, Kill
  <2>5. CASE drainer'[s] = drainer[s] /\ held'[s] = held[s] /\ ~Drain(s)
    BY <2>5 DEF ToRoom
  <2>6. Drain(s) \/ (drainer'[s] = drainer[s] /\ held'[s] = held[s])
    <3>1. CASE Parent
      <4>1. ~StartDrainers
        BY DEF IInv, ParentInv, StartDrainers
      <4>2. QED
        BY <3>1, <4>1 DEF Parent, WriteInput, Poll, KillLate, JoinDrainers, Join, Copy, Judge,
                          Clean
    <3>2. CASE Child \/ Expire
      BY <3>2 DEF Child, ReadInput, Crash, Exit, Write, Expire
    <3>3. ASSUME NEW t \in Streams, t # s, Drain(t)
          PROVE  drainer'[s] = drainer[s] /\ held'[s] = held[s]
      BY <3>3 DEF IInv, TypeOK, Drain, Fill, ReadReturns, Store, Flag
    <3>4. QED
      BY <3>1, <3>2, <3>3 DEF Next
  <2>7. QED
    BY <2>1, <2>2, <2>3, <2>4, <2>5, <2>6 DEF Drain
<1>2. QED
  BY <1>1, SandboxInvariant, PTL DEF Spec

\* Once the deadline has passed the call is at most seven steps of the parent
\* from its end, and before that only a module that is still running keeps it.
THEOREM EndIsNear == Spec => [][EndComes]_vars
<1>1. IInv /\ [Next]_vars => [EndComes]_vars
  <2> SUFFICES ASSUME IInv, Next
               PROVE  EndComes
    OBVIOUS
  <2>1. CASE WriteInput
    <3>1. unsent \in 0..InputSize /\ InputSize \in Nat
      BY SizesAssumption DEF IInv, TypeOK
    <3>2. CASE unsent' = unsent - 1 /\ pc' = "write" /\ pc = "write"
      BY <3>1, <3>2 DEF EndComes, ToEnd
    <3>3. CASE pc' = "start" /\ pc = "write"
      BY <3>1, <3>3 DEF EndComes, ToEnd, PlaceToEnd
    <3>4. QED
      BY <2>1, <3>2, <3>3 DEF WriteInput
  <2>2. CASE Parent /\ ~WriteInput
    <3>1. \/ pc = "start" /\ pc' = "wait"
          \/ pc = "wait" /\ pc' \in {"join stdout", "polled"}
          \/ pc = "polled" /\ (pc' = "kill" \/ (pc' = "wait" /\ ~expired))
          \/ pc = "kill" /\ pc' = "late stdout"
          \/ pc = "join stdout" /\ pc' = "join stderr"
          \/ pc = "join stderr" /\ pc' = "copy"
          \/ pc = "late stdout" /\ pc' = "late stderr"
          \/ pc = "copy" /\ pc' = "judge"
          \/ pc \in {"judge", "late stderr"} /\ pc' = "clean"
          \/ pc = "clean" /\ pc' = "done"
      BY <2>2 DEF Parent, StartDrainers, Poll, KillLate, JoinDrainers, Join, Copy, Judge, Clean
    <3>2. ToEnd' < ToEnd \/ (pc = "polled" /\ pc' = "wait" /\ ~expired)
      <4>1. /\ PlaceToEnd("start") = 9 /\ PlaceToEnd("wait") = 8 /\ PlaceToEnd("polled") = 7
            /\ PlaceToEnd("kill") = 6 /\ PlaceToEnd("join stdout") = 6
            /\ PlaceToEnd("late stdout") = 5 /\ PlaceToEnd("join stderr") = 5
            /\ PlaceToEnd("copy") = 4 /\ PlaceToEnd("late stderr") = 3
            /\ PlaceToEnd("judge") = 3 /\ PlaceToEnd("clean") = 2 /\ PlaceToEnd("done") = 1
        BY DEF PlaceToEnd
      <4>2. pc # "write" /\ pc' # "write"
        BY <3>1
      <4>3. ToEnd = PlaceToEnd(pc) /\ ToEnd' = PlaceToEnd(pc')
        BY <4>2 DEF ToEnd
      <4>4. CASE pc = "polled" /\ pc' = "wait" /\ ~expired
        BY <4>4
      <4>5. CASE ~(pc = "polled" /\ pc' = "wait" /\ ~expired)
        <5>1. \/ ToEnd = 9 /\ ToEnd' = 8
              \/ ToEnd = 8 /\ ToEnd' \in {6, 7}
              \/ ToEnd = 7 /\ ToEnd' = 6
              \/ ToEnd = 6 /\ ToEnd' = 5
              \/ ToEnd = 5 /\ ToEnd' \in {3, 4}
              \/ ToEnd = 4 /\ ToEnd' = 3
              \/ ToEnd = 3 /\ ToEnd' = 2
              \/ ToEnd = 2 /\ ToEnd' = 1
          BY <3>1, <4>1, <4>3, <4>5, Zenon
        <5>2. ToEnd' < ToEnd
          BY ONLY <5>1
        <5>3. QED
          BY <5>2
      <4>6. QED
        BY <4>4, <4>5
    <3>3. QED
      BY <3>2 DEF EndComes
  <2>3. CASE ~Parent
    <3>1. UNCHANGED <<pc, unsent>>
      BY <2>3 DEF Next, Child, ReadInput, Crash, Exit, Write, Expire, Drain, Fill, ReadReturns,
                  Store, Flag, parentVars
    <3>2. QED
      BY <2>3, <3>1 DEF EndComes, ToEnd
  <2>4. QED
    BY <2>1, <2>2, <2>3
<1>2. QED
  BY <1>1, SandboxInvariant, PTL DEF Spec
-----------------------------------------------------------------------------
(* OutputDrained and CallEnds themselves.  The provers do not compute ENABLED, *)
(* so the theorems take GuardsSuffice as hypothesis: that an action whose      *)
(* guard holds can be taken.  It is valid, as reading the actions shows, which *)
(* give every primed variable a value; it says nothing of what the sandbox     *)
(* does.                                                                       *)

DrainerGuardSuffices(s) == DrainerCan(s) => ENABLED <<Drain(s)>>_vars
GuardsSuffice ==
  /\ ParentCan => ENABLED <<Parent>>_vars
  /\ RunnerCan => ENABLED <<ReadInput>>_vars
  /\ timed /\ ~expired /\ pc \in {"wait", "polled"} => ENABLED <<Expire>>_vars
  /\ \A s \in Streams : DrainerGuardSuffices(s)

\* The module is blocked on a full pipe; it no longer is.
Blocked(s) == child = "running" /\ pipe[s] = PipeSize
Relieved(s) == child = "dead" \/ pipe[s] < PipeSize

\* Where the drainer of the full pipe is: not started, blocked in a read it
\* can fill, with a full chunk, waiting for the lock that the other drainer
\* holds, about to store, about to kill.
Off(s) == Blocked(s) /\ pc = "start"
Hungry(s) == Blocked(s) /\ pc # "start" /\ drainer[s] = "reading" /\ held[s] < ChunkSize
Full(s) == Blocked(s) /\ pc # "start" /\ drainer[s] = "reading" /\ held[s] = ChunkSize
Locked(s) == Blocked(s) /\ pc # "start" /\ drainer[s] = "storing" /\ drainer[Other(s)] = "over"
Storing(s) == Blocked(s) /\ pc # "start" /\ drainer[s] = "storing" /\ drainer[Other(s)] # "over"
Over(s) == Blocked(s) /\ pc # "start" /\ drainer[s] = "over"

\* A blocked module's drainer is at one of these places.
LEMMA BlockedPlaces ==
  ASSUME IInv, WaitInv, NEW s \in Streams, Blocked(s)
  PROVE  Off(s) \/ Hungry(s) \/ Full(s) \/ Locked(s) \/ Storing(s) \/ Over(s)
<1>1. drainer[s] \in {"off", "reading", "storing", "over", "done"}
  BY DEF IInv, TypeOK
<1>2. drainer[s] # "done"
  BY DEF IInv, DoneInv, EndOfFile, Blocked
<1>3. pc = "start" \/ drainer[s] # "off"
  BY DEF WaitInv, Blocked
<1>4. held[s] < ChunkSize \/ held[s] = ChunkSize
  BY Counters DEF IInv
<1>5. QED
  BY <1>1, <1>2, <1>3, <1>4 DEF Off, Hungry, Full, Locked, Storing, Over

\* A full pipe stays full while its module runs, until its drainer fills a read.
LEMMA BlockedStep ==
  ASSUME IInv, [Next]_vars, NEW s \in Streams, Blocked(s)
  PROVE  /\ Blocked(s)' \/ Relieved(s)'
         /\ Fill(s) => Relieved(s)'
<1>0. /\ pipe[s] \in Nat /\ held[s] \in Nat /\ PipeSize \in Nat \ {0}
      /\ ChunkSize \in Nat \ {0} /\ pipe[s] = PipeSize /\ child = "running"
  BY Counters DEF IInv, Blocked
<1>1. ASSUME Fill(s)
      PROVE  Relieved(s)'
  <2>1. pipe'[s] = pipe[s] - (IF pipe[s] < ChunkSize - held[s] THEN pipe[s]
                              ELSE ChunkSize - held[s])
    BY <1>1 DEF IInv, TypeOK, Fill
  <2>2. held[s] < ChunkSize
    BY <1>1 DEF Fill
  <2>3. pipe'[s] < PipeSize
    BY <1>0, <2>1, <2>2
  <2>4. QED
    BY <2>3 DEF Relieved
<1>2. ASSUME ~Fill(s)
      PROVE  Blocked(s)' \/ Relieved(s)'
  <2>1. child' \in {"running", "dead"}
    BY <1>0 DEF Next, Parent, WriteInput, StartDrainers, Poll, KillLate, Kill, JoinDrainers, Join,
                Copy, Judge, Clean, Child, ReadInput, Crash, Exit, Write, Expire, Drain, Fill,
                ReadReturns, Store, Flag, vars, childVars
  <2>2. pipe'[s] = pipe[s]
    <3>1. CASE Parent
      BY <3>1 DEF Parent, WriteInput, StartDrainers, Poll, KillLate, JoinDrainers, Join,
                  Copy, Judge, Clean
    <3>2. CASE ReadInput \/ Crash \/ Exit \/ Expire \/ UNCHANGED vars
      BY <3>2 DEF ReadInput, Crash, Exit, Expire, vars
    <3>3. ASSUME NEW t \in Streams, Write(t)
          PROVE  pipe'[s] = pipe[s]
      <4>1. t # s
        BY <1>0, <3>3 DEF Write
      <4>2. QED
        BY <3>3, <4>1 DEF Write, IInv, TypeOK
    <3>4. ASSUME NEW t \in Streams, Drain(t)
          PROVE  pipe'[s] = pipe[s]
      BY <1>2, <3>4 DEF Drain, Fill, ReadReturns, Store, Flag, IInv, TypeOK
    <3>5. QED
      BY <3>1, <3>2, <3>3, <3>4 DEF Next, Child
  <2>3. QED
    BY <1>0, <2>1, <2>2 DEF Blocked, Relieved
<1>3. QED
  BY <1>1, <1>2

\* Only the parent moves its own place, and only a drainer its own.
LEMMA PlacesKept ==
  ASSUME IInv, [Next]_vars, NEW s \in Streams
  PROVE  /\ ~Parent => pc' = pc
         /\ pc # "start" => pc' # "start" \/ pc = "write"
         /\ pc # "start" /\ ~Drain(s) => drainer'[s] = drainer[s] /\ held'[s] = held[s]
<1>1. ~Parent => pc' = pc
  BY DEF Next, Child, ReadInput, Crash, Exit, Write, Expire, Drain, Fill, ReadReturns, Store,
         Flag, parentVars, vars
<1>2. pc # "start" => pc' # "start" \/ pc = "write"
  <2>1. CASE Parent
    BY <2>1 DEF Parent, WriteInput, StartDrainers, Poll, KillLate, JoinDrainers, Join, Copy,
                Judge, Clean
  <2>2. QED
    BY <1>1, <2>1
<1>3. ASSUME pc # "start", ~Drain(s)
      PROVE  drainer'[s] = drainer[s] /\ held'[s] = held[s]
  <2>1. CASE Parent
    <3>1. ~StartDrainers
      BY <1>3 DEF StartDrainers
    <3>2. QED
      BY <2>1, <3>1 DEF Parent, WriteInput, Poll, KillLate, JoinDrainers, Join, Copy, Judge, Clean
  <2>2. CASE Child \/ Expire \/ UNCHANGED vars
    BY <2>2 DEF Child, ReadInput, Crash, Exit, Write, Expire, vars
  <2>3. ASSUME NEW t \in Streams, t # s, Drain(t)
        PROVE  drainer'[s] = drainer[s] /\ held'[s] = held[s]
    BY <2>3 DEF IInv, TypeOK, Drain, Fill, ReadReturns, Store, Flag
  <2>4. QED
    BY <1>3, <2>1, <2>2, <2>3 DEF Next
<1>4. QED
  BY <1>1, <1>2, <1>3

\* From each place of a blocked module's drainer: where any step can lead, and
\* what the fair step that is due there gives.
DrainerMoves(s) ==
  /\ Hungry(s) => Hungry(s)' \/ Relieved(s)'
  /\ Full(s) => Full(s)' \/ Locked(s)' \/ Storing(s)' \/ Relieved(s)'
  /\ Locked(s) => Locked(s)' \/ Relieved(s)'
  /\ Storing(s) => Storing(s)' \/ Locked(s)' \/ Over(s)' \/ Hungry(s)' \/ Relieved(s)'
  /\ Over(s) => Over(s)' \/ Relieved(s)'
DrainerGoesThere(s) ==
  /\ Drain(s) => /\ Hungry(s) \/ Over(s) => Relieved(s)'
                 /\ Full(s) => ~Full(s)'
                 /\ Storing(s) => ~Storing(s)'
  /\ Drain(Other(s)) => (Locked(s) => Relieved(s)')

\* Nobody but the drainer itself, or a kill, moves it from its place.
LEMMA DrainerSteps ==
  ASSUME IInv, WaitInv, [Next]_vars, NEW s \in Streams
  PROVE  DrainerMoves(s) /\ DrainerGoesThere(s)
<1> SUFFICES ASSUME Blocked(s), pc # "start"
             PROVE  DrainerMoves(s) /\ DrainerGoesThere(s)
  BY DEF DrainerMoves, DrainerGoesThere, Hungry, Full, Locked, Storing, Over
<1>0. /\ held[s] \in Nat /\ held[s] <= ChunkSize /\ ChunkSize \in Nat \ {0}
      /\ child = "running" /\ Other(s) \in Streams
  BY Counters DEF IInv, Blocked, Other, Streams
<1>1. (Blocked(s)' \/ Relieved(s)') /\ (Fill(s) => Relieved(s)')
  BY BlockedStep
<1>2. pc' # "start"
  BY PlacesKept, <1>0 DEF WaitInv
<1>3. ~Drain(s) => drainer'[s] = drainer[s] /\ held'[s] = held[s]
  BY PlacesKept
<1>4. ~Drain(Other(s)) => drainer'[Other(s)] = drainer[Other(s)]
  BY PlacesKept, <1>0
<1>5. ASSUME ReadReturns(s)
      PROVE  Full(s) /\ drainer'[s] = "storing"
  <2>1. held[s] = ChunkSize /\ drainer[s] = "reading"
    BY <1>0, <1>5 DEF ReadReturns, EndOfFile
  <2>2. drainer'[s] = "storing"
    BY <1>0, <1>5, <2>1 DEF IInv, TypeOK, ReadReturns
  <2>3. QED
    BY <2>1, <2>2 DEF Full
<1>6. ASSUME Store(s)
      PROVE  /\ Storing(s) /\ drainer'[s] \in {"over", "reading"}
             /\ held'[s] = 0
  BY <1>6 DEF IInv, TypeOK, Store, Storing
<1>7. ASSUME NEW t \in Streams, Flag(t)
      PROVE  drainer[t] = "over" /\ Relieved(s)'
  BY <1>7 DEF Flag, Kill, Relieved
<1>8. Drain(s) => Fill(s) \/ ReadReturns(s) \/ Store(s) \/ Flag(s)
  BY DEF Drain
<1>9. Drain(Other(s)) /\ drainer[Other(s)] = "over" => Relieved(s)'
  BY <1>0, <1>7 DEF Drain, Fill, ReadReturns, Store
<1>10. Drain(s) /\ Locked(s) => FALSE
  BY DEF Drain, Locked, Fill, ReadReturns, Store, Flag
<1>11. DrainerMoves(s)
  <2>1. CASE Relieved(s)'
    BY <2>1 DEF DrainerMoves
  <2>2. CASE ~Relieved(s)' /\ ~Drain(s)
    BY <1>1, <1>2, <1>3, <1>4, <1>9, <2>2
    DEF DrainerMoves, Hungry, Full, Locked, Storing, Over
  <2>3. CASE ~Relieved(s)' /\ Drain(s)
    <3>1. CASE ReadReturns(s)
      <4>1. ~Hungry(s) /\ ~Locked(s) /\ ~Storing(s) /\ ~Over(s)
        BY <1>0, <1>5, <3>1 DEF Hungry, Full, Locked, Storing, Over
      <4>2. Locked(s)' \/ Storing(s)'
        BY <1>1, <1>2, <1>5, <2>3, <3>1 DEF Locked, Storing
      <4>3. QED
        BY <4>1, <4>2 DEF DrainerMoves
    <3>2. CASE Store(s)
      <4>1. ~Hungry(s) /\ ~Locked(s) /\ ~Full(s) /\ ~Over(s)
        BY <1>6, <3>2 DEF Hungry, Full, Locked, Storing, Over
      <4>2. held'[s] < ChunkSize
        BY <1>0, <1>6, <3>2
      <4>3. Over(s)' \/ Hungry(s)'
        BY <1>1, <1>2, <1>6, <2>3, <3>2, <4>2 DEF Over, Hungry
      <4>4. QED
        BY <4>1, <4>3 DEF DrainerMoves
    <3>3. QED
      BY <1>1, <1>7, <1>8, <2>3, <3>1, <3>2
  <2>4. QED
    BY <2>1, <2>2, <2>3
<1>12. DrainerGoesThere(s)
  <2>1. Drain(s) /\ (Hungry(s) \/ Over(s)) => Relieved(s)'
    BY <1>0, <1>1, <1>5, <1>6, <1>7, <1>8 DEF Hungry, Full, Storing, Over
  <2>2. Drain(s) /\ Full(s) => ~Full(s)'
    <3>1. Drain(s) /\ Full(s) => ReadReturns(s)
      BY <1>0 DEF Drain, Full, Fill, Store, Flag
    <3>2. QED
      BY <1>5, <3>1 DEF Full
  <2>3. Drain(s) /\ Storing(s) => ~Storing(s)'
    <3>1. Drain(s) /\ Storing(s) => Store(s)
      BY DEF Drain, Storing, Fill, ReadReturns, Flag
    <3>2. QED
      BY <1>6, <3>1 DEF Storing
  <2>4. Drain(Other(s)) /\ Locked(s) => Relieved(s)'
    BY <1>9 DEF Locked
  <2>5. QED
    BY <2>1, <2>2, <2>3, <2>4 DEF DrainerGoesThere
<1>13. QED
  BY <1>11, <1>12

\* The drainers' fairness, and one drainer's share of OutputDrained.
DrainersGoOn == \A s \in Streams : DrainerGoesOn(s)
DrainedOf(s) ==
  (child = "running" /\ pipe[s] = PipeSize) ~> (child = "dead" \/ pipe[s] < PipeSize)

\* For every size of pipe, chunk and output: a module blocked on a full pipe
\* gets room or is killed.  Its drainer reads, or gives its chunk up first, or
\* waits for a lock whose holder is about to kill the module.
THEOREM OutputIsDrained == Spec /\ []GuardsSuffice => OutputDrained
<1> DEFINE I == IInv /\ WaitInv
<1> DEFINE Runs == /\ []I /\ [][Next]_vars /\ []GuardsSuffice /\ WF_vars(Parent)
                   /\ DrainersGoOn
<1>1. Spec => []I
  BY SafeWaits
<1>2. Spec /\ []GuardsSuffice => Runs
  BY <1>1, PTL DEF Spec, Fairness, DrainersGoOn
<1>3. ASSUME NEW s \in Streams
      PROVE  Runs => DrainedOf(s)
  <2>1. Other(s) \in Streams
    BY DEF Other, Streams
  <2>2. I /\ Blocked(s) => Off(s) \/ Hungry(s) \/ Full(s) \/ Locked(s) \/ Storing(s) \/ Over(s)
    BY BlockedPlaces
  <2>3. I /\ I' /\ [Next]_vars /\ Off(s) =>
          \/ Off(s)' \/ Hungry(s)' \/ Full(s)' \/ Locked(s)' \/ Storing(s)' \/ Over(s)'
          \/ Relieved(s)'
    <3>1. Off(s) => Blocked(s)
      BY DEF Off
    <3>2. I' /\ Blocked(s)' =>
            Off(s)' \/ Hungry(s)' \/ Full(s)' \/ Locked(s)' \/ Storing(s)' \/ Over(s)'
      BY <2>2, PTL
    <3>3. QED
      BY <3>1, <3>2, BlockedStep
  <2>4. I /\ Parent /\ Off(s) => ~Off(s)'
    BY DEF Off, Parent, WriteInput, StartDrainers, Poll, KillLate, JoinDrainers, Join, Copy, Judge,
           Clean
  <2>5. I /\ [Next]_vars => DrainerMoves(s) /\ DrainerGoesThere(s)
    BY DrainerSteps
  <2>6. I /\ GuardsSuffice =>
          /\ Off(s) => ENABLED <<Parent>>_vars
          /\ Hungry(s) \/ Full(s) \/ Storing(s) \/ Over(s) => ENABLED <<Drain(s)>>_vars
          /\ Locked(s) => ENABLED <<Drain(Other(s))>>_vars
    <3>1. Off(s) => ParentCan
      BY DEF Off, ParentCan
    <3>2. I => (Hungry(s) \/ Full(s) \/ Storing(s) \/ Over(s) => DrainerCan(s))
      BY Counters, SizesAssumption
      DEF IInv, DrainerCan, Hungry, Full, Storing, Over, Blocked
    <3>3. Locked(s) => DrainerCan(Other(s))
      BY DEF Locked, DrainerCan
    <3>4. GuardsSuffice => /\ ParentCan => ENABLED <<Parent>>_vars
                          /\ DrainerGuardSuffices(s) /\ DrainerGuardSuffices(Other(s))
      BY <2>1 DEF GuardsSuffice
    <3>5. QED
      BY <3>1, <3>2, <3>3, <3>4, PTL DEF DrainerGuardSuffices
  <2>7. DrainersGoOn => DrainerGoesOn(s) /\ DrainerGoesOn(Other(s))
    BY <2>1 DEF DrainersGoOn
  <2> HIDE DEF I
  <2> DEFINE SRuns == /\ []I /\ [][Next]_vars /\ []GuardsSuffice /\ WF_vars(Parent)
                      /\ WF_vars(Drain(s)) /\ WF_vars(Drain(Other(s)))
  <2>8. Runs => SRuns
    BY <2>7, PTL DEF DrainerGoesOn
  <2>9. SRuns => (Off(s) ~> \/ Hungry(s) \/ Full(s) \/ Locked(s) \/ Storing(s) \/ Over(s)
                            \/ Relieved(s))
    BY <2>3, <2>4, <2>6, PTL
  <2>10. SRuns => (Hungry(s) ~> Relieved(s))
    BY <2>5, <2>6, PTL DEF DrainerMoves, DrainerGoesThere
  <2>11. SRuns => (Over(s) ~> Relieved(s))
    BY <2>5, <2>6, PTL DEF DrainerMoves, DrainerGoesThere
  <2>12. SRuns => (Locked(s) ~> Relieved(s))
    BY <2>5, <2>6, PTL DEF DrainerMoves, DrainerGoesThere
  <2>13. SRuns => (Storing(s) ~> Locked(s) \/ Over(s) \/ Hungry(s) \/ Relieved(s))
    BY <2>5, <2>6, PTL DEF DrainerMoves, DrainerGoesThere
  <2>14. SRuns => (Full(s) ~> Locked(s) \/ Storing(s) \/ Relieved(s))
    BY <2>5, <2>6, PTL DEF DrainerMoves, DrainerGoesThere
  <2>15. SRuns => (Blocked(s) ~> Relieved(s))
    BY <2>2, <2>9, <2>10, <2>11, <2>12, <2>13, <2>14, PTL
  <2>16. QED
    BY <2>8, <2>15, PTL DEF DrainedOf, Blocked, Relieved
<1> HIDE DEF Runs
<1>4. Runs => \A s \in Streams : DrainedOf(s)
  BY <1>3
<1>5. (\A s \in Streams : DrainedOf(s)) => OutputDrained
  BY DEF DrainedOf, OutputDrained
<1>6. QED
  BY <1>2, <1>4, <1>5, PTL

-----------------------------------------------------------------------------
\* Where a call with a timeout is: writing its input with so many bytes left,
\* at a place behind that, or waiting for the child beyond the deadline.
Writing(n) == pc = "write" /\ unsent = n
At(place) == timed /\ pc = place
Late(place) == At(place) /\ expired

\* The parent's own step leads on from every place behind the wait, and from
\* the wait once the deadline has passed; nobody else's step leads anywhere.
CallMoves ==
  /\ At("start") => At("start")' \/ At("wait")'
  /\ At("wait") => At("wait")' \/ At("polled")' \/ At("join stdout")'
  /\ At("polled") => At("polled")' \/ At("wait")' \/ At("kill")'
  /\ Late("wait") => Late("wait")' \/ Late("polled")' \/ At("join stdout")'
  /\ Late("polled") => Late("polled")' \/ At("kill")'
  /\ At("kill") => At("kill")' \/ At("late stdout")'
  /\ At("late stdout") => At("late stdout")' \/ At("late stderr")'
  /\ At("late stderr") => At("late stderr")' \/ At("clean")'
  /\ At("join stdout") => At("join stdout")' \/ At("join stderr")'
  /\ At("join stderr") => At("join stderr")' \/ At("copy")'
  /\ At("copy") => At("copy")' \/ At("judge")'
  /\ At("judge") => At("judge")' \/ At("clean")'
  /\ At("clean") => At("clean")' \/ Finished'

\* Every step keeps to that table, and the timeout is what it was.
LEMMA CallSteps ==
  ASSUME [Next]_vars
  PROVE  CallMoves /\ (timed => timed')
<1>1. timed' = timed /\ (expired => expired')
  <2>1. CASE Parent
    <3>1. timed' = timed /\ expired' = expired
      BY <2>1 DEF Parent, WriteInput, StartDrainers, Poll, KillLate, JoinDrainers, Join, Copy,
                  Judge, Clean
    <3>2. QED
      BY <3>1
  <2>2. CASE Child \/ UNCHANGED vars
    BY <2>2 DEF Child, ReadInput, Crash, Exit, Write, parentVars, vars
  <2>3. CASE Expire
    BY <2>3 DEF Expire, parentVars
  <2>4. ASSUME NEW s \in Streams, Drain(s)
        PROVE  timed' = timed /\ expired' = expired
    BY <2>4 DEF Drain, Fill, ReadReturns, Store, Flag, parentVars
  <2>5. QED
    BY <2>1, <2>2, <2>3, <2>4 DEF Next
<1>2. CASE Parent
  <2>1. /\ pc = "start" => pc' = "wait"
        /\ pc = "wait" => pc' \in {"join stdout", "polled"}
        /\ pc = "polled" => pc' = "kill" \/ (pc' = "wait" /\ ~expired)
        /\ pc = "kill" => pc' = "late stdout"
        /\ pc = "late stdout" => pc' = "late stderr"
        /\ pc = "join stdout" => pc' = "join stderr"
        /\ pc = "join stderr" => pc' = "copy"
        /\ pc = "copy" => pc' = "judge"
        /\ pc \in {"judge", "late stderr"} => pc' = "clean"
        /\ pc = "clean" => pc' = "done"
    BY <1>2 DEF Parent, WriteInput, StartDrainers, Poll, KillLate, JoinDrainers, Join, Copy,
                Judge, Clean
  <2>2. QED
    BY <1>1, <2>1, Zenon DEF CallMoves, At, Late, Finished
<1>3. CASE ~Parent
  <2>1. pc' = pc
    BY <1>3 DEF Next, Child, ReadInput, Crash, Exit, Write, Expire, Drain, Fill, ReadReturns,
                Store, Flag, parentVars, vars
  <2>2. QED
    BY <1>1, <2>1 DEF CallMoves, At, Late
<1>4. QED
  BY <1>2, <1>3

\* The parent leaves the place it is at.
LEMMA ParentLeaves ==
  ASSUME Parent
  PROVE  /\ pc # "write" => pc' # pc
         /\ pc = "polled" /\ expired => pc' = "kill"
<1>1. pc # "write" => pc' # pc
  BY DEF Parent, WriteInput, StartDrainers, Poll, KillLate, JoinDrainers, Join, Copy, Judge,
         Clean
<1>2. pc = "polled" /\ expired => pc' = "kill"
  BY DEF Parent, WriteInput, StartDrainers, Poll, KillLate, JoinDrainers, Join, Copy, Judge,
         Clean
<1>3. QED
  BY <1>1, <1>2

\* A step of the parent writes or ends the writing; the runner's reading makes
\* room for one, and no other step takes that away.
LEMMA WriteSteps ==
  ASSUME IInv, WaitInv, [Next]_vars, NEW n \in Nat, Writing(n)
  PROVE  /\ Writing(n)' \/ pc' # "write" \/ unsent' < n
         /\ Parent => pc' # "write" \/ unsent' < n
         /\ ParentCan /\ Writing(n)' => ParentCan'
         /\ ~ParentCan /\ ReadInput => ParentCan'
<1>0. /\ unsent \in Nat /\ inPipe \in 0..PipeSize /\ PipeSize \in Nat \ {0}
      /\ child \in {"starting", "dead"} /\ unsent = n /\ pc = "write"
  <2>1. child \in {"starting", "running", "dead"} /\ unsent \in 0..InputSize
        /\ inPipe \in 0..PipeSize
    BY DEF IInv, TypeOK
  <2>2. QED
    BY <2>1, SizesAssumption DEF WaitInv, Writing
<1>1. Parent => pc' # "write" \/ unsent' < n
  <2>1. Parent => WriteInput
    BY <1>0 DEF Parent, StartDrainers, Poll, KillLate, JoinDrainers, Join, Copy, Judge, Clean
  <2>2. WriteInput => pc' = "start" \/ unsent' = unsent - 1
    BY DEF WriteInput
  <2>3. QED
    BY <1>0, <2>1, <2>2
<1>2. ~Parent => pc' = pc /\ unsent' = unsent
  BY DEF Next, Child, ReadInput, Crash, Exit, Write, Expire, Drain, Fill, ReadReturns, Store,
         Flag, parentVars, vars
<1>3. ASSUME ParentCan, Writing(n)'
      PROVE  ParentCan'
  <2>1. ~Parent
    BY <1>0, <1>1, <1>3 DEF Writing
  <2>2. child = "dead" => child' = "dead"
    BY <2>1 DEF Next, Child, ReadInput, Crash, Exit, Write, Expire, Drain, Fill, ReadReturns,
                Store, Flag, Kill, childVars, vars
  <2>3. inPipe' = inPipe \/ inPipe' = 0
    BY <2>1 DEF Next, Child, ReadInput, Crash, Exit, Write, Expire, Drain, Fill, ReadReturns,
                Store, Flag, vars
  <2>4. QED
    BY <1>0, <1>2, <1>3, <2>1, <2>2, <2>3 DEF ParentCan
<1>4. ASSUME ~ParentCan, ReadInput
      PROVE  ParentCan'
  <2>1. inPipe > 0 /\ pc' = pc
    BY <1>0, <1>4 DEF ParentCan, ReadInput, parentVars
  <2>2. inPipe' = 0
    BY <1>4, <2>1 DEF ReadInput
  <2>3. QED
    BY <1>0, <2>1, <2>2 DEF ParentCan
<1>5. QED
  BY <1>0, <1>1, <1>2, <1>3, <1>4 DEF Writing

\* A byte of input more is written, or the writing has ended.
ByteGoes(n) == Writing(n) ~> (pc # "write" \/ (unsent < n /\ pc = "write"))

\* While the parent writes the input, however large, another byte always gets
\* through: the runner is there to empty the pipe, or its death ends the write.
THEOREM InputGoesOn == Spec /\ []GuardsSuffice => \A n \in Nat : ByteGoes(n)
<1> DEFINE I == IInv /\ WaitInv
<1> DEFINE Runs == Spec /\ []GuardsSuffice
<1>1. Spec => []I
  BY SafeWaits
<1>2. ASSUME NEW n \in Nat
      PROVE  Runs => ByteGoes(n)
  <2> DEFINE Goal == pc # "write" \/ (unsent < n /\ pc = "write")
  <2>1. I /\ [Next]_vars /\ Writing(n) => Writing(n)' \/ Goal'
    BY WriteSteps
  <2>2. I /\ [Next]_vars /\ Writing(n) =>
          /\ Parent => Goal'
          /\ ~ParentCan /\ ReadInput => ParentCan'
          /\ ParentCan => ParentCan' \/ Goal'
    BY WriteSteps
  <2>3. I /\ GuardsSuffice /\ Writing(n) /\ ParentCan => ENABLED <<Parent>>_vars
    BY DEF GuardsSuffice
  <2>4. I /\ GuardsSuffice /\ Writing(n) /\ ~ParentCan => ENABLED <<ReadInput>>_vars
    <3>1. I /\ Writing(n) /\ ~ParentCan => RunnerCan
      BY SomebodyCan DEF Writing
    <3>2. QED
      BY <3>1 DEF GuardsSuffice
  <2> HIDE DEF I
  <2>5. Runs => (Writing(n) /\ ~ParentCan ~> (Writing(n) /\ ParentCan) \/ Goal)
    BY <1>1, <2>1, <2>2, <2>4, PTL DEF Spec, Fairness
  <2>6. Runs => (Writing(n) /\ ParentCan ~> Goal)
    BY <1>1, <2>1, <2>2, <2>3, PTL DEF Spec, Fairness
  <2>7. QED
    BY <2>5, <2>6, PTL DEF ByteGoes
<1> HIDE DEF Runs
<1>3. Runs => \A n \in Nat : ByteGoes(n)
  BY <1>2
<1>4. QED
  BY <1>3, PTL DEF Runs

\* A number that keeps getting smaller comes to an end: the instance of the
\* induction rule on naturals that leads from every byte to the whole input.
\* It holds of any variables at all; no prover here does induction.
CountdownEnds ==
  (\A n \in Nat : ByteGoes(n)) /\ [](pc = "write" => unsent \in Nat)
    => (pc = "write" ~> pc # "write")

\* For every size of input, pipe and output: with a timeout the call ends.  The
\* input goes out byte by byte, the wait ends with the child or the deadline,
\* and behind it no join, read or cleanup waits for anybody.
THEOREM CallEndsInTime == Spec /\ []GuardsSuffice /\ CountdownEnds => CallEnds
<1> DEFINE I == IInv /\ WaitInv
<1> DEFINE Runs == /\ []I /\ [][Next]_vars /\ []GuardsSuffice
                   /\ WF_vars(Parent) /\ WF_vars(Expire)
<1>1. Spec => []I
  BY SafeWaits
<1>2. Spec /\ []GuardsSuffice /\ CountdownEnds => (pc = "write" ~> pc # "write")
  <2>1. I => (pc = "write" => unsent \in Nat)
    BY SizesAssumption DEF IInv, TypeOK
  <2> HIDE DEF I
  <2>2. QED
    BY <1>1, <2>1, InputGoesOn, PTL DEF CountdownEnds
<1>3. I /\ timed /\ pc # "write" =>
        \/ At("start") \/ At("wait") \/ At("polled") \/ At("kill")
        \/ At("late stdout") \/ At("late stderr") \/ At("join stdout") \/ At("join stderr")
        \/ At("copy") \/ At("judge") \/ At("clean") \/ Finished
  BY DEF IInv, TypeOK, At, Finished
<1>4. [Next]_vars => CallMoves /\ (timed => timed')
  BY CallSteps
<1>5. Parent =>
        /\ At("start") => ~At("start")'
        /\ Late("wait") => ~Late("wait")'
        /\ Late("polled") => ~Late("polled")'
        /\ At("kill") => ~At("kill")'
        /\ At("late stdout") => ~At("late stdout")'
        /\ At("late stderr") => ~At("late stderr")'
        /\ At("join stdout") => ~At("join stdout")'
        /\ At("join stderr") => ~At("join stderr")'
        /\ At("copy") => ~At("copy")'
        /\ At("judge") => ~At("judge")'
        /\ At("clean") => ~At("clean")'
  BY ParentLeaves DEF At, Late
<1>6. Expire => expired'
  BY DEF Expire
<1>7. GuardsSuffice =>
        /\ (At("wait") \/ At("polled")) /\ ~expired => ENABLED <<Expire>>_vars
        /\ \/ At("start") \/ Late("wait") \/ Late("polled") \/ At("kill")
           \/ At("late stdout") \/ At("late stderr") \/ At("join stdout") \/ At("join stderr")
           \/ At("copy") \/ At("judge") \/ At("clean")
           => ENABLED <<Parent>>_vars
  BY DEF GuardsSuffice, ParentCan, At, Late
<1>8. /\ At("wait") /\ expired => Late("wait")
      /\ At("polled") /\ expired => Late("polled")
  BY DEF Late
<1> HIDE DEF I
<1>9. Runs => (At("start") ~> At("wait"))
  BY <1>4, <1>5, <1>7, PTL DEF CallMoves
<1>10. Runs => (At("wait") \/ At("polled") ~>
                  Late("wait") \/ Late("polled") \/ At("join stdout") \/ At("kill"))
  BY <1>4, <1>6, <1>7, <1>8, PTL DEF CallMoves
<1>11. Runs => (Late("wait") ~> Late("polled") \/ At("join stdout"))
  BY <1>4, <1>5, <1>7, PTL DEF CallMoves
<1>12. Runs => (Late("polled") ~> At("kill"))
  BY <1>4, <1>5, <1>7, PTL DEF CallMoves
<1>13. Runs => /\ At("kill") ~> At("late stdout")
               /\ At("late stdout") ~> At("late stderr")
               /\ At("late stderr") ~> At("clean")
  BY <1>4, <1>5, <1>7, PTL DEF CallMoves
<1>14. Runs => /\ At("join stdout") ~> At("join stderr")
               /\ At("join stderr") ~> At("copy")
               /\ At("copy") ~> At("judge")
  BY <1>4, <1>5, <1>7, PTL DEF CallMoves
<1>15. Runs => /\ At("judge") ~> At("clean")
               /\ At("clean") ~> Finished
  BY <1>4, <1>5, <1>7, PTL DEF CallMoves
<1>16. Runs => (timed /\ pc # "write" ~> Finished)
  BY <1>3, <1>9, <1>10, <1>11, <1>12, <1>13, <1>14, <1>15, PTL
<1>17. Runs /\ (pc = "write" ~> pc # "write") => (timed ~> Finished)
  <2>1. pc = "write" \/ pc # "write"
    OBVIOUS
  <2>2. QED
    BY <1>4, <1>16, <2>1, PTL
<1>18. QED
  BY <1>1, <1>2, <1>17, PTL DEF Spec, Fairness, CallEnds
=============================================================================
