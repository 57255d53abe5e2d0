------------------------------ MODULE Sandbox ------------------------------
(***************************************************************************)
(* security/sandbox.py: the parent side of one sandboxed execution, from   *)
(* the spawn of _sandbox_runner to the result or ModuleExecutionError.     *)
(*                                                                         *)
(* The parent thread writes the input, starts one drainer thread per       *)
(* output stream, waits for the child with a deadline, joins the drainers  *)
(* for a bounded time, copies their buffers without the lock and judges    *)
(* the outcome.  The child (external: the module) may write, hang, crash,  *)
(* or leave behind processes that keep its output pipes open.  Contents    *)
(* are counted, not spelled: a stream is how many bytes were written to it.*)
(***************************************************************************)
EXTENDS Integers, FiniteSets

CONSTANTS
  Cap,        \* max_output_bytes, per stream
  ChunkSize,  \* chunk_size: BufferedReader.read(n) returns n bytes, or EOF
  PipeSize,   \* capacity of an operating-system pipe
  InputSize,  \* bytes of JSON input
  MaxOutput   \* bound: what the child writes to one stream at most

ASSUME SizesAssumption ==
  /\ Cap \in Nat /\ ChunkSize \in Nat \ {0} /\ PipeSize \in Nat \ {0}
  /\ InputSize \in Nat /\ MaxOutput \in Nat

Streams == {"stdout", "stderr"}
Other(s) == IF s = "stdout" THEN "stderr" ELSE "stdout"

VARIABLES
  pc,        \* the parent thread in _sandboxed_execute and _run_streaming
  timed,     \* timeout_seconds is not 0
  expired,   \* the deadline has passed
  unsent,    \* input bytes the parent has not written
  inPipe,    \* input bytes in the child's stdin pipe
  child,     \* the child process
  rc,        \* its exit status, once dead
  doc,       \* its whole stdout is one JSON document
  wrote,     \* bytes it wrote, by stream
  pipe,      \* of those, still in the pipe
  held,      \* of those, inside a read call that has not returned
  heirs,     \* what a surviving descendant of the child keeps in use: output
             \* streams, and the temporary directory it was started in
  drainer,   \* state of each drainer thread
  buf,       \* length of stdout_buf and stderr_buf
  overflow,  \* overflow[0]
  joined,    \* drainers whose join did not time out
  snap,      \* length of the copy of stdout_buf
  outcome    \* how _sandboxed_execute ended

parentVars == <<pc, timed, joined, snap, outcome>>
childVars  == <<child, rc, doc, heirs>>
vars == <<parentVars, childVars, expired, unsent, inPipe, wrote, pipe, held,
          drainer, buf, overflow>>

Failures == {"stdout", "stderr", "exit", "non-JSON", "timeout", "cleanup"}
Finished == pc = "done"

TypeOK ==
  /\ pc \in {"write", "start", "wait", "polled", "join stdout", "join stderr",
             "copy", "judge", "kill", "late stdout", "late stderr", "clean", "done"}
  /\ timed \in BOOLEAN /\ expired \in BOOLEAN /\ doc \in BOOLEAN
  /\ unsent \in 0..InputSize /\ inPipe \in 0..PipeSize
  /\ child \in {"starting", "running", "dead"}
  /\ rc \in {0, 1, -9}
  /\ wrote \in [Streams -> 0..MaxOutput]
  /\ pipe \in [Streams -> 0..PipeSize]
  /\ held \in [Streams -> 0..ChunkSize]
  /\ heirs \subseteq Streams \union {"tmpdir"} /\ joined \subseteq Streams
  /\ drainer \in [Streams -> {"off", "reading", "storing", "over", "done"}]
  /\ buf \in [Streams -> Nat]
  /\ overflow \in Streams \union {"none"}
  /\ snap \in Nat
  /\ outcome \in Failures \union {"none", "result"}

Init ==
  /\ pc = "write" /\ timed \in BOOLEAN /\ expired = FALSE
  /\ unsent = InputSize /\ inPipe = 0
  /\ child = "starting" /\ rc = 0 /\ doc = FALSE
  /\ wrote = [s \in Streams |-> 0]
  /\ pipe = wrote /\ held = wrote /\ buf = wrote
  /\ heirs = {} /\ joined = {}
  /\ drainer = [s \in Streams |-> "off"]
  /\ overflow = "none" /\ snap = 0 /\ outcome = "none"
-----------------------------------------------------------------------------
(* The child process: _sandbox_runner and the module it runs. *)

\* sys.stdin.read(): the runner consumes its input to the end of file before
\* it imports apcore or runs anything; then descendants may inherit streams.
ReadInput ==
  /\ child = "starting"
  /\ IF inPipe > 0
       THEN inPipe' = 0 /\ UNCHANGED <<child, heirs>>
       ELSE /\ pc # "write"
            /\ child' = "running"
            /\ heirs' \in SUBSET (Streams \union {"tmpdir"})
            /\ UNCHANGED inPipe
  /\ UNCHANGED <<parentVars, rc, doc, expired, unsent, wrote, pipe, held,
                 drainer, buf, overflow>>

Write(s) ==
  /\ child = "running" /\ pipe[s] < PipeSize /\ wrote[s] < MaxOutput
  /\ pipe' = [pipe EXCEPT ![s] = @ + 1]
  /\ wrote' = [wrote EXCEPT ![s] = @ + 1]
  /\ UNCHANGED <<parentVars, childVars, expired, unsent, inPipe, held,
                 drainer, buf, overflow>>

\* The runner dies before it has read its input: a broken installation.
Crash ==
  /\ child = "starting"
  /\ child' = "dead" /\ rc' = 1
  /\ UNCHANGED <<parentVars, doc, heirs, expired, unsent, inPipe, wrote, pipe,
                 held, drainer, buf, overflow>>

\* It ends with status 0 after json.dump, which is all of stdout unless the
\* module printed there itself, or with a traceback and status 1.
Exit ==
  /\ child = "running"
  /\ child' = "dead"
  /\ \/ rc' = 0 /\ wrote["stdout"] > 0 /\ doc' \in BOOLEAN
     \/ rc' = 1 /\ UNCHANGED doc
  /\ UNCHANGED <<parentVars, heirs, expired, unsent, inPipe, wrote, pipe, held,
                 drainer, buf, overflow>>

\* proc.kill(): nothing when the child is already dead.
Kill == /\ child' = "dead"
        /\ rc' = IF child = "dead" THEN rc ELSE -9
        /\ UNCHANGED <<doc, heirs>>
-----------------------------------------------------------------------------
(* The drainer threads. *)

EndOfFile(s) == child = "dead" /\ s \notin heirs /\ pipe[s] = 0

\* Mutant of Fill: read() instead of read(chunk_size).
FillAll(s) ==
  /\ drainer[s] = "reading" /\ pipe[s] > 0
  /\ held' = [held EXCEPT ![s] = @ + pipe[s]]
  /\ pipe' = [pipe EXCEPT ![s] = 0]
  /\ UNCHANGED <<parentVars, childVars, expired, unsent, inPipe, wrote, drainer,
                 buf, overflow>>

\* stream.read(chunk_size) takes what is in the pipe and goes on blocking.
Fill(s) ==
  /\ drainer[s] = "reading" /\ pipe[s] > 0 /\ held[s] < ChunkSize
  /\ LET room == ChunkSize - held[s]
         n    == IF pipe[s] < room THEN pipe[s] ELSE room
     IN  /\ held' = [held EXCEPT ![s] = @ + n]
         /\ pipe' = [pipe EXCEPT ![s] = @ - n]
  /\ UNCHANGED <<parentVars, childVars, expired, unsent, inPipe, wrote, drainer,
                 buf, overflow>>

\* The read returns: a full chunk, or what is left at the end of file.
ReadReturns(s) ==
  /\ drainer[s] = "reading"
  /\ held[s] = ChunkSize \/ EndOfFile(s)
  /\ drainer' = [drainer EXCEPT ![s] = IF held[s] = 0 THEN "done" ELSE "storing"]
  /\ UNCHANGED <<parentVars, childVars, expired, unsent, inPipe, wrote, pipe,
                 held, buf, overflow>>

\* Mutants of TooLong: the cap itself refused; one budget for both streams.
TooLongInclusive(b, s) == b[s] >= Cap
TooLongTogether(b, s) == b["stdout"] + b["stderr"] > Cap
TooLong(b, s) == b[s] > Cap

\* Once a stream has overflowed a drainer keeps reading but stores no more
\* than Cap + 1 bytes: max(0, cap + 1 - len(buf)).
Kept(s) ==
  CASE overflow = "none" \/ buf[s] + held[s] <= Cap + 1 -> held[s]
    [] overflow # "none" /\ buf[s] > Cap -> 0
    [] OTHER -> Cap + 1 - buf[s]

\* The first half of the critical section.  The lock excludes the other
\* drainer until overflow[0] is set; it does not exclude the parent.
Store(s) ==
  /\ drainer[s] = "storing" /\ drainer[Other(s)] # "over"
  /\ buf' = [buf EXCEPT ![s] = @ + Kept(s)]
  /\ held' = [held EXCEPT ![s] = 0]
  /\ drainer' = [drainer EXCEPT ![s] =
                   IF overflow = "none" /\ TooLong(buf', s) THEN "over"
                                                            ELSE "reading"]
  /\ UNCHANGED <<parentVars, childVars, expired, unsent, inPipe, wrote, pipe,
                 overflow>>

\* The second half: name the stream and kill the child.
Flag(s) ==
  /\ drainer[s] = "over"
  /\ overflow' = s
  /\ Kill
  /\ drainer' = [drainer EXCEPT ![s] = "reading"]
  /\ UNCHANGED <<parentVars, expired, unsent, inPipe, wrote, pipe, held, buf>>

Drain(s) == Fill(s) \/ ReadReturns(s) \/ Store(s) \/ Flag(s)
-----------------------------------------------------------------------------
(* The parent thread. *)

\* proc.stdin.write and close.  BrokenPipeError is ignored: the child is gone.
WriteInput ==
  /\ pc = "write"
  /\ \/ /\ child # "dead" /\ unsent > 0 /\ inPipe < PipeSize
        /\ unsent' = unsent - 1 /\ inPipe' = inPipe + 1
        /\ UNCHANGED pc
     \/ /\ child = "dead" \/ unsent = 0
        /\ pc' = "start"
        /\ UNCHANGED <<unsent, inPipe>>
  /\ UNCHANGED <<timed, joined, snap, outcome, childVars, expired, wrote, pipe,
                 held, drainer, buf, overflow>>

\* Mutant of StartDrainers: stderr is left for after the wait.
StartOneDrainer ==
  /\ pc = "start"
  /\ drainer' = [drainer EXCEPT !["stdout"] = "reading"]
  /\ pc' = "wait"
  /\ UNCHANGED <<timed, joined, snap, outcome, childVars, expired, unsent,
                 inPipe, wrote, pipe, held, buf, overflow>>

StartDrainers ==
  /\ pc = "start"
  /\ drainer' = [s \in Streams |-> "reading"]
  /\ pc' = "wait"
  /\ UNCHANGED <<timed, joined, snap, outcome, childVars, expired, unsent,
                 inPipe, wrote, pipe, held, buf, overflow>>

\* Time passes: the deadline runs from the start of the drainers on.
Expire ==
  /\ timed /\ ~expired /\ pc \in {"wait", "polled"}
  /\ expired' = TRUE
  /\ UNCHANGED <<parentVars, childVars, unsent, inPipe, wrote, pipe, held,
                 drainer, buf, overflow>>

\* proc.wait(timeout): look at the child, then at the clock.
Poll ==
  /\ pc \in {"wait", "polled"}
  /\ pc' = CASE pc = "wait" /\ child = "dead" -> "join stdout"
             [] pc = "wait" /\ child # "dead" -> "polled"
             [] pc = "polled" /\ expired      -> "kill"
             [] OTHER                         -> "wait"
  /\ UNCHANGED <<timed, joined, snap, outcome, childVars, expired, unsent,
                 inPipe, wrote, pipe, held, drainer, buf, overflow>>

KillLate ==
  /\ pc = "kill"
  /\ Kill
  /\ pc' = "late stdout"
  /\ UNCHANGED <<timed, joined, snap, outcome, expired, unsent, inPipe, wrote,
                 pipe, held, drainer, buf, overflow>>

\* Mutant of Join: join() without a timeout.
JoinForever(s, here, next) ==
  /\ pc = here /\ drainer[s] = "done"
  /\ pc' = next
  /\ joined' = joined \union {s}
  /\ UNCHANGED <<timed, snap, outcome, childVars, expired, unsent, inPipe,
                 wrote, pipe, held, drainer, buf, overflow>>

\* thread.join(timeout=1.0): done, or not done in time.
Join(s, here, next) ==
  /\ pc = here
  /\ pc' = next
  /\ joined' = IF drainer[s] = "done" THEN joined \union {s} ELSE joined
  /\ UNCHANGED <<timed, snap, outcome, childVars, expired, unsent, inPipe,
                 wrote, pipe, held, drainer, buf, overflow>>

JoinDrainers ==
  \/ Join("stdout", "join stdout", "join stderr")
  \/ Join("stderr", "join stderr", "copy")
  \/ Join("stdout", "late stdout", "late stderr")

\* bytes(stdout_buf), without the lock.
Copy ==
  /\ pc = "copy"
  /\ snap' = buf["stdout"]
  /\ pc' = "judge"
  /\ UNCHANGED <<timed, joined, outcome, childVars, expired, unsent, inPipe,
                 wrote, pipe, held, drainer, buf, overflow>>

\* A prefix of the document (an object) does not parse.
Parses == doc /\ snap = wrote["stdout"]

\* Mutant of Verdict: the JSON is believed before overflow is looked at.
VerdictParsesFirst ==
  CASE Parses /\ rc = 0 -> "result"
    [] ~(Parses /\ rc = 0) /\ overflow # "none" -> overflow
    [] ~(Parses /\ rc = 0) /\ overflow = "none" /\ rc # 0 -> "exit"
    [] OTHER -> "non-JSON"

Verdict ==
  CASE overflow # "none"                         -> overflow
    [] overflow = "none" /\ rc # 0               -> "exit"
    [] overflow = "none" /\ rc = 0 /\ ~Parses    -> "non-JSON"
    [] OTHER                                     -> "result"

\* overflow[0] is read, also without the lock, and the outcome decided; or the
\* second join after a timeout ends and the timeout is raised.
Judge ==
  /\ \/ pc = "judge" /\ outcome' = Verdict /\ UNCHANGED joined
     \/ /\ pc = "late stderr" /\ outcome' = "timeout"
        /\ joined' = IF drainer["stderr"] = "done" THEN joined \union {"stderr"}
                                                   ELSE joined
  /\ pc' = "clean"
  /\ UNCHANGED <<timed, snap, childVars, expired, unsent, inPipe, wrote, pipe,
                 held, drainer, buf, overflow>>

\* The end of TemporaryDirectory's with block.  A descendant that puts a file
\* there meanwhile makes the removal raise, in place of whatever the outcome
\* was.
Clean ==
  /\ pc = "clean"
  /\ pc' = "done"
  /\ \/ UNCHANGED outcome
     \/ "tmpdir" \in heirs /\ outcome' = "cleanup"
  /\ UNCHANGED <<timed, joined, snap, childVars, expired, unsent, inPipe, wrote,
                 pipe, held, drainer, buf, overflow>>

Parent == \/ WriteInput \/ StartDrainers \/ Poll \/ KillLate \/ JoinDrainers
          \/ Copy \/ Judge \/ Clean

Child == ReadInput \/ Crash \/ Exit \/ \E s \in Streams : Write(s)

Next == Parent \/ Child \/ Expire \/ \E s \in Streams : Drain(s)

\* The parent, the drainers, the clock and the runner's own reading of its
\* input go on; the module may hang at any point.
DrainerGoesOn(s) == WF_vars(Drain(s))
Fairness ==
  /\ WF_vars(Parent) /\ WF_vars(Expire) /\ WF_vars(ReadInput)
  /\ \A s \in Streams : DrainerGoesOn(s)

Spec == Init /\ [][Next]_vars /\ Fairness
-----------------------------------------------------------------------------
(* Properties. *)

\* A result is the module's whole document, from a child that ended by itself
\* with status 0, even though buffers and flag are copied without the lock;
\* when both drainers were joined it also respects both caps.
ResultIsSound ==
  outcome = "result" =>
     /\ rc = 0 /\ doc
     /\ snap = wrote["stdout"]
     /\ joined = Streams => \A s \in Streams : wrote[s] <= Cap

\* Conversely a child that ended with status 0 and a document, within both
\* caps and before the deadline, is not failed by the machinery around it,
\* provided the drainers were joined in time and nothing that outlives the
\* child works in the temporary directory.
HealthyRunReturns ==
  (/\ Finished /\ rc = 0 /\ child = "dead" /\ doc /\ joined = Streams
   /\ \A s \in Streams : wrote[s] <= Cap
   /\ outcome # "timeout" /\ "tmpdir" \notin heirs) => outcome = "result"

\* Two streams overflowing at once: the one named in the error did exceed the
\* cap, and memory stays bounded: the one that overflowed first holds at most
\* one chunk over the cap, the other at most one byte over it.
OverflowNamesCulprit ==
  /\ outcome \in Streams => wrote[outcome] > Cap
  /\ \A s \in Streams :
       /\ buf[s] <= Cap + ChunkSize
       /\ (buf[s] > Cap + 1 /\ overflow # "none") => overflow = s

\* With a timeout the call ends, whatever the module or its descendants do.
CallEnds == timed ~> Finished

\* A module blocked on a full pipe gets room or is killed, timeout or not.
OutputDrained ==
  \A s \in Streams :
     (child = "running" /\ pipe[s] = PipeSize)
        ~> (child = "dead" \/ pipe[s] < PipeSize)
=============================================================================
