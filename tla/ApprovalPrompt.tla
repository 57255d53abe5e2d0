--------------------------- MODULE ApprovalPrompt ---------------------------
(***************************************************************************)
(* approval.py: the terminal prompt with a timeout, and the module body    *)
(* that runs after it in the same process.                                 *)
(*                                                                         *)
(* On Unix the timeout is SIGALRM, whose Python handler raises             *)
(* ApprovalTimeoutError in the main thread, between two bytecodes or out   *)
(* of a blocking read.  On Windows it is a threading.Timer that plants an  *)
(* asynchronous exception, raised between two bytecodes but never out of a *)
(* blocking read.  `pending` is either one, on its way to the main thread. *)
(***************************************************************************)
EXTENDS Integers

CONSTANT Timeouts \* values of --approval-timeout considered

ASSUME TimeoutsAssumption == Timeouts \subseteq Int

VARIABLES
  platform,  \* sys.platform
  timeout,   \* the requested timeout, in seconds
  pc,        \* the main thread
  reply,     \* what the user did at the prompt
  fate,      \* how the prompt ends: the answer, or the exception under way
  clock,     \* the alarm or timer; "committed": past Timer's last check
  pending,   \* a timeout exception waits for the main thread
  handler,   \* who handles SIGALRM: the prompt or the host program
  body       \* the module behind the prompt

vars == <<platform, timeout, pc, reply, fate, clock, pending, handler, body>>

TypeOK ==
  /\ platform \in {"unix", "win32"}
  /\ timeout \in Timeouts
  /\ pc \in {"install", "arm", "confirm", "answered", "caught", "disarm",
             "restore", "returned", "body", "ended"}
  /\ reply \in {"none", "yes", "no", "enter", "break"}
  /\ fate \in {"none", "yes", "no", "timeout", "abort"}
  /\ clock \in {"off", "running", "committed"}
  /\ pending \in BOOLEAN
  /\ handler \in {"host", "prompt"}
  /\ body \in {"no", "running", "finished", "cut"}

Init ==
  /\ platform \in {"unix", "win32"} /\ timeout \in Timeouts
  /\ pc = IF platform = "unix" THEN "install" ELSE "arm"
  /\ reply = "none" /\ fate = "none"
  /\ clock = "off" /\ pending = FALSE /\ handler = "host"
  /\ body = "no"
-----------------------------------------------------------------------------
\* Mutant of Clamped: the value is taken as it comes, and alarm(0) arms nothing.
ClampedNot(t) == t

\* max(1, min(timeout, 3600))
Clamped(t) == IF t < 1 THEN 1 ELSE IF t > 3600 THEN 3600 ELSE t

\* signal.signal(SIGALRM, _timeout_handler)
Install ==
  /\ pc = "install"
  /\ handler' = "prompt"
  /\ pc' = "arm"
  /\ UNCHANGED <<platform, timeout, reply, fate, clock, pending, body>>

\* signal.alarm(timeout), or timer.start()
Arm ==
  /\ pc = "arm"
  /\ clock' = IF Clamped(timeout) > 0 THEN "running" ELSE "off"
  /\ pc' = "confirm"
  /\ UNCHANGED <<platform, timeout, reply, fate, pending, handler, body>>

\* Mutant of Answered: end of input without an Abort.
AnsweredNothing(r) == CASE r = "yes" -> "yes" [] r = "no" -> "no"
                           [] r = "enter" -> "no" [] r = "break" -> "null"

\* click.confirm(default=False): Enter declines, Ctrl-C and end of file abort.
Answered(r) == CASE r = "yes" -> "yes" [] r = "no" -> "no"
                 [] r = "enter" -> "no" [] r = "break" -> "abort"

\* The user replies.  Abort leaves _prompt_windows past its timer.cancel().
Reply ==
  /\ pc = "confirm"
  /\ \E r \in {"yes", "no", "enter", "break"} :
       /\ reply' = r
       /\ fate' = Answered(r)
       /\ pc' = CASE r # "break"                      -> "answered"
                  [] r = "break" /\ platform = "unix" -> "disarm"
                  [] OTHER                            -> "ended"
  /\ UNCHANGED <<platform, timeout, clock, pending, handler, body>>

\* The alarm rings.  The timer thread first makes sure it was not cancelled.
Ring ==
  \/ /\ clock = "running"
     /\ IF platform = "unix"
          THEN clock' = "off" /\ pending' = TRUE
          ELSE clock' = "committed" /\ UNCHANGED pending
     /\ UNCHANGED <<platform, timeout, pc, reply, fate, handler, body>>
  \/ /\ clock = "committed"
     /\ clock' = "off" /\ pending' = TRUE
     /\ UNCHANGED <<platform, timeout, pc, reply, fate, handler, body>>

Interruptible == IF platform = "unix" THEN pc # "ended"
                                      ELSE pc \notin {"confirm", "ended"}

\* The exception surfaces in the main thread.  Under the host's SIGALRM
\* handler (by default the process dies) whatever runs is cut.  In the try
\* block it reaches the except clause, anywhere else it leaves the prompt, a
\* finally clause under way included.
Surface ==
  /\ pending /\ Interruptible
  /\ pending' = FALSE
  /\ fate' = "timeout"
  /\ pc' = CASE pc \in {"confirm", "answered"}           -> "caught"
             [] pc = "disarm" /\ platform = "win32"      -> "caught"
             [] OTHER                                    -> "ended"
  /\ body' = IF body = "running" THEN "cut" ELSE body
  /\ UNCHANGED <<platform, timeout, reply, clock, handler>>

\* Out of the try block: the answer is in, or the except clause has logged.
LeaveTry ==
  /\ pc \in {"answered", "caught"}
  /\ pc' = "disarm"
  /\ UNCHANGED <<platform, timeout, reply, fate, clock, pending, handler, body>>

\* Mutant of Disarm: the alarm is left running.
DisarmNothing ==
  /\ pc = "disarm"
  /\ pc' = IF platform = "unix" THEN "restore" ELSE "returned"
  /\ UNCHANGED <<platform, timeout, reply, fate, clock, pending, handler, body>>

\* signal.alarm(0), or timer.cancel(), too late for a committed timer.
Disarm ==
  /\ pc = "disarm"
  /\ clock' = IF clock = "running" THEN "off" ELSE clock
  /\ pc' = IF platform = "unix" THEN "restore" ELSE "returned"
  /\ UNCHANGED <<platform, timeout, reply, fate, pending, handler, body>>

\* Mutant of Restore: the old handler is not put back.
RestoreNothing ==
  /\ pc = "restore" /\ ~pending
  /\ pc' = "returned"
  /\ UNCHANGED <<platform, timeout, reply, fate, clock, pending, handler, body>>

\* signal.signal(SIGALRM, old_handler) runs waiting handlers before it.
Restore ==
  /\ pc = "restore" /\ ~pending
  /\ handler' = "host"
  /\ pc' = "returned"
  /\ UNCHANGED <<platform, timeout, reply, fate, clock, pending, body>>

\* Mutant of Proceed: a timeout counts as no objection.
ProceedUnlessRefused ==
  /\ pc = "returned"
  /\ IF fate \in {"yes", "timeout"} THEN pc' = "body" /\ body' = "running"
                                    ELSE pc' = "ended" /\ UNCHANGED body
  /\ UNCHANGED <<platform, timeout, reply, fate, clock, pending, handler>>

\* _prompt_with_timeout returns for a yes and raises otherwise.
Proceed ==
  /\ pc = "returned"
  /\ IF fate = "yes" THEN pc' = "body" /\ body' = "running"
                     ELSE pc' = "ended" /\ UNCHANGED body
  /\ UNCHANGED <<platform, timeout, reply, fate, clock, pending, handler>>

\* The module's body ends by itself.
Finish ==
  /\ pc = "body"
  /\ body' = "finished" /\ pc' = "ended"
  /\ UNCHANGED <<platform, timeout, reply, fate, clock, pending, handler>>

Prompt == Install \/ Arm \/ LeaveTry \/ Disarm \/ Restore \/ Proceed

Next == Prompt \/ Reply \/ Ring \/ Surface \/ Finish

\* The interpreter and the clock go on; the user and the module may never.
Spec == Init /\ [][Next]_vars
             /\ WF_vars(Prompt) /\ WF_vars(Ring) /\ WF_vars(Surface)
-----------------------------------------------------------------------------
(* Properties. *)

\* The body runs only after the user typed yes, and never after the prompt
\* had already timed out; and on Unix the yes is final: the prompt's timeout,
\* ringing late, does not cut an approved action off halfway.
GrantIsTheUsers ==
  /\ body # "no" => reply = "yes"
  /\ body = "running" => fate = "yes"
  /\ body = "cut" => platform = "win32"

\* A prompt that ends with an answer leaves no trace on Unix: no alarm, no
\* exception under way, the host's handler back in place.  (A timeout that
\* surfaces inside the finally clause does leave the handler behind.)
AnswerLeavesNoTrace ==
  (platform = "unix" /\ pc \in {"returned", "body"})
     => clock = "off" /\ ~pending /\ handler = "host"

\* On Unix the prompt ends by itself if the user never replies, whatever
\* timeout was asked for.
PromptEnds == platform = "unix" ~> pc \in {"body", "ended"}
-----------------------------------------------------------------------------
(* ApprovalPrompt implements Question. *)

\* The question is open until the body starts or the prompt has raised.
Asked == INSTANCE Question WITH
  threaded <- platform = "win32",
  verdict  <- IF body # "no" THEN "yes" ELSE IF pc = "ended" THEN fate ELSE "open"

\* Handlers, timers, exceptions and clauses come to one step with one outcome,
\* as the commands that prompt take it: _prompt_with_timeout.
SettledOnce == Asked!Spec
=============================================================================
