---------------------------- MODULE GovernedCall ----------------------------
(***************************************************************************)
(* What one call of the CLI promises, whatever its command, flags and      *)
(* path: it is decided, then perhaps runs, then is over, in that order and *)
(* once; it runs only on sufficient grounds; and how it ended is fixed     *)
(* together with the one record that tells it.                             *)
(***************************************************************************)
EXTENDS Integers, Sequences

CONSTANTS
  Calls,       \* the invocations
  Forbidden,   \* those that must never run
  Overridden,  \* those that run only after a warning
  NeedConsent, \* those that run only with a human's or a flag's consent
  Dry,         \* those that only ask what would happen
  Audited      \* those whose audit log is on and can be written

VARIABLES
  call,       \* the invocation
  stage,      \* "deciding", "running" or "over"
  consented,  \* somebody agreed
  warned,     \* the override was announced
  exit,       \* exit status, -1 until the call is over
  record      \* what the audit log holds once the call is over

vars == <<call, stage, consented, warned, exit, record>>

Success == <<[status |-> "success", code |-> 0]>>
Failure(code) == <<[status |-> "error", code |-> code]>>

Init ==
  /\ call \in Calls
  /\ stage = "deciding" /\ consented = FALSE /\ warned = FALSE
  /\ exit = -1 /\ record = <<>>

\* Grounds are collected while the call is being decided, and never withdrawn.
Prepare ==
  /\ stage = "deciding"
  /\ consented' \in {consented, TRUE} /\ warned' \in {warned, TRUE}
  /\ UNCHANGED <<call, stage, exit, record>>

Start ==
  /\ stage = "deciding"
  /\ call \notin Forbidden \union Dry
  /\ call \in Overridden => warned
  /\ call \in NeedConsent => consented
  /\ stage' = "running"
  /\ UNCHANGED <<call, consented, warned, exit, record>>

\* The call is over without having run: it fails, unless it was a dry one.  A
\* record, if any, tells the failure.
Refuse ==
  /\ stage = "deciding"
  /\ stage' = "over"
  /\ exit' \in Nat /\ (exit' = 0 => call \in Dry)
  /\ \/ record' = <<>>
     \/ exit' # 0 /\ call \in Audited /\ record' = Failure(exit')
  /\ UNCHANGED <<call, consented, warned>>

\* The call is over after it has run: the record, if it can be written, is
\* there and agrees with the exit status.
Finish ==
  /\ stage = "running"
  /\ stage' = "over"
  /\ exit' \in Nat
  /\ record' = IF call \notin Audited THEN <<>>
               ELSE IF exit' = 0 THEN Success ELSE Failure(exit')
  /\ UNCHANGED <<call, consented, warned>>

\* Ctrl-C ends the call at any time with a status of its own; only a call that
\* had run to its end may leave a record, that of the success it was.
Cut ==
  /\ stage # "over"
  /\ stage' = "over"
  /\ exit' \in {1, 130}
  /\ \/ record' = <<>>
     \/ stage = "running" /\ call \in Audited /\ record' = Success
  /\ UNCHANGED <<call, consented, warned>>

Next == Prepare \/ Start \/ Refuse \/ Finish \/ Cut

Spec == Init /\ [][Next]_vars
=============================================================================
