------------------------------ MODULE Question ------------------------------
(***************************************************************************)
(* What the commands take the approval prompt for: a question that is      *)
(* settled once, in one step, with one of four outcomes.  A yes starts     *)
(* the body; after it, nothing of the prompt is left but, where a timer    *)
(* thread keeps the time, a timeout that may come late.                    *)
(***************************************************************************)

VARIABLES
  threaded,  \* a timer thread keeps the time, not a signal
  verdict,   \* "open", or the outcome
  body       \* the module behind the prompt

vars == <<threaded, verdict, body>>

Refusals == {"no", "timeout", "abort"}

Init == threaded \in BOOLEAN /\ verdict = "open" /\ body = "no"

Grant ==
  /\ verdict = "open"
  /\ verdict' = "yes" /\ body' = "running"
  /\ UNCHANGED threaded

Refuse ==
  /\ verdict = "open"
  /\ verdict' \in Refusals
  /\ UNCHANGED <<threaded, body>>

Complete ==
  /\ body = "running"
  /\ body' = "finished"
  /\ UNCHANGED <<threaded, verdict>>

\* The timeout comes late and cuts the body off.
Cut ==
  /\ threaded /\ body = "running"
  /\ body' = "cut"
  /\ UNCHANGED <<threaded, verdict>>

Next == Grant \/ Refuse \/ Complete \/ Cut

Spec == Init /\ [][Next]_vars
=============================================================================
