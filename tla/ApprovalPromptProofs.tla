------------------------ MODULE ApprovalPromptProofs ------------------------
(***************************************************************************)
(* Proofs of the prompt's safety properties, for every timeout.  The       *)
(* inductive invariant says what the main thread knows at each place, and  *)
(* that on Unix a call of alarm(0) leaves nothing but what is on its way.  *)
(* Behind them: that the prompt ends.                                      *)
(***************************************************************************)
EXTENDS ApprovalPrompt, TLAPS

\* Nothing is decided before the user replies or the time is up, and the body
\* runs exactly at the place that runs it.
PlaceInv ==
  /\ pc \in {"install", "arm"} => fate = "none"
  /\ fate = "yes" => reply = "yes"
  /\ pc = "body" <=> body = "running"
  /\ body # "no" => pc \in {"body", "ended"} /\ reply = "yes"
  /\ pc = "body" => fate = "yes"

\* On Unix the alarm runs only between arm and disarm, a timeout under way
\* cannot pass the restoring call, and the host's handler is back behind it.
AlarmInv ==
  platform = "unix" =>
    /\ clock # "committed"
    /\ pc = "restore" => clock = "off"
    /\ pc \in {"returned", "body"} => clock = "off" /\ ~pending /\ handler = "host"
    /\ body # "cut"

IInv == TypeOK /\ PlaceInv /\ AlarmInv
-----------------------------------------------------------------------------
\* The inductive invariant holds before the prompt is shown.
LEMMA InvInit == Init => IInv
  BY DEF Init, IInv, TypeOK, PlaceInv, AlarmInv

\* Whatever the user types is an answer or an abort, and only yes is a yes.
LEMMA AnsweredFacts ==
  ASSUME NEW r \in {"yes", "no", "enter", "break"}
  PROVE  Answered(r) \in {"yes", "no", "abort"} /\ (Answered(r) = "yes" <=> r = "yes")
  BY DEF Answered

\* Every step of the main thread, the clock and the user keeps it.
LEMMA InvStep ==
  ASSUME IInv, [Next]_vars
  PROVE  IInv'
<1>1. CASE Install
  BY <1>1 DEF IInv, TypeOK, PlaceInv, AlarmInv, Install
<1>2. CASE Arm
  BY <1>2 DEF IInv, TypeOK, PlaceInv, AlarmInv, Arm
<1>3. CASE Reply
  <2>1. PICK r \in {"yes", "no", "enter", "break"} :
          /\ reply' = r /\ fate' = Answered(r)
          /\ pc' = CASE r # "break"                      -> "answered"
                     [] r = "break" /\ platform = "unix" -> "disarm"
                     [] OTHER                            -> "ended"
    BY <1>3 DEF Reply
  <2>2. pc' \in {"answered", "disarm", "ended"}
    BY <2>1
  <2>3. QED
    BY <1>3, <2>1, <2>2, AnsweredFacts DEF IInv, TypeOK, PlaceInv, AlarmInv, Reply
<1>4. CASE Ring
  BY <1>4 DEF IInv, TypeOK, PlaceInv, AlarmInv, Ring
<1>5. CASE Surface
  <2>1. pc' \in {"caught", "ended"}
    BY <1>5 DEF Surface
  <2>2. QED
    BY <1>5, <2>1 DEF IInv, TypeOK, PlaceInv, AlarmInv, Surface
<1>6. CASE LeaveTry
  BY <1>6 DEF IInv, TypeOK, PlaceInv, AlarmInv, LeaveTry
<1>7. CASE Disarm
  BY <1>7 DEF IInv, TypeOK, PlaceInv, AlarmInv, Disarm
<1>8. CASE Restore
  BY <1>8 DEF IInv, TypeOK, PlaceInv, AlarmInv, Restore
<1>9. CASE Proceed
  BY <1>9 DEF IInv, TypeOK, PlaceInv, AlarmInv, Proceed
<1>10. CASE Finish
  BY <1>10 DEF IInv, TypeOK, PlaceInv, AlarmInv, Finish
<1>11. CASE UNCHANGED vars
  BY <1>11 DEF IInv, TypeOK, PlaceInv, AlarmInv, vars
<1>12. QED
  BY <1>1, <1>2, <1>3, <1>4, <1>5, <1>6, <1>7, <1>8, <1>9, <1>10, <1>11
  DEF Next, Prompt
-----------------------------------------------------------------------------
\* _prompt_unix and _prompt_windows, for every value of --approval-timeout: the
\* invariant of the main thread, the clock and the signal handler.
THEOREM PromptInvariant == Spec => []IInv
  BY InvInit, InvStep, PTL DEF Spec

\* Every variable of the prompt keeps its type.
THEOREM PromptTypes == Spec => []TypeOK
<1>1. IInv => TypeOK
  BY DEF IInv
<1>2. QED
  BY <1>1, PromptInvariant, PTL

\* The body runs only for a yes that came in time, and on Unix a late alarm
\* never cuts it off.
THEOREM GrantHolds == Spec => []GrantIsTheUsers
<1>1. IInv => GrantIsTheUsers
  BY DEF IInv, TypeOK, PlaceInv, AlarmInv, GrantIsTheUsers
<1>2. QED
  BY <1>1, PromptInvariant, PTL

\* A prompt on Unix that ends with an answer has disarmed the alarm and put the
\* host's SIGALRM handler back.
THEOREM NoTrace == Spec => []AnswerLeavesNoTrace
<1>1. IInv => AnswerLeavesNoTrace
  BY DEF IInv, AlarmInv, AnswerLeavesNoTrace
<1>2. QED
  BY <1>1, PromptInvariant, PTL
-----------------------------------------------------------------------------
(* What the prompt's end rests on, with no fairness at all: somebody can     *)
(* always move, and every move brings the end nearer.                        *)

\* The main thread can take its next step without anybody's help: the user's,
\* the clock's, or the waiting exception's that the restoring call lets in first.
PromptCan ==
  \/ pc \in {"install", "arm", "answered", "caught", "disarm", "returned"}
  \/ pc = "restore" /\ ~pending

\* Before the body, the main thread waits for nothing but the user or an
\* exception that can surface where it waits; and on Unix it never waits for
\* the user alone: the alarm runs or has rung, whatever timeout was asked for.
PromptCanGoOn ==
  /\ \/ PromptCan
     \/ pending /\ Interruptible
     \/ pc \in {"confirm", "body", "ended"}
  /\ platform = "unix" /\ pc = "confirm" => clock = "running" \/ pending

\* What the clock may still do, and how far the main thread is from the end.
ToRing ==
  IF pc \in {"install", "arm"} THEN 4
  ELSE IF clock = "running" THEN 3
  ELSE IF clock = "committed" THEN 2
  ELSE IF pending THEN 1
  ELSE 0
ToEnd ==
  IF pc = "install" THEN 8
  ELSE IF pc = "arm" THEN 7
  ELSE IF pc = "confirm" THEN 6
  ELSE IF pc \in {"answered", "caught"} THEN 5
  ELSE IF pc = "disarm" THEN 4
  ELSE IF pc = "restore" THEN 3
  ELSE IF pc = "returned" THEN 2
  ELSE IF pc = "body" THEN 1
  ELSE 0

\* Whoever moves, the clock comes nearer to silence or, at no cost there, the
\* main thread to the end: even where a timer's exception sends it back from
\* timer.cancel() to the except clause.
EndComes ==
  \/ ToRing' < ToRing
  \/ ToRing' = ToRing /\ ToEnd' < ToEnd

\* The exception is not on its way while the clock still runs, neither exists
\* before the clock is set, on Unix the user is waited for under an alarm, and
\* nothing is restored on Windows.
WaitInv ==
  /\ pending => clock = "off"
  /\ pc \in {"install", "arm"} => clock = "off" /\ ~pending
  /\ platform = "unix" /\ pc = "confirm" => clock = "running" \/ pending
  /\ pc = "restore" => platform = "unix"

\* max(1, ...) arms the alarm for every timeout.
LEMMA ClampedIsPositive ==
  ASSUME NEW t \in Int
  PROVE  Clamped(t) > 0 /\ Clamped(t) <= 3600
  BY DEF Clamped

\* Every step keeps the waiting invariant.
LEMMA WaitStep ==
  ASSUME IInv, WaitInv, [Next]_vars
  PROVE  WaitInv'
<1>1. CASE Arm
  <2>1. timeout \in Int
    BY TimeoutsAssumption DEF IInv, TypeOK
  <2>2. Clamped(timeout) > 0
    BY <2>1, ClampedIsPositive
  <2>3. QED
    BY <1>1, <2>2 DEF WaitInv, Arm
<1>2. CASE Reply
  <2>1. pc' \in {"answered", "disarm", "ended"} /\ clock' = clock /\ pending' = pending
    BY <1>2 DEF Reply
  <2>2. QED
    BY <1>2, <2>1 DEF WaitInv
<1>3. CASE Surface
  <2>1. pc' \in {"caught", "ended"} /\ ~pending'
    BY <1>3 DEF Surface
  <2>2. QED
    BY <2>1 DEF WaitInv
<1>4. CASE Ring
  BY <1>4 DEF IInv, TypeOK, WaitInv, Ring
<1>5. CASE Install \/ LeaveTry \/ Disarm \/ Restore \/ Proceed \/ Finish
  BY <1>5 DEF IInv, TypeOK, WaitInv, Install, LeaveTry, Disarm, Restore, Proceed, Finish
<1>6. CASE UNCHANGED vars
  BY <1>6 DEF WaitInv, vars
<1>7. QED
  BY <1>1, <1>2, <1>3, <1>4, <1>5, <1>6 DEF Next, Prompt

\* Both invariants, together.
LEMMA WaitInvariant == Spec => [](IInv /\ WaitInv)
<1>1. Init => IInv /\ WaitInv
  BY InvInit DEF Init, WaitInv
<1>2. IInv /\ WaitInv /\ [Next]_vars => (IInv /\ WaitInv)'
  BY InvStep, WaitStep
<1>3. QED
  BY <1>1, <1>2, PTL DEF Spec

\* The prompt waits for nobody but the user and the clock, and on Unix the
\* clock is there whenever the user is waited for.
THEOREM PromptNeverStuck == Spec => []PromptCanGoOn
<1>1. IInv /\ WaitInv => PromptCanGoOn
  BY DEF IInv, TypeOK, WaitInv, PromptCanGoOn, PromptCan, Interruptible
<1>2. QED
  BY <1>1, WaitInvariant, PTL

\* The prompt takes finitely many steps, on both platforms: no exception and
\* no clause sends it round for ever.
THEOREM PromptIsFinite == Spec => [][EndComes]_vars
<1>1. ASSUME IInv, WaitInv, Next
      PROVE  EndComes
  <2>1. CASE Install \/ Arm \/ LeaveTry \/ Disarm \/ Restore
    BY <1>1, <2>1 DEF IInv, TypeOK, WaitInv, EndComes, ToRing, ToEnd,
                      Install, Arm, LeaveTry, Disarm, Restore
  <2>2. CASE Proceed \/ Finish
    BY <1>1, <2>2 DEF IInv, TypeOK, EndComes, ToRing, ToEnd, Proceed, Finish
  <2>3. CASE Reply
    <3>1. pc = "confirm" /\ pc' \in {"answered", "disarm", "ended"}
          /\ clock' = clock /\ pending' = pending
      BY <2>3 DEF Reply
    <3>2. QED
      BY <3>1 DEF EndComes, ToRing, ToEnd
  <2>4. CASE Ring
    BY <1>1, <2>4 DEF IInv, TypeOK, WaitInv, EndComes, ToRing, ToEnd, Ring
  <2>5. CASE Surface
    <3>1. pc' \in {"caught", "ended"} /\ pending /\ ~pending' /\ clock' = clock
      BY <2>5 DEF Surface
    <3>2. ToRing = 1 /\ ToRing' = 0
      BY <1>1, <3>1 DEF WaitInv, ToRing
    <3>3. QED
      BY <3>2 DEF EndComes
  <2>6. QED
    BY <1>1, <2>1, <2>2, <2>3, <2>4, <2>5 DEF Next, Prompt
<1>2. IInv /\ WaitInv /\ [Next]_vars => [EndComes]_vars
  BY <1>1
<1>3. QED
  BY <1>2, WaitInvariant, PTL DEF Spec
-----------------------------------------------------------------------------
(* PromptEnds itself.  The provers do not compute ENABLED, so the theorems     *)
(* take GuardsSuffice as their hypothesis: that an action whose guard holds    *)
(* can be taken.  It is valid, as reading the actions shows, which give every  *)
(* primed variable its value; it says nothing of what the prompt does.         *)

GuardsSuffice ==
  /\ PromptCan => ENABLED <<Prompt>>_vars
  /\ clock \in {"running", "committed"} => ENABLED <<Ring>>_vars
  /\ pending /\ Interruptible => ENABLED <<Surface>>_vars

\* The main thread is at a place; it has its answer or its timeout; the body
\* has started or the prompt has ended; the clock is silent for good.
At(place) == pc = place
Settled == pc \notin {"install", "arm", "confirm"}
Over == pc \in {"body", "ended"}
Quiet == clock = "off" /\ ~pending

\* Where a step can lead from each place, whoever takes it: on, to the end, or
\* round again to the except clause, which no second exception can follow.
Moves ==
  /\ platform' = platform
  /\ At("install") => At("install")' \/ At("arm")'
  /\ At("arm") => At("arm")' \/ At("confirm")'
  /\ At("confirm") =>
       At("confirm")' \/ At("answered")' \/ At("caught")' \/ At("disarm")' \/ Over'
  /\ At("answered") => At("answered")' \/ At("caught")' \/ At("disarm")'
  /\ At("caught") => At("caught")' \/ At("disarm")' \/ Over'
  /\ At("disarm") =>
       \/ At("disarm")' \/ At("restore")' \/ At("returned")' \/ Over'
       \/ At("caught")' /\ Quiet' /\ ~Quiet
  /\ At("restore") => At("restore")' \/ At("returned")' \/ Over'
  /\ At("returned") => At("returned")' \/ Over'
  /\ (At("caught") \/ At("disarm")) /\ Quiet => Quiet'
  /\ At("confirm") /\ pending => ~At("confirm")' \/ pending'
  /\ At("restore") /\ pending => ~At("restore")' \/ pending'
  /\ At("restore") /\ ~pending => ~At("restore")' \/ ~pending'

\* Every step keeps to that table.
LEMMA StepsMove ==
  ASSUME IInv, WaitInv, [Next]_vars
  PROVE  Moves
<1>1. CASE Prompt
  BY <1>1 DEF IInv, TypeOK, Moves, At, Over, Quiet, Prompt, Install, Arm, LeaveTry, Disarm, Restore,
              Proceed
<1>2. CASE Ring
  BY <1>2 DEF IInv, TypeOK, AlarmInv, WaitInv, Moves, At, Quiet, Ring
<1>3. CASE Reply
  <2>1. pc = "confirm" /\ platform' = platform /\ pc' \in {"answered", "disarm", "ended"}
    BY <1>3 DEF Reply
  <2>2. QED
    BY <2>1 DEF Moves, At, Over
<1>4. CASE Surface
  <2>1. pending /\ ~pending' /\ clock' = clock /\ platform' = platform
    BY <1>4 DEF Surface
  <2>2. pc \notin {"install", "arm"} /\ Quiet' /\ ~Quiet
    BY <2>1 DEF WaitInv, Quiet
  <2>3. \/ pc \in {"confirm", "answered"} /\ pc' = "caught"
        \/ pc = "disarm" /\ pc' \in {"caught", "ended"}
        \/ pc \notin {"confirm", "answered", "disarm"} /\ pc' = "ended"
    BY <1>4 DEF Surface
  <2>4. QED
    BY <2>1, <2>2, <2>3 DEF Moves, At, Over
<1>5. CASE Finish \/ UNCHANGED vars
  BY <1>5 DEF Moves, At, Over, Quiet, Finish, vars
<1>6. QED
  BY <1>1, <1>2, <1>3, <1>4, <1>5 DEF Next

\* A step of the main thread, and the exception's where it is waited for, leave
\* the place they are taken at; the alarm's puts the exception on its way.
LEMMA FairStepsLeave ==
  /\ Prompt =>
       /\ At("install") => ~At("install")'
       /\ At("arm") => ~At("arm")'
       /\ At("answered") => ~At("answered")'
       /\ At("caught") => ~At("caught")'
       /\ At("disarm") => ~At("disarm")'
       /\ At("restore") => ~At("restore")'
       /\ At("returned") => ~At("returned")'
  /\ Surface => (At("confirm") => ~At("confirm")') /\ (At("restore") => ~At("restore")')
  /\ IInv /\ platform = "unix" /\ Ring => pending'
<1>1. Prompt =>
        /\ At("install") => ~At("install")'
        /\ At("arm") => ~At("arm")'
        /\ At("answered") => ~At("answered")'
        /\ At("caught") => ~At("caught")'
        /\ At("disarm") => ~At("disarm")'
        /\ At("restore") => ~At("restore")'
        /\ At("returned") => ~At("returned")'
  BY DEF Prompt, Install, Arm, LeaveTry, Disarm, Restore, Proceed, At
<1>2. Surface => (At("confirm") => ~At("confirm")') /\ (At("restore") => ~At("restore")')
  BY DEF Surface, At
<1>3. IInv /\ platform = "unix" /\ Ring => pending'
  BY DEF IInv, TypeOK, AlarmInv, Ring
<1>4. QED
  BY <1>1, <1>2, <1>3

\* On both platforms: a prompt that has its answer or its timeout ends, even
\* where the exception sends it back from the finally clause.
THEOREM SettledPromptEnds == Spec /\ []GuardsSuffice => (Settled ~> Over)
<1> DEFINE I == IInv /\ WaitInv
<1> DEFINE Runs == /\ []I /\ [][Next]_vars /\ []GuardsSuffice
                   /\ WF_vars(Prompt) /\ WF_vars(Surface)
<1>1. Spec => []I
  BY WaitInvariant
<1>2. I /\ Settled => \/ At("answered") \/ At("caught") \/ At("disarm") \/ At("restore")
                      \/ At("returned") \/ Over
  BY DEF IInv, TypeOK, Settled, Over, At
<1>3. I /\ [Next]_vars => Moves
  BY StepsMove
<1>4. GuardsSuffice =>
        /\ \/ At("answered") \/ At("caught") \/ At("disarm") \/ At("returned")
           \/ (At("restore") /\ ~pending)
           => ENABLED <<Prompt>>_vars
        /\ At("restore") /\ pending /\ I => ENABLED <<Surface>>_vars
  BY DEF GuardsSuffice, PromptCan, Interruptible, WaitInv, At
<1> HIDE DEF I
<1>5. Runs => (At("returned") ~> Over)
  BY <1>3, <1>4, FairStepsLeave, PTL DEF Moves
<1>6. Runs => (At("restore") ~> At("returned") \/ Over)
  BY <1>3, <1>4, FairStepsLeave, PTL DEF Moves
<1>7. Runs => (At("disarm") ~> \/ At("restore") \/ At("returned") \/ Over
                               \/ (At("caught") /\ Quiet))
  BY <1>3, <1>4, FairStepsLeave, PTL DEF Moves
<1>8. Runs => (At("disarm") /\ Quiet ~> At("restore") \/ At("returned") \/ Over)
  BY <1>3, <1>4, FairStepsLeave, PTL DEF Moves
<1>9. Runs => (At("caught") /\ Quiet ~> (At("disarm") /\ Quiet) \/ Over)
  BY <1>3, <1>4, FairStepsLeave, PTL DEF Moves
<1>10. Runs => (At("caught") ~> At("disarm") \/ Over)
  BY <1>3, <1>4, FairStepsLeave, PTL DEF Moves
<1>11. Runs => (At("answered") ~> At("caught") \/ At("disarm"))
  BY <1>3, <1>4, FairStepsLeave, PTL DEF Moves
<1>12. Runs => (Settled ~> Over)
  BY <1>2, <1>5, <1>6, <1>7, <1>8, <1>9, <1>10, <1>11, PTL
<1>13. QED
  BY <1>1, <1>12, PTL DEF Spec

\* On Unix the prompt ends by itself, for every timeout: the alarm that is set
\* before the user is waited for rings, and its exception settles the prompt.
THEOREM PromptEndsByItself == Spec /\ []GuardsSuffice => PromptEnds
<1> DEFINE I == IInv /\ WaitInv
<1> DEFINE U == platform = "unix"
<1> DEFINE Runs == /\ []I /\ [][Next]_vars /\ []GuardsSuffice
                   /\ WF_vars(Prompt) /\ WF_vars(Ring) /\ WF_vars(Surface)
<1>1. Spec => []I
  BY WaitInvariant
<1>2. I => At("install") \/ At("arm") \/ At("confirm") \/ Settled
  BY DEF Settled, At
<1>3. I /\ [Next]_vars => Moves /\ (U => U')
  BY StepsMove DEF Moves
<1>4. I /\ GuardsSuffice =>
        /\ At("install") \/ At("arm") => ENABLED <<Prompt>>_vars
        /\ U /\ At("confirm") /\ ~pending => ENABLED <<Ring>>_vars
        /\ U /\ At("confirm") /\ pending => ENABLED <<Surface>>_vars
  BY DEF GuardsSuffice, PromptCan, Interruptible, WaitInv, At
<1>5. Over => Settled
  BY DEF Over, Settled
<1>6. At("answered") \/ At("caught") \/ At("disarm") => Settled
  BY DEF Settled, At
<1>7. I /\ U /\ Ring => pending'
  BY FairStepsLeave
<1> HIDE DEF I, U
<1>8. Runs => (U /\ At("install") ~> U /\ At("arm"))
  BY <1>3, <1>4, FairStepsLeave, PTL DEF Moves
<1>9. Runs => (U /\ At("arm") ~> U /\ At("confirm"))
  BY <1>3, <1>4, FairStepsLeave, PTL DEF Moves
<1>10. Runs => (U /\ At("confirm") /\ ~pending ~> Settled \/ (U /\ At("confirm") /\ pending))
  BY <1>3, <1>4, <1>5, <1>6, <1>7, PTL DEF Moves
<1>11. Runs => (U /\ At("confirm") /\ pending ~> Settled)
  BY <1>3, <1>4, <1>5, <1>6, FairStepsLeave, PTL DEF Moves
<1>12. Runs => (U ~> Settled)
  BY <1>2, <1>8, <1>9, <1>10, <1>11, PTL
<1>13. QED
  BY <1>1, <1>12, SettledPromptEnds, PTL DEF Spec, PromptEnds, U, Over
-----------------------------------------------------------------------------
(* The refinement of Question. *)

\* Behind the answer something is decided, and a prompt that has ended without
\* a body was not granted.
FateInv ==
  /\ pc \in {"answered", "caught", "disarm", "restore", "returned"} => fate # "none"
  /\ pc = "ended" /\ body = "no" => fate \in Asked!Refusals

\* Every step keeps the invariant of the outcome.
LEMMA FateStep ==
  ASSUME IInv, FateInv, [Next]_vars
  PROVE  FateInv'
<1>1. CASE Reply
  <2>1. PICK r \in {"yes", "no", "enter", "break"} :
          /\ fate' = Answered(r)
          /\ pc' = CASE r # "break"                      -> "answered"
                     [] r = "break" /\ platform = "unix" -> "disarm"
                     [] OTHER                            -> "ended"
    BY <1>1 DEF Reply
  <2>2. fate' # "none" /\ (pc' = "ended" => fate' = "abort")
    BY <2>1 DEF Answered
  <2>3. QED
    BY <2>2 DEF FateInv, Asked!Refusals
<1>2. CASE Surface
  BY <1>2 DEF FateInv, Asked!Refusals, Surface
<1>3. CASE Install \/ Arm \/ Ring \/ LeaveTry \/ Disarm \/ Restore
  BY <1>3 DEF IInv, TypeOK, PlaceInv, FateInv,
              Install, Arm, Ring, LeaveTry, Disarm, Restore
<1>4. CASE Proceed \/ Finish
  BY <1>4 DEF IInv, TypeOK, FateInv, Asked!Refusals, Proceed, Finish
<1>5. CASE UNCHANGED vars
  BY <1>5 DEF FateInv, vars
<1>6. QED
  BY <1>1, <1>2, <1>3, <1>4, <1>5 DEF Next, Prompt

\* A step that neither ends the prompt nor touches the body is none of the
\* question's.
LEMMA Unsettled ==
  ASSUME platform' = platform, body' = body, pc # "ended",
         pc' # "ended" \/ body # "no"
  PROVE  UNCHANGED Asked!vars
  BY DEF Asked!vars

\* Every step of the prompt is a step of the question or none at all.
LEMMA QuestionStep ==
  ASSUME IInv, FateInv, FateInv', [Next]_vars
  PROVE  [Asked!Next]_(Asked!vars)
<1>1. ASSUME pc # "ended", pc' = "ended", body = "no", UNCHANGED <<platform, body>>
      PROVE  Asked!Refuse
  BY <1>1 DEF FateInv, Asked!Refuse, Asked!Refusals
<1>2. CASE Install \/ Arm \/ LeaveTry \/ Disarm \/ Restore
  BY <1>2, Unsettled DEF Install, Arm, LeaveTry, Disarm, Restore
<1>3. CASE Ring
  BY <1>3 DEF Ring, Asked!vars
<1>4. CASE Reply
  <2>1. pc = "confirm" /\ UNCHANGED <<platform, body>>
    BY <1>4 DEF Reply
  <2>2. body = "no"
    BY <2>1 DEF IInv, PlaceInv
  <2>3. QED
    BY <1>1, <2>1, <2>2, Unsettled DEF Asked!Next
<1>5. CASE Surface
  <2>1. pc # "ended" /\ platform' = platform
        /\ body' = IF body = "running" THEN "cut" ELSE body
    BY <1>5 DEF Surface, Interruptible
  <2>2. CASE body = "running"
    <3>1. platform = "win32"
      BY <1>5, <2>2 DEF IInv, TypeOK, PlaceInv, AlarmInv, Surface
    <3>2. Asked!Cut
      BY <2>1, <2>2, <3>1 DEF Asked!Cut
    <3>3. QED
      BY <3>2 DEF Asked!Next
  <2>3. CASE body # "running"
    <3>1. body = "no" /\ body' = body
      BY <2>1, <2>3 DEF IInv, PlaceInv
    <3>2. QED
      BY <1>1, <2>1, <3>1, Unsettled DEF Asked!Next
  <2>4. QED
    BY <2>2, <2>3
<1>6. CASE Proceed
  <2>1. body = "no" /\ pc # "ended" /\ platform' = platform
    BY <1>6 DEF IInv, TypeOK, PlaceInv, Proceed
  <2>2. CASE fate = "yes"
    BY <1>6, <2>1, <2>2 DEF Proceed, Asked!Grant, Asked!Next
  <2>3. CASE fate # "yes"
    <3>1. pc' = "ended" /\ body' = body
      BY <1>6, <2>3 DEF Proceed
    <3>2. QED
      BY <1>1, <2>1, <3>1 DEF Asked!Next
  <2>4. QED
    BY <2>2, <2>3
<1>7. CASE Finish
  <2>1. body = "running" /\ body' = "finished" /\ platform' = platform
    BY <1>7 DEF IInv, PlaceInv, Finish
  <2>2. QED
    BY <2>1 DEF Asked!Complete, Asked!Next
<1>8. CASE UNCHANGED vars
  BY <1>8 DEF vars, Asked!vars
<1>9. QED
  BY <1>2, <1>3, <1>4, <1>5, <1>6, <1>7, <1>8 DEF Next, Prompt

\* The prompt, with its handlers, timers and exceptions on two platforms, is
\* one question settled once: what Dispatch's and BuiltinGroup's Answer assume.
THEOREM PromptIsOneQuestion == Spec => SettledOnce
<1>1. Init => Asked!Init
  BY DEF Init, Asked!Init
<1>2. Init => IInv /\ FateInv
  BY InvInit DEF Init, FateInv
<1>3. IInv /\ FateInv /\ [Next]_vars => (IInv /\ FateInv)'
  BY InvStep, FateStep
<1>4. IInv /\ FateInv /\ (IInv /\ FateInv)' /\ [Next]_vars => [Asked!Next]_(Asked!vars)
  BY QuestionStep
<1>5. QED
  BY <1>1, <1>2, <1>3, <1>4, PTL DEF Spec, SettledOnce, Asked!Spec
=============================================================================
