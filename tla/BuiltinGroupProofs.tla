------------------------ MODULE BuiltinGroupProofs ------------------------
(***************************************************************************)
(* Proofs of the built-in group's properties, for every set of CLIs and    *)
(* command lines.  The invariant says what create_cli left behind, how far *)
(* the consent, the effect and the audit records of a system command have  *)
(* come at each place of it, and what a consent has to rest on.            *)
(***************************************************************************)
EXTENDS BuiltinGroup, TLAPS

Entry(status, code) == [status |-> status, code |-> code]
Idle     == {"make", "stopped", "ready"}
Before   == {"approve", "prompt", "call", "gatePrompt", "body"}
Underway == Before \union {"record", "print", "caught"}

\* Past create_cli the group is what the settings in front of it make it.
CliInv ==
  /\ setup \in Setups
  /\ pc \notin {"make", "stopped"} => ~Fails(setup) /\ SameCli(setup)

\* Only a control command is gated and recorded, and only one that was found.
RequestInv ==
  /\ pc \in (Before \ {"body"}) \union {"record"} => Controls(req.cmd)
  /\ pc \in Underway => NameOf(req.cmd) \in commands
  /\ applied => Controls(req.cmd)

\* The effect comes before its record, the record before the output.
EffectInv ==
  /\ pc \in Idle => ~applied /\ consent = "none"
  /\ pc \in Before => ~applied
  /\ pc = "record" => applied
  /\ pc = "print" => (applied <=> Controls(req.cmd))
  /\ pc = "caught" => error \notin {"none", "Interrupt"} /\ (applied => error = "Other")

RecordInv ==
  /\ pc \in Idle \union Before \union {"record"} => records = <<>>
  /\ pc \in {"print", "caught"} =>
       records = IF applied /\ setup.logger THEN <<Entry("success", 0)>> ELSE <<>>
  /\ pc \in Underway => exit = 0

\* What has been asked by the time the gates, or the module, are reached.
ConsentInv ==
  /\ (pc \in {"call", "gatePrompt", "body"} /\ Controls(req.cmd) /\ setup.requires
       /\ Defined(setup)) => consent # "none"
  /\ (pc = "body" /\ Controls(req.cmd) /\ setup.requires /\ setup.wired) =>
       consent = "human" \/ (consent = "flag" /\ req.auto)

IInv ==
  /\ TypeOK /\ CliInv /\ RequestInv /\ EffectInv /\ RecordInv /\ ConsentInv
  /\ ControlNeedsConsent /\ AppliedIffRecorded
-----------------------------------------------------------------------------
(* Facts about the operators of the model. *)

\* The fields of a setup and of a request that guards read are Booleans.
LEMMA Fields ==
  ASSUME TypeOK
  PROVE  /\ req \in RequestSpace
         /\ req.yes \in BOOLEAN /\ req.auto \in BOOLEAN /\ req.tty \in BOOLEAN
         /\ setup.requires \in BOOLEAN /\ setup.wired \in BOOLEAN
         /\ setup.logger \in BOOLEAN
<1>1. req \in RequestSpace /\ setup \in SetupSpace
  BY RequestsAssumption DEF TypeOK
<1>2. QED
  BY <1>1 DEF RequestSpace, SetupSpace

\* What comes of asking: the bypass, the prompt or a refusal.
LEMMA AskedCases ==
  ASSUME NEW bypass, NEW prompt, NEW next, Asked(bypass, prompt, next)
  PROVE  \/ bypass /\ pc' = next /\ error' = error /\ consent' = "flag"
         \/ pc' = prompt /\ error' = error /\ consent' = consent
         \/ pc' = "caught" /\ error' = "ApprovalDenied" /\ consent' = consent
<1>1. CASE bypass
  BY <1>1 DEF Asked, Goto
<1>2. CASE ~bypass /\ req.tty
  BY <1>2 DEF Asked, Goto
<1>3. CASE ~bypass /\ ~req.tty
  BY <1>3 DEF Asked, Raise
<1>4. QED
  BY <1>1, <1>2, <1>3

\* Every error has an exit status of its own or 1.
LEMMA ExitCodes ==
  ASSUME NEW e
  PROVE  ExitCodeFor(e) \in {1, 44, 46, 77} /\ (e = "Other" => ExitCodeFor(e) = 1)
  BY DEF ExitCodeFor

\* Logging adds the one entry, or nothing where there is no logger.
LEMMA LogFacts ==
  ASSUME TypeOK, NEW status \in {"success", "error"}, NEW code \in Codes,
         Log(status, code), Len(records) <= 1
  PROVE  /\ records' \in Seq([status : {"success", "error"}, code : Codes])
         /\ Len(records') <= 2
         /\ setup.logger => records' = Append(records, Entry(status, code))
         /\ ~setup.logger => records' = records
<1>1. Entry(status, code) \in [status : {"success", "error"}, code : Codes]
  BY DEF Entry
<1>2. CASE setup.logger
  <2>1. records' = Append(records, Entry(status, code))
    BY <1>2 DEF Log, Entry
  <2>2. QED
    BY <1>1, <1>2, <2>1 DEF TypeOK
<1>3. CASE ~setup.logger
  <2>1. records' = records
    BY <1>3 DEF Log
  <2>2. QED
    BY <1>3, <2>1 DEF TypeOK
<1>4. QED
  BY <1>2, <1>3

\* A command does not change the group it is called in.
LEMMA CliAside ==
  ASSUME CliInv, UNCHANGED made, pc \notin {"make", "stopped"}
  PROVE  CliInv'
  BY DEF CliInv, made, SameCli
-----------------------------------------------------------------------------
(* The invariant holds in every state. *)

LEMMA InvInit == Init => IInv
<1> SUFFICES ASSUME Init
             PROVE  IInv
  OBVIOUS
<1>1. setup \in SetupSpace /\ NoRequest \in Requests
  BY SetupsAssumption, RequestsAssumption DEF Init, NoRequest
<1>2. TypeOK
  <2>1. records \in Seq([status : {"success", "error"}, code : Codes]) /\ Len(records) <= 2
    BY DEF Init
  <2>2. QED
    BY <1>1, <2>1 DEF Init, TypeOK, Errors, Codes
<1>3. CliInv /\ RequestInv /\ EffectInv
  BY DEF Init, CliInv, RequestInv, EffectInv, Before, Underway, Idle
<1>4. RecordInv /\ ConsentInv /\ ControlNeedsConsent /\ AppliedIffRecorded
  BY DEF Init, RecordInv, ConsentInv, ControlNeedsConsent, AppliedIffRecorded,
         Before, Underway, Idle
<1>5. QED
  BY <1>2, <1>3, <1>4 DEF IInv

LEMMA MakeCliStep ==
  ASSUME IInv, MakeCli
  PROVE  IInv'
<1>1. TypeOK' /\ CliInv'
  <2>1. CASE Fails(setup)
    BY <2>1 DEF IInv, MakeCli, TypeOK, CliInv, Codes
  <2>2. CASE ~Fails(setup)
    <3>1. commands' \subseteq Subcommands /\ hidden' \in BOOLEAN
      BY <2>2 DEF MakeCli, Registered, Hidden
    <3>2. QED
      BY <2>2, <3>1 DEF IInv, MakeCli, TypeOK, CliInv, SameCli
  <2>3. QED
    BY <2>1, <2>2
<1>2. pc = "make" /\ pc' \in {"stopped", "ready"} /\ UNCHANGED <<setup, req, consent, applied, records, error>>
  BY DEF MakeCli
<1>3. RequestInv' /\ EffectInv' /\ RecordInv' /\ ConsentInv'
  BY <1>2 DEF IInv, RequestInv, EffectInv, RecordInv, ConsentInv, Before, Underway, Idle
<1>4. ControlNeedsConsent' /\ AppliedIffRecorded'
  BY <1>2 DEF IInv, EffectInv, ControlNeedsConsent, AppliedIffRecorded, Idle
<1>5. QED
  BY <1>1, <1>3, <1>4 DEF IInv

LEMMA InvokeStep ==
  ASSUME IInv, NEW r \in Requests, Invoke(r)
  PROVE  IInv'
<1>1. /\ pc = "ready" /\ req' = r
      /\ UNCHANGED <<made, consent, applied, records, error>>
  BY DEF Invoke
<1>2. \/ NameOf(r.cmd) \notin commands /\ pc' = "exited" /\ exit' = 2
      \/ NameOf(r.cmd) \in commands /\ Controls(r.cmd) /\ pc' = "approve" /\ exit' = 0
      \/ NameOf(r.cmd) \in commands /\ ~Controls(r.cmd) /\ pc' = "body" /\ exit' = 0
  BY DEF Invoke
<1>3. ~applied /\ consent = "none" /\ records = <<>>
  BY <1>1 DEF IInv, EffectInv, RecordInv, Idle
<1>4. TypeOK' /\ CliInv'
  BY <1>1, <1>2, CliAside DEF IInv, TypeOK, Codes, made
<1>5. RequestInv' /\ EffectInv'
  BY <1>1, <1>2, <1>3 DEF RequestInv, EffectInv, Before, Underway, Idle, made
<1>6. RecordInv' /\ ConsentInv'
  BY <1>1, <1>2, <1>3 DEF RecordInv, ConsentInv, Before, Underway, Idle
<1>7. ControlNeedsConsent' /\ AppliedIffRecorded'
  BY <1>1, <1>2, <1>3 DEF ControlNeedsConsent, AppliedIffRecorded, made
<1>8. QED
  BY <1>4, <1>5, <1>6, <1>7 DEF IInv

\* A consent that lets the call go on: asked of the CLI, or of its gate.
LEMMA CheckSystemApprovalStep ==
  ASSUME IInv, CheckSystemApproval
  PROVE  IInv'
<1>1. /\ pc = "approve" /\ Controls(req.cmd) /\ ~applied /\ records = <<>> /\ exit = 0
      /\ NameOf(req.cmd) \in commands
      /\ UNCHANGED <<made, req, applied, records, exit>>
  BY DEF CheckSystemApproval, IInv, RequestInv, EffectInv, RecordInv, Before, Underway
<1>2. \/ /\ Defined(setup) /\ setup.requires
         /\ \/ pc' = "call" /\ error' = error /\ consent' = "flag"
            \/ pc' = "prompt" /\ error' = error /\ consent' = consent
            \/ pc' = "caught" /\ error' = "ApprovalDenied" /\ consent' = consent
      \/ ~(Defined(setup) /\ setup.requires) /\ pc' = "call" /\ error' = error /\ consent' = consent
  BY AskedCases DEF CheckSystemApproval, Goto
<1>3. TypeOK' /\ CliInv'
  BY <1>1, <1>2, CliAside DEF IInv, TypeOK, made, Errors
<1>4. RequestInv' /\ EffectInv' /\ RecordInv'
  BY <1>1, <1>2 DEF RequestInv, EffectInv, RecordInv, Before, Underway, Idle, made
<1>5. ConsentInv'
  BY <1>1, <1>2 DEF ConsentInv, made
<1>6. ControlNeedsConsent' /\ AppliedIffRecorded'
  BY <1>1, <1>2 DEF ControlNeedsConsent, AppliedIffRecorded, made
<1>7. QED
  BY <1>3, <1>4, <1>5, <1>6 DEF IInv

LEMMA CliAnswerStep ==
  ASSUME IInv, Answer("prompt", "call")
  PROVE  IInv'
<1>1. /\ pc = "prompt" /\ Controls(req.cmd) /\ ~applied /\ records = <<>> /\ exit = 0
      /\ NameOf(req.cmd) \in commands
      /\ UNCHANGED <<made, req, applied, records, exit>>
  BY DEF Answer, IInv, RequestInv, EffectInv, RecordInv, Before, Underway
<1>2. \/ pc' = "call" /\ error' = error /\ consent' = "human"
      \/ pc' = "caught" /\ error' \in {"ApprovalDenied", "Other"} /\ consent' = consent
  BY DEF Answer, Goto, Raise
<1>3. TypeOK' /\ CliInv'
  BY <1>1, <1>2, CliAside DEF IInv, TypeOK, made, Errors
<1>4. RequestInv' /\ EffectInv' /\ RecordInv'
  BY <1>1, <1>2 DEF RequestInv, EffectInv, RecordInv, Before, Underway, Idle, made
<1>5. ConsentInv' /\ ControlNeedsConsent' /\ AppliedIffRecorded'
  BY <1>1, <1>2 DEF ConsentInv, ControlNeedsConsent, AppliedIffRecorded, made
<1>6. QED
  BY <1>3, <1>4, <1>5 DEF IInv

LEMMA CallStep ==
  ASSUME IInv, Call
  PROVE  IInv'
<1>1. /\ pc = "call" /\ Controls(req.cmd) /\ ~applied /\ records = <<>> /\ exit = 0
      /\ NameOf(req.cmd) \in commands
      /\ UNCHANGED <<made, req, applied, records, exit>>
  BY DEF Call, IInv, RequestInv, EffectInv, RecordInv, Before, Underway
<1>2. setup.requires /\ Defined(setup) => consent # "none"
  BY <1>1 DEF IInv, ConsentInv
<1>3. \/ pc' = "caught" /\ error' \in {"AclDenied", "ApprovalDenied"} /\ consent' = consent
      \/ req.auto /\ pc' = "body" /\ error' = error /\ consent' = "flag"
      \/ pc' = "gatePrompt" /\ error' = error /\ consent' = consent
      \/ ~(setup.requires /\ setup.wired) /\ pc' = "body" /\ error' = error /\ consent' = consent
  BY AskedCases DEF Call, Goto, Raise
<1>4. TypeOK' /\ CliInv'
  BY <1>1, <1>3, CliAside DEF IInv, TypeOK, made, Errors
<1>5. RequestInv' /\ EffectInv' /\ RecordInv'
  BY <1>1, <1>3 DEF RequestInv, EffectInv, RecordInv, Before, Underway, Idle, made
<1>6. ConsentInv'
  BY <1>1, <1>2, <1>3 DEF ConsentInv, made
<1>7. ControlNeedsConsent' /\ AppliedIffRecorded'
  BY <1>1, <1>3 DEF ControlNeedsConsent, AppliedIffRecorded, made
<1>8. QED
  BY <1>4, <1>5, <1>6, <1>7 DEF IInv

LEMMA GateAnswerStep ==
  ASSUME IInv, Answer("gatePrompt", "body")
  PROVE  IInv'
<1>1. /\ pc = "gatePrompt" /\ Controls(req.cmd) /\ ~applied /\ records = <<>> /\ exit = 0
      /\ NameOf(req.cmd) \in commands
      /\ UNCHANGED <<made, req, applied, records, exit>>
  BY DEF Answer, IInv, RequestInv, EffectInv, RecordInv, Before, Underway
<1>2. \/ pc' = "body" /\ error' = error /\ consent' = "human"
      \/ pc' = "caught" /\ error' \in {"ApprovalDenied", "Other"} /\ consent' = consent
  BY DEF Answer, Goto, Raise
<1>3. TypeOK' /\ CliInv'
  BY <1>1, <1>2, CliAside DEF IInv, TypeOK, made, Errors
<1>4. RequestInv' /\ EffectInv' /\ RecordInv'
  BY <1>1, <1>2 DEF RequestInv, EffectInv, RecordInv, Before, Underway, Idle, made
<1>5. ConsentInv' /\ ControlNeedsConsent' /\ AppliedIffRecorded'
  BY <1>1, <1>2 DEF ConsentInv, ControlNeedsConsent, AppliedIffRecorded, made
<1>6. QED
  BY <1>3, <1>4, <1>5 DEF IInv

\* The module takes effect on the consents that brought it here.
LEMMA BodyStep ==
  ASSUME IInv, Body
  PROVE  IInv'
<1>1. /\ pc = "body" /\ ~applied /\ records = <<>> /\ exit = 0 /\ NameOf(req.cmd) \in commands
      /\ UNCHANGED <<made, req, consent, records, exit>>
  BY DEF Body, IInv, EffectInv, RecordInv, RequestInv, Before, Underway
<1>2. \/ Controls(req.cmd) /\ pc' = "record" /\ error' = error /\ applied'
      \/ ~Controls(req.cmd) /\ pc' = "print" /\ error' = error /\ ~applied'
      \/ pc' = "caught" /\ error' \in {"NotFound", "AclDenied", "Other"} /\ ~applied'
  BY <1>1 DEF Body, Goto, Raise, Controls
<1>3. TypeOK' /\ CliInv'
  <2>1. applied' = Controls(req.cmd) \/ applied' = applied
    BY DEF Body
  <2>2. applied' \in BOOLEAN
    <3>1. Controls(req.cmd) \in BOOLEAN
      BY SMT DEF Controls
    <3>2. applied \in BOOLEAN
      BY DEF IInv, TypeOK
    <3>3. QED
      BY <2>1, <3>1, <3>2, Zenon
  <2>3. QED
    BY <1>1, <1>2, <2>2, CliAside DEF IInv, TypeOK, made, Errors
<1>4. RequestInv' /\ EffectInv' /\ RecordInv'
  BY <1>1, <1>2 DEF RequestInv, EffectInv, RecordInv, Before, Underway, Idle, made
<1>5. ConsentInv' /\ AppliedIffRecorded'
  BY <1>1, <1>2 DEF ConsentInv, AppliedIffRecorded, made
<1>6. ControlNeedsConsent'
  <2>1. applied' => Controls(req.cmd)
    BY <1>2
  <2>2. QED
    BY <1>1, <2>1 DEF IInv, ConsentInv, ControlNeedsConsent, made
<1>7. QED
  BY <1>3, <1>4, <1>5, <1>6 DEF IInv

LEMMA RecordSuccessStep ==
  ASSUME IInv, RecordSuccess
  PROVE  IInv'
<1>1. /\ pc = "record" /\ pc' = "print" /\ Controls(req.cmd) /\ applied /\ records = <<>>
      /\ exit = 0 /\ NameOf(req.cmd) \in commands /\ Log("success", 0)
      /\ UNCHANGED <<made, req, consent, applied, error, exit>>
  BY DEF RecordSuccess, Goto, IInv, RequestInv, EffectInv, RecordInv, Before, Underway
<1>2. /\ records' \in Seq([status : {"success", "error"}, code : Codes]) /\ Len(records') <= 2
      /\ records' = IF setup.logger THEN <<Entry("success", 0)>> ELSE <<>>
  <2>1. 0 \in Codes /\ Len(records) <= 1
    BY <1>1 DEF Codes
  <2>2. /\ setup.logger => records' = Append(<<>>, Entry("success", 0))
        /\ ~setup.logger => records' = <<>>
        /\ records' \in Seq([status : {"success", "error"}, code : Codes]) /\ Len(records') <= 2
    BY <1>1, <2>1, LogFacts DEF IInv
  <2>3. Append(<<>>, Entry("success", 0)) = <<Entry("success", 0)>>
    OBVIOUS
  <2>4. QED
    BY <2>2, <2>3
<1>3. TypeOK' /\ CliInv'
  BY <1>1, <1>2, CliAside DEF IInv, TypeOK, made
<1>4. RequestInv' /\ EffectInv' /\ RecordInv'
  BY <1>1, <1>2 DEF RequestInv, EffectInv, RecordInv, Before, Underway, Idle, made
<1>5. ConsentInv' /\ ControlNeedsConsent' /\ AppliedIffRecorded'
  BY <1>1 DEF IInv, ConsentInv, ControlNeedsConsent, AppliedIffRecorded, made
<1>6. QED
  BY <1>3, <1>4, <1>5 DEF IInv

LEMMA PrintResultStep ==
  ASSUME IInv, PrintResult
  PROVE  IInv'
<1>1. /\ pc = "print" /\ (applied <=> Controls(req.cmd)) /\ exit = 0
      /\ NameOf(req.cmd) \in commands
      /\ records = IF applied /\ setup.logger THEN <<Entry("success", 0)>> ELSE <<>>
      /\ UNCHANGED <<made, req, consent, applied, records, exit>>
  BY DEF PrintResult, IInv, RequestInv, EffectInv, RecordInv, Underway
<1>2. \/ pc' = "exited" /\ error' = error
      \/ pc' = "caught" /\ error' = "Other"
  BY DEF PrintResult, Goto, Raise
<1>3. TypeOK' /\ CliInv'
  BY <1>1, <1>2, CliAside DEF IInv, TypeOK, made, Errors
<1>4. RequestInv' /\ EffectInv' /\ RecordInv' /\ ConsentInv'
  BY <1>1, <1>2 DEF RequestInv, EffectInv, RecordInv, ConsentInv, Before, Underway, Idle, made
<1>5. ControlNeedsConsent'
  BY <1>1 DEF IInv, ControlNeedsConsent, made
<1>6. AppliedIffRecorded'
  <2>1. CASE applied /\ setup.logger
    <3>1. /\ records = <<Entry("success", 0)>> /\ Len(records) = 1 /\ records # <<>>
          /\ 1 \in DOMAIN records /\ records[1] = Entry("success", 0)
      BY <1>1, <2>1
    <3>2. Entry("success", 0).status = "success" /\ Entry("success", 0).code = 0
      BY DEF Entry
    <3>3. QED
      BY <1>1, <1>2, <2>1, <3>1, <3>2 DEF AppliedIffRecorded, made
  <2>2. CASE ~applied
    <3>1. ~Controls(req.cmd) /\ records = <<>> /\ DOMAIN records = {}
      BY <1>1, <2>2
    <3>2. QED
      BY <1>1, <1>2, <2>2, <3>1 DEF AppliedIffRecorded, made
  <2>3. CASE ~setup.logger
    BY <1>1, <2>3 DEF AppliedIffRecorded, made
  <2>4. QED
    BY <2>1, <2>2, <2>3
<1>7. QED
  BY <1>3, <1>4, <1>5, <1>6 DEF IInv

\* The except clause of a control command adds its record to what is there.
LEMMA HandleErrorStep ==
  ASSUME IInv, HandleError
  PROVE  IInv'
<1>1. /\ pc = "caught" /\ pc' = "exited" /\ exit' = ExitCodeFor(error)
      /\ (applied => Controls(req.cmd)) /\ (applied => error = "Other")
      /\ error \notin {"none", "Interrupt"}
      /\ records = IF applied /\ setup.logger THEN <<Entry("success", 0)>> ELSE <<>>
      /\ UNCHANGED <<made, req, consent, applied, error>>
  BY DEF HandleError, IInv, RequestInv, EffectInv, RecordInv
<1>2. exit' \in {1, 44, 46, 77} /\ (error = "Other" => exit' = 1)
  BY <1>1, ExitCodes
<1>3. Len(records) <= 1
  BY <1>1
<1>4. TypeOK' /\ AppliedIffRecorded'
  <2>1. CASE Controls(req.cmd)
    <3> DEFINE e == Entry("error", ExitCodeFor(error))
    <3>1. Log("error", ExitCodeFor(error)) /\ ExitCodeFor(error) \in Codes
      BY <1>1, <1>2, <2>1 DEF HandleError, Codes
    <3>2. /\ records' \in Seq([status : {"success", "error"}, code : Codes]) /\ Len(records') <= 2
          /\ setup.logger => records' = Append(records, e)
      BY <1>3, <3>1, LogFacts DEF IInv
    <3>3. TypeOK'
      BY <1>1, <1>2, <3>2 DEF IInv, TypeOK, made, Codes
    <3>4. e.status = "error" /\ e.code = exit'
      BY <1>1 DEF Entry
    <3>5. CASE setup.logger /\ applied
      <4>1. /\ records' = <<Entry("success", 0), e>> /\ Len(records') = 2 /\ records' # <<>>
            /\ 1 \in DOMAIN records' /\ records'[1] = Entry("success", 0)
            /\ records'[Len(records')] = e
        BY <1>1, <3>2, <3>5
      <4>2. Entry("success", 0).status = "success"
        BY DEF Entry
      <4>3. AppliedIffRecorded'
        BY <1>1, <1>2, <3>4, <3>5, <4>1, <4>2 DEF AppliedIffRecorded, made
      <4>4. QED
        BY <3>3, <4>3
    <3>6. CASE setup.logger /\ ~applied
      <4>1. /\ records' = <<e>> /\ Len(records') = 1 /\ records' # <<>>
            /\ DOMAIN records' = {1} /\ records'[1] = e
        BY <1>1, <3>2, <3>6
      <4>2. AppliedIffRecorded'
        BY <1>1, <3>4, <3>6, <4>1 DEF AppliedIffRecorded, made
      <4>3. QED
        BY <3>3, <4>2
    <3>7. CASE ~setup.logger
      BY <1>1, <3>3, <3>7 DEF AppliedIffRecorded, made
    <3>8. QED
      BY <3>3, <3>5, <3>6, <3>7
  <2>2. CASE ~Controls(req.cmd)
    <3>1. records' = records /\ records = <<>> /\ ~applied /\ DOMAIN records = {}
      BY <1>1, <2>2 DEF HandleError
    <3>2. QED
      BY <1>1, <1>2, <2>2, <3>1 DEF IInv, TypeOK, AppliedIffRecorded, made, Codes
  <2>3. QED
    BY <2>1, <2>2
<1>5. CliInv' /\ RequestInv' /\ EffectInv' /\ RecordInv' /\ ConsentInv'
  BY <1>1, CliAside
  DEF IInv, RequestInv, EffectInv, RecordInv, ConsentInv, Before, Underway, Idle, made
<1>6. ControlNeedsConsent'
  BY <1>1 DEF IInv, ControlNeedsConsent, made
<1>7. QED
  BY <1>4, <1>5, <1>6 DEF IInv

LEMMA InterruptStep ==
  ASSUME IInv, Interrupt
  PROVE  IInv'
<1>1. /\ pc \in {"approve", "call", "body", "record", "print", "caught"}
      /\ pc' = "exited" /\ error' = "Interrupt" /\ exit' = 1
      /\ UNCHANGED <<made, req, consent, applied, records>>
  BY DEF Interrupt
<1>2. TypeOK' /\ CliInv'
  BY <1>1, CliAside DEF IInv, TypeOK, made, Errors, Codes
<1>3. RequestInv' /\ EffectInv' /\ RecordInv' /\ ConsentInv'
  BY <1>1 DEF IInv, RequestInv, EffectInv, RecordInv, ConsentInv, Before, Underway, Idle, made
<1>4. ControlNeedsConsent' /\ AppliedIffRecorded'
  BY <1>1 DEF IInv, ControlNeedsConsent, AppliedIffRecorded, made
<1>5. QED
  BY <1>2, <1>3, <1>4 DEF IInv

LEMMA LeaveStep ==
  ASSUME IInv, Leave
  PROVE  IInv'
<1>1. /\ pc = "exited" /\ pc' = "ready" /\ req' = NoRequest /\ consent' = "none"
      /\ applied' = FALSE /\ records' = <<>> /\ error' = "none" /\ exit' = 0
      /\ UNCHANGED made
  BY DEF Leave
<1>2. TypeOK'
  <2>1. NoRequest \in Requests
    BY RequestsAssumption DEF NoRequest
  <2>2. records' \in Seq([status : {"success", "error"}, code : Codes]) /\ Len(records') <= 2
    BY <1>1
  <2>3. QED
    BY <1>1, <2>1, <2>2 DEF IInv, TypeOK, made, Errors, Codes
<1>3. CliInv' /\ RequestInv' /\ EffectInv' /\ RecordInv' /\ ConsentInv'
  BY <1>1, CliAside
  DEF IInv, RequestInv, EffectInv, RecordInv, ConsentInv, Before, Underway, Idle, made
<1>4. ControlNeedsConsent' /\ AppliedIffRecorded'
  BY <1>1 DEF ControlNeedsConsent, AppliedIffRecorded
<1>5. QED
  BY <1>2, <1>3, <1>4 DEF IInv

LEMMA StutterStep ==
  ASSUME IInv, UNCHANGED vars
  PROVE  IInv'
  BY DEF IInv, vars, TypeOK, CliInv, SameCli, RequestInv, EffectInv, RecordInv, ConsentInv,
         ControlNeedsConsent, AppliedIffRecorded

\* The invariant of the built-in group: what create_cli decided stays, and at
\* every place of a system command its effect, its records and the consent it
\* rests on are those the order approval, call, record, output leaves behind.
THEOREM GroupInvariant == Spec => []IInv
<1>1. ASSUME IInv, [Next]_vars PROVE IInv'
  <2>1. CASE MakeCli
    BY <1>1, <2>1, MakeCliStep
  <2>2. CASE \E r \in Requests : Invoke(r)
    BY <1>1, <2>2, InvokeStep
  <2>3. CASE CheckSystemApproval
    BY <1>1, <2>3, CheckSystemApprovalStep
  <2>4. CASE Answer("prompt", "call") \/ Answer("gatePrompt", "body")
    BY <1>1, <2>4, CliAnswerStep, GateAnswerStep
  <2>5. CASE Call
    BY <1>1, <2>5, CallStep
  <2>6. CASE Body
    BY <1>1, <2>6, BodyStep
  <2>7. CASE RecordSuccess \/ PrintResult
    BY <1>1, <2>7, RecordSuccessStep, PrintResultStep
  <2>8. CASE HandleError
    BY <1>1, <2>8, HandleErrorStep
  <2>9. CASE Interrupt \/ Leave
    BY <1>1, <2>9, InterruptStep, LeaveStep
  <2>10. CASE UNCHANGED vars
    BY <1>1, <2>10, StutterStep
  <2>11. QED
    BY <1>1, <2>1, <2>2, <2>3, <2>4, <2>5, <2>6, <2>7, <2>8, <2>9, <2>10 DEF Next
<1>2. QED
  BY <1>1, InvInit, PTL DEF Spec
-----------------------------------------------------------------------------
(* The properties. *)

\* The variables of create_cli and of a system command keep their types.
THEOREM GroupTypes == Spec => []TypeOK
<1>1. IInv => TypeOK
  BY DEF IInv
<1>2. QED
  BY <1>1, GroupInvariant, PTL

\* No control module that requires approval takes effect without consent,
\* whichever of the CLI and the Executor's gate are there to ask.
THEOREM ControlConsented == Spec => []ControlNeedsConsent
<1>1. IInv => ControlNeedsConsent
  BY DEF IInv
<1>2. QED
  BY <1>1, GroupInvariant, PTL

\* The audit log of the system commands tells what took effect and how the
\* command ended, also when its result could not be printed.
THEOREM EffectsRecorded == Spec => []AppliedIffRecorded
<1>1. IInv => AppliedIffRecorded
  BY DEF IInv
<1>2. QED
  BY <1>1, GroupInvariant, PTL

\* Two CLIs with the same group seen through the same environment, and the
\* same system modules, serve the same subcommands.
LEMMA SameGroupSameCli ==
  ASSUME NEW s, NEW t, SameCli(s), SystemAvailable(t) <=> SystemAvailable(s),
         Group(t) = Group(s), Visibility(Group(t), t.env) = Visibility(Group(s), s.env)
  PROVE  SameCli(t)
<1>1. Registered(t) = Registered(s)
  BY DEF Registered
<1>2. Hidden(t) = Hidden(s)
  BY DEF Hidden
<1>3. QED
  BY <1>1, <1>2 DEF SameCli

\* A mode the host passes to create_cli, and disable_env, are final.
THEOREM HostIsFinal == Spec => []HostHasTheLastWord
<1>1. ASSUME IInv PROVE HostHasTheLastWord
  <2> SUFFICES ASSUME pc = "ready"
               PROVE  /\ (/\ setup.prebuilt # "yaml"
                          /\ \/ setup.given.shape \in {"true", "false"}
                             \/ setup.given.shape = "dict" /\ setup.given.mode # "unset")
                         => \A env \in {"unset", "show", "hide"}, block \in YamlBlocks :
                               SameCli([setup EXCEPT !.env = env, !.yaml = block])
                      /\ (Consulted(setup).shape = "dict" /\ Consulted(setup).seal)
                         => \A env \in {"unset", "show", "hide"} :
                               SameCli([setup EXCEPT !.env = env])
    BY DEF HostHasTheLastWord
  <2>1. setup \in SetupSpace /\ SameCli(setup)
    BY <1>1 DEF IInv, TypeOK, CliInv
  <2>2. ASSUME setup.prebuilt # "yaml",
               \/ setup.given.shape \in {"true", "false"}
               \/ setup.given.shape = "dict" /\ setup.given.mode # "unset",
               NEW env, NEW block
        PROVE  SameCli([setup EXCEPT !.env = env, !.yaml = block])
    <3> DEFINE t == [setup EXCEPT !.env = env, !.yaml = block]
    <3>1. /\ t.given = setup.given /\ t.prebuilt = setup.prebuilt /\ t.claims = setup.claims
          /\ t.injected = setup.injected /\ t.validate = setup.validate
          /\ t.registry = setup.registry /\ setup.prebuilt \in {"no", "cli", "yaml"}
          /\ setup.given.mode \in Modes \union {"unset", "bad"}
      BY <2>1 DEF SetupSpace, Block
    <3>2. SystemAvailable(t) <=> SystemAvailable(setup)
      BY <3>1 DEF SystemAvailable, Defined
    <3>3. Consulted(t) = setup.given /\ Consulted(setup) = setup.given
      BY <2>2, <3>1 DEF Consulted
    <3>4. Group(t) = Group(setup)
      BY <3>1, <3>3 DEF Group
    <3>5. Group(setup).fromCli /\ Group(setup).mode # "auto"
      BY <2>2, <3>1, <3>3 DEF Group, Build, Modes
    <3>6. Visibility(Group(t), t.env) = Visibility(Group(setup), setup.env)
      BY <3>4, <3>5 DEF Visibility
    <3>7. QED
      BY <2>1, <3>2, <3>4, <3>6, SameGroupSameCli
  <2>3. ASSUME Consulted(setup).shape = "dict" /\ Consulted(setup).seal, NEW env
        PROVE  SameCli([setup EXCEPT !.env = env])
    <3> DEFINE t == [setup EXCEPT !.env = env]
    <3>1. /\ t.given = setup.given /\ t.prebuilt = setup.prebuilt /\ t.claims = setup.claims
          /\ t.injected = setup.injected /\ t.validate = setup.validate
          /\ t.registry = setup.registry /\ t.yaml = setup.yaml
      BY <2>1 DEF SetupSpace
    <3>2. SystemAvailable(t) <=> SystemAvailable(setup)
      BY <3>1 DEF SystemAvailable, Defined
    <3>3. Consulted(t) = Consulted(setup)
      BY <3>1 DEF Consulted
    <3>4. Group(t) = Group(setup)
      BY <3>1, <3>3 DEF Group
    <3>5. Group(setup).sealed
      BY <2>3 DEF Group, Build, Consulted
    <3>6. Visibility(Group(t), t.env) = Visibility(Group(setup), setup.env)
      BY <3>4, <3>5 DEF Visibility
    <3>7. QED
      BY <2>1, <3>2, <3>4, <3>6, SameGroupSameCli
  <2>4. QED
    BY <2>2, <2>3
<1>2. QED
  BY <1>1, GroupInvariant, PTL

\* Where the visibility of a group can come from.
LEMMA VisibilityCases ==
  ASSUME NEW s \in SetupSpace, ~Fails(s)
  PROVE  LET mode == Visibility(Group(s), s.env)
         IN  \/ mode \in {"all", "none"}
             \/ mode = "include" /\ Group(s).include = Consulted(s).include
             \/ mode = "exclude" /\ Group(s).exclude = Consulted(s).exclude
<1> DEFINE g == Group(s)
           b == Consulted(s)
           mode == Visibility(g, s.env)
<1>1. mode \in {"all", "none"} \/ mode = g.mode
  BY DEF Visibility, ParseEnv
<1>2. b \in Block /\ (b.shape = "dict" => b.mode # "bad")
  BY DEF Fails, Consulted, SetupSpace
<1>3. /\ g.mode = "include" => b.shape = "dict"
      /\ g.mode = "exclude" => b.shape = "dict"
      /\ g.mode \in {"all", "none", "include", "exclude", "auto"}
      /\ b.shape = "dict" => g.include = b.include /\ g.exclude = b.exclude
  BY <1>2 DEF Group, Build, Consulted, Block, Modes
<1>4. mode = g.mode /\ g.mode = "auto" => FALSE
  BY DEF Visibility, ParseEnv
<1>5. QED
  BY <1>1, <1>3, <1>4

\* A hidden group serves everything; a shown one lacks what its list withholds.
\* Nothing is said of exec.
THEOREM NothingLost == Spec => []HidingRemovesNothing
<1>1. ASSUME IInv PROVE HidingRemovesNothing
  <2> SUFFICES ASSUME pc = "ready"
               PROVE  HidingRemovesNothing
    BY DEF HidingRemovesNothing
  <2> DEFINE mode == Visibility(Group(setup), setup.env)
             offered == {c \in Subcommands \ {"exec"} :
                           c \in SystemSubcommands => SystemAvailable(setup)}
             withheld == offered \ commands
  <2>1. /\ setup \in SetupSpace /\ ~Fails(setup)
        /\ commands = Registered(setup) /\ hidden = Hidden(setup)
    BY <1>1 DEF IInv, TypeOK, CliInv, SameCli
  <2>2. offered \intersect commands = {c \in offered : Admits(Group(setup), mode, c)}
    BY <2>1 DEF Registered
  <2>3. hidden => withheld = {}
    BY <2>1, <2>2 DEF Hidden, Admits
  <2>4. withheld # {} => \/ withheld = Consulted(setup).exclude \intersect offered
                         \/ withheld = offered \ Consulted(setup).include
    <3>1. CASE mode \in {"all", "none"}
      BY <2>2, <3>1 DEF Admits
    <3>2. CASE mode = "include" /\ Group(setup).include = Consulted(setup).include
      <4>1. offered \intersect commands = {c \in offered : c \in Consulted(setup).include}
        BY <2>2, <3>2 DEF Admits, AlwaysRegistered
      <4>2. QED
        BY <4>1
    <3>3. CASE mode = "exclude" /\ Group(setup).exclude = Consulted(setup).exclude
      <4>1. offered \intersect commands = {c \in offered : c \notin Consulted(setup).exclude}
        BY <2>2, <3>3 DEF Admits, AlwaysRegistered
      <4>2. QED
        BY <4>1
    <3>4. QED
      BY <2>1, <3>1, <3>2, <3>3, VisibilityCases
  <2>5. QED
    BY <2>3, <2>4 DEF HidingRemovesNothing
<1>2. QED
  BY <1>1, GroupInvariant, PTL
=============================================================================
