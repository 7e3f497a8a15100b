--------------------------- MODULE WorkflowProofs ---------------------------
(***************************************************************************)
(* Proofs about WorkflowRun, for every definition, every number of steps,  *)
(* approvals and concurrent calls.                                         *)
(***************************************************************************)
EXTENDS WorkflowRun, TLAPS

(* The calls that work on a step know its number; what is completed with a  *)
(* receipt was carried out; an approval that is held was spent and has not  *)
(* let the executor run yet.                                                *)
AtStep == {"reopen", "reopening", "dispatch", "gate", "execute", "record", "complete", "completing"}
Completing == {"record", "complete", "completing"}
Moving == {"move", "views", "write"}

LocalInv(l, ex, sp, us) ==
    /\ l.pc \in AtStep \/ (l.pc \in Moving /\ l.then = "dispatch") => l.seq \in Seqs
    /\ l.pc = "record" => l.ok
    /\ l.ok => l.pc \in Completing /\ ex[l.seq] >= 1
    /\ l.by \in Approvals => l.pc = "execute" /\ l.by \in sp /\ us[l.by] = 0

OneHolder == \A c, d \in Calls : call[c].by \in Approvals /\ call[c].by = call[d].by => c = d

UnspentUnused == \A a \in Approvals : a \notin spent => uses[a] = 0

LedgerFounded == \A s \in ledger : execs[s] >= 1

IInv ==
    /\ TypeOK
    /\ \A c \in Calls : LocalInv(call[c], execs, spent, uses)
    /\ OneHolder /\ UnspentUnused /\ ApprovalSingleUse
    /\ LedgerFounded /\ VerifiedWasExecuted

-----------------------------------------------------------------------------
(* The mark of a call without an approval is none of the approvals. *)
LEMMA NotAnApproval == NoApproval \notin Approvals
  BY DEF NoApproval, Approvals, Seqs

(* The locals of a call at rest have their type. *)
LEMMA RestInLocals == Rest \in Locals
  BY LenAssumption DEF Rest, Locals, Pcs, RunStates

(* The type of a call's locals, field by field. *)
LEMMA FieldsOfLocals ==
    ASSUME NEW l \in Locals
    PROVE  /\ l.pc \in Pcs /\ l.seq \in 0..Len /\ l.to \in RunStates
           /\ l.then \in {"idle", "loop", "dispatch"} /\ l.ok \in BOOLEAN
           /\ l.by \in Approvals \cup {NoApproval}
  BY DEF Locals

(* What SetCall does: the caller's locals change, the others' stay. *)
LEMMA CallsOf ==
    ASSUME call \in [Calls -> Locals], NEW c \in Calls, NEW l \in Locals, SetCall(c, l)
    PROVE  /\ call' \in [Calls -> Locals] /\ call'[c] = l
           /\ \A d \in Calls : d # c => call'[d] = call[d]
  BY DEF SetCall

(* A step that neither spends an approval nor carries anything out keeps the *)
(* invariant, if the caller's new locals do and no step is marked verified,  *)
(* no effect committed, that was not carried out.                            *)
LEMMA QuietStep ==
    ASSUME IInv, NEW c \in Calls, NEW l \in Locals, SetCall(c, l),
           UNCHANGED <<def, spent, execs, uses>>,
           l.by \notin Approvals \/ l.by = call[c].by,
           LocalInv(l, execs, spent, uses),
           run' \in RunStates, made' \in 0..MaxCalls,
           step' \in [Seqs -> [st : StepStates, effect : BOOLEAN, attempt : Nat]],
           \A s \in Seqs : step'[s].st = "verified" => execs[s] >= 1,
           ledger' \subseteq Seqs, \A s \in ledger' : execs[s] >= 1
    PROVE  IInv'
<1>1. /\ call' \in [Calls -> Locals] /\ call'[c] = l
      /\ \A d \in Calls : d # c => call'[d] = call[d]
  BY CallsOf DEF IInv, TypeOK
<1>2. TypeOK'
  BY <1>1 DEF IInv, TypeOK
<1>3. \A d \in Calls : LocalInv(call'[d], execs, spent, uses)
  BY <1>1 DEF IInv
<1>4. (\A d \in Calls : LocalInv(call[d], execs, spent, uses))'
  BY <1>3
<1>5. OneHolder'
  BY <1>1 DEF IInv, OneHolder
<1>6. UnspentUnused' /\ ApprovalSingleUse' /\ LedgerFounded' /\ VerifiedWasExecuted'
  BY DEF IInv, UnspentUnused, ApprovalSingleUse, LedgerFounded, VerifiedWasExecuted
<1>7. QED  BY <1>2, <1>4, <1>5, <1>6 DEF IInv

(* The same for a step that writes nothing but the caller's locals. *)
LEMMA LocalStep ==
    ASSUME IInv, NEW c \in Calls, NEW l \in Locals, SetCall(c, l),
           UNCHANGED <<def, db, execs, uses>>, made' \in 0..MaxCalls,
           l.by \notin Approvals \/ l.by = call[c].by,
           LocalInv(l, execs, spent, uses)
    PROVE  IInv'
<1>1. /\ run' \in RunStates /\ ledger' \subseteq Seqs /\ spent' = spent
      /\ step' \in [Seqs -> [st : StepStates, effect : BOOLEAN, attempt : Nat]]
      /\ \A s \in Seqs : step'[s].st = "verified" => execs[s] >= 1
      /\ \A s \in ledger' : execs[s] >= 1
  BY DEF IInv, TypeOK, db, LedgerFounded, VerifiedWasExecuted
<1>2. QED  BY <1>1, QuietStep

(* A call returns. *)
LEMMA ReturnStep ==
    ASSUME IInv, NEW c \in Calls, Return(c), UNCHANGED <<def, db, execs, uses>>, made' = made
    PROVE  IInv'
<1>1. LocalInv(Rest, execs, spent, uses) /\ Rest.by \notin Approvals
  BY NotAnApproval DEF Rest, LocalInv, AtStep, Moving
<1>2. QED  BY <1>1, RestInLocals, LocalStep DEF Return, IInv, TypeOK

(* A call that holds no approval and no receipt goes to a pc that needs none. *)
LEMMA GotoStep ==
    ASSUME IInv, NEW c \in Calls, NEW p \in Pcs, Goto(c, p), call[c].by \notin Approvals,
           p \in AtStep \/ (p \in Moving /\ call[c].then = "dispatch") => call[c].seq \in Seqs,
           p = "record" => call[c].ok, call[c].ok => p \in Completing,
           UNCHANGED <<def, db, execs, uses>>, made' \in 0..MaxCalls
    PROVE  IInv'
<1> DEFINE l == [call[c] EXCEPT !.pc = p]
<1>0. call[c] \in Locals
  BY DEF IInv, TypeOK
<1>a. l \in Locals
  BY <1>0 DEF Locals
<1>b. /\ l.pc = p /\ l.seq = call[c].seq /\ l.then = call[c].then
      /\ l.ok = call[c].ok /\ l.by = call[c].by
  BY <1>0 DEF Locals
<1>1. /\ l \in Locals /\ l.pc = p /\ l.seq = call[c].seq /\ l.then = call[c].then
      /\ l.ok = call[c].ok /\ l.by = call[c].by
  BY <1>a, <1>b
<1>2. LocalInv(l, execs, spent, uses)
  BY <1>1 DEF IInv, LocalInv
<1>3. SetCall(c, l)
  BY DEF Goto
<1>4. QED  BY <1>1, <1>2, <1>3, LocalStep

(* A call goes on to set_run_state. *)
LEMMA MoveLocals ==
    ASSUME IInv, NEW c \in Calls, NEW t \in RunStates, NEW n \in {"idle", "loop", "dispatch"},
           call[c].by \notin Approvals, ~call[c].ok, n = "dispatch" => call[c].seq \in Seqs
    PROVE  LET l == [call[c] EXCEPT !.pc = "move", !.to = t, !.then = n]
           IN  l \in Locals /\ l.by \notin Approvals /\ LocalInv(l, execs, spent, uses)
<1> DEFINE l == [call[c] EXCEPT !.pc = "move", !.to = t, !.then = n]
<1>0. call[c] \in Locals /\ "move" \in Pcs
  BY DEF IInv, TypeOK, Pcs
<1>1. l \in Locals
  BY <1>0 DEF Locals
<1>2. /\ l.pc = "move" /\ l.seq = call[c].seq /\ l.then = n
      /\ l.ok = call[c].ok /\ l.by = call[c].by
  BY <1>0 DEF Locals
<1>3. QED  BY <1>1, <1>2 DEF IInv, LocalInv, AtStep, Moving

(* A call that only goes on to set_run_state keeps the invariant. *)
LEMMA MoveStep ==
    ASSUME IInv, NEW c \in Calls, NEW t \in RunStates, NEW n \in {"idle", "loop", "dispatch"},
           MoveTo(c, t, n), call[c].by \notin Approvals, ~call[c].ok,
           n = "dispatch" => call[c].seq \in Seqs,
           UNCHANGED <<def, db, execs, uses>>, made' \in 0..MaxCalls
    PROVE  IInv'
  BY MoveLocals, LocalStep DEF MoveTo

(* Only a call at "execute" holds an approval, only one that completes a step *)
(* a receipt.                                                                 *)
LEMMA HoldsNone ==
    ASSUME IInv, NEW c \in Calls
    PROVE  /\ call[c].pc # "execute" => call[c].by \notin Approvals
           /\ call[c].pc \notin Completing => ~call[c].ok
  BY DEF IInv, LocalInv

-----------------------------------------------------------------------------
(* The initial state satisfies the inductive invariant. *)
LEMMA InvInit == Init => IInv
<1> SUFFICES ASSUME Init PROVE IInv
  OBVIOUS
<1>1. TypeOK
  BY RestInLocals, CopiesAssumption DEF Init, TypeOK, RunStates, StepStates, NoStep
<1>2. \A c \in Calls : call[c] = Rest
  BY DEF Init
<1>3. LocalInv(Rest, execs, spent, uses) /\ Rest.by \notin Approvals
  BY NotAnApproval DEF Rest, LocalInv, AtStep, Moving
<1>4. (\A c \in Calls : LocalInv(call[c], execs, spent, uses)) /\ OneHolder
  BY <1>2, <1>3 DEF OneHolder
<1>5. /\ \A a \in Approvals : uses[a] = 0
      /\ \A s \in Seqs : step[s].st = NoStep
      /\ ledger = {}
  BY DEF Init
<1>6. UnspentUnused /\ ApprovalSingleUse /\ LedgerFounded /\ VerifiedWasExecuted
  BY <1>5 DEF UnspentUnused, ApprovalSingleUse, LedgerFounded, VerifiedWasExecuted, NoStep
<1>7. QED  BY <1>1, <1>4, <1>6 DEF IInv

-----------------------------------------------------------------------------

-----------------------------------------------------------------------------
(* The states and program counters the actions name. *)
LEMMA Names ==
    /\ {"running", "pending", "failed", "cancelled", "done", "awaiting_checkpoint"} \subseteq RunStates
    /\ {"find_paused", "find_frontier", "reopen", "reopening", "move", "views", "write", "loop",
        "dispatch", "gate", "execute", "record", "complete", "completing"} \subseteq Pcs
    /\ {"reopen", "reopening", "dispatch", "gate", "execute", "record", "complete", "completing"} = AtStep
    /\ "find_paused" \notin AtStep \cup Moving /\ "find_frontier" \notin AtStep \cup Moving
    /\ "loop" \notin AtStep \cup Moving
    /\ {"move", "views", "write"} = Moving /\ {"record", "complete", "completing"} = Completing
  BY DEF RunStates, InFlight, TerminalRun, Pcs, AtStep, Moving, Completing

(* Starting a call. *)
LEMMA Starts ==
    ASSUME IInv, NEW c \in Calls,
           \/ RunWorkflow(c) \/ ResumeWorkflow(c) \/ RetryWorkflow(c) \/ Cancel(c) \/ Sweep(c)
    PROVE  IInv'
<1>1. call[c].by \notin Approvals /\ ~call[c].ok
  BY HoldsNone DEF RunWorkflow, ResumeWorkflow, RetryWorkflow, Cancel, Sweep, Begin, Completing
<1>2. made' \in 0..MaxCalls
  BY CopiesAssumption
  DEF RunWorkflow, ResumeWorkflow, RetryWorkflow, Cancel, Sweep, Begin, IInv, TypeOK
<1>3. CASE RunWorkflow(c)
  <2> DEFINE l == [call[c] EXCEPT !.pc = "move", !.to = "running", !.then = "loop"]
  <2>1. "running" \in RunStates /\ "pending" \in RunStates
    BY Names
  <2>2. l \in Locals /\ l.by \notin Approvals /\ LocalInv(l, execs, spent, uses)
    BY <1>1, <2>1, MoveLocals
  <2>3. SetCall(c, l) /\ run' = "pending" /\ UNCHANGED <<def, step, ledger, spent, execs, uses>>
    BY <1>3 DEF RunWorkflow, MoveTo
  <2>4. QED  BY <1>2, <2>1, <2>2, <2>3, QuietStep
             DEF IInv, TypeOK, LedgerFounded, VerifiedWasExecuted
<1>4. CASE ResumeWorkflow(c) \/ RetryWorkflow(c)
  <2>1. /\ Goto(c, "find_paused") \/ Goto(c, "find_frontier")
        /\ UNCHANGED <<def, db, execs, uses>>
    BY <1>4 DEF ResumeWorkflow, RetryWorkflow
  <2>2. QED  BY <1>1, <1>2, <2>1, Names, GotoStep
<1>5. CASE Cancel(c) \/ Sweep(c)
  <2>1. /\ MoveTo(c, "cancelled", "idle") \/ MoveTo(c, "failed", "idle")
        /\ UNCHANGED <<def, db, execs, uses>>
    BY <1>5 DEF Cancel, Sweep
  <2>2. QED  BY <1>1, <1>2, <2>1, Names, MoveStep
<1>6. QED  BY <1>3, <1>4, <1>5

(* Finding the step to go on from, and reopening it. *)
LEMMA Searches ==
    ASSUME IInv, NEW c \in Calls,
           \/ FindPausedSeq(c) \/ FindRetryFrontierSeq(c) \/ CheckReopen(c) \/ ReopenFailedStep(c)
    PROVE  IInv'
<1>1. call[c].by \notin Approvals /\ ~call[c].ok
  BY HoldsNone
  DEF FindPausedSeq, FindRetryFrontierSeq, CheckReopen, ReopenFailedStep, Completing
<1>2. call[c] \in Locals /\ made \in 0..MaxCalls
  BY DEF IInv, TypeOK
<1>3. CASE FindPausedSeq(c) \/ FindRetryFrontierSeq(c)
  <2>0. made' = made /\ UNCHANGED <<def, db, execs, uses>>
    BY <1>3 DEF FindPausedSeq, FindRetryFrontierSeq
  <2>1. CASE Return(c)
    BY <2>0, <2>1, ReturnStep
  <2>2. ASSUME NEW s \in PausedSeq,
               SetCall(c, [call[c] EXCEPT !.pc = "move", !.seq = s, !.to = "running",
                                          !.then = "dispatch"])
        PROVE  IInv'
    <3> DEFINE l == [call[c] EXCEPT !.pc = "move", !.seq = s, !.to = "running",
                                    !.then = "dispatch"]
    <3>1. s \in Seqs /\ s \in 0..Len /\ "running" \in RunStates /\ "move" \in Pcs
      BY LenAssumption, Names DEF PausedSeq, FirstStep, Seqs
    <3>2. l \in Locals
      BY <1>2, <3>1 DEF Locals
    <3>3. l.pc = "move" /\ l.seq = s /\ l.ok = call[c].ok /\ l.by = call[c].by
      BY <1>2 DEF Locals
    <3>4. LocalInv(l, execs, spent, uses)
      BY <1>1, <3>1, <3>3 DEF LocalInv
    <3>5. QED  BY <1>1, <1>2, <2>0, <2>2, <3>2, <3>3, <3>4, LocalStep
  <2>3. ASSUME NEW s \in FrontierSeq,
               SetCall(c, [call[c] EXCEPT !.pc = "reopen", !.seq = s])
        PROVE  IInv'
    <3> DEFINE l == [call[c] EXCEPT !.pc = "reopen", !.seq = s]
    <3>1. s \in Seqs /\ s \in 0..Len /\ "reopen" \in Pcs
      BY LenAssumption, Names DEF FrontierSeq, FirstStep, Seqs
    <3>2. l \in Locals
      BY <1>2, <3>1 DEF Locals
    <3>3. l.pc = "reopen" /\ l.seq = s /\ l.ok = call[c].ok /\ l.by = call[c].by
      BY <1>2 DEF Locals
    <3>4. LocalInv(l, execs, spent, uses)
      BY <1>1, <3>1, <3>3 DEF LocalInv
    <3>5. QED  BY <1>1, <1>2, <2>0, <2>3, <3>2, <3>3, <3>4, LocalStep
  <2>4. QED  BY <1>3, <2>1, <2>2, <2>3 DEF FindPausedSeq, FindRetryFrontierSeq
<1>4. ASSUME call[c].pc \in {"reopen", "reopening"} PROVE call[c].seq \in Seqs
  BY <1>4, Names DEF IInv, LocalInv
<1>5. CASE CheckReopen(c)
  <2>1. /\ Return(c) \/ Goto(c, "reopening")
        /\ made' = made /\ UNCHANGED <<def, db, execs, uses>> /\ call[c].seq \in Seqs
    BY <1>4, <1>5 DEF CheckReopen
  <2>2. CASE Return(c)
    BY <2>1, <2>2, ReturnStep
  <2>3. CASE Goto(c, "reopening")
    BY <1>1, <1>2, <2>1, <2>3, Names, GotoStep
  <2>4. QED  BY <2>1, <2>2, <2>3
<1>6. CASE ReopenFailedStep(c)
  <2> DEFINE l == [call[c] EXCEPT !.pc = "move", !.to = "running", !.then = "dispatch"]
  <2>1. call[c].seq \in Seqs /\ "running" \in RunStates
    BY <1>4, <1>6, Names DEF ReopenFailedStep
  <2>2. l \in Locals /\ l.by \notin Approvals /\ LocalInv(l, execs, spent, uses)
    BY <1>1, <2>1, MoveLocals
  <2>3. /\ SetCall(c, l) /\ made' = made /\ UNCHANGED <<def, run, ledger, spent, execs, uses>>
        /\ step' = [step EXCEPT ![call[c].seq].st = "pending", ![call[c].seq].attempt = @ + 1]
    BY <1>6 DEF ReopenFailedStep, MoveTo
  <2>4. /\ step' \in [Seqs -> [st : StepStates, effect : BOOLEAN, attempt : Nat]]
        /\ \A s \in Seqs : step'[s].st = "verified" => step[s].st = "verified"
    BY <2>1, <2>3 DEF IInv, TypeOK, StepStates
  <2>5. QED  BY <1>2, <2>2, <2>3, <2>4, QuietStep
             DEF IInv, TypeOK, LedgerFounded, VerifiedWasExecuted
<1>7. QED  BY <1>3, <1>5, <1>6

(* set_run_state. *)
LEMMA Transitions ==
    ASSUME IInv, NEW c \in Calls, CheckTransition(c) \/ CheckComplete(c) \/ WriteRunState(c)
    PROVE  IInv'
<1>1. call[c].by \notin Approvals /\ ~call[c].ok
  BY HoldsNone DEF CheckTransition, CheckComplete, WriteRunState, Completing
<1>2. call[c] \in Locals /\ made \in 0..MaxCalls
  BY DEF IInv, TypeOK
<1>3. call[c].pc \in Moving /\ (call[c].then = "dispatch" => call[c].seq \in Seqs)
  BY Names DEF CheckTransition, CheckComplete, WriteRunState, IInv, LocalInv
<1>4. CASE CheckTransition(c) \/ CheckComplete(c)
  <2>1. /\ Return(c) \/ Goto(c, "views") \/ Goto(c, "write")
        /\ made' = made /\ UNCHANGED <<def, db, execs, uses>>
    BY <1>4 DEF CheckTransition, CheckComplete
  <2>2. CASE Return(c)
    BY <2>1, <2>2, ReturnStep
  <2>3. CASE Goto(c, "views")
    <3>1. "views" \in Pcs /\ "views" \notin AtStep
      BY DEF Pcs, AtStep
    <3>2. QED  BY <1>1, <1>2, <1>3, <2>1, <2>3, <3>1, GotoStep
  <2>4. CASE Goto(c, "write")
    <3>1. "write" \in Pcs /\ "write" \notin AtStep
      BY DEF Pcs, AtStep
    <3>2. QED  BY <1>1, <1>2, <1>3, <2>1, <2>4, <3>1, GotoStep
  <2>5. QED  BY <2>1, <2>2, <2>3, <2>4
<1>5. CASE WriteRunState(c)
  <2> DEFINE l == IF call[c].then = "idle" THEN Rest ELSE [call[c] EXCEPT !.pc = call[c].then]
  <2>1. SetCall(c, l) /\ run' = call[c].to /\ made' = made
    BY <1>5 DEF WriteRunState, Return, Goto
  <2>1a. UNCHANGED <<def, step, ledger, spent, execs, uses>>
    BY <1>5 DEF WriteRunState
  <2>2. call[c].to \in RunStates /\ call[c].then \in {"idle", "loop", "dispatch"}
    BY <1>2, FieldsOfLocals
  <2>3. l \in Locals /\ l.by \notin Approvals /\ LocalInv(l, execs, spent, uses)
    <3>1. CASE call[c].then = "idle"
      <4>1. l = Rest
        BY <3>1
      <4>2. Rest.by \notin Approvals /\ LocalInv(Rest, execs, spent, uses)
        BY NotAnApproval DEF Rest, LocalInv, AtStep, Moving
      <4>3. QED  BY <4>1, <4>2, RestInLocals
    <3>2. CASE call[c].then # "idle"
      <4>1. l = [call[c] EXCEPT !.pc = call[c].then]
        BY <3>2
      <4>2. call[c].then \in Pcs
        BY <2>2, <3>2, Names
      <4>3. l \in Locals
        BY <1>2, <4>1, <4>2 DEF Locals
      <4>4. l.pc = call[c].then /\ l.seq = call[c].seq /\ l.ok = call[c].ok /\ l.by = call[c].by
        BY <1>2, <4>1 DEF Locals
      <4>5. QED  BY <1>1, <1>3, <2>2, <3>2, <4>3, <4>4 DEF LocalInv, AtStep, Moving
    <3>3. QED  BY <3>1, <3>2
  <2>4. QED
    <3> HIDE DEF l
    <3>1. QED  BY <1>2, <2>1, <2>1a, <2>2, <2>3, QuietStep
               DEF IInv, TypeOK, LedgerFounded, VerifiedWasExecuted
<1>6. QED  BY <1>4, <1>5

(* The head of the loop, and a decision of the gate that ends the call. *)
LEMMA LoopAndGate ==
    ASSUME IInv, NEW c \in Calls,
           \/ FinishLoop(c) \/ RegisterStep(c) \/ StepExists(c) \/ LookUpEffect(c)
           \/ Allow(c) \/ Deny(c) \/ RequiresApproval(c) \/ RefuseApproval(c)
    PROVE  IInv'
<1>1. call[c].by \notin Approvals /\ ~call[c].ok
  BY HoldsNone DEF FinishLoop, RegisterStep, StepExists, LookUpEffect, Allow, Deny,
                   RequiresApproval, RefuseApproval, Completing
<1>2. call[c] \in Locals /\ made \in 0..MaxCalls
  BY DEF IInv, TypeOK
<1>3. ASSUME call[c].pc \in {"dispatch", "gate"} PROVE call[c].seq \in Seqs
  BY <1>3, Names DEF IInv, LocalInv
<1>4. CASE FinishLoop(c) \/ Deny(c) \/ RequiresApproval(c) \/ RefuseApproval(c)
  <2>1. /\ \/ MoveTo(c, "done", "idle") \/ MoveTo(c, "failed", "idle")
           \/ MoveTo(c, "awaiting_checkpoint", "idle")
        /\ made' = made /\ UNCHANGED <<def, db, execs, uses>>
    BY <1>4 DEF FinishLoop, Deny, RequiresApproval, RefuseApproval
  <2>2. QED  BY <1>1, <1>2, <2>1, Names, MoveStep
<1>5. CASE StepExists(c)
  BY <1>5, ReturnStep DEF StepExists
<1>6. CASE Allow(c)
  <2>1. /\ Goto(c, "execute") /\ made' = made /\ UNCHANGED <<def, db, execs, uses>>
        /\ call[c].seq \in Seqs
    BY <1>3, <1>6 DEF Allow
  <2>2. QED  BY <1>1, <1>2, <2>1, Names, GotoStep
<1>7. CASE RegisterStep(c)
  <2> DEFINE q == call[c].seq
             l == IF def[q].auto THEN [call[c] EXCEPT !.pc = "dispatch"]
                  ELSE [call[c] EXCEPT !.pc = "move", !.to = "awaiting_checkpoint", !.then = "idle"]
  <2>1. /\ SetCall(c, l) /\ q \in Seqs /\ made' = made
        /\ UNCHANGED <<def, run, ledger, spent, execs, uses>>
    BY <1>7 DEF RegisterStep, Goto, MoveTo
  <2>2. step' = [step EXCEPT ![q] = [st |-> "pending", effect |-> def[q].evidence \/ ~def[q].auto,
                                     attempt |-> 1]]
    BY <1>7 DEF RegisterStep
  <2>3. def[q].evidence \in BOOLEAN /\ def[q].auto \in BOOLEAN
    BY <2>1, DefinitionsAssumption DEF IInv, TypeOK, StepKinds
  <2>4. (def[q].evidence \/ ~def[q].auto) \in BOOLEAN
    BY <2>3
  <2>5. /\ step' \in [Seqs -> [st : StepStates, effect : BOOLEAN, attempt : Nat]]
        /\ \A s \in Seqs : step'[s].st = "verified" => step[s].st = "verified"
    BY <2>1, <2>2, <2>4 DEF IInv, TypeOK, StepStates
  <2>6. l \in Locals /\ l.by \notin Approvals /\ LocalInv(l, execs, spent, uses)
    <3>1. CASE def[q].auto
      <4>1. l = [call[c] EXCEPT !.pc = "dispatch"]
        BY <3>1
      <4>2. l \in Locals /\ l.pc = "dispatch" /\ l.seq = q /\ l.ok = call[c].ok /\ l.by = call[c].by
        BY <1>2, <4>1, Names DEF Locals
      <4>3. QED  BY <1>1, <2>1, <4>2 DEF LocalInv
    <3>2. CASE ~def[q].auto
      <4>1. l = [call[c] EXCEPT !.pc = "move", !.to = "awaiting_checkpoint", !.then = "idle"]
        BY <3>2
      <4>2. QED  BY <1>1, <4>1, Names, MoveLocals
    <3>3. QED  BY <3>1, <3>2
  <2>7. QED
    <3> HIDE DEF l
    <3>1. QED  BY <1>2, <2>1, <2>5, <2>6, QuietStep
               DEF IInv, TypeOK, LedgerFounded, VerifiedWasExecuted
<1>8. CASE LookUpEffect(c)
  <2>1. /\ call[c].seq \in Seqs /\ made' = made /\ UNCHANGED <<def, db, execs, uses>>
    BY <1>3, <1>8 DEF LookUpEffect
  <2>2. CASE CommittedEffect(call[c].seq)
    <3> DEFINE l == [call[c] EXCEPT !.pc = "complete", !.ok = TRUE]
    <3>1. SetCall(c, l)
      BY <1>8, <2>2 DEF LookUpEffect
    <3>2. l \in Locals /\ l.pc = "complete" /\ l.seq = call[c].seq /\ l.by = call[c].by
      BY <1>2, Names DEF Locals
    <3>3. execs[call[c].seq] >= 1
      BY <2>2 DEF CommittedEffect, IInv, LedgerFounded
    <3>4. LocalInv(l, execs, spent, uses)
      BY <1>1, <2>1, <3>2, <3>3 DEF LocalInv, Completing
    <3>5. QED  BY <1>1, <1>2, <2>1, <3>1, <3>2, <3>4, LocalStep
  <2>3. CASE ~CommittedEffect(call[c].seq)
    <3>1. Goto(c, "gate")
      BY <1>8, <2>3 DEF LookUpEffect, Goto
    <3>2. QED  BY <1>1, <1>2, <2>1, <3>1, Names, GotoStep
  <2>4. QED  BY <2>2, <2>3
<1>9. QED  BY <1>4, <1>5, <1>6, <1>7, <1>8

(* An approval is spent: it was unspent, so nobody holds it and it was never *)
(* used.                                                                     *)
LEMMA Spends ==
    ASSUME IInv, NEW c \in Calls, NEW a \in Approvals, SpendApproval(c, a)
    PROVE  IInv'
<1> DEFINE l == [call[c] EXCEPT !.pc = "execute", !.by = a]
<1>1. /\ call[c] \in Locals /\ call[c].pc = "gate" /\ a \notin spent /\ spent' = spent \cup {a}
      /\ SetCall(c, l) /\ UNCHANGED <<def, run, step, ledger, made, execs, uses>>
  BY DEF SpendApproval, IInv, TypeOK
<1>2. l \in Locals /\ l.pc = "execute" /\ l.seq = call[c].seq /\ l.ok = call[c].ok /\ l.by = a
  BY <1>1, Names DEF Locals
<1>3. /\ call' \in [Calls -> Locals] /\ call'[c] = l
      /\ \A d \in Calls : d # c => call'[d] = call[d]
  BY <1>1, <1>2, CallsOf DEF IInv, TypeOK
<1>4. TypeOK'
  BY <1>1, <1>3 DEF IInv, TypeOK
<1>5. uses[a] = 0 /\ \A d \in Calls : call[d].by # a
  BY <1>1 DEF IInv, UnspentUnused, LocalInv
<1>6. call[c].seq \in Seqs /\ ~call[c].ok
  BY <1>1, HoldsNone, Names DEF IInv, LocalInv
<1>7. LocalInv(l, execs, spent', uses)
  BY <1>1, <1>2, <1>5, <1>6 DEF LocalInv
<1>8. ASSUME NEW d \in Calls PROVE LocalInv(call'[d], execs', spent', uses')
  <2>1. CASE d = c
    BY <1>1, <1>3, <1>7, <2>1
  <2>2. CASE d # c
    BY <1>1, <1>3, <2>2 DEF IInv, LocalInv
  <2>3. QED  BY <2>1, <2>2
<1>9. OneHolder'
  <2> HIDE DEF l
  <2>1. SUFFICES ASSUME NEW d \in Calls, NEW e \in Calls, call'[d].by \in Approvals,
                        call'[d].by = call'[e].by
                 PROVE  d = e
    BY DEF OneHolder
  <2>2. CASE d = c \/ e = c
    BY <1>2, <1>3, <1>5, <2>1, <2>2
  <2>3. CASE d # c /\ e # c
    BY <1>3, <2>1, <2>3 DEF IInv, OneHolder
  <2>4. QED  BY <2>2, <2>3
<1>10. UnspentUnused' /\ ApprovalSingleUse' /\ LedgerFounded' /\ VerifiedWasExecuted'
  BY <1>1 DEF IInv, UnspentUnused, ApprovalSingleUse, LedgerFounded, VerifiedWasExecuted
<1>11. (\A d \in Calls : LocalInv(call[d], execs, spent, uses))'
  BY <1>8
<1>12. QED  BY <1>4, <1>9, <1>10, <1>11 DEF IInv

(* The executor runs: the approval it runs under, if any, was never used and *)
(* is let go.                                                                *)
LEMMA Executes ==
    ASSUME IInv, NEW c \in Calls, Execute(c)
    PROVE  IInv'
<1> DEFINE q == call[c].seq
           b == call[c].by
           n == IF step[q].effect THEN "record" ELSE "complete"
           l == [call[c] EXCEPT !.pc = n, !.ok = TRUE, !.by = NoApproval]
<1>1. /\ call[c] \in Locals /\ call[c].pc = "execute" /\ SetCall(c, l)
      /\ UNCHANGED <<def, db, made>>
  BY DEF Execute, IInv, TypeOK
<1>2. /\ execs' = [execs EXCEPT ![q] = @ + 1]
      /\ uses' = IF b \in Approvals THEN [uses EXCEPT ![b] = @ + 1] ELSE uses
  BY DEF Execute
<1>3. q \in Seqs /\ n \in {"record", "complete"}
  BY <1>1, Names DEF IInv, LocalInv
<1>4. /\ execs \in [Seqs -> Nat] /\ uses \in [Approvals -> Nat]
  BY DEF IInv, TypeOK
<1>5. /\ l \in Locals /\ l.pc = n /\ l.seq = q /\ l.ok /\ l.by = NoApproval
  <2> HIDE DEF n
  <2>1. n \in Pcs
    BY <1>3, Names
  <2>2. QED  BY <1>1, <2>1 DEF Locals
<1>6. /\ call' \in [Calls -> Locals] /\ call'[c] = l
      /\ \A d \in Calls : d # c => call'[d] = call[d]
  <2> HIDE DEF l
  <2>1. QED  BY <1>1, <1>5, CallsOf DEF IInv, TypeOK
<1>7. /\ execs' \in [Seqs -> Nat] /\ execs'[q] >= 1
      /\ \A s \in Seqs : execs[s] >= 1 => execs'[s] >= 1
  BY <1>2, <1>3, <1>4
<1>8. /\ uses' \in [Approvals -> Nat] /\ (b \in Approvals => uses'[b] = uses[b] + 1)
      /\ \A a \in Approvals : a # b => uses'[a] = uses[a]
  <2>1. CASE b \in Approvals
    <3>1. uses' = [uses EXCEPT ![b] = @ + 1]
      BY <1>2, <2>1
    <3> HIDE DEF b
    <3>2. QED  BY <1>4, <2>1, <3>1
  <2>2. CASE b \notin Approvals
    BY <1>2, <1>4, <2>2
  <2>3. QED  BY <2>1, <2>2
<1>9. b \in Approvals => b \in spent /\ uses[b] = 0
  BY DEF IInv, LocalInv
<1>10. TypeOK'
  BY <1>1, <1>6, <1>7, <1>8 DEF IInv, TypeOK, db
<1>11. ASSUME NEW d \in Calls PROVE LocalInv(call'[d], execs', spent', uses')
  <2> HIDE DEF l, n, q, b
  <2>0. spent' = spent
    BY <1>1 DEF db
  <2>1. CASE d = c
    BY <1>3, <1>5, <1>6, <1>7, <2>1, NotAnApproval, Names DEF LocalInv
  <2>2. CASE d # c
    <3>1. call'[d] = call[d] /\ LocalInv(call[d], execs, spent, uses)
      BY <1>6, <2>2 DEF IInv
    <3>2. call[d].by \in Approvals => call[d].by # b
      BY <2>2 DEF IInv, OneHolder, b
    <3>3. call[d].ok => call[d].seq \in Seqs
      BY <3>1, Names DEF LocalInv
    <3>4. QED  BY <1>7, <1>8, <2>0, <3>1, <3>2, <3>3 DEF LocalInv
  <2>3. QED  BY <2>1, <2>2
<1>12. OneHolder'
  <2> HIDE DEF l, n, q, b
  <2>1. QED  BY <1>5, <1>6, NotAnApproval DEF IInv, OneHolder
<1>13. UnspentUnused' /\ ApprovalSingleUse' /\ LedgerFounded' /\ VerifiedWasExecuted'
  <2> HIDE DEF l, n, q, b
  <2>0. spent' = spent /\ ledger' = ledger /\ step' = step /\ ledger \subseteq Seqs
    BY <1>1 DEF db, IInv, TypeOK
  <2>1. UnspentUnused'
    BY <1>8, <1>9, <2>0 DEF IInv, UnspentUnused
  <2>2. ApprovalSingleUse'
    BY <1>4, <1>8, <1>9 DEF IInv, ApprovalSingleUse
  <2>3. LedgerFounded' /\ VerifiedWasExecuted'
    BY <1>7, <2>0 DEF IInv, LedgerFounded, VerifiedWasExecuted
  <2>4. QED  BY <2>1, <2>2, <2>3
<1>14. (\A d \in Calls : LocalInv(call[d], execs, spent, uses))'
  BY <1>11
<1>15. QED  BY <1>10, <1>12, <1>13, <1>14 DEF IInv

(* The end of a step. *)
LEMMA Completes ==
    ASSUME IInv, NEW c \in Calls,
           ExecError(c) \/ RecordCommittedEffect(c) \/ CheckStep(c) \/ CompleteStep(c)
    PROVE  IInv'
<1>1. call[c] \in Locals /\ made \in 0..MaxCalls /\ call[c].seq \in Seqs
  BY Names DEF ExecError, RecordCommittedEffect, CheckStep, CompleteStep, IInv, TypeOK, LocalInv
<1>2. CASE ExecError(c)
  <2> DEFINE l == [call[c] EXCEPT !.pc = "complete", !.ok = FALSE, !.by = NoApproval]
  <2>1. SetCall(c, l) /\ made' = made /\ UNCHANGED <<def, db, execs, uses>>
    BY <1>2 DEF ExecError
  <2>2. /\ l \in Locals /\ l.pc = "complete" /\ l.seq = call[c].seq /\ l.ok = FALSE
        /\ l.by = NoApproval
    BY <1>1, Names DEF Locals
  <2>3. LocalInv(l, execs, spent, uses)
    BY <1>1, <2>2, NotAnApproval DEF LocalInv
  <2>4. QED  BY <1>1, <2>1, <2>2, <2>3, NotAnApproval, LocalStep
<1>3. CASE RecordCommittedEffect(c)
  <2> DEFINE l == [call[c] EXCEPT !.pc = "complete"]
  <2>1. /\ SetCall(c, l) /\ ledger' = ledger \cup {call[c].seq} /\ made' = made
        /\ UNCHANGED <<def, run, step, spent, execs, uses>> /\ call[c].pc = "record"
    BY <1>3 DEF RecordCommittedEffect, Goto
  <2>2. /\ l \in Locals /\ l.pc = "complete" /\ l.seq = call[c].seq /\ l.ok = call[c].ok
        /\ l.by = call[c].by
    BY <1>1, Names DEF Locals
  <2>3. call[c].by \notin Approvals /\ execs[call[c].seq] >= 1
    BY <2>1, HoldsNone DEF IInv, LocalInv
  <2>4. LocalInv(l, execs, spent, uses)
    BY <1>1, <2>2, <2>3 DEF LocalInv, Completing
  <2>5. QED  BY <1>1, <2>1, <2>2, <2>3, <2>4, QuietStep
             DEF IInv, TypeOK, LedgerFounded, VerifiedWasExecuted
<1>4. CASE CheckStep(c)
  <2>1. /\ Return(c) \/ Goto(c, "completing")
        /\ made' = made /\ UNCHANGED <<def, db, execs, uses>> /\ call[c].pc = "complete"
    BY <1>4 DEF CheckStep
  <2>2. CASE Return(c)
    BY <2>1, <2>2, ReturnStep
  <2>3. CASE Goto(c, "completing")
    BY <1>1, <2>1, <2>3, HoldsNone, Names, GotoStep
  <2>4. QED  BY <2>1, <2>2, <2>3
<1>5. CASE CompleteStep(c)
  <2> DEFINE q == call[c].seq
             l == IF call[c].ok THEN [call[c] EXCEPT !.pc = "loop", !.seq = q + 1, !.ok = FALSE]
                  ELSE [call[c] EXCEPT !.pc = "move", !.to = "failed", !.then = "idle"]
  <2>1. /\ SetCall(c, l) /\ made' = made /\ call[c].pc = "completing"
        /\ UNCHANGED <<def, run, ledger, spent, execs, uses>>
    BY <1>5 DEF CompleteStep, MoveTo
  <2>2. /\ step' = [step EXCEPT ![q].st = Completion(step[q].effect, call[c].ok)]
        /\ call[c].by \notin Approvals /\ (call[c].ok => execs[q] >= 1)
    BY <1>5, <2>1, HoldsNone DEF CompleteStep, IInv, LocalInv
  <2>3. /\ Completion(step[q].effect, call[c].ok) \in StepStates
        /\ Completion(step[q].effect, call[c].ok) = "verified" => call[c].ok
    BY DEF Completion, StepStates
  <2>4. /\ step' \in [Seqs -> [st : StepStates, effect : BOOLEAN, attempt : Nat]]
        /\ \A s \in Seqs : step'[s].st = "verified" => step[s].st = "verified" \/ (s = q /\ call[c].ok)
    BY <1>1, <2>2, <2>3 DEF IInv, TypeOK
  <2>5. l \in Locals /\ l.by \notin Approvals /\ LocalInv(l, execs, spent, uses)
    <3>1. CASE call[c].ok
      <4>1. l = [call[c] EXCEPT !.pc = "loop", !.seq = q + 1, !.ok = FALSE]
        BY <3>1
      <4>2. q + 1 \in 0..Len /\ "loop" \in Pcs
        BY <1>1, LenAssumption, Names DEF Seqs
      <4>3. l \in Locals
        BY <1>1, <4>1, <4>2 DEF Locals
      <4>4. l.pc = "loop" /\ l.ok = FALSE /\ l.by = call[c].by
        BY <1>1, <4>1 DEF Locals
      <4>5. QED  BY <2>2, <4>3, <4>4 DEF LocalInv, AtStep, Moving
    <3>2. CASE ~call[c].ok
      <4>1. l = [call[c] EXCEPT !.pc = "move", !.to = "failed", !.then = "idle"]
        BY <3>2
      <4>2. QED  BY <2>2, <3>2, <4>1, Names, MoveLocals
    <3>3. QED  BY <3>1, <3>2
  <2>6. QED
    <3> HIDE DEF l
    <3>1. QED  BY <1>1, <2>1, <2>2, <2>4, <2>5, QuietStep
               DEF IInv, TypeOK, LedgerFounded, VerifiedWasExecuted
<1>6. QED  BY <1>2, <1>3, <1>4, <1>5

-----------------------------------------------------------------------------
(* Every step keeps the inductive invariant. *)
LEMMA InvStep == IInv /\ [Next]_vars => IInv'
<1> SUFFICES ASSUME IInv, [Next]_vars PROVE IInv'
  OBVIOUS
<1>1. CASE UNCHANGED vars
  BY <1>1 DEF vars, db, IInv, TypeOK, OneHolder, UnspentUnused, ApprovalSingleUse,
              LedgerFounded, VerifiedWasExecuted
<1>2. ASSUME NEW c \in Calls, Stop(c) PROVE IInv'
  BY <1>2, ReturnStep DEF Stop
<1>3. ASSUME NEW c \in Calls, Engine(c) PROVE IInv'
  BY <1>3, Searches, Transitions, LoopAndGate, Spends, Executes, Completes DEF Engine
<1>4. QED  BY <1>1, <1>2, <1>3, Starts DEF Next

(* The inductive invariant holds in every reachable state. *)
THEOREM Invariance == Spec => []IInv
  BY InvInit, InvStep, PTL DEF Spec

(* The type invariant. *)
THEOREM TypeCorrect == Spec => []TypeOK
<1>1. IInv => TypeOK
  BY DEF IInv
<1>2. QED  BY <1>1, Invariance, PTL

(* authorize_mutating_action spends an approval before the executor runs: no *)
(* interleaving of resumes, retries and crashes lets one approval run it     *)
(* twice.                                                                    *)
THEOREM ApprovalSingleUseHolds == Spec => []ApprovalSingleUse
<1>1. IInv => ApprovalSingleUse
  BY DEF IInv
<1>2. QED  BY <1>1, Invariance, PTL

(* complete_step and the effect ledger: a verified step was carried out.     *)
THEOREM VerifiedWasExecutedHolds == Spec => []VerifiedWasExecuted
<1>1. IInv => VerifiedWasExecuted
  BY DEF IInv
<1>2. QED  BY <1>1, Invariance, PTL

-----------------------------------------------------------------------------
(***************************************************************************)
(* One call at a time.                                                     *)
(***************************************************************************)
Driving == {"loop", "dispatch", "gate", "execute", "record", "complete", "completing"}

(* What a call knows while nobody else is at the run: which state it is in,  *)
(* that every step before the one it works on is verified, that the step it  *)
(* is about to dispatch still waits, that one about to be executed has no    *)
(* committed effect, and that a move to done or to the checkpoint is due.    *)
CallInv(c) ==
    LET l == call[c]
        to(n) == l.pc \in Moving /\ l.then = n
    IN  /\ l.pc = "idle" => l.seq = 0
        /\ l.pc = "loop" \/ to("loop") => \A t \in Seqs : t < l.seq => step[t].st = "verified"
        /\ l.pc \in AtStep => step[l.seq].st # NoStep
        /\ l.pc \in {"dispatch", "gate"} \/ to("dispatch") => step[l.seq].st = "pending"
        /\ l.pc \in {"reopening", "completing"} => step[l.seq].st # "verified"
        /\ l.pc \in {"gate", "execute"} => l.seq \notin ledger
        /\ l.pc = "record" => step[l.seq].effect
        /\ l.pc \in Driving => run = "running"
        /\ l.pc \in {"find_frontier", "reopen", "reopening"} => run = "failed"
        /\ l.pc \in Moving /\ l.then # "idle" => l.to = "running"
        /\ l.pc \in Moving /\ l.to = "done" => \A t \in Seqs : step[t].st = "verified"
        /\ l.pc \in Moving /\ l.to = "awaiting_checkpoint" => \E t \in Seqs : step[t].st = "pending"
        /\ run = "done" => l.pc = "idle"

LedgerRegistered == \A s \in ledger : step[s].st # NoStep /\ step[s].effect

PausedWaits == run = "awaiting_checkpoint" => \E s \in Seqs : step[s].st = "pending"

SoleInv ==
    /\ VerifiedPrefix /\ DoneIsComplete /\ PausedWaits /\ LedgerRegistered
    /\ \A c \in Calls : CallInv(c)

OneCaller == \A c, d \in Calls : c = d

(* Nobody else has locals: the caller's new ones are all there is to show. *)
LEMMA SoleCall ==
    ASSUME OneCaller, NEW c \in Calls, CallInv(c)'
    PROVE  (\A d \in Calls : CallInv(d))'
<1>1. \A d \in Calls : d = c
  BY DEF OneCaller
<1> QED  BY <1>1

(* A step that leaves the rows alone. *)
LEMMA SoleLocalStep ==
    ASSUME OneCaller, SoleInv, NEW c \in Calls, CallInv(c)', UNCHANGED <<run, step, ledger>>
    PROVE  SoleInv'
<1>1. (\A d \in Calls : CallInv(d))'
  BY SoleCall
<1> QED
  BY <1>1 DEF SoleInv, VerifiedPrefix, DoneIsComplete, PausedWaits, LedgerRegistered

(* Starting a call. *)
LEMMA SoleStarts ==
    ASSUME OneCaller, IInv, SoleInv, NEW c \in Calls,
           \/ RunWorkflow(c) \/ ResumeWorkflow(c) \/ RetryWorkflow(c) \/ Cancel(c) \/ Sweep(c)
    PROVE  SoleInv'
<1>1. call[c] \in Locals /\ call \in [Calls -> Locals] /\ CallInv(c)
  BY DEF IInv, TypeOK, SoleInv
<1>2. call[c].pc = "idle" /\ call[c].seq = 0
  BY <1>1 DEF RunWorkflow, ResumeWorkflow, RetryWorkflow, Cancel, Sweep, Begin, CallInv
<1>3. CASE RunWorkflow(c)
  <2>1. /\ run' = "pending" /\ UNCHANGED <<step, ledger>>
        /\ call'[c] = [call[c] EXCEPT !.pc = "move", !.to = "running", !.then = "loop"]
    BY <1>1, <1>3 DEF RunWorkflow, MoveTo, SetCall
  <2>2. /\ call'[c].pc = "move" /\ call'[c].to = "running" /\ call'[c].then = "loop"
        /\ call'[c].seq = 0
    BY <1>1, <1>2, <2>1 DEF Locals
  <2>3. CallInv(c)'
    BY <2>1, <2>2 DEF CallInv, Moving, AtStep, Driving, Seqs
  <2> QED
    BY <2>1, <2>3, SoleCall DEF SoleInv, VerifiedPrefix, DoneIsComplete, PausedWaits, LedgerRegistered
<1>4. CASE ResumeWorkflow(c) \/ RetryWorkflow(c)
  <2>1. /\ UNCHANGED <<run, step, ledger>>
        /\ \/ run = "awaiting_checkpoint" /\ call'[c] = [call[c] EXCEPT !.pc = "find_paused"]
           \/ run = "failed" /\ call'[c] = [call[c] EXCEPT !.pc = "find_frontier"]
    BY <1>1, <1>4 DEF ResumeWorkflow, RetryWorkflow, Goto, SetCall, db
  <2>2. CallInv(c)'
    BY <1>1, <1>2, <2>1 DEF CallInv, Moving, AtStep, Driving, Locals
  <2> QED
    BY <2>1, <2>2, SoleLocalStep
<1>5. CASE Cancel(c) \/ Sweep(c)
  <2>1. /\ UNCHANGED <<run, step, ledger>> /\ run # "done"
        /\ \E t \in {"cancelled", "failed"} :
             call'[c] = [call[c] EXCEPT !.pc = "move", !.to = t, !.then = "idle"]
    BY <1>1, <1>5 DEF Cancel, Sweep, MoveTo, SetCall, db, TerminalRun, InFlight
  <2>2. CallInv(c)'
    BY <1>1, <1>2, <2>1 DEF CallInv, Moving, AtStep, Driving, Locals
  <2> QED
    BY <2>1, <2>2, SoleLocalStep
<1> QED
  BY <1>3, <1>4, <1>5

(* Return and a crash: what a call at rest has to satisfy. *)
LEMMA SoleReturns ==
    ASSUME OneCaller, IInv, SoleInv, NEW c \in Calls, Return(c), UNCHANGED <<run, step, ledger>>
    PROVE  SoleInv'
<1>1. call'[c] = Rest
  BY DEF Return, SetCall, IInv, TypeOK
<1>2. CallInv(c)'
  BY <1>1 DEF CallInv, Rest, Moving, AtStep, Driving
<1> QED
  BY <1>2, SoleLocalStep

(* Finding the step to go on from, and reopening it. *)
LEMMA SoleSearches ==
    ASSUME OneCaller, IInv, SoleInv, NEW c \in Calls,
           \/ FindPausedSeq(c) \/ FindRetryFrontierSeq(c) \/ CheckReopen(c) \/ ReopenFailedStep(c)
    PROVE  SoleInv'
<1>1. call[c] \in Locals /\ call \in [Calls -> Locals] /\ CallInv(c)
  BY DEF IInv, TypeOK, SoleInv
<1>2. CASE FindPausedSeq(c) \/ FindRetryFrontierSeq(c) \/ CheckReopen(c)
  <2>1. UNCHANGED <<run, step, ledger>>
    BY <1>2 DEF FindPausedSeq, FindRetryFrontierSeq, CheckReopen, db
  <2>2. CASE Return(c)
    BY <2>1, <2>2, SoleReturns
  <2>3. ASSUME NEW s \in PausedSeq, call[c].pc = "find_paused",
               SetCall(c, [call[c] EXCEPT !.pc = "move", !.seq = s, !.to = "running",
                                          !.then = "dispatch"])
        PROVE  SoleInv'
    <3>1. s \in Seqs /\ step[s].st = "pending"
      BY DEF PausedSeq, FirstStep
    <3>2. /\ call'[c].pc = "move" /\ call'[c].seq = s /\ call'[c].to = "running"
          /\ call'[c].then = "dispatch"
      BY <1>1, <2>3 DEF SetCall, Locals
    <3>3. run # "done"
      BY <1>1, <2>3 DEF CallInv
    <3>4. CallInv(c)'
      BY <2>1, <3>1, <3>2, <3>3 DEF CallInv, Moving, AtStep, Driving
    <3> QED
      BY <2>1, <3>4, SoleLocalStep
  <2>4. ASSUME NEW s \in FrontierSeq, call[c].pc = "find_frontier",
               SetCall(c, [call[c] EXCEPT !.pc = "reopen", !.seq = s])
        PROVE  SoleInv'
    <3>1. s \in Seqs /\ step[s].st # NoStep
      BY DEF FrontierSeq, FirstStep
    <3>2. call'[c].pc = "reopen" /\ call'[c].seq = s /\ run = "failed"
      BY <1>1, <2>4 DEF SetCall, Locals, CallInv
    <3>3. CallInv(c)'
      BY <2>1, <3>1, <3>2 DEF CallInv, Moving, AtStep, Driving
    <3> QED
      BY <2>1, <3>3, SoleLocalStep
  <2>5. CASE CheckReopen(c) /\ step[call[c].seq].st # "verified"
    <3>1. call'[c].pc = "reopening" /\ call'[c].seq = call[c].seq
      BY <1>1, <2>5 DEF CheckReopen, Goto, SetCall, Locals
    <3>2. CallInv(c)'
      BY <1>1, <2>1, <2>5, <3>1 DEF CallInv, CheckReopen, Moving, AtStep, Driving
    <3> QED
      BY <2>1, <3>2, SoleLocalStep
  <2> QED
    BY <1>2, <2>2, <2>3, <2>4, <2>5 DEF FindPausedSeq, FindRetryFrontierSeq, CheckReopen
<1>3. CASE ReopenFailedStep(c)
  <2> DEFINE s == call[c].seq
  <2>1. /\ s \in Seqs /\ step[s].st \notin {"verified", NoStep} /\ run = "failed"
    BY <1>1, <1>3, Names DEF ReopenFailedStep, CallInv, IInv, LocalInv, AtStep
  <2>2. /\ UNCHANGED <<run, ledger>>
        /\ step' = [step EXCEPT ![s].st = "pending", ![s].attempt = @ + 1]
        /\ call'[c] = [call[c] EXCEPT !.pc = "move", !.to = "running", !.then = "dispatch"]
    BY <1>1, <1>3 DEF ReopenFailedStep, MoveTo, SetCall
  <2>3. /\ call'[c].pc = "move" /\ call'[c].to = "running" /\ call'[c].then = "dispatch"
        /\ call'[c].seq = s
    BY <1>1, <2>2 DEF Locals
  <2>4. /\ step'[s].st = "pending" /\ step'[s].effect = step[s].effect
        /\ \A t \in Seqs : t # s => step'[t] = step[t]
    BY <2>1, <2>2 DEF IInv, TypeOK
  <2> HIDE DEF s
  <2>5. CallInv(c)'
    BY <2>1, <2>2, <2>3, <2>4 DEF CallInv, Moving, AtStep, Driving
  <2>6. VerifiedPrefix'
    BY <2>1, <2>4 DEF SoleInv, VerifiedPrefix, NoStep, Seqs
  <2>7. DoneIsComplete' /\ PausedWaits'
    BY <2>1, <2>2 DEF DoneIsComplete, PausedWaits
  <2>8. LedgerRegistered'
    BY <2>2, <2>4 DEF SoleInv, LedgerRegistered, IInv, TypeOK, NoStep
  <2> QED
    BY <2>5, <2>6, <2>7, <2>8, SoleCall DEF SoleInv
<1> QED
  BY <1>2, <1>3

(* set_run_state. *)
LEMMA SoleTransitions ==
    ASSUME OneCaller, IInv, SoleInv, NEW c \in Calls,
           CheckTransition(c) \/ CheckComplete(c) \/ WriteRunState(c)
    PROVE  SoleInv'
<1>1. call[c] \in Locals /\ call \in [Calls -> Locals] /\ CallInv(c)
  BY DEF IInv, TypeOK, SoleInv
<1>2. CASE CheckTransition(c) \/ CheckComplete(c)
  <2>1. UNCHANGED <<run, step, ledger>>
    BY <1>2 DEF CheckTransition, CheckComplete, db
  <2>2. CASE Return(c)
    BY <2>1, <2>2, SoleReturns
  <2>3. CASE ~Return(c)
    <3>1. \E p \in {"views", "write"} : call'[c] = [call[c] EXCEPT !.pc = p]
      BY <1>1, <1>2, <2>3 DEF CheckTransition, CheckComplete, Goto, SetCall
    <3>2. /\ call[c].pc \in Moving /\ call'[c].pc \in {"views", "write"}
          /\ call'[c].to = call[c].to /\ call'[c].then = call[c].then /\ call'[c].seq = call[c].seq
      BY <1>1, <1>2, <3>1 DEF CheckTransition, CheckComplete, Moving, Locals
    <3>3. CallInv(c)'
      BY <1>1, <2>1, <3>2 DEF CallInv, Moving, AtStep, Driving
    <3> QED
      BY <2>1, <3>3, SoleLocalStep
  <2> QED
    BY <2>2, <2>3
<1>3. CASE WriteRunState(c)
  <2>1. /\ call[c].pc = "write" /\ run' = call[c].to /\ UNCHANGED <<step, ledger>>
        /\ call[c].then \in {"idle", "loop", "dispatch"}
    BY <1>1, <1>3, FieldsOfLocals DEF WriteRunState
  <2>2. DoneIsComplete' /\ PausedWaits'
    BY <1>1, <2>1 DEF CallInv, DoneIsComplete, PausedWaits, Moving
  <2>3. VerifiedPrefix' /\ LedgerRegistered'
    BY <2>1 DEF SoleInv, VerifiedPrefix, LedgerRegistered
  <2>4. CASE call[c].then = "idle"
    <3>1. call'[c] = Rest
      BY <1>1, <1>3, <2>4 DEF WriteRunState, Return, SetCall
    <3>2. CallInv(c)'
      BY <3>1 DEF CallInv, Rest, Moving, AtStep, Driving
    <3> QED
      BY <2>2, <2>3, <3>2, SoleCall DEF SoleInv
  <2>5. CASE call[c].then # "idle"
    <3>1. call'[c] = [call[c] EXCEPT !.pc = call[c].then]
      BY <1>1, <1>3, <2>5 DEF WriteRunState, Goto, SetCall
    <3>2. call'[c].pc = call[c].then /\ call'[c].seq = call[c].seq
      BY <1>1, <3>1 DEF Locals
    <3>3. run' = "running"
      BY <1>1, <2>1, <2>5 DEF CallInv, Moving
    <3>4. CallInv(c)'
      BY <1>1, <2>1, <2>5, <3>2, <3>3 DEF CallInv, Moving, AtStep, Driving, NoStep
    <3> QED
      BY <2>2, <2>3, <3>4, SoleCall DEF SoleInv
  <2> QED
    BY <2>4, <2>5
<1> QED
  BY <1>2, <1>3

(* The loop, the ledger and the gate, where they write no step. *)
LEMMA SoleGate ==
    ASSUME OneCaller, IInv, SoleInv, NEW c \in Calls,
           \/ FinishLoop(c) \/ StepExists(c) \/ LookUpEffect(c)
           \/ Allow(c) \/ Deny(c) \/ RequiresApproval(c) \/ RefuseApproval(c)
           \/ \E a \in Approvals : SpendApproval(c, a)
           \/ Execute(c) \/ ExecError(c) \/ CheckStep(c)
    PROVE  SoleInv'
<1>1. call[c] \in Locals /\ call \in [Calls -> Locals] /\ CallInv(c)
  BY DEF IInv, TypeOK, SoleInv
<1>2. UNCHANGED <<run, step, ledger>>
  BY DEF FinishLoop, StepExists, LookUpEffect, Allow, Deny, RequiresApproval, RefuseApproval,
         SpendApproval, Execute, ExecError, CheckStep, db
<1>3. SUFFICES ASSUME ~Return(c)
               PROVE  CallInv(c)'
  BY <1>2, SoleReturns, SoleLocalStep
<1>4. call[c].pc \in Driving /\ run = "running"
  BY <1>1 DEF FinishLoop, StepExists, LookUpEffect, Allow, Deny, RequiresApproval, RefuseApproval,
              SpendApproval, Execute, ExecError, CheckStep, Driving, CallInv
<1>5. CASE FinishLoop(c)
  <2>1. /\ call'[c].pc = "move" /\ call'[c].to = "done" /\ call'[c].then = "idle"
        /\ call[c].pc = "loop" /\ call[c].seq = Len
    BY <1>1, <1>5 DEF FinishLoop, MoveTo, SetCall, Locals
  <2>2. \A t \in Seqs : step[t].st = "verified"
    BY <1>1, <2>1, LenAssumption DEF CallInv, Seqs
  <2> QED
    BY <1>2, <1>4, <2>1, <2>2 DEF CallInv, Moving, AtStep, Driving
<1>6. CASE LookUpEffect(c)
  <2>1. /\ call[c].pc = "dispatch" /\ call'[c].seq = call[c].seq
        /\ IF CommittedEffect(call[c].seq) THEN call'[c].pc = "complete" ELSE call'[c].pc = "gate"
    BY <1>1, <1>6 DEF LookUpEffect, SetCall, Locals
  <2>2. step[call[c].seq].st = "pending"
    BY <1>1, <2>1 DEF CallInv
  <2>3. ~CommittedEffect(call[c].seq) => call[c].seq \notin ledger
    BY DEF CommittedEffect, SoleInv, LedgerRegistered
  <2> QED
    BY <1>2, <1>4, <2>1, <2>2, <2>3 DEF CallInv, Moving, AtStep, Driving, NoStep
<1>7. CASE Allow(c) \/ \E a \in Approvals : SpendApproval(c, a)
  <2>0. /\ call[c].pc = "gate"
        /\ \/ call'[c] = [call[c] EXCEPT !.pc = "execute"]
           \/ \E a \in Approvals : call'[c] = [call[c] EXCEPT !.pc = "execute", !.by = a]
    BY <1>1, <1>7 DEF Allow, SpendApproval, Goto, SetCall
  <2>1. call[c].pc = "gate" /\ call'[c].pc = "execute" /\ call'[c].seq = call[c].seq
    BY <1>1, <2>0 DEF Locals
  <2> QED
    BY <1>1, <1>2, <1>4, <2>1 DEF CallInv, Moving, AtStep, Driving
<1>8. CASE Deny(c) \/ RequiresApproval(c) \/ RefuseApproval(c)
  <2>1. /\ call[c].pc = "gate" /\ call'[c].pc = "move" /\ call'[c].then = "idle"
        /\ call'[c].to \in {"failed", "awaiting_checkpoint"}
    BY <1>1, <1>8 DEF Deny, RequiresApproval, RefuseApproval, MoveTo, SetCall, Locals
  <2>2. call[c].seq \in Seqs /\ step[call[c].seq].st = "pending"
    BY <1>1, <2>1, Names DEF CallInv, IInv, LocalInv
  <2> QED
    BY <1>2, <1>4, <2>1, <2>2 DEF CallInv, Moving, AtStep, Driving
<1>9. CASE Execute(c) \/ ExecError(c)
  <2>0. /\ call[c].pc = "execute"
        /\ \E p \in {"record", "complete"}, o \in BOOLEAN :
             /\ call'[c] = [call[c] EXCEPT !.pc = p, !.ok = o, !.by = NoApproval]
             /\ p = "record" => step[call[c].seq].effect
    BY <1>1, <1>9 DEF Execute, ExecError, SetCall
  <2>1. /\ call[c].pc = "execute" /\ call'[c].seq = call[c].seq
        /\ call'[c].pc = "complete" \/ (call'[c].pc = "record" /\ step[call[c].seq].effect)
    BY <1>1, <2>0 DEF Locals
  <2> QED
    BY <1>1, <1>2, <1>4, <2>1 DEF CallInv, Moving, AtStep, Driving
<1>10. CASE CheckStep(c)
  <2>1. /\ call[c].pc = "complete" /\ call'[c].seq = call[c].seq /\ call'[c].pc = "completing"
        /\ step[call[c].seq].st # "verified"
    BY <1>1, <1>3, <1>10 DEF CheckStep, Goto, SetCall, Locals
  <2> QED
    BY <1>1, <1>2, <1>4, <2>1 DEF CallInv, Moving, AtStep, Driving
<1> QED
  BY <1>3, <1>5, <1>6, <1>7, <1>8, <1>9, <1>10 DEF StepExists

(* A step is registered: the steps before it are verified, and none after it *)
(* is there, because it was not.                                             *)
LEMMA SoleRegisters ==
    ASSUME OneCaller, IInv, SoleInv, NEW c \in Calls, RegisterStep(c)
    PROVE  SoleInv'
<1> DEFINE s == call[c].seq
<1>1. call[c] \in Locals /\ call \in [Calls -> Locals] /\ CallInv(c)
  BY DEF IInv, TypeOK, SoleInv
<1>2. /\ call[c].pc = "loop" /\ s \in Seqs /\ step[s].st = NoStep /\ run = "running"
      /\ UNCHANGED <<run, ledger>>
      /\ \A t \in Seqs : t < s => step[t].st = "verified"
  BY <1>1 DEF RegisterStep, CallInv, Driving
<1>3. step'[s].st = "pending" /\ \A t \in Seqs : t # s => step'[t] = step[t]
  BY <1>2 DEF RegisterStep, IInv, TypeOK
<1>a. \/ call'[c] = [call[c] EXCEPT !.pc = "dispatch"]
      \/ call'[c] = [call[c] EXCEPT !.pc = "move", !.to = "awaiting_checkpoint", !.then = "idle"]
  BY <1>1 DEF RegisterStep, Goto, MoveTo, SetCall
<1>4. /\ call'[c].seq = s
      /\ \/ call'[c].pc = "dispatch"
         \/ call'[c].pc = "move" /\ call'[c].to = "awaiting_checkpoint" /\ call'[c].then = "idle"
  BY <1>1, <1>a DEF Locals
<1> HIDE DEF s
<1>5. CallInv(c)'
  BY <1>2, <1>3, <1>4 DEF CallInv, Moving, AtStep, Driving, NoStep
<1>6. VerifiedPrefix'
  BY <1>2, <1>3 DEF SoleInv, VerifiedPrefix, NoStep, Seqs
<1>7. DoneIsComplete' /\ PausedWaits'
  BY <1>2 DEF DoneIsComplete, PausedWaits
<1>8. LedgerRegistered'
  BY <1>2, <1>3 DEF SoleInv, LedgerRegistered, IInv, TypeOK
<1> QED
  BY <1>5, <1>6, <1>7, <1>8, SoleCall DEF SoleInv

(* An effect is committed, and a step completed. *)
LEMMA SoleCompletes ==
    ASSUME OneCaller, IInv, SoleInv, NEW c \in Calls, RecordCommittedEffect(c) \/ CompleteStep(c)
    PROVE  SoleInv'
<1> DEFINE s == call[c].seq
<1>1. call[c] \in Locals /\ call \in [Calls -> Locals] /\ CallInv(c)
  BY DEF IInv, TypeOK, SoleInv
<1>2. /\ call[c].pc \in {"record", "completing"} /\ s \in Seqs /\ run = "running" /\ run' = run
      /\ step[s].st # NoStep
  BY <1>1, Names DEF RecordCommittedEffect, CompleteStep, CallInv, Driving, IInv, LocalInv, AtStep
<1>3. DoneIsComplete' /\ PausedWaits'
  BY <1>2 DEF DoneIsComplete, PausedWaits
<1>4. CASE RecordCommittedEffect(c)
  <2>1. /\ call'[c].pc = "complete" /\ call'[c].seq = s /\ step' = step /\ ledger' = ledger \cup {s}
        /\ step[s].effect
    BY <1>1, <1>4 DEF RecordCommittedEffect, Goto, SetCall, Locals, CallInv
  <2> HIDE DEF s
  <2>2. CallInv(c)'
    BY <1>2, <2>1 DEF CallInv, Moving, AtStep, Driving
  <2>3. VerifiedPrefix' /\ LedgerRegistered'
    BY <1>2, <2>1 DEF SoleInv, VerifiedPrefix, LedgerRegistered
  <2> QED
    BY <1>3, <2>2, <2>3, SoleCall DEF SoleInv
<1>5. CASE CompleteStep(c)
  <2> DEFINE e == Completion(step[s].effect, call[c].ok)
  <2>1. /\ step[s].st # "verified" /\ e # NoStep /\ (call[c].ok => e = "verified")
    BY <1>1, <1>5 DEF CompleteStep, CallInv, Completion, NoStep
  <2>2. step' = [step EXCEPT ![s].st = e] /\ ledger' = ledger
    BY <1>5 DEF CompleteStep
  <2>3. /\ step'[s].st = e /\ step'[s].effect = step[s].effect
        /\ \A t \in Seqs : t # s => step'[t] = step[t]
    BY <1>2, <2>2 DEF IInv, TypeOK
  <2>a. \/ call[c].ok /\ call'[c] = [call[c] EXCEPT !.pc = "loop", !.seq = s + 1, !.ok = FALSE]
        \/ call'[c] = [call[c] EXCEPT !.pc = "move", !.to = "failed", !.then = "idle"]
    BY <1>1, <1>5 DEF CompleteStep, MoveTo, SetCall
  <2>4. \/ call[c].ok /\ call'[c].pc = "loop" /\ call'[c].seq = s + 1
        \/ call'[c].pc = "move" /\ call'[c].to = "failed" /\ call'[c].then = "idle"
    BY <1>1, <2>a DEF Locals
  <2>5. \A t \in Seqs : t < s => step[t].st = "verified"
    BY <1>2 DEF SoleInv, VerifiedPrefix
  <2> HIDE DEF s, e
  <2>6. CallInv(c)'
    BY <1>2, <2>1, <2>3, <2>4, <2>5 DEF CallInv, Moving, AtStep, Driving, Seqs
  <2>7. VerifiedPrefix'
    BY <1>2, <2>1, <2>3 DEF SoleInv, VerifiedPrefix, NoStep, Seqs
  <2>8. LedgerRegistered'
    BY <1>2, <2>1, <2>2, <2>3 DEF SoleInv, LedgerRegistered, IInv, TypeOK
  <2> QED
    BY <1>3, <2>6, <2>7, <2>8, SoleCall DEF SoleInv
<1> QED
  BY <1>4, <1>5

-----------------------------------------------------------------------------
LEMMA SoleInit == Init => SoleInv
<1> SUFFICES ASSUME Init PROVE SoleInv
  OBVIOUS
<1>1. /\ run = NoRun /\ ledger = {} /\ \A s \in Seqs : step[s].st = NoStep
      /\ \A c \in Calls : call[c] = Rest
  BY DEF Init
<1>2. \A c \in Calls : CallInv(c)
  BY <1>1 DEF CallInv, Rest, Moving, AtStep, Driving, NoRun
<1> QED
  BY <1>1, <1>2 DEF SoleInv, VerifiedPrefix, DoneIsComplete, PausedWaits, LedgerRegistered, NoRun

LEMMA SoleStep == ASSUME OneCaller PROVE IInv /\ SoleInv /\ [Next]_vars => SoleInv'
<1> SUFFICES ASSUME IInv, SoleInv, [Next]_vars PROVE SoleInv'
  OBVIOUS
<1>1. CASE UNCHANGED vars
  <2>1. ASSUME NEW c \in Calls PROVE CallInv(c)'
    BY <1>1 DEF vars, db, SoleInv, CallInv
  <2> QED
    BY <1>1, <2>1 DEF vars, db, SoleInv, VerifiedPrefix, DoneIsComplete, PausedWaits, LedgerRegistered
<1>2. ASSUME NEW c \in Calls, Stop(c) PROVE SoleInv'
  BY <1>2, SoleReturns DEF Stop, db
<1>3. ASSUME NEW c \in Calls, Engine(c) PROVE SoleInv'
  BY <1>3, SoleSearches, SoleTransitions, SoleGate, SoleRegisters, SoleCompletes DEF Engine
<1> QED
  BY <1>1, <1>2, <1>3, SoleStarts DEF Next

LEMMA SoleInvariance == OneCaller => (Spec => [](IInv /\ SoleInv))
<1> SUFFICES ASSUME OneCaller PROVE Spec => [](IInv /\ SoleInv)
  OBVIOUS
<1>1. IInv /\ SoleInv /\ [Next]_vars => IInv' /\ SoleInv'
  BY InvStep, SoleStep
<1> QED
  BY <1>1, InvInit, SoleInit, PTL DEF Spec

(* One call at a time: whatever calls pause, crash, resume and retry, the      *)
(* registered steps are a prefix of the definition and only the last of them  *)
(* may be unverified, which the searches of resume and retry rely on.         *)
THEOREM VerifiedPrefixHolds == OneCaller => (Spec => []VerifiedPrefix)
<1>1. SoleInv => VerifiedPrefix
  BY DEF SoleInv
<1> SUFFICES ASSUME OneCaller PROVE Spec => []VerifiedPrefix
  OBVIOUS
<1>2. Spec => [](IInv /\ SoleInv)
  BY SoleInvariance
<1> QED
  BY <1>1, <1>2, PTL

(* One call at a time: a run is done only when every step of its definition   *)
(* was verified, although run_is_complete looks at side-effect steps only.    *)
THEOREM DoneIsCompleteHolds == OneCaller => (Spec => []DoneIsComplete)
<1>1. SoleInv => DoneIsComplete
  BY DEF SoleInv
<1> SUFFICES ASSUME OneCaller PROVE Spec => []DoneIsComplete
  OBVIOUS
<1>2. Spec => [](IInv /\ SoleInv)
  BY SoleInvariance
<1> QED
  BY <1>1, <1>2, PTL

(* One call at a time: find_paused_seq finds the one step a paused run waits  *)
(* for, so every paused run can be resumed.                                   *)
THEOREM PausedIsResumableHolds == OneCaller => (Spec => []PausedIsResumable)
<1>1. SoleInv => PausedIsResumable
  <2> SUFFICES ASSUME SoleInv, run = "awaiting_checkpoint"
               PROVE  \E s \in PausedSeq : \A t \in Seqs : step[t].st \in {"verified", NoStep} \/ t = s
    BY DEF PausedIsResumable
  <2>1. PICK s \in Seqs : step[s].st = "pending"
    BY DEF SoleInv, PausedWaits
  <2>2. \A t \in Seqs : (t < s => step[t].st = "verified") /\ (s < t => step[t].st = NoStep)
    BY <2>1 DEF SoleInv, VerifiedPrefix, NoStep
  <2>3. 0..(s - 1) \subseteq Seqs /\ \A t \in 0..(s - 1) : t < s
    BY LenAssumption DEF Seqs
  <2>4. s \in PausedSeq
    BY <2>1, <2>2, <2>3 DEF PausedSeq, FirstStep, NoStep
  <2>5. \A t \in Seqs : t = s \/ t < s \/ s < t
    BY DEF Seqs
  <2> QED
    BY <2>2, <2>4, <2>5
<1> SUFFICES ASSUME OneCaller PROVE Spec => []PausedIsResumable
  OBVIOUS
<1>2. Spec => [](IInv /\ SoleInv)
  BY SoleInvariance
<1> QED
  BY <1>1, <1>2, PTL

(* One call at a time: dispatch_step_idempotent never lets the executor carry *)
(* out a step whose effect is in the ledger, across crashes and retries.      *)
THEOREM CommittedNotReExecutedHolds == OneCaller => (Spec => CommittedNotReExecuted)
<1> SUFFICES ASSUME OneCaller PROVE Spec => CommittedNotReExecuted
  OBVIOUS
<1>1. IInv /\ SoleInv /\ [Next]_vars => [\A s \in ledger : execs'[s] = execs[s]]_vars
  <2> SUFFICES ASSUME IInv, SoleInv, Next, NEW s \in ledger PROVE execs'[s] = execs[s]
    OBVIOUS
  <2>1. PICK c \in Calls : \/ RunWorkflow(c) \/ ResumeWorkflow(c) \/ RetryWorkflow(c) \/ Cancel(c)
                           \/ Sweep(c) \/ Engine(c) \/ Stop(c)
    BY DEF Next
  <2>2. CASE Execute(c)
    <3>1. call[c].seq \notin ledger /\ call[c].pc = "execute"
      BY <2>2 DEF Execute, SoleInv, CallInv
    <3>2. execs' = [execs EXCEPT ![call[c].seq] = @ + 1] /\ s \in Seqs /\ s # call[c].seq
      BY <2>2, <3>1 DEF Execute, IInv, TypeOK
    <3> QED
      BY <3>2 DEF IInv, TypeOK
  <2>3. CASE ~Execute(c)
    BY <2>1, <2>3
    DEF RunWorkflow, ResumeWorkflow, RetryWorkflow, Cancel, Sweep, Engine, Stop, FindPausedSeq,
        FindRetryFrontierSeq, CheckReopen, ReopenFailedStep, CheckTransition, CheckComplete,
        WriteRunState, FinishLoop, RegisterStep, StepExists, LookUpEffect, Allow, Deny,
        RequiresApproval, RefuseApproval, SpendApproval, ExecError, RecordCommittedEffect,
        CheckStep, CompleteStep
  <2> QED
    BY <2>2, <2>3
<1>2. Spec => [](IInv /\ SoleInv)
  BY SoleInvariance
<1> QED
  BY <1>1, <1>2, PTL DEF Spec, CommittedNotReExecuted
=============================================================================
