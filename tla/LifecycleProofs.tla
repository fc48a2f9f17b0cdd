--------------------------- MODULE LifecycleProofs --------------------------
(***************************************************************************)
(* SessionQueue implements PromptLifecycle: every step of clients, wakes,  *)
(* starters, turns and the loop is, seen by the messages, a step of the    *)
(* life of a message, the end of the session or nothing, for every number  *)
(* of each of them.                                                        *)
(***************************************************************************)
EXTENDS TurnProofs

-----------------------------------------------------------------------------
(***************************************************************************)
(* The steps told apart by what they do to the slot, to the hands of the   *)
(* loop and to its life.                                                   *)
(***************************************************************************)
(* The loop does not enter or leave the second half of a cancel. *)
LoopPasses ==
    \/ pc'["loop"] = pc["loop"] /\ cx' = cx
    \/ pc["loop"] # "cancelEnd" /\ pc'["loop"] # "cancelEnd"
Passing == UNCHANGED <<running, spawned>> /\ LoopPasses

(* Every other step is one of the cancel, the completion or the spawn. *)
LEMMA StepKinds ==
    ASSUME IndInv, ConserveInv, [Next]_vars
    PROVE  \/ Passing \/ CancelLocked \/ CancelEnd \/ PopFront
           \/ \E p \in Procs : Spawn(p)
<1>0. Aside => Passing
  BY DEF Aside, LoopMoves, MidPcs, Passing, LoopPasses
<1>g. ASSUME NEW where, where # "cancelEnd", Goto("loop", where), pc["loop"] # "cancelEnd"
      PROVE  LoopPasses
  BY <1>g, GotoMoves DEF Procs, LoopPasses
<1>1. CASE UserCommand
  <2>1. ASSUME NEW kind \in CancelKinds, CancelBegin(kind) PROVE Passing
    <3>1. /\ UNCHANGED <<running, spawned>> /\ pc["loop"] = "idle"
          /\ \E where \in {"ended", "cancelSubs", "cancelLock"} : Goto("loop", where)
      BY <2>1 DEF CancelBegin, Accept, Handle
    <3>. QED
      BY <1>g, <3>1 DEF Passing
  <2>. QED
    BY <1>0, <1>1, <2>1, InsertAside, EditAside, InterjectAside, HandlerAside DEF UserCommand
<1>2. CASE Wake
  BY <1>0, <1>2, InsertAside, HandlerAside DEF Wake, Synthetic
<1>3. CASE Handler
  <2>1. CancelForSendNow => Passing
    BY <1>g DEF CancelForSendNow, stateVars, turnVars, Passing
  <2>2. CancelAbortEarly => Passing
    BY <1>g DEF CancelAbortEarly, stateVars, Passing
  <2>3. Completion => Passing
    BY <1>g DEF Completion, stateVars, turnVars, Passing
  <2>. QED
    BY <1>0, <1>3, <2>1, <2>2, <2>3, InterjectAside, HandlerAside DEF Handler
<1>4. ASSUME NEW p \in Procs, Promotion(p) PROVE Passing \/ Spawn(p)
  <2>1. CASE Start(p)
    BY <1>0, <2>1, PromotionAside
  <2>2. CASE Promote(p)
    <3>1. /\ UNCHANGED <<running, spawned, cx>> /\ pc[p] = "promote"
          /\ Return(p) \/ Goto(p, "spawn")
      BY <2>2 DEF Promote, turnVars
    <3>2. cx.after \in {"idle", "drain"}
      BY DEF IndInv, TypeOK, LoopType, CxType
    <3>3. pc'["loop"] = pc["loop"] \/ (p = "loop" /\ pc'["loop"] \in {"idle", "drain", "spawn"})
      BY <3>1, <3>2, GotoMoves DEF Return
    <3>. QED
      BY <3>1, <3>3 DEF Passing, LoopPasses
  <2>. QED
    BY <1>4, <2>1, <2>2 DEF Promotion
<1>5. CASE Starter
  BY <1>0, <1>5, PromotionAside, InsertAside DEF Starter
<1>6. ASSUME NEW t \in Ids, TurnStep(t) \/ TurnWork(t) PROVE Passing
  <2>1. TurnStep(t) => UNCHANGED <<running, spawned, pc, cx>>
    BY DEF TurnStep, TurnBegin, TurnOpen, TurnLeaveScope, TurnFinish, stateVars
  <2>. QED
    BY <1>0, <1>6, <2>1, WorkAside DEF Passing, LoopPasses
<1>7. CASE UNCHANGED vars
  BY <1>7 DEF vars, stateVars, turnVars, Passing, LoopPasses
<1>. QED
  BY <1>1, <1>2, <1>3, <1>4, <1>5, <1>6, <1>7 DEF Next

(* The loop ends by a shutdown or by the panic of a Ctrl+C; the end is     *)
(* final, and then only starters and turns take steps.                     *)
LEMMA Ending ==
    ASSUME IndInv, [Next]_vars
    PROVE  \/ Shutdown
           \/ \E kind \in CancelKinds : CancelBegin(kind)
           \/ pc["loop"] # "ended" /\ pc'["loop"] # "ended"
           \/ /\ pc'["loop"] = pc["loop"]
              /\ \/ UNCHANGED vars \/ Starter \/ \E p \in Procs : Promotion(p)
                 \/ \E t \in Ids : TurnStep(t) \/ TurnWork(t)
<1>g. ASSUME NEW where, where # "ended", Goto("loop", where), pc["loop"] # "ended"
      PROVE  pc'["loop"] # "ended"
  BY <1>g, GotoMoves DEF Procs
<1>1. CASE UserCommand
  <2>0. pc["loop"] # "ended"
    BY <1>1 DEF UserCommand, PromptUser, RemoveQueued, InterjectQueued, HoldCombineEdit,
                ReleaseCombineEdit, Interject, Reorder, ClearQueue, CancelBegin, Shutdown, Accept
  <2>1. ASSUME NEW i \in Prompts, NEW now \in BOOLEAN, PromptUser(i, now)
        PROVE  pc'["loop"] # "ended"
    <3>1. \E where \in {"cancelNow", "start"} : Goto("loop", where)
      BY <2>1 DEF PromptUser, Handle
    <3>. QED
      BY <1>g, <2>0, <3>1
  <2>2. ASSUME NEW i \in Prompts, InterjectQueued(i) PROVE pc'["loop"] # "ended"
    <3>1. \E where \in {"cancelNow", "start"} : Goto("loop", where)
      BY <2>2 DEF InterjectQueued, Handle
    <3>. QED
      BY <1>g, <2>0, <3>1
  <2>3. ASSUME NEW i \in Prompts, RemoveQueued(i) \/ HoldCombineEdit(i) \/ ReleaseCombineEdit(i)
        PROVE  pc'["loop"] # "ended"
    BY <2>0, <2>3 DEF RemoveQueued, HoldCombineEdit, ReleaseCombineEdit
  <2>4. ASSUME NEW i \in Interjections, Interject(i) PROVE pc'["loop"] # "ended"
    <3>1. UNCHANGED pc \/ Goto("loop", "requeue")
      BY <2>4 DEF Interject
    <3>. QED
      BY <1>g, <2>0, <3>1
  <2>5. ASSUME NEW order, Reorder(order) PROVE pc'["loop"] # "ended"
    BY <2>0, <2>5 DEF Reorder
  <2>6. ASSUME NEW owner, ClearQueue(owner) PROVE pc'["loop"] # "ended"
    BY <2>0, <2>6 DEF ClearQueue
  <2>. QED
    BY <1>1, <2>0, <2>1, <2>2, <2>3, <2>4, <2>5, <2>6 DEF UserCommand
<1>2. CASE Wake
  <2>0. pc["loop"] # "ended"
    BY <1>2 DEF Wake, PromptWake, GoalSummaryTurn, WorkflowCompletionTurn,
                InjectNotification, DropMonitorNotifications, Accept
  <2>1. ASSUME NEW i, NEW late, PromptWake(i, late) PROVE pc'["loop"] # "ended"
    <3>1. UNCHANGED pc \/ Goto("loop", "start")
      BY <2>1 DEF PromptWake, Handle
    <3>. QED
      BY <1>g, <2>0, <3>1
  <2>2. ASSUME NEW i, GoalSummaryTurn(i) \/ WorkflowCompletionTurn(i) PROVE pc'["loop"] # "ended"
    <3>1. Goto("loop", "start")
      BY <2>2 DEF GoalSummaryTurn, WorkflowCompletionTurn, Handle
    <3>. QED
      BY <1>g, <2>0, <3>1
  <2>3. ASSUME NEW e, InjectNotification(e) PROVE pc'["loop"] # "ended"
    <3>1. UNCHANGED pc \/ Goto("loop", "drain")
      BY <2>3 DEF InjectNotification, Handle
    <3>. QED
      BY <1>g, <2>0, <3>1
  <2>4. ASSUME NEW task, DropMonitorNotifications(task) PROVE pc'["loop"] # "ended"
    BY <2>0, <2>4 DEF DropMonitorNotifications
  <2>. QED
    BY <1>2, <2>0, <2>1, <2>2, <2>3, <2>4 DEF Wake
<1>3. CASE Handler
  <2>0. pc["loop"] # "ended"
    BY <1>3 DEF Handler, CancelForSendNow, CancelAbortEarly, CancelLocked, CancelEnd, Reengage,
                Completion, PopFront, TurnEnd, Flush, Requeue, DrainNotifications
  <2>1. CancelForSendNow \/ CancelAbortEarly \/ CancelEnd \/ Reengage \/ Completion \/ Flush
        => \E where \in {"cancelLock", "reengage", "start", "pop", "requeue"} : Goto("loop", where)
    BY DEF CancelForSendNow, CancelAbortEarly, CancelEnd, Reengage, Completion, Flush, Handle
  <2>2. CancelLocked => Goto("loop", "cancelEnd")
    BY DEF CancelLocked
  <2>3. PopFront => Goto("loop", "turnEnd")
    BY DEF PopFront
  <2>4. TurnEnd => Goto("loop", "flush")
    BY DEF TurnEnd
  <2>5. Requeue => \E where \in {"start", "requeue"} : Goto("loop", where)
    BY DEF Requeue
  <2>6. DrainNotifications => \E where \in {"idle", "start"} : Goto("loop", where)
    BY DEF DrainNotifications, Handle
  <2>. QED
    BY <1>3, <1>g, <2>0, <2>1, <2>2, <2>3, <2>4, <2>5, <2>6 DEF Handler
<1>4. ASSUME NEW p \in Procs, Promotion(p)
      PROVE  pc'["loop"] = pc["loop"] \/ (pc["loop"] # "ended" /\ pc'["loop"] # "ended")
  <2>1. p = "loop" => pc["loop"] # "ended"
    BY <1>4 DEF Promotion, Start, Promote, Spawn
  <2>2. cx.after # "ended"
    BY DEF IndInv, TypeOK, LoopType, CxType
  <2>3. Return(p) \/ Goto(p, "promote") \/ Goto(p, "spawn")
    BY <1>4 DEF Promotion, Start, Promote, Spawn
  <2>. QED
    BY <2>1, <2>2, <2>3, GotoMoves DEF Return
<1>5. CASE Starter
  <2>1. \E p \in Procs \ {"loop"} : \E where : Goto(p, where)
    BY <1>5, Constants DEF Starter, McpReady, ResumePlan, Procs
  <2>2. pc'["loop"] = pc["loop"]
    BY <2>1, GotoMoves
  <2>. QED
    BY <1>5, <2>2
<1>6. ASSUME NEW t \in Ids, TurnStep(t) \/ TurnWork(t) PROVE UNCHANGED pc
  BY <1>6 DEF TurnStep, TurnBegin, TurnOpen, TurnLeaveScope, TurnFinish, TurnWork, TurnOutput,
              TurnInject, TurnWait, TurnGoal, TurnRound, TurnConsumes, TurnReportsWorkflow
<1>7. CASE UNCHANGED vars
  BY <1>7 DEF vars
<1>. QED
  BY <1>1, <1>2, <1>3, <1>4, <1>5, <1>6, <1>7 DEF Next

(* The prompt of the running turn stays in the queue until its turn is     *)
(* completed or cancelled, or the session is shut down, also when the loop *)
(* is no more.                                                             *)
LEMMA SlotStays ==
    ASSUME IndInv, IndInv', [Next]_vars, ~Shutdown, UNCHANGED running, running \in Queued
    PROVE  running \in ToSet(q')
<1>0. running \in Ids /\ running # None /\ q \in Seq(Ids) /\ q' \in Seq(Ids)
  BY QueueFacts, Constants DEF IndInv, TypeOK, StateType
<1>1. CASE pc'["loop"] # "ended"
  <2>1. q' # <<>> /\ q'[1] = running
    BY <1>0, <1>1 DEF IndInv, RunningIsFront
  <2>2. 1 \in 1..Len(q')
    BY <1>0, <2>1, EmptySeq, LenProperties
  <2>. QED
    BY <1>0, <2>1, <2>2, ToSetByIndex
<1>2. CASE UNCHANGED q
  BY <1>2 DEF Queued
<1>3. CASE Starter
  <2>1. UNCHANGED q \/ \E i \in Ids : q' = Append(q, i)
    BY <1>3 DEF Starter, McpReady, ResumePlan, stateVars, Ids, Synthetic
  <2>2. ASSUME NEW i \in Ids, q' = Append(q, i) PROVE running \in ToSet(q')
    BY <1>0, <2>2, AppendDistinct DEF Queued
  <2>. QED
    BY <1>2, <2>1, <2>2
<1>4. ASSUME NEW p \in Procs, Promotion(p) PROVE UNCHANGED q
  BY <1>0, <1>4 DEF Promotion, Start, Promote, Spawn, NothingToPromote, stateVars
<1>5. ASSUME NEW t \in Ids, TurnStep(t) PROVE UNCHANGED q
  BY <1>5 DEF TurnStep, TurnBegin, TurnOpen, TurnLeaveScope, TurnFinish, stateVars
<1>6. ASSUME NEW t \in Ids, TurnWork(t) PROVE running \in ToSet(q')
  <2>1. UNCHANGED q \/ \E c : q' = Sweep(q, {c})
    BY <1>6 DEF TurnWork, TurnOutput, TurnInject, TurnWait, TurnGoal, TurnRound, TurnConsumes,
                TurnReportsWorkflow, stateVars
  <2>2. ASSUME NEW c, q' = Sweep(q, {c}) PROVE running \in ToSet(q')
    <3>1. ToSet(q') = ToSet(q) \cap {i \in Ids : i = running \/ i \notin {c}}
      BY <1>0, <2>2, RetainType DEF Sweep
    <3>. QED
      BY <1>0, <3>1 DEF Queued
  <2>. QED
    BY <1>2, <2>1, <2>2
<1>7. ASSUME NEW kind, CancelBegin(kind) PROVE UNCHANGED q
  BY <1>7 DEF CancelBegin
<1>. QED
  BY <1>1, <1>2, <1>3, <1>4, <1>5, <1>6, <1>7, Ending DEF vars, stateVars

-----------------------------------------------------------------------------
(***************************************************************************)
(* The phases of a message.                                                *)
(***************************************************************************)
(* PhaseOf, case by case. *)
PhaseTable ==
    \A i \in Ids :
        /\ fate[i] = "pending" /\ i \in cx.victims => PhaseOf(i) = "ending"
        /\ fate[i] = "pending" /\ i \notin cx.victims /\ spawned[i] = 0 => PhaseOf(i) = "queued"
        /\ fate[i] = "pending" /\ i \notin cx.victims /\ spawned[i] = 1 => PhaseOf(i) = "running"
        /\ fate[i] = "buffered" => PhaseOf(i) = "held"
        /\ fate[i] \in {"new", "answered", "cancelled", "rewound"} => PhaseOf(i) = fate[i]
        /\ fate[i] \notin {"pending", "buffered", "new", "answered", "cancelled", "rewound"}
           => PhaseOf(i) = "withdrawn"
LEMMA PhasesAre == PhaseTable
BY DEF PhaseTable, PhaseOf

LEMMA PhasesAreNext == PhaseTable'
BY PhasesAre, PTL

(* A message is in the hands of the model when its turn has the slot.      *)
SlotPhases ==
    \A i \in Ids :
        /\ PhaseOf(i) \in {"new", "held", "queued", "running", "ending", "answered",
                           "cancelled", "rewound", "withdrawn"}
        /\ PhaseOf(i) = "running" =>
               fate[i] = "pending" /\ i \notin cx.victims /\ i \in Queued /\ i = running
LEMMA SlotPhase == IndInv /\ ConserveInv /\ TurnInv => SlotPhases
<1>. SUFFICES ASSUME IndInv, ConserveInv, TurnInv, NEW i \in Ids
              PROVE  /\ PhaseOf(i) \in {"new", "held", "queued", "running", "ending", "answered",
                                        "cancelled", "rewound", "withdrawn"}
                     /\ PhaseOf(i) = "running" =>
                          fate[i] = "pending" /\ i \notin cx.victims /\ i \in Queued /\ i = running
  BY DEF SlotPhases
<1>1. spawned[i] \in {0, 1} /\ (spawned[i] = 1 /\ i \in Queued => i = running)
  BY DEF TurnInv, SpawnInv
<1>2. fate[i] = "pending" <=> i \in Queued \cup cx.victims
  BY DEF ConserveInv, Conserved
<1>. QED
  BY <1>1, <1>2, PhasesAre DEF PhaseTable
LEMMA SlotPhaseNext == ASSUME IndInv', ConserveInv', TurnInv' PROVE SlotPhases'
BY SlotPhase, PTL

-----------------------------------------------------------------------------
(***************************************************************************)
(* Every step moves every message along its life.                          *)
(***************************************************************************)
(* One move of the life of message i, or none. *)
Moved(i) ==
    \/ PhaseOf(i)' = PhaseOf(i)
    \/ PhaseOf(i) = "new" /\ PhaseOf(i)' \in {"held", "queued", "withdrawn"}
    \/ PhaseOf(i) = "held" /\ PhaseOf(i)' \in {"queued", "withdrawn"}
    \/ PhaseOf(i) = "queued" /\ PhaseOf(i)' \in {"running", "ending", "withdrawn"}
    \/ PhaseOf(i) = "running" /\ PhaseOf(i)' \in {"answered", "ending"}
    \/ PhaseOf(i) = "ending" /\ PhaseOf(i)' \in {"cancelled", "rewound"}

(* The spawns and the place of message i, as the cases below use them. *)
LEMMA Place ==
    ASSUME IndInv, ConserveInv, TurnInv, NEW i \in Ids
    PROVE  /\ fate[i] \in {"new", "buffered"} => spawned[i] = 0
           /\ spawned[i] \in {0, 1}
           /\ fate[i] = "pending" <=> i \in Queued \cup cx.victims
           /\ pc["loop"] # "cancelEnd" => cx.victims = {}
           /\ spawned[i] = 1 /\ i \in Queued => i = running
BY DEF TurnInv, SpawnInv, ConserveInv, Conserved, HandsInv

(* A step that passes the slot and the hands of the loop by. *)
LEMMA PassingMoves ==
    ASSUME IndInv, ConserveInv, TurnInv, IndInv', ConserveInv', TurnInv', [Next]_vars,
           Passing, FateMoves, ~Shutdown, NEW i \in Ids
    PROVE  Moved(i)
<1>1. cx'.victims = cx.victims
  BY DEF Passing, LoopPasses, ConserveInv, HandsInv
<1>2. spawned'[i] = spawned[i] /\ running' = running
  BY DEF Passing
<1>3. fate'[i] = "pending" <=> i \in ToSet(q') \cup cx.victims
  BY <1>1 DEF ConserveInv, Conserved, Queued
<1>4. i \in cx.victims \/ (fate[i] = "pending" /\ spawned[i] = 1) => fate'[i] = "pending"
  BY <1>2, <1>3, Place, SlotStays
<1>5. fate'[i] # fate[i]
      => /\ fate[i] \in {"new", "buffered", "pending"}
         /\ fate'[i] \notin {"new", "answered", "cancelled", "rewound"}
         /\ fate'[i] = "buffered" => fate[i] = "new"
  BY DEF FateMoves
<1>6. CASE fate'[i] = fate[i]
  BY <1>1, <1>2, <1>6, Place, PhasesAre, PhasesAreNext DEF PhaseTable, Moved
<1>7. CASE fate'[i] # fate[i] /\ fate'[i] = "pending"
  BY <1>1, <1>2, <1>5, <1>7, Place, PhasesAre, PhasesAreNext DEF PhaseTable, Moved
<1>8. CASE fate'[i] # fate[i] /\ fate'[i] # "pending"
  <2>1. PhaseOf(i)' = IF fate'[i] = "buffered" THEN "held" ELSE "withdrawn"
    BY <1>5, <1>8, PhasesAreNext DEF PhaseTable
  <2>2. fate[i] = "pending" => i \notin cx.victims /\ spawned[i] = 0
    BY <1>4, <1>8, Place
  <2>3. PhaseOf(i) \in {"new", "held", "queued"} /\ (fate'[i] = "buffered" => PhaseOf(i) = "new")
    BY <1>5, <1>8, <2>2, PhasesAre DEF PhaseTable
  <2>. QED
    BY <2>1, <2>3 DEF Moved
<1>. QED
  BY <1>6, <1>7, <1>8

(* The prompt of the torn task, or the whole queue, comes into the hands   *)
(* of the cancel.                                                          *)
LEMMA LockedMoves ==
    ASSUME IndInv, ConserveInv, TurnInv, IndInv', ConserveInv', TurnInv', CancelLocked,
           NEW i \in Ids
    PROVE  Moved(i)
<1>1. /\ FateMoves /\ (fate'[i] = "pending" => fate[i] = "pending")
      /\ UNCHANGED spawned /\ cx'.victims \subseteq Queued /\ pc["loop"] = "cancelLock"
      /\ q # <<>> => q[1] \in cx'.victims
  BY LockedTakes
<1>2. cx.victims = {}
  BY <1>1, Place
<1>3. fate[i] = "pending" /\ spawned[i] = 1 => i \in cx'.victims
  <2>1. fate[i] = "pending" /\ spawned[i] = 1 => i = running
    BY <1>2, Place
  <2>2. running # None => q # <<>> /\ q[1] = running
    BY <1>1, QueueFacts
  <2>. QED
    BY <1>1, <2>1, <2>2, Constants
<1>4. fate'[i] = "pending" <=> i \in ToSet(q') \cup cx'.victims
  BY DEF ConserveInv, Conserved, Queued
<1>5. fate'[i] # fate[i]
      => /\ fate[i] \in {"new", "buffered", "pending"}
         /\ fate'[i] \notin {"new", "answered", "cancelled", "rewound"}
         /\ fate'[i] = "buffered" => fate[i] = "new"
  BY <1>1 DEF FateMoves
<1>6. CASE fate[i] = "pending" /\ fate'[i] = "pending"
  <2>1. PhaseOf(i) = IF spawned[i] = 1 THEN "running" ELSE "queued"
    BY <1>2, <1>6, Place, PhasesAre DEF PhaseTable
  <2>2. PhaseOf(i)' = IF i \in cx'.victims THEN "ending"
                      ELSE IF spawned[i] = 1 THEN "running" ELSE "queued"
    BY <1>1, <1>6, Place, PhasesAreNext DEF PhaseTable
  <2>. QED
    BY <1>3, <2>1, <2>2 DEF Moved
<1>7. CASE fate[i] # "pending" /\ fate'[i] = fate[i]
  BY <1>7, PhasesAre, PhasesAreNext DEF PhaseTable, Moved
<1>8. CASE fate'[i] # fate[i]
  <2>1. fate'[i] # "pending"
    BY <1>1, <1>8
  <2>2. PhaseOf(i)' = IF fate'[i] = "buffered" THEN "held" ELSE "withdrawn"
    BY <1>5, <1>8, <2>1, PhasesAreNext DEF PhaseTable
  <2>3. fate[i] = "pending" => spawned[i] = 0
    BY <1>3, <1>4, <2>1, Place
  <2>4. PhaseOf(i) \in {"new", "held", "queued"} /\ (fate'[i] = "buffered" => PhaseOf(i) = "new")
    BY <1>2, <1>5, <1>8, <2>3, PhasesAre DEF PhaseTable
  <2>. QED
    BY <2>2, <2>4 DEF Moved
<1>. QED
  BY <1>1, <1>6, <1>7, <1>8

(* The cancel answers what it has in its hands. *)
LEMMA EndMoves ==
    ASSUME IndInv, ConserveInv, TurnInv, IndInv', ConserveInv', TurnInv', CancelEnd,
           NEW i \in Ids
    PROVE  Moved(i) /\ running' = running
<1>1. /\ UNCHANGED <<running, spawned>>
      /\ \E f \in {"cancelled", "rewound"} : fate' = Resolve(cx.victims, f)
      /\ \E where \in {"reengage", "start"} : Goto("loop", where)
  BY DEF CancelEnd, stateVars, Handle
<1>2. PICK f \in {"cancelled", "rewound"} : fate' = Resolve(cx.victims, f)
  BY <1>1
<1>3. fate'[i] = IF i \in cx.victims THEN f ELSE fate[i]
  BY <1>2, ResolveIs
<1>4. cx'.victims = {}
  <2>1. pc'["loop"] # "cancelEnd"
    BY <1>1, GotoMoves DEF Procs
  <2>. QED
    BY <2>1 DEF ConserveInv, HandsInv
<1>5. CASE i \in cx.victims
  BY <1>1, <1>3, <1>5, Place, PhasesAre, PhasesAreNext DEF PhaseTable, Moved
<1>6. CASE i \notin cx.victims
  BY <1>1, <1>3, <1>4, <1>6, Place, PhasesAre, PhasesAreNext DEF PhaseTable, Moved
<1>. QED
  BY <1>1, <1>5, <1>6

(* A completion answers the prompt of its turn. *)
LEMMA PopMoves ==
    ASSUME IndInv, ConserveInv, TurnInv, IndInv', ConserveInv', TurnInv', PopFront,
           NEW i \in Ids
    PROVE  Moved(i) /\ running' \in {None, running}
<1>. DEFINE owned == q # <<>> /\ q[1] = cx.done
<1>1. /\ running' \in {None, running} /\ pc["loop"] = "pop" /\ UNCHANGED <<cx, spawned>>
      /\ fate' = IF owned THEN Resolve({cx.done}, "answered") ELSE fate
  BY DEF PopFront, turnVars
<1>2. cx.victims = {} /\ cx'.victims = {}
  BY <1>1, Place
<1>3. owned => cx.done \in Queued /\ spawned[cx.done] = 1
  <2>1. owned => cx.done \in Queued /\ cx.done \in Ids
    <3>1. q \in Seq(Ids) /\ (q # <<>> => 1 \in 1..Len(q))
      BY QueueFacts, EmptySeq, LenProperties
    <3>. QED
      BY <3>1, ToSetByIndex, QueueFacts DEF Queued
  <2>2. owned => turn[cx.done] = "over"
    BY <2>1, Constants DEF TurnInv, ChanInv
  <2>. QED
    BY <2>1, <2>2 DEF TurnInv, SpawnInv
<1>. HIDE DEF owned
<1>4. fate'[i] = IF owned /\ i = cx.done THEN "answered" ELSE fate[i]
  BY <1>1, ResolveIs
<1>5. CASE owned /\ i = cx.done
  BY <1>1, <1>2, <1>3, <1>4, <1>5, Place, PhasesAre, PhasesAreNext DEF PhaseTable, Moved
<1>6. CASE ~(owned /\ i = cx.done)
  BY <1>1, <1>2, <1>4, <1>6, Place, PhasesAre, PhasesAreNext DEF PhaseTable, Moved
<1>. QED
  BY <1>1, <1>5, <1>6

(* The front is given to the model; no other turn had the slot.            *)
LEMMA SpawnMoves ==
    ASSUME IndInv, ConserveInv, TurnInv, IndInv', ConserveInv', TurnInv',
           NEW p \in Procs, Spawn(p), NEW i \in Ids
    PROVE  Moved(i) /\ running = None
<1>1. /\ UNCHANGED <<fate, cx>> /\ running = None /\ q # <<>>
      /\ spawned' = [spawned EXCEPT ![q[1]] = @ + 1]
  BY Constants DEF Spawn, endVars, IndInv, LockInv
<1>2. q[1] \in Queued
  <2>1. q \in Seq(Ids) /\ 1 \in 1..Len(q)
    BY <1>1, QueueFacts, EmptySeq, LenProperties
  <2>. QED
    BY <2>1, ToSetByIndex DEF Queued
<1>3. CASE i # q[1]
  <2>1. spawned'[i] = spawned[i]
    BY <1>1, <1>3 DEF IndInv, TypeOK, TurnType
  <2>. QED
    BY <1>1, <2>1, Place, PhasesAre, PhasesAreNext DEF PhaseTable, Moved
<1>4. CASE i = q[1]
  <2>1. fate[i] = "pending" /\ i \notin cx.victims
    BY <1>2, <1>4, Place DEF ConserveInv, Conserved
  <2>2. spawned[i] = 0
    BY <1>1, <1>2, <1>4, Place, Constants
  <2>3. spawned'[i] = 1
    BY <1>1, <1>4, <2>2 DEF IndInv, TypeOK, TurnType
  <2>. QED
    BY <1>1, <2>1, <2>2, <2>3, PhasesAre, PhasesAreNext DEF PhaseTable, Moved
<1>. QED
  BY <1>1, <1>3, <1>4

(* The session is shut down: what it runs for itself is dropped.           *)
LEMMA ShutdownMoves ==
    ASSUME IndInv, ConserveInv, TurnInv, IndInv', ConserveInv', TurnInv', Shutdown
    PROVE  /\ pc["loop"] # "ended" /\ pc'["loop"] = "ended"
           /\ \A i \in Ids : PhaseOf(i)' \in {PhaseOf(i), "withdrawn"}
<1>1. /\ pc["loop"] = "idle" /\ Goto("loop", "ended") /\ UNCHANGED spawned
      /\ fate' = Resolve(Queued \cap Synthetic, "dropped")
  BY DEF Shutdown, Accept, Handle, turnVars
<1>2. pc'["loop"] = "ended"
  BY <1>1, GotoMoves DEF Procs
<1>3. cx.victims = {} /\ cx'.victims = {}
  BY <1>1, <1>2 DEF ConserveInv, HandsInv
<1>4. ASSUME NEW i \in Ids PROVE PhaseOf(i)' \in {PhaseOf(i), "withdrawn"}
  <2>1. fate'[i] = IF i \in Queued \cap Synthetic THEN "dropped" ELSE fate[i]
    BY <1>1, ResolveIs
  <2>. QED
    BY <1>1, <1>3, <2>1, Place, PhasesAre, PhasesAreNext DEF PhaseTable
<1>. QED
  BY <1>1, <1>2, <1>4

(* The panic of a Ctrl+C ends the loop; the interjections were cleared.    *)
LEMMA PanicMoves ==
    ASSUME IndInv, ConserveInv, TurnInv, IndInv', ConserveInv', TurnInv',
           NEW kind, CancelBegin(kind), pc'["loop"] = "ended"
    PROVE  /\ pc["loop"] # "ended"
           /\ \A i \in Ids : PhaseOf(i)' \in {PhaseOf(i), "withdrawn"}
<1>1. pc["loop"] = "idle" /\ UNCHANGED spawned /\ fate' = Resolve(ToSet(interj), "cleared")
  BY DEF CancelBegin, Accept
<1>2. cx.victims = {} /\ cx'.victims = {}
  BY <1>1 DEF ConserveInv, HandsInv
<1>3. ASSUME NEW i \in Ids PROVE PhaseOf(i)' \in {PhaseOf(i), "withdrawn"}
  <2>1. fate'[i] = IF i \in ToSet(interj) THEN "cleared" ELSE fate[i]
    BY <1>1, ResolveIs
  <2>. QED
    BY <1>1, <1>2, <2>1, Place, PhasesAre, PhasesAreNext DEF PhaseTable
<1>. QED
  BY <1>1, <1>3

(* Together: a step is one of the life of the messages, or the end.        *)
LEMMA NextIsLife ==
    ASSUME IndInv, ConserveInv, TurnInv, IndInv', ConserveInv', TurnInv', [Next]_vars
    PROVE  Lifecycle!Step \/ Lifecycle!Close
<1>0. SlotPhases /\ SlotPhases'
  BY SlotPhase, SlotPhaseNext
<1>1. \A i \in Ids : PhaseOf(i)' \in Lifecycle!Phases
  BY <1>0 DEF SlotPhases, Lifecycle!Phases
<1>2. CASE Shutdown \/ (pc'["loop"] = "ended" /\ \E kind \in CancelKinds : CancelBegin(kind))
  <2>1. /\ pc["loop"] # "ended" /\ pc'["loop"] = "ended"
        /\ \A i \in Ids : PhaseOf(i)' \in {PhaseOf(i), "withdrawn"}
    BY <1>2, ShutdownMoves, PanicMoves
  <2>2. Lifecycle!Close
    BY <1>1, <2>1 DEF Lifecycle!Close
  <2>. QED
    BY <2>2
<1>3. CASE ~(Shutdown \/ (pc'["loop"] = "ended" /\ \E kind \in CancelKinds : CancelBegin(kind)))
  <2>1. FateMoves \/ CancelEnd \/ PopFront
    BY NextTurns
  <2>2. \/ Passing \/ CancelLocked \/ CancelEnd \/ PopFront
        \/ \E p \in Procs : Spawn(p)
    BY StepKinds
  <2>3. CancelLocked => FateMoves /\ running' = None
    BY LockedTakes
  <2>4. \A p \in Procs : Spawn(p) => FateMoves
    BY DEF Spawn, endVars, FateMoves
  <2>5. \A i \in Ids : Moved(i)
    BY <1>3, <2>1, <2>2, PassingMoves, LockedMoves, EndMoves, PopMoves, SpawnMoves
  <2>6. \A m, n \in Ids : PhaseOf(m) = "running" /\ PhaseOf(n)' = "running" => n = m
    <3>. SUFFICES ASSUME NEW m \in Ids, NEW n \in Ids, PhaseOf(m) = "running",
                         PhaseOf(n)' = "running"
                  PROVE  n = m
      OBVIOUS
    <3>1. m = running /\ n = running'
      BY <1>0 DEF SlotPhases
    <3>2. running' \in {None, running} \/ running = None
      BY <2>2, <2>3, EndMoves, PopMoves, SpawnMoves DEF Passing
    <3>. QED
      BY <3>1, <3>2, Constants
  <2>7. \A m, n \in Ids : PhaseOf(m)' = "running" /\ PhaseOf(n)' = "running" => m = n
    BY <1>0 DEF SlotPhases
  <2>8. (pc'["loop"] # "ended") = (pc["loop"] # "ended")
    <3>1. \A kind : CancelBegin(kind) => pc["loop"] # "ended"
      BY DEF CancelBegin, Accept
    <3>2. pc'["loop"] = "ended" <=> pc["loop"] = "ended"
      BY <1>3, <3>1, Ending
    <3>. QED
      BY <3>2
  <2>9. \A i \in Ids : PhaseOf(i)' = PhaseOf(i)
                      \/ <<PhaseOf(i), PhaseOf(i)'>> \in Lifecycle!Moves
    BY <2>5 DEF Moved, Lifecycle!Moves
  <2>10. Lifecycle!Step
    BY <1>1, <2>6, <2>7, <2>8, <2>9 DEF Lifecycle!Step, Lifecycle!Running
  <2>. QED
    BY <2>10
<1>. QED
  BY <1>2, <1>3

(* At first every message is new. *)
LEMMA InitIsLife == Init => Lifecycle!Init
<1>. SUFFICES ASSUME Init PROVE Lifecycle!Init
  OBVIOUS
<1>1. \A i \in Ids : fate[i] = "new"
  BY DEF Init
<1>2. \A i \in Ids : PhaseOf(i) = "new"
  BY <1>1, PhasesAre DEF PhaseTable
<1>3. pc["loop"] # "ended"
  BY DEF Init, Procs
<1>. QED
  BY <1>2, <1>3 DEF Lifecycle!Init

(* SessionQueue implements PromptLifecycle: whatever clients, wakes,       *)
(* starters, turns, cancels and the shutdown do, in whatever order, each   *)
(* message goes through its life once, an answer is final, and no two      *)
(* turns are given to the model at the same time.                          *)
THEOREM SessionImplements == Spec => Implements
<1>1. IndInv /\ ConserveInv /\ TurnInv /\ (IndInv /\ ConserveInv /\ TurnInv)' /\ [Next]_vars
      => [Lifecycle!Next]_<<[i \in Ids |-> PhaseOf(i)], pc["loop"] # "ended">>
  BY NextIsLife DEF Lifecycle!Next
<1>2. Spec => Init /\ [][Next]_vars
  BY DEF Spec
<1>3. Spec => Lifecycle!Init
          /\ [][Lifecycle!Next]_<<[i \in Ids |-> PhaseOf(i)], pc["loop"] # "ended">>
  BY <1>1, <1>2, InitIsLife, TurnInvHolds, PTL
<1>. QED
  BY <1>3, PTL DEF Implements, Lifecycle!Spec
=============================================================================
