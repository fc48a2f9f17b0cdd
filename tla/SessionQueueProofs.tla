------------------------- MODULE SessionQueueProofs -------------------------
(***************************************************************************)
(* The session's types and the place of the running turn in the queue, for *)
(* every number of prompts, wakes, notifications and starters.             *)
(***************************************************************************)
EXTENDS SessionQueue, QueueOpsProofs, TLAPS

(* The state mutex is kept across an await by a promotion only, between the *)
(* choice of the front and the spawn of its task.                           *)
LockInv ==
    lock # None => pc[lock] = "spawn" /\ running = None /\ q # <<>>

(* The loop goes to queue_interjection_fallback_prompt with something.     *)
LateInv == pc["loop"] = "requeue" => cx.late # <<>>

IndInv == TypeOK /\ RunningIsFront /\ LockInv /\ LateInv

(* What the assumption on the constants says, in the form it is used. *)
LEMMA Constants ==
    /\ None \notin Ids /\ None \notin Procs
    /\ IsFiniteSet(Prompts)
    /\ MonitorTask \in [Monitors -> TaskWakes]
    /\ MaxNotes \in Nat /\ MaxBuffer \in Nat
    /\ CancelKinds \subseteq CancelKind
    /\ "loop" \notin Starters
BY SessionAssumption DEF SessionAssumption

(* A message is of one kind.  Clients' messages are not synthetic, and of  *)
(* the synthetic ones a plan's resumption is neither a wake nor a drain.   *)
LEMMA Kinds ==
    /\ UserMessages \cap Synthetic = {}
    /\ ResumeTurns \cap (TaskWakes \cup WorkflowWakes \cup DrainTurns) = {}
    /\ DrainTurns \cap (TaskWakes \cup WorkflowWakes) = {}
    /\ (SubagentWakes \cup TimerWakes \cup GoalTurns)
           \cap (TaskWakes \cup WorkflowWakes \cup DrainTurns) = {}
<1>. DEFINE kinds == <<Prompts, Interjections, TaskWakes, SubagentWakes,
                       WorkflowWakes, TimerWakes, GoalTurns, DrainTurns,
                       ResumeTurns>>
<1>1. \A a, b \in 1..9 : a # b => kinds[a] \cap kinds[b] = {}
  BY SessionAssumption DEF SessionAssumption
<1>2. \A b \in 2..9 : kinds[1] \cap kinds[b] = {}
  BY <1>1
<1>3. \A b \in 3..9 : kinds[2] \cap kinds[b] = {}
  BY <1>1
<1>4. /\ Prompts \cap TaskWakes = {} /\ Prompts \cap SubagentWakes = {}
      /\ Prompts \cap WorkflowWakes = {} /\ Prompts \cap TimerWakes = {}
      /\ Prompts \cap GoalTurns = {} /\ Prompts \cap DrainTurns = {}
      /\ Prompts \cap ResumeTurns = {}
  BY <1>2
<1>5. /\ Interjections \cap TaskWakes = {} /\ Interjections \cap SubagentWakes = {}
      /\ Interjections \cap WorkflowWakes = {} /\ Interjections \cap TimerWakes = {}
      /\ Interjections \cap GoalTurns = {} /\ Interjections \cap DrainTurns = {}
      /\ Interjections \cap ResumeTurns = {}
  BY <1>3
<1>6. UserMessages \cap Synthetic = {}
  BY <1>4, <1>5 DEF UserMessages, Synthetic
<1>7. kinds[9] \cap kinds[3] = {} /\ kinds[9] \cap kinds[5] = {} /\ kinds[9] \cap kinds[8] = {}
  BY <1>1
<1>8. kinds[8] \cap kinds[3] = {} /\ kinds[8] \cap kinds[5] = {}
  BY <1>1
<1>9. /\ kinds[4] \cap kinds[3] = {} /\ kinds[4] \cap kinds[5] = {} /\ kinds[4] \cap kinds[8] = {}
      /\ kinds[6] \cap kinds[3] = {} /\ kinds[6] \cap kinds[5] = {} /\ kinds[6] \cap kinds[8] = {}
      /\ kinds[7] \cap kinds[3] = {} /\ kinds[7] \cap kinds[5] = {} /\ kinds[7] \cap kinds[8] = {}
  BY <1>1
<1>. QED
  BY <1>6, <1>7, <1>8, <1>9

(* What is not assigned keeps its type. *)
LEMMA Frames ==
    /\ StateType /\ UNCHANGED stateVars => StateType'
    /\ SendType /\ UNCHANGED sendVars => SendType'
    /\ TurnType /\ UNCHANGED turnVars => TurnType'
    /\ GoalType /\ UNCHANGED <<goalVars, reported>> => GoalType'
    /\ LoopType /\ UNCHANGED <<lock, pin, chan, pc, may, cx>> => LoopType'
    /\ EndType /\ UNCHANGED <<endVars, panicked>> => EndType'
<1>1. StateType /\ UNCHANGED stateVars => StateType'
  BY DEF StateType, stateVars
<1>2. SendType /\ UNCHANGED sendVars => SendType'
  BY DEF SendType, sendVars
<1>3. TurnType /\ UNCHANGED turnVars => TurnType'
  BY DEF TurnType, turnVars
<1>4. GoalType /\ UNCHANGED <<goalVars, reported>> => GoalType'
  BY DEF GoalType, goalVars
<1>5. LoopType /\ UNCHANGED <<lock, pin, chan, pc, may, cx>> => LoopType'
  BY DEF LoopType
<1>6. EndType /\ UNCHANGED <<endVars, panicked>> => EndType'
  BY DEF EndType, endVars
<1>. QED
  BY <1>1, <1>2, <1>3, <1>4, <1>5, <1>6

(* The types of the initial state. *)
LEMMA InitTypes == Init => TypeOK
<1>. SUFFICES ASSUME Init PROVE TypeOK
  OBVIOUS
<1>1. StateType
  <2>1. q \in Seq(Ids) /\ running \in Ids \cup {None} /\ urgent \subseteq Ids /\ holds \subseteq Prompts
    BY DEF Init
  <2>2. notes \in Seq(Notes) /\ Len(notes) <= MaxNotes
    BY Constants DEF Init
  <2>3. suppressed \in BOOLEAN /\ rewindable \in BOOLEAN
    BY DEF Init
  <2>. QED
    BY <2>1, <2>2, <2>3 DEF StateType
<1>2. SendType
  BY Constants DEF Init, SendType
<1>3. TurnType
  BY DEF Init, TurnType
<1>4. GoalType
  BY DEF Init, GoalType, GoalStatus
<1>5. LoopType
  BY DEF Init, LoopType, NoCx, NoCancel, CxType, CancelKind, Procs, Pcs, LoopPcs, StarterPcs
<1>6. EndType
  BY DEF Init, EndType, Fates
<1>. QED
  BY <1>1, <1>2, <1>3, <1>4, <1>5, <1>6 DEF TypeOK
-----------------------------------------------------------------------------
(***************************************************************************)
(* Types.                                                                  *)
(***************************************************************************)
(* Goto moves one task to a place of its own. *)
LEMMA GotoType ==
    ASSUME LoopType, NEW p \in Procs, NEW where \in Pcs(p), Goto(p, where)
    PROVE  /\ pc' \in [Procs -> LoopPcs \cup StarterPcs]
           /\ \A r \in Procs : pc'[r] \in Pcs(r)
           /\ pc'[p] = where
           /\ \A r \in Procs \ {p} : pc'[r] = pc[r]
<1>1. where \in LoopPcs \cup StarterPcs
  BY DEF Pcs
<1>. QED
  BY <1>1 DEF LoopType, Goto

(* The locals of a handler that has not begun. *)
LEMMA NoCxType == NoCx \in CxType /\ NoCx.late = <<>>
BY DEF NoCx, NoCancel, CxType, CancelKind

(* Handle moves the loop and starts from clean locals. *)
LEMMA HandleType ==
    ASSUME LoopType, NEW where \in LoopPcs, NEW after \in {"idle", "drain"},
           Handle(where, after)
    PROVE  /\ pc' \in [Procs -> LoopPcs \cup StarterPcs]
           /\ \A r \in Procs : pc'[r] \in Pcs(r)
           /\ pc'["loop"] = where
           /\ \A r \in Starters : pc'[r] = pc[r]
           /\ cx' \in CxType
           /\ cx'.late = <<>>
<1>1. "loop" \in Procs /\ where \in Pcs("loop") /\ Goto("loop", where)
  BY DEF Procs, Pcs, Handle
<1>2. cx' \in CxType /\ cx'.late = <<>>
  <2>1. cx' = [NoCx EXCEPT !.after = after]
    BY DEF Handle
  <2>. QED
    BY <2>1, NoCxType DEF CxType
<1>3. \A r \in Starters : r \in Procs \ {"loop"}
  BY Constants DEF Procs
<1>. QED
  BY <1>1, <1>2, <1>3, GotoType

(* Resolve gives messages another fate. *)
LEMMA ResolveType ==
    ASSUME EndType, NEW S, NEW f \in Fates
    PROVE  Resolve(S, f) \in [Ids \cup Monitors -> Fates]
BY DEF EndType, Resolve

(* The notifications that take in the monitor buffer stay within the cap. *)
LEMMA AbsorbType ==
    ASSUME StateType, SendType
    PROVE  AbsorbMonitors(notes) \in Seq(Notes) /\ Len(AbsorbMonitors(notes)) <= MaxNotes
<1>1. notes \in Seq(Notes)
  BY DEF StateType
<1>2. monBuf \in Seq(Notes)
  BY DEF SendType, Notes
<1>3. MaxNotes \in Nat
  BY Constants
<1>. QED
  BY <1>1, <1>2, <1>3, PushCappedType DEF AbsorbMonitors

(* A sweep spares the running turn. *)
LEMMA SweepType ==
    ASSUME NEW s \in Seq(Ids), NEW drop
    PROVE  /\ Sweep(s, drop) \in Seq(Ids)
           /\ running # None /\ s # <<>> /\ s[1] = running
              => Sweep(s, drop) # <<>> /\ Sweep(s, drop)[1] = running
<1>1. Sweep(s, drop) \in Seq(Ids)
  BY RetainType DEF Sweep
<1>2. ASSUME s # <<>>, s[1] = running
      PROVE  Sweep(s, drop) # <<>> /\ Sweep(s, drop)[1] = running
  <2>1. s[1] \in Ids
    BY <1>2
  <2>2. s[1] \in {i \in Ids : i = running \/ i \notin drop}
    BY <1>2, <2>1
  <2>. QED
    BY <1>2, <2>2, RetainFront DEF Sweep
<1>. QED
  BY <1>1, <1>2

(* The slots for insertion are indices of the queue or right behind it, and *)
(* behind the running turn.                                                 *)
LEMMA SlotType ==
    ASSUME NEW s \in Seq(Ids)
    PROVE  /\ FrontSlot(s) \in 1..(Len(s) + 1)
           /\ SendNowSlot(s) \in 1..(Len(s) + 1)
           /\ running # None /\ s # <<>> /\ s[1] = running
              => FrontSlot(s) > 1 /\ SendNowSlot(s) > 1
<1>1. Len(s) \in Nat /\ (s # <<>> => Len(s) # 0)
  BY EmptySeq, LenProperties
<1>2. FrontSlot(s) \in 1..(Len(s) + 1)
  BY <1>1 DEF FrontSlot
<1>3. RunLength(s, FrontSlot(s), urgent) \in 0..(Len(s) + 1 - FrontSlot(s))
  BY <1>2, RunLengthBound
<1>4. running # None /\ s # <<>> /\ s[1] = running => FrontSlot(s) > 1
  BY DEF FrontSlot
<1>. QED
  BY <1>1, <1>2, <1>3, <1>4 DEF SendNowSlot

(* A reorder request names prompts. *)
LEMMA OrderType ==
    ASSUME NEW order \in SetToAllKPermutations(Prompts)
    PROVE  order \in Seq(Prompts)
<1>1. PICK S \in SUBSET Prompts : order \in SetToSeqs(S)
  BY DEF SetToAllKPermutations
<1>2. Cardinality(S) \in Nat
  BY Constants, FS_Subset, FS_CardinalityType
<1>3. order \in [1..Cardinality(S) -> S]
  BY <1>1 DEF SetToSeqs
<1>. QED
  BY <1>2, <1>3
-----------------------------------------------------------------------------
(***************************************************************************)
(* One lemma per group of actions, one step per action.                    *)
(***************************************************************************)
(* Tasks stay where the invariant needs them: the end of the loop is final, *)
(* and a task that holds the mutex does not move.                           *)
Stays == /\ pc["loop"] = "ended" => pc'["loop"] = "ended"
         /\ \A p \in Procs : pc[p] = "spawn" => pc'[p] = "spawn"

(* A step that touches neither queue nor task nor mutex keeps the front.   *)
LEMMA Undisturbed ==
    ASSUME IndInv, UNCHANGED <<q, running, lock>>, Stays
    PROVE  RunningIsFront' /\ LockInv'
BY DEF IndInv, TypeOK, LoopType, RunningIsFront, LockInv, Stays

(* With the mutex free, all that matters of a step that leaves it free is  *)
(* the front of the queue.                                                 *)
LEMMA FreeStep ==
    ASSUME IndInv, LockFree, UNCHANGED lock, Stays,
           running' # None /\ pc["loop"] # "ended" => q' # <<>> /\ q'[1] = running'
    PROVE  RunningIsFront' /\ LockInv'
BY DEF RunningIsFront, LockInv, LockFree, Stays

(* What a step may assume of the queue while the loop is running.          *)
LEMMA QueueFacts ==
    ASSUME IndInv
    PROVE  /\ q \in Seq(Ids) /\ Len(q) \in Nat
           /\ \A i \in 1..Len(q) : q[i] \in Ids
           /\ Queued \subseteq Ids
           /\ running # None /\ pc["loop"] # "ended" => q # <<>> /\ q[1] = running
<1>1. q \in Seq(Ids)
  BY DEF IndInv, TypeOK, StateType
<1>2. Len(q) \in Nat /\ \A i \in 1..Len(q) : q[i] \in Ids
  BY <1>1, LenProperties, ElementOfSeq
<1>3. Queued \subseteq Ids
  BY <1>1, <1>2 DEF Queued, ToSet
<1>. QED
  BY <1>1, <1>2, <1>3 DEF IndInv, RunningIsFront

(* What is appended does not change the front. *)
LEMMA ConcatFront ==
    ASSUME NEW S, NEW s \in Seq(S), NEW t \in Seq(S), s # <<>>
    PROVE  s \o t # <<>> /\ (s \o t)[1] = s[1]
<1>1. Len(s) \in Nat /\ Len(s) # 0 /\ Len(t) \in Nat
  BY EmptySeq, LenProperties
<1>2. /\ s \o t \in Seq(S)
      /\ Len(s \o t) = Len(s) + Len(t)
      /\ \A k \in 1..(Len(s) + Len(t)) :
             (s \o t)[k] = IF k <= Len(s) THEN s[k] ELSE t[k - Len(s)]
  BY ConcatProperties
<1>3. Len(s \o t) # 0
  BY <1>1, <1>2
<1>. QED
  BY <1>1, <1>2, <1>3, EmptySeq

(* Appending keeps a sequence one, and its front.                          *)
LEMMA AppendFront ==
    ASSUME NEW S, NEW s \in Seq(S), NEW e \in S
    PROVE  /\ Append(s, e) \in Seq(S)
           /\ Append(s, e) # <<>>
           /\ s # <<>> => Append(s, e)[1] = s[1]
<1>1. Len(s) \in Nat /\ (s # <<>> => Len(s) # 0)
  BY EmptySeq, LenProperties
<1>2. /\ Append(s, e) \in Seq(S)
      /\ Len(Append(s, e)) = Len(s) + 1
      /\ \A k \in 1..Len(s) : Append(s, e)[k] = s[k]
  BY AppendProperties
<1>3. Len(Append(s, e)) # 0 /\ (s # <<>> => 1 \in 1..Len(s))
  BY <1>1, <1>2
<1>4. Append(s, e) # <<>>
  BY <1>3, EmptySeq
<1>. QED
  BY <1>2, <1>3, <1>4

(* Edits of the queue by clients. *)
LEMMA EditStep ==
    ASSUME IndInv
    PROVE  /\ \A i \in Prompts : RemoveQueued(i) => IndInv'
           /\ \A order \in SetToAllKPermutations(Prompts) : Reorder(order) => IndInv'
           /\ \A owner : ClearQueue(owner) => IndInv'
           /\ \A i \in Prompts : HoldCombineEdit(i) => IndInv'
           /\ \A i \in Prompts : ReleaseCombineEdit(i) => IndInv'
<1>0. TypeOK /\ LateInv
  BY DEF IndInv
<1>. USE <1>0 DEF TypeOK
<1>1. ASSUME NEW i \in Prompts, RemoveQueued(i) PROVE IndInv'
  <2>1. q' \in Seq(Ids)
    BY <1>1, QueueFacts, RetainType DEF RemoveQueued
  <2>2. StateType'
    BY <1>1, <2>1 DEF RemoveQueued, StateType
  <2>3. SendType' /\ TurnType' /\ GoalType' /\ LoopType'
    BY <1>1, Frames DEF RemoveQueued
  <2>4. EndType'
    BY <1>1, ResolveType DEF RemoveQueued, EndType, Fates
  <2>5. running' # None /\ pc["loop"] # "ended" => q' # <<>> /\ q'[1] = running'
    <3>. SUFFICES ASSUME running # None PROVE q' # <<>> /\ q'[1] = running
      BY <1>1 DEF RemoveQueued
    <3>1. q # <<>> /\ q[1] = running /\ running \in Ids /\ running # i
      BY <1>1, QueueFacts DEF RemoveQueued, Accept, StateType
    <3>. QED
      BY <1>1, <3>1, QueueFacts, RetainFront DEF RemoveQueued
  <2>6. Stays /\ LateInv'
    BY <1>1 DEF RemoveQueued, Stays, LateInv
  <2>7. RunningIsFront' /\ LockInv'
    BY <1>1, <2>5, <2>6, FreeStep DEF RemoveQueued
  <2>. QED
    BY <2>2, <2>3, <2>4, <2>6, <2>7 DEF IndInv
<1>2. ASSUME NEW order \in SetToAllKPermutations(Prompts), Reorder(order)
      PROVE  IndInv'
  <2>. DEFINE movable == {i \in Queued : HasMeta(i) /\ i # running}
              fixed == Retain(q, Ids \ movable)
              named == Retain(order, movable)
              rest == Retain(q, movable \ ToSet(order))
  <2>1. fixed \in Seq(Ids) /\ rest \in Seq(Ids)
    BY QueueFacts, RetainType
  <2>2. named \in Seq(Ids)
    <3>1. order \in Seq(Ids)
      BY <1>2, OrderType DEF Ids, UserMessages
    <3>. QED
      BY <3>1, RetainType
  <2>3. q' = fixed \o named \o rest
    BY <1>2 DEF Reorder
  <2>4. running # None => fixed # <<>> /\ fixed[1] = running
    <3>. SUFFICES ASSUME running # None PROVE fixed # <<>> /\ fixed[1] = running
      OBVIOUS
    <3>1. q # <<>> /\ q[1] = running /\ running \in Ids \ movable
      BY <1>2, QueueFacts DEF Reorder, Accept, StateType
    <3>. QED
      BY <3>1, QueueFacts, RetainFront
  <2>. HIDE DEF fixed, named, rest
  <2>5. q' \in Seq(Ids)
    BY <2>1, <2>2, <2>3, ConcatProperties
  <2>6. running # None => q' # <<>> /\ q'[1] = running
    <3>1. fixed \o named \in Seq(Ids)
      BY <2>1, <2>2, ConcatProperties
    <3>2. running # None => fixed \o named # <<>> /\ (fixed \o named)[1] = running
      BY <2>1, <2>2, <2>4, ConcatFront
    <3>. QED
      BY <2>1, <2>3, <3>1, <3>2, ConcatFront
  <2>7. StateType'
    BY <1>2, <2>5 DEF Reorder, StateType
  <2>8. SendType' /\ TurnType' /\ GoalType' /\ LoopType' /\ EndType'
    BY <1>2, Frames DEF Reorder
  <2>9. Stays /\ LateInv'
    BY <1>2 DEF Reorder, Stays, LateInv
  <2>10. RunningIsFront' /\ LockInv'
    BY <1>2, <2>6, <2>9, FreeStep DEF Reorder
  <2>. QED
    BY <2>7, <2>8, <2>9, <2>10 DEF IndInv
<1>3. ASSUME NEW owner, ClearQueue(owner) PROVE IndInv'
  <2>. DEFINE cleared == {i \in Queued : (HasMeta(i) /\ i # running)
                                         /\ (owner = None \/ Owner[i] = owner)}
  <2>0. q' = Retain(q, Ids \ cleared)
    BY <1>3 DEF ClearQueue
  <2>1. q' = Retain(q, Ids \ cleared) /\ running \notin cleared
    BY <2>0
  <2>2. EndType'
    BY <1>3, ResolveType DEF ClearQueue, EndType, Fates
  <2>. HIDE DEF cleared
  <2>3. q' \in Seq(Ids)
    BY <2>1, QueueFacts, RetainType
  <2>4. StateType'
    BY <1>3, <2>3 DEF ClearQueue, StateType
  <2>5. SendType' /\ TurnType' /\ GoalType' /\ LoopType'
    BY <1>3, Frames DEF ClearQueue
  <2>6. running' # None /\ pc["loop"] # "ended" => q' # <<>> /\ q'[1] = running'
    <3>. SUFFICES ASSUME running # None PROVE q' # <<>> /\ q'[1] = running
      BY <1>3 DEF ClearQueue
    <3>1. q # <<>> /\ q[1] = running /\ running \in Ids \ cleared
      BY <1>3, <2>1, QueueFacts DEF ClearQueue, Accept, StateType
    <3>. QED
      BY <2>1, <3>1, QueueFacts, RetainFront
  <2>7. Stays /\ LateInv'
    BY <1>3 DEF ClearQueue, Stays, LateInv
  <2>8. RunningIsFront' /\ LockInv'
    BY <1>3, <2>6, <2>7, FreeStep DEF ClearQueue
  <2>. QED
    BY <2>2, <2>4, <2>5, <2>7, <2>8 DEF IndInv
<1>4. ASSUME NEW i \in Prompts, HoldCombineEdit(i) PROVE IndInv'
  <2>1. StateType'
    BY <1>4 DEF HoldCombineEdit, StateType
  <2>2. SendType' /\ TurnType' /\ GoalType' /\ LoopType' /\ EndType'
    BY <1>4, Frames DEF HoldCombineEdit
  <2>3. RunningIsFront' /\ LockInv' /\ LateInv'
    BY <1>4, Undisturbed DEF HoldCombineEdit, Stays, LateInv
  <2>. QED
    BY <2>1, <2>2, <2>3 DEF IndInv
<1>5. ASSUME NEW i \in Prompts, ReleaseCombineEdit(i) PROVE IndInv'
  <2>1. StateType'
    BY <1>5 DEF ReleaseCombineEdit, StateType
  <2>2. SendType' /\ TurnType' /\ GoalType' /\ LoopType' /\ EndType'
    BY <1>5, Frames DEF ReleaseCombineEdit
  <2>3. RunningIsFront' /\ LockInv' /\ LateInv'
    BY <1>5, Undisturbed DEF ReleaseCombineEdit, Stays, LateInv
  <2>. QED
    BY <2>1, <2>2, <2>3 DEF IndInv
<1>. QED
  BY <1>1, <1>2, <1>3, <1>4, <1>5
(* Insertion at either slot leaves the running turn in front. *)
LEMMA InsertFront ==
    ASSUME NEW s \in Seq(Ids), NEW i \in Ids,
           NEW slot \in {FrontSlot(s), SendNowSlot(s)},
           running # None => s # <<>> /\ s[1] = running
    PROVE  /\ InsertAt(s, slot, i) \in Seq(Ids)
           /\ InsertAt(s, slot, i) # <<>>
           /\ running # None => InsertAt(s, slot, i)[1] = running
<1>1. slot \in 1..(Len(s) + 1) /\ (running # None => slot > 1)
  BY SlotType
<1>2. /\ InsertAt(s, slot, i) \in Seq(Ids)
      /\ InsertAt(s, slot, i) # <<>>
      /\ slot > 1 => InsertAt(s, slot, i)[1] = s[1]
  BY <1>1, InsertAtType
<1>. QED
  BY <1>1, <1>2

(* A handler of the run loop that begins when the loop is idle and ends at *)
(* a place other than the requeue.                                         *)
LEMMA HandleStays ==
    ASSUME IndInv, NEW where \in LoopPcs \ {"requeue"}, NEW after \in {"idle", "drain"},
           pc["loop"] \notin {"ended", "spawn"}, Handle(where, after),
           UNCHANGED <<lock, pin, chan, may>>
    PROVE  LoopType' /\ Stays /\ LateInv'
<1>0. LoopType
  BY DEF IndInv, TypeOK
<1>1. /\ pc' \in [Procs -> LoopPcs \cup StarterPcs]
      /\ \A r \in Procs : pc'[r] \in Pcs(r)
      /\ pc'["loop"] = where
      /\ \A r \in Starters : pc'[r] = pc[r]
      /\ cx' \in CxType
  BY <1>0, HandleType
<1>2. LoopType'
  BY <1>0, <1>1 DEF LoopType
<1>. QED
  BY <1>1, <1>2 DEF Stays, LateInv, Procs

(* New entries of the queue. *)
LEMMA InsertStep ==
    ASSUME IndInv
    PROVE  /\ \A i \in Prompts, now \in BOOLEAN : PromptUser(i, now) => IndInv'
           /\ \A i \in Synthetic, late \in BOOLEAN : PromptWake(i, late) => IndInv'
           /\ \A i \in Synthetic : GoalSummaryTurn(i) => IndInv'
           /\ \A i \in Synthetic : WorkflowCompletionTurn(i) => IndInv'
           /\ \A i \in Prompts : InterjectQueued(i) => IndInv'
           /\ \A i \in Synthetic : ResumePlan(i) => IndInv'
<1>0. TypeOK /\ LateInv
  BY DEF IndInv
<1>. USE <1>0 DEF TypeOK
<1>1. ASSUME NEW i \in Prompts, NEW now \in BOOLEAN, PromptUser(i, now) PROVE IndInv'
  <2>. DEFINE armed == \E k \in 1..Len(q) : q[k] \in CompletionWakes /\ q[k] # running
              base == IF armed THEN Sweep(q, Synthetic) ELSE q
              at == InsertAt(base, SendNowSlot(base), i)
              end == Append(base, i)
  <2>1. i \in Ids /\ pc["loop"] = "idle"
    BY <1>1 DEF Ids, UserMessages, PromptUser, Accept
  <2>2. base \in Seq(Ids) /\ (running # None => base # <<>> /\ base[1] = running)
    BY <2>1, QueueFacts, SweepType
  <2>3. q' \in {at, end}
    BY <1>1 DEF PromptUser
  <2>. HIDE DEF base
  <2>4. at \in Seq(Ids) /\ at # <<>> /\ (running # None => at[1] = running)
    BY <2>1, <2>2, InsertFront
  <2>5. end \in Seq(Ids) /\ end # <<>> /\ (running # None => end[1] = running)
    BY <2>1, <2>2, AppendFront
  <2>6. StateType'
    <3>1. urgent' \subseteq Ids /\ suppressed' \in BOOLEAN
      BY <1>1, <2>1 DEF PromptUser, StateType
    <3>2. UNCHANGED <<running, holds, notes, rewindable>>
      BY <1>1 DEF PromptUser
    <3>. QED
      BY <2>3, <2>4, <2>5, <3>1, <3>2 DEF StateType
  <2>7. SendType' /\ TurnType' /\ GoalType'
    BY <1>1, Frames DEF PromptUser
  <2>8. EndType'
    <3>1. fate' \in [Ids \cup Monitors -> Fates]
      BY <1>1 DEF PromptUser, EndType, Fates
    <3>2. UNCHANGED <<terminals, panicked>>
      BY <1>1 DEF PromptUser
    <3>. QED
      BY <3>1, <3>2 DEF EndType
  <2>9. LoopType' /\ Stays /\ LateInv'
    <3>1. Handle("cancelNow", "idle") \/ Handle("start", "idle")
      BY <1>1 DEF PromptUser
    <3>. QED
      BY <1>1, <2>1, <3>1, HandleStays DEF PromptUser, LoopPcs
  <2>10. RunningIsFront' /\ LockInv'
    BY <1>1, <2>3, <2>4, <2>5, <2>9, FreeStep DEF PromptUser
  <2>. QED
    BY <2>6, <2>7, <2>8, <2>9, <2>10 DEF IndInv
<1>2. ASSUME NEW i \in Synthetic, NEW late \in BOOLEAN, PromptWake(i, late)
      PROVE  IndInv'
  <2>. DEFINE refused == i \in TaskWakes /\ (suppressed \/ late)
  <2>1. i \in Ids /\ pc["loop"] = "idle"
    BY <1>2 DEF Ids, PromptWake, Accept
  <2>2. /\ Append(q, i) \in Seq(Ids)
        /\ Append(q, i) # <<>>
        /\ q # <<>> => Append(q, i)[1] = q[1]
    BY <2>1, QueueFacts, AppendFront
  <2>3. notes' \in Seq(Notes) /\ Len(notes') <= MaxNotes
    <3>1. notes \in Seq(Notes) /\ Len(notes) <= MaxNotes
      BY DEF StateType
    <3>2. CASE i \in TaskWakes
      <4>1. <<i>> \in Seq(Notes)
        BY <3>2 DEF Notes
      <4>2. /\ PushCapped(notes, <<i>>, MaxNotes) \in Seq(Notes)
            /\ Len(PushCapped(notes, <<i>>, MaxNotes)) <= MaxNotes
        BY <3>1, <4>1, Constants, PushCappedType
      <4>. QED
        BY <1>2, <3>1, <4>2 DEF PromptWake
    <3>. QED
      BY <1>2, <3>1, <3>2 DEF PromptWake
  <2>4. StateType'
    <3>1. q' \in Seq(Ids)
      BY <1>2, <2>2, QueueFacts DEF PromptWake
    <3>2. UNCHANGED <<running, urgent, holds, suppressed, rewindable>>
      BY <1>2 DEF PromptWake
    <3>. QED
      BY <2>3, <3>1, <3>2 DEF StateType
  <2>5. SendType' /\ TurnType' /\ GoalType'
    BY <1>2, Frames DEF PromptWake
  <2>6. EndType'
    BY <1>2, ResolveType DEF PromptWake, EndType, Fates
  <2>7. LoopType' /\ Stays /\ LateInv'
    <3>1. CASE refused
      BY <1>2, <3>1, Frames DEF PromptWake, Stays, LateInv
    <3>2. CASE ~refused
      <4>1. Handle("start", "idle") /\ UNCHANGED <<lock, pin, chan, may>>
        BY <1>2, <3>2 DEF PromptWake
      <4>. QED
        BY <2>1, <4>1, HandleStays DEF LoopPcs
    <3>. QED
      BY <3>1, <3>2
  <2>8. running' # None => q' # <<>> /\ q'[1] = running'
    BY <1>2, <2>1, <2>2, QueueFacts DEF PromptWake
  <2>9. RunningIsFront' /\ LockInv'
    BY <1>2, <2>7, <2>8, FreeStep DEF PromptWake
  <2>. QED
    BY <2>4, <2>5, <2>6, <2>7, <2>9 DEF IndInv
<1>3. ASSUME NEW i \in Synthetic, GoalSummaryTurn(i) PROVE IndInv'
  <2>1. i \in Ids /\ q' = Append(q, i)
    BY <1>3 DEF Ids, GoalSummaryTurn
  <2>2. /\ q' \in Seq(Ids)
        /\ q' # <<>>
        /\ q # <<>> => q'[1] = q[1]
    BY <2>1, QueueFacts, AppendFront
  <2>3. StateType'
    BY <1>3, <2>2 DEF GoalSummaryTurn, StateType
  <2>4. SendType' /\ TurnType' /\ GoalType'
    BY <1>3, Frames DEF GoalSummaryTurn
  <2>5. EndType'
    BY <1>3, ResolveType DEF GoalSummaryTurn, EndType, Fates
  <2>6. LoopType' /\ Stays /\ LateInv'
    BY <1>3, HandleStays DEF GoalSummaryTurn, Accept, LoopPcs
  <2>7. running' # None /\ pc["loop"] # "ended" => q' # <<>> /\ q'[1] = running'
    BY <1>3, <2>2, QueueFacts DEF GoalSummaryTurn
  <2>8. RunningIsFront' /\ LockInv'
    BY <1>3, <2>6, <2>7, FreeStep DEF GoalSummaryTurn
  <2>. QED
    BY <2>3, <2>4, <2>5, <2>6, <2>8 DEF IndInv
<1>4. ASSUME NEW i \in Synthetic, WorkflowCompletionTurn(i) PROVE IndInv'
  <2>1. i \in Ids /\ q' = Append(q, i)
    BY <1>4 DEF Ids, WorkflowCompletionTurn
  <2>2. /\ q' \in Seq(Ids)
        /\ q' # <<>>
        /\ q # <<>> => q'[1] = q[1]
    BY <2>1, QueueFacts, AppendFront
  <2>3. StateType'
    BY <1>4, <2>2 DEF WorkflowCompletionTurn, StateType
  <2>4. SendType' /\ TurnType' /\ GoalType'
    BY <1>4, Frames DEF WorkflowCompletionTurn
  <2>5. EndType'
    BY <1>4, ResolveType DEF WorkflowCompletionTurn, EndType, Fates
  <2>6. LoopType' /\ Stays /\ LateInv'
    BY <1>4, HandleStays DEF WorkflowCompletionTurn, Accept, LoopPcs
  <2>7. running' # None /\ pc["loop"] # "ended" => q' # <<>> /\ q'[1] = running'
    BY <1>4, <2>2, QueueFacts DEF WorkflowCompletionTurn
  <2>8. RunningIsFront' /\ LockInv'
    BY <1>4, <2>6, <2>7, FreeStep DEF WorkflowCompletionTurn
  <2>. QED
    BY <2>3, <2>4, <2>5, <2>6, <2>8 DEF IndInv
<1>5. ASSUME NEW i \in Prompts, InterjectQueued(i) PROVE IndInv'
  <2>. DEFINE rest == Retain(q, Ids \ {i})
  <2>1. i \in Ids /\ pc["loop"] = "idle" /\ i # running
    BY <1>5 DEF Ids, UserMessages, InterjectQueued, Accept
  <2>2. rest \in Seq(Ids)
    BY QueueFacts, RetainType
  <2>3. running # None => rest # <<>> /\ rest[1] = running
    <3>. SUFFICES ASSUME running # None PROVE rest # <<>> /\ rest[1] = running
      OBVIOUS
    <3>1. q # <<>> /\ q[1] = running /\ running \in Ids \ {i}
      BY <2>1, QueueFacts DEF StateType
    <3>. QED
      BY <3>1, QueueFacts, RetainFront
  <2>4. q' = InsertAt(rest, SendNowSlot(rest), i)
    BY <1>5 DEF InterjectQueued
  <2>. HIDE DEF rest
  <2>5. q' \in Seq(Ids) /\ q' # <<>> /\ (running # None => q'[1] = running)
    BY <2>1, <2>2, <2>3, <2>4, InsertFront
  <2>6. StateType'
    BY <1>5, <2>1, <2>5 DEF InterjectQueued, StateType
  <2>7. SendType' /\ TurnType' /\ GoalType' /\ EndType'
    BY <1>5, Frames DEF InterjectQueued, endVars
  <2>8. LoopType' /\ Stays /\ LateInv'
    <3>1. Handle("cancelNow", "idle") \/ Handle("start", "idle")
      BY <1>5 DEF InterjectQueued
    <3>. QED
      BY <1>5, <2>1, <3>1, HandleStays DEF InterjectQueued, LoopPcs
  <2>9. RunningIsFront' /\ LockInv'
    BY <1>5, <2>5, <2>8, FreeStep DEF InterjectQueued
  <2>. QED
    BY <2>6, <2>7, <2>8, <2>9 DEF IndInv
<1>6. ASSUME NEW i \in Synthetic, ResumePlan(i) PROVE IndInv'
  <2>1. i \in Ids /\ q' = Append(q, i)
    BY <1>6 DEF Ids, ResumePlan
  <2>2. /\ q' \in Seq(Ids)
        /\ q' # <<>>
        /\ q # <<>> => q'[1] = q[1]
    BY <2>1, QueueFacts, AppendFront
  <2>3. StateType'
    BY <1>6, <2>2 DEF ResumePlan, StateType
  <2>4. SendType' /\ TurnType' /\ GoalType'
    BY <1>6, Frames DEF ResumePlan
  <2>5. EndType'
    BY <1>6, ResolveType DEF ResumePlan, EndType, Fates
  <2>6. LoopType' /\ Stays /\ LateInv'
    <3>1. "resume" \in Procs /\ "resume" # "loop" /\ "start" \in Pcs("resume")
      BY <1>6 DEF ResumePlan, Procs, Pcs, StarterPcs
    <3>2. pc["resume"] = "waiting" /\ Goto("resume", "start")
      BY <1>6 DEF ResumePlan
    <3>3. /\ pc' \in [Procs -> LoopPcs \cup StarterPcs]
          /\ \A r \in Procs : pc'[r] \in Pcs(r)
          /\ \A r \in Procs \ {"resume"} : pc'[r] = pc[r]
      BY <3>1, <3>2, GotoType
    <3>4. UNCHANGED <<lock, pin, chan, may, cx>>
      BY <1>6 DEF ResumePlan
    <3>5. LoopType'
      BY <3>3, <3>4 DEF LoopType
    <3>. QED
      BY <3>1, <3>2, <3>3, <3>4, <3>5 DEF Stays, LateInv, Procs
  <2>7. running' # None /\ pc["loop"] # "ended" => q' # <<>> /\ q'[1] = running'
    BY <1>6, <2>2, QueueFacts DEF ResumePlan
  <2>8. RunningIsFront' /\ LockInv'
    BY <1>6, <2>6, <2>7, FreeStep DEF ResumePlan
  <2>. QED
    BY <2>3, <2>4, <2>5, <2>6, <2>8 DEF IndInv
<1>. QED
  BY <1>1, <1>2, <1>3, <1>4, <1>5, <1>6
(* The loop moves on within a handler, to a place other than the requeue. *)
LEMMA LoopStays ==
    ASSUME IndInv, NEW where \in LoopPcs,
           pc["loop"] \notin {"ended", "spawn"}, Goto("loop", where),
           UNCHANGED <<lock, may>>,
           pin' \in Ids \cup {None}, chan' \in Seq(Ids), cx' \in CxType,
           where = "requeue" => cx'.late # <<>>
    PROVE  LoopType' /\ Stays /\ LateInv'
<1>0. LoopType
  BY DEF IndInv, TypeOK
<1>1. "loop" \in Procs /\ where \in Pcs("loop")
  BY DEF Procs, Pcs
<1>2. /\ pc' \in [Procs -> LoopPcs \cup StarterPcs]
      /\ \A r \in Procs : pc'[r] \in Pcs(r)
      /\ pc'["loop"] = where
      /\ \A r \in Procs \ {"loop"} : pc'[r] = pc[r]
  BY <1>0, <1>1, GotoType
<1>3. LoopType'
  BY <1>0, <1>2 DEF LoopType
<1>. QED
  BY <1>1, <1>2, <1>3 DEF Stays, LateInv

(* Interjections: into the buffer, out of it, and into the queue. *)
LEMMA InterjectStep ==
    ASSUME IndInv
    PROVE  /\ \A i \in Interjections : Interject(i) => IndInv'
           /\ Flush => IndInv'
           /\ Requeue => IndInv'
<1>0. TypeOK /\ LateInv
  BY DEF IndInv
<1>. USE <1>0 DEF TypeOK
<1>1. ASSUME NEW i \in Interjections, Interject(i) PROVE IndInv'
  <2>1. pc["loop"] = "idle" /\ UNCHANGED <<lock, pin, chan, may>>
    BY <1>1 DEF Interject, Accept
  <2>2. StateType' /\ TurnType' /\ GoalType'
    BY <1>1, Frames DEF Interject
  <2>3. EndType'
    BY <1>1, ResolveType DEF Interject, EndType, Fates
  <2>4. ASSUME pin # None PROVE SendType' /\ LoopType' /\ Stays /\ LateInv'
    <3>1. interj' = Append(interj, i) /\ aim' = [aim EXCEPT ![i] = pin]
      BY <1>1, <2>4 DEF Interject
    <3>2. interj' \in Seq(Interjections)
      BY <3>1, AppendFront DEF SendType
    <3>3. aim' \in [Interjections -> Ids \cup {None}]
      BY <3>1 DEF SendType, LoopType
    <3>4. SendType'
      BY <1>1, <3>2, <3>3 DEF Interject, SendType
    <3>5. LoopType' /\ Stays /\ LateInv'
      BY <1>1, <2>4, Frames DEF Interject, Stays, LateInv
    <3>. QED
      BY <3>4, <3>5
  <2>5. ASSUME pin = None PROVE SendType' /\ LoopType' /\ Stays /\ LateInv'
    <3>1. cx' = [NoCx EXCEPT !.late = <<i>>] /\ Goto("loop", "requeue")
      BY <1>1, <2>5 DEF Interject
    <3>2. <<i>> \in Seq(Interjections) /\ <<i>> # <<>>
      OBVIOUS
    <3>3. cx' \in CxType /\ cx'.late # <<>>
      BY <3>1, <3>2, NoCxType DEF CxType
    <3>4. SendType'
      BY <1>1, <2>5, Frames DEF Interject, sendVars
    <3>5. LoopType' /\ Stays /\ LateInv'
      BY <2>1, <3>1, <3>3, LoopStays DEF LoopPcs, LoopType
    <3>. QED
      BY <3>4, <3>5
  <2>6. UNCHANGED <<q, running, lock>>
    BY <1>1 DEF Interject, stateVars
  <2>7. RunningIsFront' /\ LockInv'
    BY <2>4, <2>5, <2>6, Undisturbed
  <2>. QED
    BY <2>2, <2>3, <2>4, <2>5, <2>7 DEF IndInv
<1>2. ASSUME Flush PROVE IndInv'
  <2>1. StateType' /\ TurnType' /\ GoalType' /\ EndType'
    BY <1>2, Frames DEF Flush
  <2>2. SendType'
    BY <1>2 DEF Flush, SendType
  <2>3. cx' \in CxType /\ cx'.late = interj
    <3>1. cx' = [cx EXCEPT !.late = interj]
      BY <1>2 DEF Flush
    <3>. QED
      BY <3>1 DEF CxType, LoopType, SendType
  <2>4. LoopType' /\ Stays /\ LateInv'
    <3>1. PICK where \in {"start", "requeue"} :
              Goto("loop", where) /\ (where = "requeue" => interj # <<>>)
      BY <1>2 DEF Flush
    <3>2. pc["loop"] = "flush" /\ UNCHANGED <<lock, may, pin, chan>>
      BY <1>2 DEF Flush
    <3>. QED
      BY <2>3, <3>1, <3>2, LoopStays DEF LoopPcs, LoopType
  <2>5. RunningIsFront' /\ LockInv'
    BY <1>2, <2>4, Undisturbed DEF Flush, stateVars
  <2>. QED
    BY <2>1, <2>2, <2>4, <2>5 DEF IndInv
<1>3. ASSUME Requeue PROVE IndInv'
  <2>. DEFINE i == cx.late[Len(cx.late)]
              rest == SubSeq(cx.late, 1, Len(cx.late) - 1)
  <2>1. pc["loop"] = "requeue"
    BY <1>3 DEF Requeue
  <2>2. cx.late \in Seq(Interjections) /\ cx.late # <<>>
    BY <2>1 DEF LateInv, LoopType, CxType
  <2>3. Len(cx.late) \in Nat /\ Len(cx.late) # 0
    BY <2>2, EmptySeq, LenProperties
  <2>4. \A k \in 1..Len(cx.late) : cx.late[k] \in Interjections
    BY <2>2, ElementOfSeq
  <2>5. i \in Interjections
    BY <2>3, <2>4
  <2>6. rest \in Seq(Interjections)
    <3>1. \A k \in 1..(Len(cx.late) - 1) : cx.late[k] \in Interjections
      BY <2>3, <2>4
    <3>. QED
      BY <2>2, <2>3, <3>1, SubSeqProperties
  <2>7. /\ q' = InsertAt(q, FrontSlot(q), i)
        /\ urgent' = urgent \cup {i}
        /\ fate' = Resolve({i}, "pending")
        /\ cx' = [cx EXCEPT !.late = rest]
        /\ Goto("loop", IF rest = <<>> THEN "start" ELSE "requeue")
    BY <1>3 DEF Requeue
  <2>. HIDE DEF i, rest
  <2>8. i \in Ids
    BY <2>5 DEF Ids, UserMessages
  <2>9. q' \in Seq(Ids) /\ q' # <<>> /\ (running # None => q'[1] = running)
    BY <2>1, <2>7, <2>8, QueueFacts, InsertFront
  <2>10. StateType'
    BY <1>3, <2>7, <2>8, <2>9 DEF Requeue, StateType
  <2>11. SendType' /\ TurnType' /\ GoalType'
    BY <1>3, Frames DEF Requeue
  <2>12. EndType'
    BY <1>3, <2>7, ResolveType DEF Requeue, EndType, Fates
  <2>13. cx' \in CxType /\ cx'.late = rest
    BY <2>6, <2>7 DEF LoopType, CxType
  <2>14. LoopType' /\ Stays /\ LateInv'
    <3>1. PICK where \in {"start", "requeue"} :
              Goto("loop", where) /\ (where = "requeue" => rest # <<>>)
      BY <2>7
    <3>2. UNCHANGED <<lock, may, pin, chan>>
      BY <1>3 DEF Requeue
    <3>. QED
      BY <2>1, <2>13, <3>1, <3>2, LoopStays DEF LoopPcs, LoopType
  <2>15. RunningIsFront' /\ LockInv'
    BY <1>3, <2>9, <2>14, FreeStep DEF Requeue
  <2>. QED
    BY <2>10, <2>11, <2>12, <2>14, <2>15 DEF IndInv
<1>. QED
  BY <1>1, <1>2, <1>3
(* A task returns from a promotion attempt. *)
LEMMA ReturnStays ==
    ASSUME IndInv, NEW p \in Procs, pc[p] \notin {"ended", "spawn"}, Return(p),
           UNCHANGED <<chan, cx>>,
           lock' \in Procs \cup {None}, pin' \in Ids \cup {None},
           may' \in [Procs -> BOOLEAN]
    PROVE  LoopType' /\ Stays /\ LateInv'
<1>0. LoopType
  BY DEF IndInv, TypeOK
<1>1. PICK where \in Pcs(p) : Goto(p, where) /\ where # "requeue"
  <2>1. cx.after \in {"idle", "drain"}
    BY <1>0 DEF LoopType, CxType
  <2>. QED
    BY <2>1 DEF Return, Pcs, LoopPcs, StarterPcs
<1>2. /\ pc' \in [Procs -> LoopPcs \cup StarterPcs]
      /\ \A r \in Procs : pc'[r] \in Pcs(r)
      /\ pc'[p] = where
      /\ \A r \in Procs \ {p} : pc'[r] = pc[r]
  BY <1>0, <1>1, GotoType
<1>3. LoopType'
  BY <1>0, <1>2 DEF LoopType
<1>4. LateInv'
  BY <1>1, <1>2 DEF IndInv, LateInv, Procs
<1>. QED
  BY <1>2, <1>3, <1>4 DEF Stays, Procs

(* The front that is promoted is the front of what is left of the queue.   *)
LEMMA PromotedQueue ==
    ASSUME NEW s \in Seq(Ids), s # <<>>, NEW n \in Nat
    PROVE  <<s[1]>> \o DropFirst(s, n) \in Seq(Ids) /\ <<s[1]>> \o DropFirst(s, n) # <<>>
<1>0. Len(s) \in Nat /\ Len(s) # 0 /\ \A k \in 1..Len(s) : s[k] \in Ids
  BY EmptySeq, LenProperties, ElementOfSeq
<1>1. DropFirst(s, n) \in Seq(Ids)
  BY DropFirstType
<1>2. <<s[1]>> \in Seq(Ids) /\ <<s[1]>> # <<>>
  BY <1>0
<1>. QED
  BY <1>1, <1>2, ConcatFront, ConcatProperties

(* maybe_start_running_task *)
LEMMA PromotionStep ==
    ASSUME IndInv
    PROVE  /\ \A p \in Procs : Start(p) => IndInv'
           /\ \A p \in Procs : Promote(p) => IndInv'
           /\ \A p \in Procs : Spawn(p) => IndInv'
           /\ McpReady => IndInv'
<1>0. TypeOK /\ LateInv
  BY DEF IndInv
<1>. USE <1>0 DEF TypeOK
<1>1. ASSUME NEW p \in Procs, Start(p) PROVE IndInv'
  <2>1. StateType' /\ SendType' /\ TurnType' /\ GoalType' /\ EndType'
    BY <1>1, Frames DEF Start
  <2>2. pc[p] = "start" /\ UNCHANGED <<lock, pin, chan, cx>>
    BY <1>1 DEF Start
  <2>3. ASSUME Return(p), UNCHANGED may PROVE LoopType' /\ Stays /\ LateInv'
    BY <2>2, <2>3, ReturnStays DEF LoopType
  <2>4. ASSUME Goto(p, "promote"), may' = [may EXCEPT ![p] = Len(q) >= 2]
        PROVE  LoopType' /\ Stays /\ LateInv'
    <3>1. "promote" \in Pcs(p)
      BY DEF Pcs, LoopPcs, StarterPcs
    <3>2. /\ pc' \in [Procs -> LoopPcs \cup StarterPcs]
          /\ \A r \in Procs : pc'[r] \in Pcs(r)
          /\ pc'[p] = "promote"
          /\ \A r \in Procs \ {p} : pc'[r] = pc[r]
      BY <2>4, <3>1, GotoType
    <3>3. may' \in [Procs -> BOOLEAN]
      BY <2>4, QueueFacts DEF LoopType
    <3>4. LoopType'
      BY <2>2, <3>2, <3>3 DEF LoopType
    <3>. QED
      BY <2>2, <3>2, <3>4 DEF Stays, LateInv, Procs
  <2>5. LoopType' /\ Stays /\ LateInv'
    BY <1>1, <2>3, <2>4 DEF Start
  <2>6. RunningIsFront' /\ LockInv'
    BY <1>1, <2>5, Undisturbed DEF Start, stateVars
  <2>. QED
    BY <2>1, <2>5, <2>6 DEF IndInv
<1>2. ASSUME NEW p \in Procs, Promote(p) PROVE IndInv'
  <2>. DEFINE stale == RunLength(q, 1, WorkflowWakes \cap reported)
              live == DropFirst(q, stale)
              held == holds \cap ToSet(live)
              n == IF may[p] /\ CombineQueued THEN CombinePrefixLen(live, held) ELSE 1
              next == <<live[1]>> \o DropFirst(live, n)
  <2>1. pc[p] = "promote" /\ LockFree
    BY <1>2 DEF Promote
  <2>2. UNCHANGED <<running, urgent, notes, sendVars, turnVars, goalVars, reported,
                    chan, may, cx, terminals, panicked>>
    BY <1>2 DEF Promote
  <2>3. live \in Seq(Ids)
    <3>1. stale \in Nat
      BY QueueFacts, RunLengthBound
    <3>. QED
      BY <3>1, QueueFacts, DropFirstType
  <2>4. \/ /\ Return(p)
           /\ UNCHANGED <<q, holds, suppressed, rewindable, pin, lock, fate>>
        \/ /\ running = None /\ q' = <<>> /\ holds' = {}
           /\ fate' = Resolve(Queued, "removed")
           /\ Return(p)
           /\ UNCHANGED <<suppressed, rewindable, pin, lock>>
        \/ /\ running = None /\ live # <<>>
           /\ q' = next
           /\ holds' = held
           /\ fate' = Resolve(Queued \ ToSet(next), "removed")
           /\ suppressed' = (suppressed /\ live[1] \notin UserMessages)
           /\ rewindable' = TRUE
           /\ pin' = live[1]
           /\ lock' = p
           /\ Goto(p, "spawn")
    BY <1>2 DEF Promote, NothingToPromote
  <2>5. n \in Nat \/ live = <<>>
    <3>. SUFFICES ASSUME live # <<>> PROVE CombinePrefixLen(live, held) \in Nat
      OBVIOUS
    <3>. HIDE DEF live, held
    <3>1. Len(live) \in Nat /\ Len(live) # 0
      BY <2>3, EmptySeq, LenProperties
    <3>2. 2 \in 1..(Len(live) + 1)
      BY <3>1
    <3>3. RunLength(live, 2, Mergeable \ (Imaged \cup held)) \in Nat
      BY <2>3, <3>1, <3>2, RunLengthBound
    <3>. QED
      BY <3>3 DEF CombinePrefixLen
  <2>6. held \subseteq Prompts
    BY DEF StateType
  <2>7. live # <<>> => next \in Seq(Ids) /\ next # <<>> /\ live[1] \in Ids
    <3>. HIDE DEF live, n
    <3>. QED
      BY <2>3, <2>5, PromotedQueue, EmptySeq
  <2>. HIDE DEF live, held, next
  <2>8. StateType'
    <3>0. <<>> \in Seq(Ids) /\ q \in Seq(Ids)
      BY QueueFacts
    <3>1. q' \in Seq(Ids)
      BY <2>4, <2>7, <3>0
    <3>2. holds' \subseteq Prompts
      BY <2>4, <2>6 DEF StateType
    <3>3. suppressed' \in BOOLEAN /\ rewindable' \in BOOLEAN
      BY <2>4 DEF StateType
    <3>. QED
      BY <2>2, <3>1, <3>2, <3>3 DEF StateType
  <2>9. SendType' /\ TurnType' /\ GoalType'
    BY <2>2, Frames
  <2>10. EndType'
    BY <2>2, <2>4, ResolveType DEF EndType, Fates
  <2>11. CASE UNCHANGED lock
    <3>1. Return(p) /\ UNCHANGED pin
      BY <2>1, <2>4, <2>11, Constants DEF LockFree
    <3>2. LoopType' /\ Stays /\ LateInv'
      BY <2>1, <2>2, <2>11, <3>1, ReturnStays DEF LoopType
    <3>3. running' # None /\ pc["loop"] # "ended" => q' # <<>> /\ q'[1] = running'
      BY <2>1, <2>2, <2>4, <2>11, Constants, QueueFacts DEF LockFree
    <3>4. RunningIsFront' /\ LockInv'
      BY <2>1, <2>11, <3>2, <3>3, FreeStep
    <3>. QED
      BY <2>8, <2>9, <2>10, <3>2, <3>4 DEF IndInv
  <2>12. CASE lock' # lock
    <3>1. /\ running = None /\ live # <<>> /\ q' = next /\ pin' = live[1]
          /\ lock' = p /\ Goto(p, "spawn")
      BY <2>4, <2>12
    <3>2. "spawn" \in Pcs(p)
      BY DEF Pcs, LoopPcs, StarterPcs
    <3>3. /\ pc' \in [Procs -> LoopPcs \cup StarterPcs]
          /\ \A r \in Procs : pc'[r] \in Pcs(r)
          /\ pc'[p] = "spawn"
          /\ \A r \in Procs \ {p} : pc'[r] = pc[r]
      BY <3>1, <3>2, GotoType
    <3>4. LoopType'
      BY <2>2, <2>7, <3>1, <3>3 DEF LoopType
    <3>5. RunningIsFront' /\ LockInv' /\ LateInv'
      BY <2>2, <2>7, <3>1, <3>3 DEF RunningIsFront, LockInv, LateInv, Procs
    <3>. QED
      BY <2>8, <2>9, <2>10, <3>4, <3>5 DEF IndInv
  <2>. QED
    BY <2>11, <2>12
<1>3. ASSUME NEW p \in Procs, Spawn(p) PROVE IndInv'
  <2>1. pc[p] = "spawn" /\ lock = p /\ lock # None
    BY <1>3, Constants DEF Spawn
  <2>2. running = None /\ q # <<>>
    BY <2>1 DEF IndInv, LockInv
  <2>3. q[1] \in Ids
    BY <2>2, QueueFacts, EmptySeq
  <2>4. running' = q[1] /\ lock' = None /\ Return(p)
        /\ UNCHANGED <<q, pin, may, chan, cx>>
    BY <1>3 DEF Spawn
  <2>5. StateType'
    BY <1>3, <2>3 DEF Spawn, StateType
  <2>6. SendType' /\ GoalType' /\ EndType'
    BY <1>3, Frames DEF Spawn
  <2>7. TurnType'
    <3>1. turn' = [turn EXCEPT ![q[1]] = "spawned"]
          /\ spawned' = [spawned EXCEPT ![q[1]] = @ + 1]
          /\ UNCHANGED <<waiting, turnActive>>
      BY <1>3 DEF Spawn
    <3>2. turn' \in [Ids -> Live \cup {"none", "over"}]
      BY <3>1 DEF TurnType, Live
    <3>3. spawned' \in [Ids -> Nat]
      BY <2>3, <3>1 DEF TurnType
    <3>. QED
      BY <3>1, <3>2, <3>3 DEF TurnType
  <2>8. PICK where \in Pcs(p) : Goto(p, where) /\ where \notin {"requeue", "ended"}
    <3>1. cx.after \in {"idle", "drain"}
      BY DEF LoopType, CxType
    <3>. QED
      BY <2>4, <3>1 DEF Return, Pcs, LoopPcs, StarterPcs
  <2>9. /\ pc' \in [Procs -> LoopPcs \cup StarterPcs]
        /\ \A r \in Procs : pc'[r] \in Pcs(r)
        /\ pc'[p] = where
        /\ \A r \in Procs \ {p} : pc'[r] = pc[r]
    BY <2>8, GotoType
  <2>10. LoopType'
    BY <2>4, <2>9 DEF LoopType
  <2>11. RunningIsFront' /\ LockInv' /\ LateInv'
    BY <2>2, <2>4, <2>8, <2>9 DEF RunningIsFront, LockInv, LateInv, Procs
  <2>. QED
    BY <2>5, <2>6, <2>7, <2>10, <2>11 DEF IndInv
<1>4. ASSUME McpReady PROVE IndInv'
  <2>1. StateType' /\ SendType' /\ TurnType' /\ GoalType' /\ EndType'
    BY <1>4, Frames DEF McpReady
  <2>2. /\ "mcp" \in Procs /\ "mcp" # "loop" /\ "start" \in Pcs("mcp")
        /\ pc["mcp"] = "waiting" /\ Goto("mcp", "start")
    BY <1>4 DEF McpReady, Procs, Pcs, StarterPcs
  <2>3. /\ pc' \in [Procs -> LoopPcs \cup StarterPcs]
        /\ \A r \in Procs : pc'[r] \in Pcs(r)
        /\ \A r \in Procs \ {"mcp"} : pc'[r] = pc[r]
    BY <2>2, GotoType
  <2>4. UNCHANGED <<q, running, lock, pin, chan, may, cx>>
    BY <1>4 DEF McpReady, stateVars
  <2>5. LoopType' /\ Stays /\ LateInv'
    BY <2>2, <2>3, <2>4 DEF LoopType, Stays, LateInv, Procs
  <2>6. RunningIsFront' /\ LockInv'
    BY <2>4, <2>5, Undisturbed
  <2>. QED
    BY <2>1, <2>5, <2>6 DEF IndInv
<1>. QED
  BY <1>1, <1>2, <1>3, <1>4
(* The turn that is aborted, or that has been over already. *)
LEMMA AbortedType ==
    ASSUME TurnType, NEW t
    PROVE  Aborted(t) \in [Ids -> Live \cup {"none", "over"}]
BY DEF TurnType, Aborted, Live

(* Counting one more. *)
LEMMA CountType ==
    ASSUME NEW f \in [Ids -> Nat], NEW d
    PROVE  [f EXCEPT ![d] = @ + 1] \in [Ids -> Nat]
<1>1. CASE d \in Ids
  BY <1>1
<1>2. CASE d \notin Ids
  <2>1. [f EXCEPT ![d] = @ + 1] = f
    BY <1>2
  <2>. QED
    BY <2>1
<1>. QED
  BY <1>1, <1>2

(* The queue behind its front. *)
LEMMA TailType ==
    ASSUME NEW S, NEW s \in Seq(S)
    PROVE  (IF s = <<>> THEN <<>> ELSE Tail(s)) \in Seq(S)
OBVIOUS

(* cancel_running_task and its callers. *)
LEMMA CancelStep ==
    ASSUME IndInv
    PROVE  /\ \A kind \in CancelKinds : CancelBegin(kind) => IndInv'
           /\ CancelForSendNow => IndInv'
           /\ CancelAbortEarly => IndInv'
           /\ CancelLocked => IndInv'
           /\ CancelEnd => IndInv'
           /\ Reengage => IndInv'
<1>0. TypeOK /\ LateInv
  BY DEF IndInv
<1>. USE <1>0 DEF TypeOK
<1>1. ASSUME NEW kind \in CancelKinds, CancelBegin(kind) PROVE IndInv'
  <2>1. pc["loop"] = "idle" /\ kind \in CancelKind
    BY <1>1, Constants DEF CancelBegin, Accept
  <2>2. UNCHANGED <<q, running, urgent, holds, notes, rewindable, lock, pin, aim,
                    monBuf, turn, waiting, spawned, goalVars, reported, chan, may,
                    terminals>>
    BY <1>1 DEF CancelBegin
  <2>3. SendType'
    BY <1>1, <2>2 DEF CancelBegin, SendType
  <2>4. GoalType'
    BY <2>2, Frames
  <2>5. EndType'
    <3>1. fate' \in [Ids \cup Monitors -> Fates]
      BY <1>1, ResolveType DEF CancelBegin, Fates
    <3>2. panicked' \in BOOLEAN
      BY <1>1 DEF CancelBegin, EndType
    <3>. QED
      BY <2>2, <3>1, <3>2 DEF EndType
  <2>6. ASSUME kind.ctrlC, ~LockFree
        PROVE  StateType' /\ TurnType' /\ LoopType' /\ Stays /\ LateInv'
    <3>1. Handle("ended", "idle") /\ UNCHANGED <<suppressed, turnActive>>
      BY <1>1, <2>6 DEF CancelBegin
    <3>2. StateType' /\ TurnType'
      BY <2>2, <3>1, Frames DEF stateVars, turnVars
    <3>3. LoopType' /\ Stays /\ LateInv'
      BY <2>1, <2>2, <3>1, HandleStays DEF LoopPcs
    <3>. QED
      BY <3>2, <3>3
  <2>7. ASSUME ~(kind.ctrlC /\ ~LockFree)
        PROVE  StateType' /\ TurnType' /\ LoopType' /\ Stays /\ LateInv'
    <3>1. /\ suppressed' = (suppressed \/ kind.ctrlC)
          /\ turnActive' = (turnActive /\ ~kind.ctrlC)
          /\ cx' = [NoCx EXCEPT !.kind = kind, !.pinned = pin,
                        !.after = IF kind.ctrlC THEN "idle" ELSE "drain"]
          /\ Goto("loop", IF kind.subs THEN "cancelSubs" ELSE "cancelLock")
      BY <1>1, <2>7 DEF CancelBegin
    <3>2. suppressed' \in BOOLEAN /\ turnActive' \in BOOLEAN
      BY <2>1, <3>1 DEF StateType, TurnType, CancelKind
    <3>3. StateType' /\ TurnType'
      BY <2>2, <3>2 DEF StateType, TurnType
    <3>4. cx' \in CxType
      BY <2>1, <3>1, NoCxType DEF CxType, LoopType
    <3>5. PICK where \in {"cancelSubs", "cancelLock"} : Goto("loop", where)
      BY <3>1
    <3>6. LoopType' /\ Stays /\ LateInv'
      BY <2>1, <2>2, <3>4, <3>5, LoopStays DEF LoopPcs, LoopType
    <3>. QED
      BY <3>3, <3>6
  <2>8. RunningIsFront' /\ LockInv'
    BY <2>2, <2>6, <2>7, Undisturbed
  <2>. QED
    BY <2>3, <2>4, <2>5, <2>6, <2>7, <2>8 DEF IndInv
<1>2. ASSUME CancelForSendNow PROVE IndInv'
  <2>1. StateType' /\ TurnType' /\ GoalType'
    BY <1>2, Frames DEF CancelForSendNow
  <2>2. SendType'
    BY <1>2 DEF CancelForSendNow, SendType
  <2>3. EndType'
    BY <1>2, ResolveType DEF CancelForSendNow, EndType, Fates
  <2>4. cx' \in CxType
    BY <1>2 DEF CancelForSendNow, CxType, LoopType
  <2>5. LoopType' /\ Stays /\ LateInv'
    BY <1>2, <2>4, LoopStays DEF CancelForSendNow, LoopPcs, LoopType
  <2>6. RunningIsFront' /\ LockInv'
    BY <1>2, <2>5, Undisturbed DEF CancelForSendNow, stateVars
  <2>. QED
    BY <2>1, <2>2, <2>3, <2>5, <2>6 DEF IndInv
<1>3. ASSUME CancelAbortEarly PROVE IndInv'
  <2>1. StateType' /\ SendType' /\ GoalType' /\ EndType'
    BY <1>3, Frames DEF CancelAbortEarly
  <2>2. TurnType'
    BY <1>3, AbortedType DEF CancelAbortEarly, TurnType
  <2>3. LoopType' /\ Stays /\ LateInv'
    BY <1>3, LoopStays DEF CancelAbortEarly, LoopPcs, LoopType
  <2>4. RunningIsFront' /\ LockInv'
    BY <1>3, <2>3, Undisturbed DEF CancelAbortEarly, stateVars
  <2>. QED
    BY <2>1, <2>2, <2>3, <2>4 DEF IndInv
<1>4. ASSUME CancelLocked PROVE IndInv'
  <2>. DEFINE kind == cx.kind
              gone == IF kind.ctrlC /\ ~kind.kill THEN WakesBehind(q) ELSE {}
              rest == IF q = <<>> THEN <<>> ELSE Tail(q)
              swept == AbsorbMonitors(notes)
              back == Retain(rest, gone \cap TaskWakes)
  <2>1. /\ pc["loop"] = "cancelLock" /\ LockFree
        /\ monBuf' = <<>> /\ running' = None
        /\ suppressed' = (suppressed /\ ~(kind.rewind /\ rewindable))
        /\ rewindable' = (rewindable /\ ~(kind.rewind /\ rewindable))
        /\ Goto("loop", "cancelEnd")
        /\ UNCHANGED <<urgent, holds, lock, pin, interj, aim, waiting, turnActive,
                       spawned, goalVars, reported, chan, may, terminals, panicked>>
    BY <1>4 DEF CancelLocked
  <2>2. q' \in {rest, <<>>, Retain(rest, Ids \ gone)}
    BY <1>4 DEF CancelLocked
  <2>3. notes' \in {<<>>, swept, PushCapped(swept, back, MaxNotes)}
    BY <1>4 DEF CancelLocked
  <2>4. turn' = turn \/ turn' = Aborted(running)
    BY <1>4 DEF CancelLocked
  <2>5. fate' = fate \/ fate' = Resolve(gone, "removed")
    BY <1>4 DEF CancelLocked
  <2>6. \/ q # <<>> /\ cx' = [cx EXCEPT !.victims = {q[1]}, !.rewound = q[1]]
        \/ cx' = [cx EXCEPT !.torn = running,
                      !.victims = IF kind.kill THEN Queued
                                  ELSE IF q = <<>> THEN {} ELSE {q[1]}]
    BY <1>4 DEF CancelLocked
  <2>7. rest \in Seq(Ids) /\ (q # <<>> => q[1] \in Ids)
    BY QueueFacts, TailType, EmptySeq
  <2>8. swept \in Seq(Notes) /\ Len(swept) <= MaxNotes
    BY AbsorbType
  <2>. HIDE DEF gone, rest, swept, kind
  <2>9. back \in Seq(Notes)
    <3>1. back \in Seq(Ids \cap (gone \cap TaskWakes))
      BY <2>7, RetainNarrows
    <3>. QED
      BY <3>1 DEF Notes
  <2>. HIDE DEF back
  <2>10. StateType'
    <3>1. q' \in Seq(Ids)
      <4>1. Retain(rest, Ids \ gone) \in Seq(Ids) /\ <<>> \in Seq(Ids)
        BY <2>7, RetainType
      <4>. QED
        BY <2>2, <2>7, <4>1
    <3>2. notes' \in Seq(Notes) /\ Len(notes') <= MaxNotes
      <4>1. <<>> \in Seq(Notes) /\ Len(<<>>) <= MaxNotes
        BY Constants
      <4>2. /\ PushCapped(swept, back, MaxNotes) \in Seq(Notes)
            /\ Len(PushCapped(swept, back, MaxNotes)) <= MaxNotes
        BY <2>8, <2>9, Constants, PushCappedType
      <4>. QED
        BY <2>3, <2>8, <4>1, <4>2
    <3>3. suppressed' \in BOOLEAN /\ rewindable' \in BOOLEAN
      BY <2>1 DEF StateType
    <3>. QED
      BY <2>1, <3>1, <3>2, <3>3 DEF StateType
  <2>11. SendType'
    BY <2>1, Constants DEF SendType
  <2>12. TurnType'
    BY <2>1, <2>4, AbortedType DEF TurnType
  <2>13. GoalType'
    BY <2>1, Frames
  <2>14. EndType'
    BY <2>1, <2>5, ResolveType DEF EndType, Fates
  <2>15. cx' \in CxType
    <3>1. running \in Ids \cup {None} /\ Queued \subseteq Ids
      BY QueueFacts DEF StateType
    <3>2. CASE q # <<>> /\ cx' = [cx EXCEPT !.victims = {q[1]}, !.rewound = q[1]]
      BY <2>7, <3>2 DEF CxType, LoopType
    <3>3. ASSUME NEW gonePrompts \in SUBSET Ids,
                 cx' = [cx EXCEPT !.torn = running, !.victims = gonePrompts]
          PROVE  cx' \in CxType
      BY <3>1, <3>3 DEF CxType, LoopType
    <3>4. (IF kind.kill THEN Queued ELSE IF q = <<>> THEN {} ELSE {q[1]}) \in SUBSET Ids
      BY <2>7, <3>1
    <3>. QED
      BY <2>6, <3>2, <3>3, <3>4
  <2>16. LoopType' /\ Stays /\ LateInv'
    BY <2>1, <2>15, LoopStays DEF LoopPcs, LoopType
  <2>17. RunningIsFront' /\ LockInv'
    BY <2>1, <2>16, FreeStep
  <2>. QED
    BY <2>10, <2>11, <2>12, <2>13, <2>14, <2>16, <2>17 DEF IndInv
<1>5. ASSUME CancelEnd PROVE IndInv'
  <2>1. /\ pc["loop"] = "cancelEnd"
        /\ UNCHANGED <<stateVars, lock, sendVars, spawned, reported, chan, may,
                       panicked>>
    BY <1>5 DEF CancelEnd
  <2>2. StateType' /\ SendType'
    BY <2>1, Frames
  <2>3. TurnType'
    BY <1>5, <2>1, AbortedType DEF CancelEnd, TurnType
  <2>4. GoalType'
    BY <1>5, <2>1 DEF CancelEnd, GoalType, GoalStatus
  <2>5. EndType'
    <3>1. fate' \in [Ids \cup Monitors -> Fates]
      BY <1>5, ResolveType DEF CancelEnd, Fates
    <3>2. terminals' \in [Ids -> Nat]
      BY <1>5, CountType DEF CancelEnd, EndType
    <3>. QED
      BY <2>1, <3>1, <3>2 DEF EndType
  <2>6. LoopType' /\ Stays /\ LateInv'
    <3>1. cx.after \in {"idle", "drain"}
      BY DEF LoopType, CxType
    <3>2. PICK where \in {"reengage", "start"} : Handle(where, cx.after)
      BY <1>5 DEF CancelEnd
    <3>3. /\ pc' \in [Procs -> LoopPcs \cup StarterPcs]
          /\ \A r \in Procs : pc'[r] \in Pcs(r)
          /\ pc'["loop"] = where
          /\ \A r \in Starters : pc'[r] = pc[r]
          /\ cx' \in CxType
      BY <3>1, <3>2, HandleType DEF LoopPcs
    <3>4. pin' = None
      BY <1>5 DEF CancelEnd
    <3>. QED
      BY <2>1, <3>3, <3>4 DEF LoopType, Stays, LateInv, Procs
  <2>7. RunningIsFront' /\ LockInv'
    BY <2>1, <2>6, Undisturbed DEF stateVars
  <2>. QED
    BY <2>2, <2>3, <2>4, <2>5, <2>6, <2>7 DEF IndInv
<1>6. ASSUME Reengage PROVE IndInv'
  <2>1. StateType'
    BY <1>6 DEF Reengage, StateType
  <2>2. SendType' /\ TurnType' /\ GoalType' /\ EndType'
    BY <1>6, Frames DEF Reengage
  <2>3. LoopType' /\ Stays /\ LateInv'
    BY <1>6, LoopStays DEF Reengage, LoopPcs, LoopType
  <2>4. RunningIsFront' /\ LockInv'
    BY <1>6, <2>3, Undisturbed DEF Reengage
  <2>. QED
    BY <2>1, <2>2, <2>3, <2>4 DEF IndInv
<1>. QED
  BY <1>1, <1>2, <1>3, <1>4, <1>5, <1>6

(* handle_completion and what follows it. *)
LEMMA CompletionStep ==
    ASSUME IndInv
    PROVE  /\ Completion => IndInv'
           /\ PopFront => IndInv'
           /\ TurnEnd => IndInv'
<1>0. TypeOK /\ LateInv
  BY DEF IndInv
<1>. USE <1>0 DEF TypeOK
<1>1. ASSUME Completion PROVE IndInv'
  <2>. DEFINE done == Head(chan)
  <2>1. /\ pc["loop"] = "idle" /\ chan # <<>> /\ chan \in Seq(Ids)
        /\ UNCHANGED <<stateVars, lock, sendVars, turnVars, goal, reported, may,
                       endVars, panicked>>
    BY <1>1 DEF Completion, LoopType
  <2>2. done \in Ids /\ chan' \in Seq(Ids)
    BY <1>1, <2>1 DEF Completion
  <2>3. StateType' /\ SendType' /\ TurnType' /\ EndType'
    BY <2>1, Frames
  <2>4. GoalType'
    BY <1>1, <2>1 DEF Completion, GoalType
  <2>5. pin' \in Ids \cup {None}
    BY <1>1 DEF Completion, Unpin, LoopType
  <2>6. cx' \in CxType
    <3>1. cx' = [NoCx EXCEPT !.done = done, !.after = "drain"]
      BY <1>1 DEF Completion
    <3>. QED
      BY <2>2, <3>1, NoCxType DEF CxType
  <2>7. LoopType' /\ Stays /\ LateInv'
    BY <1>1, <2>1, <2>2, <2>5, <2>6, LoopStays DEF Completion, LoopPcs
  <2>8. RunningIsFront' /\ LockInv'
    BY <2>1, <2>7, Undisturbed DEF stateVars
  <2>. QED
    BY <2>3, <2>4, <2>7, <2>8 DEF IndInv
<1>2. ASSUME PopFront PROVE IndInv'
  <2>. DEFINE done == cx.done
              owned == q # <<>> /\ q[1] = done
  <2>1. /\ pc["loop"] = "pop" /\ LockFree
        /\ UNCHANGED <<urgent, holds, notes, suppressed, rewindable, lock, pin,
                       sendVars, turnVars, goalVars, reported, chan, may, cx,
                       panicked>>
    BY <1>2 DEF PopFront
  <2>2. q' \in Seq(Ids) /\ running' \in Ids \cup {None}
    BY <1>2, QueueFacts DEF PopFront, StateType
  <2>3. StateType'
    BY <2>1, <2>2 DEF StateType
  <2>4. SendType' /\ TurnType' /\ GoalType'
    BY <2>1, Frames
  <2>5. EndType'
    <3>1. fate' \in [Ids \cup Monitors -> Fates]
      BY <1>2, ResolveType DEF PopFront, EndType, Fates
    <3>2. terminals' \in [Ids -> Nat]
      BY <1>2, CountType DEF PopFront, EndType
    <3>. QED
      BY <2>1, <3>1, <3>2 DEF EndType
  <2>6. LoopType' /\ Stays /\ LateInv'
    BY <1>2, <2>1, LoopStays DEF PopFront, LoopPcs, LoopType
  <2>7. running' # None => q' # <<>> /\ q'[1] = running'
    BY <1>2, <2>1, QueueFacts DEF PopFront
  <2>8. RunningIsFront' /\ LockInv'
    BY <2>1, <2>6, <2>7, FreeStep
  <2>. QED
    BY <2>3, <2>4, <2>5, <2>6, <2>8 DEF IndInv
<1>3. ASSUME TurnEnd PROVE IndInv'
  <2>1. /\ pc["loop"] = "turnEnd" /\ LockFree
        /\ notes' = AbsorbMonitors(notes) /\ monBuf' = <<>>
        /\ Goto("loop", "flush")
        /\ UNCHANGED <<running, urgent, holds, suppressed, rewindable, lock, pin,
                       interj, aim, turnVars, goalLoop, reported, chan, may, cx,
                       terminals, panicked>>
    BY <1>3 DEF TurnEnd
  <2>2. \/ q' = q /\ fate' = fate
        \/ \E i \in GoalTurns : q' = Append(q, i) /\ fate' = Resolve({i}, "pending")
    BY <1>3 DEF TurnEnd
  <2>3. goal' \in {goal, "paused"}
    BY <1>3 DEF TurnEnd
  <2>4. q' \in Seq(Ids) /\ (q # <<>> => q' # <<>> /\ q'[1] = q[1])
    <3>1. ASSUME NEW i \in GoalTurns
          PROVE  /\ Append(q, i) \in Seq(Ids)
                 /\ Append(q, i) # <<>>
                 /\ q # <<>> => Append(q, i)[1] = q[1]
      <4>1. i \in Ids
        BY DEF Ids, Synthetic
      <4>. QED
        BY <4>1, QueueFacts, AppendFront
    <3>2. q \in Seq(Ids)
      BY QueueFacts
    <3>3. CASE q' = q
      BY <3>2, <3>3
    <3>4. CASE \E i \in GoalTurns : q' = Append(q, i)
      BY <3>1, <3>4
    <3>. QED
      BY <2>2, <3>3, <3>4
  <2>5. StateType'
    BY <2>1, <2>4, AbsorbType DEF StateType
  <2>6. SendType'
    BY <2>1, Constants DEF SendType
  <2>7. TurnType'
    BY <2>1, Frames
  <2>8. GoalType'
    BY <2>1, <2>3 DEF GoalType, GoalStatus
  <2>9. EndType'
    <3>1. \A i : Resolve({i}, "pending") \in [Ids \cup Monitors -> Fates]
      BY ResolveType DEF Fates
    <3>2. fate' \in [Ids \cup Monitors -> Fates]
      BY <2>2, <3>1 DEF EndType
    <3>. QED
      BY <2>1, <3>2 DEF EndType
  <2>10. LoopType' /\ Stays /\ LateInv'
    BY <2>1, LoopStays DEF LoopPcs, LoopType
  <2>11. running' # None => q' # <<>> /\ q'[1] = running'
    BY <2>1, <2>4, QueueFacts
  <2>12. RunningIsFront' /\ LockInv'
    BY <2>1, <2>10, <2>11, FreeStep
  <2>. QED
    BY <2>5, <2>6, <2>7, <2>8, <2>9, <2>10, <2>12 DEF IndInv
<1>. QED
  BY <1>1, <1>2, <1>3
(* Notifications, and the end of the session. *)
LEMMA NotifyStep ==
    ASSUME IndInv
    PROVE  /\ \A e \in Notes : InjectNotification(e) => IndInv'
           /\ \A task \in TaskWakes : DropMonitorNotifications(task) => IndInv'
           /\ DrainNotifications => IndInv'
           /\ Shutdown => IndInv'
<1>0. TypeOK /\ LateInv
  BY DEF IndInv
<1>. USE <1>0 DEF TypeOK
<1>1. ASSUME NEW e \in Notes, InjectNotification(e) PROVE IndInv'
  <2>1. /\ pc["loop"] = "idle"
        /\ UNCHANGED <<q, running, urgent, holds, suppressed, rewindable, lock,
                       pin, interj, aim, turnVars, goalVars, reported, chan,
                       may, terminals, panicked>>
    BY <1>1 DEF InjectNotification, Accept
  <2>2. TurnType' /\ GoalType'
    BY <2>1, Frames
  <2>3. EndType'
    BY <1>1, <2>1, ResolveType DEF InjectNotification, EndType, Fates
  <2>4. \/ /\ e \in Monitors /\ monBuf' = PushCapped(monBuf, <<e>>, MaxBuffer)
           /\ UNCHANGED <<notes, pc, cx>>
        \/ /\ notes' = PushCapped(notes, <<e>>, MaxNotes)
           /\ Handle("drain", "idle") /\ UNCHANGED monBuf
    BY <1>1 DEF InjectNotification
  <2>5. StateType'
    <3>1. notes \in Seq(Notes) /\ Len(notes) <= MaxNotes /\ <<e>> \in Seq(Notes)
      BY DEF StateType, Notes
    <3>2. /\ PushCapped(notes, <<e>>, MaxNotes) \in Seq(Notes)
          /\ Len(PushCapped(notes, <<e>>, MaxNotes)) <= MaxNotes
      BY <3>1, Constants, PushCappedType
    <3>3. notes' \in Seq(Notes) /\ Len(notes') <= MaxNotes
      BY <2>4, <3>1, <3>2
    <3>. QED
      BY <2>1, <3>3 DEF StateType
  <2>6. SendType'
    <3>1. monBuf \in Seq(Monitors) /\ Len(monBuf) <= MaxBuffer
      BY DEF SendType
    <3>2. e \in Monitors
          => /\ PushCapped(monBuf, <<e>>, MaxBuffer) \in Seq(Monitors)
             /\ Len(PushCapped(monBuf, <<e>>, MaxBuffer)) <= MaxBuffer
      <4>1. e \in Monitors => <<e>> \in Seq(Monitors)
        OBVIOUS
      <4>. QED
        BY <3>1, <4>1, Constants, PushCappedType
    <3>3. monBuf' \in Seq(Monitors) /\ Len(monBuf') <= MaxBuffer
      BY <2>4, <3>1, <3>2
    <3>. QED
      BY <2>1, <3>3 DEF SendType
  <2>7. LoopType' /\ Stays /\ LateInv'
    <3>1. CASE UNCHANGED <<pc, cx>>
      BY <2>1, <3>1, Frames DEF Stays, LateInv
    <3>2. CASE Handle("drain", "idle")
      BY <2>1, <3>2, HandleStays DEF LoopPcs
    <3>. QED
      BY <2>4, <3>1, <3>2
  <2>8. RunningIsFront' /\ LockInv'
    BY <2>1, <2>7, Undisturbed
  <2>. QED
    BY <2>2, <2>3, <2>5, <2>6, <2>7, <2>8 DEF IndInv
<1>2. ASSUME NEW task \in TaskWakes, DropMonitorNotifications(task) PROVE IndInv'
  <2>. DEFINE mine == {e \in Monitors : MonitorTask[e] = task}
  <2>1. /\ notes' = Retain(notes, Notes \ mine)
        /\ monBuf' = Retain(monBuf, Monitors \ mine)
    BY <1>2 DEF DropMonitorNotifications
  <2>. HIDE DEF mine
  <2>2. StateType'
    <3>1. notes \in Seq(Notes) /\ Len(notes) \in Nat /\ Len(notes) <= MaxNotes
      BY LenProperties DEF StateType
    <3>2. notes' \in Seq(Notes) /\ Len(notes') <= Len(notes)
      BY <2>1, <3>1, RetainType
    <3>3. Len(notes') <= MaxNotes
      BY <3>1, <3>2, Constants, LenProperties
    <3>. QED
      BY <1>2, <3>2, <3>3 DEF DropMonitorNotifications, StateType
  <2>3. SendType'
    <3>1. monBuf \in Seq(Monitors) /\ Len(monBuf) \in Nat /\ Len(monBuf) <= MaxBuffer
      BY LenProperties DEF SendType
    <3>2. monBuf' \in Seq(Monitors) /\ Len(monBuf') <= Len(monBuf)
      BY <2>1, <3>1, RetainType
    <3>3. Len(monBuf') <= MaxBuffer
      BY <3>1, <3>2, Constants, LenProperties
    <3>. QED
      BY <1>2, <3>2, <3>3 DEF DropMonitorNotifications, SendType
  <2>4. TurnType' /\ GoalType' /\ LoopType' /\ EndType'
    BY <1>2, Frames DEF DropMonitorNotifications
  <2>5. RunningIsFront' /\ LockInv' /\ LateInv'
    BY <1>2, Undisturbed DEF DropMonitorNotifications, Stays, LateInv
  <2>. QED
    BY <2>2, <2>3, <2>4, <2>5 DEF IndInv
<1>3. ASSUME DrainNotifications PROVE IndInv'
  <2>1. /\ pc["loop"] = "drain" /\ LockFree
        /\ UNCHANGED <<running, urgent, holds, suppressed, rewindable, lock, pin,
                       interj, aim, turnVars, goalVars, reported, chan, may,
                       terminals, panicked>>
    BY <1>3 DEF DrainNotifications
  <2>2. PICK where \in {"idle", "start"} : Handle(where, "idle")
    BY <1>3 DEF DrainNotifications
  <2>3. \/ notes' = notes /\ monBuf' = monBuf
        \/ notes' = <<>> /\ monBuf' = <<>>
    BY <1>3 DEF DrainNotifications
  <2>4. \/ q' = q /\ fate' = fate
        \/ \E i \in DrainTurns : q' = Append(q, i) /\ fate' = Resolve({i}, "pending")
    BY <1>3 DEF DrainNotifications
  <2>5. q' \in Seq(Ids) /\ (q # <<>> => q' # <<>> /\ q'[1] = q[1])
    <3>1. ASSUME NEW i \in DrainTurns
          PROVE  /\ Append(q, i) \in Seq(Ids)
                 /\ Append(q, i) # <<>>
                 /\ q # <<>> => Append(q, i)[1] = q[1]
      BY QueueFacts, AppendFront DEF Ids, Synthetic
    <3>2. CASE q' = q
      BY <3>2, QueueFacts
    <3>3. CASE \E i \in DrainTurns : q' = Append(q, i)
      BY <3>1, <3>3
    <3>. QED
      BY <2>4, <3>2, <3>3
  <2>6. StateType'
    <3>1. notes' \in Seq(Notes) /\ Len(notes') <= MaxNotes
      <4>1. <<>> \in Seq(Notes) /\ Len(<<>>) <= MaxNotes
        BY Constants
      <4>. QED
        BY <2>3, <4>1 DEF StateType
    <3>. QED
      BY <2>1, <2>5, <3>1 DEF StateType
  <2>7. SendType'
    <3>1. <<>> \in Seq(Monitors) /\ Len(<<>>) <= MaxBuffer
      BY Constants
    <3>2. monBuf' \in Seq(Monitors) /\ Len(monBuf') <= MaxBuffer
      BY <2>3, <3>1 DEF SendType
    <3>. QED
      BY <2>1, <3>2 DEF SendType
  <2>8. TurnType' /\ GoalType'
    BY <2>1, Frames
  <2>9. EndType'
    <3>1. \A i : Resolve({i}, "pending") \in [Ids \cup Monitors -> Fates]
      BY ResolveType DEF Fates
    <3>2. fate' \in [Ids \cup Monitors -> Fates]
      BY <2>4, <3>1 DEF EndType
    <3>. QED
      BY <2>1, <3>2 DEF EndType
  <2>10. LoopType' /\ Stays /\ LateInv'
    BY <2>1, <2>2, HandleStays DEF LoopPcs
  <2>11. running' # None => q' # <<>> /\ q'[1] = running'
    BY <2>1, <2>5, QueueFacts
  <2>12. RunningIsFront' /\ LockInv'
    BY <2>1, <2>10, <2>11, FreeStep
  <2>. QED
    BY <2>6, <2>7, <2>8, <2>9, <2>10, <2>12 DEF IndInv
<1>4. ASSUME Shutdown PROVE IndInv'
  <2>1. /\ pc["loop"] = "idle" /\ LockFree
        /\ UNCHANGED <<running, urgent, holds, suppressed, rewindable, lock, pin,
                       sendVars, turnVars, goalVars, reported, chan, may,
                       terminals, panicked>>
    BY <1>4 DEF Shutdown, Accept
  <2>2. q' \in Seq(Ids)
    BY <1>4, QueueFacts, RetainType DEF Shutdown
  <2>3. StateType'
    BY <1>4, <2>1, <2>2, Constants DEF Shutdown, StateType
  <2>4. SendType' /\ TurnType' /\ GoalType'
    BY <2>1, Frames
  <2>5. EndType'
    BY <1>4, <2>1, ResolveType DEF Shutdown, EndType, Fates
  <2>6. LoopType' /\ Stays /\ LateInv'
    BY <1>4, <2>1, HandleStays DEF Shutdown, LoopPcs
  <2>7. pc'["loop"] = "ended"
    BY <1>4, HandleType DEF Shutdown, LoopPcs
  <2>8. RunningIsFront' /\ LockInv'
    BY <2>1, <2>7 DEF RunningIsFront, LockInv, LockFree
  <2>. QED
    BY <2>3, <2>4, <2>5, <2>6, <2>8 DEF IndInv
<1>. QED
  BY <1>1, <1>2, <1>3, <1>4
(* The turn task. *)
LEMMA TurnTaskStep ==
    ASSUME IndInv, NEW t \in Ids
    PROVE  /\ TurnBegin(t) => IndInv'
           /\ TurnOpen(t) => IndInv'
           /\ TurnOutput(t) => IndInv'
           /\ TurnInject(t) => IndInv'
           /\ TurnWait(t) => IndInv'
           /\ TurnGoal(t) => IndInv'
           /\ TurnRound(t) => IndInv'
           /\ \A c : TurnConsumes(t, c) => IndInv'
           /\ \A w \in WorkflowWakes : TurnReportsWorkflow(t, w) => IndInv'
           /\ TurnLeaveScope(t) => IndInv'
           /\ TurnFinish(t) => IndInv'
<1>0. TypeOK /\ LateInv
  BY DEF IndInv
<1>. USE <1>0 DEF TypeOK
<1>1. ASSUME TurnBegin(t) PROVE IndInv'
  <2>1. StateType' /\ SendType' /\ GoalType' /\ LoopType' /\ EndType'
    BY <1>1, Frames DEF TurnBegin
  <2>2. TurnType'
    BY <1>1 DEF TurnBegin, TurnType, Live
  <2>3. RunningIsFront' /\ LockInv' /\ LateInv'
    BY <1>1, Undisturbed DEF TurnBegin, stateVars, Stays, LateInv
  <2>. QED
    BY <2>1, <2>2, <2>3 DEF IndInv
<1>2. ASSUME TurnOpen(t) PROVE IndInv'
  <2>. DEFINE all == AbsorbMonitors(notes)
              kept == Retain(all, {n \in Notes : NoteTask(n) \notin ToSet(all) \cap TaskWakes})
  <2>1. LoopType' /\ EndType'
    BY <1>2, Frames DEF TurnOpen
  <2>8. GoalType'
    BY <1>2 DEF TurnOpen, GoalType
  <2>2. TurnType'
    BY <1>2 DEF TurnOpen, TurnType, Live
  <2>3. \/ notes' = kept /\ monBuf' = <<>>
        \/ notes' = notes /\ monBuf' = monBuf
    BY <1>2 DEF TurnOpen
  <2>4. kept \in Seq(Notes) /\ Len(kept) <= MaxNotes
    <3>1. all \in Seq(Notes) /\ Len(all) <= MaxNotes
      BY AbsorbType
    <3>. HIDE DEF all
    <3>2. kept \in Seq(Notes) /\ Len(kept) <= Len(all)
      BY <3>1, RetainType
    <3>. HIDE DEF kept
    <3>3. Len(kept) \in Nat /\ Len(all) \in Nat /\ MaxNotes \in Nat
      BY <3>1, <3>2, LenProperties, Constants
    <3>. QED
      BY <3>1, <3>2, <3>3
  <2>. HIDE DEF kept
  <2>5. StateType'
    <3>1. notes' \in Seq(Notes) /\ Len(notes') <= MaxNotes
      BY <2>3, <2>4 DEF StateType
    <3>. QED
      BY <1>2, <3>1 DEF TurnOpen, StateType
  <2>6. SendType'
    <3>1. <<>> \in Seq(Monitors) /\ Len(<<>>) <= MaxBuffer
      BY Constants
    <3>2. monBuf' \in Seq(Monitors) /\ Len(monBuf') <= MaxBuffer
      BY <2>3, <3>1 DEF SendType
    <3>. QED
      BY <1>2, <3>2 DEF TurnOpen, SendType
  <2>7. RunningIsFront' /\ LockInv' /\ LateInv'
    BY <1>2, Undisturbed DEF TurnOpen, Stays, LateInv
  <2>. QED
    BY <2>1, <2>2, <2>5, <2>6, <2>7, <2>8 DEF IndInv
<1>3. ASSUME TurnOutput(t) PROVE IndInv'
  <2>1. StateType'
    BY <1>3 DEF TurnOutput, StateType
  <2>2. SendType' /\ TurnType' /\ GoalType' /\ LoopType' /\ EndType'
    BY <1>3, Frames DEF TurnOutput
  <2>3. RunningIsFront' /\ LockInv' /\ LateInv'
    BY <1>3, Undisturbed DEF TurnOutput, Stays, LateInv
  <2>. QED
    BY <2>1, <2>2, <2>3 DEF IndInv
<1>4. ASSUME TurnInject(t) PROVE IndInv'
  <2>1. StateType' /\ TurnType' /\ GoalType' /\ LoopType'
    BY <1>4, Frames DEF TurnInject
  <2>2. SendType'
    BY <1>4, Constants DEF TurnInject, SendType
  <2>3. EndType'
    BY <1>4, ResolveType DEF TurnInject, EndType, Fates
  <2>4. RunningIsFront' /\ LockInv' /\ LateInv'
    BY <1>4, Undisturbed DEF TurnInject, stateVars, Stays, LateInv
  <2>. QED
    BY <2>1, <2>2, <2>3, <2>4 DEF IndInv
<1>5. ASSUME TurnWait(t) PROVE IndInv'
  <2>1. StateType' /\ SendType' /\ GoalType' /\ LoopType' /\ EndType'
    BY <1>5, Frames DEF TurnWait
  <2>2. TurnType'
    BY <1>5 DEF TurnWait, TurnType
  <2>3. RunningIsFront' /\ LockInv' /\ LateInv'
    BY <1>5, Undisturbed DEF TurnWait, stateVars, Stays, LateInv
  <2>. QED
    BY <2>1, <2>2, <2>3 DEF IndInv
<1>6. ASSUME TurnGoal(t) PROVE IndInv'
  <2>1. StateType' /\ SendType' /\ TurnType' /\ LoopType' /\ EndType'
    BY <1>6, Frames DEF TurnGoal
  <2>2. GoalType'
    BY <1>6 DEF TurnGoal, GoalType
  <2>3. RunningIsFront' /\ LockInv' /\ LateInv'
    BY <1>6, Undisturbed DEF TurnGoal, stateVars, Stays, LateInv
  <2>. QED
    BY <2>1, <2>2, <2>3 DEF IndInv
<1>7. ASSUME NEW c, TurnConsumes(t, c) PROVE IndInv'
  <2>1. /\ q' = Sweep(q, {c}) /\ LockFree
        /\ notes' = Retain(notes, {n \in Notes : NoteTask(n) # c})
    BY <1>7 DEF TurnConsumes
  <2>2. StateType'
    <3>1. notes \in Seq(Notes) /\ Len(notes) <= MaxNotes
      BY DEF StateType
    <3>2. notes' \in Seq(Notes) /\ Len(notes') <= Len(notes)
      BY <2>1, <3>1, RetainType
    <3>3. Len(notes') \in Nat /\ Len(notes) \in Nat /\ MaxNotes \in Nat
      BY <3>1, <3>2, LenProperties, Constants
    <3>4. Len(notes') <= MaxNotes
      BY <3>1, <3>2, <3>3
    <3>5. q' \in Seq(Ids)
      BY <2>1, QueueFacts, SweepType
    <3>. QED
      BY <1>7, <3>2, <3>4, <3>5 DEF TurnConsumes, StateType
  <2>3. SendType' /\ TurnType' /\ GoalType' /\ LoopType'
    BY <1>7, Frames DEF TurnConsumes
  <2>4. EndType'
    BY <1>7, ResolveType DEF TurnConsumes, EndType, Fates
  <2>5. running' # None /\ pc["loop"] # "ended" => q' # <<>> /\ q'[1] = running'
    BY <1>7, <2>1, QueueFacts, SweepType DEF TurnConsumes
  <2>6. Stays /\ LateInv'
    BY <1>7 DEF TurnConsumes, Stays, LateInv
  <2>7. RunningIsFront' /\ LockInv'
    BY <1>7, <2>5, <2>6, FreeStep DEF TurnConsumes
  <2>. QED
    BY <2>2, <2>3, <2>4, <2>6, <2>7 DEF IndInv
<1>8. ASSUME NEW w \in WorkflowWakes, TurnReportsWorkflow(t, w) PROVE IndInv'
  <2>1. StateType' /\ SendType' /\ TurnType' /\ LoopType' /\ EndType'
    BY <1>8, Frames DEF TurnReportsWorkflow
  <2>2. GoalType'
    BY <1>8 DEF TurnReportsWorkflow, GoalType, goalVars
  <2>3. RunningIsFront' /\ LockInv' /\ LateInv'
    BY <1>8, Undisturbed DEF TurnReportsWorkflow, stateVars, Stays, LateInv
  <2>. QED
    BY <2>1, <2>2, <2>3 DEF IndInv
<1>9. ASSUME TurnLeaveScope(t) PROVE IndInv'
  <2>1. StateType' /\ SendType' /\ GoalType' /\ EndType'
    BY <1>9, Frames DEF TurnLeaveScope
  <2>2. TurnType'
    BY <1>9 DEF TurnLeaveScope, TurnType, Live
  <2>3. LoopType'
    BY <1>9 DEF TurnLeaveScope, LoopType, Unpin
  <2>4. RunningIsFront' /\ LockInv' /\ LateInv'
    BY <1>9, Undisturbed DEF TurnLeaveScope, stateVars, Stays, LateInv
  <2>. QED
    BY <2>1, <2>2, <2>3, <2>4 DEF IndInv
<1>10. ASSUME TurnFinish(t) PROVE IndInv'
  <2>1. StateType' /\ SendType' /\ GoalType' /\ EndType'
    BY <1>10, Frames DEF TurnFinish
  <2>2. TurnType'
    BY <1>10 DEF TurnFinish, TurnType
  <2>3. LoopType'
    <3>1. chan' \in Seq(Ids)
      BY <1>10, AppendFront DEF TurnFinish, LoopType
    <3>. QED
      BY <1>10, <3>1 DEF TurnFinish, LoopType
  <2>4. RunningIsFront' /\ LockInv' /\ LateInv'
    BY <1>10, Undisturbed DEF TurnFinish, stateVars, Stays, LateInv
  <2>. QED
    BY <2>1, <2>2, <2>3, <2>4 DEF IndInv
<1>11. ASSUME TurnRound(t) PROVE IndInv'
  <2>1. StateType' /\ SendType' /\ TurnType' /\ LoopType' /\ EndType'
    BY <1>11, Frames DEF TurnRound
  <2>2. GoalType'
    BY <1>11 DEF TurnRound, GoalType
  <2>3. RunningIsFront' /\ LockInv' /\ LateInv'
    BY <1>11, Undisturbed DEF TurnRound, stateVars, Stays, LateInv
  <2>. QED
    BY <2>1, <2>2, <2>3 DEF IndInv
<1>. QED
  BY <1>1, <1>2, <1>3, <1>4, <1>5, <1>6, <1>7, <1>8, <1>9, <1>10, <1>11
-----------------------------------------------------------------------------
(***************************************************************************)
(* The theorems.                                                           *)
(***************************************************************************)
(* Every step of the session keeps the invariant. *)
LEMMA NextKeeps == IndInv /\ [Next]_vars => IndInv'
<1>. SUFFICES ASSUME IndInv, [Next]_vars PROVE IndInv'
  OBVIOUS
<1>1. CASE UserCommand
  <2>1. ASSUME NEW i \in Interjections, Interject(i) PROVE IndInv'
    BY <2>1, InterjectStep
  <2>. QED
    BY <1>1, <2>1, InsertStep, EditStep, CancelStep, NotifyStep DEF UserCommand
<1>2. CASE Wake
  BY <1>2, InsertStep, NotifyStep DEF Wake, Synthetic
<1>3. CASE Handler
  BY <1>3, CancelStep, CompletionStep, InterjectStep, NotifyStep DEF Handler
<1>4. CASE \E p \in Procs : Promotion(p)
  BY <1>4, PromotionStep DEF Promotion
<1>5. CASE Starter
  BY <1>5, PromotionStep, InsertStep DEF Starter, Synthetic
<1>6. CASE \E t \in Ids : TurnStep(t) \/ TurnWork(t)
  BY <1>6, TurnTaskStep DEF TurnStep, TurnWork
<1>7. CASE UNCHANGED vars
  <2>1. /\ UNCHANGED stateVars /\ UNCHANGED sendVars /\ UNCHANGED turnVars
        /\ UNCHANGED <<goalVars, reported>> /\ UNCHANGED <<endVars, panicked>>
        /\ UNCHANGED <<lock, pin, chan, pc, may, cx>>
    BY <1>7 DEF vars
  <2>2. TypeOK'
    BY <2>1, Frames DEF IndInv, TypeOK
  <2>3. RunningIsFront' /\ LockInv' /\ LateInv'
    BY <2>1, Undisturbed DEF stateVars, Stays, LateInv, IndInv
  <2>. QED
    BY <2>2, <2>3 DEF IndInv
<1>. QED
  BY <1>1, <1>2, <1>3, <1>4, <1>5, <1>6, <1>7 DEF Next

(* The inductive invariant holds in every state a session can reach. *)
THEOREM InvariantHolds == Spec => []IndInv
<1>1. Init => IndInv
  BY InitTypes DEF Init, IndInv, RunningIsFront, LockInv, LateInv, Procs
<1>. QED
  BY <1>1, NextKeeps, PTL DEF Spec

(* The session's state has its type, and neither notification buffer ever  *)
(* grows beyond its cap, for any number of prompts, wakes and monitors.    *)
THEOREM TypeCorrect == Spec => []TypeOK
<1>1. IndInv => TypeOK
  BY DEF IndInv
<1>. QED
  BY <1>1, InvariantHolds, PTL

(* However clients edit, insert into, sweep and cancel within the shared   *)
(* queue while tasks besides the run loop promote from it, the running     *)
(* turn's prompt stays its front until the loop is over.                   *)
THEOREM RunningStaysFront == Spec => []RunningIsFront
<1>1. IndInv => RunningIsFront
  BY DEF IndInv
<1>. QED
  BY <1>1, InvariantHolds, PTL

(* A promotion that is suspended on its await (update_resource in          *)
(* maybe_start_running_task) is alone with the queue: when it goes on, the *)
(* queue has a front and no other task has been spawned.                   *)
THEOREM PromotionIsExclusive == Spec => []LockInv
<1>1. IndInv => LockInv
  BY DEF IndInv
<1>. QED
  BY <1>1, InvariantHolds, PTL
=============================================================================
