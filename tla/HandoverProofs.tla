--------------------------- MODULE HandoverProofs ---------------------------
(***************************************************************************)
(* What the run loop hands over when it leaves a handler, for every number *)
(* of prompts, wakes, notifications and starters: no queued prompt is left *)
(* without a task that will start it, no interjection is flushed into a    *)
(* turn it was not aimed at, nothing starts behind the Ctrl+C barrier, and *)
(* no notification is left without a drain that will tell of it.           *)
(***************************************************************************)
EXTENDS TurnProofs

PromotePcs == {"start", "promote", "spawn"}
ReadyPcs == {"idle", "drain"}

(* A prompt that waits while the loop is ready for a command and the slot  *)
(* is empty has a starter on its way to it.                                *)
KickInv ==
    pc["loop"] \in ReadyPcs /\ running = None /\ q # <<>>
    => \E p \in Starters : pc[p] \in PromotePcs

(* The turn of a drain is at the front from the moment it is queued, and   *)
(* nothing comes before the loop has started it.                           *)
DrainInv ==
    \A i \in DrainTurns \cap Queued :
        /\ q[1] = i
        /\ (running = i /\ pc["loop"] # "ended") \/ pc["loop"] \in PromotePcs

(* The prompts that the Ctrl+C barrier holds back.  While it is up none is *)
(* queued but that of the running turn; a Ctrl+C that has raised it and    *)
(* not come to its locked section yet will remove the others.              *)
Barred == TaskWakes \cup WorkflowWakes \cup DrainTurns
Raising == pc["loop"] \in {"cancelSubs", "cancelLock"} /\ cx.kind.ctrlC
BarInv == suppressed /\ ~Raising => Queued \cap Barred \subseteq {running}

HandoverInv == KickInv /\ DrainInv /\ BarInv

-----------------------------------------------------------------------------
(***************************************************************************)
(* The steps that neither promote, cancel nor complete.                    *)
(***************************************************************************)
(* No message of S is queued by the step. *)
NotQueued(S) == \A i \in S : fate'[i] = "pending" => fate[i] = "pending"

Calm ==
    /\ Aside
    /\ \A p \in Starters : pc'[p] = pc[p]
    /\ pc'["loop"] # pc["loop"] => pc["loop"] \notin PromotePcs
    /\ pc'["loop"] \in ReadyPcs => pc["loop"] \in ReadyPcs /\ NotQueued(Ids)
    /\ pc["loop"] \in PromotePcs /\ running = None => q' = q
    /\ pc'["loop"] = "ended" => pc["loop"] = "ended" \/ \A i \in DrainTurns : fate'[i] # "pending"
    /\ NotQueued(DrainTurns)
    /\ suppressed' => suppressed /\ NotQueued(Barred)

(* What is queued after such a step and was not resolved by it. *)
LEMMA CalmQueue ==
    ASSUME IndInv, ConserveInv, IndInv', ConserveInv', FateMoves,
           pc["loop"] = "cancelEnd" => cx'.victims = cx.victims
    PROVE  /\ ToSet(q') \subseteq Ids
           /\ \A i \in ToSet(q') : fate'[i] = "pending"
           /\ \A S \in SUBSET Ids : NotQueued(S) => ToSet(q') \cap S \subseteq Queued
<1>1. ToSet(q') \subseteq Ids /\ \A i \in ToSet(q') : fate[i] = "pending" => i \in Queued
  BY MovesQueue
<1>2. \A i \in ToSet(q') : fate'[i] = "pending"
  BY <1>1 DEF ConserveInv, Conserved, Queued
<1>. QED
  BY <1>1, <1>2 DEF NotQueued

(* The kinds of messages are messages. *)
LEMMA KindsAreIds == DrainTurns \subseteq Ids /\ ResumeTurns \subseteq Ids /\ Barred \subseteq Ids
BY DEF Ids, Synthetic, Barred

(* They keep the invariant. *)
LEMMA CalmKeeps ==
    ASSUME IndInv, ConserveInv, HandoverInv, IndInv', ConserveInv', Calm
    PROVE  HandoverInv'
<1>0. /\ UNCHANGED <<running, lock>> /\ FateMoves /\ LoopMoves
      /\ pc["loop"] = "cancelEnd" => cx'.victims = cx.victims
  BY DEF Calm, Aside, LoopMoves, MidPcs
<1>1. /\ ToSet(q') \subseteq Ids /\ \A i \in ToSet(q') : fate'[i] = "pending"
      /\ \A S \in SUBSET Ids : NotQueued(S) => ToSet(q') \cap S \subseteq Queued
  BY <1>0, CalmQueue
<1>2. KickInv'
  <2>. SUFFICES ASSUME pc'["loop"] \in ReadyPcs, running = None, q' # <<>>
                PROVE  \E p \in Starters : pc'[p] \in PromotePcs
    BY <1>0 DEF KickInv
  <2>1. pc["loop"] \in ReadyPcs /\ NotQueued(Ids)
    BY DEF Calm
  <2>2. ToSet(q') \subseteq Queued
    BY <1>1, <2>1
  <2>3. q # <<>>
    <3>1. q' \in Seq(Ids)
      BY DEF IndInv, TypeOK, StateType
    <3>2. ToSet(q') # {}
      BY <3>1, EmptyDistinct
    <3>. QED
      BY <2>2, <3>2, EmptyDistinct DEF Queued
  <2>. QED
    BY <2>1, <2>3 DEF HandoverInv, KickInv, Calm
<1>3. DrainInv'
  <2>. SUFFICES ASSUME NEW i \in DrainTurns, i \in ToSet(q')
                PROVE  /\ q'[1] = i
                       /\ (running' = i /\ pc'["loop"] # "ended") \/ pc'["loop"] \in PromotePcs
    BY DEF DrainInv, Queued
  <2>1. i \in Queued
    BY <1>1, KindsAreIds DEF Calm
  <2>2. q[1] = i /\ ((running = i /\ pc["loop"] # "ended") \/ pc["loop"] \in PromotePcs)
    BY <2>1 DEF HandoverInv, DrainInv
  <2>3. CASE running = i /\ pc["loop"] # "ended"
    <3>1. pc'["loop"] # "ended"
      BY <1>1, <2>3 DEF Calm
    <3>2. running' # None
      BY <1>0, <2>3, KindsAreIds, Constants
    <3>. QED
      BY <1>0, <2>3, <3>1, <3>2 DEF IndInv, RunningIsFront
  <2>4. CASE pc["loop"] \in PromotePcs /\ running = None
    BY <2>2, <2>4 DEF Calm
  <2>5. CASE pc["loop"] \in PromotePcs /\ running # None
    <3>1. running = i /\ pc["loop"] # "ended"
      BY <2>2, <2>5, QueueFacts DEF PromotePcs
    <3>. QED
      BY <2>3, <3>1
  <2>. QED
    BY <2>2, <2>3, <2>4, <2>5
<1>4. BarInv'
  <2>. SUFFICES ASSUME suppressed', ~Raising' PROVE ToSet(q') \cap Barred \subseteq {running'}
    BY DEF BarInv, Queued
  <2>1. suppressed /\ ToSet(q') \cap Barred \subseteq Queued
    BY <1>1, KindsAreIds DEF Calm
  <2>2. ~Raising
    BY <1>0 DEF Raising, LoopMoves, MidPcs
  <2>. QED
    BY <1>0, <2>1, <2>2 DEF HandoverInv, BarInv
<1>. QED
  BY <1>2, <1>3, <1>4 DEF HandoverInv

(* A Goto of the loop moves no starter. *)
LEMMA GotoLoop ==
    ASSUME IndInv, NEW where, Goto("loop", where)
    PROVE  pc'["loop"] = where /\ \A p \in Starters : pc'[p] = pc[p]
<1>1. "loop" \in Procs /\ "loop" \notin Starters /\ Starters \subseteq Procs
  BY Constants DEF Procs
<1>2. pc \in [Procs -> LoopPcs \cup StarterPcs] /\ pc' = [pc EXCEPT !["loop"] = where]
  BY DEF IndInv, TypeOK, LoopType, Goto
<1>. QED
  BY <1>1, <1>2

(* A handler of the loop that leaves it at another place than the ready    *)
(* ones and the end, and queues no drain and nothing behind the barrier.   *)
LEMMA CalmMove ==
    ASSUME IndInv, Aside, NEW where, Goto("loop", where),
           where \notin ReadyPcs \cup {"ended"}, pc["loop"] \notin PromotePcs,
           NotQueued(DrainTurns), suppressed' => suppressed /\ NotQueued(Barred)
    PROVE  Calm
<1>1. pc'["loop"] = where /\ \A p \in Starters : pc'[p] = pc[p]
  BY GotoLoop
<1>. QED
  BY <1>1 DEF Calm

(* A step that queues nothing and leaves the loop where it is. *)
LEMMA CalmStay ==
    ASSUME Aside, UNCHANGED pc, NotQueued(Ids), suppressed' => suppressed,
           pc["loop"] \in PromotePcs /\ running = None => q' = q
    PROVE  Calm
<1>1. NotQueued(DrainTurns) /\ NotQueued(Barred)
  BY KindsAreIds DEF NotQueued
<1>. QED
  BY <1>1 DEF Calm

(* Messages get an answer and none is queued. *)
LEMMA ResolveQueues ==
    ASSUME IndInv, NEW S, NEW f, fate' = Resolve(S, f)
    PROVE  /\ f # "pending" => NotQueued(Ids)
           /\ \A T \in SUBSET Ids : T \cap S = {} => NotQueued(T)
<1>1. \A i \in Ids : fate'[i] = IF i \in S THEN f ELSE fate[i]
  BY ResolveIs
<1>. QED
  BY <1>1 DEF NotQueued

(* New entries of the queue. *)
LEMMA InsertCalm ==
    ASSUME IndInv, ConserveInv
    PROVE  /\ \A i \in Prompts, now \in BOOLEAN : PromptUser(i, now) => Calm
           /\ \A i \in TaskWakes \cup SubagentWakes \cup TimerWakes, late \in BOOLEAN :
                  PromptWake(i, late) => Calm
           /\ \A i \in GoalTurns : GoalSummaryTurn(i) => Calm
           /\ \A i \in WorkflowWakes : WorkflowCompletionTurn(i) => Calm
<1>0. /\ Prompts \cap Barred = {} /\ SubagentWakes \cap Barred = {}
      /\ TimerWakes \cap Barred = {} /\ GoalTurns \cap Barred = {}
      /\ (TaskWakes \cup WorkflowWakes) \cap DrainTurns = {}
      /\ DrainTurns \subseteq Barred /\ Barred \subseteq Ids
      /\ Synthetic \subseteq Ids /\ Prompts \subseteq Ids
  <2>1. Prompts \cap Barred = {}
    BY Kinds DEF UserMessages, Synthetic, Barred
  <2>2. /\ SubagentWakes \cap Barred = {} /\ TimerWakes \cap Barred = {}
        /\ GoalTurns \cap Barred = {} /\ (TaskWakes \cup WorkflowWakes) \cap DrainTurns = {}
    BY Kinds DEF Barred
  <2>3. DrainTurns \subseteq Barred /\ Synthetic \subseteq Ids
    BY DEF Barred, Ids
  <2>. QED
    BY <2>1, <2>2, <2>3, KindsAreIds, InterjectionsAreIds
<1>1. ASSUME NEW i \in Prompts, NEW now \in BOOLEAN, PromptUser(i, now) PROVE Calm
  <2>1. /\ pc["loop"] = "idle" /\ suppressed' = FALSE
        /\ \E where \in {"cancelNow", "start"} : Goto("loop", where)
    BY <1>1 DEF PromptUser, Accept, Handle
  <2>2. PICK S : fate' = [k \in DOMAIN fate |->
                             IF k = i THEN "pending"
                             ELSE IF k \in Queued \ S THEN "dropped"
                             ELSE fate[k]]
    BY <1>1 DEF PromptUser
  <2>3. NotQueued(DrainTurns)
    BY <1>0, <2>2 DEF NotQueued, IndInv, TypeOK, EndType
  <2>4. Aside
    BY <1>1, InsertAside
  <2>. QED
    BY <2>1, <2>3, <2>4, CalmMove DEF ReadyPcs, PromotePcs
<1>2. ASSUME NEW i \in Synthetic \ DrainTurns, Aside, pc["loop"] = "idle",
             fate' = Resolve({i}, "pending"), Handle("start", "idle"),
             suppressed' = suppressed, i \in Barred => ~suppressed
      PROVE  Calm
  <2>1. Goto("loop", "start")
    BY <1>2 DEF Handle
  <2>2. NotQueued(DrainTurns)
    BY <1>0, <1>2, ResolveQueues
  <2>3. suppressed => NotQueued(Barred)
    BY <1>0, <1>2, ResolveQueues
  <2>. QED
    BY <1>2, <2>1, <2>2, <2>3, CalmMove DEF ReadyPcs, PromotePcs
<1>3. ASSUME NEW i \in TaskWakes \cup SubagentWakes \cup TimerWakes, NEW late \in BOOLEAN,
             PromptWake(i, late)
      PROVE  Calm
  <2>1. Aside /\ pc["loop"] = "idle" /\ suppressed' = suppressed /\ i \in Synthetic \ DrainTurns
    BY <1>0, <1>3, InsertAside DEF PromptWake, Accept, Synthetic
  <2>2. CASE ~(i \in TaskWakes /\ (suppressed \/ late))
    <3>1. fate' = Resolve({i}, "pending") /\ Handle("start", "idle")
      BY <1>3, <2>2 DEF PromptWake
    <3>2. i \in Barred => ~suppressed
      BY <1>0, <2>2
    <3>. QED
      BY <1>2, <2>1, <3>1, <3>2
  <2>3. CASE i \in TaskWakes /\ (suppressed \/ late)
    <3>1. UNCHANGED <<q, pc>>
      BY <1>3, <2>3 DEF PromptWake
    <3>2. PICK f \in {"tooLate", "removed"} : fate' = Resolve({i}, f)
      BY <1>3, <2>3 DEF PromptWake
    <3>3. NotQueued(Ids)
      BY <3>2, ResolveQueues
    <3>. QED
      BY <2>1, <3>1, <3>3, CalmStay
  <2>. QED
    BY <2>2, <2>3
<1>4. ASSUME NEW i \in GoalTurns, GoalSummaryTurn(i) PROVE Calm
  <2>1. /\ Aside /\ pc["loop"] = "idle" /\ suppressed' = suppressed
        /\ fate' = Resolve({i}, "pending") /\ Handle("start", "idle")
    BY <1>4, InsertAside DEF GoalSummaryTurn, Accept, Synthetic
  <2>2. i \in Synthetic \ DrainTurns /\ i \notin Barred
    BY <1>0 DEF Synthetic
  <2>. QED
    BY <1>2, <2>1, <2>2
<1>5. ASSUME NEW i \in WorkflowWakes, WorkflowCompletionTurn(i) PROVE Calm
  <2>1. /\ Aside /\ pc["loop"] = "idle" /\ suppressed' = suppressed /\ ~suppressed
        /\ fate' = Resolve({i}, "pending") /\ Handle("start", "idle")
    BY <1>5, InsertAside DEF WorkflowCompletionTurn, Accept, Synthetic
  <2>2. i \in Synthetic \ DrainTurns
    BY <1>0 DEF Synthetic
  <2>. QED
    BY <1>2, <2>1, <2>2
<1>. QED
  BY <1>1, <1>3, <1>4, <1>5

(* Edits of the queue by clients. *)
LEMMA EditCalm ==
    ASSUME IndInv, ConserveInv
    PROVE  /\ \A i \in Prompts : RemoveQueued(i) => Calm
           /\ \A i \in Prompts : InterjectQueued(i) => Calm
           /\ \A order : Reorder(order) => Calm
           /\ \A owner : ClearQueue(owner) => Calm
           /\ \A i \in Prompts : HoldCombineEdit(i) => Calm
           /\ \A i \in Prompts : ReleaseCombineEdit(i) => Calm
<1>1. ASSUME Aside, UNCHANGED <<pc, suppressed>>, pc["loop"] = "idle",
             UNCHANGED fate \/ \E R : fate' = Resolve(R, "removed")
      PROVE  Calm
  <2>1. NotQueued(Ids)
    BY <1>1, ResolveQueues DEF NotQueued
  <2>. QED
    BY <1>1, <2>1, CalmStay DEF PromotePcs
<1>2. ASSUME NEW i \in Prompts, RemoveQueued(i) PROVE Calm
  BY <1>1, <1>2, EditAside DEF RemoveQueued, Accept
<1>3. ASSUME NEW i \in Prompts, InterjectQueued(i) PROVE Calm
  <2>1. /\ Aside /\ UNCHANGED <<fate, suppressed>> /\ pc["loop"] = "idle"
        /\ \E where \in {"cancelNow", "start"} : Goto("loop", where)
    BY <1>3, EditAside DEF InterjectQueued, Accept, Handle
  <2>. QED
    BY <2>1, CalmMove DEF ReadyPcs, PromotePcs, NotQueued
<1>4. ASSUME NEW order, Reorder(order) PROVE Calm
  BY <1>1, <1>4, EditAside DEF Reorder, Accept, endVars
<1>5. ASSUME NEW owner, ClearQueue(owner) PROVE Calm
  BY <1>1, <1>5, EditAside DEF ClearQueue, Accept
<1>6. ASSUME NEW i \in Prompts, HoldCombineEdit(i) \/ ReleaseCombineEdit(i) PROVE Calm
  BY <1>1, <1>6, EditAside DEF HoldCombineEdit, ReleaseCombineEdit, Accept, endVars
<1>. QED
  BY <1>2, <1>3, <1>4, <1>5, <1>6

(* Interjections. *)
LEMMA InterjectCalm ==
    ASSUME IndInv, ConserveInv
    PROVE  /\ \A i \in Interjections : Interject(i) => Calm
           /\ Flush => Calm
           /\ Requeue => Calm
<1>1. ASSUME NEW i \in Interjections, Interject(i) PROVE Calm
  <2>1. /\ Aside /\ pc["loop"] = "idle" /\ suppressed' = suppressed
        /\ fate' = Resolve({i}, "buffered")
        /\ UNCHANGED pc \/ Goto("loop", "requeue")
    BY <1>1, InterjectAside DEF Interject, stateVars, Accept
  <2>2. NotQueued(Ids)
    BY <2>1, ResolveQueues
  <2>3. NotQueued(DrainTurns) /\ NotQueued(Barred)
    BY <2>2, KindsAreIds DEF NotQueued
  <2>4. CASE UNCHANGED pc
    BY <2>1, <2>2, <2>4, CalmStay DEF PromotePcs
  <2>5. CASE Goto("loop", "requeue")
    BY <2>1, <2>3, <2>5, CalmMove DEF ReadyPcs, PromotePcs
  <2>. QED
    BY <2>1, <2>4, <2>5
<1>2. ASSUME Flush PROVE Calm
  <2>1. /\ Aside /\ pc["loop"] = "flush" /\ UNCHANGED <<suppressed, fate>>
        /\ \E where \in {"start", "requeue"} : Goto("loop", where)
    BY <1>2, InterjectAside DEF Flush, stateVars, endVars
  <2>. QED
    BY <2>1, CalmMove DEF ReadyPcs, PromotePcs, NotQueued
<1>3. ASSUME Requeue PROVE Calm
  <2>. DEFINE i == cx.late[Len(cx.late)]
  <2>1. /\ Aside /\ pc["loop"] = "requeue" /\ suppressed' = suppressed
        /\ fate' = Resolve({i}, "pending")
        /\ \E where \in {"start", "requeue"} : Goto("loop", where)
    BY <1>3, InterjectAside DEF Requeue
  <2>2. i \in Interjections
    <3>1. cx.late \in Seq(Interjections) /\ cx.late # <<>>
      BY <2>1 DEF IndInv, TypeOK, LoopType, CxType, LateInv
    <3>2. Len(cx.late) \in 1..Len(cx.late)
      BY <3>1, EmptySeq, LenProperties
    <3>. QED
      BY <3>1, <3>2, ElementOfSeq
  <2>. HIDE DEF i
  <2>3. i \notin DrainTurns /\ i \notin Barred
    BY <2>2, Kinds DEF UserMessages, Synthetic, Barred
  <2>4. NotQueued(DrainTurns) /\ NotQueued(Barred)
    BY <2>1, <2>3, ResolveQueues, KindsAreIds
  <2>. QED
    BY <2>1, <2>4, CalmMove DEF ReadyPcs, PromotePcs
<1>. QED
  BY <1>1, <1>2, <1>3

(* The end of a send-now, the goal at the end of a turn, notifications,    *)
(* shutdown.                                                               *)
LEMMA HandlerCalm ==
    ASSUME IndInv, ConserveInv
    PROVE  /\ Reengage => Calm
           /\ TurnEnd => Calm
           /\ Shutdown => Calm
           /\ \A e \in Notes : InjectNotification(e) => Calm
           /\ \A task \in TaskWakes : DropMonitorNotifications(task) => Calm
<1>1. ASSUME Reengage PROVE Calm
  <2>1. /\ Aside /\ pc["loop"] = "reengage" /\ suppressed' = FALSE /\ UNCHANGED fate
        /\ Goto("loop", "start")
    BY <1>1, HandlerAside DEF Reengage, endVars
  <2>. QED
    BY <2>1, CalmMove DEF ReadyPcs, PromotePcs, NotQueued
<1>2. ASSUME TurnEnd PROVE Calm
  <2>1. /\ Aside /\ pc["loop"] = "turnEnd" /\ suppressed' = suppressed
        /\ Goto("loop", "flush")
        /\ UNCHANGED fate \/ \E i \in GoalTurns : fate' = Resolve({i}, "pending")
    BY <1>2, HandlerAside DEF TurnEnd
  <2>2. NotQueued(DrainTurns) /\ NotQueued(Barred)
    <3>1. CASE UNCHANGED fate
      BY <3>1 DEF NotQueued
    <3>2. ASSUME NEW i \in GoalTurns, fate' = Resolve({i}, "pending")
          PROVE  NotQueued(DrainTurns) /\ NotQueued(Barred)
      <4>1. i \notin DrainTurns /\ i \notin Barred
        BY Kinds DEF Barred
      <4>. QED
        BY <3>2, <4>1, ResolveQueues, KindsAreIds
    <3>. QED
      BY <2>1, <3>1, <3>2
  <2>. QED
    BY <2>1, <2>2, CalmMove DEF ReadyPcs, PromotePcs
<1>3. ASSUME Shutdown PROVE Calm
  <2>1. /\ Aside /\ pc["loop"] = "idle" /\ suppressed' = suppressed
        /\ fate' = Resolve(Queued \cap Synthetic, "dropped") /\ Goto("loop", "ended")
    BY <1>3, HandlerAside DEF Shutdown, Accept, Handle
  <2>2. NotQueued(Ids)
    BY <2>1, ResolveQueues
  <2>3. NotQueued(DrainTurns) /\ NotQueued(Barred)
    BY <2>2, KindsAreIds DEF NotQueued
  <2>4. \A i \in DrainTurns : fate'[i] # "pending"
    <3>1. \A i \in DrainTurns : fate[i] = "pending" => i \in Queued \cap Synthetic
      <4>1. cx.victims = {}
        BY <2>1 DEF ConserveInv, HandsInv
      <4>2. \A i \in DrainTurns : fate[i] = "pending" => i \in Queued
        BY <4>1, KindsAreIds DEF ConserveInv, Conserved
      <4>. QED
        BY <4>2 DEF Synthetic
    <3>2. \A i \in Ids : fate'[i] = IF i \in Queued \cap Synthetic THEN "dropped" ELSE fate[i]
      BY <2>1, ResolveIs
    <3>. QED
      BY <3>1, <3>2, KindsAreIds
  <2>5. pc'["loop"] = "ended" /\ \A p \in Starters : pc'[p] = pc[p]
    BY <2>1, GotoLoop
  <2>. QED
    BY <2>1, <2>3, <2>4, <2>5 DEF Calm, ReadyPcs, PromotePcs
<1>4. ASSUME NEW e \in Notes, InjectNotification(e) PROVE Calm
  <2>1. /\ Aside /\ pc["loop"] = "idle" /\ UNCHANGED <<suppressed, q>>
        /\ fate' = Resolve({e}, "noted") /\ (UNCHANGED pc \/ Goto("loop", "drain"))
    BY <1>4, HandlerAside DEF InjectNotification, Accept, Handle
  <2>2. NotQueued(Ids)
    BY <2>1, ResolveQueues
  <2>3. NotQueued(DrainTurns) /\ NotQueued(Barred)
    BY <2>2, KindsAreIds DEF NotQueued
  <2>4. pc'["loop"] \in ReadyPcs /\ \A p \in Starters : pc'[p] = pc[p]
    BY <2>1, GotoLoop DEF ReadyPcs
  <2>. QED
    BY <2>1, <2>2, <2>3, <2>4 DEF Calm, ReadyPcs, PromotePcs
<1>5. ASSUME NEW task \in TaskWakes, DropMonitorNotifications(task) PROVE Calm
  <2>1. Aside /\ UNCHANGED <<pc, suppressed, fate, q>>
    BY <1>5, HandlerAside DEF DropMonitorNotifications, endVars
  <2>. QED
    BY <2>1, CalmStay DEF NotQueued
<1>. QED
  BY <1>1, <1>2, <1>3, <1>4, <1>5

(* What an open turn does; its turn has the slot unless a cancel took it.  *)
LEMMA WorkCalm ==
    ASSUME IndInv, ConserveInv, TurnInv, NEW t \in Ids, TurnWork(t)
    PROVE  Calm
<1>0. Aside
  BY WorkAside
<1>1. turn[t] = "open" /\ UNCHANGED <<pc, suppressed>>
  BY DEF TurnWork, TurnOutput, TurnInject, TurnWait, TurnGoal, TurnRound,
         TurnConsumes, TurnReportsWorkflow, Does, stateVars
<1>2. pc["loop"] \in PromotePcs => running # None
  <2>1. t = running \/ pc["loop"] = "cancelEnd"
    BY <1>1 DEF TurnInv, LiveInv, Live
  <2>. QED
    BY <2>1, Constants DEF PromotePcs
<1>3. UNCHANGED fate \/ \E S : fate' = Resolve(S, "merged") \/ fate' = Resolve(S, "dropped")
  BY DEF TurnWork, TurnOutput, TurnInject, TurnWait, TurnGoal, TurnRound,
         TurnConsumes, TurnReportsWorkflow, endVars
<1>4. NotQueued(Ids)
  BY <1>3, ResolveQueues DEF NotQueued
<1>. QED
  BY <1>0, <1>1, <1>2, <1>4, CalmStay

-----------------------------------------------------------------------------
(***************************************************************************)
(* The steps that promote, cancel or complete.                             *)
(***************************************************************************)
(* The drain, unless there is nothing to tell or the loop is not idle.     *)
LEMMA DrainKeeps ==
    ASSUME IndInv, ConserveInv, HandoverInv, IndInv', ConserveInv', DrainNotifications
    PROVE  HandoverInv'
<1>1. pc["loop"] = "drain" /\ UNCHANGED <<running, suppressed>>
  BY DEF DrainNotifications
<1>2. \/ Goto("loop", "idle") /\ UNCHANGED <<q, fate>>
      \/ \E i \in DrainTurns : /\ q = <<>> /\ q' = Append(q, i) /\ ~suppressed
                               /\ Goto("loop", "start")
  BY DEF DrainNotifications, IdleForInjection, Handle
<1>3. CASE Goto("loop", "idle") /\ UNCHANGED <<q, fate>>
  <2>1. Aside
    BY HandlerAside
  <2>2. pc'["loop"] = "idle" /\ \A p \in Starters : pc'[p] = pc[p]
    BY <1>3, GotoLoop
  <2>3. NotQueued(Ids) /\ NotQueued(DrainTurns) /\ NotQueued(Barred)
    BY <1>3 DEF NotQueued
  <2>4. Calm
    BY <1>1, <1>3, <2>1, <2>2, <2>3 DEF Calm, ReadyPcs, PromotePcs
  <2>. QED
    BY <2>4, CalmKeeps
<1>4. ASSUME NEW i \in DrainTurns, q = <<>>, q' = Append(q, i), ~suppressed, Goto("loop", "start")
      PROVE  HandoverInv'
  <2>1. pc'["loop"] = "start"
    BY <1>4, GotoLoop
  <2>2. q'[1] = i /\ ToSet(q') = {i}
    <3>1. q' = <<i>> /\ i \in Ids
      BY <1>4, KindsAreIds
    <3>. QED
      BY <3>1, SingleDistinct
  <2>3. KickInv' /\ BarInv'
    BY <1>1, <1>4, <2>1 DEF KickInv, BarInv, ReadyPcs
  <2>4. DrainInv'
    BY <2>1, <2>2 DEF DrainInv, Queued, PromotePcs
  <2>. QED
    BY <2>3, <2>4 DEF HandoverInv
<1>. QED
  BY <1>2, <1>3, <1>4

(* A run of none. *)
LEMMA NoRun ==
    ASSUME NEW S, NEW s \in Seq(S), NEW T, s[1] \notin T
    PROVE  RunLength(s, 1, T) = 0
<1>. DEFINE R == {j \in 1..Len(s) : \A k \in 1..j : s[k] \in T}
<1>1. R = {}
  <2>1. \A j \in 1..Len(s) : 1 \in 1..j
    BY LenProperties
  <2>. QED
    BY <2>1
<1>2. Cardinality(R) = 0
  BY <1>1, FS_EmptySet
<1>. QED
  BY <1>2 DEF RunLength

(* A starter comes, or a task goes on with its promotion and the slot is   *)
(* still empty.                                                            *)
LEMMA StartKeeps ==
    ASSUME IndInv, ConserveInv, HandoverInv, IndInv', ConserveInv', FateMoves,
           UNCHANGED <<running, suppressed, cx, q, fate>>, NEW p \in Procs,
           NEW where, Goto(p, where),
           p = "loop" => where = "promote" \/ (where \in ReadyPcs /\ NothingToPromote),
           p = "loop" => pc["loop"] \in PromotePcs,
           p # "loop" => where \in PromotePcs \/ NothingToPromote
    PROVE  HandoverInv'
<1>1. pc'["loop"] = IF p = "loop" THEN where ELSE pc["loop"]
  BY GotoMoves
<1>2. pc'[p] = where /\ \A r \in Procs \ {p} : pc'[r] = pc[r]
  BY DEF Goto, IndInv, TypeOK, LoopType
<1>3. Starters = Procs \ {"loop"}
  BY Constants DEF Procs
<1>4. KickInv'
  <2>. SUFFICES ASSUME pc'["loop"] \in ReadyPcs, running = None, q # <<>>
                PROVE  \E r \in Starters : pc'[r] \in PromotePcs
    BY DEF KickInv
  <2>1. ~NothingToPromote
    BY DEF NothingToPromote
  <2>2. p # "loop" /\ where \in PromotePcs
    BY <1>1, <2>1 DEF ReadyPcs
  <2>. QED
    BY <1>2, <1>3, <2>2
<1>5. DrainInv'
  <2>. SUFFICES ASSUME NEW i \in DrainTurns, i \in Queued
                PROVE  /\ q[1] = i
                       /\ (running = i /\ pc'["loop"] # "ended") \/ pc'["loop"] \in PromotePcs
    BY DEF DrainInv, Queued
  <2>1. q[1] = i /\ ((running = i /\ pc["loop"] # "ended") \/ pc["loop"] \in PromotePcs)
    BY DEF HandoverInv, DrainInv
  <2>2. CASE p # "loop"
    BY <1>1, <2>1, <2>2
  <2>3. CASE p = "loop" /\ where = "promote"
    BY <1>1, <2>1, <2>3 DEF PromotePcs
  <2>4. CASE p = "loop" /\ where \in ReadyPcs /\ NothingToPromote
    <3>1. q # <<>>
      BY EmptyDistinct DEF Queued
    <3>2. running = i
      BY <2>1, <2>4, <3>1, QueueFacts DEF NothingToPromote, PromotePcs
    <3>. QED
      BY <1>1, <2>1, <2>4, <3>2 DEF ReadyPcs
  <2>. QED
    BY <2>2, <2>3, <2>4
<1>6. BarInv'
  <2>1. Raising => Raising'
    BY <1>1 DEF Raising, PromotePcs
  <2>. QED
    BY <2>1 DEF HandoverInv, BarInv, Queued
<1>. QED
  BY <1>4, <1>5, <1>6 DEF HandoverInv

(* The front that is promoted is the front of the queue, unless that was a *)
(* stale workflow wake.                                                    *)
LEMMA FrontPromoted ==
    ASSUME IndInv, NEW p \in Procs, Promote(p), lock' # None, q # <<>>,
           q[1] \notin WorkflowWakes
    PROVE  q'[1] = q[1]
<1>. DEFINE stale == RunLength(q, 1, WorkflowWakes \cap reported)
            live == DropFirst(q, stale)
            held == holds \cap ToSet(live)
            n == IF may[p] /\ CombineQueued THEN CombinePrefixLen(live, held) ELSE 1
            after == DropFirst(live, n)
            front == <<live[1]>>
<1>0. q \in Seq(Ids) /\ lock = None
  BY QueueFacts DEF Promote, LockFree
<1>1. q' = front \o after
  BY <1>0 DEF Promote
<1>2. stale = 0
  BY <1>0, NoRun
<1>. HIDE DEF stale
<1>3. live = q
  <2>1. Len(q) \in Nat
    BY <1>0, LenProperties
  <2>2. SubSeq(q, 1, Len(q)) = q
    BY <1>0, <2>1
  <2>. QED
    BY <1>2, <2>2 DEF DropFirst
<1>. HIDE DEF live
<1>4. Len(q) \in Nat /\ Len(q) # 0 /\ q[1] \in Ids
  BY <1>0, EmptySeq, ElementOfSeq, LenProperties
<1>5. n \in Nat
  <2>1. 2 \in 1..(Len(live) + 1)
    BY <1>3, <1>4
  <2>2. RunLength(live, 2, Mergeable \ (Imaged \cup held)) \in Nat
    BY <1>0, <1>3, <1>4, <2>1, RunLengthBound
  <2>. QED
    BY <2>2 DEF CombinePrefixLen
<1>. HIDE DEF n
<1>6. after \in Seq(Ids) /\ front \in Seq(Ids) /\ front # <<>> /\ front[1] = q[1]
  BY <1>0, <1>3, <1>4, <1>5, DropFirstType
<1>. HIDE DEF after, front
<1>. QED
  BY <1>1, <1>6, ConcatFront

(* maybe_start_running_task, by the loop or by a starter. *)
LEMMA PromotionKeeps ==
    ASSUME IndInv, ConserveInv, HandoverInv, IndInv', ConserveInv'
    PROVE  /\ \A p \in Procs : Start(p) => HandoverInv'
           /\ \A p \in Procs : Promote(p) => HandoverInv'
           /\ \A p \in Procs : Spawn(p) => HandoverInv'
           /\ McpReady => HandoverInv'
<1>1. ASSUME NEW p \in Procs, Start(p) PROVE HandoverInv'
  <2>1. UNCHANGED <<running, suppressed, cx, q, fate>> /\ FateMoves /\ pc[p] = "start"
    BY <1>1 DEF Start, stateVars, endVars, FateMoves
  <2>2. CASE NothingToPromote
    <3>1. PICK where : Goto(p, where) /\ (p = "loop" => where \in ReadyPcs)
      BY <1>1, <2>2 DEF Start, Return, IndInv, TypeOK, LoopType, CxType, ReadyPcs
    <3>. QED
      BY <2>1, <2>2, <3>1, StartKeeps DEF PromotePcs
  <2>3. CASE ~NothingToPromote
    BY <1>1, <2>1, <2>3, StartKeeps DEF Start, PromotePcs
  <2>. QED
    BY <2>2, <2>3
<1>2. ASSUME McpReady PROVE HandoverInv'
  <2>1. /\ UNCHANGED <<running, suppressed, cx, q, fate>> /\ FateMoves
        /\ "mcp" \in Procs /\ Goto("mcp", "start")
    BY <1>2 DEF McpReady, stateVars, endVars, FateMoves, Procs
  <2>. QED
    BY <2>1, StartKeeps DEF PromotePcs
<1>3. ASSUME NEW p \in Procs, Spawn(p) PROVE HandoverInv'
  <2>1. /\ UNCHANGED <<suppressed, cx, q>> /\ running' = q[1] /\ pc[p] = "spawn" /\ lock = p
    BY <1>3 DEF Spawn
  <2>2. running = None /\ q # <<>> /\ None \notin Ids
    BY <2>1, Constants DEF IndInv, LockInv
  <2>3. q[1] \in Ids /\ Queued \subseteq Ids
    BY <2>2, QueueFacts, EmptySeq
  <2>4. PICK where : Goto(p, where) /\ (p = "loop" => where \in ReadyPcs)
    BY <1>3 DEF Spawn, Return, IndInv, TypeOK, LoopType, CxType, ReadyPcs
  <2>5. pc'["loop"] = IF p = "loop" THEN where ELSE pc["loop"]
    BY <2>4, GotoMoves
  <2>6. KickInv'
    BY <2>1, <2>2, <2>3 DEF KickInv
  <2>7. DrainInv'
    BY <2>1, <2>2, <2>4, <2>5, KindsAreIds DEF HandoverInv, DrainInv, Queued, ReadyPcs, PromotePcs
  <2>8. BarInv'
    <3>1. Raising => Raising'
      BY <2>1, <2>5 DEF Raising
    <3>. QED
      BY <2>1, <2>2, <2>3, <3>1 DEF HandoverInv, BarInv, Queued
  <2>. QED
    BY <2>6, <2>7, <2>8 DEF HandoverInv
<1>4. ASSUME NEW p \in Procs, Promote(p) PROVE HandoverInv'
  <2>1. /\ UNCHANGED <<running, cx>> /\ pc[p] = "promote" /\ lock = None
    BY <1>4 DEF Promote, LockFree
  <2>2. CASE NothingToPromote
    <3>1. /\ UNCHANGED <<suppressed, q, fate>> /\ FateMoves /\ Return(p)
      BY <1>4, <2>2 DEF Promote, FateMoves
    <3>2. PICK where : Goto(p, where) /\ (p = "loop" => where \in ReadyPcs)
      BY <3>1 DEF Return, IndInv, TypeOK, LoopType, CxType, ReadyPcs
    <3>. QED
      BY <2>1, <2>2, <3>1, <3>2, StartKeeps DEF PromotePcs
  <2>3. CASE ~NothingToPromote /\ lock' = None
    <3>1. q' = <<>>
      BY <1>4, <2>3, Constants DEF Promote
    <3>2. ToSet(q') = {}
      BY <3>1, EmptyDistinct
    <3>. QED
      BY <3>1, <3>2 DEF HandoverInv, KickInv, DrainInv, BarInv, Queued
  <2>4. CASE ~NothingToPromote /\ lock' # None
    <3>1. /\ running = None /\ q # <<>> /\ Goto(p, "spawn") /\ (suppressed' => suppressed)
          /\ \E R : fate' = Resolve(R, "removed")
      BY <1>4, <2>1, <2>4 DEF Promote, NothingToPromote
    <3>2. FateMoves
      <4>1. PICK R \in SUBSET Queued : fate' = Resolve(R, "removed")
        BY <1>4, <2>1, <2>4 DEF Promote
      <4>. QED
        BY <4>1, Unanswered, ResolveMoves
    <3>3. ToSet(q') \subseteq Queued
      <4>1. NotQueued(Ids)
        BY <3>1, ResolveQueues
      <4>. QED
        BY <2>1, <3>2, <4>1, CalmQueue
    <3>4. pc'["loop"] = IF p = "loop" THEN "spawn" ELSE pc["loop"]
      BY <3>1, GotoMoves
    <3>5. KickInv'
      <4>1. pc'[p] = "spawn" /\ (p # "loop" => p \in Starters)
        BY <3>1 DEF Goto, IndInv, TypeOK, LoopType, Procs
      <4>. QED
        BY <3>4, <4>1 DEF KickInv, ReadyPcs, PromotePcs
    <3>6. DrainInv'
      <4>. SUFFICES ASSUME NEW i \in DrainTurns, i \in ToSet(q')
                    PROVE  q'[1] = i /\ pc'["loop"] \in PromotePcs
        BY DEF DrainInv, Queued
      <4>1. q[1] = i /\ pc["loop"] \in PromotePcs
        BY <3>1, <3>3, KindsAreIds, Constants DEF HandoverInv, DrainInv
      <4>2. q[1] \notin WorkflowWakes
        BY <4>1, Kinds
      <4>. QED
        BY <1>4, <2>4, <3>1, <3>4, <4>1, <4>2, FrontPromoted DEF PromotePcs
    <3>7. BarInv'
      <4>1. Raising => Raising'
        BY <2>1, <3>4 DEF Raising
      <4>. QED
        BY <2>1, <3>1, <3>3, <4>1 DEF HandoverInv, BarInv, Queued
    <3>. QED
      BY <3>5, <3>6, <3>7 DEF HandoverInv
  <2>. QED
    BY <2>2, <2>3, <2>4
<1>. QED
  BY <1>1, <1>2, <1>3, <1>4

(* A plan is resumed: its prompt is queued behind what is there, and its   *)
(* starter is on the way.                                                  *)
LEMMA ResumeKeeps ==
    ASSUME IndInv, ConserveInv, HandoverInv, IndInv', ConserveInv',
           NEW i \in ResumeTurns, ResumePlan(i)
    PROVE  HandoverInv'
<1>1. /\ UNCHANGED <<running, suppressed, cx>> /\ q' = Append(q, i)
      /\ "resume" \in Starters /\ Goto("resume", "start")
  BY DEF ResumePlan
<1>2. "resume" \in Procs \ {"loop"}
  BY <1>1, Constants DEF Procs
<1>3. pc'["loop"] = pc["loop"] /\ pc'["resume"] = "start"
  BY <1>1, <1>2 DEF Goto, IndInv, TypeOK, LoopType, Procs
<1>4. /\ ToSet(q') = Queued \cup {i} /\ i \notin Barred /\ i \notin DrainTurns
      /\ q # <<>> => q'[1] = q[1]
  <2>1. q \in Seq(Ids) /\ i \in Ids
    BY QueueFacts, KindsAreIds
  <2>2. ToSet(q') = Queued \cup {i} /\ (q # <<>> => q'[1] = q[1])
    BY <1>1, <2>1, AppendDistinct, AppendFront DEF Queued
  <2>. QED
    BY <2>2, Kinds DEF Barred
<1>5. KickInv'
  BY <1>1, <1>3 DEF KickInv, PromotePcs
<1>6. DrainInv'
  <2>1. \A k \in Queued : q # <<>>
    BY EmptyDistinct DEF Queued
  <2>. QED
    BY <1>1, <1>3, <1>4, <2>1 DEF HandoverInv, DrainInv, Queued
<1>7. BarInv'
  <2>1. Raising => Raising'
    BY <1>1, <1>3 DEF Raising
  <2>. QED
    BY <1>1, <1>4, <2>1 DEF HandoverInv, BarInv, Queued
<1>. QED
  BY <1>5, <1>6, <1>7 DEF HandoverInv

(* A cancel or a completion goes on and touches neither the queue nor the  *)
(* slot.                                                                   *)
LEMMA HoldKeeps ==
    ASSUME IndInv, HandoverInv, UNCHANGED <<q, running>>,
           pc["loop"] \notin PromotePcs, pc'["loop"] \notin ReadyPcs \cup {"ended"},
           suppressed' /\ ~Raising' => suppressed /\ ~Raising
    PROVE  HandoverInv'
<1>1. KickInv'
  BY DEF KickInv
<1>2. DrainInv'
  BY DEF HandoverInv, DrainInv, Queued
<1>3. BarInv'
  BY DEF HandoverInv, BarInv, Queued
<1>. QED
  BY <1>1, <1>2, <1>3 DEF HandoverInv

(* SessionCommand::Cancel and the cancel of a send-now begin.  The one     *)
(* that panics finds the mutex held, so the slot is empty and a drain is   *)
(* not among what is queued.                                               *)
LEMMA EntryKeeps ==
    ASSUME IndInv, HandoverInv
    PROVE  /\ \A kind \in CancelKinds : CancelBegin(kind) => HandoverInv'
           /\ CancelForSendNow => HandoverInv'
           /\ CancelAbortEarly => HandoverInv'
<1>1. ASSUME NEW kind \in CancelKinds, CancelBegin(kind) PROVE HandoverInv'
  <2>1. UNCHANGED <<q, running>> /\ pc["loop"] = "idle"
    BY <1>1 DEF CancelBegin, Accept
  <2>2. ~Raising
    BY <2>1 DEF Raising
  <2>3. CASE kind.ctrlC /\ ~LockFree
    <3>1. Goto("loop", "ended") /\ suppressed' = suppressed
      BY <1>1, <2>3 DEF CancelBegin, Handle
    <3>2. pc'["loop"] = "ended"
      BY <3>1, GotoLoop
    <3>3. running = None
      BY <2>3 DEF LockFree, IndInv, LockInv
    <3>4. DrainTurns \cap Queued = {}
      BY <2>1, <3>3, KindsAreIds, Constants DEF HandoverInv, DrainInv, PromotePcs
    <3>5. DrainInv'
      BY <2>1, <3>4 DEF DrainInv, Queued
    <3>6. KickInv' /\ BarInv'
      BY <2>1, <2>2, <3>1, <3>2 DEF HandoverInv, KickInv, BarInv, ReadyPcs, Queued
    <3>. QED
      BY <3>5, <3>6 DEF HandoverInv
  <2>4. CASE ~(kind.ctrlC /\ ~LockFree)
    <3>1. PICK where \in {"cancelSubs", "cancelLock"} : Goto("loop", where)
      BY <1>1, <2>4 DEF CancelBegin
    <3>2. pc'["loop"] = where
      BY <3>1, GotoLoop
    <3>3. suppressed' = (suppressed \/ kind.ctrlC) /\ cx'.kind = kind
      BY <1>1, <2>4 DEF CancelBegin, NoCx
    <3>4. suppressed' /\ ~Raising' => suppressed /\ ~Raising
      BY <2>2, <3>2, <3>3 DEF Raising
    <3>. QED
      BY <2>1, <3>2, <3>4, HoldKeeps DEF PromotePcs, ReadyPcs
  <2>. QED
    BY <2>3, <2>4
<1>2. ASSUME CancelForSendNow PROVE HandoverInv'
  <2>1. UNCHANGED <<q, running, suppressed>> /\ pc["loop"] = "cancelNow" /\ Goto("loop", "cancelLock")
    BY <1>2 DEF CancelForSendNow, stateVars
  <2>2. pc'["loop"] = "cancelLock" /\ ~Raising
    BY <2>1, GotoLoop DEF Raising
  <2>. QED
    BY <2>1, <2>2, HoldKeeps DEF PromotePcs, ReadyPcs
<1>3. ASSUME CancelAbortEarly PROVE HandoverInv'
  <2>1. /\ UNCHANGED <<q, running, suppressed, cx>> /\ pc["loop"] = "cancelSubs"
        /\ Goto("loop", "cancelLock")
    BY <1>3 DEF CancelAbortEarly, stateVars
  <2>2. pc'["loop"] = "cancelLock"
    BY <2>1, GotoLoop
  <2>3. Raising' = Raising
    BY <2>1, <2>2 DEF Raising
  <2>. QED
    BY <2>1, <2>2, <2>3, HoldKeeps DEF PromotePcs, ReadyPcs
<1>. QED
  BY <1>1, <1>2, <1>3

(* The locked section takes the front, so a drain with it, and with Ctrl+C *)
(* the wakes behind it.                                                    *)
LEMMA LockedHandover ==
    ASSUME IndInv, ConserveInv, HandoverInv, IndInv', ConserveInv', CancelLocked
    PROVE  HandoverInv'
<1>1. /\ FateMoves /\ NotQueued(Ids)
      /\ pc["loop"] = "cancelLock" /\ pc'["loop"] = "cancelEnd"
      /\ q # <<>> => q[1] \in cx'.victims
  BY LockedTakes DEF NotQueued
<1>2. ToSet(q') \subseteq Queued
  BY <1>1, CalmQueue
<1>3. ToSet(q') \cap cx'.victims = {}
  BY DEF ConserveInv, Conserved, Queued
<1>4. \A i \in Queued : q # <<>>
  BY EmptyDistinct DEF Queued
<1>5. KickInv'
  BY <1>1 DEF KickInv, ReadyPcs
<1>6. DrainInv'
  BY <1>1, <1>2, <1>3, <1>4 DEF HandoverInv, DrainInv, Queued
<1>7. BarInv'
  <2>. SUFFICES ASSUME suppressed', NEW i \in ToSet(q'), i \in Barred PROVE FALSE
    BY DEF BarInv, Queued
  <2>1. i \in Queued /\ q # <<>> /\ i # q[1]
    BY <1>1, <1>2, <1>3, <1>4
  <2>2. i \notin DrainTurns
    BY <2>1 DEF HandoverInv, DrainInv
  <2>3. suppressed /\ ~(cx.kind.rewind /\ rewindable)
    BY DEF CancelLocked
  <2>4. CASE ~cx.kind.ctrlC
    <3>1. i = running
      BY <2>1, <2>3, <2>4 DEF HandoverInv, BarInv, Raising
    <3>. QED
      BY <1>1, <2>1, <3>1, QueueFacts, Constants
  <2>5. CASE cx.kind.ctrlC
    <3>. DEFINE gone == WakesBehind(q)
    <3>1. q' = IF cx.kind.kill THEN <<>> ELSE Retain(Tail(q), Ids \ gone)
      BY <2>1, <2>3, <2>5 DEF CancelLocked
    <3>2. ~cx.kind.kill
      BY <3>1, EmptyDistinct
    <3>3. i \notin gone
      <4>1. Tail(q) \in Seq(Ids)
        BY <2>1, QueueFacts, HeadTailProperties
      <4>2. \A s \in Seq(Ids) : \A T : ToSet(Retain(s, T)) \subseteq T
        BY RetainType
      <4>3. ToSet(Retain(Tail(q), Ids \ gone)) \subseteq Ids \ gone
        BY <4>1, <4>2
      <4>. HIDE DEF gone
      <4>. QED
        BY <3>1, <3>2, <4>3
    <3>4. PICK k \in 1..Len(q) : q[k] = i
      BY <2>1, QueueFacts, ToSetByIndex DEF Queued
    <3>5. k \in 2..Len(q)
      BY <2>1, <3>4, QueueFacts
    <3>. QED
      BY <2>2, <3>3, <3>4, <3>5 DEF WakesBehind, Barred
  <2>. QED
    BY <2>4, <2>5
<1>. QED
  BY <1>5, <1>6, <1>7 DEF HandoverInv

(* A cancel ends; a completion is taken, and pops its own prompt.          *)
LEMMA LeaveKeeps ==
    ASSUME IndInv, ConserveInv, HandoverInv
    PROVE  /\ CancelEnd => HandoverInv'
           /\ Completion => HandoverInv'
           /\ PopFront => HandoverInv'
<1>1. ASSUME CancelEnd PROVE HandoverInv'
  <2>1. /\ UNCHANGED <<q, running, suppressed>> /\ pc["loop"] = "cancelEnd"
        /\ \E where \in {"reengage", "start"} : Goto("loop", where)
    BY <1>1 DEF CancelEnd, stateVars, Handle
  <2>2. pc'["loop"] \in {"reengage", "start"}
    BY <2>1, GotoLoop
  <2>3. ~Raising
    BY <2>1 DEF Raising
  <2>. QED
    BY <2>1, <2>2, <2>3, HoldKeeps DEF PromotePcs, ReadyPcs
<1>2. ASSUME Completion PROVE HandoverInv'
  <2>1. UNCHANGED <<q, running, suppressed>> /\ pc["loop"] = "idle" /\ Goto("loop", "pop")
    BY <1>2 DEF Completion, stateVars
  <2>2. pc'["loop"] = "pop" /\ ~Raising
    BY <2>1, GotoLoop DEF Raising
  <2>. QED
    BY <2>1, <2>2, HoldKeeps DEF PromotePcs, ReadyPcs
<1>3. ASSUME PopFront PROVE HandoverInv'
  <2>. DEFINE owned == q # <<>> /\ q[1] = cx.done
  <2>1. /\ UNCHANGED suppressed /\ pc["loop"] = "pop" /\ Goto("loop", "turnEnd")
        /\ q' = IF owned THEN Tail(q) ELSE q
        /\ running' = IF owned \/ running = cx.done THEN None ELSE running
    BY <1>3 DEF PopFront
  <2>2. pc'["loop"] = "turnEnd" /\ ~Raising
    BY <2>1, GotoLoop DEF Raising
  <2>3. CASE owned
    <3>1. ToSet(q') \subseteq Queued \ {q[1]}
      BY <2>1, <2>3, QueueFacts, TailDistinct DEF ConserveInv, Conserved, Queued
    <3>2. running # None => running = q[1]
      BY <2>1, QueueFacts
    <3>3. KickInv' /\ DrainInv'
      BY <2>2, <3>1 DEF HandoverInv, KickInv, DrainInv, ReadyPcs, Queued
    <3>4. ToSet(q') \cap Barred \subseteq {None} \/ ~suppressed
      BY <2>2, <3>1, <3>2 DEF HandoverInv, BarInv
    <3>5. BarInv'
      BY <2>1, <2>3, <3>4 DEF BarInv, Queued
    <3>. QED
      BY <3>3, <3>5 DEF HandoverInv
  <2>4. CASE ~owned
    <3>1. running' = running
      BY <2>1, <2>4, QueueFacts
    <3>. QED
      BY <2>1, <2>2, <2>4, <3>1, HoldKeeps DEF PromotePcs, ReadyPcs
  <2>. QED
    BY <2>3, <2>4
<1>. QED
  BY <1>1, <1>2, <1>3

(* Every step keeps the invariant. *)
LEMMA NextHandover ==
    ASSUME IndInv, ConserveInv, TurnInv, HandoverInv, IndInv', ConserveInv', [Next]_vars
    PROVE  HandoverInv'
<1>0. Calm => HandoverInv'
  BY CalmKeeps
<1>1. ASSUME UNCHANGED <<q, running, pc, cx, suppressed>> PROVE HandoverInv'
  BY <1>1 DEF HandoverInv, KickInv, DrainInv, BarInv, Raising, Queued
<1>2. CASE UserCommand
  BY <1>0, <1>2, InsertCalm, EditCalm, InterjectCalm, HandlerCalm, EntryKeeps DEF UserCommand
<1>3. CASE Wake
  BY <1>0, <1>3, InsertCalm, HandlerCalm DEF Wake
<1>4. CASE Handler
  BY <1>0, <1>4, EntryKeeps, LockedHandover, LeaveKeeps, InterjectCalm, HandlerCalm,
     DrainKeeps DEF Handler
<1>5. CASE \E p \in Procs : Promotion(p)
  BY <1>5, PromotionKeeps DEF Promotion
<1>6. CASE Starter
  BY <1>6, PromotionKeeps, ResumeKeeps DEF Starter
<1>7. CASE \E t \in Ids : TurnStep(t) \/ TurnWork(t)
  <2>1. ASSUME NEW t \in Ids, TurnStep(t) PROVE HandoverInv'
    BY <1>1, <2>1 DEF TurnStep, TurnBegin, TurnOpen, TurnLeaveScope, TurnFinish, stateVars
  <2>2. ASSUME NEW t \in Ids, TurnWork(t) PROVE HandoverInv'
    BY <1>0, <2>2, WorkCalm
  <2>. QED
    BY <1>7, <2>1, <2>2
<1>8. CASE UNCHANGED vars
  BY <1>1, <1>8 DEF vars, stateVars
<1>. QED
  BY <1>2, <1>3, <1>4, <1>5, <1>6, <1>7, <1>8 DEF Next

(* A session starts with nothing to hand over. *)
LEMMA InitHandover == Init => HandoverInv
<1>1. ToSet(<<>>) = {}
  BY EmptyDistinct
<1>. QED
  BY <1>1 DEF Init, HandoverInv, KickInv, DrainInv, BarInv, Queued

(* The invariants hold together in every state a session can reach. *)
THEOREM HandoverInvHolds == Spec => [](IndInv /\ ConserveInv /\ TurnInv /\ HandoverInv)
<1>1. Spec => [](IndInv /\ ConserveInv /\ TurnInv)
  BY TurnInvHolds
<1>2. /\ HandoverInv /\ IndInv /\ ConserveInv /\ TurnInv
      /\ IndInv' /\ ConserveInv' /\ [Next]_vars
      => HandoverInv'
  BY NextHandover
<1>. QED
  BY <1>1, <1>2, InitHandover, PTL DEF Spec

(* Whenever nothing is in progress, a prompt that waits, waits for a turn: *)
(* no interleaving of the loop with the starters leaves a queue that       *)
(* nobody will promote (maybe_start_running_task is reached after every    *)
(* change of the queue or the slot).                                       *)
THEOREM NothingStalls == Spec => []NoStall
<1>1. HandoverInv => NoStall
  BY DEF HandoverInv, KickInv, NoStall, Quiet, StartersQuiet, ReadyPcs, PromotePcs
<1>. QED
  BY <1>1, HandoverInvHolds, PTL

(* Nothing but the spawn of the front starts a turn. *)
LEMMA SpawnOnly ==
    ASSUME IndInv, ConserveInv, [Next]_vars
    PROVE  UNCHANGED spawned \/ \E p \in Procs : Spawn(p)
<1>0. Aside => UNCHANGED spawned
  BY DEF Aside
<1>1. CASE UserCommand
  <2>1. ASSUME NEW kind \in CancelKinds, CancelBegin(kind) PROVE UNCHANGED spawned
    BY <2>1 DEF CancelBegin
  <2>. QED
    BY <1>0, <1>1, <2>1, InsertAside, EditAside, InterjectAside, HandlerAside DEF UserCommand
<1>2. CASE Wake
  BY <1>0, <1>2, InsertAside, HandlerAside DEF Wake, Synthetic
<1>3. CASE Handler
  <2>1. CancelForSendNow \/ CancelAbortEarly \/ CancelLocked \/ CancelEnd \/ Completion \/ PopFront
        => UNCHANGED spawned
    BY DEF CancelForSendNow, CancelAbortEarly, CancelLocked, CancelEnd, Completion,
           PopFront, turnVars
  <2>. QED
    BY <1>0, <1>3, <2>1, InterjectAside, HandlerAside DEF Handler
<1>4. CASE \E p \in Procs : Promotion(p)
  BY <1>4 DEF Promotion, Start, Promote, turnVars
<1>5. CASE Starter
  BY <1>0, <1>5, PromotionAside, InsertAside DEF Starter
<1>6. CASE \E t \in Ids : TurnStep(t) \/ TurnWork(t)
  <2>1. ASSUME NEW t \in Ids, TurnStep(t) PROVE UNCHANGED spawned
    BY <2>1 DEF TurnStep, TurnBegin, TurnOpen, TurnLeaveScope, TurnFinish
  <2>. QED
    BY <1>0, <1>6, <2>1, WorkAside
<1>7. CASE UNCHANGED vars
  BY <1>7 DEF vars, turnVars
<1>. QED
  BY <1>1, <1>2, <1>3, <1>4, <1>5, <1>6, <1>7 DEF Next

(* While the Ctrl+C barrier is up, no completion wake and no notification  *)
(* starts a turn, whoever does the promotion and wherever the cancel is.   *)
THEOREM BarrierIsKept == Spec => BarrierHolds
<1>. DEFINE Barrier == \A i \in TaskWakes \cup WorkflowWakes \cup DrainTurns :
                        spawned'[i] > spawned[i] => ~suppressed
<1>1. ASSUME IndInv, TurnInv, HandoverInv, NEW p \in Procs, Spawn(p), suppressed
      PROVE  \A i \in Barred : spawned'[i] = spawned[i]
  <2>1. /\ lock = p /\ spawned' = [spawned EXCEPT ![q[1]] = @ + 1] /\ running = None /\ q # <<>>
    BY <1>1, Constants DEF Spawn, IndInv, LockInv
  <2>2. q[1] \in Queued /\ q[1] \in Ids
    <3>1. q \in Seq(Ids) /\ 1 \in 1..Len(q)
      BY <1>1, <2>1, QueueFacts, EmptySeq
    <3>. QED
      BY <1>1, <3>1, ToSetByIndex, QueueFacts DEF Queued
  <2>3. q[1] \notin Barred
    <3>1. CASE Raising
      <4>1. Queued \subseteq ResumeTurns
        BY <1>1, <2>1, <3>1 DEF Raising, TurnInv, RestInv, RestPcs
      <4>. QED
        BY <2>2, <4>1, Kinds DEF Barred
    <3>2. CASE ~Raising
      <4>1. Queued \cap Barred \subseteq {None}
        BY <1>1, <2>1, <3>2 DEF HandoverInv, BarInv
      <4>. QED
        BY <2>2, <4>1, Constants
    <3>. QED
      BY <3>1, <3>2
  <2>. QED
    BY <1>1, <2>1, <2>2, <2>3, KindsAreIds DEF IndInv, TypeOK, TurnType
<1>2. ASSUME IndInv, ConserveInv, TurnInv, HandoverInv, [Next]_vars PROVE Barrier
  <2>1. UNCHANGED spawned \/ \E p \in Procs : Spawn(p)
    BY <1>2, SpawnOnly
  <2>2. \A i \in Barred : spawned[i] \in Nat
    BY <1>2, KindsAreIds DEF IndInv, TypeOK, TurnType
  <2>. QED
    BY <1>1, <1>2, <2>1, <2>2 DEF Barred
<1>3. Spec => [][Next]_vars
  BY DEF Spec
<1>4. IndInv /\ ConserveInv /\ TurnInv /\ HandoverInv /\ [Next]_vars => [Barrier]_vars
  BY <1>2
<1>5. Spec => [][Barrier]_vars
  BY <1>3, <1>4, HandoverInvHolds, PTL
<1>. QED
  BY <1>5 DEF BarrierHolds

-----------------------------------------------------------------------------
(***************************************************************************)
(* The turn that an interjection was aimed at.                             *)
(***************************************************************************)
EndPcs == {"turnEnd", "flush"}

(* The buffered interjections were aimed at the turn that has the claim,   *)
(* no other completion is on its way, and a cancel has emptied the buffer. *)
AimInv ==
    /\ pc["loop"] \in EndPcs => \A i \in ToSet(interj) : aim[i] = cx.done
    /\ pc["loop"] \notin EndPcs /\ interj # <<>> =>
           /\ Claim # None
           /\ \A i \in ToSet(interj) : aim[i] = Claim
           /\ ToSet(chan) \subseteq {Claim}
           /\ pc["loop"] = "pop" => cx.done = Claim
    /\ pc["loop"] \in {"cancelSubs", "cancelLock", "cancelEnd"} => interj = <<>>

(* The loop stays where it is, or is not in the second half of a completion. *)
LoopAims ==
    \/ pc'["loop"] = pc["loop"] /\ cx' = cx
    \/ pc["loop"] \notin EndPcs /\ pc'["loop"] \notin EndPcs

(* An empty buffer is aimed at nobody. *)
LEMMA EmptyAim == ASSUME interj' = <<>> PROVE AimInv'
<1>1. ToSet(interj') = {}
  BY EmptyDistinct
<1>. QED
  BY <1>1 DEF AimInv

(* A step that leaves the buffer, the claim and the completions alone. *)
LEMMA AimSame ==
    ASSUME AimInv, UNCHANGED <<interj, aim, chan>>, Claim' = Claim,
           \/ pc'["loop"] = pc["loop"] /\ cx' = cx
           \/ pc["loop"] \notin EndPcs /\ pc'["loop"] \notin EndPcs \cup MidPcs
    PROVE  AimInv'
<1>1. CASE pc'["loop"] = pc["loop"] /\ cx' = cx
  BY <1>1 DEF AimInv
<1>2. CASE pc["loop"] \notin EndPcs /\ pc'["loop"] \notin EndPcs \cup MidPcs
  BY <1>2 DEF AimInv, MidPcs
<1>. QED
  BY <1>1, <1>2

(* Of those that leave the slot alone. *)
LEMMA AsideAims ==
    ASSUME AimInv, Aside, UNCHANGED <<interj, aim>>, LoopAims
    PROVE  AimInv'
<1>1. UNCHANGED <<running, lock, chan>> /\ (lock # None => q' = q) /\ LoopMoves
  BY DEF Aside
<1>2. Claim' = Claim
  BY <1>1 DEF Claim
<1>3. \/ pc'["loop"] = pc["loop"] /\ cx' = cx
      \/ pc["loop"] \notin EndPcs /\ pc'["loop"] \notin EndPcs \cup MidPcs
  BY <1>1 DEF LoopMoves, LoopAims
<1>. QED
  BY <1>1, <1>2, <1>3, AimSame

(* A handler of the loop goes on to anything but the end of a completion. *)
LEMMA GotoAims ==
    ASSUME IndInv, NEW p \in Procs, NEW where, Goto(p, where),
           p # "loop" => cx' = cx, p = "loop" => pc["loop"] \notin EndPcs /\ where \notin EndPcs
    PROVE  LoopAims
<1>1. pc'["loop"] = IF p = "loop" THEN where ELSE pc["loop"]
  BY GotoMoves
<1>. QED
  BY <1>1 DEF LoopAims

(* Commands that put something into the queue. *)
LEMMA InsertAims ==
    ASSUME IndInv, ConserveInv, AimInv
    PROVE  /\ \A i \in Prompts, now \in BOOLEAN : PromptUser(i, now) => AimInv'
           /\ \A i \in Synthetic, late \in BOOLEAN : PromptWake(i, late) => AimInv'
           /\ \A i \in Synthetic : GoalSummaryTurn(i) => AimInv'
           /\ \A i \in Synthetic : WorkflowCompletionTurn(i) => AimInv'
           /\ \A i \in ResumeTurns : ResumePlan(i) => AimInv'
<1>0. "loop" \in Procs
  BY DEF Procs
<1>1. ASSUME NEW where \in {"cancelNow", "start"}, Goto("loop", where), pc["loop"] = "idle"
      PROVE  LoopAims
  BY <1>0, <1>1, GotoAims DEF EndPcs
<1>2. ASSUME NEW i \in Prompts, NEW now \in BOOLEAN, PromptUser(i, now) PROVE AimInv'
  <2>1. /\ UNCHANGED <<interj, aim>> /\ pc["loop"] = "idle"
        /\ \E where \in {"cancelNow", "start"} : Goto("loop", where)
    BY <1>2 DEF PromptUser, Accept, Handle, sendVars
  <2>. QED
    BY <1>1, <1>2, <2>1, InsertAside, AsideAims
<1>3. ASSUME NEW i \in Synthetic, NEW late \in BOOLEAN, PromptWake(i, late) PROVE AimInv'
  <2>1. /\ UNCHANGED <<interj, aim>> /\ pc["loop"] = "idle"
        /\ UNCHANGED <<pc, cx>> \/ Goto("loop", "start")
    BY <1>3 DEF PromptWake, Accept, Handle, sendVars
  <2>2. LoopAims
    BY <1>1, <2>1 DEF LoopAims
  <2>. QED
    BY <1>3, <2>1, <2>2, InsertAside, AsideAims
<1>4. ASSUME NEW i \in Synthetic, GoalSummaryTurn(i) \/ WorkflowCompletionTurn(i) PROVE AimInv'
  <2>1. UNCHANGED <<interj, aim>> /\ pc["loop"] = "idle" /\ Goto("loop", "start")
    BY <1>4 DEF GoalSummaryTurn, WorkflowCompletionTurn, Accept, Handle, sendVars
  <2>. QED
    BY <1>1, <1>4, <2>1, InsertAside, AsideAims
<1>5. ASSUME NEW i \in ResumeTurns, ResumePlan(i) PROVE AimInv'
  <2>1. UNCHANGED <<interj, aim, cx>> /\ "resume" \in Starters /\ Goto("resume", "start")
    BY <1>5 DEF ResumePlan, sendVars
  <2>2. "resume" \in Procs
    BY <2>1 DEF Procs
  <2>3. LoopAims
    BY <2>1, <2>2, GotoAims
  <2>. QED
    BY <1>5, <2>1, <2>3, InsertAside, AsideAims
<1>. QED
  BY <1>2, <1>3, <1>4, <1>5

(* Edits of the queue by clients. *)
LEMMA EditAims ==
    ASSUME IndInv, ConserveInv, AimInv
    PROVE  /\ \A i \in Prompts : RemoveQueued(i) => AimInv'
           /\ \A i \in Prompts : InterjectQueued(i) => AimInv'
           /\ \A order : Reorder(order) => AimInv'
           /\ \A owner : ClearQueue(owner) => AimInv'
           /\ \A i \in Prompts : HoldCombineEdit(i) => AimInv'
           /\ \A i \in Prompts : ReleaseCombineEdit(i) => AimInv'
<1>1. ASSUME Aside, UNCHANGED <<interj, aim, pc, cx>> PROVE AimInv'
  BY <1>1, AsideAims DEF LoopAims
<1>2. ASSUME NEW i \in Prompts, InterjectQueued(i) PROVE AimInv'
  <2>1. /\ UNCHANGED <<interj, aim>> /\ pc["loop"] = "idle" /\ "loop" \in Procs
        /\ \E where \in {"cancelNow", "start"} : Goto("loop", where)
    BY <1>2 DEF InterjectQueued, Accept, Handle, sendVars, Procs
  <2>2. LoopAims
    BY <2>1, GotoAims DEF EndPcs
  <2>. QED
    BY <1>2, <2>1, <2>2, EditAside, AsideAims
<1>3. ASSUME NEW i \in Prompts, RemoveQueued(i) \/ HoldCombineEdit(i) \/ ReleaseCombineEdit(i)
      PROVE  AimInv'
  <2>1. Aside
    BY <1>3, EditAside
  <2>. QED
    BY <1>1, <1>3, <2>1 DEF RemoveQueued, HoldCombineEdit, ReleaseCombineEdit, sendVars
<1>4. ASSUME NEW order, Reorder(order) PROVE AimInv'
  BY <1>1, <1>4, EditAside DEF Reorder, sendVars
<1>5. ASSUME NEW owner, ClearQueue(owner) PROVE AimInv'
  BY <1>1, <1>5, EditAside DEF ClearQueue, sendVars
<1>. QED
  BY <1>2, <1>3, <1>4, <1>5

(* SessionCommand::Interject aims at the pinned turn, which has the claim, *)
(* and is taken only when no completion waits.                             *)
LEMMA InterjectAims ==
    ASSUME IndInv, ConserveInv, TurnInv, AimInv
    PROVE  /\ \A i \in Interjections : Interject(i) => AimInv'
           /\ Flush => AimInv'
           /\ Requeue => AimInv'
<1>1. ASSUME NEW i \in Interjections, Interject(i) PROVE AimInv'
  <2>1. pc["loop"] = "idle" /\ chan = <<>> /\ Aside /\ "loop" \in Procs
    BY <1>1, InterjectAside DEF Interject, Accept, Procs
  <2>2. CASE pin = None
    <3>1. UNCHANGED <<interj, aim>> /\ Goto("loop", "requeue")
      BY <1>1, <2>2 DEF Interject
    <3>2. LoopAims
      BY <2>1, <3>1, GotoAims DEF EndPcs
    <3>. QED
      BY <2>1, <3>1, <3>2, AsideAims
  <2>3. CASE pin # None
    <3>1. /\ interj' = Append(interj, i) /\ aim' = [aim EXCEPT ![i] = pin]
          /\ UNCHANGED <<pc, cx, running, lock, q, chan>>
      BY <1>1, <2>3 DEF Interject, stateVars
    <3>2. pin = Claim /\ Claim' = Claim
      BY <2>1, <2>3, <3>1 DEF TurnInv, PinInv, Claim
    <3>3. ToSet(interj') = ToSet(interj) \cup {i} /\ ToSet(chan) = {}
      BY <2>1, <3>1, AppendDistinct, EmptyDistinct DEF IndInv, TypeOK, SendType
    <3>4. \A k \in ToSet(interj) : aim[k] = Claim
      <4>1. CASE interj = <<>>
        BY <4>1, EmptyDistinct
      <4>2. CASE interj # <<>>
        BY <2>1, <4>2 DEF AimInv, EndPcs
      <4>. QED
        BY <4>1, <4>2
    <3>5. \A k \in ToSet(interj') : aim'[k] = Claim
      <4>1. ToSet(interj) \subseteq Interjections
        BY ToSetByIndex DEF IndInv, TypeOK, SendType
      <4>. QED
        BY <3>1, <3>2, <3>3, <3>4, <4>1 DEF IndInv, TypeOK, SendType
    <3>. QED
      BY <2>1, <2>3, <3>1, <3>2, <3>3, <3>5 DEF AimInv, EndPcs
  <2>. QED
    BY <2>2, <2>3
<1>2. ASSUME Flush PROVE AimInv'
  BY <1>2, EmptyAim DEF Flush
<1>3. ASSUME Requeue PROVE AimInv'
  <2>1. /\ UNCHANGED <<interj, aim>> /\ pc["loop"] = "requeue" /\ "loop" \in Procs
        /\ \E where \in {"start", "requeue"} : Goto("loop", where)
    BY <1>3 DEF Requeue, sendVars, Procs
  <2>2. LoopAims
    BY <2>1, GotoAims DEF EndPcs
  <2>. QED
    BY <1>3, <2>1, <2>2, InterjectAside, AsideAims
<1>. QED
  BY <1>1, <1>2, <1>3

(* Notifications, the goal at the end of a turn, the end of a send-now,    *)
(* shutdown.                                                               *)
LEMMA HandlerAims ==
    ASSUME IndInv, ConserveInv, AimInv
    PROVE  /\ Reengage => AimInv'
           /\ TurnEnd => AimInv'
           /\ DrainNotifications => AimInv'
           /\ Shutdown => AimInv'
           /\ \A e \in Notes : InjectNotification(e) => AimInv'
           /\ \A task \in TaskWakes : DropMonitorNotifications(task) => AimInv'
<1>0. "loop" \in Procs
  BY DEF Procs
<1>1. ASSUME Reengage PROVE AimInv'
  <2>1. UNCHANGED <<interj, aim>> /\ pc["loop"] = "reengage" /\ Goto("loop", "start")
    BY <1>1 DEF Reengage, sendVars
  <2>. QED
    BY <1>0, <1>1, <2>1, HandlerAside, GotoAims, AsideAims DEF EndPcs
<1>2. ASSUME TurnEnd PROVE AimInv'
  <2>1. /\ UNCHANGED <<interj, aim, cx>> /\ pc["loop"] = "turnEnd" /\ Goto("loop", "flush")
    BY <1>2 DEF TurnEnd
  <2>2. pc'["loop"] = "flush"
    BY <2>1, GotoLoop
  <2>. QED
    BY <2>1, <2>2 DEF AimInv, EndPcs
<1>3. ASSUME DrainNotifications PROVE AimInv'
  <2>1. /\ UNCHANGED <<interj, aim>> /\ pc["loop"] = "drain"
        /\ \E where \in {"idle", "start"} : Goto("loop", where)
    BY <1>3 DEF DrainNotifications, Handle
  <2>. QED
    BY <1>0, <1>3, <2>1, HandlerAside, GotoAims, AsideAims DEF EndPcs
<1>4. ASSUME Shutdown PROVE AimInv'
  <2>1. UNCHANGED <<interj, aim>> /\ pc["loop"] = "idle" /\ Goto("loop", "ended")
    BY <1>4 DEF Shutdown, sendVars, Accept, Handle
  <2>. QED
    BY <1>0, <1>4, <2>1, HandlerAside, GotoAims, AsideAims DEF EndPcs
<1>5. ASSUME NEW e \in Notes, InjectNotification(e) PROVE AimInv'
  <2>1. /\ UNCHANGED <<interj, aim>> /\ pc["loop"] = "idle"
        /\ UNCHANGED <<pc, cx>> \/ Goto("loop", "drain")
    BY <1>5 DEF InjectNotification, Accept, Handle
  <2>2. CASE UNCHANGED <<pc, cx>>
    BY <1>5, <2>1, <2>2, HandlerAside, AsideAims DEF LoopAims
  <2>3. CASE Goto("loop", "drain")
    BY <1>0, <1>5, <2>1, <2>3, HandlerAside, GotoAims, AsideAims DEF EndPcs
  <2>. QED
    BY <2>1, <2>2, <2>3
<1>6. ASSUME NEW task \in TaskWakes, DropMonitorNotifications(task) PROVE AimInv'
  BY <1>6, HandlerAside, AsideAims DEF DropMonitorNotifications, LoopAims
<1>. QED
  BY <1>1, <1>2, <1>3, <1>4, <1>5, <1>6

(* A promotion finds nothing buffered, or the loop at the end of a         *)
(* completion; the spawn keeps the claim.                                  *)
LEMMA PromotionAims ==
    ASSUME IndInv, ConserveInv, AimInv
    PROVE  /\ \A p \in Procs : Start(p) => AimInv'
           /\ \A p \in Procs : Promote(p) => AimInv'
           /\ \A p \in Procs : Spawn(p) => AimInv'
           /\ McpReady => AimInv'
<1>0. ASSUME NEW p \in Procs, pc[p] \notin EndPcs, UNCHANGED cx,
             Return(p) \/ \E where \in PromotePcs : Goto(p, where)
      PROVE  /\ LoopAims /\ (pc'["loop"] # pc["loop"] => pc'["loop"] \notin MidPcs)
  <2>1. PICK where : Goto(p, where) /\ (p = "loop" => where \in PromotePcs \cup ReadyPcs)
    BY <1>0 DEF Return, IndInv, TypeOK, LoopType, CxType, ReadyPcs
  <2>2. LoopAims
    BY <1>0, <2>1, GotoAims DEF EndPcs, PromotePcs, ReadyPcs
  <2>3. pc'["loop"] = IF p = "loop" THEN where ELSE pc["loop"]
    BY <2>1, GotoMoves
  <2>. QED
    BY <2>1, <2>2, <2>3 DEF MidPcs, PromotePcs, ReadyPcs
<1>1. ASSUME NEW p \in Procs, Start(p) PROVE AimInv'
  <2>1. /\ UNCHANGED <<interj, aim, cx>> /\ pc[p] = "start"
        /\ Return(p) \/ \E where \in PromotePcs : Goto(p, where)
    BY <1>1 DEF Start, sendVars, PromotePcs
  <2>2. LoopAims
    BY <1>0, <2>1 DEF EndPcs
  <2>. QED
    BY <1>1, <2>1, <2>2, PromotionAside, AsideAims
<1>2. ASSUME NEW p \in Procs, Promote(p) PROVE AimInv'
  <2>1. /\ UNCHANGED <<interj, aim, cx, running, chan>> /\ pc[p] = "promote" /\ lock = None
        /\ Return(p) \/ \E where \in PromotePcs : Goto(p, where)
    BY <1>2 DEF Promote, LockFree, sendVars, PromotePcs
  <2>2. LoopAims /\ (pc'["loop"] # pc["loop"] => pc'["loop"] \notin MidPcs)
    BY <1>0, <2>1 DEF EndPcs
  <2>3. CASE NothingToPromote
    <3>1. UNCHANGED <<q, lock>>
      BY <1>2, <2>3 DEF Promote
    <3>2. Claim' = Claim
      BY <2>1, <3>1 DEF Claim
    <3>. QED
      BY <2>1, <2>2, <3>2, AimSame DEF LoopAims
  <2>4. CASE ~NothingToPromote /\ pc["loop"] \in EndPcs
    BY <2>1, <2>2, <2>4 DEF AimInv, LoopAims, EndPcs
  <2>5. CASE ~NothingToPromote /\ pc["loop"] \notin EndPcs
    <3>1. Claim = None
      BY <2>1, <2>5 DEF NothingToPromote, Claim
    <3>2. interj' = <<>>
      BY <2>1, <2>5, <3>1 DEF AimInv
    <3>. QED
      BY <3>2, EmptyAim
  <2>. QED
    BY <2>3, <2>4, <2>5
<1>3. ASSUME NEW p \in Procs, Spawn(p) PROVE AimInv'
  <2>1. /\ UNCHANGED <<interj, aim, cx, chan>> /\ pc[p] = "spawn" /\ Return(p)
        /\ lock = p /\ lock' = None /\ running' = q[1]
    BY <1>3 DEF Spawn, sendVars
  <2>2. Claim' = Claim
    BY <2>1, Constants DEF Claim
  <2>3. LoopAims /\ (pc'["loop"] # pc["loop"] => pc'["loop"] \notin MidPcs)
    BY <1>0, <2>1 DEF EndPcs
  <2>. QED
    BY <2>1, <2>2, <2>3, AimSame DEF LoopAims
<1>4. ASSUME McpReady PROVE AimInv'
  <2>1. UNCHANGED <<interj, aim, cx>> /\ Goto("mcp", "start") /\ "mcp" \in Procs \ {"loop"}
    BY <1>4 DEF McpReady, sendVars, Procs
  <2>2. LoopAims
    BY <2>1, GotoAims
  <2>. QED
    BY <1>4, <2>1, <2>2, PromotionAside, AsideAims
<1>. QED
  BY <1>1, <1>2, <1>3, <1>4

(* A cancel empties the buffer first and nothing fills it before its end;  *)
(* the completion that is taken is that of the claim.                      *)
LEMMA CancelAims ==
    ASSUME IndInv, ConserveInv, TurnInv, AimInv
    PROVE  /\ \A kind \in CancelKinds : CancelBegin(kind) => AimInv'
           /\ CancelForSendNow => AimInv'
           /\ CancelAbortEarly => AimInv'
           /\ CancelLocked => AimInv'
           /\ CancelEnd => AimInv'
           /\ Completion => AimInv'
           /\ PopFront => AimInv'
<1>1. ASSUME NEW kind \in CancelKinds, CancelBegin(kind) PROVE AimInv'
  BY <1>1, EmptyAim DEF CancelBegin
<1>2. ASSUME CancelForSendNow PROVE AimInv'
  BY <1>2, EmptyAim DEF CancelForSendNow
<1>3. ASSUME CancelAbortEarly \/ CancelLocked \/ CancelEnd PROVE AimInv'
  <2>1. UNCHANGED interj /\ pc["loop"] \in {"cancelSubs", "cancelLock", "cancelEnd"}
    BY <1>3 DEF CancelAbortEarly, CancelLocked, CancelEnd, sendVars
  <2>2. interj' = <<>>
    BY <2>1 DEF AimInv
  <2>. QED
    BY <2>2, EmptyAim
<1>4. ASSUME Completion PROVE AimInv'
  <2>1. /\ UNCHANGED <<interj, aim, q, running, lock>> /\ pc["loop"] = "idle" /\ chan # <<>>
        /\ chan' = Tail(chan) /\ cx'.done = Head(chan) /\ Goto("loop", "pop")
    BY <1>4 DEF Completion, sendVars, stateVars, NoCx
  <2>2. pc'["loop"] = "pop" /\ Claim' = Claim
    BY <2>1, GotoLoop DEF Claim
  <2>3. ToSet(chan) = {Head(chan)} \cup ToSet(Tail(chan))
    BY <2>1, HeadTail DEF IndInv, TypeOK, LoopType
  <2>4. CASE interj = <<>>
    BY <2>1, <2>4, EmptyAim
  <2>5. CASE interj # <<>>
    <3>1. /\ Claim # None /\ ToSet(chan) \subseteq {Claim}
          /\ \A i \in ToSet(interj) : aim[i] = Claim
      BY <2>1, <2>5 DEF AimInv, EndPcs
    <3>2. Head(chan) = Claim /\ ToSet(chan') \subseteq {Claim}
      BY <2>1, <2>3, <3>1
    <3>. QED
      BY <2>1, <2>2, <3>1, <3>2 DEF AimInv, EndPcs
  <2>. QED
    BY <2>4, <2>5
<1>5. ASSUME PopFront PROVE AimInv'
  <2>1. UNCHANGED <<interj, aim, cx>> /\ pc["loop"] = "pop" /\ Goto("loop", "turnEnd")
    BY <1>5 DEF PopFront, sendVars
  <2>2. pc'["loop"] = "turnEnd"
    BY <2>1, GotoLoop
  <2>3. CASE interj = <<>>
    BY <2>1, <2>3, EmptyAim
  <2>4. CASE interj # <<>>
    BY <2>1, <2>2, <2>4 DEF AimInv, EndPcs
  <2>. QED
    BY <2>3, <2>4
<1>. QED
  BY <1>1, <1>2, <1>3, <1>4, <1>5

(* The turn tasks: the one that finishes while something is buffered is    *)
(* the one that has the claim.                                             *)
LEMMA TurnAims ==
    ASSUME IndInv, ConserveInv, TurnInv, AimInv, NEW t \in Ids
    PROVE  /\ TurnStep(t) => AimInv'
           /\ TurnWork(t) => AimInv'
<1>1. ASSUME UNCHANGED <<interj, aim, chan, q, running, lock, pc, cx>> PROVE AimInv'
  BY <1>1, AimSame DEF Claim
<1>2. ASSUME TurnBegin(t) \/ TurnOpen(t) \/ TurnLeaveScope(t) PROVE AimInv'
  BY <1>1, <1>2 DEF TurnBegin, TurnOpen, TurnLeaveScope, sendVars, stateVars
<1>3. ASSUME TurnFinish(t) PROVE AimInv'
  <2>1. /\ UNCHANGED <<interj, aim, q, running, lock, pc, cx>> /\ chan' = Append(chan, t)
        /\ turn[t] \in Live
    BY <1>3 DEF TurnFinish, sendVars, stateVars, Live
  <2>2. Claim' = Claim
    BY <2>1 DEF Claim
  <2>3. CASE pc["loop"] \in EndPcs
    BY <2>1, <2>3 DEF AimInv, EndPcs
  <2>4. CASE interj = <<>>
    BY <2>1, <2>4, EmptyAim
  <2>5. CASE pc["loop"] \notin EndPcs /\ interj # <<>>
    <3>1. t = running
      BY <2>1, <2>5 DEF TurnInv, LiveInv, AimInv
    <3>2. t = Claim
      BY <3>1, Constants DEF Claim, IndInv, LockInv
    <3>3. ToSet(chan') = ToSet(chan) \cup {t}
      BY <2>1, AppendDistinct DEF IndInv, TypeOK, LoopType
    <3>4. ToSet(chan') \subseteq {Claim}
      BY <2>5, <3>2, <3>3 DEF AimInv
    <3>. QED
      BY <2>1, <2>2, <2>5, <3>4 DEF AimInv
  <2>. QED
    BY <2>3, <2>4, <2>5
<1>4. ASSUME TurnWork(t) PROVE AimInv'
  <2>1. CASE TurnInject(t)
    BY <2>1, EmptyAim DEF TurnInject
  <2>2. CASE ~TurnInject(t)
    <3>1. UNCHANGED <<interj, aim, pc, cx>>
      BY <1>4, <2>2 DEF TurnWork, TurnOutput, TurnWait, TurnGoal, TurnRound, TurnConsumes,
                        TurnReportsWorkflow, sendVars
    <3>2. Aside
      BY <1>4, WorkAside
    <3>. QED
      BY <3>1, <3>2, AsideAims DEF LoopAims
  <2>. QED
    BY <2>1, <2>2
<1>. QED
  BY <1>2, <1>3, <1>4 DEF TurnStep

(* Every step keeps the aim. *)
LEMMA NextAims ==
    ASSUME IndInv, ConserveInv, TurnInv, AimInv, [Next]_vars
    PROVE  AimInv'
<1>1. CASE UserCommand
  BY <1>1, InsertAims, EditAims, InterjectAims, HandlerAims, CancelAims DEF UserCommand
<1>2. CASE Wake
  BY <1>2, InsertAims, HandlerAims DEF Wake, Synthetic
<1>3. CASE Handler
  BY <1>3, CancelAims, HandlerAims, InterjectAims DEF Handler
<1>4. CASE \E p \in Procs : Promotion(p)
  BY <1>4, PromotionAims DEF Promotion
<1>5. CASE Starter
  BY <1>5, PromotionAims, InsertAims DEF Starter
<1>6. CASE \E t \in Ids : TurnStep(t) \/ TurnWork(t)
  BY <1>6, TurnAims
<1>7. CASE UNCHANGED vars
  BY <1>7, AimSame DEF vars, stateVars, sendVars, Claim
<1>. QED
  BY <1>1, <1>2, <1>3, <1>4, <1>5, <1>6, <1>7 DEF Next

(* "INVARIANT: this flush must only ever see interjections aimed at the    *)
(* turn that just completed": whatever is sent, cancelled and promoted     *)
(* between an interjection and the completion of its turn, the flush of    *)
(* the completion arm finds no other turn's interjection.                  *)
THEOREM FlushIsOwn == Spec => []FlushOwnTurn
<1>1. Init => AimInv
  BY EmptyDistinct DEF Init, AimInv, EndPcs, Procs
<1>2. IndInv /\ ConserveInv /\ TurnInv /\ AimInv /\ [Next]_vars => AimInv'
  BY NextAims
<1>3. AimInv => FlushOwnTurn
  BY DEF AimInv, FlushOwnTurn, EndPcs
<1>. QED
  BY <1>1, <1>2, <1>3, TurnInvHolds, PTL DEF Spec

-----------------------------------------------------------------------------
(***************************************************************************)
(* Notifications.                                                          *)
(***************************************************************************)
(* No Ctrl+C asks for a rewind.  One that does takes down the barrier it   *)
(* has raised and still skips the drain (CtrlCDefersNotes is violated), so *)
(* the theorem below is about the sessions in which none is sent.          *)
CtrlCNeverRewinds == \A kind \in CancelKinds : ~(kind.ctrlC /\ kind.rewind)

(* The prompts that neither the promotion drops as stale nor a turn as     *)
(* consumed, nor a Ctrl+C.                                                 *)
Firm == Ids \ CompletionWakes

(* There is something to tell: of what has been put aside, the late        *)
(* completions alone may wait for a drain by chance.                       *)
Stranded ==
    \/ monBuf # <<>>
    \/ \E n \in ToSet(notes) : n \notin Ids \/ fate[n] # "tooLate"

(* A turn will end, whose completion drains.                               *)
Covered == running # None \/ lock # None \/ Queued \cap Firm # {}

(* The loop itself is at a drain or comes to one before it is idle.        *)
Draining == pc["loop"] = "drain" \/ cx.after = "drain"

NotesInv ==
    pc["loop"] # "ended" /\ ~suppressed /\ Stranded => Covered \/ Draining

(* A turn that looks active is alive and has the slot, or the cancel that  *)
(* ends it is in its locked section.                                       *)
ActiveInv ==
    turnActive => \/ running # None /\ turn[running] \in Live
                  \/ pc["loop"] \in {"cancelLock", "cancelEnd"}

(* What a handler has decided about its end: a completion drains, a cancel *)
(* does unless it is a Ctrl+C, whose barrier is up, or that of a send-now. *)
AfterInv ==
    /\ pc["loop"] = "idle" => cx.after = "idle"
    /\ pc["loop"] = "pop" => cx.after = "drain"
    /\ pc["loop"] = "cancelNow" => cx.kind = NoCancel
    /\ pc["loop"] = "cancelSubs" => ~cx.sendNow
    /\ pc["loop"] \in {"cancelSubs", "cancelLock"} =>
           /\ cx.sendNow => cx.kind = NoCancel
           /\ ~cx.sendNow => cx.kind \in CancelKinds
           /\ cx.kind.ctrlC => suppressed
           /\ ~cx.sendNow /\ ~cx.kind.ctrlC => cx.after = "drain"

(* The prompt for which a send-now cancels the running turn is queued      *)
(* behind it, and its turn comes in its place.                             *)
Pressing == (Queued \cap Prompts) \ {running} # {}
NowInv ==
    /\ pc["loop"] = "cancelNow" \/ (pc["loop"] = "cancelLock" /\ cx.sendNow)
       => running # None /\ Pressing
    /\ pc["loop"] = "reengage" \/ (pc["loop"] = "cancelEnd" /\ cx.sendNow)
       => Covered

PendingInv == NotesInv /\ ActiveInv /\ AfterInv /\ NowInv

(* Prompts and the resumptions of plans are firm. *)
LEMMA FirmKinds ==
    /\ Prompts \subseteq Firm /\ ResumeTurns \subseteq Firm /\ Firm \subseteq Ids
    /\ Firm \cap WorkflowWakes = {} /\ Firm \cap (TaskWakes \cup SubagentWakes) = {}
<1>1. Prompts \cap CompletionWakes = {}
  BY Kinds DEF UserMessages, Synthetic, CompletionWakes
<1>2. ResumeTurns \cap CompletionWakes = {}
  <2>. DEFINE kinds == <<Prompts, Interjections, TaskWakes, SubagentWakes,
                         WorkflowWakes, TimerWakes, GoalTurns, DrainTurns,
                         ResumeTurns>>
  <2>1. \A a, b \in 1..9 : a # b => kinds[a] \cap kinds[b] = {}
    BY SessionAssumption DEF SessionAssumption
  <2>2. kinds[9] \cap kinds[3] = {} /\ kinds[9] \cap kinds[4] = {} /\ kinds[9] \cap kinds[5] = {}
    BY <2>1
  <2>. QED
    BY <2>2 DEF CompletionWakes
<1>. QED
  BY <1>1, <1>2, KindsAreIds, InterjectionsAreIds DEF Firm, CompletionWakes

(* That an admission came too late is final. *)
LateStays == \A n \in Ids : fate[n] = "tooLate" => fate'[n] = "tooLate"
LEMMA MovesLate == FateMoves => LateStays
BY DEF FateMoves, LateStays

(* A step that takes what it puts aside from the two buffers, or puts a    *)
(* late completion aside, brings nothing new to tell.                      *)
LEMMA NotesMove ==
    ASSUME IndInv, LateStays, monBuf' # <<>> => monBuf # <<>>,
           \A n \in ToSet(notes') : \/ n \in ToSet(notes) \cup ToSet(monBuf)
                                    \/ n \in Ids /\ fate'[n] = "tooLate"
    PROVE  Stranded' => Stranded
<1>1. \A n \in ToSet(monBuf) : monBuf # <<>>
  BY EmptyDistinct
<1>2. ASSUME NEW n \in ToSet(notes'), n \notin Ids \/ fate'[n] # "tooLate" PROVE Stranded
  <2>1. n \in ToSet(notes) \/ monBuf # <<>>
    BY <1>1, <1>2
  <2>2. n \notin Ids \/ fate[n] # "tooLate"
    BY <1>2 DEF LateStays
  <2>. QED
    BY <2>1, <2>2 DEF Stranded
<1>3. Stranded' => monBuf' # <<>> \/ \E n \in ToSet(notes') : n \notin Ids \/ fate'[n] # "tooLate"
  BY DEF Stranded
<1>. QED
  BY <1>2, <1>3 DEF Stranded

(* Nor does one that leaves both buffers. *)
LEMMA NotesSame ==
    ASSUME IndInv, LateStays, UNCHANGED <<notes, monBuf>>
    PROVE  Stranded' => Stranded
<1>1. \A n \in ToSet(notes') : n \in ToSet(notes) \cup ToSet(monBuf)
  OBVIOUS
<1>. QED
  BY <1>1, NotesMove

(* What takes in the monitor buffer has nothing else. *)
LEMMA AbsorbRange ==
    ASSUME IndInv
    PROVE  /\ AbsorbMonitors(notes) \in Seq(Notes)
           /\ ToSet(AbsorbMonitors(notes)) \subseteq ToSet(notes) \cup ToSet(monBuf)
<1>1. notes \in Seq(Notes) /\ monBuf \in Seq(Notes) /\ MaxNotes \in Nat
  BY Constants DEF IndInv, TypeOK, StateType, SendType, Notes
<1>. QED
  BY <1>1, PushCappedRange, AbsorbType DEF AbsorbMonitors, IndInv, TypeOK

-----------------------------------------------------------------------------
(***************************************************************************)
(* Steps that leave the slot alone.                                        *)
(***************************************************************************)
(* The messages of S that are queued stay queued. *)
StayQueued(S) == \A i \in S : fate[i] = "pending" => fate'[i] = "pending"

(* What stays in the queue in a step that leaves the slot alone. *)
LEMMA AsideQueue ==
    ASSUME IndInv, ConserveInv, IndInv', ConserveInv', Aside,
           NEW S \in SUBSET Ids, StayQueued(S)
    PROVE  Queued \cap S \subseteq ToSet(q')
<1>. SUFFICES ASSUME NEW i \in Queued, i \in S PROVE i \in ToSet(q')
  OBVIOUS
<1>1. fate[i] = "pending" /\ i \notin cx.victims /\ i \in Ids
  BY Unanswered, QueueFacts DEF ConserveInv, Conserved
<1>2. fate'[i] = "pending"
  BY <1>1 DEF StayQueued
<1>3. i \in ToSet(q') \cup cx'.victims
  BY <1>1, <1>2 DEF ConserveInv, Conserved, Queued
<1>4. cx'.victims \subseteq cx.victims
  BY DEF Aside, LoopMoves, ConserveInv, HandsInv, MidPcs
<1>. QED
  BY <1>1, <1>3, <1>4

(* So does the turn that will drain. *)
LEMMA AsideCovers ==
    ASSUME IndInv, ConserveInv, IndInv', ConserveInv', Aside,
           running = None => StayQueued(Firm)
    PROVE  Covered => Covered'
<1>1. UNCHANGED <<running, lock>>
  BY DEF Aside
<1>2. CASE running = None
  <2>1. Queued \cap Firm \subseteq ToSet(q')
    BY <1>2, FirmKinds, AsideQueue
  <2>. QED
    BY <1>1, <2>1 DEF Covered, Queued
<1>3. CASE running # None
  BY <1>1, <1>3 DEF Covered
<1>. QED
  BY <1>2, <1>3

(* Notifications that were covered stay so, and no others come. *)
LEMMA NotesKept ==
    ASSUME NotesInv, Stranded' => Stranded, suppressed => suppressed',
           Covered => Covered', pc["loop"] = "ended" => pc'["loop"] = "ended",
           Draining => Draining' \/ Covered'
    PROVE  NotesInv'
BY DEF NotesInv

(* A step that leaves the slot alone does not end an active turn. *)
LEMMA AsideActive ==
    ASSUME IndInv, ActiveInv, Aside, turnActive' => turnActive
    PROVE  ActiveInv'
<1>1. UNCHANGED <<running, turn>> /\ LoopMoves
  BY DEF Aside
<1>2. pc["loop"] \in {"cancelLock", "cancelEnd"} => pc'["loop"] = pc["loop"]
  BY <1>1 DEF LoopMoves, MidPcs
<1>. QED
  BY <1>1, <1>2 DEF ActiveInv

(* Where a handler has not decided anything about a cancel. *)
PlainPcs == LoopPcs \ {"idle", "pop", "cancelNow", "cancelSubs", "cancelLock", "cancelEnd",
                       "reengage"}
LEMMA Undecided ==
    ASSUME pc'["loop"] \in PlainPcs \/ (pc'["loop"] = "idle" /\ cx'.after = "idle")
    PROVE  AfterInv' /\ NowInv'
<1>1. AfterInv'
  BY DEF PlainPcs, AfterInv
<1>2. NowInv'
  BY DEF PlainPcs, NowInv
<1>. QED
  BY <1>1, <1>2

(* Another task's step leaves the decisions of the loop as they are. *)
LEMMA Decided ==
    ASSUME AfterInv, NowInv, pc'["loop"] = pc["loop"], cx' = cx, suppressed => suppressed',
           running # None => running' = running,
           Covered => Covered', running # None /\ Pressing => Pressing'
    PROVE  AfterInv' /\ NowInv'
<1>1. AfterInv'
  BY DEF AfterInv
<1>2. NowInv'
  <2>1. /\ pc'["loop"] = "cancelNow" \/ (pc'["loop"] = "cancelLock" /\ cx'.sendNow)
           => running' # None /\ Pressing'
    BY DEF NowInv
  <2>2. /\ pc'["loop"] = "reengage" \/ (pc'["loop"] = "cancelEnd" /\ cx'.sendNow) => Covered'
    BY DEF NowInv
  <2>. QED
    BY <2>1, <2>2 DEF NowInv
<1>. QED
  BY <1>1, <1>2

(* The steps that leave the slot alone, cover no less than before and put  *)
(* nothing aside, by another task or at the loop's idle place.             *)
LEMMA AsidePending ==
    ASSUME IndInv, ConserveInv, IndInv', ConserveInv', PendingInv, Aside,
           UNCHANGED turnActive, Stranded' => Stranded, suppressed => suppressed',
           pc'["loop"] = pc["loop"], cx' = cx,
           pc["loop"] # "idle" \/ running = None => StayQueued(Firm)
    PROVE  PendingInv'
<1>1. Covered => Covered'
  BY AsideCovers
<1>2. NotesInv'
  BY <1>1, NotesKept DEF PendingInv, Draining
<1>3. ActiveInv'
  BY AsideActive DEF PendingInv
<1>4. AfterInv' /\ NowInv'
  <2>1. CASE pc["loop"] = "idle"
    BY <2>1, Undecided DEF PendingInv, AfterInv
  <2>2. CASE pc["loop"] # "idle"
    <3>1. Queued \cap Firm \subseteq ToSet(q') /\ running' = running
      BY <2>2, FirmKinds, AsideQueue DEF Aside
    <3>2. Pressing => Pressing'
      BY <3>1, FirmKinds DEF Pressing, Queued
    <3>. QED
      BY <1>1, <3>1, <3>2, Decided DEF PendingInv
  <2>. QED
    BY <2>1, <2>2
<1>. QED
  BY <1>2, <1>3, <1>4 DEF PendingInv

(* A handler goes on to a place where nothing is decided.  *)
LEMMA MovePending ==
    ASSUME IndInv, ConserveInv, IndInv', ConserveInv', PendingInv, Aside,
           UNCHANGED turnActive, Stranded' => Stranded, suppressed => suppressed',
           pc'["loop"] \in PlainPcs, pc["loop"] # "ended",
           Draining => Draining', running = None => StayQueued(Firm)
    PROVE  PendingInv'
<1>1. Covered => Covered'
  BY AsideCovers
<1>2. NotesInv'
  BY <1>1, NotesKept DEF PendingInv
<1>3. ActiveInv'
  BY AsideActive DEF PendingInv
<1>4. AfterInv' /\ NowInv'
  BY Undecided
<1>. QED
  BY <1>2, <1>3, <1>4 DEF PendingInv

(* At its idle place the loop has no drain before it. *)
LEMMA IdleDrains == PendingInv /\ pc["loop"] = "idle" => ~Draining
BY DEF PendingInv, AfterInv, Draining

(* New messages and answers. *)
LEMMA ResolveStays ==
    ASSUME IndInv, NEW S, NEW f, fate' = Resolve(S, f),
           f = "pending" \/ \A i \in S : i \in Ids => fate[i] # "pending"
    PROVE  StayQueued(Ids)
<1>1. \A i \in Ids : fate'[i] = IF i \in S THEN f ELSE fate[i]
  BY ResolveIs
<1>. QED
  BY <1>1 DEF StayQueued

(* In particular the firm ones. *)
LEMMA StayFirm == StayQueued(Ids) => StayQueued(Firm)
BY FirmKinds DEF StayQueued

(* A prompt is put behind the running turn, at once or by a send-now. *)
LEMMA PressPending ==
    ASSUME IndInv, ConserveInv, IndInv', ConserveInv', PendingInv, Aside,
           UNCHANGED turnActive, pc["loop"] = "idle",
           NEW where \in {"cancelNow", "start"}, Handle(where, "idle"),
           where = "cancelNow" => running # None,
           NEW i \in Prompts, fate'[i] = "pending", i # running
    PROVE  PendingInv'
<1>1. cx' = [NoCx EXCEPT !.after = "idle"] /\ Goto("loop", where)
  BY DEF Handle
<1>2. pc'["loop"] = where
  BY <1>1, GotoLoop
<1>3. cx'.kind = NoCancel /\ UNCHANGED running
  BY <1>1 DEF NoCx, Aside
<1>4. i \in ToSet(q')
  <2>1. cx'.victims = {}
    BY <1>1 DEF NoCx
  <2>. QED
    BY <2>1, InterjectionsAreIds DEF ConserveInv, Conserved, Queued
<1>5. Covered'
  BY <1>4, FirmKinds DEF Covered, Queued
<1>6. Pressing'
  BY <1>3, <1>4 DEF Pressing, Queued
<1>7. NotesInv'
  BY <1>5 DEF NotesInv
<1>8. ActiveInv'
  BY AsideActive DEF PendingInv
<1>9. AfterInv'
  BY <1>2, <1>3 DEF AfterInv
<1>10. NowInv'
  BY <1>2, <1>3, <1>6 DEF NowInv
<1>. QED
  BY <1>7, <1>8, <1>9, <1>10 DEF PendingInv

(* The loop takes a wake from its idle place and goes on to a promotion. *)
LEMMA WakePending ==
    ASSUME IndInv, ConserveInv, IndInv', ConserveInv', PendingInv, Aside,
           UNCHANGED <<turnActive, notes, monBuf, suppressed>>, pc["loop"] = "idle",
           NEW where \in {"start", "requeue"}, Goto("loop", where),
           NEW i, NEW f, fate' = Resolve({i}, f), fate[i] = "new"
    PROVE  PendingInv'
<1>1. pc'["loop"] \in PlainPcs
  BY GotoLoop DEF PlainPcs, LoopPcs
<1>2. Stranded' => Stranded
  BY NotesSame, MovesLate DEF Aside
<1>3. StayQueued(Firm)
  <2>1. \A k \in {i} : k \in Ids => fate[k] # "pending"
    OBVIOUS
  <2>. QED
    BY <2>1, ResolveStays, StayFirm
<1>. QED
  BY <1>1, <1>2, <1>3, IdleDrains, MovePending

(* New entries of the queue. *)
LEMMA InsertPending ==
    ASSUME IndInv, ConserveInv, IndInv', ConserveInv', PendingInv
    PROVE  /\ \A i \in Prompts, now \in BOOLEAN : PromptUser(i, now) => PendingInv'
           /\ \A i \in TaskWakes \cup SubagentWakes \cup TimerWakes, late \in BOOLEAN :
                  PromptWake(i, late) => PendingInv'
           /\ \A i \in GoalTurns : GoalSummaryTurn(i) => PendingInv'
           /\ \A i \in WorkflowWakes : WorkflowCompletionTurn(i) => PendingInv'
           /\ \A i \in ResumeTurns : ResumePlan(i) => PendingInv'
<1>1. ASSUME NEW i \in Prompts, NEW now \in BOOLEAN, PromptUser(i, now) PROVE PendingInv'
  <2>1. /\ pc["loop"] = "idle" /\ fate[i] = "new" /\ UNCHANGED turnActive
        /\ \E where \in {"cancelNow", "start"} :
               Handle(where, "idle") /\ (where = "cancelNow" => running # None)
    BY <1>1 DEF PromptUser, Accept, turnVars
  <2>2. Aside
    BY <1>1, InsertAside
  <2>3. fate'[i] = "pending"
    <3>1. i \in DOMAIN fate
      BY InterjectionsAreIds DEF IndInv, TypeOK, EndType
    <3>. QED
      BY <1>1, <3>1 DEF PromptUser
  <2>4. i # running
    <3>1. running # None => q # <<>> /\ q[1] = running
      BY <2>1, QueueFacts
    <3>2. q # <<>> => q[1] \in Queued
      BY QueueFacts, EmptySeq, ToSetByIndex DEF Queued
    <3>3. running # None => fate[running] = "pending"
      BY <3>1, <3>2, Unanswered
    <3>. QED
      BY <2>1, <3>3, Constants, InterjectionsAreIds
  <2>. QED
    BY <2>1, <2>2, <2>3, <2>4, PressPending
<1>2. ASSUME NEW i \in TaskWakes \cup SubagentWakes \cup TimerWakes, NEW late \in BOOLEAN,
             PromptWake(i, late)
      PROVE  PendingInv'
  <2>1. Aside
    BY <1>2, InsertAside DEF Synthetic
  <2>2. pc["loop"] = "idle" /\ fate[i] = "new" /\ UNCHANGED <<turnActive, suppressed, monBuf>>
    BY <1>2 DEF PromptWake, Accept, turnVars, sendVars
  <2>3. CASE ~(i \in TaskWakes /\ (suppressed \/ late))
    <3>1. fate' = Resolve({i}, "pending") /\ Goto("loop", "start") /\ UNCHANGED notes
      BY <1>2, <2>3 DEF PromptWake, Handle
    <3>. QED
      BY <2>1, <2>2, <3>1, WakePending
  <2>4. CASE i \in TaskWakes /\ (suppressed \/ late)
    <3>1. /\ UNCHANGED <<q, pc, cx>> /\ notes' = PushCapped(notes, <<i>>, MaxNotes)
          /\ fate' = Resolve({i}, IF late THEN "tooLate" ELSE "removed")
      BY <1>2, <2>4 DEF PromptWake
    <3>2. StayQueued(Firm)
      <4>1. \A k \in {i} : k \in Ids => fate[k] # "pending"
        BY <2>2
      <4>. QED
        BY <3>1, <4>1, ResolveStays, StayFirm
    <3>3. CASE ~suppressed
      <4>1. i \in Ids /\ i \in Notes
        BY <2>4 DEF Ids, Synthetic, Notes
      <4>2. fate'[i] = "tooLate"
        BY <2>4, <3>1, <3>3, <4>1, ResolveIs
      <4>3. ToSet(notes') \subseteq ToSet(notes) \cup {i}
        <5>1. notes \in Seq(Notes) /\ MaxNotes \in Nat
          BY Constants DEF IndInv, TypeOK, StateType
        <5>2. <<i>> \in Seq(Notes) /\ ToSet(<<i>>) = {i}
          BY <4>1, SingleDistinct
        <5>. QED
          BY <3>1, <5>1, <5>2, PushCappedRange
      <4>4. Stranded' => Stranded
        BY <2>1, <2>2, <4>1, <4>2, <4>3, NotesMove, MovesLate DEF Aside
      <4>. QED
        BY <2>1, <2>2, <3>1, <3>2, <4>4, AsidePending
    <3>4. CASE suppressed
      <4>1. NotesInv'
        BY <2>2, <3>4 DEF NotesInv
      <4>2. ActiveInv'
        BY <2>1, <2>2, AsideActive DEF PendingInv
      <4>3. AfterInv' /\ NowInv'
        BY <2>2, <3>1, Undecided DEF PendingInv, AfterInv
      <4>. QED
        BY <4>1, <4>2, <4>3 DEF PendingInv
    <3>. QED
      BY <3>3, <3>4
  <2>. QED
    BY <2>3, <2>4
<1>3. ASSUME NEW i \in GoalTurns \cup WorkflowWakes, GoalSummaryTurn(i) \/ WorkflowCompletionTurn(i)
      PROVE  PendingInv'
  <2>1. Aside
    BY <1>3, InsertAside DEF Synthetic
  <2>2. /\ pc["loop"] = "idle" /\ fate[i] = "new"
        /\ UNCHANGED <<turnActive, notes, monBuf, suppressed>>
        /\ fate' = Resolve({i}, "pending") /\ Goto("loop", "start")
    BY <1>3 DEF GoalSummaryTurn, WorkflowCompletionTurn, Accept, turnVars, sendVars, Handle
  <2>. QED
    BY <2>1, <2>2, WakePending
<1>4. ASSUME NEW i \in ResumeTurns, ResumePlan(i) PROVE PendingInv'
  <2>1. /\ UNCHANGED <<turnActive, notes, monBuf, suppressed, cx>>
        /\ fate' = Resolve({i}, "pending") /\ Goto("resume", "start") /\ "resume" \in Starters
    BY <1>4 DEF ResumePlan, turnVars, sendVars
  <2>2. Aside
    BY <1>4, InsertAside
  <2>3. pc'["loop"] = pc["loop"]
    <3>1. "resume" \in Procs \ {"loop"}
      BY <2>1, Constants DEF Procs
    <3>. QED
      BY <2>1, <3>1, GotoMoves
  <2>4. StayQueued(Firm)
    BY <2>1, ResolveStays, StayFirm
  <2>5. Stranded' => Stranded
    BY <2>1, <2>2, NotesSame, MovesLate DEF Aside
  <2>. QED
    BY <2>1, <2>2, <2>3, <2>4, <2>5, AsidePending
<1>. QED
  BY <1>1, <1>2, <1>3, <1>4

(* Edits of the queue by clients.  While no task runs the queue has no row *)
(* that clients see.                                                       *)
LEMMA EditPending ==
    ASSUME IndInv, ConserveInv, IndInv', ConserveInv', TurnInv, PendingInv
    PROVE  /\ \A i \in Prompts : RemoveQueued(i) => PendingInv'
           /\ \A i \in Prompts : InterjectQueued(i) => PendingInv'
           /\ \A order : Reorder(order) => PendingInv'
           /\ \A owner : ClearQueue(owner) => PendingInv'
           /\ \A i \in Prompts : HoldCombineEdit(i) => PendingInv'
           /\ \A i \in Prompts : ReleaseCombineEdit(i) => PendingInv'
<1>1. ASSUME Aside, UNCHANGED <<pc, cx, suppressed, turnActive, notes, monBuf>>,
             pc["loop"] = "idle",
             UNCHANGED fate \/ \E R : R \subseteq Queued \cap Prompts /\ fate' = Resolve(R, "removed")
      PROVE  PendingInv'
  <2>1. Stranded' => Stranded
    BY <1>1, NotesSame, MovesLate DEF Aside
  <2>2. running = None => StayQueued(Firm)
    <3>1. CASE UNCHANGED fate
      BY <3>1 DEF StayQueued
    <3>2. ASSUME NEW R, R \subseteq Queued \cap Prompts, fate' = Resolve(R, "removed"), running = None
          PROVE  StayQueued(Firm)
      <4>1. Queued \subseteq ResumeTurns
        BY <1>1, <3>2 DEF TurnInv, RestInv, RestPcs
      <4>2. Prompts \cap ResumeTurns = {}
        BY Kinds DEF UserMessages, Synthetic
      <4>3. R = {}
        BY <3>2, <4>1, <4>2
      <4>. QED
        BY <3>2, <4>3, ResolveStays, StayFirm
    <3>. QED
      BY <1>1, <3>1, <3>2
  <2>. QED
    BY <1>1, <2>1, <2>2, AsidePending
<1>2. ASSUME NEW i \in Prompts, RemoveQueued(i) PROVE PendingInv'
  <2>1. {i} \subseteq Queued \cap Prompts
    BY <1>2 DEF RemoveQueued
  <2>2. /\ UNCHANGED <<pc, cx, suppressed, turnActive, notes, monBuf>> /\ pc["loop"] = "idle"
        /\ fate' = Resolve({i}, "removed")
    BY <1>2 DEF RemoveQueued, Accept, turnVars, sendVars
  <2>. QED
    BY <1>1, <1>2, <2>1, <2>2, EditAside
<1>3. ASSUME NEW i \in Prompts, InterjectQueued(i) PROVE PendingInv'
  <2>1. /\ UNCHANGED <<fate, turnActive>> /\ pc["loop"] = "idle" /\ i \in Queued /\ i # running
        /\ \E where \in {"cancelNow", "start"} :
               Handle(where, "idle") /\ (where = "cancelNow" => running # None)
    BY <1>3 DEF InterjectQueued, Accept, turnVars
  <2>2. Aside /\ fate'[i] = "pending"
    BY <1>3, <2>1, EditAside, Unanswered
  <2>. QED
    BY <2>1, <2>2, PressPending
<1>4. ASSUME NEW order, Reorder(order) PROVE PendingInv'
  <2>1. UNCHANGED <<pc, cx, suppressed, turnActive, notes, monBuf, fate>> /\ pc["loop"] = "idle"
    BY <1>4 DEF Reorder, Accept, turnVars, sendVars, endVars
  <2>. QED
    BY <1>1, <1>4, <2>1, EditAside
<1>5. ASSUME NEW owner, ClearQueue(owner) PROVE PendingInv'
  <2>1. /\ UNCHANGED <<pc, cx, suppressed, turnActive, notes, monBuf>> /\ pc["loop"] = "idle"
        /\ \E R : R \subseteq Queued \cap Prompts /\ fate' = Resolve(R, "removed")
    BY <1>5 DEF ClearQueue, Accept, turnVars, sendVars, HasMeta
  <2>. QED
    BY <1>1, <1>5, <2>1, EditAside
<1>6. ASSUME NEW i \in Prompts, HoldCombineEdit(i) \/ ReleaseCombineEdit(i) PROVE PendingInv'
  <2>1. UNCHANGED <<pc, cx, suppressed, turnActive, notes, monBuf, fate>> /\ pc["loop"] = "idle"
    BY <1>6 DEF HoldCombineEdit, ReleaseCombineEdit, Accept, turnVars, sendVars, endVars
  <2>. QED
    BY <1>1, <1>6, <2>1, EditAside
<1>. QED
  BY <1>2, <1>3, <1>4, <1>5, <1>6

(* Interjections, and the end of a completion. *)
LEMMA InterjectPending ==
    ASSUME IndInv, ConserveInv, IndInv', ConserveInv', PendingInv
    PROVE  /\ \A i \in Interjections : Interject(i) => PendingInv'
           /\ Flush => PendingInv'
           /\ Requeue => PendingInv'
           /\ TurnEnd => PendingInv'
<1>1. ASSUME NEW i \in Interjections, Interject(i) PROVE PendingInv'
  <2>1. /\ pc["loop"] = "idle" /\ fate[i] = "new" /\ fate' = Resolve({i}, "buffered")
        /\ UNCHANGED <<turnActive, notes, monBuf, suppressed>>
        /\ UNCHANGED <<pc, cx>> \/ Goto("loop", "requeue")
    BY <1>1 DEF Interject, Accept, stateVars, turnVars
  <2>2. Aside
    BY <1>1, InterjectAside
  <2>3. CASE Goto("loop", "requeue")
    BY <2>1, <2>2, <2>3, WakePending
  <2>4. CASE UNCHANGED <<pc, cx>>
    <3>1. Stranded' => Stranded
      BY <2>1, <2>2, NotesSame, MovesLate DEF Aside
    <3>2. StayQueued(Firm)
      <4>1. \A k \in {i} : k \in Ids => fate[k] # "pending"
        BY <2>1
      <4>. QED
        BY <2>1, <4>1, ResolveStays, StayFirm
    <3>. QED
      BY <2>1, <2>2, <2>4, <3>1, <3>2, AsidePending
  <2>. QED
    BY <2>1, <2>3, <2>4
<1>2. ASSUME Aside, UNCHANGED <<turnActive, suppressed>>, Stranded' => Stranded,
             NEW where \in {"start", "requeue", "flush"}, Goto("loop", where),
             pc["loop"] \in {"flush", "requeue", "turnEnd"}, cx'.after = cx.after,
             UNCHANGED fate \/ \E i : fate' = Resolve({i}, "pending")
      PROVE  PendingInv'
  <2>1. pc'["loop"] \in PlainPcs
    BY <1>2, GotoLoop DEF PlainPcs, LoopPcs
  <2>2. StayQueued(Firm)
    <3>1. CASE UNCHANGED fate
      BY <3>1 DEF StayQueued
    <3>2. CASE \E i : fate' = Resolve({i}, "pending")
      BY <3>2, ResolveStays, StayFirm
    <3>. QED
      BY <1>2, <3>1, <3>2
  <2>3. Draining => Draining'
    BY <1>2 DEF Draining
  <2>. QED
    BY <1>2, <2>1, <2>2, <2>3, MovePending
<1>3. ASSUME Flush PROVE PendingInv'
  <2>1. /\ UNCHANGED <<turnActive, suppressed, fate, notes, monBuf>> /\ pc["loop"] = "flush"
        /\ cx' = [cx EXCEPT !.late = interj]
        /\ \E where \in {"start", "requeue"} : Goto("loop", where)
    BY <1>3 DEF Flush, stateVars, turnVars, endVars
  <2>2. Aside
    BY <1>3, InterjectAside
  <2>3. cx'.after = cx.after
    BY <2>1 DEF IndInv, TypeOK, LoopType, CxType
  <2>4. Stranded' => Stranded
    BY <2>1, <2>2, NotesSame, MovesLate DEF Aside
  <2>. QED
    BY <1>2, <2>1, <2>2, <2>3, <2>4
<1>4. ASSUME Requeue PROVE PendingInv'
  <2>1. /\ UNCHANGED <<turnActive, suppressed, notes, monBuf>> /\ pc["loop"] = "requeue"
        /\ \E rest : cx' = [cx EXCEPT !.late = rest]
        /\ \E where \in {"start", "requeue"} : Goto("loop", where)
        /\ \E i : fate' = Resolve({i}, "pending")
    BY <1>4 DEF Requeue, sendVars, turnVars
  <2>2. Aside
    BY <1>4, InterjectAside
  <2>3. cx'.after = cx.after
    BY <2>1 DEF IndInv, TypeOK, LoopType, CxType
  <2>4. Stranded' => Stranded
    BY <2>1, <2>2, NotesSame, MovesLate DEF Aside
  <2>. QED
    BY <1>2, <2>1, <2>2, <2>3, <2>4
<1>5. ASSUME TurnEnd PROVE PendingInv'
  <2>1. /\ UNCHANGED <<turnActive, suppressed, cx>> /\ pc["loop"] = "turnEnd"
        /\ Goto("loop", "flush") /\ notes' = AbsorbMonitors(notes) /\ monBuf' = <<>>
        /\ UNCHANGED fate \/ \E i : fate' = Resolve({i}, "pending")
    BY <1>5 DEF TurnEnd, turnVars
  <2>2. Aside
    BY <1>5, HandlerAside
  <2>3. Stranded' => Stranded
    BY <2>1, <2>2, AbsorbRange, NotesMove, MovesLate DEF Aside
  <2>. QED
    BY <1>2, <2>1, <2>2, <2>3
<1>. QED
  BY <1>1, <1>3, <1>4, <1>5

(* A send-now re-enables the drains when its prompt is queued or runs;     *)
(* notifications come to a turn that is alive or are drained at once.      *)
LEMMA NotifyPending ==
    ASSUME IndInv, ConserveInv, IndInv', ConserveInv', TurnInv, PendingInv
    PROVE  /\ Reengage => PendingInv'
           /\ Shutdown => PendingInv'
           /\ \A e \in Notes : InjectNotification(e) => PendingInv'
           /\ \A task \in TaskWakes : DropMonitorNotifications(task) => PendingInv'
           /\ DrainNotifications => PendingInv'
<1>0. ASSUME Aside, UNCHANGED turnActive, NotesInv',
             pc'["loop"] \in PlainPcs \/ (pc'["loop"] = "idle" /\ cx'.after = "idle")
      PROVE  PendingInv'
  <2>1. ActiveInv'
    BY <1>0, AsideActive DEF PendingInv
  <2>2. AfterInv' /\ NowInv'
    BY <1>0, Undecided
  <2>. QED
    BY <1>0, <2>1, <2>2 DEF PendingInv
<1>1. ASSUME Reengage PROVE PendingInv'
  <2>1. UNCHANGED <<turnActive, q, running, lock>> /\ pc["loop"] = "reengage" /\ Goto("loop", "start")
    BY <1>1 DEF Reengage, turnVars
  <2>2. Covered'
    BY <2>1 DEF PendingInv, NowInv, Covered, Queued
  <2>3. NotesInv'
    BY <2>2 DEF NotesInv
  <2>4. pc'["loop"] \in PlainPcs
    BY <2>1, GotoLoop DEF PlainPcs, LoopPcs
  <2>. QED
    BY <1>0, <1>1, <2>1, <2>3, <2>4, HandlerAside
<1>2. ASSUME Shutdown PROVE PendingInv'
  <2>1. UNCHANGED turnActive /\ Goto("loop", "ended")
    BY <1>2 DEF Shutdown, turnVars, Handle
  <2>2. pc'["loop"] = "ended"
    BY <2>1, GotoLoop
  <2>3. NotesInv' /\ pc'["loop"] \in PlainPcs
    BY <2>2 DEF NotesInv, PlainPcs, LoopPcs
  <2>. QED
    BY <1>0, <1>2, <2>1, <2>3, HandlerAside
<1>3. ASSUME NEW e \in Notes, InjectNotification(e) PROVE PendingInv'
  <2>1. /\ UNCHANGED <<turnActive, running>> /\ pc["loop"] = "idle"
        /\ \/ turnActive /\ UNCHANGED <<pc, cx>>
           \/ Goto("loop", "drain")
    BY <1>3 DEF InjectNotification, Accept, turnVars, Handle
  <2>2. CASE turnActive /\ UNCHANGED <<pc, cx>>
    <3>1. Covered'
      BY <2>1, <2>2 DEF PendingInv, ActiveInv, Covered
    <3>2. NotesInv'
      BY <3>1 DEF NotesInv
    <3>3. pc'["loop"] = "idle" /\ cx'.after = "idle"
      BY <2>1, <2>2 DEF PendingInv, AfterInv
    <3>. QED
      BY <1>0, <1>3, <2>1, <3>2, <3>3, HandlerAside
  <2>3. CASE Goto("loop", "drain")
    <3>1. pc'["loop"] = "drain"
      BY <2>3, GotoLoop
    <3>2. NotesInv' /\ pc'["loop"] \in PlainPcs
      BY <3>1 DEF NotesInv, Draining, PlainPcs, LoopPcs
    <3>. QED
      BY <1>0, <1>3, <2>1, <3>2, HandlerAside
  <2>. QED
    BY <2>1, <2>2, <2>3
<1>4. ASSUME NEW task \in TaskWakes, DropMonitorNotifications(task) PROVE PendingInv'
  <2>1. PICK S, T : /\ notes' = Retain(notes, S) /\ monBuf' = Retain(monBuf, T)
                    /\ UNCHANGED <<turnActive, suppressed, pc, cx, fate>>
    BY <1>4 DEF DropMonitorNotifications, turnVars, endVars
  <2>2. Aside
    BY <1>4, HandlerAside
  <2>3. ToSet(notes') \subseteq ToSet(notes) /\ ToSet(monBuf') \subseteq ToSet(monBuf)
    <3>1. notes \in Seq(Notes) /\ monBuf \in Seq(Monitors)
      BY DEF IndInv, TypeOK, StateType, SendType
    <3>. QED
      BY <2>1, <3>1, RetainType
  <2>4. monBuf' # <<>> => monBuf # <<>>
    <3>1. monBuf' \in Seq(Monitors)
      BY DEF IndInv, TypeOK, SendType
    <3>. QED
      BY <2>3, <3>1, EmptyDistinct
  <2>5. Stranded' => Stranded
    BY <2>2, <2>3, <2>4, NotesMove, MovesLate DEF Aside
  <2>6. StayQueued(Firm)
    BY <2>1 DEF StayQueued
  <2>. QED
    BY <2>1, <2>2, <2>5, <2>6, AsidePending
<1>5. ASSUME DrainNotifications PROVE PendingInv'
  <2>1. UNCHANGED <<running, lock, suppressed, turnActive>> /\ pc["loop"] = "drain"
    BY <1>5 DEF DrainNotifications, turnVars
  <2>2. \E where \in {"idle", "start"} : Handle(where, "idle")
    BY <1>5 DEF DrainNotifications
  <2>3. pc'["loop"] \in PlainPcs \/ (pc'["loop"] = "idle" /\ cx'.after = "idle")
    <3>1. cx' = [NoCx EXCEPT !.after = "idle"] /\ \E where \in {"idle", "start"} : Goto("loop", where)
      BY <2>2 DEF Handle
    <3>2. pc'["loop"] \in {"idle", "start"}
      BY <3>1, GotoLoop
    <3>. QED
      BY <3>1, <3>2 DEF PlainPcs, LoopPcs, NoCx
  <2>4. CASE ~IdleForInjection
    <3>1. q' = q
      BY <1>5, <2>4 DEF DrainNotifications
    <3>2. running # None \/ suppressed \/ (running = None /\ q # <<>>)
      BY <2>4 DEF IdleForInjection
    <3>3. running = None /\ q # <<>> => Queued \cap Firm # {}
      <4>1. q # <<>> => Queued # {}
        BY QueueFacts, EmptyDistinct DEF Queued
      <4>2. running = None => Queued \subseteq ResumeTurns
        BY <2>1 DEF TurnInv, RestInv, RestPcs
      <4>. QED
        BY <4>1, <4>2, FirmKinds
    <3>4. suppressed' \/ Covered'
      BY <2>1, <3>1, <3>2, <3>3 DEF Covered, Queued
    <3>5. NotesInv'
      BY <3>4 DEF NotesInv
    <3>. QED
      BY <1>0, <1>5, <2>1, <2>3, <3>5, HandlerAside
  <2>5. CASE IdleForInjection
    <3>1. monBuf' = <<>> /\ notes' = <<>>
      BY <1>5, <2>5 DEF DrainNotifications
    <3>2. ~Stranded'
      BY <3>1, EmptyDistinct DEF Stranded
    <3>3. NotesInv'
      BY <3>2 DEF NotesInv
    <3>. QED
      BY <1>0, <1>5, <2>1, <2>3, <3>3, HandlerAside
  <2>. QED
    BY <2>4, <2>5
<1>. QED
  BY <1>1, <1>2, <1>3, <1>4, <1>5

(* What an open turn does: of the queue it drops consumed wakes only. *)
LEMMA WorkPending ==
    ASSUME IndInv, ConserveInv, IndInv', ConserveInv', PendingInv, NEW t \in Ids, TurnWork(t)
    PROVE  PendingInv'
<1>0. Aside
  BY WorkAside
<1>1. UNCHANGED <<pc, cx, suppressed, turnActive>>
  BY DEF TurnWork, TurnOutput, TurnInject, TurnWait, TurnGoal, TurnRound,
         TurnConsumes, TurnReportsWorkflow, stateVars, turnVars
<1>2. ASSUME Stranded' => Stranded, StayQueued(Firm) PROVE PendingInv'
  BY <1>0, <1>1, <1>2, AsidePending
<1>3. CASE UNCHANGED <<fate, notes, monBuf>>
  <2>1. Stranded' => Stranded
    BY <1>0, <1>3, NotesSame, MovesLate DEF Aside
  <2>2. StayQueued(Firm)
    BY <1>3 DEF StayQueued
  <2>. QED
    BY <1>2, <2>1, <2>2
<1>4. CASE TurnInject(t)
  <2>1. UNCHANGED notes /\ monBuf' = <<>> /\ fate' = Resolve(ToSet(interj), "merged")
    BY <1>4 DEF TurnInject, stateVars
  <2>2. Stranded' => Stranded
    BY <1>0, <2>1, NotesMove, MovesLate DEF Aside
  <2>3. \A i \in ToSet(interj) : i \in Ids => fate[i] # "pending"
    BY Unanswered
  <2>. QED
    BY <1>2, <2>1, <2>2, <2>3, ResolveStays, StayFirm
<1>5. ASSUME NEW c \in TaskWakes \cup SubagentWakes, TurnConsumes(t, c) PROVE PendingInv'
  <2>1. PICK T : /\ notes' = Retain(notes, T) /\ monBuf' = monBuf /\ q' = Sweep(q, {c})
                 /\ fate' = Resolve(Queued \ ToSet(q'), "dropped")
    BY <1>5 DEF TurnConsumes, sendVars
  <2>2. ToSet(notes') \subseteq ToSet(notes)
    <3>1. notes \in Seq(Notes)
      BY DEF IndInv, TypeOK, StateType
    <3>. QED
      BY <2>1, <3>1, RetainType
  <2>3. Stranded' => Stranded
    BY <1>0, <2>1, <2>2, NotesMove, MovesLate DEF Aside
  <2>4. ToSet(q') = Queued \cap {i \in Ids : i = running \/ i \notin {c}}
    BY <2>1, QueueFacts, RetainType DEF Sweep, Queued
  <2>5. Queued \ ToSet(q') \subseteq {c}
    BY <2>4, QueueFacts
  <2>6. \A i \in Ids : fate'[i] = IF i \in Queued \ ToSet(q') THEN "dropped" ELSE fate[i]
    BY <2>1, ResolveIs
  <2>7. StayQueued(Firm)
    BY <2>5, <2>6, FirmKinds DEF StayQueued
  <2>. QED
    BY <1>2, <2>3, <2>7
<1>6. CASE TurnOutput(t) \/ TurnWait(t) \/ TurnGoal(t) \/ TurnRound(t)
  BY <1>3, <1>6 DEF TurnOutput, TurnWait, TurnGoal, TurnRound, stateVars, sendVars, endVars
<1>7. CASE \E w \in WorkflowWakes : TurnReportsWorkflow(t, w)
  BY <1>3, <1>7 DEF TurnReportsWorkflow, stateVars, sendVars, endVars
<1>. QED
  BY <1>4, <1>5, <1>6, <1>7 DEF TurnWork

(* A turn goes through its life; a user turn takes what it tells of. *)
LEMMA LifePending ==
    ASSUME IndInv, ConserveInv, TurnInv, PendingInv, NEW t \in Ids, TurnStep(t)
    PROVE  PendingInv'
<1>1. UNCHANGED <<q, running, lock, pc, cx, suppressed, fate>>
  BY DEF TurnStep, TurnBegin, TurnOpen, TurnLeaveScope, TurnFinish, stateVars, endVars
<1>2. Stranded' => Stranded
  <2>0. LateStays
    BY <1>1 DEF LateStays
  <2>1. CASE UNCHANGED <<notes, monBuf>>
    BY <2>0, <2>1, NotesSame
  <2>2. ASSUME NEW T, notes' = Retain(AbsorbMonitors(notes), T), monBuf' = <<>>
        PROVE  Stranded' => Stranded
    <3>1. ToSet(notes') \subseteq ToSet(notes) \cup ToSet(monBuf)
      BY <2>2, AbsorbRange, RetainType
    <3>. QED
      BY <2>0, <2>2, <3>1, NotesMove
  <2>3. \/ UNCHANGED <<notes, monBuf>>
        \/ \E T : notes' = Retain(AbsorbMonitors(notes), T) /\ monBuf' = <<>>
    BY DEF TurnStep, TurnBegin, TurnOpen, TurnLeaveScope, TurnFinish, stateVars, sendVars
  <2>. QED
    BY <2>1, <2>2, <2>3
<1>3. Covered' = Covered /\ Draining' = Draining /\ Pressing' = Pressing
  BY <1>1 DEF Covered, Draining, Pressing, Queued
<1>4. NotesInv'
  BY <1>1, <1>2, <1>3, NotesKept DEF PendingInv
<1>5. ActiveInv'
  <2>1. turn[t] \in Live
    BY DEF TurnStep, TurnBegin, TurnOpen, TurnLeaveScope, TurnFinish, Live
  <2>2. t = running \/ pc["loop"] = "cancelEnd"
    BY <2>1 DEF TurnInv, LiveInv
  <2>3. turnActive' => \E l \in Live : turn' = [turn EXCEPT ![t] = l]
    BY DEF TurnStep, TurnBegin, TurnOpen, TurnLeaveScope, TurnFinish, Live
  <2>4. turnActive' => turn'[t] \in Live
    BY <2>3 DEF IndInv, TypeOK, TurnType
  <2>5. CASE t = running
    BY <1>1, <2>4, <2>5, Constants DEF ActiveInv
  <2>6. CASE pc["loop"] = "cancelEnd"
    BY <1>1, <2>6 DEF ActiveInv
  <2>. QED
    BY <2>2, <2>5, <2>6
<1>6. AfterInv' /\ NowInv'
  BY <1>1, <1>3, Decided DEF PendingInv
<1>. QED
  BY <1>4, <1>5, <1>6 DEF PendingInv

(* A promotion that has found nothing returns to where the handler goes. *)
LEMMA ReturnPending ==
    ASSUME IndInv, ConserveInv, IndInv', ConserveInv', PendingInv, Aside,
           NEW p \in Procs, pc[p] \in {"start", "promote"}, Return(p),
           UNCHANGED <<cx, turnActive, suppressed, notes, monBuf, running>>,
           Covered => Covered', running # None /\ Pressing => Pressing'
    PROVE  PendingInv'
<1>1. Stranded' => Stranded
  BY NotesSame, MovesLate DEF Aside
<1>2. pc'["loop"] = IF p = "loop" THEN cx.after ELSE pc["loop"]
  BY GotoMoves DEF Return
<1>3. cx.after \in {"idle", "drain"}
  BY DEF IndInv, TypeOK, LoopType, CxType
<1>4. pc["loop"] = "ended" => pc'["loop"] = "ended"
  BY <1>2
<1>5. Draining => Draining'
  BY <1>2 DEF Draining
<1>6. NotesInv'
  BY <1>1, <1>4, <1>5, NotesKept DEF PendingInv
<1>7. ActiveInv'
  BY AsideActive DEF PendingInv
<1>8. AfterInv' /\ NowInv'
  <2>1. CASE p = "loop"
    BY <1>2, <1>3, <2>1, Undecided DEF PlainPcs, LoopPcs
  <2>2. CASE p # "loop"
    BY <1>2, <2>2, Decided DEF PendingInv
  <2>. QED
    BY <2>1, <2>2
<1>. QED
  BY <1>6, <1>7, <1>8 DEF PendingInv

(* maybe_start_running_task, by the loop or by a starter. *)
LEMMA PromotePending ==
    ASSUME IndInv, ConserveInv, IndInv', ConserveInv', TurnInv, PendingInv
    PROVE  /\ \A p \in Procs : Start(p) => PendingInv'
           /\ \A p \in Procs : Promote(p) => PendingInv'
           /\ \A p \in Procs : Spawn(p) => PendingInv'
           /\ McpReady => PendingInv'
<1>0. ASSUME UNCHANGED <<q, running, lock>>
      PROVE  (Covered => Covered') /\ (Pressing => Pressing')
  BY <1>0 DEF Covered, Pressing, Queued
<1>1. ASSUME NEW p \in Procs, Start(p) PROVE PendingInv'
  <2>1. /\ UNCHANGED <<q, running, lock, cx, turnActive, suppressed, notes, monBuf, fate>>
        /\ pc[p] = "start" /\ (Return(p) \/ Goto(p, "promote"))
    BY <1>1 DEF Start, stateVars, turnVars, sendVars, endVars
  <2>2. Aside
    BY <1>1, PromotionAside
  <2>3. CASE Return(p)
    BY <1>0, <2>1, <2>2, <2>3, ReturnPending
  <2>4. CASE Goto(p, "promote")
    <3>1. pc'["loop"] = IF p = "loop" THEN "promote" ELSE pc["loop"]
      BY <2>4, GotoMoves
    <3>2. Stranded' => Stranded
      BY <2>1, <2>2, NotesSame, MovesLate DEF Aside
    <3>3. StayQueued(Firm)
      BY <2>1 DEF StayQueued
    <3>4. CASE p = "loop"
      <4>1. pc'["loop"] \in PlainPcs
        BY <3>1, <3>4 DEF PlainPcs, LoopPcs
      <4>2. Draining => Draining'
        BY <2>1, <3>4 DEF Draining
      <4>. QED
        BY <2>1, <2>2, <3>2, <3>3, <3>4, <4>1, <4>2, MovePending
    <3>5. CASE p # "loop"
      BY <2>1, <2>2, <3>1, <3>2, <3>3, <3>5, AsidePending
    <3>. QED
      BY <3>4, <3>5
  <2>. QED
    BY <2>1, <2>3, <2>4
<1>2. ASSUME NEW p \in Procs, Promote(p) PROVE PendingInv'
  <2>1. /\ UNCHANGED <<running, cx, turnActive, turn, notes, monBuf>>
        /\ pc[p] = "promote" /\ lock = None
    BY <1>2 DEF Promote, LockFree, turnVars, sendVars
  <2>2. CASE NothingToPromote
    <3>1. UNCHANGED <<q, lock, suppressed>> /\ Return(p)
      BY <1>2, <2>2 DEF Promote
    <3>2. Aside
      BY <1>2, <2>1, <3>1, PromotionAside
    <3>. QED
      BY <1>0, <2>1, <3>1, <3>2, ReturnPending
  <2>3. CASE ~NothingToPromote /\ lock' = None
    <3>1. /\ running = None /\ Return(p) /\ UNCHANGED suppressed
          /\ DropFirst(q, RunLength(q, 1, WorkflowWakes \cap reported)) = <<>>
      BY <1>2, <2>3, Constants DEF Promote, NothingToPromote
    <3>2. Queued \subseteq WorkflowWakes \cap reported
      BY <3>1, QueueFacts, RunIsAll DEF Queued
    <3>3. ~Covered
      BY <2>1, <3>1, <3>2, FirmKinds DEF Covered
    <3>4. Aside
      BY <1>2, <2>3, PromotionAside
    <3>. QED
      BY <2>1, <3>1, <3>3, <3>4, ReturnPending
  <2>4. CASE ~NothingToPromote /\ lock' # None
    <3>1. /\ running = None /\ q # <<>> /\ Goto(p, "spawn")
          /\ suppressed' = (suppressed /\ DropFirst(q, RunLength(q, 1, WorkflowWakes \cap reported))[1]
                                          \notin UserMessages)
      BY <1>2, <2>1, <2>4 DEF Promote, NothingToPromote
    <3>2. pc'["loop"] = IF p = "loop" THEN "spawn" ELSE pc["loop"]
      BY <3>1, GotoMoves
    <3>3. Covered'
      BY <2>4 DEF Covered
    <3>4. NotesInv'
      BY <3>3 DEF NotesInv
    <3>5. ActiveInv'
      <4>1. pc["loop"] \in {"cancelLock", "cancelEnd"} => pc'["loop"] = pc["loop"]
        BY <2>1, <3>2
      <4>. QED
        BY <2>1, <4>1 DEF PendingInv, ActiveInv
    <3>6. AfterInv' /\ NowInv'
      <4>1. CASE p = "loop"
        BY <3>2, <4>1, Undecided DEF PlainPcs, LoopPcs
      <4>2. CASE p # "loop"
        <5>1. pc["loop"] \in {"cancelSubs", "cancelLock"} /\ suppressed => suppressed'
          <6>. SUFFICES ASSUME pc["loop"] \in {"cancelSubs", "cancelLock"}, suppressed
                        PROVE  suppressed'
            OBVIOUS
          <6>. DEFINE r == RunLength(q, 1, WorkflowWakes \cap reported)
          <6>1. Queued \subseteq ResumeTurns
            BY <3>1 DEF TurnInv, RestInv, RestPcs
          <6>2. q[1] \in Queued
            BY <3>1, QueueFacts, EmptySeq, ToSetByIndex DEF Queued
          <6>3. q[1] \notin WorkflowWakes \cap reported /\ q[1] \notin UserMessages
            BY <6>1, <6>2, Kinds DEF Synthetic
          <6>4. r = 0
            BY <6>3, QueueFacts, NoRun
          <6>. HIDE DEF r
          <6>5. DropFirst(q, r) = q
            <7>1. q \in Seq(Ids) /\ Len(q) \in Nat
              BY QueueFacts
            <7>2. SubSeq(q, 1, Len(q)) = q
              BY <7>1
            <7>. QED
              BY <6>4, <7>2 DEF DropFirst
          <6>6. suppressed' = (suppressed /\ DropFirst(q, r)[1] \notin UserMessages)
            BY <3>1 DEF r
          <6>. QED
            BY <6>3, <6>5, <6>6
        <5>2. AfterInv'
          BY <2>1, <3>2, <4>2, <5>1 DEF PendingInv, AfterInv
        <5>3. NowInv'
          BY <2>1, <3>1, <3>2, <3>3, <4>2 DEF PendingInv, NowInv
        <5>. QED
          BY <5>2, <5>3
      <4>. QED
        BY <4>1, <4>2
    <3>. QED
      BY <3>4, <3>5, <3>6 DEF PendingInv
  <2>. QED
    BY <2>2, <2>3, <2>4
<1>3. ASSUME NEW p \in Procs, Spawn(p) PROVE PendingInv'
  <2>1. /\ UNCHANGED <<suppressed, cx>> /\ running' = q[1] /\ pc[p] = "spawn" /\ lock = p
        /\ turn' = [turn EXCEPT ![q[1]] = "spawned"] /\ Return(p)
    BY <1>3 DEF Spawn
  <2>2. running = None /\ q # <<>> /\ None \notin Ids
    BY <2>1, Constants DEF IndInv, LockInv
  <2>3. q[1] \in Ids
    BY <2>2, QueueFacts, EmptySeq
  <2>4. pc'["loop"] = IF p = "loop" THEN cx.after ELSE pc["loop"]
    BY <2>1, GotoMoves DEF Return
  <2>5. running' # None /\ Covered'
    BY <2>1, <2>2, <2>3 DEF Covered
  <2>6. NotesInv'
    BY <2>5 DEF NotesInv
  <2>7. ActiveInv'
    <3>1. turn'[running'] = "spawned"
      BY <2>1, <2>3 DEF IndInv, TypeOK, TurnType
    <3>. QED
      BY <2>5, <3>1 DEF ActiveInv, Live
  <2>8. AfterInv' /\ NowInv'
    <3>1. cx.after \in {"idle", "drain"}
      BY DEF IndInv, TypeOK, LoopType, CxType
    <3>2. CASE p = "loop"
      BY <2>1, <2>4, <3>1, <3>2, Undecided DEF PlainPcs, LoopPcs
    <3>3. CASE p # "loop"
      BY <2>1, <2>2, <2>4, <2>5, <3>3, Decided DEF PendingInv
    <3>. QED
      BY <3>2, <3>3
  <2>. QED
    BY <2>6, <2>7, <2>8 DEF PendingInv
<1>4. ASSUME McpReady PROVE PendingInv'
  <2>1. /\ UNCHANGED <<cx, turnActive, suppressed, notes, monBuf, fate>>
        /\ "mcp" \in Starters /\ Goto("mcp", "start")
    BY <1>4 DEF McpReady, stateVars, turnVars, sendVars, endVars
  <2>2. Aside
    BY <1>4, PromotionAside
  <2>3. pc'["loop"] = pc["loop"]
    <3>1. "mcp" \in Procs \ {"loop"}
      BY <2>1, Constants DEF Procs
    <3>. QED
      BY <2>1, <3>1, GotoMoves
  <2>4. Stranded' => Stranded
    BY <2>1, <2>2, NotesSame, MovesLate DEF Aside
  <2>5. StayQueued(Firm)
    BY <2>1 DEF StayQueued
  <2>. QED
    BY <2>1, <2>2, <2>3, <2>4, <2>5, AsidePending
<1>. QED
  BY <1>1, <1>2, <1>3, <1>4

(* A cancel begins. *)
LEMMA EntryPending ==
    ASSUME IndInv, ConserveInv, TurnInv, PendingInv
    PROVE  /\ \A kind \in CancelKinds : CancelBegin(kind) => PendingInv'
           /\ CancelForSendNow => PendingInv'
           /\ CancelAbortEarly => PendingInv'
<1>1. ASSUME NEW kind \in CancelKinds, CancelBegin(kind) PROVE PendingInv'
  <2>1. UNCHANGED <<running, turn>> /\ pc["loop"] = "idle"
    BY <1>1 DEF CancelBegin, Accept
  <2>2. turnActive' => turnActive
    BY <1>1 DEF CancelBegin
  <2>3. ActiveInv'
    BY <2>1, <2>2 DEF PendingInv, ActiveInv
  <2>4. CASE kind.ctrlC /\ ~LockFree
    <3>1. Goto("loop", "ended")
      BY <1>1, <2>4 DEF CancelBegin, Handle
    <3>2. pc'["loop"] = "ended"
      BY <3>1, GotoLoop
    <3>3. NotesInv'
      BY <3>2 DEF NotesInv
    <3>4. AfterInv' /\ NowInv'
      BY <3>2, Undecided DEF PlainPcs, LoopPcs
    <3>. QED
      BY <2>3, <3>3, <3>4 DEF PendingInv
  <2>5. CASE ~(kind.ctrlC /\ ~LockFree)
    <3>1. PICK where \in {"cancelSubs", "cancelLock"} : Goto("loop", where)
      BY <1>1, <2>5 DEF CancelBegin
    <3>2. pc'["loop"] = where
      BY <3>1, GotoLoop
    <3>3. /\ suppressed' = (suppressed \/ kind.ctrlC)
          /\ cx'.kind = kind /\ cx'.sendNow = FALSE
          /\ cx'.after = IF kind.ctrlC THEN "idle" ELSE "drain"
      BY <1>1, <2>5 DEF CancelBegin, NoCx
    <3>4. NotesInv'
      BY <3>3 DEF NotesInv, Draining
    <3>5. AfterInv'
      BY <3>2, <3>3 DEF AfterInv
    <3>6. NowInv'
      BY <3>2, <3>3 DEF NowInv
    <3>. QED
      BY <2>3, <3>4, <3>5, <3>6 DEF PendingInv
  <2>. QED
    BY <2>4, <2>5
<1>2. ASSUME CancelForSendNow PROVE PendingInv'
  <2>1. /\ UNCHANGED <<q, running, suppressed, lock, turn, turnActive, notes, monBuf>>
        /\ pc["loop"] = "cancelNow" /\ Goto("loop", "cancelLock")
        /\ cx' = [cx EXCEPT !.sendNow = TRUE, !.pinned = pin]
        /\ fate' = Resolve(ToSet(interj), "cleared")
    BY <1>2 DEF CancelForSendNow, stateVars, turnVars
  <2>2. pc'["loop"] = "cancelLock"
    BY <2>1, GotoLoop
  <2>3. cx'.kind = cx.kind /\ cx'.sendNow = TRUE
    BY <2>1 DEF IndInv, TypeOK, LoopType, CxType
  <2>4. running # None /\ Pressing /\ cx.kind = NoCancel
    BY <2>1 DEF PendingInv, NowInv, AfterInv
  <2>5. NotesInv'
    BY <2>1, <2>4 DEF NotesInv, Covered
  <2>6. ActiveInv'
    BY <2>2 DEF ActiveInv
  <2>7. AfterInv'
    BY <2>2, <2>3, <2>4 DEF AfterInv, NoCancel
  <2>8. NowInv'
    BY <2>1, <2>2, <2>4 DEF NowInv, Pressing, Queued
  <2>. QED
    BY <2>5, <2>6, <2>7, <2>8 DEF PendingInv
<1>3. ASSUME CancelAbortEarly PROVE PendingInv'
  <2>1. /\ UNCHANGED <<q, running, suppressed, lock, turnActive, notes, monBuf, cx, fate>>
        /\ pc["loop"] = "cancelSubs" /\ Goto("loop", "cancelLock")
    BY <1>3 DEF CancelAbortEarly, stateVars, sendVars, endVars
  <2>2. pc'["loop"] = "cancelLock"
    BY <2>1, GotoLoop
  <2>3. NotesInv'
    BY <2>1, <2>2 DEF PendingInv, NotesInv, Stranded, Covered, Draining, Queued
  <2>4. ActiveInv'
    BY <2>2 DEF ActiveInv
  <2>5. ~cx.sendNow
    BY <2>1 DEF PendingInv, AfterInv
  <2>6. AfterInv'
    BY <2>1, <2>2, <2>5 DEF PendingInv, AfterInv
  <2>7. NowInv'
    BY <2>1, <2>2, <2>5 DEF NowInv
  <2>. QED
    BY <2>3, <2>4, <2>6, <2>7 DEF PendingInv
<1>. QED
  BY <1>1, <1>2, <1>3

(* The locked section empties the slot: a drain follows, the barrier is up *)
(* and stays, or the prompt that pressed is next.                          *)
LEMMA LockedPending ==
    ASSUME CtrlCNeverRewinds, IndInv, ConserveInv, PendingInv, CancelLocked
    PROVE  PendingInv'
<1>1. pc["loop"] = "cancelLock" /\ pc'["loop"] = "cancelEnd" /\ UNCHANGED lock
  BY LockedTakes
<1>2. cx'.after = cx.after /\ cx'.sendNow = cx.sendNow
  BY DEF CancelLocked, IndInv, TypeOK, LoopType, CxType
<1>3. ActiveInv'
  BY <1>1 DEF ActiveInv
<1>4. AfterInv'
  BY <1>1 DEF AfterInv
<1>5. cx.sendNow => Covered'
  <2>. SUFFICES ASSUME cx.sendNow PROVE Covered'
    OBVIOUS
  <2>1. cx.kind = NoCancel /\ running # None /\ Pressing
    BY <1>1 DEF PendingInv, NowInv, AfterInv
  <2>2. PICK i \in Queued \cap Prompts : i # running
    BY <2>1 DEF Pressing
  <2>3. q # <<>> /\ q[1] = running /\ q \in Seq(Ids) /\ IsInjective(q)
    BY <1>1, <2>1, QueueFacts DEF ConserveInv, Conserved
  <2>4. i \in ToSet(Tail(q)) /\ Tail(q) \in Seq(Ids)
    BY <2>2, <2>3, TailDistinct DEF Queued
  <2>5. q' = Retain(Tail(q), Ids \ {})
    BY <2>1, <2>3 DEF CancelLocked, NoCancel
  <2>6. i \in ToSet(q')
    <3>1. \A s \in Seq(Ids) : \A T : ToSet(Retain(s, T)) = ToSet(s) \cap T
      BY RetainType
    <3>2. ToSet(q') = ToSet(Tail(q)) \cap (Ids \ {})
      BY <2>4, <2>5, <3>1
    <3>. QED
      BY <2>2, <2>4, <3>2, InterjectionsAreIds
  <2>. QED
    BY <2>6, FirmKinds DEF Covered, Queued
<1>6. ~cx.sendNow /\ cx.kind.ctrlC => suppressed'
  <2>. SUFFICES ASSUME ~cx.sendNow, cx.kind.ctrlC PROVE suppressed'
    OBVIOUS
  <2>1. cx.kind \in CancelKinds /\ suppressed
    BY <1>1 DEF PendingInv, AfterInv
  <2>2. ~cx.kind.rewind
    BY <2>1 DEF CtrlCNeverRewinds
  <2>. QED
    BY <2>1, <2>2 DEF CancelLocked
<1>7. ~cx.sendNow /\ ~cx.kind.ctrlC => cx'.after = "drain"
  BY <1>1, <1>2 DEF PendingInv, AfterInv
<1>8. NotesInv'
  BY <1>5, <1>6, <1>7 DEF NotesInv, Draining
<1>9. NowInv'
  BY <1>1, <1>2, <1>5 DEF NowInv
<1>. QED
  BY <1>3, <1>4, <1>8, <1>9 DEF PendingInv

(* A cancel ends; a completion is taken, and pops its own prompt. *)
LEMMA LeavePending ==
    ASSUME IndInv, ConserveInv, TurnInv, PendingInv
    PROVE  /\ CancelEnd => PendingInv'
           /\ Completion => PendingInv'
           /\ PopFront => PendingInv'
<1>1. ASSUME CancelEnd PROVE PendingInv'
  <2>1. /\ UNCHANGED <<q, running, suppressed, lock, notes, monBuf>> /\ pc["loop"] = "cancelEnd"
        /\ turnActive' = FALSE
        /\ Handle(IF cx.sendNow THEN "reengage" ELSE "start", cx.after)
        /\ \E f : fate' = Resolve(cx.victims, f)
    BY <1>1 DEF CancelEnd, stateVars, sendVars
  <2>2. pc'["loop"] = (IF cx.sendNow THEN "reengage" ELSE "start") /\ cx'.after = cx.after
    <3>1. /\ Goto("loop", IF cx.sendNow THEN "reengage" ELSE "start")
          /\ cx' = [NoCx EXCEPT !.after = cx.after]
      BY <2>1 DEF Handle
    <3>. QED
      BY <3>1, GotoLoop DEF NoCx
  <2>3. LateStays
    <3>1. PICK f : fate' = Resolve(cx.victims, f)
      BY <2>1
    <3>2. \A i \in Ids : fate'[i] = IF i \in cx.victims THEN f ELSE fate[i]
      BY <3>1, ResolveIs
    <3>. QED
      BY <3>2, Unanswered DEF LateStays
  <2>4. Stranded' => Stranded
    BY <2>1, <2>3, NotesSame
  <2>5. Covered' = Covered /\ (Draining => Draining')
    BY <2>1, <2>2 DEF Covered, Draining, Queued
  <2>6. NotesInv'
    BY <2>1, <2>4, <2>5, NotesKept DEF PendingInv
  <2>7. ActiveInv'
    BY <2>1 DEF ActiveInv
  <2>8. AfterInv'
    BY <2>2 DEF AfterInv
  <2>9. NowInv'
    BY <2>1, <2>2, <2>5 DEF PendingInv, NowInv
  <2>. QED
    BY <2>6, <2>7, <2>8, <2>9 DEF PendingInv
<1>2. ASSUME Completion PROVE PendingInv'
  <2>1. /\ UNCHANGED <<running, turn, turnActive>> /\ pc["loop"] = "idle" /\ Goto("loop", "pop")
        /\ cx'.after = "drain"
    BY <1>2 DEF Completion, stateVars, turnVars, NoCx
  <2>2. pc'["loop"] = "pop"
    BY <2>1, GotoLoop
  <2>3. NotesInv'
    BY <2>1 DEF NotesInv, Draining
  <2>4. ActiveInv'
    BY <2>1 DEF PendingInv, ActiveInv
  <2>5. AfterInv'
    BY <2>1, <2>2 DEF AfterInv
  <2>6. NowInv'
    BY <2>2 DEF NowInv
  <2>. QED
    BY <2>3, <2>4, <2>5, <2>6 DEF PendingInv
<1>3. ASSUME PopFront PROVE PendingInv'
  <2>. DEFINE owned == q # <<>> /\ q[1] = cx.done
  <2>1. /\ UNCHANGED <<turn, turnActive, cx>> /\ pc["loop"] = "pop" /\ Goto("loop", "turnEnd")
        /\ running' = IF owned \/ running = cx.done THEN None ELSE running
    BY <1>3 DEF PopFront, turnVars
  <2>2. pc'["loop"] = "turnEnd"
    BY <2>1, GotoLoop
  <2>3. cx'.after = "drain"
    BY <2>1 DEF PendingInv, AfterInv
  <2>4. NotesInv'
    BY <2>3 DEF NotesInv, Draining
  <2>5. ActiveInv'
    <3>1. running # None /\ owned => running = cx.done
      BY <2>1, QueueFacts
    <3>2. running # None /\ running = cx.done => turn[running] \notin Live
      BY DEF TurnInv, ChanInv, Live
    <3>. QED
      BY <2>1, <3>1, <3>2 DEF PendingInv, ActiveInv
  <2>6. AfterInv' /\ NowInv'
    BY <2>2, Undecided DEF PlainPcs, LoopPcs
  <2>. QED
    BY <2>4, <2>5, <2>6 DEF PendingInv
<1>. QED
  BY <1>1, <1>2, <1>3

(* Every step keeps the invariant. *)
LEMMA NextPending ==
    ASSUME CtrlCNeverRewinds, IndInv, ConserveInv, TurnInv, PendingInv,
           IndInv', ConserveInv', [Next]_vars
    PROVE  PendingInv'
<1>1. CASE UserCommand
  BY <1>1, InsertPending, EditPending, InterjectPending, NotifyPending, EntryPending DEF UserCommand
<1>2. CASE Wake
  BY <1>2, InsertPending, NotifyPending DEF Wake
<1>3. CASE Handler
  BY <1>3, EntryPending, LockedPending, LeavePending, InterjectPending, NotifyPending DEF Handler
<1>4. CASE \E p \in Procs : Promotion(p)
  BY <1>4, PromotePending DEF Promotion
<1>5. CASE Starter
  BY <1>5, PromotePending, InsertPending DEF Starter
<1>6. CASE \E t \in Ids : TurnStep(t) \/ TurnWork(t)
  BY <1>6, LifePending, WorkPending
<1>7. CASE UNCHANGED vars
  <2>1. UNCHANGED <<q, running, lock, suppressed, notes, monBuf, turn, turnActive, pc, cx, fate>>
    BY <1>7 DEF vars, stateVars, sendVars, turnVars, endVars
  <2>. QED
    BY <2>1 DEF PendingInv, NotesInv, ActiveInv, AfterInv, NowInv, Stranded, Covered,
                Draining, Pressing, Queued
<1>. QED
  BY <1>1, <1>2, <1>3, <1>4, <1>5, <1>6, <1>7 DEF Next

(* A session starts with nothing to tell. *)
LEMMA InitPending == Init => PendingInv
<1>. SUFFICES ASSUME Init PROVE PendingInv
  OBVIOUS
<1>1. ~Stranded
  BY EmptyDistinct DEF Init, Stranded
<1>2. pc["loop"] = "idle" /\ cx.after = "idle" /\ ~turnActive
  BY DEF Init, NoCx, Procs
<1>. QED
  BY <1>1, <1>2 DEF PendingInv, NotesInv, ActiveInv, AfterInv, NowInv

(* Whenever nothing is in progress, notifications wait for a turn or for   *)
(* the end of the Ctrl+C barrier: no race of the monitor buffer of a turn  *)
(* with its end, of a cancel with a send-now or of a starter with the loop *)
(* leaves one that no maybe_drain_notifications will find.  It holds for   *)
(* the sessions whose Ctrl+C does not rewind.                              *)
THEOREM NoNoteIsStranded == CtrlCNeverRewinds => (Spec => []NoStrandedNotes)
<1>. SUFFICES ASSUME CtrlCNeverRewinds PROVE Spec => []NoStrandedNotes
  OBVIOUS
<1>1. /\ PendingInv /\ IndInv /\ ConserveInv /\ TurnInv /\ HandoverInv
      /\ IndInv' /\ ConserveInv' /\ [Next]_vars
      => PendingInv'
  BY NextPending
<1>2. IndInv /\ HandoverInv /\ PendingInv => NoStrandedNotes
  <2>. SUFFICES ASSUME IndInv, HandoverInv, PendingInv, Quiet, running = None, ~suppressed
                PROVE  monBuf = <<>> /\ \A n \in ToSet(notes) : fate[n] = "tooLate"
    BY DEF NoStrandedNotes
  <2>1. lock = None
    <3>1. \A p \in Procs : pc[p] # "spawn"
      BY DEF Quiet, StartersQuiet, Procs
    <3>. QED
      BY <3>1 DEF IndInv, LockInv, TypeOK, LoopType
  <2>2. q = <<>>
    BY DEF HandoverInv, KickInv, Quiet, StartersQuiet, ReadyPcs, PromotePcs
  <2>3. ~Covered
    BY <2>1, <2>2, EmptyDistinct DEF Covered, Queued
  <2>4. ~Draining /\ pc["loop"] # "ended"
    BY IdleDrains DEF Quiet
  <2>5. ~Stranded
    BY <2>3, <2>4 DEF PendingInv, NotesInv
  <2>. QED
    BY <2>5 DEF Stranded
<1>. QED
  BY <1>1, <1>2, InitPending, HandoverInvHolds, PTL DEF Spec
=============================================================================
