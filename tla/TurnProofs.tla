----------------------------- MODULE TurnProofs -----------------------------
(***************************************************************************)
(* The task slot of the session, for every number of prompts, wakes,       *)
(* notifications and starters: a prompt is given to the model once, two    *)
(* turns are alive at once only inside a cancel, no slot is left behind by *)
(* a turn that is over, the pin agrees with the slot, and every turn has   *)
(* exactly one terminal event.                                             *)
(***************************************************************************)
EXTENDS ConservationProofs

(* The prompt that has the slot, or is about to: between the choice of the *)
(* front and the spawn of its task the mutex is held and the slot empty.   *)
Claim == IF lock # None THEN q[1] ELSE running

(* Where the loop is inside a cancel or a completion. *)
MidPcs == {"cancelSubs", "cancelLock", "cancelEnd", "pop"}
(* Where the loop has left the queue without a prompt to promote. *)
RestPcs == {"idle", "drain", "cancelNow", "cancelSubs", "cancelLock"}

(* A turn is spawned once for a prompt, and then its prompt is not new; of *)
(* the queued prompts only that of the running task has been spawned.      *)
SpawnInv ==
    \A i \in Ids :
        /\ spawned[i] \in {0, 1}
        /\ turn[i] = "none" <=> spawned[i] = 0
        /\ fate[i] \in {"new", "buffered"} => spawned[i] = 0
        /\ spawned[i] = 1 /\ i \in Queued => i = running
RunInv == running # None => spawned[running] = 1

(* Completions are those of turns that are over. *)
ChanInv ==
    /\ \A i \in ToSet(chan) : turn[i] = "over"
    /\ cx.done # None => turn[cx.done] = "over"

(* A live turn has the slot, or a cancel has just taken it out of it.      *)
LiveInv ==
    \A t \in Ids : turn[t] \in Live
        => t = running \/ (pc["loop"] = "cancelEnd" /\ t = cx.torn)

(* The completion of a turn that is over and has the slot is on its way,   *)
(* in the loop's hands, or will not come and the cancel is at the slot.    *)
EndInv ==
    running # None /\ turn[running] = "over"
    => \/ running \in ToSet(chan)
       \/ pc["loop"] = "pop" /\ cx.done = running
       \/ pc["loop"] = "cancelLock"

(* The pin names the prompt with the claim; a completion has unpinned its  *)
(* own; the pin that a cancel has read is still the claim at the lock.     *)
PinInv ==
    /\ pin # None /\ pc["loop"] # "cancelEnd" => pin = Claim
    /\ pin # None /\ pc["loop"] = "pop" => pin # cx.done
    /\ pc["loop"] \in {"cancelSubs", "cancelLock"} /\ cx.pinned # None
       => cx.pinned = Claim

(* What a cancel has in its hands between its two halves: the prompt of    *)
(* the torn task, and of those that were spawned no other.                 *)
TornInv ==
    pc["loop"] = "cancelEnd" =>
        /\ cx.torn # None => cx.torn \in cx.victims /\ spawned[cx.torn] = 1
        /\ \A i \in cx.victims : spawned[i] = 1 => i = cx.torn \/ i = cx.rewound
        /\ cx.rewound # None => cx.torn = None
        /\ cx.rewound = None /\ cx.pinned # None => cx.pinned = cx.torn
        /\ ~cx.kind.kill => \A i \in cx.victims \cap UserMessages : spawned[i] = 1
FreshInv == pc["loop"] # "cancelEnd" => cx.torn = None /\ cx.rewound = None

(* While the loop rests and no task runs, nothing is queued but what the   *)
(* resumption of a plan has put there and will start itself.               *)
RestInv ==
    pc["loop"] \in RestPcs /\ running = None => Queued \subseteq ResumeTurns

TurnInv ==
    /\ SpawnInv /\ RunInv /\ ChanInv /\ LiveInv /\ EndInv
    /\ PinInv /\ TornInv /\ FreshInv /\ RestInv /\ TerminalOnce

-----------------------------------------------------------------------------
(***************************************************************************)
(* Steps that leave the slot alone.                                        *)
(***************************************************************************)
(* Messages get on; an answer is final.  The answers of a turn are given   *)
(* by its completion and its cancel only.                                  *)
FateMoves ==
    \A i \in Ids :
        fate'[i] # fate[i]
        => /\ fate[i] \in {"new", "buffered", "pending"}
           /\ fate'[i] \notin {"new", "answered", "cancelled", "rewound"}
           /\ fate'[i] = "buffered" => fate[i] = "new"

(* The loop stays where it is, or is neither in nor entering a cancel or a *)
(* completion.                                                             *)
LoopMoves ==
    \/ pc'["loop"] = pc["loop"] /\ cx' = cx
    \/ /\ pc["loop"] \notin MidPcs /\ pc'["loop"] \notin MidPcs
       /\ cx'.done \in {None, cx.done}
       /\ cx'.torn \in {None, cx.torn} /\ cx'.rewound \in {None, cx.rewound}

(* A step after which the loop rests queues only a plan's resumption.      *)
RestMoves ==
    pc'["loop"] \in RestPcs /\ running = None
    => \/ q' = <<>>
       \/ /\ pc["loop"] \in RestPcs
          /\ \A i \in Ids \ ResumeTurns : fate'[i] = "pending" => fate[i] = "pending"

Aside ==
    /\ UNCHANGED <<running, lock, pin, turn, spawned, chan, terminals>>
    /\ FateMoves /\ LoopMoves /\ RestMoves
    /\ lock # None => q' = q

(* What is queued after a step was queued before, or was not yet.          *)
QueueMoves ==
    \A i \in ToSet(q') : i \in Queued \/ fate[i] \in {"new", "buffered"}

(* A message that a step queues was not in the hands of the loop. *)
LEMMA MovesQueue ==
    ASSUME IndInv, ConserveInv, IndInv', ConserveInv', FateMoves,
           pc["loop"] = "cancelEnd" => cx'.victims = cx.victims
    PROVE  /\ QueueMoves
           /\ \A i \in ToSet(q') : fate[i] = "pending" => i \in Queued
           /\ ToSet(q') \subseteq Ids
<1>1. ToSet(q') \subseteq Ids
  BY ToSetByIndex DEF IndInv, TypeOK, StateType
<1>2. QueueConserved /\ HandsInv
  BY ConservedParts DEF IndInv, ConserveInv
<1>3. /\ \A i \in ToSet(q') : fate'[i] = "pending"
      /\ ToSet(q') \cap cx'.victims = {}
  BY <1>1 DEF ConserveInv, Conserved, Queued
<1>4. ASSUME NEW i \in ToSet(q'), fate[i] = "pending" PROVE i \in Queued
  <2>1. i \in Queued \cup cx.victims
    BY <1>1, <1>2, <1>4 DEF QueueConserved
  <2>2. i \notin cx.victims
    BY <1>2, <1>3 DEF HandsInv
  <2>. QED
    BY <2>1, <2>2
<1>5. ASSUME NEW i \in ToSet(q') PROVE fate[i] \in {"new", "buffered", "pending"}
  BY <1>1, <1>3 DEF FateMoves
<1>. QED
  BY <1>1, <1>4, <1>5 DEF QueueMoves

(* The slot's prompt and what was spawned. *)
LEMMA SpawnSame ==
    ASSUME SpawnInv, RunInv, UNCHANGED <<spawned, running>>, FateMoves, QueueMoves,
           ToSet(q') \subseteq Ids,
           \A i \in Ids : turn'[i] = "none" <=> turn[i] = "none"
    PROVE  SpawnInv' /\ RunInv'
<1>1. ASSUME NEW i \in Ids
      PROVE  /\ spawned'[i] \in {0, 1}
             /\ turn'[i] = "none" <=> spawned'[i] = 0
             /\ fate'[i] \in {"new", "buffered"} => spawned'[i] = 0
             /\ spawned'[i] = 1 /\ i \in ToSet(q') => i = running'
  <2>1. fate'[i] \in {"new", "buffered"} => fate[i] \in {"new", "buffered"}
    BY DEF FateMoves
  <2>2. i \in ToSet(q') => i \in Queued \/ spawned[i] = 0
    BY DEF QueueMoves, SpawnInv
  <2>. QED
    BY <2>1, <2>2 DEF SpawnInv
<1>2. SpawnInv'
  BY <1>1 DEF SpawnInv, Queued
<1>. QED
  BY <1>2 DEF RunInv

(* Terminals, while no turn is answered or spawned. *)
LEMMA TerminalSame ==
    ASSUME TerminalOnce, UNCHANGED <<spawned, terminals>>, FateMoves
    PROVE  TerminalOnce'
<1>. SUFFICES ASSUME NEW i \in Ids
              PROVE  /\ terminals'[i] <= 1
                     /\ terminals'[i] = 1 => spawned'[i] = 1 /\ fate'[i] \in {"answered", "cancelled"}
                     /\ fate'[i] = "answered" => terminals'[i] = 1
                     /\ fate'[i] = "cancelled" /\ spawned'[i] = 1 => terminals'[i] = 1
                     /\ fate'[i] = "rewound" => terminals'[i] = 0
  BY DEF TerminalOnce
<1>1. CASE fate'[i] = fate[i]
  BY <1>1 DEF TerminalOnce
<1>2. CASE fate'[i] # fate[i]
  BY <1>2 DEF TerminalOnce, FateMoves
<1>. QED
  BY <1>1, <1>2

(* The slot itself stays as it is. *)
LEMMA SlotSame ==
    ASSUME IndInv, ConserveInv, TurnInv, IndInv', ConserveInv',
           UNCHANGED <<running, turn, spawned, chan, terminals>>,
           FateMoves, LoopMoves
    PROVE  /\ SpawnInv' /\ RunInv' /\ ChanInv' /\ LiveInv' /\ EndInv'
           /\ TornInv' /\ FreshInv' /\ TerminalOnce'
           /\ QueueMoves /\ ToSet(q') \subseteq Ids
           /\ \A i \in ToSet(q') : fate[i] = "pending" => i \in Queued
<1>1. /\ QueueMoves /\ ToSet(q') \subseteq Ids
      /\ \A i \in ToSet(q') : fate[i] = "pending" => i \in Queued
  <2>1. pc["loop"] = "cancelEnd" => cx' = cx
    BY DEF LoopMoves, MidPcs
  <2>. QED
    BY <2>1, MovesQueue
<1>2. SpawnInv' /\ RunInv'
  BY <1>1, SpawnSame DEF TurnInv
<1>3. TerminalOnce'
  BY TerminalSame DEF TurnInv
<1>4. ChanInv'
  BY DEF TurnInv, ChanInv, LoopMoves
<1>5. LiveInv'
  BY DEF TurnInv, LiveInv, LoopMoves, MidPcs
<1>6. EndInv'
  BY DEF TurnInv, EndInv, LoopMoves, MidPcs
<1>7. TornInv'
  BY DEF TurnInv, TornInv, LoopMoves, MidPcs
<1>8. FreshInv'
  BY DEF TurnInv, FreshInv, LoopMoves, MidPcs
<1>. QED
  BY <1>1, <1>2, <1>3, <1>4, <1>5, <1>6, <1>7, <1>8

(* Nothing but a plan's resumption is added to a queue at rest. *)
LEMMA RestSame ==
    ASSUME TurnInv, IndInv', ConserveInv', running' = running, RestMoves,
           ToSet(q') \subseteq Ids,
           \A i \in ToSet(q') : fate[i] = "pending" => i \in Queued
    PROVE  RestInv'
<1>. SUFFICES ASSUME pc'["loop"] \in RestPcs, running = None PROVE ToSet(q') \subseteq ResumeTurns
  BY DEF RestInv, Queued
<1>1. CASE q' = <<>>
  BY <1>1, EmptyDistinct
<1>2. CASE /\ pc["loop"] \in RestPcs
           /\ \A i \in Ids \ ResumeTurns : fate'[i] = "pending" => fate[i] = "pending"
  <2>1. Queued \subseteq ResumeTurns
    BY <1>2 DEF TurnInv, RestInv
  <2>2. \A i \in ToSet(q') : fate'[i] = "pending"
    BY DEF ConserveInv, Conserved, Queued
  <2>. QED
    BY <1>2, <2>1, <2>2
<1>. QED
  BY <1>1, <1>2 DEF RestMoves

(* A step that leaves the slot alone keeps the invariant. *)
LEMMA AsideKeeps ==
    ASSUME IndInv, ConserveInv, TurnInv, IndInv', ConserveInv', Aside
    PROVE  TurnInv'
<1>0. /\ UNCHANGED <<running, lock, pin, turn, spawned, chan, terminals>>
      /\ FateMoves /\ LoopMoves /\ RestMoves
      /\ lock # None => q' = q
  BY DEF Aside
<1>1. /\ SpawnInv' /\ RunInv' /\ ChanInv' /\ LiveInv' /\ EndInv'
      /\ TornInv' /\ FreshInv' /\ TerminalOnce'
      /\ ToSet(q') \subseteq Ids
      /\ \A i \in ToSet(q') : fate[i] = "pending" => i \in Queued
  BY <1>0, SlotSame
<1>2. PinInv'
  <2>1. Claim' = Claim
    BY <1>0 DEF Claim
  <2>. QED
    BY <1>0, <2>1 DEF TurnInv, PinInv, LoopMoves, MidPcs
<1>3. RestInv'
  BY <1>0, <1>1, RestSame
<1>. QED
  BY <1>1, <1>2, <1>3 DEF TurnInv

(* Messages that have no answer yet are resolved. *)
LEMMA ResolveMoves ==
    ASSUME IndInv, NEW S, NEW f, f \notin {"new", "answered", "cancelled", "rewound"},
           fate' = Resolve(S, f),
           \A i \in S \cap Ids : /\ fate[i] \in {"new", "buffered", "pending"}
                                 /\ f = "buffered" => fate[i] = "new"
    PROVE  /\ FateMoves
           /\ f # "pending" => \A i \in Ids : fate'[i] = "pending" => fate[i] = "pending"
<1>1. \A i \in Ids : fate'[i] = IF i \in S THEN f ELSE fate[i]
  BY ResolveIs
<1>. QED
  BY <1>1 DEF FateMoves

(* What is queued, and what is in the interjection buffer, has no answer.  *)
LEMMA Unanswered ==
    ASSUME IndInv, ConserveInv
    PROVE  /\ \A i \in Queued : fate[i] = "pending"
           /\ \A i \in ToSet(interj) : fate[i] = "buffered"
           /\ \A i \in cx.victims : fate[i] = "pending"
           /\ \A i \in ToSet(cx.late) : fate[i] = "buffered"
<1>1. QueueConserved /\ BufferConserved
  BY ConservedParts DEF IndInv, ConserveInv
<1>2. ToSet(interj) \subseteq Interjections
  BY ToSetByIndex DEF IndInv, TypeOK, SendType
<1>3. ToSet(cx.late) \subseteq Interjections
  <2>1. cx.late \in Seq(Interjections)
    BY DEF IndInv, TypeOK, LoopType, CxType
  <2>. QED
    BY <2>1, ToSetByIndex
<1>4. Queued \subseteq Ids /\ cx.victims \subseteq Ids
  BY QueueFacts DEF IndInv, TypeOK, LoopType, CxType
<1>. QED
  BY <1>1, <1>2, <1>3, <1>4 DEF QueueConserved, BufferConserved

(* Where a Goto of the loop takes it, and that of a starter does not. *)
LEMMA GotoMoves ==
    ASSUME IndInv, NEW p \in Procs, NEW where, Goto(p, where)
    PROVE  pc'["loop"] = IF p = "loop" THEN where ELSE pc["loop"]
BY DEF IndInv, TypeOK, LoopType, Goto, Procs

(* The loop begins a handler. *)
LEMMA HandleMoves ==
    ASSUME IndInv, NEW where, where \notin MidPcs, NEW after, Handle(where, after),
           pc["loop"] \notin MidPcs
    PROVE  LoopMoves /\ pc'["loop"] = where
<1>1. cx' = [NoCx EXCEPT !.after = after] /\ Goto("loop", where) /\ "loop" \in Procs
  BY DEF Handle, Procs
<1>2. cx'.done = None /\ cx'.torn = None /\ cx'.rewound = None
  BY <1>1 DEF NoCx
<1>3. pc'["loop"] = where
  BY <1>1, GotoMoves
<1>. QED
  BY <1>2, <1>3 DEF LoopMoves

(* A step that moves neither messages nor the loop. *)
LEMMA AsideIdle ==
    ASSUME UNCHANGED <<running, lock, pin, turn, spawned, chan, terminals, q,
                       fate, pc, cx>>
    PROVE  Aside
BY DEF Aside, FateMoves, LoopMoves, RestMoves

(* New entries of the queue. *)
LEMMA InsertAside ==
    ASSUME IndInv, ConserveInv
    PROVE  /\ \A i \in Prompts, now \in BOOLEAN : PromptUser(i, now) => Aside
           /\ \A i \in Synthetic, late \in BOOLEAN : PromptWake(i, late) => Aside
           /\ \A i \in Synthetic : GoalSummaryTurn(i) => Aside
           /\ \A i \in Synthetic : WorkflowCompletionTurn(i) => Aside
           /\ \A i \in ResumeTurns : ResumePlan(i) => Aside
<1>0. Queued \subseteq Ids /\ \A k \in Queued : fate[k] = "pending"
  BY QueueFacts, Unanswered
<1>1. ASSUME NEW i \in Prompts, NEW now \in BOOLEAN, PromptUser(i, now) PROVE Aside
  <2>1. /\ UNCHANGED <<running, lock, pin, turn, spawned, chan, terminals>>
        /\ LockFree /\ pc["loop"] = "idle" /\ fate[i] = "new"
    BY <1>1 DEF PromptUser, turnVars, Accept
  <2>2. PICK S : fate' = [k \in DOMAIN fate |->
                             IF k = i THEN "pending"
                             ELSE IF k \in Queued \ S THEN "dropped"
                             ELSE fate[k]]
    BY <1>1 DEF PromptUser
  <2>3. FateMoves
    <3>1. \A k \in Ids : fate'[k] = IF k = i THEN "pending"
                                    ELSE IF k \in Queued \ S THEN "dropped"
                                    ELSE fate[k]
      BY <2>2 DEF IndInv, TypeOK, EndType
    <3>. QED
      BY <1>0, <2>1, <3>1 DEF FateMoves
  <2>4. /\ \E where \in {"cancelNow", "start"} : Handle(where, "idle")
        /\ running = None => Handle("start", "idle")
    BY <1>1 DEF PromptUser
  <2>5. PICK where \in {"cancelNow", "start"} : Handle(where, "idle")
    BY <2>4
  <2>6. LoopMoves
    BY <2>1, <2>5, HandleMoves DEF MidPcs
  <2>7. RestMoves
    <3>1. running = None => pc'["loop"] = "start"
      BY <2>1, <2>4, HandleMoves DEF MidPcs
    <3>. QED
      BY <3>1 DEF RestMoves, RestPcs
  <2>. QED
    BY <2>1, <2>3, <2>6, <2>7 DEF Aside, LockFree
<1>2. ASSUME NEW i \in Synthetic, fate[i] = "new", pc["loop"] = "idle",
             LockFree, fate' = Resolve({i}, "pending"), Handle("start", "idle"),
             UNCHANGED <<running, lock, pin, turn, spawned, chan, terminals>>
      PROVE  Aside
  <2>1. FateMoves
    BY <1>2, ResolveMoves
  <2>2. LoopMoves /\ pc'["loop"] = "start"
    BY <1>2, HandleMoves DEF MidPcs
  <2>. QED
    BY <1>2, <2>1, <2>2 DEF Aside, RestMoves, RestPcs, LockFree
<1>3. ASSUME NEW i \in Synthetic, NEW late \in BOOLEAN, PromptWake(i, late) PROVE Aside
  <2>1. /\ UNCHANGED <<running, lock, pin, turn, spawned, chan, terminals>>
        /\ LockFree /\ pc["loop"] = "idle" /\ fate[i] = "new"
    BY <1>3 DEF PromptWake, turnVars, Accept
  <2>2. CASE ~(i \in TaskWakes /\ (suppressed \/ late))
    <3>1. fate' = Resolve({i}, "pending") /\ Handle("start", "idle")
      BY <1>3, <2>2 DEF PromptWake
    <3>. QED
      BY <1>2, <2>1, <3>1
  <2>3. CASE i \in TaskWakes /\ (suppressed \/ late)
    <3>1. UNCHANGED <<q, pc, cx>>
      BY <1>3, <2>3 DEF PromptWake
    <3>2. PICK f \in {"tooLate", "removed"} : fate' = Resolve({i}, f)
      BY <1>3, <2>3 DEF PromptWake
    <3>3. FateMoves /\ \A k \in Ids : fate'[k] = "pending" => fate[k] = "pending"
      BY <2>1, <3>2, ResolveMoves
    <3>. QED
      BY <2>1, <3>1, <3>3 DEF Aside, LoopMoves, RestMoves
  <2>. QED
    BY <2>2, <2>3
<1>4. ASSUME NEW i \in Synthetic, GoalSummaryTurn(i) PROVE Aside
  BY <1>2, <1>4 DEF GoalSummaryTurn, turnVars, Accept
<1>5. ASSUME NEW i \in Synthetic, WorkflowCompletionTurn(i) PROVE Aside
  BY <1>2, <1>5 DEF WorkflowCompletionTurn, turnVars, Accept
<1>6. ASSUME NEW i \in ResumeTurns, ResumePlan(i) PROVE Aside
  <2>1. /\ UNCHANGED <<running, lock, pin, turn, spawned, chan, terminals, cx>>
        /\ LockFree /\ fate[i] = "new" /\ fate' = Resolve({i}, "pending")
        /\ "resume" \in Procs \ {"loop"} /\ Goto("resume", "start")
    BY <1>6, Constants DEF ResumePlan, turnVars, Procs
  <2>2. FateMoves
    BY <2>1, ResolveMoves
  <2>3. pc'["loop"] = pc["loop"]
    BY <2>1, GotoMoves
  <2>4. \A k \in Ids \ ResumeTurns : fate'[k] = "pending" => fate[k] = "pending"
    BY <2>1, ResolveIs
  <2>. QED
    BY <2>1, <2>2, <2>3, <2>4 DEF Aside, LoopMoves, RestMoves, LockFree
<1>. QED
  BY <1>1, <1>3, <1>4, <1>5, <1>6

(* Messages are answered in place, or none is, and the loop stays idle.    *)
LEMMA AsideAnswer ==
    ASSUME IndInv, ConserveInv, LockFree, NEW R \in SUBSET Queued,
           NEW f, f \notin {"new", "answered", "cancelled", "rewound", "buffered", "pending"},
           fate' = Resolve(R, f),
           UNCHANGED <<running, lock, pin, turn, spawned, chan, terminals, pc, cx>>
    PROVE  Aside
<1>1. FateMoves /\ \A i \in Ids : fate'[i] = "pending" => fate[i] = "pending"
  BY Unanswered, ResolveMoves
<1>. QED
  BY <1>1 DEF Aside, LoopMoves, RestMoves, LockFree

(* Edits of the queue by clients. *)
LEMMA EditAside ==
    ASSUME IndInv, ConserveInv
    PROVE  /\ \A i \in Prompts : RemoveQueued(i) => Aside
           /\ \A i \in Prompts : InterjectQueued(i) => Aside
           /\ \A order : Reorder(order) => Aside
           /\ \A owner : ClearQueue(owner) => Aside
           /\ \A i \in Prompts : HoldCombineEdit(i) => Aside
           /\ \A i \in Prompts : ReleaseCombineEdit(i) => Aside
<1>1. ASSUME NEW i \in Prompts, RemoveQueued(i) PROVE Aside
  <2>1. {i} \in SUBSET Queued
    BY <1>1 DEF RemoveQueued
  <2>. QED
    BY <1>1, <2>1, AsideAnswer DEF RemoveQueued, turnVars
<1>2. ASSUME NEW i \in Prompts, InterjectQueued(i) PROVE Aside
  <2>1. /\ UNCHANGED <<running, lock, pin, turn, spawned, chan, terminals, fate>>
        /\ LockFree /\ pc["loop"] = "idle"
        /\ \E where \in {"cancelNow", "start"} : Handle(where, "idle")
        /\ running = None => Handle("start", "idle")
    BY <1>2 DEF InterjectQueued, turnVars, Accept
  <2>2. LoopMoves /\ (running = None => pc'["loop"] = "start")
    BY <2>1, HandleMoves DEF MidPcs
  <2>. QED
    BY <2>1, <2>2 DEF Aside, FateMoves, RestMoves, RestPcs, LockFree
<1>3. ASSUME NEW order, Reorder(order) PROVE Aside
  <2>1. /\ UNCHANGED <<running, lock, pin, turn, spawned, chan, terminals, fate, pc, cx>>
        /\ LockFree
    BY <1>3 DEF Reorder, turnVars, endVars
  <2>. QED
    BY <2>1 DEF Aside, FateMoves, LoopMoves, RestMoves, LockFree
<1>4. ASSUME NEW owner, ClearQueue(owner) PROVE Aside
  <2>1. PICK R \in SUBSET Queued : fate' = Resolve(R, "removed")
    BY <1>4 DEF ClearQueue
  <2>. QED
    BY <1>4, <2>1, AsideAnswer DEF ClearQueue, turnVars
<1>5. ASSUME NEW i \in Prompts, HoldCombineEdit(i) \/ ReleaseCombineEdit(i) PROVE Aside
  BY <1>5, AsideIdle DEF HoldCombineEdit, ReleaseCombineEdit, turnVars, endVars
<1>. QED
  BY <1>1, <1>2, <1>3, <1>4, <1>5

(* The loop moves on within a handler that is neither a cancel nor a pop.  *)
LEMMA GotoAside ==
    ASSUME IndInv, NEW where, where \notin MidPcs, Goto("loop", where),
           pc["loop"] \notin MidPcs, cx'.done \in {None, cx.done},
           cx'.torn \in {None, cx.torn}, cx'.rewound \in {None, cx.rewound}
    PROVE  LoopMoves /\ pc'["loop"] = where
<1>1. pc'["loop"] = where
  BY GotoMoves DEF Procs
<1>. QED
  BY <1>1 DEF LoopMoves

(* Interjections: into the buffer, out of it, and into the queue. *)
LEMMA InterjectAside ==
    ASSUME IndInv, ConserveInv
    PROVE  /\ \A i \in Interjections : Interject(i) => Aside
           /\ Flush => Aside
           /\ Requeue => Aside
<1>1. ASSUME NEW i \in Interjections, Interject(i) PROVE Aside
  <2>1. /\ UNCHANGED <<running, lock, pin, turn, spawned, chan, terminals, q>>
        /\ pc["loop"] = "idle" /\ fate[i] = "new" /\ fate' = Resolve({i}, "buffered")
    BY <1>1 DEF Interject, turnVars, stateVars, Accept
  <2>2. FateMoves /\ \A k \in Ids : fate'[k] = "pending" => fate[k] = "pending"
    BY <2>1, ResolveMoves
  <2>3. \/ UNCHANGED <<pc, cx>>
        \/ Goto("loop", "requeue") /\ cx' = [NoCx EXCEPT !.late = <<i>>]
    BY <1>1 DEF Interject
  <2>4. CASE UNCHANGED <<pc, cx>>
    BY <2>1, <2>2, <2>4 DEF Aside, LoopMoves, RestMoves
  <2>5. CASE Goto("loop", "requeue") /\ cx' = [NoCx EXCEPT !.late = <<i>>]
    <3>1. cx'.done = None /\ cx'.torn = None /\ cx'.rewound = None
      BY <2>5 DEF NoCx
    <3>2. LoopMoves /\ pc'["loop"] = "requeue"
      BY <2>1, <2>5, <3>1, GotoAside DEF MidPcs
    <3>. QED
      BY <2>1, <2>2, <3>2 DEF Aside, RestMoves, RestPcs
  <2>. QED
    BY <2>3, <2>4, <2>5
<1>2. ASSUME Flush PROVE Aside
  <2>1. /\ UNCHANGED <<running, lock, pin, turn, spawned, chan, terminals, q, fate>>
        /\ pc["loop"] = "flush" /\ cx' = [cx EXCEPT !.late = interj]
        /\ \E where \in {"start", "requeue"} : Goto("loop", where)
    BY <1>2 DEF Flush, turnVars, stateVars, endVars
  <2>2. cx'.done = cx.done /\ cx'.torn = cx.torn /\ cx'.rewound = cx.rewound
    BY <2>1 DEF IndInv, TypeOK, LoopType, CxType
  <2>3. LoopMoves /\ pc'["loop"] \in {"start", "requeue"}
    BY <2>1, <2>2, GotoAside DEF MidPcs
  <2>. QED
    BY <2>1, <2>3 DEF Aside, FateMoves, RestMoves, RestPcs
<1>3. ASSUME Requeue PROVE Aside
  <2>. DEFINE i == cx.late[Len(cx.late)]
              rest == SubSeq(cx.late, 1, Len(cx.late) - 1)
  <2>1. /\ UNCHANGED <<running, lock, pin, turn, spawned, chan, terminals>>
        /\ pc["loop"] = "requeue" /\ LockFree
        /\ fate' = Resolve({i}, "pending") /\ cx' = [cx EXCEPT !.late = rest]
        /\ \E where \in {"start", "requeue"} : Goto("loop", where)
    BY <1>3 DEF Requeue, turnVars
  <2>2. i \in ToSet(cx.late)
    <3>1. cx.late \in Seq(Interjections) /\ cx.late # <<>>
      BY <2>1 DEF IndInv, TypeOK, LoopType, CxType, LateInv
    <3>2. Len(cx.late) \in 1..Len(cx.late)
      BY <3>1, EmptySeq, LenProperties
    <3>. QED
      BY <3>1, <3>2, ToSetByIndex
  <2>3. fate[i] = "buffered"
    BY <2>2, Unanswered
  <2>4. FateMoves
    <3>. HIDE DEF i
    <3>. QED
      BY <2>1, <2>3, ResolveMoves
  <2>5. cx'.done = cx.done /\ cx'.torn = cx.torn /\ cx'.rewound = cx.rewound
    BY <2>1 DEF IndInv, TypeOK, LoopType, CxType
  <2>6. LoopMoves /\ pc'["loop"] \in {"start", "requeue"}
    BY <2>1, <2>5, GotoAside DEF MidPcs
  <2>. QED
    BY <2>1, <2>4, <2>6 DEF Aside, RestMoves, RestPcs, LockFree
<1>. QED
  BY <1>1, <1>2, <1>3

(* A task returns from a promotion attempt that had nothing to promote.    *)
LEMMA ReturnAside ==
    ASSUME IndInv, NEW p \in Procs, pc[p] \in {"start", "promote"}, Return(p),
           UNCHANGED <<running, lock, pin, turn, spawned, chan, terminals, cx>>,
           FateMoves, LockFree, running # None \/ q' = <<>>,
           \A i \in Ids : fate'[i] = "pending" => fate[i] = "pending"
    PROVE  Aside
<1>1. PICK where : Goto(p, where) /\ (p = "loop" => where \in {"idle", "drain"})
  BY DEF Return, IndInv, TypeOK, LoopType, CxType
<1>2. pc'["loop"] = IF p = "loop" THEN where ELSE pc["loop"]
  BY <1>1, GotoMoves
<1>3. LoopMoves
  BY <1>1, <1>2 DEF LoopMoves, MidPcs
<1>4. RestMoves
  BY <1>1, <1>2 DEF RestMoves
<1>. QED
  BY <1>3, <1>4 DEF Aside, LockFree

(* maybe_start_running_task, up to the choice of a front. *)
LEMMA PromotionAside ==
    ASSUME IndInv, ConserveInv
    PROVE  /\ \A p \in Procs : Start(p) => Aside
           /\ \A p \in Procs : Promote(p) => Aside \/ lock' # None
           /\ McpReady => Aside
<1>0. \A i \in Queued : fate[i] = "pending"
  BY Unanswered
<1>1. ASSUME NEW p \in Procs, Start(p) PROVE Aside
  <2>1. /\ UNCHANGED <<running, lock, pin, turn, spawned, chan, terminals, q, fate, cx>>
        /\ pc[p] = "start" /\ LockFree
    BY <1>1 DEF Start, turnVars, stateVars, endVars
  <2>2. FateMoves /\ \A i \in Ids : fate'[i] = "pending" => fate[i] = "pending"
    BY <2>1 DEF FateMoves
  <2>3. CASE NothingToPromote
    <3>1. Return(p) /\ (running # None \/ q' = <<>>)
      BY <1>1, <2>1, <2>3 DEF Start, NothingToPromote
    <3>. QED
      BY <2>1, <2>2, <3>1, ReturnAside
  <2>4. CASE ~NothingToPromote
    <3>1. Goto(p, "promote")
      BY <1>1, <2>4 DEF Start
    <3>2. pc'["loop"] = IF p = "loop" THEN "promote" ELSE pc["loop"]
      BY <3>1, GotoMoves
    <3>3. LoopMoves /\ RestMoves
      BY <2>1, <2>2, <3>2 DEF LoopMoves, RestMoves, MidPcs, RestPcs
    <3>. QED
      BY <2>1, <2>2, <3>3 DEF Aside, LockFree
  <2>. QED
    BY <2>3, <2>4
<1>2. ASSUME NEW p \in Procs, Promote(p) PROVE Aside \/ lock' # None
  <2>1. /\ UNCHANGED <<running, turn, spawned, chan, terminals, cx>>
        /\ pc[p] = "promote" /\ LockFree /\ p # None
    BY <1>2, Constants DEF Promote, turnVars, stateVars, endVars
  <2>2. \/ /\ NothingToPromote /\ Return(p) /\ UNCHANGED <<q, pin, lock, fate>>
        \/ /\ q' = <<>> /\ fate' = Resolve(Queued, "removed")
           /\ Return(p) /\ UNCHANGED <<pin, lock>>
        \/ lock' = p
    BY <1>2 DEF Promote
  <2>3. CASE NothingToPromote /\ Return(p) /\ UNCHANGED <<q, pin, lock, fate>>
    <3>1. /\ FateMoves /\ \A i \in Ids : fate'[i] = "pending" => fate[i] = "pending"
          /\ running # None \/ q' = <<>>
      BY <2>3 DEF FateMoves, NothingToPromote
    <3>. QED
      BY <2>1, <2>3, <3>1, ReturnAside
  <2>4. CASE /\ q' = <<>> /\ fate' = Resolve(Queued, "removed")
             /\ Return(p) /\ UNCHANGED <<pin, lock>>
    <3>1. FateMoves /\ \A i \in Ids : fate'[i] = "pending" => fate[i] = "pending"
      BY <1>0, <2>4, ResolveMoves
    <3>. QED
      BY <2>1, <2>4, <3>1, ReturnAside
  <2>. QED
    BY <2>1, <2>2, <2>3, <2>4
<1>3. ASSUME McpReady PROVE Aside
  <2>1. /\ UNCHANGED <<running, lock, pin, turn, spawned, chan, terminals, q, fate, cx>>
        /\ "mcp" \in Procs \ {"loop"} /\ Goto("mcp", "start")
    BY <1>3, Constants DEF McpReady, turnVars, stateVars, endVars, Procs
  <2>2. pc'["loop"] = pc["loop"]
    BY <2>1, GotoMoves
  <2>. QED
    BY <2>1, <2>2 DEF Aside, FateMoves, LoopMoves, RestMoves
<1>. QED
  BY <1>1, <1>2, <1>3

(* The rest of a completion, notifications, shutdown. *)
LEMMA HandlerAside ==
    ASSUME IndInv, ConserveInv
    PROVE  /\ Reengage => Aside
           /\ TurnEnd => Aside
           /\ DrainNotifications => Aside
           /\ Shutdown => Aside
           /\ \A e \in Notes : InjectNotification(e) => Aside
           /\ \A task \in TaskWakes : DropMonitorNotifications(task) => Aside
<1>0. Queued \subseteq Ids /\ \A i \in Queued : fate[i] = "pending"
  BY QueueFacts, Unanswered
<1>1. ASSUME Reengage PROVE Aside
  <2>1. /\ UNCHANGED <<running, lock, pin, turn, spawned, chan, terminals, q, fate, cx>>
        /\ pc["loop"] = "reengage" /\ Goto("loop", "start")
    BY <1>1 DEF Reengage, turnVars, endVars
  <2>2. LoopMoves /\ pc'["loop"] = "start"
    BY <2>1, GotoAside DEF MidPcs
  <2>. QED
    BY <2>1, <2>2 DEF Aside, FateMoves, RestMoves, RestPcs
<1>2. ASSUME TurnEnd PROVE Aside
  <2>1. /\ UNCHANGED <<running, lock, pin, turn, spawned, chan, terminals, cx>>
        /\ pc["loop"] = "turnEnd" /\ Goto("loop", "flush") /\ LockFree
    BY <1>2 DEF TurnEnd, turnVars
  <2>2. LoopMoves /\ pc'["loop"] = "flush"
    BY <2>1, GotoAside DEF MidPcs
  <2>3. \/ UNCHANGED fate
        \/ \E i \in GoalTurns : fate[i] = "new" /\ fate' = Resolve({i}, "pending")
    BY <1>2 DEF TurnEnd
  <2>4. FateMoves
    <3>1. CASE UNCHANGED fate
      BY <3>1 DEF FateMoves
    <3>2. ASSUME NEW i \in GoalTurns, fate[i] = "new", fate' = Resolve({i}, "pending")
          PROVE  FateMoves
      BY <3>2, ResolveMoves
    <3>. QED
      BY <2>3, <3>1, <3>2
  <2>. QED
    BY <2>1, <2>2, <2>4 DEF Aside, RestMoves, RestPcs, LockFree
<1>3. ASSUME DrainNotifications PROVE Aside
  <2>1. /\ UNCHANGED <<running, lock, pin, turn, spawned, chan, terminals>>
        /\ pc["loop"] = "drain" /\ LockFree
    BY <1>3 DEF DrainNotifications, turnVars
  <2>2. \/ Handle("idle", "idle") /\ UNCHANGED <<q, fate>>
        \/ \E i \in DrainTurns : /\ fate[i] = "new" /\ fate' = Resolve({i}, "pending")
                                 /\ Handle("start", "idle")
    BY <1>3 DEF DrainNotifications
  <2>3. CASE Handle("idle", "idle") /\ UNCHANGED <<q, fate>>
    <3>1. LoopMoves /\ pc'["loop"] = "idle"
      BY <2>1, <2>3, HandleMoves DEF MidPcs
    <3>. QED
      BY <2>1, <2>3, <3>1 DEF Aside, FateMoves, RestMoves, RestPcs
  <2>4. ASSUME NEW i \in DrainTurns, fate[i] = "new", fate' = Resolve({i}, "pending"),
               Handle("start", "idle")
        PROVE  Aside
    <3>1. LoopMoves /\ pc'["loop"] = "start"
      BY <2>1, <2>4, HandleMoves DEF MidPcs
    <3>2. FateMoves
      BY <2>4, ResolveMoves
    <3>. QED
      BY <2>1, <3>1, <3>2 DEF Aside, RestMoves, RestPcs, LockFree
  <2>. QED
    BY <2>2, <2>3, <2>4
<1>4. ASSUME Shutdown PROVE Aside
  <2>1. /\ UNCHANGED <<running, lock, pin, turn, spawned, chan, terminals>>
        /\ pc["loop"] = "idle" /\ LockFree
        /\ fate' = Resolve(Queued \cap Synthetic, "dropped") /\ Handle("ended", "idle")
    BY <1>4 DEF Shutdown, turnVars, Accept
  <2>2. LoopMoves /\ pc'["loop"] = "ended"
    BY <2>1, HandleMoves DEF MidPcs
  <2>3. FateMoves
    BY <1>0, <2>1, ResolveMoves
  <2>. QED
    BY <2>1, <2>2, <2>3 DEF Aside, RestMoves, RestPcs, LockFree
<1>5. ASSUME NEW e \in Notes, InjectNotification(e) PROVE Aside
  <2>1. /\ UNCHANGED <<running, lock, pin, turn, spawned, chan, terminals, q>>
        /\ pc["loop"] = "idle" /\ fate[e] = "new" /\ fate' = Resolve({e}, "noted")
        /\ UNCHANGED <<pc, cx>> \/ Handle("drain", "idle")
    BY <1>5 DEF InjectNotification, turnVars, Accept
  <2>2. FateMoves /\ \A i \in Ids : fate'[i] = "pending" => fate[i] = "pending"
    BY <2>1, ResolveMoves
  <2>3. LoopMoves
    BY <2>1, HandleMoves DEF LoopMoves, MidPcs
  <2>. QED
    BY <2>1, <2>2, <2>3 DEF Aside, RestMoves, RestPcs
<1>6. ASSUME NEW task \in TaskWakes, DropMonitorNotifications(task) PROVE Aside
  BY <1>6, AsideIdle DEF DropMonitorNotifications, turnVars, endVars
<1>. QED
  BY <1>1, <1>2, <1>3, <1>4, <1>5, <1>6

(* What an open turn does. *)
LEMMA WorkAside ==
    ASSUME IndInv, ConserveInv, NEW t \in Ids, TurnWork(t)
    PROVE  Aside
<1>1. CASE TurnOutput(t) \/ TurnWait(t) \/ TurnGoal(t) \/ TurnRound(t)
  BY <1>1, AsideIdle DEF TurnOutput, TurnWait, TurnGoal, TurnRound, stateVars,
                         turnVars, endVars
<1>2. CASE \E w \in WorkflowWakes : TurnReportsWorkflow(t, w)
  BY <1>2, AsideIdle DEF TurnReportsWorkflow, stateVars, turnVars, endVars
<1>3. CASE TurnInject(t)
  <2>1. /\ UNCHANGED <<running, lock, pin, turn, spawned, chan, terminals, q, pc, cx>>
        /\ fate' = Resolve(ToSet(interj), "merged")
    BY <1>3 DEF TurnInject, stateVars, turnVars
  <2>2. FateMoves /\ \A i \in Ids : fate'[i] = "pending" => fate[i] = "pending"
    BY <2>1, Unanswered, ResolveMoves
  <2>. QED
    BY <2>1, <2>2 DEF Aside, LoopMoves, RestMoves
<1>4. ASSUME NEW c, TurnConsumes(t, c) PROVE Aside
  <2>1. PICK R \in SUBSET Queued : fate' = Resolve(R, "dropped")
    BY <1>4 DEF TurnConsumes
  <2>. QED
    BY <1>4, <2>1, AsideAnswer DEF TurnConsumes, turnVars
<1>. QED
  BY <1>1, <1>2, <1>3, <1>4 DEF TurnWork

-----------------------------------------------------------------------------
(***************************************************************************)
(* Steps of the slot: a turn comes into it and goes through its life.      *)
(***************************************************************************)
(* The front is chosen and pinned; it has not been spawned before. *)
LEMMA PromoteKeeps ==
    ASSUME IndInv, ConserveInv, TurnInv, IndInv', ConserveInv',
           NEW p \in Procs, Promote(p), lock' # None
    PROVE  TurnInv'
<1>. DEFINE stale == RunLength(q, 1, WorkflowWakes \cap reported)
            live == DropFirst(q, stale)
            held == holds \cap ToSet(live)
            n == IF may[p] /\ CombineQueued THEN CombinePrefixLen(live, held) ELSE 1
            after == DropFirst(live, n)
            front == <<live[1]>>
<1>1. /\ UNCHANGED <<running, turn, spawned, chan, terminals, cx>>
      /\ pc[p] = "promote" /\ lock = None
  BY DEF Promote, turnVars, stateVars, endVars, LockFree
<1>2. /\ running = None /\ live # <<>> /\ q' = front \o after
      /\ fate' = Resolve(Queued \ ToSet(q'), "removed")
      /\ pin' = live[1] /\ Goto(p, "spawn")
  BY <1>1 DEF Promote, NothingToPromote
<1>3. q'[1] = pin' /\ q'[1] \in ToSet(q')
  <2>1. stale \in Nat
    BY QueueFacts, RunLengthBound
  <2>. HIDE DEF stale
  <2>2. live \in Seq(Ids)
    BY <2>1, QueueFacts, DropFirstType
  <2>. HIDE DEF live
  <2>3. Len(live) \in Nat /\ Len(live) # 0 /\ live[1] \in Ids
    BY <1>2, <2>2, EmptySeq, ElementOfSeq, LenProperties
  <2>4. n \in Nat
    <3>1. 2 \in 1..(Len(live) + 1)
      BY <2>3
    <3>2. RunLength(live, 2, Mergeable \ (Imaged \cup held)) \in Nat
      BY <2>2, <2>3, <3>1, RunLengthBound
    <3>. QED
      BY <3>2 DEF CombinePrefixLen
  <2>. HIDE DEF n
  <2>5. after \in Seq(Ids)
    BY <2>2, <2>4, DropFirstType
  <2>6. front \in Seq(Ids) /\ front # <<>> /\ front[1] = live[1]
    BY <2>3
  <2>. HIDE DEF after, front
  <2>7. q' # <<>> /\ q'[1] = live[1]
    BY <1>2, <2>5, <2>6, ConcatFront
  <2>8. q' \in Seq(Ids)
    BY DEF IndInv, TypeOK, StateType
  <2>9. 1 \in 1..Len(q')
    BY <2>7, <2>8, EmptySeq, LenProperties
  <2>. QED
    BY <1>2, <2>7, <2>8, <2>9, ToSetByIndex
<1>. HIDE DEF stale, live, held, n, after, front
<1>4. FateMoves /\ \A i \in Ids : fate'[i] = "pending" => fate[i] = "pending"
  <2>. DEFINE R == Queued \ ToSet(q')
  <2>1. fate' = Resolve(R, "removed") /\ \A i \in R : fate[i] = "pending"
    BY <1>2, Unanswered
  <2>. HIDE DEF R
  <2>. QED
    BY <2>1, ResolveMoves
<1>5. pc'["loop"] = IF p = "loop" THEN "spawn" ELSE pc["loop"]
  BY <1>2, GotoMoves
<1>6. LoopMoves /\ RestMoves
  BY <1>1, <1>4, <1>5 DEF LoopMoves, RestMoves, MidPcs, RestPcs
<1>7. /\ SpawnInv' /\ RunInv' /\ ChanInv' /\ LiveInv' /\ EndInv'
      /\ TornInv' /\ FreshInv' /\ TerminalOnce'
      /\ ToSet(q') \subseteq Ids
      /\ \A i \in ToSet(q') : fate[i] = "pending" => i \in Queued
  BY <1>1, <1>4, <1>6, SlotSame
<1>8. RestInv'
  BY <1>1, <1>6, <1>7, RestSame
<1>9. PinInv'
  <2>1. Claim' = pin' /\ Claim = None
    BY <1>1, <1>2, <1>3 DEF Claim
  <2>2. cx.done # None => pin' # cx.done
    <3>1. cx.done # None => cx.done \in Ids /\ turn[cx.done] = "over"
      BY DEF TurnInv, ChanInv, IndInv, TypeOK, LoopType, CxType
    <3>2. pin' \in Ids /\ spawned[pin'] = 0
      BY <1>1, <1>2, <1>3, <1>7, Constants DEF SpawnInv, Queued
    <3>3. turn[pin'] = "none"
      BY <3>2 DEF TurnInv, SpawnInv
    <3>. QED
      BY <3>1, <3>3
  <2>3. pc'["loop"] \in {"cancelSubs", "cancelLock"} => cx'.pinned = None
    BY <1>1, <1>5, <2>1 DEF TurnInv, PinInv
  <2>. QED
    BY <1>1, <2>1, <2>2, <2>3 DEF PinInv
<1>. QED
  BY <1>7, <1>8, <1>9 DEF TurnInv

(* The task of the chosen front is spawned. *)
LEMMA SpawnKeeps ==
    ASSUME IndInv, ConserveInv, TurnInv, IndInv', ConserveInv',
           NEW p \in Procs, Spawn(p)
    PROVE  TurnInv'
<1>. DEFINE i == q[1]
<1>1. /\ UNCHANGED <<q, fate, terminals, chan, pin, cx>>
      /\ pc[p] = "spawn" /\ lock = p /\ lock' = None /\ running' = i
      /\ turn' = [turn EXCEPT ![i] = "spawned"]
      /\ spawned' = [spawned EXCEPT ![i] = @ + 1]
      /\ \E where : Goto(p, where)
  BY DEF Spawn, endVars, Return
<1>2. running = None /\ q # <<>> /\ lock # None /\ None \notin Ids
  BY <1>1, Constants DEF IndInv, LockInv
<1>3. i \in Ids /\ i \in Queued /\ Queued \subseteq Ids
  <2>1. q \in Seq(Ids) /\ 1 \in 1..Len(q)
    BY <1>2, QueueFacts, EmptySeq
  <2>. QED
    BY <2>1, ToSetByIndex, QueueFacts DEF Queued
<1>. HIDE DEF i
<1>4. spawned[i] = 0 /\ turn[i] = "none" /\ fate[i] = "pending"
  BY <1>2, <1>3, Unanswered DEF TurnInv, SpawnInv
<1>5. /\ \A k \in Ids : spawned'[k] = IF k = i THEN 1 ELSE spawned[k]
      /\ \A k \in Ids : turn'[k] = IF k = i THEN "spawned" ELSE turn[k]
  BY <1>1, <1>3, <1>4 DEF IndInv, TypeOK, TurnType
<1>6. pc["loop"] \in MidPcs => p # "loop" /\ pc'["loop"] = pc["loop"]
  BY <1>1, GotoMoves DEF MidPcs
<1>7. pc'["loop"] \in MidPcs => pc'["loop"] = pc["loop"]
  <2>1. p = "loop" => pc'["loop"] \in {"idle", "drain"}
    <3>1. p = "loop" => Goto(p, cx.after) /\ cx.after \in {"idle", "drain"}
      BY DEF Spawn, Return, IndInv, TypeOK, LoopType, CxType
    <3>. QED
      BY <3>1, GotoMoves
  <2>2. p # "loop" => pc'["loop"] = pc["loop"]
    BY <1>1, GotoMoves
  <2>. QED
    BY <2>1, <2>2 DEF MidPcs
<1>8. SpawnInv' /\ RunInv'
  <2>1. \A k \in Queued : spawned[k] = 0
    BY <1>2, <1>3 DEF TurnInv, SpawnInv
  <2>2. ASSUME NEW k \in Ids
        PROVE  /\ spawned'[k] \in {0, 1}
               /\ turn'[k] = "none" <=> spawned'[k] = 0
               /\ fate'[k] \in {"new", "buffered"} => spawned'[k] = 0
               /\ spawned'[k] = 1 /\ k \in Queued => k = running'
    BY <1>1, <1>4, <1>5, <2>1 DEF TurnInv, SpawnInv
  <2>3. SpawnInv'
    BY <1>1, <2>2 DEF SpawnInv, Queued
  <2>. QED
    BY <1>1, <1>3, <1>5, <2>3 DEF RunInv
<1>9. ChanInv'
  <2>1. ToSet(chan) \subseteq Ids /\ (cx.done # None => cx.done \in Ids)
    BY ToSetByIndex DEF IndInv, TypeOK, LoopType, CxType
  <2>. QED
    BY <1>1, <1>4, <1>5, <2>1 DEF TurnInv, ChanInv
<1>10. LiveInv'
  BY <1>1, <1>2, <1>5, <1>6 DEF TurnInv, LiveInv, MidPcs
<1>11. EndInv'
  BY <1>1, <1>3, <1>5 DEF EndInv
<1>12. PinInv'
  <2>1. Claim' = Claim
    BY <1>1, <1>2 DEF Claim, i
  <2>. QED
    BY <1>1, <1>6, <1>7, <2>1 DEF TurnInv, PinInv, MidPcs
<1>13. TornInv'
  <2>1. cx.victims \subseteq Ids /\ cx.torn \in Ids \cup {None} /\ i \notin cx.victims
    BY <1>3 DEF IndInv, TypeOK, LoopType, CxType, ConserveInv, Conserved
  <2>. QED
    BY <1>1, <1>5, <1>7, <2>1 DEF TurnInv, TornInv, MidPcs
<1>14. FreshInv'
  BY <1>1, <1>6 DEF TurnInv, FreshInv, MidPcs
<1>15. RestInv'
  BY <1>1, <1>2, <1>3 DEF RestInv
<1>16. TerminalOnce'
  <2>. SUFFICES ASSUME NEW k \in Ids
                PROVE  /\ terminals'[k] <= 1
                       /\ terminals'[k] = 1 => spawned'[k] = 1 /\ fate'[k] \in {"answered", "cancelled"}
                       /\ fate'[k] = "answered" => terminals'[k] = 1
                       /\ fate'[k] = "cancelled" /\ spawned'[k] = 1 => terminals'[k] = 1
                       /\ fate'[k] = "rewound" => terminals'[k] = 0
    BY DEF TerminalOnce
  <2>. QED
    BY <1>1, <1>4, <1>5 DEF TurnInv, TerminalOnce
<1>. QED
  BY <1>8, <1>9, <1>10, <1>11, <1>12, <1>13, <1>14, <1>15, <1>16 DEF TurnInv

(* A sequence is its head and its tail. *)
LEMMA HeadTail ==
    ASSUME NEW S, NEW s \in Seq(S), s # <<>>
    PROVE  Head(s) \in S /\ ToSet(s) = {Head(s)} \cup ToSet(Tail(s))
<1>1. Len(s) \in Nat /\ Len(s) # 0
  BY EmptySeq, LenProperties
<1>2. /\ Head(s) = s[1] /\ Tail(s) \in Seq(S) /\ Len(Tail(s)) = Len(s) - 1
      /\ \A k \in 1..(Len(s) - 1) : Tail(s)[k] = s[k + 1]
  BY <1>1, HeadTailProperties
<1>3. \A x : x \in ToSet(s) <=> \E k \in 1..Len(s) : s[k] = x
  BY ToSetByIndex
<1>4. \A x : x \in ToSet(Tail(s)) <=> \E k \in 1..(Len(s) - 1) : s[k + 1] = x
  <2>. DEFINE r == Tail(s)
  <2>1. /\ r \in Seq(S) /\ Len(r) = Len(s) - 1
        /\ \A k \in 1..(Len(s) - 1) : r[k] = s[k + 1]
    BY <1>2
  <2>. HIDE DEF r
  <2>2. \A x : x \in ToSet(r) <=> \E k \in 1..Len(r) : r[k] = x
    BY <2>1, ToSetByIndex
  <2>3. \A x : x \in ToSet(r) <=> \E k \in 1..(Len(s) - 1) : s[k + 1] = x
    BY <2>1, <2>2
  <2>. QED
    BY <2>3 DEF r
<1>5. ASSUME NEW x, x \in ToSet(s) PROVE x = Head(s) \/ x \in ToSet(Tail(s))
  <2>1. PICK k \in 1..Len(s) : s[k] = x
    BY <1>3, <1>5
  <2>2. CASE k = 1
    BY <1>2, <2>1, <2>2
  <2>3. CASE k # 1
    <3>1. k - 1 \in 1..(Len(s) - 1) /\ (k - 1) + 1 = k
      BY <1>1, <2>3
    <3>. QED
      BY <1>4, <2>1, <3>1
  <2>. QED
    BY <2>2, <2>3
<1>6. ASSUME NEW x, x \in ToSet(Tail(s)) PROVE x \in ToSet(s)
  <2>1. PICK k \in 1..(Len(s) - 1) : s[k + 1] = x
    BY <1>4, <1>6
  <2>2. k + 1 \in 1..Len(s)
    BY <1>1
  <2>. QED
    BY <1>3, <2>1, <2>2
<1>7. 1 \in 1..Len(s)
  BY <1>1
<1>8. Head(s) \in ToSet(s) /\ Head(s) \in S
  BY <1>2, <1>3, <1>7, ElementOfSeq
<1>. QED
  BY <1>5, <1>6, <1>8

(* A turn goes on to another place of its life, or ends and says so.       *)
LEMMA LifeKeeps ==
    ASSUME IndInv, ConserveInv, TurnInv, IndInv', ConserveInv',
           NEW t \in Ids, turn[t] \in Live,
           NEW where \in Live \cup {"over"}, turn' = [turn EXCEPT ![t] = where],
           where = "over" => chan' = Append(chan, t),
           where # "over" => chan' = chan,
           pin' \in {None, pin},
           UNCHANGED <<q, running, lock, spawned, terminals, fate, pc, cx>>
    PROVE  TurnInv'
<1>1. /\ \A k \in Ids : turn'[k] = IF k = t THEN where ELSE turn[k]
      /\ turn[t] # "none" /\ turn[t] # "over" /\ where # "none" /\ "over" \notin Live
  BY DEF IndInv, TypeOK, TurnType, Live
<1>2. FateMoves /\ QueueMoves /\ ToSet(q') \subseteq Ids
  BY QueueFacts DEF FateMoves, QueueMoves, Queued
<1>3. SpawnInv' /\ RunInv'
  BY <1>1, <1>2, SpawnSame DEF TurnInv
<1>4. TerminalOnce'
  BY <1>2, TerminalSame DEF TurnInv
<1>5. /\ chan \in Seq(Ids) /\ ToSet(chan) \subseteq Ids
      /\ cx.done # None => cx.done \in Ids
      /\ ToSet(chan') = IF where = "over" THEN ToSet(chan) \cup {t} ELSE ToSet(chan)
  <2>1. chan \in Seq(Ids) /\ (cx.done # None => cx.done \in Ids)
    BY DEF IndInv, TypeOK, LoopType, CxType
  <2>2. ToSet(chan) \subseteq Ids
    BY <2>1, ToSetByIndex
  <2>3. ToSet(Append(chan, t)) = ToSet(chan) \cup {t}
    BY <2>1, AppendDistinct
  <2>4. ToSet(chan') = IF where = "over" THEN ToSet(chan) \cup {t} ELSE ToSet(chan)
    BY <2>3
  <2>. QED
    BY <2>1, <2>2, <2>4
<1>6. ChanInv'
  BY <1>1, <1>5 DEF TurnInv, ChanInv
<1>7. LiveInv'
  BY <1>1 DEF TurnInv, LiveInv
<1>8. EndInv'
  <2>1. running \in Ids \cup {None}
    BY DEF IndInv, TypeOK, StateType
  <2>. QED
    BY <1>1, <1>5, <2>1 DEF TurnInv, EndInv
<1>9. PinInv'
  <2>1. Claim' = Claim
    BY DEF Claim
  <2>. QED
    BY <2>1 DEF TurnInv, PinInv
<1>10. TornInv' /\ FreshInv'
  BY DEF TurnInv, TornInv, FreshInv
<1>11. RestInv'
  BY DEF TurnInv, RestInv, Queued
<1>. QED
  BY <1>3, <1>4, <1>6, <1>7, <1>8, <1>9, <1>10, <1>11 DEF TurnInv

(* The turn task. *)
LEMMA StepKeeps ==
    ASSUME IndInv, ConserveInv, TurnInv, IndInv', ConserveInv', NEW t \in Ids, TurnStep(t)
    PROVE  TurnInv'
<1>1. CASE TurnBegin(t)
  BY <1>1, LifeKeeps DEF TurnBegin, stateVars, endVars, Live
<1>2. CASE TurnOpen(t)
  BY <1>2, LifeKeeps DEF TurnOpen, endVars, Live
<1>3. CASE TurnLeaveScope(t)
  BY <1>3, LifeKeeps DEF TurnLeaveScope, stateVars, endVars, Live, Unpin
<1>4. CASE TurnFinish(t)
  BY <1>4, LifeKeeps DEF TurnFinish, stateVars, endVars, Live
<1>. QED
  BY <1>1, <1>2, <1>3, <1>4 DEF TurnStep

(* The completion of a turn is taken. *)
LEMMA CompletionKeeps ==
    ASSUME IndInv, ConserveInv, TurnInv, IndInv', ConserveInv', Completion
    PROVE  TurnInv'
<1>. DEFINE done == Head(chan)
<1>1. /\ UNCHANGED <<q, running, lock, turn, spawned, terminals, fate>>
      /\ pc["loop"] = "idle" /\ chan # <<>> /\ chan' = Tail(chan)
      /\ pin' = Unpin(done)
      /\ cx' = [NoCx EXCEPT !.done = done, !.after = "drain"]
      /\ Goto("loop", "pop")
  BY DEF Completion, stateVars, turnVars, endVars
<1>2. chan \in Seq(Ids)
  BY DEF IndInv, TypeOK, LoopType
<1>3. done \in Ids /\ ToSet(chan) = {done} \cup ToSet(chan')
  BY <1>1, <1>2, HeadTail
<1>. HIDE DEF done
<1>4. cx'.done = done /\ cx'.torn = None /\ cx'.rewound = None /\ pc'["loop"] = "pop"
  BY <1>1, GotoMoves DEF NoCx, Procs
<1>5. FateMoves /\ QueueMoves /\ ToSet(q') \subseteq Ids
  BY <1>1, QueueFacts DEF FateMoves, QueueMoves, Queued
<1>6. SpawnInv' /\ RunInv' /\ TerminalOnce'
  BY <1>1, <1>5, SpawnSame, TerminalSame DEF TurnInv
<1>7. ChanInv'
  BY <1>1, <1>3, <1>4 DEF TurnInv, ChanInv
<1>8. LiveInv' /\ EndInv'
  BY <1>1, <1>3, <1>4 DEF TurnInv, LiveInv, EndInv
<1>9. PinInv'
  <2>1. Claim' = Claim
    BY <1>1 DEF Claim
  <2>2. pin' # None => pin' = pin /\ pin # done
    BY <1>1 DEF Unpin
  <2>. QED
    BY <1>1, <1>4, <2>1, <2>2 DEF TurnInv, PinInv
<1>10. TornInv' /\ FreshInv' /\ RestInv'
  BY <1>4 DEF TornInv, FreshInv, RestInv, RestPcs
<1>. QED
  BY <1>6, <1>7, <1>8, <1>9, <1>10 DEF TurnInv

(* The completed turn leaves the slot, if it still has it. *)
LEMMA PopKeeps ==
    ASSUME IndInv, ConserveInv, TurnInv, IndInv', ConserveInv', PopFront
    PROVE  TurnInv'
<1>. DEFINE done == cx.done
            owned == q # <<>> /\ q[1] = done
<1>1. /\ UNCHANGED <<lock, pin, turn, spawned, chan, cx>>
      /\ pc["loop"] = "pop" /\ lock = None
      /\ q' = IF owned THEN Tail(q) ELSE q
      /\ running' = IF owned \/ running = done THEN None ELSE running
      /\ fate' = IF owned THEN Resolve({done}, "answered") ELSE fate
      /\ terminals' = IF owned THEN [terminals EXCEPT ![done] = @ + 1] ELSE terminals
      /\ Goto("loop", "turnEnd")
  BY DEF PopFront, turnVars, LockFree
<1>2. pc'["loop"] = "turnEnd" /\ None \notin Ids
  BY <1>1, GotoMoves, Constants DEF Procs
<1>3. /\ q \in Seq(Ids) /\ IsInjective(q) /\ running \in Ids \cup {None}
      /\ running # None => q # <<>> /\ q[1] = running
  BY <1>1, QueueFacts DEF ConserveInv, Conserved, IndInv, TypeOK, StateType
<1>4. ChanInv'
  BY <1>1 DEF TurnInv, ChanInv
<1>5. TornInv' /\ FreshInv' /\ RestInv'
  BY <1>1, <1>2 DEF TurnInv, TornInv, FreshInv, RestInv, RestPcs
<1>6. CASE ~owned
  <2>1. UNCHANGED <<q, running, fate, terminals>>
    BY <1>1, <1>3, <1>6
  <2>2. FateMoves /\ QueueMoves /\ ToSet(q') \subseteq Ids
    BY <2>1, QueueFacts DEF FateMoves, QueueMoves, Queued
  <2>3. SpawnInv' /\ RunInv' /\ TerminalOnce'
    BY <1>1, <2>1, <2>2, SpawnSame, TerminalSame DEF TurnInv
  <2>4. LiveInv'
    BY <1>1, <2>1 DEF TurnInv, LiveInv
  <2>5. EndInv'
    BY <1>1, <1>3, <1>6, <2>1 DEF TurnInv, EndInv
  <2>6. PinInv'
    <3>1. Claim' = Claim
      BY <1>1, <2>1 DEF Claim
    <3>. QED
      BY <1>1, <1>2, <3>1 DEF TurnInv, PinInv
  <2>. QED
    BY <1>4, <1>5, <2>3, <2>4, <2>5, <2>6 DEF TurnInv
<1>7. CASE owned
  <2>1. /\ done \in Ids /\ done \in Queued
        /\ ToSet(q') = Queued \ {done} /\ Queued \subseteq Ids
    BY <1>1, <1>3, <1>7, TailDistinct, QueueFacts DEF Queued
  <2>2. turn[done] = "over" /\ spawned[done] = 1
    BY <1>2, <2>1 DEF TurnInv, ChanInv, SpawnInv
  <2>3. running = done /\ running' = None
    BY <1>1, <1>7, <2>1, <2>2 DEF TurnInv, SpawnInv
  <2>. HIDE DEF done, owned
  <2>4. /\ \A k \in Ids : fate'[k] = IF k = done THEN "answered" ELSE fate[k]
        /\ \A k \in Ids : terminals'[k] = IF k = done THEN terminals[k] + 1 ELSE terminals[k]
    <3>1. fate' = Resolve({done}, "answered") /\ terminals' = [terminals EXCEPT ![done] = @ + 1]
      BY <1>1, <1>7
    <3>2. \A k \in Ids : fate'[k] = IF k = done THEN "answered" ELSE fate[k]
      BY <3>1, ResolveIs
    <3>. QED
      BY <2>1, <3>1, <3>2 DEF IndInv, TypeOK, EndType
  <2>5. SpawnInv' /\ RunInv'
    <3>1. ASSUME NEW k \in Ids
          PROVE  /\ spawned'[k] \in {0, 1}
                 /\ turn'[k] = "none" <=> spawned'[k] = 0
                 /\ fate'[k] \in {"new", "buffered"} => spawned'[k] = 0
                 /\ spawned'[k] = 1 /\ k \in ToSet(q') => k = running'
      BY <1>1, <2>1, <2>3, <2>4 DEF TurnInv, SpawnInv
    <3>2. SpawnInv'
      BY <3>1 DEF SpawnInv, Queued
    <3>. QED
      BY <2>3, <3>2 DEF RunInv
  <2>6. LiveInv' /\ EndInv'
    <3>1. "over" \notin Live
      BY DEF Live
    <3>. QED
      BY <1>1, <2>2, <2>3, <3>1 DEF TurnInv, LiveInv, EndInv
  <2>7. PinInv'
    <3>1. Claim = done
      BY <1>1, <2>3 DEF Claim
    <3>2. pin = None
      BY <1>1, <3>1 DEF TurnInv, PinInv, done
    <3>. QED
      BY <1>1, <1>2, <3>2 DEF PinInv
  <2>8. TerminalOnce'
    <3>1. fate[done] = "pending" /\ terminals[done] \in Nat
      BY <2>1, Unanswered DEF IndInv, TypeOK, EndType
    <3>2. terminals[done] = 0
      <4>1. terminals[done] <= 1 /\ terminals[done] # 1
        BY <2>1, <3>1 DEF TurnInv, TerminalOnce
      <4>. QED
        BY <3>1, <4>1
    <3>. SUFFICES ASSUME NEW k \in Ids
                  PROVE  /\ terminals'[k] <= 1
                         /\ terminals'[k] = 1 => spawned'[k] = 1 /\ fate'[k] \in {"answered", "cancelled"}
                         /\ fate'[k] = "answered" => terminals'[k] = 1
                         /\ fate'[k] = "cancelled" /\ spawned'[k] = 1 => terminals'[k] = 1
                         /\ fate'[k] = "rewound" => terminals'[k] = 0
      BY DEF TerminalOnce
    <3>3. CASE k = done
      <4>1. terminals'[done] = 1 /\ fate'[done] = "answered"
        BY <2>1, <2>4, <3>2
      <4>2. spawned'[done] = 1
        BY <1>1, <2>2
      <4>. QED
        BY <3>3, <4>1, <4>2
    <3>4. CASE k # done
      <4>1. fate'[k] = fate[k] /\ terminals'[k] = terminals[k]
        BY <2>4, <3>4
      <4>2. spawned'[k] = spawned[k]
        BY <1>1
      <4>. QED
        BY <4>1, <4>2 DEF TurnInv, TerminalOnce
    <3>. QED
      BY <3>3, <3>4
  <2>. QED
    BY <1>4, <1>5, <2>5, <2>6, <2>7, <2>8 DEF TurnInv
<1>. QED
  BY <1>6, <1>7

-----------------------------------------------------------------------------
(***************************************************************************)
(* Steps of the slot: a cancel takes a turn out of it.                     *)
(***************************************************************************)
(* An abort ends a live turn and no other. *)
LEMMA AbortIs ==
    ASSUME IndInv, NEW t \in Ids, turn' = Aborted(t)
    PROVE  \A k \in Ids : /\ k # t => turn'[k] = turn[k]
                          /\ turn'[k] = "none" <=> turn[k] = "none"
                          /\ turn[k] = "over" => turn'[k] = "over"
                          /\ turn'[t] \notin Live
<1>1. \A k \in Ids : turn'[k] = IF k = t THEN (IF turn[k] \in Live THEN "over" ELSE turn[k])
                               ELSE turn[k]
  BY DEF IndInv, TypeOK, TurnType, Aborted
<1>2. "over" \notin Live /\ "none" \notin Live
  BY DEF Live
<1>. QED
  BY <1>1, <1>2

(* The cancel reads the pin, and goes on to its first lock. *)
LEMMA EnterKeeps ==
    ASSUME IndInv, ConserveInv, TurnInv, IndInv', ConserveInv', FateMoves,
           UNCHANGED <<q, running, lock, pin, turn, spawned, chan, terminals>>,
           pc["loop"] \in {"idle", "cancelNow"},
           pc'["loop"] \in {"cancelSubs", "cancelLock"},
           cx'.pinned = pin, cx'.done \in {None, cx.done},
           cx'.torn \in {None, cx.torn}, cx'.rewound \in {None, cx.rewound}
    PROVE  TurnInv'
<1>1. QueueMoves /\ ToSet(q') \subseteq Ids
  BY QueueFacts DEF QueueMoves, Queued
<1>2. SpawnInv' /\ RunInv' /\ TerminalOnce'
  BY <1>1, SpawnSame, TerminalSame DEF TurnInv
<1>3. ChanInv'
  BY DEF TurnInv, ChanInv
<1>4. LiveInv'
  BY DEF TurnInv, LiveInv
<1>5. EndInv'
  BY DEF TurnInv, EndInv
<1>6. PinInv'
  <2>1. Claim' = Claim
    BY DEF Claim
  <2>. QED
    BY <2>1 DEF TurnInv, PinInv
<1>7. TornInv' /\ FreshInv'
  BY DEF TurnInv, TornInv, FreshInv
<1>8. RestInv'
  BY DEF TurnInv, RestInv, RestPcs, Queued
<1>. QED
  BY <1>2, <1>3, <1>4, <1>5, <1>6, <1>7, <1>8 DEF TurnInv

(* The fates a cancel of the buffer gives. *)
LEMMA BufferMoves ==
    ASSUME IndInv, ConserveInv, fate' = Resolve(ToSet(interj), "cleared")
    PROVE  FateMoves
BY Unanswered, ResolveMoves

(* SessionCommand::Cancel and the cancel of a send-now begin. *)
LEMMA CancelBeginKeeps ==
    ASSUME IndInv, ConserveInv, TurnInv, IndInv', ConserveInv'
    PROVE  /\ \A kind \in CancelKinds : CancelBegin(kind) => TurnInv'
           /\ CancelForSendNow => TurnInv'
<1>1. ASSUME NEW kind \in CancelKinds, CancelBegin(kind) PROVE TurnInv'
  <2>1. /\ UNCHANGED <<q, running, lock, pin, turn, spawned, chan, terminals>>
        /\ pc["loop"] = "idle" /\ fate' = Resolve(ToSet(interj), "cleared")
    BY <1>1 DEF CancelBegin, Accept
  <2>2. FateMoves
    BY <2>1, BufferMoves
  <2>3. CASE kind.ctrlC /\ ~LockFree
    <3>1. Handle("ended", "idle")
      BY <1>1, <2>3 DEF CancelBegin
    <3>2. LoopMoves /\ pc'["loop"] = "ended"
      BY <2>1, <3>1, HandleMoves DEF MidPcs
    <3>3. Aside
      BY <2>1, <2>2, <3>2 DEF Aside, RestMoves, RestPcs
    <3>. QED
      BY <3>3, AsideKeeps
  <2>4. CASE ~(kind.ctrlC /\ ~LockFree)
    <3>1. /\ cx' = [NoCx EXCEPT !.kind = kind, !.pinned = pin,
                        !.after = IF kind.ctrlC THEN "idle" ELSE "drain"]
          /\ \E where \in {"cancelSubs", "cancelLock"} : Goto("loop", where)
      BY <1>1, <2>4 DEF CancelBegin
    <3>2. cx'.pinned = pin /\ cx'.done = None /\ cx'.torn = None /\ cx'.rewound = None
      BY <3>1 DEF NoCx
    <3>3. pc'["loop"] \in {"cancelSubs", "cancelLock"}
      BY <3>1, GotoMoves DEF Procs
    <3>. QED
      BY <2>1, <2>2, <3>2, <3>3, EnterKeeps
  <2>. QED
    BY <2>3, <2>4
<1>2. ASSUME CancelForSendNow PROVE TurnInv'
  <2>1. /\ UNCHANGED <<q, running, lock, pin, turn, spawned, chan, terminals>>
        /\ pc["loop"] = "cancelNow" /\ fate' = Resolve(ToSet(interj), "cleared")
        /\ cx' = [cx EXCEPT !.sendNow = TRUE, !.pinned = pin]
        /\ Goto("loop", "cancelLock")
    BY <1>2 DEF CancelForSendNow, stateVars, turnVars
  <2>2. FateMoves
    BY <2>1, BufferMoves
  <2>3. /\ cx'.pinned = pin /\ cx'.done = cx.done
        /\ cx'.torn = cx.torn /\ cx'.rewound = cx.rewound
    BY <2>1 DEF IndInv, TypeOK, LoopType, CxType
  <2>4. pc'["loop"] = "cancelLock"
    BY <2>1, GotoMoves DEF Procs
  <2>. QED
    BY <2>1, <2>2, <2>3, <2>4, EnterKeeps
<1>. QED
  BY <1>1, <1>2

(* The producer is aborted and keeps its slot until the second lock. *)
LEMMA AbortEarlyKeeps ==
    ASSUME IndInv, ConserveInv, TurnInv, IndInv', ConserveInv', CancelAbortEarly
    PROVE  TurnInv'
<1>1. /\ UNCHANGED <<q, running, lock, pin, spawned, chan, terminals, fate, cx>>
      /\ pc["loop"] = "cancelSubs" /\ Goto("loop", "cancelLock")
      /\ turn' = IF running = None THEN turn ELSE Aborted(running)
  BY DEF CancelAbortEarly, stateVars, endVars
<1>2. pc'["loop"] = "cancelLock"
  BY <1>1, GotoMoves DEF Procs
<1>3. \A k \in Ids : /\ k # running => turn'[k] = turn[k]
                     /\ turn'[k] = "none" <=> turn[k] = "none"
                     /\ turn[k] = "over" => turn'[k] = "over"
  <2>1. running \in Ids \cup {None}
    BY DEF IndInv, TypeOK, StateType
  <2>. QED
    BY <1>1, <2>1, AbortIs
<1>4. FateMoves /\ QueueMoves /\ ToSet(q') \subseteq Ids
  BY <1>1, QueueFacts DEF FateMoves, QueueMoves, Queued
<1>5. SpawnInv' /\ RunInv' /\ TerminalOnce'
  BY <1>1, <1>3, <1>4, SpawnSame, TerminalSame DEF TurnInv
<1>6. ChanInv'
  <2>1. ToSet(chan) \subseteq Ids /\ (cx.done # None => cx.done \in Ids)
    BY ToSetByIndex DEF IndInv, TypeOK, LoopType, CxType
  <2>. QED
    BY <1>1, <1>3, <2>1 DEF TurnInv, ChanInv
<1>7. LiveInv'
  BY <1>1, <1>3 DEF TurnInv, LiveInv
<1>8. EndInv'
  BY <1>2 DEF EndInv
<1>9. PinInv'
  <2>1. Claim' = Claim
    BY <1>1 DEF Claim
  <2>. QED
    BY <1>1, <1>2, <2>1 DEF TurnInv, PinInv
<1>10. TornInv' /\ FreshInv'
  BY <1>1, <1>2 DEF TurnInv, TornInv, FreshInv
<1>11. RestInv'
  BY <1>1, <1>2 DEF TurnInv, RestInv, RestPcs, Queued
<1>. QED
  BY <1>5, <1>6, <1>7, <1>8, <1>9, <1>10, <1>11 DEF TurnInv

(* What the locked section takes out of the queue. *)
LEMMA LockedTakes ==
    ASSUME IndInv, ConserveInv, CancelLocked
    PROVE  /\ FateMoves /\ \A i \in Ids : fate'[i] = "pending" => fate[i] = "pending"
           /\ UNCHANGED <<lock, pin, spawned, chan, terminals>>
           /\ pc["loop"] = "cancelLock" /\ lock = None /\ pc'["loop"] = "cancelEnd"
           /\ running' = None
           /\ cx'.done = cx.done /\ cx'.pinned = cx.pinned /\ cx'.kind = cx.kind
           /\ cx'.victims \subseteq Queued
           /\ q # <<>> => q[1] \in cx'.victims
           /\ ~cx.kind.kill => \A i \in cx'.victims : q # <<>> /\ i = q[1]
           /\ \/ /\ q # <<>> /\ cx'.rewound = q[1] /\ cx'.torn = cx.torn
                 /\ cx'.victims = {q[1]}
                 /\ turn' = IF running = None THEN turn ELSE Aborted(running)
              \/ cx'.rewound = cx.rewound /\ cx'.torn = running /\ turn' = turn
<1>. DEFINE kind == cx.kind
            rewind == kind.rewind /\ rewindable
            gone == IF kind.ctrlC /\ ~kind.kill THEN WakesBehind(q) ELSE {}
            taken == IF kind.kill THEN Queued ELSE IF q = <<>> THEN {} ELSE {q[1]}
<1>1. /\ UNCHANGED <<lock, pin, spawned, chan, terminals>>
      /\ pc["loop"] = "cancelLock" /\ lock = None /\ Goto("loop", "cancelEnd")
      /\ running' = None
  BY DEF CancelLocked, LockFree
<1>2. pc'["loop"] = "cancelEnd"
  BY <1>1, GotoMoves DEF Procs
<1>3. cx \in CxType
  BY DEF IndInv, TypeOK, LoopType
<1>4. q # <<>> => q[1] \in Queued
  <2>1. q \in Seq(Ids)
    BY QueueFacts
  <2>2. q # <<>> => 1 \in 1..Len(q)
    BY <2>1, EmptySeq, LenProperties
  <2>. QED
    BY <2>1, <2>2, ToSetByIndex DEF Queued
<1>5. \/ /\ q # <<>> /\ cx' = [cx EXCEPT !.victims = {q[1]}, !.rewound = q[1]]
         /\ turn' = IF running = None THEN turn ELSE Aborted(running)
         /\ fate' = fate
      \/ /\ cx' = [cx EXCEPT !.torn = running, !.victims = taken]
         /\ fate' = Resolve(gone, "removed") /\ turn' = turn
  BY DEF CancelLocked
<1>6. CASE /\ q # <<>> /\ cx' = [cx EXCEPT !.victims = {q[1]}, !.rewound = q[1]]
           /\ turn' = IF running = None THEN turn ELSE Aborted(running)
           /\ fate' = fate
  <2>1. /\ cx'.victims = {q[1]} /\ cx'.rewound = q[1] /\ cx'.torn = cx.torn
        /\ cx'.done = cx.done /\ cx'.pinned = cx.pinned /\ cx'.kind = cx.kind
    BY <1>3, <1>6 DEF CxType
  <2>. QED
    BY <1>1, <1>2, <1>4, <1>6, <2>1 DEF FateMoves
<1>7. CASE /\ cx' = [cx EXCEPT !.torn = running, !.victims = taken]
           /\ fate' = Resolve(gone, "removed") /\ turn' = turn
  <2>1. gone \subseteq Queued
    <3>1. q \in Seq(Ids) /\ Len(q) \in Nat
      BY QueueFacts
    <3>2. \A k \in 2..Len(q) : k \in 1..Len(q)
      BY <3>1
    <3>. QED
      BY <3>1, <3>2, ToSetByIndex DEF WakesBehind, Queued
  <2>2. FateMoves /\ \A i \in Ids : fate'[i] = "pending" => fate[i] = "pending"
    <3>. HIDE DEF gone
    <3>. QED
      BY <1>7, <2>1, Unanswered, ResolveMoves
  <2>3. /\ cx'.victims = taken /\ cx'.torn = running /\ cx'.rewound = cx.rewound
        /\ cx'.done = cx.done /\ cx'.pinned = cx.pinned /\ cx'.kind = cx.kind
    <3>. HIDE DEF taken
    <3>. QED
      BY <1>3, <1>7 DEF CxType
  <2>4. /\ taken \subseteq Queued /\ (q # <<>> => q[1] \in taken)
        /\ ~kind.kill => \A i \in taken : q # <<>> /\ i = q[1]
    BY <1>4
  <2>. HIDE DEF taken, gone
  <2>. QED
    BY <1>1, <1>2, <1>7, <2>2, <2>3, <2>4
<1>. QED
  BY <1>5, <1>6, <1>7

(* The slot is emptied, and its prompt is in the hands of the cancel.      *)
LEMMA LockedKeeps ==
    ASSUME IndInv, ConserveInv, TurnInv, IndInv', ConserveInv', CancelLocked
    PROVE  TurnInv'
<1>1. /\ FateMoves /\ \A i \in Ids : fate'[i] = "pending" => fate[i] = "pending"
      /\ UNCHANGED <<lock, pin, spawned, chan, terminals>>
      /\ pc["loop"] = "cancelLock" /\ lock = None /\ pc'["loop"] = "cancelEnd"
      /\ running' = None
      /\ cx'.done = cx.done /\ cx'.pinned = cx.pinned /\ cx'.kind = cx.kind
      /\ cx'.victims \subseteq Queued
      /\ q # <<>> => q[1] \in cx'.victims
      /\ ~cx.kind.kill => \A i \in cx'.victims : q # <<>> /\ i = q[1]
  BY LockedTakes
<1>2. \/ /\ q # <<>> /\ cx'.rewound = q[1] /\ cx'.torn = cx.torn
         /\ cx'.victims = {q[1]}
         /\ turn' = IF running = None THEN turn ELSE Aborted(running)
      \/ cx'.rewound = cx.rewound /\ cx'.torn = running /\ turn' = turn
  BY LockedTakes
<1>3. /\ running \in Ids \cup {None} /\ None \notin Ids /\ Queued \subseteq Ids
      /\ running # None => q # <<>> /\ q[1] = running
  BY <1>1, QueueFacts, Constants DEF IndInv, TypeOK, StateType
<1>4. cx.torn = None /\ cx.rewound = None
  BY <1>1 DEF TurnInv, FreshInv
<1>5. \A k \in Ids : /\ k # running => turn'[k] = turn[k]
                     /\ turn'[k] = "none" <=> turn[k] = "none"
                     /\ turn[k] = "over" => turn'[k] = "over"
  BY <1>2, <1>3, AbortIs
<1>6. ToSet(q') \subseteq Queued /\ ToSet(q') \cap cx'.victims = {}
  <2>1. ToSet(q') \subseteq Ids /\ \A i \in ToSet(q') : fate[i] = "pending" => i \in Queued
    BY <1>1, MovesQueue
  <2>2. \A i \in ToSet(q') : fate'[i] = "pending"
    BY <2>1 DEF ConserveInv, Conserved, Queued
  <2>3. ToSet(q') \cap cx'.victims = {}
    BY DEF ConserveInv, Conserved, Queued
  <2>. QED
    BY <1>1, <2>1, <2>2, <2>3
<1>7. \A i \in Queued : spawned[i] = 1 => i = running
  BY <1>3 DEF TurnInv, SpawnInv
<1>8. SpawnInv' /\ RunInv'
  <2>1. \A k \in ToSet(q') : spawned[k] # 1
    BY <1>1, <1>3, <1>6, <1>7
  <2>2. ASSUME NEW k \in Ids
        PROVE  /\ spawned'[k] \in {0, 1}
               /\ turn'[k] = "none" <=> spawned'[k] = 0
               /\ fate'[k] \in {"new", "buffered"} => spawned'[k] = 0
               /\ spawned'[k] = 1 /\ k \in ToSet(q') => k = running'
    <3>1. fate'[k] \in {"new", "buffered"} => fate[k] \in {"new", "buffered"}
      BY <1>1 DEF FateMoves
    <3>. QED
      BY <1>1, <1>5, <2>1, <3>1 DEF TurnInv, SpawnInv
  <2>3. SpawnInv'
    BY <2>2 DEF SpawnInv, Queued
  <2>. QED
    BY <1>1, <2>3 DEF RunInv
<1>9. ChanInv'
  <2>1. ToSet(chan) \subseteq Ids /\ (cx.done # None => cx.done \in Ids)
    BY ToSetByIndex DEF IndInv, TypeOK, LoopType, CxType
  <2>. QED
    BY <1>1, <1>5, <2>1 DEF TurnInv, ChanInv
<1>10. LiveInv'
  <2>. SUFFICES ASSUME NEW t \in Ids, turn'[t] \in Live PROVE t = cx'.torn
    BY <1>1 DEF LiveInv
  <2>1. turn[t] \in Live => t = running
    BY <1>1 DEF TurnInv, LiveInv
  <2>2. CASE turn' = Aborted(running) /\ running # None
    BY <1>3, <1>5, <2>1, <2>2, AbortIs
  <2>3. CASE turn' = turn /\ (cx'.torn = running \/ running = None)
    BY <1>3, <2>1, <2>3
  <2>. QED
    BY <1>2, <2>2, <2>3
<1>11. EndInv' /\ PinInv' /\ RestInv' /\ FreshInv'
  BY <1>1 DEF EndInv, PinInv, RestInv, RestPcs, FreshInv
<1>12. TornInv'
  <2>1. cx.pinned # None => cx.pinned = running
    BY <1>1 DEF TurnInv, PinInv, Claim
  <2>2. running # None => running \in cx'.victims /\ spawned[running] = 1
    BY <1>1, <1>3 DEF TurnInv, RunInv
  <2>3. \A i \in cx'.victims : spawned[i] = 1 => i = running
    BY <1>1, <1>7
  <2>4. ~cx.kind.kill => \A i \in cx'.victims \cap UserMessages : spawned[i] = 1
    <3>1. running = None => cx'.victims \cap UserMessages = {}
      <4>1. running = None => Queued \subseteq ResumeTurns
        BY <1>1 DEF TurnInv, RestInv, RestPcs
      <4>2. ResumeTurns \cap UserMessages = {}
        BY Kinds DEF Synthetic
      <4>. QED
        BY <1>1, <4>1, <4>2
    <3>. QED
      BY <1>1, <1>3, <2>2, <3>1
  <2>5. CASE q # <<>> /\ cx'.rewound = q[1] /\ cx'.torn = cx.torn
    <3>1. cx'.torn = None /\ cx'.rewound # None
      <4>1. q[1] \in Queued
        BY <1>1, <2>5
      <4>. QED
        BY <1>3, <1>4, <2>5, <4>1
    <3>2. \A i \in cx'.victims : spawned[i] = 1 => i = cx'.rewound
      BY <1>1, <1>3, <2>3, <2>5
    <3>. QED
      BY <1>1, <2>4, <3>1, <3>2 DEF TornInv
  <2>6. CASE cx'.rewound = cx.rewound /\ cx'.torn = running
    BY <1>1, <1>4, <2>1, <2>2, <2>3, <2>4, <2>6 DEF TornInv
  <2>. QED
    BY <1>2, <2>5, <2>6
<1>13. TerminalOnce'
  BY <1>1, TerminalSame DEF TurnInv
<1>. QED
  BY <1>8, <1>9, <1>10, <1>11, <1>12, <1>13 DEF TurnInv

(* The torn task is aborted, its terminal emitted, the victims answered.   *)
LEMMA EndKeeps ==
    ASSUME IndInv, ConserveInv, TurnInv, IndInv', ConserveInv', CancelEnd
    PROVE  TurnInv'
<1>. DEFINE emit == cx.rewound = None /\ CancelIdent # None
            f == IF cx.rewound = None THEN "cancelled" ELSE "rewound"
<1>1. /\ UNCHANGED <<q, running, lock, spawned, chan>>
      /\ pc["loop"] = "cancelEnd" /\ pin' = None
      /\ turn' = IF cx.torn = None THEN turn ELSE Aborted(cx.torn)
      /\ terminals' = IF emit THEN [terminals EXCEPT ![CancelIdent] = @ + 1] ELSE terminals
      /\ fate' = Resolve(cx.victims, f)
      /\ \E where \in {"reengage", "start"} : Handle(where, cx.after)
  BY DEF CancelEnd, stateVars
<1>2. /\ cx'.done = None /\ cx'.torn = None /\ cx'.rewound = None
      /\ pc'["loop"] \in {"reengage", "start"}
  <2>1. PICK where \in {"reengage", "start"} : Handle(where, cx.after)
    BY <1>1
  <2>2. cx' = [NoCx EXCEPT !.after = cx.after] /\ Goto("loop", where)
    BY <2>1 DEF Handle
  <2>. QED
    BY <2>2, GotoMoves DEF NoCx, Procs
<1>3. /\ cx.torn \in Ids \cup {None} /\ cx.victims \subseteq Ids
      /\ cx.torn # None => cx.torn \in cx.victims /\ spawned[cx.torn] = 1
      /\ \A i \in cx.victims : spawned[i] = 1 => i = cx.torn \/ i = cx.rewound
      /\ cx.rewound # None => cx.torn = None
      /\ cx.rewound = None /\ cx.pinned # None => cx.pinned = cx.torn
      /\ None \notin Ids
  BY <1>1, Constants DEF TurnInv, TornInv, IndInv, TypeOK, LoopType, CxType
<1>4. \A k \in Ids : /\ k # cx.torn => turn'[k] = turn[k]
                     /\ turn'[k] = "none" <=> turn[k] = "none"
                     /\ turn[k] = "over" => turn'[k] = "over"
                     /\ k = cx.torn => turn'[k] \notin Live
  BY <1>1, <1>3, AbortIs
<1>5. /\ \A k \in Ids : fate'[k] = IF k \in cx.victims THEN f ELSE fate[k]
      /\ \A k \in cx.victims : fate[k] = "pending"
      /\ Queued \cap cx.victims = {}
  <2>1. \A k \in Ids : fate'[k] = IF k \in cx.victims THEN f ELSE fate[k]
    <3>. HIDE DEF f
    <3>. QED
      BY <1>1, ResolveIs
  <2>. QED
    BY <2>1, Unanswered DEF ConserveInv, Conserved
<1>6. SpawnInv' /\ RunInv'
  <2>1. ASSUME NEW k \in Ids
        PROVE  /\ spawned'[k] \in {0, 1}
               /\ turn'[k] = "none" <=> spawned'[k] = 0
               /\ fate'[k] \in {"new", "buffered"} => spawned'[k] = 0
               /\ spawned'[k] = 1 /\ k \in ToSet(q') => k = running'
    BY <1>1, <1>4, <1>5 DEF TurnInv, SpawnInv, Queued
  <2>2. SpawnInv'
    BY <2>1 DEF SpawnInv, Queued
  <2>. QED
    BY <1>1, <2>2 DEF TurnInv, RunInv
<1>7. ChanInv'
  <2>1. ToSet(chan) \subseteq Ids
    BY ToSetByIndex DEF IndInv, TypeOK, LoopType
  <2>. QED
    BY <1>1, <1>2, <1>4, <2>1 DEF TurnInv, ChanInv
<1>8. LiveInv'
  BY <1>1, <1>3, <1>4 DEF TurnInv, LiveInv
<1>9. EndInv'
  <2>1. running # None => running \in Ids /\ running # cx.torn
    <3>1. running # None => running \in Queued
      <4>1. q \in Seq(Ids) /\ (running # None => q # <<>> /\ q[1] = running)
        BY <1>1, QueueFacts
      <4>2. q # <<>> => 1 \in 1..Len(q)
        BY <4>1, EmptySeq, LenProperties
      <4>. QED
        BY <4>1, <4>2, ToSetByIndex DEF Queued
    <3>. QED
      BY <1>3, <1>5, <3>1, QueueFacts
  <2>. QED
    BY <1>1, <1>4, <2>1 DEF TurnInv, EndInv
<1>10. PinInv' /\ TornInv' /\ FreshInv' /\ RestInv'
  BY <1>1, <1>2 DEF PinInv, TornInv, FreshInv, RestInv, RestPcs
<1>11. TerminalOnce'
  <2>1. /\ emit <=> cx.rewound = None /\ cx.torn # None
        /\ emit => CancelIdent = cx.torn
    BY <1>3 DEF CancelIdent
  <2>. HIDE DEF emit
  <2>2. \A k \in Ids : terminals[k] \in Nat
    BY DEF IndInv, TypeOK, EndType
  <2>3. \A k \in cx.victims : terminals[k] = 0
    <3>1. \A k \in cx.victims : terminals[k] <= 1 /\ terminals[k] # 1
      BY <1>3, <1>5 DEF TurnInv, TerminalOnce
    <3>. QED
      BY <1>3, <2>2, <3>1
  <2>4. \A k \in Ids : terminals'[k] = IF emit /\ k = cx.torn THEN terminals[k] + 1
                                       ELSE terminals[k]
    BY <1>1, <1>3, <2>1 DEF IndInv, TypeOK, EndType
  <2>. SUFFICES ASSUME NEW k \in Ids
                PROVE  /\ terminals'[k] <= 1
                       /\ terminals'[k] = 1 => spawned'[k] = 1 /\ fate'[k] \in {"answered", "cancelled"}
                       /\ fate'[k] = "answered" => terminals'[k] = 1
                       /\ fate'[k] = "cancelled" /\ spawned'[k] = 1 => terminals'[k] = 1
                       /\ fate'[k] = "rewound" => terminals'[k] = 0
    BY DEF TerminalOnce
  <2>5. CASE k \notin cx.victims
    <3>1. terminals'[k] = terminals[k] /\ fate'[k] = fate[k] /\ spawned'[k] = spawned[k]
      BY <1>1, <1>3, <1>5, <2>1, <2>4, <2>5
    <3>. QED
      BY <3>1 DEF TurnInv, TerminalOnce
  <2>6. CASE k \in cx.victims /\ emit /\ k = cx.torn
    <3>1. terminals'[k] = 1
      BY <2>3, <2>4, <2>6
    <3>2. fate'[k] = "cancelled" /\ spawned'[k] = 1
      BY <1>1, <1>3, <1>5, <2>1, <2>6
    <3>. QED
      BY <3>1, <3>2
  <2>7. CASE k \in cx.victims /\ ~(emit /\ k = cx.torn)
    <3>1. terminals'[k] = 0
      BY <2>3, <2>4, <2>7
    <3>2. fate'[k] = f /\ f # "answered"
      BY <1>5, <2>7
    <3>3. f = "cancelled" => spawned'[k] # 1
      BY <1>1, <1>3, <2>1, <2>7
    <3>. QED
      BY <3>1, <3>2, <3>3
  <2>. QED
    BY <2>5, <2>6, <2>7
<1>. QED
  BY <1>6, <1>7, <1>8, <1>9, <1>10, <1>11 DEF TurnInv

-----------------------------------------------------------------------------
(***************************************************************************)
(* The theorems.                                                           *)
(***************************************************************************)
(* Every step of the session keeps the invariant, and every step but the   *)
(* completion and the end of a cancel leaves the answers of turns alone.   *)
LEMMA NextTurns ==
    ASSUME IndInv, ConserveInv, TurnInv, IndInv', ConserveInv', [Next]_vars
    PROVE  TurnInv' /\ (FateMoves \/ CancelEnd \/ PopFront)
<1>0. Aside => FateMoves
  BY DEF Aside
<1>1. CASE UserCommand
  <2>1. ASSUME NEW kind \in CancelKinds, CancelBegin(kind) PROVE FateMoves
    BY <2>1, BufferMoves DEF CancelBegin
  <2>. QED
    BY <1>0, <1>1, <2>1, AsideKeeps, InsertAside, EditAside, InterjectAside,
       HandlerAside, CancelBeginKeeps DEF UserCommand
<1>2. CASE Wake
  BY <1>0, <1>2, AsideKeeps, InsertAside, HandlerAside DEF Wake, Synthetic
<1>3. CASE Handler
  <2>1. CancelForSendNow => FateMoves
    BY BufferMoves DEF CancelForSendNow
  <2>2. CancelAbortEarly \/ Completion => FateMoves
    BY DEF CancelAbortEarly, Completion, endVars, FateMoves
  <2>3. CancelLocked => FateMoves
    BY LockedTakes
  <2>. QED
    BY <1>0, <1>3, <2>1, <2>2, <2>3, AsideKeeps, InterjectAside, HandlerAside,
       CancelBeginKeeps, AbortEarlyKeeps, LockedKeeps, EndKeeps, CompletionKeeps,
       PopKeeps DEF Handler
<1>4. CASE \E p \in Procs : Promotion(p)
  <2>1. PICK p \in Procs : Promotion(p)
    BY <1>4
  <2>2. CASE Start(p)
    BY <1>0, <2>2, AsideKeeps, PromotionAside
  <2>3. CASE Spawn(p)
    BY <2>3, SpawnKeeps DEF Spawn, endVars, FateMoves
  <2>4. CASE Promote(p)
    <3>1. TurnInv'
      BY <2>4, AsideKeeps, PromotionAside, PromoteKeeps
    <3>2. PICK R \in SUBSET Queued : UNCHANGED fate \/ fate' = Resolve(R, "removed")
      BY <2>4 DEF Promote
    <3>3. FateMoves
      <4>1. CASE UNCHANGED fate
        BY <4>1 DEF FateMoves
      <4>2. CASE fate' = Resolve(R, "removed")
        BY <4>2, Unanswered, ResolveMoves
      <4>. QED
        BY <3>2, <4>1, <4>2
    <3>. QED
      BY <3>1, <3>3
  <2>. QED
    BY <2>1, <2>2, <2>3, <2>4 DEF Promotion
<1>5. CASE Starter
  BY <1>0, <1>5, AsideKeeps, PromotionAside, InsertAside DEF Starter
<1>6. CASE \E t \in Ids : TurnStep(t) \/ TurnWork(t)
  <2>1. PICK t \in Ids : TurnStep(t) \/ TurnWork(t)
    BY <1>6
  <2>2. CASE TurnStep(t)
    <3>1. UNCHANGED fate
      BY <2>2 DEF TurnStep, TurnBegin, TurnOpen, TurnLeaveScope, TurnFinish, endVars
    <3>. QED
      BY <2>2, <3>1, StepKeeps DEF FateMoves
  <2>3. CASE TurnWork(t)
    BY <1>0, <2>3, AsideKeeps, WorkAside
  <2>. QED
    BY <2>1, <2>2, <2>3
<1>7. CASE UNCHANGED vars
  BY <1>0, <1>7, AsideKeeps, AsideIdle DEF vars, stateVars, turnVars, endVars
<1>. QED
  BY <1>1, <1>2, <1>3, <1>4, <1>5, <1>6, <1>7 DEF Next

(* A session starts with no turn. *)
LEMMA InitTurns == Init => TurnInv
<1>. SUFFICES ASSUME Init PROVE TurnInv
  OBVIOUS
<1>1. /\ q = <<>> /\ running = None /\ pin = None /\ chan = <<>> /\ cx = NoCx
      /\ \A i \in Ids : turn[i] = "none" /\ spawned[i] = 0 /\ terminals[i] = 0 /\ fate[i] = "new"
      /\ pc["loop"] = "idle"
  BY DEF Init, Procs
<1>2. /\ cx.done = None /\ cx.torn = None /\ cx.rewound = None /\ cx.pinned = None
      /\ ToSet(<<>>) = {}
  BY <1>1, EmptyDistinct DEF NoCx
<1>3. SpawnInv /\ RunInv /\ ChanInv
  BY <1>1, <1>2 DEF SpawnInv, RunInv, ChanInv, Queued
<1>4. LiveInv /\ EndInv
  BY <1>1 DEF LiveInv, EndInv, Live
<1>5. PinInv /\ TornInv /\ FreshInv /\ RestInv
  BY <1>1, <1>2 DEF PinInv, TornInv, FreshInv, RestInv, Queued
<1>6. TerminalOnce
  BY <1>1 DEF TerminalOnce
<1>. QED
  BY <1>3, <1>4, <1>5, <1>6 DEF TurnInv

(* The invariants hold together in every state a session can reach. *)
THEOREM TurnInvHolds == Spec => [](IndInv /\ ConserveInv /\ TurnInv)
<1>1. Spec => [](IndInv /\ ConserveInv)
  BY ConserveInvHolds
<1>2. TurnInv /\ IndInv /\ ConserveInv /\ IndInv' /\ ConserveInv' /\ [Next]_vars => TurnInv'
  BY NextTurns
<1>. QED
  BY <1>1, <1>2, InitTurns, PTL DEF Spec

(* Clients see exactly one TurnCompleted for a turn that ran and was       *)
(* answered or cancelled, whichever of completion and cancel comes first,  *)
(* and none for a prompt that never ran or was given back.                 *)
THEOREM OneTerminal == Spec => []TerminalOnce
<1>1. TurnInv => TerminalOnce
  BY DEF TurnInv
<1>. QED
  BY <1>1, TurnInvHolds, PTL

(* Two turns are alive at once only between the two halves of a cancel,    *)
(* and one of them is the turn it is about to abort.                       *)
THEOREM OneTurnAtATime == Spec => []OverlapOnlyInCancel
<1>1. TurnInv => OverlapOnlyInCancel
  BY DEF TurnInv, LiveInv, OverlapOnlyInCancel
<1>. QED
  BY <1>1, TurnInvHolds, PTL

(* The debug_assert of cancel_running_task cannot fail: the pin it read    *)
(* before its awaits agrees with the task it finds under the mutex.        *)
THEOREM PinAlwaysAgrees == Spec => []PinAgrees
<1>1. TurnInv => PinAgrees
  BY DEF TurnInv, PinInv, PinAgrees, Claim, LockFree
<1>. QED
  BY <1>1, TurnInvHolds, PTL

(* No slot is left behind by a turn that is over: an idle loop with no     *)
(* completion to take has a live turn in its slot, or none.                *)
THEOREM SlotIsNeverWedged == Spec => []NoWedge
<1>1. IndInv /\ TurnInv => NoWedge
  <2>. SUFFICES ASSUME IndInv, TurnInv, running # None, pc["loop"] = "idle", chan = <<>>
                PROVE  turn[running] \in Live
    BY DEF NoWedge
  <2>1. ToSet(chan) = {}
    BY EmptyDistinct
  <2>2. turn[running] # "over"
    BY <2>1 DEF TurnInv, EndInv
  <2>3. running \in Ids /\ spawned[running] = 1
    BY DEF IndInv, TypeOK, StateType, TurnInv, RunInv
  <2>4. turn[running] # "none"
    BY <2>3 DEF TurnInv, SpawnInv
  <2>. QED
    BY <2>2, <2>3, <2>4 DEF IndInv, TypeOK, TurnType
<1>. QED
  BY <1>1, TurnInvHolds, PTL

(* A cancel that is no teardown cancels no user message that never ran,    *)
(* whatever was queued, promoted or resumed while it waited for the mutex. *)
THEOREM CancelSparesQueued == Spec => QueuedSurviveCancel
<1>. DEFINE Spared ==
         \A i \in UserMessages :
             fate'[i] = "cancelled" /\ fate[i] # "cancelled" /\ ~cx.kind.kill
             => spawned[i] = 1
<1>1. ASSUME IndInv, ConserveInv, TurnInv, IndInv', ConserveInv', [Next]_vars
      PROVE  Spared
  <2>0. UserMessages \subseteq Ids
    BY DEF Ids
  <2>1. CASE FateMoves
    BY <2>0, <2>1 DEF FateMoves
  <2>2. CASE CancelEnd
    <3>. DEFINE f == IF cx.rewound = None THEN "cancelled" ELSE "rewound"
    <3>1. pc["loop"] = "cancelEnd" /\ fate' = Resolve(cx.victims, f)
      BY <2>2 DEF CancelEnd
    <3>. HIDE DEF f
    <3>2. \A i \in Ids : fate'[i] = IF i \in cx.victims THEN f ELSE fate[i]
      BY <1>1, <3>1, ResolveIs
    <3>3. ~cx.kind.kill => \A i \in cx.victims \cap UserMessages : spawned[i] = 1
      BY <1>1, <3>1 DEF TurnInv, TornInv
    <3>. QED
      BY <2>0, <3>2, <3>3
  <2>3. CASE PopFront
    <3>1. fate' = fate \/ fate' = Resolve({cx.done}, "answered")
      BY <2>3 DEF PopFront
    <3>2. CASE fate' = fate
      BY <3>2
    <3>3. CASE fate' = Resolve({cx.done}, "answered")
      BY <1>1, <2>0, <3>3, ResolveIs
    <3>. QED
      BY <3>1, <3>2, <3>3
  <2>. QED
    BY <1>1, <2>1, <2>2, <2>3, NextTurns
<1>2. Spec => [][Next]_vars
  BY DEF Spec
<1>3. IndInv /\ ConserveInv /\ TurnInv /\ IndInv' /\ ConserveInv' /\ [Next]_vars
      => [Spared]_vars
  BY <1>1
<1>4. Spec => [][Spared]_vars
  BY <1>2, <1>3, TurnInvHolds, PTL
<1>. QED
  BY <1>4 DEF QueuedSurviveCancel
=============================================================================
