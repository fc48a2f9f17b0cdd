---------------------------- MODULE SessionQueue ----------------------------
(***************************************************************************)
(* The prompt queue and turn lifecycle of one agent session.               *)
(*                                                                         *)
(* A session is an actor on a single-threaded task set.  Its run loop      *)
(* takes one command or one turn completion at a time, but a handler is    *)
(* suspended at every await, and three kinds of tasks run in the gaps:     *)
(* the spawned turns, the MCP initialisation that kicks the queue once,    *)
(* and a resumed plan approval that submits a prompt of its own.  What     *)
(* they share is `State` (queue, running task, notifications), guarded by  *)
(* one async mutex, and the `current_prompt_id` pin, guarded by another.   *)
(* An action is what runs between two awaits that matter.  The only code   *)
(* that keeps the state mutex across an await is the promotion of the      *)
(* front of the queue (actions Promote and Spawn), so `lock` names the     *)
(* task that is between those two, and every action that takes the mutex   *)
(* waits for it to be free.                                                *)
(***************************************************************************)
EXTENDS QueueOps

CONSTANTS
    Prompts,        \* prompts clients submit: user origin, visible in the queue
    Interjections,  \* mid-turn user messages
    TaskWakes,      \* TaskCompleted wake prompts
    SubagentWakes,  \* SubagentCompleted wake prompts
    WorkflowWakes,  \* WorkflowCompleted wake prompts
    TimerWakes,     \* SchedulerFired prompts
    GoalTurns,      \* GoalSummary continuation prompts
    DrainTurns,     \* NotificationDrain prompts
    ResumeTurns,    \* PlanResume prompts
    Monitors,       \* monitor output events
    Clients,        \* clients attached to the session
    Owner,          \* the client that submitted each prompt
    MonitorTask,    \* the background task behind each monitor event
    Mergeable,      \* the prompts that are plain text (can_merge_front)
    Imaged,         \* the prompts that carry images
    CombineQueued,  \* [ui].combine_queued_prompts
    MaxNotes,       \* MAX_PENDING_NOTIFICATIONS
    MaxBuffer,      \* MAX_BUFFER_EVENTS
    CancelKinds,    \* the cancel requests that are issued
    Commands,       \* what clients send and what turns do
    Starters,       \* the tasks besides the loop that kick the queue
    None

Synthetic == TaskWakes \cup SubagentWakes \cup WorkflowWakes \cup TimerWakes
             \cup GoalTurns \cup DrainTurns \cup ResumeTurns
UserMessages == Prompts \cup Interjections
Ids == UserMessages \cup Synthetic
(* PromptOrigin::completion_id: the origins that carry one. *)
CompletionWakes == TaskWakes \cup SubagentWakes \cup WorkflowWakes
Notes == TaskWakes \cup Monitors
Procs == {"loop"} \cup Starters

CancelKind == [subs : BOOLEAN, kill : BOOLEAN, rewind : BOOLEAN, ctrlC : BOOLEAN]

ASSUME SessionAssumption ==
    /\ None \notin Ids \cup Procs
    /\ IsFiniteSet(Prompts)
    /\ LET kinds == <<Prompts, Interjections, TaskWakes, SubagentWakes,
                      WorkflowWakes, TimerWakes, GoalTurns, DrainTurns,
                      ResumeTurns>>
       IN  \A a, b \in 1..9 : a # b => kinds[a] \cap kinds[b] = {}
    /\ Owner \in [Prompts -> Clients]
    /\ MonitorTask \in [Monitors -> TaskWakes]
    /\ Mergeable \subseteq Prompts
    /\ Imaged \subseteq Prompts
    /\ CombineQueued \in BOOLEAN
    /\ MaxNotes \in Nat \ {0}
    /\ MaxBuffer \in Nat \ {0}
    /\ CancelKinds \subseteq CancelKind
    /\ Starters \subseteq {"mcp", "resume"}

VARIABLES
    q,           \* pending_inputs
    running,     \* running_task: the prompt id of the task, or None
    urgent,      \* the queued prompts whose send_now flag is set
    holds,       \* combine_edit_holds
    notes,       \* pending_notifications
    suppressed,  \* notifications_suppressed
    rewindable,  \* rewindable
    lock,        \* the task that holds the state mutex across an await
    pin,         \* current_prompt_id
    interj,      \* pending_interjections
    aim,         \* ghost: the prompt that was pinned when it was buffered
    monBuf,      \* monitor_event_buffer
    turnActive,  \* is_turn_active
    waiting,     \* the turns inside a blocking wait (blocking_wait_depth)
    goal,        \* the goal tracker's status
    goalLoop,    \* goal_loop_active_gate
    reported,    \* the workflow completions already reported
    turn,        \* the life of each prompt's turn task
    chan,        \* completion_tx / completion_rx
    pc,          \* where each task is
    may,         \* may_combine, sampled before the config read
    cx,          \* the locals of the loop's current handler
    fate,        \* what became of each message: the answer its sender got
    spawned,     \* ghost: how often a turn was spawned for each prompt
    terminals,   \* the TurnCompleted events emitted for each prompt
    panicked     \* an expect() failed

stateVars == <<q, running, urgent, holds, notes, suppressed, rewindable>>
turnVars == <<turn, waiting, turnActive, spawned>>
goalVars == <<goal, goalLoop>>
sendVars == <<interj, aim, monBuf>>
endVars == <<fate, terminals>>
vars == <<stateVars, lock, pin, sendVars, turnVars, goalVars, reported, chan,
          pc, may, cx, endVars, panicked>>

Live == {"spawned", "started", "open", "left"}
Fates == {"new", "pending", "buffered", "merged", "answered", "cancelled",
          "rewound", "removed", "tooLate", "dropped", "cleared", "noted"}
GoalStatus == {"none", "active", "paused", "complete"}
LoopPcs == {"idle", "cancelNow", "cancelSubs", "cancelLock", "cancelEnd",
            "reengage", "start", "promote", "spawn", "drain", "pop",
            "turnEnd", "flush", "requeue", "ended"}
StarterPcs == {"waiting", "start", "promote", "spawn", "done"}

(***************************************************************************)
(* The locals of a handler.  kind: the cancel request; sendNow: it is the  *)
(* cancel of a send-now; pinned: the pin when the cancel began; torn: the  *)
(* task taken out of running_task; victims: the prompts taken out of the   *)
(* queue but not answered yet; rewound: the one among them to give back;   *)
(* done: the completion being handled; late: interjections to requeue;     *)
(* after: what follows the promotion attempt.                              *)
(***************************************************************************)
NoCancel == [subs |-> FALSE, kill |-> FALSE, rewind |-> FALSE, ctrlC |-> FALSE]
NoCx == [kind |-> NoCancel, sendNow |-> FALSE, pinned |-> None, torn |-> None,
         victims |-> {}, rewound |-> None, done |-> None, late |-> <<>>,
         after |-> "idle"]

Init ==
    /\ q = <<>>
    /\ running = None
    /\ urgent = {}
    /\ holds = {}
    /\ notes = <<>>
    /\ suppressed = FALSE
    /\ rewindable = FALSE
    /\ lock = None
    /\ pin = None
    /\ interj = <<>>
    /\ aim = [i \in Interjections |-> None]
    /\ monBuf = <<>>
    /\ turnActive = FALSE
    /\ waiting = {}
    /\ goal = "none"
    /\ goalLoop = FALSE
    /\ reported = {}
    /\ turn = [i \in Ids |-> "none"]
    /\ chan = <<>>
    /\ pc = [p \in Procs |-> IF p = "loop" THEN "idle" ELSE "waiting"]
    /\ may = [p \in Procs |-> FALSE]
    /\ cx = NoCx
    /\ fate = [i \in Ids \cup Monitors |-> "new"]
    /\ spawned = [i \in Ids |-> 0]
    /\ terminals = [i \in Ids |-> 0]
    /\ panicked = FALSE

-----------------------------------------------------------------------------
(***************************************************************************)
(* Helpers.                                                                *)
(***************************************************************************)
LockFree == lock = None
Queued == ToSet(q)
HasMeta(i) == i \in Prompts

Resolve(S, f) == [i \in DOMAIN fate |-> IF i \in S THEN f ELSE fate[i]]
Goto(p, where) == pc' = [pc EXCEPT ![p] = where]
(* Mutant: the select takes whatever is ready. *)
AcceptUnbiased(c) == pc["loop"] = "idle" /\ c \in Commands
(* The next command: the select is biased, completions go first. *)
Accept(c) == pc["loop"] = "idle" /\ chan = <<>> /\ c \in Commands
(* Where a promotion attempt of p returns to. *)
Return(p) == Goto(p, IF p = "loop" THEN cx.after ELSE "done")
Handle(where, after) ==
    /\ Goto("loop", where)
    /\ cx' = [NoCx EXCEPT !.after = after]

(* Mutant: insertion at the very front. *)
FrontSlotZero(s) == 1
(* Insertion never displaces the in-flight front. *)
FrontSlot(s) == IF s # <<>> /\ running # None /\ s[1] = running THEN 2 ELSE 1
(* Behind the running front and the send-now prompts already stacked there. *)
SendNowSlot(s) == FrontSlot(s) + RunLength(s, FrontSlot(s), urgent)

(* Mutant: no exemption for the turn in flight. *)
SweepAll(s, drop) == Retain(s, Ids \ drop)
(* State::sweep_pending_inputs: the running turn's own slot is exempt. *)
Sweep(s, drop) == Retain(s, {i \in Ids : i = running \/ i \notin drop})

(* Mutant: the pin is left to the next promotion. *)
UnpinNever(t) == pin
(* Only the turn that is pinned is unpinned. *)
Unpin(t) == IF pin = t THEN None ELSE pin

(* Mutant: one prompt is no queue. *)
NothingToPromoteLone == running # None \/ Len(q) <= 1
NothingToPromote == running # None \/ q = <<>>

(* sweep_monitor_buffer_into_pending *)
AbsorbMonitors(n) == PushCapped(n, monBuf, MaxNotes)
NoteTask(n) == IF n \in Monitors THEN MonitorTask[n] ELSE n

-----------------------------------------------------------------------------
(***************************************************************************)
(* Commands that put something into the queue.                             *)
(***************************************************************************)
(* SessionCommand::Prompt from a client, then queue_input. *)
PromptUser(i, sendNow) ==
    LET armed  == \E k \in 1..Len(q) : q[k] \in CompletionWakes /\ q[k] # running
        base   == IF armed THEN Sweep(q, Synthetic) ELSE q
        held   == \E k \in 1..Len(base) :
                      base[k] \in UserMessages /\ base[k] # running
        auto   == running # None /\ waiting # {} /\ ~held
        now    == sendNow \/ auto
        cancel == now /\ running # None /\ ~goalLoop
    IN  /\ Accept("prompt") /\ LockFree
        /\ fate[i] = "new"
        /\ q' = IF now THEN InsertAt(base, SendNowSlot(base), i)
                       ELSE Append(base, i)
        /\ urgent' = IF now THEN urgent \cup {i} ELSE urgent
        /\ fate' = [k \in DOMAIN fate |->
                       IF k = i THEN "pending"
                       ELSE IF k \in Queued \ ToSet(base) THEN "dropped"
                       ELSE fate[k]]
        /\ suppressed' = FALSE
        /\ Handle(IF cancel THEN "cancelNow" ELSE "start", "idle")
        /\ UNCHANGED <<running, holds, notes, rewindable, lock, pin, sendVars,
                       turnVars, goalVars, reported, chan, may, terminals,
                       panicked>>

(* SessionCommand::Prompt of a wake.  A task wake has to be admitted: not  *)
(* behind the Ctrl+C barrier, and not after the bridge has stopped waiting *)
(* for the admission (late); it stays a notification then.                 *)
PromptWake(i, late) ==
    LET refused == i \in TaskWakes /\ (suppressed \/ late)
    IN  /\ Accept(IF i \in TimerWakes THEN "timer" ELSE "wake") /\ LockFree
        /\ fate[i] = "new"
        /\ late => i \in TaskWakes /\ "late" \in Commands
        /\ q' = IF refused THEN q ELSE Append(q, i)
        /\ notes' = IF refused THEN PushCapped(notes, <<i>>, MaxNotes) ELSE notes
        /\ fate' = Resolve({i}, IF ~refused THEN "pending"
                               ELSE IF late THEN "tooLate" ELSE "removed")
        /\ IF refused THEN UNCHANGED <<pc, cx>> ELSE Handle("start", "idle")
        /\ UNCHANGED <<running, urgent, holds, suppressed, rewindable, lock, pin,
                       sendVars, turnVars, goalVars, reported, chan, may,
                       terminals, panicked>>

(* SessionCommand::GoalSummaryTurn *)
GoalSummaryTurn(i) ==
    /\ Accept("goalSummary") /\ LockFree
    /\ fate[i] = "new"
    /\ q' = Append(q, i)
    /\ fate' = Resolve({i}, "pending")
    /\ Handle("start", "idle")
    /\ UNCHANGED <<running, urgent, holds, notes, suppressed, rewindable, lock,
                   pin, sendVars, turnVars, goalVars, reported, chan, may,
                   terminals, panicked>>

(* SessionCommand::WorkflowCompletionTurn *)
WorkflowCompletionTurn(i) ==
    /\ Accept("workflow") /\ LockFree
    /\ fate[i] = "new"
    /\ ~suppressed /\ goal # "active" /\ i \notin reported
    /\ Queued \cap WorkflowWakes = {}
    /\ q' = Append(q, i)
    /\ fate' = Resolve({i}, "pending")
    /\ Handle("start", "idle")
    /\ UNCHANGED <<running, urgent, holds, notes, suppressed, rewindable, lock,
                   pin, sendVars, turnVars, goalVars, reported, chan, may,
                   terminals, panicked>>

(* SessionCommand::Interject: into the pinned turn, else a prompt of its own. *)
Interject(i) ==
    /\ Accept("interject")
    /\ fate[i] = "new"
    /\ fate' = Resolve({i}, "buffered")
    /\ IF pin # None
       THEN /\ interj' = Append(interj, i)
            /\ aim' = [aim EXCEPT ![i] = pin]
            /\ UNCHANGED <<pc, cx>>
       ELSE /\ Goto("loop", "requeue")
            /\ cx' = [NoCx EXCEPT !.late = <<i>>]
            /\ UNCHANGED <<interj, aim>>
    /\ UNCHANGED <<stateVars, lock, pin, monBuf, turnVars, goalVars, reported,
                   chan, may, terminals, panicked>>

(* queue_interjection_fallback_prompt, from the last to the first. *)
Requeue ==
    LET i    == cx.late[Len(cx.late)]
        rest == SubSeq(cx.late, 1, Len(cx.late) - 1)
    IN  /\ pc["loop"] = "requeue" /\ LockFree
        /\ q' = InsertAt(q, FrontSlot(q), i)
        /\ urgent' = urgent \cup {i}
        /\ fate' = Resolve({i}, "pending")
        /\ cx' = [cx EXCEPT !.late = rest]
        /\ Goto("loop", IF rest = <<>> THEN "start" ELSE "requeue")
        /\ UNCHANGED <<running, holds, notes, suppressed, rewindable, lock, pin,
                       sendVars, turnVars, goalVars, reported, chan, may,
                       terminals, panicked>>

-----------------------------------------------------------------------------
(***************************************************************************)
(* Commands by which clients edit the shared queue.  A request that names  *)
(* the running turn, an unknown row or a stale version changes nothing.    *)
(***************************************************************************)
(* handle_remove_queued_prompt *)
RemoveQueued(i) ==
    /\ Accept("remove") /\ LockFree
    /\ HasMeta(i) /\ i \in Queued /\ i # running
    /\ q' = Retain(q, Ids \ {i})
    /\ fate' = Resolve({i}, "removed")
    /\ UNCHANGED <<running, urgent, holds, notes, suppressed, rewindable, lock,
                   pin, sendVars, turnVars, goalVars, reported, chan, pc, may,
                   cx, terminals, panicked>>

(* handle_interject_queued_prompt: the row is promoted to run next. *)
InterjectQueued(i) ==
    LET rest == Retain(q, Ids \ {i})
    IN  /\ Accept("interjectQueued") /\ LockFree
        /\ HasMeta(i) /\ i \in Queued /\ i # running
        /\ q' = InsertAt(rest, SendNowSlot(rest), i)
        /\ urgent' = urgent \cup {i}
        /\ Handle(IF running # None /\ ~goalLoop THEN "cancelNow" ELSE "start",
                  "idle")
        /\ UNCHANGED <<running, holds, notes, suppressed, rewindable, lock, pin,
                       sendVars, turnVars, goalVars, reported, chan, may, fate,
                       terminals, panicked>>

(* handle_reorder_queue: the running turn and the rows clients cannot see  *)
(* first, then the named rows in the requested order, then the others.     *)
Reorder(order) ==
    LET movable == {i \in Queued : HasMeta(i) /\ i # running}
    IN  /\ Accept("reorder") /\ LockFree
        /\ q' = Retain(q, Ids \ movable)
                \o Retain(order, movable)
                \o Retain(q, movable \ ToSet(order))
        /\ UNCHANGED <<running, urgent, holds, notes, suppressed, rewindable,
                       lock, pin, sendVars, turnVars, goalVars, reported, chan,
                       pc, may, cx, endVars, panicked>>

(* handle_clear_queue, of one client's rows or (owner = None) of all. *)
ClearQueue(owner) ==
    LET cleared == {i \in Queued : /\ HasMeta(i) /\ i # running
                                   /\ owner = None \/ Owner[i] = owner}
    IN  /\ Accept("clear") /\ LockFree
        /\ q' = Retain(q, Ids \ cleared)
        /\ fate' = Resolve(cleared, "removed")
        /\ UNCHANGED <<running, urgent, holds, notes, suppressed, rewindable,
                       lock, pin, sendVars, turnVars, goalVars, reported, chan,
                       pc, may, cx, terminals, panicked>>

(* HoldCombineEdit, and its end by ReleaseCombineEdit or by the edit itself *)
(* (handle_edit_queued_prompt).                                             *)
HoldCombineEdit(i) ==
    /\ Accept("hold") /\ LockFree
    /\ holds' = holds \cup {i}
    /\ UNCHANGED <<q, running, urgent, notes, suppressed, rewindable, lock, pin,
                   sendVars, turnVars, goalVars, reported, chan, pc, may, cx,
                   endVars, panicked>>

ReleaseCombineEdit(i) ==
    /\ Accept("hold") /\ LockFree
    /\ i \in holds
    /\ holds' = holds \ {i}
    /\ UNCHANGED <<q, running, urgent, notes, suppressed, rewindable, lock, pin,
                   sendVars, turnVars, goalVars, reported, chan, pc, may, cx,
                   endVars, panicked>>

-----------------------------------------------------------------------------
(***************************************************************************)
(* maybe_start_running_task, by the loop or by a starter.                  *)
(***************************************************************************)
(* The fast path: nothing to promote.  Then the config is read unlocked.   *)
Start(p) ==
    /\ pc[p] = "start" /\ LockFree
    /\ IF NothingToPromote
       THEN Return(p) /\ UNCHANGED may
       ELSE Goto(p, "promote") /\ may' = [may EXCEPT ![p] = Len(q) >= 2]
    /\ UNCHANGED <<stateVars, lock, pin, sendVars, turnVars, goalVars, reported,
                   chan, cx, endVars, panicked>>

(* combine_prefix_len: the front and the followers that can merge with it. *)
CombinePrefixLen(s, held) ==
    IF s[1] \in Mergeable
    THEN 1 + RunLength(s, 2, Mergeable \ (Imaged \cup held))
    ELSE 1

(* Re-check, drop stale workflow wakes, merge, pin.  The mutex is kept.    *)
Promote(p) ==
    LET stale == RunLength(q, 1, WorkflowWakes \cap reported)
        live  == DropFirst(q, stale)
        held  == holds \cap ToSet(live)
        n     == IF may[p] /\ CombineQueued THEN CombinePrefixLen(live, held) ELSE 1
        front == live[1]
        next  == <<front>> \o DropFirst(live, n)
    IN  /\ pc[p] = "promote" /\ LockFree
        /\ IF NothingToPromote
           THEN /\ Return(p)
                /\ UNCHANGED <<q, holds, suppressed, rewindable, pin, lock, fate>>
           ELSE IF live = <<>>
           THEN /\ q' = <<>> /\ holds' = {}
                /\ fate' = Resolve(Queued, "removed")
                /\ Return(p)
                /\ UNCHANGED <<suppressed, rewindable, pin, lock>>
           ELSE /\ q' = next
                /\ holds' = held
                /\ fate' = Resolve(Queued \ ToSet(next), "removed")
                /\ suppressed' = (suppressed /\ front \notin UserMessages)
                /\ rewindable' = TRUE
                /\ pin' = front
                /\ lock' = p
                /\ Goto(p, "spawn")
        /\ UNCHANGED <<running, urgent, notes, sendVars, turnVars, goalVars,
                       reported, chan, may, cx, terminals, panicked>>

(* The task is spawned and the mutex released; the front stays queued.     *)
Spawn(p) ==
    /\ pc[p] = "spawn" /\ lock = p
    /\ running' = q[1]
    /\ turn' = [turn EXCEPT ![q[1]] = "spawned"]
    /\ spawned' = [spawned EXCEPT ![q[1]] = @ + 1]
    /\ lock' = None
    /\ Return(p)
    /\ UNCHANGED <<q, urgent, holds, notes, suppressed, rewindable, pin,
                   sendVars, waiting, turnActive, goalVars, reported, chan, may,
                   cx, endVars, panicked>>

(* MCP tools are initialised: kick the queue once. *)
McpReady ==
    /\ "mcp" \in Starters /\ pc["mcp"] = "waiting"
    /\ Goto("mcp", "start")
    /\ UNCHANGED <<stateVars, lock, pin, sendVars, turnVars, goalVars, reported,
                   chan, may, cx, endVars, panicked>>

(* start_resume_turn: the approved plan is queued from a task of its own.  *)
ResumePlan(i) ==
    /\ "resume" \in Starters /\ pc["resume"] = "waiting" /\ LockFree
    /\ fate[i] = "new"
    /\ q' = Append(q, i)
    /\ fate' = Resolve({i}, "pending")
    /\ Goto("resume", "start")
    /\ UNCHANGED <<running, urgent, holds, notes, suppressed, rewindable, lock,
                   pin, sendVars, turnVars, goalVars, reported, chan, may, cx,
                   terminals, panicked>>

-----------------------------------------------------------------------------
(***************************************************************************)
(* Cancelling the running turn.                                            *)
(***************************************************************************)
(* SessionCommand::Cancel up to the pin snapshot.  Ctrl+C raises the wake  *)
(* barrier with try_lock().expect(..): a task that keeps the mutex across  *)
(* an await makes it panic.                                                *)
CancelBegin(kind) ==
    /\ Accept("cancel")
    /\ interj' = <<>>
    /\ fate' = Resolve(ToSet(interj), "cleared")
    /\ IF kind.ctrlC /\ ~LockFree
       THEN /\ panicked' = TRUE
            /\ Handle("ended", "idle")
            /\ UNCHANGED <<suppressed, turnActive>>
       ELSE /\ suppressed' = (suppressed \/ kind.ctrlC)
            /\ turnActive' = (turnActive /\ ~kind.ctrlC)
            /\ cx' = [NoCx EXCEPT !.kind = kind, !.pinned = pin,
                          !.after = IF kind.ctrlC THEN "idle" ELSE "drain"]
            /\ Goto("loop", IF kind.subs THEN "cancelSubs" ELSE "cancelLock")
            /\ UNCHANGED panicked
    /\ UNCHANGED <<q, running, urgent, holds, notes, rewindable, lock, pin, aim,
                   monBuf, turn, waiting, spawned, goalVars, reported, chan, may,
                   terminals>>

(* cancel_turn_for_send_now up to the same point. *)
CancelForSendNow ==
    /\ pc["loop"] = "cancelNow"
    /\ interj' = <<>>
    /\ fate' = Resolve(ToSet(interj), "cleared")
    /\ cx' = [cx EXCEPT !.sendNow = TRUE, !.pinned = pin]
    /\ Goto("loop", "cancelLock")
    /\ UNCHANGED <<stateVars, lock, pin, aim, monBuf, turnVars, goalVars,
                   reported, chan, may, terminals, panicked>>

(* Mutant: the task is taken out of its slot and runs on. *)
AbortedNot(t) == turn
Aborted(t) == [turn EXCEPT ![t] = IF @ \in Live THEN "over" ELSE @]

(* cancel_subagents: abort the producer first, keep the task slot. *)
CancelAbortEarly ==
    /\ pc["loop"] = "cancelSubs" /\ LockFree
    /\ turn' = IF running = None THEN turn ELSE Aborted(running)
    /\ Goto("loop", "cancelLock")
    /\ UNCHANGED <<stateVars, lock, pin, sendVars, waiting, turnActive, spawned,
                   goalVars, reported, chan, may, cx, endVars, panicked>>

(* Mutant: Ctrl+C leaves the wakes that are queued already. *)
WakesBehindNone(s) == {}
(* The wakes that Ctrl+C removes from the queue behind the front. *)
WakesBehind(s) ==
    {i \in TaskWakes \cup WorkflowWakes : \E k \in 2..Len(s) : s[k] = i}

(* The locked section: take the task, and take out of the queue what is    *)
(* cancelled with it.  The front always is, whether a task runs or not.    *)
CancelLocked ==
    LET kind   == cx.kind
        rewind == kind.rewind /\ rewindable
        gone   == IF kind.ctrlC /\ ~kind.kill THEN WakesBehind(q) ELSE {}
        rest   == IF q = <<>> THEN <<>> ELSE Tail(q)
        swept  == AbsorbMonitors(notes)
        givenBack == rewind /\ q # <<>>
    IN  /\ pc["loop"] = "cancelLock" /\ LockFree
        /\ monBuf' = <<>>
        /\ running' = None
        /\ suppressed' = (suppressed /\ ~rewind)
        /\ rewindable' = (rewindable /\ ~rewind)
        /\ IF givenBack
           THEN /\ q' = rest
                /\ turn' = IF running = None THEN turn ELSE Aborted(running)
                /\ cx' = [cx EXCEPT !.victims = {q[1]}, !.rewound = q[1]]
                /\ notes' = IF kind.kill THEN <<>> ELSE swept
                /\ UNCHANGED fate
           ELSE /\ q' = IF kind.kill THEN <<>> ELSE Retain(rest, Ids \ gone)
                /\ cx' = [cx EXCEPT !.torn = running,
                              !.victims = IF kind.kill THEN Queued
                                          ELSE IF q = <<>> THEN {} ELSE {q[1]}]
                /\ notes' = IF kind.kill THEN <<>>
                            ELSE PushCapped(swept, Retain(rest, gone \cap TaskWakes),
                                            MaxNotes)
                /\ fate' = Resolve(gone, "removed")
                /\ UNCHANGED turn
        /\ Goto("loop", "cancelEnd")
        /\ UNCHANGED <<urgent, holds, lock, pin, interj, aim, waiting, turnActive,
                       spawned, goalVars, reported, chan, may, terminals, panicked>>

(* Mutant: the cancelled turn is told by the pin alone. *)
CancelIdentPin == cx.pinned
(* The turn that is cancelled; the pin may have been cleared before. *)
CancelIdent == IF cx.torn # None THEN cx.torn ELSE cx.pinned

(* Abort the task, clear the pin, emit the terminal, answer the victims;   *)
(* the Cancel command also pauses an active goal.                          *)
CancelEnd ==
    LET emit == cx.rewound = None /\ CancelIdent # None
    IN  /\ pc["loop"] = "cancelEnd"
        /\ turn' = IF cx.torn = None THEN turn ELSE Aborted(cx.torn)
        /\ turnActive' = FALSE
        /\ waiting' = {}
        /\ goalLoop' = FALSE
        /\ pin' = None
        /\ terminals' = IF emit THEN [terminals EXCEPT ![CancelIdent] = @ + 1]
                        ELSE terminals
        /\ fate' = Resolve(cx.victims,
                           IF cx.rewound = None THEN "cancelled" ELSE "rewound")
        /\ goal' = IF goal = "active" /\ ~cx.sendNow THEN "paused" ELSE goal
        /\ Handle(IF cx.sendNow THEN "reengage" ELSE "start", cx.after)
        /\ UNCHANGED <<stateVars, lock, sendVars, spawned, reported, chan, may,
                       panicked>>

(* A send-now re-enables notification drains. *)
Reengage ==
    /\ pc["loop"] = "reengage" /\ LockFree
    /\ suppressed' = FALSE
    /\ Goto("loop", "start")
    /\ UNCHANGED <<q, running, urgent, holds, notes, rewindable, lock, pin,
                   sendVars, turnVars, goalVars, reported, chan, may, cx,
                   endVars, panicked>>

-----------------------------------------------------------------------------
(***************************************************************************)
(* The completion of a turn.                                               *)
(***************************************************************************)
(* Mutant: notifications are left to the next user prompt. *)
CompletionNoDrain ==
    LET done == Head(chan)
    IN  /\ pc["loop"] = "idle" /\ chan # <<>>
        /\ chan' = Tail(chan)
        /\ pin' = Unpin(done)
        /\ goalLoop' = (goalLoop /\ pin' # None)
        /\ cx' = [NoCx EXCEPT !.done = done, !.after = "idle"]
        /\ Goto("loop", "pop")
        /\ UNCHANGED <<stateVars, lock, sendVars, turnVars, goal, reported, may,
                       endVars, panicked>>

(* handle_completion up to the state mutex: unpin, and the idle resets.    *)
Completion ==
    LET done == Head(chan)
    IN  /\ pc["loop"] = "idle" /\ chan # <<>>
        /\ chan' = Tail(chan)
        /\ pin' = Unpin(done)
        /\ goalLoop' = (goalLoop /\ pin' # None)
        /\ cx' = [NoCx EXCEPT !.done = done, !.after = "drain"]
        /\ Goto("loop", "pop")
        /\ UNCHANGED <<stateVars, lock, sendVars, turnVars, goal, reported, may,
                       endVars, panicked>>

(* handle_completion under the mutex: only the owner of the front pops it. *)
PopFront ==
    LET done  == cx.done
        owned == q # <<>> /\ q[1] = done
    IN  /\ pc["loop"] = "pop" /\ LockFree
        /\ q' = IF owned THEN Tail(q) ELSE q
        /\ running' = IF owned \/ running = done THEN None ELSE running
        /\ fate' = IF owned THEN Resolve({done}, "answered") ELSE fate
        /\ terminals' = IF owned THEN [terminals EXCEPT ![done] = @ + 1]
                        ELSE terminals
        /\ Goto("loop", "turnEnd")
        /\ UNCHANGED <<urgent, holds, notes, suppressed, rewindable, lock, pin,
                       sendVars, turnVars, goalVars, reported, chan, may, cx,
                       panicked>>

(* drain_monitor_buffer_to_pending, the infra pause, handle_turn_end: an   *)
(* active goal goes on with one more turn, or is paused by the back-off.   *)
TurnEnd ==
    /\ pc["loop"] = "turnEnd" /\ LockFree
    /\ notes' = AbsorbMonitors(notes)
    /\ monBuf' = <<>>
    /\ \/ UNCHANGED <<q, fate, goal>>
       \/ /\ goal = "active"
          /\ goal' = "paused"
          /\ UNCHANGED <<q, fate>>
       \/ /\ goal = "active"
          /\ Queued \cap GoalTurns = {}
          /\ \E i \in GoalTurns :
                 /\ fate[i] = "new"
                 /\ q' = Append(q, i)
                 /\ fate' = Resolve({i}, "pending")
          /\ UNCHANGED goal
    /\ Goto("loop", "flush")
    /\ UNCHANGED <<running, urgent, holds, suppressed, rewindable, lock, pin,
                   interj, aim, turnVars, goalLoop, reported, chan, may, cx,
                   terminals, panicked>>

(* Mutant: the buffer is read and not taken. *)
FlushCopy ==
    /\ pc["loop"] = "flush"
    /\ cx' = [cx EXCEPT !.late = interj]
    /\ Goto("loop", IF interj = <<>> THEN "start" ELSE "requeue")
    /\ UNCHANGED <<stateVars, lock, pin, interj, aim, monBuf, turnVars, goalVars,
                   reported, chan, may, endVars, panicked>>

(* flush_stranded_interjections: take the buffer. *)
Flush ==
    /\ pc["loop"] = "flush"
    /\ interj' = <<>>
    /\ cx' = [cx EXCEPT !.late = interj]
    /\ Goto("loop", IF interj = <<>> THEN "start" ELSE "requeue")
    /\ UNCHANGED <<stateVars, lock, pin, aim, monBuf, turnVars, goalVars,
                   reported, chan, may, endVars, panicked>>

-----------------------------------------------------------------------------
(***************************************************************************)
(* Notifications: output of monitors and completions that may not wake.    *)
(***************************************************************************)
(* SessionCommand::InjectNotification: a monitor event goes to the buffer  *)
(* of the turn that looks active; else, and for the completion of a task   *)
(* that may not wake (auto-wake is off), to the pending ones and on to a   *)
(* drain.                                                                  *)
InjectNotification(e) ==
    /\ Accept(IF e \in Monitors THEN "notify" ELSE "notifyDone")
    /\ fate[e] = "new"
    /\ fate' = Resolve({e}, "noted")
    /\ IF turnActive /\ e \in Monitors
       THEN /\ monBuf' = PushCapped(monBuf, <<e>>, MaxBuffer)
            /\ UNCHANGED <<notes, pc, cx>>
       ELSE /\ LockFree
            /\ notes' = PushCapped(notes, <<e>>, MaxNotes)
            /\ Handle("drain", "idle")
            /\ UNCHANGED monBuf
    /\ UNCHANGED <<q, running, urgent, holds, suppressed, rewindable, lock, pin,
                   interj, aim, turnVars, goalVars, reported, chan, may,
                   terminals, panicked>>

(* SessionCommand::DropMonitorNotifications: its completion will speak. *)
DropMonitorNotifications(task) ==
    LET mine == {e \in Monitors : MonitorTask[e] = task}
    IN  /\ Accept("dropMonitor") /\ LockFree
        /\ notes' = Retain(notes, Notes \ mine)
        /\ monBuf' = Retain(monBuf, Monitors \ mine)
        /\ UNCHANGED <<q, running, urgent, holds, suppressed, rewindable, lock,
                       pin, interj, aim, turnVars, goalVars, reported, chan, pc,
                       may, cx, endVars, panicked>>

(* is_session_idle_for_injection *)
IdleForInjection == running = None /\ q = <<>> /\ ~suppressed

(* split_goal_suppressed: the sets of notifications the goal may swallow;  *)
(* the tasks it started during its own turns are not tracked here.         *)
GoalMutes ==
    CASE goal = "none" -> {{}}
      [] goal \in {"active", "complete"} -> {Notes}
      [] OTHER -> {{n \in Notes : NoteTask(n) \in T} : T \in SUBSET TaskWakes}

(* maybe_drain_notifications: everything pending becomes one turn. *)
DrainNotifications ==
    LET all == AbsorbMonitors(notes)
    IN  /\ pc["loop"] = "drain" /\ LockFree
        /\ IF ~IdleForInjection
           THEN /\ Handle("idle", "idle")
                /\ UNCHANGED <<q, notes, monBuf, fate>>
           ELSE /\ monBuf' = <<>>
                /\ notes' = <<>>
                /\ \E muted \in GoalMutes :
                     IF ToSet(all) \subseteq muted
                     THEN Handle("idle", "idle") /\ UNCHANGED <<q, fate>>
                     ELSE \E i \in DrainTurns :
                            /\ fate[i] = "new"
                            /\ q' = Append(q, i)
                            /\ fate' = Resolve({i}, "pending")
                            /\ Handle("start", "idle")
        /\ UNCHANGED <<running, urgent, holds, suppressed, rewindable, lock, pin,
                       interj, aim, turnVars, goalVars, reported, chan, may,
                       terminals, panicked>>

-----------------------------------------------------------------------------
(* SessionCommand::Shutdown: synthetic prompts and notifications are       *)
(* dropped (drop_pending_synthetic_items) and the run loop returns.        *)
Shutdown ==
    /\ Accept("shutdown") /\ LockFree
    /\ q' = Retain(q, UserMessages)
    /\ notes' = <<>>
    /\ fate' = Resolve(Queued \cap Synthetic, "dropped")
    /\ Handle("ended", "idle")
    /\ UNCHANGED <<running, urgent, holds, suppressed, rewindable, lock, pin,
                   sendVars, turnVars, goalVars, reported, chan, may, terminals,
                   panicked>>

-----------------------------------------------------------------------------
(***************************************************************************)
(* The turn task of prompt t (handle_prompt).                              *)
(***************************************************************************)
Does(t, what) == turn[t] = "open" /\ what \in Commands

(* TurnActiveGuard::activate *)
TurnBegin(t) ==
    /\ turn[t] = "spawned"
    /\ turn' = [turn EXCEPT ![t] = "started"]
    /\ turnActive' = TRUE
    /\ UNCHANGED <<stateVars, lock, pin, sendVars, waiting, spawned, goalVars,
                   reported, chan, pc, may, cx, endVars, panicked>>

(* consume_deferred_completions: a user turn tells the model about the     *)
(* completions that wait, and about nothing else of their tasks.  Then the *)
(* first round begins and sets the goal gate.                              *)
TurnOpen(t) ==
    LET all  == AbsorbMonitors(notes)
        done == ToSet(all) \cap TaskWakes
    IN  /\ turn[t] = "started" /\ LockFree
        /\ turn' = [turn EXCEPT ![t] = "open"]
        /\ IF t \in UserMessages
           THEN /\ notes' = Retain(all, {n \in Notes : NoteTask(n) \notin done})
                /\ monBuf' = <<>>
           ELSE UNCHANGED <<notes, monBuf>>
        /\ goalLoop' = (goal = "active")
        /\ UNCHANGED <<q, running, urgent, holds, suppressed, rewindable, lock,
                       pin, interj, aim, waiting, turnActive, spawned, goal,
                       reported, chan, pc, may, cx, endVars, panicked>>

(* close_rewind_window: the turn has produced something. *)
TurnOutput(t) ==
    /\ Does(t, "output") /\ LockFree
    /\ rewindable' = FALSE
    /\ UNCHANGED <<q, running, urgent, holds, notes, suppressed, lock, pin,
                   sendVars, turnVars, goalVars, reported, chan, pc, may, cx,
                   endVars, panicked>>

(* drain_pending_interjections, then inject_pending_monitor_events *)
TurnInject(t) ==
    /\ turn[t] = "open"
    /\ interj # <<>> \/ monBuf # <<>>
    /\ fate' = Resolve(ToSet(interj), "merged")
    /\ interj' = <<>>
    /\ monBuf' = <<>>
    /\ UNCHANGED <<stateVars, lock, pin, aim, turnVars, goalVars, reported, chan,
                   pc, may, cx, terminals, panicked>>

(* A tool call that blocks on background work begins or ends. *)
TurnWait(t) ==
    /\ Does(t, "wait")
    /\ waiting' = IF t \in waiting THEN waiting \ {t} ELSE waiting \cup {t}
    /\ UNCHANGED <<stateVars, lock, pin, sendVars, turn, turnActive, spawned,
                   goalVars, reported, chan, pc, may, cx, endVars, panicked>>

(* create_goal, pause (or out of budget), resume, complete, clear. *)
GoalMoves == {<<"none", "active">>, <<"active", "paused">>, <<"paused", "active">>,
              <<"active", "complete">>, <<"paused", "complete">>,
              <<"complete", "active">>, <<"active", "none">>, <<"paused", "none">>,
              <<"complete", "none">>}
(* The turn moves the goal tracker. *)
TurnGoal(t) ==
    /\ Does(t, "goal")
    /\ goal' \in {g \in GoalStatus : <<goal, g>> \in GoalMoves}
    /\ UNCHANGED <<stateVars, lock, pin, sendVars, turnVars, goalLoop, reported,
                   chan, pc, may, cx, endVars, panicked>>

(* The next round of the turn: the gate follows the goal again. *)
TurnRound(t) ==
    /\ Does(t, "goal")
    /\ goalLoop' = (goal = "active")
    /\ UNCHANGED <<stateVars, lock, pin, sendVars, turnVars, goal, reported,
                   chan, pc, may, cx, endVars, panicked>>

(* drop_pending_items_for_consumed_completions: the turn itself has read   *)
(* the output of the background work c.                                    *)
TurnConsumes(t, c) ==
    /\ Does(t, "consume") /\ LockFree
    /\ c \in Queued \cup {NoteTask(n) : n \in ToSet(notes)}
    /\ q' = Sweep(q, {c})
    /\ notes' = Retain(notes, {n \in Notes : NoteTask(n) # c})
    /\ fate' = Resolve(Queued \ ToSet(q'), "dropped")
    /\ UNCHANGED <<running, urgent, holds, suppressed, rewindable, lock, pin,
                   sendVars, turnVars, goalVars, reported, chan, pc, may, cx,
                   terminals, panicked>>

(* The turn is told the workflow's result by a reminder. *)
TurnReportsWorkflow(t, w) ==
    /\ Does(t, "report")
    /\ goal # "active"
    /\ w \notin reported
    /\ reported' = reported \cup {w}
    /\ UNCHANGED <<stateVars, lock, pin, sendVars, turnVars, goalVars, chan, pc,
                   may, cx, endVars, panicked>>

(* TurnSubagentScopeGuard::drop *)
TurnLeaveScope(t) ==
    /\ turn[t] = "open" /\ t \notin waiting
    /\ turn' = [turn EXCEPT ![t] = "left"]
    /\ pin' = Unpin(t)
    /\ UNCHANGED <<stateVars, lock, sendVars, waiting, turnActive, spawned,
                   goalVars, reported, chan, pc, may, cx, endVars, panicked>>

(* Mutant: an early return does not report its completion. *)
TurnFinishSilent(t) ==
    /\ turn[t] \in {"started", "left"}
    /\ turn' = [turn EXCEPT ![t] = "over"]
    /\ turnActive' = FALSE
    /\ chan' = IF turn[t] = "left" THEN Append(chan, t) ELSE chan
    /\ UNCHANGED <<stateVars, lock, pin, sendVars, waiting, spawned, goalVars,
                   reported, pc, may, cx, endVars, panicked>>

(* The end of run_task; a turn may also return before its scope opens. *)
TurnFinish(t) ==
    /\ turn[t] \in {"started", "left"}
    /\ turn' = [turn EXCEPT ![t] = "over"]
    /\ turnActive' = FALSE
    /\ chan' = Append(chan, t)
    /\ UNCHANGED <<stateVars, lock, pin, sendVars, waiting, spawned, goalVars,
                   reported, pc, may, cx, endVars, panicked>>

-----------------------------------------------------------------------------
UserCommand ==
    \/ \E i \in Prompts, now \in BOOLEAN : PromptUser(i, now)
    \/ \E i \in Prompts : \/ RemoveQueued(i)
                          \/ InterjectQueued(i)
                          \/ HoldCombineEdit(i)
                          \/ ReleaseCombineEdit(i)
    \/ \E i \in Interjections : Interject(i)
    \/ \E order \in SetToAllKPermutations(Prompts) : Reorder(order)
    \/ \E owner \in Clients \cup {None} : ClearQueue(owner)
    \/ \E kind \in CancelKinds : CancelBegin(kind)
    \/ Shutdown

Wake ==
    \/ \E i \in TaskWakes \cup SubagentWakes \cup TimerWakes, late \in BOOLEAN :
           PromptWake(i, late)
    \/ \E i \in GoalTurns : GoalSummaryTurn(i)
    \/ \E i \in WorkflowWakes : WorkflowCompletionTurn(i)
    \/ \E e \in Notes : InjectNotification(e)
    \/ \E task \in TaskWakes : DropMonitorNotifications(task)

(* What the run loop does next within a handler: it never waits for a client. *)
Handler ==
    \/ CancelForSendNow \/ CancelAbortEarly \/ CancelLocked \/ CancelEnd
    \/ Reengage \/ Completion \/ PopFront \/ TurnEnd \/ Flush \/ Requeue
    \/ DrainNotifications

Promotion(p) == Start(p) \/ Promote(p) \/ Spawn(p)

Starter ==
    \/ McpReady
    \/ \E i \in ResumeTurns : ResumePlan(i)

TurnStep(t) == TurnBegin(t) \/ TurnOpen(t) \/ TurnLeaveScope(t) \/ TurnFinish(t)

TurnWork(t) ==
    \/ TurnOutput(t) \/ TurnInject(t) \/ TurnWait(t) \/ TurnGoal(t) \/ TurnRound(t)
    \/ \E c \in TaskWakes \cup SubagentWakes : TurnConsumes(t, c)
    \/ \E w \in WorkflowWakes : TurnReportsWorkflow(t, w)

Next ==
    \/ UserCommand
    \/ Wake
    \/ Handler
    \/ \E p \in Procs : Promotion(p)
    \/ Starter
    \/ \E t \in Ids : TurnStep(t) \/ TurnWork(t)

(***************************************************************************)
(* The executor polls every task that is ready, so the run loop goes on    *)
(* within a handler, starters go on, and a turn goes on to its end; what a *)
(* blocking wait waits for comes.  Nobody has to send anything.            *)
(***************************************************************************)
Fairness ==
    /\ WF_vars(Handler)
    /\ \A p \in Procs : WF_vars(Promotion(p))
    /\ \A t \in Ids : /\ SF_vars(TurnStep(t))
                      /\ WF_vars(t \in waiting /\ TurnWait(t))

Spec == Init /\ [][Next]_vars
FairSpec == Spec /\ Fairness

-----------------------------------------------------------------------------
(***************************************************************************)
(* Properties.                                                             *)
(***************************************************************************)
Pcs(p) == IF p = "loop" THEN LoopPcs ELSE StarterPcs
CxType == [kind : CancelKind, sendNow : BOOLEAN, pinned : Ids \cup {None},
           torn : Ids \cup {None}, victims : SUBSET Ids,
           rewound : Ids \cup {None}, done : Ids \cup {None},
           late : Seq(Interjections), after : {"idle", "drain"}]

StateType ==
    /\ q \in Seq(Ids) /\ running \in Ids \cup {None}
    /\ urgent \subseteq Ids /\ holds \subseteq Prompts
    /\ notes \in Seq(Notes) /\ Len(notes) <= MaxNotes
    /\ suppressed \in BOOLEAN /\ rewindable \in BOOLEAN
SendType ==
    /\ interj \in Seq(Interjections)
    /\ aim \in [Interjections -> Ids \cup {None}]
    /\ monBuf \in Seq(Monitors) /\ Len(monBuf) <= MaxBuffer
TurnType ==
    /\ turn \in [Ids -> Live \cup {"none", "over"}]
    /\ waiting \subseteq Ids /\ turnActive \in BOOLEAN
    /\ spawned \in [Ids -> Nat]
GoalType ==
    /\ goal \in GoalStatus /\ goalLoop \in BOOLEAN
    /\ reported \subseteq WorkflowWakes
LoopType ==
    /\ lock \in Procs \cup {None} /\ pin \in Ids \cup {None}
    /\ chan \in Seq(Ids)
    /\ pc \in [Procs -> LoopPcs \cup StarterPcs] /\ \A p \in Procs : pc[p] \in Pcs(p)
    /\ may \in [Procs -> BOOLEAN]
    /\ cx \in CxType
EndType ==
    /\ fate \in [Ids \cup Monitors -> Fates]
    /\ terminals \in [Ids -> Nat]
    /\ panicked \in BOOLEAN

(* The type of the session's state; the two notification buffers stay      *)
(* within their caps (push_pending_notification, push_capped).             *)
TypeOK == StateType /\ SendType /\ TurnType /\ GoalType /\ LoopType /\ EndType

(* The prompt of the running task is the front of the queue, whatever      *)
(* clients insert, remove, reorder or sweep while it runs: every handler   *)
(* tells the running turn's slot by its place (State::sweep_pending_inputs *)
(* and "promotes the front WITHOUT popping it" in cancel_running_task).    *)
(* Shutdown alone drops it, after which the loop is over.                  *)
RunningIsFront ==
    (running # None /\ pc["loop"] # "ended") => q # <<>> /\ q[1] = running

(* Nothing a client sent is lost and nothing is in the queue twice: what   *)
(* was accepted and not answered is in exactly one place, the queue or the *)
(* hands of a cancel (or the interjection buffer, or the hands of a        *)
(* flush), and what was answered is in none of them.                       *)
Conserved ==
    /\ IsInjective(q)
    /\ Queued \cap cx.victims = {}
    /\ \A i \in Ids : fate[i] = "pending" <=> i \in Queued \cup cx.victims
    /\ IsInjective(interj \o cx.late)
    /\ \A i \in Interjections :
           fate[i] = "buffered" <=> i \in ToSet(interj) \cup ToSet(cx.late)

(* Clients see exactly one TurnCompleted for a turn that ran and was       *)
(* answered or cancelled, none for one that never ran or was rewound.      *)
TerminalOnce ==
    \A i \in Ids :
        /\ terminals[i] <= 1
        /\ terminals[i] = 1 => spawned[i] = 1 /\ fate[i] \in {"answered", "cancelled"}
        /\ fate[i] = "answered" => terminals[i] = 1
        /\ fate[i] = "cancelled" /\ spawned[i] = 1 => terminals[i] = 1
        /\ fate[i] = "rewound" => terminals[i] = 0

(* Two turns are alive at once only while a cancel has taken the older one *)
(* out of its slot and not aborted it yet.                                 *)
OverlapOnlyInCancel ==
    \A t, u \in Ids :
        t # u /\ turn[t] \in Live /\ turn[u] \in Live
        => pc["loop"] = "cancelEnd" /\ cx.torn \in {t, u}

(* The debug_assert of cancel_running_task: when it has the state mutex,   *)
(* the pin it read before agrees with the task it finds.                   *)
PinAgrees ==
    pc["loop"] = "cancelLock" /\ LockFree
    => cx.pinned = None \/ running = None \/ running = cx.pinned

(* "INVARIANT: this flush must only ever see interjections aimed at the    *)
(* turn that just completed" (the completion arm of the run loop).         *)
FlushOwnTurn ==
    pc["loop"] = "flush" => \A i \in ToSet(interj) : aim[i] = cx.done

(* A task slot is never left behind by a turn that is over: its completion *)
(* is still to be handled, or the loop is at it.  Nothing else empties the *)
(* slot, so a session that violated this would be stuck.                   *)
NoWedge ==
    (running # None /\ pc["loop"] = "idle" /\ chan = <<>>)
    => turn[running] \in Live

StartersQuiet == \A p \in Starters : pc[p] \in {"waiting", "done"}
Quiet == pc["loop"] = "idle" /\ chan = <<>> /\ StartersQuiet

(* Whenever nothing is in progress, a prompt that waits, waits for a turn. *)
NoStall == Quiet /\ q # <<>> => running # None

(* Whenever nothing is in progress, notifications wait for a turn or for   *)
(* the end of the Ctrl+C barrier: the races of the buffer of the turn with *)
(* the end of the turn leave none behind.  The one exception is the        *)
(* completion whose admission came too late (TASK_WAKE_ADMISSION_TIMEOUT): *)
(* it waits for the next drain.                                            *)
NoStrandedNotes ==
    Quiet /\ running = None /\ ~suppressed
    => monBuf = <<>> /\ \A n \in ToSet(notes) : fate[n] = "tooLate"

(* While the Ctrl+C barrier is up, no completion wake and no notification  *)
(* starts a turn.                                                          *)
BarrierHolds ==
    [][\A i \in TaskWakes \cup WorkflowWakes \cup DrainTurns :
           spawned'[i] > spawned[i] => ~suppressed]_vars

(* A cancel that is no teardown ends the running turn and no other: a user *)
(* message that never ran is not cancelled ("the message never runs and is *)
(* lost from history", State::sweep_pending_inputs).                       *)
QueuedSurviveCancel ==
    [][\A i \in UserMessages :
           fate'[i] = "cancelled" /\ fate[i] # "cancelled" /\ ~cx.kind.kill
           => spawned[i] = 1]_vars

Unresolved(i) == fate[i] \in {"pending", "buffered"}

(* Every message a user sends is answered, merged into a turn, cancelled,  *)
(* given back or removed in the end, unless the session shuts down.        *)
UserIsAnswered ==
    \A i \in UserMessages :
        Unresolved(i) ~> (~Unresolved(i) \/ pc["loop"] = "ended")

-----------------------------------------------------------------------------
(***************************************************************************)
(* What a client can tell of a message.                                    *)
(***************************************************************************)
PhaseOf(i) ==
    CASE fate[i] = "pending" /\ i \in cx.victims -> "ending"
      [] fate[i] = "pending" /\ i \notin cx.victims ->
             IF spawned[i] > 0 THEN "running" ELSE "queued"
      [] fate[i] = "buffered" -> "held"
      [] fate[i] \in {"new", "answered", "cancelled", "rewound"} -> fate[i]
      [] OTHER -> "withdrawn"

Lifecycle == INSTANCE PromptLifecycle WITH
    Messages <- Ids,
    phase    <- [i \in Ids |-> PhaseOf(i)],
    open     <- pc["loop"] # "ended"

(* The session keeps the promise of PromptLifecycle: whatever clients,     *)
(* wakes, starters and turns do, each message goes through its life once,  *)
(* and no two turns are given to the model at the same time.               *)
Implements == Lifecycle!Spec

-----------------------------------------------------------------------------
(***************************************************************************)
(* What the code says of itself and does not do.                           *)
(***************************************************************************)
(* "session state is actor-owned": the message of the expect() by which    *)
(* cancel_running_task takes the state mutex without waiting for it.       *)
StateIsActorOwned == ~panicked

(* "In a single state-lock hold the actor removes the prompt from          *)
(* pending_inputs and pushes its text into pending_interjections ... and   *)
(* the prompt can never both interject AND later run as its own turn" (doc *)
(* of handle_interject_queued_prompt).                                     *)
InterjectLeavesQueue ==
    [][\A i \in Prompts :
           InterjectQueued(i) /\ running # None => i \notin ToSet(q')]_vars

(* "Ctrl+C leaves pending notifications suppressed" (the Cancel arm of the *)
(* run loop, which for that reason does not drain them afterwards).        *)
CtrlCDefersNotes ==
    pc["loop"] = "cancelEnd" /\ cx.kind.ctrlC /\ notes # <<>> => suppressed
=============================================================================
