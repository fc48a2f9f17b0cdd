-------------------------- MODULE PromptLifecycle ---------------------------
(***************************************************************************)
(* What a session promises about the messages it is sent, and nothing      *)
(* about how: a message waits in line or is held for the running turn,     *)
(* runs at most once, never together with another one, and is answered     *)
(* once.  Module SessionQueue implements it (SessionQueue!Lifecycle).      *)
(***************************************************************************)
CONSTANT Messages

VARIABLES
    phase,  \* where each message is in its life
    open    \* the session has not been shut down

(* ending: the turn is being cancelled and its sender not answered yet.    *)
(* withdrawn: it left the session without running and without an answer of *)
(* the model (removed, superseded, or merged into another turn).           *)
Phases == {"new", "held", "queued", "running", "ending",
           "answered", "cancelled", "rewound", "withdrawn"}

(* The moves one message can make. *)
Moves ==
    ({"new"} \X {"held", "queued", "withdrawn"})
    \cup ({"held"} \X {"queued", "withdrawn"})
    \cup ({"queued"} \X {"running", "ending", "withdrawn"})
    \cup ({"running"} \X {"answered", "ending"})
    \cup ({"ending"} \X {"cancelled", "rewound"})

Running(f) == {m \in Messages : f[m] = "running"}

Init == phase = [m \in Messages |-> "new"] /\ open = TRUE

(* A step moves some messages, never two into or within the running turn.  *)
Step ==
    /\ phase' \in [Messages -> Phases]
    /\ \A m \in Messages : phase'[m] = phase[m] \/ <<phase[m], phase'[m]>> \in Moves
    /\ \A m \in Running(phase) : Running(phase') \subseteq {m}
    /\ \A m, n \in Running(phase') : m = n
    /\ open' = open

(* The session is shut down: what it runs for itself is dropped with it.   *)
Close ==
    /\ open
    /\ open' = FALSE
    /\ phase' \in [Messages -> Phases]
    /\ \A m \in Messages : phase'[m] \in {phase[m], "withdrawn"}

Next == Step \/ Close

Spec == Init /\ [][Next]_<<phase, open>>
=============================================================================
