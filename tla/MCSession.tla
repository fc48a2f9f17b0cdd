----------------------------- MODULE MCSession ------------------------------
(***************************************************************************)
(* Small sessions for TLC.  Every .cfg picks who takes part (its empty sets *)
(* switch the rest off), what clients send and what turns do.              *)
(***************************************************************************)
EXTENDS SessionQueue

CONSTANTS p1, p2, c1, c2

(* The first prompt belongs to one client, the others to another. *)
MCOwner == [i \in Prompts |-> IF i = p1 THEN c1 ELSE c2]
(* Every monitor event belongs to the same background task. *)
MCMonitorTask == [e \in Monitors |-> CHOOSE t \in TaskWakes : TRUE]

Request(subs, kill, rewind, ctrlC) ==
    [subs |-> subs, kill |-> kill, rewind |-> rewind, ctrlC |-> ctrlC]
(* Session teardown, Esc, Esc on a pristine turn, Ctrl+C. *)
Teardown == Request(TRUE, TRUE, FALSE, FALSE)
Escape == Request(FALSE, FALSE, FALSE, FALSE)
EscapeRewind == Request(FALSE, FALSE, TRUE, FALSE)
CtrlC == Request(TRUE, FALSE, FALSE, TRUE)
CtrlCRewind == Request(TRUE, FALSE, TRUE, TRUE)

NoCancels == {}
OnlyEscape == {Escape}
Escapes == {Escape, EscapeRewind}
CtrlCs == {Escape, CtrlC}
Hard == {Teardown, Escape}
AllCancels == {Teardown, Escape, EscapeRewind, CtrlC, CtrlCRewind}
=============================================================================
