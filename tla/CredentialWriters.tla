------------------------- MODULE CredentialWriters --------------------------
(***************************************************************************)
(* The refresh protocol together with the handler of                        *)
(* x.ai/privacy/setCodingDataRetention, which also writes auth.json: it      *)
(* takes the credential before an HTTP request and saves it, with one flag   *)
(* changed, when the answer is in.                                         *)
(***************************************************************************)
EXTENDS CredentialRefresh

VARIABLE
    saving     \* process -> credential the handler has taken, or 0

writerVars == <<vars, saving>>

WritersInit == Init /\ saving = [p \in Procs |-> 0]

(* auth() answers with a credential that is still valid; the PUT goes out. *)
HandleSet(p) ==
    /\ Running(p) /\ saving[p] = 0 /\ mem[p] # 0 /\ ~Expired(mem[p])
    /\ saving' = [saving EXCEPT ![p] = mem[p]]
    /\ UNCHANGED vars

(* The PUT was accepted: save_without_enrichment writes the whole credential  *)
(* to auth.json and to memory, without the lock.                             *)
SaveWithoutEnrichment(p) ==
    /\ Running(p) /\ saving[p] # 0
    /\ disk' = saving[p] /\ mem' = [mem EXCEPT ![p] = saving[p]]
    /\ verdict' = [verdict EXCEPT ![p] = 0]
    /\ saving' = [saving EXCEPT ![p] = 0]
    /\ UNCHANGED <<lockVars, pc, try, due, expired, idpVars, powerVars, faults>>

(* The PUT failed. *)
SetFails(p) ==
    /\ Running(p) /\ saving[p] # 0
    /\ saving' = [saving EXCEPT ![p] = 0] /\ UNCHANGED vars

WritersNext ==
    \/ Next /\ UNCHANGED saving
    \/ \E p \in Procs : HandleSet(p) \/ SaveWithoutEnrichment(p) \/ SetFails(p)

WritersSpec == WritersInit /\ [][WritersNext]_writerVars

(* What auth.json holds only moves forward: a write never puts an earlier     *)
(* credential over a later one ("an unlocked R-M-W can silently revert a      *)
(* freshly rotated AT/RT on disk", enrichment.rs).                          *)
NoRollback == [][disk' # disk => disk' = 0 \/ disk' > disk]_writerVars

=============================================================================
