-------------------------- MODULE CredentialRefresh --------------------------
(***************************************************************************)
(* Several grok processes share one OAuth session: auth.json holds the      *)
(* access token and the refresh token, and auth.json.lock decides who may    *)
(* exchange the refresh token at the identity provider (IdP).  The IdP       *)
(* rotates refresh tokens: an exchange spends the token and issues the next  *)
(* one, and a token presented twice revokes the whole session.              *)
(*                                                                         *)
(* A credential is the number of its rotation; 0 means none.  Tokens expire  *)
(* in the order they were issued.  The lock file is modelled as the file      *)
(* system has it: a path that names an inode, inodes that processes keep      *)
(* open, and flocks on inodes.  The tasks of a process take turns on its      *)
(* refresh_lock, so each process is modelled by one refresh at a time.       *)
(***************************************************************************)
EXTENDS Integers, FiniteSets

CONSTANTS
    Procs,            \* processes that share auth.json
    None,             \* no process
    Gone,             \* a process that has exited
    MaxGen,           \* bound: credentials the IdP may issue
    Faults,           \* kinds of faults that may happen
    MaxFaults,        \* bound: how many of them
    MaxOrphans,       \* bound: threads of abandoned waits that are followed
    Listeners,        \* processes with a power listener: interactive, not headless
    OtherScopes       \* auth.json has entries of other scopes as well

ASSUME RefreshAssumption ==
    /\ IsFiniteSet(Procs) /\ None \notin Procs /\ Gone \notin Procs \cup {None}
    /\ MaxGen \in Nat \ {0} /\ MaxFaults \in Nat /\ MaxOrphans \in Nat
    /\ Faults \subseteq {"crash", "stop", "lose", "persist", "suspend", "orphan"}
    /\ Listeners \subseteq Procs /\ OtherScopes \in BOOLEAN

(* Every process and every abandoned thread may keep a file open, and the  *)
(* path names one more.                                                    *)
Inodes == 1..(Cardinality(Procs) + MaxOrphans + 1)

VARIABLES
    path,      \* inode auth.json.lock names, 0 when there is no such file
    info,      \* inode -> process whose PID and time it holds, Gone or None
    stale,     \* inodes whose holder info is older than STALE_LOCK_TIMEOUT_SECS
    flock,     \* inode -> process that has the flock, or None
    fd,        \* process -> inode its acquisition or guard has open, or 0
    orphans,   \* blocking threads whose wait was given up, [proc, inode, got]
    pc,        \* process -> where its refresh is
    try,       \* process -> its refresh: why, and the phase and round of which acquisition
    due,       \* process -> holders that beat before its confirmation delay ends
    disk,      \* credential in auth.json
    mem,       \* process -> AuthManager::inner
    verdict,   \* process -> credential of a sticky permanent failure, or 0
    expired,   \* credentials up to this one are past their expiry
    wire,      \* process -> its exchange: token sent, answer, disk retry or not
    tok,       \* process -> credential about to be persisted, or 0
    latest,    \* IdP: the credential it accepts
    revoked,   \* IdP: the session is revoked
    reused,    \* IdP: a token it had rotated before was presented again
    stopped,   \* processes that do not run for now, heartbeat thread included
    gated,     \* processes whose sleep gate is up
    acked,     \* process -> how its WillSleep handler let the machine go
    harm,      \* history: what has gone wrong with a successor or with the lock
    cut,       \* history: waiters whose confirmation a sleep or a resumption has cut
    faults     \* faults so far

lockVars == <<path, info, stale, flock, fd, orphans>>
credVars == <<disk, mem, verdict, expired>>
history == <<harm, cut>>
exchVars == <<wire, tok, latest, revoked, reused>>
idpVars == <<exchVars, history>>
powerVars == <<stopped, gated, acked>>
vars == <<lockVars, pc, try, due, credVars, idpVars, powerVars, faults>>

Running(p) == pc[p] \notin {"off", "crashed"} /\ p \notin stopped
(* AuthFileLock, with its heartbeat, exists from the verification on. *)
Guarded(p) == pc[p] \in {"adopt", "revalidate", "claim", "gate", "resolve", "sent",
                         "rejected", "settle", "discard", "persist"}
(* Has the flock, or is about to prove that it has: dates the file soon. *)
Holding(p) == p \notin stopped /\ (Guarded(p) \/ pc[p] \in {"write", "verify"})
(* Its holder info is in the file. *)
Named(p) == Guarded(p) \/ pc[p] = "verify"
(* InFlightGuard: from the claim until the refresher returns. *)
InFlight(p) == pc[p] \in {"gate", "resolve", "sent", "rejected"}
(* Has looked at the path for the last time: whatever becomes of the lock   *)
(* file, the exchange and its outcome follow.                              *)
Committed(p) ==
    \/ pc[p] \in {"claim", "gate", "resolve", "sent", "rejected", "settle", "discard", "persist"}
    \/ pc[p] = "adopt" /\ try[p].again

Expired(g) == g <= expired
NoWire == [rt |-> 0, answer |-> "none", again |-> FALSE, sends |-> 0]
FirstTry == [reason |-> "PreRequest", phase |-> 1, round |-> 0, again |-> FALSE]

Init ==
    /\ path \in {0, 1}
    /\ info = [i \in Inodes |-> IF i = path THEN Gone ELSE None]
    /\ stale = {path} \ {0}
    /\ flock = [i \in Inodes |-> None]
    /\ fd = [p \in Procs |-> 0] /\ orphans = {}
    /\ pc = [p \in Procs |-> "off"] /\ try = [p \in Procs |-> FirstTry]
    /\ due = [p \in Procs |-> {}]
    /\ disk = 1 /\ mem = [p \in Procs |-> 0] /\ verdict = [p \in Procs |-> 0]
    /\ expired = 0
    /\ wire = [p \in Procs |-> NoWire] /\ tok = [p \in Procs |-> 0]
    /\ latest = 1 /\ revoked = FALSE /\ reused = FALSE /\ harm = {} /\ cut = {}
    /\ stopped = {} /\ gated = {} /\ acked = [p \in Procs |-> "no"]
    /\ faults = 0

(* One more of the faults that may happen. *)
Fault(kind) == kind \in Faults /\ faults < MaxFaults /\ faults' = faults + 1
Goto(p, label) == pc' = [pc EXCEPT ![p] = label]
(* Dropping the file closes it, which gives up the flock. *)
Close(p) ==
    /\ fd' = [fd EXCEPT ![p] = 0]
    /\ flock' = [i \in Inodes |-> IF i = fd[p] /\ flock[i] = p
                                     /\ [proc |-> p, inode |-> i, got |-> TRUE] \notin orphans
                                  THEN None ELSE flock[i]]
    /\ UNCHANGED <<path, info, stale, orphans>>
(* Leave refresh_chain: the guard, if there is one, is dropped. *)
Leave(p) ==
    /\ Goto(p, "idle") /\ Close(p)
    /\ try' = [try EXCEPT ![p] = FirstTry]
    /\ wire' = [wire EXCEPT ![p] = NoWire] /\ tok' = [tok EXCEPT ![p] = 0]

(***************************************************************************)
(* Starting a refresh                                                      *)
(***************************************************************************)
(* AuthManager::new reads auth.json. *)
Start(p) ==
    /\ pc[p] = "off"
    /\ Goto(p, "idle") /\ mem' = [mem EXCEPT ![p] = disk]
    /\ UNCHANGED <<lockVars, try, due, disk, verdict, expired, idpVars, powerVars, faults>>

(* The credential that a refresh would send, in its widest resolution. *)
AttemptedKey(p) == IF disk # 0 THEN disk ELSE mem[p]
(* permanent_failure(): the verdict still names the credential at hand, or *)
(* there is none at hand.                                                  *)
Barred(p) == verdict[p] # 0 /\ AttemptedKey(p) \in {0, verdict[p]}
(* try_use_disk_token: a sibling has refreshed. *)
Adoptable(p) ==
    /\ disk # 0 /\ ~Expired(disk)
    /\ try[p].reason = "ServerRejected" => disk # mem[p]
AdoptDisk(p) ==
    /\ mem' = [mem EXCEPT ![p] = disk] /\ verdict' = [verdict EXCEPT ![p] = 0]
    /\ UNCHANGED <<disk, expired>>

(* A request with an expired token, or one the server has answered with 401.  *)
(* A sticky verdict answers at once; what it could still adopt there, were    *)
(* auth.json written between its two reads, the next request finds.           *)
Begin(p, r) ==
    /\ pc[p] = "idle" /\ mem[p] # 0 /\ (latest = MaxGen => AttemptedKey(p) # latest)
    /\ r = "PreRequest" => Expired(mem[p])
    /\ ~Barred(p)
    /\ Goto(p, "open") /\ try' = [try EXCEPT ![p].reason = r]
    /\ UNCHANGED <<lockVars, due, credVars, idpVars, powerVars, faults>>

(* force_reload_from_disk, pick_up_sibling_token: other tasks of a process  *)
(* that re-read auth.json at any time.  Without an entry in a readable file *)
(* memory is dropped; a missing file keeps a credential that was not        *)
(* rejected.                                                               *)
Reload(p) ==
    /\ Running(p)
    /\ \/ disk # 0 /\ mem[p] # disk /\ mem' = [mem EXCEPT ![p] = disk] /\ UNCHANGED verdict
       \/ /\ disk = 0 /\ (mem[p] # 0 \/ verdict[p] # 0)
          /\ OtherScopes \/ mem[p] = 0 \/ Barred(p)
          /\ mem' = [mem EXCEPT ![p] = 0] /\ verdict' = [verdict EXCEPT ![p] = 0]
    /\ UNCHANGED <<lockVars, pc, try, due, disk, expired, idpVars, powerVars, faults>>

(***************************************************************************)
(* The lock file: try_acquire_once, blocking_acquire and their three phases *)
(***************************************************************************)
InUse == {path} \cup {fd[p] : p \in Procs} \cup {o.inode : o \in orphans}
NewInode == CHOOSE i \in Inodes : i \notin InUse

(* Open the lock file, which creates it when the path names none. *)
Open(p) ==
    /\ pc[p] = "open"
    /\ IF path # 0
       THEN fd' = [fd EXCEPT ![p] = path] /\ UNCHANGED <<path, info, stale>>
       ELSE /\ fd' = [fd EXCEPT ![p] = NewInode] /\ path' = NewInode
            /\ info' = [info EXCEPT ![NewInode] = None] /\ stale' = stale \ {NewInode}
    /\ Goto(p, IF try[p].phase = 2 THEN "wait" ELSE "flock")
    /\ UNCHANGED <<flock, orphans, try, due, credVars, idpVars, powerVars, faults>>

TakeFlock(p) ==
    flock[fd[p]] = None /\ flock' = [flock EXCEPT ![fd[p]] = p] /\ Goto(p, "write")

(* flock(LOCK_EX | LOCK_NB) *)
TryFlock(p) ==
    /\ pc[p] = "flock"
    /\ \/ TakeFlock(p)
       \/ flock[fd[p]] # None /\ Goto(p, "inspect") /\ UNCHANGED flock
    /\ UNCHANGED <<path, info, stale, fd, orphans, try, due, credVars, idpVars,
                   powerVars, faults>>

(* flock(LOCK_EX) on a thread of its own *)
BlockingFlock(p) ==
    /\ pc[p] = "wait" /\ TakeFlock(p)
    /\ UNCHANGED <<path, info, stale, fd, orphans, try, due, credVars, idpVars,
                   powerVars, faults>>

(* write_holder_info *)
WriteInfo(p) ==
    /\ pc[p] = "write"
    /\ info' = [info EXCEPT ![fd[p]] = p] /\ stale' = stale \ {fd[p]}
    /\ due' = [q \in Procs |-> due[q] \ {p}]
    /\ Goto(p, "verify")
    /\ UNCHANGED <<path, flock, fd, orphans, try, credVars, idpVars, powerVars,
                   faults>>

(* Where an attempt that was Busy, or that found its inode gone, goes on. *)
GiveUp(p) == IF try[p].again THEN "idle" ELSE "late"
Continue(p, label, phase, round) ==
    /\ Goto(p, label)
    /\ cut' = IF label = "open" THEN cut ELSE cut \ {p}
    /\ try' = [try EXCEPT ![p] = IF label = "idle" THEN FirstTry
                                 ELSE [@ EXCEPT !.phase = phase, !.round = round]]
(* Mutant: the last attempt is followed by another. *)
BusyAgain(p) == Continue(p, "open", try[p].phase + 1, 0)
Busy(p) ==
    \/ try[p].phase = 1 /\ Continue(p, "open", 2, 0)
    \/ try[p].phase = 3 /\ Continue(p, "confirm", 3, 0)
    \/ try[p].phase = 4 /\ Continue(p, GiveUp(p), 4, 0)
StaleUnlinked(p) ==
    \/ try[p].phase \in {1, 2} /\ Continue(p, "open", 2, 0)
    \/ try[p].phase \in {3, 4} /\ try[p].round = 0 /\ Continue(p, "open", try[p].phase, 1)
    \/ try[p].phase \in {3, 4} /\ try[p].round # 0 /\ Continue(p, GiveUp(p), try[p].phase, 1)

(* inodes_match: the flock must be on the file the path names. *)
InodesMatch(p) == fd[p] = path
Verify(p) ==
    /\ pc[p] = "verify"
    /\ IF InodesMatch(p)
       THEN /\ Goto(p, "adopt") /\ UNCHANGED lockVars /\ cut' = cut \ {p}
            /\ try' = [try EXCEPT ![p] = [@ EXCEPT !.phase = 1, !.round = 0]]
       ELSE Close(p) /\ StaleUnlinked(p)
    /\ UNCHANGED <<due, credVars, exchVars, harm, powerVars, faults>>

(* holder_state, and whether this attempt may break such a holder. *)
HolderDead(i) == info[i] = Gone \/ (info[i] \in Procs /\ pc[info[i]] = "crashed")
StuckLive(i) == ~HolderDead(i) /\ i \in stale
(* Mutant: a live holder is broken on first sight. *)
BreakAtOnce(p) == HolderDead(fd[p]) \/ StuckLive(fd[p])
Breakable(p) == HolderDead(fd[p]) \/ (StuckLive(fd[p]) /\ try[p].phase = 4)

(* The confirmation delay begins: every holder that runs will beat in it. *)
StartDelay(p) ==
    due' = [due EXCEPT ![p] = IF try[p].phase = 3 THEN {q \in Procs : Holding(q)} ELSE {}]

(* The file was locked.  Whoever has the flock by now may not have written   *)
(* its own holder info yet: then the file still names an earlier holder.     *)
Inspect(p) ==
    /\ pc[p] = "inspect"
    /\ IF Breakable(p)
       THEN Goto(p, "unlink") /\ UNCHANGED <<try, lockVars, due, cut>>
       ELSE Close(p) /\ Busy(p) /\ StartDelay(p)
    /\ UNCHANGED <<credVars, exchVars, harm, powerVars, faults>>

(* The exchange of p has no answer yet, or one that p alone knows. *)
Bereft(p) == wire[p].answer \in {"pending", "tokens"}

(* remove_file on the path, whatever the path names by now. *)
Unlink(p) ==
    /\ pc[p] = "unlink"
    /\ path' = 0 /\ fd' = [fd EXCEPT ![p] = 0]
    /\ harm' = IF \E q \in Procs : Committed(q) /\ fd[q] = path
               THEN harm \cup {"broken"} ELSE harm
    /\ IF path # 0 THEN StaleUnlinked(p) /\ UNCHANGED due
       ELSE Busy(p) /\ StartDelay(p)
    /\ UNCHANGED <<info, stale, flock, orphans, credVars, exchVars, powerVars,
                   faults>>

(* Mutant: the wait has no budget. *)
WaitForever(p) == pc[p] = "wait" /\ UNCHANGED vars
(* The budget of the blocking wait is used up.  Its thread stays in flock(). *)
WaitTimeout(p) ==
    /\ \/ /\ pc[p] = "wait" /\ flock[fd[p]] # None
          /\ Fault("orphan") /\ Cardinality(orphans) < MaxOrphans
          /\ orphans' = orphans \cup {[proc |-> p, inode |-> fd[p], got |-> FALSE]}
       \/ /\ (pc[p] = "wait" /\ flock[fd[p]] # None) \/ (pc[p] = "open" /\ try[p].phase = 2)
          /\ UNCHANGED <<orphans, faults>>
    /\ fd' = [fd EXCEPT ![p] = 0] /\ Continue(p, "open", 3, 0)
    /\ UNCHANGED <<path, info, stale, flock, due, credVars, exchVars, harm, powerVars>>

(* The thread gets the flock in the end, writes the holder info and drops it. *)
OrphanLocks(o) ==
    /\ o \in orphans /\ ~o.got /\ Running(o.proc) /\ flock[o.inode] = None
    /\ flock' = [flock EXCEPT ![o.inode] = o.proc]
    /\ orphans' = (orphans \ {o}) \cup {[o EXCEPT !.got = TRUE]}
    /\ UNCHANGED <<path, info, stale, fd, pc, try, due, credVars, idpVars, powerVars,
                   faults>>
OrphanDrops(o) ==
    /\ o \in orphans /\ o.got /\ Running(o.proc)
    /\ info' = [info EXCEPT ![o.inode] = o.proc] /\ stale' = stale \ {o.inode}
    /\ flock' = [flock EXCEPT ![o.inode] = None] /\ orphans' = orphans \ {o}
    /\ UNCHANGED <<path, fd, pc, try, due, credVars, idpVars, powerVars, faults>>

(* LockHeartbeat: the guard's thread dates the holder info anew.  It beats   *)
(* several times within a confirmation delay, so that delay cannot end       *)
(* before every holder has.                                                *)
Heartbeat(p) ==
    /\ Guarded(p) /\ p \notin stopped
    /\ fd[p] \in stale \/ \E q \in Procs : p \in due[q]
    /\ info' = [info EXCEPT ![fd[p]] = p] /\ stale' = stale \ {fd[p]}
    /\ due' = [q \in Procs |-> due[q] \ {p}]
    /\ UNCHANGED <<path, flock, fd, orphans, pc, try, credVars, idpVars, powerVars,
                   faults>>

Confirmed(p) ==
    /\ pc[p] = "confirm" /\ \A q \in due[p] : ~Holding(q)
    /\ due' = [due EXCEPT ![p] = {}] /\ Continue(p, "open", 4, 0)
    /\ UNCHANGED <<lockVars, credVars, exchVars, harm, powerVars, faults>>

(***************************************************************************)
(* refresh_chain with the lock, or without it                              *)
(***************************************************************************)
(* The lock timed out: a last look at auth.json, never an exchange. *)
LateLook(p) ==
    /\ pc[p] = "late"
    /\ IF Adoptable(p) THEN AdoptDisk(p) ELSE UNCHANGED credVars
    /\ Leave(p)
    /\ UNCHANGED <<due, latest, revoked, reused, history, powerVars, faults>>

(* With the lock: a sibling may have refreshed meanwhile. *)
Adopt(p) ==
    /\ pc[p] = "adopt"
    /\ IF Adoptable(p)
       THEN AdoptDisk(p) /\ Leave(p)
       ELSE /\ Goto(p, IF try[p].again THEN "claim" ELSE "revalidate")
            /\ UNCHANGED <<credVars, lockVars, try, wire, tok>>
    /\ UNCHANGED <<due, latest, revoked, reused, history, powerVars, faults>>

(* Mutant: the lock is not looked at again before the exchange. *)
AssumeLive(p) == TRUE
(* check_refresh_deferral, then revalidate_lock_or_reacquire. *)
StillLive(p) == fd[p] = path
Revalidate(p) ==
    /\ pc[p] = "revalidate"
    /\ \/ p \in gated /\ Leave(p)
       \/ /\ p \notin gated /\ StillLive(p) /\ Goto(p, "claim")
          /\ UNCHANGED <<lockVars, try, wire, tok>>
       \/ /\ p \notin gated /\ ~StillLive(p) /\ Close(p) /\ Goto(p, "open")
          /\ try' = [try EXCEPT ![p].again = TRUE]
          /\ UNCHANGED <<wire, tok>>
    /\ UNCHANGED <<due, credVars, latest, revoked, reused, history, powerVars, faults>>

(* InFlightGuard::new, then the last look at the gate. *)
Claim(p) ==
    /\ pc[p] = "claim" /\ Goto(p, "gate")
    /\ UNCHANGED <<lockVars, try, due, credVars, idpVars, powerVars, faults>>
(* Mutant: no second look. *)
GateIgnored(p) ==
    /\ pc[p] = "gate" /\ Goto(p, "resolve")
    /\ UNCHANGED <<lockVars, try, due, credVars, idpVars, powerVars, faults>>
Gate(p) ==
    /\ pc[p] = "gate"
    /\ \/ p \in gated /\ Leave(p)
       \/ p \notin gated /\ Goto(p, "resolve") /\ UNCHANGED <<lockVars, try, wire, tok>>
    /\ UNCHANGED <<due, credVars, latest, revoked, reused, history, powerVars, faults>>

(* Mutant: memory comes first. *)
FromMemory(p) == IF mem[p] # 0 THEN mem[p] ELSE disk
(* resolve_refresh_credential *)
Credential(p) ==
    IF disk # 0 THEN disk
    ELSE IF Expired(mem[p]) \/ try[p].reason = "ServerRejected" THEN mem[p] ELSE 0
Send(p, g, second) ==
    /\ wire' = [wire EXCEPT ![p] = [rt |-> g, answer |-> "pending", again |-> second,
                                    sends |-> 1]]
    /\ Goto(p, "sent")
(* The refresher returns a credential found on disk as its success. *)
Found(p, g) == tok' = [tok EXCEPT ![p] = g] /\ Goto(p, "persist")

(* OidcRefresher::refresh up to the request. *)
Resolve(p) ==
    /\ pc[p] = "resolve"
    /\ \/ /\ disk # 0 /\ ~Expired(disk) /\ (mem[p] # disk \/ Expired(mem[p])) /\ Found(p, disk)
          /\ UNCHANGED <<lockVars, try, wire>>
       \/ /\ ~(disk # 0 /\ ~Expired(disk) /\ (mem[p] # disk \/ Expired(mem[p])))
          /\ IF Credential(p) # 0
             THEN Send(p, Credential(p), FALSE) /\ UNCHANGED <<lockVars, try, tok>>
             ELSE Leave(p)
    /\ UNCHANGED <<due, credVars, latest, revoked, reused, history, powerVars, faults>>

(* The IdP, as the code describes it: it rotates the current token; a token  *)
(* that was rotated before is rejected, and may revoke the session.          *)
IdpAnswers(p) ==
    /\ wire[p].answer = "pending"
    /\ IF wire[p].rt = latest /\ ~revoked
       THEN /\ latest < MaxGen /\ latest' = latest + 1 /\ tok' = [tok EXCEPT ![p] = latest + 1]
            /\ wire' = [wire EXCEPT ![p].answer = "tokens"] /\ UNCHANGED <<revoked, reused>>
       ELSE /\ revoked' \in {revoked, TRUE} /\ reused' = TRUE
            /\ wire' = [wire EXCEPT ![p].answer = "invalid_grant"]
            /\ UNCHANGED <<latest, tok>>
    /\ UNCHANGED <<lockVars, pc, try, due, credVars, history, powerVars, faults>>

(* oidc_token_exchange returns. *)
Receive(p) ==
    /\ pc[p] = "sent" /\ wire[p].answer \notin {"none", "pending"}
    /\ \/ wire[p].answer = "tokens" /\ Goto(p, "persist") /\ UNCHANGED <<lockVars, try, wire, tok>>
       \/ /\ wire[p].answer = "invalid_grant"
          /\ Goto(p, IF wire[p].again THEN "settle" ELSE "rejected")
          /\ UNCHANGED <<lockVars, try, wire, tok>>
       \/ wire[p].answer = "failed" /\ Leave(p)
    /\ UNCHANGED <<due, credVars, latest, revoked, reused, history, powerVars, faults>>

(* refresh_tokens sends the same token again, up to MaxSends times in all,   *)
(* unless its suspend probe forbids it.                                    *)
MaxSends == 3
Resend(p) ==
    /\ pc[p] = "sent" /\ wire[p].answer = "failed" /\ wire[p].sends < MaxSends
    /\ wire' = [wire EXCEPT ![p].answer = "pending", ![p].sends = @ + 1]
    /\ UNCHANGED <<lockVars, pc, try, due, credVars, tok, latest, revoked, reused, history,
                   powerVars, faults>>

(* retry_with_fresh_disk_token, once. *)
RetryWithDisk(p) ==
    /\ pc[p] = "rejected"
    /\ \/ disk # 0 /\ ~Expired(disk) /\ disk # wire[p].rt /\ Found(p, disk) /\ UNCHANGED wire
       \/ disk \in {0, wire[p].rt} /\ Goto(p, "settle") /\ UNCHANGED <<wire, tok>>
       \/ disk # 0 /\ Expired(disk) /\ disk # wire[p].rt /\ Send(p, disk, TRUE) /\ UNCHANGED tok
    /\ UNCHANGED <<lockVars, try, due, credVars, latest, revoked, reused, history, powerVars, faults>>

(* apply_refresh_outcome, Success: update() writes auth.json, then memory. *)
Persist(p) ==
    /\ pc[p] = "persist"
    /\ \/ disk' = tok[p] /\ UNCHANGED <<harm, faults>>
       \/ Fault("persist") /\ harm' = harm \cup {"unsaved"} /\ UNCHANGED disk
    /\ mem' = [mem EXCEPT ![p] = tok[p]] /\ verdict' = [verdict EXCEPT ![p] = 0]
    /\ Leave(p)
    /\ UNCHANGED <<expired, due, latest, revoked, reused, cut, powerVars>>

(* apply_refresh_outcome, RefreshTokenRejected: adopt, take it for a lost  *)
(* race, or discard the credential that was rejected.                      *)
Superseded(p) == disk \notin {0, wire[p].rt}
Settle(p) ==
    /\ pc[p] = "settle"
    /\ \/ Adoptable(p) /\ AdoptDisk(p) /\ Leave(p)
       \/ ~Adoptable(p) /\ Superseded(p) /\ Leave(p) /\ UNCHANGED credVars
       \/ /\ ~Adoptable(p) /\ ~Superseded(p) /\ disk # 0 /\ Goto(p, "discard")
          /\ verdict' = [verdict EXCEPT ![p] = wire[p].rt]
          /\ UNCHANGED <<disk, mem, expired, lockVars, try, wire, tok>>
       \/ /\ ~Adoptable(p) /\ ~Superseded(p) /\ disk = 0 /\ Leave(p)
          /\ verdict' = [verdict EXCEPT ![p] = wire[p].rt] /\ mem' = [mem EXCEPT ![p] = 0]
          /\ UNCHANGED <<disk, expired>>
    /\ UNCHANGED <<due, latest, revoked, reused, history, powerVars, faults>>

(* Mutant: both sides are cleared whichever was tried. *)
ClearAll(p) == TRUE
(* write_scope_removal, then clear_inner when memory held the tried token. *)
ClearMem(p) == mem[p] = wire[p].rt
Discard(p) ==
    /\ pc[p] = "discard"
    /\ disk' = 0 /\ mem' = [mem EXCEPT ![p] = IF ClearMem(p) THEN 0 ELSE @]
    /\ Leave(p)
    /\ UNCHANGED <<verdict, expired, due, latest, revoked, reused, history, powerVars, faults>>

(***************************************************************************)
(* Time, sleep and faults                                                  *)
(***************************************************************************)
Expire ==
    /\ expired < latest /\ expired' = expired + 1
    /\ UNCHANGED <<lockVars, pc, try, due, disk, mem, verdict, idpVars, powerVars, faults>>

(* The operating system is about to sleep and tells every process that       *)
(* listens, ...                                                            *)
AnnounceSleep ==
    /\ Fault("suspend") /\ \A p \in Procs : acked[p] = "no"
    /\ \E p \in Listeners : Running(p)
    /\ acked' = [p \in Procs |-> IF p \in Listeners /\ Running(p) THEN "told" ELSE "no"]
    /\ UNCHANGED <<lockVars, pc, try, due, credVars, idpVars, stopped, gated>>
(* ... each raises its gate (set_system_sleep_imminent(true)), acknowledges   *)
(* when it has no exchange in flight, ...                                   *)
WillSleep(p) ==
    /\ acked[p] = "told" /\ p \notin gated
    /\ gated' = gated \cup {p}
    /\ acked' = [acked EXCEPT ![p] = IF InFlight(p) THEN "told" ELSE "drained"]
    /\ UNCHANGED <<lockVars, pc, try, due, credVars, idpVars, stopped, faults>>
(* ... and otherwise when the exchange has drained or SLEEP_ACK_MAX_WAIT is   *)
(* over.                                                                   *)
AckSleep(p) ==
    /\ p \in gated /\ acked[p] = "told"
    /\ acked' = [acked EXCEPT ![p] = IF InFlight(p) THEN "overran" ELSE "drained"]
    /\ UNCHANGED <<lockVars, pc, try, due, credVars, idpVars, stopped, gated, faults>>
(* The sleep is called off: DidWake, or SLEEP_GATE_MAX where that event is    *)
(* missed, lowers the gates.                                               *)
CallOff ==
    /\ \A p \in Procs : acked[p] # "told"
    /\ gated # {} /\ gated' = {} /\ acked' = [p \in Procs |-> "no"]
    /\ UNCHANGED <<lockVars, pc, try, due, credVars, idpVars, stopped, faults>>
(* A waiter is about to break a live holder that looks stuck. *)
Confirming(p) == pc[p] = "confirm" \/ try[p].phase = 4
CutShort == cut' = cut \cup {p \in Procs : Confirming(p)}
(* The machine sleeps and wakes up: wall-clock time has passed, so every     *)
(* holder info (or the mtime of a file without one) reads stale; the gates   *)
(* are lowered by DidWake or by their own bound.  Whoever was told has       *)
(* acknowledged; with no listener running the machine just sleeps.           *)
Suspend ==
    /\ IF \E p \in Procs : acked[p] # "no"
       THEN (\A p \in Procs : acked[p] # "told") /\ UNCHANGED faults
       ELSE Fault("suspend") /\ \A p \in Listeners : ~Running(p)
    /\ stale' = InUse \ {0}
    /\ gated' = {} /\ acked' = [p \in Procs |-> "no"]
    /\ CutShort
    /\ UNCHANGED <<path, info, flock, fd, orphans, pc, try, due, credVars, exchVars, harm,
                   stopped>>

Crash(p) ==
    /\ Running(p) /\ Fault("crash") /\ Goto(p, "crashed")
    /\ flock' = [i \in Inodes |-> IF flock[i] = p THEN None ELSE flock[i]]
    /\ fd' = [fd EXCEPT ![p] = 0] /\ orphans' = {o \in orphans : o.proc # p}
    /\ harm' = (IF Bereft(p) THEN harm \cup {"lost"} ELSE harm) /\ cut' = cut \ {p}
    /\ gated' = gated \ {p} /\ acked' = [acked EXCEPT ![p] = "no"]
    /\ try' = [try EXCEPT ![p] = FirstTry]
    /\ UNCHANGED <<path, info, stale, due, credVars, exchVars, stopped>>
(* A process is stopped while it has the lock: its holder info gets old ... *)
Stop(p) ==
    /\ Guarded(p) /\ p \notin stopped /\ Fault("stop")
    /\ stopped' = stopped \cup {p} /\ stale' = stale \cup {fd[p]}
    /\ gated' = gated \ {p} /\ acked' = [acked EXCEPT ![p] = "no"]
    /\ UNCHANGED <<path, info, flock, fd, orphans, pc, try, due, credVars, idpVars>>
(* ... and may go on later, when others have broken the lock meanwhile. *)
Resume(p) ==
    /\ p \in stopped /\ stopped' = stopped \ {p}
    /\ CutShort
    /\ UNCHANGED <<lockVars, pc, try, due, credVars, exchVars, harm, gated, acked, faults>>
(* The request, or the answer, is lost on the network. *)
Lose(p) ==
    /\ pc[p] = "sent" /\ p \notin stopped /\ Fault("lose")
    /\ wire[p].answer \in {"pending", "tokens", "invalid_grant"}
    /\ harm' = IF wire[p].answer = "tokens" THEN harm \cup {"lost"} ELSE harm
    /\ wire' = [wire EXCEPT ![p].answer = "failed"] /\ tok' = [tok EXCEPT ![p] = 0]
    /\ UNCHANGED <<lockVars, pc, try, due, credVars, latest, revoked, reused, cut, powerVars>>

Acquire(p) ==
    \/ Open(p) \/ TryFlock(p) \/ BlockingFlock(p) \/ WriteInfo(p) \/ Verify(p)
    \/ Inspect(p) \/ Unlink(p) \/ WaitTimeout(p) \/ Confirmed(p)
Refresh(p) ==
    \/ LateLook(p) \/ Adopt(p) \/ Revalidate(p) \/ Claim(p) \/ Gate(p) \/ Resolve(p)
    \/ Receive(p) \/ Resend(p) \/ RetryWithDisk(p) \/ Persist(p) \/ Settle(p) \/ Discard(p)

Next ==
    \/ \E p \in Procs :
        \/ Start(p) \/ Reload(p) \/ Heartbeat(p)
        \/ \E r \in {"PreRequest", "ServerRejected"} : Begin(p, r)
        \/ Acquire(p) \/ IdpAnswers(p)
        \/ WillSleep(p) \/ AckSleep(p)
        \/ Crash(p) \/ Stop(p) \/ Resume(p) \/ Lose(p)
    \/ \E p \in Procs \ stopped : Refresh(p)
    \/ \E o \in orphans : OrphanLocks(o) \/ OrphanDrops(o)
    \/ Expire \/ AnnounceSleep \/ CallOff \/ Suspend

Spec == Init /\ [][Next]_vars

(* A process keeps making requests and its refreshes keep going; the kernel *)
(* serves the waiters of a flock in turn; the IdP answers.  Nothing makes a  *)
(* token expire or a fault happen.                                         *)
Fairness ==
    /\ \A p \in Procs :
        WF_vars(Start(p) \/ Begin(p, "PreRequest") \/ Acquire(p) \/ IdpAnswers(p)
                \/ (p \notin stopped /\ Refresh(p)))
    /\ WF_vars(\E o \in orphans : OrphanLocks(o) \/ OrphanDrops(o))
    /\ WF_vars(CallOff \/ \E p \in Procs : WillSleep(p) \/ AckSleep(p))
FairSpec == Spec /\ Fairness

(***************************************************************************)
(* Properties                                                              *)
(***************************************************************************)
Labels == {"off", "idle", "open", "flock", "wait", "write", "verify", "inspect", "unlink",
           "confirm", "late", "adopt", "revalidate", "claim", "gate", "resolve", "sent",
           "rejected", "settle", "discard", "persist", "crashed"}

LockType ==
    /\ path \in Inodes \cup {0} /\ info \in [Inodes -> Procs \cup {None, Gone}]
    /\ stale \subseteq Inodes /\ flock \in [Inodes -> Procs \cup {None}]
    /\ fd \in [Procs -> Inodes \cup {0}]
    /\ orphans \subseteq [proc : Procs, inode : Inodes, got : BOOLEAN]
StepType ==
    /\ pc \in [Procs -> Labels]
    /\ try \in [Procs -> [reason : {"PreRequest", "ServerRejected"},
                         phase : 1..4, round : 0..1, again : BOOLEAN]]
    /\ due \in [Procs -> SUBSET Procs]
CredType ==
    /\ disk \in 0..MaxGen /\ mem \in [Procs -> 0..MaxGen] /\ verdict \in [Procs -> 0..MaxGen]
    /\ expired \in 0..MaxGen
IdpType ==
    /\ wire \in [Procs -> [rt : 0..MaxGen, again : BOOLEAN, sends : 0..MaxSends,
            answer : {"none", "pending", "tokens", "invalid_grant", "failed"}]]
    /\ tok \in [Procs -> 0..MaxGen] /\ latest \in 1..MaxGen
    /\ revoked \in BOOLEAN /\ reused \in BOOLEAN
HistoryType == harm \subseteq {"lost", "unsaved", "broken"} /\ cut \subseteq Procs
PowerType ==
    /\ stopped \subseteq Procs /\ gated \subseteq Procs
    /\ acked \in [Procs -> {"no", "told", "drained", "overran"}]
    /\ faults \in 0..MaxFaults

(* The type of the state: an acquisition has no phase beyond the fourth, the *)
(* files that are in use stay within those the processes can have open.      *)
TypeOK == LockType /\ StepType /\ CredType /\ IdpType /\ HistoryType /\ PowerType

(* Only one running process at a time is exchanging a given refresh token    *)
(* ("only one participant ever spends a given refresh token", refresh_chain). *)
(* The code does not keep this promise; SpendsAlone is what it keeps.        *)
OneSpender ==
    \A p, q \in Procs \ stopped :
        p # q /\ pc[p] = "sent" /\ pc[q] = "sent" => wire[p].rt # wire[q].rt

(* Two processes are exchanging a token at the same time, running or stopped, *)
(* only when a waiter has unlinked the lock of one that was past its last    *)
(* look at it: a lock that is broken before that is found out, by            *)
(* inodes_match or by still_live, before anything is sent.                   *)
SpendsAlone ==
    \A p, q \in Procs :
        p # q /\ pc[p] = "sent" /\ pc[q] = "sent" => "broken" \in harm

(* No waiter takes for dead or stuck a process that runs and has written its *)
(* name into the lock file, however late and however often either looks,    *)
(* unless a sleep or a resumption has cut into the waiter's confirmation     *)
(* delay (STUCK_LIVE_CONFIRM_DELAY outlasts a heartbeat interval).           *)
HeartbeatIsSeen ==
    [][\A p \in Procs : pc[p] = "inspect" /\ pc'[p] = "unlink" =>
           \/ p \in cut /\ try[p].phase = 4
           \/ \A q \in Procs \ stopped : Named(q) => fd[q] # fd[p]]_vars

(* The IdP never sees a refresh token again that it has rotated, which is    *)
(* what revokes a session, unless an answer did not arrive, a write of       *)
(* auth.json failed or the lock of an exchange was broken.                   *)
ReuseOnlyAfterHarm == reused => harm # {}

Accepted(g) == g # 0 /\ g = latest /\ ~revoked
(* As long as no lock was broken under an exchange, a credential that the IdP *)
(* accepts is not taken away: not from auth.json at all, and from the memory  *)
(* of a process only when auth.json never got it, and then by what is there   *)
(* instead (apply_refresh_outcome clears "only the side that was actually     *)
(* tried"; force_reload_from_disk drops memory only for a readable file       *)
(* without an entry).                                                      *)
AcceptedKept ==
    [][/\ Accepted(disk) /\ disk' # disk => "broken" \in harm
       /\ \A p \in Procs : Accepted(mem[p]) /\ mem'[p] # mem[p] =>
              \/ "broken" \in harm
              \/ "unsaved" \in harm /\ mem'[p] = disk /\ (disk = 0 => OtherScopes)]_vars

(* The machine never sleeps during an exchange of a process that has         *)
(* acknowledged the sleep as drained.                                      *)
NoStraddle ==
    [][Suspend => \A p \in Procs : pc[p] = "sent" => acked[p] # "drained"]_vars

(* Will ask for a refresh, or is at one: an idle process does so once the     *)
(* credential in its memory has expired, unless the IdP has rejected it.      *)
Asks(p) ==
    /\ pc[p] # "crashed" /\ p \notin stopped
    /\ pc[p] = "idle" => mem[p] # 0 /\ Expired(mem[p]) /\ ~Barred(p)
(* Whatever the last holder of the lock does, crash or hang with it, an       *)
(* expired credential is replaced in auth.json in the end as long as          *)
(* somebody asks for it.  It may be discarded instead only when an answer or  *)
(* a write was lost or the lock of an exchange was broken.                   *)
Recovers ==
    \A g \in 1..(MaxGen - 1) :
        disk = g /\ Expired(g) ~> \/ disk > g
                                  \/ disk = 0 /\ harm # {}
                                  \/ ~\E p \in Procs : Asks(p)

=============================================================================
