----------------------- MODULE CredentialRefreshProofs -----------------------
(***************************************************************************)
(* Who may exchange the refresh token, for any number of processes, faults,  *)
(* abandoned threads and credentials.                                      *)
(***************************************************************************)
EXTENDS CredentialRefresh, FiniteSetTheorems, TLAPS

-----------------------------------------------------------------------------
(***************************************************************************)
(* The inductive invariant.                                                *)
(***************************************************************************)
(* Has the flock of the file it has open. *)
Held(p) == Guarded(p) \/ pc[p] \in {"write", "verify"}

(* A process that works on the lock file has one open; only the blocking     *)
(* wait goes without a look at the holder; abandoned threads are bounded.     *)
FileInv ==
    /\ \A p \in Procs : (Held(p) \/ pc[p] \in {"flock", "wait", "inspect", "unlink"}) => fd[p] # 0
    /\ \A p \in Procs : pc[p] \in {"flock", "inspect", "unlink"} => try[p].phase # 2
    /\ IsFiniteSet(orphans) /\ Cardinality(orphans) <= MaxOrphans
    /\ \A p \in stopped : Guarded(p)

(* What the kernel and the file say of a holder. *)
FlockInv ==
    /\ \A p \in Procs : Held(p) => flock[fd[p]] = p
    /\ \A o \in orphans : o.got => flock[o.inode] = o.proc
    /\ \A o \in orphans, p \in Procs : o.got /\ Held(p) => fd[p] # o.inode
    /\ \A p \in Procs : Named(p) => info[fd[p]] = p

(* No running holder looks stuck to a waiter that has confirmed without a     *)
(* cut, and those that do to one who is confirming will beat before its       *)
(* delay ends.                                                             *)
Assured(q) == try[q].phase = 4 /\ pc[q] # "late" /\ q \notin cut
BeatInv ==
    /\ \A q \in Procs : Assured(q) =>
           \A p \in Procs \ stopped : Named(p) => fd[p] \notin stale
    /\ \A q \in Procs : pc[q] = "confirm" /\ q \notin cut =>
           \A p \in Procs \ stopped : Named(p) /\ fd[p] \in stale => p \in due[q]

(* As long as no lock was broken under an exchange, whoever has looked at the *)
(* path for the last time has the file that the path names.                  *)
LiveInv == "broken" \notin harm => \A p \in Procs : Committed(p) => fd[p] = path

LockInv == FileInv /\ FlockInv /\ BeatInv /\ LiveInv

(* No credential is ahead of the IdP. *)
Dead(g) == g < latest \/ revoked
GenInv ==
    /\ disk <= latest /\ expired <= latest
    /\ \A p \in Procs : mem[p] <= latest /\ tok[p] <= latest /\ wire[p].rt <= latest

(* Where an exchange is by the answer it has, and what an answer means. *)
WireOf(p) ==
    /\ wire[p].answer = "pending" => pc[p] \in {"sent", "crashed"}
    /\ wire[p].answer = "tokens" => pc[p] \in {"sent", "persist", "crashed"} /\ tok[p] # 0
    /\ pc[p] \in {"rejected", "settle", "discard"} => wire[p].answer = "invalid_grant"
    /\ wire[p].answer = "invalid_grant" => Dead(wire[p].rt) /\ reused
    /\ verdict[p] # 0 => Dead(verdict[p])
    /\ pc[p] = "persist" => tok[p] # 0
    /\ pc[p] = "off" => mem[p] = 0
WireInv == \A p \in Procs : WireOf(p)

(* As long as nothing went wrong, the credential the IdP accepts is on disk   *)
(* or in the hands of whoever exchanges, and nobody sends any other.          *)
ChainOf(p) ==
    /\ Bereft(p) => pc[p] # "crashed"
    /\ wire[p].answer = "pending" => wire[p].rt = latest
    /\ pc[p] = "sent" /\ wire[p].answer = "failed" => wire[p].rt = latest
    /\ wire[p].answer = "tokens" => tok[p] = latest
ChainInv ==
    harm = {} =>
    /\ ~reused /\ ~revoked /\ disk # 0
    /\ disk = latest \/ \E p \in Procs : wire[p].answer = "tokens"
    /\ \A p \in Procs : ChainOf(p)

(* As long as no lock was broken under an exchange: a successor in the hands  *)
(* of a process is the latest and no request under way can change that, what  *)
(* is about to be persisted otherwise is on disk already, and what is about   *)
(* to be discarded is what was sent.                                       *)
HandOf(p) ==
    /\ wire[p].answer = "tokens" /\ pc[p] # "crashed" =>
           tok[p] = latest /\ \A q \in Procs : wire[q].answer = "pending" => wire[q].rt < latest
    /\ pc[p] = "persist" /\ wire[p].answer # "tokens" => tok[p] = disk
    /\ pc[p] = "discard" => disk = wire[p].rt
    /\ pc[p] \in {"sent", "rejected", "settle"} /\ disk = 0 => mem[p] \in {0, wire[p].rt}
HandInv == "broken" \notin harm => \A p \in Procs : HandOf(p)

(* When every write has succeeded too, what a process has in memory that the  *)
(* IdP accepts is on disk.                                                 *)
MemInv ==
    harm \cap {"broken", "unsaved"} = {} => \A p \in Procs : Accepted(mem[p]) => disk = mem[p]

IndInv == TypeOK /\ LockInv /\ GenInv /\ WireInv /\ ChainInv /\ HandInv /\ MemInv

(* A process whose exchange would not be drained has told the system so.     *)
GateInv ==
    \A p \in Procs : acked[p] = "drained" =>
        p \in gated /\ pc[p] \notin {"resolve", "sent", "rejected"}

-----------------------------------------------------------------------------
(***************************************************************************)
(* Types.                                                                  *)
(***************************************************************************)
TryType == [reason : {"PreRequest", "ServerRejected"}, phase : 1..4, round : 0..1,
            again : BOOLEAN]
WireType == [rt : 0..MaxGen, again : BOOLEAN, sends : 0..MaxSends,
             answer : {"none", "pending", "tokens", "invalid_grant", "failed"}]

(* The assumptions on the constants, in the form the proofs use. *)
LEMMA Constants ==
    /\ IsFiniteSet(Procs) /\ Cardinality(Procs) \in Nat
    /\ None \notin Procs /\ Gone \notin Procs /\ Gone # None
    /\ MaxGen \in Nat /\ MaxGen > 0 /\ MaxFaults \in Nat /\ MaxOrphans \in Nat
    /\ 0 \notin Inodes /\ FirstTry \in TryType /\ NoWire \in WireType
<1>1. Cardinality(Procs) \in Nat
  BY RefreshAssumption, FS_CardinalityType
<1>2. /\ None \notin Procs /\ Gone \notin Procs /\ Gone # None
      /\ MaxGen \in Nat \ {0} /\ MaxFaults \in Nat /\ MaxOrphans \in Nat
  BY RefreshAssumption
<1>3. 0 \notin Inodes
  BY DEF Inodes
<1>4. MaxGen \in Nat /\ MaxGen > 0 /\ 0 \in 0..MaxGen
  BY <1>2
<1>5. FirstTry \in TryType
  BY DEF FirstTry, TryType
<1>6. NoWire \in WireType
  BY <1>4 DEF NoWire, WireType, MaxSends
<1>. QED
  BY <1>1, <1>2, <1>3, <1>4, <1>5, <1>6, RefreshAssumption

(* The types but for the history, which a lemma of its own covers. *)
Core == LockType /\ StepType /\ CredType /\ IdpType /\ PowerType

(* Parts of the state that a step does not touch keep their types. *)
LEMMA Frames ==
    /\ LockType /\ UNCHANGED lockVars => LockType'
    /\ StepType /\ UNCHANGED <<pc, try, due>> => StepType'
    /\ CredType /\ UNCHANGED credVars => CredType'
    /\ IdpType /\ UNCHANGED idpVars => IdpType'
    /\ IdpType /\ UNCHANGED exchVars => IdpType'
    /\ PowerType /\ UNCHANGED <<powerVars, faults>> => PowerType'
<1>1. LockType /\ UNCHANGED lockVars => LockType'
  BY DEF LockType, lockVars
<1>2. StepType /\ UNCHANGED <<pc, try, due>> => StepType'
  BY DEF StepType
<1>3. CredType /\ UNCHANGED credVars => CredType'
  BY DEF CredType, credVars
<1>4. IdpType /\ UNCHANGED idpVars => IdpType'
  BY DEF IdpType, idpVars, exchVars
<1>6. IdpType /\ UNCHANGED exchVars => IdpType'
  BY DEF IdpType, exchVars
<1>5. PowerType /\ UNCHANGED <<powerVars, faults>> => PowerType'
  BY DEF PowerType, powerVars
<1>. QED
  BY <1>1, <1>2, <1>3, <1>4, <1>5, <1>6

(* There is a fresh inode whenever the path names none. *)
LEMMA FreshInode ==
    ASSUME LockType, IsFiniteSet(orphans), Cardinality(orphans) <= MaxOrphans, path = 0
    PROVE  NewInode \in Inodes /\ NewInode \notin InUse
<1>. DEFINE R == {fd[p] : p \in Procs}
            I == {o.inode : o \in orphans}
            inodeOf == [o \in orphans |-> o.inode]
            N == Cardinality(Procs)
<1>1. N \in Nat /\ MaxOrphans \in Nat /\ IsFiniteSet(Procs)
  BY Constants
<1>2. IsFiniteSet(R) /\ Cardinality(R) <= N
  <2>1. fd \in Surjection(Procs, R)
    BY DEF LockType, Surjection
  <2>. HIDE DEF R
  <2>. QED
    BY <1>1, <2>1, FS_Surjection
<1>3. IsFiniteSet(I) /\ Cardinality(I) <= Cardinality(orphans)
  <2>1. inodeOf \in Surjection(orphans, I)
    BY DEF Surjection
  <2>. HIDE DEF I, inodeOf
  <2>. QED
    BY <2>1, FS_Surjection
<1>4. Cardinality(orphans) \in Nat
  BY FS_CardinalityType
<1>5. Inodes = 1..(N + MaxOrphans + 1)
  BY DEF Inodes
<1>6. IsFiniteSet(Inodes) /\ Cardinality(Inodes) = N + MaxOrphans + 1
  <2>1. N + MaxOrphans + 1 \in Int /\ 1 \in Int
    BY <1>1
  <2>. HIDE DEF N
  <2>. QED
    BY <1>1, <1>5, <2>1, FS_Interval
<1>. HIDE DEF R, I, N
<1>7. /\ IsFiniteSet(R \cup I)
      /\ Cardinality(R \cup I) = Cardinality(R) + Cardinality(I) - Cardinality(R \cap I)
  BY <1>2, <1>3, FS_Union
<1>8. Cardinality(R) \in Nat /\ Cardinality(I) \in Nat /\ Cardinality(R \cap I) \in Nat
  <2>1. IsFiniteSet(R \cap I)
    BY <1>2, FS_Intersection
  <2>. QED
    BY <1>2, <1>3, <2>1, FS_CardinalityType
<1>9. Cardinality(R \cup I) < Cardinality(Inodes)
  BY <1>1, <1>2, <1>3, <1>4, <1>6, <1>7, <1>8
<1>10. ~(Inodes \subseteq R \cup I)
  <2>. SUFFICES ASSUME Inodes \subseteq R \cup I PROVE FALSE
    OBVIOUS
  <2>1. Cardinality(Inodes) <= Cardinality(R \cup I)
    BY <1>7, FS_Subset
  <2>2. Cardinality(R \cup I) \in Nat /\ Cardinality(Inodes) \in Nat
    BY <1>6, <1>7, FS_CardinalityType
  <2>. QED
    BY <1>9, <2>1, <2>2
<1>11. InUse = {0} \cup R \cup I
  BY DEF InUse, R, I
<1>12. \E i \in Inodes : i \notin InUse
  BY <1>10, <1>11, Constants
<1>. QED
  BY <1>12 DEF NewInode

(* A process that leaves or goes on keeps the types of its locals. *)
LEMMA GotoType ==
    ASSUME StepType, NEW p \in Procs, NEW label \in Labels, Goto(p, label)
    PROVE  pc' \in [Procs -> Labels]
  BY DEF StepType, Goto

(* Closing a file keeps the type of the lock. *)
LEMMA CloseType ==
    ASSUME LockType, NEW p \in Procs, Close(p)
    PROVE  LockType'
  BY Constants DEF LockType, Close

(* So does leaving the refresh, with what the process had of it. *)
LEMMA LeaveType ==
    ASSUME LockType, StepType, IdpType, NEW p \in Procs, Leave(p)
    PROVE  /\ LockType' /\ pc' \in [Procs -> Labels] /\ try' \in [Procs -> TryType]
           /\ wire' \in [Procs -> WireType] /\ tok' \in [Procs -> 0..MaxGen]
<1>1. LockType'
  BY CloseType DEF Leave
<1>2. pc' \in [Procs -> Labels]
  BY GotoType DEF Leave, Labels
<1>3. try' \in [Procs -> TryType]
  BY Constants DEF Leave, StepType, TryType
<1>4. wire' \in [Procs -> WireType]
  BY Constants DEF Leave, IdpType, WireType
<1>5. tok' \in [Procs -> 0..MaxGen]
  BY Constants DEF Leave, IdpType
<1>. QED
  BY <1>1, <1>2, <1>3, <1>4, <1>5

(* An attempt with another phase and round. *)
LEMMA AttemptType ==
    ASSUME NEW r \in TryType, NEW phase \in 1..4, NEW round \in 0..1
    PROVE  [r EXCEPT !.phase = phase, !.round = round] \in TryType
  BY DEF TryType

(* The phase and the round of an acquisition stay within their ranges. *)
LEMMA ContinueType ==
    ASSUME StepType, NEW p \in Procs, NEW label \in Labels, NEW phase \in 1..4,
           NEW round \in 0..1, Continue(p, label, phase, round)
    PROVE  pc' \in [Procs -> Labels] /\ try' \in [Procs -> TryType]
<1>1. pc' \in [Procs -> Labels]
  BY GotoType DEF Continue
<1>2. try[p] \in TryType
  BY DEF StepType, TryType
<1>3. [try[p] EXCEPT !.phase = phase, !.round = round] \in TryType
  BY <1>2, AttemptType
<1>4. try' \in [Procs -> TryType]
  BY <1>3, Constants DEF Continue, StepType, TryType
<1>. QED
  BY <1>1, <1>4

(* Where an attempt goes on that was busy, or whose file had gone. *)
LEMMA RetryType ==
    ASSUME StepType, NEW p \in Procs,
           StaleUnlinked(p) \/ (Busy(p) /\ try[p].phase # 2)
    PROVE  pc' \in [Procs -> Labels] /\ try' \in [Procs -> TryType]
<1>1. GiveUp(p) \in Labels /\ "open" \in Labels /\ "confirm" \in Labels
  BY DEF GiveUp, Labels
<1>2. try[p].phase \in 1..4 /\ 0 \in 0..1 /\ 1 \in 0..1
  BY DEF StepType
<1>3. \E label \in Labels, phase \in 1..4, round \in 0..1 : Continue(p, label, phase, round)
  <2>1. CASE StaleUnlinked(p)
    <3>1. \/ Continue(p, "open", 2, 0)
          \/ Continue(p, "open", try[p].phase, 1)
          \/ Continue(p, GiveUp(p), try[p].phase, 1)
      BY <1>2, <2>1 DEF StaleUnlinked
    <3>. QED
      BY <1>1, <1>2, <3>1
  <2>2. CASE Busy(p) /\ try[p].phase # 2
    <3>1. \/ Continue(p, "open", 2, 0) \/ Continue(p, "confirm", 3, 0)
          \/ Continue(p, GiveUp(p), 4, 0)
      BY <1>2, <2>2 DEF Busy
    <3>. QED
      BY <1>1, <3>1
  <2>. QED
    BY <2>1, <2>2
<1>. QED
  BY <1>3, ContinueType

Types == TypeOK /\ FileInv

(* The steps of an acquisition keep the types. *)
LEMMA AcquireTypes ==
    ASSUME Types, NEW p \in Procs, Acquire(p)
    PROVE  Core'
<1>. USE Frames
<1>0. LockType /\ StepType /\ CredType /\ IdpType /\ PowerType
  BY DEF Types, TypeOK
<1>1. CASE Open(p)
  <2>1. LockType'
    <3>1. CASE path # 0
      BY <1>0, <1>1, <3>1 DEF Open, LockType
    <3>2. CASE path = 0
      <4>1. NewInode \in Inodes
        BY <1>0, <3>2, FreshInode DEF Types, FileInv
      <4>. QED
        BY <1>0, <1>1, <3>2, <4>1 DEF Open, LockType
    <3>. QED
      BY <3>1, <3>2
  <2>2. StepType'
    BY <1>0, <1>1 DEF Open, StepType, Goto, Labels
  <2>. QED
    BY <1>0, <1>1, <2>1, <2>2 DEF Open, Core
<1>2. CASE TryFlock(p) \/ BlockingFlock(p)
  <2>1. LockType'
    BY <1>0, <1>2 DEF TryFlock, BlockingFlock, TakeFlock, LockType
  <2>2. pc' \in [Procs -> Labels]
    BY <1>0, <1>2, GotoType DEF TryFlock, BlockingFlock, TakeFlock, Labels
  <2>. QED
    BY <1>0, <1>2, <2>1, <2>2 DEF TryFlock, BlockingFlock, Core, StepType
<1>3. CASE WriteInfo(p)
  <2>1. LockType'
    BY <1>0, <1>3 DEF WriteInfo, LockType
  <2>2. due' \in [Procs -> SUBSET Procs]
    BY <1>0, <1>3 DEF WriteInfo, StepType
  <2>3. pc' \in [Procs -> Labels]
    BY <1>0, <1>3, GotoType DEF WriteInfo, Labels
  <2>. QED
    BY <1>0, <1>3, <2>1, <2>2, <2>3 DEF WriteInfo, Core, StepType
<1>4. CASE Verify(p)
  <2>1. LockType'
    BY <1>0, <1>4, CloseType DEF Verify
  <2>2. pc' \in [Procs -> Labels] /\ try' \in [Procs -> TryType]
    <3>1. CASE InodesMatch(p)
      <4>1. pc' \in [Procs -> Labels]
        BY <1>0, <1>4, <3>1, GotoType DEF Verify, Labels
      <4>2. try[p] \in TryType
        BY <1>0 DEF StepType, TryType
      <4>3. [try[p] EXCEPT !.phase = 1, !.round = 0] \in TryType
        <5>1. 1 \in 1..4 /\ 0 \in 0..1
          OBVIOUS
        <5>. QED
          BY <4>2, <5>1, AttemptType
      <4>4. try' \in [Procs -> TryType]
        BY <1>0, <1>4, <3>1, <4>3 DEF Verify, StepType, TryType
      <4>. QED
        BY <4>1, <4>4
    <3>2. CASE ~InodesMatch(p)
      BY <1>0, <1>4, <3>2, RetryType DEF Verify
    <3>. QED
      BY <3>1, <3>2
  <2>. QED
    BY <1>0, <1>4, <2>1, <2>2 DEF Verify, Core, StepType, TryType
<1>5. CASE Inspect(p)
  <2>1. CASE Breakable(p)
    BY <1>0, <1>5, <2>1, GotoType DEF Inspect, Core, StepType, Labels
  <2>2. CASE ~Breakable(p)
    <3>1. try[p].phase # 2
      BY <1>5 DEF Inspect, Types, FileInv
    <3>2. pc' \in [Procs -> Labels] /\ try' \in [Procs -> TryType]
      BY <1>0, <1>5, <2>2, <3>1, RetryType DEF Inspect
    <3>3. LockType'
      BY <1>0, <1>5, <2>2, CloseType DEF Inspect
    <3>4. due' \in [Procs -> SUBSET Procs]
      <4>1. (IF try[p].phase = 3 THEN {q \in Procs : Holding(q)} ELSE {}) \in SUBSET Procs
        OBVIOUS
      <4>. QED
        BY <1>0, <1>5, <2>2, <4>1 DEF Inspect, StartDelay, StepType
    <3>. QED
      BY <1>0, <1>5, <3>2, <3>3, <3>4 DEF Inspect, Core, StepType, TryType
  <2>. QED
    BY <2>1, <2>2
<1>6. CASE Unlink(p)
  <2>1. try[p].phase # 2
    BY <1>6 DEF Unlink, Types, FileInv
  <2>2. pc' \in [Procs -> Labels] /\ try' \in [Procs -> TryType]
    BY <1>0, <1>6, <2>1, RetryType DEF Unlink
  <2>3. due' \in [Procs -> SUBSET Procs]
    BY <1>0, <1>6 DEF Unlink, StartDelay, StepType
  <2>4. LockType'
    BY <1>0, <1>6 DEF Unlink, LockType
  <2>. QED
    BY <1>0, <1>6, <2>2, <2>3, <2>4 DEF Unlink, Core, StepType, TryType
<1>7. CASE WaitTimeout(p)
  <2>1. pc' \in [Procs -> Labels] /\ try' \in [Procs -> TryType]
    BY <1>0, <1>7, ContinueType DEF WaitTimeout, Labels
  <2>2. pc[p] = "wait" => fd[p] \in Inodes
    BY <1>0 DEF Types, FileInv, LockType
  <2>3. orphans' \subseteq [proc : Procs, inode : Inodes, got : BOOLEAN]
    <3>1. pc[p] = "wait" => [proc |-> p, inode |-> fd[p], got |-> FALSE]
                              \in [proc : Procs, inode : Inodes, got : BOOLEAN]
      BY <2>2
    <3>2. orphans \subseteq [proc : Procs, inode : Inodes, got : BOOLEAN]
      BY <1>0 DEF LockType
    <3>3. orphans' = orphans \/ (pc[p] = "wait" /\ orphans' = orphans \cup
                                    {[proc |-> p, inode |-> fd[p], got |-> FALSE]})
      BY <1>7 DEF WaitTimeout
    <3>. QED
      BY <3>1, <3>2, <3>3
  <2>4. LockType'
    BY <1>0, <1>7, <2>3 DEF WaitTimeout, LockType
  <2>5. PowerType'
    BY <1>0, <1>7, Constants DEF WaitTimeout, Fault, PowerType, powerVars
  <2>. QED
    BY <1>0, <1>7, <2>1, <2>4, <2>5 DEF WaitTimeout, Core, StepType, TryType
<1>8. CASE Confirmed(p)
  <2>1. pc' \in [Procs -> Labels] /\ try' \in [Procs -> TryType]
    BY <1>0, <1>8, ContinueType DEF Confirmed, Labels
  <2>. QED
    BY <1>0, <1>8, <2>1 DEF Confirmed, Core, StepType, TryType
<1>. QED
  BY <1>1, <1>2, <1>3, <1>4, <1>5, <1>6, <1>7, <1>8 DEF Acquire

(* So do the steps of a refresh. *)
LEMMA RefreshTypes ==
    ASSUME Types, NEW p \in Procs, Refresh(p)
    PROVE  Core'
<1>. USE Frames
<1>0. LockType /\ StepType /\ CredType /\ IdpType /\ PowerType
  BY DEF Types, TypeOK
<1>. DEFINE Left == /\ LockType' /\ pc' \in [Procs -> Labels] /\ try' \in [Procs -> TryType]
                    /\ wire' \in [Procs -> WireType] /\ tok' \in [Procs -> 0..MaxGen]
            Kept == UNCHANGED <<lockVars, try, wire, tok>> /\ pc' \in [Procs -> Labels]
            Rest == UNCHANGED <<due, latest, revoked, reused, powerVars>>
<1>a. ASSUME Leave(p) PROVE Left
  BY <1>0, <1>a, LeaveType
<1>b. ASSUME Left, Rest, UNCHANGED faults, CredType' PROVE Core'
  BY <1>0, <1>b DEF Core, StepType, IdpType, TryType, WireType
<1>c. ASSUME Kept, Rest, UNCHANGED faults, CredType' PROVE Core'
  BY <1>0, <1>c DEF Core, StepType, IdpType
<1>d. disk \in 0..MaxGen /\ mem[p] \in 0..MaxGen /\ tok[p] \in 0..MaxGen
      /\ wire[p].rt \in 0..MaxGen /\ wire[p].again \in BOOLEAN
  BY <1>0 DEF IdpType, CredType
<1>e. AdoptDisk(p) => CredType'
  BY <1>0, Constants DEF AdoptDisk, CredType
<1>. HIDE DEF Left, Kept
<1>1. CASE LateLook(p)
  BY <1>0, <1>1, <1>a, <1>b, <1>d, <1>e DEF LateLook
<1>2. CASE Adopt(p)
  <2>1. CASE Adoptable(p)
    BY <1>0, <1>2, <2>1, <1>a, <1>b, <1>d, <1>e DEF Adopt
  <2>2. CASE ~Adoptable(p)
    BY <1>0, <1>2, <2>2, <1>c, <1>d, GotoType DEF Adopt, Kept, Labels
  <2>. QED
    BY <2>1, <2>2
<1>3. CASE Revalidate(p)
  <2>1. CASE Leave(p)
    BY <1>0, <1>3, <2>1, <1>a, <1>b, <1>d DEF Revalidate
  <2>2. CASE Goto(p, "claim") /\ UNCHANGED <<lockVars, try, wire, tok>>
    BY <1>0, <1>3, <2>2, <1>c, <1>d, GotoType DEF Revalidate, Kept, Labels
  <2>3. CASE /\ Close(p) /\ Goto(p, "open") /\ try' = [try EXCEPT ![p].again = TRUE]
             /\ UNCHANGED <<wire, tok>>
    <3>1. LockType' /\ pc' \in [Procs -> Labels]
      BY <1>0, <2>3, CloseType, GotoType DEF Labels
    <3>2. try' \in [Procs -> TryType]
      BY <1>0, <2>3 DEF StepType, TryType
    <3>3. wire' \in [Procs -> WireType] /\ tok' \in [Procs -> 0..MaxGen]
      BY <1>0, <2>3 DEF IdpType, WireType
    <3>. QED
      BY <1>0, <1>3, <3>1, <3>2, <3>3, <1>b, <1>d DEF Revalidate, Left
  <2>. QED
    BY <1>3, <2>1, <2>2, <2>3 DEF Revalidate
<1>4. CASE Claim(p)
  BY <1>0, <1>4, <1>c, <1>d, GotoType DEF Claim, Kept, Labels, idpVars, exchVars
<1>5. CASE Gate(p)
  <2>1. CASE Leave(p)
    BY <1>0, <1>5, <2>1, <1>a, <1>b, <1>d DEF Gate
  <2>2. CASE Goto(p, "resolve") /\ UNCHANGED <<lockVars, try, wire, tok>>
    BY <1>0, <1>5, <2>2, <1>c, <1>d, GotoType DEF Gate, Kept, Labels
  <2>. QED
    BY <1>5, <2>1, <2>2 DEF Gate
<1>f. ASSUME NEW g \in 0..MaxGen, NEW second \in BOOLEAN, Send(p, g, second),
             UNCHANGED <<lockVars, try, tok>>
      PROVE  Left
  <2>1. [rt |-> g, answer |-> "pending", again |-> second, sends |-> 1] \in WireType
    BY DEF WireType, MaxSends
  <2>2. wire' \in [Procs -> WireType]
    BY <1>0, <1>f, <2>1 DEF Send, IdpType, WireType
  <2>3. pc' \in [Procs -> Labels]
    BY <1>0, <1>f, GotoType DEF Send, Labels
  <2>. QED
    BY <1>0, <1>f, <2>2, <2>3 DEF Left, StepType, IdpType, TryType
<1>g. ASSUME NEW g \in 0..MaxGen, Found(p, g), UNCHANGED <<lockVars, try, wire>>
      PROVE  Left
  <2>1. tok' \in [Procs -> 0..MaxGen]
    BY <1>0, <1>g DEF Found, IdpType
  <2>2. pc' \in [Procs -> Labels]
    BY <1>0, <1>g, GotoType DEF Found, Labels
  <2>. QED
    BY <1>0, <1>g, <2>1, <2>2 DEF Left, StepType, IdpType, TryType, WireType
<1>6. CASE Resolve(p)
  <2>1. Credential(p) \in 0..MaxGen
    BY <1>d, Constants DEF Credential
  <2>2. \/ Leave(p)
        \/ Send(p, Credential(p), FALSE) /\ UNCHANGED <<lockVars, try, tok>>
        \/ Found(p, disk) /\ UNCHANGED <<lockVars, try, wire>>
    BY <1>6 DEF Resolve
  <2>3. Left
    BY <2>1, <2>2, <1>a, <1>d, <1>f, <1>g
  <2>. QED
    BY <1>0, <1>6, <2>3, <1>b, <1>d DEF Resolve
<1>7. CASE Receive(p)
  <2>1. CASE Leave(p)
    BY <1>0, <1>7, <2>1, <1>a, <1>b, <1>d DEF Receive
  <2>2. CASE /\ \E label \in {"persist", "settle", "rejected"} : Goto(p, label)
             /\ UNCHANGED <<lockVars, try, wire, tok>>
    BY <1>0, <1>7, <2>2, <1>c, <1>d, GotoType DEF Receive, Kept, Labels
  <2>. QED
    BY <1>7, <2>1, <2>2 DEF Receive
<1>8. CASE RetryWithDisk(p)
  <2>1. CASE Goto(p, "settle") /\ UNCHANGED <<wire, tok>>
    BY <1>0, <1>8, <2>1, <1>c, <1>d, GotoType DEF RetryWithDisk, Kept, Labels
  <2>2. CASE \/ Send(p, disk, TRUE) /\ UNCHANGED tok
             \/ Found(p, disk) /\ UNCHANGED wire
    <3>1. Left
      BY <1>8, <2>2, <1>d, <1>f, <1>g DEF RetryWithDisk
    <3>. QED
      BY <1>0, <1>8, <3>1, <1>b, <1>d DEF RetryWithDisk
  <2>. QED
    BY <1>8, <2>1, <2>2 DEF RetryWithDisk
<1>9. CASE Persist(p)
  <2>1. CredType'
    BY <1>0, <1>9, <1>d, Constants DEF Persist, CredType
  <2>2. Left
    BY <1>9, <1>a, <1>d DEF Persist
  <2>3. faults' \in 0..MaxFaults
    BY <1>0, <1>9, Constants DEF Persist, Fault, PowerType
  <2>4. Rest
    BY <1>9 DEF Persist
  <2>. QED
    BY <1>0, <2>1, <2>2, <2>3, <2>4
       DEF Core, StepType, IdpType, TryType, WireType, Left, PowerType, powerVars
<1>10. CASE Settle(p)
  <2>1. CASE Leave(p)
    <3>1. CredType'
      BY <1>0, <1>10, <2>1, <1>d, <1>e, Constants DEF Settle, CredType, credVars, Leave, Goto
    <3>. QED
      BY <1>0, <1>10, <2>1, <3>1, <1>a, <1>b, <1>d DEF Settle
  <2>2. CASE /\ Goto(p, "discard") /\ verdict' = [verdict EXCEPT ![p] = wire[p].rt]
             /\ UNCHANGED <<disk, mem, expired, lockVars, try, wire, tok>>
    <3>1. CredType'
      BY <1>0, <2>2, <1>d DEF CredType
    <3>. QED
      BY <1>0, <1>10, <2>2, <3>1, <1>c, <1>d, GotoType DEF Settle, Kept, Labels
  <2>. QED
    BY <1>10, <2>1, <2>2 DEF Settle
<1>11. CASE Discard(p)
  <2>1. CredType'
    BY <1>0, <1>11, Constants DEF Discard, CredType
  <2>. QED
    BY <1>0, <1>11, <2>1, <1>a, <1>b, <1>d DEF Discard
<1>12. CASE Resend(p)
  <2>1. wire[p].sends + 1 \in 0..MaxSends
    BY <1>0, <1>12 DEF Resend, IdpType, MaxSends
  <2>2. wire' \in [Procs -> WireType]
    BY <1>0, <1>12, <2>1 DEF Resend, IdpType, WireType
  <2>. QED
    BY <1>0, <1>12, <2>2 DEF Resend, Core, IdpType, WireType, StepType
<1>. QED
  BY <1>1, <1>2, <1>3, <1>4, <1>5, <1>6, <1>7, <1>8, <1>9, <1>10, <1>11, <1>12 DEF Refresh

(* And so do the environment and the rest of a process. *)
LEMMA OtherTypes ==
    ASSUME Types, NEW p \in Procs,
           \/ Start(p) \/ Reload(p) \/ Heartbeat(p)
           \/ \E r \in {"PreRequest", "ServerRejected"} : Begin(p, r)
           \/ IdpAnswers(p) \/ WillSleep(p) \/ AckSleep(p)
           \/ Crash(p) \/ Stop(p) \/ Resume(p) \/ Lose(p)
    PROVE  Core'
<1>. USE Frames
<1>0. LockType /\ StepType /\ CredType /\ IdpType /\ PowerType
  BY DEF Types, TypeOK
<1>1. CASE Start(p)
  <2>1. CredType' /\ pc' \in [Procs -> Labels]
    BY <1>0, <1>1, GotoType DEF Start, CredType, Labels
  <2>. QED
    BY <1>0, <1>1, <2>1 DEF Start, Core, StepType
<1>2. CASE Reload(p)
  <2>1. CredType'
    BY <1>0, <1>2, Constants DEF Reload, CredType
  <2>. QED
    BY <1>0, <1>2, <2>1 DEF Reload, Core
<1>3. CASE Heartbeat(p)
  <2>1. LockType' /\ due' \in [Procs -> SUBSET Procs]
    BY <1>0, <1>3 DEF Heartbeat, LockType, StepType
  <2>. QED
    BY <1>0, <1>3, <2>1 DEF Heartbeat, Core, StepType
<1>4. ASSUME NEW r \in {"PreRequest", "ServerRejected"}, Begin(p, r)
      PROVE  Core'
  <2>1. Goto(p, "open") /\ try' = [try EXCEPT ![p].reason = r]
    BY <1>4 DEF Begin
  <2>2. pc' \in [Procs -> Labels]
    BY <1>0, <2>1, GotoType DEF Labels
  <2>3. try' \in [Procs -> TryType]
    BY <1>0, <2>1 DEF StepType, TryType
  <2>. QED
    BY <1>0, <1>4, <2>2, <2>3 DEF Begin, Core, StepType, TryType
<1>5. CASE IdpAnswers(p)
  <2>1. latest' \in 1..MaxGen /\ tok' \in [Procs -> 0..MaxGen]
    <3>1. latest < MaxGen => latest + 1 \in 1..MaxGen /\ latest + 1 \in 0..MaxGen
      BY <1>0, Constants DEF IdpType
    <3>. QED
      BY <1>0, <1>5, <3>1 DEF IdpAnswers, IdpType
  <2>2. wire' \in [Procs -> WireType]
    <3>1. \E a \in {"tokens", "invalid_grant"} : wire' = [wire EXCEPT ![p].answer = a]
      BY <1>5 DEF IdpAnswers
    <3>. QED
      BY <1>0, <3>1 DEF IdpType, WireType
  <2>3. revoked' \in BOOLEAN /\ reused' \in BOOLEAN
    BY <1>0, <1>5 DEF IdpAnswers, IdpType
  <2>. QED
    BY <1>0, <1>5, <2>1, <2>2, <2>3 DEF IdpAnswers, Core, IdpType, WireType
<1>6. CASE WillSleep(p) \/ AckSleep(p)
  <2>1. PowerType'
    BY <1>0, <1>6 DEF WillSleep, AckSleep, PowerType
  <2>. QED
    BY <1>0, <1>6, <2>1 DEF WillSleep, AckSleep, Core
<1>7. CASE Crash(p)
  <2>1. LockType'
    BY <1>0, <1>7, Constants DEF Crash, LockType
  <2>2. pc' \in [Procs -> Labels] /\ try' \in [Procs -> TryType]
    BY <1>0, <1>7, Constants, GotoType DEF Crash, StepType, TryType, Labels
  <2>4. PowerType'
    BY <1>0, <1>7, Constants DEF Crash, Fault, PowerType
  <2>. QED
    BY <1>0, <1>7, <2>1, <2>2, <2>4 DEF Crash, Core, StepType, IdpType, TryType
<1>8. CASE Stop(p)
  <2>1. fd[p] \in Inodes
    BY <1>0, <1>8 DEF Stop, Types, FileInv, Held, LockType
  <2>2. LockType'
    BY <1>0, <1>8, <2>1 DEF Stop, LockType
  <2>3. PowerType'
    BY <1>0, <1>8, Constants DEF Stop, Fault, PowerType
  <2>. QED
    BY <1>0, <1>8, <2>2, <2>3 DEF Stop, Core
<1>9. CASE Resume(p)
  <2>1. PowerType'
    BY <1>0, <1>9 DEF Resume, PowerType
  <2>. QED
    BY <1>0, <1>9, <2>1 DEF Resume, Core
<1>10. CASE Lose(p)
  <2>1. wire' \in [Procs -> WireType] /\ tok' \in [Procs -> 0..MaxGen]
    BY <1>0, <1>10, Constants DEF Lose, IdpType, WireType
  <2>2. PowerType'
    BY <1>0, <1>10, Constants DEF Lose, Fault, PowerType, powerVars
  <2>. QED
    BY <1>0, <1>10, <2>1, <2>2 DEF Lose, Core, IdpType, WireType
<1>. QED
  BY <1>1, <1>2, <1>3, <1>4, <1>5, <1>6, <1>7, <1>8, <1>9, <1>10

(* What a step adds to the history, and takes from it. *)
LEMMA ContinueHistory ==
    ASSUME NEW p \in Procs, NEW label, NEW phase, NEW round, Continue(p, label, phase, round)
    PROVE  cut' \in SUBSET cut
  BY DEF Continue
LEMMA BusyHistory ==
    ASSUME NEW p \in Procs, Busy(p) \/ StaleUnlinked(p)
    PROVE  cut' \in SUBSET cut
  BY ContinueHistory DEF Busy, StaleUnlinked
Kinds == {"lost", "unsaved", "broken"}
LEMMA NextHistory ==
    ASSUME [Next]_vars
    PROVE  /\ cut' \in SUBSET (cut \cup Procs)
           /\ harm' = harm \/ \E kind \in Kinds : harm' = harm \cup {kind}
<1>. DEFINE Goal == /\ cut' \in SUBSET (cut \cup Procs)
                    /\ harm' = harm \/ \E kind \in Kinds : harm' = harm \cup {kind}
<1>a. UNCHANGED history => Goal
  BY DEF history
<1>b. UNCHANGED idpVars => UNCHANGED history
  BY DEF idpVars
<1>c. ASSUME NEW kind \in Kinds, harm' \in {harm, harm \cup {kind}}, cut' \in SUBSET cut
      PROVE  Goal
  BY <1>c
<1>d. harm' = harm /\ cut' \in SUBSET (cut \cup Procs) => Goal
  OBVIOUS
<1>e. CutShort => cut' \in SUBSET (cut \cup Procs)
  BY DEF CutShort
<1>. SUFFICES Goal
  OBVIOUS
<1>. HIDE DEF Goal
<1>1. ASSUME NEW p \in Procs, Acquire(p) PROVE Goal
  <2>1. CASE Open(p) \/ TryFlock(p) \/ BlockingFlock(p) \/ WriteInfo(p)
    BY <2>1, <1>a, <1>b DEF Open, TryFlock, BlockingFlock, WriteInfo
  <2>2. CASE Verify(p) \/ Inspect(p)
    BY <2>2, <1>d, BusyHistory DEF Verify, Inspect
  <2>3. CASE Unlink(p)
    BY <2>3, <1>c, BusyHistory DEF Unlink, Kinds
  <2>4. CASE WaitTimeout(p) \/ Confirmed(p)
    BY <2>4, <1>d, ContinueHistory DEF WaitTimeout, Confirmed
  <2>. QED
    BY <1>1, <2>1, <2>2, <2>3, <2>4 DEF Acquire
<1>2. ASSUME NEW p \in Procs, Refresh(p) PROVE Goal
  <2>1. CASE Persist(p)
    BY <2>1, <1>c, <1>d DEF Persist, Kinds
  <2>2. CASE Claim(p)
    BY <2>2, <1>a, <1>b DEF Claim
  <2>3. CASE ~Persist(p) /\ ~Claim(p)
    BY <1>2, <2>3, <1>a DEF Refresh, LateLook, Adopt, Revalidate, Gate, Resolve, Receive,
         Resend, RetryWithDisk, Settle, Discard
  <2>. QED
    BY <2>1, <2>2, <2>3
<1>3. ASSUME NEW p \in Procs,
             \/ Start(p) \/ Reload(p) \/ Heartbeat(p)
             \/ \E r \in {"PreRequest", "ServerRejected"} : Begin(p, r)
             \/ IdpAnswers(p) \/ WillSleep(p) \/ AckSleep(p) \/ Stop(p)
      PROVE  Goal
  BY <1>3, <1>a, <1>b DEF Start, Reload, Heartbeat, Begin, IdpAnswers, WillSleep, AckSleep, Stop
<1>4. ASSUME NEW p \in Procs, Crash(p) \/ Lose(p) PROVE Goal
  BY <1>4, <1>c DEF Crash, Lose, Kinds
<1>5. ASSUME NEW p \in Procs, Resume(p) PROVE Goal
  BY <1>5, <1>d, <1>e DEF Resume
<1>6. CASE Suspend
  BY <1>6, <1>d, <1>e DEF Suspend
<1>7. ASSUME NEW o \in orphans, OrphanLocks(o) \/ OrphanDrops(o) PROVE Goal
  BY <1>7, <1>a, <1>b DEF OrphanLocks, OrphanDrops
<1>8. CASE Expire \/ AnnounceSleep \/ CallOff
  BY <1>8, <1>a, <1>b DEF Expire, AnnounceSleep, CallOff
<1>9. CASE UNCHANGED vars
  <2>1. UNCHANGED idpVars
    BY <1>9 DEF vars
  <2>. QED
    BY <2>1, <1>a, <1>b
<1>. QED
  <2>1. CASE Next
    BY <2>1, <1>1, <1>2, <1>3, <1>4, <1>5, <1>6, <1>7, <1>8 DEF Next
  <2>. QED
    BY <2>1, <1>9

(* Every step keeps the types. *)
LEMMA NextTypes ==
    ASSUME Types, [Next]_vars
    PROVE  TypeOK'
<1>. USE Frames
<1>h. HistoryType'
  BY NextHistory DEF Types, TypeOK, HistoryType, Kinds
<1>. SUFFICES Core'
  BY <1>h DEF TypeOK, Core
<1>0. LockType /\ StepType /\ CredType /\ IdpType /\ PowerType
  BY DEF Types, TypeOK
<1>1. CASE UNCHANGED vars
  BY <1>0, <1>1 DEF vars, Core
<1>2. ASSUME NEW o \in orphans, OrphanLocks(o) \/ OrphanDrops(o)
      PROVE  Core'
  <2>1. o \in [proc : Procs, inode : Inodes, got : BOOLEAN]
    BY <1>0 DEF LockType
  <2>2. LockType'
    BY <1>0, <1>2, <2>1 DEF OrphanLocks, OrphanDrops, LockType
  <2>. QED
    BY <1>0, <1>2, <2>2 DEF OrphanLocks, OrphanDrops, Core
<1>3. CASE Expire
  <2>1. CredType'
    BY <1>0, <1>3, Constants DEF Expire, CredType, IdpType
  <2>. QED
    BY <1>0, <1>3, <2>1 DEF Expire, Core
<1>4. CASE AnnounceSleep \/ CallOff
  <2>1. PowerType'
    BY <1>0, <1>4, Constants DEF AnnounceSleep, CallOff, Fault, PowerType
  <2>. QED
    BY <1>0, <1>4, <2>1 DEF AnnounceSleep, CallOff, Core
<1>5. CASE Suspend
  <2>1. InUse \ {0} \subseteq Inodes
    BY <1>0 DEF InUse, LockType
  <2>2. LockType' /\ PowerType'
    BY <1>0, <1>5, <2>1, Constants DEF Suspend, Fault, LockType, PowerType
  <2>. QED
    BY <1>0, <1>5, <2>2 DEF Suspend, Core
<1>. QED
  BY <1>1, <1>2, <1>3, <1>4, <1>5, AcquireTypes, RefreshTypes, OtherTypes DEF Next

-----------------------------------------------------------------------------
(***************************************************************************)
(* What the steps of refresh_chain, and those that leave the lock alone, do   *)
(* to the lock: nothing, a step forward with the lock, or a release of it.    *)
(***************************************************************************)
Still == UNCHANGED <<lockVars, pc, try, due, stopped, cut>>
SamePhases == \A q \in Procs : Assured(q)' => Assured(q)
SameCuts(p) == \A q \in Procs \ {p} : q \in cut' <=> q \in cut
Forward(p) ==
    /\ p \notin stopped /\ Named(p)
    /\ \E label \in Labels : Goto(p, label)
    /\ Guarded(p)'
    /\ Committed(p)' => Committed(p) \/ fd[p] = path
    /\ \A q \in Procs \ {p} : try'[q] = try[q]
    /\ SamePhases /\ SameCuts(p) /\ UNCHANGED <<lockVars, due, stopped>>
Releases(p) ==
    /\ p \notin stopped /\ Close(p)
    /\ \E label \in {"idle", "open", "late"} : Goto(p, label)
    /\ \A q \in Procs \ {p} : try'[q] = try[q] /\ due'[q] = due[q]
    /\ SamePhases /\ SameCuts(p) /\ UNCHANGED stopped
Enters(p) ==
    /\ pc[p] \in {"off", "idle"}
    /\ \E label \in {"idle", "open"} : Goto(p, label)
    /\ \A q \in Procs \ {p} : try'[q] = try[q]
    /\ SamePhases /\ SameCuts(p) /\ UNCHANGED <<lockVars, due, stopped>>

(* A waiter that keeps its attempt, or loses it, confirms nothing by that. *)
LEMMA PhasesKept ==
    ASSUME StepType, NEW p \in Procs, NEW label, Goto(p, label), pc[p] # "late", UNCHANGED cut,
           try'[p].phase = try[p].phase \/ try'[p].phase = 1,
           \A q \in Procs \ {p} : try'[q] = try[q]
    PROVE  SamePhases /\ SameCuts(p)
<1>1. \A q \in Procs \ {p} : pc'[q] = pc[q]
  BY DEF Goto, StepType
<1>. SUFFICES ASSUME NEW q \in Procs, Assured(q)' PROVE Assured(q)
  BY DEF SamePhases, SameCuts
<1>2. CASE q = p
  BY <1>2 DEF Assured
<1>3. CASE q # p
  BY <1>1, <1>3 DEF Assured
<1>. QED
  BY <1>2, <1>3

(* Leaving the chain releases the lock. *)
LEMMA LeaveReleases ==
    ASSUME StepType, NEW p \in Procs \ stopped, Leave(p), UNCHANGED <<due, powerVars, cut>>
    PROVE  Releases(p)
<1>1. try' = [try EXCEPT ![p] = FirstTry] /\ FirstTry.phase = 1 /\ Goto(p, "idle")
  BY DEF Leave, FirstTry
<1>2. try'[p].phase = 1 /\ \A q \in Procs \ {p} : try'[q] = try[q]
  BY <1>1 DEF StepType
<1>3. SamePhases
  <2>. SUFFICES ASSUME NEW q \in Procs, Assured(q)' PROVE Assured(q)
    BY DEF SamePhases
  <2>1. q # p
    BY <1>2 DEF Assured
  <2>2. pc'[q] = pc[q]
    BY <1>1, <2>1 DEF Goto, StepType
  <2>. QED
    BY <1>2, <2>1, <2>2 DEF Assured
<1>. QED
  BY <1>1, <1>2, <1>3 DEF Leave, Releases, SameCuts, powerVars

(* A step with the lock that changes neither it nor the attempt. *)
LEMMA StepsForward ==
    ASSUME StepType, NEW p \in Procs \ stopped, Named(p),
           NEW label \in {"revalidate", "claim", "gate", "resolve", "sent", "rejected",
                          "settle", "discard", "persist"},
           Goto(p, label), label # "revalidate" => Committed(p) \/ fd[p] = path,
           UNCHANGED <<lockVars, try, due, powerVars, cut>>
    PROVE  Forward(p)
<1>1. pc'[p] = label /\ Guarded(p)'
  BY DEF StepType, Goto, Guarded
<1>2. Committed(p)' => Committed(p) \/ fd[p] = path
  BY <1>1 DEF Committed
<1>3. SamePhases /\ SameCuts(p) /\ \A q \in Procs \ {p} : try'[q] = try[q]
  BY PhasesKept DEF Named, Guarded
<1>4. label \in Labels
  BY DEF Labels
<1>. QED
  BY <1>1, <1>2, <1>3, <1>4 DEF Forward, powerVars

(* Every step of a refresh goes forward with the lock or releases it. *)
LEMMA RefreshShape ==
    ASSUME StepType, NEW p \in Procs \ stopped, Refresh(p)
    PROVE  Forward(p) \/ Releases(p)
<1>. USE LeaveReleases, StepsForward DEF history
<1>1. CASE LateLook(p)
  BY <1>1 DEF LateLook
<1>2. CASE Adopt(p)
  BY <1>2 DEF Adopt, Named, Guarded, Committed
<1>3. CASE Revalidate(p)
  <2>1. CASE Leave(p)
    BY <1>3, <2>1 DEF Revalidate
  <2>2. CASE StillLive(p) /\ Goto(p, "claim") /\ UNCHANGED <<lockVars, try, wire, tok>>
    BY <1>3, <2>2 DEF Revalidate, Named, Guarded, StillLive
  <2>3. CASE Close(p) /\ Goto(p, "open") /\ try' = [try EXCEPT ![p].again = TRUE]
    <3>0. try'[p].phase = try[p].phase /\ \A q \in Procs \ {p} : try'[q] = try[q]
      BY <2>3 DEF StepType
    <3>1. SamePhases /\ SameCuts(p)
      BY <1>3, <2>3, <3>0, PhasesKept DEF Revalidate
    <3>. QED
      BY <1>3, <2>3, <3>0, <3>1 DEF Revalidate, Releases, powerVars
  <2>. QED
    BY <1>3, <2>1, <2>2, <2>3 DEF Revalidate
<1>4. CASE Claim(p)
  BY <1>4 DEF Claim, idpVars, Named, Guarded, Committed
<1>5. CASE Gate(p)
  BY <1>5 DEF Gate, Named, Guarded, Committed
<1>6. CASE Resolve(p)
  BY <1>6 DEF Resolve, Named, Guarded, Committed, Send, Found
<1>7. CASE Receive(p)
  BY <1>7 DEF Receive, Named, Guarded, Committed
<1>8. CASE RetryWithDisk(p)
  BY <1>8 DEF RetryWithDisk, Named, Guarded, Committed, Send, Found
<1>9. CASE Persist(p)
  BY <1>9 DEF Persist
<1>10. CASE Settle(p)
  BY <1>10 DEF Settle, Named, Guarded, Committed
<1>11. CASE Discard(p)
  BY <1>11 DEF Discard
<1>12. CASE Resend(p)
  <2>1. Goto(p, "sent")
    BY <1>12 DEF Resend, Goto, StepType
  <2>. QED
    BY <1>12, <2>1 DEF Resend, Named, Guarded, Committed
<1>. QED
  BY <1>1, <1>2, <1>3, <1>4, <1>5, <1>6, <1>7, <1>8, <1>9, <1>10, <1>11, <1>12 DEF Refresh

(* The steps that have nothing to do with the lock. *)
LEMMA StillShape ==
    ASSUME \/ \E p \in Procs : \/ Reload(p) \/ IdpAnswers(p) \/ WillSleep(p)
                              \/ AckSleep(p) \/ Lose(p)
           \/ Expire \/ AnnounceSleep \/ CallOff \/ UNCHANGED vars
    PROVE  Still
  BY DEF Reload, IdpAnswers, WillSleep, AckSleep, Lose, Expire, AnnounceSleep, CallOff,
         vars, powerVars, idpVars, history, Still

(* A process that starts, or starts a refresh. *)
LEMMA EnterShape ==
    ASSUME StepType, NEW p \in Procs,
           Start(p) \/ \E r \in {"PreRequest", "ServerRejected"} : Begin(p, r)
    PROVE  Enters(p)
<1>1. CASE Start(p)
  <2>1. Goto(p, "idle") /\ UNCHANGED <<try, cut>>
    BY <1>1 DEF Start, idpVars, history
  <2>2. SamePhases /\ SameCuts(p)
    BY <1>1, <2>1, PhasesKept DEF Start
  <2>. QED
    BY <1>1, <2>1, <2>2 DEF Start, Enters, powerVars
<1>2. ASSUME NEW r \in {"PreRequest", "ServerRejected"}, Begin(p, r)
      PROVE  Enters(p)
  <2>1. Goto(p, "open") /\ UNCHANGED cut
    BY <1>2 DEF Begin, idpVars, history
  <2>2. try'[p].phase = try[p].phase /\ \A q \in Procs \ {p} : try'[q] = try[q]
    BY <1>2 DEF Begin, StepType
  <2>3. SamePhases /\ SameCuts(p)
    BY <1>2, <2>1, <2>2, PhasesKept DEF Begin
  <2>. QED
    BY <1>2, <2>1, <2>2, <2>3 DEF Begin, Enters, powerVars
<1>. QED
  BY <1>1, <1>2

(***************************************************************************)
(* What the steps of an acquisition do to it.                              *)
(***************************************************************************)
Takes(p) ==
    /\ pc[p] \in {"flock", "wait"} /\ TakeFlock(p)
    /\ UNCHANGED <<path, info, stale, fd, orphans, try, due, stopped, cut>>
Misses(p) ==
    /\ pc[p] = "flock" /\ flock[fd[p]] # None /\ Goto(p, "inspect")
    /\ UNCHANGED <<lockVars, try, due, stopped, cut>>
Judges(p) ==
    /\ pc[p] = "inspect" /\ Breakable(p) /\ Goto(p, "unlink")
    /\ UNCHANGED <<lockVars, try, due, stopped, cut>>
(* Those who wait for a confirmation wait for whoever holds a lock now. *)
Confirms(p, label) ==
    /\ Goto(p, label)
    /\ label = "confirm" => due'[p] = {q \in Procs : Holding(q)}
    /\ \A q \in Procs \ {p} : try'[q] = try[q] /\ due'[q] = due[q]
    /\ SamePhases /\ SameCuts(p) /\ UNCHANGED stopped
Waits(p) == pc[p] = "inspect" /\ Close(p) /\ Confirms(p, "confirm")
Unlinks(p) ==
    /\ pc[p] = "unlink" /\ path' = 0 /\ fd' = [fd EXCEPT ![p] = 0]
    /\ harm' = IF \E q \in Procs : Committed(q) /\ fd[q] = path
               THEN harm \cup {"broken"} ELSE harm
    /\ \E label \in {"open", "idle", "late", "confirm"} : Confirms(p, label)
    /\ UNCHANGED <<info, stale, flock, orphans>>

(* An attempt that goes on changes nothing of the others, and has not        *)
(* confirmed anything by it.                                               *)
LEMMA ContinueShape ==
    ASSUME StepType, NEW p \in Procs, NEW label \in Labels, NEW phase \in 1..4,
           NEW round \in 0..1, Continue(p, label, phase, round), pc[p] # "late"
    PROVE  /\ Goto(p, label) /\ \A q \in Procs \ {p} : try'[q] = try[q]
           /\ SameCuts(p)
           /\ (phase = 4 => try[p].phase = 4 /\ label \in {"open", "idle", "late"}) => SamePhases
<1>1. /\ \A q \in Procs \ {p} : try'[q] = try[q]
      /\ try'[p] = IF label = "idle" THEN FirstTry
                   ELSE [try[p] EXCEPT !.phase = phase, !.round = round]
  BY DEF Continue, StepType
<1>2. FirstTry.phase = 1 /\ [try[p] EXCEPT !.phase = phase, !.round = round].phase = phase
  BY DEF FirstTry, StepType
<1>3. /\ pc'[p] = label /\ \A q \in Procs \ {p} : pc'[q] = pc[q]
      /\ label = "open" => cut' = cut
      /\ \A q \in Procs \ {p} : q \in cut' <=> q \in cut
  BY DEF Continue, Goto, StepType
<1>4. ASSUME phase = 4 => try[p].phase = 4 /\ label \in {"open", "idle", "late"}
      PROVE  SamePhases
  <2>. SUFFICES ASSUME NEW q \in Procs, Assured(q)' PROVE Assured(q)
    BY DEF SamePhases
  <2>1. CASE q # p
    BY <1>1, <1>3, <2>1 DEF Assured
  <2>2. CASE q = p
    <3>1. try'[p].phase = 4 /\ label # "late" /\ p \notin cut'
      BY <1>3, <2>2 DEF Assured
    <3>2. label # "idle" /\ phase = 4
      BY <1>1, <1>2, <3>1
    <3>3. label = "open"
      BY <1>4, <3>1, <3>2
    <3>. QED
      BY <1>3, <1>4, <2>2, <3>1, <3>2, <3>3 DEF Assured
  <2>. QED
    BY <2>1, <2>2
<1>. QED
  BY <1>1, <1>3, <1>4 DEF Continue, SameCuts

(* An attempt that found its file gone. *)
LEMMA StaleShape ==
    ASSUME StepType, NEW p \in Procs, StaleUnlinked(p), pc[p] # "late"
    PROVE  /\ \E label \in {"open", "idle", "late"} : Goto(p, label)
           /\ SamePhases /\ SameCuts(p) /\ \A q \in Procs \ {p} : try'[q] = try[q]
<1>1. "open" \in Labels /\ GiveUp(p) \in Labels /\ GiveUp(p) \in {"open", "idle", "late"}
  BY DEF Labels, GiveUp
<1>2. try[p].phase \in 1..4 /\ 2 \in 1..4 /\ 0 \in 0..1 /\ 1 \in 0..1
  BY DEF StepType
<1>3. CASE Continue(p, "open", 2, 0)
  BY <1>1, <1>2, <1>3, ContinueShape
<1>4. CASE Continue(p, "open", try[p].phase, 1)
  BY <1>1, <1>2, <1>4, ContinueShape
<1>5. CASE Continue(p, GiveUp(p), try[p].phase, 1)
  BY <1>1, <1>2, <1>5, ContinueShape
<1>. QED
  BY <1>3, <1>4, <1>5 DEF StaleUnlinked

(* An attempt that was busy: it gives up, waits, or confirms. *)
LEMMA BusyShape ==
    ASSUME StepType, NEW p \in Procs, Busy(p), pc[p] # "late"
    PROVE  /\ \E label \in {"open", "idle", "late", "confirm"} :
                 Goto(p, label) /\ (label = "confirm" <=> try[p].phase = 3)
           /\ SamePhases /\ SameCuts(p) /\ \A q \in Procs \ {p} : try'[q] = try[q]
<1>1. /\ "open" \in Labels /\ "confirm" \in Labels /\ GiveUp(p) \in Labels
      /\ GiveUp(p) \in {"idle", "late"}
  BY DEF Labels, GiveUp
<1>2. 2 \in 1..4 /\ 3 \in 1..4 /\ 4 \in 1..4 /\ 0 \in 0..1
  OBVIOUS
<1>3. CASE try[p].phase = 1 /\ Continue(p, "open", 2, 0)
  BY <1>1, <1>2, <1>3, ContinueShape
<1>4. CASE try[p].phase = 3 /\ Continue(p, "confirm", 3, 0)
  BY <1>1, <1>2, <1>4, ContinueShape
<1>5. CASE try[p].phase = 4 /\ Continue(p, GiveUp(p), 4, 0)
  BY <1>1, <1>2, <1>5, ContinueShape
<1>. QED
  BY <1>3, <1>4, <1>5 DEF Busy

(* Every step of an acquisition by its shape. *)
LEMMA AcquireShape ==
    ASSUME Types, NEW p \in Procs, Acquire(p)
    PROVE  \/ Forward(p) \/ Releases(p) \/ Open(p) \/ Takes(p) \/ Misses(p) \/ WriteInfo(p)
           \/ Judges(p) \/ Waits(p) \/ Unlinks(p) \/ WaitTimeout(p) \/ Confirmed(p)
<1>0. StepType
  BY DEF Types, TypeOK
<1>s. pc[p] \in {"verify", "inspect", "unlink"} => p \notin stopped
  BY DEF Types, FileInv, Guarded
<1>1. CASE TryFlock(p) \/ BlockingFlock(p)
  BY <1>1 DEF TryFlock, BlockingFlock, Takes, Misses, lockVars, powerVars, idpVars, history
<1>2. CASE Verify(p)
  <2>1. CASE InodesMatch(p)
    <3>0. try' = [try EXCEPT ![p] = [try[p] EXCEPT !.phase = 1, !.round = 0]]
      BY <1>2, <2>1 DEF Verify
    <3>1. try'[p].phase = 1 /\ \A q \in Procs \ {p} : try'[q] = try[q]
      BY <1>0, <3>0 DEF StepType
    <3>3. /\ pc'[p] = "adopt" /\ "adopt" \in Labels /\ Goto(p, "adopt")
          /\ \A q \in Procs \ {p} : pc'[q] = pc[q]
      BY <1>0, <1>2, <2>1 DEF Verify, Goto, StepType, Labels
    <3>2. SamePhases /\ SameCuts(p)
      BY <1>2, <2>1, <3>1, <3>3 DEF SamePhases, SameCuts, Assured, Verify
    <3>. QED
      BY <1>2, <1>s, <2>1, <3>1, <3>2, <3>3
         DEF Verify, Forward, Named, Guarded, InodesMatch, powerVars
  <2>2. CASE ~InodesMatch(p)
    BY <1>0, <1>2, <1>s, <2>2, StaleShape DEF Verify, Releases, powerVars
  <2>. QED
    BY <2>1, <2>2
<1>3. CASE Inspect(p)
  <2>1. CASE Breakable(p)
    BY <1>3, <2>1 DEF Inspect, Judges, powerVars
  <2>2. CASE ~Breakable(p)
    <3>1. PICK label \in {"open", "idle", "late", "confirm"} :
             Goto(p, label) /\ (label = "confirm" <=> try[p].phase = 3)
      BY <1>0, <1>3, <2>2, BusyShape DEF Inspect
    <3>2. /\ SamePhases /\ SameCuts(p) /\ Close(p) /\ UNCHANGED stopped
          /\ \A q \in Procs \ {p} : try'[q] = try[q]
      BY <1>0, <1>3, <2>2, BusyShape DEF Inspect, powerVars
    <3>3. /\ \A q \in Procs \ {p} : due'[q] = due[q]
          /\ try[p].phase = 3 => due'[p] = {q \in Procs : Holding(q)}
      BY <1>0, <1>3, <2>2 DEF Inspect, StartDelay, StepType
    <3>4. CASE label = "confirm"
      BY <1>3, <3>1, <3>2, <3>3, <3>4 DEF Inspect, Waits, Confirms
    <3>5. CASE label # "confirm"
      BY <1>3, <1>s, <3>1, <3>2, <3>3, <3>5 DEF Inspect, Releases
    <3>. QED
      BY <3>4, <3>5
  <2>. QED
    BY <2>1, <2>2
<1>4. CASE Unlink(p)
  <2>1. CASE path # 0
    BY <1>0, <1>4, <2>1, StaleShape DEF Unlink, Unlinks, Confirms, powerVars
  <2>2. CASE path = 0
    <3>1. PICK label \in {"open", "idle", "late", "confirm"} :
             Goto(p, label) /\ (label = "confirm" <=> try[p].phase = 3)
      BY <1>0, <1>4, <2>2, BusyShape DEF Unlink
    <3>2. SamePhases /\ SameCuts(p) /\ \A q \in Procs \ {p} : try'[q] = try[q]
      BY <1>0, <1>4, <2>2, BusyShape DEF Unlink
    <3>3. /\ \A q \in Procs \ {p} : due'[q] = due[q]
          /\ try[p].phase = 3 => due'[p] = {q \in Procs : Holding(q)}
      BY <1>0, <1>4, <2>2 DEF Unlink, StartDelay, StepType
    <3>4. Confirms(p, label)
      BY <1>4, <3>1, <3>2, <3>3 DEF Unlink, Confirms, powerVars
    <3>. QED
      BY <1>4, <3>4 DEF Unlink, Unlinks
  <2>. QED
    BY <2>1, <2>2
<1>. QED
  BY <1>1, <1>2, <1>3, <1>4 DEF Acquire

(* Every step of the system by its shape. *)
LEMMA Shapes ==
    ASSUME Types, [Next]_vars
    PROVE  \/ Still \/ Suspend
           \/ \E p \in Procs :
                 \/ Forward(p) \/ Releases(p) \/ Enters(p) \/ Open(p) \/ Takes(p) \/ Misses(p)
                 \/ WriteInfo(p) \/ Judges(p) \/ Waits(p) \/ Unlinks(p) \/ WaitTimeout(p)
                 \/ Confirmed(p) \/ Heartbeat(p) \/ Crash(p) \/ Stop(p) \/ Resume(p)
           \/ \E o \in orphans : OrphanLocks(o) \/ OrphanDrops(o)
<1>0. StepType
  BY DEF Types, TypeOK
<1>1. ASSUME NEW p \in Procs \ stopped, Refresh(p)
      PROVE  Forward(p) \/ Releases(p)
  BY <1>0, <1>1, RefreshShape
<1>. QED
  BY <1>0, <1>1, AcquireShape, StillShape, EnterShape DEF Next

-----------------------------------------------------------------------------
(***************************************************************************)
(* Files and threads.                                                      *)
(***************************************************************************)
(* The threads that are followed stay within their bound. *)
LEMMA OrphansBounded ==
    ASSUME Types, [Next]_vars
    PROVE  IsFiniteSet(orphans') /\ Cardinality(orphans') <= MaxOrphans
<1>0. /\ IsFiniteSet(orphans) /\ Cardinality(orphans) <= MaxOrphans
      /\ MaxOrphans \in Nat /\ Cardinality(orphans) \in Nat
  BY Constants, FS_CardinalityType DEF Types, FileInv
<1>1. CASE orphans' = orphans
  BY <1>0, <1>1
<1>2. ASSUME NEW p \in Procs, WaitTimeout(p), orphans' # orphans
      PROVE  IsFiniteSet(orphans') /\ Cardinality(orphans') <= MaxOrphans
  <2>1. /\ Cardinality(orphans) < MaxOrphans
        /\ \E o : orphans' = orphans \cup {o}
    BY <1>2 DEF WaitTimeout
  <2>2. PICK o : orphans' = orphans \cup {o}
    BY <2>1
  <2>3. /\ IsFiniteSet(orphans \cup {o})
        /\ Cardinality(orphans \cup {o}) \in {Cardinality(orphans), Cardinality(orphans) + 1}
    BY <1>0, FS_AddElement
  <2>. QED
    BY <1>0, <2>1, <2>2, <2>3
<1>3. ASSUME NEW o \in orphans, OrphanLocks(o)
      PROVE  IsFiniteSet(orphans') /\ Cardinality(orphans') <= MaxOrphans
  <2>1. PICK u : orphans' = (orphans \ {o}) \cup {u}
    BY <1>3 DEF OrphanLocks
  <2>2. IsFiniteSet(orphans \ {o}) /\ Cardinality(orphans \ {o}) = Cardinality(orphans) - 1
    BY <1>0, FS_RemoveElement
  <2>3. /\ IsFiniteSet((orphans \ {o}) \cup {u})
        /\ Cardinality((orphans \ {o}) \cup {u}) \in
             {Cardinality(orphans \ {o}), Cardinality(orphans \ {o}) + 1}
    BY <2>2, FS_AddElement
  <2>. QED
    BY <1>0, <2>1, <2>2, <2>3
<1>4. ASSUME orphans' \in SUBSET orphans
      PROVE  IsFiniteSet(orphans') /\ Cardinality(orphans') <= MaxOrphans
  <2>1. IsFiniteSet(orphans') /\ Cardinality(orphans') <= Cardinality(orphans)
    BY <1>0, <1>4, FS_Subset
  <2>2. Cardinality(orphans') \in Nat
    BY <2>1, FS_CardinalityType
  <2>. QED
    BY <1>0, <2>1, <2>2
<1>5. ASSUME NEW p \in Procs, \/ Forward(p) \/ Releases(p) \/ Enters(p) \/ Open(p) \/ Takes(p)
                               \/ Misses(p) \/ WriteInfo(p) \/ Judges(p) \/ Waits(p)
                               \/ Unlinks(p) \/ Confirmed(p) \/ Heartbeat(p) \/ Stop(p)
                               \/ Resume(p)
      PROVE  orphans' = orphans
  BY <1>5 DEF Forward, Releases, Enters, Open, Takes, Misses, WriteInfo, Judges, Waits,
       Unlinks, Confirmed, Heartbeat, Stop, Resume, Close, lockVars
<1>6. ASSUME NEW p \in Procs, Crash(p) PROVE orphans' \in SUBSET orphans
  BY <1>6 DEF Crash
<1>7. ASSUME NEW o \in orphans, OrphanDrops(o) PROVE orphans' \in SUBSET orphans
  BY <1>7 DEF OrphanDrops
<1>8. Still \/ Suspend => orphans' = orphans
  BY DEF Still, Suspend, lockVars
<1>. QED
  BY <1>1, <1>2, <1>3, <1>4, <1>5, <1>6, <1>7, <1>8, Shapes

(* One process takes a step. *)
StepOf(p) ==
    \/ Forward(p) \/ Releases(p) \/ Enters(p) \/ Open(p) \/ Takes(p) \/ Misses(p)
    \/ WriteInfo(p) \/ Judges(p) \/ Waits(p) \/ Unlinks(p) \/ WaitTimeout(p)
    \/ Confirmed(p) \/ Heartbeat(p) \/ Crash(p) \/ Stop(p) \/ Resume(p)

(* Where a process goes, the others stay. *)
LEMMA GotoEffect ==
    ASSUME StepType, NEW p \in Procs, NEW label, Goto(p, label)
    PROVE  pc'[p] = label /\ \A q \in Procs \ {p} : pc'[q] = pc[q]
  BY DEF StepType, Goto

(* An acquisition that gives up its wait, or has confirmed. *)
LEMMA PhaseEffect ==
    ASSUME StepType, NEW p \in Procs, NEW phase \in {3, 4}, Continue(p, "open", phase, 0)
    PROVE  /\ pc'[p] = "open" /\ try'[p].phase = phase
           /\ \A q \in Procs \ {p} : pc'[q] = pc[q] /\ try'[q] = try[q]
  BY GotoEffect DEF Continue, StepType

(* A step of one process leaves the others what they have. *)
LEMMA OthersKeep ==
    ASSUME TypeOK, NEW p \in Procs, StepOf(p)
    PROVE  \A q \in Procs \ {p} :
              /\ pc'[q] = pc[q] /\ fd'[q] = fd[q] /\ try'[q] = try[q]
              /\ q \in stopped' <=> q \in stopped
<1>0. StepType /\ LockType
  BY DEF TypeOK
<1>. SUFFICES ASSUME NEW q \in Procs \ {p}
              PROVE  /\ pc'[q] = pc[q] /\ fd'[q] = fd[q] /\ try'[q] = try[q]
                     /\ q \in stopped' <=> q \in stopped
  OBVIOUS
<1>1. pc'[q] = pc[q]
  <2>1. CASE Forward(p) \/ Releases(p) \/ Enters(p) \/ Waits(p) \/ Unlinks(p)
    BY <1>0, <2>1, GotoEffect DEF Forward, Releases, Enters, Waits, Unlinks, Confirms
  <2>2. CASE Open(p) \/ Takes(p) \/ Misses(p) \/ WriteInfo(p) \/ Judges(p) \/ Crash(p)
    BY <1>0, <2>2, GotoEffect DEF Open, Takes, TakeFlock, Misses, WriteInfo, Judges, Crash
  <2>3. CASE WaitTimeout(p) \/ Confirmed(p)
    BY <1>0, <2>3, PhaseEffect DEF WaitTimeout, Confirmed
  <2>4. CASE Heartbeat(p) \/ Stop(p) \/ Resume(p)
    BY <2>4 DEF Heartbeat, Stop, Resume
  <2>. QED
    BY <2>1, <2>2, <2>3, <2>4 DEF StepOf
<1>2. try'[q] = try[q]
  <2>1. CASE Forward(p) \/ Releases(p) \/ Enters(p) \/ Waits(p) \/ Unlinks(p)
    BY <2>1 DEF Forward, Releases, Enters, Waits, Unlinks, Confirms
  <2>2. CASE Open(p) \/ Takes(p) \/ Misses(p) \/ WriteInfo(p) \/ Judges(p)
    BY <2>2 DEF Open, Takes, Misses, WriteInfo, Judges
  <2>3. CASE WaitTimeout(p) \/ Confirmed(p)
    BY <1>0, <2>3, PhaseEffect DEF WaitTimeout, Confirmed
  <2>4. CASE Heartbeat(p) \/ Stop(p) \/ Resume(p) \/ Crash(p)
    BY <1>0, <2>4 DEF Heartbeat, Stop, Resume, Crash, StepType
  <2>. QED
    BY <2>1, <2>2, <2>3, <2>4 DEF StepOf
<1>3. fd'[q] = fd[q]
  <2>1. CASE Forward(p) \/ Enters(p) \/ Takes(p) \/ Misses(p) \/ WriteInfo(p) \/ Judges(p)
             \/ Confirmed(p) \/ Heartbeat(p) \/ Stop(p) \/ Resume(p)
    BY <2>1 DEF Forward, Enters, Takes, Misses, WriteInfo, Judges, Confirmed, Heartbeat,
         Stop, Resume, lockVars
  <2>2. CASE Releases(p) \/ Open(p) \/ Waits(p) \/ Unlinks(p) \/ WaitTimeout(p) \/ Crash(p)
    BY <1>0, <2>2 DEF Releases, Open, Waits, Unlinks, WaitTimeout, Crash, Close, LockType
  <2>. QED
    BY <2>1, <2>2 DEF StepOf
<1>4. q \in stopped' <=> q \in stopped
  BY DEF StepOf, Forward, Releases, Enters, Open, Takes, Misses, WriteInfo, Judges, Waits,
       Unlinks, Confirms, WaitTimeout, Confirmed, Heartbeat, Crash, Stop, Resume, powerVars
<1>. QED
  BY <1>1, <1>2, <1>3, <1>4

(* What a process that works on the file is doing, before and after. *)
Working(p) == Held(p) \/ pc[p] \in {"flock", "wait", "inspect", "unlink"}

(* A process that takes a step has a file open when it needs one, and        *)
(* nobody works while stopped except on the lock it holds.                   *)
LEMMA FileStep ==
    ASSUME Types, NEW p \in Procs, StepOf(p)
    PROVE  /\ Working(p)' => fd'[p] # 0
           /\ pc'[p] \in {"flock", "inspect", "unlink"} => try'[p].phase # 2
           /\ p \in stopped' => Guarded(p)'
<1>0. StepType /\ LockType /\ FileInv /\ 0 \notin Inodes
  BY Constants DEF Types, TypeOK
<1>1. /\ Working(p) => fd[p] # 0
      /\ pc[p] \in {"flock", "inspect", "unlink"} => try[p].phase # 2
      /\ p \in stopped => Guarded(p)
  BY <1>0 DEF FileInv, Working
<1>. USE DEF Working, Held, Named, Guarded
<1>2. CASE Forward(p)
  BY <1>1, <1>2 DEF Forward, lockVars
<1>3. CASE Releases(p) \/ Enters(p) \/ Waits(p) \/ Unlinks(p)
  <2>1. PICK label \in {"idle", "open", "late", "confirm"} : Goto(p, label)
    BY <1>3 DEF Releases, Enters, Waits, Unlinks, Confirms
  <2>2. pc'[p] \in {"idle", "open", "late", "confirm"}
    BY <1>0, <2>1, GotoEffect
  <2>3. p \notin stopped'
    BY <1>1, <1>3 DEF Releases, Enters, Waits, Unlinks, Confirms
  <2>. QED
    BY <2>2, <2>3
<1>4. CASE Open(p)
  <2>1. pc'[p] = IF try[p].phase = 2 THEN "wait" ELSE "flock"
    BY <1>0, <1>4, GotoEffect DEF Open
  <2>2. try' = try /\ stopped' = stopped /\ pc[p] = "open"
    BY <1>4 DEF Open, powerVars
  <2>3. fd'[p] # 0
    <3>1. CASE path # 0
      BY <1>0, <1>4, <3>1 DEF Open, LockType
    <3>2. CASE path = 0
      <4>1. NewInode \in Inodes
        BY <1>0, <3>2, FreshInode DEF FileInv
      <4>. QED
        BY <1>0, <1>4, <3>2, <4>1 DEF Open, LockType
    <3>. QED
      BY <3>1, <3>2
  <2>. QED
    BY <1>1, <2>1, <2>2, <2>3
<1>5. CASE Takes(p) \/ Misses(p) \/ WriteInfo(p) \/ Judges(p)
  <2>1. pc'[p] \in {"write", "inspect", "verify", "unlink"}
    BY <1>0, <1>5, GotoEffect DEF Takes, TakeFlock, Misses, WriteInfo, Judges
  <2>2. /\ fd' = fd /\ try' = try /\ stopped' = stopped
        /\ pc[p] \in {"flock", "wait", "write", "inspect"}
    BY <1>5 DEF Takes, Misses, WriteInfo, Judges, lockVars, powerVars
  <2>3. pc'[p] \in {"flock", "inspect", "unlink"} => pc[p] \in {"flock", "inspect"}
    <3>1. Takes(p) \/ WriteInfo(p) => pc'[p] \in {"write", "verify"}
      BY <1>0, GotoEffect DEF Takes, TakeFlock, WriteInfo
    <3>. QED
      BY <1>5, <3>1 DEF Misses, Judges
  <2>. QED
    BY <1>1, <2>1, <2>2, <2>3
<1>6. CASE WaitTimeout(p) \/ Confirmed(p)
  <2>1. pc'[p] = "open" /\ stopped' = stopped /\ pc[p] \in {"wait", "open", "confirm"}
    BY <1>0, <1>6, PhaseEffect DEF WaitTimeout, Confirmed, powerVars
  <2>. QED
    BY <1>1, <2>1
<1>7. CASE Crash(p)
  <2>1. pc'[p] = "crashed" /\ p \notin stopped'
    BY <1>0, <1>7, GotoEffect DEF Crash, Running
  <2>. QED
    BY <2>1
<1>8. CASE Heartbeat(p) \/ Stop(p) \/ Resume(p)
  BY <1>1, <1>8 DEF Heartbeat, Stop, Resume, lockVars, powerVars
<1>. QED
  BY <1>2, <1>3, <1>4, <1>5, <1>6, <1>7, <1>8 DEF StepOf

(* Files and threads keep their invariant. *)
LEMMA NextFiles ==
    ASSUME Types, [Next]_vars
    PROVE  FileInv'
<1>0. FileInv /\ TypeOK
  BY DEF Types
<1>1. IsFiniteSet(orphans') /\ Cardinality(orphans') <= MaxOrphans
  BY OrphansBounded
<1>2. ASSUME NEW p \in Procs, StepOf(p)
      PROVE  /\ \A q \in Procs : Working(q)' => fd'[q] # 0
             /\ \A q \in Procs : pc'[q] \in {"flock", "inspect", "unlink"} => try'[q].phase # 2
             /\ \A q \in stopped' : Guarded(q)'
  <2>1. /\ Working(p)' => fd'[p] # 0
        /\ pc'[p] \in {"flock", "inspect", "unlink"} => try'[p].phase # 2
        /\ p \in stopped' => Guarded(p)'
    BY <1>2, FileStep
  <2>2. stopped' \subseteq Procs
    BY NextTypes DEF TypeOK, PowerType
  <2>3. \A q \in Procs \ {p} :
           /\ pc'[q] = pc[q] /\ fd'[q] = fd[q] /\ try'[q] = try[q]
           /\ q \in stopped' <=> q \in stopped
    BY <1>0, <1>2, OthersKeep
  <2>4. ASSUME NEW q \in Procs \ {p}
        PROVE  /\ Working(q)' => fd'[q] # 0
               /\ pc'[q] \in {"flock", "inspect", "unlink"} => try'[q].phase # 2
               /\ q \in stopped' => Guarded(q)'
    <3>1. /\ Working(q) => fd[q] # 0
          /\ pc[q] \in {"flock", "inspect", "unlink"} => try[q].phase # 2
          /\ q \in stopped => Guarded(q)
      BY <1>0 DEF FileInv, Working
    <3>2. (Working(q)' <=> Working(q)) /\ (Guarded(q)' <=> Guarded(q))
      BY <2>3 DEF Working, Held, Guarded
    <3>. QED
      BY <2>3, <3>1, <3>2
  <2>. QED
    BY <2>1, <2>2, <2>4
<1>3. CASE UNCHANGED <<pc, fd, try, stopped>>
  BY <1>0, <1>1, <1>3 DEF FileInv, Held, Guarded
<1>4. CASE Still \/ Suspend \/ \E o \in orphans : OrphanLocks(o) \/ OrphanDrops(o)
  BY <1>3, <1>4 DEF Still, Suspend, OrphanLocks, OrphanDrops, lockVars, powerVars
<1>5. ASSUME NEW p \in Procs, StepOf(p) PROVE FileInv'
  BY <1>1, <1>2, <1>5 DEF FileInv, Working
<1>. QED
  BY <1>4, <1>5, Shapes DEF StepOf

(* The first state is one of these. *)
LEMMA InitTypes == Init => Types
<1>. SUFFICES ASSUME Init PROVE TypeOK /\ FileInv
  BY DEF Types
<1>0. /\ 1 \in Inodes /\ 0 \in 0..MaxGen /\ 1 \in 0..MaxGen /\ 1 \in 1..MaxGen
      /\ 0 \in 0..MaxFaults
  <2>1. Cardinality(Procs) + MaxOrphans + 1 \in Nat /\ 1 <= Cardinality(Procs) + MaxOrphans + 1
    BY Constants
  <2>. QED
    BY <2>1, Constants DEF Inodes
<1>1. LockType
  BY <1>0 DEF Init, LockType
<1>2. StepType
  BY Constants DEF Init, StepType, Labels, TryType
<1>3. CredType /\ PowerType
  BY <1>0 DEF Init, CredType, PowerType
<1>4. IdpType
  BY <1>0, Constants DEF Init, IdpType, WireType
<1>6. HistoryType
  BY DEF Init, HistoryType
<1>5. FileInv
  BY FS_EmptySet, Constants DEF Init, FileInv, Held, Guarded
<1>. QED
  BY <1>1, <1>2, <1>3, <1>4, <1>5, <1>6 DEF TypeOK

(* The types and the bounds hold in every state: no acquisition has a phase   *)
(* beyond the fourth (try_acquire_once is not tried again after the last      *)
(* round), a process that stops has the lock, and there is always a file      *)
(* that nobody has open for the next one to create.                          *)
THEOREM TypeCorrect == Spec => []TypeOK
<1>1. Init => Types
  BY InitTypes
<1>2. Types /\ [Next]_vars => Types'
  BY NextTypes, NextFiles DEF Types
<1>3. Types => TypeOK
  BY DEF Types
<1>. QED
  BY <1>1, <1>2, <1>3, PTL DEF Spec

-----------------------------------------------------------------------------
(***************************************************************************)
(* The sleep gate.                                                         *)
(***************************************************************************)
(* Between the last look at the gate and the return of the refresher. *)
Exchanging(p) == pc[p] \in {"resolve", "sent", "rejected"}

(* Only a process whose gate is down gets to an exchange. *)
LEMMA ExchangeEntry ==
    ASSUME Types, NEW p \in Procs,
           Acquire(p) \/ (p \notin stopped /\ Refresh(p)) \/ Start(p)
           \/ \E r \in {"PreRequest", "ServerRejected"} : Begin(p, r)
    PROVE  \A q \in Procs : Exchanging(q)' => Exchanging(q) \/ q \notin gated
<1>0. StepType
  BY DEF Types, TypeOK
<1>1. ASSUME NEW label, Goto(p, label),
             label \in {"resolve", "sent", "rejected"} => Exchanging(p) \/ p \notin gated
      PROVE  \A q \in Procs : Exchanging(q)' => Exchanging(q) \/ q \notin gated
  BY <1>0, <1>1, GotoEffect DEF Exchanging
<1>2. CASE Acquire(p)
  <2>1. CASE Open(p) \/ TryFlock(p) \/ BlockingFlock(p) \/ WriteInfo(p)
    BY <1>1, <2>1 DEF Open, TryFlock, BlockingFlock, WriteInfo, TakeFlock
  <2>2. CASE Verify(p)
    BY <1>0, <1>1, <2>2, StaleShape DEF Verify
  <2>3. CASE Inspect(p)
    BY <1>0, <1>1, <2>3, BusyShape DEF Inspect
  <2>4. CASE Unlink(p)
    BY <1>0, <1>1, <2>4, BusyShape, StaleShape DEF Unlink
  <2>5. CASE WaitTimeout(p) \/ Confirmed(p)
    BY <1>1, <2>5 DEF WaitTimeout, Confirmed, Continue
  <2>. QED
    BY <1>2, <2>1, <2>2, <2>3, <2>4, <2>5 DEF Acquire
<1>3. CASE Refresh(p)
  <2>1. CASE Leave(p)
    BY <1>1, <2>1 DEF Leave
  <2>2. CASE LateLook(p) \/ Persist(p) \/ Discard(p)
    BY <2>1, <2>2 DEF LateLook, Persist, Discard
  <2>3. CASE Adopt(p) \/ Revalidate(p) \/ Claim(p)
    BY <1>1, <2>1, <2>3 DEF Adopt, Revalidate, Claim
  <2>4. CASE Gate(p) \/ Settle(p)
    BY <1>1, <2>1, <2>4 DEF Gate, Settle
  <2>5. CASE Resolve(p) \/ Receive(p) \/ RetryWithDisk(p)
    BY <1>1, <2>1, <2>5 DEF Resolve, Receive, RetryWithDisk, Send, Found, Exchanging
  <2>6. CASE Resend(p)
    BY <1>1, <2>1, <2>6 DEF Resend, Exchanging
  <2>. QED
    BY <1>3, <2>2, <2>3, <2>4, <2>5, <2>6 DEF Refresh
<1>4. CASE Start(p) \/ \E r \in {"PreRequest", "ServerRejected"} : Begin(p, r)
  BY <1>1, <1>4 DEF Start, Begin
<1>. QED
  BY <1>2, <1>3, <1>4

(* An acquisition or a refresh does not touch the gates. *)
LEMMA GatesAlone ==
    ASSUME NEW p \in Procs,
           Acquire(p) \/ Refresh(p) \/ Start(p) \/ Reload(p) \/ Heartbeat(p) \/ IdpAnswers(p)
           \/ Resume(p) \/ Lose(p) \/ \E r \in {"PreRequest", "ServerRejected"} : Begin(p, r)
    PROVE  UNCHANGED <<gated, acked>>
<1>1. Acquire(p) => UNCHANGED <<gated, acked>>
  BY DEF Acquire, Open, TryFlock, BlockingFlock, WriteInfo, Verify, Inspect, Unlink,
       WaitTimeout, Confirmed, powerVars
<1>2. Refresh(p) => UNCHANGED <<gated, acked>>
  BY DEF Refresh, LateLook, Adopt, Revalidate, Claim, Gate, Resolve, Receive, Resend,
       RetryWithDisk, Persist, Settle, Discard, powerVars
<1>. QED
  BY <1>1, <1>2 DEF Start, Reload, Heartbeat, IdpAnswers, Resume, Lose, Begin, powerVars

(* A process that has told the system that its exchange is over has none. *)
LEMMA NextGates ==
    ASSUME Types, GateInv, [Next]_vars
    PROVE  GateInv'
<1>0. PowerType /\ StepType
  BY DEF Types, TypeOK
<1>1. ASSUME UNCHANGED <<gated, acked>>,
             \A q \in Procs : Exchanging(q)' => Exchanging(q) \/ q \notin gated
      PROVE  GateInv'
  BY <1>1 DEF GateInv, Exchanging
<1>2. ASSUME NEW p \in Procs,
             Acquire(p) \/ (p \notin stopped /\ Refresh(p)) \/ Start(p)
             \/ \E r \in {"PreRequest", "ServerRejected"} : Begin(p, r)
      PROVE  GateInv'
  BY <1>1, <1>2, ExchangeEntry, GatesAlone
<1>3. ASSUME UNCHANGED <<gated, acked, pc>> PROVE GateInv'
  BY <1>3 DEF GateInv
<1>4. ASSUME NEW p \in Procs, Reload(p) \/ Heartbeat(p) \/ IdpAnswers(p) \/ Resume(p) \/ Lose(p)
      PROVE  GateInv'
  <2>1. pc' = pc
    BY <1>4 DEF Reload, Heartbeat, IdpAnswers, Resume, Lose
  <2>. QED
    BY <1>3, <1>4, <2>1, GatesAlone
<1>5. ASSUME NEW p \in Procs, WillSleep(p) \/ AckSleep(p) PROVE GateInv'
  <2>1. /\ pc' = pc /\ gated \subseteq gated' /\ p \in gated'
        /\ \A q \in Procs \ {p} : acked'[q] = acked[q]
        /\ acked'[p] = "drained" => ~InFlight(p)
    BY <1>0, <1>5 DEF WillSleep, AckSleep, PowerType
  <2>. QED
    BY <2>1 DEF GateInv, InFlight
<1>6. ASSUME NEW p \in Procs, Crash(p) \/ Stop(p) PROVE GateInv'
  <2>1. /\ gated' = gated \ {p} /\ acked'[p] = "no"
        /\ \A q \in Procs \ {p} : acked'[q] = acked[q] /\ pc'[q] = pc[q]
    BY <1>0, <1>6, GotoEffect DEF Crash, Stop, PowerType
  <2>. QED
    BY <2>1 DEF GateInv
<1>7. CASE AnnounceSleep \/ CallOff \/ Suspend
  BY <1>7 DEF AnnounceSleep, CallOff, Suspend, GateInv
<1>8. CASE Expire \/ (\E o \in orphans : OrphanLocks(o) \/ OrphanDrops(o)) \/ UNCHANGED vars
  BY <1>3, <1>8 DEF Expire, OrphanLocks, OrphanDrops, vars, powerVars
<1>. QED
  BY <1>2, <1>4, <1>5, <1>6, <1>7, <1>8 DEF Next

(* The machine never sleeps through the exchange of a process that           *)
(* has acknowledged the sleep as drained: WillSleep and the second look at     *)
(* the gate (refresh_chain, after the InFlightGuard) cannot miss each other.  *)
THEOREM SleepIsDrained == Spec => NoStraddle
<1>1. Init => Types /\ GateInv
  BY InitTypes DEF Init, GateInv
<1>2. Types /\ GateInv /\ [Next]_vars => Types' /\ GateInv'
  BY NextTypes, NextFiles, NextGates DEF Types
<1>3. Types /\ GateInv /\ [Next]_vars =>
        [Suspend => \A p \in Procs : pc[p] = "sent" => acked[p] # "drained"]_vars
  BY DEF GateInv
<1>. QED
  BY <1>1, <1>2, <1>3, PTL DEF Spec, NoStraddle

-----------------------------------------------------------------------------
(***************************************************************************)
(* Flocks: a holder has the flock of its file, alone, and is named in it.     *)
(***************************************************************************)
(* Two holders have different files, and no abandoned thread has one of them. *)
LEMMA HoldersApart ==
    ASSUME Types, FlockInv, NEW p \in Procs, Held(p)
    PROVE  /\ fd[p] \in Inodes /\ flock[fd[p]] = p
           /\ \A q \in Procs : Held(q) /\ fd[q] = fd[p] => q = p
<1>1. fd[p] \in Inodes
  BY DEF Types, TypeOK, LockType, FileInv
<1>. QED
  BY <1>1 DEF FlockInv

(* A step that leaves the lock as it is, or only drops what p had of it. *)
LEMMA FlockFrame ==
    ASSUME Types, FlockInv, NEW p \in Procs, StepOf(p),
           Held(p)' => Held(p) /\ fd'[p] = fd[p], Named(p)' => Named(p),
           \A q \in Procs : Held(q)' => flock'[fd[q]] = flock[fd[q]],
           \A q \in Procs : Named(q)' => info'[fd[q]] = info[fd[q]],
           \A o \in orphans' : o.got => o \in orphans /\ flock'[o.inode] = flock[o.inode]
    PROVE  FlockInv'
<1>1. \A q \in Procs : /\ Held(q)' => Held(q) /\ fd'[q] = fd[q]
                       /\ Named(q)' => Named(q)
  <2>1. \A q \in Procs \ {p} : pc'[q] = pc[q] /\ fd'[q] = fd[q]
    BY OthersKeep DEF Types
  <2>. QED
    BY <2>1 DEF Held, Named, Guarded
<1>2. \A q \in Procs : Held(q)' => flock'[fd'[q]] = q
  BY <1>1 DEF FlockInv
<1>3. \A o \in orphans' : o.got => flock'[o.inode] = o.proc
  BY DEF FlockInv
<1>4. \A o \in orphans', q \in Procs : o.got /\ Held(q)' => fd'[q] # o.inode
  BY <1>1 DEF FlockInv
<1>5. \A q \in Procs : Named(q)' => info'[fd'[q]] = q
  <2>1. \A q \in Procs : Named(q)' => Held(q)'
    BY DEF Named, Held
  <2>. QED
    BY <1>1, <2>1 DEF FlockInv
<1>. QED
  BY <1>2, <1>3, <1>4, <1>5 DEF FlockInv

(* A thread that has the flock is the only one of its process on that file. *)
LEMMA GotThread ==
    ASSUME Types, NEW o \in orphans, o.got
    PROVE  o = [proc |-> o.proc, inode |-> o.inode, got |-> TRUE]
  BY DEF Types, TypeOK, LockType

(* Closing the file takes nothing from the others. *)
LEMMA CloseKeeps ==
    ASSUME Types, FlockInv, NEW p \in Procs, Close(p)
    PROVE  /\ \A q \in Procs \ {p} : Held(q) => flock'[fd[q]] = flock[fd[q]]
           /\ \A o \in orphans : o.got => flock'[o.inode] = flock[o.inode]
           /\ UNCHANGED <<path, info, stale, orphans>>
<1>1. ASSUME NEW q \in Procs \ {p}, Held(q) PROVE flock'[fd[q]] = flock[fd[q]]
  <2>1. fd[q] \in Inodes /\ flock[fd[q]] = q
    BY <1>1, HoldersApart
  <2>. QED
    BY <2>1 DEF Close
<1>2. ASSUME NEW o \in orphans, o.got PROVE flock'[o.inode] = flock[o.inode]
  <2>1. o.inode \in Inodes
    BY DEF Types, TypeOK, LockType
  <2>2. flock[o.inode] = o.proc
    BY <1>2 DEF FlockInv
  <2>3. o = [proc |-> o.proc, inode |-> o.inode, got |-> TRUE]
    BY <1>2, GotThread
  <2>. QED
    BY <2>1, <2>2, <2>3 DEF Close
<1>. QED
  BY <1>1, <1>2 DEF Close

(* The steps of one process keep the flocks in order. *)
LEMMA FlockStep ==
    ASSUME Types, FlockInv, NEW p \in Procs, StepOf(p)
    PROVE  FlockInv'
<1>0. StepType /\ LockType /\ FileInv /\ 0 \notin Inodes /\ None \notin Procs
  BY Constants DEF Types, TypeOK
<1>o. \A q \in Procs \ {p} : pc'[q] = pc[q] /\ fd'[q] = fd[q]
  BY OthersKeep DEF Types
<1>n. \A q \in Procs : (Named(q) => Held(q)) /\ (Named(q)' => Held(q)')
  BY DEF Named, Held
<1>q. \A q \in Procs \ {p} : (Held(q)' => Held(q)) /\ (Named(q)' => Named(q))
  BY <1>o DEF Held, Named, Guarded
<1>1. CASE /\ UNCHANGED <<info, flock, orphans>>
           /\ Held(p)' => Held(p) /\ fd'[p] = fd[p]
           /\ Named(p)' => Named(p)
  BY <1>1, FlockFrame
<1>2. CASE Forward(p)
  <2>1. Held(p) /\ Named(p) /\ UNCHANGED <<info, flock, orphans, fd>>
    BY <1>2 DEF Forward, Named, Held, lockVars
  <2>. QED
    BY <1>1, <2>1
<1>3. CASE Enters(p) \/ Misses(p) \/ Judges(p) \/ Confirmed(p)
  <2>1. UNCHANGED <<info, flock, orphans>>
    BY <1>3 DEF Enters, Misses, Judges, Confirmed, lockVars
  <2>2. pc'[p] \in {"idle", "open", "inspect", "unlink"}
    BY <1>0, <1>3, GotoEffect, PhaseEffect DEF Enters, Misses, Judges, Confirmed
  <2>3. ~Held(p)' /\ ~Named(p)'
    BY <2>2 DEF Held, Named, Guarded
  <2>. QED
    BY <1>1, <2>1, <2>3
<1>4. CASE Stop(p) \/ Resume(p)
  <2>1. UNCHANGED <<info, flock, orphans, fd, pc>>
    BY <1>4 DEF Stop, Resume, lockVars
  <2>. QED
    BY <1>1, <2>1 DEF Held, Named, Guarded
<1>5. CASE Releases(p) \/ Waits(p)
  <2>1. Close(p)
    BY <1>5 DEF Releases, Waits
  <2>2. pc'[p] \in {"idle", "open", "late", "confirm"}
    BY <1>0, <1>5, GotoEffect DEF Releases, Waits, Confirms
  <2>3. ~Held(p)' /\ ~Named(p)'
    BY <2>2 DEF Held, Named, Guarded
  <2>4. /\ \A q \in Procs : Held(q)' => flock'[fd[q]] = flock[fd[q]]
        /\ \A o \in orphans' : o.got => o \in orphans /\ flock'[o.inode] = flock[o.inode]
    BY <1>q, <2>1, <2>3, CloseKeeps
  <2>5. info' = info
    BY <2>1 DEF Close
  <2>. QED
    BY <2>3, <2>4, <2>5, FlockFrame
<1>6. CASE Open(p)
  <2>1. pc'[p] \in {"wait", "flock"}
    BY <1>0, <1>6, GotoEffect DEF Open
  <2>2. ~Held(p)' /\ ~Named(p)'
    BY <2>1 DEF Held, Named, Guarded
  <2>3. UNCHANGED <<flock, orphans>>
    BY <1>6 DEF Open
  <2>4. ASSUME NEW q \in Procs, Named(q)' PROVE info'[fd[q]] = info[fd[q]]
    <3>1. CASE path # 0
      BY <1>6, <3>1 DEF Open
    <3>2. CASE path = 0
      <4>1. NewInode \in Inodes /\ NewInode \notin InUse
        BY <1>0, <3>2, FreshInode DEF FileInv
      <4>2. fd[q] # NewInode /\ fd[q] \in Inodes
        BY <1>n, <1>q, <2>2, <2>4, <4>1, HoldersApart DEF InUse
      <4>. QED
        BY <1>0, <1>6, <3>2, <4>1, <4>2 DEF Open, LockType
    <3>. QED
      BY <3>1, <3>2
  <2>. QED
    BY <2>2, <2>3, <2>4, FlockFrame
<1>7. CASE Takes(p)
  <2>1. /\ pc'[p] = "write" /\ flock' = [flock EXCEPT ![fd[p]] = p] /\ flock[fd[p]] = None
        /\ UNCHANGED <<info, fd, orphans>>
    BY <1>0, <1>7, GotoEffect DEF Takes, TakeFlock
  <2>2. fd[p] \in Inodes /\ ~Named(p)' /\ ~Held(p)
    BY <1>0, <1>7, <2>1 DEF Takes, FileInv, LockType, Named, Held, Guarded
  <2>3. flock'[fd[p]] = p /\ \A i \in Inodes : i # fd[p] => flock'[i] = flock[i]
    BY <1>0, <2>1, <2>2 DEF LockType
  <2>4. ASSUME NEW q \in Procs \ {p}, Held(q)'
        PROVE  fd[q] # fd[p] /\ flock'[fd[q]] = q
    BY <1>0, <1>q, <2>1, <2>3, <2>4, HoldersApart
  <2>5. ASSUME NEW o \in orphans, o.got
        PROVE  o.inode # fd[p] /\ flock'[o.inode] = o.proc
    BY <1>0, <2>1, <2>3, <2>5 DEF FlockInv, LockType
  <2>6. \A q \in Procs : Held(q)' => flock'[fd'[q]] = q
    BY <2>1, <2>3, <2>4
  <2>7. \A o \in orphans' : o.got => flock'[o.inode] = o.proc
    BY <2>1, <2>5
  <2>8. \A o \in orphans', q \in Procs : o.got /\ Held(q)' => fd'[q] # o.inode
    BY <1>q, <2>1, <2>5 DEF FlockInv
  <2>9. \A q \in Procs : Named(q)' => info'[fd'[q]] = q
    BY <1>q, <2>1, <2>2 DEF FlockInv
  <2>. QED
    BY <2>6, <2>7, <2>8, <2>9 DEF FlockInv
<1>8. CASE WriteInfo(p) \/ Heartbeat(p)
  <2>1. /\ Held(p) /\ info' = [info EXCEPT ![fd[p]] = p] /\ UNCHANGED <<flock, fd, orphans>>
    BY <1>8 DEF WriteInfo, Heartbeat, Held
  <2>2. fd[p] \in Inodes /\ info'[fd[p]] = p /\ \A i \in Inodes : i # fd[p] => info'[i] = info[i]
    BY <1>0, <2>1, HoldersApart DEF LockType
  <2>3. ASSUME NEW q \in Procs \ {p}, Named(q)' PROVE info'[fd[q]] = q
    <3>1. Held(q) /\ Named(q)
      BY <1>n, <1>q, <2>3
    <3>2. fd[q] # fd[p] /\ fd[q] \in Inodes
      BY <2>1, <3>1, HoldersApart
    <3>. QED
      BY <2>2, <3>1, <3>2 DEF FlockInv
  <2>4. \A q \in Procs : Held(q)' => Held(q)
    BY <1>q, <2>1
  <2>. QED
    BY <2>1, <2>2, <2>3, <2>4 DEF FlockInv
<1>9. CASE Unlinks(p) \/ WaitTimeout(p)
  <2>1. UNCHANGED <<info, flock>>
    BY <1>9 DEF Unlinks, WaitTimeout
  <2>2. pc'[p] \in {"open", "idle", "late", "confirm"}
    BY <1>0, <1>9, GotoEffect, PhaseEffect DEF Unlinks, Confirms, WaitTimeout
  <2>3. ~Held(p)' /\ ~Named(p)'
    BY <2>2 DEF Held, Named, Guarded
  <2>4. \A o \in orphans' : o.got => o \in orphans
    BY <1>9 DEF Unlinks, WaitTimeout
  <2>. QED
    BY <2>1, <2>3, <2>4, FlockFrame
<1>10. CASE Crash(p)
  <2>1. pc'[p] = "crashed" /\ UNCHANGED info /\ orphans' = {o \in orphans : o.proc # p}
    BY <1>0, <1>10, GotoEffect DEF Crash
  <2>2. ~Held(p)' /\ ~Named(p)'
    BY <2>1 DEF Held, Named, Guarded
  <2>3. \A i \in Inodes : flock[i] # p => flock'[i] = flock[i]
    BY <1>10 DEF Crash
  <2>4. ASSUME NEW q \in Procs, Held(q)' PROVE flock'[fd[q]] = flock[fd[q]]
    BY <1>q, <2>2, <2>3, <2>4, HoldersApart
  <2>5. ASSUME NEW o \in orphans', o.got PROVE o \in orphans /\ flock'[o.inode] = flock[o.inode]
    BY <1>0, <2>1, <2>3, <2>5 DEF FlockInv, LockType
  <2>. QED
    BY <2>1, <2>2, <2>4, <2>5, FlockFrame
<1>. QED
  BY <1>2, <1>3, <1>4, <1>5, <1>6, <1>7, <1>8, <1>9, <1>10 DEF StepOf

(* So do the steps of an abandoned thread. *)
LEMMA FlockThreads ==
    ASSUME Types, FlockInv, NEW o \in orphans, OrphanLocks(o) \/ OrphanDrops(o)
    PROVE  FlockInv'
<1>0. /\ LockType /\ None \notin Procs /\ o.inode \in Inodes /\ o.proc \in Procs
      /\ o \in [proc : Procs, inode : Inodes, got : BOOLEAN]
  BY Constants DEF Types, TypeOK, LockType
<1>h. UNCHANGED <<pc, fd>>
  BY DEF OrphanLocks, OrphanDrops
<1>q. \A q \in Procs : /\ Held(q)' <=> Held(q)
                       /\ Named(q)' <=> Named(q)
                       /\ Held(q) => fd[q] \in Inodes /\ flock[fd[q]] = q
  BY <1>h, HoldersApart DEF Held, Named, Guarded
<1>n. \A q \in Procs : Named(q) => Held(q)
  BY DEF Named, Held
<1>1. CASE OrphanLocks(o)
  <2>1. /\ flock[o.inode] = None /\ flock' = [flock EXCEPT ![o.inode] = o.proc]
        /\ orphans' = (orphans \ {o}) \cup {[o EXCEPT !.got = TRUE]} /\ info' = info
    BY <1>1 DEF OrphanLocks
  <2>2. flock'[o.inode] = o.proc /\ \A i \in Inodes : i # o.inode => flock'[i] = flock[i]
    BY <1>0, <2>1 DEF LockType
  <2>3. ASSUME NEW q \in Procs, Held(q) PROVE fd[q] # o.inode /\ flock'[fd[q]] = q
    BY <1>0, <1>q, <2>1, <2>2, <2>3
  <2>4. ASSUME NEW u \in orphans', u.got
        PROVE  (u \in orphans \/ u.inode = o.inode) /\ flock'[u.inode] = u.proc
    <3>1. CASE u \in orphans
      <4>1. u.inode \in Inodes /\ u.proc \in Procs /\ flock[u.inode] = u.proc
        BY <2>4, <3>1 DEF Types, TypeOK, LockType, FlockInv
      <4>. QED
        BY <1>0, <2>1, <2>2, <3>1, <4>1
    <3>2. CASE u = [o EXCEPT !.got = TRUE]
      BY <1>0, <2>2, <3>2
    <3>. QED
      BY <2>1, <3>1, <3>2
  <2>5. \A u \in orphans', q \in Procs : u.got /\ Held(q) => fd[q] # u.inode
    BY <2>3, <2>4 DEF FlockInv
  <2>6. \A q \in Procs : Named(q) => info[fd[q]] = q
    BY DEF FlockInv
  <2>. QED
    BY <1>h, <1>q, <2>1, <2>3, <2>4, <2>5, <2>6 DEF FlockInv
<1>2. CASE OrphanDrops(o)
  <2>1. /\ o.got /\ flock' = [flock EXCEPT ![o.inode] = None] /\ orphans' = orphans \ {o}
        /\ info' = [info EXCEPT ![o.inode] = o.proc]
    BY <1>2 DEF OrphanDrops
  <2>2. \A i \in Inodes : i # o.inode => flock'[i] = flock[i] /\ info'[i] = info[i]
    BY <1>0, <2>1 DEF LockType
  <2>3. \A q \in Procs : Held(q) => fd[q] # o.inode
    BY <2>1 DEF FlockInv
  <2>4. ASSUME NEW u \in orphans', u.got PROVE u \in orphans /\ flock'[u.inode] = u.proc
    <3>1. u \in orphans /\ u # o /\ u.inode \in Inodes /\ flock[u.inode] = u.proc
      BY <2>1, <2>4 DEF Types, TypeOK, LockType, FlockInv
    <3>2. CASE u.inode = o.inode
      <4>1. u.proc = o.proc
        BY <2>1, <3>1, <3>2 DEF FlockInv
      <4>2. /\ u = [proc |-> u.proc, inode |-> u.inode, got |-> TRUE]
            /\ o = [proc |-> o.proc, inode |-> o.inode, got |-> TRUE]
        BY <2>1, <2>4, <3>1, GotThread
      <4>. QED
        BY <3>1, <3>2, <4>1, <4>2
    <3>. QED
      BY <2>2, <3>1, <3>2
  <2>5. \A q \in Procs : Held(q) => flock'[fd[q]] = q
    BY <1>q, <2>2, <2>3
  <2>6. \A q \in Procs : Named(q) => info'[fd[q]] = q
    BY <1>q, <1>n, <2>2, <2>3 DEF FlockInv
  <2>7. \A u \in orphans', q \in Procs : u.got /\ Held(q) => fd[q] # u.inode
    BY <2>4 DEF FlockInv
  <2>. QED
    BY <1>h, <1>q, <2>4, <2>5, <2>6, <2>7 DEF FlockInv
<1>. QED
  BY <1>1, <1>2

(* Every step keeps the flocks in order. *)
LEMMA NextFlocks ==
    ASSUME Types, FlockInv, [Next]_vars
    PROVE  FlockInv'
<1>1. CASE UNCHANGED <<pc, fd, flock, orphans, info>>
  BY <1>1 DEF FlockInv, Held, Named, Guarded
<1>2. CASE Still \/ Suspend
  BY <1>1, <1>2 DEF Still, Suspend, lockVars
<1>. QED
  BY <1>2, FlockStep, FlockThreads, Shapes DEF StepOf

-----------------------------------------------------------------------------
(***************************************************************************)
(* Heartbeats: a running holder does not look stuck to one who has confirmed. *)
(***************************************************************************)
(* A running holder whose holder info has got old. *)
Overdue(p) == p \in Procs \ stopped /\ Named(p) /\ fd[p] \in stale

(* A step after which nobody is overdue who was not, nobody has confirmed     *)
(* who had not, and nobody waits for fewer of those who are overdue.          *)
LEMMA BeatFrame ==
    ASSUME BeatInv, \A r \in Procs : Overdue(r)' => Overdue(r), SamePhases,
           \A q \in Procs : pc'[q] = "confirm" /\ q \notin cut' =>
               /\ pc[q] = "confirm" /\ q \notin cut
               /\ \A r \in Procs : Overdue(r)' /\ r \in due[q] => r \in due'[q]
    PROVE  BeatInv'
  BY DEF BeatInv, Overdue, SamePhases

(* Only a sleep or a resumption cuts into the confirmation of others, and     *)
(* nobody but a waiter itself takes its own mark away.                       *)
LEMMA OthersCut ==
    ASSUME Types, NEW p \in Procs, StepOf(p), ~Resume(p)
    PROVE  SameCuts(p)
<1>1. CASE \/ Forward(p) \/ Releases(p) \/ Enters(p) \/ Waits(p) \/ Unlinks(p)
           \/ Takes(p) \/ Misses(p) \/ Judges(p)
  BY <1>1 DEF Forward, Releases, Enters, Waits, Unlinks, Confirms, Takes, Misses, Judges, SameCuts
<1>2. CASE Open(p) \/ WriteInfo(p) \/ Heartbeat(p) \/ Stop(p)
  <2>1. UNCHANGED idpVars
    BY <1>2 DEF Open, WriteInfo, Heartbeat, Stop
  <2>. QED
    BY <2>1 DEF idpVars, history, SameCuts
<1>3. CASE WaitTimeout(p) \/ Confirmed(p) \/ Crash(p)
  BY <1>3 DEF WaitTimeout, Confirmed, Crash, Continue, SameCuts
<1>. QED
  BY <1>1, <1>2, <1>3 DEF StepOf

(* A cut marks everybody who is confirming. *)
LEMMA CutIsMarked ==
    ASSUME CutShort, UNCHANGED <<pc, try>>
    PROVE  BeatInv'
<1>1. \A q \in Procs : Confirming(q) => q \in cut'
  BY DEF CutShort
<1>2. \A q \in Procs : ~Assured(q)' /\ (pc'[q] = "confirm" => q \in cut')
  BY <1>1 DEF Assured, Confirming
<1>. QED
  BY <1>2 DEF BeatInv

(* The steps of one process. *)
LEMMA BeatStep ==
    ASSUME Types, FlockInv, BeatInv, NEW p \in Procs, StepOf(p)
    PROVE  BeatInv'
<1>0. StepType /\ LockType /\ FileInv
  BY DEF Types, TypeOK
<1>k. \A q \in Procs \ {p} : /\ pc'[q] = pc[q] /\ fd'[q] = fd[q] /\ try'[q] = try[q]
                             /\ (q \in stopped' <=> q \in stopped)
  BY OthersKeep DEF Types
<1>o. ASSUME NEW r \in Procs \ {p}, stale' \subseteq stale PROVE Overdue(r)' => Overdue(r)
  BY <1>k, <1>o DEF Overdue, Named, Guarded
<1>c. ~Resume(p) => \A q \in Procs \ {p} : q \in cut' <=> q \in cut
  BY OthersCut DEF SameCuts
<1>r. (Open(p) \/ WriteInfo(p) \/ Heartbeat(p) \/ Stop(p)) => UNCHANGED cut
  BY DEF Open, WriteInfo, Heartbeat, Stop, idpVars, history
<1>n. ~Guarded(p)' /\ pc'[p] # "verify" => ~Overdue(p)'
  BY DEF Overdue, Named
<1>1. CASE Forward(p)
  <2>1. SamePhases /\ Named(p) /\ p \notin stopped /\ UNCHANGED <<fd, stale, due, stopped>>
    BY <1>1 DEF Forward, lockVars
  <2>2. \A r \in Procs : Overdue(r)' => Overdue(r)
    BY <1>o, <2>1 DEF Overdue
  <2>3. pc'[p] # "confirm"
    BY <1>1 DEF Forward, Guarded
  <2>4. ~Resume(p)
    BY <1>1 DEF Forward, Resume
  <2>. QED
    BY <1>c, <1>k, <2>1, <2>2, <2>3, <2>4, BeatFrame
<1>2. CASE Releases(p) \/ Enters(p) \/ Open(p) \/ Takes(p) \/ Misses(p) \/ Judges(p)
           \/ WaitTimeout(p) \/ Crash(p)
  <2>1. stale' \subseteq stale
    BY <1>2 DEF Releases, Enters, Open, Takes, Misses, Judges, WaitTimeout, Crash, Close,
         lockVars
  <2>2. pc'[p] \in {"idle", "open", "late", "flock", "wait", "write", "inspect", "unlink",
                    "crashed"}
    <3>1. CASE WaitTimeout(p)
      BY <1>0, <3>1, PhaseEffect DEF WaitTimeout
    <3>2. CASE Releases(p) \/ Enters(p) \/ Open(p)
      BY <1>0, <3>2, GotoEffect DEF Releases, Enters, Open
    <3>3. CASE Takes(p) \/ Misses(p) \/ Judges(p) \/ Crash(p)
      BY <1>0, <3>3, GotoEffect DEF Takes, TakeFlock, Misses, Judges, Crash
    <3>. QED
      BY <1>2, <3>1, <3>2, <3>3
  <2>6. ~Resume(p)
    <3>1. ~Guarded(p)' /\ (p \in stopped => Guarded(p))
      BY <1>0, <2>2 DEF Guarded, FileInv
    <3>. QED
      BY <3>1 DEF Resume, Guarded
  <2>3. SamePhases
    <3>1. CASE WaitTimeout(p)
      <4>1. try'[p].phase = 3
        BY <1>0, <3>1, PhaseEffect DEF WaitTimeout
      <4>2. \A q \in Procs : Assured(q)' => q # p
        BY <4>1 DEF Assured
      <4>. QED
        BY <1>c, <1>k, <2>6, <4>2 DEF SamePhases, Assured
    <3>2. CASE Crash(p)
      <4>1. try'[p].phase = 1
        BY <1>0, <3>2 DEF Crash, StepType, FirstTry
      <4>2. \A q \in Procs : Assured(q)' => q # p
        BY <4>1 DEF Assured
      <4>. QED
        BY <1>c, <1>k, <2>6, <4>2 DEF SamePhases, Assured
    <3>3. CASE Releases(p) \/ Enters(p)
      BY <3>3 DEF Releases, Enters
    <3>4. CASE Open(p) \/ Takes(p) \/ Misses(p) \/ Judges(p)
      <4>1. UNCHANGED <<try, cut>> /\ pc[p] # "late"
        BY <1>r, <3>4 DEF Open, Takes, Misses, Judges
      <4>. QED
        BY <1>k, <4>1 DEF SamePhases, Assured
    <3>. QED
      BY <1>2, <3>1, <3>2, <3>3, <3>4
  <2>4. \A q \in Procs \ {p} : due'[q] = due[q]
    BY <1>2 DEF Releases, Enters, Open, Takes, Misses, Judges, WaitTimeout, Crash
  <2>5. ~Overdue(p)' /\ pc'[p] # "confirm"
    BY <1>n, <2>2 DEF Guarded
  <2>. QED
    BY <1>c, <1>k, <1>o, <2>1, <2>3, <2>4, <2>5, <2>6, BeatFrame
<1>3. CASE WriteInfo(p) \/ Heartbeat(p)
  <2>1. /\ stale' = stale \ {fd[p]} /\ UNCHANGED <<fd, try>>
        /\ due' = [q \in Procs |-> due[q] \ {p}]
        /\ pc'[p] # "confirm"
    BY <1>0, <1>3, GotoEffect DEF WriteInfo, Heartbeat, Guarded
  <2>2. ~Overdue(p)'
    BY <2>1 DEF Overdue
  <2>3. \A r \in Procs : Overdue(r)' => Overdue(r)
    BY <1>o, <2>1, <2>2
  <2>4. \A q, r \in Procs : Overdue(r)' /\ r \in due[q] => r \in due'[q]
    BY <2>1, <2>2
  <2>5. UNCHANGED cut /\ SamePhases
    <3>1. UNCHANGED cut
      BY <1>3, <1>r
    <3>2. pc[p] # "late" /\ try' = try
      BY <1>3 DEF WriteInfo, Heartbeat, Guarded
    <3>. QED
      BY <1>k, <3>1, <3>2 DEF SamePhases, Assured
  <2>. QED
    BY <1>k, <2>1, <2>3, <2>4, <2>5, BeatFrame
<1>4. CASE Waits(p) \/ Unlinks(p)
  <2>1. PICK label \in {"open", "idle", "late", "confirm"} : Confirms(p, label)
    BY <1>4 DEF Waits, Unlinks
  <2>2. /\ stale' = stale /\ pc'[p] = label /\ SamePhases
        /\ \A q \in Procs \ {p} : due'[q] = due[q]
    BY <1>0, <1>4, <2>1, GotoEffect DEF Waits, Unlinks, Confirms, Close
  <2>3. \A r \in Procs : Overdue(r)' => Overdue(r)
    BY <1>n, <1>o, <2>2 DEF Guarded
  <2>4. \A r \in Procs : Overdue(r) => Holding(r)
    BY DEF Overdue, Holding, Named
  <2>5. pc'[p] = "confirm" => \A r \in Procs : Overdue(r)' => r \in due'[p]
    BY <2>1, <2>2, <2>3, <2>4 DEF Confirms
  <2>6. ASSUME NEW q \in Procs, pc'[q] = "confirm", q \notin cut'
        PROVE  \A r \in Procs : Overdue(r)' => r \in due'[q]
    <3>1. CASE q = p
      BY <2>5, <2>6, <3>1
    <3>2. CASE q # p
      <4>1. pc[q] = "confirm" /\ due'[q] = due[q] /\ q \notin cut
        BY <1>k, <2>1, <2>2, <2>6, <3>2 DEF Confirms, SameCuts
      <4>. QED
        BY <2>3, <4>1 DEF BeatInv, Overdue
    <3>. QED
      BY <3>1, <3>2
  <2>7. ASSUME NEW q \in Procs, Assured(q)' PROVE \A r \in Procs : ~Overdue(r)'
    BY <2>2, <2>3, <2>7 DEF BeatInv, Overdue, SamePhases
  <2>. QED
    BY <2>6, <2>7 DEF BeatInv, Overdue
<1>5. CASE Confirmed(p)
  <2>1. /\ pc[p] = "confirm" /\ \A q \in due[p] : ~Holding(q)
        /\ pc'[p] = "open" /\ UNCHANGED <<fd, stale, stopped>>
        /\ \A q \in Procs \ {p} : due'[q] = due[q]
    BY <1>0, <1>5, PhaseEffect DEF Confirmed, StepType, lockVars, powerVars
  <2>2. \A r \in Procs : Overdue(r)' => Overdue(r)
    BY <1>n, <1>o, <2>1 DEF Guarded
  <2>3. cut' = cut
    BY <1>5 DEF Confirmed, Continue
  <2>4. p \notin cut => \A r \in Procs : ~Overdue(r)
    <3>. SUFFICES ASSUME p \notin cut, NEW r \in Procs, Overdue(r) PROVE FALSE
      OBVIOUS
    <3>1. r \in due[p]
      BY <2>1 DEF BeatInv, Overdue
    <3>2. Holding(r)
      BY DEF Overdue, Holding, Named
    <3>. QED
      BY <2>1, <3>1, <3>2
  <2>5. ASSUME NEW q \in Procs, Assured(q)' PROVE \A r \in Procs : ~Overdue(r)
    <3>1. CASE q = p
      BY <2>3, <2>4, <2>5, <3>1 DEF Assured
    <3>2. CASE q # p
      <4>1. Assured(q)
        BY <1>k, <2>3, <2>5, <3>2 DEF Assured
      <4>. QED
        BY <4>1 DEF BeatInv, Overdue
    <3>. QED
      BY <3>1, <3>2
  <2>6. ASSUME NEW q \in Procs, pc'[q] = "confirm", q \notin cut'
        PROVE  \A r \in Procs : Overdue(r)' => r \in due'[q]
    <3>1. q # p /\ pc[q] = "confirm" /\ q \notin cut /\ due'[q] = due[q]
      BY <1>k, <2>1, <2>3, <2>6
    <3>. QED
      BY <2>2, <3>1 DEF BeatInv, Overdue
  <2>. QED
    BY <2>2, <2>5, <2>6 DEF BeatInv, Overdue
<1>6. CASE Stop(p)
  <2>1. /\ Guarded(p) /\ stopped' = stopped \cup {p} /\ stale' = stale \cup {fd[p]}
        /\ UNCHANGED <<fd, pc, try, due>>
    BY <1>6 DEF Stop
  <2>2. ASSUME NEW r \in Procs, Overdue(r)' PROVE Overdue(r)
    <3>1. r # p /\ r \notin stopped /\ Named(r)
      BY <2>1, <2>2 DEF Overdue, Named, Guarded
    <3>2. fd[r] # fd[p]
      BY <2>1, <3>1, HoldersApart DEF Held, Named
    <3>. QED
      BY <2>1, <2>2, <3>1, <3>2 DEF Overdue
  <2>. QED
    BY <1>6, <1>r, <2>1, <2>2, BeatFrame DEF SamePhases, Assured
<1>7. CASE Resume(p)
  <2>1. CutShort /\ UNCHANGED <<pc, try>>
    BY <1>7 DEF Resume
  <2>. QED
    BY <2>1, CutIsMarked
<1>. QED
  BY <1>1, <1>2, <1>3, <1>4, <1>5, <1>6, <1>7 DEF StepOf

(* Every step keeps the promise of the heartbeats. *)
LEMMA NextBeats ==
    ASSUME Types, FlockInv, BeatInv, [Next]_vars
    PROVE  BeatInv'
<1>1. CASE stale' \subseteq stale /\ UNCHANGED <<pc, fd, try, due, stopped, cut>>
  BY <1>1 DEF BeatInv, Assured, Named, Guarded
<1>2. CASE Still
  BY <1>1, <1>2 DEF Still, lockVars
<1>3. ASSUME NEW o \in orphans, OrphanLocks(o) \/ OrphanDrops(o) PROVE BeatInv'
  BY <1>1, <1>3 DEF OrphanLocks, OrphanDrops, powerVars, idpVars, history
<1>4. CASE Suspend
  BY <1>4, CutIsMarked DEF Suspend
<1>. QED
  BY <1>2, <1>3, <1>4, BeatStep, Shapes DEF StepOf

(* Types, the kernel's view and the heartbeats, together. *)
BeatsInv == Types /\ FlockInv /\ BeatInv
LEMMA InitBeats == Init => BeatsInv
<1>. SUFFICES ASSUME Init PROVE BeatsInv
  OBVIOUS
<1>1. \A p \in Procs : pc[p] = "off" /\ try[p].phase = 1
  BY DEF Init, FirstTry
<1>2. \A p \in Procs : ~Held(p) /\ ~Named(p)
  BY <1>1 DEF Held, Named, Guarded
<1>3. FlockInv
  BY <1>2 DEF Init, FlockInv
<1>4. BeatInv
  BY <1>1, <1>2 DEF BeatInv, Assured
<1>. QED
  BY <1>3, <1>4, InitTypes DEF BeatsInv

(* No waiter takes a running process for dead or stuck whose name is in the   *)
(* lock file, for any number of processes, threads and faults, unless a sleep *)
(* or a resumption has cut into its confirmation: holder_state finds the      *)
(* process alive, and STUCK_LIVE_CONFIRM_DELAY outlasts a heartbeat.          *)
THEOREM RunningHolderIsSeen == Spec => HeartbeatIsSeen
<1>1. Init => BeatsInv
  BY InitBeats
<1>2. BeatsInv /\ [Next]_vars => BeatsInv'
  BY NextTypes, NextFiles, NextFlocks, NextBeats DEF BeatsInv, Types
<1>. DEFINE Seen == \A p \in Procs : pc[p] = "inspect" /\ pc'[p] = "unlink" =>
                       \/ p \in cut /\ try[p].phase = 4
                       \/ \A q \in Procs \ stopped : Named(q) => fd[q] # fd[p]
<1>3. ASSUME BeatsInv, Next PROVE Seen
  <2>. SUFFICES ASSUME NEW p \in Procs, pc[p] = "inspect", pc'[p] = "unlink",
                       ~(p \in cut /\ try[p].phase = 4),
                       NEW q \in Procs \ stopped, Named(q), fd[q] = fd[p]
                PROVE  FALSE
    BY DEF Seen
  <2>0. Types /\ TypeOK /\ StepType
    BY <1>3 DEF BeatsInv, Types, TypeOK
  <2>1. Judges(p)
    <3>1. ASSUME NEW r \in Procs, StepOf(r) PROVE Judges(p)
      <4>1. r = p
        BY <2>0, <3>1, OthersKeep
      <4>2. pc[r] = "inspect" /\ pc'[r] = "unlink" /\ ~Named(r) /\ ~Guarded(r)
        BY <4>1 DEF Named, Guarded
      <4>3. ~(Releases(r) \/ Waits(r) \/ Unlinks(r) \/ Takes(r) \/ Misses(r))
        BY <2>0, <4>2, GotoEffect DEF Releases, Waits, Confirms, Unlinks, Takes, Misses
      <4>4. ~(Open(r) \/ WriteInfo(r) \/ WaitTimeout(r) \/ Confirmed(r) \/ Crash(r))
        BY <2>0, <4>2, GotoEffect DEF Open, WriteInfo, WaitTimeout, Confirmed, Crash
      <4>5. ~(Forward(r) \/ Enters(r) \/ Heartbeat(r) \/ Stop(r) \/ Resume(r))
        BY <4>2 DEF Forward, Enters, Heartbeat, Stop, Resume
      <4>. QED
        BY <3>1, <4>1, <4>3, <4>4, <4>5 DEF StepOf
    <3>2. ~Still /\ ~Suspend
      BY DEF Still, Suspend
    <3>3. \A o \in orphans : ~OrphanLocks(o) /\ ~OrphanDrops(o)
      BY DEF OrphanLocks, OrphanDrops
    <3>. QED
      BY <1>3, <2>0, <3>1, <3>2, <3>3, Shapes DEF StepOf
  <2>2. info[fd[p]] = q /\ pc[q] # "crashed"
    BY <1>3 DEF BeatsInv, FlockInv, Named, Guarded
  <2>3. ~HolderDead(fd[p])
    BY <2>2, Constants DEF HolderDead
  <2>4. fd[p] \in stale /\ try[p].phase = 4
    BY <2>1, <2>3 DEF Judges, Breakable, StuckLive
  <2>5. Assured(p)
    BY <2>4 DEF Assured
  <2>. QED
    BY <1>3, <2>4, <2>5 DEF BeatsInv, BeatInv
<1>4. BeatsInv /\ [Next]_vars => [Seen]_vars
  BY <1>3
<1>. QED
  BY <1>1, <1>2, <1>4, PTL DEF Spec, HeartbeatIsSeen

-----------------------------------------------------------------------------
(***************************************************************************)
(* The live lock: whoever is committed has the file the path names, until a   *)
(* lock is broken under one that is.                                        *)
(***************************************************************************)
(* Who is past its last look at the lock holds it. *)
LEMMA CommittedHolds ==
    ASSUME NEW p \in Procs, Committed(p)
    PROVE  Guarded(p) /\ Named(p) /\ Held(p)
  BY DEF Committed, Guarded, Named, Held

(* Every step keeps it so. *)
LEMMA NextLive ==
    ASSUME Types, LiveInv, [Next]_vars
    PROVE  LiveInv'
<1>. SUFFICES ASSUME "broken" \notin harm', NEW p \in Procs, Committed(p)'
              PROVE  fd'[p] = path'
  BY DEF LiveInv
<1>0. "broken" \notin harm
  BY NextHistory
<1>t. StepType /\ LockType /\ FileInv /\ TypeOK
  BY DEF Types, TypeOK
<1>1. Committed(p) => fd[p] = path /\ path # 0
  BY <1>0, <1>t, CommittedHolds DEF LiveInv, FileInv
<1>2. CASE UNCHANGED <<path, pc, fd, try>>
  BY <1>1, <1>2 DEF Committed
<1>3. CASE Still \/ Suspend \/ \E o \in orphans : OrphanLocks(o) \/ OrphanDrops(o)
  BY <1>2, <1>3 DEF Still, Suspend, OrphanLocks, OrphanDrops, lockVars
<1>4. ASSUME NEW r \in Procs, StepOf(r) PROVE fd'[p] = path'
  <2>1. CASE r # p
    <3>1. Committed(p) /\ fd'[p] = fd[p]
      BY <1>4, <1>t, <2>1, OthersKeep DEF Committed
    <3>2. ~Unlinks(r)
      BY <1>1, <3>1 DEF Unlinks
    <3>3. Open(r) => path' = path
      BY <1>1, <3>1 DEF Open
    <3>4. path' = path
      BY <1>4, <3>2, <3>3 DEF StepOf, Forward, Releases, Enters, Takes, Misses, WriteInfo, Judges,
           Waits, WaitTimeout, Confirmed, Heartbeat, Crash, Stop, Resume, Close, lockVars
    <3>. QED
      BY <1>1, <3>1, <3>4
  <2>2. CASE r = p
    <3>1. CASE Heartbeat(r) \/ Stop(r) \/ Resume(r)
      BY <1>2, <3>1 DEF Heartbeat, Stop, Resume, lockVars
    <3>2. CASE Forward(r)
      BY <1>1, <2>2, <3>2 DEF Forward, lockVars
    <3>3. CASE Releases(r) \/ Enters(r) \/ Open(r) \/ Takes(r) \/ Misses(r)
      <4>1. pc'[p] \in {"idle", "open", "late", "flock", "wait", "write", "inspect"}
        BY <1>t, <2>2, <3>3, GotoEffect DEF Releases, Enters, Open, Takes, TakeFlock, Misses
      <4>. QED
        BY <4>1 DEF Committed
    <3>4. CASE WriteInfo(r) \/ Judges(r) \/ Waits(r) \/ Unlinks(r) \/ Crash(r)
      <4>1. pc'[p] \in {"verify", "unlink", "confirm", "open", "idle", "late", "crashed"}
        BY <1>t, <2>2, <3>4, GotoEffect DEF WriteInfo, Judges, Waits, Unlinks, Confirms, Crash
      <4>. QED
        BY <4>1 DEF Committed
    <3>5. CASE WaitTimeout(r) \/ Confirmed(r)
      <4>1. pc'[p] = "open"
        BY <1>t, <2>2, <3>5, PhaseEffect DEF WaitTimeout, Confirmed
      <4>. QED
        BY <4>1 DEF Committed
    <3>. QED
      BY <1>4, <3>1, <3>2, <3>3, <3>4, <3>5 DEF StepOf
  <2>. QED
    BY <2>1, <2>2
<1>. QED
  BY <1>3, <1>4, Shapes DEF StepOf

(* The invariant of the lock holds at first. *)
LEMMA InitLock == Init => LockInv
<1>. SUFFICES ASSUME Init PROVE LockInv
  OBVIOUS
<1>1. \A p \in Procs : ~Committed(p)
  BY DEF Init, Committed
<1>. QED
  BY <1>1, InitBeats DEF LockInv, LiveInv, BeatsInv, Types

(* ... and after every step. *)
LEMMA NextLock ==
    ASSUME TypeOK, LockInv, [Next]_vars
    PROVE  TypeOK' /\ LockInv'
<1>1. Types
  BY DEF Types, LockInv
<1>. QED
  BY <1>1, NextTypes, NextFiles, NextFlocks, NextBeats, NextLive DEF LockInv

(* As long as no lock was broken under an exchange, there is only one. *)
LEMMA OneCommitted ==
    ASSUME TypeOK, LockInv, "broken" \notin harm, NEW p \in Procs, NEW q \in Procs,
           Committed(p), Committed(q)
    PROVE  p = q
<1>1. fd[p] = path /\ fd[q] = path
  BY DEF LockInv, LiveInv
<1>. QED
  BY <1>1, CommittedHolds, HoldersApart DEF LockInv, Types

(* Two processes exchange a token at the same time only after the lock of     *)
(* one that had looked at it for the last time was unlinked, however many     *)
(* processes share auth.json and whichever of them crash, stop, sleep, lose   *)
(* the network or leave a thread behind.                                   *)
THEOREM SpendersAreAlone == Spec => []SpendsAlone
<1>1. Init => TypeOK /\ LockInv
  BY InitTypes, InitLock DEF Types
<1>2. TypeOK /\ LockInv /\ [Next]_vars => TypeOK' /\ LockInv'
  BY NextLock
<1>3. TypeOK /\ LockInv => SpendsAlone
  BY OneCommitted DEF SpendsAlone, Committed
<1>. QED
  BY <1>1, <1>2, <1>3, PTL DEF Spec

-----------------------------------------------------------------------------
(***************************************************************************)
(* Credentials: where they come from.                                      *)
(***************************************************************************)
(* The steps of one process on its credentials or its exchange, and those     *)
(* that leave both alone.                                                  *)
Acts(p) ==
    \/ Start(p) \/ Reload(p) \/ \E r \in {"PreRequest", "ServerRejected"} : Begin(p, r)
    \/ Acquire(p) \/ IdpAnswers(p) \/ Crash(p) \/ Lose(p)
    \/ p \notin stopped /\ Refresh(p)
Rests ==
    /\ UNCHANGED <<pc, disk, mem, verdict, exchVars, harm>>
    /\ expired' = expired \/ (expired < latest /\ expired' = expired + 1)

(* Every step is one or the other. *)
LEMMA ActsOrRests ==
    ASSUME [Next]_vars
    PROVE  Rests \/ \E p \in Procs : Acts(p)
<1>1. ASSUME NEW p \in Procs, Heartbeat(p) \/ WillSleep(p) \/ AckSleep(p) \/ Stop(p) \/ Resume(p)
      PROVE  Rests
  BY <1>1 DEF Heartbeat, WillSleep, AckSleep, Stop, Resume, Rests, credVars, idpVars, history
<1>2. ASSUME NEW o \in orphans, OrphanLocks(o) \/ OrphanDrops(o) PROVE Rests
  BY <1>2 DEF OrphanLocks, OrphanDrops, Rests, credVars, idpVars, history
<1>3. CASE Expire \/ AnnounceSleep \/ CallOff \/ Suspend \/ UNCHANGED vars
  BY <1>3 DEF Expire, AnnounceSleep, CallOff, Suspend, vars, Rests, credVars, idpVars, history
<1>. QED
  BY <1>1, <1>2, <1>3 DEF Next, Acts

(* What a step of p leaves of another process. *)
Kept(q) ==
    /\ pc'[q] = pc[q] /\ mem'[q] = mem[q] /\ verdict'[q] = verdict[q]
    /\ wire'[q] = wire[q] /\ tok'[q] = tok[q]

(* The others keep their part of the refresh. *)
LEMMA ActsKeep ==
    ASSUME Types, NEW p \in Procs, Acts(p)
    PROVE  \A q \in Procs \ {p} : Kept(q)
<1>0. StepType /\ CredType /\ IdpType
  BY DEF Types, TypeOK
<1>. SUFFICES ASSUME NEW q \in Procs \ {p} PROVE Kept(q)
  OBVIOUS
<1>g. ASSUME NEW label, Goto(p, label) PROVE pc'[q] = pc[q]
  BY <1>0, <1>g, GotoEffect
<1>l. Leave(p) => pc'[q] = pc[q] /\ wire'[q] = wire[q] /\ tok'[q] = tok[q]
  BY <1>0, <1>g DEF Leave, IdpType
<1>1. CASE Start(p) \/ Reload(p) \/ \E r \in {"PreRequest", "ServerRejected"} : Begin(p, r)
  BY <1>0, <1>1, <1>g DEF Start, Reload, Begin, Kept, CredType, credVars, idpVars, exchVars
<1>2. CASE Acquire(p)
  <2>1. UNCHANGED <<credVars, wire, tok>>
    BY <1>2 DEF Acquire, Open, TryFlock, BlockingFlock, WriteInfo, Verify, Inspect, Unlink,
         WaitTimeout, Confirmed, idpVars, exchVars
  <2>2. StepOf(p)
    BY <1>2, AcquireShape DEF StepOf
  <2>3. pc'[q] = pc[q]
    BY <2>2, OthersKeep DEF Types
  <2>. QED
    BY <2>1, <2>3 DEF Kept, credVars
<1>3. CASE IdpAnswers(p) \/ Lose(p)
  BY <1>0, <1>3 DEF IdpAnswers, Lose, Kept, IdpType, credVars
<1>4. CASE Crash(p)
  BY <1>4, <1>g DEF Crash, Kept, credVars, exchVars
<1>5. CASE LateLook(p) \/ Adopt(p) \/ Revalidate(p) \/ Claim(p) \/ Gate(p)
  <2>1. mem'[q] = mem[q] /\ verdict'[q] = verdict[q]
    BY <1>0, <1>5 DEF LateLook, Adopt, Revalidate, Claim, Gate, AdoptDisk, CredType, credVars
  <2>2. pc'[q] = pc[q] /\ wire'[q] = wire[q] /\ tok'[q] = tok[q]
    BY <1>5, <1>g, <1>l DEF LateLook, Adopt, Revalidate, Claim, Gate, idpVars, exchVars
  <2>. QED
    BY <2>1, <2>2 DEF Kept
<1>6. CASE Resolve(p) \/ Receive(p) \/ RetryWithDisk(p)
  <2>1. mem'[q] = mem[q] /\ verdict'[q] = verdict[q]
    BY <1>6 DEF Resolve, Receive, RetryWithDisk, credVars
  <2>2. ASSUME NEW g, NEW again, Send(p, g, again) PROVE pc'[q] = pc[q] /\ wire'[q] = wire[q]
    BY <1>0, <1>g, <2>2 DEF Send, IdpType
  <2>3. ASSUME NEW g, Found(p, g) PROVE pc'[q] = pc[q] /\ tok'[q] = tok[q]
    BY <1>0, <1>g, <2>3 DEF Found, IdpType
  <2>4. pc'[q] = pc[q] /\ wire'[q] = wire[q] /\ tok'[q] = tok[q]
    BY <1>6, <1>g, <1>l, <2>2, <2>3 DEF Resolve, Receive, RetryWithDisk
  <2>. QED
    BY <2>1, <2>4 DEF Kept
<1>7. CASE Persist(p) \/ Settle(p) \/ Discard(p)
  <2>1. mem'[q] = mem[q] /\ verdict'[q] = verdict[q]
    BY <1>0, <1>7 DEF Persist, Settle, Discard, AdoptDisk, CredType, credVars
  <2>2. pc'[q] = pc[q] /\ wire'[q] = wire[q] /\ tok'[q] = tok[q]
    BY <1>7, <1>g, <1>l DEF Persist, Settle, Discard
  <2>. QED
    BY <2>1, <2>2 DEF Kept
<1>8. CASE Resend(p)
  BY <1>0, <1>8 DEF Resend, Kept, IdpType, credVars
<1>. QED
  BY <1>1, <1>2, <1>3, <1>4, <1>5, <1>6, <1>7, <1>8 DEF Acts, Refresh

(* What an act of p may do to a credential: copy another one, drop it, or,    *)
(* at the IdP, issue the next one.                                         *)
LEMMA ActsCopy ==
    ASSUME Types, NEW p \in Procs, Acts(p)
    PROVE  /\ disk' \in {disk, tok[p], 0} /\ mem'[p] \in {mem[p], disk, tok[p], 0}
           /\ wire'[p].rt \in {wire[p].rt, disk, mem[p], 0}
           /\ tok'[p] \in {tok[p], disk, latest', 0}
           /\ latest' \in {latest, latest + 1} /\ expired' = expired
           /\ (revoked => revoked') /\ (reused => reused')
<1>0. StepType /\ CredType /\ IdpType
  BY DEF Types, TypeOK
<1>l. Leave(p) => wire'[p] = NoWire /\ wire'[p].rt = 0 /\ tok'[p] = 0
  BY <1>0 DEF Leave, IdpType, NoWire
<1>1. CASE Start(p) \/ Reload(p) \/ \E r \in {"PreRequest", "ServerRejected"} : Begin(p, r)
  BY <1>0, <1>1 DEF Start, Reload, Begin, CredType, credVars, idpVars, exchVars
<1>2. CASE Acquire(p) \/ Crash(p)
  <2>1. UNCHANGED <<credVars, wire, tok, latest, revoked, reused>>
    BY <1>2 DEF Acquire, Open, TryFlock, BlockingFlock, WriteInfo, Verify, Inspect, Unlink,
         WaitTimeout, Confirmed, Crash, idpVars, exchVars
  <2>. QED
    BY <2>1 DEF credVars
<1>3. CASE IdpAnswers(p) \/ Lose(p)
  <2>1. UNCHANGED credVars /\ latest' \in {latest, latest + 1}
    BY <1>3 DEF IdpAnswers, Lose
  <2>2. (revoked => revoked') /\ (reused => reused')
    <3>1. CASE IdpAnswers(p)
      <4>1. /\ revoked' = revoked \/ revoked' = TRUE
            /\ reused' = reused \/ reused' = TRUE
        BY <3>1 DEF IdpAnswers
      <4>2. revoked => revoked'
        BY <4>1
      <4>3. reused => reused'
        BY <4>1
      <4>. QED
        BY <4>1, <4>2, <4>3
    <3>2. CASE Lose(p)
      BY <3>2 DEF Lose
    <3>. QED
      BY <1>3, <3>1, <3>2
  <2>3. wire'[p].rt = wire[p].rt
    <3>1. \E a : wire' = [wire EXCEPT ![p].answer = a]
      BY <1>3 DEF IdpAnswers, Lose
    <3>. QED
      BY <1>0, <3>1 DEF IdpType
  <2>4. tok'[p] \in {tok[p], latest', 0}
    BY <1>0, <1>3 DEF IdpAnswers, Lose, IdpType
  <2>. QED
    BY <2>1, <2>2, <2>3, <2>4 DEF credVars
<1>4. CASE LateLook(p) \/ Adopt(p) \/ Revalidate(p) \/ Claim(p) \/ Gate(p)
  <2>1. disk' = disk /\ expired' = expired /\ mem'[p] \in {mem[p], disk}
    BY <1>0, <1>4 DEF LateLook, Adopt, Revalidate, Claim, Gate, AdoptDisk, CredType, credVars
  <2>2. wire'[p].rt \in {wire[p].rt, 0} /\ tok'[p] \in {tok[p], 0}
    BY <1>4, <1>l DEF LateLook, Adopt, Revalidate, Claim, Gate, idpVars, exchVars
  <2>3. UNCHANGED <<latest, revoked, reused>>
    BY <1>4 DEF LateLook, Adopt, Revalidate, Claim, Gate, idpVars, exchVars
  <2>. QED
    BY <2>1, <2>2, <2>3
<1>5. CASE Resolve(p) \/ Receive(p) \/ RetryWithDisk(p)
  <2>1. UNCHANGED <<disk, expired, mem, latest, revoked, reused>>
    BY <1>5 DEF Resolve, Receive, RetryWithDisk, credVars
  <2>2. ASSUME NEW g, NEW again, Send(p, g, again) PROVE wire'[p].rt = g
    BY <1>0, <2>2 DEF Send, IdpType
  <2>3. ASSUME NEW g, Found(p, g) PROVE tok'[p] = g
    BY <1>0, <2>3 DEF Found, IdpType
  <2>4. wire'[p].rt \in {wire[p].rt, disk, mem[p], 0} /\ tok'[p] \in {tok[p], disk, 0}
    BY <1>5, <1>l, <2>2, <2>3 DEF Resolve, Receive, RetryWithDisk, Credential
  <2>. QED
    BY <2>1, <2>4
<1>6. CASE Persist(p) \/ Settle(p) \/ Discard(p)
  <2>1. disk' \in {disk, tok[p], 0} /\ mem'[p] \in {mem[p], disk, tok[p], 0} /\ expired' = expired
    BY <1>0, <1>6 DEF Persist, Settle, Discard, AdoptDisk, CredType, credVars
  <2>2. wire'[p].rt \in {wire[p].rt, 0} /\ tok'[p] \in {tok[p], 0}
    BY <1>6, <1>l DEF Persist, Settle, Discard
  <2>3. UNCHANGED <<latest, revoked, reused>>
    BY <1>6 DEF Persist, Settle, Discard
  <2>. QED
    BY <2>1, <2>2, <2>3
<1>7. CASE Resend(p)
  <2>1. UNCHANGED <<disk, expired, mem, tok, latest, revoked, reused>>
    BY <1>7 DEF Resend, credVars
  <2>2. wire'[p].rt = wire[p].rt
    BY <1>0, <1>7 DEF Resend, IdpType
  <2>. QED
    BY <2>1, <2>2
<1>. QED
  BY <1>1, <1>2, <1>3, <1>4, <1>5, <1>6, <1>7 DEF Acts, Refresh

(* No step makes a credential that the IdP has not issued. *)
LEMMA NextGen ==
    ASSUME Types, GenInv, [Next]_vars
    PROVE  GenInv'
<1>0. /\ disk \in Nat /\ latest \in Nat /\ expired \in Nat
      /\ \A q \in Procs : mem[q] \in Nat /\ tok[q] \in Nat /\ wire[q].rt \in Nat
  BY Constants DEF Types, TypeOK, CredType, IdpType
<1>1. CASE Rests
  BY <1>0, <1>1 DEF Rests, GenInv, exchVars
<1>2. ASSUME NEW p \in Procs, Acts(p) PROVE GenInv'
  <2>1. latest' \in {latest, latest + 1}
    BY <1>2, ActsCopy
  <2>2. disk' <= latest' /\ expired' <= latest'
    BY <1>0, <1>2, <2>1, ActsCopy DEF GenInv
  <2>3. mem'[p] <= latest' /\ wire'[p].rt <= latest'
    BY <1>0, <1>2, <2>1, ActsCopy DEF GenInv
  <2>4. tok'[p] <= latest'
    BY <1>0, <1>2, <2>1, ActsCopy DEF GenInv
  <2>5. ASSUME NEW q \in Procs \ {p}
        PROVE  mem'[q] <= latest' /\ tok'[q] <= latest' /\ wire'[q].rt <= latest'
    BY <1>0, <1>2, <2>1, ActsKeep DEF GenInv, Kept
  <2>. QED
    BY <2>2, <2>3, <2>4, <2>5 DEF GenInv
<1>. QED
  BY <1>1, <1>2, ActsOrRests

(* What has been rejected once stays rejected. *)
LEMMA DeadStays ==
    ASSUME Types, [Next]_vars, NEW g \in Nat, Dead(g)
    PROVE  g < latest' \/ revoked'
<1>0. latest \in Nat
  BY Constants DEF Types, TypeOK, IdpType
<1>1. latest' \in {latest, latest + 1} /\ (revoked => revoked')
  BY ActsOrRests, ActsCopy DEF Rests, exchVars
<1>. QED
  BY <1>0, <1>1 DEF Dead

(* Where the steps of an acquisition begin and end. *)
LEMMA AcquireMoves ==
    ASSUME Types, NEW p \in Procs, Acquire(p)
    PROVE  /\ pc[p] \in {"open", "flock", "wait", "write", "verify", "inspect", "unlink", "confirm"}
           /\ pc'[p] \in {"open", "flock", "wait", "write", "verify", "inspect", "unlink", "confirm",
                          "adopt", "late", "idle"}
<1>0. StepType
  BY DEF Types, TypeOK
<1>1. pc[p] \in {"open", "flock", "wait", "write", "verify", "inspect", "unlink", "confirm"}
  BY DEF Acquire, Open, TryFlock, BlockingFlock, WriteInfo, Verify, Inspect, Unlink,
       WaitTimeout, Confirmed
<1>2. \E label \in {"open", "flock", "wait", "write", "verify", "inspect", "unlink", "confirm",
                    "adopt", "late", "idle"} : Goto(p, label)
  <2>1. CASE Open(p) \/ TryFlock(p) \/ BlockingFlock(p) \/ WriteInfo(p)
    BY <2>1 DEF Open, TryFlock, BlockingFlock, WriteInfo, TakeFlock
  <2>2. CASE Verify(p)
    BY <1>0, <2>2, StaleShape DEF Verify
  <2>3. CASE Inspect(p)
    BY <1>0, <2>3, BusyShape DEF Inspect
  <2>4. CASE Unlink(p)
    BY <1>0, <2>4, BusyShape, StaleShape DEF Unlink
  <2>5. CASE WaitTimeout(p) \/ Confirmed(p)
    BY <2>5 DEF WaitTimeout, Confirmed, Continue
  <2>. QED
    BY <2>1, <2>2, <2>3, <2>4, <2>5 DEF Acquire
<1>. QED
  BY <1>0, <1>1, <1>2, GotoEffect

(* A process that leaves has no exchange and no successor any more. *)
LEMMA LeaveEffect ==
    ASSUME Types, NEW p \in Procs, Leave(p)
    PROVE  pc'[p] = "idle" /\ wire'[p].answer = "none" /\ wire'[p].rt = 0 /\ tok'[p] = 0
<1>0. StepType /\ IdpType
  BY DEF Types, TypeOK
<1>1. pc'[p] = "idle"
  BY <1>0, GotoEffect DEF Leave
<1>. QED
  BY <1>0, <1>1 DEF Leave, IdpType, NoWire

(* An act of p keeps what its exchange means. *)
LEMMA WireStep ==
    ASSUME Types, GenInv, WireInv, [Next]_vars, NEW p \in Procs, Acts(p)
    PROVE  WireOf(p)'
<1>0. StepType /\ CredType /\ IdpType /\ WireOf(p)
  BY DEF Types, TypeOK, WireInv
<1>t. wire[p].rt \in Nat /\ verdict[p] \in Nat /\ latest \in Nat /\ wire[p].rt <= latest
  BY <1>0, Constants DEF CredType, IdpType, GenInv
<1>v. verdict[p] # 0 => verdict[p] < latest' \/ revoked'
  BY <1>0, <1>t, DeadStays DEF WireOf
<1>w. Dead(wire[p].rt) => wire[p].rt < latest' \/ revoked'
  BY <1>t, DeadStays
<1>r. reused => reused'
  BY ActsCopy
<1>g. ASSUME NEW label, Goto(p, label) PROVE pc'[p] = label
  BY <1>0, <1>g, GotoEffect
<1>i. ASSUME wire'[p].answer \notin {"pending", "tokens"},
             wire'[p] = wire[p] \/ wire'[p].answer # "invalid_grant",
             pc'[p] \notin {"rejected", "settle", "discard", "persist", "off"},
             verdict'[p] \in {verdict[p], wire[p].rt, 0},
             verdict'[p] = wire[p].rt => Dead(wire[p].rt) \/ verdict'[p] \in {verdict[p], 0}
      PROVE  WireOf(p)'
  BY <1>0, <1>i, <1>r, <1>v, <1>w DEF WireOf, Dead
<1>l. ASSUME Leave(p), verdict'[p] \in {verdict[p], 0}
             \/ (verdict'[p] = wire[p].rt /\ Dead(wire[p].rt))
      PROVE  WireOf(p)'
  <2>1. pc'[p] = "idle" /\ wire'[p].answer = "none"
    BY <1>l, LeaveEffect
  <2>. QED
    BY <1>i, <1>l, <2>1
<1>1. CASE Start(p) \/ \E r \in {"PreRequest", "ServerRejected"} : Begin(p, r)
  <2>1. /\ pc[p] \in {"off", "idle"} /\ pc'[p] \in {"idle", "open"}
        /\ wire' = wire /\ verdict' = verdict
    BY <1>1, <1>g DEF Start, Begin, credVars, idpVars, exchVars
  <2>. QED
    BY <1>0, <1>i, <2>1 DEF WireOf
<1>2. CASE Reload(p)
  <2>1. /\ pc' = pc /\ pc[p] # "off" /\ verdict'[p] \in {verdict[p], 0}
        /\ UNCHANGED <<wire, tok, latest, revoked, reused>>
    BY <1>0, <1>2 DEF Reload, Running, CredType, idpVars, exchVars
  <2>. QED
    BY <1>0, <2>1 DEF WireOf, Dead
<1>3. CASE Acquire(p)
  <2>1. UNCHANGED <<credVars, wire, tok>>
    BY <1>3 DEF Acquire, Open, TryFlock, BlockingFlock, WriteInfo, Verify, Inspect, Unlink,
         WaitTimeout, Confirmed, idpVars, exchVars
  <2>. QED
    BY <1>0, <1>3, <1>i, <2>1, AcquireMoves DEF WireOf, credVars
<1>4. CASE IdpAnswers(p)
  <2>1. pc' = pc /\ verdict' = verdict /\ mem' = mem /\ pc[p] \in {"sent", "crashed"}
    BY <1>0, <1>4 DEF IdpAnswers, credVars, WireOf
  <2>2. CASE wire[p].rt = latest /\ ~revoked
    <3>1. wire'[p].answer = "tokens" /\ tok'[p] = latest + 1 /\ latest + 1 # 0
      BY <1>0, <1>4, <1>t, <2>2 DEF IdpAnswers, IdpType
    <3>. QED
      BY <1>v, <2>1, <3>1 DEF WireOf, Dead
  <2>3. CASE ~(wire[p].rt = latest /\ ~revoked)
    <3>1. wire'[p].answer = "invalid_grant" /\ wire'[p].rt = wire[p].rt /\ reused'
      BY <1>0, <1>4, <2>3 DEF IdpAnswers, IdpType
    <3>2. Dead(wire[p].rt)
      BY <1>t, <2>3 DEF Dead
    <3>. QED
      BY <1>v, <1>w, <2>1, <3>1, <3>2 DEF WireOf, Dead
  <2>. QED
    BY <2>2, <2>3
<1>5. CASE Crash(p)
  <2>1. pc'[p] = "crashed" /\ UNCHANGED <<credVars, wire, tok, latest, revoked, reused>>
    BY <1>5, <1>g DEF Crash, exchVars
  <2>. QED
    BY <1>0, <2>1 DEF WireOf, Dead, credVars
<1>6. CASE Lose(p)
  <2>1. pc'[p] = "sent" /\ verdict' = verdict /\ wire'[p].answer = "failed"
    BY <1>0, <1>6 DEF Lose, credVars, IdpType
  <2>. QED
    BY <1>i, <2>1
<1>7. CASE LateLook(p)
  <2>1. Leave(p) /\ verdict'[p] \in {verdict[p], 0}
    BY <1>0, <1>7 DEF LateLook, AdoptDisk, CredType, credVars
  <2>. QED
    BY <1>l, <2>1
<1>8. CASE Adopt(p) \/ Revalidate(p) \/ Claim(p) \/ Gate(p)
  <2>1. verdict'[p] \in {verdict[p], 0}
    BY <1>0, <1>8 DEF Adopt, Revalidate, Claim, Gate, AdoptDisk, CredType, credVars
  <2>2. CASE ~Leave(p)
    <3>1. /\ pc[p] \in {"adopt", "revalidate", "claim", "gate"} /\ wire' = wire
          /\ pc'[p] \in {"claim", "revalidate", "open", "gate", "resolve"}
      BY <1>8, <1>g, <2>2 DEF Adopt, Revalidate, Claim, Gate, idpVars, exchVars
    <3>2. wire[p].answer \notin {"pending", "tokens"}
      BY <1>0, <3>1 DEF WireOf
    <3>3. verdict' = verdict
      BY <1>8, <2>2 DEF Adopt, Revalidate, Claim, Gate, credVars
    <3>. QED
      BY <1>i, <3>1, <3>2, <3>3
  <2>. QED
    BY <1>l, <2>1, <2>2
<1>9. CASE Resolve(p) \/ RetryWithDisk(p)
  <2>1. verdict' = verdict /\ mem' = mem /\ pc[p] \in {"resolve", "rejected"}
    BY <1>9 DEF Resolve, RetryWithDisk, credVars
  <2>2. wire[p].answer \notin {"pending", "tokens"}
    BY <1>0, <2>1 DEF WireOf
  <2>3. ASSUME NEW g, NEW again, Send(p, g, again) PROVE WireOf(p)'
    <3>1. pc'[p] = "sent" /\ wire'[p].answer = "pending"
      BY <1>0, <1>g, <2>3 DEF Send, IdpType
    <3>. QED
      BY <1>v, <2>1, <3>1 DEF WireOf, Dead
  <2>4. ASSUME Found(p, disk), disk # 0, wire' = wire PROVE WireOf(p)'
    <3>1. pc'[p] = "persist" /\ tok'[p] = disk
      BY <1>0, <1>g, <2>4 DEF Found, IdpType
    <3>. QED
      BY <1>0, <1>r, <1>v, <1>w, <2>1, <2>2, <2>4, <3>1 DEF WireOf, Dead
  <2>5. ASSUME pc[p] = "rejected", Goto(p, "settle"), wire' = wire PROVE WireOf(p)'
    <3>1. pc'[p] = "settle" /\ wire[p].answer = "invalid_grant"
      BY <1>0, <1>g, <2>5 DEF WireOf
    <3>. QED
      BY <1>0, <1>r, <1>v, <1>w, <2>1, <2>5, <3>1 DEF WireOf, Dead
  <2>6. CASE Resolve(p)
    BY <1>l, <2>1, <2>3, <2>4, <2>6 DEF Resolve
  <2>7. CASE RetryWithDisk(p)
    BY <2>3, <2>4, <2>5, <2>7 DEF RetryWithDisk
  <2>. QED
    BY <1>9, <2>6, <2>7
<1>10. CASE Receive(p)
  <2>1. verdict' = verdict /\ mem' = mem
    BY <1>10 DEF Receive, credVars
  <2>2. CASE wire[p].answer = "failed" /\ Leave(p)
    BY <1>l, <2>1, <2>2
  <2>3. CASE wire[p].answer = "tokens" /\ Goto(p, "persist") /\ UNCHANGED <<wire, tok>>
    <3>1. pc'[p] = "persist"
      BY <1>g, <2>3
    <3>. QED
      BY <1>0, <1>v, <2>1, <2>3, <3>1 DEF WireOf, Dead
  <2>4. CASE /\ wire[p].answer = "invalid_grant" /\ UNCHANGED <<wire, tok>>
             /\ Goto(p, IF wire[p].again THEN "settle" ELSE "rejected")
    <3>1. pc'[p] \in {"settle", "rejected"}
      BY <1>g, <2>4
    <3>. QED
      BY <1>0, <1>r, <1>v, <1>w, <2>1, <2>4, <3>1 DEF WireOf, Dead
  <2>. QED
    BY <1>10, <2>2, <2>3, <2>4 DEF Receive
<1>11. CASE Persist(p) \/ Discard(p)
  <2>1. Leave(p) /\ verdict'[p] \in {verdict[p], 0}
    BY <1>0, <1>11 DEF Persist, Discard, CredType
  <2>. QED
    BY <1>l, <2>1
<1>12. CASE Settle(p)
  <2>1. Dead(wire[p].rt) /\ wire[p].answer = "invalid_grant" /\ reused
    BY <1>0, <1>12 DEF Settle, WireOf
  <2>2. CASE Leave(p)
    <3>1. verdict'[p] \in {verdict[p], 0, wire[p].rt}
      BY <1>0, <1>12 DEF Settle, AdoptDisk, CredType, credVars
    <3>. QED
      BY <1>l, <2>1, <2>2, <3>1
  <2>3. CASE ~Leave(p)
    <3>1. pc'[p] = "discard" /\ verdict'[p] = wire[p].rt /\ UNCHANGED <<wire, tok, mem>>
      BY <1>0, <1>12, <1>g, <2>3 DEF Settle, CredType
    <3>. QED
      BY <1>r, <1>w, <2>1, <3>1 DEF WireOf, Dead
  <2>. QED
    BY <2>2, <2>3
<1>13. CASE Resend(p)
  <2>1. /\ pc'[p] = "sent" /\ UNCHANGED <<verdict, latest, revoked>>
        /\ wire'[p].answer = "pending"
    BY <1>0, <1>13 DEF Resend, credVars, IdpType
  <2>. QED
    BY <1>v, <2>1 DEF WireOf, Dead
<1>. QED
  BY <1>1, <1>2, <1>3, <1>4, <1>5, <1>6, <1>7, <1>8, <1>9, <1>10, <1>11, <1>12, <1>13
  DEF Acts, Refresh

(* Every step keeps what the exchanges mean. *)
LEMMA NextWire ==
    ASSUME Types, GenInv, WireInv, [Next]_vars
    PROVE  WireInv'
<1>1. CASE Rests
  BY <1>1 DEF Rests, WireInv, WireOf, Dead, exchVars
<1>2. ASSUME NEW p \in Procs, Acts(p) PROVE WireInv'
  <2>1. WireOf(p)'
    BY <1>2, WireStep
  <2>2. ASSUME NEW q \in Procs \ {p} PROVE WireOf(q)'
    <3>1. Kept(q) /\ WireOf(q) /\ (reused => reused')
      BY <1>2, ActsKeep, ActsCopy DEF WireInv
    <3>2. wire[q].rt \in Nat /\ verdict[q] \in Nat
      BY Constants DEF Types, TypeOK, IdpType, CredType
    <3>3. /\ Dead(wire[q].rt) => wire[q].rt < latest' \/ revoked'
          /\ Dead(verdict[q]) => verdict[q] < latest' \/ revoked'
      BY <3>2, DeadStays
    <3>. QED
      BY <3>1, <3>3 DEF WireOf, Kept, Dead
  <2>. QED
    BY <2>1, <2>2 DEF WireInv
<1>. QED
  BY <1>1, <1>2, ActsOrRests

-----------------------------------------------------------------------------
(***************************************************************************)
(* What is in whose hands, as long as no lock was broken under an exchange.   *)
(***************************************************************************)
(* Only who is past its last look at the lock writes auth.json. *)
LEMMA DiskWriter ==
    ASSUME NEW p \in Procs, Acts(p), disk' # disk
    PROVE  Committed(p) /\ (Persist(p) \/ Discard(p))
<1>1. Acquire(p) => disk' = disk
  BY DEF Acquire, Open, TryFlock, BlockingFlock, WriteInfo, Verify, Inspect, Unlink,
       WaitTimeout, Confirmed, credVars
<1>2. Refresh(p) => disk' = disk \/ Persist(p) \/ Discard(p)
  BY DEF Refresh, LateLook, Adopt, Revalidate, Claim, Gate, Resolve, Receive, Resend,
       RetryWithDisk, Settle, AdoptDisk, credVars
<1>3. Start(p) \/ Reload(p) \/ IdpAnswers(p) \/ Crash(p) \/ Lose(p) => disk' = disk
  BY DEF Start, Reload, IdpAnswers, Crash, Lose, credVars
<1>4. (\E r \in {"PreRequest", "ServerRejected"} : Begin(p, r)) => disk' = disk
  BY DEF Begin, credVars
<1>5. Persist(p) \/ Discard(p)
  BY <1>1, <1>2, <1>3, <1>4 DEF Acts
<1>. QED
  BY <1>5 DEF Persist, Discard, Committed

(* Only who is past its last look at the lock sends a token, and only an      *)
(* answer of the IdP moves the credential it accepts.                       *)
LEMMA Sender ==
    ASSUME Types, WireInv, NEW p \in Procs, Acts(p)
    PROVE  /\ IdpAnswers(p) \/ latest' = latest
           /\ wire'[p].answer = "pending" =>
                  Committed(p) \/ (wire[p].answer = "pending" /\ wire'[p].rt = wire[p].rt)
           /\ wire'[p].answer = "tokens" =>
                  IdpAnswers(p) \/ (wire[p].answer = "tokens" /\ tok'[p] = tok[p])
<1>0. StepType /\ CredType /\ IdpType
  BY DEF Types, TypeOK
<1>l. Leave(p) => wire'[p].answer = "none"
  BY LeaveEffect
<1>1. CASE Start(p) \/ Reload(p) \/ \E r \in {"PreRequest", "ServerRejected"} : Begin(p, r)
  BY <1>1 DEF Start, Reload, Begin, idpVars, exchVars
<1>2. CASE Acquire(p) \/ Crash(p)
  BY <1>2 DEF Acquire, Open, TryFlock, BlockingFlock, WriteInfo, Verify, Inspect, Unlink,
       WaitTimeout, Confirmed, Crash, idpVars, exchVars
<1>3. CASE IdpAnswers(p)
  <2>1. wire'[p].answer \in {"tokens", "invalid_grant"}
    BY <1>0, <1>3 DEF IdpAnswers, IdpType
  <2>. QED
    BY <1>3, <2>1
<1>4. CASE Lose(p)
  <2>1. wire'[p].answer = "failed" /\ latest' = latest
    BY <1>0, <1>4 DEF Lose, IdpType
  <2>. QED
    BY <2>1
<1>5. CASE LateLook(p) \/ Adopt(p) \/ Revalidate(p) \/ Claim(p) \/ Gate(p)
  BY <1>5, <1>l DEF LateLook, Adopt, Revalidate, Claim, Gate, idpVars, exchVars
<1>6. CASE Resolve(p) \/ RetryWithDisk(p)
  <2>1. Committed(p) /\ latest' = latest
    BY <1>6 DEF Resolve, RetryWithDisk, Committed
  <2>2. ASSUME NEW g, NEW again, Send(p, g, again) PROVE wire'[p].answer = "pending"
    BY <1>0, <2>2 DEF Send, IdpType
  <2>3. wire'[p].answer = "tokens" => wire' = wire
    BY <1>6, <1>l, <2>2 DEF Resolve, RetryWithDisk
  <2>4. wire[p].answer # "tokens"
    BY <1>6 DEF Resolve, RetryWithDisk, WireInv, WireOf
  <2>. QED
    BY <2>1, <2>3, <2>4
<1>7. CASE Receive(p)
  BY <1>7, <1>l DEF Receive
<1>8. CASE Resend(p)
  <2>1. Committed(p) /\ latest' = latest /\ wire'[p].answer = "pending"
    BY <1>0, <1>8 DEF Resend, Committed, IdpType
  <2>. QED
    BY <2>1
<1>9. CASE Persist(p) \/ Settle(p) \/ Discard(p)
  BY <1>9, <1>l DEF Persist, Settle, Discard
<1>. QED
  BY <1>1, <1>2, <1>3, <1>4, <1>5, <1>6, <1>7, <1>8, <1>9 DEF Acts, Refresh

(* Whoever has a successor in its hands, or decides what becomes of its        *)
(* exchange, is past its last look at the lock.                            *)
LEMMA HandsCommitted ==
    ASSUME WireInv, NEW q \in Procs
    PROVE  /\ Bereft(q) /\ pc[q] # "crashed" => Committed(q)
           /\ pc[q] \in {"sent", "rejected", "settle", "discard", "persist"} => Committed(q)
  BY DEF WireInv, WireOf, Committed, Bereft

(* An act of p keeps what its own hands hold. *)
LEMMA HandStep ==
    ASSUME Types, GenInv, WireInv, [Next]_vars, NEW p \in Procs, Acts(p), HandOf(p)
    PROVE  HandOf(p)'
<1>t. StepType /\ CredType /\ IdpType /\ WireOf(p)
  BY DEF Types, TypeOK, WireInv
<1>g. ASSUME NEW label, Goto(p, label) PROVE pc'[p] = label
  BY <1>t, <1>g, GotoEffect
<1>k. \A q \in Procs \ {p} : wire'[q] = wire[q]
  BY ActsKeep DEF Kept
<1>a. /\ wire'[p].answer = "tokens" /\ pc'[p] # "crashed" => tok'[p] = latest'
      /\ wire'[p].answer = "tokens" /\ pc'[p] # "crashed" =>
             \A q \in Procs : wire'[q].answer = "pending" => wire'[q].rt < latest'
  <2>. SUFFICES ASSUME wire'[p].answer = "tokens", pc'[p] # "crashed"
                PROVE  /\ tok'[p] = latest'
                       /\ \A q \in Procs : wire'[q].answer = "pending" => wire'[q].rt < latest'
    OBVIOUS
  <2>1. CASE IdpAnswers(p)
    <3>1. tok'[p] = latest' /\ latest' = latest + 1
      BY <1>t, <2>1 DEF IdpAnswers, IdpType
    <3>2. \A q \in Procs : wire[q].rt \in Nat /\ wire[q].rt <= latest /\ latest \in Nat
      BY <1>t, Constants DEF GenInv, IdpType
    <3>3. ASSUME NEW q \in Procs, wire'[q].answer = "pending" PROVE wire'[q].rt < latest'
      BY <1>k, <3>1, <3>2, <3>3
    <3>. QED
      BY <3>1, <3>3
  <2>2. CASE ~IdpAnswers(p)
    <3>1. wire[p].answer = "tokens" /\ tok'[p] = tok[p] /\ latest' = latest
      BY <2>2, Sender
    <3>2. pc[p] # "crashed"
      <4>. SUFFICES ASSUME pc[p] = "crashed" PROVE FALSE
        OBVIOUS
      <4>1. ~Acquire(p)
        BY AcquireMoves
      <4>. QED
        BY <2>2, <4>1 DEF Acts, Start, Reload, Running, Begin, Crash, Lose, Refresh, LateLook, Adopt,
             Revalidate, Claim, Gate, Resolve, Receive, Resend, RetryWithDisk, Persist, Settle, Discard
    <3>. QED
      BY <1>k, <3>1, <3>2 DEF HandOf
  <2>. QED
    BY <2>1, <2>2
<1>h. ASSUME /\ pc'[p] = "persist" /\ wire'[p].answer # "tokens" => tok'[p] = disk'
             /\ pc'[p] = "discard" => disk' = wire'[p].rt
             /\ pc'[p] \in {"sent", "rejected", "settle"} /\ disk' = 0 => mem'[p] \in {0, wire'[p].rt}
      PROVE  HandOf(p)'
  BY <1>a, <1>h DEF HandOf
<1>n. ASSUME pc'[p] \notin {"sent", "rejected", "settle", "discard", "persist"} PROVE HandOf(p)'
  BY <1>h, <1>n
<1>l. Leave(p) => HandOf(p)'
  BY <1>n, LeaveEffect
<1>1. CASE Start(p) \/ (\E r \in {"PreRequest", "ServerRejected"} : Begin(p, r)) \/ Crash(p)
  BY <1>1, <1>g, <1>n DEF Start, Begin, Crash
<1>2. CASE Acquire(p)
  BY <1>2, <1>n, AcquireMoves
<1>3. CASE Reload(p)
  <2>1. UNCHANGED <<pc, disk, wire, tok>> /\ (disk = 0 => mem'[p] = 0)
    BY <1>3, <1>t DEF Reload, idpVars, exchVars, CredType
  <2>. QED
    BY <1>h, <2>1 DEF HandOf
<1>4. CASE IdpAnswers(p) \/ Lose(p) \/ Resend(p)
  <2>1. /\ UNCHANGED <<pc, disk, mem>> /\ pc[p] \in {"sent", "crashed"}
    BY <1>4, <1>t DEF IdpAnswers, Lose, Resend, credVars, WireOf
  <2>2. wire'[p].rt = wire[p].rt
    BY <1>4, <1>t DEF IdpAnswers, Lose, Resend, IdpType
  <2>. QED
    BY <1>h, <2>1, <2>2 DEF HandOf
<1>5. CASE LateLook(p) \/ Adopt(p) \/ Revalidate(p) \/ Claim(p) \/ Gate(p)
  BY <1>5, <1>g, <1>l, <1>n DEF LateLook, Adopt, Revalidate, Claim, Gate
<1>f. ASSUME Found(p, disk), UNCHANGED disk PROVE HandOf(p)'
  <2>1. pc'[p] = "persist" /\ tok'[p] = disk
    BY <1>f, <1>g, <1>t DEF Found, IdpType
  <2>. QED
    BY <1>f, <1>h, <2>1
<1>6. CASE Resolve(p)
  <2>1. UNCHANGED <<disk, mem>>
    BY <1>6 DEF Resolve, credVars
  <2>2. CASE Send(p, Credential(p), FALSE)
    <3>1. pc'[p] = "sent" /\ wire'[p].rt = Credential(p)
      BY <1>g, <1>t, <2>2 DEF Send, IdpType
    <3>2. disk = 0 => Credential(p) \in {0, mem[p]}
      BY DEF Credential
    <3>3. Credential(p) # 0 => HandOf(p)'
      BY <1>h, <2>1, <3>1, <3>2
    <3>. QED
      BY <1>6, <1>f, <1>l, <2>1, <3>3 DEF Resolve
  <2>. QED
    BY <1>6, <1>f, <1>l, <2>1, <2>2 DEF Resolve
<1>7. CASE Receive(p)
  <2>0. UNCHANGED <<disk, mem>> /\ pc[p] = "sent"
    BY <1>7 DEF Receive, credVars
  <2>1. CASE wire[p].answer = "tokens" /\ Goto(p, "persist") /\ UNCHANGED wire
    <3>1. pc'[p] = "persist"
      BY <1>g, <2>1
    <3>. QED
      BY <1>h, <2>1, <3>1
  <2>2. CASE /\ Goto(p, IF wire[p].again THEN "settle" ELSE "rejected") /\ UNCHANGED wire
    <3>1. pc'[p] \in {"settle", "rejected"}
      BY <1>g, <2>2
    <3>. QED
      BY <1>h, <2>0, <2>2, <3>1 DEF HandOf
  <2>. QED
    BY <1>7, <1>l, <2>1, <2>2 DEF Receive
<1>8. CASE RetryWithDisk(p)
  <2>1. UNCHANGED <<disk, mem>> /\ pc[p] = "rejected"
    BY <1>8 DEF RetryWithDisk, credVars
  <2>2. CASE Goto(p, "settle") /\ UNCHANGED wire
    <3>1. pc'[p] = "settle"
      BY <1>g, <2>2
    <3>. QED
      BY <1>h, <2>1, <2>2, <3>1 DEF HandOf
  <2>3. CASE disk # 0 /\ Send(p, disk, TRUE)
    <3>1. pc'[p] = "sent"
      BY <1>g, <2>3 DEF Send
    <3>. QED
      BY <1>h, <2>1, <2>3, <3>1
  <2>. QED
    BY <1>8, <1>f, <2>1, <2>2, <2>3 DEF RetryWithDisk
<1>9. CASE Settle(p)
  <2>1. CASE ~Leave(p)
    <3>1. /\ pc'[p] = "discard" /\ ~Superseded(p) /\ disk # 0
          /\ UNCHANGED <<disk, wire>>
      BY <1>9, <1>g, <2>1 DEF Settle
    <3>. QED
      BY <1>h, <3>1 DEF Superseded
  <2>. QED
    BY <1>l, <2>1
<1>10. CASE Persist(p) \/ Discard(p)
  BY <1>10, <1>l DEF Persist, Discard
<1>. QED
  BY <1>1, <1>2, <1>3, <1>4, <1>5, <1>6, <1>7, <1>8, <1>9, <1>10 DEF Acts, Refresh

(* An act of p leaves alone what is in the hands of another process that is   *)
(* past its last look at the lock.                                         *)
LEMMA HandOther ==
    ASSUME Types, GenInv, WireInv, [Next]_vars, NEW p \in Procs, Acts(p), ~Committed(p),
           NEW q \in Procs \ {p}, HandOf(q)
    PROVE  HandOf(q)'
<1>1. disk' = disk
  BY DiskWriter
<1>2. Kept(q) /\ \A r \in Procs \ {p} : wire'[r] = wire[r]
  BY ActsKeep DEF Kept
<1>3. ASSUME wire[q].answer = "tokens", pc[q] # "crashed"
      PROVE  /\ tok'[q] = latest'
             /\ \A r \in Procs : wire'[r].answer = "pending" => wire'[r].rt < latest'
  <2>1. wire[p].answer = "pending" => wire[p].rt < latest
    BY <1>3 DEF HandOf
  <2>2. latest' = latest
    <3>1. IdpAnswers(p) => wire[p].answer = "pending" /\ wire[p].rt # latest
      <4>1. wire[p].rt \in Nat /\ latest \in Nat
        BY Constants DEF Types, TypeOK, IdpType
      <4>. QED
        BY <2>1, <4>1 DEF IdpAnswers
    <3>2. IdpAnswers(p) => latest' = latest
      BY <3>1 DEF IdpAnswers
    <3>. QED
      BY <3>2, Sender
  <2>3. wire'[p].answer = "pending" => wire[p].answer = "pending" /\ wire'[p].rt = wire[p].rt
    BY Sender
  <2>. QED
    BY <1>2, <1>3, <2>1, <2>2, <2>3 DEF HandOf, Kept
<1>. QED
  BY <1>1, <1>2, <1>3 DEF HandOf, Kept

(* Every step keeps what is in whose hands. *)
LEMMA NextHand ==
    ASSUME TypeOK, LockInv, GenInv, WireInv, HandInv, [Next]_vars
    PROVE  HandInv'
<1>. SUFFICES ASSUME "broken" \notin harm', NEW q \in Procs PROVE HandOf(q)'
  BY DEF HandInv
<1>0. "broken" \notin harm /\ HandOf(q) /\ Types
  BY NextHistory DEF HandInv, Types, LockInv
<1>1. CASE Rests
  BY <1>0, <1>1 DEF Rests, HandOf, exchVars
<1>2. ASSUME NEW p \in Procs, Acts(p) PROVE HandOf(q)'
  <2>1. CASE p = q
    BY <1>0, <1>2, <2>1, HandStep
  <2>2. CASE p # q /\ ~Committed(p)
    BY <1>0, <1>2, <2>2, HandOther
  <2>3. CASE p # q /\ Committed(p)
    <3>1. ~Committed(q)
      BY <1>0, <2>3, OneCommitted
    <3>2. pc[q] \notin {"sent", "rejected", "settle", "discard", "persist"}
      BY <3>1, HandsCommitted
    <3>3. wire[q].answer = "tokens" => pc[q] = "crashed"
      BY <3>1, HandsCommitted DEF Bereft
    <3>4. Kept(q)
      BY <1>0, <1>2, <2>3, ActsKeep
    <3>. QED
      BY <3>2, <3>3, <3>4 DEF HandOf, Kept
  <2>. QED
    BY <2>1, <2>2, <2>3
<1>. QED
  BY <1>0, <1>1, <1>2, ActsOrRests

-----------------------------------------------------------------------------
(***************************************************************************)
(* The chain of refresh tokens, as long as nothing went wrong.               *)
(***************************************************************************)
(* The exchange of q is as it was, or is over without a successor. *)
SameWire(q) == pc'[q] = pc[q] /\ wire'[q] = wire[q] /\ tok'[q] = tok[q]
NoWireNow(q) ==
    /\ wire[q].answer # "tokens" /\ wire'[q].answer \notin {"pending", "tokens"}
    /\ pc'[q] = "sent" /\ wire'[q].answer = "failed" => wire'[q].rt = latest'

(* A step that makes no successor and stores none. *)
LEMMA ChainQuiet ==
    ASSUME ChainInv, harm = {}, UNCHANGED <<disk, latest, revoked, reused>>,
           \A q \in Procs : SameWire(q) \/ NoWireNow(q)
    PROVE  ChainInv'
<1>1. ASSUME NEW q \in Procs PROVE ChainOf(q)'
  BY DEF ChainInv, ChainOf, SameWire, NoWireNow, Bereft
<1>2. disk' = latest' \/ \E q \in Procs : wire'[q].answer = "tokens"
  BY DEF ChainInv, SameWire, NoWireNow
<1>. QED
  BY <1>1, <1>2 DEF ChainInv

(* A step of the one that is past its last look at the lock: nobody else has  *)
(* a successor, now or then.                                               *)
LEMMA ChainAlone ==
    ASSUME TypeOK, LockInv, WireInv, ChainInv, harm = {}, NEW p \in Procs, Committed(p),
           \A q \in Procs \ {p} : SameWire(q)
    PROVE  /\ \A q \in Procs \ {p} : ChainOf(q)' /\ wire[q].answer # "tokens"
           /\ disk # 0 /\ (wire[p].answer # "tokens" => disk = latest)
<1>1. ASSUME NEW q \in Procs \ {p} PROVE ~Bereft(q) /\ pc[q] # "sent"
  <2>1. ~Committed(q)
    BY OneCommitted
  <2>. QED
    BY <2>1, HandsCommitted DEF ChainInv, ChainOf
<1>2. ASSUME NEW q \in Procs \ {p} PROVE ChainOf(q)'
  BY <1>1 DEF ChainOf, Bereft, SameWire
<1>. QED
  BY <1>1, <1>2 DEF ChainInv, Bereft

(* An act of p keeps the chain. *)
LEMMA ChainStep ==
    ASSUME TypeOK, LockInv, GenInv, WireInv, ChainInv, HandInv, [Next]_vars,
           NEW p \in Procs, Acts(p)
    PROVE  ChainInv'
<1>. SUFFICES ASSUME harm' = {} PROVE ChainInv'
  BY DEF ChainInv
<1>t. Types /\ StepType /\ CredType /\ IdpType
  BY DEF Types, TypeOK, LockInv
<1>0. harm = {} /\ ~reused /\ ~revoked /\ disk # 0 /\ ChainOf(p) /\ WireOf(p) /\ HandOf(p)
  BY NextHistory DEF ChainInv, WireInv, HandInv
<1>k. \A q \in Procs \ {p} : SameWire(q)
  BY <1>t, ActsKeep DEF Kept, SameWire
<1>q. ASSUME UNCHANGED <<disk, latest, revoked, reused>>, SameWire(p) \/ NoWireNow(p)
      PROVE  ChainInv'
  BY <1>0, <1>k, <1>q, ChainQuiet
<1>a. ASSUME Committed(p), ChainOf(p)', ~reused', ~revoked', disk' # 0,
             disk' = latest' \/ wire'[p].answer = "tokens"
      PROVE  ChainInv'
  <2>1. \A q \in Procs : ChainOf(q)'
    BY <1>0, <1>a, <1>k, ChainAlone
  <2>. QED
    BY <1>a, <2>1 DEF ChainInv
<1>g. ASSUME NEW label, Goto(p, label) PROVE pc'[p] = label
  BY <1>t, <1>g, GotoEffect
<1>n. pc[p] \notin {"sent", "persist", "crashed"} => wire[p].answer \notin {"pending", "tokens"}
  BY <1>0 DEF WireOf
<1>l. Leave(p) /\ wire[p].answer # "tokens" => NoWireNow(p)
  BY <1>t, LeaveEffect DEF NoWireNow
<1>1. CASE Start(p) \/ \E r \in {"PreRequest", "ServerRejected"} : Begin(p, r)
  <2>1. /\ pc[p] \in {"off", "idle"} /\ pc'[p] \in {"idle", "open"} /\ wire' = wire
        /\ UNCHANGED <<disk, latest, revoked, reused>>
    BY <1>1, <1>g DEF Start, Begin, credVars, idpVars, exchVars
  <2>. QED
    BY <1>n, <1>q, <2>1 DEF NoWireNow
<1>2. CASE Reload(p)
  BY <1>2, <1>q DEF Reload, SameWire, idpVars, exchVars
<1>3. CASE Acquire(p)
  <2>1. UNCHANGED <<credVars, wire, tok, latest, revoked, reused>>
    BY <1>3 DEF Acquire, Open, TryFlock, BlockingFlock, WriteInfo, Verify, Inspect, Unlink,
         WaitTimeout, Confirmed, idpVars, exchVars
  <2>2. NoWireNow(p)
    BY <1>3, <1>n, <1>t, <2>1, AcquireMoves DEF NoWireNow
  <2>. QED
    BY <1>q, <2>1, <2>2 DEF credVars
<1>4. CASE IdpAnswers(p)
  <2>1. wire[p].answer = "pending" /\ wire[p].rt = latest /\ pc[p] # "crashed"
    BY <1>0, <1>4 DEF IdpAnswers, ChainOf, Bereft
  <2>2. /\ latest' = latest + 1 /\ tok'[p] = latest + 1 /\ wire'[p].answer = "tokens"
        /\ UNCHANGED <<pc, disk, revoked, reused>>
    BY <1>0, <1>4, <1>t, <2>1 DEF IdpAnswers, IdpType, credVars
  <2>3. Committed(p)
    BY <2>1, HandsCommitted DEF Bereft
  <2>4. ChainOf(p)'
    BY <2>1, <2>2 DEF ChainOf
  <2>. QED
    BY <1>0, <1>a, <2>2, <2>3, <2>4
<1>5. CASE Crash(p)
  <2>1. pc'[p] = "crashed" /\ UNCHANGED <<credVars, wire, tok, latest, revoked, reused>>
    BY <1>5, <1>g DEF Crash, exchVars
  <2>2. ~Bereft(p)
    BY <1>5 DEF Crash
  <2>. QED
    BY <1>q, <2>1, <2>2 DEF NoWireNow, Bereft, credVars
<1>6. CASE Lose(p)
  <2>1. UNCHANGED <<disk, latest, revoked, reused>> /\ wire[p].answer # "tokens"
    BY <1>6 DEF Lose, credVars
  <2>2. wire[p].answer = "pending"
    BY <1>0, <1>6, <2>1 DEF Lose, WireOf
  <2>3. wire'[p].answer = "failed" /\ wire'[p].rt = wire[p].rt
    BY <1>6, <1>t DEF Lose, IdpType
  <2>4. wire'[p].rt = latest'
    BY <1>0, <2>1, <2>2, <2>3 DEF ChainOf
  <2>. QED
    BY <1>q, <2>1, <2>3, <2>4 DEF NoWireNow
<1>7. CASE LateLook(p) \/ Adopt(p) \/ Revalidate(p) \/ Claim(p) \/ Gate(p)
  <2>1. UNCHANGED <<disk, latest, revoked, reused>>
    BY <1>7 DEF LateLook, Adopt, Revalidate, Claim, Gate, AdoptDisk, credVars, idpVars, exchVars
  <2>2. pc[p] \in {"late", "adopt", "revalidate", "claim", "gate"}
    BY <1>7 DEF LateLook, Adopt, Revalidate, Claim, Gate
  <2>3. CASE ~Leave(p)
    <3>1. wire' = wire /\ pc'[p] \in {"claim", "revalidate", "open", "gate", "resolve"}
      BY <1>7, <1>g, <2>3 DEF LateLook, Adopt, Revalidate, Claim, Gate, idpVars, exchVars
    <3>. QED
      BY <1>n, <1>q, <2>1, <2>2, <3>1 DEF NoWireNow
  <2>. QED
    BY <1>l, <1>n, <1>q, <2>1, <2>2, <2>3
<1>8. CASE Resolve(p)
  <2>1. /\ Committed(p) /\ UNCHANGED <<disk, latest, revoked, reused>>
        /\ wire[p].answer \notin {"pending", "tokens"}
    BY <1>8, <1>n DEF Resolve, credVars, Committed
  <2>3. disk = latest
    BY <1>0, <1>k, <2>1, ChainAlone
  <2>4. CASE Leave(p)
    BY <1>l, <1>q, <2>1, <2>4
  <2>5. CASE Send(p, disk, FALSE)
    <3>1. wire'[p].answer = "pending" /\ wire'[p].rt = disk /\ pc'[p] = "sent"
      BY <1>g, <1>t, <2>5 DEF Send, IdpType
    <3>2. ChainOf(p)'
      BY <2>1, <2>3, <3>1 DEF ChainOf
    <3>. QED
      BY <1>0, <1>a, <2>1, <2>3, <3>2
  <2>6. CASE Found(p, disk) /\ UNCHANGED wire
    <3>1. tok'[p] = disk /\ pc'[p] = "persist"
      BY <1>g, <1>t, <2>6 DEF Found, IdpType
    <3>2. ChainOf(p)'
      BY <2>1, <2>6, <3>1 DEF ChainOf, Bereft
    <3>. QED
      BY <1>0, <1>a, <2>1, <2>3, <3>2
  <2>. QED
    BY <1>0, <1>8, <2>4, <2>5, <2>6 DEF Resolve, Credential
<1>9. CASE Receive(p)
  <2>1. UNCHANGED <<disk, latest, revoked, reused>> /\ pc[p] = "sent"
    BY <1>9 DEF Receive, credVars
  <2>2. CASE wire[p].answer = "failed" /\ Leave(p)
    BY <1>l, <1>q, <2>1, <2>2
  <2>3. CASE wire[p].answer = "tokens" /\ Goto(p, "persist") /\ UNCHANGED <<wire, tok>>
    <3>1. Committed(p) /\ pc'[p] = "persist" /\ tok[p] = latest
      BY <1>0, <1>g, <2>1, <2>3 DEF Committed, ChainOf
    <3>3. ChainOf(p)'
      BY <2>1, <2>3, <3>1 DEF ChainOf
    <3>. QED
      BY <1>0, <1>a, <2>1, <2>3, <3>1, <3>3
  <2>4. wire[p].answer # "invalid_grant"
    BY <1>0 DEF WireOf
  <2>. QED
    BY <1>9, <2>2, <2>3, <2>4 DEF Receive
<1>10. CASE RetryWithDisk(p) \/ Settle(p) \/ Discard(p)
  <2>1. pc[p] \in {"rejected", "settle", "discard"}
    BY <1>10 DEF RetryWithDisk, Settle, Discard
  <2>. QED
    BY <1>0, <2>1 DEF WireOf
<1>11. CASE Persist(p)
  <2>1. /\ pc[p] = "persist" /\ Committed(p) /\ Leave(p) /\ UNCHANGED <<latest, revoked, reused>>
        /\ disk' = tok[p]
    BY <1>11 DEF Persist, Committed
  <2>2. tok[p] = IF wire[p].answer = "tokens" THEN latest ELSE disk
    BY <1>0, <2>1 DEF HandOf
  <2>3. disk' = latest /\ disk' # 0
    BY <1>0, <1>k, <2>1, <2>2, ChainAlone DEF WireOf
  <2>4. ChainOf(p)'
    BY <1>t, <2>1, LeaveEffect DEF ChainOf, Bereft
  <2>. QED
    BY <1>0, <1>a, <2>1, <2>3, <2>4
<1>12. CASE Resend(p)
  <2>1. /\ pc[p] = "sent" /\ wire[p].answer = "failed" /\ Committed(p)
        /\ UNCHANGED <<pc, disk, latest, revoked, reused>>
    BY <1>12 DEF Resend, credVars, Committed
  <2>2. wire'[p].answer = "pending" /\ wire'[p].rt = wire[p].rt
    BY <1>12, <1>t DEF Resend, IdpType
  <2>3. disk = latest
    BY <1>0, <1>k, <2>1, ChainAlone
  <2>4. ChainOf(p)'
    BY <1>0, <2>1, <2>2 DEF ChainOf
  <2>. QED
    BY <1>0, <1>a, <2>1, <2>3, <2>4
<1>. QED
  BY <1>1, <1>2, <1>3, <1>4, <1>5, <1>6, <1>7, <1>8, <1>9, <1>10, <1>11, <1>12 DEF Acts, Refresh

(* Every step keeps the chain. *)
LEMMA NextChain ==
    ASSUME TypeOK, LockInv, GenInv, WireInv, ChainInv, HandInv, [Next]_vars
    PROVE  ChainInv'
<1>1. CASE Rests
  <2>. SUFFICES ASSUME harm' = {} PROVE ChainInv'
    BY DEF ChainInv
  <2>1. /\ harm = {} /\ UNCHANGED <<disk, latest, revoked, reused>>
        /\ \A q \in Procs : SameWire(q)
    BY <1>1 DEF Rests, SameWire, exchVars
  <2>. QED
    BY <2>1, ChainQuiet
<1>. QED
  BY <1>1, ChainStep, ActsOrRests

(* What a step makes of the memory of a process: what is on disk, nothing,    *)
(* or the successor that could not be written.                              *)
LEMMA MemStep ==
    ASSUME Types, NEW p \in Procs, Acts(p), mem'[p] # mem[p]
    PROVE  mem'[p] \in {disk', 0} \/ "unsaved" \in harm'
<1>0. CredType
  BY DEF Types, TypeOK
<1>1. CASE Acquire(p)
  BY <1>1 DEF Acquire, Open, TryFlock, BlockingFlock, WriteInfo, Verify, Inspect, Unlink,
       WaitTimeout, Confirmed, credVars
<1>2. CASE IdpAnswers(p) \/ Crash(p) \/ Lose(p) \/ \E r \in {"PreRequest", "ServerRejected"} : Begin(p, r)
  BY <1>2 DEF IdpAnswers, Crash, Lose, Begin, credVars
<1>3. CASE Start(p) \/ Reload(p)
  BY <1>0, <1>3 DEF Start, Reload, CredType
<1>4. CASE LateLook(p) \/ Adopt(p) \/ Settle(p) \/ Discard(p)
  BY <1>0, <1>4 DEF LateLook, Adopt, Settle, Discard, AdoptDisk, CredType, credVars
<1>5. CASE Revalidate(p) \/ Claim(p) \/ Gate(p) \/ Resolve(p) \/ Receive(p) \/ Resend(p)
           \/ RetryWithDisk(p)
  BY <1>5 DEF Revalidate, Claim, Gate, Resolve, Receive, Resend, RetryWithDisk, credVars
<1>6. CASE Persist(p)
  BY <1>0, <1>6 DEF Persist, CredType
<1>. QED
  BY <1>1, <1>2, <1>3, <1>4, <1>5, <1>6 DEF Acts, Refresh

(* As long as no lock was broken under an exchange, what is written over an    *)
(* accepted credential is the same one.                                    *)
LEMMA AcceptedStays ==
    ASSUME TypeOK, LockInv, GenInv, WireInv, HandInv, "broken" \notin harm, [Next]_vars,
           Accepted(disk)
    PROVE  disk' = disk
<1>. SUFFICES ASSUME NEW p \in Procs, Acts(p), disk' # disk PROVE FALSE
  BY ActsOrRests DEF Rests
<1>1. WireOf(p) /\ HandOf(p) /\ latest \in Nat
  BY Constants DEF WireInv, HandInv, TypeOK, IdpType
<1>2. CASE Discard(p)
  <2>1. disk = wire[p].rt /\ Dead(wire[p].rt)
    BY <1>1, <1>2 DEF Discard, WireOf, HandOf
  <2>. QED
    BY <1>1, <2>1 DEF Accepted, Dead
<1>3. CASE Persist(p)
  <2>1. disk' \in {disk, tok[p]} /\ pc[p] = "persist"
    BY <1>3 DEF Persist
  <2>. QED
    BY <1>1, <2>1 DEF HandOf, Accepted
<1>. QED
  BY <1>2, <1>3, DiskWriter

(* Every step keeps what memory says of auth.json. *)
LEMMA NextMem ==
    ASSUME TypeOK, LockInv, GenInv, WireInv, HandInv, MemInv, [Next]_vars
    PROVE  MemInv'
<1>. SUFFICES ASSUME harm' \cap {"broken", "unsaved"} = {}, NEW q \in Procs, Accepted(mem[q])'
              PROVE  disk' = mem'[q]
  BY DEF MemInv
<1>0. /\ harm \cap {"broken", "unsaved"} = {} /\ "broken" \notin harm /\ "unsaved" \notin harm'
      /\ Types /\ latest \in Nat /\ mem[q] \in Nat
  BY NextHistory, Constants DEF Types, TypeOK, LockInv, IdpType, CredType
<1>1. mem'[q] # 0 /\ mem'[q] = latest' /\ ~revoked'
  BY DEF Accepted
<1>2. CASE mem'[q] = mem[q]
  <2>1. latest' = latest /\ ~revoked
    BY <1>0, <1>1, <1>2, ActsOrRests, ActsCopy DEF Rests, exchVars, GenInv
  <2>2. Accepted(mem[q])
    BY <1>1, <1>2, <2>1 DEF Accepted
  <2>3. disk = mem[q]
    BY <1>0, <2>2 DEF MemInv
  <2>4. disk' = disk
    BY <1>0, <2>2, <2>3, AcceptedStays
  <2>. QED
    BY <1>2, <2>3, <2>4
<1>3. CASE mem'[q] # mem[q]
  <2>1. PICK p \in Procs : Acts(p)
    BY <1>3, ActsOrRests DEF Rests
  <2>2. p = q
    BY <1>0, <1>3, <2>1, ActsKeep DEF Kept
  <2>. QED
    BY <1>0, <1>1, <1>3, <2>1, <2>2, MemStep
<1>. QED
  BY <1>2, <1>3

(* The inductive invariant holds at first ... *)
LEMMA InitInv == Init => IndInv
<1>. SUFFICES ASSUME Init PROVE IndInv
  OBVIOUS
<1>1. TypeOK /\ LockInv
  BY InitTypes, InitLock DEF Types
<1>2. \A p \in Procs : /\ pc[p] = "off" /\ mem[p] = 0 /\ tok[p] = 0 /\ verdict[p] = 0
                       /\ wire[p].rt = 0 /\ wire[p].answer = "none"
  BY DEF Init, NoWire
<1>3. GenInv
  BY <1>2 DEF Init, GenInv
<1>4. WireInv
  BY <1>2 DEF WireInv, WireOf
<1>5. ChainInv
  BY <1>2 DEF Init, ChainInv, ChainOf, Bereft
<1>6. HandInv /\ MemInv
  BY <1>2 DEF HandInv, HandOf, MemInv, Accepted
<1>. QED
  BY <1>1, <1>3, <1>4, <1>5, <1>6 DEF IndInv

(* ... and after every step. *)
LEMMA NextInv ==
    ASSUME IndInv, [Next]_vars
    PROVE  IndInv'
<1>1. Types
  BY DEF IndInv, Types, LockInv
<1>. QED
  BY <1>1, NextLock, NextGen, NextWire, NextHand, NextChain, NextMem DEF IndInv

(* The IdP sees a refresh token that it has rotated before only after an       *)
(* answer did not arrive, a write of auth.json failed or the lock of an        *)
(* exchange was broken: reuse, and with it the revocation of the session, is   *)
(* never the work of two processes that merely refresh at the same time.      *)
THEOREM ReuseNeedsHarm == Spec => []ReuseOnlyAfterHarm
<1>1. IndInv /\ [Next]_vars => IndInv'
  BY NextInv
<1>2. IndInv => ReuseOnlyAfterHarm
  BY DEF IndInv, ChainInv, ReuseOnlyAfterHarm
<1>. QED
  BY <1>1, <1>2, InitInv, PTL DEF Spec

(* What a step may do to an accepted credential in memory. *)
LEMMA MemReplaced ==
    ASSUME IndInv, [Next]_vars, "broken" \notin harm, NEW p \in Procs,
           Accepted(mem[p]), mem'[p] # mem[p]
    PROVE  "unsaved" \in harm /\ mem'[p] = disk /\ (disk = 0 => OtherScopes)
<1>0. /\ Types /\ StepType /\ CredType /\ WireOf(p) /\ HandOf(p) /\ MemInv
      /\ latest \in Nat
  BY Constants DEF IndInv, LockInv, Types, TypeOK, IdpType, WireInv, HandInv
<1>1. mem[p] # 0 /\ mem[p] = latest /\ ~Dead(mem[p])
  BY <1>0 DEF Accepted, Dead
<1>2. disk # mem[p] => "unsaved" \in harm
  BY <1>0 DEF MemInv
<1>3. Acts(p)
  <2>1. ~Rests
    BY DEF Rests
  <2>. QED
    BY <1>0, <2>1, ActsOrRests, ActsKeep DEF Kept
<1>4. CASE Start(p)
  BY <1>0, <1>1, <1>4 DEF Start, WireOf
<1>5. CASE Reload(p)
  <2>1. CASE disk # 0 /\ mem' = [mem EXCEPT ![p] = disk]
    BY <1>0, <1>2, <2>1 DEF CredType
  <2>2. CASE /\ disk = 0 /\ mem' = [mem EXCEPT ![p] = 0]
             /\ OtherScopes \/ mem[p] = 0 \/ Barred(p)
    <3>1. ~Barred(p)
      BY <1>0, <1>1, <2>2 DEF Barred, AttemptedKey, WireOf
    <3>. QED
      BY <1>0, <1>1, <1>2, <2>2, <3>1 DEF CredType
  <2>. QED
    BY <1>5, <2>1, <2>2 DEF Reload
<1>a. ASSUME Adoptable(p), AdoptDisk(p)
      PROVE  "unsaved" \in harm /\ mem'[p] = disk /\ (disk = 0 => OtherScopes)
  BY <1>0, <1>2, <1>a DEF Adoptable, AdoptDisk, CredType
<1>6. CASE LateLook(p) \/ Adopt(p)
  BY <1>6, <1>a DEF LateLook, Adopt, credVars
<1>7. CASE Settle(p)
  <2>1. disk = 0 => Dead(wire[p].rt) /\ mem[p] \in {0, wire[p].rt}
    BY <1>0, <1>7 DEF Settle, WireOf, HandOf
  <2>. QED
    BY <1>1, <1>7, <1>a, <2>1 DEF Settle, credVars
<1>8. CASE Discard(p)
  <2>1. Dead(wire[p].rt)
    BY <1>0, <1>8 DEF Discard, WireOf
  <2>. QED
    BY <1>0, <1>1, <1>8, <2>1 DEF Discard, ClearMem, CredType
<1>9. CASE Persist(p)
  <2>1. pc[p] = "persist" /\ mem'[p] = tok[p] /\ tok[p] # 0
    BY <1>0, <1>9 DEF Persist, CredType, WireOf
  <2>2. tok[p] \in {latest, disk}
    BY <1>0, <2>1 DEF HandOf
  <2>. QED
    BY <1>1, <1>2, <2>1, <2>2
<1>10. CASE Acquire(p)
  BY <1>10 DEF Acquire, Open, TryFlock, BlockingFlock, WriteInfo, Verify, Inspect, Unlink,
       WaitTimeout, Confirmed, credVars
<1>11. CASE IdpAnswers(p) \/ Crash(p) \/ Lose(p) \/ \E r \in {"PreRequest", "ServerRejected"} : Begin(p, r)
  BY <1>11 DEF IdpAnswers, Crash, Lose, Begin, credVars
<1>12. CASE Revalidate(p) \/ Claim(p) \/ Gate(p) \/ Resolve(p) \/ Receive(p) \/ Resend(p)
           \/ RetryWithDisk(p)
  BY <1>12 DEF Revalidate, Claim, Gate, Resolve, Receive, Resend, RetryWithDisk, credVars
<1>. QED
  BY <1>3, <1>4, <1>5, <1>6, <1>7, <1>8, <1>9, <1>10, <1>11, <1>12 DEF Acts, Refresh

(* As long as no lock was broken under an exchange, no step takes away a      *)
(* credential that the IdP still accepts: auth.json keeps it, and memory      *)
(* loses it only when auth.json never got it, to what is there instead.       *)
THEOREM AcceptedIsKept == Spec => AcceptedKept
<1>1. IndInv /\ [Next]_vars => IndInv'
  BY NextInv
<1>2. ASSUME IndInv, [Next]_vars
      PROVE  /\ Accepted(disk) /\ disk' # disk => "broken" \in harm
             /\ \A p \in Procs : Accepted(mem[p]) /\ mem'[p] # mem[p] =>
                    \/ "broken" \in harm
                    \/ "unsaved" \in harm /\ mem'[p] = disk /\ (disk = 0 => OtherScopes)
  BY <1>2, AcceptedStays, MemReplaced DEF IndInv
<1>. QED
  BY <1>1, <1>2, InitInv, PTL DEF Spec, AcceptedKept
=============================================================================
