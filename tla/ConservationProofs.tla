------------------------- MODULE ConservationProofs -------------------------
(***************************************************************************)
(* No message of a client is lost, doubled or kept after its answer, for   *)
(* every number of prompts, wakes, notifications and starters: the proof   *)
(* of Conserved.                                                           *)
(***************************************************************************)
EXTENDS SessionQueueProofs

(* The loop has prompts in its hands between the two halves of a cancel    *)
(* only, and interjections only while it puts them back into the queue.    *)
HandsInv ==
    /\ cx.victims # {} => pc["loop"] = "cancelEnd"
    /\ cx.late # <<>> => pc["loop"] = "requeue"

ConserveInv == Conserved /\ HandsInv

(* What the loop has in its hands, and the interjection buffer, stay.      *)
SameHands ==
    /\ interj' = interj
    /\ cx'.victims = cx.victims
    /\ cx'.late = cx.late

(* Conserved by its parts, with the interjections told apart by the place  *)
(* they are in.                                                            *)
QueueConserved ==
    /\ IsInjective(q)
    /\ Queued \cap cx.victims = {}
    /\ \A i \in Ids : fate[i] = "pending" <=> i \in Queued \cup cx.victims
BufferConserved ==
    /\ IsInjective(interj) /\ IsInjective(cx.late)
    /\ ToSet(interj) \cap ToSet(cx.late) = {}
    /\ \A i \in Interjections :
           fate[i] = "buffered" <=> i \in ToSet(interj) \cup ToSet(cx.late)

(* The parts are what Conserved says. *)
LEMMA ConservedParts ==
    TypeOK => (Conserved <=> QueueConserved /\ BufferConserved)
<1>. SUFFICES ASSUME TypeOK PROVE Conserved <=> QueueConserved /\ BufferConserved
  OBVIOUS
<1>1. interj \in Seq(Interjections) /\ cx.late \in Seq(Interjections)
  BY DEF TypeOK, SendType, LoopType, CxType
<1>. DEFINE a == interj
            b == cx.late
<1>. HIDE DEF a, b
<1>2. IsInjective(a \o b) <=> /\ IsInjective(a) /\ IsInjective(b)
                              /\ ToSet(a) \cap ToSet(b) = {}
  BY <1>1, ConcatDistinct DEF a, b
<1>3. IsInjective(interj \o cx.late)
          <=> /\ IsInjective(interj) /\ IsInjective(cx.late)
              /\ ToSet(interj) \cap ToSet(cx.late) = {}
  BY <1>2 DEF a, b
<1>. QED
  BY <1>3 DEF Conserved, QueueConserved, BufferConserved

(* The same, after a step. *)
LEMMA ConservedPartsNext ==
    ASSUME TypeOK'
    PROVE  QueueConserved' /\ BufferConserved' => Conserved'
<1>1. (TypeOK => (Conserved <=> QueueConserved /\ BufferConserved))'
  BY ConservedParts, PTL
<1>. QED
  BY <1>1

(* The interjections are prompts of their own once they are queued. *)
LEMMA InterjectionsAreIds == Interjections \subseteq Ids /\ Prompts \subseteq Ids
BY DEF Ids, UserMessages

(* A step that takes R out of the queue, each with an answer, and adds the *)
(* new messages A, and leaves the loop's hands alone, loses nothing.       *)
LEMMA QueueEdit ==
    ASSUME IndInv, Conserved, TypeOK',
           NEW R \in SUBSET Queued, NEW A \in SUBSET Ids,
           \A a \in A : fate[a] = "new",
           IsInjective(q'), ToSet(q') = (Queued \ R) \cup A,
           \A i \in A : fate'[i] = "pending",
           \A i \in R \ A : fate'[i] \notin {"pending", "buffered"},
           \A i \in Ids \ (A \cup R) : fate'[i] = fate[i],
           SameHands
    PROVE  Conserved'
<1>1. QueueConserved /\ BufferConserved
  BY ConservedParts DEF IndInv
<1>2. R \cap cx.victims = {} /\ A \cap (Queued \cup cx.victims) = {}
  BY <1>1 DEF QueueConserved
<1>3. \A i \in A \cup R : fate[i] # "buffered"
  <2>1. R \subseteq Ids
    BY QueueFacts
  <2>. QED
    BY <1>1, <2>1 DEF QueueConserved
<1>4. QueueConserved'
  <2>1. \A i \in Ids : fate'[i] = "pending" <=> i \in ToSet(q') \cup cx.victims
    <3>. TAKE i \in Ids
    <3>0. fate[i] = "pending" <=> i \in Queued \cup cx.victims
      BY <1>1 DEF QueueConserved
    <3>1. CASE i \in A
      BY <3>1
    <3>2. CASE i \in R \ A
      BY <1>2, <3>2
    <3>3. CASE i \notin A \cup R
      BY <3>0, <3>3
    <3>. QED
      BY <3>1, <3>2, <3>3
  <2>2. ToSet(q') \cap cx.victims = {}
    BY <1>1, <1>2 DEF QueueConserved
  <2>. QED
    BY <2>1, <2>2 DEF QueueConserved, SameHands, Queued
<1>5. BufferConserved'
  <2>1. \A i \in Interjections : fate'[i] = "buffered" <=> fate[i] = "buffered"
    BY <1>3, InterjectionsAreIds
  <2>. QED
    BY <1>1, <2>1 DEF BufferConserved, SameHands
<1>. QED
  BY <1>4, <1>5, ConservedPartsNext

(* A step that leaves the queue, the hands and every fate alone.           *)
LEMMA QueueSame ==
    ASSUME IndInv, Conserved, TypeOK', UNCHANGED <<q, fate>>, SameHands
    PROVE  Conserved'
<1>1. IsInjective(q) /\ Queued \subseteq Ids
  BY QueueFacts DEF Conserved
<1>. DEFINE none == {}
<1>2. /\ none \in SUBSET Queued /\ none \in SUBSET Ids
      /\ IsInjective(q') /\ ToSet(q') = (Queued \ none) \cup none
      /\ \A i \in none : FALSE
      /\ \A i \in Ids \ (none \cup none) : fate'[i] = fate[i]
  BY <1>1 DEF Queued
<1>. HIDE DEF none
<1>. QED
  BY <1>2, QueueEdit

(* The loop starts a handler with empty hands. *)
LEMMA HandleHands ==
    ASSUME IndInv, HandsInv, pc["loop"] \in {"idle", "drain"},
           NEW where, NEW after, Handle(where, after), interj' = interj
    PROVE  SameHands /\ HandsInv'
<1>1. cx.victims = {} /\ cx.late = <<>>
  BY DEF HandsInv
<1>2. cx' = [NoCx EXCEPT !.after = after]
  BY DEF Handle
<1>3. cx'.victims = {} /\ cx'.late = <<>>
  BY <1>2 DEF NoCx
<1>. QED
  BY <1>1, <1>3 DEF SameHands, HandsInv

(* A step of another task, or one of the loop with empty hands, that does  *)
(* not touch them.                                                         *)
LEMMA KeepHands ==
    ASSUME HandsInv, UNCHANGED cx,
           \/ pc'["loop"] = pc["loop"]
           \/ pc["loop"] \notin {"cancelEnd", "requeue"}
    PROVE  HandsInv'
BY DEF HandsInv

(* Resolve, element by element. *)
LEMMA ResolveIs ==
    ASSUME IndInv, NEW S, NEW f, fate' = Resolve(S, f)
    PROVE  \A i \in Ids : fate'[i] = IF i \in S THEN f ELSE fate[i]
BY DEF IndInv, TypeOK, EndType, Resolve

(* Of a queue that repeats nothing, what is left after Retain. *)
LEMMA RetainQueue ==
    ASSUME IndInv, IsInjective(q), NEW R \in SUBSET Queued, NEW T,
           \A i \in Queued : i \in T <=> i \notin R
    PROVE  /\ IsInjective(Retain(q, T))
           /\ ToSet(Retain(q, T)) = Queued \ R
<1>1. q \in Seq(Ids)
  BY QueueFacts
<1>2. ToSet(Retain(q, T)) = ToSet(q) \cap T
  BY <1>1, RetainType
<1>. QED
  BY <1>1, <1>2, RetainDistinct DEF Queued

(* Prompts are taken out of the queue and answered. *)
LEMMA QueueTake ==
    ASSUME IndInv, Conserved, TypeOK', NEW R \in SUBSET Queued,
           NEW f \in Fates \ {"pending", "buffered"},
           IsInjective(q'), ToSet(q') = Queued \ R,
           fate' = Resolve(R, f), SameHands
    PROVE  Conserved'
<1>. DEFINE none == {}
<1>1. /\ none \in SUBSET Ids /\ ToSet(q') = (Queued \ R) \cup none
      /\ \A i \in none : FALSE
      /\ R \subseteq Ids
  BY QueueFacts
<1>2. \A i \in Ids : fate'[i] = IF i \in R THEN f ELSE fate[i]
  BY ResolveIs
<1>. HIDE DEF none
<1>3. /\ \A i \in R \ none : fate'[i] \notin {"pending", "buffered"}
      /\ \A i \in Ids \ (none \cup R) : fate'[i] = fate[i]
  BY <1>1, <1>2
<1>. QED
  BY <1>1, <1>3, QueueEdit

(* A new message is put into the queue. *)
LEMMA QueueAdd ==
    ASSUME IndInv, Conserved, TypeOK', NEW i \in Ids, fate[i] = "new",
           IsInjective(q'), ToSet(q') = Queued \cup {i},
           fate' = Resolve({i}, "pending"), SameHands
    PROVE  Conserved'
<1>. DEFINE none == {}
            A == {i}
<1>1. /\ none \in SUBSET Queued /\ ToSet(q') = (Queued \ none) \cup A
      /\ \A k \in none \ A : FALSE
      /\ A \in SUBSET Ids /\ \A a \in A : fate[a] = "new"
  OBVIOUS
<1>2. \A k \in Ids : fate'[k] = IF k \in A THEN "pending" ELSE fate[k]
  BY ResolveIs
<1>. HIDE DEF none, A
<1>3. /\ \A k \in A : fate'[k] = "pending"
      /\ \A k \in Ids \ (A \cup none) : fate'[k] = fate[k]
  BY <1>1, <1>2
<1>. QED
  BY <1>1, <1>3, QueueEdit

(* A new message at the end of the queue. *)
LEMMA QueueAppend ==
    ASSUME IndInv, Conserved, TypeOK', NEW i \in Ids, fate[i] = "new",
           q' = Append(q, i), fate' = Resolve({i}, "pending"), SameHands
    PROVE  Conserved'
<1>1. q \in Seq(Ids) /\ IsInjective(q) /\ i \notin Queued
  BY QueueFacts DEF Conserved
<1>2. IsInjective(q') /\ ToSet(q') = Queued \cup {i}
  BY <1>1, AppendDistinct DEF Queued
<1>. QED
  BY <1>2, QueueAdd

-----------------------------------------------------------------------------
(* A reorder request names no prompt twice. *)
LEMMA OrderDistinct ==
    ASSUME NEW order \in SetToAllKPermutations(Prompts)
    PROVE  IsInjective(order)
<1>1. PICK S \in SUBSET Prompts : order \in SetToSeqs(S)
  BY DEF SetToAllKPermutations
<1>2. /\ order \in [1..Cardinality(S) -> S]
      /\ \A i, j \in 1..Cardinality(S) : i # j => order[i] # order[j]
  BY <1>1 DEF SetToSeqs
<1>. QED
  BY <1>2 DEF IsInjective

(* Edits of the queue by clients. *)
LEMMA EditConserves ==
    ASSUME IndInv, ConserveInv, IndInv'
    PROVE  /\ \A i \in Prompts : RemoveQueued(i) => ConserveInv'
           /\ \A order \in SetToAllKPermutations(Prompts) : Reorder(order) => ConserveInv'
           /\ \A owner : ClearQueue(owner) => ConserveInv'
           /\ \A i \in Prompts : HoldCombineEdit(i) => ConserveInv'
           /\ \A i \in Prompts : ReleaseCombineEdit(i) => ConserveInv'
<1>0. TypeOK' /\ Conserved /\ HandsInv /\ IsInjective(q) /\ q \in Seq(Ids)
  BY QueueFacts DEF IndInv, ConserveInv, Conserved
<1>1. ASSUME NEW i \in Prompts, RemoveQueued(i) PROVE ConserveInv'
  <2>1. /\ i \in Queued /\ q' = Retain(q, Ids \ {i}) /\ fate' = Resolve({i}, "removed")
        /\ UNCHANGED <<pc, cx, interj>>
    BY <1>1 DEF RemoveQueued, sendVars
  <2>2. {i} \in SUBSET Queued /\ \A k \in Queued : k \in Ids \ {i} <=> k \notin {i}
    BY <2>1, QueueFacts
  <2>3. IsInjective(q') /\ ToSet(q') = Queued \ {i}
    BY <1>0, <2>1, <2>2, RetainQueue
  <2>4. SameHands /\ HandsInv'
    BY <1>0, <2>1, KeepHands DEF SameHands
  <2>. QED
    BY <1>0, <2>1, <2>2, <2>3, <2>4, QueueTake DEF ConserveInv, Fates
<1>2. ASSUME NEW order \in SetToAllKPermutations(Prompts), Reorder(order)
      PROVE  ConserveInv'
  <2>. DEFINE movable == {i \in Queued : HasMeta(i) /\ i # running}
              fixed == Retain(q, Ids \ movable)
              named == Retain(order, movable)
              rest == Retain(q, movable \ ToSet(order))
  <2>1. order \in Seq(Ids) /\ IsInjective(order)
    BY <1>2, OrderType, OrderDistinct, InterjectionsAreIds
  <2>2. fixed \in Seq(Ids) /\ IsInjective(fixed) /\ ToSet(fixed) = Queued \cap (Ids \ movable)
    BY <1>0, RetainType, RetainDistinct DEF Queued
  <2>3. named \in Seq(Ids) /\ IsInjective(named) /\ ToSet(named) = ToSet(order) \cap movable
    BY <2>1, RetainType, RetainDistinct
  <2>4. /\ rest \in Seq(Ids) /\ IsInjective(rest)
        /\ ToSet(rest) = Queued \cap (movable \ ToSet(order))
    BY <1>0, RetainType, RetainDistinct DEF Queued
  <2>5. q' = (fixed \o named) \o rest
    BY <1>2 DEF Reorder
  <2>6. movable \subseteq Queued /\ Queued \subseteq Ids
    BY QueueFacts
  <2>. HIDE DEF movable, fixed, named, rest
  <2>7. /\ fixed \o named \in Seq(Ids)
        /\ ToSet(fixed \o named) = ToSet(fixed) \cup ToSet(named)
        /\ IsInjective(fixed \o named)
    <3>1. ToSet(fixed) \cap ToSet(named) = {}
      BY <2>2, <2>3
    <3>. QED
      BY <2>2, <2>3, <3>1, ConcatDistinct
  <2>8. /\ ToSet(q') = ToSet(fixed) \cup ToSet(named) \cup ToSet(rest)
        /\ IsInjective(q')
    <3>. DEFINE c == fixed \o named
    <3>1. c \in Seq(Ids) /\ ToSet(c) = ToSet(fixed) \cup ToSet(named) /\ IsInjective(c)
      BY <2>7
    <3>2. q' = c \o rest
      BY <2>5
    <3>. HIDE DEF c
    <3>3. ToSet(c) \cap ToSet(rest) = {}
      BY <2>2, <2>3, <2>4, <3>1
    <3>4. /\ ToSet(c \o rest) = ToSet(c) \cup ToSet(rest)
          /\ IsInjective(c \o rest) <=> /\ IsInjective(c) /\ IsInjective(rest)
                                        /\ ToSet(c) \cap ToSet(rest) = {}
      BY <2>4, <3>1, ConcatDistinct
    <3>. QED
      BY <2>4, <3>1, <3>2, <3>3, <3>4
  <2>9. ToSet(q') = Queued
    BY <2>2, <2>3, <2>4, <2>6, <2>8
  <2>10. UNCHANGED <<pc, cx, interj, fate>>
    BY <1>2 DEF Reorder, sendVars, endVars
  <2>11. SameHands /\ HandsInv'
    BY <1>0, <2>10, KeepHands DEF SameHands
  <2>12. Conserved'
    <3>1. QueueConserved /\ BufferConserved
      BY <1>0, ConservedParts DEF IndInv
    <3>2. QueueConserved' /\ BufferConserved'
      BY <2>8, <2>9, <2>10, <3>1 DEF QueueConserved, BufferConserved, Queued
    <3>. QED
      BY <1>0, <3>2, ConservedPartsNext
  <2>. QED
    BY <2>11, <2>12 DEF ConserveInv
<1>3. ASSUME NEW owner, ClearQueue(owner) PROVE ConserveInv'
  <2>. DEFINE cleared == {i \in Queued : (HasMeta(i) /\ i # running)
                                         /\ (owner = None \/ Owner[i] = owner)}
  <2>1. /\ q' = Retain(q, Ids \ cleared) /\ fate' = Resolve(cleared, "removed")
        /\ UNCHANGED <<pc, cx, interj>>
    BY <1>3 DEF ClearQueue, sendVars
  <2>2. cleared \in SUBSET Queued
    OBVIOUS
  <2>. HIDE DEF cleared
  <2>3. \A k \in Queued : k \in Ids \ cleared <=> k \notin cleared
    BY QueueFacts
  <2>4. IsInjective(q') /\ ToSet(q') = Queued \ cleared
    BY <1>0, <2>1, <2>2, <2>3, RetainQueue
  <2>5. SameHands /\ HandsInv'
    BY <1>0, <2>1, KeepHands DEF SameHands
  <2>. QED
    BY <1>0, <2>1, <2>2, <2>4, <2>5, QueueTake DEF ConserveInv, Fates
<1>4. ASSUME NEW i \in Prompts, HoldCombineEdit(i) \/ ReleaseCombineEdit(i) PROVE ConserveInv'
  <2>1. UNCHANGED <<q, fate, pc, cx, interj>>
    BY <1>4 DEF HoldCombineEdit, ReleaseCombineEdit, sendVars, endVars
  <2>. QED
    BY <1>0, <2>1, QueueSame, KeepHands DEF ConserveInv, SameHands
<1>. QED
  BY <1>1, <1>2, <1>3, <1>4

(* New entries of the queue. *)
LEMMA InsertConserves ==
    ASSUME IndInv, ConserveInv, IndInv'
    PROVE  /\ \A i \in Prompts, now \in BOOLEAN : PromptUser(i, now) => ConserveInv'
           /\ \A i \in Synthetic, late \in BOOLEAN : PromptWake(i, late) => ConserveInv'
           /\ \A i \in Synthetic : GoalSummaryTurn(i) => ConserveInv'
           /\ \A i \in Synthetic : WorkflowCompletionTurn(i) => ConserveInv'
           /\ \A i \in Prompts : InterjectQueued(i) => ConserveInv'
           /\ \A i \in Synthetic : ResumePlan(i) => ConserveInv'
<1>0. TypeOK' /\ Conserved /\ HandsInv /\ IsInjective(q) /\ q \in Seq(Ids)
  BY QueueFacts DEF IndInv, ConserveInv, Conserved
<1>1. ASSUME NEW i \in Prompts, NEW now \in BOOLEAN, PromptUser(i, now)
      PROVE  ConserveInv'
  <2>. DEFINE armed == \E k \in 1..Len(q) : q[k] \in CompletionWakes /\ q[k] # running
              base == IF armed THEN Sweep(q, Synthetic) ELSE q
              R == Queued \ ToSet(base)
              A == {i}
  <2>1. i \in Ids /\ pc["loop"] = "idle" /\ fate[i] = "new" /\ interj' = interj
    BY <1>1, InterjectionsAreIds DEF PromptUser, Accept, sendVars
  <2>2. base \in Seq(Ids) /\ IsInjective(base) /\ ToSet(base) \subseteq Queued
    BY <1>0, RetainType, RetainDistinct DEF Sweep, Queued
  <2>3. q' = InsertAt(base, SendNowSlot(base), i) \/ q' = Append(base, i)
    BY <1>1 DEF PromptUser
  <2>4. \A k \in DOMAIN fate : fate'[k] = IF k = i THEN "pending"
                                          ELSE IF k \in R THEN "dropped"
                                          ELSE fate[k]
    BY <1>1 DEF PromptUser
  <2>5. SameHands /\ HandsInv'
    <3>1. Handle("cancelNow", "idle") \/ Handle("start", "idle")
      BY <1>1 DEF PromptUser
    <3>. QED
      BY <1>0, <2>1, <3>1, HandleHands
  <2>6. R \in SUBSET Queued /\ A \in SUBSET Ids /\ Ids \subseteq DOMAIN fate /\ Queued \subseteq Ids
    BY <2>1, QueueFacts DEF IndInv, TypeOK, EndType
  <2>7. i \notin ToSet(base)
    <3>1. i \notin Queued
      BY <1>0, <2>1 DEF Conserved
    <3>. QED
      BY <2>2, <3>1
  <2>. HIDE DEF base
  <2>8. IsInjective(q') /\ ToSet(q') = ToSet(base) \cup {i}
    <3>1. SendNowSlot(base) \in 1..(Len(base) + 1)
      BY <2>2, SlotType
    <3>2. CASE q' = InsertAt(base, SendNowSlot(base), i)
      BY <2>1, <2>2, <2>7, <3>1, <3>2, InsertAtDistinct
    <3>3. CASE q' = Append(base, i)
      BY <2>1, <2>2, <2>7, <3>3, AppendDistinct
    <3>. QED
      BY <2>3, <3>2, <3>3
  <2>9. /\ ToSet(q') = (Queued \ R) \cup A
        /\ \A a \in A : fate[a] = "new"
        /\ \A k \in A : fate'[k] = "pending"
        /\ \A k \in R \ A : fate'[k] \notin {"pending", "buffered"}
        /\ \A k \in Ids \ (A \cup R) : fate'[k] = fate[k]
    BY <2>1, <2>2, <2>4, <2>6, <2>8
  <2>. HIDE DEF R, A
  <2>. QED
    BY <1>0, <2>5, <2>6, <2>8, <2>9, QueueEdit DEF ConserveInv
<1>2. ASSUME NEW i \in Synthetic, NEW late \in BOOLEAN, PromptWake(i, late)
      PROVE  ConserveInv'
  <2>. DEFINE refused == i \in TaskWakes /\ (suppressed \/ late)
  <2>1. i \in Ids /\ pc["loop"] = "idle" /\ fate[i] = "new" /\ interj' = interj
    BY <1>2 DEF PromptWake, Accept, sendVars, Ids
  <2>2. CASE refused
    <3>1. UNCHANGED <<q, pc, cx>>
      BY <1>2, <2>2 DEF PromptWake
    <3>2. SameHands /\ HandsInv'
      BY <1>0, <2>1, <3>1, KeepHands DEF SameHands
    <3>3. PICK f \in {"tooLate", "removed"} : fate' = Resolve({i}, f)
      BY <1>2, <2>2 DEF PromptWake
    <3>4. \A k \in Ids : fate'[k] = IF k \in {i} THEN f ELSE fate[k]
      BY <3>3, ResolveIs
    <3>5. QueueConserved /\ BufferConserved
      BY <1>0, ConservedParts DEF IndInv
    <3>6. \A k \in Ids : /\ fate'[k] = "pending" <=> fate[k] = "pending"
                         /\ fate'[k] = "buffered" <=> fate[k] = "buffered"
      BY <2>1, <3>4
    <3>7. QueueConserved' /\ BufferConserved'
      <4>1. QueueConserved'
        BY <3>1, <3>2, <3>5, <3>6 DEF QueueConserved, SameHands, Queued
      <4>2. BufferConserved'
        BY <3>2, <3>5, <3>6, InterjectionsAreIds DEF BufferConserved, SameHands
      <4>. QED
        BY <4>1, <4>2
    <3>. QED
      BY <1>0, <3>2, <3>7, ConservedPartsNext DEF ConserveInv
  <2>3. CASE ~refused
    <3>1. q' = Append(q, i) /\ fate' = Resolve({i}, "pending") /\ Handle("start", "idle")
      BY <1>2, <2>3 DEF PromptWake
    <3>2. SameHands /\ HandsInv'
      BY <1>0, <2>1, <3>1, HandleHands
    <3>. QED
      BY <1>0, <2>1, <3>1, <3>2, QueueAppend DEF ConserveInv
  <2>. QED
    BY <2>2, <2>3
<1>3. ASSUME NEW i \in Synthetic, GoalSummaryTurn(i) \/ WorkflowCompletionTurn(i)
      PROVE  ConserveInv'
  <2>1. /\ i \in Ids /\ pc["loop"] = "idle" /\ fate[i] = "new" /\ interj' = interj
        /\ q' = Append(q, i) /\ fate' = Resolve({i}, "pending") /\ Handle("start", "idle")
    BY <1>3 DEF GoalSummaryTurn, WorkflowCompletionTurn, Accept, sendVars, Ids
  <2>2. SameHands /\ HandsInv'
    BY <1>0, <2>1, HandleHands
  <2>. QED
    BY <1>0, <2>1, <2>2, QueueAppend DEF ConserveInv
<1>4. ASSUME NEW i \in Prompts, InterjectQueued(i) PROVE ConserveInv'
  <2>. DEFINE rest == Retain(q, Ids \ {i})
  <2>1. /\ i \in Ids /\ pc["loop"] = "idle" /\ i \in Queued /\ UNCHANGED <<interj, fate>>
        /\ q' = InsertAt(rest, SendNowSlot(rest), i)
    BY <1>4, InterjectionsAreIds DEF InterjectQueued, Accept, sendVars
  <2>2. {i} \in SUBSET Queued /\ \A k \in Queued : k \in Ids \ {i} <=> k \notin {i}
    BY <2>1, QueueFacts
  <2>3. rest \in Seq(Ids) /\ IsInjective(rest) /\ ToSet(rest) = Queued \ {i}
    BY <1>0, <2>2, RetainQueue, RetainType
  <2>4. SameHands /\ HandsInv'
    <3>1. Handle("cancelNow", "idle") \/ Handle("start", "idle")
      BY <1>4 DEF InterjectQueued
    <3>. QED
      BY <1>0, <2>1, <3>1, HandleHands
  <2>. HIDE DEF rest
  <2>5. IsInjective(q') /\ ToSet(q') = Queued
    <3>1. SendNowSlot(rest) \in 1..(Len(rest) + 1) /\ i \notin ToSet(rest)
      BY <2>3, SlotType
    <3>2. IsInjective(q') /\ ToSet(q') = ToSet(rest) \cup {i}
      BY <2>1, <2>3, <3>1, InsertAtDistinct
    <3>. QED
      BY <2>1, <2>3, <3>2
  <2>6. Conserved'
    <3>1. QueueConserved /\ BufferConserved
      BY <1>0, ConservedParts DEF IndInv
    <3>2. QueueConserved' /\ BufferConserved'
      BY <2>1, <2>4, <2>5, <3>1 DEF QueueConserved, BufferConserved, SameHands, Queued
    <3>. QED
      BY <1>0, <3>2, ConservedPartsNext
  <2>. QED
    BY <2>4, <2>6 DEF ConserveInv
<1>5. ASSUME NEW i \in Synthetic, ResumePlan(i) PROVE ConserveInv'
  <2>1. /\ i \in Ids /\ fate[i] = "new" /\ UNCHANGED <<interj, cx>>
        /\ q' = Append(q, i) /\ fate' = Resolve({i}, "pending")
        /\ Goto("resume", "start") /\ "resume" \in Starters
    BY <1>5 DEF ResumePlan, sendVars, Ids
  <2>2. pc'["loop"] = pc["loop"]
    BY <2>1 DEF Goto, IndInv, TypeOK, LoopType, Procs
  <2>3. SameHands /\ HandsInv'
    BY <1>0, <2>1, <2>2, KeepHands DEF SameHands
  <2>. QED
    BY <1>0, <2>1, <2>3, QueueAppend DEF ConserveInv
<1>. QED
  BY <1>1, <1>2, <1>3, <1>4, <1>5

-----------------------------------------------------------------------------
(* The buffer is thrown away or taken into a turn: all its interjections   *)
(* are answered, and those the loop is putting back are not among them.    *)
LEMMA BufferEmptied ==
    ASSUME IndInv, Conserved, TypeOK', interj' = <<>>,
           NEW f \in Fates \ {"pending", "buffered"},
           fate' = Resolve(ToSet(interj), f), UNCHANGED q,
           cx'.victims = cx.victims, cx'.late = cx.late
    PROVE  Conserved'
<1>1. QueueConserved /\ BufferConserved
  BY ConservedParts DEF IndInv
<1>2. ToSet(interj) \subseteq Interjections
  BY ToSetByIndex DEF IndInv, TypeOK, SendType
<1>3. \A i \in Ids : fate'[i] = IF i \in ToSet(interj) THEN f ELSE fate[i]
  BY ResolveIs
<1>4. \A i \in ToSet(interj) : fate[i] = "buffered"
  BY <1>1, <1>2 DEF BufferConserved
<1>5. QueueConserved'
  <2>1. \A i \in Ids : fate'[i] = "pending" <=> fate[i] = "pending"
    BY <1>3, <1>4
  <2>. QED
    BY <1>1, <2>1 DEF QueueConserved, Queued
<1>6. BufferConserved'
  <2>1. ToSet(<<>>) = {} /\ IsInjective(<<>>)
    BY EmptyDistinct
  <2>2. \A i \in Interjections : fate'[i] = "buffered" <=> i \in ToSet(cx.late)
    BY <1>1, <1>3, InterjectionsAreIds DEF BufferConserved
  <2>. QED
    BY <1>1, <2>1, <2>2 DEF BufferConserved
<1>. QED
  BY <1>5, <1>6, ConservedPartsNext

(* Interjections: into the buffer, out of it, and into the queue. *)
LEMMA InterjectConserves ==
    ASSUME IndInv, ConserveInv, IndInv'
    PROVE  /\ \A i \in Interjections : Interject(i) => ConserveInv'
           /\ Flush => ConserveInv'
           /\ Requeue => ConserveInv'
<1>0. /\ TypeOK' /\ Conserved /\ HandsInv /\ IsInjective(q) /\ q \in Seq(Ids)
      /\ interj \in Seq(Interjections)
  BY QueueFacts DEF IndInv, ConserveInv, Conserved, TypeOK, SendType
<1>a. QueueConserved /\ BufferConserved
  BY <1>0, ConservedParts DEF IndInv
<1>b. ToSet(<<>>) = {} /\ IsInjective(<<>>)
  BY EmptyDistinct
<1>1. ASSUME NEW i \in Interjections, Interject(i) PROVE ConserveInv'
  <2>1. /\ pc["loop"] = "idle" /\ fate[i] = "new" /\ q' = q
        /\ fate' = Resolve({i}, "buffered") /\ i \in Ids
    BY <1>1, InterjectionsAreIds DEF Interject, Accept, stateVars
  <2>2. cx.victims = {} /\ cx.late = <<>>
    BY <1>0, <2>1 DEF HandsInv
  <2>3. \A k \in Ids : fate'[k] = IF k \in {i} THEN "buffered" ELSE fate[k]
    BY <2>1, ResolveIs
  <2>4. i \notin ToSet(interj)
    BY <1>a, <2>1 DEF BufferConserved
  <2>5. /\ cx'.victims = {}
        /\ HandsInv'
        /\ IsInjective(interj') /\ IsInjective(cx'.late)
        /\ ToSet(interj') \cap ToSet(cx'.late) = {}
        /\ ToSet(interj') \cup ToSet(cx'.late) = ToSet(interj) \cup {i}
    <3>1. CASE pin # None
      <4>1. interj' = Append(interj, i) /\ UNCHANGED <<pc, cx>>
        BY <1>1, <3>1 DEF Interject
      <4>2. IsInjective(interj') /\ ToSet(interj') = ToSet(interj) \cup {i}
        BY <1>0, <1>a, <2>4, <4>1, AppendDistinct DEF BufferConserved
      <4>3. HandsInv'
        BY <1>0, <4>1, KeepHands
      <4>. QED
        BY <1>b, <2>2, <4>1, <4>2, <4>3
    <3>2. CASE pin = None
      <4>1. /\ interj' = interj /\ cx' = [NoCx EXCEPT !.late = <<i>>]
            /\ Goto("loop", "requeue")
        BY <1>1, <3>2 DEF Interject
      <4>2. cx'.victims = {} /\ cx'.late = <<i>> /\ pc'["loop"] = "requeue"
        BY <4>1 DEF NoCx, Goto, IndInv, TypeOK, LoopType, Procs
      <4>3. ToSet(<<i>>) = {i} /\ IsInjective(<<i>>)
        BY SingleDistinct
      <4>. QED
        BY <1>a, <2>4, <4>1, <4>2, <4>3 DEF HandsInv, BufferConserved
    <3>. QED
      BY <3>1, <3>2
  <2>6. QueueConserved'
    <3>1. \A k \in Ids : fate'[k] = "pending" <=> fate[k] = "pending"
      BY <2>1, <2>3
    <3>. QED
      BY <1>a, <2>1, <2>2, <2>5, <3>1 DEF QueueConserved, Queued
  <2>7. BufferConserved'
    <3>1. \A k \in Interjections : fate[k] = "buffered" <=> k \in ToSet(interj)
      BY <1>a, <1>b, <2>2 DEF BufferConserved
    <3>2. \A k \in Interjections : fate'[k] = "buffered" <=> k \in ToSet(interj) \cup {i}
      BY <2>3, <3>1, InterjectionsAreIds
    <3>. QED
      BY <2>5, <3>2 DEF BufferConserved
  <2>. QED
    BY <1>0, <2>5, <2>6, <2>7, ConservedPartsNext DEF ConserveInv
<1>2. ASSUME Flush PROVE ConserveInv'
  <2>1. /\ pc["loop"] = "flush" /\ interj' = <<>> /\ cx' = [cx EXCEPT !.late = interj]
        /\ Goto("loop", IF interj = <<>> THEN "start" ELSE "requeue")
        /\ UNCHANGED <<q, fate>>
    BY <1>2 DEF Flush, stateVars, endVars
  <2>2. cx.victims = {} /\ cx.late = <<>>
    BY <1>0, <2>1 DEF HandsInv
  <2>3. cx'.victims = {} /\ cx'.late = interj
    BY <2>1, <2>2 DEF IndInv, TypeOK, LoopType, CxType
  <2>4. interj # <<>> => pc'["loop"] = "requeue"
    BY <2>1 DEF Goto, IndInv, TypeOK, LoopType, Procs
  <2>5. HandsInv'
    BY <2>3, <2>4 DEF HandsInv
  <2>6. QueueConserved'
    BY <1>a, <2>1, <2>2, <2>3 DEF QueueConserved, Queued
  <2>7. BufferConserved'
    BY <1>a, <1>b, <2>1, <2>2, <2>3 DEF BufferConserved
  <2>. QED
    BY <1>0, <2>5, <2>6, <2>7, ConservedPartsNext DEF ConserveInv
<1>3. ASSUME Requeue PROVE ConserveInv'
  <2>. DEFINE late == cx.late
              i == late[Len(late)]
              rest == SubSeq(late, 1, Len(late) - 1)
              last == SubSeq(late, Len(late), Len(late))
  <2>1. /\ pc["loop"] = "requeue" /\ q' = InsertAt(q, FrontSlot(q), i)
        /\ fate' = Resolve({i}, "pending")
        /\ cx' = [cx EXCEPT !.late = rest]
        /\ Goto("loop", IF rest = <<>> THEN "start" ELSE "requeue")
        /\ interj' = interj
    BY <1>3 DEF Requeue, sendVars
  <2>2. late \in Seq(Interjections) /\ late # <<>> /\ cx.victims = {}
    BY <1>0, <2>1 DEF IndInv, LateInv, TypeOK, LoopType, CxType, HandsInv
  <2>3. cx'.victims = {} /\ cx'.late = rest
    BY <2>1, <2>2 DEF IndInv, TypeOK, LoopType, CxType
  <2>4. rest # <<>> => pc'["loop"] = "requeue"
    BY <2>1 DEF Goto, IndInv, TypeOK, LoopType, Procs
  <2>5. HandsInv'
    BY <2>3, <2>4 DEF HandsInv
  <2>. HIDE DEF late
  <2>6. Len(late) \in Nat /\ Len(late) # 0 /\ Len(late) \in 1..(Len(late) + 1)
    <3>1. Len(late) \in Nat /\ Len(late) # 0
      BY <2>2, EmptySeq, LenProperties
    <3>. QED
      BY <3>1
  <2>7. IsInjective(late)
    BY <1>a DEF BufferConserved, late
  <2>8. /\ rest \in Seq(Interjections)
        /\ ToSet(late) = ToSet(rest) \cup ToSet(last)
        /\ IsInjective(rest) /\ ToSet(rest) \cap ToSet(last) = {}
    BY <2>2, <2>6, <2>7, SplitDistinct
  <2>9. i \in Interjections /\ ToSet(last) = {i}
    <3>1. i \in Interjections
      BY <2>2, <2>6, ElementOfSeq
    <3>2. \A k \in Len(late)..Len(late) : late[k] \in Interjections
      BY <2>2, <2>6, ElementOfSeq
    <3>3. /\ last \in Seq(Interjections)
          /\ Len(last) = 1
          /\ last[1] = late[Len(late) + 1 - 1]
      BY <2>2, <2>6, <3>2, SubSeqProperties
    <3>4. last[1] = i
      BY <2>6, <3>3
    <3>. HIDE DEF last
    <3>5. \A x : x \in ToSet(last) <=> \E k \in 1..Len(last) : last[k] = x
      BY <3>3, ToSetByIndex
    <3>6. 1..Len(last) = {1}
      BY <3>3
    <3>. QED
      BY <3>1, <3>4, <3>5, <3>6
  <2>. HIDE DEF i, rest, last
  <2>10. i \in Ids /\ fate[i] = "buffered"
    BY <1>a, <2>8, <2>9, InterjectionsAreIds DEF BufferConserved, late
  <2>11. IsInjective(q') /\ ToSet(q') = Queued \cup {i}
    <3>1. i \notin Queued /\ FrontSlot(q) \in 1..(Len(q) + 1)
      BY <1>0, <1>a, <2>10, SlotType DEF QueueConserved
    <3>. QED
      BY <1>0, <2>1, <2>10, <3>1, InsertAtDistinct DEF Queued
  <2>12. \A k \in Ids : fate'[k] = IF k \in {i} THEN "pending" ELSE fate[k]
    BY <2>1, ResolveIs
  <2>13. QueueConserved'
    <3>1. \A k \in Ids : fate'[k] = "pending" <=> k \in ToSet(q')
      BY <1>a, <2>2, <2>11, <2>12 DEF QueueConserved
    <3>. QED
      BY <2>3, <2>11, <3>1 DEF QueueConserved, Queued
  <2>14. BufferConserved'
    <3>1. \A k \in Interjections : fate[k] = "buffered" <=> k \in ToSet(interj) \cup ToSet(late)
      BY <1>a DEF BufferConserved, late
    <3>2. ToSet(interj) \cap ToSet(late) = {}
      BY <1>a DEF BufferConserved, late
    <3>3. \A k \in Interjections : fate'[k] = "buffered" <=> k \in ToSet(interj) \cup ToSet(rest)
      BY <2>8, <2>9, <2>12, <3>1, <3>2, InterjectionsAreIds
    <3>4. IsInjective(interj) /\ ToSet(interj) \cap ToSet(rest) = {}
      BY <1>a, <2>8, <3>2 DEF BufferConserved
    <3>. QED
      BY <2>1, <2>3, <2>8, <3>3, <3>4 DEF BufferConserved
  <2>. QED
    BY <1>0, <2>5, <2>13, <2>14, ConservedPartsNext DEF ConserveInv
<1>. QED
  BY <1>1, <1>2, <1>3

-----------------------------------------------------------------------------
(* A task that returns from a promotion, or goes on with it, is not a loop *)
(* with something in its hands.                                            *)
LEMMA PromotionHands ==
    ASSUME IndInv, HandsInv, NEW p \in Procs, pc[p] \in {"start", "promote", "spawn"},
           NEW where, Goto(p, where), UNCHANGED <<cx, interj>>
    PROVE  SameHands /\ HandsInv'
<1>1. \/ pc'["loop"] = pc["loop"]
      \/ pc["loop"] \notin {"cancelEnd", "requeue"}
  BY DEF Goto, IndInv, TypeOK, LoopType, Procs
<1>. QED
  BY <1>1, KeepHands DEF SameHands

(* maybe_start_running_task: what is merged or stale has its answer. *)
LEMMA PromotionConserves ==
    ASSUME IndInv, ConserveInv, IndInv'
    PROVE  /\ \A p \in Procs : Start(p) => ConserveInv'
           /\ \A p \in Procs : Promote(p) => ConserveInv'
           /\ \A p \in Procs : Spawn(p) => ConserveInv'
           /\ McpReady => ConserveInv'
<1>0. TypeOK' /\ Conserved /\ HandsInv /\ IsInjective(q) /\ q \in Seq(Ids)
  BY QueueFacts DEF IndInv, ConserveInv, Conserved
<1>1. ASSUME NEW p \in Procs, Start(p) \/ Spawn(p) PROVE ConserveInv'
  <2>1. pc[p] \in {"start", "promote", "spawn"} /\ UNCHANGED <<q, fate, cx, interj>>
    BY <1>1 DEF Start, Spawn, stateVars, endVars, sendVars
  <2>2. PICK where : Goto(p, where)
    BY <1>1 DEF Start, Spawn, Return
  <2>3. SameHands /\ HandsInv'
    BY <1>0, <2>1, <2>2, PromotionHands
  <2>. QED
    BY <1>0, <2>1, <2>3, QueueSame DEF ConserveInv
<1>2. ASSUME NEW p \in Procs, Promote(p) PROVE ConserveInv'
  <2>. DEFINE stale == RunLength(q, 1, WorkflowWakes \cap reported)
              live == DropFirst(q, stale)
              held == holds \cap ToSet(live)
              n == IF may[p] /\ CombineQueued THEN CombinePrefixLen(live, held) ELSE 1
              after == DropFirst(live, n)
              next == <<live[1]>> \o after
  <2>1. pc[p] = "promote" /\ UNCHANGED <<cx, interj>>
    BY <1>2 DEF Promote, sendVars
  <2>2. PICK where : Goto(p, where)
    BY <1>2 DEF Promote, Return
  <2>3. SameHands /\ HandsInv'
    BY <1>0, <2>1, <2>2, PromotionHands
  <2>4. \/ UNCHANGED <<q, fate>>
        \/ q' = <<>> /\ fate' = Resolve(Queued, "removed")
        \/ live # <<>> /\ q' = next /\ fate' = Resolve(Queued \ ToSet(next), "removed")
    BY <1>2 DEF Promote
  <2>5. CASE UNCHANGED <<q, fate>>
    BY <1>0, <2>3, <2>5, QueueSame DEF ConserveInv
  <2>6. CASE q' = <<>> /\ fate' = Resolve(Queued, "removed")
    <3>1. IsInjective(q') /\ ToSet(q') = Queued \ Queued /\ Queued \in SUBSET Queued
      BY <2>6, EmptyDistinct
    <3>. QED
      BY <1>0, <2>3, <2>6, <3>1, QueueTake DEF ConserveInv, Fates
  <2>7. CASE live # <<>> /\ q' = next /\ fate' = Resolve(Queued \ ToSet(next), "removed")
    <3>1. stale \in Nat
      BY <1>0, QueueFacts, RunLengthBound
    <3>. HIDE DEF stale
    <3>2. live \in Seq(Ids) /\ IsInjective(live) /\ ToSet(live) \subseteq Queued
      BY <1>0, <3>1, DropFirstType, DropFirstDistinct DEF Queued
    <3>. HIDE DEF live
    <3>3. Len(live) \in Nat /\ Len(live) # 0 /\ live[1] \in Ids /\ live[1] \in ToSet(live)
      BY <2>7, <3>2, EmptySeq, ToSetByIndex
    <3>4. n \in Nat /\ n >= 1
      <4>1. 2 \in 1..(Len(live) + 1)
        BY <3>3
      <4>2. RunLength(live, 2, Mergeable \ (Imaged \cup held)) \in Nat
        BY <3>2, <3>3, <4>1, RunLengthBound
      <4>3. CombinePrefixLen(live, held) \in Nat /\ CombinePrefixLen(live, held) >= 1
        BY <4>2 DEF CombinePrefixLen
      <4>. QED
        BY <4>3
    <3>. HIDE DEF n
    <3>5. /\ after \in Seq(Ids) /\ IsInjective(after) /\ ToSet(after) \subseteq ToSet(live)
          /\ live[1] \notin ToSet(after)
      <4>1. 1 \in 1..Len(live) /\ 1 <= n
        BY <3>3, <3>4
      <4>. QED
        BY <3>2, <3>4, <4>1, DropFirstType, DropFirstDistinct
    <3>. HIDE DEF after
    <3>6. IsInjective(next) /\ ToSet(next) = {live[1]} \cup ToSet(after)
      <4>. DEFINE one == <<live[1]>>
      <4>1. one \in Seq(Ids) /\ ToSet(one) = {live[1]} /\ IsInjective(one)
        BY <3>3, SingleDistinct
      <4>2. next = one \o after
        OBVIOUS
      <4>. HIDE DEF one
      <4>3. ToSet(one) \cap ToSet(after) = {}
        BY <3>5, <4>1
      <4>4. /\ ToSet(one \o after) = ToSet(one) \cup ToSet(after)
            /\ IsInjective(one \o after) <=> /\ IsInjective(one) /\ IsInjective(after)
                                             /\ ToSet(one) \cap ToSet(after) = {}
        BY <3>5, <4>1, ConcatDistinct
      <4>. QED
        BY <3>5, <4>1, <4>2, <4>3, <4>4
    <3>. HIDE DEF next
    <3>. DEFINE R == Queued \ ToSet(next)
    <3>7. /\ R \in SUBSET Queued /\ IsInjective(q') /\ ToSet(q') = Queued \ R
          /\ fate' = Resolve(R, "removed")
      BY <2>7, <3>2, <3>3, <3>5, <3>6
    <3>. HIDE DEF R
    <3>. QED
      BY <1>0, <2>3, <3>7, QueueTake DEF ConserveInv, Fates
  <2>. QED
    BY <2>4, <2>5, <2>6, <2>7
<1>3. ASSUME McpReady PROVE ConserveInv'
  <2>1. /\ UNCHANGED <<q, fate, cx, interj>> /\ Goto("mcp", "start")
        /\ "mcp" \in Starters
    BY <1>3 DEF McpReady, stateVars, endVars, sendVars
  <2>2. pc'["loop"] = pc["loop"]
    BY <2>1 DEF Goto, IndInv, TypeOK, LoopType, Procs
  <2>3. SameHands /\ HandsInv'
    BY <1>0, <2>1, <2>2, KeepHands DEF SameHands
  <2>. QED
    BY <1>0, <2>1, <2>3, QueueSame DEF ConserveInv
<1>. QED
  BY <1>1, <1>2, <1>3

-----------------------------------------------------------------------------
(* cancel_running_task and its callers: what leaves the queue is in the    *)
(* hands of the cancel until it is answered.                               *)
LEMMA CancelConserves ==
    ASSUME IndInv, ConserveInv, IndInv'
    PROVE  /\ \A kind \in CancelKinds : CancelBegin(kind) => ConserveInv'
           /\ CancelForSendNow => ConserveInv'
           /\ CancelAbortEarly => ConserveInv'
           /\ CancelLocked => ConserveInv'
           /\ CancelEnd => ConserveInv'
           /\ Reengage => ConserveInv'
<1>0. /\ TypeOK' /\ Conserved /\ HandsInv /\ IsInjective(q) /\ q \in Seq(Ids)
      /\ Queued \subseteq Ids
  BY QueueFacts DEF IndInv, ConserveInv, Conserved
<1>a. QueueConserved /\ BufferConserved
  BY <1>0, ConservedParts DEF IndInv
<1>1. ASSUME NEW kind \in CancelKinds, CancelBegin(kind) PROVE ConserveInv'
  <2>1. /\ pc["loop"] = "idle" /\ interj' = <<>> /\ q' = q
        /\ fate' = Resolve(ToSet(interj), "cleared")
    BY <1>1 DEF CancelBegin, Accept
  <2>2. cx.victims = {} /\ cx.late = <<>>
    BY <1>0, <2>1 DEF HandsInv
  <2>3. cx'.victims = {} /\ cx'.late = <<>>
    <3>1. \/ \E where, after : Handle(where, after)
          \/ cx' = [NoCx EXCEPT !.kind = kind, !.pinned = pin,
                        !.after = IF kind.ctrlC THEN "idle" ELSE "drain"]
      BY <1>1 DEF CancelBegin
    <3>. QED
      BY <3>1 DEF Handle, NoCx
  <2>4. HandsInv'
    BY <2>3 DEF HandsInv
  <2>. QED
    BY <1>0, <2>1, <2>2, <2>3, <2>4, BufferEmptied DEF ConserveInv, Fates
<1>2. ASSUME CancelForSendNow PROVE ConserveInv'
  <2>1. /\ pc["loop"] = "cancelNow" /\ interj' = <<>> /\ q' = q
        /\ fate' = Resolve(ToSet(interj), "cleared")
        /\ cx' = [cx EXCEPT !.sendNow = TRUE, !.pinned = pin]
    BY <1>2 DEF CancelForSendNow, stateVars
  <2>2. cx.victims = {} /\ cx.late = <<>>
    BY <1>0, <2>1 DEF HandsInv
  <2>3. cx'.victims = {} /\ cx'.late = <<>>
    BY <2>1, <2>2 DEF IndInv, TypeOK, LoopType, CxType
  <2>4. HandsInv'
    BY <2>3 DEF HandsInv
  <2>. QED
    BY <1>0, <2>1, <2>2, <2>3, <2>4, BufferEmptied DEF ConserveInv, Fates
<1>3. ASSUME CancelAbortEarly \/ Reengage PROVE ConserveInv'
  <2>1. /\ pc["loop"] \in {"cancelSubs", "reengage"} /\ UNCHANGED <<q, fate, cx, interj>>
    BY <1>3 DEF CancelAbortEarly, Reengage, stateVars, endVars, sendVars
  <2>2. SameHands /\ HandsInv'
    BY <1>0, <2>1, KeepHands DEF SameHands
  <2>. QED
    BY <1>0, <2>1, <2>2, QueueSame DEF ConserveInv
<1>4. ASSUME CancelLocked PROVE ConserveInv'
  <2>. DEFINE kind == cx.kind
              gone == IF kind.ctrlC /\ ~kind.kill THEN WakesBehind(q) ELSE {}
              rest == IF q = <<>> THEN <<>> ELSE Tail(q)
              front == IF q = <<>> THEN {} ELSE {q[1]}
  <2>1. /\ pc["loop"] = "cancelLock" /\ interj' = interj
        /\ Goto("loop", "cancelEnd")
    BY <1>4 DEF CancelLocked
  <2>2. cx.victims = {} /\ cx.late = <<>>
    BY <1>0, <2>1 DEF HandsInv
  <2>3. \/ /\ q # <<>> /\ q' = rest /\ fate' = fate
           /\ cx' = [cx EXCEPT !.victims = {q[1]}, !.rewound = q[1]]
        \/ /\ q' = IF kind.kill THEN <<>> ELSE Retain(rest, Ids \ gone)
           /\ cx' = [cx EXCEPT !.torn = running,
                         !.victims = IF kind.kill THEN Queued ELSE front]
           /\ fate' = Resolve(gone, "removed")
    BY <1>4 DEF CancelLocked
  <2>4. /\ rest \in Seq(Ids) /\ IsInjective(rest)
        /\ ToSet(rest) \cap front = {} /\ Queued = front \cup ToSet(rest)
    <3>1. CASE q = <<>>
      BY <3>1, EmptyDistinct DEF Queued
    <3>2. CASE q # <<>>
      BY <1>0, <3>2, TailDistinct DEF Queued
    <3>. QED
      BY <3>1, <3>2
  <2>5. gone \subseteq ToSet(rest) /\ (kind.kill => gone = {})
    <3>1. WakesBehind(q) \subseteq ToSet(rest)
      <4>1. CASE q = <<>>
        <5>1. Len(q) = 0 /\ 2..0 = {}
          BY <4>1
        <5>2. WakesBehind(q) = {}
          BY <5>1 DEF WakesBehind
        <5>. QED
          BY <5>2
      <4>2. CASE q # <<>>
        <5>1. \A k \in 2..Len(q) : q[k] \in ToSet(Tail(q))
          BY <1>0, <4>2, TailDistinct
        <5>. QED
          BY <4>2, <5>1 DEF WakesBehind
      <4>. QED
        BY <4>1, <4>2
    <3>. QED
      BY <3>1
  <2>6. ToSet(<<>>) = {} /\ IsInjective(<<>>)
    BY EmptyDistinct
  <2>7. cx'.late = <<>> /\ pc'["loop"] = "cancelEnd"
    <3>1. cx'.late = cx.late
      BY <2>3 DEF IndInv, TypeOK, LoopType, CxType
    <3>2. pc'["loop"] = "cancelEnd"
      BY <2>1 DEF Goto, IndInv, TypeOK, LoopType, Procs
    <3>. QED
      BY <2>2, <3>1, <3>2
  <2>8. HandsInv'
    BY <2>7 DEF HandsInv
  <2>9. /\ IsInjective(q') /\ ToSet(q') \cap cx'.victims = {}
        /\ \E R \in SUBSET Queued :
               /\ ToSet(q') \cup cx'.victims = Queued \ R
               /\ \A i \in Ids : fate'[i] = IF i \in R THEN "removed" ELSE fate[i]
    <3>1. CASE /\ q # <<>> /\ q' = rest /\ fate' = fate
               /\ cx' = [cx EXCEPT !.victims = {q[1]}, !.rewound = q[1]]
      <4>. DEFINE R == {}
      <4>1. cx'.victims = front
        BY <3>1 DEF IndInv, TypeOK, LoopType, CxType
      <4>. HIDE DEF rest, front
      <4>2. ToSet(q') \cap cx'.victims = {} /\ ToSet(q') \cup cx'.victims = Queued \ R
        BY <2>4, <3>1, <4>1
      <4>. QED
        BY <2>4, <3>1, <4>2
    <3>2. CASE /\ q' = IF kind.kill THEN <<>> ELSE Retain(rest, Ids \ gone)
               /\ cx' = [cx EXCEPT !.torn = running,
                             !.victims = IF kind.kill THEN Queued ELSE front]
               /\ fate' = Resolve(gone, "removed")
      <4>1. cx'.victims = IF kind.kill THEN Queued ELSE front
        BY <3>2 DEF IndInv, TypeOK, LoopType, CxType
      <4>. HIDE DEF rest, front, gone
      <4>2. gone \in SUBSET Queued
        BY <2>4, <2>5
      <4>3. \A i \in Ids : fate'[i] = IF i \in gone THEN "removed" ELSE fate[i]
        BY <3>2, ResolveIs
      <4>4. CASE kind.kill
        BY <2>5, <2>6, <3>2, <4>1, <4>2, <4>3, <4>4
      <4>5. CASE ~kind.kill
        <5>1. q' = Retain(rest, Ids \ gone) /\ cx'.victims = front
          BY <3>2, <4>1, <4>5
        <5>2. IsInjective(q') /\ ToSet(q') = ToSet(rest) \cap (Ids \ gone)
          BY <2>4, <5>1, RetainType, RetainDistinct
        <5>3. ToSet(q') \cup cx'.victims = Queued \ gone
          BY <1>0, <2>4, <2>5, <5>1, <5>2
        <5>. QED
          BY <2>4, <4>2, <4>3, <5>1, <5>2, <5>3
      <4>. QED
        BY <4>4, <4>5
    <3>. QED
      BY <2>3, <3>1, <3>2
  <2>10. QueueConserved' /\ BufferConserved'
    <3>1. PICK R \in SUBSET Queued :
              /\ ToSet(q') \cup cx'.victims = Queued \ R
              /\ \A i \in Ids : fate'[i] = IF i \in R THEN "removed" ELSE fate[i]
      BY <2>9
    <3>2. \A i \in Ids : /\ fate'[i] = "pending" <=> i \in Queued \ R
                         /\ fate'[i] = "buffered" <=> fate[i] = "buffered"
      BY <1>a, <2>2, <3>1 DEF QueueConserved
    <3>3. QueueConserved'
      BY <2>9, <3>1, <3>2 DEF QueueConserved, Queued
    <3>4. BufferConserved'
      BY <1>a, <2>1, <2>2, <2>7, <3>2, InterjectionsAreIds DEF BufferConserved
    <3>. QED
      BY <3>3, <3>4
  <2>. QED
    BY <1>0, <2>8, <2>10, ConservedPartsNext DEF ConserveInv
<1>5. ASSUME CancelEnd PROVE ConserveInv'
  <2>1. /\ pc["loop"] = "cancelEnd" /\ UNCHANGED <<q, interj>>
        /\ \E f \in {"cancelled", "rewound"} : fate' = Resolve(cx.victims, f)
        /\ \E where, after : Handle(where, after)
    BY <1>5 DEF CancelEnd, stateVars, sendVars
  <2>2. PICK f \in {"cancelled", "rewound"} : fate' = Resolve(cx.victims, f)
    BY <2>1
  <2>3. cx.late = <<>>
    BY <1>0, <2>1 DEF HandsInv
  <2>4. cx'.victims = {} /\ cx'.late = <<>>
    BY <2>1 DEF Handle, NoCx
  <2>5. \A i \in Ids : fate'[i] = IF i \in cx.victims THEN f ELSE fate[i]
    BY <2>2, ResolveIs
  <2>6. HandsInv'
    BY <2>4 DEF HandsInv
  <2>7. cx.victims \subseteq Ids
    BY DEF IndInv, TypeOK, LoopType, CxType
  <2>8. QueueConserved'
    <3>1. \A i \in Ids : fate'[i] = "pending" <=> i \in Queued
      BY <1>a, <2>5 DEF QueueConserved
    <3>. QED
      BY <1>a, <2>1, <2>4, <3>1 DEF QueueConserved, Queued
  <2>9. BufferConserved'
    <3>1. \A i \in cx.victims : fate[i] = "pending"
      BY <1>a, <2>7 DEF QueueConserved
    <3>2. \A i \in Ids : fate'[i] = "buffered" <=> fate[i] = "buffered"
      BY <2>5, <3>1
    <3>. QED
      BY <1>a, <2>1, <2>3, <2>4, <3>2, InterjectionsAreIds DEF BufferConserved
  <2>. QED
    BY <1>0, <2>6, <2>8, <2>9, ConservedPartsNext DEF ConserveInv
<1>. QED
  BY <1>1, <1>2, <1>3, <1>4, <1>5

-----------------------------------------------------------------------------
(* The completion of a turn: only its own prompt leaves the queue. *)
LEMMA CompletionConserves ==
    ASSUME IndInv, ConserveInv, IndInv'
    PROVE  /\ Completion => ConserveInv'
           /\ PopFront => ConserveInv'
           /\ TurnEnd => ConserveInv'
<1>0. TypeOK' /\ Conserved /\ HandsInv /\ IsInjective(q) /\ q \in Seq(Ids)
  BY QueueFacts DEF IndInv, ConserveInv, Conserved
<1>1. ASSUME Completion PROVE ConserveInv'
  <2>1. /\ pc["loop"] = "idle" /\ UNCHANGED <<q, fate, interj>>
        /\ \E done : cx' = [NoCx EXCEPT !.done = done, !.after = "drain"]
    BY <1>1 DEF Completion, stateVars, endVars, sendVars
  <2>2. cx'.victims = {} /\ cx'.late = <<>>
    BY <2>1 DEF NoCx
  <2>3. SameHands /\ HandsInv'
    BY <1>0, <2>1, <2>2 DEF SameHands, HandsInv
  <2>. QED
    BY <1>0, <2>1, <2>3, QueueSame DEF ConserveInv
<1>2. ASSUME PopFront PROVE ConserveInv'
  <2>. DEFINE done == cx.done
  <2>1. pc["loop"] = "pop" /\ UNCHANGED <<cx, interj>>
    BY <1>2 DEF PopFront, sendVars
  <2>2. SameHands /\ HandsInv'
    BY <1>0, <2>1, KeepHands DEF SameHands
  <2>3. CASE q # <<>> /\ q[1] = done
    <3>1. q' = Tail(q) /\ fate' = Resolve({done}, "answered")
      BY <1>2, <2>3 DEF PopFront
    <3>2. /\ IsInjective(q') /\ ToSet(q') = Queued \ {done} /\ {done} \in SUBSET Queued
      BY <1>0, <2>3, <3>1, TailDistinct DEF Queued
    <3>. QED
      BY <1>0, <2>2, <3>1, <3>2, QueueTake DEF ConserveInv, Fates
  <2>4. CASE ~(q # <<>> /\ q[1] = done)
    <3>1. UNCHANGED <<q, fate>>
      BY <1>2, <2>4 DEF PopFront
    <3>. QED
      BY <1>0, <2>2, <3>1, QueueSame DEF ConserveInv
  <2>. QED
    BY <2>3, <2>4
<1>3. ASSUME TurnEnd PROVE ConserveInv'
  <2>1. pc["loop"] = "turnEnd" /\ UNCHANGED <<cx, interj>>
    BY <1>3 DEF TurnEnd
  <2>2. SameHands /\ HandsInv'
    BY <1>0, <2>1, KeepHands DEF SameHands
  <2>3. \/ UNCHANGED <<q, fate>>
        \/ \E i \in GoalTurns : /\ fate[i] = "new" /\ q' = Append(q, i)
                                /\ fate' = Resolve({i}, "pending")
    BY <1>3 DEF TurnEnd
  <2>4. CASE UNCHANGED <<q, fate>>
    BY <1>0, <2>2, <2>4, QueueSame DEF ConserveInv
  <2>5. ASSUME NEW i \in GoalTurns, fate[i] = "new", q' = Append(q, i),
               fate' = Resolve({i}, "pending")
        PROVE  ConserveInv'
    <3>1. i \in Ids
      BY DEF Ids, Synthetic
    <3>. QED
      BY <1>0, <2>2, <2>5, <3>1, QueueAppend DEF ConserveInv
  <2>. QED
    BY <2>3, <2>4, <2>5
<1>. QED
  BY <1>1, <1>2, <1>3

(* Notifications, and the end of the session. *)
LEMMA NotifyConserves ==
    ASSUME IndInv, ConserveInv, IndInv'
    PROVE  /\ \A e \in Notes : InjectNotification(e) => ConserveInv'
           /\ \A task \in TaskWakes : DropMonitorNotifications(task) => ConserveInv'
           /\ DrainNotifications => ConserveInv'
           /\ Shutdown => ConserveInv'
<1>0. /\ TypeOK' /\ Conserved /\ HandsInv /\ IsInjective(q) /\ q \in Seq(Ids)
      /\ Queued \subseteq Ids
  BY QueueFacts DEF IndInv, ConserveInv, Conserved
<1>1. ASSUME NEW e \in Notes, InjectNotification(e) PROVE ConserveInv'
  <2>1. /\ pc["loop"] = "idle" /\ UNCHANGED <<q, interj>>
        /\ fate[e] = "new" /\ fate' = Resolve({e}, "noted")
    BY <1>1 DEF InjectNotification, Accept
  <2>2. UNCHANGED <<pc, cx>> \/ Handle("drain", "idle")
    BY <1>1 DEF InjectNotification
  <2>3. SameHands /\ HandsInv'
    <3>1. CASE UNCHANGED <<pc, cx>>
      BY <1>0, <2>1, <3>1, KeepHands DEF SameHands
    <3>2. CASE Handle("drain", "idle")
      BY <1>0, <2>1, <3>2, HandleHands
    <3>. QED
      BY <2>2, <3>1, <3>2
  <2>4. \A i \in Ids : fate'[i] = IF i \in {e} THEN "noted" ELSE fate[i]
    BY <2>1, ResolveIs
  <2>5. \A i \in Ids : /\ fate'[i] = "pending" <=> fate[i] = "pending"
                       /\ fate'[i] = "buffered" <=> fate[i] = "buffered"
    BY <2>1, <2>4
  <2>6. QueueConserved /\ BufferConserved
    BY <1>0, ConservedParts DEF IndInv
  <2>7. QueueConserved'
    BY <2>1, <2>3, <2>5, <2>6 DEF QueueConserved, SameHands, Queued
  <2>8. BufferConserved'
    BY <2>3, <2>5, <2>6, InterjectionsAreIds DEF BufferConserved, SameHands
  <2>. QED
    BY <1>0, <2>3, <2>7, <2>8, ConservedPartsNext DEF ConserveInv
<1>2. ASSUME NEW task \in TaskWakes, DropMonitorNotifications(task) PROVE ConserveInv'
  <2>1. UNCHANGED <<q, fate, pc, cx, interj>>
    BY <1>2 DEF DropMonitorNotifications, endVars
  <2>2. SameHands /\ HandsInv'
    BY <1>0, <2>1, KeepHands DEF SameHands
  <2>. QED
    BY <1>0, <2>1, <2>2, QueueSame DEF ConserveInv
<1>3. ASSUME DrainNotifications PROVE ConserveInv'
  <2>1. pc["loop"] = "drain" /\ interj' = interj
    BY <1>3 DEF DrainNotifications
  <2>2. \/ Handle("idle", "idle") /\ UNCHANGED <<q, fate>>
        \/ /\ Handle("start", "idle")
           /\ \E i \in DrainTurns : /\ fate[i] = "new" /\ q' = Append(q, i)
                                    /\ fate' = Resolve({i}, "pending")
    BY <1>3 DEF DrainNotifications
  <2>3. SameHands /\ HandsInv'
    BY <1>0, <2>1, <2>2, HandleHands
  <2>4. CASE UNCHANGED <<q, fate>>
    BY <1>0, <2>3, <2>4, QueueSame DEF ConserveInv
  <2>5. ASSUME NEW i \in DrainTurns, fate[i] = "new", q' = Append(q, i),
               fate' = Resolve({i}, "pending")
        PROVE  ConserveInv'
    <3>1. i \in Ids
      BY DEF Ids, Synthetic
    <3>. QED
      BY <1>0, <2>3, <2>5, <3>1, QueueAppend DEF ConserveInv
  <2>. QED
    BY <2>2, <2>4, <2>5
<1>4. ASSUME Shutdown PROVE ConserveInv'
  <2>. DEFINE R == Queued \cap Synthetic
  <2>1. /\ pc["loop"] = "idle" /\ interj' = interj /\ Handle("ended", "idle")
        /\ q' = Retain(q, UserMessages) /\ fate' = Resolve(R, "dropped")
    BY <1>4 DEF Shutdown, Accept, sendVars
  <2>2. SameHands /\ HandsInv'
    BY <1>0, <2>1, HandleHands
  <2>3. R \in SUBSET Queued /\ \A i \in Queued : i \in UserMessages <=> i \notin R
    BY <1>0, Kinds DEF Ids
  <2>. HIDE DEF R
  <2>4. IsInjective(q') /\ ToSet(q') = Queued \ R
    BY <1>0, <2>1, <2>3, RetainQueue
  <2>. QED
    BY <1>0, <2>1, <2>2, <2>3, <2>4, QueueTake DEF ConserveInv, Fates
<1>. QED
  BY <1>1, <1>2, <1>3, <1>4

(* What a turn does. *)
LEMMA TurnConserves ==
    ASSUME IndInv, ConserveInv, IndInv', NEW t \in Ids
    PROVE  /\ TurnStep(t) => ConserveInv'
           /\ TurnWork(t) => ConserveInv'
<1>0. /\ TypeOK' /\ Conserved /\ HandsInv /\ IsInjective(q) /\ q \in Seq(Ids)
      /\ Queued \subseteq Ids
  BY QueueFacts DEF IndInv, ConserveInv, Conserved
<1>1. ASSUME UNCHANGED <<q, fate, pc, cx, interj>> PROVE ConserveInv'
  <2>1. SameHands /\ HandsInv'
    BY <1>0, <1>1, KeepHands DEF SameHands
  <2>. QED
    BY <1>0, <1>1, <2>1, QueueSame DEF ConserveInv
<1>2. TurnStep(t) => UNCHANGED <<q, fate, pc, cx, interj>>
  BY DEF TurnStep, TurnBegin, TurnOpen, TurnLeaveScope, TurnFinish, stateVars,
         endVars, sendVars
<1>3. TurnOutput(t) \/ TurnWait(t) \/ TurnGoal(t) \/ TurnRound(t)
      => UNCHANGED <<q, fate, pc, cx, interj>>
  BY DEF TurnOutput, TurnWait, TurnGoal, TurnRound, stateVars, endVars, sendVars
<1>4. ASSUME NEW w \in WorkflowWakes, TurnReportsWorkflow(t, w)
      PROVE  UNCHANGED <<q, fate, pc, cx, interj>>
  BY <1>4 DEF TurnReportsWorkflow, stateVars, endVars, sendVars
<1>5. ASSUME TurnInject(t) PROVE ConserveInv'
  <2>1. /\ interj' = <<>> /\ fate' = Resolve(ToSet(interj), "merged")
        /\ UNCHANGED <<q, pc, cx>>
    BY <1>5 DEF TurnInject, stateVars
  <2>2. HandsInv'
    BY <1>0, <2>1, KeepHands
  <2>. QED
    BY <1>0, <2>1, <2>2, BufferEmptied DEF ConserveInv, Fates
<1>6. ASSUME NEW c, TurnConsumes(t, c) PROVE ConserveInv'
  <2>. DEFINE R == Queued \ ToSet(q')
  <2>1. /\ q' = Sweep(q, {c}) /\ fate' = Resolve(R, "dropped")
        /\ UNCHANGED <<pc, cx, interj>>
    BY <1>6 DEF TurnConsumes, sendVars
  <2>2. IsInjective(q') /\ ToSet(q') \subseteq Queued
    BY <1>0, <2>1, RetainType, RetainDistinct DEF Sweep, Queued
  <2>3. R \in SUBSET Queued /\ ToSet(q') = Queued \ R
    BY <2>2
  <2>4. SameHands /\ HandsInv'
    BY <1>0, <2>1, KeepHands DEF SameHands
  <2>. HIDE DEF R
  <2>. QED
    BY <1>0, <2>1, <2>2, <2>3, <2>4, QueueTake DEF ConserveInv, Fates
<1>. QED
  BY <1>1, <1>2, <1>3, <1>4, <1>5, <1>6 DEF TurnWork

-----------------------------------------------------------------------------
(***************************************************************************)
(* The theorem.                                                            *)
(***************************************************************************)
(* Every step of the session conserves its messages. *)
LEMMA NextConserves ==
    IndInv /\ ConserveInv /\ [Next]_vars /\ IndInv' => ConserveInv'
<1>. SUFFICES ASSUME IndInv, ConserveInv, [Next]_vars, IndInv' PROVE ConserveInv'
  OBVIOUS
<1>1. CASE UserCommand
  <2>1. ASSUME NEW i \in Interjections, Interject(i) PROVE ConserveInv'
    BY <2>1, InterjectConserves
  <2>. QED
    BY <1>1, <2>1, InsertConserves, EditConserves, CancelConserves, NotifyConserves
       DEF UserCommand
<1>2. CASE Wake
  BY <1>2, InsertConserves, NotifyConserves DEF Wake, Synthetic
<1>3. CASE Handler
  BY <1>3, CancelConserves, CompletionConserves, InterjectConserves, NotifyConserves
     DEF Handler
<1>4. CASE \E p \in Procs : Promotion(p)
  BY <1>4, PromotionConserves DEF Promotion
<1>5. CASE Starter
  BY <1>5, PromotionConserves, InsertConserves DEF Starter, Synthetic
<1>6. CASE \E t \in Ids : TurnStep(t) \/ TurnWork(t)
  BY <1>6, TurnConserves
<1>7. CASE UNCHANGED vars
  <2>1. UNCHANGED <<q, fate, pc, cx, interj>>
    BY <1>7 DEF vars, stateVars, endVars, sendVars
  <2>2. SameHands /\ HandsInv'
    BY <2>1, KeepHands DEF SameHands, ConserveInv
  <2>. QED
    BY <2>1, <2>2, QueueSame DEF ConserveInv, IndInv
<1>. QED
  BY <1>1, <1>2, <1>3, <1>4, <1>5, <1>6, <1>7 DEF Next

(* A session starts with an empty queue and empty hands. *)
LEMMA InitConserves == Init => ConserveInv
<1>. SUFFICES ASSUME Init PROVE ConserveInv
  OBVIOUS
<1>1. TypeOK
  BY InitTypes
<1>2. /\ q = <<>> /\ interj = <<>> /\ cx = NoCx
      /\ \A i \in Ids : fate[i] = "new"
  BY DEF Init
<1>3. cx.victims = {} /\ cx.late = <<>>
  BY <1>2 DEF NoCx
<1>4. ToSet(<<>>) = {} /\ IsInjective(<<>>)
  BY EmptyDistinct
<1>5. QueueConserved
  BY <1>2, <1>3, <1>4 DEF QueueConserved, Queued
<1>6. BufferConserved
  BY <1>2, <1>3, <1>4, InterjectionsAreIds DEF BufferConserved
<1>. QED
  BY <1>1, <1>3, <1>5, <1>6, ConservedParts DEF ConserveInv, HandsInv

(* Both invariants hold in every state a session can reach. *)
THEOREM ConserveInvHolds == Spec => [](IndInv /\ ConserveInv)
<1>1. Spec => []IndInv
  BY InvariantHolds
<1>2. ConserveInv /\ IndInv /\ IndInv' /\ [Next]_vars => ConserveInv'
  BY NextConserves
<1>. QED
  BY <1>1, <1>2, InitConserves, PTL DEF Spec

(* Whatever clients insert, interject, remove, reorder and clear, and      *)
(* whatever is swept, merged, requeued and cancelled between two awaits of *)
(* the run loop: no message is in the queue twice, none that was accepted  *)
(* is lost before it has its answer, and none is kept after it.            *)
THEOREM NothingIsLost == Spec => []Conserved
<1>1. ConserveInv => Conserved
  BY DEF ConserveInv
<1>. QED
  BY <1>1, ConserveInvHolds, PTL
=============================================================================
