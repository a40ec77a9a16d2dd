-------------------------- MODULE SpscQueueProofs --------------------------
(***************************************************************************)
(* Proofs about SpscQueue for every Capacity and every number of pushes,   *)
(* however WellScheduled lets it be used: that it keeps its invariant, and *)
(* that it implements FifoQueue, step by step.                             *)
(***************************************************************************)
EXTENDS SpscQueue, SequenceTheorems, TLAPS

\* The queue starts empty, with every copy equal to what it copies.
LEMMA QueueInvInit ==
    ASSUME Init
    PROVE  QueueInv
<1> SUFFICES ASSUME WellScheduled(use)
             PROVE  WellScheduledInv
  BY DEF QueueInv
<1> USE CapacityAssumption, MaxPushAssumption DEF Init, Index, Empty
<1>1. TypeOK
  <2>1. overwrite \in BOOLEAN /\ accepted \in BOOLEAN BY Zenon
  <2>2. slots \in [Index -> Values \cup {Empty}] OBVIOUS
  <2>3. pc \in [{"producer", "consumer"} -> ProducerPc \cup ConsumerPc]
    BY DEF ProducerPc, ConsumerPc
  <2> QED BY <2>1, <2>2, <2>3 DEF TypeOK, Values, ProducerPc, ConsumerPc
<1>2. DistanceIsCount /\ OneAtATime BY DEF DistanceIsCount, At, OneAtATime
<1>3. SlotsHoldQueue BY DEF SlotsHoldQueue, NVisible, Size, Distance
<1>4. ProducerCopiesCurrent /\ ConsumerCopiesCurrent
  BY DEF ProducerCopiesCurrent, ConsumerCopiesCurrent, NeverOverwrites
<1>5. OldestFirst BY DEF OldestFirst
<1> QED BY <1>1, <1>2, <1>3, <1>4, <1>5 DEF WellScheduledInv

\* Who runs, and what the other is not doing then.
LEMMA WhoRuns ==
    ASSUME WellScheduled(use)
    PROVE  /\ CanRun("consumer") => pc["producer"] = "idle"
           /\ CanRun("producer") => NeverOverwrites(use) \/ pc["consumer"] = "idle"
BY DEF WellScheduled, CanRun

\* A step of the producer moves it alone.
LEMMA ProducerStep ==
    ASSUME TypeOK, WellScheduled(use), UNCHANGED use, NEW from, NEW to \in ProducerPc,
           Step("producer", from, to)
    PROVE  /\ pc["producer"] = from /\ pc'["producer"] = to
           /\ pc'["consumer"] = pc["consumer"] /\ OneAtATime'
           /\ pc' \in [{"producer", "consumer"} -> ProducerPc \cup ConsumerPc]
BY WhoRuns DEF Step, TypeOK, OneAtATime, NeverOverwrites

\* A step of the consumer moves it alone, while the producer is idle.
LEMMA ConsumerStep ==
    ASSUME TypeOK, WellScheduled(use), UNCHANGED use, NEW from, NEW to \in ConsumerPc,
           Step("consumer", from, to)
    PROVE  /\ pc["consumer"] = from /\ pc'["consumer"] = to
           /\ pc["producer"] = "idle" /\ pc'["producer"] = "idle" /\ OneAtATime'
           /\ pc' \in [{"producer", "consumer"} -> ProducerPc \cup ConsumerPc]
BY WhoRuns DEF Step, TypeOK, OneAtATime, NeverOverwrites

\* The size is the number of values that are published and not gone.
LEMMA SizeIsCount ==
    ASSUME TypeOK, DistanceIsCount
    PROVE  /\ Size = nPublished - nGone /\ Size \in 0 .. Capacity - 1
           /\ NVisible = IF pc["producer"] = "write" THEN Size - 1 ELSE Size
<1>1. /\ Capacity \in Nat /\ Capacity > 0 /\ tail \in 0 .. Capacity - 1
      /\ nPublished \in Nat /\ nGone \in Nat
  BY CapacityAssumption, MaxPushAssumption DEF TypeOK, Index
<1> QED
  BY <1>1 DEF DistanceIsCount, At, Size, NVisible

\* The next index is one, and advancing is what the distance counts.
LEMMA NextIndex ==
    ASSUME NEW i \in Index
    PROVE  CircularIncrement(i) \in Index
BY CapacityAssumption DEF CircularIncrement, Index

\* A full queue is one of Capacity - 1 values.
LEMMA FullIsCapacity ==
    ASSUME TypeOK, DistanceIsCount
    PROVE  CircularIncrement(head) = tail <=> Size = Capacity - 1
<1>1. /\ Capacity \in Nat /\ Capacity > 0 /\ tail \in 0 .. Capacity - 1
      /\ head \in 0 .. Capacity - 1
  BY CapacityAssumption DEF TypeOK, Index
<1> QED
  BY <1>1 DEF CircularIncrement, Size

\* The queue has a value when tail is not head.
LEMMA EmptyIsZero ==
    ASSUME TypeOK
    PROVE  head = tail <=> Size = 0
BY CapacityAssumption DEF TypeOK, Index, Size

\* A step that leaves the indices and the array alone, and neither publishes nor
\* writes, leaves the queue as it is.
LEMMA RingUntouched ==
    ASSUME WellScheduledInv, UNCHANGED <<head, tail, slots, nPublished, nGone>>,
           pc'["producer"] = "write" <=> pc["producer"] = "write"
    PROVE  NVisible' = NVisible /\ DistanceIsCount' /\ SlotsHoldQueue'
BY DEF WellScheduledInv, DistanceIsCount, SlotsHoldQueue, NVisible, Size, At, Distance

\* The steps of push before it displaces or publishes.
LEMMA PushBegins ==
    ASSUME WellScheduledInv, WellScheduled(use), UNCHANGED use,
           \/ PushCall \/ FullLoadHead \/ PushRejects \/ PushMustDisplace
           \/ PushHasRoom \/ DisplaceLoad
    PROVE  WellScheduledInv'
<1>1. UNCHANGED <<head, tail, slots, nPublished, nGone, popVars>>
  BY DEF PushCall, FullLoadHead, PushRejects, PushMustDisplace, PushHasRoom,
         DisplaceLoad
<1>2. PICK from \in ProducerPc, to \in ProducerPc :
        /\ Step("producer", from, to)
        /\ from \in {"idle", "full_head", "full_tail", "displace_load"}
        /\ to # "write"
  BY DEF PushCall, FullLoadHead, PushRejects, PushMustDisplace, PushHasRoom,
         DisplaceLoad, ProducerPc
<1>3. /\ pc["producer"] = from /\ pc'["producer"] = to
      /\ pc'["consumer"] = pc["consumer"] /\ OneAtATime'
      /\ pc' \in [{"producer", "consumer"} -> ProducerPc \cup ConsumerPc]
  BY <1>2, ProducerStep DEF WellScheduledInv
<1>4. NVisible' = NVisible /\ DistanceIsCount' /\ SlotsHoldQueue'
  BY <1>1, <1>2, <1>3, RingUntouched
<1>5. ConsumerCopiesCurrent'
  BY <1>1, <1>3, <1>4 DEF WellScheduledInv, ConsumerCopiesCurrent, popVars,
                          CircularIncrement
<1>6. OldestFirst'
  BY <1>1, <1>3 DEF WellScheduledInv, OldestFirst, popVars, NeverOverwrites
<1>7. TypeOK /\ ProducerCopiesCurrent /\ use \in Uses
  BY DEF WellScheduledInv, TypeOK
<1>8. /\ headCopy' \in Index /\ pushTail' \in Index
      /\ overwrite' \in BOOLEAN /\ accepted' \in BOOLEAN
      /\ overwrite' => ~NeverOverwrites(use)
  <2>1. use.overwrites \subseteq BOOLEAN
    BY <1>7, UsesAssumption
  <2>2. CASE PushCall
    <3>1. overwrite' \in use.overwrites /\ UNCHANGED <<headCopy, pushTail, accepted>>
      BY <2>2 DEF PushCall
    <3>2. overwrite' \in BOOLEAN
      BY <2>1, <3>1
    <3>3. overwrite' => ~NeverOverwrites(use)
      BY <3>1, <3>2 DEF NeverOverwrites
    <3> QED
      BY <1>7, <3>1, <3>2, <3>3 DEF TypeOK
  <2>3. CASE FullLoadHead \/ PushRejects \/ DisplaceLoad
    <3>1. overwrite' = overwrite /\ headCopy' \in {headCopy, head}
      BY <2>3 DEF FullLoadHead, PushRejects, DisplaceLoad
    <3>2. pushTail' \in {pushTail, CircularIncrement(tail)}
      BY <2>3 DEF FullLoadHead, PushRejects, DisplaceLoad
    <3>3. accepted' = accepted \/ accepted' = FALSE
      BY <2>3 DEF FullLoadHead, PushRejects, DisplaceLoad
    <3>4. accepted' \in BOOLEAN
      BY <1>7, <3>3 DEF TypeOK
    <3> QED
      BY <1>7, <3>1, <3>2, <3>4, NextIndex DEF TypeOK, ProducerCopiesCurrent
  <2>4. CASE PushMustDisplace \/ PushHasRoom
    <3>1. UNCHANGED pushVars
      BY <2>4 DEF PushMustDisplace, PushHasRoom
    <3> QED
      BY <1>7, <3>1 DEF TypeOK, ProducerCopiesCurrent, pushVars
  <2> QED
    BY <2>2, <2>3, <2>4
<1>9. TypeOK'
  BY <1>1, <1>2, <1>3, <1>7, <1>8 DEF TypeOK, popVars
<1>10. ProducerCopiesCurrent'
  <2>1. CASE PushCall
    <3>1. pc'["producer"] = "full_head" /\ nPublished < MaxPush
      BY <1>7, <2>1, ProducerStep DEF PushCall, ProducerPc
    <3> QED
      BY <1>1, <1>8, <3>1 DEF ProducerCopiesCurrent, NeverOverwrites
  <2>2. CASE FullLoadHead
    <3>1. /\ pc["producer"] = "full_head" /\ pc'["producer"] = "full_tail"
          /\ headCopy' = head
      BY <1>7, <2>2, ProducerStep DEF FullLoadHead, ProducerPc
    <3> QED
      BY <1>1, <1>7, <1>8, <3>1 DEF ProducerCopiesCurrent, NeverOverwrites
  <2>3. CASE PushRejects
    <3>1. pc'["producer"] = "idle"
      BY <1>7, <2>3, ProducerStep DEF PushRejects, ProducerPc
    <3> QED
      BY <1>1, <1>8, <3>1 DEF ProducerCopiesCurrent, NeverOverwrites
  <2>4. CASE PushMustDisplace
    <3>1. /\ pc["producer"] = "full_tail" /\ pc'["producer"] = "displace_load"
          /\ CircularIncrement(headCopy) = tail /\ overwrite /\ UNCHANGED pushVars
      BY <1>7, <2>4, ProducerStep DEF PushMustDisplace, ProducerPc, FullAnswer
    <3> QED
      BY <1>1, <1>7, <1>8, <3>1
         DEF ProducerCopiesCurrent, NeverOverwrites, pushVars, CircularIncrement
  <2>5. CASE PushHasRoom
    <3>1. /\ pc["producer"] = "full_tail" /\ pc'["producer"] = "publish"
          /\ CircularIncrement(headCopy) # tail /\ UNCHANGED pushVars
      BY <1>7, <2>5, ProducerStep DEF PushHasRoom, ProducerPc, FullAnswer
    <3> QED
      BY <1>1, <1>7, <1>8, <3>1
         DEF ProducerCopiesCurrent, NeverOverwrites, pushVars, CircularIncrement
  <2>6. CASE DisplaceLoad
    <3>1. /\ pc["producer"] = "displace_load" /\ pc'["producer"] = "displace_store"
          /\ pushTail' = CircularIncrement(tail) /\ overwrite' = overwrite
      BY <1>7, <2>6, ProducerStep DEF DisplaceLoad, ProducerPc
    <3> QED
      BY <1>1, <1>7, <1>8, <3>1
         DEF ProducerCopiesCurrent, NeverOverwrites, CircularIncrement
  <2> QED
    BY <2>1, <2>2, <2>3, <2>4, <2>5, <2>6
<1> QED
  BY <1>3, <1>4, <1>5, <1>6, <1>9, <1>10 DEF WellScheduledInv
\* How far slot i is from tail, before and after tail is advanced.
LEMMA DistanceFromTail ==
    ASSUME TypeOK, NEW i \in Index, tail' = CircularIncrement(tail)
    PROVE  /\ Distance(i) \in 0 .. Capacity - 1
           /\ Distance(i)' = IF i = tail THEN Capacity - 1 ELSE Distance(i) - 1
           /\ Distance(i) = 0 <=> i = tail
<1>1. Capacity \in Nat /\ i \in 0 .. Capacity - 1 /\ tail \in 0 .. Capacity - 1
  BY CapacityAssumption DEF TypeOK, Index
<1> QED
  BY <1>1 DEF Distance, CircularIncrement

\* Advancing tail gives up the oldest value, and no other.
LEMMA TailAdvances ==
    ASSUME TypeOK, DistanceIsCount, SlotsHoldQueue, Size >= 1,
           tail' = CircularIncrement(tail), nGone' = nGone + 1,
           UNCHANGED <<head, slots, nPublished>>,
           pc["producer"] # "write", pc'["producer"] # "write"
    PROVE  /\ tail' \in Index /\ nGone' \in 0 .. nPublished
           /\ NVisible' = NVisible - 1 /\ NVisible' = Size'
           /\ DistanceIsCount' /\ SlotsHoldQueue'
<1>1. /\ Capacity \in Nat /\ Capacity > 0 /\ tail \in 0 .. Capacity - 1
      /\ head \in 0 .. Capacity - 1 /\ nPublished \in Nat /\ nGone \in Nat
  BY CapacityAssumption, MaxPushAssumption DEF TypeOK, Index
<1>2. Size = nPublished - nGone /\ Size \in 0 .. Capacity - 1 /\ NVisible = Size
  BY SizeIsCount
<1>3. Size' = Size - 1
  BY <1>1, <1>2 DEF Size, CircularIncrement
<1>4. NVisible' = Size'
  BY DEF NVisible
<1>5. DistanceIsCount'
  BY <1>1, <1>2 DEF DistanceIsCount, At, CircularIncrement
<1>6. SlotsHoldQueue'
  <2> SUFFICES ASSUME NEW i \in Index, Distance(i)' < NVisible'
               PROVE  slots[i] = nGone + 1 + Distance(i)' + 1
    BY DEF SlotsHoldQueue
  <2>1. i # tail /\ Distance(i)' = Distance(i) - 1 /\ Distance(i) \in 0 .. Capacity - 1
    BY <1>1, <1>2, <1>3, <1>4, DistanceFromTail
  <2>2. Distance(i) < NVisible
    BY <1>2, <1>3, <1>4, <2>1
  <2>3. slots[i] = nGone + Distance(i) + 1
    BY <2>2 DEF SlotsHoldQueue
  <2> HIDE DEF Distance
  <2> QED
    BY <1>1, <2>1, <2>3
<1>7. tail' \in Index
  BY NextIndex DEF TypeOK
<1>8. nGone' \in 0 .. nPublished
  BY <1>1, <1>2
<1> QED
  BY <1>2, <1>3, <1>4, <1>5, <1>6, <1>7, <1>8

\* push displaces the oldest value.
LEMMA PushDisplaces ==
    ASSUME WellScheduledInv, WellScheduled(use), UNCHANGED use, DisplaceStore
    PROVE  WellScheduledInv' /\ NVisible = Capacity - 1 /\ NVisible' = NVisible - 1
           /\ NVisible >= 1
<1>1. TypeOK /\ DistanceIsCount /\ SlotsHoldQueue /\ ProducerCopiesCurrent
      /\ OneAtATime
  BY DEF WellScheduledInv
<1>2. /\ pc["producer"] = "displace_store" /\ pc'["producer"] = "publish"
      /\ pc'["consumer"] = pc["consumer"] /\ OneAtATime'
      /\ pc' \in [{"producer", "consumer"} -> ProducerPc \cup ConsumerPc]
  BY <1>1, ProducerStep DEF DisplaceStore, ProducerPc
<1>3. /\ tail' = CircularIncrement(tail) /\ nGone' = nGone + 1
      /\ UNCHANGED <<head, slots, nPublished, pushVars, popVars>>
  BY <1>1, <1>2 DEF DisplaceStore, ProducerCopiesCurrent
<1>4. ~NeverOverwrites(use) /\ pc["consumer"] = "idle" /\ Capacity > 1
  BY <1>1, <1>2 DEF ProducerCopiesCurrent, OneAtATime, WellScheduled
<1>5. Size = Capacity - 1 /\ NVisible = Size /\ Size >= 1
  BY <1>1, <1>2, <1>4, FullIsCapacity, SizeIsCount, CapacityAssumption
     DEF ProducerCopiesCurrent
<1>6. /\ tail' \in Index /\ nGone' \in 0 .. nPublished
      /\ NVisible' = NVisible - 1 /\ NVisible' = Size'
      /\ DistanceIsCount' /\ SlotsHoldQueue'
  BY <1>1, <1>2, <1>3, <1>5, TailAdvances
<1>7. TypeOK'
  BY <1>1, <1>2, <1>3, <1>6 DEF TypeOK, pushVars, popVars, ProducerPc
<1>8. CircularIncrement(head) # tail'
  BY <1>1, <1>3, <1>4, <1>2, CapacityAssumption
     DEF ProducerCopiesCurrent, CircularIncrement, TypeOK, Index
<1>9. ProducerCopiesCurrent'
  BY <1>1, <1>2, <1>3, <1>8
     DEF ProducerCopiesCurrent, pushVars, NeverOverwrites, CircularIncrement
<1>10. ConsumerCopiesCurrent' /\ OldestFirst'
  BY <1>2, <1>4 DEF ConsumerCopiesCurrent, OldestFirst, NeverOverwrites
<1> QED
  BY <1>2, <1>5, <1>6, <1>7, <1>9, <1>10 DEF WellScheduledInv

\* push publishes the value that it is about to write.
LEMMA PushPublishes ==
    ASSUME WellScheduledInv, WellScheduled(use), UNCHANGED use, PublishHead
    PROVE  WellScheduledInv' /\ NVisible' = NVisible
<1>1. TypeOK /\ DistanceIsCount /\ SlotsHoldQueue /\ ProducerCopiesCurrent
      /\ ConsumerCopiesCurrent
  BY DEF WellScheduledInv
<1>2. /\ pc["producer"] = "publish" /\ pc'["producer"] = "write"
      /\ pc'["consumer"] = pc["consumer"] /\ OneAtATime'
      /\ pc' \in [{"producer", "consumer"} -> ProducerPc \cup ConsumerPc]
  BY <1>1, ProducerStep DEF PublishHead, ProducerPc
<1>3. /\ headCopy' = head /\ head' = CircularIncrement(head)
      /\ nPublished' = nPublished + 1
      /\ UNCHANGED <<tail, slots, overwrite, pushTail, accepted, popVars, nGone>>
  BY DEF PublishHead
<1>4. /\ Capacity \in Nat /\ Capacity > 0 /\ tail \in 0 .. Capacity - 1
      /\ head \in 0 .. Capacity - 1 /\ nPublished \in Nat /\ nGone \in Nat
      /\ MaxPush \in Nat
  BY <1>1, CapacityAssumption, MaxPushAssumption DEF TypeOK, Index
<1>5. CircularIncrement(head) # tail /\ nPublished < MaxPush
  BY <1>1, <1>2 DEF ProducerCopiesCurrent
<1>6. /\ Size = nPublished - nGone /\ Size \in 0 .. Capacity - 1 /\ NVisible = Size
  BY <1>1, <1>2, SizeIsCount
<1>7. Size' = Size + 1
  BY <1>3, <1>4, <1>5 DEF Size, CircularIncrement
<1>8. NVisible' = NVisible
  BY <1>2, <1>6, <1>7 DEF NVisible
<1>9. DistanceIsCount'
  BY <1>1, <1>3, <1>4, <1>5 DEF DistanceIsCount, At, CircularIncrement
<1>10. SlotsHoldQueue'
  BY <1>1, <1>3, <1>8 DEF SlotsHoldQueue, Distance
<1>11. TypeOK'
  <2>1. head' \in Index /\ headCopy' \in Index
    BY <1>1, <1>3, NextIndex DEF TypeOK
  <2>2. nPublished' \in 0 .. MaxPush /\ nGone \in 0 .. nPublished'
    BY <1>3, <1>4, <1>5, <1>1 DEF TypeOK
  <2> QED
    BY <1>1, <1>2, <1>3, <2>1, <2>2 DEF TypeOK, popVars, ProducerPc
<1>12. ProducerCopiesCurrent'
  BY <1>1, <1>2, <1>3, <1>5
     DEF ProducerCopiesCurrent, NeverOverwrites, CircularIncrement
<1>13. ConsumerCopiesCurrent'
  BY <1>1, <1>2, <1>3, <1>8 DEF ConsumerCopiesCurrent, popVars, CircularIncrement
<1>14. OldestFirst'
  BY <1>2, <1>3 DEF WellScheduledInv, OldestFirst, popVars, NeverOverwrites
<1> QED
  BY <1>2, <1>8, <1>9, <1>10, <1>11, <1>12, <1>13, <1>14 DEF WellScheduledInv

\* push writes the slot that it has published, and no pop reads that slot.
LEMMA PushWrites ==
    ASSUME WellScheduledInv, WellScheduled(use), UNCHANGED use, WriteSlot
    PROVE  /\ WellScheduledInv' /\ NVisible' = NVisible + 1
           /\ NVisible < Capacity - 1 /\ nPublished = nGone + NVisible'
           /\ nPublished \in Values
           /\ pc["consumer"] = "move" => slots'[tailCopy] = slots[tailCopy]
<1>1. TypeOK /\ DistanceIsCount /\ SlotsHoldQueue /\ ProducerCopiesCurrent
      /\ ConsumerCopiesCurrent
  BY DEF WellScheduledInv
<1>2. /\ pc["producer"] = "write" /\ pc'["producer"] = "idle"
      /\ pc'["consumer"] = pc["consumer"] /\ OneAtATime'
      /\ pc' \in [{"producer", "consumer"} -> ProducerPc \cup ConsumerPc]
  BY <1>1, ProducerStep DEF WriteSlot, ProducerPc
<1>3. /\ slots' = [slots EXCEPT ![headCopy] = nPublished] /\ accepted' = TRUE
      /\ UNCHANGED <<head, tail, headCopy, overwrite, pushTail, popVars,
                     nPublished, nGone>>
  BY DEF WriteSlot
<1>4. /\ Capacity \in Nat /\ Capacity > 0 /\ tail \in 0 .. Capacity - 1
      /\ head \in 0 .. Capacity - 1 /\ nPublished \in Nat /\ nGone \in Nat
      /\ MaxPush \in Nat /\ headCopy \in 0 .. Capacity - 1
      /\ tailCopy \in 0 .. Capacity - 1
  BY <1>1, CapacityAssumption, MaxPushAssumption DEF TypeOK, Index
<1>5. CircularIncrement(headCopy) = head /\ head # tail
  BY <1>1, <1>2 DEF ProducerCopiesCurrent
<1>6. /\ Size = nPublished - nGone /\ Size \in 0 .. Capacity - 1
      /\ NVisible = Size - 1 /\ Size # 0
  BY <1>1, <1>2, <1>5, SizeIsCount, EmptyIsZero
<1>7. Size' = Size /\ NVisible' = Size
  BY <1>2, <1>3 DEF NVisible, Size
<1>8. DistanceIsCount'
  BY <1>1, <1>3 DEF DistanceIsCount, At
<1>9. Distance(headCopy) = Size - 1
  BY <1>4, <1>5 DEF Distance, Size, CircularIncrement
<1>10. nPublished \in Values
  BY <1>1, <1>4, <1>6 DEF TypeOK, Values
<1>11. SlotsHoldQueue'
  <2> SUFFICES ASSUME NEW i \in Index, Distance(i) < Size
               PROVE  slots'[i] = nGone + Distance(i) + 1
    BY <1>3, <1>7 DEF SlotsHoldQueue, Distance
  <2>1. slots \in [Index -> Values \cup {Empty}]
    BY <1>1 DEF TypeOK
  <2>2. CASE i = headCopy
    <3>1. slots'[i] = nPublished
      BY <1>3, <2>1, <2>2
    <3> QED
      BY <1>4, <1>6, <1>9, <2>2, <3>1
  <2>3. CASE i # headCopy
    <3>1. Distance(i) # Distance(headCopy) /\ Distance(i) \in Nat
      BY <1>4, <2>3 DEF Distance, Index
    <3>2. Distance(i) < NVisible
      BY <1>6, <1>9, <3>1
    <3>3. slots[i] = nGone + Distance(i) + 1
      BY <1>1, <3>2 DEF SlotsHoldQueue
    <3> QED
      BY <1>3, <2>1, <2>3, <3>3
  <2> QED
    BY <2>2, <2>3
<1>12. TypeOK'
  <2>1. slots' \in [Index -> Values \cup {Empty}]
    BY <1>1, <1>3, <1>10 DEF TypeOK
  <2>2. accepted' \in BOOLEAN
    BY <1>3
  <2> QED
    BY <1>1, <1>2, <1>3, <2>1, <2>2 DEF TypeOK, popVars, ProducerPc
<1>13. ProducerCopiesCurrent'
  BY <1>1, <1>2, <1>3 DEF ProducerCopiesCurrent, NeverOverwrites
<1>14. pc["consumer"] = "move" => slots'[tailCopy] = slots[tailCopy]
  <2>1. pc["consumer"] = "move" => CircularIncrement(tailCopy) = tail
    BY <1>1 DEF ConsumerCopiesCurrent
  <2>2. pc["consumer"] = "move" => tailCopy # headCopy
    BY <1>5, <2>1
  <2>3. slots \in [Index -> Values \cup {Empty}] /\ tailCopy \in Index
    BY <1>1 DEF TypeOK
  <2> QED
    BY <1>3, <2>2, <2>3
<1>15. ConsumerCopiesCurrent'
  BY <1>1, <1>2, <1>3, <1>6, <1>7, <1>14
     DEF ConsumerCopiesCurrent, popVars, CircularIncrement
<1>16. OldestFirst'
  BY <1>2, <1>3 DEF WellScheduledInv, OldestFirst, popVars, NeverOverwrites
<1>17. NVisible' = NVisible + 1 /\ NVisible < Capacity - 1 /\ nPublished = nGone + NVisible'
  BY <1>4, <1>6, <1>7
<1> QED
  BY <1>2, <1>8, <1>10, <1>11, <1>12, <1>13, <1>14, <1>15, <1>16, <1>17
     DEF WellScheduledInv

\* The steps of pop but the one that advances tail.
LEMMA PopLooks ==
    ASSUME WellScheduledInv, WellScheduled(use), UNCHANGED use,
           \/ PopCall \/ PopFindsEmpty \/ PopFindsValue \/ LoadTailCopy
           \/ LoadNextTail \/ MoveSlot
    PROVE  /\ WellScheduledInv' /\ NVisible' = NVisible
           /\ PopFindsEmpty => NVisible = 0
<1>1. TypeOK /\ DistanceIsCount /\ ProducerCopiesCurrent /\ ConsumerCopiesCurrent
  BY DEF WellScheduledInv
<1>2. UNCHANGED <<head, tail, slots, nPublished, nGone, pushVars>>
  BY DEF PopCall, PopFindsEmpty, PopFindsValue, LoadTailCopy, LoadNextTail, MoveSlot
<1>3. PICK from \in ConsumerPc, to \in ConsumerPc : Step("consumer", from, to)
  BY DEF PopCall, PopFindsEmpty, PopFindsValue, LoadTailCopy, LoadNextTail, MoveSlot,
         ConsumerPc
<1>4. /\ pc["consumer"] = from /\ pc'["consumer"] = to
      /\ pc["producer"] = "idle" /\ pc'["producer"] = "idle" /\ OneAtATime'
      /\ pc' \in [{"producer", "consumer"} -> ProducerPc \cup ConsumerPc]
  BY <1>1, <1>3, ConsumerStep
<1>5. NVisible' = NVisible /\ DistanceIsCount' /\ SlotsHoldQueue'
  BY <1>2, <1>4, RingUntouched
<1>6. NVisible = Size /\ Size \in Nat /\ (head = tail <=> Size = 0)
  BY <1>1, <1>4, SizeIsCount, EmptyIsZero, CapacityAssumption
<1>7. ProducerCopiesCurrent'
  BY <1>1, <1>2, <1>4 DEF ProducerCopiesCurrent, NeverOverwrites, pushVars
<1>8. /\ tailCopy' \in Index /\ nextTail' \in Index
      /\ out' \in Values \cup {Empty}
  <2>1. tailCopy' \in {tailCopy, tail}
    BY DEF PopCall, PopFindsEmpty, PopFindsValue, LoadTailCopy, LoadNextTail, MoveSlot,
           popVars
  <2>2. nextTail' \in {nextTail, CircularIncrement(tail)}
    BY DEF PopCall, PopFindsEmpty, PopFindsValue, LoadTailCopy, LoadNextTail, MoveSlot,
           popVars
  <2>3. out' \in {out, Empty, slots[tailCopy]}
    BY DEF PopCall, PopFindsEmpty, PopFindsValue, LoadTailCopy, LoadNextTail, MoveSlot,
           popVars
  <2> QED
    BY <1>1, <2>1, <2>2, <2>3, NextIndex DEF TypeOK
<1>9. TypeOK'
  BY <1>1, <1>2, <1>3, <1>4, <1>8 DEF TypeOK, pushVars, ProducerPc
<1>10. ConsumerCopiesCurrent' /\ OldestFirst' /\ (PopFindsEmpty => NVisible = 0)
  <2>1. CASE PopCall
    <3>1. pc'["consumer"] = "empty_head" /\ tailCopy' = tail
      BY <1>1, <2>1, ConsumerStep DEF PopCall, ConsumerPc
    <3>2. ~PopFindsEmpty
      BY <1>1, <3>1, ConsumerStep, <2>1 DEF PopCall, PopFindsEmpty, ConsumerPc
    <3> QED
      BY <1>2, <3>1, <3>2 DEF ConsumerCopiesCurrent, OldestFirst
  <2>2. CASE PopFindsEmpty
    <3>1. /\ pc["consumer"] = "empty_head" /\ pc'["consumer"] = "idle"
          /\ tailCopy = head /\ out' = Empty
      BY <1>1, <2>2, ConsumerStep DEF PopFindsEmpty, ConsumerPc
    <3>2. head = tail
      BY <1>1, <3>1 DEF ConsumerCopiesCurrent
    <3> QED
      BY <1>6, <3>1, <3>2 DEF ConsumerCopiesCurrent, OldestFirst
  <2>3. CASE PopFindsValue
    <3>1. /\ pc["consumer"] = "empty_head" /\ pc'["consumer"] = "load_copy"
          /\ tailCopy # head
      BY <1>1, <2>3, ConsumerStep DEF PopFindsValue, ConsumerPc
    <3>2. NVisible >= 1 /\ ~PopFindsEmpty
      BY <1>1, <1>6, <3>1 DEF ConsumerCopiesCurrent, PopFindsEmpty
    <3> QED
      BY <1>5, <3>1, <3>2 DEF ConsumerCopiesCurrent, OldestFirst
  <2>4. CASE LoadTailCopy
    <3>1. /\ pc["consumer"] = "load_copy" /\ pc'["consumer"] = "load_next"
          /\ tailCopy' = tail
      BY <1>1, <2>4, ConsumerStep DEF LoadTailCopy, ConsumerPc
    <3>2. NVisible >= 1 /\ ~PopFindsEmpty
      BY <1>1, <3>1 DEF ConsumerCopiesCurrent, PopFindsEmpty, Step
    <3> QED
      BY <1>2, <1>5, <3>1, <3>2 DEF ConsumerCopiesCurrent, OldestFirst
  <2>5. CASE LoadNextTail
    <3>1. /\ pc["consumer"] = "load_next" /\ pc'["consumer"] = "advance"
          /\ nextTail' = CircularIncrement(tail) /\ tailCopy' = tailCopy
      BY <1>1, <2>5, ConsumerStep DEF LoadNextTail, ConsumerPc
    <3>2. NVisible >= 1 /\ tailCopy = tail /\ ~PopFindsEmpty
      BY <1>1, <3>1 DEF ConsumerCopiesCurrent, PopFindsEmpty, Step
    <3> QED
      BY <1>2, <1>5, <3>1, <3>2
         DEF ConsumerCopiesCurrent, OldestFirst, CircularIncrement
  <2>6. CASE MoveSlot
    <3>1. /\ pc["consumer"] = "move" /\ pc'["consumer"] = "idle"
          /\ out' = slots[tailCopy]
      BY <1>1, <2>6, ConsumerStep DEF MoveSlot, ConsumerPc
    <3>2. slots[tailCopy] = nGone /\ ~PopFindsEmpty
      BY <1>1, <3>1 DEF ConsumerCopiesCurrent, PopFindsEmpty, Step
    <3> QED
      BY <1>2, <3>1, <3>2 DEF ConsumerCopiesCurrent, OldestFirst
  <2> QED
    BY <2>1, <2>2, <2>3, <2>4, <2>5, <2>6
<1> QED
  BY <1>4, <1>5, <1>7, <1>9, <1>10 DEF WellScheduledInv

\* pop takes the oldest value: the slot it is going to read holds it.
LEMMA PopTakes ==
    ASSUME WellScheduledInv, WellScheduled(use), UNCHANGED use, AdvanceTail
    PROVE  /\ WellScheduledInv' /\ NVisible' = NVisible - 1 /\ NVisible >= 1
           /\ slots[tailCopy] = nGone + 1
<1>1. TypeOK /\ DistanceIsCount /\ SlotsHoldQueue /\ ProducerCopiesCurrent
      /\ ConsumerCopiesCurrent
  BY DEF WellScheduledInv
<1>2. /\ pc["consumer"] = "advance" /\ pc'["consumer"] = "move"
      /\ pc["producer"] = "idle" /\ pc'["producer"] = "idle" /\ OneAtATime'
      /\ pc' \in [{"producer", "consumer"} -> ProducerPc \cup ConsumerPc]
  BY <1>1, ConsumerStep DEF AdvanceTail, ConsumerPc
<1>3. NVisible >= 1 /\ tailCopy = tail /\ nextTail = CircularIncrement(tail)
  BY <1>1, <1>2 DEF ConsumerCopiesCurrent
<1>4. /\ tail' = CircularIncrement(tail) /\ nGone' = nGone + 1
      /\ UNCHANGED <<head, slots, nPublished, pushVars, popVars>>
  BY <1>3 DEF AdvanceTail
<1>5. NVisible = Size /\ Size \in 0 .. Capacity - 1
  BY <1>1, <1>2, SizeIsCount
<1>6. /\ tail' \in Index /\ nGone' \in 0 .. nPublished
      /\ NVisible' = NVisible - 1 /\ DistanceIsCount' /\ SlotsHoldQueue'
  BY <1>1, <1>2, <1>3, <1>4, <1>5, TailAdvances
<1>7. /\ tail \in Index /\ tail \in Nat /\ nGone \in Nat
  BY <1>1, MaxPushAssumption, CapacityAssumption DEF TypeOK, Index
<1>8. slots[tailCopy] = nGone + 1
  <2>1. Distance(tail) = 0
    BY <1>7 DEF Distance
  <2>2. slots[tail] = nGone + Distance(tail) + 1
    BY <1>1, <1>3, <1>5, <1>7, <2>1, CapacityAssumption DEF SlotsHoldQueue
  <2> QED
    BY <1>3, <1>7, <2>1, <2>2
<1>9. TypeOK'
  BY <1>1, <1>2, <1>4, <1>6 DEF TypeOK, pushVars, popVars, ProducerPc, ConsumerPc
<1>10. ProducerCopiesCurrent'
  BY <1>1, <1>2, <1>4 DEF ProducerCopiesCurrent, NeverOverwrites, pushVars
<1>11. ConsumerCopiesCurrent'
  <2>1. /\ CircularIncrement(tailCopy') = tail' /\ slots'[tailCopy'] = nGone'
        /\ nGone' >= 1
    BY <1>3, <1>4, <1>7, <1>8 DEF popVars
  <2> QED
    BY <1>2, <2>1 DEF ConsumerCopiesCurrent, CircularIncrement
<1>12. OldestFirst'
  BY <1>2 DEF OldestFirst
<1> QED
  BY <1>2, <1>3, <1>6, <1>8, <1>9, <1>10, <1>11, <1>12 DEF WellScheduledInv

\* Every step of push and of pop keeps the indices, the counts and the
\* contents of the slots in agreement.
LEMMA QueueInvStep ==
    ASSUME QueueInv, [Next]_vars
    PROVE  QueueInv'
<1>1. use' = use
  BY DEF Next, vars
<1> SUFFICES ASSUME WellScheduled(use), WellScheduledInv
             PROVE  WellScheduledInv'
  BY <1>1 DEF QueueInv
<1>2. CASE UNCHANGED vars
  <2>1. NVisible' = NVisible /\ DistanceIsCount' /\ SlotsHoldQueue'
    BY <1>2, RingUntouched DEF vars
  <2>2. TypeOK' /\ OneAtATime' /\ OldestFirst'
    BY <1>2 DEF WellScheduledInv, TypeOK, OneAtATime, OldestFirst, NeverOverwrites,
                vars, pushVars, popVars
  <2>3. ProducerCopiesCurrent' /\ ConsumerCopiesCurrent'
    BY <1>2, <2>1 DEF WellScheduledInv, ProducerCopiesCurrent, ConsumerCopiesCurrent,
                NeverOverwrites, CircularIncrement, vars, pushVars, popVars
  <2> QED
    BY <2>1, <2>2, <2>3 DEF WellScheduledInv
<1>3. CASE Push
  BY <1>1, <1>3, PushBegins, PushDisplaces, PushPublishes, PushWrites DEF Push
<1>4. CASE Pop
  BY <1>1, <1>4, PopLooks, PopTakes DEF Pop
<1> QED
  BY <1>2, <1>3, <1>4 DEF Next

\* Every behaviour of the queue keeps QueueInv: pop hands out the oldest
\* value, from a slot that holds it, whatever the capacity.
THEOREM QueueInvariant ==
    Spec => []QueueInv
<1>1. Init => QueueInv BY QueueInvInit
<1>2. QueueInv /\ [Next]_vars => QueueInv' BY QueueInvStep
<1> QED BY <1>1, <1>2, PTL DEF Spec

\* Indices stay inside the array.
THEOREM TypeCorrect ==
    Spec => [](WellScheduled(use) => TypeOK)
<1>1. QueueInv => (WellScheduled(use) => TypeOK)
  BY DEF QueueInv, WellScheduledInv
<1> QED BY <1>1, QueueInvariant, PTL

\* pop returns the values in the order push accepted them.
THEOREM PopReturnsOldest ==
    Spec => [](WellScheduled(use) => OldestFirst)
<1>1. QueueInv => (WellScheduled(use) => OldestFirst)
  BY DEF QueueInv, WellScheduledInv
<1> QED BY <1>1, QueueInvariant, PTL

\* push never writes the slot a preempted pop is about to read: the two
\* indices would coincide only if head had caught up with tail.
THEOREM NoSlotRaces ==
    Spec => [](WellScheduled(use) => NoSlotRace)
<1>1. QueueInv => (WellScheduled(use) => NoSlotRace)
  BY CapacityAssumption
  DEF QueueInv, WellScheduledInv, TypeOK, ProducerCopiesCurrent, ConsumerCopiesCurrent,
      NoSlotRace, CircularIncrement, Index
<1> QED BY <1>1, QueueInvariant, PTL

-----------------------------------------------------------------------------
(* The refinement.  What is visible to the consumer is a run of consecutive *)
(* values, so a step changes it as FifoQueue says if it changes the first   *)
(* of them and their number as it should.                                   *)

\* The n values after the g-th.
Run(g, n) == [k \in 1 .. n |-> g + k]

\* A run is a sequence; adding the next value and removing the first one give
\* runs.
LEMMA RunProperties ==
    ASSUME NEW g \in Nat, NEW n \in Nat
    PROVE  /\ Run(g, n) \in Seq(Nat) /\ Len(Run(g, n)) = n
           /\ Run(g, n) = <<>> <=> n = 0
           /\ Append(Run(g, n), g + n + 1) = Run(g, n + 1)
           /\ n > 0 => Head(Run(g, n)) = g + 1 /\ Tail(Run(g, n)) = Run(g + 1, n - 1)
<1>1. Run(g, n) \in Seq(Nat) /\ Len(Run(g, n)) = n
  BY DEF Run
<1>2. Run(g, n) = <<>> <=> n = 0
  BY <1>1, EmptySeq, LenProperties
<1>3. Append(Run(g, n), g + n + 1) = Run(g, n + 1)
  BY <1>1 DEF Run
<1>4. n > 0 => Head(Run(g, n)) = g + 1 /\ Tail(Run(g, n)) = Run(g + 1, n - 1)
  <2>1. n > 0 => Head(Run(g, n)) = g + 1
    BY <1>1 DEF Run
  <2>2. ASSUME n > 0 PROVE Tail(Run(g, n)) = Run(g + 1, n - 1)
    BY <1>1, <2>2 DEF Run
  <2> QED BY <2>1, <2>2
<1> QED
  BY <1>1, <1>2, <1>3, <1>4

\* What the consumer sees is the run of the values after those that are gone.
LEMMA ContentsAreRun ==
    ASSUME WellScheduledInv
    PROVE  Contents = Run(nGone, NVisible) /\ nGone \in Nat /\ NVisible \in Nat
<1>1. TypeOK /\ DistanceIsCount /\ SlotsHoldQueue /\ ProducerCopiesCurrent
  BY DEF WellScheduledInv
<1>2. /\ Capacity \in Nat /\ tail \in 0 .. Capacity - 1 /\ nGone \in Nat
  BY <1>1, CapacityAssumption, MaxPushAssumption DEF TypeOK, Index
<1>3. NVisible \in 0 .. Capacity - 1
  BY <1>1, <1>2, SizeIsCount, EmptyIsZero DEF ProducerCopiesCurrent
<1>4. ASSUME NEW k \in 1 .. NVisible PROVE slots[At(k - 1)] = nGone + k
  <2>1. At(k - 1) \in Index /\ Distance(At(k - 1)) = k - 1
    BY <1>2, <1>3 DEF At, Distance, Index
  <2>2. slots[At(k - 1)] = nGone + Distance(At(k - 1)) + 1
    BY <1>1, <1>3, <2>1 DEF SlotsHoldQueue
  <2> QED
    BY <1>2, <1>3, <2>1, <2>2
<1> QED
  BY <1>2, <1>3, <1>4 DEF Contents, Run
\* The same after a step.
LEMMA ContentsStayRun ==
    (WellScheduledInv => /\ Contents = Run(nGone, NVisible)
                         /\ nGone \in Nat /\ NVisible \in Nat)'
<1>1. WellScheduledInv => /\ Contents = Run(nGone, NVisible)
                          /\ nGone \in Nat /\ NVisible \in Nat
  BY ContentsAreRun
<1> QED
  BY <1>1, PTL
\* The phases FifoQueue sees.
LEMMA PhasesAre ==
    /\ pc["producer"] # "idle" => PushPhase = "called"
    /\ pc["producer"] = "idle" => PushPhase = IF accepted THEN "accepted" ELSE "rejected"
    /\ pc["consumer"] = "idle" => PopPhase = "returned"
    /\ pc["consumer"] = "move" => PopPhase = "taken"
    /\ pc["consumer"] \notin {"idle", "move"} => PopPhase = "called"
BY DEF PushPhase, PopPhase

\* The same after a step.
LEMMA PhasesStay ==
    (/\ pc["producer"] # "idle" => PushPhase = "called"
     /\ pc["producer"] = "idle" => PushPhase = IF accepted THEN "accepted" ELSE "rejected"
     /\ pc["consumer"] = "idle" => PopPhase = "returned"
     /\ pc["consumer"] = "move" => PopPhase = "taken"
     /\ pc["consumer"] \notin {"idle", "move"} => PopPhase = "called")'
<1>1. /\ pc["producer"] # "idle" => PushPhase = "called"
      /\ pc["producer"] = "idle" => PushPhase = IF accepted THEN "accepted" ELSE "rejected"
      /\ pc["consumer"] = "idle" => PopPhase = "returned"
      /\ pc["consumer"] = "move" => PopPhase = "taken"
      /\ pc["consumer"] \notin {"idle", "move"} => PopPhase = "called"
  BY PhasesAre
<1> QED
  BY <1>1, PTL

\* A step of push is a call, an answer, or nothing that FifoQueue sees.
LEMMA PushRefines ==
    ASSUME WellScheduledInv, WellScheduled(use), UNCHANGED use, Push
    PROVE  Fifo!Next \/ UNCHANGED Fifo!vars
<1>1. TypeOK /\ DistanceIsCount /\ ProducerCopiesCurrent
  BY DEF WellScheduledInv
<1>2. WellScheduledInv'
  BY PushBegins, PushDisplaces, PushPublishes, PushWrites DEF Push
<1>3. Contents = Run(nGone, NVisible) /\ nGone \in Nat /\ NVisible \in Nat
  BY ContentsAreRun
<1>4. Contents' = Run(nGone', NVisible')
  BY <1>2, ContentsStayRun DEF Run
<1>5. PICK from \in ProducerPc, to \in ProducerPc : Step("producer", from, to)
  BY DEF Push, PushCall, FullLoadHead, PushRejects, PushMustDisplace, PushHasRoom,
         DisplaceLoad, DisplaceStore, PublishHead, WriteSlot, ProducerPc
<1>6. pc'["consumer"] = pc["consumer"] /\ UNCHANGED popVars
  BY <1>1, <1>5, ProducerStep
     DEF Push, PushCall, FullLoadHead, PushRejects, PushMustDisplace, PushHasRoom,
         DisplaceLoad, DisplaceStore, PublishHead, WriteSlot
<1>7. PopPhase' = PopPhase /\ out' = out
  BY <1>6 DEF PopPhase, popVars
<1>8. InHand' = InHand
  <2>1. CASE WriteSlot
    BY <1>6, <2>1, PushWrites DEF InHand, popVars
  <2>2. CASE ~WriteSlot
    BY <1>6, <2>2 DEF InHand, popVars, Push, PushCall, FullLoadHead, PushRejects,
       PushMustDisplace, PushHasRoom, DisplaceLoad, DisplaceStore, PublishHead
  <2> QED
    BY <2>1, <2>2
<1>9. CASE PushCall
  <2>1. /\ pc["producer"] = "idle" /\ pc'["producer"] = "full_head"
        /\ overwrite' \in BOOLEAN /\ nGone' = nGone
    BY <1>1, <1>2, <1>9, ProducerStep DEF PushCall, ProducerPc, WellScheduledInv, TypeOK
  <2>2. NVisible' = NVisible
    BY <1>1, <1>9, <2>1, RingUntouched DEF PushCall
  <2>3. PushPhase # "called" /\ PushPhase' = "called"
    BY <2>1, PhasesAre, PhasesStay
  <2>4. Contents' = Contents
    BY <1>3, <1>4, <2>1, <2>2
  <2> HIDE DEF Contents, PushPhase, PopPhase, InHand
  <2>5. Fifo!CallPush
    BY <1>7, <1>8, <2>1, <2>3, <2>4 DEF Fifo!CallPush
  <2> QED
    BY <2>5 DEF Fifo!Next
<1>10. CASE FullLoadHead \/ PushMustDisplace \/ PushHasRoom \/ DisplaceLoad
  <2>1. /\ pc["producer"] # "idle" /\ pc'["producer"] # "idle"
        /\ pc["producer"] # "write" /\ pc'["producer"] # "write"
        /\ overwrite' = overwrite /\ UNCHANGED <<head, tail, slots, nPublished, nGone>>
    BY <1>1, <1>10, ProducerStep
       DEF FullLoadHead, PushMustDisplace, PushHasRoom, DisplaceLoad, ProducerPc, pushVars
  <2>2. NVisible' = NVisible
    BY <2>1, RingUntouched
  <2>3. PushPhase' = PushPhase
    BY <2>1, PhasesAre, PhasesStay
  <2>4. Contents' = Contents
    BY <1>3, <1>4, <2>1, <2>2
  <2> QED
    BY <1>7, <1>8, <2>1, <2>3, <2>4 DEF Fifo!vars
<1>11. CASE PushRejects
  <2>1. /\ pc["producer"] = "full_tail" /\ pc'["producer"] = "idle" /\ ~accepted'
        /\ overwrite' = overwrite /\ UNCHANGED <<head, tail, slots, nPublished, nGone>>
        /\ CircularIncrement(head) = tail
    BY <1>1, <1>11, ProducerStep
       DEF PushRejects, ProducerPc, FullAnswer, ProducerCopiesCurrent
  <2>2. NVisible' = NVisible
    BY <2>1, RingUntouched
  <2>3. PushPhase = "called" /\ PushPhase' = "rejected"
    BY <2>1, PhasesAre, PhasesStay
  <2>4. Contents' = Contents
    BY <1>3, <1>4, <2>1, <2>2
  <2>5. Len(Contents) = Capacity - 1
    <3>1. NVisible = Capacity - 1
      BY <1>1, <2>1, SizeIsCount, FullIsCapacity
    <3> QED
      BY <1>3, <3>1, RunProperties
  <2>6. Fifo!Reject
    BY <1>7, <1>8, <2>1, <2>3, <2>4, <2>5 DEF Fifo!Reject
  <2> QED
    BY <2>6 DEF Fifo!Next
<1>12. CASE DisplaceStore
  <2>1. /\ NVisible = Capacity - 1 /\ NVisible' = NVisible - 1 /\ NVisible >= 1
    BY <1>12, PushDisplaces
  <2>2. /\ pc["producer"] = "displace_store" /\ pc'["producer"] = "publish"
        /\ overwrite /\ overwrite' = overwrite /\ nGone' = nGone + 1
    BY <1>1, <1>12, ProducerStep
       DEF DisplaceStore, ProducerPc, ProducerCopiesCurrent, pushVars
  <2>3. PushPhase = "called" /\ PushPhase' = "called"
    BY <2>2, PhasesAre, PhasesStay
  <2>4. /\ Len(Contents) = Capacity - 1 /\ Contents # <<>>
        /\ Contents' = Tail(Contents)
    <3>1. NVisible > 0 /\ NVisible # 0
      BY <1>3, <2>1
    <3>2. /\ Len(Contents) = NVisible /\ Contents # <<>>
          /\ Head(Contents) = nGone + 1
          /\ Tail(Contents) = Run(nGone + 1, NVisible - 1)
      BY <1>3, <3>1, RunProperties
    <3>3. Contents' = Run(nGone + 1, NVisible - 1)
      BY <1>4, <2>1, <2>2
    <3> QED
      BY <2>1, <3>2, <3>3
  <2>5. Fifo!Displace
    BY <1>7, <1>8, <2>2, <2>3, <2>4 DEF Fifo!Displace
  <2> QED
    BY <2>5 DEF Fifo!Next
<1>13. CASE PublishHead
  <2>1. /\ pc["producer"] = "publish" /\ pc'["producer"] = "write"
        /\ overwrite' = overwrite /\ nGone' = nGone
    BY <1>1, <1>13, ProducerStep DEF PublishHead, ProducerPc
  <2>2. PushPhase' = PushPhase
    BY <2>1, PhasesAre, PhasesStay
  <2>3. Contents' = Contents
    BY <1>3, <1>4, <1>13, <2>1, PushPublishes
  <2> QED
    BY <1>7, <1>8, <2>1, <2>2, <2>3 DEF Fifo!vars
<1>14. CASE WriteSlot
  <2>1. /\ NVisible' = NVisible + 1 /\ NVisible < Capacity - 1
        /\ nPublished = nGone + NVisible' /\ nPublished \in Values
    BY <1>14, PushWrites
  <2>2. /\ pc["producer"] = "write" /\ pc'["producer"] = "idle" /\ accepted'
        /\ overwrite' = overwrite /\ nGone' = nGone
    BY <1>1, <1>14, ProducerStep DEF WriteSlot, ProducerPc
  <2>3. PushPhase = "called" /\ PushPhase' = "accepted"
    BY <2>2, PhasesAre, PhasesStay
  <2>4. Len(Contents) < Capacity - 1 /\ Contents' = Append(Contents, nPublished)
    <3>1. nPublished = nGone + NVisible + 1
      BY <1>3, <2>1
    <3> QED
      BY ZenonT(40), <1>3, <1>4, <2>1, <2>2, <3>1, RunProperties
  <2>5. Fifo!Accept(nPublished)
    BY <1>7, <1>8, <2>2, <2>3, <2>4 DEF Fifo!Accept
  <2> QED
    BY <2>1, <2>5 DEF Fifo!Next
<1> QED
  BY <1>9, <1>10, <1>11, <1>12, <1>13, <1>14 DEF Push

\* A step of pop is a call, an answer, the instant it takes the value, or nothing
\* that FifoQueue sees.
LEMMA PopRefines ==
    ASSUME WellScheduledInv, WellScheduled(use), UNCHANGED use, Pop
    PROVE  Fifo!Next \/ UNCHANGED Fifo!vars
<1>1. TypeOK /\ DistanceIsCount /\ ConsumerCopiesCurrent
  BY DEF WellScheduledInv
<1>2. WellScheduledInv'
  BY PopLooks, PopTakes DEF Pop
<1>3. Contents = Run(nGone, NVisible) /\ nGone \in Nat /\ NVisible \in Nat
  BY ContentsAreRun
<1>4. Contents' = Run(nGone', NVisible')
  BY <1>2, ContentsStayRun DEF Run
<1>5. PICK from \in ConsumerPc, to \in ConsumerPc : Step("consumer", from, to)
  BY DEF Pop, PopCall, PopFindsEmpty, PopFindsValue, LoadTailCopy, LoadNextTail,
         AdvanceTail, MoveSlot, ConsumerPc
<1>6. pc["producer"] = "idle" /\ pc'["producer"] = "idle" /\ UNCHANGED pushVars
  BY <1>1, <1>5, ConsumerStep
     DEF Pop, PopCall, PopFindsEmpty, PopFindsValue, LoadTailCopy, LoadNextTail,
         AdvanceTail, MoveSlot
<1>7. PushPhase' = PushPhase /\ overwrite' = overwrite
  BY <1>6, PhasesAre, PhasesStay DEF pushVars
<1>8. ASSUME ~AdvanceTail PROVE Contents' = Contents /\ slots' = slots
  <2>1. nGone' = nGone /\ NVisible' = NVisible /\ slots' = slots
    BY <1>8, PopLooks DEF Pop, PopCall, PopFindsEmpty, PopFindsValue, LoadTailCopy,
       LoadNextTail, MoveSlot
  <2> QED
    BY <1>3, <1>4, <2>1
<1>9. CASE PopCall
  <2>1. /\ pc["consumer"] = "idle" /\ pc'["consumer"] = "empty_head" /\ out' = out
    BY <1>1, <1>9, ConsumerStep DEF PopCall, ConsumerPc
  <2>2. PopPhase = "returned" /\ PopPhase' = "called"
    BY <2>1, PhasesAre, PhasesStay
  <2>3. InHand' = InHand
    BY <2>1 DEF InHand
  <2>4. ~AdvanceTail
    BY <2>1 DEF AdvanceTail, Step
  <2>5. Fifo!CallPop
    BY <1>7, <1>8, <2>1, <2>2, <2>3, <2>4 DEF Fifo!CallPop
  <2> QED
    BY <2>5 DEF Fifo!Next
<1>10. CASE PopFindsEmpty
  <2>1. /\ pc["consumer"] = "empty_head" /\ pc'["consumer"] = "idle" /\ out' = Empty
    BY <1>1, <1>10, ConsumerStep DEF PopFindsEmpty, ConsumerPc
  <2>2. PopPhase = "called" /\ PopPhase' = "returned"
    BY <2>1, PhasesAre, PhasesStay
  <2>3. InHand' = InHand
    BY <2>1 DEF InHand
  <2>4. ~AdvanceTail
    BY <2>1 DEF AdvanceTail, Step
  <2>5. Contents = <<>>
    BY <1>3, <1>10, PopLooks, RunProperties
  <2>6. Fifo!FindEmpty
    BY <1>7, <1>8, <2>1, <2>2, <2>3, <2>4, <2>5 DEF Fifo!FindEmpty
  <2> QED
    BY <2>6 DEF Fifo!Next
<1>11. CASE PopFindsValue \/ LoadTailCopy \/ LoadNextTail
  <2>1. /\ pc["consumer"] \in {"empty_head", "load_copy", "load_next"}
        /\ pc'["consumer"] \in {"load_copy", "load_next", "advance"} /\ out' = out
    BY <1>1, <1>11, ConsumerStep
       DEF PopFindsValue, LoadTailCopy, LoadNextTail, ConsumerPc, popVars
  <2>2. PopPhase' = PopPhase
    BY <2>1, PhasesAre, PhasesStay
  <2>3. InHand' = InHand
    BY <2>1 DEF InHand
  <2>4. ~AdvanceTail
    BY <2>1 DEF AdvanceTail, Step
  <2> QED
    BY <1>7, <1>8, <2>1, <2>2, <2>3, <2>4 DEF Fifo!vars
<1>12. CASE AdvanceTail
  <2>1. /\ pc["consumer"] = "advance" /\ pc'["consumer"] = "move"
        /\ UNCHANGED <<slots, popVars>> /\ nGone' = nGone + 1
    BY <1>1, <1>12, ConsumerStep DEF AdvanceTail, ConsumerPc
  <2>2. /\ NVisible' = NVisible - 1 /\ NVisible >= 1
        /\ slots[tailCopy] = nGone + 1
    BY <1>12, PopTakes
  <2>3. PopPhase = "called" /\ PopPhase' = "taken"
    BY <2>1, PhasesAre, PhasesStay
  <2>4. /\ Contents # <<>> /\ Head(Contents) = nGone + 1
        /\ Contents' = Tail(Contents)
    <3>1. NVisible > 0 /\ NVisible # 0
      BY <1>3, <2>2
    <3>2. /\ Len(Contents) = NVisible /\ Contents # <<>>
          /\ Head(Contents) = nGone + 1
          /\ Tail(Contents) = Run(nGone + 1, NVisible - 1)
      BY <1>3, <3>1, RunProperties
    <3>3. Contents' = Run(nGone + 1, NVisible - 1)
      BY <1>4, <2>1, <2>2
    <3> QED
      BY <2>1, <3>2, <3>3
  <2>5. InHand' = Head(Contents) /\ out' = out
    BY <2>1, <2>2, <2>4 DEF InHand, popVars
  <2>6. Fifo!Take
    BY <1>7, <2>3, <2>4, <2>5 DEF Fifo!Take
  <2> QED
    BY <2>6 DEF Fifo!Next
<1>13. CASE MoveSlot
  <2>1. /\ pc["consumer"] = "move" /\ pc'["consumer"] = "idle"
        /\ out' = slots[tailCopy]
    BY <1>1, <1>13, ConsumerStep DEF MoveSlot, ConsumerPc
  <2>2. PopPhase = "taken" /\ PopPhase' = "returned"
    BY <2>1, PhasesAre, PhasesStay
  <2>3. out' = InHand /\ InHand' = Empty
    BY <2>1 DEF InHand
  <2>4. ~AdvanceTail
    BY <2>1 DEF AdvanceTail, Step
  <2>5. Fifo!Hand
    BY <1>7, <1>8, <2>2, <2>3, <2>4 DEF Fifo!Hand
  <2> QED
    BY <2>5 DEF Fifo!Next
<1> QED
  BY <1>9, <1>10, <1>11, <1>12, <1>13 DEF Pop

\* The start of a queue is that of an empty one.
LEMMA InitRefines ==
    ASSUME Init
    PROVE  Fifo!Init
<1>1. /\ pc = [t \in {"producer", "consumer"} |-> "idle"] /\ accepted = TRUE
      /\ overwrite = FALSE /\ out = Empty /\ head = 0 /\ tail = 0
  BY DEF Init
<1>2. PushPhase = "accepted" /\ PopPhase = "returned" /\ InHand = Empty
  BY <1>1, PhasesAre DEF InHand
<1>3. NVisible = 0
  BY <1>1 DEF NVisible, Size
<1>4. Contents = <<>>
  BY <1>3 DEF Contents
<1> QED
  BY <1>1, <1>2, <1>4 DEF Fifo!Init

\* However the queue is used, as long as its uses are well scheduled, it is a
\* linearizable bounded FIFO: each push and each pop takes effect at one instant
\* between its call and its return, push says "full" only of a queue with
\* Capacity - 1 values and pop "empty" only of one with none.
THEOREM QueueImplementsFifo ==
    ASSUME \A u \in Uses : WellScheduled(u)
    PROVE  Spec => ImplementsFifo
<1>1. Init => use \in Uses
  BY DEF Init
<1>2. use \in Uses /\ [Next]_vars => (use \in Uses)'
  BY DEF Next, vars
<1>3. Init => Fifo!Init
  BY InitRefines
<1>4. use \in Uses /\ QueueInv /\ [Next]_vars => [Fifo!Next]_(Fifo!vars)
  <2> SUFFICES ASSUME use \in Uses, QueueInv, [Next]_vars
               PROVE  Fifo!Next \/ UNCHANGED Fifo!vars
    BY Zenon
  <2>1. WellScheduled(use) /\ WellScheduledInv
    BY DEF QueueInv
  <2>2. use' = use
    BY DEF Next, vars
  <2>3. CASE UNCHANGED vars
    BY <2>3 DEF vars, pushVars, popVars, Fifo!vars, Contents, NVisible, Size, At,
                PushPhase, PopPhase, InHand
  <2> QED
    BY <2>1, <2>2, <2>3, PushRefines, PopRefines DEF Next
<1> QED
  BY <1>1, <1>2, <1>3, <1>4, QueueInvariant, PTL DEF Spec, ImplementsFifo, Fifo!Spec
=============================================================================
