-------------------------- MODULE ForkchoiceProofs --------------------------
(***************************************************************************)
(* What forkchoiceUpdated keeps true on every block tree, for any number   *)
(* of concurrent calls, failed writes and crashes.                         *)
(***************************************************************************)
EXTENDS Forkchoice, HeaderChains

\* The blocks the node can serve, and those a refusal took out of the Payloads
\* table.
Seen == stored \cup payloads \cup dropped

-----------------------------------------------------------------------------
(* Type correctness.                                                       *)

\* A number that is not above another is not its successor.
LEMMA NotAbove ==
    ASSUME NEW m \in Nat, NEW n \in Nat, m = n \/ m < n
    PROVE  m # n + 1
  OBVIOUS

\* Every height below a block's is some block's, since parents are one lower.
LEMMA HeightsClosed ==
    /\ 0 \in Heights
    /\ Heights \subseteq Nat
    /\ \A n \in Heights : n > 0 => n - 1 \in Heights
  <1>1. 0 \in Heights
    BY BlockAssumption, Zenon DEF Heights
  <1>2. Heights \subseteq Nat
    BY BlockAssumption DEF Heights
  <1>3. ASSUME NEW n \in Heights, n > 0 PROVE n - 1 \in Heights
    <2>1. PICK b \in Hash : Height[b] = n
      BY Zenon DEF Heights
    <2>2. b # Genesis
      BY <1>3, <2>1, BlockAssumption
    <2>3. Height[b] = Height[Parent[b]] + 1 /\ Parent[b] \in Hash
      BY <2>2, BlockAssumption, PathAssumption, Zenon
    <2>4. Height[Parent[b]] \in Nat /\ Height[Parent[b]] \in Heights
      BY <2>3, BlockAssumption, Zenon DEF Heights
    <2> QED
      BY <2>1, <2>3, <2>4
  <1> QED
    BY <1>1, <1>2, <1>3, Zenon

\* The initial state satisfies the type invariant.
LEMMA InitType == Init => TypeOK
  <1> SUFFICES ASSUME Init PROVE TypeOK
    BY Zenon
  <1>1. lowered \in BOOLEAN /\ dropped \subseteq Hash
    BY Zenon DEF Init
  <1>2. /\ stored \subseteq Hash /\ numbers \subseteq Hash /\ payloads \subseteq Hash
        /\ canon \in [Heights -> MaybeHash] /\ invalid \in [Hash -> Reasons]
    BY BlockAssumption, Zenon DEF Init, MaybeHash, Reasons
  <1>3. /\ head \in Hash /\ safe \in MaybeHash /\ finalized \in MaybeHash
        /\ headNumber \in Heights /\ crashes \in Nat
    BY BlockAssumption, HeightsClosed DEF Init, MaybeHash
  <1>4. <<>> \in Seq(Hash)
    OBVIOUS
  <1> QED
    BY <1>1, <1>2, <1>3, <1>4, BlockAssumption, HeightsClosed, Zenon
    DEF Init, TypeOK, MaybeHash, Labels, Replies

\* A call that returns leaves well-typed locals.
LEMMA ReturnType ==
    ASSUME TypeOK, NEW t \in Tasks, NEW r \in Replies, Return(t, r)
    PROVE  /\ pc' \in [Tasks -> Labels]
           /\ reply' \in [Tasks -> Replies]
           /\ req' \in [Tasks -> Hash] /\ old' \in [Tasks -> Hash]
           /\ reqSafe' \in [Tasks -> MaybeHash] /\ reqFin' \in [Tasks -> MaybeHash]
           /\ oldSafe' \in [Tasks -> MaybeHash] /\ oldFin' \in [Tasks -> MaybeHash]
           /\ oldNumber' \in [Tasks -> Heights]
           /\ branch' \in [Tasks -> Seq(Hash)] /\ todo' \in [Tasks -> Seq(Hash)]
           /\ revertTo' \in [Tasks -> Heights] /\ cursor' \in [Tasks -> Heights]
  <1>1. pc' \in [Tasks -> Labels] /\ reply' \in [Tasks -> Replies]
    BY Zenon DEF TypeOK, Return, Goto, Answer, Labels
  <1>2. req' \in [Tasks -> Hash] /\ old' \in [Tasks -> Hash]
    BY BlockAssumption, Zenon DEF TypeOK, Return
  <1>3. /\ reqSafe' \in [Tasks -> MaybeHash] /\ reqFin' \in [Tasks -> MaybeHash]
        /\ oldSafe' \in [Tasks -> MaybeHash] /\ oldFin' \in [Tasks -> MaybeHash]
    BY Zenon DEF TypeOK, Return, MaybeHash
  <1>4. <<>> \in Seq(Hash)
    OBVIOUS
  <1>5. branch' \in [Tasks -> Seq(Hash)] /\ todo' \in [Tasks -> Seq(Hash)]
    BY <1>4, Zenon DEF TypeOK, Return
  <1>6. /\ oldNumber' \in [Tasks -> Heights]
        /\ revertTo' \in [Tasks -> Heights] /\ cursor' \in [Tasks -> Heights]
    BY HeightsClosed, Zenon DEF TypeOK, Return
  <1> QED
    BY <1>1, <1>2, <1>3, <1>5, <1>6, Zenon

\* The forkchoice of a call, and the one it saved, are well-typed.
LEMMA ForkchoiceType ==
    ASSUME TypeOK, NEW t \in Tasks, SetForkchoice(t) \/ Restore(t)
    PROVE  head' \in Hash /\ safe' \in MaybeHash /\ finalized' \in MaybeHash /\ headNumber' \in Heights
  <1>1. Height[req[t]] \in Heights
    BY Zenon DEF TypeOK, Heights
  <1> QED
    BY <1>1 DEF TypeOK, SetForkchoice, Restore

\* What resolve_reorg computes is well-typed.
LEMMA PlannedType ==
    ASSUME TypeOK, NEW t \in Tasks, NEW i \in DOMAIN Path[req[t]], Planned(t, i)
    PROVE  /\ branch' \in [Tasks -> Seq(Hash)]
           /\ revertTo' \in [Tasks -> Heights]
           /\ pc' \in [Tasks -> Labels]
           /\ branch'[t] = SubSeq(Path[req[t]], 1, i - 1)
           /\ \A u \in Tasks \ {t} : branch'[u] = branch[u]
  <1>1. Path[req[t]] \in Seq(Hash)
    BY PathAssumption, Zenon DEF TypeOK
  <1>2. i \in 1 .. Len(Path[req[t]])
    BY <1>1
  <1>3. SubSeq(Path[req[t]], 1, i - 1) \in Seq(Hash)
    BY <1>1, <1>2
  <1>4. Path[req[t]][i] \in Hash
    BY <1>1, <1>2
  <1>5. Height[Path[req[t]][i]] \in Heights
    BY <1>4, Zenon DEF Heights
  <1>6. branch' = [branch EXCEPT ![t] = SubSeq(Path[req[t]], 1, i - 1)]
    BY Zenon DEF Planned
  <1>7. revertTo' \in [Tasks -> Heights]
    BY <1>5, HeightsClosed, Zenon DEF Planned, TypeOK
  <1>8. pc' \in [Tasks -> Labels]
    BY Zenon DEF Planned, Goto, TypeOK, Labels
  <1> QED
    BY Zenon, <1>3, <1>6, <1>7, <1>8 DEF TypeOK

\* The labels between mark_branch_canonical's look at a block and its last write.
Entering == {"unlist", "link", "number"}

\* The loop is at a block there.
Entered == \A t \in Tasks : pc[t] \in Entering => todo[t] # <<>>

\* The block that mark_branch_canonical is at.
LEMMA MarkingType ==
    ASSUME TypeOK, NEW t \in Tasks, todo[t] # <<>>
    PROVE  /\ Marking(t) \in Hash /\ SubSeq(todo[t], 1, Len(todo[t]) - 1) \in Seq(Hash)
           /\ Len(todo[t]) \in Nat /\ Len(todo[t]) \in 1 .. Len(todo[t])
  <1>1. todo[t] \in Seq(Hash)
    BY Zenon DEF TypeOK
  <1> QED
    BY <1>1 DEF Marking

\* Every step of a call keeps the types.
LEMMA StepType == ASSUME TypeOK, Entered, NEW t \in Tasks, Step(t) PROVE TypeOK'
  <1> USE DEF TypeOK, At, tables, fcState, memory, request, saved, plan
  <1>1. CASE UpdateForkchoice(t)
    <2>1. pc' \in [Tasks -> Labels]
      BY <1>1, Zenon DEF UpdateForkchoice, Goto, Labels
    <2> QED
      BY <1>1, <2>1, ForkchoiceType, Zenon DEF UpdateForkchoice
  <1>2. CASE ResolveReorg(t)
    <2>1. PICK i \in DOMAIN Path[req[t]] : Planned(t, i)
      BY <1>2, Zenon DEF ResolveReorg, Stops
    <2> QED
      BY <1>2, <2>1, PlannedType, Zenon DEF ResolveReorg
  <1>3. CASE BeginRevert(t)
    BY <1>3, Zenon DEF BeginRevert, Goto, Labels
  <1>4. CASE RevertHeight(t)
    <2>1. cursor[t] \in Heights /\ revertTo[t] \in Heights /\ cursor[t] > revertTo[t]
      BY <1>4, Zenon DEF RevertHeight
    <2>2. cursor[t] - 1 \in Heights
      <3>1. cursor[t] \in Nat /\ revertTo[t] \in Nat
        BY Zenon, <2>1, HeightsClosed
      <3>2. cursor[t] > 0
        BY <2>1, <3>1
      <3> QED
        BY Zenon, <2>1, <3>2, HeightsClosed
    <2>3. cursor' \in [Tasks -> Heights]
      BY <1>4, <2>2, Zenon DEF RevertHeight
    <2>4. canon' \in [Heights -> MaybeHash]
      BY <1>4, Zenon DEF RevertHeight, MaybeHash
    <2> QED
      BY <1>4, <2>3, <2>4, Zenon DEF RevertHeight
  <1>5. CASE RevertHead(t)
    BY <1>5, Zenon DEF RevertHead, Goto, Labels, MaybeHash
  <1>6. CASE RevertFails(t)
    BY <1>6, ForkchoiceType, ReturnType, Zenon DEF RevertFails, Replies
  <1>7. CASE PromoteBlock(t)
    <2>1. todo[t] \in Seq(Hash) /\ todo[t] # <<>>
      BY <1>7, Zenon DEF PromoteBlock
    <2>2. Head(todo[t]) \in Hash /\ Tail(todo[t]) \in Seq(Hash)
      BY <2>1
    <2>3. todo' \in [Tasks -> Seq(Hash)]
      BY <1>7, <2>2, Zenon DEF PromoteBlock
    <2> QED
      BY <1>7, <2>3, Zenon DEF PromoteBlock
  <1>8. CASE PromoteFails(t)
    BY <1>8, ReturnType, Zenon DEF PromoteFails, Replies
  <1>9. CASE PromoteDone(t)
    BY <1>9, Zenon DEF PromoteDone, Goto, Labels
  <1>10. CASE InsertBlock(t)
    <2>1. Marking(t) \in Hash
      BY <1>10, MarkingType, Zenon DEF InsertBlock
    <2>2. stored' \subseteq Hash /\ numbers' \subseteq Hash
      BY <1>10, <2>1, Zenon DEF InsertBlock
    <2>3. pc' \in [Tasks -> Labels]
      BY <1>10, Zenon DEF InsertBlock, Goto, Labels
    <2> QED
      BY <1>10, <2>2, <2>3, Zenon DEF InsertBlock
  <1>a. CASE RemovePayload(t)
    <2>1. pc' \in [Tasks -> Labels] /\ payloads' \subseteq Hash
      BY <1>a, Zenon DEF RemovePayload, Goto, Labels
    <2> QED
      BY <1>a, <2>1, Zenon DEF RemovePayload
  <1>b. CASE SetCanonical(t)
    <2>1. Marking(t) \in Hash
      BY <1>b, MarkingType, Zenon DEF SetCanonical, Entered, Entering
    <2>2. canon' \in [Heights -> MaybeHash]
      BY <1>b, <2>1, Zenon DEF SetCanonical, MaybeHash
    <2>3. pc' \in [Tasks -> Labels]
      BY <1>b, Zenon DEF SetCanonical, Goto, Labels
    <2> QED
      BY <1>b, <2>2, <2>3, Zenon DEF SetCanonical
  <1>c. CASE InsertHeaderNumber(t)
    <2>1. Marking(t) \in Hash /\ SubSeq(todo[t], 1, Len(todo[t]) - 1) \in Seq(Hash)
      BY <1>c, MarkingType, Zenon DEF InsertHeaderNumber, Entered, Entering
    <2>2. todo' \in [Tasks -> Seq(Hash)] /\ numbers' \subseteq Hash
      BY <1>c, <2>1, Zenon DEF InsertHeaderNumber
    <2>3. pc' \in [Tasks -> Labels]
      BY <1>c, Zenon DEF InsertHeaderNumber, Goto, Labels
    <2> QED
      BY <1>c, <2>2, <2>3, Zenon DEF InsertHeaderNumber
  <1>11. CASE MarkFails(t)
    BY <1>11, ReturnType, Zenon DEF MarkFails, Replies
  <1>12. CASE MarkDone(t)
    BY <1>12, Zenon DEF MarkDone, Goto, Labels
  <1>d. ASSUME NEW r \in {"VALID", "BADATTRIBUTES"}, HeadGone(t, r) PROVE TypeOK'
    BY <1>d, ReturnType, Zenon DEF HeadGone, Replies
  <1>13. ASSUME NEW r \in {"VALID", "BADATTRIBUTES"}, Finish(t, r) PROVE TypeOK'
    BY <1>13, ForkchoiceType, ReturnType, Zenon DEF Finish, Replies
  <1>14. ASSUME NEW b \in Hash, FinishAndBuild(t, b) PROVE TypeOK'
    BY Zenon, <1>14, ForkchoiceType, ReturnType DEF FinishAndBuild, Replies
  <1> QED
    BY Zenon, <1>1, <1>2, <1>3, <1>4, <1>5, <1>6, <1>7, <1>8, <1>9, <1>10, <1>11, <1>12, <1>13, <1>14,
       <1>a, <1>b, <1>c, <1>d
    DEF Step

\* Calls that are answered at once, and calls that are taken up.
LEMMA CallType == ASSUME TypeOK, NEW t \in Tasks, Call(t) PROVE TypeOK'
  <1> USE DEF TypeOK, tables, fcState, memory, request, saved, plan
  <1>1. PICK h \in Hash :
            RefuseHead(t, h) \/ \E s, f \in SafeArgs : RefuseForkchoice(t, h, s, f) \/ Accept(t, h, s, f)
    BY Zenon DEF Call
  <1>2. CASE RefuseHead(t, h)
    <2>1. PICK buffered \in BOOLEAN : Answer(t, HeadReply(h, buffered))
      BY <1>2, Zenon DEF RefuseHead
    <2>2. HeadReply(h, buffered) \in Replies
      BY Zenon DEF HeadReply, SoftenedReply, Replies
    <2>3. reply' \in [Tasks -> Replies]
      BY <2>1, <2>2, Zenon DEF Answer
    <2> QED
      BY <1>2, <2>3, Zenon DEF RefuseHead
  <1>3. ASSUME NEW s \in SafeArgs, NEW f \in SafeArgs, RefuseForkchoice(t, h, s, f) PROVE TypeOK'
    BY <1>3, Zenon DEF RefuseForkchoice, Answer, Replies
  <1>4. ASSUME NEW s \in SafeArgs, NEW f \in SafeArgs, Accept(t, h, s, f) PROVE TypeOK'
    <2>1. s \in MaybeHash /\ f \in MaybeHash
      BY BlockAssumption, Zenon
    <2>2. pc' \in [Tasks -> Labels] /\ reply' \in [Tasks -> Replies]
      BY <1>4, Zenon DEF Accept, Labels, Replies
    <2>3. lowered' \in BOOLEAN
      BY <1>4, Zenon DEF Accept
    <2> QED
      BY Zenon, <1>4, <2>1, <2>2, <2>3 DEF Accept
  <1> QED
    BY <1>1, <1>2, <1>3, <1>4

\* Imports and restarts keep the types.
LEMMA EnvironmentType == ASSUME TypeOK, Import \/ Crash PROVE TypeOK'
  <1>1. ASSUME NEW b \in Hash, RefusedAndRemoved(b) PROVE TypeOK'
    BY <1>1, Zenon DEF RefusedAndRemoved, TypeOK, Reasons, fcState, call, request, saved, plan
  <1>2. ASSUME NEW b \in Hash, ImportPersist(b) PROVE TypeOK'
    BY <1>2, Zenon DEF ImportPersist, TypeOK, Reasons, fcState, call, request, saved, plan
  <1>3. ASSUME NEW b \in Hash, NEW reason \in {"Soft", "Hard"}, Refused(b, reason) PROVE TypeOK'
    BY <1>3, Zenon DEF Refused, TypeOK, Reasons, tables, fcState, call, request, saved, plan
  <1>4. CASE Crash
    <2>1. headNumber' \in Heights
      BY Zenon, <1>4, HeightsClosed DEF Crash, TypeOK, Heights
    <2> QED
      BY SMTT(60), Z3T(60), <1>4, <2>1, BlockAssumption, HeightsClosed
      DEF Crash, TypeOK, tables, MaybeHash, Reasons, Labels, Replies
  <1> QED
    BY <1>1, <1>2, <1>3, <1>4, Zenon DEF Import

\* A call that is at one of these labels was there before, at the same block, or
\* comes from InsertBlock.
LEMMA EnteringStep ==
    ASSUME TypeOK, [Next]_vars, NEW u \in Tasks, pc'[u] \in Entering
    PROVE  InsertBlock(u) \/ (pc[u] \in Entering /\ todo'[u] = todo[u])
  <1> USE DEF request, saved, plan, call
  <1>0. pc \in [Tasks -> Labels] /\ todo \in [Tasks -> Seq(Hash)]
    BY Zenon DEF TypeOK
  <1>1. CASE UNCHANGED <<pc, todo>>
    BY <1>1, Zenon
  <1>2. ASSUME NEW t \in Tasks, NEW label, label \notin Entering, pc' = [pc EXCEPT ![t] = label],
               NEW list, todo' = [todo EXCEPT ![t] = list]
        PROVE  pc[u] \in Entering /\ todo'[u] = todo[u]
    BY <1>0, <1>2, Zenon
  <1>3. ASSUME NEW t \in Tasks, NEW label, label \notin Entering, pc' = [pc EXCEPT ![t] = label],
               todo' = todo
        PROVE  pc[u] \in Entering /\ todo'[u] = todo[u]
    BY <1>0, <1>3, Zenon
  <1>4. ASSUME NEW t \in Tasks, NEW r, Return(t, r) PROVE pc[u] \in Entering /\ todo'[u] = todo[u]
    BY <1>2, <1>4, Zenon DEF Return, Goto, Entering
  <1>5. CASE Import
    BY <1>1, <1>5, Zenon DEF Import, ImportPersist, Refused, RefusedAndRemoved
  <1>6. CASE Crash
    BY <1>6, Zenon DEF Crash, Entering
  <1>7. ASSUME NEW t \in Tasks, Call(t) PROVE pc[u] \in Entering /\ todo'[u] = todo[u]
    <2>1. CASE UNCHANGED <<pc, todo>>
      BY <2>1, Zenon
    <2>2. ASSUME NEW h, NEW s, NEW f, Accept(t, h, s, f) PROVE pc[u] \in Entering /\ todo'[u] = todo[u]
      BY <1>3, <2>2, Zenon DEF Accept, Entering
    <2> QED
      BY <1>7, <2>1, <2>2, Zenon DEF Call, RefuseHead, RefuseForkchoice
  <1>8. ASSUME NEW t \in Tasks, Step(t) PROVE InsertBlock(u) \/ (pc[u] \in Entering /\ todo'[u] = todo[u])
    <2>1. CASE UpdateForkchoice(t)
      BY <1>3, <2>1, Zenon DEF UpdateForkchoice, Goto, Entering
    <2>2. CASE ResolveReorg(t)
      <3>1. PICK label \in {"revert", "promote"} : Goto(t, label)
        BY <2>2, Zenon DEF ResolveReorg, Planned
      <3> QED
        BY <1>2, <2>2, <3>1, Zenon DEF ResolveReorg, Goto, Entering
    <2>3. CASE BeginRevert(t)
      BY <1>3, <2>3, Zenon DEF BeginRevert, Goto, Entering
    <2>4. CASE RevertHeight(t)
      BY <1>1, <2>4, Zenon DEF RevertHeight
    <2>5. CASE RevertHead(t)
      BY <1>3, <2>5, Zenon DEF RevertHead, Goto, Entering
    <2>6. CASE PromoteBlock(t)
      <3>1. pc[t] = "promote" /\ UNCHANGED pc /\ todo' = [todo EXCEPT ![t] = Tail(@)]
        BY <2>6, Zenon DEF PromoteBlock, At
      <3> QED
        BY <1>0, <3>1, Zenon DEF Entering
    <2>7. CASE PromoteDone(t)
      BY <1>2, <2>7, Zenon DEF PromoteDone, Goto, Entering
    <2>8. CASE InsertBlock(t)
      <3>1. CASE u = t
        BY <2>8, <3>1, Zenon
      <3>2. CASE u # t
        BY <1>0, <2>8, <3>2, Zenon DEF InsertBlock, Goto
      <3> QED
        BY <3>1, <3>2, Zenon
    <2>9. CASE RemovePayload(t) \/ SetCanonical(t)
      <3>1. pc[t] \in Entering /\ UNCHANGED todo
        BY <2>9, Zenon DEF RemovePayload, SetCanonical, At, Entering
      <3>2. u # t => pc'[u] = pc[u]
        BY <1>0, <2>9, Zenon DEF RemovePayload, SetCanonical, Goto
      <3> QED
        BY <3>1, <3>2, Zenon
    <2>10. CASE InsertHeaderNumber(t)
      BY <1>2, <2>10, Zenon DEF InsertHeaderNumber, Goto, Entering
    <2>11. CASE MarkDone(t)
      BY <1>3, <2>11, Zenon DEF MarkDone, Goto, Entering
    <2>12. CASE \E r : Return(t, r)
      BY <1>4, <2>12, Zenon
    <2> QED
      BY <1>8, <2>1, <2>2, <2>3, <2>4, <2>5, <2>6, <2>7, <2>8, <2>9, <2>10, <2>11, <2>12, Zenon
      DEF Step, RevertFails, PromoteFails, MarkFails, HeadGone, Finish, FinishAndBuild
  <1>9. CASE UNCHANGED vars
    BY <1>1, <1>9, Zenon DEF vars
  <1> QED
    BY <1>5, <1>6, <1>7, <1>8, <1>9, Zenon DEF Next

\* The loop stays at a block.
LEMMA EnteredKept == ASSUME TypeOK, Entered, [Next]_vars PROVE Entered'
  <1> SUFFICES ASSUME NEW u \in Tasks, pc'[u] \in Entering PROVE todo'[u] # <<>>
    BY Zenon DEF Entered, Entering
  <1>1. CASE InsertBlock(u)
    BY <1>1, Zenon DEF InsertBlock
  <1>2. CASE pc[u] \in Entering /\ todo'[u] = todo[u]
    BY <1>2, Zenon DEF Entered
  <1> QED
    BY <1>1, <1>2, EnteringStep, Zenon

\* Every step keeps the types.
LEMMA NextType == TypeOK /\ Entered /\ [Next]_vars => TypeOK' /\ Entered'
  <1> SUFFICES ASSUME TypeOK, Entered, [Next]_vars PROVE TypeOK' /\ Entered'
    BY Zenon
  <1>1. ASSUME UNCHANGED vars PROVE TypeOK'
    BY <1>1, Zenon DEF TypeOK, vars, tables, fcState, memory, call, request, saved, plan
  <1>2. ASSUME Next PROVE TypeOK'
    BY <1>2, StepType, CallType, EnvironmentType, Zenon DEF Next
  <1> QED
    BY <1>1, <1>2, EnteredKept, Zenon

\* TypeOK holds throughout, for every block tree and number of calls; in
\* particular revert_to_height never counts below genesis.
THEOREM TypeCorrect == Spec => []TypeOK
  <1>1. Init => Entered
    BY Zenon DEF Init, Entered, Entering
  <1> QED
    BY <1>1, InitType, NextType, PTL DEF Spec

-----------------------------------------------------------------------------
(* A canonical entry dangles, and the head is unknown, only after a refusal *)
(* took the block out of the Payloads table.  Neither is inductive by       *)
(* itself: a call writes canonical entries from the branch it planned and   *)
(* heads from what it was given or saved, steps earlier.                    *)

\* All blocks a call in flight still refers to are known or were.
InFlight ==
    /\ Genesis \in stored
    /\ \A t \in Tasks :
        /\ req[t] \in Seen
        /\ old[t] \in Seen
        /\ \A i \in 1 .. Len(branch[t]) : branch[t][i] \in Seen
        /\ \A i \in 1 .. Len(todo[t]) : todo[t][i] \in Seen

\* The block that mark_branch_canonical looked at is in the main tables, or it
\* was not to be found.
Marked == \A t \in Tasks : pc[t] \in Entering => Marking(t) \in stored \cup dropped

\* A stored header has its number.
Numbered == stored \subseteq numbers

Inv == TypeOK /\ Entered /\ CanonicalStored /\ HeadKnown /\ InFlight /\ Marked /\ Numbered

\* No step loses a block of the main tables, and a block that leaves the Payloads
\* table goes into them or was refused.
Grows == stored \subseteq stored' /\ dropped \subseteq dropped' /\ Seen \subseteq Seen'

\* Every step is of this kind: RemovePayload takes out a block it has copied.
LEMMA SeenGrows ==
    ASSUME TypeOK, Marked, [Next]_vars
    PROVE  Grows
  <1> USE DEF Grows, Seen, tables, memory
  <1>1. CASE UNCHANGED vars
    BY <1>1, Zenon DEF vars
  <1>2. CASE Import
    <2>1. ASSUME NEW b \in Hash, RefusedAndRemoved(b) PROVE Grows
      BY <2>1, Zenon DEF RefusedAndRemoved
    <2>2. ASSUME NEW b \in Hash, ImportPersist(b) PROVE Grows
      BY <2>2, Zenon DEF ImportPersist
    <2>3. ASSUME NEW b \in Hash, NEW r \in {"Soft", "Hard"}, Refused(b, r) PROVE Grows
      BY <2>3, Zenon DEF Refused
    <2> QED
      BY <1>2, <2>1, <2>2, <2>3, Zenon DEF Import
  <1>3. CASE Crash
    BY <1>3, Zenon DEF Crash
  <1>4. ASSUME NEW t \in Tasks, Call(t) PROVE Grows
    BY Zenon, <1>4 DEF Call, RefuseHead, RefuseForkchoice, Accept
  <1>5. ASSUME NEW t \in Tasks, Step(t) PROVE Grows
    <2>1. CASE InsertBlock(t)
      BY <2>1, Zenon DEF InsertBlock
    <2>2. CASE \E b \in Hash : FinishAndBuild(t, b)
      BY <2>2, Zenon DEF FinishAndBuild
    <2>3. CASE UNCHANGED <<stored, payloads, dropped>>
      BY <2>3, Zenon
    <2>4. CASE RemovePayload(t)
      <3>1. Marking(t) \in stored \cup dropped
        BY <2>4, Zenon DEF RemovePayload, At, Marked, Entering
      <3> QED
        BY <2>4, <3>1, Zenon DEF RemovePayload
    <2> QED
      BY Zenon, <1>5, <2>1, <2>2, <2>3, <2>4
      DEF Step, UpdateForkchoice, ResolveReorg, BeginRevert, RevertHeight, RevertHead, RevertFails,
          PromoteBlock, PromoteFails, PromoteDone, SetCanonical, InsertHeaderNumber, MarkFails, MarkDone,
          HeadGone, Finish
  <1> QED
    BY <1>1, <1>2, <1>3, <1>4, <1>5, Zenon DEF Next

\* What InsertBlock finds stays in the main tables, or is known to be gone.
LEMMA MarkedKept ==
    ASSUME TypeOK, Entered, InFlight, Marked, Grows, [Next]_vars
    PROVE  Marked'
  <1> SUFFICES ASSUME NEW u \in Tasks, pc'[u] \in Entering
               PROVE  Marking(u)' \in stored' \cup dropped'
    BY Zenon DEF Marked, Entering
  <1>1. CASE InsertBlock(u)
    <2>1. todo[u] # <<>> /\ UNCHANGED todo
      BY <1>1, Zenon DEF InsertBlock
    <2>2. Len(todo[u]) \in 1 .. Len(todo[u])
      BY <2>1, MarkingType, Zenon
    <2>3. Marking(u) \in Seen
      BY <2>2, Zenon DEF InFlight, Marking
    <2>4. Marking(u) \in stored' \cup dropped'
      BY <1>1, <2>3, Zenon DEF InsertBlock, Seen, memory
    <2> QED
      BY <2>1, <2>4, Zenon DEF Marking
  <1>2. CASE pc[u] \in Entering /\ todo'[u] = todo[u]
    BY <1>2, Zenon DEF Marked, Marking, Grows
  <1> QED
    BY <1>1, <1>2, EnteringStep, Zenon

\* Headers and numbers are written in one batch, and numbers stay.
LEMMA NumberedKept == ASSUME Numbered, [Next]_vars PROVE Numbered'
  <1> USE DEF Numbered, tables
  <1>1. CASE UNCHANGED <<stored, numbers>>
    BY <1>1, Zenon
  <1>2. CASE Import
    BY <1>2, Zenon DEF Import, ImportPersist, Refused, RefusedAndRemoved
  <1>3. ASSUME NEW t \in Tasks, InsertBlock(t) \/ InsertHeaderNumber(t) PROVE Numbered'
    BY <1>3, Zenon DEF InsertBlock, InsertHeaderNumber
  <1>4. ASSUME NEW t \in Tasks, Call(t) PROVE Numbered'
    BY <1>1, <1>4, Zenon DEF Call, RefuseHead, RefuseForkchoice, Accept
  <1>5. ASSUME NEW t \in Tasks, Step(t) PROVE Numbered'
    BY <1>1, <1>3, <1>5, Zenon
    DEF Step, UpdateForkchoice, ResolveReorg, BeginRevert, RevertHeight, RevertHead, RevertFails,
        PromoteBlock, PromoteFails, PromoteDone, RemovePayload, SetCanonical, MarkFails, MarkDone,
        HeadGone, Finish, FinishAndBuild
  <1> QED
    BY <1>1, <1>2, <1>4, <1>5, Zenon DEF Next, Crash, vars

\* A step that leaves the canonical table alone, or only clears entries, keeps
\* CanonicalStored.
LEMMA CanonicalKept ==
    ASSUME TypeOK, CanonicalStored, Grows,
           \A n \in Heights : canon'[n] = canon[n] \/ canon'[n] = None
    PROVE  CanonicalStored'
  BY Zenon DEF CanonicalStored, Grows

\* A step that changes none of a call's locals keeps InFlight.
LEMMA InFlightKept ==
    ASSUME InFlight, Grows,
           UNCHANGED <<req, old, branch, todo>>
    PROVE  InFlight'
  BY Zenon DEF InFlight, Grows

\* A call that returns refers to nothing but genesis.
LEMMA ReturnInFlight ==
    ASSUME TypeOK, InFlight, Grows,
           NEW t \in Tasks, NEW r, Return(t, r)
    PROVE  InFlight'
  <1>1. Genesis \in Seen' /\ Genesis \in stored'
    BY Zenon DEF InFlight, Seen, Grows
  <1> SUFFICES ASSUME NEW u \in Tasks
               PROVE  /\ req'[u] \in Seen' /\ old'[u] \in Seen'
                      /\ \A i \in 1 .. Len(branch'[u]) : branch'[u][i] \in Seen'
                      /\ \A i \in 1 .. Len(todo'[u]) : todo'[u][i] \in Seen'
    BY <1>1, Zenon DEF InFlight
  <1>2. CASE u = t
    <2>1. req'[u] = Genesis /\ old'[u] = Genesis /\ branch'[u] = <<>> /\ todo'[u] = <<>>
      BY <1>2, Zenon DEF Return, TypeOK
    <2>2. 1 .. Len(<<>>) = {}
      BY SMTT(60), Z3T(60)
    <2> QED
      BY <1>1, <2>1, <2>2, Zenon
  <1>3. CASE u # t
    <2>1. req'[u] = req[u] /\ old'[u] = old[u] /\ branch'[u] = branch[u] /\ todo'[u] = todo[u]
      BY <1>3, Zenon DEF Return, TypeOK
    <2> QED
      BY Zenon, <2>1 DEF InFlight, Grows
  <1> QED
    BY <1>2, <1>3, Zenon

\* The branch that resolve_reorg plans consists of known blocks: the walk stops
\* at the first block that nobody has.
LEMMA PlannedKnown ==
    ASSUME TypeOK, InFlight, NEW t \in Tasks, ResolveReorg(t)
    PROVE  \A u \in Tasks : \A i \in 1 .. Len(branch'[u]) : branch'[u][i] \in Seen
  <1>1. PICK i \in Stops(t) : (\A j \in Stops(t) : i <= j) /\ Planned(t, i)
    BY Zenon DEF ResolveReorg
  <1>2. i \in DOMAIN Path[req[t]]
    BY <1>1, Zenon DEF Stops
  <1>3. Path[req[t]] \in Seq(Hash)
    BY PathAssumption, Zenon DEF TypeOK
  <1>4. i \in 1 .. Len(Path[req[t]])
    BY SMTT(60), Z3T(60), <1>2, <1>3
  <1> DEFINE p == Path[req[t]]
  <1>5. /\ branch'[t] = SubSeq(p, 1, i - 1)
        /\ \A u \in Tasks \ {t} : branch'[u] = branch[u]
    BY <1>1, <1>2, PlannedType, Zenon
  <1>6. Len(SubSeq(p, 1, i - 1)) = i - 1
    BY <1>3, <1>4
  <1>7. ASSUME NEW j \in 1 .. (i - 1) PROVE SubSeq(p, 1, i - 1)[j] \in Seen
    <2>1. SubSeq(p, 1, i - 1)[j] = p[j]
      BY <1>3, <1>4
    <2>2. j \in DOMAIN p /\ j < i
      BY <1>3, <1>4
    <2>3. j \notin Stops(t)
      BY <1>1, <1>4, <2>2
    <2>4. p[j] \in stored \cup payloads
      BY <2>2, <2>3, Zenon DEF Stops
    <2> QED
      BY Zenon, <2>1, <2>4 DEF Seen
  <1>8. ASSUME NEW u \in Tasks, NEW k \in 1 .. Len(branch'[u]) PROVE branch'[u][k] \in Seen
    <2>1. CASE u = t
      BY Zenon, <1>5, <1>6, <1>7, <1>8, <2>1
    <2>2. CASE u # t
      BY <1>5, <1>8, <2>2, Zenon DEF InFlight
    <2> QED
      BY <2>1, <2>2, Zenon
  <1> QED
    BY <1>8, Zenon

\* The head a call sets or restores is known.
LEMMA HeadSet ==
    ASSUME InFlight, Grows, NEW t \in Tasks, SetForkchoice(t) \/ Restore(t)
    PROVE  HeadKnown'
  BY Zenon DEF InFlight, Seen, Grows, HeadKnown, SetForkchoice, Restore

\* Every step of a call keeps the invariant.
LEMMA StepInv ==
    ASSUME Inv, NEW t \in Tasks, Step(t), Grows
    PROVE  CanonicalStored' /\ HeadKnown' /\ InFlight'
  <1>a. TypeOK /\ Entered /\ CanonicalStored /\ HeadKnown /\ InFlight /\ Marked
    BY Zenon DEF Inv
  <1>b. ASSUME UNCHANGED canon PROVE CanonicalStored'
    BY <1>a, <1>b, CanonicalKept, Zenon
  <1>c. ASSUME UNCHANGED head PROVE HeadKnown'
    BY <1>a, <1>c, Zenon DEF HeadKnown, Seen, Grows
  <1> USE DEF tables, fcState, memory, request, saved, plan
  <1>1. CASE UpdateForkchoice(t)
    BY <1>1, <1>a, <1>b, HeadSet, InFlightKept DEF UpdateForkchoice
  <1>2. CASE ResolveReorg(t)
    <2>1. \A u \in Tasks : \A i \in 1 .. Len(branch'[u]) : branch'[u][i] \in Seen
      BY <1>2, <1>a, PlannedKnown, Zenon
    <2>2. todo' = [todo EXCEPT ![t] = branch'[t]] /\ UNCHANGED <<canon, head, req, old>>
      BY <1>2, Zenon DEF ResolveReorg
    <2>3. \A u \in Tasks : \A i \in 1 .. Len(todo'[u]) : todo'[u][i] \in Seen
      BY <1>a, <2>1, <2>2, Zenon DEF InFlight, TypeOK
    <2>4. InFlight'
      BY <1>a, <2>1, <2>2, <2>3, Zenon DEF InFlight, Grows
    <2> QED
      BY <1>b, <1>c, <2>2, <2>4, Zenon
  <1>3. CASE BeginRevert(t)
    BY <1>3, <1>a, <1>b, <1>c, InFlightKept, Zenon DEF BeginRevert
  <1>4. CASE RevertHeight(t)
    <2>1. \A n \in Heights : canon'[n] = canon[n] \/ canon'[n] = None
      BY Zenon, <1>4, <1>a DEF RevertHeight, TypeOK
    <2>2. CanonicalStored'
      BY <1>a, <2>1, CanonicalKept, Zenon
    <2> QED
      BY <1>4, <1>a, <1>c, <2>2, InFlightKept, Zenon DEF RevertHeight
  <1>5. CASE RevertHead(t)
    <2>1. canon[revertTo[t]] \in stored \cup dropped
      BY SMTT(60), Z3T(60), <1>5, <1>a DEF RevertHead, CanonicalStored, TypeOK
    <2>2. HeadKnown'
      BY ZenonT(60), SMTT(60), <1>5, <2>1 DEF RevertHead, HeadKnown, Grows
    <2> QED
      BY <1>5, <1>a, <1>b, <2>2, InFlightKept, Zenon DEF RevertHead
  <1>6. CASE RevertFails(t)
    BY Zenon, <1>6, <1>a, <1>b, HeadSet, ReturnInFlight DEF RevertFails
  <1>7. CASE PromoteBlock(t)
    <2>1. todo[t] \in Seq(Hash) /\ todo[t] # <<>>
      BY <1>7, <1>a, Zenon DEF PromoteBlock, TypeOK
    <2>2. /\ Len(Tail(todo[t])) = Len(todo[t]) - 1
          /\ \A i \in 1 .. Len(Tail(todo[t])) : Tail(todo[t])[i] = todo[t][i + 1]
      BY <2>1
    <2>3. \A i \in 1 .. Len(Tail(todo[t])) : Tail(todo[t])[i] \in Seen
      BY <1>a, <2>1, <2>2 DEF InFlight
    <2>4. todo' = [todo EXCEPT ![t] = Tail(todo[t])] /\ UNCHANGED <<canon, head, req, old, branch>>
      BY <1>7, Zenon DEF PromoteBlock
    <2>5. \A u \in Tasks : \A i \in 1 .. Len(todo'[u]) : todo'[u][i] \in Seen
      BY <1>a, <2>3, <2>4, Zenon DEF InFlight, TypeOK
    <2>6. InFlight'
      BY <1>a, <2>4, <2>5, Zenon DEF InFlight, Grows
    <2> QED
      BY <1>b, <1>c, <2>4, <2>6, Zenon
  <1>8. CASE PromoteFails(t)
    BY <1>8, <1>a, <1>b, <1>c, ReturnInFlight DEF PromoteFails
  <1>9. CASE PromoteDone(t)
    <2>1. todo' = [todo EXCEPT ![t] = branch[t]] /\ UNCHANGED <<canon, head, req, old, branch>>
      BY <1>9, Zenon DEF PromoteDone
    <2>2. \A u \in Tasks : \A i \in 1 .. Len(todo'[u]) : todo'[u][i] \in Seen
      BY <1>a, <2>1, Zenon DEF InFlight, TypeOK
    <2>3. InFlight'
      BY Zenon, <1>a, <2>1, <2>2 DEF InFlight, Grows
    <2> QED
      BY <1>b, <1>c, <2>1, <2>3, Zenon
  <1>10. CASE InsertBlock(t) \/ RemovePayload(t)
    BY <1>10, <1>a, <1>b, <1>c, InFlightKept, Zenon DEF InsertBlock, RemovePayload
  <1>d. CASE SetCanonical(t)
    <2> DEFINE b == Marking(t)
    <2>1. b \in stored \cup dropped /\ todo[t] # <<>>
      BY <1>d, <1>a, Zenon DEF SetCanonical, At, Marked, Entered, Entering
    <2>2. b \in Hash /\ Height[b] \in Heights
      BY <1>a, <2>1, MarkingType, Zenon DEF Heights
    <2>3. canon' = [canon EXCEPT ![Height[b]] = b] /\ UNCHANGED <<stored, dropped>>
      BY <1>d, Zenon DEF SetCanonical
    <2> HIDE DEF b
    <2>4. CanonicalStored'
      BY <1>a, <2>1, <2>2, <2>3, Zenon DEF CanonicalStored, TypeOK
    <2> QED
      BY <1>d, <1>a, <1>c, <2>4, InFlightKept, Zenon DEF SetCanonical
  <1>e. CASE InsertHeaderNumber(t)
    <2> DEFINE n == Len(todo[t])
               rest == SubSeq(todo[t], 1, n - 1)
    <2>1. todo[t] \in Seq(Hash) /\ todo[t] # <<>>
      BY <1>e, <1>a, Zenon DEF InsertHeaderNumber, At, Entered, Entering, TypeOK
    <2>2. n \in Nat /\ n \in 1 .. n
      BY <2>1
    <2>3. Len(rest) = n - 1 /\ \A i \in 1 .. (n - 1) : rest[i] = todo[t][i]
      BY SMTT(60), Z3T(60), <2>1, <2>2
    <2>4. \A i \in 1 .. Len(rest) : rest[i] \in Seen
      <3>1. \A i \in 1 .. n : todo[t][i] \in Seen
        BY Zenon, <1>a DEF InFlight
      <3> HIDE DEF n, rest
      <3> QED
        BY <2>2, <2>3, <3>1
    <2>5. todo' = [todo EXCEPT ![t] = rest] /\ UNCHANGED <<canon, head, req, old, branch>>
      BY <1>e, Zenon DEF InsertHeaderNumber
    <2>6. \A u \in Tasks : \A i \in 1 .. Len(todo'[u]) : todo'[u][i] \in Seen
      BY ZenonT(60), SMTT(60), <1>a, <2>4, <2>5 DEF InFlight, TypeOK
    <2>7. InFlight'
      BY Zenon, <1>a, <2>5, <2>6 DEF InFlight, Grows
    <2> QED
      BY <1>b, <1>c, <2>5, <2>7, Zenon
  <1>11. CASE MarkFails(t)
    BY <1>11, <1>a, <1>b, <1>c, ReturnInFlight, Zenon DEF MarkFails
  <1>12. CASE MarkDone(t)
    BY <1>12, <1>a, <1>b, <1>c, InFlightKept, Zenon DEF MarkDone
  <1>f. ASSUME NEW r, HeadGone(t, r) PROVE CanonicalStored' /\ HeadKnown' /\ InFlight'
    BY <1>f, <1>a, <1>b, <1>c, ReturnInFlight, Zenon DEF HeadGone
  <1>13. ASSUME NEW r, Finish(t, r) PROVE CanonicalStored' /\ HeadKnown' /\ InFlight'
    BY <1>13, <1>a, <1>b, HeadSet, ReturnInFlight, Zenon DEF Finish
  <1>14. ASSUME NEW b \in Hash, FinishAndBuild(t, b) PROVE CanonicalStored' /\ HeadKnown' /\ InFlight'
    BY <1>14, <1>a, <1>b, HeadSet, ReturnInFlight, Zenon DEF FinishAndBuild
  <1> QED
    BY <1>1, <1>2, <1>3, <1>4, <1>5, <1>6, <1>7, <1>8, <1>9, <1>10, <1>11, <1>12, <1>13, <1>14,
       <1>d, <1>e, <1>f, Zenon
    DEF Step

\* Every step keeps the invariant.
LEMMA NextInv == Inv /\ [Next]_vars => Inv'
  <1> SUFFICES ASSUME Inv, [Next]_vars PROVE Inv'
    BY Zenon
  <1>a. TypeOK /\ Entered /\ CanonicalStored /\ HeadKnown /\ InFlight /\ Marked /\ Numbered
    BY Zenon DEF Inv
  <1>b. Grows
    BY <1>a, SeenGrows, Zenon
  <1>c. TypeOK' /\ Entered' /\ Marked' /\ Numbered'
    BY <1>a, <1>b, NextType, MarkedKept, NumberedKept, Zenon
  <1>d. ASSUME UNCHANGED <<canon, head, req, old, branch, todo>>
        PROVE  CanonicalStored' /\ HeadKnown' /\ InFlight'
    <2>1. CanonicalStored'
      BY <1>a, <1>b, <1>d, CanonicalKept, Zenon
    <2>2. HeadKnown'
      BY <1>a, <1>b, <1>d, Zenon DEF HeadKnown, Seen, Grows
    <2> QED
      BY <1>a, <1>b, <1>d, <2>1, <2>2, InFlightKept, Zenon
  <1>1. CASE UNCHANGED vars
    BY <1>1, <1>c, <1>d, Zenon DEF vars, tables, fcState, call, request, saved, plan, Inv
  <1>2. CASE Import
    BY <1>2, <1>c, <1>d, Zenon
    DEF Import, ImportPersist, Refused, RefusedAndRemoved, tables, fcState, call, request, saved, plan, Inv
  <1>3. CASE Crash
    <2>1. UNCHANGED <<canon, head>>
      BY <1>3, Zenon DEF Crash, tables
    <2>2. /\ req' = [t \in Tasks |-> Genesis] /\ old' = [t \in Tasks |-> Genesis]
          /\ branch' = [t \in Tasks |-> <<>>] /\ todo' = [t \in Tasks |-> <<>>]
      BY <1>3, Zenon DEF Crash
    <2>3. 1 .. Len(<<>>) = {}
      BY SMTT(60), Z3T(60)
    <2>4. InFlight'
      BY <1>a, <1>b, <2>2, <2>3, Zenon DEF InFlight, Seen, Grows
    <2>5. CanonicalStored' /\ HeadKnown'
      BY <1>a, <1>b, <2>1, CanonicalKept, Zenon DEF HeadKnown, Seen, Grows
    <2> QED
      BY <1>c, <2>4, <2>5, Zenon DEF Inv
  <1>4. ASSUME NEW t \in Tasks, Call(t) PROVE Inv'
    <2>1. CASE UNCHANGED <<canon, head, req, old, branch, todo>>
      BY <2>1, <1>c, <1>d, Zenon DEF Inv
    <2>2. ASSUME NEW h \in Hash, NEW s \in SafeArgs, NEW f \in SafeArgs, Accept(t, h, s, f) PROVE Inv'
      <3>1. h \in Seen
        BY Zenon, <2>2 DEF Accept, HeadReply, SoftenedReply, Seen
      <3>2. /\ req' = [req EXCEPT ![t] = h] /\ old' = [old EXCEPT ![t] = head]
            /\ UNCHANGED <<canon, head, branch, todo>>
        BY <2>2, Zenon DEF Accept, tables, fcState, plan
      <3>3. InFlight'
        BY Zenon, <1>a, <1>b, <3>1, <3>2 DEF InFlight, HeadKnown, Seen, Grows, TypeOK
      <3>4. CanonicalStored' /\ HeadKnown'
        BY <1>a, <1>b, <3>2, CanonicalKept, Zenon DEF HeadKnown, Seen, Grows
      <3> QED
        BY <1>c, <3>3, <3>4, Zenon DEF Inv
    <2> QED
      BY Zenon, <1>4, <2>1, <2>2
      DEF Call, RefuseHead, RefuseForkchoice, tables, fcState, request, saved, plan
  <1>5. ASSUME NEW t \in Tasks, Step(t) PROVE Inv'
    BY <1>5, <1>b, <1>c, StepInv, Zenon DEF Inv
  <1> QED
    BY <1>1, <1>2, <1>3, <1>4, <1>5, Zenon DEF Next

\* The invariant holds initially.
LEMMA InitInv == Init => Inv
  <1> SUFFICES ASSUME Init PROVE Inv
    BY SMTT(60), Z3T(60)
  <1>1. CanonicalStored
    BY BlockAssumption, Zenon DEF Init, CanonicalStored
  <1>2. 1 .. Len(<<>>) = {}
    OBVIOUS
  <1>3. InFlight
    BY <1>2, Zenon DEF Init, InFlight, Seen
  <1>4. Entered /\ Marked /\ Numbered
    BY Zenon DEF Init, Entered, Marked, Entering, Numbered
  <1> QED
    BY <1>1, <1>3, <1>4, InitType, Zenon DEF Init, Inv, HeadKnown

\* A canonical entry dangles only where a refused newPayload took the block out
\* of the Payloads table, on any block tree, however many forkchoiceUpdated
\* calls interleave with imports, failed writes and crashes.
THEOREM CanonicalEntriesStored == Spec => []CanonicalStored
  <1>1. Inv => CanonicalStored
    BY Zenon DEF Inv
  <1> QED
    BY <1>1, InitInv, NextInv, PTL DEF Spec

\* The persisted head is a block of the main tables or of the Payloads table, or
\* was in the latter until a newPayload for it was refused: a switch that is cut
\* short never leaves a head that nobody ever had.
THEOREM HeadKnownUnlessRefused == Spec => []HeadKnown
  <1>1. Inv => HeadKnown
    BY Zenon DEF Inv
  <1> QED
    BY <1>1, InitInv, NextInv, PTL DEF Spec

-----------------------------------------------------------------------------
(* The switch, when nothing disturbs it: a call that follows another one    *)
(* turns the canonical table from the chain of the old head into the chain  *)
(* of the new one.  Concurrent calls, failed writes, restarts in the middle *)
(* of a call and refused payloads each break this.  After a head below the  *)
(* current one the table is not one chain any more, but the head is still   *)
(* in it.                                                                   *)

\* One call at a time, no failed write, no restart, and no refusal of a block
\* that was built here.
Undisturbed ==
    /\ \E t \in Tasks : Tasks = {t}
    /\ Faults = {} /\ MaxCrashes = 0
    /\ Refusable \cap Buildable = {}

Chain(b) == Ancestors(Path, b)

\* The canonical table is the chain of b, but for the heights above b up to n.
CanonUpTo(b, n) ==
    /\ \A c \in Chain(b) : canon[Height[c]] = c
    /\ \A m \in Heights : canon[m] # None => canon[m] \in Chain(b) \/ (Height[b] < m /\ m <= n)

\* The canonical table is the chain of b.
CanonIs(b) ==
    /\ \A c \in Chain(b) : canon[Height[c]] = c
    /\ \A m \in Heights : canon[m] # None => canon[m] \in Chain(b)

\* The blocks of list are those of the requested head's chain above position k.
Above(t, list, k) == k \in DOMAIN Path[req[t]] /\ list = SubSeq(Path[req[t]], 1, k - 1)

\* Where the canonical table stands at each label of a call.
TableAt(t) ==
    /\ pc[t] = "idle" => CanonIs(head) /\ headNumber = Height[head]
    /\ pc[t] \in {"update", "resolve"} => CanonIs(old[t]) /\ Height[old[t]] <= Height[req[t]]
    /\ pc[t] = "resolve" => headNumber = Height[req[t]]
    /\ pc[t] \in {"revert", "reverting"} =>
         \E k \in DOMAIN Path[req[t]] :
            /\ Above(t, branch[t], k) /\ revertTo[t] = Height[Path[req[t]][k]]
            /\ CanonUpTo(Path[req[t]][k], IF pc[t] = "revert" THEN headNumber ELSE cursor[t])
    /\ pc[t] = "promote" =>
         \E k \in DOMAIN Path[req[t]] : Above(t, branch[t], k) /\ CanonIs(Path[req[t]][k])
    /\ pc[t] \in {"mark", "unlist", "link"} =>
         \E k \in DOMAIN Path[req[t]] : Above(t, todo[t], k) /\ CanonIs(Path[req[t]][k])
    /\ pc[t] = "number" =>
         \E k \in DOMAIN Path[req[t]] :
            k # 1 /\ Above(t, todo[t], k) /\ CanonIs(Path[req[t]][k - 1])
    /\ pc[t] = "finish" => CanonIs(req[t])

\* b is the canonical block of its height.
InTable(b) == canon[Height[b]] = b

\* Marking the blocks of list, last one first, makes h canonical.
Reaches(list, h) == IF list = <<>> THEN InTable(h) ELSE list[1] = h

\* Where the head of a call stands at each label, whatever heads were named before.
HeadAt(t) ==
    /\ pc[t] = "idle" => InTable(head)
    /\ pc[t] \in {"update", "resolve"} => InTable(old[t])
    /\ pc[t] \in {"revert", "reverting"} =>
         branch[t] # <<>> /\ branch[t][1] = req[t] /\ canon[revertTo[t]] # None
    /\ pc[t] = "promote" => Reaches(branch[t], req[t])
    /\ pc[t] \in {"mark", "unlist", "link"} => Reaches(todo[t], req[t])
    /\ pc[t] = "number" => todo[t][1] = req[t] /\ InTable(Marking(t))
    /\ pc[t] = "finish" => InTable(req[t])

\* What the node has, it has with the parent in the main tables.
ParentsStored == \A b \in stored \cup payloads : b # Genesis => Parent[b] \in stored

\* No refusal has met a block of the Payloads table.
NoneDropped == dropped = {} /\ payloads \subseteq Buildable \cup {Genesis}

\* What the state of a forkchoice update promises.
Ordered(h, s, f) ==
    /\ s # None => s \in Chain(h)
    /\ f # None => f \in Chain(IF s = None THEN h ELSE s)

OrderedAt(t) == IF pc[t] = "idle" THEN Ordered(head, safe, finalized)
                ELSE Ordered(req[t], reqSafe[t], reqFin[t])

HeadInv == Inv /\ ParentsStored /\ NoneDropped /\ \A t \in Tasks : HeadAt(t)

SwitchInv == HeadInv /\ (~lowered => \A t \in Tasks : TableAt(t) /\ OrderedAt(t))

\* The blocks form a tree.
LEMMA HashChain == IsChain(Hash, Genesis, Parent, Path)
  BY BlockAssumption, PathAssumption, Zenon DEF IsChain

\* A block and the chain of its parent.
LEMMA ChainStep ==
    ASSUME NEW b \in Hash
    PROVE  /\ b \in Chain(b) /\ Chain(b) \subseteq Hash
           /\ b # Genesis => Parent[b] \in Hash /\ Chain(b) = {b} \cup Chain(Parent[b])
  BY HashChain, AncestorsStep DEF Chain

\* A chain contains the chains of its blocks.
LEMMA ChainDown ==
    ASSUME NEW b \in Hash, NEW x \in Chain(b)
    PROVE  x \in Hash /\ Chain(x) \subseteq Chain(b)
  BY HashChain, AncestorsTransitive, Zenon DEF Chain

\* Heights fall along a chain.
LEMMA ChainHeights ==
    ASSUME NEW b \in Hash, NEW x \in Chain(b)
    PROVE  x = b \/ Height[x] < Height[b]
  <1> DEFINE S == {y \in Hash : y = b \/ Height[y] < Height[b]}
  <1>1. ASSUME NEW y \in S, y # Genesis PROVE Parent[y] \in S
    <2>1. /\ Parent[y] \in Hash /\ Height[y] = Height[Parent[y]] + 1
          /\ Height[Parent[y]] \in Nat /\ Height[y] \in Nat /\ Height[b] \in Nat
      BY <1>1, BlockAssumption, PathAssumption, Zenon
    <2> QED
      BY <1>1, <2>1
  <1>2. S \subseteq Hash /\ b \in S
    BY Zenon
  <1> HIDE DEF S
  <1>3. Chain(b) \subseteq S
    BY <1>1, <1>2, HashChain, AncestorsClosed DEF Chain
  <1> QED
    BY <1>3, Zenon DEF S

\* On one chain the lower block is on the chain of the higher one.
LEMMA ChainOrdered ==
    ASSUME NEW b \in Hash, NEW x \in Chain(b), NEW y \in Chain(b), Height[y] <= Height[x]
    PROVE  y \in Chain(x)
  <1>1. x \in Hash /\ y \in Hash /\ Height[x] \in Nat /\ Height[y] \in Nat
    BY ChainDown, BlockAssumption, Zenon
  <1>2. x \in Chain(y) \/ y \in Chain(x)
    BY HashChain, AncestorsLinear, Zenon DEF Chain
  <1>3. CASE x \in Chain(y)
    <2>1. x = y \/ Height[x] < Height[y]
      BY <1>1, <1>3, ChainHeights, Zenon
    <2>2. x = y
      BY <1>1, <2>1
    <2> QED
      BY <1>1, <2>2, ChainStep, Zenon
  <1> QED
    BY <1>2, <1>3, Zenon

\* The positions of a chain.
LEMMA ChainAt ==
    ASSUME NEW b \in Hash, NEW k \in DOMAIN Path[b]
    PROVE  /\ Path[b] \in Seq(Hash) /\ k \in 1 .. Len(Path[b]) /\ Len(Path[b]) \in Nat
           /\ Path[b][k] \in Hash /\ Path[b][k] \in Chain(b)
           /\ Path[b][1] = b
           /\ k # 1 => /\ k - 1 \in DOMAIN Path[b] /\ Path[b][k - 1] # Genesis
                       /\ Parent[Path[b][k - 1]] = Path[b][k]
  <1>1. Path[b] \in Seq(Hash) /\ Len(Path[b]) \in Nat /\ Path[b][1] = b
    BY HashChain, ChainHead
  <1>2. k \in 1 .. Len(Path[b]) /\ Path[b][k] \in Hash
    BY <1>1
  <1>3. Path[b][k] \in Chain(b)
    BY Zenon DEF Chain, Ancestors
  <1>4. ASSUME k # 1
        PROVE  /\ k - 1 \in DOMAIN Path[b] /\ Path[b][k - 1] # Genesis
               /\ Parent[Path[b][k - 1]] = Path[b][k]
    <2> DEFINE i == k - 1
    <2>1. i \in 1 .. Len(Path[b]) - 1 /\ i + 1 = k /\ i \in DOMAIN Path[b]
      BY <1>1, <1>2, <1>4
    <2> HIDE DEF i
    <2>2. Path[b][i] # Genesis /\ Parent[Path[b][i]] = Path[b][i + 1]
      BY <2>1, HashChain, ChainParent
    <2> QED
      BY <2>1, <2>2, Zenon DEF i
  <1> QED
    BY <1>1, <1>2, <1>3, <1>4

\* A list that is cut short keeps its first block.
LEMMA FirstKept ==
    ASSUME NEW q \in Seq(Hash), NEW k \in 1 .. Len(q)
    PROVE  SubSeq(q, 1, k) # <<>> /\ SubSeq(q, 1, k)[1] = q[1]
  <1>1. k \in 0 .. Len(q) /\ k # 0 /\ 1 \in 1 .. k
    OBVIOUS
  <1>2. SubSeq(q, 1, k) # <<>> /\ \A i \in 1 .. k : SubSeq(q, 1, k)[i] = q[i]
    BY <1>1, Prefix
  <1> QED
    BY <1>1, <1>2, Zenon

\* is_ancestor may answer from the canonical table: while that is the chain of some
\* block, it answers yes only of an ancestor.
LEMMA AncestorSound ==
    ASSUME NEW c \in Hash, CanonIs(c), NEW h \in Hash, NEW target \in Hash, IsAncestor(h, target)
    PROVE  target \in Chain(h)
  <1>1. ASSUME NEW x \in Hash, canon[Height[x]] = x PROVE x \in Chain(c)
    <2>1. Height[x] \in Heights /\ x # None
      BY BlockAssumption, Zenon DEF Heights
    <2> QED
      BY <1>1, <2>1, Zenon DEF CanonIs
  <1>2. CASE IsCanonical(h) /\ IsCanonical(target) /\ Height[target] <= Height[h]
    BY <1>1, <1>2, ChainOrdered, Zenon DEF IsCanonical
  <1>3. ASSUME NEW i \in DOMAIN Path[h], IsCanonical(Path[h][i]), canon[Height[target]] = target,
               Height[Path[h][i]] >= Height[target]
        PROVE  target \in Chain(h)
    <2>1. Path[h][i] \in Hash /\ Path[h][i] \in Chain(h)
      BY ChainAt, Zenon
    <2>2. Path[h][i] \in Chain(c) /\ target \in Chain(c)
      BY <1>1, <1>3, <2>1, Zenon DEF IsCanonical
    <2>3. Height[Path[h][i]] \in Nat /\ Height[target] \in Nat
      BY <2>1, BlockAssumption, Zenon
    <2>4. target \in Chain(Path[h][i])
      BY <1>3, <2>2, <2>3, ChainOrdered, Zenon
    <2> QED
      BY <2>1, <2>4, ChainDown, Zenon
  <1>4. ASSUME NEW i \in DOMAIN Path[h], Path[h][i] = target PROVE target \in Chain(h)
    BY <1>4, ChainAt, Zenon
  <1>5. \/ IsCanonical(h) /\ IsCanonical(target) /\ Height[target] <= Height[h]
        \/ \E i \in DOMAIN Path[h] :
            \/ Path[h][i] = target
            \/ /\ canon[Height[target]] = target /\ Height[Path[h][i]] >= Height[target]
               /\ IsCanonical(Path[h][i])
    BY Zenon DEF IsAncestor
  <1> QED
    BY Zenon, <1>2, <1>3, <1>4, <1>5

\* The checks of a call that is taken up.
LEMMA AcceptedOrdered ==
    ASSUME NEW c \in Hash, CanonIs(c), NEW h \in Hash, NEW s \in MaybeHash, NEW f \in MaybeHash,
           CheckSafe(h, s), CheckFinalized(h, s, f)
    PROVE  Ordered(h, s, f)
  <1>1. s # None => s \in Chain(h)
    BY AncestorSound, Zenon DEF CheckSafe, Accepts, MaybeHash
  <1>2. f # None => f \in Chain(IF s = None THEN h ELSE s)
    <2>1. (IF s = None THEN h ELSE s) \in Hash
      BY Zenon DEF MaybeHash
    <2> QED
      BY <2>1, AncestorSound, Zenon DEF CheckFinalized, Accepts, MaybeHash
  <1> QED
    BY <1>1, <1>2, Zenon DEF Ordered

-----------------------------------------------------------------------------
(* The table, height by height.                                            *)

\* Nothing is canonical above the block whose chain the table is.
LEMMA CanonBelow ==
    ASSUME CanonicalStored, NEW b \in Hash, CanonIs(b), NEW n \in Heights, canon[n] # None
    PROVE  canon[n] \in Chain(b) /\ Height[canon[n]] = n /\ n <= Height[b]
  <1>1. canon[n] \in Chain(b) /\ Height[canon[n]] = n
    BY Zenon DEF CanonIs, CanonicalStored
  <1>2. canon[n] = b \/ Height[canon[n]] < Height[b]
    BY <1>1, ChainHeights, Zenon
  <1>3. n \in Nat /\ Height[b] \in Nat
    BY HeightsClosed, BlockAssumption, Zenon
  <1> QED
    BY <1>1, <1>2, <1>3

\* The canonical blocks are blocks of that chain.
LEMMA CanonicalOnChain ==
    ASSUME NEW b \in Hash, CanonIs(b)
    PROVE  \A x \in Hash : IsCanonical(x) => x \in Chain(b)
  <1>1. ASSUME NEW x \in Hash, IsCanonical(x) PROVE x \in Chain(b)
    <2>1. Height[x] \in Heights /\ x # None /\ canon[Height[x]] = x
      BY <1>1, BlockAssumption, Zenon DEF Heights, IsCanonical
    <2> QED
      BY <2>1, Zenon DEF CanonIs
  <1> QED
    BY <1>1, Zenon

\* A height is taken out.
LEMMA CanonCleared ==
    ASSUME TypeOK, NEW b \in Hash, NEW n \in Heights, CanonUpTo(b, n), Height[b] < n,
           canon' = [canon EXCEPT ![n] = None]
    PROVE  CanonUpTo(b, n - 1)'
  <1>0. n \in Nat /\ Height[b] \in Nat /\ canon \in [Heights -> MaybeHash] /\ Heights \subseteq Nat
    BY HeightsClosed, BlockAssumption, Zenon DEF TypeOK
  <1>1. ASSUME NEW c \in Chain(b) PROVE canon'[Height[c]] = c
    <2>1. c \in Hash /\ Height[c] \in Heights /\ Height[c] \in Nat /\ (c = b \/ Height[c] < Height[b])
      BY ChainDown, ChainHeights, BlockAssumption, Zenon DEF Heights
    <2>2. Height[c] # n
      BY <1>0, <2>1
    <2> QED
      BY <1>0, <2>1, <2>2, Zenon DEF CanonUpTo
  <1>2. ASSUME NEW m \in Heights, canon'[m] # None
        PROVE  canon'[m] \in Chain(b) \/ (Height[b] < m /\ m <= n - 1)
    <2>1. m # n /\ canon'[m] = canon[m] /\ m \in Nat
      BY <1>0, <1>2, Zenon
    <2>2. canon[m] \in Chain(b) \/ (Height[b] < m /\ m <= n)
      BY <1>2, <2>1, Zenon DEF CanonUpTo
    <2> QED
      BY <1>0, <2>1, <2>2
  <1> QED
    BY <1>1, <1>2, Zenon DEF CanonUpTo

\* No height is left to take out.
LEMMA CanonReverted ==
    ASSUME NEW b \in Hash, NEW n \in Heights, CanonUpTo(b, n), n <= Height[b] PROVE CanonIs(b)
  <1>1. n \in Nat /\ Height[b] \in Nat /\ Heights \subseteq Nat
    BY HeightsClosed, BlockAssumption, Zenon
  <1>2. \A m \in Heights : ~(Height[b] < m /\ m <= n)
    BY <1>1
  <1> QED
    BY <1>2, Zenon DEF CanonUpTo, CanonIs

\* The child of the block whose chain the table is becomes canonical.
LEMMA CanonExtended ==
    ASSUME TypeOK, NEW b \in Hash, b # Genesis, CanonIs(Parent[b]), canon' = [canon EXCEPT ![Height[b]] = b]
    PROVE  CanonIs(b)'
  <1>0. /\ Height[b] \in Heights /\ Heights \subseteq Nat /\ canon \in [Heights -> MaybeHash]
        /\ Parent[b] \in Hash /\ Height[b] = Height[Parent[b]] + 1 /\ Height[Parent[b]] \in Nat
        /\ b \in Chain(b) /\ Chain(b) = {b} \cup Chain(Parent[b])
    BY HeightsClosed, ChainStep, BlockAssumption, PathAssumption, ZenonT(60) DEF TypeOK, Heights
  <1>1. ASSUME NEW c \in Chain(b) PROVE canon'[Height[c]] = c
    <2>1. CASE c = b
      BY <1>0, <2>1, Zenon
    <2>2. CASE c # b
      <3>1. c \in Chain(Parent[b])
        BY <1>0, <2>2, Zenon
      <3>2. /\ c \in Hash /\ Height[c] \in Heights /\ Height[c] \in Nat
            /\ (c = Parent[b] \/ Height[c] < Height[Parent[b]])
        BY <1>0, <3>1, ChainDown, ChainHeights, BlockAssumption, Zenon DEF Heights
      <3>3. Height[c] # Height[b]
        BY <1>0, <3>2, NotAbove, Zenon
      <3> QED
        BY <1>0, <3>1, <3>2, <3>3, Zenon DEF CanonIs
    <2> QED
      BY <2>1, <2>2, Zenon
  <1>2. ASSUME NEW m \in Heights, canon'[m] # None PROVE canon'[m] \in Chain(b)
    BY <1>0, <1>2, Zenon DEF CanonIs
  <1> QED
    BY <1>1, <1>2, Zenon DEF CanonIs

-----------------------------------------------------------------------------
(* Every step of a call.                                                   *)

\* What a step of a call may rely on, whatever heads were named before ...
BaseAt(t) == /\ TypeOK /\ Entered /\ CanonicalStored /\ InFlight /\ Numbered
             /\ ParentsStored /\ NoneDropped /\ HeadAt(t) /\ Undisturbed

\* ... and while none was below the head of its time.
SwitchAt(t) == BaseAt(t) /\ TableAt(t) /\ OrderedAt(t)

\* A call is taken up.
LEMMA AcceptSwitch ==
    ASSUME NEW t \in Tasks, SwitchAt(t), NEW h \in Hash, NEW s \in SafeArgs, NEW f \in SafeArgs,
           Accept(t, h, s, f), Height[h] >= headNumber
    PROVE  TableAt(t)' /\ OrderedAt(t)'
  <1>0. /\ TypeOK /\ CanonIs(head) /\ headNumber = Height[head]
    BY Zenon DEF SwitchAt, BaseAt, Accept, At, TableAt
  <1>1. /\ pc'[t] = "update" /\ req'[t] = h /\ reqSafe'[t] = s /\ reqFin'[t] = f /\ old'[t] = head
        /\ UNCHANGED canon
    BY <1>0, Zenon DEF Accept, TypeOK, tables
  <1>2. Ordered(h, s, f)
    <2>1. head \in Hash /\ s \in MaybeHash /\ f \in MaybeHash
      BY <1>0, BlockAssumption, Zenon DEF TypeOK
    <2> QED
      BY <1>0, <2>1, AcceptedOrdered, Zenon DEF Accept
  <1>3. Height[head] <= Height[h]
    BY <1>0, BlockAssumption, Zenon DEF TypeOK
  <1>4. TableAt(t)'
    BY <1>0, <1>1, <1>3, ZenonT(60) DEF TableAt, CanonIs
  <1> QED
    BY <1>1, <1>2, <1>4, ZenonT(60) DEF OrderedAt, Ordered

\* CanonicalState::update_state writes the forkchoice, not the canonical table.
LEMMA UpdateSwitch ==
    ASSUME NEW t \in Tasks, SwitchAt(t), UpdateForkchoice(t) PROVE TableAt(t)' /\ OrderedAt(t)'
  <1>0. TypeOK /\ CanonIs(old[t]) /\ Height[old[t]] <= Height[req[t]] /\ Ordered(req[t], reqSafe[t], reqFin[t])
    BY Zenon DEF SwitchAt, BaseAt, UpdateForkchoice, At, TableAt, OrderedAt
  <1>1. /\ pc'[t] = "resolve" /\ headNumber' = Height[req[t]]
        /\ UNCHANGED <<canon, req, reqSafe, reqFin, old>>
    BY <1>0, Zenon DEF UpdateForkchoice, SetForkchoice, Goto, TypeOK, tables, request, saved
  <1> QED
    BY <1>0, <1>1, Zenon DEF TableAt, CanonIs, OrderedAt, Ordered

\* resolve_reorg stops at a canonical block: the known blocks are closed under parents
\* down to genesis.
LEMMA StopCanonical ==
    ASSUME NEW t \in Tasks, BaseAt(t), At(t, "resolve"),
           NEW i \in Stops(t), \A j \in Stops(t) : i <= j
    PROVE  i \in DOMAIN Path[req[t]] /\ IsCanonical(Path[req[t]][i]) /\ Path[req[t]][i] \in stored
  <1> DEFINE p == Path[req[t]]
  <1>0. /\ req[t] \in Hash /\ req[t] \in stored \cup payloads /\ InTable(old[t])
        /\ CanonicalStored /\ i \in DOMAIN p /\ dropped = {} /\ stored \subseteq numbers
    BY Zenon DEF BaseAt, At, HeadAt, TypeOK, InFlight, Seen, Stops, NoneDropped, Numbered
  <1>2. /\ i \in 1 .. Len(p) /\ Len(p) \in Nat /\ p[1] = req[t] /\ p[i] \in Hash
        /\ i # 1 => /\ i - 1 \in DOMAIN p /\ p[i - 1] # Genesis /\ Parent[p[i - 1]] = p[i]
    BY <1>0, ChainAt, Zenon
  <1>3. p[i] \in stored \cup payloads
    <2>1. CASE i = 1
      BY <1>0, <1>2, <2>1, Zenon
    <2>2. CASE i # 1
      <3>1. i - 1 \notin Stops(t)
        BY <1>2, <2>2
      <3>2. p[i - 1] \in stored \cup payloads
        BY <1>2, <2>2, <3>1, Zenon DEF Stops
      <3> QED
        BY <1>2, <2>2, <3>2, Zenon DEF BaseAt, ParentsStored
    <2> QED
      BY <2>1, <2>2, Zenon
  <1>4. p[i] = old[t] \/ IsCanonical(p[i])
    BY <1>3, Zenon DEF Stops
  <1>5. canon[Height[p[i]]] = p[i]
    BY <1>0, <1>4, Zenon DEF InTable, IsCanonical
  <1>6. p[i] \in stored
    <2>1. Height[p[i]] \in Heights /\ p[i] # None
      BY <1>2, BlockAssumption, Zenon DEF Heights
    <2> QED
      BY <1>0, <1>5, <2>1, Zenon DEF CanonicalStored
  <1> QED
    BY <1>0, <1>5, <1>6, Zenon DEF IsCanonical

\* ResolveReorg decides the table update from the path and the stop it found, so
\* what follows keeps the table one chain and the three heads in order on it.
LEMMA ResolveSwitch ==
    ASSUME NEW t \in Tasks, SwitchAt(t), ResolveReorg(t) PROVE TableAt(t)' /\ OrderedAt(t)'
  <1> DEFINE p == Path[req[t]]
  <1>0. /\ TypeOK /\ CanonicalStored /\ At(t, "resolve") /\ CanonIs(old[t])
        /\ Height[old[t]] <= Height[req[t]] /\ headNumber = Height[req[t]]
        /\ req[t] \in Hash /\ old[t] \in Hash
        /\ Ordered(req[t], reqSafe[t], reqFin[t])
    BY Zenon DEF SwitchAt, BaseAt, ResolveReorg, At, TableAt, OrderedAt, TypeOK
  <1>1. PICK i \in Stops(t) : (\A j \in Stops(t) : i <= j) /\ Planned(t, i)
    BY Zenon DEF ResolveReorg
  <1> DEFINE a == p[i]
  <1>2. i \in DOMAIN p /\ IsCanonical(a) /\ a \in stored
    BY <1>0, <1>1, StopCanonical, Zenon DEF SwitchAt
  <1>3. /\ i \in 1 .. Len(p) /\ p[1] = req[t] /\ a \in Hash
    BY <1>0, <1>2, ChainAt, Zenon
  <1>4. a \in Chain(old[t])
    BY <1>0, <1>2, <1>3, CanonicalOnChain, Zenon
  <1>5. /\ branch'[t] = SubSeq(p, 1, i - 1)
        /\ revertTo'[t] = IF i > 1 /\ a # old[t] THEN Height[a] ELSE 0
        /\ pc'[t] = IF i > 1 /\ a # old[t] THEN "revert" ELSE "promote"
        /\ UNCHANGED <<canon, req, reqSafe, reqFin, headNumber>>
    BY <1>0, <1>1, <1>2, ZenonT(60) DEF Planned, Goto, ResolveReorg, TypeOK, tables, fcState, request
  <1>6. Above(t, branch[t], i)'
    BY <1>2, <1>5, Zenon DEF Above
  <1>7. OrderedAt(t)'
    BY <1>0, <1>5, ZenonT(60) DEF OrderedAt, Ordered
  <1>8. CASE i > 1 /\ a # old[t]
    <2>1. \A c \in Chain(a) : canon[Height[c]] = c
      BY <1>0, <1>4, ChainDown DEF CanonIs
    <2>2. ASSUME NEW m \in Heights, canon[m] # None
          PROVE  canon[m] \in Chain(a) \/ (Height[a] < m /\ m <= headNumber)
      <3>1. canon[m] \in Chain(old[t]) /\ Height[canon[m]] = m /\ m <= Height[old[t]]
        BY <1>0, <2>2, CanonBelow, Zenon
      <3>2. m \in Nat /\ Height[a] \in Nat /\ Height[old[t]] \in Nat /\ Height[req[t]] \in Nat
        BY <1>0, <1>3, HeightsClosed, BlockAssumption, Zenon
      <3>3. CASE m <= Height[a]
        BY <1>0, <1>4, <3>1, <3>3, ChainOrdered
      <3>4. CASE ~(m <= Height[a])
        BY <1>0, <3>1, <3>2, <3>4
      <3> QED
        BY <3>3, <3>4, Zenon
    <2>3. CanonUpTo(a, headNumber)
      BY <2>1, <2>2, ZenonT(60) DEF CanonUpTo
    <2>4. pc'[t] = "revert" /\ revertTo'[t] = Height[a]
      BY <1>5, <1>8, ZenonT(60)
    <2>5. CanonUpTo(Path[req[t]][i], headNumber)'
      BY <1>5, <2>3, ZenonT(60) DEF CanonUpTo
    <2> HIDE DEF a
    <2>6. revertTo'[t] = Height[Path[req'[t]][i]] /\ i \in DOMAIN Path[req'[t]]
      BY <1>2, <1>5, <2>4, ZenonT(60) DEF a
    <2> QED
      BY <1>6, <1>7, <2>4, <2>5, <2>6, ZenonT(60) DEF TableAt
  <1>9. CASE ~(i > 1 /\ a # old[t])
    <2>1. a = old[t]
      <3>1. CASE i = 1
        <4>1. a = old[t] \/ Height[a] < Height[old[t]]
          BY <1>0, <1>4, ChainHeights, Zenon
        <4>2. Height[a] \in Nat /\ Height[old[t]] \in Nat /\ a = req[t]
          BY <1>0, <1>3, <3>1, BlockAssumption, ZenonT(60)
        <4> QED
          BY <1>0, <4>1, <4>2
      <3> QED
        BY <1>3, <1>9, <3>1
    <2>2. pc'[t] = "promote"
      BY <1>5, <1>9, Zenon
    <2>3. CanonIs(Path[req[t]][i])'
      BY <1>0, <1>5, <2>1, Zenon DEF CanonIs
    <2>4. i \in DOMAIN Path[req'[t]]
      BY <1>2, <1>5, Zenon
    <2> QED
      BY <1>6, <1>7, <2>2, <2>3, <2>4, ZenonT(60) DEF TableAt
  <1> QED
    BY <1>8, <1>9, Zenon

\* The revert: from the head, height by height, down to the common ancestor.
LEMMA RevertSwitch ==
    ASSUME NEW t \in Tasks, SwitchAt(t), BeginRevert(t) \/ RevertHeight(t) \/ RevertHead(t)
    PROVE  TableAt(t)' /\ OrderedAt(t)'
  <1>0. /\ TypeOK /\ pc[t] \in {"revert", "reverting"} /\ req[t] \in Hash
        /\ Ordered(req[t], reqSafe[t], reqFin[t])
    BY Zenon DEF SwitchAt, BaseAt, BeginRevert, RevertHeight, RevertHead, At, OrderedAt, TypeOK
  <1>1. PICK k \in DOMAIN Path[req[t]] :
            /\ Above(t, branch[t], k) /\ revertTo[t] = Height[Path[req[t]][k]]
            /\ CanonUpTo(Path[req[t]][k], IF pc[t] = "revert" THEN headNumber ELSE cursor[t])
    BY <1>0, ZenonT(60) DEF SwitchAt, BaseAt, TableAt
  <1> DEFINE a == Path[req[t]][k]
  <1>2. a \in Hash
    BY <1>0, ChainAt, ZenonT(60)
  <1>3. /\ UNCHANGED <<req, reqSafe, reqFin, branch, revertTo>>
        /\ pc'[t] \in {"reverting", "promote"}
    BY <1>0, Zenon DEF BeginRevert, RevertHeight, RevertHead, Goto, At, TypeOK, request, plan
  <1>4. OrderedAt(t)'
    BY <1>0, <1>3, ZenonT(60) DEF OrderedAt, Ordered
  <1>5. Above(t, branch[t], k)' /\ k \in DOMAIN Path[req'[t]] /\ revertTo'[t] = Height[Path[req'[t]][k]]
    BY <1>1, <1>3, ZenonT(60) DEF Above
  <1>6. CASE BeginRevert(t)
    <2>1. pc[t] = "revert" /\ pc'[t] = "reverting" /\ cursor'[t] = headNumber /\ UNCHANGED canon
      BY <1>0, <1>6, ZenonT(60) DEF BeginRevert, Goto, At, TypeOK, tables
    <2>2. CanonUpTo(Path[req[t]][k], cursor[t])'
      BY <1>1, <1>3, <2>1, ZenonT(60) DEF CanonUpTo
    <2> QED
      BY <1>4, <1>5, <2>1, <2>2, ZenonT(60) DEF TableAt
  <1>7. CASE RevertHeight(t)
    <2>1. /\ pc[t] = "reverting" /\ pc'[t] = "reverting" /\ cursor'[t] = cursor[t] - 1
          /\ cursor[t] > revertTo[t] /\ canon' = [canon EXCEPT ![cursor[t]] = None]
      BY <1>0, <1>7, ZenonT(60) DEF RevertHeight, At, TypeOK
    <2>2. cursor[t] \in Heights /\ CanonUpTo(a, cursor[t])
      BY <1>0, <1>1, <2>1, ZenonT(60) DEF TypeOK
    <2>3. Height[a] < cursor[t]
      <3>1. Height[a] \in Nat /\ cursor[t] \in Nat
        BY <1>2, <2>2, HeightsClosed, BlockAssumption, ZenonT(60)
      <3> QED
        BY <1>1, <2>1, <3>1, ZenonT(60)
    <2> DEFINE n == cursor[t]
    <2> HIDE DEF a
    <2>4. \A c \in Chain(a) : canon'[Height[c]] = c
      BY <1>0, <1>2, <2>1, <2>2, <2>3, CanonCleared, ZenonT(60) DEF CanonUpTo
    <2>5. \A m \in Heights : canon'[m] # None => canon'[m] \in Chain(a) \/ (Height[a] < m /\ m <= cursor'[t])
      BY <1>0, <1>2, <2>1, <2>2, <2>3, CanonCleared, ZenonT(60) DEF CanonUpTo
    <2>6. CanonUpTo(Path[req[t]][k], cursor[t])'
      BY <1>3, <2>4, <2>5, ZenonT(60) DEF CanonUpTo, a
    <2> QED
      BY <1>4, <1>5, <2>1, <2>6, ZenonT(60) DEF TableAt
  <1>8. CASE RevertHead(t)
    <2>1. pc[t] = "reverting" /\ pc'[t] = "promote" /\ cursor[t] <= revertTo[t] /\ UNCHANGED canon
      BY <1>0, <1>8 DEF RevertHead, Goto, At, TypeOK, tables
    <2>2. cursor[t] \in Heights /\ CanonUpTo(a, cursor[t])
      BY <1>0, <1>1, <2>1, ZenonT(60) DEF TypeOK
    <2>3. CanonIs(a)
      BY <1>1, <1>2, <2>1, <2>2, CanonReverted, ZenonT(60)
    <2>4. CanonIs(Path[req[t]][k])'
      BY <1>3, <2>1, <2>3, Zenon DEF CanonIs
    <2> QED
      BY <1>4, <1>5, <2>1, <2>4, ZenonT(60) DEF TableAt
  <1> QED
    BY <1>6, <1>7, <1>8, Zenon

\* The promotion of blocks of the Payloads table leaves the canonical table alone.
LEMMA PromoteSwitch ==
    ASSUME NEW t \in Tasks, SwitchAt(t), PromoteBlock(t) \/ PromoteDone(t)
    PROVE  TableAt(t)' /\ OrderedAt(t)'
  <1>0. TypeOK /\ pc[t] = "promote" /\ Ordered(req[t], reqSafe[t], reqFin[t])
    BY Zenon DEF SwitchAt, BaseAt, PromoteBlock, PromoteDone, At, OrderedAt
  <1>1. PICK k \in DOMAIN Path[req[t]] : Above(t, branch[t], k) /\ CanonIs(Path[req[t]][k])
    BY <1>0, ZenonT(60) DEF SwitchAt, BaseAt, TableAt
  <1>2. /\ UNCHANGED <<req, reqSafe, reqFin, branch, canon>>
        /\ pc'[t] = "promote" \/ (pc'[t] = "mark" /\ todo'[t] = branch[t])
    BY <1>0, Zenon DEF PromoteBlock, PromoteDone, Goto, TypeOK, request, plan, tables
  <1>3. CanonIs(Path[req[t]][k])' /\ k \in DOMAIN Path[req'[t]]
    BY <1>1, <1>2, Zenon DEF CanonIs
  <1>4. Above(t, branch[t], k)' /\ (pc'[t] = "mark" => Above(t, todo[t], k)')
    BY <1>1, <1>2, Zenon DEF Above
  <1>5. OrderedAt(t)'
    BY <1>0, <1>2, Zenon DEF OrderedAt, Ordered
  <1> QED
    BY <1>2, <1>3, <1>4, <1>5, Zenon DEF TableAt

\* mark_branch_canonical: the table is extended by one block at a time.
LEMMA MarkSwitch ==
    ASSUME NEW t \in Tasks, SwitchAt(t),
           \/ InsertBlock(t) \/ RemovePayload(t) \/ SetCanonical(t) \/ InsertHeaderNumber(t)
           \/ MarkDone(t)
    PROVE  TableAt(t)' /\ OrderedAt(t)'
  <1> USE DEF tables, request
  <1>0. /\ TypeOK /\ pc[t] \in {"mark", "unlist", "link", "number"}
        /\ Ordered(req[t], reqSafe[t], reqFin[t]) /\ req[t] \in Hash
    BY Zenon DEF SwitchAt, BaseAt, InsertBlock, RemovePayload, SetCanonical, InsertHeaderNumber, MarkDone,
                 At, OrderedAt, TypeOK
  <1> DEFINE p == Path[req[t]]
  <1>1. PICK k \in DOMAIN p :
            /\ Above(t, todo[t], k)
            /\ pc[t] # "number" => CanonIs(p[k])
            /\ pc[t] = "number" => k # 1 /\ CanonIs(p[k - 1])
    BY <1>0, ZenonT(60) DEF SwitchAt, TableAt
  <1>2. /\ p \in Seq(Hash) /\ k \in 1 .. Len(p) /\ p[1] = req[t] /\ p[k] \in Hash /\ Len(p) \in Nat
        /\ k # 1 => k - 1 \in DOMAIN p /\ p[k - 1] # Genesis /\ Parent[p[k - 1]] = p[k]
    BY <1>0, ChainAt, Zenon
  <1>3. UNCHANGED <<req, reqSafe, reqFin>>
    BY Zenon DEF InsertBlock, RemovePayload, SetCanonical, InsertHeaderNumber, MarkDone
  <1>4. todo[t] = SubSeq(p, 1, k - 1)
    BY <1>1, Zenon DEF Above
  <1>5. k - 1 \in 0 .. Len(p)
    BY <1>2
  <1>6. (k = 1 => todo[t] = <<>>) /\ (k # 1 => todo[t] # <<>>) /\ Len(todo[t]) = k - 1
        /\ \A i \in 1 .. k - 1 : todo[t][i] = p[i]
    <2> HIDE DEF p
    <2> DEFINE n == k - 1
    <2>1. /\ Len(SubSeq(p, 1, n)) = n /\ (n = 0 => SubSeq(p, 1, n) = <<>>) /\ (n # 0 => SubSeq(p, 1, n) # <<>>)
          /\ \A i \in 1 .. n : SubSeq(p, 1, n)[i] = p[i]
      BY <1>2, <1>5, Prefix
    <2>2. k = 1 <=> n = 0
      BY <1>2
    <2> QED
      BY <1>4, <2>1, <2>2, ZenonT(60)
  <1>7. CASE MarkDone(t)
    <2>1. pc[t] = "mark" /\ pc'[t] = "finish" /\ UNCHANGED canon /\ k = 1
      BY <1>0, <1>6, <1>7, ZenonT(60) DEF MarkDone, Goto, At, TypeOK
    <2>2. CanonIs(req[t])'
      BY <1>1, <1>2, <1>3, <2>1, ZenonT(60) DEF CanonIs
    <2>3. OrderedAt(t)'
      BY <1>0, <1>3, <2>1, ZenonT(60) DEF OrderedAt, Ordered
    <2> QED
      BY <2>1, <2>2, <2>3, ZenonT(60) DEF TableAt
  <1>8. CASE InsertBlock(t) \/ RemovePayload(t)
    <2>1. /\ pc[t] \in {"mark", "unlist"} /\ pc'[t] \in {"unlist", "link"}
          /\ UNCHANGED <<canon, todo>>
      BY <1>0, <1>8, Zenon DEF InsertBlock, RemovePayload, Goto, At, TypeOK
    <2>2. CanonIs(Path[req[t]][k])' /\ k \in DOMAIN Path[req'[t]] /\ Above(t, todo[t], k)'
      BY <1>1, <1>3, <2>1, Zenon DEF CanonIs, Above
    <2>3. OrderedAt(t)'
      BY <1>0, <1>3, <2>1, ZenonT(60) DEF OrderedAt, Ordered
    <2> QED
      BY <2>1, <2>2, <2>3, ZenonT(60) DEF TableAt
  <1>9. CASE SetCanonical(t)
    <2> DEFINE b == p[k - 1]
    <2>1. pc[t] = "link" /\ pc'[t] = "number" /\ k # 1 /\ UNCHANGED todo
      BY <1>0, <1>6, <1>9, Zenon DEF SwitchAt, BaseAt, Entered, Entering, SetCanonical, Goto, At, TypeOK
    <2>2. k - 1 \in 1 .. k - 1 /\ k - 1 \in 1 .. Len(p) /\ b \in Hash /\ b # Genesis /\ Parent[b] = p[k]
      BY <1>2, <2>1
    <2>3. Marking(t) = b
      BY <1>6, <2>2, ZenonT(60) DEF Marking
    <2>4. canon' = [canon EXCEPT ![Height[b]] = b]
      BY <1>9, <2>3, ZenonT(60) DEF SetCanonical
    <2>6. ASSUME NEW c \in Hash, c = b PROVE CanonIs(c)'
      BY <1>0, <1>1, <2>1, <2>2, <2>4, <2>6, CanonExtended, ZenonT(60)
    <2>7. CanonIs(Path[req[t]][k - 1])'
      BY <1>3, <2>2, <2>6, ZenonT(60) DEF CanonIs
    <2>8. k \in DOMAIN Path[req'[t]] /\ Above(t, todo[t], k)'
      BY <1>1, <1>3, <2>1, Zenon DEF Above
    <2>9. OrderedAt(t)'
      BY <1>0, <1>3, <2>1, ZenonT(60) DEF OrderedAt, Ordered
    <2> QED
      BY <2>1, <2>7, <2>8, <2>9, ZenonT(60) DEF TableAt
  <1>10. CASE InsertHeaderNumber(t)
    <2>1. pc[t] = "number" /\ pc'[t] = "mark" /\ UNCHANGED canon
      BY <1>0, <1>10, Zenon DEF InsertHeaderNumber, Goto, At, TypeOK
    <2>2. k # 1 /\ k - 1 \in 1 .. k - 1 /\ k - 1 \in 1 .. Len(p)
      BY <1>1, <1>2, <2>1
    <2>3. todo'[t] = SubSeq(todo[t], 1, Len(todo[t]) - 1)
      BY <1>0, <1>10, ZenonT(60) DEF InsertHeaderNumber, TypeOK
    <2>4. todo'[t] = SubSeq(p, 1, (k - 1) - 1)
      <3> HIDE DEF p
      <3> DEFINE n == k - 1
      <3>1. SubSeq(SubSeq(p, 1, n), 1, n - 1) = SubSeq(p, 1, n - 1)
        BY <1>2, <2>2, PrefixShorter, Zenon
      <3> QED
        BY <1>4, <1>6, <2>3, <3>1, Zenon
    <2>5. CanonIs(Path[req[t]][k - 1])' /\ k - 1 \in DOMAIN Path[req'[t]]
      BY <1>1, <1>2, <1>3, <2>1, <2>2, Zenon DEF CanonIs
    <2>6. Above(t, todo[t], k - 1)'
      BY <1>3, <2>4, <2>5, Zenon DEF Above
    <2>7. OrderedAt(t)'
      BY <1>0, <1>3, <2>1, ZenonT(60) DEF OrderedAt, Ordered
    <2> QED
      BY <2>1, <2>5, <2>6, <2>7, ZenonT(60) DEF TableAt
  <1> QED
    BY <1>7, <1>8, <1>9, <1>10, Zenon

\* The end of a call: head, safe and finalized are the ones that were checked.
LEMMA FinishSwitch ==
    ASSUME NEW t \in Tasks, SwitchAt(t),
           (\E r \in {"VALID", "BADATTRIBUTES"} : Finish(t, r)) \/ \E b \in Hash : FinishAndBuild(t, b)
    PROVE  TableAt(t)' /\ OrderedAt(t)'
  <1>0. TypeOK /\ CanonIs(req[t]) /\ Ordered(req[t], reqSafe[t], reqFin[t])
    BY ZenonT(60) DEF SwitchAt, BaseAt, Finish, FinishAndBuild, At, TableAt, OrderedAt
  <1>1. /\ head' = req[t] /\ safe' = reqSafe[t] /\ finalized' = reqFin[t]
        /\ headNumber' = Height[req[t]] /\ pc'[t] = "idle" /\ UNCHANGED canon
    BY <1>0, Zenon DEF Finish, FinishAndBuild, SetForkchoice, Return, Goto, TypeOK, tables
  <1> QED
    BY <1>0, <1>1, ZenonT(60) DEF TableAt, CanonIs, OrderedAt, Ordered

\* Nothing fails: no fault is injected, the common ancestor is canonical, a block of the
\* Payloads table has its parent in the main tables, and the head is not taken away.
LEMMA NothingFails ==
    ASSUME NEW t \in Tasks, BaseAt(t),
           RevertFails(t) \/ PromoteFails(t) \/ MarkFails(t) \/ \E r : HeadGone(t, r)
    PROVE  FALSE
  <1>0. TypeOK /\ Faults = {} /\ dropped = {} /\ InFlight /\ ParentsStored
    BY Zenon DEF BaseAt, Undisturbed, NoneDropped
  <1>1. CASE RevertFails(t)
    BY <1>0, <1>1, Zenon DEF RevertFails, At, BaseAt, HeadAt
  <1>2. CASE PromoteFails(t)
    <2> DEFINE b == Head(todo[t])
    <2>1. todo[t] # <<>> /\ b \notin stored /\ Parent[b] \notin stored
      BY <1>0, <1>2, Zenon DEF PromoteFails
    <2>2. todo[t] \in Seq(Hash)
      BY <1>0, Zenon DEF TypeOK
    <2>3. b = todo[t][1] /\ 1 \in 1 .. Len(todo[t])
      BY <2>1, <2>2
    <2>4. b \in Seen /\ Genesis \in stored
      BY <1>0, <2>3, Zenon DEF InFlight
    <2> QED
      BY <1>0, <2>1, <2>4, Zenon DEF ParentsStored, Seen
  <1>3. CASE MarkFails(t)
    BY <1>0, <1>3, Zenon DEF MarkFails
  <1>4. CASE \E r : HeadGone(t, r)
    BY <1>0, <1>4, Zenon DEF HeadGone, InFlight, Seen
  <1> QED
    BY <1>1, <1>2, <1>3, <1>4, Zenon

\* Every step of a call keeps its head on the way into the table.
LEMMA StepHead == ASSUME NEW t \in Tasks, BaseAt(t), Step(t) PROVE HeadAt(t)'
  <1> USE DEF tables, fcState, request, saved, plan
  <1>0. /\ TypeOK /\ HeadAt(t) /\ Entered
        /\ pc \in [Tasks -> Labels] /\ todo \in [Tasks -> Seq(Hash)] /\ req[t] \in Hash
        /\ canon \in [Heights -> MaybeHash] /\ todo[t] \in Seq(Hash)
    BY Zenon DEF BaseAt, TypeOK
  <1>1. CASE UpdateForkchoice(t)
    <2>1. pc[t] = "update" /\ pc'[t] = "resolve" /\ UNCHANGED <<canon, old>>
      BY <1>0, <1>1, Zenon DEF UpdateForkchoice, At, Goto
    <2> QED
      BY <1>0, <2>1, Zenon DEF HeadAt, InTable
  <1>2. CASE ResolveReorg(t)
    <2> DEFINE p == Path[req[t]]
    <2>1. PICK i \in Stops(t) : (\A j \in Stops(t) : i <= j) /\ Planned(t, i)
      BY <1>2, Zenon DEF ResolveReorg
    <2>2. At(t, "resolve") /\ UNCHANGED <<canon, req>>
      BY <1>2, Zenon DEF ResolveReorg
    <2>3. i \in DOMAIN p /\ IsCanonical(p[i]) /\ p[i] \in stored
      BY <2>1, <2>2, StopCanonical, Zenon
    <2>4. /\ p \in Seq(Hash) /\ i \in 1 .. Len(p) /\ p[1] = req[t] /\ p[i] \in Hash
      BY <1>0, <2>3, ChainAt, Zenon
    <2>5. branch'[t] = SubSeq(p, 1, i - 1)
      BY <1>0, <2>1, <2>3, PlannedType, Zenon
    <2>6. /\ pc'[t] \in {"revert", "promote"}
          /\ pc'[t] = "revert" => i > 1 /\ revertTo'[t] = Height[p[i]]
      BY <1>0, <2>1, <2>3, Zenon DEF Planned, Goto, TypeOK
    <2>7. CASE i = 1
      <3>1. branch'[t] = <<>>
        BY <2>4, <2>5, <2>7
      <3>2. pc'[t] = "promote" /\ InTable(req[t])
        BY <2>3, <2>4, <2>6, <2>7 DEF IsCanonical, InTable
      <3> QED
        BY <2>2, <3>1, <3>2, Zenon DEF HeadAt, Reaches, InTable
    <2>8. CASE i # 1
      <3>1. branch'[t] # <<>> /\ branch'[t][1] = req[t]
        <4>1. i - 1 \in 1 .. Len(p)
          BY <2>4, <2>8
        <4> QED
          BY <2>4, <2>5, <4>1, FirstKept, Zenon
      <3>2. canon[Height[p[i]]] # None
        BY <2>3, <2>4, BlockAssumption, Zenon DEF IsCanonical
      <3>3. pc'[t] = "revert" => canon'[revertTo'[t]] # None
        BY <2>2, <2>6, <3>2, Zenon
      <3> QED
        BY <2>2, <2>6, <3>1, <3>3, Zenon DEF HeadAt, Reaches, InTable
    <2> QED
      BY <2>7, <2>8, Zenon
  <1>3. CASE BeginRevert(t)
    <2>1. pc[t] = "revert" /\ pc'[t] = "reverting" /\ UNCHANGED <<canon, req, branch, revertTo>>
      BY <1>0, <1>3, Zenon DEF BeginRevert, At, Goto
    <2> QED
      BY <1>0, <2>1, Zenon DEF HeadAt
  <1>4. CASE RevertHeight(t)
    <2>1. /\ pc[t] = "reverting" /\ UNCHANGED <<pc, req, branch, revertTo>>
          /\ canon' = [canon EXCEPT ![cursor[t]] = None] /\ cursor[t] > revertTo[t]
      BY <1>4, Zenon DEF RevertHeight, At
    <2>2. cursor[t] \in Heights /\ revertTo[t] \in Heights
      BY <1>0, Zenon DEF TypeOK
    <2>a. cursor[t] \in Nat /\ revertTo[t] \in Nat
      BY <2>2, HeightsClosed, Zenon
    <2>3. cursor[t] # revertTo[t]
      BY <2>1, <2>a
    <2>4. canon'[revertTo[t]] = canon[revertTo[t]]
      BY <1>0, <2>1, <2>2, <2>3, Zenon
    <2> QED
      BY <1>0, <2>1, <2>4, Zenon DEF HeadAt
  <1>5. CASE RevertHead(t)
    <2>1. pc[t] = "reverting" /\ pc'[t] = "promote" /\ UNCHANGED <<req, branch>>
      BY <1>0, <1>5, Zenon DEF RevertHead, At, Goto
    <2> QED
      BY <1>0, <2>1, Zenon DEF HeadAt, Reaches
  <1>6. CASE PromoteBlock(t)
    <2>1. pc[t] = "promote" /\ UNCHANGED <<pc, canon, req, branch>>
      BY <1>6, Zenon DEF PromoteBlock, At
    <2> QED
      BY <1>0, <2>1, Zenon DEF HeadAt, Reaches, InTable
  <1>7. CASE PromoteDone(t)
    <2>1. pc[t] = "promote" /\ pc'[t] = "mark" /\ todo'[t] = branch[t] /\ UNCHANGED <<canon, req>>
      BY <1>0, <1>7, Zenon DEF PromoteDone, At, Goto
    <2> QED
      BY <1>0, <2>1, Zenon DEF HeadAt, Reaches, InTable
  <1>8. CASE InsertBlock(t) \/ RemovePayload(t)
    <2>1. /\ pc[t] \in {"mark", "unlist"} /\ pc'[t] \in {"unlist", "link"}
          /\ UNCHANGED <<canon, req, todo>>
      BY <1>0, <1>8, Zenon DEF InsertBlock, RemovePayload, At, Goto
    <2> QED
      BY <1>0, <2>1, Zenon DEF HeadAt, Reaches, InTable
  <1>9. CASE SetCanonical(t)
    <2>1. /\ pc[t] = "link" /\ pc'[t] = "number" /\ UNCHANGED <<req, todo>> /\ todo[t] # <<>>
          /\ canon' = [canon EXCEPT ![Height[Marking(t)]] = Marking(t)]
      BY <1>0, <1>9, Zenon DEF SetCanonical, At, Goto, Entered, Entering
    <2>2. todo[t][1] = req[t]
      BY <1>0, <2>1, Zenon DEF HeadAt, Reaches
    <2>3. Height[Marking(t)] \in Heights
      BY <1>0, <2>1, MarkingType, Zenon DEF Heights
    <2>4. canon'[Height[Marking(t)]] = Marking(t)
      BY <1>0, <2>1, <2>3, Zenon
    <2> QED
      BY <2>1, <2>2, <2>4, Zenon DEF HeadAt, InTable, Marking
  <1>10. CASE InsertHeaderNumber(t)
    <2> DEFINE n == Len(todo[t])
               rest == SubSeq(todo[t], 1, n - 1)
    <2>1. /\ pc[t] = "number" /\ pc'[t] = "mark" /\ UNCHANGED <<canon, req>> /\ todo[t] # <<>>
          /\ todo'[t] = rest
      BY <1>0, <1>10, Zenon DEF InsertHeaderNumber, At, Goto, Entered, Entering
    <2>2. todo[t][1] = req[t] /\ canon[Height[todo[t][n]]] = todo[t][n]
      BY <1>0, <2>1, Zenon DEF HeadAt, InTable, Marking
    <2>3. n \in Nat /\ n >= 1
      BY <1>0, <2>1
    <2>4. CASE n = 1
      <3>1. rest = <<>>
        BY <1>0, <2>4
      <3>2. canon[Height[req[t]]] = req[t]
        BY <2>2, <2>4, Zenon
      <3> QED
        BY <2>1, <3>1, <3>2, Zenon DEF HeadAt, Reaches, InTable
    <2>5. CASE n # 1
      <3>a. n - 1 \in 1 .. n
        <4> HIDE DEF n
        <4> QED
          BY <2>3, <2>5
      <3>1. rest # <<>> /\ rest[1] = todo[t][1]
        BY <1>0, <3>a, FirstKept, Zenon
      <3> QED
        BY <2>1, <2>2, <3>1, Zenon DEF HeadAt, Reaches
    <2> QED
      BY <2>4, <2>5, Zenon
  <1>11. CASE MarkDone(t)
    <2>1. pc[t] = "mark" /\ pc'[t] = "finish" /\ UNCHANGED <<canon, req>> /\ todo[t] = <<>>
      BY <1>0, <1>11, Zenon DEF MarkDone, At, Goto
    <2> QED
      BY <1>0, <2>1, Zenon DEF HeadAt, Reaches, InTable
  <1>12. CASE (\E r \in {"VALID", "BADATTRIBUTES"} : Finish(t, r)) \/ \E b \in Hash : FinishAndBuild(t, b)
    <2>1. pc[t] = "finish" /\ head' = req[t] /\ pc'[t] = "idle" /\ UNCHANGED canon
      BY <1>0, <1>12, Zenon DEF Finish, FinishAndBuild, SetForkchoice, Return, At, Goto
    <2> QED
      BY <1>0, <2>1, Zenon DEF HeadAt, InTable
  <1>13. ~(RevertFails(t) \/ PromoteFails(t) \/ MarkFails(t) \/ \E r : HeadGone(t, r))
    BY NothingFails, Zenon
  <1> QED
    BY <1>1, <1>2, <1>3, <1>4, <1>5, <1>6, <1>7, <1>8, <1>9, <1>10, <1>11, <1>12, <1>13, Zenon DEF Step

\* A call starts from the head of its time.
LEMMA AcceptHead ==
    ASSUME NEW t \in Tasks, BaseAt(t), NEW h, NEW s, NEW f, Accept(t, h, s, f) PROVE HeadAt(t)'
  <1>1. /\ pc[t] = "idle" /\ InTable(head) /\ pc'[t] = "update" /\ old'[t] = head /\ UNCHANGED canon
    BY Zenon DEF BaseAt, HeadAt, Accept, At, TypeOK, tables
  <1> QED
    BY <1>1, Zenon DEF HeadAt, InTable

\* What the switch is about.
Frame == UNCHANGED <<canon, head, safe, finalized, headNumber, pc, req, reqSafe, reqFin, old,
                     branch, todo, revertTo, cursor>>

\* Imports, refused calls and stuttering leave the switch alone.
LEMMA FrameSwitch ==
    ASSUME NEW t \in Tasks, Frame
    PROVE  /\ HeadAt(t) => HeadAt(t)'
           /\ TableAt(t) /\ OrderedAt(t) => TableAt(t)' /\ OrderedAt(t)'
  <1> USE DEF Frame
  <1>1. ASSUME HeadAt(t) PROVE HeadAt(t)'
    BY <1>1, Zenon DEF HeadAt, InTable, Reaches, Marking
  <1>2. ASSUME TableAt(t) PROVE TableAt(t)'
    BY <1>2, Zenon DEF TableAt, CanonIs, CanonUpTo, Above
  <1>3. ASSUME OrderedAt(t) PROVE OrderedAt(t)'
    BY <1>3, Zenon DEF OrderedAt, Ordered
  <1> QED
    BY <1>1, <1>2, <1>3, Zenon

\* A block arrives with its parent: an import starts on a stored parent, a payload is built
\* on the head of the call, which is canonical by then, and no step removes a block from
\* the main tables.
LEMMA ParentsKept ==
    ASSUME HeadInv, [Next]_vars, MaxCrashes = 0
    PROVE  ParentsStored'
  <1>0. TypeOK /\ CanonicalStored /\ stored \subseteq stored' /\ ParentsStored /\ dropped = {}
    BY SeenGrows, Zenon DEF HeadInv, Inv, Grows, NoneDropped
  <1> USE DEF tables
  <1>1. ASSUME UNCHANGED <<stored, payloads>> PROVE ParentsStored'
    BY <1>0, <1>1, Zenon DEF ParentsStored
  <1>2. CASE UNCHANGED vars
    BY <1>1, <1>2, Zenon DEF vars
  <1>3. CASE Import
    <2>1. ASSUME NEW b \in Hash, RefusedAndRemoved(b) PROVE ParentsStored'
      BY <1>0, <2>1, Zenon DEF RefusedAndRemoved, ParentsStored
    <2>2. ASSUME NEW b \in Hash, ImportPersist(b) PROVE ParentsStored'
      BY <1>0, <2>2, Zenon DEF ImportPersist, ParentsStored
    <2>3. ASSUME NEW b \in Hash, NEW r \in {"Soft", "Hard"}, Refused(b, r) PROVE ParentsStored'
      BY <1>1, <2>3, Zenon DEF Refused
    <2> QED
      BY <1>3, <2>1, <2>2, <2>3, Zenon DEF Import
  <1>4. CASE Crash
    BY <1>0, <1>4 DEF Crash, TypeOK
  <1>5. ASSUME NEW t \in Tasks, Call(t) PROVE ParentsStored'
    BY <1>1, <1>5, ZenonT(60) DEF Call, RefuseHead, RefuseForkchoice, Accept
  <1>6. ASSUME NEW t \in Tasks, InsertBlock(t) \/ RemovePayload(t) PROVE ParentsStored'
    <2>1. stored' \cup payloads' \subseteq stored \cup payloads
      BY <1>6, Zenon DEF InsertBlock, RemovePayload
    <2> QED
      BY <1>0, <2>1, ZenonT(60) DEF ParentsStored
  <1>7. ASSUME NEW t \in Tasks, NEW b \in Hash, FinishAndBuild(t, b) PROVE ParentsStored'
    <2>1. /\ UNCHANGED stored /\ payloads' = payloads \cup {b} /\ Parent[b] = req[t]
          /\ canon[Height[req[t]]] = req[t] /\ req[t] \in Hash
      BY <1>0, <1>7, ZenonT(60) DEF FinishAndBuild, At, HeadInv, HeadAt, InTable, TypeOK
    <2>2. Height[req[t]] \in Heights
      BY <2>1, Zenon DEF Heights
    <2>3. req[t] \in stored
      BY <2>1, <2>2, BlockAssumption, <1>0 DEF CanonicalStored
    <2> QED
      BY <1>0, <2>1, <2>3, ZenonT(60) DEF ParentsStored
  <1>8. ASSUME NEW t \in Tasks, Step(t) PROVE ParentsStored'
    BY Zenon, <1>1, <1>6, <1>7, <1>8
    DEF Step, UpdateForkchoice, ResolveReorg, BeginRevert, RevertHeight, RevertHead, RevertFails,
        PromoteBlock, PromoteFails, PromoteDone, SetCanonical, InsertHeaderNumber, MarkFails, MarkDone,
        HeadGone, Finish
  <1> QED
    BY <1>2, <1>3, <1>4, <1>5, <1>8, Zenon DEF Next

\* The Payloads table only has blocks built here, and none of those is refused.
LEMMA NoneDroppedKept ==
    ASSUME Undisturbed, HeadInv, [Next]_vars PROVE NoneDropped'
  <1>0. /\ dropped = {} /\ payloads \subseteq Buildable \cup {Genesis} /\ Genesis \in stored
        /\ Refusable \cap Buildable = {}
    BY Zenon DEF HeadInv, Inv, InFlight, NoneDropped, Undisturbed
  <1> USE DEF tables, memory
  <1>1. ASSUME UNCHANGED <<payloads, dropped>> PROVE NoneDropped'
    BY <1>0, <1>1, Zenon DEF NoneDropped
  <1>2. ASSUME NEW b \in Hash, RefusedAndRemoved(b) PROVE NoneDropped'
    <2>1. b \notin payloads
      BY <1>0, <1>2, Zenon DEF RefusedAndRemoved
    <2> QED
      BY <1>0, <1>2, <2>1, Zenon DEF RefusedAndRemoved, NoneDropped
  <1>3. ASSUME NEW b \in Hash, ImportPersist(b) PROVE NoneDropped'
    BY <1>0, <1>3, Zenon DEF ImportPersist, NoneDropped
  <1>4. CASE Import
    BY <1>1, <1>2, <1>3, <1>4, Zenon DEF Import, Refused
  <1>5. ASSUME NEW t \in Tasks, RemovePayload(t) \/ \E b \in Hash : FinishAndBuild(t, b) PROVE NoneDropped'
    BY <1>0, <1>5, Zenon DEF RemovePayload, FinishAndBuild, NoneDropped
  <1>6. ASSUME NEW t \in Tasks, Call(t) PROVE NoneDropped'
    BY <1>1, <1>6, Zenon DEF Call, RefuseHead, RefuseForkchoice, Accept
  <1>7. ASSUME NEW t \in Tasks, Step(t) PROVE NoneDropped'
    BY Zenon, <1>1, <1>5, <1>7
    DEF Step, UpdateForkchoice, ResolveReorg, BeginRevert, RevertHeight, RevertHead, RevertFails,
        PromoteBlock, PromoteFails, PromoteDone, InsertBlock, SetCanonical, InsertHeaderNumber,
        MarkFails, MarkDone, HeadGone, Finish
  <1> QED
    BY <1>1, <1>4, <1>6, <1>7, Zenon DEF Next, Crash, vars

\* What happens to the switch in one step.
LEMMA StepKinds ==
    ASSUME [Next]_vars, TypeOK, MaxCrashes = 0
    PROVE  \/ Frame /\ lowered' = lowered
           \/ \E u \in Tasks : Step(u) /\ lowered' = lowered
           \/ \E u \in Tasks, h \in Hash, s, f \in SafeArgs :
                Accept(u, h, s, f) /\ lowered' = (lowered \/ Height[h] < headNumber)
  <1> USE DEF tables, fcState, memory, call, request, saved, plan, Frame
  <1>1. CASE UNCHANGED vars
    BY <1>1, Zenon DEF vars
  <1>2. CASE Import
    BY <1>2, Zenon DEF Import, ImportPersist, Refused, RefusedAndRemoved
  <1>3. ~Crash
    BY DEF Crash, TypeOK
  <1>4. ASSUME NEW u \in Tasks, Call(u)
        PROVE  \/ Frame /\ lowered' = lowered
               \/ \E h \in Hash, s, f \in SafeArgs :
                    Accept(u, h, s, f) /\ lowered' = (lowered \/ Height[h] < headNumber)
    <2>1. PICK h \in Hash :
            RefuseHead(u, h) \/ \E s, f \in SafeArgs : RefuseForkchoice(u, h, s, f) \/ Accept(u, h, s, f)
      BY <1>4, Zenon DEF Call
    <2>2. CASE RefuseHead(u, h) \/ \E s, f \in SafeArgs : RefuseForkchoice(u, h, s, f)
      BY <2>2, Zenon DEF RefuseHead, RefuseForkchoice
    <2>3. ASSUME NEW s \in SafeArgs, NEW f \in SafeArgs, Accept(u, h, s, f)
          PROVE  lowered' = (lowered \/ Height[h] < headNumber)
      BY <2>3, Zenon DEF Accept
    <2> QED
      BY <2>1, <2>2, <2>3, Zenon
  <1>5. ASSUME NEW u \in Tasks, Step(u) PROVE lowered' = lowered
    BY Zenon, <1>5
    DEF Step, UpdateForkchoice, ResolveReorg, BeginRevert, RevertHeight, RevertHead, RevertFails,
        PromoteBlock, PromoteFails, PromoteDone, InsertBlock, RemovePayload, SetCanonical,
        InsertHeaderNumber, MarkFails, MarkDone, HeadGone, Finish, FinishAndBuild
  <1> QED
    BY <1>1, <1>2, <1>3, <1>4, <1>5, Zenon DEF Next

\* One step, when nothing disturbs the switch: the head.
LEMMA NextHead == ASSUME Undisturbed, HeadInv, [Next]_vars PROVE HeadInv'
  <1>0. Inv /\ Inv' /\ MaxCrashes = 0 /\ TypeOK
    BY NextInv, Zenon DEF HeadInv, Undisturbed, Inv
  <1>1. ParentsStored' /\ NoneDropped'
    BY <1>0, ParentsKept, NoneDroppedKept, Zenon
  <1>2. ASSUME NEW t \in Tasks PROVE HeadAt(t)'
    <2>1. BaseAt(t) /\ HeadAt(t)
      BY Zenon DEF HeadInv, BaseAt, Inv
    <2>2. \A u \in Tasks : u = t
      BY DEF Undisturbed
    <2>3. CASE Frame
      BY <2>1, <2>3, FrameSwitch, Zenon
    <2>4. CASE \E u \in Tasks : Step(u)
      BY <2>1, <2>2, <2>4, StepHead, Zenon
    <2>5. CASE \E u \in Tasks, h \in Hash, s, f \in SafeArgs : Accept(u, h, s, f)
      BY <2>1, <2>2, <2>5, AcceptHead, Zenon
    <2> QED
      BY <1>0, <2>3, <2>4, <2>5, StepKinds, Zenon
  <1> QED
    BY <1>0, <1>1, <1>2, Zenon DEF HeadInv

\* Every step of a call keeps the table and the order.
LEMMA StepSwitch == ASSUME NEW t \in Tasks, SwitchAt(t), Step(t) PROVE TableAt(t)' /\ OrderedAt(t)'
  <1> DEFINE Good == TableAt(t)' /\ OrderedAt(t)'
  <1> SUFFICES Good
    OBVIOUS
  <1> HIDE DEF Good
  <1>3. CASE UpdateForkchoice(t)
    BY <1>3, UpdateSwitch, Zenon DEF Good
  <1>4. CASE ResolveReorg(t)
    BY <1>4, ResolveSwitch, Zenon DEF Good
  <1>5. CASE BeginRevert(t) \/ RevertHeight(t) \/ RevertHead(t)
    BY <1>5, RevertSwitch, Zenon DEF Good
  <1>6. CASE PromoteBlock(t) \/ PromoteDone(t)
    BY <1>6, PromoteSwitch, Zenon DEF Good
  <1>7. CASE \/ InsertBlock(t) \/ RemovePayload(t) \/ SetCanonical(t) \/ InsertHeaderNumber(t)
             \/ MarkDone(t)
    BY <1>7, MarkSwitch, Zenon DEF Good
  <1>8. CASE (\E r \in {"VALID", "BADATTRIBUTES"} : Finish(t, r)) \/ \E b \in Hash : FinishAndBuild(t, b)
    BY <1>8, FinishSwitch, Zenon DEF Good
  <1>9. ~(RevertFails(t) \/ PromoteFails(t) \/ MarkFails(t) \/ \E r : HeadGone(t, r))
    BY NothingFails, Zenon DEF SwitchAt
  <1> QED
    BY <1>3, <1>4, <1>5, <1>6, <1>7, <1>8, <1>9, Zenon DEF Step

\* One step, when nothing disturbs the switch: the whole table, until a lower head is named.
LEMMA NextSwitch == ASSUME Undisturbed, SwitchInv, [Next]_vars PROVE SwitchInv'
  <1>0. HeadInv /\ HeadInv' /\ MaxCrashes = 0 /\ TypeOK
    BY NextHead, Zenon DEF SwitchInv, HeadInv, Undisturbed, Inv
  <1>1. ASSUME NEW t \in Tasks, ~lowered' PROVE TableAt(t)' /\ OrderedAt(t)'
    <2>2. \A u \in Tasks : u = t
      BY DEF Undisturbed
    <2>a. ~lowered => SwitchAt(t) /\ TableAt(t) /\ OrderedAt(t)
      BY <1>0, Zenon DEF SwitchInv, HeadInv, SwitchAt, BaseAt, Inv
    <2>3. CASE Frame /\ lowered' = lowered
      BY <1>1, <2>a, <2>3, FrameSwitch, Zenon
    <2>4. ASSUME NEW u \in Tasks, Step(u), lowered' = lowered PROVE TableAt(t)' /\ OrderedAt(t)'
      <3>1. Step(t) /\ SwitchAt(t)
        BY <1>1, <2>a, <2>2, <2>4, Zenon
      <3> QED
        BY <3>1, StepSwitch, Zenon
    <2>5. ASSUME NEW u \in Tasks, NEW h \in Hash, NEW s \in SafeArgs, NEW f \in SafeArgs,
                 Accept(u, h, s, f), lowered' = (lowered \/ Height[h] < headNumber)
          PROVE  TableAt(t)' /\ OrderedAt(t)'
      <3>1. ~lowered /\ ~(Height[h] < headNumber) /\ u = t
        BY <1>1, <2>2, <2>5, Zenon
      <3>2. Height[h] \in Nat /\ headNumber \in Nat
        BY <1>0, BlockAssumption, HeightsClosed, Zenon DEF TypeOK
      <3>3. Height[h] >= headNumber
        BY <3>1, <3>2
      <3> QED
        BY <2>a, <2>5, <3>1, <3>3, AcceptSwitch, Zenon
    <2> QED
      BY <1>0, <2>3, <2>4, <2>5, StepKinds, Zenon
  <1> QED
    BY <1>0, <1>1, Zenon DEF SwitchInv

\* A fresh database: genesis is the whole canonical table.
LEMMA InitSwitch == Init => SwitchInv
  <1> SUFFICES ASSUME Init PROVE SwitchInv
    BY Zenon
  <1>1. ParentsStored /\ NoneDropped
    BY Zenon DEF Init, ParentsStored, NoneDropped
  <1>2. Chain(Genesis) = {Genesis}
    <2>1. Path[Genesis] = <<Genesis>>
      BY BlockAssumption, PathAssumption, Zenon
    <2>2. DOMAIN <<Genesis>> = {1} /\ <<Genesis>>[1] = Genesis
      OBVIOUS
    <2> QED
      BY Zenon, <2>1, <2>2 DEF Chain, Ancestors
  <1>3. ASSUME NEW t \in Tasks PROVE HeadAt(t) /\ TableAt(t) /\ OrderedAt(t)
    <2>1. pc[t] = "idle" /\ headNumber = Height[head] /\ head = Genesis /\ safe = None /\ finalized = None
      BY BlockAssumption, Zenon DEF Init
    <2>2. CanonIs(Genesis)
      BY <1>2, BlockAssumption, HeightsClosed, Zenon DEF Init, CanonIs
    <2>3. InTable(Genesis)
      BY <1>2, <2>2, Zenon DEF CanonIs, InTable
    <2> QED
      BY <2>1, <2>2, <2>3, Zenon DEF HeadAt, TableAt, OrderedAt, Ordered
  <1> QED
    BY <1>1, <1>3, InitInv, Zenon DEF SwitchInv, HeadInv

\* Nothing disturbs a switch: then, between calls, the head is canonical, and until a lower
\* head is named the canonical table is its chain and the forkchoice state is in order.
LEMMA QuietSwitch ==
    ASSUME Undisturbed, SwitchInv, Quiet
    PROVE  InTable(head) /\ (~lowered => CanonIs(head) /\ Ordered(head, safe, finalized))
  BY Zenon DEF Undisturbed, SwitchInv, HeadInv, Quiet, At, HeadAt, TableAt, OrderedAt

\* On every block tree, when no call overlaps another one, no write fails, the node does not
\* restart and no payload built here is refused: between calls the head is the canonical
\* block of its height, also when it was named below the head of its time.  The revert may
\* clear less than the old branch then, but the last block marked is the head.
THEOREM HeadIsCanonical == ASSUME Undisturbed PROVE Spec => []HeadCanonical
  <1>1. SwitchInv => HeadCanonical
    BY QuietSwitch, Zenon DEF HeadCanonical, InTable
  <1>2. SwitchInv /\ [Next]_vars => SwitchInv'
    BY NextSwitch, Zenon
  <1> QED
    BY <1>1, <1>2, InitSwitch, PTL DEF Spec

\* Under the same conditions, and until a head below the current one is named, the head and
\* all its ancestors are canonical between calls: revert_to_height and
\* mark_branch_canonical leave out no height, however deep the reorg and whichever blocks
\* were only in the Payloads table.
THEOREM HeadPathIsCanonical == ASSUME Undisturbed PROVE Spec => []HeadPathCanonical
  <1>1. SwitchInv => HeadPathCanonical
    <2> SUFFICES ASSUME SwitchInv, Quiet, ~lowered, NEW i \in DOMAIN Path[head]
                 PROVE  canon[Height[Path[head][i]]] = Path[head][i]
      BY Zenon DEF HeadPathCanonical
    <2>1. Path[head][i] \in Chain(head)
      BY Zenon DEF Chain, Ancestors
    <2> QED
      BY <2>1, QuietSwitch, ZenonT(60) DEF CanonIs
  <1>2. SwitchInv /\ [Next]_vars => SwitchInv'
    BY NextSwitch, Zenon
  <1> QED
    BY <1>1, <1>2, InitSwitch, PTL DEF Spec

\* Under the same conditions, and until a head below the current one is named, safe is an
\* ancestor of the head and finalized one of safe: the answers is_ancestor takes from the
\* canonical table are right when the call is checked, and the call writes what was checked.
THEOREM ForkchoiceStaysOrdered == ASSUME Undisturbed PROVE Spec => []ForkchoiceOrdered
  <1>1. ASSUME NEW b, NEW h PROVE b \in Chain(h) => OnPath(b, h)
    BY Zenon DEF Chain, Ancestors, OnPath
  <1>2. SwitchInv => ForkchoiceOrdered
    BY <1>1, QuietSwitch, Zenon DEF ForkchoiceOrdered, Ordered
  <1>3. SwitchInv /\ [Next]_vars => SwitchInv'
    BY NextSwitch, Zenon
  <1> QED
    BY <1>2, <1>3, InitSwitch, PTL DEF Spec
=============================================================================
