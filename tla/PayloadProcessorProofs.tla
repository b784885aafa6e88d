----------------------- MODULE PayloadProcessorProofs -----------------------
(***************************************************************************)
(* The properties of PayloadProcessor that hold on every block tree, for   *)
(* any number of concurrent callers: the import handler, the orphan pool   *)
(* with its child index, and BlockTree.invalid_blocks with the sweeps.     *)
(***************************************************************************)
EXTENDS PayloadProcessor, HeaderChains

-----------------------------------------------------------------------------
(* Type correctness.                                                       *)

\* A rejection leaves well-formed marks behind.
LEMMA RejectType ==
    ASSUME TypeOK, NEW t \in Tasks, NEW m \in Seq(Marks), Reject(t, m)
    PROVE  /\ pc' \in [Tasks -> Labels]
           /\ marks' \in [Tasks -> Seq(Marks)]
           /\ result' \in [Tasks -> Results]
           /\ UNCHANGED loop
  BY Zenon DEF TypeOK, Reject, Labels, Results

\* The same for the rejection of the block in hand.
LEMMA RejectSelfType ==
    ASSUME TypeOK, NEW t \in Tasks, NEW r \in {"Soft", "Hard"},
           NEW k \in {"sweep", "drop", "nothing"}, RejectSelf(t, r, k)
    PROVE  /\ pc' \in [Tasks -> Labels]
           /\ marks' \in [Tasks -> Seq(Marks)]
           /\ result' \in [Tasks -> Results]
           /\ UNCHANGED loop
  <1>1. MarkOf(blk[t], r, k) \in Marks
    BY Zenon DEF TypeOK, MarkOf, Marks
  <1>2. <<MarkOf(blk[t], r, k)>> \in Seq(Marks)
    BY <1>1
  <1> QED
    BY Zenon, <1>2, RejectType DEF RejectSelf

\* The initial state satisfies the type invariant.
LEMMA InitType == Init => TypeOK
  BY BlockAssumption DEF Init, TypeOK, Reasons, Labels, Results

\* Every step of the handlers keeps it.
LEMMA StepType == ASSUME TypeOK, NEW t \in Tasks, Step(t) PROVE TypeOK'
  <1> USE BlockAssumption
  <1> USE DEF TypeOK, At, Par, tree, loop
  <1>1. CASE MarkMismatch(t)
    BY <1>1, Zenon DEF MarkMismatch, MarkInvalid, Leave, Labels, Results, Reasons
  <1>2. CASE RejectCancun(t)
    <2>1. CASE blk[t] \in stored
      BY Zenon, <1>2, <2>1 DEF RejectCancun, Finish, Labels, Results
    <2>2. CASE blk[t] \notin stored
      BY <1>2, <2>2, RejectSelfType, Zenon DEF RejectCancun
    <2> QED
      BY Zenon, <2>1, <2>2
  <1>3. CASE AlreadyStored(t)
    BY <1>3, Zenon DEF AlreadyStored, Leave, Labels, Results
  <1>4. CASE CheckKnown(t)
    BY ZenonT(60), SMTT(60), <1>4 DEF CheckKnown, Finish, Goto, Labels, Results
  <1>5. CASE CheckParentReason(t)
    <2>1. CASE invalid[Par(t)] = "none"
      BY Zenon, <1>5, <2>1 DEF CheckParentReason, Goto, Labels
    <2>2. CASE invalid[Par(t)] # "none"
      <3>1. invalid[Par(t)] \in {"Soft", "Hard"}
        BY <2>2, Zenon DEF Reasons
      <3> QED
        BY Zenon, <1>5, <2>2, <3>1, RejectSelfType DEF CheckParentReason
    <2> QED
      BY Zenon, <2>1, <2>2
  <1>6. CASE CheckBody(t)
    <2>1. CASE Defect[blk[t]] # "body" \/ blk[t] \in stored
      BY ZenonT(60), SMTT(60), <1>6, <2>1 DEF CheckBody, Goto, Finish, Labels, Results
    <2>2. CASE Defect[blk[t]] = "body" /\ blk[t] \notin stored
      BY Zenon, <1>6, <2>2, RejectSelfType DEF CheckBody
    <2> QED
      BY <2>1, <2>2, Zenon
  <1>7. CASE CheckAncestors(t)
    <2>1. CASE InvalidAncestor(Par(t))
      BY Zenon, <1>7, <2>1, RejectSelfType DEF CheckAncestors
    <2>2. CASE ~InvalidAncestor(Par(t))
      BY Zenon, <1>7, <2>2 DEF CheckAncestors, Goto, Labels
    <2> QED
      BY Zenon, <2>1, <2>2
  <1>8. CASE CheckHasParent(t)
    <2>1. pc' \in [Tasks -> Labels] /\ UNCHANGED <<marks, result, loop>>
      BY Zenon, <1>8 DEF CheckHasParent, Goto, Labels
    <2>2. requested' \subseteq Hash
      BY <1>8 DEF CheckHasParent
    <2> QED
      BY <1>8, <2>1, <2>2, Zenon DEF CheckHasParent
  <1>9. CASE CheckHeaders(t)
    <2>1. CASE BadAncestors(Par(t)) = {}
      BY ZenonT(60), SMTT(60), <1>9, <2>1 DEF CheckHeaders, Goto, Labels
    <2>2. CASE BadAncestors(Par(t)) # {}
      <3>1. PICK i \in BadAncestors(Par(t)) :
              LET c == Path[Par(t)][i]
                  andThen == IF invalid[Parent[c]] # "none" THEN "sweep" ELSE "nothing"
              IN  Reject(t, <<MarkOf(c, "Hard", andThen), MarkOf(blk[t], "Hard", "sweep")>>)
        BY Zenon, <1>9, <2>2 DEF CheckHeaders
      <3> DEFINE c == Path[Par(t)][i]
                 andThen == IF invalid[Parent[c]] # "none" THEN "sweep" ELSE "nothing"
      <3>2. c \in Hash
        <4>1. Path[Par(t)] \in Seq(Hash)
          BY PathAssumption, Zenon
        <4>2. i \in 1 .. Len(Path[Par(t)])
          BY <4>1 DEF BadAncestors
        <4> QED
          BY <4>1, <4>2
      <3>3. MarkOf(c, "Hard", andThen) \in Marks /\ MarkOf(blk[t], "Hard", "sweep") \in Marks
        BY <3>2, Zenon DEF MarkOf, Marks
      <3>4. <<MarkOf(c, "Hard", andThen), MarkOf(blk[t], "Hard", "sweep")>> \in Seq(Marks)
        BY SMTT(60), Z3T(60), <3>3
      <3> QED
        BY Zenon, <1>9, <3>1, <3>4, RejectType DEF CheckHeaders
    <2> QED
      BY Zenon, <2>1, <2>2
  <1>10. CASE CheckParentStored(t)
    <2>1. CASE Par(t) \in stored /\ Defect[blk[t]] = "header"
      BY Zenon, <1>10, <2>1, RejectSelfType DEF CheckParentStored
    <2>2. CASE ~(Par(t) \in stored /\ Defect[blk[t]] = "header")
      BY Zenon, <1>10, <2>2 DEF CheckParentStored, Goto, Labels
    <2> QED
      BY Zenon, <2>1, <2>2
  <1>11. CASE CheckParentElsewhere(t)
    <2>1. CASE Par(t) \in processing \/ Par(t) \notin Known
      BY Zenon, <1>11, <2>1 DEF CheckParentElsewhere, Finish, Labels, Results
    <2>2. CASE ~(Par(t) \in processing \/ Par(t) \notin Known) /\ Defect[blk[t]] = "header"
      BY Zenon, <1>11, <2>2, RejectSelfType DEF CheckParentElsewhere
    <2>3. CASE ~(Par(t) \in processing \/ Par(t) \notin Known) /\ Defect[blk[t]] # "header"
      BY Zenon, <1>11, <2>3 DEF CheckParentElsewhere, Goto, Labels
    <2> QED
      BY Zenon, <2>1, <2>2, <2>3
  <1>12. CASE Execute(t)
    <2>1. CASE Defect[blk[t]] = "execution"
      BY Zenon, <1>12, <2>1, RejectSelfType DEF Execute
    <2>2. CASE Defect[blk[t]] # "execution"
      BY Zenon, <1>12, <2>2 DEF Execute, Goto, Labels
    <2> QED
      BY Zenon, <2>1, <2>2
  <1>13. CASE Persist(t)
    BY <1>13 DEF Persist, Goto, Labels
  <1>14. CASE PersistFails(t)
    BY <1>14, Zenon DEF PersistFails, Finish, Labels, Results
  <1>15. CASE ClearInvalid(t)
    BY <1>15, Zenon DEF ClearInvalid, Finish, Labels, Results, Reasons
  <1>16. CASE BufferBlock(t)
    BY SMTT(60), Z3T(60), <1>16 DEF BufferBlock, Goto, Labels
  <1>17. CASE IndexChild(t)
    <2>1. Append(children[Par(t)], blk[t]) \in Seq(Hash)
      OBVIOUS
    <2>2. children' \in [Hash -> Seq(Hash)]
      BY <1>17, <2>1, Zenon DEF IndexChild
    <2> QED
      BY <1>17, <2>2, Zenon DEF IndexChild, Finish, Labels, Results
  <1>18. CASE ApplyMark(t)
    <2>1. Head(marks[t]) \in Marks /\ Tail(marks[t]) \in Seq(Marks)
      BY <1>18 DEF ApplyMark
    <2>2. Head(marks[t]).hash \in Hash /\ Head(marks[t]).reason \in Reasons
      BY <2>1, Zenon DEF Marks, Reasons
    <2>3. <<Head(marks[t]).hash>> \in Seq(Hash) /\ <<>> \in Seq(Hash)
      BY <2>2
    <2>4. [todo |-> <<Head(marks[t]).hash>>, done |-> <<>>] \in [todo : Seq(Hash), done : Seq(Hash)]
      BY <2>3, Zenon
    <2>5. sweeps' \subseteq [todo : Seq(Hash), done : Seq(Hash)]
      BY Zenon, <1>18, <2>4 DEF ApplyMark
    <2>6. invalid' \in [Hash -> Reasons] /\ orphans' \subseteq Hash
      BY <1>18, <2>2, Zenon DEF ApplyMark, MarkInvalid
    <2>7. marks' \in [Tasks -> Seq(Marks)]
      BY <1>18, <2>1, Zenon DEF ApplyMark
    <2>8. pc' \in [Tasks -> Labels]
      BY <1>18, Zenon DEF ApplyMark, Labels
    <2> QED
      BY <1>18, <2>5, <2>6, <2>7, <2>8, Zenon DEF ApplyMark
  <1>19. CASE Return(t)
    BY <1>19 DEF Return, Leave, Labels, Results
  <1>20. CASE TakeChildren(t)
    <2>1. parents[t] \in Seq(Hash) /\ parents[t] # <<>>
      BY <1>20, Zenon DEF TakeChildren
    <2>2. Len(parents[t]) \in 1 .. Len(parents[t])
      BY <2>1
    <2>3. parents[t][Len(parents[t])] \in Hash
      BY <2>1, <2>2
    <2>4. SubSeq(parents[t], 1, Len(parents[t]) - 1) \in Seq(Hash)
      BY <2>1, <2>2
    <2>5. kids' \in [Tasks -> Seq(Hash)] /\ children' \in [Hash -> Seq(Hash)]
      BY Zenon, <1>20, <2>3 DEF TakeChildren
    <2>6. parents' \in [Tasks -> Seq(Hash)]
      BY <1>20, <2>4, Zenon DEF TakeChildren
    <2> QED
      BY Zenon, <1>20, <2>5, <2>6 DEF TakeChildren
  <1>21. CASE TakeChild(t)
    <2>1. Head(kids[t]) \in Hash /\ Tail(kids[t]) \in Seq(Hash)
      BY <1>21 DEF TakeChild
    <2>2. kids' \in [Tasks -> Seq(Hash)]
      BY <1>21, <2>1, Zenon DEF TakeChild
    <2>3. CASE Head(kids[t]) \in orphans \ processing
      <3>1. /\ TakeUp(t, "body", Head(kids[t]), TRUE)
            /\ processing' \subseteq Hash
            /\ orphans' \subseteq Hash
        BY Zenon, <1>21, <2>1, <2>3 DEF TakeChild
      <3>2. pc' \in [Tasks -> Labels] /\ blk' \in [Tasks -> Hash]
        BY <2>1, <3>1, Zenon DEF TakeUp, Labels
      <3> QED
        BY <1>21, <2>2, <3>1, <3>2, Zenon DEF TakeChild, TakeUp
    <2>4. CASE Head(kids[t]) \notin orphans \ processing
      BY <1>21, <2>1, <2>2, <2>4, Zenon DEF TakeChild
    <2> QED
      BY Zenon, <2>3, <2>4
  <1>22. CASE RevalDone(t)
    BY <1>22, Zenon DEF RevalDone, Leave, Labels, Results
  <1> QED
    BY Zenon, <1>1, <1>2, <1>3, <1>4, <1>5, <1>6, <1>7, <1>8, <1>9, <1>10, <1>11, <1>12,
       <1>13, <1>14, <1>15, <1>16, <1>17, <1>18, <1>19, <1>20, <1>21, <1>22 DEF Step

\* So do arriving calls, the spawned sweeps and the payload builder.
LEMMA NextType == ASSUME TypeOK, [Next]_vars PROVE TypeOK'
  <1> USE BlockAssumption
  <1> USE DEF TypeOK, At, tree, loop
  <1>1. CASE \E t \in Tasks, b \in Hash : HashMismatch(t, b)
    <2>1. PICK t \in Tasks, b \in Hash : HashMismatch(t, b)
      BY <1>1, Zenon
    <2> QED
      BY Zenon, <2>1 DEF HashMismatch, TakeUp, Labels
  <1>2. CASE \E t \in Tasks, b \in Hash : \E arg \in {"match", "badBlobs"} : Enter(t, b, arg)
    <2>1. PICK t \in Tasks, b \in Hash, arg \in {"match", "badBlobs"} : Enter(t, b, arg)
      BY <1>2, Zenon
    <2>2. processing' \subseteq Hash
      BY <2>1, Zenon DEF Enter
    <2>3. pc' \in [Tasks -> Labels]
      BY <2>1, Zenon DEF Enter, TakeUp, Labels
    <2> QED
      BY Zenon, <2>1, <2>2, <2>3 DEF Enter, TakeUp
  <1>3. CASE \E t \in Tasks : Step(t)
    BY Zenon, <1>3, StepType
  <1>4. CASE Sweep
    <2>1. PICK s \in sweeps : SweepChildren(s) \/ SweepRemove(s)
      BY <1>4, Zenon DEF Sweep
    <2>2. s.todo \in Seq(Hash) /\ s.done \in Seq(Hash)
      BY <2>1, Zenon
    <2>3. CASE SweepChildren(s)
      <3> DEFINE p == s.todo[Len(s.todo)]
                 found == children[p]
                 rest == SubSeq(s.todo, 1, Len(s.todo) - 1)
                 next == [todo |-> rest \o found, done |-> s.done \o found]
      <3>1. s.todo # <<>>
        BY <2>3, Zenon DEF SweepChildren
      <3>2. Len(s.todo) \in 1 .. Len(s.todo)
        BY <2>2, <3>1
      <3>3. p \in Hash /\ rest \in Seq(Hash)
        BY <2>2, <3>2
      <3>4. found \in Seq(Hash)
        BY <3>3, Zenon
      <3> HIDE DEF found, rest
      <3>5. rest \o found \in Seq(Hash) /\ s.done \o found \in Seq(Hash)
        BY <2>2, <3>3, <3>4
      <3>6. next \in [todo : Seq(Hash), done : Seq(Hash)]
        BY <3>5, Zenon
      <3>7. sweeps' = (sweeps \ {s}) \cup {next}
        BY <2>3, Zenon DEF SweepChildren, found, rest
      <3>8. sweeps' \subseteq [todo : Seq(Hash), done : Seq(Hash)]
        BY Zenon, <3>6, <3>7
      <3>9. children' \in [Hash -> Seq(Hash)]
        BY <2>3, <3>3 DEF SweepChildren
      <3>10. invalid' \in [Hash -> Reasons]
        BY <2>3, Zenon DEF SweepChildren, Reasons
      <3> QED
        BY ZenonT(60), SMTT(60), <2>3, <3>8, <3>9, <3>10 DEF SweepChildren, task
    <2>4. CASE SweepRemove(s)
      BY <2>4, Zenon DEF SweepRemove, task
    <2> QED
      BY <2>1, <2>3, <2>4, Zenon
  <1>5. CASE \E b \in Hash : BuildPayload(b)
    BY SMTT(60), Z3T(60), <1>5 DEF BuildPayload, task
  <1>6. CASE UNCHANGED vars
    BY <1>6, Zenon DEF vars, task
  <1> QED
    BY Zenon, <1>1, <1>2, <1>3, <1>4, <1>5, <1>6 DEF Next

\* Type correctness of every reachable state, for any block tree and any number
\* of concurrent new_payload_internal calls.
THEOREM TypeCorrect == Spec => []TypeOK
  BY InitType, NextType, PTL DEF Spec

-----------------------------------------------------------------------------
(* processing_payloads.  Four kinds of step are all it ever sees.          *)

\* Membership in processing_payloads, read both ways.
LEMMA ExactUnfolded ==
    ProcessingExact <=>
        /\ \A t \in Tasks : Holds(t) => blk[t] \in processing
        /\ \A h \in processing : \E t \in Tasks : Holds(t) /\ blk[t] = h
        /\ \A t, u \in Tasks : Holds(t) /\ Holds(u) /\ blk[t] = blk[u] => t = u
  BY DEF ProcessingExact

\* A task that keeps its block.
LEMMA ExactKept ==
    ASSUME TypeOK, ProcessingExact, NEW t \in Tasks, Holds(t),
           NEW l \in Labels \ Unheld, pc' = [pc EXCEPT ![t] = l],
           UNCHANGED <<blk, processing>>
    PROVE  ProcessingExact'
  <1>1. \A u \in Tasks : Holds(u)' <=> Holds(u)
    BY Zenon DEF Holds, TypeOK
  <1> QED
    BY <1>1, Zenon DEF ProcessingExact

\* A task that gives its block back.
LEMMA ExactReleased ==
    ASSUME TypeOK, ProcessingExact, NEW t \in Tasks, Holds(t),
           NEW l \in Unheld, pc' = [pc EXCEPT ![t] = l],
           blk' = [blk EXCEPT ![t] = Genesis], processing' = processing \ {blk[t]}
    PROVE  ProcessingExact'
  <1>1. \A u \in Tasks : Holds(u)' <=> Holds(u) /\ u # t
    BY Zenon DEF Holds, TypeOK
  <1>2. \A u \in Tasks : u # t => blk'[u] = blk[u]
    BY Zenon DEF TypeOK
  <1>3. \A u \in Tasks : Holds(u)' => blk'[u] \in processing'
    BY <1>1, <1>2, ExactUnfolded
  <1>4. \A h \in processing' : \E u \in Tasks : Holds(u)' /\ blk'[u] = h
    BY <1>1, <1>2, ExactUnfolded, Zenon
  <1>5. \A u, v \in Tasks : Holds(u)' /\ Holds(v)' /\ blk'[u] = blk'[v] => u = v
    BY <1>1, <1>2, ExactUnfolded
  <1> QED
    BY <1>3, <1>4, <1>5 DEF ProcessingExact

\* A task that takes up a block nobody holds.
LEMMA ExactAcquired ==
    ASSUME TypeOK, ProcessingExact, NEW t \in Tasks, ~Holds(t),
           NEW b \in Hash, b \notin processing,
           NEW l \in Labels \ Unheld, pc' = [pc EXCEPT ![t] = l],
           blk' = [blk EXCEPT ![t] = b], processing' = processing \cup {b}
    PROVE  ProcessingExact'
  <1>1. \A u \in Tasks : Holds(u)' <=> Holds(u) \/ u = t
    BY Zenon DEF Holds, TypeOK
  <1>2. /\ \A u \in Tasks : u # t => blk'[u] = blk[u]
        /\ blk'[t] = b
    BY Zenon DEF TypeOK
  <1>3. \A u \in Tasks : Holds(u)' => blk'[u] \in processing'
    BY <1>1, <1>2, ExactUnfolded
  <1>4. \A h \in processing' : \E u \in Tasks : Holds(u)' /\ blk'[u] = h
    BY <1>1, <1>2, ExactUnfolded
  <1>5. \A u, v \in Tasks : Holds(u)' /\ Holds(v)' /\ blk'[u] = blk'[v] => u = v
    BY <1>1, <1>2, ExactUnfolded
  <1> QED
    BY <1>3, <1>4, <1>5 DEF ProcessingExact

\* A task that had no block in processing_payloads and gets none.
LEMMA ExactElsewhere ==
    ASSUME TypeOK, ProcessingExact, NEW t \in Tasks, ~Holds(t),
           NEW l \in Unheld, pc' = [pc EXCEPT ![t] = l],
           NEW b \in Hash, blk' = [blk EXCEPT ![t] = b], UNCHANGED processing
    PROVE  ProcessingExact'
  <1>1. \A u \in Tasks : Holds(u)' <=> Holds(u)
    BY Zenon DEF Holds, TypeOK
  <1>2. \A u \in Tasks : Holds(u) => blk'[u] = blk[u]
    BY Zenon DEF TypeOK
  <1>3. \A u \in Tasks : Holds(u)' => blk'[u] \in processing'
    BY <1>1, <1>2, ExactUnfolded
  <1>4. \A h \in processing' : \E u \in Tasks : Holds(u)' /\ blk'[u] = h
    BY <1>1, <1>2, ExactUnfolded, Zenon
  <1>5. \A u, v \in Tasks : Holds(u)' /\ Holds(v)' /\ blk'[u] = blk'[v] => u = v
    BY <1>1, <1>2, ExactUnfolded, Zenon
  <1> QED
    BY <1>3, <1>4, <1>5 DEF ProcessingExact

\* The steps between the guard and the release.
KeepingStep(t) ==
    \/ RejectCancun(t) \/ CheckKnown(t) \/ CheckParentReason(t) \/ CheckBody(t)
    \/ CheckAncestors(t) \/ CheckHasParent(t) \/ CheckHeaders(t) \/ CheckParentStored(t)
    \/ CheckParentElsewhere(t) \/ Execute(t) \/ Persist(t) \/ PersistFails(t)
    \/ ClearInvalid(t) \/ BufferBlock(t) \/ IndexChild(t) \/ ApplyMark(t)

\* They keep the block in hand and leave processing_payloads alone.
LEMMA KeepingStepKeeps ==
    ASSUME NEW t \in Tasks, KeepingStep(t)
    PROVE  /\ Holds(t)
           /\ UNCHANGED <<blk, processing>>
           /\ \E l \in Labels \ (Unheld \cup {"badBlobs"}) : pc' = [pc EXCEPT ![t] = l]
  <1> USE DEF At, Holds, Unheld, Labels, Goto, Finish, Reject, RejectSelf, tree, loop
  <1>1. CASE RejectCancun(t)
    BY <1>1, Zenon DEF RejectCancun
  <1>2. CASE CheckKnown(t)
    BY <1>2, Zenon DEF CheckKnown
  <1>3. CASE CheckParentReason(t)
    BY <1>3, Zenon DEF CheckParentReason
  <1>4. CASE CheckBody(t)
    BY <1>4, Zenon DEF CheckBody
  <1>5. CASE CheckAncestors(t)
    BY <1>5, Zenon DEF CheckAncestors
  <1>6. CASE CheckHasParent(t)
    BY <1>6, Zenon DEF CheckHasParent
  <1>7. CASE CheckHeaders(t)
    <2>1. At(t, "headers") /\ UNCHANGED processing
      BY <1>7, Zenon DEF CheckHeaders
    <2>2. Goto(t, "stored") \/ \E m : Reject(t, m)
      BY <1>7, Zenon DEF CheckHeaders
    <2> QED
      BY <2>1, <2>2, Zenon
  <1>8. CASE CheckParentStored(t)
    BY <1>8, Zenon DEF CheckParentStored
  <1>9. CASE CheckParentElsewhere(t)
    BY <1>9, Zenon DEF CheckParentElsewhere
  <1>10. CASE Execute(t)
    BY <1>10, Zenon DEF Execute
  <1>11. CASE Persist(t)
    BY Zenon, <1>11 DEF Persist
  <1>12. CASE PersistFails(t)
    BY Zenon, <1>12 DEF PersistFails
  <1>13. CASE ClearInvalid(t)
    BY Zenon, <1>13 DEF ClearInvalid
  <1>14. CASE BufferBlock(t)
    BY Zenon, <1>14 DEF BufferBlock
  <1>15. CASE IndexChild(t)
    BY Zenon, <1>15 DEF IndexChild
  <1>16. CASE ApplyMark(t)
    <2>1. pc' = [pc EXCEPT ![t] = IF Len(marks[t]) = 1 THEN "return" ELSE pc[t]]
      BY <1>16, Zenon DEF ApplyMark
    <2>2. (IF Len(marks[t]) = 1 THEN "return" ELSE pc[t]) \in Labels \ (Unheld \cup {"badBlobs"})
      BY <1>16, Zenon DEF ApplyMark
    <2> QED
      BY Zenon, <1>16, <2>1, <2>2 DEF ApplyMark
  <1> QED
    BY Zenon, <1>1, <1>2, <1>3, <1>4, <1>5, <1>6, <1>7, <1>8, <1>9, <1>10, <1>11, <1>12,
       <1>13, <1>14, <1>15, <1>16 DEF KeepingStep

\* Every step keeps processing_payloads exact.
LEMMA NextExact == ASSUME TypeOK, ProcessingExact, [Next]_vars PROVE ProcessingExact'
  <1> USE BlockAssumption
  <1>1. ASSUME NEW t \in Tasks, NEW b \in Hash, HashMismatch(t, b)
        PROVE  ProcessingExact'
    BY Zenon, <1>1, ExactElsewhere DEF HashMismatch, TakeUp, At, Holds, Unheld
  <1>2. ASSUME NEW t \in Tasks, NEW b \in Hash, NEW arg \in {"match", "badBlobs"}, Enter(t, b, arg)
        PROVE  ProcessingExact'
    BY Zenon, <1>2, ExactAcquired DEF Enter, Busy, TakeUp, At, Holds, Unheld, Labels
  <1>3. ASSUME NEW t \in Tasks, Step(t)
        PROVE  ProcessingExact'
    <2>1. CASE KeepingStep(t)
      BY <2>1, KeepingStepKeeps, ExactKept, Zenon
    <2>2. CASE MarkMismatch(t)
      BY Zenon, <2>2, ExactElsewhere DEF MarkMismatch, Leave, At, Holds, Unheld
    <2>3. CASE AlreadyStored(t)
      BY Zenon, <2>3, ExactReleased DEF AlreadyStored, Leave, At, Holds, Unheld
    <2>4. CASE Return(t)
      BY Zenon, <2>4, ExactReleased DEF Return, Leave, At, Holds, Unheld
    <2>5. CASE TakeChildren(t)
      BY <2>5, Zenon DEF TakeChildren, ProcessingExact, Holds
    <2>6. CASE TakeChild(t)
      <3>1. CASE Head(kids[t]) \in orphans \ processing
        <4>1. Head(kids[t]) \in Hash
          BY <3>1, Zenon DEF TypeOK
        <4>2. At(t, "reval") /\ TakeUp(t, "body", Head(kids[t]), TRUE)
              /\ processing' = processing \cup {Head(kids[t])}
          BY Zenon, <2>6, <3>1 DEF TakeChild
        <4> QED
          BY Zenon, <3>1, <4>1, <4>2, ExactAcquired DEF TakeUp, At, Holds, Unheld, Labels
      <3>2. CASE Head(kids[t]) \notin orphans \ processing
        BY <2>6, <3>2, Zenon DEF TakeChild, ProcessingExact, Holds
      <3> QED
        BY <3>1, <3>2, Zenon
    <2>7. CASE RevalDone(t)
      BY Zenon, <2>7, ExactElsewhere DEF RevalDone, Leave, At, Holds, Unheld
    <2> QED
      BY <1>3, <2>1, <2>2, <2>3, <2>4, <2>5, <2>6, <2>7, Zenon DEF Step, KeepingStep
  <1>4. CASE Sweep
    BY ZenonT(60), SMTT(60), <1>4 DEF Sweep, SweepChildren, SweepRemove, task, loop, ProcessingExact, Holds
  <1>5. CASE \E b \in Hash : BuildPayload(b)
    BY SMTT(60), Z3T(60), <1>5 DEF BuildPayload, task, loop, ProcessingExact, Holds
  <1>6. CASE UNCHANGED vars
    BY <1>6, Zenon DEF vars, task, loop, ProcessingExact, Holds
  <1> QED
    BY <1>1, <1>2, <1>3, <1>4, <1>5, <1>6, Zenon DEF Next

\* processing_payloads never leaks an entry and never admits two tasks to one
\* block, whatever the number of callers.
THEOREM ImportExclusive == Spec => []ProcessingExact
  <1>1. Init => ProcessingExact
    BY DEF Init, ProcessingExact, Holds, Unheld
  <1> QED
    BY <1>1, InitType, NextType, NextExact, PTL DEF Spec

-----------------------------------------------------------------------------
(* What reaches the main tables.                                           *)

\* What a task that is at label l has established about its block h.
StageOf(l, h) ==
    /\ l \in {"ancestors", "hasParent", "headers", "stored", "execute", "persist"}
          => Defect[h] # "body"
    /\ l \in {"execute", "persist"} => Defect[h] # "header" /\ Parent[h] \in stored
    /\ l = "persist" => Defect[h] # "execution"

Staged == \A t \in Tasks : StageOf(pc[t], blk[t])

\* A label at which nothing has been established yet, or no longer matters.
Unstaged == Labels \ {"ancestors", "hasParent", "headers", "stored", "execute", "persist"}

\* Blocks are never removed from the main tables, and only Persist adds one.
LEMMA NextStored ==
    ASSUME [Next]_vars
    PROVE  stored' = stored \/ \E t \in Tasks : Persist(t)
  <1> USE DEF HashMismatch, Enter, BuildPayload, Sweep, SweepChildren, SweepRemove, Step,
          MarkMismatch, RejectCancun, AlreadyStored, CheckKnown, CheckParentReason,
          CheckBody, CheckAncestors, CheckHasParent, CheckHeaders, CheckParentStored,
          CheckParentElsewhere, Execute, PersistFails, ClearInvalid, BufferBlock,
          IndexChild, ApplyMark, Return, TakeChildren, TakeChild, RevalDone
  <1>1. ASSUME NEW t \in Tasks, Step(t) PROVE stored' = stored \/ Persist(t)
    BY <1>1, Zenon
  <1>2. CASE UNCHANGED vars
    BY <1>2, Zenon DEF vars
  <1> QED
    BY <1>1, <1>2, Zenon DEF Next

\* A step of one task keeps the stages, if its own new stage is justified.
LEMMA StagedByTask ==
    ASSUME TypeOK, Staged, NEW t \in Tasks, NEW l, NEW h, stored \subseteq stored',
           pc' = [pc EXCEPT ![t] = l], blk' = [blk EXCEPT ![t] = h], StageOf(l, h)'
    PROVE  Staged'
  <1> SUFFICES ASSUME NEW u \in Tasks PROVE StageOf(pc[u], blk[u])'
    BY Zenon DEF Staged
  <1>1. CASE u = t
    BY <1>1, Zenon DEF TypeOK, StageOf
  <1>2. CASE u # t
    <2>1. pc'[u] = pc[u] /\ blk'[u] = blk[u] /\ StageOf(pc[u], blk[u])
      BY <1>2, Zenon DEF TypeOK, Staged
    <2> QED
      BY <2>1, Zenon DEF StageOf
  <1> QED
    BY <1>1, <1>2, Zenon

\* The steps of a call build the stages up one check at a time.
LEMMA StepStaged == ASSUME TypeOK, Staged, NEW t \in Tasks, Step(t) PROVE Staged'
  <1> USE DEF At, Par, Goto, Finish, Reject, RejectSelf, Leave, TakeUp, tree, loop
  <1>0. \A l, h : l \in Unstaged => StageOf(l, h)'
    BY Zenon DEF StageOf, Unstaged
  <1>1. ASSUME NEW l \in Unstaged, pc' = [pc EXCEPT ![t] = l], UNCHANGED <<stored, blk>>
        PROVE  Staged'
    <2>1. blk' = [blk EXCEPT ![t] = blk[t]]
      BY <1>1, Zenon DEF TypeOK
    <2> QED
      BY Zenon, <1>0, <1>1, <2>1, StagedByTask
  <1>2. ASSUME NEW l, pc' = [pc EXCEPT ![t] = l], UNCHANGED <<stored, blk>>, StageOf(l, blk[t])
        PROVE  Staged'
    <2>1. blk' = [blk EXCEPT ![t] = blk[t]]
      BY <1>2, Zenon DEF TypeOK
    <2>2. StageOf(l, blk[t])'
      BY <1>2, Zenon DEF StageOf
    <2> QED
      BY Zenon, <1>2, <2>1, StagedByTask DEF StageOf
  <1>3. StageOf(pc[t], blk[t])
    BY Zenon DEF Staged
  <1>4. CASE MarkMismatch(t) \/ AlreadyStored(t) \/ Return(t) \/ RevalDone(t)
    <2>1. \E l \in Unstaged : pc' = [pc EXCEPT ![t] = l]
      BY <1>4, Zenon DEF MarkMismatch, AlreadyStored, Return, RevalDone, Unstaged, Labels
    <2>2. blk' = [blk EXCEPT ![t] = Genesis] /\ UNCHANGED stored
      BY <1>4, Zenon DEF MarkMismatch, AlreadyStored, Return, RevalDone
    <2> QED
      BY ZenonT(60), SMTT(60), <1>0, <2>1, <2>2, StagedByTask
  <1>5. CASE RejectCancun(t) \/ CheckKnown(t) \/ CheckParentReason(t)
    BY ZenonT(60), SMTT(60), <1>1, <1>5 DEF RejectCancun, CheckKnown, CheckParentReason, Unstaged, Labels
  <1>6. CASE CheckBody(t)
    BY ZenonT(60), SMTT(60), <1>1, <1>2, <1>6 DEF CheckBody, StageOf, Unstaged, Labels
  <1>7. CASE CheckAncestors(t)
    BY <1>1, <1>2, <1>3, <1>7, Zenon DEF CheckAncestors, StageOf, Unstaged, Labels
  <1>8. CASE CheckHasParent(t)
    BY <1>1, <1>2, <1>3, <1>8, Zenon DEF CheckHasParent, StageOf, Unstaged, Labels
  <1>9. CASE CheckHeaders(t)
    <2>1. Goto(t, "stored") \/ \E m : Reject(t, m)
      BY <1>9, Zenon DEF CheckHeaders
    <2>2. At(t, "headers") /\ UNCHANGED stored
      BY Zenon, <1>9 DEF CheckHeaders
    <2> QED
      BY <1>1, <1>2, <1>3, <2>1, <2>2, Zenon DEF StageOf, Unstaged, Labels
  <1>10. CASE CheckParentStored(t)
    BY <1>1, <1>2, <1>3, <1>10, Zenon DEF CheckParentStored, StageOf, Unstaged, Labels
  <1>11. CASE CheckParentElsewhere(t)
    BY <1>1, <1>11, Zenon DEF CheckParentElsewhere, Unstaged, Labels
  <1>12. CASE Execute(t)
    BY <1>1, <1>2, <1>3, <1>12, Zenon DEF Execute, StageOf, Unstaged, Labels
  <1>13. CASE Persist(t)
    <2>1. blk' = [blk EXCEPT ![t] = blk[t]]
      BY <1>13, Zenon DEF Persist, TypeOK
    <2>2. pc' = [pc EXCEPT ![t] = "clear"] /\ stored \subseteq stored'
      BY <1>13, Zenon DEF Persist
    <2> QED
      <3>1. StageOf("clear", blk[t])'
        BY Zenon DEF StageOf
      <3> QED
        BY Zenon, <2>1, <2>2, <3>1, StagedByTask
  <1>14. CASE PersistFails(t) \/ ClearInvalid(t) \/ BufferBlock(t) \/ IndexChild(t)
    BY <1>1, <1>14, Zenon DEF PersistFails, ClearInvalid, BufferBlock, IndexChild, Unstaged, Labels
  <1>15. CASE ApplyMark(t)
    <2>1. pc' = [pc EXCEPT ![t] = IF Len(marks[t]) = 1 THEN "return" ELSE pc[t]]
      BY <1>15, Zenon DEF ApplyMark
    <2>2. (IF Len(marks[t]) = 1 THEN "return" ELSE pc[t]) \in Unstaged
      BY <1>15, Zenon DEF ApplyMark, Unstaged, Labels
    <2> QED
      BY Zenon, <1>1, <1>15, <2>1, <2>2 DEF ApplyMark
  <1>16. CASE TakeChildren(t)
    BY <1>16, Zenon DEF TakeChildren, Staged, StageOf
  <1>17. CASE TakeChild(t)
    <2>1. CASE Head(kids[t]) \in orphans \ processing
      <3>1. /\ pc' = [pc EXCEPT ![t] = "body"]
            /\ blk' = [blk EXCEPT ![t] = Head(kids[t])]
            /\ UNCHANGED stored
        BY <1>17, <2>1, Zenon DEF TakeChild
      <3> QED
        BY Zenon, <3>1, StagedByTask DEF StageOf
    <2>2. CASE Head(kids[t]) \notin orphans \ processing
      BY <1>17, <2>2, Zenon DEF TakeChild, Staged, StageOf
    <2> QED
      BY <2>1, <2>2, Zenon
  <1> QED
    BY Zenon, <1>4, <1>5, <1>6, <1>7, <1>8, <1>9, <1>10, <1>11, <1>12, <1>13, <1>14, <1>15,
       <1>16, <1>17 DEF Step

\* Every step keeps the stages.
LEMMA NextStaged == ASSUME TypeOK, Staged, [Next]_vars PROVE Staged'
  <1>1. ASSUME NEW t \in Tasks, NEW b \in Hash, HashMismatch(t, b)
        PROVE  Staged'
    BY Zenon, <1>1, StagedByTask DEF HashMismatch, TakeUp, StageOf
  <1>2. ASSUME NEW t \in Tasks, NEW b \in Hash, NEW arg, Enter(t, b, arg)
        PROVE  Staged'
    <2>1. PICK l \in {"badBlobs", "known"} : pc' = [pc EXCEPT ![t] = l]
      BY Zenon, <1>2 DEF Enter, TakeUp
    <2>2. blk' = [blk EXCEPT ![t] = b] /\ UNCHANGED stored
      BY <1>2, Zenon DEF Enter, TakeUp
    <2>3. StageOf(l, b)'
      BY <2>1, Zenon DEF StageOf
    <2> QED
      BY Zenon, <2>1, <2>2, <2>3, StagedByTask
  <1>3. ASSUME NEW t \in Tasks, Step(t)
        PROVE  Staged'
    BY <1>3, StepStaged, Zenon
  <1>4. CASE Sweep
    BY ZenonT(60), SMTT(60), <1>4 DEF Sweep, SweepChildren, SweepRemove, task, loop, Staged, StageOf
  <1>5. CASE \E b \in Hash : BuildPayload(b)
    BY <1>5, Zenon DEF BuildPayload, task, loop, Staged, StageOf
  <1>6. CASE UNCHANGED vars
    BY Zenon, <1>6 DEF vars, task, loop, Staged, StageOf
  <1> QED
    BY <1>1, <1>2, <1>3, <1>4, <1>5, <1>6, Zenon DEF Next

\* What is persisted passed every check, on top of a persisted parent.
LEMMA NextSound ==
    ASSUME TypeOK, Staged, StoredSound, [Next]_vars
    PROVE  StoredSound'
  <1>1. CASE stored' = stored
    BY <1>1, Zenon DEF StoredSound
  <1>2. ASSUME NEW t \in Tasks, Persist(t) PROVE StoredSound'
    <2>1. StageOf("persist", blk[t]) /\ stored' = stored \cup {blk[t]} /\ blk[t] \in Hash
      BY <1>2, Zenon DEF Persist, At, Staged, TypeOK
    <2>2. Defect[blk[t]] = "none" /\ Parent[blk[t]] \in stored
      BY <2>1, BlockAssumption, Zenon DEF StageOf, Defects
    <2> QED
      BY <2>1, <2>2, Zenon DEF StoredSound
  <1> QED
    BY <1>1, <1>2, NextStored, Zenon

\* No interleaving of imports, revalidations and invalidations brings a block
\* into the main tables that fails one of its checks or whose parent is missing.
THEOREM ImportSound == Spec => []StoredSound
  <1>1. Init => Staged /\ StoredSound
    BY BlockAssumption DEF Init, Staged, StageOf, StoredSound
  <1> QED
    BY <1>1, InitType, NextType, NextStaged, NextSound, PTL DEF Spec

-----------------------------------------------------------------------------
(* Refinement of BlockTree.                                                *)

\* Every step is a step of the abstract import or leaves the tables alone.
LEMMA NextStores ==
    ASSUME TypeOK, Staged, [Next]_vars
    PROVE  [Tree!Store]_stored
  <1>1. ASSUME NEW t \in Tasks, Persist(t) PROVE Tree!Store
    <2>1. StageOf("persist", blk[t]) /\ stored' = stored \cup {blk[t]} /\ blk[t] \in Hash
      BY <1>1, Zenon DEF Persist, At, Staged, TypeOK
    <2>2. Defect[blk[t]] = "none" /\ Parent[blk[t]] \in stored
      BY <2>1, BlockAssumption, Zenon DEF StageOf, Defects
    <2> QED
      BY <2>1, <2>2, Zenon DEF Tree!Store, Faulty
  <1> QED
    BY <1>1, NextStored, Zenon

\* The import handler implements the abstract import, on every block tree and
\* for any number of concurrent callers.
THEOREM ImportImplementsBlockTree == Spec => ImplementsBlockTree
  <1>1. Init => Staged /\ Tree!Init
    BY BlockAssumption, Zenon DEF Init, Staged, StageOf, Tree!Init
  <1> QED
    BY <1>1, InitType, NextType, NextStaged, NextStores, PTL DEF Spec, ImplementsBlockTree, Tree!Spec

-----------------------------------------------------------------------------
(* The orphan pool and the child index of BlockTree, written under two locks, *)
(* never lose a block between them.                                           *)

\* What OrphanIndexed says of one block.
Findable(h) ==
    \/ \E i \in DOMAIN children[Parent[h]] : children[Parent[h]][i] = h
    \/ \E t \in Tasks : \/ At(t, "index") /\ blk[t] = h
                        \/ \E i \in DOMAIN kids[t] : kids[t][i] = h

\* OrphanIndexed, block by block.
LEMMA IndexedByBlock == OrphanIndexed <=> \A h \in orphans : Findable(h)
  BY Zenon DEF OrphanIndexed, Findable

\* A step of a task that is not about to index keeps every block findable, if
\* it leaves the index and the list of children in hand alone.
LEMMA FindableByTask ==
    ASSUME TypeOK, OrphanIndexed, NEW t \in Tasks, pc[t] # "index", NEW l, NEW b,
           pc' = [pc EXCEPT ![t] = l], blk' = [blk EXCEPT ![t] = b],
           UNCHANGED <<children, kids>>, orphans' \subseteq orphans
    PROVE  OrphanIndexed'
  <1> SUFFICES ASSUME NEW h \in orphans' PROVE Findable(h)'
    BY IndexedByBlock, Zenon DEF OrphanIndexed, Findable
  <1>1. Findable(h)
    BY IndexedByBlock, Zenon
  <1>2. CASE \E i \in DOMAIN children[Parent[h]] : children[Parent[h]][i] = h
    BY Zenon, <1>2 DEF Findable
  <1>3. CASE \E u \in Tasks : At(u, "index") /\ blk[u] = h
    <2>1. PICK u \in Tasks : At(u, "index") /\ blk[u] = h
      BY <1>3, Zenon
    <2>2. u # t
      BY <2>1, Zenon DEF At
    <2>3. pc'[u] = "index" /\ blk'[u] = h
      BY <2>1, <2>2, Zenon DEF At, TypeOK
    <2> QED
      BY Zenon, <2>3 DEF Findable, At
  <1>4. CASE \E u \in Tasks : \E i \in DOMAIN kids[u] : kids[u][i] = h
    BY Zenon, <1>4 DEF Findable
  <1> QED
    BY Zenon, <1>1, <1>2, <1>3, <1>4 DEF Findable

\* The steps that neither buffer nor index nor take children.
PlainStep(t) ==
    \/ RejectCancun(t) \/ CheckKnown(t) \/ CheckParentReason(t) \/ CheckBody(t)
    \/ CheckAncestors(t) \/ CheckHasParent(t) \/ CheckHeaders(t) \/ CheckParentStored(t)
    \/ CheckParentElsewhere(t) \/ Execute(t) \/ Persist(t) \/ PersistFails(t)
    \/ ClearInvalid(t) \/ ApplyMark(t)

\* They leave the index alone, and at most take a block out of the pool.
LEMMA PlainStepKeeps ==
    ASSUME NEW t \in Tasks, PlainStep(t)
    PROVE  pc[t] # "index" /\ UNCHANGED <<children, kids>> /\ orphans' \subseteq orphans
  <1> USE DEF At, Goto, Finish, Reject, RejectSelf, tree, loop
  <1>1. CASE RejectCancun(t)
    BY <1>1, Zenon DEF RejectCancun
  <1>2. CASE CheckKnown(t)
    BY <1>2, Zenon DEF CheckKnown
  <1>3. CASE CheckParentReason(t)
    BY <1>3, Zenon DEF CheckParentReason
  <1>4. CASE CheckBody(t)
    BY <1>4, Zenon DEF CheckBody
  <1>5. CASE CheckAncestors(t)
    BY <1>5, Zenon DEF CheckAncestors
  <1>6. CASE CheckHasParent(t)
    BY <1>6, Zenon DEF CheckHasParent
  <1>7. CASE CheckHeaders(t)
    <2>1. At(t, "headers") /\ UNCHANGED tree
      BY Zenon, <1>7 DEF CheckHeaders
    <2>2. Goto(t, "stored") \/ \E m : Reject(t, m)
      BY <1>7, Zenon DEF CheckHeaders
    <2> QED
      BY <2>1, <2>2, Zenon
  <1>8. CASE CheckParentStored(t)
    BY <1>8, Zenon DEF CheckParentStored
  <1>9. CASE CheckParentElsewhere(t)
    BY <1>9, Zenon DEF CheckParentElsewhere
  <1>10. CASE Execute(t)
    BY <1>10, Zenon DEF Execute
  <1>11. CASE Persist(t)
    BY <1>11, Zenon DEF Persist
  <1>12. CASE PersistFails(t)
    BY <1>12, Zenon DEF PersistFails
  <1>13. CASE ClearInvalid(t)
    BY <1>13, Zenon DEF ClearInvalid
  <1>14. CASE ApplyMark(t)
    BY <1>14, Zenon DEF ApplyMark, MarkInvalid
  <1> QED
    BY Zenon, <1>1, <1>2, <1>3, <1>4, <1>5, <1>6, <1>7, <1>8, <1>9, <1>10, <1>11, <1>12,
       <1>13, <1>14 DEF PlainStep

\* The block in hand joins the pool with its task about to index it.
LEMMA BufferIndexed ==
    ASSUME TypeOK, OrphanIndexed, NEW t \in Tasks, BufferBlock(t)
    PROVE  OrphanIndexed'
  <1>1. /\ pc[t] = "buffer" /\ orphans' = orphans \cup {blk[t]}
        /\ pc' = [pc EXCEPT ![t] = "index"] /\ UNCHANGED <<children, kids, blk>>
    BY Zenon DEF BufferBlock, Goto, At, loop
  <1> SUFFICES ASSUME NEW h \in orphans' PROVE Findable(h)'
    BY IndexedByBlock, Zenon DEF OrphanIndexed, Findable
  <1>2. CASE h = blk[t]
    <2>1. pc'[t] = "index" /\ blk'[t] = h
      BY <1>1, <1>2, Zenon DEF TypeOK
    <2> QED
      BY Zenon, <2>1 DEF Findable, At
  <1>3. CASE h \in orphans
    <2>1. Findable(h)
      BY <1>3, IndexedByBlock, Zenon
    <2>2. \A u \in Tasks : pc[u] = "index" => pc'[u] = "index"
      BY <1>1, Zenon DEF TypeOK
    <2> QED
      BY Zenon, <1>1, <2>1, <2>2 DEF Findable, At
  <1> QED
    BY <1>1, <1>2, <1>3, Zenon

\* The index takes over from the task.
LEMMA IndexIndexed ==
    ASSUME TypeOK, OrphanIndexed, NEW t \in Tasks, IndexChild(t)
    PROVE  OrphanIndexed'
  <1>1. /\ children' = [children EXCEPT ![Parent[blk[t]]] = Append(@, blk[t])]
        /\ pc' = [pc EXCEPT ![t] = "return"] /\ UNCHANGED <<orphans, kids, blk>>
    BY Zenon DEF IndexChild, Finish, Par, loop
  <1>2. blk[t] \in Hash /\ Parent[blk[t]] \in Hash /\ children[Parent[blk[t]]] \in Seq(Hash)
    BY BlockAssumption, Zenon DEF TypeOK
  <1> SUFFICES ASSUME NEW h \in orphans PROVE Findable(h)'
    BY <1>1, IndexedByBlock, Zenon DEF OrphanIndexed, Findable
  <1>3. h \in Hash /\ Parent[h] \in Hash
    BY BlockAssumption, Zenon DEF TypeOK
  <1>4. Findable(h)
    BY IndexedByBlock, Zenon
  <1>5. CASE h = blk[t]
    <2> DEFINE q == children[Parent[h]]
    <2>1. children'[Parent[h]] = Append(q, h)
      BY <1>1, <1>2, <1>3, <1>5, Zenon DEF TypeOK
    <2>2. q \in Seq(Hash)
      BY <1>2, <1>5, Zenon
    <2> HIDE DEF q
    <2>3. Len(q) + 1 \in DOMAIN Append(q, h) /\ Append(q, h)[Len(q) + 1] = h
      BY <2>2, <1>3
    <2> QED
      BY Zenon, <2>1, <2>3 DEF Findable
  <1>6. CASE \E i \in DOMAIN children[Parent[h]] : children[Parent[h]][i] = h
    <2> DEFINE q == children[Parent[h]]
    <2>1. PICK i \in DOMAIN q : q[i] = h
      BY <1>6, Zenon
    <2>2. q \in Seq(Hash) /\ (children'[Parent[h]] = q \/ children'[Parent[h]] = Append(q, blk[t]))
      BY <1>1, <1>2, <1>3, Zenon DEF TypeOK
    <2> HIDE DEF q
    <2>3. i \in DOMAIN Append(q, blk[t]) /\ Append(q, blk[t])[i] = h
      BY <2>1, <2>2, <1>2
    <2> QED
      BY Zenon, <2>1, <2>2, <2>3 DEF Findable
  <1>7. CASE \E u \in Tasks : At(u, "index") /\ blk[u] = h /\ u # t
    <2>1. PICK u \in Tasks : At(u, "index") /\ blk[u] = h /\ u # t
      BY <1>7, Zenon
    <2>2. pc'[u] = "index" /\ blk'[u] = h
      BY <1>1, <2>1, Zenon DEF At, TypeOK
    <2> QED
      BY Zenon, <2>2 DEF Findable, At
  <1>8. CASE \E u \in Tasks : \E i \in DOMAIN kids[u] : kids[u][i] = h
    BY Zenon, <1>1, <1>8 DEF Findable
  <1> QED
    BY Zenon, <1>4, <1>5, <1>6, <1>7, <1>8 DEF Findable

\* remove_children hands the index's entries to the task.
LEMMA TakeChildrenIndexed ==
    ASSUME TypeOK, OrphanIndexed, NEW t \in Tasks, TakeChildren(t)
    PROVE  OrphanIndexed'
  <1> DEFINE p == parents[t][Len(parents[t])]
  <1>1. /\ kids[t] = <<>> /\ kids' = [kids EXCEPT ![t] = children[p]]
        /\ children' = [children EXCEPT ![p] = <<>>] /\ UNCHANGED <<orphans, pc, blk>>
    BY Zenon DEF TakeChildren
  <1> HIDE DEF p
  <1> SUFFICES ASSUME NEW h \in orphans PROVE Findable(h)'
    BY <1>1, IndexedByBlock, Zenon DEF OrphanIndexed, Findable
  <1>3. h \in Hash /\ Parent[h] \in Hash
    BY BlockAssumption, Zenon DEF TypeOK
  <1>4. Findable(h)
    BY IndexedByBlock, Zenon
  <1>5. CASE \E i \in DOMAIN children[Parent[h]] : children[Parent[h]][i] = h
    <2>1. CASE Parent[h] = p
      <3>1. kids'[t] = children[Parent[h]]
        BY <1>1, <2>1, Zenon DEF TypeOK
      <3> QED
        BY Zenon, <1>5, <3>1 DEF Findable
    <2>2. CASE Parent[h] # p
      <3>1. children'[Parent[h]] = children[Parent[h]]
        BY <1>1, <1>3, <2>2, Zenon DEF TypeOK
      <3> QED
        BY Zenon, <1>5, <3>1 DEF Findable
    <2> QED
      BY <2>1, <2>2, Zenon
  <1>6. CASE \E u \in Tasks : At(u, "index") /\ blk[u] = h
    BY Zenon, <1>1, <1>6 DEF Findable, At
  <1>7. CASE \E u \in Tasks : \E i \in DOMAIN kids[u] : kids[u][i] = h
    <2>1. PICK u \in Tasks : \E i \in DOMAIN kids[u] : kids[u][i] = h
      BY <1>7, Zenon
    <2>2. u # t
      BY <1>1, <2>1
    <2>3. kids'[u] = kids[u]
      BY <1>1, <2>2, Zenon DEF TypeOK
    <2> QED
      BY Zenon, <2>1, <2>3 DEF Findable
  <1> QED
    BY Zenon, <1>4, <1>5, <1>6, <1>7 DEF Findable

\* The child that leaves the list leaves the pool as well.
LEMMA TakeChildIndexed ==
    ASSUME TypeOK, OrphanIndexed, NEW t \in Tasks, TakeChild(t)
    PROVE  OrphanIndexed'
  <1> DEFINE k == Head(kids[t])
  <1>1. /\ pc[t] = "reval" /\ kids[t] # <<>> /\ orphans' = orphans \ {k}
        /\ kids' = [kids EXCEPT ![t] = Tail(@)] /\ UNCHANGED children
    BY Zenon DEF TakeChild, At
  <1>2. \A u \in Tasks : u # t => pc'[u] = pc[u] /\ blk'[u] = blk[u]
    <2>1. CASE k \in orphans \ processing
      <3>1. pc' = [pc EXCEPT ![t] = "body"] /\ blk' = [blk EXCEPT ![t] = k]
        BY <2>1, Zenon DEF TakeChild, TakeUp
      <3> QED
        BY <3>1, Zenon DEF TypeOK
    <2>2. CASE k \notin orphans \ processing
      BY <2>2, Zenon DEF TakeChild
    <2> QED
      BY <2>1, <2>2, Zenon
  <1> SUFFICES ASSUME NEW h \in orphans, h # k PROVE Findable(h)'
    BY <1>1, IndexedByBlock, Zenon DEF OrphanIndexed, Findable
  <1>3. Findable(h)
    BY IndexedByBlock, Zenon
  <1>4. CASE \E i \in DOMAIN children[Parent[h]] : children[Parent[h]][i] = h
    BY Zenon, <1>1, <1>4 DEF Findable
  <1>5. CASE \E u \in Tasks : At(u, "index") /\ blk[u] = h
    <2>1. PICK u \in Tasks : At(u, "index") /\ blk[u] = h
      BY <1>5, Zenon
    <2>2. u # t
      BY <1>1, <2>1, Zenon DEF At
    <2>3. pc'[u] = "index" /\ blk'[u] = h
      BY <1>2, <2>1, <2>2, Zenon DEF At
    <2> QED
      BY Zenon, <2>3 DEF Findable, At
  <1>6. CASE \E u \in Tasks : \E i \in DOMAIN kids[u] : kids[u][i] = h
    <2>1. PICK u \in Tasks : \E i \in DOMAIN kids[u] : kids[u][i] = h
      BY <1>6, Zenon
    <2>2. CASE u # t
      <3>1. kids'[u] = kids[u]
        BY <1>1, <2>2, Zenon DEF TypeOK
      <3> QED
        BY Zenon, <2>1, <3>1 DEF Findable
    <2>3. CASE u = t
      <3> DEFINE q == kids[t]
      <3>1. q \in Seq(Hash) /\ q # <<>> /\ kids'[t] = Tail(q) /\ Head(q) # h
        BY <1>1, Zenon DEF TypeOK
      <3>2. PICK i \in DOMAIN q : q[i] = h
        BY <2>1, <2>3, Zenon
      <3> HIDE DEF q
      <3>3. i \in 1..Len(q) /\ i # 1
        BY <3>1, <3>2
      <3>4. i - 1 \in DOMAIN Tail(q) /\ Tail(q)[i - 1] = h
        BY <3>1, <3>2, <3>3
      <3> QED
        BY Zenon, <3>1, <3>4 DEF Findable
    <2> QED
      BY <2>2, <2>3, Zenon
  <1> QED
    BY Zenon, <1>3, <1>4, <1>5, <1>6 DEF Findable

\* invalidate_descendants takes what it removes from the index out of the pool.
LEMMA SweepIndexed ==
    ASSUME TypeOK, OrphanIndexed, Sweep
    PROVE  OrphanIndexed'
  <1>1. ASSUME NEW s \in sweeps, SweepRemove(s) PROVE OrphanIndexed'
    <2>1. orphans' \subseteq orphans /\ UNCHANGED <<children, kids, pc, blk>>
      BY <1>1, Zenon DEF SweepRemove, task, loop
    <2> QED
      BY Zenon, <2>1 DEF OrphanIndexed, At
  <1>2. ASSUME NEW s \in sweeps, SweepChildren(s) PROVE OrphanIndexed'
    <2> DEFINE p == s.todo[Len(s.todo)]
               hit == {children[p][i] : i \in DOMAIN children[p]}
    <2>1. /\ orphans' = orphans \ hit /\ children' = [children EXCEPT ![p] = <<>>]
          /\ UNCHANGED <<kids, pc, blk>>
      BY <1>2, Zenon DEF SweepChildren, task, loop
    <2>2. \A i \in DOMAIN children[p] : children[p][i] \in hit
      BY Zenon
    <2> HIDE DEF p, hit
    <2> SUFFICES ASSUME NEW h \in orphans, h \notin hit PROVE Findable(h)'
      BY <2>1, IndexedByBlock, Zenon DEF OrphanIndexed, Findable
    <2>3. Parent[h] \in Hash
      BY BlockAssumption, Zenon DEF TypeOK
    <2>4. CASE \E i \in DOMAIN children[Parent[h]] : children[Parent[h]][i] = h
      <3>1. Parent[h] # p
        BY Zenon, <2>2, <2>4
      <3>2. children'[Parent[h]] = children[Parent[h]]
        BY <2>1, <2>3, <3>1, Zenon DEF TypeOK
      <3> QED
        BY Zenon, <2>4, <3>2 DEF Findable
    <2>5. CASE ~\E i \in DOMAIN children[Parent[h]] : children[Parent[h]][i] = h
      BY Zenon, <2>1, <2>5, IndexedByBlock DEF Findable, At
    <2> QED
      BY <2>4, <2>5, Zenon
  <1> QED
    BY Zenon, <1>1, <1>2 DEF Sweep

\* Every step keeps the pool indexed.
LEMMA NextIndexed == ASSUME TypeOK, OrphanIndexed, [Next]_vars PROVE OrphanIndexed'
  <1>1. ASSUME NEW t \in Tasks, NEW b \in Hash, HashMismatch(t, b)
        PROVE  OrphanIndexed'
    <2>1. /\ pc[t] = "idle" /\ pc' = [pc EXCEPT ![t] = "mismatch"]
          /\ blk' = [blk EXCEPT ![t] = b] /\ UNCHANGED <<children, kids, orphans>>
      BY Zenon, <1>1 DEF HashMismatch, TakeUp, At, tree
    <2> QED
      BY <2>1, FindableByTask, Zenon
  <1>2. ASSUME NEW t \in Tasks, NEW b \in Hash, NEW arg, Enter(t, b, arg)
        PROVE  OrphanIndexed'
    <2>1. PICK l : pc' = [pc EXCEPT ![t] = l]
      BY Zenon, <1>2 DEF Enter, TakeUp
    <2>2. pc[t] = "idle" /\ blk' = [blk EXCEPT ![t] = b] /\ UNCHANGED <<children, kids, orphans>>
      BY Zenon, <1>2 DEF Enter, TakeUp, At, tree
    <2> QED
      BY <2>1, <2>2, FindableByTask, Zenon
  <1>3. ASSUME NEW t \in Tasks, Step(t) PROVE OrphanIndexed'
    <2>1. CASE PlainStep(t)
      <3>1. KeepingStep(t)
        BY Zenon, <2>1 DEF PlainStep, KeepingStep
      <3>2. PICK l : pc' = [pc EXCEPT ![t] = l]
        BY Zenon, <3>1, KeepingStepKeeps
      <3>3. UNCHANGED blk
        BY Zenon, <3>1, KeepingStepKeeps
      <3>4. blk' = [blk EXCEPT ![t] = blk[t]]
        BY <3>3, Zenon DEF TypeOK
      <3>5. pc[t] # "index" /\ UNCHANGED <<children, kids>> /\ orphans' \subseteq orphans
        BY Zenon, <2>1, PlainStepKeeps
      <3> QED
        BY Zenon, <3>2, <3>4, <3>5, FindableByTask
    <2>2. CASE MarkMismatch(t) \/ AlreadyStored(t) \/ Return(t) \/ RevalDone(t)
      <3>1. PICK l : pc' = [pc EXCEPT ![t] = l]
        BY Zenon, <2>2 DEF MarkMismatch, AlreadyStored, Return, RevalDone, Leave
      <3>2. blk' = [blk EXCEPT ![t] = Genesis] /\ UNCHANGED <<children, kids>>
        BY Zenon, <2>2 DEF MarkMismatch, AlreadyStored, Return, RevalDone, Leave, tree
      <3>3. pc[t] # "index" /\ orphans' \subseteq orphans
        BY <2>2, Zenon
        DEF MarkMismatch, AlreadyStored, Return, RevalDone, MarkInvalid, At, tree
      <3> QED
        BY Zenon, <3>1, <3>2, <3>3, FindableByTask
    <2> QED
      BY ZenonT(60), SMTT(60), <1>3, <2>1, <2>2, BufferIndexed, IndexIndexed, TakeChildrenIndexed,
         TakeChildIndexed DEF Step, PlainStep
  <1>4. CASE Sweep
    BY <1>4, SweepIndexed, Zenon
  <1>5. CASE \E b \in Hash : BuildPayload(b)
    BY Zenon, <1>5 DEF BuildPayload, task, loop, tree, OrphanIndexed, At
  <1>6. CASE UNCHANGED vars
    BY Zenon, <1>6 DEF vars, task, loop, tree, OrphanIndexed, At
  <1> QED
    BY <1>1, <1>2, <1>3, <1>4, <1>5, <1>6, Zenon DEF Next

\* No buffered block is lost between add_orphan, remove_children and
\* invalidate_descendants, however they interleave: it is in the child index, or
\* a task that is about to put it there or has just taken it out has it in hand.
THEOREM OrphansFindable == Spec => []OrphanIndexed
  <1>1. Init => OrphanIndexed
    BY Zenon DEF Init, OrphanIndexed
  <1> QED
    BY <1>1, InitType, NextType, NextIndexed, PTL DEF Spec

-----------------------------------------------------------------------------
(* Calls that do not overlap strand no buffered block.                     *)

\* The engine API, gossip and sync call new_payload_internal one after the other.
OneTask == \A t, u \in Tasks : t = u

\* The task is going to come across h, whose parent is stored: it has just stored
\* the parent, or is going to look for the parent's children, or has taken h out of
\* the index.
Pursues(t, h) ==
    \/ blk[t] = Parent[h] /\ (pc[t] = "clear" \/ (pc[t] = "return" /\ result[t] = "VALID"))
    \/ \E i \in DOMAIN parents[t] : parents[t][i] = Parent[h]
    \/ \E i \in DOMAIN kids[t] : kids[t][i] = h

Pursued == \A h \in orphans : Parent[h] \in stored => \E t \in Tasks : Pursues(t, h)

\* Of a task at label l whose block has parent p: it buffers a block only while the
\* parent is missing, and has children or parents to look at only while it
\* revalidates.
Shape(l, p, r, ks, ps) ==
    /\ l \in {"elsewhere", "buffer", "index"} => p \notin stored
    /\ l \in {"idle", "mismatch", "badBlobs", "known", "parentReason"} => ~r
    /\ ~r /\ l # "reval" => ks = <<>> /\ ps = <<>>

Shaped == \A t \in Tasks : Shape(pc[t], Parent[blk[t]], inReval[t], kids[t], parents[t])

SequentialInv == TypeOK /\ OrphanIndexed /\ Pursued /\ Shaped

\* With one task, what it leaves behind it the lists still cover.
LEMMA PursuedByLists ==
    ASSUME OneTask, Pursued, NEW t \in Tasks, pc[t] # "clear",
           pc[t] # "return" \/ result[t] # "VALID",
           UNCHANGED <<stored, kids, parents>>, orphans' \subseteq orphans
    PROVE  Pursued'
  <1> SUFFICES ASSUME NEW h \in orphans', Parent[h] \in stored
               PROVE  \E u \in Tasks : Pursues(u, h)'
    BY Zenon DEF Pursued
  <1>1. Pursues(t, h)
    BY Zenon DEF OneTask, Pursued
  <1> QED
    BY <1>1, Zenon DEF Pursues

\* The steps that decide on an answer, and neither store, clear, buffer nor index.
CheckStep(t) ==
    \/ RejectCancun(t) \/ CheckKnown(t) \/ CheckParentReason(t) \/ CheckBody(t)
    \/ CheckAncestors(t) \/ CheckHasParent(t) \/ CheckHeaders(t) \/ CheckParentStored(t)
    \/ CheckParentElsewhere(t) \/ Execute(t) \/ PersistFails(t) \/ ApplyMark(t)

\* Where they go.
CheckGoes(t, l) ==
    /\ l \notin {"idle", "mismatch", "badBlobs", "known", "reval"}
    /\ l = "parentReason" => pc[t] = "known"
    /\ l \in {"elsewhere", "buffer", "index"} => Par(t) \notin stored \/ pc[t] = "elsewhere"

\* They keep the tables and the lists, and are not the end of an import.
LEMMA CheckStepKeeps ==
    ASSUME NEW t \in Tasks, CheckStep(t)
    PROVE  /\ pc[t] \notin {"clear", "return", "reval"}
           /\ UNCHANGED <<stored, blk, inReval, kids, parents>>
           /\ orphans' \subseteq orphans
           /\ \E l : pc' = [pc EXCEPT ![t] = l] /\ CheckGoes(t, l)
  <1> USE DEF At, Goto, Finish, Reject, RejectSelf, tree, loop, CheckGoes
  <1>1. CASE RejectCancun(t)
    BY SMTT(60), Z3T(60), <1>1 DEF RejectCancun
  <1>2. CASE CheckKnown(t)
    BY SMTT(60), Z3T(60), <1>2 DEF CheckKnown
  <1>3. CASE CheckParentReason(t)
    BY SMTT(60), Z3T(60), <1>3 DEF CheckParentReason
  <1>4. CASE CheckBody(t)
    BY SMTT(60), Z3T(60), <1>4 DEF CheckBody
  <1>5. CASE CheckAncestors(t)
    BY SMTT(60), Z3T(60), <1>5 DEF CheckAncestors
  <1>6. CASE CheckHasParent(t)
    BY SMTT(60), Z3T(60), <1>6 DEF CheckHasParent, Known
  <1>7. CASE CheckHeaders(t)
    <2>1. At(t, "headers") /\ UNCHANGED <<stored, tree>>
      BY Zenon, <1>7 DEF CheckHeaders
    <2>2. Goto(t, "stored") \/ \E m : Reject(t, m)
      BY <1>7, Zenon DEF CheckHeaders
    <2> QED
      BY SMTT(60), Z3T(60), <2>1, <2>2
  <1>8. CASE CheckParentStored(t)
    BY SMTT(60), Z3T(60), <1>8 DEF CheckParentStored
  <1>9. CASE CheckParentElsewhere(t)
    BY <1>9, Zenon DEF CheckParentElsewhere
  <1>10. CASE Execute(t)
    BY SMTT(60), Z3T(60), <1>10 DEF Execute
  <1>11. CASE PersistFails(t)
    <2>1. /\ pc[t] = "persist" /\ pc' = [pc EXCEPT ![t] = "return"]
          /\ UNCHANGED <<stored, blk, inReval, kids, parents, orphans>>
      BY Zenon, <1>11 DEF PersistFails
    <2>2. CheckGoes(t, "return")
      BY Zenon
    <2>3. pc[t] \notin {"clear", "return", "reval"}
      BY <2>1, Zenon
    <2> QED
      BY Zenon, <2>1, <2>2, <2>3
  <1>12. CASE ApplyMark(t)
    <2>1. /\ pc[t] = "mark" /\ pc' = [pc EXCEPT ![t] = IF Len(marks[t]) = 1 THEN "return" ELSE pc[t]]
          /\ UNCHANGED <<stored, blk, inReval, kids, parents>>
      BY <1>12, Zenon DEF ApplyMark
    <2>2. orphans' \subseteq orphans
      BY <1>12, Zenon DEF ApplyMark, MarkInvalid
    <2>3. CheckGoes(t, IF Len(marks[t]) = 1 THEN "return" ELSE pc[t])
      BY <2>1, Zenon
    <2> QED
      BY Zenon, <2>1, <2>2, <2>3
  <1> QED
    BY <1>1, <1>2, <1>3, <1>4, <1>5, <1>6, <1>7, <1>8, <1>9, <1>10, <1>11, <1>12, Zenon
    DEF CheckStep

\* They leave no buffered block behind.
LEMMA CheckStepPursued ==
    ASSUME OneTask, SequentialInv, NEW t \in Tasks, CheckStep(t)
    PROVE  Pursued' /\ Shaped'
  <1>1. Pursued'
    BY CheckStepKeeps, PursuedByLists, Zenon DEF SequentialInv
  <1>2. PICK l : pc' = [pc EXCEPT ![t] = l] /\ CheckGoes(t, l)
    BY CheckStepKeeps, Zenon
  <1>3. pc'[t] = l
    BY <1>2, Zenon DEF SequentialInv, TypeOK
  <1>4. Shape(pc[t], Parent[blk[t]], inReval[t], kids[t], parents[t])
    BY Zenon DEF SequentialInv, Shaped
  <1>5. Shape(l, Parent[blk[t]], inReval[t], kids[t], parents[t])
    BY <1>2, <1>4, CheckStepKeeps, Zenon DEF CheckGoes, Shape, Par
  <1>6. Shape(pc[t], Parent[blk[t]], inReval[t], kids[t], parents[t])'
    BY <1>3, <1>5, CheckStepKeeps DEF Shape
  <1> QED
    BY <1>1, <1>6, Zenon DEF OneTask, Shaped

\* The import is the task's own, so it looks for the children of what it stored.
LEMMA StorePursued ==
    ASSUME OneTask, SequentialInv, NEW t \in Tasks, Persist(t) \/ ClearInvalid(t)
    PROVE  Pursued' /\ Shaped'
  <1>1. /\ pc[t] \in {"persist", "clear"} /\ UNCHANGED <<orphans, blk, inReval, kids, parents>>
        /\ stored \subseteq stored' /\ stored' \subseteq stored \cup {blk[t]}
        /\ pc[t] = "clear" => UNCHANGED stored
    BY Zenon DEF Persist, ClearInvalid, Goto, Finish, At, tree, loop
  <1>2. pc'[t] = "clear" \/ (pc'[t] = "return" /\ result'[t] = "VALID")
    BY Zenon DEF Persist, ClearInvalid, Goto, Finish, SequentialInv, TypeOK
  <1>3. Pursued'
    <2> SUFFICES ASSUME NEW h \in orphans, Parent[h] \in stored'
                 PROVE  Pursues(t, h)'
      BY <1>1, Zenon DEF Pursued
    <2>1. CASE Parent[h] \in stored
      <3>1. Pursues(t, h)
        BY <2>1, Zenon DEF OneTask, SequentialInv, Pursued
      <3> QED
        BY <1>1, <1>2, <3>1, Zenon DEF Pursues
    <2>2. CASE Parent[h] = blk[t]
      BY <1>1, <1>2, <2>2, Zenon DEF Pursues
    <2> QED
      BY <1>1, <2>1, <2>2, Zenon
  <1>4. Shape(pc[t], Parent[blk[t]], inReval[t], kids[t], parents[t])
    BY Zenon DEF SequentialInv, Shaped
  <1>5. Shape(pc[t], Parent[blk[t]], inReval[t], kids[t], parents[t])'
    BY <1>1, <1>2, <1>4, Zenon DEF Shape
  <1> QED
    BY <1>3, <1>5, Zenon DEF OneTask, Shaped

\* Buffering: the block's parent is not stored, and nobody can store it meanwhile.
LEMMA BufferPursued ==
    ASSUME OneTask, SequentialInv, NEW t \in Tasks, BufferBlock(t) \/ IndexChild(t)
    PROVE  Pursued' /\ Shaped'
  <1>1. /\ pc[t] \in {"buffer", "index"} /\ UNCHANGED <<stored, blk, inReval, kids, parents>>
        /\ orphans' \subseteq orphans \cup {blk[t]}
    BY Zenon DEF BufferBlock, IndexChild, Goto, Finish, At, loop
  <1>2. pc'[t] = "index" \/ pc'[t] = "return"
    BY Zenon DEF BufferBlock, IndexChild, Goto, Finish, SequentialInv, TypeOK
  <1>3. Shape(pc[t], Parent[blk[t]], inReval[t], kids[t], parents[t])
    BY Zenon DEF SequentialInv, Shaped
  <1>4. Parent[blk[t]] \notin stored
    BY <1>1, <1>3, Zenon DEF Shape
  <1>5. Shape(pc[t], Parent[blk[t]], inReval[t], kids[t], parents[t])'
    BY <1>1, <1>2, <1>3, <1>4, Zenon DEF Shape
  <1>6. Pursued'
    <2> SUFFICES ASSUME NEW h \in orphans', Parent[h] \in stored
                 PROVE  Pursues(t, h)'
      BY <1>1, Zenon DEF Pursued
    <2>1. h \in orphans
      BY <1>1, <1>4, Zenon
    <2>2. Pursues(t, h)
      BY <2>1, Zenon DEF OneTask, SequentialInv, Pursued
    <2> QED
      BY <1>1, <2>2, Zenon DEF Pursues
  <1> QED
    BY <1>5, <1>6, Zenon DEF OneTask, Shaped

\* The call ends, or the loop goes on with what it has just imported.
LEMMA LeavePursued ==
    ASSUME OneTask, SequentialInv, NEW t \in Tasks,
           MarkMismatch(t) \/ AlreadyStored(t) \/ Return(t) \/ RevalDone(t)
    PROVE  Pursued' /\ Shaped'
  <1>1. /\ inReval' = [inReval EXCEPT ![t] = FALSE] /\ UNCHANGED <<stored, kids>>
    BY Zenon DEF MarkMismatch, AlreadyStored, Return, RevalDone, Leave
  <1>2. orphans' \subseteq orphans
    BY Zenon DEF MarkMismatch, AlreadyStored, Return, RevalDone, MarkInvalid, tree
  <1>3. inReval'[t] = FALSE
    BY <1>1, Zenon DEF SequentialInv, TypeOK
  <1>4. Shape(pc[t], Parent[blk[t]], inReval[t], kids[t], parents[t])
    BY Zenon DEF SequentialInv, Shaped
  <1>5. \A l : pc' = [pc EXCEPT ![t] = l] => pc'[t] = l
    BY Zenon DEF SequentialInv, TypeOK
  <1>6. CASE MarkMismatch(t) \/ AlreadyStored(t) \/ RevalDone(t)
    <2>1. pc' = [pc EXCEPT ![t] = "idle"] /\ UNCHANGED parents
      BY Zenon, <1>6 DEF MarkMismatch, AlreadyStored, RevalDone, Leave
    <2>2. pc[t] \in {"mismatch", "known"} \/ (pc[t] = "reval" /\ kids[t] = <<>> /\ parents[t] = <<>>)
      BY <1>6, Zenon DEF MarkMismatch, AlreadyStored, RevalDone, At
    <2>3. kids[t] = <<>> /\ parents[t] = <<>>
      BY <1>4, <2>2, Zenon DEF Shape
    <2>4. Shape(pc[t], Parent[blk[t]], inReval[t], kids[t], parents[t])'
      BY <1>1, <1>3, <1>5, <2>1, <2>3, Zenon DEF Shape
    <2>5. Pursued'
      BY <1>1, <1>2, <2>1, <2>2, PursuedByLists, Zenon DEF SequentialInv
    <2> QED
      BY <2>4, <2>5, Zenon DEF OneTask, Shaped
  <1>7. CASE Return(t) /\ result[t] # "VALID"
    <2>1. pc[t] = "return" /\ parents' = [parents EXCEPT ![t] = parents[t]]
      BY <1>7, Zenon DEF Return, At
    <2>2. UNCHANGED parents
      BY <2>1, Zenon DEF SequentialInv, TypeOK
    <2>3. pc' = [pc EXCEPT ![t] = IF inReval[t] THEN "reval" ELSE "idle"]
      BY <1>7, Zenon DEF Return, Leave
    <2>4. pc'[t] = IF inReval[t] THEN "reval" ELSE "idle"
      BY <1>5, <2>3, Zenon
    <2>5. Shape(pc[t], Parent[blk[t]], inReval[t], kids[t], parents[t])'
      BY <1>1, <1>3, <1>4, <2>1, <2>2, <2>4, Zenon DEF Shape
    <2>6. Pursued'
      BY <1>1, <1>2, <1>7, <2>1, <2>2, PursuedByLists, Zenon DEF SequentialInv
    <2> QED
      BY <2>5, <2>6, Zenon DEF OneTask, Shaped
  <1>8. CASE Return(t) /\ result[t] = "VALID"
    <2> DEFINE q == parents[t]
    <2>1. parents'[t] = Append(q, blk[t])
      BY <1>8, Zenon DEF Return, SequentialInv, TypeOK
    <2>2. pc' = [pc EXCEPT ![t] = "reval"]
      BY <1>8, Zenon DEF Return, Leave
    <2>3. Shape(pc[t], Parent[blk[t]], inReval[t], kids[t], parents[t])'
      BY <1>3, <1>5, <2>2, Zenon DEF Shape
    <2>4. q \in Seq(Hash) /\ blk[t] \in Hash
      BY Zenon DEF SequentialInv, TypeOK
    <2> HIDE DEF q
    <2>5. /\ \E i \in DOMAIN Append(q, blk[t]) : Append(q, blk[t])[i] = blk[t]
          /\ \A i \in DOMAIN q : i \in DOMAIN Append(q, blk[t]) /\ Append(q, blk[t])[i] = q[i]
      <3>1. Len(q) + 1 \in DOMAIN Append(q, blk[t]) /\ Append(q, blk[t])[Len(q) + 1] = blk[t]
        BY <2>4
      <3>2. \A i \in DOMAIN q : i \in DOMAIN Append(q, blk[t]) /\ Append(q, blk[t])[i] = q[i]
        BY <2>4
      <3> QED
        BY <3>1, <3>2, Zenon
    <2>6. Pursued'
      <3> SUFFICES ASSUME NEW h \in orphans, Parent[h] \in stored PROVE Pursues(t, h)'
        BY <1>1, <1>2, Zenon DEF Pursued
      <3>1. Pursues(t, h)
        BY Zenon DEF OneTask, SequentialInv, Pursued
      <3>2. CASE blk[t] = Parent[h]
        BY <2>1, <2>5, <3>2, Zenon DEF Pursues
      <3>3. CASE \E i \in DOMAIN parents[t] : parents[t][i] = Parent[h]
        BY <2>1, <2>5, <3>3, Zenon DEF Pursues, q
      <3>4. CASE \E i \in DOMAIN kids[t] : kids[t][i] = h
        BY <1>1, <3>4, Zenon DEF Pursues
      <3> QED
        BY <3>1, <3>2, <3>3, <3>4, Zenon DEF Pursues
    <2> QED
      BY <2>3, <2>6, Zenon DEF OneTask, Shaped
  <1> QED
    BY <1>6, <1>7, <1>8, Zenon

\* remove_children: the children of the parent are now in hand.
LEMMA TakeChildrenPursued ==
    ASSUME OneTask, SequentialInv, NEW t \in Tasks, TakeChildren(t)
    PROVE  Pursued' /\ Shaped'
  <1> DEFINE q == parents[t]
             p == q[Len(q)]
  <1>1. /\ pc[t] = "reval" /\ kids[t] = <<>> /\ q # <<>>
        /\ kids' = [kids EXCEPT ![t] = children[p]]
        /\ parents' = [parents EXCEPT ![t] = SubSeq(q, 1, Len(q) - 1)]
        /\ UNCHANGED <<stored, orphans, pc, blk, inReval>>
    BY Zenon DEF TakeChildren, At
  <1>2. q \in Seq(Hash) /\ kids'[t] = children[p] /\ parents'[t] = SubSeq(q, 1, Len(q) - 1)
    BY <1>1, Zenon DEF SequentialInv, TypeOK
  <1>3. Shape(pc[t], Parent[blk[t]], inReval[t], kids[t], parents[t])
    BY Zenon DEF SequentialInv, Shaped
  <1>4. Shape(pc[t], Parent[blk[t]], inReval[t], kids[t], parents[t])'
    BY <1>1, <1>3, Zenon DEF Shape
  <1> HIDE DEF q
  <1>5. \A i \in DOMAIN q : q[i] # p => /\ i \in DOMAIN SubSeq(q, 1, Len(q) - 1)
                                        /\ SubSeq(q, 1, Len(q) - 1)[i] = q[i]
    <2> SUFFICES ASSUME NEW i \in DOMAIN q, q[i] # p
                 PROVE  /\ i \in DOMAIN SubSeq(q, 1, Len(q) - 1)
                        /\ SubSeq(q, 1, Len(q) - 1)[i] = q[i]
      BY Zenon
    <2>1. i \in 1 .. Len(q) - 1 /\ Len(q) \in Nat
      BY <1>2
    <2> QED
      BY <1>2, <2>1
  <1>6. Pursued'
    <2> SUFFICES ASSUME NEW h \in orphans, Parent[h] \in stored PROVE Pursues(t, h)'
      BY <1>1, Zenon DEF Pursued
    <2>1. \E i \in DOMAIN q : q[i] = Parent[h]
      <3>1. Pursues(t, h)
        BY Zenon DEF OneTask, SequentialInv, Pursued
      <3>2. ~\E i \in DOMAIN kids[t] : kids[t][i] = h
        BY <1>1
      <3> QED
        BY <1>1, <3>1, <3>2, Zenon DEF Pursues, q
    <2>2. CASE Parent[h] = p
      <3>1. Findable(h)
        BY IndexedByBlock, Zenon DEF SequentialInv
      <3>2. \A u \in Tasks : u = t
        BY Zenon DEF OneTask
      <3>3. ~\E u \in Tasks : \/ At(u, "index") /\ blk[u] = h
                              \/ \E i \in DOMAIN kids[u] : kids[u][i] = h
        BY <1>1, <3>2 DEF At
      <3>4. \E i \in DOMAIN children[p] : children[p][i] = h
        BY <2>2, <3>1, <3>3, Zenon DEF Findable
      <3> QED
        BY <1>2, <3>4, Zenon DEF Pursues
    <2>3. CASE Parent[h] # p
      BY <1>2, <1>5, <2>1, <2>3, Zenon DEF Pursues
    <2> QED
      BY <2>2, <2>3, Zenon
  <1> QED
    BY <1>4, <1>6, Zenon DEF OneTask, Shaped

\* The child in hand leaves the pool; the others stay in hand.
LEMMA TakeChildPursued ==
    ASSUME OneTask, SequentialInv, NEW t \in Tasks, TakeChild(t)
    PROVE  Pursued' /\ Shaped'
  <1> DEFINE q == kids[t]
             k == Head(q)
  <1>1. /\ pc[t] = "reval" /\ q # <<>> /\ orphans' = orphans \ {k}
        /\ kids' = [kids EXCEPT ![t] = Tail(q)] /\ UNCHANGED <<stored, parents>>
    BY Zenon DEF TakeChild, TakeUp, At
  <1>2. q \in Seq(Hash) /\ kids'[t] = Tail(q)
    BY <1>1, Zenon DEF SequentialInv, TypeOK
  <1>3. (pc'[t] = "body" /\ inReval'[t] = TRUE) \/ UNCHANGED <<pc, blk, inReval>>
    <2>1. CASE k \in orphans \ processing
      <3>1. pc' = [pc EXCEPT ![t] = "body"] /\ inReval' = [inReval EXCEPT ![t] = TRUE]
        BY <2>1, Zenon DEF TakeChild, TakeUp
      <3> QED
        BY <3>1, Zenon DEF SequentialInv, TypeOK
    <2>2. CASE k \notin orphans \ processing
      BY <2>2, Zenon DEF TakeChild
    <2> QED
      BY <2>1, <2>2, Zenon
  <1>4. Shape(pc[t], Parent[blk[t]], inReval[t], kids[t], parents[t])
    BY Zenon DEF SequentialInv, Shaped
  <1>5. Shape(pc[t], Parent[blk[t]], inReval[t], kids[t], parents[t])'
    BY <1>1, <1>3, <1>4, Zenon DEF Shape
  <1> HIDE DEF q
  <1>6. \A i \in DOMAIN q : q[i] # k => i - 1 \in DOMAIN Tail(q) /\ Tail(q)[i - 1] = q[i]
    <2> SUFFICES ASSUME NEW i \in DOMAIN q, q[i] # k
                 PROVE  i - 1 \in DOMAIN Tail(q) /\ Tail(q)[i - 1] = q[i]
      BY Zenon
    <2>1. i \in 1 .. Len(q) /\ i # 1
      BY <1>1, <1>2
    <2> QED
      BY <1>1, <1>2, <2>1
  <1>7. Pursued'
    <2> SUFFICES ASSUME NEW h \in orphans, h # k, Parent[h] \in stored PROVE Pursues(t, h)'
      BY <1>1, Zenon DEF Pursued
    <2>1. Pursues(t, h)
      BY Zenon DEF OneTask, SequentialInv, Pursued
    <2>2. CASE \E i \in DOMAIN parents[t] : parents[t][i] = Parent[h]
      BY <1>1, <2>2, Zenon DEF Pursues
    <2>3. CASE \E i \in DOMAIN q : q[i] = h
      BY <1>2, <1>6, <2>3, Zenon DEF Pursues
    <2> QED
      BY <1>1, <2>1, <2>2, <2>3, Zenon DEF Pursues, q
  <1> QED
    BY <1>5, <1>7, Zenon DEF OneTask, Shaped

\* Every step keeps each buffered block of a stored parent in the task's hands.
LEMMA NextSequential == ASSUME OneTask, SequentialInv, [Next]_vars PROVE SequentialInv'
  <1>1. TypeOK' /\ OrphanIndexed'
    BY NextType, NextIndexed, Zenon DEF SequentialInv
  <1>2. ASSUME NEW t \in Tasks, NEW b \in Hash,
               HashMismatch(t, b) \/ \E arg \in {"match", "badBlobs"} : Enter(t, b, arg)
        PROVE  Pursued' /\ Shaped'
    <2>1. PICK l : pc' = [pc EXCEPT ![t] = l] /\ l \in {"mismatch", "badBlobs", "known"}
      BY <1>2, Zenon DEF HashMismatch, Enter, TakeUp
    <2>2. /\ pc[t] = "idle" /\ inReval' = [inReval EXCEPT ![t] = FALSE]
          /\ UNCHANGED <<stored, orphans, kids, parents>>
      BY Zenon, <1>2 DEF HashMismatch, Enter, TakeUp, At, tree
    <2>3. Pursued'
      BY <2>2, PursuedByLists, Zenon DEF SequentialInv
    <2>4. pc'[t] = l /\ inReval'[t] = FALSE
      BY <2>1, <2>2, Zenon DEF SequentialInv, TypeOK
    <2>5. Shape(pc[t], Parent[blk[t]], inReval[t], kids[t], parents[t])
      BY Zenon DEF SequentialInv, Shaped
    <2>6. Shape(pc[t], Parent[blk[t]], inReval[t], kids[t], parents[t])'
      BY <2>1, <2>2, <2>4, <2>5, Zenon DEF Shape
    <2> QED
      BY <2>3, <2>6, Zenon DEF OneTask, Shaped
  <1>3. ASSUME NEW t \in Tasks, Step(t) PROVE Pursued' /\ Shaped'
    BY ZenonT(60), SMTT(60), <1>3, CheckStepPursued, StorePursued, BufferPursued, LeavePursued,
       TakeChildrenPursued, TakeChildPursued DEF Step, CheckStep
  <1>4. CASE Sweep \/ (\E b \in Hash : BuildPayload(b)) \/ UNCHANGED vars
    <2>1. UNCHANGED <<stored, pc, blk, result, inReval, kids, parents>>
      BY Zenon, <1>4 DEF Sweep, SweepChildren, SweepRemove, BuildPayload, vars, task, loop
    <2>2. ASSUME NEW s \in sweeps, SweepChildren(s) PROVE orphans' \subseteq orphans
      BY <2>2, Zenon DEF SweepChildren
    <2>3. ASSUME NEW s \in sweeps, SweepRemove(s) PROVE orphans' \subseteq orphans
      BY <2>3, Zenon DEF SweepRemove
    <2>4. orphans' \subseteq orphans
      BY ZenonT(60), SMTT(60), <1>4, <2>2, <2>3 DEF Sweep, BuildPayload, vars, tree
    <2>5. Pursued'
      <3> SUFFICES ASSUME NEW h \in orphans', Parent[h] \in stored'
                   PROVE  \E u \in Tasks : Pursues(u, h)'
        BY Zenon DEF Pursued
      <3>1. PICK u \in Tasks : Pursues(u, h)
        BY <2>1, <2>4, Zenon DEF SequentialInv, Pursued
      <3> QED
        BY Zenon, <2>1, <3>1 DEF Pursues
    <2>6. Shaped'
      BY Zenon, <2>1 DEF SequentialInv, Shaped, Shape
    <2> QED
      BY <1>1, <2>5, <2>6, Zenon DEF SequentialInv
  <1> QED
    BY <1>1, <1>2, <1>3, <1>4, Zenon DEF Next, SequentialInv

\* While the calls of new_payload_internal do not overlap, no block is left in the
\* orphan pool once its parent is stored: revalidate_dependent_payloads reaches every
\* buffered child of what the call imported, of those children, and so on, whatever
\* sweeps and locally built payloads come between.
THEOREM NothingStranded ==
    ASSUME OneTask
    PROVE  Spec => []NoStrandedOrphan
  <1>1. Init => SequentialInv
    <2>1. Init => OrphanIndexed /\ Pursued /\ Shaped
      BY Zenon DEF Init, OrphanIndexed, Pursued, Shaped, Shape
    <2> QED
      BY <2>1, InitType, Zenon DEF SequentialInv
  <1>2. SequentialInv => NoStrandedOrphan
    <2> SUFFICES ASSUME SequentialInv, \A t \in Tasks : At(t, "idle"),
                        NEW h \in orphans, Parent[h] \in stored
                 PROVE  FALSE
      BY Zenon DEF NoStrandedOrphan
    <2>1. PICK t \in Tasks : Pursues(t, h)
      BY Zenon DEF SequentialInv, Pursued
    <2>2. pc[t] = "idle" /\ kids[t] = <<>> /\ parents[t] = <<>>
      BY Zenon DEF At, SequentialInv, Shaped, Shape
    <2> QED
      BY <2>1, <2>2 DEF Pursues
  <1> QED
    BY <1>1, <1>2, NextSequential, PTL DEF Spec

-----------------------------------------------------------------------------
(* The chains of the block tree.                                           *)

\* The block tree of the import path is one.
LEMMA HashChain == IsChain(Hash, Genesis, Parent, Path)
  BY BlockAssumption, PathAssumption, Zenon DEF IsChain

\* The chain of genesis is genesis.
LEMMA PathGenesis == Path[Genesis] = <<Genesis>> /\ Len(Path[Genesis]) = 1
  BY HashChain, ChainGenesis, Zenon

\* A chain starts with its block.
LEMMA PathHead ==
    ASSUME NEW b \in Hash
    PROVE  Path[b] \in Seq(Hash) /\ Len(Path[b]) \in Nat \ {0} /\ Path[b][1] = b
  BY HashChain, ChainHead

\* It goes on with the chain of the parent.
LEMMA PathTail ==
    ASSUME NEW b \in Hash, b # Genesis
    PROVE  /\ Parent[b] \in Hash /\ Path[Parent[b]] \in Seq(Hash)
           /\ Len(Path[b]) = Len(Path[Parent[b]]) + 1
           /\ \A i \in 1 .. Len(Path[Parent[b]]) : Path[b][i + 1] = Path[Parent[b]][i]
  BY HashChain, ChainTail

\* What holds of a block and passes on to parents holds along its chain.
LEMMA PathClosed ==
    ASSUME NEW S, S \subseteq Hash, \A x \in S : x # Genesis => Parent[x] \in S, NEW b \in S
    PROVE  \A i \in DOMAIN Path[b] : Path[b][i] \in S
  BY HashChain, ChainClosed, ZenonT(60)

\* Each block of a chain but the last is followed by its parent.
LEMMA PathParent ==
    ASSUME NEW b \in Hash, NEW i \in 1 .. Len(Path[b]) - 1
    PROVE  /\ Path[b][i] \in Hash /\ Path[b][i] # Genesis
           /\ Parent[Path[b][i]] = Path[b][i + 1]
  BY HashChain, ChainParent

-----------------------------------------------------------------------------
(* Taint.                                                                  *)

\* A reason against an ancestor is one against the block.
LEMMA TaintedLess == ASSUME NEW b \in Hash, Tainted(b, 1) PROVE Tainted(b, 0)
  <1>1. PICK i \in DOMAIN Path[b] :
            Defect[Path[b][i]] # "none" \/ (i > 1 /\ Path[b][i] \in Misannounced)
    BY Zenon DEF Tainted
  <1>2. CASE Defect[Path[b][i]] # "none"
    BY Zenon, <1>2 DEF Tainted
  <1>3. CASE i > 1 /\ Path[b][i] \in Misannounced
    <2>1. i > 0
      BY <1>3, PathHead
    <2> QED
      BY Zenon, <1>3, <2>1 DEF Tainted
  <1> QED
    BY <1>1, <1>2, <1>3, Zenon

\* The first block of its own chain is the block.
LEMMA TaintedSelf ==
    ASSUME NEW b \in Hash
    PROVE  /\ b \in Misannounced => Tainted(b, 0)
           /\ Defect[b] # "none" => Tainted(b, 1)
  <1>1. 1 \in DOMAIN Path[b] /\ Path[b][1] = b
    BY PathHead
  <1>2. 1 > 0
    OBVIOUS
  <1> QED
    BY Zenon, <1>1, <1>2 DEF Tainted

\* Taint passes on to the children, a wrong announcement too.
LEMMA TaintedByParent ==
    ASSUME NEW b \in Hash, b # Genesis, Tainted(Parent[b], 0)
    PROVE  Tainted(b, 1)
  <1>1. PICK i \in DOMAIN Path[Parent[b]] :
            \/ Defect[Path[Parent[b]][i]] # "none"
            \/ (i > 0 /\ Path[Parent[b]][i] \in Misannounced)
    BY Zenon DEF Tainted
  <1>2. /\ Path[Parent[b]] \in Seq(Hash) /\ Path[b] \in Seq(Hash)
        /\ Len(Path[b]) = Len(Path[Parent[b]]) + 1
        /\ \A j \in 1 .. Len(Path[Parent[b]]) : Path[b][j + 1] = Path[Parent[b]][j]
    BY PathHead, PathTail, Zenon
  <1>3. i \in 1 .. Len(Path[Parent[b]])
    BY <1>1, <1>2
  <1>4. i + 1 \in DOMAIN Path[b] /\ i + 1 > 1 /\ Path[b][i + 1] = Path[Parent[b]][i]
    BY <1>2, <1>3
  <1> QED
    BY Zenon, <1>1, <1>4 DEF Tainted

\* So it passes on along the whole chain.
LEMMA TaintedByAncestor ==
    ASSUME NEW b \in Hash, NEW i \in DOMAIN Path[b], Tainted(Path[b][i], 0)
    PROVE  Tainted(b, 0)
  <1> DEFINE S == {x \in Hash : Tainted(x, 0) => Tainted(b, 0)}
  <1>1. ASSUME NEW x \in S, x # Genesis PROVE Parent[x] \in S
    <2>1. Parent[x] \in Hash
      BY BlockAssumption, Zenon
    <2>2. Tainted(Parent[x], 0) => Tainted(x, 0)
      BY <1>1, TaintedByParent, TaintedLess, Zenon
    <2> QED
      BY Zenon, <2>1, <2>2
  <1>2. b \in S
    BY Zenon
  <1>3. S \subseteq Hash
    BY Zenon
  <1>4. Path[b][i] \in S
    <2> HIDE DEF S
    <2> QED
      BY Zenon, <1>1, <1>2, <1>3, PathClosed
  <1> QED
    BY Zenon, <1>4

-----------------------------------------------------------------------------
(* Marks: the inductive invariant.                                         *)

\* The mark m has its cause.
Caused(m) == Tainted(m.hash, 0) /\ (m.reason = "Hard" => Tainted(m.hash, 1))

\* So have the marks a task has decided on.
MarksCaused == \A t \in Tasks : \A i \in DOMAIN marks[t] : Caused(marks[t][i])

\* Genesis is never buffered, and never the block of a call; a block on the two paths
\* for wrong arguments is one that came with wrong arguments.
InHand(l, b) ==
    /\ l \notin {"idle", "reval"} => b # Genesis
    /\ l \in {"mismatch", "badBlobs"} => b \in Misannounced
BlocksInHand == Genesis \notin orphans /\ \A t \in Tasks : InHand(pc[t], blk[t])

\* The child index has each block under its parent.
ChildrenKeyed ==
    \A h \in Hash : \A i \in DOMAIN children[h] :
        children[h][i] # Genesis /\ Parent[children[h][i]] = h

\* invalidate_descendants starts from, and goes on to, blocks that are marked with cause.
SweepsCaused == \A s \in sweeps : \A i \in DOMAIN s.todo : Tainted(s.todo[i], 0)

MarksSound == MarksEarned /\ MarksCaused /\ BlocksInHand /\ ChildrenKeyed /\ SweepsCaused

\* Marks are written in four places.
LEMMA InvalidWritten ==
    ASSUME [Next]_vars
    PROVE  \/ UNCHANGED invalid
           \/ \E t \in Tasks : MarkMismatch(t) \/ ClearInvalid(t) \/ ApplyMark(t)
           \/ \E s \in sweeps : SweepChildren(s)
  <1> USE DEF HashMismatch, Enter, BuildPayload, Sweep, SweepRemove, Step, tree,
          RejectCancun, AlreadyStored, CheckKnown, CheckParentReason,
          CheckBody, CheckAncestors, CheckHasParent, CheckHeaders, CheckParentStored,
          CheckParentElsewhere, Execute, Persist, PersistFails, BufferBlock,
          IndexChild, Return, TakeChildren, TakeChild, RevalDone
  <1>1. ASSUME NEW t \in Tasks, Step(t)
        PROVE  UNCHANGED invalid \/ MarkMismatch(t) \/ ClearInvalid(t) \/ ApplyMark(t)
    BY <1>1, Zenon
  <1>2. CASE UNCHANGED vars
    BY <1>2, Zenon DEF vars
  <1> QED
    BY <1>1, <1>2, Zenon DEF Next

\* The child index is written in three places.
LEMMA ChildrenWritten ==
    ASSUME [Next]_vars
    PROVE  \/ UNCHANGED children
           \/ \E t \in Tasks : IndexChild(t) \/ TakeChildren(t)
           \/ \E s \in sweeps : SweepChildren(s)
  <1> USE DEF HashMismatch, Enter, BuildPayload, Sweep, SweepRemove, Step, tree,
          MarkMismatch, RejectCancun, AlreadyStored, CheckKnown, CheckParentReason,
          CheckBody, CheckAncestors, CheckHasParent, CheckHeaders, CheckParentStored,
          CheckParentElsewhere, Execute, Persist, PersistFails, ClearInvalid, BufferBlock,
          ApplyMark, Return, TakeChild, RevalDone
  <1>1. ASSUME NEW t \in Tasks, Step(t)
        PROVE  UNCHANGED children \/ IndexChild(t) \/ TakeChildren(t)
    BY <1>1, Zenon
  <1>2. CASE UNCHANGED vars
    BY <1>2, Zenon DEF vars
  <1> QED
    BY <1>1, <1>2, Zenon DEF Next

\* Sweeps are spawned by a mark, and change by themselves.
LEMMA SweepsWritten ==
    ASSUME [Next]_vars
    PROVE  \/ UNCHANGED sweeps
           \/ \E t \in Tasks : ApplyMark(t)
           \/ \E s \in sweeps : SweepChildren(s) \/ SweepRemove(s)
  <1> USE DEF HashMismatch, Enter, BuildPayload, Sweep, Step,
          MarkMismatch, RejectCancun, AlreadyStored, CheckKnown, CheckParentReason,
          CheckBody, CheckAncestors, CheckHasParent, CheckHeaders, CheckParentStored,
          CheckParentElsewhere, Execute, Persist, PersistFails, ClearInvalid, BufferBlock,
          IndexChild, Return, TakeChildren, TakeChild, RevalDone
  <1>1. ASSUME NEW t \in Tasks, Step(t) PROVE UNCHANGED sweeps \/ ApplyMark(t)
    BY <1>1, Zenon
  <1>2. CASE UNCHANGED vars
    BY <1>2, Zenon DEF vars
  <1> QED
    BY <1>1, <1>2, Zenon DEF Next

\* One mark with its cause, or one mark taken back.
LEMMA EarnedByOne ==
    ASSUME TypeOK, MarksEarned, NEW h \in Hash, NEW r,
           invalid' = [invalid EXCEPT ![h] = r],
           r # "none" => Tainted(h, 0), r = "Hard" => Tainted(h, 1)
    PROVE  MarksEarned'
  <1> SUFFICES ASSUME NEW g \in Hash
               PROVE  /\ invalid'[g] # "none" => Tainted(g, 0)
                      /\ invalid'[g] = "Hard" => Tainted(g, 1)
    BY Zenon DEF MarksEarned, Tainted
  <1>1. CASE g = h
    <2>1. invalid'[g] = r
      BY <1>1, Zenon DEF TypeOK
    <2> QED
      BY Zenon, <1>1, <2>1
  <1>2. CASE g # h
    <2>1. invalid'[g] = invalid[g]
      BY <1>2, Zenon DEF TypeOK
    <2> QED
      BY Zenon, <2>1 DEF MarksEarned
  <1> QED
    BY <1>1, <1>2, Zenon

\* The last element of what a sweep still has to do.
LEMMA SweepTarget ==
    ASSUME TypeOK, NEW s \in sweeps, s.todo # <<>>
    PROVE  /\ s.todo \in Seq(Hash) /\ s.done \in Seq(Hash)
           /\ Len(s.todo) \in DOMAIN s.todo /\ s.todo[Len(s.todo)] \in Hash
  <1>1. s.todo \in Seq(Hash) /\ s.done \in Seq(Hash)
    BY Zenon DEF TypeOK
  <1> DEFINE q == s.todo
  <1>2. q \in Seq(Hash) /\ q # <<>>
    BY <1>1, Zenon
  <1> HIDE DEF q
  <1>3. Len(q) \in DOMAIN q /\ q[Len(q)] \in Hash
    BY <1>2
  <1> QED
    BY <1>1, <1>3, Zenon DEF q

\* The children a sweep finds are tainted by their parent.
LEMMA SweptTainted ==
    ASSUME TypeOK, MarksSound, NEW s \in sweeps, s.todo # <<>>,
           NEW i \in DOMAIN children[s.todo[Len(s.todo)]]
    PROVE  Tainted(children[s.todo[Len(s.todo)]][i], 1)
  <1> DEFINE p == s.todo[Len(s.todo)]
  <1>1. p \in Hash /\ Tainted(p, 0)
    BY Zenon, SweepTarget DEF MarksSound, SweepsCaused
  <1>2. children[p] \in Seq(Hash)
    BY <1>1, Zenon DEF TypeOK
  <1>3. children[p][i] \in Hash
    BY <1>2
  <1>4. children[p][i] # Genesis /\ Parent[children[p][i]] = p
    BY Zenon, <1>1 DEF MarksSound, ChildrenKeyed
  <1> HIDE DEF p
  <1>5. Tainted(children[p][i], 1)
    BY Zenon, <1>1, <1>3, <1>4, TaintedByParent
  <1> QED
    BY Zenon, <1>5 DEF p

\* Every step leaves marks that have their cause.
LEMMA NextEarned == ASSUME TypeOK, MarksSound, [Next]_vars PROVE MarksEarned'
  <1>1. CASE UNCHANGED invalid
    BY Zenon, <1>1 DEF MarksSound, MarksEarned, Tainted
  <1>2. ASSUME NEW t \in Tasks, MarkMismatch(t) PROVE MarksEarned'
    <2>1. blk[t] \in Hash /\ pc[t] = "mismatch" /\ invalid' = [invalid EXCEPT ![blk[t]] = "Soft"]
      BY <1>2, Zenon DEF MarkMismatch, MarkInvalid, At, TypeOK
    <2>2. Tainted(blk[t], 0)
      BY <2>1, TaintedSelf, Zenon DEF MarksSound, BlocksInHand, InHand
    <2> QED
      BY <2>1, <2>2, EarnedByOne, Zenon DEF MarksSound
  <1>3. ASSUME NEW t \in Tasks, ClearInvalid(t) PROVE MarksEarned'
    <2>1. blk[t] \in Hash /\ invalid' = [invalid EXCEPT ![blk[t]] = "none"]
      BY <1>3, Zenon DEF ClearInvalid, TypeOK
    <2> QED
      BY <2>1, EarnedByOne, Zenon DEF MarksSound
  <1>4. ASSUME NEW t \in Tasks, ApplyMark(t) PROVE MarksEarned'
    <2> DEFINE m == Head(marks[t])
    <2>1. marks[t] \in Seq(Marks) /\ marks[t] # <<>> /\ invalid' = [invalid EXCEPT ![m.hash] = m.reason]
      BY Zenon, <1>4 DEF ApplyMark, MarkInvalid, TypeOK
    <2>2. m \in Marks /\ 1 \in DOMAIN marks[t] /\ m = marks[t][1]
      <3> HIDE DEF m
      <3> DEFINE q == marks[t]
                 M == Marks
      <3>1. q \in Seq(M) /\ q # <<>>
        BY <2>1, Zenon
      <3> HIDE DEF q, M
      <3>2. Head(q) \in M /\ 1 \in DOMAIN q /\ Head(q) = q[1]
        BY <3>1
      <3> QED
        BY Zenon, <3>2 DEF q, M, m
    <2>3. Caused(m)
      BY Zenon, <2>2 DEF MarksSound, MarksCaused
    <2>4. m.hash \in Hash /\ m.reason # "none"
      BY <2>2, Zenon DEF Marks
    <2> HIDE DEF m
    <2> QED
      BY Zenon, <2>1, <2>3, <2>4, EarnedByOne DEF MarksSound, Caused
  <1>5. ASSUME NEW s \in sweeps, SweepChildren(s) PROVE MarksEarned'
    <2> DEFINE p == s.todo[Len(s.todo)]
               hit == {children[p][i] : i \in DOMAIN children[p]}
    <2>1. s.todo # <<>> /\ invalid' = [h \in Hash |-> IF h \in hit THEN "Hard" ELSE invalid[h]]
      BY Zenon, <1>5 DEF SweepChildren
    <2>2. \A h \in hit : Tainted(h, 1)
      BY Zenon, <2>1, SweptTainted
    <2> HIDE DEF hit
    <2>3. ASSUME NEW h \in Hash
          PROVE  /\ invalid'[h] # "none" => Tainted(h, 0)
                 /\ invalid'[h] = "Hard" => Tainted(h, 1)
      <3>1. CASE h \in hit
        BY Zenon, <2>2, <3>1, TaintedLess
      <3>2. CASE h \notin hit
        <4>1. invalid'[h] = invalid[h]
          BY <2>1, <3>2, Zenon
        <4> QED
          BY Zenon, <4>1 DEF MarksSound, MarksEarned
      <3> QED
        BY <3>1, <3>2, Zenon
    <2> QED
      BY Zenon, <2>3 DEF MarksEarned, Tainted
  <1> QED
    BY Zenon, <1>1, <1>2, <1>3, <1>4, <1>5, InvalidWritten

\* One slot of the child index is emptied.
LEMMA KeyedEmptied ==
    ASSUME TypeOK, ChildrenKeyed, NEW p, children' = [children EXCEPT ![p] = <<>>]
    PROVE  ChildrenKeyed'
  <1> SUFFICES ASSUME NEW h \in Hash, NEW i \in DOMAIN children'[h]
               PROVE  children'[h][i] # Genesis /\ Parent[children'[h][i]] = h
    BY Zenon DEF ChildrenKeyed
  <1>1. CASE h = p
    <2>1. children'[h] = <<>>
      BY <1>1, Zenon DEF TypeOK
    <2> QED
      BY <2>1
  <1>2. CASE h # p
    <2>1. children'[h] = children[h]
      BY <1>2, Zenon DEF TypeOK
    <2> QED
      BY SMTT(60), Z3T(60), <2>1 DEF ChildrenKeyed
  <1> QED
    BY <1>1, <1>2, Zenon

\* Every step keeps the child index keyed by parents.
LEMMA NextKeyed == ASSUME TypeOK, MarksSound, [Next]_vars PROVE ChildrenKeyed'
  <1>1. CASE UNCHANGED children
    BY Zenon, <1>1 DEF MarksSound, ChildrenKeyed
  <1>2. ASSUME NEW t \in Tasks, IndexChild(t) PROVE ChildrenKeyed'
    <2> DEFINE p == Parent[blk[t]]
    <2>1. pc[t] = "index" /\ children' = [children EXCEPT ![p] = Append(children[p], blk[t])]
      BY <1>2, Zenon DEF IndexChild, At, Par
    <2>2. blk[t] \in Hash /\ p \in Hash /\ blk[t] # Genesis /\ children[p] \in Seq(Hash)
      BY <2>1, BlockAssumption, Zenon DEF TypeOK, MarksSound, BlocksInHand, InHand
    <2> SUFFICES ASSUME NEW h \in Hash, NEW i \in DOMAIN children'[h]
                 PROVE  children'[h][i] # Genesis /\ Parent[children'[h][i]] = h
      BY Zenon DEF ChildrenKeyed
    <2>3. CASE h # p
      <3>1. children'[h] = children[h]
        BY <2>1, <2>3 DEF TypeOK
      <3> QED
        BY SMTT(60), Z3T(60), <3>1 DEF MarksSound, ChildrenKeyed
    <2>4. CASE h = p
      <3> DEFINE q == children[p]
                 b == blk[t]
      <3>1. children'[h] = Append(q, b)
        BY <2>1, <2>2, <2>4 DEF TypeOK
      <3>2. q \in Seq(Hash) /\ b \in Hash
        BY <2>2, Zenon
      <3> HIDE DEF q, b
      <3>3. i \in DOMAIN q \/ Append(q, b)[i] = b
        BY <3>1, <3>2
      <3>4. i \in DOMAIN q => Append(q, b)[i] = q[i]
        BY <3>2
      <3>5. CASE i \in DOMAIN q
        <4>1. q[i] # Genesis /\ Parent[q[i]] = p
          BY Zenon, <2>2, <3>5 DEF q, MarksSound, ChildrenKeyed
        <4> QED
          BY Zenon, <2>4, <3>1, <3>4, <3>5, <4>1
      <3>6. CASE Append(q, b)[i] = b
        BY Zenon, <2>2, <2>4, <3>1, <3>6 DEF b
      <3> QED
        BY <3>3, <3>5, <3>6, Zenon
    <2> QED
      BY <2>3, <2>4, Zenon
  <1>3. ASSUME NEW t \in Tasks, TakeChildren(t) PROVE ChildrenKeyed'
    BY Zenon, <1>3, KeyedEmptied DEF TakeChildren, MarksSound
  <1>4. ASSUME NEW s \in sweeps, SweepChildren(s) PROVE ChildrenKeyed'
    BY Zenon, <1>4, KeyedEmptied DEF SweepChildren, MarksSound
  <1> QED
    BY Zenon, <1>1, <1>2, <1>3, <1>4, ChildrenWritten

\* Every step keeps the sweeps to tainted blocks.
LEMMA NextSweeps == ASSUME TypeOK, MarksSound, [Next]_vars PROVE SweepsCaused'
  <1>1. CASE UNCHANGED sweeps
    BY Zenon, <1>1 DEF MarksSound, SweepsCaused, Tainted
  <1>2. ASSUME NEW t \in Tasks, ApplyMark(t) PROVE SweepsCaused'
    <2> DEFINE m == Head(marks[t])
               new == [todo |-> <<m.hash>>, done |-> <<>>]
    <2>1. sweeps' \subseteq sweeps \cup {new}
      BY <1>2, Zenon DEF ApplyMark
    <2>2. Tainted(m.hash, 0)
      <3>1. marks[t] \in Seq(Marks) /\ marks[t] # <<>>
        BY Zenon, <1>2 DEF ApplyMark, TypeOK
      <3>2. 1 \in DOMAIN marks[t] /\ m = marks[t][1]
        BY <3>1
      <3> QED
        BY Zenon, <3>2 DEF MarksSound, MarksCaused, Caused
    <2>3. \A i \in DOMAIN new.todo : new.todo[i] = m.hash
      OBVIOUS
    <2> HIDE DEF new, m
    <2> QED
      BY Zenon, <2>1, <2>2, <2>3 DEF MarksSound, SweepsCaused, Tainted
  <1>3. ASSUME NEW s \in sweeps, SweepRemove(s) PROVE SweepsCaused'
    <2>1. sweeps' \subseteq sweeps
      BY <1>3, Zenon DEF SweepRemove
    <2> QED
      BY Zenon, <2>1 DEF MarksSound, SweepsCaused, Tainted
  <1>4. ASSUME NEW s \in sweeps, SweepChildren(s) PROVE SweepsCaused'
    <2> DEFINE p == s.todo[Len(s.todo)]
               found == children[p]
               rest == SubSeq(s.todo, 1, Len(s.todo) - 1)
               new == [todo |-> rest \o found, done |-> s.done \o found]
    <2>1. s.todo # <<>> /\ sweeps' \subseteq sweeps \cup {new}
      BY <1>4, Zenon DEF SweepChildren
    <2>2. s.todo \in Seq(Hash) /\ p \in Hash
      BY <2>1, SweepTarget, Zenon
    <2>3. found \in Seq(Hash)
      BY <2>2, Zenon DEF TypeOK
    <2>4. \A i \in DOMAIN found : Tainted(found[i], 0)
      <3> SUFFICES ASSUME NEW i \in DOMAIN found PROVE Tainted(found[i], 0)
        BY Zenon
      <3>1. found[i] \in Hash
        <4> HIDE DEF found
        <4> QED
          BY <2>3
      <3> QED
        BY Zenon, <2>1, <3>1, SweptTainted, TaintedLess
    <2>5. \A i \in DOMAIN s.todo : Tainted(s.todo[i], 0)
      BY Zenon DEF MarksSound, SweepsCaused
    <2>6. \A i \in DOMAIN new.todo : Tainted(new.todo[i], 0)
      <3> DEFINE q == s.todo
      <3>1. q \in Seq(Hash) /\ rest = SubSeq(q, 1, Len(q) - 1) /\ new.todo = rest \o found /\ q # <<>>
        BY <2>1, <2>2, Zenon
      <3> HIDE DEF q, found, rest, new
      <3>2. rest \in Seq(Hash) /\ \A i \in DOMAIN rest : i \in DOMAIN q /\ rest[i] = q[i]
        BY <3>1
      <3> SUFFICES ASSUME NEW i \in DOMAIN (rest \o found) PROVE Tainted((rest \o found)[i], 0)
        BY Zenon, <3>1
      <3>3. \/ i \in DOMAIN rest /\ (rest \o found)[i] = rest[i]
            \/ i - Len(rest) \in DOMAIN found /\ (rest \o found)[i] = found[i - Len(rest)]
        BY <2>3, <3>2
      <3> QED
        BY Zenon, <2>4, <2>5, <3>2, <3>3 DEF q
    <2> HIDE DEF new
    <2> QED
      BY Zenon, <2>1, <2>6 DEF MarksSound, SweepsCaused, Tainted
  <1> QED
    BY Zenon, <1>1, <1>2, <1>3, <1>4, SweepsWritten

\* Marks that do not change keep their cause.
LEMMA CausedKept == ASSUME MarksCaused, UNCHANGED marks PROVE MarksCaused'
  BY ZenonT(60), SMTT(60) DEF MarksCaused, Caused, Tainted

\* A task decides on new marks, or gets on with them.
LEMMA CausedByTask ==
    ASSUME TypeOK, MarksCaused, NEW t \in Tasks, NEW q,
           marks' = [marks EXCEPT ![t] = q], \A i \in DOMAIN q : Caused(q[i])
    PROVE  MarksCaused'
  <1> SUFFICES ASSUME NEW u \in Tasks, NEW i \in DOMAIN marks'[u] PROVE Caused(marks'[u][i])
    BY Zenon DEF MarksCaused, Caused, Tainted
  <1>1. CASE u = t
    <2>1. marks'[u] = q
      BY <1>1, Zenon DEF TypeOK
    <2> QED
      BY Zenon, <2>1
  <1>2. CASE u # t
    <2>1. marks'[u] = marks[u]
      BY <1>2 DEF TypeOK
    <2> QED
      BY Zenon, <2>1 DEF MarksCaused
  <1> QED
    BY <1>1, <1>2, Zenon

\* The block in hand is rejected with cause.
LEMMA CausedBySelf ==
    ASSUME TypeOK, MarksCaused, NEW t \in Tasks, NEW r, NEW k, RejectSelf(t, r, k),
           Tainted(blk[t], 0), r = "Hard" => Tainted(blk[t], 1)
    PROVE  MarksCaused'
  <1> DEFINE m == MarkOf(blk[t], r, k)
  <1>1. marks' = [marks EXCEPT ![t] = <<m>>]
    BY Zenon DEF RejectSelf, Reject
  <1>2. m.hash = blk[t] /\ m.reason = r
    BY Zenon DEF MarkOf
  <1>3. Caused(m)
    BY Zenon, <1>2 DEF Caused
  <1> HIDE DEF m
  <1>4. \A i \in DOMAIN <<m>> : <<m>>[i] = m
    OBVIOUS
  <1>5. \A i \in DOMAIN <<m>> : Caused(<<m>>[i])
    BY Zenon, <1>3, <1>4
  <1> QED
    BY Zenon, <1>1, <1>5, CausedByTask

\* The steps that never decide on a mark.
UnmarkingStep(t) ==
    \/ MarkMismatch(t) \/ AlreadyStored(t) \/ CheckKnown(t) \/ CheckHasParent(t)
    \/ Persist(t) \/ PersistFails(t) \/ ClearInvalid(t) \/ BufferBlock(t) \/ IndexChild(t)
    \/ Return(t) \/ TakeChildren(t) \/ TakeChild(t) \/ RevalDone(t)

\* They leave the marks in hand alone.
LEMMA UnmarkingKeeps == ASSUME NEW t \in Tasks, UnmarkingStep(t) PROVE UNCHANGED marks
  BY Zenon DEF UnmarkingStep, MarkMismatch, AlreadyStored, CheckKnown, CheckHasParent, Persist,
     PersistFails, ClearInvalid, BufferBlock, IndexChild, Return, TakeChildren, TakeChild,
     RevalDone, Goto, Finish, Leave, TakeUp

\* A marked ancestor taints the block in hand.
LEMMA AncestorTaints ==
    ASSUME TypeOK, MarksSound, NEW b \in Hash, b # Genesis,
           NEW i \in DOMAIN Path[Parent[b]], invalid[Path[Parent[b]][i]] # "none"
    PROVE  Tainted(b, 0) /\ Tainted(b, 1)
  <1> DEFINE p == Parent[b]
  <1>1. p \in Hash /\ Path[p] \in Seq(Hash)
    BY BlockAssumption, PathHead, Zenon
  <1> HIDE DEF p
  <1>2. i \in DOMAIN Path[p] /\ invalid[Path[p][i]] # "none"
    BY Zenon DEF p
  <1>3. Path[p][i] \in Hash
    BY <1>1, <1>2
  <1>4. Tainted(Path[p][i], 0)
    BY Zenon, <1>2, <1>3 DEF MarksSound, MarksEarned
  <1>5. Tainted(p, 0)
    BY Zenon, <1>1, <1>2, <1>4, TaintedByAncestor
  <1> QED
    BY Zenon, <1>5, TaintedByParent, TaintedLess DEF p

\* validate_parent_block rejects an ancestor and the block in hand, both with cause.
LEMMA HeadersCaused ==
    ASSUME TypeOK, MarksSound, NEW t \in Tasks, CheckHeaders(t)
    PROVE  MarksCaused'
  <1> DEFINE b == blk[t]
             p == Parent[b]
  <1>1. pc[t] = "headers" /\ b \in Hash /\ p \in Hash /\ Path[p] \in Seq(Hash)
    BY PathHead, BlockAssumption DEF CheckHeaders, At, TypeOK
  <1>2. b # Genesis
    BY <1>1, Zenon DEF MarksSound, BlocksInHand, InHand
  <1>3. CASE BadAncestors(p) = {}
    <2>1. UNCHANGED marks
      BY Zenon, <1>3 DEF CheckHeaders, Goto, Par
    <2> QED
      BY Zenon, <2>1, CausedKept DEF MarksSound
  <1>4. CASE BadAncestors(p) # {}
    <2>1. PICK i \in BadAncestors(p), k \in {"sweep", "nothing"} :
            Reject(t, <<MarkOf(Path[p][i], "Hard", k), MarkOf(b, "Hard", "sweep")>>)
      BY Zenon, <1>4 DEF CheckHeaders, Par
    <2> DEFINE c == Path[p][i]
               m == MarkOf(c, "Hard", k)
               n == MarkOf(b, "Hard", "sweep")
    <2>2. /\ i \in 1 .. Len(Path[p]) - 1 /\ i \in DOMAIN Path[p] /\ i + 1 \in DOMAIN Path[p]
          /\ (invalid[Path[p][i + 1]] # "none" \/ Defect[c] = "header")
      BY <1>1, <2>1 DEF BadAncestors
    <2>3. c \in Hash /\ c # Genesis /\ Parent[c] = Path[p][i + 1]
      BY Zenon, <1>1, <2>2, PathParent
    <2>4. Tainted(c, 1)
      <3>1. CASE invalid[Path[p][i + 1]] # "none"
        <4>1. Path[p][i + 1] \in Hash
          BY <1>1, <2>2
        <4>2. Tainted(Parent[c], 0)
          BY Zenon, <2>3, <3>1, <4>1 DEF MarksSound, MarksEarned
        <4> QED
          BY Zenon, <2>3, <4>2, TaintedByParent
      <3>2. CASE Defect[c] = "header"
        <4>1. Defect[c] # "none"
          BY <3>2, Zenon
        <4> QED
          BY Zenon, <2>3, <4>1, TaintedSelf
      <3> QED
        BY <2>2, <3>1, <3>2, Zenon
    <2>5. Tainted(b, 1)
      <3>1. Tainted(c, 0)
        BY Zenon, <2>3, <2>4, TaintedLess
      <3>2. Tainted(p, 0)
        BY Zenon, <1>1, <2>2, <3>1, TaintedByAncestor
      <3> QED
        BY Zenon, <1>1, <1>2, <3>2, TaintedByParent
    <2>6. Caused(m) /\ Caused(n)
      <3>1. m.hash = c /\ n.hash = b
        BY Zenon DEF MarkOf
      <3> QED
        BY Zenon, <1>1, <2>3, <2>4, <2>5, <3>1, TaintedLess DEF Caused
    <2>7. marks' = [marks EXCEPT ![t] = <<m, n>>]
      BY Zenon, <2>1 DEF Reject
    <2> HIDE DEF m, n
    <2>8. \A j \in DOMAIN <<m, n>> : <<m, n>>[j] = m \/ <<m, n>>[j] = n
      OBVIOUS
    <2>9. \A j \in DOMAIN <<m, n>> : Caused(<<m, n>>[j])
      BY Zenon, <2>6, <2>8
    <2> QED
      BY Zenon, <2>7, <2>9, CausedByTask DEF MarksSound
  <1> QED
    BY <1>3, <1>4, Zenon

\* The steps that reject the block in hand do it with cause.
LEMMA StepCaused == ASSUME TypeOK, MarksSound, NEW t \in Tasks, Step(t) PROVE MarksCaused'
  <1>1. CASE UNCHANGED marks
    BY Zenon, <1>1, CausedKept DEF MarksSound
  <1>2. CASE UnmarkingStep(t)
    BY <1>1, <1>2, UnmarkingKeeps, Zenon
  <1>3. blk[t] \in Hash /\ Par(t) \in Hash
    BY BlockAssumption, Zenon DEF TypeOK, Par
  <1>4. pc[t] \notin {"idle", "reval"} => blk[t] # Genesis
    BY Zenon DEF MarksSound, BlocksInHand, InHand
  <1>5. ASSUME NEW k, RejectSelf(t, "Hard", k), Defect[blk[t]] # "none" PROVE MarksCaused'
    BY Zenon, <1>3, <1>5, TaintedSelf, TaintedLess, CausedBySelf DEF MarksSound
  <1>6. CASE RejectCancun(t)
    <2>1. CASE blk[t] \in stored
      BY Zenon, <1>1, <1>6, <2>1 DEF RejectCancun, Finish
    <2>2. CASE blk[t] \notin stored
      <3>1. blk[t] \in Misannounced
        BY <1>6, Zenon DEF RejectCancun, At, MarksSound, BlocksInHand, InHand
      <3>2. Tainted(blk[t], 0)
        BY Zenon, <1>3, <3>1, TaintedSelf
      <3>3. RejectSelf(t, "Soft", "nothing") /\ "Soft" # "Hard"
        BY <1>6, <2>2 DEF RejectCancun
      <3> QED
        BY Zenon, <3>2, <3>3, CausedBySelf DEF MarksSound
    <2> QED
      BY <2>1, <2>2, Zenon
  <1>7. CASE CheckParentReason(t)
    <2>1. CASE invalid[Par(t)] = "none"
      BY Zenon, <1>1, <1>7, <2>1 DEF CheckParentReason, Goto
    <2>2. CASE invalid[Par(t)] # "none"
      <3>1. blk[t] # Genesis
        BY <1>4, <1>7, Zenon DEF CheckParentReason, At
      <3>2. Tainted(Parent[blk[t]], 0)
        BY Zenon, <1>3, <2>2 DEF MarksSound, MarksEarned, Par
      <3>3. Tainted(blk[t], 0) /\ Tainted(blk[t], 1)
        BY Zenon, <1>3, <3>1, <3>2, TaintedByParent, TaintedLess
      <3> QED
        BY Zenon, <1>7, <2>2, <3>3, CausedBySelf DEF CheckParentReason, MarksSound
    <2> QED
      BY <2>1, <2>2, Zenon
  <1>8. CASE CheckBody(t)
    <2>1. Defect[blk[t]] = "body" => Defect[blk[t]] # "none"
      BY Zenon
    <2> QED
      BY Zenon, <1>1, <1>5, <1>8, <2>1 DEF CheckBody, Goto, Finish
  <1>9. CASE CheckAncestors(t)
    <2>1. CASE InvalidAncestor(Par(t))
      <3>1. blk[t] # Genesis
        BY <1>4, <1>9, Zenon DEF CheckAncestors, At
      <3>2. PICK i \in DOMAIN Path[Parent[blk[t]]] : invalid[Path[Parent[blk[t]]][i]] # "none"
        BY Zenon, <2>1 DEF InvalidAncestor, Par
      <3>3. Tainted(blk[t], 0) /\ Tainted(blk[t], 1)
        BY Zenon, <1>3, <3>1, <3>2, AncestorTaints
      <3> QED
        BY Zenon, <1>9, <2>1, <3>3, CausedBySelf DEF CheckAncestors, MarksSound
    <2>2. CASE ~InvalidAncestor(Par(t))
      BY Zenon, <1>1, <1>9, <2>2 DEF CheckAncestors, Goto
    <2> QED
      BY <2>1, <2>2, Zenon
  <1>10. CASE CheckParentStored(t)
    <2>1. Defect[blk[t]] = "header" => Defect[blk[t]] # "none"
      BY Zenon
    <2> QED
      BY Zenon, <1>1, <1>5, <1>10, <2>1 DEF CheckParentStored, Goto
  <1>11. CASE CheckParentElsewhere(t)
    <2>1. Defect[blk[t]] = "header" => Defect[blk[t]] # "none"
      BY Zenon
    <2> QED
      BY Zenon, <1>1, <1>5, <1>11, <2>1 DEF CheckParentElsewhere, Goto, Finish
  <1>12. CASE Execute(t)
    <2>1. Defect[blk[t]] = "execution" => Defect[blk[t]] # "none"
      BY Zenon
    <2> QED
      BY Zenon, <1>1, <1>5, <1>12, <2>1 DEF Execute, Goto
  <1>13. CASE ApplyMark(t)
    <2> DEFINE q == marks[t]
    <2>1. marks' = [marks EXCEPT ![t] = Tail(q)] /\ q # <<>> /\ q \in Seq(Marks)
      BY <1>13, Zenon DEF ApplyMark, TypeOK
    <2>2. \A i \in DOMAIN q : Caused(q[i])
      BY Zenon DEF MarksSound, MarksCaused
    <2> HIDE DEF q
    <2>3. \A i \in DOMAIN Tail(q) : i + 1 \in DOMAIN q /\ Tail(q)[i] = q[i + 1]
      BY <2>1
    <2>4. \A i \in DOMAIN Tail(q) : Caused(Tail(q)[i])
      BY Zenon, <2>2, <2>3
    <2> QED
      BY Zenon, <2>1, <2>4, CausedByTask DEF MarksSound
  <1> QED
    BY ZenonT(60), SMTT(60), <1>2, <1>6, <1>7, <1>8, <1>9, <1>10, <1>11, <1>12, <1>13, HeadersCaused
    DEF Step, UnmarkingStep

\* So every step keeps what the tasks have decided on caused.
LEMMA NextCaused == ASSUME TypeOK, MarksSound, [Next]_vars PROVE MarksCaused'
  <1>1. CASE UNCHANGED marks
    BY Zenon, <1>1, CausedKept DEF MarksSound
  <1>2. ASSUME NEW t \in Tasks, NEW b \in Hash, HashMismatch(t, b) \/ \E arg : Enter(t, b, arg)
        PROVE  UNCHANGED marks
    BY Zenon, <1>2 DEF HashMismatch, Enter, TakeUp
  <1>3. CASE Sweep
    BY Zenon, <1>1, <1>3 DEF Sweep, SweepChildren, SweepRemove, task
  <1>4. CASE \E b \in Hash : BuildPayload(b)
    BY Zenon, <1>1, <1>4 DEF BuildPayload, task
  <1>5. CASE UNCHANGED vars
    BY Zenon, <1>1, <1>5 DEF vars, task
  <1> QED
    BY ZenonT(60), SMTT(60), <1>1, <1>2, <1>3, <1>4, <1>5, StepCaused DEF Next

-----------------------------------------------------------------------------
(* The blocks in hand.                                                     *)

\* A step of one task keeps them, if its own block is right.
LEMMA InHandByTask ==
    ASSUME TypeOK, BlocksInHand, NEW t \in Tasks, NEW l, NEW b,
           pc' = [pc EXCEPT ![t] = l], blk' = [blk EXCEPT ![t] = b], InHand(l, b),
           Genesis \notin orphans'
    PROVE  BlocksInHand'
  <1> SUFFICES ASSUME NEW u \in Tasks PROVE InHand(pc'[u], blk'[u])
    BY Zenon DEF BlocksInHand, InHand
  <1>1. CASE u = t
    BY <1>1 DEF TypeOK
  <1>2. CASE u # t
    <2>1. pc'[u] = pc[u] /\ blk'[u] = blk[u]
      BY <1>2, Zenon DEF TypeOK
    <2> QED
      BY Zenon, <2>1 DEF BlocksInHand
  <1> QED
    BY <1>1, <1>2, Zenon

\* No step takes up genesis, nor a block on a wrong path.
LEMMA NextInHand == ASSUME TypeOK, MarksSound, [Next]_vars PROVE BlocksInHand'
  <1>1. BlocksInHand
    BY Zenon DEF MarksSound
  <1>2. ASSUME NEW t \in Tasks, NEW b \in Hash, HashMismatch(t, b) PROVE BlocksInHand'
    <2>1. /\ pc' = [pc EXCEPT ![t] = "mismatch"] /\ blk' = [blk EXCEPT ![t] = b]
          /\ b # Genesis /\ b \in Misannounced /\ UNCHANGED orphans
      BY Zenon, <1>2 DEF HashMismatch, TakeUp, tree
    <2>2. InHand("mismatch", b)
      BY <2>1, Zenon DEF InHand
    <2> QED
      BY Zenon, <1>1, <2>1, <2>2, InHandByTask DEF BlocksInHand
  <1>3. ASSUME NEW t \in Tasks, NEW b \in Hash, NEW arg, Enter(t, b, arg) PROVE BlocksInHand'
    <2> DEFINE l == IF arg = "badBlobs" THEN "badBlobs" ELSE "known"
    <2>1. /\ pc' = [pc EXCEPT ![t] = l] /\ blk' = [blk EXCEPT ![t] = b]
          /\ b # Genesis /\ (arg = "badBlobs" => b \in Misannounced) /\ UNCHANGED orphans
      BY Zenon, <1>3 DEF Enter, TakeUp, tree
    <2>2. InHand(l, b)
      BY <2>1, Zenon DEF InHand
    <2> HIDE DEF l
    <2> QED
      BY Zenon, <1>1, <2>1, <2>2, InHandByTask DEF BlocksInHand
  <1>4. ASSUME NEW t \in Tasks, Step(t) PROVE BlocksInHand'
    <2>1. CASE KeepingStep(t)
      <3>1. PICK l \in Labels \ (Unheld \cup {"badBlobs"}) : pc' = [pc EXCEPT ![t] = l]
        BY Zenon, <2>1, KeepingStepKeeps
      <3>2. Holds(t) /\ UNCHANGED blk
        BY Zenon, <2>1, KeepingStepKeeps
      <3>3. blk[t] # Genesis
        BY <1>1, <3>2, Zenon DEF BlocksInHand, InHand, Holds, Unheld
      <3>4. InHand(l, blk[t])
        BY <3>1, <3>3, Zenon DEF InHand, Unheld
      <3>5. orphans' \subseteq orphans \cup {blk[t]}
        <4>1. CASE PlainStep(t)
          BY <4>1, PlainStepKeeps, Zenon
        <4>2. CASE BufferBlock(t) \/ IndexChild(t)
          BY <4>2, Zenon DEF BufferBlock, IndexChild
        <4> QED
          BY Zenon, <2>1, <4>1, <4>2 DEF KeepingStep, PlainStep
      <3>6. Genesis \notin orphans'
        BY <1>1, <3>3, <3>5, Zenon DEF BlocksInHand
      <3>7. blk' = [blk EXCEPT ![t] = blk[t]]
        BY <3>2 DEF TypeOK
      <3> QED
        BY Zenon, <1>1, <3>1, <3>4, <3>6, <3>7, InHandByTask
    <2>2. CASE MarkMismatch(t) \/ AlreadyStored(t) \/ Return(t) \/ RevalDone(t)
      <3>1. PICK l \in {"idle", "reval"} : pc' = [pc EXCEPT ![t] = l]
        BY <2>2, Zenon DEF MarkMismatch, AlreadyStored, Return, RevalDone, Leave
      <3>2. blk' = [blk EXCEPT ![t] = Genesis]
        BY Zenon, <2>2 DEF MarkMismatch, AlreadyStored, Return, RevalDone, Leave
      <3>3. orphans' \subseteq orphans
        BY <2>2, Zenon
        DEF MarkMismatch, AlreadyStored, Return, RevalDone, MarkInvalid, tree
      <3>4. InHand(l, Genesis) /\ Genesis \notin orphans'
        BY <1>1, <3>1, <3>3 DEF InHand, BlocksInHand
      <3> QED
        BY Zenon, <1>1, <3>1, <3>2, <3>4, InHandByTask
    <2>3. CASE TakeChildren(t)
      BY Zenon, <1>1, <2>3 DEF TakeChildren, BlocksInHand, InHand
    <2>4. CASE TakeChild(t)
      <3> DEFINE k == Head(kids[t])
      <3>1. orphans' = orphans \ {k}
        BY <2>4, Zenon DEF TakeChild
      <3>2. CASE k \in orphans \ processing
        <4>1. pc' = [pc EXCEPT ![t] = "body"] /\ blk' = [blk EXCEPT ![t] = k]
          BY <2>4, <3>2, Zenon DEF TakeChild, TakeUp
        <4>2. k # Genesis
          BY <1>1, <3>2, Zenon DEF BlocksInHand
        <4>3. InHand("body", k) /\ Genesis \notin orphans'
          BY <1>1, <3>1, <4>2, Zenon DEF InHand, BlocksInHand
        <4> QED
          BY Zenon, <1>1, <4>1, <4>3, InHandByTask
      <3>3. CASE k \notin orphans \ processing
        <4>1. UNCHANGED <<pc, blk>>
          BY <2>4, <3>3, Zenon DEF TakeChild
        <4> QED
          BY <1>1, <3>1, <4>1, Zenon DEF BlocksInHand, InHand
      <3> QED
        BY <3>2, <3>3, Zenon
    <2> QED
      BY ZenonT(60), SMTT(60), <1>4, <2>1, <2>2, <2>3, <2>4 DEF Step, KeepingStep
  <1>5. CASE Sweep
    <2>1. UNCHANGED <<pc, blk>>
      BY Zenon, <1>5 DEF Sweep, SweepChildren, SweepRemove, task, loop
    <2>2. PICK gone : orphans' = orphans \ gone
      BY Zenon, <1>5 DEF Sweep, SweepChildren, SweepRemove
    <2> QED
      BY <1>1, <2>1, <2>2 DEF BlocksInHand, InHand
  <1>6. CASE \E b \in Hash : BuildPayload(b)
    BY Zenon, <1>1, <1>6 DEF BuildPayload, task, loop, tree, BlocksInHand, InHand
  <1>7. CASE UNCHANGED vars
    BY Zenon, <1>1, <1>7 DEF vars, task, loop, tree, BlocksInHand, InHand
  <1> QED
    BY ZenonT(60), SMTT(60), <1>2, <1>3, <1>4, <1>5, <1>6, <1>7 DEF Next

\* No block is held invalid without a cause on its chain, and none is barred for good
\* because a caller announced it wrongly: for every block tree, any number of tasks and
\* whatever they announce.
THEOREM MarksHaveCause == Spec => []MarksEarned
  <1>1. Init => MarksSound
    <2> SUFFICES ASSUME Init PROVE MarksSound
      BY Zenon
    <2>1. MarksEarned
      BY Zenon DEF Init, MarksEarned
    <2>2. MarksCaused /\ SweepsCaused /\ ChildrenKeyed
      BY DEF Init, MarksCaused, SweepsCaused, ChildrenKeyed
    <2>3. BlocksInHand
      BY Zenon DEF Init, BlocksInHand, InHand
    <2> QED
      BY <2>1, <2>2, <2>3, Zenon DEF MarksSound
  <1>2. TypeOK /\ MarksSound /\ [Next]_vars => MarksSound'
    BY Zenon, NextEarned, NextCaused, NextInHand, NextKeyed, NextSweeps DEF MarksSound
  <1>3. MarksSound => MarksEarned
    BY Zenon DEF MarksSound
  <1> QED
    BY <1>1, <1>2, <1>3, InitType, NextType, PTL DEF Spec


\* Whether no block of the chain of h was announced with wrong arguments.
WellAnnounced(h) == \A i \in DOMAIN Path[h] : Path[h][i] \notin Misannounced

\* A stored block is not held invalid, at no time after it was imported, unless it or
\* an ancestor came with wrong arguments: the imports and sweeps of other branches
\* never take back what newPayload answered VALID.
THEOREM ValidStaysValid ==
    Spec => [](\A h \in stored : WellAnnounced(h) => invalid[h] = "none")
  <1>1. ASSUME TypeOK, StoredSound, MarksEarned, NEW h \in stored, WellAnnounced(h)
        PROVE  invalid[h] = "none"
    <2>1. stored \subseteq Hash
      BY <1>1, Zenon DEF TypeOK
    <2>2. \A x \in stored : x # Genesis => Parent[x] \in stored
      BY Zenon, <1>1 DEF StoredSound
    <2>3. \A i \in DOMAIN Path[h] : Path[h][i] \in stored
      BY Zenon, <1>1, <2>1, <2>2, PathClosed
    <2>4. ~Tainted(h, 0)
      BY Zenon, <1>1, <2>3 DEF Tainted, StoredSound, WellAnnounced
    <2> QED
      BY Zenon, <1>1, <2>1, <2>4 DEF MarksEarned
  <1>2. TypeOK /\ StoredSound /\ MarksEarned
          => \A h \in stored : WellAnnounced(h) => invalid[h] = "none"
    BY Zenon, <1>1
  <1> QED
    BY <1>2, TypeCorrect, ImportSound, MarksHaveCause, PTL
=============================================================================
