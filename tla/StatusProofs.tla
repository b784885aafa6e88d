---------------------------- MODULE StatusProofs ----------------------------
(***************************************************************************)
(* What ChainManager answers about a block between calls that do not       *)
(* overlap: the status of newPayload and the latest valid hash.            *)
(***************************************************************************)
EXTENDS PayloadProcessorProofs, LatestValid

-----------------------------------------------------------------------------
(* The inductive invariant.                                                *)

\* The block is in the child index, or in the pool or the index.
Indexed(h) == \E i \in DOMAIN children[Parent[h]] : children[Parent[h]][i] = h
Waiting(h) == h \in orphans \/ Indexed(h)

\* The task has stored its block, and goes on to look for the children of p.
Imported(l, r) == l = "clear" \/ (l = "return" /\ r = "VALID")
Awaits(t, p) ==
    \/ blk[t] = p /\ Imported(pc[t], result[t])
    \/ \E i \in DOMAIN parents[t] : parents[t][i] = p

\* Where a call has found that its block is not stored.
Open == {"mismatch", "parentReason", "body", "ancestors", "hasParent", "headers", "stored",
         "elsewhere", "execute", "persist", "buffer", "index"}

\* What waits for its parent is not stored.
WaitingUnstored == \A h \in Hash : Waiting(h) => h \notin stored

\* The index has no entry under a stored block but one that the task will look at.
Drained ==
    \A h \in Hash : Indexed(h) /\ Parent[h] \in stored => \E t \in Tasks : Awaits(t, Parent[h])

\* Of a task at label l with block b, answer r and marks m: its block, once the parent
\* is stored, waits nowhere; it is not stored where the call has looked, and stored
\* once it was imported; and what the task is going to mark is not stored.
BlockAt(l, b, r) ==
    /\ l \notin {"idle", "reval"} /\ Parent[b] \in stored => ~Waiting(b)
    /\ l \in Open => b \notin stored
    /\ Imported(l, r) => b \in stored
    /\ l = "mark" => r # "VALID"
MarksAt(l, m) ==
    /\ \A i \in DOMAIN m : m[i].hash \notin stored
    /\ l # "mark" => m = <<>>

\* The children in hand are of stored blocks, and no longer in the index; so are the
\* parents still to be looked at stored.
ListsAt(ks, ps) ==
    /\ \A i \in DOMAIN ks : Parent[ks[i]] \in stored /\ ~Indexed(ks[i])
    /\ \A i \in DOMAIN ps : ps[i] \in stored

BlocksAt == \A t \in Tasks : BlockAt(pc[t], blk[t], result[t])
MarksOpen == \A t \in Tasks : MarksAt(pc[t], marks[t])
ListsStored == \A t \in Tasks : ListsAt(kids[t], parents[t])

\* A stored block has no mark, once the import that stored it has cleared it.
StoredUnmarked ==
    \A h \in stored : invalid[h] = "none" \/ \E t \in Tasks : pc[t] = "clear" /\ blk[t] = h

\* The builder's blocks are sound.
BuiltSound == \A h \in payloads : Sound(h)

SettledInv ==
    /\ SequentialInv /\ MarksSound /\ Staged /\ StoredSound
    /\ WaitingUnstored /\ Drained /\ BlocksAt /\ MarksOpen /\ ListsStored
    /\ StoredUnmarked /\ BuiltSound

\* Which step it is.
LEMMA OneMoves ==
    ASSUME OneTask, [Next]_vars, NEW t \in Tasks
    PROVE  \/ Step(t)
           \/ \E b \in Hash : HashMismatch(t, b) \/ \E arg \in {"match", "badBlobs"} : Enter(t, b, arg)
           \/ Sweep \/ (\E b \in Hash : BuildPayload(b)) \/ UNCHANGED vars
  <1>1. \A u \in Tasks : u = t
    BY Zenon DEF OneTask
  <1> QED
    BY <1>1, Zenon DEF Next

\* Steps of no task.
LEMMA OthersKeep ==
    ASSUME Sweep \/ (\E b \in Hash : BuildPayload(b)) \/ UNCHANGED vars
    PROVE  UNCHANGED <<stored, pc, blk, marks, result, inReval, kids, parents>>
  BY Zenon DEF Sweep, SweepChildren, SweepRemove, BuildPayload, vars, task, loop

\* Only IndexChild adds to the child index.
LEMMA IndexedWritten ==
    ASSUME TypeOK, [Next]_vars, NEW h \in Hash, Indexed(h)'
    PROVE  Indexed(h) \/ \E t \in Tasks : IndexChild(t) /\ h = blk[t]
  <1> DEFINE p == Parent[h]
             q == children[p]
  <1>0. p \in Hash /\ q \in Seq(Hash)
    BY BlockAssumption, Zenon DEF TypeOK
  <1>1. PICK i \in DOMAIN children'[p] : children'[p][i] = h
    BY Zenon DEF Indexed
  <1>2. CASE UNCHANGED children
    BY <1>1, <1>2, Zenon DEF Indexed
  <1>3. ASSUME NEW t \in Tasks, IndexChild(t) PROVE Indexed(h) \/ h = blk[t]
    <2>1. children' = [children EXCEPT ![Par(t)] = Append(children[Par(t)], blk[t])]
      BY <1>3, Zenon DEF IndexChild
    <2>2. CASE Par(t) # p
      <3>1. children'[p] = children[p]
        BY <1>0, <2>1, <2>2, Zenon DEF TypeOK
      <3> QED
        BY <1>1, <3>1, Zenon DEF Indexed
    <2>3. CASE Par(t) = p
      <3>1. children'[p] = Append(q, blk[t])
        BY <1>0, <2>1, <2>3, Zenon DEF TypeOK
      <3>2. i \in DOMAIN Append(q, blk[t]) /\ Append(q, blk[t])[i] = h
        BY <1>1, <3>1, Zenon
      <3> HIDE DEF q
      <3>3. h = blk[t] \/ (i \in DOMAIN q /\ q[i] = h)
        BY <1>0, <3>2
      <3> QED
        BY <3>3, Zenon DEF Indexed, q
    <2> QED
      BY <2>2, <2>3, Zenon
  <1>4. ASSUME NEW r, children' = [children EXCEPT ![r] = <<>>] PROVE Indexed(h)
    <2>1. CASE r = p
      <3>1. children'[p] = <<>>
        BY <1>0, <1>4, <2>1, Zenon DEF TypeOK
      <3> QED
        BY <1>1, <3>1
    <2>2. CASE r # p
      <3>1. children'[p] = children[p]
        BY <1>0, <1>4, <2>2, Zenon DEF TypeOK
      <3> QED
        BY <1>1, <3>1, Zenon DEF Indexed
    <2> QED
      BY <2>1, <2>2, Zenon
  <1>5. ASSUME NEW t \in Tasks, TakeChildren(t) PROVE Indexed(h)
    BY <1>4, <1>5, Zenon DEF TakeChildren
  <1>6. ASSUME NEW s \in sweeps, SweepChildren(s) PROVE Indexed(h)
    BY <1>4, <1>6, Zenon DEF SweepChildren
  <1> QED
    BY <1>2, <1>3, <1>5, <1>6, ChildrenWritten, Zenon

\* Only BufferBlock adds to the orphan pool.
LEMMA OrphansWritten ==
    ASSUME [Next]_vars
    PROVE  orphans' \subseteq orphans \/ \E t \in Tasks : BufferBlock(t) /\ orphans' = orphans \cup {blk[t]}
  <1>1. ASSUME NEW t \in Tasks, Step(t)
        PROVE  orphans' \subseteq orphans \/ (BufferBlock(t) /\ orphans' = orphans \cup {blk[t]})
    BY <1>1, Zenon
    DEF Step, tree, MarkInvalid, MarkMismatch, RejectCancun, AlreadyStored, CheckKnown,
        CheckParentReason, CheckBody, CheckAncestors, CheckHasParent, CheckHeaders,
        CheckParentStored, CheckParentElsewhere, Execute, Persist, PersistFails, ClearInvalid,
        BufferBlock, IndexChild, ApplyMark, Return, TakeChildren, TakeChild, RevalDone
  <1>2. CASE UNCHANGED vars
    BY <1>2, Zenon DEF vars, tree
  <1>3. ASSUME NEW s \in sweeps, SweepChildren(s) PROVE orphans' \subseteq orphans
    BY <1>3, Zenon DEF SweepChildren
  <1>4. ASSUME NEW s \in sweeps, SweepRemove(s) PROVE orphans' \subseteq orphans
    BY <1>4, Zenon DEF SweepRemove
  <1>5. CASE Sweep
    BY <1>3, <1>4, <1>5, Zenon DEF Sweep
  <1>6. ASSUME NEW t \in Tasks, NEW b \in Hash,
               HashMismatch(t, b) \/ \E arg \in {"match", "badBlobs"} : Enter(t, b, arg)
        PROVE  orphans' \subseteq orphans
    BY <1>6, Zenon DEF HashMismatch, Enter, tree
  <1>7. ASSUME NEW b \in Hash, BuildPayload(b) PROVE orphans' \subseteq orphans
    BY <1>7, Zenon DEF BuildPayload, tree
  <1> QED
    BY <1>1, <1>2, <1>5, <1>6, <1>7, Zenon DEF Next

\* So only the two halves of add_orphan make a block wait.
LEMMA WaitingWritten ==
    ASSUME TypeOK, [Next]_vars, NEW h \in Hash, Waiting(h)'
    PROVE  Waiting(h) \/ \E t \in Tasks : (BufferBlock(t) \/ IndexChild(t)) /\ h = blk[t]
  BY IndexedWritten, OrphansWritten, Zenon DEF Waiting

\* What a task stores waited nowhere, and what it makes wait is not stored.
LEMMA NextWaiting ==
    ASSUME SettledInv, [Next]_vars
    PROVE  WaitingUnstored'
  <1> SUFFICES ASSUME NEW h \in Hash, Waiting(h)', h \in stored' PROVE FALSE
    BY Zenon DEF WaitingUnstored
  <1>1. TypeOK
    BY Zenon DEF SettledInv, SequentialInv
  <1>2. ASSUME NEW t \in Tasks, pc[t] \in Open PROVE blk[t] \notin stored
    BY <1>2, Zenon DEF SettledInv, BlocksAt, BlockAt
  <1>3. CASE stored' = stored
    <2>1. CASE Waiting(h)
      BY <1>3, <2>1, Zenon DEF SettledInv, WaitingUnstored
    <2>2. ASSUME NEW t \in Tasks, BufferBlock(t) \/ IndexChild(t), h = blk[t] PROVE FALSE
      <3>1. pc[t] \in Open
        BY <2>2, Zenon DEF BufferBlock, IndexChild, At, Open
      <3> QED
        BY <1>2, <1>3, <2>2, <3>1, Zenon
    <2> QED
      BY <1>1, <2>1, <2>2, WaitingWritten, Zenon
  <1>4. ASSUME NEW t \in Tasks, Persist(t) PROVE FALSE
    <2>1. pc[t] = "persist" /\ stored' = stored \cup {blk[t]} /\ UNCHANGED <<orphans, children>>
      BY <1>4, Zenon DEF Persist, At, tree
    <2>2. Waiting(h)
      BY <2>1, Zenon DEF Waiting, Indexed
    <2>3. h = blk[t]
      BY <2>1, <2>2, Zenon DEF SettledInv, WaitingUnstored
    <2>4. Parent[blk[t]] \in stored
      BY <2>1, Zenon DEF SettledInv, Staged, StageOf
    <2> QED
      BY <2>1, <2>2, <2>3, <2>4, Zenon DEF SettledInv, BlocksAt, BlockAt
  <1> QED
    BY <1>3, <1>4, NextStored, Zenon

\* A task goes on to look for the children of p, unless it has just taken them.
LEMMA AwaitsKept ==
    ASSUME TypeOK, NEW t \in Tasks, NEW p \in Hash, Awaits(t, p), Step(t)
    PROVE  Awaits(t, p)' \/ children'[p] = <<>>
  <1> DEFINE q == parents[t]
  <1>0. q \in Seq(Hash) /\ blk[t] \in Hash
    BY Zenon DEF TypeOK
  <1>1. ASSUME UNCHANGED parents, ~Imported(pc[t], result[t]) PROVE Awaits(t, p)'
    BY <1>1, Zenon DEF Awaits
  <1>2. CASE CheckStep(t)
    BY <1>1, <1>2, CheckStepKeeps, Zenon DEF Imported
  <1>3. CASE Persist(t) \/ ClearInvalid(t)
    <2>1. UNCHANGED <<blk, parents>>
      BY <1>3, Zenon DEF Persist, ClearInvalid, Goto, Finish, loop
    <2>2. Imported(pc[t], result[t])'
      BY <1>3, Zenon DEF Persist, ClearInvalid, Goto, Finish, TypeOK, Imported
    <2> QED
      BY <2>1, <2>2, Zenon DEF Awaits
  <1>4. CASE BufferBlock(t) \/ IndexChild(t) \/ MarkMismatch(t) \/ AlreadyStored(t) \/ RevalDone(t) \/ TakeChild(t)
    <2>1. UNCHANGED parents /\ pc[t] \notin {"clear", "return"}
      BY <1>4, Zenon DEF BufferBlock, IndexChild, MarkMismatch, AlreadyStored, RevalDone, TakeChild,
                         Goto, Finish, TakeUp, At, loop
    <2> QED
      BY <1>1, <2>1, Zenon DEF Imported
  <1>5. CASE Return(t)
    <2>1. pc[t] = "return" /\ parents' = [parents EXCEPT ![t] = IF result[t] = "VALID" THEN Append(q, blk[t]) ELSE q]
      BY <1>5, Zenon DEF Return, At
    <2>2. parents'[t] = IF result[t] = "VALID" THEN Append(q, blk[t]) ELSE q
      BY <2>1, Zenon DEF TypeOK
    <2>3. (blk[t] = p /\ result[t] = "VALID") \/ \E i \in DOMAIN q : q[i] = p
      BY <2>1, Zenon DEF Awaits, Imported
    <2> HIDE DEF q
    <2>4. /\ Len(q) + 1 \in DOMAIN Append(q, blk[t]) /\ Append(q, blk[t])[Len(q) + 1] = blk[t]
          /\ \A i \in DOMAIN q : i \in DOMAIN Append(q, blk[t]) /\ Append(q, blk[t])[i] = q[i]
      BY <1>0
    <2> QED
      BY <2>2, <2>3, <2>4, Zenon DEF Awaits
  <1>6. CASE TakeChildren(t)
    <2> DEFINE last == q[Len(q)]
    <2>1. /\ pc[t] = "reval" /\ children' = [children EXCEPT ![last] = <<>>]
          /\ parents' = [parents EXCEPT ![t] = SubSeq(q, 1, Len(q) - 1)]
      BY <1>6, Zenon DEF TakeChildren, At
    <2>2. parents'[t] = SubSeq(q, 1, Len(q) - 1)
      BY <2>1, Zenon DEF TypeOK
    <2>3. PICK i \in DOMAIN q : q[i] = p
      BY <2>1, Zenon DEF Awaits, Imported
    <2>4. CASE p = last
      BY <2>1, <2>4, Zenon DEF TypeOK
    <2>5. CASE p # last
      <3> HIDE DEF q
      <3>1. i \in DOMAIN SubSeq(q, 1, Len(q) - 1) /\ SubSeq(q, 1, Len(q) - 1)[i] = p
        <4>1. i \in 1 .. Len(q) - 1
          BY <1>0, <2>3, <2>5
        <4> QED
          BY <1>0, <2>3, <4>1
      <3> QED
        BY <2>2, <3>1, Zenon DEF Awaits
    <2> QED
      BY <2>4, <2>5, Zenon
  <1> QED
    BY <1>2, <1>3, <1>4, <1>5, <1>6, Zenon DEF Step, CheckStep

\* The task looks for the children of whatever it stores, and nobody indexes a block
\* whose parent is stored.
LEMMA NextDrained ==
    ASSUME OneTask, SettledInv, [Next]_vars
    PROVE  Drained'
  <1> SUFFICES ASSUME NEW h \in Hash, Indexed(h)', Parent[h] \in stored'
               PROVE  \E t \in Tasks : Awaits(t, Parent[h])'
    BY Zenon DEF Drained
  <1>1. TypeOK /\ Parent[h] \in Hash
    BY BlockAssumption, Zenon DEF SettledInv, SequentialInv
  <1>2. CASE Indexed(h) /\ Parent[h] \in stored
    <2>1. PICK t \in Tasks : Awaits(t, Parent[h])
      BY <1>2, Zenon DEF SettledInv, Drained
    <2>2. CASE Step(t)
      <3>1. CASE children'[Parent[h]] = <<>>
        BY <3>1 DEF Indexed
      <3> QED
        BY <1>1, <2>1, <2>2, <3>1, AwaitsKept, Zenon
    <2>3. ASSUME NEW b \in Hash, HashMismatch(t, b) \/ \E arg \in {"match", "badBlobs"} : Enter(t, b, arg)
          PROVE  Awaits(t, Parent[h])'
      <3>1. pc[t] = "idle" /\ UNCHANGED parents
        BY <2>3, Zenon DEF HashMismatch, Enter, TakeUp, At
      <3> QED
        BY <2>1, <3>1, Zenon DEF Awaits, Imported
    <2>4. CASE Sweep \/ (\E b \in Hash : BuildPayload(b)) \/ UNCHANGED vars
      BY <2>1, <2>4, OthersKeep, Zenon DEF Awaits
    <2> QED
      BY <2>2, <2>3, <2>4, OneMoves, Zenon
  <1>3. CASE Parent[h] \notin stored
    <2>1. PICK t \in Tasks : Persist(t)
      BY <1>3, NextStored, Zenon
    <2>2. blk[t] = Parent[h] /\ UNCHANGED blk
      BY <1>3, <2>1, Zenon DEF Persist, Goto, loop
    <2>3. pc'[t] = "clear"
      BY <1>1, <2>1, Zenon DEF Persist, Goto, TypeOK
    <2> QED
      BY <2>2, <2>3, Zenon DEF Awaits, Imported
  <1>4. ASSUME NEW t \in Tasks, IndexChild(t), h = blk[t] PROVE FALSE
    <2>1. pc[t] = "index" /\ UNCHANGED stored
      BY <1>4, Zenon DEF IndexChild, At
    <2>2. Parent[h] \notin stored
      BY <1>4, <2>1, Zenon DEF SettledInv, SequentialInv, Shaped, Shape
    <2> QED
      BY <2>1, <2>2, Zenon
  <1> QED
    BY <1>1, <1>2, <1>3, <1>4, IndexedWritten, Zenon

\* While its task is at work on it, a block whose parent is stored waits nowhere.
LEMMA BlockQuiet ==
    ASSUME OneTask, SettledInv, [Next]_vars, NEW t \in Tasks, pc[t] \notin {"idle", "reval"},
           NEW b, b = blk[t], Parent[b] \in stored', Waiting(b)'
    PROVE  FALSE
  <1>1. TypeOK /\ b \in Hash
    BY Zenon DEF SettledInv, SequentialInv, TypeOK
  <1>2. Parent[b] \in stored => ~Waiting(b)
    BY Zenon DEF SettledInv, BlocksAt, BlockAt
  <1>3. ASSUME NEW u \in Tasks, BufferBlock(u) \/ IndexChild(u), b = blk[u] PROVE FALSE
    <2>1. pc[u] \in {"buffer", "index"} /\ UNCHANGED stored
      BY <1>3, Zenon DEF BufferBlock, IndexChild, At
    <2>2. Parent[blk[u]] \notin stored
      BY <2>1, Zenon DEF SettledInv, SequentialInv, Shaped, Shape
    <2> QED
      BY <1>3, <2>1, <2>2, Zenon
  <1>4. ASSUME NEW u \in Tasks, Persist(u) PROVE Parent[b] \in stored
    <2>1. u = t /\ pc[u] = "persist"
      BY <1>4, Zenon DEF OneTask, Persist, At
    <2> QED
      BY <2>1, Zenon DEF SettledInv, Staged, StageOf
  <1>5. Parent[b] \in stored
    BY <1>4, NextStored, Zenon
  <1> QED
    BY <1>1, <1>2, <1>3, <1>5, WaitingWritten, Zenon

\* A check moves on from where it has found the block not stored, or finds so, and does
\* not import it.
LEMMA CheckStepStays ==
    ASSUME TypeOK, NEW t \in Tasks, CheckStep(t), pc[t] = "mark" => result[t] # "VALID"
    PROVE  /\ pc[t] \notin {"idle", "mismatch", "reval"}
           /\ pc'[t] \in Open => pc[t] \in Open \/ blk[t] \notin stored
           /\ ~Imported(pc'[t], result'[t])
           /\ pc'[t] = "mark" => result'[t] # "VALID"
  <1>1. /\ \A l : pc' = [pc EXCEPT ![t] = l] => pc'[t] = l
        /\ \A l : result' = [result EXCEPT ![t] = l] => result'[t] = l
    BY Zenon DEF TypeOK
  <1> DEFINE Goes(l) == Goto(t, l)
             Ends == Finish(t, "INVALID") \/ Finish(t, "SYNCING") \/ Finish(t, "ERROR")
             Rejects == \E m : Reject(t, m)
  <1>2. CASE Ends
    <2>1. pc'[t] = "return" /\ result'[t] # "VALID"
      BY <1>1, <1>2, Zenon DEF Finish
    <2>2. CheckStep(t) => pc[t] \notin {"idle", "mismatch", "reval"}
      BY Zenon DEF CheckStep, RejectCancun, CheckKnown, CheckParentReason, CheckBody, CheckAncestors,
                   CheckHasParent, CheckHeaders, CheckParentStored, CheckParentElsewhere, Execute,
                   PersistFails, ApplyMark, At
    <2> QED
      BY <2>1, <2>2, Zenon DEF Open, Imported
  <1>3. CASE Rejects
    <2>1. pc'[t] = "mark" /\ result'[t] = "INVALID"
      BY <1>1, <1>3, Zenon DEF Reject
    <2>2. CheckStep(t) => pc[t] \notin {"idle", "mismatch", "reval"}
      BY Zenon DEF CheckStep, RejectCancun, CheckKnown, CheckParentReason, CheckBody, CheckAncestors,
                   CheckHasParent, CheckHeaders, CheckParentStored, CheckParentElsewhere, Execute,
                   PersistFails, ApplyMark, At
    <2> QED
      BY <2>1, <2>2, Zenon DEF Open, Imported
  <1>4. ASSUME NEW l \in Open, Goes(l), pc[t] \in Open \/ (pc[t] = "known" /\ blk[t] \notin stored),
               pc[t] # "mismatch"
        PROVE  /\ pc[t] \notin {"idle", "mismatch", "reval"}
               /\ pc'[t] \in Open => pc[t] \in Open \/ blk[t] \notin stored
               /\ ~Imported(pc'[t], result'[t])
               /\ pc'[t] = "mark" => result'[t] # "VALID"
    <2>1. pc'[t] = l
      BY <1>1, <1>4, Zenon DEF Goto
    <2> QED
      BY <1>4, <2>1, Zenon DEF Open, Imported
  <1>5. CASE ApplyMark(t)
    <2>1. /\ pc[t] = "mark" /\ pc' = [pc EXCEPT ![t] = IF Len(marks[t]) = 1 THEN "return" ELSE pc[t]]
          /\ UNCHANGED result
      BY <1>5, Zenon DEF ApplyMark, At
    <2>2. pc'[t] \in {"return", "mark"}
      BY <1>1, <2>1, Zenon
    <2> QED
      BY <2>1, <2>2, Zenon DEF Open, Imported
  <1>6. CASE RejectCancun(t) \/ PersistFails(t)
    BY <1>2, <1>3, <1>6, Zenon DEF RejectCancun, PersistFails, RejectSelf
  <1>7. CASE CheckKnown(t)
    BY <1>2, <1>4, <1>7, Zenon DEF CheckKnown, At, Open
  <1>8. CASE CheckParentReason(t) \/ CheckAncestors(t) \/ Execute(t)
    BY <1>3, <1>4, <1>8, Zenon DEF CheckParentReason, CheckAncestors, Execute, RejectSelf, At, Open
  <1>9. CASE CheckBody(t)
    BY <1>2, <1>3, <1>4, <1>9, Zenon DEF CheckBody, RejectSelf, At, Open
  <1>10. CASE CheckHasParent(t)
    BY <1>4, <1>10, Zenon DEF CheckHasParent, At, Open
  <1>11. CASE CheckHeaders(t)
    <2>1. pc[t] = "headers" /\ (Goes("stored") \/ Rejects)
      BY <1>11, Zenon DEF CheckHeaders, At
    <2> QED
      BY <1>3, <1>4, <2>1, Zenon DEF Open
  <1>12. CASE CheckParentStored(t)
    BY <1>3, <1>4, <1>12, Zenon DEF CheckParentStored, RejectSelf, At, Open
  <1>13. CASE CheckParentElsewhere(t)
    BY <1>2, <1>3, <1>4, <1>13, Zenon DEF CheckParentElsewhere, RejectSelf, At, Open
  <1> HIDE DEF Goes, Ends, Rejects
  <1> QED
    BY <1>5, <1>6, <1>7, <1>8, <1>9, <1>10, <1>11, <1>12, <1>13, Zenon DEF CheckStep

\* Calls that begin: with no call in flight nothing waits for a stored parent.
LEMMA IdleDrained ==
    ASSUME OneTask, SettledInv, NEW t \in Tasks, pc[t] = "idle", NEW b \in Hash, Parent[b] \in stored
    PROVE  ~Waiting(b)
  <1>1. kids[t] = <<>> /\ parents[t] = <<>>
    BY Zenon DEF SettledInv, SequentialInv, Shaped, Shape
  <1>2. ~Awaits(t, Parent[b]) /\ ~Pursues(t, b)
    BY <1>1 DEF Awaits, Imported, Pursues
  <1>3. \A u \in Tasks : u = t
    BY Zenon DEF OneTask
  <1>4. ~Indexed(b)
    BY <1>2, <1>3, Zenon DEF SettledInv, Drained
  <1>5. b \notin orphans
    BY <1>2, <1>3, Zenon DEF SettledInv, SequentialInv, Pursued
  <1> QED
    BY <1>4, <1>5, Zenon DEF Waiting

\* Every step keeps what a task knows of its block.
LEMMA NextBlocks ==
    ASSUME OneTask, SettledInv, [Next]_vars
    PROVE  BlocksAt'
  <1> SUFFICES ASSUME NEW t \in Tasks PROVE BlockAt(pc[t], blk[t], result[t])'
    BY Zenon DEF BlocksAt
  <1>0. TypeOK /\ blk[t] \in Hash
    BY Zenon DEF SettledInv, SequentialInv, TypeOK
  <1>1. BlockAt(pc[t], blk[t], result[t])
    BY Zenon DEF SettledInv, BlocksAt
  <1>2. /\ \A l : pc' = [pc EXCEPT ![t] = l] => pc'[t] = l
        /\ \A l : result' = [result EXCEPT ![t] = l] => result'[t] = l
        /\ \A l : blk' = [blk EXCEPT ![t] = l] => blk'[t] = l
    BY <1>0, Zenon DEF TypeOK
  <1>3. CASE UNCHANGED blk /\ pc[t] \notin {"idle", "reval"}
             /\ (pc'[t] \in Open => blk[t] \notin stored') /\ (Imported(pc'[t], result'[t]) => blk[t] \in stored')
             /\ (pc'[t] = "mark" => result'[t] # "VALID")
    <2>1. blk'[t] = blk[t]
      BY <1>3, Zenon
    <2>2. Parent[blk'[t]] \in stored' => ~Waiting(blk[t])'
      BY <1>3, <2>1, BlockQuiet, Zenon
    <2> QED
      BY <1>3, <2>1, <2>2, Zenon DEF BlockAt
  <1>4. CASE pc'[t] \in {"idle", "reval"}
    BY <1>4, Zenon DEF BlockAt, Open, Imported
  <1>5. CASE CheckStep(t)
    <2>1. UNCHANGED <<stored, blk>>
      BY <1>5, CheckStepKeeps, Zenon
    <2> QED
      BY <1>0, <1>1, <1>3, <1>5, <2>1, CheckStepStays, Zenon DEF BlockAt
  <1>6. CASE Persist(t)
    <2>1. pc[t] = "persist" /\ pc'[t] = "clear" /\ UNCHANGED blk /\ blk[t] \in stored'
      BY <1>2, <1>6, Zenon DEF Persist, Goto, At, loop
    <2> QED
      BY <1>3, <2>1, Zenon DEF Open
  <1>7. CASE ClearInvalid(t)
    <2>1. pc[t] = "clear" /\ pc'[t] = "return" /\ UNCHANGED <<blk, stored>>
      BY <1>2, <1>7, Zenon DEF ClearInvalid, Finish, At, loop
    <2>2. blk[t] \in stored
      BY <1>1, <2>1, Zenon DEF BlockAt, Imported
    <2> QED
      BY <1>3, <2>1, <2>2, Zenon DEF Open
  <1>8. CASE BufferBlock(t)
    <2>1. pc[t] = "buffer" /\ pc'[t] = "index" /\ UNCHANGED <<blk, stored>>
      BY <1>2, <1>8, Zenon DEF BufferBlock, Goto, At, loop
    <2>2. blk[t] \notin stored
      BY <1>1, <2>1, Zenon DEF BlockAt, Open
    <2> QED
      BY <1>3, <2>1, <2>2, Zenon DEF Imported
  <1>9. CASE IndexChild(t)
    <2>1. pc[t] = "index" /\ pc'[t] = "return" /\ result'[t] = "ACCEPTED" /\ UNCHANGED blk
      BY <1>2, <1>9, Zenon DEF IndexChild, Finish, At, loop
    <2> QED
      BY <1>3, <2>1, Zenon DEF Imported, Open
  <1>10. CASE MarkMismatch(t) \/ AlreadyStored(t) \/ Return(t) \/ RevalDone(t)
    <2>1. Leave(t, "idle") \/ Leave(t, "reval")
      BY <1>10, Zenon DEF MarkMismatch, AlreadyStored, Return, RevalDone
    <2> QED
      BY <1>2, <1>4, <2>1, Zenon DEF Leave
  <1>11. CASE TakeChildren(t)
    BY <1>4, <1>11, Zenon DEF TakeChildren, At
  <1>12. CASE TakeChild(t)
    <2> DEFINE k == Head(kids[t])
    <2>1. CASE k \notin orphans \ processing
      BY <1>4, <1>12, <2>1, Zenon DEF TakeChild, At
    <2>2. CASE k \in orphans \ processing
      <3>1. /\ pc'[t] = "body" /\ blk'[t] = k /\ orphans' = orphans \ {k}
            /\ UNCHANGED <<stored, children>>
        BY <1>2, <1>12, <2>2, Zenon DEF TakeChild, TakeUp
      <3>2. k \in Hash /\ k \notin stored
        BY <1>0, <2>2, Zenon DEF SettledInv, WaitingUnstored, Waiting, TypeOK
      <3>3. kids[t] \in Seq(Hash) /\ kids[t] # <<>>
        BY <1>0, <1>12, Zenon DEF TakeChild, TypeOK
      <3>4. 1 \in DOMAIN kids[t] /\ k = kids[t][1]
        BY <3>3
      <3>5. ~Indexed(k)
        BY <3>4, Zenon DEF SettledInv, ListsStored, ListsAt
      <3> HIDE DEF k
      <3>6. ~Waiting(blk[t])'
        BY <3>1, <3>5, Zenon DEF Waiting, Indexed
      <3> QED
        BY <3>1, <3>2, <3>6, Zenon DEF BlockAt, Imported
    <2> QED
      BY <2>1, <2>2, Zenon
  <1>13. ASSUME NEW b \in Hash, HashMismatch(t, b) \/ \E arg \in {"match", "badBlobs"} : Enter(t, b, arg)
         PROVE  BlockAt(pc[t], blk[t], result[t])'
    <2>1. /\ pc[t] = "idle" /\ UNCHANGED <<stored, orphans, children>> /\ blk'[t] = b
          /\ pc'[t] \in {"known", "badBlobs"} \/ (pc'[t] = "mismatch" /\ b \notin stored)
      BY <1>2, <1>13, Zenon DEF HashMismatch, Enter, TakeUp, At, tree
    <2>2. Parent[b] \in stored => ~Waiting(b)
      BY <2>1, IdleDrained, Zenon
    <2>3. Parent[b] \in stored' => ~Waiting(blk[t])'
      BY <2>1, <2>2, Zenon DEF Waiting, Indexed
    <2> QED
      BY <2>1, <2>3, Zenon DEF BlockAt, Open, Imported
  <1>14. CASE Sweep \/ (\E b \in Hash : BuildPayload(b)) \/ UNCHANGED vars
    <2>1. UNCHANGED <<stored, pc, blk, result>>
      BY <1>14, OthersKeep, Zenon
    <2>2. CASE pc[t] \notin {"idle", "reval"}
      BY <1>1, <1>3, <2>1, <2>2, Zenon DEF BlockAt
    <2> QED
      BY <1>4, <2>1, <2>2, Zenon
  <1>15. CASE Step(t)
    BY <1>5, <1>6, <1>7, <1>8, <1>9, <1>10, <1>11, <1>12, <1>15, Zenon DEF Step, CheckStep
  <1> QED
    BY <1>13, <1>14, <1>15, OneMoves, Zenon

\* The ancestor that CheckHeaders rejects is not stored: a stored one fits its parent,
\* and its parent is stored and has no mark.
LEMMA BadAncestorUnstored ==
    ASSUME OneTask, SettledInv, NEW t \in Tasks, pc[t] = "headers", NEW p \in Hash, NEW i \in BadAncestors(p)
    PROVE  Path[p][i] \notin stored
  <1> DEFINE c == Path[p][i]
  <1>1. i \in 1 .. Len(Path[p]) - 1 /\ (invalid[Path[p][i + 1]] # "none" \/ Defect[c] = "header")
    BY Zenon DEF BadAncestors
  <1>2. c \in Hash /\ c # Genesis /\ Parent[c] = Path[p][i + 1]
    BY <1>1, PathParent, Zenon
  <1> HIDE DEF c
  <1> SUFFICES ASSUME c \in stored PROVE FALSE
    BY Zenon DEF c
  <1>3. Defect[c] = "none" /\ Parent[c] \in stored
    BY <1>2, Zenon DEF SettledInv, StoredSound
  <1>4. invalid[Parent[c]] = "none"
    <2>1. \A u \in Tasks : pc[u] # "clear"
      BY Zenon DEF OneTask
    <2> QED
      BY <1>3, <2>1, Zenon DEF SettledInv, StoredUnmarked
  <1> QED
    BY <1>1, <1>2, <1>3, <1>4, Zenon

\* No step decides to mark a stored block.
LEMMA NextMarksOpen ==
    ASSUME OneTask, SettledInv, [Next]_vars
    PROVE  MarksOpen'
  <1> SUFFICES ASSUME NEW t \in Tasks PROVE MarksAt(pc[t], marks[t])'
    BY Zenon DEF MarksOpen
  <1>0. TypeOK /\ blk[t] \in Hash /\ Par(t) \in Hash
    BY BlockAssumption, Zenon DEF SettledInv, SequentialInv, TypeOK, Par
  <1>1. MarksAt(pc[t], marks[t])
    BY Zenon DEF SettledInv, MarksOpen
  <1>2. /\ \A l : pc' = [pc EXCEPT ![t] = l] => pc'[t] = l
        /\ \A l : marks' = [marks EXCEPT ![t] = l] => marks'[t] = l
    BY <1>0, Zenon DEF TypeOK
  <1>3. pc[t] \in Open => blk[t] \notin stored
    BY Zenon DEF SettledInv, BlocksAt, BlockAt
  <1>4. CASE UNCHANGED marks /\ pc[t] # "mark"
    <2>1. marks'[t] = <<>>
      BY <1>1, <1>4, Zenon DEF MarksAt
    <2> QED
      BY <2>1 DEF MarksAt
  <1>5. CASE UNCHANGED <<marks, pc, stored>>
    BY <1>1, <1>5, Zenon DEF MarksAt
  <1>6. ASSUME NEW m \in Seq(Marks), Reject(t, m), UNCHANGED stored, \A i \in DOMAIN m : m[i].hash \notin stored
        PROVE  MarksAt(pc[t], marks[t])'
    <2>1. pc'[t] = "mark" /\ marks'[t] = m
      BY <1>2, <1>6, Zenon DEF Reject
    <2> QED
      BY <1>6, <2>1, Zenon DEF MarksAt
  <1>7. ASSUME NEW r, NEW a, RejectSelf(t, r, a), UNCHANGED stored, blk[t] \notin stored
        PROVE  MarksAt(pc[t], marks[t])'
    <2> DEFINE m == <<MarkOf(blk[t], r, a)>>
    <2>1. DOMAIN m = {1} /\ m[1].hash = blk[t]
      BY DEF MarkOf
    <2>2. pc'[t] = "mark" /\ marks'[t] = m
      BY <1>2, <1>7, Zenon DEF RejectSelf, Reject
    <2> HIDE DEF m
    <2> QED
      BY <1>7, <2>1, <2>2, Zenon DEF MarksAt
  <1>8. CASE ApplyMark(t)
    <2> DEFINE q == marks[t]
    <2>1. /\ q # <<>> /\ marks'[t] = Tail(q) /\ pc'[t] = (IF Len(q) = 1 THEN "return" ELSE pc[t]) /\ pc[t] = "mark"
          /\ UNCHANGED stored
      BY <1>2, <1>8, Zenon DEF ApplyMark, At
    <2>2. q \in Seq(Marks) /\ \A i \in DOMAIN q : q[i].hash \notin stored
      BY <1>0, <1>1, Zenon DEF TypeOK, MarksAt
    <2> HIDE DEF q
    <2>3. /\ \A i \in DOMAIN Tail(q) : i + 1 \in DOMAIN q /\ Tail(q)[i] = q[i + 1]
          /\ Len(q) = 1 => Tail(q) = <<>>
      BY <2>1, <2>2
    <2>4. \A i \in DOMAIN Tail(q) : Tail(q)[i].hash \notin stored
      BY <2>2, <2>3, Zenon
    <2> QED
      BY <2>1, <2>3, <2>4, Zenon DEF MarksAt
  <1>9. CASE RejectCancun(t)
    <2>1. pc[t] = "badBlobs" /\ UNCHANGED stored
      BY <1>9, Zenon DEF RejectCancun, At
    <2> QED
      BY <1>4, <1>7, <1>9, <2>1, Zenon DEF RejectCancun, Finish
  <1>10. CASE CheckHeaders(t) /\ ~Goto(t, "stored")
    <2>1. pc[t] = "headers" /\ UNCHANGED stored
      BY <1>10, Zenon DEF CheckHeaders, At
    <2>2. PICK i \in BadAncestors(Par(t)), a \in {"sweep", "nothing"} :
             Reject(t, <<MarkOf(Path[Par(t)][i], "Hard", a), MarkOf(blk[t], "Hard", "sweep")>>)
      BY <1>10, Zenon DEF CheckHeaders
    <2>3. Path[Par(t)][i] \notin stored /\ blk[t] \notin stored
      BY <1>0, <1>3, <2>1, BadAncestorUnstored, Zenon DEF Open
    <2> DEFINE c == Path[Par(t)][i]
               m == <<MarkOf(c, "Hard", a), MarkOf(blk[t], "Hard", "sweep")>>
    <2>4. pc'[t] = "mark" /\ marks'[t] = m
      BY <1>2, <2>2, Zenon DEF Reject
    <2> HIDE DEF c
    <2>5. DOMAIN m = {1, 2} /\ m[1].hash = c /\ m[2].hash = blk[t]
      BY DEF MarkOf
    <2> HIDE DEF m
    <2> QED
      BY <2>1, <2>3, <2>4, <2>5, Zenon DEF MarksAt, c
  <1>11. CASE CheckBody(t)
    <2>1. pc[t] = "body" /\ UNCHANGED stored
      BY <1>11, Zenon DEF CheckBody, At
    <2> QED
      BY <1>4, <1>7, <1>11, <2>1, Zenon DEF CheckBody, Finish, Goto
  <1>12. CASE CheckParentReason(t) \/ CheckAncestors(t) \/ CheckParentStored(t) \/ CheckParentElsewhere(t) \/ Execute(t)
    <2>1. pc[t] \in {"parentReason", "ancestors", "stored", "elsewhere", "execute"} /\ UNCHANGED stored
      BY <1>12, Zenon DEF CheckParentReason, CheckAncestors, CheckParentStored, CheckParentElsewhere, Execute, At
    <2>2. blk[t] \notin stored /\ pc[t] # "mark"
      BY <1>3, <2>1, Zenon DEF Open
    <2>3. UNCHANGED marks \/ \E r, a : RejectSelf(t, r, a)
      BY <1>12, Zenon DEF CheckParentReason, CheckAncestors, CheckParentStored, CheckParentElsewhere, Execute, Goto, Finish
    <2> QED
      BY <1>4, <1>7, <2>1, <2>2, <2>3, Zenon
  <1>13. CASE CheckKnown(t) \/ CheckHasParent(t) \/ PersistFails(t) \/ Persist(t) \/ ClearInvalid(t)
              \/ BufferBlock(t) \/ IndexChild(t) \/ (CheckHeaders(t) /\ Goto(t, "stored"))
    <2>1. UNCHANGED marks /\ pc[t] # "mark"
      BY <1>13, Zenon DEF CheckKnown, CheckHasParent, PersistFails, Persist, ClearInvalid, BufferBlock, IndexChild,
                          CheckHeaders, Goto, Finish, At
    <2> QED
      BY <1>4, <2>1, Zenon
  <1>14. CASE MarkMismatch(t) \/ AlreadyStored(t) \/ Return(t) \/ RevalDone(t) \/ TakeChildren(t) \/ TakeChild(t)
    <2>1. UNCHANGED marks /\ pc[t] # "mark"
      BY <1>14, Zenon DEF MarkMismatch, AlreadyStored, Return, RevalDone, TakeChildren, TakeChild, TakeUp, Leave, At
    <2> QED
      BY <1>4, <2>1, Zenon
  <1>15. ASSUME NEW b \in Hash, HashMismatch(t, b) \/ \E arg \in {"match", "badBlobs"} : Enter(t, b, arg)
         PROVE  MarksAt(pc[t], marks[t])'
    <2>1. UNCHANGED marks /\ pc[t] # "mark"
      BY <1>15, Zenon DEF HashMismatch, Enter, TakeUp, At
    <2> QED
      BY <1>4, <2>1, Zenon
  <1>16. CASE Sweep \/ (\E b \in Hash : BuildPayload(b)) \/ UNCHANGED vars
    BY <1>5, <1>16, OthersKeep, Zenon
  <1>17. CASE Step(t)
    BY <1>8, <1>9, <1>10, <1>11, <1>12, <1>13, <1>14, <1>17, Zenon DEF Step
  <1> QED
    BY <1>15, <1>16, <1>17, OneMoves, Zenon

\* Every step keeps the lists of the revalidation on blocks it has to look at.
LEMMA NextLists ==
    ASSUME OneTask, SettledInv, [Next]_vars
    PROVE  ListsStored'
  <1> SUFFICES ASSUME NEW t \in Tasks PROVE ListsAt(kids[t], parents[t])'
    BY Zenon DEF ListsStored
  <1>0. TypeOK /\ blk[t] \in Hash /\ kids[t] \in Seq(Hash) /\ parents[t] \in Seq(Hash)
    BY Zenon DEF SettledInv, SequentialInv, TypeOK
  <1>1. ListsAt(kids[t], parents[t])
    BY Zenon DEF SettledInv, ListsStored
  <1>2. stored \subseteq stored'
    BY NextStored, Zenon DEF Persist
  <1>3. ASSUME NEW k \in Hash, Parent[k] \in stored, ~Indexed(k) PROVE ~Indexed(k)'
    <2>1. ASSUME NEW u \in Tasks, IndexChild(u) PROVE k # blk[u]
      <3>1. pc[u] = "index"
        BY <2>1, Zenon DEF IndexChild, At
      <3> QED
        BY <1>3, <3>1, Zenon DEF SettledInv, SequentialInv, Shaped, Shape
    <2> QED
      BY <1>0, <1>3, <2>1, IndexedWritten, Zenon
  <1>4. \A i \in DOMAIN kids[t] : kids[t][i] \in Hash
    BY <1>0
  <1>5. ASSUME NEW ks, NEW ps, kids'[t] = ks, parents'[t] = ps,
               \A i \in DOMAIN ks : \E j \in DOMAIN kids[t] : ks[i] = kids[t][j],
               \A i \in DOMAIN ps : ps[i] \in stored
        PROVE  ListsAt(kids[t], parents[t])'
    <2>1. ASSUME NEW i \in DOMAIN ks PROVE Parent[ks[i]] \in stored' /\ ~Indexed(ks[i])'
      <3>1. PICK j \in DOMAIN kids[t] : ks[i] = kids[t][j]
        BY <1>5, Zenon
      <3>2. ks[i] \in Hash /\ Parent[ks[i]] \in stored /\ ~Indexed(ks[i])
        BY <1>1, <1>4, <3>1, Zenon DEF ListsAt
      <3> QED
        BY <1>2, <1>3, <3>2, Zenon
    <2> QED
      BY <1>2, <1>5, <2>1, Zenon DEF ListsAt
  <1>6. ASSUME kids'[t] = kids[t], parents'[t] = parents[t] PROVE ListsAt(kids[t], parents[t])'
    <2>1. \A i \in DOMAIN parents[t] : parents[t][i] \in stored
      BY <1>1, Zenon DEF ListsAt
    <2> QED
      BY <1>5, <1>6, <2>1, Zenon
  <1>7. CASE Return(t)
    <2> DEFINE q == parents[t]
               r == IF result[t] = "VALID" THEN Append(q, blk[t]) ELSE q
    <2>1. pc[t] = "return" /\ UNCHANGED kids /\ parents' = [parents EXCEPT ![t] = r]
      BY <1>7, Zenon DEF Return, Leave, At
    <2>2. parents'[t] = r
      BY <1>0, <2>1, Zenon DEF TypeOK
    <2>3. result[t] = "VALID" => blk[t] \in stored
      BY <2>1, Zenon DEF SettledInv, BlocksAt, BlockAt, Imported
    <2>4. \A i \in DOMAIN q : q[i] \in stored
      BY <1>1, Zenon DEF ListsAt
    <2> HIDE DEF q
    <2>5. \A i \in DOMAIN r : r[i] \in stored
      BY <1>0, <2>3, <2>4 DEF q
    <2> HIDE DEF r
    <2> QED
      BY <1>5, <2>1, <2>2, <2>5, Zenon
  <1>8. CASE TakeChildren(t)
    <2> DEFINE q == parents[t]
               p == q[Len(q)]
    <2>1. /\ q # <<>> /\ kids' = [kids EXCEPT ![t] = children[p]] /\ children' = [children EXCEPT ![p] = <<>>]
          /\ parents' = [parents EXCEPT ![t] = SubSeq(q, 1, Len(q) - 1)]
      BY <1>8, Zenon DEF TakeChildren
    <2>2. kids'[t] = children[p] /\ parents'[t] = SubSeq(q, 1, Len(q) - 1)
      BY <1>0, <2>1, Zenon DEF TypeOK
    <2>3. q \in Seq(Hash) /\ \A i \in DOMAIN q : q[i] \in stored
      BY <1>0, <1>1, Zenon DEF ListsAt
    <2> HIDE DEF q
    <2>4. p \in Hash /\ p \in stored /\ \A i \in DOMAIN SubSeq(q, 1, Len(q) - 1) : SubSeq(q, 1, Len(q) - 1)[i] \in stored
      BY <2>1, <2>3
    <2> HIDE DEF p
    <2>5. children'[p] = <<>>
      BY <1>0, <2>1, <2>4, Zenon DEF TypeOK
    <2>6. ASSUME NEW i \in DOMAIN children[p]
          PROVE  Parent[children[p][i]] \in stored /\ ~ \E j \in DOMAIN children'[Parent[children[p][i]]] : TRUE
      <3>1. Parent[children[p][i]] = p
        BY <2>4, Zenon DEF SettledInv, MarksSound, ChildrenKeyed
      <3> QED
        BY <2>4, <2>5, <3>1
    <2> QED
      BY <1>2, <2>2, <2>4, <2>6, Zenon DEF ListsAt, Indexed
  <1>9. CASE TakeChild(t)
    <2> DEFINE q == kids[t]
    <2>1. q # <<>> /\ kids' = [kids EXCEPT ![t] = Tail(q)] /\ UNCHANGED parents
      BY <1>9, Zenon DEF TakeChild, TakeUp
    <2>2. kids'[t] = Tail(q) /\ parents'[t] = parents[t]
      BY <1>0, <2>1, Zenon DEF TypeOK
    <2>3. \A i \in DOMAIN parents[t] : parents[t][i] \in stored
      BY <1>1, Zenon DEF ListsAt
    <2> HIDE DEF q
    <2>4. \A i \in DOMAIN Tail(q) : i + 1 \in DOMAIN q /\ Tail(q)[i] = q[i + 1]
      BY <1>0, <2>1 DEF q
    <2> QED
      BY <1>5, <2>2, <2>3, <2>4, Zenon DEF q
  <1>10. CASE CheckStep(t)
    BY <1>6, <1>10, CheckStepKeeps, Zenon
  <1>11. CASE Persist(t) \/ ClearInvalid(t) \/ BufferBlock(t) \/ IndexChild(t)
              \/ MarkMismatch(t) \/ AlreadyStored(t) \/ RevalDone(t)
    <2>1. UNCHANGED <<kids, parents>>
      BY <1>11, Zenon DEF Persist, ClearInvalid, BufferBlock, IndexChild, MarkMismatch, AlreadyStored, RevalDone,
                          Goto, Finish, Leave, loop
    <2> QED
      BY <1>6, <2>1, Zenon
  <1>12. ASSUME NEW b \in Hash, HashMismatch(t, b) \/ \E arg \in {"match", "badBlobs"} : Enter(t, b, arg)
         PROVE  ListsAt(kids[t], parents[t])'
    <2>1. UNCHANGED <<kids, parents>>
      BY <1>12, Zenon DEF HashMismatch, Enter, TakeUp
    <2> QED
      BY <1>6, <2>1, Zenon
  <1>13. CASE Sweep \/ (\E b \in Hash : BuildPayload(b)) \/ UNCHANGED vars
    BY <1>6, <1>13, OthersKeep, Zenon
  <1>14. CASE Step(t)
    BY <1>7, <1>8, <1>9, <1>10, <1>11, <1>14, Zenon DEF Step, CheckStep
  <1> QED
    BY <1>12, <1>13, <1>14, OneMoves, Zenon

\* A block that a sweep marks is in the index, so it is not stored.
LEMMA SweptUnstored ==
    ASSUME SettledInv, NEW s \in sweeps, s.todo # <<>>, NEW i \in DOMAIN children[s.todo[Len(s.todo)]]
    PROVE  children[s.todo[Len(s.todo)]][i] \notin stored
  <1> DEFINE p == s.todo[Len(s.todo)]
             c == children[p][i]
  <1>1. TypeOK /\ p \in Hash
    BY SweepTarget, Zenon DEF SettledInv, SequentialInv
  <1>2. children[p] \in Seq(Hash)
    BY <1>1, Zenon DEF TypeOK
  <1>3. Parent[c] = p
    BY <1>1, Zenon DEF SettledInv, MarksSound, ChildrenKeyed
  <1> HIDE DEF p
  <1>4. c \in Hash
    BY <1>2 DEF p
  <1>5. Indexed(c)
    BY <1>3, Zenon DEF Indexed, p
  <1>6. c \notin stored
    BY <1>4, <1>5, Zenon DEF SettledInv, WaitingUnstored, Waiting
  <1> QED
    BY <1>6, Zenon DEF p

\* Every step leaves stored blocks unmarked but for the one being imported.
LEMMA NextUnmarked ==
    ASSUME OneTask, SettledInv, [Next]_vars
    PROVE  StoredUnmarked'
  <1>0. TypeOK
    BY Zenon DEF SettledInv, SequentialInv
  <1> SUFFICES ASSUME NEW h \in stored' PROVE invalid'[h] = "none" \/ \E t \in Tasks : pc'[t] = "clear" /\ blk'[t] = h
    BY Zenon DEF StoredUnmarked
  <1>1. ASSUME h \notin stored PROVE \E t \in Tasks : pc'[t] = "clear" /\ blk'[t] = h
    <2>1. PICK t \in Tasks : Persist(t)
      BY <1>1, NextStored, Zenon
    <2>2. pc' = [pc EXCEPT ![t] = "clear"] /\ UNCHANGED blk /\ blk[t] = h
      BY <1>1, <2>1, Zenon DEF Persist, Goto, loop
    <2> QED
      BY <1>0, <2>2, Zenon DEF TypeOK
  <1>2. ASSUME NEW t \in Tasks, pc[t] = "clear", blk[t] = h
        PROVE  invalid'[h] = "none" \/ (pc'[t] = "clear" /\ blk'[t] = h)
    <2>1. CASE Step(t)
      <3>1. ClearInvalid(t)
        BY <1>2, <2>1, Zenon DEF Step, MarkMismatch, RejectCancun, AlreadyStored, CheckKnown, CheckParentReason,
              CheckBody, CheckAncestors, CheckHasParent, CheckHeaders, CheckParentStored, CheckParentElsewhere,
              Execute, Persist, PersistFails, BufferBlock, IndexChild, ApplyMark, Return, TakeChildren,
              TakeChild, RevalDone, At
      <3>2. invalid' = [invalid EXCEPT ![h] = "none"] /\ h \in Hash
        BY <1>0, <1>2, <3>1, Zenon DEF ClearInvalid, TypeOK
      <3> QED
        BY <1>0, <3>2, Zenon DEF TypeOK
    <2>2. ~ \E b \in Hash : HashMismatch(t, b) \/ \E arg \in {"match", "badBlobs"} : Enter(t, b, arg)
      BY <1>2, Zenon DEF HashMismatch, Enter, At
    <2>3. CASE Sweep \/ (\E b \in Hash : BuildPayload(b)) \/ UNCHANGED vars
      BY <1>2, <2>3, OthersKeep, Zenon
    <2> QED
      BY <2>1, <2>2, <2>3, OneMoves, Zenon
  <1>3. ASSUME h \in stored, invalid[h] = "none" PROVE invalid'[h] = "none"
    <2>0. h \in Hash
      BY <1>0, <1>3, Zenon DEF TypeOK
    <2>1. ASSUME NEW g, NEW r, invalid' = [invalid EXCEPT ![g] = r], g # h \/ r = "none" PROVE invalid'[h] = "none"
      BY <1>0, <1>3, <2>0, <2>1, Zenon DEF TypeOK
    <2>2. ASSUME NEW t \in Tasks, MarkMismatch(t) PROVE invalid'[h] = "none"
      <3>1. pc[t] = "mismatch" /\ invalid' = [invalid EXCEPT ![blk[t]] = "Soft"]
        BY <2>2, Zenon DEF MarkMismatch, MarkInvalid, At
      <3>2. blk[t] \notin stored
        BY <3>1, Zenon DEF SettledInv, BlocksAt, BlockAt, Open
      <3> QED
        BY <1>3, <2>1, <3>1, <3>2, Zenon
    <2>3. ASSUME NEW t \in Tasks, ClearInvalid(t) PROVE invalid'[h] = "none"
      BY <2>1, <2>3, Zenon DEF ClearInvalid
    <2>4. ASSUME NEW t \in Tasks, ApplyMark(t) PROVE invalid'[h] = "none"
      <3> DEFINE q == marks[t]
                 m == Head(q)
      <3>1. q \in Seq(Marks) /\ q # <<>> /\ invalid' = [invalid EXCEPT ![m.hash] = m.reason]
        BY <1>0, <2>4, Zenon DEF ApplyMark, MarkInvalid, TypeOK
      <3>2. \A i \in DOMAIN q : q[i].hash \notin stored
        BY Zenon DEF SettledInv, MarksOpen, MarksAt
      <3> HIDE DEF q
      <3>3. 1 \in DOMAIN q /\ m = q[1]
        BY <3>1
      <3> HIDE DEF m
      <3> QED
        BY <1>3, <2>1, <3>1, <3>2, <3>3, Zenon
    <2>5. ASSUME NEW s \in sweeps, SweepChildren(s) PROVE invalid'[h] = "none"
      <3> DEFINE p == s.todo[Len(s.todo)]
                 hit == {children[p][i] : i \in DOMAIN children[p]}
      <3>1. s.todo # <<>> /\ invalid' = [g \in Hash |-> IF g \in hit THEN "Hard" ELSE invalid[g]]
        BY <2>5, Zenon DEF SweepChildren
      <3>2. h \notin hit
        BY <1>3, <3>1, SweptUnstored, Zenon
      <3> HIDE DEF hit
      <3> QED
        BY <1>3, <2>0, <3>1, <3>2, Zenon
    <2> QED
      BY <1>3, <2>2, <2>3, <2>4, <2>5, InvalidWritten, Zenon
  <1> QED
    BY <1>1, <1>2, <1>3, Zenon DEF SettledInv, StoredUnmarked

\* The Payloads table gains only what the builder built.
LEMMA NextBuilt ==
    ASSUME BuiltSound, [Next]_vars
    PROVE  BuiltSound'
  <1>1. payloads' \subseteq payloads \/ \E b \in Hash : BuildPayload(b)
    <2>1. ASSUME NEW t \in Tasks, Step(t) PROVE payloads' \subseteq payloads
      BY <2>1, Zenon
      DEF Step, MarkMismatch, RejectCancun, AlreadyStored, CheckKnown, CheckParentReason, CheckBody,
          CheckAncestors, CheckHasParent, CheckHeaders, CheckParentStored, CheckParentElsewhere, Execute,
          Persist, PersistFails, ClearInvalid, BufferBlock, IndexChild, ApplyMark, Return, TakeChildren,
          TakeChild, RevalDone
    <2>2. CASE Sweep \/ UNCHANGED vars
      BY <2>2, Zenon DEF Sweep, SweepChildren, SweepRemove, vars
    <2>3. ASSUME NEW t \in Tasks, NEW b \in Hash,
                 HashMismatch(t, b) \/ \E arg \in {"match", "badBlobs"} : Enter(t, b, arg)
          PROVE  payloads' \subseteq payloads
      BY <2>3, Zenon DEF HashMismatch, Enter
    <2> QED
      BY <2>1, <2>2, <2>3, Zenon DEF Next
  <1>2. ASSUME NEW b \in Hash, BuildPayload(b) PROVE BuiltSound'
    BY <1>2, Zenon DEF BuildPayload, BuiltSound, Sound
  <1> QED
    BY <1>1, <1>2, Zenon DEF BuiltSound, Sound

\* The ancestor named is the first on the chain that has no mark.
FirstUnmarked(h) == Path[h][Min({i \in DOMAIN Path[h] : invalid[Path[h][i]] = "none"})]

\* Where stored blocks have no mark, get_latest_valid_ancestor finds it, wherever the
\* canonical head is.
LEMMA LatestIsFirst ==
    ASSUME NEW h \in Hash, NEW tip \in stored, stored \subseteq Hash, StoredSound,
           \A x \in stored : invalid[x] = "none"
    PROVE  GetLatestValidAncestor(h, tip) = IF FirstUnmarked(h) \in Known THEN {FirstUnmarked(h)} ELSE {}
  <1>1. ASSUME NEW x, Canonical(x, tip) PROVE x \in stored
    BY <1>1, PathClosed, Zenon DEF Canonical, StoredSound
  <1> DEFINE ends == {i \in DOMAIN Path[h] : Canonical(Path[h][i], tip) \/ invalid[Path[h][i]] = "none"}
             free == {i \in DOMAIN Path[h] : invalid[Path[h][i]] = "none"}
  <1>2. ends = free
    BY <1>1, Zenon
  <1>3. GetLatestValidAncestor(h, tip) =
          IF Canonical(Path[h][Min(ends)], tip) \/ Path[h][Min(ends)] \in Known THEN {Path[h][Min(ends)]} ELSE {}
    BY Zenon DEF GetLatestValidAncestor
  <1>4. FirstUnmarked(h) = Path[h][Min(free)]
    BY Zenon DEF FirstUnmarked
  <1> HIDE DEF ends, free
  <1>5. Canonical(Path[h][Min(ends)], tip) => Path[h][Min(ends)] \in Known
    BY <1>1, Zenon DEF Known
  <1> QED
    BY <1>2, <1>3, <1>4, <1>5, Zenon

\* It is there, since genesis has none, and is no further than any that has none.
LEMMA FirstIsFirst ==
    ASSUME NEW h \in Hash, invalid[Genesis] = "none"
    PROVE  /\ invalid[FirstUnmarked(h)] = "none"
           /\ \A i \in DOMAIN Path[h] : invalid[Path[h][i]] = "none" => \E j \in 1 .. i : Path[h][j] = FirstUnmarked(h)
  <1> DEFINE free == {i \in DOMAIN Path[h] : invalid[Path[h][i]] = "none"}
             m == Min(free)
  <1>1. PICK g \in DOMAIN Path[h] : Path[h][g] = Genesis
    <2>1. Genesis \in Ancestors(Path, h)
      BY HashChain, AncestorsGenesis, Zenon
    <2> QED
      BY <2>1, Zenon DEF Ancestors
  <1>2. Path[h] \in Seq(Hash)
    BY PathHead, Zenon
  <1>3. DOMAIN Path[h] \subseteq Nat \ {0}
    BY <1>2
  <1>4. free # {} /\ free \subseteq Nat
    BY <1>1, <1>3, Zenon
  <1>5. \E x \in free : \A y \in free : x <= y
    <2> HIDE DEF free
    <2> QED
      BY <1>4, LeastElement, Zenon
  <1>6. m \in free /\ \A y \in free : m <= y
    <2> HIDE DEF free
    <2> QED
      BY <1>5, Zenon DEF Min
  <1>7. FirstUnmarked(h) = Path[h][m]
    BY Zenon DEF FirstUnmarked
  <1> HIDE DEF m
  <1>8. ASSUME NEW i \in DOMAIN Path[h], invalid[Path[h][i]] = "none" PROVE m \in 1 .. i
    <2>1. m <= i /\ m \in DOMAIN Path[h]
      BY <1>6, <1>8, Zenon
    <2> QED
      BY <1>3, <2>1
  <1> QED
    BY <1>6, <1>7, <1>8, Zenon

\* While calls do not overlap, the answers between them are right for every block tree,
\* whatever was announced wrongly on the way: a stored block is VALID again and again
\* and never held invalid, VALID is said of sound blocks only, and an INVALID answer
\* names the nearest ancestor without a mark, on whichever branch the head is.
THEOREM AnswersRight ==
    ASSUME OneTask
    PROVE  Spec => []StatusAnswers
  <1>1. Init => SettledInv
    <2> SUFFICES ASSUME Init PROVE SettledInv
      BY Zenon
    <2>1. SequentialInv
      BY InitType, Zenon DEF Init, SequentialInv, OrphanIndexed, Pursued, Shaped, Shape
    <2>2. MarksSound
      <3>1. MarksCaused /\ SweepsCaused /\ ChildrenKeyed
        BY DEF Init, MarksCaused, SweepsCaused, ChildrenKeyed
      <3> QED
        BY <3>1, Zenon DEF Init, MarksEarned, BlocksInHand, InHand, MarksSound
    <2>3. Staged /\ StoredSound
      BY BlockAssumption DEF Init, Staged, StageOf, StoredSound
    <2>4. \A h \in Hash : ~Waiting(h)
      <3> SUFFICES ASSUME NEW h \in Hash PROVE ~Waiting(h)
        BY Zenon
      <3>1. Parent[h] \in Hash
        BY BlockAssumption, Zenon
      <3>2. children[Parent[h]] = <<>> /\ h \notin orphans
        BY <3>1, Zenon DEF Init
      <3>3. ~Indexed(h)
        BY <3>2 DEF Indexed
      <3> QED
        BY <3>2, <3>3, Zenon DEF Waiting
    <2>5. WaitingUnstored /\ Drained
      BY <2>4, Zenon DEF WaitingUnstored, Drained, Waiting
    <2>6. BlocksAt
      BY Zenon DEF Init, BlocksAt, BlockAt, Open, Imported
    <2>7. MarksOpen /\ ListsStored
      BY DEF Init, MarksOpen, MarksAt, ListsStored, ListsAt
    <2>8. StoredUnmarked
      BY BlockAssumption, Zenon DEF Init, StoredUnmarked
    <2>9. BuiltSound
      <3>1. DOMAIN Path[Genesis] = {1} /\ Path[Genesis][1] = Genesis
        BY PathGenesis
      <3> QED
        BY <3>1, BlockAssumption, Zenon DEF Init, BuiltSound, Sound
    <2> QED
      BY <2>1, <2>2, <2>3, <2>5, <2>6, <2>7, <2>8, <2>9, Zenon DEF SettledInv
  <1>2. SettledInv /\ [Next]_vars => SettledInv'
    <2> SUFFICES ASSUME SettledInv, [Next]_vars PROVE SettledInv'
      BY Zenon
    <2>1. SequentialInv /\ TypeOK
      BY Zenon DEF SettledInv, SequentialInv
    <2>2. SequentialInv'
      BY <2>1, NextSequential, Zenon
    <2>3. MarksSound'
      BY <2>1, NextEarned, NextCaused, NextInHand, NextKeyed, NextSweeps, Zenon DEF MarksSound, SettledInv
    <2>4. Staged' /\ StoredSound'
      BY <2>1, NextStaged, NextSound, Zenon DEF SettledInv
    <2>5. WaitingUnstored' /\ Drained' /\ BlocksAt'
      BY NextWaiting, NextDrained, NextBlocks, Zenon
    <2>6. MarksOpen' /\ ListsStored' /\ StoredUnmarked'
      BY NextMarksOpen, NextLists, NextUnmarked, Zenon
    <2>7. BuiltSound'
      BY NextBuilt, Zenon DEF SettledInv
    <2> QED
      BY <2>2, <2>3, <2>4, <2>5, <2>6, <2>7, Zenon DEF SettledInv
  <1>3. SettledInv => StatusAnswers
    <2> SUFFICES ASSUME SettledInv, \A t \in Tasks : pc[t] = "idle", NEW h \in Hash, NEW tip \in stored
                 PROVE  LET answer == DeterminePayloadStatus(h, tip)
                        IN /\ h \in stored => answer.status = "VALID"
                           /\ answer.status = "VALID" => Sound(h)
                           /\ answer = DeterminePayloadStatus(h, Genesis)
                           /\ answer.status = "INVALID" => \A l \in answer.latest :
                                /\ invalid[l] = "none"
                                /\ \A i \in DOMAIN Path[h] :
                                     Path[h][i] \in stored => \E j \in 1..i : Path[h][j] = l
      BY Zenon DEF StatusAnswers, At
    <2>1. /\ stored \subseteq Hash /\ StoredSound
          /\ \A x \in stored : invalid[x] = "none"
      BY Zenon DEF SettledInv, SequentialInv, TypeOK, StoredUnmarked
    <2>2. \A x \in stored : \A i \in DOMAIN Path[x] : Path[x][i] \in stored
      BY <2>1, PathClosed, Zenon DEF StoredSound
    <2>3. Genesis \in stored
      <3>1. Genesis \in Ancestors(Path, tip)
        BY <2>1, HashChain, AncestorsGenesis, Zenon
      <3> QED
        BY <2>2, <3>1, Zenon DEF Ancestors
    <2>4. \A x \in stored \cup payloads : Sound(x)
      BY <2>1, <2>2, Zenon DEF SettledInv, BuiltSound, Sound, StoredSound
    <2> DEFINE latest == IF FirstUnmarked(h) \in Known THEN {FirstUnmarked(h)} ELSE {}
    <2>5. GetLatestValidAncestor(h, tip) = latest /\ GetLatestValidAncestor(h, Genesis) = latest
      BY <2>1, <2>3, LatestIsFirst, Zenon
    <2>6. \A l \in latest : /\ invalid[l] = "none"
                             /\ \A i \in DOMAIN Path[h] : Path[h][i] \in stored => \E j \in 1 .. i : Path[h][j] = l
      BY <2>1, <2>3, FirstIsFirst, Zenon
    <2> HIDE DEF latest
    <2> DEFINE answer == DeterminePayloadStatus(h, tip)
    <2>7. CASE invalid[h] # "none"
      <3>1. answer = [status |-> "INVALID", latest |-> latest] /\ DeterminePayloadStatus(h, Genesis) = answer
        BY <2>5, <2>7, Zenon DEF DeterminePayloadStatus
      <3> HIDE DEF answer
      <3>2. answer.status = "INVALID" /\ answer.latest = latest
        BY <3>1
      <3>3. h \notin stored
        BY <2>1, <2>7, Zenon
      <3>4. /\ h \in stored => answer.status = "VALID"
            /\ answer.status = "VALID" => Sound(h)
            /\ answer = DeterminePayloadStatus(h, Genesis)
            /\ answer.status = "INVALID" => \A l \in answer.latest :
                  /\ invalid[l] = "none"
                  /\ \A i \in DOMAIN Path[h] : Path[h][i] \in stored => \E j \in 1..i : Path[h][j] = l
        BY <2>6, <3>1, <3>2, <3>3, Zenon
      <3> QED
        BY <3>4, Zenon DEF answer
    <2>8. CASE invalid[h] = "none"
      <3>1. answer = DeterminePayloadStatus(h, Genesis) /\ answer.status # "INVALID"
        BY <2>8, Zenon DEF DeterminePayloadStatus
      <3>2. answer.status = "VALID" <=> h \in stored \cup payloads
        BY <2>8, Zenon DEF DeterminePayloadStatus
      <3> HIDE DEF answer
      <3> QED
        BY <2>4, <3>1, <3>2, Zenon DEF answer
    <2> QED
      BY <2>7, <2>8, Zenon
  <1> QED
    BY <1>1, <1>2, <1>3, PTL DEF Spec

=============================================================================
