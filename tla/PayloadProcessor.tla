-------------------------- MODULE PayloadProcessor --------------------------
(***************************************************************************)
(* Block import: PayloadProcessor (wasix_eth_core/src/engine/              *)
(* payload_processor.rs) over the BlockTree (sidechain_tracker.rs).        *)
(*                                                                         *)
(* engine_newPayload, the gossip handler and the sync controller all end   *)
(* in new_payload_internal, and nothing serialises them: each caller is a  *)
(* task, and another task may run between any two of its awaits.  An       *)
(* action is the code between two awaits whose results the code relies on. *)
(*                                                                         *)
(* A block is identified by the hash of its header, so its parent, its     *)
(* height and whether it is acceptable are functions of the hash.          *)
(***************************************************************************)
EXTENDS Naturals, Sequences

CONSTANTS
    Hash,       \* the blocks of the instance, identified by header hash
    Genesis,    \* the block the database is initialised with
    Parent,     \* header.parent_hash; Parent[Genesis] is never followed
    Height,     \* header.number
    Defect,     \* the first check the block itself would fail, or "none"
    Tasks,      \* concurrent callers of new_payload_internal
    Misannounced, \* blocks that also come with a wrong hash or with wrong blobs
    Buildable,  \* blocks the local payload builder may produce
    MaxIndexed  \* bound: a call starts while fewer entries wait under its parent

Defects == {"none", "body", "header", "execution"}
Reasons == {"none", "Soft", "Hard"}

ASSUME BlockAssumption ==
    /\ Genesis \in Hash
    /\ Parent \in [Hash -> Hash]
    /\ Height \in [Hash -> Nat]
    /\ Defect \in [Hash -> Defects]
    /\ Defect[Genesis] = "none"
    /\ Misannounced \subseteq Hash
    /\ Buildable \subseteq Hash
    /\ MaxIndexed \in Nat

VARIABLES
    stored,     \* headers, bodies and total difficulties: one batch writes all
    payloads,   \* the Payloads table: blocks built here and not yet imported
    orphans,    \* BlockTree.blocks
    children,   \* BlockTree.children: parent hash -> Vec of buffered children
    invalid,    \* BlockTree.invalid_blocks; "none" when absent
    processing, \* processing_payloads
    requested,  \* hashes handed to SyncRegistry::add_target
    sweeps,     \* spawned invalidate_descendants tasks
    \* and, for each task:
    pc,         \* the next step of the handler
    blk,        \* the block it is importing
    marks,      \* the mark_invalid calls it has decided on
    result,     \* the status it is going to answer
    inReval,    \* it is importing a buffered child, not the block of the call
    kids,       \* revalidate_dependent_payloads: children_hashes still to do
    parents     \* revalidate_dependent_payloads: parents_to_process

tree == <<orphans, children, invalid>>
loop == <<blk, inReval, kids, parents>>
task == <<pc, marks, result, loop>>
vars == <<stored, payloads, tree, processing, requested, sweeps, task>>

\* How far validate_parent_block looks back, for marks and for headers.
InvalidWalk == 64
HeaderWalk == 16

\* The header chain from b down to genesis, b first.
Path[b \in Hash] == IF b = Genesis THEN <<b>> ELSE <<b>> \o Path[Parent[b]]

\* Hashes admit no cycle: following parents from any block ends in genesis, so the
\* definition of Path has its least solution.
ASSUME PathAssumption ==
    /\ Path \in [Hash -> Seq(Hash)]
    /\ \A b \in Hash : Path[b] = IF b = Genesis THEN <<b>> ELSE <<b>> \o Path[Parent[b]]

Sound(b) == \A i \in DOMAIN Path[b] : Defect[Path[b][i]] = "none"

\* ChainManager::has_block, and get_header_from_anywhere finding something.
Known == stored \cup payloads \cup orphans

\* Where a task can be.  "idle": no call; "mismatch": about to record a block
\* whose hash was announced wrongly; the others hold the block in processing,
\* except "reval", which looks for buffered children of what was imported.
Labels == {"idle", "mismatch", "badBlobs", "known", "parentReason", "body",
           "ancestors", "hasParent", "headers", "stored", "elsewhere", "execute",
           "persist", "clear", "buffer", "index", "mark", "return", "reval"}
Unheld == {"idle", "mismatch", "reval"}
Results == {"none", "VALID", "INVALID", "SYNCING", "ACCEPTED", "ERROR"}

\* A pending mark_invalid, and what the code does right after it: spawn
\* invalidate_descendants, drop the block from the Payloads table, or nothing.
Marks == [hash : Hash, reason : {"Soft", "Hard"}, andThen : {"sweep", "drop", "nothing"}]

TypeOK ==
    /\ stored \subseteq Hash
    /\ payloads \subseteq Hash
    /\ orphans \subseteq Hash
    /\ children \in [Hash -> Seq(Hash)]
    /\ invalid \in [Hash -> Reasons]
    /\ processing \subseteq Hash
    /\ requested \subseteq Hash
    /\ sweeps \subseteq [todo : Seq(Hash), done : Seq(Hash)]
    /\ pc \in [Tasks -> Labels]
    /\ blk \in [Tasks -> Hash]
    /\ marks \in [Tasks -> Seq(Marks)]
    /\ result \in [Tasks -> Results]
    /\ inReval \in [Tasks -> BOOLEAN]
    /\ kids \in [Tasks -> Seq(Hash)]
    /\ parents \in [Tasks -> Seq(Hash)]

\* A database initialised with genesis, which is in both tables.
Init ==
    /\ stored = {Genesis}
    /\ payloads = {Genesis}
    /\ orphans = {}
    /\ children = [h \in Hash |-> <<>>]
    /\ invalid = [h \in Hash |-> "none"]
    /\ processing = {}
    /\ requested = {}
    /\ sweeps = {}
    /\ pc = [t \in Tasks |-> "idle"]
    /\ blk = [t \in Tasks |-> Genesis]
    /\ marks = [t \in Tasks |-> <<>>]
    /\ result = [t \in Tasks |-> "none"]
    /\ inReval = [t \in Tasks |-> FALSE]
    /\ kids = [t \in Tasks |-> <<>>]
    /\ parents = [t \in Tasks |-> <<>>]

-----------------------------------------------------------------------------
(* BlockTree                                                               *)

\* mark_invalid: the last reason wins, and the block leaves the orphan pool.
MarkInvalid(h, reason) ==
    /\ invalid' = [invalid EXCEPT ![h] = reason]
    /\ orphans' = orphans \ {h}

-----------------------------------------------------------------------------
(* Steps of a task.                                                        *)

At(t, label) == pc[t] = label
Par(t) == Parent[blk[t]]

Goto(t, label) ==
    /\ pc' = [pc EXCEPT ![t] = label]
    /\ UNCHANGED <<marks, result, loop>>

Finish(t, res) ==
    /\ pc' = [pc EXCEPT ![t] = "return"]
    /\ result' = [result EXCEPT ![t] = res]
    /\ UNCHANGED <<marks, loop>>

\* Record the marks in turn, then answer INVALID.
Reject(t, todo) ==
    /\ pc' = [pc EXCEPT ![t] = "mark"]
    /\ marks' = [marks EXCEPT ![t] = todo]
    /\ result' = [result EXCEPT ![t] = "INVALID"]
    /\ UNCHANGED loop

MarkOf(h, reason, andThen) == [hash |-> h, reason |-> reason, andThen |-> andThen]

RejectSelf(t, reason, andThen) == Reject(t, <<MarkOf(blk[t], reason, andThen)>>)

\* The handler ends, or goes on at label with no block in hand.
Leave(t, label) ==
    /\ pc' = [pc EXCEPT ![t] = label]
    /\ blk' = [blk EXCEPT ![t] = Genesis]
    /\ result' = [result EXCEPT ![t] = "none"]
    /\ inReval' = [inReval EXCEPT ![t] = FALSE]
    /\ UNCHANGED <<marks, kids>>

\* The handler takes up a block.
TakeUp(t, label, b, asChild) ==
    /\ pc' = [pc EXCEPT ![t] = label]
    /\ blk' = [blk EXCEPT ![t] = b]
    /\ inReval' = [inReval EXCEPT ![t] = asChild]
    /\ UNCHANGED <<marks, result, parents>>

\* The call arrives with a block hash that is not the header's.  The code looks
\* for the body first and marks the block afterwards; this path does not enter
\* processing_payloads.
HashMismatch(t, b) ==
    /\ At(t, "idle")
    /\ b # Genesis /\ b \in Misannounced
    /\ b \notin stored
    /\ TakeUp(t, "mismatch", b, FALSE)
    /\ UNCHANGED <<stored, payloads, tree, processing, requested, sweeps, kids>>

\* Mutant of MarkMismatch: the wrong reason.
MarkMismatchHard(t) ==
    /\ At(t, "mismatch")
    /\ MarkInvalid(blk[t], "Hard")
    /\ Leave(t, "idle")
    /\ UNCHANGED <<stored, payloads, children, processing, requested, sweeps, parents>>

MarkMismatch(t) ==
    /\ At(t, "mismatch")
    /\ MarkInvalid(blk[t], "Soft")
    /\ Leave(t, "idle")
    /\ UNCHANGED <<stored, payloads, children, processing, requested, sweeps, parents>>

\* The guard on processing_payloads.  The height test only sees blocks whose
\* header is already stored.
Busy(b) ==
    \/ b \in processing
    \/ \E h \in processing \cap stored : h # b /\ Height[h] = Height[b]

\* arg: the versioned hashes and the beacon root of the call match, or not.
Enter(t, b, arg) ==
    /\ At(t, "idle")
    /\ b # Genesis
    /\ arg = "badBlobs" => b \in Misannounced
    /\ ~Busy(b)
    /\ Len(children[Parent[b]]) < MaxIndexed
    /\ processing' = processing \cup {b}
    /\ TakeUp(t, IF arg = "badBlobs" THEN "badBlobs" ELSE "known", b, FALSE)
    /\ UNCHANGED <<stored, payloads, tree, requested, sweeps, kids>>

\* The versioned hashes or the beacon root do not match.
RejectCancun(t) ==
    /\ At(t, "badBlobs")
    /\ IF blk[t] \in stored THEN Finish(t, "INVALID")
       ELSE RejectSelf(t, "Soft", "nothing")
    /\ UNCHANGED <<stored, payloads, tree, processing, requested, sweeps>>

\* Idempotency, then the block's own invalidation; Soft does not stop it.
AlreadyStored(t) ==
    /\ At(t, "known")
    /\ blk[t] \in stored
    /\ processing' = processing \ {blk[t]}
    /\ Leave(t, "idle")
    /\ UNCHANGED <<stored, payloads, tree, requested, sweeps, parents>>

\* Mutant of CheckKnown: an early return that keeps its processing entry.
CheckKnownKeepsEntry(t) ==
    /\ At(t, "known")
    /\ blk[t] \notin stored
    /\ IF invalid[blk[t]] = "Hard" THEN Leave(t, "idle") /\ UNCHANGED parents
       ELSE Goto(t, "parentReason")
    /\ UNCHANGED <<stored, payloads, tree, processing, requested, sweeps>>

CheckKnown(t) ==
    /\ At(t, "known")
    /\ blk[t] \notin stored
    /\ IF invalid[blk[t]] = "Hard" THEN Finish(t, "INVALID") ELSE Goto(t, "parentReason")
    /\ UNCHANGED <<stored, payloads, tree, processing, requested, sweeps>>

\* The parent's invalidation is passed on to the block with the same reason.
CheckParentReason(t) ==
    /\ At(t, "parentReason")
    /\ IF invalid[Par(t)] = "none" THEN Goto(t, "body")
       ELSE RejectSelf(t, invalid[Par(t)], "nothing")
    /\ UNCHANGED <<stored, payloads, tree, processing, requested, sweeps>>

(* new_payload_internal_inner starts here; revalidation enters here too.   *)

CheckBody(t) ==
    /\ At(t, "body")
    /\ IF Defect[blk[t]] # "body" THEN Goto(t, "ancestors")
       ELSE IF blk[t] \in stored THEN Finish(t, "INVALID")
       ELSE RejectSelf(t, "Hard", "drop")
    /\ UNCHANGED <<stored, payloads, tree, processing, requested, sweeps>>

\* validate_parent_block, first walk: an invalid ancestor reached through
\* headers that are known.
InvalidAncestor(p) ==
    \E i \in DOMAIN Path[p] :
        /\ i <= InvalidWalk
        /\ invalid[Path[p][i]] # "none"
        /\ \A j \in 1 .. i - 1 : Path[p][j] \in Known

CheckAncestors(t) ==
    /\ At(t, "ancestors")
    /\ IF InvalidAncestor(Par(t)) THEN RejectSelf(t, "Hard", "sweep")
       ELSE Goto(t, "hasParent")
    /\ UNCHANGED <<stored, payloads, tree, processing, requested, sweeps>>

\* The unknown parent is handed to the sync registry, the block is buffered.
CheckHasParent(t) ==
    /\ At(t, "hasParent")
    /\ IF Par(t) \in Known THEN Goto(t, "headers") /\ UNCHANGED requested
       ELSE Goto(t, "buffer") /\ requested' = requested \cup {Par(t)}
    /\ UNCHANGED <<stored, payloads, tree, processing, sweeps>>

\* validate_parent_block, second walk: the positions of the ancestors whose
\* parent is marked, or that do not fit their parent's header.
BadAncestors(p) ==
    {i \in 1 .. Len(Path[p]) - 1 :
        /\ i <= HeaderWalk
        /\ \A j \in 1 .. i : Path[p][j] \in Known
        /\ \/ invalid[Path[p][i + 1]] # "none"
           \/ Defect[Path[p][i]] = "header" /\ Path[p][i + 1] \in Known}

CheckHeaders(t) ==
    /\ At(t, "headers")
    /\ IF BadAncestors(Par(t)) = {} THEN Goto(t, "stored")
       ELSE \E i \in BadAncestors(Par(t)) :
            LET c == Path[Par(t)][i]
                andThen == IF invalid[Parent[c]] # "none" THEN "sweep" ELSE "nothing"
            IN  /\ \A j \in BadAncestors(Par(t)) : i <= j
                /\ Reject(t, <<MarkOf(c, "Hard", andThen), MarkOf(blk[t], "Hard", "sweep")>>)
    /\ UNCHANGED <<stored, payloads, tree, processing, requested, sweeps>>

\* Mutant of CheckParentStored: no header validation.
CheckParentUnvalidated(t) ==
    /\ At(t, "stored")
    /\ IF Par(t) \notin stored THEN Goto(t, "elsewhere") ELSE Goto(t, "execute")
    /\ UNCHANGED <<stored, payloads, tree, processing, requested, sweeps>>

\* The parent's header in the main tables: the block may be executed.
CheckParentStored(t) ==
    /\ At(t, "stored")
    /\ IF Par(t) \notin stored THEN Goto(t, "elsewhere")
       ELSE IF Defect[blk[t]] = "header" THEN RejectSelf(t, "Hard", "drop")
       ELSE Goto(t, "execute")
    /\ UNCHANGED <<stored, payloads, tree, processing, requested, sweeps>>

\* The parent was not stored a moment ago: being imported, buffered or built
\* here, stored by now, or gone.
CheckParentElsewhere(t) ==
    /\ At(t, "elsewhere")
    /\ IF Par(t) \in processing \/ Par(t) \notin Known THEN Finish(t, "SYNCING")
       ELSE IF Defect[blk[t]] = "header" THEN RejectSelf(t, "Hard", "nothing")
       ELSE Goto(t, "buffer")
    /\ UNCHANGED <<stored, payloads, tree, processing, requested, sweeps>>

\* Execution and the checks on its outcome.
Execute(t) ==
    /\ At(t, "execute")
    /\ IF Defect[blk[t]] = "execution" THEN RejectSelf(t, "Hard", "drop")
       ELSE Goto(t, "persist")
    /\ UNCHANGED <<stored, payloads, tree, processing, requested, sweeps>>

Persist(t) ==
    /\ At(t, "persist")
    /\ stored' = stored \cup {blk[t]}
    /\ payloads' = payloads \ {blk[t]}
    /\ Goto(t, "clear")
    /\ UNCHANGED <<tree, processing, requested, sweeps>>

\* The batch fails to commit, or the blocking task panics.
PersistFails(t) ==
    /\ At(t, "persist")
    /\ Finish(t, "ERROR")
    /\ UNCHANGED <<stored, payloads, tree, processing, requested, sweeps>>

\* Mutant of ClearInvalid: an earlier Soft mark outlives the import.
ClearInvalidNever(t) ==
    /\ At(t, "clear")
    /\ Finish(t, "VALID")
    /\ UNCHANGED <<stored, payloads, tree, processing, requested, sweeps>>

ClearInvalid(t) ==
    /\ At(t, "clear")
    /\ invalid' = [invalid EXCEPT ![blk[t]] = "none"]
    /\ Finish(t, "VALID")
    /\ UNCHANGED <<stored, payloads, orphans, children, processing, requested, sweeps>>

\* add_orphan takes the lock on blocks, then the one on children.
BufferBlock(t) ==
    /\ At(t, "buffer")
    /\ orphans' = orphans \cup {blk[t]}
    /\ Goto(t, "index")
    /\ UNCHANGED <<stored, payloads, children, invalid, processing, requested, sweeps>>

\* Mutant of IndexChild: the wrong key.
IndexUnderSelf(t) ==
    /\ At(t, "index")
    /\ children' = [children EXCEPT ![blk[t]] = Append(@, blk[t])]
    /\ Finish(t, "ACCEPTED")
    /\ UNCHANGED <<stored, payloads, orphans, invalid, processing, requested, sweeps>>

IndexChild(t) ==
    /\ At(t, "index")
    /\ children' = [children EXCEPT ![Par(t)] = Append(@, blk[t])]
    /\ Finish(t, "ACCEPTED")
    /\ UNCHANGED <<stored, payloads, orphans, invalid, processing, requested, sweeps>>

ApplyMark(t) ==
    /\ At(t, "mark")
    /\ marks[t] # <<>>
    /\ LET m == Head(marks[t])
       IN  /\ MarkInvalid(m.hash, m.reason)
           /\ sweeps' = IF m.andThen # "sweep" THEN sweeps
                        ELSE sweeps \cup {[todo |-> <<m.hash>>, done |-> <<>>]}
           /\ payloads' = IF m.andThen # "drop" THEN payloads ELSE payloads \ {m.hash}
    /\ marks' = [marks EXCEPT ![t] = Tail(@)]
    /\ pc' = [pc EXCEPT ![t] = IF Len(marks[t]) = 1 THEN "return" ELSE @]
    /\ UNCHANGED <<stored, children, processing, requested, result, loop>>

\* Mutant of Return: no second generation of children.
ReturnShallow(t) ==
    /\ At(t, "return")
    /\ processing' = processing \ {blk[t]}
    /\ Leave(t, IF inReval[t] \/ result[t] = "VALID" THEN "reval" ELSE "idle")
    /\ parents' = [parents EXCEPT ![t] = IF result[t] = "VALID" /\ ~inReval[t]
                                         THEN Append(@, blk[t]) ELSE @]
    /\ UNCHANGED <<stored, payloads, tree, requested, sweeps>>

\* Leave processing_payloads; an import makes the task look for children.
Return(t) ==
    /\ At(t, "return")
    /\ processing' = processing \ {blk[t]}
    /\ Leave(t, IF inReval[t] \/ result[t] = "VALID" THEN "reval" ELSE "idle")
    /\ parents' = [parents EXCEPT ![t] = IF result[t] = "VALID" THEN Append(@, blk[t]) ELSE @]
    /\ UNCHANGED <<stored, payloads, tree, requested, sweeps>>

-----------------------------------------------------------------------------
(* revalidate_dependent_payloads                                           *)

\* Mutant of TakeChildren: nothing is removed.
PeekChildren(t) ==
    /\ At(t, "reval")
    /\ kids[t] = <<>> /\ parents[t] # <<>>
    /\ kids' = [kids EXCEPT ![t] = children[parents[t][Len(parents[t])]]]
    /\ UNCHANGED <<stored, payloads, tree, processing, requested, sweeps,
                   pc, blk, marks, result, inReval, parents>>

TakeChildren(t) ==
    /\ At(t, "reval")
    /\ kids[t] = <<>> /\ parents[t] # <<>>
    /\ LET p == parents[t][Len(parents[t])]
       IN  /\ kids' = [kids EXCEPT ![t] = children[p]]
           /\ children' = [children EXCEPT ![p] = <<>>]
    /\ parents' = [parents EXCEPT ![t] = SubSeq(@, 1, Len(@) - 1)]
    /\ UNCHANGED <<stored, payloads, orphans, invalid, processing, requested, sweeps,
                   pc, blk, marks, result, inReval>>

\* The child leaves the pool; if someone else is importing it, it is skipped.
TakeChild(t) ==
    /\ At(t, "reval")
    /\ kids[t] # <<>>
    /\ LET k == Head(kids[t])
       IN  /\ orphans' = orphans \ {k}
           /\ IF k \in orphans \ processing
              THEN processing' = processing \cup {k} /\ TakeUp(t, "body", k, TRUE)
              ELSE UNCHANGED <<processing, pc, blk, inReval, marks, result, parents>>
    /\ kids' = [kids EXCEPT ![t] = Tail(@)]
    /\ UNCHANGED <<stored, payloads, children, invalid, requested, sweeps>>

RevalDone(t) ==
    /\ At(t, "reval")
    /\ kids[t] = <<>> /\ parents[t] = <<>>
    /\ Leave(t, "idle")
    /\ UNCHANGED <<stored, payloads, tree, processing, requested, sweeps, parents>>

-----------------------------------------------------------------------------
(* invalidate_descendants, spawned.                                        *)

SweepChildren(s) ==
    /\ s.todo # <<>>
    /\ LET p == s.todo[Len(s.todo)]
           found == children[p]
           hit == {found[i] : i \in DOMAIN found}
       IN  /\ invalid' = [h \in Hash |-> IF h \in hit THEN "Hard" ELSE invalid[h]]
           /\ orphans' = orphans \ hit
           /\ children' = [children EXCEPT ![p] = <<>>]
           /\ sweeps' = (sweeps \ {s}) \cup
                {[todo |-> SubSeq(s.todo, 1, Len(s.todo) - 1) \o found,
                  done |-> s.done \o found]}
    /\ UNCHANGED <<stored, payloads, processing, requested, task>>

SweepRemove(s) ==
    /\ s.todo = <<>>
    /\ orphans' = orphans \ {s.done[i] : i \in DOMAIN s.done}
    /\ sweeps' = sweeps \ {s}
    /\ UNCHANGED <<stored, payloads, children, invalid, processing, requested, task>>

-----------------------------------------------------------------------------
\* PayloadBuilder: a block built here on a block that is stored or itself built
\* here enters the Payloads table; what it builds is sound.
BuildPayload(b) ==
    /\ b \in Buildable /\ Sound(b)
    /\ b \notin stored \cup payloads
    /\ Parent[b] \in stored \cup payloads
    /\ payloads' = payloads \cup {b}
    /\ UNCHANGED <<stored, tree, processing, requested, sweeps, task>>

Step(t) ==
    \/ MarkMismatch(t) \/ RejectCancun(t) \/ AlreadyStored(t) \/ CheckKnown(t) \/ CheckParentReason(t)
    \/ CheckBody(t) \/ CheckAncestors(t) \/ CheckHasParent(t) \/ CheckHeaders(t)
    \/ CheckParentStored(t) \/ CheckParentElsewhere(t) \/ Execute(t) \/ Persist(t)
    \/ PersistFails(t) \/ ClearInvalid(t) \/ BufferBlock(t) \/ IndexChild(t) \/ ApplyMark(t) \/ Return(t)
    \/ TakeChildren(t) \/ TakeChild(t) \/ RevalDone(t)

Sweep == \E s \in sweeps : SweepChildren(s) \/ SweepRemove(s)

Next ==
    \/ \E t \in Tasks, b \in Hash :
        \/ HashMismatch(t, b)
        \/ \E arg \in {"match", "badBlobs"} : Enter(t, b, arg)
    \/ \E t \in Tasks : Step(t)
    \/ Sweep
    \/ \E b \in Hash : BuildPayload(b)

Spec == Init /\ [][Next]_vars

\* The tokio runtime polls every task that can make progress, spawned sweeps
\* included.  Calls themselves are up to the callers.
Fairness ==
    /\ \A t \in Tasks : WF_vars(Step(t))
    /\ WF_vars(Sweep)

FairSpec == Spec /\ Fairness

-----------------------------------------------------------------------------
(* Properties.                                                             *)

Holds(t) == pc[t] \notin Unheld

\* processing_payloads holds exactly the blocks being imported, each by one
\* task: every early return of new_payload_internal and of the revalidation
\* loop gives its entry back, and nobody removes another task's entry.
ProcessingExact ==
    /\ processing = {blk[t] : t \in {u \in Tasks : Holds(u)}}
    /\ \A t, u \in Tasks : Holds(t) /\ Holds(u) /\ blk[t] = blk[u] => t = u

\* Only blocks that pass every check reach the main tables, and only on top of a
\* block that is already there, whichever way the tasks interleave.
StoredSound ==
    \A h \in stored : /\ Defect[h] = "none"
                      /\ h # Genesis => Parent[h] \in stored

\* A block in the orphan pool can be found from its parent: it is in the child
\* index, or a task is about to index it or has just taken it out of there.
OrphanIndexed ==
    \A h \in orphans :
        \/ \E i \in DOMAIN children[Parent[h]] : children[Parent[h]][i] = h
        \/ \E t \in Tasks : \/ At(t, "index") /\ blk[t] = h
                            \/ \E i \in DOMAIN kids[t] : kids[t][i] = h

\* With no call in flight, no block is left in the orphan pool whose parent has
\* been imported: revalidate_dependent_payloads has taken it.
NoStrandedOrphan ==
    (\A t \in Tasks : At(t, "idle")) =>
        \A h \in orphans : Parent[h] \notin stored

\* Every call returns: the revalidation loop works through finitely many
\* buffered descendants.
CallsReturn == \A t \in Tasks : []<>At(t, "idle")

\* Whether b, or an ancestor at a distance of at least d, gives a reason to mark it.
Tainted(b, d) ==
    \E i \in DOMAIN Path[b] :
        Defect[Path[b][i]] # "none" \/ (i > d /\ Path[b][i] \in Misannounced)

\* A mark has a cause: a block is held invalid only if a check fails on its chain or
\* a block of its chain was announced with wrong arguments; and a block is never held
\* Hard invalid, which would bar it for good, for a wrong announcement of itself.
\* Neither a race of two imports nor a sweep marks the descendants of sound blocks.
MarksEarned ==
    \A h \in Hash : /\ invalid[h] # "none" => Tainted(h, 0)
                    /\ invalid[h] = "Hard" => Tainted(h, 1)

\* The blocks that fail a check of their own.
Faulty == {h \in Hash : Defect[h] # "none"}

Tree == INSTANCE BlockTree WITH
            Hash <- Hash, Genesis <- Genesis, Parent <- Parent, Faulty <- Faulty, stored <- stored

\* Seen from the tables alone, all of this is the abstract import of BlockTree:
\* whatever the tasks do, blocks are only added, sound ones, on top of blocks
\* that are there.
ImplementsBlockTree == Tree!Spec

=============================================================================
