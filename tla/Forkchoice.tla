----------------------------- MODULE Forkchoice -----------------------------
(***************************************************************************)
(* engine_forkchoiceUpdated: Engine::forkchoice_updated (engine.rs) over   *)
(* ForkchoiceValidator, ReorgHandler and CanonicalState, beside the block  *)
(* imports that write the same tables.                                     *)
(*                                                                         *)
(* Every write of the handler is a database transaction of its own, so the *)
(* handler is a sequence of steps: imports run between them, and a crash   *)
(* may fall between them.  The reads of a walk go together in one step.    *)
(*                                                                         *)
(* The tables here are those that decide which block is canonical.  The    *)
(* writes of the same handler to accounts, change sets, difficulties and   *)
(* lookups are in module Execution.                                        *)
(***************************************************************************)
EXTENDS Naturals, Sequences

CONSTANTS
    Hash,       \* the blocks of the instance, identified by header hash
    None,       \* B256::ZERO, and an absent table entry
    Genesis,
    Parent,     \* header.parent_hash; Parent[Genesis] is never followed
    Height,     \* header.number
    Tasks,      \* concurrent forkchoiceUpdated calls
    SafeArgs,   \* what the consensus client sends as safe and as finalized
    Lowering,   \* may the consensus client name a head below the current one?
    Buildable,  \* blocks the payload builder may produce
    Importable, \* blocks that arrive by newPayload, sync or gossip
    Refusable,  \* blocks that a check or their execution may refuse
    Faults,     \* which database writes may fail: "revert", "promote", "mark"
    MaxCrashes  \* bound: restarts of the node

Heights == {Height[b] : b \in Hash}
MaybeHash == Hash \cup {None}
Reasons == {"none", "Soft", "Hard"}

ASSUME BlockAssumption ==
    /\ None \notin Hash
    /\ Genesis \in Hash
    /\ Parent \in [Hash -> Hash]
    /\ Height \in [Hash -> Nat]
    /\ Height[Genesis] = 0
    /\ SafeArgs \subseteq MaybeHash
    /\ Lowering \in BOOLEAN
    /\ Buildable \subseteq Hash
    /\ Importable \subseteq Hash
    /\ Refusable \subseteq Hash
    /\ Faults \subseteq {"revert", "promote", "mark"}
    /\ MaxCrashes \in Nat

\* The header chain from b down to genesis, b first.
Path[b \in Hash] == IF b = Genesis THEN <<b>> ELSE <<b>> \o Path[Parent[b]]

\* Hashes admit no cycle: following parents ends in genesis, heights counting.
ASSUME PathAssumption ==
    /\ Path \in [Hash -> Seq(Hash)]
    /\ \A b \in Hash : Path[b] = IF b = Genesis THEN <<b>> ELSE <<b>> \o Path[Parent[b]]
    /\ \A b \in Hash \ {Genesis} : Height[b] = Height[Parent[b]] + 1

VARIABLES
    stored,     \* headers and bodies in the main tables
    numbers,    \* HeaderNumbers
    payloads,   \* the Payloads table
    canon,      \* CanonicalHeads: height -> hash
    head, safe, finalized, \* CanonicalState, written through to the database
    headNumber, \* CanonicalState: the number that goes with head
    invalid,    \* BlockTree.invalid_blocks
    crashes,
    \* what happened before, read by no action:
    dropped,    \* blocks that a refusal took out of the Payloads table
    lowered,    \* a call named a head below the one of its time
    \* and, for each forkchoiceUpdated call:
    pc,
    reply,      \* the last answer given
    req,        \* the head of the call
    reqSafe, reqFin,
    old, oldNumber, oldSafe, oldFin, \* the state to roll back to
    branch,     \* ReorgContext.new_canonical_blocks, newest first
    todo,       \* the part of branch the running loop has left
    revertTo,   \* the common ancestor's height
    cursor      \* revert_to_height: the next height to revert

fcState == <<head, safe, finalized, headNumber>>
saved == <<old, oldNumber, oldSafe, oldFin>>
request == <<req, reqSafe, reqFin>>
plan == <<branch, revertTo>>
call == <<pc, reply, request, saved, plan, todo, cursor>>
tables == <<stored, numbers, payloads, canon>>
memory == <<invalid, crashes, dropped, lowered>>
vars == <<tables, fcState, memory, call>>

Labels == {"idle", "update", "resolve", "revert", "reverting", "promote",
           "mark", "unlist", "link", "number", "finish"}
Replies == {"none", "VALID", "INVALID", "SYNCING", "ERROR", "BADATTRIBUTES"}

TypeOK ==
    /\ stored \subseteq Hash
    /\ numbers \subseteq Hash
    /\ payloads \subseteq Hash
    /\ canon \in [Heights -> MaybeHash]
    /\ head \in Hash
    /\ safe \in MaybeHash
    /\ finalized \in MaybeHash
    /\ headNumber \in Heights
    /\ invalid \in [Hash -> Reasons]
    /\ crashes \in Nat
    /\ dropped \subseteq Hash
    /\ lowered \in BOOLEAN
    /\ pc \in [Tasks -> Labels]
    /\ reply \in [Tasks -> Replies]
    /\ req \in [Tasks -> Hash]
    /\ reqSafe \in [Tasks -> MaybeHash]
    /\ reqFin \in [Tasks -> MaybeHash]
    /\ old \in [Tasks -> Hash]
    /\ oldNumber \in [Tasks -> Heights]
    /\ oldSafe \in [Tasks -> MaybeHash]
    /\ oldFin \in [Tasks -> MaybeHash]
    /\ branch \in [Tasks -> Seq(Hash)]
    /\ todo \in [Tasks -> Seq(Hash)]
    /\ revertTo \in [Tasks -> Heights]
    /\ cursor \in [Tasks -> Heights]

\* A database initialised with genesis, which is in both tables, and its
\* CanonicalState.
Init ==
    /\ stored = {Genesis}
    /\ numbers = {Genesis}
    /\ payloads = {Genesis}
    /\ canon = [h \in Heights |-> IF h = 0 THEN Genesis ELSE None]
    /\ head = Genesis /\ safe = None /\ finalized = None /\ headNumber = 0
    /\ invalid = [b \in Hash |-> "none"]
    /\ crashes = 0
    /\ dropped = {}
    /\ lowered = FALSE
    /\ pc = [t \in Tasks |-> "idle"]
    /\ reply = [t \in Tasks |-> "none"]
    /\ req = [t \in Tasks |-> Genesis]
    /\ reqSafe = [t \in Tasks |-> None]
    /\ reqFin = [t \in Tasks |-> None]
    /\ old = [t \in Tasks |-> Genesis]
    /\ oldNumber = [t \in Tasks |-> 0]
    /\ oldSafe = [t \in Tasks |-> None]
    /\ oldFin = [t \in Tasks |-> None]
    /\ branch = [t \in Tasks |-> <<>>]
    /\ todo = [t \in Tasks |-> <<>>]
    /\ revertTo = [t \in Tasks |-> 0]
    /\ cursor = [t \in Tasks |-> 0]

-----------------------------------------------------------------------------
(* Imports: what PayloadProcessor does to the tables.                      *)

\* A block is executed on its parent and persisted, in one batch.
ImportPersist(b) ==
    /\ b \in Importable \ stored
    /\ Parent[b] \in stored
    /\ stored' = stored \cup {b}
    /\ numbers' = numbers \cup {b}
    /\ payloads' = payloads \ {b}
    /\ invalid' = [invalid EXCEPT ![b] = "none"]
    /\ UNCHANGED <<canon, fcState, crashes, dropped, lowered, call>>

\* A newPayload call for b was refused: for what was announced with it, or for
\* an ancestor.
Refused(b, reason) ==
    /\ b \in Importable \ stored
    /\ invalid' = [invalid EXCEPT ![b] = reason]
    /\ UNCHANGED <<tables, fcState, crashes, dropped, lowered, call>>

\* A check of the block itself, or its execution, failed: what the Payloads
\* table has of it is removed.
RefusedAndRemoved(b) ==
    /\ b \in Refusable \ stored
    /\ invalid' = [invalid EXCEPT ![b] = "Hard"]
    /\ payloads' = payloads \ {b}
    /\ dropped' = dropped \cup (payloads \cap {b})
    /\ UNCHANGED <<stored, numbers, canon, fcState, crashes, lowered, call>>

-----------------------------------------------------------------------------
(* Checks before anything is written.                                      *)

At(t, label) == pc[t] = label

\* determine_payload_status, and the look at the head's and at its parent's
\* invalidation.  buffered: the header is in the orphan pool.
SoftenedReply(reason) == IF reason = "Soft" THEN "SYNCING" ELSE "INVALID"

HeadReply(h, buffered) ==
    IF h \in stored THEN "VALID"
    ELSE IF invalid[h] # "none" THEN SoftenedReply(invalid[h])
    ELSE IF h \in payloads THEN "VALID"
    ELSE IF buffered /\ invalid[Parent[h]] # "none" THEN SoftenedReply(invalid[Parent[h]])
    ELSE "SYNCING"

IsCanonical(b) == b \in numbers /\ canon[Height[b]] = b

\* How far is_ancestor looks back.
AncestorWalk == 2048

\* ChainManager::is_ancestor: two canonical blocks are compared by number, and
\* the walk from h ends at the first canonical block, answering from the table,
\* or at a block nobody has.
IsAncestor(h, target) ==
    LET p == Path[h]
        stops == {i \in DOMAIN p :
                    \/ p[i] = target
                    \/ Height[p[i]] < Height[target]
                    \/ IsCanonical(p[i]) /\ canon[Height[target]] # None
                    \/ p[i] \notin stored \cup payloads}
    IN  \/ IsCanonical(h) /\ IsCanonical(target) /\ Height[target] <= Height[h]
        \/ \E i \in stops :
            /\ i <= AncestorWalk
            /\ \A j \in stops : i <= j
            /\ \/ p[i] = target
               \/ /\ Height[p[i]] >= Height[target]
                  /\ IsCanonical(p[i]) /\ canon[Height[target]] = target

\* Mutant of Accepts: numbers only.
AcceptsByNumber(target, b) ==
    b # None => b \in stored \cup payloads /\ Height[b] <= Height[target]

Accepts(target, b) ==
    b # None => /\ b \in stored \cup payloads
                /\ Height[b] <= Height[target]
                /\ IsAncestor(target, b)

CheckSafe(h, s) == Accepts(h, s)
CheckFinalized(h, s, f) == Accepts(IF s = None THEN h ELSE s, f)

Answer(t, r) == reply' = [reply EXCEPT ![t] = r]

\* A call that is answered without touching anything.
RefuseHead(t, h) ==
    /\ At(t, "idle")
    /\ \E buffered \in BOOLEAN :
        /\ HeadReply(h, buffered) # "VALID"
        /\ Answer(t, HeadReply(h, buffered))
    /\ UNCHANGED <<tables, fcState, memory, pc, request, saved, plan, todo, cursor>>

RefuseForkchoice(t, h, s, f) ==
    /\ At(t, "idle")
    /\ HeadReply(h, FALSE) = "VALID"
    /\ ~(CheckSafe(h, s) /\ CheckFinalized(h, s, f))
    /\ Answer(t, "ERROR")
    /\ UNCHANGED <<tables, fcState, memory, pc, request, saved, plan, todo, cursor>>

\* The call goes on, remembering the state to roll back to.
Accept(t, h, s, f) ==
    /\ At(t, "idle")
    /\ HeadReply(h, FALSE) = "VALID"
    /\ CheckSafe(h, s) /\ CheckFinalized(h, s, f)
    /\ pc' = [pc EXCEPT ![t] = "update"]
    /\ reply' = [reply EXCEPT ![t] = "none"]
    /\ req' = [req EXCEPT ![t] = h]
    /\ reqSafe' = [reqSafe EXCEPT ![t] = s]
    /\ reqFin' = [reqFin EXCEPT ![t] = f]
    /\ old' = [old EXCEPT ![t] = head]
    /\ oldNumber' = [oldNumber EXCEPT ![t] = headNumber]
    /\ oldSafe' = [oldSafe EXCEPT ![t] = safe]
    /\ oldFin' = [oldFin EXCEPT ![t] = finalized]
    /\ lowered' = (lowered \/ Height[h] < headNumber)
    /\ UNCHANGED <<tables, fcState, invalid, crashes, dropped, plan, todo, cursor>>

-----------------------------------------------------------------------------
(* The switch.                                                             *)

Goto(t, label) == pc' = [pc EXCEPT ![t] = label]

\* CanonicalState::update_state with the state of the call.
SetForkchoice(t) ==
    /\ head' = req[t] /\ safe' = reqSafe[t] /\ finalized' = reqFin[t]
    /\ headNumber' = Height[req[t]]

Restore(t) ==
    /\ head' = old[t] /\ safe' = oldSafe[t] /\ finalized' = oldFin[t]
    /\ headNumber' = oldNumber[t]

\* The call is answered, its locals are gone.
Return(t, r) ==
    /\ Goto(t, "idle")
    /\ Answer(t, r)
    /\ req' = [req EXCEPT ![t] = Genesis]
    /\ reqSafe' = [reqSafe EXCEPT ![t] = None]
    /\ reqFin' = [reqFin EXCEPT ![t] = None]
    /\ old' = [old EXCEPT ![t] = Genesis]
    /\ oldNumber' = [oldNumber EXCEPT ![t] = 0]
    /\ oldSafe' = [oldSafe EXCEPT ![t] = None]
    /\ oldFin' = [oldFin EXCEPT ![t] = None]
    /\ branch' = [branch EXCEPT ![t] = <<>>]
    /\ todo' = [todo EXCEPT ![t] = <<>>]
    /\ revertTo' = [revertTo EXCEPT ![t] = 0]
    /\ cursor' = [cursor EXCEPT ![t] = 0]

UpdateForkchoice(t) ==
    /\ At(t, "update")
    /\ SetForkchoice(t)
    /\ Goto(t, "resolve")
    /\ UNCHANGED <<tables, memory, reply, request, saved, plan, todo, cursor>>

\* The header is looked up again, and the rest skipped if it is gone meanwhile.
HeadGone(t, r) ==
    /\ At(t, "resolve")
    /\ req[t] \notin stored \cup payloads
    /\ Return(t, r)
    /\ UNCHANGED <<tables, fcState, memory>>

\* resolve_reorg: walk back from the new head to the old head, to a canonical
\* block, or to a block nobody has.
Stops(t) ==
    {i \in DOMAIN Path[req[t]] :
        LET b == Path[req[t]][i]
        IN  b = old[t] \/ IsCanonical(b) \/ b \notin stored \cup payloads}

\* Mutant of Planned: the branch without its oldest block.
PlannedShort(t, i) ==
    LET a == Path[req[t]][i]
        found == a = old[t] \/ IsCanonical(a)
        isReorg == found /\ i > 1 /\ a # old[t]
    IN  /\ branch' = [branch EXCEPT ![t] = SubSeq(Path[req[t]], 1, i - 2)]
        /\ revertTo' = [revertTo EXCEPT ![t] = IF isReorg /\ a \in stored THEN Height[a] ELSE 0]
        /\ Goto(t, IF isReorg THEN "revert" ELSE "promote")

\* Where the call goes from here: i is the position the walk stopped at.  The
\* height to revert to is read from the ancestor's header, 0 without one.
Planned(t, i) ==
    LET a == Path[req[t]][i]
        found == a = old[t] \/ IsCanonical(a)
        isReorg == found /\ i > 1 /\ a # old[t]
    IN  /\ branch' = [branch EXCEPT ![t] = SubSeq(Path[req[t]], 1, i - 1)]
        /\ revertTo' = [revertTo EXCEPT ![t] = IF isReorg /\ a \in stored THEN Height[a] ELSE 0]
        /\ Goto(t, IF isReorg THEN "revert" ELSE "promote")

ResolveReorg(t) ==
    /\ At(t, "resolve")
    /\ \E i \in Stops(t) : (\A j \in Stops(t) : i <= j) /\ Planned(t, i)
    /\ todo' = [todo EXCEPT ![t] = branch'[t]]
    /\ UNCHANGED <<tables, fcState, memory, reply, request, saved, cursor>>

\* revert_to_height asks CanonicalState for the height to start from.
BeginRevert(t) ==
    /\ At(t, "revert")
    /\ cursor' = [cursor EXCEPT ![t] = headNumber]
    /\ Goto(t, "reverting")
    /\ UNCHANGED <<tables, fcState, memory, reply, request, saved, plan, todo>>

\* The last write for one height takes its canonical entry out.
RevertHeight(t) ==
    /\ At(t, "reverting")
    /\ cursor[t] > revertTo[t]
    /\ canon' = [canon EXCEPT ![cursor[t]] = None]
    /\ cursor' = [cursor EXCEPT ![t] = @ - 1]
    /\ UNCHANGED <<stored, numbers, payloads, fcState, memory, pc, reply, request, saved, plan, todo>>

\* The head becomes the common ancestor for the time being.
RevertHead(t) ==
    /\ At(t, "reverting")
    /\ cursor[t] <= revertTo[t]
    /\ canon[revertTo[t]] # None
    /\ head' = canon[revertTo[t]]
    /\ headNumber' = revertTo[t]
    /\ Goto(t, "promote")
    /\ UNCHANGED <<tables, safe, finalized, memory, reply, request, saved, plan, todo, cursor>>

\* A failed revert rolls the forkchoice back.
RevertFails(t) ==
    /\ At(t, "reverting")
    /\ \/ "revert" \in Faults
       \/ cursor[t] <= revertTo[t] /\ canon[revertTo[t]] = None
    /\ Restore(t)
    /\ Return(t, "ERROR")
    /\ UNCHANGED <<tables, memory>>

\* Blocks of the branch that only the Payloads table has are executed again,
\* on the state root of a parent that must be in the main tables.
PromoteBlock(t) ==
    /\ At(t, "promote")
    /\ todo[t] # <<>>
    /\ Head(todo[t]) \in stored \/ Parent[Head(todo[t])] \in stored
    /\ todo' = [todo EXCEPT ![t] = Tail(@)]
    /\ UNCHANGED <<tables, fcState, memory, pc, reply, request, saved, plan, cursor>>

\* A failed promotion leaves the forkchoice as it is.
PromoteFails(t) ==
    /\ At(t, "promote")
    /\ todo[t] # <<>> /\ Head(todo[t]) \notin stored
    /\ "promote" \in Faults \/ Parent[Head(todo[t])] \notin stored
    /\ Return(t, "ERROR")
    /\ UNCHANGED <<tables, fcState, memory>>

PromoteDone(t) ==
    /\ At(t, "promote")
    /\ todo[t] = <<>>
    /\ todo' = [todo EXCEPT ![t] = branch[t]]
    /\ Goto(t, "mark")
    /\ UNCHANGED <<tables, fcState, memory, reply, request, saved, plan, cursor>>

\* mark_branch_canonical, oldest block first.
Marking(t) == todo[t][Len(todo[t])]

\* Mutant of InsertBlock: a block that is not in the main tables stays out.
InsertBlockNever(t) ==
    /\ At(t, "mark")
    /\ todo[t] # <<>>
    /\ Goto(t, "link")
    /\ UNCHANGED <<tables, fcState, memory, reply, request, saved, plan, todo, cursor>>

\* A block without a body is copied from the Payloads table, if it is there.
InsertBlock(t) ==
    /\ At(t, "mark")
    /\ todo[t] # <<>>
    /\ LET b == Marking(t)
           copied == b \in payloads \ stored
       IN  /\ stored' = IF copied THEN stored \cup {b} ELSE stored
           /\ numbers' = IF copied THEN numbers \cup {b} ELSE numbers
           /\ Goto(t, IF copied THEN "unlist" ELSE "link")
    /\ UNCHANGED <<payloads, canon, fcState, memory, reply, request, saved, plan, todo, cursor>>

RemovePayload(t) ==
    /\ At(t, "unlist")
    /\ payloads' = payloads \ {Marking(t)}
    /\ Goto(t, "link")
    /\ UNCHANGED <<stored, numbers, canon, fcState, memory, reply, request, saved, plan, todo, cursor>>

\* The canonical entry is written whether or not the block was found.
SetCanonical(t) ==
    /\ At(t, "link")
    /\ canon' = [canon EXCEPT ![Height[Marking(t)]] = Marking(t)]
    /\ Goto(t, "number")
    /\ UNCHANGED <<stored, numbers, payloads, fcState, memory, reply, request, saved, plan, todo, cursor>>

InsertHeaderNumber(t) ==
    /\ At(t, "number")
    /\ numbers' = numbers \cup {Marking(t)}
    /\ todo' = [todo EXCEPT ![t] = SubSeq(@, 1, Len(@) - 1)]
    /\ Goto(t, "mark")
    /\ UNCHANGED <<stored, payloads, canon, fcState, memory, reply, request, saved, plan, cursor>>

MarkFails(t) ==
    /\ pc[t] \in {"mark", "unlist", "link", "number"}
    /\ todo[t] # <<>> /\ "mark" \in Faults
    /\ Return(t, "ERROR")
    /\ UNCHANGED <<tables, fcState, memory>>

\* Mutant of MarkDone: the head itself is left to update_head_block.
MarkDoneBelowHead(t) ==
    /\ At(t, "mark")
    /\ Len(todo[t]) <= 1
    /\ Goto(t, "finish")
    /\ UNCHANGED <<tables, fcState, memory, reply, request, saved, plan, todo, cursor>>

MarkDone(t) ==
    /\ At(t, "mark")
    /\ todo[t] = <<>>
    /\ Goto(t, "finish")
    /\ UNCHANGED <<tables, fcState, memory, reply, request, saved, plan, todo, cursor>>

\* update_head_block, then the payload attributes: none or unusable ones (r),
\* or a payload that the builder starts on top of the new head.
Finish(t, r) ==
    /\ At(t, "finish")
    /\ SetForkchoice(t)
    /\ Return(t, r)
    /\ UNCHANGED <<tables, memory>>

FinishAndBuild(t, b) ==
    /\ At(t, "finish")
    /\ b \in Buildable \ (stored \cup payloads) /\ Parent[b] = req[t]
    /\ SetForkchoice(t)
    /\ payloads' = payloads \cup {b}
    /\ Return(t, "VALID")
    /\ UNCHANGED <<stored, numbers, canon, memory>>

-----------------------------------------------------------------------------
\* The process dies and starts again: the tables stay, CanonicalState::new
\* reads the forkchoice back.
Crash ==
    /\ crashes < MaxCrashes
    /\ crashes' = crashes + 1
    /\ headNumber' = IF head \in numbers THEN Height[head] ELSE 0
    /\ invalid' = [b \in Hash |-> "none"]
    /\ pc' = [t \in Tasks |-> "idle"]
    /\ reply' = [t \in Tasks |-> "none"]
    /\ req' = [t \in Tasks |-> Genesis]
    /\ reqSafe' = [t \in Tasks |-> None]
    /\ reqFin' = [t \in Tasks |-> None]
    /\ old' = [t \in Tasks |-> Genesis]
    /\ oldNumber' = [t \in Tasks |-> 0]
    /\ oldSafe' = [t \in Tasks |-> None]
    /\ oldFin' = [t \in Tasks |-> None]
    /\ branch' = [t \in Tasks |-> <<>>]
    /\ todo' = [t \in Tasks |-> <<>>]
    /\ revertTo' = [t \in Tasks |-> 0]
    /\ cursor' = [t \in Tasks |-> 0]
    /\ UNCHANGED <<tables, head, safe, finalized, dropped, lowered>>

Step(t) ==
    \/ UpdateForkchoice(t) \/ ResolveReorg(t)
    \/ BeginRevert(t) \/ RevertHeight(t) \/ RevertHead(t) \/ RevertFails(t)
    \/ PromoteBlock(t) \/ PromoteFails(t) \/ PromoteDone(t)
    \/ InsertBlock(t) \/ RemovePayload(t) \/ SetCanonical(t) \/ InsertHeaderNumber(t)
    \/ MarkFails(t) \/ MarkDone(t)
    \/ \E r \in {"VALID", "BADATTRIBUTES"} : HeadGone(t, r) \/ Finish(t, r)
    \/ \E b \in Hash : FinishAndBuild(t, b)

\* The consensus client's calls.
Call(t) ==
    \E h \in Hash :
        /\ Lowering \/ Height[h] >= headNumber
        /\ \/ RefuseHead(t, h)
           \/ \E s, f \in SafeArgs : RefuseForkchoice(t, h, s, f) \/ Accept(t, h, s, f)

Import ==
    \E b \in Hash : \/ ImportPersist(b) \/ RefusedAndRemoved(b)
                    \/ \E reason \in {"Soft", "Hard"} : Refused(b, reason)

Next == Import \/ Crash \/ \E t \in Tasks : Call(t) \/ Step(t)

Spec == Init /\ [][Next]_vars

-----------------------------------------------------------------------------
(* Properties.                                                             *)

Quiet == \A t \in Tasks : At(t, "idle")

\* A canonical entry names a block of that height whose header and body are in
\* the main tables, whatever calls, imports, failed writes and crashes
\* interleave, unless a refused newPayload took that block out of the Payloads
\* table: mark_branch_canonical writes the entry without looking.
CanonicalStored ==
    \A n \in Heights :
        canon[n] # None => canon[n] \in stored \cup dropped /\ Height[canon[n]] = n

\* The persisted head is a block the node can serve, or one that a refused
\* newPayload took away.
HeadKnown == head \in stored \cup payloads \cup dropped

\* Between calls, the head is the canonical block of its height, also after a
\* switch to a lower head: eth_getBlockByNumber with the number of "latest"
\* answers the block that "latest" does.
HeadCanonical == Quiet => canon[Height[head]] = head

\* Between calls, while no call has named a head below the current one, the head
\* and every ancestor of it are the canonical blocks of their heights: what
\* mark_branch_canonical and revert_to_height are for.
HeadPathCanonical ==
    Quiet /\ ~lowered =>
        \A i \in DOMAIN Path[head] : canon[Height[Path[head][i]]] = Path[head][i]

\* Between calls, while no call has named a head below the current one, safe is
\* an ancestor of the head and finalized one of safe (of the head if there is no
\* safe block), as ForkchoiceValidator demands.
OnPath(b, h) == \E i \in DOMAIN Path[h] : Path[h][i] = b

ForkchoiceOrdered ==
    Quiet /\ ~lowered =>
        /\ safe # None => OnPath(safe, head)
        /\ finalized # None => OnPath(finalized, IF safe = None THEN head ELSE safe)

=============================================================================
