-------------------------------- MODULE Sync --------------------------------
(***************************************************************************)
(* Block synchronisation: SyncController, SyncRegistry, Downloader and     *)
(* SyncOrchestrator (wasix_eth_core/src/sync/), with the block half of the *)
(* gossip that SyncService hands to the controller.                        *)
(*                                                                         *)
(* Two background tasks run sync_step, the controller's own loop and the   *)
(* orchestrator; a try_lock keeps one of them out.  Gossip handlers and    *)
(* the consensus client work beside them without any lock.  An action is   *)
(* the code between two awaits whose results the code relies on.  Block    *)
(* import and forkchoice_updated are one step here: their own steps are    *)
(* the subject of PayloadProcessor and Forkchoice.  Peers are honest: they *)
(* serve the blocks of their chain or fail to answer.                      *)
(***************************************************************************)
EXTENDS Integers, Sequences

CONSTANTS
    Hash,       \* the blocks of the instance, identified by header hash
    Genesis,    \* the block the database is initialised with
    Zero,       \* B256::ZERO, the target that asks for a better peer only
    NoTask,     \* the sync lock is free
    Parent,     \* header.parent_hash; Parent[Genesis] is never followed
    Height,     \* header.number
    Td,         \* total difficulty of the chain up to a block
    Faulty,     \* blocks that fail a check of their own
    Buildable,  \* blocks this node may build itself
    Paris,      \* the height from which get_active_fork answers Paris or later
    PeerOrder,  \* the peers, in the order get_active_peers lists them
    PeerHead,   \* the block at the tip of a peer's chain
    PeerTd,     \* total difficulty in a peer's Status; 0 for eth/69
    Controller, \* the task of SyncController::start
    Orchestrator, \* the task of SyncOrchestrator::run
    Gossips,    \* tasks that handle gossip messages
    MaxBatch,   \* blocks collected before a walk is cut; 100 in the code
    MaxRetries, \* 5 in the code
    RangeSize,  \* headers of one range request; 128 in the code
    MaxCalls    \* bound: calls, messages and connection changes from outside

Workers == {Controller, Orchestrator}
Peers == {PeerOrder[i] : i \in DOMAIN PeerOrder}
Reasons == {"none", "Soft", "Hard"}

\* The header chain from b down to genesis, b first.
Path[b \in Hash] == IF b = Genesis THEN <<b>> ELSE <<b>> \o Path[Parent[b]]

Ancestry == [b \in Hash |-> {Path[b][i] : i \in DOMAIN Path[b]}]
PostMerge(b) == Height[b] >= Paris

ASSUME SyncAssumption ==
    /\ Genesis \in Hash
    /\ Zero \notin Hash
    /\ Parent \in [Hash -> Hash]
    /\ Height \in [Hash -> Nat]
    /\ Td \in [Hash -> Nat]
    /\ Path \in [Hash -> Seq(Hash)]
    /\ \A b \in Hash : Path[b] = IF b = Genesis THEN <<b>> ELSE <<b>> \o Path[Parent[b]]
    /\ Faulty \subseteq Hash \ {Genesis}
    /\ Buildable \subseteq Hash \ (Faulty \cup {Genesis})
    /\ PeerOrder \in Seq(Peers) /\ PeerOrder # <<>>
    /\ PeerHead \in [Peers -> Hash]
    /\ \A p \in Peers : Height[PeerHead[p]] < Len(Path[PeerHead[p]])
    /\ PeerTd \in [Peers -> Nat]
    /\ {MaxBatch, MaxRetries, RangeSize, MaxCalls} \subseteq Nat

VARIABLES
    stored,     \* blocks in the main tables
    payloads,   \* the Payloads table: blocks built here and not yet imported
    orphans,    \* BlockTree.blocks: blocks waiting for their parent
    invalid,    \* BlockTree.invalid_blocks; "none" when absent
    importing,  \* processing_payloads: imports of the consensus client under way
    requests,   \* spawned add_target calls for missing parents
    head,       \* the canonical head
    status,     \* the sync status of ChainManager: "None" or "Info"
    targets,    \* SyncRegistry.targets
    permit,     \* the Notify holds a permit
    lock,       \* sync_lock
    work,       \* the local state of the sync tasks
    gossip,     \* the local state of the gossip tasks
    seen,       \* seen_blocks
    sessions,   \* peers with an active session
    table,      \* peers with a row in the peer table
    calls,      \* outside events so far, for MaxCalls
    lost,       \* history: blocks nobody looks for any more, given up, cleared, skipped or evicted
    built       \* history: blocks that were built here

chain == <<stored, payloads, orphans, invalid, importing, requests>>
registry == <<targets, permit>>
net == <<sessions, table>>
history == <<lost, built>>
vars == <<chain, head, status, registry, lock, work, gossip, seen, net, calls, history>>

\* ChainManager::has_block.
Known == stored \cup orphans \cup payloads

Idle == [pc |-> "idle", target |-> [hash |-> Zero, retries |-> 0], at |-> Genesis,
         peer |-> PeerOrder[1], current |-> Genesis, batch |-> <<>>, last |-> Zero]
Quiet == [pc |-> "idle", blk |-> Genesis, peer |-> PeerOrder[1], announced |-> FALSE]

\* A node with genesis only.  The rows of the peer table outlive the sessions.
Init ==
    /\ stored = {Genesis}
    /\ payloads = {Genesis}
    /\ orphans = {}
    /\ invalid = [h \in Hash |-> "none"]
    /\ importing = {}
    /\ requests = {}
    /\ head = Genesis
    /\ status = "None"
    /\ targets = <<>>
    /\ permit = FALSE
    /\ lock = NoTask
    /\ work = [w \in Workers |-> Idle]
    /\ gossip = [g \in Gossips |-> Quiet]
    /\ seen = {}
    /\ sessions = {}
    /\ table = Peers
    /\ calls = 0
    /\ lost = {}
    /\ built = {}

-----------------------------------------------------------------------------
(* Import, as new_payload_internal answers it.                              *)

\* The blocks waiting above b that its import makes importable, and those of
\* them whose own check fails then.
Above(b) == {o \in orphans : b \in Ancestry[o] /\
                             \A c \in Ancestry[o] \ Ancestry[b] : c \in orphans}
Connects(b) == {o \in Above(b) : Ancestry[o] \cap Faulty = {}}
Fails(b) == {o \in Above(b) \cap Faulty : Parent[o] \in Connects(b) \cup {b}}

InvalidAncestor(b) ==
    \E c \in Ancestry[b] \ {b} :
        /\ invalid[c] # "none"
        /\ \A d \in Ancestry[b] \ (Ancestry[c] \cup {b}) : d \in Known

Mark(hashes, reason) == [h \in Hash |-> IF h \in hashes THEN reason ELSE invalid[h]]

Outcome(ok, newStored, newOrphans, newInvalid, request) ==
    [ok |-> ok, stored |-> newStored, orphans |-> newOrphans, invalid |-> newInvalid,
     request |-> request]

Rejected(b, marks, reason) ==
    Outcome(FALSE, stored, orphans \ marks, Mark(marks, reason), {})

\* Another task imports the block, or a stored block of its height.
Busy(b) ==
    \/ b \in importing
    \/ \E h \in importing \cap stored : h # b /\ Height[h] = Height[b]

\* Mutant of Imported: what waits above a block is stored with it unseen.
ImportedUnchecked(b) ==
    IF b \in stored THEN Outcome(TRUE, stored, orphans, invalid, {})
    ELSE IF Parent[b] \in stored
    THEN Outcome(TRUE, stored \cup {b} \cup Above(b), orphans \ ({b} \cup Above(b)), invalid, {})
    ELSE Outcome(TRUE, stored, orphans \cup {b}, invalid, {Parent[b]} \ Known)

Imported(b) ==
    IF b \in stored THEN Outcome(TRUE, stored, orphans, invalid, {})
    ELSE IF invalid[b] = "Hard" THEN Rejected(b, {}, "Hard")
    ELSE IF invalid[Parent[b]] # "none" THEN Rejected(b, {b}, invalid[Parent[b]])
    ELSE IF InvalidAncestor(b) THEN Rejected(b, {b} \cup Above(b), "Hard")
    ELSE IF Parent[b] \notin stored
    THEN Outcome(TRUE, stored, orphans \cup {b}, invalid, {Parent[b]} \ Known)
    ELSE IF b \in Faulty THEN Rejected(b, {b}, "Hard")
    ELSE Outcome(TRUE, stored \cup {b} \cup Connects(b),
                 orphans \ ({b} \cup Connects(b) \cup Fails(b)),
                 [Mark(Fails(b), "Hard") EXCEPT ![b] = "none"], {})

\* Engine::import_block: a block another task is importing is left to it.
ImportBlock(b) ==
    IF Busy(b) THEN Outcome(TRUE, stored, orphans, invalid, {}) ELSE Imported(b)

\* What an import takes out of the pool without storing it.
Evicted(out) == orphans \ (out.stored \cup out.orphans)

\* Storing a block takes it out of the Payloads table in the same batch.
Install(out) ==
    /\ stored' = out.stored
    /\ payloads' = payloads \ (out.stored \ stored)
    /\ orphans' = out.orphans
    /\ requests' = requests \cup out.request

\* forkchoice_updated without attributes adopts a head it finds stored or
\* built here, unless it is marked.  A block built here is stored then, and
\* what waits above it stays where it is.
Adopts(h) == h \in stored \cup payloads /\ invalid[h] = "none"

SetHead(h) ==
    LET promoted == {x \in {h} \ stored : Adopts(h)}
    IN  /\ head' = IF Adopts(h) THEN h ELSE head
        /\ stored' = stored \cup promoted
        /\ payloads' = payloads \ promoted
        /\ UNCHANGED <<orphans, invalid, importing, requests>>

ForkchoiceUpdated(h) ==
    /\ SetHead(h)
    /\ status' = IF Adopts(h) THEN "None" ELSE status

-----------------------------------------------------------------------------
(* SyncRegistry                                                            *)

TargetHashes == {targets[i].hash : i \in DOMAIN targets}

\* add_target_with_retries: known blocks and hashes already queued are dropped.
AddTarget(h, retries) ==
    IF h \in Known \/ h \in TargetHashes THEN UNCHANGED registry
    ELSE /\ targets' = Append(targets, [hash |-> h, retries |-> retries])
         /\ permit' = TRUE

\* The spawned call of validate_parent_block arrives.
AddRequested(h) ==
    /\ h \in requests
    /\ requests' = requests \ {h}
    /\ AddTarget(h, 0)
    /\ UNCHANGED <<stored, payloads, orphans, invalid, importing, head, status, lock, work, gossip,
                   seen, net, calls, history>>

-----------------------------------------------------------------------------
(* sync_step                                                               *)

At(w, label) == work[w].pc = label
Goto(w, label) == work' = [work EXCEPT ![w].pc = label]

\* sync_step returns: the guard of sync_lock is dropped.
Return(w) ==
    /\ work' = [work EXCEPT ![w] = Idle]
    /\ lock' = NoTask

\* The controller's loop comes round after a second or a notification, the
\* orchestrator's only after a notification, and only with targets queued.
\* The head is read before the lock is tried.
Wake(w) ==
    /\ At(w, "idle")
    /\ w = Orchestrator => permit
    /\ permit' \in IF w = Orchestrator THEN {FALSE} ELSE {FALSE, permit}
    /\ work' = IF w = Orchestrator /\ targets = <<>> THEN work
               ELSE [work EXCEPT ![w].pc = "lock", ![w].at = head]
    /\ UNCHANGED <<chain, head, status, targets, lock, gossip, seen, net, calls, history>>

Connected(p) == p \in sessions

\* get_best_peer: the first peer no later one beats; a zero difficulty (eth/69)
\* is compared by height alone.
Beats(p, best) ==
    LET height(q) == Height[PeerHead[q]]
    IN  IF best = {} THEN PeerTd[p] > 0 \/ height(p) > 0
        ELSE \E q \in best : \/ PeerTd[p] > PeerTd[q]
                             \/ PeerTd[p] \in {0, PeerTd[q]} /\ height(p) > height(q)

BestPeer ==
    LET bestOf[i \in 0 .. Len(PeerOrder)] ==
            IF i = 0 THEN {}
            ELSE IF Connected(PeerOrder[i]) /\ Beats(PeerOrder[i], bestOf[i - 1])
            THEN {PeerOrder[i]} ELSE bestOf[i - 1]
    IN  {p \in Peers : p \in bestOf[Len(PeerOrder)]}

\* Where a specific target is looked for first: the best peer, else any peer of
\* the table.  Every caller of add_target leaves the affinity empty.
SyncPeers == IF BestPeer # {} THEN BestPeer ELSE table \cup sessions

\* Mutant of AfterFailure: the target is not put back.
ForgetTarget(w) ==
    /\ UNCHANGED <<registry, lost>>
    /\ Goto(w, "best")

\* Mutant of AfterFailure: the retry is not counted.
AfterFailureUncounted(w) ==
    LET target == work[w].target
    IN  /\ IF target.retries < MaxRetries
           THEN AddTarget(target.hash, target.retries) /\ UNCHANGED lost
           ELSE lost' = lost \cup {target.hash} /\ UNCHANGED registry
        /\ Goto(w, "best")

\* What follows a failed attempt at a target: five retries, then it is dropped.
AfterFailure(w) ==
    LET target == work[w].target
    IN  /\ IF target.retries < MaxRetries
           THEN AddTarget(target.hash, target.retries + 1) /\ UNCHANGED lost
           ELSE lost' = lost \cup {target.hash} /\ UNCHANGED registry
        /\ Goto(w, "best")

\* The same after clear_targets, which drops what other callers had queued.
AfterClear(w) ==
    LET target == work[w].target
        again == target.retries < MaxRetries /\ target.hash \notin Known'
    IN  /\ targets' = IF again
                      THEN <<[hash |-> target.hash, retries |-> target.retries + 1]>>
                      ELSE <<>>
        /\ permit' = (permit \/ again)
        /\ lost' = lost \cup TargetHashes \cup (orphans \ (stored' \cup orphans')) \cup
                   (IF target.retries < MaxRetries THEN {} ELSE {target.hash})
        /\ Goto(w, "best")

\* try_lock fails: the other task is at it.
StepSkip(w) ==
    /\ At(w, "lock")
    /\ lock # NoTask
    /\ work' = [work EXCEPT ![w] = Idle]
    /\ UNCHANGED <<chain, head, status, registry, lock, gossip, seen, net, calls, history>>

\* The lock is taken; without a specific target only the peers are compared.
StepLock(w) ==
    /\ At(w, "lock")
    /\ lock = NoTask
    /\ targets # <<>> => Head(targets).hash = Zero
    /\ lock' = w
    /\ targets' = IF targets = <<>> THEN targets ELSE Tail(targets)
    /\ Goto(w, "best")
    /\ UNCHANGED <<chain, head, status, permit, gossip, seen, net, calls, history>>

StepTarget(w) ==
    /\ At(w, "lock")
    /\ lock = NoTask
    /\ targets # <<>>
    /\ LET target == Head(targets)
       IN  /\ target.hash # Zero
           /\ \E label \in {IF SyncPeers = {} THEN "failed" ELSE "walk"},
                 p \in IF SyncPeers = {} THEN {PeerOrder[1]} ELSE SyncPeers :
              work' = [work EXCEPT ![w].pc = label, ![w].target = target, ![w].peer = p,
                                   ![w].current = target.hash]
    /\ lock' = w
    /\ targets' = Tail(targets)
    /\ UNCHANGED <<chain, head, status, permit, gossip, seen, net, calls, history>>

\* No peer for the target, or no peer returned one of its blocks.
StepFailed(w) ==
    /\ At(w, "failed")
    /\ AfterFailure(w)
    /\ UNCHANGED <<chain, head, status, lock, gossip, seen, net, calls, built>>

-----------------------------------------------------------------------------
(* fetch_ancestors                                                         *)

\* The branch is known to be bad: the requested head is marked too, and every
\* target is cleared.
WalkInvalid(w) ==
    LET current == work[w].current
        marked == {work[w].target.hash} \ {current}
    IN  /\ At(w, "walk")
        /\ current \notin stored
        /\ invalid[current] = "Hard"
        /\ invalid' = Mark(marked, "Hard")
        /\ orphans' = orphans \ marked
        /\ UNCHANGED <<stored, payloads, importing, requests, head, status, lock, gossip, seen,
                       net, calls, built>>
        /\ AfterClear(w)

\* The next block down is stored, or must be fetched; a Soft mark is removed.
Walk(w) ==
    LET current == work[w].current
    IN  /\ At(w, "walk")
        /\ current \in stored \/ invalid[current] # "Hard"
        /\ invalid' = IF current \in stored THEN invalid ELSE Mark({current}, "none")
        /\ Goto(w, IF current \in stored THEN "ancestors" ELSE "download")
        /\ UNCHANGED <<stored, payloads, orphans, importing, requests, head, status, registry,
                       lock, gossip, seen, net, calls, history>>

\* download_block_by_hash from the chosen peer, else from any other; every
\* request may also time out or find its session closed.
Serves(p, b) == Connected(p) /\ b \in Ancestry[PeerHead[p]]

DownloadFails(w) ==
    /\ At(w, "download")
    /\ Goto(w, "failed")
    /\ UNCHANGED <<chain, head, status, registry, lock, gossip, seen, net, calls, history>>

Download(w) ==
    LET b == work[w].current
    IN  /\ At(w, "download")
        /\ \E p \in {work[w].peer} \cup table \cup sessions : Serves(p, b)
        /\ work' = [work EXCEPT ![w].pc = IF Len(work[w].batch) >= MaxBatch THEN "ancestors"
                                          ELSE "walk",
                                ![w].batch = Append(@, b),
                                ![w].current = Parent[b]]
        /\ UNCHANGED <<chain, head, status, registry, lock, gossip, seen, net, calls, history>>

\* The collected blocks, oldest first.  A block that import_block skips because
\* of another one of its height counts as processed.
Oldest(w) == work[w].batch[Len(work[w].batch)]

Ancestor(w) ==
    /\ At(w, "ancestors")
    /\ work[w].batch # <<>>
    /\ LET b == Oldest(w)
           out == IF b \in Known THEN Outcome(TRUE, stored, orphans, invalid, {})
                  ELSE ImportBlock(b)
           marked == {work[w].target.hash} \ {b}
       IN  /\ stored' = out.stored
           /\ payloads' = payloads \ (out.stored \ stored)
           /\ requests' = requests \cup out.request
           /\ status' = IF b \in Known THEN status ELSE "None"
           /\ IF out.ok
              THEN /\ invalid' = out.invalid
                   /\ orphans' = out.orphans
                   /\ work' = [work EXCEPT ![w].batch = SubSeq(@, 1, Len(@) - 1), ![w].last = b]
                   /\ lost' = lost \cup Evicted(out) \cup
                              (IF b \notin Known \cup importing /\ Busy(b) THEN {b} ELSE {})
                   /\ UNCHANGED registry
              ELSE /\ invalid' = [h \in Hash |-> IF h \in marked THEN "Hard"
                                                 ELSE out.invalid[h]]
                   /\ orphans' = out.orphans \ marked
                   /\ AfterClear(w)
    /\ UNCHANGED <<importing, head, lock, gossip, seen, net, calls, built>>

\* Mutant of AncestorsDone: the head follows whatever the fork.
AncestorsDoneMoves(w) ==
    /\ At(w, "ancestors")
    /\ work[w].batch = <<>>
    /\ IF work[w].last = Zero THEN UNCHANGED <<chain, head, status>>
       ELSE ForkchoiceUpdated(work[w].last)
    /\ Goto(w, "best")
    /\ UNCHANGED <<registry, lock, gossip, seen, net, calls, history>>

\* From Paris on the head is left to the consensus client.
AncestorsDone(w) ==
    /\ At(w, "ancestors")
    /\ work[w].batch = <<>>
    /\ IF work[w].last = Zero \/ PostMerge(work[w].last) THEN UNCHANGED <<chain, head, status>>
       ELSE ForkchoiceUpdated(work[w].last)
    /\ Goto(w, "best")
    /\ UNCHANGED <<registry, lock, gossip, seen, net, calls, history>>

-----------------------------------------------------------------------------
(* The second half of sync_step, and sync_range                            *)

\* Against the head as it was when the step began.
PeerIsBetter(p, local) ==
    \/ PeerTd[p] > Td[local]
    \/ PeerTd[p] \in {0, Td[local]} /\ Height[PeerHead[p]] > Height[local]

StepBest(w) ==
    /\ At(w, "best")
    /\ IF \E p \in BestPeer : PeerIsBetter(p, work[w].at)
       THEN /\ \E p \in BestPeer :
                  work' = [work EXCEPT ![w] = [Idle EXCEPT !.pc = "headers", !.peer = p,
                                                           !.at = work[w].at]]
            /\ UNCHANGED <<status, lock>>
       ELSE /\ status' = IF BestPeer = {} THEN status ELSE "None"
            /\ Return(w)
    /\ UNCHANGED <<chain, head, registry, gossip, seen, net, calls, history>>

\* The peer's canonical headers from the height above the local one.
RangeOf(p, local) ==
    LET up == Height[PeerHead[p]] - Height[local]
        size == IF up > RangeSize THEN RangeSize ELSE IF up > 0 THEN up ELSE 0
    IN  [i \in 1 .. size |-> Path[PeerHead[p]][up - i + 1]]

\* The request fails; or the peer has nothing there, and the status is kept.
HeadersFail(w) ==
    /\ At(w, "headers")
    /\ status' = "None"
    /\ Return(w)
    /\ UNCHANGED <<chain, head, registry, gossip, seen, net, calls, history>>

Headers(w) ==
    /\ At(w, "headers")
    /\ Connected(work[w].peer)
    /\ LET range == RangeOf(work[w].peer, work[w].at)
       IN  IF range = <<>> THEN Return(w) /\ UNCHANGED status
           ELSE /\ work' = [work EXCEPT ![w].pc = "bodies", ![w].batch = range]
                /\ status' = "Info"
                /\ UNCHANGED lock
    /\ UNCHANGED <<chain, head, registry, gossip, seen, net, calls, history>>

\* The request fails, or answers fewer bodies than asked for.
BodiesFail(w) ==
    /\ At(w, "bodies")
    /\ status' = "None"
    /\ Return(w)
    /\ UNCHANGED <<chain, head, registry, gossip, seen, net, calls, history>>

Bodies(w) ==
    /\ At(w, "bodies")
    /\ Connected(work[w].peer)
    /\ Goto(w, "range")
    /\ UNCHANGED <<chain, head, status, registry, lock, gossip, seen, net, calls, history>>

RangeBlock(w) ==
    /\ At(w, "range")
    /\ work[w].batch # <<>>
    /\ LET b == Head(work[w].batch)
           out == IF b \in Known THEN Outcome(TRUE, stored, orphans, invalid, {})
                  ELSE ImportBlock(b)
       IN  /\ Install(out)
           /\ invalid' = out.invalid
           /\ status' = IF b \in Known THEN status ELSE "None"
           /\ IF out.ok
              THEN /\ work' = [work EXCEPT ![w].batch = Tail(@), ![w].last = b]
                   /\ UNCHANGED lock
              ELSE Return(w)
           /\ lost' = lost \cup Evicted(out)
    /\ UNCHANGED <<importing, head, registry, gossip, seen, net, calls, built>>

RangeDone(w) ==
    /\ At(w, "range")
    /\ work[w].batch = <<>>
    /\ IF PostMerge(work[w].last) THEN UNCHANGED <<chain, head>> ELSE SetHead(work[w].last)
    /\ status' = "None"
    /\ Return(w)
    /\ UNCHANGED <<registry, gossip, seen, net, calls, history>>

-----------------------------------------------------------------------------
(* Gossip: handle_announced_block_hashes and process_gossip_block           *)

GossipAt(g, label) == gossip[g].pc = label
GossipTo(g, label) == gossip' = [gossip EXCEPT ![g].pc = label]
GossipEnds(g) == gossip' = [gossip EXCEPT ![g] = Quiet]

Outside == calls < MaxCalls /\ calls' = calls + 1

\* A NewBlock message of a current session.
GossipBlock(g, p, b) ==
    /\ GossipAt(g, "idle")
    /\ Serves(p, b)
    /\ Outside
    /\ gossip' = [gossip EXCEPT ![g] = [pc |-> "import", blk |-> b, peer |-> p,
                                        announced |-> FALSE]]
    /\ UNCHANGED <<chain, head, status, registry, lock, work, seen, net, history>>

\* An announced hash is taken up once; a block that is known is left at that.
GossipHash(g, p, b) ==
    /\ GossipAt(g, "idle")
    /\ Serves(p, b)
    /\ b \notin seen
    /\ Outside
    /\ seen' = seen \cup {b}
    /\ gossip' = IF b \in Known THEN gossip
                 ELSE [gossip EXCEPT ![g] = [pc |-> "download", blk |-> b, peer |-> p,
                                             announced |-> TRUE]]
    /\ UNCHANGED <<chain, head, status, registry, lock, work, net, history>>

GossipDownload(g) ==
    /\ GossipAt(g, "download")
    /\ Serves(gossip[g].peer, gossip[g].blk)
    /\ GossipTo(g, "import")
    /\ UNCHANGED <<chain, head, status, registry, lock, work, seen, net, calls, history>>

\* The hash leaves seen_blocks so that the next announcement is followed.
GossipDownloadFails(g) ==
    /\ GossipAt(g, "download")
    /\ seen' = seen \ {gossip[g].blk}
    /\ GossipEnds(g)
    /\ UNCHANGED <<chain, head, status, registry, lock, work, net, calls, history>>

\* Import; from Paris on, and after an error, that is all.
GossipImport(g) ==
    /\ GossipAt(g, "import")
    /\ LET b == gossip[g].blk
           out == IF b \in Known THEN Outcome(FALSE, stored, orphans, invalid, {})
                  ELSE ImportBlock(b)
       IN  /\ Install(out)
           /\ invalid' = out.invalid
           /\ status' = IF b \in Known THEN status ELSE "None"
           /\ IF out.ok /\ ~PostMerge(b) THEN GossipTo(g, "head") ELSE GossipEnds(g)
           /\ lost' = lost \cup Evicted(out)
    /\ UNCHANGED <<importing, head, registry, lock, work, seen, net, calls, built>>

\* Before Paris the head moves if the block extends it: a check, then an await.
GossipReadHead(g) ==
    /\ GossipAt(g, "head")
    /\ LET b == gossip[g].blk
       IN  IF b \in stored /\ Height[b] = Height[head] + 1 /\ Parent[b] = head
           THEN GossipTo(g, "move") ELSE GossipEnds(g)
    /\ UNCHANGED <<chain, head, status, registry, lock, work, seen, net, calls, history>>

GossipMoveHead(g) ==
    /\ GossipAt(g, "move")
    /\ ForkchoiceUpdated(gossip[g].blk)
    /\ GossipEnds(g)
    /\ UNCHANGED <<registry, lock, work, seen, net, calls, history>>

-----------------------------------------------------------------------------
(* The consensus client and the peers                                      *)

\* engine_newPayload begins, and ends.
NewPayload(b) ==
    /\ b # Genesis
    /\ ~Busy(b)
    /\ Outside
    /\ importing' = importing \cup {b}
    /\ UNCHANGED <<stored, payloads, orphans, invalid, requests, head, status, registry, lock, work,
                   gossip, seen, net, history>>

NewPayloadEnds(b) ==
    /\ b \in importing
    /\ importing' = importing \ {b}
    /\ LET out == Imported(b)
       IN  /\ Install(out) /\ invalid' = out.invalid
           /\ lost' = lost \cup Evicted(out) \cup ({b} \ (out.stored \cup out.orphans))
    /\ UNCHANGED <<head, status, registry, lock, work, gossip, seen, net, calls, built>>

\* A call whose arguments do not match its block: a Soft mark, and the block
\* leaves the orphan pool.
NewPayloadSoft(b) ==
    /\ b \notin stored
    /\ Outside
    /\ invalid' = Mark({b}, "Soft")
    /\ orphans' = orphans \ {b}
    /\ lost' = IF b \in orphans THEN lost \cup {b} ELSE lost
    /\ UNCHANGED <<stored, payloads, importing, requests, head, status, registry, lock, work,
                   gossip, seen, net, built>>

NewHead(b) ==
    /\ b \in (stored \cup payloads) \ {head}
    /\ Outside
    /\ ForkchoiceUpdated(b)
    /\ UNCHANGED <<registry, lock, work, gossip, seen, net, history>>

\* forkchoiceUpdated with attributes: a block that nobody has seen is built on
\* the head and put into the Payloads table.
BuildPayload(b) ==
    /\ b \in Buildable \ Known
    /\ Parent[b] = head
    /\ Outside
    /\ payloads' = payloads \cup {b}
    /\ built' = built \cup {b}
    /\ UNCHANGED <<stored, orphans, invalid, importing, requests, head, status, registry, lock,
                   work, gossip, seen, net, lost>>

\* Engine::trigger_sync.
TriggerSync ==
    /\ Outside
    /\ AddTarget(Zero, 0)
    /\ UNCHANGED <<chain, head, status, lock, work, gossip, seen, net, history>>

Connect(p) ==
    /\ ~Connected(p)
    /\ Outside
    /\ sessions' = sessions \cup {p}
    /\ table' = table \cup {p}
    /\ UNCHANGED <<chain, head, status, registry, lock, work, gossip, seen, history>>

Disconnect(p) ==
    /\ Connected(p)
    /\ Outside
    /\ sessions' = sessions \ {p}
    /\ table' = table \ {p}
    /\ UNCHANGED <<chain, head, status, registry, lock, work, gossip, seen, history>>

-----------------------------------------------------------------------------
Step(w) ==
    \/ Wake(w) \/ StepSkip(w) \/ StepLock(w) \/ StepTarget(w) \/ StepFailed(w)
    \/ WalkInvalid(w) \/ Walk(w) \/ DownloadFails(w) \/ Download(w)
    \/ Ancestor(w) \/ AncestorsDone(w)
    \/ StepBest(w) \/ HeadersFail(w) \/ Headers(w) \/ BodiesFail(w) \/ Bodies(w)
    \/ RangeBlock(w) \/ RangeDone(w)

Gossip(g) ==
    \/ GossipDownload(g) \/ GossipDownloadFails(g) \/ GossipImport(g)
    \/ GossipReadHead(g) \/ GossipMoveHead(g)

Next ==
    \/ \E w \in Workers : Step(w)
    \/ \E g \in Gossips : Gossip(g)
    \/ \E g \in Gossips, p \in Peers, b \in Hash : GossipBlock(g, p, b) \/ GossipHash(g, p, b)
    \/ \E h \in Hash : AddRequested(h)
    \/ \E b \in Hash : NewPayload(b) \/ NewPayloadEnds(b) \/ NewPayloadSoft(b) \/ NewHead(b)
                     \/ BuildPayload(b)
    \/ TriggerSync
    \/ \E p \in Peers : Connect(p) \/ Disconnect(p)

\* Spawned tasks run and requests end, with an answer or by their timeout;
\* nothing is assumed of what arrives from outside.
Fairness ==
    /\ \A w \in Workers : WF_vars(Step(w))
    /\ \A g \in Gossips : WF_vars(Gossip(g))
    /\ \A h \in Hash : WF_vars(AddRequested(h)) /\ WF_vars(NewPayloadEnds(h))

Spec == Init /\ [][Next]_vars /\ Fairness

-----------------------------------------------------------------------------
(* Properties                                                              *)

\* What the registry, the controller or the consensus client still work on.
Pursuing(w) ==
    \/ work[w].pc \in {"walk", "download", "failed"}
    \/ work[w].pc = "ancestors" /\ work[w].batch # <<>>
Pursued ==
    TargetHashes \cup requests \cup importing \cup
    {work[w].target.hash : w \in {v \in Workers : Pursuing(v)}}

\* No buffered block is forgotten: it leaves the pool when its parent is stored, and
\* until then the parent is buffered too, or is itself what somebody pursues, unless
\* it was given up after the retries, swept away by clear_targets, skipped for another
\* block of its height or evicted as invalid (payload_processor.rs,
\* validate_parent_block; registry.rs, add_target_with_retries; controller.rs,
\* fetch_ancestors).  The children of a block built here are excepted: nobody asks for
\* it, has_block finds it among the payloads, and promoting it revalidates nothing.
OrphanRootPursued ==
    \A b \in orphans : /\ Parent[b] \notin stored \ built
                       /\ Parent[b] \in orphans \cup lost \cup Pursued \cup built

\* From Paris on neither synchronisation nor gossip moves the head: only
\* forkchoiceUpdated of the consensus client does (controller.rs, "Post-Merge
\* rule").  calls counts the consensus client's calls.
HeadLeftToConsensus ==
    [][head' # head /\ calls' = calls => ~PostMerge(head')]_vars

Tree == INSTANCE BlockTree WITH
            Hash <- Hash, Genesis <- Genesis, Parent <- Parent, Faulty <- Faulty, stored <- stored

\* The controller, with everything beside it, only ever adds sound blocks with
\* their parents to the stored ones, in whatever order they arrive.
ImplementsBlockTree == Tree!Spec
=============================================================================
