----------------------------- MODULE SyncProofs -----------------------------
(***************************************************************************)
(* Synchronisation for any block tree, any peers and any number of gossip  *)
(* tasks: the tables only take sound blocks with their parents, no         *)
(* buffered block is forgotten, and from Paris on the head is left to the  *)
(* consensus client.                                                       *)
(***************************************************************************)
EXTENDS Sync, HeaderChains

Labels == {"idle", "lock", "walk", "download", "failed", "ancestors", "best", "headers", "bodies",
           "range"}
Target == [hash : Hash \cup {Zero}, retries : Nat]
WorkState == [pc : Labels, target : Target, at : Hash, peer : Peers, current : Hash,
              batch : Seq(Hash), last : Hash \cup {Zero}]
GossipState == [pc : {"idle", "download", "import", "head", "move"}, blk : Hash, peer : Peers,
                announced : BOOLEAN]

TypeOK ==
    /\ stored \subseteq Hash /\ orphans \subseteq Hash /\ invalid \in [Hash -> Reasons]
    /\ payloads \subseteq Hash /\ importing \subseteq Hash /\ requests \subseteq Hash
    /\ head \in Hash
    /\ targets \in Seq(Target)
    /\ work \in [Workers -> WorkState]
    /\ gossip \in [Gossips -> GossipState]
    /\ sessions \subseteq Peers /\ table \subseteq Peers
    /\ calls \in Nat

\* What waits in the Payloads table was built here on a stored block, and is sound.
PayloadsSound ==
    \A p \in payloads \ stored : /\ p \in built /\ p \notin Faulty /\ p \notin orphans
                                 /\ Parent[p] \in stored

\* The tables hold sound blocks with all their ancestors, and no block is in the tables
\* and in the pool.
TablesSound ==
    /\ {Genesis, head} \subseteq stored /\ stored \cap Faulty = {} /\ stored \cap orphans = {}
    /\ \A b \in stored : Ancestry[b] \subseteq stored
    /\ PayloadsSound

\* What a sync task has collected begins with its target.
BatchSound(w) ==
    /\ work[w].pc \in {"idle", "lock"} => work[w].batch = <<>>
    /\ work[w].pc \in {"walk", "download"} /\ work[w].batch = <<>> =>
           work[w].current = work[w].target.hash
    /\ work[w].pc \in {"walk", "download", "ancestors"} /\ work[w].batch # <<>> =>
           work[w].batch[1] = work[w].target.hash
BatchesSound == \A w \in Workers : BatchSound(w)

\* A gossip task that is about to move the head holds a block from before Paris.
GossipBeforeParis == \A g \in Gossips : gossip[g].pc \in {"head", "move"} => ~PostMerge(gossip[g].blk)

SyncSound == TypeOK /\ TablesSound /\ BatchesSound /\ OrphanRootPursued /\ GossipBeforeParis

-----------------------------------------------------------------------------
(* Ancestors.                                                              *)

\* The blocks of the instance form a tree.
LEMMA HashChain == IsChain(Hash, Genesis, Parent, Path)
  BY SyncAssumption, Zenon DEF IsChain

\* Ancestry is the set of blocks on the chain.
LEMMA AncestryIs == \A b \in Hash : Ancestry[b] = Ancestors(Path, b)
  BY Zenon DEF Ancestry, Ancestors

\* A block and the ancestors of its parent.
LEMMA AncestryStep ==
    ASSUME NEW b \in Hash
    PROVE  /\ b \in Ancestry[b] /\ Ancestry[b] \subseteq Hash
           /\ b # Genesis => Parent[b] \in Hash /\ Ancestry[b] = {b} \cup Ancestry[Parent[b]]
  BY HashChain, AncestorsStep, AncestryIs

\* Induction along the ancestors of a block.
LEMMA AncestryClosed ==
    ASSUME NEW S, S \subseteq Hash, \A x \in S : x # Genesis => Parent[x] \in S, NEW b \in S
    PROVE  Ancestry[b] \subseteq S
  <1>1. Ancestors(Path, b) \subseteq S
    BY HashChain, AncestorsClosed
  <1> QED
    BY <1>1, AncestryIs, Zenon

\* An ancestor's ancestors.
LEMMA AncestryTransitive ==
    ASSUME NEW b \in Hash, NEW x \in Ancestry[b]
    PROVE  x \in Hash /\ Ancestry[x] \subseteq Ancestry[b]
  BY HashChain, AncestorsTransitive, AncestryIs

\* Of two ancestors of a block one is an ancestor of the other.
LEMMA AncestryLinear ==
    ASSUME NEW b \in Hash, NEW x \in Ancestry[b], NEW y \in Ancestry[b]
    PROVE  x \in Ancestry[y] \/ y \in Ancestry[x]
  <1>1. x \in Hash /\ y \in Hash
    BY AncestryTransitive, Zenon
  <1> QED
    BY <1>1, HashChain, AncestorsLinear, AncestryIs

-----------------------------------------------------------------------------
(* Import.                                                                 *)

\* What every import keeps, and what it does to the pool.
OutcomeSound(out) ==
    /\ stored \subseteq out.stored /\ out.stored \subseteq Hash
    /\ \A x \in out.stored \ stored : x \notin Faulty /\ Ancestry[x] \subseteq out.stored
    /\ out.orphans \subseteq Hash /\ out.stored \cap out.orphans = {}
    /\ \A x \in out.orphans : Parent[x] \notin out.stored \ built
    /\ \A x \in out.orphans \ orphans : /\ Parent[x] \in orphans \cup out.request \cup built
                                         /\ Parent[x] \notin stored
    /\ out.invalid \in [Hash -> Reasons] /\ out.request \subseteq Hash

\* Nothing is imported.
LEMMA KeptSound ==
    ASSUME SyncSound, NEW ok PROVE OutcomeSound(Outcome(ok, stored, orphans, invalid, {}))
  BY Zenon DEF SyncSound, TypeOK, TablesSound, OrphanRootPursued, OutcomeSound, Outcome

\* A rejected import takes blocks out of the pool.
LEMMA RejectedSound ==
    ASSUME SyncSound, NEW b \in Hash, NEW marks, NEW reason \in Reasons
    PROVE  OutcomeSound(Rejected(b, marks, reason))
  <1>1. Mark(marks, reason) \in [Hash -> Reasons]
    BY Zenon DEF Mark, SyncSound, TypeOK
  <1> QED
    BY <1>1, Zenon DEF Rejected, Outcome, OutcomeSound, SyncSound, TypeOK, TablesSound, OrphanRootPursued

\* A block whose parent is not stored is buffered, and the parent requested unless it is
\* buffered too.
LEMMA BufferedSound ==
    ASSUME SyncSound, NEW b \in Hash, b \notin stored, Parent[b] \notin stored
    PROVE  OutcomeSound(Outcome(TRUE, stored, orphans \cup {b}, invalid, {Parent[b]} \ Known))
  <1>1. Parent[b] \in Hash
    BY SyncAssumption, Zenon
  <1> QED
    BY <1>1, Zenon DEF Outcome, OutcomeSound, SyncSound, TypeOK, TablesSound, PayloadsSound,
                      OrphanRootPursued, Known

\* A block above a sound one whose ancestors are stored.
LEMMA AncestrySound ==
    ASSUME SyncSound, NEW b \in Hash, b # Genesis, b \notin Faulty, Parent[b] \in stored
    PROVE  Ancestry[b] \cap Faulty = {} /\ Ancestry[b] \subseteq stored \cup {b}
  BY AncestryStep DEF SyncSound, TablesSound

\* What waits above a block and connects brings its ancestors along.
LEMMA ConnectsClosed ==
    ASSUME SyncSound, NEW b \in Hash, b # Genesis, b \notin Faulty, Parent[b] \in stored,
           NEW o \in Connects(b)
    PROVE  o \in Hash /\ o \notin Faulty /\ Ancestry[o] \subseteq stored \cup {b} \cup Connects(b)
  <1>1. /\ o \in orphans /\ b \in Ancestry[o] /\ Ancestry[o] \cap Faulty = {}
        /\ \A c \in Ancestry[o] \ Ancestry[b] : c \in orphans
    BY Zenon DEF Connects, Above
  <1>2. o \in Hash
    BY <1>1, Zenon DEF SyncSound, TypeOK
  <1>3. o \in Ancestry[o]
    BY <1>2, AncestryStep, Zenon
  <1>4. ASSUME NEW x \in Ancestry[o], x \notin Ancestry[b] PROVE x \in Connects(b)
    <2>1. x \in Hash /\ Ancestry[x] \subseteq Ancestry[o]
      BY <1>2, AncestryTransitive, Zenon
    <2>2. b \in Ancestry[x]
      BY <1>1, <1>2, <1>4, AncestryLinear, Zenon
    <2>3. x \in orphans
      BY <1>1, <1>4, Zenon
    <2> QED
      BY <1>1, <2>1, <2>2, <2>3, Zenon DEF Connects, Above
  <1> QED
    BY <1>1, <1>2, <1>3, <1>4, AncestrySound, Zenon

\* What waits directly above a block that is stored now is stored or fails.
LEMMA NoneStranded ==
    ASSUME SyncSound, NEW b \in Hash, b # Genesis, b \notin Faulty, Parent[b] \in stored,
           NEW e \in orphans, Parent[e] \in {b} \cup Connects(b)
    PROVE  e \in Connects(b) \cup Fails(b)
  <1> DEFINE c == Parent[e]
  <1>0. e \in Hash /\ e # Genesis
    BY Zenon DEF SyncSound, TypeOK, TablesSound
  <1>1. Ancestry[e] = {e} \cup Ancestry[c] /\ c \in Hash
    BY <1>0, AncestryStep, Zenon
  <1>2. /\ b \in Ancestry[c] /\ Ancestry[c] \cap Faulty = {}
        /\ \A x \in Ancestry[c] \ Ancestry[b] : x \in orphans
    <2>1. CASE c = b
      BY <2>1, AncestrySound, AncestryStep, Zenon
    <2>2. CASE c \in Connects(b)
      BY <2>2, Zenon DEF Connects, Above
    <2> QED
      BY <2>1, <2>2, Zenon
  <1>3. e \in Above(b)
    BY <1>1, <1>2, Zenon DEF Above
  <1>4. CASE e \in Faulty
    BY <1>3, <1>4, Zenon DEF Fails
  <1>5. CASE e \notin Faulty
    BY <1>1, <1>2, <1>3, <1>5, Zenon DEF Connects
  <1> QED
    BY <1>4, <1>5, Zenon

\* A stored block takes what connects with it out of the pool, and what fails then.
LEMMA StoredOutcomeSound ==
    ASSUME SyncSound, NEW b \in Hash, b # Genesis, b \notin Faulty, Parent[b] \in stored
    PROVE  OutcomeSound(Outcome(TRUE, stored \cup {b} \cup Connects(b),
                                orphans \ ({b} \cup Connects(b) \cup Fails(b)),
                                [Mark(Fails(b), "Hard") EXCEPT ![b] = "none"], {}))
  <1> DEFINE out == Outcome(TRUE, stored \cup {b} \cup Connects(b),
                            orphans \ ({b} \cup Connects(b) \cup Fails(b)),
                            [Mark(Fails(b), "Hard") EXCEPT ![b] = "none"], {})
  <1>1. /\ out.stored = stored \cup {b} \cup Connects(b) /\ out.request = {}
        /\ out.orphans = orphans \ ({b} \cup Connects(b) \cup Fails(b))
        /\ out.invalid = [Mark(Fails(b), "Hard") EXCEPT ![b] = "none"]
    BY Zenon DEF Outcome
  <1> HIDE DEF out
  <1>2. \A o \in Connects(b) : o \in Hash /\ o \notin Faulty /\ Ancestry[o] \subseteq out.stored
    BY <1>1, ConnectsClosed, Zenon
  <1>3. Ancestry[b] \subseteq out.stored
    BY <1>1, AncestrySound, Zenon
  <1>4. out.invalid \in [Hash -> Reasons]
    <2>1. Mark(Fails(b), "Hard") \in [Hash -> Reasons]
      BY Zenon DEF Mark, Reasons, SyncSound, TypeOK
    <2> QED
      BY <1>1, <2>1, Zenon DEF Reasons
  <1>5. ASSUME NEW e \in out.orphans PROVE Parent[e] \notin out.stored \ built
    <2>1. e \in orphans /\ e \notin Connects(b) \cup Fails(b)
      BY <1>1, Zenon
    <2>2. Parent[e] \notin stored \ built
      BY <2>1, Zenon DEF SyncSound, OrphanRootPursued
    <2> QED
      BY <1>1, <2>1, <2>2, NoneStranded, Zenon
  <1>6. out.orphans \subseteq orphans /\ out.stored \cap out.orphans = {}
    BY <1>1, Zenon DEF SyncSound, TablesSound
  <1>7. OutcomeSound(out)
    BY <1>1, <1>2, <1>3, <1>4, <1>5, <1>6 DEF OutcomeSound, SyncSound, TypeOK
  <1> QED
    BY <1>7, Zenon DEF out

\* Every import.
LEMMA ImportedSound ==
    ASSUME SyncSound, NEW b \in Hash
    PROVE  /\ OutcomeSound(Imported(b))
           /\ Imported(b).ok => b \in Imported(b).stored \cup Imported(b).orphans
  <1>0. Genesis \in stored /\ invalid \in [Hash -> Reasons] /\ Parent[b] \in Hash
    BY SyncAssumption, Zenon DEF SyncSound, TypeOK, TablesSound
  <1>1. CASE b \in stored
    <2>1. Imported(b) = Outcome(TRUE, stored, orphans, invalid, {})
      BY <1>1, Zenon DEF Imported
    <2>2. Imported(b).stored = stored
      BY <2>1 DEF Outcome
    <2> QED
      BY <1>1, <2>1, <2>2, KeptSound, Zenon
  <1>2. ASSUME NEW marks, NEW reason \in Reasons, Imported(b) = Rejected(b, marks, reason)
        PROVE  OutcomeSound(Imported(b)) /\ ~Imported(b).ok
    <2>1. ~Imported(b).ok
      BY <1>2 DEF Rejected, Outcome
    <2> QED
      BY <1>2, <2>1, RejectedSound, Zenon
  <1>3. "Hard" \in Reasons /\ invalid[Parent[b]] \in Reasons
    BY <1>0, Zenon DEF Reasons
  <1>4. CASE b \notin stored /\ invalid[b] = "Hard"
    <2>1. Imported(b) = Rejected(b, {}, "Hard")
      BY <1>4, Zenon DEF Imported
    <2> QED
      BY <1>2, <1>3, <2>1, Zenon
  <1>5. CASE b \notin stored /\ invalid[b] # "Hard" /\ invalid[Parent[b]] # "none"
    <2>1. Imported(b) = Rejected(b, {b}, invalid[Parent[b]])
      BY <1>5, Zenon DEF Imported
    <2> QED
      BY <1>2, <1>3, <2>1
  <1>6. CASE b \notin stored /\ invalid[b] # "Hard" /\ invalid[Parent[b]] = "none" /\ InvalidAncestor(b)
    <2>1. Imported(b) = Rejected(b, {b} \cup Above(b), "Hard")
      BY <1>6, Zenon DEF Imported
    <2> QED
      BY <1>2, <1>3, <2>1
  <1>7. CASE /\ b \notin stored /\ invalid[b] # "Hard" /\ invalid[Parent[b]] = "none" /\ ~InvalidAncestor(b)
             /\ Parent[b] \notin stored
    <2>1. Imported(b) = Outcome(TRUE, stored, orphans \cup {b}, invalid, {Parent[b]} \ Known)
      BY <1>7, Zenon DEF Imported
    <2>2. Imported(b).orphans = orphans \cup {b}
      BY <2>1 DEF Outcome
    <2> QED
      BY <1>7, <2>1, <2>2, BufferedSound, Zenon
  <1>8. CASE /\ b \notin stored /\ invalid[b] # "Hard" /\ invalid[Parent[b]] = "none" /\ ~InvalidAncestor(b)
             /\ Parent[b] \in stored /\ b \in Faulty
    <2>1. Imported(b) = Rejected(b, {b}, "Hard")
      BY <1>8, Zenon DEF Imported
    <2> QED
      BY <1>2, <1>3, <2>1
  <1>9. CASE /\ b \notin stored /\ invalid[b] # "Hard" /\ invalid[Parent[b]] = "none" /\ ~InvalidAncestor(b)
             /\ Parent[b] \in stored /\ b \notin Faulty
    <2>1. Imported(b) = Outcome(TRUE, stored \cup {b} \cup Connects(b),
                                orphans \ ({b} \cup Connects(b) \cup Fails(b)),
                                [Mark(Fails(b), "Hard") EXCEPT ![b] = "none"], {})
      BY <1>9, Zenon DEF Imported
    <2>2. b \in Imported(b).stored
      BY <2>1 DEF Outcome
    <2> QED
      BY <1>0, <1>9, <2>1, <2>2, StoredOutcomeSound, Zenon
  <1> QED
    BY <1>1, <1>4, <1>5, <1>6, <1>7, <1>8, <1>9, Zenon

-----------------------------------------------------------------------------
(* What a step must show.                                                  *)

\* The part of the state the invariant is about.
seenVars == <<stored, orphans, invalid, importing, requests, head, targets, work, gossip, sessions,
              table, calls, lost, payloads, built>>

\* A step that leaves the variables of the invariant alone keeps it.
LEMMA Frame == ASSUME SyncSound, UNCHANGED seenVars PROVE SyncSound'
  BY DEF seenVars, SyncSound, TypeOK, TablesSound, PayloadsSound, BatchesSound, BatchSound, OrphanRootPursued, Pursued,
         Pursuing, TargetHashes, GossipBeforeParis

\* A buffered block's parent stays buffered, pursued or lost if nothing leaves the pool
\* or the pursuit without a trace.
LEMMA PoolStep ==
    ASSUME SyncSound, \A x \in orphans' : Parent[x] \notin stored' \ built',
           lost \subseteq lost', orphans \ (stored' \cup orphans') \subseteq lost',
           \A x \in orphans' \ orphans : Parent[x] \in orphans \cup Pursued' \cup built',
           \A h \in Pursued : h \in Pursued' \cup orphans' \cup lost' \cup stored' \cup built' \cup {Zero},
           orphans' \subseteq Hash, built \subseteq built'
    PROVE  OrphanRootPursued'
  <1> SUFFICES ASSUME NEW x \in orphans' PROVE Parent[x] \in orphans' \cup lost' \cup Pursued' \cup built'
    BY Zenon DEF OrphanRootPursued
  <1>1. Parent[x] \in orphans \cup lost \cup Pursued \cup Pursued' \cup built'
    BY Zenon DEF SyncSound, OrphanRootPursued
  <1>2. x \in Hash
    OBVIOUS
  <1>3. Parent[x] # Zero
    BY <1>2, SyncAssumption
  <1> QED
    BY <1>1, <1>3, Zenon

\* An import keeps the tables sound.
LEMMA TablesByOutcome ==
    ASSUME SyncSound, NEW out, OutcomeSound(out), stored' = out.stored, orphans' \subseteq out.orphans,
           payloads' = payloads \ (out.stored \ stored), UNCHANGED <<built, head>>
    PROVE  TablesSound' /\ \A x \in orphans' : Parent[x] \notin stored' \ built'
  <1>1. PayloadsSound'
    <2> SUFFICES ASSUME NEW p \in payloads', p \notin stored'
                 PROVE  p \in built /\ p \notin Faulty /\ p \notin orphans' /\ Parent[p] \in stored'
      BY Zenon DEF PayloadsSound
    <2>1. p \in built /\ p \notin Faulty /\ p \notin orphans /\ Parent[p] \in stored
      BY Zenon DEF SyncSound, TablesSound, PayloadsSound, OutcomeSound
    <2> QED
      BY <2>1, Zenon DEF OutcomeSound
  <1> QED
    BY <1>1, Zenon DEF SyncSound, TablesSound, OutcomeSound

\* The tables after a step that imports nothing.
Kept ==
    /\ TablesSound' /\ \A x \in orphans' : Parent[x] \notin stored' \ built'
    /\ stored \subseteq stored' /\ stored' \subseteq Hash /\ payloads' \subseteq Hash

\* They are left alone,
LEMMA KeptTables ==
    ASSUME SyncSound, UNCHANGED <<stored, payloads, orphans, built, head>> PROVE Kept /\ head' \in Hash
  BY Zenon DEF Kept, SyncSound, TypeOK, TablesSound, PayloadsSound, OrphanRootPursued

\* or forkchoice_updated adopts a head, and stores it if it was built here.
LEMMA PromotedTables ==
    ASSUME SyncSound, NEW h, SetHead(h), UNCHANGED built
    PROVE  Kept /\ head' \in Hash /\ UNCHANGED <<orphans, invalid, importing, requests>>
  <1>0. /\ TypeOK /\ TablesSound /\ OrphanRootPursued
        /\ UNCHANGED <<orphans, invalid, importing, requests>>
    BY Zenon DEF SyncSound, SetHead
  <1>1. Adopts(h) => h \in Hash
    BY <1>0, Zenon DEF Adopts, TypeOK
  <1>2. head' \in Hash
    BY <1>0, <1>1, Zenon DEF SetHead, TypeOK
  <1>3. CASE ~Adopts(h) \/ h \in stored
    <2>1. UNCHANGED <<stored, payloads, orphans, built>> /\ head' \in stored
      BY <1>0, <1>3, Zenon DEF SetHead, TablesSound
    <2> QED
      BY <1>0, <1>2, <2>1, Zenon DEF Kept, TypeOK, TablesSound, PayloadsSound, OrphanRootPursued
  <1>4. CASE Adopts(h) /\ h \notin stored
    <2>1. stored' = stored \cup {h} /\ payloads' = payloads \ {h} /\ head' = h
      BY <1>4, Zenon DEF SetHead
    <2>2. h \in built /\ h \notin Faulty /\ h \notin orphans /\ Parent[h] \in stored /\ h # Genesis
      BY <1>0, <1>4, Zenon DEF Adopts, TablesSound, PayloadsSound
    <2>3. Ancestry[h] \subseteq stored'
      BY <1>1, <1>4, <2>1, <2>2, AncestrySound, Zenon
    <2>4. PayloadsSound'
      BY <1>0, <2>1, Zenon DEF TablesSound, PayloadsSound
    <2>5. TablesSound'
      BY <1>0, <2>1, <2>2, <2>3, <2>4, Zenon DEF TablesSound
    <2>6. \A x \in orphans' : Parent[x] \notin stored' \ built'
      BY <1>0, <2>1, <2>2, Zenon DEF OrphanRootPursued
    <2> QED
      BY <1>0, <1>1, <1>2, <1>4, <2>1, <2>5, <2>6, Zenon DEF Kept, TypeOK
  <1> QED
    BY <1>3, <1>4, Zenon

\* A step of one sync task leaves the other's state alone.
OneWorks(w) == work' \in [Workers -> WorkState] /\ \A v \in Workers : v # w => work'[v] = work[v]

\* The batches stay sound if the one of the stepping task does.
LEMMA WorkBatches ==
    ASSUME BatchesSound, NEW w \in Workers, OneWorks(w), BatchSound(w)'
    PROVE  BatchesSound'
  <1> SUFFICES ASSUME NEW v \in Workers PROVE BatchSound(v)'
    BY Zenon DEF BatchesSound
  <1>1. CASE v = w
    BY <1>1, Zenon
  <1>2. CASE v # w
    BY <1>2 DEF OneWorks, BatchesSound, BatchSound
  <1> QED
    BY <1>1, <1>2, Zenon

\* The pursuit when one sync task moves: what that task pursued must be accounted for.
LEMMA WorkPursued ==
    ASSUME NEW w \in Workers, OneWorks(w), NEW S,
           TargetHashes \cup requests \cup importing \subseteq Pursued' \cup S,
           Pursuing(w) => work[w].target.hash \in Pursued' \cup S
    PROVE  \A h \in Pursued : h \in Pursued' \cup S
  <1> SUFFICES ASSUME NEW v \in Workers, Pursuing(v) PROVE work[v].target.hash \in Pursued' \cup S
    BY Zenon DEF Pursued
  <1>1. CASE v = w
    BY <1>1, Zenon
  <1>2. CASE v # w
    <2>1. Pursuing(v)' /\ work'[v] = work[v]
      BY <1>2, Zenon DEF OneWorks, Pursuing
    <2> QED
      BY <2>1, Zenon DEF Pursued
  <1> QED
    BY <1>1, <1>2, Zenon

\* A task that goes to another label.
LEMMA GotoWorks ==
    ASSUME TypeOK, NEW w \in Workers, NEW label \in Labels, Goto(w, label)
    PROVE  /\ OneWorks(w) /\ work'[w].pc = label
           /\ work'[w].batch = work[w].batch /\ work'[w].target = work[w].target
           /\ work'[w].current = work[w].current
  BY Zenon DEF TypeOK, WorkState, Goto, OneWorks

\* A task that returns from sync_step, or from a failed try_lock.
LEMMA IdleWorks ==
    ASSUME TypeOK, NEW w \in Workers, work' = [work EXCEPT ![w] = Idle]
    PROVE  OneWorks(w) /\ work'[w].pc = "idle" /\ work'[w].batch = <<>>
  <1>1. Idle \in WorkState
    <2>1. PeerOrder[1] \in Peers /\ Zero \in Hash \cup {Zero} /\ Genesis \in Hash /\ <<>> \in Seq(Hash)
      BY SyncAssumption DEF Peers
    <2> QED
      BY <2>1, Zenon DEF Idle, WorkState, Target, Labels
  <1>2. OneWorks(w) /\ work'[w] = Idle
    BY <1>1, Zenon DEF TypeOK, OneWorks
  <1> QED
    BY <1>2 DEF Idle

-----------------------------------------------------------------------------
(* The sync tasks.                                                         *)

\* A step that imports nothing and leaves the registry alone.
LEMMA WorkStepKept ==
    ASSUME SyncSound, NEW w \in Workers, OneWorks(w), BatchSound(w)', Kept,
           UNCHANGED <<orphans, importing, requests, targets, gossip, sessions, table, calls, lost, built>>,
           invalid' \in [Hash -> Reasons], head' \in Hash,
           Pursuing(w) => \/ Pursuing(w)' /\ work'[w].target = work[w].target
                          \/ work[w].target.hash \in stored
    PROVE  SyncSound'
  <1>1. TypeOK'
    BY Zenon DEF SyncSound, TypeOK, OneWorks, Kept
  <1>2. /\ TablesSound' /\ GossipBeforeParis' /\ stored \subseteq stored'
        /\ \A x \in orphans' : Parent[x] \notin stored' \ built'
    BY Zenon DEF SyncSound, Kept, GossipBeforeParis
  <1>3. BatchesSound'
    BY WorkBatches, Zenon DEF SyncSound
  <1>4. TargetHashes \cup requests \cup importing \subseteq Pursued'
    BY Zenon DEF Pursued, TargetHashes
  <1>5. Pursuing(w) => work[w].target.hash \in Pursued' \cup stored
    BY Zenon DEF Pursued
  <1>6. \A h \in Pursued : h \in Pursued' \cup stored
    BY <1>4, <1>5, WorkPursued, Zenon
  <1>7. OrphanRootPursued'
    BY <1>1, <1>2, <1>6, PoolStep, Zenon DEF TypeOK
  <1> QED
    BY <1>1, <1>2, <1>3, <1>7, Zenon DEF SyncSound

\* The same, with the tables left alone.
LEMMA WorkStep ==
    ASSUME SyncSound, NEW w \in Workers, OneWorks(w), BatchSound(w)',
           UNCHANGED <<stored, orphans, importing, requests, head, targets, gossip, sessions, table, calls, lost, payloads, built>>,
           invalid' \in [Hash -> Reasons],
           Pursuing(w) => \/ Pursuing(w)' /\ work'[w].target = work[w].target
                          \/ work[w].target.hash \in stored
    PROVE  SyncSound'
  <1>1. Kept /\ head' \in Hash
    BY KeptTables, Zenon
  <1> QED
    BY <1>1, WorkStepKept, Zenon

\* The notified or ticking task starts a step with an empty batch.
LEMMA WakeSound == ASSUME SyncSound, NEW w \in Workers, Wake(w) PROVE SyncSound'
  <1>0. TypeOK /\ BatchSound(w) /\ UNCHANGED <<stored, orphans, invalid, importing, requests, head, targets, gossip, sessions, table, calls, lost, payloads, built>>
    BY Zenon DEF Wake, SyncSound, BatchesSound, chain, net, history
  <1>1. work[w].pc = "idle"
    BY Zenon DEF Wake, At
  <1>2. CASE UNCHANGED work
    BY <1>0, <1>2, Frame, Zenon DEF seenVars
  <1>3. CASE work' = [work EXCEPT ![w].pc = "lock", ![w].at = head]
    <2>1. OneWorks(w) /\ work'[w].pc = "lock" /\ work'[w].batch = work[w].batch
      BY ZenonT(60), SMTT(60), <1>0, <1>3 DEF TypeOK, WorkState, OneWorks, Labels
    <2>2. BatchSound(w)'
      BY <1>0, <1>1, <2>1, Zenon DEF BatchSound
    <2>3. ~Pursuing(w)
      BY <1>1, Zenon DEF Pursuing
    <2> QED
      BY <1>0, <2>1, <2>2, <2>3, WorkStep, Zenon DEF TypeOK
  <1> QED
    BY Zenon, <1>2, <1>3 DEF Wake

\* sync_step ends.
LEMMA ReturnSound ==
    ASSUME SyncSound, NEW w \in Workers, work' = [work EXCEPT ![w] = Idle], ~Pursuing(w), head' \in Hash, Kept,
           UNCHANGED <<orphans, invalid, importing, requests, targets, gossip, sessions, table, calls, lost, built>>
    PROVE  SyncSound'
  <1>0. TypeOK
    BY Zenon DEF SyncSound
  <1>1. OneWorks(w) /\ work'[w].pc = "idle" /\ work'[w].batch = <<>>
    BY <1>0, IdleWorks, Zenon
  <1>2. BatchSound(w)'
    BY <1>1, Zenon DEF BatchSound
  <1> QED
    BY <1>0, <1>1, <1>2, WorkStepKept, Zenon DEF TypeOK

\* A step that only moves the label on, outside a pursuit.
LEMMA GotoSound ==
    ASSUME SyncSound, NEW w \in Workers, NEW label \in Labels \ {"idle", "lock", "walk", "download", "ancestors"},
           Goto(w, label), ~Pursuing(w), head' \in Hash, Kept,
           UNCHANGED <<orphans, invalid, importing, requests, targets, gossip, sessions, table, calls, lost, built>>
    PROVE  SyncSound'
  <1>0. TypeOK
    BY Zenon DEF SyncSound
  <1>1. OneWorks(w) /\ work'[w].pc = label
    BY <1>0, GotoWorks, Zenon
  <1>2. BatchSound(w)'
    BY <1>1, Zenon DEF BatchSound
  <1> QED
    BY <1>0, <1>1, <1>2, WorkStepKept, Zenon DEF TypeOK

\* The walk of fetch_ancestors: the next hash goes to the batch or the walk ends.
LEMMA WalkSound == ASSUME SyncSound, NEW w \in Workers, Walk(w) PROVE SyncSound'
  <1> DEFINE label == IF work[w].current \in stored THEN "ancestors" ELSE "download"
  <1>0. /\ TypeOK /\ BatchSound(w) /\ work[w].pc = "walk" /\ Goto(w, label)
        /\ UNCHANGED <<stored, orphans, importing, requests, head, targets, gossip, sessions, table, calls, lost, payloads, built>>
    BY Zenon DEF Walk, At, SyncSound, BatchesSound, registry, net, history
  <1>1. invalid' \in [Hash -> Reasons]
    BY <1>0, Zenon DEF Walk, Mark, Reasons, TypeOK
  <1>2. label \in Labels
    BY Zenon DEF Labels
  <1>3. /\ OneWorks(w) /\ work'[w].pc = label /\ work'[w].batch = work[w].batch
        /\ work'[w].target = work[w].target /\ work'[w].current = work[w].current
    BY <1>0, <1>2, GotoWorks, Zenon
  <1>4. BatchSound(w)'
    BY <1>0, <1>3, Zenon DEF BatchSound
  <1>5. Pursuing(w)' \/ work[w].target.hash \in stored
    BY <1>0, <1>3, Zenon DEF Pursuing, BatchSound
  <1> QED
    BY <1>0, <1>1, <1>3, <1>4, <1>5, WorkStep, Zenon DEF TypeOK

\* A header that does not arrive: the target stays in hand.
LEMMA DownloadFailsSound == ASSUME SyncSound, NEW w \in Workers, DownloadFails(w) PROVE SyncSound'
  <1>0. /\ TypeOK /\ work[w].pc = "download" /\ Goto(w, "failed")
        /\ UNCHANGED <<stored, orphans, invalid, importing, requests, head, targets, gossip, sessions, table, calls, lost, payloads, built>>
    BY Zenon DEF DownloadFails, At, SyncSound, chain, registry, net, history
  <1>1. OneWorks(w) /\ work'[w].pc = "failed" /\ work'[w].target = work[w].target
    BY <1>0, GotoWorks, Zenon DEF Labels
  <1>2. BatchSound(w)' /\ Pursuing(w)'
    BY <1>1, Zenon DEF BatchSound, Pursuing
  <1> QED
    BY <1>0, <1>1, <1>2, WorkStep DEF TypeOK

\* A header that arrives: its hash is appended and its parent is next.
LEMMA DownloadSound == ASSUME SyncSound, NEW w \in Workers, Download(w) PROVE SyncSound'
  <1> DEFINE b == work[w].current
             q == work[w].batch
             label == IF Len(q) >= MaxBatch THEN "ancestors" ELSE "walk"
  <1>0. /\ TypeOK /\ BatchSound(w) /\ work[w].pc = "download"
        /\ work' = [work EXCEPT ![w].pc = label, ![w].batch = Append(@, b), ![w].current = Parent[b]]
        /\ UNCHANGED <<stored, orphans, invalid, importing, requests, head, targets, gossip, sessions, table, calls, lost, payloads, built>>
    BY Zenon DEF Download, At, SyncSound, BatchesSound, chain, registry, net, history
  <1>1. b \in Hash /\ Parent[b] \in Hash /\ q \in Seq(Hash) /\ label \in Labels
    BY <1>0, SyncAssumption, Zenon DEF TypeOK, WorkState, Labels
  <1>2. Append(q, b) \in Seq(Hash) /\ Append(q, b) # <<>> /\ Append(q, b)[1] = IF q = <<>> THEN b ELSE q[1]
    <2> HIDE DEF b, q
    <2> QED
      BY SMTT(60), Z3T(60), <1>1
  <1>3. /\ OneWorks(w) /\ work'[w].pc = label /\ work'[w].batch = Append(q, b)
        /\ work'[w].target = work[w].target
    BY <1>0, <1>1, <1>2 DEF TypeOK, WorkState, OneWorks
  <1>4. work'[w].pc \in {"ancestors", "walk"}
    BY <1>3, Zenon
  <1>5. work'[w].batch # <<>> /\ work'[w].batch[1] = work'[w].target.hash
    BY <1>0, <1>2, <1>3, Zenon DEF BatchSound
  <1>6. BatchSound(w)' /\ Pursuing(w)'
    BY <1>4, <1>5, Zenon DEF BatchSound, Pursuing
  <1> QED
    BY <1>0, <1>3, <1>6, WorkStep, Zenon DEF TypeOK

\* All ancestors are imported: the head may move, to a block built here too.
LEMMA AncestorsDoneSound == ASSUME SyncSound, NEW w \in Workers, AncestorsDone(w) PROVE SyncSound'
  <1>0. /\ TypeOK /\ work[w].pc = "ancestors" /\ work[w].batch = <<>> /\ Goto(w, "best")
        /\ UNCHANGED <<targets, gossip, sessions, table, calls, lost, built>>
    BY Zenon DEF AncestorsDone, At, SyncSound, registry, net, history
  <1>1. Kept /\ head' \in Hash /\ UNCHANGED <<orphans, invalid, importing, requests>>
    <2>1. CASE UNCHANGED <<chain, head>>
      BY <1>0, <2>1, KeptTables, Zenon DEF chain, TypeOK
    <2>2. CASE SetHead(work[w].last)
      BY <1>0, <2>2, PromotedTables, Zenon
    <2> QED
      BY Zenon, <2>1, <2>2 DEF AncestorsDone, ForkchoiceUpdated
  <1>2. ~Pursuing(w) /\ "best" \in Labels \ {"idle", "lock", "walk", "download", "ancestors"}
    BY <1>0, Zenon DEF Pursuing, Labels
  <1> QED
    BY <1>0, <1>1, <1>2, GotoSound, Zenon

\* The choice of the best peer.
LEMMA StepBestSound == ASSUME SyncSound, NEW w \in Workers, StepBest(w) PROVE SyncSound'
  <1>0. /\ TypeOK /\ work[w].pc = "best"
        /\ UNCHANGED <<stored, orphans, invalid, importing, requests, head, targets, gossip, sessions, table, calls, lost, payloads, built>>
    BY Zenon DEF StepBest, At, SyncSound, chain, registry, net, history
  <1>1. ~Pursuing(w) /\ head' \in Hash /\ Kept
    BY <1>0, KeptTables, Zenon DEF Pursuing, TypeOK
  <1>2. CASE work' = [work EXCEPT ![w] = Idle]
    BY <1>0, <1>1, <1>2, ReturnSound, Zenon
  <1>3. ASSUME NEW p \in BestPeer,
               work' = [work EXCEPT ![w] = [Idle EXCEPT !.pc = "headers", !.peer = p, !.at = work[w].at]]
        PROVE  SyncSound'
    <2> DEFINE r == [Idle EXCEPT !.pc = "headers", !.peer = p, !.at = work[w].at]
    <2>1. p \in Peers
      BY Zenon DEF BestPeer
    <2>2. Idle \in WorkState
      <3>1. PeerOrder[1] \in Peers /\ Zero \in Hash \cup {Zero} /\ Genesis \in Hash /\ <<>> \in Seq(Hash)
        BY SyncAssumption DEF Peers
      <3> QED
        BY <3>1, Zenon DEF Idle, WorkState, Target, Labels
    <2>3. r \in WorkState /\ r.pc = "headers"
      BY <1>0, <2>1, <2>2, Zenon DEF WorkState, Labels, TypeOK
    <2> HIDE DEF r
    <2>4. OneWorks(w) /\ work'[w].pc = "headers"
      BY <1>0, <1>3, <2>3, Zenon DEF TypeOK, OneWorks, r
    <2>5. BatchSound(w)'
      BY <2>4, Zenon DEF BatchSound
    <2> QED
      BY <1>0, <1>1, <2>4, <2>5, WorkStep DEF TypeOK
  <1> QED
    BY Zenon, <1>2, <1>3 DEF StepBest, Return

\* The peer's headers are blocks: its chain has one at every height up to its head's.
LEMMA RangeIsHashes ==
    ASSUME NEW p \in Peers, NEW local \in Hash
    PROVE  RangeOf(p, local) \in Seq(Hash)
  <1> DEFINE path == Path[PeerHead[p]]
             up == Height[PeerHead[p]] - Height[local]
             size == IF up > RangeSize THEN RangeSize ELSE IF up > 0 THEN up ELSE 0
  <1>1. PeerHead[p] \in Hash /\ RangeSize \in Nat
    BY SyncAssumption, Zenon
  <1>2. path \in Seq(Hash) /\ Height[PeerHead[p]] \in Nat /\ Height[local] \in Nat
        /\ Height[PeerHead[p]] < Len(path)
    BY <1>1, SyncAssumption, Zenon
  <1>3. up \in Int /\ up < Len(path) /\ size \in Nat /\ (size > 0 => size <= up)
    BY <1>1, <1>2
  <1> HIDE DEF path, up, size
  <1>4. ASSUME NEW i \in 1 .. size PROVE path[up - i + 1] \in Hash
    <2>1. up - i + 1 \in 1 .. Len(path)
      BY <1>2, <1>3
    <2> QED
      BY <1>2, <2>1
  <1>5. [i \in 1 .. size |-> path[up - i + 1]] \in Seq(Hash)
    BY <1>3, <1>4
  <1> QED
    BY <1>5, Zenon DEF RangeOf, path, up, size

\* A range of headers: the batch is a part of the chain of the peer.
LEMMA HeadersSound == ASSUME SyncSound, NEW w \in Workers, Headers(w) PROVE SyncSound'
  <1> DEFINE range == RangeOf(work[w].peer, work[w].at)
  <1>0. /\ TypeOK /\ work[w].pc = "headers" /\ work[w].peer \in sessions
        /\ UNCHANGED <<stored, orphans, invalid, importing, requests, head, targets, gossip, sessions, table, calls, lost, payloads, built>>
    BY Zenon DEF Headers, At, Connected, SyncSound, chain, registry, net, history
  <1>1. ~Pursuing(w) /\ head' \in Hash /\ Kept
    BY <1>0, KeptTables, Zenon DEF Pursuing, TypeOK
  <1>2. range \in Seq(Hash)
    BY <1>0, RangeIsHashes, Zenon DEF TypeOK, WorkState
  <1>3. CASE work' = [work EXCEPT ![w] = Idle]
    BY <1>0, <1>1, <1>3, ReturnSound, Zenon
  <1>4. CASE work' = [work EXCEPT ![w].pc = "bodies", ![w].batch = range]
    <2> HIDE DEF range
    <2> DEFINE r == [work[w] EXCEPT !.pc = "bodies", !.batch = range]
    <2>1. work' = [work EXCEPT ![w] = r]
      BY <1>0, <1>4, Zenon DEF TypeOK
    <2>2. r \in WorkState /\ r.pc = "bodies"
      BY <1>0, <1>2, Zenon DEF TypeOK, WorkState, Labels
    <2> HIDE DEF r
    <2>3. OneWorks(w) /\ work'[w].pc = "bodies"
      BY <1>0, <2>1, <2>2, Zenon DEF TypeOK, OneWorks
    <2>4. BatchSound(w)'
      BY <2>3, Zenon DEF BatchSound
    <2> QED
      BY <1>0, <1>1, <2>3, <2>4, WorkStep DEF TypeOK
  <1> QED
    BY Zenon, <1>3, <1>4 DEF Headers, Return

\* The other ends of sync_step, and the step from bodies to blocks.
LEMMA EndsSound ==
    ASSUME SyncSound, NEW w \in Workers, StepSkip(w) \/ HeadersFail(w) \/ BodiesFail(w) \/ Bodies(w) \/ RangeDone(w)
    PROVE  SyncSound'
  <1>0. /\ TypeOK /\ work[w].pc \in {"lock", "headers", "bodies", "range"}
        /\ UNCHANGED <<targets, gossip, sessions, table, calls, lost, built>>
        /\ work' = [work EXCEPT ![w] = Idle] \/ Goto(w, "range")
    BY ZenonT(60), SMTT(60) DEF StepSkip, HeadersFail, BodiesFail, Bodies, RangeDone, Return, At, SyncSound, registry, net, history
  <1>1. Kept /\ head' \in Hash /\ UNCHANGED <<orphans, invalid, importing, requests>>
    <2>1. CASE UNCHANGED <<chain, head>>
      BY <1>0, <2>1, KeptTables, Zenon DEF chain, TypeOK
    <2>2. CASE SetHead(work[w].last)
      BY <1>0, <2>2, PromotedTables, Zenon
    <2>3. UNCHANGED <<chain, head>> \/ SetHead(work[w].last)
      BY Zenon DEF StepSkip, HeadersFail, BodiesFail, Bodies, RangeDone
    <2> QED
      BY <2>1, <2>2, <2>3, Zenon
  <1>2. ~Pursuing(w) /\ "range" \in Labels \ {"idle", "lock", "walk", "download", "ancestors"}
    BY <1>0, Zenon DEF Pursuing, Labels
  <1> QED
    BY <1>0, <1>1, <1>2, ReturnSound, GotoSound

\* A step that may import and may change the registry.
LEMMA TaskStep ==
    ASSUME SyncSound, NEW w \in Workers, OneWorks(w), BatchSound(w)', TypeOK', TablesSound',
           \A x \in orphans' : Parent[x] \notin stored' \ built',
           UNCHANGED <<importing, gossip, built>>, requests \subseteq requests', lost \subseteq lost',
           orphans \ (stored' \cup orphans') \subseteq lost',
           \A x \in orphans' \ orphans : Parent[x] \in orphans \cup requests' \cup built',
           TargetHashes \subseteq Pursued' \cup lost' \cup {Zero},
           Pursuing(w) => work[w].target.hash \in Pursued' \cup orphans' \cup lost' \cup stored' \cup built' \cup {Zero}
    PROVE  SyncSound'
  <1> DEFINE S == orphans' \cup lost' \cup stored' \cup built' \cup {Zero}
  <1>1. BatchesSound'
    BY WorkBatches, Zenon DEF SyncSound
  <1>2. requests' \cup importing' \subseteq Pursued'
    BY Zenon DEF Pursued
  <1>3. TargetHashes \cup requests \cup importing \subseteq Pursued' \cup S
    BY <1>2, Zenon
  <1>4. Pursuing(w) => work[w].target.hash \in Pursued' \cup S
    BY Zenon
  <1>5. \A h \in Pursued : h \in Pursued' \cup S
    <2> HIDE DEF S
    <2> QED
      BY <1>3, <1>4, WorkPursued, Zenon
  <1>6. OrphanRootPursued'
    BY <1>2, <1>5, PoolStep DEF TypeOK
  <1>7. GossipBeforeParis'
    BY Zenon DEF SyncSound, GossipBeforeParis
  <1> QED
    BY <1>1, <1>6, <1>7, Zenon DEF SyncSound

\* What taking the first target leaves.
LEMMA TailHashes ==
    ASSUME TypeOK, targets # <<>>, targets' = Tail(targets)
    PROVE  /\ Head(targets) \in Target /\ targets' \in Seq(Target)
           /\ TargetHashes \subseteq TargetHashes' \cup {Head(targets).hash}
  <1>1. targets \in Seq(Target)
    BY Zenon DEF TypeOK
  <1>2. Head(targets) \in Target /\ targets' \in Seq(Target)
    BY <1>1
  <1>3. ASSUME NEW i \in DOMAIN targets PROVE targets[i].hash \in TargetHashes' \cup {Head(targets).hash}
    <2>1. CASE i = 1
      BY <1>1, <2>1
    <2>2. CASE i # 1
      <3>1. i - 1 \in DOMAIN targets' /\ targets'[i - 1] = targets[i]
        BY <1>1, <2>2
      <3> QED
        BY <3>1, Zenon DEF TargetHashes
    <2> QED
      BY <2>1, <2>2, Zenon
  <1> QED
    BY <1>2, <1>3, Zenon DEF TargetHashes

\* add_target_with_retries: the hash is known, or queued.
LEMMA AddTargetHashes ==
    ASSUME TypeOK, NEW h \in Hash \cup {Zero}, NEW n \in Nat, AddTarget(h, n)
    PROVE  targets' \in Seq(Target) /\ TargetHashes \subseteq TargetHashes' /\ h \in Known \cup TargetHashes'
  <1>0. targets \in Seq(Target)
    BY Zenon DEF TypeOK
  <1>1. CASE (h \in Known \/ h \in TargetHashes) /\ UNCHANGED targets
    BY <1>0, <1>1 DEF TargetHashes
  <1>2. CASE targets' = Append(targets, [hash |-> h, retries |-> n])
    <2> DEFINE t == [hash |-> h, retries |-> n]
    <2>1. t \in Target /\ t.hash = h
      BY Zenon DEF Target
    <2> HIDE DEF t
    <2>2. /\ targets' \in Seq(Target) /\ Len(targets) + 1 \in DOMAIN targets' /\ targets'[Len(targets) + 1] = t
          /\ \A i \in DOMAIN targets : i \in DOMAIN targets' /\ targets'[i] = targets[i]
      BY <1>0, <1>2, <2>1 DEF t
    <2> QED
      BY <2>1, <2>2, Zenon DEF TargetHashes
  <1> QED
    BY <1>1, <1>2, Zenon DEF AddTarget, registry

\* The lock is taken without a specific target.
LEMMA StepLockSound == ASSUME SyncSound, NEW w \in Workers, StepLock(w) PROVE SyncSound'
  <1>0. /\ TypeOK /\ work[w].pc = "lock" /\ Goto(w, "best")
        /\ UNCHANGED <<stored, orphans, invalid, importing, requests, head, gossip, sessions, table, calls, lost, payloads, built>>
    BY Zenon DEF StepLock, At, SyncSound, chain, net, history
  <1>1. targets' \in Seq(Target) /\ TargetHashes \subseteq TargetHashes' \cup {Zero}
    <2>1. CASE UNCHANGED targets
      BY <1>0, <2>1, Zenon DEF TypeOK, TargetHashes
    <2>2. CASE targets # <<>> /\ Head(targets).hash = Zero /\ targets' = Tail(targets)
      BY <1>0, <2>2, TailHashes, Zenon
    <2> QED
      BY Zenon, <2>1, <2>2 DEF StepLock
  <1>2. OneWorks(w) /\ work'[w].pc = "best"
    BY <1>0, GotoWorks, Zenon DEF Labels
  <1>3. BatchSound(w)' /\ ~Pursuing(w)
    BY <1>0, <1>2, Zenon DEF BatchSound, Pursuing
  <1>4. TypeOK'
    BY <1>0, <1>1, <1>2 DEF TypeOK, OneWorks
  <1>5. TablesSound' /\ \A x \in orphans' : Parent[x] \notin stored' \ built'
    BY <1>0, Zenon DEF SyncSound, TablesSound, PayloadsSound, OrphanRootPursued
  <1>6. TargetHashes \subseteq Pursued' \cup lost' \cup {Zero}
    BY <1>1, Zenon DEF Pursued
  <1> QED
    BY <1>0, <1>2, <1>3, <1>4, <1>5, <1>6, TaskStep

\* The lock is taken: the target moves from the registry to the task.
LEMMA StepTargetSound == ASSUME SyncSound, NEW w \in Workers, StepTarget(w) PROVE SyncSound'
  <1> DEFINE t == Head(targets)
  <1>0. /\ TypeOK /\ BatchSound(w) /\ work[w].pc = "lock" /\ targets # <<>> /\ t.hash # Zero /\ targets' = Tail(targets)
        /\ UNCHANGED <<stored, orphans, invalid, importing, requests, head, gossip, sessions, table, calls, lost, payloads, built>>
    BY Zenon DEF StepTarget, At, SyncSound, BatchesSound, chain, net, history
  <1>1. t \in Target /\ targets' \in Seq(Target) /\ TargetHashes \subseteq TargetHashes' \cup {t.hash}
    BY <1>0, TailHashes, Zenon
  <1>2. t.hash \in Hash
    BY <1>0, <1>1, Zenon DEF Target
  <1>3. PICK label \in {"failed", "walk"}, p \in Peers :
            work' = [work EXCEPT ![w].pc = label, ![w].target = t, ![w].peer = p, ![w].current = t.hash]
    <2>0. PeerOrder[1] \in Peers
      BY SyncAssumption DEF Peers
    <2>4. BestPeer \subseteq Peers
      BY Zenon DEF BestPeer
    <2>1. SyncPeers \subseteq Peers /\ PeerOrder[1] \in Peers
      BY <1>0, <2>0, <2>4, Zenon DEF SyncPeers, TypeOK
    <2>2. PICK label \in {IF SyncPeers = {} THEN "failed" ELSE "walk"},
               p \in IF SyncPeers = {} THEN {PeerOrder[1]} ELSE SyncPeers :
              work' = [work EXCEPT ![w].pc = label, ![w].target = t, ![w].peer = p, ![w].current = t.hash]
      BY Zenon DEF StepTarget
    <2>3. label \in {"failed", "walk"} /\ p \in Peers
      BY <2>1, Zenon
    <2> QED
      BY <2>2, <2>3, Zenon
  <1> HIDE DEF t
  <1>4. /\ OneWorks(w) /\ work'[w].pc = label /\ work'[w].target = t /\ work'[w].current = t.hash
        /\ work'[w].batch = work[w].batch
    <2> DEFINE r == [work[w] EXCEPT !.pc = label, !.target = t, !.peer = p, !.current = t.hash]
    <2>1. work' = [work EXCEPT ![w] = r]
      BY <1>0, <1>3, Zenon DEF TypeOK
    <2>2. /\ r \in WorkState /\ r.pc = label /\ r.target = t /\ r.current = t.hash
          /\ r.batch = work[w].batch
      BY <1>0, <1>1, <1>2, Zenon DEF TypeOK, WorkState, Labels
    <2> HIDE DEF r
    <2> QED
      BY <1>0, <2>1, <2>2, Zenon DEF TypeOK, OneWorks
  <1>5. BatchSound(w)' /\ ~Pursuing(w) /\ Pursuing(w)'
    BY <1>0, <1>3, <1>4 DEF BatchSound, Pursuing
  <1>6. TypeOK'
    BY <1>0, <1>1, <1>4, Zenon DEF TypeOK, OneWorks
  <1>7. TablesSound' /\ \A x \in orphans' : Parent[x] \notin stored' \ built'
    BY <1>0, Zenon DEF SyncSound, TablesSound, PayloadsSound, OrphanRootPursued
  <1>8. t.hash \in Pursued' /\ TargetHashes' \subseteq Pursued'
    BY <1>4, <1>5, Zenon DEF Pursued
  <1>9. TargetHashes \subseteq Pursued' \cup lost' \cup {Zero}
    BY <1>1, <1>8, Zenon
  <1> QED
    BY <1>0, <1>4, <1>5, <1>6, <1>7, <1>9, TaskStep

\* A failed target goes back to the registry or is given up.
LEMMA StepFailedSound == ASSUME SyncSound, NEW w \in Workers, StepFailed(w) PROVE SyncSound'
  <1> DEFINE t == work[w].target
  <1>0. /\ TypeOK /\ work[w].pc = "failed" /\ Goto(w, "best")
        /\ UNCHANGED <<stored, orphans, invalid, importing, requests, head, gossip, sessions, table, calls, payloads, built>>
    BY Zenon DEF StepFailed, AfterFailure, At, SyncSound, chain, net
  <1>1. t.hash \in Hash \cup {Zero} /\ t.retries + 1 \in Nat
    BY <1>0 DEF TypeOK, WorkState, Target
  <1>2. /\ targets' \in Seq(Target) /\ TargetHashes \subseteq TargetHashes'
        /\ t.hash \in Known \cup TargetHashes' \cup lost' /\ lost \subseteq lost'
    <2>1. CASE AddTarget(t.hash, t.retries + 1) /\ UNCHANGED lost
      BY <1>0, <1>1, <2>1, AddTargetHashes, Zenon
    <2>2. CASE lost' = lost \cup {t.hash} /\ UNCHANGED registry
      BY <1>0, <2>2, Zenon DEF TypeOK, TargetHashes, registry
    <2> QED
      BY Zenon, <2>1, <2>2 DEF StepFailed, AfterFailure
  <1>3. OneWorks(w) /\ work'[w].pc = "best"
    BY <1>0, GotoWorks, Zenon DEF Labels
  <1>4. BatchSound(w)'
    BY <1>3, Zenon DEF BatchSound
  <1>5. TypeOK'
    BY <1>0, <1>2, <1>3, Zenon DEF TypeOK, OneWorks
  <1>6. TablesSound' /\ \A x \in orphans' : Parent[x] \notin stored' \ built'
    BY <1>0, Zenon DEF SyncSound, TablesSound, PayloadsSound, OrphanRootPursued
  <1>7. TargetHashes' \subseteq Pursued'
    BY Zenon DEF Pursued
  <1>8. t.hash \in Pursued' \cup orphans' \cup lost' \cup stored' \cup built'
    BY <1>0, <1>2, <1>6, <1>7, Zenon DEF Known, TablesSound, PayloadsSound
  <1> QED
    BY <1>0, <1>2, <1>3, <1>4, <1>5, <1>6, <1>7, <1>8, TaskStep

\* clear_targets, and the target put back or given up: nothing leaves without a trace.
LEMMA AfterClearHashes ==
    ASSUME TypeOK, NEW w \in Workers, AfterClear(w)
    PROVE  /\ Goto(w, "best") /\ targets' \in Seq(Target) /\ lost \cup TargetHashes \subseteq lost'
           /\ orphans \ (stored' \cup orphans') \subseteq lost'
           /\ work[w].target.hash \in TargetHashes' \cup stored' \cup orphans' \cup lost' \cup payloads'
  <1> DEFINE t == work[w].target
             again == t.retries < MaxRetries /\ t.hash \notin Known'
             u == [hash |-> t.hash, retries |-> t.retries + 1]
  <1>0. t.hash \in Hash \cup {Zero} /\ t.retries \in Nat
    BY Zenon DEF TypeOK, WorkState, Target
  <1>1. /\ Goto(w, "best") /\ targets' = IF again THEN <<u>> ELSE <<>>
        /\ lost' = lost \cup TargetHashes \cup (orphans \ (stored' \cup orphans')) \cup
                   (IF t.retries < MaxRetries THEN {} ELSE {t.hash})
    BY Zenon DEF AfterClear
  <1>2. u \in Target /\ u.hash = t.hash
    BY <1>0 DEF Target
  <1> HIDE DEF u
  <1>3. targets' \in Seq(Target)
    <2>1. <<u>> \in Seq(Target) /\ <<>> \in Seq(Target)
      BY <1>2
    <2> QED
      BY <1>1, <2>1, Zenon
  <1>4. again => t.hash \in TargetHashes'
    <2>1. 1 \in DOMAIN <<u>> /\ <<u>>[1] = u
      OBVIOUS
    <2> QED
      BY <1>1, <1>2, <2>1, Zenon DEF TargetHashes
  <1>5. ~again => t.hash \in stored' \cup orphans' \cup lost' \cup payloads'
    BY <1>1, Zenon DEF Known
  <1> QED
    BY <1>1, <1>3, <1>4, <1>5

\* An invalid ancestor: the target is marked and the registry cleared.
LEMMA WalkInvalidSound == ASSUME SyncSound, NEW w \in Workers, WalkInvalid(w) PROVE SyncSound'
  <1> DEFINE marked == {work[w].target.hash} \ {work[w].current}
  <1>0. /\ TypeOK /\ AfterClear(w) /\ invalid' = Mark(marked, "Hard") /\ orphans' = orphans \ marked
        /\ UNCHANGED <<stored, importing, requests, head, gossip, sessions, table, calls, payloads, built>>
    BY Zenon DEF WalkInvalid, SyncSound, net
  <1>1. /\ Goto(w, "best") /\ targets' \in Seq(Target) /\ lost \cup TargetHashes \subseteq lost'
        /\ orphans \ (stored' \cup orphans') \subseteq lost'
        /\ work[w].target.hash \in TargetHashes' \cup stored' \cup orphans' \cup lost' \cup payloads'
    BY <1>0, AfterClearHashes, Zenon
  <1>2. OneWorks(w) /\ work'[w].pc = "best"
    BY <1>0, <1>1, GotoWorks, ZenonT(60) DEF Labels
  <1>3. BatchSound(w)'
    BY <1>2, Zenon DEF BatchSound
  <1>4. invalid' \in [Hash -> Reasons]
    BY <1>0, Zenon DEF Mark, Reasons, TypeOK
  <1>5. TypeOK'
    BY <1>0, <1>1, <1>2, <1>4, ZenonT(60) DEF TypeOK, OneWorks
  <1>6. TablesSound' /\ \A x \in orphans' : Parent[x] \notin stored' \ built'
    BY <1>0, Zenon DEF SyncSound, TablesSound, PayloadsSound, OrphanRootPursued
  <1>7. TargetHashes' \subseteq Pursued' /\ payloads' \subseteq stored' \cup built'
    BY <1>6, Zenon DEF Pursued, TablesSound, PayloadsSound
  <1> QED
    BY <1>0, <1>1, <1>2, <1>3, <1>5, <1>6, <1>7, TaskStep, Zenon

\* A block somebody has: known, being imported by another task, or imported.
LEMMA FetchedSound ==
    ASSUME SyncSound, NEW b \in Hash, NEW ok,
           NEW out, out = IF b \in Known THEN Outcome(ok, stored, orphans, invalid, {}) ELSE ImportBlock(b)
    PROVE  OutcomeSound(out) /\ (out.ok => b \in Known \cup out.stored \cup out.orphans \/ Busy(b))
  <1>1. CASE b \in Known
    BY <1>1, KeptSound, Zenon
  <1>2. CASE b \notin Known /\ Busy(b)
    <2>1. out = Outcome(TRUE, stored, orphans, invalid, {})
      BY <1>2, Zenon DEF ImportBlock
    <2> QED
      BY <1>2, <2>1, KeptSound, Zenon
  <1>3. CASE b \notin Known /\ ~Busy(b)
    <2>1. out = Imported(b)
      BY <1>3, Zenon DEF ImportBlock
    <2> QED
      BY <2>1, ImportedSound, Zenon
  <1> QED
    BY <1>1, <1>2, <1>3, Zenon

\* The import of one ancestor, oldest first, and its failure.
LEMMA AncestorSound == ASSUME SyncSound, NEW w \in Workers, Ancestor(w) PROVE SyncSound'
  <1> DEFINE b == Oldest(w)
             q == work[w].batch
             t == work[w].target
             out == IF b \in Known THEN Outcome(TRUE, stored, orphans, invalid, {}) ELSE ImportBlock(b)
             marked == {t.hash} \ {b}
  <1>0. /\ TypeOK /\ BatchSound(w) /\ work[w].pc = "ancestors" /\ q # <<>>
        /\ stored' = out.stored /\ requests' = requests \cup out.request
        /\ payloads' = payloads \ (out.stored \ stored)
        /\ UNCHANGED <<importing, head, gossip, sessions, table, calls, built>>
    BY Zenon DEF Ancestor, At, SyncSound, BatchesSound, net
  <1>1. q \in Seq(Hash) /\ Len(q) \in Nat \ {0} /\ b = q[Len(q)] /\ b \in Hash /\ q[1] = t.hash
    <2>1. q \in Seq(Hash) /\ b = q[Len(q)] /\ q[1] = t.hash
      BY <1>0, Zenon DEF TypeOK, WorkState, Oldest, BatchSound
    <2> HIDE DEF b, q, t
    <2>2. q # <<>>
      BY <1>0, Zenon
    <2>3. Len(q) \in Nat \ {0}
      BY <2>1, <2>2
    <2>4. q[Len(q)] \in Hash
      BY <2>1, <2>3
    <2> QED
      BY <2>1, <2>3, <2>4, Zenon
  <1>2. OutcomeSound(out) /\ (out.ok => b \in Known \cup out.stored \cup out.orphans \/ Busy(b))
    <2> HIDE DEF b
    <2> QED
      BY <1>1, FetchedSound, ZenonT(60)
  <1>3. out.orphans \subseteq Hash /\ out.invalid \in [Hash -> Reasons] /\ requests' \subseteq Hash /\ stored' \subseteq Hash
    BY <1>0, <1>2, Zenon DEF OutcomeSound, TypeOK
  <1>4. CASE out.ok
    <2>1. /\ invalid' = out.invalid /\ orphans' = out.orphans /\ UNCHANGED registry
          /\ work' = [work EXCEPT ![w].batch = SubSeq(@, 1, Len(@) - 1), ![w].last = b]
          /\ lost' = lost \cup Evicted(out) \cup (IF b \notin Known \cup importing /\ Busy(b) THEN {b} ELSE {})
      BY <1>4, Zenon DEF Ancestor
    <2> DEFINE p == SubSeq(q, 1, Len(q) - 1)
    <2> HIDE DEF out, b
    <2>2. /\ p \in Seq(Hash) /\ (Len(q) = 1 => p = <<>>) /\ (Len(q) # 1 => p # <<>> /\ p[1] = q[1])
      <3> HIDE DEF q
      <3>1. \A n \in Nat \ {0} : n - 1 \in 0 .. n /\ (n = 1 <=> n - 1 = 0) /\ (n # 1 => 1 \in 1 .. n - 1)
        OBVIOUS
      <3> DEFINE k == Len(q) - 1
      <3>2. k \in 0 .. Len(q) /\ (Len(q) = 1 <=> k = 0) /\ (Len(q) # 1 => 1 \in 1 .. k)
        BY <1>1, <3>1, Zenon
      <3> HIDE DEF k
      <3>3. /\ SubSeq(q, 1, k) \in Seq(Hash) /\ \A i \in 1 .. k : SubSeq(q, 1, k)[i] = q[i]
            /\ (k = 0 => SubSeq(q, 1, k) = <<>>) /\ (k # 0 => SubSeq(q, 1, k) # <<>>)
        BY <1>1, <3>2, Prefix
      <3> QED
        BY <3>2, <3>3, Zenon DEF k
    <2>3. /\ OneWorks(w) /\ work'[w].pc = "ancestors" /\ work'[w].batch = p /\ work'[w].target = t
      <3> DEFINE r == [work[w] EXCEPT !.batch = p, !.last = b]
      <3>1. work' = [work EXCEPT ![w] = r]
        BY <1>0, <2>1, Zenon DEF TypeOK
      <3> HIDE DEF p
      <3>2. r \in WorkState /\ r.pc = "ancestors" /\ r.batch = p /\ r.target = t
        BY <1>0, <1>1, <2>2, Zenon DEF TypeOK, WorkState
      <3> HIDE DEF r, t
      <3> QED
        BY <1>0, <3>1, <3>2, Zenon DEF TypeOK, OneWorks
    <2> HIDE DEF p, q, t
    <2>4. BatchSound(w)'
      BY <1>1, <2>2, <2>3, Zenon DEF BatchSound
    <2>5. TypeOK'
      BY <1>0, <1>3, <2>1, <2>3, Zenon DEF TypeOK, OneWorks, registry
    <2>6. TablesSound' /\ \A x \in orphans' : Parent[x] \notin stored' \ built'
      BY <1>0, <1>2, <2>1, TablesByOutcome, Zenon
    <2>7. orphans \ (stored' \cup orphans') \subseteq lost'
      BY <1>0, <2>1, Zenon DEF Evicted
    <2>8. \A x \in orphans' \ orphans : Parent[x] \in orphans \cup requests' \cup built'
      BY <1>0, <1>2, <2>1 DEF OutcomeSound
    <2>9. TargetHashes \cup importing \subseteq Pursued'
      BY <1>0, <2>1, Zenon DEF Pursued, TargetHashes, registry
    <2>10. t.hash \in Pursued' \cup orphans' \cup lost' \cup stored' \cup built'
      <3>1. CASE Len(q) # 1
        <4>1. Pursuing(w)'
          BY <2>2, <2>3, <3>1, Zenon DEF Pursuing
        <4> QED
          BY <2>3, <4>1, Zenon DEF Pursued
      <3>2. CASE Len(q) = 1
        <4>1. t.hash = b
          BY <1>1, <3>2, Zenon
        <4>2. CASE b \in Known
          <5>1. payloads \subseteq stored \cup built
            BY Zenon DEF SyncSound, TablesSound, PayloadsSound
          <5> QED
            BY <1>0, <1>2, <2>7, <4>1, <4>2, <5>1, Zenon DEF OutcomeSound, Known
        <4>3. CASE b \notin Known /\ Busy(b)
          BY <2>1, <2>9, <4>1, <4>3, Zenon
        <4>4. CASE b \notin Known /\ ~Busy(b)
          BY <1>0, <1>2, <1>4, <2>1, <4>1, <4>4
        <4> QED
          BY <4>2, <4>3, <4>4, Zenon
      <3> QED
        BY <1>1, <3>1, <3>2, Zenon
    <2>11. lost \subseteq lost' /\ requests \subseteq requests'
      BY <1>0, <2>1, Zenon
    <2> QED
      BY <1>0, <2>3, <2>4, <2>5, <2>6, <2>7, <2>8, <2>9, <2>10, <2>11, TaskStep DEF t
  <1>5. CASE ~out.ok
    <2>1. /\ invalid' = [h \in Hash |-> IF h \in marked THEN "Hard" ELSE out.invalid[h]]
          /\ orphans' = out.orphans \ marked /\ AfterClear(w)
      BY <1>5, Zenon DEF Ancestor
    <2> HIDE DEF out, b
    <2>2. /\ Goto(w, "best") /\ targets' \in Seq(Target) /\ lost \cup TargetHashes \subseteq lost'
          /\ orphans \ (stored' \cup orphans') \subseteq lost'
          /\ t.hash \in TargetHashes' \cup stored' \cup orphans' \cup lost' \cup payloads'
      BY <1>0, <2>1, AfterClearHashes, Zenon
    <2>3. OneWorks(w) /\ work'[w].pc = "best"
      BY <1>0, <2>2, GotoWorks, Zenon DEF Labels
    <2>4. BatchSound(w)'
      BY <2>3, Zenon DEF BatchSound
    <2>5. invalid' \in [Hash -> Reasons]
      BY <1>3, <2>1, Zenon DEF Reasons
    <2>6. TypeOK'
      BY <1>0, <1>3, <2>1, <2>2, <2>3, <2>5, ZenonT(60) DEF TypeOK, OneWorks
    <2>7. TablesSound' /\ \A x \in orphans' : Parent[x] \notin stored' \ built'
      BY <1>0, <1>2, <2>1, TablesByOutcome, ZenonT(60)
    <2>8. \A x \in orphans' \ orphans : Parent[x] \in orphans \cup requests' \cup built'
      BY <1>0, <1>2, <2>1, Zenon DEF OutcomeSound
    <2>9. TargetHashes' \subseteq Pursued' /\ payloads' \subseteq stored' \cup built'
      BY <2>7, Zenon DEF Pursued, TablesSound, PayloadsSound
    <2>10. lost \subseteq lost' /\ requests \subseteq requests'
      BY <1>0, <2>2, Zenon
    <2>11. TargetHashes \subseteq Pursued' \cup lost' \cup {Zero}
      BY <2>2, Zenon
    <2>12. t.hash \in Pursued' \cup orphans' \cup lost' \cup stored' \cup built' \cup {Zero}
      BY <2>2, <2>9, Zenon
    <2> QED
      BY <1>0, <2>2, <2>3, <2>4, <2>6, <2>7, <2>8, <2>10, <2>11, <2>12, TaskStep
  <1> QED
    BY <1>4, <1>5, Zenon

\* The import of one block of a range, and its failure.
LEMMA RangeBlockSound == ASSUME SyncSound, NEW w \in Workers, RangeBlock(w) PROVE SyncSound'
  <1> DEFINE q == work[w].batch
             b == Head(q)
             out == IF b \in Known THEN Outcome(TRUE, stored, orphans, invalid, {}) ELSE ImportBlock(b)
  <1>0. /\ TypeOK /\ work[w].pc = "range" /\ q # <<>>
        /\ stored' = out.stored /\ orphans' = out.orphans /\ requests' = requests \cup out.request
        /\ invalid' = out.invalid /\ lost' = lost \cup Evicted(out)
        /\ payloads' = payloads \ (out.stored \ stored)
        /\ UNCHANGED <<importing, head, targets, gossip, sessions, table, calls, built>>
    BY Zenon DEF RangeBlock, Install, At, SyncSound, net, registry
  <1>1. q \in Seq(Hash) /\ b \in Hash /\ Tail(q) \in Seq(Hash)
    <2>1. q \in Seq(Hash) /\ q # <<>>
      BY <1>0, Zenon DEF TypeOK, WorkState
    <2> HIDE DEF q
    <2> QED
      BY <2>1
  <1>2. OutcomeSound(out)
    <2> HIDE DEF b
    <2> QED
      BY <1>1, FetchedSound, Zenon
  <1>3. /\ OneWorks(w) /\ BatchSound(w)'
    <2>1. CASE work' = [work EXCEPT ![w] = Idle]
      <3>1. OneWorks(w) /\ work'[w].pc = "idle" /\ work'[w].batch = <<>>
        BY <1>0, <2>1, IdleWorks, Zenon
      <3> QED
        BY <3>1, Zenon DEF BatchSound
    <2>2. CASE work' = [work EXCEPT ![w].batch = Tail(@), ![w].last = b]
      <3> DEFINE r == [work[w] EXCEPT !.batch = Tail(q), !.last = b]
      <3>1. work' = [work EXCEPT ![w] = r]
        BY <1>0, <2>2, Zenon DEF TypeOK
      <3> HIDE DEF b
      <3>2. r \in WorkState /\ r.pc = "range"
        BY <1>0, <1>1, ZenonT(60) DEF TypeOK, WorkState
      <3> HIDE DEF r
      <3>3. OneWorks(w) /\ work'[w].pc = "range"
        BY <1>0, <3>1, <3>2, Zenon DEF TypeOK, OneWorks
      <3> QED
        BY <3>3, Zenon DEF BatchSound
    <2> QED
      BY Zenon, <2>1, <2>2 DEF RangeBlock, Return
  <1> HIDE DEF out
  <1>4. TypeOK'
    BY <1>0, <1>2, <1>3, ZenonT(60) DEF TypeOK, OneWorks, OutcomeSound
  <1>5. TablesSound' /\ \A x \in orphans' : Parent[x] \notin stored' \ built'
    BY <1>0, <1>2, TablesByOutcome, ZenonT(60)
  <1>6. orphans \ (stored' \cup orphans') \subseteq lost'
    BY <1>0, Zenon DEF Evicted
  <1>7. \A x \in orphans' \ orphans : Parent[x] \in orphans \cup requests' \cup built'
    BY <1>0, <1>2, Zenon DEF OutcomeSound
  <1>8. TargetHashes \subseteq Pursued' /\ ~Pursuing(w) /\ lost \subseteq lost' /\ requests \subseteq requests'
    BY <1>0, Zenon DEF Pursued, Pursuing, TargetHashes
  <1> QED
    BY <1>0, <1>3, <1>4, <1>5, <1>6, <1>7, <1>8, TaskStep, Zenon

-----------------------------------------------------------------------------
(* The gossip tasks, the consensus client and the peers.                   *)

\* A step of anyone but a sync task: what was pursued still is, or has a reason.
LEMMA OutsideStep ==
    ASSUME SyncSound, UNCHANGED work, TypeOK', TablesSound', GossipBeforeParis',
           \A x \in orphans' : Parent[x] \notin stored' \ built',
           lost \subseteq lost', orphans \ (stored' \cup orphans') \subseteq lost', built \subseteq built',
           \A x \in orphans' \ orphans : Parent[x] \in orphans \cup Pursued' \cup built',
           \A h \in TargetHashes \cup requests \cup importing :
              h \in Pursued' \cup orphans' \cup lost' \cup stored' \cup built' \cup {Zero}
    PROVE  SyncSound'
  <1>1. BatchesSound'
    BY Zenon DEF SyncSound, BatchesSound, BatchSound
  <1>2. ASSUME NEW v \in Workers, Pursuing(v) PROVE work[v].target.hash \in Pursued'
    <2>1. Pursuing(v)' /\ work'[v].target.hash = work[v].target.hash
      BY <1>2, Zenon DEF Pursuing
    <2> QED
      BY <2>1, Zenon DEF Pursued
  <1>3. \A h \in Pursued : h \in Pursued' \cup orphans' \cup lost' \cup stored' \cup built' \cup {Zero}
    BY <1>2, ZenonT(60) DEF Pursued
  <1>4. orphans' \subseteq Hash
    BY Zenon DEF TypeOK
  <1>5. OrphanRootPursued'
    BY <1>3, <1>4, PoolStep, Zenon
  <1> QED
    BY <1>1, <1>5, Zenon DEF SyncSound

\* A step that imports nothing and leaves the pool and what is pursued alone.
LEMMA QuietStep ==
    ASSUME SyncSound, Kept, UNCHANGED <<orphans, invalid, importing, requests, targets, work, lost, built>>,
           gossip' \in [Gossips -> GossipState], GossipBeforeParis', head' \in Hash,
           sessions' \subseteq Peers, table' \subseteq Peers, calls' \in Nat
    PROVE  SyncSound'
  <1>1. TypeOK'
    BY Zenon DEF SyncSound, TypeOK, Kept
  <1>2. TablesSound' /\ \A x \in orphans' : Parent[x] \notin stored' \ built'
    BY Zenon DEF Kept
  <1>3. TargetHashes \cup requests \cup importing \subseteq Pursued'
    BY Zenon DEF Pursued, TargetHashes
  <1> QED
    BY <1>1, <1>2, <1>3, OutsideStep, Zenon

\* A gossip task at its next step, and one that ends.
LEMMA GossipMoves ==
    ASSUME SyncSound, NEW g \in Gossips,
           \/ GossipEnds(g)
           \/ \E label \in {"import", "head", "move"} :
                 GossipTo(g, label) /\ (label = "import" \/ ~PostMerge(gossip[g].blk))
    PROVE  gossip' \in [Gossips -> GossipState] /\ GossipBeforeParis'
  <1>0. gossip \in [Gossips -> GossipState] /\ GossipBeforeParis
    BY Zenon DEF SyncSound, TypeOK
  <1>1. CASE GossipEnds(g)
    <2>1. Quiet \in GossipState /\ Quiet.pc = "idle"
      <3>1. PeerOrder[1] \in Peers
        BY SyncAssumption
      <3> QED
        BY <3>1, SyncAssumption, Zenon DEF Quiet, GossipState
    <2>2. gossip' = [gossip EXCEPT ![g] = Quiet]
      BY <1>1, Zenon DEF GossipEnds
    <2> QED
      BY <1>0, <2>1, <2>2, Zenon DEF GossipBeforeParis
  <1>2. ASSUME NEW label \in {"import", "head", "move"}, GossipTo(g, label),
               label = "import" \/ ~PostMerge(gossip[g].blk)
        PROVE  gossip' \in [Gossips -> GossipState] /\ GossipBeforeParis'
    <2> DEFINE r == [gossip[g] EXCEPT !.pc = label]
    <2>1. gossip' = [gossip EXCEPT ![g] = r]
      BY <1>0, <1>2, Zenon DEF GossipTo
    <2>2. r \in GossipState /\ r.pc = label /\ r.blk = gossip[g].blk
      BY <1>0 DEF GossipState
    <2> HIDE DEF r
    <2> QED
      BY <1>0, <1>2, <2>1, <2>2 DEF GossipBeforeParis, PostMerge
  <1> QED
    BY <1>1, <1>2, Zenon

\* A block or a hash arrives from a peer.
LEMMA GossipArrivesSound ==
    ASSUME SyncSound, NEW g \in Gossips, NEW p \in Peers, NEW b \in Hash,
           GossipBlock(g, p, b) \/ GossipHash(g, p, b)
    PROVE  SyncSound'
  <1>0. /\ TypeOK /\ GossipBeforeParis
        /\ UNCHANGED <<stored, orphans, invalid, importing, requests, head, targets, work, lost, payloads, built, sessions, table>>
        /\ calls' = calls + 1
    BY Zenon DEF GossipBlock, GossipHash, SyncSound, Outside, chain, registry, net, history
  <1>1. gossip' \in [Gossips -> GossipState] /\ GossipBeforeParis'
    <2>1. ASSUME NEW r \in GossipState, r.pc \in {"import", "download"}, gossip' = [gossip EXCEPT ![g] = r]
          PROVE  gossip' \in [Gossips -> GossipState] /\ GossipBeforeParis'
      BY <1>0, <2>1, Zenon DEF TypeOK, GossipBeforeParis, PostMerge
    <2>2. CASE GossipBlock(g, p, b)
      <3> DEFINE r == [pc |-> "import", blk |-> b, peer |-> p, announced |-> FALSE]
      <3>1. r \in GossipState /\ r.pc = "import" /\ gossip' = [gossip EXCEPT ![g] = r]
        BY <2>2, Zenon DEF GossipBlock, GossipState
      <3> HIDE DEF r
      <3> QED
        BY <2>1, <3>1, Zenon
    <2>3. CASE GossipHash(g, p, b)
      <3> DEFINE r == [pc |-> "download", blk |-> b, peer |-> p, announced |-> TRUE]
      <3>1. r \in GossipState /\ r.pc = "download"
        BY Zenon DEF GossipState
      <3>2. gossip' = gossip \/ gossip' = [gossip EXCEPT ![g] = r]
        BY <2>3, Zenon DEF GossipHash
      <3> HIDE DEF r
      <3>3. CASE gossip' = gossip
        BY <1>0, <3>3, Zenon DEF TypeOK, GossipBeforeParis, PostMerge
      <3> QED
        BY <2>1, <3>1, <3>2, <3>3, Zenon
    <2> QED
      BY <2>2, <2>3, Zenon
  <1>2. head' \in Hash /\ sessions' \subseteq Peers /\ table' \subseteq Peers /\ calls' \in Nat
    BY <1>0 DEF TypeOK
  <1>3. Kept
    BY <1>0, KeptTables, Zenon
  <1> QED
    BY <1>0, <1>1, <1>2, <1>3, QuietStep, Zenon

\* The steps of a gossip task that import nothing.
LEMMA GossipQuietSound ==
    ASSUME SyncSound, NEW g \in Gossips,
           GossipDownload(g) \/ GossipDownloadFails(g) \/ GossipReadHead(g) \/ GossipMoveHead(g)
    PROVE  SyncSound'
  <1>0. /\ TypeOK /\ GossipBeforeParis
        /\ UNCHANGED <<targets, work, lost, built, sessions, table, calls>>
    BY Zenon DEF GossipDownload, GossipDownloadFails, GossipReadHead, GossipMoveHead, SyncSound,
                 registry, net, history
  <1>1. gossip' \in [Gossips -> GossipState] /\ GossipBeforeParis'
    <2>1. \/ GossipEnds(g) \/ GossipTo(g, "import")
          \/ gossip[g].pc = "head" /\ GossipTo(g, "move")
      BY Zenon DEF GossipDownload, GossipDownloadFails, GossipReadHead, GossipMoveHead, GossipAt
    <2>2. gossip[g].pc = "head" => ~PostMerge(gossip[g].blk)
      BY <1>0, Zenon DEF GossipBeforeParis
    <2> QED
      BY <2>1, <2>2, GossipMoves, Zenon
  <1>2. Kept /\ head' \in Hash /\ UNCHANGED <<orphans, invalid, importing, requests>>
    <2>1. CASE UNCHANGED <<chain, head>>
      BY <1>0, <2>1, KeptTables, Zenon DEF chain, TypeOK
    <2>2. CASE SetHead(gossip[g].blk)
      BY <1>0, <2>2, PromotedTables, Zenon
    <2>3. UNCHANGED <<chain, head>> \/ SetHead(gossip[g].blk)
      BY Zenon DEF GossipDownload, GossipDownloadFails, GossipReadHead, GossipMoveHead, ForkchoiceUpdated
    <2> QED
      BY <2>1, <2>2, <2>3, Zenon
  <1>3. sessions' \subseteq Peers /\ table' \subseteq Peers /\ calls' \in Nat
    BY <1>0, Zenon DEF TypeOK
  <1> QED
    BY <1>0, <1>1, <1>2, <1>3, QuietStep

\* A gossip task imports its block.
LEMMA GossipImportSound == ASSUME SyncSound, NEW g \in Gossips, GossipImport(g) PROVE SyncSound'
  <1> DEFINE b == gossip[g].blk
             out == IF b \in Known THEN Outcome(FALSE, stored, orphans, invalid, {}) ELSE ImportBlock(b)
  <1>0. /\ TypeOK
        /\ stored' = out.stored /\ orphans' = out.orphans /\ requests' = requests \cup out.request
        /\ invalid' = out.invalid /\ lost' = lost \cup Evicted(out)
        /\ payloads' = payloads \ (out.stored \ stored)
        /\ UNCHANGED <<importing, head, targets, work, sessions, table, calls, built>>
        /\ (~PostMerge(b) /\ GossipTo(g, "head")) \/ GossipEnds(g)
    BY Zenon DEF GossipImport, Install, SyncSound, net, registry
  <1>1. b \in Hash
    BY <1>0, Zenon DEF TypeOK, GossipState
  <1>2. OutcomeSound(out)
    <2> HIDE DEF b
    <2> QED
      BY <1>1, FetchedSound, Zenon
  <1>3. gossip' \in [Gossips -> GossipState] /\ GossipBeforeParis'
    BY <1>0, GossipMoves, Zenon
  <1> HIDE DEF out
  <1>4. TypeOK'
    BY <1>0, <1>2, <1>3, Zenon DEF TypeOK, OutcomeSound
  <1>5. TablesSound' /\ \A x \in orphans' : Parent[x] \notin stored' \ built'
    BY <1>0, <1>2, TablesByOutcome, ZenonT(60)
  <1>6. lost \subseteq lost' /\ orphans \ (stored' \cup orphans') \subseteq lost'
    BY <1>0, Zenon DEF Evicted
  <1>7. TargetHashes \cup requests' \cup importing \subseteq Pursued' /\ requests \subseteq requests'
    BY <1>0, Zenon DEF Pursued, TargetHashes
  <1>8. \A x \in orphans' \ orphans : Parent[x] \in orphans \cup Pursued' \cup built'
    BY <1>0, <1>2, <1>7, ZenonT(60) DEF OutcomeSound
  <1> QED
    BY <1>0, <1>3, <1>4, <1>5, <1>6, <1>7, <1>8, OutsideStep, Zenon

\* add_target of a requested parent, and trigger_sync: the request becomes a target.
LEMMA AddSound ==
    ASSUME SyncSound, (\E h \in Hash : AddRequested(h)) \/ TriggerSync PROVE SyncSound'
  <1>0. /\ TypeOK /\ GossipBeforeParis
        /\ UNCHANGED <<stored, orphans, invalid, importing, head, work, gossip, sessions, table, lost, payloads, built>>
        /\ calls' = calls \/ calls' = calls + 1
    BY Zenon DEF AddRequested, TriggerSync, SyncSound, Outside, chain, net, history
  <1>1. PICK h \in Hash \cup {Zero} : AddTarget(h, 0) /\ requests \ {h} \subseteq requests' /\ requests' \subseteq requests
    BY Zenon DEF AddRequested, TriggerSync, chain
  <1>2. targets' \in Seq(Target) /\ TargetHashes \subseteq TargetHashes' /\ h \in Known \cup TargetHashes'
    BY <1>0, <1>1, AddTargetHashes, Zenon
  <1>3. TypeOK'
    BY <1>0, <1>1, <1>2 DEF TypeOK
  <1>4. TablesSound' /\ GossipBeforeParis' /\ \A x \in orphans' : Parent[x] \notin stored' \ built'
    BY <1>0, Zenon DEF SyncSound, TablesSound, PayloadsSound, OrphanRootPursued, GossipBeforeParis, PostMerge
  <1>5. TargetHashes' \cup requests' \cup importing \subseteq Pursued'
    BY <1>0, Zenon DEF Pursued
  <1>6. \A k \in TargetHashes \cup requests \cup importing : k \in Pursued' \cup orphans' \cup stored' \cup built'
    <2>1. payloads \subseteq stored \cup built
      BY Zenon DEF SyncSound, TablesSound, PayloadsSound
    <2> QED
      BY <1>0, <1>1, <1>2, <1>5, <2>1 DEF Known
  <1> QED
    BY <1>0, <1>3, <1>4, <1>6, OutsideStep, Zenon

\* engine_newPayload begins, or is refused for its arguments.
LEMMA NewPayloadSound ==
    ASSUME SyncSound, NEW b \in Hash, NewPayload(b) \/ NewPayloadSoft(b)
    PROVE  SyncSound'
  <1>0. /\ TypeOK /\ GossipBeforeParis
        /\ UNCHANGED <<stored, requests, head, targets, work, gossip, sessions, table, payloads, built>>
        /\ calls' = calls + 1 /\ importing \subseteq importing' /\ importing' \subseteq importing \cup {b}
        /\ orphans \ {b} \subseteq orphans' /\ orphans' \subseteq orphans
        /\ lost \subseteq lost' /\ orphans \ orphans' \subseteq lost'
    BY Zenon DEF NewPayload, NewPayloadSoft, SyncSound, Outside, net, registry, history
  <1>1. invalid' \in [Hash -> Reasons]
    BY <1>0, Zenon DEF NewPayload, NewPayloadSoft, Mark, Reasons, TypeOK
  <1>2. TypeOK'
    BY <1>0, <1>1 DEF TypeOK
  <1>3. TablesSound' /\ GossipBeforeParis' /\ \A x \in orphans' : Parent[x] \notin stored' \ built'
    BY <1>0, Zenon DEF SyncSound, TablesSound, PayloadsSound, OrphanRootPursued, GossipBeforeParis, PostMerge
  <1>4. TargetHashes \cup requests \cup importing \subseteq Pursued'
    BY <1>0, Zenon DEF Pursued, TargetHashes
  <1> QED
    BY <1>0, <1>2, <1>3, <1>4, OutsideStep

\* engine_newPayload ends: its block is stored, buffered or lost.
LEMMA NewPayloadEndsSound ==
    ASSUME SyncSound, NEW b \in Hash, NewPayloadEnds(b) PROVE SyncSound'
  <1> DEFINE out == Imported(b)
  <1>0. /\ TypeOK /\ GossipBeforeParis /\ importing' = importing \ {b}
        /\ stored' = out.stored /\ orphans' = out.orphans /\ requests' = requests \cup out.request
        /\ invalid' = out.invalid
        /\ lost' = lost \cup Evicted(out) \cup ({b} \ (out.stored \cup out.orphans))
        /\ payloads' = payloads \ (out.stored \ stored)
        /\ UNCHANGED <<head, targets, work, gossip, sessions, table, calls, built>>
    BY Zenon DEF NewPayloadEnds, Install, SyncSound, net, registry
  <1>1. OutcomeSound(out)
    BY ImportedSound, Zenon
  <1> HIDE DEF out
  <1>2. TypeOK'
    BY <1>0, <1>1, Zenon DEF TypeOK, OutcomeSound
  <1>3. TablesSound' /\ \A x \in orphans' : Parent[x] \notin stored' \ built'
    BY <1>0, <1>1, TablesByOutcome, ZenonT(60)
  <1>4. GossipBeforeParis'
    BY <1>0, Zenon DEF GossipBeforeParis, PostMerge
  <1>5. lost \subseteq lost' /\ orphans \ (stored' \cup orphans') \subseteq lost'
    BY <1>0, Zenon DEF Evicted
  <1>6. TargetHashes \cup requests' \cup importing' \subseteq Pursued' /\ requests \subseteq requests'
    BY <1>0, Zenon DEF Pursued, TargetHashes
  <1>7. \A x \in orphans' \ orphans : Parent[x] \in orphans \cup Pursued' \cup built'
    BY <1>0, <1>1, <1>6, Zenon DEF OutcomeSound
  <1>8. b \in stored' \cup orphans' \cup lost'
    BY <1>0, Zenon
  <1> QED
    BY <1>0, <1>2, <1>3, <1>4, <1>5, <1>6, <1>7, <1>8, OutsideStep, Zenon

\* forkchoiceUpdated, and peers that come and go.
LEMMA EnvironmentSound ==
    ASSUME SyncSound, (\E b \in Hash : NewHead(b)) \/ (\E p \in Peers : Connect(p) \/ Disconnect(p))
    PROVE  SyncSound'
  <1>0. /\ TypeOK /\ GossipBeforeParis /\ calls' = calls + 1
        /\ UNCHANGED <<targets, work, gossip, lost, built>>
    BY Zenon DEF NewHead, Connect, Disconnect, SyncSound, Outside, registry, history
  <1>1. Kept /\ head' \in Hash /\ UNCHANGED <<orphans, invalid, importing, requests>>
    <2>1. CASE UNCHANGED <<chain, head>>
      BY <1>0, <2>1, KeptTables, Zenon DEF chain, TypeOK
    <2>2. CASE \E b \in Hash : SetHead(b)
      BY <1>0, <2>2, PromotedTables, Zenon
    <2>3. UNCHANGED <<chain, head>> \/ \E b \in Hash : SetHead(b)
      BY Zenon DEF NewHead, Connect, Disconnect, ForkchoiceUpdated
    <2> QED
      BY <2>1, <2>2, <2>3, Zenon
  <1>2. sessions' \subseteq Peers /\ table' \subseteq Peers
    BY <1>0, Zenon DEF NewHead, Connect, Disconnect, TypeOK, net
  <1>3. gossip' \in [Gossips -> GossipState] /\ GossipBeforeParis'
    BY <1>0, Zenon DEF TypeOK, GossipBeforeParis
  <1>4. calls' \in Nat
    BY <1>0 DEF TypeOK
  <1> QED
    BY <1>0, <1>1, <1>2, <1>3, <1>4, QuietStep

\* A block is built on the head.
LEMMA BuildSound == ASSUME SyncSound, NEW b \in Hash, BuildPayload(b) PROVE SyncSound'
  <1>0. /\ TypeOK /\ TablesSound /\ OrphanRootPursued /\ GossipBeforeParis
        /\ b \in Buildable /\ b \notin stored /\ b \notin orphans /\ Parent[b] = head
        /\ payloads' = payloads \cup {b} /\ built' = built \cup {b} /\ calls' = calls + 1
        /\ UNCHANGED <<stored, orphans, invalid, importing, requests, head, targets, work, gossip, sessions, table, lost>>
    BY Zenon DEF BuildPayload, SyncSound, Outside, Known, registry, net
  <1>1. TypeOK'
    BY <1>0 DEF TypeOK
  <1>2. PayloadsSound'
    BY <1>0, SyncAssumption, Zenon DEF TablesSound, PayloadsSound
  <1>3. TablesSound' /\ GossipBeforeParis' /\ \A x \in orphans' : Parent[x] \notin stored' \ built'
    BY <1>0, <1>2, Zenon DEF TablesSound, OrphanRootPursued, GossipBeforeParis, PostMerge
  <1>4. TargetHashes \cup requests \cup importing \subseteq Pursued'
    BY <1>0, Zenon DEF Pursued, TargetHashes
  <1> QED
    BY <1>0, <1>1, <1>3, <1>4, OutsideStep, Zenon

-----------------------------------------------------------------------------
(* Every step.                                                             *)

\* The invariant holds at the start.
LEMMA InitSound == ASSUME Init PROVE SyncSound
  <1>1. PeerOrder[1] \in Peers /\ Genesis \in Hash /\ Zero \notin Hash
    BY SyncAssumption
  <1>2. Idle \in WorkState /\ Idle.pc = "idle" /\ Idle.batch = <<>>
    <2> DEFINE H == Hash
    <2>1. <<>> \in Seq(H)
      OBVIOUS
    <2> QED
      BY <1>1, <2>1, Zenon DEF Idle, WorkState, Labels, Target
  <1>3. Quiet \in GossipState /\ Quiet.pc = "idle"
    BY <1>1, Zenon DEF Quiet, GossipState
  <1>4. <<>> \in Seq(Target)
    OBVIOUS
  <1>5. TypeOK
    BY <1>1, <1>2, <1>3, <1>4, Zenon DEF Init, TypeOK, Reasons
  <1>6. Ancestry[Genesis] = {Genesis}
    <2>1. Path[Genesis] = <<Genesis>>
      BY SyncAssumption, Zenon
    <2>2. DOMAIN <<Genesis>> = 1 .. 1 /\ <<Genesis>>[1] = Genesis
      OBVIOUS
    <2> QED
      BY <1>1, <2>1, <2>2 DEF Ancestry
  <1>7. TablesSound
    BY <1>6, SyncAssumption, Zenon DEF Init, TablesSound, PayloadsSound
  <1>8. BatchesSound
    BY <1>2, Zenon DEF Init, BatchesSound, BatchSound
  <1>9. OrphanRootPursued
    BY Zenon DEF Init, OrphanRootPursued
  <1>10. GossipBeforeParis
    BY <1>3, Zenon DEF Init, GossipBeforeParis
  <1> QED
    BY <1>5, <1>7, <1>8, <1>9, <1>10, Zenon DEF SyncSound

\* Every step of a sync task keeps the invariant.
LEMMA StepSound == ASSUME SyncSound, NEW w \in Workers, Step(w) PROVE SyncSound'
  <1>1. CASE Wake(w)
    BY <1>1, WakeSound, Zenon
  <1>2. CASE StepSkip(w) \/ HeadersFail(w) \/ BodiesFail(w) \/ Bodies(w) \/ RangeDone(w)
    BY <1>2, EndsSound, Zenon
  <1>3. CASE StepLock(w)
    BY <1>3, StepLockSound, Zenon
  <1>4. CASE StepTarget(w)
    BY <1>4, StepTargetSound, Zenon
  <1>5. CASE StepFailed(w)
    BY <1>5, StepFailedSound, Zenon
  <1>6. CASE WalkInvalid(w)
    BY <1>6, WalkInvalidSound, Zenon
  <1>7. CASE Walk(w)
    BY <1>7, WalkSound, Zenon
  <1>8. CASE DownloadFails(w)
    BY <1>8, DownloadFailsSound, Zenon
  <1>9. CASE Download(w)
    BY <1>9, DownloadSound, Zenon
  <1>10. CASE Ancestor(w)
    BY <1>10, AncestorSound, Zenon
  <1>11. CASE AncestorsDone(w)
    BY <1>11, AncestorsDoneSound, Zenon
  <1>12. CASE StepBest(w)
    BY <1>12, StepBestSound, Zenon
  <1>13. CASE Headers(w)
    BY <1>13, HeadersSound, Zenon
  <1>14. CASE RangeBlock(w)
    BY <1>14, RangeBlockSound, Zenon
  <1> QED
    BY <1>1, <1>2, <1>3, <1>4, <1>5, <1>6, <1>7, <1>8, <1>9, <1>10, <1>11, <1>12, <1>13, <1>14 DEF Step

\* Every step keeps the invariant.
LEMMA NextSound == ASSUME SyncSound, [Next]_vars PROVE SyncSound'
  <1>1. CASE \E w \in Workers : Step(w)
    BY <1>1, StepSound, Zenon
  <1>2. CASE \E g \in Gossips : Gossip(g)
    BY <1>2, GossipQuietSound, GossipImportSound, Zenon DEF Gossip
  <1>3. CASE \E g \in Gossips, p \in Peers, b \in Hash : GossipBlock(g, p, b) \/ GossipHash(g, p, b)
    BY <1>3, GossipArrivesSound, Zenon
  <1>4. CASE (\E h \in Hash : AddRequested(h)) \/ TriggerSync
    BY <1>4, AddSound, Zenon
  <1>5. CASE \E b \in Hash : NewPayload(b) \/ NewPayloadEnds(b) \/ NewPayloadSoft(b)
    BY <1>5, NewPayloadSound, NewPayloadEndsSound, Zenon
  <1>6. CASE (\E b \in Hash : NewHead(b)) \/ (\E p \in Peers : Connect(p) \/ Disconnect(p))
    BY <1>6, EnvironmentSound, Zenon
  <1>7. CASE UNCHANGED vars
    BY <1>7, Frame, Zenon DEF vars, seenVars, chain, registry, net, history
  <1>8. CASE \E b \in Hash : BuildPayload(b)
    BY <1>8, BuildSound, Zenon
  <1> QED
    BY <1>1, <1>2, <1>3, <1>4, <1>5, <1>6, <1>7, <1>8 DEF Next

\* The inductive invariant of synchronisation (controller.rs, registry.rs,
\* block_gossip.rs, payload_processor.rs as the controller calls it).
THEOREM SyncIsSound == Spec => []SyncSound
  BY InitSound, NextSound, PTL DEF Spec

-----------------------------------------------------------------------------
(* What follows from it.                                                   *)

\* No buffered block is forgotten, whatever the peers serve, however imports, gossip and
\* consensus calls interleave: its parent is buffered, pursued, was built here, or was
\* given up for one of the listed reasons (payload_processor.rs, validate_parent_block).
THEOREM OrphansPursued == Spec => []OrphanRootPursued
  <1>1. SyncSound => OrphanRootPursued
    BY Zenon DEF SyncSound
  <1> QED
    BY <1>1, SyncIsSound, PTL

\* A step without a call of the consensus client moves the head only to a block from
\* before Paris.
LEMMA HeadStep ==
    ASSUME SyncSound, [Next]_vars, head' # head, calls' = calls PROVE ~PostMerge(head')
  <1>0. TypeOK /\ GossipBeforeParis
    BY Zenon DEF SyncSound
  <1>1. ASSUME NEW w \in Workers, Step(w) PROVE UNCHANGED head \/ ~PostMerge(head')
    <2>1. CASE AncestorsDone(w)
      BY <2>1, Zenon DEF AncestorsDone, ForkchoiceUpdated, SetHead
    <2>2. CASE RangeDone(w)
      BY <2>2, Zenon DEF RangeDone, SetHead
    <2>3. CASE ~AncestorsDone(w) /\ ~RangeDone(w)
      BY <1>1, <2>3, Zenon
      DEF Step, Wake, StepSkip, StepLock, StepTarget, StepFailed, WalkInvalid, Walk, DownloadFails,
          Download, Ancestor, StepBest, HeadersFail, Headers, BodiesFail, Bodies, RangeBlock
    <2> QED
      BY <2>1, <2>2, <2>3, Zenon
  <1>2. ASSUME NEW g \in Gossips, Gossip(g) PROVE UNCHANGED head \/ ~PostMerge(head')
    <2>1. CASE GossipMoveHead(g)
      <3>1. gossip[g].pc = "move" /\ head' \in {head, gossip[g].blk}
        BY <2>1, Zenon DEF GossipMoveHead, GossipAt, ForkchoiceUpdated, SetHead
      <3> QED
        BY <1>0, <3>1, Zenon DEF GossipBeforeParis
    <2>2. CASE ~GossipMoveHead(g)
      BY <1>2, <2>2, Zenon DEF Gossip, GossipDownload, GossipDownloadFails, GossipImport, GossipReadHead
    <2> QED
      BY <2>1, <2>2, Zenon
  <1>3. ASSUME NEW b \in Hash, NewHead(b) PROVE FALSE
    <2>1. calls' = calls + 1
      BY <1>3, Zenon DEF NewHead, Outside
    <2> QED
      BY <1>0, <2>1 DEF TypeOK
  <1>4. CASE UNCHANGED vars
    BY <1>4, Zenon DEF vars
  <1>5. CASE \E g \in Gossips, p \in Peers, b \in Hash : GossipBlock(g, p, b) \/ GossipHash(g, p, b)
    BY <1>5, Zenon DEF GossipBlock, GossipHash
  <1>6. CASE (\E h \in Hash : AddRequested(h)) \/ TriggerSync
    BY <1>6, Zenon DEF AddRequested, TriggerSync
  <1>7. CASE \E b \in Hash : NewPayload(b) \/ NewPayloadEnds(b) \/ NewPayloadSoft(b)
    BY <1>7, Zenon DEF NewPayload, NewPayloadEnds, NewPayloadSoft
  <1>8. CASE \E p \in Peers : Connect(p) \/ Disconnect(p)
    BY <1>8, Zenon DEF Connect, Disconnect
  <1>9. CASE \E b \in Hash : BuildPayload(b)
    BY <1>9, Zenon DEF BuildPayload
  <1> QED
    BY <1>1, <1>2, <1>3, <1>4, <1>5, <1>6, <1>7, <1>8, <1>9 DEF Next

\* From Paris on only the consensus client's forkchoiceUpdated moves the head, also when
\* a gossip task checked the head and moves it later (block_gossip.rs), and at the end of
\* a range or of the ancestors of a target (controller.rs, "Post-Merge rule").
THEOREM HeadIsConsensus == Spec => HeadLeftToConsensus
  <1>1. SyncSound /\ [Next]_vars => [head' # head /\ calls' = calls => ~PostMerge(head')]_vars
    BY HeadStep, Zenon
  <1> QED
    BY <1>1, SyncIsSound, PTL DEF Spec, HeadLeftToConsensus

\* Nothing that is stored leaves the tables.
LEMMA ImportKeeps ==
    ASSUME NEW b, NEW ok
    PROVE  /\ stored \subseteq Outcome(ok, stored, orphans, invalid, {}).stored
           /\ stored \subseteq Imported(b).stored /\ stored \subseteq ImportBlock(b).stored
  <1>1. stored \subseteq Imported(b).stored
    BY Zenon DEF Imported, Rejected, Outcome
  <1> QED
    BY <1>1, Zenon DEF ImportBlock, Outcome

\* A stored block stays stored.
LEMMA StoredStays == ASSUME [Next]_vars PROVE stored \subseteq stored'
  <1>0. ASSUME NEW h, SetHead(h) PROVE stored \subseteq stored'
    BY <1>0, Zenon DEF SetHead
  <1>1. ASSUME NEW w \in Workers, Step(w) PROVE stored \subseteq stored'
    <2>1. CASE Ancestor(w)
      BY <2>1, ImportKeeps, Zenon DEF Ancestor
    <2>2. CASE RangeBlock(w)
      BY <2>2, ImportKeeps, Zenon DEF RangeBlock, Install
    <2>3. CASE AncestorsDone(w) \/ RangeDone(w)
      BY <1>0, <2>3, Zenon DEF AncestorsDone, RangeDone, ForkchoiceUpdated, chain
    <2>4. CASE ~Ancestor(w) /\ ~RangeBlock(w) /\ ~AncestorsDone(w) /\ ~RangeDone(w)
      <3>1. UNCHANGED stored
        BY <1>1, <2>4, Zenon
        DEF Step, Wake, StepSkip, StepLock, StepTarget, StepFailed, WalkInvalid, Walk, DownloadFails,
            Download, StepBest, HeadersFail, Headers, BodiesFail, Bodies, chain
      <3> QED
        BY <3>1, Zenon
    <2> QED
      BY <2>1, <2>2, <2>3, <2>4, Zenon
  <1>2. ASSUME NEW g \in Gossips, Gossip(g) PROVE stored \subseteq stored'
    <2>1. CASE GossipImport(g)
      BY <2>1, ImportKeeps, ZenonT(60) DEF GossipImport, Install
    <2>2. CASE GossipMoveHead(g)
      BY <1>0, <2>2, Zenon DEF GossipMoveHead, ForkchoiceUpdated
    <2>3. CASE ~GossipImport(g) /\ ~GossipMoveHead(g)
      BY <1>2, <2>3, Zenon DEF Gossip, GossipDownload, GossipDownloadFails, GossipReadHead, chain
    <2> QED
      BY <2>1, <2>2, <2>3, Zenon
  <1>3. CASE \E b \in Hash : NewPayloadEnds(b)
    BY <1>3, ImportKeeps, Zenon DEF NewPayloadEnds, Install
  <1>4. CASE \E g \in Gossips, p \in Peers, b \in Hash : GossipBlock(g, p, b) \/ GossipHash(g, p, b)
    BY <1>4, Zenon DEF GossipBlock, GossipHash, chain
  <1>5. CASE (\E h \in Hash : AddRequested(h)) \/ TriggerSync
    BY <1>5, Zenon DEF AddRequested, TriggerSync, chain
  <1>6. CASE \E b \in Hash : NewPayload(b) \/ NewPayloadSoft(b) \/ NewHead(b) \/ BuildPayload(b)
    BY <1>0, <1>6, Zenon DEF NewPayload, NewPayloadSoft, NewHead, ForkchoiceUpdated, BuildPayload
  <1>7. CASE \E p \in Peers : Connect(p) \/ Disconnect(p)
    BY <1>7, Zenon DEF Connect, Disconnect, chain
  <1>8. CASE UNCHANGED vars
    BY <1>8, Zenon DEF vars, chain
  <1> QED
    BY <1>1, <1>2, <1>3, <1>4, <1>5, <1>6, <1>7, <1>8 DEF Next

\* Every step is a step of the abstract block tree, or leaves it alone.
LEMMA StepIsStore ==
    ASSUME SyncSound, SyncSound', [Next]_vars PROVE [Tree!Store]_stored
  <1>1. stored \subseteq stored'
    BY StoredStays, Zenon
  <1>2. ASSUME NEW b \in stored' \ stored PROVE b \in Hash \ Faulty /\ Parent[b] \in stored'
    <2>1. /\ Genesis \in stored /\ b \in Hash /\ b \notin Faulty /\ Ancestry[b] \subseteq stored'
      BY <1>2 DEF SyncSound, TypeOK, TablesSound
    <2>2. Parent[b] \in Hash /\ Ancestry[b] = {b} \cup Ancestry[Parent[b]]
      BY <1>2, <2>1, AncestryStep, Zenon
    <2>3. Parent[b] \in Ancestry[Parent[b]]
      BY <2>2, AncestryStep, Zenon
    <2> QED
      BY <2>1, <2>2, <2>3, Zenon
  <1> QED
    BY <1>1, <1>2, Zenon DEF Tree!Store

\* Synchronisation implements the block tree: whatever peers serve and in whatever order
\* blocks arrive through targets, ranges, gossip and the Engine API, the tables only gain
\* sound blocks, each with its parent.
THEOREM SyncImplementsBlockTree == Spec => ImplementsBlockTree
  <1>1. Init => Tree!Init
    BY Zenon DEF Init, Tree!Init
  <1>2. SyncSound /\ SyncSound' /\ [Next]_vars => [Tree!Store]_stored
    BY StepIsStore, Zenon
  <1> QED
    BY <1>1, <1>2, SyncIsSound, PTL DEF Spec, ImplementsBlockTree, Tree!Spec
=============================================================================
