-------------------------- MODULE ConsensusProofs --------------------------
(***************************************************************************)
(* The fee rule and the payload conversions, for every fee, gas limit,     *)
(* fork schedule and header; the background loops of the builder, the      *)
(* value of the rows it writes, and their way out and back.                *)
(***************************************************************************)
EXTENDS PayloadBuilder, FiniteSetTheorems, TLAPS

-----------------------------------------------------------------------------
(* The base fee.                                                           *)

\* Integer division is monotone against a multiple of the divisor.
LEMMA DivBound ==
    ASSUME NEW a \in Nat, NEW b \in Nat, NEW t \in Nat \ {0}, a <= b * t
    PROVE  a \div t \in Nat /\ a \div t <= b
  <1>1. a \div t \in Int /\ t * (a \div t) <= a /\ a < t * (a \div t) + t
    BY Z3
  <1> DEFINE q == a \div t
  <1>2. q \in Int /\ t * q <= a /\ a < t * q + t
    BY <1>1, Zenon
  <1> HIDE DEF q
  <1>3. q >= 0
    <2>1. SUFFICES ASSUME q <= -1 PROVE FALSE
      BY <1>2
    <2>2. t * q + t <= 0
      BY <1>2, <2>1, Z3
    <2> QED
      BY <1>2, <2>2
  <1>4. q <= b
    <2>1. SUFFICES ASSUME q >= b + 1 PROVE FALSE
      BY <1>2
    <2>2. t * q >= t * (b + 1)
      BY <1>2, <2>1, Z3
    <2>3. t * (b + 1) = b * t + t
      BY Z3
    <2> QED
      BY <1>2, <2>2, <2>3, Z3
  <1> QED
    BY <1>2, <1>3, <1>4 DEF q

\* A share of at most one of the fee, divided by 8, is at most an eighth of it.
LEMMA ShareBound ==
    ASSUME NEW fee \in Nat, NEW d \in Nat, NEW t \in Nat \ {0}, d <= t
    PROVE  /\ ((fee * d) \div t) \div 8 \in Nat
           /\ ((fee * d) \div t) \div 8 <= fee \div 8
  <1>1. fee * d \in Nat /\ fee * d <= fee * t
    BY Z3
  <1>2. (fee * d) \div t \in Nat /\ (fee * d) \div t <= fee
    BY <1>1, DivBound, Zenon
  <1> DEFINE s == (fee * d) \div t
  <1>3. s \in Nat /\ s <= fee
    BY <1>2, Zenon
  <1> HIDE DEF s
  <1>4. s \div 8 \in Nat /\ s \div 8 <= fee \div 8
    BY <1>3
  <1> QED
    BY <1>4, Zenon DEF s

\* How a fee may move in one block: towards the gas used, by at most an eighth,
\* upwards by at least 1.
Damped(fee, used, target, new) ==
    /\ new \in Nat
    /\ used = target => new = fee
    /\ used > target => fee < new /\ new <= fee + Larger(fee \div 8, 1)
    /\ used < target => fee - (fee \div 8) <= new /\ new <= fee

\* calculate_next_base_fee is damped as long as a rise does not leave 64 bits.
\* A block uses at most twice the target if the gas limit is even.
THEOREM BaseFeeStep ==
    ASSUME NEW fee \in Nat, NEW used \in Nat, NEW limit \in Nat,
           limit >= 2, used <= 2 * (limit \div 2), fee + Larger(fee \div 8, 1) < U64
    PROVE  Damped(fee, used, limit \div 2, NextBaseFee(fee, used, limit))
  <1> DEFINE target == limit \div 2
             new == NextBaseFee(fee, used, limit)
  <1>0. target \in Nat \ {0} /\ used <= 2 * target /\ U64 \in Nat \ {0} /\ fee \div 8 \in Nat
    BY WidthAssumption
  <1>1. fee < U64 /\ fee \div 8 < U64 /\ 1 < U64
    BY <1>0 DEF Larger
  <1>2. CASE used = target
    <2>1. new = fee
      BY <1>2 DEF NextBaseFee
    <2> QED
      BY <1>0, <1>2, <2>1 DEF Damped
  <1>3. CASE used > target
    <2> DEFINE rise == ((fee * (used - target)) \div target) \div 8
    <2>1. used - target \in Nat /\ used - target <= target
      BY <1>0, <1>3
    <2>2. rise \in Nat /\ rise <= fee \div 8
      BY <1>0, <2>1, ShareBound, Zenon
    <2>3. new = (fee + Larger(rise % U64, 1)) % U64
      BY <1>3, <1>0 DEF NextBaseFee
    <2> HIDE DEF rise
    <2>4. rise % U64 = rise
      BY <1>0, <1>1, <2>2
    <2>5. Larger(rise, 1) \in Nat /\ Larger(rise, 1) >= 1 /\ Larger(rise, 1) <= Larger(fee \div 8, 1)
      BY <1>0, <2>2 DEF Larger
    <2>6. Larger(fee \div 8, 1) \in Nat
      BY <1>0, Zenon DEF Larger
    <2>7. fee + Larger(rise, 1) \in Nat /\ fee + Larger(rise, 1) < U64
      BY <2>5, <2>6, <1>0
    <2>8. (fee + Larger(rise, 1)) % U64 = fee + Larger(rise, 1)
      BY <2>7, <1>0
    <2>9. new = fee + Larger(rise, 1)
      BY <2>3, <2>4, <2>8, Zenon
    <2> HIDE DEF new, target
    <2>10. Damped(fee, used, target, new)
      BY <1>0, <1>3, <2>5, <2>6, <2>9 DEF Damped
    <2> QED
      BY <2>10, Zenon DEF new, target
  <1>4. CASE used < target
    <2> DEFINE drop == ((fee * (target - used)) \div target) \div 8
    <2>1. target - used \in Nat /\ target - used <= target
      BY <1>0, <1>4
    <2>2. drop \in Nat /\ drop <= fee \div 8
      BY <1>0, <2>1, ShareBound, Zenon
    <2>3. new = Minus(fee, drop % U64)
      BY <1>4, <1>0 DEF NextBaseFee
    <2> HIDE DEF drop
    <2>4. drop % U64 = drop
      BY <1>0, <1>1, <2>2
    <2>5. drop <= fee
      BY <2>2
    <2> HIDE DEF new, target
    <2>6. new = fee - drop
      BY <2>2, <2>3, <2>4, <2>5, Zenon DEF Minus
    <2>7. Damped(fee, used, target, new)
      BY <1>0, <1>4, <2>2, <2>5, <2>6 DEF Damped
    <2> QED
      BY <2>7, Zenon DEF new, target
  <1> QED
    BY <1>0, <1>2, <1>3, <1>4

-----------------------------------------------------------------------------
(* The header of a payload.                                                *)

\* An Option has a value after unwrap_or.
LEMMA Unwrapped == \A x : UnwrapOr(x, 0) # None
  BY NoneAssumption DEF UnwrapOr

\* calculate_next_base_fee returns a number, from a fee and a gas limit above 1.
LEMMA FeeNat ==
    ASSUME NEW fee \in Nat, NEW used \in Nat, NEW limit \in Nat, limit >= 2
    PROVE  NextBaseFee(fee, used, limit) \in Nat
  <1> DEFINE target == limit \div 2
             up == (((fee * (used - target)) \div target) \div 8) % U64
             down == (((fee * (target - used)) \div target) \div 8) % U64
  <1>1. target \in Nat \ {0} /\ U64 \in Nat \ {0}
    BY WidthAssumption
  <1>2. fee * (used - target) \in Int /\ fee * (target - used) \in Int
    BY <1>1
  <1>3. up \in Nat /\ down \in Nat
    BY <1>1, <1>2
  <1>4. NextBaseFee(fee, used, limit) =
          CASE used = target -> fee
            [] used > target -> (fee + Larger(up, 1)) % U64
            [] used < target -> Minus(fee, down)
    BY Zenon DEF NextBaseFee
  <1> HIDE DEF up, down
  <1>5. Larger(up, 1) \in Nat /\ Minus(fee, down) \in Nat
    BY <1>3 DEF Larger, Minus
  <1>6. (fee + Larger(up, 1)) % U64 \in Nat
    BY <1>1, <1>5
  <1> QED
    BY <1>1, <1>4, <1>5, <1>6

\* calc_excess_blob_gas returns a number.
LEMMA ExcessInt ==
    ASSUME NEW excess \in Nat \cup {None}, NEW used \in Nat \cup {None}
    PROVE  ExcessBlobGas(excess, used, TargetBlobGas) \in Nat
  <1>1. UnwrapOr(excess, 0) \in Nat /\ UnwrapOr(used, 0) \in Nat
    BY NoneAssumption, Zenon DEF UnwrapOr
  <1> QED
    BY <1>1, BlobAssumption DEF ExcessBlobGas, Minus

\* Both are there on every parent with a fee and a gas limit above 1.
LEMMA NextNumbers ==
    ASSUME NEW parent, parent.baseFee \in Nat, parent.gasUsed \in Nat, parent.gasLimit \in Nat,
           parent.gasLimit >= 2, parent.excessBlobGas \in Nat \cup {None}, parent.blobGas \in Nat \cup {None}
    PROVE  /\ CalculateNextBaseFee(parent) # None
           /\ ExcessBlobGas(parent.excessBlobGas, parent.blobGas, TargetBlobGas) # None
  <1>1. \A n \in Nat : n # None
    BY NoneAssumption
  <1>2. ExcessBlobGas(parent.excessBlobGas, parent.blobGas, TargetBlobGas) \in Nat
    BY ExcessInt, Zenon
  <1>3. NextBaseFee(parent.baseFee, parent.gasUsed, parent.gasLimit) \in Nat
    BY FeeNat, Zenon
  <1> QED
    BY <1>1, <1>2, <1>3, Zenon DEF CalculateNextBaseFee

\* The fields of the header execute_block_for_payload prepares from Cancun on.
LEMMA CancunHeader ==
    ASSUME NEW parent, NEW attr, NEW config, NEW blobGas, NEW gasUsed, NEW txs, NEW root,
           ActiveFork(config, parent.number + 1, attr.timestamp, None) \in {Cancun, Prague}
    PROVE  PayloadHeader(parent, attr, config, blobGas, gasUsed, txs, root) =
             [number |-> parent.number + 1, timestamp |-> attr.timestamp,
              gasLimit |-> parent.gasLimit, gasUsed |-> gasUsed, extra |-> 0,
              baseFee |-> CalculateNextBaseFee(parent),
              difficulty |-> 0, nonce |-> 0, ommers |-> {},
              withdrawalsRoot |-> UnwrapOr(attr.withdrawals, 0), blobGas |-> blobGas,
              excessBlobGas |-> ExcessBlobGas(parent.excessBlobGas, parent.blobGas, TargetBlobGas),
              beaconRoot |-> UnwrapOr(attr.beaconRoot, 0),
              requestsHash |-> None, txRoot |-> txs, stateRoot |-> root]
  <1> DEFINE fork == ActiveFork(config, parent.number + 1, attr.timestamp, None)
  <1>1. fork >= Paris /\ fork >= Shanghai /\ fork >= Cancun
    BY DEF Paris, Shanghai, Cancun, Prague
  <1> QED
    BY <1>1, Zenon DEF PayloadHeader

\* The header execute_block_for_payload prepares for a Cancun block passes the
\* node's own validate_header on its parent, whatever the parent's gas and blob
\* usage, the first Cancun block included.  (From Prague on it does not: the
\* header has no requests_hash.)
THEOREM BuiltHeaderValid ==
    ASSUME NEW parent, NEW attr, NEW config, NEW blobGas \in Nat, NEW gasUsed \in Nat,
           NEW txs, NEW root, NEW now \in Nat,
           parent.number \in Nat, parent.timestamp \in Nat, parent.gasLimit \in Nat,
           parent.excessBlobGas \in Nat \cup {None},
           parent.blobGas \in Nat \cup {None},
           parent.baseFee \in Nat, parent.gasUsed \in Nat,
           attr.timestamp \in Nat,
           attr.timestamp > parent.timestamp, attr.timestamp <= now + 15,
           parent.gasLimit >= 5000, gasUsed <= parent.gasLimit, blobGas <= MaxBlobGas,
           NEW fork \in {Cancun}, fork = ActiveFork(config, parent.number + 1, attr.timestamp, None),
           NEW parentFork \in {Paris, Shanghai, Cancun},
           parentFork = ActiveFork(config, parent.number, parent.timestamp, None),
           parentFork < Cancun => parent.blobGas = None /\ parent.excessBlobGas = None
    PROVE  ValidateHeader(PayloadHeader(parent, attr, config, blobGas, gasUsed, txs, root),
                          parent, config, None, now)
  <1>0. /\ CalculateNextBaseFee(parent) # None
        /\ ExcessBlobGas(parent.excessBlobGas, parent.blobGas, TargetBlobGas) # None
    <2>1. parent.gasLimit >= 2
      OBVIOUS
    <2> QED
      BY <2>1, NextNumbers
  <1> DEFINE h == PayloadHeader(parent, attr, config, blobGas, gasUsed, txs, root)
  <1>1. h = [number |-> parent.number + 1, timestamp |-> attr.timestamp,
             gasLimit |-> parent.gasLimit, gasUsed |-> gasUsed, extra |-> 0,
             baseFee |-> CalculateNextBaseFee(parent),
             difficulty |-> 0, nonce |-> 0, ommers |-> {},
             withdrawalsRoot |-> UnwrapOr(attr.withdrawals, 0), blobGas |-> blobGas,
             excessBlobGas |-> ExcessBlobGas(parent.excessBlobGas, parent.blobGas, TargetBlobGas),
             beaconRoot |-> UnwrapOr(attr.beaconRoot, 0),
             requestsHash |-> None, txRoot |-> txs, stateRoot |-> root]
    BY CancunHeader
  <1> HIDE DEF h
  <1>2. /\ h.number = parent.number + 1 /\ h.timestamp = attr.timestamp
        /\ h.gasLimit = parent.gasLimit /\ h.gasUsed = gasUsed /\ h.extra = 0
        /\ h.baseFee = CalculateNextBaseFee(parent)
        /\ h.difficulty = 0 /\ h.nonce = 0 /\ h.ommers = {}
        /\ h.withdrawalsRoot = UnwrapOr(attr.withdrawals, 0)
        /\ h.blobGas = blobGas
        /\ h.excessBlobGas = ExcessBlobGas(parent.excessBlobGas, parent.blobGas, TargetBlobGas)
        /\ h.beaconRoot = UnwrapOr(attr.beaconRoot, 0)
        /\ h.requestsHash = None
    BY <1>1
  <1>3. fork = ActiveFork(config, h.number, h.timestamp, None)
    BY <1>2
  <1>4. GasLimitOk(h, parent, parentFork < London /\ fork >= London)
    <2>1. ~(parentFork < London)
      BY DEF London, Paris, Shanghai, Cancun
    <2>2. parent.gasLimit \div 1024 > 0
      OBVIOUS
    <2> QED
      BY <1>2, <2>1, <2>2 DEF GasLimitOk
  <1>5. BlobFieldsOk(h, parent, parentFork, fork)
    <2>1. blobGas # None
      BY NoneAssumption
    <2>2. ExcessBlobGas(None, None, TargetBlobGas) = 0
      BY BlobAssumption DEF ExcessBlobGas, UnwrapOr, Minus
    <2>3. ExcessBlobGas(parent.excessBlobGas, parent.blobGas, TargetBlobGas) # None
      BY <1>0
    <2>4. CASE parentFork >= Cancun
      BY <1>2, <2>1, <2>3, <2>4, Unwrapped DEF BlobFieldsOk, Cancun
    <2>5. CASE ~(parentFork >= Cancun)
      <3>1. h.excessBlobGas = 0
        BY <1>2, <2>2, <2>5 DEF Cancun, Paris, Shanghai
      <3> QED
        BY <1>2, <2>1, <2>3, <2>5, <3>1, Unwrapped DEF BlobFieldsOk, Cancun
    <2> QED
      BY <2>4, <2>5
  <1>6. h.withdrawalsRoot # None
    BY <1>2, Unwrapped
  <1>7. CalculateNextBaseFee(parent) # None
    BY <1>0
  <1>8. ValidateHeader(h, parent, config, None, now)
    BY <1>2, <1>3, <1>4, <1>5, <1>6, <1>7
    DEF ValidateHeader, London, Paris, Shanghai, Cancun, Prague
  <1> QED
    BY <1>8 DEF h

-----------------------------------------------------------------------------
(* From the block to the payload and back.                                 *)

\* A block of the payload builder for a fork from Cancun on.
BuiltBlock(parent, attr, config, blobGas, gasUsed, txs, root) ==
    LET header == PayloadHeader(parent, attr, config, blobGas, gasUsed, txs, root)
    IN [header |-> header, txs |-> txs, withdrawals |-> header.withdrawalsRoot]

\* What engine_getPayloadV3 hands out for a block built here and
\* engine_newPayloadV3 receives is the same block, hash included, for every
\* parent, every attribute and every schedule, from Cancun on.
THEOREM PayloadV3Returns ==
    ASSUME NEW parent, NEW attr, NEW config, NEW blobGas \in Nat, NEW gasUsed, NEW txs, NEW root,
           parent.baseFee \in Nat, parent.gasUsed \in Nat, parent.gasLimit \in Nat,
           parent.gasLimit >= 2,
           parent.excessBlobGas \in Nat \cup {None},
           parent.blobGas \in Nat \cup {None},
           attr.beaconRoot # None,
           NEW fork \in {Cancun, Prague},
           fork = ActiveFork(config, parent.number + 1, attr.timestamp, None)
    PROVE  LET block == BuiltBlock(parent, attr, config, blobGas, gasUsed, txs, root)
               payload == GetPayload(3, block, config)
           IN /\ payload.hash = block.header
              /\ NewPayload(3, payload, attr.beaconRoot, config) = block
  <1> DEFINE header == PayloadHeader(parent, attr, config, blobGas, gasUsed, txs, root)
             block == BuiltBlock(parent, attr, config, blobGas, gasUsed, txs, root)
             payload == GetPayload(3, block, config)
             excess == ExcessBlobGas(parent.excessBlobGas, parent.blobGas, TargetBlobGas)
             fee == CalculateNextBaseFee(parent)
             paid == UnwrapOr(attr.withdrawals, 0)
  <1>1. fee # None /\ excess # None /\ blobGas # None /\ paid # None
    <2>1. blobGas # None
      BY NoneAssumption
    <2> QED
      BY <2>1, NextNumbers, Unwrapped, Zenon
  <1> HIDE DEF excess, fee, paid
  <1>2. header = [number |-> parent.number + 1, timestamp |-> attr.timestamp,
                  gasLimit |-> parent.gasLimit, gasUsed |-> gasUsed, extra |-> 0, baseFee |-> fee,
                  difficulty |-> 0, nonce |-> 0, ommers |-> {}, withdrawalsRoot |-> paid,
                  blobGas |-> blobGas, excessBlobGas |-> excess, beaconRoot |-> attr.beaconRoot,
                  requestsHash |-> None, txRoot |-> txs, stateRoot |-> root]
    <2>1. UnwrapOr(attr.beaconRoot, 0) = attr.beaconRoot
      BY Zenon DEF UnwrapOr
    <2> QED
      BY <2>1, CancunHeader DEF excess, fee, paid
  <1>3. block = [header |-> header, txs |-> txs, withdrawals |-> paid]
    BY <1>2 DEF BuiltBlock
  <1> HIDE DEF header, block
  <1>4. ForkOf(block.header, config) = fork
    BY <1>2, <1>3, Zenon DEF ForkOf
  <1>5. payload = ToExecutionPayload(block, config)
    BY <1>4 DEF GetPayload, Serves, Cancun, Prague
  <1>6. ToExecutionPayload(block, config) =
          [number |-> parent.number + 1, timestamp |-> attr.timestamp,
           gasLimit |-> parent.gasLimit, gasUsed |-> gasUsed, extra |-> 0, stateRoot |-> root,
           baseFee |-> fee, blobGas |-> blobGas, excessBlobGas |-> excess,
           withdrawals |-> paid, txs |-> txs, hash |-> header]
    <2>1. fork >= London
      BY DEF London, Cancun, Prague
    <2>2. UnwrapOr(fee, 0) = fee /\ UnwrapOr(blobGas, 0) = blobGas /\ UnwrapOr(excess, 0) = excess
      BY <1>1, Zenon DEF UnwrapOr
    <2> QED
      BY <1>2, <1>3, <1>4, <2>1, <2>2, Zenon DEF ToExecutionPayload
  <1> HIDE DEF payload
  <1>7. ActiveFork(config, payload.number, payload.timestamp, None) = fork
    BY <1>5, <1>6
  <1>8. NewPayload(3, payload, attr.beaconRoot, config) =
          PayloadToBlock(payload, paid, blobGas, excess, attr.beaconRoot, config)
    BY <1>5, <1>6, <1>7 DEF NewPayload, Takes, PayloadV3ToBlock, Cancun, Prague
  <1>9. PayloadToBlock(payload, paid, blobGas, excess, attr.beaconRoot, config) =
          [header |-> header, txs |-> txs, withdrawals |-> paid]
    BY <1>1, <1>2, <1>5, <1>6, <1>7
    DEF PayloadToBlock, UnwrapOr, London, Paris, Shanghai, Cancun, Prague
  <1>10. payload.hash = block.header
    BY <1>3, <1>5, <1>6
  <1> QED
    BY <1>3, <1>8, <1>9, <1>10, Zenon DEF payload, block

-----------------------------------------------------------------------------
(* The background loops and cancel_tokens.                                 *)

\* A call is never in the loop or its cleanup.
CallsApart == \A c \in Calls : work[c].pc \notin {"round", "cleanup"}
LoopsInv == DOMAIN work = Workers /\ CallsApart /\ LiveLoopRegistered

\* A step that leaves the tokens alone, starts no loop and gives none another id.
LEMMA LoopsFrame ==
    ASSUME LoopsInv, UNCHANGED <<tokens, cancelled>>, DOMAIN work' = Workers, CallsApart',
           \A l \in Loops : work'[l].pc # "idle" => work[l].pc # "idle" /\ work'[l].id = work[l].id
    PROVE  LoopsInv'
  BY Zenon DEF LoopsInv, LiveLoopRegistered, Running, Has

\* A worker at work goes on to another step of the same work, or stops.
LEMMA WorkMoves ==
    ASSUME LoopsInv, NEW w \in Workers, NEW v, work[w].pc # "idle", work' = [work EXCEPT ![w] = v],
           v.pc = "idle" \/ v.id = work[w].id, w \in Calls => v.pc \notin {"round", "cleanup"},
           UNCHANGED <<tokens, cancelled>>
    PROVE  LoopsInv'
  <1>1. DOMAIN work' = Workers /\ \A l \in Workers : work'[l] = IF l = w THEN v ELSE work[l]
    BY Zenon DEF LoopsInv
  <1>2. \A l \in Loops : l \in Workers
    BY Zenon DEF Workers
  <1>3. CallsApart'
    BY <1>1, Zenon DEF LoopsInv, CallsApart, Workers
  <1> QED
    BY <1>1, <1>2, <1>3, LoopsFrame, Zenon

\* The end of build_new_payload: the loop that is spawned is registered, and the one
\* whose token it replaces is cancelled.
LEMMA SpawnLoops ==
    ASSUME LoopsInv, NEW c \in Workers, NEW l \in Loops, work[l].pc = "idle", SpawnLoop(c, l)
    PROVE  LoopsInv'
  <1> DEFINE id == work[c].id
             old == IF Has(tokens, id) THEN {tokens[id]} ELSE {}
             v == [Idle EXCEPT !.pc = "round", !.id = id]
  <1>1. /\ work[c].pc = "register" /\ tokens' = Put(tokens, id, l)
        /\ cancelled' = (cancelled \union old) \ {l} /\ work' = [work EXCEPT ![c] = Idle, ![l] = v]
    BY Zenon DEF SpawnLoop
  <1>2. v.id = id /\ Idle.pc = "idle"
    BY Zenon DEF Idle
  <1>3. l \in Workers /\ c # l /\ DOMAIN work = Workers
    BY <1>1, Zenon DEF Workers, LoopsInv
  <1> HIDE DEF v
  <1>4. /\ DOMAIN work' = Workers /\ work'[l] = v /\ work'[c] = Idle
        /\ \A k \in Workers : k # l /\ k # c => work'[k] = work[k]
    BY <1>1, <1>3, Zenon
  <1>5. ASSUME NEW k \in Loops, work'[k].pc # "idle", k \notin cancelled'
        PROVE  work'[k].id \in DOMAIN tokens' /\ tokens'[work'[k].id] = k
    <2>1. CASE k = l
      BY <1>1, <1>2, <1>4, <2>1 DEF Put
    <2>2. CASE k # l
      <3>1. k # c
        BY <1>2, <1>4, <1>5, Zenon
      <3>2. work'[k] = work[k] /\ k \notin cancelled /\ k \notin old
        BY <1>1, <1>4, <1>5, <2>2, <3>1, Zenon DEF Workers
      <3>3. work[k].id \in DOMAIN tokens /\ tokens[work[k].id] = k
        BY <1>5, <3>2, Zenon DEF LoopsInv, LiveLoopRegistered, Running, Has
      <3>4. work[k].id # id
        BY <3>2, <3>3, Zenon DEF Has
      <3> HIDE DEF id
      <3> QED
        BY <1>1, <3>2, <3>3, <3>4 DEF Put
    <2> QED
      BY <2>1, <2>2, Zenon
  <1>6. CallsApart'
    <2>1. l \notin Calls
      BY TasksAssumption, Zenon
    <2> QED
      BY <1>2, <1>4, <2>1, Zenon DEF LoopsInv, CallsApart, Workers
  <1> QED
    BY <1>4, <1>5, <1>6, Zenon DEF LoopsInv, LiveLoopRegistered, Running, Has

\* The loop's cleanup takes out its own token, or a cancelled one if it is cancelled
\* itself: never that of another loop that is alive.
LEMMA CleanupLoops ==
    ASSUME LoopsInv, NEW l \in Workers, Cleanup(l)
    PROVE  LoopsInv'
  <1>0. l \in Loops
    BY Zenon DEF LoopsInv, CallsApart, Cleanup, Workers
  <1> DEFINE id == work[l].id
             same == Has(tokens, id) /\ (tokens[id] \in cancelled) = (l \in cancelled)
  <1>1. /\ work[l].pc = "cleanup" /\ work' = [work EXCEPT ![l] = Idle] /\ UNCHANGED cancelled
        /\ tokens' = IF same THEN Without(tokens, {id}) ELSE tokens
    BY Zenon DEF Cleanup
  <1>2. DOMAIN work' = Workers /\ work'[l] = Idle /\ \A k \in Workers : k # l => work'[k] = work[k]
    BY <1>1, Zenon DEF LoopsInv
  <1>3. ASSUME NEW k \in Loops, work'[k].pc # "idle", k \notin cancelled
        PROVE  work'[k].id \in DOMAIN tokens' /\ tokens'[work'[k].id] = k
    <2>1. k # l
      BY <1>2, <1>3 DEF Idle
    <2>2. work'[k] = work[k]
      BY <1>2, <2>1, Zenon DEF Workers
    <2>3. work[k].id \in DOMAIN tokens /\ tokens[work[k].id] = k
      BY <1>3, <2>2, Zenon DEF LoopsInv, LiveLoopRegistered, Running, Has
    <2>4. CASE ~ same
      BY <1>1, <2>2, <2>3, <2>4, Zenon
    <2>5. CASE same /\ work[k].id # id
      <3>1. tokens' = Without(tokens, {id})
        BY <1>1, <2>5, Zenon
      <3> HIDE DEF id, same
      <3> QED
        BY <2>2, <2>3, <2>5, <3>1, Zenon DEF Without
    <2>6. CASE same /\ work[k].id = id
      <3>1. l \notin cancelled
        BY <1>3, <2>3, <2>6, Zenon
      <3>2. tokens[id] = l
        BY <1>0, <1>1, <3>1, Zenon DEF LoopsInv, LiveLoopRegistered, Running
      <3> QED
        BY <2>1, <2>3, <2>6, <3>2, Zenon
    <2> QED
      BY <2>4, <2>5, <2>6, Zenon
  <1>4. CallsApart'
    BY <1>2 DEF LoopsInv, CallsApart, Workers, Idle
  <1> QED
    BY <1>1, <1>2, <1>3, <1>4, Zenon DEF LoopsInv, LiveLoopRegistered, Running, Has

\* The end of a rebuild.
LEMMA EndRebuildLoops ==
    ASSUME LoopsInv, NEW w \in Workers, work[w].pc # "idle", EndRebuild(w), UNCHANGED <<tokens, cancelled>>
    PROVE  LoopsInv'
  <1> DEFINE p == IF w \in Calls THEN "register" ELSE "round"
             v == [[[work[w] EXCEPT !.pc = p] EXCEPT !.old = None] EXCEPT !.new = None]
  <1>1. work' = [work EXCEPT ![w] = v]
    BY Zenon DEF EndRebuild, LoopsInv
  <1>2. w \in Calls => v.pc \notin {"round", "cleanup"}
    OBVIOUS
  <1>3. v.id = work[w].id
    OBVIOUS
  <1> QED
    BY <1>1, <1>2, <1>3, WorkMoves, Zenon

\* The steps of a call or a loop between the first look at the row and the end of a
\* rebuild: the id stays, the tokens too.
LEMMA BuildLoops ==
    ASSUME LoopsInv, NEW w \in Workers,
           AcquireLock(w) \/ BuildEmpty(w) \/ RebuildRead(w) \/ RebuildExecute(w) \/ CollectBlobs(w) \/ AddPayload(w)
    PROVE  LoopsInv'
  <1> DEFINE To(v) == work' = [work EXCEPT ![w] = v]
  <1>0. UNCHANGED <<tokens, cancelled>> /\ work[w].pc \in {"lock", "empty", "read", "peek", "blobs", "add"}
    BY Zenon DEF AcquireLock, BuildEmpty, RebuildRead, RebuildExecute, CollectBlobs, AddPayload
  <1>1. ASSUME NEW p \in {"empty", "read", "peek", "blobs", "add"}, NEW v, To(v), v.pc = p, v.id = work[w].id
        PROVE  LoopsInv'
    BY <1>0, <1>1, WorkMoves, Zenon
  <1>2. CASE EndRebuild(w)
    BY <1>0, <1>2, EndRebuildLoops, Zenon
  <1>3. CASE AcquireLock(w)
    <2>1. To(Idle) \/ work' = [work EXCEPT ![w].pc = "empty"]
      BY <1>3, Zenon DEF AcquireLock, Return
    <2>2. CASE To(Idle)
      BY <1>0, <2>2, WorkMoves, Zenon DEF Idle
    <2>3. CASE work' = [work EXCEPT ![w].pc = "empty"]
      <3> DEFINE v == [work[w] EXCEPT !.pc = "empty"]
      <3>1. To(v) /\ v.pc = "empty" /\ v.id = work[w].id
        BY <2>3
      <3> QED
        BY <1>1, <3>1, Zenon
    <2> QED
      BY <2>1, <2>2, <2>3, Zenon
  <1>4. CASE BuildEmpty(w)
    <2> DEFINE v == [work[w] EXCEPT !.pc = "read"]
    <2>1. To(v) /\ v.pc = "read" /\ v.id = work[w].id
      BY <1>4 DEF BuildEmpty
    <2> QED
      BY <1>1, <2>1, Zenon
  <1>5. CASE RebuildRead(w)
    <2> DEFINE v == [[work[w] EXCEPT !.pc = "peek"] EXCEPT !.old = rows[work[w].id].block]
    <2>1. EndRebuild(w) \/ work' = [work EXCEPT ![w].pc = "peek", ![w].old = rows[work[w].id].block]
      BY <1>5, Zenon DEF RebuildRead
    <2>2. CASE work' = [work EXCEPT ![w].pc = "peek", ![w].old = rows[work[w].id].block]
      <3>1. To(v)
        BY <2>2, Zenon DEF LoopsInv
      <3>2. v.pc = "peek" /\ v.id = work[w].id
        OBVIOUS
      <3> QED
        BY <1>1, <3>1, <3>2, Zenon
    <2> QED
      BY <1>2, <2>1, <2>2, Zenon
  <1>6. CASE RebuildExecute(w)
    <2>1. EndRebuild(w) \/ \E new : work' = [work EXCEPT ![w].pc = "blobs", ![w].new = new]
      BY <1>6, Zenon DEF RebuildExecute
    <2>2. ASSUME NEW new, work' = [work EXCEPT ![w].pc = "blobs", ![w].new = new] PROVE LoopsInv'
      <3> DEFINE v == [[work[w] EXCEPT !.pc = "blobs"] EXCEPT !.new = new]
      <3>1. To(v)
        BY <2>2, Zenon DEF LoopsInv
      <3>2. v.pc = "blobs" /\ v.id = work[w].id
        OBVIOUS
      <3> QED
        BY <1>1, <3>1, <3>2, Zenon
    <2> QED
      BY <1>2, <2>1, <2>2, Zenon
  <1>7. CASE CollectBlobs(w)
    <2> DEFINE bundle == BlobsOf(work[w].new.txs)
               v == [[work[w] EXCEPT !.pc = "add"] EXCEPT !.old = bundle]
    <2>1. EndRebuild(w) \/ work' = [work EXCEPT ![w].pc = "add", ![w].old = bundle]
      BY <1>7, Zenon DEF CollectBlobs
    <2> HIDE DEF bundle
    <2>2. CASE work' = [work EXCEPT ![w].pc = "add", ![w].old = bundle]
      <3>1. To(v)
        BY <2>2, Zenon DEF LoopsInv
      <3>2. v.pc = "add" /\ v.id = work[w].id
        OBVIOUS
      <3> QED
        BY <1>1, <3>1, <3>2, Zenon
    <2> QED
      BY <1>2, <2>1, <2>2, Zenon
  <1>8. CASE AddPayload(w)
    BY <1>2, <1>8, Zenon DEF AddPayload
  <1> QED
    BY <1>3, <1>4, <1>5, <1>6, <1>7, <1>8, Zenon

\* Every step keeps the live loops registered.
LEMMA NextLoops == LoopsInv /\ [Next]_vars => LoopsInv'
  <1> SUFFICES ASSUME LoopsInv, [Next]_vars PROVE LoopsInv'
    BY Zenon
  <1>1. ASSUME UNCHANGED <<work, tokens, cancelled>> PROVE LoopsInv'
    BY <1>1, Zenon DEF LoopsInv, CallsApart, LiveLoopRegistered, Running, Has
  <1>2. CASE UNCHANGED vars
    BY <1>1, <1>2, Zenon DEF vars
  <1>3. ASSUME NEW c \in Free(Calls), NEW b \in stored, NEW attr \in Attrs, ForkchoiceUpdated(c, b, attr)
        PROVE  LoopsInv'
    <2> DEFINE v == [Idle EXCEPT !.pc = "lock", !.id = [head |-> b, attr |-> attr]]
    <2>1. UNCHANGED <<tokens, cancelled>> /\ (UNCHANGED work \/ work' = [work EXCEPT ![c] = v])
      BY <1>3, Zenon DEF ForkchoiceUpdated
    <2>2. c \in Calls
      BY Zenon DEF Free
    <2>3. v.pc = "lock"
      BY Zenon DEF Idle
    <2>4. c \in Workers /\ c \notin Loops
      BY <2>2, TasksAssumption, Zenon DEF Workers
    <2> HIDE DEF v
    <2>5. CASE work' = [work EXCEPT ![c] = v]
      <3>1. DOMAIN work' = Workers /\ \A k \in Workers : work'[k] = IF k = c THEN v ELSE work[k]
        BY <2>5, Zenon DEF LoopsInv
      <3>2. CallsApart'
        BY <2>3, <3>1, Zenon DEF LoopsInv, CallsApart, Workers
      <3>3. \A l \in Loops : work'[l] = work[l]
        BY <2>4, <3>1, Zenon DEF Workers
      <3> QED
        BY <2>1, <3>1, <3>2, <3>3, LoopsFrame, Zenon
    <2> QED
      BY <1>1, <2>1, <2>5, Zenon
  <1>4. ASSUME NEW w \in Workers, Step(w) PROVE LoopsInv'
    <2>1. ASSUME NEW l \in Free(Loops), SpawnLoop(w, l) PROVE LoopsInv'
      <3>1. l \in Loops /\ work[l].pc = "idle"
        BY Zenon DEF Free
      <3> QED
        BY <2>1, <3>1, SpawnLoops, Zenon
    <2>2. CASE LoopRound(w)
      <3> DEFINE u == [[work[w] EXCEPT !.pc = "read"] EXCEPT !.rounds = work[w].rounds + 1]
                 v == [work[w] EXCEPT !.pc = "cleanup"]
      <3>1. /\ UNCHANGED <<tokens, cancelled>> /\ work[w].pc = "round"
            /\ \/ work' = [work EXCEPT ![w].pc = "read", ![w].rounds = @ + 1]
               \/ work' = [work EXCEPT ![w].pc = "cleanup"]
        BY <2>2, Zenon DEF LoopRound
      <3>2. w \notin Calls
        BY <3>1, Zenon DEF LoopsInv, CallsApart
      <3>3. CASE work' = [work EXCEPT ![w].pc = "read", ![w].rounds = @ + 1]
        <4>1. work' = [work EXCEPT ![w] = u]
          BY <3>3, Zenon DEF LoopsInv
        <4>2. u.id = work[w].id
          OBVIOUS
        <4> HIDE DEF u
        <4> QED
          BY <3>1, <3>2, <4>1, <4>2, WorkMoves, Zenon
      <3>4. CASE work' = [work EXCEPT ![w].pc = "cleanup"]
        <4>1. work' = [work EXCEPT ![w] = v] /\ v.id = work[w].id
          BY <3>4
        <4> HIDE DEF v
        <4> QED
          BY <3>1, <3>2, <4>1, WorkMoves, Zenon
      <3> QED
        BY <3>1, <3>3, <3>4, Zenon
    <2>3. CASE Cleanup(w)
      BY <2>3, CleanupLoops, Zenon
    <2> QED
      BY <1>4, <2>1, <2>2, <2>3, BuildLoops, Zenon DEF Step
  <1>5. ASSUME NEW id, Import(id) PROVE LoopsInv'
    BY <1>1, <1>5, Zenon DEF Import
  <1>6. ASSUME NEW tx, Submit(tx) PROVE LoopsInv'
    <2>1. UNCHANGED <<work, tokens, cancelled>>
      BY <1>6, Zenon DEF Submit
    <2> QED
      BY <1>1, <2>1, Zenon
  <1>7. CASE DropStale
    <2>1. UNCHANGED <<work, tokens, cancelled>>
      BY <1>7, Zenon DEF DropStale
    <2> QED
      BY <1>1, <2>1, Zenon
  <1>8. ASSUME NEW s, NEW i, Evict(s, i) PROVE LoopsInv'
    BY <1>1, <1>8, Zenon DEF Evict
  <1> QED
    BY <1>2, <1>3, <1>4, <1>5, <1>6, <1>7, <1>8, Zenon DEF Next

\* cancel_tokens holds the token of every background loop that is not cancelled, for any
\* number of calls, loops, payload ids and transactions: a build that is asked for again
\* can always cancel the loop of the one before, though a loop's cleanup compares whether
\* the two tokens are cancelled, not which token it is.
THEOREM LoopsCanBeCancelled == Spec => []LiveLoopRegistered
  <1>1. Init => LoopsInv
    BY DEF Init, LoopsInv, CallsApart, LiveLoopRegistered, Running, Workers, Idle
  <1>2. LoopsInv => LiveLoopRegistered
    BY Zenon DEF LoopsInv
  <1> QED
    BY <1>1, <1>2, NextLoops, PTL DEF Spec

-----------------------------------------------------------------------------
(* Loops over an index and sums over a set.                                *)

\* A non-empty set of naturals has a least element.
LEMMA LeastNatural ==
    ASSUME NEW T, T \subseteq Nat, T # {}
    PROVE  \E x \in T : \A y \in T : x <= y
  <1>1. PICK x \in T : \A y \in T : ~(<<y, x>> \in OpToRel(<, Nat))
    BY NatLessThanWellFounded, WFMin, Zenon
  <1>2. \A y \in T : y < x => <<y, x>> \in OpToRel(<, Nat)
    BY Zenon DEF OpToRel
  <1>3. \A y \in T : ~(y < x)
    BY <1>1, <1>2, Zenon
  <1> QED
    BY <1>3

\* A set with 0 and with every successor has all naturals.
LEMMA InductionFromZero ==
    ASSUME NEW T, 0 \in T, \A n \in Nat : n \in T => n + 1 \in T
    PROVE  \A n \in Nat : n \in T
  <1> DEFINE rest == Nat \ T
  <1> SUFFICES ASSUME rest # {} PROVE FALSE
    BY Zenon
  <1>1. PICK x \in rest : \A y \in rest : x <= y
    BY LeastNatural, Zenon
  <1>2. x - 1 \in Nat
    BY <1>1
  <1>3. x - 1 \in T
    BY <1>1, <1>2
  <1> QED
    BY <1>1, <1>2, <1>3

\* The loop that starts at a and whose round i is h[i].
IsLoop(a, n, h, f) == \A i \in 0 .. n : f[i] = IF i = 0 THEN a ELSE h[i][f[i - 1]]

\* A loop over 1 .. n whose body maps S into S has a value at every index.
LEMMA LoopExists ==
    ASSUME NEW S, NEW a \in S, NEW n \in Nat, NEW h \in [1 .. n -> [S -> S]]
    PROVE  \E f \in [0 .. n -> S] : IsLoop(a, n, h, f)
  <1> DEFINE P(m, f) == \A i \in 0 .. m : f[i] = IF i = 0 THEN a ELSE h[i][f[i - 1]]
             T == {m \in Nat : m <= n => \E f \in [0 .. m -> S] : P(m, f)}
  <1>1. 0 \in T
    <2> DEFINE f == [i \in 0 .. 0 |-> a]
    <2>1. f \in [0 .. 0 -> S] /\ P(0, f)
      OBVIOUS
    <2> QED
      BY <2>1, Zenon
  <1>2. ASSUME NEW m \in Nat, m \in T, m + 1 <= n PROVE \E g \in [0 .. m + 1 -> S] : P(m + 1, g)
    <2>1. PICK f \in [0 .. m -> S] : P(m, f)
      BY <1>2
    <2> DEFINE g == [i \in 0 .. m + 1 |-> IF i = m + 1 THEN h[m + 1][f[m]] ELSE f[i]]
    <2>2. h[m + 1] \in [S -> S] /\ f[m] \in S
      BY <1>2
    <2>3. g \in [0 .. m + 1 -> S]
      <3>1. h[m + 1][f[m]] \in S
        BY <2>2
      <3> QED
        BY <3>1
    <2>4. ASSUME NEW i \in 0 .. m + 1 PROVE g[i] = IF i = 0 THEN a ELSE h[i][g[i - 1]]
      <3>1. CASE i = m + 1
        <4>1. i # 0 /\ i - 1 = m /\ g[m] = f[m] /\ g[i] = h[m + 1][f[m]]
          BY <3>1
        <4> QED
          BY <3>1, <4>1
      <3>2. CASE i \in 0 .. m
        <4>1. g[i] = f[i] /\ (i # 0 => g[i - 1] = f[i - 1])
          BY <3>2
        <4> QED
          BY <2>1, <3>2, <4>1
      <3> QED
        BY <3>1, <3>2
    <2> QED
      BY <2>3, <2>4, Zenon
  <1>3. \A m \in Nat : m \in T => m + 1 \in T
    BY <1>2
  <1> HIDE DEF T
  <1>4. n \in T
    BY <1>1, <1>3, InductionFromZero
  <1> QED
    BY <1>4 DEF T, IsLoop

\* What holds at 0 and is handed on from each index to the next holds at every index.
LEMMA LoopStays ==
    ASSUME NEW S, NEW n \in Nat, NEW f, f[0] \in S, \A i \in 1 .. n : f[i - 1] \in S => f[i] \in S
    PROVE  \A i \in 0 .. n : f[i] \in S
  <1> DEFINE T == {i \in Nat : i <= n => f[i] \in S}
  <1>1. 0 \in T
    OBVIOUS
  <1>2. ASSUME NEW i \in Nat, i \in T, i + 1 <= n PROVE f[i + 1] \in S
    <2>1. i + 1 \in 1 .. n /\ (i + 1) - 1 = i /\ i <= n
      BY <1>2
    <2> QED
      BY <1>2, <2>1
  <1>3. \A i \in Nat : i \in T => i + 1 \in T
    BY <1>2
  <1> HIDE DEF T
  <1>4. \A i \in Nat : i \in T
    BY <1>1, <1>3, InductionFromZero, Zenon
  <1> QED
    BY <1>4 DEF T

\* The number of elements of a part of a finite set.
LEMMA PartSize ==
    ASSUME NEW D, IsFiniteSet(D), NEW s \in SUBSET D
    PROVE  IsFiniteSet(s) /\ Cardinality(s) \in Nat /\ (Cardinality(s) = 0 => s = {})
  BY FS_Subset, FS_CardinalityType, FS_EmptySet, Zenon

\* One element less.
LEMMA PartWithout ==
    ASSUME NEW D, IsFiniteSet(D), NEW s \in SUBSET D, NEW x \in s
    PROVE  s \ {x} \in SUBSET D /\ Cardinality(s) \in Nat \ {0} /\ Cardinality(s \ {x}) = Cardinality(s) - 1
  <1>1. IsFiniteSet(s) /\ Cardinality(s) \in Nat /\ s # {} /\ Cardinality(s) # 0
    BY PartSize, Zenon
  <1>2. Cardinality(s \ {x}) = Cardinality(s) - 1
    BY <1>1, FS_RemoveElement, Zenon
  <1>3. s \ {x} \in SUBSET D
    BY Zenon
  <1> QED
    BY <1>1, <1>2, <1>3, Zenon

\* Whatever holds of the empty set, and of a set when it holds of the set without some
\* element, holds of every part of a finite set.
LEMMA PartInduction ==
    ASSUME NEW D, IsFiniteSet(D), NEW T, {} \in T,
           \A s \in SUBSET D : s # {} /\ (\A x \in s : s \ {x} \in T) => s \in T
    PROVE  SUBSET D \subseteq T
  <1> DEFINE U == {n \in Nat : \A s \in SUBSET D : Cardinality(s) = n => s \in T}
  <1>1. 0 \in U
    BY PartSize
  <1>2. ASSUME NEW n \in Nat, n \in U PROVE n + 1 \in U
    <2> SUFFICES ASSUME NEW s \in SUBSET D, Cardinality(s) = n + 1 PROVE s \in T
      BY <1>2
    <2>0. n + 1 # 0
      OBVIOUS
    <2>1. s # {}
      BY <2>0, FS_EmptySet, Zenon
    <2>2. ASSUME NEW x \in s PROVE s \ {x} \in T
      <3>1. s \ {x} \in SUBSET D /\ Cardinality(s \ {x}) = Cardinality(s) - 1
        BY PartWithout
      <3>2. Cardinality(s \ {x}) = n
        BY <3>1
      <3> QED
        BY <1>2, <3>1, <3>2
    <2> QED
      BY <2>1, <2>2
  <1> HIDE DEF U
  <1>3. \A n \in Nat : n \in U
    BY <1>1, <1>2, InductionFromZero
  <1> QED
    BY <1>3, PartSize DEF U

\* A finite set has a greatest element in every total order.
LEMMA FiniteMax ==
    ASSUME NEW D, IsFiniteSet(D), D # {}, NEW R,
           \A x, y \in D : <<x, y>> \in R \/ <<y, x>> \in R,
           \A x, y, z \in D : <<x, y>> \in R /\ <<y, z>> \in R => <<x, z>> \in R
    PROVE  \E m \in D : \A x \in D : <<x, m>> \in R
  <1> DEFINE T == {s \in SUBSET D : s # {} => \E m \in s : \A x \in s : <<x, m>> \in R}
  <1>1. {} \in T
    BY Zenon
  <1>2. ASSUME NEW s \in SUBSET D, s # {}, \A x \in s : s \ {x} \in T PROVE s \in T
    <2>1. PICK x \in s : TRUE
      BY <1>2, Zenon
    <2>2. x \in D /\ <<x, x>> \in R
      BY <2>1, Zenon
    <2>3. CASE s \ {x} = {}
      <3>1. \A y \in s : y = x
        BY <2>3, Zenon
      <3> QED
        BY <2>1, <2>2, <3>1, Zenon
    <2>4. CASE s \ {x} # {}
      <3>1. PICK m \in s \ {x} : \A y \in s \ {x} : <<y, m>> \in R
        BY <1>2, <2>1, <2>4, Zenon
      <3>2. m \in s /\ m \in D
        BY <3>1, Zenon
      <3>3. CASE <<x, m>> \in R
        BY <3>1, <3>2, <3>3, Zenon
      <3>4. CASE <<m, x>> \in R
        <4>1. \A y \in s : <<y, x>> \in R
          BY <2>2, <3>1, <3>2, <3>4, Zenon
        <4> QED
          BY <2>1, <4>1, Zenon
      <3>5. <<x, m>> \in R \/ <<m, x>> \in R
        BY <2>2, <3>2, Zenon
      <3> QED
        BY <3>3, <3>4, <3>5, Zenon
    <2> QED
      BY <2>3, <2>4, Zenon
  <1> HIDE DEF T
  <1>3. D \in T
    BY <1>1, <1>2, PartInduction, Zenon
  <1> QED
    BY <1>3, Zenon DEF T

\* Some element of a set, as Functions chooses it.
Some(s) == CHOOSE x \in s : TRUE

\* The sums over the parts of a finite set, each of them from the sum over one element less.
IsSum(D, fun, sum) ==
    sum = [s \in SUBSET D |-> IF s = {} THEN 0 ELSE fun[Some(s)] + sum[s \ {Some(s)}]]

\* There are such sums.
LEMMA SumExists ==
    ASSUME NEW D, IsFiniteSet(D), NEW fun \in [D -> Nat]
    PROVE  \E f : IsSum(D, fun, f)
  <1> DEFINE Small(n) == {s \in SUBSET D : Cardinality(s) <= n}
             Eq(s, f) == f[s] = IF s = {} THEN 0 ELSE fun[Some(s)] + f[s \ {Some(s)}]
             T == {n \in Nat : \E f \in [Small(n) -> Nat] : \A s \in Small(n) : Eq(s, f)}
  <1>1. \A s \in SUBSET D : Cardinality(s) \in Nat /\ (Cardinality(s) <= 0 => s = {})
    BY PartSize
  <1>2. 0 \in T
    <2> DEFINE f == [s \in Small(0) |-> 0]
    <2>1. f \in [Small(0) -> Nat] /\ \A s \in Small(0) : Eq(s, f)
      BY <1>1
    <2> QED
      BY <2>1, Zenon
  <1>3. ASSUME NEW n \in Nat, n \in T PROVE n + 1 \in T
    <2>1. PICK f \in [Small(n) -> Nat] : \A s \in Small(n) : Eq(s, f)
      BY <1>3, Zenon
    <2>2. ASSUME NEW s \in Small(n + 1), s # {}
          PROVE  Some(s) \in D /\ s \ {Some(s)} \in Small(n)
      <3>1. Some(s) \in s /\ s \in SUBSET D
        BY <2>2, Zenon DEF Some
      <3>2. /\ s \ {Some(s)} \in SUBSET D /\ Cardinality(s) \in Nat \ {0}
            /\ Cardinality(s \ {Some(s)}) = Cardinality(s) - 1
        BY <3>1, PartWithout, Zenon
      <3>3. Cardinality(s) <= n + 1
        BY Zenon
      <3>4. Cardinality(s \ {Some(s)}) <= n
        BY <3>2, <3>3
      <3> QED
        BY <3>1, <3>2, <3>4, Zenon
    <2> DEFINE g == [s \in Small(n + 1) |-> IF s \in Small(n) THEN f[s] ELSE fun[Some(s)] + f[s \ {Some(s)}]]
    <2>3. {} \in Small(n)
      BY FS_EmptySet
    <2>4. g \in [Small(n + 1) -> Nat]
      <3> SUFFICES ASSUME NEW s \in Small(n + 1), s \notin Small(n) PROVE fun[Some(s)] + f[s \ {Some(s)}] \in Nat
        BY <2>1, Zenon
      <3>1. Some(s) \in D /\ s \ {Some(s)} \in Small(n)
        BY <2>2, <2>3, Zenon
      <3>2. fun[Some(s)] \in Nat /\ f[s \ {Some(s)}] \in Nat
        BY <2>1, <3>1, Zenon
      <3> QED
        BY <3>2
    <2>5. \A s \in Small(n) : s \in Small(n + 1)
      <3> SUFFICES ASSUME NEW s \in SUBSET D, Cardinality(s) <= n PROVE Cardinality(s) <= n + 1
        BY Zenon
      <3> QED
        BY <1>1
    <2>6. ASSUME NEW s \in Small(n + 1) PROVE Eq(s, g)
      <3>1. s # {} => g[s \ {Some(s)}] = f[s \ {Some(s)}]
        BY <2>2, <2>5, Zenon
      <3> HIDE DEF Small
      <3>2. g[s] = IF s \in Small(n) THEN f[s] ELSE fun[Some(s)] + f[s \ {Some(s)}]
        BY Zenon
      <3>3. CASE s \in Small(n)
        BY <2>1, <3>1, <3>2, <3>3, Zenon
      <3>4. CASE s \notin Small(n)
        BY <2>3, <3>1, <3>2, <3>4, Zenon
      <3> QED
        BY <3>3, <3>4, Zenon
    <2> HIDE DEF g
    <2>7. n + 1 \in Nat
      OBVIOUS
    <2> QED
      BY <2>4, <2>6, <2>7, Zenon
  <1> HIDE DEF T
  <1>4. Cardinality(D) \in Nat /\ Cardinality(D) \in T
    BY <1>1, <1>2, <1>3, InductionFromZero, Zenon
  <1>5. Small(Cardinality(D)) = SUBSET D
    BY FS_Subset, Zenon
  <1>6. PICK f \in [SUBSET D -> Nat] : \A s \in SUBSET D : Eq(s, f)
    BY <1>4, <1>5, Zenon DEF T
  <1>7. f = [s \in SUBSET D |-> IF s = {} THEN 0 ELSE fun[Some(s)] + f[s \ {Some(s)}]]
    BY <1>6, Zenon
  <1> QED
    BY <1>7, Zenon DEF IsSum

\* They are numbers.
LEMMA SumsNat ==
    ASSUME NEW D, IsFiniteSet(D), NEW fun \in [D -> Nat], NEW sum, IsSum(D, fun, sum)
    PROVE  \A s \in SUBSET D : sum[s] \in Nat
  <1> DEFINE T == {s \in SUBSET D : sum[s] \in Nat}
  <1>1. \A s \in SUBSET D : sum[s] = IF s = {} THEN 0 ELSE fun[Some(s)] + sum[s \ {Some(s)}]
    BY Zenon DEF IsSum
  <1>2. {} \in T
    <2>1. sum[{}] = 0
      BY <1>1, Zenon
    <2> QED
      BY <2>1
  <1>3. ASSUME NEW s \in SUBSET D, s # {}, \A x \in s : s \ {x} \in T PROVE s \in T
    <2>1. Some(s) \in s /\ Some(s) \in D
      BY <1>3, Zenon DEF Some
    <2>2. sum[s] = fun[Some(s)] + sum[s \ {Some(s)}] /\ sum[s \ {Some(s)}] \in Nat
      BY <1>1, <1>3, <2>1, Zenon
    <2> QED
      BY <2>1, <2>2
  <1> HIDE DEF T
  <1>4. SUBSET D \subseteq T
    BY <1>2, <1>3, PartInduction, Zenon
  <1> QED
    BY <1>4, Zenon DEF T

\* SumFunction is the last of the sums.
LEMMA SumFunctionIsSum ==
    ASSUME NEW D, IsFiniteSet(D), NEW fun \in [D -> Nat]
    PROVE  \E sum : IsSum(D, fun, sum) /\ SumFunction(fun) = sum[D]
  <1> DEFINE it == CHOOSE f : IsSum(D, fun, f)
  <1>1. SumFunction(fun) = it[D]
    <2>1. DOMAIN fun = D
      OBVIOUS
    <2> QED
      BY <2>1 DEF SumFunction, SumFunctionOnSet, FoldFunctionOnSet, MapThenFoldSet, IsSum, Some
  <1>2. IsSum(D, fun, it)
    BY SumExists, Zenon
  <1> QED
    BY <1>1, <1>2, Zenon

\* A sum of numbers is one, and 0 over nothing.
LEMMA SumNat ==
    ASSUME NEW D, IsFiniteSet(D), NEW fun \in [D -> Nat]
    PROVE  SumFunction(fun) \in Nat /\ (D = {} => SumFunction(fun) = 0)
  <1>1. PICK sum : IsSum(D, fun, sum) /\ SumFunction(fun) = sum[D]
    BY SumFunctionIsSum, Zenon
  <1>2. sum[D] \in Nat
    BY <1>1, SumsNat, Zenon
  <1>3. D = {} => sum[D] = 0
    BY <1>1, Zenon DEF IsSum
  <1> QED
    BY <1>1, <1>2, <1>3, Zenon

-----------------------------------------------------------------------------
(* The transactions of a block, their fees and their blobs.                *)

\* The transactions that pay a tip at a base fee.
Payable(fee) == {tx \in Txs : EffectiveTip(tx, fee) # None}

\* The tip is a number.
LEMMA TipNat ==
    ASSUME NEW fee \in Nat, NEW tx \in Payable(fee)
    PROVE  tx \in Txs /\ tx.used \in Nat /\ EffectiveTip(tx, fee) \in Nat
  <1>1. tx \in Txs /\ EffectiveTip(tx, fee) # None
    BY Zenon DEF Payable
  <1>2. tx.maxFee \in Nat /\ tx.tip \in Nat /\ tx.used \in Nat
    BY <1>1, TxsAssumption, Zenon
  <1> QED
    BY <1>1, <1>2 DEF EffectiveTip

\* The heap of peek_best_transactions has a best entry as long as a sender is ready.
LEMMA BestIsReady ==
    ASSUME NEW st, NEW fee \in Nat, st.queue \in [Senders -> Seq(Txs)], ReadySenders(st, fee) # {}
    PROVE  BestSender(st, fee) \in ReadySenders(st, fee)
  <1> DEFINE ready == ReadySenders(st, fee)
             Tip(s) == EffectiveTip(st.queue[s][1], fee)
             R == {p \in ready \X ready : Tip(p[1]) < Tip(p[2]) \/ (Tip(p[1]) = Tip(p[2]) /\ p[1] <= p[2])}
  <1>1. \A s \in ready : s \in Senders /\ st.queue[s] # <<>> /\ Tip(s) # None
    BY Zenon DEF ReadySenders
  <1>2. ASSUME NEW s \in ready PROVE s \in Nat /\ Tip(s) \in Nat
    <2>1. s \in Nat /\ st.queue[s] \in Seq(Txs) /\ st.queue[s] # <<>>
      BY <1>1, SendersAssumption, Zenon
    <2>2. st.queue[s][1] \in Txs
      BY <2>1
    <2>3. st.queue[s][1] \in Payable(fee)
      BY <1>1, <2>2, Zenon DEF Payable
    <2> QED
      BY <2>1, <2>3, TipNat, Zenon
  <1>3. IsFiniteSet(ready)
    <2>1. ready \in SUBSET Senders
      BY <1>1, Zenon
    <2> QED
      BY <2>1, SendersAssumption, FS_Subset, Zenon
  <1> HIDE DEF ready, Tip
  <1>4. \A x, y \in ready : <<x, y>> \in R <=> (Tip(x) < Tip(y) \/ (Tip(x) = Tip(y) /\ x <= y))
    <2> SUFFICES ASSUME NEW x \in ready, NEW y \in ready
                 PROVE  <<x, y>> \in R <=> (Tip(x) < Tip(y) \/ (Tip(x) = Tip(y) /\ x <= y))
      BY Zenon
    <2>1. <<x, y>> \in ready \X ready /\ <<x, y>>[1] = x /\ <<x, y>>[2] = y
      OBVIOUS
    <2> QED
      BY <2>1, Zenon
  <1> HIDE DEF R
  <1>5. \A x, y \in ready : <<x, y>> \in R \/ <<y, x>> \in R
    <2> SUFFICES ASSUME NEW x \in ready, NEW y \in ready PROVE <<x, y>> \in R \/ <<y, x>> \in R
      BY Zenon
    <2>1. x \in Nat /\ Tip(x) \in Nat /\ y \in Nat /\ Tip(y) \in Nat
      BY <1>2, Zenon
    <2>2. \/ Tip(x) < Tip(y) \/ (Tip(x) = Tip(y) /\ x <= y)
          \/ Tip(y) < Tip(x) \/ (Tip(y) = Tip(x) /\ y <= x)
      BY <2>1
    <2> QED
      BY <1>4, <2>2, Zenon
  <1>6. \A x, y, z \in ready : <<x, y>> \in R /\ <<y, z>> \in R => <<x, z>> \in R
    BY <1>2, <1>4
  <1>7. ready # {}
    BY Zenon DEF ready
  <1>8. \E m \in ready : \A x \in ready : <<x, m>> \in R
    BY <1>3, <1>5, <1>6, <1>7, FiniteMax, Zenon
  <1>9. \E m \in ready : \A x \in ready : Tip(x) < Tip(m) \/ (Tip(x) = Tip(m) /\ x <= m)
    BY <1>4, <1>8, Zenon
  <1>10. BestSender(st, fee) = CHOOSE s \in ready : \A o \in ready : Tip(o) < Tip(s) \/ (Tip(o) = Tip(s) /\ o <= s)
    BY Zenon DEF BestSender, ready, Tip
  <1>11. BestSender(st, fee) \in ready
    BY <1>9, <1>10, Zenon
  <1> QED
    BY <1>11, Zenon DEF ready

\* The states of the loop of peek_best_transactions.
PeekStates(fee) == [queue : [Senders -> Seq(Txs)], picked : Seq(Payable(fee))]

\* A round keeps the queues queues, and picks what pays.
LEMMA PopStays ==
    ASSUME NEW fee \in Nat, NEW st \in PeekStates(fee), NEW have, NEW limit
    PROVE  Pop(st, have, limit, fee) \in PeekStates(fee)
  <1> DEFINE s == BestSender(st, fee)
             q == st.queue[s]
  <1>1. st.queue \in [Senders -> Seq(Txs)] /\ st.picked \in Seq(Payable(fee))
    BY Zenon DEF PeekStates
  <1>2. CASE GasOf(st.picked) >= limit \/ ReadySenders(st, fee) = {}
    BY <1>2, Zenon DEF Pop
  <1>3. CASE ~(GasOf(st.picked) >= limit \/ ReadySenders(st, fee) = {})
    <2>1. s \in ReadySenders(st, fee)
      BY <1>1, <1>3, BestIsReady, Zenon
    <2>2. s \in Senders /\ q \in Seq(Txs) /\ q # <<>> /\ EffectiveTip(q[1], fee) # None
      BY <1>1, <2>1, Zenon DEF ReadySenders
    <2> HIDE DEF s
    <2>3. q[1] \in Txs /\ Tail(q) \in Seq(Txs) /\ <<>> \in Seq(Txs)
      BY <2>2
    <2>4. q[1] \in Payable(fee)
      BY <2>2, <2>3, Zenon DEF Payable
    <2>5. Append(st.picked, q[1]) \in Seq(Payable(fee))
      BY <1>1, <2>4
    <2>6. /\ [st.queue EXCEPT ![s] = Tail(q)] \in [Senders -> Seq(Txs)]
          /\ [st.queue EXCEPT ![s] = <<>>] \in [Senders -> Seq(Txs)]
      BY <1>1, <2>3, Zenon
    <2>7. \/ Pop(st, have, limit, fee) = [queue |-> [st.queue EXCEPT ![s] = Tail(q)],
                                          picked |-> Append(st.picked, q[1])]
          \/ Pop(st, have, limit, fee) = [st EXCEPT !.queue = [st.queue EXCEPT ![s] = <<>>]]
      BY <1>3 DEF Pop, s
    <2> DEFINE out == [st.queue EXCEPT ![s] = <<>>]
    <2> HIDE DEF out
    <2>8. [st EXCEPT !.queue = out] = [queue |-> out, picked |-> st.picked]
      BY DEF PeekStates
    <2>9. \A u \in [Senders -> Seq(Txs)], p \in Seq(Payable(fee)) : [queue |-> u, picked |-> p] \in PeekStates(fee)
      BY DEF PeekStates
    <2>10. CASE Pop(st, have, limit, fee) = [queue |-> [st.queue EXCEPT ![s] = Tail(q)],
                                             picked |-> Append(st.picked, q[1])]
      BY <2>5, <2>6, <2>9, <2>10, Zenon
    <2>11. CASE Pop(st, have, limit, fee) = [st EXCEPT !.queue = [st.queue EXCEPT ![s] = <<>>]]
      <3>1. out \in [Senders -> Seq(Txs)] /\ Pop(st, have, limit, fee) = [st EXCEPT !.queue = out]
        BY <2>6, <2>11, Zenon DEF out
      <3>2. [queue |-> out, picked |-> st.picked] \in PeekStates(fee)
        BY <1>1, <3>1, <2>9, Zenon
      <3>3. Pop(st, have, limit, fee) = [queue |-> out, picked |-> st.picked]
        BY <2>8, <3>1, Zenon
      <3> QED
        BY <3>2, <3>3, Zenon
    <2> QED
      BY <2>7, <2>10, <2>11, Zenon
  <1> QED
    BY <1>2, <1>3, Zenon

\* The loop of peek_best_transactions.
IsPeek(queue, have, limit, fee, n, f) ==
    f = [i \in 0 .. n |-> IF i = 0 THEN [queue |-> queue, picked |-> <<>>]
                          ELSE Pop(f[i - 1], have, limit, fee)]

\* It has a value after every round.
LEMMA PeekExists ==
    ASSUME NEW queue \in [Senders -> Seq(Txs)], NEW have, NEW limit, NEW fee \in Nat, NEW n \in Nat
    PROVE  \E f : IsPeek(queue, have, limit, fee, n, f)
  <1> DEFINE S == PeekStates(fee)
             a == [queue |-> queue, picked |-> <<>>]
             h == [i \in 1 .. n |-> [st \in S |-> Pop(st, have, limit, fee)]]
  <1>1. a \in S
    BY DEF PeekStates
  <1>2. \A st \in S : Pop(st, have, limit, fee) \in S
    BY PopStays, Zenon
  <1> HIDE DEF S, a
  <1>3. h \in [1 .. n -> [S -> S]]
    BY <1>2, Zenon
  <1>4. \A i \in 1 .. n, st \in S : h[i][st] = Pop(st, have, limit, fee)
    BY Zenon
  <1> HIDE DEF h
  <1>5. PICK f \in [0 .. n -> S] : IsLoop(a, n, h, f)
    BY <1>1, <1>3, LoopExists, Zenon
  <1>6. \A i \in 0 .. n : i # 0 => i \in 1 .. n /\ i - 1 \in 0 .. n
    OBVIOUS
  <1>7. \A i \in 0 .. n : f[i] = IF i = 0 THEN a ELSE Pop(f[i - 1], have, limit, fee)
    <2>1. \A i \in 0 .. n : f[i] = IF i = 0 THEN a ELSE h[i][f[i - 1]]
      BY <1>5, Zenon DEF IsLoop
    <2>2. \A i \in 0 .. n : i # 0 => h[i][f[i - 1]] = Pop(f[i - 1], have, limit, fee)
      BY <1>4, <1>5, <1>6
    <2> QED
      BY <2>1, <2>2
  <1>8. f = [i \in 0 .. n |-> IF i = 0 THEN a ELSE Pop(f[i - 1], have, limit, fee)]
    BY <1>5, <1>7, Zenon
  <1> QED
    BY <1>8, Zenon DEF IsPeek, a

\* peek_best_transactions picks transactions of the pool that pay.
LEMMA PeekPayable ==
    ASSUME NEW queue \in [Senders -> Seq(Txs)], NEW have, NEW limit, NEW fee \in Nat
    PROVE  PeekBest(queue, have, limit, fee) \in Seq(Payable(fee))
  <1> DEFINE n == SumFunction([s \in Senders |-> Len(queue[s])])
             f == CHOOSE f : IsPeek(queue, have, limit, fee, n, f)
  <1>1. n \in Nat
    <2>1. [s \in Senders |-> Len(queue[s])] \in [Senders -> Nat]
      OBVIOUS
    <2> QED
      BY <2>1, SendersAssumption, SumNat, Zenon
  <1>2. PeekBest(queue, have, limit, fee) = f[n].picked
    BY Zenon DEF PeekBest, IsPeek
  <1> HIDE DEF n
  <1>3. IsPeek(queue, have, limit, fee, n, f)
    BY <1>1, PeekExists, Zenon
  <1> HIDE DEF f
  <1>4. \A i \in 0 .. n : f[i] = IF i = 0 THEN [queue |-> queue, picked |-> <<>>]
                                ELSE Pop(f[i - 1], have, limit, fee)
    BY <1>3, Zenon DEF IsPeek
  <1>5. f[0] \in PeekStates(fee)
    <2>1. f[0] = [queue |-> queue, picked |-> <<>>]
      BY <1>1, <1>4
    <2> QED
      BY <2>1 DEF PeekStates
  <1>6. ASSUME NEW i \in 1 .. n, f[i - 1] \in PeekStates(fee) PROVE f[i] \in PeekStates(fee)
    <2>1. i \in 0 .. n /\ i # 0
      BY <1>1
    <2>2. f[i] = Pop(f[i - 1], have, limit, fee)
      BY <1>4, <2>1, Zenon
    <2> QED
      BY <1>6, <2>2, PopStays, Zenon
  <1>7. n \in 0 .. n
    BY <1>1
  <1>8. f[n] \in PeekStates(fee)
    BY <1>1, <1>5, <1>6, <1>7, LoopStays, Zenon
  <1> QED
    BY <1>2, <1>8, Zenon DEF PeekStates

\* The loop of BlobsOf.
IsBlobs(txs, f) ==
    f = [i \in 0 .. Len(txs) |-> IF i = 0 THEN <<>> ELSE f[i - 1] \o txs[i].blobs]

\* The blobs of a list of transactions have a number.
LEMMA BlobsCount ==
    ASSUME NEW txs \in Seq(Txs)
    PROVE  Len(BlobsOf(txs)) \in Nat
  <1> DEFINE n == Len(txs)
             B == UNION {Range(tx.blobs) : tx \in Txs}
             S == Seq(B)
             h == [i \in 1 .. n |-> [p \in S |-> p \o txs[i].blobs]]
             f == CHOOSE f : IsBlobs(txs, f)
  <1>1. n \in Nat /\ \A i \in 1 .. n : txs[i] \in Txs
    OBVIOUS
  <1>2. \A tx \in Txs : tx.blobs \in S
    <2> SUFFICES ASSUME NEW tx \in Txs PROVE tx.blobs \in S
      BY Zenon
    <2>1. tx.blobs \in Seq(Range(tx.blobs)) /\ Range(tx.blobs) \subseteq B
      BY TxsAssumption, Zenon
    <2> HIDE DEF B
    <2> QED
      BY <2>1
  <1>3. <<>> \in S /\ \A p, q \in S : p \o q \in S
    OBVIOUS
  <1>4. BlobsOf(txs) = f[n]
    BY Zenon DEF BlobsOf, IsBlobs
  <1>5. \A q \in S : Len(q) \in Nat
    OBVIOUS
  <1> HIDE DEF S, n
  <1>6. \A i \in 1 .. n, p \in S : p \o txs[i].blobs \in S
    BY <1>1, <1>2, <1>3, Zenon
  <1>7. h \in [1 .. n -> [S -> S]]
    BY <1>6, Zenon
  <1>8. \A i \in 1 .. n, p \in S : h[i][p] = p \o txs[i].blobs
    BY Zenon
  <1> HIDE DEF h, f
  <1>9. PICK g \in [0 .. n -> S] : IsLoop(<<>>, n, h, g)
    BY <1>1, <1>3, <1>7, LoopExists, Zenon
  <1>10. \A i \in 0 .. n : i # 0 => i \in 1 .. n /\ i - 1 \in 0 .. n
    BY <1>1
  <1>11. \A i \in 0 .. n : g[i] = IF i = 0 THEN <<>> ELSE g[i - 1] \o txs[i].blobs
    <2>1. \A i \in 0 .. n : g[i] = IF i = 0 THEN <<>> ELSE h[i][g[i - 1]]
      BY <1>9, Zenon DEF IsLoop
    <2>2. \A i \in 0 .. n : i # 0 => h[i][g[i - 1]] = g[i - 1] \o txs[i].blobs
      BY <1>8, <1>9, <1>10, Zenon
    <2> QED
      BY <2>1, <2>2, Zenon
  <1>12. g = [i \in 0 .. n |-> IF i = 0 THEN <<>> ELSE g[i - 1] \o txs[i].blobs]
    BY <1>9, <1>11, Zenon
  <1>13. IsBlobs(txs, f)
    BY <1>12, Zenon DEF IsBlobs, n, f
  <1>14. \A i \in 0 .. n : f[i] = IF i = 0 THEN <<>> ELSE f[i - 1] \o txs[i].blobs
    BY <1>13, Zenon DEF IsBlobs, n
  <1>15. 0 \in 0 .. n /\ n \in 0 .. n
    BY <1>1
  <1>16. f[0] \in S
    BY <1>3, <1>14, <1>15, Zenon
  <1>17. \A i \in 1 .. n : i \in 0 .. n /\ i # 0
    BY <1>1
  <1>18. \A i \in 1 .. n : f[i - 1] \in S => f[i] \in S
    BY <1>6, <1>14, <1>17, Zenon
  <1>19. f[n] \in S
    BY <1>1, <1>15, <1>16, <1>18, LoopStays, Zenon
  <1> QED
    BY <1>4, <1>5, <1>19, Zenon

\* The loop of Included.
IsRun(nonces, txs, f) ==
    f = [i \in 0 .. Len(txs) |->
            IF i = 0 THEN <<>>
            ELSE IF txs[i].nonce = NoncesAfter(nonces, f[i - 1])[txs[i].sender]
                 THEN Append(f[i - 1], txs[i]) ELSE f[i - 1]]

\* What a run includes is of what it is given.
LEMMA IncludedSeq ==
    ASSUME NEW T, NEW nonces, NEW txs \in Seq(T)
    PROVE  Included(nonces, txs) \in Seq(T)
  <1> DEFINE n == Len(txs)
             S == Seq(T)
             Do(p, i) == IF txs[i].nonce = NoncesAfter(nonces, p)[txs[i].sender]
                         THEN Append(p, txs[i]) ELSE p
             h == [i \in 1 .. n |-> [p \in S |-> Do(p, i)]]
             f == CHOOSE f : IsRun(nonces, txs, f)
  <1>1. n \in Nat /\ \A i \in 1 .. n : txs[i] \in T
    OBVIOUS
  <1>2. <<>> \in S /\ \A p \in S, tx \in T : Append(p, tx) \in S
    OBVIOUS
  <1>3. Included(nonces, txs) = f[n]
    BY Zenon DEF Included, IsRun
  <1> HIDE DEF S, n
  <1>4. \A i \in 1 .. n, p \in S : Do(p, i) \in S
    BY <1>1, <1>2, Zenon
  <1> HIDE DEF Do
  <1>5. h \in [1 .. n -> [S -> S]]
    BY <1>4, Zenon
  <1>6. \A i \in 1 .. n, p \in S : h[i][p] = Do(p, i)
    BY Zenon
  <1> HIDE DEF h, f
  <1>7. PICK g \in [0 .. n -> S] : IsLoop(<<>>, n, h, g)
    BY <1>1, <1>2, <1>5, LoopExists, Zenon
  <1>8. \A i \in 0 .. n : i # 0 => i \in 1 .. n /\ i - 1 \in 0 .. n
    BY <1>1
  <1>9. \A i \in 0 .. n : g[i] = IF i = 0 THEN <<>> ELSE Do(g[i - 1], i)
    <2>1. \A i \in 0 .. n : g[i] = IF i = 0 THEN <<>> ELSE h[i][g[i - 1]]
      BY <1>7, Zenon DEF IsLoop
    <2>2. \A i \in 0 .. n : i # 0 => h[i][g[i - 1]] = Do(g[i - 1], i)
      BY <1>6, <1>7, <1>8, Zenon
    <2> QED
      BY <2>1, <2>2, Zenon
  <1>10. g = [i \in 0 .. n |-> IF i = 0 THEN <<>> ELSE Do(g[i - 1], i)]
    BY <1>7, <1>9, Zenon
  <1>11. IsRun(nonces, txs, f)
    <2>1. IsRun(nonces, txs, g)
      BY <1>10, Zenon DEF IsRun, n, Do
    <2> QED
      BY <2>1, Zenon DEF f
  <1>12. \A i \in 0 .. n : f[i] = IF i = 0 THEN <<>> ELSE Do(f[i - 1], i)
    BY <1>11, Zenon DEF IsRun, n, Do
  <1>13. 0 \in 0 .. n /\ n \in 0 .. n
    BY <1>1
  <1>14. f[0] \in S
    BY <1>2, <1>12, <1>13, Zenon
  <1>15. \A i \in 1 .. n : i \in 0 .. n /\ i # 0
    BY <1>1
  <1>16. \A i \in 1 .. n : f[i - 1] \in S => f[i] \in S
    BY <1>4, <1>12, <1>15, Zenon
  <1>17. f[n] \in S
    BY <1>1, <1>13, <1>14, <1>16, LoopStays, Zenon
  <1> QED
    BY <1>3, <1>17, Zenon DEF S

\* A run of nothing includes nothing.
LEMMA IncludedNothing ==
    ASSUME NEW nonces
    PROVE  Included(nonces, <<>>) = <<>>
  <1>1. <<>> \in Seq({})
    OBVIOUS
  <1>2. Included(nonces, <<>>) \in Seq({})
    BY <1>1, IncludedSeq, Zenon
  <1> QED
    BY <1>2

\* A sum over a list of numbers is one, and 0 over nothing.
LEMMA ListSum ==
    ASSUME NEW T, NEW txs \in Seq(T), NEW fun \in [DOMAIN txs -> Nat]
    PROVE  SumFunction(fun) \in Nat /\ (txs = <<>> => SumFunction(fun) = 0)
  <1>1. DOMAIN txs = 1 .. Len(txs) /\ Len(txs) \in Int /\ 1 \in Int
    OBVIOUS
  <1>2. IsFiniteSet(DOMAIN txs)
    BY <1>1, FS_Interval, Zenon
  <1>3. txs = <<>> => DOMAIN txs = {}
    BY <1>1
  <1> QED
    BY <1>2, <1>3, SumNat, Zenon

-----------------------------------------------------------------------------
(* The block of a payload.                                                 *)

\* A header the builder can build on.
HeaderOk(h) ==
    /\ h.number \in Nat /\ h.baseFee \in Nat /\ h.gasUsed \in Nat
    /\ h.gasLimit \in Nat /\ h.gasLimit >= 5000
    /\ h.blobGas \in Nat \cup {None} /\ h.excessBlobGas \in Nat \cup {None}

\* A header that continues a parent in the slot of the attributes.
Continues(h, parent, attr) ==
    /\ HeaderOk(h)
    /\ h.number = parent.number + 1 /\ h.timestamp = attr.timestamp
    /\ h.baseFee = CalculateNextBaseFee(parent)

\* A block built for an id: its place, its slot and its value.
Built(id, block) ==
    /\ HeaderOk(block.header)
    /\ block.header.number = id.head.header.number + 1
    /\ block.header.timestamp = id.attr.timestamp
    /\ BlockValue(block) \in Nat
    /\ block.txs = <<>> => BlockValue(block) = 0

\* The base fee of the next block.
LEMMA NextFee ==
    ASSUME NEW h, HeaderOk(h)
    PROVE  CalculateNextBaseFee(h) \in Nat /\ UnwrapOr(CalculateNextBaseFee(h), 0) = CalculateNextBaseFee(h)
  <1>1. h.baseFee \in Nat /\ h.gasUsed \in Nat /\ h.gasLimit \in Nat /\ h.gasLimit >= 2
    BY DEF HeaderOk
  <1>2. NextBaseFee(h.baseFee, h.gasUsed, h.gasLimit) \in Nat
    BY <1>1, FeeNat, Zenon
  <1>3. h.baseFee # None
    BY <1>1, NoneAssumption
  <1>4. CalculateNextBaseFee(h) = NextBaseFee(h.baseFee, h.gasUsed, h.gasLimit)
    BY <1>3, Zenon DEF CalculateNextBaseFee
  <1>5. \A x \in Nat : x # None
    BY NoneAssumption
  <1> QED
    BY <1>2, <1>4, <1>5, Zenon DEF UnwrapOr

\* The header of a payload is one to build on.
LEMMA HeaderBuilt ==
    ASSUME NEW parent, HeaderOk(parent), NEW attr, NEW config, NEW blobGas \in Nat, NEW gasUsed \in Nat,
           NEW txs, NEW root
    PROVE  Continues(PayloadHeader(parent, attr, config, blobGas, gasUsed, txs, root), parent, attr)
  <1> DEFINE h == PayloadHeader(parent, attr, config, blobGas, gasUsed, txs, root)
             fork == ActiveFork(config, parent.number + 1, attr.timestamp, None)
             excess == ExcessBlobGas(parent.excessBlobGas, parent.blobGas, TargetBlobGas)
  <1>1. /\ h.number = parent.number + 1 /\ h.timestamp = attr.timestamp
        /\ h.baseFee = CalculateNextBaseFee(parent) /\ h.gasUsed = gasUsed /\ h.gasLimit = parent.gasLimit
        /\ h.blobGas = IF fork >= Cancun THEN blobGas ELSE None
        /\ h.excessBlobGas = IF fork >= Cancun THEN excess ELSE None
    BY Zenon DEF PayloadHeader
  <1>2. excess \in Nat
    <2>1. parent.excessBlobGas \in Nat \cup {None} /\ parent.blobGas \in Nat \cup {None}
      BY DEF HeaderOk
    <2> QED
      BY <2>1, ExcessInt, Zenon
  <1> HIDE DEF fork, excess, h
  <1>3. h.blobGas \in Nat \cup {None} /\ h.excessBlobGas \in Nat \cup {None}
    BY <1>1, <1>2, Zenon
  <1>4. parent.number \in Nat /\ parent.number + 1 \in Nat /\ parent.gasLimit \in Nat /\ parent.gasLimit >= 5000
    BY DEF HeaderOk
  <1>5. CalculateNextBaseFee(parent) \in Nat
    BY NextFee, Zenon
  <1>6. HeaderOk(h)
    BY <1>1, <1>3, <1>4, <1>5 DEF HeaderOk
  <1> QED
    BY <1>1, <1>6, Zenon DEF h, Continues

\* What execute_block_for_payload returns.
LEMMA ExecuteBuilt ==
    ASSUME NEW id, HeaderOk(id.head.header),
           NEW txs \in Seq(Payable(UnwrapOr(CalculateNextBaseFee(id.head.header), 0))),
           BlobsOf(Included(id.head.header.stateRoot, txs)) = BlobsOf(txs)
    PROVE  Built(id, ExecuteForPayload(id, txs))
  <1> DEFINE parent == id.head.header
             fee == CalculateNextBaseFee(parent)
             T == Payable(fee)
             run == Included(parent.stateRoot, txs)
             gas == SumFunction([i \in DOMAIN run |-> run[i].used])
             blobGas == Len(BlobsOf(txs)) * DataGasPerBlob
             root == NoncesAfter(parent.stateRoot, run)
             h == PayloadHeader(parent, id.attr, Config, blobGas, gas, run, root)
             b == [header |-> h, txs |-> run]
  <1>1. fee \in Nat /\ UnwrapOr(fee, 0) = fee
    BY NextFee, Zenon
  <1>2. txs \in Seq(T)
    BY <1>1, Zenon
  <1>3. T \subseteq Txs
    BY Zenon DEF Payable
  <1> HIDE DEF fee, T
  <1>4. txs \in Seq(Txs)
    BY <1>2, <1>3
  <1>5. run \in Seq(T)
    BY <1>2, IncludedSeq, Zenon
  <1>6. ExecuteForPayload(id, txs) = b
    BY Zenon DEF ExecuteForPayload
  <1>7. blobGas \in Nat
    <2>1. Len(BlobsOf(txs)) \in Nat
      BY <1>4, BlobsCount, Zenon
    <2> QED
      BY <2>1, BlobAssumption
  <1> HIDE DEF run, blobGas
  <1>8. \A i \in DOMAIN run : run[i] \in T
    BY <1>5
  <1>9. \A tx \in T : tx.used \in Nat /\ EffectiveTip(tx, fee) \in Nat
    BY <1>1, TipNat, Zenon DEF T
  <1>10. gas \in Nat
    <2>1. [i \in DOMAIN run |-> run[i].used] \in [DOMAIN run -> Nat]
      BY <1>8, <1>9, Zenon
    <2> QED
      BY <1>5, <2>1, ListSum, Zenon
  <1> HIDE DEF gas, root
  <1>11. HeaderOk(h) /\ h.number = parent.number + 1 /\ h.timestamp = id.attr.timestamp /\ h.baseFee = fee
    <2>1. HeaderOk(parent)
      BY Zenon
    <2> HIDE DEF parent, h
    <2>2. Continues(PayloadHeader(parent, id.attr, Config, blobGas, gas, run, root), parent, id.attr)
      BY <1>7, <1>10, <2>1, HeaderBuilt, Zenon
    <2> QED
      BY <2>2, Zenon DEF Continues, fee, h
  <1> HIDE DEF h, parent
  <1>12. b.header = h /\ b.txs = run
    BY Zenon
  <1> HIDE DEF b
  <1> DEFINE fun == [i \in DOMAIN run |-> run[i].used * EffectiveTip(run[i], fee)]
  <1>13. BlockValue(b) = SumFunction(fun)
    BY <1>1, <1>11, <1>12, Zenon DEF BlockValue
  <1>14. fun \in [DOMAIN run -> Nat]
    <2>1. \A i \in DOMAIN run : run[i].used \in Nat /\ EffectiveTip(run[i], fee) \in Nat
      BY <1>8, <1>9, Zenon
    <2>2. \A x, y \in Nat : x * y \in Nat
      OBVIOUS
    <2>3. \A i \in DOMAIN run : run[i].used * EffectiveTip(run[i], fee) \in Nat
      BY <2>1, <2>2, Zenon
    <2> QED
      BY <2>3, Zenon
  <1> HIDE DEF fun
  <1>15. SumFunction(fun) \in Nat /\ (run = <<>> => SumFunction(fun) = 0)
    BY <1>5, <1>14, ListSum, Zenon
  <1>16. Built(id, b)
    BY <1>11, <1>12, <1>13, <1>15, Zenon DEF Built, parent
  <1> QED
    BY <1>6, <1>16, Zenon

\* build_empty_payload always has a block.
LEMMA EmptyBuilt ==
    ASSUME NEW id, HeaderOk(id.head.header)
    PROVE  Built(id, ExecuteForPayload(id, <<>>))
  <1>1. Included(id.head.header.stateRoot, <<>>) = <<>>
    BY IncludedNothing, Zenon
  <1>4. <<>> \in Seq(Payable(UnwrapOr(CalculateNextBaseFee(id.head.header), 0)))
    OBVIOUS
  <1> QED
    BY <1>1, <1>4, ExecuteBuilt, Zenon

-----------------------------------------------------------------------------
(* From the row to the payload and back.                                   *)

\* The fork looked up in a schedule is one of the enum.
LEMMA ForkRange ==
    ASSUME NEW config \in Schedules, NEW number, NEW timestamp
    PROVE  ActiveFork(config, number, timestamp, None) \in Frontier .. Prague
  <1> DEFINE prefix == ActivePrefix(config, number, timestamp)
             R == {p \in prefix \X prefix : Before(p[1], p[2])}
             last == CHOOSE e \in prefix : \A f \in prefix : Before(f, e)
  <1>1. /\ IsFiniteSet(config.forks)
        /\ config.forks \subseteq [time : BOOLEAN, at : Nat, fork : Frontier .. Prague]
    BY SchedulesAssumption, Zenon
  <1>2. prefix \in SUBSET config.forks
    BY Zenon DEF ActivePrefix
  <1>3. IsFiniteSet(prefix)
    BY <1>1, <1>2, FS_Subset, Zenon
  <1>4. \A e \in prefix : e.time \in BOOLEAN /\ e.at \in Nat /\ e.fork \in Frontier .. Prague
    BY <1>1, <1>2, Zenon
  <1>5. \A e \in prefix : e.fork \in Int
    BY <1>4 DEF Frontier, Prague
  <1> HIDE DEF prefix
  <1>6. \A x, y \in prefix : <<x, y>> \in R <=> Before(x, y)
    <2> SUFFICES ASSUME NEW x \in prefix, NEW y \in prefix PROVE <<x, y>> \in R <=> Before(x, y)
      BY Zenon
    <2>1. <<x, y>> \in prefix \X prefix /\ <<x, y>>[1] = x /\ <<x, y>>[2] = y
      OBVIOUS
    <2> QED
      BY <2>1, Zenon
  <1> HIDE DEF R
  <1>7. \A x, y \in prefix : Before(x, y) \/ Before(y, x)
    BY <1>4, <1>5 DEF Before
  <1>8. \A x, y, z \in prefix : Before(x, y) /\ Before(y, z) => Before(x, z)
    BY <1>4, <1>5 DEF Before
  <1>9. \A x, y \in prefix : <<x, y>> \in R \/ <<y, x>> \in R
    BY <1>6, <1>7, Zenon
  <1>10. \A x, y, z \in prefix : <<x, y>> \in R /\ <<y, z>> \in R => <<x, z>> \in R
    BY <1>6, <1>8, Zenon
  <1>11. ASSUME prefix # {} PROVE last.fork \in Frontier .. Prague
    <2>1. \E m \in prefix : \A x \in prefix : <<x, m>> \in R
      BY <1>3, <1>9, <1>10, <1>11, FiniteMax, Zenon
    <2>2. \E m \in prefix : \A x \in prefix : Before(x, m)
      BY <1>6, <2>1, Zenon
    <2> QED
      BY <1>4, <2>2, Zenon
  <1> DEFINE fork == IF prefix = {} THEN Frontier ELSE last.fork
  <1>12. ActiveFork(config, number, timestamp, None) = fork
    BY Zenon DEF ActiveFork, prefix
  <1>13. Frontier \in Frontier .. Prague
    BY DEF Frontier, Prague
  <1> QED
    BY <1>11, <1>12, <1>13, Zenon

\* A header with the fields of its fork, from Paris on.
Sealed(h, txs, beaconRoot, fork) ==
    /\ h = [number |-> h.number, timestamp |-> h.timestamp, gasLimit |-> h.gasLimit,
            gasUsed |-> h.gasUsed, extra |-> h.extra, baseFee |-> h.baseFee,
            difficulty |-> 0, nonce |-> 0, ommers |-> {}, withdrawalsRoot |-> h.withdrawalsRoot,
            blobGas |-> h.blobGas, excessBlobGas |-> h.excessBlobGas, beaconRoot |-> h.beaconRoot,
            requestsHash |-> None, txRoot |-> txs, stateRoot |-> h.stateRoot]
    /\ h.baseFee # None
    /\ fork >= Shanghai => h.withdrawalsRoot # None
    /\ fork < Shanghai => h.withdrawalsRoot = None
    /\ fork >= Cancun => h.blobGas # None /\ h.excessBlobGas # None /\ h.beaconRoot = UnwrapOr(beaconRoot, 0)
    /\ fork < Cancun => h.blobGas = None /\ h.excessBlobGas = None /\ h.beaconRoot = None

\* A block with such a header, as EngineMapper sees it.
BlockOf(h, txs) == [header |-> h, txs |-> txs, withdrawals |-> h.withdrawalsRoot]

\* Its fork is one from Paris on.
FromParis(h, txs, beaconRoot, config) ==
    /\ ForkOf(h, config) \in {Paris, Shanghai, Cancun, Prague}
    /\ Sealed(h, txs, beaconRoot, ForkOf(h, config))

\* A payload with the fields of the header that every version has.
Carries(p, h, txs) ==
    /\ p.number = h.number /\ p.timestamp = h.timestamp /\ p.gasLimit = h.gasLimit
    /\ p.gasUsed = h.gasUsed /\ p.extra = h.extra /\ p.baseFee = h.baseFee /\ p.txs = txs
    /\ p.stateRoot = h.stateRoot

\* The payload getPayload of a version hands out.
HandedOut(v, p, h, txs, fork) ==
    /\ Carries(p, h, txs) /\ p.hash = h
    /\ p.blobGas = UnwrapOr(h.blobGas, 0) /\ p.excessBlobGas = UnwrapOr(h.excessBlobGas, 0)
    /\ p.withdrawals = IF v = 1 \/ (v = 2 /\ fork < Shanghai) THEN None ELSE h.withdrawalsRoot

\* What the fields that not every version has must give back.
Restores(h, beaconRoot, fork, paid, gas, over, beacon) ==
    /\ UnwrapOr(paid, 0) = h.withdrawalsRoot \/ fork < Shanghai
    /\ \/ fork < Cancun
       \/ UnwrapOr(gas, 0) = h.blobGas /\ UnwrapOr(over, 0) = h.excessBlobGas /\ beacon = beaconRoot

\* payload_v1_to_block rebuilds a block from the fields of its payload.
LEMMA Rebuilt ==
    ASSUME NEW h, NEW txs, NEW root, NEW config, FromParis(h, txs, root, config),
           NEW p, Carries(p, h, txs),
           NEW paid, NEW gas, NEW over, NEW beacon,
           Restores(h, root, ForkOf(h, config), paid, gas, over, beacon)
    PROVE  PayloadToBlock(p, paid, gas, over, beacon, config) = BlockOf(h, txs)
  <1> DEFINE fork == ForkOf(h, config)
  <1>0. fork \in {Paris, Shanghai, Cancun, Prague} /\ Sealed(h, txs, root, fork)
    BY Zenon DEF FromParis
  <1>1. ActiveFork(config, p.number, p.timestamp, None) = fork
    BY Zenon DEF ForkOf, Carries
  <1>2. /\ fork >= Shanghai => UnwrapOr(paid, 0) = h.withdrawalsRoot
        /\ fork >= Cancun => /\ UnwrapOr(gas, 0) = h.blobGas /\ UnwrapOr(over, 0) = h.excessBlobGas
                             /\ UnwrapOr(beacon, 0) = h.beaconRoot
    BY <1>0 DEF Restores, Sealed, Paris, Shanghai, Cancun, Prague
  <1> HIDE DEF fork
  <1>3. PayloadToBlock(p, paid, gas, over, beacon, config) =
          [header |-> [number |-> h.number, timestamp |-> h.timestamp, gasLimit |-> h.gasLimit,
                       gasUsed |-> h.gasUsed, extra |-> h.extra, baseFee |-> h.baseFee,
                       difficulty |-> 0, nonce |-> 0, ommers |-> {}, withdrawalsRoot |-> h.withdrawalsRoot,
                       blobGas |-> h.blobGas, excessBlobGas |-> h.excessBlobGas, beaconRoot |-> h.beaconRoot,
                       requestsHash |-> None, txRoot |-> txs, stateRoot |-> h.stateRoot],
           txs |-> txs, withdrawals |-> h.withdrawalsRoot]
    BY <1>0, <1>1, <1>2 DEF PayloadToBlock, Carries, Sealed, London, Paris, Shanghai, Cancun, Prague
  <1> QED
    BY <1>0, <1>3, Zenon DEF Sealed, BlockOf

\* What getPayload hands out.
LEMMA HandedFields ==
    ASSUME NEW h, NEW txs, NEW root, NEW config, FromParis(h, txs, root, config),
           NEW v \in 1 .. 4, Serves(v, ForkOf(h, config))
    PROVE  HandedOut(v, GetPayload(v, BlockOf(h, txs), config), h, txs, ForkOf(h, config))
  <1> DEFINE fork == ForkOf(h, config)
             block == BlockOf(h, txs)
             p == GetPayload(v, block, config)
  <1>0. fork \in {Paris, Shanghai, Cancun, Prague} /\ Sealed(h, txs, root, fork)
    BY Zenon DEF FromParis
  <1> DEFINE q == ToExecutionPayload(block, config)
  <1>1. block.header = h /\ block.txs = txs /\ block.withdrawals = h.withdrawalsRoot
    BY Zenon DEF BlockOf
  <1> HIDE DEF block
  <1>2. fork >= London /\ UnwrapOr(h.baseFee, 0) = h.baseFee
    <2>1. fork >= London
      BY <1>0 DEF London, Paris, Shanghai, Cancun, Prague
    <2> QED
      BY <1>0, <2>1, Zenon DEF Sealed, UnwrapOr
  <1>3. q = [number |-> h.number, timestamp |-> h.timestamp, gasLimit |-> h.gasLimit,
             gasUsed |-> h.gasUsed, extra |-> h.extra, stateRoot |-> h.stateRoot, baseFee |-> h.baseFee,
             blobGas |-> UnwrapOr(h.blobGas, 0), excessBlobGas |-> UnwrapOr(h.excessBlobGas, 0),
             withdrawals |-> h.withdrawalsRoot, txs |-> txs, hash |-> h]
    BY <1>1, <1>2 DEF ToExecutionPayload
  <1> HIDE DEF q, fork
  <1>4. p = IF v = 1 \/ (v = 2 /\ fork < Shanghai) THEN [q EXCEPT !.withdrawals = None] ELSE q
    BY <1>1, Zenon DEF GetPayload, q, fork
  <1> HIDE DEF p
  <1>5. HandedOut(v, p, h, txs, fork)
    BY <1>3, <1>4 DEF HandedOut, Carries
  <1> QED
    BY <1>5, Zenon DEF p, fork, block

\* A version that serves the block and takes the payload rebuilds the block.
LEMMA ComesBack ==
    ASSUME NEW h, NEW txs, NEW root, NEW config, FromParis(h, txs, root, config),
           NEW v \in 1 .. 4, Serves(v, ForkOf(h, config)),
           Takes(v, GetPayload(v, BlockOf(h, txs), config), config)
    PROVE  /\ NewPayload(v, GetPayload(v, BlockOf(h, txs), config), root, config) = BlockOf(h, txs)
           /\ GetPayload(v, BlockOf(h, txs), config).hash = h
  <1> DEFINE fork == ForkOf(h, config)
             block == BlockOf(h, txs)
             p == GetPayload(v, block, config)
  <1>0. fork \in {Paris, Shanghai, Cancun, Prague} /\ Sealed(h, txs, root, fork) /\ Takes(v, p, config)
    BY Zenon DEF FromParis
  <1>1. HandedOut(v, p, h, txs, fork)
    BY HandedFields, Zenon
  <1> HIDE DEF p, block
  <1>2. ActiveFork(config, p.number, p.timestamp, None) = fork
    BY <1>1, Zenon DEF ForkOf, HandedOut, Carries
  <1>3. p.hash = h /\ Carries(p, h, txs)
    BY <1>1, Zenon DEF HandedOut
  <1> HIDE DEF fork
  <1>4. ASSUME v <= 2 PROVE NewPayload(v, p, root, config) = block
    <2>1. fork < Cancun /\ (fork >= Shanghai => p.withdrawals # None)
      BY <1>0, <1>2, <1>4, Zenon DEF Takes, ForkValidation
    <2>2. UnwrapOr(p.withdrawals, 0) = h.withdrawalsRoot \/ fork < Shanghai
      BY <1>0, <1>1, <2>1 DEF HandedOut, UnwrapOr, Paris, Shanghai, Cancun, Prague
    <2>3. PayloadToBlock(p, p.withdrawals, None, None, None, config) = block
      <3>1. Restores(h, root, fork, p.withdrawals, None, None, None)
        BY <2>1, <2>2, Zenon DEF Restores
      <3> QED
        BY <1>3, <3>1, Rebuilt DEF fork, block
    <2>4. NewPayload(v, p, root, config) = PayloadToBlock(p, p.withdrawals, None, None, None, config)
      BY <1>0, <1>4, Zenon DEF NewPayload
    <2> QED
      BY <2>3, <2>4
  <1>5. ASSUME v \in {3, 4} PROVE NewPayload(v, p, root, config) = block
    <2>1. fork >= Cancun /\ fork >= Shanghai /\ ~(v <= 2) /\ ~(fork < Cancun) /\ v # 1 /\ v # 2
      BY <1>0, <1>2, <1>5 DEF Takes, Paris, Shanghai, Cancun, Prague
    <2>2. h.blobGas # None /\ h.excessBlobGas # None /\ h.withdrawalsRoot # None
      BY <1>0, <2>1, Zenon DEF Sealed
    <2>3. UnwrapOr(p.withdrawals, 0) = h.withdrawalsRoot
      BY <1>1, <2>1, <2>2, Zenon DEF HandedOut, UnwrapOr
    <2>4. UnwrapOr(p.blobGas, 0) = h.blobGas /\ UnwrapOr(p.excessBlobGas, 0) = h.excessBlobGas
      BY <1>1, <2>2, Zenon DEF HandedOut, UnwrapOr
    <2>5. PayloadToBlock(p, p.withdrawals, p.blobGas, p.excessBlobGas, root, config) = block
      <3>1. Restores(h, root, fork, p.withdrawals, p.blobGas, p.excessBlobGas, root)
        BY <2>3, <2>4, Zenon DEF Restores
      <3> QED
        BY <1>3, <3>1, Rebuilt DEF fork, block
    <2>6. NewPayload(v, p, root, config) = PayloadToBlock(p, p.withdrawals, p.blobGas, p.excessBlobGas, root, config)
      BY <1>0, <2>1, Zenon DEF NewPayload, PayloadV3ToBlock
    <2> QED
      BY <2>5, <2>6, Zenon
  <1>6. v <= 2 \/ v \in {3, 4}
    OBVIOUS
  <1> QED
    BY <1>3, <1>4, <1>5, <1>6, Zenon DEF p, block

\* Some version serves the block and takes the payload.
LEMMA SomeTakes ==
    ASSUME NEW h, NEW txs, NEW root, NEW config, FromParis(h, txs, root, config)
    PROVE  \E v \in 1 .. 4 : Serves(v, ForkOf(h, config)) /\ Takes(v, GetPayload(v, BlockOf(h, txs), config), config)
  <1> DEFINE fork == ForkOf(h, config)
             v == IF fork >= Cancun THEN 3 ELSE IF fork >= Shanghai THEN 2 ELSE 1
             p == GetPayload(v, BlockOf(h, txs), config)
  <1>0. fork \in {Paris, Shanghai, Cancun, Prague} /\ Sealed(h, txs, root, fork)
    BY Zenon DEF FromParis
  <1>1. v \in 1 .. 4 /\ Serves(v, fork)
    <2> HIDE DEF fork
    <2> QED
      BY <1>0 DEF Serves, Paris, Shanghai, Cancun, Prague
  <1>2. HandedOut(v, p, h, txs, fork)
    <2> HIDE DEF v
    <2> QED
      BY <1>1, HandedFields, Zenon
  <1>3. ActiveFork(config, p.number, p.timestamp, None) = fork
    <2> HIDE DEF p
    <2> QED
      BY <1>2, Zenon DEF ForkOf, HandedOut, Carries
  <1>4. Takes(v, p, config)
    <2> HIDE DEF fork, p
    <2> QED
      BY <1>0, <1>2, <1>3 DEF HandedOut, Takes, ForkValidation, Sealed, Paris, Shanghai, Cancun, Prague
  <1> HIDE DEF v
  <1> QED
    BY <1>1, <1>4, Zenon

\* The header of a payload has the fields of its fork.
LEMMA PayloadSealed ==
    ASSUME NEW parent, HeaderOk(parent), NEW attr, NEW config, NEW gas \in Nat, NEW used, NEW txs, NEW root,
           NEW fork \in {Paris, Shanghai, Cancun, Prague},
           fork = ActiveFork(config, parent.number + 1, attr.timestamp, None)
    PROVE  Sealed(PayloadHeader(parent, attr, config, gas, used, txs, root), txs, attr.beaconRoot, fork)
  <1> DEFINE h == PayloadHeader(parent, attr, config, gas, used, txs, root)
             fee == CalculateNextBaseFee(parent)
             excess == ExcessBlobGas(parent.excessBlobGas, parent.blobGas, TargetBlobGas)
             paid == UnwrapOr(attr.withdrawals, 0)
             beacon == UnwrapOr(attr.beaconRoot, 0)
  <1>1. fee # None /\ excess # None /\ gas # None /\ paid # None
    <2>1. excess \in Nat
      <3>1. parent.excessBlobGas \in Nat \cup {None} /\ parent.blobGas \in Nat \cup {None}
        BY DEF HeaderOk
      <3> QED
        BY <3>1, ExcessInt, Zenon
    <2>2. \A x \in Nat : x # None
      BY NoneAssumption
    <2> QED
      BY <2>1, <2>2, NextFee, Unwrapped, Zenon
  <1> HIDE DEF fee, excess, paid, beacon
  <1>2. h = [number |-> parent.number + 1, timestamp |-> attr.timestamp, gasLimit |-> parent.gasLimit,
             gasUsed |-> used, extra |-> 0, baseFee |-> fee, difficulty |-> 0, nonce |-> 0, ommers |-> {},
             withdrawalsRoot |-> IF fork >= Shanghai THEN paid ELSE None,
             blobGas |-> IF fork >= Cancun THEN gas ELSE None,
             excessBlobGas |-> IF fork >= Cancun THEN excess ELSE None,
             beaconRoot |-> IF fork >= Cancun THEN beacon ELSE None,
             requestsHash |-> None, txRoot |-> txs, stateRoot |-> root]
    <2>1. fork >= Paris
      BY DEF Paris, Shanghai, Cancun, Prague
    <2> QED
      BY <2>1, Zenon DEF PayloadHeader, fee, excess, paid, beacon
  <1> HIDE DEF h
  <1>3. /\ h.number = parent.number + 1 /\ h.timestamp = attr.timestamp /\ h.gasLimit = parent.gasLimit
        /\ h.gasUsed = used /\ h.extra = 0 /\ h.baseFee = fee /\ h.stateRoot = root
        /\ h.withdrawalsRoot = IF fork >= Shanghai THEN paid ELSE None
        /\ h.blobGas = IF fork >= Cancun THEN gas ELSE None
        /\ h.excessBlobGas = IF fork >= Cancun THEN excess ELSE None
        /\ h.beaconRoot = IF fork >= Cancun THEN beacon ELSE None
    BY <1>2, Zenon
  <1>4. (fork < Shanghai => ~(fork >= Shanghai)) /\ (fork < Cancun => ~(fork >= Cancun))
    BY DEF Paris, Shanghai, Cancun, Prague
  <1>5. h = [number |-> h.number, timestamp |-> h.timestamp, gasLimit |-> h.gasLimit,
             gasUsed |-> h.gasUsed, extra |-> h.extra, baseFee |-> h.baseFee,
             difficulty |-> 0, nonce |-> 0, ommers |-> {}, withdrawalsRoot |-> h.withdrawalsRoot,
             blobGas |-> h.blobGas, excessBlobGas |-> h.excessBlobGas, beaconRoot |-> h.beaconRoot,
             requestsHash |-> None, txRoot |-> txs, stateRoot |-> h.stateRoot]
    BY <1>2, <1>3, Zenon
  <1>6. Sealed(h, txs, attr.beaconRoot, fork)
    BY <1>1, <1>3, <1>4, <1>5, Zenon DEF Sealed, beacon
  <1> QED
    BY <1>6, Zenon DEF h

\* What getPayload hands out of a row of the table comes back.
LEMMA RoundTrip ==
    ASSUME NEW id, HeaderOk(id.head.header), NEW row, row.block.header.blobGas \in Nat \cup {None},
           NEW config \in Schedules, ForkOf(Payload(id, row, config).header, config) >= Paris
    PROVE  Returns(id, row, config)
  <1> DEFINE parent == id.head.header
             old == row.block.header
             gas == UnwrapOr(old.blobGas, 0)
             txs == row.block.txs
             h == PayloadHeader(parent, id.attr, config, gas, old.gasUsed, txs, old.stateRoot)
             fork == ActiveFork(config, parent.number + 1, id.attr.timestamp, None)
             root == id.attr.beaconRoot
  <1>1. gas \in Nat
    BY NoneAssumption DEF UnwrapOr
  <1>2. Payload(id, row, config) = BlockOf(h, txs)
    BY Zenon DEF Payload, BlockOf
  <1>3. BlockOf(h, txs).header = h
    BY Zenon DEF BlockOf
  <1>4. h.number = parent.number + 1 /\ h.timestamp = id.attr.timestamp
    BY Zenon DEF PayloadHeader
  <1> HIDE DEF gas, txs, old, parent
  <1>5. ForkOf(h, config) = fork
    BY <1>4, Zenon DEF ForkOf
  <1>6. fork \in Frontier .. Prague /\ fork >= Paris
    BY <1>2, <1>3, <1>5, ForkRange, Zenon
  <1>7. fork \in {Paris, Shanghai, Cancun, Prague}
    <2> HIDE DEF fork
    <2> QED
      BY <1>6 DEF Frontier, Paris, Shanghai, Cancun, Prague
  <1>8. Sealed(h, txs, root, fork)
    <2>1. HeaderOk(parent)
      BY Zenon DEF parent
    <2> DEFINE used == old.gasUsed
               state == old.stateRoot
    <2> HIDE DEF used, state
    <2>2. Sealed(PayloadHeader(parent, id.attr, config, gas, used, txs, state), txs, id.attr.beaconRoot, fork)
      BY <1>1, <1>7, <2>1, PayloadSealed, Zenon
    <2> QED
      BY <2>2, Zenon DEF used, state
  <1> HIDE DEF h, fork, root
  <1>9. FromParis(h, txs, root, config)
    BY <1>5, <1>7, <1>8, Zenon DEF FromParis
  <1> DEFINE block == BlockOf(h, txs)
             Handed(v) == GetPayload(v, block, config)
             taking == {v \in 1..4 : Serves(v, ForkOf(block.header, config)) /\ Takes(v, Handed(v), config)}
  <1>10. taking # {}
    BY <1>3, <1>9, SomeTakes, Zenon
  <1>11. \A v \in taking : NewPayload(v, Handed(v), root, config) = block /\ Handed(v).hash = block.header
    <2> SUFFICES ASSUME NEW v \in taking
                 PROVE  NewPayload(v, Handed(v), root, config) = block /\ Handed(v).hash = block.header
      BY Zenon
    <2>1. v \in 1 .. 4 /\ Serves(v, ForkOf(h, config)) /\ Takes(v, GetPayload(v, BlockOf(h, txs), config), config)
      BY <1>3, Zenon
    <2>2. /\ NewPayload(v, GetPayload(v, BlockOf(h, txs), config), root, config) = BlockOf(h, txs)
          /\ GetPayload(v, BlockOf(h, txs), config).hash = h
      BY <1>9, <2>1, ComesBack, Zenon
    <2> QED
      BY <1>3, <2>2, Zenon
  <1>12. Payload(id, row, config) = block
    BY <1>2, Zenon
  <1> HIDE DEF block
  <1> QED
    BY <1>10, <1>11, <1>12, Zenon DEF Returns, root

-----------------------------------------------------------------------------
(* The rows of the builder.                                                *)

\* A task has the fields of one.
IsTask(v) == {"pc", "id", "old", "new", "rounds"} \subseteq DOMAIN v

\* A task builds on a block of the node, and the block it is about to add was built for
\* its id.
TaskOk(v, blocks) ==
    /\ IsTask(v)
    /\ v.pc # "idle" => /\ v.id.head \in blocks
                        /\ v.pc \in {"blobs", "add"} => Built(v.id, v.new)

\* So was the block of a row.
RowOk(id, row, blocks) == id.head \in blocks /\ Built(id, row.block)

\* Every row is a block built for its id on a block of the node, and every task is about
\* to add such a block.
BuilderInv ==
    /\ DOMAIN work = Workers
    /\ pool \in [Senders -> Seq(Txs)]
    /\ \A b \in stored : HeaderOk(b.header)
    /\ \A id \in DOMAIN rows : RowOk(id, rows[id], stored)
    /\ \A w \in Workers : TaskOk(work[w], stored)

\* A task that is past the lock.
Past(v) == v.pc \notin {"idle", "lock"}

\* A call past the lock holds it; a loop has no use for it.
LockOk(w, v, holder) ==
    /\ w \in Calls /\ Past(v) => holder = w
    /\ w \in Loops => v.pc \notin {"lock", "empty", "register"}
LockInv == \A w \in Workers : LockOk(w, work[w], lock)

\* A block of the slot of the id is among these.
InSlot(id, blocks) ==
    \E b \in blocks : b.header.number = id.head.header.number + 1
                      /\ b.header.timestamp = id.attr.timestamp

\* The row is what the builder last saw, or worth no more than what it is about to add.
SeatOk(v, table) ==
    /\ (v.pc = "empty") = ~Has(table, v.id)
    /\ v.pc = "peek" => v.old = table[v.id].block
    /\ v.pc \in {"blobs", "add"} => BlockValue(v.new) >= BlockValue(table[v.id].block)

\* Until a block of the slot is imported, an id has one builder at a time.
Alone(w) == \A o \in Workers : Past(work[o]) /\ work[o].id = work[w].id => o = w
SeatInv ==
    \A w \in Workers : Past(work[w]) /\ ~InSlot(work[w].id, stored) => SeatOk(work[w], rows) /\ Alone(w)

\* A task goes on to another step of the same work.
Turns(w, pc) ==
    /\ DOMAIN work' = Workers /\ IsTask(work'[w])
    /\ work'[w].pc = pc /\ work'[w].id = work[w].id
    /\ \A o \in Workers : o # w => work'[o] = work[o]

\* A step that moves the task only.
LEMMA TurnPc ==
    ASSUME BuilderInv, NEW w \in Workers, NEW pc, work' = [work EXCEPT ![w].pc = pc]
    PROVE  Turns(w, pc) /\ work'[w].old = work[w].old /\ work'[w].new = work[w].new
  <1>1. DOMAIN work = Workers /\ IsTask(work[w])
    BY Zenon DEF BuilderInv, TaskOk
  <1>2. DOMAIN work' = Workers /\ work'[w] = [work[w] EXCEPT !.pc = pc]
        /\ \A o \in Workers : o # w => work'[o] = work[o]
    BY <1>1, Zenon
  <1> QED
    BY <1>1, <1>2, Zenon DEF Turns, IsTask

\* A step that reads the row.
LEMMA TurnOld ==
    ASSUME BuilderInv, NEW w \in Workers, NEW pc, NEW x, work' = [work EXCEPT ![w].pc = pc, ![w].old = x]
    PROVE  Turns(w, pc) /\ work'[w].old = x /\ work'[w].new = work[w].new
  <1>1. DOMAIN work = Workers /\ IsTask(work[w])
    BY Zenon DEF BuilderInv, TaskOk
  <1>2. DOMAIN work' = Workers /\ work'[w] = [[work[w] EXCEPT !.pc = pc] EXCEPT !.old = x]
        /\ \A o \in Workers : o # w => work'[o] = work[o]
    BY <1>1, Zenon
  <1> QED
    BY <1>1, <1>2, Zenon DEF Turns, IsTask

\* A step that prepares a block.
LEMMA TurnNew ==
    ASSUME BuilderInv, NEW w \in Workers, NEW pc, NEW x, work' = [work EXCEPT ![w].pc = pc, ![w].new = x]
    PROVE  Turns(w, pc) /\ work'[w].new = x
  <1>1. DOMAIN work = Workers /\ IsTask(work[w])
    BY Zenon DEF BuilderInv, TaskOk
  <1>2. DOMAIN work' = Workers /\ work'[w] = [[work[w] EXCEPT !.pc = pc] EXCEPT !.new = x]
        /\ \A o \in Workers : o # w => work'[o] = work[o]
    BY <1>1, Zenon
  <1> QED
    BY <1>1, <1>2, Zenon DEF Turns, IsTask

\* A round of the loop.
LEMMA TurnRound ==
    ASSUME BuilderInv, NEW w \in Workers, NEW pc, NEW x, work' = [work EXCEPT ![w].pc = pc, ![w].rounds = x]
    PROVE  Turns(w, pc)
  <1>1. DOMAIN work = Workers /\ IsTask(work[w])
    BY Zenon DEF BuilderInv, TaskOk
  <1>2. DOMAIN work' = Workers /\ work'[w] = [[work[w] EXCEPT !.pc = pc] EXCEPT !.rounds = x]
        /\ \A o \in Workers : o # w => work'[o] = work[o]
    BY <1>1, Zenon
  <1> QED
    BY <1>1, <1>2, Zenon DEF Turns, IsTask

\* The end of a rebuild.
LEMMA TurnEnd ==
    ASSUME BuilderInv, NEW w \in Workers, EndRebuild(w)
    PROVE  Turns(w, IF w \in Calls THEN "register" ELSE "round")
  <1> DEFINE pc == IF w \in Calls THEN "register" ELSE "round"
  <1>1. DOMAIN work = Workers /\ IsTask(work[w])
    BY Zenon DEF BuilderInv, TaskOk
  <1> HIDE DEF pc
  <1>2. DOMAIN work' = Workers
        /\ work'[w] = [[[work[w] EXCEPT !.pc = pc] EXCEPT !.old = None] EXCEPT !.new = None]
        /\ \A o \in Workers : o # w => work'[o] = work[o]
    BY <1>1, Zenon DEF EndRebuild, pc
  <1>3. Turns(w, pc)
    BY <1>1, <1>2, Zenon DEF Turns, IsTask
  <1> QED
    BY <1>3, Zenon DEF pc

\* Nothing is at work in a task that is free.
LEMMA IdleTask == IsTask(Idle) /\ Idle.pc = "idle"
  BY DEF Idle, IsTask

\* A step of a task keeps what is built.
LEMMA TurnBuilder ==
    ASSUME BuilderInv, NEW w \in Workers, work[w].pc # "idle", NEW pc, Turns(w, pc), UNCHANGED <<rows, stored, pool>>,
           pc \in {"blobs", "add"} => Built(work[w].id, work'[w].new)
    PROVE  BuilderInv'
  <1>1. TaskOk(work'[w], stored)
    BY Zenon DEF Turns, TaskOk, BuilderInv
  <1>2. \A o \in Workers : TaskOk(work'[o], stored)
    BY <1>1, Zenon DEF Turns, BuilderInv
  <1> QED
    BY <1>2, Zenon DEF Turns, BuilderInv, Workers

\* A task that becomes free, or is given an id to build, keeps it too.
LEMMA GivenBuilder ==
    ASSUME BuilderInv, NEW w \in Workers, NEW v, TaskOk(v, stored), work' = [work EXCEPT ![w] = v],
           UNCHANGED <<rows, stored, pool>>
    PROVE  BuilderInv'
  <1>1. DOMAIN work' = Workers /\ \A o \in Workers : TaskOk(work'[o], stored)
    BY Zenon DEF BuilderInv
  <1> QED
    BY <1>1, Zenon DEF BuilderInv, Workers

\* A row that is written was built for its id.
LEMMA RowBuilder ==
    ASSUME BuilderInv, NEW w \in Workers, work[w].pc # "idle", NEW pc, Turns(w, pc), UNCHANGED <<stored, pool>>,
           pc \notin {"blobs", "add"}, NEW row, Built(work[w].id, row.block), rows' = Put(rows, work[w].id, row)
    PROVE  BuilderInv'
  <1> DEFINE id == work[w].id
  <1>1. TaskOk(work'[w], stored) /\ id.head \in stored
    BY Zenon DEF Turns, TaskOk, BuilderInv
  <1>2. \A o \in Workers : TaskOk(work'[o], stored)
    BY <1>1, Zenon DEF Turns, BuilderInv
  <1>3. DOMAIN rows' = DOMAIN rows \union {id} /\ \A i \in DOMAIN rows' : rows'[i] = IF i = id THEN row ELSE rows[i]
    BY Zenon DEF Put
  <1>4. RowOk(id, row, stored)
    BY <1>1, Zenon DEF RowOk
  <1>5. \A i \in DOMAIN rows' : RowOk(i, rows'[i], stored)
    BY <1>3, <1>4, Zenon DEF BuilderInv
  <1> QED
    BY <1>2, <1>5, Zenon DEF Turns, BuilderInv, Workers

\* The pool's queues are lists of transactions, and nothing else changes with them.
LEMMA PoolBuilder ==
    ASSUME BuilderInv, pool' \in [Senders -> Seq(Txs)], UNCHANGED <<rows, stored, work>>
    PROVE  BuilderInv'
  BY Zenon DEF BuilderInv, Workers

\* The part of a queue from one index to another.
LEMMA PartOfQueue ==
    ASSUME NEW q \in Seq(Txs), NEW m \in Nat, NEW n \in Nat, m >= 1, n <= Len(q)
    PROVE  SubSeq(q, m, n) \in Seq(Txs)
  OBVIOUS

\* insert_into_queue, the listener and the revalidation leave lists of transactions.
LEMMA SubmitBuilder ==
    ASSUME BuilderInv, NEW tx \in Txs, Submit(tx)
    PROVE  BuilderInv'
  <1> DEFINE s == tx.sender
             q == pool[s]
  <1>1. PICK k \in 0 .. Len(q) : pool' = [pool EXCEPT ![s] = SubSeq(q, 1, k) \o <<tx>> \o SubSeq(q, k + 1, Len(q))]
    BY Zenon DEF Submit
  <1>2. pool \in [Senders -> Seq(Txs)]
    BY Zenon DEF BuilderInv
  <1>3. ASSUME s \in Senders PROVE SubSeq(q, 1, k) \o <<tx>> \o SubSeq(q, k + 1, Len(q)) \in Seq(Txs)
    <2>1. q \in Seq(Txs)
      BY <1>2, <1>3, Zenon
    <2> HIDE DEF q
    <2>2. Len(q) \in Nat /\ k \in Nat /\ k <= Len(q) /\ 1 \in Nat /\ k + 1 \in Nat /\ k + 1 >= 1 /\ 1 >= 1 /\ Len(q) <= Len(q)
      BY <2>1
    <2>3. SubSeq(q, 1, k) \in Seq(Txs) /\ SubSeq(q, k + 1, Len(q)) \in Seq(Txs)
      BY <2>1, <2>2, PartOfQueue, Zenon
    <2>4. \A a, b \in Seq(Txs) : a \o <<tx>> \o b \in Seq(Txs)
      OBVIOUS
    <2> QED
      BY <2>3, <2>4, Zenon
  <1>4. pool' \in [Senders -> Seq(Txs)]
    BY <1>1, <1>2, <1>3, Zenon
  <1> QED
    BY <1>4, PoolBuilder, Zenon DEF Submit

\* Dropping the stale transactions leaves every queue a sequence.
LEMMA DropBuilder ==
    ASSUME BuilderInv, DropStale
    PROVE  BuilderInv'
  <1> DEFINE Old(s) == {i \in DOMAIN pool[s] : pool[s][i].nonce < head.header.stateRoot[pool[s][i].sender]}
  <1>1. pool' = [s \in Senders |-> SubSeq(pool[s], Cardinality(Old(s)) + 1, Len(pool[s]))]
    BY Zenon DEF DropStale
  <1>2. ASSUME NEW s \in Senders PROVE SubSeq(pool[s], Cardinality(Old(s)) + 1, Len(pool[s])) \in Seq(Txs)
    <2> DEFINE q == pool[s]
               n == Cardinality(Old(s))
    <2>1. q \in Seq(Txs)
      BY Zenon DEF BuilderInv
    <2>2. DOMAIN q = 1 .. Len(q) /\ Len(q) \in Nat /\ 1 \in Int /\ Len(q) \in Int
      BY <2>1
    <2>3. IsFiniteSet(DOMAIN q)
      BY <2>2, FS_Interval, Zenon
    <2>4. Old(s) \in SUBSET DOMAIN q
      BY Zenon
    <2>5. IsFiniteSet(Old(s))
      BY <2>3, <2>4, FS_Subset, Zenon
    <2>6. n \in Nat
      BY <2>5, FS_CardinalityType, Zenon
    <2> HIDE DEF n, q
    <2>7. n + 1 \in Nat /\ n + 1 >= 1 /\ Len(q) <= Len(q)
      BY <2>2, <2>6
    <2>8. SubSeq(q, n + 1, Len(q)) \in Seq(Txs)
      BY <2>1, <2>2, <2>7, PartOfQueue, Zenon
    <2> QED
      BY <2>8, Zenon DEF n, q
  <1> HIDE DEF Old
  <1>3. pool' \in [Senders -> Seq(Txs)]
    BY <1>1, <1>2, Zenon
  <1> QED
    BY <1>3, PoolBuilder, Zenon DEF DropStale

\* So does an eviction.
LEMMA EvictBuilder ==
    ASSUME BuilderInv, NEW s \in Senders, NEW i \in DOMAIN pool[s], Evict(s, i)
    PROVE  BuilderInv'
  <1> DEFINE q == pool[s]
  <1>1. pool \in [Senders -> Seq(Txs)] /\ q \in Seq(Txs) /\ i \in DOMAIN q
    BY Zenon DEF BuilderInv
  <1>2. pool' = [pool EXCEPT ![s] = SubSeq(q, 1, i - 1) \o SubSeq(q, i + 1, Len(q))]
    BY Zenon DEF Evict
  <1> HIDE DEF q
  <1>3. /\ 1 \in Nat /\ i - 1 \in Nat /\ i - 1 <= Len(q) /\ i + 1 \in Nat /\ i + 1 >= 1 /\ 1 >= 1
        /\ Len(q) \in Nat /\ Len(q) <= Len(q)
    BY <1>1
  <1>4. SubSeq(q, 1, i - 1) \in Seq(Txs) /\ SubSeq(q, i + 1, Len(q)) \in Seq(Txs)
    BY <1>1, <1>3, PartOfQueue, Zenon
  <1>5. \A a, b \in Seq(Txs) : a \o b \in Seq(Txs)
    OBVIOUS
  <1>6. pool' \in [Senders -> Seq(Txs)]
    BY <1>1, <1>2, <1>4, <1>5, Zenon
  <1> QED
    BY <1>6, PoolBuilder, Zenon DEF Evict

\* A rebuild's block is built for its id.
LEMMA ExecuteBuilder ==
    ASSUME BuilderInv, NEW w \in Workers, RebuildExecute(w)
    PROVE  BuilderInv'
  <1> DEFINE id == work[w].id
             parent == id.head.header
             fee == UnwrapOr(CalculateNextBaseFee(parent), 0)
             txs == PeekBest(pool, blobs, parent.gasLimit, fee)
             new == ExecuteForPayload(id, txs)
  <1>1. work[w].pc = "peek" /\ work[w].pc # "idle" /\ UNCHANGED <<rows, stored, pool>>
    BY Zenon DEF RebuildExecute
  <1>2. \/ EndRebuild(w)
        \/ new # None /\ work' = [work EXCEPT ![w].pc = "blobs", ![w].new = new]
    BY Zenon DEF RebuildExecute
  <1>3. CASE EndRebuild(w)
    <2>1. Turns(w, IF w \in Calls THEN "register" ELSE "round")
      BY <1>3, TurnEnd, Zenon
    <2>2. (IF w \in Calls THEN "register" ELSE "round") \notin {"blobs", "add"}
      OBVIOUS
    <2> QED
      BY <1>1, <2>1, <2>2, TurnBuilder, Zenon
  <1>4. CASE new # None /\ work' = [work EXCEPT ![w].pc = "blobs", ![w].new = new]
    <2>1. HeaderOk(parent) /\ pool \in [Senders -> Seq(Txs)]
      BY <1>1, Zenon DEF BuilderInv, TaskOk
    <2>2. fee \in Nat
      BY <2>1, NextFee, Zenon
    <2> HIDE DEF fee
    <2>3. txs \in Seq(Payable(fee))
      BY <2>1, <2>2, PeekPayable, Zenon
    <2> HIDE DEF txs
    <2>4. BlobsOf(Included(parent.stateRoot, txs)) = BlobsOf(txs)
      BY <1>4, Zenon DEF ExecuteForPayload
    <2>5. Built(id, new)
      BY <2>1, <2>3, <2>4, ExecuteBuilt, Zenon DEF fee
    <2> HIDE DEF new
    <2>6. Turns(w, "blobs") /\ work'[w].new = new
      BY <1>4, TurnNew, Zenon
    <2> QED
      BY <1>1, <2>5, <2>6, TurnBuilder, Zenon
  <1> QED
    BY <1>2, <1>3, <1>4, Zenon

\* The other steps of a task.
LEMMA StepBuilder ==
    ASSUME BuilderInv, NEW w \in Workers, Step(w)
    PROVE  BuilderInv'
  <1> DEFINE id == work[w].id
             end == IF w \in Calls THEN "register" ELSE "round"
  <1>1. end \notin {"blobs", "add"}
    OBVIOUS
  <1>2. TaskOk(Idle, stored)
    BY IdleTask, Zenon DEF TaskOk
  <1>3. EndRebuild(w) => Turns(w, end)
    BY TurnEnd, Zenon
  <1> HIDE DEF end
  <1>4. CASE AcquireLock(w)
    <2>1. work[w].pc = "lock" /\ work[w].pc # "idle" /\ UNCHANGED <<rows, stored, pool>>
          /\ (work' = [work EXCEPT ![w] = Idle] \/ work' = [work EXCEPT ![w].pc = "empty"])
      BY <1>4, Zenon DEF AcquireLock, Return
    <2>2. CASE work' = [work EXCEPT ![w] = Idle]
      BY <1>2, <2>1, <2>2, GivenBuilder, Zenon
    <2>3. CASE work' = [work EXCEPT ![w].pc = "empty"]
      <3>1. Turns(w, "empty")
        BY <2>3, TurnPc, Zenon
      <3> QED
        BY <2>1, <3>1, TurnBuilder, Zenon
    <2> QED
      BY <2>1, <2>2, <2>3, Zenon
  <1>5. CASE BuildEmpty(w)
    <2> DEFINE row == [block |-> ExecuteForPayload(id, <<>>), bundle |-> <<>>]
    <2>1. /\ work[w].pc = "empty" /\ work[w].pc # "idle" /\ UNCHANGED <<stored, pool>>
          /\ rows' = Put(rows, id, row) /\ work' = [work EXCEPT ![w].pc = "read"]
      BY <1>5, Zenon DEF BuildEmpty
    <2>2. HeaderOk(id.head.header)
      BY <2>1, Zenon DEF BuilderInv, TaskOk
    <2>3. row.block = ExecuteForPayload(id, <<>>)
      BY Zenon
    <2>4. Built(id, row.block)
      BY <2>2, <2>3, EmptyBuilt, Zenon
    <2> HIDE DEF row
    <2>5. Turns(w, "read")
      BY <2>1, TurnPc, Zenon
    <2> QED
      BY <2>1, <2>4, <2>5, RowBuilder, Zenon
  <1>6. CASE RebuildRead(w)
    <2>1. /\ work[w].pc = "read" /\ work[w].pc # "idle" /\ UNCHANGED <<rows, stored, pool>>
          /\ EndRebuild(w) \/ work' = [work EXCEPT ![w].pc = "peek", ![w].old = rows[id].block]
      BY <1>6, Zenon DEF RebuildRead
    <2>2. CASE EndRebuild(w)
      BY <1>1, <1>3, <2>1, <2>2, TurnBuilder, Zenon
    <2>3. CASE work' = [work EXCEPT ![w].pc = "peek", ![w].old = rows[id].block]
      <3>1. Turns(w, "peek")
        BY <2>3, TurnOld, Zenon
      <3> QED
        BY <2>1, <3>1, TurnBuilder, Zenon
    <2> QED
      BY <2>1, <2>2, <2>3, Zenon
  <1>7. CASE RebuildExecute(w)
    BY <1>7, ExecuteBuilder, Zenon
  <1>8. CASE CollectBlobs(w)
    <2> DEFINE bundle == BlobsOf(work[w].new.txs)
    <2>1. /\ work[w].pc = "blobs" /\ work[w].pc # "idle" /\ UNCHANGED <<rows, stored, pool>>
          /\ EndRebuild(w) \/ work' = [work EXCEPT ![w].pc = "add", ![w].old = bundle]
      BY <1>8, Zenon DEF CollectBlobs
    <2>2. CASE EndRebuild(w)
      BY <1>1, <1>3, <2>1, <2>2, TurnBuilder, Zenon
    <2>3. CASE work' = [work EXCEPT ![w].pc = "add", ![w].old = bundle]
      <3>1. Turns(w, "add") /\ work'[w].new = work[w].new
        BY <2>3, TurnOld, Zenon
      <3>2. Built(id, work[w].new)
        BY <2>1, Zenon DEF BuilderInv, TaskOk
      <3> QED
        BY <2>1, <3>1, <3>2, TurnBuilder, Zenon
    <2> QED
      BY <2>1, <2>2, <2>3, Zenon
  <1>9. CASE AddPayload(w)
    <2> DEFINE row == [block |-> work[w].new, bundle |-> work[w].old]
    <2>1. /\ work[w].pc = "add" /\ work[w].pc # "idle" /\ UNCHANGED <<stored, pool>>
          /\ rows' = Put(rows, id, row) /\ EndRebuild(w)
      BY <1>9, Zenon DEF AddPayload
    <2>2. Built(id, work[w].new)
      BY <2>1, Zenon DEF BuilderInv, TaskOk
    <2>3. Built(id, row.block)
      BY <2>2, Zenon
    <2> HIDE DEF row
    <2> QED
      BY <1>1, <1>3, <2>1, <2>3, RowBuilder, Zenon
  <1>10. CASE \E l \in Free(Loops) : SpawnLoop(w, l)
    <2>1. PICK l \in Free(Loops) : SpawnLoop(w, l)
      BY <1>10, Zenon
    <2>2. l \in Workers
      BY Zenon DEF Free, Workers
    <2> DEFINE v == [Idle EXCEPT !.pc = "round", !.id = id]
    <2>3. /\ work[w].pc = "register" /\ work[w].pc # "idle" /\ UNCHANGED <<rows, stored, pool>>
          /\ work' = [[work EXCEPT ![w] = Idle] EXCEPT ![l] = v]
      BY <2>1, Zenon DEF SpawnLoop
    <2>4. id.head \in stored
      BY <2>3, Zenon DEF BuilderInv, TaskOk
    <2>5. IsTask(v) /\ v.pc = "round" /\ v.id = id
      BY DEF Idle, IsTask
    <2>6. TaskOk(v, stored)
      BY <2>4, <2>5 DEF TaskOk
    <2> HIDE DEF v
    <2>7. DOMAIN work' = Workers /\ \A o \in Workers : work'[o] = IF o = l THEN v ELSE IF o = w THEN Idle ELSE work[o]
      BY <2>2, <2>3, Zenon DEF BuilderInv
    <2>8. \A o \in Workers : TaskOk(work'[o], stored)
      BY <1>2, <2>6, <2>7, Zenon DEF BuilderInv
    <2> QED
      BY <2>3, <2>7, <2>8, Zenon DEF BuilderInv, Workers
  <1>11. CASE LoopRound(w)
    <2>1. /\ work[w].pc = "round" /\ work[w].pc # "idle" /\ UNCHANGED <<rows, stored, pool>>
          /\ \/ work' = [work EXCEPT ![w].pc = "read", ![w].rounds = work[w].rounds + 1]
             \/ work' = [work EXCEPT ![w].pc = "cleanup"]
      BY <1>11, Zenon DEF LoopRound
    <2>2. Turns(w, "read") \/ Turns(w, "cleanup")
      <3>1. CASE work' = [work EXCEPT ![w].pc = "read", ![w].rounds = work[w].rounds + 1]
        BY <3>1, TurnRound, Zenon
      <3>2. CASE work' = [work EXCEPT ![w].pc = "cleanup"]
        BY <3>2, TurnPc, Zenon
      <3> QED
        BY <2>1, <3>1, <3>2, Zenon
    <2>3. CASE Turns(w, "read")
      BY <2>1, <2>3, TurnBuilder, Zenon
    <2>4. CASE Turns(w, "cleanup")
      BY <2>1, <2>4, TurnBuilder, Zenon
    <2> QED
      BY <2>2, <2>3, <2>4, Zenon
  <1>12. CASE Cleanup(w)
    <2>1. work' = [work EXCEPT ![w] = Idle] /\ UNCHANGED <<rows, stored, pool>>
      BY <1>12, Zenon DEF Cleanup
    <2> QED
      BY <1>2, <2>1, GivenBuilder, Zenon
  <1> QED
    BY <1>4, <1>5, <1>6, <1>7, <1>8, <1>9, <1>10, <1>11, <1>12, Zenon DEF Step

\* Every step of the node keeps the rows built for their ids.
LEMMA NextBuilder == BuilderInv /\ [Next]_vars => BuilderInv'
  <1> SUFFICES ASSUME BuilderInv, [Next]_vars PROVE BuilderInv'
    BY Zenon
  <1>1. CASE \E c \in Free(Calls), b \in stored, attr \in Attrs : ForkchoiceUpdated(c, b, attr)
    <2>1. PICK c \in Free(Calls), b \in stored, attr \in Attrs : ForkchoiceUpdated(c, b, attr)
      BY <1>1, Zenon
    <2> DEFINE id == [head |-> b, attr |-> attr]
               v == [Idle EXCEPT !.pc = "lock", !.id = id]
    <2>2. /\ UNCHANGED <<rows, stored, pool>>
          /\ UNCHANGED work \/ work' = [work EXCEPT ![c] = v]
      BY <2>1, Zenon DEF ForkchoiceUpdated
    <2>3. c \in Workers
      BY Zenon DEF Free, Workers
    <2>4. IsTask(v) /\ v.pc = "lock" /\ v.id.head = b
      BY DEF Idle, IsTask
    <2>5. TaskOk(v, stored)
      BY <2>4 DEF TaskOk
    <2> HIDE DEF v
    <2>6. CASE UNCHANGED work
      BY <2>2, <2>6, Zenon DEF BuilderInv, Workers
    <2> QED
      BY <2>2, <2>3, <2>5, <2>6, GivenBuilder, Zenon
  <1>2. CASE \E w \in Workers : Step(w)
    BY <1>2, StepBuilder, Zenon
  <1>3. CASE \E id \in DOMAIN rows : Import(id)
    <2>1. PICK id \in DOMAIN rows : Import(id)
      BY <1>3, Zenon
    <2> DEFINE block == rows[id].block
    <2>2. /\ stored' = stored \union {block} /\ UNCHANGED <<work, pool>>
          /\ rows' = Without(rows, {i \in DOMAIN rows : rows[i].block = block})
      BY <2>1, Zenon DEF Import
    <2>3. \A b \in stored' : HeaderOk(b.header)
      BY <2>2, Zenon DEF BuilderInv, RowOk, Built
    <2>4. \A i \in DOMAIN rows' : i \in DOMAIN rows /\ rows'[i] = rows[i]
      BY <2>2, Zenon DEF Without
    <2>5. \A i \in DOMAIN rows' : RowOk(i, rows'[i], stored')
      BY <2>2, <2>4, Zenon DEF BuilderInv, RowOk
    <2>6. \A w \in Workers : TaskOk(work[w], stored')
      BY <2>2, Zenon DEF BuilderInv, TaskOk
    <2> QED
      BY <2>2, <2>3, <2>5, <2>6, Zenon DEF BuilderInv, Workers
  <1>4. CASE \E tx \in Txs : Submit(tx)
    BY <1>4, SubmitBuilder, Zenon
  <1>5. CASE DropStale
    BY <1>5, DropBuilder, Zenon
  <1>6. CASE \E s \in Senders : \E i \in DOMAIN pool[s] : Evict(s, i)
    BY <1>6, EvictBuilder, Zenon
  <1>7. CASE UNCHANGED vars
    BY <1>7, Zenon DEF vars, BuilderInv, Workers
  <1> QED
    BY <1>1, <1>2, <1>3, <1>4, <1>5, <1>6, <1>7, Zenon DEF Next

\* What the rows hold was built for their ids.
LEMMA RowsBuilt == Spec => []BuilderInv
  <1>1. Init => BuilderInv
    <2> SUFFICES ASSUME Init PROVE BuilderInv
      BY Zenon
    <2>1. DOMAIN work = Workers /\ \A w \in Workers : TaskOk(work[w], stored)
      BY IdleTask, Zenon DEF Init, TaskOk
    <2>2. pool \in [Senders -> Seq(Txs)]
      BY DEF Init
    <2>3. \A b \in stored : HeaderOk(b.header)
      <3>1. HeaderOk(Genesis.header)
        BY GenesisAssumption DEF HeaderOk
      <3> QED
        BY <3>1, Zenon DEF Init
    <2>4. DOMAIN rows = {}
      BY DEF Init
    <2> QED
      BY <2>1, <2>2, <2>3, <2>4, Zenon DEF BuilderInv
  <1> QED
    BY <1>1, NextBuilder, PTL DEF Spec

-----------------------------------------------------------------------------
(* The lock, and one builder for an id.                                    *)

\* A step of a task keeps the lock with who holds it.
LEMMA TurnLock ==
    ASSUME LockInv, NEW w \in Workers, NEW pc, Turns(w, pc), LockOk(w, work'[w], lock), UNCHANGED lock
    PROVE  LockInv'
  BY Zenon DEF LockInv, Turns, Workers

\* Rows other than the one a task past the lock builds, outside the slots of the blocks,
\* are not touched.
RowsKept(w) ==
    \A id : ~InSlot(id, stored') /\ (Past(work[w]) => id # work[w].id) =>
        (Has(rows', id) <=> Has(rows, id)) /\ (Has(rows, id) => rows'[id] = rows[id])

\* A slot a block is in stays so.
LEMMA SlotStays ==
    ASSUME stored \subseteq stored', NEW id, InSlot(id, stored)
    PROVE  InSlot(id, stored')
  BY Zenon DEF InSlot

\* A task keeps its seat as long as its row is not touched.
LEMMA RowKept ==
    ASSUME NEW v, SeatOk(v, rows), Has(rows', v.id) <=> Has(rows, v.id), Has(rows, v.id) => rows'[v.id] = rows[v.id]
    PROVE  SeatOk(v, rows')
  <1>1. v.pc \in {"peek", "blobs", "add"} => Has(rows, v.id)
    BY Zenon DEF SeatOk
  <1> QED
    BY <1>1, Zenon DEF SeatOk

\* A step of one task: no task comes past the lock, and that one keeps its seat.
LEMMA SeatKept ==
    ASSUME SeatInv, NEW w \in Workers, \A o \in Workers : o # w => work'[o] = work[o],
           stored \subseteq stored', RowsKept(w),
           Past(work'[w]) => Past(work[w]) /\ work'[w].id = work[w].id,
           Past(work'[w]) /\ ~InSlot(work'[w].id, stored') => SeatOk(work'[w], rows')
    PROVE  SeatInv'
  <1> SUFFICES ASSUME NEW o \in Workers, Past(work'[o]), ~InSlot(work'[o].id, stored')
               PROVE  SeatOk(work'[o], rows') /\ \A x \in Workers : Past(work'[x]) /\ work'[x].id = work'[o].id => x = o
    BY Zenon DEF SeatInv, Alone, Workers
  <1>1. Past(work[o]) /\ work'[o].id = work[o].id
    BY Zenon
  <1>2. ~InSlot(work[o].id, stored)
    BY <1>1, SlotStays, Zenon
  <1>3. SeatOk(work[o], rows) /\ \A x \in Workers : Past(work[x]) /\ work[x].id = work[o].id => x = o
    BY <1>1, <1>2, Zenon DEF SeatInv, Alone
  <1>4. \A x \in Workers : Past(work'[x]) /\ work'[x].id = work'[o].id => x = o
    BY <1>1, <1>3, Zenon
  <1>5. ASSUME o # w PROVE SeatOk(work'[o], rows')
    <2>1. Past(work[w]) => work[o].id # work[w].id
      BY <1>3, <1>5, Zenon
    <2>2. work'[o] = work[o]
      BY <1>5, Zenon
    <2>3. /\ Has(rows', work[o].id) <=> Has(rows, work[o].id)
          /\ Has(rows, work[o].id) => rows'[work[o].id] = rows[work[o].id]
      BY <2>1, <2>2, Zenon DEF RowsKept
    <2> QED
      BY <1>3, <2>2, <2>3, RowKept, Zenon
  <1> QED
    BY <1>4, <1>5, Zenon

\* Nothing but a task's own progress.
LEMMA SameRows ==
    ASSUME NEW w, UNCHANGED rows
    PROVE  RowsKept(w)
  BY Zenon DEF RowsKept

\* The row a task past the lock writes is that of its id.
LEMMA OwnRow ==
    ASSUME NEW w, Past(work[w]), NEW row, rows' = Put(rows, work[w].id, row)
    PROVE  RowsKept(w) /\ Has(rows', work[w].id) /\ rows'[work[w].id] = row
  <1>1. DOMAIN rows' = DOMAIN rows \union {work[w].id}
        /\ \A i \in DOMAIN rows' : rows'[i] = IF i = work[w].id THEN row ELSE rows[i]
    BY Zenon DEF Put
  <1> QED
    BY <1>1, Zenon DEF Has, RowsKept

\* The steps of one task that leave the lock with who holds it.
LEMMA StepSeats ==
    ASSUME BuilderInv, LockInv, SeatInv, NEW w \in Workers,
           \/ BuildEmpty(w) \/ RebuildRead(w) \/ RebuildExecute(w) \/ CollectBlobs(w) \/ AddPayload(w) \/ LoopRound(w)
    PROVE  LockInv' /\ SeatInv'
  <1> DEFINE id == work[w].id
             end == IF w \in Calls THEN "register" ELSE "round"
             row == rows[id]
  <1>1. Past(work[w]) /\ UNCHANGED <<stored, lock>> /\ LockOk(w, work[w], lock)
    BY Zenon DEF BuildEmpty, RebuildRead, RebuildExecute, CollectBlobs, AddPayload, LoopRound, Past, LockInv
  <1>2. stored \subseteq stored'
    BY <1>1, Zenon
  <1>3. ~InSlot(id, stored) => SeatOk(work[w], rows)
    BY <1>1, Zenon DEF SeatInv
  <1>4. ASSUME NEW pc, Turns(w, pc), pc \notin {"idle", "lock"}, RowsKept(w),
               w \in Loops => pc \notin {"empty", "register"},
               ~InSlot(id, stored) => SeatOk(work'[w], rows')
        PROVE  LockInv' /\ SeatInv'
    <2>1. Past(work'[w]) /\ work'[w].id = id /\ LockOk(w, work'[w], lock)
      BY <1>1, <1>4, Zenon DEF Turns, Past, LockOk
    <2>2. LockInv'
      BY <1>1, <1>4, <2>1, TurnLock, Zenon
    <2>3. \A o \in Workers : o # w => work'[o] = work[o]
      BY <1>4, Zenon DEF Turns
    <2>4. Past(work'[w]) /\ ~InSlot(work'[w].id, stored') => SeatOk(work'[w], rows')
      BY <1>1, <1>4, <2>1, Zenon
    <2>5. SeatInv'
      BY <1>1, <1>2, <1>4, <2>1, <2>3, <2>4, SeatKept, Zenon
    <2> QED
      BY <2>2, <2>5, Zenon
  <1>5. end \notin {"idle", "lock", "empty", "peek", "blobs", "add"} /\ (w \in Loops => end \notin {"empty", "register"})
    BY TasksAssumption
  <1>6. \A pc : pc \notin {"idle", "lock", "empty", "peek", "blobs", "add"} /\ Turns(w, pc) /\ Has(rows', id) => SeatOk(work'[w], rows')
    BY Zenon DEF SeatOk, Turns
  <1>7. work[w].pc # "empty" /\ ~InSlot(id, stored) => Has(rows, id)
    BY <1>3, Zenon DEF SeatOk
  <1>8. EndRebuild(w) => Turns(w, end)
    BY TurnEnd, Zenon
  <1> HIDE DEF end
  <1>9. ASSUME NEW pc, Turns(w, pc), UNCHANGED rows, pc \notin {"idle", "lock", "empty", "peek", "blobs", "add"},
               w \in Loops => pc \notin {"empty", "register"}, work[w].pc # "empty"
        PROVE  LockInv' /\ SeatInv'
    <2>1. ~InSlot(id, stored) => SeatOk(work'[w], rows')
      BY <1>6, <1>7, <1>9, Zenon
    <2>2. RowsKept(w) /\ pc \notin {"idle", "lock"}
      BY <1>9, SameRows, Zenon
    <2> QED
      BY <1>4, <1>9, <2>1, <2>2, Zenon
  <1>10. CASE BuildEmpty(w)
    <2> DEFINE new == [block |-> ExecuteForPayload(id, <<>>), bundle |-> <<>>]
    <2>1. rows' = Put(rows, id, new) /\ work' = [work EXCEPT ![w].pc = "read"]
      BY <1>10, Zenon DEF BuildEmpty
    <2> HIDE DEF new
    <2>2. Turns(w, "read") /\ RowsKept(w) /\ Has(rows', id)
      BY <1>1, <2>1, TurnPc, OwnRow, Zenon
    <2>3. SeatOk(work'[w], rows')
      BY <1>6, <2>2, Zenon
    <2> QED
      BY <1>4, <2>2, <2>3, Zenon
  <1>11. CASE RebuildRead(w)
    <2>1. /\ work[w].pc = "read" /\ work[w].pc # "empty" /\ UNCHANGED rows
          /\ EndRebuild(w) \/ work' = [work EXCEPT ![w].pc = "peek", ![w].old = row.block]
      BY <1>11, Zenon DEF RebuildRead
    <2>2. CASE EndRebuild(w)
      BY <1>5, <1>8, <1>9, <2>1, <2>2, Zenon
    <2>3. CASE work' = [work EXCEPT ![w].pc = "peek", ![w].old = row.block]
      <3>1. Turns(w, "peek") /\ work'[w].old = row.block
        BY <2>3, TurnOld, ZenonT(30)
      <3>2. ~InSlot(id, stored) => SeatOk(work'[w], rows')
        BY <1>7, <2>1, <3>1, Zenon DEF SeatOk, Turns
      <3> QED
        BY <1>4, <2>1, <3>1, <3>2, SameRows, Zenon
    <2> QED
      BY <2>1, <2>2, <2>3, Zenon
  <1>12. CASE RebuildExecute(w)
    <2> DEFINE fee == UnwrapOr(CalculateNextBaseFee(id.head.header), 0)
               new == ExecuteForPayload(id, PeekBest(pool, blobs, id.head.header.gasLimit, fee))
    <2>1. /\ work[w].pc = "peek" /\ work[w].pc # "empty" /\ UNCHANGED rows
          /\ \/ EndRebuild(w)
             \/ Better(new, work[w].old) /\ work' = [work EXCEPT ![w].pc = "blobs", ![w].new = new]
      BY <1>12, Zenon DEF RebuildExecute
    <2> HIDE DEF new
    <2>2. CASE EndRebuild(w)
      BY <1>5, <1>8, <1>9, <2>1, <2>2, Zenon
    <2>3. CASE Better(new, work[w].old) /\ work' = [work EXCEPT ![w].pc = "blobs", ![w].new = new]
      <3>1. Turns(w, "blobs") /\ work'[w].new = new
        BY <2>3, TurnNew, Zenon
      <3>2. Built(id, new)
        <4>1. BuilderInv'
          BY <1>12, ExecuteBuilder, Zenon
        <4>2. TaskOk(work'[w], stored')
          BY <4>1, Zenon DEF BuilderInv, Workers
        <4> QED
          BY <3>1, <4>2, Zenon DEF TaskOk, Turns
      <3>3. ASSUME ~InSlot(id, stored) PROVE SeatOk(work'[w], rows')
        <4>1. Has(rows, id) /\ work[w].old = row.block
          BY <1>3, <1>7, <2>1, <3>3, Zenon DEF SeatOk
        <4>2. Built(id, row.block)
          BY <4>1, Zenon DEF Has, BuilderInv, RowOk
        <4>3. BlockValue(new) >= BlockValue(row.block)
          <5>1. /\ BlockValue(new) \in Nat /\ BlockValue(row.block) \in Nat
                /\ row.block.txs = <<>> => BlockValue(row.block) = 0
            BY <3>2, <4>2, Zenon DEF Built
          <5>2. \/ BlockValue(new) > BlockValue(row.block) \/ BlockValue(new) = BlockValue(row.block)
                \/ row.block.txs = <<>>
            <6>1. Better(new, row.block)
              BY <2>3, <4>1, Zenon
            <6> QED
              BY <6>1, Zenon DEF Better
          <5> QED
            BY <5>1, <5>2
        <4> QED
          BY <2>1, <3>1, <4>1, <4>3, Zenon DEF SeatOk, Turns
      <3> QED
        BY <1>4, <2>1, <3>1, <3>3, SameRows, Zenon
    <2> QED
      BY <2>1, <2>2, <2>3, Zenon
  <1>13. CASE CollectBlobs(w)
    <2> DEFINE bundle == BlobsOf(work[w].new.txs)
    <2>1. /\ work[w].pc = "blobs" /\ work[w].pc # "empty" /\ UNCHANGED rows
          /\ EndRebuild(w) \/ work' = [work EXCEPT ![w].pc = "add", ![w].old = bundle]
      BY <1>13, Zenon DEF CollectBlobs
    <2>2. CASE EndRebuild(w)
      BY <1>5, <1>8, <1>9, <2>1, <2>2, Zenon
    <2>3. CASE work' = [work EXCEPT ![w].pc = "add", ![w].old = bundle]
      <3>1. Turns(w, "add") /\ work'[w].new = work[w].new
        BY <2>3, TurnOld, Zenon
      <3>2. ~InSlot(id, stored) => SeatOk(work'[w], rows')
        BY <1>3, <2>1, <3>1, Zenon DEF SeatOk, Turns
      <3> QED
        BY <1>4, <2>1, <3>1, <3>2, SameRows, Zenon
    <2> QED
      BY <2>1, <2>2, <2>3, Zenon
  <1>14. CASE AddPayload(w)
    <2> DEFINE new == [block |-> work[w].new, bundle |-> work[w].old]
    <2>1. rows' = Put(rows, id, new) /\ EndRebuild(w)
      BY <1>14, Zenon DEF AddPayload
    <2> HIDE DEF new
    <2>2. Turns(w, end) /\ RowsKept(w) /\ Has(rows', id)
      BY <1>1, <1>8, <2>1, OwnRow, Zenon
    <2>3. SeatOk(work'[w], rows')
      BY <1>5, <1>6, <2>2, Zenon
    <2> QED
      BY <1>4, <1>5, <2>2, <2>3, Zenon
  <1>15. CASE LoopRound(w)
    <2>1. /\ work[w].pc = "round" /\ work[w].pc # "empty" /\ UNCHANGED rows
          /\ \/ work' = [work EXCEPT ![w].pc = "read", ![w].rounds = work[w].rounds + 1]
             \/ work' = [work EXCEPT ![w].pc = "cleanup"]
      BY <1>15, Zenon DEF LoopRound
    <2>2. CASE work' = [work EXCEPT ![w].pc = "read", ![w].rounds = work[w].rounds + 1]
      <3>1. Turns(w, "read")
        BY <2>2, TurnRound, Zenon
      <3> QED
        BY <1>9, <2>1, <3>1, Zenon
    <2>3. CASE work' = [work EXCEPT ![w].pc = "cleanup"]
      <3>1. Turns(w, "cleanup")
        BY <2>3, TurnPc, Zenon
      <3> QED
        BY <1>9, <2>1, <3>1, Zenon
    <2> QED
      BY <2>1, <2>2, <2>3, Zenon
  <1> QED
    BY <1>10, <1>11, <1>12, <1>13, <1>14, <1>15, Zenon

\* The lock is taken by a call whose id has no row, and so no builder.
LEMMA LockSeats ==
    ASSUME BuilderInv, LockInv, SeatInv, NEW w \in Workers, AcquireLock(w)
    PROVE  LockInv' /\ SeatInv'
  <1> DEFINE id == work[w].id
  <1>1. /\ work[w].pc = "lock" /\ lock = None /\ UNCHANGED <<rows, stored>>
        /\ \/ work' = [work EXCEPT ![w] = Idle] /\ UNCHANGED lock
           \/ ~Has(rows, id) /\ work' = [work EXCEPT ![w].pc = "empty"] /\ lock' = w
    BY Zenon DEF AcquireLock, Return
  <1>2. w \in Calls /\ w \notin Loops
    BY <1>1, TasksAssumption, Zenon DEF LockInv, LockOk, Workers
  <1>3. \A o \in Workers : ~(o \in Calls /\ Past(work[o]))
    BY <1>1, TasksAssumption, Zenon DEF LockInv, LockOk
  <1>4. stored \subseteq stored' /\ RowsKept(w)
    BY <1>1, SameRows, Zenon
  <1>5. CASE work' = [work EXCEPT ![w] = Idle] /\ UNCHANGED lock
    <2>1. ~Past(work'[w]) /\ \A o \in Workers : o # w => work'[o] = work[o]
      BY <1>5, IdleTask, Zenon DEF BuilderInv, Past
    <2>2. SeatInv'
      BY <1>4, <2>1, SeatKept, Zenon
    <2>3. \A o \in Workers : LockOk(o, work'[o], lock)
      BY <1>2, <2>1, Zenon DEF LockInv, LockOk
    <2> QED
      BY <1>5, <2>2, <2>3, Zenon DEF LockInv, Workers
  <1>6. CASE ~Has(rows, id) /\ work' = [work EXCEPT ![w].pc = "empty"] /\ lock' = w
    <2>1. Turns(w, "empty")
      BY <1>6, TurnPc, Zenon
    <2>2. \A o \in Workers : o # w => work'[o] = work[o]
      BY <2>1, Zenon DEF Turns
    <2>3. work'[w].pc = "empty" /\ work'[w].id = id
      BY <2>1, Zenon DEF Turns
    <2>4. \A o \in Workers : LockOk(o, work'[o], lock')
      <3>1. LockOk(w, work'[w], lock')
        BY <1>2, <1>6, <2>3, Zenon DEF LockOk
      <3>2. \A o \in Workers : o # w => LockOk(o, work'[o], lock')
        BY <1>3, <2>2, Zenon DEF LockInv, LockOk
      <3> QED
        BY <3>1, <3>2, Zenon
    <2>5. ASSUME NEW o \in Workers, Past(work[o]), work[o].id = id, ~InSlot(id, stored) PROVE FALSE
      <3>1. SeatOk(work[o], rows)
        BY <2>5, Zenon DEF SeatInv
      <3>2. work[o].pc = "empty"
        BY <1>6, <2>5, <3>1, Zenon DEF SeatOk
      <3>3. o \in Calls
        BY <3>2, Zenon DEF LockInv, LockOk, Workers
      <3> QED
        BY <1>3, <2>5, <3>3, Zenon
    <2>6. ASSUME NEW o \in Workers, Past(work'[o]), ~InSlot(work'[o].id, stored)
          PROVE  SeatOk(work'[o], rows) /\ \A x \in Workers : Past(work'[x]) /\ work'[x].id = work'[o].id => x = o
      <3>1. CASE o = w
        <4>1. SeatOk(work'[w], rows)
          BY <1>6, <2>3, Zenon DEF SeatOk
        <4> QED
          BY <2>2, <2>3, <2>5, <2>6, <3>1, <4>1, Zenon
      <3>2. CASE o # w
        <4>1. work'[o] = work[o]
          BY <2>2, <3>2, Zenon
        <4>2. SeatOk(work[o], rows) /\ \A x \in Workers : Past(work[x]) /\ work[x].id = work[o].id => x = o
          BY <2>6, <4>1, Zenon DEF SeatInv, Alone
        <4>3. work[o].id # id
          BY <2>5, <2>6, <4>1, Zenon
        <4> QED
          BY <2>2, <2>3, <4>1, <4>2, <4>3, Zenon
      <3> QED
        BY <3>1, <3>2, Zenon
    <2> QED
      BY <1>1, <2>4, <2>6, Zenon DEF LockInv, SeatInv, Alone, Workers
  <1> QED
    BY <1>1, <1>5, <1>6, Zenon

\* The loop takes the seat of the call that spawns it.
LEMMA SpawnSeats ==
    ASSUME BuilderInv, LockInv, SeatInv, NEW w \in Workers, NEW l \in Free(Loops), SpawnLoop(w, l)
    PROVE  LockInv' /\ SeatInv'
  <1> DEFINE id == work[w].id
             v == [Idle EXCEPT !.pc = "round", !.id = id]
  <1>1. /\ work[w].pc = "register" /\ UNCHANGED <<rows, stored>> /\ lock' = None
        /\ work' = [[work EXCEPT ![w] = Idle] EXCEPT ![l] = v]
    BY Zenon DEF SpawnLoop
  <1>2. l \in Loops /\ l \in Workers /\ work[l].pc = "idle" /\ l # w
    BY <1>1, Zenon DEF Free, Workers
  <1>3. v.pc = "round" /\ v.id = id
    BY DEF Idle
  <1> HIDE DEF v
  <1>4. \A o \in Workers : work'[o] = IF o = l THEN v ELSE IF o = w THEN Idle ELSE work[o]
    BY <1>1, <1>2, Zenon DEF BuilderInv
  <1>5. w \in Calls /\ lock = w /\ Past(work[w])
    BY <1>1, Zenon DEF LockInv, LockOk, Workers, Past
  <1>6. ~Past(Idle) /\ Past(v) /\ v.pc \notin {"lock", "empty", "register"} /\ Idle.pc \notin {"lock", "empty", "register"}
    BY <1>3, IdleTask DEF Past
  <1>7. \A o \in Workers : LockOk(o, work'[o], lock')
    <2> SUFFICES ASSUME NEW o \in Workers PROVE LockOk(o, work'[o], lock')
      BY Zenon
    <2>1. CASE o = l
      BY <1>2, <1>4, <1>6, <2>1, TasksAssumption, Zenon DEF LockOk
    <2>2. CASE o = w
      BY <1>2, <1>4, <1>6, <2>2, Zenon DEF LockOk
    <2>3. CASE o # l /\ o # w
      <3>1. work'[o] = work[o] /\ LockOk(o, work[o], lock)
        BY <1>4, <2>3, Zenon DEF LockInv
      <3> QED
        BY <1>5, <2>3, <3>1, Zenon DEF LockOk
    <2> QED
      BY <2>1, <2>2, <2>3, Zenon
  <1>8. ASSUME NEW o \in Workers, Past(work'[o]), ~InSlot(work'[o].id, stored)
        PROVE  SeatOk(work'[o], rows) /\ \A x \in Workers : Past(work'[x]) /\ work'[x].id = work'[o].id => x = o
    <2>1. CASE o = l
      <3>1. work'[o] = v /\ ~InSlot(id, stored)
        BY <1>3, <1>4, <1>8, <2>1, Zenon
      <3>2. SeatOk(work[w], rows) /\ \A x \in Workers : Past(work[x]) /\ work[x].id = id => x = w
        BY <1>5, <3>1, Zenon DEF SeatInv, Alone
      <3>3. Has(rows, id)
        BY <1>1, <3>2, Zenon DEF SeatOk
      <3>4. SeatOk(v, rows)
        BY <1>3, <3>3, Zenon DEF SeatOk
      <3>5. \A x \in Workers : Past(work'[x]) /\ work'[x].id = id => x = l
        BY <1>4, <1>6, <3>2, Zenon
      <3> QED
        BY <1>3, <2>1, <3>1, <3>4, <3>5, Zenon
    <2>2. CASE o # l
      <3>1. o # w /\ work'[o] = work[o]
        BY <1>4, <1>6, <1>8, <2>2, Zenon
      <3>2. SeatOk(work[o], rows) /\ \A x \in Workers : Past(work[x]) /\ work[x].id = work[o].id => x = o
        BY <1>8, <3>1, Zenon DEF SeatInv, Alone
      <3>3. work[o].id # id
        BY <1>5, <3>1, <3>2, Zenon
      <3> QED
        BY <1>3, <1>4, <1>6, <3>1, <3>2, <3>3, Zenon
    <2> QED
      BY <2>1, <2>2, Zenon
  <1>9. LockInv'
    BY <1>7, Zenon DEF LockInv, Workers
  <1>10. SeatInv'
    <2>1. rows' = rows /\ stored' = stored
      BY <1>1, Zenon
    <2> QED
      BY <1>8, <2>1, Zenon DEF SeatInv, Alone, Workers
  <1> QED
    BY <1>9, <1>10, Zenon

\* An import takes away only rows whose slot is over with it.
LEMMA ImportSeats ==
    ASSUME BuilderInv, LockInv, SeatInv, NEW i \in DOMAIN rows, Import(i)
    PROVE  /\ LockInv' /\ SeatInv'
           /\ \A id \in DOMAIN rows : ~InSlot(id, stored') => Has(rows', id) /\ rows'[id] = rows[id]
  <1> DEFINE block == rows[i].block
             gone == {x \in DOMAIN rows : rows[x].block = block}
  <1>1. stored' = stored \union {block} /\ rows' = Without(rows, gone) /\ UNCHANGED <<work, lock>>
    BY Zenon DEF Import
  <1>2. DOMAIN rows' = DOMAIN rows \ gone /\ \A x \in DOMAIN rows' : rows'[x] = rows[x]
    BY <1>1, Zenon DEF Without
  <1>3. ASSUME NEW id \in DOMAIN rows, ~InSlot(id, stored') PROVE Has(rows', id) /\ rows'[id] = rows[id]
    <2>1. Built(id, rows[id].block)
      BY <1>3, Zenon DEF BuilderInv, RowOk
    <2>2. rows[id].block # block
      BY <1>1, <1>3, <2>1, Zenon DEF Built, InSlot
    <2> QED
      BY <1>2, <1>3, <2>2, Zenon DEF Has
  <1>4. \A id : Has(rows', id) => Has(rows, id)
    BY <1>2, Zenon DEF Has
  <1>5. stored \subseteq stored'
    BY <1>1, Zenon
  <1>6. ASSUME NEW w \in Workers, Past(work[w]), ~InSlot(work[w].id, stored')
        PROVE  SeatOk(work[w], rows') /\ \A o \in Workers : Past(work[o]) /\ work[o].id = work[w].id => o = w
    <2>1. ~InSlot(work[w].id, stored)
      BY <1>5, <1>6, SlotStays, Zenon
    <2>2. SeatOk(work[w], rows) /\ \A o \in Workers : Past(work[o]) /\ work[o].id = work[w].id => o = w
      BY <1>6, <2>1, Zenon DEF SeatInv, Alone
    <2>3. /\ Has(rows', work[w].id) <=> Has(rows, work[w].id)
          /\ Has(rows, work[w].id) => rows'[work[w].id] = rows[work[w].id]
      BY <1>3, <1>4, <1>6, Zenon DEF Has
    <2> QED
      BY <2>2, <2>3, RowKept, Zenon
  <1>7. SeatInv'
    BY <1>1, <1>6, Zenon DEF SeatInv, Alone, Workers
  <1>8. LockInv'
    BY <1>1, Zenon DEF LockInv, Workers
  <1> QED
    BY <1>3, <1>7, <1>8, Zenon

\* Every step of the node keeps the lock and the seats.
LEMMA NextSeats == BuilderInv /\ LockInv /\ SeatInv /\ [Next]_vars => LockInv' /\ SeatInv'
  <1> SUFFICES ASSUME BuilderInv, LockInv, SeatInv, [Next]_vars PROVE LockInv' /\ SeatInv'
    BY Zenon
  <1>1. ASSUME NEW w \in Workers, NEW v, ~Past(v), w \in Loops => v.pc # "lock", work' = [work EXCEPT ![w] = v],
               UNCHANGED <<rows, stored, lock>>
        PROVE  LockInv' /\ SeatInv'
    <2>1. \A o \in Workers : work'[o] = IF o = w THEN v ELSE work[o]
      BY <1>1, Zenon DEF BuilderInv
    <2>2. stored \subseteq stored' /\ RowsKept(w)
      BY <1>1, SameRows, Zenon
    <2>3. work'[w] = v /\ ~Past(work'[w]) /\ \A o \in Workers : o # w => work'[o] = work[o]
      BY <1>1, <2>1, Zenon
    <2>4. SeatInv'
      BY <2>2, <2>3, SeatKept, Zenon
    <2>5. LockOk(w, v, lock)
      BY <1>1, Zenon DEF LockOk, Past
    <2>6. \A o \in Workers : LockOk(o, work'[o], lock)
      BY <2>1, <2>5, Zenon DEF LockInv
    <2> QED
      BY <1>1, <2>4, <2>6, Zenon DEF LockInv, Workers
  <1>2. ASSUME UNCHANGED <<rows, stored, lock, work>> PROVE LockInv' /\ SeatInv'
    BY <1>2, Zenon DEF LockInv, SeatInv, Alone, Workers
  <1>3. CASE \E c \in Free(Calls), b \in stored, attr \in Attrs : ForkchoiceUpdated(c, b, attr)
    <2>1. PICK c \in Free(Calls), b \in stored, attr \in Attrs : ForkchoiceUpdated(c, b, attr)
      BY <1>3, Zenon
    <2> DEFINE v == [Idle EXCEPT !.pc = "lock", !.id = [head |-> b, attr |-> attr]]
    <2>2. UNCHANGED <<rows, stored, lock>> /\ (UNCHANGED work \/ work' = [work EXCEPT ![c] = v])
      BY <2>1, Zenon DEF ForkchoiceUpdated
    <2>3. c \in Workers /\ c \notin Loops
      BY TasksAssumption, Zenon DEF Free, Workers
    <2>4. v.pc = "lock"
      BY DEF Idle
    <2> HIDE DEF v
    <2>5. ~Past(v)
      BY <2>4, Zenon DEF Past
    <2> QED
      BY <1>1, <1>2, <2>2, <2>3, <2>5, Zenon
  <1>4. CASE \E w \in Workers : Step(w)
    <2>1. PICK w \in Workers : Step(w)
      BY <1>4, Zenon
    <2>2. CASE Cleanup(w)
      <3>1. work' = [work EXCEPT ![w] = Idle] /\ UNCHANGED <<rows, stored, lock>>
        BY <2>2, Zenon DEF Cleanup
      <3>2. ~Past(Idle) /\ Idle.pc # "lock"
        BY IdleTask, Zenon DEF Past
      <3> QED
        BY <1>1, <3>1, <3>2, Zenon
    <2> QED
      BY <2>1, <2>2, LockSeats, SpawnSeats, StepSeats, Zenon DEF Step
  <1>5. CASE \E id \in DOMAIN rows : Import(id)
    BY <1>5, ImportSeats, Zenon
  <1>6. CASE \/ \E tx \in Txs : Submit(tx)
             \/ DropStale
             \/ \E s \in Senders : \E i \in DOMAIN pool[s] : Evict(s, i)
             \/ UNCHANGED vars
    <2>1. UNCHANGED <<rows, stored, lock, work>>
      BY <1>6, Zenon DEF Submit, DropStale, Evict, vars
    <2> QED
      BY <1>2, <2>1, Zenon
  <1> QED
    BY <1>3, <1>4, <1>5, <1>6, Zenon DEF Next

\* An id has one builder at a time.
LEMMA OneBuilder == Spec => [](BuilderInv /\ LockInv /\ SeatInv)
  <1>1. Init => LockInv /\ SeatInv
    <2> SUFFICES ASSUME Init PROVE LockInv /\ SeatInv
      BY Zenon
    <2>1. \A w \in Workers : work[w].pc = "idle"
      BY IdleTask, Zenon DEF Init
    <2> QED
      BY <2>1, Zenon DEF LockInv, LockOk, SeatInv, Past
  <1>2. Spec => []BuilderInv
    BY RowsBuilt
  <1> QED
    BY <1>1, <1>2, NextSeats, PTL DEF Spec

\* A row once written stays until a block of its slot is imported, and is never worth less:
\* under every interleaving of calls, loops and imports no rebuild that started from an older
\* block is stored over a better one.
THEOREM PayloadValueNeverFalls == Spec => ValueNeverFalls
  <1> DEFINE A == \A id \in DOMAIN rows : ~ImportedFrom(id)' =>
                     Has(rows', id) /\ BlockValue(rows'[id].block) >= BlockValue(rows[id].block)
  <1>1. ASSUME BuilderInv, LockInv, SeatInv, [Next]_vars PROVE A
    <2> SUFFICES ASSUME NEW id \in DOMAIN rows, ~InSlot(id, stored')
                 PROVE  Has(rows', id) /\ BlockValue(rows'[id].block) >= BlockValue(rows[id].block)
      BY Zenon DEF ImportedFrom, InSlot
    <2>1. BlockValue(rows[id].block) \in Nat
      BY <1>1, Zenon DEF BuilderInv, RowOk, Built
    <2>2. BlockValue(rows[id].block) >= BlockValue(rows[id].block)
      BY <2>1
    <2>3. ASSUME Has(rows', id), rows'[id] = rows[id]
          PROVE  Has(rows', id) /\ BlockValue(rows'[id].block) >= BlockValue(rows[id].block)
      BY <2>2, <2>3, Zenon
    <2>4. CASE \E i \in DOMAIN rows : Import(i)
      BY <1>1, <2>3, <2>4, ImportSeats, Zenon
    <2>5. CASE \E w \in Workers : BuildEmpty(w)
      <3>1. PICK w \in Workers : BuildEmpty(w)
        BY <2>5, Zenon
      <3>2. PICK row : rows' = Put(rows, work[w].id, row)
        BY <3>1, Zenon DEF BuildEmpty
      <3>3. work[w].pc = "empty" /\ Past(work[w]) /\ stored' = stored
        BY <3>1, Zenon DEF BuildEmpty, Past
      <3>4. work[w].id # id
        BY <1>1, <3>3, Zenon DEF SeatInv, SeatOk, Has
      <3> QED
        BY <2>3, <3>2, <3>4, Zenon DEF Put, Has
    <2>6. CASE \E w \in Workers : AddPayload(w)
      <3>1. PICK w \in Workers : AddPayload(w)
        BY <2>6, Zenon
      <3> DEFINE row == [block |-> work[w].new, bundle |-> work[w].old]
      <3>2. rows' = Put(rows, work[w].id, row) /\ work[w].pc = "add" /\ Past(work[w]) /\ stored' = stored
        BY <3>1, Zenon DEF AddPayload, Past
      <3>3. row.block = work[w].new
        BY Zenon
      <3> HIDE DEF row
      <3>4. DOMAIN rows' = DOMAIN rows \union {work[w].id}
            /\ \A i \in DOMAIN rows' : rows'[i] = IF i = work[w].id THEN row ELSE rows[i]
        BY <3>2, Zenon DEF Put
      <3>5. Has(rows', id)
        BY <3>4, Zenon DEF Has
      <3>6. CASE id = work[w].id
        <4>1. BlockValue(work[w].new) >= BlockValue(rows[id].block)
          BY <1>1, <3>2, <3>6, Zenon DEF SeatInv, SeatOk
        <4>2. rows'[id].block = work[w].new
          BY <3>3, <3>4, <3>6, Zenon
        <4> QED
          BY <3>5, <4>1, <4>2, Zenon
      <3>7. CASE id # work[w].id
        BY <2>3, <3>4, <3>5, <3>7, Zenon
      <3> QED
        BY <3>6, <3>7, Zenon
    <2>7. CASE UNCHANGED rows
      BY <2>3, <2>7, Zenon DEF Has
    <2>8. UNCHANGED rows \/ (\E i \in DOMAIN rows : Import(i)) \/ \E w \in Workers : BuildEmpty(w) \/ AddPayload(w)
      BY <1>1, Zenon DEF Next, vars, ForkchoiceUpdated, Step, AcquireLock, RebuildRead, RebuildExecute,
        CollectBlobs, SpawnLoop, LoopRound, Cleanup, Submit, DropStale, Evict
    <2> QED
      BY <2>4, <2>5, <2>6, <2>7, <2>8, Zenon
  <1>2. BuilderInv /\ LockInv /\ SeatInv /\ [Next]_vars => [A]_vars
    BY <1>1, Zenon
  <1> QED
    BY <1>2, OneBuilder, PTL DEF Spec, ValueNeverFalls

\* What engine_getPayload hands out of a row comes back unchanged, by every version that
\* serves it and takes it, and there is one: for every row the builder writes and every
\* fork schedule by which the block is one from Paris on.
THEOREM PayloadsReturn == Spec => HandedOutReturns
  <1> DEFINE A == \A id \in DOMAIN rows' : ~(Has(rows, id) /\ rows[id] = rows'[id]) =>
                     \A config \in Schedules :
                         ForkOf(Payload(id, rows'[id], config).header, config) >= Paris =>
                             Returns(id, rows'[id], config)
  <1>1. ASSUME BuilderInv' PROVE A
    <2> SUFFICES ASSUME NEW id \in DOMAIN rows', NEW config \in Schedules,
                        ForkOf(Payload(id, rows'[id], config).header, config) >= Paris
                 PROVE  Returns(id, rows'[id], config)
      BY Zenon
    <2> DEFINE row == rows'[id]
    <2>1. RowOk(id, row, stored') /\ \A b \in stored' : HeaderOk(b.header)
      BY <1>1, Zenon DEF BuilderInv
    <2>2. HeaderOk(id.head.header) /\ HeaderOk(row.block.header)
      BY <2>1, Zenon DEF RowOk, Built
    <2>3. row.block.header.blobGas \in Nat \cup {None}
      BY <2>2 DEF HeaderOk
    <2> HIDE DEF row
    <2>4. ForkOf(Payload(id, row, config).header, config) >= Paris
      BY Zenon DEF row
    <2>5. Returns(id, row, config)
      BY <2>2, <2>3, <2>4, RoundTrip, Zenon
    <2> QED
      BY <2>5, Zenon DEF row
  <1>2. BuilderInv /\ [Next]_vars => [A]_vars
    BY <1>1, NextBuilder, Zenon
  <1> QED
    BY <1>2, RowsBuilt, PTL DEF Spec, HandedOutReturns

=============================================================================
