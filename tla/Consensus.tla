----------------------------- MODULE Consensus -----------------------------
(* EthConsensus: the base fee rule, header and body validation, with the   *)
(* fork schedule of wasix_eth_types, and the header that                   *)
(* execute_block_for_payload prepares for a payload.                       *)
(*                                                                         *)
(* A root is modelled by what it is the root of (0 for no withdrawals).  An Option is None or *)
(* the value.  Forks are numbers in the order of the Hardfork enum.        *)
EXTENDS Integers

CONSTANTS
    None,
    DataGasPerBlob,
    TargetBlobGas,   \* of the fork's blob parameters
    MaxBlobGas,
    U64              \* 2^64: the width of a fee

ASSUME NoneAssumption == None \notin Int
ASSUME BlobAssumption == DataGasPerBlob \in Nat /\ TargetBlobGas \in Nat /\ MaxBlobGas \in Nat
ASSUME WidthAssumption == U64 \in Nat \ {0}

Frontier == 0
London == 1
Paris == 2
Shanghai == 3
Cancun == 4
Prague == 5

\* ---------------------------------------------------------- fork schedule

\* A schedule is a set of entries [time, at, fork]; block entries come before
\* timestamp entries, then the lower value; of equal ones the later fork.
Before(e, f) ==
    \/ ~e.time /\ f.time
    \/ e.time = f.time /\ (e.at < f.at \/ (e.at = f.at /\ e.fork <= f.fork))

Active(e, number, timestamp) == e.at <= (IF e.time THEN timestamp ELSE number)

\* The entries before the first inactive one.
ActivePrefix(config, number, timestamp) ==
    {e \in config.forks : \A f \in config.forks : Before(f, e) => Active(f, number, timestamp)}

\* get_active_fork_with_total_difficulty.
ActiveFork(config, number, timestamp, td) ==
    LET prefix == ActivePrefix(config, number, timestamp)
        last == CHOOSE e \in prefix : \A f \in prefix : Before(f, e)
        fork == IF prefix = {} THEN Frontier ELSE last.fork
    IN IF fork < Paris /\ config.ttd # None /\ td # None /\ td >= config.ttd THEN Paris ELSE fork

\* --------------------------------------------------------------- fee rules

Larger(m, n) == IF m >= n THEN m ELSE n
Minus(m, n) == IF m >= n THEN m - n ELSE 0
UnwrapOr(x, d) == IF x = None THEN d ELSE x

\* calculate_next_base_fee on the parent's fee, gas used and gas limit.
NextBaseFee(fee, used, limit) ==
    LET target == limit \div 2
    IN CASE used = target -> fee
         [] used > target ->
              (fee + Larger((((fee * (used - target)) \div target) \div 8) % U64, 1)) % U64
         [] used < target -> Minus(fee, (((fee * (target - used)) \div target) \div 8) % U64)

CalculateNextBaseFee(parent) ==
    IF parent.baseFee = None THEN None
    ELSE NextBaseFee(parent.baseFee, parent.gasUsed, parent.gasLimit)

\* calc_excess_blob_gas.
ExcessBlobGas(excess, used, target) ==
    Minus(UnwrapOr(excess, 0) + UnwrapOr(used, 0), target)

\* -------------------------------------------------------------- validation

GasLimitOk(header, parent, transition) ==
    LET target == IF transition THEN parent.gasLimit * 2 ELSE parent.gasLimit
        diff == IF header.gasLimit > target THEN header.gasLimit - target
                ELSE target - header.gasLimit
    IN header.gasLimit >= 5000 /\ diff < target \div 1024

BlobFieldsOk(header, parent, parentFork, fork) ==
    IF fork < Cancun
    THEN header.blobGas = None /\ header.excessBlobGas = None /\ header.beaconRoot = None
    ELSE /\ header.blobGas # None /\ header.excessBlobGas # None /\ header.beaconRoot # None
         /\ header.excessBlobGas =
              IF parentFork >= Cancun
              THEN ExcessBlobGas(parent.excessBlobGas, parent.blobGas, TargetBlobGas) ELSE 0
         /\ header.blobGas <= MaxBlobGas

\* validate_header; now is the wall clock, td the parent's total difficulty.
ValidateHeader(header, parent, config, td, now) ==
    LET parentFork == ActiveFork(config, parent.number, parent.timestamp, td)
        fork == ActiveFork(config, header.number, header.timestamp, td)
        expected == CalculateNextBaseFee(parent)
    IN /\ header.number = parent.number + 1
       /\ header.timestamp > parent.timestamp /\ header.timestamp <= now + 15
       /\ GasLimitOk(header, parent, parentFork < London /\ fork >= London)
       /\ header.gasUsed <= header.gasLimit
       /\ header.extra <= 32
       /\ fork >= London =>
            header.baseFee # None /\ (expected # None => header.baseFee = expected)
       /\ fork >= Paris => header.difficulty = 0 /\ header.nonce = 0 /\ header.ommers = {}
       /\ (header.withdrawalsRoot # None) = (fork >= Shanghai)
       /\ BlobFieldsOk(header, parent, parentFork, fork)
       /\ (header.requestsHash # None) = (fork >= Prague)

\* validate_body on header and body; blobGas is that of the body's blobs.
ValidateBody(header, body, blobGas, fork) ==
    /\ header.txRoot = body.txs
    /\ header.ommers = body.ommers
    /\ header.withdrawalsRoot = body.withdrawals
    /\ UnwrapOr(header.blobGas, 0) = blobGas
    /\ body.setCode => fork >= Prague

\* fork_validation of the payload attributes of a forkchoiceUpdated call: the
\* fork is looked up at block number 0.
AttributesValid(version, attr, config) ==
    LET fork == ActiveFork(config, 0, attr.timestamp, None)
    IN /\ (version >= 3) = (fork >= Cancun)
       /\ (attr.withdrawals # None) = (fork >= Shanghai)
       /\ (attr.beaconRoot # None) = (fork >= Cancun)

\* ------------------------------------------- header of a payload being built

\* execute_block_for_payload up to the execution, with the fields the
\* execution fills in (finalize_block_header_with_requests).  It looks the
\* fork up without a total difficulty.
PayloadHeader(parent, attr, config, blobGas, gasUsed, txs, root) ==
    LET number == parent.number + 1
        fork == ActiveFork(config, number, attr.timestamp, None)
    IN [number          |-> number,
        timestamp       |-> attr.timestamp,
        gasLimit        |-> parent.gasLimit,
        gasUsed         |-> gasUsed,
        extra           |-> 0,
        baseFee         |-> CalculateNextBaseFee(parent),
        difficulty      |-> IF fork >= Paris THEN 0 ELSE parent.difficulty,
        nonce           |-> IF fork >= Paris THEN 0 ELSE 66,
        ommers          |-> {},
        withdrawalsRoot |-> IF fork >= Shanghai THEN UnwrapOr(attr.withdrawals, 0) ELSE None,
        blobGas         |-> IF fork >= Cancun THEN blobGas ELSE None,
        excessBlobGas   |-> IF fork >= Cancun
                            THEN ExcessBlobGas(parent.excessBlobGas, parent.blobGas, TargetBlobGas)
                            ELSE None,
        beaconRoot      |-> IF fork >= Cancun THEN UnwrapOr(attr.beaconRoot, 0) ELSE None,
        requestsHash    |-> None,
        txRoot          |-> txs,
        stateRoot       |-> root]
=============================================================================
