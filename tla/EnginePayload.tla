--------------------------- MODULE EnginePayload ---------------------------
(* engine_getPayloadV1..V4 and engine_newPayloadV1..V4: the conversions of *)
(* EngineMapper between a block and the payload of a version, and the      *)
(* versions the engine accepts for the fork of a block.                    *)
(*                                                                         *)
(* A block is its header, txs and withdrawals; the beacon root travels as  *)
(* an argument of newPayload, beside the payload.                          *)
EXTENDS Consensus

ForkOf(header, config) == ActiveFork(config, header.number, header.timestamp, None)

\* to_execution_payload_v1..v4: the fields a payload has, hash included.
ToExecutionPayload(block, config) ==
    LET header == block.header
    IN [number        |-> header.number,
        timestamp     |-> header.timestamp,
        gasLimit      |-> header.gasLimit,
        gasUsed       |-> header.gasUsed,
        extra         |-> header.extra,
        stateRoot     |-> header.stateRoot,
        baseFee       |-> IF ForkOf(header, config) >= London THEN UnwrapOr(header.baseFee, 0) ELSE 0,
        blobGas       |-> UnwrapOr(header.blobGas, 0),
        excessBlobGas |-> UnwrapOr(header.excessBlobGas, 0),
        withdrawals   |-> block.withdrawals,
        txs           |-> block.txs,
        hash          |-> header]

\* The forks get_payload_v1..v4 serve.
Serves(version, fork) == (version <= 2 => fork < Cancun) /\ (version = 3 => fork >= Cancun)

\* get_payload_v1..v4 on the block of the id; None is UnsupportedFork.  V1, and
\* V2 before Shanghai, have no withdrawals.
GetPayload(version, block, config) ==
    LET fork == ForkOf(block.header, config)
        payload == ToExecutionPayload(block, config)
    IN IF ~Serves(version, fork) THEN None
       ELSE IF version = 1 \/ (version = 2 /\ fork < Shanghai)
       THEN [payload EXCEPT !.withdrawals = None]
       ELSE payload

\* Mutant: the blob fields start one fork late.
PayloadToBlockLate(p, withdrawals, blobGas, excessBlobGas, beaconRoot, config) ==
    LET fork == ActiveFork(config, p.number, p.timestamp, None)
    IN [header |->
          [number |-> p.number, timestamp |-> p.timestamp, gasLimit |-> p.gasLimit,
           gasUsed |-> p.gasUsed, extra |-> p.extra, baseFee |-> p.baseFee,
           difficulty |-> 0, nonce |-> 0, ommers |-> {},
           withdrawalsRoot |-> IF fork >= Shanghai THEN UnwrapOr(withdrawals, 0) ELSE None,
           blobGas |-> IF fork >= Prague THEN UnwrapOr(blobGas, 0) ELSE None,
           excessBlobGas |-> IF fork >= Prague THEN UnwrapOr(excessBlobGas, 0) ELSE None,
           beaconRoot |-> IF fork >= Prague THEN UnwrapOr(beaconRoot, 0) ELSE None,
           requestsHash |-> None, txRoot |-> p.txs, stateRoot |-> p.stateRoot],
        txs |-> p.txs, withdrawals |-> IF fork >= Shanghai THEN UnwrapOr(withdrawals, 0) ELSE None]

\* payload_v1_to_block; 196608 is the difficulty 0x30000.
PayloadToBlock(p, withdrawals, blobGas, excessBlobGas, beaconRoot, config) ==
    LET fork == ActiveFork(config, p.number, p.timestamp, None)
        From(f, value) == IF fork >= f THEN value ELSE None
    IN [header |->
          [number          |-> p.number,
           timestamp       |-> p.timestamp,
           gasLimit        |-> p.gasLimit,
           gasUsed         |-> p.gasUsed,
           extra           |-> p.extra,
           baseFee         |-> From(London, p.baseFee),
           difficulty      |-> IF fork >= Paris THEN 0 ELSE 196608,
           nonce           |-> IF fork >= Paris THEN 0 ELSE 66,
           ommers          |-> {},
           withdrawalsRoot |-> From(Shanghai, UnwrapOr(withdrawals, 0)),
           blobGas         |-> From(Cancun, UnwrapOr(blobGas, 0)),
           excessBlobGas   |-> From(Cancun, UnwrapOr(excessBlobGas, 0)),
           beaconRoot      |-> From(Cancun, UnwrapOr(beaconRoot, 0)),
           requestsHash    |-> None,
           txRoot          |-> p.txs,
           stateRoot       |-> p.stateRoot],
        txs         |-> p.txs,
        withdrawals |-> From(Shanghai, UnwrapOr(withdrawals, 0))]

\* new_payload_fork_validation, of V1 and V2.
ForkValidation(p, config) ==
    LET fork == ActiveFork(config, p.number, p.timestamp, None)
    IN fork < Cancun /\ (fork >= Shanghai) = (p.withdrawals # None)

\* payload_v3_to_block, payload_v4_to_block.
PayloadV3ToBlock(p, beaconRoot, config) ==
    PayloadToBlock(p, p.withdrawals, p.blobGas, p.excessBlobGas, beaconRoot, config)

\* The forks new_payload, new_payload_v3 and new_payload_v4 take a payload of.
Takes(version, p, config) ==
    LET fork == ActiveFork(config, p.number, p.timestamp, None)
    IN /\ version <= 2 => ForkValidation(p, config)
       /\ version = 3 => fork >= Cancun
       /\ version = 4 => fork >= Prague

\* new_payload, new_payload_v3, new_payload_v4 up to new_payload_internal: the
\* block that is processed, or None for an error.
NewPayload(version, p, beaconRoot, config) ==
    IF ~Takes(version, p, config) THEN None
    ELSE IF version <= 2 THEN PayloadToBlock(p, p.withdrawals, None, None, None, config)
    ELSE PayloadV3ToBlock(p, beaconRoot, config)
=============================================================================
