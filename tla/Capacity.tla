------------------------------ MODULE Capacity ------------------------------
(***************************************************************************)
(* The capacity arithmetic of the controller (pkg/driver/controller.go):   *)
(* which sizes it asks the backend for when a volume is created            *)
(* (normalizeCreateCapacity) and when it is expanded (planExpansion).      *)
(*                                                                         *)
(* The sizes, the alignments and the width of int64 are constants, so that *)
(* TLC meets every boundary with small numbers; the assumptions are what   *)
(* the code's own constants satisfy (1 GiB, 256 TiB, 1024 and 512 bytes,   *)
(* 2^63 - 1).                                                              *)
(***************************************************************************)
EXTENDS Integers

CONSTANTS MinVolumeSize,   \* 1 << 30
          MaxVolumeSize,   \* 256 << 40
          MaxInt64,        \* 1<<63 - 1
          FileAlignment,   \* 1024: NFS and SMB quotas
          BlockAlignment,  \* 512: iSCSI and NVMe-oF volumes
          None             \* a nil *uint64, an absent property

Protocols == {"nfs", "smb", "iscsi", "nvmeof"}

ASSUME SizesAssumption ==
    /\ {MinVolumeSize, MaxVolumeSize, MaxInt64, FileAlignment, BlockAlignment} \subseteq Nat \ {0}
    /\ MinVolumeSize =< MaxVolumeSize
    /\ MaxVolumeSize % FileAlignment = 0
    /\ MaxVolumeSize % BlockAlignment = 0
    /\ MaxVolumeSize =< MaxInt64 - FileAlignment
    /\ MaxVolumeSize =< MaxInt64 - BlockAlignment

ASSUME NoneAssumption == None \notin Int

(* The code's sizes are int64 on the wire and uint64 in the backend.       *)
Int64  == (-MaxInt64 - 1) .. MaxInt64
Uint64 == 0 .. (2 * MaxInt64 + 1)

(* Outcomes of a computation: a size, or a gRPC status code.               *)
OutOfRange      == "OutOfRange"
InvalidArgument == "InvalidArgument"
Codes == {OutOfRange, InvalidArgument}

Rejected(code) == [ok |-> FALSE, code |-> code]
Accepted(target, satisfied) == [ok |-> TRUE, target |-> target, satisfied |-> satisfied]

Alignment(protocol) ==
    IF protocol \in {"nfs", "smb"} THEN FileAlignment ELSE BlockAlignment

RoundUp(n, a) == ((n + a - 1) \div a) * a

(* Fits(protocol, n): the guard that keeps the rounding inside int64.      *)
Fits(protocol, n) == n =< MaxInt64 - (Alignment(protocol) - 1)

(* Mutant: rounding down gives less than was asked for.                    *)
RepresentableRoundedDown(protocol, n) == (n \div Alignment(protocol)) * Alignment(protocol)

representableCapacity(protocol, n) == RoundUp(n, Alignment(protocol))

validateExpansionRange(required, limit) ==
    /\ required >= 0 /\ limit >= 0
    /\ limit > 0 => required =< limit
    /\ required # 0 \/ limit # 0

(* The end both computations share: at least the minimum, rounded up to    *)
(* the protocol's unit, and not above the limit (0: no limit).             *)
Allocate(protocol, n, limit) ==
    LET allocation == IF n < MinVolumeSize THEN MinVolumeSize ELSE n
        target     == representableCapacity(protocol, allocation)
    IN  IF ~Fits(protocol, allocation) THEN Rejected(InvalidArgument)
        ELSE IF limit > 0 /\ target > limit THEN Rejected(OutOfRange)
        ELSE Accepted(target, FALSE)

(* Mutant: a uint64 size beyond int64 is not noticed.                      *)
PlanUnrepresentable(protocol, current, required, limit) ==
    IF required > MaxVolumeSize THEN Rejected(OutOfRange)
    ELSE IF current # None /\ current >= required THEN Accepted(current, TRUE)
    ELSE Allocate(protocol, required, limit)

(* A plan for a volume of size current (None: the backend reports none).   *)
planExpansion(protocol, current, required, limit) ==
    IF required > MaxVolumeSize THEN Rejected(OutOfRange)
    ELSE IF current = None
         THEN IF required = 0 THEN Rejected(InvalidArgument)
              ELSE Allocate(protocol, required, limit)
    ELSE IF current > MaxInt64 \/ (limit > 0 /\ current > limit) THEN Rejected(OutOfRange)
    ELSE IF current >= required THEN Accepted(current, TRUE)
    ELSE Allocate(protocol, required, limit)

(* A create request without a capacity range asks for required = limit = 0. *)
normalizeCreateCapacity(protocol, required, limit) ==
    LET n == IF required > 0 THEN required ELSE MinVolumeSize IN
    IF required < 0 \/ limit < 0 \/ (limit > 0 /\ required > limit) THEN Rejected(InvalidArgument)
    ELSE IF n > MaxVolumeSize THEN Rejected(OutOfRange)
    ELSE Allocate(protocol, n, limit)

requiresNodeExpansion(protocol, capability) ==
    \/ protocol = "iscsi"
    \/ protocol = "nvmeof" /\ capability # "block"
=============================================================================
