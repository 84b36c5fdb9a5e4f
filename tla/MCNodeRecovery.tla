--------------------------- MODULE MCNodeRecovery ---------------------------
(* Volumes for model checking the recovery of the node.                    *)
EXTENDS NodeRecovery, TLC

CONSTANTS v1, v2

Fs(proto) == [proto |-> proto, block |-> FALSE, single |-> FALSE]
Pair(r1, r2) == v1 :> r1 @@ v2 :> r2

(* Two filesystems.                                                        *)
TwoISCSI == {Pair(Fs("iscsi"), Fs("iscsi"))}

(* One volume.                                                             *)
OneISCSI == {[v \in Volumes |-> Fs("iscsi")]}
OneNVMe == {[v \in Volumes |-> Fs("nvmeof")]}
Alone == OneISCSI \union OneNVMe

(* One volume with a single writer.                                        *)
Single(r) == [r EXCEPT !.single = TRUE]
AloneSingle == {[v \in Volumes |-> Single(Fs(p))] : p \in {"iscsi", "nvmeof"}}

RecoverySymmetry == Permutations(Targets) \union Permutations(SCSIDevices) \union Permutations(NVMeDevices)
=============================================================================
