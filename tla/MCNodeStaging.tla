--------------------------- MODULE MCNodeStaging ---------------------------
(* Volumes and their protocols for model checking.                         *)
EXTENDS NodeStaging, TLC

CONSTANTS v1, v2

Fs(proto) == [proto |-> proto, block |-> FALSE, single |-> FALSE]
Single(r) == [r EXCEPT !.single = TRUE]
Raw(proto) == [Fs(proto) EXCEPT !.block = TRUE]

Pair(r1, r2) == v1 :> r1 @@ v2 :> r2

(* Every protocol and mode.  Two filesystem volumes of one protocol        *)
(* compete for device names; a raw block volume is alone with its          *)
(* protocol.                                                               *)
Mixed == {Pair(Single(Fs("iscsi")), Fs("iscsi")),
          Pair(Single(Fs("nvmeof")), Fs("nvmeof")),
          Pair(Single(Raw("iscsi")), Fs("nvmeof")),
          Pair(Single(Raw("nvmeof")), Fs("iscsi")),
          Pair(Single(Fs("nfs")), Single(Fs("smb")))}

(* Two raw block volumes that compete for device names.                    *)
TwoRawVolumes == {Pair(Raw("iscsi"), Raw("iscsi"))}

(* Two iSCSI filesystems, the IQN of one the beginning of the other's.     *)
TwoISCSI == {Pair(Fs("iscsi"), Fs("iscsi"))}
OnePrefix == {<<v1, v2>>}

NodeSymmetry == Permutations(Targets) \union Permutations(SCSIDevices) \union Permutations(NVMeDevices)
=============================================================================
