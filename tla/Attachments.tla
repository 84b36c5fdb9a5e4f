----------------------------- MODULE Attachments -----------------------------
(***************************************************************************)
(* What ControllerPublishVolume and ControllerUnpublishVolume promise the  *)
(* attacher: each volume is attached to each node in at most one mode,     *)
(* which changes only by way of a detachment of that volume, or because    *)
(* everything is forgotten.                                                *)
(***************************************************************************)
CONSTANTS VolumeIds, NodeIds

Modes == {"ro", "rw"}

VARIABLE attached   \* attached[v][n]: mode, or "none"

Nothing == [v \in VolumeIds |-> [n \in NodeIds |-> "none"]]
AInit == attached = Nothing

Attach(v, n, mode) ==
    /\ attached[v][n] = "none"
    /\ attached' = [attached EXCEPT ![v][n] = mode]

(* From one node or from several.                                          *)
Detach(v, nodes) ==
    attached' = [attached EXCEPT ![v] = [n \in NodeIds |-> IF n \in nodes THEN "none" ELSE @[n]]]

Forget == attached' = Nothing

ANext ==
    \/ Forget
    \/ \E v \in VolumeIds :
        \/ \E n \in NodeIds, mode \in Modes : Attach(v, n, mode)
        \/ \E nodes \in SUBSET NodeIds : Detach(v, nodes)

ASpec == AInit /\ [][ANext]_attached
=============================================================================
