--------------------------- MODULE PublishTracking ---------------------------
(***************************************************************************)
(* ControllerPublishVolume and ControllerUnpublishVolume                   *)
(* (pkg/driver/controller.go) over publishedVolumes, a map in memory whose *)
(* keys are strings made of the volume ID and the node ID, and the node    *)
(* registry (node_registry.go).  An RPC changes the map in one critical    *)
(* section; its answer may be lost; a restart forgets the map.             *)
(***************************************************************************)
EXTENDS Naturals, Sequences

CONSTANTS
    Words,        \* the words and separators of IDs
    VolumeIds,    \* IDs of volumes and nodes, sequences of words
    NodeIds,
    Colon,        \* the separator, which a volume name may contain too
    MaxRestarts

ASSUME IdsAssumption ==
    VolumeIds \subseteq Seq(Words) /\ NodeIds \subseteq Seq(Words) /\ Colon \in Words
ASSUME RestartsAssumption == MaxRestarts \in Nat

Modes == {"ro", "rw"}

VARIABLES
    publishedVolumes,  \* publishedVolumes[key]: mode, or "none"
    registry,          \* nodes in the registry
    told,              \* told[v][n]: mode the attacher was told, since it
                       \* last asked for a detachment
    restarts

vars == <<publishedVolumes, registry, told, restarts>>

publishKey(v, n) == v \o <<Colon>> \o n
Keys == {publishKey(v, n) : v \in VolumeIds, n \in NodeIds}

HasPrefix(s, p) == Len(p) <= Len(s) /\ SubSeq(s, 1, Len(p)) = p

Init ==
    /\ publishedVolumes = [k \in Keys |-> "none"]
    /\ registry = {}
    /\ told = [v \in VolumeIds |-> [n \in NodeIds |-> "none"]]
    /\ restarts = 0

(* NodeGetInfo, and the start of a driver that has a node ID.              *)
Register(n) == registry' = registry \union {n} /\ UNCHANGED <<publishedVolumes, told, restarts>>

(* The answer arrives, or it does not.                                     *)
Answer(v, n, mode) == told' \in {told, [told EXCEPT ![v][n] = mode]}

(* Mutant: the mode is overwritten.                                        *)
PublishAnyway(v, n, mode) ==
    /\ publishedVolumes' = [publishedVolumes EXCEPT ![publishKey(v, n)] = mode]
    /\ Answer(v, n, mode) /\ UNCHANGED <<registry, restarts>>

(* The registry counts only if it has a node.  A different mode is refused *)
(* with AlreadyExists.                                                     *)
ControllerPublishVolume(v, n, mode) ==
    LET k == publishKey(v, n) IN
    /\ registry = {} \/ n \in registry
    /\ publishedVolumes[k] \in {"none", mode}
    /\ publishedVolumes' = [publishedVolumes EXCEPT ![k] = mode]
    /\ Answer(v, n, mode) /\ UNCHANGED <<registry, restarts>>

(* Mutant: the keys of a volume are those that begin with its ID.          *)
PrefixWithoutColon(v) ==
    /\ publishedVolumes' = [k \in Keys |-> IF HasPrefix(k, v) THEN "none" ELSE publishedVolumes[k]]
    /\ told' = [told EXCEPT ![v] = [n \in NodeIds |-> "none"]]
    /\ UNCHANGED <<registry, restarts>>

ControllerUnpublishVolume(v, n) ==
    /\ publishedVolumes' = [publishedVolumes EXCEPT ![publishKey(v, n)] = "none"]
    /\ told' = [told EXCEPT ![v][n] = "none"]
    /\ UNCHANGED <<registry, restarts>>

(* An empty node ID: every key with the volume ID and a colon in front.    *)
UnpublishEverywhere(v) ==
    /\ publishedVolumes' = [k \in Keys |->
          IF HasPrefix(k, v \o <<Colon>>) THEN "none" ELSE publishedVolumes[k]]
    /\ told' = [told EXCEPT ![v] = [n \in NodeIds |-> "none"]]
    /\ UNCHANGED <<registry, restarts>>

(* The controller starts with an empty map.                                *)
Restart ==
    /\ restarts < MaxRestarts /\ restarts' = restarts + 1
    /\ publishedVolumes' = [k \in Keys |-> "none"]
    /\ registry' = {} /\ UNCHANGED told

Next ==
    \/ \E v \in VolumeIds : UnpublishEverywhere(v)
    \/ \E v \in VolumeIds, n \in NodeIds :
          \/ ControllerUnpublishVolume(v, n)
          \/ \E mode \in Modes : ControllerPublishVolume(v, n, mode)
    \/ \E n \in NodeIds : Register(n)
    \/ Restart

Spec == Init /\ [][Next]_vars

-----------------------------------------------------------------------------
(* Properties.                                                             *)

(* Every variable has the shape its declaration promises.                  *)
TypeOK ==
    /\ publishedVolumes \in [Keys -> Modes \union {"none"}]
    /\ registry \subseteq NodeIds
    /\ told \in [VolumeIds -> [NodeIds -> Modes \union {"none"}]]
    /\ restarts \in 0..MaxRestarts

(* No volume ID contains the separator.                                    *)
ColonFree == \A v \in VolumeIds : \A i \in DOMAIN v : v[i] # Colon

(* What the attacher was told about a volume is what the map holds for it: *)
(* no call for another volume or another node takes it away, until the     *)
(* controller restarts, if no volume ID contains the separator.            *)
TrackingAgrees ==
    restarts = 0 => \A v \in VolumeIds, n \in NodeIds :
        told[v][n] # "none" => publishedVolumes[publishKey(v, n)] = told[v][n]

(* "Return AlreadyExists if re-published with incompatible capabilities":  *)
(* the attacher is never told two modes for one attachment.                *)
IncompatibleRefused ==
    [][\A v \in VolumeIds, n \in NodeIds :
          told[v][n] # "none" => told'[v][n] \in {told[v][n], "none"}]_vars

(* The map of strings implements one record for each volume and node, if   *)
(* no volume ID contains the separator.                                    *)
A == INSTANCE Attachments WITH
        attached <- [v \in VolumeIds |-> [n \in NodeIds |-> publishedVolumes[publishKey(v, n)]]]
ImplementsAttachments == A!ASpec
=============================================================================
