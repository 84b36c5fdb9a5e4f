----------------------------- MODULE VolumeMutex -----------------------------
(***************************************************************************)
(* What the node service expects of its per-volume lifecycle locks:        *)
(* at most one RPC at a time is inside the lifecycle of a volume.          *)
(* NodeStageVolume, NodePublishVolume, NodeUnpublishVolume and             *)
(* NodeUnstageVolume are written against this specification;               *)
(* LifecycleLocks is the implementation of it in                           *)
(* pkg/driver/node_lifecycle.go.                                           *)
(***************************************************************************)
CONSTANTS Requests,   \* RPC goroutines that may ask for a lock
          Volumes,    \* CSI volume IDs
          NoRequest   \* "nobody is inside the lifecycle of this volume"

VARIABLE holder       \* holder[v]: the request inside the lifecycle of v

Init == holder = [v \in Volumes |-> NoRequest]

Acquire(r, v) ==
    /\ holder[v] = NoRequest
    /\ holder' = [holder EXCEPT ![v] = r]

Release(r, v) ==
    /\ holder[v] = r
    /\ holder' = [holder EXCEPT ![v] = NoRequest]

Next == \E r \in Requests, v \in Volumes : Acquire(r, v) \/ Release(r, v)

Spec == Init /\ [][Next]_holder
=============================================================================
