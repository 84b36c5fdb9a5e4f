--------------------------- MODULE VolumeExpansion ---------------------------
(***************************************************************************)
(* ControllerExpandVolume (pkg/driver/controller.go and the expand         *)
(* functions of the four protocols).  An expansion reads the volume, plans *)
(* from what it read, resizes the subvolume and records the new capacity   *)
(* in a property: three backend calls with nothing held between them.  The *)
(* orchestrator may have several requests of one volume in the driver at   *)
(* once, because a request it gave up on is retried while the calls of the *)
(* first attempt are still on their way.                                   *)
(***************************************************************************)
EXTENDS Capacity

CONSTANTS Handlers,       \* goroutines that serve ControllerExpandVolume
          Ranges,         \* the capacity ranges requested, <<required, limit>>
          RefusesShrink,  \* the backend fails a resize below the present size
          MaxFaults       \* how many backend calls fail or lose their answer

ASSUME RangesAssumption == Ranges \subseteq Int64 \X Int64
ASSUME BackendAssumption == RefusesShrink \in BOOLEAN /\ MaxFaults \in Nat

VARIABLES
    protocol,   \* the volume's protocol property
    size,       \* what authoritativeSubvolumeCapacity reads, or None
    recorded,   \* the capacity property, or None
    fs,         \* size of the filesystem on the block device; None: there is none
    nodeDue,    \* the orchestrator has been told to call NodeExpandVolume
    pc,         \* pc[h]: the next backend call of handler h
    req,        \* req[h]: [required, limit, capability]
    meta,       \* meta[h]: [current, recorded], the VolumeMetadata h looked up
    target,     \* target[h]: the size h resizes to and then records
    resp,       \* resp[h]: the answer of h's last request: [capacity, node] or None
    promised,   \* the largest capacity a successful response has reported
    faults      \* backend failures so far

volume == <<protocol, size, recorded>>
node == <<fs, nodeDue>>
vars == <<volume, node, pc, req, meta, target, resp, promised, faults>>

PCs == {"idle", "lookup", "plan", "resize", "record", "answer"}
Capabilities == {"mount", "block", "absent"}
Requests == [required : Int64, limit : Int64, capability : Capabilities]
Sizes == Uint64 \union {None}
Responses == [capacity : Int64, node : BOOLEAN] \union {None}

(* The locals of a handler outside a request.                              *)
NoRequest  == [required |-> 0, limit |-> 0, capability |-> "absent"]
NoMetadata == [current |-> None, recorded |-> None]

(* A volume that CreateVolume made, with its capacity recorded; or one     *)
(* made before capacities were recorded, whose size the backend may not    *)
(* report.                                                                 *)
Init ==
    /\ protocol \in Protocols
    /\ \/ \E rg \in Ranges :
             LET made == normalizeCreateCapacity(protocol, rg[1], rg[2]) IN
             made.ok /\ size = made.target /\ recorded = made.target
       \/ size \in {None, 2 * MaxInt64 + 1} /\ recorded = None
    /\ \/ fs = None
       \/ protocol \in {"iscsi", "nvmeof"} /\ size # None /\ fs = size
    /\ nodeDue = FALSE
    /\ pc = [h \in Handlers |-> "idle"]
    /\ req = [h \in Handlers |-> NoRequest]
    /\ meta = [h \in Handlers |-> NoMetadata]
    /\ target = [h \in Handlers |-> 0]
    /\ resp = [h \in Handlers |-> None]
    /\ promised = 0
    /\ faults = 0

-----------------------------------------------------------------------------
(* Return an error: the volume keeps what the calls so far have done.      *)
Fail(h) ==
    /\ pc' = [pc EXCEPT ![h] = "idle"]
    /\ req' = [req EXCEPT ![h] = NoRequest]
    /\ meta' = [meta EXCEPT ![h] = NoMetadata]
    /\ target' = [target EXCEPT ![h] = 0]
    /\ UNCHANGED <<resp, promised>>

Goto(h, l) == pc' = [pc EXCEPT ![h] = l] /\ UNCHANGED <<req, resp, promised>>

Fault == faults < MaxFaults /\ faults' = faults + 1

(* A request arrives; validateExpansionRange refuses it or it goes on.  The *)
(* capability is optional; a volume with a filesystem is never called raw   *)
(* block.                                                                   *)
ControllerExpandVolume(h, rg, capability) ==
    /\ pc[h] = "idle"
    /\ fs # None => capability # "block"
    /\ req' = [req EXCEPT ![h] = [required |-> rg[1], limit |-> rg[2], capability |-> capability]]
    /\ resp' = [resp EXCEPT ![h] = None]
    /\ pc' = [pc EXCEPT ![h] = IF validateExpansionRange(rg[1], rg[2]) THEN "lookup" ELSE "idle"]
    /\ UNCHANGED <<volume, node, meta, target, promised, faults>>

(* lookupVolumeByCSIName: the size and the recorded capacity as they are   *)
(* now, which is all the rest of the request goes by.                      *)
lookupVolumeByCSIName(h) ==
    /\ pc[h] = "lookup"
    /\ UNCHANGED <<volume, node>>
    /\ \/ /\ meta' = [meta EXCEPT ![h] = [current |-> size, recorded |-> recorded]]
          /\ Goto(h, "plan")
          /\ UNCHANGED <<target, faults>>
       \/ Fault /\ Fail(h)

(* Mutant: a volume that is large enough is not reconciled.                *)
PlanWithoutReconcile(h) ==
    LET p == planExpansion(protocol, meta[h].current, req[h].required, req[h].limit) IN
    /\ pc[h] = "plan"
    /\ UNCHANGED <<volume, node, faults>>
    /\ \/ ~p.ok /\ Fail(h)
       \/ /\ p.ok
          /\ target' = [target EXCEPT ![h] = p.target]
          /\ Goto(h, IF p.satisfied THEN "answer" ELSE "resize")
          /\ UNCHANGED meta

(* planExpansion and the choice between the two ways on: a volume that is  *)
(* large enough is only reconciled, and not even that when the recorded    *)
(* capacity already equals the size (reconcileCapacityProperty).           *)
Plan(h) ==
    LET p == planExpansion(protocol, meta[h].current, req[h].required, req[h].limit) IN
    /\ pc[h] = "plan"
    /\ UNCHANGED <<volume, node, faults>>
    /\ \/ ~p.ok /\ Fail(h)
       \/ /\ p.ok
          /\ target' = [target EXCEPT ![h] = p.target]
          /\ Goto(h, IF p.satisfied /\ meta[h].recorded = meta[h].current
                     THEN "answer" ELSE "resize")
          /\ UNCHANGED meta

Refused(n) == RefusesShrink /\ size # None /\ n < size

(* What the backend does with a resize that it does not refuse.            *)
Resized(n) == ~Refused(n) /\ size' = n

(* Mutant: a resize error is logged and the capacity recorded anyway.      *)
ResizeErrorIgnored(h) ==
    /\ pc[h] = "resize"
    /\ UNCHANGED <<protocol, recorded, node, meta, target>>
    /\ Goto(h, "record")
    /\ \/ Resized(target[h]) /\ UNCHANGED faults
       \/ Fault /\ UNCHANGED size

(* apiClient.ResizeSubvolume: carried out and answered; or an error, when  *)
(* it was refused or failed before or after it was carried out.            *)
ResizeSubvolume(h) ==
    /\ pc[h] = "resize"
    /\ UNCHANGED <<protocol, recorded, node>>
    /\ \/ Resized(target[h]) /\ Goto(h, "record") /\ UNCHANGED <<meta, target, faults>>
       \/ /\ IF Refused(target[h]) THEN UNCHANGED faults ELSE Fault
          /\ Fail(h) /\ (UNCHANGED size \/ Resized(target[h]))

(* apiClient.SetSubvolumeProperties with the capacity property.            *)
SetSubvolumeProperties(h) ==
    /\ pc[h] = "record"
    /\ UNCHANGED <<protocol, size, node>>
    /\ \/ recorded' = target[h] /\ Goto(h, "answer") /\ UNCHANGED <<meta, target, faults>>
       \/ Fault /\ Fail(h) /\ recorded' \in {recorded, target[h]}

Answer(h, expandNode) ==
    /\ pc[h] = "answer"
    /\ pc' = [pc EXCEPT ![h] = "idle"]
    /\ resp' = [resp EXCEPT ![h] = [capacity |-> target[h], node |-> expandNode]]
    /\ nodeDue' = (nodeDue \/ expandNode)
    /\ promised' = IF target[h] > promised THEN target[h] ELSE promised
    /\ meta' = [meta EXCEPT ![h] = NoMetadata]
    /\ target' = [target EXCEPT ![h] = 0]
    /\ UNCHANGED <<volume, fs, req, faults>>

(* Mutant: a retry that finds the volume large enough reports that nothing *)
(* is left for the node to do.                                             *)
AnswerNodeOnlyWhenGrown(h) ==
    Answer(h, /\ requiresNodeExpansion(protocol, req[h].capability)
              /\ target[h] # meta[h].current)

(* The ControllerExpandVolumeResponse.                                     *)
ControllerExpandVolumeResponse(h) ==
    Answer(h, requiresNodeExpansion(protocol, req[h].capability))

(* NodeExpandVolume grows the filesystem to the size the device has now.   *)
NodeExpandVolume ==
    /\ nodeDue
    /\ nodeDue' = FALSE
    /\ fs' = IF fs = None THEN None ELSE size
    /\ UNCHANGED <<volume, pc, req, meta, target, resp, promised, faults>>

Next == \/ NodeExpandVolume
        \/ \E h \in Handlers :
            \/ \E rg \in Ranges, c \in Capabilities : ControllerExpandVolume(h, rg, c)
            \/ lookupVolumeByCSIName(h)
            \/ Plan(h)
            \/ ResizeSubvolume(h)
            \/ SetSubvolumeProperties(h)
            \/ ControllerExpandVolumeResponse(h)

Spec == Init /\ [][Next]_vars

-----------------------------------------------------------------------------
(* Every variable has the shape its declaration promises: what a handler   *)
(* resizes to and reports fits int64, although the backend's sizes are     *)
(* uint64 (controller.go:451-456).                                         *)
TypeOK ==
    /\ protocol \in Protocols
    /\ size \in Sizes /\ recorded \in Sizes
    /\ fs \in Sizes /\ nodeDue \in BOOLEAN
    /\ pc \in [Handlers -> PCs]
    /\ req \in [Handlers -> Requests]
    /\ meta \in [Handlers -> [current : Sizes, recorded : Sizes]]
    /\ target \in [Handlers -> 0 .. MaxInt64]
    /\ resp \in [Handlers -> Responses]
    /\ promised \in 0 .. MaxInt64
    /\ faults \in 0 .. MaxFaults

(* A success response never reports less than was required or more than    *)
(* the limit: on either way through the plan, whatever the volume became   *)
(* while the request was under way (controller.go:438-487).                *)
ResponseInRange ==
    \A h \in Handlers : resp[h] # None =>
        /\ resp[h].capacity >= req[h].required
        /\ req[h].limit > 0 => resp[h].capacity =< req[h].limit

(* When requests of the volume come one after the other, failed resizes    *)
(* and lost answers never cost it capacity that a success response has     *)
(* promised.                                                               *)
PromiseKept == promised > 0 => size # None /\ size >= promised

(* When requests of the volume come one after the other, a success         *)
(* response means that the size and the recorded capacity agree again,     *)
(* whatever earlier attempts left half done (controller.go:528-543).       *)
SuccessReconciled ==
    \A h \in Handlers : resp[h] # None => size = resp[h].capacity /\ recorded = resp[h].capacity

(* A filesystem smaller than a promised capacity has a node expansion on   *)
(* its way, also when the resize was done by an attempt that then failed   *)
(* and the retry found nothing left to do (controller.go:1755-1765).       *)
FilesystemFollows ==
    fs # None /\ promised > fs => nodeDue

(* Every accepted plan is within the backend's maximum or leaves the size  *)
(* as it was, and is a whole number of the protocol's units when it grows  *)
(* the volume.                                                             *)
TargetRepresentable ==
    \A h \in Handlers : pc[h] = "resize" /\ target[h] # meta[h].current =>
        /\ target[h] \in MinVolumeSize .. MaxVolumeSize
        /\ target[h] % Alignment(protocol) = 0

(* Volumes only grow: docs/FEATURES.md:206, "Only expansion supported      *)
(* (shrinking not possible)".                                              *)
NeverShrinks == [][size # None => size' >= size]_vars
=============================================================================
