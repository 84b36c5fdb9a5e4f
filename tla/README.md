# nasty-csi: TLA+ models and proofs

nasty-csi is a Container Storage Interface driver.  It lets Kubernetes use the
volumes of a NASty storage appliance over NFS, SMB, iSCSI and NVMe-oF.  A
*controller* process creates, adopts, expands and deletes volumes through the
NASty API; a *node* process on every machine logs in to them, mounts them and
hands them to pods.  Both are driven by gRPC calls that are repeated until they
succeed, that may be given up half way and that run concurrently.  Neither
process keeps state on disk: what survives a crash is what the backend stores
with a subvolume, and the sessions, devices and mounts of the node's kernel.
This directory models those parts whose correctness depends on the order in
which such steps happen.

## 1. Inventory

| Component | State | Operations | Hard behaviour | What makes it correct |
|---|---|---|---|---|
| Volume provisioning and deletion (`controller.go`, `controller_{nfs,smb,iscsi,nvmeof}.go`, `volume_identity.go`, `delete_ownership.go`, `share_cleanup.go`) | backend subvolumes with their properties, shares/targets/subsystems; `identityMu` | CreateVolume, adoption, rollback, DeleteVolume | several backend calls for each RPC, uncertain outcomes, crash between calls, retry while the first attempt is still in flight, two requests that select one subvolume | one owner for each volume, nothing exposed before it is owned, nothing owned removed by somebody else, nothing left behind silently, retries complete |
| Volume expansion (`controller.go`, `expand*Volume`, `NodeExpandVolume`) | size of the subvolume, capacity property, filesystem size | ControllerExpandVolume, NodeExpandVolume | three calls without a lock, half-done attempts, overlapping requests, int64/uint64 boundaries | answer inside the requested range, promised capacity is kept, filesystem follows |
| Lifecycle locks (`node_lifecycle.go`) | map from volume to a reference-counted channel of capacity one | `lock`, the unlock closure, `release` | removal of an entry under a waiter, cancellation at the moment of the receive | mutual exclusion for each volume, no lost token, no blocked send, waiters served |
| Node stage/publish/unpublish/unstage (`node.go`, `node_publish.go`, `node_nfs.go`, `node_smb.go`, `node_iscsi.go`, `node_nvmeof*.go`, `node_device.go`) | sessions, device names, staging paths, bind mounts; `nvmeConnectSem` | the four RPCs, login/connect loops, teardown guards | failing commands, transport loss, device names that are reused, RPCs repeated after a lost answer or a restart, protocol guessed from what is left on the staging path | single writer, staged device belongs to the volume's session, a session in use is not torn down, an unstage ends its own session only |
| Session recovery (`node_recovery.go`) | `recentUnmounts`; lists read at the start of a scan | rescans, logouts and logins, controller resets, remounts, lazy unmounts | runs beside the RPCs without their lock, acts on lists and states read earlier | no second writer appears, a broken mount is released, a recovering one is left alone |
| Volume health reports (`node_health.go`) | none | checkVolumeHealth | | |
| Publish tracking (`controller.go`, `node_registry.go`) | `publishedVolumes` in memory, keyed by a string | ControllerPublishVolume, ControllerUnpublishVolume | restart forgets, prefix match on keys, lost answers | one mode for each volume and node, an unpublish touches its own volume |
| Clones (`controller_snapshot_clone.go`, clone half of `controller.go` and `volume_identity.go`) | cloned subvolumes, which carry the source's properties until they have their own | CreateVolume with a content source | whose clone is it after an interrupted attempt; attempts overlap | a retry finds its own clone, a clone is never taken for its source |
| Snapshots (`controller_snapshot.go`, `controller_snapshot_list.go`) | snapshots on the backend; the ID is all the driver keeps | CreateSnapshot, DeleteSnapshot, ControllerGetSnapshot | check and creation are two calls, lost answers, the source is deleted | a ready snapshot stays, a deleted one is gone, IDs decode to what they encode |
| Listing (`controller.go`, `controller_snapshot_list.go`) | the token | ListVolumes, ListSnapshots | volumes and snapshots come and go between pages | nothing that stayed is missed or repeated |
| Retry helper (`pkg/retry`) | none | WithRetry | uncertain outcomes, cancellation during backoff | a mutation is applied once, attempts and waits are bounded |
| Names and templates, mount helpers, start-up, metrics, dashboard | none that the driver decides on | | | |

Interactions: the controller and the node share no memory.  CreateVolume puts
the protocol and the IQN or NQN into the volume context that NodeStageVolume is
given; NodeUnstageVolume is *not* given it.  ControllerExpandVolume tells the
orchestrator whether NodeExpandVolume must follow.  The RPC bodies of the node
run under the lifecycle lock of their volume; the health monitor, which changes
the same sessions and mounts, does not take it.  A clone goes through the same
destination, identity and exposure code as an empty volume.

`PROJECT.json` lists every component with its status, the lines that each
definition models, and the hazards, each at its line with the properties that
would catch it.

## 2. Modules

| Module | Models | Depends on |
|---|---|---|
| `VolumeMutex` | abstract: one mutex for each volume, what the node RPCs rely on | |
| `LifecycleLocks` | `node_lifecycle.go`, one action for each critical section, receive, send and select case | implements `VolumeMutex` |
| `LifecycleLocksProof` | theorems about it | `LifecycleLocks` |
| `VolumeProvisioning` | CreateVolume and DeleteVolume, one action for each backend call | |
| `Capacity` | the size arithmetic as pure operators | |
| `VolumeExpansion` | ControllerExpandVolume and NodeExpandVolume | `Capacity` |
| `VolumeExpansionProof` | theorems about both | `VolumeExpansion` |
| `NodeStaging` | the four node RPCs, one action for each external command | takes the exclusion of `VolumeMutex` for granted |
| `NodeRecovery` | the health monitor and the scan after a reconnect | composed with `NodeStaging` |
| `NodeStagingProof` | theorems about both | `NodeRecovery` |
| `VolumeCloning` | CreateVolume from a volume or a snapshot | composed with `VolumeProvisioning` |
| `VolumeProvisioningProof` | theorems about both | `VolumeCloning` |
| `Snapshots` | CreateSnapshot, DeleteSnapshot, ControllerGetSnapshot | |
| `SnapshotsProof` | theorems about it | `Snapshots` |
| `Listing` | paging through ListVolumes and ListSnapshots | |
| `ListingProof` | theorems about it | `Listing` |
| `Attachments` | abstract: what publish and unpublish promise the attacher | |
| `PublishTracking` | ControllerPublishVolume and ControllerUnpublishVolume | implements `Attachments` |
| `PublishTrackingProof` | theorems about it | `PublishTracking` |
| `Retry` | `WithRetry` | |
| `RetryProof` | theorems about it | `Retry` |
| `MC*` | constants and worlds for the model checker; `LifecycleLocks` and `Listing` need none | |

### LifecycleLocks

`entries[v]` is the map, `refs[e]` and `token[e]` the fields of an entry,
`entry[r]` the pointer a goroutine holds.  `JoinEntry` and `CreateEntry` are the
critical section of `lock`, `TakeToken` and `WaitCancelled` the two cases of its
`select` (both may be possible, the choice is nondeterministic), `RecheckContext`
and `GiveUp` the path on which the context ended together with the receive,
`Unlock` the send in the closure, `Leave` is `release`.  `CreateEntry` takes the
addresses of entries from a finite set; an address is used again only when no goroutine
holds it, which is what the garbage collector guarantees.

### VolumeProvisioning

A handler is a goroutine with a program counter `pc[h]` that names its next API
call, and locals `loc[h]`; `loc[h].seen` is the subvolume as last read, which
may be stale.  A call succeeds (`Ok`), fails without effect (`Err`), or takes effect
and reports an error (`Lost`, `nastyapi.ErrUncertainOutcome`).  After `Cancel` the
remaining calls of a handler fail, but one that was in flight may still take
effect later.  The orchestrator keeps one live RPC for each request and starts
another only after it gave up on the first.  `excused` is a history variable:
subvolumes without an owner that `docs/DELETE-RECOVERY.md` leaves to the
administrator (a crash, an uncertain create, a rollback that failed).

The properties of a subvolume are reduced to those the decisions read:
`managed_by`, `csi_request_name`, `volume_uuid`, protocol, PVC identity,
`adoptable`, `delete_strategy`, capacity.  The real size is separate from the
capacity property.  One filesystem is modelled; names are opaque and
`ResolveVolumeName`/`ResolveLegacyVolumeName` are given by the worlds.

### Capacity and VolumeExpansion

The sizes, units and the width of int64 are constants, constrained by what the
code's own constants satisfy; `Uint64` is twice as wide, so a backend size that
does not fit is reachable.  Every backend call may fail before or after its
effect.  Whether the backend refuses to shrink is the constant `RefusesShrink`,
because the code relies on it without checking.

### NodeStaging

`session[v]` is the iSCSI session or NVMe-oF controller of `v` with its device
name and whether its transport is up; `path[v]` what is at the staging path
(nothing, directory, symlink, mount); `pub[v][t]` what is bound to target `t`;
`rpc[v]` the RPC body that holds the lifecycle lock, with the variables it
carries from one command to the next; `staged` and `published` what the kubelet
knows.  `MountShare`, `stageISCSIVolume`, `tryReuseExistingConnection`, `Login`, `waitFor*`,
`StageDevice` follow the code's stage functions, `Dispatch` the guess of the
protocol at an unstage.  `findISCSIDevice` may return the disk of any session whose
target name begins with the volume's IQN: `IQNPrefixes` says which names do.
`getISCSISessionState` falls back on the first session of the list when it cannot
read the state of the disk, so that another session's state may be taken for it.  `Crash` forgets all RPC bodies and nothing else.

Assumptions about the environment:

- the kubelet publishes only what it knows to be staged, unstages only when
  every target is unpublished, removes the staging path after an unstage that
  it saw succeed, and repeats an RPC whose answer it did not see; it may stage
  again what is staged;
- the kernel does not give a device name to another device while a filesystem
  on it is mounted, nor in the seconds between finding a device and mounting
  it; otherwise a free name may be given to anybody;
- a lazy unmount detaches: the path is unmounted when it returns;
- an iSCSI disk stays while its session is down; an NVMe device goes away when
  the controller is lost for `--ctrl-loss-tmo`;
- in the runs of `NodeStaging` alone the health monitor is off; `NodeRecovery`
  adds it.

### NodeRecovery

`mon[m]` is a scan: where it is, the list it has still to visit, and the volume
whose session it is busy with.  `"loop"` is the health monitor, `"reconnect"` the scan
when the websocket to the NAS is back.  Every command is an action: read the
sessions, rescan, look again, log out, log in, reset a controller; then the loop
alone finds read-only mounts, remounts them, lists the staging mounts, looks at
each device and unmounts.  `cooldown[v]` is `recentUnmounts`.  The RPCs are those of
`NodeStaging`, and may run at any time during a scan.  `Multipath` says whether
namespaces are numbered by subsystem.  Sessions are `"live"`, `"recovering"` (the kernel
reconnects) or `"failed"`.

`isDeviceAccessible(d, answer)` gives both answers of `blockdev` where both can be: a live device
may not answer (the command fails, takes too long or says 0, one of the bounded
`Fault`s), one that is down may still know its size.  `isISCSIDeviceRecovering` and
`isNVMeDeviceRecovering` are sets of possible answers, because the `iscsi_session` link
may be gone, the state unreadable and the controller's number another's.  The
context of two minutes that the commands of one scan share appears as such
failures: once it is over, every further command fails.

### VolumeCloning

Adds to a handler the locals `cl[h]` and the calls of `createVolumeFromVolume` and
`createVolumeFromSnapshot`: read the source, choose the destination
(`selectCloneDestination`, `classifyCloneIdentity`), clone, resize, write the
capacity, and then the identity and exposure steps of `VolumeProvisioning`.  The
backend copies the properties of the source, records where a clone came from
(`from[n]`), and answers a repeated call with the clone it made before.  Sources with
a UUID, sources of an earlier release without one, and sources expanded
after their snapshot are worlds.  Left out: the encryption check.

### Snapshots

`snaps[v, n]` is the backend, `co[c]` what the orchestrator knows, `pc[c]` and `seen[c]`
the RPC that works for it.  `encodeSnapshotID` and `decodeSnapshotID` work on
sequences of words, so that a volume name with the separator in it is split as
the code splits it.  Snapshot names contain no `@`: the external-snapshotter makes
them of a prefix and a UID.  `SizeBytes` is left out.

### Listing

IDs are numbered in the order they are listed in, and `Rank` is the place of one in
the listing; the backend is taken to list in a stable order, as the code does.  `ListVolumes` resumes after the ID in the token and is refused
(Aborted) if that is gone; `ListSnapshots` resumes at an offset.  A backend call
that fails while snapshots are listed is answered like an empty list
(`hidden`).

### PublishTracking and Attachments

`publishedVolumes` maps keys, sequences of words joined by a colon, to a mode;
`told[v][n]` is what the attacher was told.  An unpublish without a node
removes every key with the volume's prefix.  The refinement mapping reads
`attached[v][n]` at the key of `v` and `n`.

### Retry

One call of `WithRetry` with any configuration, unset fields included, around a mutation
that succeeds, fails without effect or fails uncertainly.  `applied` counts what
the backend carried out, `late` the calls made after the context ended.

## 3. Runs

| Run | Bounds | States | Shows |
|---|---|---|---|
| `locks` | 3 requests, 2 volumes, 2 entries | 74,288 | `LockInvariant`, `ImplementsVolumeMutex`, `CancelledWaiterReturns`, `WaiterServed` |
| `provisioning` | 2 handlers, 2 requests, 3 names, 4 UUIDs, 3 faults | 2.1 million | ownership, exposure and clean-up, with and without adoption |
| `cloning` | 2 handlers, a source and a clone, 3 UUIDs, 1 fault | 189,444 | clones are of their source, usable, and have UUIDs of their own; clones, adoptions and deletions are completed |
| `expansion` | 1 handler, 15 boundary ranges, 3 faults | 104,624 | the answer of every request at every boundary, on a backend that accepts any size |
| `node_staging` | 2 volumes, 2 targets, 2 SCSI and 4 NVMe names, 2 faults | 582,801 | single writer, sessions and devices |
| `node_recovery` | 1 volume, 2 targets, both scans, 3 SCSI and 2 NVMe names, 2 faults | 1.9 million | `OneLiveWriter` |
| `node_recovery_fair` | 1 volume, both scans, a cool-down of 2 checks, 2 faults | 1.3 million | `BrokenMountReleased`, `ReadOnlyHealed` |
| `publish_tracking` | 2 volumes, 2 nodes, 1 restart | 28,744 | `TrackingAgrees`, and `ImplementsAttachments` |
| `retry` | the configurations in use and ones with unset fields | 678 | uncertain outcomes, late calls, and that the loop returns |
| `snapshots` | 2 snapshots of one name on 2 volumes, 3 times, 3 faults, 2 removals | 115,375 | `ReadySnapshotKept`, `DeletedIsGone`, `SnapshotTaken`, `DeletionCompletes` |
| `listing` | 5 IDs, pages of 0 to 3, 3 changes | 76,903 | what a caller of many pages gets |
| `recreated_pvc` | 2 requests of one PVC, no fault | | violated: `AdoptedDataPreserved` |

`ExclusiveOwnership`, `NeverShrinks`, `CloneLargeEnough` and `RecoveringStaysMounted` are in no
passing run: the code breaks each of them in the very situation it is about.
`StagedOnOwnSession`, `OwnSessionOnly`, `CloneServed` and `TrackingAgrees` pass where the names,
volumes and sources are not of the kind under which the code breaks them.
Section 6 has the configuration that shows each.

Why the bounds are enough.  *locks*: the hazards need a holder, a waiter and
somebody who arrives while the entry is removed: three requests; a second
volume for the map.  With two addresses an entry is made again at an address
that was released.  *provisioning*: every hazard is between two handlers and
one subvolume; the third name is the legacy name both requests may resolve to.
Three faults allow a failed call, the failure of its clean-up and a crash or
cancellation on top.  Its four UUIDs are one for each handler and each finished
volume.  The worlds start from an empty backend, a volume of an earlier
release, a foreign subvolume, and a volume marked adoptable, for each protocol,
and once from a volume of another protocol under the legacy name.  *expansion*:
units 4 and 2, minimum 4, maximum 12 and an int64 that ends at 17 put a value on each side of each comparison.
*node_staging*: two volumes compete for two SCSI names; the connect semaphore
has one slot, so that it is contended; four NVMe names allow a lost
controller's name to stay pinned by its mount while two new ones appear.  Two
faults allow a lost answer or crash and one more failure.  The volumes come in
pairs: two filesystems of one block protocol, a raw volume with a filesystem of
the other block protocol, two shares.  Two raw volumes of one protocol are left
to `NodeUnstageRetry.cfg`, under which `OwnSessionOnly` fails.  *node_recovery*: a
second writer needs a volume, two targets and a device name that comes and goes:
published under one name, logged out and in under another, staged and published
again.  A third SCSI name does that twice.  Both protocols are worlds, because the
monitor treats them differently.  Two faults are a failed command in a scan and
one in an RPC, or a restart.  *node_recovery_fair*: a cool-down of two checks
outlives the next check, so that it suppresses one.  *publish_tracking*: two IDs
of which one begins with the other, and node IDs likewise, are what a prefix
match confuses.  *cloning*: a source and a destination of one request, beside the
deletion of either; one fault, because liveness is checked in the same run, and
each interruption is one fault.  Two worlds are adoptions without a clone, for
which the same run checks that they and deletions complete.  *snapshots*: one
name on two volumes, one of which contains the separator of an ID; three faults are a lost creation, a failed retry and a
restart.  *listing*: five IDs and pages of two make three pages, and three
changes fall between any two of them.

Deadlock is checked except where there is an end: in the provisioning and
cloning runs and those of snapshots the orchestrator is finished once everything
is gone, in `listing` the caller has its last page, in `retry` the loop has returned.

The main properties:

- `LockInvariant`: an entry is never removed under a waiter (`CurrentEntry`,
  `RefsExact`), and its token is in the channel or with one request
  (`TokenConserved`), which alone may be in the body of an RPC
  (`MutualExclusion`).
- `BoundVolumeUsable`: what the orchestrator was given exists, records its request
  and is exposed, whatever rollbacks, retries and late writes of other attempts
  for it do.  That two requests never share a subvolume (`ExclusiveOwnership`) is
  not true of the code (`AdoptionRace`), and the properties of `provisioning` hold
  where every name is claimed by one request.
- `NoSilentOrphan`: every error path cleans up or is one the documentation
  leaves to the administrator.
- `ExposedAfterOwned`, `OwnedStorageRemovedByOwner`, `RetainedIsKept`: action
  properties on shares and subvolumes.  A share appears only for a subvolume
  that records the request served, or for a request whose deletion was asked
  for: a call that was cancelled may take effect after the whole deletion.
- `ResponseInRange`, `PromiseKept`, `SuccessReconciled`, `FilesystemFollows`: the
  promises of an expansion, for expansions of a volume that follow each other.
- `SingleWriterExclusive`: a SINGLE_NODE_SINGLE_WRITER volume is usable at one
  target, also after a lost answer, a failed unpublish or a restart.
- `StagedOnOwnSession`: what the kubelet knows to be staged is on the staging
  path and, for iSCSI, on the disk of the volume's present session, where no IQN
  is the beginning of another's (`NodePrefix` is the other case).
- `StageKeepsSession`: a stage does not take a session away from under a device
  that is staged.
- `OwnSessionOnly`: an unstage ends no other volume's session; raw volumes are
  alone with their protocol here.
- `OneLiveWriter`: a SINGLE_NODE_SINGLE_WRITER filesystem is writable at one target
  at most, also after the scans have unmounted its staging path or brought its
  disk back under another name, and it was staged and published again beside
  the old publication.  The check of a publish sees the bind mounts of the
  device staged now and of no other.
- `BrokenMountReleased`, `ReadOnlyHealed`: a mount whose device is gone is released,
  one that became read-only is writable again, unless they heal by themselves.
- `TrackingAgrees`: what the attacher was told since it last asked for a
  detachment is what the map says, until a restart.
- `AppliedOnce`: a mutation whose outcome is uncertain is not repeated;
  `OneLateCall`: at most one call is made after the context ended.
- `CloneUsable`, `UUIDsDistinct`, `CloneServed`: what the orchestrator is given for a content source; `AdoptingRequestServed` and
  `DeletionCompletes` say the same of adoptions and of the end.
- `ReadySnapshotKept`, `DeletedIsGone`, `SnapshotTaken`, `DeletionCompletes`: a
  snapshot and its creation time, from the answer to the deletion.
- `VolumesListedOnce`: a volume that existed throughout is listed exactly once.
  `SnapshotsMissedBounded`: deletions make the offset skip no more snapshots
  than were deleted, creations repeat no more than were created.

Each property of a passing run has a mutant: a plausible error in a modelled
function, defined beside it, under which the model checker finds the property
violated.  The type invariants of the other modules, `AttemptsBounded` and
`BackoffBounded` of `Retry` and `TargetRepresentable` of `VolumeExpansion` are defined
and in no run; they are proved, except the types of `Snapshots` and of `NodeRecovery`,
of which the proofs take what they need.

## 4. Fairness

- `LifecycleLocks!FairSpec`: weak fairness of a goroutine's own steps (the Go
  scheduler), strong fairness of `TakeToken` (receivers of a channel are queued
  first in, first out).  There is none on `Unlock`: a body may hang.  `WaiterServed`
  says explicitly that it needs bodies to end; `CancelledWaiterReturns` does not.
- `VolumeCloning!CFairSpec`, which covers plain provisioning too: weak fairness of
  each handler's steps, and the orchestrator repeats a request that was not
  answered, as the external-provisioner does; nobody is obliged to ask for a
  deletion, but one that was asked for is repeated.  Failures are bounded by
  `MaxFaults`: the properties say that the driver recovers once failures stop.
- `Snapshots!FairSpec`: the same for snapshots.
- `NodeRecovery!RFairSpec`: weak fairness of the ticks of `healthMonitorLoop` and of
  the steps of a scan, each of which is a command with a timeout.  Nothing is
  assumed of the RPCs.
- `Retry!FairSpec`: weak fairness of the loop: its timer fires and the call returns.
  Nobody is obliged to cancel.

## 5. Proofs

`LifecycleLocksProof`, for any finite set of requests and any volumes and entry addresses:

- `LocksInvariant`: `Spec => []LockInvariant`, the inductive conjunction that the
  run `locks` checks.  `MutualExclusion` alone is not inductive.  It
  rests on `TokenConserved` (a holder leaves an empty channel), that on
  `CurrentEntry` (everybody is on the same channel), and that on `RefsExact` (an
  entry goes only with its last user).  One lemma for each kind of step;
  `RefsExact` needs the cardinality of the set of users.
- `LocksMutualExclusion`: the conjunct the node service relies on.
- `LocksRefineMutex`: the locks implement
  `VolumeMutex`, with the request that has the token as the holder.

`VolumeExpansionProof`, for any sizes, units and limits that satisfy
`SizesAssumption`, any ranges and any number of handlers and faults:

- `ExpansionTypeCorrect`, `ExpansionResponseInRange`, `ExpansionTargetRepresentable`.
  The lemmas on `RoundUp`, `Allocate` and `planExpansion` say that an accepted
  plan lies between the request's limits; the invariant adds that a handler past
  its plan has such a target.
- `ExpansionPromiseKept`, `ExpansionFilesystemFollows`, `ExpansionNeverShrinks`: if the
  backend refuses to shrink, or the expansions of a volume do not overlap
  (`GrowsOnly`).  The strengthening `LowerBounds` says that what a handler read
  is a lower bound of the size while it goes by it, since others can only raise
  it.  Without `GrowsOnly` the code breaks `NeverShrinks` (`ExpansionRace.cfg`).
- `ExpansionSuccessReconciled`: if the expansions do not overlap (`OneAtATime`),
  because a handler then goes by what is still there (`ReadIsCurrent`).

`PublishTrackingProof`, for any sets of IDs of any length and any number of
restarts:

- `PublishTypeCorrect`; `PublishTrackingAgrees` and `PublishRefinesAttachments` if no
  volume ID contains the separator (`ColonFree`; node IDs may).  Then the first
  colon of a key ends its volume ID.  The lemmas follow from that: two
  attachments have different keys (`KeysDiffer`), and the keys with a volume's
  prefix are exactly its own (`PrefixExact`).  Without `ColonFree`,
  `UnpublishPrefix.cfg` violates the same invariant.

`RetryProof`, for any configurations, unset and nonsensical ones included:

- `RetryTypeCorrect`, `RetryAppliesOnce`, `RetryIsBounded`, `RetryStopsWithContext`,
  `RetryWaitsAreBounded`.  The strengthening adds `Progress`, which ties the number
  of calls to the attempt at each place of the loop, and `Lateness`: the context
  had not ended before a call that follows a check or a wait.

`SnapshotsProof`, for any volumes, names, protocols and creation times, and any
number of failures, restarts and deleted volumes:

- `DecodeEncode`: `decodeSnapshotID` undoes `encodeSnapshotID`.  A volume ID may
  contain both separators; a name has no `@` and neither is empty (`PlainNames`,
  which the external-snapshotter's names satisfy).
- `ReadySnapshotKeptAlways`, `DeletedIsGoneAlways`, under `PlainNames`.  The
  strengthening says that an ID in use decodes to its own volume and name
  (`IDsAreOwn`) and which steps of an RPC the phase of a content allows
  (`StepsFollowPhases`).

`VolumeProvisioningProof`, for any requests, names, backend contents, handlers and
failures:

- `ProvisioningTypeCorrect`, `ProvisioningNoSilentOrphan`,
  `ProvisioningRollbackKeepsIdentified`, without further assumptions.  `BaseInv` adds to the
  types that a handler has the locals its place needs, that an unmanaged
  subvolume is excused or held by the handler that created it, and that under
  `identityMu` what a rollback has looked at stays without an identity.
- `ProvisioningBoundVolumeUsable`,
  `ProvisioningExposedAfterOwned`, `ProvisioningRemovedByOwner`,
  `ProvisioningRetainedIsKept`, if no subvolume is claimed by two requests
  (`SoleClaimants`: by name, legacy name, PVC identity or recorded request).  `OwnInv`
  says that then all handlers at a name serve one request, at most one of them
  is live, and what that request owns stays its own until its deletion.
  `MCVolumeProvisioning` assumes the same of the worlds of `provisioning`;
  the worlds of `AdoptionRace` and `recreated_pvc` are the ones that do not satisfy it.
  The proof found that `ExposedAfterOwned` in its first form fails with three handlers: two
  cancelled calls of one request take effect after its deletion.
- `CloningTypeCorrect`, `CloningUUIDsDistinct`, `CloningCloneUsable`, about
  `VolumeCloning`, if every world is `Settled`: no subvolume is claimed by two
  requests, what is cloned is claimed by no request that is still to be served, and
  what the backend holds was left by the driver.  The external-provisioner clones only bound volumes and ready snapshots, so a
  source is settled before its clone is asked for; a chain, in which the source
  of a clone is itself provisioned later in the same behaviour, is not covered.
  `MCVolumeCloning` assumes `Settled` of the worlds of the run `cloning`.
  `CloneUsable` is far from inductive.  `CInv` names the one subvolume on which all
  attempts of a request settle (`Home`) and says that what is there came from the
  request's source (`FromOrigin`), that once an attempt has written the identity
  (`Done`) only the deletion takes it away, and that no handler goes on to the endpoint before that.
  `UUIDsDistinct` needs to know where a UUID can still be written: a UUID is
  bound to one name (`Tagged`) by the subvolume that records it or by a handler
  that carries it, which is what lets a retry find a UUID again without a second volume getting it.

`NodeStagingProof`, for any volumes, targets, devices, capacity of the semaphore,
failures and crashes:

- `StagingTypeCorrect`, `StagingKeepsSession`, `StagingOneWriter`, without further
  assumptions.  `BaseInv` adds that a stage in which the teardown was allowed has
  nothing on its staging path, that the iSCSI retry loop runs over such a path,
  and that what the kubelet knows to be staged is there.  `PublishInv` ties what a target
  shows to the staged path or, for a raw volume, to its session, and says that an RPC between the
  single-writer check and the bind mount is the only publication.
- `StagingSingleWriter`, `StagingOnOwnSession`, `StagingOwnSessionOnly`, if a raw block
  volume shares its protocol with no other volume of the node (`RawAlone`), the last two
  also only if no IQN is the beginning of another's (`NoPrefixes`), which is what the
  comparison in `parseISCSISessionDevice` needs of the names.  `OwnInv`
  keeps the devices of different volumes apart: the present sessions, the mounts
  and the devices about to be mounted.  A symlink is not among them, because it does not
  keep the kernel from reusing the name; `NodeUnstageRetry` is what happens
  without `RawAlone`.  The single-writer check fails too, with a raw single-writer NVMe-oF
  volume and another one: its controller is lost, the other volume gets the device name, a publication
  through the stale symlink binds the other's device, and after a new stage the
  check at a second target finds no publication of the new device (28 steps).
- Every action is first shown to have the effects `Effects` (how sessions, path, RPC
  and knowledge may move); the three invariants are then proved to survive those, so
  that each action is taken apart once.
- `RecoveryOneLiveWriter`, about `NodeRecovery` with both scans, the RPCs, native
  multipath and restarts in any interleaving: `OneLiveWriter`, under `NoPrefixes`.
  `PublishInv` is of no use there, because the monitor unmounts what is staged and published.
  `WriterInv` speaks of targets and sessions only: no target of a
  filesystem shows the disk of another volume's session (`ShownApart`: a device
  name is not free while it is mounted anywhere), and two targets of a
  single-writer filesystem show different devices, of which a bind mount that
  was allowed makes no third (`ShownOnce`).  A session has one device, so that one of
  the targets at most shows a disk that exists.  A step of a scan changes one session at
  most, and does nothing to a path but unmount it (`ScanMove`); `MonInv` adds
  that a scan logs out and in only iSCSI volumes.

`ListingProof`, for any finite set of IDs, any page sizes and any number of
creations and deletions between the pages:

- `ListingTypeCorrect`, `ListingVolumesOnce`, `ListingSnapshotsBounded`.  An ID's place in
  the listing is its `Rank`, the number of listed IDs before it.  That every place
  is taken needs no induction: the ranks of n IDs are n different numbers below n
  (`RankOnto`).  `VolumesInv`: the received IDs increase up to the token, and every ID
  up to the token that existed throughout is among them.  `SnapshotsInv`: what the
  offset has passed without being received (`MissedPassed`) was moved there, at most one
  for each deletion, and what was received as often as there were creations and
  once more is behind the offset.

Only model-checked:

- the liveness properties: fairness is outside the reach of the prover.

Every other property of a passing run is stated by a theorem, for every value of the
constants or under the hypothesis named above.

## 6. What disagrees with the code

`recreated_pvc` is a run.  For the others a configuration is kept beside the
modules; `tlc -config X.cfg M`, with the module `M` named here, shows it.

| Configurations | Module |
|---|---|
| `AdoptionRace`, `AdoptionCapacity` | `MCVolumeProvisioning` |
| `ExpansionRace` | `MCVolumeExpansion` |
| `NodePrefix`, `NodeUnstageRetry`, `NodeUnstageAsShare` | `MCNodeStaging` |
| `MonitorUnmount`, `MonitorMultipath`, `MonitorClaims` | `MCNodeRecovery` |
| `PublishRestart`, `UnpublishPrefix` | `MCPublishTracking` |
| `CloneCapacity`, `CloneUUID`, `CloneEarlier`, `CloneAdoptable` | `MCVolumeCloning` |
| `SnapshotNameRace`, `SnapshotRetained` | `MCSnapshots` |

1. `recreated_pvc` (`AdoptedDataPreserved`): `validateDeletionOwnership` compares neither request name nor
   UUID.  A late DeleteVolume of a PVC's first life removes the storage its
   second life adopted.
2. `AdoptionRace` (`ExclusiveOwnership`): `persistVolumeIdentity` (`volume_identity.go:160`) takes `identityMu`
   and writes what was decided from a subvolume read before, without reading it
   again.  Two requests with `adoptExisting` that resolve to one legacy name are both
   told that they own it; `decideExistingVolumeIdentity` means to refuse the second
   ("backend volume %s/%s belongs to CSI request %q", `volume_identity.go:71`).
3. `ExpansionRace` (`NeverShrinks`): an expansion planned from an older size (`controller.go:1743`) sets the
   volume back after a larger one, if the backend lets it; `docs/FEATURES.md:206` says
   "Only expansion supported (shrinking not possible)".
4. `CloneCapacity` (`CloneLargeEnough`): an attempt resizes the clone that an earlier one made, and
   whose rollback, decided before the resize, then deletes it; the cancelled
   clone call of a third makes it again at the size of the source, and the
   attempt that resized answers with the larger capacity.  It takes three
   attempts and three faults.  The check that should prevent it (`controller.go:1036`,
   "remained below requested capacity") is made once.  With a source that grows meanwhile
   the limit of the request can be broken in the same way.
5. `NodePrefix` (`StagedOnOwnSession`): `parseISCSISessionDevice` (`node_iscsi.go:517`) compares the
   beginning of target names, and its comment says "to find the attached disk for a
   specific IQN".  A volume `data` may be staged on the disk of `data-2`; only a different
   size would be noticed.  Names made of a PVC's UID are of one length and
   no prefixes of each other; legacy names and templates may be.
6. `MonitorUnmount` (`RecoveringStaysMounted`): without the `iscsi_session` link, or with a state that cannot
   be read (`node_recovery.go:264-272`), a session that the kernel is reconnecting counts
   as lost and its filesystem is unmounted, against the comment at
   `node_recovery.go:143-145` ("I/O will resume when the target comes back.  Do NOT unmount.").
   The comment at `node_recovery.go:515` says that the link is commonly gone in that state.
7. `AdoptionCapacity` (`AdoptedVolumeLargeEnough`): adoption reports the requested capacity and does not
   resize, against `docs/FEATURES.md:765`.
8. `NodeUnstageRetry` (`OwnSessionOnly`): unstaging a raw iSCSI volume leaves its symlink.  When
   the answer is lost the unstage is repeated, follows the symlink to a device
   name that may by then be another volume's disk, and logs that volume out.
9. `NodeUnstageAsShare` (`SessionNotUnstagedAsShare`): after a crash between the login and the mount, or the
   unmount and the logout, the staging path is an empty directory.  The unstage
   takes the volume for NFS, succeeds and leaves the session.
10. `MonitorMultipath` (`RecoveringStaysMounted`): `isNVMeDeviceRecovering` takes the number of a subsystem for
    that of a controller, and a volume whose transport is recovering is
    unmounted.
11. `MonitorClaims` names four properties, each violated by itself: `RecoveredIsLive` (`LOGGED_IN` of
    any session counts as the recovery of this one), `RecoveringSessionKept` (a rescan
    starts the kernel's recovery, which the same scan then ends by a logout,
    against the comment at `node_recovery.go:380`), `UserReadOnlyKept` (a mount
    the user asked to be read-only is remounted writable) and `PublishedShowsVolume` (the
    monitor unmounts the staging path between the check of a publish and its
    bind mount; the pod is shown the node's own disk).
12. `PublishRestart` (`IncompatibleRefused`): after a restart a volume that is attached read-write is
    attached read-only as well.
13. `UnpublishPrefix` (`TrackingAgrees`): an unpublish of `tank/vol` from all nodes forgets the
    attachments of `tank/vol:other`.
14. `CloneUUID` (`BoundUUIDKept`): a late identity write of an attempt that was given up replaces the
    UUID of the clone its retry has completed.
15. `CloneEarlier` (`CloneServed`): a restore from a source of an earlier release that was
    expanded after its snapshot cannot be resumed: every retry is refused.
16. `CloneAdoptable` (`CloneMarkedAsAsked`): a clone of an adoptable volume is adoptable, although its
    StorageClass did not ask for it.
17. `SnapshotNameRace` (`NameOnOneVolume`): two requests for one name on two volumes both succeed;
    the check and the creation are separate calls.
18. `SnapshotRetained` (`ReadySnapshotFound`): a snapshot whose source is gone, or whose source could not
    be read, is reported as NotFound.

Noted while modelling, without a configuration of their own:

- Adoption overwrites `delete_strategy`; `docs/ADOPTION.md:90` says it is preserved.
- The comment at `controller_nvmeof.go:465` says that the subvolume is deleted
  first; the code deletes the subsystem first.
- A stage of an NVMe-oF volume whose controller was lost connects again, finds the
  old mount and succeeds on it although its device is dead.  For this reason
  `StagedOnOwnSession` speaks of iSCSI, and `StageKeepsSession` excepts the session
  that `connectAndStageDevice` has just made.  The monitor releases that mount
  later (`BrokenMountReleased`).
- `SizeBytes` of a snapshot is the present capacity of its source, not the one it was
  taken with.

## 7. Not modelled, and the plan

Not modelled because it keeps no state or is I/O: parsing of command output and
sysfs, mount options other than `ro`, credentials, filesystem repair, statistics,
volume health reports, metrics, dashboard, start-up, name templates,
ValidateVolumeCapabilities and GetCapacity, the content of list entries.

Planned, in this order:

1. `NodeStaging` over `LifecycleLocks` instead of the exclusion taken for granted.
2. `CloningCloneUsable` for chains, in which the source of a clone is provisioned
   later in the same behaviour.
