---------------------------- MODULE NodeRecovery ----------------------------
(***************************************************************************)
(* The background recovery of the node service (pkg/driver/node_recovery.go) *)
(* beside the RPCs of NodeStaging.  Every 30 seconds the health monitor    *)
(* revives sessions, remounts filesystems that have become read-only and   *)
(* unmounts staging paths whose device is gone; the first part also runs   *)
(* when the websocket to the NAS is back.  Neither takes the lifecycle     *)
(* locks, and both work through lists they read at the start.              *)
(***************************************************************************)
EXTENDS NodeStaging

CONSTANTS
    Scans,           \* goroutines that scan: "loop", "reconnect"
    ReadOnlyVolumes, \* volumes whose mountOptions contain "ro"
    CooldownChecks,  \* health checks within unmountCooldown
    Multipath        \* whether NVMe namespaces are named after subsystems

ASSUME RecoveryAssumption ==
    /\ Scans \subseteq {"loop", "reconnect"} /\ ReadOnlyVolumes \subseteq Volumes
    /\ CooldownChecks \in Nat /\ Multipath \in BOOLEAN

VARIABLES
    mon,       \* mon[m]: where scan m is, what it has still to visit, and
               \* the volume whose session it is busy with
    cooldown,  \* cooldown[v]: checks for which v's path is in recentUnmounts
    ro         \* volumes whose staging mount is read-only

rvars == <<vars, mon, cooldown, ro>>

NotScanning == [at |-> "idle", todo |-> {}, vol |-> None]

RInit ==
    /\ Init
    /\ mon = [m \in Scans |-> NotScanning]
    /\ cooldown = [v \in Volumes |-> 0]
    /\ ro = {}

To(m, pc, todo) == mon' = [mon EXCEPT ![m] = [at |-> pc, todo |-> todo, vol |-> None]]
Busy(m, pc, v) == mon' = [mon EXCEPT ![m].at = pc, ![m].vol = v]
Visited(m, x) == To(m, mon[m].at, mon[m].todo \ {x})
Resume(m, pc) == To(m, pc, mon[m].todo)

Scanning(m, pc) == mon[m].at = pc /\ UNCHANGED <<profile, rpc, Kubelet>>
NodeStays == UNCHANGED <<Node, cooldown, ro>>

-----------------------------------------------------------------------------
(* Phase 1: sessions.                                                      *)

(* The goroutine starts, with the disks it finds.                          *)
Start(m) ==
    /\ Scanning(m, "idle")
    /\ To(m, "iscsi", {d \in SCSIDevices : Exists(d)})
    /\ Works /\ NodeStays

healthMonitorLoop == "loop" \in Scans /\ Start("loop")
recoverVolumes == "reconnect" \in Scans /\ Start("reconnect")

(* By the state of the disk.                                               *)
iscsiSessionRecovering(d) == \E v \in Owners(d) : session[v].state = "recovering"

(* The target, of sysfs or of iscsiadm, that a disk belongs to.            *)
getISCSISessionInfo(d) == Owners(d)

(* A disk that is gone, or without its iscsi_session link, is skipped: the *)
(* link is commonly gone while the session is offline.  When the state of  *)
(* the disk cannot be read (Fault), that of the first session of the list  *)
(* is taken for it, which is no SCSI state and never a recovering one.     *)
recoverISCSISessions(m) ==
    /\ Scanning(m, "iscsi") /\ NodeStays
    /\ \/ \E d \in mon[m].todo :
            \/ Works /\ Visited(m, d)
            \/ \E v \in getISCSISessionInfo(d) :
                  /\ \/ session[v].state # "live" /\ ~iscsiSessionRecovering(d) /\ Works
                     \/ AnyDown /\ Fault
                  /\ mon' = [mon EXCEPT ![m] = [at |-> "rescan", todo |-> @.todo \ {d}, vol |-> v]]
       \/ /\ mon[m].todo = {} /\ Works
          /\ To(m, "nvme", {v \in Volumes : P(v).proto = "nvmeof" /\ session[v] # None})

(* The rescan may make the kernel reconnect.                               *)
Rescan(m) ==
    LET v == mon[m].vol IN
    /\ Scanning(m, "rescan") /\ Works
    /\ \/ /\ session[v] # None /\ session[v].state = "failed"
          /\ session' = [session EXCEPT ![v].state = "recovering"]
       \/ UNCHANGED session
    /\ Busy(m, "check", v) /\ UNCHANGED <<path, pub, cooldown, ro>>

(* The state of the sessions after the rescan: one that is logged in will  *)
(* do, whichever it is.                                                    *)
CheckRescan(m) ==
    /\ Scanning(m, "check") /\ NodeStays
    /\ \/ Works /\ IF LoggedIn THEN Resume(m, "iscsi") ELSE Busy(m, "logout", mon[m].vol)
       \/ Fault /\ LoggedIn /\ Busy(m, "logout", mon[m].vol)

(* The node record stays.                                                  *)
ForceLogout(m) ==
    /\ Scanning(m, "logout") /\ UNCHANGED <<path, cooldown, ro>>
    /\ \/ Works /\ Disconnect(mon[m].vol)
       \/ Fault /\ UNCHANGED <<session, pub>>
    /\ Busy(m, "login", mon[m].vol)

(* A session that is there already is success.  The vol field is None when *)
(* an RPC has deleted the node record: then there is nothing to log in to. *)
Relogin(m) ==
    LET v == mon[m].vol IN
    /\ Scanning(m, "login") /\ UNCHANGED <<path, pub, cooldown, ro>>
    /\ \/ /\ v # None /\ session[v] = None /\ Works
          /\ \E d \in FreeDevices(v) :
                session' = [session EXCEPT ![v] = [dev |-> d, state |-> "live"]]
       \/ (IF v # None /\ session[v] = None THEN Fault ELSE Works) /\ UNCHANGED session
    /\ Resume(m, "iscsi")

recoverISCSISession(m) == Rescan(m) \/ CheckRescan(m) \/ ForceLogout(m) \/ Relogin(m)

(* A controller that is neither live nor reconnecting is reset, and the    *)
(* scan waits a while for it.                                              *)
recoverNVMeOFConnections(m) ==
    /\ Scanning(m, "nvme") /\ UNCHANGED <<path, pub, cooldown, ro>>
    /\ \/ \E v \in mon[m].todo :
            LET reset == session[v] # None /\ session[v].state \notin {"live", "recovering"}
            IN  /\ \/ reset /\ Works /\ session' = [session EXCEPT ![v].state = "recovering"]
                   \/ (IF reset THEN Fault ELSE Works) /\ UNCHANGED session
                /\ Visited(m, v)
       \/ /\ mon[m].todo = {} /\ Works /\ UNCHANGED session
          /\ To(m, IF m = "loop" THEN "findRO" ELSE "idle", {})

-----------------------------------------------------------------------------
(* Phases 2 and 3: mounts.                                                 *)

StagingMounts == {<<path[v].dev, v>> : v \in {w \in Volumes : path[w].kind = "mount" /\ path[w].dev \in Devices}}

(* The answers of blockdev.  A device whose session is live has a size,    *)
(* unless the command fails, takes more than 3 seconds or says 0 (Fault);  *)
(* one whose session is down may still answer; one that is gone does not.  *)
isDeviceAccessible(d, answer) ==
    IF answer THEN Exists(d) /\ Works ELSE IF Live(d) THEN Fault ELSE Works

(* Mutant: a mount is only remounted while its session is down.            *)
RemountInaccessible(m) ==
    \/ /\ Scanning(m, "findRO") /\ NodeStays
       /\ \/ Works /\ To(m, "remount", {x \in StagingMounts : x[2] \in ro /\ ~Live(x[1])})
          \/ Fault /\ To(m, "findmnt", {})
    \/ /\ Scanning(m, "remount") /\ UNCHANGED <<Node, cooldown>>
       /\ \/ \E x \in mon[m].todo : Works /\ Visited(m, x) /\ ro' = ro
          \/ mon[m].todo = {} /\ Works /\ To(m, "findmnt", {}) /\ UNCHANGED ro

(* Phase 2.  The mount table may be unreadable, and a remount may fail.    *)
remountReadOnlyVolumes(m) ==
    \/ /\ Scanning(m, "findRO") /\ NodeStays
       /\ \/ Works /\ To(m, "remount", {x \in StagingMounts : x[2] \in ro})
          \/ Fault /\ To(m, "findmnt", {})
    \/ /\ Scanning(m, "remount") /\ UNCHANGED <<Node, cooldown>>
       /\ \/ \E x \in mon[m].todo :
               /\ \/ isDeviceAccessible(x[1], TRUE) /\ ro' = ro \ {x[2]}
                  \/ isDeviceAccessible(x[1], FALSE) /\ UNCHANGED ro
               /\ Visited(m, x)
          \/ mon[m].todo = {} /\ Works /\ To(m, "findmnt", {}) /\ UNCHANGED ro

(* The controller with the number of namespace d.  Under native multipath  *)
(* it may be any controller, or none.                                      *)
NumberedController(d) == IF Multipath THEN {{v} : v \in {w \in Volumes : P(w).proto = "nvmeof"}} \union {{}}
                                      ELSE {Owners(d)}

(* The possible answers.                                                   *)
isNVMeDeviceRecovering(d) ==
    {(d \in NVMeDevices /\ \E v \in ctrl : session[v] # None /\ session[v].state = "recovering") :
        ctrl \in NumberedController(d)}

(* FALSE too when the iscsi_session link is gone or the state unreadable.  *)
isISCSIDeviceRecovering(d) == {FALSE, (d \in SCSIDevices /\ iscsiSessionRecovering(d))}

(* Mutant: old entries are not removed from recentUnmounts.                *)
NoExpiry(m) ==
    /\ Scanning(m, "findmnt") /\ UNCHANGED <<Node, ro, cooldown>>
    /\ \/ Works /\ To(m, "mounts", StagingMounts)
       \/ Fault /\ Resume(m, "idle")

(* Phase 3.  The list of mounts, and one check older cooldowns.            *)
FindMounts(m) ==
    /\ Scanning(m, "findmnt") /\ UNCHANGED <<Node, ro>>
    /\ \/ /\ Works /\ To(m, "mounts", StagingMounts)
          /\ cooldown' = [v \in Volumes |-> IF cooldown[v] > 0 THEN cooldown[v] - 1 ELSE 0]
       \/ Fault /\ Resume(m, "idle") /\ UNCHANGED cooldown

(* Source and target of a line of that list: the source decides whether    *)
(* the target is unmounted.  A controller's attributes may be unreadable   *)
(* (the last Fault).                                                       *)
CheckMount(m) ==
    /\ Scanning(m, "mounts") /\ NodeStays
    /\ \/ \E x \in mon[m].todo :
            LET d == x[1]
                unmount == mon' = [mon EXCEPT ![m] = [at |-> "umount", todo |-> @.todo \ {x}, vol |-> x[2]]]
            IN  \/ cooldown[x[2]] > 0 /\ Works /\ Visited(m, x)
                \/ /\ cooldown[x[2]] = 0
                   /\ \/ isDeviceAccessible(d, TRUE) /\ Visited(m, x)
                      \/ /\ isDeviceAccessible(d, FALSE)
                         /\ \E iscsi \in isISCSIDeviceRecovering(d), nvme \in isNVMeDeviceRecovering(d) :
                               IF iscsi \/ nvme THEN Visited(m, x) ELSE unmount
                      \/ TRUE \in isNVMeDeviceRecovering(d) /\ Fault /\ unmount
       \/ mon[m].todo = {} /\ Works /\ Resume(m, "idle")

(* umount -l.  The path goes on the cooldown list even if it fails.        *)
LazyUnmount(m) ==
    LET v == mon[m].vol IN
    /\ Scanning(m, "umount") /\ UNCHANGED <<session, pub>>
    /\ \/ /\ Works /\ path' = [path EXCEPT ![v] = IF @.kind = "mount" THEN Path("dir", None) ELSE @]
          /\ ro' = ro \ {v}
       \/ Fault /\ path[v].kind = "mount" /\ UNCHANGED <<path, ro>>
    /\ cooldown' = [cooldown EXCEPT ![v] = CooldownChecks]
    /\ Resume(m, "mounts")

unmountBrokenStagingPaths(m) == FindMounts(m) \/ CheckMount(m) \/ LazyUnmount(m)

ScanStep(m) ==
    \/ recoverISCSISessions(m) \/ recoverISCSISession(m) \/ recoverNVMeOFConnections(m)
    \/ remountReadOnlyVolumes(m) \/ unmountBrokenStagingPaths(m)

-----------------------------------------------------------------------------
(* Everything else on the node.                                            *)

(* A mount has the options of the storage class until something changes    *)
(* them.                                                                   *)
Mounts == ro' = {v \in Volumes : /\ path'[v].kind = "mount" /\ path'[v].dev \in Devices
                                 /\ v \in IF path[v].kind = "mount" THEN ro ELSE ReadOnlyVolumes}

(* The RPC of v has logged out w and deleted its node record.              *)
DeletesRecord(v, w) ==
    /\ rpc'[v] # rpc[v] /\ P(w).proto = "iscsi"
    /\ \/ v = w /\ rpc[v].at \in {"kill", "logout"}
       \/ rpc[v].at = "disconnect" /\ rpc[v].owner = w

(* The kubelet publishes a filesystem only while it finds the staging path *)
(* mounted.                                                                *)
MountCheck(v) ==
    rpc[v].op = "none" /\ rpc'[v].op = "publish" /\ ~P(v).block => path[v].kind = "mount"

RpcStep(v) ==
    /\ Rpc(v) /\ MountCheck(v) /\ Mounts
    /\ mon' = [m \in Scans |->
                 IF mon[m].at = "login" /\ mon[m].vol # None /\ DeletesRecord(v, mon[m].vol)
                 THEN [mon[m] EXCEPT !.vol = None] ELSE mon[m]]
    /\ UNCHANGED cooldown

KernelStep(v) == Kernel(v) /\ UNCHANGED <<mon, cooldown, ro>>

(* errors=remount-ro, on a filesystem whose device does not answer.        *)
KernelReadOnly(v) ==
    /\ path[v].kind = "mount" /\ path[v].dev \in Devices /\ v \notin ro
    /\ session[v] # None /\ session[v].state # "live"
    /\ ro' = ro \union {v} /\ UNCHANGED <<vars, mon, cooldown>>

(* The driver dies, and its goroutines and recentUnmounts with it.         *)
Restart ==
    /\ Fault
    /\ rpc' = [v \in Volumes |-> Idle]
    /\ mon' = [m \in Scans |-> NotScanning]
    /\ cooldown' = [v \in Volumes |-> 0]
    /\ rpc' # rpc \/ mon' # mon
    /\ UNCHANGED <<profile, Node, Kubelet, ro>>

RNext ==
    \/ \E v \in Volumes : RpcStep(v) \/ KernelStep(v) \/ KernelReadOnly(v)
    \/ healthMonitorLoop \/ recoverVolumes
    \/ \E m \in Scans : ScanStep(m)
    \/ Restart

RSpec == RInit /\ [][RNext]_rvars

(* The ticker keeps ticking, and every command has a timeout.              *)
RFairSpec == RSpec /\ WF_rvars(healthMonitorLoop) /\ \A m \in Scans : WF_rvars(ScanStep(m))

-----------------------------------------------------------------------------
(* Properties.                                                             *)

(* Every variable has the shape its declaration promises.                  *)
RTypeOK ==
    /\ TypeOK
    /\ \A m \in Scans :
          /\ mon[m].at \in {"idle", "iscsi", "rescan", "check", "logout", "login", "nvme",
                            "findRO", "remount", "findmnt", "mounts", "umount"}
          /\ mon[m].vol \in Volumes \union {None}
          /\ mon[m].at = "iscsi" => mon[m].todo \subseteq SCSIDevices
          /\ mon[m].at = "nvme" => mon[m].todo \subseteq Volumes
          /\ mon[m].at \in {"remount", "mounts", "umount"} => mon[m].todo \subseteq Devices \X Volumes
    /\ cooldown \in [Volumes -> 0..CooldownChecks]
    /\ ro \subseteq Volumes

(* A SINGLE_NODE_SINGLE_WRITER filesystem is writable at one target at     *)
(* most, also when the monitor has taken its staging mount away, or has    *)
(* logged it in again under another device name, and the volume has been   *)
(* staged and published anew: of the targets that still show a filesystem  *)
(* of the volume, one has its disk.  (checkSingleWriterPublication only    *)
(* sees the bind mounts of the device that is staged now.)                 *)
OneLiveWriter ==
    \A v \in Volumes : P(v).single /\ Block(v) /\ ~P(v).block =>
        Cardinality({t \in Targets : pub[v][t] \in Devices /\ Exists(pub[v][t])}) <= 1

(* "I/O will resume when the target comes back.  Do NOT unmount": a scan   *)
(* does not decide to unmount a filesystem while the kernel is             *)
(* reconnecting its session.                                               *)
RecoveringStaysMounted ==
    [][\A m \in Scans, v \in Volumes :
          /\ mon[m].at = "mounts" /\ mon'[m].at = "umount" /\ mon'[m].vol = v
          /\ session[v] # None /\ path[v] = Path("mount", session[v].dev)
          => session[v].state # "recovering"]_rvars

(* "Do NOT interfere - a forced logout/re-login would destroy the          *)
(* in-progress recovery": a scan does not end a session that the kernel is *)
(* reconnecting.                                                           *)
RecoveringSessionKept ==
    [][\A v \in Volumes :
          mon' # mon /\ rpc' = rpc /\ session[v] # None /\ session[v].state = "recovering"
          => session'[v] # None]_rvars

(* A staging path whose device is gone does not stay mounted: not behind   *)
(* an unmount that failed and went on the cooldown list, nor behind a      *)
(* stage that finds the path mounted and reports success.                  *)
MountedOnNothing(v) == path[v].kind = "mount" /\ path[v].dev \in Devices /\ ~Exists(path[v].dev)
BrokenMountReleased == \A v \in Volumes : MountedOnNothing(v) ~> ~MountedOnNothing(v)

(* A filesystem that an outage has made read-only becomes writable again,  *)
(* once its session is up.                                                 *)
ReadOnlyHealed ==
    \A v \in Volumes : v \in ro ~> v \notin ro \/ ~Healthy(v)

(* "Recovered via rescan": a session that recoverISCSISession reports as   *)
(* recovered is logged in.                                                 *)
RecoveredIsLive ==
    [][\A m \in Scans : mon[m].at = "check" /\ mon'[m].at = "iscsi" =>
          session[mon[m].vol] # None /\ session[mon[m].vol].state = "live"]_rvars

(* "User options take precedence": a filesystem whose mountOptions say ro  *)
(* stays read-only.                                                        *)
UserReadOnlyKept ==
    \A v \in ReadOnlyVolumes : path[v].kind = "mount" /\ path[v].dev \in Devices => v \in ro

(* A pod gets the volume or nothing: what is published for a filesystem on *)
(* a block device is never the directory under the staging mount.          *)
PublishedShowsVolume ==
    \A v \in Volumes, t \in Targets : Block(v) => pub[v][t] # "bare"
=============================================================================
