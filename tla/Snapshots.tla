------------------------------ MODULE Snapshots ------------------------------
(***************************************************************************)
(* CreateSnapshot, DeleteSnapshot (controller_snapshot.go) and             *)
(* ControllerGetSnapshot through listSnapshotByID                          *)
(* (controller_snapshot_list.go): each backend call is an action.          *)
(*                                                                         *)
(* The only state the driver keeps of a snapshot is the ID it returns; a   *)
(* deletion or a query starts from nothing else.  IDs are the sequences of *)
(* words and separators that encodeSnapshotID joins, because volume names  *)
(* may contain the separator it uses first.                                *)
(***************************************************************************)
EXTENDS Integers, Sequences, FiniteSetsExt

CONSTANTS
    Volumes,     \* volume IDs, sequences of words and separators
    Protocol,    \* Protocol[v]: the protocol recorded with v, or "" for none
    Contents,    \* what the CO has snapshots of: VolumeSnapshotContents
    Name,        \* Name[c]: the name asked for, a sequence of words
    SourceOf,    \* SourceOf[c]: the volume asked for
    Stamps,      \* creation times the backend may give; 0 is an unknown one
    MaxFaults,   \* calls that fail or lose their answer, and restarts
    MaxRemovals, \* volumes that are deleted
    None         \* nothing there

ASSUME SnapshotsAssumption ==
    /\ \A v \in Volumes : v \in Seq(STRING) /\ Protocol[v] \in {"nfs", "smb", "iscsi", "nvmeof", ""}
    /\ \A c \in Contents : Name[c] \in Seq(STRING) /\ SourceOf[c] \in Volumes
    /\ \A c, d \in Contents : c # d => <<Name[c], SourceOf[c]>> # <<Name[d], SourceOf[d]>>
    /\ Stamps \subseteq Nat /\ MaxFaults \in Nat /\ MaxRemovals \in Nat
    /\ None \notin Stamps /\ None \notin [volume : Seq(STRING), name : Seq(STRING)]

VARIABLES
    vols,   \* the volumes that exist
    snaps,  \* snaps[v, n]: the creation time of the snapshot n of v, or None
    co,     \* co[c]: what the CO knows: phase, id, creation time, last query
    pc,     \* pc[c]: where the RPC for c is, or "idle"
    seen,   \* seen[c]: the snapshots of the source, as that RPC read them
    faults, removals

vars == <<vols, snaps, co, pc, seen, faults, removals>>

Names == {Name[c] : c \in Contents}
PCs == {"idle", "lookup", "unique", "times", "create", "delete", "get", "getTimes"}
Phases == {"wanted", "ready", "deleting", "deleted"}
Queries == {"none", "found", "missing"}

Init ==
    /\ vols = Volumes /\ snaps = [s \in Volumes \X Names |-> None]
    /\ co = [c \in Contents |-> [phase |-> "wanted", id |-> <<>>, at |-> None, query |-> "none"]]
    /\ pc = [c \in Contents |-> "idle"] /\ seen = [c \in Contents |-> {}]
    /\ faults = 0 /\ removals = 0

-----------------------------------------------------------------------------
(* Snapshot IDs: {protocol}:{volume_id}@{snapshot_name}.                   *)

encodeSnapshotID(p, v, n) == <<p, ":">> \o v \o <<"@">> \o n

Positions(id, word) == {i \in DOMAIN id : id[i] = word}

(* Mutant: the protocol ends at the last colon.                            *)
DecodeAtLastColon(id) ==
    LET colon == Max(Positions(id, ":"))
        rest  == SubSeq(id, colon + 1, Len(id))
        at    == Max(Positions(rest, "@"))
    IN  IF Positions(id, ":") = {} \/ Len(SubSeq(id, 1, colon - 1)) # 1 \/ Positions(rest, "@") = {}
        THEN None
        ELSE [volume |-> SubSeq(rest, 1, at - 1), name |-> SubSeq(rest, at + 1, Len(rest))]

(* The protocol ends at the first colon, the volume at the last @.         *)
decodeSnapshotID(id) ==
    LET colon == Min(Positions(id, ":"))
        proto == SubSeq(id, 1, colon - 1)
        rest  == SubSeq(id, colon + 1, Len(id))
        at    == Max(Positions(rest, "@"))
    IN  IF Positions(id, ":") = {} THEN None
        ELSE IF proto \notin {<<p>> : p \in {"nfs", "smb", "iscsi", "nvmeof"}} THEN None
        ELSE IF Positions(rest, "@") \in {{}, {1}} \/ at = Len(rest) THEN None
        ELSE [volume |-> SubSeq(rest, 1, at - 1), name |-> SubSeq(rest, at + 1, Len(rest))]

ProtocolOf(v) == IF Protocol[v] = "" THEN "nfs" ELSE Protocol[v]

(* Every ID the driver hands out, and what it makes of it later.           *)
SnapshotIDs == {encodeSnapshotID(ProtocolOf(v), v, n) : v \in Volumes, n \in Names}
Decoded == [id \in SnapshotIDs |-> decodeSnapshotID(id)]

-----------------------------------------------------------------------------
(* The backend (external).                                                 *)

Goto(c, l) == pc' = [pc EXCEPT ![c] = l]
Return(c) == Goto(c, "idle")
Ok == UNCHANGED faults
Fault == faults < MaxFaults /\ faults' = faults + 1
Failed(c) == Fault /\ Return(c) /\ UNCHANGED <<snaps, co, seen>>

SnapshotsOf(v) == {n \in Names : snaps[<<v, n>>] # None}
Here(c) == <<SourceOf[c], Name[c]>>

-----------------------------------------------------------------------------
(* CreateSnapshot.                                                         *)

CreateSnapshot(c) ==
    /\ pc[c] = "idle" /\ co[c].phase = "wanted" /\ Goto(c, "lookup")
    /\ UNCHANGED <<snaps, co, seen, faults>>

(* GetSubvolume.  A failed lookup is answered like a missing volume.       *)
LookupSource(c) ==
    /\ pc[c] = "lookup" /\ UNCHANGED <<snaps, co>>
    /\ \/ /\ Ok /\ SourceOf[c] \in vols /\ Goto(c, "unique")
          /\ seen' = [seen EXCEPT ![c] = SnapshotsOf(SourceOf[c])]
       \/ Ok /\ SourceOf[c] \notin vols /\ Return(c) /\ UNCHANGED seen
       \/ Fault /\ Return(c) /\ UNCHANGED seen

(* Mutant: a snapshot that exists is created again.                        *)
AlwaysCreate(c) == "create"

AfterUnique(c) == IF Name[c] \in seen[c] THEN "times" ELSE "create"

(* FindManagedSubvolumes: the name must not be a snapshot of another       *)
(* volume.  An error of the call is ignored.                               *)
CheckUnique(c) ==
    LET taken == \E v \in vols \ {SourceOf[c]} : Name[c] \in SnapshotsOf(v)
    IN  /\ pc[c] = "unique" /\ UNCHANGED <<snaps, co, seen>>
        /\ \/ Ok /\ taken /\ Return(c)
           \/ Ok /\ ~taken /\ Goto(c, AfterUnique(c))
           \/ Fault /\ Goto(c, AfterUnique(c))

(* Mutant: the key is the name of the snapshot alone.                      *)
KeyByName(v, n) == {s \in DOMAIN snaps : s[2] = n}

(* snapshotCreationKey: subvolume and snapshot name.                       *)
snapshotCreationKey(v, n) == {<<v, n>>}

(* snapshotCreationTimes over the listing, and csiSnapshotCreationTime:    *)
(* the times a lookup may answer, none when the time is unknown.           *)
creationTimes(v, n) ==
    {snaps[s] : s \in {s \in snapshotCreationKey(v, n) : snaps[s] # None}} \ {0}

Answer(c, t) ==
    /\ Return(c)
    /\ co' = [co EXCEPT ![c].phase = "ready", ![c].at = t,
                 ![c].id = encodeSnapshotID(ProtocolOf(SourceOf[c]), SourceOf[c], Name[c])]

(* The snapshot was there already: its creation time is looked up.         *)
ExistingSnapshot(c) ==
    LET times == creationTimes(SourceOf[c], Name[c])
    IN  /\ pc[c] = "times" /\ UNCHANGED <<snaps, seen>>
        /\ \/ Ok /\ \E t \in times : Answer(c, t)
           \/ Ok /\ times = {} /\ Return(c) /\ UNCHANGED co
           \/ Fault /\ Return(c) /\ UNCHANGED co

(* The backend refuses a name that exists and a volume that is gone.  A    *)
(* snapshot whose creation time is unknown is created and not answered.    *)
NewSnapshot(c) ==
    LET free == SourceOf[c] \in vols /\ snaps[Here(c)] = None
        make(t) == snaps' = [snaps EXCEPT ![Here(c)] = t]
    IN  /\ pc[c] = "create" /\ UNCHANGED seen
        /\ \/ Ok /\ free /\ \E t \in Stamps \ {0} : make(t) /\ Answer(c, t)
           \/ Ok /\ free /\ 0 \in Stamps /\ make(0) /\ Return(c) /\ UNCHANGED co
           \/ Ok /\ ~free /\ Return(c) /\ UNCHANGED <<snaps, co>>
           \/ Fault /\ free /\ (\E t \in Stamps : make(t)) /\ Return(c) /\ UNCHANGED co
           \/ Fault /\ Return(c) /\ UNCHANGED <<snaps, co>>

-----------------------------------------------------------------------------
(* DeleteSnapshot and ControllerGetSnapshot.                               *)

(* The CO asks for the deletion of what it was given, and repeats it.      *)
DeleteSnapshot(c) ==
    /\ pc[c] = "idle" /\ co[c].phase \in {"ready", "deleting"} /\ Goto(c, "delete")
    /\ co' = [co EXCEPT ![c].phase = "deleting"]
    /\ UNCHANGED <<snaps, seen, faults>>

(* Mutant: a snapshot that is not found is an error.                       *)
RemoveMustFind(c) ==
    LET m == Decoded[co[c].id]
    IN  /\ pc[c] = "delete" /\ Return(c) /\ UNCHANGED seen
        /\ \/ /\ snaps[<<m.volume, m.name>>] # None /\ snaps' = [snaps EXCEPT ![<<m.volume, m.name>>] = None]
              /\ \/ Ok /\ co' = [co EXCEPT ![c].phase = "deleted"]
                 \/ Fault /\ UNCHANGED co
           \/ Ok /\ snaps[<<m.volume, m.name>>] = None /\ UNCHANGED <<snaps, co>>

(* An ID that cannot be decoded, and a snapshot that is not found, count   *)
(* as deleted.                                                             *)
Remove(c) ==
    LET m == Decoded[co[c].id]
        found == m # None /\ <<m.volume, m.name>> \in DOMAIN snaps /\ snaps[<<m.volume, m.name>>] # None
        gone == found /\ snaps' = [snaps EXCEPT ![<<m.volume, m.name>>] = None]
        done == Return(c) /\ co' = [co EXCEPT ![c].phase = "deleted"]
    IN  /\ pc[c] = "delete" /\ UNCHANGED seen
        /\ \/ Ok /\ gone /\ done
           \/ Ok /\ ~found /\ done /\ UNCHANGED snaps
           \/ Fault /\ gone /\ Return(c) /\ UNCHANGED co
           \/ Fault /\ Return(c) /\ UNCHANGED <<snaps, co>>

ControllerGetSnapshot(c) ==
    /\ pc[c] = "idle" /\ co[c].phase = "ready" /\ Goto(c, "get")
    /\ UNCHANGED <<snaps, co, seen, faults>>

Told(c, q) == Return(c) /\ co' = [co EXCEPT ![c].query = q]

(* A failed lookup of the source is answered with NotFound as well.        *)
listSnapshotByID(c) ==
    LET m == Decoded[co[c].id]
        times == creationTimes(m.volume, m.name)
    IN  /\ UNCHANGED <<snaps, seen>>
        /\ \/ /\ pc[c] = "get" /\ Ok
              /\ IF m = None THEN Told(c, "missing")
                 ELSE IF m.volume \notin vols THEN Told(c, "missing")
                 ELSE IF m.name \notin SnapshotsOf(m.volume) THEN Told(c, "missing")
                 ELSE Goto(c, "getTimes") /\ UNCHANGED co
           \/ pc[c] = "get" /\ Fault /\ Told(c, "missing")
           \/ /\ pc[c] = "getTimes" /\ Ok /\ Return(c)
              /\ co' \in IF times = {} THEN {co}
                        ELSE {[co EXCEPT ![c].query = "found", ![c].at = t] : t \in times}
           \/ pc[c] = "getTimes" /\ Failed(c)

-----------------------------------------------------------------------------
(* The controller restarts; volumes are deleted and their snapshots stay.  *)
Crash ==
    /\ \E c \in Contents : pc[c] # "idle"
    /\ Fault /\ pc' = [c \in Contents |-> "idle"] /\ UNCHANGED <<vols, snaps, co, seen, removals>>

VolumeDeleted(v) ==
    /\ v \in vols /\ removals < MaxRemovals
    /\ vols' = vols \ {v} /\ removals' = removals + 1
    /\ UNCHANGED <<snaps, co, pc, seen, faults>>

Rpc(c) ==
    /\ \/ LookupSource(c) \/ CheckUnique(c) \/ ExistingSnapshot(c) \/ NewSnapshot(c)
       \/ Remove(c) \/ listSnapshotByID(c)
    /\ UNCHANGED <<vols, removals>>

Next ==
    \/ \E c \in Contents :
          \/ Rpc(c)
          \/ (CreateSnapshot(c) \/ DeleteSnapshot(c) \/ ControllerGetSnapshot(c)) /\ UNCHANGED <<vols, removals>>
    \/ Crash
    \/ \E v \in Volumes : VolumeDeleted(v)

Spec == Init /\ [][Next]_vars

(* An RPC goroutine runs to its end, and the sidecar repeats what was not  *)
(* answered with success; nobody has to ask for a deletion.                *)
Progress(c) ==
    \/ Rpc(c)
    \/ CreateSnapshot(c) /\ UNCHANGED <<vols, removals>>
    \/ co[c].phase = "deleting" /\ DeleteSnapshot(c) /\ UNCHANGED <<vols, removals>>

FairSpec == Spec /\ \A c \in Contents : WF_vars(Progress(c))

-----------------------------------------------------------------------------
(* Properties.                                                             *)

(* Every variable has the shape its declaration promises.                  *)
TypeOK ==
    /\ vols \subseteq Volumes
    /\ snaps \in [Volumes \X Names -> Stamps \union {None}]
    /\ co \in [Contents -> [phase : Phases, id : SnapshotIDs \union {<<>>},
                            at : (Stamps \ {0}) \union {None}, query : Queries]]
    /\ pc \in [Contents -> PCs] /\ seen \in [Contents -> SUBSET Names]
    /\ faults \in 0 .. MaxFaults /\ removals \in 0 .. MaxRemovals

(* A snapshot the CO was told is ready exists until the CO asks for its    *)
(* deletion, whatever happens to other snapshots, to the source volume and *)
(* to the driver, and the creation time in the answer, whether it was just *)
(* created, found again by a retry or queried, is its own.                 *)
ReadySnapshotKept ==
    \A c \in Contents :
        co[c].phase = "ready" => snaps[Here(c)] # None /\ co[c].at = snaps[Here(c)]

(* A snapshot the CO was told is deleted is gone: the ID alone leads the   *)
(* deletion to the right volume and snapshot, also after that volume is    *)
(* gone, and the answer "already deleted" is never wrong.                  *)
DeletedIsGone ==
    \A c \in Contents : co[c].phase = "deleted" => snaps[Here(c)] = None

(* A retried creation ends: a snapshot that an earlier attempt left behind *)
(* is answered, not refused, unless the volume is gone, the name is in use *)
(* elsewhere or the backend does not know when it was created.             *)
SnapshotTaken ==
    \A c \in Contents :
        co[c].phase = "wanted" ~>
            \/ co[c].phase # "wanted" \/ SourceOf[c] \notin vols \/ snaps[Here(c)] = 0
            \/ \E v \in vols \ {SourceOf[c]} : Name[c] \in SnapshotsOf(v)

(* A deletion that is repeated until it succeeds completes.                *)
DeletionCompletes ==
    \A c \in Contents : co[c].phase = "deleting" ~> co[c].phase = "deleted"

(* "If it exists on a DIFFERENT volume, return ALREADY_EXISTS per CSI      *)
(* spec": a name is ready on one volume only.                              *)
NameOnOneVolume ==
    \A c, d \in Contents :
        c # d /\ Name[c] = Name[d] => ~(co[c].phase = "ready" /\ co[d].phase = "ready")

(* docs/SNAPSHOTS.md: "Snapshots survive deletion of the source volume".   *)
(* A query for a snapshot that is ready does not answer NotFound.          *)
ReadySnapshotFound ==
    \A c \in Contents : co[c].phase = "ready" => co[c].query # "missing"
=============================================================================
