--------------------------- MODULE MCVolumeCloning ---------------------------
(* Sources, snapshots and requests for model checking.                     *)
EXTENDS VolumeCloning, TLC

CONSTANTS r0, r1, src, dst, leg, u0

CloneSymmetry == Permutations(Handlers) \union Permutations(UUIDs \ {u0})

(* r0 owns the source src; r1 asks for a clone of it, called dst or, by an *)
(* earlier release, leg.                                                   *)
Owner(proto) ==
    [name |-> None, backend |-> src, legacy |-> src, proto |-> proto, pvc |-> 1,
     adoptExisting |-> FALSE, markAdoptable |-> FALSE, strategy |-> "delete", cap |-> 2]
Cloner(proto, cap) == [Owner(proto) EXCEPT !.backend = dst, !.legacy = leg, !.pvc = 2, !.cap = cap]

(* A source of this release, and one of an earlier one.                    *)
Current(proto) ==
    [managed |-> TRUE, request |-> r0, uuid |-> u0, csi |-> src, proto |-> proto, pvc |-> 1,
     adoptable |-> FALSE, strategy |-> "delete", cap |-> 2, size |-> 2]
Earlier(proto) == [Current(proto) EXCEPT !.request = None, !.uuid = None]

(* What an earlier release left at leg, for the PVC of r1 or another one: *)
(* a clone of the source, or something else.                               *)
Left(proto, pvc) == [Earlier(proto) EXCEPT !.csi = leg, !.pvc = pvc]
FromSource == [kind |-> "volume", of |-> src]

Content(kind, limit) == [kind |-> kind, of |-> src, limit |-> limit]

World(proto, cap, source, left, origin, c, snapshot) ==
    [profile |-> r0 :> Owner(proto) @@ r1 :> Cloner(proto, cap),
     subs |-> src :> source @@ dst :> None @@ leg :> left,
     from |-> src :> None @@ dst :> None @@ leg :> origin,
     content |-> r0 :> None @@ r1 :> c,
     snaps |-> src :> snapshot @@ dst :> None @@ leg :> None,
     bound |-> r0 :> (IF source = None THEN "gone" ELSE src) @@ r1 :> None]

(* A clone of a volume of two units.                                       *)
OfVolume(proto, source, cap, limit) ==
    {World(proto, cap, source, None, None, Content("volume", limit), None)}
OverLeft(proto, pvc, origin) ==
    {World(proto, 2, Earlier(proto), Left(proto, pvc), origin, Content("volume", 0), None)}

(* A clone of a snapshot of two units.                                     *)
OfSnapshot(proto, source, cap, limit) ==
    {World(proto, cap, source, None, None, Content("snapshot", limit), Current(proto))}
Grown(proto) == [Current(proto) EXCEPT !.cap = 4, !.size = 4]

(* Smaller, equal and larger requests, limits that cannot be kept before   *)
(* or after the resize, a source that is gone or has grown, and one of an  *)
(* earlier release.                                                        *)
Clones == OfVolume("iscsi", Current("iscsi"), 1, 1) \union OfVolume("nfs", Current("nfs"), 3, 4)
    \union OfVolume("smb", Earlier("smb"), 3, 0)
    \union OfSnapshot("nfs", Current("nfs"), 3, 3) \union OfSnapshot("nfs", Grown("nfs"), 1, 2)
    \union OfSnapshot("nvmeof", None, 3, 4)
    \union OverLeft("nfs", 2, FromSource) \union OverLeft("nfs", 2, None)
    \union OverLeft("nfs", 3, None)

(* Neither has a content source: r0 adopts what it finds under its name,   *)
(* and r1 finds nothing.                                                   *)
Adopts(proto, found) ==
    {[World(proto, 2, None, None, None, None, None) EXCEPT
        !.profile[r0].adoptExisting = TRUE, !.subs[src] = found, !.bound[r0] = None]}
Adoptions == Adopts("smb", Earlier("smb")) \union Adopts("iscsi", BlankSubvolume(1))

Cloning == Clones \union Adoptions

ASSUME CloningSettled == \A w \in Cloning : Settled(w)

OneClone == OfVolume("nfs", Current("nfs"), 3, 4)

(* A source of an earlier release that has grown since its snapshot.       *)
EarlierGrown ==
    {World("nfs", 2, [Earlier("nfs") EXCEPT !.cap = 4, !.size = 4], None, None,
           Content("snapshot", 0), Earlier("nfs"))}

(* A source that may be adopted.                                           *)
AdoptableSource == OfVolume("nfs", [Current("nfs") EXCEPT !.adoptable = TRUE], 3, 4)
=============================================================================
