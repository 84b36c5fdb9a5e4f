------------------------ MODULE MCVolumeProvisioning ------------------------
(* Requests, names and backend contents for model checking.                *)
EXTENDS VolumeProvisioning, TLC

CONSTANTS r1, r2, a, b, l

ProvisionSymmetry == Permutations(Handlers) \union Permutations(UUIDs)

(* A request for a volume of two units, and its variations.                *)
Request(backend, legacy, proto, pvc) ==
    [name |-> None, backend |-> backend, legacy |-> legacy, proto |-> proto, pvc |-> pvc,
     adoptExisting |-> FALSE, markAdoptable |-> FALSE, strategy |-> "delete", cap |-> 2]
Adopting(r) == [r EXCEPT !.adoptExisting = TRUE]

(* A subvolume of an earlier release: managed, without version 2 identity. *)
Legacy(proto, pvc) ==
    [BlankSubvolume(2) EXCEPT !.managed = TRUE, !.proto = proto, !.pvc = pvc,
        !.strategy = "delete", !.cap = 2]

(* csi_volume_name is the subvolume's own name on a managed one.           *)
Named(n, s) == IF s = None THEN None ELSE IF s.managed THEN [s EXCEPT !.csi = n] ELSE s

Backends(xs, ys) ==
    {[n \in Names |-> CASE n = l -> Named(l, x) [] n = b -> Named(b, y) [] OTHER -> None] : x \in xs, y \in ys}

World(p1, p2, subs) == {[profile |-> r1 :> p1 @@ r2 :> p2, subs |-> s] : s \in subs}

(* Two requests with backend names of their own and one legacy name, which *)
(* a nameTemplate such as {{.PVCName}} gives to PVCs of two namespaces.    *)
(* That name is free, holds r1's volume of an earlier release, a volume of *)
(* another protocol, or something the driver does not manage.              *)
ForRetained(p, subs) ==
    World(Request(a, l, p, 1), [Request(b, l, p, 2) EXCEPT !.strategy = "retain"], subs)

Provisioning ==
    UNION {ForRetained(p, Backends({None, Legacy(p, 1), BlankSubvolume(2)}, {None})) : p \in Protocols}
        \union ForRetained("nfs", Backends({Legacy("smb", 1)}, {None}))

(* r1 may adopt and finds its volume by PVC identity or by legacy name, r2 *)
(* does not say so but its volume, named by its own request name, is       *)
(* marked adoptable.                                                       *)
Adoptions ==
    UNION {World(Adopting(Request(a, l, p, 1)),
                 [Request(b, b, p, 0) EXCEPT !.name = b, !.markAdoptable = TRUE],
                 Backends({None, Legacy(p, 1), BlankSubvolume(1)},
                          {None, [Legacy(p, 3) EXCEPT !.adoptable = TRUE]})) : p \in Protocols}

Everything == Provisioning \union Adoptions

(* The hypothesis of the proofs about ownership holds in these worlds.     *)
ASSUME EverythingClaimedOnce == \A w \in Everything : SoleClaimant(w)

(* Two PVCs called the same in two namespaces, both allowed to adopt.      *)
SameLegacyName ==
    World(Adopting(Request(a, l, "nfs", 1)), Adopting(Request(b, l, "nfs", 2)),
          Backends({BlankSubvolume(2)}, {None}))

(* A PVC that is deleted and created again: a new request, the same PVC.   *)
RecreatedPVC ==
    World([Request(a, a, "nfs", 1) EXCEPT !.markAdoptable = TRUE],
          [Request(b, b, "nfs", 1) EXCEPT !.markAdoptable = TRUE], Backends({None}, {None}))

(* An adopter that asks for more than the volume has.                      *)
SmallOrphan ==
    World([Adopting(Request(a, l, "nfs", 1)) EXCEPT !.cap = 3], Request(b, b, "nfs", 2),
          Backends({Legacy("nfs", 1)}, {None}))
=============================================================================
