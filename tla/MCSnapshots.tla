----------------------------- MODULE MCSnapshots -----------------------------
(* Two volumes, one with a colon in its name, and a snapshot of each.        *)
EXTENDS Snapshots, TLC

CONSTANTS c1, c2

Plain == <<"tank", "/", "pvc">>
Colon == <<"tank", "/", "team", ":", "pvc">>

BothVolumes == {Plain, Colon}
Protocols == Plain :> "" @@ Colon :> "nvmeof"

(* c1 and c2 are of different volumes and ask for the same name.           *)
SameName == c1 :> <<"nightly">> @@ c2 :> <<"nightly">>
Sources == c1 :> Plain @@ c2 :> Colon
=============================================================================
