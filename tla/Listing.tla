------------------------------- MODULE Listing -------------------------------
(***************************************************************************)
(* A caller pages through ListVolumes (controller.go) or ListSnapshots     *)
(* (controller_snapshot_list.go) while volumes and snapshots come and go.  *)
(* Every call reads the whole listing anew; the token is all that links    *)
(* one page to the next.  ListVolumes resumes after the volume the token   *)
(* names, ListSnapshots at an offset.                                      *)
(***************************************************************************)
EXTENDS Integers, Sequences, FiniteSets

CONSTANTS
    IDs,         \* volume or snapshot IDs, numbered in the order they are listed in
    PageSizes,   \* values of max_entries; 0 asks for everything
    MaxChanges   \* creations and deletions while the caller is paging

ASSUME ListingAssumption ==
    IDs \subseteq Nat \ {0} /\ IsFiniteSet(IDs) /\ PageSizes \subseteq Nat /\ MaxChanges \in Nat

VARIABLES
    rpc,       \* which listing the caller pages through
    max,       \* max_entries of every call
    there,     \* the IDs that exist, and have the metadata an entry needs
    token,     \* starting_token of the next call; 0 is the empty token
    got,       \* the entries the caller has received
    state,     \* "paging", "done" or "aborted"
    stable,    \* the IDs that have existed since the first call
    hidden,    \* a failed backend call was answered like an empty listing
    added, removed

vars == <<rpc, max, there, token, got, state, stable, hidden, added, removed>>

Rpcs == {"ListVolumes", "listSnapshotsBySourceVolume", "listAllSnapshots"}

Init ==
    /\ rpc \in Rpcs /\ max \in PageSizes /\ there \in SUBSET IDs
    /\ token = 0 /\ got = <<>> /\ state = "paging" /\ stable = there
    /\ hidden = FALSE /\ added = 0 /\ removed = 0

-----------------------------------------------------------------------------
(* One call.                                                               *)

(* The number of entries before i when S is listed.                        *)
Rank(S, i) == Cardinality({j \in S : j < i})

(* The backend answers in a stable order; ListSnapshots sorts.             *)
Listed == [k \in 1..Cardinality(there) |-> CHOOSE i \in there : Rank(there, i) = k - 1]

(* The caller takes a page and goes on, or is done.                        *)
Page(first, last, next) ==
    /\ got' = got \o SubSeq(Listed, first, last)
    /\ token' = next /\ state' = IF next = 0 THEN "done" ELSE "paging"

Limit(start) == IF max > 0 /\ start + max < Len(Listed) THEN start + max ELSE Len(Listed)

(* Mutant: the token names the first entry of the next page.               *)
TokenOfNextPage(end) == IF end < Len(Listed) THEN Listed[end + 1] ELSE 0

(* The token is the last volume of the page.                               *)
NextVolumeToken(end) == IF end < Len(Listed) THEN Listed[end] ELSE 0

(* A token that names no listed volume is answered with Aborted.           *)
ListVolumes ==
    /\ rpc = "ListVolumes"
    /\ \/ /\ token = 0 \/ token \in there
          /\ LET start == IF token = 0 THEN 0 ELSE CHOOSE i \in DOMAIN Listed : Listed[i] = token
             IN  Page(start + 1, Limit(start), NextVolumeToken(Limit(start)))
       \/ /\ token # 0 /\ token \notin there
          /\ state' = "aborted" /\ UNCHANGED <<token, got>>

(* Mutant: the offset is one too far.                                      *)
OffsetPastNext(end) == IF end < Len(Listed) THEN end + 1 ELSE 0

(* encodeSnapshotToken, parseSnapshotToken: the offset of the next page.   *)
NextSnapshotToken(end) == IF end < Len(Listed) THEN end ELSE 0

(* An offset past the end is answered with an empty last page.             *)
PageAt(start) ==
    IF start >= Len(Listed) THEN Page(1, 0, 0)
    ELSE Page(start + 1, Limit(start), NextSnapshotToken(Limit(start)))

(* max_entries 0 means as many as the source has.                          *)
listSnapshotsBySourceVolume == rpc = "listSnapshotsBySourceVolume" /\ PageAt(token)
listAllSnapshots == rpc = "listAllSnapshots" /\ PageAt(token)

(* GetSubvolume or FindManagedSubvolumes fails: an empty last page.  In    *)
(* ListVolumes that is an error, and so is an unknown creation time; the   *)
(* caller repeats the call.                                                *)
BackendFails ==
    /\ rpc # "ListVolumes" /\ hidden' = TRUE /\ Page(1, 0, 0)

Call ==
    /\ state = "paging"
    /\ \/ (ListVolumes \/ listSnapshotsBySourceVolume \/ listAllSnapshots) /\ UNCHANGED hidden
       \/ BackendFails
    /\ UNCHANGED <<rpc, max, there, stable, added, removed>>

-----------------------------------------------------------------------------
(* Meanwhile.                                                              *)

Created(i) ==
    /\ state = "paging" /\ i \notin there /\ added + removed < MaxChanges
    /\ there' = there \union {i} /\ added' = added + 1
    /\ UNCHANGED <<rpc, max, token, got, state, stable, hidden, removed>>

Deleted(i) ==
    /\ state = "paging" /\ i \in there /\ added + removed < MaxChanges
    /\ there' = there \ {i} /\ stable' = stable \ {i} /\ removed' = removed + 1
    /\ UNCHANGED <<rpc, max, token, got, state, hidden, added>>

Next == Call \/ \E i \in IDs : Created(i) \/ Deleted(i)

Spec == Init /\ [][Next]_vars

-----------------------------------------------------------------------------
(* Properties.                                                             *)

(* Every variable has the shape its declaration promises.                  *)
TypeOK ==
    /\ rpc \in Rpcs /\ max \in PageSizes /\ there \subseteq IDs /\ token \in Nat
    /\ got \in Seq(IDs) /\ state \in {"paging", "done", "aborted"}
    /\ stable \subseteq there /\ hidden \in BOOLEAN
    /\ added \in Nat /\ removed \in Nat /\ added + removed <= MaxChanges

Times(i) == Cardinality({k \in DOMAIN got : got[k] = i})

(* Whatever is created and deleted meanwhile, a caller that reaches the    *)
(* end of ListVolumes has received each volume that existed throughout     *)
(* exactly once, and no volume twice.                                      *)
VolumesListedOnce ==
    rpc = "ListVolumes" /\ state = "done" =>
        (\A i \in IDs : Times(i) <= 1) /\ (\A i \in stable : Times(i) = 1)

(* Offsets move with the listing: each deletion can hide one snapshot that *)
(* existed throughout and each creation can repeat one, but no more; when  *)
(* nothing changes the pages are the listing.  Only a failed backend call  *)
(* that is answered like an empty listing hides more.                      *)
SnapshotsMissedBounded ==
    rpc # "ListVolumes" /\ state = "done" /\ ~hidden =>
        /\ Cardinality({i \in stable : Times(i) = 0}) <= removed
        /\ \A i \in IDs : Times(i) <= 1 + added
=============================================================================
