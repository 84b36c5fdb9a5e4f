------------------------ MODULE VolumeExpansionProof ------------------------
(***************************************************************************)
(* Proofs about VolumeExpansion, for any sizes, alignments, requests and   *)
(* number of concurrent handlers.                                          *)
(*                                                                         *)
(* ExpansionResponseInRange needs the arithmetic of Capacity: an accepted  *)
(* plan lies between required and limit.  The other theorems need the size *)
(* never to shrink, which a backend that refuses to shrink gives, and so   *)
(* do requests that come one after the other: then what a handler read is  *)
(* still there when it acts on it (SerialInv).  In both cases it is a      *)
(* lower bound of the size for as long as the handler goes by it, the      *)
(* strengthening that makes the invariant inductive (PromiseInv).          *)
(***************************************************************************)
EXTENDS VolumeExpansion, TLAPS

-----------------------------------------------------------------------------
(* Division with remainder, in the form the provers use below.             *)
LEMMA Division ==
    ASSUME NEW a \in Nat \ {0}, NEW m \in Nat
    PROVE  /\ m \div a \in Nat
           /\ m % a \in 0 .. (a - 1)
           /\ m = a * (m \div a) + (m % a)
  OBVIOUS

LEMMA MultipleHasNoRemainder ==
    ASSUME NEW a \in Nat \ {0}, NEW q \in Nat
    PROVE  (q * a) % a = 0
  OBVIOUS

(* The next multiple of one number is at least one whole a further on.     *)
LEMMA MultiplesApart ==
    ASSUME NEW a \in Nat \ {0}, NEW p \in Nat, NEW q \in Nat, q * a < p * a
    PROVE  q * a + a =< p * a
  OBVIOUS

(* Rounding up gives the smallest multiple of a that is not below n.       *)
LEMMA RoundUpSmallest ==
    ASSUME NEW a \in Nat \ {0}, NEW n \in Nat
    PROVE  /\ RoundUp(n, a) \in Nat
           /\ RoundUp(n, a) % a = 0
           /\ RoundUp(n, a) >= n
           /\ RoundUp(n, a) < n + a
           /\ \A m \in Nat : m % a = 0 /\ m >= n => RoundUp(n, a) =< m
<1> DEFINE k == n + a - 1
           q == k \div a
<1>1. k \in Nat
  OBVIOUS
<1>2. q \in Nat /\ k % a \in 0 .. (a - 1) /\ k = a * q + (k % a)
  BY <1>1, Division
<1>3. RoundUp(n, a) = q * a
  BY DEF RoundUp
<1>4. q * a \in Nat /\ q * a = a * q
  BY <1>2
<1>5. q * a >= n /\ q * a < n + a
  BY <1>2, <1>4
<1>6. (q * a) % a = 0
  BY <1>2, MultipleHasNoRemainder
<1>7. ASSUME NEW m \in Nat, m % a = 0, m >= n
      PROVE  q * a =< m
  <2> DEFINE p == m \div a
  <2>1. p \in Nat /\ m = a * p
    BY <1>7, Division
  <2>2. p * a = a * p
    BY <2>1
  <2>3. CASE p * a < q * a
    <3>1. p * a + a =< q * a
      BY ONLY <2>1, <2>3, <1>2, MultiplesApart
    <3> QED BY <3>1, <2>1, <2>2, <1>4, <1>5, <1>7
  <2>4. CASE ~(p * a < q * a)
    BY <2>1, <2>2, <2>4, <1>4
  <2> QED BY <2>3, <2>4
<1> QED BY <1>3, <1>4, <1>5, <1>6, <1>7

LEMMA AlignmentPositive ==
    ASSUME NEW p \in Protocols
    PROVE  Alignment(p) \in Nat \ {0}
  BY SizesAssumption DEF Alignment

(* An allocation is the smallest representable size that holds n and the   *)
(* minimum; the backend's maximum is representable, so it is never passed. *)
LEMMA AllocationInRange ==
    ASSUME NEW p \in Protocols, NEW n \in Nat, n =< MaxVolumeSize,
           NEW limit \in Int, Allocate(p, n, limit).ok
    PROVE  LET r == Allocate(p, n, limit) IN
           /\ r.satisfied = FALSE
           /\ r.target \in MinVolumeSize .. MaxVolumeSize
           /\ r.target % Alignment(p) = 0
           /\ r.target >= n
           /\ limit > 0 => r.target =< limit
<1> DEFINE allocation == IF n < MinVolumeSize THEN MinVolumeSize ELSE n
           t == RoundUp(allocation, Alignment(p))
<1>1. Alignment(p) \in Nat \ {0} /\ MaxVolumeSize % Alignment(p) = 0
  BY AlignmentPositive, SizesAssumption DEF Alignment
<1>2. /\ allocation \in Nat
      /\ allocation >= n /\ allocation >= MinVolumeSize /\ allocation =< MaxVolumeSize
      /\ MinVolumeSize \in Nat /\ MaxVolumeSize \in Nat
  BY SizesAssumption
<1>3. t \in Nat /\ t % Alignment(p) = 0 /\ t >= allocation /\ t =< MaxVolumeSize
  <2> HIDE DEF allocation
  <2> QED BY <1>1, <1>2, RoundUpSmallest
<1>4. Allocate(p, n, limit) = Accepted(t, FALSE) /\ (limit > 0 => ~(t > limit))
  BY DEF Allocate, representableCapacity, Rejected, Accepted
<1> HIDE DEF t, allocation
<1>5. Allocate(p, n, limit).target = t /\ Allocate(p, n, limit).satisfied = FALSE
  BY <1>4 DEF Accepted
<1>6. t \in MinVolumeSize .. MaxVolumeSize /\ t >= n /\ (limit > 0 => t =< limit)
  BY <1>2, <1>3, <1>4
<1> QED BY <1>3, <1>5, <1>6, Zenon

(* An accepted plan satisfies the request: it keeps a size that is large   *)
(* enough, or it is an allocation.                                         *)
LEMMA PlanInRange ==
    ASSUME NEW p \in Protocols, NEW current \in Sizes, NEW required \in Nat, NEW limit \in Int,
           planExpansion(p, current, required, limit).ok
    PROVE  LET r == planExpansion(p, current, required, limit) IN
           /\ r.satisfied \in BOOLEAN
           /\ r.target \in 0 .. MaxInt64
           /\ r.target >= required
           /\ limit > 0 => r.target =< limit
           /\ r.satisfied => current # None /\ r.target = current
           /\ current # None => current \in Nat /\ r.target >= current
           /\ ~r.satisfied => /\ r.target \in MinVolumeSize .. MaxVolumeSize
                              /\ r.target % Alignment(p) = 0
<1> DEFINE r == planExpansion(p, current, required, limit)
<1>1. /\ MinVolumeSize \in Nat /\ MaxVolumeSize \in Nat /\ MaxInt64 \in Nat
      /\ MaxVolumeSize =< MaxInt64
  BY SizesAssumption
<1>2. required =< MaxVolumeSize
  <2> SUFFICES ASSUME required > MaxVolumeSize PROVE FALSE
    BY <1>1
  <2>1. r = Rejected(OutOfRange)
    BY DEF planExpansion
  <2> QED BY <2>1 DEF Rejected
<1>3. CASE current # None /\ current >= required
  <2>1. current \in Nat
    BY <1>3, <1>1 DEF Sizes, Uint64
  <2>2. current =< MaxInt64 /\ ~(limit > 0 /\ current > limit)
    <3> SUFFICES ASSUME current > MaxInt64 \/ (limit > 0 /\ current > limit) PROVE FALSE
      BY <1>1, <2>1
    <3>1. r = Rejected(OutOfRange)
      BY <1>1, <1>2, <1>3 DEF planExpansion
    <3> QED BY <3>1 DEF Rejected
  <2>3. r = Accepted(current, TRUE)
    <3>1. ~(required > MaxVolumeSize) /\ ~(current > MaxInt64)
      BY <1>1, <1>2, <2>1, <2>2
    <3> QED BY <3>1, <1>3, <2>2, Zenon DEF planExpansion
  <2>4. r.target = current /\ r.satisfied = TRUE
    BY <2>3 DEF Accepted
  <2>5. current \in 0 .. MaxInt64 /\ (limit > 0 => current =< limit) /\ current >= current
    BY <1>1, <2>1, <2>2
  <2> HIDE DEF r
  <2> QED BY <1>3, <2>1, <2>4, <2>5, Zenon DEF r
<1>4. CASE ~(current # None /\ current >= required)
  <2>1. r = Allocate(p, required, limit)
    <3> SUFFICES ASSUME r # Allocate(p, required, limit) PROVE FALSE
      OBVIOUS
    <3>1. \E code \in Codes : r = Rejected(code)
      BY <1>1, <1>2, <1>4 DEF planExpansion, Codes
    <3> QED BY <3>1 DEF Rejected
  <2>2. Allocate(p, required, limit).ok
    BY <2>1
  <2>3. /\ r.satisfied = FALSE
        /\ r.target \in MinVolumeSize .. MaxVolumeSize
        /\ r.target % Alignment(p) = 0
        /\ r.target >= required
        /\ limit > 0 => r.target =< limit
    BY <1>2, <2>1, <2>2, AllocationInRange
  <2> HIDE DEF r
  <2>4. r.target \in 0 .. MaxInt64
    BY <1>1, <2>3
  <2>5. current # None => current \in Nat /\ r.target >= current
    BY <1>1, <1>4, <2>3 DEF Sizes, Uint64
  <2> QED BY <2>3, <2>4, <2>5, Zenon DEF r
<1> QED BY <1>3, <1>4

-----------------------------------------------------------------------------
(* The inductive invariant.                                                *)

InRange(h, c) ==
    /\ c >= req[h].required
    /\ req[h].limit > 0 => c =< req[h].limit

(* A handler past its plan has a target inside the range it was asked for, *)
(* and answers nothing before it is done.                                  *)
HandlersInRange ==
    \A h \in Handlers :
        /\ pc[h] # "idle" => req[h].required >= 0 /\ resp[h] = None
        /\ pc[h] \in {"resize", "record", "answer"} => InRange(h, target[h])

(* Requests of the volume come one after the other.                        *)
OneAtATime == \A g, h \in Handlers : g = h

(* Either is enough for the size never to shrink.                          *)
GrowsOnly == RefusesShrink \/ OneAtATime

(* A handler that is alone goes by what is still there.                    *)
ReadIsCurrent ==
    \A h \in Handlers :
        /\ pc[h] \in {"plan", "resize"} => meta[h].current = size /\ meta[h].recorded = recorded
        /\ pc[h] = "resize" /\ size # None => target[h] >= size
        /\ pc[h] = "record" => size = target[h]
        /\ pc[h] = "answer" => size = target[h] /\ recorded = target[h]

(* When the size only grows, what a handler read when it plans, and what   *)
(* it has resized to, are lower bounds of the size.                        *)
LowerBounds ==
    \A h \in Handlers :
        /\ pc[h] = "plan" /\ meta[h].current # None => size # None /\ size >= meta[h].current
        /\ pc[h] \in {"record", "answer"} => size # None /\ size >= target[h]

(* Only a block device has a filesystem to grow, and a request for it says *)
(* so.                                                                     *)
FilesystemKnown ==
    fs # None => /\ protocol \in {"iscsi", "nvmeof"}
                 /\ \A h \in Handlers : pc[h] # "idle" => req[h].capability # "block"

SerialInv == OneAtATime => ReadIsCurrent /\ SuccessReconciled
RangeInv == TypeOK /\ HandlersInRange /\ ResponseInRange /\ TargetRepresentable
PromiseInv == GrowsOnly => LowerBounds /\ PromiseKept /\ FilesystemKnown /\ FilesystemFollows

-----------------------------------------------------------------------------
(* A new volume has an allocation as its size.                             *)
LEMMA CreatedSizeTyped ==
    ASSUME NEW p \in Protocols, NEW required \in Int, NEW limit \in Int,
           normalizeCreateCapacity(p, required, limit).ok
    PROVE  normalizeCreateCapacity(p, required, limit).target \in Uint64
<1> DEFINE made == normalizeCreateCapacity(p, required, limit)
           n == IF required > 0 THEN required ELSE MinVolumeSize
<1>1. /\ MinVolumeSize \in Nat /\ MaxVolumeSize \in Nat /\ MaxInt64 \in Nat
      /\ MaxVolumeSize =< MaxInt64 /\ n \in Nat
  BY SizesAssumption
<1>2. made = Allocate(p, n, limit) /\ n =< MaxVolumeSize
  <2> SUFFICES ASSUME made # Allocate(p, n, limit) \/ n > MaxVolumeSize PROVE FALSE
    BY <1>1
  <2>1. \E code \in Codes : made = Rejected(code)
    BY DEF normalizeCreateCapacity, Codes
  <2> QED BY <2>1 DEF Rejected
<1>3. made.target \in MinVolumeSize .. MaxVolumeSize
  <2> HIDE DEF n
  <2> QED BY <1>1, <1>2, AllocationInRange
<1> QED BY <1>1, <1>3 DEF Uint64

LEMMA LocalsTyped ==
    /\ NoRequest \in Requests /\ NoMetadata \in [current : Sizes, recorded : Sizes]
    /\ 0 \in 0 .. MaxInt64 /\ "idle" \in PCs /\ None \in Responses
  BY SizesAssumption
  DEF NoRequest, NoMetadata, Requests, Capabilities, Sizes, Responses, Int64, PCs

LEMMA RangeInvInit == Init => RangeInv
<1> SUFFICES ASSUME Init PROVE RangeInv
  OBVIOUS
<1>1. MaxInt64 \in Nat /\ 2 * MaxInt64 + 1 \in Uint64 /\ 0 \in Int64 /\ 0 \in 0 .. MaxInt64
  BY SizesAssumption DEF Uint64, Int64
<1>2. size \in Sizes /\ recorded \in Sizes
  <2>1. CASE size \in {None, 2 * MaxInt64 + 1} /\ recorded = None
    BY <1>1, <2>1 DEF Sizes
  <2>2. ASSUME NEW rg \in Ranges,
               normalizeCreateCapacity(protocol, rg[1], rg[2]).ok,
               size = normalizeCreateCapacity(protocol, rg[1], rg[2]).target,
               recorded = size
        PROVE  size \in Sizes /\ recorded \in Sizes
    <3>1. rg[1] \in Int /\ rg[2] \in Int
      BY <1>1, RangesAssumption DEF Int64
    <3>2. protocol \in Protocols
      BY DEF Init
    <3> QED BY <2>2, <3>1, <3>2, CreatedSizeTyped DEF Sizes
  <2> QED BY <2>1, <2>2 DEF Init
<1>3. fs \in Sizes
  BY <1>2 DEF Init, Sizes
<1>4. TypeOK
  <2>1. faults \in 0 .. MaxFaults
    BY BackendAssumption DEF Init
  <2> QED BY <1>2, <1>3, <2>1, LocalsTyped DEF Init, TypeOK
<1>5. HandlersInRange /\ ResponseInRange /\ TargetRepresentable
  BY DEF Init, HandlersInRange, ResponseInRange, TargetRepresentable
<1> QED BY <1>4, <1>5 DEF RangeInv

(* What an error return leaves behind.                                     *)
LEMMA FailKeepsRange ==
    ASSUME RangeInv, NEW h \in Handlers, Fail(h), UNCHANGED protocol
    PROVE  /\ pc' \in [Handlers -> PCs] /\ req' \in [Handlers -> Requests]
           /\ meta' \in [Handlers -> [current : Sizes, recorded : Sizes]]
           /\ target' \in [Handlers -> 0 .. MaxInt64]
           /\ resp' \in [Handlers -> Responses] /\ promised' \in 0 .. MaxInt64
           /\ HandlersInRange' /\ TargetRepresentable'
           /\ resp[h] = None => ResponseInRange'
<1>2. /\ pc' \in [Handlers -> PCs] /\ req' \in [Handlers -> Requests]
      /\ meta' \in [Handlers -> [current : Sizes, recorded : Sizes]]
      /\ target' \in [Handlers -> 0 .. MaxInt64]
      /\ resp' \in [Handlers -> Responses] /\ promised' \in 0 .. MaxInt64
  BY LocalsTyped DEF RangeInv, TypeOK, Fail
<1>3. ASSUME NEW g \in Handlers, g # h
      PROVE  /\ pc'[g] = pc[g] /\ req'[g] = req[g] /\ meta'[g] = meta[g]
             /\ target'[g] = target[g] /\ resp'[g] = resp[g]
  BY <1>3 DEF Fail, RangeInv, TypeOK
<1>4. pc'[h] = "idle" /\ resp'[h] = resp[h]
  BY DEF Fail, RangeInv, TypeOK
<1>5. HandlersInRange'
  BY <1>3, <1>4 DEF HandlersInRange, InRange, RangeInv
<1>6. TargetRepresentable'
  BY <1>3, <1>4 DEF TargetRepresentable, RangeInv
<1>7. resp[h] = None => ResponseInRange'
  BY <1>3, <1>4 DEF ResponseInRange, RangeInv
<1> QED BY <1>2, <1>5, <1>6, <1>7

(* Every step keeps RangeInv.                                              *)
LEMMA RangeInvStep == RangeInv /\ [Next]_vars => RangeInv'
<1> SUFFICES ASSUME RangeInv, [Next]_vars PROVE RangeInv'
  OBVIOUS
<1> USE DEF RangeInv
<1>0. MaxInt64 \in Nat /\ MaxFaults \in Nat
  BY SizesAssumption, BackendAssumption
<1>1. ASSUME NEW h \in Handlers, NEW rg \in Ranges, NEW c \in Capabilities,
             ControllerExpandVolume(h, rg, c)
      PROVE  RangeInv'
  <2>1. rg[1] \in Int64 /\ rg[2] \in Int64
    BY RangesAssumption
  <2>2. TypeOK'
    BY <1>1, <2>1, LocalsTyped
    DEF TypeOK, ControllerExpandVolume, volume, node, PCs, Requests
  <2>3. /\ pc'[h] # "idle" => req'[h].required >= 0
        /\ pc'[h] \in {"idle", "lookup"} /\ resp'[h] = None
    BY <1>1, <2>1 DEF TypeOK, ControllerExpandVolume, validateExpansionRange
  <2>4. ASSUME NEW g \in Handlers, g # h
        PROVE  pc'[g] = pc[g] /\ req'[g] = req[g] /\ resp'[g] = resp[g]
    BY <1>1, <2>4 DEF TypeOK, ControllerExpandVolume
  <2>5. UNCHANGED <<protocol, meta, target>>
    BY <1>1 DEF ControllerExpandVolume, volume
  <2>6. HandlersInRange'
    BY <2>3, <2>4, <2>5 DEF HandlersInRange, InRange
  <2>7. ResponseInRange' /\ TargetRepresentable'
    BY <2>3, <2>4, <2>5 DEF ResponseInRange, TargetRepresentable
  <2> QED BY <2>2, <2>6, <2>7
<1>2. ASSUME NEW h \in Handlers, lookupVolumeByCSIName(h)
      PROVE  RangeInv'
  <2>1. resp[h] = None /\ UNCHANGED <<volume, node>>
    BY <1>2 DEF lookupVolumeByCSIName, HandlersInRange
  <2>2. CASE Fault /\ Fail(h)
    BY <1>0, <2>1, <2>2, FailKeepsRange DEF TypeOK, Fault, volume, node
  <2>3. CASE Goto(h, "plan") /\ UNCHANGED <<target, faults>>
             /\ meta' = [meta EXCEPT ![h] = [current |-> size, recorded |-> recorded]]
    <3>1. TypeOK'
      BY <2>1, <2>3 DEF TypeOK, Goto, volume, node, PCs
    <3>2. pc'[h] = "plan" /\ \A g \in Handlers : g # h => pc'[g] = pc[g] /\ meta'[g] = meta[g]
      BY <2>3 DEF TypeOK, Goto
    <3>3. UNCHANGED <<protocol, req, resp, target>>
      BY <2>1, <2>3 DEF Goto, volume
    <3>4. HandlersInRange'
      BY <1>2, <3>2, <3>3 DEF HandlersInRange, InRange, lookupVolumeByCSIName
    <3>5. ResponseInRange' /\ TargetRepresentable'
      BY <3>2, <3>3 DEF ResponseInRange, TargetRepresentable
    <3> QED BY <3>1, <3>4, <3>5
  <2> QED BY <1>2, <2>2, <2>3 DEF lookupVolumeByCSIName
<1>3. ASSUME NEW h \in Handlers, Plan(h)
      PROVE  RangeInv'
  <2> DEFINE p == planExpansion(protocol, meta[h].current, req[h].required, req[h].limit)
  <2>1. resp[h] = None /\ UNCHANGED <<volume, node, faults>>
    BY <1>3 DEF Plan, HandlersInRange
  <2>2. CASE Fail(h)
    BY <2>1, <2>2, FailKeepsRange DEF TypeOK, volume, node
  <2>3. CASE /\ p.ok /\ UNCHANGED meta
             /\ target' = [target EXCEPT ![h] = p.target]
             /\ Goto(h, IF p.satisfied /\ meta[h].recorded = meta[h].current
                        THEN "answer" ELSE "resize")
    <3>1. /\ protocol \in Protocols /\ meta[h].current \in Sizes
          /\ req[h].required \in Nat /\ req[h].limit \in Int
      BY <1>0, <1>3 DEF TypeOK, HandlersInRange, Plan, Requests, Int64
    <3>2. /\ p.target \in 0 .. MaxInt64
          /\ p.target >= req[h].required
          /\ req[h].limit > 0 => p.target =< req[h].limit
          /\ p.target # meta[h].current => /\ p.target \in MinVolumeSize .. MaxVolumeSize
                                           /\ p.target % Alignment(protocol) = 0
      BY <2>3, <3>1, PlanInRange
    <3> HIDE DEF p
    <3>3. TypeOK'
      BY <2>1, <2>3, <3>2 DEF TypeOK, Goto, volume, node, PCs
    <3>4. /\ pc'[h] \in {"answer", "resize"} /\ target'[h] = p.target
          /\ \A g \in Handlers : g # h => pc'[g] = pc[g] /\ target'[g] = target[g]
      BY <2>3 DEF TypeOK, Goto
    <3>5. UNCHANGED <<protocol, req, resp, meta>>
      BY <2>1, <2>3 DEF Goto, volume
    <3>6. HandlersInRange'
      BY <1>3, <3>1, <3>2, <3>4, <3>5 DEF HandlersInRange, InRange, Plan
    <3>7. ResponseInRange'
      BY <3>5 DEF ResponseInRange
    <3>8. TargetRepresentable'
      BY <3>2, <3>4, <3>5 DEF TargetRepresentable, Alignment
    <3> QED BY <3>3, <3>6, <3>7, <3>8
  <2> QED BY <1>3, <2>2, <2>3 DEF Plan
<1>4. ASSUME NEW h \in Handlers, ResizeSubvolume(h)
      PROVE  RangeInv'
  <2>1. resp[h] = None /\ UNCHANGED <<protocol, recorded, node>>
    BY <1>4 DEF ResizeSubvolume, HandlersInRange
  <2>2. target[h] \in Uint64
    BY <1>0 DEF TypeOK, Uint64
  <2>3. size' \in Sizes
    BY <1>4, <2>2 DEF ResizeSubvolume, Resized, TypeOK, Sizes
  <2>4. faults' \in 0 .. MaxFaults
    BY <1>0, <1>4 DEF ResizeSubvolume, Fault, TypeOK
  <2>5. CASE Fail(h)
    BY <2>1, <2>3, <2>4, <2>5, FailKeepsRange DEF TypeOK, node
  <2>6. CASE Goto(h, "record") /\ UNCHANGED <<meta, target>>
    <3>1. TypeOK'
      BY <2>1, <2>3, <2>4, <2>6 DEF TypeOK, Goto, node, PCs
    <3>2. pc'[h] = "record" /\ \A g \in Handlers : g # h => pc'[g] = pc[g]
      BY <2>6 DEF TypeOK, Goto
    <3>3. UNCHANGED <<protocol, req, resp, meta, target>>
      BY <2>1, <2>6 DEF Goto
    <3>4. HandlersInRange'
      BY <1>4, <3>2, <3>3 DEF HandlersInRange, InRange, ResizeSubvolume
    <3>5. ResponseInRange' /\ TargetRepresentable'
      BY <3>2, <3>3 DEF ResponseInRange, TargetRepresentable
    <3> QED BY <3>1, <3>4, <3>5
  <2> QED BY <1>4, <2>5, <2>6 DEF ResizeSubvolume
<1>5. ASSUME NEW h \in Handlers, SetSubvolumeProperties(h)
      PROVE  RangeInv'
  <2>1. resp[h] = None /\ UNCHANGED <<protocol, size, node>>
    BY <1>5 DEF SetSubvolumeProperties, HandlersInRange
  <2>2. target[h] \in Uint64
    BY <1>0 DEF TypeOK, Uint64
  <2>3. recorded' \in Sizes
    BY <1>5, <2>2 DEF SetSubvolumeProperties, TypeOK, Sizes
  <2>4. faults' \in 0 .. MaxFaults
    BY <1>0, <1>5 DEF SetSubvolumeProperties, Fault, TypeOK
  <2>5. CASE Fail(h)
    BY <2>1, <2>3, <2>4, <2>5, FailKeepsRange DEF TypeOK, node
  <2>6. CASE Goto(h, "answer") /\ UNCHANGED <<meta, target>>
    <3>1. TypeOK'
      BY <2>1, <2>3, <2>4, <2>6 DEF TypeOK, Goto, node, PCs
    <3>2. pc'[h] = "answer" /\ \A g \in Handlers : g # h => pc'[g] = pc[g]
      BY <2>6 DEF TypeOK, Goto
    <3>3. UNCHANGED <<protocol, req, resp, meta, target>>
      BY <2>1, <2>6 DEF Goto
    <3>4. HandlersInRange'
      BY <1>5, <3>2, <3>3 DEF HandlersInRange, InRange, SetSubvolumeProperties
    <3>5. ResponseInRange' /\ TargetRepresentable'
      BY <3>2, <3>3 DEF ResponseInRange, TargetRepresentable
    <3> QED BY <3>1, <3>4, <3>5
  <2> QED BY <1>5, <2>5, <2>6 DEF SetSubvolumeProperties
<1>6. ASSUME NEW h \in Handlers, ControllerExpandVolumeResponse(h)
      PROVE  RangeInv'
  <2> DEFINE expandNode == requiresNodeExpansion(protocol, req[h].capability)
  <2>1. /\ Answer(h, expandNode) /\ UNCHANGED <<protocol, req>>
        /\ resp' = [resp EXCEPT ![h] = [capacity |-> target[h], node |-> expandNode]]
    BY <1>6 DEF ControllerExpandVolumeResponse, Answer, volume
  <2>2. expandNode \in BOOLEAN
    BY DEF requiresNodeExpansion
  <2> HIDE DEF expandNode
  <2>3. target[h] \in Int64 /\ target[h] \in 0 .. MaxInt64
    BY <1>0 DEF TypeOK, Int64
  <2>4. TypeOK'
    <3>1. resp' \in [Handlers -> Responses]
      BY <2>1, <2>2, <2>3 DEF TypeOK, Responses
    <3>2. nodeDue' \in BOOLEAN /\ promised' \in 0 .. MaxInt64
      BY <2>1, <2>2, <2>3 DEF TypeOK, Answer
    <3> QED BY <2>1, <3>1, <3>2, LocalsTyped DEF TypeOK, Answer, volume
  <2>5. /\ pc'[h] = "idle" /\ resp'[h].capacity = target[h]
        /\ \A g \in Handlers : g # h => /\ pc'[g] = pc[g] /\ meta'[g] = meta[g]
                                        /\ target'[g] = target[g] /\ resp'[g] = resp[g]
    BY <2>1 DEF TypeOK, Answer
  <2>6. InRange(h, target[h])
    BY <1>6 DEF HandlersInRange, ControllerExpandVolumeResponse, Answer
  <2>7. HandlersInRange'
    BY <2>1, <2>5 DEF HandlersInRange, InRange
  <2>8. ResponseInRange'
    BY <2>1, <2>5, <2>6 DEF ResponseInRange, InRange
  <2>9. TargetRepresentable'
    BY <2>1, <2>5 DEF TargetRepresentable
  <2> QED BY <2>4, <2>7, <2>8, <2>9
<1>7. CASE NodeExpandVolume
  <2>1. TypeOK'
    BY <1>7 DEF TypeOK, NodeExpandVolume, volume, Sizes
  <2>2. HandlersInRange' /\ ResponseInRange' /\ TargetRepresentable'
    BY <1>7 DEF HandlersInRange, ResponseInRange, TargetRepresentable, InRange,
       NodeExpandVolume, volume
  <2> QED BY <2>1, <2>2
<1>8. CASE UNCHANGED vars
  BY <1>8 DEF TypeOK, HandlersInRange, ResponseInRange, TargetRepresentable, InRange,
     vars, volume, node
<1> QED BY <1>1, <1>2, <1>3, <1>4, <1>5, <1>6, <1>7, <1>8 DEF Next

(* Type correctness of the expansion model.                                *)
THEOREM ExpansionTypeCorrect == Spec => []TypeOK
<1>1. RangeInv => TypeOK
  BY DEF RangeInv
<1> QED BY <1>1, RangeInvInit, RangeInvStep, PTL DEF Spec

(* For any sizes and any number of concurrent requests, a success response *)
(* of ControllerExpandVolume reports a capacity inside the requested range *)
(* (controller.go:438-487 and 1722-1787).                                  *)
THEOREM ExpansionResponseInRange == Spec => []ResponseInRange
<1>1. RangeInv => ResponseInRange
  BY DEF RangeInv
<1> QED BY <1>1, RangeInvInit, RangeInvStep, PTL DEF Spec

(* The driver never asks the backend to grow a volume to a size that is    *)
(* not a whole number of units or is beyond the backend's maximum.         *)
THEOREM ExpansionTargetRepresentable == Spec => []TargetRepresentable
<1>1. RangeInv => TargetRepresentable
  BY DEF RangeInv
<1> QED BY <1>1, RangeInvInit, RangeInvStep, PTL DEF Spec

-----------------------------------------------------------------------------
(* Every step keeps PromiseInv, from the types and the ranges.  A step of  *)
(* one handler can only raise the size, so the lower bounds of the others  *)
(* stay true.                                                              *)
LEMMA PromiseInvInit == Init => PromiseInv
<1> SUFFICES ASSUME Init PROVE LowerBounds /\ PromiseKept /\ FilesystemKnown /\ FilesystemFollows
  BY DEF PromiseInv
<1>1. fs # None => fs \in Nat
  BY RangeInvInit, SizesAssumption DEF RangeInv, TypeOK, Sizes, Uint64
<1>2. LowerBounds /\ PromiseKept /\ FilesystemFollows
  BY <1>1 DEF Init, LowerBounds, PromiseKept, FilesystemFollows
<1>3. FilesystemKnown
  BY DEF Init, FilesystemKnown
<1> QED BY <1>2, <1>3

LEMMA SerialInvInit == Init => SerialInv
  BY DEF Init, SerialInv, ReadIsCurrent, SuccessReconciled

(* A handler that is alone finds the volume as it read it: what it resizes *)
(* to is at least the size it replaces, and what it answers is the size    *)
(* and the recorded capacity.                                              *)
LEMMA SerialInvStep == RangeInv /\ SerialInv /\ [Next]_vars => SerialInv'
<1> SUFFICES ASSUME RangeInv, [Next]_vars, OneAtATime, ReadIsCurrent, SuccessReconciled
             PROVE  ReadIsCurrent' /\ SuccessReconciled'
  BY DEF SerialInv
<1>0. TypeOK /\ HandlersInRange /\ MaxInt64 \in Nat
  BY SizesAssumption DEF RangeInv
<1>1. CASE UNCHANGED vars \/ NodeExpandVolume
  BY <1>1 DEF vars, volume, NodeExpandVolume, ReadIsCurrent, SuccessReconciled
<1>2. ASSUME NEW h \in Handlers, NEW rg \in Ranges, NEW c \in Capabilities,
             ControllerExpandVolume(h, rg, c)
      PROVE  ReadIsCurrent' /\ SuccessReconciled'
  <2>1. pc'[h] \in {"idle", "lookup"} /\ resp'[h] = None
    BY <1>0, <1>2 DEF TypeOK, ControllerExpandVolume
  <2> QED BY <2>1 DEF OneAtATime, ReadIsCurrent, SuccessReconciled
<1>3. ASSUME NEW h \in Handlers, pc[h] # "idle", Fail(h)
      PROVE  ReadIsCurrent' /\ SuccessReconciled'
  <2>1. pc'[h] = "idle" /\ resp'[h] = None
    BY <1>0, <1>3 DEF TypeOK, Fail, HandlersInRange
  <2> QED BY <2>1 DEF OneAtATime, ReadIsCurrent, SuccessReconciled
<1>4. ASSUME NEW h \in Handlers, lookupVolumeByCSIName(h), ~Fail(h)
      PROVE  ReadIsCurrent' /\ SuccessReconciled'
  <2>1. /\ pc'[h] = "plan" /\ resp'[h] = None /\ UNCHANGED <<size, recorded>>
        /\ meta'[h].current = size /\ meta'[h].recorded = recorded
    BY <1>0, <1>4 DEF TypeOK, lookupVolumeByCSIName, Goto, HandlersInRange, volume
  <2> QED BY <2>1 DEF OneAtATime, ReadIsCurrent, SuccessReconciled
<1>5. ASSUME NEW h \in Handlers, Plan(h), ~Fail(h)
      PROVE  ReadIsCurrent' /\ SuccessReconciled'
  <2> DEFINE p == planExpansion(protocol, meta[h].current, req[h].required, req[h].limit)
  <2>1. /\ p.ok /\ pc[h] = "plan" /\ target'[h] = p.target /\ UNCHANGED <<size, recorded, meta>>
        /\ pc'[h] = IF p.satisfied /\ meta[h].recorded = meta[h].current
                    THEN "answer" ELSE "resize"
        /\ resp'[h] = None
    BY <1>0, <1>5 DEF TypeOK, Plan, Goto, HandlersInRange, volume
  <2>2. /\ protocol \in Protocols /\ meta[h].current \in Sizes
        /\ req[h].required \in Nat /\ req[h].limit \in Int
    BY <1>0, <2>1 DEF TypeOK, HandlersInRange, Requests, Int64
  <2>3. /\ p.satisfied => meta[h].current # None /\ p.target = meta[h].current
        /\ meta[h].current # None => p.target >= meta[h].current
    BY <2>1, <2>2, PlanInRange
  <2> HIDE DEF p
  <2>4. meta[h].current = size /\ meta[h].recorded = recorded
    BY <2>1 DEF ReadIsCurrent
  <2> QED BY <2>1, <2>3, <2>4 DEF OneAtATime, ReadIsCurrent, SuccessReconciled
<1>6. ASSUME NEW h \in Handlers, ResizeSubvolume(h), ~Fail(h)
      PROVE  ReadIsCurrent' /\ SuccessReconciled'
  <2>1. pc'[h] = "record" /\ size' = target[h] /\ target'[h] = target[h] /\ resp'[h] = None
    BY <1>0, <1>6 DEF TypeOK, ResizeSubvolume, Resized, Goto, HandlersInRange
  <2> QED BY <2>1 DEF OneAtATime, ReadIsCurrent, SuccessReconciled
<1>7. ASSUME NEW h \in Handlers, SetSubvolumeProperties(h), ~Fail(h)
      PROVE  ReadIsCurrent' /\ SuccessReconciled'
  <2>1. /\ pc'[h] = "answer" /\ recorded' = target[h] /\ target'[h] = target[h]
        /\ resp'[h] = None /\ size' = size /\ size = target[h]
    BY <1>0, <1>7 DEF TypeOK, SetSubvolumeProperties, Goto, HandlersInRange, ReadIsCurrent
  <2> QED BY <2>1 DEF OneAtATime, ReadIsCurrent, SuccessReconciled
<1>8. ASSUME NEW h \in Handlers, ControllerExpandVolumeResponse(h)
      PROVE  ReadIsCurrent' /\ SuccessReconciled'
  <2>1. /\ pc'[h] = "idle" /\ resp'[h].capacity = target[h] /\ UNCHANGED <<size, recorded>>
        /\ size = target[h] /\ recorded = target[h]
    BY <1>0, <1>8 DEF TypeOK, ControllerExpandVolumeResponse, Answer, ReadIsCurrent, volume
  <2> QED BY <2>1 DEF OneAtATime, ReadIsCurrent, SuccessReconciled
<1> QED
  BY <1>1, <1>2, <1>3, <1>4, <1>5, <1>6, <1>7, <1>8 DEF Next, lookupVolumeByCSIName, Plan,
     ResizeSubvolume, SetSubvolumeProperties

LEMMA SizeOnlyGrows ==
    ASSUME TypeOK, SerialInv, GrowsOnly, Next, size # None
    PROVE  size' # None /\ size' >= size
<1>1. MaxInt64 \in Nat /\ size \in Nat
  BY SizesAssumption DEF TypeOK, Sizes, Uint64
<1>2. \A h \in Handlers : target[h] \in Nat
  BY <1>1 DEF TypeOK
<1>3. CASE size' = size
  BY <1>1, <1>3
<1>4. ASSUME NEW h \in Handlers, pc[h] = "resize", Resized(target[h])
      PROVE  size' # None /\ size' >= size
  <2>1. size' = target[h] /\ size' # None
    BY <1>2, <1>4, NoneAssumption DEF Resized
  <2>2. CASE RefusesShrink
    BY <1>1, <1>2, <1>4, <2>1, <2>2 DEF Resized, Refused
  <2>3. CASE OneAtATime
    BY <1>4, <2>1, <2>3 DEF SerialInv, ReadIsCurrent
  <2> QED BY <2>2, <2>3 DEF GrowsOnly
<1> QED
  BY <1>3, <1>4 DEF Next, NodeExpandVolume, ControllerExpandVolume, lookupVolumeByCSIName, Plan,
     ResizeSubvolume, SetSubvolumeProperties, ControllerExpandVolumeResponse, Answer, volume

LEMMA PromiseInvStep ==
    RangeInv /\ RangeInv' /\ SerialInv /\ PromiseInv /\ [Next]_vars => PromiseInv'
<1> SUFFICES ASSUME RangeInv, RangeInv', SerialInv, PromiseInv, [Next]_vars, GrowsOnly
             PROVE  LowerBounds' /\ PromiseKept' /\ FilesystemKnown' /\ FilesystemFollows'
  BY DEF PromiseInv
<1> USE DEF RangeInv
<1>0. /\ MaxInt64 \in Nat /\ TypeOK /\ TypeOK'
      /\ LowerBounds /\ PromiseKept /\ FilesystemKnown /\ FilesystemFollows
  BY SizesAssumption DEF PromiseInv
<1>1. CASE UNCHANGED vars
  <2>1. LowerBounds' /\ PromiseKept'
    BY <1>0, <1>1 DEF LowerBounds, PromiseKept, vars, volume, node
  <2>2. FilesystemKnown' /\ FilesystemFollows'
    BY <1>0, <1>1, SMTT(30) DEF FilesystemKnown, FilesystemFollows, vars, volume, node
  <2>. QED
    BY <2>1, <2>2
<1>2. CASE Next
  <2>1. size # None => size' # None /\ size' >= size
    BY <1>0, <1>2, SizeOnlyGrows
  <2>2. /\ size # None => size \in Nat
        /\ size' # None => size' \in Nat
        /\ promised \in Nat /\ promised' \in Nat
        /\ fs # None => fs \in Nat
        /\ \A g \in Handlers : /\ target[g] \in Nat /\ target'[g] \in Nat
                               /\ meta[g].current # None => meta[g].current \in Nat
    BY <1>0 DEF TypeOK, Sizes, Uint64
  <2>3. ASSUME NEW g \in Handlers, pc'[g] = pc[g], meta'[g] = meta[g], target'[g] = target[g]
        PROVE  /\ pc'[g] = "plan" /\ meta'[g].current # None =>
                    size' # None /\ size' >= meta'[g].current
               /\ pc'[g] \in {"record", "answer"} => size' # None /\ size' >= target'[g]
    BY <1>0, <2>1, <2>2, <2>3 DEF LowerBounds
  <2>4. CASE NodeExpandVolume
    <3>1. LowerBounds'
      BY <2>3, <2>4 DEF NodeExpandVolume, LowerBounds
    <3>2. PromiseKept' /\ FilesystemKnown'
      BY <1>0, <2>4 DEF NodeExpandVolume, PromiseKept, FilesystemKnown, volume
    <3>3. FilesystemFollows'
      BY <1>0, <2>2, <2>4 DEF NodeExpandVolume, PromiseKept, FilesystemFollows, volume
    <3> QED BY <3>1, <3>2, <3>3
  <2>5. ASSUME NEW h \in Handlers, NEW rg \in Ranges, NEW c \in Capabilities,
               ControllerExpandVolume(h, rg, c)
        PROVE  LowerBounds' /\ PromiseKept' /\ FilesystemKnown' /\ FilesystemFollows'
    <3>1. /\ pc'[h] \in {"idle", "lookup"} /\ UNCHANGED <<volume, node, meta, target, promised>>
          /\ \A g \in Handlers \ {h} : pc'[g] = pc[g] /\ req'[g] = req[g]
          /\ req'[h].capability = c /\ (fs # None => c # "block")
      BY <1>0, <2>5 DEF TypeOK, ControllerExpandVolume
    <3>2. LowerBounds'
      BY <2>3, <3>1 DEF LowerBounds
    <3>3. PromiseKept' /\ FilesystemKnown' /\ FilesystemFollows'
      BY <1>0, <3>1 DEF PromiseKept, FilesystemKnown, FilesystemFollows, volume, node
    <3> QED BY <3>2, <3>3
  <2>6. ASSUME NEW h \in Handlers, pc[h] \notin {"idle", "answer"},
               \/ lookupVolumeByCSIName(h) \/ Plan(h)
               \/ ResizeSubvolume(h) \/ SetSubvolumeProperties(h)
        PROVE  LowerBounds' /\ PromiseKept' /\ FilesystemKnown' /\ FilesystemFollows'
    <3>1. /\ UNCHANGED <<protocol, node, promised>>
          /\ \A g \in Handlers \ {h} : /\ pc'[g] = pc[g] /\ req'[g] = req[g]
                                       /\ meta'[g] = meta[g] /\ target'[g] = target[g]
          /\ pc'[h] = "idle" \/ req'[h] = req[h]
      BY <1>0, <2>6 DEF TypeOK, lookupVolumeByCSIName, Plan, ResizeSubvolume,
         SetSubvolumeProperties, Fail, Goto, volume
    <3>2. PromiseKept'
      BY <1>0, <2>1, <2>2, <3>1 DEF PromiseKept
    <3>3. FilesystemKnown' /\ FilesystemFollows'
      BY <1>0, <2>6, <3>1 DEF FilesystemKnown, FilesystemFollows, node
    <3>4. /\ pc'[h] = "plan" /\ meta'[h].current # None => size' # None /\ size' >= meta'[h].current
          /\ pc'[h] \in {"record", "answer"} => size' # None /\ size' >= target'[h]
      <4>1. CASE Fail(h)
        BY <1>0, <4>1 DEF TypeOK, Fail
      <4>2. CASE lookupVolumeByCSIName(h) /\ ~Fail(h)
        BY <1>0, <2>2, <4>2 DEF TypeOK, lookupVolumeByCSIName, Goto, volume
      <4>3. CASE Plan(h) /\ ~Fail(h)
        <5> DEFINE p == planExpansion(protocol, meta[h].current, req[h].required, req[h].limit)
        <5>1. /\ p.ok /\ pc[h] = "plan" /\ target'[h] = p.target /\ UNCHANGED size
              /\ pc'[h] = IF p.satisfied /\ meta[h].recorded = meta[h].current
                          THEN "answer" ELSE "resize"
          BY <1>0, <4>3 DEF TypeOK, Plan, Goto, volume
        <5>2. /\ protocol \in Protocols /\ meta[h].current \in Sizes
              /\ req[h].required \in Nat /\ req[h].limit \in Int
          BY <1>0, <5>1 DEF TypeOK, HandlersInRange, Requests, Int64
        <5>3. p.satisfied => meta[h].current # None /\ p.target = meta[h].current
          BY <5>1, <5>2, PlanInRange
        <5> HIDE DEF p
        <5> QED BY <1>0, <5>1, <5>3 DEF LowerBounds
      <4>4. CASE ResizeSubvolume(h) /\ ~Fail(h)
        <5>1. pc'[h] = "record" /\ size' = target[h] /\ target'[h] = target[h]
          BY <1>0, <4>4 DEF TypeOK, ResizeSubvolume, Resized, Goto
        <5> QED BY <5>1, <2>2, NoneAssumption
      <4>5. CASE SetSubvolumeProperties(h) /\ ~Fail(h)
        BY <1>0, <4>5 DEF TypeOK, SetSubvolumeProperties, Goto, LowerBounds
      <4> QED BY <2>6, <4>1, <4>2, <4>3, <4>4, <4>5
    <3>5. LowerBounds'
      BY <2>3, <3>1, <3>4 DEF LowerBounds
    <3> QED BY <3>2, <3>3, <3>5
  <2>7. ASSUME NEW h \in Handlers, ControllerExpandVolumeResponse(h)
        PROVE  LowerBounds' /\ PromiseKept' /\ FilesystemKnown' /\ FilesystemFollows'
    <3>1. /\ pc[h] = "answer" /\ pc'[h] = "idle" /\ UNCHANGED <<volume, fs, req>>
          /\ \A g \in Handlers \ {h} : /\ pc'[g] = pc[g] /\ meta'[g] = meta[g]
                                       /\ target'[g] = target[g]
          /\ promised' \in {promised, target[h]}
          /\ nodeDue' = (nodeDue \/ requiresNodeExpansion(protocol, req[h].capability))
      BY <1>0, <2>7 DEF TypeOK, ControllerExpandVolumeResponse, Answer
    <3>2. LowerBounds'
      BY <2>3, <3>1 DEF LowerBounds
    <3>3. PromiseKept'
      BY <1>0, <3>1 DEF LowerBounds, PromiseKept, volume
    <3>4. FilesystemKnown'
      BY <1>0, <3>1 DEF FilesystemKnown, volume
    <3>5. fs # None => nodeDue'
      BY <1>0, <3>1 DEF FilesystemKnown, requiresNodeExpansion
    <3>6. FilesystemFollows'
      BY <3>1, <3>5 DEF FilesystemFollows
    <3> QED BY <3>2, <3>3, <3>4, <3>6
  <2> QED
    BY <1>2, <2>4, <2>5, <2>6, <2>7 DEF Next, lookupVolumeByCSIName, Plan, ResizeSubvolume,
       SetSubvolumeProperties
<1> QED BY <1>1, <1>2

(* With a backend that refuses to shrink, or when the requests of a volume *)
(* come one after the other, no order of expansions, failures and lost     *)
(* answers takes back capacity that a success response has promised.       *)
THEOREM ExpansionPromiseKept == Spec => [](GrowsOnly => PromiseKept)
<1>1. PromiseInv => (GrowsOnly => PromiseKept)
  BY DEF PromiseInv
<1> QED BY <1>1, RangeInvInit, RangeInvStep, SerialInvInit, SerialInvStep,
           PromiseInvInit, PromiseInvStep, PTL DEF Spec

(* Under the same condition a filesystem that is behind a promised         *)
(* capacity always has a node expansion on its way.                        *)
THEOREM ExpansionFilesystemFollows == Spec => [](GrowsOnly => FilesystemFollows)
<1>1. PromiseInv => (GrowsOnly => FilesystemFollows)
  BY DEF PromiseInv
<1> QED BY <1>1, RangeInvInit, RangeInvStep, SerialInvInit, SerialInvStep,
           PromiseInvInit, PromiseInvStep, PTL DEF Spec

(* Under the same condition no step shrinks the volume.                    *)
THEOREM ExpansionNeverShrinks == GrowsOnly => (Spec => NeverShrinks)
<1> SUFFICES ASSUME GrowsOnly PROVE Spec => NeverShrinks
  OBVIOUS
<1>1. RangeInv /\ SerialInv /\ [Next]_vars => [size # None => size' >= size]_vars
  <2> SUFFICES ASSUME RangeInv, SerialInv, Next, size # None PROVE size' >= size
    OBVIOUS
  <2> QED BY SizeOnlyGrows DEF RangeInv
<1> QED BY <1>1, RangeInvInit, RangeInvStep, SerialInvInit, SerialInvStep, PTL DEF Spec, NeverShrinks

(* When the requests of a volume come one after the other, a success       *)
(* response means that the size and the recorded capacity are both what it *)
(* reports, whatever earlier attempts left half done.                      *)
THEOREM ExpansionSuccessReconciled == OneAtATime => (Spec => []SuccessReconciled)
<1> SUFFICES ASSUME OneAtATime PROVE Spec => []SuccessReconciled
  OBVIOUS
<1>1. SerialInv => SuccessReconciled
  BY DEF SerialInv
<1> QED BY <1>1, RangeInvInit, RangeInvStep, SerialInvInit, SerialInvStep, PTL DEF Spec
=============================================================================
