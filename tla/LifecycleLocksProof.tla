------------------------- MODULE LifecycleLocksProof -------------------------
(***************************************************************************)
(* Proofs about LifecycleLocks for any finite set of requests and any      *)
(* sets of volumes and entry addresses.                                    *)
(*                                                                         *)
(* The inductive invariant is the conjunction of the invariants the model  *)
(* checker verifies.  MutualExclusion alone is not inductive: it rests on  *)
(* TokenConserved (a holder leaves an empty channel), which rests on       *)
(* CurrentEntry (everybody is on the same channel), which rests on         *)
(* RefsExact (an entry is removed only when its last user leaves).         *)
(***************************************************************************)
EXTENDS LifecycleLocks, FiniteSetTheorems, TLAPS

-----------------------------------------------------------------------------
(* The users of an entry are finitely many.                                *)
LEMMA UsersFinite == \A e : IsFiniteSet(Users(e))
  BY RequestsFinite, FS_Subset DEF Users

(* The initial state, an empty map, satisfies the invariant.               *)
LEMMA InitInv == Init => LockInvariant
  BY NoEntryAssumption DEF Init, LockInvariant, TypeOK, PCs, CurrentEntry, EntriesDistinct, RefsExact,
        TokenConserved, MutualExclusion, UsesEntry, HasToken

(* Steps of r that neither enter nor leave the set of users of an entry    *)
(* and do not touch the map keep the counts exact.                         *)
LEMMA RefsUnchanged ==
  ASSUME LockInvariant, NEW r \in Requests, NEW p \in PCs,
         pc' = [pc EXCEPT ![r] = p], pc[r] \in UsesEntry <=> p \in UsesEntry,
         UNCHANGED <<entry, entries, refs>>
  PROVE  RefsExact'
<1>1. \A e : Users(e)' = Users(e)
  BY DEF Users, LockInvariant, TypeOK
<1>. QED
  BY <1>1 DEF RefsExact, LockInvariant

(* Call: a request that uses no entry picks a volume.                      *)
LEMMA CallInv ==
  ASSUME LockInvariant, NEW r \in Requests, NEW v \in Volumes, Call(r, v)
  PROVE  LockInvariant'
<1>. USE DEF LockInvariant, Call, PCs, UsesEntry, HasToken
<1>1. TypeOK'
  BY DEF TypeOK
<1>2. CurrentEntry' /\ EntriesDistinct'
  BY DEF TypeOK, CurrentEntry, EntriesDistinct
<1>3. RefsExact'
  BY RefsUnchanged
<1>4. TokenConserved'
  BY DEF TypeOK, TokenConserved
<1>5. MutualExclusion'
  BY DEF TypeOK, MutualExclusion
<1>. QED
  BY <1>1, <1>2, <1>3, <1>4, <1>5

(* Steps that only move the program counter, between two values on the     *)
(* same side of UsesEntry and of HasToken, and perhaps end the context.    *)
LEMMA MoveInv ==
  ASSUME LockInvariant, NEW r \in Requests, NEW p \in PCs,
         pc' = [pc EXCEPT ![r] = p],
         pc[r] \in UsesEntry <=> p \in UsesEntry,
         pc[r] \in HasToken <=> p \in HasToken,
         ctxDone' \in [Requests -> BOOLEAN],
         UNCHANGED <<vol, entry, entries, refs, token>>
  PROVE  LockInvariant'
<1>. USE DEF LockInvariant
<1>1. TypeOK'
  BY DEF TypeOK
<1>2. CurrentEntry' /\ EntriesDistinct'
  BY DEF TypeOK, CurrentEntry, EntriesDistinct
<1>3. RefsExact'
  BY RefsUnchanged DEF TypeOK
<1>4. TokenConserved'
  BY DEF TypeOK, TokenConserved
<1>5. MutualExclusion'
  BY DEF TypeOK, MutualExclusion
<1>. QED
  BY <1>1, <1>2, <1>3, <1>4, <1>5

(* JoinEntry: one more user, one more reference.                           *)
LEMMA JoinInv ==
  ASSUME LockInvariant, NEW r \in Requests, JoinEntry(r)
  PROVE  LockInvariant'
<1>. PICK x \in EntryIds : x = entries[vol[r]]
  BY DEF JoinEntry, LockInvariant, TypeOK
<1>. USE DEF LockInvariant
<1>0. x \in EntryIds /\ pc[r] = "enter" /\ entries' = entries /\ vol' = vol /\ token' = token
      /\ pc' = [pc EXCEPT ![r] = "wait"] /\ entry' = [entry EXCEPT ![r] = x]
      /\ refs' = [refs EXCEPT ![x] = @ + 1] /\ ctxDone' = ctxDone
  BY DEF JoinEntry, TypeOK
<1>1. TypeOK'
  BY <1>0 DEF TypeOK, PCs
<1>2. CurrentEntry' /\ EntriesDistinct'
  BY <1>0, NoEntryAssumption DEF TypeOK, CurrentEntry, EntriesDistinct, UsesEntry
<1>3. RefsExact'
  <2>1. Users(x)' = Users(x) \union {r} /\ r \notin Users(x)
    BY <1>0 DEF Users, UsesEntry, TypeOK
  <2>2. \A e : e # x => Users(e)' = Users(e)
    BY <1>0 DEF Users, UsesEntry, TypeOK
  <2>3. Cardinality(Users(x)') = Cardinality(Users(x)) + 1
    BY <2>1, UsersFinite, FS_AddElement
  <2>4. refs[x] = Cardinality(Users(x))
    BY <1>0, NoEntryAssumption DEF RefsExact, TypeOK
  <2>. QED
    BY <1>0, <2>1, <2>2, <2>3, <2>4 DEF RefsExact, TypeOK
<1>4. TokenConserved'
  BY <1>0 DEF TypeOK, TokenConserved, HasToken
<1>5. MutualExclusion'
  BY <1>0 DEF TypeOK, MutualExclusion, HasToken
<1>. QED
  BY <1>1, <1>2, <1>3, <1>4, <1>5

(* CreateEntry: a fresh entry with one user, one reference and its token.  *)
LEMMA CreateInv ==
  ASSUME LockInvariant, NEW r \in Requests, CreateEntry(r)
  PROVE  LockInvariant'
<1>. USE DEF LockInvariant
<1>. PICK x \in EntryIds :
        /\ Unreachable(x)
        /\ entries' = [entries EXCEPT ![vol[r]] = x]
        /\ token' = [token EXCEPT ![x] = 1]
        /\ refs' = [refs EXCEPT ![x] = 1]
        /\ entry' = [entry EXCEPT ![r] = x]
  BY DEF CreateEntry
<1>0. /\ pc[r] = "enter" /\ entries[vol[r]] = NoEntry
      /\ pc' = [pc EXCEPT ![r] = "wait"] /\ vol' = vol /\ ctxDone' = ctxDone
      /\ x # NoEntry /\ vol[r] \in Volumes
  BY NoEntryAssumption DEF CreateEntry, TypeOK
<1>1. TypeOK'
  BY <1>0 DEF TypeOK, PCs
<1>2. CurrentEntry'
  BY <1>0 DEF TypeOK, CurrentEntry, UsesEntry
<1>3. EntriesDistinct'
  BY <1>0 DEF TypeOK, EntriesDistinct, Unreachable
<1>4. RefsExact'
  <2>1. Users(x)' = {r}
    BY <1>0 DEF Users, UsesEntry, TypeOK, Unreachable
  <2>2. \A e : e # x => Users(e)' = Users(e)
    BY <1>0 DEF Users, UsesEntry, TypeOK
  <2>3. Cardinality(Users(x)') = 1
    BY <2>1, FS_Singleton
  <2>. QED
    BY <1>0, <2>1, <2>2, <2>3 DEF RefsExact, TypeOK
<1>5. TokenConserved'
  BY <1>0 DEF TypeOK, TokenConserved, HasToken, UsesEntry, Unreachable, Users
<1>6. MutualExclusion'
  BY <1>0 DEF TypeOK, MutualExclusion, HasToken
<1>. QED
  BY <1>1, <1>2, <1>3, <1>4, <1>5, <1>6

(* TakeToken: the channel is full, so nobody has the token yet.            *)
LEMMA TakeInv ==
  ASSUME LockInvariant, NEW r \in Requests, TakeToken(r)
  PROVE  LockInvariant'
<1>. DEFINE x == entry[r]
<1>. USE DEF LockInvariant
<1>0. /\ pc[r] = "wait" /\ x \in EntryIds /\ x = entries[vol[r]] /\ token[x] = 1
      /\ token' = [token EXCEPT ![x] = 0] /\ pc' = [pc EXCEPT ![r] = "took"]
      /\ UNCHANGED <<vol, ctxDone, entry, entries, refs>>
  BY DEF TakeToken, TypeOK, CurrentEntry, UsesEntry
<1>1. TypeOK'
  BY <1>0 DEF TypeOK, PCs
<1>2. CurrentEntry' /\ EntriesDistinct'
  BY <1>0 DEF TypeOK, CurrentEntry, EntriesDistinct, UsesEntry
<1>3. RefsExact'
  BY <1>0, RefsUnchanged DEF UsesEntry, PCs, TypeOK
<1>4. TokenConserved'
  BY <1>0, NoEntryAssumption DEF TypeOK, TokenConserved, HasToken, EntriesDistinct
<1>5. MutualExclusion'
  <2>1. ASSUME NEW s \in Requests, pc[s] \in HasToken PROVE vol[s] # vol[r]
    BY <1>0, <2>1 DEF TokenConserved, CurrentEntry, HasToken, UsesEntry
  <2>. QED
    BY <1>0, <2>1 DEF TypeOK, MutualExclusion
<1>. QED
  BY <1>1, <1>2, <1>3, <1>4, <1>5

(* SendToken, on the cancellation path or in the unlock closure.           *)
LEMMA SendInv ==
  ASSUME LockInvariant, NEW r \in Requests, pc[r] \in HasToken, SendToken(r)
  PROVE  LockInvariant'
<1>. DEFINE x == entry[r]
<1>. USE DEF LockInvariant
<1>0. /\ x \in EntryIds /\ x = entries[vol[r]] /\ vol[r] \in Volumes
      /\ token' = [token EXCEPT ![x] = 1] /\ pc' = [pc EXCEPT ![r] = "leave"]
      /\ UNCHANGED <<vol, ctxDone, entry, entries, refs>>
  BY DEF SendToken, TypeOK, CurrentEntry, UsesEntry, HasToken
<1>1. TypeOK'
  BY <1>0 DEF TypeOK, PCs
<1>2. CurrentEntry' /\ EntriesDistinct'
  BY <1>0 DEF TypeOK, CurrentEntry, EntriesDistinct, UsesEntry, HasToken
<1>3. RefsExact'
  BY <1>0, RefsUnchanged DEF UsesEntry, HasToken, PCs, TypeOK
<1>4. ASSUME NEW s \in Requests, s # r, pc[s] \in HasToken PROVE entry[s] # x
  BY <1>0, <1>4, NoEntryAssumption
     DEF MutualExclusion, CurrentEntry, EntriesDistinct, HasToken, UsesEntry, TypeOK
<1>5. TokenConserved'
  BY <1>0, <1>4 DEF TypeOK, TokenConserved, HasToken
<1>6. MutualExclusion'
  BY <1>0 DEF TypeOK, MutualExclusion, HasToken
<1>. QED
  BY <1>1, <1>2, <1>3, <1>5, <1>6

(* Leave: one user and one reference fewer; at zero the entry goes, and    *)
(* then nobody else uses it.                                               *)
LEMMA LeaveInv ==
  ASSUME LockInvariant, NEW r \in Requests, Leave(r)
  PROVE  LockInvariant'
<1>. PICK x \in EntryIds : x = entry[r]
  BY DEF Leave, LockInvariant, CurrentEntry, TypeOK, UsesEntry
<1>. USE DEF LockInvariant
<1>0. /\ pc[r] = "leave" /\ x \in EntryIds /\ x = entries[vol[r]] /\ vol[r] \in Volumes
      /\ refs' = [refs EXCEPT ![x] = @ - 1]
      /\ entries' = [entries EXCEPT ![vol[r]] = IF refs[x] = 1 THEN NoEntry ELSE @]
      /\ pc' = [pc EXCEPT ![r] = "idle"] /\ entry' = [entry EXCEPT ![r] = NoEntry]
      /\ UNCHANGED <<vol, ctxDone, token>>
  BY DEF Leave, TypeOK, CurrentEntry, UsesEntry
<1>1. r \in Users(x) /\ Users(x)' = Users(x) \ {r}
  BY <1>0, NoEntryAssumption DEF Users, UsesEntry, TypeOK
<1>2. \A e \in EntryIds : e # x => Users(e)' = Users(e)
  BY <1>0, NoEntryAssumption DEF Users, UsesEntry, TypeOK
<1>3. refs[x] = Cardinality(Users(x)) /\ refs[x] \in Nat
  BY <1>0, NoEntryAssumption DEF RefsExact, TypeOK
<1>4. Cardinality(Users(x)') = refs[x] - 1 /\ IsFiniteSet(Users(x)')
      /\ Cardinality(Users(x)') \in Nat
  BY <1>1, <1>3, UsersFinite, FS_RemoveElement, FS_CardinalityType
<1>5. refs[x] = 1 <=> Users(x)' = {}
  BY <1>3, <1>4, FS_EmptySet
<1>6. TypeOK'
  BY <1>0, <1>3, <1>4 DEF TypeOK, PCs
<1>7. EntriesDistinct'
  BY <1>0 DEF TypeOK, EntriesDistinct
<1>8. ASSUME NEW s \in Requests, s # r, pc[s] \in UsesEntry, vol[s] = vol[r] PROVE refs[x] # 1
  BY <1>0, <1>1, <1>5, <1>8 DEF Users, CurrentEntry
<1>9. CurrentEntry'
  BY <1>0, <1>8 DEF TypeOK, CurrentEntry, UsesEntry
<1>10. RefsExact'
  <2>. SUFFICES ASSUME NEW v \in Volumes, entries'[v] # NoEntry
               PROVE  ( /\ refs[entries[v]] = Cardinality(Users(entries[v]))
                        /\ Users(entries[v]) # {} )'
    BY DEF RefsExact
  <2>1. CASE v = vol[r]
    BY <2>1, <1>0, <1>1, <1>3, <1>4, <1>5 DEF TypeOK
  <2>2. CASE v # vol[r]
    <3>1. entries'[v] = entries[v] /\ entries[v] \in EntryIds /\ entries[v] # x
      BY <2>2, <1>0, NoEntryAssumption DEF TypeOK, EntriesDistinct
    <3>. QED
      BY <3>1, <1>0, <1>2 DEF RefsExact, TypeOK
  <2>. QED
    BY <2>1, <2>2
<1>11. TokenConserved'
  BY <1>0 DEF TypeOK, TokenConserved, HasToken
<1>12. MutualExclusion'
  BY <1>0 DEF TypeOK, MutualExclusion, HasToken
<1>. QED
  BY <1>6, <1>7, <1>9, <1>10, <1>11, <1>12

-----------------------------------------------------------------------------
(* Every step of every request keeps the invariant.                        *)
LEMMA NextInv == LockInvariant /\ [Next]_vars => LockInvariant'
<1>. SUFFICES ASSUME LockInvariant, [Next]_vars PROVE LockInvariant'
  OBVIOUS
<1>1. CASE UNCHANGED vars
  <2>1. \A e : Users(e)' = Users(e)
    BY <1>1 DEF vars, Users
  <2>. QED
    BY <1>1, <2>1 DEF vars, LockInvariant, TypeOK, CurrentEntry, EntriesDistinct, RefsExact,
          TokenConserved, MutualExclusion
<1>2. ASSUME NEW r \in Requests, NEW v \in Volumes, Call(r, v) PROVE LockInvariant'
  BY <1>2, CallInv
<1>3. ASSUME NEW r \in Requests, Cancel(r) PROVE LockInvariant'
  <2>1. pc' = [pc EXCEPT ![r] = pc[r]] /\ pc[r] \in PCs /\ ctxDone' \in [Requests -> BOOLEAN]
    BY <1>3 DEF Cancel, LockInvariant, TypeOK
  <2>. QED
    BY <1>3, <2>1, MoveInv DEF Cancel
<1>4. ASSUME NEW r \in Requests, CheckContext(r) PROVE LockInvariant'
  BY <1>4, MoveInv DEF CheckContext, LockInvariant, TypeOK, PCs, UsesEntry, HasToken
<1>5. ASSUME NEW r \in Requests, JoinEntry(r) PROVE LockInvariant'
  BY <1>5, JoinInv
<1>6. ASSUME NEW r \in Requests, CreateEntry(r) PROVE LockInvariant'
  BY <1>6, CreateInv
<1>7. ASSUME NEW r \in Requests, TakeToken(r) PROVE LockInvariant'
  BY <1>7, TakeInv
<1>8. ASSUME NEW r \in Requests, WaitCancelled(r) PROVE LockInvariant'
  BY <1>8, MoveInv DEF WaitCancelled, LockInvariant, TypeOK, PCs, UsesEntry, HasToken
<1>9. ASSUME NEW r \in Requests, RecheckContext(r) PROVE LockInvariant'
  BY <1>9, MoveInv DEF RecheckContext, LockInvariant, TypeOK, PCs, UsesEntry, HasToken
<1>10. ASSUME NEW r \in Requests, GiveUp(r) \/ Unlock(r) PROVE LockInvariant'
  BY <1>10, SendInv DEF GiveUp, Unlock, HasToken
<1>11. ASSUME NEW r \in Requests, Leave(r) PROVE LockInvariant'
  BY <1>11, LeaveInv
<1>. QED
  BY <1>1, <1>2, <1>3, <1>4, <1>5, <1>6, <1>7, <1>8, <1>9, <1>10, <1>11 DEF Next, LockStep

(* The inductive invariant holds in every state of every behaviour.        *)
THEOREM LocksInvariant == Spec => []LockInvariant
  BY InitInv, NextInv, PTL DEF Spec

(* Two RPCs are never inside the lifecycle of one volume, for any number   *)
(* of requests and volumes, whatever contexts end when.                    *)
THEOREM LocksMutualExclusion == Spec => []MutualExclusion
<1>1. LockInvariant => MutualExclusion
  BY DEF LockInvariant
<1>. QED
  BY <1>1, LocksInvariant, PTL

-----------------------------------------------------------------------------
(* Refinement.  The holder of a volume is the request that has its token.  *)

(* Under mutual exclusion the choice in Holder is no choice.               *)
LEMMA HolderIs ==
  ASSUME LockInvariant, NEW r \in Requests, pc[r] \in HasToken
  PROVE  Holder(vol[r]) = r
<1>1. \A s \in Requests : pc[s] \in HasToken /\ vol[s] = vol[r] <=> s = r
  BY DEF LockInvariant, MutualExclusion
<1>2. (CHOOSE s \in Requests : pc[s] \in HasToken /\ vol[s] = vol[r]) = r
  BY <1>1
<1>. QED
  BY <1>2 DEF Holder

(* A step that moves no request in or out of HasToken, and the volume of   *)
(* none that has a token, leaves every holder alone.                       *)
LEMMA HolderUnchanged ==
  ASSUME \A s \in Requests : /\ (pc[s] \in HasToken)' <=> pc[s] \in HasToken
                             /\ pc[s] \in HasToken => vol'[s] = vol[s]
  PROVE  UNCHANGED [v \in Volumes |-> Holder(v)]
<1>1. ASSUME NEW v \in Volumes
      PROVE  \A s \in Requests : (pc[s] \in HasToken /\ vol[s] = v)' <=> (pc[s] \in HasToken /\ vol[s] = v)
  OBVIOUS
<1>2. ASSUME NEW v \in Volumes
      PROVE  Holder(v)' = Holder(v)
  <2>1. (CHOOSE s \in Requests : pc[s] \in HasToken /\ vol[s] = v)'
        = CHOOSE s \in Requests : pc[s] \in HasToken /\ vol[s] = v
    BY <1>1, Zenon
  <2>. QED
    BY <1>1, <2>1 DEF Holder
<1>. QED
  BY <1>2

(* The receive of the token is the abstract Acquire.                       *)
LEMMA TakeAcquires ==
  ASSUME LockInvariant, LockInvariant', NEW r \in Requests, TakeToken(r)
  PROVE  Mutex!Acquire(r, vol[r])
<1>0. /\ vol' = vol /\ pc' = [pc EXCEPT ![r] = "took"] /\ vol[r] \in Volumes
      /\ pc \in [Requests -> PCs] /\ pc[r] \notin HasToken /\ pc'[r] \in HasToken
  BY DEF TakeToken, LockInvariant, TypeOK, HasToken
<1>1. \A s \in Requests : pc[s] \in HasToken => vol[s] # vol[r]
  BY <1>0 DEF LockInvariant, MutualExclusion, HasToken
<1>2. Holder(vol[r]) = NoEntry
  BY <1>1 DEF Holder
<1>3. Holder(vol[r])' = r
  <2>1. \A s \in Requests : (pc[s] \in HasToken /\ vol[s] = vol[r])' <=> s = r
    BY <1>0 DEF LockInvariant, MutualExclusion
  <2>2. (CHOOSE s \in Requests : pc[s] \in HasToken /\ vol[s] = vol[r])' = r
    BY <2>1
  <2>. QED
    BY <2>1, <2>2 DEF Holder
<1>4. ASSUME NEW v \in Volumes, v # vol[r] PROVE Holder(v)' = Holder(v)
  <2>1. \A s \in Requests : (pc[s] \in HasToken /\ vol[s] = v)' <=> (pc[s] \in HasToken /\ vol[s] = v)
    BY <1>0, <1>4
  <2>2. (CHOOSE s \in Requests : pc[s] \in HasToken /\ vol[s] = v)'
        = CHOOSE s \in Requests : pc[s] \in HasToken /\ vol[s] = v
    BY <2>1, Zenon
  <2>. QED
    BY <2>1, <2>2 DEF Holder
<1>5. \A v \in Volumes : Holder(v)' = IF v = vol[r] THEN r ELSE Holder(v)
  BY <1>0, <1>3, <1>4
<1>. QED
  BY <1>0, <1>2, <1>5 DEF Mutex!Acquire

(* The send that gives the token back is the abstract Release.             *)
LEMMA SendReleases ==
  ASSUME LockInvariant, NEW r \in Requests, pc[r] \in HasToken, SendToken(r)
  PROVE  Mutex!Release(r, vol[r])
<1>0. /\ vol' = vol /\ pc' = [pc EXCEPT ![r] = "leave"] /\ vol[r] \in Volumes
      /\ pc \in [Requests -> PCs] /\ pc'[r] \notin HasToken
  BY DEF SendToken, LockInvariant, TypeOK, HasToken
<1>1. \A s \in Requests : pc'[s] \in HasToken => vol'[s] # vol[r]
  BY <1>0 DEF LockInvariant, MutualExclusion
<1>2. Holder(vol[r]) = r
  BY HolderIs
<1>3. Holder(vol[r])' = NoEntry
  BY <1>0, <1>1 DEF Holder
<1>4. ASSUME NEW v \in Volumes, v # vol[r] PROVE Holder(v)' = Holder(v)
  <2>1. \A s \in Requests : (pc[s] \in HasToken /\ vol[s] = v)' <=> (pc[s] \in HasToken /\ vol[s] = v)
    BY <1>0, <1>4
  <2>2. (CHOOSE s \in Requests : pc[s] \in HasToken /\ vol[s] = v)'
        = CHOOSE s \in Requests : pc[s] \in HasToken /\ vol[s] = v
    BY <2>1, Zenon
  <2>. QED
    BY <2>1, <2>2 DEF Holder
<1>5. \A v \in Volumes : Holder(v)' = IF v = vol[r] THEN NoEntry ELSE Holder(v)
  BY <1>0, <1>3, <1>4
<1>. QED
  BY <1>0, <1>2, <1>5 DEF Mutex!Release

(* In the initial state no volume has a holder.                            *)
LEMMA InitRefines == Init => Mutex!Init
  BY DEF Init, Mutex!Init, Holder, HasToken

(* Every step is a step of the abstract mutex or a stutter of it.          *)
LEMMA NextRefines == LockInvariant /\ LockInvariant' /\ [Next]_vars => [Mutex!Next]_([v \in Volumes |-> Holder(v)])
<1>. SUFFICES ASSUME LockInvariant, LockInvariant', [Next]_vars
             PROVE  Mutex!Next \/ UNCHANGED [v \in Volumes |-> Holder(v)]
  OBVIOUS
<1>. USE DEF LockInvariant, TypeOK, HasToken
<1>1. CASE UNCHANGED vars
  BY <1>1, HolderUnchanged DEF vars
<1>2. ASSUME NEW r \in Requests, NEW v \in Volumes, Call(r, v)
      PROVE  UNCHANGED [w \in Volumes |-> Holder(w)]
  BY <1>2, HolderUnchanged DEF Call
<1>3. ASSUME NEW r \in Requests, Cancel(r)
      PROVE  UNCHANGED [v \in Volumes |-> Holder(v)]
  BY <1>3, HolderUnchanged DEF Cancel
<1>4. ASSUME NEW r \in Requests, CheckContext(r) \/ RecheckContext(r) \/ WaitCancelled(r)
      PROVE  UNCHANGED [v \in Volumes |-> Holder(v)]
  BY <1>4, HolderUnchanged DEF CheckContext, RecheckContext, WaitCancelled
<1>5. ASSUME NEW r \in Requests, JoinEntry(r) \/ CreateEntry(r) \/ Leave(r)
      PROVE  UNCHANGED [v \in Volumes |-> Holder(v)]
  BY <1>5, HolderUnchanged DEF JoinEntry, CreateEntry, Leave
<1>6. ASSUME NEW r \in Requests, TakeToken(r)
      PROVE  Mutex!Next
  BY <1>6, TakeAcquires DEF Mutex!Next
<1>7. ASSUME NEW r \in Requests, GiveUp(r) \/ Unlock(r)
      PROVE  Mutex!Next
  BY <1>7, SendReleases DEF Mutex!Next, GiveUp, Unlock
<1>. QED
  BY <1>1, <1>2, <1>3, <1>4, <1>5, <1>6, <1>7 DEF Next, LockStep

(* The reference-counted locks implement one mutex per volume.             *)
THEOREM LocksRefineMutex == Spec => ImplementsVolumeMutex
  BY InitRefines, NextRefines, LocksInvariant, PTL DEF Spec, ImplementsVolumeMutex, Mutex!Spec
=============================================================================
