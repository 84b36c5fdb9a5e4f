----------------------- MODULE VolumeProvisioningProof -----------------------
(***************************************************************************)
(* Proofs about VolumeProvisioning and VolumeCloning for any requests,     *)
(* names, backend contents, number of handlers and number of failures.     *)
(*                                                                         *)
(* BaseInv holds for every request and every backend: the locals a handler *)
(* goes by are there, identityMu keeps the identity a rollback has looked  *)
(* at as it is, and an unmanaged subvolume is excused or held by the       *)
(* handler that created it.  OwnInv needs every subvolume to be claimed by *)
(* one request at most (SoleClaimants): then all handlers at a name serve  *)
(* one request, at most one of them is live, and what that request owns    *)
(* stays its own until it is deleted.                                      *)
(*                                                                         *)
(* The second half is about VolumeCloning.  Its hypothesis Settled says    *)
(* where the world may start: no subvolume is claimed by two requests,     *)
(* what is cloned belongs to nobody who is still to be served, and what    *)
(* the backend holds was left by the driver.  Then a request with a        *)
(* content source has one Home, whichever of its attempts is at work; once *)
(* an attempt has written the identity there (Done), only the deletion     *)
(* that the CO asks for takes it away; and no handler goes on to           *)
(* createVolumeByProtocol before that.                                     *)
(***************************************************************************)
EXTENDS VolumeCloning, TLAPS

(* Where a handler has a subvolume name, a UUID, a subvolume it has read.  *)
NamedPCs == PCs \ {"idle", "findName", "findPVC", "select", "selectLegacy"}
IdentityPCs == {"adoptList", "list", "getOrCreate", "create", "validate", "persist", "verify",
                "rollback", "rollbackDelete"}
SeenPCs == {"adoptList", "list", "validate", "persist", "verify"}
DeletePCs == {"lookup", "own", "findEndpoint", "deleteEndpoint", "deleteSub", "deleted"}

(* Where the subvolume a handler created has no identity yet.              *)
HoldingPCs == {"validate", "persist", "verify", "rollback", "rollbackDelete"}

(* A handler h at p with the locals l, when the backend holds s and m has  *)
(* identityMu.                                                             *)
HandlerOK(h, p, l, s, m) ==
    /\ p = "idle" => l = NoLocals
    /\ p # "idle" => l.req \in Requests
    /\ p \in NamedPCs => l.name \in Names
    /\ p \in IdentityPCs => l.uuid \in UUIDs
    /\ p \in SeenPCs => l.seen # None
    /\ l.created => /\ p \in HoldingPCs \union {"endpoint", "reply"}
                    /\ l.seen # None /\ ~l.seen.managed
    /\ p \in {"rollback", "rollbackDelete"} => l.created
    /\ ~l.cloning
    /\ p \in {"verify", "rollbackDelete"} => m = h
    /\ p = "rollbackDelete" => s[l.name] = None \/ ~hasCompleteV2Identity(l.name, s[l.name])

HandlersOK == \A h \in Handlers : HandlerOK(h, pc[h], loc[h], sub, mu)

HandlesNamed ==
    \A r \in Requests : co[r].phase \in {"bound", "deleting"} => co[r].handle \in Names

Held(n) == \E h \in Handlers : loc[h].created /\ loc[h].name = n /\ pc[h] \in HoldingPCs

OrphansHeld ==
    \A n \in Names : sub[n] # None /\ ~sub[n].managed => n \in excused \/ Held(n)

BaseInv == TypeOK /\ HandlersOK /\ HandlesNamed /\ OrphansHeld

-----------------------------------------------------------------------------
(* The storage of s, called n, is what request r asked for.                *)
OwnedBy(r, n, s) ==
    /\ s # None /\ hasCompleteV2Identity(n, s)
    /\ s.request = r /\ s.proto = profile[r].proto /\ s.strategy = profile[r].strategy

(* Nothing of request r is to be removed.                                  *)
Kept(r) == co[r].phase \in {"wanted", "bound"} \/ profile[r].strategy = "retain"

(* What the properties of a subvolume say leads no request to a subvolume  *)
(* that it has no claim on in the world w.                                 *)
Traceable(w, n, s) ==
    /\ s.csi \in {None, n} \/ (w.subs[n] # None /\ s.csi = w.subs[n].csi)
    /\ \/ s.pvc = 0 \/ (w.subs[n] # None /\ s.pvc = w.subs[n].pvc)
       \/ \E r \in Requests : Claim(w, r, n) /\ s.pvc = w.profile[r].pvc
    /\ s.request # None => Claim(w, s.request, n)

(* A handler at p with the locals l.                                       *)
ServesOK(w, p, l) ==
    /\ p \in NamedPCs => Claim(w, l.req, l.name)
    /\ p \in DeletePCs => /\ co[l.req].phase \in {"deleting", "gone"}
                          /\ l.name = co[l.req].handle
    /\ p \notin DeletePCs /\ l.live => co[l.req].phase = "wanted"
    /\ p \in {"findEndpoint", "deleteEndpoint", "deleteSub"} => ~Kept(l.req)
    /\ l.exposed => p \in {"persist", "verify", "rollback", "rollbackDelete", "endpoint", "reply"}
    /\ p \in NamedPCs \ DeletePCs /\ Kept(l.req) =>
          /\ OwnedBy(l.req, l.name, l.seen) \/ p \in {"endpoint", "reply"}
                => OwnedBy(l.req, l.name, sub[l.name])
          /\ l.exposed \/ p = "reply" => ep[l.name] # None

OneLive ==
    \A g, h \in Handlers :
        loc[g].live /\ loc[h].live /\ loc[g].req = loc[h].req => g = h

RequestOK(w, r) ==
    /\ co[r].phase # "wanted" => co[r].handle \in Names /\ Claim(w, r, co[r].handle)
    /\ co[r].phase # "wanted" /\ Kept(r) =>
          OwnedBy(r, co[r].handle, sub[co[r].handle]) /\ ep[co[r].handle] # None
    /\ ~Kept(r) => sub[co[r].handle] = None \/ sub[co[r].handle].strategy # "retain"

(* Nobody who may roll back holds a volume that is to be retained.         *)
NoRetainedHeld ==
    \A h \in Handlers, n \in Names :
        /\ loc[h].created /\ loc[h].name = n /\ sub[n] # None
        /\ ~hasCompleteV2Identity(n, sub[n])
        => sub[n].strategy # "retain"

Own(w) ==
    /\ profile = w.profile
    /\ \A n \in Names : sub[n] # None => Traceable(w, n, sub[n])
    /\ \A h \in Handlers : pc[h] # "idle" => ServesOK(w, pc[h], loc[h])
    /\ OneLive /\ NoRetainedHeld
    /\ \A r \in Requests : RequestOK(w, r)

OwnInv == \E w \in Worlds : Own(w)

(* No subvolume of any backend is claimed by two requests.                 *)
SoleClaimants == \A w \in Worlds : SoleClaimant(w)

-----------------------------------------------------------------------------
(* Lemmas about the operators the model is built from.                     *)

LEMMA NoneApart ==
  /\ \A x \in Handlers \union Requests \union Names \union UUIDs \union Nat : x # None
  /\ \A x \in Protocols \union Strategies : x # None
  /\ \A s \in SubType : s # None
  BY NoneAssumption

LEMMA FaultsTyped ==
  ASSUME TypeOK, NEW h \in Handlers, Ok(h) \/ Err(h) \/ Lost \/ Fault \/ UNCHANGED faults
  PROVE  faults' \in 0 .. MaxFaults
  BY MaxFaultsAssumption DEF TypeOK, Ok, Err, Lost, Fault

LEMMA NoLocalsTyped == NoLocals \in LocalType
  BY DEF NoLocals, LocalType

LEMMA LocalsTyped ==
  ASSUME TypeOK, NEW r \in Requests
  PROVE  /\ Locals(r) \in LocalType
         /\ Locals(r).req = r /\ Locals(r).name = None /\ Locals(r).seen = None
         /\ Locals(r).uuid = None /\ Locals(r).created = FALSE /\ Locals(r).cloning = FALSE
         /\ Locals(r).exposed = FALSE /\ Locals(r).live = TRUE
<1>1. profile[r].cap \in Nat
  BY DEF TypeOK, ProfileType
<1>. QED
  BY <1>1 DEF Locals, NoLocals, LocalType

LEMMA BlankTyped ==
  ASSUME NEW n \in Nat
  PROVE  /\ BlankSubvolume(n) \in SubType /\ ~BlankSubvolume(n).managed
         /\ BlankSubvolume(n).strategy = None /\ BlankSubvolume(n).csi = None
         /\ BlankSubvolume(n).pvc = 0 /\ BlankSubvolume(n).request = None
  BY DEF BlankSubvolume, SubType

(* What SetSubvolumeProperties leaves is complete and records the request. *)
LEMMA IdentifiedOwned ==
  ASSUME TypeOK, NEW h \in Handlers, loc[h].req \in Requests, loc[h].name \in Names,
         loc[h].uuid \in UUIDs, ~loc[h].cloning, NEW s \in SubType
  PROVE  /\ Identified(h, s) \in SubType /\ Identified(h, s).managed
         /\ OwnedBy(loc[h].req, loc[h].name, Identified(h, s))
         /\ Identified(h, s).csi = loc[h].name /\ Identified(h, s).request = loc[h].req
         /\ Identified(h, s).pvc \in {s.pvc, P(h).pvc}
<1>1. /\ P(h) \in ProfileType /\ loc[h].cap \in Nat
      /\ loc[h].req # None /\ loc[h].uuid # None
  BY NoneApart DEF TypeOK, P, LocalType
<1>2. /\ P(h).proto \in Protocols /\ P(h).pvc \in Nat /\ P(h).strategy \in Strategies
      /\ P(h).markAdoptable \in BOOLEAN /\ P(h).proto # None
  BY <1>1, NoneApart DEF ProfileType
<1>. DEFINE own == [s EXCEPT !.managed = TRUE, !.request = loc[h].req, !.uuid = loc[h].uuid,
                             !.csi = loc[h].name, !.proto = P(h).proto, !.cap = loc[h].cap]
            all == [own EXCEPT !.pvc = IF P(h).pvc = 0 THEN @ ELSE P(h).pvc,
                               !.adoptable = @ \/ P(h).markAdoptable, !.strategy = P(h).strategy]
<1>3. own \in SubType
  BY <1>1, <1>2 DEF SubType, TypeOK, LocalType
<1>4. /\ own.managed /\ own.request = loc[h].req /\ own.uuid = loc[h].uuid
      /\ own.csi = loc[h].name /\ own.proto = P(h).proto /\ own.pvc = s.pvc
  BY DEF SubType
<1>. HIDE DEF own
<1>5. all \in SubType
  <2>. DEFINE pvc == IF P(h).pvc = 0 THEN own.pvc ELSE P(h).pvc
              flag == own.adoptable \/ P(h).markAdoptable
  <2>1. pvc \in Nat
    BY <1>2, <1>3 DEF SubType
  <2>2. flag \in BOOLEAN
    BY Zenon
  <2>3. all = [own EXCEPT !.pvc = pvc, !.adoptable = flag, !.strategy = P(h).strategy]
    BY <1>3 DEF SubType
  <2>. HIDE DEF pvc, flag, all
  <2>. QED
    BY <1>2, <1>3, <2>1, <2>2, <2>3, ZenonT(60) DEF SubType
<1>6. /\ all.managed /\ all.request = loc[h].req /\ all.uuid = loc[h].uuid
      /\ all.csi = loc[h].name /\ all.proto = P(h).proto /\ all.pvc \in {s.pvc, P(h).pvc}
      /\ all.strategy = P(h).strategy
  BY <1>3, <1>4 DEF SubType
<1>7. Identified(h, s) = all
  BY DEF Identified, own
<1>. HIDE DEF all
<1>. QED
  BY <1>1, <1>2, <1>5, <1>6, <1>7, NoneApart DEF OwnedBy, hasCompleteV2Identity, V2, P

(* A subvolume that has the intended properties is the request's own.      *)
LEMMA ContainsOwned ==
  ASSUME TypeOK, NEW h \in Handlers, loc[h].req \in Requests, loc[h].name \in Names,
         loc[h].uuid \in UUIDs, ~loc[h].cloning, NEW s \in SubType, propertiesContain(h, s)
  PROVE  s.managed /\ OwnedBy(loc[h].req, loc[h].name, s)
<1>1. Identified(h, s) = s
  BY DEF propertiesContain
<1>2. Identified(h, s).managed /\ OwnedBy(loc[h].req, loc[h].name, Identified(h, s))
  BY IdentifiedOwned
<1>. QED
  BY <1>1, <1>2

-----------------------------------------------------------------------------
(* BaseInv: what a step of one handler has to show.                        *)

LEMMA BaseStep ==
  ASSUME BaseInv, TypeOK', NEW h \in Handlers,
         \A g \in Handlers \ {h} : pc'[g] = pc[g] /\ loc'[g] = loc[g],
         HandlerOK(h, pc'[h], loc'[h], sub', mu'),
         mu' = mu \/ mu \in {None, h},
         \A n \in Names : \/ sub'[n] \in {sub[n], None} \/ mu = None
                          \/ ~hasCompleteV2Identity(n, sub'[n]),
         HandlesNamed', OrphansHeld'
  PROVE  BaseInv'
<1>1. ASSUME NEW g \in Handlers, g # h
      PROVE  HandlerOK(g, pc'[g], loc'[g], sub', mu')
  <2>1. HandlerOK(g, pc[g], loc[g], sub, mu) /\ pc'[g] = pc[g] /\ loc'[g] = loc[g]
    BY <1>1 DEF BaseInv, HandlersOK
  <2>2. pc[g] \in {"verify", "rollbackDelete"} => mu = g /\ mu' = g
    BY <1>1, <2>1, NoneApart DEF HandlerOK
  <2>3. pc[g] = "rollbackDelete" => loc[g].name \in Names
    BY <2>1 DEF HandlerOK, NamedPCs, PCs
  <2>4. pc[g] = "rollbackDelete" =>
          sub'[loc[g].name] = None \/ ~hasCompleteV2Identity(loc[g].name, sub'[loc[g].name])
    BY <2>1, <2>2, <2>3, NoneApart DEF HandlerOK
  <2>. QED
    BY <2>1, <2>2, <2>4 DEF HandlerOK
<1>2. HandlersOK'
  BY <1>1 DEF HandlersOK
<1>. QED
  BY <1>2 DEF BaseInv

(* A step that leaves the subvolumes alone: the handler goes to p with the *)
(* locals l, and if it held a subvolume it still does, or nobody has to.   *)
LEMMA QuietStep ==
  ASSUME BaseInv, NEW h \in Handlers, NEW p \in PCs, NEW l \in LocalType,
         pc' = [pc EXCEPT ![h] = p], loc' = [loc EXCEPT ![h] = l],
         UNCHANGED <<profile, sub>>, faults' \in 0 .. MaxFaults,
         ep' \in [Names -> Nat \union {None}],
         co' \in [Requests -> [phase : {"wanted", "bound", "deleting", "gone"},
                               handle : Names \union {None}]],
         HandlesNamed',
         mu' \in Handlers \union {None}, mu' = mu \/ mu \in {None, h},
         excused \subseteq excused', excused' \subseteq Names,
         HandlerOK(h, p, l, sub, mu'),
         loc[h].created /\ pc[h] \in HoldingPCs =>
            \/ l.created /\ l.name = loc[h].name /\ p \in HoldingPCs
            \/ sub[loc[h].name] = None \/ sub[loc[h].name].managed \/ loc[h].name \in excused'
  PROVE  BaseInv'
<1>1. TypeOK'
  BY DEF BaseInv, TypeOK
<1>2. /\ pc'[h] = p /\ loc'[h] = l
      /\ \A g \in Handlers \ {h} : pc'[g] = pc[g] /\ loc'[g] = loc[g]
  BY DEF BaseInv, TypeOK
<1>3. OrphansHeld'
  <2>. SUFFICES ASSUME NEW n \in Names, sub[n] # None, ~sub[n].managed, n \notin excused'
                PROVE  Held(n)'
    BY DEF OrphansHeld
  <2>1. PICK g \in Handlers : loc[g].created /\ loc[g].name = n /\ pc[g] \in HoldingPCs
    BY DEF BaseInv, OrphansHeld, Held
  <2>2. CASE g = h
    BY <1>2, <2>1, <2>2 DEF Held
  <2>3. CASE g # h
    <3>1. pc'[g] = pc[g] /\ loc'[g] = loc[g]
      BY <1>2, <2>3, Zenon
    <3>2. loc'[g].created /\ loc'[g].name = n /\ pc'[g] \in HoldingPCs
      BY <2>1, <3>1, Zenon
    <3>. QED
      BY <3>2 DEF Held
  <2>. QED
    BY <2>2, <2>3
<1>. QED
  BY <1>1, <1>2, <1>3, BaseStep

(* The ways a handler goes on without touching a subvolume.                *)
LEMMA ReturnBase ==
  ASSUME BaseInv, NEW h \in Handlers, Return(h), UNCHANGED <<profile, sub, excused, mu>>,
         ep' \in [Names -> Nat \union {None}],
         co' \in [Requests -> [phase : {"wanted", "bound", "deleting", "gone"},
                               handle : Names \union {None}]],
         HandlesNamed', faults' \in 0 .. MaxFaults, pc[h] \notin HoldingPCs \/ ~loc[h].created
  PROVE  BaseInv'
<1>1. HandlerOK(h, "idle", NoLocals, sub, mu')
  BY DEF HandlerOK, NoLocals, NamedPCs, IdentityPCs, SeenPCs, PCs
<1>2. pc' = [pc EXCEPT ![h] = "idle"] /\ loc' = [loc EXCEPT ![h] = NoLocals]
  BY DEF Return, Goto
<1>3. mu' \in Handlers \union {None} /\ excused' \subseteq Names
  BY DEF BaseInv, TypeOK
<1>. QED
  BY <1>1, <1>2, <1>3, NoLocalsTyped, QuietStep, ZenonT(30) DEF PCs

LEMMA FailBase ==
  ASSUME BaseInv, NEW h \in Handlers, Fail(h), UNCHANGED profile,
         pc[h] \notin HoldingPCs \/ ~loc[h].created
  PROVE  BaseInv'
<1>1. faults' \in 0 .. MaxFaults
  BY FaultsTyped DEF Fail, BaseInv
<1>2. co' = co /\ HandlesNamed'
  BY DEF Fail, BaseInv, HandlesNamed
<1>. QED
  BY <1>1, <1>2, ReturnBase DEF Fail, BaseInv, TypeOK, Backend

LEMMA MoveBase ==
  ASSUME BaseInv, NEW h \in Handlers, NEW p \in PCs, Move(h, p),
         UNCHANGED <<profile, sub, excused, mu, co>>, faults' \in 0 .. MaxFaults,
         ep' \in [Names -> Nat \union {None}],
         HandlerOK(h, p, loc[h], sub, mu),
         pc[h] \in HoldingPCs /\ loc[h].created => p \in HoldingPCs
  PROVE  BaseInv'
<1>1. TypeOK /\ HandlesNamed /\ loc[h] \in LocalType
  BY DEF BaseInv, TypeOK
<1>2. loc' = [loc EXCEPT ![h] = loc[h]] /\ pc' = [pc EXCEPT ![h] = p]
  BY <1>1 DEF Move, Goto, TypeOK
<1>3. HandlesNamed'
  BY <1>1 DEF HandlesNamed
<1>. QED
  BY <1>1, <1>2, <1>3, QuietStep DEF TypeOK

(* Where a handler that settles on an existing subvolume goes.             *)
LEMMA SelectBase ==
  ASSUME BaseInv, NEW h \in Handlers, NEW n \in Names, sub[n] # None,
         NEW p \in {"adoptList", "list", "validate", "persist"}, Select(h, n, p),
         UNCHANGED <<profile, Backend, mu, co>>, faults' \in 0 .. MaxFaults,
         pc[h] # "idle", ~loc[h].created
  PROVE  BaseInv'
<1>1. TypeOK /\ HandlesNamed /\ loc[h] \in LocalType /\ HandlerOK(h, pc[h], loc[h], sub, mu)
  BY DEF BaseInv, TypeOK, HandlersOK
<1>2. PICK u \in UUIDs : /\ loc' = [loc EXCEPT ![h].name = n, ![h].seen = sub[n], ![h].uuid = u]
                         /\ pc' = [pc EXCEPT ![h] = p]
  BY DEF Select, Goto
<1>. DEFINE l == [loc[h] EXCEPT !.name = n, !.seen = sub[n], !.uuid = u]
<1>3. loc' = [loc EXCEPT ![h] = l]
  BY <1>1, <1>2 DEF TypeOK
<1>4. sub[n] \in SubType
  BY <1>1 DEF TypeOK
<1>5. l \in LocalType
  BY <1>1, <1>4 DEF LocalType
<1>6. /\ l.name = n /\ l.seen = sub[n] /\ l.uuid = u /\ l.req = loc[h].req
      /\ l.created = loc[h].created /\ l.cloning = loc[h].cloning
  BY <1>1 DEF LocalType
<1>. HIDE DEF l
<1>7. HandlerOK(h, p, l, sub, mu)
  BY <1>1, <1>6 DEF HandlerOK
<1>8. HandlesNamed' /\ p \in PCs
  BY <1>1 DEF HandlesNamed, PCs
<1>. QED
  BY <1>1, <1>2, <1>3, <1>5, <1>7, <1>8, QuietStep DEF Backend, TypeOK

LEMMA TakeBase ==
  ASSUME BaseInv, NEW h \in Handlers, NEW n \in Names, sub[n] # None,
         NEW p \in {"list", "validate", "persist"}, Take(h, n, p),
         UNCHANGED <<profile, Backend, mu, co>>, faults' \in 0 .. MaxFaults,
         pc[h] # "idle", ~loc[h].created
  PROVE  BaseInv'
<1>1. HandlesNamed' /\ co' = co
  BY DEF BaseInv, HandlesNamed
<1>2. CASE Return(h)
  BY <1>1, <1>2, ReturnBase DEF BaseInv, TypeOK, Backend
<1>3. CASE Select(h, n, p)
  BY <1>3, SelectBase
<1>. QED
  BY <1>2, <1>3 DEF Take

LEMMA NewVolumeBase ==
  ASSUME BaseInv, NEW h \in Handlers, NewVolume(h),
         UNCHANGED <<profile, Backend, mu, co>>, faults' \in 0 .. MaxFaults,
         pc[h] # "idle", ~loc[h].created
  PROVE  BaseInv'
<1>1. TypeOK /\ HandlesNamed /\ loc[h] \in LocalType /\ HandlerOK(h, pc[h], loc[h], sub, mu)
  BY DEF BaseInv, TypeOK, HandlersOK
<1>2. P(h).backend \in Names
  BY <1>1 DEF HandlerOK, P, TypeOK, ProfileType
<1>3. PICK u \in UUIDs :
        /\ loc' = [loc EXCEPT ![h].name = P(h).backend, ![h].seen = None, ![h].uuid = u]
        /\ pc' = [pc EXCEPT ![h] = IF P(h).proto = "nfs" THEN "create" ELSE "getOrCreate"]
  BY DEF NewVolume, Goto
<1>. DEFINE p == IF P(h).proto = "nfs" THEN "create" ELSE "getOrCreate"
            l == [loc[h] EXCEPT !.name = P(h).backend, !.seen = None, !.uuid = u]
<1>4. loc' = [loc EXCEPT ![h] = l] /\ l \in LocalType
  BY <1>1, <1>2, <1>3 DEF TypeOK, LocalType
<1>5. /\ l.name = P(h).backend /\ l.uuid = u /\ l.req = loc[h].req
      /\ l.created = loc[h].created /\ l.cloning = loc[h].cloning
  BY <1>1 DEF LocalType
<1>6. p \in PCs /\ p \in {"create", "getOrCreate"} /\ pc' = [pc EXCEPT ![h] = p]
  BY <1>3 DEF PCs
<1>. HIDE DEF l, p
<1>7. HandlerOK(h, p, l, sub, mu)
  BY <1>1, <1>2, <1>5, <1>6 DEF HandlerOK, SeenPCs
<1>8. HandlesNamed'
  BY <1>1, SMTT(40) DEF HandlesNamed
<1>. QED
  BY <1>1, <1>4, <1>6, <1>7, <1>8, QuietStep DEF Backend, TypeOK

(* A handler notes whether the subvolume is exposed.                       *)
LEMMA NoteBase ==
  ASSUME BaseInv, NEW h \in Handlers, NEW b \in BOOLEAN, pc[h] \in {"adoptList", "list"},
         Goto(h, "persist"), loc' = [loc EXCEPT ![h].exposed = b],
         UNCHANGED <<profile, Backend, mu, co>>, faults' \in 0 .. MaxFaults
  PROVE  BaseInv'
<1>1. TypeOK /\ HandlesNamed /\ loc[h] \in LocalType /\ HandlerOK(h, pc[h], loc[h], sub, mu)
  BY DEF BaseInv, TypeOK, HandlersOK
<1>. DEFINE l == [loc[h] EXCEPT !.exposed = b]
<1>2. loc' = [loc EXCEPT ![h] = l] /\ l \in LocalType
  BY <1>1 DEF TypeOK, LocalType
<1>3. /\ l.name = loc[h].name /\ l.uuid = loc[h].uuid /\ l.req = loc[h].req /\ l.seen = loc[h].seen
      /\ l.created = loc[h].created /\ l.cloning = loc[h].cloning
  BY <1>1 DEF LocalType
<1>. HIDE DEF l
<1>4. HandlerOK(h, "persist", l, sub, mu)
  BY <1>1, <1>3 DEF HandlerOK, NamedPCs, IdentityPCs, SeenPCs, HoldingPCs, PCs
<1>5. HandlesNamed' /\ pc[h] \notin HoldingPCs
  BY <1>1 DEF HandlesNamed, HoldingPCs
<1>. QED
  BY <1>1, <1>2, <1>4, <1>5, QuietStep, ZenonT(30) DEF Backend, TypeOK, Goto, PCs

LEMMA QuietReturnBase ==
  ASSUME BaseInv, NEW h \in Handlers, Return(h), UNCHANGED <<profile, Backend, mu, co>>,
         faults' \in 0 .. MaxFaults, pc[h] \notin HoldingPCs \/ ~loc[h].created
  PROVE  BaseInv'
<1>1. HandlesNamed'
  BY DEF BaseInv, HandlesNamed
<1>. QED
  BY <1>1, ReturnBase DEF BaseInv, TypeOK, Backend

(* Between calls that change nothing.                                      *)
LEMMA QuietMoveBase ==
  ASSUME BaseInv, NEW h \in Handlers, NEW p \in PCs, Move(h, p),
         UNCHANGED <<profile, Backend, mu, co>>, faults' \in 0 .. MaxFaults,
         HandlerOK(h, p, loc[h], sub, mu), pc[h] \notin HoldingPCs
  PROVE  BaseInv'
  BY MoveBase DEF BaseInv, TypeOK, Backend

-----------------------------------------------------------------------------
(* BaseInv under the steps of CreateVolume.                                *)

LEMMA AdoptionBase ==
  ASSUME BaseInv, NEW h \in Handlers, NEW n \in Names, sub[n] # None, Adoption(h, n),
         UNCHANGED <<profile, Backend, mu, co>>, faults' \in 0 .. MaxFaults,
         pc[h] \in {"findName", "findPVC"}
  PROVE  BaseInv'
<1>1. HandlerOK(h, pc[h], loc[h], sub, mu)
  BY DEF BaseInv, HandlersOK
<1>2. pc[h] \notin HoldingPCs /\ ~loc[h].created
  BY <1>1 DEF HandlerOK, HoldingPCs
<1>3. CASE Move(h, "select")
  <2>1. HandlerOK(h, "select", loc[h], sub, mu) /\ "select" \in PCs
    BY <1>1, <1>2 DEF HandlerOK, NamedPCs, IdentityPCs, SeenPCs, PCs
  <2>. QED
    BY <1>2, <1>3, <2>1, QuietMoveBase
<1>4. CASE Return(h)
  BY <1>2, <1>4, QuietReturnBase
<1>5. CASE Select(h, n, "adoptList")
  BY <1>2, <1>5, SelectBase
<1>. QED
  BY <1>3, <1>4, <1>5 DEF Adoption

LEMMA SearchBase ==
  ASSUME BaseInv, NEW h \in Handlers, UNCHANGED profile,
         checkAndAdoptVolume(h) \/ findSubvolumeByPVCIdentity(h)
  PROVE  BaseInv'
<1>1. HandlerOK(h, pc[h], loc[h], sub, mu) /\ TypeOK /\ pc[h] \in {"findName", "findPVC"}
  BY DEF BaseInv, HandlersOK, checkAndAdoptVolume, findSubvolumeByPVCIdentity
<1>2. pc[h] \notin HoldingPCs /\ ~loc[h].created
  BY <1>1 DEF HandlerOK, HoldingPCs
<1>3. CASE Fail(h)
  BY <1>2, <1>3, FailBase
<1>4. CASE ~Fail(h)
  <2>1. /\ UNCHANGED <<Backend, mu, co>>
        /\ \/ Ok(h) \/ Err(h) \/ UNCHANGED faults
        /\ \/ Move(h, "findPVC") \/ Move(h, "select") \/ Return(h)
           \/ \E n \in Names : sub[n] # None /\ Adoption(h, n)
    BY <1>4 DEF checkAndAdoptVolume, findSubvolumeByPVCIdentity, PVCMatches
  <2>2. faults' \in 0 .. MaxFaults
    BY <1>1, <2>1, FaultsTyped
  <2>3. ASSUME NEW p \in {"findPVC", "select"}, Move(h, p) PROVE BaseInv'
    <3>1. HandlerOK(h, p, loc[h], sub, mu) /\ p \in PCs
      BY <1>1, <1>2 DEF HandlerOK, NamedPCs, IdentityPCs, SeenPCs, PCs
    <3>. QED
      BY <1>2, <2>1, <2>2, <2>3, <3>1, QuietMoveBase
  <2>4. CASE Return(h)
    BY <1>2, <2>1, <2>2, <2>4, QuietReturnBase
  <2>5. ASSUME NEW n \in Names, sub[n] # None, Adoption(h, n) PROVE BaseInv'
    BY <1>1, <2>1, <2>2, <2>5, AdoptionBase
  <2>. QED
    BY <2>1, <2>3, <2>4, <2>5
<1>. QED
  BY <1>3, <1>4

LEMMA ExistingBase ==
  ASSUME BaseInv, NEW h \in Handlers, UNCHANGED profile, NEW proto \in Protocols,
         AdoptFindsEndpoint(h, proto) \/ HandleExistingShare(h, proto) \/ HandleExistingBlock(h, proto)
  PROVE  BaseInv'
<1>1. HandlerOK(h, pc[h], loc[h], sub, mu) /\ TypeOK /\ pc[h] \in {"adoptList", "list"}
  BY DEF BaseInv, HandlersOK, AdoptFindsEndpoint, HandleExistingShare, HandleExistingBlock
<1>2. pc[h] \notin HoldingPCs /\ ~loc[h].created
  BY <1>1 DEF HandlerOK, HoldingPCs
<1>3. CASE Fail(h)
  BY <1>2, <1>3, FailBase
<1>4. CASE ~Fail(h)
  <2>1. /\ UNCHANGED <<Backend, mu, co>>
        /\ Ok(h) \/ UNCHANGED faults
        /\ \/ Return(h) \/ Move(h, "getOrCreate")
           \/ Goto(h, "persist") /\ \E b \in BOOLEAN : loc' = [loc EXCEPT ![h].exposed = b]
    BY <1>4, Zenon DEF AdoptFindsEndpoint, HandleExistingShare, HandleExistingBlock
  <2>2. faults' \in 0 .. MaxFaults
    BY <1>1, <2>1, FaultsTyped
  <2>3. CASE Return(h)
    BY <1>2, <2>1, <2>2, <2>3, QuietReturnBase
  <2>4. CASE Move(h, "getOrCreate")
    <3>1. HandlerOK(h, "getOrCreate", loc[h], sub, mu) /\ "getOrCreate" \in PCs
      BY <1>1, <1>2 DEF HandlerOK, NamedPCs, IdentityPCs, SeenPCs, PCs
    <3>. QED
      BY <1>2, <2>1, <2>2, <2>4, <3>1, QuietMoveBase
  <2>5. ASSUME NEW b \in BOOLEAN, Goto(h, "persist"), loc' = [loc EXCEPT ![h].exposed = b]
        PROVE  BaseInv'
    BY <1>1, <2>1, <2>2, <2>5, NoteBase
  <2>. QED
    BY <2>1, <2>3, <2>4, <2>5
<1>. QED
  BY <1>3, <1>4

LEMMA SelectionBase ==
  ASSUME BaseInv, NEW h \in Handlers, UNCHANGED profile,
         selectExistingCreateSubvolume(h) \/ getOrCreateSubvolume(h)
  PROVE  BaseInv'
<1>1. /\ HandlerOK(h, pc[h], loc[h], sub, mu) /\ TypeOK
      /\ pc[h] \in {"select", "selectLegacy", "getOrCreate"}
  BY DEF BaseInv, HandlersOK, selectExistingCreateSubvolume, getOrCreateSubvolume
<1>2. pc[h] \notin HoldingPCs /\ ~loc[h].created /\ loc[h].req \in Requests
  BY <1>1 DEF HandlerOK, HoldingPCs
<1>3. P(h).backend \in Names /\ P(h).legacy \in Names /\ AfterStorage(h) \in {"validate", "persist"}
  BY <1>1, <1>2 DEF P, TypeOK, ProfileType, AfterStorage
<1>4. pc[h] = "getOrCreate" => loc[h].name \in Names
  BY <1>1 DEF HandlerOK, NamedPCs, PCs
<1>5. CASE Fail(h)
  BY <1>2, <1>5, FailBase
<1>6. CASE ~Fail(h)
  <2>1. /\ UNCHANGED <<Backend, mu, co>>
        /\ Ok(h)
        /\ \/ pc[h] = "select" /\ Move(h, "selectLegacy")
           \/ pc[h] = "getOrCreate" /\ Move(h, "create")
           \/ NewVolume(h)
           \/ \E n \in Names, p \in {"list", "validate", "persist"} : sub[n] # None /\ Take(h, n, p)
    BY <1>3, <1>4, <1>6, Zenon DEF selectExistingCreateSubvolume, getOrCreateSubvolume, Subvol
  <2>2. faults' \in 0 .. MaxFaults
    BY <1>1, <2>1, FaultsTyped
  <2>3. CASE pc[h] = "select" /\ Move(h, "selectLegacy")
    <3>1. HandlerOK(h, "selectLegacy", loc[h], sub, mu) /\ "selectLegacy" \in PCs
      BY <1>1, <1>2 DEF HandlerOK, NamedPCs, IdentityPCs, SeenPCs, PCs
    <3>. QED
      BY <1>2, <2>1, <2>2, <2>3, <3>1, QuietMoveBase
  <2>4. CASE pc[h] = "getOrCreate" /\ Move(h, "create")
    <3>1. HandlerOK(h, "create", loc[h], sub, mu) /\ "create" \in PCs
      BY <1>1, <1>2, <2>4 DEF HandlerOK, NamedPCs, IdentityPCs, SeenPCs, PCs
    <3>. QED
      BY <1>2, <2>1, <2>2, <2>4, <3>1, QuietMoveBase
  <2>5. CASE NewVolume(h)
    BY <1>1, <1>2, <2>1, <2>2, <2>5, NewVolumeBase
  <2>6. ASSUME NEW n \in Names, NEW p \in {"list", "validate", "persist"},
               sub[n] # None, Take(h, n, p)
        PROVE  BaseInv'
    BY <1>1, <1>2, <2>1, <2>2, <2>6, TakeBase
  <2>. QED
    BY <2>1, <2>3, <2>4, <2>5, <2>6
<1>. QED
  BY <1>5, <1>6

(* A step that writes x as the subvolume n.                                *)
LEMMA WriteBase ==
  ASSUME BaseInv, NEW h \in Handlers, NEW p \in PCs, NEW l \in LocalType,
         NEW n \in Names, NEW x \in SubType \union {None},
         pc' = [pc EXCEPT ![h] = p], loc' = [loc EXCEPT ![h] = l], sub' = [sub EXCEPT ![n] = x],
         UNCHANGED <<profile, ep, co>>, faults' \in 0 .. MaxFaults,
         mu' \in Handlers \union {None}, mu' = mu \/ mu \in {None, h},
         x = None \/ mu = None \/ ~hasCompleteV2Identity(n, x),
         excused \ {n} \subseteq excused', excused' \subseteq Names,
         HandlerOK(h, p, l, sub', mu'),
         x # None /\ ~x.managed =>
            n \in excused' \/ (l.created /\ l.name = n /\ p \in HoldingPCs),
         loc[h].created /\ pc[h] \in HoldingPCs =>
            loc[h].name = n \/ (l.created /\ l.name = loc[h].name /\ p \in HoldingPCs)
  PROVE  BaseInv'
<1>0. TypeOK /\ HandlesNamed /\ OrphansHeld
  BY DEF BaseInv
<1>1. TypeOK'
  BY <1>0 DEF TypeOK
<1>2. /\ pc'[h] = p /\ loc'[h] = l
      /\ \A g \in Handlers \ {h} : pc'[g] = pc[g] /\ loc'[g] = loc[g]
      /\ sub'[n] = x /\ \A m \in Names \ {n} : sub'[m] = sub[m]
  BY <1>0 DEF TypeOK
<1>3. OrphansHeld'
  <2>. SUFFICES ASSUME NEW m \in Names, sub'[m] # None, ~sub'[m].managed, m \notin excused'
                PROVE  Held(m)'
    BY DEF OrphansHeld
  <2>1. CASE m = n
    BY <1>2, <2>1 DEF Held
  <2>2. CASE m # n
    <3>1. PICK g \in Handlers : loc[g].created /\ loc[g].name = m /\ pc[g] \in HoldingPCs
      BY <1>0, <1>2, <2>2 DEF OrphansHeld, Held
    <3>2. CASE g = h
      BY <1>2, <2>2, <3>1, <3>2 DEF Held
    <3>3. CASE g # h
      BY <1>2, <3>1, <3>3 DEF Held
    <3>. QED
      BY <3>2, <3>3
  <2>. QED
    BY <2>1, <2>2
<1>4. HandlesNamed'
  BY <1>0 DEF HandlesNamed
<1>5. \A m \in Names : \/ sub'[m] \in {sub[m], None} \/ mu = None
                       \/ ~hasCompleteV2Identity(m, sub'[m])
  BY <1>2
<1>. QED
  BY <1>1, <1>2, <1>3, <1>4, <1>5, BaseStep

LEMMA IdleOK ==
  ASSUME NEW h, NEW s, NEW m
  PROVE  HandlerOK(h, "idle", NoLocals, s, m)
  BY DEF HandlerOK, NoLocals, NamedPCs, IdentityPCs, SeenPCs, PCs

LEMMA CreateSubvolumeBase ==
  ASSUME BaseInv, NEW h \in Handlers, UNCHANGED profile, NEW proto \in Protocols,
         CreateSubvolume(h, proto)
  PROVE  BaseInv'
<1>. DEFINE n == loc[h].name
            new == BlankSubvolume(loc[h].cap)
<1>1. /\ HandlerOK(h, pc[h], loc[h], sub, mu) /\ TypeOK /\ pc[h] = "create"
      /\ loc[h] \in LocalType
  BY DEF BaseInv, HandlersOK, CreateSubvolume, TypeOK
<1>2. pc[h] \notin HoldingPCs /\ ~loc[h].created /\ loc[h].req \in Requests /\ n \in Names
  BY <1>1 DEF HandlerOK, HoldingPCs, NamedPCs, PCs
<1>3. AfterStorage(h) \in {"validate", "persist"}
  BY DEF AfterStorage
<1>4. new \in SubType /\ ~new.managed /\ new # None
  BY <1>1, BlankTyped, NoneApart DEF LocalType
<1>. HIDE DEF new
<1>5. CASE Fail(h)
  BY <1>2, <1>5, FailBase
<1>6. CASE /\ Ok(h) /\ Subvol(h) # None
           /\ Take(h, n, AfterStorage(h)) /\ UNCHANGED <<Backend, mu, co>>
  <2>1. faults' \in 0 .. MaxFaults
    BY <1>1, <1>6, FaultsTyped
  <2>. QED
    BY <1>1, <1>2, <1>3, <1>6, <2>1, TakeBase DEF Subvol
<1>7. CASE /\ Lost /\ sub' = [sub EXCEPT ![n] = new] /\ excused' = excused \union {n}
           /\ Return(h) /\ UNCHANGED <<ep, mu, co>>
  <2>1. faults' \in 0 .. MaxFaults
    BY <1>1, <1>7, FaultsTyped
  <2>2. pc' = [pc EXCEPT ![h] = "idle"] /\ loc' = [loc EXCEPT ![h] = NoLocals]
    BY <1>7 DEF Return, Goto
  <2>3. excused' \subseteq Names /\ mu' \in Handlers \union {None} /\ "idle" \in PCs
    BY <1>1, <1>2, <1>7 DEF TypeOK, PCs
  <2>4. ~hasCompleteV2Identity(n, new)
    BY <1>4 DEF hasCompleteV2Identity, V2
  <2>. QED
    BY <1>2, <1>4, <1>7, <2>1, <2>2, <2>3, <2>4, IdleOK, NoLocalsTyped, WriteBase
<1>8. CASE /\ Ok(h) /\ Write(n, new)
           /\ \E u \in UUIDs :
                loc' = [loc EXCEPT ![h].seen = new, ![h].uuid = u, ![h].created = TRUE]
           /\ Goto(h, AfterStorage(h)) /\ UNCHANGED <<ep, mu, co>>
  <2>1. faults' \in 0 .. MaxFaults
    BY <1>1, <1>8, FaultsTyped
  <2>2. PICK u \in UUIDs :
          loc' = [loc EXCEPT ![h].seen = new, ![h].uuid = u, ![h].created = TRUE]
    BY <1>8
  <2>. DEFINE l == [loc[h] EXCEPT !.seen = new, !.uuid = u, !.created = TRUE]
              p == AfterStorage(h)
  <2>3. loc' = [loc EXCEPT ![h] = l] /\ l \in LocalType
    BY <1>1, <1>4, <2>2 DEF TypeOK, LocalType
  <2>4. /\ l.name = n /\ l.uuid = u /\ l.req = loc[h].req /\ l.seen = new /\ l.created
        /\ l.cloning = loc[h].cloning
    BY <1>1 DEF LocalType
  <2>5. p \in PCs /\ p \in {"validate", "persist"} /\ pc' = [pc EXCEPT ![h] = p]
    BY <1>3, <1>8 DEF PCs, Goto
  <2>. HIDE DEF l, p
  <2>6. sub' = [sub EXCEPT ![n] = new] /\ excused' = excused
    BY <1>4, <1>8 DEF Write
  <2>7. HandlerOK(h, p, l, sub', mu')
    BY <1>1, <1>2, <1>4, <2>4, <2>5 DEF HandlerOK, HoldingPCs
  <2>8. ~hasCompleteV2Identity(n, new)
    BY <1>4 DEF hasCompleteV2Identity, V2
  <2>9. p \in HoldingPCs /\ excused' \subseteq Names /\ mu' \in Handlers \union {None}
    BY <1>1, <1>8, <2>5, <2>6 DEF HoldingPCs, TypeOK
  <2>. QED
    BY <1>2, <1>4, <1>8, <2>1, <2>3, <2>4, <2>5, <2>6, <2>7, <2>8, <2>9, WriteBase
<1>. QED
  BY <1>5, <1>6, <1>7, <1>8, Zenon DEF CreateSubvolume, new

LEMMA ValidateBase ==
  ASSUME BaseInv, NEW h \in Handlers, UNCHANGED profile, validateInitializedBlockFilesystem(h)
  PROVE  BaseInv'
<1>1. /\ HandlerOK(h, pc[h], loc[h], sub, mu) /\ TypeOK /\ pc[h] = "validate"
      /\ UNCHANGED <<Backend, mu, co>>
  BY DEF BaseInv, HandlersOK, validateInitializedBlockFilesystem
<1>2. faults' \in 0 .. MaxFaults
  BY <1>1, FaultsTyped DEF validateInitializedBlockFilesystem
<1>3. CASE Return(h) /\ ~loc[h].created
  BY <1>1, <1>2, <1>3, QuietReturnBase
<1>4. ASSUME NEW p \in {"persist", "rollback"}, Move(h, p), p = "rollback" => loc[h].created
      PROVE  BaseInv'
  <2>1. HandlerOK(h, p, loc[h], sub, mu) /\ p \in PCs /\ p \in HoldingPCs
    BY <1>1, <1>4 DEF HandlerOK, NamedPCs, IdentityPCs, SeenPCs, HoldingPCs, PCs
  <2>. QED
    BY <1>1, <1>2, <1>4, <2>1, MoveBase DEF Backend, TypeOK
<1>. QED
  BY <1>3, <1>4 DEF validateInitializedBlockFilesystem

(* The four outcomes of the identity write.                                *)
LEMMA PersistCases ==
  ASSUME BaseInv, NEW h \in Handlers, persistVolumeIdentity(h)
  PROVE  LET n == loc[h].name
             x == Identified(h, sub[n])
             next == {"endpoint", "reply"}
         IN  /\ mu = None /\ pc[h] = "persist" /\ UNCHANGED co
             /\ Ok(h) \/ Err(h) \/ Lost \/ UNCHANGED faults
             /\ \/ /\ ~loc[h].created /\ OwnedBy(loc[h].req, n, loc[h].seen)
                   /\ \E p \in next : Move(h, p) /\ (p = "reply" => loc[h].exposed)
                   /\ UNCHANGED <<Backend, mu>>
                \/ /\ sub[n] # None /\ Write(n, x)
                   /\ \E p \in next : Move(h, p) /\ (p = "reply" => loc[h].exposed)
                   /\ UNCHANGED <<ep, mu>>
                \/ Move(h, "verify") /\ mu' = h /\ UNCHANGED Backend
                \/ sub[n] # None /\ Write(n, x) /\ Move(h, "verify") /\ mu' = h /\ UNCHANGED ep
<1>1. /\ HandlerOK(h, pc[h], loc[h], sub, mu) /\ TypeOK /\ pc[h] = "persist" /\ mu = None
      /\ loc[h] \in LocalType
  BY DEF BaseInv, HandlersOK, persistVolumeIdentity, TypeOK
<1>2. /\ loc[h].req \in Requests /\ loc[h].name \in Names /\ loc[h].uuid \in UUIDs
      /\ ~loc[h].cloning /\ loc[h].seen \in SubType
      /\ loc[h].created => ~loc[h].seen.managed
  BY <1>1 DEF HandlerOK, NamedPCs, IdentityPCs, SeenPCs, PCs, LocalType
<1>3. propertiesContain(h, loc[h].seen) =>
        loc[h].seen.managed /\ OwnedBy(loc[h].req, loc[h].name, loc[h].seen)
  BY <1>1, <1>2, ContainsOwned
<1>4. AfterPersist(h) =>
        \E p \in {"endpoint", "reply"} : Move(h, p) /\ (p = "reply" => loc[h].exposed)
  BY <1>2 DEF AfterPersist
<1>. QED
  BY <1>1, <1>2, <1>3, <1>4, Zenon DEF persistVolumeIdentity

LEMMA PersistBase ==
  ASSUME BaseInv, NEW h \in Handlers, UNCHANGED profile, persistVolumeIdentity(h)
  PROVE  BaseInv'
<1>. DEFINE n == loc[h].name
            x == Identified(h, sub[n])
<1>1. /\ HandlerOK(h, pc[h], loc[h], sub, mu) /\ TypeOK /\ pc[h] = "persist" /\ mu = None
      /\ loc[h] \in LocalType /\ UNCHANGED co
  BY DEF BaseInv, HandlersOK, persistVolumeIdentity, TypeOK
<1>2. /\ loc[h].req \in Requests /\ n \in Names /\ loc[h].uuid \in UUIDs /\ ~loc[h].cloning
  BY <1>1 DEF HandlerOK, NamedPCs, IdentityPCs, PCs
<1>3. faults' \in 0 .. MaxFaults
  BY <1>1, PersistCases, FaultsTyped
<1>4. ASSUME sub[n] # None
      PROVE  x \in SubType /\ x.managed
  BY <1>1, <1>2, <1>4, IdentifiedOwned DEF TypeOK
<1>5. ASSUME NEW p \in {"endpoint", "reply"}
      PROVE  \A s, m : HandlerOK(h, p, loc[h], s, m)
  BY <1>1, <1>2 DEF HandlerOK, NamedPCs, IdentityPCs, SeenPCs, HoldingPCs, PCs
<1>6. \A s : HandlerOK(h, "verify", loc[h], s, h)
  BY <1>1, <1>2 DEF HandlerOK, NamedPCs, IdentityPCs, SeenPCs, HoldingPCs, PCs
<1>7. {"endpoint", "reply", "verify"} \subseteq PCs /\ "verify" \in HoldingPCs
  BY DEF PCs, HoldingPCs
<1>8. ASSUME NEW p \in {"endpoint", "reply"}, Move(h, p), ~loc[h].created, UNCHANGED <<Backend, mu>>
      PROVE  BaseInv'
  BY <1>1, <1>3, <1>5, <1>7, <1>8, MoveBase DEF Backend, TypeOK
<1>9. CASE Move(h, "verify") /\ mu' = h /\ UNCHANGED Backend
  <2>1. pc' = [pc EXCEPT ![h] = "verify"] /\ loc' = [loc EXCEPT ![h] = loc[h]]
    BY <1>1, <1>9 DEF Move, Goto, TypeOK
  <2>2. HandlesNamed'
    BY <1>1 DEF BaseInv, HandlesNamed
  <2>. QED
    BY <1>1, <1>3, <1>6, <1>7, <1>9, <2>1, <2>2, QuietStep DEF Backend, TypeOK
<1>10. ASSUME NEW p \in {"endpoint", "reply", "verify"}, Move(h, p), sub[n] # None, Write(n, x),
              UNCHANGED ep, mu' \in {None, h}, p = "verify" => mu' = h
       PROVE  BaseInv'
  <2>1. pc' = [pc EXCEPT ![h] = p] /\ loc' = [loc EXCEPT ![h] = loc[h]] /\ p \in PCs
    BY <1>1, <1>7, <1>10 DEF Move, Goto, TypeOK
  <2>2. x \in SubType /\ x.managed
    BY <1>4, <1>10
  <2>. HIDE DEF x
  <2>3. sub' = [sub EXCEPT ![n] = x] /\ excused' = excused \ {n}
    BY <1>10, <2>2 DEF Write
  <2>4. HandlerOK(h, p, loc[h], sub', mu')
    BY <1>5, <1>6, <1>10
  <2>5. excused' \subseteq Names /\ mu' \in Handlers \union {None}
    BY <1>1, <1>10, <2>3 DEF TypeOK
  <2>. QED
    BY <1>1, <1>2, <1>3, <1>10, <2>1, <2>2, <2>3, <2>4, <2>5, WriteBase
<1>. QED
  BY <1>1, <1>8, <1>9, <1>10, PersistCases

LEMMA VerifyBase ==
  ASSUME BaseInv, NEW h \in Handlers, UNCHANGED profile, verifyIdentityWrite(h)
  PROVE  BaseInv'
<1>. DEFINE n == loc[h].name
<1>1. /\ HandlerOK(h, pc[h], loc[h], sub, mu) /\ TypeOK /\ pc[h] = "verify" /\ mu = h
      /\ loc[h] \in LocalType /\ UNCHANGED <<sub, ep, co>> /\ mu' = None
  BY DEF BaseInv, HandlersOK, verifyIdentityWrite, TypeOK
<1>2. /\ loc[h].req \in Requests /\ n \in Names /\ loc[h].uuid \in UUIDs /\ ~loc[h].cloning
  BY <1>1 DEF HandlerOK, NamedPCs, IdentityPCs, PCs
<1>3. faults' \in 0 .. MaxFaults
  BY <1>1, FaultsTyped DEF verifyIdentityWrite
<1>4. HandlesNamed' /\ "idle" \in PCs /\ "rollback" \in PCs /\ "rollback" \in HoldingPCs
  BY <1>1 DEF BaseInv, HandlesNamed, PCs, HoldingPCs
<1>5. sub[n] # None /\ propertiesContain(h, sub[n]) => sub[n].managed
  BY <1>1, <1>2, ContainsOwned DEF TypeOK
<1>6. ASSUME Return(h), excused \subseteq excused', excused' \subseteq Names,
             loc[h].created => sub[n] = None \/ sub[n].managed \/ n \in excused'
      PROVE  BaseInv'
  BY <1>1, <1>3, <1>4, <1>6, IdleOK, NoLocalsTyped, QuietStep DEF Return, Goto, TypeOK
<1>7. CASE Move(h, "rollback") /\ loc[h].created /\ UNCHANGED excused
  <2>1. pc' = [pc EXCEPT ![h] = "rollback"] /\ loc' = [loc EXCEPT ![h] = loc[h]]
    BY <1>1, <1>7 DEF Move, Goto, TypeOK
  <2>2. HandlerOK(h, "rollback", loc[h], sub, mu')
    BY <1>1, <1>7 DEF HandlerOK, NamedPCs, IdentityPCs, SeenPCs, HoldingPCs, PCs
  <2>. QED
    BY <1>1, <1>3, <1>4, <1>7, <2>1, <2>2, QuietStep DEF TypeOK
<1>8. excused \subseteq Names
  BY <1>1 DEF TypeOK
<1>. QED
  BY <1>2, <1>5, <1>6, <1>7, <1>8, Zenon DEF verifyIdentityWrite

LEMMA RollbackBase ==
  ASSUME BaseInv, NEW h \in Handlers, UNCHANGED profile, rollbackCreatedSubvolume(h)
  PROVE  BaseInv'
<1>. DEFINE n == loc[h].name
<1>1. /\ HandlerOK(h, pc[h], loc[h], sub, mu) /\ TypeOK /\ loc[h] \in LocalType
      /\ pc[h] \in {"rollback", "rollbackDelete"} /\ UNCHANGED <<ep, co>> /\ mu \in {None, h}
  BY DEF BaseInv, HandlersOK, rollbackCreatedSubvolume, TypeOK
<1>2. n \in Names /\ excused \subseteq Names /\ pc[h] \in HoldingPCs
  BY <1>1 DEF HandlerOK, NamedPCs, PCs, TypeOK, HoldingPCs
<1>3. faults' \in 0 .. MaxFaults
  BY <1>1, FaultsTyped DEF rollbackCreatedSubvolume
<1>4. /\ HandlesNamed' /\ "idle" \in PCs /\ "rollbackDelete" \in PCs
      /\ "rollbackDelete" \in HoldingPCs
  BY <1>1 DEF BaseInv, HandlesNamed, PCs, HoldingPCs
<1>5. ASSUME Return(h), UNCHANGED sub, mu' \in {mu, None}, excused \subseteq excused',
             excused' \subseteq Names, sub[n] = None \/ sub[n].managed \/ n \in excused'
      PROVE  BaseInv'
  <2>1. mu' \in Handlers \union {None}
    BY <1>1, <1>5
  <2>. QED
    BY <1>1, <1>3, <1>4, <1>5, <2>1, IdleOK, NoLocalsTyped, QuietStep DEF Return, Goto, TypeOK
<1>6. CASE /\ Move(h, "rollbackDelete") /\ mu' = h /\ UNCHANGED <<sub, excused>>
           /\ ~hasCompleteV2Identity(n, sub[n])
  <2>1. pc' = [pc EXCEPT ![h] = "rollbackDelete"] /\ loc' = [loc EXCEPT ![h] = loc[h]]
    BY <1>1, <1>6 DEF Move, Goto, TypeOK
  <2>2. HandlerOK(h, "rollbackDelete", loc[h], sub, mu')
    BY <1>1, <1>6 DEF HandlerOK, NamedPCs, IdentityPCs, SeenPCs, HoldingPCs, PCs
  <2>. QED
    BY <1>1, <1>2, <1>3, <1>4, <1>6, <2>1, <2>2, QuietStep DEF TypeOK
<1>7. CASE Write(n, None) /\ Return(h) /\ mu' = None
  <2>1. sub' = [sub EXCEPT ![n] = None] /\ excused' = excused \ {n}
    BY <1>7 DEF Write
  <2>. QED
    BY <1>1, <1>2, <1>3, <1>4, <1>7, <2>1, IdleOK, NoLocalsTyped, WriteBase DEF Return, Goto
<1>8. hasCompleteV2Identity(n, sub[n]) => sub[n].managed
  BY DEF hasCompleteV2Identity, V2
<1>. QED
  BY <1>2, <1>5, <1>6, <1>7, <1>8, Zenon DEF rollbackCreatedSubvolume

LEMMA EndpointBase ==
  ASSUME BaseInv, NEW h \in Handlers, UNCHANGED profile, NEW protos, CreateEndpoint(h, protos)
  PROVE  BaseInv'
<1>. DEFINE new == IF P(h).proto \in Share THEN loc[h].cap ELSE 0
<1>1. /\ HandlerOK(h, pc[h], loc[h], sub, mu) /\ TypeOK /\ pc[h] = "endpoint"
      /\ loc[h] \in LocalType /\ UNCHANGED <<sub, mu, co, excused>>
  BY DEF BaseInv, HandlersOK, CreateEndpoint, TypeOK
<1>2. pc[h] \notin HoldingPCs /\ loc[h].name \in Names /\ new \in Nat
  BY <1>1 DEF HandlerOK, HoldingPCs, NamedPCs, PCs, LocalType
<1>. HIDE DEF new
<1>3. faults' \in 0 .. MaxFaults
  BY <1>1, FaultsTyped DEF CreateEndpoint
<1>4. UNCHANGED ep \/ ep' = [ep EXCEPT ![loc[h].name] = new]
  BY DEF CreateEndpoint, new
<1>5. ep' \in [Names -> Nat \union {None}] /\ HandlesNamed'
  BY <1>1, <1>2, <1>4 DEF TypeOK, BaseInv, HandlesNamed
<1>6. CASE Return(h)
  BY <1>1, <1>2, <1>3, <1>5, <1>6, ReturnBase DEF TypeOK
<1>7. CASE Move(h, "reply")
  <2>1. HandlerOK(h, "reply", loc[h], sub, mu) /\ "reply" \in PCs
    BY <1>1, <1>2 DEF HandlerOK, NamedPCs, IdentityPCs, SeenPCs, HoldingPCs, PCs
  <2>. QED
    BY <1>1, <1>2, <1>3, <1>5, <1>7, <2>1, MoveBase
<1>. QED
  BY <1>6, <1>7 DEF CreateEndpoint

LEMMA ResponseBase ==
  ASSUME BaseInv, NEW h \in Handlers, UNCHANGED profile,
         CreateVolumeResponse(h) \/ DeleteVolumeResponse(h)
  PROVE  BaseInv'
<1>1. /\ HandlerOK(h, pc[h], loc[h], sub, mu) /\ TypeOK /\ pc[h] \in {"reply", "deleted"}
      /\ UNCHANGED <<Backend, mu>> /\ Return(h) /\ HandlesNamed
  BY DEF BaseInv, HandlersOK, CreateVolumeResponse, DeleteVolumeResponse
<1>2. pc[h] \notin HoldingPCs /\ loc[h].name \in Names /\ loc[h].req \in Requests
  BY <1>1 DEF HandlerOK, HoldingPCs, NamedPCs, PCs
<1>3. faults' \in 0 .. MaxFaults
  BY <1>1, FaultsTyped DEF CreateVolumeResponse, DeleteVolumeResponse
<1>4. \/ UNCHANGED co
      \/ co' = [co EXCEPT ![loc[h].req] = [phase |-> "bound", handle |-> loc[h].name]]
      \/ pc[h] = "deleted" /\ co' = [co EXCEPT ![loc[h].req].phase = "gone"]
  BY DEF CreateVolumeResponse, DeleteVolumeResponse
<1>5. CASE ~(pc[h] = "deleted" /\ co' = [co EXCEPT ![loc[h].req].phase = "gone"])
  <2>1. co' \in [Requests -> [phase : {"wanted", "bound", "deleting", "gone"},
                              handle : Names \union {None}]]
    BY <1>1, <1>2, <1>4, <1>5 DEF TypeOK
  <2>2. HandlesNamed'
    BY <1>1, <1>2, <1>4, <1>5 DEF TypeOK, HandlesNamed
  <2>. QED
    BY <1>1, <1>2, <1>3, <2>1, <2>2, ReturnBase DEF Backend, TypeOK
<1>6. CASE pc[h] = "deleted" /\ co' = [co EXCEPT ![loc[h].req].phase = "gone"]
  <2>1. co' \in [Requests -> [phase : {"wanted", "bound", "deleting", "gone"},
                              handle : Names \union {None}]]
    BY <1>1, <1>2, <1>6 DEF TypeOK
  <2>2. HandlesNamed'
    BY <1>1, <1>2, <1>6 DEF TypeOK, HandlesNamed
  <2>. QED
    BY <1>1, <1>2, <1>3, <2>1, <2>2, ReturnBase DEF Backend, TypeOK
<1>. QED
  BY <1>5, <1>6

-----------------------------------------------------------------------------
(* BaseInv under the steps of DeleteVolume.                                *)

LEMMA DeletionBase ==
  ASSUME BaseInv, NEW h \in Handlers, UNCHANGED profile,
         \/ lookupDeletionVolume(h) \/ VerifyOwnership(h) \/ FindEndpoint(h) \/ DeleteEndpoint(h)
         \/ DeleteSubvolume(h)
  PROVE  BaseInv'
<1>1. /\ HandlerOK(h, pc[h], loc[h], sub, mu) /\ TypeOK /\ loc[h] \in LocalType
      /\ pc[h] \in DeletePCs \ {"deleted"} /\ UNCHANGED <<mu, co>>
  BY DEF BaseInv, HandlersOK, TypeOK, lookupDeletionVolume, VerifyOwnership, FindEndpoint,
         DeleteEndpoint, DeleteSubvolume, DeletePCs, Fail
<1>2. /\ pc[h] \notin HoldingPCs /\ ~loc[h].created /\ loc[h].name \in Names
      /\ loc[h].req \in Requests /\ DeletePCs \subseteq PCs
  BY <1>1 DEF HandlerOK, HoldingPCs, NamedPCs, PCs, DeletePCs
<1>3. \A p \in DeletePCs : \A m, s : HandlerOK(h, p, loc[h], s, m)
  BY <1>1, <1>2 DEF HandlerOK, NamedPCs, IdentityPCs, SeenPCs, HoldingPCs, PCs, DeletePCs
<1>4. CASE Fail(h)
  BY <1>2, <1>4, FailBase
<1>5. CASE ~Fail(h)
  <2>1. faults' \in 0 .. MaxFaults
    BY <1>1, <1>5, FaultsTyped DEF lookupDeletionVolume, VerifyOwnership, FindEndpoint,
         DeleteEndpoint, DeleteSubvolume
  <2>2. ASSUME NEW p \in DeletePCs, Move(h, p), UNCHANGED <<sub, excused>>,
               ep' \in [Names -> Nat \union {None}]
        PROVE  BaseInv'
    BY <1>1, <1>2, <1>3, <2>1, <2>2, MoveBase
  <2>3. ASSUME Return(h), UNCHANGED <<sub, excused>>, ep' \in [Names -> Nat \union {None}]
        PROVE  BaseInv'
    <3>1. HandlesNamed'
      BY <1>1 DEF BaseInv, HandlesNamed
    <3>. QED
      BY <1>1, <1>2, <2>1, <2>3, <3>1, ReturnBase DEF TypeOK
  <2>4. ep \in [Names -> Nat \union {None}]
    BY <1>1 DEF TypeOK
  <2>5. CASE lookupDeletionVolume(h)
    <3>1. UNCHANGED <<sub, ep, excused>>
      BY <1>5, <2>5 DEF lookupDeletionVolume, Backend
    <3>2. CASE Goto(h, "own") /\ loc' = [loc EXCEPT ![h].seen = Subvol(h)]
      <4>. DEFINE l == [loc[h] EXCEPT !.seen = Subvol(h)]
      <4>1. Subvol(h) \in SubType \union {None}
        BY <1>1, <1>2 DEF TypeOK, Subvol
      <4>2. loc' = [loc EXCEPT ![h] = l] /\ l \in LocalType
        BY <1>1, <3>2, <4>1 DEF TypeOK, LocalType
      <4>3. /\ l.name = loc[h].name /\ l.req = loc[h].req
            /\ l.created = loc[h].created /\ l.cloning = loc[h].cloning
        BY <1>1 DEF LocalType
      <4>. HIDE DEF l
      <4>4. HandlerOK(h, "own", l, sub, mu) /\ "own" \in PCs
        BY <1>1, <1>2, <4>3 DEF HandlerOK, NamedPCs, IdentityPCs, SeenPCs, PCs
      <4>5. HandlesNamed'
        BY <1>1 DEF BaseInv, HandlesNamed
      <4>. QED
        BY <1>1, <1>2, <2>1, <3>1, <3>2, <4>2, <4>4, <4>5, QuietStep DEF TypeOK, Goto
    <3>3. \/ Move(h, "deleted") \/ Return(h)
          \/ Goto(h, "own") /\ loc' = [loc EXCEPT ![h].seen = Subvol(h)]
      BY <1>5, <2>5 DEF lookupDeletionVolume
    <3>. QED
      BY <2>2, <2>3, <2>4, <3>1, <3>2, <3>3 DEF DeletePCs
  <2>6. CASE VerifyOwnership(h) \/ FindEndpoint(h)
    <3>1. UNCHANGED <<sub, ep, excused>>
      BY <1>5, <2>6 DEF VerifyOwnership, FindEndpoint, Backend
    <3>2. Return(h) \/ \E p \in DeletePCs : Move(h, p)
      BY <1>5, <2>6 DEF VerifyOwnership, FindEndpoint, DeletePCs
    <3>. QED
      BY <2>2, <2>3, <2>4, <3>1, <3>2
  <2>7. CASE DeleteEndpoint(h)
    <3>1. UNCHANGED <<sub, excused>> /\ ep' = [ep EXCEPT ![loc[h].name] = None]
      BY <1>5, <2>7 DEF DeleteEndpoint
    <3>2. ep' \in [Names -> Nat \union {None}]
      BY <1>2, <2>4, <3>1
    <3>3. Return(h) \/ Move(h, "deleteSub")
      BY <1>5, <2>7 DEF DeleteEndpoint
    <3>. QED
      BY <2>2, <2>3, <3>1, <3>2, <3>3 DEF DeletePCs
  <2>8. CASE DeleteSubvolume(h)
    <3>1. \/ Write(loc[h].name, None) /\ (Move(h, "deleted") \/ Return(h)) /\ UNCHANGED ep
          \/ Return(h) /\ UNCHANGED Backend
          \/ UNCHANGED <<pc, loc, Backend>>
      BY <1>5, <2>8, Zenon DEF DeleteSubvolume
    <3>2. CASE Return(h) /\ UNCHANGED Backend
      BY <2>3, <2>4, <3>2 DEF Backend
    <3>3. CASE UNCHANGED <<pc, loc, Backend>>
      <4>1. Move(h, pc[h])
        BY <1>1, <3>3 DEF Move, Goto, TypeOK
      <4>. QED
        BY <1>1, <2>2, <2>4, <3>3, <4>1 DEF Backend
    <3>4. CASE Write(loc[h].name, None) /\ (Move(h, "deleted") \/ Return(h)) /\ UNCHANGED ep
      <4>1. sub' = [sub EXCEPT ![loc[h].name] = None] /\ excused' = excused \ {loc[h].name}
        BY <3>4 DEF Write
      <4>2. PICK p \in {"deleted", "idle"}, l \in {loc[h], NoLocals} :
              /\ pc' = [pc EXCEPT ![h] = p] /\ loc' = [loc EXCEPT ![h] = l]
              /\ HandlerOK(h, p, l, sub', mu')
        <5>1. CASE Move(h, "deleted")
          <6>1. loc' = [loc EXCEPT ![h] = loc[h]] /\ HandlerOK(h, "deleted", loc[h], sub', mu')
            BY <1>1, <1>3, <5>1 DEF Move, Goto, TypeOK, DeletePCs
          <6>. QED
            BY <5>1, <6>1 DEF Move, Goto
        <5>2. CASE Return(h)
          BY <5>2, IdleOK DEF Return, Goto
        <5>. QED
          BY <3>4, <5>1, <5>2
      <4>3. l \in LocalType /\ p \in PCs /\ excused' \subseteq Names
        BY <1>1, <4>1, NoLocalsTyped DEF PCs, TypeOK
      <4>. QED
        BY <1>1, <1>2, <2>1, <3>4, <4>1, <4>2, <4>3, WriteBase DEF TypeOK
    <3>. QED
      BY <3>1, <3>2, <3>3, <3>4
  <2>. QED
    BY <2>5, <2>6, <2>7, <2>8
<1>. QED
  BY <1>4, <1>5

-----------------------------------------------------------------------------
(* BaseInv under the calls, the cancellations and the crashes.             *)

LEMMA RequestBase ==
  ASSUME BaseInv, NEW h \in Handlers, NEW r \in Requests, CreateVolume(h, r) \/ DeleteVolume(h, r)
  PROVE  BaseInv'
<1>1. /\ HandlerOK(h, pc[h], loc[h], sub, mu) /\ TypeOK /\ pc[h] = "idle" /\ HandlesNamed
      /\ UNCHANGED <<profile, sub, ep, excused, mu, faults>>
  BY DEF BaseInv, HandlersOK, CreateVolume, DeleteVolume, Backend
<1>2. pc[h] \notin HoldingPCs
  BY <1>1 DEF HoldingPCs
<1>3. CASE CreateVolume(h, r)
  <2>1. HandlerOK(h, "findName", Locals(r), sub, mu) /\ "findName" \in PCs
    BY <1>1, LocalsTyped DEF HandlerOK, NamedPCs, IdentityPCs, SeenPCs, PCs
  <2>2. HandlesNamed'
    BY <1>1, <1>3 DEF HandlesNamed, CreateVolume
  <2>3. /\ pc' = [pc EXCEPT ![h] = "findName"] /\ loc' = [loc EXCEPT ![h] = Locals(r)]
        /\ UNCHANGED co
    BY <1>3 DEF CreateVolume, Goto
  <2>4. Locals(r) \in LocalType
    BY <1>1, LocalsTyped
  <2>. QED
    BY <1>1, <1>2, <2>1, <2>2, <2>3, <2>4, QuietStep, ZenonT(30) DEF TypeOK
<1>4. CASE DeleteVolume(h, r)
  <2>. DEFINE l == [Locals(r) EXCEPT !.name = co[r].handle]
  <2>1. co[r].handle \in Names
    BY <1>1, <1>4 DEF HandlesNamed, DeleteVolume
  <2>2. l \in LocalType /\ l.name = co[r].handle /\ l.req = r /\ ~l.created /\ ~l.cloning
    BY <1>1, <2>1, LocalsTyped DEF LocalType
  <2>3. pc' = [pc EXCEPT ![h] = "lookup"] /\ loc' = [loc EXCEPT ![h] = l]
    BY <1>4 DEF DeleteVolume, Goto
  <2>. HIDE DEF l
  <2>4. HandlerOK(h, "lookup", l, sub, mu) /\ "lookup" \in PCs
    BY <2>1, <2>2 DEF HandlerOK, NamedPCs, IdentityPCs, SeenPCs, PCs
  <2>5. co' = [co EXCEPT ![r] = [@ EXCEPT !.phase = "deleting"]]
    BY <1>1, <1>4 DEF DeleteVolume, TypeOK
  <2>6. co' \in [Requests -> [phase : {"wanted", "bound", "deleting", "gone"},
                              handle : Names \union {None}]]
    BY <1>1, <2>5 DEF TypeOK
  <2>7. HandlesNamed'
    BY <1>1, <2>1, <2>5 DEF TypeOK, HandlesNamed
  <2>. QED
    BY <1>1, <1>2, <2>2, <2>3, <2>4, <2>6, <2>7, QuietStep DEF TypeOK
<1>. QED
  BY <1>3, <1>4

LEMMA CancelBase ==
  ASSUME BaseInv, NEW h \in Handlers, Cancel(h)
  PROVE  BaseInv'
<1>1. /\ HandlerOK(h, pc[h], loc[h], sub, mu) /\ TypeOK /\ HandlesNamed /\ loc[h] \in LocalType
      /\ UNCHANGED <<profile, sub, ep, excused, mu, pc, co>>
  BY DEF BaseInv, HandlersOK, Cancel, Backend, TypeOK
<1>2. faults' \in 0 .. MaxFaults
  BY <1>1, FaultsTyped DEF Cancel
<1>. DEFINE l == [loc[h] EXCEPT !.live = FALSE]
<1>3. /\ l \in LocalType /\ l.name = loc[h].name /\ l.req = loc[h].req /\ l.seen = loc[h].seen
      /\ l.uuid = loc[h].uuid /\ l.created = loc[h].created /\ l.cloning = loc[h].cloning
  BY <1>1 DEF LocalType
<1>4. loc' = [loc EXCEPT ![h] = l] /\ pc' = [pc EXCEPT ![h] = pc[h]] /\ pc[h] \in PCs
  BY <1>1 DEF Cancel, TypeOK
<1>. HIDE DEF l
<1>5. HandlerOK(h, pc[h], l, sub, mu)
  <2>1. pc[h] # "idle"
    BY DEF Cancel
  <2>. QED
    BY <1>1, <1>3, <2>1 DEF HandlerOK
<1>6. HandlesNamed'
  BY <1>1 DEF HandlesNamed
<1>. QED
  BY <1>1, <1>2, <1>3, <1>4, <1>5, <1>6, QuietStep DEF TypeOK

LEMMA CrashBase ==
  ASSUME BaseInv, Crash
  PROVE  BaseInv'
<1>1. TypeOK /\ HandlesNamed /\ HandlersOK /\ OrphansHeld
  BY DEF BaseInv
<1>2. ASSUME NEW h \in Handlers, loc[h].created PROVE loc[h].name \in Names
  BY <1>1, <1>2 DEF HandlersOK, HandlerOK, HoldingPCs, NamedPCs, PCs
<1>3. excused' \subseteq Names /\ \A n \in Names : n \in excused \/ Held(n) => n \in excused'
  BY <1>1, <1>2 DEF Crash, TypeOK, Held
<1>4. faults' \in 0 .. MaxFaults
  BY <1>1, MaxFaultsAssumption DEF Crash, Fault, TypeOK
<1>5. TypeOK'
  BY <1>1, <1>3, <1>4, NoLocalsTyped DEF Crash, TypeOK, PCs
<1>6. HandlersOK'
  BY IdleOK DEF Crash, HandlersOK
<1>7. HandlesNamed' /\ OrphansHeld'
  BY <1>1, <1>3 DEF Crash, HandlesNamed, OrphansHeld
<1>. QED
  BY <1>5, <1>6, <1>7 DEF BaseInv

LEMMA BaseInvInit == Init => BaseInv
<1>. SUFFICES ASSUME Init PROVE BaseInv
  OBVIOUS
<1>1. TypeOK
  BY WorldsAssumption, MaxFaultsAssumption, NoLocalsTyped DEF Init, TypeOK, PCs
<1>2. HandlersOK
  BY IdleOK DEF Init, HandlersOK
<1>3. HandlesNamed /\ OrphansHeld
  BY DEF Init, HandlesNamed, OrphansHeld
<1>. QED
  BY <1>1, <1>2, <1>3 DEF BaseInv

LEMMA BaseInvStep == BaseInv /\ [Next]_vars => BaseInv'
<1>. SUFFICES ASSUME BaseInv, [Next]_vars PROVE BaseInv'
  OBVIOUS
<1>1. ASSUME NEW h \in Handlers, CreateStep(h) PROVE BaseInv'
  <2>1. UNCHANGED profile /\ Protocols = {"nfs", "smb", "iscsi", "nvmeof"}
    BY <1>1 DEF CreateStep, Protocols
  <2>. QED
    BY <1>1, <2>1, SearchBase, ExistingBase, SelectionBase, CreateSubvolumeBase, ValidateBase,
       PersistBase, VerifyBase, RollbackBase, EndpointBase, ResponseBase
    DEF CreateStep, adoptNFSVolume, adoptSMBVolume, adoptISCSIVolume, adoptNVMeOFVolume,
        handleExistingNFSSubvolume, handleExistingSMBSubvolume, handleExistingISCSISubvolume,
        handleExistingNVMeOFSubvolume, createNFSVolume, createSMBVolume, createISCSIVolume,
        createNVMeOFVolume, createNFSShareForSubvolume, createSMBShareForSubvolume,
        CreateBlockEndpoint
<1>2. ASSUME NEW h \in Handlers, DeleteStep(h) PROVE BaseInv'
  BY <1>2, DeletionBase, ResponseBase
  DEF DeleteStep, deleteNFSVolume, deleteSMBVolume, deleteISCSIVolume, deleteNVMeOFVolume, Deletion
<1>3. CASE UNCHANGED vars
  BY <1>3 DEF vars, BaseInv, TypeOK, HandlersOK, HandlesNamed, OrphansHeld, Held
<1>. QED
  BY <1>1, <1>2, <1>3, RequestBase, CancelBase, CrashBase DEF Next

(* Type correctness of the provisioning model.                             *)
THEOREM ProvisioningTypeCorrect == Spec => []TypeOK
<1>1. BaseInv => TypeOK
  BY DEF BaseInv
<1>. QED
  BY <1>1, BaseInvInit, BaseInvStep, PTL DEF Spec

(* Whatever the requests and the backend, and whatever fails or crashes, a *)
(* subvolume without ownership metadata was there before, belongs to the   *)
(* handler that created it, or was left by a failure that the recovery     *)
(* documentation names: no error path of CreateVolume forgets one.         *)
THEOREM ProvisioningNoSilentOrphan == Spec => []NoSilentOrphan
<1>1. BaseInv => NoSilentOrphan
  BY DEF BaseInv, OrphansHeld, Held, NoSilentOrphan
<1>. QED
  BY <1>1, BaseInvInit, BaseInvStep, PTL DEF Spec

-----------------------------------------------------------------------------
(* OwnInv: what a step leaves of what the requests own.                    *)

SubKept(w) ==
    /\ \A n \in Names : sub'[n] # None => Traceable(w, n, sub'[n])
    /\ \A r \in Requests, n \in Names : Claim(w, r, n) =>
          /\ Kept(r) /\ OwnedBy(r, n, sub[n]) => OwnedBy(r, n, sub'[n])
          /\ Kept(r) \/ sub'[n] \in {sub[n], None} \/ sub'[n].strategy # "retain"
    /\ \A n \in Names :
          \/ sub'[n] \in {sub[n], None} \/ hasCompleteV2Identity(n, sub'[n])
          \/ sub'[n].strategy # "retain"

EpKept(w) ==
    \A r \in Requests, n \in Names :
        Claim(w, r, n) /\ Kept(r) /\ ep[n] # None => ep'[n] # None

CoKept ==
    \A r \in Requests : co[r].phase \in {"deleting", "gone"} =>
        co'[r].phase \in {"deleting", "gone"} /\ co'[r].handle = co[r].handle

(* Nothing that was given up comes back.                                   *)
LEMMA KeptBefore ==
  ASSUME TypeOK, CoKept, UNCHANGED profile, NEW r \in Requests, Kept(r)'
  PROVE  Kept(r)
  BY DEF Kept, CoKept, TypeOK

LEMMA ServesFrame ==
  ASSUME TypeOK, NEW w, UNCHANGED profile, SubKept(w), EpKept(w), CoKept, NEW p, NEW l,
         l.req \in Requests, p \in NamedPCs => l.name \in Names, ServesOK(w, p, l),
         p \notin DeletePCs /\ l.live => co'[l.req] = co[l.req]
  PROVE  ServesOK(w, p, l)'
<1>1. Kept(l.req)' => Kept(l.req)
  BY KeptBefore
<1>2. \A s : OwnedBy(l.req, l.name, s)' <=> OwnedBy(l.req, l.name, s)
  BY DEF OwnedBy
<1>3. p \in DeletePCs => co[l.req].phase \in {"deleting", "gone"} /\ l.name = co[l.req].handle
  BY DEF ServesOK
<1>4. p \in DeletePCs => co'[l.req].phase \in {"deleting", "gone"} /\ l.name = co'[l.req].handle
  BY <1>3 DEF CoKept
<1>5. p \notin DeletePCs /\ l.live => co'[l.req].phase = "wanted"
  BY DEF ServesOK
<1>6. ASSUME p \in NamedPCs \ DeletePCs, Kept(l.req)'
      PROVE  /\ OwnedBy(l.req, l.name, l.seen) \/ p \in {"endpoint", "reply"}
                  => OwnedBy(l.req, l.name, sub'[l.name])
             /\ l.exposed \/ p = "reply" => ep'[l.name] # None
  BY <1>1, <1>6 DEF ServesOK, SubKept, EpKept
<1>. QED
  BY <1>1, <1>2, <1>4, <1>5, <1>6 DEF ServesOK

(* What a step of the handler h, which goes to p with the locals l, has to *)
(* show.                                                                   *)
LEMMA OwnStep ==
  ASSUME BaseInv, TypeOK', NEW w \in Worlds, Own(w), NEW h \in Handlers, NEW p, NEW l,
         UNCHANGED profile, SubKept(w), EpKept(w), CoKept,
         pc' = [pc EXCEPT ![h] = p], loc' = [loc EXCEPT ![h] = l],
         p = "idle" \/ ServesOK(w, p, l)',
         \A g \in Handlers \ {h} : loc[g].live =>
            co'[loc[g].req] = co[loc[g].req] /\ (l.live => loc[g].req # l.req),
         l.created => \/ loc[h].created /\ l.name = loc[h].name
                      \/ sub'[l.name] = None \/ sub'[l.name].strategy # "retain",
         \A r \in Requests : co'[r] = co[r] \/ RequestOK(w, r)'
  PROVE  Own(w)'
<1>1. TypeOK /\ HandlersOK
  BY DEF BaseInv
<1>2. /\ pc'[h] = p /\ loc'[h] = l
      /\ \A g \in Handlers \ {h} : pc'[g] = pc[g] /\ loc'[g] = loc[g]
  BY <1>1 DEF TypeOK
<1>3. ASSUME NEW g \in Handlers, pc'[g] # "idle"
      PROVE  ServesOK(w, pc[g], loc[g])'
  <2>1. CASE g = h
    BY <1>2, <1>3, <2>1 DEF ServesOK, OwnedBy, Kept
  <2>2. CASE g # h
    <3>1. HandlerOK(g, pc[g], loc[g], sub, mu) /\ pc'[g] = pc[g] /\ loc'[g] = loc[g]
      BY <1>1, <1>2, <2>2 DEF HandlersOK
    <3>2. /\ loc[g].req \in Requests /\ (pc[g] \in NamedPCs => loc[g].name \in Names)
          /\ ServesOK(w, pc[g], loc[g])
      BY <1>3, <3>1 DEF HandlerOK, Own
    <3>3. ASSUME NEW v, NEW u, v = pc[g], u = loc[g] PROVE ServesOK(w, v, u)'
      BY <1>1, <2>2, <3>2, <3>3, ServesFrame
    <3>. QED
      BY <3>1, <3>3 DEF ServesOK, OwnedBy, Kept
  <2>. QED
    BY <2>1, <2>2
<1>4. OneLive'
  BY <1>2 DEF Own, OneLive
<1>5. NoRetainedHeld'
  <2>. SUFFICES ASSUME NEW g \in Handlers, NEW n \in Names, loc'[g].created, loc'[g].name = n,
                       sub'[n] # None, ~hasCompleteV2Identity(n, sub'[n])
                PROVE  sub'[n].strategy # "retain"
    BY DEF NoRetainedHeld, hasCompleteV2Identity, V2
  <2>1. (loc[g].created /\ loc[g].name = n) \/ sub'[n].strategy # "retain"
    BY <1>2
  <2>2. sub'[n] = sub[n] \/ sub'[n].strategy # "retain"
    BY DEF SubKept
  <2>. QED
    BY <2>1, <2>2 DEF Own, NoRetainedHeld
<1>6. ASSUME NEW r \in Requests
      PROVE  RequestOK(w, r)'
  <2>1. CASE co'[r] = co[r]
    <3>1. RequestOK(w, r)
      BY DEF Own
    <3>2. Kept(r)' <=> Kept(r)
      BY <2>1 DEF Kept
    <3>3. ~Kept(r) => co[r].phase # "wanted"
      BY DEF Kept
    <3>4. \A n, s : OwnedBy(r, n, s)' <=> OwnedBy(r, n, s)
      BY DEF OwnedBy
    <3>5. co[r].phase # "wanted" => co[r].handle \in Names /\ Claim(w, r, co[r].handle)
      BY <3>1 DEF RequestOK
    <3>6. co[r].phase # "wanted" /\ Kept(r) =>
            OwnedBy(r, co[r].handle, sub'[co[r].handle]) /\ ep'[co[r].handle] # None
      BY <3>1, <3>5 DEF RequestOK, SubKept, EpKept
    <3>7. ~Kept(r) => sub'[co[r].handle] = None \/ sub'[co[r].handle].strategy # "retain"
      BY <3>1, <3>3, <3>5 DEF RequestOK, SubKept
    <3>. QED
      BY <2>1, <3>2, <3>4, <3>5, <3>6, <3>7 DEF RequestOK
  <2>. QED
    BY <2>1
<1>7. profile' = w.profile /\ \A n \in Names : sub'[n] # None => Traceable(w, n, sub'[n])
  BY DEF Own, SubKept
<1>. QED
  BY <1>3, <1>4, <1>5, <1>6, <1>7 DEF Own, Traceable

(* A step that leaves the backend and the CO alone.                        *)
LEMMA UnchangedKept ==
  ASSUME NEW w \in Worlds, Own(w)
  PROVE  /\ UNCHANGED sub => SubKept(w)
         /\ UNCHANGED ep => EpKept(w)
         /\ UNCHANGED co => CoKept
  BY DEF Own, SubKept, EpKept, CoKept

LEMMA OwnQuiet ==
  ASSUME BaseInv, TypeOK', NEW w \in Worlds, Own(w), NEW h \in Handlers, NEW p, NEW l,
         UNCHANGED <<profile, sub, ep, co>>,
         pc' = [pc EXCEPT ![h] = p], loc' = [loc EXCEPT ![h] = l],
         p = "idle" \/ ServesOK(w, p, l),
         l.live => loc[h].live /\ l.req = loc[h].req,
         l.created => loc[h].created /\ l.name = loc[h].name
  PROVE  Own(w)'
<1>1. SubKept(w) /\ EpKept(w) /\ CoKept
  BY UnchangedKept
<1>2. p = "idle" \/ ServesOK(w, p, l)'
  BY DEF ServesOK, OwnedBy, Kept
<1>3. ASSUME NEW g \in Handlers, g # h, loc[g].live, l.live PROVE loc[g].req # l.req
  BY <1>3 DEF Own, OneLive
<1>4. \A g \in Handlers \ {h} : loc[g].live =>
         co'[loc[g].req] = co[loc[g].req] /\ (l.live => loc[g].req # l.req)
  BY <1>3
<1>5. l.created => \/ loc[h].created /\ l.name = loc[h].name
                   \/ sub'[l.name] = None \/ sub'[l.name].strategy # "retain"
  OBVIOUS
<1>6. \A r \in Requests : co'[r] = co[r] \/ RequestOK(w, r)'
  OBVIOUS
<1>7. UNCHANGED profile
  OBVIOUS
<1>. QED
  BY <1>1, <1>2, <1>4, <1>5, <1>6, <1>7, OwnStep

LEMMA ReturnOwn ==
  ASSUME BaseInv, TypeOK', NEW w \in Worlds, Own(w), NEW h \in Handlers, Return(h),
         UNCHANGED <<profile, sub, ep, co>>
  PROVE  Own(w)'
<1>1. ~NoLocals.live /\ ~NoLocals.created
  BY DEF NoLocals
<1>. QED
  BY <1>1, OwnQuiet DEF Return, Goto

LEMMA MoveOwn ==
  ASSUME BaseInv, TypeOK', NEW w \in Worlds, Own(w), NEW h \in Handlers, NEW p, Move(h, p),
         UNCHANGED <<profile, sub, ep, co>>, ServesOK(w, p, loc[h])
  PROVE  Own(w)'
<1>1. pc' = [pc EXCEPT ![h] = p] /\ loc' = [loc EXCEPT ![h] = loc[h]]
  BY DEF Move, Goto, BaseInv, TypeOK
<1>. QED
  BY <1>1, OwnQuiet

(* Where a handler has not looked for an endpoint yet.                     *)
EarlyPCs == {"findName", "findPVC", "select", "selectLegacy", "getOrCreate", "create"}

LEMMA SelectOwn ==
  ASSUME BaseInv, TypeOK', NEW w \in Worlds, Own(w), NEW h \in Handlers, NEW n \in Names,
         NEW p \in {"adoptList", "list", "validate", "persist"}, Select(h, n, p),
         UNCHANGED <<profile, Backend, co>>, pc[h] \in EarlyPCs, Claim(w, loc[h].req, n)
  PROVE  Own(w)'
<1>1. /\ TypeOK /\ loc[h] \in LocalType /\ HandlerOK(h, pc[h], loc[h], sub, mu)
      /\ ServesOK(w, pc[h], loc[h])
  BY DEF BaseInv, TypeOK, HandlersOK, Own, EarlyPCs
<1>2. PICK u \in UUIDs : /\ loc' = [loc EXCEPT ![h].name = n, ![h].seen = sub[n], ![h].uuid = u]
                         /\ pc' = [pc EXCEPT ![h] = p]
  BY DEF Select, Goto
<1>. DEFINE l == [loc[h] EXCEPT !.name = n, !.seen = sub[n], !.uuid = u]
<1>3. loc' = [loc EXCEPT ![h] = l]
  BY <1>1, <1>2 DEF TypeOK
<1>4. /\ l.name = n /\ l.seen = sub[n] /\ l.req = loc[h].req /\ l.live = loc[h].live
      /\ l.created = loc[h].created /\ l.exposed = loc[h].exposed
  BY <1>1 DEF LocalType
<1>. HIDE DEF l
<1>5. ~loc[h].created /\ ~loc[h].exposed /\ pc[h] \notin DeletePCs
  BY <1>1 DEF HandlerOK, HoldingPCs, ServesOK, EarlyPCs, DeletePCs
<1>6. ServesOK(w, p, l)
  BY <1>1, <1>4, <1>5 DEF ServesOK, DeletePCs
<1>. QED
  BY <1>2, <1>3, <1>4, <1>5, <1>6, OwnQuiet DEF Backend

LEMMA NewVolumeOwn ==
  ASSUME BaseInv, TypeOK', NEW w \in Worlds, Own(w), NEW h \in Handlers, NewVolume(h),
         UNCHANGED <<profile, Backend, co>>, pc[h] \in EarlyPCs
  PROVE  Own(w)'
<1>1. /\ TypeOK /\ loc[h] \in LocalType /\ HandlerOK(h, pc[h], loc[h], sub, mu)
      /\ ServesOK(w, pc[h], loc[h])
  BY DEF BaseInv, TypeOK, HandlersOK, Own, EarlyPCs
<1>2. PICK u \in UUIDs :
        /\ loc' = [loc EXCEPT ![h].name = P(h).backend, ![h].seen = None, ![h].uuid = u]
        /\ pc' = [pc EXCEPT ![h] = IF P(h).proto = "nfs" THEN "create" ELSE "getOrCreate"]
  BY DEF NewVolume, Goto
<1>. DEFINE p == IF P(h).proto = "nfs" THEN "create" ELSE "getOrCreate"
            l == [loc[h] EXCEPT !.name = P(h).backend, !.seen = None, !.uuid = u]
<1>3. loc' = [loc EXCEPT ![h] = l] /\ pc' = [pc EXCEPT ![h] = p] /\ p \in {"create", "getOrCreate"}
  BY <1>1, <1>2 DEF TypeOK
<1>4. /\ l.name = P(h).backend /\ l.seen = None /\ l.req = loc[h].req /\ l.live = loc[h].live
      /\ l.created = loc[h].created /\ l.exposed = loc[h].exposed
  BY <1>1 DEF LocalType
<1>. HIDE DEF l, p
<1>5. ~loc[h].created /\ ~loc[h].exposed /\ pc[h] \notin DeletePCs
  BY <1>1 DEF HandlerOK, HoldingPCs, ServesOK, EarlyPCs, DeletePCs
<1>6. Claim(w, loc[h].req, P(h).backend)
  BY DEF Own, Claim, P
<1>7. ServesOK(w, p, l)
  BY <1>1, <1>3, <1>4, <1>5, <1>6 DEF ServesOK, DeletePCs, OwnedBy
<1>. QED
  BY <1>3, <1>4, <1>5, <1>7, OwnQuiet DEF Backend

-----------------------------------------------------------------------------
(* What a handler finds belongs to the request it serves.                  *)

LEMMA FoundClaims ==
  ASSUME BaseInv, NEW w \in Worlds, SoleClaimant(w), Own(w), NEW r \in Requests, NEW n \in Names,
         sub[n] # None,
         \/ sub[n].csi # None /\ sub[n].csi = profile[r].name
         \/ profile[r].pvc # 0 /\ sub[n].pvc = profile[r].pvc
  PROVE  Claim(w, r, n)
<1>1. Traceable(w, n, sub[n]) /\ profile = w.profile
  BY DEF Own
<1>2. CASE sub[n].csi # None /\ sub[n].csi = profile[r].name
  BY <1>1, <1>2 DEF Traceable, Claim
<1>3. CASE profile[r].pvc # 0 /\ sub[n].pvc = profile[r].pvc
  <2>1. CASE w.subs[n] # None /\ sub[n].pvc = w.subs[n].pvc
    BY <1>1, <1>3, <2>1 DEF Claim
  <2>2. CASE \E q \in Requests : Claim(w, q, n) /\ sub[n].pvc = w.profile[q].pvc
    BY <1>1, <1>3, <2>2 DEF SoleClaimant
  <2>. QED
    BY <1>1, <1>3, <2>1, <2>2 DEF Traceable
<1>. QED
  BY <1>2, <1>3

LEMMA DecisionClaims ==
  ASSUME BaseInv, NEW w \in Worlds, SoleClaimant(w), Own(w), NEW r \in Requests, NEW n \in Names,
         sub[n] # None, decideExistingVolumeIdentity(r, sub[n]),
         n \in {profile[r].backend, profile[r].legacy} \/ Claim(w, r, n)
  PROVE  Claim(w, r, n)
<1>1. Traceable(w, n, sub[n]) /\ profile = w.profile
  BY DEF Own
<1>2. CASE V2(sub[n])
  BY <1>1, <1>2, NoneApart DEF decideExistingVolumeIdentity, Traceable, V2
<1>3. CASE profile[r].adoptExisting \/ n = profile[r].backend
  BY <1>1, <1>3 DEF Claim
<1>4. CASE legacyPVCIdentityMatches(r, sub[n])
  BY <1>4, FoundClaims DEF legacyPVCIdentityMatches
<1>. QED
  BY <1>2, <1>3, <1>4 DEF decideExistingVolumeIdentity

LEMMA TakeOwn ==
  ASSUME BaseInv, TypeOK', NEW w \in Worlds, SoleClaimant(w), Own(w), NEW h \in Handlers,
         NEW n \in Names, sub[n] # None, NEW p \in {"list", "validate", "persist"}, Take(h, n, p),
         UNCHANGED <<profile, Backend, co>>, pc[h] \in EarlyPCs,
         n \in {P(h).backend, P(h).legacy} \/ Claim(w, loc[h].req, n)
  PROVE  Own(w)'
<1>1. loc[h].req \in Requests
  BY DEF BaseInv, HandlersOK, HandlerOK, EarlyPCs
<1>2. CASE Return(h)
  BY <1>2, ReturnOwn DEF Backend
<1>3. CASE decideExistingVolumeIdentity(loc[h].req, sub[n]) /\ Select(h, n, p)
  <2>1. Claim(w, loc[h].req, n)
    BY <1>1, <1>3, DecisionClaims DEF P
  <2>. QED
    BY <1>3, <2>1, SelectOwn
<1>. QED
  BY <1>2, <1>3 DEF Take

-----------------------------------------------------------------------------
(* OwnInv under the steps of CreateVolume.                                 *)

LEMMA FailOwn ==
  ASSUME BaseInv, TypeOK', NEW w \in Worlds, Own(w), NEW h \in Handlers, Fail(h), UNCHANGED profile
  PROVE  Own(w)'
  BY ReturnOwn DEF Fail, Backend

LEMMA SearchOwn ==
  ASSUME BaseInv, TypeOK', NEW w \in Worlds, SoleClaimant(w), Own(w), NEW h \in Handlers,
         UNCHANGED profile, checkAndAdoptVolume(h) \/ findSubvolumeByPVCIdentity(h)
  PROVE  Own(w)'
<1>1. /\ pc[h] \in {"findName", "findPVC"} /\ loc[h].req \in Requests
      /\ ServesOK(w, pc[h], loc[h])
  BY DEF BaseInv, HandlersOK, HandlerOK, Own, checkAndAdoptVolume, findSubvolumeByPVCIdentity
<1>2. CASE Fail(h)
  BY <1>2, FailOwn
<1>3. CASE ~Fail(h)
  <2>1. /\ UNCHANGED <<Backend, co>>
        /\ \/ Move(h, "findPVC") \/ Move(h, "select") \/ Return(h)
           \/ \E n \in Names : /\ sub[n] # None /\ Adoption(h, n)
                               /\ \/ sub[n].csi # None /\ sub[n].csi = P(h).name
                                  \/ P(h).pvc # 0 /\ sub[n].pvc = P(h).pvc
    BY <1>3 DEF checkAndAdoptVolume, findSubvolumeByPVCIdentity, PVCMatches
  <2>2. ASSUME NEW p \in {"findPVC", "select"}, Move(h, p) PROVE Own(w)'
    <3>1. ServesOK(w, p, loc[h])
      BY <1>1 DEF ServesOK, NamedPCs, DeletePCs
    <3>. QED
      BY <2>1, <2>2, <3>1, MoveOwn DEF Backend
  <2>3. CASE Return(h)
    BY <2>1, <2>3, ReturnOwn DEF Backend
  <2>4. ASSUME NEW n \in Names, sub[n] # None, Adoption(h, n), Claim(w, loc[h].req, n)
        PROVE  Own(w)'
    <3>1. Move(h, "select") \/ Return(h) \/ Select(h, n, "adoptList")
      BY <2>4 DEF Adoption
    <3>2. CASE Select(h, n, "adoptList")
      BY <1>1, <2>1, <2>4, <3>2, SelectOwn DEF EarlyPCs
    <3>. QED
      BY <2>2, <2>3, <3>1, <3>2
  <2>5. ASSUME NEW n \in Names, sub[n] # None,
               \/ sub[n].csi # None /\ sub[n].csi = P(h).name
               \/ P(h).pvc # 0 /\ sub[n].pvc = P(h).pvc
        PROVE  Claim(w, loc[h].req, n)
    BY <1>1, <2>5, FoundClaims DEF P
  <2>. QED
    BY <2>1, <2>2, <2>3, <2>4, <2>5
<1>. QED
  BY <1>2, <1>3

LEMMA ExistingOwn ==
  ASSUME BaseInv, TypeOK', NEW w \in Worlds, Own(w), NEW h \in Handlers, UNCHANGED profile,
         NEW proto \in Protocols,
         AdoptFindsEndpoint(h, proto) \/ HandleExistingShare(h, proto) \/ HandleExistingBlock(h, proto)
  PROVE  Own(w)'
<1>1. /\ pc[h] \in {"adoptList", "list"} /\ loc[h] \in LocalType /\ TypeOK
      /\ ServesOK(w, pc[h], loc[h])
  BY DEF BaseInv, TypeOK, Own, AdoptFindsEndpoint, HandleExistingShare, HandleExistingBlock
<1>2. CASE Fail(h)
  BY <1>2, FailOwn
<1>3. CASE ~Fail(h)
  <2>1. /\ UNCHANGED <<Backend, co>>
        /\ \/ Return(h) \/ Move(h, "getOrCreate")
           \/ Goto(h, "persist") /\ \E b \in BOOLEAN : /\ loc' = [loc EXCEPT ![h].exposed = b]
                                                       /\ b => ep[loc[h].name] # None
    BY <1>3, Zenon DEF AdoptFindsEndpoint, HandleExistingShare, HandleExistingBlock
  <2>2. CASE Return(h)
    BY <2>1, <2>2, ReturnOwn DEF Backend
  <2>3. CASE Move(h, "getOrCreate")
    <3>1. ServesOK(w, "getOrCreate", loc[h])
      BY <1>1 DEF ServesOK, NamedPCs, PCs, DeletePCs
    <3>. QED
      BY <2>1, <2>3, <3>1, MoveOwn DEF Backend
  <2>4. ASSUME NEW b \in BOOLEAN, Goto(h, "persist"), loc' = [loc EXCEPT ![h].exposed = b],
               b => ep[loc[h].name] # None
        PROVE  Own(w)'
    <3>. DEFINE l == [loc[h] EXCEPT !.exposed = b]
    <3>1. loc' = [loc EXCEPT ![h] = l]
      BY <1>1, <2>4 DEF TypeOK
    <3>2. /\ l.name = loc[h].name /\ l.req = loc[h].req /\ l.seen = loc[h].seen
          /\ l.created = loc[h].created /\ l.live = loc[h].live /\ l.exposed = b
      BY <1>1 DEF LocalType
    <3>. HIDE DEF l
    <3>3. ServesOK(w, "persist", l)
      BY <1>1, <2>4, <3>2 DEF ServesOK, NamedPCs, PCs, DeletePCs
    <3>4. pc' = [pc EXCEPT ![h] = "persist"] /\ UNCHANGED <<profile, sub, ep, co>>
      BY <2>1, <2>4 DEF Goto, Backend
    <3>5. /\ l.live => loc[h].live /\ l.req = loc[h].req
          /\ l.created => loc[h].created /\ l.name = loc[h].name
      BY <3>2
    <3>. QED
      BY <3>1, <3>3, <3>4, <3>5, OwnQuiet
  <2>. QED
    BY <2>1, <2>2, <2>3, <2>4
<1>. QED
  BY <1>2, <1>3

LEMMA SelectionOwn ==
  ASSUME BaseInv, TypeOK', NEW w \in Worlds, SoleClaimant(w), Own(w), NEW h \in Handlers,
         UNCHANGED profile, selectExistingCreateSubvolume(h) \/ getOrCreateSubvolume(h)
  PROVE  Own(w)'
<1>1. /\ pc[h] \in {"select", "selectLegacy", "getOrCreate"} /\ loc[h].req \in Requests /\ TypeOK
      /\ ServesOK(w, pc[h], loc[h]) /\ HandlerOK(h, pc[h], loc[h], sub, mu)
  BY DEF BaseInv, HandlersOK, HandlerOK, Own, selectExistingCreateSubvolume, getOrCreateSubvolume
<1>2. /\ P(h).backend \in Names /\ P(h).legacy \in Names /\ AfterStorage(h) \in {"validate", "persist"}
      /\ pc[h] \in EarlyPCs
  BY <1>1 DEF P, TypeOK, ProfileType, AfterStorage, EarlyPCs
<1>3. pc[h] = "getOrCreate" => loc[h].name \in Names /\ Claim(w, loc[h].req, loc[h].name)
  BY <1>1 DEF HandlerOK, ServesOK, NamedPCs, PCs
<1>4. CASE Fail(h)
  BY <1>4, FailOwn
<1>5. CASE ~Fail(h)
  <2>1. /\ UNCHANGED <<Backend, co>>
        /\ \/ pc[h] = "select" /\ Move(h, "selectLegacy")
           \/ pc[h] = "getOrCreate" /\ Move(h, "create")
           \/ NewVolume(h)
           \/ \E n \in Names, p \in {"list", "validate", "persist"} :
                /\ sub[n] # None /\ Take(h, n, p)
                /\ n \in {P(h).backend, P(h).legacy} \/ Claim(w, loc[h].req, n)
    BY <1>2, <1>3, <1>5, Zenon DEF selectExistingCreateSubvolume, getOrCreateSubvolume, Subvol
  <2>2. CASE pc[h] = "select" /\ Move(h, "selectLegacy")
    <3>1. ServesOK(w, "selectLegacy", loc[h])
      BY <1>1, <2>2 DEF ServesOK, NamedPCs, PCs, DeletePCs
    <3>. QED
      BY <2>1, <2>2, <3>1, MoveOwn DEF Backend
  <2>3. CASE pc[h] = "getOrCreate" /\ Move(h, "create")
    <3>1. ServesOK(w, "create", loc[h])
      BY <1>1, <2>3 DEF ServesOK, NamedPCs, PCs, DeletePCs
    <3>. QED
      BY <2>1, <2>3, <3>1, MoveOwn DEF Backend
  <2>4. CASE NewVolume(h)
    BY <1>2, <2>1, <2>4, NewVolumeOwn
  <2>5. ASSUME NEW n \in Names, NEW p \in {"list", "validate", "persist"}, sub[n] # None,
               Take(h, n, p), n \in {P(h).backend, P(h).legacy} \/ Claim(w, loc[h].req, n)
        PROVE  Own(w)'
    BY <1>2, <2>1, <2>5, TakeOwn
  <2>. QED
    BY <2>1, <2>2, <2>3, <2>4, <2>5
<1>. QED
  BY <1>4, <1>5

(* A write of x by a handler that serves q: another request has no claim   *)
(* on the subvolume.                                                       *)
LEMMA WriteKept ==
  ASSUME BaseInv, NEW w \in Worlds, SoleClaimant(w), Own(w), NEW q \in Requests, NEW n \in Names,
         Claim(w, q, n), NEW x \in SubType \union {None}, sub' = [sub EXCEPT ![n] = x],
         x # None => Traceable(w, n, x),
         \/ x = None /\ (~Kept(q) \/ sub[n] = None \/ ~hasCompleteV2Identity(n, sub[n]))
         \/ sub[n] = None /\ x # None /\ x.strategy = None
         \/ OwnedBy(q, n, x)
  PROVE  SubKept(w)
<1>1. /\ sub'[n] = x /\ \A m \in Names \ {n} : sub'[m] = sub[m]
  BY DEF BaseInv, TypeOK
<1>2. ASSUME NEW r \in Requests, Claim(w, r, n) PROVE r = q
  BY <1>2 DEF SoleClaimant
<1>3. ASSUME NEW m \in Names, sub'[m] # None PROVE Traceable(w, m, sub'[m])
  BY <1>1, <1>3 DEF Own
<1>4. x # None /\ x.strategy = None => x.strategy # "retain"
  BY NoneApart DEF Strategies
<1>5. OwnedBy(q, n, x) => hasCompleteV2Identity(n, x) /\ (Kept(q) \/ x.strategy # "retain")
  BY DEF OwnedBy, Kept
<1>6. Kept(q) /\ OwnedBy(q, n, sub[n]) => OwnedBy(q, n, x)
  BY DEF OwnedBy
<1>. QED
  BY <1>1, <1>2, <1>3, <1>4, <1>5, <1>6 DEF SubKept

LEMMA OwnWrite ==
  ASSUME BaseInv, TypeOK', NEW w \in Worlds, Own(w), NEW h \in Handlers, NEW p, NEW l,
         UNCHANGED <<profile, ep, co>>, SubKept(w),
         pc' = [pc EXCEPT ![h] = p], loc' = [loc EXCEPT ![h] = l],
         p = "idle" \/ ServesOK(w, p, l)',
         l.live => loc[h].live /\ l.req = loc[h].req,
         l.created => \/ loc[h].created /\ l.name = loc[h].name
                      \/ sub'[l.name] = None \/ sub'[l.name].strategy # "retain"
  PROVE  Own(w)'
<1>1. EpKept(w) /\ CoKept
  BY UnchangedKept
<1>2. ASSUME NEW g \in Handlers, g # h, loc[g].live, l.live PROVE loc[g].req # l.req
  BY <1>2 DEF Own, OneLive
<1>3. \A g \in Handlers \ {h} : loc[g].live =>
         co'[loc[g].req] = co[loc[g].req] /\ (l.live => loc[g].req # l.req)
  BY <1>2
<1>4. \A r \in Requests : co'[r] = co[r] \/ RequestOK(w, r)'
  OBVIOUS
<1>5. UNCHANGED profile
  OBVIOUS
<1>. QED
  BY <1>1, <1>3, <1>4, <1>5, OwnStep

LEMMA WriteReturnOwn ==
  ASSUME BaseInv, TypeOK', NEW w \in Worlds, Own(w), NEW h \in Handlers, Return(h),
         UNCHANGED <<profile, ep, co>>, SubKept(w)
  PROVE  Own(w)'
<1>1. ~NoLocals.live /\ ~NoLocals.created
  BY DEF NoLocals
<1>. QED
  BY <1>1, OwnWrite DEF Return, Goto

LEMMA CreateSubvolumeOwn ==
  ASSUME BaseInv, TypeOK', NEW w \in Worlds, SoleClaimant(w), Own(w), NEW h \in Handlers,
         UNCHANGED profile, NEW proto \in Protocols, CreateSubvolume(h, proto)
  PROVE  Own(w)'
<1>. DEFINE n == loc[h].name
            new == BlankSubvolume(loc[h].cap)
<1>1. /\ HandlerOK(h, pc[h], loc[h], sub, mu) /\ TypeOK /\ pc[h] = "create"
      /\ loc[h] \in LocalType /\ ServesOK(w, pc[h], loc[h])
  BY DEF BaseInv, HandlersOK, CreateSubvolume, TypeOK, Own
<1>2. /\ ~loc[h].created /\ ~loc[h].exposed /\ loc[h].req \in Requests /\ n \in Names
      /\ Claim(w, loc[h].req, n) /\ pc[h] \in EarlyPCs /\ pc[h] \notin DeletePCs
  BY <1>1 DEF HandlerOK, HoldingPCs, NamedPCs, PCs, ServesOK, EarlyPCs, DeletePCs
<1>3. AfterStorage(h) \in {"validate", "persist"}
  BY DEF AfterStorage
<1>4. /\ new \in SubType /\ ~new.managed /\ new # None /\ new.strategy = None
      /\ Traceable(w, n, new) /\ new.strategy # "retain"
  BY <1>1, BlankTyped, NoneApart DEF LocalType, Traceable, Strategies
<1>. HIDE DEF new
<1>5. ASSUME Subvol(h) = None, sub' = [sub EXCEPT ![n] = new]
      PROVE  SubKept(w) /\ sub'[n] = new
  BY <1>1, <1>2, <1>4, <1>5, WriteKept DEF Subvol, TypeOK
<1>6. CASE Fail(h)
  BY <1>6, FailOwn
<1>7. CASE Subvol(h) # None /\ Take(h, n, AfterStorage(h)) /\ UNCHANGED <<Backend, mu, co>>
  BY <1>2, <1>3, <1>7, TakeOwn DEF Subvol
<1>8. CASE /\ Subvol(h) = None /\ sub' = [sub EXCEPT ![n] = new]
           /\ Return(h) /\ UNCHANGED <<ep, mu, co>>
  BY <1>5, <1>8, WriteReturnOwn
<1>9. CASE /\ Subvol(h) = None /\ Write(n, new)
           /\ \E u \in UUIDs :
                loc' = [loc EXCEPT ![h].seen = new, ![h].uuid = u, ![h].created = TRUE]
           /\ Goto(h, AfterStorage(h)) /\ UNCHANGED <<ep, mu, co>>
  <2>1. PICK u \in UUIDs :
          loc' = [loc EXCEPT ![h].seen = new, ![h].uuid = u, ![h].created = TRUE]
    BY <1>9
  <2>. DEFINE l == [loc[h] EXCEPT !.seen = new, !.uuid = u, !.created = TRUE]
              p == AfterStorage(h)
  <2>2. loc' = [loc EXCEPT ![h] = l]
    BY <1>1, <2>1 DEF TypeOK
  <2>3. /\ l.name = n /\ l.req = loc[h].req /\ l.seen = new /\ l.live = loc[h].live
        /\ l.exposed = loc[h].exposed
    BY <1>1 DEF LocalType
  <2>4. p \in {"validate", "persist"} /\ pc' = [pc EXCEPT ![h] = p]
    BY <1>3, <1>9 DEF Goto
  <2>5. SubKept(w) /\ sub'[n] = new
    BY <1>5, <1>9 DEF Write
  <2>. HIDE DEF l, p
  <2>6. PICK q, k : q = p /\ k = l
    OBVIOUS
  <2>7. ServesOK(w, q, k)'
    BY <1>1, <1>2, <1>4, <1>9, <2>3, <2>4, <2>6
    DEF ServesOK, DeletePCs, OwnedBy, hasCompleteV2Identity, V2
  <2>8. pc' = [pc EXCEPT ![h] = q] /\ loc' = [loc EXCEPT ![h] = k]
    BY <2>2, <2>4, <2>6
  <2>9. k.live => loc[h].live /\ k.req = loc[h].req
    BY <2>3, <2>6
  <2>10. k.created => \/ loc[h].created /\ k.name = loc[h].name
                      \/ sub'[k.name] = None \/ sub'[k.name].strategy # "retain"
    BY <1>4, <2>3, <2>5, <2>6
  <2>11. UNCHANGED <<profile, ep, co>>
    BY <1>9
  <2>. QED
    BY <2>5, <2>7, <2>8, <2>9, <2>10, <2>11, OwnWrite
<1>. QED
  BY <1>6, <1>7, <1>8, <1>9, Zenon DEF CreateSubvolume, new

LEMMA ValidateOwn ==
  ASSUME BaseInv, TypeOK', NEW w \in Worlds, Own(w), NEW h \in Handlers, UNCHANGED profile,
         validateInitializedBlockFilesystem(h)
  PROVE  Own(w)'
<1>1. ServesOK(w, pc[h], loc[h]) /\ pc[h] = "validate" /\ UNCHANGED <<Backend, mu, co>>
  BY DEF Own, validateInitializedBlockFilesystem
<1>2. CASE Return(h)
  BY <1>1, <1>2, ReturnOwn DEF Backend
<1>3. ASSUME NEW p \in {"persist", "rollback"}, Move(h, p)
      PROVE  Own(w)'
  <2>1. ServesOK(w, p, loc[h])
    BY <1>1 DEF ServesOK, NamedPCs, DeletePCs, PCs
  <2>. QED
    BY <1>1, <1>3, <2>1, MoveOwn DEF Backend
<1>. QED
  BY <1>2, <1>3 DEF validateInitializedBlockFilesystem

LEMMA PersistOwn ==
  ASSUME BaseInv, TypeOK', NEW w \in Worlds, SoleClaimant(w), Own(w), NEW h \in Handlers,
         UNCHANGED profile, persistVolumeIdentity(h)
  PROVE  Own(w)'
<1>. DEFINE n == loc[h].name
            x == Identified(h, sub[n])
<1>1. /\ HandlerOK(h, pc[h], loc[h], sub, mu) /\ TypeOK /\ pc[h] = "persist" /\ UNCHANGED co
      /\ ServesOK(w, pc[h], loc[h])
  BY DEF BaseInv, HandlersOK, persistVolumeIdentity, Own
<1>2. /\ loc[h].req \in Requests /\ n \in Names /\ loc[h].uuid \in UUIDs /\ ~loc[h].cloning
      /\ Claim(w, loc[h].req, n) /\ pc[h] \notin DeletePCs /\ pc[h] \in NamedPCs
  BY <1>1 DEF HandlerOK, NamedPCs, IdentityPCs, PCs, ServesOK, DeletePCs
<1>3. ASSUME NEW p \in {"endpoint", "reply"}, Move(h, p), p = "reply" => loc[h].exposed,
             OwnedBy(loc[h].req, n, loc[h].seen), UNCHANGED Backend
      PROVE  Own(w)'
  <2>1. ServesOK(w, p, loc[h])
    BY <1>1, <1>2, <1>3 DEF ServesOK, DeletePCs
  <2>. QED
    BY <1>1, <1>3, <2>1, MoveOwn DEF Backend
<1>4. CASE Move(h, "verify") /\ UNCHANGED Backend
  <2>1. ServesOK(w, "verify", loc[h])
    BY <1>1, <1>2 DEF ServesOK, DeletePCs
  <2>. QED
    BY <1>1, <1>4, <2>1, MoveOwn DEF Backend
<1>5. ASSUME NEW p \in {"endpoint", "reply", "verify"}, Move(h, p), p = "reply" => loc[h].exposed,
             sub[n] # None, Write(n, x), UNCHANGED ep
      PROVE  Own(w)'
  <2>1. /\ x \in SubType /\ OwnedBy(loc[h].req, n, x) /\ x.csi = n /\ x.request = loc[h].req
        /\ x.pvc \in {sub[n].pvc, P(h).pvc}
    BY <1>1, <1>2, <1>5, IdentifiedOwned DEF TypeOK
  <2>. HIDE DEF x
  <2>2. sub' = [sub EXCEPT ![n] = x]
    BY <1>5 DEF Write
  <2>3. Traceable(w, n, x)
    <3>1. Traceable(w, n, sub[n]) /\ P(h).pvc = w.profile[loc[h].req].pvc
      BY <1>2, <1>5 DEF Own, P
    <3>. QED
      BY <1>2, <2>1, <3>1 DEF Traceable
  <2>4. SubKept(w)
    BY <1>2, <2>1, <2>2, <2>3, WriteKept
  <2>5. sub'[n] = x
    BY <1>1, <1>2, <2>2 DEF TypeOK
  <2>6. loc' = [loc EXCEPT ![h] = loc[h]] /\ pc' = [pc EXCEPT ![h] = p]
    BY <1>1, <1>5 DEF Move, Goto, TypeOK
  <2>7. ASSUME NEW l, l = loc[h] PROVE ServesOK(w, p, l)'
    BY <1>1, <1>2, <1>5, <2>1, <2>5, <2>7 DEF ServesOK, DeletePCs, OwnedBy, Kept
  <2>. QED
    BY <1>1, <1>5, <2>4, <2>6, <2>7, OwnWrite
<1>6. \/ /\ OwnedBy(loc[h].req, n, loc[h].seen) /\ UNCHANGED Backend
         /\ \E p \in {"endpoint", "reply"} : Move(h, p) /\ (p = "reply" => loc[h].exposed)
      \/ /\ sub[n] # None /\ Write(n, x) /\ UNCHANGED ep
         /\ \E p \in {"endpoint", "reply", "verify"} : Move(h, p) /\ (p = "reply" => loc[h].exposed)
      \/ Move(h, "verify") /\ UNCHANGED Backend
  BY PersistCases
<1>. QED
  BY <1>3, <1>4, <1>5, <1>6

LEMMA VerifyOwn ==
  ASSUME BaseInv, TypeOK', NEW w \in Worlds, Own(w), NEW h \in Handlers, UNCHANGED profile,
         verifyIdentityWrite(h)
  PROVE  Own(w)'
<1>1. ServesOK(w, pc[h], loc[h]) /\ pc[h] = "verify" /\ UNCHANGED <<sub, ep, co>>
  BY DEF Own, verifyIdentityWrite
<1>2. CASE Return(h)
  BY <1>1, <1>2, ReturnOwn
<1>3. CASE Move(h, "rollback")
  <2>1. ServesOK(w, "rollback", loc[h])
    BY <1>1 DEF ServesOK, NamedPCs, DeletePCs, PCs
  <2>. QED
    BY <1>1, <1>3, <2>1, MoveOwn
<1>. QED
  BY <1>2, <1>3 DEF verifyIdentityWrite

LEMMA RollbackOwn ==
  ASSUME BaseInv, TypeOK', NEW w \in Worlds, SoleClaimant(w), Own(w), NEW h \in Handlers,
         UNCHANGED profile, rollbackCreatedSubvolume(h)
  PROVE  Own(w)'
<1>. DEFINE n == loc[h].name
<1>1. /\ HandlerOK(h, pc[h], loc[h], sub, mu) /\ TypeOK /\ ServesOK(w, pc[h], loc[h])
      /\ pc[h] \in {"rollback", "rollbackDelete"} /\ UNCHANGED <<ep, co>>
  BY DEF BaseInv, HandlersOK, rollbackCreatedSubvolume, Own
<1>2. n \in Names /\ loc[h].req \in Requests /\ Claim(w, loc[h].req, n)
  BY <1>1 DEF HandlerOK, NamedPCs, PCs, ServesOK
<1>3. CASE Return(h) /\ UNCHANGED sub
  BY <1>1, <1>3, ReturnOwn
<1>4. CASE Move(h, "rollbackDelete") /\ UNCHANGED sub
  <2>1. ServesOK(w, "rollbackDelete", loc[h])
    BY <1>1 DEF ServesOK, NamedPCs, DeletePCs, PCs
  <2>. QED
    BY <1>1, <1>4, <2>1, MoveOwn
<1>5. CASE pc[h] = "rollbackDelete" /\ Write(n, None) /\ Return(h)
  <2>1. sub[n] = None \/ ~hasCompleteV2Identity(n, sub[n])
    BY <1>1, <1>5 DEF HandlerOK
  <2>2. SubKept(w)
    BY <1>2, <1>5, <2>1, WriteKept DEF Write
  <2>. QED
    BY <1>1, <1>5, <2>2, WriteReturnOwn
<1>. QED
  BY <1>3, <1>4, <1>5, Zenon DEF rollbackCreatedSubvolume

LEMMA EndpointOwn ==
  ASSUME BaseInv, TypeOK', NEW w \in Worlds, Own(w), NEW h \in Handlers, UNCHANGED profile,
         NEW protos, CreateEndpoint(h, protos)
  PROVE  Own(w)'
<1>. DEFINE n == loc[h].name
            new == IF P(h).proto \in Share THEN loc[h].cap ELSE 0
<1>1. /\ HandlerOK(h, pc[h], loc[h], sub, mu) /\ TypeOK /\ pc[h] = "endpoint"
      /\ loc[h] \in LocalType /\ UNCHANGED <<sub, mu, co, excused>> /\ ServesOK(w, pc[h], loc[h])
  BY DEF BaseInv, HandlersOK, CreateEndpoint, TypeOK, Own
<1>2. n \in Names /\ new \in Nat /\ new # None
  BY <1>1, NoneApart DEF HandlerOK, NamedPCs, PCs, LocalType
<1>. HIDE DEF new
<1>3. \/ UNCHANGED ep /\ Return(h)
      \/ ep' = [ep EXCEPT ![n] = new] /\ (Move(h, "reply") \/ Return(h))
  BY DEF CreateEndpoint, new
<1>4. CASE UNCHANGED ep /\ Return(h)
  BY <1>1, <1>4, ReturnOwn
<1>5. CASE ep' = [ep EXCEPT ![n] = new] /\ (Move(h, "reply") \/ Return(h))
  <2>1. EpKept(w) /\ ep'[n] # None
    BY <1>1, <1>2, <1>5 DEF EpKept, TypeOK
  <2>2. SubKept(w) /\ CoKept
    BY <1>1, UnchangedKept
  <2>3. PICK p, l : /\ pc' = [pc EXCEPT ![h] = p] /\ loc' = [loc EXCEPT ![h] = l]
                    /\ \/ p = "reply" /\ l = loc[h]
                       \/ p = "idle" /\ l = NoLocals
    <3>1. CASE Move(h, "reply")
      <4>1. loc' = [loc EXCEPT ![h] = loc[h]]
        BY <1>1, <3>1 DEF Move, TypeOK
      <4>. QED
        BY <3>1, <4>1 DEF Move, Goto
    <3>2. CASE Return(h)
      BY <3>2 DEF Return, Goto
    <3>. QED
      BY <1>5, <3>1, <3>2
  <2>4. p = "idle" \/ ServesOK(w, p, l)'
    <3>. SUFFICES ASSUME p = "reply", l = loc[h] PROVE ServesOK(w, p, l)'
      BY <2>3
    <3>. QED
      BY <1>1, <2>1 DEF ServesOK, NamedPCs, DeletePCs, PCs, OwnedBy, Kept
  <2>5. /\ l.live => loc[h].live /\ l.req = loc[h].req
        /\ l.created => loc[h].created /\ l.name = loc[h].name
    BY <2>3 DEF NoLocals
  <2>6. ASSUME NEW g \in Handlers, g # h, loc[g].live, l.live PROVE loc[g].req # l.req
    BY <2>5, <2>6 DEF Own, OneLive
  <2>7. \A g \in Handlers \ {h} : loc[g].live =>
           co'[loc[g].req] = co[loc[g].req] /\ (l.live => loc[g].req # l.req)
    BY <1>1, <2>6
  <2>8. l.created => \/ loc[h].created /\ l.name = loc[h].name
                     \/ sub'[l.name] = None \/ sub'[l.name].strategy # "retain"
    BY <2>5
  <2>9. \A r \in Requests : co'[r] = co[r] \/ RequestOK(w, r)'
    BY <1>1
  <2>10. pc' = [pc EXCEPT ![h] = p] /\ loc' = [loc EXCEPT ![h] = l]
    BY <2>3
  <2>. QED
    BY <2>1, <2>2, <2>4, <2>7, <2>8, <2>9, <2>10, OwnStep, ZenonT(60)
<1>. QED
  BY <1>3, <1>4, <1>5

(* A step that changes what the CO knows of the request q, and returns.    *)
LEMMA AnswerOwn ==
  ASSUME BaseInv, TypeOK', NEW w \in Worlds, Own(w), NEW h \in Handlers, loc[h].live,
         NEW q \in Requests, q = loc[h].req, UNCHANGED <<profile, Backend>>, Return(h), CoKept,
         \A r \in Requests \ {q} : co'[r] = co[r],
         RequestOK(w, q)'
  PROVE  Own(w)'
<1>1. SubKept(w) /\ EpKept(w)
  BY UnchangedKept DEF Backend
<1>2. ~NoLocals.live /\ ~NoLocals.created
  BY DEF NoLocals
<1>3. ASSUME NEW g \in Handlers, g # h, loc[g].live PROVE co'[loc[g].req] = co[loc[g].req]
  <2>1. loc[g].req \in Requests
    BY <1>2, <1>3 DEF BaseInv, HandlersOK, HandlerOK
  <2>. QED
    BY <1>3, <2>1 DEF Own, OneLive
<1>4. pc' = [pc EXCEPT ![h] = "idle"] /\ loc' = [loc EXCEPT ![h] = NoLocals]
  BY DEF Return, Goto
<1>5. \A g \in Handlers \ {h} : loc[g].live =>
         co'[loc[g].req] = co[loc[g].req] /\ (NoLocals.live => loc[g].req # NoLocals.req)
  BY <1>2, <1>3
<1>6. \A r \in Requests : co'[r] = co[r] \/ RequestOK(w, r)'
  OBVIOUS
<1>7. UNCHANGED profile /\ CoKept
  OBVIOUS
<1>. QED
  BY <1>1, <1>2, <1>4, <1>5, <1>6, <1>7, OwnStep

LEMMA ResponseOwn ==
  ASSUME BaseInv, TypeOK', NEW w \in Worlds, Own(w), NEW h \in Handlers, UNCHANGED profile,
         CreateVolumeResponse(h) \/ DeleteVolumeResponse(h)
  PROVE  Own(w)'
<1>1. /\ HandlerOK(h, pc[h], loc[h], sub, mu) /\ TypeOK /\ pc[h] \in {"reply", "deleted"}
      /\ UNCHANGED <<Backend, mu>> /\ Return(h) /\ ServesOK(w, pc[h], loc[h])
  BY DEF BaseInv, HandlersOK, CreateVolumeResponse, DeleteVolumeResponse, Own
<1>2. PICK q \in Requests : q = loc[h].req
  BY <1>1 DEF HandlerOK
<1>3. PICK n \in Names : n = loc[h].name
  BY <1>1 DEF HandlerOK, NamedPCs, PCs
<1>4. Claim(w, q, n)
  BY <1>1, <1>2, <1>3 DEF ServesOK, NamedPCs, PCs
<1>5. \/ UNCHANGED co
      \/ /\ pc[h] = "reply" /\ loc[h].live
         /\ co' = [co EXCEPT ![q] = [phase |-> "bound", handle |-> n]]
      \/ pc[h] = "deleted" /\ loc[h].live /\ co' = [co EXCEPT ![q].phase = "gone"]
  BY <1>2, <1>3 DEF CreateVolumeResponse, DeleteVolumeResponse, Ok
<1>6. CASE UNCHANGED co
  BY <1>1, <1>6, ReturnOwn DEF Backend
<1>7. CASE /\ pc[h] = "reply" /\ loc[h].live
           /\ co' = [co EXCEPT ![q] = [phase |-> "bound", handle |-> n]]
  <2>1. co[q].phase = "wanted" /\ Kept(q)
    BY <1>1, <1>2, <1>7 DEF ServesOK, DeletePCs, Kept
  <2>2. OwnedBy(q, n, sub[n]) /\ ep[n] # None
    BY <1>1, <1>2, <1>3, <1>7, <2>1 DEF ServesOK, NamedPCs, PCs, DeletePCs
  <2>3. /\ co'[q].phase = "bound" /\ co'[q].handle = n
        /\ \A r \in Requests \ {q} : co'[r] = co[r]
    BY <1>1, <1>7 DEF TypeOK
  <2>4. CoKept
    BY <2>1, <2>3 DEF CoKept
  <2>5. RequestOK(w, q)'
    BY <1>1, <1>3, <1>4, <2>2, <2>3 DEF RequestOK, OwnedBy, Kept, Backend
  <2>. QED
    BY <1>1, <1>2, <1>7, <2>3, <2>4, <2>5, AnswerOwn
<1>8. CASE pc[h] = "deleted" /\ loc[h].live /\ co' = [co EXCEPT ![q].phase = "gone"]
  <2>1. co[q].phase \in {"deleting", "gone"}
    BY <1>1, <1>2, <1>8 DEF ServesOK, DeletePCs
  <2>2. /\ co'[q].phase = "gone" /\ co'[q].handle = co[q].handle
        /\ \A r \in Requests \ {q} : co'[r] = co[r]
    BY <1>1, <1>8 DEF TypeOK
  <2>3. CoKept
    BY <2>2 DEF CoKept
  <2>4. RequestOK(w, q)'
    <3>1. RequestOK(w, q) /\ (Kept(q)' <=> Kept(q))
      BY <2>1, <2>2 DEF Own, Kept
    <3>. QED
      BY <1>1, <2>1, <2>2, <3>1 DEF RequestOK, OwnedBy, Backend
  <2>. QED
    BY <1>1, <1>2, <1>8, <2>2, <2>3, <2>4, AnswerOwn
<1>. QED
  BY <1>5, <1>6, <1>7, <1>8

-----------------------------------------------------------------------------
(* OwnInv under the steps of DeleteVolume.                                 *)

LEMMA DeletionOwn ==
  ASSUME BaseInv, TypeOK', NEW w \in Worlds, SoleClaimant(w), Own(w), NEW h \in Handlers,
         UNCHANGED profile,
         \/ lookupDeletionVolume(h) \/ VerifyOwnership(h) \/ FindEndpoint(h) \/ DeleteEndpoint(h)
         \/ DeleteSubvolume(h)
  PROVE  Own(w)'
<1>1. /\ HandlerOK(h, pc[h], loc[h], sub, mu) /\ TypeOK /\ loc[h] \in LocalType
      /\ pc[h] \in DeletePCs \ {"deleted"} /\ UNCHANGED co /\ ServesOK(w, pc[h], loc[h])
  BY DEF BaseInv, HandlersOK, TypeOK, lookupDeletionVolume, VerifyOwnership, FindEndpoint,
         DeleteEndpoint, DeleteSubvolume, DeletePCs, Fail, Own
<1>2. /\ ~loc[h].created /\ loc[h].name \in Names /\ loc[h].req \in Requests
      /\ Claim(w, loc[h].req, loc[h].name) /\ ~loc[h].exposed
      /\ co[loc[h].req].phase \in {"deleting", "gone"} /\ loc[h].name = co[loc[h].req].handle
  BY <1>1 DEF HandlerOK, HoldingPCs, NamedPCs, PCs, DeletePCs, ServesOK
<1>. DEFINE RemovingPCs == {"findEndpoint", "deleteEndpoint", "deleteSub"}
<1>3. pc[h] \in RemovingPCs => ~Kept(loc[h].req)
  BY <1>1 DEF ServesOK
<1>4. ASSUME NEW p \in DeletePCs, p \in RemovingPCs => ~Kept(loc[h].req)
      PROVE  ServesOK(w, p, loc[h])
  BY <1>2, <1>4 DEF ServesOK, DeletePCs
<1>5. CASE Fail(h)
  BY <1>5, FailOwn
<1>6. ASSUME Return(h), UNCHANGED Backend PROVE Own(w)'
  BY <1>1, <1>6, ReturnOwn DEF Backend
<1>7. ASSUME NEW p \in DeletePCs, p \in RemovingPCs => ~Kept(loc[h].req), Move(h, p),
             UNCHANGED Backend
      PROVE  Own(w)'
  BY <1>1, <1>4, <1>7, MoveOwn DEF Backend
<1>8. CASE lookupDeletionVolume(h) /\ ~Fail(h)
  <2>1. /\ UNCHANGED Backend
        /\ \/ Move(h, "deleted") \/ Return(h)
           \/ Goto(h, "own") /\ loc' = [loc EXCEPT ![h].seen = Subvol(h)]
    BY <1>8 DEF lookupDeletionVolume
  <2>2. CASE Goto(h, "own") /\ loc' = [loc EXCEPT ![h].seen = Subvol(h)]
    <3>. DEFINE l == [loc[h] EXCEPT !.seen = Subvol(h)]
    <3>1. loc' = [loc EXCEPT ![h] = l]
      BY <1>1, <2>2 DEF TypeOK
    <3>2. /\ l.name = loc[h].name /\ l.req = loc[h].req /\ l.live = loc[h].live
          /\ l.created = loc[h].created /\ l.exposed = loc[h].exposed
      BY <1>1 DEF LocalType
    <3>. HIDE DEF l
    <3>3. ServesOK(w, "own", l)
      BY <1>2, <3>2 DEF ServesOK, DeletePCs
    <3>4. pc' = [pc EXCEPT ![h] = "own"] /\ UNCHANGED <<profile, sub, ep, co>>
      BY <1>1, <2>1, <2>2 DEF Goto, Backend
    <3>5. /\ l.live => loc[h].live /\ l.req = loc[h].req
          /\ l.created => loc[h].created /\ l.name = loc[h].name
      BY <3>2
    <3>. QED
      BY <3>1, <3>3, <3>4, <3>5, OwnQuiet
  <2>. QED
    BY <1>6, <1>7, <2>1, <2>2 DEF DeletePCs
<1>9. CASE VerifyOwnership(h) /\ ~Fail(h)
  <2>1. /\ UNCHANGED Backend
        /\ \/ Move(h, "deleted") \/ Return(h)
           \/ Move(h, "findEndpoint") /\ Subvol(h) # None /\ Subvol(h).strategy # "retain"
    BY <1>9 DEF VerifyOwnership
  <2>2. Subvol(h).strategy # "retain" => ~Kept(loc[h].req)
    BY <1>2 DEF Own, RequestOK, OwnedBy, Kept, Subvol
  <2>. QED
    BY <1>6, <1>7, <2>1, <2>2 DEF DeletePCs
<1>10. CASE FindEndpoint(h) /\ ~Fail(h)
  <2>1. /\ UNCHANGED Backend /\ pc[h] \in RemovingPCs
        /\ Move(h, "deleteSub") \/ Move(h, "deleteEndpoint")
    BY <1>10 DEF FindEndpoint
  <2>. QED
    BY <1>3, <1>7, <2>1 DEF DeletePCs
<1>11. CASE DeleteEndpoint(h) /\ ~Fail(h)
  <2>1. /\ UNCHANGED sub /\ ep' = [ep EXCEPT ![loc[h].name] = None]
        /\ Return(h) \/ Move(h, "deleteSub")
        /\ pc[h] \in RemovingPCs
    BY <1>11 DEF DeleteEndpoint
  <2>2. EpKept(w)
    <3>1. \A n \in Names \ {loc[h].name} : ep'[n] = ep[n]
      BY <1>1, <2>1 DEF TypeOK
    <3>2. \A r \in Requests : Claim(w, r, loc[h].name) => ~Kept(r)
      BY <1>2, <1>3, <2>1 DEF SoleClaimant
    <3>. QED
      BY <3>1, <3>2 DEF EpKept
  <2>3. SubKept(w) /\ CoKept
    BY <1>1, <2>1, UnchangedKept
  <2>4. PICK p, l : /\ pc' = [pc EXCEPT ![h] = p] /\ loc' = [loc EXCEPT ![h] = l]
                    /\ \/ p = "deleteSub" /\ l = loc[h]
                       \/ p = "idle" /\ l = NoLocals
    <3>1. CASE Move(h, "deleteSub")
      <4>1. loc' = [loc EXCEPT ![h] = loc[h]]
        BY <1>1, <3>1 DEF Move, TypeOK
      <4>. QED
        BY <3>1, <4>1 DEF Move, Goto
    <3>2. CASE Return(h)
      BY <3>2 DEF Return, Goto
    <3>. QED
      BY <2>1, <3>1, <3>2
  <2>5. p = "idle" \/ ServesOK(w, p, l)'
    <3>. SUFFICES ASSUME p = "deleteSub", l = loc[h] PROVE ServesOK(w, p, l)'
      BY <2>4
    <3>1. ServesOK(w, p, l)
      BY <1>3, <1>4, <2>1 DEF DeletePCs
    <3>. QED
      BY <1>1, <1>2, <2>2, <2>3, <3>1, ServesFrame
  <2>6. /\ l.live => loc[h].live /\ l.req = loc[h].req
        /\ l.created => loc[h].created /\ l.name = loc[h].name
    BY <2>4 DEF NoLocals
  <2>7. ASSUME NEW g \in Handlers, g # h, loc[g].live, l.live PROVE loc[g].req # l.req
    BY <2>6, <2>7 DEF Own, OneLive
  <2>8. \A g \in Handlers \ {h} : loc[g].live =>
           co'[loc[g].req] = co[loc[g].req] /\ (l.live => loc[g].req # l.req)
    BY <1>1, <2>2, <2>7
  <2>9. l.created => \/ loc[h].created /\ l.name = loc[h].name
                     \/ sub'[l.name] = None \/ sub'[l.name].strategy # "retain"
    BY <2>6
  <2>10. \A r \in Requests : co'[r] = co[r] \/ RequestOK(w, r)'
    BY <1>1, <2>2
  <2>11. pc' = [pc EXCEPT ![h] = p] /\ loc' = [loc EXCEPT ![h] = l]
    BY <2>4
  <2>. QED
    BY <1>1, <2>2, <2>3, <2>5, <2>8, <2>9, <2>10, <2>11, OwnStep
<1>12. CASE DeleteSubvolume(h) /\ ~Fail(h)
  <2>1. /\ pc[h] = "deleteSub"
        /\ \/ Write(loc[h].name, None) /\ (Move(h, "deleted") \/ Return(h)) /\ UNCHANGED ep
           \/ Return(h) /\ UNCHANGED Backend
           \/ UNCHANGED <<pc, loc, Backend>>
    BY <1>12, Zenon DEF DeleteSubvolume
  <2>2. CASE Return(h) /\ UNCHANGED Backend
    BY <1>6, <2>2
  <2>3. CASE UNCHANGED <<pc, loc, Backend>>
    <3>1. Move(h, pc[h])
      BY <1>1, <2>3 DEF Move, Goto, TypeOK
    <3>. QED
      BY <1>1, <1>3, <1>7, <2>3, <3>1
  <2>4. CASE Write(loc[h].name, None) /\ (Move(h, "deleted") \/ Return(h)) /\ UNCHANGED ep
    <3>1. SubKept(w)
      BY <1>2, <1>3, <2>1, <2>4, WriteKept DEF Write
    <3>2. CASE Return(h)
      BY <1>1, <2>4, <3>1, <3>2, WriteReturnOwn
    <3>3. CASE Move(h, "deleted")
      <4>1. PICK p, l : p = "deleted" /\ l = loc[h]
        OBVIOUS
      <4>2. loc' = [loc EXCEPT ![h] = l] /\ pc' = [pc EXCEPT ![h] = p]
        BY <1>1, <3>3, <4>1 DEF Move, Goto, TypeOK
      <4>3. ServesOK(w, p, l)
        BY <1>4, <4>1 DEF DeletePCs
      <4>4. EpKept(w) /\ CoKept
        BY <1>1, <2>4, UnchangedKept
      <4>5. ServesOK(w, p, l)'
        BY <1>1, <1>2, <3>1, <4>1, <4>3, <4>4, ServesFrame
      <4>. QED
        BY <1>1, <2>4, <3>1, <4>1, <4>2, <4>5, OwnWrite
    <3>. QED
      BY <2>4, <3>2, <3>3
  <2>. QED
    BY <2>1, <2>2, <2>3, <2>4
<1>. QED
  BY <1>5, <1>8, <1>9, <1>10, <1>11, <1>12

-----------------------------------------------------------------------------
(* OwnInv under the calls, the cancellations and the crashes.              *)

LEMMA RequestOwn ==
  ASSUME BaseInv, TypeOK', NEW w \in Worlds, Own(w), NEW h \in Handlers, NEW r \in Requests,
         CreateVolume(h, r) \/ DeleteVolume(h, r)
  PROVE  Own(w)'
<1>1. TypeOK /\ ~Serving(r) /\ UNCHANGED <<profile, sub, ep>> /\ RequestOK(w, r)
  BY DEF BaseInv, CreateVolume, DeleteVolume, Backend, Own
<1>2. \A g \in Handlers : loc[g].live => loc[g].req # r
  BY <1>1 DEF Serving
<1>3. SubKept(w) /\ EpKept(w)
  BY <1>1, UnchangedKept
<1>4. CASE CreateVolume(h, r)
  <2>1. PICK l : l = Locals(r)
    OBVIOUS
  <2>2. l.req = r /\ ~l.created /\ ~l.exposed
    BY <1>1, <2>1, LocalsTyped
  <2>3. /\ pc' = [pc EXCEPT ![h] = "findName"] /\ loc' = [loc EXCEPT ![h] = l]
        /\ UNCHANGED co /\ co[r].phase = "wanted"
    BY <1>4, <2>1 DEF CreateVolume, Goto
  <2>4. ServesOK(w, "findName", l)'
    BY <2>2, <2>3 DEF ServesOK, NamedPCs, DeletePCs
  <2>5. CoKept
    BY <2>3, UnchangedKept
  <2>. QED
    BY <1>1, <1>2, <1>3, <2>2, <2>3, <2>4, <2>5, OwnStep
<1>5. CASE DeleteVolume(h, r)
  <2>1. PICK l : l = [Locals(r) EXCEPT !.name = co[r].handle]
    OBVIOUS
  <2>2. l.req = r /\ ~l.created /\ ~l.exposed /\ l.name = co[r].handle
    BY <1>1, <2>1, LocalsTyped DEF LocalType
  <2>3. /\ pc' = [pc EXCEPT ![h] = "lookup"] /\ loc' = [loc EXCEPT ![h] = l]
        /\ co[r].phase \in {"bound", "deleting"} /\ co' = [co EXCEPT ![r].phase = "deleting"]
    BY <1>5, <2>1 DEF DeleteVolume, Goto
  <2>4. /\ co'[r].phase = "deleting" /\ co'[r].handle = co[r].handle
        /\ \A q \in Requests \ {r} : co'[q] = co[q]
    BY <1>1, <2>3 DEF TypeOK
  <2>5. CoKept
    BY <2>4 DEF CoKept
  <2>6. Claim(w, r, co[r].handle)
    BY <1>1, <2>3 DEF RequestOK
  <2>7. ServesOK(w, "lookup", l)'
    BY <2>2, <2>4, <2>6 DEF ServesOK, DeletePCs
  <2>8. RequestOK(w, r)'
    <3>1. Kept(r)' => Kept(r)
      BY <1>1, <2>5, KeptBefore
    <3>2. Kept(r) => OwnedBy(r, co[r].handle, sub[co[r].handle]) /\ ep[co[r].handle] # None
      BY <1>1, <2>3 DEF RequestOK
    <3>3. ~Kept(r)' => sub[co[r].handle] = None \/ sub[co[r].handle].strategy # "retain"
      BY <1>1, <2>3, <3>2 DEF RequestOK, OwnedBy, Kept
    <3>. QED
      BY <1>1, <2>3, <2>4, <3>1, <3>2, <3>3 DEF RequestOK, OwnedBy
  <2>9. ASSUME NEW g \in Handlers, g # h, loc[g].live
        PROVE  co'[loc[g].req] = co[loc[g].req]
    <3>1. loc[g].req \in Requests
      BY <2>9 DEF BaseInv, HandlersOK, HandlerOK, NoLocals
    <3>. QED
      BY <1>2, <2>4, <2>9, <3>1
  <2>10. \A q \in Requests : co'[q] = co[q] \/ RequestOK(w, q)'
    BY <2>4, <2>8
  <2>11. pc' = [pc EXCEPT ![h] = "lookup"] /\ loc' = [loc EXCEPT ![h] = l]
    BY <2>3
  <2>12. \A g \in Handlers \ {h} : loc[g].live =>
            co'[loc[g].req] = co[loc[g].req] /\ (l.live => loc[g].req # l.req)
    BY <1>2, <2>2, <2>9
  <2>. QED
    BY <1>1, <1>3, <2>2, <2>5, <2>7, <2>10, <2>11, <2>12, OwnStep
<1>. QED
  BY <1>4, <1>5

LEMMA CancelOwn ==
  ASSUME BaseInv, TypeOK', NEW w \in Worlds, Own(w), NEW h \in Handlers, Cancel(h)
  PROVE  Own(w)'
<1>1. /\ TypeOK /\ loc[h] \in LocalType /\ ServesOK(w, pc[h], loc[h])
      /\ UNCHANGED <<profile, sub, ep, pc, co>>
  BY DEF BaseInv, Cancel, Backend, TypeOK, Own
<1>. DEFINE l == [loc[h] EXCEPT !.live = FALSE]
<1>2. /\ l.name = loc[h].name /\ l.req = loc[h].req /\ l.seen = loc[h].seen /\ ~l.live
      /\ l.created = loc[h].created /\ l.exposed = loc[h].exposed
  BY <1>1 DEF LocalType
<1>3. loc' = [loc EXCEPT ![h] = l] /\ pc' = [pc EXCEPT ![h] = pc[h]]
  BY <1>1 DEF Cancel, TypeOK
<1>. HIDE DEF l
<1>4. ServesOK(w, pc[h], l)
  BY <1>1, <1>2 DEF ServesOK
<1>. QED
  BY <1>1, <1>2, <1>3, <1>4, OwnQuiet

LEMMA CrashOwn ==
  ASSUME NEW w \in Worlds, Own(w), Crash
  PROVE  Own(w)'
<1>1. /\ UNCHANGED <<profile, sub, ep, co>>
      /\ \A h \in Handlers : pc'[h] = "idle" /\ loc'[h] = NoLocals
  BY DEF Crash
<1>2. ~NoLocals.live /\ ~NoLocals.created
  BY DEF NoLocals
<1>3. OneLive' /\ NoRetainedHeld'
  BY <1>1, <1>2 DEF OneLive, NoRetainedHeld
<1>4. \A r \in Requests : RequestOK(w, r)'
  BY <1>1 DEF Own, RequestOK, OwnedBy, Kept
<1>. QED
  BY <1>1, <1>3, <1>4 DEF Own, Traceable

LEMMA OwnInvInit == Init => OwnInv
<1>. SUFFICES ASSUME Init PROVE OwnInv
  OBVIOUS
<1>1. PICK w \in Worlds : profile = w.profile /\ sub = w.subs
  BY DEF Init
<1>2. TypeOK
  BY BaseInvInit DEF BaseInv
<1>3. ASSUME NEW n \in Names, sub[n] # None PROVE Traceable(w, n, sub[n])
  <2>1. sub[n].request \in Requests \union {None}
    BY <1>2, <1>3 DEF TypeOK, SubType
  <2>. QED
    BY <1>1, <1>3, <2>1 DEF Traceable, Claim
<1>4. OneLive /\ NoRetainedHeld
  BY DEF Init, OneLive, NoRetainedHeld, NoLocals
<1>5. \A r \in Requests : RequestOK(w, r)
  BY DEF Init, RequestOK, Kept
<1>6. \A h \in Handlers : pc[h] = "idle"
  BY DEF Init
<1>. QED
  BY <1>1, <1>3, <1>4, <1>5, <1>6 DEF OwnInv, Own

LEMMA OwnInvStep ==
  ASSUME SoleClaimants
  PROVE  BaseInv /\ OwnInv /\ [Next]_vars => OwnInv'
<1>. SUFFICES ASSUME BaseInv, OwnInv, [Next]_vars PROVE OwnInv'
  OBVIOUS
<1>1. PICK w \in Worlds : Own(w) /\ SoleClaimant(w)
  BY DEF OwnInv, SoleClaimants
<1>2. TypeOK'
  BY BaseInvStep DEF BaseInv
<1>3. ASSUME NEW h \in Handlers, CreateStep(h) PROVE Own(w)'
  <2>1. UNCHANGED profile /\ Protocols = {"nfs", "smb", "iscsi", "nvmeof"}
    BY <1>3 DEF CreateStep, Protocols
  <2>. QED
    BY <1>1, <1>2, <1>3, <2>1, SearchOwn, ExistingOwn, SelectionOwn, CreateSubvolumeOwn,
       ValidateOwn, PersistOwn, VerifyOwn, RollbackOwn, EndpointOwn, ResponseOwn
    DEF CreateStep, adoptNFSVolume, adoptSMBVolume, adoptISCSIVolume, adoptNVMeOFVolume,
        handleExistingNFSSubvolume, handleExistingSMBSubvolume, handleExistingISCSISubvolume,
        handleExistingNVMeOFSubvolume, createNFSVolume, createSMBVolume, createISCSIVolume,
        createNVMeOFVolume, createNFSShareForSubvolume, createSMBShareForSubvolume,
        CreateBlockEndpoint
<1>4. ASSUME NEW h \in Handlers, DeleteStep(h) PROVE Own(w)'
  BY <1>1, <1>2, <1>4, DeletionOwn, ResponseOwn
  DEF DeleteStep, deleteNFSVolume, deleteSMBVolume, deleteISCSIVolume, deleteNVMeOFVolume, Deletion
<1>5. CASE UNCHANGED vars
  <2>1. UNCHANGED <<profile, sub, ep, pc, loc, co>>
    BY <1>5 DEF vars
  <2>2. OneLive' /\ NoRetainedHeld' /\ profile' = w.profile
    BY <1>1, <2>1 DEF Own, OneLive, NoRetainedHeld
  <2>3. \A h \in Handlers : pc'[h] # "idle" => ServesOK(w, pc[h], loc[h])'
    BY <1>1, <2>1 DEF Own, ServesOK, Kept, OwnedBy
  <2>4. \A r \in Requests : RequestOK(w, r)'
    BY <1>1, <2>1 DEF Own, RequestOK, Kept, OwnedBy
  <2>5. \A n \in Names : sub'[n] # None => Traceable(w, n, sub[n])'
    BY <1>1, <2>1 DEF Own, Traceable
  <2>. QED
    BY <1>1, <2>2, <2>3, <2>4, <2>5 DEF Own, OwnInv
<1>. QED
  BY <1>1, <1>2, <1>3, <1>4, <1>5, RequestOwn, CancelOwn, CrashOwn DEF Next, OwnInv

-----------------------------------------------------------------------------
(* Who removes a subvolume, and who changes its endpoint.                  *)

Removes(n) ==
    \E h \in Handlers : pc[h] \in {"rollbackDelete", "deleteSub"} /\ loc[h].name = n
Exposes(n) == \E h \in Handlers : pc[h] = "endpoint" /\ loc[h].name = n
Hides(n) == \E h \in Handlers : pc[h] = "deleteEndpoint" /\ loc[h].name = n

Touches(n) ==
    /\ sub[n] # None /\ sub'[n] = None => Removes(n)
    /\ \/ ep'[n] = ep[n]
       \/ ep'[n] # None /\ Exposes(n)
       \/ ep'[n] = None /\ Hides(n)

LEMMA CreateTouches ==
  ASSUME BaseInv, NEW h \in Handlers, CreateStep(h), NEW n \in Names
  PROVE  Touches(n)
<1>. DEFINE m == loc[h].name
<1>1. TypeOK /\ HandlerOK(h, pc[h], loc[h], sub, mu) /\ loc[h] \in LocalType
  BY DEF BaseInv, HandlersOK, TypeOK
<1>2. CASE UNCHANGED Backend
  BY <1>2 DEF Backend, Touches
<1>3. ASSUME NEW x \in SubType, m \in Names, sub' = [sub EXCEPT ![m] = x], UNCHANGED ep
      PROVE  Touches(n)
  BY <1>1, <1>3, NoneApart DEF TypeOK, Touches
<1>4. ASSUME NEW proto \in Protocols, CreateSubvolume(h, proto)
      PROVE  Touches(n)
  <2>1. m \in Names /\ BlankSubvolume(loc[h].cap) \in SubType
    BY <1>1, <1>4, BlankTyped DEF CreateSubvolume, HandlerOK, NamedPCs, PCs, LocalType
  <2>2. UNCHANGED Backend \/ (sub' = [sub EXCEPT ![m] = BlankSubvolume(loc[h].cap)] /\ UNCHANGED ep)
    BY <1>4, Zenon DEF CreateSubvolume, Write, Fail
  <2>. QED
    BY <1>2, <1>3, <2>1, <2>2
<1>5. CASE persistVolumeIdentity(h)
  <2>1. /\ pc[h] = "persist"
        /\ \/ UNCHANGED Backend
           \/ sub[m] # None /\ sub' = [sub EXCEPT ![m] = Identified(h, sub[m])] /\ UNCHANGED ep
    BY <1>5, Zenon DEF persistVolumeIdentity, Write
  <2>2. /\ loc[h].req \in Requests /\ m \in Names /\ loc[h].uuid \in UUIDs /\ ~loc[h].cloning
    BY <1>1, <2>1 DEF HandlerOK, NamedPCs, IdentityPCs, PCs
  <2>3. sub[m] # None => Identified(h, sub[m]) \in SubType
    BY <1>1, <2>2, IdentifiedOwned DEF TypeOK
  <2>. QED
    BY <1>2, <1>3, <2>1, <2>2, <2>3
<1>6. CASE rollbackCreatedSubvolume(h)
  <2>1. \/ UNCHANGED <<sub, ep>>
        \/ pc[h] = "rollbackDelete" /\ sub' = [sub EXCEPT ![m] = None] /\ UNCHANGED ep
    BY <1>6 DEF rollbackCreatedSubvolume, Write
  <2>. QED
    BY <1>1, <2>1 DEF Touches, Removes, TypeOK
<1>7. ASSUME NEW protos, CreateEndpoint(h, protos) PROVE Touches(n)
  <2>. DEFINE new == IF P(h).proto \in Share THEN loc[h].cap ELSE 0
  <2>1. new # None
    BY <1>1, NoneApart DEF LocalType
  <2>. HIDE DEF new
  <2>2. /\ pc[h] = "endpoint" /\ UNCHANGED sub
        /\ UNCHANGED ep \/ ep' = [ep EXCEPT ![m] = new]
    BY <1>7 DEF CreateEndpoint, new
  <2>. QED
    BY <1>1, <2>1, <2>2 DEF Touches, Exposes, TypeOK
<1>8. \/ UNCHANGED <<sub, ep>>
      \/ \E proto \in Protocols : CreateSubvolume(h, proto)
      \/ persistVolumeIdentity(h) \/ rollbackCreatedSubvolume(h)
      \/ \E protos : CreateEndpoint(h, protos)
  BY Zenon
  DEF CreateStep, Backend, Protocols, Fail, checkAndAdoptVolume, findSubvolumeByPVCIdentity,
      adoptNFSVolume, adoptSMBVolume, adoptISCSIVolume, adoptNVMeOFVolume, AdoptFindsEndpoint,
      selectExistingCreateSubvolume, HandleExistingShare, HandleExistingBlock,
      handleExistingNFSSubvolume, handleExistingSMBSubvolume, handleExistingISCSISubvolume,
      handleExistingNVMeOFSubvolume, getOrCreateSubvolume, createNFSVolume, createSMBVolume,
      createISCSIVolume, createNVMeOFVolume, validateInitializedBlockFilesystem,
      verifyIdentityWrite, createNFSShareForSubvolume, createSMBShareForSubvolume,
      CreateBlockEndpoint, CreateVolumeResponse
<1>9. CASE UNCHANGED <<sub, ep>>
  BY <1>9 DEF Touches
<1>. QED
  BY <1>4, <1>5, <1>6, <1>7, <1>8, <1>9

LEMMA DeleteTouches ==
  ASSUME BaseInv, NEW h \in Handlers, DeleteStep(h), NEW n \in Names
  PROVE  Touches(n)
<1>. DEFINE m == loc[h].name
<1>1. TypeOK
  BY DEF BaseInv
<1>2. CASE DeleteEndpoint(h) /\ ~Fail(h)
  <2>1. pc[h] = "deleteEndpoint" /\ UNCHANGED sub /\ ep' = [ep EXCEPT ![m] = None]
    BY <1>2 DEF DeleteEndpoint
  <2>. QED
    BY <1>1, <2>1 DEF Touches, Hides, TypeOK
<1>3. CASE DeleteSubvolume(h) /\ ~Fail(h)
  <2>1. /\ pc[h] = "deleteSub" /\ UNCHANGED ep
        /\ UNCHANGED sub \/ sub' = [sub EXCEPT ![m] = None]
    BY <1>3, Zenon DEF DeleteSubvolume, Write, Backend
  <2>. QED
    BY <1>1, <2>1 DEF Touches, Removes, TypeOK
<1>4. CASE UNCHANGED Backend
  BY <1>4 DEF Touches, Backend
<1>5. UNCHANGED Backend \/ DeleteEndpoint(h) \/ DeleteSubvolume(h)
  BY DEF DeleteStep, Fail, lookupDeletionVolume, deleteNFSVolume, deleteSMBVolume,
      deleteISCSIVolume, deleteNVMeOFVolume, Deletion, VerifyOwnership, FindEndpoint,
      DeleteVolumeResponse
<1>6. Fail(h) => UNCHANGED Backend
  BY DEF Fail
<1>. QED
  BY <1>2, <1>3, <1>4, <1>5, <1>6

LEMMA StepTouches ==
  ASSUME BaseInv, [Next]_vars, NEW n \in Names
  PROVE  Touches(n)
<1>1. \/ UNCHANGED <<sub, ep>> \/ \E h \in Handlers : CreateStep(h) \/ DeleteStep(h)
  BY DEF Next, vars, CreateVolume, DeleteVolume, Cancel, Crash, Backend
<1>2. CASE UNCHANGED <<sub, ep>>
  BY <1>2 DEF Touches
<1>. QED
  BY <1>1, <1>2, CreateTouches, DeleteTouches

-----------------------------------------------------------------------------
(* A rollback, however late and however stale what its handler knows,      *)
(* never removes a subvolume with a complete identity, whatever the        *)
(* requests and the backend: only DeleteVolume does.                       *)
RollbackKeepsIdentified ==
    [][\A n \in Names : sub[n] # None /\ sub'[n] = None =>
          \/ ~hasCompleteV2Identity(n, sub[n])
          \/ \E h \in Handlers : pc[h] = "deleteSub" /\ loc[h].name = n]_vars

(* The read and the removal of rollbackCreatedSubvolume are under one      *)
(* identityMu with every identity write, which is all it takes: no         *)
(* assumption on who claims what.                                          *)
THEOREM ProvisioningRollbackKeepsIdentified == Spec => RollbackKeepsIdentified
<1>1. ASSUME BaseInv, [Next]_vars, NEW n \in Names, sub[n] # None, sub'[n] = None
      PROVE  \/ ~hasCompleteV2Identity(n, sub[n])
             \/ \E h \in Handlers : pc[h] = "deleteSub" /\ loc[h].name = n
  <2>1. PICK h \in Handlers : pc[h] \in {"rollbackDelete", "deleteSub"} /\ loc[h].name = n
    BY <1>1, StepTouches DEF Touches, Removes
  <2>. QED
    BY <1>1, <2>1 DEF BaseInv, HandlersOK, HandlerOK
<1>2. BaseInv /\ [Next]_vars =>
        [\A n \in Names : sub[n] # None /\ sub'[n] = None =>
            \/ ~hasCompleteV2Identity(n, sub[n])
            \/ \E h \in Handlers : pc[h] = "deleteSub" /\ loc[h].name = n]_vars
  BY <1>1
<1>. QED
  BY <1>2, BaseInvInit, BaseInvStep, PTL DEF Spec, RollbackKeepsIdentified

(* A volume the CO was given exists, is recorded as that request's and is  *)
(* exposed until the CO asks for its deletion.                             *)
THEOREM ProvisioningBoundVolumeUsable == SoleClaimants => (Spec => []BoundVolumeUsable)
<1>. SUFFICES ASSUME SoleClaimants PROVE Spec => []BoundVolumeUsable
  OBVIOUS
<1>1. OwnInv => BoundVolumeUsable
  <2>. SUFFICES ASSUME OwnInv, NEW r \in Requests, co[r].phase = "bound"
                PROVE  OwnedBy(r, co[r].handle, sub[co[r].handle]) /\ ep[co[r].handle] # None
    BY DEF BoundVolumeUsable, OwnedBy
  <2>. QED
    BY DEF OwnInv, Own, RequestOK, Kept
<1>2. Init => BaseInv /\ OwnInv
  BY BaseInvInit, OwnInvInit
<1>3. BaseInv /\ OwnInv /\ [Next]_vars => BaseInv' /\ OwnInv'
  BY BaseInvStep, OwnInvStep
<1>. QED
  BY <1>1, <1>2, <1>3, PTL DEF Spec

(* Whoever creates an endpoint, the subvolume under it records that        *)
(* request at that moment, until the CO has asked for its deletion.        *)
THEOREM ProvisioningExposedAfterOwned == SoleClaimants => (Spec => ExposedAfterOwned)
<1>. SUFFICES ASSUME SoleClaimants PROVE Spec => ExposedAfterOwned
  OBVIOUS
<1>. DEFINE A == \A n \in Names : ep[n] = None /\ ep'[n] # None =>
                   \E h \in Handlers :
                      /\ pc[h] = "endpoint" /\ loc[h].name = n
                      /\ \/ hasCompleteV2Identity(n, sub[n]) /\ sub[n].request = loc[h].req
                         \/ co[loc[h].req].phase \in {"deleting", "gone"}
<1>1. BaseInv /\ OwnInv /\ [Next]_vars => [A]_vars
  <2>. SUFFICES ASSUME BaseInv, OwnInv, [Next]_vars, NEW n \in Names, ep[n] = None, ep'[n] # None
                PROVE  \E h \in Handlers :
                          /\ pc[h] = "endpoint" /\ loc[h].name = n
                          /\ \/ hasCompleteV2Identity(n, sub[n]) /\ sub[n].request = loc[h].req
                             \/ co[loc[h].req].phase \in {"deleting", "gone"}
    OBVIOUS
  <2>1. PICK h \in Handlers : pc[h] = "endpoint" /\ loc[h].name = n
    BY StepTouches DEF Touches, Exposes
  <2>2. PICK w \in Worlds : Own(w)
    BY DEF OwnInv
  <2>3. loc[h].req \in Requests /\ co[loc[h].req].phase \in {"wanted", "bound", "deleting", "gone"}
    BY <2>1 DEF BaseInv, HandlersOK, HandlerOK, TypeOK
  <2>4. Kept(loc[h].req) => OwnedBy(loc[h].req, n, sub[n])
    BY <2>1, <2>2 DEF Own, ServesOK, NamedPCs, PCs, DeletePCs
  <2>. QED
    BY <2>1, <2>3, <2>4 DEF Kept, OwnedBy
<1>2. Init => BaseInv /\ OwnInv
  BY BaseInvInit, OwnInvInit
<1>3. BaseInv /\ OwnInv /\ [Next]_vars => BaseInv' /\ OwnInv'
  BY BaseInvStep, OwnInvStep
<1>. QED
  BY <1>1, <1>2, <1>3, PTL DEF Spec, ExposedAfterOwned

(* Storage with a complete identity is removed only by DeleteVolume for    *)
(* the request it records.                                                 *)
THEOREM ProvisioningRemovedByOwner == SoleClaimants => (Spec => OwnedStorageRemovedByOwner)
<1>. SUFFICES ASSUME SoleClaimants PROVE Spec => OwnedStorageRemovedByOwner
  OBVIOUS
<1>. DEFINE A == \A n \in Names : sub[n] # None /\ sub'[n] = None =>
                   \/ ~hasCompleteV2Identity(n, sub[n])
                   \/ \E h \in Handlers : pc[h] = "deleteSub" /\ loc[h].name = n
                                          /\ sub[n].request = loc[h].req
<1>1. BaseInv /\ OwnInv /\ [Next]_vars => [A]_vars
  <2>. SUFFICES ASSUME BaseInv, OwnInv, [Next]_vars, NEW n \in Names, sub[n] # None,
                       sub'[n] = None, hasCompleteV2Identity(n, sub[n])
                PROVE  \E h \in Handlers : pc[h] = "deleteSub" /\ loc[h].name = n
                                           /\ sub[n].request = loc[h].req
    OBVIOUS
  <2>1. PICK h \in Handlers : pc[h] \in {"rollbackDelete", "deleteSub"} /\ loc[h].name = n
    BY StepTouches DEF Touches, Removes
  <2>2. pc[h] = "deleteSub" /\ loc[h].req \in Requests
    BY <2>1 DEF BaseInv, HandlersOK, HandlerOK
  <2>3. PICK w \in Worlds : Own(w) /\ SoleClaimant(w)
    BY DEF OwnInv, SoleClaimants
  <2>4. Claim(w, loc[h].req, n)
    BY <2>1, <2>2, <2>3 DEF Own, ServesOK, NamedPCs, PCs
  <2>5. sub[n].request \in Requests /\ Claim(w, sub[n].request, n)
    BY <2>3 DEF Own, Traceable, hasCompleteV2Identity, V2, BaseInv, TypeOK, SubType
  <2>. QED
    BY <2>1, <2>2, <2>3, <2>4, <2>5 DEF SoleClaimant
<1>2. Init => BaseInv /\ OwnInv
  BY BaseInvInit, OwnInvInit
<1>3. BaseInv /\ OwnInv /\ [Next]_vars => BaseInv' /\ OwnInv'
  BY BaseInvStep, OwnInvStep
<1>. QED
  BY <1>1, <1>2, <1>3, PTL DEF Spec, OwnedStorageRemovedByOwner

(* A volume with deleteStrategy=retain is neither removed nor hidden.      *)
THEOREM ProvisioningRetainedIsKept == SoleClaimants => (Spec => RetainedIsKept)
<1>. SUFFICES ASSUME SoleClaimants PROVE Spec => RetainedIsKept
  OBVIOUS
<1>. DEFINE A == \A n \in Names : sub[n] # None /\ sub[n].strategy = "retain" =>
                   sub'[n] # None /\ (ep[n] # None => ep'[n] # None)
<1>1. BaseInv /\ OwnInv /\ [Next]_vars => [A]_vars
  <2>. SUFFICES ASSUME BaseInv, OwnInv, [Next]_vars, NEW n \in Names, sub[n] # None,
                       sub[n].strategy = "retain"
                PROVE  ~Removes(n) /\ ~Hides(n)
    BY StepTouches DEF Touches
  <2>1. PICK w \in Worlds : Own(w)
    BY DEF OwnInv
  <2>2. ASSUME NEW h \in Handlers, pc[h] \in {"deleteEndpoint", "deleteSub"}, loc[h].name = n
        PROVE  FALSE
    <3>1. ~Kept(loc[h].req) /\ n = co[loc[h].req].handle /\ loc[h].req \in Requests
      BY <2>1, <2>2 DEF Own, ServesOK, DeletePCs, BaseInv, HandlersOK, HandlerOK
    <3>. QED
      BY <2>1, <3>1 DEF Own, RequestOK
  <2>3. ASSUME NEW h \in Handlers, pc[h] = "rollbackDelete", loc[h].name = n
        PROVE  FALSE
    <3>1. loc[h].created /\ ~hasCompleteV2Identity(n, sub[n])
      BY <2>3 DEF BaseInv, HandlersOK, HandlerOK
    <3>. QED
      BY <2>1, <2>3, <3>1 DEF Own, NoRetainedHeld
  <2>. QED
    BY <2>2, <2>3 DEF Removes, Hides
<1>2. Init => BaseInv /\ OwnInv
  BY BaseInvInit, OwnInvInit
<1>3. BaseInv /\ OwnInv /\ [Next]_vars => BaseInv' /\ OwnInv'
  BY BaseInvStep, OwnInvStep
<1>. QED
  BY <1>1, <1>2, <1>3, PTL DEF Spec, RetainedIsKept

-----------------------------------------------------------------------------
(* VolumeCloning.  What has a counterpart above has its name with a C.     *)

NamelessPCs == {"idle", "findName", "findPVC", "select", "selectLegacy", "source", "sourceRead",
                "cloneSelect", "cloneSelectLegacy"}
CIdentityPCs == {"adoptList", "list", "getOrCreate", "create", "validate", "persist", "verify",
                "rollback", "rollbackDelete", "clone", "capacity", "resize", "cloneRead"}

(* Where a handler may be that still prepares a clone, and where it is     *)
(* once there is one; where one that serves a clone never comes.           *)
PreparePCs == ClonePCs \union {"persist", "verify", "rollback", "rollbackDelete"}
ClonedPCs == {"capacity", "resize", "cloneRead", "persist", "verify", "rollback", "rollbackDelete"}
SearchPCs == {"findName", "findPVC", "adoptList", "create"}

(* The one subvolume that the attempts of a request with a content source  *)
(* settle on.                                                              *)
Home(w, r) ==
    LET p == w.profile[r]
    IN  IF w.subs[p.backend] = None /\ w.subs[p.legacy] # None /\ Claim(w, r, p.legacy)
        THEN p.legacy ELSE p.backend

OriginOf(w, r) == [kind |-> w.content[r].kind, of |-> w.content[r].of]

(* The identity of r at n is complete.                                     *)
COwnedBy(r, n, s) == s # None /\ hasCompleteV2Identity(n, s) /\ s.request = r

Open(r) == co[r].phase \in {"wanted", "bound"}
FromOrigin(w, r) == sub[Home(w, r)] # None => from[Home(w, r)] = OriginOf(w, r)
Done(w, r) == COwnedBy(r, Home(w, r), sub[Home(w, r)]) /\ from[Home(w, r)] = OriginOf(w, r)
Exposed(w, r) == ep[Home(w, r)] # None

(* A handler h at p with the locals l.                                     *)
CHandlerOK(w, h, p, l) ==
    /\ p = "idle" => l = NoLocals
    /\ p # "idle" => l.req \in Requests
    /\ p \notin NamelessPCs => l.name \in Names /\ Claim(w, l.req, l.name)
    /\ p \in CIdentityPCs => l.uuid \in UUIDs
    /\ p \in SeenPCs => l.seen # None
    /\ p \in ClonePCs => l.cloning
    /\ l.cloning => p \in PreparePCs /\ w.content[l.req] # None
    /\ p \in {"verify", "rollbackDelete"} => mu = h
    /\ p \in {"rollback", "rollbackDelete"} => l.created
    /\ p = "rollbackDelete" => ~COwnedBy(l.req, l.name, sub[l.name])
    /\ p \in DeletePCs => ~Open(l.req) /\ l.uuid = None
    /\ p \notin DeletePCs \union {"idle"} =>
          Wanted(w, l.req) /\ (l.live => co[l.req].phase = "wanted")

(* One that serves a request with a content source.                        *)
CloneOK(w, p, l) ==
    /\ p \notin SearchPCs
    /\ p \notin NamelessPCs => l.name = Home(w, l.req)
    /\ p = "cloneSelectLegacy" => w.subs[w.profile[l.req].backend] = None
    /\ p = "selectLegacy" => Home(w, l.req) = w.profile[l.req].legacy
    /\ l.cloning /\ p \in ClonedPCs => FromOrigin(w, l.req)
    /\ l.created => l.cloning /\ w.subs[Home(w, l.req)] = None
    /\ Open(l.req) =>
          /\ ~l.cloning => Done(w, l.req)
          /\ p \in {"persist", "verify"} /\ COwnedBy(l.req, l.name, l.seen) => Done(w, l.req)
          /\ l.exposed \/ p = "reply" => Exposed(w, l.req)
    /\ p = "reply" => ~l.cloning

Serves(w, p, l) == p \notin DeletePCs \union {"idle"} /\ w.content[l.req] # None => CloneOK(w, p, l)

CRequestOK(w, r) ==
    /\ co[r].phase = "wanted" => Wanted(w, r)
    /\ co[r].phase \in {"bound", "deleting"} => co[r].handle \in Names /\ Claim(w, r, co[r].handle)

CloneRequestOK(w, r) ==
    /\ co[r].phase = "bound" => co[r].handle = Home(w, r) /\ Done(w, r) /\ Exposed(w, r)
    /\ Open(r) /\ w.subs[Home(w, r)] # None => sub[Home(w, r)] # None
    /\ \A n \in Names :
          Claim(w, r, n) /\ n # Home(w, r) /\ w.subs[n] = None => sub[n] = None

(* Something has the UUID u and, with it, the name m.                      *)
Tagged(u, m) ==
    \/ Records(sub, u, m) \/ Records(snap, u, m)
    \/ \E h \in Handlers : loc[h].uuid = u /\ loc[h].name = m

OneName == \A u \in UUIDs : \A m, n \in Names \union {None} : Tagged(u, m) /\ Tagged(u, n) => m = n

Inv(w) ==
    /\ profile = w.profile /\ content = w.content
    /\ \A n \in Names : sub[n] # None => Clear(w, n, sub[n])
    /\ \A n \in Names : snap[n] # None => Clear(w, n, snap[n])
    /\ \A h \in Handlers : CHandlerOK(w, h, pc[h], loc[h]) /\ Serves(w, pc[h], loc[h])
    /\ OneLive
    /\ \A r \in Requests : CRequestOK(w, r) /\ (w.content[r] # None => CloneRequestOK(w, r))

CloneInv == CTypeOK /\ OneName /\ \E w \in Worlds : Inv(w)

CInv(w) == CTypeOK /\ OneName /\ Inv(w)

-----------------------------------------------------------------------------
(* Lemmas about the operators the model is built from.                     *)

LEMMA CNoneApart ==
  /\ \A x \in Handlers \union Requests \union Names \union UUIDs \union Nat : x # None
  /\ \A x \in Protocols \union Strategies : x # None
  /\ \A s \in SubType : s # None
  /\ \A c \in ContentType \union OriginType : c # None
  BY NoneAssumption, NoContentAssumption

LEMMA CFaultsTyped ==
  ASSUME CTypeOK, NEW h \in Handlers, Ok(h) \/ Err(h) \/ Lost \/ Fault \/ UNCHANGED faults
  PROVE  faults' \in 0 .. MaxFaults
  BY MaxFaultsAssumption DEF CTypeOK, Ok, Err, Lost, Fault

LEMMA CNoLocalsTyped ==
  /\ NoLocals \in LocalType /\ NoLocals.uuid = None /\ NoLocals.live = FALSE
  /\ NoLocals.cloning = FALSE /\ NoLocals.created = FALSE
  BY DEF NoLocals, LocalType

LEMMA CLocalsTyped ==
  ASSUME CTypeOK, NEW r \in Requests
  PROVE  /\ Locals(r) \in LocalType
         /\ Locals(r).req = r /\ Locals(r).name = None /\ Locals(r).seen = None
         /\ Locals(r).uuid = None /\ Locals(r).created = FALSE /\ Locals(r).cloning = FALSE
         /\ Locals(r).exposed = FALSE /\ Locals(r).live = TRUE
<1>1. profile[r].cap \in Nat
  BY DEF CTypeOK, ProfileType
<1>. QED
  BY <1>1 DEF Locals, NoLocals, LocalType

LEMMA CBlankTyped ==
  ASSUME NEW k \in Nat
  PROVE  /\ BlankSubvolume(k) \in SubType /\ BlankSubvolume(k).managed = FALSE
         /\ BlankSubvolume(k).csi = None /\ BlankSubvolume(k).uuid = None
         /\ BlankSubvolume(k).pvc = 0 /\ BlankSubvolume(k).request = None
  BY DEF BlankSubvolume, SubType

(* What SetSubvolumeProperties leaves is complete and records the request. *)
LEMMA CIdentifiedOwned ==
  ASSUME CTypeOK, NEW h \in Handlers, loc[h].req \in Requests, loc[h].name \in Names,
         loc[h].uuid \in UUIDs, NEW s \in SubType
  PROVE  /\ Identified(h, s) \in SubType
         /\ COwnedBy(loc[h].req, loc[h].name, Identified(h, s))
         /\ Identified(h, s).csi = loc[h].name /\ Identified(h, s).uuid = loc[h].uuid
         /\ Identified(h, s).pvc \in {s.pvc, P(h).pvc}
<1>1. /\ P(h) \in ProfileType /\ loc[h].cap \in Nat
      /\ loc[h].req # None /\ loc[h].uuid # None
  BY CNoneApart DEF CTypeOK, P, LocalType
<1>2. /\ P(h).proto \in Protocols /\ P(h).pvc \in Nat /\ P(h).strategy \in Strategies
      /\ P(h).markAdoptable \in BOOLEAN /\ P(h).proto # None
  BY <1>1, CNoneApart DEF ProfileType
<1>. DEFINE own == [s EXCEPT !.managed = TRUE, !.request = loc[h].req, !.uuid = loc[h].uuid,
                             !.csi = loc[h].name, !.proto = P(h).proto, !.cap = loc[h].cap]
            all == [own EXCEPT !.pvc = IF P(h).pvc = 0 THEN @ ELSE P(h).pvc,
                               !.adoptable = @ \/ P(h).markAdoptable, !.strategy = P(h).strategy]
<1>3. own \in SubType
  BY <1>1, <1>2 DEF SubType, CTypeOK, LocalType
<1>4. /\ own.managed /\ own.request = loc[h].req /\ own.uuid = loc[h].uuid
      /\ own.csi = loc[h].name /\ own.proto = P(h).proto /\ own.pvc = s.pvc
  BY DEF SubType
<1>. HIDE DEF own
<1>5. all \in SubType
  <2>. DEFINE pvc == IF P(h).pvc = 0 THEN own.pvc ELSE P(h).pvc
              flag == own.adoptable \/ P(h).markAdoptable
  <2>1. pvc \in Nat
    BY <1>2, <1>3 DEF SubType
  <2>2. flag \in BOOLEAN
    BY Zenon
  <2>3. all = [own EXCEPT !.pvc = pvc, !.adoptable = flag, !.strategy = P(h).strategy]
    BY <1>3 DEF SubType
  <2>. HIDE DEF pvc, flag, all
  <2>. QED
    BY <1>2, <1>3, <2>1, <2>2, <2>3, ZenonT(60) DEF SubType
<1>6. /\ all.managed /\ all.request = loc[h].req /\ all.uuid = loc[h].uuid
      /\ all.csi = loc[h].name /\ all.proto = P(h).proto /\ all.pvc \in {s.pvc, P(h).pvc}
  BY <1>3, <1>4 DEF SubType
<1>7. Identified(h, s) = IF loc[h].cloning THEN own ELSE all
  BY DEF Identified, own
<1>. HIDE DEF all
<1>. DEFINE x == Identified(h, s)
<1>8. /\ x \in SubType /\ x.managed /\ x.request = loc[h].req /\ x.uuid = loc[h].uuid
      /\ x.csi = loc[h].name /\ x.proto = P(h).proto /\ x.pvc \in {s.pvc, P(h).pvc}
  BY <1>3, <1>4, <1>5, <1>6, <1>7, Zenon
<1>. HIDE DEF x
<1>9. COwnedBy(loc[h].req, loc[h].name, x)
  BY <1>1, <1>2, <1>8, CNoneApart DEF COwnedBy, hasCompleteV2Identity, V2
<1>. QED
  BY <1>8, <1>9 DEF x

(* A subvolume that has the intended properties is the request's own.      *)
LEMMA CContainsOwned ==
  ASSUME CTypeOK, NEW h \in Handlers, loc[h].req \in Requests, loc[h].name \in Names,
         loc[h].uuid \in UUIDs, NEW s \in SubType, propertiesContain(h, s)
  PROVE  COwnedBy(loc[h].req, loc[h].name, s)
<1>1. Identified(h, s) = s
  BY DEF propertiesContain
<1>2. COwnedBy(loc[h].req, loc[h].name, Identified(h, s))
  BY CIdentifiedOwned
<1>. QED
  BY <1>1, <1>2

(* A resized subvolume is the same in every other respect.                 *)
LEMMA ResizedSame ==
  ASSUME NEW s \in SubType, NEW k \in Nat
  PROVE  LET x == [s EXCEPT !.size = k]
         IN  /\ x \in SubType /\ x.managed = s.managed /\ x.request = s.request
             /\ x.uuid = s.uuid /\ x.csi = s.csi /\ x.proto = s.proto /\ x.pvc = s.pvc
  BY DEF SubType

LEMMA RoundUpTyped ==
  ASSUME NEW k \in Nat
  PROVE  RoundUp(k) \in Nat
<1>. DEFINE m == k + Granule - 1
            d == m \div Granule
<1>1. m \in Nat /\ Granule \in Nat \ {0}
  BY GranuleAssumption
<1>. HIDE DEF m
<1>2. d \in Nat
  BY <1>1, SMTT(30)
<1>3. RoundUp(k) = d * Granule
  BY DEF RoundUp, m
<1>. HIDE DEF d
<1>. QED
  BY <1>1, <1>2, <1>3

LEMMA WorldTyped ==
  ASSUME NEW w \in Worlds
  PROVE  /\ w.profile \in [Requests -> ProfileType] /\ w.subs \in [Names -> SubType \union {None}]
         /\ w.content \in [Requests -> ContentType \union {None}]
         /\ w.snaps \in [Names -> SubType \union {None}]
         /\ w.from \in [Names -> OriginType \union {None}]
         /\ w.bound \in [Requests -> Names \union {None, "gone"}]
  BY WorldsAssumption, ContentAssumption

LEMMA HomeClaimed ==
  ASSUME NEW w \in Worlds, NEW r \in Requests
  PROVE  Home(w, r) \in Names /\ Claim(w, r, Home(w, r))
<1>1. w.profile[r].backend \in Names /\ w.profile[r].legacy \in Names
  BY WorldTyped DEF ProfileType
<1>2. Claim(w, r, w.profile[r].backend)
  BY DEF Claim
<1>. QED
  BY <1>1, <1>2 DEF Home

LEMMA HomeChoice ==
  ASSUME NEW w \in Worlds, NEW r \in Requests, NEW b, b = w.profile[r].backend,
         NEW l, l = w.profile[r].legacy
  PROVE  /\ Home(w, r) \in {b, l} /\ Claim(w, r, b)
         /\ w.subs[b] # None => Home(w, r) = b
         /\ Home(w, r) # b => w.subs[b] = None /\ w.subs[l] # None
         /\ w.subs[b] = None /\ w.subs[l] # None /\ Claim(w, r, l) => Home(w, r) = l
<1>1. Claim(w, r, b)
  BY DEF Claim
<1>2. \/ Home(w, r) = l /\ w.subs[b] = None /\ w.subs[l] # None
      \/ Home(w, r) = b /\ ~(w.subs[b] = None /\ w.subs[l] # None /\ Claim(w, r, l))
  BY DEF Home
<1>. QED
  BY <1>1, <1>2, Zenon

(* Only its home can hold what was not there at first.                     *)
LEMMA OnlyHome ==
  ASSUME NEW w \in Worlds, NEW r \in Requests, CloneRequestOK(w, r), NEW n \in Names,
         Claim(w, r, n), sub[n] # None, w.subs[n] = None
  PROVE  n = Home(w, r)
  BY DEF CloneRequestOK

LEMMA OneClaimant ==
  ASSUME NEW w \in Worlds, Settled(w), NEW r \in Requests, NEW q \in Requests, NEW n \in Names,
         Claim(w, r, n), Claim(w, q, n)
  PROVE  r = q
  BY DEF Settled, SoleClaimant

-----------------------------------------------------------------------------
(* What a step of the handler h, which goes to p with the locals l, has to *)
(* show.                                                                   *)

FromKept ==
    /\ from' \in [Names -> OriginType \union {None}]
    /\ \A n \in Names : sub[n] # None /\ sub'[n] # None => from'[n] = from[n]

CloneKept(w, r) ==
    /\ Open(r) /\ Done(w, r) => Done(w, r)'
    /\ FromOrigin(w, r) => FromOrigin(w, r)'
    /\ Open(r) /\ w.subs[Home(w, r)] # None /\ sub[Home(w, r)] # None => sub'[Home(w, r)] # None
    /\ \A n \in Names :
          Claim(w, r, n) /\ n # Home(w, r) /\ w.subs[n] = None /\ sub[n] = None => sub'[n] = None

(* What is at n may be written there.                                      *)
Written(w, n, s) ==
    /\ s \in SubType \union {None}
    /\ s # None => Clear(w, n, s) /\ (s.uuid # None => Tagged(s.uuid, s.csi))

CSubKept(w, h) ==
    /\ sub' \in [Names -> SubType \union {None}] /\ FromKept
    /\ \A n \in Names : Written(w, n, sub'[n])
    /\ \A r \in Requests : w.content[r] # None => CloneKept(w, r)
    /\ \/ mu \in {None, h}
       \/ \A r \in Requests, n \in Names :
             Wanted(w, r) /\ COwnedBy(r, n, sub'[n]) => COwnedBy(r, n, sub[n])

CEpKept(w) ==
    /\ ep' \in [Names -> Nat \union {None}]
    /\ \A r \in Requests : w.content[r] # None /\ Open(r) /\ Exposed(w, r) => Exposed(w, r)'

CCoKept ==
    /\ co' \in [Requests -> [phase : {"wanted", "bound", "deleting", "gone"},
                             handle : Names \union {None}]]
    /\ \A r \in Requests : ~Open(r) => ~Open(r)'

TagOK(l) == l.uuid = None \/ Tagged(l.uuid, l.name) \/ \A m \in Names \union {None} : ~Tagged(l.uuid, m)

MuKept(h) == mu' \in Handlers \union {None} /\ (mu' = mu \/ mu \in {None, h})

(* A handler that does nothing is as it was.                               *)
LEMMA HandlerFrame ==
  ASSUME NEW w \in Worlds, NEW h \in Handlers, NEW g \in Handlers \ {h}, NEW p, NEW l,
         CHandlerOK(w, g, p, l), CSubKept(w, h), CCoKept, MuKept(h),
         p # "idle" /\ l.live => co'[l.req] = co[l.req]
  PROVE  CHandlerOK(w, g, p, l)'
<1>1. p # "idle" => l.req \in Requests
  BY DEF CHandlerOK
<1>2. ASSUME p \in {"verify", "rollbackDelete"} PROVE mu' = g /\ mu = g
  BY <1>2, CNoneApart DEF CHandlerOK, MuKept
<1>3. ASSUME p = "rollbackDelete" PROVE ~COwnedBy(l.req, l.name, sub'[l.name])
  <2>1. mu \notin {None, h} /\ l.name \in Names /\ Wanted(w, l.req) /\ l.req \in Requests
    BY <1>2, <1>3, CNoneApart DEF CHandlerOK, NamelessPCs, DeletePCs
  <2>2. ~COwnedBy(l.req, l.name, sub[l.name])
    BY <1>3 DEF CHandlerOK
  <2>. QED
    BY <2>1, <2>2 DEF CSubKept
<1>4. p \in DeletePCs => ~Open(l.req)' /\ l.uuid = None
  BY <1>1 DEF CHandlerOK, CCoKept, DeletePCs
<1>5. p \notin DeletePCs \union {"idle"} => Wanted(w, l.req) /\ (l.live => co'[l.req].phase = "wanted")
  BY DEF CHandlerOK
<1>6. \A r, n, s : COwnedBy(r, n, s)' <=> COwnedBy(r, n, s)
  BY DEF COwnedBy, hasCompleteV2Identity, V2
<1>. QED
  BY <1>1, <1>2, <1>3, <1>4, <1>5 DEF CHandlerOK, COwnedBy, hasCompleteV2Identity, V2

LEMMA CServesFrame ==
  ASSUME NEW w \in Worlds, NEW h \in Handlers, NEW p, NEW l, l.req \in Requests,
         Serves(w, p, l), CSubKept(w, h), CEpKept(w), CCoKept
  PROVE  Serves(w, p, l)'
<1>. SUFFICES ASSUME p \notin DeletePCs \union {"idle"}, w.content[l.req] # None
              PROVE  CloneOK(w, p, l)'
  BY DEF Serves
<1>1. CloneOK(w, p, l)
  BY DEF Serves
<1>2. CloneKept(w, l.req) /\ (Open(l.req) /\ Exposed(w, l.req) => Exposed(w, l.req)')
  BY DEF CSubKept, CEpKept
<1>3. Open(l.req)' => Open(l.req)
  BY DEF CCoKept
<1>. QED
  BY <1>1, <1>2, <1>3 DEF CloneOK, CloneKept, COwnedBy, hasCompleteV2Identity, V2

LEMMA TagStep ==
  ASSUME CTypeOK, OneName, NEW w \in Worlds, NEW h \in Handlers, NEW l, CSubKept(w, h),
         loc' = [loc EXCEPT ![h] = l], TagOK(l),
         \A n \in Names : snap'[n] \in {snap[n], None}
  PROVE  OneName'
<1>1. /\ loc'[h] = l /\ \A g \in Handlers \ {h} : loc'[g] = loc[g]
  BY DEF CTypeOK
<1>2. ASSUME NEW u \in UUIDs, NEW m \in Names \union {None}, Tagged(u, m)'
      PROVE  Tagged(u, m) \/ (u = l.uuid /\ m = l.name)
  <2>1. CASE Records(sub, u, m)'
    BY <2>1, CNoneApart DEF Records, CSubKept, Written
  <2>2. CASE Records(snap, u, m)'
    BY <2>2 DEF Records, Tagged
  <2>3. CASE \E g \in Handlers : loc'[g].uuid = u /\ loc'[g].name = m
    BY <1>1, <2>3 DEF Tagged
  <2>. QED
    BY <1>2, <2>1, <2>2, <2>3 DEF Tagged
<1>. QED
  BY <1>2, CNoneApart DEF OneName, TagOK

LEMMA Step ==
  ASSUME NEW w \in Worlds, CInv(w), NEW h \in Handlers, NEW p \in PCs \union ClonePCs,
         NEW l \in LocalType,
         UNCHANGED <<profile, content>>, snap' \in [Names -> SubType \union {None}],
         \A n \in Names : snap'[n] \in {snap[n], None},
         CSubKept(w, h), CEpKept(w), CCoKept, MuKept(h), faults' \in 0 .. MaxFaults,
         cl' \in [Handlers -> CloneLocalType],
         pc' = [pc EXCEPT ![h] = p], loc' = [loc EXCEPT ![h] = l],
         CHandlerOK(w, h, p, l)', Serves(w, p, l)', TagOK(l),
         \A g \in Handlers \ {h} : loc[g].live =>
            co'[loc[g].req] = co[loc[g].req] /\ (l.live => loc[g].req # l.req),
         \A r \in Requests : co'[r] = co[r] \/
            (CRequestOK(w, r)' /\ (w.content[r] # None => CloneRequestOK(w, r)'))
  PROVE  CInv(w)'
<1>1. CTypeOK /\ OneName /\ Inv(w)
  BY DEF CInv
<1>2. /\ pc'[h] = p /\ loc'[h] = l
      /\ \A g \in Handlers \ {h} : pc'[g] = pc[g] /\ loc'[g] = loc[g]
  BY <1>1 DEF CTypeOK
<1>3. CTypeOK'
  <2>1. pc' \in [Handlers -> PCs \union ClonePCs] /\ loc' \in [Handlers -> LocalType]
    BY <1>1 DEF CTypeOK
  <2>. QED
    BY <1>1, <2>1 DEF CTypeOK, CSubKept, FromKept, CEpKept, CCoKept, MuKept
<1>4. OneName'
  BY <1>1, TagStep
<1>5. ASSUME NEW g \in Handlers
      PROVE  (CHandlerOK(w, g, pc[g], loc[g]) /\ Serves(w, pc[g], loc[g]))'
  <2>0. PICK v, u : v = pc'[g] /\ u = loc'[g]
    OBVIOUS
  <2>1. CASE g = h
    <3>1. v = p /\ u = l
      BY <1>2, <2>0, <2>1
    <3>. QED
      BY <2>0, <2>1, <3>1 DEF CHandlerOK, Serves, CloneOK
  <2>2. CASE g # h
    <3>1. v = pc[g] /\ u = loc[g]
      BY <1>2, <2>0, <2>2
    <3>2. CHandlerOK(w, g, v, u) /\ Serves(w, v, u)
      BY <1>1, <3>1 DEF Inv
    <3>3. v # "idle" /\ u.live => co'[u.req] = co[u.req]
      BY <2>2, <3>1
    <3>4. CHandlerOK(w, g, v, u)'
      BY <2>2, <3>2, <3>3, HandlerFrame
    <3>5. Serves(w, v, u)'
      <4>1. CASE v = "idle"
        BY <4>1 DEF Serves
      <4>2. CASE v # "idle"
        <5>1. u.req \in Requests
          BY <3>2, <4>2 DEF CHandlerOK
        <5>. QED
          BY <3>2, <5>1, CServesFrame
      <4>. QED
        BY <4>1, <4>2
    <3>. QED
      BY <2>0, <3>4, <3>5 DEF CHandlerOK, Serves, CloneOK
  <2>. QED
    BY <2>1, <2>2
<1>6. OneLive'
  BY <1>1, <1>2 DEF Inv, OneLive
<1>7. ASSUME NEW r \in Requests
      PROVE  (CRequestOK(w, r) /\ (w.content[r] # None => CloneRequestOK(w, r)))'
  <2>1. CASE co'[r] = co[r]
    <3>1. CRequestOK(w, r) /\ (w.content[r] # None => CloneRequestOK(w, r))
      BY <1>1 DEF Inv
    <3>2. w.content[r] # None => CloneKept(w, r) /\ (Open(r) /\ Exposed(w, r) => Exposed(w, r)')
      BY DEF CSubKept, CEpKept
    <3>3. Open(r)' <=> Open(r)
      BY <2>1 DEF Open
    <3>4. CRequestOK(w, r)'
      BY <2>1, <3>1 DEF CRequestOK
    <3>5. ASSUME w.content[r] # None PROVE CloneRequestOK(w, r)'
      <4>1. co[r].phase = "bound" => Open(r)
        BY DEF Open
      <4>. QED
        BY <2>1, <3>1, <3>2, <3>3, <3>5, <4>1 DEF CloneRequestOK, CloneKept
    <3>. QED
      BY <3>4, <3>5
  <2>. QED
    BY <2>1
<1>8. /\ profile' = w.profile /\ content' = w.content
      /\ \A n \in Names : sub'[n] # None => Clear(w, n, sub'[n])
      /\ \A n \in Names : snap'[n] # None => Clear(w, n, snap'[n])
  BY <1>1 DEF Inv, CSubKept, Written
<1>9. Inv(w)'
  BY <1>5, <1>6, <1>7, <1>8 DEF Inv, Clear, V2
<1>. QED
  BY <1>3, <1>4, <1>9 DEF CInv

Fits(w, h, p, l) == CHandlerOK(w, h, p, l) /\ Serves(w, p, l) /\ TagOK(l)

(* What every step of a handler leaves alone or keeps in shape.            *)
Aside ==
    /\ UNCHANGED <<profile, content, snap>> /\ FromKept /\ faults' \in 0 .. MaxFaults
    /\ cl' \in [Handlers -> CloneLocalType]

LEMMA QuietKept ==
  ASSUME NEW w \in Worlds, CInv(w), NEW h \in Handlers
  PROVE  /\ UNCHANGED sub /\ FromKept => CSubKept(w, h)
         /\ UNCHANGED ep => CEpKept(w)
         /\ UNCHANGED co => CCoKept
         /\ UNCHANGED mu => MuKept(h)
<1>1. CTypeOK /\ Inv(w)
  BY DEF CInv
<1>2. ASSUME UNCHANGED sub, FromKept PROVE CSubKept(w, h)
  <2>1. \A n \in Names : Written(w, n, sub'[n])
    BY <1>1, <1>2 DEF CTypeOK, Inv, Written, Tagged, Records
  <2>2. ASSUME NEW r \in Requests PROVE CloneKept(w, r)
    <3>1. Home(w, r) \in Names
      BY HomeClaimed
    <3>2. sub[Home(w, r)] # None => from'[Home(w, r)] = from[Home(w, r)]
      BY <1>2, <3>1 DEF FromKept
    <3>. QED
      BY <1>2, <3>2 DEF CloneKept, Done, FromOrigin, COwnedBy, hasCompleteV2Identity, V2
  <2>. QED
    BY <1>1, <1>2, <2>1, <2>2 DEF CSubKept, CTypeOK
<1>. QED
  BY <1>1, <1>2 DEF CEpKept, CCoKept, MuKept, CTypeOK, Exposed, Open

(* A step that leaves the backend and the CO alone.                        *)
LEMMA CQuietStep ==
  ASSUME NEW w \in Worlds, CInv(w), NEW h \in Handlers, NEW p \in PCs \union ClonePCs,
         NEW l \in LocalType, Aside, UNCHANGED <<sub, ep, co>>, MuKept(h),
         pc' = [pc EXCEPT ![h] = p], loc' = [loc EXCEPT ![h] = l],
         CHandlerOK(w, h, p, l)', Serves(w, p, l), TagOK(l),
         l.live => loc[h].live /\ l.req = loc[h].req
  PROVE  CInv(w)'
<1>1. CSubKept(w, h) /\ CEpKept(w) /\ CCoKept
  BY QuietKept DEF Aside
<1>2. Serves(w, p, l)'
  <2>1. CASE p \in DeletePCs \union {"idle"} \/ w.content[l.req] = None
    BY <2>1 DEF Serves
  <2>2. CASE p \notin DeletePCs \union {"idle"} /\ w.content[l.req] # None
    <3>1. l.req \in Requests
      BY <2>2 DEF CHandlerOK
    <3>. QED
      BY <1>1, <3>1, CServesFrame
  <2>. QED
    BY <2>1, <2>2
<1>3. ASSUME NEW g \in Handlers, g # h, loc[g].live, l.live PROVE loc[g].req # l.req
  BY <1>3 DEF CInv, Inv, OneLive
<1>4. \A g \in Handlers \ {h} : loc[g].live =>
         co'[loc[g].req] = co[loc[g].req] /\ (l.live => loc[g].req # l.req)
  BY <1>3
<1>5. /\ UNCHANGED <<profile, content>> /\ snap' \in [Names -> SubType \union {None}]
      /\ \A n \in Names : snap'[n] \in {snap[n], None}
      /\ faults' \in 0 .. MaxFaults /\ cl' \in [Handlers -> CloneLocalType]
  BY DEF Aside, CInv, CTypeOK
<1>6. \A r \in Requests : co'[r] = co[r] \/
            (CRequestOK(w, r)' /\ (w.content[r] # None => CloneRequestOK(w, r)'))
  OBVIOUS
<1>. QED
  BY <1>1, <1>2, <1>4, <1>5, <1>6, Step

LEMMA Quiet ==
  ASSUME NEW w \in Worlds, CInv(w), NEW h \in Handlers, NEW p \in PCs \union ClonePCs,
         NEW l \in LocalType, Aside, UNCHANGED <<sub, ep, co, mu>>,
         pc' = [pc EXCEPT ![h] = p], loc' = [loc EXCEPT ![h] = l], Fits(w, h, p, l),
         l.live => loc[h].live /\ l.req = loc[h].req
  PROVE  CInv(w)'
<1>1. MuKept(h)
  BY QuietKept
<1>2. CHandlerOK(w, h, p, l)'
  BY DEF Fits, CHandlerOK, COwnedBy, hasCompleteV2Identity, V2, Open
<1>. QED
  BY <1>1, <1>2, CQuietStep DEF Fits

LEMMA CIdleOK ==
  ASSUME NEW w, NEW h
  PROVE  Fits(w, h, "idle", NoLocals) /\ CHandlerOK(w, h, "idle", NoLocals)'
  BY CNoLocalsTyped DEF Fits, CHandlerOK, Serves, TagOK, NamelessPCs, CIdentityPCs, SeenPCs, ClonePCs, DeletePCs

LEMMA ReturnKeeps ==
  ASSUME NEW w \in Worlds, CInv(w), NEW h \in Handlers, Return(h), Aside,
         UNCHANGED <<sub, ep, co>>, MuKept(h)
  PROVE  CInv(w)'
<1>1. "idle" \in PCs \union ClonePCs
  BY DEF PCs
<1>2. pc' = [pc EXCEPT ![h] = "idle"] /\ loc' = [loc EXCEPT ![h] = NoLocals]
  BY DEF Return, Goto
<1>3. CHandlerOK(w, h, "idle", NoLocals)' /\ Serves(w, "idle", NoLocals) /\ TagOK(NoLocals)
  BY CIdleOK DEF Fits
<1>. QED
  BY <1>1, <1>2, <1>3, CNoLocalsTyped, CQuietStep

LEMMA MoveKeeps ==
  ASSUME NEW w \in Worlds, CInv(w), NEW h \in Handlers, NEW p \in PCs \union ClonePCs, Move(h, p),
         Aside, UNCHANGED <<sub, ep, co>>, MuKept(h),
         CHandlerOK(w, h, p, loc[h])', Serves(w, p, loc[h])
  PROVE  CInv(w)'
<1>1. loc[h] \in LocalType /\ pc' = [pc EXCEPT ![h] = p] /\ loc' = [loc EXCEPT ![h] = loc[h]]
  BY DEF Move, Goto, CInv, CTypeOK
<1>2. TagOK(loc[h])
  BY DEF TagOK, Tagged
<1>3. PICK l \in LocalType : l = loc[h]
  BY <1>1
<1>4. CHandlerOK(w, h, p, l)'
  BY <1>1, <1>3 DEF CHandlerOK, Move
<1>. QED
  BY <1>1, <1>2, <1>3, <1>4, CQuietStep

-----------------------------------------------------------------------------
(* Plain provisioning, up to the identity write.                           *)

LEMMA PlainAside ==
  ASSUME CTypeOK, NEW h \in Handlers, Plain, UNCHANGED profile,
         Ok(h) \/ Err(h) \/ Lost \/ Fault \/ UNCHANGED faults
  PROVE  Aside
<1>1. faults' \in 0 .. MaxFaults
  BY CFaultsTyped
<1>2. NoClone \in CloneLocalType
  BY DEF NoClone, CloneLocalType
<1>3. cl' \in [Handlers -> CloneLocalType]
  BY <1>2 DEF Plain, CTypeOK
<1>4. FromKept
  BY DEF Plain, CTypeOK, FromKept
<1>. QED
  BY <1>1, <1>3, <1>4 DEF Aside, Plain

(* What is known of a handler that is at work.                             *)
LEMMA Here ==
  ASSUME NEW w \in Worlds, CInv(w), NEW h \in Handlers, pc[h] # "idle"
  PROVE  /\ CHandlerOK(w, h, pc[h], loc[h]) /\ Serves(w, pc[h], loc[h]) /\ CTypeOK /\ Inv(w)
         /\ loc[h] \in LocalType /\ loc[h].req \in Requests
         /\ P(h) = w.profile[loc[h].req] /\ P(h) \in ProfileType
         /\ P(h).backend \in Names /\ P(h).legacy \in Names
<1>1. CHandlerOK(w, h, pc[h], loc[h]) /\ Serves(w, pc[h], loc[h]) /\ CTypeOK /\ Inv(w)
  BY DEF CInv, Inv
<1>2. loc[h].req \in Requests /\ loc[h] \in LocalType
  BY <1>1 DEF CHandlerOK, CTypeOK
<1>3. P(h) = w.profile[loc[h].req] /\ P(h) \in ProfileType
  BY <1>1, <1>2 DEF P, Inv, CTypeOK
<1>. QED
  BY <1>1, <1>2, <1>3 DEF ProfileType

LEMMA FreshTag ==
  ASSUME NEW w \in Worlds, CInv(w), NEW h \in Handlers, NEW u \in UUIDs, newVolumeUUID(u),
         loc'[h].uuid = u, NewUUIDsUnused
  PROVE  \A m \in Names \union {None} : ~Tagged(u, m)
<1>1. u # None /\ u \notin RecordedUUIDs(sub) /\ u # loc[h].uuid
  BY CNoneApart DEF RecordedUUIDs, newVolumeUUID
<1>2. u \notin RecordedUUIDs(snap)
  BY <1>1 DEF NewUUIDsUnused
<1>. QED
  BY <1>1, <1>2 DEF Tagged, Records, RecordedUUIDs, newVolumeUUID

(* identityProperties, for the subvolume n.                                *)
LEMMA IdentityTag ==
  ASSUME NEW w \in Worlds, CInv(w), NEW h \in Handlers, NEW n \in Names, NEW u \in UUIDs,
         sub[n] # None, identityProperties(sub[n], u), sub[n].uuid # None => sub[n].csi = n,
         NEW l, l.uuid = u, l.name = n, loc'[h].uuid = u, NewUUIDsUnused
  PROVE  TagOK(l)
<1>1. CASE sub[n].uuid # None
  BY <1>1 DEF identityProperties, TagOK, Tagged, Records
<1>2. CASE sub[n].uuid = None
  BY <1>2, FreshTag DEF identityProperties, TagOK
<1>. QED
  BY <1>1, <1>2

CreatePCs == {"findName", "findPVC", "select", "selectLegacy", "getOrCreate", "create"}

LEMMA SelectKeeps ==
  ASSUME NEW w \in Worlds, CInv(w), NEW h \in Handlers, NEW n \in Names,
         NEW p \in {"adoptList", "list", "validate", "persist"}, Select(h, n, p),
         Plain, UNCHANGED <<profile, Backend, mu, co>>, Ok(h), pc[h] \in CreatePCs,
         sub[n] # None, Claim(w, loc[h].req, n), sub[n].uuid # None => sub[n].csi = n,
         w.content[loc[h].req] # None => p # "adoptList" /\ n = Home(w, loc[h].req)
  PROVE  CInv(w)'
<1>1. Aside
  BY PlainAside DEF CInv
<1>2. PICK u \in UUIDs : /\ identityProperties(sub[n], u)
                         /\ loc' = [loc EXCEPT ![h].name = n, ![h].seen = sub[n], ![h].uuid = u]
                         /\ Goto(h, p)
  BY DEF Select
<1>. DEFINE l == [loc[h] EXCEPT !.name = n, !.seen = sub[n], !.uuid = u]
<1>3. /\ CHandlerOK(w, h, pc[h], loc[h]) /\ Serves(w, pc[h], loc[h]) /\ CTypeOK
      /\ loc[h] \in LocalType /\ loc[h].req \in Requests
  BY Here DEF CreatePCs
<1>4. sub[n] \in SubType
  BY <1>3 DEF CTypeOK
<1>5. /\ l \in LocalType /\ l.name = n /\ l.seen = sub[n] /\ l.uuid = u /\ l.req = loc[h].req
      /\ l.created = loc[h].created /\ l.cloning = loc[h].cloning
      /\ l.exposed = loc[h].exposed /\ l.live = loc[h].live
  BY <1>3, <1>4 DEF LocalType
<1>6. pc' = [pc EXCEPT ![h] = p] /\ loc' = [loc EXCEPT ![h] = l]
  BY <1>2, <1>3 DEF Goto, CTypeOK
<1>. HIDE DEF l
<1>7. loc'[h].uuid = u
  BY <1>3, <1>5, <1>6 DEF CTypeOK
<1>8. TagOK(l)
  BY <1>2, <1>5, <1>7, IdentityTag DEF Plain
<1>9. ~loc[h].cloning
  BY <1>3 DEF CHandlerOK, CreatePCs, PreparePCs, ClonePCs
<1>10. CHandlerOK(w, h, p, l)
  BY <1>3, <1>4, <1>5, <1>9
     DEF CHandlerOK, CreatePCs, NamelessPCs, CIdentityPCs, SeenPCs, ClonePCs, DeletePCs
<1>11. Serves(w, p, l)
  BY <1>3, <1>5, <1>9 DEF Serves, CloneOK, CreatePCs, DeletePCs, SearchPCs, NamelessPCs, ClonedPCs
<1>12. p \in PCs \union ClonePCs /\ UNCHANGED <<sub, ep, co, mu>>
  BY DEF PCs, Backend
<1>. QED
  BY <1>1, <1>5, <1>6, <1>8, <1>10, <1>11, <1>12, Quiet DEF Fits

(* The ownership test leads a request only to what it may claim.           *)
LEMMA CDecisionClaims ==
  ASSUME NEW w \in Worlds, CInv(w), NEW r \in Requests, Wanted(w, r), NEW n \in Names,
         sub[n] # None, decideExistingVolumeIdentity(r, sub[n]),
         n \in {w.profile[r].backend, w.profile[r].legacy} \/ Claim(w, r, n)
  PROVE  Claim(w, r, n) /\ (sub[n].uuid # None => sub[n].csi = n)
<1>1. Clear(w, n, sub[n]) /\ profile = w.profile
  BY DEF CInv, Inv
<1>2. CASE V2(sub[n])
  <2>1. Mentions(w, r, sub[n])
    BY <1>2 DEF decideExistingVolumeIdentity, Mentions
  <2>. QED
    BY <1>1, <2>1 DEF Clear
<1>3. CASE ~V2(sub[n])
  <2>1. sub[n].uuid = None
    BY <1>1, <1>3 DEF Clear
  <2>2. profile[r].adoptExisting \/ Mentions(w, r, sub[n])
    BY <1>1, <1>3 DEF decideExistingVolumeIdentity, legacyPVCIdentityMatches, Mentions
  <2>3. CASE Mentions(w, r, sub[n])
    BY <1>1, <2>1, <2>3 DEF Clear
  <2>4. CASE profile[r].adoptExisting
    BY <1>1, <2>1, <2>4 DEF Claim
  <2>. QED
    BY <2>2, <2>3, <2>4
<1>. QED
  BY <1>2, <1>3

LEMMA TakeKeeps ==
  ASSUME NEW w \in Worlds, CInv(w), NEW h \in Handlers, NEW n \in Names,
         NEW p \in {"list", "validate", "persist"}, Take(h, n, p),
         Plain, UNCHANGED <<profile, Backend, mu, co>>, Ok(h), pc[h] \in CreatePCs, sub[n] # None,
         n \in {P(h).backend, P(h).legacy} \/ Claim(w, loc[h].req, n),
         w.content[loc[h].req] # None => n = Home(w, loc[h].req)
  PROVE  CInv(w)'
<1>1. /\ CHandlerOK(w, h, pc[h], loc[h]) /\ loc[h].req \in Requests /\ P(h) = w.profile[loc[h].req]
      /\ CTypeOK
  BY Here DEF CreatePCs
<1>2. Wanted(w, loc[h].req)
  BY <1>1 DEF CHandlerOK, CreatePCs, DeletePCs
<1>3. CASE decideExistingVolumeIdentity(loc[h].req, sub[n])
  <2>1. Claim(w, loc[h].req, n) /\ (sub[n].uuid # None => sub[n].csi = n)
    BY <1>1, <1>2, <1>3, CDecisionClaims
  <2>2. Select(h, n, p) /\ p \in {"adoptList", "list", "validate", "persist"} /\ p # "adoptList"
    BY <1>3 DEF Take
  <2>. QED
    BY <2>1, <2>2, SelectKeeps
<1>4. CASE ~decideExistingVolumeIdentity(loc[h].req, sub[n])
  <2>1. Return(h) /\ UNCHANGED <<sub, ep, co>> /\ Aside /\ MuKept(h)
    BY <1>1, <1>4, PlainAside, QuietKept DEF Take, Backend
  <2>. QED
    BY <2>1, ReturnKeeps
<1>. QED
  BY <1>3, <1>4

LEMMA FailKeeps ==
  ASSUME NEW w \in Worlds, CInv(w), NEW h \in Handlers, Fail(h), Plain, UNCHANGED profile
  PROVE  CInv(w)'
<1>1. CTypeOK /\ Err(h) /\ Return(h) /\ UNCHANGED <<sub, ep, co>> /\ MuKept(h)
  BY QuietKept DEF Fail, Backend, CInv
<1>. QED
  BY <1>1, PlainAside, ReturnKeeps

Outcome(h) == Ok(h) \/ Err(h) \/ Lost \/ Fault \/ UNCHANGED faults
Still == UNCHANGED <<profile, Backend, mu, co>>

LEMMA PlainReturn ==
  ASSUME NEW w \in Worlds, CInv(w), NEW h \in Handlers, Return(h), Plain, Still, Outcome(h)
  PROVE  CInv(w)'
<1>1. CTypeOK /\ UNCHANGED <<sub, ep, co>> /\ MuKept(h) /\ Aside
  BY QuietKept, PlainAside DEF Still, Backend, CInv, Outcome
<1>. QED
  BY <1>1, ReturnKeeps

LEMMA PlainMove ==
  ASSUME NEW w \in Worlds, CInv(w), NEW h \in Handlers, NEW p \in PCs \union ClonePCs,
         Move(h, p), Plain, Still, Outcome(h), CHandlerOK(w, h, p, loc[h]), Serves(w, p, loc[h])
  PROVE  CInv(w)'
<1>1. CTypeOK /\ UNCHANGED <<sub, ep, co>> /\ MuKept(h) /\ Aside
  BY QuietKept, PlainAside DEF Still, Backend, CInv, Outcome
<1>2. CHandlerOK(w, h, p, loc[h])'
  BY DEF Still, Backend, Move, CHandlerOK, COwnedBy, hasCompleteV2Identity, V2, Open
<1>. QED
  BY <1>1, <1>2, MoveKeeps

(* The endpoint was looked for.                                            *)
LEMMA PlainNote ==
  ASSUME NEW w \in Worlds, CInv(w), NEW h \in Handlers, pc[h] \in {"adoptList", "list"},
         NEW b \in BOOLEAN, b => ep[loc[h].name] # None,
         Goto(h, "persist"), loc' = [loc EXCEPT ![h].exposed = b], Plain, Still, Ok(h)
  PROVE  CInv(w)'
<1>1. CTypeOK /\ UNCHANGED <<sub, ep, co, mu>> /\ Aside
  BY QuietKept, PlainAside DEF Still, Backend, CInv
<1>2. CHandlerOK(w, h, pc[h], loc[h]) /\ Serves(w, pc[h], loc[h]) /\ loc[h] \in LocalType
  BY Here
<1>. DEFINE l == [loc[h] EXCEPT !.exposed = b]
<1>3. /\ l \in LocalType /\ l.name = loc[h].name /\ l.seen = loc[h].seen /\ l.uuid = loc[h].uuid
      /\ l.req = loc[h].req /\ l.created = loc[h].created /\ l.cloning = loc[h].cloning
      /\ l.exposed = b /\ l.live = loc[h].live
  BY <1>2 DEF LocalType
<1>4. pc' = [pc EXCEPT ![h] = "persist"] /\ loc' = [loc EXCEPT ![h] = l]
  BY <1>1 DEF Goto, CTypeOK
<1>. HIDE DEF l
<1>5. TagOK(l)
  BY <1>3 DEF TagOK, Tagged
<1>6. CHandlerOK(w, h, "persist", l)
  BY <1>2, <1>3 DEF CHandlerOK, NamelessPCs, CIdentityPCs, SeenPCs, ClonePCs, DeletePCs, PreparePCs
<1>7. ~l.cloning
  BY <1>2, <1>3 DEF CHandlerOK, PreparePCs, ClonePCs
<1>8. Serves(w, "persist", l)
  BY <1>2, <1>3, <1>7 DEF Serves, CloneOK, DeletePCs, SearchPCs, NamelessPCs, ClonedPCs, Exposed
<1>9. "persist" \in PCs \union ClonePCs
  BY DEF PCs
<1>. QED
  BY <1>1, <1>3, <1>4, <1>5, <1>6, <1>8, <1>9, Quiet DEF Fits

LEMMA AdoptionKeeps ==
  ASSUME NEW w \in Worlds, CInv(w), NEW h \in Handlers, pc[h] \in {"findName", "findPVC"},
         NEW n \in Names, sub[n] # None, Mentions(w, loc[h].req, sub[n]), Adoption(h, n),
         Plain, Still, Ok(h)
  PROVE  CInv(w)'
<1>1. /\ CHandlerOK(w, h, pc[h], loc[h]) /\ Serves(w, pc[h], loc[h]) /\ Inv(w)
      /\ loc[h].req \in Requests
  BY Here
<1>2. w.content[loc[h].req] = None /\ Wanted(w, loc[h].req)
  BY <1>1 DEF Serves, CloneOK, CHandlerOK, SearchPCs, DeletePCs
<1>3. Claim(w, loc[h].req, n) /\ (sub[n].uuid # None => sub[n].csi = n)
  BY <1>1, <1>2 DEF Inv, Clear
<1>4. CASE Move(h, "select")
  <2>1. CHandlerOK(w, h, "select", loc[h]) /\ Serves(w, "select", loc[h])
    BY <1>1, <1>2 DEF CHandlerOK, Serves, NamelessPCs, CIdentityPCs, SeenPCs, ClonePCs, DeletePCs, PreparePCs
  <2>2. "select" \in PCs \union ClonePCs
    BY DEF PCs
  <2>. QED
    BY <1>4, <2>1, <2>2, PlainMove DEF Outcome
<1>5. CASE Return(h)
  BY <1>5, PlainReturn DEF Outcome
<1>6. CASE Select(h, n, "adoptList")
  <2>1. pc[h] \in CreatePCs /\ UNCHANGED <<profile, Backend, mu, co>>
    BY DEF CreatePCs, Still
  <2>. QED
    BY <1>2, <1>3, <1>6, <2>1, SelectKeeps
<1>. QED
  BY <1>4, <1>5, <1>6 DEF Adoption

LEMMA SearchKeeps ==
  ASSUME NEW w \in Worlds, CInv(w), NEW h \in Handlers, Plain, UNCHANGED profile,
         checkAndAdoptVolume(h) \/ findSubvolumeByPVCIdentity(h)
  PROVE  CInv(w)'
<1>1. pc[h] \in {"findName", "findPVC"}
  BY DEF checkAndAdoptVolume, findSubvolumeByPVCIdentity
<1>2. /\ CHandlerOK(w, h, pc[h], loc[h]) /\ Serves(w, pc[h], loc[h]) /\ CTypeOK
      /\ loc[h].req \in Requests /\ P(h) = w.profile[loc[h].req] /\ P(h) \in ProfileType
  BY <1>1, Here
<1>3. w.content[loc[h].req] = None
  BY <1>1, <1>2 DEF Serves, CloneOK, SearchPCs, DeletePCs
<1>4. \A p \in {"findPVC", "select"} :
         CHandlerOK(w, h, p, loc[h]) /\ Serves(w, p, loc[h]) /\ p \in PCs \union ClonePCs
  BY <1>1, <1>2, <1>3
     DEF CHandlerOK, Serves, NamelessPCs, CIdentityPCs, SeenPCs, ClonePCs, DeletePCs, PreparePCs, PCs
<1>5. ASSUME NEW p \in {"findPVC", "select"}, Move(h, p), Still, Outcome(h)
      PROVE  CInv(w)'
  BY <1>4, <1>5, PlainMove
<1>6. CASE checkAndAdoptVolume(h)
  <2>1. Still
    BY <1>6 DEF checkAndAdoptVolume, Still
  <2>2. ASSUME NEW n \in Names, Ok(h), sub[n] # None, sub[n].csi # None, sub[n].csi = P(h).name,
               Adoption(h, n)
        PROVE  CInv(w)'
    <3>1. Mentions(w, loc[h].req, sub[n])
      BY <1>2, <2>2 DEF Mentions
    <3>. QED
      BY <1>1, <2>1, <2>2, <3>1, AdoptionKeeps
  <2>3. CASE (Ok(h) \/ Err(h)) /\ Move(h, "findPVC")
    BY <1>5, <2>1, <2>3 DEF Outcome
  <2>. QED
    BY <1>6, <2>2, <2>3 DEF checkAndAdoptVolume
<1>7. CASE findSubvolumeByPVCIdentity(h)
  <2>1. CASE P(h).pvc = 0 /\ Move(h, "select") /\ UNCHANGED <<Backend, mu, co, faults>>
    BY <1>5, <2>1 DEF Still, Outcome
  <2>2. CASE Ok(h) /\ Move(h, "select") /\ UNCHANGED <<Backend, mu, co>>
    BY <1>5, <2>2 DEF Still, Outcome
  <2>3. CASE Ok(h) /\ Return(h) /\ UNCHANGED <<Backend, mu, co>>
    BY <2>3, PlainReturn DEF Still, Outcome
  <2>4. ASSUME P(h).pvc # 0, Ok(h), NEW n \in PVCMatches(h), Adoption(h, n), UNCHANGED <<Backend, mu, co>>
        PROVE  CInv(w)'
    <3>1. n \in Names /\ sub[n] # None /\ Mentions(w, loc[h].req, sub[n])
      BY <1>2, <2>4 DEF PVCMatches, Mentions
    <3>2. Still
      BY <2>4 DEF Still
    <3>. QED
      BY <1>1, <2>4, <3>1, <3>2, AdoptionKeeps
  <2>5. CASE Fail(h)
    BY <2>5, FailKeeps
  <2>. QED
    BY <1>7, <2>1, <2>2, <2>3, <2>4, <2>5, Zenon DEF findSubvolumeByPVCIdentity
<1>. QED
  BY <1>6, <1>7

LEMMA ExistingKeeps ==
  ASSUME NEW w \in Worlds, CInv(w), NEW h \in Handlers, Plain, UNCHANGED profile, NEW x,
         AdoptFindsEndpoint(h, x) \/ HandleExistingShare(h, x) \/ HandleExistingBlock(h, x)
  PROVE  CInv(w)'
<1>1. pc[h] \in {"adoptList", "list"}
  BY DEF AdoptFindsEndpoint, HandleExistingShare, HandleExistingBlock
<1>2. CHandlerOK(w, h, pc[h], loc[h]) /\ Serves(w, pc[h], loc[h])
  BY <1>1, Here
<1>3. CASE Fail(h)
  BY <1>3, FailKeeps
<1>4. CASE Return(h) /\ UNCHANGED <<Backend, mu, co>> /\ (Ok(h) \/ UNCHANGED faults)
  BY <1>4, PlainReturn DEF Still, Outcome
<1>5. ASSUME NEW b \in BOOLEAN, b => ep[loc[h].name] # None, Goto(h, "persist"), Ok(h),
             loc' = [loc EXCEPT ![h].exposed = b], UNCHANGED <<Backend, mu, co>>
      PROVE  CInv(w)'
  <2>1. Still
    BY <1>5 DEF Still
  <2>. QED
    BY <1>1, <1>5, <2>1, PlainNote
<1>6. CASE Ok(h) /\ Move(h, "getOrCreate") /\ UNCHANGED <<Backend, mu, co>> /\ pc[h] = "list"
  <2>1. /\ CHandlerOK(w, h, "getOrCreate", loc[h]) /\ Serves(w, "getOrCreate", loc[h])
        /\ "getOrCreate" \in PCs \union ClonePCs
    BY <1>2, <1>6 DEF CHandlerOK, Serves, CloneOK, NamelessPCs, CIdentityPCs, SeenPCs, ClonePCs,
                      DeletePCs, PreparePCs, SearchPCs, ClonedPCs, PCs
  <2>. QED
    BY <1>6, <2>1, PlainMove DEF Still, Outcome
<1>7. (ep[loc[h].name] # None) \in BOOLEAN
  BY Zenon
<1>8. CASE AdoptFindsEndpoint(h, x)
  BY <1>3, <1>5, <1>7, <1>8, Zenon DEF AdoptFindsEndpoint
<1>9. CASE HandleExistingShare(h, x)
  BY <1>3, <1>4, <1>5, <1>7, <1>9, Zenon DEF HandleExistingShare
<1>10. CASE HandleExistingBlock(h, x)
  BY <1>3, <1>4, <1>5, <1>6, <1>10, Zenon DEF HandleExistingBlock
<1>. QED
  BY <1>8, <1>9, <1>10

LEMMA NewVolumeKeeps ==
  ASSUME NEW w \in Worlds, CInv(w), NEW h \in Handlers, pc[h] \in {"select", "selectLegacy"},
         NewVolume(h), Plain, Still, Ok(h), w.content[loc[h].req] = None
  PROVE  CInv(w)'
<1>1. CTypeOK /\ UNCHANGED <<sub, ep, co, mu>> /\ Aside
  BY QuietKept, PlainAside DEF Still, Backend, CInv
<1>2. /\ CHandlerOK(w, h, pc[h], loc[h]) /\ loc[h] \in LocalType /\ loc[h].req \in Requests
      /\ P(h) = w.profile[loc[h].req] /\ P(h).backend \in Names
  BY Here
<1>3. PICK u \in UUIDs :
        /\ newVolumeUUID(u)
        /\ loc' = [loc EXCEPT ![h].name = P(h).backend, ![h].seen = None, ![h].uuid = u]
        /\ Goto(h, IF P(h).proto = "nfs" THEN "create" ELSE "getOrCreate")
  BY DEF NewVolume
<1>. DEFINE l == [loc[h] EXCEPT !.name = P(h).backend, !.seen = None, !.uuid = u]
<1>4. /\ l \in LocalType /\ l.name = P(h).backend /\ l.seen = None /\ l.uuid = u
      /\ l.req = loc[h].req /\ l.created = loc[h].created /\ l.cloning = loc[h].cloning
      /\ l.live = loc[h].live
  BY <1>2 DEF LocalType
<1>5. PICK p \in {"create", "getOrCreate"} : pc' = [pc EXCEPT ![h] = p]
  BY <1>3 DEF Goto
<1>6. loc' = [loc EXCEPT ![h] = l]
  BY <1>1, <1>3 DEF CTypeOK
<1>. HIDE DEF l
<1>7. loc'[h].uuid = u
  BY <1>1, <1>4, <1>6 DEF CTypeOK
<1>8. TagOK(l)
  BY <1>3, <1>4, <1>7, FreshTag DEF TagOK, Plain
<1>9. Claim(w, l.req, l.name)
  BY <1>2, <1>4 DEF Claim
<1>10. CHandlerOK(w, h, p, l)
  BY <1>2, <1>4, <1>9
     DEF CHandlerOK, NamelessPCs, CIdentityPCs, SeenPCs, ClonePCs, DeletePCs, PreparePCs
<1>11. Serves(w, p, l) /\ p \in PCs \union ClonePCs
  BY <1>4 DEF Serves, PCs
<1>. QED
  BY <1>1, <1>4, <1>5, <1>6, <1>8, <1>10, <1>11, Quiet DEF Fits

(* A request whose clone is done is served by it alone.                    *)
LEMMA LiveDone ==
  ASSUME NEW w \in Worlds, CInv(w), NEW h \in Handlers, loc[h].live, pc[h] # "idle",
         pc[h] \notin DeletePCs, w.content[loc[h].req] # None, ~loc[h].cloning
  PROVE  /\ sub[Home(w, loc[h].req)] # None /\ Done(w, loc[h].req) /\ Open(loc[h].req)
         /\ CloneRequestOK(w, loc[h].req)
<1>1. CHandlerOK(w, h, pc[h], loc[h]) /\ Serves(w, pc[h], loc[h]) /\ Inv(w) /\ loc[h].req \in Requests
  BY Here
<1>2. Open(loc[h].req)
  BY <1>1 DEF CHandlerOK, Open
<1>3. Done(w, loc[h].req)
  BY <1>1, <1>2 DEF Serves, CloneOK
<1>. QED
  BY <1>1, <1>2, <1>3 DEF Done, COwnedBy, Inv

LEMMA SelectionKeeps ==
  ASSUME NEW w \in Worlds, CInv(w), NEW h \in Handlers, Plain, UNCHANGED profile,
         selectExistingCreateSubvolume(h)
  PROVE  CInv(w)'
<1>1. pc[h] \in {"select", "selectLegacy"}
  BY DEF selectExistingCreateSubvolume, NewVolume
<1>2. /\ CHandlerOK(w, h, pc[h], loc[h]) /\ Serves(w, pc[h], loc[h]) /\ CTypeOK /\ Inv(w)
      /\ loc[h].req \in Requests /\ P(h) = w.profile[loc[h].req]
      /\ P(h).backend \in Names /\ P(h).legacy \in Names
  BY <1>1, Here
<1>3. ~loc[h].cloning
  BY <1>1, <1>2 DEF CHandlerOK, PreparePCs, ClonePCs
<1>4. CASE Fail(h)
  BY <1>4, FailKeeps
<1>. SUFFICES ASSUME ~Fail(h) PROVE CInv(w)'
  BY <1>4
<1>5. Ok(h) /\ Still /\ loc[h].live /\ Outcome(h)
  BY DEF selectExistingCreateSubvolume, Ok, Still, Outcome
<1>. DEFINE r == loc[h].req
<1>6. w.content[r] # None => /\ sub[Home(w, r)] # None /\ Open(r) /\ CloneRequestOK(w, r)
  BY <1>1, <1>3, <1>5, LiveDone DEF DeletePCs
<1>7. Claim(w, r, P(h).backend)
  BY <1>2 DEF Claim
<1>8. ASSUME pc[h] = "select", sub[P(h).backend] # None
      PROVE  CInv(w)'
  <2>1. Take(h, P(h).backend, "list")
    BY <1>8 DEF selectExistingCreateSubvolume
  <2>2. w.content[r] # None => P(h).backend = Home(w, r)
    <3>. SUFFICES ASSUME w.content[r] # None, Home(w, r) # P(h).backend PROVE FALSE
      BY Zenon
    <3>1. w.subs[P(h).backend] = None
      BY <1>2, HomeChoice
    <3>. QED
      BY <1>2, <1>6, <1>7, <1>8, <3>1, OnlyHome
  <2>3. pc[h] \in CreatePCs /\ UNCHANGED <<profile, Backend, mu, co>>
    BY <1>1, <1>5 DEF CreatePCs, Still
  <2>. QED
    BY <1>2, <1>5, <1>7, <1>8, <2>1, <2>2, <2>3, TakeKeeps
<1>9. ASSUME pc[h] = "select", sub[P(h).backend] = None, P(h).legacy # P(h).backend
      PROVE  CInv(w)'
  <2>1. Move(h, "selectLegacy")
    BY <1>9 DEF selectExistingCreateSubvolume
  <2>2. w.content[r] # None => Home(w, r) = P(h).legacy
    BY <1>2, <1>6, <1>9 DEF Home
  <2>3. /\ CHandlerOK(w, h, "selectLegacy", loc[h]) /\ Serves(w, "selectLegacy", loc[h])
        /\ "selectLegacy" \in PCs \union ClonePCs
    BY <1>2, <1>9, <2>2 DEF CHandlerOK, Serves, CloneOK, NamelessPCs, CIdentityPCs, SeenPCs, ClonePCs,
                      DeletePCs, PreparePCs, SearchPCs, ClonedPCs, PCs
  <2>. QED
    BY <1>5, <2>1, <2>3, PlainMove
<1>10. ASSUME NewVolume(h), \/ pc[h] = "select" /\ sub[P(h).backend] = None /\ P(h).legacy = P(h).backend
                            \/ pc[h] = "selectLegacy" /\ sub[P(h).legacy] = None
       PROVE  CInv(w)'
  <2>1. w.content[r] # None => Home(w, r) = P(h).legacy /\ sub[P(h).legacy] = None
    <3>1. CASE pc[h] = "select" /\ sub[P(h).backend] = None /\ P(h).legacy = P(h).backend
      BY <1>2, <3>1, HomeChoice
    <3>2. CASE pc[h] = "selectLegacy" /\ sub[P(h).legacy] = None
      BY <1>2, <3>2 DEF Serves, CloneOK, DeletePCs
    <3>. QED
      BY <1>10, <3>1, <3>2
  <2>2. w.content[r] = None
    BY <1>6, <2>1
  <2>. QED
    BY <1>1, <1>5, <1>10, <2>2, NewVolumeKeeps
<1>11. ASSUME pc[h] = "selectLegacy", sub[P(h).legacy] # None
       PROVE  CInv(w)'
  <2>1. Take(h, P(h).legacy, "list")
    BY <1>11 DEF selectExistingCreateSubvolume
  <2>2. w.content[r] # None => P(h).legacy = Home(w, r)
    BY <1>2, <1>11 DEF Serves, CloneOK, DeletePCs
  <2>3. pc[h] \in CreatePCs /\ UNCHANGED <<profile, Backend, mu, co>>
    BY <1>1, <1>5 DEF CreatePCs, Still
  <2>. QED
    BY <1>2, <1>5, <1>11, <2>1, <2>2, <2>3, TakeKeeps
<1>. QED
  BY <1>1, <1>8, <1>9, <1>10, <1>11 DEF selectExistingCreateSubvolume

LEMMA GetOrCreateKeeps ==
  ASSUME NEW w \in Worlds, CInv(w), NEW h \in Handlers, Plain, UNCHANGED profile,
         getOrCreateSubvolume(h)
  PROVE  CInv(w)'
<1>1. pc[h] = "getOrCreate"
  BY DEF getOrCreateSubvolume
<1>2. /\ CHandlerOK(w, h, pc[h], loc[h]) /\ Serves(w, pc[h], loc[h]) /\ CTypeOK
      /\ loc[h].req \in Requests
  BY <1>1, Here
<1>3. ~loc[h].cloning /\ loc[h].name \in Names /\ Claim(w, loc[h].req, loc[h].name)
  BY <1>1, <1>2 DEF CHandlerOK, PreparePCs, ClonePCs, NamelessPCs
<1>4. w.content[loc[h].req] # None => loc[h].name = Home(w, loc[h].req)
  BY <1>1, <1>2 DEF Serves, CloneOK, DeletePCs, NamelessPCs
<1>5. CASE Fail(h)
  BY <1>5, FailKeeps
<1>6. ASSUME Ok(h), Subvol(h) # None, Take(h, loc[h].name, AfterStorage(h)), UNCHANGED <<Backend, mu, co>>
      PROVE  CInv(w)'
  <2>1. AfterStorage(h) \in {"list", "validate", "persist"} /\ sub[loc[h].name] # None
    BY <1>6 DEF AfterStorage, Subvol
  <2>2. pc[h] \in CreatePCs /\ UNCHANGED <<profile, Backend, mu, co>>
    BY <1>1, <1>6 DEF CreatePCs
  <2>. QED
    BY <1>3, <1>4, <1>6, <2>1, <2>2, TakeKeeps
<1>7. ASSUME Ok(h), Subvol(h) = None, Move(h, "create"), UNCHANGED <<Backend, mu, co>>
      PROVE  CInv(w)'
  <2>1. w.content[loc[h].req] = None
    BY <1>1, <1>3, <1>4, <1>7, LiveDone DEF Ok, Subvol, DeletePCs
  <2>2. /\ CHandlerOK(w, h, "create", loc[h]) /\ Serves(w, "create", loc[h])
        /\ "create" \in PCs \union ClonePCs
    BY <1>1, <1>2, <1>3, <2>1 DEF CHandlerOK, Serves, NamelessPCs, CIdentityPCs, SeenPCs, ClonePCs, DeletePCs, PCs
  <2>3. Still /\ Outcome(h)
    BY <1>7 DEF Still, Outcome
  <2>. QED
    BY <1>7, <2>2, <2>3, PlainMove
<1>. QED
  BY <1>5, <1>6, <1>7 DEF getOrCreateSubvolume

-----------------------------------------------------------------------------
(* Writes to the backend.                                                  *)

(* Of a subvolume that its claimant writes.                                *)
LEMMA CWriteKept ==
  ASSUME NEW w \in Worlds, CInv(w), Settled(w), NEW h \in Handlers, NEW n \in Names, NEW x,
         NEW q \in Requests, Claim(w, q, n), sub' = [sub EXCEPT ![n] = x], FromKept, Written(w, n, x),
         w.content[q] # None =>
            /\ n = Home(w, q) \/ x = None \/ sub[n] # None
            /\ Open(q) /\ COwnedBy(q, n, sub[n]) => COwnedBy(q, n, x)
            /\ Open(q) /\ w.subs[n] # None /\ sub[n] # None => x # None
            /\ n = Home(w, q) /\ sub[n] = None /\ x # None => from'[n] = OriginOf(w, q),
         \/ mu \in {None, h}
         \/ \A r \in Requests : Wanted(w, r) /\ COwnedBy(r, n, x) => COwnedBy(r, n, sub[n])
  PROVE  CSubKept(w, h)
<1>1. CTypeOK /\ Inv(w)
  BY DEF CInv
<1>2. sub'[n] = x /\ \A m \in Names \ {n} : sub'[m] = sub[m]
  BY <1>1 DEF CTypeOK
<1>3. sub' \in [Names -> SubType \union {None}]
  BY <1>1 DEF CTypeOK, Written
<1>4. \A m \in Names : Written(w, m, sub[m])
  BY <1>1 DEF CTypeOK, Inv, Written, Tagged, Records
<1>5. \A m \in Names : Written(w, m, sub'[m])
  BY <1>2, <1>4
<1>6. ASSUME NEW r \in Requests, w.content[r] # None PROVE CloneKept(w, r)
  <2>1. Home(w, r) \in Names /\ Claim(w, r, Home(w, r))
    BY HomeClaimed
  <2>2. sub[Home(w, r)] # None /\ sub'[Home(w, r)] # None => from'[Home(w, r)] = from[Home(w, r)]
    BY <2>1 DEF FromKept
  <2>3. COwnedBy(r, Home(w, r), sub[Home(w, r)])' <=> COwnedBy(r, Home(w, r), sub'[Home(w, r)])
    BY DEF COwnedBy, hasCompleteV2Identity, V2
  <2>4. CASE r = q
    <3>1. CASE n = Home(w, r)
      <4>1. /\ Open(r) /\ COwnedBy(r, n, sub[n]) => COwnedBy(r, n, sub'[n]) /\ sub[n] # None /\ sub'[n] # None
            /\ Open(r) /\ w.subs[n] # None /\ sub[n] # None => sub'[n] # None
            /\ sub[n] = None /\ sub'[n] # None => from'[n] = OriginOf(w, r)
        BY <1>2, <1>6, <2>4, <3>1 DEF COwnedBy
      <4>2. Open(r) /\ Done(w, r) => Done(w, r)'
        BY <2>2, <2>3, <3>1, <4>1 DEF Done
      <4>3. FromOrigin(w, r) => FromOrigin(w, r)'
        BY <2>2, <3>1, <4>1 DEF FromOrigin
      <4>. QED
        BY <1>2, <3>1, <4>1, <4>2, <4>3 DEF CloneKept
    <3>2. CASE n # Home(w, r)
      <4>1. sub'[Home(w, r)] = sub[Home(w, r)]
        BY <1>2, <2>1, <3>2
      <4>2. \A m \in Names : m # Home(w, r) /\ sub[m] = None => sub'[m] = None
        BY <1>2, <1>6, <2>4, <3>2
      <4>3. (Done(w, r) => Done(w, r)') /\ (FromOrigin(w, r) => FromOrigin(w, r)')
        BY <2>2, <2>3, <4>1 DEF Done, FromOrigin, COwnedBy
      <4>. QED
        BY <4>1, <4>2, <4>3 DEF CloneKept
    <3>. QED
      BY <3>1, <3>2
  <2>5. CASE r # q
    <3>1. \A m \in Names : Claim(w, r, m) => sub'[m] = sub[m]
      BY <1>2, <2>5, OneClaimant
    <3>2. sub'[Home(w, r)] = sub[Home(w, r)]
      BY <2>1, <3>1
    <3>3. (Done(w, r) => Done(w, r)') /\ (FromOrigin(w, r) => FromOrigin(w, r)')
      BY <2>2, <2>3, <3>2 DEF Done, FromOrigin, COwnedBy
    <3>. QED
      BY <3>1, <3>2, <3>3 DEF CloneKept
  <2>. QED
    BY <2>4, <2>5
<1>7. \/ mu \in {None, h}
      \/ \A r \in Requests, m \in Names :
             Wanted(w, r) /\ COwnedBy(r, m, sub'[m]) => COwnedBy(r, m, sub[m])
  BY <1>2
<1>. QED
  BY <1>3, <1>5, <1>6, <1>7 DEF CSubKept

(* A step that writes sub and leaves the endpoints and the CO alone.       *)
LEMMA WriteStep ==
  ASSUME NEW w \in Worlds, CInv(w), NEW h \in Handlers, NEW p \in PCs \union ClonePCs,
         NEW l \in LocalType, Aside, CSubKept(w, h), UNCHANGED <<ep, co>>, MuKept(h),
         pc' = [pc EXCEPT ![h] = p], loc' = [loc EXCEPT ![h] = l],
         CHandlerOK(w, h, p, l)', Serves(w, p, l)', TagOK(l),
         l.live => loc[h].live /\ l.req = loc[h].req
  PROVE  CInv(w)'
<1>1. CEpKept(w) /\ CCoKept
  BY QuietKept
<1>3. ASSUME NEW g \in Handlers, g # h, loc[g].live, l.live PROVE loc[g].req # l.req
  BY <1>3 DEF CInv, Inv, OneLive
<1>4. \A g \in Handlers \ {h} : loc[g].live =>
         co'[loc[g].req] = co[loc[g].req] /\ (l.live => loc[g].req # l.req)
  BY <1>3
<1>5. /\ UNCHANGED <<profile, content>> /\ snap' \in [Names -> SubType \union {None}]
      /\ \A n \in Names : snap'[n] \in {snap[n], None}
      /\ faults' \in 0 .. MaxFaults /\ cl' \in [Handlers -> CloneLocalType]
  BY DEF Aside, CInv, CTypeOK
<1>6. \A r \in Requests : co'[r] = co[r] \/
            (CRequestOK(w, r)' /\ (w.content[r] # None => CloneRequestOK(w, r)'))
  OBVIOUS
<1>. QED
  BY <1>1, <1>4, <1>5, <1>6, Step

LEMMA WriteReturn ==
  ASSUME NEW w \in Worlds, CInv(w), NEW h \in Handlers, Return(h), Aside, CSubKept(w, h),
         UNCHANGED <<ep, co>>, MuKept(h)
  PROVE  CInv(w)'
<1>1. "idle" \in PCs \union ClonePCs
  BY DEF PCs
<1>2. pc' = [pc EXCEPT ![h] = "idle"] /\ loc' = [loc EXCEPT ![h] = NoLocals]
  BY DEF Return, Goto
<1>3. CHandlerOK(w, h, "idle", NoLocals)' /\ TagOK(NoLocals)
  BY CIdleOK DEF Fits
<1>4. Serves(w, "idle", NoLocals)'
  BY DEF Serves
<1>. QED
  BY <1>1, <1>2, <1>3, <1>4, CNoLocalsTyped, WriteStep

LEMMA BlankWritten ==
  ASSUME NEW w \in Worlds, NEW n \in Names, NEW k \in Nat
  PROVE  /\ Written(w, n, BlankSubvolume(k)) /\ BlankSubvolume(k) # None
         /\ \A r \in Requests : ~COwnedBy(r, n, BlankSubvolume(k))
<1>. DEFINE x == BlankSubvolume(k)
<1>1. /\ x \in SubType /\ x.csi = None /\ x.uuid = None /\ x.pvc = 0 /\ x.request = None
  BY CBlankTyped
<1>. HIDE DEF x
<1>2. \A r \in Requests : ~Mentions(w, r, x)
  BY <1>1, CNoneApart DEF Mentions
<1>3. x # None /\ \A r \in Requests : ~COwnedBy(r, n, x)
  BY <1>1, CNoneApart DEF COwnedBy, hasCompleteV2Identity
<1>4. Written(w, n, x)
  BY <1>1, <1>2 DEF Written, Clear
<1>. QED
  BY <1>3, <1>4 DEF x

(* CreateSubvolume runs for a request without a content source only.       *)
LEMMA CreateSubvolumeKeeps ==
  ASSUME NEW w \in Worlds, CInv(w), Settled(w), NEW h \in Handlers, Plain, UNCHANGED profile, NEW x,
         CreateSubvolume(h, x)
  PROVE  CInv(w)'
<1>. DEFINE n == loc[h].name
            new == BlankSubvolume(loc[h].cap)
            r == loc[h].req
<1>1. pc[h] = "create"
  BY DEF CreateSubvolume
<1>2. /\ CHandlerOK(w, h, pc[h], loc[h]) /\ Serves(w, pc[h], loc[h]) /\ CTypeOK
      /\ loc[h] \in LocalType /\ r \in Requests
  BY <1>1, Here
<1>3. /\ ~loc[h].cloning /\ n \in Names /\ Claim(w, r, n) /\ loc[h].uuid \in UUIDs /\ Wanted(w, r)
      /\ (loc[h].live => co[r].phase = "wanted")
  BY <1>1, <1>2 DEF CHandlerOK, PreparePCs, ClonePCs, NamelessPCs, CIdentityPCs, DeletePCs
<1>4. w.content[r] = None
  BY <1>1, <1>2 DEF Serves, CloneOK, DeletePCs, SearchPCs
<1>5. CASE Fail(h)
  BY <1>5, FailKeeps
<1>6. ASSUME Ok(h), Subvol(h) # None, Take(h, n, AfterStorage(h)), UNCHANGED <<Backend, mu, co>>
      PROVE  CInv(w)'
  <2>1. AfterStorage(h) \in {"list", "validate", "persist"} /\ sub[n] # None
    BY <1>6 DEF AfterStorage, Subvol
  <2>2. pc[h] \in CreatePCs /\ UNCHANGED <<profile, Backend, mu, co>>
    BY <1>1, <1>6 DEF CreatePCs
  <2>. QED
    BY <1>3, <1>4, <1>6, <2>1, <2>2, TakeKeeps
<1>7. /\ new \in SubType /\ new # None /\ Written(w, n, new) /\ \A q \in Requests : ~COwnedBy(q, n, new)
  <2>1. loc[h].cap \in Nat
    BY <1>2 DEF LocalType
  <2>. QED
    BY <1>3, <2>1, CBlankTyped, BlankWritten
<1>. HIDE DEF new
<1>8. ASSUME sub' = [sub EXCEPT ![n] = new], FromKept PROVE CSubKept(w, h)
  BY <1>2, <1>3, <1>4, <1>7, <1>8, CWriteKept
<1>9. ASSUME Ok(h), Subvol(h) = None, Write(n, new), NEW u \in UUIDs,
             IF loc[h].seen = None THEN u = loc[h].uuid ELSE newVolumeUUID(u),
             loc' = [loc EXCEPT ![h].seen = new, ![h].uuid = u, ![h].created = TRUE],
             Goto(h, AfterStorage(h)), UNCHANGED <<ep, mu, co>>
      PROVE  CInv(w)'
  <2>1. Aside /\ MuKept(h) /\ FromKept
    BY <1>2, <1>9, PlainAside, QuietKept DEF Aside
  <2>2. CSubKept(w, h)
    BY <1>8, <1>9, <2>1 DEF Write
  <2>. DEFINE k == [loc[h] EXCEPT !.seen = new, !.uuid = u, !.created = TRUE]
  <2>0. /\ k \in LocalType /\ k.name = n /\ k.seen = new /\ k.uuid = u /\ k.req = r
        /\ k.cloning = loc[h].cloning /\ k.live = loc[h].live
    BY <1>2, <1>7 DEF LocalType
  <2>3. PICK l \in LocalType :
          /\ l = k /\ l.name = n /\ l.seen = new /\ l.uuid = u /\ l.req = r
          /\ l.cloning = loc[h].cloning /\ l.live = loc[h].live
    BY <2>0
  <2>4. PICK p \in {"validate", "persist"} : pc' = [pc EXCEPT ![h] = p]
    BY <1>9 DEF Goto, AfterStorage
  <2>5. loc' = [loc EXCEPT ![h] = l]
    BY <1>2, <1>9, <2>3 DEF CTypeOK
  <2>. HIDE DEF k
  <2>6. loc'[h].uuid = u
    BY <1>2, <2>3, <2>5 DEF CTypeOK
  <2>7. TagOK(l)
    <3>1. CASE u = loc[h].uuid
      BY <2>3, <3>1 DEF TagOK, Tagged
    <3>2. CASE newVolumeUUID(u)
      BY <2>3, <2>6, <3>2, FreshTag DEF TagOK, Plain
    <3>. QED
      BY <1>9, <3>1, <3>2
  <2>8. CHandlerOK(w, h, p, l)'
    BY <1>2, <1>3, <1>7, <1>9, <2>3
       DEF CHandlerOK, NamelessPCs, CIdentityPCs, SeenPCs, ClonePCs, DeletePCs, PreparePCs, Ok
  <2>9. Serves(w, p, l)' /\ p \in PCs \union ClonePCs
    BY <1>4, <2>3 DEF Serves, PCs
  <2>. QED
    BY <1>9, <2>1, <2>2, <2>3, <2>4, <2>5, <2>7, <2>8, <2>9, WriteStep
<1>10. ASSUME Lost, Subvol(h) = None, sub' = [sub EXCEPT ![n] = new], Return(h), UNCHANGED <<ep, mu, co>>
       PROVE  CInv(w)'
  <2>1. Aside /\ MuKept(h) /\ FromKept
    BY <1>2, <1>10, PlainAside, QuietKept DEF Aside
  <2>2. CSubKept(w, h)
    BY <1>8, <1>10, <2>1
  <2>. QED
    BY <1>10, <2>1, <2>2, WriteReturn
<1>. QED
  BY <1>5, <1>6, <1>9, <1>10, Zenon DEF CreateSubvolume, new

LEMMA ValidateKeeps ==
  ASSUME NEW w \in Worlds, CInv(w), NEW h \in Handlers, Plain, UNCHANGED profile,
         validateInitializedBlockFilesystem(h)
  PROVE  CInv(w)'
<1>1. pc[h] = "validate" /\ Still
  BY DEF validateInitializedBlockFilesystem, Still
<1>2. CHandlerOK(w, h, pc[h], loc[h]) /\ Serves(w, pc[h], loc[h])
  BY <1>1, Here
<1>3. CASE Move(h, "persist") /\ UNCHANGED faults
  <2>1. /\ CHandlerOK(w, h, "persist", loc[h]) /\ Serves(w, "persist", loc[h])
        /\ "persist" \in PCs \union ClonePCs
    BY <1>1, <1>2 DEF CHandlerOK, Serves, CloneOK, NamelessPCs, CIdentityPCs, SeenPCs, ClonePCs,
                      DeletePCs, PreparePCs, SearchPCs, ClonedPCs, PCs
  <2>. QED
    BY <1>1, <1>3, <2>1, PlainMove DEF Outcome
<1>4. CASE Fault /\ loc[h].created /\ Move(h, "rollback")
  <2>1. w.content[loc[h].req] = None
    BY <1>1, <1>2, <1>4 DEF CHandlerOK, Serves, CloneOK, PreparePCs, ClonePCs, DeletePCs
  <2>2. /\ CHandlerOK(w, h, "rollback", loc[h]) /\ Serves(w, "rollback", loc[h])
        /\ "rollback" \in PCs \union ClonePCs
    BY <1>1, <1>2, <1>4, <2>1 DEF CHandlerOK, Serves, NamelessPCs, CIdentityPCs, SeenPCs, ClonePCs,
                      DeletePCs, PreparePCs, PCs
  <2>. QED
    BY <1>1, <1>4, <2>2, PlainMove DEF Outcome
<1>5. CASE Fault /\ Return(h)
  BY <1>1, <1>5, PlainReturn DEF Outcome
<1>. QED
  BY <1>3, <1>4, <1>5 DEF validateInitializedBlockFilesystem

(* What persistVolumeIdentity leaves at n.                                 *)
LEMMA IdentifiedWritten ==
  ASSUME NEW w \in Worlds, CInv(w), Settled(w), NEW h \in Handlers, pc[h] = "persist",
         sub[loc[h].name] # None
  PROVE  /\ Written(w, loc[h].name, Identified(h, sub[loc[h].name]))
         /\ COwnedBy(loc[h].req, loc[h].name, Identified(h, sub[loc[h].name]))
<1>1. /\ CHandlerOK(w, h, pc[h], loc[h]) /\ CTypeOK /\ Inv(w)
      /\ loc[h].req \in Requests /\ P(h) = w.profile[loc[h].req]
  BY Here
<1>2. loc[h].name \in Names /\ loc[h].uuid \in UUIDs /\ Claim(w, loc[h].req, loc[h].name)
  BY <1>1 DEF CHandlerOK, NamelessPCs, CIdentityPCs
<1>. DEFINE n == loc[h].name
            r == loc[h].req
            s == sub[loc[h].name]
            x == Identified(h, sub[loc[h].name])
<1>3. s \in SubType /\ Clear(w, n, s)
  BY <1>1, <1>2 DEF CTypeOK, Inv
<1>4. /\ x \in SubType /\ COwnedBy(r, n, x) /\ x.csi = n /\ x.uuid = loc[h].uuid
      /\ x.pvc \in {s.pvc, P(h).pvc}
  BY <1>1, <1>2, <1>3, CIdentifiedOwned
<1>. HIDE DEF x
<1>5. V2(x) /\ x.request = r
  BY <1>4 DEF COwnedBy, hasCompleteV2Identity
<1>6. ASSUME NEW q \in Requests, Wanted(w, q), Mentions(w, q, x) PROVE Claim(w, q, n)
  <2>1. CASE x.request = q
    BY <1>2, <1>5, <2>1
  <2>2. CASE x.csi = w.profile[q].name
    BY <1>4, <2>2 DEF Claim
  <2>3. CASE x.pvc # 0 /\ x.pvc = w.profile[q].pvc
    <3>1. CASE x.pvc = s.pvc
      BY <1>3, <1>6, <2>3, <3>1 DEF Mentions, Clear
    <3>2. CASE x.pvc = P(h).pvc
      <4>1. q = r
        BY <1>1, <2>3, <3>2 DEF Settled, SoleClaimant
      <4>. QED
        BY <1>2, <4>1
    <3>. QED
      BY <1>4, <3>1, <3>2
  <2>. QED
    BY <1>6, <2>1, <2>2, <2>3 DEF Mentions
<1>7. Tagged(x.uuid, x.csi)
  BY <1>4 DEF Tagged
<1>8. Written(w, n, x)
  BY <1>4, <1>5, <1>6, <1>7 DEF Written, Clear
<1>. QED
  BY <1>4, <1>8 DEF x

LEMMA PersistWrite ==
  ASSUME NEW w \in Worlds, CInv(w), Settled(w), NEW h \in Handlers, pc[h] = "persist", mu = None,
         sub[loc[h].name] # None, Write(loc[h].name, Identified(h, sub[loc[h].name])),
         FromKept, UNCHANGED co, NEW r, r = loc[h].req
  PROVE  CSubKept(w, h) /\ (w.content[r] # None /\ Open(r) => Done(w, r)')
<1>. DEFINE n == loc[h].name
            x == Identified(h, sub[loc[h].name])
<1>1. /\ CHandlerOK(w, h, pc[h], loc[h]) /\ Serves(w, pc[h], loc[h]) /\ CTypeOK
      /\ r \in Requests
  BY Here
<1>2. n \in Names /\ Claim(w, r, n)
  BY <1>1 DEF CHandlerOK, NamelessPCs
<1>3. w.content[r] # None => n = Home(w, r)
  BY <1>1 DEF Serves, CloneOK, NamelessPCs, DeletePCs
<1>4. Written(w, n, x) /\ COwnedBy(r, n, x)
  BY IdentifiedWritten
<1>. HIDE DEF x
<1>5. sub' = [sub EXCEPT ![n] = x] /\ x # None /\ sub'[n] = x
  BY <1>1, <1>2, <1>4 DEF Write, x, COwnedBy, CTypeOK
<1>6. /\ w.content[r] # None =>
            /\ n = Home(w, r) \/ x = None \/ sub[n] # None
            /\ Open(r) /\ COwnedBy(r, n, sub[n]) => COwnedBy(r, n, x)
            /\ Open(r) /\ w.subs[n] # None /\ sub[n] # None => x # None
            /\ n = Home(w, r) /\ sub[n] = None /\ x # None => from'[n] = OriginOf(w, r)
      /\ \/ mu \in {None, h}
         \/ \A q \in Requests : Wanted(w, q) /\ COwnedBy(q, n, x) => COwnedBy(q, n, sub[n])
  BY <1>3, <1>4, <1>5
<1>7. CSubKept(w, h)
  BY <1>1, <1>2, <1>4, <1>5, <1>6, CWriteKept
<1>8. ASSUME w.content[r] # None, Open(r) PROVE Done(w, r)'
  <2>1. from[n] = OriginOf(w, r)
    BY <1>1, <1>3, <1>8 DEF Serves, CloneOK, DeletePCs, ClonedPCs, FromOrigin, Done
  <2>2. from'[n] = from[n]
    BY <1>2, <1>5 DEF FromKept
  <2>3. COwnedBy(r, n, sub'[n])
    BY <1>4, <1>5
  <2>. QED
    BY <1>3, <1>8, <2>1, <2>2, <2>3 DEF Done, COwnedBy, hasCompleteV2Identity, V2
<1>. QED
  BY <1>7, <1>8

LEMMA AfterPersistKeeps ==
  ASSUME NEW w \in Worlds, CInv(w), NEW h \in Handlers, pc[h] = "persist", AfterPersist(h),
         Aside, CSubKept(w, h), UNCHANGED <<ep, co>>, MuKept(h), NEW r, r = loc[h].req,
         w.content[r] # None /\ Open(r) => Done(w, r)'
  PROVE  CInv(w)'
<1>1. /\ CHandlerOK(w, h, pc[h], loc[h]) /\ Serves(w, pc[h], loc[h]) /\ CTypeOK
      /\ loc[h] \in LocalType /\ r \in Requests
  BY Here
<1>2. CASE loc[h].cloning
  <2>. DEFINE k == [Locals(r) EXCEPT !.cap = loc[h].cap, !.live = loc[h].live]
  <2>1. /\ k \in LocalType /\ k.req = r /\ k.uuid = None /\ k.cloning = FALSE /\ k.created = FALSE
        /\ k.exposed = FALSE /\ k.live = loc[h].live
    BY <1>1, CLocalsTyped DEF LocalType
  <2>2. PICK l \in LocalType :
          /\ l = k /\ l.req = r /\ l.uuid = None /\ l.cloning = FALSE /\ l.created = FALSE
          /\ l.exposed = FALSE /\ l.live = loc[h].live
    BY <2>1
  <2>. HIDE DEF k
  <2>3. pc' = [pc EXCEPT ![h] = "select"] /\ loc' = [loc EXCEPT ![h] = l]
    BY <1>1, <1>2, <2>2 DEF AfterPersist, Goto, CTypeOK, k
  <2>4. TagOK(l)
    BY <2>2 DEF TagOK
  <2>5. CHandlerOK(w, h, "select", l)'
    BY <1>1, <2>2 DEF CHandlerOK, NamelessPCs, CIdentityPCs, SeenPCs, ClonePCs, DeletePCs
  <2>6. Open(r)' <=> Open(r)
    BY DEF Open
  <2>7. Serves(w, "select", l)' /\ "select" \in PCs \union ClonePCs
    BY <2>2, <2>6 DEF Serves, CloneOK, DeletePCs, SearchPCs, NamelessPCs, PCs
  <2>. QED
    BY <2>2, <2>3, <2>4, <2>5, <2>7, WriteStep
<1>3. CASE ~loc[h].cloning
  <2>1. PICK p \in {"reply", "endpoint"} : Move(h, p) /\ (p = "reply" => loc[h].exposed)
    BY <1>3 DEF AfterPersist
  <2>2. PICK l \in LocalType : l = loc[h]
    BY <1>1
  <2>3. pc' = [pc EXCEPT ![h] = p] /\ loc' = [loc EXCEPT ![h] = l]
    BY <1>1, <2>1, <2>2 DEF Move, Goto, CTypeOK
  <2>4. TagOK(l)
    BY <2>2 DEF TagOK, Tagged
  <2>5. CHandlerOK(w, h, p, l)'
    BY <1>1, <1>3, <2>2 DEF CHandlerOK, NamelessPCs, CIdentityPCs, SeenPCs, ClonePCs, DeletePCs
  <2>6. Open(r)' <=> Open(r)
    BY DEF Open
  <2>7. Exposed(w, r)' <=> Exposed(w, r)
    BY DEF Exposed
  <2>8. w.content[r] # None => CloneOK(w, pc[h], loc[h])
    BY <1>1 DEF Serves, DeletePCs
  <2>9. ASSUME w.content[r] # None PROVE CloneOK(w, p, l)'
    BY <1>3, <2>1, <2>2, <2>6, <2>7, <2>8, <2>9 DEF CloneOK, SearchPCs, NamelessPCs
  <2>10. Serves(w, p, l)' /\ p \in PCs \union ClonePCs
    BY <2>2, <2>9 DEF Serves, PCs
  <2>. QED
    BY <2>2, <2>3, <2>4, <2>5, <2>10, WriteStep
<1>. QED
  BY <1>2, <1>3

(* A move to verify or to a rollback, which changes the holder of the lock. *)
LEMMA LockMove ==
  ASSUME NEW w \in Worlds, CInv(w), NEW h \in Handlers, NEW p \in {"verify", "rollback", "rollbackDelete"},
         Move(h, p), Aside, CSubKept(w, h), UNCHANGED <<ep, co>>, MuKept(h),
         pc[h] \in {"persist", "verify", "rollback"}, p # "verify" => loc[h].created,
         p \in {"verify", "rollbackDelete"} => mu' = h,
         p = "verify" => pc[h] = "persist",
         p = "rollbackDelete" => UNCHANGED sub /\ ~COwnedBy(loc[h].req, loc[h].name, sub[loc[h].name])
  PROVE  CInv(w)'
<1>1. /\ CHandlerOK(w, h, pc[h], loc[h]) /\ Serves(w, pc[h], loc[h]) /\ CTypeOK
      /\ loc[h] \in LocalType /\ loc[h].req \in Requests
  BY Here
<1>2. PICK l \in LocalType : l = loc[h]
  BY <1>1
<1>3. pc' = [pc EXCEPT ![h] = p] /\ loc' = [loc EXCEPT ![h] = l]
  BY <1>1, <1>2 DEF Move, Goto, CTypeOK
<1>4. TagOK(l)
  BY <1>2 DEF TagOK, Tagged
<1>5. /\ l.req \in Requests /\ l.name \in Names /\ Claim(w, l.req, l.name) /\ l.uuid \in UUIDs
      /\ (l.cloning => w.content[l.req] # None)
      /\ Wanted(w, l.req) /\ (l.live => co[l.req].phase = "wanted")
      /\ (p = "verify" => l.seen # None)
  BY <1>1, <1>2 DEF CHandlerOK, NamelessPCs, CIdentityPCs, SeenPCs, DeletePCs
<1>6. p = "rollbackDelete" => ~COwnedBy(l.req, l.name, sub'[l.name])
  BY <1>2
<1>7. CHandlerOK(w, h, p, l)'
  BY <1>2, <1>5, <1>6 DEF CHandlerOK, NamelessPCs, CIdentityPCs, SeenPCs, ClonePCs, DeletePCs, PreparePCs,
                     COwnedBy, hasCompleteV2Identity, V2
<1>8. Serves(w, p, l)
  BY <1>1, <1>2 DEF Serves, CloneOK, DeletePCs, SearchPCs, NamelessPCs, ClonedPCs
<1>9. CEpKept(w) /\ CCoKept
  BY QuietKept
<1>10. Serves(w, p, l)' /\ p \in PCs \union ClonePCs
  BY <1>5, <1>8, <1>9, CServesFrame DEF PCs
<1>. QED
  BY <1>2, <1>3, <1>4, <1>7, <1>10, WriteStep

LEMMA PersistKeeps ==
  ASSUME NEW w \in Worlds, CInv(w), Settled(w), NEW h \in Handlers, Plain, UNCHANGED profile,
         persistVolumeIdentity(h)
  PROVE  CInv(w)'
<1>1. pc[h] = "persist" /\ mu = None /\ UNCHANGED co
  BY DEF persistVolumeIdentity
<1>2. /\ CHandlerOK(w, h, pc[h], loc[h]) /\ Serves(w, pc[h], loc[h]) /\ CTypeOK
      /\ loc[h] \in LocalType /\ loc[h].req \in Requests
  BY <1>1, Here
<1>3. PICK r \in Requests : r = loc[h].req
  BY <1>2
<1>4. ASSUME Outcome(h) PROVE Aside /\ FromKept
  BY <1>2, <1>4, PlainAside DEF Aside, Outcome
<1>5. ASSUME mu' = mu \/ mu' = h PROVE MuKept(h)
  BY <1>1, <1>2, <1>5 DEF MuKept, CTypeOK
<1>6. ASSUME propertiesContain(h, loc[h].seen), AfterPersist(h), UNCHANGED <<Backend, mu, faults>>
      PROVE  CInv(w)'
  <2>1. Aside /\ MuKept(h) /\ CSubKept(w, h) /\ UNCHANGED <<ep, co>>
    BY <1>1, <1>4, <1>5, <1>6, QuietKept DEF Outcome, Backend
  <2>2. loc[h].seen \in SubType /\ loc[h].name \in Names /\ loc[h].uuid \in UUIDs
    BY <1>1, <1>2 DEF CHandlerOK, LocalType, NamelessPCs, CIdentityPCs, SeenPCs
  <2>3. COwnedBy(loc[h].req, loc[h].name, loc[h].seen)
    BY <1>2, <1>6, <2>2, CContainsOwned
  <2>4. w.content[r] # None /\ Open(r) => Done(w, r)
    BY <1>1, <1>2, <1>3, <2>3 DEF Serves, CloneOK, DeletePCs
  <2>5. w.content[r] # None /\ Open(r) => Done(w, r)'
    BY <2>1, <2>4 DEF CSubKept, CloneKept
  <2>. QED
    BY <1>1, <1>3, <1>6, <2>1, <2>5, AfterPersistKeeps
<1>7. ASSUME Ok(h), sub[loc[h].name] # None, Write(loc[h].name, Identified(h, sub[loc[h].name])),
             AfterPersist(h), UNCHANGED <<ep, mu>>
      PROVE  CInv(w)'
  <2>1. Aside /\ MuKept(h) /\ FromKept
    BY <1>4, <1>5, <1>7 DEF Outcome
  <2>2. CSubKept(w, h) /\ (w.content[r] # None /\ Open(r) => Done(w, r)')
    BY <1>1, <1>3, <1>7, <2>1, PersistWrite
  <2>. QED
    BY <1>1, <1>3, <1>7, <2>1, <2>2, AfterPersistKeeps
<1>8. ASSUME Outcome(h), Move(h, "verify"), mu' = h, UNCHANGED Backend
      PROVE  CInv(w)'
  <2>1. Aside /\ MuKept(h) /\ CSubKept(w, h) /\ UNCHANGED <<ep, co>>
    BY <1>1, <1>4, <1>5, <1>8, QuietKept DEF Backend
  <2>. QED
    BY <1>1, <1>8, <2>1, LockMove
<1>9. ASSUME Lost, sub[loc[h].name] # None, Write(loc[h].name, Identified(h, sub[loc[h].name])),
             Move(h, "verify"), mu' = h, UNCHANGED ep
      PROVE  CInv(w)'
  <2>1. Aside /\ MuKept(h) /\ FromKept
    BY <1>4, <1>5, <1>9 DEF Outcome
  <2>2. CSubKept(w, h)
    BY <1>1, <1>3, <1>9, <2>1, PersistWrite
  <2>. QED
    BY <1>1, <1>9, <2>1, <2>2, LockMove
<1>10. (IF sub[loc[h].name] = None THEN UNCHANGED faults ELSE Err(h)) => Outcome(h)
  BY DEF Outcome
<1>. QED
  BY <1>6, <1>7, <1>8, <1>9, <1>10, Zenon DEF persistVolumeIdentity

LEMMA VerifyKeeps ==
  ASSUME NEW w \in Worlds, CInv(w), NEW h \in Handlers, Plain, UNCHANGED profile,
         verifyIdentityWrite(h)
  PROVE  CInv(w)'
<1>1. /\ pc[h] = "verify" /\ mu = h /\ mu' = None /\ UNCHANGED <<sub, ep, co>> /\ Outcome(h)
      /\ (Return(h) \/ (Move(h, "rollback") /\ loc[h].created))
  BY DEF verifyIdentityWrite, Outcome
<1>2. CTypeOK
  BY DEF CInv
<1>3. MuKept(h) /\ Aside /\ CSubKept(w, h)
  BY <1>1, <1>2, PlainAside, QuietKept DEF MuKept, Aside, Outcome
<1>4. CASE Return(h)
  BY <1>1, <1>3, <1>4, ReturnKeeps
<1>5. CASE Move(h, "rollback") /\ loc[h].created
  BY <1>1, <1>3, <1>5, LockMove
<1>. QED
  BY <1>1, <1>4, <1>5

LEMMA RollbackKeeps ==
  ASSUME NEW w \in Worlds, CInv(w), Settled(w), NEW h \in Handlers, Plain, UNCHANGED profile,
         rollbackCreatedSubvolume(h)
  PROVE  CInv(w)'
<1>. DEFINE n == loc[h].name
            r == loc[h].req
<1>1. pc[h] \in {"rollback", "rollbackDelete"} /\ mu \in {None, h} /\ UNCHANGED <<ep, co>>
  BY DEF rollbackCreatedSubvolume
<1>2. /\ CHandlerOK(w, h, pc[h], loc[h]) /\ Serves(w, pc[h], loc[h]) /\ CTypeOK
      /\ r \in Requests
  BY <1>1, Here
<1>3. loc[h].created /\ n \in Names /\ Claim(w, r, n)
  BY <1>1, <1>2 DEF CHandlerOK, NamelessPCs
<1>4. ASSUME Outcome(h) PROVE Aside /\ FromKept
  BY <1>2, <1>4, PlainAside DEF Aside, Outcome
<1>5. ASSUME mu' \in {mu, h, None} PROVE MuKept(h)
  BY <1>1, <1>2, <1>5 DEF MuKept, CTypeOK
<1>6. ASSUME Return(h), Outcome(h), mu' \in {mu, h, None}, UNCHANGED sub
      PROVE  CInv(w)'
  BY <1>1, <1>4, <1>5, <1>6, ReturnKeeps
<1>7. ASSUME pc[h] = "rollback", sub[n] # None, ~hasCompleteV2Identity(n, sub[n]),
             Move(h, "rollbackDelete"), mu' = h, UNCHANGED <<faults, sub>>
      PROVE  CInv(w)'
  <2>1. Aside /\ MuKept(h) /\ CSubKept(w, h)
    BY <1>4, <1>5, <1>7, QuietKept DEF Outcome
  <2>2. ~COwnedBy(loc[h].req, loc[h].name, sub[loc[h].name])
    BY <1>7 DEF COwnedBy
  <2>. QED
    BY <1>1, <1>3, <1>7, <2>1, <2>2, LockMove
<1>8. ASSUME pc[h] = "rollbackDelete", mu' = None, Write(n, None), Outcome(h), Return(h)
      PROVE  CInv(w)'
  <2>1. Aside /\ MuKept(h) /\ FromKept
    BY <1>4, <1>5, <1>8
  <2>2. ~COwnedBy(r, n, sub[n])
    BY <1>2, <1>8 DEF CHandlerOK
  <2>3. w.content[r] # None => n = Home(w, r) /\ w.subs[n] = None
    BY <1>2, <1>3, <1>8 DEF Serves, CloneOK, DeletePCs, NamelessPCs
  <2>4. sub' = [sub EXCEPT ![n] = None] /\ Written(w, n, None)
    BY <1>8 DEF Write, Written
  <2>5. CSubKept(w, h)
    BY <1>1, <1>2, <1>3, <2>1, <2>2, <2>3, <2>4, CWriteKept
  <2>. QED
    BY <1>1, <1>8, <2>1, <2>5, WriteReturn
<1>9. UNCHANGED faults \/ Lost \/ Fault => Outcome(h)
  BY DEF Outcome
<1>. QED
  BY <1>6, <1>7, <1>8, <1>9, Zenon DEF rollbackCreatedSubvolume

(* A step that changes endpoints only.                                     *)
LEMMA EpStep ==
  ASSUME NEW w \in Worlds, CInv(w), NEW h \in Handlers, NEW p \in PCs \union ClonePCs,
         NEW l \in LocalType, Aside, CEpKept(w), UNCHANGED <<sub, co, mu>>,
         pc' = [pc EXCEPT ![h] = p], loc' = [loc EXCEPT ![h] = l],
         CHandlerOK(w, h, p, l)', Serves(w, p, l)', TagOK(l),
         l.live => loc[h].live /\ l.req = loc[h].req
  PROVE  CInv(w)'
<1>1. CSubKept(w, h) /\ CCoKept /\ MuKept(h)
  BY QuietKept DEF Aside
<1>3. ASSUME NEW g \in Handlers, g # h, loc[g].live, l.live PROVE loc[g].req # l.req
  BY <1>3 DEF CInv, Inv, OneLive
<1>4. \A g \in Handlers \ {h} : loc[g].live =>
         co'[loc[g].req] = co[loc[g].req] /\ (l.live => loc[g].req # l.req)
  BY <1>3
<1>5. /\ UNCHANGED <<profile, content>> /\ snap' \in [Names -> SubType \union {None}]
      /\ \A n \in Names : snap'[n] \in {snap[n], None}
      /\ faults' \in 0 .. MaxFaults /\ cl' \in [Handlers -> CloneLocalType]
  BY DEF Aside, CInv, CTypeOK
<1>6. \A r \in Requests : co'[r] = co[r] \/
            (CRequestOK(w, r)' /\ (w.content[r] # None => CloneRequestOK(w, r)'))
  OBVIOUS
<1>. QED
  BY <1>1, <1>4, <1>5, <1>6, Step

LEMMA EpReturn ==
  ASSUME NEW w \in Worlds, CInv(w), NEW h \in Handlers, Return(h), Aside, CEpKept(w),
         UNCHANGED <<sub, co, mu>>
  PROVE  CInv(w)'
<1>1. "idle" \in PCs \union ClonePCs
  BY DEF PCs
<1>2. pc' = [pc EXCEPT ![h] = "idle"] /\ loc' = [loc EXCEPT ![h] = NoLocals]
  BY DEF Return, Goto
<1>3. CHandlerOK(w, h, "idle", NoLocals)' /\ TagOK(NoLocals)
  BY CIdleOK DEF Fits
<1>4. Serves(w, "idle", NoLocals)'
  BY DEF Serves
<1>. QED
  BY <1>1, <1>2, <1>3, <1>4, CNoLocalsTyped, EpStep

LEMMA EndpointKeeps ==
  ASSUME NEW w \in Worlds, CInv(w), NEW h \in Handlers, Plain, UNCHANGED profile, NEW protos,
         CreateEndpoint(h, protos)
  PROVE  CInv(w)'
<1>. DEFINE n == loc[h].name
            new == IF P(h).proto \in Share THEN loc[h].cap ELSE 0
<1>1. pc[h] = "endpoint" /\ UNCHANGED <<sub, mu, co>>
  BY DEF CreateEndpoint
<1>2. /\ CHandlerOK(w, h, pc[h], loc[h]) /\ Serves(w, pc[h], loc[h]) /\ CTypeOK
      /\ loc[h] \in LocalType /\ loc[h].req \in Requests
  BY <1>1, Here
<1>3. n \in Names /\ ~loc[h].cloning /\ new \in Nat /\ new # None
  <2>1. loc[h].cap \in Nat /\ 0 \in Nat
    BY <1>2 DEF LocalType
  <2>2. new \in Nat
    BY <2>1
  <2>. QED
    BY <1>1, <1>2, <2>2, CNoneApart DEF CHandlerOK, NamelessPCs, PreparePCs, ClonePCs
<1>. HIDE DEF new
<1>4. ASSUME Outcome(h) PROVE Aside
  BY <1>2, <1>4, PlainAside DEF Outcome
<1>5. ASSUME ep' = [ep EXCEPT ![n] = new] PROVE CEpKept(w) /\ ep'[n] # None
  BY <1>2, <1>3, <1>5, HomeClaimed DEF CEpKept, CTypeOK, Exposed
<1>6. CASE Ok(h) /\ ep' = [ep EXCEPT ![n] = new] /\ Move(h, "reply")
  <2>1. Aside /\ CEpKept(w) /\ ep'[n] # None
    BY <1>4, <1>5, <1>6 DEF Outcome
  <2>2. PICK l \in LocalType : l = loc[h]
    BY <1>2
  <2>3. pc' = [pc EXCEPT ![h] = "reply"] /\ loc' = [loc EXCEPT ![h] = l]
    BY <1>2, <1>6, <2>2 DEF Move, Goto, CTypeOK
  <2>4. TagOK(l)
    BY <2>2 DEF TagOK, Tagged
  <2>5. CHandlerOK(w, h, "reply", l)'
    BY <1>1, <1>2, <1>3, <2>2 DEF CHandlerOK, NamelessPCs, CIdentityPCs, SeenPCs, ClonePCs, DeletePCs
  <2>6. (Open(l.req)' <=> Open(l.req)) /\ FromKept
    BY <1>1, <2>1 DEF Open, Aside
  <2>7. CSubKept(w, h)
    BY <1>1, <2>6, QuietKept
  <2>8. ASSUME w.content[l.req] # None PROVE CloneOK(w, "reply", l)'
    <3>1. CloneOK(w, pc[h], l)
      BY <1>1, <1>2, <2>2, <2>8 DEF Serves, DeletePCs
    <3>2. l.name = Home(w, l.req) /\ l.name = n
      BY <1>1, <2>2, <3>1 DEF CloneOK, NamelessPCs
    <3>3. Exposed(w, l.req)'
      BY <2>1, <3>2 DEF Exposed
    <3>4. Open(l.req) => Done(w, l.req)'
      BY <1>2, <1>3, <2>2, <2>7, <2>8, <3>1 DEF CloneOK, CSubKept, CloneKept
    <3>. QED
      BY <1>3, <2>2, <2>6, <3>1, <3>2, <3>3, <3>4 DEF CloneOK, SearchPCs
  <2>9. Serves(w, "reply", l)' /\ "reply" \in PCs \union ClonePCs
    BY <2>8 DEF Serves, PCs
  <2>. QED
    BY <1>1, <2>1, <2>2, <2>3, <2>4, <2>5, <2>9, EpStep
<1>7. CASE Outcome(h) /\ Return(h) /\ UNCHANGED ep
  <2>1. Aside /\ CEpKept(w)
    BY <1>4, <1>7, QuietKept
  <2>. QED
    BY <1>1, <1>7, <2>1, EpReturn
<1>8. CASE Lost /\ ep' = [ep EXCEPT ![n] = new] /\ Return(h)
  <2>1. Aside /\ CEpKept(w)
    BY <1>4, <1>5, <1>8 DEF Outcome
  <2>. QED
    BY <1>1, <1>8, <2>1, EpReturn
<1>9. Ok(h) \/ Err(h) => Outcome(h)
  BY DEF Outcome
<1>. QED
  BY <1>6, <1>7, <1>8, <1>9, Zenon DEF CreateEndpoint, new

(* The CO hears the answer.                                                *)
LEMMA AnswerKeeps ==
  ASSUME NEW w \in Worlds, CInv(w), NEW h \in Handlers, pc[h] # "idle", loc[h].live, Return(h), Aside,
         UNCHANGED <<sub, ep, mu>>, NEW r \in Requests, r = loc[h].req,
         NEW c \in [phase : {"bound", "gone"}, handle : Names \union {None}],
         co' = [co EXCEPT ![r] = c], ~Open(r) => c.phase = "gone",
         CRequestOK(w, r)', w.content[r] # None => CloneRequestOK(w, r)'
  PROVE  CInv(w)'
<1>1. CTypeOK /\ Inv(w)
  BY DEF CInv
<1>2. co'[r] = c /\ \A q \in Requests \ {r} : co'[q] = co[q]
  BY <1>1 DEF CTypeOK
<1>3. CCoKept
  BY <1>1, <1>2 DEF CCoKept, CTypeOK, Open
<1>4. CSubKept(w, h) /\ CEpKept(w) /\ MuKept(h)
  BY QuietKept DEF Aside
<1>5. ASSUME NEW g \in Handlers \ {h}, loc[g].live
      PROVE  co'[loc[g].req] = co[loc[g].req] /\ ~NoLocals.live
  <2>1. loc[g].req # r
    BY <1>1, <1>5 DEF Inv, OneLive
  <2>2. pc[g] # "idle"
    BY <1>1, <1>5, CNoLocalsTyped DEF Inv, CHandlerOK
  <2>3. loc[g].req \in Requests
    BY <1>1, <2>2 DEF Inv, CHandlerOK
  <2>. QED
    BY <1>2, <2>1, <2>3, CNoLocalsTyped
<1>6. /\ UNCHANGED <<profile, content>> /\ snap' \in [Names -> SubType \union {None}]
      /\ \A n \in Names : snap'[n] \in {snap[n], None}
      /\ faults' \in 0 .. MaxFaults /\ cl' \in [Handlers -> CloneLocalType]
  BY <1>1 DEF Aside, CTypeOK
<1>7. \A q \in Requests : co'[q] = co[q] \/
            (CRequestOK(w, q)' /\ (w.content[q] # None => CloneRequestOK(w, q)'))
  BY <1>2
<1>8. "idle" \in PCs \union ClonePCs /\ pc' = [pc EXCEPT ![h] = "idle"]
      /\ loc' = [loc EXCEPT ![h] = NoLocals]
  BY DEF PCs, Return, Goto
<1>9. CHandlerOK(w, h, "idle", NoLocals)' /\ TagOK(NoLocals)
  BY CIdleOK DEF Fits
<1>10. Serves(w, "idle", NoLocals)'
  BY DEF Serves
<1>11. \A g \in Handlers \ {h} : loc[g].live =>
            co'[loc[g].req] = co[loc[g].req] /\ (NoLocals.live => loc[g].req # NoLocals.req)
  BY <1>5
<1>. QED
  BY <1>3, <1>4, <1>6, <1>7, <1>8, <1>9, <1>10, <1>11, CNoLocalsTyped, Step

LEMMA ResponseKeeps ==
  ASSUME NEW w \in Worlds, CInv(w), NEW h \in Handlers, Plain, UNCHANGED profile,
         CreateVolumeResponse(h)
  PROVE  CInv(w)'
<1>1. pc[h] = "reply" /\ Return(h) /\ UNCHANGED <<sub, ep, mu>>
  BY DEF CreateVolumeResponse, Backend
<1>2. /\ CHandlerOK(w, h, pc[h], loc[h]) /\ Serves(w, pc[h], loc[h]) /\ CTypeOK /\ Inv(w)
      /\ loc[h].req \in Requests
  BY <1>1, Here
<1>3. PICK r \in Requests : r = loc[h].req
  BY <1>2
<1>4. CASE Err(h) /\ UNCHANGED co
  BY <1>1, <1>4, PlainReturn DEF CreateVolumeResponse, Still, Outcome
<1>5. ASSUME Ok(h), co' = [co EXCEPT ![loc[h].req] = [phase |-> "bound", handle |-> loc[h].name]]
      PROVE  CInv(w)'
  <2>1. loc[h].live /\ co[r].phase = "wanted" /\ loc[h].name \in Names /\ Claim(w, r, loc[h].name)
    BY <1>1, <1>2, <1>3, <1>5 DEF CHandlerOK, Ok, DeletePCs, NamelessPCs
  <2>. DEFINE k == [phase |-> "bound", handle |-> loc[h].name]
  <2>0. /\ k \in [phase : {"bound", "gone"}, handle : Names \union {None}]
        /\ k.phase = "bound" /\ k.handle = loc[h].name
    BY <2>1
  <2>2. PICK c \in [phase : {"bound", "gone"}, handle : Names \union {None}] :
          c = k /\ c.phase = "bound" /\ c.handle = loc[h].name
    BY <2>0
  <2>3. co' = [co EXCEPT ![r] = c] /\ co'[r] = c
    BY <1>2, <1>3, <1>5, <2>2 DEF CTypeOK
  <2>4. Aside /\ Open(r)
    BY <1>2, <1>5, <2>1, PlainAside DEF Open
  <2>5. CRequestOK(w, r)'
    BY <2>1, <2>2, <2>3 DEF CRequestOK
  <2>6. ASSUME w.content[r] # None PROVE CloneRequestOK(w, r)'
    <3>1. CloneOK(w, "reply", loc[h]) /\ CloneRequestOK(w, r)
      BY <1>1, <1>2, <1>3, <2>6 DEF Serves, DeletePCs, Inv
    <3>2. loc[h].name = Home(w, r) /\ Done(w, r) /\ Exposed(w, r)
      BY <1>3, <2>4, <3>1 DEF CloneOK, NamelessPCs
    <3>3. CSubKept(w, h)
      BY <1>1, <2>4, QuietKept DEF Aside
    <3>4. Done(w, r)' /\ Exposed(w, r)'
      BY <1>1, <2>4, <2>6, <3>2, <3>3 DEF CSubKept, CloneKept, Exposed
    <3>. QED
      BY <1>1, <2>2, <2>3, <2>4, <3>1, <3>2, <3>4 DEF CloneRequestOK
  <2>. QED
    BY <1>1, <1>3, <2>1, <2>3, <2>4, <2>5, <2>6, AnswerKeeps
<1>. QED
  BY <1>4, <1>5 DEF CreateVolumeResponse

LEMMA CreateStepKeeps ==
  ASSUME NEW w \in Worlds, CInv(w), Settled(w), NEW h \in Handlers, CreateStep(h), Plain
  PROVE  CInv(w)'
<1>1. UNCHANGED profile
  BY DEF CreateStep
<1>2. CASE checkAndAdoptVolume(h) \/ findSubvolumeByPVCIdentity(h)
  BY <1>1, <1>2, SearchKeeps
<1>3. CASE \/ adoptNFSVolume(h) \/ adoptSMBVolume(h) \/ adoptISCSIVolume(h) \/ adoptNVMeOFVolume(h)
           \/ handleExistingNFSSubvolume(h) \/ handleExistingSMBSubvolume(h)
           \/ handleExistingISCSISubvolume(h) \/ handleExistingNVMeOFSubvolume(h)
  <2>1. \E x : AdoptFindsEndpoint(h, x) \/ HandleExistingShare(h, x) \/ HandleExistingBlock(h, x)
    BY <1>3, Zenon DEF adoptNFSVolume, adoptSMBVolume, adoptISCSIVolume, adoptNVMeOFVolume,
             handleExistingNFSSubvolume, handleExistingSMBSubvolume,
             handleExistingISCSISubvolume, handleExistingNVMeOFSubvolume
  <2>. QED
    BY <1>1, <2>1, ExistingKeeps
<1>4. CASE selectExistingCreateSubvolume(h)
  BY <1>1, <1>4, SelectionKeeps
<1>5. CASE getOrCreateSubvolume(h)
  BY <1>1, <1>5, GetOrCreateKeeps
<1>6. CASE createNFSVolume(h) \/ createSMBVolume(h) \/ createISCSIVolume(h) \/ createNVMeOFVolume(h)
  <2>1. \E x : CreateSubvolume(h, x)
    BY <1>6, Zenon DEF createNFSVolume, createSMBVolume, createISCSIVolume, createNVMeOFVolume
  <2>. QED
    BY <1>1, <2>1, CreateSubvolumeKeeps
<1>7. CASE validateInitializedBlockFilesystem(h)
  BY <1>1, <1>7, ValidateKeeps
<1>8. CASE persistVolumeIdentity(h)
  BY <1>1, <1>8, PersistKeeps
<1>9. CASE verifyIdentityWrite(h)
  BY <1>1, <1>9, VerifyKeeps
<1>10. CASE rollbackCreatedSubvolume(h)
  BY <1>1, <1>10, RollbackKeeps
<1>11. CASE createNFSShareForSubvolume(h) \/ createSMBShareForSubvolume(h) \/ CreateBlockEndpoint(h)
  <2>1. \E x : CreateEndpoint(h, x)
    BY <1>11, Zenon DEF createNFSShareForSubvolume, createSMBShareForSubvolume, CreateBlockEndpoint
  <2>. QED
    BY <1>1, <2>1, EndpointKeeps
<1>12. CASE CreateVolumeResponse(h)
  BY <1>1, <1>12, ResponseKeeps
<1>. QED
  BY <1>2, <1>3, <1>4, <1>5, <1>6, <1>7, <1>8, <1>9, <1>10, <1>11, <1>12, Zenon DEF CreateStep

-----------------------------------------------------------------------------
(* DeleteVolume.                                                           *)

LEMMA DeleteMove ==
  ASSUME NEW w \in Worlds, CInv(w), NEW h \in Handlers, pc[h] \in DeletePCs, NEW p \in DeletePCs,
         Move(h, p), Plain, Still, Outcome(h)
  PROVE  CInv(w)'
<1>1. CHandlerOK(w, h, pc[h], loc[h])
  BY Here DEF DeletePCs
<1>2. CHandlerOK(w, h, p, loc[h]) /\ Serves(w, p, loc[h]) /\ p \in PCs \union ClonePCs
  BY <1>1 DEF CHandlerOK, Serves, NamelessPCs, CIdentityPCs, SeenPCs, ClonePCs, DeletePCs, PreparePCs, PCs
<1>. QED
  BY <1>2, PlainMove

LEMMA LookupKeeps ==
  ASSUME NEW w \in Worlds, CInv(w), NEW h \in Handlers, Plain, UNCHANGED profile,
         lookupDeletionVolume(h)
  PROVE  CInv(w)'
<1>1. pc[h] = "lookup" /\ pc[h] \in DeletePCs
  BY DEF lookupDeletionVolume, DeletePCs
<1>2. /\ CHandlerOK(w, h, pc[h], loc[h]) /\ CTypeOK /\ loc[h] \in LocalType
  BY <1>1, Here
<1>3. CASE Fail(h)
  BY <1>3, FailKeeps
<1>4. CASE Ok(h) /\ Move(h, "deleted") /\ UNCHANGED <<Backend, mu, co>>
  <2>1. "deleted" \in DeletePCs /\ Still /\ Outcome(h)
    BY <1>4 DEF DeletePCs, Still, Outcome
  <2>. QED
    BY <1>1, <1>4, <2>1, DeleteMove
<1>5. CASE Ok(h) /\ Return(h) /\ UNCHANGED <<Backend, mu, co>>
  BY <1>5, PlainReturn DEF Still, Outcome
<1>6. ASSUME Ok(h), Subvol(h) # None, Goto(h, "own"), loc' = [loc EXCEPT ![h].seen = Subvol(h)],
             UNCHANGED <<Backend, mu, co>>
      PROVE  CInv(w)'
  <2>1. Aside /\ UNCHANGED <<sub, ep, co, mu>>
    BY <1>2, <1>6, PlainAside DEF Backend
  <2>2. Subvol(h) \in SubType
    BY <1>1, <1>2, <1>6 DEF Subvol, CTypeOK, CHandlerOK, NamelessPCs
  <2>. DEFINE l == [loc[h] EXCEPT !.seen = Subvol(h)]
  <2>3. /\ l \in LocalType /\ l.name = loc[h].name /\ l.uuid = loc[h].uuid
        /\ l.req = loc[h].req /\ l.created = loc[h].created /\ l.cloning = loc[h].cloning
        /\ l.live = loc[h].live
    BY <1>2, <2>2 DEF LocalType
  <2>4. pc' = [pc EXCEPT ![h] = "own"] /\ loc' = [loc EXCEPT ![h] = l]
    BY <1>2, <1>6 DEF Goto, CTypeOK
  <2>. HIDE DEF l
  <2>5. TagOK(l)
    BY <2>3 DEF TagOK, Tagged
  <2>6. /\ CHandlerOK(w, h, "own", l) /\ Serves(w, "own", l) /\ "own" \in PCs \union ClonePCs
    BY <1>1, <1>2, <2>3 DEF CHandlerOK, Serves, NamelessPCs, CIdentityPCs, SeenPCs, ClonePCs,
                            DeletePCs, PreparePCs, PCs
  <2>. QED
    BY <2>1, <2>3, <2>4, <2>5, <2>6, Quiet DEF Fits
<1>. QED
  BY <1>3, <1>4, <1>5, <1>6 DEF lookupDeletionVolume

LEMMA DeletionKeeps ==
  ASSUME NEW w \in Worlds, CInv(w), Settled(w), NEW h \in Handlers, Plain, UNCHANGED profile, NEW x,
         Deletion(h, x)
  PROVE  CInv(w)'
<1>. DEFINE n == loc[h].name
            r == loc[h].req
<1>1. pc[h] \in DeletePCs
  BY DEF Deletion, VerifyOwnership, FindEndpoint, DeleteEndpoint, DeleteSubvolume, DeletePCs
<1>2. /\ CHandlerOK(w, h, pc[h], loc[h]) /\ CTypeOK /\ loc[h] \in LocalType /\ r \in Requests
  BY <1>1, Here DEF DeletePCs
<1>3. n \in Names /\ Claim(w, r, n) /\ ~Open(r)
  BY <1>1, <1>2 DEF CHandlerOK, NamelessPCs, DeletePCs
<1>4. CASE Fail(h)
  BY <1>4, FailKeeps
<1>5. ASSUME NEW p \in {"deleted", "findEndpoint", "deleteSub", "deleteEndpoint"}, Ok(h), Move(h, p),
             UNCHANGED <<Backend, mu, co>>
      PROVE  CInv(w)'
  <2>1. p \in DeletePCs /\ Still /\ Outcome(h)
    BY <1>5 DEF DeletePCs, Still, Outcome
  <2>. QED
    BY <1>1, <1>5, <2>1, DeleteMove
<1>6. CASE Ok(h) /\ Return(h) /\ UNCHANGED <<Backend, mu, co>>
  BY <1>6, PlainReturn DEF Still, Outcome
<1>7. ASSUME NEW p \in DeletePCs
      PROVE  /\ CHandlerOK(w, h, p, loc[h]) /\ Serves(w, p, loc[h])
             /\ p \in PCs \union ClonePCs /\ TagOK(loc[h])
  BY <1>1, <1>2, <1>7 DEF CHandlerOK, Serves, NamelessPCs, CIdentityPCs, SeenPCs, ClonePCs, DeletePCs,
                          PreparePCs, PCs, TagOK, Tagged
<1>8. PICK l \in LocalType : l = loc[h]
  BY <1>2
<1>9. ASSUME NEW p \in DeletePCs, UNCHANGED <<mu, co>>
      PROVE  CHandlerOK(w, h, p, l)' /\ Serves(w, p, l)'
  BY <1>7, <1>8, <1>9 DEF CHandlerOK, Serves, Open, DeletePCs
<1>10. ASSUME ep' = [ep EXCEPT ![n] = None] PROVE CEpKept(w)
  <2>1. \A q \in Requests : Open(q) => Home(w, q) # n
    BY <1>2, <1>3, HomeClaimed, OneClaimant
  <2>. QED
    BY <1>2, <1>3, <1>10, <2>1, HomeClaimed DEF CEpKept, CTypeOK, Exposed
<1>11. ASSUME sub' = [sub EXCEPT ![n] = None], FromKept PROVE CSubKept(w, h)
  <2>1. Written(w, n, None) /\ \A q \in Requests : ~COwnedBy(q, n, None)
    BY DEF Written, COwnedBy
  <2>. QED
    BY <1>2, <1>3, <1>11, <2>1, CWriteKept
<1>12. CASE VerifyOwnership(h)
  BY <1>4, <1>5, <1>6, <1>12, Zenon DEF VerifyOwnership
<1>13. CASE FindEndpoint(h)
  <2>1. \A b : (IF b THEN "deleteSub" ELSE "deleteEndpoint") \in {"deleted", "findEndpoint", "deleteSub", "deleteEndpoint"}
    OBVIOUS
  <2>. QED
    BY <1>4, <1>5, <1>13, <2>1 DEF FindEndpoint
<1>14. CASE DeleteEndpoint(h)
  <2>1. ASSUME Ok(h), ep' = [ep EXCEPT ![n] = None], Move(h, "deleteSub"), UNCHANGED <<sub, mu, co, excused>>
        PROVE  CInv(w)'
    <3>1. Aside /\ CEpKept(w) /\ "deleteSub" \in DeletePCs
      BY <1>2, <1>10, <2>1, PlainAside DEF DeletePCs
    <3>2. pc' = [pc EXCEPT ![h] = "deleteSub"] /\ loc' = [loc EXCEPT ![h] = l]
      BY <1>2, <1>8, <2>1 DEF Move, Goto, CTypeOK
    <3>. QED
      BY <1>7, <1>8, <1>9, <2>1, <3>1, <3>2, EpStep
  <2>2. ASSUME Lost, ep' = [ep EXCEPT ![n] = None], Return(h), UNCHANGED <<sub, mu, co, excused>>
        PROVE  CInv(w)'
    <3>1. Aside /\ CEpKept(w)
      BY <1>2, <1>10, <2>2, PlainAside
    <3>. QED
      BY <2>2, <3>1, EpReturn
  <2>. QED
    BY <1>4, <1>14, <2>1, <2>2 DEF DeleteEndpoint
<1>15. CASE DeleteSubvolume(h)
  <2>1. ASSUME Ok(h), Write(n, None), Move(h, "deleted"), UNCHANGED <<ep, mu, co>>
        PROVE  CInv(w)'
    <3>1. Aside /\ FromKept /\ "deleted" \in DeletePCs /\ MuKept(h)
      BY <1>2, <2>1, PlainAside, QuietKept DEF DeletePCs, Aside
    <3>2. CSubKept(w, h)
      BY <1>11, <2>1, <3>1 DEF Write
    <3>3. pc' = [pc EXCEPT ![h] = "deleted"] /\ loc' = [loc EXCEPT ![h] = l]
      BY <1>2, <1>8, <2>1 DEF Move, Goto, CTypeOK
    <3>. QED
      BY <1>7, <1>8, <1>9, <2>1, <3>1, <3>2, <3>3, WriteStep
  <2>2. ASSUME Lost, Write(n, None), Return(h), UNCHANGED <<ep, mu, co>>
        PROVE  CInv(w)'
    <3>1. Aside /\ FromKept /\ MuKept(h)
      BY <1>2, <2>2, PlainAside, QuietKept DEF Aside
    <3>2. CSubKept(w, h)
      BY <1>11, <2>2, <3>1 DEF Write
    <3>. QED
      BY <2>2, <3>1, <3>2, WriteReturn
  <2>3. ASSUME Fault, UNCHANGED <<pc, loc, Backend, mu, co>>
        PROVE  CInv(w)'
    <3>1. Move(h, pc[h]) /\ Still /\ Outcome(h)
      BY <1>2, <2>3 DEF Move, Goto, Still, Outcome, CTypeOK
    <3>. QED
      BY <1>1, <3>1, DeleteMove
  <2>. QED
    BY <1>4, <1>6, <1>15, <2>1, <2>2, <2>3, Zenon DEF DeleteSubvolume
<1>. QED
  BY <1>12, <1>13, <1>14, <1>15 DEF Deletion

LEMMA DeleteResponseKeeps ==
  ASSUME NEW w \in Worlds, CInv(w), NEW h \in Handlers, Plain, UNCHANGED profile,
         DeleteVolumeResponse(h)
  PROVE  CInv(w)'
<1>1. pc[h] = "deleted" /\ Return(h) /\ UNCHANGED <<sub, ep, mu>>
  BY DEF DeleteVolumeResponse, Backend
<1>2. CHandlerOK(w, h, pc[h], loc[h]) /\ CTypeOK /\ Inv(w) /\ loc[h].req \in Requests
  BY <1>1, Here
<1>3. PICK r \in Requests : r = loc[h].req
  BY <1>2
<1>4. CASE Err(h) /\ UNCHANGED co
  BY <1>1, <1>4, PlainReturn DEF DeleteVolumeResponse, Still, Outcome
<1>5. ASSUME Ok(h), co' = [co EXCEPT ![loc[h].req].phase = "gone"]
      PROVE  CInv(w)'
  <2>. DEFINE k == [co[r] EXCEPT !.phase = "gone"]
  <2>1. k \in [phase : {"bound", "gone"}, handle : Names \union {None}] /\ k.phase = "gone"
    BY <1>2 DEF CTypeOK
  <2>2. PICK c \in [phase : {"bound", "gone"}, handle : Names \union {None}] : c = k /\ c.phase = "gone"
    BY <2>1
  <2>3. co' = [co EXCEPT ![r] = c] /\ co'[r] = c
    BY <1>2, <1>3, <1>5, <2>2 DEF CTypeOK
  <2>4. Aside /\ loc[h].live
    BY <1>2, <1>5, PlainAside DEF Ok
  <2>5. CRequestOK(w, r)'
    BY <2>2, <2>3 DEF CRequestOK
  <2>6. w.content[r] # None => CloneRequestOK(w, r)'
    BY <1>1, <1>2, <2>2, <2>3 DEF CloneRequestOK, Inv, Open
  <2>. QED
    BY <1>1, <1>3, <2>2, <2>3, <2>4, <2>5, <2>6, AnswerKeeps
<1>. QED
  BY <1>4, <1>5 DEF DeleteVolumeResponse

LEMMA DeleteStepKeeps ==
  ASSUME NEW w \in Worlds, CInv(w), Settled(w), NEW h \in Handlers, DeleteStep(h), Plain
  PROVE  CInv(w)'
<1>1. UNCHANGED profile
  BY DEF DeleteStep
<1>2. CASE lookupDeletionVolume(h)
  BY <1>1, <1>2, LookupKeeps
<1>3. CASE deleteNFSVolume(h) \/ deleteSMBVolume(h) \/ deleteISCSIVolume(h) \/ deleteNVMeOFVolume(h)
  <2>1. \E x : Deletion(h, x)
    BY <1>3, Zenon DEF deleteNFSVolume, deleteSMBVolume, deleteISCSIVolume, deleteNVMeOFVolume
  <2>. QED
    BY <1>1, <2>1, DeletionKeeps
<1>4. CASE DeleteVolumeResponse(h)
  BY <1>1, <1>4, DeleteResponseKeeps
<1>. QED
  BY <1>2, <1>3, <1>4 DEF DeleteStep

-----------------------------------------------------------------------------
(* RPCs begin, are cancelled and die.                                      *)

(* An idle handler takes a request that nobody serves.                     *)
LEMMA StartKeeps ==
  ASSUME NEW w \in Worlds, CInv(w), NEW h \in Handlers, NEW r \in Requests, ~Serving(r),
         NEW p \in PCs \union ClonePCs, NEW l \in LocalType, l.req = r, l.uuid = None,
         Aside, UNCHANGED <<sub, ep, mu>>, CCoKept,
         pc' = [pc EXCEPT ![h] = p], loc' = [loc EXCEPT ![h] = l],
         CHandlerOK(w, h, p, l)', Serves(w, p, l)',
         \A q \in Requests \ {r} : co'[q] = co[q],
         CRequestOK(w, r)', w.content[r] # None => CloneRequestOK(w, r)'
  PROVE  CInv(w)'
<1>1. CTypeOK /\ Inv(w)
  BY DEF CInv
<1>2. CSubKept(w, h) /\ CEpKept(w) /\ MuKept(h)
  BY QuietKept DEF Aside
<1>3. ASSUME NEW g \in Handlers \ {h}, loc[g].live
      PROVE  co'[loc[g].req] = co[loc[g].req] /\ loc[g].req # l.req
  <2>1. loc[g].req # r
    BY <1>3 DEF Serving
  <2>2. pc[g] # "idle"
    BY <1>1, <1>3, CNoLocalsTyped DEF Inv, CHandlerOK
  <2>3. loc[g].req \in Requests
    BY <1>1, <2>2 DEF Inv, CHandlerOK
  <2>. QED
    BY <2>1, <2>3
<1>4. /\ UNCHANGED <<profile, content>> /\ snap' \in [Names -> SubType \union {None}]
      /\ \A n \in Names : snap'[n] \in {snap[n], None}
      /\ faults' \in 0 .. MaxFaults /\ cl' \in [Handlers -> CloneLocalType]
  BY <1>1 DEF Aside, CTypeOK
<1>5. \A q \in Requests : co'[q] = co[q] \/
            (CRequestOK(w, q)' /\ (w.content[q] # None => CloneRequestOK(w, q)'))
  OBVIOUS
<1>6. TagOK(l)
  BY DEF TagOK
<1>7. \A g \in Handlers \ {h} : loc[g].live =>
            co'[loc[g].req] = co[loc[g].req] /\ (l.live => loc[g].req # l.req)
  BY <1>3
<1>. QED
  BY <1>2, <1>4, <1>5, <1>6, <1>7, Step

LEMMA RequestKeeps ==
  ASSUME NEW w \in Worlds, CInv(w), NEW h \in Handlers, NEW r \in Requests, Plain,
         (content[r] = None /\ CreateVolume(h, r)) \/ DeleteVolume(h, r)
  PROVE  CInv(w)'
<1>1. CTypeOK /\ Inv(w) /\ ~Serving(r) /\ UNCHANGED <<profile, sub, ep, mu, faults>>
  BY DEF CInv, CreateVolume, DeleteVolume, Backend
<1>2. Aside
  BY <1>1, PlainAside
<1>3. CRequestOK(w, r) /\ (w.content[r] # None => CloneRequestOK(w, r)) /\ content = w.content
  BY <1>1 DEF Inv
<1>4. CASE content[r] = None /\ CreateVolume(h, r)
  <2>1. co[r].phase = "wanted" /\ Goto(h, "findName") /\ loc' = [loc EXCEPT ![h] = Locals(r)] /\ UNCHANGED co
    BY <1>4 DEF CreateVolume
  <2>2. PICK l \in LocalType : /\ l = Locals(r) /\ l.req = r /\ l.uuid = None /\ l.created = FALSE
                               /\ l.cloning = FALSE
    BY <1>1, CLocalsTyped
  <2>3. CHandlerOK(w, h, "findName", l)'
    BY <1>3, <2>1, <2>2 DEF CHandlerOK, CRequestOK, NamelessPCs, CIdentityPCs, SeenPCs, ClonePCs, DeletePCs
  <2>4. Serves(w, "findName", l)' /\ "findName" \in PCs \union ClonePCs
    BY <1>3, <1>4, <2>2 DEF Serves, PCs
  <2>5. CCoKept /\ CRequestOK(w, r)' /\ w.content[r] = None
    BY <1>3, <1>4, <2>1, QuietKept DEF CRequestOK
  <2>6. pc' = [pc EXCEPT ![h] = "findName"] /\ loc' = [loc EXCEPT ![h] = l] /\ \A q \in Requests \ {r} : co'[q] = co[q]
    BY <2>1, <2>2 DEF Goto
  <2>. QED
    BY <1>1, <1>2, <2>2, <2>3, <2>4, <2>5, <2>6, StartKeeps
<1>5. CASE DeleteVolume(h, r)
  <2>1. /\ co[r].phase \in {"bound", "deleting"} /\ co' = [co EXCEPT ![r].phase = "deleting"]
        /\ Goto(h, "lookup") /\ loc' = [loc EXCEPT ![h] = [Locals(r) EXCEPT !.name = co[r].handle]]
    BY <1>5 DEF DeleteVolume
  <2>2. co[r].handle \in Names /\ Claim(w, r, co[r].handle)
    BY <1>3, <2>1 DEF CRequestOK
  <2>. DEFINE k == [Locals(r) EXCEPT !.name = co[r].handle]
  <2>3. /\ k \in LocalType /\ k.req = r /\ k.uuid = None /\ k.created = FALSE
        /\ k.cloning = FALSE /\ k.name = co[r].handle
    BY <1>1, <2>2, CLocalsTyped DEF LocalType
  <2>4. PICK l \in LocalType : /\ l = k /\ l.req = r /\ l.uuid = None /\ l.created = FALSE
                               /\ l.cloning = FALSE /\ l.name = co[r].handle
    BY <2>3
  <2>5. /\ co' \in [Requests -> [phase : {"wanted", "bound", "deleting", "gone"},
                                 handle : Names \union {None}]]
        /\ co'[r].phase = "deleting" /\ co'[r].handle = co[r].handle
        /\ \A q \in Requests \ {r} : co'[q] = co[q]
    BY <1>1, <2>1 DEF CTypeOK
  <2>6. CCoKept /\ ~Open(r)'
    BY <2>5 DEF CCoKept, Open
  <2>7. CHandlerOK(w, h, "lookup", l)'
    BY <2>2, <2>4, <2>6 DEF CHandlerOK, NamelessPCs, CIdentityPCs, SeenPCs, ClonePCs, DeletePCs
  <2>8. Serves(w, "lookup", l)' /\ "lookup" \in PCs \union ClonePCs
    BY DEF Serves, PCs, DeletePCs
  <2>9. CRequestOK(w, r)'
    BY <2>2, <2>5 DEF CRequestOK
  <2>10. w.content[r] # None => CloneRequestOK(w, r)'
    BY <1>1, <1>3, <2>5, <2>6 DEF CloneRequestOK
  <2>11. pc' = [pc EXCEPT ![h] = "lookup"] /\ loc' = [loc EXCEPT ![h] = l]
    BY <2>1, <2>4 DEF Goto
  <2>. QED
    BY <1>1, <1>2, <2>4, <2>5, <2>6, <2>7, <2>8, <2>9, <2>10, <2>11, StartKeeps
<1>. QED
  BY <1>4, <1>5

LEMMA CancelKeeps ==
  ASSUME NEW w \in Worlds, CInv(w), NEW h \in Handlers, Cancel(h), Plain
  PROVE  CInv(w)'
<1>1. pc[h] # "idle" /\ UNCHANGED <<profile, sub, ep, mu, pc, co>> /\ Fault
  BY DEF Cancel, Backend
<1>2. CHandlerOK(w, h, pc[h], loc[h]) /\ Serves(w, pc[h], loc[h]) /\ CTypeOK /\ loc[h] \in LocalType
  BY <1>1, Here
<1>3. Aside
  BY <1>1, <1>2, PlainAside
<1>. DEFINE l == [loc[h] EXCEPT !.live = FALSE]
<1>4. /\ l \in LocalType /\ l.name = loc[h].name /\ l.seen = loc[h].seen /\ l.uuid = loc[h].uuid
      /\ l.req = loc[h].req /\ l.created = loc[h].created /\ l.cloning = loc[h].cloning
      /\ l.exposed = loc[h].exposed /\ l.live = FALSE
  BY <1>2 DEF LocalType
<1>5. pc' = [pc EXCEPT ![h] = pc[h]] /\ loc' = [loc EXCEPT ![h] = l] /\ pc[h] \in PCs \union ClonePCs
  BY <1>1, <1>2 DEF Cancel, CTypeOK
<1>. HIDE DEF l
<1>6. CHandlerOK(w, h, pc[h], l) /\ Serves(w, pc[h], l) /\ TagOK(l)
  BY <1>1, <1>2, <1>4 DEF CHandlerOK, Serves, CloneOK, TagOK, Tagged
<1>. QED
  BY <1>1, <1>3, <1>4, <1>5, <1>6, Quiet DEF Fits

(* Only the backend and what the CO knows outlive a crash.                 *)
LEMMA CrashKeeps ==
  ASSUME NEW w \in Worlds, CInv(w), Crash, Plain
  PROVE  CInv(w)'
<1>1. CTypeOK /\ OneName /\ Inv(w)
  BY DEF CInv
<1>2. /\ UNCHANGED <<profile, sub, ep, co, content, snap>> /\ mu' = None /\ Fault
      /\ pc' = [h \in Handlers |-> "idle"] /\ loc' = [h \in Handlers |-> NoLocals]
  BY DEF Crash, Plain, Backend
<1>3. FromKept /\ cl' \in [Handlers -> CloneLocalType]
  <2>1. NoClone \in CloneLocalType
    BY DEF NoClone, CloneLocalType
  <2>. QED
    BY <1>1, <2>1 DEF Plain, CTypeOK, FromKept
<1>4. CTypeOK'
  <2>1. faults' \in 0 .. MaxFaults
    BY <1>1, <1>2, MaxFaultsAssumption DEF Fault, CTypeOK
  <2>2. pc' \in [Handlers -> PCs \union ClonePCs] /\ loc' \in [Handlers -> LocalType]
    BY <1>2, CNoLocalsTyped DEF PCs
  <2>. QED
    BY <1>1, <1>2, <1>3, <2>1, <2>2 DEF CTypeOK, FromKept
<1>5. OneName'
  <2>1. ASSUME NEW u \in UUIDs, NEW m, Tagged(u, m)' PROVE Tagged(u, m)
    BY <1>2, <2>1, CNoLocalsTyped, CNoneApart DEF Tagged, Records
  <2>. QED
    BY <1>1, <2>1 DEF OneName
<1>6. ASSUME NEW h \in Handlers PROVE (CHandlerOK(w, h, pc[h], loc[h]) /\ Serves(w, pc[h], loc[h]))'
  <2>1. CHandlerOK(w, h, "idle", NoLocals)' /\ Serves(w, "idle", NoLocals)'
    BY CIdleOK DEF Serves
  <2>2. pc'[h] = "idle" /\ loc'[h] = NoLocals
    BY <1>2
  <2>. QED
    BY <2>1, <2>2 DEF CHandlerOK, Serves
<1>7. OneLive'
  BY <1>2, CNoLocalsTyped DEF OneLive
<1>8. ASSUME NEW r \in Requests
      PROVE  (CRequestOK(w, r) /\ (w.content[r] # None => CloneRequestOK(w, r)))'
  <2>1. CRequestOK(w, r) /\ (w.content[r] # None => CloneRequestOK(w, r))
    BY <1>1 DEF Inv
  <2>2. Home(w, r) \in Names
    BY HomeClaimed
  <2>3. Done(w, r) => Done(w, r)'
    BY <1>2, <1>3, <2>2 DEF Done, COwnedBy, FromKept, hasCompleteV2Identity, V2
  <2>. QED
    BY <1>2, <2>1, <2>3 DEF CRequestOK, CloneRequestOK, Open, Exposed
<1>9. Inv(w)'
  BY <1>1, <1>2, <1>6, <1>7, <1>8 DEF Inv, Clear, V2
<1>. QED
  BY <1>4, <1>5, <1>9 DEF CInv

LEMMA SnapshotDeletedKeeps ==
  ASSUME NEW w \in Worlds, CInv(w), NEW n \in Names, SnapshotDeleted(n)
  PROVE  CInv(w)'
<1>1. CTypeOK /\ OneName /\ Inv(w)
  BY DEF CInv
<1>2. /\ UNCHANGED <<profile, sub, ep, mu, pc, loc, co, faults, content, from, cl>>
      /\ snap' = [snap EXCEPT ![n] = None]
  BY DEF SnapshotDeleted
<1>3. \A m \in Names : snap'[m] \in {snap[m], None}
  BY <1>1, <1>2 DEF CTypeOK
<1>4. CTypeOK'
  BY <1>1, <1>2 DEF CTypeOK
<1>5. OneName'
  <2>1. ASSUME NEW u \in UUIDs, NEW m, Tagged(u, m)' PROVE Tagged(u, m)
    BY <1>2, <1>3, <2>1 DEF Tagged, Records
  <2>. QED
    BY <1>1, <2>1 DEF OneName
<1>6. Inv(w)'
  <2>1. \A m \in Names : snap'[m] # None => Clear(w, m, snap'[m])
    BY <1>1, <1>3 DEF Inv
  <2>2. ASSUME NEW h \in Handlers PROVE (CHandlerOK(w, h, pc[h], loc[h]) /\ Serves(w, pc[h], loc[h]))'
    <3>1. CHandlerOK(w, h, pc[h], loc[h]) /\ Serves(w, pc[h], loc[h])
      BY <1>1 DEF Inv
    <3>. QED
      BY <1>2, <3>1 DEF CHandlerOK, Serves, CloneOK, FromOrigin, Done, COwnedBy, Open, Exposed,
                        hasCompleteV2Identity, V2
  <2>3. ASSUME NEW r \in Requests
        PROVE  (CRequestOK(w, r) /\ (w.content[r] # None => CloneRequestOK(w, r)))'
    <3>1. CRequestOK(w, r) /\ (w.content[r] # None => CloneRequestOK(w, r))
      BY <1>1 DEF Inv
    <3>. QED
      BY <1>2, <3>1 DEF CRequestOK, CloneRequestOK, Done, COwnedBy, Open, Exposed, hasCompleteV2Identity, V2
  <2>. QED
    BY <1>1, <1>2, <2>1, <2>2, <2>3 DEF Inv, Clear, V2, OneLive
<1>. QED
  BY <1>4, <1>5, <1>6 DEF CInv

-----------------------------------------------------------------------------
(* The steps of a handler that clones.                                     *)

LEMMA CloneAside ==
  ASSUME CTypeOK, NEW h \in Handlers, Fixed, FromKept, Outcome(h), cl' \in [Handlers -> CloneLocalType]
  PROVE  Aside
<1>1. faults' \in 0 .. MaxFaults
  BY CFaultsTyped DEF Outcome
<1>. QED
  BY <1>1 DEF Aside, Fixed

(* A call that only reads.                                                 *)
LEMMA ReadAside ==
  ASSUME NEW w \in Worlds, CInv(w), NEW h \in Handlers, Fixed, Reads, Outcome(h),
         cl' \in [Handlers -> CloneLocalType]
  PROVE  Aside /\ UNCHANGED <<sub, ep, co, mu>> /\ MuKept(h)
<1>1. CTypeOK /\ FromKept
  BY DEF CInv, CTypeOK, FromKept, Reads
<1>2. MuKept(h)
  BY QuietKept DEF Fixed
<1>. QED
  BY <1>1, <1>2, CloneAside DEF Reads, Fixed

LEMMA CloneReturn ==
  ASSUME NEW w \in Worlds, CInv(w), NEW h \in Handlers, Return(h), Fixed, Reads, Outcome(h), UNCHANGED cl
  PROVE  CInv(w)'
<1>1. cl' \in [Handlers -> CloneLocalType]
  BY DEF CInv, CTypeOK
<1>. QED
  BY <1>1, ReadAside, ReturnKeeps

LEMMA CloneMove ==
  ASSUME NEW w \in Worlds, CInv(w), NEW h \in Handlers, NEW p \in PCs \union ClonePCs, Move(h, p),
         Fixed, Reads, Outcome(h), cl' \in [Handlers -> CloneLocalType],
         CHandlerOK(w, h, p, loc[h]), Serves(w, p, loc[h])
  PROVE  CInv(w)'
<1>1. Aside /\ UNCHANGED <<sub, ep, co, mu>> /\ MuKept(h)
  BY ReadAside
<1>2. CHandlerOK(w, h, p, loc[h])'
  BY <1>1 DEF Move, CHandlerOK, COwnedBy, hasCompleteV2Identity, V2, Open
<1>. QED
  BY <1>1, <1>2, MoveKeeps

LEMMA CloneFailKeeps ==
  ASSUME NEW w \in Worlds, CInv(w), NEW h \in Handlers, CloneFail(h), Fixed
  PROVE  CInv(w)'
  BY CloneReturn DEF CloneFail, Outcome

LEMMA FromContentKeeps ==
  ASSUME NEW w \in Worlds, CInv(w), NEW h \in Handlers, NEW r \in Requests,
         CreateVolumeFromContent(h, r)
  PROVE  CInv(w)'
<1>1. /\ co[r].phase = "wanted" /\ ~Serving(r) /\ content[r] # None /\ Goto(h, "source")
      /\ loc' = [loc EXCEPT ![h] = [Locals(r) EXCEPT !.cloning = TRUE]]
      /\ Fixed /\ Reads /\ Outcome(h) /\ UNCHANGED <<cl, co>>
  BY DEF CreateVolumeFromContent, Outcome, Fixed
<1>2. CTypeOK /\ Inv(w) /\ CRequestOK(w, r) /\ content = w.content /\ CloneRequestOK(w, r)
  BY <1>1 DEF CInv, Inv
<1>3. cl' \in [Handlers -> CloneLocalType]
  BY <1>1, <1>2 DEF CTypeOK
<1>4. Aside /\ UNCHANGED <<sub, ep, co, mu>>
  BY <1>1, <1>3, ReadAside
<1>. DEFINE k == [Locals(r) EXCEPT !.cloning = TRUE]
<1>5. /\ k \in LocalType /\ k.req = r /\ k.uuid = None /\ k.created = FALSE
      /\ k.cloning = TRUE /\ k.exposed = FALSE
  BY <1>2, CLocalsTyped DEF LocalType
<1>6. PICK l \in LocalType : /\ l = k /\ l.req = r /\ l.uuid = None /\ l.created = FALSE
                             /\ l.cloning = TRUE /\ l.exposed = FALSE
  BY <1>5
<1>7. pc' = [pc EXCEPT ![h] = "source"] /\ loc' = [loc EXCEPT ![h] = l]
  BY <1>1, <1>6 DEF Goto
<1>. HIDE DEF k
<1>8. CHandlerOK(w, h, "source", l)'
  BY <1>1, <1>2, <1>6 DEF CHandlerOK, CRequestOK, NamelessPCs, CIdentityPCs, SeenPCs, ClonePCs, DeletePCs, PreparePCs
<1>9. Serves(w, "source", l)' /\ "source" \in PCs \union ClonePCs
  BY <1>6 DEF Serves, CloneOK, ClonePCs, DeletePCs, SearchPCs, NamelessPCs, ClonedPCs
<1>10. CCoKept /\ CRequestOK(w, r)'
  BY <1>1, <1>2, QuietKept DEF CRequestOK
<1>11. CloneRequestOK(w, r)'
  BY <1>1, <1>2, <1>4 DEF CloneRequestOK, Open
<1>. QED
  BY <1>1, <1>4, <1>6, <1>7, <1>8, <1>9, <1>10, <1>11, StartKeeps

(* Between the source and the destination only the program counter moves.  *)
LEMMA Onward ==
  ASSUME NEW w \in Worlds, CInv(w), NEW h \in Handlers, pc[h] \in {"source", "sourceRead"},
         NEW p \in {"sourceRead", "cloneSelect"}
  PROVE  CHandlerOK(w, h, p, loc[h]) /\ Serves(w, p, loc[h]) /\ p \in PCs \union ClonePCs
<1>1. CHandlerOK(w, h, pc[h], loc[h]) /\ Serves(w, pc[h], loc[h])
  BY Here
<1>2. p \in ClonePCs /\ p \in NamelessPCs /\ p \notin DeletePCs /\ p \notin CIdentityPCs \union SeenPCs
  BY DEF ClonePCs, NamelessPCs, DeletePCs, CIdentityPCs, SeenPCs
<1>3. loc[h].cloning /\ loc[h].req \in Requests
  BY <1>1 DEF CHandlerOK, ClonePCs
<1>4. CHandlerOK(w, h, p, loc[h])
  BY <1>1, <1>2, <1>3 DEF CHandlerOK, PreparePCs, DeletePCs
<1>5. Serves(w, p, loc[h])
  BY <1>1, <1>2, <1>3 DEF Serves, CloneOK, DeletePCs, SearchPCs, NamelessPCs, ClonedPCs
<1>. QED
  BY <1>2, <1>4, <1>5

LEMMA SourceKeeps ==
  ASSUME NEW w \in Worlds, CInv(w), NEW h \in Handlers, lookupSource(h) \/ readSource(h)
  PROVE  CInv(w)'
<1>. DEFINE s == sub[Source(h).of]
<1>1. pc[h] \in {"source", "sourceRead"} /\ Fixed
  BY DEF lookupSource, readSource
<1>2. CASE CloneFail(h)
  BY <1>1, <1>2, CloneFailKeeps
<1>3. CASE Ok(h) /\ Reads /\ UNCHANGED cl /\ Return(h)
  BY <1>1, <1>3, CloneReturn DEF Outcome
<1>4. CASE Ok(h) /\ Reads /\ UNCHANGED cl /\ Move(h, "sourceRead")
  <2>1. cl' \in [Handlers -> CloneLocalType]
    BY <1>4 DEF CInv, CTypeOK
  <2>. QED
    BY <1>1, <1>4, <2>1, Onward, CloneMove DEF Outcome
<1>5. CASE Ok(h) /\ Reads /\ Move(h, "cloneSelect") /\ cl' = [cl EXCEPT ![h].source = s]
  <2>1. /\ CHandlerOK(w, h, pc[h], loc[h]) /\ CTypeOK /\ content = w.content /\ loc[h].req \in Requests
    BY <1>1, Here DEF Inv
  <2>2. content[loc[h].req] # None
    BY <1>1, <2>1 DEF CHandlerOK, ClonePCs
  <2>3. s \in SubType \union {None}
    BY <2>1, <2>2 DEF CTypeOK, Source, ContentType
  <2>. HIDE DEF s
  <2>4. cl' \in [Handlers -> CloneLocalType]
    BY <1>5, <2>1, <2>3 DEF CTypeOK, CloneLocalType
  <2>. QED
    BY <1>1, <1>5, <2>4, Onward, CloneMove DEF Outcome
<1>6. CASE lookupSource(h)
  BY <1>2, <1>3, <1>4, <1>6, Zenon DEF lookupSource
<1>7. CASE readSource(h)
  BY <1>2, <1>3, <1>5, <1>7, Zenon DEF readSource
<1>. QED
  BY <1>6, <1>7

LEMMA DestinationKeeps ==
  ASSUME NEW w \in Worlds, CInv(w), NEW h \in Handlers, pc[h] \in {"cloneSelect", "cloneSelectLegacy"},
         NEW n \in Names, n = Home(w, loc[h].req), NEW existed \in BOOLEAN, NEW legacy \in BOOLEAN,
         Destination(h, n, existed, legacy), Fixed, Reads, Ok(h)
  PROVE  CInv(w)'
<1>1. /\ CHandlerOK(w, h, pc[h], loc[h]) /\ Serves(w, pc[h], loc[h]) /\ CTypeOK
      /\ loc[h] \in LocalType /\ loc[h].req \in Requests
  BY Here
<1>2. loc[h].cloning /\ w.content[loc[h].req] # None /\ Claim(w, loc[h].req, n)
  BY <1>1, HomeClaimed DEF CHandlerOK, ClonePCs
<1>3. PICK u \in UUIDs : newVolumeUUID(u) /\ loc' = [loc EXCEPT ![h].name = n, ![h].uuid = u]
  BY DEF Destination
<1>4. cl' \in [Handlers -> CloneLocalType]
  <2>. DEFINE k == [cl[h] EXCEPT !.existed = existed, !.legacy = legacy]
  <2>1. cl \in [Handlers -> CloneLocalType] /\ cl[h] \in CloneLocalType
    BY <1>1 DEF CTypeOK
  <2>2. k \in CloneLocalType
    BY <2>1 DEF CloneLocalType
  <2>3. cl' = [cl EXCEPT ![h] = k]
    BY <2>1 DEF Destination
  <2>. HIDE DEF k
  <2>. QED
    BY <2>1, <2>2, <2>3
<1>5. Aside /\ UNCHANGED <<sub, ep, co, mu>>
  BY <1>4, ReadAside DEF Outcome
<1>. DEFINE l == [loc[h] EXCEPT !.name = n, !.uuid = u]
<1>6. /\ l \in LocalType /\ l.name = n /\ l.uuid = u /\ l.req = loc[h].req
      /\ l.created = loc[h].created /\ l.cloning = loc[h].cloning
      /\ l.exposed = loc[h].exposed /\ l.live = loc[h].live
  BY <1>1 DEF LocalType
<1>7. pc' = [pc EXCEPT ![h] = "clone"] /\ loc' = [loc EXCEPT ![h] = l]
  BY <1>1, <1>3 DEF Destination, Goto, CTypeOK
<1>. HIDE DEF l
<1>8. loc'[h].uuid = u
  BY <1>1, <1>6, <1>7 DEF CTypeOK
<1>9. TagOK(l)
  BY <1>3, <1>6, <1>8, FreshTag DEF Destination, TagOK
<1>10. CHandlerOK(w, h, "clone", l)
  BY <1>1, <1>2, <1>6 DEF CHandlerOK, NamelessPCs, CIdentityPCs, SeenPCs, ClonePCs, DeletePCs, PreparePCs
<1>11. Serves(w, "clone", l) /\ "clone" \in PCs \union ClonePCs
  BY <1>1, <1>2, <1>6 DEF Serves, CloneOK, ClonePCs, DeletePCs, SearchPCs, NamelessPCs, ClonedPCs
<1>. QED
  BY <1>5, <1>6, <1>7, <1>9, <1>10, <1>11, Quiet DEF Fits

LEMMA DestinationSelected ==
  ASSUME NEW w \in Worlds, CInv(w), NEW h \in Handlers, selectCloneDestination(h)
  PROVE  CInv(w)'
<1>. DEFINE b == P(h).backend
            l == P(h).legacy
            r == loc[h].req
<1>1. pc[h] \in {"cloneSelect", "cloneSelectLegacy"} /\ Fixed
  BY DEF selectCloneDestination
<1>2. /\ CHandlerOK(w, h, pc[h], loc[h]) /\ Serves(w, pc[h], loc[h]) /\ CTypeOK /\ Inv(w)
      /\ r \in Requests /\ P(h) = w.profile[r] /\ b \in Names /\ l \in Names
  BY <1>1, Here
<1>3. /\ loc[h].cloning /\ w.content[r] # None /\ Claim(w, r, b) /\ Wanted(w, r) /\ CloneRequestOK(w, r)
      /\ (loc[h].live => Open(r))
  BY <1>1, <1>2 DEF CHandlerOK, ClonePCs, DeletePCs, Claim, Inv, Open
<1>4. /\ Home(w, r) \in {b, l}
      /\ w.subs[b] # None => Home(w, r) = b
      /\ Home(w, r) # b => w.subs[b] = None /\ w.subs[l] # None
      /\ w.subs[b] = None /\ w.subs[l] # None /\ Claim(w, r, l) => Home(w, r) = l
  BY <1>2, HomeChoice
<1>5. Open(r) /\ w.subs[Home(w, r)] # None => sub[Home(w, r)] # None
  BY <1>3 DEF CloneRequestOK
<1>6. CASE CloneFail(h)
  BY <1>1, <1>6, CloneFailKeeps
<1>7. ASSUME Ok(h), Reads, NEW n \in Names, NEW existed \in BOOLEAN, NEW legacy \in BOOLEAN,
             Destination(h, n, existed, legacy), n = Home(w, r)
      PROVE  CInv(w)'
  BY <1>1, <1>7, DestinationKeeps
<1>8. ASSUME pc[h] = "cloneSelect", Ok(h), sub[b] # None PROVE b = Home(w, r)
  <2>. SUFFICES ASSUME Home(w, r) # b PROVE FALSE
    BY Zenon
  <2>. QED
    BY <1>4, <1>2, <1>3, <1>8, OnlyHome
<1>9. ASSUME pc[h] = "cloneSelect", Ok(h), l = b PROVE b = Home(w, r)
  BY <1>4, <1>9
<1>10. ASSUME pc[h] = "cloneSelect", Ok(h), Reads, sub[b] = None, Move(h, "cloneSelectLegacy"), UNCHANGED cl
      PROVE  CInv(w)'
  <2>1. w.subs[b] = None
    BY <1>4, <1>3, <1>10, <1>5 DEF Ok
  <2>2. CHandlerOK(w, h, "cloneSelectLegacy", loc[h])
    BY <1>2, <1>3, <1>10 DEF CHandlerOK, NamelessPCs, CIdentityPCs, SeenPCs, ClonePCs, DeletePCs, PreparePCs
  <2>3. Serves(w, "cloneSelectLegacy", loc[h]) /\ "cloneSelectLegacy" \in PCs \union ClonePCs
    BY <1>2, <1>3, <1>10, <2>1 DEF Serves, CloneOK, ClonePCs, DeletePCs, SearchPCs, NamelessPCs, ClonedPCs
  <2>4. cl' \in [Handlers -> CloneLocalType]
    BY <1>2, <1>10 DEF CTypeOK
  <2>. QED
    BY <1>1, <1>10, <2>2, <2>3, <2>4, CloneMove DEF Outcome
<1>11. ASSUME pc[h] = "cloneSelectLegacy" PROVE w.subs[b] = None
  BY <1>2, <1>3, <1>11 DEF Serves, CloneOK, DeletePCs
<1>12. ASSUME pc[h] = "cloneSelectLegacy", Ok(h), sub[l] = None PROVE b = Home(w, r)
  <2>1. Home(w, r) = l => w.subs[l] = None
    BY <1>3, <1>12, <1>5 DEF Ok
  <2>. QED
    BY <1>4, <2>1, Zenon
<1>13. ASSUME pc[h] = "cloneSelectLegacy", Ok(h), sub[l] # None, LegacyProof(h, l) PROVE l = Home(w, r)
  <2>1. Mentions(w, r, sub[l])
    BY <1>2, <1>13 DEF LegacyProof, legacyPVCIdentityMatches, Mentions, Inv
  <2>2. Claim(w, r, l)
    BY <1>2, <1>3, <1>13, <2>1 DEF Inv, Clear
  <2>. QED
    <3>1. CASE w.subs[l] = None
      BY <1>2, <1>3, <1>13, <2>2, <3>1, OnlyHome
    <3>2. CASE w.subs[l] # None
      BY <1>4, <1>11, <1>13, <2>2, <3>2
    <3>. QED
      BY <3>1, <3>2
<1>14. CASE Ok(h) /\ Reads /\ UNCHANGED cl /\ Return(h)
  BY <1>1, <1>14, CloneReturn DEF Outcome
<1>15. CASE pc[h] = "cloneSelect" /\ ~CloneFail(h)
  <2>1. /\ Ok(h) /\ Reads
        /\ \/ sub[b] # None /\ Destination(h, b, TRUE, FALSE)
           \/ sub[b] = None /\ l = b /\ Destination(h, b, FALSE, FALSE)
           \/ sub[b] = None /\ Move(h, "cloneSelectLegacy") /\ UNCHANGED cl
    BY <1>15 DEF selectCloneDestination
  <2>. QED
    <3>1. ASSUME sub[b] # None, Destination(h, b, TRUE, FALSE) PROVE CInv(w)'
      BY <1>2, <1>7, <1>8, <1>15, <2>1, <3>1
    <3>2. ASSUME l = b, Destination(h, b, FALSE, FALSE) PROVE CInv(w)'
      BY <1>2, <1>7, <1>9, <1>15, <2>1, <3>2
    <3>. QED
      BY <1>10, <1>15, <2>1, <3>1, <3>2, Zenon
<1>16. CASE pc[h] = "cloneSelectLegacy" /\ ~CloneFail(h)
  <2>1. /\ Ok(h) /\ Reads
        /\ \/ sub[l] = None /\ Destination(h, b, FALSE, FALSE)
           \/ sub[l] # None /\ LegacyProof(h, l) /\ Destination(h, l, TRUE, TRUE)
           \/ Return(h) /\ UNCHANGED cl
    BY <1>16 DEF selectCloneDestination
  <2>. QED
    <3>1. ASSUME sub[l] = None, Destination(h, b, FALSE, FALSE) PROVE CInv(w)'
      BY <1>2, <1>7, <1>12, <1>16, <2>1, <3>1
    <3>2. ASSUME sub[l] # None, LegacyProof(h, l), Destination(h, l, TRUE, TRUE) PROVE CInv(w)'
      BY <1>2, <1>7, <1>13, <1>16, <2>1, <3>2
    <3>. QED
      BY <1>14, <2>1, <3>1, <3>2, Zenon
<1>. QED
  BY <1>1, <1>6, <1>15, <1>16

(* The copy of a source leads no request that is still to be served to it. *)
LEMMA CopyWritten ==
  ASSUME NEW w \in Worlds, CInv(w), Settled(w), NEW h \in Handlers, pc[h] = "clone",
         Original(h) # None
  PROVE  /\ Written(w, loc[h].name, Original(h))
         /\ \A q \in Requests : Wanted(w, q) => ~COwnedBy(q, loc[h].name, Original(h))
<1>. DEFINE r == loc[h].req
            m == content[r].of
            x == Original(h)
<1>1. CHandlerOK(w, h, pc[h], loc[h]) /\ CTypeOK /\ Inv(w) /\ r \in Requests
  BY Here
<1>2. w.content[r] # None /\ content = w.content
  BY <1>1 DEF CHandlerOK, ClonePCs, Inv
<1>3. content[r] \in ContentType /\ m \in Names
  BY <1>1, <1>2 DEF CTypeOK, ContentType
<1>4. \/ x = sub[m] /\ sub[m] # None
      \/ x = snap[m] /\ snap[m] # None
  BY DEF Original, OriginalOf
<1>. HIDE DEF x
<1>5. x \in SubType /\ Clear(w, m, x)
  BY <1>1, <1>3, <1>4 DEF CTypeOK, Inv
<1>6. \A q \in Requests : Wanted(w, q) => ~Mentions(w, q, x)
  BY <1>1, <1>2, <1>5 DEF Settled, SettledSource, Clear
<1>7. Tagged(x.uuid, x.csi)
  BY <1>3, <1>4 DEF Tagged, Records
<1>8. Written(w, loc[h].name, x)
  BY <1>5, <1>6, <1>7 DEF Written, Clear
<1>9. \A q \in Requests : Wanted(w, q) => ~COwnedBy(q, loc[h].name, x)
  BY <1>6 DEF Mentions, COwnedBy
<1>. QED
  BY <1>8, <1>9 DEF x

LEMMA CloneKeeps ==
  ASSUME NEW w \in Worlds, CInv(w), Settled(w), NEW h \in Handlers, Clone(h)
  PROVE  CInv(w)'
<1>. DEFINE n == loc[h].name
            r == loc[h].req
            x == Original(h)
<1>1. pc[h] = "clone" /\ Fixed
  BY DEF Clone
<1>2. /\ CHandlerOK(w, h, pc[h], loc[h]) /\ Serves(w, pc[h], loc[h]) /\ CTypeOK /\ Inv(w)
      /\ loc[h] \in LocalType /\ r \in Requests
  BY <1>1, Here
<1>3. /\ loc[h].cloning /\ w.content[r] # None /\ Wanted(w, r) /\ n \in Names /\ Claim(w, r, n)
      /\ (loc[h].live => co[r].phase = "wanted") /\ loc[h].uuid \in UUIDs /\ content = w.content
  BY <1>1, <1>2 DEF CHandlerOK, ClonePCs, DeletePCs, NamelessPCs, CIdentityPCs, Inv
<1>4. CloneOK(w, "clone", loc[h]) /\ n = Home(w, r) /\ CloneRequestOK(w, r)
  BY <1>1, <1>2, <1>3 DEF Serves, CloneOK, DeletePCs, NamelessPCs, Inv
<1>5. Origin(h) = OriginOf(w, r) /\ Origin(h) \in OriginType
  <2>1. content[r] \in ContentType
    BY <1>2, <1>3 DEF CTypeOK
  <2>. QED
    BY <1>3, <2>1 DEF Origin, OriginOf, Source, ContentType, OriginType
<1>6. CASE CloneFail(h)
  BY <1>1, <1>6, CloneFailKeeps
<1>7. CASE Ok(h) /\ Return(h) /\ UNCHANGED cl /\ Reads
  BY <1>1, <1>7, CloneReturn DEF Outcome
<1>8. ASSUME Ok(h), from[n] = Origin(h), Move(h, "capacity"), UNCHANGED cl, Reads
      PROVE  CInv(w)'
  <2>1. CHandlerOK(w, h, "capacity", loc[h])
    BY <1>1, <1>2, <1>3 DEF CHandlerOK, NamelessPCs, CIdentityPCs, SeenPCs, ClonePCs, DeletePCs, PreparePCs
  <2>2. CloneOK(w, "capacity", loc[h])
    BY <1>3, <1>4, <1>5, <1>8 DEF CloneOK, SearchPCs, NamelessPCs, ClonedPCs, FromOrigin
  <2>3. Serves(w, "capacity", loc[h]) /\ "capacity" \in PCs \union ClonePCs
    BY <2>2 DEF Serves, ClonePCs
  <2>4. cl' \in [Handlers -> CloneLocalType]
    BY <1>2, <1>8 DEF CTypeOK
  <2>. QED
    BY <1>1, <1>8, <2>1, <2>3, <2>4, CloneMove DEF Outcome
<1>9. ASSUME x # None, sub[n] = None, Write(n, x), from' = [from EXCEPT ![n] = Origin(h)], UNCHANGED cl,
             Outcome(h)
      PROVE  Aside /\ CSubKept(w, h) /\ MuKept(h) /\ UNCHANGED <<ep, co>> /\ from'[n] = OriginOf(w, r)
  <2>1. from' \in [Names -> OriginType \union {None}] /\ from'[n] = OriginOf(w, r)
    BY <1>2, <1>3, <1>5, <1>9 DEF CTypeOK
  <2>2. FromKept
    BY <1>2, <1>9, <2>1 DEF FromKept, CTypeOK
  <2>3. cl' \in [Handlers -> CloneLocalType]
    BY <1>2, <1>9 DEF CTypeOK
  <2>4. Aside /\ MuKept(h) /\ UNCHANGED <<ep, co>>
    BY <1>1, <1>2, <1>9, <2>2, <2>3, CloneAside, QuietKept DEF Fixed
  <2>5. /\ Written(w, n, x) /\ \A q \in Requests : Wanted(w, q) => ~COwnedBy(q, n, x)
    BY <1>1, <1>9, CopyWritten
  <2>6. sub' = [sub EXCEPT ![n] = x]
    BY <1>9 DEF Write
  <2>. HIDE DEF x
  <2>7. ~COwnedBy(r, n, sub[n])
    BY <1>9 DEF COwnedBy
  <2>8. /\ w.content[r] # None =>
            /\ n = Home(w, r) \/ x = None \/ sub[n] # None
            /\ Open(r) /\ COwnedBy(r, n, sub[n]) => COwnedBy(r, n, x)
            /\ Open(r) /\ w.subs[n] # None /\ sub[n] # None => x # None
            /\ n = Home(w, r) /\ sub[n] = None /\ x # None => from'[n] = OriginOf(w, r)
        /\ \/ mu \in {None, h}
           \/ \A q \in Requests : Wanted(w, q) /\ COwnedBy(q, n, x) => COwnedBy(q, n, sub[n])
    BY <1>4, <1>9, <2>1, <2>5, <2>7
  <2>9. CSubKept(w, h)
    BY <1>2, <1>3, <2>2, <2>5, <2>6, <2>8, CWriteKept
  <2>. QED
    BY <2>1, <2>4, <2>9
<1>10. ASSUME Lost, x # None, sub[n] = None, Write(n, x), from' = [from EXCEPT ![n] = Origin(h)],
              UNCHANGED cl, Return(h)
       PROVE  CInv(w)'
  BY <1>9, <1>10, WriteReturn DEF Outcome
<1>11. ASSUME Ok(h), x # None, sub[n] = None, Write(n, x), from' = [from EXCEPT ![n] = Origin(h)],
              UNCHANGED cl, Goto(h, "capacity"), loc' = [loc EXCEPT ![h].created = TRUE]
       PROVE  CInv(w)'
  <2>1. Aside /\ CSubKept(w, h) /\ MuKept(h) /\ UNCHANGED <<ep, co>> /\ from'[n] = OriginOf(w, r)
    BY <1>9, <1>11 DEF Outcome
  <2>. DEFINE k == [loc[h] EXCEPT !.created = TRUE]
  <2>2. /\ k \in LocalType /\ k.name = n /\ k.uuid = loc[h].uuid /\ k.req = r
        /\ k.cloning = loc[h].cloning /\ k.live = loc[h].live /\ k.exposed = loc[h].exposed
    BY <1>2 DEF LocalType
  <2>3. PICK l \in LocalType :
          /\ l = k /\ l.name = n /\ l.uuid = loc[h].uuid /\ l.req = r
          /\ l.cloning = loc[h].cloning /\ l.live = loc[h].live /\ l.exposed = loc[h].exposed
    BY <2>2
  <2>4. pc' = [pc EXCEPT ![h] = "capacity"] /\ loc' = [loc EXCEPT ![h] = l]
    BY <1>2, <1>11, <2>3 DEF Goto, CTypeOK
  <2>. HIDE DEF k
  <2>5. TagOK(l)
    BY <2>3 DEF TagOK, Tagged
  <2>6. CHandlerOK(w, h, "capacity", l)'
    BY <1>2, <1>3, <2>1, <2>3
       DEF CHandlerOK, NamelessPCs, CIdentityPCs, SeenPCs, ClonePCs, DeletePCs, PreparePCs
  <2>0. PICK q \in Requests : q = r
    BY <1>2
  <2>7. w.subs[Home(w, q)] = None /\ (Open(q)' <=> Open(q)) /\ (Exposed(w, q)' <=> Exposed(w, q))
    BY <1>3, <1>4, <1>11, <2>0, <2>1 DEF Ok, CloneRequestOK, Open, Exposed
  <2>8. FromOrigin(w, q)'
    BY <1>4, <2>0, <2>1 DEF FromOrigin
  <2>9. CloneOK(w, "capacity", l)'
    BY <1>3, <1>4, <2>0, <2>3, <2>7, <2>8 DEF CloneOK, SearchPCs, NamelessPCs
  <2>10. Serves(w, "capacity", l)' /\ "capacity" \in PCs \union ClonePCs
    BY <2>9 DEF Serves, ClonePCs
  <2>. QED
    BY <2>1, <2>3, <2>4, <2>5, <2>6, <2>10, WriteStep
<1>. QED
  BY <1>6, <1>7, <1>8, <1>10, <1>11, Zenon DEF Clone

(* A handler that has its clone goes on, or gives up.                      *)
LEMMA CloneFailedKeeps ==
  ASSUME NEW w \in Worlds, CInv(w), NEW h \in Handlers, pc[h] \in {"capacity", "resize", "cloneRead"},
         CloneFailed(h), Aside, CSubKept(w, h), UNCHANGED <<ep, co>>, MuKept(h)
  PROVE  CInv(w)'
<1>1. /\ CHandlerOK(w, h, pc[h], loc[h]) /\ Serves(w, pc[h], loc[h]) /\ CTypeOK
      /\ loc[h] \in LocalType /\ loc[h].req \in Requests
  BY Here
<1>2. CASE ~loc[h].created
  BY <1>2, WriteReturn DEF CloneFailed
<1>3. CASE loc[h].created
  <2>1. PICK l \in LocalType : l = loc[h]
    BY <1>1
  <2>2. pc' = [pc EXCEPT ![h] = "rollback"] /\ loc' = [loc EXCEPT ![h] = l]
    BY <1>1, <1>3, <2>1 DEF CloneFailed, Move, Goto, CTypeOK
  <2>3. TagOK(l)
    BY <2>1 DEF TagOK, Tagged
  <2>4. CHandlerOK(w, h, "rollback", l)'
    BY <1>1, <1>3, <2>1 DEF CHandlerOK, NamelessPCs, CIdentityPCs, SeenPCs, ClonePCs, DeletePCs, PreparePCs
  <2>5. Serves(w, "rollback", l)
    BY <1>1, <2>1 DEF Serves, CloneOK, DeletePCs, SearchPCs, NamelessPCs, ClonedPCs
  <2>6. Serves(w, "rollback", l)' /\ "rollback" \in PCs \union ClonePCs
    BY <1>1, <2>1, <2>5, QuietKept, CServesFrame DEF PCs
  <2>. QED
    BY <2>1, <2>2, <2>3, <2>4, <2>6, WriteStep
<1>. QED
  BY <1>2, <1>3

LEMMA CapacityStep ==
  ASSUME NEW w \in Worlds, CInv(w), NEW h \in Handlers, pc[h] \in {"capacity", "resize"},
         NEW p \in {"resize", "cloneRead"}, NEW c \in Nat, Goto(h, p), loc' = [loc EXCEPT ![h].cap = c],
         Aside, CSubKept(w, h), UNCHANGED <<ep, co>>, MuKept(h)
  PROVE  CInv(w)'
<1>1. /\ CHandlerOK(w, h, pc[h], loc[h]) /\ Serves(w, pc[h], loc[h]) /\ CTypeOK
      /\ loc[h] \in LocalType /\ loc[h].req \in Requests
  BY Here
<1>. DEFINE k == [loc[h] EXCEPT !.cap = c]
<1>2. /\ k \in LocalType /\ k.name = loc[h].name /\ k.seen = loc[h].seen /\ k.uuid = loc[h].uuid
      /\ k.req = loc[h].req /\ k.created = loc[h].created /\ k.cloning = loc[h].cloning
      /\ k.exposed = loc[h].exposed /\ k.live = loc[h].live
  BY <1>1 DEF LocalType
<1>3. PICK l \in LocalType :
         /\ l = k /\ l.name = loc[h].name /\ l.seen = loc[h].seen /\ l.uuid = loc[h].uuid
         /\ l.req = loc[h].req /\ l.created = loc[h].created /\ l.cloning = loc[h].cloning
         /\ l.exposed = loc[h].exposed /\ l.live = loc[h].live
  BY <1>2
<1>4. pc' = [pc EXCEPT ![h] = p] /\ loc' = [loc EXCEPT ![h] = l]
  BY <1>1, <1>3 DEF Goto, CTypeOK
<1>. HIDE DEF k
<1>5. TagOK(l)
  BY <1>3 DEF TagOK, Tagged
<1>6. CHandlerOK(w, h, p, l)'
  BY <1>1, <1>3 DEF CHandlerOK, NamelessPCs, CIdentityPCs, SeenPCs, ClonePCs, DeletePCs, PreparePCs
<1>7. Serves(w, p, l)
  BY <1>1, <1>3 DEF Serves, CloneOK, DeletePCs, SearchPCs, NamelessPCs, ClonedPCs
<1>8. Serves(w, p, l)' /\ p \in PCs \union ClonePCs
  BY <1>1, <1>3, <1>7, QuietKept, CServesFrame DEF ClonePCs
<1>. QED
  BY <1>3, <1>4, <1>5, <1>6, <1>8, WriteStep

LEMMA ResizeKept ==
  ASSUME NEW w \in Worlds, CInv(w), Settled(w), NEW h \in Handlers, pc[h] = "resize",
         sub[loc[h].name] # None, NEW c \in Nat, sub' = [sub EXCEPT ![loc[h].name].size = c], FromKept
  PROVE  CSubKept(w, h)
<1>. DEFINE n == loc[h].name
            r == loc[h].req
            x == [sub[n] EXCEPT !.size = c]
<1>1. CHandlerOK(w, h, pc[h], loc[h]) /\ CTypeOK /\ Inv(w) /\ r \in Requests
  BY Here
<1>2. n \in Names /\ Claim(w, r, n)
  BY <1>1 DEF CHandlerOK, NamelessPCs
<1>3. sub[n] \in SubType /\ Clear(w, n, sub[n])
  BY <1>1, <1>2 DEF CTypeOK, Inv
<1>4. /\ x \in SubType /\ x.managed = sub[n].managed /\ x.request = sub[n].request
      /\ x.uuid = sub[n].uuid /\ x.csi = sub[n].csi /\ x.proto = sub[n].proto /\ x.pvc = sub[n].pvc
  BY <1>3, ResizedSame
<1>5. sub' = [sub EXCEPT ![n] = x]
  BY <1>1, <1>2 DEF CTypeOK
<1>. HIDE DEF x
<1>6. x # None /\ \A q : COwnedBy(q, n, x) <=> COwnedBy(q, n, sub[n])
  BY <1>3, <1>4, CNoneApart DEF COwnedBy, hasCompleteV2Identity, V2
<1>7. \A q : Mentions(w, q, x) <=> Mentions(w, q, sub[n])
  BY <1>4 DEF Mentions
<1>8. Tagged(x.uuid, x.csi)
  BY <1>2, <1>4 DEF Tagged, Records
<1>9. Written(w, n, x)
  BY <1>3, <1>4, <1>7, <1>8 DEF Written, Clear, V2
<1>10. /\ w.content[r] # None =>
            /\ n = Home(w, r) \/ x = None \/ sub[n] # None
            /\ Open(r) /\ COwnedBy(r, n, sub[n]) => COwnedBy(r, n, x)
            /\ Open(r) /\ w.subs[n] # None /\ sub[n] # None => x # None
            /\ n = Home(w, r) /\ sub[n] = None /\ x # None => from'[n] = OriginOf(w, r)
       /\ \/ mu \in {None, h}
          \/ \A q \in Requests : Wanted(w, q) /\ COwnedBy(q, n, x) => COwnedBy(q, n, sub[n])
  BY <1>6
<1>. QED
  BY <1>1, <1>2, <1>5, <1>9, <1>10, CWriteKept

LEMMA CapacityKeeps ==
  ASSUME NEW w \in Worlds, CInv(w), Settled(w), NEW h \in Handlers, ensureClonedVolumeCapacity(h)
  PROVE  CInv(w)'
<1>. DEFINE n == loc[h].name
            got == RoundUp(loc[h].cap)
<1>1. pc[h] \in {"capacity", "resize"} /\ Fixed /\ UNCHANGED <<cl, from, excused>>
  BY DEF ensureClonedVolumeCapacity
<1>2. CHandlerOK(w, h, pc[h], loc[h]) /\ CTypeOK /\ loc[h] \in LocalType
  BY <1>1, Here
<1>3. n \in Names /\ loc[h].cap \in Nat /\ got \in Nat
  BY <1>1, <1>2, RoundUpTyped DEF CHandlerOK, NamelessPCs, LocalType
<1>. HIDE DEF got
<1>4. FromKept /\ cl' \in [Handlers -> CloneLocalType]
  BY <1>1, <1>2 DEF CTypeOK, FromKept
<1>5. ASSUME Outcome(h) PROVE Aside /\ MuKept(h) /\ UNCHANGED <<ep, co>>
  BY <1>1, <1>2, <1>4, <1>5, CloneAside, QuietKept DEF Fixed
<1>6. ASSUME UNCHANGED sub PROVE CSubKept(w, h)
  BY <1>4, <1>6, QuietKept
<1>7. ASSUME pc[h] = "resize", sub[n] # None, sub' = [sub EXCEPT ![n].size = got] PROVE CSubKept(w, h)
  BY <1>3, <1>4, <1>7, ResizeKept
<1>8. ASSUME CloneFailed(h), Outcome(h), CSubKept(w, h) PROVE CInv(w)'
  BY <1>1, <1>5, <1>8, CloneFailedKeeps
<1>9. ASSUME NEW p \in {"resize", "cloneRead"}, NEW c \in Nat, Goto(h, p),
             loc' = [loc EXCEPT ![h].cap = c], Outcome(h), CSubKept(w, h)
      PROVE  CInv(w)'
  BY <1>1, <1>5, <1>9, CapacityStep
<1>10. CASE UNCHANGED sub /\ CloneFailed(h) /\ (Ok(h) \/ Err(h))
  BY <1>6, <1>8, <1>10 DEF Outcome
<1>11. CASE /\ Ok(h) /\ UNCHANGED sub /\ sub[n] # None
            /\ Goto(h, "resize") /\ loc' = [loc EXCEPT ![h].cap = Larger(@, sub[n].size)]
  <2>. DEFINE c == Larger(loc[h].cap, sub[n].size)
  <2>1. sub[n].size \in Nat
    BY <1>2, <1>3, <1>11 DEF CTypeOK, SubType
  <2>2. c \in Nat /\ loc' = [loc EXCEPT ![h].cap = c]
    BY <1>2, <1>3, <1>11, <2>1 DEF Larger, CTypeOK
  <2>. HIDE DEF c
  <2>. QED
    BY <1>6, <1>9, <1>11, <2>2 DEF Outcome
<1>12. CASE /\ pc[h] = "resize" /\ Ok(h) /\ sub[n] # None /\ sub' = [sub EXCEPT ![n].size = got]
            /\ \/ Goto(h, "cloneRead") /\ loc' = [loc EXCEPT ![h].cap = got]
               \/ CloneFailed(h)
  <2>1. CSubKept(w, h) /\ Outcome(h)
    BY <1>7, <1>12 DEF Outcome
  <2>. QED
    BY <1>3, <1>8, <1>9, <1>12, <2>1
<1>13. CASE /\ pc[h] = "resize" /\ Lost /\ sub[n] # None /\ CloneFailed(h)
            /\ sub' = [sub EXCEPT ![n].size = got]
  BY <1>7, <1>8, <1>13 DEF Outcome
<1>. QED
  BY <1>10, <1>11, <1>12, <1>13, Zenon DEF ensureClonedVolumeCapacity, got

(* The UUID that classifyCloneIdentity allows goes with the name n.        *)
LEMMA ClassifiedTag ==
  ASSUME NEW w \in Worlds, CInv(w), NEW h \in Handlers, pc[h] = "cloneRead", sub[loc[h].name] # None,
         NEW u \in UUIDs, classifyCloneIdentity(h, u), loc'[h].uuid = u, NewUUIDsUnused,
         NEW l, l.uuid = u, l.name = loc[h].name
  PROVE  TagOK(l)
<1>. DEFINE n == loc[h].name
            r == loc[h].req
            d == sub[loc[h].name]
<1>1. /\ CHandlerOK(w, h, pc[h], loc[h]) /\ CTypeOK /\ Inv(w) /\ r \in Requests /\ P(h) = w.profile[r]
  BY Here
<1>2. n \in Names /\ Wanted(w, r)
  BY <1>1 DEF CHandlerOK, NamelessPCs, DeletePCs
<1>3. CASE u = loc[h].uuid
  BY <1>3 DEF TagOK, Tagged
<1>4. ASSUME identityProperties(d, u), MatchingDestination(h, d) \/ LegacyProof(h, n) PROVE TagOK(l)
  <2>1. Mentions(w, r, d)
    BY <1>1, <1>4 DEF MatchingDestination, LegacyProof, legacyPVCIdentityMatches, Mentions, Inv
  <2>2. d.uuid # None => d.csi = n
    BY <1>1, <1>2, <2>1 DEF Inv, Clear
  <2>. QED
    BY <1>2, <1>4, <2>2, IdentityTag
<1>. QED
  BY <1>3, <1>4 DEF classifyCloneIdentity

LEMMA ReadCloneKeeps ==
  ASSUME NEW w \in Worlds, CInv(w), NEW h \in Handlers, readClone(h)
  PROVE  CInv(w)'
<1>. DEFINE n == loc[h].name
            r == loc[h].req
            x == IF loc[h].created THEN BlankSubvolume(sub[n].size) ELSE sub[n]
<1>1. pc[h] = "cloneRead" /\ Fixed /\ Reads /\ UNCHANGED cl
  BY DEF readClone
<1>2. /\ CHandlerOK(w, h, pc[h], loc[h]) /\ Serves(w, pc[h], loc[h]) /\ CTypeOK /\ loc[h] \in LocalType
      /\ r \in Requests
  BY <1>1, Here
<1>3. /\ loc[h].cloning /\ w.content[r] # None /\ n \in Names
  BY <1>1, <1>2 DEF CHandlerOK, ClonePCs, NamelessPCs
<1>4. CloneOK(w, "cloneRead", loc[h]) /\ n = Home(w, r) /\ FromOrigin(w, r)
  BY <1>1, <1>2, <1>3 DEF Serves, CloneOK, DeletePCs, NamelessPCs, ClonedPCs
<1>5. cl' \in [Handlers -> CloneLocalType]
  BY <1>1, <1>2 DEF CTypeOK
<1>6. CASE CloneFailed(h) /\ (Ok(h) \/ Err(h))
  <2>1. Aside /\ UNCHANGED <<sub, ep, co, mu>> /\ MuKept(h)
    BY <1>1, <1>5, <1>6, ReadAside DEF Outcome
  <2>2. CSubKept(w, h)
    BY <2>1, QuietKept DEF Aside
  <2>. QED
    BY <1>1, <1>6, <2>1, <2>2, CloneFailedKeeps
<1>7. ASSUME Ok(h), sub[n] # None, NEW u \in UUIDs, classifyCloneIdentity(h, u), NewUUIDsUnused,
             loc' = [loc EXCEPT ![h].uuid = u, ![h].seen = x], Goto(h, "persist")
      PROVE  CInv(w)'
  <2>1. Aside /\ UNCHANGED <<sub, ep, co, mu>>
    BY <1>1, <1>5, <1>7, ReadAside DEF Outcome
  <2>2. sub[n] \in SubType /\ sub[n].size \in Nat
    BY <1>2, <1>3, <1>7 DEF CTypeOK, SubType
  <2>3. x \in SubType /\ x # None
    BY <2>2, CBlankTyped, CNoneApart
  <2>4. COwnedBy(r, n, x) => Done(w, r)
    <3>1. CASE loc[h].created
      BY <1>2, <1>3, <2>2, <3>1, BlankWritten
    <3>2. CASE ~loc[h].created
      BY <1>4, <1>7, <3>2 DEF Done, FromOrigin
    <3>. QED
      BY <3>1, <3>2
  <2>. HIDE DEF x
  <2>. DEFINE l == [loc[h] EXCEPT !.uuid = u, !.seen = x]
  <2>5. /\ l \in LocalType /\ l.name = n /\ l.uuid = u /\ l.seen = x /\ l.req = r
        /\ l.created = loc[h].created /\ l.cloning = loc[h].cloning
        /\ l.exposed = loc[h].exposed /\ l.live = loc[h].live
    BY <1>2, <2>3 DEF LocalType
  <2>6. pc' = [pc EXCEPT ![h] = "persist"] /\ loc' = [loc EXCEPT ![h] = l]
    BY <1>2, <1>7 DEF Goto, CTypeOK
  <2>. HIDE DEF l
  <2>7. loc'[h].uuid = u
    BY <1>2, <2>5, <2>6 DEF CTypeOK
  <2>8. TagOK(l)
    BY <1>1, <1>7, <2>5, <2>7, ClassifiedTag
  <2>9. CHandlerOK(w, h, "persist", l)
    BY <1>1, <1>2, <1>3, <2>3, <2>5
       DEF CHandlerOK, NamelessPCs, CIdentityPCs, SeenPCs, ClonePCs, DeletePCs, PreparePCs
  <2>10. Serves(w, "persist", l) /\ "persist" \in PCs \union ClonePCs
    BY <1>3, <1>4, <2>4, <2>5 DEF Serves, CloneOK, SearchPCs, NamelessPCs, ClonedPCs, PCs
  <2>. QED
    BY <2>1, <2>5, <2>6, <2>8, <2>9, <2>10, Quiet DEF Fits
<1>. QED
  BY <1>6, <1>7, Zenon DEF readClone, x

-----------------------------------------------------------------------------
(* The specification.                                                      *)

LEMMA CloneStepKeeps ==
  ASSUME NEW w \in Worlds, CInv(w), Settled(w), NEW h \in Handlers, CloneStep(h)
  PROVE  CInv(w)'
  BY SourceKeeps, DestinationSelected, CloneKeeps, CapacityKeeps, ReadCloneKeeps DEF CloneStep

LEMMA CNextKeeps ==
  ASSUME NEW w \in Worlds, CInv(w), Settled(w), CNext
  PROVE  CInv(w)'
<1>1. ASSUME NEW h \in Handlers, NEW r \in Requests,
             \/ content[r] = None /\ CreateVolume(h, r) /\ Plain
             \/ DeleteVolume(h, r) /\ Plain
             \/ CreateVolumeFromContent(h, r)
      PROVE  CInv(w)'
  BY <1>1, RequestKeeps, FromContentKeeps
<1>2. ASSUME NEW h \in Handlers, (CreateStep(h) \/ DeleteStep(h) \/ Cancel(h)) /\ Plain
      PROVE  CInv(w)'
  BY <1>2, CreateStepKeeps, DeleteStepKeeps, CancelKeeps
<1>3. ASSUME NEW h \in Handlers, CloneStep(h) PROVE CInv(w)'
  BY <1>3, CloneStepKeeps
<1>4. CASE Crash /\ Plain
  BY <1>4, CrashKeeps
<1>5. ASSUME NEW n \in Names, SnapshotDeleted(n) PROVE CInv(w)'
  BY <1>5, SnapshotDeletedKeeps
<1>. QED
  BY <1>1, <1>2, <1>3, <1>4, <1>5 DEF CNext

LEMMA StutterKeeps ==
  ASSUME NEW w \in Worlds, CInv(w), UNCHANGED cvars
  PROVE  CInv(w)'
<1>1. /\ UNCHANGED <<profile, sub, ep, mu, pc, loc, co, faults, content, snap, from, cl>>
      /\ CTypeOK /\ OneName /\ Inv(w)
  BY DEF cvars, CInv
<1>2. CTypeOK'
  BY <1>1 DEF CTypeOK
<1>3. OneName'
  BY <1>1 DEF OneName, Tagged, Records
<1>4. ASSUME NEW h \in Handlers PROVE (CHandlerOK(w, h, pc[h], loc[h]) /\ Serves(w, pc[h], loc[h]))'
  <2>1. CHandlerOK(w, h, pc[h], loc[h]) /\ Serves(w, pc[h], loc[h])
    BY <1>1 DEF Inv
  <2>. QED
    BY <1>1, <2>1 DEF CHandlerOK, Serves, CloneOK, FromOrigin, Done, COwnedBy, Open, Exposed,
                      hasCompleteV2Identity, V2
<1>5. ASSUME NEW r \in Requests
      PROVE  (CRequestOK(w, r) /\ (w.content[r] # None => CloneRequestOK(w, r)))'
  <2>1. CRequestOK(w, r) /\ (w.content[r] # None => CloneRequestOK(w, r))
    BY <1>1 DEF Inv
  <2>. QED
    BY <1>1, <2>1 DEF CRequestOK, CloneRequestOK, Done, COwnedBy, Open, Exposed, hasCompleteV2Identity, V2
<1>6. Inv(w)'
  BY <1>1, <1>4, <1>5 DEF Inv, Clear, V2, OneLive
<1>. QED
  BY <1>2, <1>3, <1>6 DEF CInv

LEMMA CInitKeeps ==
  ASSUME AllSettled, CInit
  PROVE  \E w \in Worlds : CInv(w)
<1>1. PICK w \in Worlds :
          /\ profile = w.profile /\ sub = w.subs /\ content = w.content /\ snap = w.snaps /\ from = w.from
          /\ co = [r \in Requests |->
                     IF w.bound[r] = None THEN [phase |-> "wanted", handle |-> None]
                     ELSE IF w.bound[r] = "gone" THEN [phase |-> "gone", handle |-> None]
                     ELSE [phase |-> "bound", handle |-> w.bound[r]]]
          /\ ep = [n \in Names |-> IF \E r \in Requests : w.bound[r] = n THEN 0 ELSE None]
  BY DEF CInit
<1>2. /\ mu = None /\ faults = 0 /\ pc = [h \in Handlers |-> "idle"]
      /\ loc = [h \in Handlers |-> NoLocals] /\ cl = [h \in Handlers |-> NoClone]
  BY DEF CInit
<1>3. Settled(w)
  BY DEF AllSettled
<1>4. /\ w.profile \in [Requests -> ProfileType] /\ w.subs \in [Names -> SubType \union {None}]
      /\ w.content \in [Requests -> ContentType \union {None}]
      /\ w.snaps \in [Names -> SubType \union {None}]
      /\ w.from \in [Names -> OriginType \union {None}]
      /\ w.bound \in [Requests -> Names \union {None, "gone"}]
  BY WorldTyped
<1>5. CTypeOK
  <2>1. ep \in [Names -> Nat \union {None}]
    BY <1>1
  <2>2. co \in [Requests -> [phase : {"wanted", "bound", "deleting", "gone"},
                             handle : Names \union {None}]]
    BY <1>1, <1>4
  <2>3. /\ pc \in [Handlers -> PCs \union ClonePCs] /\ loc \in [Handlers -> LocalType]
        /\ cl \in [Handlers -> CloneLocalType]
    BY <1>2, CNoLocalsTyped DEF PCs, NoClone, CloneLocalType
  <2>4. faults \in 0 .. MaxFaults
    BY <1>2, MaxFaultsAssumption
  <2>. QED
    BY <1>1, <1>2, <1>4, <2>1, <2>2, <2>3, <2>4 DEF CTypeOK
<1>6. OneName
  <2>1. ASSUME NEW u \in UUIDs, NEW m, Tagged(u, m) PROVE Records(w.subs, u, m) \/ Records(w.snaps, u, m)
    BY <1>1, <1>2, <2>1, CNoLocalsTyped, CNoneApart DEF Tagged
  <2>. QED
    BY <1>3, <2>1 DEF OneName, Settled
<1>7. ASSUME NEW h \in Handlers PROVE CHandlerOK(w, h, pc[h], loc[h]) /\ Serves(w, pc[h], loc[h])
  <2>1. pc[h] = "idle" /\ loc[h] = NoLocals
    BY <1>2
  <2>. QED
    BY <2>1, CIdleOK DEF Fits
<1>8. OneLive
  BY <1>2, CNoLocalsTyped DEF OneLive
<1>9. ASSUME NEW r \in Requests PROVE CRequestOK(w, r) /\ (w.content[r] # None => CloneRequestOK(w, r))
  <2>1. /\ w.bound[r] = None => co[r].phase = "wanted"
        /\ w.bound[r] # None => co[r].phase \in {"bound", "gone"}
        /\ co[r].phase = "bound" => w.bound[r] \in Names /\ co[r].handle = w.bound[r]
    BY <1>1, <1>4
  <2>2. CRequestOK(w, r)
    BY <1>3, <2>1 DEF CRequestOK, Wanted, Settled
  <2>3. ASSUME w.content[r] # None PROVE CloneRequestOK(w, r)
    <3>1. co[r].phase = "wanted"
      BY <1>3, <2>1, <2>3 DEF Settled, SettledSource, Wanted
    <3>. QED
      BY <1>1, <3>1 DEF CloneRequestOK
  <2>. QED
    BY <2>2, <2>3
<1>10. Inv(w)
  BY <1>1, <1>3, <1>7, <1>8, <1>9 DEF Inv, Settled
<1>. QED
  BY <1>5, <1>6, <1>10 DEF CInv

(* What the CO may rely on, from the invariant.                            *)
LEMMA CInvImplies ==
  ASSUME NEW w \in Worlds, CInv(w)
  PROVE  CTypeOK /\ UUIDsDistinct /\ CloneUsable
<1>1. CTypeOK /\ OneName /\ Inv(w)
  BY DEF CInv
<1>2. UUIDsDistinct
  <2>. SUFFICES ASSUME NEW m \in Names, NEW n \in Names, m # n, sub[m] # None, sub[n] # None,
                       hasCompleteV2Identity(m, sub[m]), hasCompleteV2Identity(n, sub[n]),
                       sub[m].uuid = sub[n].uuid
                PROVE  FALSE
    BY DEF UUIDsDistinct
  <2>1. sub[m].uuid \in UUIDs
    BY <1>1 DEF CTypeOK, SubType, hasCompleteV2Identity
  <2>2. Tagged(sub[m].uuid, m) /\ Tagged(sub[m].uuid, n)
    BY DEF Tagged, Records, hasCompleteV2Identity
  <2>. QED
    BY <1>1, <2>1, <2>2 DEF OneName
<1>3. CloneUsable
  <2>. SUFFICES ASSUME NEW r \in Requests, co[r].phase = "bound", content[r] # None
                PROVE  LET n == co[r].handle
                       IN  /\ from[n] = [kind |-> content[r].kind, of |-> content[r].of]
                           /\ hasCompleteV2Identity(n, sub[n]) /\ sub[n].request = r /\ ep[n] # None
    BY DEF CloneUsable
  <2>1. content = w.content /\ CloneRequestOK(w, r)
    BY <1>1 DEF Inv
  <2>2. co[r].handle = Home(w, r) /\ Done(w, r) /\ Exposed(w, r)
    BY <2>1 DEF CloneRequestOK
  <2>. QED
    BY <2>1, <2>2 DEF Done, COwnedBy, OriginOf, Exposed
<1>. QED
  BY <1>1, <1>2, <1>3

(* The invariant holds in every state, however many RPCs run, are          *)
(* cancelled, fail or die, in whatever order their calls reach the         *)
(* backend: each request with a content source keeps to one destination,   *)
(* whose identity, once written, stays; no handler goes on to              *)
(* createVolumeByProtocol before it is written; and a UUID goes with one   *)
(* name, on subvolumes, on snapshots and in the locals of the handlers.    *)
THEOREM CloningInvariant == AllSettled => (CSpec => []CloneInv)
<1>. SUFFICES ASSUME AllSettled PROVE CSpec => []CloneInv
  OBVIOUS
<1>1. CInit => CloneInv
  BY CInitKeeps DEF CloneInv, CInv
<1>2. CloneInv /\ [CNext]_cvars => CloneInv'
  <2>. SUFFICES ASSUME CloneInv, [CNext]_cvars PROVE CloneInv'
    OBVIOUS
  <2>1. PICK w \in Worlds : CInv(w)
    BY DEF CloneInv, CInv
  <2>2. Settled(w)
    BY DEF AllSettled
  <2>3. CInv(w)'
    BY <2>1, <2>2, CNextKeeps, StutterKeeps
  <2>. QED
    BY <2>3 DEF CloneInv, CInv
<1>. QED
  BY <1>1, <1>2, PTL DEF CSpec

(* Every variable of the cloning controller has the shape its declaration  *)
(* promises.                                                               *)
THEOREM CloningTypeCorrect == AllSettled => (CSpec => []CTypeOK)
<1>. SUFFICES ASSUME AllSettled PROVE CSpec => []CTypeOK
  OBVIOUS
<1>1. CSpec => []CloneInv
  BY CloningInvariant
<1>2. CloneInv => CTypeOK
  BY DEF CloneInv
<1>. QED
  BY <1>1, <1>2, PTL

(* No two subvolumes with an identity of their own have the same UUID,     *)
(* although CloneSubvolume and CloneSnapshot copy the source's to every    *)
(* clone and identityProperties keeps what it finds.                       *)
THEOREM CloningUUIDsDistinct == AllSettled => (CSpec => []UUIDsDistinct)
<1>. SUFFICES ASSUME AllSettled PROVE CSpec => []UUIDsDistinct
  OBVIOUS
<1>1. CSpec => []CloneInv
  BY CloningInvariant
<1>2. CloneInv => UUIDsDistinct
  BY CInvImplies DEF CloneInv, CInv
<1>. QED
  BY <1>1, <1>2, PTL

(* What the CO was given for a request with a content source is the        *)
(* backend's clone of that source, recorded as the request's own and       *)
(* exposed, until the CO asks for its deletion: never the empty volume     *)
(* that createVolumeByProtocol makes when it finds the destination gone.   *)
THEOREM CloningCloneUsable == AllSettled => (CSpec => []CloneUsable)
<1>. SUFFICES ASSUME AllSettled PROVE CSpec => []CloneUsable
  OBVIOUS
<1>1. CSpec => []CloneInv
  BY CloningInvariant
<1>2. CloneInv => CloneUsable
  BY CInvImplies DEF CloneInv, CInv
<1>. QED
  BY <1>1, <1>2, PTL
=============================================================================
