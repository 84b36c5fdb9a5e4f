--------------------------- MODULE LifecycleLocks ---------------------------
(***************************************************************************)
(* The per-volume lifecycle locks of the node service                      *)
(* (pkg/driver/node_lifecycle.go).  A lock is a reference-counted entry    *)
(* in a map: a request creates the entry of its volume or joins the one    *)
(* that is there, waits for the entry's token or for the end of its        *)
(* context, and the last request to leave removes the entry from the map.  *)
(*                                                                         *)
(* A critical section of l.mu is one action.  Everything between two       *)
(* critical sections, and every operation on the token channel, is an      *)
(* action of its own, so requests interleave as goroutines do.             *)
(***************************************************************************)
EXTENDS Naturals, FiniteSets

CONSTANTS Requests,   \* RPC goroutines; one may issue any number of RPCs
          Volumes,    \* CSI volume IDs
          EntryIds,   \* addresses of *volumeLifecycleEntry
          NoEntry     \* the nil entry

ASSUME RequestsFinite == IsFiniteSet(Requests)
ASSUME NoEntryAssumption == NoEntry \notin EntryIds

VARIABLES
    pc,        \* pc[r]: where request r is in lock() and in its unlock closure
    vol,       \* vol[r]: the volumeID r passed to lock()
    ctxDone,   \* ctxDone[r]: r's context is cancelled or past its deadline
    entry,     \* entry[r]: the local variable entry
    entries,   \* l.entries
    refs,      \* refs[e]: e.refs
    token      \* token[e]: number of values in the channel e.token (capacity 1)

vars == <<pc, vol, ctxDone, entry, entries, refs, token>>

-----------------------------------------------------------------------------
(* Program counters.                                                       *)
(*   "idle"    no RPC in progress, or the RPC has returned                 *)
(*   "check"   before the first ctx.Err()                                  *)
(*   "enter"   before the critical section that finds or creates the entry *)
(*   "wait"    blocked in the select                                       *)
(*   "took"    received the token, ctx.Err() not yet looked at             *)
(*   "giveup"  ctx.Err() was set: about to send the token back             *)
(*   "hold"    lock() has returned the unlock closure; the RPC body runs   *)
(*   "leave"   token sent or never taken: about to call release()          *)

PCs == {"idle", "check", "enter", "wait", "took", "giveup", "hold", "leave"}

UsesEntry == {"wait", "took", "giveup", "hold", "leave"}
HasToken  == {"took", "giveup", "hold"}

Users(e) == {r \in Requests : pc[r] \in UsesEntry /\ entry[r] = e}

(* An address that new may return: memory that nothing points to.          *)
Unreachable(e) ==
    /\ \A v \in Volumes : entries[v] # e
    /\ Users(e) = {}

Init ==
    /\ pc = [r \in Requests |-> "idle"]
    /\ vol \in [Requests -> Volumes]
    /\ ctxDone = [r \in Requests |-> FALSE]
    /\ entry = [r \in Requests |-> NoEntry]
    /\ entries = [v \in Volumes |-> NoEntry]
    /\ refs = [e \in EntryIds |-> 0]
    /\ token = [e \in EntryIds |-> 0]

-----------------------------------------------------------------------------
(* An RPC for volume v arrives with a fresh context.                       *)
Call(r, v) ==
    /\ pc[r] = "idle"
    /\ pc' = [pc EXCEPT ![r] = "check"]
    /\ vol' = [vol EXCEPT ![r] = v]
    /\ ctxDone' = [ctxDone EXCEPT ![r] = FALSE]
    /\ UNCHANGED <<entry, entries, refs, token>>

(* The client cancels the RPC, or its deadline passes.                     *)
Cancel(r) ==
    /\ pc[r] # "idle"
    /\ ~ctxDone[r]
    /\ ctxDone' = [ctxDone EXCEPT ![r] = TRUE]
    /\ UNCHANGED <<pc, vol, entry, entries, refs, token>>

(* if err := ctx.Err(); err != nil { return nil, err }                     *)
CheckContext(r) ==
    /\ pc[r] = "check"
    /\ pc' = [pc EXCEPT ![r] = IF ctxDone[r] THEN "idle" ELSE "enter"]
    /\ UNCHANGED <<vol, ctxDone, entry, entries, refs, token>>

(* The critical section of lock(): join the volume's entry ...             *)
JoinEntry(r) ==
    LET e == entries[vol[r]] IN
    /\ pc[r] = "enter"
    /\ e # NoEntry
    /\ entry' = [entry EXCEPT ![r] = e]
    /\ refs' = [refs EXCEPT ![e] = @ + 1]
    /\ pc' = [pc EXCEPT ![r] = "wait"]
    /\ UNCHANGED <<vol, ctxDone, entries, token>>

(* ... or create it, with the token in its channel.                        *)
CreateEntry(r) ==
    /\ pc[r] = "enter"
    /\ entries[vol[r]] = NoEntry
    /\ \E e \in EntryIds :
          /\ Unreachable(e)
          /\ entries' = [entries EXCEPT ![vol[r]] = e]
          /\ token' = [token EXCEPT ![e] = 1]
          /\ refs' = [refs EXCEPT ![e] = 1]
          /\ entry' = [entry EXCEPT ![r] = e]
    /\ pc' = [pc EXCEPT ![r] = "wait"]
    /\ UNCHANGED <<vol, ctxDone>>

(* select: case <-entry.token.  When the context is done as well, select   *)
(* may still choose this branch.                                           *)
TakeToken(r) ==
    /\ pc[r] = "wait"
    /\ token[entry[r]] = 1
    /\ token' = [token EXCEPT ![entry[r]] = 0]
    /\ pc' = [pc EXCEPT ![r] = "took"]
    /\ UNCHANGED <<vol, ctxDone, entry, entries, refs>>

(* Mutant: a cancelled waiter sends a token that it never received.        *)
WaitCancelledSends(r) ==
    /\ pc[r] = "wait"
    /\ ctxDone[r]
    /\ token[entry[r]] = 0
    /\ token' = [token EXCEPT ![entry[r]] = 1]
    /\ pc' = [pc EXCEPT ![r] = "leave"]
    /\ UNCHANGED <<vol, ctxDone, entry, entries, refs>>

(* Mutant: a plain receive in place of the select.                         *)
WaitNeverCancelled(r) == pc[r] = "none" /\ UNCHANGED vars

(* select: case <-ctx.Done()                                               *)
WaitCancelled(r) ==
    /\ pc[r] = "wait"
    /\ ctxDone[r]
    /\ pc' = [pc EXCEPT ![r] = "leave"]
    /\ UNCHANGED <<vol, ctxDone, entry, entries, refs, token>>

(* The second ctx.Err(), with the token in hand.                           *)
RecheckContext(r) ==
    /\ pc[r] = "took"
    /\ pc' = [pc EXCEPT ![r] = IF ctxDone[r] THEN "giveup" ELSE "hold"]
    /\ UNCHANGED <<vol, ctxDone, entry, entries, refs, token>>

(* entry.token <- struct{}{}: the send blocks while the channel is full.   *)
SendToken(r) ==
    /\ token[entry[r]] = 0
    /\ token' = [token EXCEPT ![entry[r]] = 1]
    /\ pc' = [pc EXCEPT ![r] = "leave"]
    /\ UNCHANGED <<vol, ctxDone, entry, entries, refs>>

(* Mutant: the cancelled request keeps the token it received.              *)
GiveUpWithToken(r) ==
    /\ pc[r] = "giveup"
    /\ pc' = [pc EXCEPT ![r] = "leave"]
    /\ UNCHANGED <<vol, ctxDone, entry, entries, refs, token>>

(* The cancelled request sends the token back.                             *)
GiveUp(r) == pc[r] = "giveup" /\ SendToken(r)

(* The RPC body is over and its deferred unlock closure runs.              *)
Unlock(r) == pc[r] = "hold" /\ SendToken(r)

(* Mutant: every leaver removes the entry.                                 *)
LeaveRemoves(r) ==
    /\ pc[r] = "leave"
    /\ refs' = [refs EXCEPT ![entry[r]] = @ - 1]
    /\ entries' = [entries EXCEPT ![vol[r]] = NoEntry]
    /\ pc' = [pc EXCEPT ![r] = "idle"]
    /\ entry' = [entry EXCEPT ![r] = NoEntry]
    /\ UNCHANGED <<vol, ctxDone, token>>

(* release(): the last reference removes the volume's entry from the map.  *)
Leave(r) ==
    LET e == entry[r] IN
    /\ pc[r] = "leave"
    /\ refs' = [refs EXCEPT ![e] = @ - 1]
    /\ entries' = [entries EXCEPT ![vol[r]] = IF refs[e] = 1 THEN NoEntry ELSE @]
    /\ pc' = [pc EXCEPT ![r] = "idle"]
    /\ entry' = [entry EXCEPT ![r] = NoEntry]
    /\ UNCHANGED <<vol, ctxDone, token>>

-----------------------------------------------------------------------------
LockStep(r) == \/ CheckContext(r) \/ JoinEntry(r) \/ CreateEntry(r)
               \/ WaitCancelled(r) \/ RecheckContext(r) \/ GiveUp(r) \/ Leave(r)

Next == \E r \in Requests :
            \/ \E v \in Volumes : Call(r, v)
            \/ Cancel(r)
            \/ LockStep(r)
            \/ TakeToken(r)
            \/ Unlock(r)

Spec == Init /\ [][Next]_vars

-----------------------------------------------------------------------------
(* Fairness.  A goroutine that can run is eventually run.  SF(TakeToken):  *)
(* receivers blocked on a Go channel are served in FIFO order, so a        *)
(* request that stays in the select is not passed over for ever.           *)
(* There is no fairness on Unlock: an RPC body may hang for ever.          *)
FairSpec == Spec /\ \A r \in Requests : WF_vars(LockStep(r)) /\ SF_vars(TakeToken(r))

-----------------------------------------------------------------------------
(* Every variable has the shape its declaration promises; in particular a  *)
(* reference count is never decremented below 0, and the channel of        *)
(* capacity 1 never holds more than one token.                             *)
TypeOK ==
    /\ pc \in [Requests -> PCs]
    /\ vol \in [Requests -> Volumes]
    /\ ctxDone \in [Requests -> BOOLEAN]
    /\ entry \in [Requests -> EntryIds \union {NoEntry}]
    /\ entries \in [Volumes -> EntryIds \union {NoEntry}]
    /\ refs \in [EntryIds -> Nat]
    /\ token \in [EntryIds -> {0, 1}]

(* Whoever waits for or holds the lock of a volume does so on the entry    *)
(* that the map has for that volume now: release() never removes an entry  *)
(* under a waiter, so two requests can never use two locks for one volume  *)
(* (node_lifecycle.go:54-61 against 25-37).                                *)
CurrentEntry ==
    \A r \in Requests : pc[r] \in UsesEntry => entry[r] = entries[vol[r]] /\ entry[r] # NoEntry

(* Two volumes never share an entry: RPCs of different volumes do not      *)
(* serialize each other.                                                   *)
EntriesDistinct ==
    \A v, w \in Volumes : entries[v] = entries[w] /\ entries[v] # NoEntry => v = w

(* refs counts the goroutines between the two critical sections, and an    *)
(* entry nobody uses is not in the map: idle volumes cost no memory.       *)
RefsExact ==
    \A v \in Volumes : entries[v] # NoEntry =>
        /\ refs[entries[v]] = Cardinality(Users(entries[v]))
        /\ Users(entries[v]) # {}

(* The token of a live entry is in its channel or in the hands of exactly  *)
(* one request; in particular the send in the unlock closure                *)
(* (node_lifecycle.go:46) never finds the channel full and never blocks.   *)
TokenConserved ==
    /\ \A r \in Requests : pc[r] \in HasToken => token[entry[r]] = 0
    /\ \A v \in Volumes : entries[v] # NoEntry /\ token[entries[v]] = 0 =>
          \E r \in Requests : pc[r] \in HasToken /\ vol[r] = v

(* The purpose of the locks: the bodies of two RPCs of one volume never    *)
(* overlap, from the receive of the token to the send that returns it.     *)
MutualExclusion ==
    \A r, s \in Requests :
        pc[r] \in HasToken /\ pc[s] \in HasToken /\ vol[r] = vol[s] => r = s

(* What lock() and release() keep true between them, and what makes the    *)
(* exclusion inductive: everybody is on the entry the map has, no two      *)
(* volumes share one, refs counts its users, and its token is in the       *)
(* channel or with exactly one of them.                                    *)
LockInvariant ==
    TypeOK /\ CurrentEntry /\ EntriesDistinct /\ RefsExact /\ TokenConserved /\ MutualExclusion

(* Every state of the locks is a state of the abstract per-volume mutex    *)
(* and every step is a step of it or leaves it unchanged.  A request is    *)
(* inside from the receive of the token to the send that gives it back.    *)
Holder(v) ==
    IF \E r \in Requests : pc[r] \in HasToken /\ vol[r] = v
    THEN CHOOSE r \in Requests : pc[r] \in HasToken /\ vol[r] = v
    ELSE NoEntry

Mutex == INSTANCE VolumeMutex WITH
             holder <- [v \in Volumes |-> Holder(v)],
             NoRequest <- NoEntry

ImplementsVolumeMutex == Mutex!Spec

(* A request whose context ends while it waits returns, even when the      *)
(* request that holds the lock never finishes (a long filesystem repair).  *)
CancelledWaiterReturns ==
    \A r \in Requests : (pc[r] = "wait" /\ ctxDone[r]) ~> pc[r] = "idle"

(* If RPC bodies end, every waiting request gets the lock unless its       *)
(* context ends first: nobody is starved, and no token is lost on the      *)
(* cancellation paths of other requests.                                   *)
BodiesEnd == \A q \in Requests : []<>(pc[q] # "hold")
WaiterServed ==
    BodiesEnd => \A r \in Requests : pc[r] = "wait" ~> (pc[r] = "hold" \/ ctxDone[r])

=============================================================================
