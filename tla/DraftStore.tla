----------------------------- MODULE DraftStore -----------------------------
(***************************************************************************)
(* The in-memory draft store of internal/core/store.go: a mutex-guarded    *)
(* map of drafts with a capacity and a time-to-live.  Each exported method *)
(* holds the mutex from its first line to its last, so each is one action. *)
(*                                                                         *)
(* This module is about the LIFETIME of drafts: which drafts are in the    *)
(* map, and how long ago each was last written.  Contents are the subject  *)
(* of DraftEdits.  The methods that only read (Get, List) leave no trace   *)
(* here: a read does not refresh UpdatedAt.                                *)
(*                                                                         *)
(* Absolute time is left out: a draft carries now - UpdatedAt, the only    *)
(* quantity the code ever compares, and Tick adds one to all of them.  Two *)
(* drafts written within one unit of time are ties, which evictOldestLocked*)
(* breaks by the iteration order of a Go map, that is, either way.         *)
(***************************************************************************)
EXTENDS Naturals, FiniteSets

CONSTANTS
    DraftIds,   \* the ids newID can return
    TTL,        \* Store.ttl, in units of time
    Interval,   \* the period given to StartSweeper
    MaxDrafts   \* Store.maxDrafts; 0 means no limit

ASSUME TTLAssumption == TTL \in Nat
ASSUME IntervalAssumption == Interval \in Nat \ {0}
ASSUME MaxDraftsAssumption == MaxDrafts \in Nat

VARIABLES
    idle,       \* Store.m: live draft id -> time since its UpdatedAt
    sinceSweep  \* time since the sweeper's ticker last fired

vars == <<idle, sinceSweep>>

live == DOMAIN idle

TypeOK ==
    /\ live \subseteq DraftIds
    /\ idle \in [live -> Nat]
    /\ sinceSweep \in 0..Interval

Init ==
    /\ idle = [id \in {} |-> 0]
    /\ sinceSweep = 0

-----------------------------------------------------------------------------
(* The map's two primitive writes.                                         *)

\* The map after delete(m, id) for every id of gone.
Without(gone) == [id \in live \ gone |-> idle[id]]

\* The map f after m[id] = d with a fresh UpdatedAt.
Stamped(f, id) == [i \in DOMAIN f \cup {id} |-> IF i = id THEN 0 ELSE f[i]]

\* Mutant: evict whichever draft the map yields first.
OldestOfAny == live

\* The drafts evictOldestLocked may pick: none was written before them.
Oldest == {id \in live : \A other \in live : idle[other] <= idle[id]}

\* Mutant: the store is full only once it has more than maxDrafts drafts.
AtCapacityLate == MaxDrafts > 0 /\ Cardinality(live) > MaxDrafts

AtCapacity == MaxDrafts > 0 /\ Cardinality(live) >= MaxDrafts

-----------------------------------------------------------------------------
(* The operations of the store.                                            *)

\* Create: evict if full, then insert.  newID draws 128 random bits, so the
\* new id is none of the live ones.  Nothing of a dead draft is kept, so the
\* model may reuse the id of one.
CreateIn(id, f) == idle' = Stamped(f, id)

Create(id) ==
    /\ id \in DraftIds \ live
    /\ \/ /\ ~AtCapacity
          /\ CreateIn(id, idle)
       \/ /\ AtCapacity
          /\ \E victim \in Oldest : CreateIn(id, Without({victim}))
    /\ UNCHANGED sinceSweep

\* Update always refreshes UpdatedAt.
Update(id) ==
    /\ id \in live
    /\ idle' = Stamped(idle, id)
    /\ UNCHANGED sinceSweep

\* Mutate refreshes it only when fn reports a change: a dry run, a refused
\* edit and an edit that failed leave the draft as old as it was.
Mutate(id, bump) ==
    /\ id \in live
    /\ idle' = IF bump THEN Stamped(idle, id) ELSE idle
    /\ UNCHANGED sinceSweep

Discard(id) ==
    /\ id \in live
    /\ idle' = Without({id})
    /\ UNCHANGED sinceSweep

\* Mutant: expired at the TTL instead of after it.
ExpiredEarly == {id \in live : idle[id] >= TTL}

\* The drafts UpdatedAt.Before(now - ttl) selects.
Expired == {id \in live : idle[id] > TTL}

\* Mutants: the loop stops at the first expired draft; the sweeper runs on a
\* timer that is not set again.
SweepOne ==
    /\ sinceSweep = Interval
    /\ idle' = Without(IF Expired = {} THEN {} ELSE {CHOOSE id \in Expired : TRUE})
    /\ sinceSweep' = 0

SweepOnce ==
    /\ sinceSweep = Interval
    /\ idle' = Without(Expired)
    /\ UNCHANGED sinceSweep

\* One firing of StartSweeper's ticker.
Sweep ==
    /\ sinceSweep = Interval
    /\ idle' = Without(Expired)
    /\ sinceSweep' = 0

\* Mutant: a sweep that is due is left out.
TickOver ==
    /\ idle' = [id \in live |-> idle[id] + 1]
    /\ sinceSweep' = sinceSweep + 1

\* Time passes.  The ticker's goroutine needs the mutex for microseconds and
\* a unit of time stands for minutes, so a sweep that is due runs before the
\* next unit begins.
Tick ==
    /\ sinceSweep < Interval
    /\ idle' = [id \in live |-> idle[id] + 1]
    /\ sinceSweep' = sinceSweep + 1

\* The process ends and starts again: nothing is persisted, and newStore
\* starts a new ticker.
Restart ==
    /\ idle' = [id \in {} |-> 0]
    /\ sinceSweep' = 0

Next ==
    \/ \E id \in DraftIds :
        \/ Create(id)
        \/ Update(id)
        \/ \E bump \in BOOLEAN : Mutate(id, bump)
        \/ Discard(id)
    \/ Sweep
    \/ Tick
    \/ Restart

\* Time does not stop, and the sweeper's goroutine is scheduled.  Nothing is
\* assumed of the clients.
Fairness == WF_vars(Tick) /\ WF_vars(Sweep)

Spec == Init /\ [][Next]_vars

FairSpec == Spec /\ Fairness

-----------------------------------------------------------------------------
(* Properties.                                                             *)

\* Whatever the clients do, the store never holds more than maxDrafts drafts
\* (Create: "so live-draft memory stays bounded").
Bounded == MaxDrafts > 0 => Cardinality(live) <= MaxDrafts

\* The sweeper only looks every Interval, so a draft may outlive its TTL; it
\* never outlives it by more than one interval (NewStore: "drafts expire
\* after ttl of inactivity").
IdleBounded == \A id \in live : idle[id] <= TTL + Interval

\* A draft leaves the store for one of four reasons and no other: a client
\* discarded it, the process restarted, it was idle for longer than the TTL,
\* or the store was full and no other draft had been idle for longer.  In
\* particular a client that writes at least every TTL never loses its draft
\* to the sweeper, and no draft is evicted while there is room.
MayBeLost(id) ==
    \/ Discard(id)
    \/ Restart
    \/ idle[id] > TTL /\ sinceSweep = Interval
    \/ AtCapacity /\ id \in Oldest /\ \E new \in DraftIds \ live : Create(new)

LossJustified == [][\A id \in live : id \notin DOMAIN idle' => MayBeLost(id)]_vars

\* A full store displaces exactly as many drafts as it admits, and while an
\* expired draft is still waiting for the sweeper it goes before any draft
\* that is within its TTL.
ExpiredGoFirst ==
    [][\A id \in live :
        (id \notin DOMAIN idle' /\ sinceSweep < Interval /\ ~Discard(id) /\ ~Restart)
            => /\ Cardinality(DOMAIN idle') = Cardinality(live)
               /\ Expired # {} => id \in Expired]_vars

\* No draft stays for ever without being written: again and again it is
\* either gone or freshly written.  Reading it (Get, List) is not enough.
Reclaimed == \A id \in DraftIds : []<>(id \notin live \/ idle[id] = 0)
=============================================================================
