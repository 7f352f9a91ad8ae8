-------------------------- MODULE FieldExclusivity --------------------------
(***************************************************************************)
(* Who may touch the parser's state: the reference count of the Arc and    *)
(* the try_lock of the Mutex that a Multipart and its Fields share.        *)
(*                                                                         *)
(* One thread polls the Multipart, other threads poll and drop the Fields  *)
(* it has given out; each step below is one access to the shared words.    *)
(* next_field is refused while the count says that a Field is alive; after *)
(* that the code takes the lock with try_lock and holds that this cannot   *)
(* fail (multipart.rs, lines 397 to 402).                                  *)
(***************************************************************************)
EXTENDS Naturals, FiniteSets

CONSTANTS Fields,        \* every Field that may ever be created
          Root           \* the Multipart

ASSUME ActorsAssumption == Root \notin Fields /\ IsFiniteSet(Fields)

VARIABLES
  live,        \* the Fields that exist: each holds a clone of the Arc
  clones,      \* the Fields whose poll holds one more clone
  holder,      \* {} or {the one that holds the Mutex}
  pc,          \* where each poll is
  locked_out   \* those whose last call returned LockFailure

vars == <<live, clones, holder, pc, locked_out>>

Actors == Fields \union {Root}

StrongCount == 1 + Cardinality(live) + Cardinality(clones)

Goto(a, at) == pc' = [pc EXCEPT ![a] = at]

TryLock(a) == holder = {}

\* drop(lock): the guard goes out of scope.
Unlock == holder' = {}

-----------------------------------------------------------------------------
(* next_field.  The state is locked and released twice in one poll: to      *)
(* parse, to poll the stream and, with new input, to parse again.          *)

CallNextField ==
  /\ pc[Root] = "idle"
  /\ Goto(Root, "count")
  /\ locked_out' = locked_out \ {Root}
  /\ UNCHANGED <<live, clones, holder>>

\* Mutant: the reference count is not looked at.
SkipCount ==
  /\ pc[Root] = "count"
  /\ Goto(Root, "lock")
  /\ UNCHANGED <<live, clones, holder, locked_out>>

CheckCount ==
  /\ pc[Root] = "count"
  /\ IF StrongCount # 1
     THEN Goto(Root, "idle") /\ locked_out' = locked_out \union {Root}
     ELSE Goto(Root, "lock") /\ UNCHANGED locked_out
  /\ UNCHANGED <<live, clones, holder>>

LockToParse ==
  /\ pc[Root] = "lock"
  /\ IF TryLock(Root)
     THEN holder' = {Root} /\ Goto(Root, "parsing") /\ UNCHANGED locked_out
     ELSE Goto(Root, "idle") /\ locked_out' = locked_out \union {Root} /\ UNCHANGED holder
  /\ UNCHANGED <<live, clones>>

\* Ok(None) or an error: the guard is dropped on return.
ReturnNoField ==
  /\ pc[Root] = "parsing"
  /\ Unlock /\ Goto(Root, "idle")
  /\ UNCHANGED <<live, clones, locked_out>>

\* The lock is dropped, then the Arc cloned into the new Field.
ParsedField ==
  /\ pc[Root] = "parsing"
  /\ Unlock /\ Goto(Root, "create")
  /\ UNCHANGED <<live, clones, locked_out>>

NewField(f) ==
  /\ pc[Root] = "create" /\ f \notin live /\ pc[f] = "idle"
  /\ live' = live \union {f}
  /\ Goto(Root, "idle")
  /\ UNCHANGED <<clones, holder, locked_out>>

\* Mutant: the first guard is still held when the lock is taken again.
ParsePendingLocked ==
  /\ pc[Root] = "parsing"
  /\ Goto(Root, "relock")
  /\ UNCHANGED <<live, clones, holder, locked_out>>

\* Poll::Pending: the guard is dropped, the poll takes the lock once more.
ParsePending ==
  /\ pc[Root] = "parsing"
  /\ Unlock /\ Goto(Root, "relock")
  /\ UNCHANGED <<live, clones, locked_out>>

LockToFill ==
  /\ pc[Root] = "relock"
  /\ IF TryLock(Root)
     THEN holder' = {Root} /\ Goto(Root, "filling") /\ UNCHANGED locked_out
     ELSE Goto(Root, "idle") /\ locked_out' = locked_out \union {Root} /\ UNCHANGED holder
  /\ UNCHANGED <<live, clones>>

\* New input is parsed at once; without any, and on an error, the poll ends.
Filled ==
  /\ pc[Root] = "filling"
  /\ Unlock
  /\ Goto(Root, "count") \/ Goto(Root, "idle")
  /\ UNCHANGED <<live, clones, locked_out>>

-----------------------------------------------------------------------------
(* A Field: its poll clones the Arc, takes the lock, and drops both.        *)

PollField(f) ==
  /\ f \in live /\ pc[f] = "idle"
  /\ clones' = clones \union {f}
  /\ Goto(f, "lock")
  /\ locked_out' = locked_out \ {f}
  /\ UNCHANGED <<live, holder>>

LockToRead(f) ==
  /\ pc[f] = "lock"
  /\ IF TryLock(f)
     THEN holder' = {f} /\ Goto(f, "parsing") /\ UNCHANGED locked_out
     ELSE Goto(f, "release") /\ locked_out' = locked_out \union {f} /\ UNCHANGED holder
  /\ UNCHANGED <<live, clones>>

\* The guard is dropped before the clone it borrows from.
ReadDone(f) ==
  /\ pc[f] = "parsing"
  /\ Unlock /\ Goto(f, "release")
  /\ UNCHANGED <<live, clones, locked_out>>

ReleaseClone(f) ==
  /\ pc[f] = "release"
  /\ clones' = clones \ {f}
  /\ Goto(f, "idle")
  /\ UNCHANGED <<live, holder, locked_out>>

DropField(f) ==
  /\ f \in live /\ pc[f] = "idle"
  /\ live' = live \ {f}
  /\ locked_out' = locked_out \ {f}
  /\ UNCHANGED <<clones, holder, pc>>

-----------------------------------------------------------------------------
Init ==
  /\ live = {} /\ clones = {} /\ holder = {} /\ locked_out = {}
  /\ pc = [a \in Actors |-> "idle"]

RootNext == \/ CallNextField \/ CheckCount \/ LockToParse \/ ReturnNoField \/ ParsedField
            \/ ParsePending \/ LockToFill \/ Filled
            \/ \E f \in Fields : NewField(f)

FieldNext(f) == PollField(f) \/ LockToRead(f) \/ ReadDone(f) \/ ReleaseClone(f) \/ DropField(f)

Next == RootNext \/ \E f \in Fields : FieldNext(f)

Spec == Init /\ [][Next]_vars

-----------------------------------------------------------------------------
TypeOK ==
  /\ live \subseteq Fields /\ clones \subseteq Fields
  /\ holder \subseteq Actors
  /\ pc \in [Actors -> {"idle", "count", "lock", "parsing", "create", "relock", "filling",
                       "release"}]
  /\ locked_out \subseteq Actors

Inside(a) == pc[a] \in {"parsing", "filling"}

\* At most one of the Multipart and its Fields is inside the state at a time,
\* and at most one Field exists.
Exclusive ==
  /\ \A a, b \in Actors : Inside(a) /\ Inside(b) => a = b
  /\ \A f, g \in live : f = g

\* Past the reference count, the code is alone with the state: no Field can
\* appear, poll or hold the lock before next_field returns.
AloneAfterCount ==
  pc[Root] \in {"lock", "parsing", "relock", "filling", "create"} =>
    /\ live = {} /\ clones = {}
    /\ holder \subseteq {Root}

\* A Field is never refused the lock: LockFailure is next_field's alone.
FieldsNeverLockedOut == locked_out \subseteq {Root}

\* next_field returns LockFailure only while a Field is alive, so dropping the
\* Field is all it takes to recover.
LockFailureMeansLiveField ==
  [][(Root \in locked_out' /\ Root \notin locked_out) => (live # {})]_vars

\* With the count and the lock accessed in steps of their own, by polls on
\* different threads, the Multipart and its Fields take turns.
Turns == INSTANCE TakingTurns WITH inside <- {a \in Actors : Inside(a)}

ImplementsTakingTurns == Turns!Spec
=============================================================================
