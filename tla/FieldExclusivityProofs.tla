----------------------- MODULE FieldExclusivityProofs -----------------------
(***************************************************************************)
(* For any number of Fields over the life of a Multipart: the reference    *)
(* count keeps next_field and the Fields apart.                            *)
(***************************************************************************)
EXTENDS FieldExclusivity, FiniteSetTheorems, TLAPS

RootPlaces  == {"idle", "count", "lock", "parsing", "create", "relock", "filling"}
FieldPlaces == {"idle", "lock", "parsing", "release"}

Types ==
  /\ live \subseteq Fields /\ clones \subseteq live
  /\ pc \in [Actors -> RootPlaces \union FieldPlaces]
  /\ pc[Root] \in RootPlaces
  /\ \A f \in Fields : pc[f] \in FieldPlaces

\* A Field counts twice exactly while it is polled.
ClonedWhilePolled == \A f \in Fields : f \in clones <=> pc[f] # "idle"

\* Whoever is inside the state has the lock, and nobody else has.
HolderInside == holder \subseteq Actors /\ \A a \in Actors : a \in holder <=> Inside(a)

OneField == \A f, g \in live : f = g

\* Past the count there is no Field.  The lock is not free there by itself: it
\* is, because only a Field could hold it.
NoFieldPastCount ==
  pc[Root] \in {"lock", "parsing", "relock", "filling", "create"} => live = {}

IInv == /\ Types /\ ClonedWhilePolled /\ HolderInside /\ OneField
        /\ NoFieldPastCount /\ FieldsNeverLockedOut

-----------------------------------------------------------------------------
LEMMA CountIsOne ==
  ASSUME Types, StrongCount = 1
  PROVE  live = {}
<1>1. IsFiniteSet(live) /\ IsFiniteSet(clones)
  BY ActorsAssumption, FS_Subset DEF Types
<1>2. Cardinality(live) \in Nat /\ Cardinality(clones) \in Nat
  BY <1>1, FS_CardinalityType
<1>3. Cardinality(live) = 0
  BY <1>2 DEF StrongCount
<1> QED BY <1>1, <1>3, FS_EmptySet

LEMMA CountIsNotOne ==
  ASSUME Types, StrongCount # 1
  PROVE  live # {}
<1> SUFFICES ASSUME live = {}
             PROVE  StrongCount = 1
  OBVIOUS
<1>1. clones = {}
  BY DEF Types
<1>2. Cardinality({}) = 0
  BY FS_EmptySet
<1> QED BY <1>1, <1>2 DEF StrongCount

\* The lock is free for whoever finds nobody else inside.
LEMMA LockIsFree ==
  ASSUME HolderInside, \A a \in Actors : ~Inside(a)
  PROVE  holder = {}
BY DEF HolderInside

\* next_field never finds the lock taken.
LEMMA RootGetsLock ==
  ASSUME IInv, pc[Root] \in {"lock", "relock"}
  PROVE  holder = {}
<1>1. live = {} /\ clones = {}
  BY DEF IInv, NoFieldPastCount, Types
<1>2. \A f \in Fields : pc[f] = "idle"
  BY <1>1 DEF IInv, ClonedWhilePolled
<1> QED BY <1>2, LockIsFree DEF IInv, Inside, Actors

\* Nor does a Field: it is the only one, and next_field has not got past it.
LEMMA FieldGetsLock ==
  ASSUME IInv, NEW f \in Fields, pc[f] = "lock"
  PROVE  holder = {}
<1>1. f \in live
  BY DEF IInv, ClonedWhilePolled, Types
<1>2. \A g \in Fields : Inside(g) => g = f
  BY <1>1 DEF IInv, ClonedWhilePolled, Types, OneField, Inside
<1>3. ~Inside(Root) /\ ~Inside(f)
  BY <1>1 DEF IInv, NoFieldPastCount, Inside
<1> QED BY <1>2, <1>3, LockIsFree DEF IInv, Actors

-----------------------------------------------------------------------------
LEMMA ExclusivityInit == Init => IInv
BY ActorsAssumption DEF Init, IInv, Types, RootPlaces, FieldPlaces, ClonedWhilePolled,
   HolderInside, OneField, NoFieldPastCount, FieldsNeverLockedOut, Inside, Actors

LEMMA RootStep ==
  ASSUME IInv, RootNext
  PROVE  IInv'
<1> USE ActorsAssumption
        DEF IInv, Types, ClonedWhilePolled, HolderInside, OneField, NoFieldPastCount,
            FieldsNeverLockedOut, Inside, Actors, Goto, RootPlaces, FieldPlaces
<1>1. CASE CallNextField
  BY <1>1 DEF CallNextField
<1>2. CASE CheckCount
  BY <1>2, CountIsOne DEF CheckCount
<1>3. CASE LockToParse
  BY <1>3, RootGetsLock DEF LockToParse, TryLock
<1>4. CASE ReturnNoField
  BY <1>4 DEF ReturnNoField, Unlock
<1>5. CASE ParsedField
  BY <1>5 DEF ParsedField, Unlock
<1>6. CASE ParsePending
  BY <1>6 DEF ParsePending, Unlock
<1>7. CASE LockToFill
  BY <1>7, RootGetsLock DEF LockToFill, TryLock
<1>8. CASE Filled
  BY <1>8 DEF Filled, Unlock
<1>9. ASSUME NEW f \in Fields, NewField(f)
      PROVE  IInv'
  BY <1>9 DEF NewField
<1> QED BY <1>1, <1>2, <1>3, <1>4, <1>5, <1>6, <1>7, <1>8, <1>9 DEF RootNext

LEMMA FieldStep ==
  ASSUME IInv, NEW f \in Fields, FieldNext(f)
  PROVE  IInv'
<1> USE ActorsAssumption
        DEF IInv, Types, ClonedWhilePolled, HolderInside, OneField, NoFieldPastCount,
            FieldsNeverLockedOut, Inside, Actors, Goto, RootPlaces, FieldPlaces
<1>1. CASE PollField(f)
  BY <1>1 DEF PollField
<1>2. CASE LockToRead(f)
  BY <1>2, FieldGetsLock DEF LockToRead, TryLock
<1>3. CASE ReadDone(f)
  BY <1>3 DEF ReadDone, Unlock
<1>4. CASE ReleaseClone(f)
  BY <1>4 DEF ReleaseClone
<1>5. CASE DropField(f)
  BY <1>5 DEF DropField
<1> QED BY <1>1, <1>2, <1>3, <1>4, <1>5 DEF FieldNext

LEMMA ExclusivityStep ==
  ASSUME IInv, [Next]_vars
  PROVE  IInv'
<1>1. CASE UNCHANGED vars
  BY <1>1 DEF IInv, Types, ClonedWhilePolled, HolderInside, OneField, NoFieldPastCount,
              FieldsNeverLockedOut, Inside, vars
<1> QED BY <1>1, RootStep, FieldStep DEF Next

-----------------------------------------------------------------------------
\* At most one of the Multipart and its Fields is inside the state, and at most
\* one Field exists at a time.
THEOREM ExclusiveAccess == Spec => []Exclusive
<1>1. IInv => Exclusive
  <2> SUFFICES ASSUME IInv, NEW a \in Actors, NEW b \in Actors, Inside(a), Inside(b)
               PROVE  a = b
    BY DEF Exclusive, IInv, OneField
  <2>1. \A f \in Fields : Inside(f) => f \in live
    BY DEF IInv, Types, ClonedWhilePolled, Inside
  <2>2. Inside(Root) => live = {}
    BY DEF IInv, NoFieldPastCount, Inside
  <2> QED BY <2>1, <2>2 DEF IInv, OneField, Actors
<1> QED BY <1>1, ExclusivityInit, ExclusivityStep, PTL DEF Spec

\* Once next_field has looked at the count it is alone with the state until it
\* returns: no Field can appear or hold the lock.
THEOREM AlonePastCount == Spec => []AloneAfterCount
<1>1. IInv => AloneAfterCount
  <2> SUFFICES ASSUME IInv,
                      pc[Root] \in {"lock", "parsing", "relock", "filling", "create"}
               PROVE  live = {} /\ clones = {} /\ holder \subseteq {Root}
    BY DEF AloneAfterCount
  <2>1. live = {} /\ clones = {}
    BY DEF IInv, NoFieldPastCount, Types
  <2>2. \A f \in Fields : ~Inside(f)
    BY <2>1 DEF IInv, ClonedWhilePolled, Inside
  <2> QED BY <2>1, <2>2 DEF IInv, HolderInside, Actors
<1> QED BY <1>1, ExclusivityInit, ExclusivityStep, PTL DEF Spec

\* No Field is ever refused the lock.
THEOREM FieldsGetTheLock == Spec => []FieldsNeverLockedOut
<1>1. IInv => FieldsNeverLockedOut
  BY DEF IInv
<1> QED BY <1>1, ExclusivityInit, ExclusivityStep, PTL DEF Spec

\* next_field fails with LockFailure only while a Field is alive: never because
\* of the lock itself.
THEOREM LockFailureHasCause == Spec => LockFailureMeansLiveField
<1>1. ASSUME IInv, [Next]_vars
      PROVE  [(Root \in locked_out' /\ Root \notin locked_out) => live # {}]_vars
  <2> SUFFICES ASSUME Next, Root \in locked_out', Root \notin locked_out
               PROVE  live # {}
    BY <1>1
  <2>1. CASE CheckCount
    BY <1>1, <2>1, CountIsNotOne DEF CheckCount, IInv
  <2>2. CASE LockToParse
    BY <1>1, <2>2, RootGetsLock DEF LockToParse, TryLock
  <2>3. CASE LockToFill
    BY <1>1, <2>3, RootGetsLock DEF LockToFill, TryLock
  <2>4. CASE \E f \in Fields : FieldNext(f)
    BY <2>4, ActorsAssumption DEF FieldNext, PollField, LockToRead, ReadDone, ReleaseClone,
                                  DropField
  <2>5. CASE CallNextField \/ ReturnNoField \/ ParsedField \/ ParsePending \/ Filled
               \/ \E f \in Fields : NewField(f)
    BY <2>5 DEF CallNextField, ReturnNoField, ParsedField, ParsePending, Filled, NewField
  <2> QED BY <2>1, <2>2, <2>3, <2>4, <2>5 DEF Next, RootNext
<1> QED BY <1>1, ExclusivityInit, ExclusivityStep, PTL DEF Spec, LockFailureMeansLiveField

-----------------------------------------------------------------------------
(* The count and the lock bring about the turns: the lock is whose turn it  *)
(* is, so that a step is read off what it does to live and to holder.       *)

Turn == {a \in Actors : Inside(a)}

LEMMA TurnIsHolder ==
  ASSUME IInv, IInv'
  PROVE  Turn = holder /\ Turn' = holder'
<1>1. Turn = holder
  BY DEF IInv, HolderInside, Turn
<1>2. Turn' = holder'
  BY DEF IInv, HolderInside, Turn, Actors
<1> QED BY <1>1, <1>2

\* A turn, said of the lock.
LockTurn ==
  \/ live = {} /\ holder = {} /\ holder' = {Root} /\ UNCHANGED live
  \/ holder = {Root} /\ holder' = {} /\ UNCHANGED live
  \/ \E f \in Fields :
       \/ f \in live /\ holder = {} /\ holder' = {f} /\ UNCHANGED live
       \/ holder = {f} /\ holder' = {} /\ UNCHANGED live
       \/ live = {} /\ holder = {} /\ live' = {f} /\ UNCHANGED holder
       \/ live = {f} /\ holder = {} /\ live' = {} /\ UNCHANGED holder
  \/ UNCHANGED <<live, holder>>

\* Whoever is inside holds the lock alone.
LEMMA InsideHoldsAlone ==
  ASSUME IInv, NEW a \in Actors, Inside(a)
  PROVE  holder = {a}
<1>1. a \in holder /\ \A b \in holder : b \in Actors /\ Inside(b)
  BY DEF IInv, HolderInside
<1>2. \A f \in Fields : Inside(f) => f \in live
  BY DEF IInv, Types, ClonedWhilePolled, Inside
<1>3. Inside(Root) => live = {}
  BY DEF IInv, NoFieldPastCount, Inside
<1>4. \A b \in holder : b = a
  BY <1>1, <1>2, <1>3 DEF IInv, OneField, Actors
<1> QED BY <1>1, <1>4

LEMMA RootTakesTurns ==
  ASSUME IInv, RootNext
  PROVE  LockTurn
<1> USE DEF LockTurn
<1>r. Root \in Actors
  BY DEF Actors
<1>1. CASE CallNextField \/ CheckCount
  BY <1>1 DEF CallNextField, CheckCount
<1>2. CASE LockToParse
  BY <1>2, RootGetsLock DEF LockToParse, TryLock, IInv, NoFieldPastCount
<1>3. CASE LockToFill
  BY <1>3, RootGetsLock DEF LockToFill, TryLock, IInv, NoFieldPastCount
<1>4. CASE ReturnNoField \/ ParsedField \/ ParsePending \/ Filled
  <2>1. Inside(Root) /\ holder' = {} /\ UNCHANGED live
    BY <1>4 DEF ReturnNoField, ParsedField, ParsePending, Filled, Unlock, Inside
  <2> QED BY <2>1, <1>r, InsideHoldsAlone
<1>5. ASSUME NEW f \in Fields, NewField(f)
      PROVE  LockTurn
  <2>1. live = {} /\ live' = {f} /\ UNCHANGED holder
    BY <1>5 DEF NewField, IInv, NoFieldPastCount
  <2>2. \A g \in Fields : ~Inside(g)
    BY <2>1 DEF IInv, Types, ClonedWhilePolled, Inside
  <2>3. ~Inside(Root)
    BY <1>5 DEF NewField, Inside
  <2> QED BY <2>1, <2>2, <2>3, LockIsFree DEF IInv, Actors
<1> QED BY <1>1, <1>2, <1>3, <1>4, <1>5 DEF RootNext

LEMMA FieldTakesTurns ==
  ASSUME IInv, NEW f \in Fields, FieldNext(f)
  PROVE  LockTurn
<1> USE DEF LockTurn
<1>a. f \in Actors
  BY DEF Actors
<1>1. CASE PollField(f) \/ ReleaseClone(f)
  BY <1>1 DEF PollField, ReleaseClone
<1>2. CASE LockToRead(f)
  <2>1. holder = {} /\ f \in live
    BY <1>2, FieldGetsLock DEF LockToRead, IInv, ClonedWhilePolled, Types
  <2> QED BY <1>2, <2>1 DEF LockToRead, TryLock
<1>3. CASE ReadDone(f)
  <2>1. Inside(f) /\ holder' = {} /\ UNCHANGED live
    BY <1>3 DEF ReadDone, Unlock, Inside
  <2> QED BY <2>1, <1>a, InsideHoldsAlone
<1>4. CASE DropField(f)
  <2>1. live = {f} /\ live' = {} /\ UNCHANGED holder
    BY <1>4 DEF DropField, IInv, OneField
  <2>2. \A g \in Fields : ~Inside(g)
    BY <1>4, <2>1 DEF DropField, IInv, Types, ClonedWhilePolled, Inside
  <2>3. ~Inside(Root)
    BY <2>1 DEF IInv, NoFieldPastCount, Inside
  <2> QED BY <2>1, <2>2, <2>3, LockIsFree DEF IInv, Actors
<1> QED BY <1>1, <1>2, <1>3, <1>4 DEF FieldNext

\* For any number of Fields, the reference count and the try_lock of multra
\* implement the turns: the Multipart works on the state only while no Field
\* exists, gives out one Field at a time, and a Field works only while it exists.
THEOREM CountAndLockTakeTurns == Spec => ImplementsTakingTurns
<1>1. Init => Turns!Init
  BY DEF Init, Turns!Init, Inside
<1>2. ASSUME IInv, IInv', [Next]_vars
      PROVE  [Turns!Next]_(Turns!turns)
  <2>1. LockTurn
    <3>1. CASE UNCHANGED vars
      BY <3>1 DEF LockTurn, vars
    <3> QED BY <3>1, <1>2, RootTakesTurns, FieldTakesTurns DEF Next
  <2>2. Turn = holder /\ Turn' = holder'
    BY <1>2, TurnIsHolder
  <2> QED BY <2>1, <2>2 DEF LockTurn, Turn, Turns!Next, Turns!turns, Turns!RootEnters,
             Turns!FieldEnters, Turns!Leaves, Turns!GivesOut, Turns!Drops
<1> QED BY <1>1, <1>2, ExclusivityInit, ExclusivityStep, PTL
        DEF Spec, ImplementsTakingTurns, Turns!Spec
=============================================================================
