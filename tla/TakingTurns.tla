---------------------------- MODULE TakingTurns ----------------------------
(***************************************************************************)
(* What multra promises about a Multipart and its Fields, whatever thread  *)
(* each of them is on: they take turns.  The Multipart works on the shared *)
(* state and gives out a Field only when there is no other; a Field works  *)
(* on it only while it exists.  No count and no lock: how this is brought  *)
(* about is FieldExclusivity's matter.                                     *)
(***************************************************************************)
CONSTANTS Fields, Root

VARIABLES
  live,      \* the Fields that exist
  inside     \* who is at work on the shared state

turns == <<live, inside>>

Init == live = {} /\ inside = {}

RootEnters     == live = {} /\ inside = {} /\ inside' = {Root} /\ UNCHANGED live
FieldEnters(f) == f \in live /\ inside = {} /\ inside' = {f} /\ UNCHANGED live
Leaves(a)      == inside = {a} /\ inside' = {} /\ UNCHANGED live

\* A Field is given out and dropped while nobody is at work.
GivesOut(f) == live = {} /\ inside = {} /\ live' = {f} /\ UNCHANGED inside
Drops(f)    == live = {f} /\ inside = {} /\ live' = {} /\ UNCHANGED inside

Next ==
  \/ RootEnters \/ Leaves(Root)
  \/ \E f \in Fields : FieldEnters(f) \/ Leaves(f) \/ GivesOut(f) \/ Drops(f)

Spec == Init /\ [][Next]_turns
=============================================================================
