---------------------------- MODULE StateCatalog ----------------------------
(***************************************************************************)
(* What the persistent runtime-state catalog of one principal promises:    *)
(* a set of states that always fits its quota, changed by atomic steps.    *)
(* StateStore implements it with directories, a journal and recovery.      *)
(***************************************************************************)
EXTENDS Naturals, FiniteSets, FiniteSetsExt

CONSTANTS
  Ids,        \* state identifiers
  Size,       \* the payload bytes of each state
  MaxBytes,   \* StateStoreLimits::max_namespace_bytes
  MaxEntries  \* StateStoreLimits::max_namespace_entries

VARIABLES
  states,  \* the catalog
  parting  \* states that gave way to the last newcomer and still take up disk space

vars == <<states, parting>>

Fits(S) ==
  /\ MapThenSumSet(LAMBDA id : Size[id], S) <= MaxBytes
  /\ Cardinality(S) <= MaxEntries

Init == states = {} /\ parting = {}

\* A newcomer is published and what must make room for it has gone, at once.
Commit ==
  /\ parting = {}
  /\ \E id \in Ids \ states, V \in SUBSET states :
       /\ states' = (states \ V) \cup {id}
       /\ parting' = V
  /\ Fits(states')

\* States are pruned, expire, or are lost to a removal that did not finish;
\* the space of those that gave way is freed.
Remove ==
  /\ states' \in SUBSET states
  /\ parting' \in SUBSET parting

\* When the newcomer itself goes first, those that gave way to it are back.
Return ==
  /\ \E newcomer \in states, S \in SUBSET parting :
       states' = (states \ {newcomer}) \cup S
  /\ parting' = {}
  /\ Fits(states')

Next == Commit \/ Remove \/ Return

Spec == Init /\ [][Next]_vars
=============================================================================
