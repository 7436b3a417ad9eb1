-------------------------- MODULE TerminalBuffers --------------------------
(***************************************************************************)
(* The saved screens of the console's terminals                            *)
(* (apps/console/src/lib/terminal-tabs-storage.ts): a pool of at most      *)
(* MaxBuffers entries in localStorage, with an index that orders them for  *)
(* eviction, and in memory the keys of the tabs closed in this page.       *)
(*                                                                         *)
(* A screen is the set of things written on it.  The index keeps its       *)
(* entries by updatedAt, oldest first, so it is a sequence of keys.  The   *)
(* cap on the bytes of the whole pool never binds: MaxBuffers screens of   *)
(* the greatest size fit.                                                  *)
(***************************************************************************)
EXTENDS Naturals, Sequences, SequencesExt

CONSTANTS
  Keys,         \* `${sandboxId}:${tabId}`
  MaxBuffers,   \* MAX_BUFFERS
  Absent,       \* no item under the key
  MaxTroubles   \* bound: writes refused for quota, screens over the size cap

ASSUME PoolAssumption == MaxBuffers \in Nat \ {0} /\ MaxTroubles \in Nat

VARIABLES
  index,            \* the keys of the index, oldest first
  store,            \* the screen under each key, or Absent
  tombstonedKeys,   \* keys closed in this page
  troubles          \* troubles so far

poolVars == <<index, store, tombstonedKeys, troubles>>

Stored == {k \in Keys : store[k] # Absent}
Indexed == {index[i] : i \in 1 .. Len(index)}

(* The index without the entry of k: a key has one at most. *)
Without(k) ==
  IF k \in Indexed THEN RemoveAt(index, CHOOSE i \in 1 .. Len(index) : index[i] = k)
                   ELSE index

PoolInit ==
  /\ index = <<>>
  /\ store = [k \in Keys |-> Absent]
  /\ tombstonedKeys = {}
  /\ troubles = 0

-----------------------------------------------------------------------------
(* Mutant: the new entry is not counted. *)
SurplusButNew(k) ==
  IF Len(Without(k)) > MaxBuffers THEN Len(Without(k)) - MaxBuffers ELSE 0

(* How many entries make room for k: the oldest, but for its own. *)
Surplus(k) ==
  IF Len(Without(k)) >= MaxBuffers THEN Len(Without(k)) - MaxBuffers + 1 ELSE 0

Evicted(k) == {Without(k)[i] : i \in 1 .. Surplus(k)}
Entries(k) == Append(SubSeq(Without(k), Surplus(k) + 1, Len(Without(k))), k)

(* The screens after the eviction and the write of v under k. *)
Screens(k, v) ==
  [e \in Keys |-> IF e = k THEN v ELSE IF e \in Evicted(k) THEN Absent
                  ELSE store[e]]

Trouble == troubles < MaxTroubles /\ troubles' = troubles + 1

Write(k, v) ==
  /\ store' = Screens(k, v)
  /\ index' = Entries(k)
  /\ UNCHANGED troubles

(* writeBufferIndex ignores a refusal: the screen stays without an entry. *)
WriteUnindexed(k, v) ==
  /\ Trouble
  /\ store' = Screens(k, v)
  /\ UNCHANGED index

(* The write of the screen is refused after the eviction: it is dropped with
   the older one of its key, and the index is left as it was. *)
WriteRefused(k) ==
  /\ Trouble
  /\ store' = Screens(k, Absent)
  /\ UNCHANGED index

(* A screen over the size cap is not written; an older one of its key stays. *)
WriteTooLarge == Trouble /\ UNCHANGED <<index, store>>

SaveTerminalBuffer(k, v) ==
  \/ k \in tombstonedKeys /\ UNCHANGED <<index, store, troubles>>
  \/ /\ k \notin tombstonedKeys
     /\ Write(k, v) \/ WriteUnindexed(k, v) \/ WriteRefused(k) \/ WriteTooLarge

ClearTerminalBuffer(k) ==
  /\ store' = [store EXCEPT ![k] = Absent]
  /\ index' = Without(k)
  /\ UNCHANGED troubles

(* Mutant: the buffer of a closed tab is only cleared. *)
CloseOnlyClears(k) == ClearTerminalBuffer(k) /\ UNCHANGED tombstonedKeys

CloseTerminalBuffer(k) ==
  /\ tombstonedKeys' = tombstonedKeys \cup {k}
  /\ ClearTerminalBuffer(k)

-----------------------------------------------------------------------------
(***************************************************************************)
(* The pool is bounded by its index ("capped to keep localStorage well     *)
(* under quota", terminal-tabs-storage.ts:103-104): at most MaxBuffers     *)
(* entries.  A stored screen without an entry, which no eviction will ever *)
(* find, and an entry without its screen, which takes another one's place, *)
(* were each left by a write that was refused: one at most for each.       *)
(***************************************************************************)
PoolBounded ==
  /\ Len(index) <= MaxBuffers
  /\ Cardinality(Stored \ Indexed) <= troubles
  /\ Cardinality(Indexed \ Stored) <= troubles
=============================================================================
