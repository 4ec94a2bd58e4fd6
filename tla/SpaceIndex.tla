------------------------------ MODULE SpaceIndex ------------------------------
(***************************************************************************)
(* How the live memories of a space are listed and counted                 *)
(* (internal/store/bolt/space_state.go).                                   *)
(*                                                                         *)
(* MemoryStore keeps the members and the counters of a space exact.  The   *)
(* file holds them in one of two forms: membership keys with persisted     *)
(* counters, or, when an older program wrote the file, one list of ids and *)
(* no counters.  Every write of a member moves the list into keys, and the *)
(* first write that needs the counters scans for them.  Here the index is  *)
(* kept as the file has it, beside MemoryStore, from the older program to  *)
(* the present one.                                                        *)
(***************************************************************************)
EXTENDS MemoryStore

VARIABLES
  program,  \* "old" or "new": which program has the file open
  index,    \* by space: membership keys, legacy list and persisted counters
  touched   \* by space: the operation that first asked for the counters

indexVars == <<program, index, touched>>

Index ==
  [keys: SUBSET MemoryIDs, list: (SUBSET MemoryIDs) \cup {Nil},
   counts: [Kinds -> Int] \cup {Nil}]

\* A stored list and stored counters are told apart from none.
ASSUME IndexAssumption ==
  /\ \A ids \in SUBSET MemoryIDs : ids # Nil
  /\ Nil \notin [Kinds -> Int]

NoIndex == [keys |-> {}, list |-> Nil, counts |-> Nil]

ZeroCounts == [kind \in Kinds |-> 0]

-------------------------------------------------------------------------------
(* Reading and changing the index of one space, ix. *)

LoadSpaceMemoryIDs(ix) ==
  IF ix.keys # {} \/ ix.counts # Nil THEN ix.keys
  ELSE IF ix.list # Nil THEN ix.list ELSE {}

CountLiveKindsByScan(d, ix) ==
  [kind \in Kinds |->
     Cardinality({id \in LoadSpaceMemoryIDs(ix) : d.memories[id].kind = kind})]

LoadLiveKindCounts(d, ix) ==
  IF ix.counts = Nil THEN CountLiveKindsByScan(d, ix) ELSE ix.counts

\* Loading the counters also saves what a scan found.
WithCounts(d, ix) == [ix EXCEPT !.counts = LoadLiveKindCounts(d, ix)]

IncrementLiveKindCount(d, ix, kind, delta) ==
  [WithCounts(d, ix) EXCEPT !.counts[kind] = @ + delta]

MigrateLegacySpaceMemoryIDs(ix) ==
  IF ix.list = Nil THEN ix
  ELSE [ix EXCEPT !.keys = @ \cup ix.list, !.list = Nil]

AddSpaceMemoryID_leavesList(ix, id) == [ix EXCEPT !.keys = @ \cup {id}]

AddSpaceMemoryID(ix, id) ==
  [MigrateLegacySpaceMemoryIDs(ix) EXCEPT !.keys = @ \cup {id}]

RemoveSpaceMemoryID(ix, id) ==
  [MigrateLegacySpaceMemoryIDs(ix) EXCEPT !.keys = @ \ {id}]

(***************************************************************************)
(* What the operations do to it, in the order of the code: d is the        *)
(* database before the step, e the one after it.  A Remember loads the     *)
(* counters for its limit check before it touches the members; a Forget    *)
(* and a Revive touch the members first.                                   *)
(***************************************************************************)
RememberIndex_countsLast(d, e, ix, id) ==
  LET parent == e.memories[id].parentID
      kind   == e.memories[id].kind
      added  == AddSpaceMemoryID(RemoveSpaceMemoryID(ix, parent), id)
  IN  IF parent = Nil THEN IncrementLiveKindCount(e, added, kind, 1)
      ELSE IncrementLiveKindCount(e,
             IncrementLiveKindCount(e, added, d.memories[parent].kind, -1),
             kind, 1)

RememberIndex(d, e, ix, id) ==
  LET parent  == e.memories[id].parentID
      kind    == e.memories[id].kind
      counted == WithCounts(d, ix)
      added   == AddSpaceMemoryID(RemoveSpaceMemoryID(counted, parent), id)
  IN  IF parent = Nil
      THEN IncrementLiveKindCount(e, AddSpaceMemoryID(counted, id), kind, 1)
      ELSE IncrementLiveKindCount(e,
             IncrementLiveKindCount(e, added, d.memories[parent].kind, -1),
             kind, 1)

ForgetIndex(d, e, ix, id) ==
  IncrementLiveKindCount(e, RemoveSpaceMemoryID(ix, id),
                         d.memories[id].kind, -1)

ReviveIndex(d, e, ix, id) ==
  IncrementLiveKindCount(e, AddSpaceMemoryID(ix, id), e.memories[id].kind, 1)

Touch(space, operation) ==
  touched' = [touched EXCEPT ![space] =
                IF index[space].counts = Nil THEN operation ELSE @]

\* The memory a committed step of the store wrote, and the live one it forgot.
Added == Stored(db') \ Stored(db)
Ended == {id \in Stored(db) : db.memories[id].isLatest /\ id \in db'.forgetLog}

-------------------------------------------------------------------------------
(* The present program: a step of the store with its step of the index. *)

SpaceOfWritten(id) == db'.memories[id].spaceID

Becomes(space, ix, operation) ==
  /\ index' = [index EXCEPT ![space] = ix]
  /\ Touch(space, operation)

IndexedRemember ==
  /\ Remember
  /\ \E id \in Added :
       Becomes(SpaceOfWritten(id),
               RememberIndex(db, db', index[SpaceOfWritten(id)], id), "remember")

IndexedForget ==
  /\ Forget
  /\ IF Ended = {} THEN UNCHANGED <<index, touched>>
     ELSE \E id \in Ended :
            Becomes(SpaceOfWritten(id),
                    ForgetIndex(db, db', index[SpaceOfWritten(id)], id), "forget")

IndexedRevive ==
  /\ ReviveCommit
  /\ \E id \in Added :
       Becomes(SpaceOfWritten(id),
               ReviveIndex(db, db', index[SpaceOfWritten(id)], id), "revive")

\* The first EnsureSpace of a space saves counters of zero.
IndexedEnsureSpace ==
  LET created == {space \in Spaces :
                    db'.spacesConfig[space] # db.spacesConfig[space]}
  IN  /\ EnsureSpace
      /\ index' = [space \in Spaces |->
           IF space \in created THEN [index[space] EXCEPT !.counts = ZeroCounts]
           ELSE index[space]]
      /\ touched' = [space \in Spaces |->
           IF space \in created THEN "init" ELSE touched[space]]

Unindexed ==
  /\ \/ ReviveBegin \/ ReviveSkip \/ ReviveSuperseded \/ ReviveMiss
     \/ UpdateSpaceConfig \/ Crash
  /\ UNCHANGED <<index, touched>>

NewProgramStep ==
  /\ program = "new"
  /\ \/ IndexedRemember \/ IndexedForget \/ IndexedRevive
     \/ IndexedEnsureSpace \/ Unindexed
  /\ UNCHANGED program

(***************************************************************************)
(* The older program is not in the repository.  All that is known of it is *)
(* what the present one reads: the ids of the live memories, in one list.  *)
(***************************************************************************)
OldProgramStep ==
  /\ program = "old"
  /\ Remember \/ Forget \/ EnsureSpace \/ ReviveBegin \/ TxStep
  /\ index' = [space \in Spaces |->
       [NoIndex EXCEPT !.list =
          IF index[space].list = Nil /\ LiveIn(db', space) = {} THEN Nil
          ELSE LiveIn(db', space)]]
  /\ UNCHANGED <<program, touched>>

\* Between two sessions: nothing is converted on Open.
Upgrade ==
  /\ program = "old"
  /\ Idle
  /\ program' = "new"
  /\ UNCHANGED <<index, touched, vars>>

IndexInit ==
  /\ Init
  /\ program \in {"old", "new"}
  /\ index = [space \in Spaces |-> NoIndex]
  /\ touched = [space \in Spaces |-> Nil]

IndexNext == NewProgramStep \/ OldProgramStep \/ Upgrade

IndexSpec == IndexInit /\ [][IndexNext]_<<vars, indexVars>>

-------------------------------------------------------------------------------
(* Properties. *)

\* Listings, exports and recalls, which all go through loadSpaceMemoryIDs, see
\* exactly the live memories, before, during and after the conversion.
ListingIsExact ==
  \A space \in Spaces :
    LoadSpaceMemoryIDs(index[space]) = LiveIn(db, space)

Drift(operation) ==
  CASE operation = "forget" -> -1
    [] operation = "revive" -> 1
    [] OTHER -> 0

Total(counts) == counts["static"] + counts["derived"] + counts["episodic"]

\* The counters that the corpus limits are compared with are those of the live
\* memories, unless the first operation that asked for them in an older file was
\* a Forget or a Revive: it scans the members it has just changed and then
\* counts its own change again.  That error stays for ever and never grows.
CountsDriftOnlyByFirstTouch ==
  \A space \in Spaces :
    index[space].counts # Nil =>
      Total(index[space].counts)
        = Cardinality(LiveIn(db, space)) + Drift(touched[space])

===============================================================================
