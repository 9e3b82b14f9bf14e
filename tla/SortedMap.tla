------------------------------ MODULE SortedMap ------------------------------
(***************************************************************************)
(* The map of common/src/utils/containers/map/map.c: an array of entries   *)
(* sorted by key, in which binary search finds the place of a key.  It has *)
(* one user at a time, so a call is one step.                              *)
(***************************************************************************)
EXTENDS Integers, Sequences, SequencesExt

CONSTANTS
  Keys,
  Values,
  NoValue

ASSUME KeysAssumption == Keys \subseteq Int

VARIABLES
  entries,      \* map->data[0 .. items_number - 1]
  mapCapacity,  \* map->capacity
  answer,       \* what the last call returned
  mapCall       \* history: the last call, with its arguments; nothing depends on it

mapVars == <<entries, mapCapacity, answer, mapCall>>

Entry == [key : Keys, data : Values]

(* turn changes at every call; starved: memory was wanted and not given.     *)
MapCall ==
  [turn : BOOLEAN, name : {"create", "insert", "erase", "find", "clear"},
   args : {<<>>} \cup {<<key>> : key \in Keys} \cup (Keys \X Values),
   starved : BOOLEAN]

(* The array never holds more than was allocated for it. *)
MapTypeOK ==
  /\ entries \in Seq(Entry)
  /\ mapCapacity \in Nat /\ Len(entries) <= mapCapacity
  /\ answer \in Values \cup {NoValue} \cup BOOLEAN
  /\ mapCall \in MapCall

(* map_create *)
MapInit ==
  /\ entries = <<>>
  /\ mapCapacity = 0
  /\ answer = TRUE
  /\ mapCall = [turn |-> FALSE, name |-> "create", args |-> <<>>, starved |-> FALSE]

-----------------------------------------------------------------------------
(* Operators named Mutant... are deliberately wrong variants of the operator *)
(* that follows them.  No action uses them; they exist to be swapped in, to  *)
(* confirm that the properties notice.                                       *)

(* find_index_ between lo and hi: indices are those of C, from zero.         *)
MutantBefore(mid) == mid - 1
Before(mid) == mid

KeyAt(i) == entries[i + 1].key

(* One turn of the loop of find_index_, which changes nothing once it is over. *)
Turn(key, place) ==
  LET mid == place.lo + (place.hi - place.lo) \div 2
  IN  IF place.found \/ place.lo >= place.hi THEN place
      ELSE CASE KeyAt(mid) < key -> [place EXCEPT !.lo = mid + 1]
             [] KeyAt(mid) > key -> [place EXCEPT !.hi = Before(mid)]
             [] OTHER -> [place EXCEPT !.lo = mid, !.found = TRUE]

(* Every turn narrows what is left, so that there are no more turns than       *)
(* entries.                                                                    *)
FindIndex(key) ==
  LET Search[turns \in 0 .. Len(entries)] ==
        IF turns = 0 THEN [lo |-> 0, hi |-> Len(entries), found |-> FALSE]
                     ELSE Turn(key, Search[turns - 1])
      place == Search[Len(entries)]
  IN  [found |-> place.found, index |-> place.lo]

MapCalled(name, args, starved) ==
  mapCall' =
    [turn |-> ~mapCall.turn, name |-> name, args |-> args, starved |-> starved]

MutantMayInsert(key) == TRUE
MayInsert(key) == ~FindIndex(key).found

NewMapCapacity == IF mapCapacity = 0 THEN 1 ELSE 2 * mapCapacity

InsertRefused(key, v) ==
  /\ MapCalled("insert", <<key, v>>, FALSE)
  /\ ~MayInsert(key)
  /\ answer' = FALSE
  /\ UNCHANGED <<entries, mapCapacity>>

(* The array is full and cannot be grown. *)
InsertFails(key, v) ==
  /\ MapCalled("insert", <<key, v>>, TRUE)
  /\ MayInsert(key)
  /\ Len(entries) >= mapCapacity
  /\ answer' = FALSE
  /\ UNCHANGED <<entries, mapCapacity>>

MutantGrown == mapCapacity
Grown == IF Len(entries) >= mapCapacity THEN NewMapCapacity ELSE mapCapacity

InsertEntry(key, v) ==
  /\ MapCalled("insert", <<key, v>>, FALSE)
  /\ MayInsert(key)
  /\ mapCapacity' = Grown
  /\ entries' = InsertAt(entries, FindIndex(key).index + 1, [key |-> key, data |-> v])
  /\ answer' = TRUE

MapErase(key) ==
  LET place == FindIndex(key)
  IN  /\ MapCalled("erase", <<key>>, FALSE)
      /\ entries' = IF place.found THEN RemoveAt(entries, place.index + 1)
                                   ELSE entries
      /\ answer' = place.found
      /\ UNCHANGED mapCapacity

MapFind(key) ==
  LET place == FindIndex(key)
  IN  /\ MapCalled("find", <<key>>, FALSE)
      /\ answer' = IF place.found THEN entries[place.index + 1].data ELSE NoValue
      /\ UNCHANGED <<entries, mapCapacity>>

MapClear ==
  /\ MapCalled("clear", <<>>, FALSE)
  /\ entries' = <<>>
  /\ mapCapacity' = 0
  /\ UNCHANGED answer

MapNext ==
  \/ MapClear
  \/ \E key \in Keys :
       \/ \E v \in Values :
            InsertRefused(key, v) \/ InsertFails(key, v) \/ InsertEntry(key, v)
       \/ MapErase(key) \/ MapFind(key)

MapSpec == MapInit /\ [][MapNext]_mapVars

-----------------------------------------------------------------------------
(* To its callers the sorted array is a partial function from keys to data:  *)
(* each call of map.c answers for the key it was given, and changes what it  *)
(* promises to change and nothing else.                                      *)
AsDictionary ==
  INSTANCE Dictionary WITH
    call <- mapCall,
    dict <- [k \in {e.key : e \in Range(entries)} |->
               (CHOOSE e \in Range(entries) : e.key = k).data]
ImplementsDictionary == AsDictionary!DictionarySpec

(* Keys are in order and no key occurs twice: map_insert refuses a key that  *)
(* is there, and binary search depends on the order.                         *)
KeysAscend ==
  \A i, j \in DOMAIN entries : i < j => entries[i].key < entries[j].key
=============================================================================
