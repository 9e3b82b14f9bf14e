------------------------------ MODULE Dictionary ------------------------------
(***************************************************************************)
(* What the map of common/src/utils/containers/map gives its callers: a    *)
(* partial function from keys to data.  An insertion does not replace what *)
(* a key already has, and fails without a trace when it is starved, that   *)
(* is, when it wants memory and does not get it.  Every step is the step   *)
(* of the call that call names.                                            *)
(***************************************************************************)
EXTENDS Functions

CONSTANTS
  Keys,
  Values,
  NoValue   \* what map_find returns for a key that is not there

VARIABLES
  dict,
  call,     \* the last call, its arguments, and whether it was starved
  answer    \* what the last call returned

DictionaryInit ==
  /\ dict = [k \in {} |-> NoValue]
  /\ call.name = "create"
  /\ answer = TRUE

Called(name, args, starved) ==
  call' = [turn |-> ~call.turn, name |-> name, args |-> args, starved |-> starved]

Insert(k, v) ==
  /\ Called("insert", <<k, v>>, FALSE)
  /\ answer' = (k \notin DOMAIN dict)
  /\ dict' = [j \in DOMAIN dict \cup {k} |-> IF j \in DOMAIN dict THEN dict[j] ELSE v]

StarvedInsert(k, v) ==
  /\ Called("insert", <<k, v>>, TRUE)
  /\ answer' = FALSE
  /\ UNCHANGED dict

Erase(k) ==
  /\ Called("erase", <<k>>, FALSE)
  /\ dict' = Restrict(dict, DOMAIN dict \ {k})
  /\ answer' = (k \in DOMAIN dict)

Find(k) ==
  /\ Called("find", <<k>>, FALSE)
  /\ answer' = IF k \in DOMAIN dict THEN dict[k] ELSE NoValue
  /\ UNCHANGED dict

Clear ==
  /\ Called("clear", <<>>, FALSE)
  /\ dict' = Restrict(dict, {})
  /\ UNCHANGED answer

DictionaryNext ==
  \/ Clear
  \/ \E k \in Keys :
       \/ Erase(k) \/ Find(k)
       \/ \E v \in Values : Insert(k, v) \/ StarvedInsert(k, v)

DictionarySpec == DictionaryInit /\ [][DictionaryNext]_<<dict, call, answer>>
=============================================================================
