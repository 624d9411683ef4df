------------------------------- MODULE KeyMap -------------------------------
(***************************************************************************)
(* What AMCDictionary promises: a map from keys to objects.  Dictionary    *)
(* implements this specification.                                          *)
(***************************************************************************)
CONSTANTS Keys, Missing, Objects

VARIABLE object      \* the object stored under each key, or Missing

Init == object = [k \in Keys |-> Missing]

changed == {k \in Keys : object'[k] # object[k]}

\* AMCDictionary_AddObject, _SetObject, _UpdateObject.
Store(k) == changed = {k} /\ object'[k] \in Objects

\* AMCDictionary_RemoveObject, _DrainObject.
Remove(k) == changed = {k} /\ object'[k] = Missing

\* AMCDictionary_Free: the map is gone.
Free == changed # {} /\ \A k \in Keys : object'[k] = Missing

Next == Free \/ \E k \in changed : Store(k) \/ Remove(k)

Spec == Init /\ [][Next]_object
=============================================================================
