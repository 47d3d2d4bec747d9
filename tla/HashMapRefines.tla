--------------------------- MODULE HashMapRefines ---------------------------
(***************************************************************************)
(* The table of HashMap implements the finite map of HashMapSpec.  A call  *)
(* takes effect in its last step: nothing a probe or a rehash does on the  *)
(* way is visible.                                                         *)
(***************************************************************************)
EXTENDS HashMap

CONSTANT ABSENT
ASSUME AbsentAssumption == ABSENT \notin Values \cup {NULL}

Dict == [k \in Keys |->
        IF k \in Stored THEN val[CHOOSE x \in Slots(cap) : slot[x] = k] ELSE ABSENT]

Map == INSTANCE HashMapSpec WITH dict <- Dict

\* The open-addressing table behaves as a finite map: get returns what the
\* last successful set stored, remove and clear lose nothing else, a set that
\* returns -1 and a rehash change no entry.
ImplementsMap == Map!Spec
=============================================================================
