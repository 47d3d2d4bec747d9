---------------------------- MODULE HashMapSpec ----------------------------
(***************************************************************************)
(* What abs_hashmap_t promises its caller, whatever the table looks like:  *)
(* a finite map from keys to value pointers.  A call is made, and later it *)
(* takes effect and returns, in one step.  abs_hashmap_set may also refuse *)
(* (allocation failure) and then changes nothing.                          *)
(***************************************************************************)
CONSTANTS
    Keys,      \* the C strings used as keys
    Values,    \* the value pointers handed to the map
    NULL,      \* the null pointer
    ABSENT     \* "no entry", as opposed to an entry whose value is NULL

VARIABLES
    dict,      \* the entries
    op, key, value,   \* the pending call and its arguments
    ret        \* what the last call returned

specVars == <<dict, op, key, value, ret>>

FindOps == {"get", "contains", "remove"}

SpecInit ==
    /\ dict = [k \in Keys |-> ABSENT]
    /\ op = "none" /\ key = NULL /\ value = NULL
    /\ ret = "ok"

Invoke ==
    /\ op = "none"
    /\ key' \in Keys
    /\ \/ op' = "set" /\ value' \in Values \cup {NULL}
       \/ op' \in FindOps /\ value' = NULL
    /\ UNCHANGED <<dict, ret>>

Return(r) ==
    /\ op' = "none" /\ key' = NULL /\ value' = NULL
    /\ ret' = r

Put ==
    /\ op = "set"
    /\ dict' = [dict EXCEPT ![key] = value]
    /\ Return("ok")

PutRefused ==
    /\ op = "set"
    /\ Return("fail")
    /\ UNCHANGED dict

Get ==
    /\ op = "get"
    /\ Return(IF dict[key] = ABSENT THEN NULL ELSE dict[key])
    /\ UNCHANGED dict

Contains ==
    /\ op = "contains"
    /\ Return(IF dict[key] = ABSENT THEN "fail" ELSE "ok")
    /\ UNCHANGED dict

Remove ==
    /\ op = "remove"
    /\ Return(IF dict[key] = ABSENT THEN "fail" ELSE "ok")
    /\ dict' = [dict EXCEPT ![key] = ABSENT]

RemoveAll ==
    /\ op = "none"
    /\ dict' = [k \in Keys |-> ABSENT]
    /\ UNCHANGED <<op, key, value, ret>>

SpecNext == Invoke \/ Put \/ PutRefused \/ Get \/ Contains \/ Remove \/ RemoveAll

Spec == SpecInit /\ [][SpecNext]_specVars
=============================================================================
