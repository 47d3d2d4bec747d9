------------------------------- MODULE Except -------------------------------
(***************************************************************************)
(* abs_except.c and the try / catch / end_try / with macros of abs.h.      *)
(*                                                                         *)
(* ctl is the C control stack: the try and with blocks the program is in,  *)
(* outermost first.  env is abs_env_stack[0 .. abs_env_idx - 1]: a jmp_buf *)
(* is the position in ctl of the try block whose setjmp filled it.  Blocks *)
(* are left at their end or by throw (leaving one by return, break or goto *)
(* skips end_try and is outside the model).                                *)
(*                                                                         *)
(* Operators whose name ends in _bug are the wrong versions against which  *)
(* the properties below were tried; the specification uses none of them.   *)
(***************************************************************************)
EXTENDS Naturals, Sequences

CONSTANTS
    Files,       \* the ABS_FILE objects of the program
    NoFile,      \* what with() holds when fopen_safe returned an error
    StackSize,   \* ABS_ENV_STACK_SIZE
    MaxBlocks    \* bound: blocks open at once

ASSUME ExceptAssumption ==
    /\ StackSize \in Nat /\ MaxBlocks \in Nat
    /\ NoFile \notin Files

VARIABLES
    ctl,         \* open blocks
    env,         \* the jmp_buf stack
    ptr,         \* objects whose val.file_ptr is not NULL
    open,        \* FILE handles open in the C library
    status       \* "running" or "exited"

vars == <<ctl, env, ptr, open, status>>

Try == [kind |-> "try", phase |-> "body", file |-> NoFile]
With(f) == [kind |-> "with", phase |-> "body", file |-> f]
Blocks == [kind : {"try", "with"}, phase : {"body", "handler"}, file : Files \cup {NoFile}]

Init ==
    /\ ctl = <<>> /\ env = <<>>
    /\ ptr = {} /\ open = {}
    /\ status = "running"

Drop(s) == SubSeq(s, 1, Len(s) - 1)
Inside(kind) == ctl # <<>> /\ ctl[Len(ctl)].kind = kind

Exit == status' = "exited" /\ UNCHANGED <<ctl, env, ptr, open>>

\* Bug: the block is recorded one position too low.
EnterTry_bug ==
    /\ status = "running" /\ Len(env) < StackSize
    /\ Len(ctl) < MaxBlocks
    /\ ctl' = Append(ctl, Try)
    /\ env' = Append(env, Len(ctl))
    /\ UNCHANGED <<ptr, open, status>>

EnterTry ==
    /\ status = "running" /\ Len(env) < StackSize
    /\ Len(ctl) < MaxBlocks
    /\ ctl' = Append(ctl, Try)
    /\ env' = Append(env, Len(ctl) + 1)
    /\ UNCHANGED <<ptr, open, status>>

\* Bug: the last jmp_buf of the stack is never used.
TooDeep_bug == status = "running" /\ Len(env) + 1 >= StackSize /\ Exit

TooDeep == status = "running" /\ Len(env) >= StackSize /\ Exit

\* Bug: throw pops the jmp_buf, which end_try will pop again.
Throw_bug ==
    /\ status = "running" /\ env # <<>>
    /\ LET p == env[Len(env)] IN
       ctl' = [SubSeq(ctl, 1, p) EXCEPT ![p] = [@ EXCEPT !.phase = "handler"]]
    /\ env' = Drop(env)
    /\ UNCHANGED <<ptr, open, status>>

\* longjmp to the top jmp_buf, which throw leaves on the stack: the blocks
\* inside that try block are gone and its else branch, the handler, runs.
Throw ==
    /\ status = "running" /\ env # <<>>
    /\ LET p == env[Len(env)] IN
       ctl' = [SubSeq(ctl, 1, p) EXCEPT ![p] = [@ EXCEPT !.phase = "handler"]]
    /\ UNCHANGED <<env, ptr, open, status>>

Uncaught == status = "running" /\ env = <<>> /\ Exit

\* The body or the handler has run to its end.
EndTry ==
    /\ status = "running" /\ Inside("try")
    /\ ctl' = Drop(ctl)
    /\ env' = (IF env = <<>> THEN env ELSE Drop(env))
    /\ UNCHANGED <<ptr, open, status>>

EnterWith(f) ==
    /\ status = "running" /\ Len(ctl) < MaxBlocks
    /\ f \notin ptr \cup open
    /\ ctl' = Append(ctl, With(f))
    /\ ptr' = ptr \cup ({f} \ {NoFile}) /\ open' = open \cup ({f} \ {NoFile})
    /\ UNCHANGED <<env, status>>

\* Bug: the pointer is not cleared after fclose.
Close_bug(f) ==
    /\ open' = IF f \in ptr THEN open \ {f} ELSE open
    /\ ptr' = ptr

\* close_resource and close_file: fclose once, then the pointer is NULL.
Close(f) ==
    /\ open' = IF f \in ptr THEN open \ {f} ELSE open
    /\ ptr' = ptr \ {f}

CloseFile(f) ==
    /\ status = "running"
    /\ Close(f)
    /\ UNCHANGED <<ctl, env, status>>

EndWith ==
    /\ status = "running" /\ Inside("with")
    /\ Close(ctl[Len(ctl)].file)
    /\ ctl' = Drop(ctl)
    /\ UNCHANGED <<env, status>>

Next ==
    \/ EnterTry \/ TooDeep \/ Throw \/ Uncaught \/ EndTry \/ EndWith
    \/ \E f \in Files \cup {NoFile} : EnterWith(f)
    \/ \E f \in Files : CloseFile(f)

Spec == Init /\ [][Next]_vars

-----------------------------------------------------------------------------
\* Type invariant.
TypeOK ==
    /\ ctl \in Seq(Blocks) /\ env \in Seq(Nat \ {0})
    /\ ptr \subseteq Files /\ open \subseteq Files
    /\ status \in {"running", "exited"}

\* "Each try/end_try pair is balanced": the jmp_bufs are exactly the try
\* blocks the program is in, in nesting order, so a throw, from a body or a
\* handler, through with blocks or out of nested tries, never jumps to a block
\* that has been left and never skips one.
EnvMatchesControl ==
    /\ \A n \in 1 .. Len(env) : env[n] \in 1 .. Len(ctl) /\ ctl[env[n]].kind = "try"
    /\ \A m, n \in 1 .. Len(env) : m < n => env[m] < env[n]
    /\ \A p \in 1 .. Len(ctl) : ctl[p].kind = "try" => \E n \in 1 .. Len(env) : env[n] = p

\* The stack of abs_except.c has its shape and matches the control stack.
Consistent == TypeOK /\ EnvMatchesControl

\* The program exits only when a throw happens outside every try block or
\* when StackSize try blocks are already open.
ExitIsDeserved ==
    [][status' = "exited" =>
         \/ \A p \in 1 .. Len(ctl) : ctl[p].kind # "try"
         \/ Len(env) >= StackSize]_vars

\* close_resource "nulls the file pointer so a later close_file is a no-op":
\* an object with a pointer has an open file, whichever of them closes it, and
\* no open file has lost its object's pointer.
PointersAreOpen == ptr = open

\* docs/exceptions.md:11, throw "unwinds to the innermost active try", as in
\* Python: a try whose handler is already running does not catch again, its
\* handler's own throws go to the try around it.
ThrowLeavesHandler == [][Throw => ctl[env[Len(env)]].phase = "body"]_vars

\* docs/exceptions.md:46: the file of a with block "is closed automatically",
\* so a file is open only while the program is inside the block that opened it.
WithClosesItsFile == \A f \in open : \E p \in 1 .. Len(ctl) : ctl[p].file = f
=============================================================================
