---------------------------- MODULE ExceptProofs ----------------------------
(***************************************************************************)
(* The jmp_buf stack of abs_except.c matches the control stack, for every  *)
(* stack size and every nesting of try and with blocks.                    *)
(***************************************************************************)
EXTENDS Except, TLAPS

Inv == TypeOK /\ EnvMatchesControl

LEMMA PrefixKeeps ==
    ASSUME NEW S, NEW s \in Seq(S), NEW p \in 0 .. Len(s)
    PROVE  /\ SubSeq(s, 1, p) \in Seq(S)
           /\ Len(SubSeq(s, 1, p)) = p
           /\ \A q \in 1 .. p : SubSeq(s, 1, p)[q] = s[q]
<1>1. Len(s) \in Nat
  OBVIOUS
<1> QED
  BY <1>1

LEMMA DropShortens ==
    ASSUME NEW S, NEW s \in Seq(S), s # <<>>
    PROVE  /\ Len(s) \in Nat \ {0} /\ Drop(s) \in Seq(S)
           /\ Len(Drop(s)) = Len(s) - 1
           /\ \A q \in 1 .. Len(s) - 1 : Drop(s)[q] = s[q]
<1>1. Len(s) \in Nat \ {0}
  OBVIOUS
<1>2. Len(s) - 1 \in 0 .. Len(s)
  BY <1>1
<1> QED
  BY <1>1, <1>2, PrefixKeeps DEF Drop

LEMMA TypeStep == TypeOK /\ EnvMatchesControl /\ [Next]_vars => TypeOK'
<1> SUFFICES ASSUME TypeOK, EnvMatchesControl, [Next]_vars
             PROVE  TypeOK'
  OBVIOUS
<1> USE ExceptAssumption
<1>1. CASE EnterTry
  <2>1. Try \in Blocks
    BY DEF Try, Blocks
  <2> QED
    BY <1>1, <2>1 DEF EnterTry, TypeOK
<1>2. CASE TooDeep
  BY <1>2 DEF TooDeep, Exit, TypeOK
<1>3. CASE Throw
  <2> DEFINE p == env[Len(env)]
             s == SubSeq(ctl, 1, p)
  <2>1. Len(env) \in 1 .. Len(env) /\ p \in 1 .. Len(ctl)
    BY <1>3 DEF Throw, TypeOK, EnvMatchesControl
  <2>2. s \in Seq(Blocks) /\ Len(s) = p /\ p \in 1 .. Len(s) /\ s[p] \in Blocks
    <3>1. ctl \in Seq(Blocks)
      BY DEF TypeOK
    <3>2. ctl[p] \in Blocks
      BY <2>1, <3>1
    <3> QED
      BY <2>1, <3>1, <3>2, PrefixKeeps
  <2>3. [s[p] EXCEPT !.phase = "handler"] \in Blocks
    BY <2>2 DEF Blocks
  <2>4. ctl' = [s EXCEPT ![p] = [s[p] EXCEPT !.phase = "handler"]]
    BY <1>3 DEF Throw
  <2>5. ctl' \in Seq(Blocks)
    <3> DEFINE b == [s[p] EXCEPT !.phase = "handler"]
    <3>1. ctl' = [s EXCEPT ![p] = b] /\ b \in Blocks
      BY <2>3, <2>4
    <3> HIDE DEF s, p, b
    <3> QED
      BY <2>2, <3>1
  <2> QED
    BY <1>3, <2>5 DEF Throw, TypeOK
<1>4. CASE Uncaught
  BY <1>4 DEF Uncaught, Exit, TypeOK
<1>5. CASE EndTry
  <2>1. ctl # <<>>
    BY <1>5 DEF EndTry, Inside
  <2> QED
    BY <1>5, <2>1 DEF EndTry, Drop, TypeOK
<1>6. CASE EndWith
  <2>1. ctl # <<>>
    BY <1>6 DEF EndWith, Inside
  <2> QED
    BY <1>6, <2>1 DEF EndWith, Close, Drop, TypeOK
<1>7. ASSUME NEW f \in Files \cup {NoFile}, EnterWith(f)
      PROVE  TypeOK'
  <2>1. With(f) \in Blocks
    BY DEF With, Blocks
  <2> QED
    BY <1>7, <2>1 DEF EnterWith, TypeOK
<1>8. ASSUME NEW f \in Files, CloseFile(f)
      PROVE  TypeOK'
  BY <1>8 DEF CloseFile, Close, TypeOK
<1>9. CASE UNCHANGED vars
  BY <1>9 DEF vars, TypeOK
<1> QED
  BY <1>1, <1>2, <1>3, <1>4, <1>5, <1>6, <1>7, <1>8, <1>9 DEF Next

LEMMA EnvStep == TypeOK /\ EnvMatchesControl /\ [Next]_vars => EnvMatchesControl'
<1> SUFFICES ASSUME TypeOK, EnvMatchesControl, [Next]_vars
             PROVE  EnvMatchesControl'
  OBVIOUS
<1> USE ExceptAssumption
<1>0. ASSUME UNCHANGED <<ctl, env>> PROVE EnvMatchesControl'
  BY <1>0 DEF EnvMatchesControl
<1>1. CASE EnterTry
  <2>1. /\ ctl' = Append(ctl, Try) /\ env' = Append(env, Len(ctl) + 1)
        /\ ctl \in Seq(Blocks) /\ env \in Seq(Nat \ {0}) /\ Try.kind = "try"
    BY <1>1 DEF EnterTry, TypeOK, Try
  <2>2. /\ Len(ctl') = Len(ctl) + 1 /\ ctl'[Len(ctl) + 1] = Try
        /\ \A p \in 1 .. Len(ctl) : ctl'[p] = ctl[p]
        /\ Len(env') = Len(env) + 1 /\ env'[Len(env) + 1] = Len(ctl) + 1
        /\ \A n \in 1 .. Len(env) : env'[n] = env[n]
    BY <2>1
  <2>3. Len(ctl) \in Nat /\ Len(env) \in Nat
    BY <2>1
  <2>4. \A n \in 1 .. Len(env') : n \in 1 .. Len(env) \/ n = Len(env) + 1
    BY <2>2, <2>3
  <2>5. ASSUME NEW n \in 1 .. Len(env')
        PROVE  env'[n] \in 1 .. Len(ctl') /\ ctl'[env'[n]].kind = "try"
    <3>1. CASE n \in 1 .. Len(env)
      <4>1. env[n] \in 1 .. Len(ctl) /\ ctl[env[n]].kind = "try"
        BY <3>1 DEF EnvMatchesControl
      <4> QED
        BY <2>2, <2>3, <3>1, <4>1
    <3>2. CASE n = Len(env) + 1
      BY <2>1, <2>2, <2>3, <3>2
    <3> QED
      BY <2>4, <3>1, <3>2
  <2>6. ASSUME NEW m \in 1 .. Len(env'), NEW n \in 1 .. Len(env'), m < n
        PROVE  env'[m] < env'[n]
    <3>1. m \in 1 .. Len(env)
      BY <2>2, <2>3, <2>6
    <3>2. CASE n \in 1 .. Len(env)
      BY <2>2, <2>6, <3>1, <3>2 DEF EnvMatchesControl
    <3>3. CASE n = Len(env) + 1
      <4>1. env[m] \in 1 .. Len(ctl)
        BY <3>1 DEF EnvMatchesControl
      <4> QED
        BY <2>2, <2>3, <3>1, <3>3, <4>1
    <3> QED
      BY <2>4, <3>2, <3>3
  <2>7. ASSUME NEW q \in 1 .. Len(ctl'), ctl'[q].kind = "try"
        PROVE  \E n \in 1 .. Len(env') : env'[n] = q
    <3>1. CASE q \in 1 .. Len(ctl)
      <4>1. PICK n \in 1 .. Len(env) : env[n] = q
        BY <2>2, <2>7, <3>1 DEF EnvMatchesControl
      <4>2. n \in 1 .. Len(env')
        BY <2>2, <2>3
      <4> QED
        BY <2>2, <4>1, <4>2
    <3>2. CASE q = Len(ctl) + 1
      <4>1. Len(env) + 1 \in 1 .. Len(env')
        BY <2>2, <2>3
      <4> QED
        BY <2>2, <3>2, <4>1
    <3> QED
      BY <2>2, <2>3, <3>1, <3>2
  <2> QED
    BY <2>5, <2>6, <2>7 DEF EnvMatchesControl
<1>2. CASE TooDeep
  BY <1>0, <1>2 DEF TooDeep, Exit
<1>3. CASE Throw
  <2> DEFINE p == env[Len(env)]
             s == SubSeq(ctl, 1, p)
  <2>1. Len(env) \in 1 .. Len(env) /\ p \in 1 .. Len(ctl) /\ ctl[p].kind = "try"
        /\ Len(env) \in Nat /\ Len(ctl) \in Nat /\ ctl \in Seq(Blocks)
    <3>1. env # <<>> /\ env \in Seq(Nat \ {0}) /\ ctl \in Seq(Blocks)
      BY <1>3 DEF Throw, TypeOK
    <3>2. Len(env) \in 1 .. Len(env) /\ Len(env) \in Nat /\ Len(ctl) \in Nat
      BY <3>1
    <3> QED
      BY <3>1, <3>2 DEF EnvMatchesControl
  <2>2. /\ s \in Seq(Blocks) /\ Len(s) = p
        /\ \A q \in 1 .. p : s[q] = ctl[q] /\ s[q] \in Blocks
    BY <2>1, PrefixKeeps
  <2>3. ctl' = [s EXCEPT ![p] = [s[p] EXCEPT !.phase = "handler"]] /\ env' = env
    BY <1>3 DEF Throw
  <2>4. Len(ctl') = p /\ \A q \in 1 .. p : ctl'[q].kind = ctl[q].kind
    <3> DEFINE b == [s[p] EXCEPT !.phase = "handler"]
    <3>1. ctl' = [s EXCEPT ![p] = b] /\ b.kind = s[p].kind
      BY <2>1, <2>2, <2>3 DEF Blocks
    <3> HIDE DEF b, s, p
    <3> QED
      BY <2>1, <2>2, <3>1
  <2>5. \A n \in 1 .. Len(env) : env[n] <= p /\ env[n] \in Nat
    BY <2>1 DEF EnvMatchesControl
  <2> HIDE DEF p, s
  <2>6. \A n \in 1 .. Len(env') : env'[n] \in 1 .. Len(ctl') /\ ctl'[env'[n]].kind = "try"
    BY <2>1, <2>3, <2>4, <2>5 DEF EnvMatchesControl
  <2>7. \A q \in 1 .. Len(ctl') : ctl'[q].kind = "try" => \E n \in 1 .. Len(env') : env'[n] = q
    BY <2>1, <2>3, <2>4 DEF EnvMatchesControl
  <2> QED
    BY <2>3, <2>6, <2>7 DEF EnvMatchesControl
<1>4. CASE Uncaught
  BY <1>0, <1>4 DEF Uncaught, Exit
<1>5. CASE EndTry
  <2>1. /\ ctl \in Seq(Blocks) /\ ctl # <<>> /\ ctl[Len(ctl)].kind = "try" /\ ctl' = Drop(ctl)
        /\ Len(ctl) \in Nat \ {0} /\ env \in Seq(Nat \ {0}) /\ Len(env) \in Nat
    BY <1>5 DEF EndTry, Inside, TypeOK
  <2>2. PICK n \in 1 .. Len(env) : env[n] = Len(ctl)
    <3>1. Len(ctl) \in 1 .. Len(ctl)
      BY <2>1
    <3> QED
      BY <2>1, <3>1 DEF EnvMatchesControl
  <2>3. n = Len(env)
    <3>1. Len(env) \in 1 .. Len(env) /\ env[Len(env)] <= Len(ctl)
      BY <2>1, <2>2 DEF EnvMatchesControl
    <3> QED
      BY <2>1, <2>2, <3>1 DEF EnvMatchesControl
  <2>4. env # <<>> /\ env' = Drop(env)
    BY <1>5, <2>1, <2>2 DEF EndTry
  <2>5. /\ Len(ctl') = Len(ctl) - 1 /\ \A q \in 1 .. Len(ctl) - 1 : ctl'[q] = ctl[q]
        /\ Len(env') = Len(env) - 1 /\ \A m \in 1 .. Len(env) - 1 : env'[m] = env[m]
    BY <2>1, <2>4, DropShortens
  <2>6. \A m \in 1 .. Len(env) - 1 : env[m] \in 1 .. Len(ctl) - 1
    <3> SUFFICES ASSUME NEW m \in 1 .. Len(env) - 1
                 PROVE  env[m] \in 1 .. Len(ctl) - 1
      OBVIOUS
    <3>1. m \in 1 .. Len(env) /\ m < n
      BY <2>1, <2>3
    <3>2. env[m] \in 1 .. Len(ctl) /\ env[m] < env[n]
      BY <3>1 DEF EnvMatchesControl
    <3> QED
      BY <2>1, <2>2, <3>2
  <2> QED
    <3>0. ASSUME NEW m \in 1 .. Len(env')
          PROVE  m \in 1 .. Len(env) /\ m \in 1 .. Len(env) - 1 /\ env'[m] = env[m]
      <4>1. Len(env') = Len(env) - 1
        BY <2>5
      <4>2. m \in 1 .. Len(env) /\ m \in 1 .. Len(env) - 1
        BY <2>1, <4>1
      <4> QED
        BY <2>5, <4>2
    <3>1. \A m \in 1 .. Len(env') : env'[m] \in 1 .. Len(ctl') /\ ctl'[env'[m]].kind = "try"
      <4> SUFFICES ASSUME NEW m \in 1 .. Len(env')
                   PROVE  env'[m] \in 1 .. Len(ctl') /\ ctl'[env'[m]].kind = "try"
        OBVIOUS
      <4>1. env'[m] \in 1 .. Len(ctl) - 1 /\ ctl[env'[m]].kind = "try"
        BY <2>6, <3>0 DEF EnvMatchesControl
      <4> QED
        BY <2>5, <4>1
    <3>2. \A m, o \in 1 .. Len(env') : m < o => env'[m] < env'[o]
      BY <3>0 DEF EnvMatchesControl
    <3>3. ASSUME NEW q \in 1 .. Len(ctl'), ctl'[q].kind = "try"
          PROVE  \E m \in 1 .. Len(env') : env'[m] = q
      <4>1. q \in 1 .. Len(ctl) /\ q # Len(ctl) /\ ctl[q].kind = "try"
        BY <2>1, <2>5, <3>3
      <4>2. PICK m \in 1 .. Len(env) : env[m] = q
        BY <4>1 DEF EnvMatchesControl
      <4>3. m # Len(env)
        BY <2>2, <2>3, <4>1, <4>2
      <4> QED
        <5>1. m \in 1 .. Len(env') /\ m \in 1 .. Len(env) - 1
          BY <2>1, <2>5, <4>2, <4>3
        <5> QED
          BY <2>5, <4>2, <5>1
    <3> QED
      BY <3>1, <3>2, <3>3 DEF EnvMatchesControl
<1>6. CASE EndWith
  <2>1. /\ ctl \in Seq(Blocks) /\ ctl # <<>> /\ ctl[Len(ctl)].kind = "with" /\ ctl' = Drop(ctl)
        /\ Len(ctl) \in Nat \ {0} /\ env' = env
    BY <1>6 DEF EndWith, Inside, TypeOK
  <2>2. Len(ctl') = Len(ctl) - 1 /\ \A q \in 1 .. Len(ctl) - 1 : ctl'[q] = ctl[q]
    BY <2>1, DropShortens
  <2> QED
    BY <2>1, <2>2 DEF EnvMatchesControl
<1>7. ASSUME NEW f \in Files \cup {NoFile}, EnterWith(f)
      PROVE  EnvMatchesControl'
  <2>1. ctl' = Append(ctl, With(f)) /\ env' = env /\ ctl \in Seq(Blocks) /\ With(f).kind = "with"
    BY <1>7 DEF EnterWith, TypeOK, With
  <2>2. /\ Len(ctl') = Len(ctl) + 1 /\ ctl'[Len(ctl) + 1] = With(f) /\ Len(ctl) \in Nat
        /\ \A p \in 1 .. Len(ctl) : ctl'[p] = ctl[p]
    BY <2>1
  <2> QED
    BY <2>1, <2>2 DEF EnvMatchesControl
<1>8. ASSUME NEW f \in Files, CloseFile(f)
      PROVE  EnvMatchesControl'
  BY <1>0, <1>8 DEF CloseFile
<1>9. CASE UNCHANGED vars
  BY <1>0, <1>9 DEF vars
<1> QED
  BY <1>1, <1>2, <1>3, <1>4, <1>5, <1>6, <1>7, <1>8, <1>9 DEF Next

\* abs_push_jmp and abs_pop_jmp keep abs_env_stack equal to the try blocks the
\* program is in: every throw finds the innermost of them.
THEOREM EnvAlwaysMatches == Spec => []EnvMatchesControl
<1>1. Init => Inv
  BY DEF Init, Inv, TypeOK, EnvMatchesControl
<1>2. Inv /\ [Next]_vars => Inv'
  BY TypeStep, EnvStep DEF Inv
<1>3. Inv => EnvMatchesControl
  BY DEF Inv
<1> QED
  BY <1>1, <1>2, <1>3, PTL DEF Spec

\* exit(1) happens only for a throw that no try surrounds or for a try that
\* finds the stack full.
THEOREM ExitOnlyWhenDeserved == Spec => ExitIsDeserved
<1>1. Spec => []EnvMatchesControl
  BY EnvAlwaysMatches
<1>2. EnvMatchesControl /\ [Next]_vars =>
        [status' = "exited" => \/ \A p \in 1 .. Len(ctl) : ctl[p].kind # "try"
                               \/ Len(env) >= StackSize]_vars
  BY DEF Next, EnterTry, TooDeep, Throw, Uncaught, EndTry, EndWith, EnterWith, CloseFile,
         Exit, Close, EnvMatchesControl, vars
<1> QED
  BY <1>1, <1>2, PTL DEF Spec, ExitIsDeserved

\* The stack of jmp_bufs is well-formed and is the open try blocks, for every
\* stack size and nesting depth.
THEOREM AlwaysConsistent == Spec => []Consistent
<1>1. Init => Inv
  BY DEF Init, Inv, TypeOK, EnvMatchesControl
<1>2. Inv /\ [Next]_vars => Inv'
  BY TypeStep, EnvStep DEF Inv
<1>3. Inv => Consistent
  BY DEF Inv, Consistent
<1> QED
  BY <1>1, <1>2, <1>3, PTL DEF Spec

\* An object has a pointer exactly while its file is open: with, close_file
\* and the end of the block change both alike.
THEOREM PointersAlwaysOpen == Spec => []PointersAreOpen
<1>1. Init => PointersAreOpen
  BY DEF Init, PointersAreOpen
<1>2. PointersAreOpen /\ [Next]_vars => PointersAreOpen'
  BY DEF Next, EnterTry, TooDeep, Throw, Uncaught, EndTry, EndWith, EnterWith, CloseFile,
         Exit, Close, PointersAreOpen, vars
<1> QED
  BY <1>1, <1>2, PTL DEF Spec
=============================================================================
