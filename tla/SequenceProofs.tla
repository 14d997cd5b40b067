--------------------------- MODULE SequenceProofs ---------------------------
(***************************************************************************)
(* What a walk of the interpreter comes to, for every definition the       *)
(* schema passes, of any size, and every limit on the turns of a tick.     *)
(* interpret() and drive() are functions recursive in their fuel; a least  *)
(* counterexample (Least) does the work of induction on it.                *)
(***************************************************************************)
EXTENDS Sequence, Integers, FiniteSetTheorems, WellFoundedInduction, TLAPS

-----------------------------------------------------------------------------
(* The recursion.                                                          *)

LEMMA Least ==
  ASSUME NEW T \in SUBSET Nat, T # {}
  PROVE  \E x \in T : \A y \in T : ~(y < x)
<1> DEFINE R == {p \in Nat \X Nat : p[1] < p[2]}
<1>1. IsWellFoundedOn(R, Nat)
  BY NatLessThanWellFounded DEF OpToRel
<1>2. PICK x \in T : \A y \in T : ~(<<y, x>> \in R)
  BY <1>1, WFMin
<1> QED BY <1>2

\* A set of numbers that holds 0 and with each number the next one, up to N.
LEMMA UpTo ==
  ASSUME NEW N \in Nat, NEW S, 0 \in S, \A n \in 1..N : n - 1 \in S => n \in S
  PROVE  0..N \subseteq S
<1> DEFINE T == {n \in 0..N : n \notin S}
<1> SUFFICES ASSUME T # {} PROVE FALSE
  OBVIOUS
<1>1. T \in SUBSET Nat
  OBVIOUS
<1> HIDE DEF T
<1>2. PICK m \in T : \A y \in T : ~(y < m)
  BY <1>1, Least
<1> USE DEF T
<1>3. m \in 1..N /\ m - 1 \in 0..N /\ m \notin S /\ m - 1 < m
  BY <1>2
<1>4. m - 1 \notin T
  BY <1>2, <1>3
<1> QED BY <1>3, <1>4

InterpretAt(wf, id, d, n, deeper) ==
    [s \in DOMAIN wf \cup {id} |->
       IF n = 0 \/ s \notin DOMAIN wf THEN Throws ELSE InterpretStep(wf, s, d, deeper)]

\* interpret() satisfies its recursion.
LEMMA InterpretUnfolds ==
  ASSUME NEW wf, NEW id, NEW d, Cardinality(DOMAIN wf) \in Nat
  PROVE  \E run : /\ \A n \in 0..Cardinality(DOMAIN wf) :
                       run[n] = InterpretAt(wf, id, d, n, run[n - 1])
                  /\ Interpret(wf, id, d) = run[Cardinality(DOMAIN wf)][id]
<1> DEFINE N == Cardinality(DOMAIN wf)
           run == CHOOSE f : f = [n \in 0..N |->
                    [s \in DOMAIN wf \cup {id} |->
                       IF n = 0 \/ s \notin DOMAIN wf THEN Throws
                                            ELSE InterpretStep(wf, s, d, f[n - 1])]]
           At(n, g) == InterpretAt(wf, id, d, n, g)
           Table(m) == \E h : h = [n \in 0..m |-> At(n, h[n - 1])]
           Tables == {m \in 0..N : Table(m)}
<1>1. Table(0)
  <2> DEFINE h == [n \in 0..0 |-> At(0, {})]
  <2>1. \A n \in 0..0 : At(n, h[n - 1]) = At(0, {})
    BY DEF InterpretAt
  <2>2. h = [n \in 0..0 |-> At(n, h[n - 1])]
    BY <2>1
  <2> QED BY <2>2
<1>2. ASSUME NEW m \in 1..N, Table(m - 1) PROVE Table(m)
  <2>1. PICK g : g = [n \in 0..(m - 1) |-> At(n, g[n - 1])]
    BY <1>2
  <2> DEFINE h == [n \in 0..m |-> IF n = m THEN At(m, g[m - 1]) ELSE g[n]]
  <2>2. \A n \in 0..m : h[n] = At(n, h[n - 1])
    <3> SUFFICES ASSUME NEW n \in 0..m PROVE h[n] = At(n, h[n - 1])
      OBVIOUS
    <3>1. CASE n = m
      BY <3>1
    <3>2. CASE n \in 1..(m - 1)
      <4>1. h[n] = g[n] /\ h[n - 1] = g[n - 1] /\ g[n] = At(n, g[n - 1])
        <5> HIDE DEF At
        <5> QED BY <2>1, <3>2
      <4> HIDE DEF At, h
      <4> QED BY <4>1
    <3>3. CASE n = 0 /\ n # m
      <4>1. h[0] = g[0] /\ g[0] = At(0, g[0 - 1])
        <5> HIDE DEF At
        <5> QED BY <2>1, <3>3
      <4>2. At(0, g[0 - 1]) = At(0, h[0 - 1])
        BY DEF InterpretAt
      <4> HIDE DEF At, h
      <4> QED BY <3>3, <4>1, <4>2
    <3> QED BY <3>1, <3>2, <3>3
  <2> HIDE DEF At
  <2>3. h = [n \in 0..m |-> At(n, h[n - 1])]
    BY <2>2
  <2> QED BY <2>3
<1>3. Table(N)
  <2> HIDE DEF Table
  <2>1. 0 \in Tables /\ \A m \in 1..N : m - 1 \in Tables => m \in Tables
    BY <1>1, <1>2
  <2> HIDE DEF Tables
  <2>2. 0..N \subseteq Tables
    BY <2>1, UpTo
  <2> USE DEF Tables
  <2> QED BY <2>2
<1>4. \E h : h = [n \in 0..N |->
                    [s \in DOMAIN wf \cup {id} |->
                       IF n = 0 \/ s \notin DOMAIN wf THEN Throws
                                            ELSE InterpretStep(wf, s, d, h[n - 1])]]
  BY <1>3 DEF InterpretAt
<1>5. run = [n \in 0..N |->
               [s \in DOMAIN wf \cup {id} |->
                  IF n = 0 \/ s \notin DOMAIN wf THEN Throws
                                       ELSE InterpretStep(wf, s, d, run[n - 1])]]
  BY <1>4
<1>6. Interpret(wf, id, d) = run[N][id]
  BY DEF Interpret
<1> HIDE DEF run
<1>7. \A n \in 0..N : run[n] = InterpretAt(wf, id, d, n, run[n - 1])
  BY <1>5 DEF InterpretAt
<1> QED BY <1>6, <1>7

DriveAt(wf, disp, i, rest) ==
    [x \in STRING \X {disp, Null} |->
       IF i = 0 THEN OutOfTurns(x[1], x[2]) ELSE DriveTurn(wf, x[1], x[2], rest)]

\* The walks of drive(), with each number of turns left.
Walks(wf, disp, walks) ==
    /\ DOMAIN walks = 0..MaxSteps
    /\ \A i \in 0..MaxSteps : walks[i] = DriveAt(wf, disp, i, walks[i - 1])

\* drive() satisfies its recursion.
LEMMA DriveUnfolds ==
  ASSUME NEW wf, NEW disp, NEW step, MaxSteps \in Nat
  PROVE  \E walks : /\ Walks(wf, disp, walks)
                    /\ Drive(wf, step, disp) = walks[MaxSteps][<<step, disp>>]
<1> DEFINE walks == CHOOSE f : f = [i \in 0..MaxSteps |->
                     [x \in STRING \X {disp, Null} |->
                        IF i = 0 THEN OutOfTurns(x[1], x[2])
                                 ELSE DriveTurn(wf, x[1], x[2], f[i - 1])]]
           At(i, g) == DriveAt(wf, disp, i, g)
           Table(m) == \E h : h = [i \in 0..m |-> At(i, h[i - 1])]
           Tables == {m \in 0..MaxSteps : Table(m)}
<1>1. Table(0)
  <2> DEFINE h == [i \in 0..0 |-> At(0, {})]
  <2>1. \A i \in 0..0 : At(i, h[i - 1]) = At(0, {})
    BY DEF DriveAt
  <2>2. h = [i \in 0..0 |-> At(i, h[i - 1])]
    BY <2>1
  <2> QED BY <2>2
<1>2. ASSUME NEW m \in 1..MaxSteps, Table(m - 1) PROVE Table(m)
  <2>1. PICK g : g = [i \in 0..(m - 1) |-> At(i, g[i - 1])]
    BY <1>2
  <2> DEFINE h == [i \in 0..m |-> IF i = m THEN At(m, g[m - 1]) ELSE g[i]]
  <2>2. \A i \in 0..m : h[i] = At(i, h[i - 1])
    <3> SUFFICES ASSUME NEW i \in 0..m PROVE h[i] = At(i, h[i - 1])
      OBVIOUS
    <3>1. CASE i = m
      BY <3>1
    <3>2. CASE i \in 1..(m - 1)
      <4>1. h[i] = g[i] /\ h[i - 1] = g[i - 1] /\ g[i] = At(i, g[i - 1])
        <5> HIDE DEF At
        <5> QED BY <2>1, <3>2
      <4> HIDE DEF At, h
      <4> QED BY <4>1
    <3>3. CASE i = 0 /\ i # m
      <4>1. h[0] = g[0] /\ g[0] = At(0, g[0 - 1])
        <5> HIDE DEF At
        <5> QED BY <2>1, <3>3
      <4>2. At(0, g[0 - 1]) = At(0, h[0 - 1])
        BY DEF DriveAt
      <4> HIDE DEF At, h
      <4> QED BY <3>3, <4>1, <4>2
    <3> QED BY <3>1, <3>2, <3>3
  <2> HIDE DEF At
  <2>3. h = [i \in 0..m |-> At(i, h[i - 1])]
    BY <2>2
  <2> QED BY <2>3
<1>3. Table(MaxSteps)
  <2> HIDE DEF Table
  <2>1. 0 \in Tables /\ \A m \in 1..MaxSteps : m - 1 \in Tables => m \in Tables
    BY <1>1, <1>2
  <2> HIDE DEF Tables
  <2>2. 0..MaxSteps \subseteq Tables
    BY <2>1, UpTo
  <2> USE DEF Tables
  <2> QED BY <2>2
<1>4. \E h : h = [i \in 0..MaxSteps |->
                    [x \in STRING \X {disp, Null} |->
                       IF i = 0 THEN OutOfTurns(x[1], x[2])
                                ELSE DriveTurn(wf, x[1], x[2], h[i - 1])]]
  BY <1>3 DEF DriveAt
<1>5. walks = [i \in 0..MaxSteps |->
                [x \in STRING \X {disp, Null} |->
                   IF i = 0 THEN OutOfTurns(x[1], x[2])
                            ELSE DriveTurn(wf, x[1], x[2], walks[i - 1])]]
  BY <1>4
<1>6. Drive(wf, step, disp) = walks[MaxSteps][<<step, disp>>]
  BY DEF Drive
<1> HIDE DEF walks
<1>7. Walks(wf, disp, walks)
  BY <1>5 DEF Walks, DriveAt
<1> QED BY <1>6, <1>7

-----------------------------------------------------------------------------
(* What one step becomes.                                                  *)

ActionKinds == {"place_call", "send_wa", "write_outcome", "create_task"}

Transitions == [actions : Seq(ActionKinds), next : STRING \cup {Null}, wake : {"none", "later"},
                status : {"running", "waiting", "completed", "throws"}]

CallsOf(actions) == {i \in DOMAIN actions : actions[i] = "place_call"}

\* A transition asks for a call exactly where it parks the run on it; and a call
\* or a branch that has a disposition to route by does not stop.
SoundStep(wf, s, d, t) ==
    /\ t \in Transitions
    /\ t.status = "running" => CallsOf(t.actions) = {}
    /\ t.status = "waiting" /\ t.wake = "later" => CallsOf(t.actions) = {}
    /\ t.status = "waiting" /\ t.wake = "none" =>
         /\ t.next \in DOMAIN wf /\ wf[t.next].kind = "call"
         /\ \E i : CallsOf(t.actions) = {i}
    /\ KindOf(wf, s) = "branch" \/ (KindOf(wf, s) = "call" /\ d # Null) =>
         t.status \in {"running", "throws"}

LEMMA LookupType ==
  ASSUME NEW map, \A k \in DOMAIN map : map[k] \in STRING, NEW key
  PROVE  Lookup(map, key) \in STRING \cup {Null}
BY DEF Lookup

\* A transition without actions asks for no call.
LEMMA NoActions == <<>> \in Seq(ActionKinds) /\ CallsOf(<<>>) = {}
BY DEF CallsOf

LEMMA OneAction ==
  ASSUME NEW kind \in ActionKinds
  PROVE  /\ <<kind>> \in Seq(ActionKinds)
         /\ CallsOf(<<kind>>) = IF kind = "place_call" THEN {1} ELSE {}
BY DEF CallsOf

LEMMA ThrowsSound == ASSUME NEW wf, NEW s, NEW d PROVE SoundStep(wf, s, d, Throws)
BY NoActions DEF SoundStep, Throws, Transition, Transitions

\* A send put in front of a transition's actions asks for no call more.
LEMMA SendFirst ==
  ASSUME NEW a \in Seq(ActionKinds)
  PROVE  /\ <<"send_wa">> \o a \in Seq(ActionKinds)
         /\ CallsOf(a) = {} => CallsOf(<<"send_wa">> \o a) = {}
         /\ \A i : CallsOf(a) = {i} => CallsOf(<<"send_wa">> \o a) = {i + 1}
<1> DEFINE b == <<"send_wa">> \o a
<1>1. b \in Seq(ActionKinds) /\ Len(b) = Len(a) + 1 /\ Len(a) \in Nat
  BY DEF ActionKinds
<1>2. b[1] = "send_wa" /\ \A i \in 1..Len(a) : b[i + 1] = a[i]
  OBVIOUS
<1> HIDE DEF b
<1>3. DOMAIN a = 1..Len(a) /\ DOMAIN b = 1..(Len(a) + 1)
  BY <1>1
<1>4. \A j \in CallsOf(b) : j - 1 \in CallsOf(a) /\ j \in Nat
  <2> SUFFICES ASSUME NEW j \in CallsOf(b) PROVE j - 1 \in CallsOf(a) /\ j \in Nat
    OBVIOUS
  <2>1. j \in 1..(Len(a) + 1) /\ b[j] = "place_call"
    BY <1>3 DEF CallsOf
  <2>2. j - 1 \in 1..Len(a) /\ b[(j - 1) + 1] = b[j]
    BY <1>1, <1>2, <2>1
  <2> QED BY <1>2, <1>3, <2>1, <2>2 DEF CallsOf
<1>5. \A i \in CallsOf(a) : i + 1 \in CallsOf(b) /\ i \in Nat
  BY <1>1, <1>2, <1>3 DEF CallsOf
<1> QED
  <2>1. ASSUME CallsOf(a) = {} PROVE CallsOf(b) = {}
    BY <1>4, <2>1
  <2>2. ASSUME NEW i, CallsOf(a) = {i} PROVE CallsOf(b) = {i + 1}
    <3>1. i \in Nat /\ i + 1 \in CallsOf(b)
      BY <1>5, <2>2
    <3>2. \A j \in CallsOf(b) : j - 1 = i /\ j \in Nat
      BY <1>4, <2>2
    <3> QED BY <3>1, <3>2
  <2> QED BY <1>1, <2>1, <2>2 DEF b

\* One step, whatever lies deeper.
LEMMA StepSound ==
  ASSUME NEW wf, WellFormed(wf), NEW s \in DOMAIN wf, NEW d, NEW deeper,
         \A q \in DOMAIN wf : SoundStep(wf, q, d, deeper[q])
  PROVE  SoundStep(wf, s, d, InterpretStep(wf, s, d, deeper))
<1> DEFINE step == wf[s]
           t    == InterpretStep(wf, s, d, deeper)
<1> SUFFICES SoundStep(wf, s, d, t)
  OBVIOUS
<1>1. /\ step.kind \in StepKinds /\ s \in STRING
      /\ step.kind = "call"   => \A o \in DOMAIN step.on : step.on[o] \in STRING
      /\ step.kind = "branch" => \A o \in DOMAIN step.arms : step.arms[o] \in STRING
      /\ step.kind \in {"wait", "whatsapp", "tool"} => step.then \in STRING
  BY DEF WellFormed
<1>2. KindOf(wf, s) = step.kind
  BY DEF KindOf
<1>3. CASE step.kind = "call"
  <2>1. t = InterpretCall(s, step, d)
    BY <1>3 DEF InterpretStep
  <2>2. CallRoute(step.on, d) \in STRING \cup {Null}
    BY <1>1, <1>3, LookupType DEF CallRoute
  <2>3. CASE d # Null
    BY <1>2, <1>3, <2>1, <2>2, <2>3, NoActions
    DEF InterpretCall, Transition, SoundStep, Transitions
  <2>4. CASE d = Null
    <3>1. t = Transition(<<"place_call">>, s, "none", "waiting")
      BY <2>1, <2>4 DEF InterpretCall
    <3>2. "place_call" \in ActionKinds
      BY DEF ActionKinds
    <3>3. <<"place_call">> \in Seq(ActionKinds) /\ CallsOf(<<"place_call">>) = {1}
      BY <3>2, OneAction
    <3>4. /\ t.actions = <<"place_call">> /\ t.next = s /\ t.wake = "none"
          /\ t.status = "waiting" /\ t \in Transitions
      BY <1>1, <3>1, <3>3 DEF Transition, Transitions
    <3> HIDE DEF t
    <3>5. \E i : CallsOf(t.actions) = {i}
      BY <3>3, <3>4
    <3> QED BY <1>2, <1>3, <2>4, <3>4, <3>5 DEF SoundStep
  <2> QED BY <2>3, <2>4
<1>4. CASE step.kind = "wait"
  <2>1. t = InterpretWait(step)
    BY <1>4 DEF InterpretStep
  <2>2. CASE step.valid
    BY <1>1, <1>2, <1>4, <2>1, <2>2, NoActions
    DEF InterpretWait, Transition, SoundStep, Transitions
  <2>3. CASE ~step.valid
    BY <2>1, <2>3, ThrowsSound DEF InterpretWait
  <2> QED BY <2>2, <2>3
<1>5. CASE step.kind = "branch"
  <2>1. t = Transition(<<>>, BranchRoute(step.arms, d), "none", "running")
    BY <1>5 DEF InterpretStep
  <2>2. BranchRoute(step.arms, d) \in STRING \cup {Null}
    BY <1>1, <1>5, LookupType DEF BranchRoute
  <2> QED BY <1>2, <1>5, <2>1, <2>2, NoActions DEF Transition, SoundStep, Transitions
<1>6. CASE step.kind = "tool"
  <2>1. t = InterpretTool(step)
    BY <1>6 DEF InterpretStep
  <2>2. PICK kind \in {"write_outcome", "create_task"}, status \in {"completed", "running"} :
          t = Throws \/ t = Transition(<<kind>>, step.then, "none", status)
    BY <2>1 DEF InterpretTool
  <2>3. CASE t = Throws
    BY <2>3, ThrowsSound
  <2>4. CASE t = Transition(<<kind>>, step.then, "none", status)
    <3>1. <<kind>> \in Seq(ActionKinds) /\ CallsOf(<<kind>>) = {}
      <4>1. kind \in ActionKinds /\ kind # "place_call"
        BY DEF ActionKinds
      <4> QED BY <4>1, OneAction
    <3>2. /\ t.actions = <<kind>> /\ t.next = step.then /\ t.wake = "none"
          /\ t.status = status /\ t \in Transitions
      BY <1>1, <1>6, <2>4, <3>1 DEF Transition, Transitions
    <3> HIDE DEF t
    <3>3. CallsOf(t.actions) = {}
      BY <3>1, <3>2
    <3> QED BY <1>2, <1>6, <3>2, <3>3 DEF SoundStep
  <2> QED BY <2>2, <2>3, <2>4
<1>7. CASE step.kind = "end"
  <2>1. t = Transition(<<>>, Null, "none", "completed")
    BY <1>7 DEF InterpretStep
  <2> QED BY <1>2, <1>7, <2>1, NoActions DEF Transition, SoundStep, Transitions
<1>8. CASE step.kind = "whatsapp"
  <2> DEFINE r == deeper[step.then]
  <2>1. t = IF step.then \notin DOMAIN wf \/ r.status = "throws" THEN Throws
            ELSE [r EXCEPT !.actions = <<"send_wa">> \o @]
    BY <1>8 DEF InterpretStep
  <2>2. CASE step.then \notin DOMAIN wf \/ r.status = "throws"
    BY <2>1, <2>2, ThrowsSound
  <2>3. CASE step.then \in DOMAIN wf /\ r.status # "throws"
    <3>1. SoundStep(wf, step.then, d, r)
      BY <2>3
    <3>2. r \in Transitions
      BY <3>1 DEF SoundStep
    <3>3. /\ t.actions = <<"send_wa">> \o r.actions
          /\ t.next = r.next /\ t.wake = r.wake /\ t.status = r.status
      BY <2>1, <2>3, <3>2 DEF Transitions
    <3>4. r.actions \in Seq(ActionKinds)
      BY <3>2 DEF Transitions
    <3>5. t \in Transitions
      BY <2>1, <2>3, <3>2, <3>4, SendFirst DEF Transitions
    <3> HIDE DEF t, r
    <3>6. /\ CallsOf(r.actions) = {} => CallsOf(t.actions) = {}
          /\ (\E i : CallsOf(r.actions) = {i}) => \E i : CallsOf(t.actions) = {i}
      BY <3>3, <3>4, SendFirst
    <3> QED BY <1>2, <1>8, <3>1, <3>3, <3>5, <3>6 DEF SoundStep
  <2> QED BY <2>2, <2>3
<1> QED BY <1>1, <1>3, <1>4, <1>5, <1>6, <1>7, <1>8 DEF StepKinds

\* interpret() of any step, known or not.
LEMMA InterpretSound ==
  ASSUME NEW wf, WellFormed(wf), NEW s, NEW d
  PROVE  SoundStep(wf, s, d, Interpret(wf, s, d))
<1> DEFINE N == Cardinality(DOMAIN wf)
<1>0. N \in Nat
  BY FS_CardinalityType DEF WellFormed
<1>1. PICK run : /\ \A n \in 0..N : run[n] = InterpretAt(wf, s, d, n, run[n - 1])
                 /\ Interpret(wf, s, d) = run[N][s]
  BY <1>0, InterpretUnfolds
<1> DEFINE Good == {n \in 0..N : \A q \in DOMAIN wf \cup {s} : SoundStep(wf, q, d, run[n][q])}
<1>2. 0 \in Good
  <2>1. run[0] = InterpretAt(wf, s, d, 0, run[0 - 1])
    BY <1>0, <1>1
  <2>2. \A q \in DOMAIN wf \cup {s} : run[0][q] = Throws
    BY <2>1 DEF InterpretAt
  <2> QED BY <1>0, <2>2, ThrowsSound
<1>3. ASSUME NEW n \in 1..N, n - 1 \in Good PROVE n \in Good
  <2>1. run[n] = InterpretAt(wf, s, d, n, run[n - 1]) /\ n # 0
    BY <1>0, <1>1, <1>3
  <2>2. ASSUME NEW q \in DOMAIN wf \cup {s} PROVE SoundStep(wf, q, d, run[n][q])
    <3>1. CASE q \notin DOMAIN wf
      <4>1. run[n][q] = Throws
        BY <2>1, <3>1 DEF InterpretAt
      <4> QED BY <4>1, ThrowsSound
    <3>2. CASE q \in DOMAIN wf
      <4>1. run[n][q] = InterpretStep(wf, q, d, run[n - 1])
        BY <2>1, <3>2 DEF InterpretAt
      <4> QED BY <1>3, <3>2, <4>1, StepSound
    <3> QED BY <3>1, <3>2
  <2> QED BY <1>0, <2>2
<1> HIDE DEF Good, N
<1>4. N \in Good
  <2>1. 0..N \subseteq Good
    BY <1>0, <1>2, <1>3, UpTo
  <2> QED BY <1>0, <2>1
<1> QED BY <1>1, <1>4 DEF Good

-----------------------------------------------------------------------------
(* What a walk comes to.                                                   *)

Asked == [step : STRING, idx : Nat, kind : ActionKinds]

WalkEnds(disp) == [status : {"waiting", "completed", "throws"}, step : STRING,
                   disp : {disp, Null}, wake : {"none", "later"}, actions : SUBSET Asked]

CallsIn(asked) == {a \in asked : a.kind = "place_call"}

\* The disposition is spent, or the step is one that spends it.
Routed(wf, s, d) == d = Null \/ KindOf(wf, s) \in {"call", "branch"}

\* A walk that waits has one waker, and has spent what it was given to route by.
Settles(wf, w) ==
    w.status = "waiting" =>
      \/ w.wake = "later" /\ CallsIn(w.actions) = {}
      \/ w.wake = "none" /\ (\E a : CallsIn(w.actions) = {a}) /\ KindOf(wf, w.step) = "call"

SoundWalk(wf, disp, s, d, w) ==
    /\ w \in WalkEnds(disp)
    /\ Settles(wf, w)
    /\ Routed(wf, s, d) /\ w.status # "throws" => w.disp = Null

LEMMA LabelledCalls ==
  ASSUME NEW s \in STRING, NEW actions \in Seq(ActionKinds)
  PROVE  /\ Labelled(s, actions) \in SUBSET Asked
         /\ CallsOf(actions) = {} => CallsIn(Labelled(s, actions)) = {}
         /\ (\E i : CallsOf(actions) = {i}) => \E a : CallsIn(Labelled(s, actions)) = {a}
<1>1. \A i \in DOMAIN actions : i \in Nat /\ actions[i] \in ActionKinds
  OBVIOUS
<1>2. Labelled(s, actions) \in SUBSET Asked
  BY <1>1 DEF Labelled, Asked
<1>3. ASSUME CallsOf(actions) = {} PROVE CallsIn(Labelled(s, actions)) = {}
  BY <1>3 DEF CallsOf, CallsIn, Labelled
<1>4. ASSUME NEW i, CallsOf(actions) = {i}
      PROVE  CallsIn(Labelled(s, actions)) = {[step |-> s, idx |-> i, kind |-> actions[i]]}
  BY <1>4 DEF CallsOf, CallsIn, Labelled
<1> QED BY <1>2, <1>3, <1>4

\* One turn of the loop, when the walks with a turn less are sound.
LEMMA TurnSound ==
  ASSUME NEW wf, WellFormed(wf), NEW disp, NEW s \in STRING, NEW d \in {disp, Null}, NEW rest,
         \A q \in STRING, c \in {disp, Null} : SoundWalk(wf, disp, q, c, rest[<<q, c>>])
  PROVE  SoundWalk(wf, disp, s, d, DriveTurn(wf, s, d, rest))
<1> DEFINE t == Interpret(wf, s, d)
           n == Resting(t, s)
           w == DriveTurn(wf, s, d, rest)
<1> SUFFICES SoundWalk(wf, disp, s, d, w)
  OBVIOUS
<1>0. w = IF t.status # "running" THEN Stopped(t, s, d)
          ELSE Preceded(rest[<<n, Consume(wf, s, n, d)>>], Labelled(s, t.actions))
  BY DEF DriveTurn
<1>1. SoundStep(wf, s, d, t)
  BY InterpretSound
<1> HIDE DEF t, w
<1>2. /\ t.actions \in Seq(ActionKinds) /\ t.next \in STRING \cup {Null}
      /\ t.wake \in {"none", "later"}
      /\ t.status \in {"running", "waiting", "completed", "throws"}
      /\ n \in STRING
  BY <1>1 DEF SoundStep, Transitions, Resting
<1>3. CASE t.status # "running"
  <2>1. /\ w.status = t.status /\ w.step = n /\ w.disp = d /\ w.wake = t.wake
        /\ w.actions = Labelled(s, t.actions)
    BY <1>0, <1>3 DEF Stopped
  <2>2. w \in WalkEnds(disp)
    <3>1. Labelled(s, t.actions) \in SUBSET Asked
      BY <1>2, LabelledCalls
    <3> QED BY <1>0, <1>2, <1>3, <3>1 DEF Stopped, WalkEnds
  <2>3. Settles(wf, w)
    <3> SUFFICES ASSUME w.status = "waiting"
                 PROVE  \/ w.wake = "later" /\ CallsIn(w.actions) = {}
                        \/ /\ w.wake = "none" /\ (\E a : CallsIn(w.actions) = {a})
                           /\ KindOf(wf, w.step) = "call"
      BY DEF Settles
    <3>1. CASE t.wake = "later"
      BY <1>1, <1>2, <2>1, <3>1, LabelledCalls DEF SoundStep
    <3>2. CASE t.wake = "none"
      <4>1. /\ t.next \in DOMAIN wf /\ wf[t.next].kind = "call"
            /\ \E i : CallsOf(t.actions) = {i}
        BY <1>1, <2>1, <3>2 DEF SoundStep
      <4>2. n = t.next /\ KindOf(wf, n) = "call"
        BY <4>1 DEF Resting, KindOf, WellFormed
      <4>3. \E a : CallsIn(Labelled(s, t.actions)) = {a}
        BY <1>2, <4>1, LabelledCalls
      <4> QED BY <2>1, <3>2, <4>2, <4>3
    <3> QED BY <1>2, <3>1, <3>2
  <2>4. Routed(wf, s, d) /\ w.status # "throws" => w.disp = Null
    BY <1>1, <1>3, <2>1 DEF SoundStep, Routed
  <2> QED BY <2>2, <2>3, <2>4 DEF SoundWalk
<1>4. CASE t.status = "running"
  <2> DEFINE c == Consume(wf, s, n, d)
             r == rest[<<n, c>>]
  <2>1. c \in {disp, Null} /\ (Routed(wf, s, d) => Routed(wf, n, c))
    BY DEF Consume, Routed
  <2>2. SoundWalk(wf, disp, n, c, r)
    BY <1>2, <2>1
  <2>3. w = Preceded(r, Labelled(s, t.actions))
    BY <1>0, <1>4
  <2> HIDE DEF r, c
  <2>4. CASE r.status = "throws"
    <3>1. w = r
      BY <2>3, <2>4 DEF Preceded
    <3> QED BY <2>2, <2>4, <3>1 DEF SoundWalk
  <2>5. CASE r.status # "throws"
    <3>1. r \in WalkEnds(disp)
      BY <2>2 DEF SoundWalk
    <3>2. /\ w.status = r.status /\ w.step = r.step /\ w.disp = r.disp /\ w.wake = r.wake
          /\ w.actions = r.actions \cup Labelled(s, t.actions)
      BY <2>3, <2>5, <3>1 DEF Preceded, WalkEnds
    <3>3. Labelled(s, t.actions) \in SUBSET Asked /\ CallsIn(Labelled(s, t.actions)) = {}
      BY <1>1, <1>2, <1>4, LabelledCalls DEF SoundStep
    <3>4. w \in WalkEnds(disp)
      <4>1. r.actions \cup Labelled(s, t.actions) \in SUBSET Asked
        BY <3>1, <3>3 DEF WalkEnds
      <4> QED BY <2>3, <2>5, <3>1, <4>1 DEF Preceded, WalkEnds
    <3>5. CallsIn(w.actions) = CallsIn(r.actions)
      BY <3>2, <3>3 DEF CallsIn
    <3> QED BY <2>1, <2>2, <3>2, <3>4, <3>5 DEF SoundWalk, Settles
  <2> QED BY <2>4, <2>5
<1> QED BY <1>3, <1>4

\* The walks of `next` take a turn more than those of `rest`.
TurnBefore(wf, disp, next, rest) ==
    \A s \in STRING, d \in {disp, Null} : next[<<s, d>>] = DriveTurn(wf, s, d, rest)

\* A walk with turns left takes one.
LEMMA WalksTurn ==
  ASSUME MaxSteps \in Nat, NEW wf, NEW disp, NEW walks, Walks(wf, disp, walks),
         NEW k \in 1..MaxSteps
  PROVE  TurnBefore(wf, disp, walks[k], walks[k - 1])
<1> SUFFICES ASSUME NEW s \in STRING, NEW d \in {disp, Null}
             PROVE  walks[k][<<s, d>>] = DriveTurn(wf, s, d, walks[k - 1])
  BY DEF TurnBefore
<1> DEFINE rest == walks[k - 1]
           x == <<s, d>>
<1>1. walks[k] = DriveAt(wf, disp, k, rest) /\ k # 0
  BY DEF Walks
<1>2. x \in STRING \X {disp, Null} /\ x[1] = s /\ x[2] = d
  OBVIOUS
<1> HIDE DEF rest, x
<1>3. walks[k][x] = DriveTurn(wf, x[1], x[2], rest)
  BY <1>1, <1>2 DEF DriveAt
<1>4. walks[k][x] = DriveTurn(wf, s, d, rest)
  BY <1>2, <1>3
<1> QED BY <1>4 DEF rest, x

\* Every walk the recursion has, from anywhere and with any turns left.
LEMMA WalksSound ==
  ASSUME MaxSteps \in Nat, NEW wf, WellFormed(wf), NEW disp, NEW walks, Walks(wf, disp, walks),
         NEW i \in 0..MaxSteps, NEW s \in STRING, NEW d \in {disp, Null}
  PROVE  SoundWalk(wf, disp, s, d, walks[i][<<s, d>>])
<1> DEFINE AllSound(k) == \A q \in STRING, c \in {disp, Null} :
                            SoundWalk(wf, disp, q, c, walks[k][<<q, c>>])
           Good == {k \in 0..MaxSteps : AllSound(k)}
<1>1. AllSound(0)
  <2> SUFFICES ASSUME NEW q \in STRING, NEW c \in {disp, Null}
               PROVE  SoundWalk(wf, disp, q, c, walks[0][<<q, c>>])
    OBVIOUS
  <2>1. walks[0] = DriveAt(wf, disp, 0, walks[0 - 1])
    BY DEF Walks
  <2>2. walks[0][<<q, c>>] = OutOfTurns(q, c)
    BY <2>1 DEF DriveAt
  <2>3. SoundWalk(wf, disp, q, c, OutOfTurns(q, c))
    BY DEF OutOfTurns, SoundWalk, WalkEnds, Settles
  <2> QED BY <2>2, <2>3
<1>2. ASSUME NEW k \in 1..MaxSteps, AllSound(k - 1) PROVE AllSound(k)
  <2> SUFFICES ASSUME NEW q \in STRING, NEW c \in {disp, Null}
               PROVE  SoundWalk(wf, disp, q, c, walks[k][<<q, c>>])
    OBVIOUS
  <2> DEFINE rest == walks[k - 1]
  <2>0. TurnBefore(wf, disp, walks[k], rest)
    BY WalksTurn
  <2>1. walks[k][<<q, c>>] = DriveTurn(wf, q, c, rest)
    BY <2>0 DEF TurnBefore
  <2>2. \A q1 \in STRING, c1 \in {disp, Null} : SoundWalk(wf, disp, q1, c1, rest[<<q1, c1>>])
    BY <1>2
  <2> HIDE DEF rest
  <2>3. SoundWalk(wf, disp, q, c, DriveTurn(wf, q, c, rest))
    BY <2>2, TurnSound
  <2> QED BY <2>1, <2>3
<1> HIDE DEF AllSound
<1>3. 0 \in Good /\ \A k \in 1..MaxSteps : k - 1 \in Good => k \in Good
  BY <1>1, <1>2
<1> HIDE DEF Good
<1>4. 0..MaxSteps \subseteq Good
  BY <1>3, UpTo
<1>5. AllSound(i)
  BY <1>4 DEF Good
<1> QED BY <1>5 DEF AllSound

LEMMA DriveSound ==
  ASSUME MaxSteps \in Nat, NEW wf, WellFormed(wf), NEW s \in STRING, NEW d
  PROVE  SoundWalk(wf, d, s, d, Drive(wf, s, d))
<1>1. PICK walks : Walks(wf, d, walks) /\ Drive(wf, s, d) = walks[MaxSteps][<<s, d>>]
  BY DriveUnfolds
<1>2. MaxSteps \in 0..MaxSteps
  OBVIOUS
<1>3. SoundWalk(wf, d, s, d, walks[MaxSteps][<<s, d>>])
  BY <1>1, <1>2, WalksSound
<1> QED BY <1>1, <1>3

\* What the pipeline takes for granted of Walk (WalkSettles in Scheduler) holds
\* of drive(), whatever the definition: a walk that was given no disposition, or
\* one to a call, ends without one, and stops without a timer only on a call it
\* has asked for.
THEOREM DriveSettles ==
  ASSUME MaxSteps \in Nat, NEW wf, WellFormed(wf), NEW s \in STRING, NEW d,
         d = Null \/ KindOf(wf, s) = "call", Drive(wf, s, d).status # "throws"
  PROVE  LET w == Drive(wf, s, d) IN
         /\ w.disp = Null
         /\ w.status = "waiting" /\ w.wake = "none" =>
              KindOf(wf, w.step) = "call" /\ \E a \in w.actions : a.kind = "place_call"
<1> DEFINE w == Drive(wf, s, d)
<1>1. SoundWalk(wf, d, s, d, w)
  BY DriveSound
<1> HIDE DEF w
<1>2. w.status # "throws" => w.disp = Null
  BY <1>1 DEF SoundWalk, Routed
<1>3. ASSUME w.status = "waiting", w.wake = "none"
      PROVE  KindOf(wf, w.step) = "call" /\ \E a \in w.actions : a.kind = "place_call"
  <2>1. KindOf(wf, w.step) = "call" /\ \E a : CallsIn(w.actions) = {a}
    BY <1>1, <1>3 DEF SoundWalk, Settles
  <2> QED BY <2>1 DEF CallsIn
<1> QED BY <1>2, <1>3 DEF w

-----------------------------------------------------------------------------
(* Types, and the one waker of a parked run.                               *)

RowOK ==
    /\ row \in [status : {"pending", "waiting", "completed", "failed"}, step : STRING,
                disp : Disps \cup {Null}, wake : {"none", "due", "later"}]
    /\ row.status \in {"pending", "waiting"} => Routed(def, row.step, row.disp)

WalkOK ==
    \/ walk = NoWalk
    \/ /\ walk.actions \in SUBSET Asked
       /\ Settles(def, walk)
       /\ walk.status = "waiting" => walk.disp = Null

SeqInv ==
    /\ WellFormed(def)
    /\ wakes \in 0..MaxWakes
    /\ RowOK
    /\ WalkOK

LEMMA InitSeq == Init => SeqInv
<1> SUFFICES ASSUME Init PROVE SeqInv
  OBVIOUS
<1>1. PICK wf \in Definitions : /\ def = wf.steps
                                /\ row = [status |-> "pending", step |-> wf.entry,
                                          disp |-> Null, wake |-> "due"]
  BY DEF Init
<1>2. WellFormed(wf.steps) /\ wf.entry \in STRING /\ MaxWakes \in Nat
  BY SequenceAssumption
<1>3. RowOK
  BY <1>1, <1>2 DEF RowOK, Routed
<1> QED BY <1>1, <1>2, <1>3 DEF SeqInv, WalkOK, Init

\* A tick: the run is where the walk left it, or dead-lettered.
LEMMA WakeSeq == ASSUME SeqInv, Wake PROVE SeqInv'
<1> DEFINE w == Drive(def, row.step, row.disp)
<1>0. MaxSteps \in Nat /\ MaxWakes \in Nat /\ row.step \in STRING
  BY SequenceAssumption DEF SeqInv, RowOK
<1>1. SoundWalk(def, row.disp, row.step, row.disp, w)
  BY <1>0, DriveSound DEF SeqInv
<1>2. /\ walk' = w /\ def' = def /\ wakes' = wakes + 1 /\ wakes < MaxWakes
      /\ row' = IF w.status = "throws" THEN [row EXCEPT !.status = "failed"]
                ELSE [status |-> w.status, step |-> w.step, disp |-> w.disp, wake |-> w.wake]
      /\ row.status \in {"pending", "waiting"}
  BY DEF Wake
<1> HIDE DEF w
<1>3. w \in WalkEnds(row.disp) /\ Settles(def, w) /\ (w.status # "throws" => w.disp = Null)
  BY <1>1, <1>2 DEF SoundWalk, SeqInv, RowOK
<1>4. RowOK'
  <2>1. CASE w.status = "throws"
    BY <1>2, <2>1 DEF SeqInv, RowOK
  <2>2. CASE w.status # "throws"
    BY <1>2, <1>3, <2>2 DEF RowOK, WalkEnds, Routed
  <2> QED BY <2>1, <2>2
<1>5. WalkOK'
  BY <1>2, <1>3 DEF WalkOK, WalkEnds, Settles
<1> QED BY <1>0, <1>2, <1>4, <1>5 DEF SeqInv

LEMMA NextSeq == SeqInv /\ [Next]_vars => SeqInv'
<1> SUFFICES ASSUME SeqInv, [Next]_vars PROVE SeqInv'
  OBVIOUS
<1>1. CASE Wake
  BY <1>1, WakeSeq
<1>2. ASSUME NEW d \in Disps, Answer(d) PROVE SeqInv'
  <2>1. RowOK'
    BY <1>2 DEF Answer, SeqInv, RowOK, Routed
  <2> QED BY <1>2, <2>1 DEF Answer, SeqInv, WalkOK, Settles
<1>3. CASE Elapse
  <2>1. RowOK'
    BY <1>3 DEF Elapse, SeqInv, RowOK, Routed
  <2> QED BY <1>3, <2>1 DEF Elapse, SeqInv, WalkOK, Settles
<1>4. CASE UNCHANGED vars
  BY <1>4 DEF vars, SeqInv, RowOK, WalkOK, Settles, Routed
<1> QED BY <1>1, <1>2, <1>3, <1>4 DEF Next

LEMMA SeqAlways == Spec => []SeqInv
BY InitSeq, NextSeq, PTL DEF Spec

\* The row and the last walk keep their types whatever the definition: no tick
\* stores the transient status or asks for an action of a kind nobody performs.
THEOREM SequenceTypes == Spec => []TypeOK
<1>1. SeqInv => TypeOK
  <2> SUFFICES ASSUME SeqInv PROVE TypeOK
    OBVIOUS
  <2>1. Kinds \subseteq ActionKinds
    BY DEF SeqInv, WalkOK, NoWalk, Asked, Kinds
  <2> QED BY <2>1 DEF SeqInv, RowOK, TypeOK, ActionKinds
<1> QED BY <1>1, SeqAlways, PTL

\* A run that a tick has parked waits for a timer and has asked for no call, or
\* rests on the one call it asked for; in every definition, however its steps
\* are chained.
THEOREM OneWaker == Spec => []ParkedHasOneWaker
<1>1. SeqInv => ParkedHasOneWaker
  <2> SUFFICES ASSUME SeqInv, row.status = "waiting",
                      row = [status |-> walk.status, step |-> walk.step,
                             disp |-> walk.disp, wake |-> walk.wake]
               PROVE  /\ row.disp = Null
                      /\ \/ row.wake = "later" /\ CallsIn(walk.actions) = {}
                         \/ row.wake = "none" /\ Cardinality(CallsIn(walk.actions)) = 1
                            /\ KindOf(def, row.step) = "call"
    BY DEF ParkedHasOneWaker, CallsIn
  <2>1. /\ walk.status = "waiting" /\ row.step = walk.step
        /\ row.disp = walk.disp /\ row.wake = walk.wake
    OBVIOUS
  <2>2. Settles(def, walk) /\ walk.disp = Null
    BY <2>1 DEF SeqInv, WalkOK, NoWalk
  <2>3. CASE row.wake = "later" /\ CallsIn(walk.actions) = {}
    BY <2>1, <2>2, <2>3
  <2>4. CASE /\ walk.wake = "none" /\ (\E a : CallsIn(walk.actions) = {a})
             /\ KindOf(def, walk.step) = "call"
    BY <2>1, <2>2, <2>4, FS_Singleton
  <2> QED BY <2>1, <2>2, <2>3, <2>4 DEF Settles
<1> QED BY <1>1, SeqAlways, PTL

-----------------------------------------------------------------------------
(* How far a disposition reaches.                                          *)

\* A call that has a disposition, and a branch, route and do nothing else.
LEMMA HopSteps ==
  ASSUME NEW wf, WellFormed(wf), NEW s \in DOMAIN wf, NEW d
  PROVE  /\ wf[s].kind = "call" /\ d # Null =>
              Interpret(wf, s, d) = Transition(<<>>, CallRoute(wf[s].on, d), "none", "running")
         /\ wf[s].kind = "branch" =>
              Interpret(wf, s, d) = Transition(<<>>, BranchRoute(wf[s].arms, d), "none", "running")
<1> DEFINE N == Cardinality(DOMAIN wf)
<1>1. IsFiniteSet(DOMAIN wf) /\ N \in Nat /\ N # 0
  BY FS_CardinalityType, FS_EmptySet DEF WellFormed
<1>2. PICK run : /\ \A n \in 0..N : run[n] = InterpretAt(wf, s, d, n, run[n - 1])
                 /\ Interpret(wf, s, d) = run[N][s]
  BY <1>1, InterpretUnfolds
<1> DEFINE deeper == run[N - 1]
<1> HIDE DEF N
<1>3. run[N] = InterpretAt(wf, s, d, N, deeper)
  BY <1>1, <1>2
<1> HIDE DEF deeper
<1>4. Interpret(wf, s, d) = InterpretStep(wf, s, d, deeper)
  BY <1>1, <1>2, <1>3 DEF InterpretAt
<1>5. ASSUME wf[s].kind = "call", d # Null
      PROVE  InterpretStep(wf, s, d, deeper)
               = Transition(<<>>, CallRoute(wf[s].on, d), "none", "running")
  BY <1>5 DEF InterpretStep, InterpretCall
<1>6. ASSUME wf[s].kind = "branch"
      PROVE  InterpretStep(wf, s, d, deeper)
               = Transition(<<>>, BranchRoute(wf[s].arms, d), "none", "running")
  BY <1>6 DEF InterpretStep
<1> QED BY <1>4, <1>5, <1>6

\* After such a step the walk is the one from the next step.
LEMMA HopWalk ==
  ASSUME NEW wf, NEW disp, NEW s, NEW d, NEW next, next # Null, NEW rest,
         Interpret(wf, s, d) = Transition(<<>>, next, "none", "running"),
         rest[<<next, Consume(wf, s, next, d)>>] \in WalkEnds(disp)
  PROVE  DriveTurn(wf, s, d, rest) = rest[<<next, Consume(wf, s, next, d)>>]
<1> DEFINE t == Interpret(wf, s, d)
           r == rest[<<next, Consume(wf, s, next, d)>>]
<1>1. t.actions = <<>> /\ t.next = next /\ t.status = "running"
  BY DEF Transition
<1>2. Resting(t, s) = next
  BY <1>1 DEF Resting
<1>3. DriveTurn(wf, s, d, rest) = Preceded(r, Labelled(s, <<>>))
  BY <1>1, <1>2 DEF DriveTurn
<1>4. Labelled(s, <<>>) = {}
  BY DEF Labelled
<1> HIDE DEF r
<1>5. r \in WalkEnds(disp) => Preceded(r, {}) = r
  BY DEF Preceded, WalkEnds
<1> QED BY <1>3, <1>4, <1>5 DEF r

\* The walks of `rest` that end are the same in `more`.
EndsKept(disp, rest, more) ==
    \A q \in STRING, c \in {disp, Null} :
      rest[<<q, c>>].status # "throws" => more[<<q, c>>] = rest[<<q, c>>]

\* Then a turn before them makes no difference either.
LEMMA TurnSame ==
  ASSUME NEW wf, WellFormed(wf), NEW disp, NEW s \in STRING, NEW d \in {disp, Null},
         NEW rest, NEW more, EndsKept(disp, rest, more),
         DriveTurn(wf, s, d, rest).status # "throws"
  PROVE  DriveTurn(wf, s, d, more) = DriveTurn(wf, s, d, rest)
<1> DEFINE t == Interpret(wf, s, d)
           n == Resting(t, s)
           c == Consume(wf, s, n, d)
<1>1. t \in Transitions
  BY InterpretSound DEF SoundStep
<1>2. \A w : DriveTurn(wf, s, d, w) = IF t.status # "running" THEN Stopped(t, s, d)
                                       ELSE Preceded(w[<<n, c>>], Labelled(s, t.actions))
  BY DEF DriveTurn
<1> HIDE DEF t
<1>3. n \in STRING /\ c \in {disp, Null}
  BY <1>1 DEF Transitions, Resting, Consume
<1> HIDE DEF c, n
<1>4. CASE t.status # "running"
  BY <1>2, <1>4
<1>5. CASE t.status = "running"
  <2>1. rest[<<n, c>>].status # "throws"
    BY <1>2, <1>5 DEF Preceded
  <2>2. more[<<n, c>>] = rest[<<n, c>>]
    BY <1>3, <2>1 DEF EndsKept
  <2> QED BY <1>2, <1>5, <2>2
<1> QED BY <1>4, <1>5

\* A walk that ends is the same with more turns.
LEMMA MoreTurns ==
  ASSUME MaxSteps \in Nat, NEW wf, WellFormed(wf), NEW disp, NEW walks, Walks(wf, disp, walks),
         NEW i \in 1..MaxSteps
  PROVE  EndsKept(disp, walks[i - 1], walks[i])
<1> DEFINE Same(k) == EndsKept(disp, walks[k - 1], walks[k])
           Good == {k \in 0..MaxSteps : k = 0 \/ Same(k)}
<1>1. Same(1)
  <2>0. 1 - 1 = 0
    OBVIOUS
  <2> SUFFICES ASSUME NEW q \in STRING, NEW c \in {disp, Null}
               PROVE  walks[0][<<q, c>>].status = "throws"
    BY <2>0 DEF EndsKept
  <2>1. walks[0] = DriveAt(wf, disp, 0, walks[0 - 1])
    BY DEF Walks
  <2>2. walks[0][<<q, c>>] = OutOfTurns(q, c)
    BY <2>1 DEF DriveAt
  <2> QED BY <2>2 DEF OutOfTurns
<1>2. ASSUME NEW k \in 2..MaxSteps, Same(k - 1) PROVE Same(k)
  <2> DEFINE rest == walks[k - 2]
             more == walks[k - 1]
  <2>1. TurnBefore(wf, disp, walks[k], more)
    <3>1. k \in 1..MaxSteps
      OBVIOUS
    <3> QED BY <3>1, WalksTurn
  <2>2. TurnBefore(wf, disp, more, rest)
    <3> DEFINE m == k - 1
    <3>1. m \in 1..MaxSteps /\ m - 1 = k - 2
      OBVIOUS
    <3>2. TurnBefore(wf, disp, walks[m], walks[m - 1])
      BY <3>1, WalksTurn
    <3> QED BY <3>1, <3>2
  <2>3. EndsKept(disp, rest, more)
    <3>1. (k - 1) - 1 = k - 2
      OBVIOUS
    <3> QED BY <1>2, <3>1
  <2>4. ASSUME NEW q \in STRING, NEW c \in {disp, Null}, more[<<q, c>>].status # "throws"
        PROVE  walks[k][<<q, c>>] = more[<<q, c>>]
    <3> HIDE DEF more, rest
    <3>1. /\ walks[k][<<q, c>>] = DriveTurn(wf, q, c, more)
          /\ more[<<q, c>>] = DriveTurn(wf, q, c, rest)
      BY <2>1, <2>2 DEF TurnBefore
    <3>2. DriveTurn(wf, q, c, rest).status # "throws"
      BY <2>4, <3>1
    <3>3. DriveTurn(wf, q, c, more) = DriveTurn(wf, q, c, rest)
      BY <2>3, <3>2, TurnSame
    <3> QED BY <3>1, <3>3
  <2> QED BY <2>4 DEF EndsKept
<1> HIDE DEF Same
<1>3. 0 \in Good /\ \A k \in 1..MaxSteps : k - 1 \in Good => k \in Good
  <2>1. 0 \in Good
    OBVIOUS
  <2>2. ASSUME NEW k \in 1..MaxSteps, k - 1 \in Good PROVE k \in Good
    <3>1. CASE k = 1
      BY <1>1, <3>1
    <3>2. CASE k # 1
      <4>1. k \in 2..MaxSteps /\ Same(k - 1)
        BY <2>2, <3>2
      <4> QED BY <1>2, <4>1
    <3> QED BY <3>1, <3>2
  <2> QED BY <2>1, <2>2
<1> HIDE DEF Good
<1>4. 0..MaxSteps \subseteq Good
  BY <1>3, UpTo
<1>5. Same(i)
  BY <1>4 DEF Good
<1> QED BY <1>5 DEF Same

SameWithout(walks, fresh) == \A s \in STRING : walks[<<s, Null>>] = fresh[<<s, Null>>]

\* Without a disposition the walk is that of a run that never had one.
LEMMA FreshWalk ==
  ASSUME MaxSteps \in Nat, NEW wf, WellFormed(wf), NEW disp, NEW walks, NEW fresh,
         Walks(wf, disp, walks), Walks(wf, Null, fresh),
         NEW i \in 0..MaxSteps
  PROVE  SameWithout(walks[i], fresh[i])
<1> DEFINE Same(k) == SameWithout(walks[k], fresh[k])
           Good == {k \in 0..MaxSteps : Same(k)}
<1>1. Same(0)
  <2> SUFFICES ASSUME NEW q \in STRING PROVE walks[0][<<q, Null>>] = fresh[0][<<q, Null>>]
    BY DEF SameWithout
  <2>1. walks[0] = DriveAt(wf, disp, 0, walks[0 - 1]) /\ fresh[0] = DriveAt(wf, Null, 0, fresh[0 - 1])
    BY DEF Walks
  <2>2. walks[0][<<q, Null>>] = OutOfTurns(q, Null)
    BY <2>1 DEF DriveAt
  <2>3. fresh[0][<<q, Null>>] = OutOfTurns(q, Null)
    BY <2>1 DEF DriveAt
  <2> QED BY <2>2, <2>3
<1>2. ASSUME NEW k \in 1..MaxSteps, Same(k - 1) PROVE Same(k)
  <2> DEFINE r == walks[k - 1]
             f == fresh[k - 1]
  <2>1. TurnBefore(wf, disp, walks[k], r) /\ TurnBefore(wf, Null, fresh[k], f)
    BY WalksTurn
  <2>2. SameWithout(r, f)
    BY <1>2
  <2> HIDE DEF r, f
  <2>3. ASSUME NEW q \in STRING PROVE walks[k][<<q, Null>>] = fresh[k][<<q, Null>>]
    <3> DEFINE t == Interpret(wf, q, Null)
               n == Resting(t, q)
    <3>1. /\ walks[k][<<q, Null>>] = DriveTurn(wf, q, Null, r)
          /\ fresh[k][<<q, Null>>] = DriveTurn(wf, q, Null, f)
      BY <2>1 DEF TurnBefore
    <3>2. t \in Transitions
      BY InterpretSound DEF SoundStep
    <3>3. \A w : DriveTurn(wf, q, Null, w) = IF t.status # "running" THEN Stopped(t, q, Null)
                   ELSE Preceded(w[<<n, Consume(wf, q, n, Null)>>], Labelled(q, t.actions))
      BY DEF DriveTurn
    <3> HIDE DEF t
    <3>4. n \in STRING /\ Consume(wf, q, n, Null) = Null
      BY <3>2 DEF Transitions, Resting, Consume
    <3>5. r[<<n, Null>>] = f[<<n, Null>>]
      BY <2>2, <3>4 DEF SameWithout
    <3> QED BY <3>1, <3>3, <3>4, <3>5
  <2> QED BY <2>3 DEF SameWithout
<1> HIDE DEF Same
<1>3. 0 \in Good /\ \A k \in 1..MaxSteps : k - 1 \in Good => k \in Good
  BY <1>1, <1>2
<1> HIDE DEF Good
<1>4. 0..MaxSteps \subseteq Good
  BY <1>3, UpTo
<1>5. Same(i)
  BY <1>4 DEF Good
<1> QED BY <1>5 DEF Same

\* The walk of a tick that answers a call, up to the first step that is neither
\* the call nor the branch it leads to.
LEMMA HopsThenFresh ==
  ASSUME MaxSteps \in Nat, NEW wf, WellFormed(wf), NEW s \in DOMAIN wf, wf[s].kind = "call",
         NEW d, d # Null, NEW hop, hop = CallRoute(wf[s].on, d),
         NEW first, first = IF KindOf(wf, hop) = "branch" THEN BranchRoute(wf[hop].arms, d)
                                                           ELSE hop,
         first # Null, KindOf(wf, first) # "branch", Drive(wf, s, d).status # "throws"
  PROVE  Drive(wf, s, d) = Drive(wf, first, Null)
<1> DEFINE M == MaxSteps
<1>1. PICK walks : Walks(wf, d, walks) /\ Drive(wf, s, d) = walks[M][<<s, d>>]
  BY DriveUnfolds
<1>2. PICK fresh : Walks(wf, Null, fresh) /\ Drive(wf, first, Null) = fresh[M][<<first, Null>>]
  BY DriveUnfolds
<1>3. s \in STRING /\ hop \in STRING /\ first \in STRING /\ hop # Null
  <2>1. hop \in STRING \cup {Null}
    BY LookupType DEF CallRoute, WellFormed
  <2>2. hop # Null
    BY DEF WellFormed, KindOf
  <2>3. CASE KindOf(wf, hop) = "branch"
    <3>1. hop \in DOMAIN wf /\ wf[hop].kind = "branch"
      BY <2>3 DEF KindOf
    <3>2. first \in STRING \cup {Null}
      BY <2>3, <3>1, LookupType DEF BranchRoute, WellFormed
    <3> QED BY <2>1, <2>2, <3>2 DEF WellFormed
  <2>4. CASE KindOf(wf, hop) # "branch"
    BY <2>1, <2>2, <2>4 DEF WellFormed
  <2> QED BY <2>3, <2>4
<1> DEFINE At(k, q, c) == walks[k][<<q, c>>]
\* A walk that ends has a turn left for each step it takes; a step that only
\* routes hands over to the next one with a turn less.
<1>4. ASSUME NEW k \in 0..M, NEW q \in STRING, NEW next \in STRING, next # Null,
             Interpret(wf, q, d) = Transition(<<>>, next, "none", "running"),
             At(k, q, d).status # "throws"
      PROVE  k \in 1..M /\ At(k, q, d) = At(k - 1, next, Consume(wf, q, next, d))
  <2> DEFINE c == Consume(wf, q, next, d)
             rest == walks[k - 1]
             m == k - 1
  <2>1. k # 0
    <3> SUFFICES ASSUME k = 0 PROVE walks[0][<<q, d>>].status = "throws"
      BY <1>4
    <3>1. walks[0] = DriveAt(wf, d, 0, walks[0 - 1])
      BY <1>1 DEF Walks
    <3>2. walks[0][<<q, d>>] = OutOfTurns(q, d)
      BY <3>1 DEF DriveAt
    <3> QED BY <3>2 DEF OutOfTurns
  <2>2. k \in 1..M /\ m \in 0..MaxSteps
    BY <2>1
  <2>3. TurnBefore(wf, d, walks[k], rest)
    BY <1>1, <2>2, WalksTurn
  <2>4. c \in {d, Null}
    BY DEF Consume
  <2>5. SoundWalk(wf, d, next, c, rest[<<next, c>>])
    <3> HIDE DEF m, c
    <3>1. SoundWalk(wf, d, next, c, walks[m][<<next, c>>])
      BY <1>1, <2>2, <2>4, WalksSound
    <3> QED BY <3>1 DEF m
  <2> HIDE DEF rest
  <2>6. walks[k][<<q, d>>] = DriveTurn(wf, q, d, rest)
    BY <2>3 DEF TurnBefore
  <2>7. DriveTurn(wf, q, d, rest) = rest[<<next, c>>]
    BY <1>4, <2>5, HopWalk DEF SoundWalk
  <2> QED BY <2>2, <2>6, <2>7 DEF rest
\* More turns change nothing for a walk that ends.
<1>5. ASSUME NEW k \in 1..M, At(k - 1, first, Null).status # "throws"
      PROVE  At(k, first, Null) = At(k - 1, first, Null)
  <2> DEFINE w == walks[k]
             r == walks[k - 1]
  <2>1. EndsKept(d, r, w)
    BY <1>1, MoreTurns
  <2> HIDE DEF w, r
  <2>2. r[<<first, Null>>].status # "throws" => w[<<first, Null>>] = r[<<first, Null>>]
    BY <1>3, <2>1 DEF EndsKept
  <2> QED BY <1>5, <2>2 DEF w, r
<1>6. At(M, first, Null) = fresh[M][<<first, Null>>]
  <2>1. SameWithout(walks[M], fresh[M])
    <3>1. M \in 0..MaxSteps
      OBVIOUS
    <3> QED BY <1>1, <1>2, <3>1, FreshWalk
  <2> QED BY <1>3, <2>1 DEF SameWithout
<1>7. Interpret(wf, s, d) = Transition(<<>>, hop, "none", "running")
  BY HopSteps
<1>8. M \in 0..M /\ At(M, s, d).status # "throws"
  BY <1>1
<1>9. Drive(wf, s, d) = At(M, s, d)
  BY <1>1
<1> HIDE DEF At
<1>10. M \in 1..M /\ At(M, s, d) = At(M - 1, hop, Consume(wf, s, hop, d))
  BY <1>3, <1>4, <1>7, <1>8
<1>11. CASE KindOf(wf, hop) # "branch"
  <2>1. Consume(wf, s, hop, d) = Null /\ first = hop
    BY <1>11 DEF Consume, KindOf
  <2>2. At(M, first, Null) = At(M - 1, first, Null)
    BY <1>5, <1>8, <1>10, <2>1
  <2> QED BY <1>2, <1>6, <1>9, <1>10, <2>1, <2>2
<1>12. CASE KindOf(wf, hop) = "branch"
  <2>1. /\ Consume(wf, s, hop, d) = d /\ hop \in DOMAIN wf /\ wf[hop].kind = "branch"
        /\ first = BranchRoute(wf[hop].arms, d) /\ Consume(wf, hop, first, d) = Null
    BY <1>12 DEF Consume, KindOf
  <2>2. Interpret(wf, hop, d) = Transition(<<>>, first, "none", "running")
    BY <2>1, HopSteps
  <2> DEFINE m == M - 1
  <2>3. m \in 0..M /\ At(m, hop, d).status # "throws"
    BY <1>8, <1>10, <2>1
  <2>4. m \in 1..M /\ At(m, hop, d) = At(m - 1, first, Null)
    <3> HIDE DEF m
    <3> QED BY <1>3, <1>4, <2>1, <2>2, <2>3
  <2>5. At(m, first, Null) = At(m - 1, first, Null)
    <3> HIDE DEF m
    <3> QED BY <1>5, <2>3, <2>4
  <2>6. At(M, first, Null) = At(M - 1, first, Null)
    BY <1>5, <1>10, <2>3, <2>4, <2>5
  <2> QED BY <1>2, <1>6, <1>9, <1>10, <2>1, <2>4, <2>5, <2>6
<1> QED BY <1>11, <1>12

\* A tick that answers a call makes of the run what it would make of one that
\* had never been answered, from the first step on that is neither the call nor
\* the branch behind it.
THEOREM DispositionStops == Spec => DispositionStopsAtBranch
<1> DEFINE Stops ==
      Wake /\ row.disp # Null /\ KindOf(def, row.step) = "call" =>
        LET hop == CallRoute(def[row.step].on, row.disp)
            first == IF KindOf(def, hop) = "branch"
                     THEN BranchRoute(def[hop].arms, row.disp) ELSE hop
        IN  first # Null /\ KindOf(def, first) # "branch" /\ walk'.status # "throws" =>
                LET fresh == Drive(def, first, Null)
                IN  /\ walk'.status = fresh.status
                    /\ walk'.step = fresh.step
                    /\ walk'.actions = fresh.actions
<1>1. SeqInv => Stops
  <2> SUFFICES ASSUME SeqInv, Wake, row.disp # Null, KindOf(def, row.step) = "call"
               PROVE  LET hop == CallRoute(def[row.step].on, row.disp)
                          first == IF KindOf(def, hop) = "branch"
                                   THEN BranchRoute(def[hop].arms, row.disp) ELSE hop
                      IN  first # Null /\ KindOf(def, first) # "branch"
                            /\ walk'.status # "throws" => walk' = Drive(def, first, Null)
    OBVIOUS
  <2>1. row.step \in DOMAIN def /\ def[row.step].kind = "call"
    BY DEF KindOf
  <2>2. MaxSteps \in Nat /\ WellFormed(def) /\ walk' = Drive(def, row.step, row.disp)
    BY SequenceAssumption DEF Wake, SeqInv
  <2> QED BY <2>1, <2>2, HopsThenFresh
<1>2. SeqInv /\ [Next]_vars => [Stops]_vars
  BY <1>1
<1> QED BY <1>2, SeqAlways, PTL DEF Spec, DispositionStopsAtBranch
=============================================================================
