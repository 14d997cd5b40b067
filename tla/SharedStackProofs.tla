------------------------- MODULE SharedStackProofs -------------------------
(***************************************************************************)
(* The local stack is held by one process at a time, and a release removes *)
(* the releaser's own lock, for any processes, inode numbers and kills.    *)
(*                                                                         *)
(* The argument: a file a process has written and not yet linked is on no  *)
(* other name (MineIsFresh); the lock names its holder while that one runs *)
(* (HolderOwns); two takeovers never claim the same dead lock (OneClaim);  *)
(* and a lock judged dead, as long as it is the lock, is held by nobody    *)
(* (JudgedDead), which a checked claim makes it still be (ClaimHolds).     *)
(***************************************************************************)
EXTENDS SharedStack, TLAPS

MineIsFresh ==
    \A p \in Procs : mine[p] # NoFile =>
        /\ names[mine[p]] = p
        /\ mine[p] # lock
        /\ \A q \in Procs : fd[q] # mine[p] /\ (q # p => mine[q] # mine[p])
        /\ \A j \in Inodes : claims[j] # mine[p]

HolderOwns ==
    \A p \in Procs : Holding(p) => lock # NoFile /\ names[lock] = p

OneClaim ==
    \A p \in Procs : pc[p] \in TakingOver =>
        /\ claims[fd[p]] # NoFile
        /\ \A q \in Procs : q # p /\ pc[q] \in TakingOver => fd[q] # fd[p]

JudgedDead ==
    \A p \in Procs :
        pc[p] \in {"claim", "check", "replace"} /\ lock = fd[p]
          => \A q \in Procs : ~Holding(q)

ClaimHolds ==
    \A p \in Procs :
        /\ pc[p] = "check" /\ claims[fd[p]] = fd[p] => lock = fd[p]
        /\ pc[p] = "replace" => lock = fd[p]

IInv == TypeOK /\ MineIsFresh /\ HolderOwns /\ OneClaim /\ JudgedDead /\ ClaimHolds

\* The types hold in every state (the variables of SharedStack).
LEMMA TypeStep ==
    ASSUME IInv, [Next]_vars
    PROVE  TypeOK'
<1> USE NoFileAssumption DEF IInv, TypeOK, Files, Points, WithMine, WithLockOpen
<1>1. CASE UNCHANGED vars
  BY <1>1 DEF vars
<1>2. ASSUME NEW p \in Procs, WriteMine(p) PROVE TypeOK'
  BY <1>2 DEF WriteMine, InUse
<1>3. ASSUME NEW p \in Procs, LinkMine(p) PROVE TypeOK'
  BY <1>3 DEF LinkMine, TryEnds
<1>4. ASSUME NEW p \in Procs, OpenLock(p) PROVE TypeOK'
  BY <1>4 DEF OpenLock, TryEnds
<1>5. ASSUME NEW p \in Procs, JudgeHolder(p) PROVE TypeOK'
  BY <1>5 DEF JudgeHolder, TryEnds
<1>6. ASSUME NEW p \in Procs, ClaimStale(p) PROVE TypeOK'
  BY <1>6 DEF ClaimStale, TryEnds
<1>7. ASSUME NEW p \in Procs, CheckClaim(p) PROVE TypeOK'
  BY <1>7 DEF CheckClaim, TryEnds
<1>8. ASSUME NEW p \in Procs, ReplaceLock(p) PROVE TypeOK'
  BY <1>8 DEF ReplaceLock
<1>9. ASSUME NEW p \in Procs, RemoveClaim(p) PROVE TypeOK'
  BY <1>9 DEF RemoveClaim, TryEnds
<1>10. ASSUME NEW p \in Procs, Release(p) \/ GiveUp(p) \/ Reborn(p) PROVE TypeOK'
  BY <1>10 DEF Release, GiveUp, Reborn
<1>11. ASSUME NEW p \in Procs, Kill(p) PROVE TypeOK'
  BY <1>11 DEF Kill, TryEnds, TakingOver
<1>. QED
  BY <1>1, <1>2, <1>3, <1>4, <1>5, <1>6, <1>7, <1>8, <1>9, <1>10, <1>11 DEF Next, Try

\* A written file stays on no other name until it is linked (takeLock:60-64).
LEMMA FreshStep ==
    ASSUME IInv, [Next]_vars
    PROVE  MineIsFresh'
<1> USE NoFileAssumption DEF IInv, TypeOK, Files, MineIsFresh
<1>1. CASE UNCHANGED vars
  BY <1>1 DEF vars
<1>2. ASSUME NEW p \in Procs, WriteMine(p) PROVE MineIsFresh'
  BY <1>2 DEF WriteMine, InUse
<1>3. ASSUME NEW p \in Procs, LinkMine(p) PROVE MineIsFresh'
  BY <1>3 DEF LinkMine, TryEnds
<1>4. ASSUME NEW p \in Procs, OpenLock(p) PROVE MineIsFresh'
  BY <1>4 DEF OpenLock, TryEnds
<1>5. ASSUME NEW p \in Procs, JudgeHolder(p) PROVE MineIsFresh'
  BY <1>5 DEF JudgeHolder, TryEnds
<1>6. ASSUME NEW p \in Procs, ClaimStale(p) PROVE MineIsFresh'
  BY <1>6 DEF ClaimStale, TryEnds
<1>7. ASSUME NEW p \in Procs, CheckClaim(p) PROVE MineIsFresh'
  BY <1>7 DEF CheckClaim, TryEnds
<1>8. ASSUME NEW p \in Procs, ReplaceLock(p) PROVE MineIsFresh'
  BY <1>8 DEF ReplaceLock
<1>9. ASSUME NEW p \in Procs, RemoveClaim(p) PROVE MineIsFresh'
  BY <1>9 DEF RemoveClaim, TryEnds
<1>10. ASSUME NEW p \in Procs, Release(p) \/ GiveUp(p) \/ Reborn(p) PROVE MineIsFresh'
  BY <1>10 DEF Release, GiveUp, Reborn
<1>11. ASSUME NEW p \in Procs, Kill(p) PROVE MineIsFresh'
  BY <1>11 DEF Kill, TryEnds
<1>. QED
  BY <1>1, <1>2, <1>3, <1>4, <1>5, <1>6, <1>7, <1>8, <1>9, <1>10, <1>11 DEF Next, Try

\* One process holds the stack: the lock names one process.
LEMMA OwnerIsAlone ==
    ASSUME IInv
    PROVE  OneHolder
BY DEF IInv, HolderOwns, OneHolder

\* The lock names its holder until that one releases it or dies.
LEMMA HolderStep ==
    ASSUME IInv, [Next]_vars
    PROVE  HolderOwns'
<1> USE NoFileAssumption DEF IInv, TypeOK, Files, HolderOwns, Holding
<1>1. CASE UNCHANGED vars
  BY <1>1 DEF vars
<1>2. ASSUME NEW p \in Procs, WriteMine(p) PROVE HolderOwns'
  BY <1>2 DEF WriteMine, InUse
<1>3. ASSUME NEW p \in Procs, LinkMine(p) PROVE HolderOwns'
  BY <1>3 DEF LinkMine, TryEnds, WithMine, MineIsFresh
<1>4. ASSUME NEW p \in Procs, OpenLock(p) \/ JudgeHolder(p) \/ ClaimStale(p) \/ CheckClaim(p)
      PROVE  HolderOwns'
  BY <1>4 DEF OpenLock, JudgeHolder, ClaimStale, CheckClaim, TryEnds
<1>5. ASSUME NEW p \in Procs, ReplaceLock(p) PROVE HolderOwns'
  <2>1. lock = fd[p] /\ \A q \in Procs : ~Holding(q)
    BY <1>5 DEF ReplaceLock, ClaimHolds, JudgedDead
  <2>2. mine[p] # NoFile /\ names[mine[p]] = p
    BY <1>5 DEF ReplaceLock, WithMine, MineIsFresh
  <2>. QED
    BY <1>5, <2>1, <2>2 DEF ReplaceLock
<1>6. ASSUME NEW p \in Procs, RemoveClaim(p) PROVE HolderOwns'
  BY <1>6 DEF RemoveClaim, TryEnds
<1>7. ASSUME NEW p \in Procs, Release(p) PROVE HolderOwns'
  <2>1. \A q \in Procs : Holding(q) => q = p
    BY <1>7, OwnerIsAlone DEF Release, OneHolder
  <2>. QED
    BY <1>7, <2>1 DEF Release
<1>8. ASSUME NEW p \in Procs, GiveUp(p) \/ Reborn(p) \/ Kill(p) PROVE HolderOwns'
  BY <1>8 DEF GiveUp, Reborn, Kill, TryEnds
<1>. QED
  BY <1>1, <1>2, <1>3, <1>4, <1>5, <1>6, <1>7, <1>8 DEF Next, Try

\* A claim is one waiter's until that one removes it (takeLock:79-91).
LEMMA ClaimStep ==
    ASSUME IInv, [Next]_vars
    PROVE  OneClaim'
<1> USE NoFileAssumption DEF IInv, TypeOK, Files, OneClaim, TakingOver, WithLockOpen
<1>1. CASE UNCHANGED vars
  BY <1>1 DEF vars
<1>2. ASSUME NEW p \in Procs, WriteMine(p) \/ LinkMine(p) \/ OpenLock(p) \/ JudgeHolder(p)
      PROVE  OneClaim'
  BY <1>2 DEF WriteMine, LinkMine, OpenLock, JudgeHolder, TryEnds
<1>3. ASSUME NEW p \in Procs, ClaimStale(p) PROVE OneClaim'
  BY <1>3 DEF ClaimStale, TryEnds
<1>4. ASSUME NEW p \in Procs, CheckClaim(p) PROVE OneClaim'
  BY <1>4 DEF CheckClaim, TryEnds
<1>5. ASSUME NEW p \in Procs, ReplaceLock(p) PROVE OneClaim'
  BY <1>5 DEF ReplaceLock
<1>6. ASSUME NEW p \in Procs, RemoveClaim(p) PROVE OneClaim'
  BY <1>6 DEF RemoveClaim, TryEnds
<1>7. ASSUME NEW p \in Procs, Release(p) \/ GiveUp(p) \/ Reborn(p) \/ Kill(p) PROVE OneClaim'
  BY <1>7 DEF Release, GiveUp, Reborn, Kill, TryEnds
<1>. QED
  BY <1>1, <1>2, <1>3, <1>4, <1>5, <1>6, <1>7 DEF Next, Try

\* A lock judged dead is held by nobody as long as it is the lock: only a
\* file nobody has open can become it.
LEMMA DeadStep ==
    ASSUME IInv, [Next]_vars
    PROVE  JudgedDead'
<1> USE NoFileAssumption DEF IInv, TypeOK, Files, JudgedDead, Holding, WithLockOpen
<1>1. CASE UNCHANGED vars
  BY <1>1 DEF vars
<1>2. ASSUME NEW p \in Procs, WriteMine(p) PROVE JudgedDead'
  BY <1>2 DEF WriteMine
<1>3. ASSUME NEW p \in Procs, LinkMine(p) PROVE JudgedDead'
  BY <1>3 DEF LinkMine, TryEnds, WithMine, MineIsFresh
<1>4. ASSUME NEW p \in Procs, OpenLock(p) PROVE JudgedDead'
  BY <1>4 DEF OpenLock, TryEnds
<1>5. ASSUME NEW p \in Procs, JudgeHolder(p) PROVE JudgedDead'
  BY <1>5 DEF JudgeHolder, TryEnds, Alive, HolderOwns
<1>6. ASSUME NEW p \in Procs, ClaimStale(p) \/ CheckClaim(p) PROVE JudgedDead'
  BY <1>6 DEF ClaimStale, CheckClaim, TryEnds
<1>7. ASSUME NEW p \in Procs, ReplaceLock(p) PROVE JudgedDead'
  BY <1>7 DEF ReplaceLock, WithMine, MineIsFresh
<1>8. ASSUME NEW p \in Procs, RemoveClaim(p) PROVE JudgedDead'
  BY <1>8 DEF RemoveClaim, TryEnds
<1>9. ASSUME NEW p \in Procs, Release(p) \/ GiveUp(p) \/ Reborn(p) \/ Kill(p) PROVE JudgedDead'
  BY <1>9 DEF Release, GiveUp, Reborn, Kill, TryEnds
<1>. QED
  BY <1>1, <1>2, <1>3, <1>4, <1>5, <1>6, <1>7, <1>8, <1>9 DEF Next, Try

\* Between a claim that links the judged file and the replacement, that file
\* stays the lock: it has no holder to release it and no other claimant.
LEMMA LinkStep ==
    ASSUME IInv, [Next]_vars
    PROVE  ClaimHolds'
<1> USE NoFileAssumption DEF IInv, TypeOK, Files, ClaimHolds, TakingOver, WithLockOpen
<1>1. CASE UNCHANGED vars
  BY <1>1 DEF vars
<1>2. ASSUME NEW p \in Procs, WriteMine(p) \/ OpenLock(p) \/ JudgeHolder(p) PROVE ClaimHolds'
  BY <1>2 DEF WriteMine, OpenLock, JudgeHolder, TryEnds
<1>3. ASSUME NEW p \in Procs, LinkMine(p) PROVE ClaimHolds'
  BY <1>3 DEF LinkMine, TryEnds
<1>4. ASSUME NEW p \in Procs, ClaimStale(p) PROVE ClaimHolds'
  BY <1>4 DEF ClaimStale, TryEnds, OneClaim
<1>5. ASSUME NEW p \in Procs, CheckClaim(p) PROVE ClaimHolds'
  BY <1>5 DEF CheckClaim, TryEnds, OneClaim
<1>6. ASSUME NEW p \in Procs, ReplaceLock(p) PROVE ClaimHolds'
  BY <1>6 DEF ReplaceLock, OneClaim
<1>7. ASSUME NEW p \in Procs, RemoveClaim(p) PROVE ClaimHolds'
  BY <1>7 DEF RemoveClaim, TryEnds, OneClaim
<1>8. ASSUME NEW p \in Procs, Release(p) PROVE ClaimHolds'
  BY <1>8 DEF Release, JudgedDead, Holding
<1>9. ASSUME NEW p \in Procs, GiveUp(p) \/ Reborn(p) \/ Kill(p) PROVE ClaimHolds'
  BY <1>9 DEF GiveUp, Reborn, Kill, TryEnds
<1>. QED
  BY <1>1, <1>2, <1>3, <1>4, <1>5, <1>6, <1>7, <1>8, <1>9 DEF Next, Try

LEMMA InitHolds == Init => IInv
BY NoFileAssumption
   DEF Init, IInv, TypeOK, Files, Points, WithMine, WithLockOpen, MineIsFresh,
       HolderOwns, Holding, OneClaim, TakingOver, JudgedDead, ClaimHolds

LEMMA StepHolds ==
    ASSUME IInv, [Next]_vars
    PROVE  IInv'
BY TypeStep, FreshStep, HolderStep, ClaimStep, DeadStep, LinkStep DEF IInv

LEMMA StackInvariant == Spec => []IInv
<1>1. IInv /\ [Next]_vars => IInv'
  BY StepHolds
<1>. QED
  BY InitHolds, <1>1, PTL DEF Spec

\* Types of the lock's files and of the processes at it, for any processes,
\* inode numbers and kills.
THEOREM StackTypes == Spec => []TypeOK
<1>1. IInv => TypeOK
  BY DEF IInv
<1>. QED
  BY StackInvariant, <1>1, PTL

\* One process at a time holds the local stack, whichever calls the others
\* are at, wherever processes are killed and whatever numbers come back.
THEOREM StackHeldByOne == Spec => []OneHolder
<1>1. IInv => OneHolder
  BY OwnerIsAlone
<1>. QED
  BY StackInvariant, <1>1, PTL

\* A release, which removes the file at the lock's path unread
\* (shared-stack.ts:48), removes the releaser's own.
THEOREM ReleasesItsOwn ==
    Spec => [][\A p \in Procs : Release(p) => names[lock] = p]_vars
<1>1. IInv /\ [Next]_vars => [\A p \in Procs : Release(p) => names[lock] = p]_vars
  BY DEF IInv, HolderOwns, Holding, Release
<1>. QED
  BY StackInvariant, <1>1, PTL DEF Spec
=============================================================================
