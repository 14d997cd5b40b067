--------------------------- MODULE AgentTurnProofs ---------------------------
(***************************************************************************)
(* Proofs about AgentTurn, for any jobs, workers, rounds, calls and bounds:*)
(* its types, that no line of the contact is passed over, that two turns   *)
(* that write have a line between them, that a completed job's lines are   *)
(* answered, that sends are on record, and that tasks and audit rows match *)
(* the messages.                                                           *)
(*                                                                         *)
(* IInv ties the draft of the turn that holds the conversation to the      *)
(* committed messages: while it holds the row nobody files a line, so the  *)
(* last line is still the one it read, and still unanswered.  FullInv adds *)
(* the tries of the jobs, so that a send belongs to one turn.              *)
(***************************************************************************)
EXTENDS AgentTurn, FiniteSetTheorems, SequenceTheorems, WellFoundedInduction, TLAPS

-----------------------------------------------------------------------------
(* The highest place of a set.                                             *)

\* A set of places of a sequence that is not empty has a highest one.
LEMMA HighestExists ==
  ASSUME NEW n \in Nat, NEW S \in SUBSET (1..n), S # {}
  PROVE  \E m \in S : Later(m, S)
<1> DEFINE T == {i \in 0..n : (n - i) \in S}
<1>1. T \in SUBSET Nat
  OBVIOUS
<1>2. T # {}
  <2>1. PICK k \in S : k \in 1..n
    OBVIOUS
  <2>2. n - k \in 0..n /\ n - (n - k) = k
    BY <2>1
  <2> QED BY <2>1, <2>2
<1>3. PICK m \in T : \A i \in T : ~ (<<i, m>> \in OpToRel(<, Nat))
  <2> HIDE DEF T
  <2> QED BY <1>1, <1>2, NatLessThanWellFounded, WFMin
<1>4. \A i \in T : m <= i
  <2> TAKE i \in T
  <2>1. i \in Nat /\ m \in Nat
    BY <1>1, <1>3
  <2>2. ~ (<<i, m>> \in OpToRel(<, Nat))
    BY <1>3
  <2>3. ~ (i < m)
    <3> HIDE DEF T
    <3> QED BY <2>1, <2>2 DEF OpToRel
  <2> QED BY <2>1, <2>3
<1>5. n - m \in S /\ m \in 0..n
  BY <1>3
<1>6. \A k \in S : k <= n - m
  <2> TAKE k \in S
  <2>1. k \in 1..n
    OBVIOUS
  <2>2. n - k \in 0..n /\ n - (n - k) = k
    BY <2>1
  <2>3. n - k \in T
    BY <2>2
  <2> QED BY <1>4, <1>5, <2>1, <2>2, <2>3
<1> QED BY <1>5, <1>6 DEF Later

LEMMA LastIsHighest ==
  ASSUME NEW n \in Nat, NEW S \in SUBSET (1..n)
  PROVE  /\ Last(S) \in 0..n
         /\ S # {} => Last(S) \in S
         /\ \A k \in S : k <= Last(S)
<1>1. CASE S = {}
  BY <1>1 DEF Last
<1>2. CASE S # {}
  <2>1. \E m \in S : Later(m, S)
    BY <1>2, HighestExists
  <2>2. Last(S) \in S /\ Later(Last(S), S)
    BY <1>2, <2>1 DEF Last
  <2>3. Last(S) \in 1..n
    BY <2>2
  <2> QED BY <2>2, <2>3 DEF Later
<1> QED BY <1>1, <1>2

LEMMA PlacesInRange ==
  ASSUME NEW s \in Seq(Message), NEW roles
  PROVE  Places(s, roles) \in SUBSET (1..Len(s)) /\ Len(s) \in Nat
BY DEF Places

\* What is appended that is no line leaves the last line where it was.
LEMMA LastLineKept ==
  ASSUME NEW s \in Seq(Message), NEW d \in Seq(Message),
         \A i \in DOMAIN d : d[i].role # "contact"
  PROVE  LastLine(s \o d) = LastLine(s)
<1>1. \A i \in DOMAIN (s \o d) : (s \o d)[i] = IF i <= Len(s) THEN s[i] ELSE d[i - Len(s)]
  OBVIOUS
<1>2. DOMAIN (s \o d) = 1..(Len(s) + Len(d)) /\ DOMAIN s = 1..Len(s) /\ DOMAIN d = 1..Len(d)
  OBVIOUS
<1>3. ASSUME NEW i \in DOMAIN (s \o d), i > Len(s)
      PROVE  (s \o d)[i].role # "contact"
  <2>1. i - Len(s) \in DOMAIN d
    BY <1>2, <1>3
  <2> QED BY <1>1, <1>3, <2>1
<1>4. Places(s \o d, {"contact"}) = Places(s, {"contact"})
  BY <1>1, <1>2, <1>3 DEF Places
<1> QED BY <1>4 DEF LastLine

-----------------------------------------------------------------------------
(* The invariant.                                                          *)

Holding(worker) == worker.pc \in {"asking", "calling", "closing"}

\* A worker's record against the committed messages s.
Sound(worker, s) ==
    /\ worker.pc # "idle" => worker.job \in Jobs
    /\ worker.pc = "calling" => worker.calls > 0
    /\ ~Holding(worker) => worker.draft = <<>>
    /\ Holding(worker) => Pending(s) /\ worker.saw = LastLine(s)
    /\ \A i \in DOMAIN worker.draft : /\ worker.draft[i].role \in {"agent", "tool"}
                                      /\ worker.draft[i].turn = TurnOf(worker)
                                      /\ worker.draft[i].saw = worker.saw

\* One turn holds the conversation.
OneHolds == \A w \in Workers : Holding(workers[w]) <=> lock = w

AllSound == \A w \in Workers : Sound(workers[w], msgs)

\* What a turn wrote is no line.
TurnsWriteNoLines == \A i \in DOMAIN msgs : msgs[i].turn # NoTx => msgs[i].role \in {"agent", "tool"}

IInv == /\ TypeOK /\ OneHolds /\ AllSound /\ TurnsWriteNoLines
        /\ NoLinePassedOver /\ TurnsAnswerLines

LEMMA IdleIsSound ==
  ASSUME NEW s PROVE IdleWorker \in Worker /\ Sound(IdleWorker, s) /\ ~Holding(IdleWorker)
BY DEF IdleWorker, Worker, Sound, Holding, NoRows, Rows

LEMMA InitInv == Init => IInv
<1> SUFFICES ASSUME Init PROVE IInv
  OBVIOUS
<1>1. TypeOK
  BY IdleIsSound DEF Init, TypeOK, NoRows, Rows, Job
<1>2. OneHolds
  BY IdleIsSound, TurnAssumption DEF Init, OneHolds
<1>3. AllSound
  BY IdleIsSound DEF Init, AllSound
<1>4. TurnsWriteNoLines /\ NoLinePassedOver /\ TurnsAnswerLines
  BY DEF Init, TurnsWriteNoLines, NoLinePassedOver, TurnsAnswerLines
<1> QED BY <1>1, <1>2, <1>3, <1>4 DEF IInv

\* A step of one worker that commits no message.
LEMMA WorkerMoves ==
  ASSUME IInv, NEW w \in Workers, NEW x \in Worker,
         workers' = [workers EXCEPT ![w] = x], Sound(x, msgs),
         Holding(x) <=> lock' = w,
         lock' = lock \/ (lock \in {w, NoTx} /\ lock' \in {w, NoTx}),
         agent' = agent, msgs' = msgs, rows' \in Rows, jobs' \in [Jobs -> Job],
         sent' \in SUBSET [turn : Turns, saw : Nat], silent' \in Nat, faults' \in Nat
  PROVE  IInv'
<1>1. TypeOK'
  BY DEF IInv, TypeOK
<1>2. \A v \in Workers : workers'[v] = IF v = w THEN x ELSE workers[v]
  BY DEF IInv, TypeOK
<1>3. OneHolds'
  <2> SUFFICES ASSUME NEW v \in Workers PROVE Holding(workers'[v]) <=> lock' = v
    BY DEF OneHolds
  <2>1. CASE v = w
    BY <1>2, <2>1
  <2>2. CASE v # w
    BY <1>2, <2>2, TurnAssumption DEF IInv, OneHolds
  <2> QED BY <2>1, <2>2
<1>4. AllSound'
  BY <1>2 DEF IInv, AllSound
<1>5. TurnsWriteNoLines' /\ NoLinePassedOver' /\ TurnsAnswerLines'
  BY DEF IInv, TurnsWriteNoLines, NoLinePassedOver, TurnsAnswerLines
<1> QED BY <1>1, <1>3, <1>4, <1>5 DEF IInv

-----------------------------------------------------------------------------
(* The steps.                                                              *)

LEMMA WorkerType ==
  ASSUME IInv, NEW w \in Workers
  PROVE  workers[w] \in Worker /\ Sound(workers[w], msgs) /\ msgs \in Seq(Message)
BY DEF IInv, TypeOK, AllSound

\* The context a round of the turn assembles.
LEMMA AskingIsSound ==
  ASSUME NEW worker \in Worker, worker.pc # "idle", worker.job \in Jobs, msgs \in Seq(Message),
         Pending(msgs), NEW round \in Nat,
         worker.draft # <<>> => worker.saw = LastLine(msgs),
         \A i \in DOMAIN worker.draft : /\ worker.draft[i].role \in {"agent", "tool"}
                                        /\ worker.draft[i].turn = TurnOf(worker)
                                        /\ worker.draft[i].saw = worker.saw
  PROVE  LET x == Asking(worker, round) IN x \in Worker /\ Sound(x, msgs) /\ Holding(x)
<1> DEFINE x == Asking(worker, round)
<1>1. worker.draft \in Seq(Message)
  BY DEF Worker
<1>2. LastLine(msgs \o worker.draft) = LastLine(msgs)
  BY <1>1, LastLineKept
<1>3. LastLine(msgs) \in Nat
  BY PlacesInRange, LastIsHighest DEF LastLine
<1>4. x = [worker EXCEPT !.pc = "asking", !.round = round, !.saw = LastLine(msgs)]
  BY <1>2 DEF Asking
<1>5. x \in Worker
  BY <1>3, <1>4 DEF Worker
<1>6. /\ x.pc = "asking" /\ x.saw = LastLine(msgs) /\ x.draft = worker.draft
      /\ x.job = worker.job /\ x.try = worker.try
  BY <1>4 DEF Worker
<1>7. TurnOf(x) = TurnOf(worker)
  BY <1>6 DEF TurnOf
<1>8. \A i \in DOMAIN x.draft : /\ x.draft[i].role \in {"agent", "tool"}
                                /\ x.draft[i].turn = TurnOf(x)
                                /\ x.draft[i].saw = x.saw
  BY <1>1, <1>6, <1>7
<1> QED BY <1>5, <1>6, <1>8 DEF Sound, Holding

\* A message a turn appends to its draft.
LEMMA WritesSoundly ==
  ASSUME NEW worker \in Worker, worker.job \in Jobs, NEW role \in {"agent", "tool"},
         NEW fate \in Fates \cup {"none"},
         \A i \in DOMAIN worker.draft : /\ worker.draft[i].role \in {"agent", "tool"}
                                        /\ worker.draft[i].turn = TurnOf(worker)
                                        /\ worker.draft[i].saw = worker.saw
  PROVE  LET d == Append(worker.draft, Written(worker, role, fate)) IN
         /\ d \in Seq(Message) /\ d # <<>>
         /\ \A i \in DOMAIN d : /\ d[i].role \in {"agent", "tool"}
                                 /\ d[i].turn = TurnOf(worker) /\ d[i].saw = worker.saw
<1> DEFINE m == Written(worker, role, fate)
<1>1. m \in Message /\ m.role = role /\ m.turn = TurnOf(worker) /\ m.saw = worker.saw
  BY DEF Written, Message, TurnOf, Turns, Worker
<1>2. worker.draft \in Seq(Message)
  BY DEF Worker
<1> HIDE DEF m
<1>3. /\ Append(worker.draft, m) \in Seq(Message) /\ Append(worker.draft, m) # <<>>
      /\ \A i \in DOMAIN Append(worker.draft, m) :
           Append(worker.draft, m)[i] = m \/ (i \in DOMAIN worker.draft
                                             /\ Append(worker.draft, m)[i] = worker.draft[i])
  BY <1>1, <1>2
<1> QED BY <1>1, <1>3 DEF m

LEMMA FetchKeeps == ASSUME IInv, NEW w \in Workers, NEW j \in Jobs, Fetch(w, j) PROVE IInv'
<1> DEFINE x == [IdleWorker EXCEPT !.pc = "fetched", !.job = j, !.try = jobs[j].tries + 1]
<1>0. jobs[j].tries + 1 \in Nat
  BY DEF IInv, TypeOK, Job
<1>1. x \in Worker /\ Sound(x, msgs) /\ ~Holding(x)
  <2>1. x \in Worker
    <3> DEFINE t == jobs[j].tries + 1
    <3> HIDE DEF t
    <3>1. t \in Nat
      BY <1>0 DEF t
    <3>2. [IdleWorker EXCEPT !.pc = "fetched", !.job = j, !.try = t] \in Worker
      BY <3>1, IdleIsSound DEF Worker
    <3> QED BY <3>2 DEF t
  <2>2. x.pc = "fetched" /\ x.draft = <<>> /\ x.job = j
    BY DEF IdleWorker
  <2> HIDE DEF x
  <2> QED BY <2>1, <2>2 DEF Sound, Holding
<1>2. jobs' \in [Jobs -> Job]
  BY DEF Fetch, IInv, TypeOK, Job
<1>3. lock' # w
  BY DEF Fetch, IInv, OneHolds, Holding
<1> QED BY <1>1, <1>2, <1>3, WorkerMoves DEF Fetch, IInv, TypeOK

LEMMA OpenKeeps == ASSUME IInv, NEW w \in Workers, Open(w) PROVE IInv'
<1>1. CASE Pending(msgs) /\ agent
  <2>1. Asking(workers[w], 1) \in Worker /\ Sound(Asking(workers[w], 1), msgs)
        /\ Holding(Asking(workers[w], 1))
    BY <1>1, WorkerType, AskingIsSound DEF Open, Sound, Holding
  <2> QED BY <1>1, <2>1, WorkerMoves DEF Open, IInv, TypeOK
<1>2. CASE ~(Pending(msgs) /\ agent)
  <2> DEFINE x == [workers[w] EXCEPT !.pc = "done"]
  <2>1. x \in Worker /\ Sound(x, msgs) /\ ~Holding(x)
    BY WorkerType DEF Open, Worker, Sound, Holding, TurnOf
  <2>2. workers' = [workers EXCEPT ![w] = x] /\ lock' = lock /\ lock # w
    BY <1>2, TurnAssumption DEF Open
  <2> QED BY <2>1, <2>2, WorkerMoves DEF Open, IInv, TypeOK
<1> QED BY <1>1, <1>2

LEMMA AnswerKeeps ==
  ASSUME IInv, NEW w \in Workers,
         (\E n \in 1..MaxCalls : AnswerTools(w, n)) \/ AnswerText(w) \/ AnswerNothing(w)
  PROVE  IInv'
<1> USE WorkerType
<1>1. ASSUME NEW n \in 1..MaxCalls, AnswerTools(w, n) PROVE IInv'
  <2> DEFINE x == [workers[w] EXCEPT !.pc = "calling", !.calls = n]
  <2>1. x \in Worker /\ Sound(x, msgs) /\ Holding(x)
    <3>1. n \in Nat /\ n > 0
      BY <1>1, TurnAssumption
    <3>2. x \in Worker
      BY <3>1 DEF Worker
    <3> QED BY <1>1, <3>1, <3>2 DEF AnswerTools, Worker, Sound, Holding, TurnOf
  <2>2. workers' = [workers EXCEPT ![w] = x]
    BY <1>1 DEF AnswerTools
  <2>3. lock' = w
    BY <1>1 DEF AnswerTools, IInv, OneHolds, Holding
  <2> QED BY <1>1, <2>1, <2>2, <2>3, WorkerMoves DEF AnswerTools, IInv, TypeOK
<1>2. ASSUME AnswerText(w) PROVE IInv'
  <2> DEFINE d == Append(workers[w].draft, Written(workers[w], "agent", "none"))
             x == [workers[w] EXCEPT !.pc = "closing", !.draft = d]
  <2>1. workers[w].job \in Jobs
    BY <1>2 DEF AnswerText, Sound
  <2>2. /\ d \in Seq(Message)
        /\ \A i \in DOMAIN d : /\ d[i].role \in {"agent", "tool"}
                                /\ d[i].turn = TurnOf(workers[w]) /\ d[i].saw = workers[w].saw
    <3>1. workers[w] \in Worker /\ Sound(workers[w], msgs)
      BY WorkerType
    <3>2. \A i \in DOMAIN workers[w].draft :
            /\ workers[w].draft[i].role \in {"agent", "tool"}
            /\ workers[w].draft[i].turn = TurnOf(workers[w])
            /\ workers[w].draft[i].saw = workers[w].saw
      BY <3>1 DEF Sound
    <3>3. "agent" \in {"agent", "tool"} /\ "none" \in Fates \cup {"none"}
      OBVIOUS
    <3> QED BY <2>1, <3>1, <3>2, <3>3, WritesSoundly
  <2> HIDE DEF d
  <2>3. x \in Worker /\ Sound(x, msgs) /\ Holding(x)
    BY <1>2, <2>2 DEF AnswerText, Worker, Sound, Holding, TurnOf
  <2>4. workers' = [workers EXCEPT ![w] = x]
    BY <1>2 DEF AnswerText, d
  <2>5. lock' = w
    BY <1>2 DEF AnswerText, IInv, OneHolds, Holding
  <2> QED BY <1>2, <2>3, <2>4, <2>5, WorkerMoves DEF AnswerText, IInv, TypeOK
<1>3. ASSUME AnswerNothing(w) PROVE IInv'
  <2> DEFINE x == [workers[w] EXCEPT !.pc = "closing"]
  <2>1. x \in Worker /\ Sound(x, msgs) /\ Holding(x)
    BY <1>3 DEF AnswerNothing, Worker, Sound, Holding, TurnOf
  <2>2. workers' = [workers EXCEPT ![w] = x]
    BY <1>3 DEF AnswerNothing
  <2>3. lock' = w
    BY <1>3 DEF AnswerNothing, IInv, OneHolds, Holding
  <2> QED BY <1>3, <2>1, <2>2, <2>3, WorkerMoves DEF AnswerNothing, IInv, TypeOK
<1> QED BY <1>1, <1>2, <1>3

LEMMA CallKeeps == ASSUME IInv, NEW w \in Workers, NEW fate \in Fates, Call(w, fate) PROVE IInv'
<1> DEFINE worker == workers[w]
           d == Append(worker.draft, Written(worker, "tool", fate))
           r == RowsAfter(worker.rows, fate)
           c == worker.calls - 1
           called == [worker EXCEPT !.calls = c, !.rows = r, !.draft = d]
           x == IF called.calls > 0 THEN called ELSE NextRound(called)
<1>1. worker \in Worker /\ Sound(worker, msgs) /\ worker.pc = "calling" /\ msgs \in Seq(Message)
  BY WorkerType DEF Call
<1>2. worker.job \in Jobs /\ worker.calls \in Nat /\ worker.calls > 0
  BY <1>1 DEF Sound, Worker
<1>3. /\ d \in Seq(Message) /\ d # <<>>
      /\ \A i \in DOMAIN d : /\ d[i].role \in {"agent", "tool"}
                              /\ d[i].turn = TurnOf(worker) /\ d[i].saw = worker.saw
  <2>1. "tool" \in {"agent", "tool"} /\ fate \in Fates \cup {"none"}
    OBVIOUS
  <2>2. \A i \in DOMAIN worker.draft :
          /\ worker.draft[i].role \in {"agent", "tool"}
          /\ worker.draft[i].turn = TurnOf(worker) /\ worker.draft[i].saw = worker.saw
    BY <1>1 DEF Sound
  <2> HIDE DEF worker
  <2> QED BY <1>1, <1>2, <2>1, <2>2, WritesSoundly
<1>4. r \in Rows /\ c \in Nat
  BY <1>1, <1>2 DEF RowsAfter, Rows, Worker
<1>5. workers' = [workers EXCEPT ![w] = x]
  BY DEF Call
<1>6. sent' \in SUBSET [turn : Turns, saw : Nat]
  BY <1>1, <1>2 DEF Call, IInv, TypeOK, TurnOf, Turns, Worker
<1>7. Pending(msgs) /\ worker.saw = LastLine(msgs) /\ lock = w
  BY <1>1 DEF Sound, Holding, IInv, OneHolds
<1> HIDE DEF d, r, c, worker
<1>8. called \in Worker
  BY <1>1, <1>3, <1>4 DEF Worker
<1>9. /\ called.pc = "calling" /\ called.calls = c /\ called.draft = d
      /\ called.job = worker.job /\ called.try = worker.try /\ called.saw = worker.saw
      /\ called.round \in Nat
  BY <1>1, <1>8 DEF Worker
<1> HIDE DEF called
<1>10. TurnOf(called) = TurnOf(worker)
  BY <1>9 DEF TurnOf
<1>11. x \in Worker /\ Sound(x, msgs) /\ Holding(x)
  <2>1. CASE called.calls > 0
    BY <1>2, <1>3, <1>7, <1>8, <1>9, <1>10, <2>1 DEF Sound, Holding
  <2>2. CASE ~(called.calls > 0) /\ called.round < MaxRounds
    <3>1. x = Asking(called, called.round + 1) /\ called.round + 1 \in Nat
      BY <1>9, <2>2 DEF NextRound
    <3>2. \A i \in DOMAIN called.draft :
            /\ called.draft[i].role \in {"agent", "tool"}
            /\ called.draft[i].turn = TurnOf(called) /\ called.draft[i].saw = called.saw
      BY <1>3, <1>9, <1>10
    <3> QED BY <1>1, <1>2, <1>7, <1>8, <1>9, <3>1, <3>2, AskingIsSound
  <2>3. CASE ~(called.calls > 0) /\ ~(called.round < MaxRounds)
    <3> DEFINE y == [called EXCEPT !.pc = "closing"]
    <3>1. x = y
      BY <2>3 DEF NextRound
    <3>2. /\ y \in Worker /\ y.pc = "closing" /\ y.draft = d /\ y.saw = called.saw
          /\ y.job = called.job /\ y.try = called.try
      BY <1>8, <1>9 DEF Worker
    <3> HIDE DEF y, x
    <3>3. TurnOf(y) = TurnOf(worker)
      BY <1>10, <3>2 DEF TurnOf
    <3> QED BY <1>2, <1>3, <1>7, <1>9, <3>1, <3>2, <3>3 DEF Sound, Holding
  <2> QED BY <2>1, <2>2, <2>3
<1> HIDE DEF x
<1> QED BY <1>5, <1>6, <1>7, <1>11, WorkerMoves DEF Call, IInv, TypeOK

LEMMA FailedTryType == ASSUME NEW job \in Job PROVE FailedTry(job) \in Job
BY DEF FailedTry, Job

LEMMA FailsType ==
  ASSUME jobs \in [Jobs -> Job], NEW j \in Jobs
  PROVE  [jobs EXCEPT ![j] = FailedTry(@)] \in [Jobs -> Job]
BY FailedTryType

\* A worker that gives up, dies or returns.
LEMMA LeavesKeeps ==
  ASSUME IInv, NEW w \in Workers, Finish(w) \/ Throw(w) \/ Crash(w)
  PROVE  IInv'
<1>1. IdleWorker \in Worker /\ Sound(IdleWorker, msgs) /\ ~Holding(IdleWorker)
  BY IdleIsSound
<1>2. workers' = [workers EXCEPT ![w] = IdleWorker]
  BY DEF Finish, Throw, Crash
<1>3. jobs' \in [Jobs -> Job]
  <2>1. jobs \in [Jobs -> Job]
    BY DEF IInv, TypeOK
  <2>2. CASE Finish(w)
    <3>1. Current(w) => workers[w].job \in Jobs
      BY WorkerType DEF Current, Sound
    <3>2. ASSUME NEW j \in Jobs PROVE [jobs EXCEPT ![j].state = "completed"] \in [Jobs -> Job]
      BY <2>1 DEF Job
    <3> QED BY <2>1, <2>2, <3>1, <3>2 DEF Finish
  <2>3. CASE Throw(w)
    <3>1. Current(w) => workers[w].job \in Jobs
      BY WorkerType DEF Current, Sound
    <3> QED BY <2>1, <2>3, <3>1, FailsType DEF Throw
  <2>4. CASE Crash(w)
    BY <2>1, <2>4 DEF Crash
  <2> QED BY <2>2, <2>3, <2>4
<1>4. lock' # w /\ (lock' = lock \/ (lock = w /\ lock' = NoTx))
  BY TurnAssumption DEF Finish, Throw, Crash, Freed, IInv, OneHolds, Holding
<1>5. faults' \in Nat
  BY DEF Finish, Throw, Crash, Fault, IInv, TypeOK
<1>6. /\ agent' = agent /\ msgs' = msgs /\ rows' = rows /\ sent' = sent /\ silent' = silent
  BY DEF Finish, Throw, Crash
<1> QED BY <1>1, <1>2, <1>3, <1>4, <1>5, <1>6, WorkerMoves DEF IInv, TypeOK

\* pg-boss's own steps leave the conversation and its turns alone.
LEMMA JobsKeep ==
  ASSUME IInv, NEW j \in Jobs, Enqueue(j) \/ Expire(j) \/ ExpireSlow(j)
  PROVE  IInv'
<1>1. LastLine(msgs) \in Nat
  BY PlacesInRange, LastIsHighest DEF LastLine, IInv, TypeOK
<1>2. jobs' \in [Jobs -> Job] /\ faults' \in Nat
  <2>1. jobs \in [Jobs -> Job] /\ faults \in Nat
    BY DEF IInv, TypeOK
  <2>2. CASE Enqueue(j)
    BY <1>1, <2>1, <2>2 DEF Enqueue, Job
  <2>3. CASE Expire(j) \/ ExpireSlow(j)
    BY <2>1, <2>3, FailsType DEF Expire, ExpireSlow, Fault
  <2> QED BY <2>2, <2>3
<1>3. UNCHANGED <<agent, msgs, lock, rows, workers, sent, silent>>
  BY DEF Enqueue, Expire, ExpireSlow
<1> QED BY <1>2, <1>3 DEF IInv, TypeOK, OneHolds, AllSound, TurnsWriteNoLines,
                          NoLinePassedOver, TurnsAnswerLines

\* Lines are filed only while no turn holds the conversation.
LEMMA FileLineKeeps ==
  ASSUME IInv, NEW role \in {"contact", "agent"}, FileLine(role)
  PROVE  IInv'
<1> DEFINE m == Line(role)
           n == Len(msgs)
<1>1. m \in Message /\ m.turn = NoTx
  BY DEF Line, Message
<1>2. msgs \in Seq(Message) /\ n \in Nat
  BY DEF IInv, TypeOK
<1> HIDE DEF m
<1>3. /\ msgs' \in Seq(Message) /\ DOMAIN msgs' = 1..(n + 1) /\ DOMAIN msgs = 1..n
      /\ \A i \in 1..n : msgs'[i] = msgs[i]
      /\ msgs'[n + 1] = m
  BY <1>1, <1>2 DEF FileLine, m
<1>4. TypeOK'
  BY <1>3 DEF FileLine, IInv, TypeOK
<1>5. OneHolds' /\ \A w \in Workers : ~Holding(workers[w])
  BY TurnAssumption DEF FileLine, IInv, OneHolds
<1>6. AllSound'
  <2> SUFFICES ASSUME NEW w \in Workers PROVE Sound(workers[w], msgs')
    BY DEF AllSound, FileLine
  <2> QED BY <1>5, WorkerType DEF Sound
<1>7. TurnsWriteNoLines'
  BY <1>1, <1>3 DEF IInv, TurnsWriteNoLines
<1>8. NoLinePassedOver'
  <2> SUFFICES ASSUME NEW i \in DOMAIN msgs', msgs'[i].turn # NoTx,
                      NEW k \in 1..(i - 1), msgs'[k].role = "contact"
               PROVE  k <= msgs'[i].saw
    BY DEF NoLinePassedOver
  <2>1. i \in 1..n /\ k \in 1..n
    BY <1>1, <1>2, <1>3
  <2> QED BY <1>3, <2>1 DEF IInv, NoLinePassedOver
<1>9. TurnsAnswerLines'
  <2> SUFFICES ASSUME NEW i \in DOMAIN msgs', NEW k \in DOMAIN msgs',
                      i < k, msgs'[i].turn # NoTx, msgs'[k].turn # NoTx,
                      msgs'[i].turn # msgs'[k].turn
               PROVE  \E l \in i..k : msgs'[l].role = "contact"
    BY DEF TurnsAnswerLines
  <2>1. i \in 1..n /\ k \in 1..n
    BY <1>1, <1>2, <1>3
  <2>2. PICK l \in i..k : msgs[l].role = "contact"
    BY <1>3, <2>1 DEF IInv, TurnsAnswerLines
  <2> QED BY <1>2, <1>3, <2>1, <2>2
<1> QED BY <1>4, <1>5, <1>6, <1>7, <1>8, <1>9 DEF IInv

\* The commit of a turn: the lines before its messages are those it had read,
\* and the last of them has no answer yet.
LEMMA CommitKeeps == ASSUME IInv, NEW w \in Workers, Commit(w) PROVE IInv'
<1> DEFINE worker == workers[w]
           d == worker.draft
           n == Len(msgs)
           last == LastLine(msgs)
<1>1. /\ worker \in Worker /\ Sound(worker, msgs) /\ Holding(worker) /\ lock = w
      /\ worker.pc # "idle" /\ msgs \in Seq(Message) /\ d \in Seq(Message) /\ n \in Nat
  BY WorkerType DEF Commit, Holding, IInv, OneHolds, Worker
<1>2. /\ worker.saw = last /\ Pending(msgs)
      /\ \A i \in DOMAIN d : /\ d[i].role \in {"agent", "tool"}
                              /\ d[i].turn = TurnOf(worker) /\ d[i].saw = last
  BY <1>1 DEF Sound
<1>3. /\ msgs' = msgs \o d
      /\ DOMAIN msgs = 1..n /\ DOMAIN d = 1..Len(d) /\ Len(d) \in Nat
  BY <1>1 DEF Commit
<1> HIDE DEF d, worker
<1>4. /\ msgs' \in Seq(Message) /\ DOMAIN msgs' = 1..(n + Len(d))
      /\ \A i \in 1..n : msgs'[i] = msgs[i]
      /\ \A i \in 1..(n + Len(d)) : i > n => msgs'[i] = d[i - n] /\ i - n \in DOMAIN d
  BY <1>1, <1>3
<1>5. \A i \in DOMAIN msgs' : i > n => /\ msgs'[i].role \in {"agent", "tool"}
                                       /\ msgs'[i].turn = TurnOf(worker)
                                       /\ msgs'[i].saw = last
  BY <1>2, <1>4
<1>6. /\ \A k \in 1..n : msgs[k].role = "contact" => k <= last
      /\ last \in 1..n /\ msgs[last].role = "contact"
      /\ \A k \in 1..n : msgs[k].role \in {"agent", "tool"} => k < last
  <2> DEFINE lines == Places(msgs, {"contact"})
             ours  == Places(msgs, {"agent", "tool"})
  <2>1. lines \in SUBSET (1..n) /\ ours \in SUBSET (1..n)
    BY <1>1, PlacesInRange
  <2>2. /\ Last(lines) \in 0..n /\ (lines # {} => Last(lines) \in lines)
        /\ \A k \in lines : k <= Last(lines)
        /\ Last(ours) \in 0..n /\ \A k \in ours : k <= Last(ours)
    BY <1>1, <2>1, LastIsHighest
  <2>3. last = Last(lines) /\ last > Last(ours)
    BY <1>2 DEF LastLine, Pending
  <2>4. lines # {}
    BY <2>2, <2>3 DEF Last
  <2>5. \A k \in 1..n : /\ msgs[k].role = "contact" => k \in lines
                        /\ msgs[k].role \in {"agent", "tool"} => k \in ours
    BY <1>3 DEF Places
  <2>6. \A k \in lines : msgs[k].role = "contact"
    BY DEF Places
  <2> HIDE DEF lines, ours, last
  <2>7. last \in 1..n /\ msgs[last].role = "contact"
    BY <2>1, <2>2, <2>3, <2>4, <2>6
  <2>8. \A k \in 1..n : msgs[k].role = "contact" => k <= last
    BY <2>2, <2>3, <2>5
  <2>9. \A k \in 1..n : msgs[k].role \in {"agent", "tool"} => k < last
    BY <1>1, <2>2, <2>3, <2>5
  <2> QED BY <2>7, <2>8, <2>9
<1> HIDE DEF n, last
<1>7. TypeOK' /\ OneHolds' /\ AllSound'
  <2> DEFINE x == [IdleWorker EXCEPT !.pc = "done", !.job = worker.job, !.try = worker.try]
  <2>1. x \in Worker /\ ~Holding(x) /\ Sound(x, msgs')
    <3>1. worker.job \in Jobs /\ worker.try \in Nat
      BY <1>1 DEF Sound, Worker
    <3>2. x \in Worker /\ x.pc = "done" /\ x.job = worker.job /\ x.draft = <<>>
      BY <3>1, IdleIsSound DEF IdleWorker, Worker
    <3> HIDE DEF x
    <3> QED BY <3>1, <3>2 DEF Holding, Sound
  <2>2. workers' = [workers EXCEPT ![w] = x] /\ lock' = NoTx
    BY DEF Commit, worker
  <2> HIDE DEF x
  <2>3. \A v \in Workers : workers'[v] = IF v = w THEN x ELSE workers[v]
    BY <2>2 DEF IInv, TypeOK
  <2>4. \A v \in Workers : ~Holding(workers'[v]) /\ Sound(workers'[v], msgs')
    <3> TAKE v \in Workers
    <3>1. CASE v = w
      BY <2>1, <2>3, <3>1
    <3>2. CASE v # w
      <4>1. ~Holding(workers[v]) /\ Sound(workers[v], msgs)
        BY <1>1, <3>2 DEF IInv, OneHolds, AllSound
      <4> QED BY <2>3, <3>2, <4>1 DEF Sound
    <3> QED BY <3>1, <3>2
  <2>5. rows' \in Rows /\ silent' \in Nat
    BY <1>1 DEF Commit, IInv, TypeOK, Rows, Worker, worker
  <2>6. TypeOK'
    BY <1>4, <2>1, <2>2, <2>5 DEF Commit, IInv, TypeOK
  <2> QED BY <2>2, <2>4, <2>6, TurnAssumption DEF OneHolds, AllSound
<1>8. TurnsWriteNoLines'
  BY <1>1, <1>3, <1>4, <1>5 DEF IInv, TurnsWriteNoLines
<1>9. NoLinePassedOver'
  <2> SUFFICES ASSUME NEW i \in DOMAIN msgs', msgs'[i].turn # NoTx,
                      NEW k \in 1..(i - 1), msgs'[k].role = "contact"
               PROVE  k <= msgs'[i].saw
    BY DEF NoLinePassedOver
  <2>1. k \in 1..n
    <3>1. k \in DOMAIN msgs' /\ k \in Nat /\ n \in Nat
      BY <1>1, <1>3, <1>4 DEF n
    <3>2. ~ (k > n)
      BY <1>5, <3>1
    <3> QED BY <1>4, <3>1, <3>2
  <2>2. CASE i \in 1..n
    BY <1>3, <1>4, <2>1, <2>2 DEF IInv, NoLinePassedOver
  <2>3. CASE i \notin 1..n
    <3>1. i > n
      BY <1>1, <1>4, <2>3
    <3> QED BY <1>4, <1>5, <1>6, <2>1, <3>1
  <2> QED BY <2>2, <2>3
<1>10. TurnsAnswerLines'
  <2> SUFFICES ASSUME NEW i \in DOMAIN msgs', NEW k \in DOMAIN msgs',
                      i < k, msgs'[i].turn # NoTx, msgs'[k].turn # NoTx,
                      msgs'[i].turn # msgs'[k].turn
               PROVE  \E l \in i..k : msgs'[l].role = "contact"
    BY DEF TurnsAnswerLines
  <2>1. i \in 1..n
    <3>1. /\ i \in DOMAIN msgs' /\ i \in Nat /\ k \in DOMAIN msgs' /\ k \in Nat
          /\ n \in Nat
      BY <1>1, <1>3, <1>4 DEF n
    <3>2. ~ (i > n)
      <4>1. i > n => k > n
        BY <3>1
      <4> QED BY <1>5, <3>1, <4>1
    <3> QED BY <1>4, <3>1, <3>2
  <2>2. CASE k \in 1..n
    <3>1. PICK l \in i..k : msgs[l].role = "contact"
      BY <1>3, <1>4, <2>1, <2>2 DEF IInv, TurnsAnswerLines
    <3> QED BY <1>1, <1>4, <2>1, <2>2, <3>1
  <2>3. CASE k \notin 1..n
    <3>1. msgs[i].role \in {"agent", "tool"}
      BY <1>3, <1>4, <2>1 DEF IInv, TurnsWriteNoLines
    <3>2. last \in i..k /\ msgs'[last].role = "contact"
      BY <1>1, <1>4, <1>6, <2>1, <2>3, <3>1
    <3> QED BY <3>2
  <2> QED BY <2>2, <2>3
<1> QED BY <1>7, <1>8, <1>9, <1>10 DEF IInv

-----------------------------------------------------------------------------
(* The theorems.                                                           *)

LEMMA NextKeeps == ASSUME IInv, [Next]_vars PROVE IInv'
<1>1. CASE UNCHANGED vars
  BY <1>1 DEF vars, IInv, TypeOK, OneHolds, AllSound, TurnsWriteNoLines, NoLinePassedOver,
              TurnsAnswerLines
<1>2. ASSUME NEW role \in {"contact", "agent"}, FileLine(role) PROVE IInv'
  BY <1>2, FileLineKeeps
<1>3. ASSUME NEW j \in Jobs, Enqueue(j) \/ Expire(j) \/ ExpireSlow(j) PROVE IInv'
  BY <1>3, JobsKeep
<1>4. ASSUME NEW w \in Workers, NEW j \in Jobs, Fetch(w, j) PROVE IInv'
  BY <1>4, FetchKeeps
<1>5. ASSUME NEW w \in Workers, WorkerStep(w) \/ Throw(w) \/ Crash(w) PROVE IInv'
  BY <1>5, OpenKeeps, AnswerKeeps, CallKeeps, CommitKeeps, LeavesKeeps DEF WorkerStep
<1> QED BY <1>1, <1>2, <1>3, <1>4, <1>5 DEF Next

\* The types of the jobs, the turns and the conversation.
THEOREM TurnTypes == Spec => []TypeOK
<1>1. IInv => TypeOK
  BY DEF IInv
<1> QED BY InitInv, NextKeeps, <1>1, PTL DEF Spec

\* No line is passed over by a turn that had not read it.
THEOREM LinesAreRead == Spec => []NoLinePassedOver
<1>1. IInv => NoLinePassedOver
  BY DEF IInv
<1> QED BY InitInv, NextKeeps, <1>1, PTL DEF Spec

\* A line is answered by one turn, however often its job is delivered.
THEOREM LinesAnsweredOnce == Spec => []TurnsAnswerLines
<1>1. IInv => TurnsAnswerLines
  BY DEF IInv
<1> QED BY InitInv, NextKeeps, <1>1, PTL DEF Spec

-----------------------------------------------------------------------------
(* Counting the messages that have one of some fates.                      *)

With(s, fates) == Cardinality({i \in DOMAIN s : s[i].fate \in fates})

LEMMA WithType ==
  ASSUME NEW s \in Seq(Message), NEW fates
  PROVE  /\ IsFiniteSet({i \in DOMAIN s : s[i].fate \in fates}) /\ With(s, fates) \in Nat
         /\ s = <<>> => With(s, fates) = 0
<1>1. DOMAIN s = 1..Len(s) /\ Len(s) \in Nat
  OBVIOUS
<1>2. IsFiniteSet(1..Len(s))
  BY <1>1, FS_Interval
<1>3. IsFiniteSet({i \in DOMAIN s : s[i].fate \in fates})
  BY <1>1, <1>2, FS_Subset
<1>4. s = <<>> => {i \in DOMAIN s : s[i].fate \in fates} = {}
  OBVIOUS
<1> QED BY <1>3, <1>4, FS_CardinalityType, FS_EmptySet DEF With

LEMMA WithAppend ==
  ASSUME NEW s \in Seq(Message), NEW m \in Message, NEW fates
  PROVE  With(Append(s, m), fates) = With(s, fates) + (IF m.fate \in fates THEN 1 ELSE 0)
<1> DEFINE at == {i \in DOMAIN s : s[i].fate \in fates}
           at1 == {i \in DOMAIN Append(s, m) : Append(s, m)[i].fate \in fates}
           n == Len(s) + 1
<1>1. IsFiniteSet(at) /\ n \notin at /\ Cardinality(at) \in Nat
  <2>1. IsFiniteSet(at)
    BY WithType
  <2>2. n \notin DOMAIN s
    OBVIOUS
  <2> QED BY <2>1, <2>2, FS_CardinalityType
<1>2. DOMAIN Append(s, m) = DOMAIN s \cup {n}
  OBVIOUS
<1>3. Append(s, m)[n] = m /\ \A i \in DOMAIN s : Append(s, m)[i] = s[i]
  OBVIOUS
<1>4. at1 = IF m.fate \in fates THEN at \cup {n} ELSE at
  BY <1>1, <1>2, <1>3
<1>5. Cardinality(at \cup {n}) = Cardinality(at) + 1
  BY <1>1, FS_AddElement
<1>6. With(s, fates) = Cardinality(at) /\ With(Append(s, m), fates) = Cardinality(at1)
  BY DEF With
<1> HIDE DEF at, at1, n
<1> QED BY <1>1, <1>4, <1>5, <1>6

LEMMA WithConcat ==
  ASSUME NEW s \in Seq(Message), NEW t \in Seq(Message), NEW fates
  PROVE  With(s \o t, fates) = With(s, fates) + With(t, fates)
<1> DEFINE n == Len(s)
           A == {i \in DOMAIN s : s[i].fate \in fates}
           B == {i \in DOMAIN t : t[i].fate \in fates}
           C == {i \in DOMAIN (s \o t) : (s \o t)[i].fate \in fates}
           D == {i + n : i \in B}
           f == [i \in B |-> i + n]
<1>1. /\ n \in Nat /\ Len(t) \in Nat /\ DOMAIN s = 1..n /\ DOMAIN t = 1..Len(t)
      /\ DOMAIN (s \o t) = 1..(n + Len(t))
      /\ \A i \in 1..(n + Len(t)) : (s \o t)[i] = IF i <= n THEN s[i] ELSE t[i - n]
  OBVIOUS
<1>2. IsFiniteSet(A) /\ IsFiniteSet(B) /\ Cardinality(A) \in Nat /\ Cardinality(B) \in Nat
  BY WithType, FS_CardinalityType
<1>3. A \subseteq 1..n /\ B \subseteq 1..Len(t)
  BY <1>1
<1>4. IsFiniteSet(D) /\ Cardinality(D) = Cardinality(B)
  <2> HIDE DEF B, n
  <2>1. \A i \in B : i \in Int
    BY <1>1, <1>3
  <2>2. \A x, y \in B : x + n = y + n => x = y
    BY <1>1, <2>1
  <2>3. f \in Bijection(B, D)
    <3>1. f \in [B -> D]
      OBVIOUS
    <3>2. f \in Injection(B, D)
      BY <3>1, <2>2 DEF Injection, IsInjective
    <3>3. \A y \in D : \E x \in B : f[x] = y
      OBVIOUS
    <3> QED BY <3>1, <3>2, <3>3 DEF Bijection, Surjection
  <2>4. ExistsBijection(B, D)
    BY <2>3 DEF ExistsBijection
  <2> QED BY <1>2, <2>4, FS_Bijection
<1>5. C = A \cup D
  <2>1. ASSUME NEW i \in C PROVE i \in A \cup D
    <3>1. i \in 1..(n + Len(t))
      BY <1>1
    <3>2. CASE i <= n
      BY <1>1, <3>1, <3>2
    <3>3. CASE ~(i <= n)
      <4>1. i - n \in B /\ i = (i - n) + n
        BY <1>1, <3>1, <3>3
      <4> QED BY <4>1
    <3> QED BY <3>2, <3>3
  <2>2. ASSUME NEW i \in A PROVE i \in C
    BY <1>1
  <2>3. ASSUME NEW k \in B PROVE k + n \in C
    <3>1. k \in 1..Len(t) /\ k + n \in 1..(n + Len(t)) /\ ~(k + n <= n) /\ (k + n) - n = k
      BY <1>1
    <3> QED BY <1>1, <3>1
  <2> QED BY <2>1, <2>2, <2>3
<1>6. A \cap D = {}
  <2> HIDE DEF A, B
  <2>1. ASSUME NEW k \in B, k + n \in A PROVE FALSE
    BY <1>1, <1>3, <2>1
  <2> QED BY <2>1
<1>7. Cardinality(C) = Cardinality(A) + Cardinality(B)
  <2> HIDE DEF A, B, C, D
  <2>1. Cardinality(A \cup D) = Cardinality(A) + Cardinality(D) - Cardinality(A \cap D)
    BY <1>2, <1>4, FS_Union
  <2>2. Cardinality(A \cap D) = 0
    BY <1>6, FS_EmptySet
  <2> QED BY <1>2, <1>4, <1>5, <2>1, <2>2
<1>8. /\ With(s, fates) = Cardinality(A) /\ With(t, fates) = Cardinality(B)
      /\ With(s \o t, fates) = Cardinality(C)
  BY DEF With
<1> HIDE DEF A, B, C, D
<1> QED BY <1>7, <1>8

-----------------------------------------------------------------------------
(* What each step does to its worker.                                      *)

Busy(w) == workers[w].pc # "idle"

SameTurn(w) == workers'[w].job = workers[w].job /\ workers'[w].try = workers[w].try

Answers(w) == (\E n \in 1..MaxCalls : AnswerTools(w, n)) \/ AnswerText(w) \/ AnswerNothing(w)

Leaves(w) == Finish(w) \/ Throw(w) \/ Crash(w)

Works(w) ==
    \/ \E j \in Jobs : Fetch(w, j)
    \/ Open(w) \/ Answers(w) \/ Commit(w) \/ Leaves(w)
    \/ \E fate \in Fates : Call(w, fate)

JobSteps(j) == Enqueue(j) \/ Expire(j) \/ ExpireSlow(j)

LEMMA StepCases ==
  ASSUME [Next]_vars
  PROVE  \/ UNCHANGED vars
         \/ \E role \in {"contact", "agent"} : FileLine(role)
         \/ \E j \in Jobs : JobSteps(j)
         \/ \E w \in Workers : Works(w)
BY DEF Next, WorkerStep, JobSteps, Works, Answers, Leaves

\* A step that is no worker's leaves every turn alone.
LEMMA OthersFields ==
  ASSUME \/ UNCHANGED vars
         \/ \E role \in {"contact", "agent"} : FileLine(role)
         \/ \E j \in Jobs : JobSteps(j)
  PROVE  UNCHANGED <<agent, lock, rows, workers, sent, silent>>
BY DEF vars, FileLine, JobSteps, Enqueue, Expire, ExpireSlow

LEMMA MovedAlone ==
  ASSUME TypeOK, NEW w \in Workers, Works(w), NEW v \in Workers, v # w
  PROVE  workers'[v] = workers[v]
<1>1. workers \in [Workers -> Worker]
  BY DEF TypeOK
<1>2. \E x : workers' = [workers EXCEPT ![w] = x]
  <2>1. ASSUME NEW j \in Jobs, Fetch(w, j) PROVE \E x : workers' = [workers EXCEPT ![w] = x]
    BY <2>1 DEF Fetch
  <2>2. CASE Open(w)
    BY <2>2 DEF Open
  <2>3. CASE Answers(w)
    BY <2>3 DEF Answers, AnswerTools, AnswerText, AnswerNothing
  <2>4. CASE Commit(w) \/ Leaves(w)
    BY <2>4 DEF Commit, Leaves, Finish, Throw, Crash
  <2>5. ASSUME NEW fate \in Fates, Call(w, fate)
        PROVE  \E x : workers' = [workers EXCEPT ![w] = x]
    BY <2>5 DEF Call
  <2> QED BY <2>1, <2>2, <2>3, <2>4, <2>5 DEF Works
<1> QED BY <1>1, <1>2

LEMMA FetchFields ==
  ASSUME TypeOK, NEW w \in Workers, NEW j \in Jobs, Fetch(w, j)
  PROVE  /\ workers[w].pc = "idle" /\ workers'[w].pc = "fetched"
         /\ workers'[w].job = j /\ workers'[w].try = jobs[j].tries + 1
         /\ workers'[w].draft = <<>> /\ workers'[w].rows = NoRows
         /\ jobs[j].state \in {"created", "retry"}
         /\ jobs'[j].state = "active" /\ jobs'[j].tries = jobs[j].tries + 1
         /\ jobs'[j].upto = jobs[j].upto
         /\ \A k \in Jobs \ {j} : jobs'[k] = jobs[k]
         /\ UNCHANGED <<agent, msgs, lock, rows, sent, silent, faults>>
<1>1. workers'[w] = [IdleWorker EXCEPT !.pc = "fetched", !.job = j, !.try = jobs[j].tries + 1]
  BY DEF TypeOK, Fetch
<1>2. jobs' = [jobs EXCEPT ![j].state = "active", ![j].tries = @ + 1] /\ jobs[j] \in Job
  BY DEF TypeOK, Fetch
<1>3. /\ jobs'[j].state = "active" /\ jobs'[j].tries = jobs[j].tries + 1
      /\ jobs'[j].upto = jobs[j].upto /\ \A k \in Jobs \ {j} : jobs'[k] = jobs[k]
  BY <1>2 DEF TypeOK, Job
<1>4. /\ workers'[w].pc = "fetched" /\ workers'[w].job = j
      /\ workers'[w].try = jobs[j].tries + 1
      /\ workers'[w].draft = <<>> /\ workers'[w].rows = NoRows
  BY <1>1 DEF IdleWorker
<1> QED BY <1>3, <1>4 DEF Fetch

LEMMA OpenFields ==
  ASSUME TypeOK, NEW w \in Workers, Open(w)
  PROVE  /\ workers[w].pc = "fetched" /\ SameTurn(w)
         /\ workers'[w].draft = workers[w].draft /\ workers'[w].rows = workers[w].rows
         /\ \/ workers'[w].pc = "asking" /\ lock' = w
            \/ /\ workers'[w].pc = "done" /\ lock' = lock
               /\ ~agent \/ ~Pending(msgs)
         /\ lock = NoTx
         /\ UNCHANGED <<agent, msgs, rows, jobs, sent, silent, faults>>
<1>1. workers[w] \in Worker
  BY DEF TypeOK
<1>2. CASE Pending(msgs) /\ agent
  <2>1. workers'[w] = Asking(workers[w], 1) /\ lock' = w
    BY <1>2 DEF TypeOK, Open
  <2> QED BY <1>1, <2>1 DEF Open, Asking, Worker, SameTurn
<1>3. CASE ~(Pending(msgs) /\ agent)
  <2>1. workers'[w] = [workers[w] EXCEPT !.pc = "done"] /\ lock' = lock
    BY <1>3 DEF TypeOK, Open
  <2> QED BY <1>1, <1>3, <2>1 DEF Open, Worker, SameTurn
<1> QED BY <1>2, <1>3

LEMMA AnswersFields ==
  ASSUME TypeOK, NEW w \in Workers, Answers(w)
  PROVE  /\ Holding(workers[w]) /\ Holding(workers'[w]) /\ SameTurn(w)
         /\ workers'[w].rows = workers[w].rows
         /\ \/ workers'[w].draft = workers[w].draft
            \/ workers'[w].draft = Append(workers[w].draft, Written(workers[w], "agent", "none"))
         /\ UNCHANGED <<agent, msgs, lock, rows, jobs, sent, silent, faults>>
<1>1. workers[w] \in Worker
  BY DEF TypeOK
<1>2. ASSUME NEW n \in 1..MaxCalls, AnswerTools(w, n)
      PROVE  workers'[w] = [workers[w] EXCEPT !.pc = "calling", !.calls = n]
  BY <1>2 DEF TypeOK, AnswerTools
<1>3. CASE AnswerText(w)
  <2> DEFINE d == Append(workers[w].draft, Written(workers[w], "agent", "none"))
  <2>1. workers'[w] = [workers[w] EXCEPT !.pc = "closing", !.draft = d]
    BY <1>3 DEF TypeOK, AnswerText
  <2>2. /\ workers[w].pc = "asking"
        /\ UNCHANGED <<agent, msgs, lock, rows, jobs, sent, silent, faults>>
    BY <1>3 DEF AnswerText
  <2>3. /\ workers'[w].pc = "closing" /\ workers'[w].job = workers[w].job
        /\ workers'[w].try = workers[w].try /\ workers'[w].rows = workers[w].rows
        /\ workers'[w].draft = d
    <3> HIDE DEF d
    <3> QED BY <1>1, <2>1 DEF Worker
  <2> QED BY <2>2, <2>3 DEF Holding, SameTurn
<1>4. CASE AnswerNothing(w)
  <2>1. workers'[w] = [workers[w] EXCEPT !.pc = "closing"]
    BY <1>4 DEF TypeOK, AnswerNothing
  <2> QED BY <1>1, <1>4, <2>1 DEF AnswerNothing, Worker, Holding, SameTurn
<1>5. CASE \E n \in 1..MaxCalls : AnswerTools(w, n)
  <2>1. PICK n \in 1..MaxCalls : AnswerTools(w, n)
    BY <1>5
  <2>2. workers'[w] = [workers[w] EXCEPT !.pc = "calling", !.calls = n]
    BY <1>2, <2>1
  <2>3. /\ workers'[w].pc = "calling" /\ workers'[w].job = workers[w].job
        /\ workers'[w].try = workers[w].try /\ workers'[w].rows = workers[w].rows
        /\ workers'[w].draft = workers[w].draft
    BY <1>1, <2>2 DEF Worker
  <2> QED BY <2>1, <2>3 DEF AnswerTools, Holding, SameTurn
<1> QED BY <1>3, <1>4, <1>5 DEF Answers

LEMMA CallFields ==
  ASSUME TypeOK, NEW w \in Workers, NEW fate \in Fates, Call(w, fate)
  PROVE  /\ Holding(workers[w]) /\ Holding(workers'[w]) /\ SameTurn(w)
         /\ workers'[w].rows = RowsAfter(workers[w].rows, fate)
         /\ workers'[w].draft = Append(workers[w].draft, Written(workers[w], "tool", fate))
         /\ sent' = IF fate = "sent"
                    THEN sent \cup {[turn |-> TurnOf(workers[w]), saw |-> workers[w].saw]}
                    ELSE sent
         /\ UNCHANGED <<agent, msgs, lock, rows, jobs, silent, faults>>
<1> DEFINE d == Append(workers[w].draft, Written(workers[w], "tool", fate))
           r == RowsAfter(workers[w].rows, fate)
           called == [workers[w] EXCEPT !.calls = workers[w].calls - 1, !.rows = r, !.draft = d]
<1>1. workers[w] \in Worker
  BY DEF TypeOK
<1>2. /\ called.pc = workers[w].pc /\ called.job = workers[w].job /\ called.try = workers[w].try
      /\ called.rows = r /\ called.draft = d
  BY <1>1 DEF Worker
<1>3. /\ workers[w].pc = "calling"
      /\ workers'[w] = IF called.calls > 0 THEN called ELSE NextRound(called)
  BY DEF TypeOK, Call
<1>4. DOMAIN called = DOMAIN workers[w] /\ "pc" \in DOMAIN called
  BY <1>1 DEF Worker
<1> HIDE DEF called, d, r
<1>5. /\ Holding(workers'[w]) /\ workers'[w].job = called.job /\ workers'[w].try = called.try
      /\ workers'[w].rows = called.rows /\ workers'[w].draft = called.draft
  BY <1>2, <1>3, <1>4 DEF NextRound, Asking, Holding
<1>6. SameTurn(w) /\ Holding(workers[w])
  BY <1>2, <1>3, <1>5 DEF SameTurn, Holding
<1>7. /\ sent' = IF fate = "sent"
                 THEN sent \cup {[turn |-> TurnOf(workers[w]), saw |-> workers[w].saw]}
                 ELSE sent
      /\ UNCHANGED <<agent, msgs, lock, rows, jobs, silent, faults>>
  BY DEF Call
<1> QED BY <1>2, <1>5, <1>6, <1>7 DEF d, r

LEMMA CommitFields ==
  ASSUME TypeOK, NEW w \in Workers, Commit(w)
  PROVE  /\ workers[w].pc = "closing" /\ workers'[w].pc = "done" /\ SameTurn(w)
         /\ workers'[w].draft = <<>> /\ workers'[w].rows = NoRows
         /\ msgs' = msgs \o workers[w].draft /\ lock' = NoTx
         /\ rows' = [audits |-> rows.audits + workers[w].rows.audits,
                     tasks  |-> rows.tasks + workers[w].rows.tasks]
         /\ silent' = IF workers[w].draft = <<>> THEN workers[w].saw ELSE silent
         /\ UNCHANGED <<agent, jobs, sent, faults>>
<1>1. workers'[w] = [IdleWorker EXCEPT !.pc = "done", !.job = workers[w].job,
                                       !.try = workers[w].try]
  BY DEF TypeOK, Commit
<1>2. /\ workers'[w].pc = "done" /\ workers'[w].draft = <<>> /\ workers'[w].rows = NoRows
      /\ workers'[w].job = workers[w].job /\ workers'[w].try = workers[w].try
  BY <1>1 DEF IdleWorker
<1> QED BY <1>2 DEF Commit, SameTurn

LEMMA LeavesFields ==
  ASSUME TypeOK, NEW w \in Workers, Leaves(w)
  PROVE  /\ workers[w].pc # "idle" /\ workers'[w] = IdleWorker
         /\ UNCHANGED <<agent, msgs, rows, sent, silent>>
         /\ faults' = IF Finish(w) THEN faults ELSE faults + 1
         /\ lock' = IF Finish(w) THEN lock ELSE Freed(w)
<1>1. CASE Finish(w)
  BY <1>1 DEF TypeOK, Finish
<1>2. CASE ~Finish(w)
  BY <1>2 DEF TypeOK, Leaves, Throw, Crash, Fault
<1> QED BY <1>1, <1>2

-----------------------------------------------------------------------------
(* The tries of a job: each is handed out once.                            *)

TriesCounted ==
    /\ \A w \in Workers : Busy(w) =>
         /\ workers[w].job \in Jobs
         /\ jobs[workers[w].job].state \notin {"free", "created"}
         /\ 1 <= workers[w].try /\ workers[w].try <= jobs[workers[w].job].tries
    /\ \A j \in Jobs : jobs[j].state = "free" => jobs[j].tries = 0

TriesApart ==
    \A v, w \in Workers : Busy(v) /\ Busy(w) /\ TurnOf(workers[v]) = TurnOf(workers[w]) => v = w

JobMove(j) ==
    /\ jobs'[j].tries >= jobs[j].tries
    /\ jobs'[j].state = "free" => jobs'[j].tries = 0
    /\ jobs[j].state \notin {"free", "created"} =>
         /\ jobs'[j].state \notin {"free", "created"} /\ jobs'[j].upto = jobs[j].upto
    /\ jobs'[j].tries = jobs[j].tries \/ \E w \in Workers : Fetch(w, j)

LEMMA JobsMove ==
  ASSUME IInv, TriesCounted, [Next]_vars, NEW j \in Jobs PROVE JobMove(j)
<1>1. /\ jobs \in [Jobs -> Job] /\ jobs[j].tries \in Nat
      /\ jobs[j].state = "free" => jobs[j].tries = 0
  BY DEF IInv, TypeOK, Job, TriesCounted
<1>2. CASE jobs'[j] = jobs[j]
  BY <1>1, <1>2 DEF JobMove
<1>3. ASSUME NEW k \in Jobs, jobs' = [jobs EXCEPT ![k] = FailedTry(@)] PROVE JobMove(j)
  BY <1>1, <1>3 DEF FailedTry, JobMove, Job
<1>4. ASSUME NEW k \in Jobs, jobs' = [jobs EXCEPT ![k].state = "completed"] PROVE JobMove(j)
  BY <1>1, <1>4 DEF JobMove, Job
<1>5. ASSUME NEW k \in Jobs, JobSteps(k) PROVE JobMove(j)
  <2>1. CASE Enqueue(k)
    BY <1>1, <2>1 DEF Enqueue, JobMove
  <2>2. CASE Expire(k) \/ ExpireSlow(k)
    BY <1>3, <2>2 DEF Expire, ExpireSlow
  <2> QED BY <1>5, <2>1, <2>2 DEF JobSteps
<1>6. ASSUME NEW w \in Workers, NEW k \in Jobs, Fetch(w, k) PROVE JobMove(j)
  <2>1. CASE k = j
    BY <1>1, <1>6, <2>1, FetchFields DEF IInv, JobMove
  <2>2. CASE k # j
    <3>1. jobs'[j] = jobs[j]
      BY <1>6, <2>2, FetchFields DEF IInv
    <3> QED BY <1>2, <3>1
  <2> QED BY <2>1, <2>2
<1>7. ASSUME NEW w \in Workers, Leaves(w) PROVE JobMove(j)
  <2>1. Current(w) => workers[w].job \in Jobs
    BY DEF Current, TriesCounted, Busy
  <2>2. CASE Finish(w)
    BY <1>2, <1>4, <2>1, <2>2 DEF Finish
  <2>3. CASE Throw(w)
    BY <1>2, <1>3, <2>1, <2>3 DEF Throw
  <2>4. CASE Crash(w)
    BY <1>2, <2>4 DEF Crash
  <2> QED BY <1>7, <2>2, <2>3, <2>4 DEF Leaves
<1>8. ASSUME NEW w \in Workers, Open(w) \/ Answers(w) \/ Commit(w) \/ \E fate \in Fates : Call(w, fate)
      PROVE  JobMove(j)
  <2>1. UNCHANGED jobs
    BY <1>8, OpenFields, AnswersFields, CommitFields, CallFields DEF IInv
  <2> QED BY <1>2, <2>1
<1>9. CASE UNCHANGED vars \/ \E role \in {"contact", "agent"} : FileLine(role)
  BY <1>2, <1>9 DEF vars, FileLine
<1> QED BY <1>5, <1>6, <1>7, <1>8, <1>9, StepCases DEF Works

\* A worker keeps its turn while it is busy.
LEMMA TurnKept ==
  ASSUME IInv, [Next]_vars, NEW w \in Workers, Busy(w)'
  PROVE  (Busy(w) /\ SameTurn(w)) \/ \E j \in Jobs : Fetch(w, j)
<1>0. TypeOK
  BY DEF IInv
<1>1. CASE UNCHANGED workers
  BY <1>1 DEF Busy, SameTurn
<1>2. ASSUME NEW v \in Workers \ {w}, Works(v) PROVE Busy(w) /\ SameTurn(w)
  BY <1>0, <1>2, MovedAlone DEF Busy, SameTurn
<1>3. CASE Open(w) \/ Answers(w) \/ Commit(w) \/ \E fate \in Fates : Call(w, fate)
  BY <1>0, <1>3, OpenFields, AnswersFields, CommitFields, CallFields DEF Busy, Holding
<1>4. ~Leaves(w)
  BY <1>0, LeavesFields DEF Busy, IdleWorker
<1>5. \/ UNCHANGED workers
      \/ \E v \in Workers : Works(v)
  BY StepCases, OthersFields
<1> QED BY <1>1, <1>2, <1>3, <1>4, <1>5 DEF Works

LEMMA InitTries == Init => TriesCounted /\ TriesApart
BY DEF Init, TriesCounted, TriesApart, Busy, IdleWorker

LEMMA NextTries ==
  ASSUME IInv, TriesCounted, TriesApart, [Next]_vars
  PROVE  TriesCounted' /\ TriesApart'
<1>1. /\ TypeOK /\ TypeOK'
      /\ \A j \in Jobs : jobs[j].tries \in Nat /\ jobs'[j].tries \in Nat
      /\ \A w \in Workers : workers[w].try \in Nat
      /\ \A j \in Jobs : JobMove(j)
  <2>1. TypeOK /\ TypeOK'
    BY NextKeeps DEF IInv
  <2> QED BY <2>1, JobsMove DEF TypeOK, Job, Worker
<1>2. ASSUME NEW w \in Workers, NEW j \in Jobs, Fetch(w, j)
      PROVE  /\ workers'[w].job = j /\ workers'[w].try = jobs[j].tries + 1
             /\ jobs'[j].tries = jobs[j].tries + 1 /\ jobs'[j].state = "active"
             /\ \A v \in Workers \ {w} : workers'[v] = workers[v]
  BY <1>1, <1>2, FetchFields, MovedAlone DEF Works
<1>3. ASSUME NEW w \in Workers, Busy(w)'
      PROVE  /\ workers'[w].job \in Jobs
             /\ jobs'[workers'[w].job].state \notin {"free", "created"}
             /\ 1 <= workers'[w].try /\ workers'[w].try <= jobs'[workers'[w].job].tries
  <2>1. ASSUME NEW j \in Jobs, Fetch(w, j)
        PROVE  /\ workers'[w].job \in Jobs
               /\ jobs'[workers'[w].job].state \notin {"free", "created"}
               /\ 1 <= workers'[w].try /\ workers'[w].try <= jobs'[workers'[w].job].tries
    BY <1>1, <1>2, <2>1
  <2>2. CASE Busy(w) /\ SameTurn(w)
    <3>1. PICK j \in Jobs : j = workers[w].job
      BY <2>2 DEF TriesCounted
    <3>2. /\ jobs[j].state \notin {"free", "created"}
          /\ 1 <= workers[w].try /\ workers[w].try <= jobs[j].tries
      BY <2>2, <3>1 DEF TriesCounted
    <3> QED BY <1>1, <2>2, <3>1, <3>2 DEF SameTurn, JobMove
  <2> QED BY <1>3, <2>1, <2>2, TurnKept
<1>4. ASSUME NEW v \in Workers, NEW w \in Workers, Busy(v)', Busy(w)', v # w,
             TurnOf(workers'[v]) = TurnOf(workers'[w])
      PROVE  FALSE
  <2>0. workers'[v].job = workers'[w].job /\ workers'[v].try = workers'[w].try
    BY <1>4 DEF TurnOf
  <2>1. ASSUME NEW x \in Workers, NEW y \in Workers, x # y, Busy(y)', NEW j \in Jobs, Fetch(x, j),
               workers'[x].job = workers'[y].job, workers'[x].try = workers'[y].try
        PROVE  FALSE
    <3>1. workers'[y] = workers[y]
      BY <1>2, <2>1
    <3>2. Busy(y) /\ workers[y].job = j /\ workers[y].try = jobs[j].tries + 1
      BY <1>2, <2>1, <3>1 DEF Busy
    <3> QED BY <1>1, <3>2 DEF TriesCounted
  <2> QED BY <1>4, <2>0, <2>1, TurnKept DEF TriesApart, TurnOf, SameTurn
<1>5. \A j \in Jobs : jobs'[j].state = "free" => jobs'[j].tries = 0
  BY <1>1 DEF JobMove
<1> QED BY <1>3, <1>4, <1>5 DEF TriesCounted, TriesApart

-----------------------------------------------------------------------------
(* The rows of a transcript are those of its tool messages.                *)

RowsOf(s) == [audits |-> With(s, {"ran", "sent"}), tasks |-> With(s, {"gated"})]

DraftRows == \A w \in Workers : workers[w].rows = RowsOf(workers[w].draft)

LEMMA NoRowsOfNothing == RowsOf(<<>>) = NoRows
<1>1. <<>> \in Seq(Message)
  BY EmptySeq
<1> QED BY <1>1, WithType DEF RowsOf, NoRows

LEMMA RowsOfLonger ==
  ASSUME NEW s \in Seq(Message), NEW m \in Message
  PROVE  RowsOf(Append(s, m)) = [audits |-> With(s, {"ran", "sent"})
                                              + (IF m.fate \in {"ran", "sent"} THEN 1 ELSE 0),
                                 tasks  |-> With(s, {"gated"})
                                              + (IF m.fate \in {"gated"} THEN 1 ELSE 0)]
BY WithAppend DEF RowsOf

\* What a turn writes is a message.
LEMMA WrittenType ==
  ASSUME IInv, NEW w \in Workers, Holding(workers[w]), NEW role \in {"agent", "tool"},
         NEW fate \in Fates \cup {"none"}
  PROVE  /\ Written(workers[w], role, fate) \in Message
         /\ Written(workers[w], role, fate).fate = fate
         /\ workers[w].draft \in Seq(Message)
         /\ \A i \in DOMAIN workers[w].draft : workers[w].draft[i].turn = TurnOf(workers[w])
<1>1. workers[w] \in Worker /\ workers[w].job \in Jobs
  BY WorkerType DEF Sound, Holding
<1> QED BY <1>1, WorkerType DEF Written, Message, TurnOf, Turns, Worker, Sound

LEMMA InitRows == Init => DraftRows /\ RowsMatch
<1>1. SUFFICES ASSUME Init PROVE DraftRows /\ RowsMatch
  OBVIOUS
<1>2. DraftRows
  BY <1>1, NoRowsOfNothing DEF Init, DraftRows, IdleWorker
<1>3. rows = RowsOf(msgs)
  BY <1>1, NoRowsOfNothing DEF Init
<1> QED BY <1>2, <1>3 DEF RowsMatch, RowsOf, With

LEMMA NextDraftRows == ASSUME IInv, DraftRows, [Next]_vars PROVE DraftRows'
<1>0. TypeOK
  BY DEF IInv
<1>1. SUFFICES ASSUME NEW w \in Workers PROVE workers'[w].rows = RowsOf(workers'[w].draft)
  BY DEF DraftRows, RowsOf, With
<1>2. CASE workers'[w].rows = workers[w].rows /\ workers'[w].draft = workers[w].draft
  BY <1>2 DEF DraftRows
<1>3. CASE workers'[w].rows = NoRows /\ workers'[w].draft = <<>>
  BY <1>3, NoRowsOfNothing
<1>4. CASE Answers(w)
  <2>1. CASE workers'[w].draft = Append(workers[w].draft, Written(workers[w], "agent", "none"))
    <3> DEFINE m == Written(workers[w], "agent", "none")
    <3>1. m \in Message /\ m.fate = "none" /\ workers[w].draft \in Seq(Message)
      BY <1>0, <1>4, AnswersFields, WrittenType
    <3>2. With(workers[w].draft, {"ran", "sent"}) \in Nat /\ With(workers[w].draft, {"gated"}) \in Nat
      BY <3>1, WithType
    <3> HIDE DEF m
    <3>3. RowsOf(Append(workers[w].draft, m)) = RowsOf(workers[w].draft)
      <4>1. m.fate \notin {"ran", "sent"} /\ m.fate \notin {"gated"}
        BY <3>1
      <4>2. RowsOf(Append(workers[w].draft, m))
              = [audits |-> With(workers[w].draft, {"ran", "sent"}) + 0,
                 tasks  |-> With(workers[w].draft, {"gated"}) + 0]
        BY <3>1, <4>1, RowsOfLonger
      <4> QED BY <3>2, <4>2 DEF RowsOf
    <3> QED BY <1>0, <1>4, <2>1, <3>3, AnswersFields DEF DraftRows, m
  <2> QED BY <1>0, <1>2, <1>4, <2>1, AnswersFields
<1>5. ASSUME NEW fate \in Fates, Call(w, fate) PROVE workers'[w].rows = RowsOf(workers'[w].draft)
  <2> DEFINE m == Written(workers[w], "tool", fate)
  <2>1. m \in Message /\ m.fate = fate /\ workers[w].draft \in Seq(Message)
    BY <1>0, <1>5, CallFields, WrittenType
  <2>2. /\ workers'[w].rows = RowsAfter(workers[w].rows, fate)
        /\ workers'[w].draft = Append(workers[w].draft, m)
    BY <1>0, <1>5, CallFields
  <2> HIDE DEF m
  <2>3. workers[w].rows = RowsOf(workers[w].draft)
    BY DEF DraftRows
  <2> QED BY <2>1, <2>2, <2>3, RowsOfLonger DEF RowsAfter, RowsOf
<1>6. ASSUME NEW v \in Workers \ {w}, Works(v) PROVE workers'[w].rows = RowsOf(workers'[w].draft)
  BY <1>0, <1>2, <1>6, MovedAlone
<1>7. ASSUME NEW j \in Jobs, Fetch(w, j) PROVE workers'[w].rows = RowsOf(workers'[w].draft)
  BY <1>0, <1>3, <1>7, FetchFields
<1>8. CASE Open(w)
  BY <1>0, <1>2, <1>8, OpenFields
<1>9. CASE Commit(w)
  BY <1>0, <1>3, <1>9, CommitFields
<1>10. CASE Leaves(w)
  BY <1>0, <1>3, <1>10, LeavesFields DEF IdleWorker
<1>11. CASE UNCHANGED workers
  BY <1>2, <1>11
<1> QED BY <1>4, <1>5, <1>6, <1>7, <1>8, <1>9, <1>10, <1>11, StepCases, OthersFields DEF Works

LEMMA NextRows == ASSUME IInv, DraftRows, RowsMatch, [Next]_vars PROVE RowsMatch'
<1>0. TypeOK /\ msgs \in Seq(Message)
  BY DEF IInv, TypeOK
<1>1. rows = RowsOf(msgs)
  BY DEF RowsMatch, RowsOf, With
<1>2. SUFFICES rows' = RowsOf(msgs')
  BY DEF RowsMatch, RowsOf, With
<1>3. CASE UNCHANGED <<rows, msgs>>
  BY <1>1, <1>3
<1>4. ASSUME NEW role \in {"contact", "agent"}, FileLine(role) PROVE rows' = RowsOf(msgs')
  <2>1. Line(role) \in Message /\ Line(role).fate = "none"
    BY DEF Line, Message
  <2>2. With(msgs, {"ran", "sent"}) \in Nat /\ With(msgs, {"gated"}) \in Nat
    BY <1>0, WithType
  <2>3. RowsOf(Append(msgs, Line(role))) = RowsOf(msgs)
    BY <1>0, <2>1, <2>2, RowsOfLonger DEF RowsOf
  <2> QED BY <1>1, <1>4, <2>3 DEF FileLine
<1>5. ASSUME NEW w \in Workers, Commit(w) PROVE rows' = RowsOf(msgs')
  <2>1. workers[w].draft \in Seq(Message)
    BY <1>0 DEF TypeOK, Worker
  <2>2. workers[w].rows = RowsOf(workers[w].draft)
    BY DEF DraftRows
  <2>3. /\ msgs' = msgs \o workers[w].draft
        /\ rows' = [audits |-> rows.audits + workers[w].rows.audits,
                    tasks  |-> rows.tasks + workers[w].rows.tasks]
    BY <1>0, <1>5, CommitFields
  <2>4. \A fates : With(msgs \o workers[w].draft, fates)
                     = With(msgs, fates) + With(workers[w].draft, fates)
    BY <1>0, <2>1, WithConcat
  <2> QED BY <1>1, <2>2, <2>3, <2>4 DEF RowsOf
<1>6. ASSUME NEW w \in Workers, Works(w), ~Commit(w) PROVE UNCHANGED <<rows, msgs>>
  BY <1>0, <1>6, FetchFields, OpenFields, AnswersFields, CallFields, LeavesFields DEF Works
<1>7. ASSUME NEW j \in Jobs, JobSteps(j) PROVE UNCHANGED <<rows, msgs>>
  BY <1>7 DEF JobSteps, Enqueue, Expire, ExpireSlow
<1> QED BY <1>3, <1>4, <1>5, <1>6, <1>7, StepCases DEF vars

-----------------------------------------------------------------------------
(* A completed job answered its lines.                                     *)

\* The conversation grows at its end.
LEMMA MsgsGrow ==
  ASSUME IInv, [Next]_vars PROVE \E t \in Seq(Message) : msgs' = msgs \o t
<1>0. TypeOK /\ msgs \in Seq(Message)
  BY DEF IInv, TypeOK
<1>1. CASE msgs' = msgs
  <2>1. <<>> \in Seq(Message) /\ msgs \o <<>> = msgs
    BY <1>0, EmptySeq
  <2> QED BY <1>1, <2>1
<1>2. ASSUME NEW role \in {"contact", "agent"}, FileLine(role)
      PROVE  \E t \in Seq(Message) : msgs' = msgs \o t
  <2>1. Line(role) \in Message
    BY DEF Line, Message
  <2>2. <<Line(role)>> \in Seq(Message) /\ Append(msgs, Line(role)) = msgs \o <<Line(role)>>
    BY <1>0, <2>1
  <2> QED BY <1>2, <2>2 DEF FileLine
<1>3. ASSUME NEW w \in Workers, Commit(w) PROVE \E t \in Seq(Message) : msgs' = msgs \o t
  BY <1>0, <1>3, CommitFields DEF TypeOK, Worker
<1>4. ASSUME NEW w \in Workers, Works(w), ~Commit(w) PROVE msgs' = msgs
  BY <1>0, <1>4, FetchFields, OpenFields, AnswersFields, CallFields, LeavesFields DEF Works
<1>5. ASSUME NEW j \in Jobs, JobSteps(j) PROVE msgs' = msgs
  BY <1>5 DEF JobSteps, Enqueue, Expire, ExpireSlow
<1> QED BY <1>1, <1>2, <1>3, <1>4, <1>5, StepCases DEF vars

LEMMA LastGrows ==
  ASSUME NEW s \in Seq(Message), NEW t \in Seq(Message), NEW roles
  PROVE  /\ Last(Places(s, roles)) \in Nat /\ Last(Places(s \o t, roles)) \in Nat
         /\ Last(Places(s, roles)) <= Last(Places(s \o t, roles))
<1> DEFINE A == Places(s, roles)
           B == Places(s \o t, roles)
<1>1. s \o t \in Seq(Message)
  OBVIOUS
<1>2. A \in SUBSET (1..Len(s)) /\ B \in SUBSET (1..Len(s \o t)) /\ Len(s) \in Nat /\ Len(s \o t) \in Nat
  BY <1>1, PlacesInRange
<1>3. A \subseteq B
  <2>1. \A i \in DOMAIN s : i \in DOMAIN (s \o t) /\ (s \o t)[i] = s[i]
    OBVIOUS
  <2> QED BY <2>1 DEF Places
<1> SUFFICES Last(A) \in Nat /\ Last(B) \in Nat /\ Last(A) <= Last(B)
  OBVIOUS
<1> HIDE DEF A, B
<1>4. /\ Last(A) \in 0..Len(s) /\ (A # {} => Last(A) \in A)
      /\ Last(B) \in 0..Len(s \o t) /\ \A k \in B : k <= Last(B)
  BY <1>2, LastIsHighest
<1>5. CASE A = {}
  BY <1>2, <1>4, <1>5 DEF Last
<1>6. CASE A # {}
  BY <1>2, <1>3, <1>4, <1>6
<1> QED BY <1>5, <1>6

\* A place that something of ours comes after.
LEMMA LastOfDraft ==
  ASSUME NEW s \in Seq(Message), NEW t \in Seq(Message), t # <<>>, NEW roles,
         t[1].role \in roles
  PROVE  Last(Places(s \o t, roles)) > Len(s)
<1>1. /\ s \o t \in Seq(Message) /\ Len(s) \in Nat /\ Len(s) + 1 \in DOMAIN (s \o t)
      /\ (s \o t)[Len(s) + 1] = t[1]
  OBVIOUS
<1>2. Len(s) + 1 \in Places(s \o t, roles)
  BY <1>1 DEF Places
<1>3. Places(s \o t, roles) \in SUBSET (1..Len(s \o t)) /\ Len(s \o t) \in Nat
  BY <1>1, PlacesInRange
<1>4. Last(Places(s \o t, roles)) \in Nat /\ Len(s) + 1 <= Last(Places(s \o t, roles))
  BY <1>2, <1>3, LastIsHighest
<1> QED BY <1>1, <1>4

LastOurs(s) == Last(Places(s, {"agent", "tool"}))

Answered(u) == u <= silent \/ u <= LastOurs(msgs)

UptoBehind == /\ silent <= LastLine(msgs)
              /\ \A j \in Jobs : jobs[j].upto <= LastLine(msgs)

DoneAnswered ==
    \A w \in Workers : agent /\ workers[w].pc = "done" => Answered(jobs[workers[w].job].upto)

LEMMA LinesGrow ==
  ASSUME IInv, [Next]_vars
  PROVE  /\ LastLine(msgs) \in Nat /\ LastLine(msgs') \in Nat
         /\ LastOurs(msgs) \in Nat /\ LastOurs(msgs') \in Nat
         /\ LastLine(msgs) <= LastLine(msgs') /\ LastOurs(msgs) <= LastOurs(msgs')
<1>1. PICK t \in Seq(Message) : msgs' = msgs \o t
  BY MsgsGrow
<1> QED BY <1>1, LastGrows DEF LastLine, LastOurs, IInv, TypeOK

LEMMA InitAnswers == Init => UptoBehind /\ DoneAnswered /\ CompletedIsAnswered
<1>1. SUFFICES ASSUME Init PROVE UptoBehind /\ DoneAnswered /\ CompletedIsAnswered
  OBVIOUS
<1>2. LastLine(msgs) \in Nat
  <2>1. msgs \in Seq(Message)
    BY <1>1, EmptySeq DEF Init
  <2> QED BY <2>1, PlacesInRange, LastIsHighest DEF LastLine
<1> QED BY <1>1, <1>2 DEF Init, UptoBehind, DoneAnswered, CompletedIsAnswered, IdleWorker

\* A turn that says nothing has read the last line, and the last line stays.
LEMMA SilentMoves ==
  ASSUME IInv, UptoBehind, [Next]_vars
  PROVE  silent' \in Nat /\ silent <= silent' /\ silent' <= LastLine(msgs')
<1>1. TypeOK /\ silent \in Nat /\ silent <= LastLine(msgs)
  BY DEF IInv, TypeOK, UptoBehind
<1>2. ASSUME NEW w \in Workers, Commit(w) PROVE silent' = silent \/ silent' = LastLine(msgs)
  BY <1>1, <1>2, CommitFields DEF IInv, AllSound, Sound, Holding
<1>3. ASSUME NEW w \in Workers, Works(w), ~Commit(w) PROVE silent' = silent
  BY <1>1, <1>3, FetchFields, OpenFields, AnswersFields, CallFields, LeavesFields DEF Works
<1>4. silent' = silent \/ silent' = LastLine(msgs)
  BY <1>2, <1>3, StepCases, OthersFields
<1> QED BY <1>1, <1>4, LinesGrow

LEMMA NextUpto == ASSUME IInv, TriesCounted, UptoBehind, [Next]_vars PROVE UptoBehind'
<1>1. SUFFICES ASSUME NEW j \in Jobs PROVE jobs'[j].upto <= LastLine(msgs')
  BY SilentMoves DEF UptoBehind
<1>2. /\ jobs \in [Jobs -> Job] /\ jobs[j].upto \in Nat /\ jobs[j].upto <= LastLine(msgs)
  BY DEF IInv, TypeOK, Job, UptoBehind
<1>3. CASE jobs'[j].upto = jobs[j].upto
  BY <1>2, <1>3, LinesGrow
<1>4. ASSUME NEW k \in Jobs, Enqueue(k)
      PROVE  jobs'[j].upto = jobs[j].upto \/ jobs'[j].upto = LastLine(msgs)
  BY <1>2, <1>4 DEF Enqueue
<1>5. ASSUME NEW k \in Jobs, Expire(k) \/ ExpireSlow(k) PROVE jobs'[j].upto = jobs[j].upto
  BY <1>2, <1>5 DEF Expire, ExpireSlow, FailedTry, Job
<1>6. ASSUME NEW w \in Workers, Works(w) PROVE jobs'[j].upto = jobs[j].upto
  <2>0. TypeOK
    BY DEF IInv
  <2>1. ASSUME NEW k \in Jobs, Fetch(w, k) PROVE jobs'[j].upto = jobs[j].upto
    <3>1. CASE k = j
      BY <2>0, <2>1, <3>1, FetchFields
    <3>2. CASE k # j
      BY <2>0, <2>1, <3>2, FetchFields
    <3> QED BY <3>1, <3>2
  <2>2. CASE Leaves(w)
    <3>1. Current(w) => workers[w].job \in Jobs
      BY DEF Current, TriesCounted, Busy
    <3>2. CASE Finish(w)
      BY <1>2, <3>1, <3>2 DEF Finish, Job
    <3>3. CASE Throw(w)
      BY <1>2, <3>1, <3>3 DEF Throw, FailedTry, Job
    <3>4. CASE Crash(w)
      BY <3>4 DEF Crash
    <3> QED BY <2>2, <3>2, <3>3, <3>4 DEF Leaves
  <2>3. CASE Open(w) \/ Answers(w) \/ Commit(w) \/ \E fate \in Fates : Call(w, fate)
    BY <2>0, <2>3, OpenFields, AnswersFields, CommitFields, CallFields
  <2> QED BY <1>6, <2>1, <2>2, <2>3 DEF Works
<1>7. CASE UNCHANGED vars \/ \E role \in {"contact", "agent"} : FileLine(role)
  BY <1>3, <1>7 DEF vars, FileLine
<1> QED BY <1>3, <1>4, <1>5, <1>6, <1>7, LinesGrow, StepCases DEF JobSteps

\* What was answered stays so.
LEMMA AnsweredStays ==
  ASSUME IInv, UptoBehind, [Next]_vars, NEW u \in Nat, Answered(u)
  PROVE  Answered(u)'
<1>1. silent \in Nat
  BY DEF IInv, TypeOK
<1> QED BY <1>1, SilentMoves, LinesGrow DEF Answered

LEMMA NextDoneAnswered ==
  ASSUME IInv, TriesCounted, UptoBehind, DoneAnswered, [Next]_vars PROVE DoneAnswered'
<1>0. TypeOK /\ agent' = agent
  <2>1. ASSUME NEW w \in Workers, Works(w) PROVE agent' = agent
    BY <2>1, FetchFields, OpenFields, AnswersFields, CommitFields, CallFields, LeavesFields
       DEF Works, IInv
  <2> QED BY <2>1, StepCases, OthersFields DEF IInv
<1>1. SUFFICES ASSUME NEW w \in Workers, agent, workers'[w].pc = "done"
               PROVE  Answered(jobs[workers[w].job].upto)'
  BY <1>0 DEF DoneAnswered
<1>2. Busy(w) /\ SameTurn(w)
  <2>1. \A j \in Jobs : ~Fetch(w, j)
    BY <1>0, <1>1, FetchFields
  <2> QED BY <1>1, <2>1, TurnKept DEF Busy
<1>3. PICK j \in Jobs : /\ j = workers[w].job /\ j = workers'[w].job
                        /\ jobs'[j].upto = jobs[j].upto /\ jobs[j].upto \in Nat
  <2>1. workers[w].job \in Jobs /\ jobs[workers[w].job].state \notin {"free", "created"}
    BY <1>2 DEF TriesCounted
  <2> QED BY <1>0, <1>2, <2>1, JobsMove DEF SameTurn, JobMove, TypeOK, Job
<1>4. SUFFICES Answered(jobs[j].upto)'
  BY <1>3
<1> DEFINE u == jobs[j].upto
<1>5. PICK n \in Nat : n = u
  BY <1>3
<1>6. SUFFICES Answered(n)'
  BY <1>3, <1>5
<1>7. n <= LastLine(msgs) /\ LastLine(msgs) \in Nat
  BY <1>5, LinesGrow DEF UptoBehind
<1>8. CASE workers[w].pc = "done"
  BY <1>1, <1>3, <1>5, <1>8, AnsweredStays DEF DoneAnswered
<1>9. CASE Open(w)
  <2>1. ~Pending(msgs)
    BY <1>0, <1>1, <1>9, OpenFields
  <2>2. LastLine(msgs) <= LastOurs(msgs)
    BY <1>7, <2>1, LinesGrow DEF Pending, LastOurs
  <2> QED BY <1>7, <2>2, LinesGrow, AnsweredStays DEF Answered
<1>10. CASE Commit(w)
  <2>1. /\ Holding(workers[w]) /\ workers[w].saw = LastLine(msgs)
        /\ \A i \in DOMAIN workers[w].draft : workers[w].draft[i].role \in {"agent", "tool"}
        /\ workers[w].draft \in Seq(Message) /\ msgs \in Seq(Message)
    BY <1>0, <1>10, CommitFields, WorkerType DEF Holding, Sound, Worker
  <2>2. CASE workers[w].draft = <<>>
    <3>1. silent' = LastLine(msgs)
      BY <1>0, <1>10, <2>1, <2>2, CommitFields
    <3> QED BY <1>7, <3>1 DEF Answered
  <2>3. CASE workers[w].draft # <<>>
    <3>1. 1 \in DOMAIN workers[w].draft
      BY <2>1, <2>3
    <3>2. LastOurs(msgs') > Len(msgs)
      BY <1>0, <1>10, <2>1, <2>3, <3>1, CommitFields, LastOfDraft DEF LastOurs
    <3>3. LastLine(msgs) <= Len(msgs) /\ Len(msgs) \in Nat
      BY <2>1, PlacesInRange, LastIsHighest DEF LastLine
    <3>4. n <= LastOurs(msgs')
      BY <1>7, <3>2, <3>3, LinesGrow
    <3> QED BY <3>4 DEF Answered
  <2> QED BY <2>2, <2>3
<1>11. workers[w].pc = "done" \/ Open(w) \/ Commit(w)
  <2>1. ASSUME NEW v \in Workers \ {w}, Works(v) PROVE workers[w].pc = "done"
    BY <1>0, <1>1, <2>1, MovedAlone
  <2>2. ASSUME Works(w) PROVE Open(w) \/ Commit(w)
    BY <1>0, <1>1, <2>2, FetchFields, AnswersFields, CallFields, LeavesFields
       DEF Works, Holding, IdleWorker
  <2>3. CASE UNCHANGED workers
    BY <1>1, <2>3
  <2> QED BY <2>1, <2>2, <2>3, StepCases, OthersFields
<1> QED BY <1>8, <1>9, <1>10, <1>11

LEMMA NextCompleted ==
  ASSUME IInv, TriesCounted, UptoBehind, DoneAnswered, CompletedIsAnswered, [Next]_vars
  PROVE  CompletedIsAnswered'
<1>0. TypeOK /\ agent' = agent
  <2>1. ASSUME NEW w \in Workers, Works(w) PROVE agent' = agent
    BY <2>1, FetchFields, OpenFields, AnswersFields, CommitFields, CallFields, LeavesFields
       DEF Works, IInv
  <2> QED BY <2>1, StepCases, OthersFields DEF IInv
<1>1. SUFFICES ASSUME NEW j \in Jobs, agent, jobs'[j].state = "completed"
               PROVE  Answered(jobs[j].upto)'
  BY <1>0 DEF CompletedIsAnswered, Answered, LastOurs
<1>2. jobs \in [Jobs -> Job] /\ jobs[j].upto \in Nat
  BY <1>0 DEF TypeOK, Job
<1>3. /\ jobs[j].state = "completed" \/ \E w \in Workers : Finish(w) /\ Current(w) /\ workers[w].job = j
      /\ jobs[j].state # "free" /\ jobs[j].state # "created"
  <2>1. CASE jobs'[j] = jobs[j]
    BY <1>1, <2>1
  <2>2. ASSUME NEW k \in Jobs, jobs' = [jobs EXCEPT ![k] = FailedTry(@)]
        PROVE  jobs[j].state = "completed"
    BY <1>1, <1>2, <2>2 DEF FailedTry, Job
  <2>3. ASSUME NEW k \in Jobs, JobSteps(k) PROVE jobs[j].state = "completed"
    <3>1. CASE Enqueue(k)
      BY <1>1, <1>2, <3>1 DEF Enqueue
    <3>2. CASE Expire(k) \/ ExpireSlow(k)
      BY <2>2, <3>2 DEF Expire, ExpireSlow
    <3> QED BY <2>3, <3>1, <3>2 DEF JobSteps
  <2>4. ASSUME NEW w \in Workers, Leaves(w)
        PROVE  \/ jobs[j].state = "completed"
               \/ /\ Finish(w) /\ Current(w) /\ workers[w].job = j
                  /\ jobs[j].state = "active"
    <3>1. Current(w) => workers[w].job \in Jobs
      BY DEF Current, TriesCounted, Busy
    <3>2. CASE Finish(w)
      BY <1>1, <1>2, <3>1, <3>2 DEF Finish, Current, Job
    <3>3. CASE Throw(w)
      BY <1>1, <2>2, <3>1, <3>3 DEF Throw
    <3>4. CASE Crash(w)
      BY <1>1, <3>4 DEF Crash
    <3> QED BY <2>4, <3>2, <3>3, <3>4 DEF Leaves
  <2>5. ASSUME NEW w \in Workers, NEW k \in Jobs, Fetch(w, k) PROVE jobs[j].state = "completed"
    <3>1. k # j
      BY <1>0, <1>1, <2>5, FetchFields
    <3> QED BY <1>0, <1>1, <2>5, <3>1, FetchFields
  <2>6. ASSUME NEW w \in Workers, Open(w) \/ Answers(w) \/ Commit(w) \/ \E fate \in Fates : Call(w, fate)
        PROVE  jobs' = jobs
    BY <1>0, <2>6, OpenFields, AnswersFields, CommitFields, CallFields
  <2>7. CASE UNCHANGED vars \/ \E role \in {"contact", "agent"} : FileLine(role)
    BY <2>1, <2>7 DEF vars, FileLine
  <2> QED BY <2>1, <2>3, <2>4, <2>5, <2>6, <2>7, StepCases DEF Works
<1>4. PICK n \in Nat : n = jobs[j].upto
  BY <1>2
<1>5. jobs'[j].upto = n
  BY <1>3, <1>4, JobsMove DEF JobMove
<1>6. Answered(n)
  BY <1>1, <1>3, <1>4 DEF CompletedIsAnswered, Answered, LastOurs, DoneAnswered, Finish
<1>7. Answered(n)'
  BY <1>6, AnsweredStays
<1> QED BY <1>5, <1>7

-----------------------------------------------------------------------------
(* Confirmations that went out.                                            *)

TurnsSent == {s.turn : s \in sent}

\* Those neither on record nor of a turn still open.
OffRecord == {s.turn : s \in {x \in sent : ~OnRecord(x.turn) /\ x.turn \notin OpenTurns}}

SentCounted == \A s \in sent : s.turn[2] <= jobs[s.turn[1]].tries

\* A turn has sent nothing before it is opened, and what it has sent since is
\* in its draft.
SentHeld ==
    \A w \in Workers : \A s \in sent : s.turn = TurnOf(workers[w]) =>
      /\ workers[w].pc # "fetched"
      /\ Holding(workers[w]) =>
           \E i \in DOMAIN workers[w].draft : workers[w].draft[i].fate = "sent"

LEMMA InitSends ==
  Init => SentCounted /\ SentHeld /\ IsFiniteSet(TurnsSent) /\ SendsAreOnRecord
<1>1. SUFFICES ASSUME Init
               PROVE  SentCounted /\ SentHeld /\ IsFiniteSet(TurnsSent) /\ SendsAreOnRecord
  OBVIOUS
<1>2. sent = {} /\ faults = 0 /\ TurnsSent = {}
  BY <1>1 DEF Init, TurnsSent
<1>3. OffRecord = {}
  BY <1>2 DEF OffRecord
<1>4. SendsAreOnRecord
  BY <1>2, <1>3, FS_EmptySet DEF SendsAreOnRecord, OffRecord
<1> QED BY <1>2, <1>4, FS_EmptySet DEF SentCounted, SentHeld

\* A step sends for one turn at most, which holds the conversation.
LEMMA SentMoves ==
  ASSUME IInv, [Next]_vars
  PROVE  \/ sent' = sent
         \/ \E w \in Workers : /\ Call(w, "sent") /\ Holding(workers[w])
                               /\ sent' = sent \cup {[turn |-> TurnOf(workers[w]),
                                                      saw  |-> workers[w].saw]}
<1>0. TypeOK
  BY DEF IInv
<1>1. ASSUME NEW w \in Workers, NEW fate \in Fates, Call(w, fate), fate # "sent" PROVE sent' = sent
  BY <1>0, <1>1, CallFields
<1>2. ASSUME NEW w \in Workers, Call(w, "sent")
      PROVE  /\ Holding(workers[w])
             /\ sent' = sent \cup {[turn |-> TurnOf(workers[w]), saw |-> workers[w].saw]}
  BY <1>0, <1>2, CallFields DEF Fates
<1>3. ASSUME NEW w \in Workers, Works(w), \A fate \in Fates : ~Call(w, fate) PROVE sent' = sent
  BY <1>0, <1>3, FetchFields, OpenFields, AnswersFields, CommitFields, LeavesFields DEF Works
<1> QED BY <1>1, <1>2, <1>3, StepCases, OthersFields

LEMMA NextSentCounted ==
  ASSUME IInv, TriesCounted, SentCounted, [Next]_vars PROVE SentCounted'
<1>1. SUFFICES ASSUME NEW s \in sent' PROVE s.turn[2] <= jobs'[s.turn[1]].tries
  BY DEF SentCounted
<1>2. /\ TypeOK /\ TypeOK' /\ \A j \in Jobs : JobMove(j)
  BY NextKeeps, JobsMove DEF IInv
<1>3. s.turn \in Jobs \X Nat
  BY <1>2 DEF TypeOK, Turns
<1>4. PICK j \in Jobs, k \in Nat : s.turn = <<j, k>>
  BY <1>3
<1>5. jobs[j].tries \in Nat /\ jobs'[j].tries \in Nat /\ jobs[j].tries <= jobs'[j].tries
  BY <1>2 DEF TypeOK, Job, JobMove
<1>6. k <= jobs[j].tries
  <2>1. CASE s \in sent
    BY <1>4, <2>1 DEF SentCounted
  <2>2. CASE s \notin sent
    <3>1. PICK w \in Workers : Holding(workers[w]) /\ s.turn = TurnOf(workers[w])
      BY <2>2, SentMoves
    <3> QED BY <1>4, <3>1 DEF TurnOf, TriesCounted, Busy, Holding
  <2> QED BY <2>1, <2>2
<1> QED BY <1>4, <1>5, <1>6

LEMMA NextSentHeld ==
  ASSUME IInv, TriesCounted, TriesApart, SentCounted, SentHeld, [Next]_vars PROVE SentHeld'
<1>0. TypeOK
  BY DEF IInv
<1>1. SUFFICES ASSUME NEW w \in Workers, NEW s \in sent', s.turn = TurnOf(workers'[w]), Busy(w)'
               PROVE  /\ workers'[w].pc # "fetched"
                      /\ Holding(workers'[w]) =>
                           \E i \in DOMAIN workers'[w].draft : workers'[w].draft[i].fate = "sent"
  BY DEF SentHeld, Busy, Holding
<1>2. ASSUME NEW j \in Jobs, Fetch(w, j) PROVE FALSE
  <2>1. s \in sent /\ s.turn[1] = j /\ s.turn[2] = jobs[j].tries + 1
    BY <1>0, <1>1, <1>2, FetchFields DEF TurnOf
  <2>2. jobs[j].tries \in Nat
    BY <1>0 DEF TypeOK, Job
  <2> QED BY <2>1, <2>2 DEF SentCounted
<1>3. Busy(w) /\ s.turn = TurnOf(workers[w])
  BY <1>1, <1>2, TurnKept DEF TurnOf, SameTurn
<1>4. s \notin sent => Call(w, "sent")
  <2>1. ASSUME s \notin sent PROVE Call(w, "sent")
    <3>1. PICK v \in Workers : /\ Call(v, "sent") /\ Holding(workers[v])
                               /\ s.turn = TurnOf(workers[v])
      BY <2>1, SentMoves
    <3>2. v = w
      BY <1>3, <3>1 DEF TriesApart, Busy, Holding
    <3> QED BY <3>1, <3>2
  <2> QED BY <2>1
<1>5. CASE workers'[w] = workers[w] /\ s \in sent
  BY <1>1, <1>5 DEF SentHeld
<1>6. CASE Open(w)
  <2>1. s \in sent
    BY <1>0, <1>6, OpenFields
  <2> QED BY <1>0, <1>3, <1>6, <2>1, OpenFields DEF SentHeld
<1>7. ASSUME NEW m \in Message, workers'[w].draft = Append(workers[w].draft, m), Holding(workers[w]),
             Holding(workers'[w]), m.fate = "sent" \/ s \in sent
      PROVE  /\ workers'[w].pc # "fetched"
             /\ \E i \in DOMAIN workers'[w].draft : workers'[w].draft[i].fate = "sent"
  <2>1. workers[w].draft \in Seq(Message)
    BY <1>0 DEF TypeOK, Worker
  <2>2. CASE m.fate = "sent"
    <3>1. /\ Len(workers[w].draft) + 1 \in DOMAIN workers'[w].draft
          /\ workers'[w].draft[Len(workers[w].draft) + 1] = m
      BY <1>7, <2>1
    <3> QED BY <1>7, <2>2, <3>1 DEF Holding
  <2>3. CASE s \in sent
    <3>1. PICK i \in DOMAIN workers[w].draft : workers[w].draft[i].fate = "sent"
      BY <1>3, <1>7, <2>3 DEF SentHeld
    <3>2. i \in DOMAIN workers'[w].draft /\ workers'[w].draft[i] = workers[w].draft[i]
      BY <1>7, <2>1, <3>1
    <3> QED BY <1>7, <3>1, <3>2 DEF Holding
  <2> QED BY <1>7, <2>2, <2>3
<1>8. CASE Answers(w)
  <2>1. s \in sent /\ Holding(workers[w]) /\ Holding(workers'[w])
    BY <1>0, <1>8, AnswersFields
  <2>2. CASE workers'[w].draft = workers[w].draft
    BY <1>3, <2>1, <2>2 DEF SentHeld, Holding
  <2>3. CASE workers'[w].draft = Append(workers[w].draft, Written(workers[w], "agent", "none"))
    BY <1>7, <2>1, <2>3, WrittenType
  <2> QED BY <1>0, <1>8, <2>2, <2>3, AnswersFields
<1>9. ASSUME NEW fate \in Fates, Call(w, fate)
      PROVE  /\ workers'[w].pc # "fetched"
             /\ \E i \in DOMAIN workers'[w].draft : workers'[w].draft[i].fate = "sent"
  <2>1. /\ Holding(workers[w]) /\ Holding(workers'[w])
        /\ workers'[w].draft = Append(workers[w].draft, Written(workers[w], "tool", fate))
        /\ fate = "sent" \/ s \in sent
    BY <1>0, <1>9, CallFields
  <2> QED BY <1>7, <2>1, WrittenType
<1>10. CASE Commit(w)
  BY <1>0, <1>10, CommitFields DEF Holding
<1>11. ~Leaves(w)
  BY <1>0, <1>1, LeavesFields DEF Busy, IdleWorker
<1>12. Works(w) \/ (workers'[w] = workers[w] /\ s \in sent)
  <2>1. ASSUME NEW v \in Workers \ {w}, Works(v) PROVE workers'[w] = workers[w]
    BY <1>0, <2>1, MovedAlone
  <2>2. s \in sent \/ Works(w)
    BY <1>4 DEF Works, Fates
  <2> QED BY <2>1, <2>2, StepCases, OthersFields
<1> QED BY <1>2, <1>5, <1>6, <1>8, <1>9, <1>10, <1>11, <1>12 DEF Works

LEMMA NextFinite == ASSUME IInv, IsFiniteSet(TurnsSent), [Next]_vars PROVE IsFiniteSet(TurnsSent')
<1>1. CASE sent' = sent
  BY <1>1 DEF TurnsSent
<1>2. ASSUME NEW w \in Workers,
             sent' = sent \cup {[turn |-> TurnOf(workers[w]), saw |-> workers[w].saw]}
      PROVE  IsFiniteSet(TurnsSent')
  <2> DEFINE x == [turn |-> TurnOf(workers[w]), saw |-> workers[w].saw]
  <2>1. TurnsSent' = TurnsSent \cup {x.turn}
    <3> HIDE DEF x
    <3>1. sent' = sent \cup {x}
      BY <1>2 DEF x
    <3> QED BY <3>1 DEF TurnsSent
  <2> QED BY <2>1, FS_AddElement
<1> QED BY <1>1, <1>2, SentMoves

\* What is on record stays.
LEMMA RecordGrows ==
  ASSUME IInv, [Next]_vars, NEW turn, OnRecord(turn) PROVE OnRecord(turn)'
<1>1. PICK t \in Seq(Message) : msgs' = msgs \o t
  BY MsgsGrow
<1>2. msgs \in Seq(Message)
  BY DEF IInv, TypeOK
<1>3. \A i \in DOMAIN msgs : i \in DOMAIN msgs' /\ msgs'[i] = msgs[i]
  BY <1>1, <1>2
<1> QED BY <1>3 DEF OnRecord

\* The turn that holds the conversation stays open, unless it commits, throws
\* or dies.
LEMMA OpenTurnsMove ==
  ASSUME IInv, [Next]_vars
  PROVE  \/ OpenTurns \subseteq OpenTurns'
         \/ \E w \in Workers : Commit(w) /\ lock = w
         \/ \E w \in Workers : lock = w /\ ~Finish(w) /\ Leaves(w)
<1>0. TypeOK
  BY DEF IInv
<1>1. SUFFICES ASSUME NEW w \in Workers, lock = w,
                      ~Commit(w), ~(~Finish(w) /\ Leaves(w))
               PROVE  lock' = w /\ TurnOf(workers'[w]) = TurnOf(workers[w])
  BY DEF OpenTurns
<1>2. Holding(workers[w]) /\ w # NoTx
  BY <1>1, TurnAssumption DEF IInv, OneHolds
<1>3. CASE Works(w)
  <2>1. ~Leaves(w)
    BY <1>1, <1>2 DEF Finish, Holding
  <2>2. (\A j \in Jobs : ~Fetch(w, j)) /\ ~Open(w)
    BY <1>0, <1>2, FetchFields, OpenFields DEF Holding
  <2>3. Answers(w) \/ \E fate \in Fates : Call(w, fate)
    BY <1>1, <1>3, <2>1, <2>2 DEF Works
  <2> QED BY <1>0, <1>1, <2>3, AnswersFields, CallFields DEF SameTurn, TurnOf
<1>4. ASSUME NEW v \in Workers \ {w}, Works(v)
      PROVE  lock' = w /\ TurnOf(workers'[w]) = TurnOf(workers[w])
  <2>1. workers'[w] = workers[w] /\ ~Holding(workers[v])
    BY <1>0, <1>1, <1>4, MovedAlone DEF IInv, OneHolds
  <2>2. lock' = lock
    <3>1. ASSUME NEW j \in Jobs, Fetch(v, j) PROVE lock' = lock
      BY <1>0, <3>1, FetchFields
    <3>2. ~Open(v) /\ ~Answers(v) /\ ~Commit(v) /\ \A fate \in Fates : ~Call(v, fate)
      BY <1>0, <1>1, <1>2, <2>1, OpenFields, AnswersFields, CommitFields, CallFields DEF Holding
    <3>3. Leaves(v) => lock' = lock
      BY <1>0, <1>1, <1>4, LeavesFields DEF Freed
    <3> QED BY <1>4, <3>1, <3>2, <3>3 DEF Works
  <2> QED BY <1>1, <2>1, <2>2
<1>5. CASE UNCHANGED <<lock, workers>>
  BY <1>1, <1>5
<1> QED BY <1>3, <1>4, <1>5, StepCases, OthersFields

LEMMA FaultsGrow ==
  ASSUME IInv, [Next]_vars
  PROVE  /\ faults \in Nat /\ faults' \in Nat /\ faults <= faults'
         /\ \A w \in Workers : ~Finish(w) /\ Leaves(w) => faults' = faults + 1
<1>1. TypeOK /\ faults \in Nat /\ faults' \in Nat
  BY NextKeeps DEF IInv, TypeOK
<1>2. \A w \in Workers : ~Finish(w) /\ Leaves(w) => faults' = faults + 1
  BY <1>1, LeavesFields
<1>3. ASSUME NEW w \in Workers, Works(w) PROVE faults <= faults'
  BY <1>1, <1>3, FetchFields, OpenFields, AnswersFields, CommitFields, CallFields, LeavesFields
     DEF Works
<1>4. ASSUME NEW j \in Jobs, JobSteps(j) PROVE faults <= faults'
  BY <1>1, <1>4 DEF JobSteps, Enqueue, Expire, ExpireSlow, Fault
<1>5. UNCHANGED vars \/ (\E role \in {"contact", "agent"} : FileLine(role)) => faults <= faults'
  BY <1>1 DEF vars, FileLine
<1> QED BY <1>1, <1>2, <1>3, <1>4, <1>5, StepCases

LEMMA NextSends ==
  ASSUME IInv, SentHeld, IsFiniteSet(TurnsSent), SendsAreOnRecord, [Next]_vars
  PROVE  SendsAreOnRecord'
<1>0. TypeOK
  BY DEF IInv
<1>1. SUFFICES Cardinality(OffRecord') <= faults'
  BY DEF SendsAreOnRecord, OffRecord
<1>2. /\ IsFiniteSet(OffRecord) /\ Cardinality(OffRecord) \in Nat
      /\ Cardinality(OffRecord) <= faults
  <2>1. OffRecord \subseteq TurnsSent
    BY DEF OffRecord, TurnsSent
  <2> QED BY <2>1, FS_Subset, FS_CardinalityType DEF SendsAreOnRecord, OffRecord
<1>3. ASSUME OffRecord' \subseteq OffRecord PROVE Cardinality(OffRecord') <= faults'
  <2>1. /\ IsFiniteSet(OffRecord') /\ Cardinality(OffRecord') <= Cardinality(OffRecord)
    BY <1>2, <1>3, FS_Subset
  <2>2. Cardinality(OffRecord') \in Nat
    BY <2>1, FS_CardinalityType
  <2> QED BY <1>2, <2>1, <2>2, FaultsGrow
<1>4. ASSUME NEW t \in OffRecord'
      PROVE  /\ ~OnRecord(t) /\ ~OnRecord(t)' /\ t \notin OpenTurns'
             /\ \/ \E s \in sent : s.turn = t
                \/ t \in OpenTurns /\ \E w \in Workers : Call(w, "sent")
  <2>1. PICK s \in sent' : s.turn = t /\ ~OnRecord(t)' /\ t \notin OpenTurns'
    BY <1>4 DEF OffRecord
  <2>2. s \in sent \/ (t \in OpenTurns /\ \E w \in Workers : Call(w, "sent"))
    <3>1. ASSUME NEW w \in Workers, Call(w, "sent"), Holding(workers[w]), t = TurnOf(workers[w])
          PROVE  t \in OpenTurns
      BY <3>1 DEF IInv, OneHolds, OpenTurns
    <3> QED BY <2>1, <3>1, SentMoves
  <2> QED BY <2>1, <2>2, RecordGrows
<1>5. CASE OpenTurns \subseteq OpenTurns'
  <2>1. OffRecord' \subseteq OffRecord
    BY <1>4, <1>5 DEF OffRecord
  <2> QED BY <1>3, <2>1
<1>6. ASSUME NEW w \in Workers, lock = w PROVE OpenTurns = {TurnOf(workers[w])}
  BY <1>6 DEF OpenTurns
<1>7. ASSUME NEW w \in Workers, Commit(w), lock = w PROVE Cardinality(OffRecord') <= faults'
  <2>1. sent' = sent /\ msgs' = msgs \o workers[w].draft /\ Holding(workers[w])
    BY <1>0, <1>7, CommitFields DEF Holding
  <2>2. /\ msgs \in Seq(Message) /\ workers[w].draft \in Seq(Message)
        /\ \A i \in DOMAIN workers[w].draft : workers[w].draft[i].turn = TurnOf(workers[w])
    BY WorkerType DEF Worker, Sound
  <2>3. ASSUME NEW s \in sent, s.turn = TurnOf(workers[w]) PROVE OnRecord(TurnOf(workers[w])) \/ OnRecord(s.turn)'
    <3>1. PICK i \in DOMAIN workers[w].draft : workers[w].draft[i].fate = "sent"
      BY <2>1, <2>3 DEF SentHeld
    <3>2. /\ Len(msgs) + i \in DOMAIN msgs' /\ msgs'[Len(msgs) + i] = workers[w].draft[i]
      BY <2>1, <2>2, <3>1
    <3> QED BY <2>2, <2>3, <3>1, <3>2 DEF OnRecord
  <2>4. OffRecord' \subseteq OffRecord
    <3>1. SUFFICES ASSUME NEW t \in OffRecord' PROVE t \in OffRecord
      OBVIOUS
    <3>2. ~OnRecord(t) /\ ~OnRecord(t)'
      BY <1>4
    <3>3. PICK s \in sent : s.turn = t
      BY <2>1, <3>1 DEF OffRecord
    <3>4. t # TurnOf(workers[w])
      BY <2>3, <3>2, <3>3
    <3> QED BY <1>6, <1>7, <3>2, <3>3, <3>4 DEF OffRecord
  <2> QED BY <1>3, <2>4
<1>8. ASSUME NEW w \in Workers, lock = w, ~Finish(w), Leaves(w)
      PROVE  Cardinality(OffRecord') <= faults'
  <2>1. PICK turn : turn = TurnOf(workers[w])
    OBVIOUS
  <2>2. OffRecord' \subseteq OffRecord \cup {turn}
    <3>1. sent' = sent
      BY <1>0, <1>8, LeavesFields
    <3> QED BY <1>4, <1>6, <1>8, <2>1, <3>1 DEF OffRecord
  <2>3. /\ IsFiniteSet(OffRecord \cup {turn})
        /\ Cardinality(OffRecord \cup {turn}) <= Cardinality(OffRecord) + 1
        /\ Cardinality(OffRecord \cup {turn}) \in Nat
    <3>1. /\ IsFiniteSet(OffRecord \cup {turn})
          /\ Cardinality(OffRecord \cup {turn})
               = IF turn \in OffRecord THEN Cardinality(OffRecord) ELSE Cardinality(OffRecord) + 1
      BY <1>2, FS_AddElement
    <3> QED BY <1>2, <3>1
  <2>4. /\ IsFiniteSet(OffRecord')
        /\ Cardinality(OffRecord') <= Cardinality(OffRecord \cup {turn})
    BY <2>2, <2>3, FS_Subset
  <2>5. Cardinality(OffRecord') \in Nat
    BY <2>4, FS_CardinalityType
  <2> QED BY <1>2, <1>8, <2>3, <2>4, <2>5, FaultsGrow
<1> QED BY <1>5, <1>7, <1>8, OpenTurnsMove

-----------------------------------------------------------------------------
(* The theorems that need the tries, the drafts' rows and their sends.     *)

FullInv == /\ IInv /\ TriesCounted /\ TriesApart
           /\ DraftRows /\ RowsMatch
           /\ UptoBehind /\ DoneAnswered /\ CompletedIsAnswered
           /\ SentCounted /\ SentHeld /\ IsFiniteSet(TurnsSent) /\ SendsAreOnRecord

LEMMA FullInvariance == Spec => []FullInv
<1>1. Init => FullInv
  BY InitInv, InitTries, InitRows, InitAnswers, InitSends DEF FullInv
<1>2. FullInv /\ [Next]_vars => FullInv'
  <2>1. SUFFICES ASSUME FullInv, [Next]_vars PROVE FullInv'
    OBVIOUS
  <2>2. IsFiniteSet(TurnsSent)'
    BY <2>1, NextFinite DEF FullInv
  <2> QED BY <2>1, <2>2, NextKeeps, NextTries, NextDraftRows, NextRows, NextUpto,
             NextDoneAnswered, NextCompleted, NextSentCounted, NextSentHeld, NextSends
          DEF FullInv
<1> QED BY <1>1, <1>2, PTL DEF Spec

\* A job that completed left no line it was queued for unanswered, unless the
\* model read it and said nothing: an execution that finds another at work
\* waits for what becomes of it (agent-turn.ts:40-60).
THEOREM CompletedCorrect == Spec => []CompletedIsAnswered
BY FullInvariance, PTL DEF FullInv

\* Confirmations that are out with no record of them are no more than the
\* faults: nothing else parts a send from its message (loop.ts:166-200).
THEOREM SendsCorrect == Spec => []SendsAreOnRecord
BY FullInvariance, PTL DEF FullInv

\* The audit rows and the tasks are those of the tool messages that stand in
\* the conversation, whatever was rolled back or run twice (loop.ts:166-200).
THEOREM RowsCorrect == Spec => []RowsMatch
BY FullInvariance, PTL DEF FullInv
=============================================================================
