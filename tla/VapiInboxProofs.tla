--------------------------- MODULE VapiInboxProofs ---------------------------
(***************************************************************************)
(* What the webhook of VapiInbox promises, for any events, calls, drains   *)
(* and bounds.  Drains meet on the rows of their events, on the rows of    *)
(* the conversations they file into and, for a lead's memory, on nothing   *)
(* but these: IInv says who holds what and whose draft holds what.         *)
(***************************************************************************)
EXTENDS VapiInbox, FiniteSetTheorems, SequenceTheorems, TLAPS

-----------------------------------------------------------------------------
(* Types.                                                                  *)

NudgeStates == {"free", "created", "active", "retry", "completed", "failed"}

LEMMA InitTypeOK == Init => TypeOK
BY InboxAssumption DEF Init, TypeOK, NudgeRow, IdleDrain, Drain

LEMMA StoredFinite == IsFiniteSet(Stored) /\ Cardinality(Stored) \in Nat
<1>1. Stored \in SUBSET Events
  BY DEF Stored
<1> QED BY <1>1, InboxAssumption, FS_Subset, FS_CardinalityType

LEMMA OpenedType == ASSUME NEW lead \in BOOLEAN PROVE Opened(lead) \in Conversation
BY InboxAssumption, EmptySeq DEF Opened, Conversation

LEMMA EnsuredType ==
  ASSUME NEW conv \in Conversation \cup {NoConv} PROVE Ensured(conv) \in Conversation
BY OpenedType DEF Ensured

\* What the updates of an event do to a conversation.
LEMMA AmendedFields ==
  ASSUME NEW conv \in Conversation \cup {NoConv}, NEW e \in Events, Event[e].kind # "other"
  PROVE  /\ Amended(conv, e) \in Conversation
         /\ Amended(conv, e).lead = Ensured(conv).lead
         /\ Amended(conv, e).lines = IF Event[e].kind = "line"
                                     THEN Append(Ensured(conv).lines, e)
                                     ELSE Ensured(conv).lines
         /\ Ensured(conv).status = "completed" => Amended(conv, e).status = "completed"
<1> DEFINE k == Ensured(conv)
<1>1. k \in Conversation
  BY EnsuredType
<1>2. Event[e].kind \in {"line", "report", "status"}
  BY InboxAssumption DEF Kinds
<1>3. CASE Event[e].kind = "line"
  <2>1. Append(k.lines, e) \in Seq(Events)
    BY <1>1 DEF Conversation
  <2> QED BY <1>1, <1>3, <2>1 DEF Amended, Conversation
<1>4. CASE Event[e].kind = "report"
  BY <1>1, <1>4 DEF Amended, Conversation
<1>5. CASE Event[e].kind = "status"
  BY <1>1, <1>5 DEF Amended
<1> QED BY <1>2, <1>3, <1>4, <1>5

LEMMA ViewType ==
  ASSUME TypeOK, NEW p \in Drains, NEW c \in Calls
  PROVE  View(p, c) \in Conversation \cup {NoConv}
BY DEF TypeOK, Drain, View

LEMMA FailNudgeType ==
  ASSUME nudges \in [Nudges -> NudgeRow], NEW n, FailNudge(n)
  PROVE  nudges' \in [Nudges -> NudgeRow]
BY DEF FailNudge, NudgeRow

LEMMA FreedType ==
  ASSUME TypeOK, NEW p PROVE FreedBy(p) \in [Calls -> Drains \cup Outbound \cup {NoTx}]
BY DEF TypeOK, FreedBy

LEMMA AbortType ==
  ASSUME TypeOK, NEW p \in Drains, AbortDrain(p)
  PROVE  /\ drains' \in [Drains -> Drain]
         /\ convLock' \in [Calls -> Drains \cup Outbound \cup {NoTx}]
         /\ nudges' \in [Nudges -> NudgeRow]
<1>1. IdleDrain \in Drain
  BY DEF IdleDrain, Drain
<1> QED BY <1>1, FreedType, FailNudgeType DEF AbortDrain, TypeOK

LEMMA MovedType ==
  ASSUME NEW d \in Drain, NEW pc \in {"queued", "read", "filing"}, NEW todo \in SUBSET Events
  PROVE  [[d EXCEPT !.pc = pc] EXCEPT !.todo = todo] \in Drain
BY DEF Drain

LEMMA MarkedType ==
  ASSUME NEW d \in Drain, NEW e \in Events, NEW mark \in Filed
  PROVE  Marked(d, e, mark) \in Drain
<1>1. [d.marks EXCEPT ![e] = mark] \in [Events -> Filed \cup {"none"}]
  BY DEF Drain
<1>2. d.todo \ {e} \in SUBSET Events
  BY DEF Drain
<1> QED BY <1>1, <1>2 DEF Drain, Marked

LEMMA FiledType ==
  ASSUME TypeOK, NEW p \in Drains, NEW e \in Events, Event[e].kind # "other"
  PROVE  WithFiled(p, e) \in Drain
<1> DEFINE c == Event[e].call
           d == drains[p]
           conv == Amended(View(p, c), e)
           own == IF Remembers(p, e) THEN {e} ELSE d.own
           buried == IF Remembers(p, e) THEN d.buried \cup live ELSE d.buried
<1>1. c \in Calls /\ d \in Drain /\ live \in SUBSET Events
  BY InboxAssumption DEF TypeOK
<1>2. Marked(d, e, "processed") \in Drain
  BY <1>1, MarkedType DEF Filed
<1>3. conv \in Conversation
  BY <1>1, ViewType, AmendedFields
<1>4. own \in SUBSET Events /\ buried \in SUBSET Events
  BY <1>1 DEF Drain
<1>5. [Marked(d, e, "processed").draft EXCEPT ![c] = conv] \in [Calls -> Conversation \cup {NoConv}]
  BY <1>1, <1>2, <1>3 DEF Drain
<1>6. WithFiled(p, e) = [Marked(d, e, "processed") EXCEPT
                           !.draft[c] = conv, !.own = own, !.buried = buried]
  BY DEF WithFiled
<1> HIDE DEF c, d, conv, own, buried
<1> QED BY <1>2, <1>4, <1>5, <1>6 DEF Drain

LEMMA FetchedType ==
  ASSUME NEW d \in Drain, NEW n \in Nudges, NEW k \in Nat
  PROVE  [d EXCEPT !.pc = "queued", !.nudge = n, !.try = k] \in Drain
BY DEF Drain

LEMMA FileType ==
  ASSUME TypeOK, NEW p \in Drains, NEW e \in Events, File(p, e) PROVE TypeOK'
<1> USE DEF TypeOK
<1>1. Event[e].call \in Calls
  BY InboxAssumption
<1>2. SUFFICES /\ drains' \in [Drains -> Drain]
               /\ convLock' \in [Calls -> Drains \cup Outbound \cup {NoTx}]
               /\ nudges' \in [Nudges -> NudgeRow]
               /\ faults' \in Nat
  BY DEF File
<1>3. ASSUME NEW mark \in Filed, drains' = [drains EXCEPT ![p] = Marked(@, e, mark)]
      PROVE  drains' \in [Drains -> Drain]
  BY <1>3, MarkedType
<1>4. CASE FileEvent(p, e)
  <2>1. WithFiled(p, e) \in Drain
    BY <1>4, FiledType DEF FileEvent
  <2>2. drains' \in [Drains -> Drain]
    BY <1>4, <2>1 DEF FileEvent
  <2> QED BY <1>1, <1>4, <2>2 DEF FileEvent
<1>5. CASE SkipEvent(p, e)
  BY <1>3, <1>5 DEF SkipEvent, Filed
<1>6. ASSUME NEW err, Catch(p, e, err)
      PROVE  /\ drains' \in [Drains -> Drain]
             /\ convLock' \in [Calls -> Drains \cup Outbound \cup {NoTx}]
             /\ nudges' \in [Nudges -> NudgeRow]
  BY <1>3, <1>6, AbortType DEF Catch, Filed
<1> QED BY <1>4, <1>5, <1>6 DEF File, FileBadEvent, Trouble

LEMMA CommitType == ASSUME TypeOK, NEW p \in Drains, Commit(p) PROVE TypeOK'
<1> USE DEF TypeOK
<1>1. drains' \in [Drains -> Drain]
  BY DEF Commit, IdleDrain, Drain
<1>2. status' \in [Events -> Filed \cup {"absent", "received"}]
  BY DEF Commit, Drain
<1>3. convs' \in [Calls -> Conversation \cup {NoConv}]
  BY DEF Commit, Drain
<1>4. convLock' \in [Calls -> Drains \cup Outbound \cup {NoTx}]
  BY FreedType DEF Commit
<1>5. live' \in SUBSET Events
  BY DEF Commit, Drain
<1> QED BY <1>1, <1>2, <1>3, <1>4, <1>5 DEF Commit

LEMMA DrainTypes ==
  ASSUME TypeOK, NEW p \in Drains, DrainStep(p) \/ DrainDies(p) PROVE TypeOK'
<1> USE DEF TypeOK
<1>1. CASE Read(p)
  <2>1. drains' \in [Drains -> Drain]
    BY <1>1, MovedType DEF Read
  <2> QED BY <1>1, <2>1 DEF Read
<1>2. CASE Lock(p)
  <2>1. PICK claim \in Claims(p, drains[p].todo) :
          drains' = [drains EXCEPT ![p].pc = "filing", ![p].todo = claim]
    BY <1>2 DEF Lock
  <2>2. claim \subseteq Events
    BY <2>1 DEF Claims, StillReceived, Drain
  <2>3. drains' \in [Drains -> Drain]
    BY <2>1, <2>2, MovedType
  <2> QED BY <1>2, <2>3 DEF Lock
<1>3. CASE Finish(p)
  <2>1. drains' \in [Drains -> Drain]
    BY <1>3 DEF Finish, IdleDrain, Drain
  <2>2. nudges' \in [Nudges -> NudgeRow]
    BY <1>3 DEF Finish, NudgeRow
  <2> QED BY <1>3, <2>1, <2>2 DEF Finish
<1>4. CASE DrainDies(p)
  <2>1. drains' \in [Drains -> Drain]
    BY <1>4 DEF DrainDies, IdleDrain, Drain
  <2>2. convLock' \in [Calls -> Drains \cup Outbound \cup {NoTx}]
    BY <1>4, FreedType DEF DrainDies
  <2> QED BY <1>4, <2>1, <2>2 DEF DrainDies
<1> QED BY <1>1, <1>2, <1>3, <1>4, FileType, CommitType DEF DrainStep

LEMMA NextTypes == ASSUME TypeOK, [Next]_vars PROVE TypeOK'
<1> USE DEF TypeOK
<1>1. ASSUME NEW e \in Events, Receive(e) PROVE TypeOK'
  <2>1. owed' \in Nat
    BY <1>1 DEF Receive
  <2> QED BY <1>1, <2>1, StoredFinite DEF Receive
<1>2. ASSUME NEW n \in Nudges, Nudge(n) PROVE TypeOK'
  <2>1. owed' \in Nat /\ nudges' \in [Nudges -> NudgeRow]
    BY <1>2 DEF Nudge, NudgeRow
  <2> QED BY <1>2, <2>1 DEF Nudge
<1>3. ASSUME NEW n \in Nudges, Expire(n) \/ ExpireSlow(n) PROVE TypeOK'
  BY <1>3, FailNudgeType DEF Expire, ExpireSlow
<1>4. CASE LoseNudge
  BY <1>4 DEF LoseNudge
<1>5. ASSUME NEW c \in Outbound, Dial(c) \/ InsertCall(c) \/ CommitCall(c) \/ LoseCall(c)
      PROVE  TypeOK'
  <2>1. c \in Calls
    BY InboxAssumption
  <2>2. CASE Dial(c)
    BY <2>2 DEF Dial
  <2>3. CASE InsertCall(c)
    BY <2>1, <2>3 DEF InsertCall
  <2>4. CASE CommitCall(c)
    BY <2>1, <2>4, OpenedType DEF CommitCall
  <2>5. CASE LoseCall(c)
    BY <2>1, <2>5 DEF LoseCall
  <2> QED BY <1>5, <2>2, <2>3, <2>4, <2>5
<1>6. ASSUME NEW p \in Drains, NEW n \in Nudges, Fetch(p, n) PROVE TypeOK'
  <2>1. nudges[n].tries + 1 \in Nat
    BY DEF NudgeRow
  <2>2. nudges' \in [Nudges -> NudgeRow]
    BY <1>6, <2>1 DEF Fetch, NudgeRow
  <2>3. drains'[p] \in Drain
    BY <1>6, <2>1, FetchedType DEF Fetch
  <2>4. drains' \in [Drains -> Drain]
    BY <1>6, <2>3 DEF Fetch
  <2> QED BY <1>6, <2>2, <2>4 DEF Fetch
<1>7. CASE UNCHANGED vars
  BY <1>7 DEF vars
<1> QED BY <1>1, <1>2, <1>3, <1>4, <1>5, <1>6, <1>7, DrainTypes DEF Next

\* Whatever drains, receivers and place_call do, every row keeps its shape; in
\* particular no event or conversation gets a status its column lacks.
THEOREM InboxTypes == Spec => []TypeOK
BY InitTypeOK, NextTypes, PTL DEF Spec

-----------------------------------------------------------------------------
(* Steps.  What each step does to a drain, and to what drains share.       *)

Received == {e \in Events : status[e] = "received"}

\* What a drain has read, and since it locked them what it holds.
Seen(p) == drains[p].todo \cup {e \in Events : drains[p].marks[e] # "none"}

AtRows(p) == drains[p].pc \in {"read", "filing"}

DrainInOrder(p) ==
    /\ ~AtRows(p) => drains[p].todo = {}
    /\ drains[p].pc # "filing" =>
         /\ \A e \in Events : drains[p].marks[e] = "none"
         /\ drains[p].own = {} /\ drains[p].buried = {}
         /\ \A c \in Calls : convLock[c] # p
    /\ \A e \in drains[p].todo : drains[p].marks[e] = "none"

InOrder == \A p \in Drains : DrainInOrder(p)

Leaves(p) ==
    /\ drains' = [drains EXCEPT ![p] = IdleDrain]
    /\ convLock' = FreedBy(p)
    /\ UNCHANGED <<status, convs, live, placing>>

Files(p, e) ==
    /\ drains[p].pc = "filing" /\ e \in drains[p].todo
    /\ FileEvent(p, e)
    /\ UNCHANGED <<status, convs, live, placing>>

Marks(p, e) ==
    /\ drains[p].pc = "filing" /\ e \in drains[p].todo
    /\ \E mark \in {"skipped", "failed"} : drains' = [drains EXCEPT ![p] = Marked(@, e, mark)]
    /\ UNCHANGED <<status, nudges, convs, convLock, live, placing>>

Outside ==
    /\ UNCHANGED <<drains, live>>
    /\ (\E e \in Events : Receive(e)) \/ UNCHANGED status
    /\ \/ \E c \in Outbound : InsertCall(c) \/ CommitCall(c) \/ LoseCall(c)
       \/ \E c \in Outbound : Dial(c) /\ UNCHANGED <<convs, convLock>>
       \/ UNCHANGED <<convs, convLock, placing>>

DrainMoves(p) ==
    \/ \E n \in Nudges : Fetch(p, n)
    \/ Read(p) \/ Lock(p) \/ Commit(p) \/ Leaves(p)
    \/ \E e \in Events : Files(p, e) \/ Marks(p, e)

LEMMA NextMoves ==
  ASSUME TypeOK, InOrder, [Next]_vars PROVE Outside \/ \E p \in Drains : DrainMoves(p)
<1>1. ASSUME NEW e \in Events, Receive(e) PROVE Outside
  BY <1>1 DEF Receive, Outside
<1>2. ASSUME NEW n \in Nudges, Nudge(n) \/ Expire(n) \/ ExpireSlow(n) PROVE Outside
  BY <1>2 DEF Nudge, Expire, ExpireSlow, Outside
<1>3. CASE LoseNudge
  BY <1>3 DEF LoseNudge, Outside
<1>4. ASSUME NEW c \in Outbound, Dial(c) \/ InsertCall(c) \/ CommitCall(c) \/ LoseCall(c)
      PROVE  Outside
  BY <1>4 DEF Dial, InsertCall, CommitCall, LoseCall, Outside
<1>5. ASSUME NEW p \in Drains, NEW n \in Nudges, Fetch(p, n) PROVE DrainMoves(p)
  BY <1>5 DEF DrainMoves
<1>6. ASSUME NEW p \in Drains, NEW e \in Events, File(p, e) PROVE DrainMoves(p)
  <2>1. /\ drains[p].pc = "filing" /\ e \in drains[p].todo
        /\ UNCHANGED <<status, convs, live, placing>>
    BY <1>6 DEF File, FirstOf
  <2>2. CASE FileEvent(p, e)
    BY <2>1, <2>2 DEF Files, DrainMoves
  <2>3. CASE SkipEvent(p, e)
    BY <2>1, <2>3 DEF SkipEvent, Marks, DrainMoves
  <2>4. CASE FileBadEvent(p, e)
    BY <2>1, <2>4 DEF FileBadEvent, Catch, EventsFault, Marks, DrainMoves
  <2>5. CASE Trouble(p, e)
    BY <2>1, <2>5 DEF Trouble, Catch, EventsFault, AbortDrain, Leaves, DrainMoves
  <2> QED BY <1>6, <2>2, <2>3, <2>4, <2>5 DEF File
<1>7. ASSUME NEW p \in Drains, Finish(p) PROVE DrainMoves(p)
  <2>1. \A c \in Calls : convLock[c] # p
    BY <1>7 DEF Finish, InOrder, DrainInOrder
  <2>2. FreedBy(p) = convLock
    BY <2>1 DEF FreedBy, TypeOK
  <2> QED BY <1>7, <2>2 DEF Finish, Leaves, DrainMoves
<1>8. ASSUME NEW p \in Drains, DrainDies(p) PROVE DrainMoves(p)
  BY <1>8 DEF DrainDies, Leaves, DrainMoves
<1>9. ASSUME NEW p \in Drains, DrainStep(p) PROVE DrainMoves(p)
  BY <1>6, <1>7, <1>9 DEF DrainStep, DrainMoves
<1>10. CASE UNCHANGED vars
  BY <1>10 DEF vars, Outside
<1> QED BY <1>1, <1>2, <1>3, <1>4, <1>5, <1>8, <1>9, <1>10 DEF Next

LEMMA MarkedFields ==
  ASSUME NEW d \in Drain, NEW e \in Events, NEW mark
  PROVE  LET m == Marked(d, e, mark) IN
         /\ m.todo = d.todo \ {e}
         /\ \A f \in Events : m.marks[f] = IF f = e THEN mark ELSE d.marks[f]
         /\ m.pc = d.pc /\ m.nudge = d.nudge /\ m.try = d.try
         /\ m.draft = d.draft /\ m.own = d.own /\ m.buried = d.buried
BY DEF Marked, Drain

LEMMA FiledFields ==
  ASSUME TypeOK, NEW p \in Drains, NEW e \in Events
  PROVE  LET d == drains[p]
             m == WithFiled(p, e) IN
         /\ m.todo = d.todo \ {e}
         /\ \A f \in Events : m.marks[f] = IF f = e THEN "processed" ELSE d.marks[f]
         /\ m.pc = d.pc /\ m.nudge = d.nudge /\ m.try = d.try
         /\ \A c \in Calls : m.draft[c] = IF c = Event[e].call
                                          THEN Amended(View(p, c), e) ELSE d.draft[c]
         /\ m.own = IF Remembers(p, e) THEN {e} ELSE d.own
         /\ m.buried = IF Remembers(p, e) THEN d.buried \cup live ELSE d.buried
<1> DEFINE d == drains[p]
           k == Marked(d, e, "processed")
           m == WithFiled(p, e)
           c0 == Event[e].call
<1>1. d \in Drain /\ k \in Drain /\ c0 \in Calls
  BY InboxAssumption, MarkedType DEF TypeOK, Filed
<1>2. m = [k EXCEPT !.draft[c0] = Amended(View(p, c0), e),
                    !.own = IF Remembers(p, e) THEN {e} ELSE d.own,
                    !.buried = IF Remembers(p, e) THEN d.buried \cup live ELSE d.buried]
  BY DEF WithFiled
<1>3. /\ m.todo = k.todo /\ m.marks = k.marks
      /\ m.pc = k.pc /\ m.nudge = k.nudge /\ m.try = k.try
      /\ \A c \in Calls : m.draft[c] = IF c = c0 THEN Amended(View(p, c), e) ELSE k.draft[c]
      /\ m.own = IF Remembers(p, e) THEN {e} ELSE d.own
      /\ m.buried = IF Remembers(p, e) THEN d.buried \cup live ELSE d.buried
  <2> HIDE DEF d, k, m, c0
  <2> QED BY <1>1, <1>2 DEF Drain
<1>4. /\ k.todo = d.todo \ {e}
      /\ \A f \in Events : k.marks[f] = IF f = e THEN "processed" ELSE d.marks[f]
      /\ k.pc = d.pc /\ k.nudge = d.nudge /\ k.try = d.try /\ k.draft = d.draft
  BY <1>1, MarkedFields
<1> HIDE DEF k, m
<1> QED BY <1>3, <1>4 DEF k, m

LEMMA IdleFields ==
  /\ IdleDrain.pc = "idle" /\ IdleDrain.todo = {}
  /\ \A e \in Events : IdleDrain.marks[e] = "none"
  /\ IdleDrain.own = {} /\ IdleDrain.buried = {}
BY DEF IdleDrain

\* The drain a step moves, and the fields that matter to the others.
LEMMA MovedAlone ==
  ASSUME TypeOK, NEW p \in Drains, DrainMoves(p), NEW q \in Drains, q # p
  PROVE  drains'[q] = drains[q]
<1>1. drains \in [Drains -> Drain]
  BY DEF TypeOK
<1>2. ASSUME NEW d, drains' = [drains EXCEPT ![p] = d] PROVE drains'[q] = drains[q]
  BY <1>1, <1>2
<1>3. \E d : drains' = [drains EXCEPT ![p] = d]
  <2>1. ASSUME NEW n \in Nudges, Fetch(p, n) PROVE \E d : drains' = [drains EXCEPT ![p] = d]
    BY <2>1 DEF Fetch
  <2>2. ASSUME Read(p) \/ Lock(p) \/ Commit(p) \/ Leaves(p) PROVE \E d : drains' = [drains EXCEPT ![p] = d]
    BY <2>2 DEF Read, Lock, Commit, Leaves
  <2>3. ASSUME NEW e \in Events, Files(p, e) \/ Marks(p, e) PROVE \E d : drains' = [drains EXCEPT ![p] = d]
    BY <2>3 DEF Files, FileEvent, Marks
  <2> QED BY <2>1, <2>2, <2>3 DEF DrainMoves
<1> QED BY <1>2, <1>3

LEMMA CommitFields ==
  ASSUME TypeOK, NEW p \in Drains, Commit(p)
  PROVE  /\ drains'[p].pc = "done" /\ drains'[p].todo = {}
         /\ \A e \in Events : drains'[p].marks[e] = "none"
         /\ drains'[p].own = {} /\ drains'[p].buried = {}
         /\ drains'[p].nudge = drains[p].nudge /\ drains'[p].try = drains[p].try
BY DEF TypeOK, Commit, IdleDrain

LEMMA ReadFields ==
  ASSUME TypeOK, NEW p \in Drains, Read(p)
  PROVE  /\ drains'[p].pc = "read" /\ drains'[p].todo = Received
         /\ drains'[p].marks = drains[p].marks
         /\ drains'[p].own = drains[p].own /\ drains'[p].buried = drains[p].buried
         /\ drains'[p].nudge = drains[p].nudge /\ drains'[p].try = drains[p].try
BY DEF TypeOK, Read, Drain, Received

LEMMA LockFields ==
  ASSUME TypeOK, NEW p \in Drains, Lock(p)
  PROVE  /\ drains[p].pc = "read" /\ Held(p, drains[p].todo) = {}
         /\ drains'[p].pc = "filing" /\ drains'[p].todo = drains[p].todo \cap Received
         /\ drains'[p].marks = drains[p].marks
         /\ drains'[p].own = drains[p].own /\ drains'[p].buried = drains[p].buried
         /\ drains'[p].nudge = drains[p].nudge /\ drains'[p].try = drains[p].try
<1>1. drains[p] \in Drain /\ drains[p].todo \subseteq Events
  BY DEF TypeOK, Drain
<1>2. PICK claim \in Claims(p, drains[p].todo) :
        drains' = [drains EXCEPT ![p].pc = "filing", ![p].todo = claim]
  BY DEF Lock
<1>3. Held(p, drains[p].todo) = {} /\ claim = StillReceived(drains[p].todo)
  BY <1>2 DEF Claims
<1>4. claim = drains[p].todo \cap Received
  BY <1>1, <1>3 DEF StillReceived, Received
<1> QED BY <1>1, <1>2, <1>3, <1>4 DEF TypeOK, Lock, Drain

LEMMA FetchFields ==
  ASSUME TypeOK, NEW p \in Drains, NEW n \in Nudges, Fetch(p, n)
  PROVE  /\ drains[p].pc = "idle" /\ drains'[p].pc = "queued"
         /\ drains'[p].nudge = n /\ drains'[p].try = nudges[n].tries + 1
         /\ drains'[p].todo = drains[p].todo /\ drains'[p].marks = drains[p].marks
         /\ drains'[p].own = drains[p].own /\ drains'[p].buried = drains[p].buried
BY DEF TypeOK, Fetch, Drain

LEMMA FilesFields ==
  ASSUME TypeOK, NEW p \in Drains, NEW e \in Events, Files(p, e)
  PROVE  /\ drains[p].pc = "filing" /\ e \in drains[p].todo
         /\ drains'[p] = WithFiled(p, e)
         /\ drains'[p].todo = drains[p].todo \ {e}
         /\ \A f \in Events : drains'[p].marks[f] = IF f = e THEN "processed"
                                                             ELSE drains[p].marks[f]
         /\ drains'[p].pc = "filing"
         /\ drains'[p].nudge = drains[p].nudge /\ drains'[p].try = drains[p].try
<1>1. drains'[p] = WithFiled(p, e)
  BY DEF TypeOK, Files, FileEvent
<1>2. drains[p].pc = "filing" /\ e \in drains[p].todo
  BY DEF Files
<1>3. /\ WithFiled(p, e).todo = drains[p].todo \ {e}
      /\ \A f \in Events : WithFiled(p, e).marks[f] = IF f = e THEN "processed"
                                                              ELSE drains[p].marks[f]
      /\ WithFiled(p, e).pc = drains[p].pc
      /\ WithFiled(p, e).nudge = drains[p].nudge /\ WithFiled(p, e).try = drains[p].try
  BY FiledFields
<1> QED BY <1>1, <1>2, <1>3

LEMMA MarksFields ==
  ASSUME TypeOK, NEW p \in Drains, NEW e \in Events, Marks(p, e)
  PROVE  /\ drains[p].pc = "filing" /\ e \in drains[p].todo
         /\ drains'[p].todo = drains[p].todo \ {e}
         /\ \A f \in Events \ {e} : drains'[p].marks[f] = drains[p].marks[f]
         /\ drains'[p].marks[e] \in {"skipped", "failed"}
         /\ drains'[p].pc = "filing" /\ drains'[p].draft = drains[p].draft
         /\ drains'[p].own = drains[p].own /\ drains'[p].buried = drains[p].buried
         /\ drains'[p].nudge = drains[p].nudge /\ drains'[p].try = drains[p].try
<1>1. PICK mark \in {"skipped", "failed"} : drains' = [drains EXCEPT ![p] = Marked(@, e, mark)]
  BY DEF Marks
<1>2. drains[p] \in Drain /\ drains'[p] = Marked(drains[p], e, mark)
  BY <1>1 DEF TypeOK
<1> QED BY <1>2, MarkedFields DEF Marks

LEMMA LeavesFields ==
  ASSUME TypeOK, NEW p \in Drains, Leaves(p)
  PROVE  /\ drains'[p] = IdleDrain
         /\ \A c \in Calls : convLock'[c] # p
BY InboxAssumption DEF TypeOK, Leaves, FreedBy

\* A drain takes only what nobody holds, and gives back only what is its own.
LEMMA LocksAlone ==
  ASSUME TypeOK, NEW p \in Drains, DrainMoves(p),
         NEW x \in Drains \cup Outbound, x # p, NEW c \in Calls
  PROVE  convLock'[c] = x <=> convLock[c] = x
<1>1. CASE convLock' = FreedBy(p)
  BY <1>1, InboxAssumption DEF FreedBy
<1>2. ASSUME NEW e \in Events, Files(p, e) PROVE convLock'[c] = x <=> convLock[c] = x
  BY <1>2, InboxAssumption DEF TypeOK, Files, FileEvent, MayTouch
<1>3. CASE UNCHANGED convLock
  BY <1>3
<1> QED BY <1>1, <1>2, <1>3 DEF DrainMoves, Fetch, Read, Lock, Commit, Leaves, Marks

-----------------------------------------------------------------------------
(* Who holds what.                                                         *)

PlacesHold ==
    \A c \in Outbound :
      /\ convLock[c] = c <=> placing[c] = "inserted"
      /\ placing[c] = "inserted" => convs[c] = NoConv

LEMMA LocksOutside ==
  ASSUME TypeOK, PlacesHold, Outside, NEW x \in Drains, NEW c \in Calls
  PROVE  convLock'[c] = x <=> convLock[c] = x
<1>1. x \notin Outbound /\ x # NoTx
  BY InboxAssumption
<1>2. ASSUME NEW o \in Outbound, InsertCall(o) \/ LoseCall(o) \/ CommitCall(o)
      PROVE  convLock'[c] = x <=> convLock[c] = x
  <2>1. CASE InsertCall(o)
    BY <1>1, <2>1 DEF TypeOK, InsertCall
  <2>2. CASE LoseCall(o)
    BY <1>1, <2>2, InboxAssumption DEF TypeOK, LoseCall
  <2>3. CASE CommitCall(o)
    BY <1>1, <2>3 DEF TypeOK, CommitCall, PlacesHold
  <2> QED BY <1>2, <2>1, <2>2, <2>3
<1> QED BY <1>2 DEF Outside

LEMMA InitPlacesHold == Init => PlacesHold
BY InboxAssumption DEF Init, PlacesHold

LEMMA NextPlacesHold ==
  ASSUME TypeOK, PlacesHold, InOrder, [Next]_vars PROVE PlacesHold'
<1>1. Outbound \subseteq Calls /\ \A c \in Outbound : c \notin Drains /\ c # NoTx
  BY InboxAssumption
<1>2. CASE Outside
  <2>1. ASSUME NEW o \in Outbound, Dial(o), UNCHANGED <<convs, convLock>> PROVE PlacesHold'
    BY <1>1, <2>1 DEF PlacesHold, TypeOK, Dial
  <2>2. ASSUME NEW o \in Outbound, InsertCall(o) PROVE PlacesHold'
    BY <1>1, <2>2 DEF PlacesHold, TypeOK, InsertCall
  <2>3. ASSUME NEW o \in Outbound, CommitCall(o) PROVE PlacesHold'
    BY <1>1, <2>3 DEF PlacesHold, TypeOK, CommitCall
  <2>4. ASSUME NEW o \in Outbound, LoseCall(o) PROVE PlacesHold'
    BY <1>1, <2>4 DEF PlacesHold, TypeOK, LoseCall
  <2>5. CASE UNCHANGED <<convs, convLock, placing>>
    BY <2>5 DEF PlacesHold
  <2> QED BY <1>2, <2>1, <2>2, <2>3, <2>4, <2>5 DEF Outside
<1>3. ASSUME NEW p \in Drains, DrainMoves(p) PROVE PlacesHold'
  <2>1. UNCHANGED placing
    BY <1>3 DEF DrainMoves, Fetch, Read, Lock, Commit, Leaves, Files, Marks
  <2>2. ASSUME NEW c \in Outbound PROVE convLock'[c] = c <=> convLock[c] = c
    BY <1>1, <1>3, LocksAlone
  <2>3. ASSUME NEW c \in Outbound, placing[c] = "inserted" PROVE convs'[c] = convs[c]
    <3>1. convLock[c] = c /\ c # p
      BY <1>1, <2>3 DEF PlacesHold
    <3>2. CASE Commit(p)
      BY <1>1, <3>1, <3>2 DEF Commit
    <3>3. CASE UNCHANGED convs
      BY <3>3
    <3> QED BY <1>3, <3>2, <3>3 DEF DrainMoves, Fetch, Read, Lock, Leaves, Files, Marks
  <2> QED BY <2>1, <2>2, <2>3 DEF PlacesHold
<1> QED BY <1>2, <1>3, NextMoves

LEMMA InitInOrder == Init => InOrder
BY InboxAssumption DEF Init, InOrder, DrainInOrder, IdleDrain, AtRows

LEMMA NextInOrder ==
  ASSUME TypeOK, PlacesHold, InOrder, [Next]_vars PROVE InOrder'
<1>1. SUFFICES ASSUME NEW q \in Drains PROVE DrainInOrder(q)'
  BY DEF InOrder
<1>2. DrainInOrder(q)
  BY DEF InOrder
<1>3. CASE Outside
  <2>1. UNCHANGED drains
    BY <1>3 DEF Outside
  <2>2. \A c \in Calls : convLock'[c] = q <=> convLock[c] = q
    BY <1>3, LocksOutside
  <2> QED BY <1>2, <2>1, <2>2 DEF DrainInOrder, AtRows
<1>4. ASSUME NEW p \in Drains, DrainMoves(p), q # p PROVE DrainInOrder(q)'
  <2>1. drains'[q] = drains[q]
    BY <1>4, MovedAlone
  <2>2. \A c \in Calls : convLock'[c] = q <=> convLock[c] = q
    BY <1>4, LocksAlone
  <2> QED BY <1>2, <2>1, <2>2 DEF DrainInOrder, AtRows
<1>5. CASE DrainMoves(q)
  <2>1. ASSUME NEW n \in Nudges, Fetch(q, n) PROVE DrainInOrder(q)'
    <3>1. UNCHANGED convLock
      BY <2>1 DEF Fetch
    <3> QED BY <1>2, <2>1, <3>1, FetchFields DEF DrainInOrder, AtRows
  <2>2. CASE Read(q)
    <3>1. UNCHANGED convLock /\ drains[q].pc = "queued"
      BY <2>2 DEF Read
    <3>2. drains'[q].todo \subseteq Events
      BY <2>2, ReadFields DEF Received
    <3> QED BY <1>2, <2>2, <3>1, <3>2, ReadFields DEF DrainInOrder, AtRows
  <2>3. CASE Lock(q)
    <3>1. UNCHANGED convLock
      BY <2>3 DEF Lock
    <3> QED BY <1>2, <2>3, <3>1, LockFields DEF DrainInOrder, AtRows
  <2>4. CASE Commit(q)
    <3>1. \A c \in Calls : convLock'[c] # q
      BY <2>4, InboxAssumption DEF Commit, FreedBy
    <3> QED BY <2>4, <3>1, CommitFields DEF DrainInOrder, AtRows
  <2>5. CASE Leaves(q)
    BY <2>5, LeavesFields, IdleFields DEF DrainInOrder, AtRows
  <2>6. ASSUME NEW e \in Events, Files(q, e) PROVE DrainInOrder(q)'
    <3>1. drains[q].todo \subseteq Events
      BY DEF TypeOK, Drain
    <3> QED BY <1>2, <2>6, <3>1, FilesFields DEF DrainInOrder, AtRows
  <2>7. ASSUME NEW e \in Events, Marks(q, e) PROVE DrainInOrder(q)'
    <3>1. drains[q].todo \subseteq Events
      BY DEF TypeOK, Drain
    <3> QED BY <1>2, <2>7, <3>1, MarksFields DEF DrainInOrder, AtRows
  <2> QED BY <1>5, <2>1, <2>2, <2>3, <2>4, <2>5, <2>6, <2>7 DEF DrainMoves
<1> QED BY <1>3, <1>4, <1>5, NextMoves

-----------------------------------------------------------------------------
(* The rows.  Drains under their locks share none, and of two reads one    *)
(* contains what is left of the other; so at most one drain has any.       *)

RowsHeld ==
    /\ \A p \in Drains : Seen(p) \subseteq Stored
    /\ \A p \in Drains : drains[p].pc = "filing" => Seen(p) \subseteq Received
    /\ \A p, q \in Drains : p # q /\ drains[p].pc = "filing" /\ drains[q].pc = "filing" =>
         Seen(p) \cap Seen(q) = {}

ReadsNested ==
    \A p, q \in Drains : AtRows(p) /\ AtRows(q) =>
      Seen(p) \cap Received \subseteq Seen(q) \/ Seen(q) \cap Received \subseteq Seen(p)

LEMMA OneFiling ==
  ASSUME RowsHeld, ReadsNested, NEW p \in Drains, NEW q \in Drains, p # q,
         drains[p].pc = "filing", drains[q].pc = "filing"
  PROVE  Seen(p) = {} \/ Seen(q) = {}
BY DEF RowsHeld, ReadsNested, AtRows

\* How a step moves what its drain has seen.
SeenFiling(p) == /\ drains[p].pc = "filing" /\ drains'[p].pc = "filing"
                 /\ Seen(p)' = Seen(p)
SeenReading(p) == /\ drains[p].pc = "queued" /\ drains'[p].pc = "read"
                  /\ Seen(p)' = Received
SeenLocking(p) == /\ drains[p].pc = "read" /\ drains'[p].pc = "filing"
                  /\ Seen(p)' = Seen(p) \cap Received
                  /\ \A q \in Drains \ {p} : drains[q].pc = "filing" => Seen(p) \cap Seen(q) = {}
SeenGone(p) == ~AtRows(p)' /\ Seen(p)' = {}

LEMMA SeenMoves ==
  ASSUME TypeOK, InOrder, NEW p \in Drains, DrainMoves(p)
  PROVE  SeenFiling(p) \/ SeenReading(p) \/ SeenLocking(p) \/ SeenGone(p)
<1>1. DrainInOrder(p) /\ drains[p].todo \subseteq Events
  BY DEF InOrder, TypeOK, Drain
<1>2. ASSUME NEW n \in Nudges, Fetch(p, n) PROVE SeenGone(p)
  BY <1>1, <1>2, FetchFields DEF SeenGone, DrainInOrder, AtRows, Seen
<1>3. CASE Read(p)
  <2>1. drains[p].pc = "queued"
    BY <1>3 DEF Read
  <2>2. Seen(p)' = Received
    BY <1>1, <1>3, <2>1, ReadFields DEF DrainInOrder, Seen, Received
  <2> QED BY <1>3, <2>1, <2>2, ReadFields DEF SeenReading
<1>4. CASE Lock(p)
  <2>1. Seen(p) = drains[p].todo /\ Seen(p)' = drains[p].todo \cap Received
    BY <1>1, <1>4, LockFields DEF DrainInOrder, Seen
  <2>2. ASSUME NEW q \in Drains \ {p}, drains[q].pc = "filing" PROVE Seen(p) \cap Seen(q) = {}
    <3>1. Locked(q) = Seen(q)
      BY <2>2 DEF Locked, Seen
    <3> QED BY <1>4, <2>1, <2>2, <3>1, LockFields DEF Held
  <2> QED BY <1>4, <2>1, <2>2, LockFields DEF SeenLocking
<1>5. CASE Commit(p)
  BY <1>5, CommitFields DEF SeenGone, AtRows, Seen
<1>6. CASE Leaves(p)
  BY <1>6, LeavesFields, IdleFields DEF SeenGone, AtRows, Seen
<1>7. ASSUME NEW e \in Events, Files(p, e) PROVE SeenFiling(p)
  <2>1. Seen(p)' = Seen(p)
    BY <1>1, <1>7, FilesFields DEF Seen
  <2> QED BY <1>7, <2>1, FilesFields DEF SeenFiling
<1>8. ASSUME NEW e \in Events, Marks(p, e) PROVE SeenFiling(p)
  <2>1. ASSUME NEW f \in Events
        PROVE  f \in Seen(p)' <=> f \in Seen(p)
    <3>1. CASE f = e
      BY <1>8, <3>1, MarksFields DEF Seen
    <3>2. CASE f # e
      BY <1>8, <3>2, MarksFields DEF Seen
    <3> QED BY <3>1, <3>2
  <2>2. drains'[p].todo \subseteq Events
    BY <1>1, <1>8, MarksFields
  <2>3. Seen(p)' = Seen(p)
    BY <1>1, <2>1, <2>2 DEF Seen
  <2> QED BY <1>8, <2>3, MarksFields DEF SeenFiling
<1> QED BY <1>2, <1>3, <1>4, <1>5, <1>6, <1>7, <1>8 DEF DrainMoves

LEMMA SeenAlone ==
  ASSUME TypeOK, NEW p \in Drains, DrainMoves(p), NEW q \in Drains, q # p
  PROVE  Seen(q)' = Seen(q) /\ drains'[q].pc = drains[q].pc /\ AtRows(q)' = AtRows(q)
BY MovedAlone DEF Seen, AtRows

\* Only a commit takes an event from those received, and only its own.
LEMMA ReceivedMoves ==
  ASSUME TypeOK, RowsHeld, NEW p \in Drains, DrainMoves(p)
  PROVE  \/ UNCHANGED status
         \/ /\ Commit(p) /\ drains[p].pc = "filing"
            /\ Stored' = Stored
            /\ Received' = Received \ Seen(p)
<1>1. CASE Commit(p)
  <2>1. /\ drains[p].pc = "filing" /\ drains[p].todo = {}
        /\ status' = [e \in Events |-> IF drains[p].marks[e] # "none" THEN drains[p].marks[e]
                                                                      ELSE status[e]]
    BY <1>1 DEF Commit
  <2>2. \A e \in Events : drains[p].marks[e] \in Filed \cup {"none"}
    BY DEF TypeOK, Drain
  <2>3. Received' = Received \ Seen(p)
    BY <2>1, <2>2 DEF Received, Seen, Filed
  <2>4. Stored' = Stored
    BY <2>1, <2>2 DEF RowsHeld, Stored, Seen, Filed
  <2> QED BY <1>1, <2>1, <2>3, <2>4
<1> QED BY <1>1 DEF DrainMoves, Fetch, Read, Lock, Leaves, Files, Marks

\* An event is received once.
LEMMA ReceivedOutside ==
  ASSUME TypeOK, Outside
  PROVE  /\ Stored \subseteq Stored' /\ Received \subseteq Received'
         /\ Received' \cap Stored = Received
<1>1. ASSUME NEW e \in Events, Receive(e) PROVE  /\ Stored \subseteq Stored' /\ Received \subseteq Received'
             /\ Received' \cap Stored = Received
  BY <1>1 DEF TypeOK, Receive, Stored, Received
<1>2. CASE UNCHANGED status
  BY <1>2 DEF Stored, Received
<1> QED BY <1>1, <1>2 DEF Outside

LEMMA InitRows == Init => RowsHeld /\ ReadsNested
BY DEF Init, RowsHeld, ReadsNested, AtRows, Seen, IdleDrain

LEMMA NextRowsHeld ==
  ASSUME TypeOK, InOrder, RowsHeld, [Next]_vars PROVE RowsHeld'
<1>1. CASE Outside
  <2>1. UNCHANGED drains
    BY <1>1 DEF Outside
  <2>2. \A p \in Drains : Seen(p)' = Seen(p)
    BY <2>1 DEF Seen
  <2> QED BY <1>1, <2>1, <2>2, ReceivedOutside DEF RowsHeld
<1>2. ASSUME NEW p \in Drains, DrainMoves(p) PROVE RowsHeld'
  <2>1. Received \subseteq Stored
    BY DEF Received, Stored
  <2>2. Stored' = Stored
    BY <1>2, ReceivedMoves DEF Stored
  <2>3. ASSUME NEW q \in Drains PROVE Seen(q)' \subseteq Stored'
    BY <1>2, <2>1, <2>2, SeenMoves, SeenAlone
       DEF RowsHeld, SeenFiling, SeenReading, SeenLocking, SeenGone
  <2>4. ASSUME NEW q \in Drains, q # p, drains'[q].pc = "filing"
        PROVE  /\ Seen(q)' \subseteq Received'
               /\ drains'[p].pc = "filing" => Seen(p)' \cap Seen(q)' = {}
    <3>1. Seen(q)' = Seen(q) /\ drains[q].pc = "filing"
      BY <1>2, <2>4, SeenAlone
    <3>2. Seen(q) \subseteq Received'
      BY <1>2, <2>4, <3>1, ReceivedMoves DEF RowsHeld, Received
    <3>3. drains'[p].pc = "filing" => Seen(p)' \cap Seen(q) = {}
      BY <1>2, <2>4, <3>1, SeenMoves
         DEF RowsHeld, SeenFiling, SeenReading, SeenLocking, SeenGone, AtRows
    <3> QED BY <3>1, <3>2, <3>3
  <2>5. ASSUME drains'[p].pc = "filing" PROVE Seen(p)' \subseteq Received'
    <3>1. ~Commit(p)
      BY <2>5, CommitFields
    <3>2. UNCHANGED status
      BY <1>2, <3>1, ReceivedMoves
    <3>3. Received' = Received
      BY <3>2 DEF Received
    <3> QED BY <1>2, <2>5, <3>3, SeenMoves
            DEF RowsHeld, SeenFiling, SeenReading, SeenLocking, SeenGone, AtRows
  <2>6. ASSUME NEW x \in Drains, NEW y \in Drains, x # y,
               drains'[x].pc = "filing", drains'[y].pc = "filing"
        PROVE  Seen(x)' \cap Seen(y)' = {}
    <3>1. CASE x = p \/ y = p
      BY <2>4, <2>6, <3>1
    <3>2. CASE x # p /\ y # p
      BY <1>2, <2>6, <3>2, SeenAlone DEF RowsHeld
    <3> QED BY <3>1, <3>2
  <2> QED BY <2>3, <2>4, <2>5, <2>6 DEF RowsHeld
<1> QED BY <1>1, <1>2, NextMoves

LEMMA NextReadsNested ==
  ASSUME TypeOK, InOrder, RowsHeld, ReadsNested, [Next]_vars PROVE ReadsNested'
<1>1. CASE Outside
  <2>1. UNCHANGED drains
    BY <1>1 DEF Outside
  <2>2. \A p \in Drains : Seen(p)' = Seen(p) /\ AtRows(p)' = AtRows(p)
    BY <2>1 DEF Seen, AtRows
  <2>3. \A p \in Drains : Seen(p) \cap Received' = Seen(p) \cap Received
    BY <1>1, ReceivedOutside DEF RowsHeld
  <2> QED BY <2>2, <2>3 DEF ReadsNested
<1>2. ASSUME NEW p \in Drains, DrainMoves(p) PROVE ReadsNested'
  <2>1. Received' \subseteq Received
    BY <1>2, ReceivedMoves DEF Received
  <2>2. ASSUME NEW q \in Drains, q # p, AtRows(p)', AtRows(q)'
        PROVE  Seen(p)' \cap Received' \subseteq Seen(q)' \/ Seen(q)' \cap Received' \subseteq Seen(p)'
    <3>1. Seen(q)' = Seen(q) /\ AtRows(q)
      BY <1>2, <2>2, SeenAlone
    <3>2. CASE SeenReading(p)
      BY <2>1, <3>2 DEF SeenReading
    <3>3. CASE SeenFiling(p) \/ SeenLocking(p)
      <4>1. AtRows(p) /\ Seen(p)' \cap Received = Seen(p) \cap Received
        BY <3>3 DEF SeenFiling, SeenLocking, AtRows
      <4> QED BY <2>1, <3>1, <4>1 DEF ReadsNested
    <3> QED BY <1>2, <2>2, <3>2, <3>3, SeenMoves DEF SeenGone
  <2>3. ASSUME NEW x \in Drains, NEW y \in Drains, x # p, y # p, AtRows(x)', AtRows(y)'
        PROVE  Seen(x)' \cap Received' \subseteq Seen(y)' \/ Seen(y)' \cap Received' \subseteq Seen(x)'
    BY <1>2, <2>1, <2>3, SeenAlone DEF ReadsNested
  <2> QED BY <2>2, <2>3 DEF ReadsNested
<1> QED BY <1>1, <1>2, NextMoves

-----------------------------------------------------------------------------
(* The lead's memory.                                                      *)

OneMemory ==
    /\ \A x, y \in live : x = y
    /\ \A p \in Drains :
         /\ drains[p].own = {} => drains[p].buried = {}
         /\ \A x, y \in drains[p].own : x = y
         /\ drains[p].own # {} => live \subseteq drains[p].buried
         /\ \A e \in drains[p].own : drains[p].marks[e] = "processed"

LEMMA InitOneMemory == Init => OneMemory
BY DEF Init, OneMemory, IdleDrain

LEMMA NextOneMemory ==
  ASSUME TypeOK, InOrder, RowsHeld, ReadsNested, OneMemory, [Next]_vars PROVE OneMemory'
<1>1. \A p \in Drains : drains[p].own \subseteq Events
  BY DEF TypeOK, Drain
<1>2. CASE Outside
  BY <1>2 DEF Outside, OneMemory
<1>3. ASSUME NEW p \in Drains, DrainMoves(p), ~Commit(p) PROVE OneMemory'
  <2>1. UNCHANGED live
    BY <1>3 DEF DrainMoves, Fetch, Read, Lock, Leaves, Files, Marks
  <2>2. \A q \in Drains \ {p} : drains'[q] = drains[q]
    BY <1>3, MovedAlone
  <2> DEFINE Remembered ==
               /\ drains'[p].own = {} => drains'[p].buried = {}
               /\ \A x, y \in drains'[p].own : x = y
               /\ drains'[p].own # {} => live \subseteq drains'[p].buried
               /\ \A e \in drains'[p].own : drains'[p].marks[e] = "processed"
  <2>3. SUFFICES Remembered
    BY <2>1, <2>2 DEF OneMemory
  <2>4. ASSUME drains'[p].own = drains[p].own, drains'[p].buried = drains[p].buried,
               \A e \in drains[p].own : drains'[p].marks[e] = drains[p].marks[e]
        PROVE  Remembered
    BY <2>4 DEF OneMemory
  <2>5. ASSUME NEW n \in Nudges, Fetch(p, n) PROVE Remembered
    BY <2>4, <2>5, FetchFields
  <2>6. CASE Read(p)
    BY <2>4, <2>6, ReadFields
  <2>7. CASE Lock(p)
    BY <2>4, <2>7, LockFields
  <2>8. CASE Leaves(p)
    BY <2>8, LeavesFields, IdleFields
  <2>9. ASSUME NEW e \in Events, Marks(p, e) PROVE Remembered
    <3>1. e \notin drains[p].own
      BY <2>9, MarksFields DEF InOrder, DrainInOrder, OneMemory
    <3> QED BY <1>1, <2>4, <2>9, <3>1, MarksFields
  <2>10. ASSUME NEW e \in Events, Files(p, e) PROVE Remembered
    <3>1. /\ drains'[p].own = IF Remembers(p, e) THEN {e} ELSE drains[p].own
          /\ drains'[p].buried = IF Remembers(p, e) THEN drains[p].buried \cup live
                                                    ELSE drains[p].buried
      <4>1. drains'[p] = WithFiled(p, e)
        BY <2>10, FilesFields
      <4>2. /\ WithFiled(p, e).own = IF Remembers(p, e) THEN {e} ELSE drains[p].own
            /\ WithFiled(p, e).buried = IF Remembers(p, e) THEN drains[p].buried \cup live
                                                            ELSE drains[p].buried
        BY FiledFields
      <4> QED BY <4>1, <4>2
    <3>2. drains'[p].marks[e] = "processed"
      BY <2>10, FilesFields
    <3>3. CASE Remembers(p, e)
      BY <3>1, <3>2, <3>3
    <3>4. CASE ~Remembers(p, e)
      <4>1. e \notin drains[p].own
        BY <2>10, FilesFields DEF InOrder, DrainInOrder, OneMemory
      <4> QED BY <1>1, <2>4, <2>10, <3>1, <3>4, <4>1, FilesFields
    <3> QED BY <3>3, <3>4
  <2> QED BY <1>3, <2>5, <2>6, <2>7, <2>8, <2>9, <2>10 DEF DrainMoves
<1>4. ASSUME NEW p \in Drains, Commit(p) PROVE OneMemory'
  <2>1. /\ drains[p].pc = "filing"
        /\ live' = (live \ drains[p].buried) \cup drains[p].own
    BY <1>4 DEF Commit
  <2>2. CASE drains[p].own = {}
    <3>1. live' = live
      BY <2>1, <2>2 DEF OneMemory
    <3>2. \A q \in Drains \ {p} : drains'[q] = drains[q]
      BY <1>4, MovedAlone DEF DrainMoves
    <3> QED BY <1>4, <3>1, <3>2, CommitFields DEF OneMemory
  <2>3. CASE drains[p].own # {}
    <3>1. live' = drains[p].own
      BY <2>1, <2>3 DEF OneMemory
    <3>2. ASSUME NEW q \in Drains \ {p} PROVE drains'[q] = drains[q] /\ drains[q].own = {}
      <4>1. drains'[q] = drains[q]
        BY <1>4, MovedAlone DEF DrainMoves
      <4>2. Seen(p) # {}
        BY <1>1, <2>3 DEF OneMemory, Seen
      <4>3. drains[q].pc = "filing" => Seen(q) = {}
        BY <2>1, <4>2, OneFiling
      <4>4. drains[q].own # {} => drains[q].pc = "filing" /\ Seen(q) # {}
        BY <1>1 DEF InOrder, DrainInOrder, OneMemory, Seen
      <4> QED BY <4>1, <4>3, <4>4
    <3> QED BY <1>4, <3>1, <3>2, CommitFields DEF OneMemory
  <2> QED BY <2>2, <2>3
<1> QED BY <1>2, <1>3, <1>4, NextMoves

-----------------------------------------------------------------------------
(* The lines of a conversation.                                            *)

LEMMA TimesType ==
  ASSUME NEW e, NEW s \in Seq(Events)
  PROVE  /\ IsFiniteSet({i \in DOMAIN s : s[i] = e}) /\ Times(e, s) \in Nat
         /\ s = <<>> => Times(e, s) = 0
<1>1. DOMAIN s = 1..Len(s) /\ Len(s) \in Nat
  OBVIOUS
<1>2. IsFiniteSet(1..Len(s))
  BY <1>1, FS_Interval
<1>3. IsFiniteSet({i \in DOMAIN s : s[i] = e})
  BY <1>1, <1>2, FS_Subset
<1>4. s = <<>> => {i \in DOMAIN s : s[i] = e} = {}
  OBVIOUS
<1> QED BY <1>3, <1>4, FS_CardinalityType, FS_EmptySet DEF Times

LEMMA TimesAppend ==
  ASSUME NEW e, NEW f \in Events, NEW s \in Seq(Events)
  PROVE  Times(e, Append(s, f)) = Times(e, s) + (IF f = e THEN 1 ELSE 0)
<1> DEFINE at == {i \in DOMAIN s : s[i] = e}
           at1 == {i \in DOMAIN Append(s, f) : Append(s, f)[i] = e}
           n == Len(s) + 1
<1>1. IsFiniteSet(at) /\ n \notin at /\ Cardinality(at) \in Nat
  <2>1. IsFiniteSet(at)
    BY TimesType
  <2>2. n \notin DOMAIN s
    OBVIOUS
  <2> QED BY <2>1, <2>2, FS_CardinalityType
<1>2. DOMAIN Append(s, f) = DOMAIN s \cup {n}
  OBVIOUS
<1>3. Append(s, f)[n] = f /\ \A i \in DOMAIN s : Append(s, f)[i] = s[i]
  OBVIOUS
<1>4. at1 = IF f = e THEN at \cup {n} ELSE at
  BY <1>1, <1>2, <1>3
<1>5. Cardinality(at \cup {n}) = Cardinality(at) + 1
  BY <1>1, FS_AddElement
<1>6. Times(e, s) = Cardinality(at) /\ Times(e, Append(s, f)) = Cardinality(at1)
  BY DEF Times
<1> HIDE DEF at, at1, n
<1> QED BY <1>1, <1>4, <1>5, <1>6

\* A conversation as a later one holds it still.
Keeps(old, new) ==
    old # NoConv =>
      /\ new # NoConv /\ new.lead = old.lead
      /\ old.status = "completed" => new.status = "completed"
      /\ \A i \in DOMAIN old.lines : i \in DOMAIN new.lines /\ new.lines[i] = old.lines[i]

LEMMA KeepsOn == ASSUME NEW x, NEW y, NEW z, Keeps(x, y), Keeps(y, z) PROVE Keeps(x, z)
BY DEF Keeps

LEMMA AmendedKeeps ==
  ASSUME NEW conv \in Conversation \cup {NoConv}, NEW e \in Events, Event[e].kind # "other"
  PROVE  Keeps(conv, Amended(conv, e))
<1> DEFINE k == Amended(conv, e)
<1>1. SUFFICES ASSUME conv \in Conversation, conv # NoConv PROVE Keeps(conv, k)
  BY DEF Keeps
<1>2. Ensured(conv) = conv
  BY <1>1 DEF Ensured
<1>3. /\ k # NoConv /\ k.lead = conv.lead
      /\ conv.status = "completed" => k.status = "completed"
      /\ k.lines = IF Event[e].kind = "line" THEN Append(conv.lines, e) ELSE conv.lines
  BY <1>2, AmendedFields, NoConvAssumption
<1>4. conv.lines \in Seq(Events)
  BY <1>1 DEF Conversation
<1>5. \A i \in DOMAIN conv.lines : i \in DOMAIN k.lines /\ k.lines[i] = conv.lines[i]
  BY <1>3, <1>4
<1> QED BY <1>3, <1>5 DEF Keeps

\* What a drain has written of the conversations it holds: each is the
\* committed one, kept, with the lines of the events it has marked processed.
DraftHolds(p) ==
    /\ \A e \in Events : drains[p].marks[e] = "processed" => convLock[Event[e].call] = p
    /\ \A c \in Calls : convLock[c] = p =>
         LET draft == drains[p].draft[c] IN
         /\ draft \in Conversation
         /\ Keeps(convs[c], draft)
         /\ \E e \in Events : Event[e].call = c /\ drains[p].marks[e] = "processed"
         /\ \A e \in Events : Event[e].kind = "line" /\ Event[e].call = c =>
              Times(e, draft.lines) = Times(e, LinesOf(c))
                                        + IF drains[p].marks[e] = "processed" THEN 1 ELSE 0

DraftsHold == \A p \in Drains : DraftHolds(p)

LEMMA LinesOfType == ASSUME TypeOK, NEW c \in Calls PROVE LinesOf(c) \in Seq(Events)
BY EmptySeq DEF TypeOK, LinesOf, Conversation

LEMMA InitDrafts == Init => DraftsHold
BY InboxAssumption DEF Init, DraftsHold, DraftHolds, IdleDrain

\* The conversations a drain holds, nobody else writes.
LEMMA ConvsAlone ==
  ASSUME TypeOK, PlacesHold, NEW q \in Drains,
         Outside \/ \E p \in Drains \ {q} : DrainMoves(p)
  PROVE  /\ drains'[q] = drains[q]
         /\ \A c \in Calls : /\ convLock'[c] = q <=> convLock[c] = q
                             /\ convLock[c] = q => convs'[c] = convs[c] /\ LinesOf(c)' = LinesOf(c)
<1>1. CASE Outside
  <2>1. drains'[q] = drains[q]
    BY <1>1 DEF Outside
  <2>2. ASSUME NEW c \in Calls, convLock[c] = q PROVE convs'[c] = convs[c]
    <3>1. ASSUME NEW o \in Outbound, CommitCall(o) PROVE convs'[c] = convs[c]
      <4>1. placing[o] = "inserted" /\ convs' = [convs EXCEPT ![o] = Opened(TRUE)]
        BY <3>1 DEF CommitCall
      <4>2. convLock[o] = o /\ o # q
        BY <4>1, InboxAssumption DEF PlacesHold
      <4>3. c # o
        BY <2>2, <4>2
      <4> QED BY <4>1, <4>3 DEF TypeOK
    <3> QED BY <1>1, <3>1 DEF Outside, Dial, InsertCall, LoseCall
  <2> QED BY <1>1, <2>1, <2>2, LocksOutside DEF LinesOf
<1>2. ASSUME NEW p \in Drains, p # q, DrainMoves(p)
      PROVE  /\ drains'[q] = drains[q]
             /\ \A c \in Calls : /\ convLock'[c] = q <=> convLock[c] = q
                                 /\ convLock[c] = q => convs'[c] = convs[c]
  <2>1. \A c \in Calls : convLock[c] = q => convs'[c] = convs[c]
    <3>1. CASE Commit(p)
      BY <1>2, <3>1 DEF TypeOK, Commit
    <3>2. CASE UNCHANGED convs
      BY <3>2
    <3> QED BY <1>2, <3>1, <3>2 DEF DrainMoves, Fetch, Read, Lock, Leaves, Files, Marks
  <2> QED BY <1>2, <2>1, LocksAlone, MovedAlone
<1> QED BY <1>1, <1>2 DEF LinesOf

LEMMA FilesDraft ==
  ASSUME TypeOK, InOrder, NEW p \in Drains, DraftHolds(p), NEW e \in Events, Files(p, e)
  PROVE  DraftHolds(p)'
<1> DEFINE d == drains[p]
           c0 == Event[e].call
           view == View(p, c0)
           draft1 == drains'[p].draft
<1>1. /\ c0 \in Calls /\ Event[e].kind # "other" /\ MayTouch(p, c0)
      /\ convLock' = [convLock EXCEPT ![c0] = p]
      /\ UNCHANGED convs
  BY InboxAssumption DEF Files, FileEvent
<1>2. \A c \in Calls : convLock'[c] = p <=> c = c0 \/ convLock[c] = p
  BY <1>1 DEF TypeOK
<1>3. \A f \in Events : drains'[p].marks[f] = IF f = e THEN "processed" ELSE d.marks[f]
  BY FilesFields
<1>4. d.marks[e] = "none"
  BY FilesFields DEF InOrder, DrainInOrder
<1>5. \A c \in Calls : draft1[c] = IF c = c0 THEN Amended(View(p, c), e) ELSE d.draft[c]
  <2>1. drains'[p] = WithFiled(p, e)
    BY FilesFields
  <2>2. \A c \in Calls : WithFiled(p, e).draft[c] = IF c = c0 THEN Amended(View(p, c), e)
                                                             ELSE d.draft[c]
    BY FiledFields
  <2> QED BY <2>1, <2>2
<1>6. \A c \in Calls : LinesOf(c)' = LinesOf(c)
  BY <1>1 DEF LinesOf
<1>7. view \in Conversation \cup {NoConv} /\ Keeps(convs[c0], view)
  <2>1. convLock[c0] # p => Keeps(convs[c0], convs[c0])
    BY DEF Keeps
  <2> QED BY <1>1, <2>1, ViewType DEF View, DraftHolds
<1>8. ASSUME NEW f \in Events, Event[f].kind = "line", Event[f].call = c0
      PROVE  Times(f, Ensured(view).lines)
               = Times(f, LinesOf(c0)) + IF d.marks[f] = "processed" THEN 1 ELSE 0
  <2>1. CASE convLock[c0] = p
    <3>1. view = d.draft[c0] /\ view \in Conversation /\ Ensured(view) = view
      BY <1>1, <2>1, NoConvAssumption DEF View, DraftHolds, Ensured
    <3> QED BY <1>1, <1>8, <2>1, <3>1 DEF DraftHolds
  <2>2. CASE convLock[c0] # p
    <3>1. view = convs[c0] /\ d.marks[f] # "processed"
      BY <1>8, <2>2 DEF View, DraftHolds
    <3>2. Ensured(view).lines = LinesOf(c0)
      BY <3>1 DEF Ensured, LinesOf, Opened
    <3>3. Times(f, LinesOf(c0)) \in Nat
      BY <1>1, LinesOfType, TimesType
    <3> QED BY <3>1, <3>2, <3>3
  <2> QED BY <2>1, <2>2
<1>9. /\ draft1[c0] \in Conversation /\ Keeps(convs[c0], draft1[c0])
      /\ draft1[c0].lines = IF Event[e].kind = "line" THEN Append(Ensured(view).lines, e)
                                                      ELSE Ensured(view).lines
  <2>1. draft1[c0] = Amended(view, e)
    BY <1>1, <1>5
  <2>2. Keeps(view, Amended(view, e))
    BY <1>1, <1>7, AmendedKeeps
  <2>3. Keeps(convs[c0], Amended(view, e))
    BY <1>7, <2>2, KeepsOn
  <2> QED BY <1>1, <1>7, <2>1, <2>3, AmendedFields
<1>10. ASSUME NEW f \in Events, Event[f].kind = "line", Event[f].call = c0
       PROVE  Times(f, draft1[c0].lines)
                = Times(f, LinesOf(c0)) + IF drains'[p].marks[f] = "processed" THEN 1 ELSE 0
  <2>1. Times(f, LinesOf(c0)) \in Nat
    BY <1>1, LinesOfType, TimesType
  <2>2. Ensured(view).lines \in Seq(Events)
    BY <1>7, EnsuredType DEF Conversation
  <2>3. Event[e].kind = "line" => Times(f, draft1[c0].lines)
               = Times(f, Ensured(view).lines) + (IF e = f THEN 1 ELSE 0)
    BY <1>9, <2>2, TimesAppend
  <2>4. CASE f = e
    BY <1>3, <1>4, <1>8, <1>10, <2>1, <2>3, <2>4
  <2>5. CASE f # e
    <3>1. Times(f, draft1[c0].lines) = Times(f, Ensured(view).lines)
      <4>1. Times(f, Ensured(view).lines) \in Nat
        BY <2>2, TimesType
      <4> QED BY <1>9, <2>3, <2>5, <4>1
    <3> QED BY <1>3, <1>8, <1>10, <2>5, <3>1
  <2> QED BY <2>4, <2>5
<1>11. \A f \in Events : drains'[p].marks[f] = "processed" => convLock'[Event[f].call] = p
  BY <1>2, <1>3, InboxAssumption DEF DraftHolds
<1>12. ASSUME NEW c \in Calls, convLock'[c] = p, c # c0
       PROVE  /\ draft1[c] \in Conversation /\ Keeps(convs[c], draft1[c])
              /\ \E f \in Events : Event[f].call = c /\ drains'[p].marks[f] = "processed"
              /\ \A f \in Events : Event[f].kind = "line" /\ Event[f].call = c =>
                   Times(f, draft1[c].lines)
                     = Times(f, LinesOf(c)) + IF drains'[p].marks[f] = "processed" THEN 1 ELSE 0
  <2>1. convLock[c] = p /\ draft1[c] = d.draft[c]
    BY <1>2, <1>5, <1>12
  <2>2. \A f \in Events : Event[f].call = c => drains'[p].marks[f] = d.marks[f]
    BY <1>3, <1>12
  <2> QED BY <2>1, <2>2 DEF DraftHolds
<1>13. \E f \in Events : Event[f].call = c0 /\ drains'[p].marks[f] = "processed"
  BY <1>3
<1> HIDE DEF d, c0, view
<1> QED BY <1>1, <1>6, <1>9, <1>10, <1>11, <1>12, <1>13 DEF DraftHolds

LEMMA NextDrafts ==
  ASSUME TypeOK, PlacesHold, InOrder, DraftsHold, [Next]_vars PROVE DraftsHold'
<1>1. SUFFICES ASSUME NEW q \in Drains PROVE DraftHolds(q)'
  BY DEF DraftsHold
<1>2. DraftHolds(q)
  BY DEF DraftsHold
<1>3. CASE Outside \/ \E p \in Drains \ {q} : DrainMoves(p)
  <2>1. /\ drains'[q] = drains[q]
        /\ \A c \in Calls : /\ convLock'[c] = q <=> convLock[c] = q
                            /\ convLock[c] = q => convs'[c] = convs[c] /\ LinesOf(c)' = LinesOf(c)
    BY <1>3, ConvsAlone
  <2>2. \A e \in Events : drains'[q].marks[e] = "processed" => convLock'[Event[e].call] = q
    BY <1>2, <2>1, InboxAssumption DEF DraftHolds
  <2> QED BY <1>2, <2>1, <2>2 DEF DraftHolds
<1>4. CASE drains'[q].pc # "filing"
  <2>1. InOrder'
    BY NextInOrder
  <2>2. DrainInOrder(q)'
    BY <2>1 DEF InOrder
  <2> QED BY <1>4, <2>2 DEF DrainInOrder, DraftHolds
<1>5. CASE Lock(q)
  <2>1. UNCHANGED convLock
    BY <1>5 DEF Lock
  <2>2. DrainInOrder(q) /\ drains[q].pc = "read"
    BY <1>5, LockFields DEF InOrder
  <2> QED BY <1>5, <2>1, <2>2, LockFields DEF DraftHolds, DrainInOrder
<1>6. ASSUME NEW e \in Events, Marks(q, e) PROVE DraftHolds(q)'
  <2>1. UNCHANGED <<convs, convLock>> /\ \A c \in Calls : LinesOf(c)' = LinesOf(c)
    BY <1>6 DEF Marks, LinesOf
  <2>2. drains[q].marks[e] = "none"
    BY <1>6, MarksFields DEF InOrder, DrainInOrder
  <2>3. \A f \in Events : drains'[q].marks[f] = "processed" <=> drains[q].marks[f] = "processed"
    BY <1>6, <2>2, MarksFields
  <2>4. drains'[q].draft = drains[q].draft
    BY <1>6, MarksFields
  <2> QED BY <1>2, <2>1, <2>3, <2>4 DEF DraftHolds
<1>7. DrainMoves(q) => drains'[q].pc # "filing" \/ Lock(q) \/ (\E e \in Events : Files(q, e) \/ Marks(q, e))
  BY FetchFields, ReadFields, CommitFields, LeavesFields, IdleFields DEF DrainMoves
<1> QED BY <1>2, <1>3, <1>4, <1>5, <1>6, <1>7, NextMoves, FilesDraft

LEMMA InitLines == Init => LinesMatchStatus /\ FailedLeavesNothing
<1>1. <<>> \in Seq(Events) /\ \A e : Times(e, <<>>) = 0
  BY EmptySeq, TimesType
<1> QED BY <1>1, InboxAssumption DEF Init, LinesMatchStatus, FailedLeavesNothing, LinesOf

\* What becomes of an event and of its call's conversation when a drain
\* commits.
LEMMA CommitEvent ==
  ASSUME TypeOK, RowsHeld, NEW p \in Drains, DraftHolds(p), Commit(p), NEW e \in Events
  PROVE  LET c == Event[e].call IN
         /\ status'[e] = IF drains[p].marks[e] # "none" THEN drains[p].marks[e] ELSE status[e]
         /\ drains[p].marks[e] # "none" => status[e] = "received"
         /\ drains[p].marks[e] = "processed" => convLock[c] = p
         /\ convs'[c] = IF convLock[c] = p THEN drains[p].draft[c] ELSE convs[c]
         /\ convLock[c] = p => convs'[c] # NoConv
<1>1. Event[e].call \in Calls
  BY InboxAssumption
<1>2. drains[p].marks[e] # "none" => status[e] = "received"
  BY DEF Commit, RowsHeld, Seen, Received
<1> QED BY <1>1, <1>2, NoConvAssumption DEF Commit, DraftHolds

LEMMA NextLines ==
  ASSUME TypeOK, PlacesHold, InOrder, RowsHeld, DraftsHold, LinesMatchStatus, [Next]_vars
  PROVE  LinesMatchStatus'
<1>1. SUFFICES ASSUME NEW e \in Events, Event[e].kind = "line"
               PROVE  Times(e, LinesOf(Event[e].call)')
                        = IF status'[e] = "processed" THEN 1 ELSE 0
  BY DEF LinesMatchStatus
<1> DEFINE c == Event[e].call
<1>2. c \in Calls /\ Times(e, LinesOf(c)) = IF status[e] = "processed" THEN 1 ELSE 0
  BY <1>1, InboxAssumption DEF LinesMatchStatus
<1>3. CASE Outside
  <2>1. LinesOf(c)' = LinesOf(c)
    <3>1. ASSUME NEW o \in Outbound, CommitCall(o) PROVE LinesOf(c)' = LinesOf(c)
      BY <1>2, <3>1 DEF TypeOK, CommitCall, PlacesHold, LinesOf, Opened
    <3>2. CASE UNCHANGED convs
      BY <3>2 DEF LinesOf
    <3> QED BY <1>3, <3>1, <3>2 DEF Outside, InsertCall, LoseCall
  <2>2. status'[e] = "processed" <=> status[e] = "processed"
    <3>1. ASSUME NEW f \in Events, Receive(f)
          PROVE  status'[e] = "processed" <=> status[e] = "processed"
      BY <3>1 DEF TypeOK, Receive, Stored
    <3> QED BY <1>3, <3>1 DEF Outside
  <2> QED BY <1>2, <2>1, <2>2
<1>4. ASSUME NEW p \in Drains, Commit(p)
      PROVE  Times(e, LinesOf(c)') = IF status'[e] = "processed" THEN 1 ELSE 0
  <2>1. DraftHolds(p)
    BY DEF DraftsHold
  <2>2. /\ status'[e] = IF drains[p].marks[e] # "none" THEN drains[p].marks[e] ELSE status[e]
        /\ drains[p].marks[e] # "none" => status[e] = "received"
        /\ drains[p].marks[e] = "processed" => convLock[c] = p
        /\ convs'[c] = IF convLock[c] = p THEN drains[p].draft[c] ELSE convs[c]
        /\ convLock[c] = p => convs'[c] # NoConv
    BY <1>4, <2>1, CommitEvent
  <2>3. CASE convLock[c] = p
    <3>1. LinesOf(c)' = drains[p].draft[c].lines
      BY <2>2, <2>3 DEF LinesOf
    <3>2. Times(e, drains[p].draft[c].lines)
            = Times(e, LinesOf(c)) + IF drains[p].marks[e] = "processed" THEN 1 ELSE 0
      BY <1>1, <1>2, <2>1, <2>3 DEF DraftHolds
    <3> QED BY <1>2, <2>2, <3>1, <3>2
  <2>4. CASE convLock[c] # p
    <3>1. LinesOf(c)' = LinesOf(c)
      BY <2>2, <2>4 DEF LinesOf
    <3> QED BY <1>2, <2>2, <2>4, <3>1
  <2> QED BY <2>3, <2>4
<1>5. ASSUME NEW p \in Drains, DrainMoves(p), ~Commit(p)
      PROVE  UNCHANGED <<status, convs>>
  BY <1>5 DEF DrainMoves, Fetch, Read, Lock, Leaves, Files, Marks
<1>6. CASE UNCHANGED <<status, convs>>
  BY <1>2, <1>6 DEF LinesOf
<1> QED BY <1>3, <1>4, <1>5, <1>6, NextMoves

LEMMA NextFailed ==
  ASSUME TypeOK, InOrder, RowsHeld, DraftsHold, FailedLeavesNothing, [Next]_vars
  PROVE  FailedLeavesNothing'
<1>1. SUFFICES ASSUME NEW c \in Calls, convs'[c] # NoConv
               PROVE  \/ c \in Outbound /\ placing'[c] = "placed"
                      \/ \E e \in Events : Event[e].call = c /\ status'[e] = "processed"
  BY DEF FailedLeavesNothing
<1>2. ASSUME convs[c] # NoConv
      PROVE  \/ c \in Outbound /\ placing[c] = "placed"
             \/ \E e \in Events : Event[e].call = c /\ status[e] = "processed"
  BY <1>2 DEF FailedLeavesNothing
<1>3. CASE Outside
  <2>1. \A e \in Events : status[e] = "processed" => status'[e] = "processed"
    <3>1. ASSUME NEW f \in Events, Receive(f)
          PROVE  \A e \in Events : status[e] = "processed" => status'[e] = "processed"
      BY <3>1 DEF TypeOK, Receive, Stored
    <3> QED BY <1>3, <3>1 DEF Outside
  <2>2. CASE convs'[c] = convs[c]
    <3>1. c \in Outbound /\ placing[c] = "placed" => placing'[c] = "placed"
      <4>1. ASSUME NEW o \in Outbound, Dial(o) \/ InsertCall(o) \/ CommitCall(o) \/ LoseCall(o)
            PROVE  c \in Outbound /\ placing[c] = "placed" => placing'[c] = "placed"
        BY <4>1 DEF TypeOK, Dial, InsertCall, CommitCall, LoseCall
      <4> QED BY <1>3, <4>1 DEF Outside
    <3> QED BY <1>1, <1>2, <2>1, <2>2, <3>1
  <2>3. CASE convs'[c] # convs[c]
    <3>1. PICK o \in Outbound : CommitCall(o)
      BY <1>3, <2>3 DEF Outside, Dial, InsertCall, LoseCall
    <3>2. o = c /\ placing'[c] = "placed"
      BY <2>3, <3>1 DEF TypeOK, CommitCall
    <3> QED BY <3>2
  <2> QED BY <2>2, <2>3
<1>4. ASSUME NEW p \in Drains, Commit(p)
      PROVE  \/ c \in Outbound /\ placing'[c] = "placed"
             \/ \E e \in Events : Event[e].call = c /\ status'[e] = "processed"
  <2>1. DraftHolds(p) /\ UNCHANGED placing
    BY <1>4 DEF DraftsHold, Commit
  <2>2. ASSUME NEW e \in Events
        PROVE  /\ status'[e] = IF drains[p].marks[e] # "none" THEN drains[p].marks[e]
                                                              ELSE status[e]
               /\ drains[p].marks[e] # "none" => status[e] = "received"
    BY <1>4, <2>1, CommitEvent
  <2>3. CASE convLock[c] = p
    <3>1. PICK e \in Events : Event[e].call = c /\ drains[p].marks[e] = "processed"
      BY <2>1, <2>3 DEF DraftHolds
    <3> QED BY <2>2, <3>1
  <2>4. CASE convLock[c] # p
    <3>1. convs'[c] = convs[c]
      BY <1>4, <2>4 DEF Commit
    <3> QED BY <1>1, <1>2, <2>1, <2>2, <3>1
  <2> QED BY <2>3, <2>4
<1>5. ASSUME NEW p \in Drains, DrainMoves(p), ~Commit(p)
      PROVE  UNCHANGED <<status, convs, placing>>
  BY <1>5 DEF DrainMoves, Fetch, Read, Lock, Leaves, Files, Marks
<1>6. CASE UNCHANGED <<status, convs, placing>>
  BY <1>1, <1>2, <1>6
<1> QED BY <1>3, <1>4, <1>5, <1>6, NextMoves

\* A step keeps every committed conversation.
ConvsKept == \A c \in Calls : Keeps(convs[c], convs'[c])

LEMMA NextKept ==
  ASSUME TypeOK, PlacesHold, InOrder, DraftsHold, [Next]_vars PROVE ConvsKept
<1>1. \A c \in Calls : convs'[c] = convs[c] => Keeps(convs[c], convs'[c])
  BY DEF Keeps
<1>2. ASSUME NEW o \in Outbound, CommitCall(o) PROVE ConvsKept
  <2>1. convs' = [convs EXCEPT ![o] = Opened(TRUE)] /\ convs[o] = NoConv
    BY <1>2 DEF CommitCall, PlacesHold
  <2>2. \A c \in Calls \ {o} : convs'[c] = convs[c]
    BY <2>1 DEF TypeOK
  <2>3. Keeps(convs[o], convs'[o])
    BY <2>1 DEF Keeps
  <2> QED BY <1>1, <2>2, <2>3 DEF ConvsKept
<1>3. ASSUME NEW p \in Drains, Commit(p) PROVE ConvsKept
  BY <1>1, <1>3 DEF Commit, DraftsHold, DraftHolds, ConvsKept
<1>4. CASE UNCHANGED convs
  BY <1>1, <1>4 DEF ConvsKept
<1> QED BY <1>2, <1>3, <1>4, NextMoves
        DEF Outside, Dial, InsertCall, LoseCall, DrainMoves, Fetch, Read, Lock, Leaves, Files, Marks

-----------------------------------------------------------------------------
(* The tries of a nudge.  Each is handed out once, so when the drain that   *)
(* has it ends, no other counts for the nudge.                              *)

Busy(p) == drains[p].pc # "idle"

TriesCounted ==
    \A p \in Drains : Busy(p) =>
      /\ drains[p].nudge \in Nudges
      /\ nudges[drains[p].nudge].state \notin {"free", "created"}
      /\ 1 <= drains[p].try /\ drains[p].try <= nudges[drains[p].nudge].tries

TriesApart ==
    \A p, q \in Drains :
      /\ Busy(p) /\ Busy(q)
      /\ drains[p].nudge = drains[q].nudge /\ drains[p].try = drains[q].try
      => p = q

LEMMA InitTries == Init => TriesCounted /\ TriesApart
BY DEF Init, TriesCounted, TriesApart, Busy, IdleDrain

\* A nudge that was handed out keeps its tries, and is never unmade.
HandedOutStays ==
    \A n \in Nudges : nudges[n].state \notin {"free", "created"} =>
      /\ nudges'[n].state \notin {"free", "created"}
      /\ nudges'[n].tries = nudges[n].tries \/ \E p \in Drains : Fetch(p, n)

LEMMA NudgeMoves == ASSUME TypeOK, [Next]_vars PROVE HandedOutStays
<1>1. nudges \in [Nudges -> NudgeRow]
  BY DEF TypeOK
<1>2. ASSUME NEW n, FailNudge(n) PROVE HandedOutStays
  BY <1>1, <1>2 DEF FailNudge, HandedOutStays, NudgeRow
<1>3. CASE UNCHANGED nudges
  BY <1>3 DEF HandedOutStays
<1>4. ASSUME NEW n \in Nudges, Nudge(n) PROVE HandedOutStays
  BY <1>1, <1>4 DEF Nudge, HandedOutStays, NudgeRow
<1>5. ASSUME NEW p \in Drains, NEW n \in Nudges, Fetch(p, n) PROVE HandedOutStays
  BY <1>1, <1>5 DEF Fetch, HandedOutStays, NudgeRow
<1>6. ASSUME NEW p \in Drains, NEW e \in Events, File(p, e) PROVE HandedOutStays
  BY <1>2, <1>3, <1>6
     DEF File, FileEvent, SkipEvent, FileBadEvent, Trouble, Catch, AbortDrain
<1>7. ASSUME NEW p \in Drains, Finish(p) PROVE HandedOutStays
  BY <1>1, <1>3, <1>7 DEF Finish, HandedOutStays, NudgeRow
<1>8. ASSUME NEW p \in Drains, Read(p) \/ Lock(p) \/ Commit(p) \/ DrainDies(p)
      PROVE  HandedOutStays
  BY <1>3, <1>8 DEF Read, Lock, Commit, DrainDies
<1>9. ASSUME NEW c \in Outbound, Dial(c) \/ InsertCall(c) \/ CommitCall(c) \/ LoseCall(c)
      PROVE  HandedOutStays
  BY <1>3, <1>9 DEF Dial, InsertCall, CommitCall, LoseCall
<1> QED BY <1>2, <1>3, <1>4, <1>5, <1>6, <1>7, <1>8, <1>9
        DEF Next, vars, DrainStep, Receive, LoseNudge, Expire, ExpireSlow

\* A drain keeps its nudge and its try while it is busy.
LEMMA TryKept ==
  ASSUME TypeOK, InOrder, [Next]_vars, NEW p \in Drains, Busy(p)'
  PROVE  \/ /\ Busy(p) /\ drains'[p].nudge = drains[p].nudge
            /\ drains'[p].try = drains[p].try
         \/ \E n \in Nudges : Fetch(p, n)
<1>1. CASE Outside
  BY <1>1 DEF Outside, Busy
<1>2. ASSUME NEW q \in Drains \ {p}, DrainMoves(q) PROVE drains'[p] = drains[p]
  BY <1>2, MovedAlone
<1>3. CASE Read(p) \/ Lock(p) \/ Commit(p)
  BY <1>3, ReadFields, LockFields, CommitFields DEF Busy, Read, Commit
<1>4. ~Leaves(p)
  BY LeavesFields, IdleFields DEF Busy
<1>5. ASSUME NEW e \in Events, Files(p, e) \/ Marks(p, e)
      PROVE  /\ Busy(p) /\ drains'[p].nudge = drains[p].nudge
             /\ drains'[p].try = drains[p].try
  BY <1>5, FilesFields, MarksFields DEF Busy
<1> QED BY <1>1, <1>2, <1>3, <1>4, <1>5, NextMoves DEF DrainMoves, Busy

LEMMA NextTries ==
  ASSUME TypeOK, InOrder, TriesCounted, TriesApart, [Next]_vars
  PROVE  TriesCounted' /\ TriesApart'
<1>1. /\ \A n \in Nudges : nudges[n].tries \in Nat
      /\ \A p \in Drains : drains[p].try \in Nat
      /\ HandedOutStays
  BY NudgeMoves DEF TypeOK, NudgeRow, Drain
<1>2. ASSUME NEW p \in Drains, NEW n \in Nudges, Fetch(p, n)
      PROVE  /\ ~Busy(p) /\ drains'[p].nudge = n /\ drains'[p].try = nudges[n].tries + 1
             /\ nudges'[n].tries = nudges[n].tries + 1 /\ nudges'[n].state = "active"
             /\ \A q \in Drains \ {p} : drains'[q] = drains[q]
  <2>1. nudges'[n].tries = nudges[n].tries + 1 /\ nudges'[n].state = "active"
    BY <1>2 DEF TypeOK, Fetch
  <2> QED BY <1>2, <2>1, FetchFields, MovedAlone DEF Busy, DrainMoves
<1>3. ASSUME NEW p \in Drains, Busy(p)'
      PROVE  /\ drains'[p].nudge \in Nudges
             /\ nudges'[drains'[p].nudge].state \notin {"free", "created"}
             /\ 1 <= drains'[p].try /\ drains'[p].try <= nudges'[drains'[p].nudge].tries
  <2>1. ASSUME NEW n \in Nudges, Fetch(p, n) 
        PROVE  /\ drains'[p].nudge \in Nudges
               /\ nudges'[drains'[p].nudge].state \notin {"free", "created"}
               /\ 1 <= drains'[p].try /\ drains'[p].try <= nudges'[drains'[p].nudge].tries
    BY <1>1, <1>2, <2>1
  <2>2. CASE Busy(p) /\ drains'[p].nudge = drains[p].nudge /\ drains'[p].try = drains[p].try
    <3>1. PICK n \in Nudges : n = drains[p].nudge
      BY <2>2 DEF TriesCounted
    <3>2. /\ nudges[n].state \notin {"free", "created"}
          /\ 1 <= drains[p].try /\ drains[p].try <= nudges[n].tries
      BY <2>2, <3>1 DEF TriesCounted
    <3>3. nudges'[n].tries >= nudges[n].tries
      BY <1>1, <1>2, <3>2 DEF HandedOutStays
    <3>4. nudges'[n].tries \in Nat
      BY NextTypes DEF TypeOK, NudgeRow
    <3> QED BY <1>1, <2>2, <3>1, <3>2, <3>3, <3>4 DEF HandedOutStays
  <2> QED BY <1>3, <2>1, <2>2, TryKept
<1>4. ASSUME NEW p \in Drains, NEW q \in Drains, Busy(p)', Busy(q)', p # q,
             drains'[p].nudge = drains'[q].nudge, drains'[p].try = drains'[q].try
      PROVE  FALSE
  <2>1. ASSUME NEW x \in Drains, NEW y \in Drains, x # y, Busy(y)', NEW n \in Nudges, Fetch(x, n),
               drains'[x].nudge = drains'[y].nudge, drains'[x].try = drains'[y].try
        PROVE  FALSE
    <3>1. drains'[y] = drains[y]
      BY <1>2, <2>1
    <3>2. Busy(y) /\ drains[y].nudge = n /\ drains[y].try = nudges[n].tries + 1
      BY <1>2, <2>1, <3>1 DEF Busy
    <3> QED BY <1>1, <3>2 DEF TriesCounted
  <2> QED BY <1>4, <2>1, TryKept DEF TriesApart
<1> QED BY <1>3, <1>4 DEF TriesCounted, TriesApart

-----------------------------------------------------------------------------
(* Every received event has a drain to come.                               *)

Expected(n) == nudges[n].state \in {"created", "retry", "failed"} \/ Abandoned(n)

Drained(p, e) == Current(p) /\ (drains[p].pc = "queued" \/ e \in Seen(p))

HasDrain(e) == \/ owed > 0 \/ lost > 0
               \/ \E n \in Nudges : Expected(n)
               \/ \E p \in Drains : Drained(p, e)

LEMMA HasDrainMeans ==
  ASSUME TypeOK PROVE ReceivedHasDrain <=> \A e \in Received : HasDrain(e)
BY DEF ReceivedHasDrain, Received, HasDrain, Expected, Drained, Seen

LEMMA StillExpected ==
  ASSUME NEW n \in Nudges, Expected(n), nudges'[n] = nudges[n],
         \A q \in Drains : drains'[q].nudge = n /\ Current(q)' => drains[q].nudge = n /\ Current(q)
  PROVE  Expected(n)'
BY DEF Expected, Abandoned

\* An event keeps its drain if no nudge moves and no drain stops counting.
LEMMA StillHasDrain ==
  ASSUME NEW e, HasDrain(e), UNCHANGED nudges, owed' >= owed, lost' >= lost,
         owed \in Nat, lost \in Nat, owed' \in Nat, lost' \in Nat,
         \A q \in Drains : /\ drains'[q].nudge = drains[q].nudge \/ ~Current(q)'
                           /\ Current(q)' => Current(q)
                           /\ Drained(q, e) => Drained(q, e)'
  PROVE  HasDrain(e)'
<1>1. ASSUME NEW n \in Nudges, Expected(n) PROVE Expected(n)'
  <2>1. \A q \in Drains : drains'[q].nudge = n /\ Current(q)' => drains[q].nudge = n /\ Current(q)
    OBVIOUS
  <2> QED BY <1>1, <2>1, StillExpected
<1> QED BY <1>1 DEF HasDrain

\* No two drains count for one nudge.
LEMMA OneCurrent ==
  ASSUME TriesApart, NEW p \in Drains, NEW q \in Drains, Current(p), Current(q),
         drains[p].nudge = drains[q].nudge
  PROVE  p = q
BY DEF Current, TriesApart, Busy

LEMMA FailedIsExpected ==
  ASSUME TypeOK, NEW n \in Nudges, FailNudge(n) PROVE Expected(n)'
BY DEF TypeOK, FailNudge, Expected

LEMMA SameCurrent ==
  ASSUME NEW q \in Drains, drains'[q] = drains[q], UNCHANGED nudges
  PROVE  Current(q)' = Current(q) /\ Seen(q)' = Seen(q)
BY DEF Current, Seen

\* A transaction that ends with nothing committed: its nudge is failed, was
\* not its own any more, or is abandoned.
LEMMA EndedHasDrain ==
  ASSUME TypeOK, TriesCounted, TriesApart, NEW p \in Drains, NEW e, HasDrain(e),
         drains' = [drains EXCEPT ![p] = IdleDrain], UNCHANGED <<owed, lost>>,
         \/ Current(p) /\ FailNudge(drains[p].nudge)
         \/ ~Current(p) /\ UNCHANGED nudges
         \/ Current(p) /\ UNCHANGED nudges
  PROVE  HasDrain(e)'
<1>1. ~Current(p)' /\ \A q \in Drains \ {p} : drains'[q] = drains[q]
  BY DEF TypeOK, Current, IdleDrain
<1>2. CASE Current(p) /\ FailNudge(drains[p].nudge)
  <2>1. drains[p].nudge \in Nudges
    BY <1>2 DEF Current, TriesCounted, Busy
  <2> QED BY <1>2, <2>1, FailedIsExpected DEF HasDrain
<1>3. CASE ~Current(p) /\ UNCHANGED nudges
  <2>1. \A q \in Drains \ {p} : Current(q)' = Current(q) /\ Seen(q)' = Seen(q)
    BY <1>1, <1>3, SameCurrent
  <2> QED BY <1>1, <1>3, <2>1, StillHasDrain DEF TypeOK, Drained
<1>4. CASE Current(p) /\ UNCHANGED nudges
  <2>1. PICK n \in Nudges : n = drains[p].nudge /\ nudges[n].state = "active"
    BY <1>4 DEF Current, TriesCounted, Busy
  <2>2. ASSUME NEW q \in Drains, drains'[q].nudge = n, Current(q)' PROVE FALSE
    <3>1. q # p /\ drains'[q] = drains[q]
      BY <1>1, <2>2
    <3>2. Current(q)
      BY <1>4, <2>2, <3>1, SameCurrent
    <3> QED BY <1>4, <2>1, <2>2, <3>1, <3>2, OneCurrent
  <2>3. Abandoned(n)'
    BY <1>4, <2>1, <2>2 DEF Abandoned
  <2> QED BY <2>1, <2>3 DEF HasDrain, Expected
<1> QED BY <1>2, <1>3, <1>4

LEMMA FinishedHasDrain ==
  ASSUME TypeOK, InOrder, TriesCounted, TriesApart, NEW p \in Drains, NEW e \in Events,
         HasDrain(e), Finish(p)
  PROVE  HasDrain(e)'
<1>1. ~Current(p)' /\ \A q \in Drains \ {p} : drains'[q] = drains[q]
  BY DEF TypeOK, Finish, Current, IdleDrain
<1>2. ~Drained(p, e)
  BY DEF Finish, Drained, InOrder, DrainInOrder, AtRows, Seen
<1>3. CASE ~Current(p)
  <2>1. UNCHANGED nudges
    BY <1>3 DEF Finish
  <2>2. \A q \in Drains \ {p} : Current(q)' = Current(q) /\ Seen(q)' = Seen(q)
    BY <1>1, <2>1, SameCurrent
  <2> QED BY <1>1, <1>2, <1>3, <2>1, <2>2, StillHasDrain DEF TypeOK, Drained, Finish
<1>4. CASE Current(p)
  <2>1. PICK k \in Nudges : /\ k = drains[p].nudge /\ nudges[k].state = "active"
                            /\ nudges' = [nudges EXCEPT ![k].state = "completed"]
    BY <1>4 DEF Current, TriesCounted, Busy, Finish
  <2>2. \A n \in Nudges \ {k} : nudges'[n] = nudges[n]
    BY <2>1 DEF TypeOK
  <2>3. ASSUME NEW q \in Drains, drains[q].nudge # k, drains'[q] = drains[q], Busy(q)
        PROVE  Current(q)' = Current(q) /\ Seen(q)' = Seen(q)
    <3>1. drains[q].nudge \in Nudges \ {k}
      BY <2>3 DEF TriesCounted
    <3> QED BY <2>2, <2>3, <3>1 DEF Current, Seen
  <2>4. ASSUME NEW n \in Nudges, Expected(n) PROVE Expected(n)'
    <3>1. n # k
      BY <1>4, <2>1, <2>4 DEF Expected, Abandoned
    <3>2. ASSUME NEW q \in Drains, drains'[q].nudge = n, Current(q)'
          PROVE  drains[q].nudge = n /\ Current(q)
      <4>1. drains'[q] = drains[q]
        BY <1>1, <3>2
      <4>2. Busy(q)
        BY <3>2, <4>1 DEF Current, Busy
      <4> QED BY <2>3, <3>1, <3>2, <4>1, <4>2
    <3> QED BY <2>2, <2>4, <3>1, <3>2, StillExpected
  <2>5. ASSUME NEW q \in Drains, Drained(q, e) PROVE Drained(q, e)'
    <3>1. q # p /\ Busy(q) /\ Current(q)
      BY <1>2, <2>5 DEF Drained, Current, Busy
    <3>2. drains[q].nudge # k /\ drains'[q] = drains[q]
      BY <1>1, <1>4, <2>1, <3>1, OneCurrent
    <3> QED BY <2>3, <2>5, <3>1, <3>2 DEF Drained
  <2> QED BY <2>4, <2>5 DEF HasDrain, Finish
<1> QED BY <1>3, <1>4

\* The steps of a drain that go on.
LEMMA MovedHasDrain ==
  ASSUME TypeOK, InOrder, RowsHeld, NEW p \in Drains, NEW e \in Received', HasDrain(e),
         UNCHANGED <<nudges, owed, lost>>,
         Read(p) \/ Lock(p) \/ Commit(p) \/ \E f \in Events : Files(p, f) \/ Marks(p, f)
  PROVE  HasDrain(e)'
<1>1. DrainMoves(p)
  BY DEF DrainMoves
<1>2. \A q \in Drains \ {p} : Current(q)' = Current(q) /\ Seen(q)' = Seen(q) /\ drains'[q] = drains[q]
  BY <1>1, MovedAlone, SameCurrent
<1>3. Busy(p) /\ Busy(p)' /\ drains'[p].nudge = drains[p].nudge /\ drains'[p].try = drains[p].try
  BY ReadFields, LockFields, CommitFields, FilesFields, MarksFields DEF Busy, Read, Commit
<1>4. Current(p)' = Current(p)
  BY <1>3 DEF Current, Busy
<1>5. ASSUME Drained(p, e) PROVE Drained(p, e)'
  <2>1. e \in Received
    BY <1>1, ReceivedMoves DEF Received
  <2>2. CASE Read(p)
    <3>1. Seen(p)' = Received
      BY <2>2, <1>1, SeenMoves, ReadFields DEF SeenFiling, SeenReading, SeenLocking, SeenGone, Read, AtRows
    <3> QED BY <1>4, <1>5, <2>1, <3>1 DEF Drained
  <2>3. CASE Commit(p)
    <3>1. Received' = Received \ Seen(p) /\ drains[p].pc = "filing"
      <4>1. ~UNCHANGED status \/ Seen(p) = {}
        BY <2>3 DEF Commit, RowsHeld, Received, Seen, TypeOK, Drain, Filed
      <4>2. Seen(p) = {} => Received' = Received
        BY <2>3 DEF Commit, Received, Seen, TypeOK
      <4> QED BY <1>1, <2>3, <4>1, <4>2, ReceivedMoves DEF Commit
    <3> QED BY <1>5, <3>1 DEF Drained
  <2>4. CASE Lock(p) \/ \E f \in Events : Files(p, f) \/ Marks(p, f)
    <3>1. drains[p].pc \in {"read", "filing"} /\ drains'[p].pc = "filing"
      BY <2>4, LockFields, FilesFields, MarksFields
    <3>2. Seen(p) \cap Received \subseteq Seen(p)'
      BY <1>1, <3>1, SeenMoves DEF SeenFiling, SeenReading, SeenLocking, SeenGone, AtRows
    <3> QED BY <1>4, <1>5, <2>1, <3>1, <3>2 DEF Drained
  <2> QED BY <2>2, <2>3, <2>4
<1>6. \A q \in Drains \ {p} : Drained(q, e) => Drained(q, e)'
  BY <1>2 DEF Drained
<1> QED BY <1>2, <1>3, <1>4, <1>5, <1>6, StillHasDrain DEF TypeOK

LEMMA NextHasDrain ==
  ASSUME TypeOK, InOrder, RowsHeld, TriesCounted, TriesApart, ReceivedHasDrain, [Next]_vars
  PROVE  ReceivedHasDrain'
<1>1. TypeOK'
  BY NextTypes
<1>2. SUFFICES ASSUME NEW e \in Received' PROVE HasDrain(e)'
  <2>1. TypeOK' => (ReceivedHasDrain' <=> (\A e \in Received : HasDrain(e))')
    BY HasDrainMeans, PTL
  <2> QED BY <1>1, <1>2, <2>1
<1>3. e \in Received => HasDrain(e)
  BY HasDrainMeans
<1>4. ASSUME NEW f \in Events, Receive(f) PROVE HasDrain(e)'
  BY <1>1, <1>4 DEF TypeOK, Receive, HasDrain
<1>5. CASE UNCHANGED <<status, nudges, drains, owed, lost>>
  <2>1. e \in Received
    BY <1>5 DEF Received
  <2>2. \A q \in Drains : Current(q)' = Current(q) /\ Seen(q)' = Seen(q)
    BY <1>5, SameCurrent
  <2> QED BY <1>3, <1>5, <2>1, <2>2, StillHasDrain DEF TypeOK, Drained
<1>6. ASSUME NEW c \in Outbound, Dial(c) \/ InsertCall(c) \/ CommitCall(c) \/ LoseCall(c)
      PROVE  HasDrain(e)'
  BY <1>5, <1>6 DEF Dial, InsertCall, CommitCall, LoseCall
<1>7. ASSUME NEW n \in Nudges, Nudge(n) PROVE HasDrain(e)'
  <2>1. nudges'[n].state = "created"
    BY <1>7 DEF TypeOK, Nudge, NudgeRow
  <2> QED BY <2>1 DEF HasDrain, Expected
<1>8. ASSUME NEW n \in Nudges, Expire(n) \/ ExpireSlow(n) PROVE HasDrain(e)'
  BY <1>8, FailedIsExpected DEF Expire, ExpireSlow, HasDrain
<1>9. CASE LoseNudge
  BY <1>1, <1>9 DEF TypeOK, LoseNudge, HasDrain
<1>10. ASSUME NEW p \in Drains, NEW n \in Nudges, Fetch(p, n) PROVE HasDrain(e)'
  <2>1. nudges'[n].state = "active" /\ nudges'[n].tries = nudges[n].tries + 1
    BY <1>10 DEF TypeOK, Fetch
  <2>2. Drained(p, e)'
    BY <1>10, <2>1, FetchFields DEF Drained, Current
  <2> QED BY <2>2 DEF HasDrain
<1>11. ASSUME NEW p \in Drains, Read(p) \/ Lock(p) \/ Commit(p) PROVE HasDrain(e)'
  <2>1. UNCHANGED <<nudges, owed, lost>> /\ DrainMoves(p)
    BY <1>11 DEF Read, Lock, Commit, DrainMoves
  <2>2. e \in Received
    BY <2>1, ReceivedMoves DEF Received
  <2> QED BY <1>3, <1>11, <2>1, <2>2, MovedHasDrain
<1>12. ASSUME NEW p \in Drains, NEW f \in Events, File(p, f) PROVE HasDrain(e)'
  <2>1. /\ drains[p].pc = "filing" /\ f \in drains[p].todo
        /\ UNCHANGED <<status, owed, lost, convs, live, placing>>
    BY <1>12 DEF File, FirstOf
  <2>2. HasDrain(e)
    BY <1>3, <2>1 DEF Received
  <2>3. CASE AbortDrain(p)
    BY <2>1, <2>2, <2>3, EndedHasDrain DEF AbortDrain
  <2>4. CASE FileEvent(p, f)
    BY <2>1, <2>2, <2>4, MovedHasDrain DEF Files, FileEvent
  <2>5. CASE ~AbortDrain(p) /\ ~FileEvent(p, f)
    <3>1. UNCHANGED nudges /\ Marks(p, f)
      BY <1>12, <2>1, <2>5
         DEF File, SkipEvent, FileBadEvent, Trouble, Catch, EventsFault, Marks
    <3> QED BY <2>1, <2>2, <3>1, MovedHasDrain
  <2> QED BY <2>3, <2>4, <2>5
<1>13. ASSUME NEW p \in Drains, Finish(p) \/ DrainDies(p) PROVE HasDrain(e)'
  <2>1. HasDrain(e)
    BY <1>3, <1>13 DEF Finish, DrainDies, Received
  <2>2. CASE DrainDies(p)
    BY <2>1, <2>2, EndedHasDrain DEF DrainDies
  <2>3. CASE Finish(p)
    BY <2>1, <2>3, FinishedHasDrain DEF Received
  <2> QED BY <1>13, <2>2, <2>3
<1> QED BY <1>4, <1>5, <1>6, <1>7, <1>8, <1>9, <1>10, <1>11, <1>12, <1>13
        DEF Next, vars, DrainStep

-----------------------------------------------------------------------------
(* The invariant, and what follows from it.                                *)

IInv == /\ TypeOK /\ PlacesHold /\ InOrder
        /\ RowsHeld /\ ReadsNested /\ OneMemory
        /\ DraftsHold /\ LinesMatchStatus /\ FailedLeavesNothing
        /\ TriesCounted /\ TriesApart /\ ReceivedHasDrain

LEMMA Invariance == Spec => []IInv
<1>1. Init => IInv
  <2>1. Init => ReceivedHasDrain
    BY DEF Init, ReceivedHasDrain
  <2> QED BY <2>1, InitTypeOK, InitPlacesHold, InitInOrder, InitRows, InitOneMemory,
             InitDrafts, InitLines, InitTries DEF IInv
<1>2. IInv /\ [Next]_vars => IInv'
  BY NextTypes, NextPlacesHold, NextInOrder, NextRowsHeld, NextReadsNested, NextOneMemory,
     NextDrafts, NextLines, NextFailed, NextTries, NextHasDrain DEF IInv
<1> QED BY <1>1, <1>2, PTL DEF Spec

\* A transcript line stands in its call's conversation exactly once if its
\* event is marked processed and not at all otherwise, however many drains
\* run, die and are retried over it (process.ts:51-55, 118-160).
THEOREM LinesCorrect == Spec => []LinesMatchStatus
BY Invariance, PTL DEF IInv

\* An event marked failed leaves no conversation behind: the rows of a
\* savepoint that failed never commit (process.ts:145-160).
THEOREM FailedCorrect == Spec => []FailedLeavesNothing
BY Invariance, PTL DEF IInv

\* The lead has one live summary at most, however the drains that file its
\* reports overlap.  The locks give it: of the drains under theirs, only one
\* has rows (process.ts:73-89, 118-123).
THEOREM SummaryCorrect == Spec => []OneLiveSummary
<1>1. IInv => OneLiveSummary
  <2>1. SUFFICES ASSUME \A x, y \in live : x = y PROVE Cardinality(live) <= 1
    BY DEF IInv, OneMemory, OneLiveSummary
  <2>2. CASE live = {}
    BY <2>2, FS_EmptySet
  <2>3. ASSUME NEW x \in live PROVE Cardinality(live) <= 1
    <3>1. live = {x}
      BY <2>1
    <3> QED BY <3>1, FS_Singleton
  <2> QED BY <2>2, <2>3
<1> QED BY <1>1, Invariance, PTL

\* A received event has a drain to come unless its nudge was lost or its job
\* ran out of retries: a receiver that has yet to nudge, a job to run, or a
\* try that counts and has read it (receive.ts:57-59, jobs.ts:198-206).
THEOREM DrainCorrect == Spec => []ReceivedHasDrain
BY Invariance, PTL DEF IInv

\* No step takes from a committed conversation its lead, its end or a line:
\* what a drain writes under a row it holds extends the row (process.ts:23-31).
THEOREM KeptCorrect == Spec => ConversationKept
<1>1. IInv /\ [Next]_vars => ConvsKept
  BY NextKept DEF IInv
<1>2. ConvsKept =>
        \A c \in Calls : convs[c] # NoConv =>
          /\ convs'[c] # NoConv
          /\ convs'[c].lead = convs[c].lead
          /\ convs[c].status = "completed" => convs'[c].status = "completed"
          /\ \A i \in DOMAIN convs[c].lines :
               i \in DOMAIN convs'[c].lines /\ convs'[c].lines[i] = convs[c].lines[i]
  BY DEF ConvsKept, Keeps
<1> QED BY <1>1, <1>2, Invariance, PTL DEF Spec, ConversationKept

=============================================================================
