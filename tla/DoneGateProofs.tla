--------------------------- MODULE DoneGateProofs ---------------------------
(***************************************************************************)
(* What the done gate lets through, for any sessions, worktrees, contents  *)
(* and number of events.                                                   *)
(*                                                                         *)
(* The argument: a tree is recorded as checked only when what the checks   *)
(* ran on was green (CheckedIsGreen), a ruling names only trees its        *)
(* verifier was noted on (RulingsSaw), and so a stop that has not failed   *)
(* is done with proven trees only (JudgedIsProven). Of its silent stops:   *)
(* what a session accepted in a worktree, and on its branch, it was found  *)
(* with or passed with (AcceptedAnswers), and a worktree off its branch,   *)
(* or a branch that is not ahead of main, has nothing of its own (Plain).  *)
(***************************************************************************)
EXTENDS DoneGate, TLAPS

\* A stop judges worktrees of its own work, and runs the checks for one that
\* is still to be judged.
Readings ==
    \A s \in Sessions :
        /\ stop[s].todo \subseteq DOMAIN stop[s].work
        /\ phase[s] = "checking" => stop[s].root \in stop[s].todo /\ stop[s].tree \in Trees

IsGreen(t) == t.own \in Green \/ t \in misread
IsProven(t) == IsGreen(t) /\ (Needs(t) => t \in ruledOn)

CheckedIsGreen == \A t \in checked : IsGreen(t)

\* A ruling is on code a command of its verifier was noted on.
RulingsSaw ==
    /\ DOMAIN delivered \subseteq ruledOn
    /\ verifier # None =>
          /\ \A r \in Roots : verifier.saw[r] # None => verifier.saw[r] \in ruledOn
          /\ verifier.handed # None => verifier.handed.trees \subseteq ruledOn

\* What a stop that has not failed is done with, and does not wait for, is proven.
JudgedIsProven ==
    \A s \in Sessions :
        /\ ~stop[s].failed => DOMAIN stop[s].judged = DOMAIN stop[s].work \ stop[s].todo
        /\ \A r \in DOMAIN stop[s].judged \ stop[s].waits : IsProven(stop[s].judged[r])

\* What a session has accepted is what it was found with or has accepted.
AcceptedAnswers ==
    \A s \in Sessions, r \in Roots :
        /\ note[s][r].accepted # None => note[s][r].accepted.own \in answers[s][r] \union {Unchanged}
        /\ byBranch[s][r] # None => byBranch[s][r].own \in answers[s][r]

\* Off its branch a worktree has nothing of its own, nor a branch that is not ahead.
Plain ==
    \A r \in Roots :
        /\ ~checkout[r].on => checkout[r].tree.own = Unchanged
        /\ ~checkout[r].ahead => checkout[r].tip.own = Unchanged

IInv == TypeOK /\ Readings /\ CheckedIsGreen /\ RulingsSaw /\ JudgedIsProven /\ AcceptedAnswers /\ Plain

\* A note before a tool call keeps its type, and accepts only the starting point.
LEMMA TouchedTypes ==
    ASSUME TypeOK, NEW s \in Sessions, NEW r \in Roots
    PROVE  /\ Touched(s, r) \in [Roots -> Notes]
           /\ \A q \in Roots : 
                /\ Touched(s, r)[q].accepted =
                     IF q = r /\ Found(s, r) THEN StartingPoint(s, r) ELSE note[s][q].accepted
                /\ Touched(s, r)[q].held = note[s][q].held
<1> DEFINE base(q) == IF q = r /\ Found(s, r)
        THEN [note[s][q] EXCEPT !.seen = checkout[r].id, !.accepted = StartingPoint(s, r),
                                !.extra = Extra(r)]
        ELSE note[s][q]
<1>1. checkout[r] \in Checkouts /\ checkout[r].id \in 0 .. MaxEvents
  BY DEF TypeOK, RepoTypes, Checkouts
<1>2. StartingPoint(s, r) \in Trees
  BY <1>1 DEF StartingPoint, Snapshot, TypeOK, RepoTypes, NoteTypes, Checkouts
<1>3. Extra(r) \in Contents \X Contents
  BY <1>1, GateAssumption DEF Extra, NoExtra, HeadOwn, Snapshot, Checkouts, Trees
<1>4. ASSUME NEW q \in Roots
      PROVE /\ base(q) \in Notes /\ base(q).held = note[s][q].held 
            /\ base(q).accepted = IF q = r /\ Found(s, r) THEN StartingPoint(s, r) ELSE note[s][q].accepted
  <2>1. note[s][q] \in Notes
    BY DEF TypeOK, NoteTypes
  <2> QED
    BY <1>1, <1>2, <1>3, <2>1 DEF Notes
<1>5. Touched(s, r) = [q \in Roots |-> [base(q) EXCEPT !.active = @ \/ q = r \/ toucher[q] = s]]
  BY DEF Touched
<1> HIDE DEF base
<1>6. ASSUME NEW q \in Roots
      PROVE /\ [base(q) EXCEPT !.active = @ \/ q = r \/ toucher[q] = s] \in Notes
            /\ [base(q) EXCEPT !.active = @ \/ q = r \/ toucher[q] = s].accepted = base(q).accepted
            /\ [base(q) EXCEPT !.active = @ \/ q = r \/ toucher[q] = s].held = base(q).held
  BY <1>4 DEF Notes
<1> QED
  BY <1>4, <1>5, <1>6

\* So do the record by branch, the toucher and the contents answered for.
LEMMA TouchTypes ==
    ASSUME TypeOK, NEW s \in Sessions, NEW r \in Roots, Touch(s, r)
    PROVE  /\ byBranch' \in [Sessions -> [Roots -> Trees \union {None}]]
           /\ toucher' \in [Roots -> Sessions \union {None}]
           /\ answers' \in [Sessions -> [Roots -> SUBSET Contents]]
<1>1. checkout[r] \in Checkouts
  BY DEF TypeOK, RepoTypes
<1>2. StartingPoint(s, r) \in Trees /\ Snapshot(r).own \in Contents
  BY <1>1 DEF StartingPoint, Snapshot, TypeOK, RepoTypes, NoteTypes, Checkouts, Trees
<1> QED
  BY <1>2 DEF Touch, TypeOK, NoteTypes

\* Accepting trees keeps the types of what it writes.
LEMMA AcceptTypes ==
    ASSUME TypeOK, NEW s \in Sessions, NEW trees \in PerRoot, NEW released, Accept(s, trees, released)
    PROVE  /\ note' \in [Sessions -> [Roots -> Notes]]
           /\ byBranch' \in [Sessions -> [Roots -> Trees \union {None}]]
           /\ answers' \in [Sessions -> [Roots -> SUBSET Contents]]
<1> DEFINE n(r) == [note[s][r] EXCEPT !.accepted = IF r \in DOMAIN trees THEN trees[r] ELSE @,
                                      !.held = @ /\ r \notin released]
           b(r) == IF r \in DOMAIN trees /\ checkout[r].on THEN trees[r] ELSE byBranch[s][r]
           a(r) == answers[s][r] \union {trees[q].own : q \in DOMAIN trees \intersect {r}}
<1>1. \A r \in DOMAIN trees : trees[r] \in Trees /\ trees[r].own \in Contents
  BY DEF PerRoot, Trees
<1>2. /\ note \in [Sessions -> [Roots -> Notes]]
      /\ byBranch \in [Sessions -> [Roots -> Trees \union {None}]]
      /\ answers \in [Sessions -> [Roots -> SUBSET Contents]]
  BY DEF TypeOK, NoteTypes
<1>3. ASSUME NEW r \in Roots PROVE n(r) \in Notes
  <2>1. note[s][r] \in Notes
    BY <1>2
  <2> QED
    BY <1>1, <2>1 DEF Notes
<1>4. \A r \in Roots : b(r) \in Trees \union {None}
  BY <1>1, <1>2
<1>5. ASSUME NEW r \in Roots PROVE a(r) \in SUBSET Contents
  <2>1. answers[s][r] \subseteq Contents
    BY <1>2
  <2> QED
    BY <1>1, <2>1
<1>6. /\ note' = [note EXCEPT ![s] = [r \in Roots |-> n(r)]]
      /\ byBranch' = [byBranch EXCEPT ![s] = [r \in Roots |-> b(r)]]
      /\ answers' = [answers EXCEPT ![s] = [r \in Roots |-> a(r)]]
  BY Zenon DEF Accept
<1> HIDE DEF n, b, a
<1>7. /\ [r \in Roots |-> n(r)] \in [Roots -> Notes]
      /\ [r \in Roots |-> b(r)] \in [Roots -> Trees \union {None}]
      /\ [r \in Roots |-> a(r)] \in [Roots -> SUBSET Contents]
  BY <1>3, <1>4, <1>5
<1>8. note' \in [Sessions -> [Roots -> Notes]]
  BY <1>2, <1>6, <1>7
<1>9. byBranch' \in [Sessions -> [Roots -> Trees \union {None}]]
  BY <1>2, <1>6, <1>7
<1>10. answers' \in [Sessions -> [Roots -> SUBSET Contents]]
  BY <1>2, <1>6, <1>7
<1> QED
  BY <1>8, <1>9, <1>10

\* A change of a worktree leaves a worktree, at most one identity further on.
LEMMA ChangeTypes ==
    ASSUME NEW c \in Checkouts, c.id <= spent, spent < MaxEvents, spent \in Nat, main \in 0 .. spent,
           NEW d \in Changes(c)
    PROVE  /\ d \in Checkouts /\ d.id <= spent + 1
           /\ (~c.on => c.tree.own = Unchanged) => (~d.on => d.tree.own = Unchanged)
           /\ (~c.ahead => c.tip.own = Unchanged) => (~d.ahead => d.tip.own = Unchanged)
<1>1. /\ c.tree \in Trees /\ c.tip \in Trees /\ c.ahead \in BOOLEAN /\ c.on \in BOOLEAN
      /\ c.id \in 0 .. MaxEvents
  BY DEF Checkouts
<1>2. main \in 0 .. MaxEvents /\ c.id + 1 \in 0 .. MaxEvents
      /\ c.id + 1 <= spent + 1 /\ c.id <= spent + 1
  BY <1>1, GateAssumption
<1>3. /\ Unchanged \in Contents
      /\ \A t \in Trees, o \in Contents : /\ [t EXCEPT !.own = o] \in Trees
                                        /\ [t EXCEPT !.base = main] \in Trees
                                        /\ [t EXCEPT !.base = main].own = t.own
      /\ [base |-> main, own |-> Unchanged] \in Trees
  BY <1>2, GateAssumption DEF Trees
<1>4. ASSUME NEW o \in Contents, c.on, d = [c EXCEPT !.tree.own = o]
      PROVE  /\ d.tree = [c.tree EXCEPT !.own = o] /\ d.tip = c.tip /\ d.ahead = c.ahead
             /\ d.on = c.on /\ d.id = c.id
             /\ d = [tree |-> d.tree, tip |-> d.tip, ahead |-> d.ahead, on |-> d.on, id |-> d.id]
  BY <1>4 DEF Checkouts
<1>5. ASSUME c.on, d = [c EXCEPT !.tip = c.tree, !.ahead = TRUE]
      PROVE  /\ d.tree = c.tree /\ d.tip = c.tree /\ d.ahead /\ d.ahead \in BOOLEAN
             /\ d.on = c.on /\ d.id = c.id
             /\ d = [tree |-> d.tree, tip |-> d.tip, ahead |-> d.ahead, on |-> d.on, id |-> d.id]
  BY <1>5 DEF Checkouts
<1>6. ASSUME d = [c EXCEPT !.tree.base = main, !.tip.base = IF c.on THEN main ELSE @]
      PROVE  /\ d.tree = [c.tree EXCEPT !.base = main] /\ d.ahead = c.ahead
             /\ d.tip = IF c.on THEN [c.tip EXCEPT !.base = main] ELSE c.tip
             /\ d.on = c.on /\ d.id = c.id
             /\ d = [tree |-> d.tree, tip |-> d.tip, ahead |-> d.ahead, on |-> d.on, id |-> d.id]
  BY <1>1, <1>6 DEF Checkouts, Trees
<1>7. ASSUME d = [c EXCEPT !.on = FALSE, !.tree = [base |-> main, own |-> Unchanged]]
      PROVE  /\ d.tree = [base |-> main, own |-> Unchanged] /\ d.tip = c.tip /\ d.ahead = c.ahead
             /\ d.on = FALSE /\ d.id = c.id
             /\ d = [tree |-> d.tree, tip |-> d.tip, ahead |-> d.ahead, on |-> d.on, id |-> d.id]
  BY <1>7 DEF Checkouts
<1>8. ASSUME d = [c EXCEPT !.on = TRUE, !.tree = c.tip]
      PROVE  /\ d.tree = c.tip /\ d.tip = c.tip /\ d.ahead = c.ahead
             /\ d.on = TRUE /\ d.id = c.id
             /\ d = [tree |-> d.tree, tip |-> d.tip, ahead |-> d.ahead, on |-> d.on, id |-> d.id]
  BY <1>8 DEF Checkouts
<1>9. ASSUME d = [c EXCEPT !.id = @ + 1, !.tree = IF c.on THEN c.tip ELSE @]
      PROVE  /\ d.tree = (IF c.on THEN c.tip ELSE c.tree) /\ d.tip = c.tip /\ d.ahead = c.ahead
             /\ d.on = c.on /\ d.id = c.id + 1
             /\ d = [tree |-> d.tree, tip |-> d.tip, ahead |-> d.ahead, on |-> d.on, id |-> d.id]
  BY <1>9 DEF Checkouts
<1> DEFINE Goal == /\ d \in Checkouts /\ d.id <= spent + 1
                   /\ (~c.on => c.tree.own = Unchanged) => (~d.on => d.tree.own = Unchanged)
                   /\ (~c.ahead => c.tip.own = Unchanged) => (~d.ahead => d.tip.own = Unchanged)
<1>10. ASSUME NEW o \in Contents, c.on, d = [c EXCEPT !.tree.own = o] PROVE Goal
  BY <1>1, <1>2, <1>3, <1>4, <1>10 DEF Checkouts
<1>11. ASSUME c.on, d = [c EXCEPT !.tip = c.tree, !.ahead = TRUE] PROVE Goal
  <2>1. d.tree \in Trees /\ d.tip \in Trees /\ d.ahead \in BOOLEAN /\ d.on \in BOOLEAN
        /\ d.id \in 0 .. MaxEvents
    BY <1>1, <1>5, <1>11
  <2>2. d \in Checkouts
    BY <2>1, <1>5, <1>11 DEF Checkouts
  <2>3. d.id <= spent + 1 /\ d.on /\ d.ahead
    BY <1>1, <1>2, <1>5, <1>11
  <2> QED
    BY <2>2, <2>3
<1>12. ASSUME d = [c EXCEPT !.tree.base = main, !.tip.base = IF c.on THEN main ELSE @] PROVE Goal
  <2>1. /\ d.tree \in Trees /\ d.tip \in Trees /\ d.ahead \in BOOLEAN /\ d.on \in BOOLEAN
        /\ d.id \in 0 .. MaxEvents
        /\ d.tree.own = c.tree.own /\ d.tip.own = c.tip.own
    BY <1>1, <1>3, <1>6, <1>12
  <2>2. d \in Checkouts
    BY <2>1, <1>6, <1>12 DEF Checkouts
  <2>3. d.id <= spent + 1 /\ d.on = c.on /\ d.ahead = c.ahead
    BY <1>1, <1>2, <1>6, <1>12
  <2> QED
    BY <2>1, <2>2, <2>3
<1>13. ASSUME d = [c EXCEPT !.on = FALSE, !.tree = [base |-> main, own |-> Unchanged]] PROVE Goal
  BY <1>1, <1>2, <1>3, <1>7, <1>13 DEF Checkouts
<1>14. ASSUME d = [c EXCEPT !.on = TRUE, !.tree = c.tip] PROVE Goal
  BY <1>1, <1>2, <1>3, <1>8, <1>14 DEF Checkouts
<1>15. ASSUME d = [c EXCEPT !.id = @ + 1, !.tree = IF c.on THEN c.tip ELSE @] PROVE Goal
  BY <1>1, <1>2, <1>3, <1>9, <1>15 DEF Checkouts
<1> HIDE DEF Goal
<1>16. Goal
  BY <1>10, <1>11, <1>12, <1>13, <1>14, <1>15 DEF Changes
<1> QED
  BY <1>16 DEF Goal

\* No stop is a stop of the declared type.
LEMMA NoStopTypes ==
    NoStop \in StopRecords
<1>1. [r \in {} |-> None] \in PerRoot
  BY DEF PerRoot
<1> QED
  BY <1>1 DEF NoStop, StopRecords

\* A worktree read is a tree.
LEMMA SnapshotTypes ==
    ASSUME TypeOK, NEW r \in Roots
    PROVE  Snapshot(r) \in Trees /\ Snapshot(r).own \in Contents
<1>1. checkout[r] \in Checkouts
  BY DEF TypeOK, RepoTypes
<1> QED
  BY <1>1 DEF Snapshot, Checkouts, Trees

\* The work of a stop, and what arrived with main, are trees of worktrees.
LEMMA WorkTypes ==
    ASSUME TypeOK, NEW s \in Sessions
    PROVE  /\ WorkOf(s) \in PerRoot /\ DOMAIN WorkOf(s) \subseteq Roots
           /\ [r \in Arrived(s) |-> Snapshot(r)] \in PerRoot
<1>1. Arrived(s) \subseteq Roots /\ StopRoots(s) \subseteq Roots
  BY DEF Arrived, StopRoots
<1>2. \A D \in SUBSET Roots : [r \in D |-> Snapshot(r)] \in PerRoot
  <2> TAKE D \in SUBSET Roots
  <2>1. [r \in D |-> Snapshot(r)] \in [D -> Trees]
    BY SnapshotTypes
  <2> QED
    BY <2>1 DEF PerRoot
<1> DEFINE D == {q \in StopRoots(s) : Its(s, q) /\ ~AsAccepted(s, q)} \ Arrived(s)
<1>3. D \subseteq Roots
  BY <1>1
<1>4. WorkOf(s) = [r \in D |-> Snapshot(r)]
  BY DEF WorkOf
<1> HIDE DEF D
<1> QED
  BY <1>1, <1>2, <1>3, <1>4

\* Judging a worktree keeps the type of the stop, and leaves the other stops alone.
LEMMA JudgedTypes ==
    ASSUME TypeOK, NEW s \in Sessions, NEW r \in Roots, NEW t \in Trees, NEW v,
           Judged(s, r, t, v)
    PROVE  /\ stop' \in [Sessions -> StopRecords]
           /\ phase' = [phase EXCEPT ![s] = "judging"]
           /\ \A o \in Sessions \ {s} : stop'[o] = stop[o]
<1> DEFINE was == stop[s]
           seen(q) == IF q = r THEN t ELSE was.judged[q]
           now == IF v = "no" THEN [was EXCEPT !.failed = TRUE, !.todo = {}]
                  ELSE [was EXCEPT !.todo = was.todo \ {r},
                                   !.judged = [q \in DOMAIN was.judged \union {r} |-> seen(q)],
                                   !.waits = IF v = "waits" THEN was.waits \union {r} ELSE was.waits]
<1>1. stop \in [Sessions -> StopRecords] /\ was \in StopRecords
  BY DEF TypeOK, AgentTypes
<1>2. was.judged \in PerRoot /\ was.todo \subseteq Roots /\ was.waits \subseteq Roots
  BY <1>1 DEF StopRecords
<1>3. phase' = [phase EXCEPT ![s] = "judging"] /\ stop' = [stop EXCEPT ![s] = now]
  BY Zenon DEF Judged
<1>4. [q \in DOMAIN was.judged \union {r} |-> seen(q)] \in PerRoot
  <2>1. DOMAIN was.judged \subseteq Roots /\ \A q \in DOMAIN was.judged : was.judged[q] \in Trees
    BY <1>2 DEF PerRoot
  <2>2. \A q \in DOMAIN was.judged \union {r} : seen(q) \in Trees
    BY <2>1
  <2> HIDE DEF was, seen
  <2>3. [q \in DOMAIN was.judged \union {r} |-> seen(q)] \in [DOMAIN was.judged \union {r} -> Trees]
    BY <2>2
  <2> QED
    BY <2>1, <2>3 DEF PerRoot
<1>5. now \in StopRecords
  <2> DEFINE j == [q \in DOMAIN was.judged \union {r} |-> seen(q)]
  <2>1. j \in PerRoot
    BY <1>4
  <2>2. now = IF v = "no" THEN [was EXCEPT !.failed = TRUE, !.todo = {}]
              ELSE [was EXCEPT !.todo = was.todo \ {r}, !.judged = j,
                               !.waits = IF v = "waits" THEN was.waits \union {r} ELSE was.waits]
    OBVIOUS
  <2> HIDE DEF was, seen, now, j
  <2> QED
    BY <1>1, <1>2, <2>1, <2>2 DEF StopRecords
<1> HIDE DEF was, now
<1> QED
  BY <1>1, <1>3, <1>5

\* The types hold at the start.
LEMMA InitTypes ==
    Init => TypeOK
<1> SUFFICES ASSUME Init PROVE TypeOK
  OBVIOUS
<1>1. RepoTypes
  BY GateAssumption DEF Init, RepoTypes, Checkouts, Trees
<1>2. NoteTypes
  BY GateAssumption DEF Init, NoteTypes, Notes, NoExtra, Trees
<1>3. EvidenceTypes
  BY GateAssumption DEF Init, EvidenceTypes
<1>4. AgentTypes
  BY NoStopTypes DEF Init, AgentTypes
<1> QED
  BY <1>1, <1>2, <1>3, <1>4 DEF TypeOK

\* Events keep the bound of identities and of main.
LEMMA SpentGrows ==
    ASSUME RepoTypes, NEW n \in Nat, Events(n), UNCHANGED <<main, checkout>>
    PROVE  RepoTypes'
<1>1. spent \in Nat /\ spent + n <= MaxEvents /\ spent' = spent + n
  BY GateAssumption DEF Events, RepoTypes
<1> QED
  BY <1>1, GateAssumption DEF RepoTypes

\* A step that spends nothing and leaves the repository keeps its types.
LEMMA RepoSame ==
    ASSUME RepoTypes, UNCHANGED <<main, checkout, spent>>
    PROVE  RepoTypes'
BY DEF RepoTypes

\* Every step keeps the types of the repository.
LEMMA RepoStep ==
    ASSUME TypeOK, [Next]_vars
    PROVE  RepoTypes'
<1>1. ASSUME NEW s \in Sessions, NEW r \in Roots, SessionStart(s, r) PROVE RepoTypes'
  BY <1>1, SpentGrows DEF SessionStart, Event, repo, Returns, TypeOK
<1>2. ASSUME NEW s \in Sessions, Prompt(s) PROVE RepoTypes'
  BY <1>2, SpentGrows DEF Prompt, Event, repo, Returns, TypeOK
<1>3. ASSUME NEW s \in Sessions, Interrupt(s) PROVE RepoTypes'
  BY <1>3, SpentGrows DEF Interrupt, Event, repo, Returns, TypeOK
<1>4. ASSUME NEW s \in Sessions, NEW r \in Roots, Quiet(s, r) PROVE RepoTypes'
  BY <1>4, SpentGrows DEF Quiet, Event, repo, Returns, TypeOK
<1>5. ASSUME NEW s \in Sessions, NEW r \in Roots, Call(s, r) PROVE RepoTypes'
  BY <1>5, RepoSame DEF Call, repo, Ends, TypeOK
<1>6. ASSUME NEW s \in Sessions, Change(s) PROVE RepoTypes'
  <2> DEFINE r == here[s]
  <2>1. spent \in Nat /\ spent < MaxEvents /\ spent' = spent + 1 /\ main \in 0 .. spent /\ UNCHANGED main
    BY <1>6, GateAssumption DEF Change, Returns, Event, Events, TypeOK, RepoTypes
  <2>2. PICK c \in Changes(checkout[r]) : checkout' = [checkout EXCEPT ![r] = c]
    BY <1>6 DEF Change
  <2>3. CASE r \notin Roots
    <3>1. checkout' = checkout
      BY <2>2, <2>3 DEF TypeOK, RepoTypes
    <3> QED
      BY <1>6, <3>1, SpentGrows DEF Change, Returns, Event, TypeOK
  <2>4. CASE r \in Roots
    <3>1. checkout[r] \in Checkouts /\ checkout[r].id <= spent
      BY <2>1, <2>4, GateAssumption DEF TypeOK, RepoTypes
    <3>2. c \in Checkouts /\ c.id \in 0 .. spent'
      <4>1. c \in Checkouts /\ c.id <= spent + 1
        BY <2>1, <2>2, <3>1, ChangeTypes
      <4> QED
        BY <2>1, <4>1, GateAssumption DEF Checkouts
    <3>3. checkout' \in [Roots -> Checkouts] /\ \A q \in Roots : checkout'[q].id \in 0 .. spent'
      BY <2>1, <2>2, <2>4, <3>2 DEF TypeOK, RepoTypes
    <3> QED
      BY <2>1, <3>3, GateAssumption DEF RepoTypes
  <2> QED
    BY <2>3, <2>4
<1>7. ASSUME NEW s \in Sessions, Pause(s) PROVE RepoTypes'
  BY <1>7, SpentGrows DEF Pause, Event, repo, Returns, TypeOK
<1>8. ASSUME NEW s \in Sessions, Checkpoint(s) PROVE RepoTypes'
  BY <1>8, SpentGrows DEF Checkpoint, Event, repo, Returns, TypeOK
<1>9. ASSUME NEW s \in Sessions, StopBegins(s) PROVE RepoTypes'
  BY <1>9, SpentGrows, RepoSame DEF StopBegins, Event, repo, TypeOK
<1>10. ASSUME NEW s \in Sessions, StopsSilently(s) PROVE RepoTypes'
  BY <1>10, RepoSame DEF StopsSilently, repo, Ends, TypeOK
<1>11. ASSUME NEW s \in Sessions, StopsToAsk(s) PROVE RepoTypes'
  BY <1>11, RepoSame DEF StopsToAsk, repo, Ends, TypeOK
<1>12. ASSUME NEW s \in Sessions, NEW r \in Roots, Judge(s, r) PROVE RepoTypes'
  BY <1>12, RepoSame DEF Judge, repo, Ends, TypeOK
<1>13. ASSUME NEW s \in Sessions, ChecksEnd(s) PROVE RepoTypes'
  BY <1>13, SpentGrows, RepoSame DEF ChecksEnd, Event, repo, TypeOK
<1>14. ASSUME NEW s \in Sessions, StopPasses(s) PROVE RepoTypes'
  BY <1>14, RepoSame DEF StopPasses, repo, Ends, TypeOK
<1>15. ASSUME NEW s \in Sessions, StopFails(s) PROVE RepoTypes'
  BY <1>15, RepoSame DEF StopFails, repo, Ends, TypeOK
<1>16. ASSUME NEW s \in Sessions, VerifierStarts(s) PROVE RepoTypes'
  BY <1>16, SpentGrows DEF VerifierStarts, Event, repo, Returns, TypeOK
<1>17. ASSUME NEW r \in Roots, VerifierRuns(r) PROVE RepoTypes'
  BY <1>17, RepoSame DEF VerifierRuns, repo, Ends, TypeOK
<1>18. ASSUME NEW v \in Verdicts, VerifierHandsBack(v) PROVE RepoTypes'
  BY <1>18, RepoSame DEF VerifierHandsBack, repo, Ends, TypeOK
<1>19. ASSUME NEW v \in Verdicts \union {None, "void"}, VerifierStops(v) PROVE RepoTypes'
  BY <1>19, RepoSame DEF VerifierStops, repo, Ends, TypeOK
<1>20. CASE MainMoves
  <2>1. spent \in Nat /\ spent < MaxEvents /\ spent' = spent + 1 /\ main \in 0 .. spent
    BY <1>20, GateAssumption DEF MainMoves, Event, Events, TypeOK, RepoTypes
  <2> QED
    BY <1>20, <2>1, GateAssumption DEF MainMoves, TypeOK, RepoTypes
<1>21. CASE UNCHANGED vars
  BY <1>21, RepoSame DEF vars, repo, TypeOK
<1> QED
  BY <1>1, <1>2, <1>3, <1>4, <1>5, <1>6, <1>7, <1>8, <1>9, <1>10, <1>11, <1>12, <1>13, <1>14,
     <1>15, <1>16, <1>17, <1>18, <1>19, <1>20, <1>21 DEF Next, Works, Stops, Judges

\* A step that leaves the notes keeps their types.
LEMMA NotesSame ==
    ASSUME NoteTypes, UNCHANGED <<note, byBranch, toucher, answers>>
    PROVE  NoteTypes'
BY DEF NoteTypes

\* A tool call keeps the types of the notes.
LEMMA NotesTouched ==
    ASSUME TypeOK, NEW s \in Sessions, NEW r \in Roots,
           note' = [note EXCEPT ![s] = Touched(s, r)], Touch(s, r)
    PROVE  NoteTypes'
<1>1. Touched(s, r) \in [Roots -> Notes]
  BY TouchedTypes
<1>2. note' \in [Sessions -> [Roots -> Notes]]
  BY <1>1 DEF TypeOK, NoteTypes
<1> QED
  BY <1>2, TouchTypes DEF NoteTypes

\* Accepting trees keeps the types of the notes.
LEMMA NotesAccepted ==
    ASSUME TypeOK, NEW s \in Sessions, NEW trees \in PerRoot, NEW released,
           Accept(s, trees, released), UNCHANGED toucher
    PROVE  NoteTypes'
BY AcceptTypes DEF TypeOK, NoteTypes

\* What a passing stop accepts are trees of worktrees.
LEMMA PassesTypes ==
    ASSUME TypeOK, NEW s \in Sessions
    PROVE  [q \in Passes(s) |-> stop[s].work[q]] \in PerRoot
<1>1. stop[s].work \in PerRoot
  BY DEF TypeOK, AgentTypes, StopRecords
<1>2. Passes(s) \subseteq Roots /\ \A q \in Passes(s) : stop[s].work[q] \in Trees
  BY <1>1 DEF PerRoot, Passes
<1>3. [q \in Passes(s) |-> stop[s].work[q]] \in [Passes(s) -> Trees]
  BY <1>2
<1> QED
  BY <1>2, <1>3 DEF PerRoot

\* Every step keeps the types of the notes.
LEMMA NoteStep ==
    ASSUME TypeOK, [Next]_vars
    PROVE  NoteTypes'
<1>1. ASSUME NEW s \in Sessions, NEW r \in Roots, SessionStart(s, r) PROVE NoteTypes'
  <2>1. /\ note' = [note EXCEPT ![s] = [Touched(s, r) EXCEPT ![r].held = @ \/ Interrupted(s, r)]]
        /\ Touch(s, r)
    BY <1>1 DEF SessionStart
  <2>2. Touched(s, r) \in [Roots -> Notes]
    BY TouchedTypes
  <2>3. [Touched(s, r) EXCEPT ![r].held = @ \/ Interrupted(s, r)] \in [Roots -> Notes]
    BY <2>2 DEF Notes
  <2> QED
    BY <2>1, <2>3, TouchTypes DEF TypeOK, NoteTypes
<1>2. ASSUME NEW s \in Sessions, Prompt(s) PROVE NoteTypes'
  BY <1>2, NotesSame DEF Prompt, repo, record, Returns, TypeOK
<1>3. ASSUME NEW s \in Sessions, Interrupt(s) PROVE NoteTypes'
  BY <1>3, NotesSame DEF Interrupt, repo, record, Returns, TypeOK
<1>4. ASSUME NEW s \in Sessions, NEW r \in Roots, Quiet(s, r) PROVE NoteTypes'
  <2>1. note[s][r] \in Notes
    BY DEF TypeOK, NoteTypes
  <2>2. [note[s][r] EXCEPT !.active = FALSE] \in Notes
    BY <2>1 DEF Notes
  <2> QED
    BY <1>4, <2>2 DEF Quiet, record, TypeOK, NoteTypes
<1>5. ASSUME NEW s \in Sessions, NEW r \in Roots, Call(s, r) PROVE NoteTypes'
  <2>1. note' = [note EXCEPT ![s] = Touched(s, r)] /\ Touch(s, r)
    BY <1>5 DEF Call
  <2> QED
    BY <2>1, NotesTouched
<1>6. ASSUME NEW s \in Sessions, Change(s) PROVE NoteTypes'
  BY <1>6, NotesSame DEF Change, repo, record, Returns, TypeOK
<1>7. ASSUME NEW s \in Sessions, Pause(s) PROVE NoteTypes'
  BY <1>7, NotesSame DEF Pause, repo, record, Returns, TypeOK
<1>8. ASSUME NEW s \in Sessions, Checkpoint(s) PROVE NoteTypes'
  <2> DEFINE r == here[s]
           o == toucher[r]
  <2>1. ASSUME r \in Roots, o \in Sessions
        PROVE  [note[o][r] EXCEPT !.held = TRUE] \in Notes
    <3>1. note[o][r] \in Notes
      BY <2>1 DEF TypeOK, NoteTypes
    <3> QED
      BY <3>1 DEF Notes
  <2>2. UNCHANGED <<byBranch, toucher, answers>>
    BY <1>8 DEF Checkpoint, Returns
  <2>3. note' \in [Sessions -> [Roots -> Notes]]
    BY <1>8, <2>1 DEF Checkpoint, TypeOK, NoteTypes
  <2> QED
    BY <2>2, <2>3 DEF TypeOK, NoteTypes
<1>9. ASSUME NEW s \in Sessions, StopBegins(s) PROVE NoteTypes'
  <2>1. Accept(s, [q \in Arrived(s) |-> Snapshot(q)], {}) /\ UNCHANGED toucher
    BY <1>9 DEF StopBegins
  <2> QED
    BY <2>1, WorkTypes, NotesAccepted
<1>10. ASSUME NEW s \in Sessions, StopsSilently(s) PROVE NoteTypes'
  <2>1. Accept(s, [q \in Arrived(s) |-> Snapshot(q)], {}) /\ UNCHANGED toucher
    BY <1>10 DEF StopsSilently
  <2> QED
    BY <2>1, WorkTypes, NotesAccepted
<1>11. ASSUME NEW s \in Sessions, StopsToAsk(s) PROVE NoteTypes'
  <2>1. Accept(s, [q \in Arrived(s) |-> Snapshot(q)], DOMAIN WorkOf(s)) /\ UNCHANGED toucher
    BY <1>11 DEF StopsToAsk
  <2> QED
    BY <2>1, WorkTypes, NotesAccepted
<1>12. ASSUME NEW s \in Sessions, NEW r \in Roots, Judge(s, r) PROVE NoteTypes'
  BY <1>12, NotesSame DEF Judge, repo, record, Returns, TypeOK
<1>13. ASSUME NEW s \in Sessions, ChecksEnd(s) PROVE NoteTypes'
  BY <1>13, NotesSame DEF ChecksEnd, repo, record, Returns, TypeOK
<1>14. ASSUME NEW s \in Sessions, StopPasses(s) PROVE NoteTypes'
  <2>1. /\ Accept(s, [q \in Passes(s) |-> stop[s].work[q]], {q \in Passes(s) : checkout[q].on})
        /\ UNCHANGED toucher
    BY <1>14 DEF StopPasses, Ends
  <2>2. [q \in Passes(s) |-> stop[s].work[q]] \in PerRoot
    BY PassesTypes
  <2> QED
    BY <2>1, <2>2, NotesAccepted
<1>15. ASSUME NEW s \in Sessions, StopFails(s) PROVE NoteTypes'
  BY <1>15, NotesSame DEF StopFails, Ends, TypeOK
<1>16. ASSUME NEW s \in Sessions, VerifierStarts(s) PROVE NoteTypes'
  BY <1>16, NotesSame DEF VerifierStarts, repo, record, Returns, TypeOK
<1>17. ASSUME NEW r \in Roots, VerifierRuns(r) PROVE NoteTypes'
  <2> DEFINE s == verifier.of
  <2>1. s \in Sessions
    BY <1>17 DEF VerifierRuns, TypeOK, AgentTypes, Verifiers
  <2>2. note' = [note EXCEPT ![s] = Touched(s, r)] /\ Touch(s, r)
    BY <1>17 DEF VerifierRuns
  <2> QED
    BY <2>1, <2>2, NotesTouched
<1>18. ASSUME NEW v \in Verdicts, VerifierHandsBack(v) PROVE NoteTypes'
  BY <1>18, NotesSame DEF VerifierHandsBack, repo, record, Returns, TypeOK
<1>19. ASSUME NEW v \in Verdicts \union {None, "void"}, VerifierStops(v) PROVE NoteTypes'
  BY <1>19, NotesSame DEF VerifierStops, repo, record, Returns, TypeOK
<1>20. CASE MainMoves
  BY <1>20, NotesSame DEF MainMoves, repo, record, Returns, TypeOK
<1>21. CASE UNCHANGED vars
  BY <1>21, NotesSame DEF vars, record, TypeOK
<1> QED
  BY <1>1, <1>2, <1>3, <1>4, <1>5, <1>6, <1>7, <1>8, <1>9, <1>10, <1>11, <1>12, <1>13, <1>14,
     <1>15, <1>16, <1>17, <1>18, <1>19, <1>20, <1>21 DEF Next, Works, Stops, Judges

\* A step that leaves the evidence keeps its types.
LEMMA EvidenceSame ==
    ASSUME EvidenceTypes, UNCHANGED <<checked, partial, pauses, delivered, checkpoint, blocks>>
    PROVE  EvidenceTypes'
BY DEF EvidenceTypes

\* What a verifier may deliver is a ruling on trees.
LEMMA RulingTypes ==
    ASSUME TypeOK, verifier # None
    PROVE  /\ verifier \in Verifiers /\ Covers \subseteq Trees
           /\ verifier.handed # None => verifier.handed \in Rulings
           /\ \A v \in Verdicts : [verdict |-> v, trees |-> Covers] \in Rulings
<1>1. verifier \in Verifiers
  BY DEF TypeOK, AgentTypes
<1>2. Covers \subseteq Trees
  BY <1>1 DEF Covers, SawOf, Verifiers
<1>3. verifier.handed \in Rulings \union {None}
  BY <1>1 DEF Verifiers
<1> QED
  BY <1>1, <1>2, <1>3 DEF Rulings

\* Every step keeps the types of the evidence.
LEMMA EvidenceStep ==
    ASSUME TypeOK, Readings, [Next]_vars
    PROVE  EvidenceTypes'
<1>1. ASSUME NEW s \in Sessions, NEW r \in Roots, SessionStart(s, r) PROVE EvidenceTypes'
  BY <1>1, EvidenceSame DEF SessionStart, record, Returns, TypeOK
<1>2. ASSUME NEW s \in Sessions, Prompt(s) PROVE EvidenceTypes'
  BY <1>2, EvidenceSame DEF Prompt, record, Returns, TypeOK
<1>3. ASSUME NEW s \in Sessions, Interrupt(s) PROVE EvidenceTypes'
  BY <1>3, EvidenceSame DEF Interrupt, record, Returns, TypeOK
<1>4. ASSUME NEW s \in Sessions, NEW r \in Roots, Quiet(s, r) PROVE EvidenceTypes'
  BY <1>4, EvidenceSame DEF Quiet, record, Returns, TypeOK
<1>5. ASSUME NEW s \in Sessions, NEW r \in Roots, Call(s, r) PROVE EvidenceTypes'
  BY <1>5, EvidenceSame DEF Call, TypeOK
<1>6. ASSUME NEW s \in Sessions, Change(s) PROVE EvidenceTypes'
  BY <1>6, EvidenceSame DEF Change, record, Returns, TypeOK
<1>7. ASSUME NEW s \in Sessions, Pause(s) PROVE EvidenceTypes'
  <2>1. here[s] \in Roots
    BY <1>7 DEF Pause, Returns, TypeOK, AgentTypes
  <2>2. Snapshot(here[s]) \in Trees
    BY <2>1, SnapshotTypes
  <2> QED
    BY <1>7, <2>2 DEF Pause, Returns, TypeOK, EvidenceTypes, AgentTypes
<1>8. ASSUME NEW s \in Sessions, Checkpoint(s) PROVE EvidenceTypes'
  <2>1. here[s] \in Roots => Snapshot(here[s]) \in Trees
    BY SnapshotTypes
  <2>2. checkpoint' \in [Roots -> Trees \union {None}]
    BY <1>8, <2>1 DEF Checkpoint, TypeOK, EvidenceTypes
  <2> QED
    BY <1>8, <2>2 DEF Checkpoint, Returns, TypeOK, EvidenceTypes
<1>9. ASSUME NEW s \in Sessions, StopBegins(s) PROVE EvidenceTypes'
  BY <1>9, EvidenceSame DEF StopBegins, record, Returns, TypeOK
<1>10. ASSUME NEW s \in Sessions, StopsSilently(s) PROVE EvidenceTypes'
  BY <1>10, EvidenceSame DEF StopsSilently, record, Returns, TypeOK
<1>11. ASSUME NEW s \in Sessions, StopsToAsk(s) PROVE EvidenceTypes'
  BY <1>11 DEF StopsToAsk, TypeOK, EvidenceTypes
<1>12. ASSUME NEW s \in Sessions, NEW r \in Roots, Judge(s, r) PROVE EvidenceTypes'
  BY <1>12, EvidenceSame DEF Judge, record, Returns, TypeOK
<1>13. ASSUME NEW s \in Sessions, ChecksEnd(s) PROVE EvidenceTypes'
  <2>1. stop[s].tree \in Trees
    BY <1>13 DEF ChecksEnd, Readings
  <2>2. checked' \subseteq Trees /\ partial' \subseteq Trees
    BY <1>13, <2>1 DEF ChecksEnd, Recorded, TypeOK, EvidenceTypes
  <2> QED
    BY <1>13, <2>2 DEF ChecksEnd, TypeOK, EvidenceTypes
<1>14. ASSUME NEW s \in Sessions, StopPasses(s) PROVE EvidenceTypes'
  <2>1. blocks' \in [Sessions -> 0 .. MaxBlocks]
    BY <1>14, GateAssumption DEF StopPasses, TypeOK, EvidenceTypes
  <2> QED
    BY <1>14, <2>1 DEF StopPasses, Ends, TypeOK, EvidenceTypes
<1>15. ASSUME NEW s \in Sessions, StopFails(s) PROVE EvidenceTypes'
  <2> DEFINE b == blocks[s]
           n == IF stop[s].cachedOnly THEN b ELSE IF LastTry(s) THEN 0 ELSE b + 1
  <2>1. b \in 0 .. MaxBlocks
    BY DEF TypeOK, EvidenceTypes
  <2>2. ~LastTry(s) => ~(b + 1 > MaxBlocks)
    BY DEF LastTry
  <2>3. blocks' = [blocks EXCEPT ![s] = n]
    BY <1>15 DEF StopFails
  <2> HIDE DEF b
  <2>4. n \in 0 .. MaxBlocks
    <3>1. 0 \in 0 .. MaxBlocks /\ (~LastTry(s) => b + 1 \in 0 .. MaxBlocks)
      BY <2>1, <2>2, GateAssumption
    <3> QED
      BY <2>1, <3>1
  <2> HIDE DEF n
  <2>5. blocks' \in [Sessions -> 0 .. MaxBlocks]
    BY <2>3, <2>4 DEF TypeOK, EvidenceTypes
  <2> QED
    BY <1>15, <2>5 DEF StopFails, Ends, TypeOK, EvidenceTypes
<1>16. ASSUME NEW s \in Sessions, VerifierStarts(s) PROVE EvidenceTypes'
  BY <1>16, EvidenceSame DEF VerifierStarts, record, Returns, TypeOK
<1>17. ASSUME NEW r \in Roots, VerifierRuns(r) PROVE EvidenceTypes'
  BY <1>17, EvidenceSame DEF VerifierRuns, record, Returns, TypeOK
<1>18. ASSUME NEW v \in Verdicts, VerifierHandsBack(v) PROVE EvidenceTypes'
  BY <1>18, EvidenceSame DEF VerifierHandsBack, record, Returns, TypeOK
<1>19. ASSUME NEW v \in Verdicts \union {None, "void"}, VerifierStops(v) PROVE EvidenceTypes'
  <2>1. \/ delivered' = delivered
        \/ \E ruling \in Rulings :
             delivered' = [t \in DOMAIN delivered \union ruling.trees |->
                             IF t \in ruling.trees THEN ruling.verdict ELSE delivered[t]]
    BY <1>19, RulingTypes DEF VerifierStops
  <2>2. DOMAIN delivered' \subseteq Trees /\ \A t \in DOMAIN delivered' : delivered'[t] \in Verdicts
    BY <2>1 DEF TypeOK, EvidenceTypes, Rulings
  <2> QED
    BY <1>19, <2>2 DEF VerifierStops, TypeOK, EvidenceTypes
<1>20. CASE MainMoves
  BY <1>20, EvidenceSame DEF MainMoves, record, Returns, TypeOK
<1>21. CASE UNCHANGED vars
  BY <1>21, EvidenceSame DEF vars, record, TypeOK
<1> QED
  BY <1>1, <1>2, <1>3, <1>4, <1>5, <1>6, <1>7, <1>8, <1>9, <1>10, <1>11, <1>12, <1>13, <1>14,
     <1>15, <1>16, <1>17, <1>18, <1>19, <1>20, <1>21 DEF Next, Works, Stops, Judges

\* A step that leaves the agents keeps their types.
LEMMA AgentsSame ==
    ASSUME AgentTypes, UNCHANGED <<phase, here, stop, verifier, stale>>
    PROVE  AgentTypes'
BY DEF AgentTypes

\* A session that goes on to what is no stop keeps the types of the agents.
LEMMA AgentsMove ==
    ASSUME AgentTypes, NEW s \in Sessions, here[s] \in Roots,
           NEW p \in {"idle", "working", "calling"}, phase' = [phase EXCEPT ![s] = p],
           stop' = [stop EXCEPT ![s] = NoStop] \/ (stop' = stop /\ stop[s] = NoStop),
           UNCHANGED <<here, verifier, stale>>
    PROVE  AgentTypes'
BY NoStopTypes DEF AgentTypes

\* Every step keeps the types of the agents.
LEMMA AgentStep ==
    ASSUME TypeOK, Readings, [Next]_vars
    PROVE  AgentTypes'
<1>1. ASSUME NEW s \in Sessions, NEW r \in Roots, SessionStart(s, r) PROVE AgentTypes'
  BY <1>1, NoStopTypes DEF SessionStart, TypeOK, AgentTypes
<1>2. ASSUME NEW s \in Sessions, Prompt(s) PROVE AgentTypes'
  BY <1>2, AgentsMove, NoStopTypes DEF Prompt, Ends, Returns, TypeOK, AgentTypes
<1>3. ASSUME NEW s \in Sessions, Interrupt(s) PROVE AgentTypes'
  BY <1>3, NoStopTypes DEF Interrupt, TypeOK, AgentTypes, Verifiers
<1>4. ASSUME NEW s \in Sessions, NEW r \in Roots, Quiet(s, r) PROVE AgentTypes'
  BY <1>4, AgentsSame DEF Quiet, record, Returns, TypeOK
<1>5. ASSUME NEW s \in Sessions, NEW r \in Roots, Call(s, r) PROVE AgentTypes'
  BY <1>5, NoStopTypes DEF Call, TypeOK, AgentTypes
<1>6. ASSUME NEW s \in Sessions, Change(s) PROVE AgentTypes'
  BY <1>6, AgentsMove, NoStopTypes DEF Change, Ends, Returns, TypeOK, AgentTypes
<1>7. ASSUME NEW s \in Sessions, Pause(s) PROVE AgentTypes'
  BY <1>7, AgentsMove, NoStopTypes DEF Pause, Ends, Returns, TypeOK, AgentTypes
<1>8. ASSUME NEW s \in Sessions, Checkpoint(s) PROVE AgentTypes'
  BY <1>8, AgentsMove, NoStopTypes DEF Checkpoint, Ends, Returns, TypeOK, AgentTypes
<1>9. ASSUME NEW s \in Sessions, StopBegins(s) PROVE AgentTypes'
  <2> DEFINE now(background) ==
             [NoStop EXCEPT !.work = WorkOf(s), !.todo = DOMAIN WorkOf(s), !.background = background,
                !.verifying = background /\ Verifying(s),
                !.cachedOnly = gaveUp[s] = CodePrint(WorkOf(s), background)]
  <2>1. PICK background \in BOOLEAN : /\ phase' = [phase EXCEPT ![s] = "judging"]
                                     /\ stop' = [stop EXCEPT ![s] = now(background)]
    BY <1>9, Zenon DEF StopBegins
  <2>2. now(background) \in StopRecords
    BY NoStopTypes, WorkTypes DEF StopRecords
  <2> HIDE DEF now
  <2>3. phase[s] = "working" /\ UNCHANGED <<here, verifier, stale>>
    BY <1>9 DEF StopBegins
  <2> QED
    BY <2>1, <2>2, <2>3 DEF TypeOK, AgentTypes
<1>10. ASSUME NEW s \in Sessions, StopsSilently(s) PROVE AgentTypes'
  BY <1>10, AgentsMove, NoStopTypes DEF StopsSilently, Ends, Returns, TypeOK, AgentTypes
<1>11. ASSUME NEW s \in Sessions, StopsToAsk(s) PROVE AgentTypes'
  BY <1>11, AgentsMove, NoStopTypes DEF StopsToAsk, Ends, Returns, TypeOK, AgentTypes
<1>12. ASSUME NEW s \in Sessions, NEW r \in Roots, Judge(s, r) PROVE AgentTypes'
  <2>1. phase[s] = "judging" /\ UNCHANGED <<here, verifier, stale>>
    BY <1>12 DEF Judge
  <2>2. CASE \E v : Judged(s, r, Snapshot(r), v)
    BY <2>1, <2>2, JudgedTypes, SnapshotTypes DEF TypeOK, AgentTypes
  <2>3. CASE /\ phase' = [phase EXCEPT ![s] = "checking"]
             /\ stop' = [stop EXCEPT ![s].root = r, ![s].tree = Snapshot(r)]
    <3>1. stop[s] \in StopRecords
      BY DEF TypeOK, AgentTypes
    <3>2. [[stop[s] EXCEPT !.root = r] EXCEPT !.tree = Snapshot(r)] \in StopRecords
      BY <3>1, SnapshotTypes DEF StopRecords
    <3>3. stop' = [stop EXCEPT ![s] = [[stop[s] EXCEPT !.root = r] EXCEPT !.tree = Snapshot(r)]]
      BY <2>3, <3>1 DEF TypeOK, AgentTypes, StopRecords
    <3> QED
      BY <2>1, <2>3, <3>2, <3>3 DEF TypeOK, AgentTypes
  <2> QED
    BY <1>12, <2>2, <2>3 DEF Judge
<1>13. ASSUME NEW s \in Sessions, ChecksEnd(s) PROVE AgentTypes'
  <2>1. /\ phase[s] = "checking" /\ UNCHANGED <<here, verifier, stale>>
        /\ \E v : Judged(s, stop[s].root, stop[s].tree, v)
    BY <1>13 DEF ChecksEnd
  <2>2. stop[s].tree \in Trees /\ stop[s].root \in Roots
    BY <2>1 DEF Readings, TypeOK, AgentTypes, StopRecords
  <2> QED
    BY <2>1, <2>2, JudgedTypes DEF TypeOK, AgentTypes
<1>14. ASSUME NEW s \in Sessions, StopPasses(s) PROVE AgentTypes'
  BY <1>14, AgentsMove, NoStopTypes DEF StopPasses, Ends, Returns, TypeOK, AgentTypes
<1>15. ASSUME NEW s \in Sessions, StopFails(s) PROVE AgentTypes'
  BY <1>15, AgentsMove, NoStopTypes DEF StopFails, Ends, Returns, TypeOK, AgentTypes
<1>16. ASSUME NEW s \in Sessions, VerifierStarts(s) PROVE AgentTypes'
  <2>1. verifier' \in Verifiers
    BY <1>16 DEF VerifierStarts, Verifiers
  <2> QED
    BY <1>16, <2>1 DEF VerifierStarts, TypeOK, AgentTypes
<1>17. ASSUME NEW r \in Roots, VerifierRuns(r) PROVE AgentTypes'
  <2>1. verifier' \in Verifiers
    BY <1>17, RulingTypes, SnapshotTypes DEF VerifierRuns, Verifiers
  <2> QED
    BY <1>17, <2>1 DEF VerifierRuns, TypeOK, AgentTypes
<1>18. ASSUME NEW v \in Verdicts, VerifierHandsBack(v) PROVE AgentTypes'
  <2>1. verifier' \in Verifiers
    BY <1>18, RulingTypes DEF VerifierHandsBack, Verifiers
  <2> QED
    BY <1>18, <2>1 DEF VerifierHandsBack, TypeOK, AgentTypes
<1>19. ASSUME NEW v \in Verdicts \union {None, "void"}, VerifierStops(v) PROVE AgentTypes'
  <2>1. verifier' \in Verifiers \union {None}
    BY <1>19, RulingTypes DEF VerifierStops, Verifiers
  <2> QED
    BY <1>19, <2>1 DEF VerifierStops, TypeOK, AgentTypes
<1>20. CASE MainMoves
  BY <1>20, AgentsSame DEF MainMoves, record, Returns, TypeOK
<1>21. CASE UNCHANGED vars
  BY <1>21, AgentsSame DEF vars, TypeOK
<1> QED
  BY <1>1, <1>2, <1>3, <1>4, <1>5, <1>6, <1>7, <1>8, <1>9, <1>10, <1>11, <1>12, <1>13, <1>14,
     <1>15, <1>16, <1>17, <1>18, <1>19, <1>20, <1>21 DEF Next, Works, Stops, Judges

\* A worktree judged neither wanting nor waiting is proven.
LEMMA JudgedSteps ==
    ASSUME TypeOK, Readings, JudgedIsProven, NEW s \in Sessions, NEW r \in stop[s].todo, NEW t \in Trees,
           NEW v, Judged(s, r, t, v), ruledOn \subseteq ruledOn', misread \subseteq misread',
           v \notin {"no", "waits"} =>
             (t.own \in Green \/ t \in misread') /\ (Needs(t) => t \in ruledOn')
    PROVE  Readings' /\ JudgedIsProven'
<1> DEFINE was == stop[s]
           now == stop'[s]
<1>1. /\ stop \in [Sessions -> StopRecords] /\ was \in StopRecords
      /\ r \in Roots /\ phase \in [Sessions -> {"out", "idle", "working", "calling", "judging", "checking"}]
  BY DEF TypeOK, AgentTypes, StopRecords
<1>2. /\ phase' = [phase EXCEPT ![s] = "judging"] /\ \A o \in Sessions \ {s} : stop'[o] = stop[o]
      /\ stop' \in [Sessions -> StopRecords]
  BY <1>1, JudgedTypes
<1>3. stop' = [stop EXCEPT ![s] =
          IF v = "no" THEN [was EXCEPT !.failed = TRUE, !.todo = {}]
          ELSE [was EXCEPT
                  !.todo = was.todo \ {r},
                  !.judged = [q \in DOMAIN was.judged \union {r} |-> IF q = r THEN t ELSE was.judged[q]],
                  !.waits = IF v = "waits" THEN was.waits \union {r} ELSE was.waits]]
  BY Zenon DEF Judged
<1>4. now = IF v = "no" THEN [was EXCEPT !.failed = TRUE, !.todo = {}]
            ELSE [was EXCEPT
                  !.todo = was.todo \ {r},
                  !.judged = [q \in DOMAIN was.judged \union {r} |-> IF q = r THEN t ELSE was.judged[q]],
                  !.waits = IF v = "waits" THEN was.waits \union {r} ELSE was.waits]
  BY <1>1, <1>3, Zenon
<1> DEFINE j == [q \in DOMAIN was.judged \union {r} |-> IF q = r THEN t ELSE was.judged[q]]
<1>5. v = "no" => now.failed = TRUE /\ now.todo = {} /\ now.work = was.work /\ now.judged = was.judged
                  /\ now.waits = was.waits
  BY <1>1, <1>4 DEF StopRecords
<1>6. v # "no" => /\ now.failed = was.failed /\ now.todo = was.todo \ {r} /\ now.work = was.work
                  /\ now.judged = j
                  /\ now.waits = IF v = "waits" THEN was.waits \union {r} ELSE was.waits
  <2> HIDE DEF j
  <2>1. v # "no" => now = [was EXCEPT !.todo = was.todo \ {r}, !.judged = j,
                              !.waits = IF v = "waits" THEN was.waits \union {r} ELSE was.waits]
    BY <1>4 DEF j
  <2> QED
    BY <1>1, <2>1 DEF StopRecords
<1>7. DOMAIN j = DOMAIN was.judged \union {r} /\ j[r] = t /\ \A q \in DOMAIN was.judged : q # r => j[q] = was.judged[q]
  OBVIOUS
<1> HIDE DEF was, now, j
<1>8. /\ was.todo \subseteq DOMAIN was.work /\ r \in was.todo
      /\ ~was.failed => DOMAIN was.judged = DOMAIN was.work \ was.todo
      /\ \A q \in DOMAIN was.judged \ was.waits : IsProven(was.judged[q])
  BY DEF Readings, JudgedIsProven, was
<1>9. now.todo \subseteq DOMAIN now.work
  BY <1>5, <1>6, <1>8
<1>10. ~now.failed => DOMAIN now.judged = DOMAIN now.work \ now.todo
  BY <1>5, <1>6, <1>7, <1>8
<1>11. ASSUME NEW u, IsProven(u)
       PROVE  (u.own \in Green \/ u \in misread') /\ (Needs(u) => u \in ruledOn')
  BY <1>11 DEF IsProven, IsGreen
<1>12. ASSUME NEW q \in DOMAIN now.judged \ now.waits
       PROVE  /\ now.judged[q].own \in Green \/ now.judged[q] \in misread'
              /\ Needs(now.judged[q]) => now.judged[q] \in ruledOn'
  <2>1. CASE v = "no"
    BY <1>5, <1>8, <1>11, <1>12, <2>1
  <2>2. CASE v # "no" /\ q = r
    BY <1>6, <1>7, <1>12, <2>2
  <2>3. CASE v # "no" /\ q # r
    BY <1>6, <1>7, <1>8, <1>11, <1>12, <2>3
  <2> QED
    BY <2>1, <2>2, <2>3
<1>13. Readings'
  BY <1>1, <1>2, <1>9 DEF Readings, now
<1>14. JudgedIsProven'
  <2>1. ASSUME NEW o \in Sessions, o # s
        PROVE  /\ ~stop'[o].failed => DOMAIN stop'[o].judged = DOMAIN stop'[o].work \ stop'[o].todo
               /\ \A q \in DOMAIN stop'[o].judged \ stop'[o].waits :
                    /\ stop'[o].judged[q].own \in Green \/ stop'[o].judged[q] \in misread'
                    /\ Needs(stop'[o].judged[q]) => stop'[o].judged[q] \in ruledOn'
    BY <1>2, <1>11, <2>1 DEF JudgedIsProven
  <2> QED
    BY <1>10, <1>12, <2>1 DEF JudgedIsProven, IsProven, IsGreen, Needs, now
<1> QED
  BY <1>13, <1>14

\* A stop lets a tree through only when every check counts and no ruling is owed.
LEMMA RuledIsOwed ==
    ASSUME RulingsSaw, NEW s \in Sessions, NEW t, NEW notRun \in BOOLEAN,
           Ruled(s, t, notRun) \notin {"no", "waits"}
    PROVE  ~notRun /\ (Needs(t) => t \in ruledOn)
BY DEF Ruled, RulingOn, RulingsSaw

\* A session that goes on to what is no stop keeps what is known of the stops.
LEMMA StopsMove ==
    ASSUME TypeOK, Readings, JudgedIsProven, ruledOn \subseteq ruledOn', misread \subseteq misread',
           \/ UNCHANGED <<phase, stop>>
           \/ \E s \in Sessions, p \in {"out", "idle", "working", "calling"} :
                /\ phase' = [phase EXCEPT ![s] = p]
                /\ stop' = [stop EXCEPT ![s] = NoStop] \/ stop' = stop
    PROVE  Readings' /\ JudgedIsProven'
<1>1. /\ stop \in [Sessions -> StopRecords]
      /\ phase \in [Sessions -> {"out", "idle", "working", "calling", "judging", "checking"}]
  BY DEF TypeOK, AgentTypes
<1>2. NoStop.todo = {} /\ DOMAIN NoStop.work = {} /\ DOMAIN NoStop.judged = {}
  BY DEF NoStop
<1>3. ASSUME NEW o \in Sessions
      PROVE  /\ stop'[o] = stop[o] \/ (stop'[o] = NoStop /\ phase'[o] # "checking")
             /\ phase'[o] = "checking" => phase[o] = "checking"
  BY <1>1
<1>4. Readings'
  BY <1>2, <1>3 DEF Readings
<1>5. ASSUME NEW u, IsProven(u)
      PROVE  (u.own \in Green \/ u \in misread') /\ (Needs(u) => u \in ruledOn')
  BY <1>5 DEF IsProven, IsGreen
<1>6. ASSUME NEW o \in Sessions
      PROVE  /\ ~stop'[o].failed => DOMAIN stop'[o].judged = DOMAIN stop'[o].work \ stop'[o].todo
             /\ \A q \in DOMAIN stop'[o].judged \ stop'[o].waits :
                  /\ stop'[o].judged[q].own \in Green \/ stop'[o].judged[q] \in misread'
                  /\ Needs(stop'[o].judged[q]) => stop'[o].judged[q] \in ruledOn'
  BY <1>2, <1>3, <1>5 DEF JudgedIsProven
<1>7. JudgedIsProven'
  BY <1>6 DEF JudgedIsProven, IsProven, IsGreen, Needs
<1> QED
  BY <1>4, <1>7

\* Every step keeps what is known of the stops.
LEMMA StopsStep ==
    ASSUME TypeOK, Readings, CheckedIsGreen, RulingsSaw, JudgedIsProven, [Next]_vars
    PROVE  Readings' /\ JudgedIsProven'
<1>1. ASSUME NEW s \in Sessions, NEW r \in Roots, SessionStart(s, r) PROVE Readings' /\ JudgedIsProven'
  BY <1>1, StopsMove DEF SessionStart, Returns, TypeOK, AgentTypes
<1>2. ASSUME NEW s \in Sessions, Prompt(s) PROVE Readings' /\ JudgedIsProven'
  BY <1>2, StopsMove DEF Prompt, Returns, TypeOK, AgentTypes
<1>3. ASSUME NEW s \in Sessions, Interrupt(s) PROVE Readings' /\ JudgedIsProven'
  BY <1>3, StopsMove DEF Interrupt, Returns, TypeOK, AgentTypes
<1>4. ASSUME NEW s \in Sessions, NEW r \in Roots, Quiet(s, r) PROVE Readings' /\ JudgedIsProven'
  BY <1>4, StopsMove DEF Quiet
<1>5. ASSUME NEW s \in Sessions, NEW r \in Roots, Call(s, r) PROVE Readings' /\ JudgedIsProven'
  BY <1>5, StopsMove DEF Call, Returns, TypeOK, AgentTypes
<1>6. ASSUME NEW s \in Sessions, Change(s) PROVE Readings' /\ JudgedIsProven'
  BY <1>6, StopsMove DEF Change, Returns
<1>7. ASSUME NEW s \in Sessions, Pause(s) PROVE Readings' /\ JudgedIsProven'
  BY <1>7, StopsMove DEF Pause, Returns
<1>8. ASSUME NEW s \in Sessions, Checkpoint(s) PROVE Readings' /\ JudgedIsProven'
  BY <1>8, StopsMove DEF Checkpoint, Returns
<1>9. ASSUME NEW s \in Sessions, StopBegins(s) PROVE Readings' /\ JudgedIsProven'
  <2> DEFINE now(background) ==
             [NoStop EXCEPT !.work = WorkOf(s), !.todo = DOMAIN WorkOf(s), !.background = background,
                !.verifying = background /\ Verifying(s),
                !.cachedOnly = gaveUp[s] = CodePrint(WorkOf(s), background)]
  <2>1. PICK background \in BOOLEAN : /\ phase' = [phase EXCEPT ![s] = "judging"]
                                     /\ stop' = [stop EXCEPT ![s] = now(background)]
    BY <1>9, Zenon DEF StopBegins
  <2>2. /\ now(background).todo = DOMAIN now(background).work
        /\ now(background).judged = [r \in {} |-> None]
    BY DEF NoStop
  <2> HIDE DEF now
  <2>3. UNCHANGED <<ruledOn, misread>>
    BY <1>9 DEF StopBegins
  <2>4. /\ stop'[s].todo = DOMAIN stop'[s].work /\ DOMAIN stop'[s].judged = {}
        /\ phase'[s] = "judging" /\ \A o \in Sessions \ {s} : stop'[o] = stop[o] /\ phase'[o] = phase[o]
    BY <2>1, <2>2 DEF TypeOK, AgentTypes
  <2>5. Readings'
    BY <2>4 DEF Readings
  <2>6. JudgedIsProven'
    BY <2>3, <2>4 DEF JudgedIsProven, IsProven, IsGreen, Needs
  <2> QED
    BY <2>5, <2>6
<1>10. ASSUME NEW s \in Sessions, StopsSilently(s) PROVE Readings' /\ JudgedIsProven'
  BY <1>10, StopsMove DEF StopsSilently, Returns, TypeOK, AgentTypes
<1>11. ASSUME NEW s \in Sessions, StopsToAsk(s) PROVE Readings' /\ JudgedIsProven'
  BY <1>11, StopsMove DEF StopsToAsk, Returns, TypeOK, AgentTypes
<1>12. ASSUME NEW s \in Sessions, NEW r \in Roots, Judge(s, r) PROVE Readings' /\ JudgedIsProven'
  <2> DEFINE t == Snapshot(r)
  <2>1. t \in Trees /\ phase[s] = "judging" /\ r \in stop[s].todo /\ UNCHANGED <<ruledOn, misread>>
    BY <1>12, SnapshotTypes DEF Judge
  <2>2. CASE \E v : Judged(s, r, t, v) /\ (v \in {"no", "waits"} \/ (t \in checked /\ v = Ruled(s, t, FALSE)))
    <3>1. PICK v : Judged(s, r, t, v) /\ (v \in {"no", "waits"} \/ (t \in checked /\ v = Ruled(s, t, FALSE)))
      BY <2>2
    <3>2. v \notin {"no", "waits"} => (t.own \in Green \/ t \in misread') /\ (Needs(t) => t \in ruledOn')
      BY <2>1, <3>1, RuledIsOwed DEF CheckedIsGreen, IsGreen
    <3> QED
      BY <2>1, <3>1, <3>2, JudgedSteps
  <2>3. CASE /\ phase' = [phase EXCEPT ![s] = "checking"]
             /\ stop' = [stop EXCEPT ![s].root = r, ![s].tree = t]
    <3>1. stop \in [Sessions -> StopRecords]
      BY DEF TypeOK, AgentTypes
    <3>2. /\ \A o \in Sessions :
                /\ stop'[o].todo = stop[o].todo /\ stop'[o].work = stop[o].work
                /\ stop'[o].failed = stop[o].failed /\ stop'[o].judged = stop[o].judged
                /\ stop'[o].waits = stop[o].waits
                /\ o # s => stop'[o] = stop[o]
          /\ stop'[s].root = r /\ stop'[s].tree = t
      BY <2>3, <3>1 DEF StopRecords
    <3>3. Readings'
      BY <2>1, <2>3, <3>2 DEF Readings, TypeOK, AgentTypes
    <3>4. ASSUME NEW o \in Sessions
          PROVE  /\ ~stop'[o].failed => DOMAIN stop'[o].judged = DOMAIN stop'[o].work \ stop'[o].todo
                 /\ \A q \in DOMAIN stop'[o].judged \ stop'[o].waits :
                      /\ stop'[o].judged[q].own \in Green \/ stop'[o].judged[q] \in misread'
                      /\ Needs(stop'[o].judged[q]) => stop'[o].judged[q] \in ruledOn'
      <4>1. /\ stop'[o].todo = stop[o].todo /\ stop'[o].work = stop[o].work
            /\ stop'[o].failed = stop[o].failed /\ stop'[o].judged = stop[o].judged
            /\ stop'[o].waits = stop[o].waits
        BY <3>2
      <4>2. /\ ~stop[o].failed => DOMAIN stop[o].judged = DOMAIN stop[o].work \ stop[o].todo
            /\ \A q \in DOMAIN stop[o].judged \ stop[o].waits : IsProven(stop[o].judged[q])
        BY DEF JudgedIsProven
      <4>3. misread' = misread /\ ruledOn' = ruledOn
        BY <2>1
      <4> QED
        BY <4>1, <4>2, <4>3 DEF IsProven, IsGreen
    <3>5. JudgedIsProven'
      BY <3>4 DEF JudgedIsProven, IsProven, IsGreen, Needs
    <3> QED
      BY <3>3, <3>5
  <2>4. Ruled(s, t, TRUE) \in {"no", "waits"}
    BY DEF Ruled
  <2> QED
    BY <1>12, <2>2, <2>3, <2>4 DEF Judge
<1>13. ASSUME NEW s \in Sessions, ChecksEnd(s) PROVE Readings' /\ JudgedIsProven'
  <2> DEFINE t == stop[s].tree
           r == stop[s].root
  <2>1. t \in Trees /\ r \in stop[s].todo /\ UNCHANGED ruledOn /\ misread \subseteq misread'
    BY <1>13 DEF ChecksEnd, Readings
  <2>2. PICK v : /\ Judged(s, r, t, v)
                 /\ \/ v = "no"
                    \/ /\ v = Ruled(s, t, stop[s].background)
                       /\ Snapshot(r).own \in IF stop[s].background THEN Clean ELSE Green
                       /\ misread' = IF Snapshot(r) = t THEN misread ELSE misread \union {t}
    BY <1>13 DEF ChecksEnd
  <2>3. stop[s].background \in BOOLEAN
    BY DEF TypeOK, AgentTypes, StopRecords
  <2>4. v \notin {"no", "waits"} => (t.own \in Green \/ t \in misread') /\ (Needs(t) => t \in ruledOn')
    BY <2>1, <2>2, <2>3, RuledIsOwed
  <2> QED
    BY <2>1, <2>2, <2>4, JudgedSteps
<1>14. ASSUME NEW s \in Sessions, StopPasses(s) PROVE Readings' /\ JudgedIsProven'
  BY <1>14, StopsMove DEF StopPasses, Ends
<1>15. ASSUME NEW s \in Sessions, StopFails(s) PROVE Readings' /\ JudgedIsProven'
  BY <1>15, StopsMove DEF StopFails, Ends
<1>16. ASSUME NEW s \in Sessions, VerifierStarts(s) PROVE Readings' /\ JudgedIsProven'
  BY <1>16, StopsMove DEF VerifierStarts
<1>17. ASSUME NEW r \in Roots, VerifierRuns(r) PROVE Readings' /\ JudgedIsProven'
  BY <1>17, StopsMove DEF VerifierRuns
<1>18. ASSUME NEW v \in Verdicts, VerifierHandsBack(v) PROVE Readings' /\ JudgedIsProven'
  BY <1>18, StopsMove DEF VerifierHandsBack
<1>19. ASSUME NEW v \in Verdicts \union {None, "void"}, VerifierStops(v) PROVE Readings' /\ JudgedIsProven'
  BY <1>19, StopsMove DEF VerifierStops
<1>20. CASE MainMoves
  BY <1>20, StopsMove DEF MainMoves
<1>21. CASE UNCHANGED vars
  BY <1>21, StopsMove DEF vars
<1> QED
  BY <1>1, <1>2, <1>3, <1>4, <1>5, <1>6, <1>7, <1>8, <1>9, <1>10, <1>11, <1>12, <1>13, <1>14,
     <1>15, <1>16, <1>17, <1>18, <1>19, <1>20, <1>21 DEF Next, Works, Stops, Judges

\* Trees found green stay so.
LEMMA CheckedSame ==
    ASSUME CheckedIsGreen, UNCHANGED checked, misread \subseteq misread'
    PROVE  CheckedIsGreen'
BY DEF CheckedIsGreen, IsGreen

\* Every step records only trees whose checks were green.
LEMMA CheckedStep ==
    ASSUME CheckedIsGreen, [Next]_vars
    PROVE  CheckedIsGreen'
<1>1. ASSUME NEW s \in Sessions, NEW r \in Roots, SessionStart(s, r) PROVE CheckedIsGreen'
  BY <1>1, CheckedSame DEF SessionStart, record, Ends, Returns
<1>2. ASSUME NEW s \in Sessions, Prompt(s) PROVE CheckedIsGreen'
  BY <1>2, CheckedSame DEF Prompt, record, Ends, Returns
<1>3. ASSUME NEW s \in Sessions, Interrupt(s) PROVE CheckedIsGreen'
  BY <1>3, CheckedSame DEF Interrupt, record, Ends, Returns
<1>4. ASSUME NEW s \in Sessions, NEW r \in Roots, Quiet(s, r) PROVE CheckedIsGreen'
  BY <1>4, CheckedSame DEF Quiet, record, Ends, Returns
<1>5. ASSUME NEW s \in Sessions, NEW r \in Roots, Call(s, r) PROVE CheckedIsGreen'
  BY <1>5, CheckedSame DEF Call, record, Ends, Returns
<1>6. ASSUME NEW s \in Sessions, Change(s) PROVE CheckedIsGreen'
  BY <1>6, CheckedSame DEF Change, record, Ends, Returns
<1>7. ASSUME NEW s \in Sessions, Pause(s) PROVE CheckedIsGreen'
  BY <1>7, CheckedSame DEF Pause, record, Ends, Returns
<1>8. ASSUME NEW s \in Sessions, Checkpoint(s) PROVE CheckedIsGreen'
  BY <1>8, CheckedSame DEF Checkpoint, record, Ends, Returns
<1>9. ASSUME NEW s \in Sessions, StopBegins(s) PROVE CheckedIsGreen'
  BY <1>9, CheckedSame DEF StopBegins, record, Ends, Returns
<1>10. ASSUME NEW s \in Sessions, StopsSilently(s) PROVE CheckedIsGreen'
  BY <1>10, CheckedSame DEF StopsSilently, record, Ends, Returns
<1>11. ASSUME NEW s \in Sessions, StopsToAsk(s) PROVE CheckedIsGreen'
  BY <1>11, CheckedSame DEF StopsToAsk, record, Ends, Returns
<1>12. ASSUME NEW s \in Sessions, NEW r \in Roots, Judge(s, r) PROVE CheckedIsGreen'
  BY <1>12, CheckedSame DEF Judge, record, Ends, Returns
<1>13. ASSUME NEW s \in Sessions, ChecksEnd(s) PROVE CheckedIsGreen'
  <2> DEFINE t == stop[s].tree
           r == stop[s].root
  <2>1. CASE UNCHANGED <<checked, misread>>
    BY <2>1, CheckedSame
  <2>2. CASE /\ Snapshot(r).own \in IF stop[s].background THEN Clean ELSE Green
             /\ Recorded(s, t)
             /\ misread' = IF Snapshot(r) = t THEN misread ELSE misread \union {t}
    BY <2>2 DEF Recorded, CheckedIsGreen, IsGreen
  <2> QED
    BY <1>13, <2>1, <2>2 DEF ChecksEnd
<1>14. ASSUME NEW s \in Sessions, StopPasses(s) PROVE CheckedIsGreen'
  BY <1>14, CheckedSame DEF StopPasses, record, Ends, Returns
<1>15. ASSUME NEW s \in Sessions, StopFails(s) PROVE CheckedIsGreen'
  BY <1>15, CheckedSame DEF StopFails, record, Ends, Returns
<1>16. ASSUME NEW s \in Sessions, VerifierStarts(s) PROVE CheckedIsGreen'
  BY <1>16, CheckedSame DEF VerifierStarts, record, Ends, Returns
<1>17. ASSUME NEW r \in Roots, VerifierRuns(r) PROVE CheckedIsGreen'
  BY <1>17, CheckedSame DEF VerifierRuns, record, Ends, Returns
<1>18. ASSUME NEW v \in Verdicts, VerifierHandsBack(v) PROVE CheckedIsGreen'
  BY <1>18, CheckedSame DEF VerifierHandsBack, record, Ends, Returns
<1>19. ASSUME NEW v \in Verdicts \union {None, "void"}, VerifierStops(v) PROVE CheckedIsGreen'
  BY <1>19, CheckedSame DEF VerifierStops, record, Ends, Returns
<1>20. CASE MainMoves
  BY <1>20, CheckedSame DEF MainMoves, record, Ends, Returns
<1>21. CASE UNCHANGED vars
  BY <1>21, CheckedSame DEF vars, record
<1> QED
  BY <1>1, <1>2, <1>3, <1>4, <1>5, <1>6, <1>7, <1>8, <1>9, <1>10, <1>11, <1>12, <1>13, <1>14,
     <1>15, <1>16, <1>17, <1>18, <1>19, <1>20, <1>21 DEF Next, Works, Stops, Judges

\* Rulings that stay are on trees seen.
LEMMA RulingsSame ==
    ASSUME RulingsSaw, UNCHANGED <<delivered, verifier>>, ruledOn \subseteq ruledOn'
    PROVE  RulingsSaw'
BY DEF RulingsSaw

\* Every step delivers rulings only on trees seen.
LEMMA RulingsStep ==
    ASSUME TypeOK, RulingsSaw, [Next]_vars
    PROVE  RulingsSaw'
<1>1. ASSUME NEW s \in Sessions, NEW r \in Roots, SessionStart(s, r) PROVE RulingsSaw'
  BY <1>1, RulingsSame DEF SessionStart, record, Ends, Returns
<1>2. ASSUME NEW s \in Sessions, Prompt(s) PROVE RulingsSaw'
  BY <1>2, RulingsSame DEF Prompt, record, Ends, Returns
<1>3. ASSUME NEW s \in Sessions, Interrupt(s) PROVE RulingsSaw'
  BY <1>3 DEF Interrupt, record, RulingsSaw
<1>4. ASSUME NEW s \in Sessions, NEW r \in Roots, Quiet(s, r) PROVE RulingsSaw'
  BY <1>4, RulingsSame DEF Quiet, record, Ends, Returns
<1>5. ASSUME NEW s \in Sessions, NEW r \in Roots, Call(s, r) PROVE RulingsSaw'
  BY <1>5, RulingsSame DEF Call, record, Ends, Returns
<1>6. ASSUME NEW s \in Sessions, Change(s) PROVE RulingsSaw'
  BY <1>6, RulingsSame DEF Change, record, Ends, Returns
<1>7. ASSUME NEW s \in Sessions, Pause(s) PROVE RulingsSaw'
  BY <1>7, RulingsSame DEF Pause, record, Ends, Returns
<1>8. ASSUME NEW s \in Sessions, Checkpoint(s) PROVE RulingsSaw'
  BY <1>8, RulingsSame DEF Checkpoint, record, Ends, Returns
<1>9. ASSUME NEW s \in Sessions, StopBegins(s) PROVE RulingsSaw'
  BY <1>9, RulingsSame DEF StopBegins, record, Ends, Returns
<1>10. ASSUME NEW s \in Sessions, StopsSilently(s) PROVE RulingsSaw'
  BY <1>10, RulingsSame DEF StopsSilently, record, Ends, Returns
<1>11. ASSUME NEW s \in Sessions, StopsToAsk(s) PROVE RulingsSaw'
  BY <1>11, RulingsSame DEF StopsToAsk, record, Ends, Returns
<1>12. ASSUME NEW s \in Sessions, NEW r \in Roots, Judge(s, r) PROVE RulingsSaw'
  BY <1>12, RulingsSame DEF Judge, record, Ends, Returns
<1>13. ASSUME NEW s \in Sessions, ChecksEnd(s) PROVE RulingsSaw'
  BY <1>13, RulingsSame DEF ChecksEnd, record, Ends, Returns
<1>14. ASSUME NEW s \in Sessions, StopPasses(s) PROVE RulingsSaw'
  BY <1>14, RulingsSame DEF StopPasses, record, Ends, Returns
<1>15. ASSUME NEW s \in Sessions, StopFails(s) PROVE RulingsSaw'
  BY <1>15, RulingsSame DEF StopFails, record, Ends, Returns
<1>16. ASSUME NEW s \in Sessions, VerifierStarts(s) PROVE RulingsSaw'
  BY <1>16 DEF VerifierStarts, record, RulingsSaw
<1>17. ASSUME NEW r \in Roots, VerifierRuns(r) PROVE RulingsSaw'
  <2>1. verifier \in Verifiers
    BY <1>17, RulingTypes DEF VerifierRuns
  <2> QED
    BY <1>17, <2>1 DEF VerifierRuns, RulingsSaw, Verifiers
<1>18. ASSUME NEW v \in Verdicts, VerifierHandsBack(v) PROVE RulingsSaw'
  <2>1. verifier \in Verifiers /\ Covers \subseteq ruledOn
    BY <1>18, RulingTypes DEF VerifierHandsBack, RulingsSaw, Covers, SawOf
  <2>2. /\ verifier'.saw = verifier.saw
        /\ verifier'.handed = verifier.handed \/ verifier'.handed.trees = Covers
    BY <1>18, <2>1 DEF VerifierHandsBack, Verifiers
  <2> QED
    BY <1>18, <2>1, <2>2 DEF VerifierHandsBack, RulingsSaw, record
<1>19. ASSUME NEW v \in Verdicts \union {None, "void"}, VerifierStops(v) PROVE RulingsSaw'
  <2>1. verifier \in Verifiers /\ Covers \subseteq ruledOn
    BY <1>19, RulingTypes DEF VerifierStops, RulingsSaw, Covers, SawOf
  <2>2. UNCHANGED ruledOn
    BY <1>19 DEF VerifierStops
  <2>3. DOMAIN delivered' \subseteq ruledOn
    BY <1>19, <2>1 DEF VerifierStops, RulingsSaw
  <2>4. verifier' # None => verifier'.saw = verifier.saw /\ verifier'.handed = verifier.handed
    BY <1>19, <2>1 DEF VerifierStops, Verifiers
  <2> QED
    BY <1>19, <2>2, <2>3, <2>4 DEF RulingsSaw, VerifierStops
<1>20. CASE MainMoves
  BY <1>20, RulingsSame DEF MainMoves, record, Ends, Returns
<1>21. CASE UNCHANGED vars
  BY <1>21, RulingsSame DEF vars, record
<1> QED
  BY <1>1, <1>2, <1>3, <1>4, <1>5, <1>6, <1>7, <1>8, <1>9, <1>10, <1>11, <1>12, <1>13, <1>14,
     <1>15, <1>16, <1>17, <1>18, <1>19, <1>20, <1>21 DEF Next, Works, Stops, Judges

\* Worktrees that stay are plain.
LEMMA PlainSame ==
    ASSUME Plain, UNCHANGED checkout
    PROVE  Plain'
BY DEF Plain

\* Every step leaves nothing of its own off a branch.
LEMMA PlainStep ==
    ASSUME TypeOK, Plain, [Next]_vars
    PROVE  Plain'
<1>1. ASSUME NEW s \in Sessions, NEW r \in Roots, SessionStart(s, r) PROVE Plain'
  BY <1>1, PlainSame DEF SessionStart, repo, Ends, Returns
<1>2. ASSUME NEW s \in Sessions, Prompt(s) PROVE Plain'
  BY <1>2, PlainSame DEF Prompt, repo, Ends, Returns
<1>3. ASSUME NEW s \in Sessions, Interrupt(s) PROVE Plain'
  BY <1>3, PlainSame DEF Interrupt, repo, Ends, Returns
<1>4. ASSUME NEW s \in Sessions, NEW r \in Roots, Quiet(s, r) PROVE Plain'
  BY <1>4, PlainSame DEF Quiet, repo, Ends, Returns
<1>5. ASSUME NEW s \in Sessions, NEW r \in Roots, Call(s, r) PROVE Plain'
  BY <1>5, PlainSame DEF Call, repo, Ends, Returns
<1>6. ASSUME NEW s \in Sessions, Change(s) PROVE Plain'
  <2> DEFINE r == here[s]
  <2>1. spent \in Nat /\ spent < MaxEvents /\ main \in 0 .. spent /\ r \in Roots
    BY <1>6, GateAssumption DEF Change, Returns, Event, Events, TypeOK, RepoTypes, AgentTypes
  <2>2. PICK c \in Changes(checkout[r]) : checkout' = [checkout EXCEPT ![r] = c]
    BY <1>6 DEF Change
  <2>3. checkout \in [Roots -> Checkouts] /\ checkout[r] \in Checkouts /\ checkout[r].id <= spent
    BY <2>1, GateAssumption DEF TypeOK, RepoTypes
  <2>4. /\ ~c.on => c.tree.own = Unchanged
        /\ ~c.ahead => c.tip.own = Unchanged
    BY <2>1, <2>2, <2>3, ChangeTypes DEF Plain
  <2> QED
    BY <2>1, <2>2, <2>3, <2>4 DEF Plain
<1>7. ASSUME NEW s \in Sessions, Pause(s) PROVE Plain'
  BY <1>7, PlainSame DEF Pause, repo, Ends, Returns
<1>8. ASSUME NEW s \in Sessions, Checkpoint(s) PROVE Plain'
  BY <1>8, PlainSame DEF Checkpoint, repo, Ends, Returns
<1>9. ASSUME NEW s \in Sessions, StopBegins(s) PROVE Plain'
  BY <1>9, PlainSame DEF StopBegins, repo, Ends, Returns
<1>10. ASSUME NEW s \in Sessions, StopsSilently(s) PROVE Plain'
  BY <1>10, PlainSame DEF StopsSilently, repo, Ends, Returns
<1>11. ASSUME NEW s \in Sessions, StopsToAsk(s) PROVE Plain'
  BY <1>11, PlainSame DEF StopsToAsk, repo, Ends, Returns
<1>12. ASSUME NEW s \in Sessions, NEW r \in Roots, Judge(s, r) PROVE Plain'
  BY <1>12, PlainSame DEF Judge, repo, Ends, Returns
<1>13. ASSUME NEW s \in Sessions, ChecksEnd(s) PROVE Plain'
  BY <1>13, PlainSame DEF ChecksEnd, repo, Ends, Returns
<1>14. ASSUME NEW s \in Sessions, StopPasses(s) PROVE Plain'
  BY <1>14, PlainSame DEF StopPasses, repo, Ends, Returns
<1>15. ASSUME NEW s \in Sessions, StopFails(s) PROVE Plain'
  BY <1>15, PlainSame DEF StopFails, repo, Ends, Returns
<1>16. ASSUME NEW s \in Sessions, VerifierStarts(s) PROVE Plain'
  BY <1>16, PlainSame DEF VerifierStarts, repo, Ends, Returns
<1>17. ASSUME NEW r \in Roots, VerifierRuns(r) PROVE Plain'
  BY <1>17, PlainSame DEF VerifierRuns, repo, Ends, Returns
<1>18. ASSUME NEW v \in Verdicts, VerifierHandsBack(v) PROVE Plain'
  BY <1>18, PlainSame DEF VerifierHandsBack, repo, Ends, Returns
<1>19. ASSUME NEW v \in Verdicts \union {None, "void"}, VerifierStops(v) PROVE Plain'
  BY <1>19, PlainSame DEF VerifierStops, repo, Ends, Returns
<1>20. CASE MainMoves
  BY <1>20, PlainSame DEF MainMoves
<1>21. CASE UNCHANGED vars
  BY <1>21, PlainSame DEF vars, repo
<1> QED
  BY <1>1, <1>2, <1>3, <1>4, <1>5, <1>6, <1>7, <1>8, <1>9, <1>10, <1>11, <1>12, <1>13, <1>14,
     <1>15, <1>16, <1>17, <1>18, <1>19, <1>20, <1>21 DEF Next, Works, Stops, Judges

\* Notes that stay answer for what they did.
LEMMA AnswersSame ==
    ASSUME AcceptedAnswers, UNCHANGED <<byBranch, answers>>,
           UNCHANGED note \/ \A s \in Sessions, r \in Roots : note'[s][r].accepted = note[s][r].accepted
    PROVE  AcceptedAnswers'
BY DEF AcceptedAnswers

\* The code a worktree is found in is the session's own from before, or becomes
\* what it answers for.
LEMMA AnswersTouched ==
    ASSUME TypeOK, Plain, AcceptedAnswers, NEW s \in Sessions, NEW r \in Roots, Touch(s, r),
           \A o \in Sessions \ {s} : note'[o] = note[o],
           \A q \in Roots : note'[s][q].accepted =
                IF q = r /\ Found(s, r) THEN StartingPoint(s, r) ELSE note[s][q].accepted
    PROVE  AcceptedAnswers'
<1>1. /\ byBranch \in [Sessions -> [Roots -> Trees \union {None}]]
      /\ answers \in [Sessions -> [Roots -> SUBSET Contents]]
  BY DEF TypeOK, NoteTypes
<1>2. /\ byBranch' = IF Found(s, r) /\ checkout[r].on
                    THEN [byBranch EXCEPT ![s][r] = StartingPoint(s, r)] ELSE byBranch
      /\ answers' = IF Found(s, r) /\ (toucher[r] # s \/ byBranch[s][r] = None)
                   THEN [answers EXCEPT ![s][r] = @ \union {Snapshot(r).own}] ELSE answers
  BY DEF Touch
<1>3. /\ \A o \in Sessions, q \in Roots : answers[o][q] \subseteq answers'[o][q]
      /\ Found(s, r) /\ (toucher[r] # s \/ byBranch[s][r] = None) => Snapshot(r).own \in answers'[s][r]
      /\ \A o \in Sessions, q \in Roots :
           byBranch'[o][q] = IF o = s /\ q = r /\ Found(s, r) /\ checkout[r].on
                             THEN StartingPoint(s, r) ELSE byBranch[o][q]
  BY <1>1, <1>2
<1>4. ASSUME Found(s, r)
      PROVE  /\ StartingPoint(s, r).own \in answers'[s][r] \union {Unchanged}
             /\ checkout[r].on => StartingPoint(s, r).own \in answers'[s][r]
  <2>1. CASE StartingPoint(s, r) = byBranch[s][r] /\ byBranch[s][r] # None
    BY <1>3, <2>1 DEF AcceptedAnswers
  <2>2. CASE ~checkout[r].on /\ StartingPoint(s, r) = Snapshot(r)
    BY <2>2 DEF Plain, Snapshot
  <2>3. CASE checkout[r].on /\ StartingPoint(s, r) = Snapshot(r) /\ (toucher[r] # s \/ byBranch[s][r] = None)
    BY <1>3, <1>4, <2>3
  <2> QED
    BY <1>4, <2>1, <2>2, <2>3 DEF StartingPoint, Found
<1>5. ASSUME NEW o \in Sessions, NEW q \in Roots
      PROVE  /\ note'[o][q].accepted # None =>
                  note'[o][q].accepted.own \in answers'[o][q] \union {Unchanged}
             /\ byBranch'[o][q] # None => byBranch'[o][q].own \in answers'[o][q]
  <2>1. CASE o = s /\ q = r /\ Found(s, r)
    <3>1. note'[o][q].accepted = StartingPoint(s, r)
      BY <2>1
    <3>2. byBranch'[o][q] = IF checkout[r].on THEN StartingPoint(s, r) ELSE byBranch[o][q]
      BY <1>3, <2>1
    <3> QED
      BY <1>3, <1>4, <2>1, <3>1, <3>2 DEF AcceptedAnswers
  <2>2. CASE ~(o = s /\ q = r /\ Found(s, r))
    <3>1. note'[o][q].accepted = note[o][q].accepted /\ byBranch'[o][q] = byBranch[o][q]
      BY <1>3, <2>2
    <3> QED
      BY <1>3, <3>1 DEF AcceptedAnswers
  <2> QED
    BY <2>1, <2>2
<1> QED
  BY <1>5 DEF AcceptedAnswers

\* What is accepted becomes what the session answers for.
LEMMA AnswersAccepted ==
    ASSUME TypeOK, AcceptedAnswers, NEW s \in Sessions, NEW trees \in PerRoot, NEW released,
           Accept(s, trees, released)
    PROVE  AcceptedAnswers'
<1>1. /\ note \in [Sessions -> [Roots -> Notes]]
      /\ byBranch \in [Sessions -> [Roots -> Trees \union {None}]]
      /\ answers \in [Sessions -> [Roots -> SUBSET Contents]]
  BY DEF TypeOK, NoteTypes
<1> DEFINE n(r) == [note[s][r] EXCEPT !.accepted = IF r \in DOMAIN trees THEN trees[r] ELSE @,
                                      !.held = @ /\ r \notin released]
           b(r) == IF r \in DOMAIN trees /\ checkout[r].on THEN trees[r] ELSE byBranch[s][r]
           a(r) == answers[s][r] \union {trees[q].own : q \in DOMAIN trees \intersect {r}}
<1>2. /\ note' = [note EXCEPT ![s] = [r \in Roots |-> n(r)]]
      /\ byBranch' = [byBranch EXCEPT ![s] = [r \in Roots |-> b(r)]]
      /\ answers' = [answers EXCEPT ![s] = [r \in Roots |-> a(r)]]
  BY Zenon DEF Accept
<1>3. ASSUME NEW r \in Roots
      PROVE  /\ n(r).accepted = IF r \in DOMAIN trees THEN trees[r] ELSE note[s][r].accepted
             /\ answers[s][r] \subseteq a(r)
             /\ r \in DOMAIN trees => trees[r].own \in a(r)
  <2>1. note[s][r] \in Notes
    BY <1>1
  <2>2. n(r).accepted = IF r \in DOMAIN trees THEN trees[r] ELSE note[s][r].accepted
    BY <2>1 DEF Notes
  <2>3. answers[s][r] \subseteq a(r) /\ (r \in DOMAIN trees => trees[r].own \in a(r))
    OBVIOUS
  <2> QED
    BY <2>2, <2>3
<1>4. ASSUME NEW r \in Roots
      PROVE  b(r) = IF r \in DOMAIN trees /\ checkout[r].on THEN trees[r] ELSE byBranch[s][r]
  OBVIOUS
<1> HIDE DEF n, b, a
<1>5. \A r \in Roots : note'[s][r] = n(r) /\ byBranch'[s][r] = b(r) /\ answers'[s][r] = a(r)
  BY <1>1, <1>2
<1>6. \A o \in Sessions \ {s} : /\ note'[o] = note[o] /\ byBranch'[o] = byBranch[o]
                               /\ answers'[o] = answers[o]
  BY <1>1, <1>2
<1>7. ASSUME NEW r \in Roots
      PROVE  /\ note'[s][r].accepted # None =>
                  note'[s][r].accepted.own \in answers'[s][r] \union {Unchanged}
             /\ byBranch'[s][r] # None => byBranch'[s][r].own \in answers'[s][r]
  BY <1>3, <1>4, <1>5 DEF AcceptedAnswers
<1>8. ASSUME NEW o \in Sessions \ {s}, NEW r \in Roots
      PROVE  /\ note'[o][r].accepted # None =>
                  note'[o][r].accepted.own \in answers'[o][r] \union {Unchanged}
             /\ byBranch'[o][r] # None => byBranch'[o][r].own \in answers'[o][r]
  BY <1>6 DEF AcceptedAnswers
<1> QED
  BY <1>7, <1>8 DEF AcceptedAnswers

\* Every step accepts only what the session answers for.
LEMMA AnswersStep ==
    ASSUME TypeOK, Plain, AcceptedAnswers, [Next]_vars
    PROVE  AcceptedAnswers'
<1>1. ASSUME NEW s \in Sessions, NEW r \in Roots, SessionStart(s, r) PROVE AcceptedAnswers'
  <2>1. /\ note' = [note EXCEPT ![s] = [Touched(s, r) EXCEPT ![r].held = @ \/ Interrupted(s, r)]]
        /\ Touch(s, r)
    BY <1>1 DEF SessionStart
  <2>2. Touched(s, r) \in [Roots -> Notes]
    BY TouchedTypes
  <2>3. \A q \in Roots : [Touched(s, r) EXCEPT ![r].held = @ \/ Interrupted(s, r)][q].accepted
                          = Touched(s, r)[q].accepted
    BY <2>2 DEF Notes
  <2>4. /\ \A q \in Roots : note'[s][q].accepted = Touched(s, r)[q].accepted
        /\ \A o \in Sessions \ {s} : note'[o] = note[o]
    BY <2>1, <2>3 DEF TypeOK, NoteTypes
  <2> QED
    BY <2>1, <2>4, TouchedTypes, AnswersTouched
<1>2. ASSUME NEW s \in Sessions, Prompt(s) PROVE AcceptedAnswers'
  BY <1>2, AnswersSame DEF Prompt, record, Ends, Returns
<1>3. ASSUME NEW s \in Sessions, Interrupt(s) PROVE AcceptedAnswers'
  BY <1>3, AnswersSame DEF Interrupt, record, Ends, Returns
<1>4. ASSUME NEW s \in Sessions, NEW r \in Roots, Quiet(s, r) PROVE AcceptedAnswers'
  <2>1. note \in [Sessions -> [Roots -> Notes]]
    BY DEF TypeOK, NoteTypes
  <2>2. \A o \in Sessions, q \in Roots : note'[o][q].accepted = note[o][q].accepted
    BY <1>4, <2>1 DEF Quiet, Notes
  <2> QED
    BY <1>4, <2>2, AnswersSame DEF Quiet, record
<1>5. ASSUME NEW s \in Sessions, NEW r \in Roots, Call(s, r) PROVE AcceptedAnswers'
  <2>1. note' = [note EXCEPT ![s] = Touched(s, r)] /\ Touch(s, r)
    BY <1>5 DEF Call
  <2>2. note'[s] = Touched(s, r) /\ \A o \in Sessions \ {s} : note'[o] = note[o]
    BY <2>1 DEF TypeOK, NoteTypes
  <2> QED
    BY <2>1, <2>2, TouchedTypes, AnswersTouched
<1>6. ASSUME NEW s \in Sessions, Change(s) PROVE AcceptedAnswers'
  BY <1>6, AnswersSame DEF Change, record, Ends, Returns
<1>7. ASSUME NEW s \in Sessions, Pause(s) PROVE AcceptedAnswers'
  BY <1>7, AnswersSame DEF Pause, record, Ends, Returns
<1>8. ASSUME NEW s \in Sessions, Checkpoint(s) PROVE AcceptedAnswers'
  <2> DEFINE r == here[s]
           o == toucher[r]
  <2>1. note \in [Sessions -> [Roots -> Notes]] /\ r \in Roots /\ o \in Sessions \union {None}
    BY <1>8 DEF Checkpoint, Returns, TypeOK, NoteTypes, AgentTypes
  <2>2. \/ note' = note
        \/ o \in Sessions /\ note' = [note EXCEPT ![o][r].held = TRUE]
    BY <1>8, <2>1 DEF Checkpoint
  <2> HIDE DEF r, o
  <2>3. \A u \in Sessions, q \in Roots : note'[u][q].accepted = note[u][q].accepted
    <3>1. CASE note' = note
      BY <3>1
    <3>2. CASE o \in Sessions /\ note' = [note EXCEPT ![o][r].held = TRUE]
      <4>1. note[o][r] \in Notes
        BY <2>1, <3>2
      <4>2. note'[o][r] = [note[o][r] EXCEPT !.held = TRUE]
        BY <2>1, <3>2
      <4>3. note'[o][r].accepted = note[o][r].accepted
        BY <4>1, <4>2 DEF Notes
      <4>4. \A u \in Sessions, q \in Roots : u # o \/ q # r => note'[u][q] = note[u][q]
        BY <2>1, <3>2
      <4> QED BY <4>3, <4>4
    <3> QED BY <2>2, <3>1, <3>2
  <2> QED
    BY <1>8, <2>3, AnswersSame DEF Checkpoint, Returns
<1>9. ASSUME NEW s \in Sessions, StopBegins(s) PROVE AcceptedAnswers'
  <2>1. Accept(s, [q \in Arrived(s) |-> Snapshot(q)], {})
    BY <1>9 DEF StopBegins
  <2> QED
    BY <2>1, WorkTypes, AnswersAccepted
<1>10. ASSUME NEW s \in Sessions, StopsSilently(s) PROVE AcceptedAnswers'
  <2>1. Accept(s, [q \in Arrived(s) |-> Snapshot(q)], {})
    BY <1>10 DEF StopsSilently
  <2> QED
    BY <2>1, WorkTypes, AnswersAccepted
<1>11. ASSUME NEW s \in Sessions, StopsToAsk(s) PROVE AcceptedAnswers'
  <2>1. Accept(s, [q \in Arrived(s) |-> Snapshot(q)], DOMAIN WorkOf(s))
    BY <1>11 DEF StopsToAsk
  <2> QED
    BY <2>1, WorkTypes, AnswersAccepted
<1>12. ASSUME NEW s \in Sessions, NEW r \in Roots, Judge(s, r) PROVE AcceptedAnswers'
  BY <1>12, AnswersSame DEF Judge, record, Ends, Returns
<1>13. ASSUME NEW s \in Sessions, ChecksEnd(s) PROVE AcceptedAnswers'
  BY <1>13, AnswersSame DEF ChecksEnd, record, Ends, Returns
<1>14. ASSUME NEW s \in Sessions, StopPasses(s) PROVE AcceptedAnswers'
  <2>1. Accept(s, [q \in Passes(s) |-> stop[s].work[q]], {q \in Passes(s) : checkout[q].on})
    BY <1>14 DEF StopPasses
  <2> QED
    BY <2>1, PassesTypes, AnswersAccepted
<1>15. ASSUME NEW s \in Sessions, StopFails(s) PROVE AcceptedAnswers'
  BY <1>15, AnswersSame DEF StopFails, record, Ends, Returns
<1>16. ASSUME NEW s \in Sessions, VerifierStarts(s) PROVE AcceptedAnswers'
  BY <1>16, AnswersSame DEF VerifierStarts, record, Ends, Returns
<1>17. ASSUME NEW r \in Roots, VerifierRuns(r) PROVE AcceptedAnswers'
  <2> DEFINE s == verifier.of
  <2>1. s \in Sessions
    BY <1>17 DEF VerifierRuns, TypeOK, AgentTypes, Verifiers
  <2>2. note' = [note EXCEPT ![s] = Touched(s, r)] /\ Touch(s, r)
    BY <1>17 DEF VerifierRuns
  <2>3. note'[s] = Touched(s, r) /\ \A o \in Sessions \ {s} : note'[o] = note[o]
    BY <2>1, <2>2 DEF TypeOK, NoteTypes
  <2> HIDE DEF s
  <2> QED
    BY <2>1, <2>2, <2>3, TouchedTypes, AnswersTouched
<1>18. ASSUME NEW v \in Verdicts, VerifierHandsBack(v) PROVE AcceptedAnswers'
  BY <1>18, AnswersSame DEF VerifierHandsBack, record, Ends, Returns
<1>19. ASSUME NEW v \in Verdicts \union {None, "void"}, VerifierStops(v) PROVE AcceptedAnswers'
  BY <1>19, AnswersSame DEF VerifierStops, record, Ends, Returns
<1>20. CASE MainMoves
  BY <1>20, AnswersSame DEF MainMoves, record, Ends, Returns
<1>21. CASE UNCHANGED vars
  BY <1>21, AnswersSame DEF vars, record
<1> QED
  BY <1>1, <1>2, <1>3, <1>4, <1>5, <1>6, <1>7, <1>8, <1>9, <1>10, <1>11, <1>12, <1>13, <1>14,
     <1>15, <1>16, <1>17, <1>18, <1>19, <1>20, <1>21 DEF Next, Works, Stops, Judges

\* Only a stop that passes lets a judged session go with its notes changed.
LEMMA WhoPasses ==
    ASSUME TypeOK, [Next]_vars, NEW o \in Sessions
    PROVE  phase[o] = "judging" /\ phase'[o] = "idle" => StopPasses(o) \/ UNCHANGED note
<1> DEFINE Goal == phase[o] = "judging" /\ phase'[o] = "idle" => StopPasses(o) \/ UNCHANGED note
<1>1. ASSUME NEW s \in Sessions, NEW r \in Roots, SessionStart(s, r) PROVE Goal
  BY <1>1 DEF SessionStart, TypeOK, AgentTypes, Returns, Ends
<1>2. ASSUME NEW s \in Sessions, Prompt(s) PROVE Goal
  BY <1>2 DEF Prompt, TypeOK, AgentTypes, Returns, Ends
<1>3. ASSUME NEW s \in Sessions, Interrupt(s) PROVE Goal
  BY <1>3 DEF Interrupt, TypeOK, AgentTypes, Returns, Ends
<1>4. ASSUME NEW s \in Sessions, NEW r \in Roots, Quiet(s, r) PROVE Goal
  BY <1>4 DEF Quiet
<1>5. ASSUME NEW s \in Sessions, NEW r \in Roots, Call(s, r) PROVE Goal
  BY <1>5 DEF Call, TypeOK, AgentTypes, Returns, Ends
<1>6. ASSUME NEW s \in Sessions, Change(s) PROVE Goal
  BY <1>6 DEF Change, TypeOK, AgentTypes, Returns, Ends
<1>7. ASSUME NEW s \in Sessions, Pause(s) PROVE Goal
  BY <1>7 DEF Pause, TypeOK, AgentTypes, Returns, Ends
<1>8. ASSUME NEW s \in Sessions, Checkpoint(s) PROVE Goal
  BY <1>8 DEF Checkpoint, TypeOK, AgentTypes, Returns, Ends
<1>9. ASSUME NEW s \in Sessions, StopBegins(s) PROVE Goal
  <2>1. phase' = [phase EXCEPT ![s] = "judging"]
    BY <1>9 DEF StopBegins
  <2> QED
    BY <2>1 DEF TypeOK, AgentTypes
<1>10. ASSUME NEW s \in Sessions, StopsSilently(s) PROVE Goal
  BY <1>10 DEF StopsSilently, TypeOK, AgentTypes, Returns, Ends
<1>11. ASSUME NEW s \in Sessions, StopsToAsk(s) PROVE Goal
  BY <1>11 DEF StopsToAsk, TypeOK, AgentTypes, Returns, Ends
<1>12. ASSUME NEW s \in Sessions, NEW r \in Roots, Judge(s, r) PROVE Goal
  <2>1. phase' \in {[phase EXCEPT ![s] = "judging"], [phase EXCEPT ![s] = "checking"]}
    BY <1>12 DEF Judge, Judged
  <2> QED
    BY <2>1 DEF TypeOK, AgentTypes
<1>13. ASSUME NEW s \in Sessions, ChecksEnd(s) PROVE Goal
  <2>1. phase' = [phase EXCEPT ![s] = "judging"]
    BY <1>13 DEF ChecksEnd, Judged
  <2> QED
    BY <2>1 DEF TypeOK, AgentTypes
<1>14. ASSUME NEW s \in Sessions, StopPasses(s) PROVE Goal
  BY <1>14 DEF StopPasses, TypeOK, AgentTypes, Returns, Ends
<1>15. ASSUME NEW s \in Sessions, StopFails(s) PROVE Goal
  BY <1>15 DEF StopFails, TypeOK, AgentTypes, Returns, Ends
<1>16. ASSUME NEW s \in Sessions, VerifierStarts(s) PROVE Goal
  BY <1>16 DEF VerifierStarts
<1>17. ASSUME NEW r \in Roots, VerifierRuns(r) PROVE Goal
  BY <1>17 DEF VerifierRuns
<1>18. ASSUME NEW v \in Verdicts, VerifierHandsBack(v) PROVE Goal
  BY <1>18 DEF VerifierHandsBack
<1>19. ASSUME NEW v \in Verdicts \union {None, "void"}, VerifierStops(v) PROVE Goal
  BY <1>19 DEF VerifierStops
<1>20. CASE MainMoves
  BY <1>20 DEF MainMoves
<1>21. CASE UNCHANGED vars
  BY <1>21 DEF vars
<1> QED
  BY <1>1, <1>2, <1>3, <1>4, <1>5, <1>6, <1>7, <1>8, <1>9, <1>10, <1>11, <1>12, <1>13, <1>14,
     <1>15, <1>16, <1>17, <1>18, <1>19, <1>20, <1>21 DEF Next, Works, Stops, Judges

\* Only a silent stop lets a working session go with no question asked.
LEMMA WhoIsSilent ==
    ASSUME TypeOK, [Next]_vars, NEW o \in Sessions
    PROVE  phase[o] = "working" /\ phase'[o] = "idle" /\ pauses' = pauses => StopsSilently(o)
<1> DEFINE Goal == phase[o] = "working" /\ phase'[o] = "idle" /\ pauses' = pauses => StopsSilently(o)
<1>1. ASSUME NEW s \in Sessions, NEW r \in Roots, SessionStart(s, r) PROVE Goal
  BY <1>1 DEF SessionStart, TypeOK, AgentTypes, Returns, Ends
<1>2. ASSUME NEW s \in Sessions, Prompt(s) PROVE Goal
  BY <1>2 DEF Prompt, TypeOK, AgentTypes, Returns, Ends
<1>3. ASSUME NEW s \in Sessions, Interrupt(s) PROVE Goal
  BY <1>3 DEF Interrupt, TypeOK, AgentTypes, Returns, Ends
<1>4. ASSUME NEW s \in Sessions, NEW r \in Roots, Quiet(s, r) PROVE Goal
  BY <1>4 DEF Quiet
<1>5. ASSUME NEW s \in Sessions, NEW r \in Roots, Call(s, r) PROVE Goal
  BY <1>5 DEF Call, TypeOK, AgentTypes, Returns, Ends
<1>6. ASSUME NEW s \in Sessions, Change(s) PROVE Goal
  BY <1>6 DEF Change, TypeOK, AgentTypes, Returns, Ends
<1>7. ASSUME NEW s \in Sessions, Pause(s) PROVE Goal
  BY <1>7 DEF Pause, TypeOK, AgentTypes, Returns, Ends
<1>8. ASSUME NEW s \in Sessions, Checkpoint(s) PROVE Goal
  BY <1>8 DEF Checkpoint, TypeOK, AgentTypes, Returns, Ends
<1>9. ASSUME NEW s \in Sessions, StopBegins(s) PROVE Goal
  <2>1. phase' = [phase EXCEPT ![s] = "judging"]
    BY <1>9 DEF StopBegins
  <2> QED
    BY <2>1 DEF TypeOK, AgentTypes
<1>10. ASSUME NEW s \in Sessions, StopsSilently(s) PROVE Goal
  BY <1>10 DEF StopsSilently, TypeOK, AgentTypes, Returns, Ends
<1>11. ASSUME NEW s \in Sessions, StopsToAsk(s) PROVE Goal
  <2>1. pauses' # pauses
    BY <1>11 DEF StopsToAsk
  <2> QED
    BY <2>1
<1>12. ASSUME NEW s \in Sessions, NEW r \in Roots, Judge(s, r) PROVE Goal
  <2>1. phase' \in {[phase EXCEPT ![s] = "judging"], [phase EXCEPT ![s] = "checking"]}
    BY <1>12 DEF Judge, Judged
  <2> QED
    BY <2>1 DEF TypeOK, AgentTypes
<1>13. ASSUME NEW s \in Sessions, ChecksEnd(s) PROVE Goal
  <2>1. phase' = [phase EXCEPT ![s] = "judging"]
    BY <1>13 DEF ChecksEnd, Judged
  <2> QED
    BY <2>1 DEF TypeOK, AgentTypes
<1>14. ASSUME NEW s \in Sessions, StopPasses(s) PROVE Goal
  BY <1>14 DEF StopPasses, TypeOK, AgentTypes, Returns, Ends
<1>15. ASSUME NEW s \in Sessions, StopFails(s) PROVE Goal
  BY <1>15 DEF StopFails, TypeOK, AgentTypes, Returns, Ends
<1>16. ASSUME NEW s \in Sessions, VerifierStarts(s) PROVE Goal
  BY <1>16 DEF VerifierStarts
<1>17. ASSUME NEW r \in Roots, VerifierRuns(r) PROVE Goal
  BY <1>17 DEF VerifierRuns
<1>18. ASSUME NEW v \in Verdicts, VerifierHandsBack(v) PROVE Goal
  BY <1>18 DEF VerifierHandsBack
<1>19. ASSUME NEW v \in Verdicts \union {None, "void"}, VerifierStops(v) PROVE Goal
  BY <1>19 DEF VerifierStops
<1>20. CASE MainMoves
  BY <1>20 DEF MainMoves
<1>21. CASE UNCHANGED vars
  BY <1>21 DEF vars
<1> QED
  BY <1>1, <1>2, <1>3, <1>4, <1>5, <1>6, <1>7, <1>8, <1>9, <1>10, <1>11, <1>12, <1>13, <1>14,
     <1>15, <1>16, <1>17, <1>18, <1>19, <1>20, <1>21 DEF Next, Works, Stops, Judges

\* Accepting trees leaves the other worktrees' notes alone.
LEMMA OthersKept ==
    ASSUME TypeOK, NEW s \in Sessions, NEW trees \in PerRoot, NEW released, Accept(s, trees, released),
           NEW r \in Roots, r \notin DOMAIN trees
    PROVE  note'[s][r].accepted = note[s][r].accepted
<1> DEFINE n(q) == [note[s][q] EXCEPT !.accepted = IF q \in DOMAIN trees THEN trees[q] ELSE @,
                                      !.held = @ /\ q \notin released]
<1>1. note' = [note EXCEPT ![s] = [q \in Roots |-> n(q)]]
  BY Zenon DEF Accept
<1>2. note[s][r] \in Notes
  BY DEF TypeOK, NoteTypes
<1>3. n(r).accepted = note[s][r].accepted
  BY <1>2 DEF Notes
<1> HIDE DEF n
<1>4. note'[s][r] = n(r)
  BY <1>1 DEF TypeOK, NoteTypes
<1> QED
  BY <1>3, <1>4

\* The inductive invariant, and that it is one.
LEMMA Invariant ==
    Spec => []IInv
<1>1. Init => IInv
  <2> SUFFICES ASSUME Init PROVE IInv
    OBVIOUS
  <2>1. Readings /\ JudgedIsProven
    BY DEF Init, NoStop, Readings, JudgedIsProven
  <2>2. CheckedIsGreen /\ RulingsSaw
    BY DEF Init, CheckedIsGreen, RulingsSaw
  <2>3. AcceptedAnswers /\ Plain
    BY DEF Init, AcceptedAnswers, Plain
  <2> QED
    BY <2>1, <2>2, <2>3, InitTypes DEF IInv
<1>2. IInv /\ [Next]_vars => IInv'
  BY RepoStep, NoteStep, EvidenceStep, AgentStep, StopsStep, CheckedStep, RulingsStep,
     PlainStep, AnswersStep DEF IInv, TypeOK
<1> QED
  BY <1>1, <1>2, PTL DEF Spec

\* Every variable of the gate's record keeps its type: session-by-session
\* notes, rulings, blocks and the stop being judged (store.ts).
THEOREM GateTypes == Spec => []TypeOK
<1>1. IInv => TypeOK
  BY DEF IInv
<1> QED
  BY <1>1, Invariant, PTL

\* A passing stop newly accepts only code that went green in every check and,
\* product code, that a verifier's command was noted on, unless the worktree
\* changed under the stop (stop.ts:31-140, verdict.ts:42-99).
THEOREM PassesAreProven == Spec => PassIsProven
<1> DEFINE Passing ==
      \A s \in Sessions : phase[s] = "judging" /\ phase'[s] = "idle" =>
         \A r \in DOMAIN stop[s].work :
            LET t == stop[s].work[r] IN
            /\ note'[s][r].accepted = t /\ note[s][r].accepted # t
            /\ stop[s].judged[r] = t
            => /\ t.own \in Green \/ t \in misread
               /\ Needs(t) => t \in ruledOn
<1>1. IInv /\ [Next]_vars => [Passing]_vars
  <2> SUFFICES ASSUME IInv, [Next]_vars PROVE Passing
    OBVIOUS
  <2> SUFFICES ASSUME NEW s \in Sessions, phase[s] = "judging", phase'[s] = "idle",
                      NEW r \in DOMAIN stop[s].work,
                      note'[s][r].accepted = stop[s].work[r], note[s][r].accepted # stop[s].work[r],
                      stop[s].judged[r] = stop[s].work[r]
               PROVE  /\ stop[s].work[r].own \in Green \/ stop[s].work[r] \in misread
                      /\ Needs(stop[s].work[r]) => stop[s].work[r] \in ruledOn
    OBVIOUS
  <2>1. StopPasses(s)
    BY WhoPasses DEF IInv
  <2>2. r \in Roots /\ note[s][r] \in Notes /\ DOMAIN stop[s].work \subseteq Roots
    BY DEF IInv, TypeOK, NoteTypes, AgentTypes, StopRecords, PerRoot
  <2>3. r \in Passes(s)
    <3>1. /\ Accept(s, [q \in Passes(s) |-> stop[s].work[q]], {q \in Passes(s) : checkout[q].on})
          /\ [q \in Passes(s) |-> stop[s].work[q]] \in PerRoot
      BY <2>1, PassesTypes DEF StopPasses, IInv
    <3>2. ASSUME r \notin Passes(s) PROVE note'[s][r].accepted = note[s][r].accepted
      BY <2>2, <3>1, <3>2, OthersKept DEF IInv
    <3> QED
      BY <3>2
  <2>4. r \in DOMAIN stop[s].judged \ stop[s].waits
    BY <2>1, <2>3 DEF StopPasses, Passes, IInv, JudgedIsProven
  <2> QED
    BY <2>4 DEF IInv, JudgedIsProven, IsProven, IsGreen
<1>2. Spec => [][Passing]_vars
  BY <1>1, Invariant, PTL DEF Spec
<1> QED
  BY <1>2 DEF PassIsProven, Passing

\* A session let go without a word left no change of its own behind that it was
\* not found with or had not accepted, but for edits in front of a commit of
\* main that are those noted with the worktree (checkouts.ts:99-168, stop.ts:31-73).
THEOREM SilentStopsChangeNothing == Spec => SilentStopChangedNothing
<1> DEFINE Silent ==
      \A s \in Sessions : phase[s] = "working" /\ phase'[s] = "idle" /\ pauses' = pauses =>
         \A r \in StopRoots(s) : Its(s, r) /\ checkout[r].on =>
            \/ Snapshot(r).own \in answers[s][r] \union {Unchanged}
            \/ ~checkout[r].ahead /\ note[s][r].extra = <<Unchanged, Snapshot(r).own>>
<1>1. IInv /\ [Next]_vars => [Silent]_vars
  <2> SUFFICES ASSUME IInv, [Next]_vars PROVE Silent
    OBVIOUS
  <2> SUFFICES ASSUME NEW s \in Sessions, phase[s] = "working", phase'[s] = "idle", pauses' = pauses,
                      NEW r \in StopRoots(s), Its(s, r), checkout[r].on
               PROVE  \/ Snapshot(r).own \in answers[s][r] \union {Unchanged}
                      \/ ~checkout[r].ahead /\ note[s][r].extra = <<Unchanged, Snapshot(r).own>>
    OBVIOUS
  <2>1. StopsSilently(s)
    BY WhoIsSilent DEF IInv
  <2>2. r \in Roots
    BY DEF StopRoots
  <2>3. AsAccepted(s, r) \/ r \in Arrived(s)
    BY <2>1 DEF StopsSilently, WorkOf
  <2>4. CASE AsAccepted(s, r)
    <3>1. note[s][r].accepted = Snapshot(r)
      BY <2>4 DEF AsAccepted
    <3>2. Snapshot(r) # None
      BY <2>2, SnapshotTypes, GateAssumption DEF IInv, Trees
    <3> QED
      BY <2>2, <3>1, <3>2 DEF IInv, AcceptedAnswers
  <2>5. CASE r \in Arrived(s)
    <3>1. note[s][r].extra = Extra(r) /\ ~checkout[r].ahead
      BY <2>5 DEF Arrived, MainArrived, OnlyMainArrived
    <3>2. CASE Snapshot(r).own = HeadOwn(r)
      BY <2>2, <3>1, <3>2 DEF HeadOwn, IInv, Plain
    <3>3. CASE Snapshot(r).own # HeadOwn(r)
      BY <2>2, <3>1, <3>3 DEF Extra, HeadOwn, IInv, Plain
    <3> QED
      BY <3>2, <3>3
  <2> QED
    BY <2>3, <2>4, <2>5
<1>2. Spec => [][Silent]_vars
  BY <1>1, Invariant, PTL DEF Spec
<1> QED
  BY <1>2 DEF SilentStopChangedNothing, Silent
=============================================================================
