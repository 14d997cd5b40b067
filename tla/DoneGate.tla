------------------------------ MODULE DoneGate ------------------------------
(***************************************************************************)
(* The done gate (scripts/done-gate/): the sessions of coding agents work  *)
(* in the worktrees of one repository, and a hook judges at each stop of a *)
(* session the change it made there. This module has the record the hooks  *)
(* keep in the shared git folder (store.ts) and every hook that writes it: *)
(* the note of a checkout before a tool call (checkouts.ts), the hold on   *)
(* interrupted work and the session at work elsewhere (interrupted.ts),    *)
(* the checkpoint, the pause, the verifier's start, commands, hand-back    *)
(* and stop (verifier.ts), and the stop itself (stop.ts, verdict.ts), a    *)
(* step for each moment at which it reads the live checkout again.         *)
(*                                                                         *)
(* Code is data: a tree is how far main had got in it, and the content of  *)
(* its own change. Every worktree has one branch; off it, it sits on a     *)
(* commit of main. What only Devesh is told (the notes, the warning of an  *)
(* old change, its `baseline` and `warned`) is left out, as are Codex and  *)
(* machines without Docker, which wait for nothing.                        *)
(***************************************************************************)
EXTENDS Naturals, FiniteSets

CONSTANTS
    Sessions,
    Roots,         \* worktrees, the main checkout aside
    Contents,      \* what a change may hold
    Unchanged,     \* the content of main itself
    Lawful,        \* contents that break no done rule
    Clean,         \* contents that pass the checks without the database
    Green,         \* contents that pass every check
    Product,       \* contents with product code
    Builds,        \* worktrees whose branch builds a roadmap item
    Verdicts,      \* of pass, fail and cannot-verify
    MaxBlocks,     \* MAX_BLOCKS
    None,          \* no tree, session, root, ruling or verifier
    MaxEvents      \* bound: what agents, users and the machine do of their own accord;
                   \* a verifier counts as two

ASSUME GateAssumption ==
    /\ Unchanged \in Green /\ Green \subseteq Clean /\ Clean \subseteq Contents
    /\ Unchanged \in Lawful /\ Lawful \subseteq Contents
    /\ Product \subseteq Contents \ {Unchanged} /\ Builds \subseteq Roots
    /\ Verdicts \subseteq {"pass", "fail", "cannot-verify"}
    /\ MaxBlocks \in Nat /\ MaxEvents \in Nat
    /\ None \notin [base : 0 .. MaxEvents, own : Contents]

VARIABLES
    \* the repository
    main,       \* how far origin/main has got
    checkout,   \* per worktree: its tree, its branch's tip, whether that is ahead of main,
                \* whether it is on the branch, its identity
    \* the record: files of .git/done-gate
    note,       \* per session and worktree: seen, accepted, extra, active, held
    byBranch,   \* accepted-branch, per session and branch
    toucher,    \* per worktree, the session that worked there last
    checked,    \* trees every check passed on
    partial,    \* partial-background: trees the checks off the database passed on
    delivered,  \* per tree, the verifier's delivered verdict
    checkpoint, \* per worktree, the tree its branch's checkpoint was written on
    pauses,     \* trees with a pause
    blocks,     \* per session, times sent back in a row
    gaveUp,     \* per session, the print of the code it gave up on
    \* the agents
    phase,      \* per session, what it is at
    here,       \* per session, the worktree its shell is in
    stop,       \* per session, the stop being judged
    verifier,   \* the verifier that runs
    stale,      \* sessions with a verifier noted as running (verifier-running) that died
    spent,      \* events of MaxEvents so far
    \* history, which no step reads
    answers,    \* per session and worktree, the contents it was found with, where another
                \* session worked last or it had accepted nothing, and those it accepted
    ruledOn,    \* trees a command of a verifier was noted on
    misread     \* trees recorded from checks that ran on another

repo == <<main, checkout>>
record == <<byBranch, toucher, checked, partial, delivered, checkpoint, pauses, blocks, gaveUp>>
vars == <<repo, note, record, phase, here, stop, verifier, stale, spent, answers, ruledOn, misread>>

Trees == [base : 0 .. MaxEvents, own : Contents]
PerRoot == UNION {[D -> Trees] : D \in SUBSET Roots}
Checkouts == [tree : Trees, tip : Trees, ahead : BOOLEAN, on : BOOLEAN, id : 0 .. MaxEvents]
\* A difference: the content it is from and the one it is to.
NoExtra == <<Unchanged, Unchanged>>
Notes == [seen : (0 .. MaxEvents) \union {None}, accepted : Trees \union {None},
          extra : Contents \X Contents, active : BOOLEAN, held : BOOLEAN]
Rulings == [verdict : Verdicts, trees : SUBSET Trees]
Verifiers == [of : Sessions, saw : [Roots -> Trees \union {None}], handedBack : BOOLEAN,
              handed : Rulings \union {None}, sentBack : BOOLEAN]
StopRecords == [work : PerRoot, todo : SUBSET Roots, waits : SUBSET Roots, failed : BOOLEAN,
                background : BOOLEAN, verifying : BOOLEAN, cachedOnly : BOOLEAN,
                judged : PerRoot, root : Roots \union {None}, tree : Trees \union {None}]
NoStop == [work |-> [r \in {} |-> None], todo |-> {}, waits |-> {}, failed |-> FALSE,
           background |-> FALSE, verifying |-> FALSE, cachedOnly |-> FALSE,
           judged |-> [r \in {} |-> None], root |-> None, tree |-> None]

RepoTypes ==
    /\ spent \in 0 .. MaxEvents /\ main \in 0 .. spent
    /\ checkout \in [Roots -> Checkouts] /\ \A r \in Roots : checkout[r].id \in 0 .. spent

NoteTypes ==
    /\ note \in [Sessions -> [Roots -> Notes]]
    /\ byBranch \in [Sessions -> [Roots -> Trees \union {None}]]
    /\ toucher \in [Roots -> Sessions \union {None}]
    /\ answers \in [Sessions -> [Roots -> SUBSET Contents]]

EvidenceTypes ==
    /\ checked \subseteq Trees /\ partial \subseteq Trees /\ pauses \subseteq Trees
    /\ DOMAIN delivered \subseteq Trees /\ \A t \in DOMAIN delivered : delivered[t] \in Verdicts
    /\ checkpoint \in [Roots -> Trees \union {None}]
    /\ blocks \in [Sessions -> 0 .. MaxBlocks]

AgentTypes ==
    /\ phase \in [Sessions -> {"out", "idle", "working", "calling", "judging", "checking"}]
    /\ here \in [Sessions -> Roots \union {None}] /\ stale \subseteq Sessions
    /\ \A s \in Sessions : phase[s] # "out" => here[s] \in Roots
    /\ verifier \in Verifiers \union {None}
    /\ stop \in [Sessions -> StopRecords]
    /\ \A s \in Sessions : phase[s] \notin {"judging", "checking"} => stop[s] = NoStop

TypeOK == RepoTypes /\ NoteTypes /\ EvidenceTypes /\ AgentTypes

Init ==
    /\ main = 0
    /\ checkout = [r \in Roots |-> [tree |-> [base |-> 0, own |-> Unchanged],
                                    tip |-> [base |-> 0, own |-> Unchanged], ahead |-> FALSE,
                                    on |-> TRUE, id |-> 0]]
    /\ note = [s \in Sessions |-> [r \in Roots |->
                 [seen |-> None, accepted |-> None, extra |-> NoExtra,
                  active |-> FALSE, held |-> FALSE]]]
    /\ byBranch = [s \in Sessions |-> [r \in Roots |-> None]]
    /\ toucher = [r \in Roots |-> None]
    /\ checked = {} /\ partial = {} /\ pauses = {}
    /\ delivered = [t \in {} |-> None]
    /\ checkpoint = [r \in Roots |-> None]
    /\ blocks = [s \in Sessions |-> 0]
    /\ gaveUp = [s \in Sessions |-> None]
    /\ phase = [s \in Sessions |-> "out"]
    /\ here = [s \in Sessions |-> None]
    /\ stop = [s \in Sessions |-> NoStop]
    /\ verifier = None /\ stale = {}
    /\ spent = 0
    /\ answers = [s \in Sessions |-> [r \in Roots |-> {}]]
    /\ ruledOn = {} /\ misread = {}

Events(n) == spent + n <= MaxEvents /\ spent' = spent + n
Event == Events(1)

(***************************************************************************)
(* Reading a worktree.                                                     *)
(***************************************************************************)
Snapshot(r) == checkout[r].tree

\* HEAD's own content: the branch's tip, or a commit of main.
HeadOwn(r) == IF checkout[r].on THEN checkout[r].tip.own ELSE Unchanged

\* What the worktree holds beyond HEAD, as one id: the differences, which name
\* what they replace.
Extra(r) ==
    IF Snapshot(r).own = HeadOwn(r) THEN NoExtra ELSE <<HeadOwn(r), Snapshot(r).own>>

OnlyMainArrived(r, before) == before = Extra(r) /\ ~(checkout[r].on /\ checkout[r].ahead)

(***************************************************************************)
(* The note of a worktree before the session's tool call in it (touch,     *)
(* atWorkNow). The code a worktree is found in, the first time or after    *)
(* another session worked there, is accepted as it is; added anew by the   *)
(* session, it is judged from what the session accepted on the branch.     *)
(***************************************************************************)
Same(s, r) == note[s][r].seen = checkout[r].id
Found(s, r) == ~Same(s, r) \/ toucher[r] # s

\* (Faulty: a worktree added anew starts from the code it is found in.)
StartingPoint_AsFound(s, r) == Snapshot(r)

StartingPoint(s, r) ==
    IF ~Same(s, r) /\ toucher[r] \in {None, s} /\ checkout[r].on /\ byBranch[s][r] # None
    THEN byBranch[s][r] ELSE Snapshot(r)

Touched(s, r) ==
    [q \in Roots |->
       [IF q = r /\ Found(s, r)
        THEN [note[s][q] EXCEPT !.seen = checkout[r].id, !.accepted = StartingPoint(s, r),
                                !.extra = Extra(r)]
        ELSE note[s][q]
        EXCEPT !.active = @ \/ q = r \/ toucher[q] = s]]

Touch(s, r) ==
    /\ byBranch' = IF Found(s, r) /\ checkout[r].on
                   THEN [byBranch EXCEPT ![s][r] = StartingPoint(s, r)] ELSE byBranch
    /\ toucher' = [toucher EXCEPT ![r] = s]
    /\ answers' = IF Found(s, r) /\ (toucher[r] # s \/ byBranch[s][r] = None)
                  THEN [answers EXCEPT ![s][r] = @ \union {Snapshot(r).own}] ELSE answers

(***************************************************************************)
(* A session starts in a worktree (session-start.ts). Before the worktree  *)
(* is noted, a change found there that has not passed is the session's to  *)
(* answer for (noteInterrupted).                                           *)
(***************************************************************************)
RulingOn(t) == IF t \in DOMAIN delivered THEN delivered[t] ELSE None

Unpassed(t) ==
    /\ t.own # Unchanged
    /\ t \notin checked \/ (t.own \in Product /\ RulingOn(t) \in {None, "fail"})

Interrupted(s, r) ==
    /\ checkout[r].on
    /\ Found(s, r)
    /\ Unpassed(Snapshot(r))
    /\ Same(s, r) => note[s][r].accepted # Snapshot(r)

SessionStart(s, r) ==
    /\ phase[s] \in {"out", "idle"}
    /\ Event
    /\ note' = [note EXCEPT ![s] = [Touched(s, r) EXCEPT ![r].held = @ \/ Interrupted(s, r)]]
    /\ Touch(s, r)
    /\ phase' = [phase EXCEPT ![s] = "working"]
    /\ here' = [here EXCEPT ![s] = r]
    /\ UNCHANGED <<repo, checked, partial, delivered, checkpoint, pauses, blocks, gaveUp,
                   stop, verifier, stale, ruledOn, misread>>

\* The user prompts a session again, in the place it stopped.
Prompt(s) ==
    /\ phase[s] = "idle"
    /\ Event
    /\ phase' = [phase EXCEPT ![s] = "working"]
    /\ UNCHANGED <<repo, note, record, here, stop, verifier, stale, answers, ruledOn, misread>>

\* A session ends in the middle of its work: it is closed, or killed. Its
\* verifier goes with it, and nothing takes the note that it runs.
Interrupt(s) ==
    LET its == verifier # None /\ verifier.of = s IN
    /\ phase[s] \in {"working", "calling", "judging", "checking"}
    /\ Event
    /\ phase' = [phase EXCEPT ![s] = "out"]
    /\ stop' = [stop EXCEPT ![s] = NoStop]
    /\ verifier' = IF its THEN None ELSE verifier
    /\ stale' = IF its /\ ~verifier.sentBack THEN stale \union {s} ELSE stale
    /\ UNCHANGED <<repo, note, record, here, answers, ruledOn, misread>>

\* Fifteen minutes without a tool call in the worktree; a call takes ten.
Quiet(s, r) ==
    /\ note[s][r].active
    /\ ~(phase[s] = "calling" /\ here[s] = r)
    /\ Event
    /\ note' = [note EXCEPT ![s][r].active = FALSE]
    /\ UNCHANGED <<repo, record, phase, here, stop, verifier, stale, answers, ruledOn, misread>>

(***************************************************************************)
(* A tool call: the hook notes the worktree; then the command runs, when   *)
(* other sessions may have come by, or it only looks, or it is the first   *)
(* in a worktree with a checkpoint and is held back to show it.            *)
(***************************************************************************)
Call(s, r) ==
    /\ phase[s] = "working"
    /\ note' = [note EXCEPT ![s] = Touched(s, r)]
    /\ Touch(s, r)
    /\ here' = [here EXCEPT ![s] = r]
    /\ \/ UNCHANGED phase
       \/ /\ Same(s, r) \/ checkpoint[r] = None
          /\ spent < MaxEvents
          /\ phase' = [phase EXCEPT ![s] = "calling"]
    /\ UNCHANGED <<repo, checked, partial, delivered, checkpoint, pauses, blocks, gaveUp,
                   stop, verifier, stale, spent, ruledOn, misread>>

Returns(s) ==
    /\ phase[s] = "calling"
    /\ Event
    /\ phase' = [phase EXCEPT ![s] = "working"]
    /\ UNCHANGED <<here, stop, verifier, stale, answers, ruledOn, misread>>

\* What git and an editor do to a worktree: an edit, a commit, main brought
\* in, a visit to main with nothing left behind and the way back, and the
\* worktree removed and added again on its branch.
Changes(c) ==
    {[c EXCEPT !.tree.own = o] : o \in IF c.on THEN Contents ELSE {}}
    \union {[c EXCEPT !.tip = c.tree, !.ahead = TRUE] : x \in IF c.on /\ c.tree # c.tip THEN {1} ELSE {}}
    \union {[c EXCEPT !.tree.base = main, !.tip.base = IF c.on THEN main ELSE @]}
    \union (IF c.on THEN IF c.tree = c.tip
                         THEN {[c EXCEPT !.on = FALSE, !.tree = [base |-> main, own |-> Unchanged]]}
                         ELSE {}
            ELSE {[c EXCEPT !.on = TRUE, !.tree = c.tip]})
    \union {[c EXCEPT !.id = @ + 1, !.tree = IF c.on THEN c.tip ELSE @]}

Change(s) ==
    /\ Returns(s)
    /\ \E c \in Changes(checkout[here[s]]) \ {checkout[here[s]]} :
          checkout' = [checkout EXCEPT ![here[s]] = c]
    /\ UNCHANGED <<main, note, record>>

MainMoves ==
    /\ Event
    /\ main' = main + 1
    /\ UNCHANGED <<checkout, note, record, phase, here, stop, verifier, stale, answers,
                   ruledOn, misread>>

\* bun run gate pause: a question about the code as it is.
Pause(s) ==
    /\ Returns(s)
    /\ pauses' = pauses \union {Snapshot(here[s])}
    /\ UNCHANGED <<repo, note, byBranch, toucher, checked, partial, delivered, checkpoint,
                   blocks, gaveUp>>

\* bun run gate checkpoint: whoever worked here last is taken for its writer
\* and answers for the branch's change.
Checkpoint(s) ==
    LET r == here[s] IN
    /\ Returns(s)
    /\ checkpoint' = [checkpoint EXCEPT ![r] = Snapshot(r)]
    /\ note' = IF toucher[r] # None /\ checkout[r].on
               THEN [note EXCEPT ![toucher[r]][r].held = TRUE] ELSE note
    /\ UNCHANGED <<repo, byBranch, toucher, checked, partial, delivered, pauses, blocks,
                   gaveUp>>

(***************************************************************************)
(* The verifier (verifier.ts): an agent of the session, started by an      *)
(* Agent call on an allowed model (it counts) or otherwise, which runs     *)
(* commands in worktrees and delivers one ruling, by a hand-back or as its *)
(* last message.                                                           *)
(***************************************************************************)
VerifierStarts(s) ==
    /\ phase[s] = "working" /\ verifier = None
    /\ Events(2)
    /\ verifier' = [of |-> s, saw |-> [r \in Roots |-> None], handedBack |-> FALSE,
                    handed |-> None, sentBack |-> FALSE]
    /\ UNCHANGED <<stale, repo, note, record, phase, here, stop, answers, ruledOn, misread>>

\* Its calls are noted as its session's. A report handed back ends its work.
VerifierRuns(r) ==
    /\ verifier # None
    /\ verifier.handed = None
    /\ LET s == verifier.of IN
          /\ note' = [note EXCEPT ![s] = Touched(s, r)]
          /\ Touch(s, r)
    /\ verifier' = [verifier EXCEPT !.saw[r] = Snapshot(r)]
    /\ ruledOn' = ruledOn \union {Snapshot(r)}
    /\ UNCHANGED <<stale, repo, checked, partial, delivered, checkpoint, pauses, blocks, gaveUp,
                   phase, here, stop, spent, misread>>

SawOf == {r \in Roots : verifier.saw[r] # None}

Covers == {verifier.saw[r] : r \in SawOf}

CanRule == SawOf # {} /\ \A r \in SawOf : Snapshot(r) = verifier.saw[r]

\* A report on code that changed since is refused, yet counts as handed back.
VerifierHandsBack(v) ==
    /\ verifier # None
    /\ verifier.handed = None
    /\ verifier' = [verifier EXCEPT !.handedBack = TRUE,
                                    !.handed = IF CanRule THEN [verdict |-> v, trees |-> Covers] ELSE @]
    /\ UNCHANGED <<stale, repo, note, record, phase, here, stop, spent, answers, ruledOn, misread>>

\* `v` is what its last message states, outside auto mode, or None; void, no
\* Agent call of its session on an allowed model started it. It is sent back
\* once when it delivers no ruling on code it saw; by then the note that it
\* runs is gone.
VerifierStops(v) ==
    LET counts == v # "void"
        states == counts /\ verifier.handed = None /\ ~verifier.handedBack
        ruling == IF counts /\ verifier.handed # None THEN verifier.handed
                  ELSE IF states /\ v # None /\ CanRule THEN [verdict |-> v, trees |-> Covers]
                  ELSE None IN
    /\ verifier # None
    /\ delivered' = IF ruling = None THEN delivered
                    ELSE [t \in DOMAIN delivered \union ruling.trees |->
                            IF t \in ruling.trees THEN ruling.verdict ELSE delivered[t]]
    /\ verifier' = IF states /\ ruling = None /\ ~verifier.sentBack
                   THEN [verifier EXCEPT !.sentBack = TRUE] ELSE None
    /\ UNCHANGED <<stale, repo, note, byBranch, toucher, checked, partial, checkpoint, pauses, blocks,
                   gaveUp, phase, here, stop, spent, answers, ruledOn, misread>>

(***************************************************************************)
(* Who answers for a worktree's code.                                      *)
(***************************************************************************)
Stopping(s) == phase[s] \in {"judging", "checking"}

OthersAtWork(s, r, t) ==
    \E o \in Sessions \ {s} :
        /\ note[o][r].seen # None
        /\ note[o][r].accepted # t
        /\ note[o][r].active \/ Stopping(o)

HeldTo(s, r, t) == note[s][r].held /\ ~OthersAtWork(s, r, t)

(***************************************************************************)
(* A stop begins: the change in each worktree the session noted, and in    *)
(* the one it is in, is the session's work unless another session worked   *)
(* there since, it is as accepted, or only main arrived. The session's     *)
(* background work holds the database checks back; its verifier, when it   *)
(* still runs, is part of that.                                            *)
(***************************************************************************)
StopRoots(s) == {r \in Roots : Same(s, r) \/ r = here[s]}

Its(s, r) == toucher[r] \in {None, s}

AsAccepted(s, r) ==
    ~HeldTo(s, r, Snapshot(r)) /\ note[s][r].accepted = Snapshot(r)

MainArrived(s, r) ==
    /\ ~HeldTo(s, r, Snapshot(r)) /\ note[s][r].accepted # None
    /\ OnlyMainArrived(r, note[s][r].extra)

\* `trees` are accepted, and no hold is left on `released`.
Accept(s, trees, released) ==
    /\ note' = [note EXCEPT ![s] = [r \in Roots |->
          [note[s][r] EXCEPT !.accepted = IF r \in DOMAIN trees THEN trees[r] ELSE @,
                             !.held = @ /\ r \notin released]]]
    /\ byBranch' = [byBranch EXCEPT ![s] = [r \in Roots |->
          IF r \in DOMAIN trees /\ checkout[r].on THEN trees[r] ELSE byBranch[s][r]]]
    /\ answers' = [answers EXCEPT ![s] = [r \in Roots |->
          answers[s][r] \union {trees[q].own : q \in DOMAIN trees \intersect {r}}]]

Arrived(s) == {r \in StopRoots(s) : Its(s, r) /\ ~AsAccepted(s, r) /\ MainArrived(s, r)}
WorkOf(s) == [r \in {q \in StopRoots(s) : Its(s, q) /\ ~AsAccepted(s, q)} \ Arrived(s) |-> Snapshot(r)]

VerifierOf(s) == verifier # None /\ verifier.of = s
Verifying(s) == s \in stale \/ (VerifierOf(s) /\ ~verifier.sentBack)

\* The code of all its worktrees together, and whether background work ran.
CodePrint(work, background) ==
    [trees |-> [t \in {work[r] : r \in DOMAIN work} |-> Cardinality({r \in DOMAIN work : work[r] = t})],
     background |-> background]

StopBegins(s) ==
    LET work == WorkOf(s)
        paused == pauses \intersect {Snapshot(r) : r \in StopRoots(s)} IN
    /\ phase[s] = "working"
    /\ Accept(s, [r \in Arrived(s) |-> Snapshot(r)], {})
    /\ \E background \in BOOLEAN :
          /\ IF background /\ ~VerifierOf(s) THEN Event ELSE UNCHANGED spent
          /\ VerifierOf(s) => background
          /\ DOMAIN work # {} /\ paused = {}
          /\ phase' = [phase EXCEPT ![s] = "judging"]
          /\ stop' = [stop EXCEPT ![s] =
                [NoStop EXCEPT !.work = work, !.todo = DOMAIN work, !.background = background,
                   !.verifying = background /\ Verifying(s),
                   !.cachedOnly = gaveUp[s] = CodePrint(work, background)]]
    /\ UNCHANGED <<repo, toucher, checked, partial, delivered, checkpoint, pauses, blocks,
                   gaveUp, here, verifier, stale, ruledOn, misread>>

StopsSilently(s) ==
    /\ phase[s] = "working"
    /\ DOMAIN WorkOf(s) = {}
    /\ Accept(s, [r \in Arrived(s) |-> Snapshot(r)], {})
    /\ phase' = [phase EXCEPT ![s] = "idle"]
    /\ UNCHANGED <<repo, toucher, checked, partial, delivered, checkpoint, pauses, blocks,
                   gaveUp, here, stop, verifier, stale, spent, ruledOn, misread>>

\* A question waits: Devesh decides, also over what the session is held to.
StopsToAsk(s) ==
    LET work == WorkOf(s) IN
    /\ phase[s] = "working"
    /\ DOMAIN work # {}
    /\ \E t \in pauses \intersect {Snapshot(r) : r \in StopRoots(s)} : pauses' = pauses \ {t}
    /\ Accept(s, [r \in Arrived(s) |-> Snapshot(r)], DOMAIN work)
    /\ phase' = [phase EXCEPT ![s] = "idle"]
    /\ UNCHANGED <<repo, toucher, checked, partial, delivered, checkpoint, blocks, gaveUp,
                   here, stop, verifier, stale, spent, ruledOn, misread>>

(***************************************************************************)
(* The judgement of one worktree. Its code is read again: another session  *)
(* may have been there since the stop began. When the record does not      *)
(* prove that tree, the checks run, in the worktree as it then is.         *)
(***************************************************************************)
Needs(t) == t.own \in Product

\* The verdict on a tree whose checks passed: "ok", "waits" or "no" (rule).
Ruled(s, t, notRun) ==
    LET later == IF notRun THEN "waits" ELSE "ok" IN
    CASE ~Needs(t) -> later
      [] Needs(t) /\ RulingOn(t) = None -> IF stop[s].verifying THEN "waits" ELSE "no"
      [] Needs(t) /\ RulingOn(t) = "fail" -> "no"
      [] OTHER -> later

Judged(s, r, t, verdict) ==
    LET was == stop[s] IN
    /\ phase' = [phase EXCEPT ![s] = "judging"]
    /\ stop' = [stop EXCEPT ![s] =
          IF verdict = "no" THEN [was EXCEPT !.failed = TRUE, !.todo = {}]
          ELSE [was EXCEPT
                  !.todo = was.todo \ {r},
                  !.judged = [q \in DOMAIN was.judged \union {r} |-> IF q = r THEN t ELSE was.judged[q]],
                  !.waits = IF verdict = "waits" THEN was.waits \union {r} ELSE was.waits]]

\* Work held to the session is no longer on its branch, or the rules are broken:
\* whatever the record says of the tree.
Refused(s, r) ==
    \/ HeldTo(s, r, stop[s].work[r]) /\ ~checkout[r].on
    \/ Snapshot(r).own \notin Lawful

Judge(s, r) ==
    LET t == Snapshot(r)
        known == stop[s].background /\ t \in partial IN
    /\ phase[s] = "judging" /\ r \in stop[s].todo
    /\ \/ /\ Refused(s, r)
          /\ Judged(s, r, t, "no")
       \/ /\ ~Refused(s, r)
          /\ t \in checked \/ known \/ stop[s].cachedOnly
          /\ Judged(s, r, t, IF t \in checked THEN Ruled(s, t, FALSE)
                             ELSE IF known THEN Ruled(s, t, TRUE) ELSE "no")
       \/ /\ ~Refused(s, r)
          /\ ~(t \in checked \/ known \/ stop[s].cachedOnly)
          /\ phase' = [phase EXCEPT ![s] = "checking"]
          /\ stop' = [stop EXCEPT ![s].root = r, ![s].tree = t]
    /\ UNCHANGED <<repo, note, record, here, verifier, stale, spent, answers, ruledOn, misread>>

\* (Faulty: checks without the database count as all of them.)
Recorded_Whole(s, t) == checked' = checked \union {t} /\ UNCHANGED partial

\* A partial run never passes a full one.
Recorded(s, t) ==
    IF stop[s].background THEN partial' = partial \union {t} /\ UNCHANGED checked
    ELSE checked' = checked \union {t} /\ UNCHANGED partial

\* The stack may be busy, down or in use by a worker.
ChecksEnd(s) ==
    LET r == stop[s].root
        t == stop[s].tree IN
    /\ phase[s] = "checking"
    /\ \/ /\ Snapshot(r).own \in IF stop[s].background THEN Clean ELSE Green
          /\ Recorded(s, t)
          /\ UNCHANGED spent
          /\ misread' = IF Snapshot(r) = t THEN misread ELSE misread \union {t}
          /\ Judged(s, r, t, Ruled(s, t, stop[s].background))
       \/ /\ IF Snapshot(r).own \in IF stop[s].background THEN Clean ELSE Green THEN Event ELSE UNCHANGED spent
          /\ Judged(s, r, t, "no")
          /\ UNCHANGED <<checked, partial, misread>>
    /\ UNCHANGED <<repo, note, byBranch, toucher, delivered, checkpoint, pauses, blocks, gaveUp,
                   here, verifier, stale, answers, ruledOn>>

(***************************************************************************)
(* The stop ends. Passed, the code its loop read at the start is accepted  *)
(* and a hold on this branch released, save where a later stop judges it   *)
(* again. Failed, the session is sent back, five times at most; then it    *)
(* may stop, and on the same code no check runs again.                     *)
(***************************************************************************)
CheckpointOwed(s) ==
    /\ ~stop[s].cachedOnly
    /\ \E r \in DOMAIN stop[s].work :
          r \in Builds /\ checkout[r].on /\ checkpoint[r] # stop[s].work[r]

Passes(s) == DOMAIN stop[s].work \ stop[s].waits

Ends(s, outcome) ==
    /\ phase' = [phase EXCEPT ![s] = outcome]
    /\ stop' = [stop EXCEPT ![s] = NoStop]
    /\ UNCHANGED <<repo, toucher, checked, partial, delivered, checkpoint, pauses,
                   here, verifier, stale, spent, ruledOn, misread>>

StopPasses(s) ==
    /\ phase[s] = "judging" /\ stop[s].todo = {} /\ ~stop[s].failed /\ ~CheckpointOwed(s)
    /\ Accept(s, [r \in Passes(s) |-> stop[s].work[r]], {r \in Passes(s) : checkout[r].on})
    /\ blocks' = [blocks EXCEPT ![s] = 0]
    /\ gaveUp' = [gaveUp EXCEPT ![s] = None]
    /\ Ends(s, "idle")

\* (Faulty: one time too many.)
LastTry_OneMore(s) == blocks[s] > MaxBlocks

LastTry(s) == blocks[s] + 1 > MaxBlocks

StopFails(s) ==
    LET again == stop[s].cachedOnly
        over == ~again /\ LastTry(s) IN
    /\ phase[s] = "judging" /\ stop[s].todo = {} /\ (stop[s].failed \/ CheckpointOwed(s))
    /\ blocks' = [blocks EXCEPT ![s] = IF again THEN @ ELSE IF over THEN 0 ELSE @ + 1]
    /\ gaveUp' = IF over THEN [gaveUp EXCEPT ![s] = CodePrint(stop[s].work, stop[s].background)] ELSE gaveUp
    /\ UNCHANGED <<note, byBranch, answers>>
    /\ Ends(s, IF again \/ over THEN "idle" ELSE "working")

-----------------------------------------------------------------------------

Works(s) ==
    \/ Change(s) \/ Pause(s) \/ Checkpoint(s)

Stops(s) ==
    \/ StopBegins(s) \/ StopsSilently(s) \/ StopsToAsk(s)

Judges(s) ==
    \/ \E r \in Roots : Judge(s, r)
    \/ ChecksEnd(s) \/ StopPasses(s) \/ StopFails(s)

Next ==
    \/ \E s \in Sessions, r \in Roots : SessionStart(s, r) \/ Call(s, r) \/ Quiet(s, r)
    \/ \E s \in Sessions : Prompt(s) \/ Interrupt(s) \/ Works(s) \/ Stops(s) \/ Judges(s)
    \/ \E s \in Sessions : VerifierStarts(s)
    \/ \E r \in Roots : VerifierRuns(r)
    \/ \E v \in Verdicts : VerifierHandsBack(v)
    \/ \E v \in Verdicts \union {None, "void"} : VerifierStops(v)
    \/ MainMoves

Spec == Init /\ [][Next]_vars

-----------------------------------------------------------------------------

\* A session let go without a word left in each worktree it was the last in
\* no change, or one it was found with or had accepted there, across other
\* sessions' visits, main's arrival and the worktree's re-adding. The one thing
\* it may slip past is edits in front of a commit of main that are those noted
\* with the worktree: accepting code leaves `extra` as it was
\* (checkouts.ts:99-108, :157-159), so they need not be those last accepted.
SilentStopChangedNothing ==
    [][\A s \in Sessions : phase[s] = "working" /\ phase'[s] = "idle" /\ pauses' = pauses =>
         \A r \in StopRoots(s) : Its(s, r) /\ checkout[r].on =>
            \/ Snapshot(r).own \in answers[s][r] \union {Unchanged}
            \/ ~checkout[r].ahead /\ note[s][r].extra = <<Unchanged, Snapshot(r).own>>]_vars

\* Code a passing stop newly accepts went green in every check, and when it is
\* product code a verifier's command was noted on it; unless the worktree
\* changed under the stop, which reads it once to accept it, once to judge it
\* and runs the checks on what is there (stop.ts:34, :101, verdict.ts:51).
PassIsProven ==
    [][\A s \in Sessions : phase[s] = "judging" /\ phase'[s] = "idle" =>
         \A r \in DOMAIN stop[s].work :
            LET t == stop[s].work[r] IN
            /\ note'[s][r].accepted = t /\ note[s][r].accepted # t
            /\ stop[s].judged[r] = t
            => /\ t.own \in Green \/ t \in misread
               /\ Needs(t) => t \in ruledOn]_vars
=============================================================================
