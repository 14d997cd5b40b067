---------------------------- MODULE SharedStack ----------------------------
(***************************************************************************)
(* The lock every worktree's gate takes before it uses the one local stack *)
(* (scripts/done-gate/shared-stack.ts): a file that names its holder's     *)
(* process. A lock appears whole, as a hard link to a file written before; *)
(* one whose holder is dead is replaced by the waiter that made the claim  *)
(* of it, a hard link named after the dead file's inode number.            *)
(*                                                                         *)
(* One action is one system call on the shared folder. An inode is free    *)
(* for a new file once no name, no claim and no open descriptor is on it,  *)
(* so its number comes back, as the file systems the gate runs on do it.   *)
(* A process may be killed at every call, and its id be given out again.   *)
(***************************************************************************)
EXTENDS Naturals

CONSTANTS
    Procs,       \* process ids
    Inodes,      \* inode numbers
    NoFile,      \* no file there
    MaxKilled    \* bound: processes killed

ASSUME NoFileAssumption == NoFile \notin Inodes

VARIABLES
    lock,     \* the inode local-stack.lock names
    names,    \* per inode, the process id written in its file
    claims,   \* per inode, the inode that the claim named after it links
    mine,     \* per process, the file it wrote for this try
    fd,       \* per process, the lock it opened
    pc,       \* per process, the call it is at
    killed,   \* processes killed so far
    orphans   \* claims whose maker was killed (history)

vars == <<lock, names, claims, mine, fd, pc, killed, orphans>>

Files == Inodes \union {NoFile}

\* At "unclaim" and "working" the process holds the stack; at "asleep" it
\* has lost one try and polls again, or gives up.
Points == {"idle", "link", "open", "judge", "claim", "check", "replace",
           "unclaim", "working", "asleep", "dead"}

\* Where a try has its own file, and where it has the lock open.
WithMine == {"link", "open", "judge", "claim", "check", "replace"}
WithLockOpen == {"judge", "claim", "check", "replace", "unclaim"}

TypeOK ==
    /\ lock \in Files
    /\ names \in [Inodes -> Procs]
    /\ claims \in [Inodes -> Files]
    /\ mine \in [Procs -> Files]
    /\ fd \in [Procs -> Files]
    /\ pc \in [Procs -> Points]
    /\ killed \in Nat
    /\ orphans \subseteq Inodes
    /\ \A p \in Procs :
          /\ pc[p] \in WithMine => mine[p] # NoFile
          /\ pc[p] \in WithLockOpen => fd[p] # NoFile

Init ==
    /\ lock = NoFile
    /\ names \in {[i \in Inodes |-> p] : p \in Procs}
    /\ claims = [i \in Inodes |-> NoFile]
    /\ mine = [p \in Procs |-> NoFile]
    /\ fd = [p \in Procs |-> NoFile]
    /\ pc = [p \in Procs |-> "idle"]
    /\ killed = 0
    /\ orphans = {}

(***************************************************************************)
(* A process id that runs is a live holder, whatever runs under it now     *)
(* (holderAlive).                                                          *)
(***************************************************************************)
Alive(p) == pc[p] # "dead"

\* (Faulty: the lock is read by its path, and nothing holds it open.)
InUse_Closed(i) ==
    \/ i = lock
    \/ \E j \in Inodes : claims[j] = i
    \/ \E p \in Procs : mine[p] = i

InUse(i) ==
    \/ i = lock
    \/ \E j \in Inodes : claims[j] = i
    \/ \E p \in Procs : mine[p] = i \/ fd[p] = i

\* A try is over: its file is removed and the lock it had open closed (the
\* finally blocks of takeLock).
TryEnds(p, next) ==
    /\ mine' = [mine EXCEPT ![p] = NoFile]
    /\ fd' = [fd EXCEPT ![p] = NoFile]
    /\ pc' = [pc EXCEPT ![p] = next]

(***************************************************************************)
(* One try at the lock.                                                    *)
(***************************************************************************)
WriteMine(p) ==
    /\ pc[p] \in {"idle", "asleep"}
    /\ \E i \in Inodes :
          /\ ~InUse(i)
          /\ names' = [names EXCEPT ![i] = p]
          /\ mine' = [mine EXCEPT ![p] = i]
    /\ pc' = [pc EXCEPT ![p] = "link"]
    /\ UNCHANGED <<lock, claims, fd, killed, orphans>>

LinkMine(p) ==
    /\ pc[p] = "link"
    /\ IF lock = NoFile
       THEN /\ lock' = mine[p]
            /\ TryEnds(p, "working")
       ELSE /\ pc' = [pc EXCEPT ![p] = "open"]
            /\ UNCHANGED <<lock, mine, fd>>
    /\ UNCHANGED <<names, claims, killed, orphans>>

\* (Faulty: a lock just released is opened all the same.)
OpenLock_Gone(p) ==
    /\ pc[p] = "open"
    /\ fd' = [fd EXCEPT ![p] = lock]
    /\ pc' = [pc EXCEPT ![p] = "judge"]
    /\ UNCHANGED <<lock, names, claims, mine, killed, orphans>>

OpenLock(p) ==
    /\ pc[p] = "open"
    /\ IF lock = NoFile
       THEN TryEnds(p, "asleep")
       ELSE /\ fd' = [fd EXCEPT ![p] = lock]
            /\ pc' = [pc EXCEPT ![p] = "judge"]
            /\ UNCHANGED mine
    /\ UNCHANGED <<lock, names, claims, killed, orphans>>

JudgeHolder(p) ==
    /\ pc[p] = "judge"
    /\ IF Alive(names[fd[p]])
       THEN TryEnds(p, "asleep")
       ELSE /\ pc' = [pc EXCEPT ![p] = "claim"]
            /\ UNCHANGED <<mine, fd>>
    /\ UNCHANGED <<lock, names, claims, killed, orphans>>

\* The claim is named after the file that was judged, and links whatever
\* file is the lock by now.
ClaimStale(p) ==
    /\ pc[p] = "claim"
    /\ IF lock # NoFile /\ claims[fd[p]] = NoFile
       THEN /\ claims' = [claims EXCEPT ![fd[p]] = lock]
            /\ pc' = [pc EXCEPT ![p] = "check"]
            /\ UNCHANGED <<mine, fd>>
       ELSE /\ TryEnds(p, "asleep")
            /\ UNCHANGED claims
    /\ UNCHANGED <<lock, names, killed, orphans>>

\* (Faulty: the claim of a lock that changed hands is left behind.)
CheckClaim_Left(p) ==
    /\ pc[p] = "check"
    /\ IF claims[fd[p]] = fd[p]
       THEN /\ pc' = [pc EXCEPT ![p] = "replace"]
            /\ UNCHANGED <<mine, fd>>
       ELSE TryEnds(p, "asleep")
    /\ UNCHANGED <<lock, names, claims, killed, orphans>>

CheckClaim(p) ==
    /\ pc[p] = "check"
    /\ IF claims[fd[p]] = fd[p]
       THEN /\ pc' = [pc EXCEPT ![p] = "replace"]
            /\ UNCHANGED <<claims, mine, fd>>
       ELSE /\ claims' = [claims EXCEPT ![fd[p]] = NoFile]
            /\ TryEnds(p, "asleep")
    /\ UNCHANGED <<lock, names, killed, orphans>>

ReplaceLock(p) ==
    /\ pc[p] = "replace"
    /\ lock' = mine[p]
    /\ mine' = [mine EXCEPT ![p] = NoFile]
    /\ pc' = [pc EXCEPT ![p] = "unclaim"]
    /\ UNCHANGED <<names, claims, fd, killed, orphans>>

RemoveClaim(p) ==
    /\ pc[p] = "unclaim"
    /\ claims' = [claims EXCEPT ![fd[p]] = NoFile]
    /\ TryEnds(p, "working")
    /\ UNCHANGED <<lock, names, killed, orphans>>

(***************************************************************************)
(* The work is done, or threw: the file at the lock's path is removed,     *)
(* unread. A waiter past its half hour throws instead of polling again.    *)
(***************************************************************************)
Release(p) ==
    /\ pc[p] = "working"
    /\ lock' = NoFile
    /\ pc' = [pc EXCEPT ![p] = "idle"]
    /\ UNCHANGED <<names, claims, mine, fd, killed, orphans>>

GiveUp(p) ==
    /\ pc[p] = "asleep"
    /\ pc' = [pc EXCEPT ![p] = "idle"]
    /\ UNCHANGED <<lock, names, claims, mine, fd, killed, orphans>>

(***************************************************************************)
(* A kill closes what the process had open and leaves its lock and its     *)
(* claim; the file of its try is left too, and is nobody's (only its inode *)
(* is lost to reuse). Another process may get the id.                      *)
(***************************************************************************)
TakingOver == {"check", "replace", "unclaim"}

Kill(p) ==
    /\ pc[p] \notin {"idle", "dead"}
    /\ killed < MaxKilled
    /\ killed' = killed + 1
    /\ orphans' = IF pc[p] \in TakingOver THEN orphans \union {fd[p]} ELSE orphans
    /\ TryEnds(p, "dead")
    /\ UNCHANGED <<lock, names, claims>>

Reborn(p) ==
    /\ pc[p] = "dead"
    /\ pc' = [pc EXCEPT ![p] = "idle"]
    /\ UNCHANGED <<lock, names, claims, mine, fd, killed, orphans>>

Try(p) ==
    \/ LinkMine(p) \/ OpenLock(p) \/ JudgeHolder(p) \/ ClaimStale(p)
    \/ CheckClaim(p) \/ ReplaceLock(p) \/ RemoveClaim(p)

Next == \E p \in Procs :
    \/ WriteMine(p) \/ Try(p) \/ Release(p) \/ GiveUp(p)
    \/ Kill(p) \/ Reborn(p)

Spec == Init /\ [][Next]_vars

(***************************************************************************)
(* A process that runs goes on with its try and polls again after its nap, *)
(* and its work ends. Nobody is bound to want the stack, to give up (past  *)
(* half an hour), to be killed or to be given a dead process's id.         *)
(***************************************************************************)
FairSpec ==
    /\ Spec
    /\ \A p \in Procs :
          /\ WF_vars(Try(p))
          /\ WF_vars(pc[p] = "asleep" /\ WriteMine(p))
          /\ WF_vars(Release(p))

-----------------------------------------------------------------------------

(***************************************************************************)
(* The stack is used by one process at a time: nobody else holds it or     *)
(* waits to remove its claim while one does. What could break it: two      *)
(* waiters that both judged the dead lock, one of which replaces the       *)
(* other's, or a dead lock's inode number that comes back as a live one's  *)
(* (takeLock, shared-stack.ts:54-99).                                      *)
(***************************************************************************)
Holding(p) == pc[p] \in {"unclaim", "working"}

OneHolder == \A p, q \in Procs : Holding(p) /\ Holding(q) => p = q

(***************************************************************************)
(* A dead holder's lock does not stay while anybody goes on wanting the    *)
(* stack, unless a process was killed between its claim and the claim's    *)
(* removal: that claim stays, every later one meets it (EEXIST), and the   *)
(* waiters give up, naming the file (shared-stack.ts:79-91).               *)
(***************************************************************************)
Stale(i) == lock = i /\ ~Alive(names[i])

StaleIsReplaced ==
    \A i \in Inodes :
        Stale(i) ~> \/ ~Stale(i) \/ i \in orphans
                    \/ \A p \in Procs : pc[p] \in {"idle", "dead"}
=============================================================================
