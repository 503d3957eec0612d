------------------------------ MODULE StoreLock ------------------------------
(***************************************************************************)
(* The projects root's lock: lockDir of internal/store/lock.go, taken by   *)
(* every writing DirStore method after the in-process mutex d.mu.          *)
(*                                                                         *)
(* A thread is a goroutine inside a mutating DirStore method; a process is *)
(* a `loomwork` invocation (one thread) or the long-running server         *)
(* (several).  Every system call of lockDir on the lock file is one step,  *)
(* so that two processes interleave between any two of them.  A killed     *)
(* process leaves its lock file behind, and nothing bounds how long a      *)
(* cycle lasts: a lock is broken by its age alone, so that a slow cycle    *)
(* loses its lock as a dead one does.  Time is discrete: Tick ages the     *)
(* lock file and advances every thread's timer.                            *)
(***************************************************************************)
EXTENDS Naturals

CONSTANTS
    Threads,      (* the threads that call the store                        *)
    NoThread,     (* the owner of an absent lock file, of an unlocked mutex  *)
    Procs,        (* the processes                                          *)
    ProcOf,       (* the process of each thread                             *)
    Crashable,    (* bound: the processes that may be killed                *)
    Slow,         (* bound: the threads with cycles that outlast StaleAfter *)
    StaleAfter,   (* lockStaleAfter, in ticks                               *)
    WaitTimeout   (* lockWaitTimeout, in ticks                              *)

ASSUME LockAssumption ==
    /\ NoThread \notin Threads
    /\ ProcOf \in [Threads -> Procs]
    /\ Crashable \subseteq Procs
    /\ Slow \subseteq Threads
    /\ StaleAfter \in Nat
    /\ WaitTimeout \in Nat

VARIABLES
    lockOwner,    (* the thread that created the lock file, NoThread: no file *)
    lockAge,      (* the time since the file's modification time            *)
    mu,           (* mu[p]: the thread of p that has d.mu locked for writing *)
    pc,           (* where each thread is in lockDir                        *)
    timer,        (* the time since a thread entered lockDir, or acquired   *)
    outlasted     (* history: threads with a cycle that outlasted StaleAfter *)

vars == <<lockOwner, lockAge, mu, pc, timer, outlasted>>

Steps == {"idle", "open", "stat", "remove", "deadline", "hold", "dead"}

(* A clock is not distinguished past its bound: the lock file's age and a  *)
(* holder's timer past the first stale age, a waiter's timer past the      *)
(* first expired wait.                                                     *)
UpTo(n, bound) == IF n < bound THEN n ELSE bound

Waiting(t) == pc[t] \in {"open", "stat", "remove", "deadline"}
Holding(t) == pc[t] = "hold"

-----------------------------------------------------------------------------
Init ==
    /\ lockOwner = NoThread
    /\ lockAge = 0
    /\ mu = [p \in Procs |-> NoThread]
    /\ pc = [t \in Threads |-> "idle"]
    /\ timer = [t \in Threads |-> 0]
    /\ outlasted = {}

(* d.mu.Lock(), then the deadline of lockDir starts to run.                *)
EnterStore(t) ==
    /\ pc[t] = "idle"
    /\ mu[ProcOf[t]] = NoThread
    /\ mu' = [mu EXCEPT ![ProcOf[t]] = t]
    /\ pc' = [pc EXCEPT ![t] = "open"]
    /\ timer' = [timer EXCEPT ![t] = 0]
    /\ UNCHANGED <<lockOwner, lockAge, outlasted>>

(* Mutant: os.OpenFile with O_CREATE but not O_EXCL.                       *)
AcquireLockNotExclusively(t) ==
    /\ pc[t] = "open"
    /\ lockOwner' = t
    /\ lockAge' = 0
    /\ pc' = [pc EXCEPT ![t] = "hold"]
    /\ timer' = [timer EXCEPT ![t] = 0]
    /\ UNCHANGED <<mu, outlasted>>

(* os.OpenFile with O_CREATE|O_EXCL creates the file: the lock is taken.   *)
AcquireLock(t) ==
    /\ pc[t] = "open"
    /\ lockOwner = NoThread
    /\ lockOwner' = t
    /\ lockAge' = 0
    /\ pc' = [pc EXCEPT ![t] = "hold"]
    /\ timer' = [timer EXCEPT ![t] = 0]
    /\ UNCHANGED <<mu, outlasted>>

(* Mutant: each failed attempt touches the lock file.                      *)
FindLockHeldAndTouch(t) ==
    /\ pc[t] = "open"
    /\ lockOwner # NoThread
    /\ lockAge' = 0
    /\ pc' = [pc EXCEPT ![t] = "stat"]
    /\ UNCHANGED <<lockOwner, mu, timer, outlasted>>

(* os.OpenFile fails with os.IsExist.                                      *)
FindLockHeld(t) ==
    /\ pc[t] = "open"
    /\ lockOwner # NoThread
    /\ pc' = [pc EXCEPT ![t] = "stat"]
    /\ UNCHANGED <<lockOwner, lockAge, mu, timer, outlasted>>

(* Mutant: the file's age is compared with the wrong constant.             *)
LooksStaleAtWaitTimeout == lockOwner # NoThread /\ lockAge > WaitTimeout

(* What os.Stat finds, judged now and acted upon later.                    *)
LockLooksStale == lockOwner # NoThread /\ lockAge > StaleAfter

StatLock(t) ==
    /\ pc[t] = "stat"
    /\ pc' = [pc EXCEPT ![t] = IF LockLooksStale THEN "remove" ELSE "deadline"]
    /\ UNCHANGED <<lockOwner, lockAge, mu, timer, outlasted>>

(* os.Remove(path) of whatever lock file is there by now, then `continue`: *)
(* the deadline is not looked at.                                          *)
RemoveStale(t) ==
    /\ pc[t] = "remove"
    /\ lockOwner' = NoThread
    /\ pc' = [pc EXCEPT ![t] = "open"]
    /\ lockAge' = 0
    /\ UNCHANGED <<mu, timer, outlasted>>

(* Mutant: the deadline is computed anew in every iteration.               *)
CheckDeadlineRestarting(t) ==
    /\ pc[t] = "deadline"
    /\ pc' = [pc EXCEPT ![t] = "open"]
    /\ timer' = [timer EXCEPT ![t] = 0]
    /\ UNCHANGED <<lockOwner, lockAge, mu, outlasted>>

(* Past the deadline the method fails and its deferred d.mu.Unlock runs;   *)
(* before it the thread sleeps lockPollInterval and tries again.           *)
CheckDeadline(t) ==
    /\ pc[t] = "deadline"
    /\ \/ /\ timer[t] > WaitTimeout
          /\ pc' = [pc EXCEPT ![t] = "idle"]
          /\ mu' = [mu EXCEPT ![ProcOf[t]] = NoThread]
       \/ /\ timer[t] <= WaitTimeout
          /\ pc' = [pc EXCEPT ![t] = "open"]
          /\ UNCHANGED mu
    /\ UNCHANGED <<lockOwner, lockAge, timer, outlasted>>

(* The deferred release(), os.Remove(path) with no look at whose file it   *)
(* is, and d.mu.Unlock().                                                  *)
ReleaseLock(t) ==
    /\ Holding(t)
    /\ lockOwner' = NoThread
    /\ pc' = [pc EXCEPT ![t] = "idle"]
    /\ mu' = [mu EXCEPT ![ProcOf[t]] = NoThread]
    /\ lockAge' = 0
    /\ UNCHANGED <<timer, outlasted>>

(* A process is killed, with all its threads and its mutex; its lock file, *)
(* if it had one, stays.                                                   *)
Crash(p) ==
    /\ p \in Crashable
    /\ \E t \in Threads : ProcOf[t] = p /\ pc[t] # "dead"
    /\ pc' = [t \in Threads |-> IF ProcOf[t] = p THEN "dead" ELSE pc[t]]
    /\ mu' = [mu EXCEPT ![p] = NoThread]
    /\ UNCHANGED <<lockOwner, lockAge, timer, outlasted>>

(* One tick of time.  It takes a cycle past the stale age only where the   *)
(* bound Slow allows it.                                                   *)
Outlasts(t) == Holding(t) /\ timer[t] = StaleAfter

Tick ==
    /\ \A t \in Threads : Outlasts(t) => t \in Slow
    /\ outlasted' = outlasted \cup {t \in Threads : Outlasts(t)}
    /\ lockAge' = IF lockOwner = NoThread THEN 0 ELSE UpTo(lockAge + 1, StaleAfter + 1)
    /\ timer' = [t \in Threads |->
                    IF Waiting(t) THEN UpTo(timer[t] + 1, WaitTimeout + 1)
                    ELSE IF Holding(t) THEN UpTo(timer[t] + 1, StaleAfter + 1) ELSE timer[t]]
    /\ UNCHANGED <<lockOwner, mu, pc>>

(* What a thread does once it is inside a store method.                    *)
LockStep(t) ==
    \/ AcquireLock(t)
    \/ FindLockHeld(t)
    \/ StatLock(t)
    \/ RemoveStale(t)
    \/ CheckDeadline(t)
    \/ ReleaseLock(t)

Next ==
    \/ \E t \in Threads : EnterStore(t) \/ LockStep(t)
    \/ \E p \in Procs : Crash(p)
    \/ Tick

(* The Go scheduler runs every goroutine that is inside lockDir or inside  *)
(* its cycle, time passes, and cycles do not outlast the stale age for     *)
(* ever: lockDir looks at no deadline after it has broken a lock.  Nobody  *)
(* has to call the store or to die.                                        *)
Fairness ==
    /\ \A t \in Threads : WF_vars(LockStep(t))
    /\ WF_vars(Tick)
    /\ <>[](\A t \in Threads : Holding(t) => timer[t] <= StaleAfter)

Spec == Init /\ [][Next]_vars
FairSpec == Spec /\ Fairness

-----------------------------------------------------------------------------
(* The types of the variables; a locked d.mu belongs to a thread of its     *)
(* process that is inside a store method.                                  *)
TypeOK ==
    /\ lockOwner \in Threads \cup {NoThread}
    /\ lockAge \in 0..(StaleAfter + 1)
    /\ mu \in [Procs -> Threads \cup {NoThread}]
    /\ pc \in [Threads -> Steps]
    /\ timer \in [Threads -> Nat]
    /\ outlasted \subseteq Threads
    /\ \A p \in Procs : mu[p] # NoThread =>
            ProcOf[mu[p]] = p /\ (Waiting(mu[p]) \/ Holding(mu[p]))

(* "lockDir serializes read-modify-write cycles across processes, since    *)
(* every CLI invocation is its own process" (lock.go:21): no two threads   *)
(* are inside their cycles at once.  It fails: two waiters that both found *)
(* the lock of one killed process stale remove it one after the other, and *)
(* the second removes the lock the first, or a third process, has taken    *)
(* since.                                                                  *)
MutualExclusion ==
    \A t, u \in Threads : Holding(t) /\ Holding(u) => t = u

(* d.mu alone keeps the cycles of one process apart, whatever happens to   *)
(* the lock file: breaking, slow holders and crashes included.             *)
InProcessExclusion ==
    \A t, u \in Threads :
        Holding(t) /\ Holding(u) /\ ProcOf[t] = ProcOf[u] => t = u

(* "lockStaleAfter is when a lock left behind by a killed process is       *)
(* broken" (lock.go:17): a waiter never takes the lock of a live cycle for *)
(* stale unless that very cycle has outlasted lockStaleAfter, whatever was *)
(* broken, released by another or timed out before.  (What it removes, a   *)
(* step later, may be another lock than the one it judged.)                *)
StaleMeansDeadOrSlow ==
    [][\A t \in Threads :
          StatLock(t) /\ pc'[t] = "remove" =>
              pc[lockOwner] = "dead" \/ timer[lockOwner] > StaleAfter]_vars

(* Every thread inside its cycle has its lock file, so that the lock keeps *)
(* others out and release() removes no successor's file, unless a cycle    *)
(* has outlasted lockStaleAfter, or a process was killed and there are two *)
(* more to break its lock at once.                                         *)
Killed == \E t \in Threads : pc[t] = "dead"
AtMostTwoProcesses ==
    \A t, u, v \in Threads :
        ProcOf[t] = ProcOf[u] \/ ProcOf[u] = ProcOf[v] \/ ProcOf[t] = ProcOf[v]
FileProtects == \A t \in Threads : Holding(t) => lockOwner = t
OverlapsExplained ==
    FileProtects \/ outlasted # {} \/ (Killed /\ ~AtMostTwoProcesses)

(* lockWaitTimeout "bounds how long a writer waits for another process"    *)
(* (lock.go:15): whoever enters lockDir leaves it, with the lock or an     *)
(* error, unless its process dies.                                         *)
WaitersFinish ==
    \A t \in Threads : Waiting(t) ~> ~Waiting(t)

(* A lock file whose creator was killed goes away, as long as somebody     *)
(* keeps calling the store, although single calls may time out before it   *)
(* is stale.                                                               *)
Abandoned == lockOwner # NoThread /\ pc[lockOwner] = "dead"
AbandonedLockIsBroken ==
    []<>(\E t \in Threads : Waiting(t)) => (Abandoned ~> ~Abandoned)

-----------------------------------------------------------------------------
(* The lock file implements the store's mutex, and exactly so far: its     *)
(* holders are the threads inside their cycles, it is troubled once a      *)
(* process was killed or a cycle has outlasted lockStaleAfter, and exposed *)
(* while a waiter is about to remove a file or a holder has lost its own.  *)
Holders == {t \in Threads : Holding(t)}
Troubled == Killed \/ outlasted # {}
Exposed == ~FileProtects \/ \E t \in Threads : pc[t] = "remove"

Mutex == INSTANCE StoreMutex WITH holders <- Holders, troubled <- Troubled, exposed <- Exposed
ImplementsMutex == Mutex!Spec
=============================================================================
