---------------------------- MODULE StoreLockProofs ----------------------------
(***************************************************************************)
(* Proofs about StoreLock, for any threads, processes and time bounds.     *)
(* Nothing is assumed of them: processes are killed and cycles outlast the *)
(* stale age wherever the bounds Crashable and Slow let them.              *)
(***************************************************************************)
EXTENDS StoreLock, TLAPS

USE LockAssumption DEF Waiting, Holding

-----------------------------------------------------------------------------
(* Whoever is inside a store method has its process's d.mu.                *)
InsideHasMutex ==
    \A t \in Threads : Waiting(t) \/ Holding(t) => mu[ProcOf[t]] = t

MutexInv == TypeOK /\ InsideHasMutex

(* Nobody is inside the store at first.                                    *)
LEMMA MutexInit == Init => MutexInv
BY DEF Init, MutexInv, TypeOK, InsideHasMutex, Steps

(* A step of one thread that keeps it inside or outside the store.         *)
LEMMA MutexStep ==
    ASSUME MutexInv, NEW t \in Threads, EnterStore(t) \/ LockStep(t)
    PROVE  MutexInv'
<1>. USE DEF MutexInv, TypeOK, InsideHasMutex, Steps
<1>0. ProcOf[t] \in Procs
  OBVIOUS
<1>1. CASE EnterStore(t)
  BY <1>0, <1>1 DEF EnterStore
<1>2. CASE AcquireLock(t)
  BY <1>0, <1>2 DEF AcquireLock
<1>3. CASE FindLockHeld(t)
  BY <1>0, <1>3 DEF FindLockHeld
<1>4. CASE StatLock(t)
  BY <1>0, <1>4 DEF StatLock
<1>5. CASE RemoveStale(t)
  BY <1>0, <1>5 DEF RemoveStale
<1>6. CASE CheckDeadline(t)
  BY <1>0, <1>6 DEF CheckDeadline
<1>7. CASE ReleaseLock(t)
  BY <1>0, <1>7 DEF ReleaseLock
<1>. QED BY <1>1, <1>2, <1>3, <1>4, <1>5, <1>6, <1>7 DEF LockStep

(* Every step preserves the invariant of d.mu.                             *)
LEMMA MutexNext == MutexInv /\ [Next]_vars => MutexInv'
<1>. SUFFICES ASSUME MutexInv, [Next]_vars PROVE MutexInv'
  OBVIOUS
<1>. USE DEF MutexInv, TypeOK, InsideHasMutex, Steps
<1>1. ASSUME NEW t \in Threads, EnterStore(t) \/ LockStep(t)
      PROVE  MutexInv'
  BY <1>1, MutexStep
<1>2. ASSUME NEW p \in Procs, Crash(p)
      PROVE  MutexInv'
  BY <1>2 DEF Crash
<1>3. CASE Tick
  BY <1>3 DEF Tick, UpTo
<1>4. CASE UNCHANGED vars
  BY <1>4 DEF vars
<1>. QED BY <1>1, <1>2, <1>3, <1>4 DEF Next

(* Whoever is inside a store method has d.mu, in every deployment.         *)
THEOREM MutexInvariance == Spec => []MutexInv
BY MutexInit, MutexNext, PTL DEF Spec

(* The variables keep their types, and a locked d.mu belongs to a thread   *)
(* that is inside a store method.                                          *)
THEOREM LockTypeCorrect == Spec => []TypeOK
BY MutexInvariance, PTL DEF MutexInv

(* Inside one process d.mu alone serializes the cycles, whatever happens   *)
(* to the lock file.                                                       *)
THEOREM InProcess == Spec => []InProcessExclusion
<1>1. MutexInv => InProcessExclusion
  BY DEF MutexInv, InsideHasMutex, InProcessExclusion
<1>. QED BY <1>1, MutexInvariance, PTL

-----------------------------------------------------------------------------
(***************************************************************************)
(* The lock file: one that is there is its creator's, who is inside the    *)
(* cycle it was created for, no older than that cycle, or is dead.  A cycle *)
(* older than the stale age is recorded, and a waiter that is about to     *)
(* remove a file found one of a killed process or of such a cycle.         *)
(***************************************************************************)
OwnerInv ==
    /\ \A t \in Threads : Holding(t) => timer[t] <= StaleAfter \/ t \in outlasted
    /\ lockOwner # NoThread =>
          \/ Holding(lockOwner) /\ lockAge <= timer[lockOwner]
          \/ pc[lockOwner] = "dead"

DeathInv ==
    /\ \A t, u \in Threads : pc[t] = "dead" /\ ProcOf[t] = ProcOf[u] => pc[u] = "dead"
    /\ \A t \in Threads : pc[t] = "remove" => Troubled

LockInv == MutexInv /\ OwnerInv /\ DeathInv

(* The invariant of the lock file holds at first.                          *)
LEMMA LockInit == Init => LockInv
BY MutexInit DEF Init, LockInv, OwnerInv, DeathInv

(* What a waiter takes for stale: the lock of a dead thread, or of a cycle *)
(* that has outlasted the stale age.                                       *)
LEMMA StaleOwner ==
    ASSUME LockInv, LockLooksStale
    PROVE  /\ pc[lockOwner] = "dead" \/ timer[lockOwner] > StaleAfter
           /\ Troubled
<1>1. /\ lockOwner \in Threads /\ lockAge > StaleAfter /\ lockAge \in Nat
      /\ timer[lockOwner] \in Nat
  BY DEF LockInv, MutexInv, TypeOK, LockLooksStale
<1>2. CASE pc[lockOwner] = "dead"
  BY <1>1, <1>2 DEF Troubled, Killed
<1>3. CASE Holding(lockOwner) /\ lockAge <= timer[lockOwner]
  <2>1. timer[lockOwner] > StaleAfter
    BY <1>1, <1>3
  <2>2. lockOwner \in outlasted
    BY <1>1, <1>3, <2>1 DEF LockInv, OwnerInv
  <2>. QED BY <2>1, <2>2 DEF Troubled
<1>. QED BY <1>1, <1>2, <1>3 DEF LockInv, OwnerInv

(* Trouble is never forgotten: the dead stay dead, the record of a cycle   *)
(* that took too long stays.                                               *)
LEMMA TroubleStays ==
    ASSUME LockInv, [Next]_vars
    PROVE  /\ Killed => Killed'
           /\ outlasted \subseteq outlasted'
<1>. USE DEF LockInv, MutexInv, TypeOK, Killed
<1>1. ASSUME NEW t \in Threads, EnterStore(t) \/ LockStep(t)
      PROVE  outlasted' = outlasted /\ \A u \in Threads : pc[u] = "dead" => pc'[u] = "dead"
  BY <1>1 DEF EnterStore, LockStep, AcquireLock, FindLockHeld, StatLock, RemoveStale,
     CheckDeadline, ReleaseLock
<1>2. ASSUME NEW p \in Procs, Crash(p)
      PROVE  outlasted' = outlasted /\ \A u \in Threads : pc[u] = "dead" => pc'[u] = "dead"
  BY <1>2 DEF Crash
<1>3. CASE Tick \/ UNCHANGED vars
  BY <1>3 DEF Tick, vars
<1>. QED BY <1>1, <1>2, <1>3 DEF Next

(* Every step preserves the invariant of the lock file.                    *)
LEMMA LockNext == LockInv /\ [Next]_vars => LockInv'
<1>. SUFFICES ASSUME LockInv, [Next]_vars PROVE OwnerInv' /\ DeathInv'
  BY MutexNext DEF LockInv
<1>0. /\ MutexInv /\ TypeOK /\ OwnerInv /\ DeathInv
      /\ lockAge \in Nat /\ \A t \in Threads : timer[t] \in Nat
  BY DEF LockInv, MutexInv, TypeOK
<1>a. Troubled => Troubled'
  BY TroubleStays DEF Troubled
<1>. USE DEF OwnerInv, DeathInv
<1>1. ASSUME NEW t \in Threads, EnterStore(t)
      PROVE  OwnerInv' /\ DeathInv'
  BY <1>0, <1>1, <1>a DEF EnterStore, TypeOK, Steps
<1>2. ASSUME NEW t \in Threads, AcquireLock(t)
      PROVE  OwnerInv' /\ DeathInv'
  BY <1>0, <1>2, <1>a DEF AcquireLock, TypeOK, Steps
<1>3. ASSUME NEW t \in Threads, FindLockHeld(t)
      PROVE  OwnerInv' /\ DeathInv'
  BY <1>0, <1>3, <1>a DEF FindLockHeld, TypeOK, Steps
<1>4. ASSUME NEW t \in Threads, StatLock(t)
      PROVE  OwnerInv' /\ DeathInv'
  <2>1. LockLooksStale => Troubled'
    BY StaleOwner, <1>a
  <2>. QED BY <1>0, <1>4, <1>a, <2>1 DEF StatLock, TypeOK, Steps
<1>5. ASSUME NEW t \in Threads, RemoveStale(t)
      PROVE  OwnerInv' /\ DeathInv'
  BY <1>0, <1>5, <1>a DEF RemoveStale, TypeOK, Steps
<1>6. ASSUME NEW t \in Threads, CheckDeadline(t)
      PROVE  OwnerInv' /\ DeathInv'
  BY <1>0, <1>6, <1>a DEF CheckDeadline, TypeOK, Steps
<1>7. ASSUME NEW t \in Threads, ReleaseLock(t)
      PROVE  OwnerInv' /\ DeathInv'
  BY <1>0, <1>7, <1>a DEF ReleaseLock, TypeOK, Steps
<1>8. ASSUME NEW p \in Procs, Crash(p)
      PROVE  OwnerInv' /\ DeathInv'
  BY <1>0, <1>8, <1>a DEF Crash, TypeOK, Steps
<1>9. CASE Tick
  <2>1. DeathInv'
    BY <1>0, <1>9, <1>a DEF Tick
  <2>2. ASSUME NEW t \in Threads, Holding(t)'
        PROVE  timer'[t] <= StaleAfter \/ t \in outlasted'
    BY <1>0, <1>9, <2>2 DEF Tick, UpTo, Outlasts
  <2>3. lockOwner' # NoThread =>
          \/ Holding(lockOwner)' /\ lockAge' <= timer'[lockOwner']
          \/ pc'[lockOwner'] = "dead"
    BY <1>0, <1>9 DEF Tick, UpTo, TypeOK
  <2>. QED BY <2>1, <2>2, <2>3
<1>10. CASE UNCHANGED vars
  BY <1>0, <1>10, <1>a DEF vars
<1>. QED BY <1>1, <1>2, <1>3, <1>4, <1>5, <1>6, <1>7, <1>8, <1>9, <1>10 DEF Next, LockStep

(* The lock file is always that of a thread inside the cycle it was        *)
(* created for, no older than the cycle, or of a dead one.                 *)
THEOREM LockInvariance == Spec => []LockInv
BY LockInit, LockNext, PTL DEF Spec

(* A lock is taken for stale only when its creator was killed or its own   *)
(* cycle has outlasted lockStaleAfter.                                     *)
THEOREM StaleExplained == Spec => StaleMeansDeadOrSlow
<1>1. LockInv => \A t \in Threads : StatLock(t) /\ pc'[t] = "remove" =>
                     pc[lockOwner] = "dead" \/ timer[lockOwner] > StaleAfter
  <2>. SUFFICES ASSUME LockInv, NEW t \in Threads, StatLock(t), pc'[t] = "remove"
                PROVE  pc[lockOwner] = "dead" \/ timer[lockOwner] > StaleAfter
    OBVIOUS
  <2>1. LockLooksStale
    BY DEF StatLock, LockInv, MutexInv, TypeOK
  <2>. QED BY <2>1, StaleOwner
<1>. QED BY <1>1, LockInvariance, PTL DEF StaleMeansDeadOrSlow

-----------------------------------------------------------------------------
(***************************************************************************)
(* How far the lock protects: until a cycle outlasts the stale age, with   *)
(* no kill or with two processes, every thread inside its cycle has its    *)
(* lock file.  For a waiter that is about to remove a file then found one  *)
(* of the killed process, so that every live thread is of its own process. *)
(***************************************************************************)
OverlapInv == LockInv /\ OverlapsExplained

(* Nobody is inside a cycle when a waiter is about to remove the file.     *)
LEMMA BreakerAlone ==
    ASSUME LockInv, outlasted = {}, AtMostTwoProcesses,
           NEW t \in Threads, pc[t] = "remove", NEW u \in Threads
    PROVE  ~Holding(u)
<1>. SUFFICES ASSUME Holding(u) PROVE FALSE
  OBVIOUS
<1>1. PICK d \in Threads : pc[d] = "dead"
  BY DEF LockInv, DeathInv, Troubled, Killed
<1>2. ProcOf[d] # ProcOf[t] /\ ProcOf[d] # ProcOf[u]
  BY <1>1 DEF LockInv, DeathInv
<1>3. ProcOf[t] = ProcOf[u]
  BY <1>1, <1>2 DEF AtMostTwoProcesses
<1>. QED BY <1>3 DEF LockInv, MutexInv, InsideHasMutex

(* Every step preserves what has been said of overlaps.                    *)
LEMMA OverlapNext == OverlapInv /\ LockInv' /\ [Next]_vars => OverlapInv'
<1>. SUFFICES ASSUME LockInv, OverlapsExplained, LockInv', [Next]_vars,
                     outlasted' = {}, Killed' => AtMostTwoProcesses
              PROVE  FileProtects'
  BY DEF OverlapInv, OverlapsExplained
<1>1. outlasted = {} /\ (Killed => AtMostTwoProcesses)
  BY TroubleStays
<1>2. MutexInv /\ TypeOK /\ FileProtects
  BY <1>1 DEF OverlapsExplained, LockInv, MutexInv
<1>. USE DEF FileProtects
<1>3. ASSUME NEW t \in Threads, EnterStore(t) \/ FindLockHeld(t) \/ StatLock(t) \/ CheckDeadline(t)
      PROVE  FileProtects'
  BY <1>2, <1>3 DEF EnterStore, FindLockHeld, StatLock, CheckDeadline, TypeOK
<1>4. ASSUME NEW t \in Threads, AcquireLock(t)
      PROVE  FileProtects'
  BY <1>2, <1>4 DEF AcquireLock, TypeOK
<1>5. ASSUME NEW t \in Threads, RemoveStale(t)
      PROVE  FileProtects'
  <2>1. Killed
    BY <1>1, <1>5 DEF RemoveStale, LockInv, DeathInv, Troubled
  <2>2. \A u \in Threads : ~Holding(u)
    BY <1>1, <1>5, <2>1, BreakerAlone DEF RemoveStale
  <2>. QED BY <1>2, <1>5, <2>2 DEF RemoveStale, TypeOK
<1>6. ASSUME NEW t \in Threads, ReleaseLock(t)
      PROVE  FileProtects'
  BY <1>2, <1>6 DEF ReleaseLock, TypeOK
<1>7. ASSUME NEW p \in Procs, Crash(p)
      PROVE  FileProtects'
  BY <1>2, <1>7 DEF Crash, TypeOK
<1>8. CASE Tick \/ UNCHANGED vars
  BY <1>2, <1>8 DEF Tick, vars
<1>. QED BY <1>3, <1>4, <1>5, <1>6, <1>7, <1>8 DEF Next, LockStep

(* Two cycles overlap, or a release removes a successor's lock file, only  *)
(* after a cycle has outlasted lockStaleAfter, or after a kill where two   *)
(* more processes use the store: whatever the processes, the threads and   *)
(* the time bounds, these are the only two ways.                           *)
THEOREM Overlaps ==
    Spec => [](\/ MutualExclusion /\ \A t \in Threads : Holding(t) => lockOwner = t
               \/ outlasted # {}
               \/ Killed /\ ~AtMostTwoProcesses)
<1>1. Init => OverlapInv
  BY LockInit DEF Init, OverlapInv, OverlapsExplained, FileProtects
<1>2. Spec => []OverlapInv
  BY <1>1, OverlapNext, LockInvariance, PTL DEF Spec
<1>3. OverlapInv => \/ MutualExclusion /\ \A t \in Threads : Holding(t) => lockOwner = t
                    \/ outlasted # {}
                    \/ Killed /\ ~AtMostTwoProcesses
  BY DEF OverlapInv, OverlapsExplained, FileProtects, MutualExclusion
<1>. QED BY <1>2, <1>3, PTL

-----------------------------------------------------------------------------
(***************************************************************************)
(* The refinement.                                                         *)
(***************************************************************************)
(* The steps that leave holders, trouble and exposure alone.               *)
LEMMA LockStutter ==
    ASSUME LockInv, NEW t \in Threads,
           EnterStore(t) \/ FindLockHeld(t) \/ CheckDeadline(t) \/ (StatLock(t) /\ ~LockLooksStale)
    PROVE  Holders' = Holders /\ (Troubled' <=> Troubled) /\ (Exposed' <=> Exposed)
<1>1. /\ lockOwner' = lockOwner /\ outlasted' = outlasted
      /\ \A u \in Threads : /\ pc'[u] = "hold" <=> pc[u] = "hold"
                            /\ pc'[u] = "dead" <=> pc[u] = "dead"
                            /\ pc'[u] = "remove" <=> pc[u] = "remove"
  BY DEF EnterStore, FindLockHeld, CheckDeadline, StatLock, LockInv, MutexInv, TypeOK
<1>. QED BY <1>1 DEF Holders, Troubled, Killed, Exposed, FileProtects

(* A thread that acquires the lock takes the mutex.                        *)
LEMMA AcquireTakes ==
    ASSUME LockInv, NEW t \in Threads, AcquireLock(t)
    PROVE  /\ Holders = {} \/ Exposed
           /\ \A u \in Holders : ProcOf[u] # ProcOf[t]
           /\ Holders' = Holders \cup {t}
           /\ (Troubled' <=> Troubled) /\ (Exposed' <=> Exposed)
<1>. USE DEF LockInv, MutexInv, TypeOK, AcquireLock, Holders
<1>1. Holders = {} \/ Exposed
  BY DEF Exposed, FileProtects
<1>2. \A u \in Holders : ProcOf[u] # ProcOf[t]
  BY DEF InsideHasMutex
<1>3. Holders' = Holders \cup {t}
  OBVIOUS
<1>4. Troubled' <=> Troubled
  BY DEF Troubled, Killed
<1>5. \A u \in Threads : pc'[u] = "remove" <=> pc[u] = "remove"
  OBVIOUS
<1>6. FileProtects <=> Holders = {}
  BY DEF FileProtects
<1>7. FileProtects' <=> Holders \subseteq {t}
  BY <1>3 DEF FileProtects
<1>8. t \notin Holders
  OBVIOUS
<1>. QED BY <1>1, <1>2, <1>3, <1>4, <1>5, <1>6, <1>7, <1>8 DEF Exposed

(* A thread that releases the lock leaves nothing exposed that was not.    *)
LEMMA ReleaseLeaves ==
    ASSUME LockInv, NEW t \in Threads, ReleaseLock(t)
    PROVE  /\ t \in Holders
           /\ Holders' = Holders \ {t}
           /\ Troubled' <=> Troubled
           /\ Exposed' => Exposed
<1>. USE DEF LockInv, MutexInv, TypeOK, ReleaseLock, Holders
<1>1. t \in Holders /\ Holders' = Holders \ {t}
  OBVIOUS
<1>2. Troubled' <=> Troubled
  BY DEF Troubled, Killed
<1>3. \A u \in Threads : pc'[u] = "remove" <=> pc[u] = "remove"
  OBVIOUS
<1>4. FileProtects => FileProtects'
  BY DEF FileProtects
<1>. QED BY <1>1, <1>2, <1>3, <1>4 DEF Exposed

(* A kill is trouble, and takes away holders only.                         *)
LEMMA CrashTroubles ==
    ASSUME LockInv, NEW p \in Procs, Crash(p)
    PROVE  Troubled' /\ Holders' \subseteq Holders /\ (Exposed' => Exposed)
<1>1. PICK d \in Threads : ProcOf[d] = p
  BY DEF Crash
<1>2. pc'[d] = "dead"
  BY <1>1 DEF Crash
<1>3. Troubled'
  BY <1>2 DEF Troubled, Killed
<1>4. /\ \A u \in Threads : /\ pc'[u] = "hold" => pc[u] = "hold"
                            /\ pc'[u] = "remove" => pc[u] = "remove"
      /\ lockOwner' = lockOwner
  BY DEF Crash
<1>. QED BY <1>3, <1>4 DEF Holders, Exposed, FileProtects

(* Time changes nothing unless a cycle outlasts the stale age.             *)
LEMMA TickTroubles ==
    ASSUME LockInv, Tick
    PROVE  /\ Holders' = Holders /\ (Exposed' <=> Exposed)
           /\ Troubled' \/ (Troubled' <=> Troubled)
<1>1. Holders' = Holders /\ (Exposed' <=> Exposed)
  BY DEF Tick, Holders, Exposed, FileProtects
<1>2. outlasted \subseteq outlasted' /\ pc' = pc
  BY DEF Tick
<1>3. (Killed' <=> Killed) /\ (outlasted' = {} => outlasted = {})
  BY <1>2 DEF Killed
<1>. QED BY <1>1, <1>3 DEF Troubled

(* Every step of the lock is a step of the mutex or none.                  *)
LEMMA MutexRefinementStep ==
    LockInv /\ [Next]_vars => [Mutex!Next]_(Mutex!vars)
<1>. SUFFICES ASSUME LockInv, [Next]_vars PROVE [Mutex!Next]_(Mutex!vars)
  OBVIOUS
<1>a. Troubled \in BOOLEAN /\ Exposed \in BOOLEAN /\ Troubled' \in BOOLEAN /\ Exposed' \in BOOLEAN
  BY DEF Troubled, Killed, Exposed
<1>b. Exposed' \/ \A t, u \in Holders' : t = u
  BY DEF Exposed, FileProtects, Holders
<1>c. CASE Holders' = Holders /\ (Troubled' <=> Troubled) /\ (Exposed' <=> Exposed)
  BY <1>a, <1>c DEF Mutex!vars
<1>1. ASSUME NEW t \in Threads,
             EnterStore(t) \/ FindLockHeld(t) \/ CheckDeadline(t) \/ (StatLock(t) /\ ~LockLooksStale)
      PROVE  [Mutex!Next]_(Mutex!vars)
  BY <1>1, <1>c, LockStutter
<1>2. ASSUME NEW t \in Threads, AcquireLock(t)
      PROVE  Mutex!Next
  <2>1. Mutex!Take(t)
    BY <1>2, <1>a, AcquireTakes DEF Mutex!Take
  <2>. QED BY <2>1 DEF Mutex!Next
<1>3. ASSUME NEW t \in Threads, StatLock(t), LockLooksStale
      PROVE  Mutex!Next
  <2>1. /\ lockOwner' = lockOwner /\ outlasted' = outlasted
        /\ \A u \in Threads : /\ pc'[u] = "hold" <=> pc[u] = "hold"
                              /\ pc'[u] = "dead" <=> pc[u] = "dead"
        /\ pc'[t] = "remove"
    BY <1>3 DEF StatLock, LockInv, MutexInv, TypeOK
  <2>2. Holders' = Holders /\ (Troubled' <=> Troubled) /\ Exposed'
    BY <2>1 DEF Holders, Troubled, Killed, Exposed
  <2>3. Troubled
    BY <1>3, StaleOwner
  <2>4. Mutex!Expose
    BY <1>a, <2>2, <2>3 DEF Mutex!Expose
  <2>. QED BY <2>4 DEF Mutex!Next
<1>4. ASSUME NEW t \in Threads, RemoveStale(t)
      PROVE  Mutex!Next
  <2>1. Exposed
    BY <1>4 DEF RemoveStale, Exposed
  <2>2. /\ outlasted' = outlasted
        /\ \A u \in Threads : /\ pc'[u] = "hold" <=> pc[u] = "hold"
                              /\ pc'[u] = "dead" <=> pc[u] = "dead"
    BY <1>4 DEF RemoveStale, LockInv, MutexInv, TypeOK
  <2>3. Holders' = Holders /\ (Troubled' <=> Troubled)
    BY <2>2 DEF Holders, Troubled, Killed
  <2>4. Mutex!Settle
    BY <1>a, <1>b, <2>1, <2>3 DEF Mutex!Settle, Mutex!MaySettle, Mutex!AtMostOne
  <2>. QED BY <2>4 DEF Mutex!Next
<1>5. ASSUME NEW t \in Threads, ReleaseLock(t)
      PROVE  Mutex!Next
  <2>1. Mutex!Release(t)
    BY <1>5, <1>a, <1>b, ReleaseLeaves DEF Mutex!Release, Mutex!MaySettle, Mutex!AtMostOne
  <2>. QED BY <2>1 DEF Mutex!Next
<1>6. ASSUME Troubled', Holders' \subseteq Holders, Exposed' => Exposed
      PROVE  Mutex!Next
  <2>1. Mutex!Trouble
    BY <1>6, <1>a, <1>b DEF Mutex!Trouble, Mutex!MaySettle, Mutex!AtMostOne
  <2>. QED BY <2>1 DEF Mutex!Next
<1>7. ASSUME NEW p \in Procs, Crash(p)
      PROVE  Mutex!Next
  BY <1>6, <1>7, CrashTroubles
<1>8. CASE Tick
  <2>1. CASE Troubled'
    BY <1>6, <1>8, <2>1, TickTroubles
  <2>2. CASE Troubled' <=> Troubled
    BY <1>8, <1>c, <2>2, TickTroubles
  <2>. QED BY <1>8, <2>1, <2>2, TickTroubles
<1>9. CASE UNCHANGED vars
  BY <1>9, <1>c DEF vars, Holders, Troubled, Killed, Exposed, FileProtects
<1>. QED BY <1>1, <1>2, <1>3, <1>4, <1>5, <1>7, <1>8, <1>9 DEF Next, LockStep

(* The lock file implements the mutex of StoreMutex, which tells when it   *)
(* serializes the cycles and when it may not.                              *)
THEOREM LockImplementsMutex == Spec => ImplementsMutex
<1>1. Init => Mutex!Init
  BY DEF Init, Mutex!Init, Holders, Troubled, Killed, Exposed, FileProtects
<1>. QED BY <1>1, LockInvariance, MutexRefinementStep, PTL DEF Spec, ImplementsMutex, Mutex!Spec
=============================================================================
