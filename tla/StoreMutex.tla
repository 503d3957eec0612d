----------------------------- MODULE StoreMutex -----------------------------
(***************************************************************************)
(* What the store's lock delivers.  As long as no process is killed and no *)
(* cycle outlasts lockStaleAfter, at most one thread, of whichever         *)
(* process, is inside a read-modify-write cycle.  After such trouble the   *)
(* lock may be exposed for a while: then cycles of different processes may *)
(* overlap, those of one process never, and when it has settled, with at   *)
(* most one holder left, it serializes the cycles again.  The modules of   *)
(* the store's documents take the untroubled lock for granted.             *)
(***************************************************************************)
CONSTANTS Threads,  (* the threads (goroutines) that use the store          *)
          ProcOf    (* the process of each thread                           *)

VARIABLES
    holders,        (* the threads inside a read-modify-write cycle         *)
    troubled,       (* a process was killed, or a cycle took too long       *)
    exposed         (* a holder's lock may be taken from it                 *)

vars == <<holders, troubled, exposed>>

AtMostOne(S) == \A t, u \in S : t = u

Init ==
    /\ holders = {}
    /\ troubled = FALSE
    /\ exposed = FALSE

Take(t) ==
    /\ holders = {} \/ exposed
    /\ \A u \in holders : ProcOf[u] # ProcOf[t]
    /\ holders' = holders \cup {t}
    /\ UNCHANGED <<troubled, exposed>>

(* The lock stays as exposed as it was, or it has settled.                 *)
MaySettle ==
    /\ exposed' => exposed
    /\ exposed' \/ AtMostOne(holders')

Release(t) ==
    /\ t \in holders
    /\ holders' = holders \ {t}
    /\ MaySettle
    /\ UNCHANGED troubled

(* A process dies, with the cycle one of its threads was in, or a cycle    *)
(* outlasts lockStaleAfter.                                                *)
Trouble ==
    /\ troubled' = TRUE
    /\ holders' \subseteq holders
    /\ MaySettle

(* A waiter decides that the lock is stale.                                *)
Expose ==
    /\ troubled
    /\ exposed' = TRUE
    /\ UNCHANGED <<holders, troubled>>

(* It has removed it.                                                      *)
Settle ==
    /\ MaySettle
    /\ UNCHANGED <<holders, troubled>>

Next ==
    \/ \E t \in Threads : Take(t) \/ Release(t)
    \/ Trouble
    \/ Expose
    \/ Settle

Spec == Init /\ [][Next]_vars
=============================================================================
