----------------------------- MODULE MCStoreLock -----------------------------
(***************************************************************************)
(* Small deployments of StoreLock: a server process and two invocations of *)
(* the command line, and three invocations.                                *)
(***************************************************************************)
EXTENDS StoreLock, TLC

CONSTANTS t1, t2, t3, t4,     (* threads                                     *)
          server, cli1, cli2  (* processes                                   *)

(* The server serves two requests, a command line runs one method.         *)
ServerAndClis == (t1 :> server) @@ (t2 :> server) @@ (t3 :> cli1) @@ (t4 :> cli2)
OneThreadEach == (t2 :> server) @@ (t3 :> cli1) @@ (t4 :> cli2)
=============================================================================
