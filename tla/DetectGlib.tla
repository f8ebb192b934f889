----------------------------- MODULE DetectGlib -----------------------------
(***************************************************************************)
(* da_cloud_detect over the GLib memory cache: the two modules step the    *)
(* shared interface, each leaving the other's variables alone.             *)
(***************************************************************************)
EXTENDS DaCloudDetect

CONSTANTS Mutex, mtxOf, NoThread, UnlockOutcome,
          HASH_THRESHOLD, HASH_MIN, INT_MAX, Configured

VARIABLES at, owner, table, value

Glib == INSTANCE MemoryCacheGlib

internal == <<at, owner, table, value>>
vars == <<interface, client, internal>>

Init == DetectInit /\ Glib!Init

(* A thread that has begun goes on: in the cache, in the detection, or     *)
(* freeing the result.                                                     *)
Continue(t) ==
  /\ alive
  /\ \/ Glib!Provider(t) /\ UNCHANGED client
     \/ (Detection(t) \/ Free(t)) /\ UNCHANGED internal

Start(t) ==
  /\ alive
  /\ \E r \in Request : Begin(t, r) \/ NoPool(t, r)
  /\ UNCHANGED internal

Next == \E t \in Thread : Start(t) \/ Continue(t)

(* Each thread keeps running; a mutex goes to any thread that waits for    *)
(* it, and as each thread makes finitely many detections, to each of them  *)
(* in the end.                                                             *)
Spec == Init /\ [][Next]_vars /\ \A t \in Thread : WF_vars(Continue(t))

-----------------------------------------------------------------------------
(* A detection returns, unless a server never answers or the process       *)
(* crashes (a text without a body, an allocation that fails).              *)
Running(t) == pc[t] \in {"get", "try", "set", "parse"}

DetectReturns ==
  \A t \in Thread : Running(t) ~> (pc[t] \in {"returned", "hung"} \/ ~alive)
=============================================================================
