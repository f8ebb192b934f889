------------------------------ MODULE KeyedLog -------------------------------
(***************************************************************************)
(* A cache that is a log: a set appends a pair of key and value, a get     *)
(* answers with the first pair of its key or, as every cache may, with     *)
(* nothing.  A log may lose what it holds from the front.                  *)
(*                                                                         *)
(* What the list of memory_cache_provider.c stands for when it is built    *)
(* without GLib and used by one thread.                                    *)
(***************************************************************************)
EXTENDS CacheInterface, Sequences

VARIABLE log

FirstOfKey(k, i) == log[i][1] = k /\ \A j \in 1 .. i - 1 : log[j][1] # k

LogInit == InterfaceInit /\ log = <<>>

Answer(t, v) ==
  /\ stage[t] = "busy"
  /\ stage' = [stage EXCEPT ![t] = "done"]
  /\ ans' = [ans EXCEPT ![t] = v]
  /\ UNCHANGED <<call, missed, offered>>

Find(t) ==
  /\ call[t].op = "get"
  /\ \E i \in DOMAIN log : FirstOfKey(call[t].key, i) /\ Answer(t, log[i][2])
  /\ UNCHANGED log

AnswerNothing(t) == Answer(t, NoValue) /\ UNCHANGED log

AppendPair(t) ==
  /\ stage[t] = "busy" /\ call[t].op = "set"
  /\ log' = Append(log, <<call[t].key, call[t].val>>)
  /\ UNCHANGED interface

DropFirst(t) ==
  /\ stage[t] = "busy" /\ call[t].op = "get"
  /\ log # <<>> /\ log' = Tail(log)
  /\ UNCHANGED interface

LogNext ==
  \E t \in Thread :
    \/ ClientNext(t) /\ UNCHANGED log
    \/ Find(t) \/ AnswerNothing(t) \/ AppendPair(t) \/ DropFirst(t)

LogSpec == LogInit /\ [][LogNext]_<<interface, log>>
=============================================================================
