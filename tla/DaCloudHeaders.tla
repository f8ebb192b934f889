--------------------------- MODULE DaCloudHeaders ---------------------------
(***************************************************************************)
(* The headers of a request and the cache key made of them                 *)
(* (dacloud_header_property.c:43-132).                                     *)
(*                                                                         *)
(* da_cloud_header_add puts a header at the front of the list and makes    *)
(* the key anew: the names and values of the list are written one after    *)
(* the other into a buffer, except those that do not fit, and hashed.      *)
(* The hash is that of XXHash, in which two texts have different hashes.   *)
(* The prefix X-DA- is part of a name.                                     *)
(*                                                                         *)
(* A Request is one such list (struct da_cloud_header_head).               *)
(***************************************************************************)
EXTENDS XXHash, FiniteSets, SequencesExt

CONSTANTS
  Request,
  Names,    \* names of headers, texts: sequences of characters
  Texts,    \* values of headers, texts
  Nul,      \* the character the rest of the buffer is filled with
  BUFLEN,   \* sizeof(cachekeybuf): 1024
  MaxAdds,  \* bound of the model: calls of da_cloud_header_add for a request
  Faults    \* which allocation of an add may fail: "header", "key", "value"

ASSUME HeadersAssumption ==
  /\ \A x \in Names \cup Texts : x \in Seq(Range(x)) /\ "none" \notin Range(x)
  /\ BUFLEN \in Nat /\ BUFLEN > 1 /\ MaxAdds \in Nat
  /\ Faults \subseteq {"header", "key", "value"}

VARIABLES
  list,    \* list[h]: the headers, the one added last first
  text,    \* text[h]: what the cache key is the hash of
  ret,     \* ret[h]: what the last add returned
  adds,    \* adds[h]: calls of da_cloud_header_add
  alive    \* the process has not crashed

vars == <<list, text, ret, adds, alive>>

Header == [key : Names, value : Texts]

(* Without a header there is no key: cachekey is the empty string.  What   *)
(* stands for that is no text.                                             *)
NoText == <<"none">>

TypeOK ==
  /\ list \in [Request -> Seq(Header)]
  /\ \A h \in Request : Len(text[h]) < BUFLEN
  /\ ret \in [Request -> {-1, 0}]
  /\ adds \in [Request -> 0 .. MaxAdds]
  /\ alive \in BOOLEAN

-----------------------------------------------------------------------------
(* The buffer after one more header: it must leave room for the NUL.       *)
RoomButNoNul(buf, x) == BUFLEN - Len(buf) >= Len(x.key) + Len(x.value)  \* a mutant
Room(buf, x) == BUFLEN - Len(buf) > Len(x.key) + Len(x.value)
ValuesOnly(buf, x) == IF Room(buf, x) THEN buf \o x.value ELSE buf  \* a mutant
Written(buf, x) == IF Room(buf, x) THEN buf \o x.key \o x.value ELSE buf

(* The text in the buffer after the loop of lines 82-93.                   *)
KeyText(l) ==
  LET buf[n \in 0 .. Len(l)] == IF n = 0 THEN <<>> ELSE Written(buf[n - 1], l[n])
  IN buf[Len(l)]

(* The key is the hash of the whole buffer, in decimal; without a header   *)
(* there is none.                                                          *)
Hashed(t) == <<XXH64(t \o [n \in 1 .. BUFLEN - Len(t) |-> Nul], 0)>>
Cachekey(h) == IF text[h] = NoText THEN <<>> ELSE Hashed(text[h])

Init ==
  /\ list = [h \in Request |-> <<>>]
  /\ text = [h \in Request |-> NoText]
  /\ ret = [h \in Request |-> 0]
  /\ adds = [h \in Request |-> 0]
  /\ alive = TRUE

Calling(h) ==
  /\ alive /\ adds[h] < MaxAdds
  /\ adds' = [adds EXCEPT ![h] = @ + 1]

Present(h, k) == \E n \in DOMAIN list[h] : list[h][n].key = k

(* A name that is there already is refused, after its memory was taken.    *)
AddDuplicate(h, k) ==
  /\ Calling(h)
  /\ Present(h, k)
  /\ ret' = [ret EXCEPT ![h] = -1]
  /\ UNCHANGED <<list, text, alive>>

Prepended(h, k, v) == <<[key |-> k, value |-> v]>> \o list[h]

Add(h, k, v) ==
  /\ Calling(h)
  /\ ~Present(h, k)
  /\ list' = [list EXCEPT ![h] = Prepended(h, k, v)]
  /\ text' = [text EXCEPT ![h] = KeyText(Prepended(h, k, v))]
  /\ ret' = [ret EXCEPT ![h] = 0]
  /\ UNCHANGED alive

(* No memory for the header itself.                                        *)
AddFails(h) ==
  /\ "header" \in Faults
  /\ Calling(h)
  /\ ret' = [ret EXCEPT ![h] = -1]
  /\ UNCHANGED <<list, text, alive>>

(* No memory for its name, or, if it is new, for its value: the null       *)
(* pointer is written to (line 70) or measured (line 84).                  *)
AddCrashes(h, k) ==
  /\ \/ "key" \in Faults
     \/ "value" \in Faults /\ ~Present(h, k)
  /\ Calling(h)
  /\ alive' = FALSE
  /\ UNCHANGED <<list, text, ret>>

(* da_cloud_header_free, and da_cloud_header_init for the next request.    *)
Renew(h) ==
  /\ alive
  /\ list' = [list EXCEPT ![h] = <<>>]
  /\ text' = [text EXCEPT ![h] = NoText]
  /\ ret' = [ret EXCEPT ![h] = 0]
  /\ adds' = [adds EXCEPT ![h] = 0]
  /\ UNCHANGED alive

Next ==
  \E h \in Request :
    \/ \E k \in Names : AddDuplicate(h, k) \/ AddCrashes(h, k)
    \/ \E k \in Names, v \in Texts : Add(h, k, v)
    \/ AddFails(h)
    \/ Renew(h)

Spec == Init /\ [][Next]_vars
-----------------------------------------------------------------------------
(* As long as the whole of a request fits in the buffer, the key is that   *)
(* of all its headers, names and values, each after the ones added later.  *)
Whole(l) == FlattenSeq([n \in DOMAIN l |-> l[n].key \o l[n].value])

EveryHeaderCounts ==
  \A h \in Request :
    list[h] # <<>> /\ Len(Whole(list[h])) < BUFLEN =>
      Cachekey(h) = Hashed(Whole(list[h]))

(* README.md:16: a cache "can be used to avoid using Cloud service hits    *)
(* with a same request", so two requests with one key have the same        *)
(* headers.                                                                *)
Headers(h) == {list[h][n] : n \in DOMAIN list[h]}

SameKeySameRequest ==
  \A g, h \in Request : Cachekey(g) = Cachekey(h) => Headers(g) = Headers(h)
=============================================================================
