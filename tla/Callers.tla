------------------------------- MODULE Callers -------------------------------
(***************************************************************************)
(* The programs of the repository that use the library: the examples, the  *)
(* tests, the fuzz target and the wrappers for C++, Python and Go, as the  *)
(* order in which they call it, and what they free on which way out.       *)
(*                                                                         *)
(* A program says for each of its calls what comes next when the call has  *)
(* succeeded, and when it has failed.  A call that occurs twice in a       *)
(* program has a second label that ends in 2; "next", "locale", "again",   *)
(* "ask" and "found" are no calls but choices of the input.                *)
(***************************************************************************)
EXTENDS Lifecycle

CONSTANT MaxCalledEntries   \* bound of the model: servers in the calls after init

Then(l) == <<l, l>>

Batch ==                    \* headers for each detection, everything freed
  [init |-> <<"next", "exit">>, next |-> <<"hinit", "fini">>, hinit |-> Then("detect"),
   detect |-> Then("read"), read |-> Then("pfree"), pfree |-> Then("hfree"),
   hfree |-> Then("next"), fini |-> Then("exit")]

SimpleBench ==
  [init |-> <<"hinit", "exit">>, hinit |-> Then("next"), next |-> <<"detect", "hfree">>,
   detect |-> Then("pfree"), pfree |-> Then("next"), hfree |-> Then("fini"),
   fini |-> Then("exit")]

Talloc ==
  [init |-> <<"hinit", "exit">>, hinit |-> Then("detect"), detect |-> Then("read"),
   read |-> Then("pfree"), pfree |-> Then("hfree"), hfree |-> Then("fini"),
   fini |-> Then("exit")]

(* One of the threads; main joins them before it calls da_cloud_fini.      *)
Mt ==
  [init |-> <<"hinit", "exit">>, hinit |-> Then("next"), next |-> <<"detect", "hfree">>,
   detect |-> Then("read"), read |-> Then("pfree"), pfree |-> Then("next"),
   hfree |-> Then("fini"), fini |-> Then("exit")]

FcgiSkips ==                                                   \* a mutant
  [init |-> <<"next", "exit">>, next |-> <<"hinit", "fini">>, hinit |-> Then("id"),
   id |-> Then("detect"), detect |-> <<"read", "next">>, read |-> Then("pfree"),
   pfree |-> Then("hfree"), hfree |-> Then("next"), fini |-> Then("exit")]

Fcgi ==
  [init |-> <<"next", "exit">>, next |-> <<"hinit", "fini">>, hinit |-> Then("id"),
   id |-> Then("detect"), detect |-> <<"read", "hfree">>, read |-> Then("pfree"),
   pfree |-> Then("hfree"), hfree |-> Then("next"), fini |-> Then("exit")]

CppClientFreesFirst ==                                         \* a mutant
  [init |-> <<"hinit", "exit">>, hinit |-> Then("locale"), locale |-> <<"detect", "hfree">>,
   detect |-> <<"pfree", "hfree">>, pfree |-> Then("read"), read |-> Then("id"),
   id |-> Then("hfree"), hfree |-> Then("fini"), fini |-> Then("exit")]

CppClient ==
  [init |-> <<"hinit", "exit">>, hinit |-> Then("locale"), locale |-> <<"detect", "hfree">>,
   detect |-> <<"read", "hfree">>, read |-> Then("id"), id |-> Then("pfree"),
   pfree |-> Then("hfree"), hfree |-> Then("fini"), fini |-> Then("exit")]

(* A failing locale ends the library, but not the fuzzing.                 *)
Fuzz ==
  [init |-> <<"next", "exit">>, next |-> <<"hinit", "fini">>, hinit |-> Then("locale"),
   locale |-> <<"detect", "hfree2">>, hfree2 |-> Then("fini2"), fini2 |-> Then("next"),
   detect |-> <<"read", "hfree">>, read |-> Then("id"), id |-> Then("pfree"),
   pfree |-> Then("hfree"), hfree |-> Then("next"), fini |-> Then("exit")]

(* A fatal assertion leaves a test at once; da_cloud_fini is always called. *)
Tests ==
  [init |-> <<"next", "fini">>, next |-> <<"hinit", "fini">>, hinit |-> Then("detect"),
   detect |-> <<"read", "next">>, read |-> Then("found"), found |-> <<"pfree", "next">>,
   pfree |-> Then("hfree"), hfree |-> Then("next"), fini |-> Then("exit")]

(* The classes for C++: a constructor makes an object or leaves it unset,  *)
(* a destructor frees the properties always, the rest only where it is set. *)
CppDetect ==
  [id |-> Then("hinit"), detect |-> <<"read", "pfree">>, read |-> Then("pfree"),
   pfree |-> Then("hfree"), hfree |-> Then("fini")]

(* The objects of example.cpp: their constructors in order, their          *)
(* destructors in the opposite one.                                        *)
CppWrapper ==
  [init |-> <<"id", "hinit2">>, hinit2 |-> <<"hfree2", "exit">>, hfree2 |-> Then("exit"),
   id |-> CppDetect.id, hinit |-> <<"detect", "fini">>, detect |-> CppDetect.detect,
   read |-> CppDetect.read, pfree |-> CppDetect.pfree, hfree |-> CppDetect.hfree,
   fini |-> Then("exit")]

(* load_config keeps a string with the id; each call of cache_id hands out *)
(* the reference of the object itself, which its user gives up (askid).    *)
Python ==
  [init |-> <<"id", "exit">>, id |-> Then("newid"), newid |-> Then("next"),
   next |-> <<"hinit", "ask">>, ask |-> <<"askid", "dropid">>, askid |-> Then("next"),
   hinit |-> Then("detect"), detect |-> <<"read", "hfree">>, read |-> Then("pfree"),
   pfree |-> Then("hfree"), hfree |-> Then("next"), dropid |-> Then("fini"),
   fini |-> Then("exit")]

(* Detect does not ask whether Init has succeeded.  Finalize may be called *)
(* by the program, and is called by the collector.                         *)
Go ==
  [init |-> Then("next"), next |-> <<"hinit", "fini">>, hinit |-> <<"detect", "next">>,
   detect |-> <<"read", "next">>, read |-> Then("pfree"), pfree |-> Then("hfree"),
   hfree |-> Then("next"), fini |-> Then("again"), again |-> <<"fini2", "exit">>,
   fini2 |-> Then("exit")]

Program ==
  [batch |-> Batch, simplebench |-> SimpleBench, talloc |-> Talloc, mt |-> Mt, fcgi |-> Fcgi,
   cppclient |-> CppClient, fuzz |-> Fuzz, tests |-> Tests, cppwrapper |-> CppWrapper,
   python |-> Python, go |-> Go]

Clears(c) == c \notin {"fcgi", "cppwrapper", "go"}
-----------------------------------------------------------------------------
VARIABLES
  caller,   \* the program; "undecided" until da_cloud_init returns
  label,    \* the call it makes next
  failed,   \* history: the kinds of calls that have failed
  leaked    \* history: the pools nobody can free any more

calls == <<caller, label, failed, leaked>>
callerVars == <<vars, cycle, calls>>

CallersInit ==
  /\ LifecycleInit
  /\ caller = "undecided" /\ label = "init" /\ failed = {} /\ leaked = {}

To(ok) == label' = Program[caller][label][IF ok THEN 1 ELSE 2]

(* One of the programs that call da_cloud_init in this way gets its answer. *)
Return ==
  /\ phase = "called" /\ label = "init" /\ Len(entries) <= MaxCalledEntries
  /\ \E c \in DOMAIN Program :
       /\ zeroed = Clears(c)
       /\ caller' = c
       /\ label' = Program[c]["init"][IF InitOk THEN 1 ELSE 2]
  /\ failed' = IF InitOk THEN failed ELSE {"init"}
  /\ status' = IF caller' = "cppwrapper" THEN Becomes({"properties"}, "null") ELSE status
  /\ UNCHANGED <<vars, zeroed, phase, cache, finis, bad, leaked>>

(* After the use of what is no object nothing is said of a program.        *)
Calling(ls) == caller # "undecided" /\ label \in ls /\ bad = {}
Static == UNCHANGED <<vars, zeroed, phase, cache, caller>>

Choose ==
  /\ Calling({"next", "locale", "again", "ask", "found"})
  /\ \E ok \in BOOLEAN :
       /\ To(ok)
       /\ failed' = IF label = "found" /\ ~ok THEN failed \cup {"found"} ELSE failed
  /\ UNCHANGED <<status, finis, bad, leaked>> /\ Static

(* da_cloud_header_init; what the pointer referred to is lost.  Without a  *)
(* pool root keeps its value, and the headers are none.                    *)
Lost(o) == IF status[o] = "live" THEN leaked \cup {o} ELSE leaked

HeaderInit ==
  /\ Calling({"hinit", "hinit2"})
  /\ leaked' = Lost("headers")
  /\ \/ status' = Becomes({"headers"}, "live") /\ To(TRUE) /\ UNCHANGED failed
     \/ /\ "alloc" \in InitFaults
        /\ failed' = failed \cup {"hinit"}
        /\ To(FALSE) /\ UNCHANGED status
  /\ UNCHANGED <<finis, bad>> /\ Static

(* da_cloud_detect: it uses the configuration, and the headers for their   *)
(* key; the pool of properties is made whether it succeeds or not, or      *)
(* cannot be made and is no assignment at all.                             *)
Uses == {"shead", "servers", "provider", "headers"}

Detect ==
  /\ Calling({"detect"})
  /\ bad' = Misused("detect", Uses)
  /\ \/ /\ status' = Becomes({"properties"}, "live")
        /\ leaked' = Lost("properties")
        /\ \/ To(TRUE) /\ UNCHANGED failed
           \/ To(FALSE) /\ failed' = failed \cup {"detect"}
     \/ /\ "alloc" \in InitFaults
        /\ failed' = failed \cup {"pool"}
        /\ To(FALSE) /\ UNCHANGED <<status, leaked>>
  /\ UNCHANGED finis /\ Static

(* The properties are read, with da_cloud_property, da_cloud_property_count *)
(* or one by one.                                                          *)
ReadProperties ==
  /\ Calling({"read"})
  /\ bad' = Misused("read", {"properties"})
  /\ To(TRUE)
  /\ UNCHANGED <<status, finis, failed, leaked>> /\ Static

(* da_cloud_properties_free, da_cloud_header_free, and the end of a Python *)
(* reference.                                                              *)
ObjectOf(l) ==
  CASE l = "pfree" -> "properties" [] l \in {"hfree", "hfree2"} -> "headers" [] OTHER -> "idstring"

Release ==
  /\ Calling({"pfree", "hfree", "hfree2", "askid", "dropid"})
  /\ bad' = Misused(label, {ObjectOf(label)})
  /\ status' = Freed({ObjectOf(label)})
  /\ To(TRUE)
  /\ UNCHANGED <<finis, failed, leaked>> /\ Static

NewId ==
  /\ Calling({"newid"})
  /\ status' = Becomes({"idstring"}, "live")
  /\ To(TRUE)
  /\ UNCHANGED <<finis, bad, failed, leaked>> /\ Static

CallFini == Calling({"fini", "fini2"}) /\ Fini /\ To(TRUE) /\ UNCHANGED <<failed, leaked>> /\ Static
CallId == Calling({"id"}) /\ CacheId /\ To(TRUE) /\ UNCHANGED <<failed, leaked>> /\ Static

Exit ==
  /\ Calling({"exit"})
  /\ leaked' = leaked \cup {o \in {"headers", "properties"} : status[o] = "live"}
  /\ label' = "gone"
  /\ UNCHANGED <<status, finis, bad, failed>> /\ Static

CallerNext ==
  \/ (InitStep \/ ServersTied) /\ UNCHANGED calls
  \/ Return \/ Choose \/ HeaderInit \/ Detect \/ ReadProperties \/ Release \/ NewId
  \/ CallFini \/ CallId \/ Exit

(* da_cloud_init goes on, and no failure among the servers is bound to     *)
(* happen; nobody has to call anything.                                    *)
InitGoesOn == InitStep /\ (phase = "servers" => Progress) /\ UNCHANGED calls

CallerSpec == CallersInit /\ [][CallerNext]_callerVars /\ WF_callerVars(InitGoesOn)
-----------------------------------------------------------------------------
CallersTypeOK ==
  /\ LifecycleTypeOK
  /\ caller \in DOMAIN Program \cup {"undecided"}
  /\ caller # "undecided" => label \in DOMAIN Program[caller] \cup {"exit", "gone"}
  /\ failed \subseteq {"init", "hinit", "detect", "pool", "found"}
  /\ leaked \subseteq {"headers", "properties"}

(* No program loses a pool of headers or of properties, except where a     *)
(* detection has failed: then those that free the properties only after a  *)
(* success lose them, and the tests and the Go wrapper the headers, too;   *)
(* the tests also where a property they look for is not there.             *)
PoolsFreed ==
  leaked # {} =>
    /\ \/ "detect" \in failed
       \/ caller \in {"tests", "go"} /\ "pool" \in failed
       \/ caller = "tests" /\ "found" \in failed
    /\ "properties" \in leaked => caller \in {"fcgi", "cppclient", "fuzz", "tests", "python", "go"}
    /\ "headers" \in leaked => caller \in {"tests", "go"}

(* A detection finds the configuration and the headers in place, the id    *)
(* that is asked for is that of a configured cache, and properties are     *)
(* read and freed while they exist, in every program and after every       *)
(* failure, but for: headers that could not be made; the Go wrapper, which *)
(* does not ask for the result of da_cloud_init; the fuzz target, which    *)
(* goes on after a da_cloud_fini; the mock cache that stands in for none,  *)
(* whose id is not set; the string of the Python wrapper, which cache_id   *)
(* hands out without a reference of its own; and properties whose pool     *)
(* could not be made, where the result of da_cloud_detect is not looked at *)
(* and the head of the properties still is what it was (dacloud.c:291-294).*)
CallsOnWhatExists ==
  \A b \in bad : b.op # "fini" =>
    \/ b.obj = "headers" /\ "hinit" \in failed
    \/ caller = "go" /\ "init" \in failed
    \/ caller = "fuzz" /\ finis > 0
    \/ b.obj = "id" /\ (cache = "none" \/ ~InitOk)
    \/ caller = "python" /\ b.obj = "idstring"
    \/ b.obj = "properties" /\ "pool" \in failed /\ caller \in {"batch", "simplebench", "talloc", "mt"}

(* A da_cloud_fini touches nothing that was freed before or never assigned, *)
(* wherever da_cloud_init gave up, but for: the array of servers that a    *)
(* failed realloc has freed; a configuration that was neither cleared nor  *)
(* initialised; and the second one of the fuzz target, which ends the      *)
(* library where it fails and again at its exit, and of the Go wrapper     *)
(* (dacloud.c:114-148, 440-459).                                           *)
FiniSafe ==
  \A b \in bad : b.op = "fini" =>
    \/ b.obj = "servers" /\ pc = "returned" /\ ret # 0 /\ i = 1
    \/ b.was = "garbage" /\ ~zeroed /\ ~InitOk
    \/ finis > 1 /\ caller \in {"fuzz", "go"}
=============================================================================
