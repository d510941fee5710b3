-------------------------- MODULE StreamLifecycle --------------------------
(***************************************************************************)
(* The registry of named streams of sdk/app/algorithm/stream_frame: how a  *)
(* stream is created, opened, bound to by its sources, closed and finally  *)
(* reclaimed by the two garbage-collection works of the main work queue.   *)
(*                                                                         *)
(* The firmware runs preemptive tasks on one core; a section between       *)
(* disable_irq and enable_irq is one step here and every access outside    *)
(* such a section is a step of its own.  Tasks call the API; the work      *)
(* queue thread runs the marker and the cleaner one after the other.       *)
(*                                                                         *)
(* What travels through an open stream is the subject of StreamData; here  *)
(* frames[s] only says whether src_d_list_u of s is not empty.             *)
(***************************************************************************)
EXTENDS Naturals, Integers, FiniteSets

CONSTANTS
    Tasks,            \* application tasks that call the stream API
    Producers,        \* those of them that also send frames
    Streams,          \* the stream structures the heap can hold at once
    Names,            \* stream names (pointers to constant strings)
    Dests,            \* the names the applications bind their streams to
    R_DEBUG_STREAM,   \* the name every open_stream binds its stream to
    Null,             \* no stream, no name
    MaxHold           \* bound: handles one task has on one stream

(* Where a task can be between two steps. *)
Pcs == { "idle",
         "open_find", "open_check", "open_create",
         "new_load", "new_store", "new_issue", "open_init",
         "get_check", "get_undo", "avail_check", "avail_undo",
         "bind_find", "bind_check", "bind_link", "bind_drop",
         "bind_undo", "bind_giveup",
         "bind_create", "bind_new",
         "close_load", "close_store", "close_mark" }

(* The values of stream_s.used. *)
AVAILABLE       == "STREAM_AVAILABLE"
ISUED           == "STREAM_ISUED"
UNAVAILABLE     == "STREAM_UNAVAILABLE"
WAIT_GC_MARKER  == "STREAM_WAIT_GC_MARKER"
WAIT_GC_CLEAN   == "STREAM_WAIT_GC_CLEAN"
AVAILABLE_AGAIN == "STREAM_AVAILABLE_AGAIN"
UsedStates == { AVAILABLE, ISUED, UNAVAILABLE, WAIT_GC_MARKER,
                WAIT_GC_CLEAN, AVAILABLE_AGAIN }

ASSUME StreamsAssumption == IsFiniteSet(Streams) /\ IsFiniteSet(Tasks)
ASSUME NullAssumption    == Null \notin Streams /\ Null \notin Names
ASSUME NamesAssumption   == R_DEBUG_STREAM \in Names /\ Dests \subseteq Names
ASSUME BoundAssumption   == MaxHold \in Nat

VARIABLES
    list,       \* list[s]: "g_s", "d_s" or "heap" (not allocated)
    newer,      \* order of g_s: <<a, b>> when a was prepended after b
    name,       \* stream_s.name; Null once the marker cleared it
    used,       \* stream_s.used
    ref,        \* stream_s.ref
    open_ref,   \* stream_s.open_ref
    s_list,     \* s_list[s][d]: nodes of stream_s.s_list with destination d
    lists,      \* whether the frame and node arrays of s are allocated
    frames,     \* whether src_d_list_u of s is not empty
    hold,       \* hold[t][s]: handles task t was given and not yet closed
    pc,         \* where task t is
    arg,        \* the name argument of the call task t is in
    own,        \* the stream task t is opening, binding from or closing
    dst,        \* the destination task t found or created in a bind
    tmp,        \* the register of an unprotected read-modify-write
    lost,       \* ghost: streams whose creation reference nobody was given
    gpc,        \* where the work queue thread is
    gs,         \* the stream the marker is visiting
    crashed,    \* the firmware used a null pointer and stopped
    raced       \* ghost: which of the races below have happened

registry == <<list, newer, name>>
state    == <<used, lists, frames>>
counts   == <<ref, open_ref>>
task     == <<pc, arg, own, dst, tmp, hold>>
gc       == <<gpc, gs>>
aside    == <<lost, crashed, raced>>
vars     == <<registry, state, counts, s_list, task, gc, aside>>

(* What can go wrong in a window the code leaves unprotected:               *)
(*   "torn"    a store puts a count back that somebody changed since its    *)
(*             load;                                                        *)
(*   "freed"   a stream is unlinked while a task that gave its reference up *)
(*             is still to write to it;                                     *)
(*   "early"   an open takes a stream whose creator has not issued it yet;  *)
(*   "twin"    a stream is created under a name somebody else created since *)
(*             it was looked for.                                           *)
Races == {"torn", "freed", "early", "twin"}
Race(k, happens) == raced' = IF happens THEN raced \cup {k} ELSE raced
Met(K)    == raced \cap K # {}
Corrupted == Met({"torn", "freed", "early"})

GcPcs == {"idle", "unbind", "ref", "again", "clean", "reap"}

StreamsOK ==
    /\ list \in [Streams -> {"g_s", "d_s", "heap"}]
    /\ newer \subseteq Streams \X Streams
    /\ name \in [Streams -> Names \cup {Null}]
    /\ used \in [Streams -> UsedStates]
    /\ ref \in [Streams -> Int]
    /\ open_ref \in [Streams -> Int]
    /\ s_list \in [Streams -> [Streams -> Nat]]
    /\ lists \in [Streams -> BOOLEAN]
    /\ frames \in [Streams -> BOOLEAN]
    /\ lost \subseteq Streams
TasksOK ==
    /\ pc \in [Tasks -> Pcs]
    /\ arg \in [Tasks -> Names \cup {Null}]
    /\ own \in [Tasks -> Streams \cup {Null}]
    /\ dst \in [Tasks -> Streams \cup {Null}]
    /\ tmp \in [Tasks -> Int]
(* What a task in the middle of a call works on. *)
OwnPcs == Pcs \ {"idle", "open_find", "open_create"}
DstPcs == {"bind_check", "bind_link", "bind_drop", "bind_undo", "bind_giveup", "bind_new"}
ArgPcs == Pcs \ {"idle", "close_load", "close_store", "close_mark"}
LocalsOK ==
    \A t \in Tasks : /\ pc[t] \in ArgPcs => arg[t] \in Names
                     /\ pc[t] \in OwnPcs => own[t] \in Streams
                     /\ pc[t] \in DstPcs => dst[t] \in Streams
HoldOK == hold \in [Tasks -> [Streams -> Nat]]
GcOK   == gpc \in GcPcs /\ gs \in Streams \cup {Null}
TypeOK == /\ StreamsOK /\ TasksOK /\ LocalsOK /\ HoldOK /\ GcOK
          /\ crashed \in BOOLEAN /\ raced \subseteq Races

NoNodes == [d \in Streams |-> 0]

Init ==
    /\ list = [s \in Streams |-> "heap"]
    /\ newer = {}
    /\ name = [s \in Streams |-> Null]
    /\ used = [s \in Streams |-> AVAILABLE]
    /\ ref = [s \in Streams |-> 0]
    /\ open_ref = [s \in Streams |-> 0]
    /\ s_list = [s \in Streams |-> NoNodes]
    /\ lists = [s \in Streams |-> FALSE]
    /\ frames = [s \in Streams |-> FALSE]
    /\ hold = [t \in Tasks |-> [s \in Streams |-> 0]]
    /\ pc = [t \in Tasks |-> "idle"]
    /\ arg = [t \in Tasks |-> Null]
    /\ own = [t \in Tasks |-> Null]
    /\ dst = [t \in Tasks |-> Null]
    /\ tmp = [t \in Tasks |-> 0]
    /\ lost = {}
    /\ gpc = "idle"
    /\ gs = Null
    /\ crashed = FALSE
    /\ raced = {}

-----------------------------------------------------------------------------
(* The handles on s or bindings to s in h, one by one; and the tasks that    *)
(* are at one of the pcs P with s in the local o.                            *)
Tokens(h, s)      == UNION {{x} \X (1 .. h[x][s]) : x \in DOMAIN h}
Using(at, o, P, s) == {t \in Tasks : o[t] = s /\ at[t] \in P}

(* Any task, or the work queue, may run between any two steps.              *)
At(t, p)  == pc[t] = p /\ ~crashed
GcAt(p)   == gpc = p /\ ~crashed
Go(t, p)  == pc' = [pc EXCEPT ![t] = p]
(* The call returns: its local variables are dead. *)
Return(t) ==
    /\ Go(t, "idle")
    /\ arg' = [arg EXCEPT ![t] = Null]
    /\ own' = [own EXCEPT ![t] = Null]
    /\ dst' = [dst EXCEPT ![t] = Null]
    /\ tmp' = [tmp EXCEPT ![t] = 0]

MayHold(t) == \A s \in Streams : hold[t][s] < MaxHold
Untake(t, s)  == hold' = [hold EXCEPT ![t][s] = @ - 1]                 \* mutant
Take(t, s)    == hold' = [hold EXCEPT ![t][s] = @ + 1]

(* find_stream: the first stream of g_s with this name, if its ref is not 0. *)
Named(n)   == {s \in Streams : list[s] = "g_s" /\ name[s] = n}
First(n)   == {s \in Named(n) : \A x \in Named(n) \ {s} : <<s, x>> \in newer}
FoundInUse(n) == {s \in First(n) : ref[s] # 0 /\ used[s] = ISUED}      \* mutant
Found(n)   == {s \in First(n) : ref[s] # 0}
Missing(n) == Found(n) = {}

Pin(s) ==      \* what find_stream does to the stream it returns
    /\ ref' = [ref EXCEPT ![s] = @ + 1]
    /\ open_ref' = [open_ref EXCEPT ![s] = @ + 1]

UnpinRefOnly(s)  == ref' = [ref EXCEPT ![s] = @ - 1] /\ UNCHANGED open_ref  \* mutant
UnpinOpenOnly(s) == open_ref' = [open_ref EXCEPT ![s] = @ - 1] /\ UNCHANGED ref \* mutant
Unpin(s) ==    \* what undoes it
    /\ ref' = [ref EXCEPT ![s] = @ - 1]
    /\ open_ref' = [open_ref EXCEPT ![s] = @ - 1]

(* creat_stream, when the heap still has room for s. *)
creat_stream(s, n) ==
    /\ list[s] = "heap"
    /\ Race("twin", ~Missing(n))
    /\ list' = [list EXCEPT ![s] = "g_s"]
    /\ newer' = newer \cup ({s} \X {x \in Streams : list[x] = "g_s"})
    /\ name' = [name EXCEPT ![s] = n]
    /\ used' = [used EXCEPT ![s] = AVAILABLE]
    /\ ref' = [ref EXCEPT ![s] = 1]
    /\ open_ref' = [open_ref EXCEPT ![s] = 0]
    /\ s_list' = [s_list EXCEPT ![s] = NoNodes]
    /\ lists' = [lists EXCEPT ![s] = FALSE]
    /\ frames' = [frames EXCEPT ![s] = FALSE]
    /\ lost' = lost \ {s}

-----------------------------------------------------------------------------
(* open_stream(name, ...).  The handle is the task's from the moment the    *)
(* lists are built; the bind to the debug stream follows before the call    *)
(* returns.  A failing malloc of the arrays happens before any shared state *)
(* is touched and is not a step.                                            *)
open_stream_find(t, n) ==
    /\ \/ At(t, "idle") /\ MayHold(t)
       \/ At(t, "open_find") /\ arg[t] = n     \* from open_stream_available
    /\ arg' = [arg EXCEPT ![t] = n]
    /\ \/ \E s \in Found(n) :
            /\ Pin(s)
            /\ own' = [own EXCEPT ![t] = s]
            /\ Go(t, "open_check")
       \/ /\ Missing(n)
          /\ Go(t, "open_create")
          /\ UNCHANGED <<counts, own>>
    /\ UNCHANGED <<registry, state, s_list, dst, tmp, hold, gc, aside>>

NewPcs == {"new_load", "new_store", "new_issue"}
OpenableEarly == {AVAILABLE_AGAIN, AVAILABLE, WAIT_GC_MARKER}           \* mutant
Openable      == {AVAILABLE_AGAIN, AVAILABLE}

open_stream_check(t) ==
    /\ At(t, "open_check")
    /\ LET s == own[t] IN
       \/ /\ used[s] \notin Openable
          /\ Unpin(s)
          /\ Return(t)
          /\ UNCHANGED <<used, raced>>
       \/ /\ used[s] \in Openable
          /\ used' = [used EXCEPT ![s] = ISUED]
          /\ Race("early", Using(pc, own, NewPcs, s) # {})
          /\ Go(t, "open_init")
          /\ UNCHANGED <<counts, arg, own, dst, tmp>>
    /\ UNCHANGED <<registry, lists, frames, s_list, hold, gc, lost, crashed>>

open_stream_create(t) ==
    /\ At(t, "open_create")
    /\ \/ \E s \in Streams :
            /\ creat_stream(s, arg[t])
            /\ own' = [own EXCEPT ![t] = s]
            /\ Go(t, "new_load")
            /\ UNCHANGED <<arg, dst, tmp>>
       \/ /\ \A s \in Streams : list[s] # "heap"      \* malloc returned NULL
          /\ Return(t)
          /\ UNCHANGED <<registry, state, counts, s_list, lost, raced>>
    /\ UNCHANGED <<hold, gc, crashed>>

(* s->open_ref++ and s->used = STREAM_ISUED of a stream just created, none  *)
(* of it protected although the stream is already in g_s.                   *)
open_stream_new_load(t) ==
    /\ At(t, "new_load")
    /\ tmp' = [tmp EXCEPT ![t] = open_ref[own[t]]]
    /\ Go(t, "new_store")
    /\ UNCHANGED <<registry, state, counts, s_list, arg, own, dst, hold, gc, aside>>

open_stream_new_store(t) ==
    /\ At(t, "new_store")
    /\ open_ref' = [open_ref EXCEPT ![own[t]] = tmp[t] + 1]
    /\ Race("torn", open_ref[own[t]] # tmp[t])
    /\ tmp' = [tmp EXCEPT ![t] = 0]
    /\ Go(t, "new_issue")
    /\ UNCHANGED <<registry, state, ref, s_list, arg, own, dst, hold, gc, lost, crashed>>

open_stream_new_issue(t) ==
    /\ At(t, "new_issue")
    /\ used' = [used EXCEPT ![own[t]] = ISUED]
    /\ Go(t, "open_init")
    /\ UNCHANGED <<registry, lists, frames, counts, s_list,
                   arg, own, dst, tmp, hold, gc, aside>>

open_stream_init(t) ==
    /\ At(t, "open_init")
    /\ lists' = [lists EXCEPT ![own[t]] = TRUE]
    /\ Take(t, own[t])
    /\ arg' = [arg EXCEPT ![t] = R_DEBUG_STREAM]
    /\ Go(t, "bind_find")
    /\ UNCHANGED <<registry, used, frames, counts, s_list,
                   own, dst, tmp, gc, aside>>

-----------------------------------------------------------------------------
(* get_stream_available and open_stream_available: find, look at used       *)
(* outside the lock, and give the reference back when it is not ISUED.      *)
Lookup(t, n, next) ==
    /\ At(t, "idle")
    /\ MayHold(t)
    /\ \E s \in Found(n) :
         /\ Pin(s)
         /\ own' = [own EXCEPT ![t] = s]
         /\ arg' = [arg EXCEPT ![t] = n]
         /\ Go(t, next)
    /\ UNCHANGED <<registry, state, s_list, dst, tmp, hold, gc, aside>>

(* When nothing is found, get_stream_available returns NULL and              *)
(* open_stream_available continues as open_stream does.                      *)
get_stream_find(t, n)       == Lookup(t, n, "get_check")
open_available_find(t, n)   == Lookup(t, n, "avail_check")

NotReclaimed(s) == used[s] # WAIT_GC_CLEAN                              \* mutant
InUse(s)        == used[s] = ISUED

Check(t, here, undo) ==
    /\ At(t, here)
    /\ \/ /\ InUse(own[t])
          /\ Take(t, own[t])
          /\ Return(t)
       \/ /\ ~InUse(own[t])
          /\ Go(t, undo)
          /\ UNCHANGED <<arg, own, dst, tmp, hold>>
    /\ UNCHANGED <<registry, state, counts, s_list, gc, aside>>

get_stream_check(t)     == Check(t, "get_check", "get_undo")
open_available_check(t) == Check(t, "avail_check", "avail_undo")

lookup_undo(t) ==
    /\ Unpin(own[t])
    /\ \/ At(t, "get_undo") /\ Return(t)
       \/ /\ At(t, "avail_undo")
          /\ own' = [own EXCEPT ![t] = Null]
          /\ Go(t, "open_find")
          /\ UNCHANGED <<arg, dst, tmp>>
    /\ UNCHANGED <<registry, state, s_list, hold, gc, aside>>

(* open_stream_again(s): a second reference for somebody the stream is      *)
(* handed to.  It returns 0 in both cases; only the first takes one.        *)
open_stream_again(t, s) ==
    /\ At(t, "idle")
    /\ \E u \in Tasks : hold[u][s] > 0
    /\ hold[t][s] < MaxHold
    /\ used[s] = ISUED
    /\ Pin(s)
    /\ Take(t, s)
    /\ UNCHANGED <<registry, state, s_list, pc, arg, own, dst, tmp, gc, aside>>

-----------------------------------------------------------------------------
(* streamSrc_bind_streamDest(s, name): the caller holds the source.         *)
bind_find(t, s, n) ==
    /\ \/ At(t, "idle") /\ hold[t][s] > 0
       \/ At(t, "bind_find") /\ own[t] = s /\ arg[t] = n     \* from open_stream
    /\ own' = [own EXCEPT ![t] = s]
    /\ arg' = [arg EXCEPT ![t] = n]
    /\ \/ \E d \in Found(n) :
            /\ Pin(d)
            /\ dst' = [dst EXCEPT ![t] = d]
            /\ Go(t, "bind_check")
       \/ /\ Missing(n)
          /\ Go(t, "bind_create")
          /\ UNCHANGED <<counts, dst>>
    /\ UNCHANGED <<registry, state, s_list, tmp, hold, gc, aside>>

Bound(s, d)      == s_list[s][d] > 0

(* Bound already: give the reference back.  Otherwise malloc a list node.   *)
bind_check(t) ==
    /\ At(t, "bind_check")
    /\ \/ /\ Bound(own[t], dst[t])
          /\ Unpin(dst[t])
          /\ Return(t)
       \/ /\ ~Bound(own[t], dst[t])
          /\ \E next \in {"bind_link", "bind_undo"} : Go(t, next)
          /\ UNCHANGED <<counts, arg, own, dst, tmp>>
    /\ UNCHANGED <<registry, state, s_list, hold, gc, aside>>

Link(s, d) == s_list' = [s_list EXCEPT ![s][d] = @ + 1]

bind_link(t) ==
    /\ At(t, "bind_link")
    /\ Link(own[t], dst[t])
    /\ Go(t, "bind_drop")
    /\ UNCHANGED <<registry, state, counts, arg, own, dst, tmp, hold, gc, aside>>

bind_undo(t) ==
    /\ At(t, "bind_undo")
    /\ ref' = [ref EXCEPT ![dst[t]] = @ - 1]
    /\ Go(t, "bind_giveup")
    /\ UNCHANGED <<registry, state, open_ref, s_list, arg, own, dst, tmp, hold, gc, aside>>

bind_drop(t) ==
    /\ At(t, "bind_drop") \/ At(t, "bind_giveup")
    /\ open_ref' = [open_ref EXCEPT ![dst[t]] = @ - 1]
    /\ Return(t)
    /\ UNCHANGED <<registry, state, ref, s_list, hold, gc, aside>>

(* The destination does not exist yet: an empty stream stands in for it,    *)
(* its first reference belonging to this binding.                           *)
bind_create(t) ==
    /\ At(t, "bind_create")
    /\ \/ \E d \in Streams :
            /\ creat_stream(d, arg[t])
            /\ dst' = [dst EXCEPT ![t] = d]
            /\ Go(t, "bind_new")
            /\ UNCHANGED <<arg, own, tmp>>
       \/ /\ \A d \in Streams : list[d] # "heap"
          /\ Return(t)
          /\ UNCHANGED <<registry, state, counts, s_list, lost, raced>>
    /\ UNCHANGED <<hold, gc, crashed>>

bind_new(t) ==
    /\ At(t, "bind_new")
    /\ \/ /\ Link(own[t], dst[t])
          /\ lost' = lost
       \/ /\ lost' = lost \cup {dst[t]}        \* malloc of the node failed
          /\ s_list' = s_list
    /\ Return(t)
    /\ UNCHANGED <<registry, state, counts, hold, gc, crashed, raced>>

-----------------------------------------------------------------------------
(* close_stream(s) by a task that holds s.  Only the last close tears down. *)
close_stream_drop(t, s) ==
    /\ At(t, "idle")
    /\ hold[t][s] > 0
    /\ hold' = [hold EXCEPT ![t][s] = @ - 1]
    /\ \/ /\ open_ref[s] # 1
          /\ Unpin(s)
          /\ UNCHANGED <<used, pc, own>>
       \/ /\ open_ref[s] = 1
          /\ open_ref' = [open_ref EXCEPT ![s] = 0]
          /\ used' = [used EXCEPT ![s] = UNAVAILABLE]
          /\ own' = [own EXCEPT ![t] = s]
          /\ Go(t, "close_load")
          /\ UNCHANGED ref
    /\ UNCHANGED <<registry, lists, frames, s_list, arg, dst, tmp, gc, aside>>

(* After the received frames are given back: s->ref--, unprotected.         *)
close_stream_load(t) ==
    /\ At(t, "close_load")
    /\ tmp' = [tmp EXCEPT ![t] = ref[own[t]]]
    /\ Go(t, "close_store")
    /\ UNCHANGED <<registry, state, counts, s_list, arg, own, dst, hold, gc, aside>>

close_stream_store(t) ==
    /\ At(t, "close_store")
    /\ ref' = [ref EXCEPT ![own[t]] = tmp[t] - 1]
    /\ Race("torn", ref[own[t]] # tmp[t])
    /\ tmp' = [tmp EXCEPT ![t] = 0]
    /\ Go(t, "close_mark")
    /\ UNCHANGED <<registry, state, open_ref, s_list, arg, own, dst, hold, gc, lost, crashed>>

close_stream_mark(t) ==
    /\ At(t, "close_mark")
    /\ used' = [used EXCEPT ![own[t]] = WAIT_GC_MARKER]
    /\ Return(t)
    /\ UNCHANGED <<registry, lists, frames, counts, s_list, hold, gc, aside>>

(* The frames of an open stream, seen from here: its holder sends one, and  *)
(* the last reference to the last one is dropped at any later time.         *)
send_frame(t, s) ==
    /\ At(t, "idle")
    /\ hold[t][s] > 0
    /\ lists[s] /\ ~frames[s]
    /\ frames' = [frames EXCEPT ![s] = TRUE]
    /\ UNCHANGED <<registry, used, lists, counts, s_list, task, gc, aside>>

free_frame(s) ==
    /\ ~crashed
    /\ frames[s]
    /\ frames' = [frames EXCEPT ![s] = FALSE]
    /\ UNCHANGED <<registry, used, lists, counts, s_list, task, gc, aside>>

-----------------------------------------------------------------------------
(* stream_gc_marker_timer, one visit of a stream that is to be reclaimed:   *)
(* its bindings are undone one by one, then, unless frames of it are still  *)
(* out, its arrays are freed and it becomes reusable or condemned.          *)
MarkedOnly(s)       == used[s] = WAIT_GC_MARKER                         \* mutant
UnreferencedOnly(s) == ref[s] = 0                                       \* mutant
Reclaimable(s)      == used[s] = WAIT_GC_MARKER \/ ref[s] = 0

mark_visit(s) ==
    /\ GcAt("idle")
    /\ list[s] = "g_s"
    /\ used[s] # WAIT_GC_CLEAN
    /\ Reclaimable(s)
    /\ gs' = s
    /\ gpc' = "unbind"
    /\ UNCHANGED <<registry, state, counts, s_list, task, aside>>

mark_unbind ==
    /\ GcAt("unbind")
    /\ \E d \in Streams :
         /\ s_list[gs][d] > 0
         /\ s_list' = [s_list EXCEPT ![gs][d] = @ - 1]
         /\ ref' = [ref EXCEPT ![d] = @ - 1]
    /\ UNCHANGED <<registry, state, open_ref, gc, task, aside>>

mark_lists ==
    /\ GcAt("unbind")
    /\ s_list[gs] = NoNodes
    /\ \/ /\ frames[gs]
          /\ gpc' = "idle" /\ gs' = Null
          /\ UNCHANGED lists
       \/ /\ ~frames[gs]
          /\ lists' = [lists EXCEPT ![gs] = FALSE]
          /\ gpc' = "ref"
          /\ UNCHANGED gs
    /\ UNCHANGED <<registry, used, frames, counts, s_list, task, aside>>

mark_ref ==
    /\ GcAt("ref")
    /\ \/ /\ ref[gs] = 0
          /\ used' = [used EXCEPT ![gs] = WAIT_GC_CLEAN]
          /\ gpc' = "clean"
       \/ /\ ref[gs] # 0
          /\ gpc' = "again"
          /\ UNCHANGED used
    /\ UNCHANGED <<registry, lists, frames, counts, s_list, gs, task, aside>>

mark_again ==
    /\ GcAt("again")
    /\ used' = [used EXCEPT ![gs] = AVAILABLE_AGAIN]
    /\ gpc' = "idle" /\ gs' = Null
    /\ UNCHANGED <<registry, lists, frames, counts, s_list, task, aside>>

mark_clean ==
    /\ GcAt("clean")
    /\ name' = [name EXCEPT ![gs] = Null]
    /\ used' = [used EXCEPT ![gs] = WAIT_GC_CLEAN]
    /\ gpc' = "idle" /\ gs' = Null
    /\ UNCHANGED <<list, newer, lists, frames, counts, s_list, task, aside>>

(* stream_gc_clean_timer: one locked section unlinks every condemned        *)
(* stream, then each of them is freed.                                      *)
clean_unlink ==
    LET condemned == {s \in Streams : list[s] = "g_s" /\ used[s] = WAIT_GC_CLEAN}
    IN  /\ GcAt("idle")
        /\ condemned # {}
        /\ list' = [s \in Streams |-> IF s \in condemned THEN "d_s" ELSE list[s]]
        /\ newer' = {p \in newer : p[1] \notin condemned /\ p[2] \notin condemned}
        /\ gpc' = "reap"
        /\ Race("freed", \E s \in condemned :
                 Using(pc, own, {"close_mark"}, s) \cup Using(pc, dst, {"bind_giveup"}, s) # {})
        /\ UNCHANGED <<name, state, counts, s_list, gs, task, lost, crashed>>

clean_free(s) ==
    /\ GcAt("reap")
    /\ list[s] = "d_s"
    /\ list' = [list EXCEPT ![s] = "heap"]
    /\ used' = [used EXCEPT ![s] = AVAILABLE]    \* memory of no meaning now
    /\ gpc' = IF \E x \in Streams \ {s} : list[x] = "d_s" THEN "reap" ELSE "idle"
    /\ UNCHANGED <<newer, name, lists, frames, counts, s_list, gs, task, aside>>

-----------------------------------------------------------------------------
(* What a task does on its own once it is inside a call ...                 *)
Inside(t) ==
    \/ /\ pc[t] # "idle"
       /\ \E n \in Names : \/ open_stream_find(t, n)
                           \/ \E s \in Streams : bind_find(t, s, n)
    \/ open_stream_check(t) \/ open_stream_create(t)
    \/ open_stream_new_load(t) \/ open_stream_new_store(t)
    \/ open_stream_new_issue(t) \/ open_stream_init(t)
    \/ get_stream_check(t) \/ open_available_check(t) \/ lookup_undo(t)
    \/ bind_check(t) \/ bind_link(t) \/ bind_undo(t) \/ bind_drop(t)
    \/ bind_create(t) \/ bind_new(t)
    \/ close_stream_load(t) \/ close_stream_store(t) \/ close_stream_mark(t)

(* ... and the calls it may choose to make.  Bound: none is made any more    *)
(* once a count is torn or a freed stream is to be written to, for a torn    *)
(* count can drift without end; what is under way then goes on.              *)
Call(t) ==
    /\ ~Corrupted
    /\ \/ \E n \in Names : \/ pc[t] = "idle" /\ open_stream_find(t, n)
                           \/ get_stream_find(t, n)
                           \/ open_available_find(t, n)
       \/ \E s \in Streams :
            \/ open_stream_again(t, s)
            \/ close_stream_drop(t, s)
            \/ t \in Producers /\ send_frame(t, s)
            \/ \E n \in Dests : pc[t] = "idle" /\ bind_find(t, s, n)

(* find_stream compares the names of all streams it passes, also of those    *)
(* whose name the marker set to NULL: it reads address 0, which matches no   *)
(* name or stops the firmware.  open_stream builds its lists in the stream   *)
(* it has not got when creat_stream returned NULL, unless it asked for none. *)
Looking(t, n) == \/ pc[t] = "idle"
                 \/ pc[t] \in {"open_find", "bind_find"} /\ arg[t] = n
Passed(n, s)  == list[s] = "g_s" /\ \A x \in First(n) : <<s, x>> \in newer

crash(t) ==
    /\ ~crashed
    /\ \/ \E n \in Names, s \in Streams : Looking(t, n) /\ Passed(n, s) /\ name[s] = Null
       \/ pc[t] = "open_create" /\ \A s \in Streams : list[s] # "heap"
    /\ crashed' = TRUE
    /\ UNCHANGED <<registry, state, counts, s_list, task, gc, lost, raced>>

GcStep ==
    \/ \E s \in Streams : mark_visit(s)
    \/ mark_unbind \/ mark_lists \/ mark_ref \/ mark_again \/ mark_clean
    \/ clean_unlink
    \/ \E s \in Streams : clean_free(s)

Next ==
    \/ \E t \in Tasks : Inside(t) \/ Call(t) \/ crash(t)
    \/ \E s \in Streams : free_frame(s)
    \/ GcStep

Spec == Init /\ [][Next]_vars

(* Every task inside a call gets the processor again, consumers return the  *)
(* frames they were sent, and the work queue reschedules both works every   *)
(* 5 ms, each marker pass visiting every stream of g_s: strong fairness     *)
(* where other visits come between.                                         *)
Fairness ==
    /\ \A t \in Tasks : WF_vars(Inside(t))
    /\ \A s \in Streams : SF_vars(free_frame(s)) /\ SF_vars(mark_visit(s))
    /\ SF_vars(clean_unlink)
    /\ SF_vars(gpc # "idle" /\ GcStep)

FairSpec == Spec /\ Fairness

-----------------------------------------------------------------------------
(* Who is entitled to what: the references to s and the opens of s, counted *)
(* one by one instead of in ref and open_ref.                               *)
OwnPins == {"open_check", "open_init", "new_issue",
            "get_check", "get_undo", "avail_check", "avail_undo"}
DstPins == {"bind_check", "bind_link", "bind_undo"}
OwnRefPcs  == OwnPins \cup {"new_load", "new_store", "close_load", "close_store"}
DstRefPcs  == DstPins \cup {"bind_new"}
DstOpenPcs == DstPins \cup {"bind_drop", "bind_giveup"}

Refs(s) ==
    Cardinality(Tokens(hold, s)) + Cardinality(Tokens(s_list, s))
      + Cardinality(Using(pc, own, OwnRefPcs, s))
      + Cardinality(Using(pc, dst, DstRefPcs, s))
      + Cardinality(lost \cap {s})
Opens(s) ==
    Cardinality(Tokens(hold, s))
      + Cardinality(Using(pc, own, OwnPins, s))
      + Cardinality(Using(pc, dst, DstOpenPcs, s))

(* ref counts exactly the references there are to a stream: one for every   *)
(* handle, every binding, every call between find_stream and what undoes it, *)
(* and the creation reference of a placeholder.  Nothing else tells the      *)
(* marker when a stream may be freed.  Only a store over a count somebody    *)
(* changed since its load, or a write to a freed stream, breaks it.          *)
RefExact     == Corrupted \/ \A s \in Streams : ref[s] = Refs(s)

(* open_ref counts exactly the opens: handles, and finds under way; the same *)
(* two break it.                                                             *)
OpenRefExact == Corrupted \/ \A s \in Streams : open_ref[s] = Opens(s)

(* Whoever holds, is bound to or is looking at a stream finds it in g_s: the *)
(* cleaner unlinks and frees only what nobody can reach any more, unless a   *)
(* count was torn or a task writes after it gave up its reference.           *)
NoDanglingReference ==
    Corrupted \/ \A s \in Streams : list[s] # "g_s" => Refs(s) = 0

(* open_stream never builds its lists over those of an earlier life whose    *)
(* arrays are still allocated or whose frames are still out; only an open    *)
(* that takes a stream from under its creator does, and torn counts.         *)
NoListsBuiltTwice ==
    \/ Corrupted
    \/ \A t \in Tasks : pc[t] = "open_init" => ~lists[own[t]] /\ ~frames[own[t]]

(* A handle is to a stream with its lists, or to one whose opener is about   *)
(* to build them: used is ISUED already and a lookup hands it out.  None is  *)
(* handed out while the marker takes it apart.                               *)
HandlesAreBuilt ==
    \/ Corrupted
    \/ \A t \in Tasks, s \in Streams :
          hold[t][s] > 0 => lists[s] \/ Using(pc, own, {"open_init"}, s) # {}

(* The comment on open_ref in stream_frame.h: every open raises it, every    *)
(* close lowers it, and at 0 the stream is really closed.  A stream at 0 is   *)
(* not open, then.                                                           *)
ClosedAtZero ==
    \A s \in Streams : list[s] = "g_s" /\ used[s] = ISUED => open_ref[s] # 0

(* Two streams that can be found do not have the same name, unless two tasks *)
(* looked for it before either created it.                                   *)
OneLiveStreamPerName ==
    \/ Corrupted \/ Met({"twin"})
    \/ \A a, b \in Streams :
          /\ a # b /\ list[a] = "g_s" /\ list[b] = "g_s"
          /\ ref[a] # 0 /\ ref[b] # 0
          => name[a] # name[b]

(* A closed stream can be opened again, or is gone, in the end.              *)
ClosedIsReclaimed ==
    \A s \in Streams :
        (list[s] = "g_s" /\ used[s] \in {UNAVAILABLE, WAIT_GC_MARKER})
          ~> (list[s] = "heap" \/ used[s] = AVAILABLE_AGAIN \/ crashed)

(* A stream without references is freed in the end.                          *)
UnreferencedIsFreed ==
    \A s \in Streams : (list[s] = "g_s" /\ ref[s] = 0) ~> (list[s] = "heap" \/ crashed)
=============================================================================
