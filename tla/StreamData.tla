----------------------------- MODULE StreamData -----------------------------
(***************************************************************************)
(* What travels through open streams: the data path of                     *)
(* sdk/app/algorithm/stream_frame.  A source takes a free frame of its own, *)
(* fills it and sends it to the streams it is bound to; each of them gets a *)
(* list node that points to the frame, and a reference count on the frame   *)
(* says when it goes back to the free list of its source.                   *)
(*                                                                         *)
(* One task works on each stream, as in every user of the layer: it is the *)
(* only one that sends frames of that stream, receives from it and closes  *)
(* it, so a task is named by its stream.  The frames it received it may    *)
(* keep and give back later.  Bindings, names and the count of opens are   *)
(* the subject of StreamLifecycle; here a stream is opened and closed      *)
(* once in each of its lives.                                               *)
(*                                                                         *)
(* A section between disable_irq and enable_irq is one step.               *)
(***************************************************************************)
EXTENDS Naturals, Integers, Sequences, FiniteSets

CONSTANTS
    Streams,    \* streams, and the tasks that work on them
    Frames,     \* struct data_structure, all streams together
    Nodes,      \* struct data_list, all streams together
    src,        \* src[f]: the stream frame f belongs to (data->s)
    dest,       \* dest[n]: the stream node n belongs to
    s_list,     \* s_list[s]: the streams s is bound to
    Closers,    \* the streams that are closed and opened again at run time
    Switched,   \* the streams that are disabled and enabled at run time
    Holders,    \* the tasks that call hold_data
    Null        \* no frame, no node, no stream

Pcs == { "idle", "send", "send_pop", "send_load", "send_store", "send_append",
         "recv", "recv_free", "drain", "drain_head", "drain_node",
         "drain_end", "recycle", "free_end" }

(* The values of stream_s.used that matter here. *)
ISUED           == "STREAM_ISUED"
UNAVAILABLE     == "STREAM_UNAVAILABLE"
WAIT_GC_MARKER  == "STREAM_WAIT_GC_MARKER"
AVAILABLE_AGAIN == "STREAM_AVAILABLE_AGAIN"
UsedStates == {ISUED, UNAVAILABLE, WAIT_GC_MARKER, AVAILABLE_AGAIN}

ASSUME SizeAssumption    == IsFiniteSet(Streams) /\ IsFiniteSet(Nodes)
ASSUME NullAssumption    == Null \notin Streams /\ Null \notin Frames /\ Null \notin Nodes
ASSUME OwnersAssumption  == /\ src \in [Frames -> Streams]
                            /\ dest \in [Nodes -> Streams]
                            /\ s_list \in [Streams -> SUBSET Streams]
                            /\ Closers \subseteq Streams /\ Holders \subseteq Streams
                            /\ Switched \subseteq Streams

VARIABLES
    used, enable,           \* stream_s.used, stream_s.enable
    src_d_list_f,           \* the frames in the src_d_list_f of their stream
    src_d_list_u,           \* the frames in the src_d_list_u of their stream
    d_list_f,               \* the nodes in the d_list_f of their stream
    d_list_u,               \* d_list_u[s]: the queue of received nodes of s
    ref,                    \* data_structure.ref
    data,                   \* data_list.data
    filling,                \* frames taken by get_src_data_f and not yet sent
    got,                    \* got[s]: frames recv_real_data gave the task of s
    held,                   \* held[s]: frames the task of s called hold_data on
    pc,                     \* where the task of s is
    cont,                   \* where it goes on after default_free_data_func
    frm, node, to,          \* the frame, node and destination it works on
    todo,                   \* the rest of the s_list it is sending to
    tmp,                    \* what an unprotected section read before it writes
    raced                   \* ghost: which of the races below have happened

lists  == <<src_d_list_f, src_d_list_u, d_list_f, d_list_u>>
state  == <<used, enable>>
count  == <<ref, data>>
keeps  == <<filling, got, held>>
locals == <<frm, node, to, todo, tmp>>
vars   == <<lists, state, count, keeps, pc, cont, locals, raced>>

(* What can go wrong in a window the code leaves unprotected:               *)
(*   "torn"    a store puts a count back that somebody changed since its    *)
(*             load;                                                        *)
(*   "reused"  a filtered frame is looked up in a node that somebody took   *)
(*             since it went back;                                          *)
(*   "cut"     a node is appended to a queue while its head is unlinked;    *)
(*   "freed"   the arrays of a stream are freed while a sender, who found   *)
(*             it open, has a node of it or has appended one since it was   *)
(*             drained.                                                     *)
Races == {"torn", "reused", "cut", "freed"}
Race(k, happens) == raced' = IF happens THEN raced \cup {k} ELSE raced

FramesOf(s) == {f \in Frames : src[f] = s}
NodesOf(s)  == {n \in Nodes : dest[n] = s}
InQueue(s)  == {d_list_u[s][i] : i \in 1 .. Len(d_list_u[s])}

TypeOK ==
    /\ used \in [Streams -> UsedStates]
    /\ enable \in [Streams -> BOOLEAN]
    /\ src_d_list_f \subseteq Frames
    /\ src_d_list_u \subseteq Frames
    /\ d_list_f \subseteq Nodes
    /\ d_list_u \in [Streams -> Seq(Nodes)]
    /\ ref \in [Frames -> Int]
    /\ data \in [Nodes -> Frames \cup {Null}]
    /\ filling \subseteq Frames
    /\ got \in [Streams -> SUBSET (Frames \cup {Null})]
    /\ held \in [Streams -> SUBSET Frames]
    /\ pc \in [Streams -> Pcs]
    /\ cont \in [Streams -> {"idle", "drain_node"}]
    /\ raced \subseteq Races
    /\ frm \in [Streams -> Frames \cup {Null}]
    /\ node \in [Streams -> Nodes \cup {Null}]
    /\ to \in [Streams -> Streams \cup {Null}]
    /\ todo \in [Streams -> SUBSET Streams]
    /\ tmp \in [Streams -> Int]

(* Every stream is open and enabled, and nothing was sent yet. *)
Init ==
    /\ used = [s \in Streams |-> ISUED]
    /\ enable = [s \in Streams |-> TRUE]
    /\ src_d_list_f = Frames
    /\ src_d_list_u = {}
    /\ d_list_f = Nodes
    /\ d_list_u = [s \in Streams |-> <<>>]
    /\ ref = [f \in Frames |-> 0]
    /\ data = [n \in Nodes |-> Null]
    /\ filling = {}
    /\ got = [s \in Streams |-> {}]
    /\ held = [s \in Streams |-> {}]
    /\ pc = [s \in Streams |-> "idle"]
    /\ cont = [s \in Streams |-> "idle"]
    /\ frm = [s \in Streams |-> Null]
    /\ node = [s \in Streams |-> Null]
    /\ to = [s \in Streams |-> Null]
    /\ todo = [s \in Streams |-> {}]
    /\ tmp = [s \in Streams |-> 0]
    /\ raced = {}

-----------------------------------------------------------------------------
At(s, p)  == pc[s] = p
Go(s, p)  == pc' = [pc EXCEPT ![s] = p]

(* default_free_data_func: the last reference takes the frame back to its   *)
(* source, in a locked section of its own.  The task then goes on at next.  *)
LastLate(f)   == ref[f] = 0                                            \* mutant
NextToLast(f) == ref[f] <= 2                                           \* mutant
Last(f)       == ref[f] = 1
Drop(s, f, next) ==
    /\ ref' = [ref EXCEPT ![f] = @ - 1]
    /\ \/ /\ Last(f)
          /\ Go(s, "recycle")
          /\ frm' = [frm EXCEPT ![s] = f]
          /\ cont' = [cont EXCEPT ![s] = next]
       \/ /\ ~Last(f)
          /\ Go(s, next)
          /\ frm' = [frm EXCEPT ![s] = Null]
          /\ UNCHANGED cont
(* free_data: nothing happens to a node that points to no frame. *)
Free(s, f, next) ==
    \/ f # Null /\ Drop(s, f, next)
    \/ /\ f = Null
       /\ Go(s, next)
       /\ frm' = [frm EXCEPT ![s] = Null]
       /\ UNCHANGED <<ref, cont>>

Restore(f) ==
    /\ src_d_list_u' = src_d_list_u \ {f}
    /\ src_d_list_f' = src_d_list_f \cup {f}

recycle(s) ==
    /\ At(s, "recycle")
    /\ Restore(frm[s])
    /\ Go(s, "free_end")
    /\ UNCHANGED <<d_list_f, d_list_u, state, count, keeps, cont, locals, raced>>

(* STREAM_DATA_FREE_END: the source is told which frame it got back, when   *)
(* it may have taken it again.  What a source makes of it is not in here.   *)
free_end(s) ==
    /\ At(s, "free_end")
    /\ Go(s, cont[s])
    /\ frm' = [frm EXCEPT ![s] = Null]
    /\ cont' = [cont EXCEPT ![s] = "idle"]
    /\ UNCHANGED <<lists, state, count, keeps, node, to, todo, tmp, raced>>

-----------------------------------------------------------------------------
get_src_data_f(s, f) ==
    /\ At(s, "idle")
    /\ used[s] = ISUED
    /\ src[f] = s /\ f \in src_d_list_f
    /\ src_d_list_f' = src_d_list_f \ {f}
    /\ filling' = filling \cup {f}
    /\ UNCHANGED <<src_d_list_u, d_list_f, d_list_u, state, count, got, held,
                   pc, cont, locals, raced>>

(* hold_data on a frame the task has: one it fills, or one it received.     *)
(* Bound: once for each frame and task.                                     *)
hold_data(s, f) ==
    /\ At(s, "idle")
    /\ s \in Holders
    /\ f \in got[s] \/ (f \in filling /\ src[f] = s)
    /\ f \notin held[s]
    /\ ref' = [ref EXCEPT ![f] = @ + 1]
    /\ held' = [held EXCEPT ![s] = @ \cup {f}]
    /\ UNCHANGED <<lists, state, data, filling, got, pc, cont, locals, raced>>

(* The frame enters src_d_list_u with a reference of the sending call.      *)
Issue(s, f, dests) ==
    /\ At(s, "idle")
    /\ src[f] = s /\ f \in filling
    /\ filling' = filling \ {f}
    /\ ref' = [ref EXCEPT ![f] = @ + 1]
    /\ src_d_list_u' = src_d_list_u \cup {f}
    /\ frm' = [frm EXCEPT ![s] = f]
    /\ todo' = [todo EXCEPT ![s] = dests]
    /\ Go(s, "send")
    /\ UNCHANGED <<src_d_list_f, d_list_f, d_list_u, state, data, got, held,
                   cont, node, to, tmp, raced>>

send_data_to_stream(s, f) == Issue(s, f, s_list[s])
force_del_data(s, f)      == Issue(s, f, {})

Receives(d) == enable[d] /\ used[d] = ISUED

(* One turn of the loop over s_list: a destination that takes no frames, or *)
(* whose STREAM_FILTER_DATA refuses this one, is skipped.                   *)
send_each(s) ==
    /\ At(s, "send")
    /\ \E d \in todo[s] :
         /\ todo' = [todo EXCEPT ![s] = @ \ {d}]
         /\ \/ UNCHANGED <<pc, to>>
            \/ /\ Receives(d)
               /\ to' = [to EXCEPT ![s] = d]
               /\ Go(s, "send_pop")
    /\ UNCHANGED <<lists, state, count, keeps, cont, frm, node, tmp, raced>>

send_pop(s) ==
    /\ At(s, "send_pop")
    /\ \/ \E n \in d_list_f \cap NodesOf(to[s]) :
            /\ d_list_f' = d_list_f \ {n}
            /\ node' = [node EXCEPT ![s] = n]
            /\ Go(s, "send_load")
            /\ UNCHANGED to
       \/ /\ d_list_f \cap NodesOf(to[s]) = {}      \* no room over there
          /\ to' = [to EXCEPT ![s] = Null]
          /\ Go(s, "send")
          /\ UNCHANGED <<d_list_f, node>>
    /\ UNCHANGED <<src_d_list_f, src_d_list_u, d_list_u, state, count, keeps,
                   cont, frm, todo, tmp, raced>>

(* data->ref++, unprotected, and d_list->data = data. *)
send_load(s) ==
    /\ At(s, "send_load")
    /\ tmp' = [tmp EXCEPT ![s] = ref[frm[s]]]
    /\ Go(s, "send_store")
    /\ UNCHANGED <<lists, state, count, keeps, cont, frm, node, to, todo, raced>>

Uncounted(s)  == UNCHANGED ref                                          \* mutant
Counted(s)    == ref' = [ref EXCEPT ![frm[s]] = tmp[s] + 1]
Point(s)      == data' = [data EXCEPT ![node[s]] = frm[s]]

send_store(s) ==
    /\ At(s, "send_store")
    /\ Counted(s)
    /\ Race("torn", ref[frm[s]] # tmp[s])
    /\ Point(s)
    /\ tmp' = [tmp EXCEPT ![s] = 0]
    /\ Go(s, "send_append")
    /\ UNCHANGED <<lists, state, keeps, cont, frm, node, to, todo>>

send_append(s) ==
    /\ At(s, "send_append")
    /\ d_list_u' = [d_list_u EXCEPT ![to[s]] = Append(@, node[s])]
    /\ node' = [node EXCEPT ![s] = Null]
    /\ to' = [to EXCEPT ![s] = Null]
    /\ Go(s, "send")
    /\ UNCHANGED <<src_d_list_f, src_d_list_u, d_list_f, state, count, keeps,
                   cont, frm, todo, tmp, raced>>

send_finish(s) ==
    /\ At(s, "send")
    /\ todo[s] = {}
    /\ Drop(s, frm[s], "idle")
    /\ UNCHANGED <<lists, state, data, keeps, node, to, todo, tmp, raced>>

-----------------------------------------------------------------------------
Dequeue(s) ==
    /\ d_list_u[s] # <<>>
    /\ d_list_u' = [d_list_u EXCEPT ![s] = Tail(@)]
    /\ node' = [node EXCEPT ![s] = Head(d_list_u[s])]

recv_real_data(s) ==
    /\ At(s, "idle")
    /\ used[s] = ISUED
    /\ Dequeue(s)
    /\ Go(s, "recv")
    /\ UNCHANGED <<src_d_list_f, src_d_list_u, d_list_f, state, count, keeps,
                   cont, frm, to, todo, tmp, raced>>

NodeKept(s)   == UNCHANGED d_list_f                                     \* mutant
NodeBack(s)   == d_list_f' = d_list_f \cup {node[s]}

(* STREAM_RECV_FILTER_DATA lets the frame through ... *)
recv_keep(s) ==
    /\ At(s, "recv")
    /\ got' = [got EXCEPT ![s] = @ \cup {data[node[s]]}]
    /\ NodeBack(s)
    /\ node' = [node EXCEPT ![s] = Null]
    /\ Go(s, "idle")
    /\ UNCHANGED <<src_d_list_f, src_d_list_u, d_list_u, state, count, filling,
                   held, cont, frm, to, todo, tmp, raced>>

(* ... or refuses it (frm keeps which one): the node goes back first, and   *)
(* only then the frame is looked up in it and freed.  The loop then looks   *)
(* at the next node, as the next call does here.                            *)
recv_filter(s) ==
    /\ At(s, "recv")
    /\ frm' = [frm EXCEPT ![s] = data[node[s]]]
    /\ NodeBack(s)
    /\ Go(s, "recv_free")
    /\ UNCHANGED <<src_d_list_f, src_d_list_u, d_list_u, state, count, keeps,
                   cont, node, to, todo, tmp, raced>>

recv_free(s) ==
    /\ At(s, "recv_free")
    /\ Free(s, data[node[s]], "idle")
    /\ Race("reused", data[node[s]] # frm[s])
    /\ node' = [node EXCEPT ![s] = Null]
    /\ UNCHANGED <<lists, state, data, keeps, to, todo, tmp>>

(* free_data of a frame received, and of one held that is not being filled. *)
free_got(s, f) ==
    /\ At(s, "idle")
    /\ f \in got[s]
    /\ got' = [got EXCEPT ![s] = @ \ {f}]
    /\ Drop(s, f, "idle")
    /\ UNCHANGED <<lists, state, data, filling, held, node, to, todo, tmp, raced>>

free_held(s, f) ==
    /\ At(s, "idle")
    /\ f \in held[s] \ filling
    /\ held' = [held EXCEPT ![s] = @ \ {f}]
    /\ Drop(s, f, "idle")
    /\ UNCHANGED <<lists, state, data, filling, got, node, to, todo, tmp, raced>>

-----------------------------------------------------------------------------
enable_stream(s) ==
    /\ At(s, "idle")
    /\ s \in Switched
    /\ used[s] = ISUED
    /\ enable' = [enable EXCEPT ![s] = ~@]
    /\ UNCHANGED <<lists, used, count, keeps, pc, cont, locals, raced>>

(* close_stream.  The task has sent or deleted every frame it was filling.  *)
close_stream(s) ==
    /\ At(s, "idle")
    /\ s \in Closers
    /\ used[s] = ISUED
    /\ filling \cap FramesOf(s) = {}
    /\ enable' = [enable EXCEPT ![s] = FALSE]
    /\ used' = [used EXCEPT ![s] = UNAVAILABLE]
    /\ Go(s, "drain")
    /\ UNCHANGED <<lists, count, keeps, cont, locals, raced>>

(* One turn of the loop over d_list_u, which is not locked: it looks        *)
(* whether there is a second node, and then moves the head of the list.     *)
(* What a sender appended in between may be cut off, and what one appends   *)
(* behind the last node is not looked at any more.                          *)
close_head(s) ==
    /\ At(s, "drain")
    /\ d_list_u[s] # <<>>
    /\ tmp' = [tmp EXCEPT ![s] = Len(d_list_u[s])]
    /\ Go(s, "drain_head")
    /\ UNCHANGED <<lists, state, count, keeps, cont, frm, node, to, todo, raced>>

close_drain(s) ==
    LET grown == Len(d_list_u[s]) # tmp[s]
    IN  /\ At(s, "drain_head")
        /\ node' = [node EXCEPT ![s] = Head(d_list_u[s])]
        /\ \/ d_list_u' = [d_list_u EXCEPT ![s] = Tail(@)]
           \/ grown /\ d_list_u' = [d_list_u EXCEPT ![s] = SubSeq(@, 2, tmp[s])]
        /\ Race("cut", grown)
        /\ Free(s, data[Head(d_list_u[s])], "drain_node")
        /\ UNCHANGED <<src_d_list_f, src_d_list_u, d_list_f, state, data, keeps, to, todo, tmp>>

close_drain_node(s) ==
    /\ At(s, "drain_node")
    /\ NodeBack(s)
    /\ node' = [node EXCEPT ![s] = Null]
    /\ Go(s, IF tmp[s] = 1 THEN "drain_end" ELSE "drain")
    /\ tmp' = [tmp EXCEPT ![s] = 0]
    /\ UNCHANGED <<src_d_list_f, src_d_list_u, d_list_u, state, count, keeps,
                   cont, frm, to, todo, raced>>

close_end(s) ==
    /\ At(s, "drain_end") \/ (At(s, "drain") /\ d_list_u[s] = <<>>)
    /\ used' = [used EXCEPT ![s] = WAIT_GC_MARKER]
    /\ Go(s, "idle")
    /\ UNCHANGED <<lists, enable, count, keeps, cont, locals, raced>>

(* stream_gc_marker_timer frees the arrays of a closed stream whose frames  *)
(* all came back, with whatever its lists contain.                          *)
StillUsedNever(s) == FALSE                                              \* mutant
SomeFree(s)       == src_d_list_f \cap FramesOf(s) # {}                \* mutant
StillUsed(s)      == src_d_list_u \cap FramesOf(s) # {}

SendNode == {"send_load", "send_store", "send_append"}

mark(s) ==
    /\ used[s] = WAIT_GC_MARKER
    /\ ~StillUsed(s)
    /\ Race("freed", \/ d_list_u[s] # <<>>
                     \/ \E x \in Streams : pc[x] \in SendNode /\ to[x] = s)
    /\ used' = [used EXCEPT ![s] = AVAILABLE_AGAIN]
    /\ src_d_list_f' = src_d_list_f \ FramesOf(s)
    /\ src_d_list_u' = src_d_list_u \ FramesOf(s)
    /\ d_list_f' = d_list_f \ NodesOf(s)
    /\ d_list_u' = [d_list_u EXCEPT ![s] = <<>>]
    /\ UNCHANGED <<enable, count, keeps, pc, cont, locals>>

(* open_stream: fresh arrays, all in the free lists. *)
open_stream(s) ==
    /\ At(s, "idle")
    /\ used[s] = AVAILABLE_AGAIN
    /\ used' = [used EXCEPT ![s] = ISUED]
    /\ src_d_list_f' = src_d_list_f \cup FramesOf(s)
    /\ d_list_f' = d_list_f \cup NodesOf(s)
    /\ ref' = [f \in Frames |-> IF src[f] = s THEN 0 ELSE ref[f]]
    /\ data' = [n \in Nodes |-> IF dest[n] = s THEN Null ELSE data[n]]
    /\ UNCHANGED <<src_d_list_u, d_list_u, enable, keeps, pc, cont, locals, raced>>

-----------------------------------------------------------------------------
Inside(s) ==
    \/ send_each(s) \/ send_pop(s) \/ send_load(s) \/ send_store(s)
    \/ send_append(s) \/ send_finish(s)
    \/ recv_keep(s) \/ recv_filter(s) \/ recv_free(s)
    \/ close_head(s) \/ close_drain(s) \/ close_drain_node(s) \/ close_end(s)
    \/ recycle(s) \/ free_end(s)

Giveback(s) == recv_real_data(s) \/ \E f \in Frames : free_got(s, f) \/ free_held(s, f)

Call(s) ==
    \/ Giveback(s) \/ enable_stream(s) \/ close_stream(s) \/ open_stream(s)
    \/ \E f \in Frames :
         \/ get_src_data_f(s, f) \/ hold_data(s, f)
         \/ send_data_to_stream(s, f) \/ force_del_data(s, f)

Next == \E s \in Streams : Inside(s) \/ Call(s) \/ mark(s)

Spec == Init /\ [][Next]_vars

(* Tasks inside a call go on; a task that filled a frame sends or deletes   *)
(* it, and the loop of a consumer receives what is queued and gives back    *)
(* what it has; the marker runs every 5 ms.  Strong fairness: each of these *)
(* can be held up now and again by another task, but not for good.          *)
Fairness ==
    /\ \A s \in Streams : SF_vars(Inside(s))
    /\ \A s \in Streams : NodesOf(s) # {} => SF_vars(recv_real_data(s))
    /\ \A f \in Frames : SF_vars(\E s \in Streams : free_got(s, f))
    /\ \A s \in Holders, f \in Frames : SF_vars(free_held(s, f))
    /\ \A s \in Closers : SF_vars(mark(s))

FairSpec == Spec /\ Fairness

-----------------------------------------------------------------------------
SendPcs  == {"send", "send_pop", "send_load", "send_store", "send_append"}
NodePcs  == {"send_load", "send_store", "send_append", "recv", "drain_node"}

(* The nodes that hand over a frame: queued, or on the way in or out.       *)
Carrying == (UNION {InQueue(s) : s \in Streams})
              \cup {node[s] : s \in {x \in Streams : pc[x] \in {"send_append", "recv"}}}

(* The references to f one by one: the sending call (or the filtering one), *)
(* the nodes, the frames received and the frames held.                      *)
Refs(f) ==
    ({"task"} \X {s \in Streams : frm[s] = f /\ pc[s] \in SendPcs \cup {"recv_free"}})
      \cup ({"node"} \X {n \in Carrying : data[n] = f})
      \cup ({"got"} \X {s \in Streams : f \in got[s]})
      \cup ({"held"} \X {s \in Streams : f \in held[s]})

(* ref counts exactly the references to a frame that somebody still has: a  *)
(* count too low gives a frame back under a reader, one too high keeps it   *)
(* from its source for ever.  Only the races break it.                      *)
FramesCounted == \A f \in Frames : ref[f] = Cardinality(Refs(f))
FrameRefExact == raced # {} \/ FramesCounted

(* A frame that somebody may still read is not on the free list of its      *)
(* source, nor being filled again by it, nor in memory already freed:       *)
(* what the comment on hold_data promises.                                  *)
SharedIsOut ==
    \A f \in Frames : Refs(f) # {} => f \in src_d_list_u \cup filling

(* No race but the four takes a frame back under a reader.                  *)
ReadersKeepTheirs == raced # {} \/ SharedIsOut

(* A node is on the free list, in a queue or in the hand of one task; it is *)
(* in none of them once the arrays of its stream are freed.                 *)
InHand == {s \in Streams : \/ pc[s] \in NodePcs
                           \/ pc[s] \in {"recycle", "free_end"} /\ cont[s] = "drain_node"}
NodeConserved(n) ==
    LET free   == IF n \in d_list_f THEN 1 ELSE 0
        queued == Cardinality({p \in Streams \X (1 .. Cardinality(Nodes)) :
                      p[2] <= Len(d_list_u[p[1]]) /\ d_list_u[p[1]][p[2]] = n})
        inhand == Cardinality({s \in InHand : node[s] = n})
    IN  free + queued + inhand
          = (IF used[dest[n]] = AVAILABLE_AGAIN THEN 0 ELSE 1)

(* Likewise for the frames of a stream. *)
FrameConserved(f) ==
    Cardinality({l \in {"f", "u", "fill"} :
          \/ l = "f" /\ f \in src_d_list_f
          \/ l = "u" /\ f \in src_d_list_u
          \/ l = "fill" /\ f \in filling})
      = (IF used[src[f]] = AVAILABLE_AGAIN THEN 0 ELSE 1)

(* No node and no frame is lost, in two places, or in freed arrays, however *)
(* sends, receives, filters and drains of several streams interleave, up to *)
(* the first race.                                                          *)
AllInPlace == /\ \A n \in Nodes : NodeConserved(n)
              /\ \A f \in Frames : FrameConserved(f)
Conserved  == raced # {} \/ AllInPlace

(* What a frame is, seen from outside the layer. *)
Phase(f) == CASE f \in src_d_list_f -> "free"
              [] f \in src_d_list_u -> "shared"
              [] f \in filling      -> "filling"
              [] OTHER              -> "gone"
Ownership == INSTANCE FrameOwnership WITH
                 phase  <- [f \in Frames |-> Phase(f)],
                 shares <- [f \in Frames |-> Cardinality(Refs(f))]

(* The data path implements the promise about frames in every step before   *)
(* the first race, whatever tasks send, receive, filter, hold, drain and    *)
(* close, and in whichever order.                                           *)
Implements == Ownership!Init /\ [][raced' = {} => Ownership!Next]_Ownership!vars

(* Every frame that is sent goes back to its source in the end, whoever     *)
(* received, filtered, held or drained it, unless a race came in between.   *)
FramesComeBack ==
    \A f \in Frames : f \in src_d_list_u ~> (f \notin src_d_list_u \/ raced # {})

(* Closing a source always leads to its arrays being freed, likewise.       *)
ClosedIsFreed ==
    \A s \in Streams : used[s] = UNAVAILABLE ~> (used[s] = AVAILABLE_AGAIN \/ raced # {})
=============================================================================
