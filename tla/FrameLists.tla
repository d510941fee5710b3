----------------------------- MODULE FrameLists -----------------------------
(***************************************************************************)
(* The two linked lists of frames of one source, src_d_list_f and           *)
(* src_d_list_u, under the AMR decoder of amr_app.c: it holds a frame it    *)
(* filled and sends it again and again until somebody had room for it.      *)
(* StreamData takes the lists for sets; here they are what utlist.h makes   *)
(* of them, links that are overwritten when a frame is inserted twice.      *)
(***************************************************************************)
EXTENDS UtList

CONSTANTS
    Frames,     \* the frames of the decoder's stream
    MaxTries    \* bound: how often one frame is sent (1000 in the code)

ASSUME FramesAssumption == IsFiniteSet(Frames) /\ Frames # {} /\ NULL \notin Frames
ASSUME TriesAssumption  == MaxTries \in Nat \ {0}

VARIABLES
    head_f, head_u,  \* src_d_list_f, src_d_list_u
    mem,             \* next and prev of every frame
    ref,             \* data_structure.ref
    queued,          \* the frames the destination has and will free
    dying,           \* dying[w]: the frame whose last reference w dropped and
                     \* which it is about to move, w the decoder or the reader
    pc,              \* where the decoder is
    cur,             \* its frame
    tries,           \* how often it sent it
    sent,            \* send_success: the last send reached the destination
    closed,          \* "open", "closed" or, once its arrays are freed, "freed"
    harmed           \* ghost: a frame was appended a second time beside others

vars == <<head_f, head_u, mem, ref, queued, dying, pc, cur, tries, sent, closed, harmed>>

TypeOK ==
    /\ head_f \in Frames \cup {NULL} /\ head_u \in Frames \cup {NULL}
    /\ mem \in [next : [Frames -> Frames \cup {NULL}],
                prev : [Frames -> Frames \cup {NULL}]]
    /\ ref \in [Frames -> 0 .. 3 + Cardinality(Frames)]
    /\ queued \subseteq Frames
    /\ dying \in [{"decoder", "reader"} -> Frames \cup {NULL}]
    /\ pc \in {"get", "hold", "send", "dest", "sent", "free", "done"}
    /\ cur \in Frames \cup {NULL}
    /\ tries \in 0 .. MaxTries
    /\ sent \in BOOLEAN
    /\ closed \in {"open", "closed", "freed"}
    /\ harmed \in BOOLEAN

(* open_stream appends every frame to src_d_list_f. *)
Opened ==
    LET order == CHOOSE o \in [1 .. Cardinality(Frames) -> Frames] :
                     \A f \in Frames : \E i \in DOMAIN o : o[i] = f
        none  == [next |-> [f \in Frames |-> NULL], prev |-> [f \in Frames |-> NULL]]
        filled[i \in 0 .. Cardinality(Frames)] ==
            IF i = 0 THEN [head |-> NULL, mem |-> none]
            ELSE Appended(filled[i-1].head, filled[i-1].mem, order[i])
    IN  filled[Cardinality(Frames)]

Init ==
    /\ head_f = Opened.head /\ mem = Opened.mem
    /\ head_u = NULL
    /\ ref = [f \in Frames |-> 0]
    /\ queued = {}
    /\ dying = [w \in {"decoder", "reader"} |-> NULL]
    /\ pc = "get" /\ cur = NULL /\ tries = 0 /\ sent = FALSE
    /\ closed = "open"
    /\ harmed = FALSE

-----------------------------------------------------------------------------
At(p) == pc = p /\ dying["decoder"] = NULL

(* get_src_data_f *)
get ==
    /\ At("get")
    /\ head_f # NULL
    /\ LET d == Deleted(head_f, mem, head_f)
       IN  head_f' = d.head /\ mem' = Link(d.mem, head_f, NULL, NULL)
    /\ cur' = head_f
    /\ \E p \in {"hold", "send"} : pc' = p      \* "send": force_del_data
    /\ tries' = 0 /\ sent' = FALSE
    /\ UNCHANGED <<head_u, ref, queued, dying, closed, harmed>>

hold ==
    /\ At("hold")
    /\ ref' = [ref EXCEPT ![cur] = @ + 1]
    /\ pc' = "send"
    /\ UNCHANGED <<head_f, head_u, mem, queued, dying, cur, tries, sent, closed, harmed>>

(* send_data_to_stream or, for a frame nobody holds, force_del_data. *)
Use(f) ==
    LET a == Appended(head_u, mem, f)
    IN  head_u' = a.head /\ mem' = a.mem

(* The list has it already, from an earlier send.  DL_APPEND is harmless for *)
(* the only frame of a list; beside others it spoils the link to the one     *)
(* before it, and the next DL_DELETE of the frame takes those others along.  *)
Spoils(f) == tries > 0 /\ ~(head_u = f /\ mem.next[f] = NULL)

send ==
    /\ At("send")
    /\ tries < MaxTries
    /\ tries' = tries + 1
    /\ harmed' = (harmed \/ Spoils(cur))
    /\ Use(cur)
    /\ pc' = IF ref[cur] > 0 THEN "dest" ELSE "sent"
    /\ ref' = [ref EXCEPT ![cur] = @ + 1]
    /\ UNCHANGED <<head_f, queued, dying, cur, sent, closed>>

(* The destination takes it, if it has a node left and wants it. *)
Given(f)    == ref' = [ref EXCEPT ![f] = @ + 1]

dest ==
    /\ At("dest")
    /\ \/ /\ queued' = queued \cup {cur}
          /\ Given(cur)
          /\ sent' = TRUE
       \/ UNCHANGED <<queued, ref>> /\ sent' = FALSE
    /\ pc' = "sent"
    /\ UNCHANGED <<head_f, head_u, mem, dying, cur, tries, closed, harmed>>

Drop(w, f) ==
    /\ ref' = [ref EXCEPT ![f] = @ - 1]
    /\ dying' = [dying EXCEPT ![w] = IF ref[f] = 1 THEN f ELSE NULL]

(* The free at the end of a send, and what the decoder does after it. *)
sent_free ==
    /\ At("sent")
    /\ Drop("decoder", cur)
    /\ \/ ref[cur] = 1 /\ pc' = "get" /\ cur' = NULL
       \/ /\ ref[cur] # 1
          /\ cur' = cur
          /\ pc' = IF sent \/ tries = MaxTries THEN "free" ELSE "send"
    /\ UNCHANGED <<head_f, head_u, mem, queued, tries, sent, closed, harmed>>

(* free_data of the held frame; after a timeout the decoder ends. *)
unhold ==
    /\ At("free")
    /\ Drop("decoder", cur)
    /\ cur' = NULL
    /\ pc' = IF sent THEN "get" ELSE "done"
    /\ UNCHANGED <<head_f, head_u, mem, queued, tries, sent, closed, harmed>>

stop ==
    /\ At("get")
    /\ pc' = "done"
    /\ UNCHANGED <<head_f, head_u, mem, ref, queued, dying, cur, tries, sent, closed, harmed>>

close ==
    /\ At("done") /\ closed = "open"
    /\ closed' = "closed"
    /\ UNCHANGED <<head_f, head_u, mem, ref, queued, dying, pc, cur, tries, sent, harmed>>

(* The destination frees a frame it received. *)
consume(f) ==
    /\ f \in queued
    /\ dying["reader"] = NULL
    /\ queued' = queued \ {f}
    /\ Drop("reader", f)
    /\ UNCHANGED <<head_f, head_u, mem, pc, cur, tries, sent, closed, harmed>>

(* default_free_data_func, second locked section. *)
NotUnlinked(f) == [head |-> head_u, mem |-> mem]                        \* mutant
Unlinked(f) == Deleted(head_u, mem, f)

move(w) ==
    LET f == dying[w]
        d == Unlinked(f)
        a == Appended(head_f, Link(d.mem, f, NULL, NULL), f)
    IN  /\ f # NULL
        /\ head_u # NULL /\ mem.prev[f] # NULL      \* the assertions of DL_DELETE
        /\ head_u' = d.head /\ head_f' = a.head /\ mem' = a.mem
        /\ dying' = [dying EXCEPT ![w] = NULL]
        /\ UNCHANGED <<ref, queued, pc, cur, tries, sent, closed, harmed>>

(* stream_gc_marker_timer frees the arrays when src_d_list_u is empty. *)
AllBack == head_u = NULL

mark ==
    /\ closed = "closed"
    /\ AllBack
    /\ closed' = "freed"
    /\ UNCHANGED <<head_f, head_u, mem, ref, queued, dying, pc, cur, tries, sent, harmed>>

Decoder  == get \/ hold \/ send \/ dest \/ sent_free \/ unhold
Reader   == \E f \in Frames : consume(f)
Next     == Decoder \/ stop \/ close \/ Reader \/ mark
              \/ \E w \in {"decoder", "reader"} : move(w)

Spec == Init /\ [][Next]_vars

-----------------------------------------------------------------------------
Dying == {dying[w] : w \in DOMAIN dying} \ {NULL}
InUse == {f \in Frames : ref[f] > 0 /\ ~(f = cur /\ tries = 0)} \cup Dying

(* A walk of src_d_list_u meets exactly the frames that are in use, and one *)
(* of src_d_list_f the rest: a frame missing from both is lost for ever, one *)
(* in both is filled while somebody reads it.  The arrays are freed after   *)
(* the last one came back.                                                  *)
ListsAreWhole ==
    IF closed = "freed" THEN InUse = {}
    ELSE /\ Walked(head_u, mem) = InUse
         /\ Walked(head_f, mem) = Frames \ (InUse \cup ({cur} \ {NULL}))

(* Sending again is the only thing that loses a frame: the lists stay whole  *)
(* up to the first DL_APPEND of a frame that src_d_list_u has beside others, *)
(* whatever was sent again while alone on it, and whoever frees what when.   *)
WholeUnlessHarmed == harmed \/ ListsAreWhole
=============================================================================
