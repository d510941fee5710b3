------------------------- MODULE StreamSerialProofs -------------------------
(* What the exact counts of StreamLifecycleProofs are good for: no stream is *)
(* built over an earlier life of it, none is handed out that nobody builds,  *)
(* and no two live streams have one name.  As there, each holds in every     *)
(* state that no race of the kind it names came before.                      *)
EXTENDS StreamLifecycleProofs

-----------------------------------------------------------------------------
(* One task steps, or the work queue does.                                   *)
LEMMA TaskAlone ==
  ASSUME TypeOK, NEW t \in Tasks, Inside(t) \/ Call(t)
  PROVE  /\ OnlyTask(t) /\ UNCHANGED gc
         /\ \A u \in Tasks \ {t} : arg'[u] = arg[u]
<1> USE DEF registry, state, counts, task, gc, aside
<1> DEFINE Alone == /\ OnlyTask(t) /\ UNCHANGED gc
                    /\ \A u \in Tasks \ {t} : arg'[u] = arg[u]
<1>1. ASSUME NEW s \in Streams,
             open_stream_again(t, s) \/ close_stream_drop(t, s) \/ send_frame(t, s)
      PROVE  Alone
  BY <1>1 DEF open_stream_again, Take, close_stream_drop, send_frame, At, Go, OnlyTask,
     TypeOK, TasksOK, HoldOK
<1>2. ASSUME \/ open_stream_check(t) \/ open_stream_create(t)
             \/ open_stream_new_load(t) \/ open_stream_new_store(t)
             \/ open_stream_new_issue(t) \/ open_stream_init(t)
             \/ get_stream_check(t) \/ open_available_check(t) \/ lookup_undo(t)
      PROVE  Alone
  BY <1>2 DEF open_stream_check, open_stream_create, open_stream_new_load,
     open_stream_new_store, open_stream_new_issue, open_stream_init, Take,
     get_stream_check, open_available_check, Check, lookup_undo, At, Go, Return,
     OnlyTask, TypeOK, TasksOK, HoldOK
<1>3. ASSUME \/ bind_check(t) \/ bind_link(t) \/ bind_undo(t) \/ bind_drop(t)
             \/ bind_create(t) \/ bind_new(t)
             \/ close_stream_load(t) \/ close_stream_store(t) \/ close_stream_mark(t)
      PROVE  Alone
  BY <1>3 DEF bind_check, bind_link, bind_undo, bind_drop, bind_create, bind_new,
     close_stream_load, close_stream_store, close_stream_mark, At, Go, Return,
     OnlyTask, TypeOK, TasksOK, HoldOK
<1>4. ASSUME NEW n, open_stream_find(t, n) \/ get_stream_find(t, n) \/ open_available_find(t, n)
      PROVE  Alone
  BY <1>4 DEF open_stream_find, get_stream_find, open_available_find, Lookup, At, Go,
     OnlyTask, TypeOK, TasksOK, HoldOK
<1>5. ASSUME NEW s \in Streams, NEW n, bind_find(t, s, n)
      PROVE  Alone
  BY <1>5 DEF bind_find, At, Go, OnlyTask, TypeOK, TasksOK, HoldOK
<1> HIDE DEF Alone
<1>6. ASSUME Inside(t) PROVE Alone
  BY <1>6, <1>2, <1>3, <1>4, <1>5 DEF Inside
<1>7. ASSUME Call(t) PROVE Alone
  BY <1>7, <1>1, <1>4, <1>5 DEF Call
<1>8. Alone
  BY <1>6, <1>7
<1> QED BY <1>8 DEF Alone

LEMMA QueueAlone ==
  ASSUME GcStep \/ \E s \in Streams : free_frame(s)
  PROVE  UNCHANGED task
  BY DEF GcStep, mark_visit, mark_unbind, mark_lists, mark_ref, mark_again, mark_clean,
     clean_unlink, clean_free, free_frame

(* A task at open_init works on a stream in use; so does one with a handle.  *)
(* Neither is the stream the marker takes apart.                             *)
LEMMA NotVisited ==
  ASSUME IInv, NEW t \in Tasks, NEW s \in Streams,
         hold[t][s] > 0 \/ (pc[t] = "open_init" /\ own[t] = s)
  PROVE  /\ used[s] = ISUED /\ ref[s] > 0 /\ list[s] = "g_s"
         /\ gpc \in {"unbind", "ref", "again", "clean"} => gs # s
<1>1. used[s] = ISUED
  BY DEF IInv, TaskInv
<1>2. Refs(s) > 0 /\ ref[s] = Refs(s)
  BY Some, Exact DEF IInv, OwnRefPcs, OwnPins
<1>3. list[s] = "g_s"
  BY <1>2, Exact DEF IInv, FreedUnused
<1> QED BY <1>1, <1>2, <1>3 DEF IInv, Marked, ISUED, WAIT_GC_MARKER, WAIT_GC_CLEAN

(* What a task works on inside a call, while a reference protects it.        *)
LEMMA OwnIsListed ==
  ASSUME IInv, NEW t \in Tasks, pc[t] \in OwnRefPcs
  PROVE  own[t] \in Streams /\ list[own[t]] = "g_s" /\ ref[own[t]] > 0
<1>1. own[t] \in Streams
  BY DEF IInv, TypeOK, LocalsOK, OwnPcs, Pcs, OwnRefPcs, OwnPins
<1>2. Refs(own[t]) > 0
  BY <1>1, Some DEF IInv
<1> QED BY <1>1, <1>2, Exact DEF IInv, FreedUnused

-----------------------------------------------------------------------------
(* Nothing is built twice.  A stream open_stream may open has no arrays and  *)
(* no frames, nor has the one the marker has freed; and two tasks build the  *)
(* lists of two streams.                                                     *)
Fresh   == \A s \in Streams : list[s] = "g_s" /\ used[s] \in Openable => ~lists[s] /\ ~frames[s]
NothingRebuilt == \A t \in Tasks : pc[t] = "open_init" => ~lists[own[t]] /\ ~frames[own[t]]
Taken   == gpc \in {"ref", "again", "clean"} => ~lists[gs] /\ ~frames[gs]
OneInit ==
    \A t, u \in Tasks :
        t # u /\ pc[t] = "open_init" /\ pc[u] = "open_init" => own[t] # own[u]
FreshInv == Fresh /\ Taken /\ OneInit /\ NothingRebuilt

(* A step that touches neither the state of a stream nor the places FreshInv *)
(* speaks of.                                                                *)
LEMMA FreshSame ==
  ASSUME IInv, FreshInv, NEW t \in Tasks, OnlyTask(t), UNCHANGED <<list, state, gc>>,
         pc'[t] # "open_init"
  PROVE  FreshInv'
  BY DEF state, gc, FreshInv, Fresh, Taken, OneInit, NothingRebuilt, OnlyTask

LEMMA FreshIssue ==
  ASSUME IInv, TypeOK', FreshInv, NEW t \in Tasks, OnlyTask(t),
         pc[t] \in {"open_check", "new_issue"}, used[own[t]] \in Openable,
         used' = [used EXCEPT ![own[t]] = ISUED], own'[t] = own[t],
         UNCHANGED <<list, lists, frames, gc>>
  PROVE  FreshInv'
<1> DEFINE s == own[t]
<1>1. s \in Streams /\ list[s] = "g_s"
  BY OwnIsListed DEF OwnRefPcs, OwnPins
<1>2. ~lists[s] /\ ~frames[s]
  BY <1>1 DEF FreshInv, Fresh
<1>3. \A u \in Tasks : pc[u] = "open_init" => own[u] # s
  BY DEF IInv, TaskInv, Openable, ISUED, AVAILABLE, AVAILABLE_AGAIN
<1>4. used'[s] = ISUED /\ \A x \in Streams \ {s} : used'[x] = used[x]
  BY <1>1 DEF IInv, TypeOK, StreamsOK
<1> HIDE DEF s
<1>5. Fresh'
  BY <1>4 DEF FreshInv, Fresh, Openable, ISUED, AVAILABLE, AVAILABLE_AGAIN
<1>6. Taken'
  BY DEF FreshInv, Taken, gc
<1>7. OneInit'
  BY <1>3 DEF FreshInv, OneInit, OnlyTask, s
<1>8. NothingRebuilt'
  BY <1>2 DEF FreshInv, NothingRebuilt, OnlyTask, s
<1> QED BY <1>5, <1>6, <1>7, <1>8 DEF FreshInv

LEMMA FreshCreate ==
  ASSUME IInv, TypeOK', FreshInv, NEW t \in Tasks, OnlyTask(t), UNCHANGED gc,
         NEW s \in Streams, NEW n, creat_stream(s, n), pc'[t] # "open_init"
  PROVE  FreshInv'
<1>1. /\ \A x \in Streams \ {s} : list'[x] = list[x] /\ used'[x] = used[x]
                                   /\ lists'[x] = lists[x] /\ frames'[x] = frames[x]
      /\ ~lists'[s] /\ ~frames'[s]
  BY DEF creat_stream, IInv, TypeOK, StreamsOK
<1>2. Fresh'
  BY <1>1 DEF FreshInv, Fresh
<1>3. Taken'
  <2>1. gpc \in {"ref", "again", "clean"} => gs \in Streams
    BY DEF IInv, Marked
  <2> QED BY <1>1, <2>1 DEF FreshInv, Taken, gc
<1>4. OneInit'
  BY DEF FreshInv, OneInit, OnlyTask
<1>5. NothingRebuilt'
  <2>1. \A u \in Tasks : pc[u] = "open_init" => own[u] \in Streams
    BY DEF IInv, TypeOK, LocalsOK, OwnPcs, Pcs
  <2> QED BY <1>1, <2>1 DEF FreshInv, NothingRebuilt, OnlyTask
<1> QED BY <1>2, <1>3, <1>4, <1>5 DEF FreshInv

LEMMA FreshInit ==
  ASSUME IInv, TypeOK', FreshInv, NEW t \in Tasks, OnlyTask(t), open_stream_init(t)
  PROVE  FreshInv'
<1> USE DEF registry, state, gc
<1> DEFINE s == own[t]
<1>1. /\ pc[t] = "open_init" /\ pc'[t] = "bind_find" /\ s \in Streams
      /\ UNCHANGED <<list, used, frames, gpc, gs>>
  BY DEF open_stream_init, At, Go, IInv, TypeOK, TasksOK, LocalsOK, OwnPcs, Pcs
<1>2. \A x \in Streams \ {s} : lists'[x] = lists[x]
  BY DEF open_stream_init, IInv, TypeOK, StreamsOK
<1>3. used[s] = ISUED /\ (gpc \in {"ref", "again", "clean"} => gs # s)
  BY <1>1, NotVisited
<1>4. \A u \in Tasks \ {t} : pc[u] = "open_init" => own[u] # s /\ own[u] \in Streams
  BY <1>1 DEF FreshInv, OneInit, IInv, TypeOK, LocalsOK, OwnPcs, Pcs
<1> HIDE DEF s
<1>5. Fresh'
  BY <1>1, <1>2, <1>3 DEF FreshInv, Fresh, Openable, ISUED, AVAILABLE, AVAILABLE_AGAIN
<1>6. Taken'
  BY <1>1, <1>2, <1>3 DEF FreshInv, Taken, IInv, Marked
<1>7. OneInit'
  BY <1>1 DEF FreshInv, OneInit, OnlyTask
<1>8. NothingRebuilt'
  BY <1>1, <1>2, <1>4 DEF FreshInv, NothingRebuilt, OnlyTask
<1> QED BY <1>5, <1>6, <1>7, <1>8 DEF FreshInv

(* A close takes a stream in use out of it, and then marks it. *)
LEMMA FreshClose ==
  ASSUME IInv, TypeOK', FreshInv, NEW t \in Tasks, OnlyTask(t), NEW s \in Streams,
         NEW v \in {UNAVAILABLE, WAIT_GC_MARKER}, used' = [used EXCEPT ![s] = v],
         UNCHANGED <<list, lists, frames, gc>>, pc'[t] # "open_init"
  PROVE  FreshInv'
<1>1. used'[s] = v /\ \A x \in Streams \ {s} : used'[x] = used[x]
  BY DEF IInv, TypeOK, StreamsOK
<1> QED BY <1>1 DEF FreshInv, Fresh, Taken, OneInit, NothingRebuilt, OnlyTask, gc,
           Openable, UNAVAILABLE, WAIT_GC_MARKER, AVAILABLE, AVAILABLE_AGAIN

LEMMA FreshSend ==
  ASSUME IInv, TypeOK', FreshInv, NEW t \in Tasks, NEW s \in Streams, send_frame(t, s)
  PROVE  FreshInv'
<1> USE DEF registry, state, gc, task
<1>1. hold[t][s] > 0 /\ lists[s] /\ UNCHANGED <<list, used, lists, gpc, gs, pc, own>>
  BY DEF send_frame
<1>2. \A x \in Streams \ {s} : frames'[x] = frames[x]
  BY DEF send_frame, IInv, TypeOK, StreamsOK
<1>3. used[s] = ISUED /\ (gpc \in {"ref", "again", "clean"} => gs # s)
  BY <1>1, NotVisited
<1>4. \A u \in Tasks : pc[u] = "open_init" => own[u] # s /\ own[u] \in Streams
  BY <1>1 DEF FreshInv, NothingRebuilt, IInv, TypeOK, LocalsOK, OwnPcs, Pcs
<1>5. Fresh'
  BY <1>1, <1>2, <1>3 DEF FreshInv, Fresh, Openable, ISUED, AVAILABLE, AVAILABLE_AGAIN
<1>6. Taken'
  BY <1>1, <1>2, <1>3 DEF FreshInv, Taken, IInv, Marked
<1>7. OneInit' /\ NothingRebuilt'
  BY <1>1, <1>2, <1>4 DEF FreshInv, OneInit, NothingRebuilt
<1> QED BY <1>5, <1>6, <1>7 DEF FreshInv

LEMMA FreshQueue ==
  ASSUME IInv, TypeOK', FreshInv, GcStep \/ \E s \in Streams : free_frame(s)
  PROVE  FreshInv'
<1> USE DEF registry, state, gc, task
<1>1. UNCHANGED <<pc, own>> /\ OneInit'
  BY QueueAlone DEF FreshInv, OneInit
<1>2. ASSUME NEW s \in Streams, free_frame(s) PROVE FreshInv'
  <2>1. /\ UNCHANGED <<list, used, lists, gpc, gs>>
        /\ \A x \in Streams : frames'[x] => frames[x]
    BY <1>2 DEF free_frame, IInv, TypeOK, StreamsOK
  <2>2. \A u \in Tasks : pc[u] = "open_init" => own[u] \in Streams
    BY DEF IInv, TypeOK, LocalsOK, OwnPcs, Pcs
  <2>3. gpc \in {"ref", "again", "clean"} => gs \in Streams
    BY DEF IInv, Marked
  <2> QED BY <1>1, <2>1, <2>2, <2>3 DEF FreshInv, Fresh, Taken, NothingRebuilt
<1>3. ASSUME NEW s \in Streams, mark_visit(s) PROVE FreshInv'
  BY <1>1, <1>3 DEF mark_visit, FreshInv, Fresh, Taken, NothingRebuilt
<1>4. ASSUME mark_unbind PROVE FreshInv'
  BY <1>1, <1>4 DEF mark_unbind, FreshInv, Fresh, Taken, NothingRebuilt
<1>5. ASSUME mark_lists PROVE FreshInv'
  <2>1. /\ gs \in Streams /\ UNCHANGED <<list, used, frames>>
        /\ \A x \in Streams : lists'[x] => lists[x]
        /\ gpc' = "idle" \/ (gpc' = "ref" /\ gs' = gs /\ ~lists'[gs] /\ ~frames[gs])
    BY <1>5 DEF mark_lists, GcAt, IInv, Marked, TypeOK, StreamsOK
  <2>2. \A u \in Tasks : pc[u] = "open_init" => own[u] \in Streams
    BY DEF IInv, TypeOK, LocalsOK, OwnPcs, Pcs
  <2> QED BY <1>1, <2>1, <2>2 DEF FreshInv, Fresh, Taken, NothingRebuilt
<1>6. ASSUME mark_ref \/ mark_again \/ mark_clean PROVE FreshInv'
  <2>1. /\ gs \in Streams /\ UNCHANGED <<list, lists, frames>> /\ ~lists[gs] /\ ~frames[gs]
        /\ \A x \in Streams \ {gs} : used'[x] = used[x]
        /\ gpc' = "idle" \/ gs' = gs
    BY <1>6 DEF mark_ref, mark_again, mark_clean, GcAt, IInv, Marked, TypeOK, StreamsOK,
       FreshInv, Taken
  <2> QED BY <1>1, <2>1 DEF FreshInv, Fresh, Taken, NothingRebuilt
<1>7. ASSUME clean_unlink PROVE FreshInv'
  <2>1. /\ UNCHANGED <<used, lists, frames>> /\ gpc' = "reap"
        /\ \A x \in Streams : list'[x] = "g_s" => list[x] = "g_s"
    BY <1>7 DEF clean_unlink
  <2> QED BY <1>1, <2>1 DEF FreshInv, Fresh, Taken, NothingRebuilt
<1>8. ASSUME NEW s \in Streams, clean_free(s) PROVE FreshInv'
  <2>1. /\ UNCHANGED <<lists, frames>> /\ gpc' \in {"reap", "idle"} /\ list'[s] = "heap"
        /\ \A x \in Streams \ {s} : list'[x] = list[x] /\ used'[x] = used[x]
    BY <1>8 DEF clean_free, IInv, TypeOK, StreamsOK
  <2> QED BY <1>1, <2>1 DEF FreshInv, Fresh, Taken, NothingRebuilt
<1> QED BY <1>2, <1>3, <1>4, <1>5, <1>6, <1>7, <1>8 DEF GcStep

LEMMA FreshTask ==
  ASSUME IInv, TypeOK', FreshInv, NEW t \in Tasks, Inside(t) \/ Call(t)
  PROVE  FreshInv'
<1> USE DEF registry, state, counts, task, gc, aside
<1>1. OnlyTask(t) /\ UNCHANGED gc
  BY TaskAlone DEF IInv
<1>2. pc[t] \in Pcs /\ t \in DOMAIN pc
  BY DEF IInv, TypeOK, TasksOK
<1>3. ASSUME NEW s \in Streams, NEW n,
             \/ open_stream_find(t, n) \/ bind_find(t, s, n) \/ get_stream_find(t, n)
             \/ open_available_find(t, n) \/ open_stream_again(t, s)
      PROVE  FreshInv'
  <2>1. UNCHANGED <<list, state>> /\ pc'[t] # "open_init"
    BY <1>2, <1>3 DEF open_stream_find, bind_find, get_stream_find, open_available_find,
       Lookup, open_stream_again, At, Go
  <2> QED BY <1>1, <2>1, FreshSame
<1>4. ASSUME open_stream_check(t) PROVE FreshInv'
  <2>1. CASE used[own[t]] \notin Openable /\ Return(t) /\ UNCHANGED used
    BY <1>1, <1>2, <1>4, <2>1, FreshSame DEF open_stream_check, Return, Go
  <2>2. CASE used[own[t]] \in Openable
    BY <1>1, <1>4, <2>2, FreshIssue DEF open_stream_check, At
  <2> QED BY <1>4, <2>1, <2>2 DEF open_stream_check
<1>5. ASSUME open_stream_create(t) \/ bind_create(t) PROVE FreshInv'
  <2>1. ASSUME NEW s \in Streams, creat_stream(s, arg[t]), Go(t, "new_load") \/ Go(t, "bind_new")
        PROVE  FreshInv'
    BY <1>1, <1>2, <2>1, FreshCreate DEF Go
  <2>2. CASE Return(t) /\ UNCHANGED <<list, state>>
    BY <1>1, <1>2, <2>2, FreshSame DEF Return, Go
  <2> QED BY <1>5, <2>1, <2>2 DEF open_stream_create, bind_create
<1>6. ASSUME open_stream_new_issue(t) PROVE FreshInv'
  <2>1. pc[t] = "new_issue" /\ used[own[t]] = AVAILABLE
    BY <1>6 DEF open_stream_new_issue, At, IInv, TaskInv, InNew
  <2> QED BY <1>1, <1>6, <2>1, FreshIssue DEF open_stream_new_issue, Openable
<1>7. ASSUME open_stream_init(t) PROVE FreshInv'
  BY <1>1, <1>7, FreshInit
<1>8. ASSUME \/ open_stream_new_load(t) \/ open_stream_new_store(t)
             \/ get_stream_check(t) \/ open_available_check(t) \/ lookup_undo(t)
      PROVE  FreshInv'
  <2>1. UNCHANGED <<list, state>> /\ pc'[t] # "open_init"
    BY <1>2, <1>8 DEF open_stream_new_load, open_stream_new_store, get_stream_check,
       open_available_check, Check, lookup_undo, Return, At, Go
  <2> QED BY <1>1, <2>1, FreshSame
<1>9. ASSUME \/ bind_check(t) \/ bind_link(t) \/ bind_undo(t) \/ bind_drop(t) \/ bind_new(t)
             \/ close_stream_load(t) \/ close_stream_store(t)
      PROVE  FreshInv'
  <2>1. UNCHANGED <<list, state>> /\ pc'[t] # "open_init"
    BY <1>2, <1>9 DEF bind_check, bind_link, bind_undo, bind_drop, bind_new,
       close_stream_load, close_stream_store, Return, At, Go
  <2> QED BY <1>1, <2>1, FreshSame
<1>10. ASSUME close_stream_mark(t) PROVE FreshInv'
  <2>1. own[t] \in Streams /\ pc'[t] # "open_init"
    BY <1>2, <1>10 DEF close_stream_mark, At, Return, Go, IInv, TypeOK, LocalsOK, OwnPcs, Pcs
  <2> QED BY <1>1, <1>10, <2>1, FreshClose DEF close_stream_mark
<1>11. ASSUME NEW s \in Streams, close_stream_drop(t, s) PROVE FreshInv'
  <2>1. CASE used' = used /\ pc' = pc
    BY <1>1, <1>11, <2>1, FreshSame DEF close_stream_drop, At
  <2>2. CASE used' = [used EXCEPT ![s] = UNAVAILABLE] /\ Go(t, "close_load")
    BY <1>1, <1>2, <1>11, <2>2, FreshClose DEF close_stream_drop, Go
  <2> QED BY <1>11, <2>1, <2>2 DEF close_stream_drop
<1>12. ASSUME NEW s \in Streams, send_frame(t, s) PROVE FreshInv'
  BY <1>12, FreshSend
<1>13. \A n : open_stream_find(t, n) \/ get_stream_find(t, n) \/ open_available_find(t, n) => FreshInv'
  <2> SUFFICES ASSUME NEW n, open_stream_find(t, n) \/ get_stream_find(t, n) \/ open_available_find(t, n)
               PROVE  FreshInv'
    OBVIOUS
  <2>1. UNCHANGED <<list, state>> /\ pc'[t] # "open_init"
    BY <1>2 DEF open_stream_find, get_stream_find, open_available_find, Lookup, At, Go
  <2> QED BY <1>1, <2>1, FreshSame
<1>14. CASE Inside(t)
  BY <1>14, <1>3, <1>4, <1>5, <1>6, <1>7, <1>8, <1>9, <1>10, <1>13 DEF Inside
<1>15. CASE Call(t)
  BY <1>15, <1>3, <1>11, <1>12, <1>13 DEF Call
<1> QED BY <1>14, <1>15

(* A race that was met stays met, so that what it excuses stays excused.     *)
LEMMA StaysCorrupted ==
  ASSUME TypeOK, [Next]_vars, NEW K, Met(K)
  PROVE  Met(K)'
  BY AsideStep DEF Met

(* open_stream never builds its lists over those of an earlier life of the   *)
(* stream, whose arrays are still allocated or whose frames are still out,   *)
(* whenever the marker and other tasks come in between.                      *)
THEOREM NothingIsBuiltTwice == Spec => []NoListsBuiltTwice
<1>1. Init => FreshInv
  BY DEF Init, FreshInv, Fresh, Taken, OneInit, NothingRebuilt
<1>2. IInv /\ TypeOK' /\ FreshInv /\ [Next]_vars => FreshInv'
  <2>1. ASSUME FreshInv, UNCHANGED <<list, state, gc, pc, own>> PROVE FreshInv'
    BY <2>1 DEF state, gc, FreshInv, Fresh, Taken, OneInit, NothingRebuilt
  <2>2. ASSUME FreshInv, NEW t \in Tasks, crash(t) PROVE FreshInv'
    BY <2>1, <2>2 DEF crash, registry, task
  <2>3. ASSUME FreshInv, UNCHANGED vars PROVE FreshInv'
    BY <2>1, <2>3 DEF vars, registry, task
  <2> QED BY <2>2, <2>3, FreshTask, FreshQueue DEF Next
<1>3. (Corrupted \/ IInv) /\ TypeOK /\ TypeOK' /\ (Corrupted \/ FreshInv) /\ [Next]_vars
        => (Corrupted \/ FreshInv)'
  BY <1>2, StaysCorrupted DEF Corrupted
<1>4. Corrupted \/ FreshInv => NoListsBuiltTwice
  BY DEF FreshInv, NothingRebuilt, NoListsBuiltTwice
<1> QED BY <1>1, <1>3, <1>4, CountsInvariance, TypeCorrect, PTL DEF Spec

-----------------------------------------------------------------------------
(* Apart from the two places that create a stream, no call touches g_s, and  *)
(* no call brings a stream back that nobody refers to.                       *)
LEMMA RefsStay ==
  ASSUME IInv, NEW t \in Tasks, Inside(t) \/ Call(t),
         ~open_stream_create(t), ~bind_create(t)
  PROVE  UNCHANGED registry /\ \A s \in Streams : ref[s] = 0 => ref'[s] = 0
<1> USE DEF registry, state, counts, task, gc, aside
<1> DEFINE Stay == UNCHANGED registry /\ \A s \in Streams : ref[s] = 0 => ref'[s] = 0
<1>1. \A d \in Streams : hold[t][d] > 0 => ref[d] # 0
  BY Some, Exact DEF IInv
<1>2. pc[t] \in OwnRefPcs => ref[own[t]] # 0
  BY OwnIsListed
<1>3. pc[t] \in DstRefPcs => ref[dst[t]] # 0
  <2>1. pc[t] \in DstRefPcs => dst[t] \in Streams
    BY DEF IInv, TypeOK, LocalsOK, DstPcs, DstRefPcs, DstPins
  <2> QED BY <2>1, Some, Exact DEF IInv
<1>4. ASSUME NEW d, ref[d] # 0, UNCHANGED registry, NEW v, ref' = [ref EXCEPT ![d] = v]
      PROVE  Stay
  BY <1>4 DEF IInv, TypeOK, StreamsOK
<1>5. ASSUME NEW n, open_stream_find(t, n) \/ get_stream_find(t, n) \/ open_available_find(t, n)
      PROVE  Stay
  <2>1. ASSUME NEW d \in Found(n), Pin(d), UNCHANGED registry PROVE Stay
    BY <1>4, <2>1, FoundIsLive DEF Pin
  <2> QED BY <1>5, <2>1 DEF open_stream_find, get_stream_find, open_available_find, Lookup
<1>6. ASSUME NEW s \in Streams, NEW n, bind_find(t, s, n) PROVE Stay
  <2>1. ASSUME NEW d \in Found(n), Pin(d), UNCHANGED registry PROVE Stay
    BY <1>4, <2>1, FoundIsLive DEF Pin
  <2> QED BY <1>6, <2>1 DEF bind_find
<1>7. ASSUME NEW s \in Streams, open_stream_again(t, s) PROVE Stay
  <2>1. PICK u \in Tasks : hold[u][s] > 0
    BY <1>7 DEF open_stream_again
  <2>2. ref[s] # 0
    BY <2>1, Some, Exact DEF IInv
  <2> QED BY <1>4, <1>7, <2>2 DEF open_stream_again, Pin
<1>8. ASSUME NEW s \in Streams, close_stream_drop(t, s) \/ send_frame(t, s) PROVE Stay
  BY <1>1, <1>4, <1>8 DEF close_stream_drop, send_frame, Unpin
<1>9. ASSUME open_stream_check(t) PROVE Stay
  BY <1>2, <1>4, <1>9 DEF open_stream_check, Unpin, At, OwnRefPcs, OwnPins
<1>10. ASSUME lookup_undo(t) PROVE Stay
  BY <1>2, <1>4, <1>10 DEF lookup_undo, At, Unpin, OwnRefPcs, OwnPins
<1>11. ASSUME bind_check(t) PROVE Stay
  BY <1>3, <1>4, <1>11 DEF bind_check, Unpin, At, DstRefPcs, DstPins
<1>12. ASSUME bind_undo(t) PROVE Stay
  BY <1>3, <1>4, <1>12 DEF bind_undo, At, DstRefPcs, DstPins
<1>13. ASSUME close_stream_store(t) PROVE Stay
  BY <1>2, <1>4, <1>13 DEF close_stream_store, At, OwnRefPcs, OwnPins
<1>14. ASSUME \/ open_stream_new_load(t) \/ open_stream_new_store(t)
              \/ open_stream_new_issue(t) \/ open_stream_init(t)
              \/ get_stream_check(t) \/ open_available_check(t)
       PROVE  Stay
  BY <1>14 DEF open_stream_new_load, open_stream_new_store, open_stream_new_issue,
     open_stream_init, get_stream_check, open_available_check, Check
<1>15. ASSUME \/ bind_link(t) \/ bind_drop(t) \/ bind_new(t)
              \/ close_stream_load(t) \/ close_stream_mark(t)
       PROVE  Stay
  BY <1>15 DEF bind_link, bind_drop, bind_new, close_stream_load, close_stream_mark
<1> HIDE DEF Stay
<1>16. ASSUME Inside(t) PROVE Stay
  BY <1>16, <1>5, <1>6, <1>9, <1>10, <1>11, <1>12, <1>13, <1>14, <1>15 DEF Inside
<1>17. ASSUME Call(t) PROVE Stay
  BY <1>17, <1>5, <1>6, <1>7, <1>8 DEF Call
<1>18. Stay
  BY <1>16, <1>17
<1> QED BY <1>18 DEF Stay

-----------------------------------------------------------------------------
(* Handles.  A stream in use that somebody refers to has its lists, or one   *)
(* task is about to build them.                                              *)
Built ==
    \A s \in Streams :
        list[s] = "g_s" /\ used[s] = ISUED /\ ref[s] # 0 =>
            lists[s] \/ \E t \in Tasks : pc[t] = "open_init" /\ own[t] = s

LEMMA BuiltSame ==
  ASSUME Built, NEW t \in Tasks, OnlyTask(t), pc[t] # "open_init",
         UNCHANGED <<list, used, lists>>, \A s \in Streams : ref[s] = 0 => ref'[s] = 0
  PROVE  Built'
<1> SUFFICES ASSUME NEW s \in Streams, list[s] = "g_s", used[s] = ISUED, ref[s] # 0, ~lists[s]
             PROVE  \E u \in Tasks : pc'[u] = "open_init" /\ own'[u] = s
  BY DEF Built
<1>1. PICK u \in Tasks : pc[u] = "open_init" /\ own[u] = s
  BY DEF Built
<1>2. pc'[u] = "open_init" /\ own'[u] = s
  BY <1>1 DEF OnlyTask
<1> QED BY <1>2

(* What changes used of one stream, other than from or to ISUED: a task ... *)
LEMMA BuiltUsed ==
  ASSUME IInv, Built, TypeOK', NEW t \in Tasks, OnlyTask(t), pc[t] # "open_init",
         NEW s \in Streams, NEW v, v = ISUED => pc'[t] = "open_init" /\ own'[t] = s,
         used' = [used EXCEPT ![s] = v],
         UNCHANGED <<list, ref, lists>>
  PROVE  Built'
<1>1. used'[s] = v /\ \A x \in Streams \ {s} : used'[x] = used[x]
  BY DEF IInv, TypeOK, StreamsOK
<1> SUFFICES ASSUME NEW x \in Streams, list[x] = "g_s", used'[x] = ISUED, ref[x] # 0, ~lists[x]
             PROVE  \E u \in Tasks : pc'[u] = "open_init" /\ own'[u] = x
  BY DEF Built
<1>2. CASE x = s
  BY <1>1, <1>2
<1>3. CASE x # s
  <2>1. PICK u \in Tasks : pc[u] = "open_init" /\ own[u] = x
    BY <1>1, <1>3 DEF Built
  <2>2. pc'[u] = "open_init" /\ own'[u] = x
    BY <2>1 DEF OnlyTask
  <2> QED BY <2>2
<1> QED BY <1>2, <1>3

LEMMA BuiltCreate ==
  ASSUME IInv, Built, TypeOK', NEW t \in Tasks, OnlyTask(t), pc[t] # "open_init",
         NEW s \in Streams, NEW n, creat_stream(s, n)
  PROVE  Built'
<1>1. /\ used'[s] = AVAILABLE
      /\ \A x \in Streams \ {s} : /\ list'[x] = list[x] /\ used'[x] = used[x]
                                   /\ lists'[x] = lists[x] /\ ref'[x] = ref[x]
  BY DEF creat_stream, IInv, TypeOK, StreamsOK
<1> SUFFICES ASSUME NEW x \in Streams \ {s}, list[x] = "g_s", used[x] = ISUED, ref[x] # 0, ~lists[x]
             PROVE  \E u \in Tasks : pc'[u] = "open_init" /\ own'[u] = x
  BY <1>1 DEF Built, ISUED, AVAILABLE
<1>2. PICK u \in Tasks : pc[u] = "open_init" /\ own[u] = x
  BY DEF Built
<1>3. pc'[u] = "open_init" /\ own'[u] = x
  BY <1>2 DEF OnlyTask
<1> QED BY <1>3

(* Building the lists serves the stream itself; who else builds goes on.     *)
LEMMA BuiltInit ==
  ASSUME IInv, Built, TypeOK', NEW t \in Tasks, OnlyTask(t), open_stream_init(t)
  PROVE  Built'
<1> USE DEF registry, state, counts
<1> DEFINE s == own[t]
<1>1. pc[t] = "open_init" /\ s \in Streams /\ UNCHANGED <<list, used, ref>>
  BY DEF open_stream_init, At, IInv, TypeOK, TasksOK, LocalsOK, OwnPcs, Pcs
<1>2. lists'[s] /\ \A x \in Streams \ {s} : lists'[x] = lists[x]
  BY <1>1 DEF open_stream_init, IInv, TypeOK, StreamsOK
<1> SUFFICES ASSUME NEW x \in Streams \ {s}, list[x] = "g_s", used[x] = ISUED, ref[x] # 0, ~lists[x]
             PROVE  \E u \in Tasks : pc'[u] = "open_init" /\ own'[u] = x
  BY <1>1, <1>2 DEF Built
<1>3. PICK u \in Tasks : pc[u] = "open_init" /\ own[u] = x
  BY DEF Built
<1>4. pc'[u] = "open_init" /\ own'[u] = x
  BY <1>3 DEF OnlyTask
<1> QED BY <1>4

LEMMA BuiltTask ==
  ASSUME IInv, TypeOK', Built, NEW t \in Tasks, Inside(t) \/ Call(t)
  PROVE  Built'
<1> USE DEF registry, state, counts, task, gc, aside
<1>1. OnlyTask(t)
  BY TaskAlone DEF IInv
<1>3. CASE open_stream_create(t) \/ bind_create(t)
  <2>1. pc[t] # "open_init"
    BY <1>3 DEF open_stream_create, bind_create, At
  <2>2. ASSUME NEW s \in Streams, creat_stream(s, arg[t]) PROVE Built'
    BY <1>1, <2>1, <2>2, BuiltCreate
  <2>3. CASE UNCHANGED <<registry, state, counts>>
    BY <1>1, <2>1, <2>3, BuiltSame
  <2> QED BY <1>3, <2>2, <2>3 DEF open_stream_create, bind_create
<1> SUFFICES ASSUME ~open_stream_create(t), ~bind_create(t) PROVE Built'
  BY <1>3
<1>4. UNCHANGED registry /\ \A s \in Streams : ref[s] = 0 => ref'[s] = 0
  BY RefsStay
<1>5. ASSUME UNCHANGED <<used, lists>>, pc[t] # "open_init" PROVE Built'
  BY <1>1, <1>4, <1>5, BuiltSame
<1>6. ASSUME NEW n, open_stream_find(t, n) \/ get_stream_find(t, n) \/ open_available_find(t, n)
      PROVE  Built'
  BY <1>5, <1>6 DEF open_stream_find, get_stream_find, open_available_find, Lookup, At
<1>7. ASSUME NEW s \in Streams, NEW n, bind_find(t, s, n) PROVE Built'
  BY <1>5, <1>7 DEF bind_find, At
<1>8. ASSUME NEW s \in Streams, open_stream_again(t, s) PROVE Built'
  BY <1>5, <1>8 DEF open_stream_again, At
<1>9. ASSUME NEW s \in Streams, close_stream_drop(t, s) PROVE Built'
  <2>1. pc[t] = "idle"
    BY <1>9 DEF close_stream_drop, At
  <2>2. CASE used' = used
    BY <1>1, <1>4, <1>9, <2>1, <2>2, BuiltSame DEF close_stream_drop
  <2>3. CASE used' = [used EXCEPT ![s] = UNAVAILABLE] /\ UNCHANGED ref
    BY <1>1, <1>9, <2>1, <2>3, BuiltUsed DEF close_stream_drop, ISUED, UNAVAILABLE
  <2> QED BY <1>9, <2>2, <2>3 DEF close_stream_drop
<1>10. ASSUME NEW s \in Streams, send_frame(t, s) PROVE Built'
  BY <1>5, <1>10 DEF send_frame, At
<1>11. ASSUME open_stream_check(t) PROVE Built'
  <2>1. pc[t] = "open_check" /\ own[t] \in Streams
    BY <1>11 DEF open_stream_check, At, IInv, TypeOK, LocalsOK, OwnPcs, Pcs
  <2>2. CASE UNCHANGED used
    BY <1>5, <1>11, <2>1, <2>2 DEF open_stream_check
  <2>3. CASE used' = [used EXCEPT ![own[t]] = ISUED] /\ Go(t, "open_init") /\ UNCHANGED <<counts, own>>
    <3>1. pc'[t] = "open_init" /\ own'[t] = own[t]
      BY <2>3 DEF Go, IInv, TypeOK, TasksOK
    <3> QED BY <1>1, <1>11, <2>1, <2>3, <3>1, BuiltUsed DEF open_stream_check
  <2> QED BY <1>11, <2>2, <2>3 DEF open_stream_check
<1>12. ASSUME open_stream_new_issue(t) PROVE Built'
  <2>1. /\ pc[t] = "new_issue" /\ own[t] \in Streams
        /\ pc'[t] = "open_init" /\ own'[t] = own[t]
    BY <1>12 DEF open_stream_new_issue, At, Go, IInv, TypeOK, TasksOK, LocalsOK, OwnPcs, Pcs
  <2> QED BY <1>1, <1>12, <2>1, BuiltUsed DEF open_stream_new_issue
<1>13. ASSUME open_stream_init(t) PROVE Built'
  BY <1>1, <1>13, BuiltInit
<1>14. ASSUME close_stream_mark(t) PROVE Built'
  <2>1. pc[t] = "close_mark" /\ own[t] \in Streams
    BY <1>14 DEF close_stream_mark, At, IInv, TypeOK, LocalsOK, OwnPcs, Pcs
  <2> QED BY <1>1, <1>14, <2>1, BuiltUsed DEF close_stream_mark, ISUED, WAIT_GC_MARKER
<1>15. ASSUME get_stream_check(t) \/ open_available_check(t) PROVE Built'
  BY <1>5, <1>15 DEF get_stream_check, open_available_check, Check, At
<1>16. ASSUME \/ open_stream_new_load(t) \/ open_stream_new_store(t) \/ lookup_undo(t)
              \/ bind_check(t) \/ bind_link(t) \/ bind_undo(t) \/ bind_drop(t) \/ bind_new(t)
              \/ close_stream_load(t) \/ close_stream_store(t)
       PROVE  Built'
  BY <1>5, <1>16 DEF open_stream_new_load, open_stream_new_store, lookup_undo, bind_check,
     bind_link, bind_undo, bind_drop, bind_new, close_stream_load, close_stream_store, At
<1>17. CASE Inside(t)
  BY <1>17, <1>6, <1>7, <1>11, <1>12, <1>13, <1>14, <1>15, <1>16 DEF Inside
<1>18. CASE Call(t)
  BY <1>18, <1>6, <1>7, <1>8, <1>9, <1>10 DEF Call
<1> QED BY <1>17, <1>18

LEMMA BuiltQueue ==
  ASSUME IInv, TypeOK', Built, GcStep \/ \E s \in Streams : free_frame(s)
  PROVE  Built'
<1> USE DEF registry, state, counts, task, gc, aside
<1>1. UNCHANGED <<pc, own>>
  BY QueueAlone
<1>2. ASSUME \A s \in Streams :
               list'[s] = "g_s" /\ used'[s] = ISUED /\ ref'[s] # 0 =>
                 list[s] = "g_s" /\ used[s] = ISUED /\ ref[s] # 0 /\ (lists[s] => lists'[s])
      PROVE  Built'
  BY <1>1, <1>2 DEF Built
<1>3. ASSUME NEW s \in Streams, free_frame(s) \/ mark_visit(s) PROVE Built'
  BY <1>2, <1>3 DEF free_frame, mark_visit
<1>4. ASSUME mark_unbind PROVE Built'
  <2>1. PICK d \in Streams : s_list[gs][d] > 0 /\ ref' = [ref EXCEPT ![d] = @ - 1]
    BY <1>4 DEF mark_unbind
  <2>2. ref[d] # 0
    BY <1>4, <2>1, Some, Exact DEF mark_unbind, GcAt, IInv, Marked
  <2>3. \A s \in Streams \ {d} : ref'[s] = ref[s]
    BY <2>1 DEF IInv, TypeOK, StreamsOK
  <2> QED BY <1>2, <1>4, <2>2, <2>3 DEF mark_unbind
<1>5. ASSUME mark_lists PROVE Built'
  <2>1. /\ UNCHANGED <<list, used, ref>> /\ gpc = "unbind" /\ gs \in Streams
        /\ used[gs] = WAIT_GC_MARKER \/ ref[gs] = 0
        /\ \A s \in Streams \ {gs} : lists'[s] = lists[s]
    BY <1>5 DEF mark_lists, GcAt, IInv, Marked, TypeOK, StreamsOK
  <2> QED BY <1>2, <2>1 DEF ISUED, WAIT_GC_MARKER
<1>6. ASSUME mark_ref \/ mark_again \/ mark_clean PROVE Built'
  <2>1. /\ UNCHANGED <<list, ref, lists>>
        /\ \A s \in Streams : used'[s] = ISUED => used[s] = ISUED
    BY <1>6 DEF mark_ref, mark_again, mark_clean, IInv, TypeOK, StreamsOK,
       ISUED, WAIT_GC_CLEAN, AVAILABLE_AGAIN
  <2> QED BY <1>2, <2>1
<1>7. ASSUME clean_unlink PROVE Built'
  <2>1. /\ UNCHANGED <<used, ref, lists>>
        /\ \A x \in Streams : list'[x] = "g_s" => list[x] = "g_s"
    BY <1>7 DEF clean_unlink
  <2> QED BY <1>2, <2>1
<1>8. ASSUME NEW s \in Streams, clean_free(s) PROVE Built'
  <2>1. /\ UNCHANGED <<ref, lists>> /\ list'[s] = "heap"
        /\ \A x \in Streams \ {s} : list'[x] = list[x] /\ used'[x] = used[x]
    BY <1>8 DEF clean_free, IInv, TypeOK, StreamsOK
  <2> QED BY <1>2, <2>1
<1> QED BY <1>3, <1>4, <1>5, <1>6, <1>7, <1>8 DEF GcStep

(* Whoever has a handle has a stream with its lists, or with a task that is  *)
(* about to build them: get_stream_available looks at used, which is set     *)
(* first.  The marker never takes a stream apart that somebody holds.        *)
THEOREM HandlesAreWhole == Spec => []HandlesAreBuilt
<1>1. Init => Built
  BY DEF Init, Built
<1>2. IInv /\ TypeOK' /\ Built /\ [Next]_vars => Built'
  <2>1. ASSUME Built, UNCHANGED <<list, used, ref, lists, pc, own>> PROVE Built'
    BY <2>1 DEF Built
  <2>2. ASSUME Built, NEW t \in Tasks, crash(t) PROVE Built'
    BY <2>1, <2>2 DEF crash, registry, state, counts, task
  <2>3. ASSUME Built, UNCHANGED vars PROVE Built'
    BY <2>1, <2>3 DEF vars, registry, state, counts, task
  <2> QED BY <2>2, <2>3, BuiltTask, BuiltQueue DEF Next
<1>3. (Corrupted \/ IInv) /\ TypeOK /\ TypeOK' /\ (Corrupted \/ Built) /\ [Next]_vars
        => (Corrupted \/ Built)'
  BY <1>2, StaysCorrupted DEF Corrupted
<1>4. IInv /\ Built => HandlesAreBuilt
  <2> SUFFICES ASSUME IInv, Built, NEW t \in Tasks, NEW s \in Streams, hold[t][s] > 0, ~lists[s]
               PROVE  Using(pc, own, {"open_init"}, s) # {}
    BY DEF HandlesAreBuilt
  <2>1. PICK u \in Tasks : pc[u] = "open_init" /\ own[u] = s
    BY NotVisited DEF Built
  <2> QED BY <2>1 DEF Using
<1>5. Corrupted => HandlesAreBuilt
  BY DEF HandlesAreBuilt
<1> QED BY <1>1, <1>3, <1>4, <1>5, CountsInvariance, TypeCorrect, PTL DEF Spec

-----------------------------------------------------------------------------
(* Names.  Of the streams of one name in g_s only the newest can be live, so *)
(* that find_stream, which looks at the newest alone, misses none.           *)
Live(s)     == list[s] = "g_s" /\ ref[s] # 0
Newest      ==
    \A a, b \in Streams :
        Live(a) /\ a # b /\ list[b] = "g_s" /\ name[a] = name[b] => <<a, b>> \in newer
HasName     == \A s \in Streams : Live(s) => name[s] # Null
NamesDiffer ==
    \A a, b \in Streams : Live(a) /\ Live(b) /\ a # b => name[a] # name[b]
NameInv     == NamesDiffer /\ Newest /\ HasName

LEMMA MissesNone ==
  ASSUME NameInv, NEW n, Missing(n), NEW s \in Streams, Live(s)
  PROVE  name[s] # n
<1> SUFFICES ASSUME name[s] = n PROVE FALSE
  OBVIOUS
<1>1. s \in Named(n)
  BY DEF Named, Live
<1>2. \A x \in Named(n) \ {s} : <<s, x>> \in newer
  BY DEF Named, NameInv, Newest
<1>3. s \in Found(n)
  BY <1>1, <1>2 DEF First, Found, Live
<1> QED BY <1>3 DEF Missing

(* g_s unchanged, and no stream comes back that nobody refers to.            *)
LEMMA NameSame ==
  ASSUME NameInv, UNCHANGED registry, \A s \in Streams : ref[s] = 0 => ref'[s] = 0
  PROVE  NameInv'
<1>1. UNCHANGED <<list, newer, name>> /\ \A s \in Streams : Live(s)' => Live(s)
  BY DEF Live, registry
<1> QED BY <1>1 DEF NameInv, NamesDiffer, Newest, HasName

LEMMA NameCreate ==
  ASSUME IInv, TypeOK', NameInv, NEW t \in Tasks, NEW s \in Streams, arg[t] \in Names,
         creat_stream(s, arg[t]), ~Met({"twin"})'
  PROVE  NameInv'
<1> DEFINE n == arg[t]
<1>1. /\ list[s] = "heap" /\ list'[s] = "g_s" /\ name'[s] = n /\ n # Null
      /\ newer' = newer \cup ({s} \X {x \in Streams : list[x] = "g_s"})
      /\ \A x \in Streams \ {s} : list'[x] = list[x] /\ name'[x] = name[x] /\ ref'[x] = ref[x]
  BY NullAssumption DEF creat_stream, IInv, TypeOK, StreamsOK
<1>2. \A x \in Streams \ {s} : Live(x)' <=> Live(x)
  BY <1>1 DEF Live
<1>3. \A x \in Streams \ {s} : Live(x) => name[x] # n
  <2>1. Missing(n)
    BY DEF creat_stream, Race, Met
  <2> QED BY <2>1, MissesNone
<1> HIDE DEF n
<1>4. NamesDiffer'
  <2> SUFFICES ASSUME NEW a \in Streams, NEW b \in Streams, a # b, Live(a)', Live(b)'
               PROVE  name'[a] # name'[b]
    BY DEF NamesDiffer
  <2>1. CASE a = s
    BY <1>1, <1>2, <1>3, <2>1
  <2>2. CASE b = s
    BY <1>1, <1>2, <1>3, <2>2
  <2>3. CASE a # s /\ b # s
    BY <1>1, <1>2, <2>3 DEF NameInv, NamesDiffer
  <2> QED BY <2>1, <2>2, <2>3
<1>5. Newest'
  <2> SUFFICES ASSUME NEW a \in Streams, NEW b \in Streams, Live(a)', a # b, list'[b] = "g_s",
                      name'[a] = name'[b]
               PROVE  <<a, b>> \in newer'
    BY DEF Newest
  <2>1. CASE a = s
    <3>1. list[b] = "g_s"
      BY <1>1, <2>1
    <3> QED BY <1>1, <2>1, <3>1
  <2>2. CASE b = s
    BY <1>1, <1>2, <1>3, <2>2
  <2>3. CASE a # s /\ b # s
    <3>1. Live(a) /\ list[b] = "g_s" /\ name[a] = name[b]
      BY <1>1, <1>2, <2>3
    <3>2. <<a, b>> \in newer
      BY <3>1 DEF NameInv, Newest
    <3> QED BY <1>1, <3>2
  <2> QED BY <2>1, <2>2, <2>3
<1>6. HasName'
  <2>1. \A x \in Streams \ {s} : Live(x)' => name'[x] # Null
    BY <1>1, <1>2 DEF NameInv, HasName
  <2> QED BY <1>1, <2>1 DEF HasName
<1> QED BY <1>4, <1>5, <1>6 DEF NameInv

LEMMA NameTask ==
  ASSUME IInv, TypeOK', NameInv, ~Met({"twin"})', NEW t \in Tasks, Inside(t) \/ Call(t)
  PROVE  NameInv'
<1>1. CASE open_stream_create(t) \/ bind_create(t)
  <2>1. arg[t] \in Names
    BY <1>1 DEF open_stream_create, bind_create, At, IInv, TypeOK, LocalsOK, ArgPcs, Pcs
  <2>2. CASE UNCHANGED <<registry, counts>>
    BY <2>2, NameSame DEF counts
  <2>3. ASSUME NEW s \in Streams, creat_stream(s, arg[t]) PROVE NameInv'
    BY <2>1, <2>3, NameCreate
  <2> QED BY <1>1, <2>2, <2>3 DEF open_stream_create, bind_create
<1>2. CASE ~open_stream_create(t) /\ ~bind_create(t)
  BY <1>2, RefsStay, NameSame
<1> QED BY <1>1, <1>2

LEMMA NameQueue ==
  ASSUME IInv, TypeOK', NameInv, GcStep \/ \E s \in Streams : free_frame(s)
  PROVE  NameInv'
<1> USE DEF registry, state, counts, task, gc, aside
<1>2. CASE UNCHANGED registry /\ \A s \in Streams : ref[s] = 0 => ref'[s] = 0
  BY <1>2, NameSame
<1>3. ASSUME NEW s \in Streams, free_frame(s) \/ mark_visit(s) PROVE NameInv'
  BY <1>2, <1>3 DEF free_frame, mark_visit
<1>4. ASSUME mark_unbind PROVE NameInv'
  <2>1. PICK d \in Streams : s_list[gs][d] > 0 /\ ref' = [ref EXCEPT ![d] = @ - 1]
    BY <1>4 DEF mark_unbind
  <2>2. ref[d] # 0
    BY <1>4, <2>1, Some, Exact DEF mark_unbind, GcAt, IInv, Marked
  <2>3. \A s \in Streams \ {d} : ref'[s] = ref[s]
    BY <2>1 DEF IInv, TypeOK, StreamsOK
  <2> QED BY <1>2, <1>4, <2>2, <2>3 DEF mark_unbind
<1>5. ASSUME mark_lists \/ mark_ref \/ mark_again PROVE NameInv'
  BY <1>2, <1>5 DEF mark_lists, mark_ref, mark_again
<1>6. ASSUME mark_clean PROVE NameInv'
  <2>1. /\ gs \in Streams /\ ref[gs] = 0 /\ name'[gs] = Null /\ UNCHANGED <<list, newer, ref>>
        /\ \A s \in Streams \ {gs} : name'[s] = name[s]
    BY <1>6 DEF mark_clean, GcAt, IInv, Marked, TypeOK, StreamsOK
  <2>2. \A s \in Streams : /\ Live(s)' <=> Live(s)
                           /\ Live(s) => s # gs /\ name'[s] = name[s] /\ name[s] # Null
    BY <2>1 DEF Live, NameInv, HasName
  <2>3. NamesDiffer'
    BY <2>1, <2>2 DEF NameInv, NamesDiffer
  <2>4. Newest'
    BY <2>1, <2>2 DEF NameInv, Newest
  <2>5. HasName'
    BY <2>2 DEF HasName
  <2> QED BY <2>3, <2>4, <2>5 DEF NameInv
<1>7. ASSUME clean_unlink PROVE NameInv'
  <2> DEFINE condemned == {s \in Streams : list[s] = "g_s" /\ used[s] = WAIT_GC_CLEAN}
  <2>1. /\ UNCHANGED <<name, ref>>
        /\ \A s \in Streams : list'[s] = "g_s" => list[s] = "g_s" /\ s \notin condemned
        /\ newer' = {p \in newer : p[1] \notin condemned /\ p[2] \notin condemned}
    BY <1>7 DEF clean_unlink
  <2> HIDE DEF condemned
  <2>2. \A s \in Streams : Live(s)' => Live(s)
    BY <2>1 DEF Live
  <2>3. NamesDiffer'
    BY <2>1, <2>2 DEF NameInv, NamesDiffer
  <2>4. Newest'
    <3> SUFFICES ASSUME NEW a \in Streams, NEW b \in Streams, Live(a)', a # b,
                        list'[b] = "g_s", name'[a] = name'[b]
                 PROVE  <<a, b>> \in newer'
      BY DEF Newest
    <3>1. <<a, b>> \in newer
      BY <2>1, <2>2 DEF NameInv, Newest
    <3>2. a \notin condemned /\ b \notin condemned
      BY <2>1 DEF Live
    <3> QED BY <2>1, <3>1, <3>2
  <2>5. HasName'
    BY <2>1, <2>2 DEF NameInv, HasName
  <2> QED BY <2>3, <2>4, <2>5 DEF NameInv
<1>8. ASSUME NEW s \in Streams, clean_free(s) PROVE NameInv'
  <2>1. /\ UNCHANGED <<newer, name, ref>>
        /\ \A x \in Streams : list'[x] = "g_s" => list[x] = "g_s"
    BY <1>8 DEF clean_free, IInv, TypeOK, StreamsOK
  <2>2. \A x \in Streams : Live(x)' => Live(x)
    BY <2>1 DEF Live
  <2>3. NamesDiffer'
    BY <2>1, <2>2 DEF NameInv, NamesDiffer
  <2>4. Newest' /\ HasName'
    BY <2>1, <2>2 DEF NameInv, Newest, HasName
  <2> QED BY <2>3, <2>4 DEF NameInv
<1> QED BY <1>3, <1>4, <1>5, <1>6, <1>7, <1>8 DEF GcStep

(* Two streams that find_stream can return never have one name, unless two   *)
(* tasks looked for the name before either created it.                       *)
THEOREM NamesAreUnique == Spec => []OneLiveStreamPerName
<1> DEFINE Off == Corrupted \/ Met({"twin"})
<1>1. Init => NameInv
  BY DEF Init, NameInv, NamesDiffer, Newest, HasName, Live
<1>2. IInv /\ TypeOK' /\ NameInv /\ ~Met({"twin"})' /\ [Next]_vars => NameInv'
  <2>1. ASSUME NameInv, UNCHANGED <<registry, ref>> PROVE NameInv'
    BY <2>1, NameSame
  <2>2. ASSUME NameInv, NEW t \in Tasks, crash(t) PROVE NameInv'
    BY <2>1, <2>2 DEF crash, counts
  <2>3. ASSUME NameInv, UNCHANGED vars PROVE NameInv'
    BY <2>1, <2>3 DEF vars, counts
  <2> QED BY <2>2, <2>3, NameTask, NameQueue DEF Next
<1>3. (Corrupted \/ IInv) /\ TypeOK /\ TypeOK' /\ (Off \/ NameInv) /\ [Next]_vars
        => (Off \/ NameInv)'
  BY <1>2, StaysCorrupted DEF Corrupted
<1>4. Off \/ NameInv => OneLiveStreamPerName
  BY DEF NameInv, NamesDiffer, Live, OneLiveStreamPerName
<1> HIDE DEF Off
<1> QED BY <1>1, <1>3, <1>4, CountsInvariance, TypeCorrect, PTL DEF Spec
=============================================================================
