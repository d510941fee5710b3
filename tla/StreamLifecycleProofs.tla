----------------------- MODULE StreamLifecycleProofs -----------------------
(* Theorems about StreamLifecycle, for every number of tasks, streams and   *)
(* names, with a switch of tasks allowed between any two steps.  The         *)
(* reference counts of the registry are exact, and nothing reachable is      *)
(* freed, in every state that no race came before which breaks a count: a    *)
(* torn update, a write to a stream freed meanwhile, an early open.          *)
EXTENDS StreamLifecycle, FiniteSetTheorems, TLAPS

LEMMA FoundIsStream == \A n : Found(n) \subseteq Streams
  BY DEF Found, First, Named

LEMMA ReturnOK ==
  ASSUME TasksOK, NEW t \in Tasks, Return(t)
  PROVE  TasksOK'
  BY DEF TasksOK, Return, Go, Pcs

LEMMA ReturnLocals ==
  ASSUME TasksOK, LocalsOK, NEW t \in Tasks, Return(t)
  PROVE  LocalsOK'
  BY DEF TasksOK, LocalsOK, ArgPcs, OwnPcs, DstPcs, Return, Go, Pcs

LEMMA CreatOK ==
  ASSUME StreamsOK, NEW s \in Streams, NEW n \in Names \cup {Null}, creat_stream(s, n)
  PROVE  StreamsOK'
<1>1. list' \in [Streams -> {"g_s", "d_s", "heap"}] /\ newer' \subseteq Streams \X Streams
  BY DEF StreamsOK, creat_stream
<1>2. name' \in [Streams -> Names \cup {Null}]
  BY DEF StreamsOK, creat_stream
<1>3. used' \in [Streams -> UsedStates]
  BY DEF StreamsOK, creat_stream, UsedStates, AVAILABLE
<1>4. ref' \in [Streams -> Int] /\ open_ref' \in [Streams -> Int]
  BY DEF StreamsOK, creat_stream
<1>5. s_list' \in [Streams -> [Streams -> Nat]]
  BY DEF StreamsOK, creat_stream, NoNodes
<1>6. lists' \in [Streams -> BOOLEAN] /\ frames' \in [Streams -> BOOLEAN] /\ lost' \subseteq Streams
  BY DEF StreamsOK, creat_stream
<1> QED BY <1>1, <1>2, <1>3, <1>4, <1>5, <1>6 DEF StreamsOK

LEMMA TypeInit == Init => TypeOK
<1>1. Init => StreamsOK /\ TasksOK /\ LocalsOK /\ HoldOK /\ GcOK
  BY DEF Init, StreamsOK, TasksOK, LocalsOK, HoldOK, GcOK, NoNodes,
     Pcs, ArgPcs, OwnPcs, DstPcs, UsedStates, AVAILABLE, GcPcs
<1>2. Init => crashed \in BOOLEAN /\ raced \subseteq Races
  BY DEF Init
<1> QED BY <1>1, <1>2 DEF TypeOK

(* TypeOK but for the last two variables, which no step but a crash and the *)
(* races write.                                                             *)
FieldsOK == StreamsOK /\ TasksOK /\ LocalsOK /\ HoldOK /\ GcOK

LEMMA TypeOpenFind ==
  ASSUME TypeOK, NEW t \in Tasks, NEW n \in Names, open_stream_find(t, n)
  PROVE  FieldsOK'
<1> USE DEF TypeOK, FieldsOK, registry, state, counts, task, gc, aside
<1>1. StreamsOK'
  BY FoundIsStream DEF open_stream_find, StreamsOK, Pin
<1>2. TasksOK'
  BY FoundIsStream DEF open_stream_find, Go, Pcs, TasksOK
<1>3. LocalsOK'
  BY FoundIsStream DEF open_stream_find, Go, Pcs, TasksOK, LocalsOK, ArgPcs, OwnPcs, DstPcs
<1>4. HoldOK' /\ GcOK'
  BY DEF open_stream_find, HoldOK, GcOK
<1> QED BY <1>1, <1>2, <1>3, <1>4

LEMMA TypeBindFind ==
  ASSUME TypeOK, NEW t \in Tasks, NEW n \in Names, NEW s \in Streams, bind_find(t, s, n)
  PROVE  FieldsOK'
<1> USE DEF TypeOK, FieldsOK, registry, state, counts, task, gc, aside
<1>1. StreamsOK'
  BY FoundIsStream DEF bind_find, StreamsOK, Pin
<1>2. TasksOK'
  BY FoundIsStream DEF bind_find, Go, Pcs, TasksOK
<1>3. LocalsOK'
  BY FoundIsStream DEF bind_find, Go, Pcs, TasksOK, LocalsOK, ArgPcs, OwnPcs, DstPcs
<1>4. HoldOK' /\ GcOK'
  BY DEF bind_find, HoldOK, GcOK
<1> QED BY <1>1, <1>2, <1>3, <1>4

LEMMA TypeInside ==
  ASSUME TypeOK, NEW t \in Tasks, Inside(t)
  PROVE  FieldsOK'
<1> USE DEF TypeOK, FieldsOK, registry, state, counts, task, gc, aside
<1>1. ASSUME NEW n \in Names, open_stream_find(t, n) PROVE FieldsOK'
  BY <1>1, TypeOpenFind
<1>2. ASSUME NEW n \in Names, NEW s \in Streams, bind_find(t, s, n) PROVE FieldsOK'
  BY <1>2, TypeBindFind
<1>3. CASE open_stream_check(t)
  <2>0. own[t] \in Streams
    BY <1>3 DEF open_stream_check, At, LocalsOK, ArgPcs, OwnPcs, DstPcs, Pcs
  <2>1. StreamsOK'
    BY <1>3, <2>0 DEF open_stream_check, StreamsOK, UsedStates, ISUED, Unpin
  <2>2. TasksOK'
    BY <1>3, <2>0, ReturnOK DEF open_stream_check, Go, Pcs, TasksOK
  <2>3. LocalsOK'
    BY <1>3, <2>0, ReturnLocals DEF open_stream_check, At, Go, TasksOK, LocalsOK, ArgPcs, OwnPcs, DstPcs, Pcs
  <2>4. HoldOK' /\ GcOK'
    BY <1>3, <2>0 DEF open_stream_check, HoldOK, GcOK
  <2> QED BY <2>1, <2>2, <2>3, <2>4
<1>4. CASE open_stream_create(t)
  <2>1. StreamsOK'
    BY <1>4, CreatOK DEF open_stream_create, TasksOK, StreamsOK
  <2>2. TasksOK'
    BY <1>4, ReturnOK DEF open_stream_create, Go, Pcs, TasksOK
  <2>3. LocalsOK'
    BY <1>4, ReturnLocals DEF open_stream_create, At, Go, TasksOK, LocalsOK, ArgPcs, OwnPcs, DstPcs, Pcs
  <2>4. HoldOK' /\ GcOK'
    BY <1>4 DEF open_stream_create, HoldOK, GcOK
  <2> QED BY <2>1, <2>2, <2>3, <2>4
<1>5. CASE open_stream_new_load(t)
  <2>0. own[t] \in Streams
    BY <1>5 DEF open_stream_new_load, At, LocalsOK, ArgPcs, OwnPcs, DstPcs, Pcs
  <2>1. StreamsOK'
    BY <1>5, <2>0 DEF open_stream_new_load, StreamsOK
  <2>2. TasksOK'
    BY <1>5, <2>0 DEF open_stream_new_load, Go, Pcs, TasksOK, StreamsOK
  <2>3. LocalsOK'
    BY <1>5, <2>0 DEF open_stream_new_load, At, Go, TasksOK, LocalsOK, ArgPcs, OwnPcs, DstPcs, Pcs
  <2>4. HoldOK' /\ GcOK'
    BY <1>5, <2>0 DEF open_stream_new_load, HoldOK, GcOK
  <2> QED BY <2>1, <2>2, <2>3, <2>4
<1>6. CASE open_stream_new_store(t)
  <2>0. own[t] \in Streams
    BY <1>6 DEF open_stream_new_store, At, LocalsOK, ArgPcs, OwnPcs, DstPcs, Pcs
  <2>1. StreamsOK'
    BY <1>6, <2>0 DEF open_stream_new_store, StreamsOK, TasksOK
  <2>2. TasksOK'
    BY <1>6, <2>0 DEF open_stream_new_store, Go, Pcs, TasksOK
  <2>3. LocalsOK'
    BY <1>6, <2>0 DEF open_stream_new_store, At, Go, TasksOK, LocalsOK, ArgPcs, OwnPcs, DstPcs, Pcs
  <2>4. HoldOK' /\ GcOK'
    BY <1>6, <2>0 DEF open_stream_new_store, HoldOK, GcOK
  <2> QED BY <2>1, <2>2, <2>3, <2>4
<1>7. CASE open_stream_new_issue(t)
  <2>0. own[t] \in Streams
    BY <1>7 DEF open_stream_new_issue, At, LocalsOK, ArgPcs, OwnPcs, DstPcs, Pcs
  <2>1. StreamsOK'
    BY <1>7, <2>0 DEF open_stream_new_issue, StreamsOK, UsedStates, ISUED
  <2>2. TasksOK'
    BY <1>7, <2>0 DEF open_stream_new_issue, Go, Pcs, TasksOK
  <2>3. LocalsOK'
    BY <1>7, <2>0 DEF open_stream_new_issue, At, Go, TasksOK, LocalsOK, ArgPcs, OwnPcs, DstPcs, Pcs
  <2>4. HoldOK' /\ GcOK'
    BY <1>7, <2>0 DEF open_stream_new_issue, HoldOK, GcOK
  <2> QED BY <2>1, <2>2, <2>3, <2>4
<1>8. CASE open_stream_init(t)
  <2>0. own[t] \in Streams
    BY <1>8 DEF open_stream_init, At, LocalsOK, ArgPcs, OwnPcs, DstPcs, Pcs
  <2>1. StreamsOK'
    BY <1>8, <2>0 DEF open_stream_init, StreamsOK
  <2>2. TasksOK'
    BY <1>8, <2>0, NamesAssumption DEF open_stream_init, Go, Pcs, TasksOK
  <2>3. LocalsOK'
    BY <1>8, <2>0, NamesAssumption DEF open_stream_init, At, Go, TasksOK, LocalsOK, ArgPcs, OwnPcs, DstPcs, Pcs
  <2>4. HoldOK' /\ GcOK'
    BY <1>8, <2>0 DEF open_stream_init, HoldOK, GcOK, Take
  <2> QED BY <2>1, <2>2, <2>3, <2>4
<1>9. CASE get_stream_check(t)
  <2>0. own[t] \in Streams
    BY <1>9 DEF get_stream_check, Check, At, LocalsOK, ArgPcs, OwnPcs, DstPcs, Pcs
  <2>1. StreamsOK'
    BY <1>9, <2>0 DEF get_stream_check, StreamsOK, Check
  <2>2. TasksOK'
    BY <1>9, <2>0, ReturnOK DEF get_stream_check, Go, Pcs, TasksOK, Check
  <2>3. LocalsOK'
    BY <1>9, <2>0, ReturnLocals DEF get_stream_check, Check, At, Go, TasksOK, LocalsOK, ArgPcs, OwnPcs, DstPcs, Pcs
  <2>4. HoldOK' /\ GcOK'
    BY <1>9, <2>0 DEF get_stream_check, HoldOK, GcOK, Check, Take
  <2> QED BY <2>1, <2>2, <2>3, <2>4
<1>10. CASE open_available_check(t)
  <2>0. own[t] \in Streams
    BY <1>10 DEF open_available_check, Check, At, LocalsOK, ArgPcs, OwnPcs, DstPcs, Pcs
  <2>1. StreamsOK'
    BY <1>10, <2>0 DEF open_available_check, StreamsOK, Check
  <2>2. TasksOK'
    BY <1>10, <2>0, ReturnOK DEF open_available_check, Go, Pcs, TasksOK, Check
  <2>3. LocalsOK'
    BY <1>10, <2>0, ReturnLocals DEF open_available_check, Check, At, Go, TasksOK, LocalsOK, ArgPcs, OwnPcs, DstPcs, Pcs
  <2>4. HoldOK' /\ GcOK'
    BY <1>10, <2>0 DEF open_available_check, HoldOK, GcOK, Check, Take
  <2> QED BY <2>1, <2>2, <2>3, <2>4
<1>11. CASE lookup_undo(t)
  <2>0. own[t] \in Streams
    BY <1>11 DEF lookup_undo, At, LocalsOK, ArgPcs, OwnPcs, DstPcs, Pcs
  <2>1. StreamsOK'
    BY <1>11, <2>0 DEF lookup_undo, StreamsOK, Unpin
  <2>2. TasksOK'
    BY <1>11, <2>0, ReturnOK DEF lookup_undo, Go, Pcs, TasksOK
  <2>3. LocalsOK'
    BY <1>11, <2>0, ReturnLocals DEF lookup_undo, At, Go, TasksOK, LocalsOK, ArgPcs, OwnPcs, DstPcs, Pcs
  <2>4. HoldOK' /\ GcOK'
    BY <1>11, <2>0 DEF lookup_undo, HoldOK, GcOK
  <2> QED BY <2>1, <2>2, <2>3, <2>4
<1>12. CASE bind_check(t)
  <2>0. dst[t] \in Streams
    BY <1>12 DEF bind_check, At, LocalsOK, ArgPcs, OwnPcs, DstPcs, Pcs
  <2>1. StreamsOK'
    BY <1>12, <2>0 DEF bind_check, StreamsOK, Unpin
  <2>2. TasksOK'
    BY <1>12, <2>0, ReturnOK DEF bind_check, Go, Pcs, TasksOK
  <2>3. LocalsOK'
    BY <1>12, <2>0, ReturnLocals DEF bind_check, At, Go, TasksOK, LocalsOK, ArgPcs, OwnPcs, DstPcs, Pcs
  <2>4. HoldOK' /\ GcOK'
    BY <1>12, <2>0 DEF bind_check, HoldOK, GcOK
  <2> QED BY <2>1, <2>2, <2>3, <2>4
<1>13. CASE bind_link(t)
  <2>0. own[t] \in Streams /\ dst[t] \in Streams
    BY <1>13 DEF bind_link, At, LocalsOK, ArgPcs, OwnPcs, DstPcs, Pcs
  <2>1. StreamsOK'
    BY <1>13, <2>0 DEF bind_link, StreamsOK, Link
  <2>2. TasksOK'
    BY <1>13, <2>0 DEF bind_link, Go, Pcs, TasksOK
  <2>3. LocalsOK'
    BY <1>13, <2>0 DEF bind_link, At, Go, TasksOK, LocalsOK, ArgPcs, OwnPcs, DstPcs, Pcs
  <2>4. HoldOK' /\ GcOK'
    BY <1>13, <2>0 DEF bind_link, HoldOK, GcOK
  <2> QED BY <2>1, <2>2, <2>3, <2>4
<1>14. CASE bind_undo(t)
  <2>0. dst[t] \in Streams
    BY <1>14 DEF bind_undo, At, LocalsOK, ArgPcs, OwnPcs, DstPcs, Pcs
  <2>1. StreamsOK'
    BY <1>14, <2>0 DEF bind_undo, StreamsOK
  <2>2. TasksOK'
    BY <1>14, <2>0 DEF bind_undo, Go, Pcs, TasksOK
  <2>3. LocalsOK'
    BY <1>14, <2>0 DEF bind_undo, At, Go, TasksOK, LocalsOK, ArgPcs, OwnPcs, DstPcs, Pcs
  <2>4. HoldOK' /\ GcOK'
    BY <1>14, <2>0 DEF bind_undo, HoldOK, GcOK
  <2> QED BY <2>1, <2>2, <2>3, <2>4
<1>15. CASE bind_drop(t)
  <2>0. dst[t] \in Streams
    BY <1>15 DEF bind_drop, At, LocalsOK, ArgPcs, OwnPcs, DstPcs, Pcs
  <2>1. StreamsOK'
    BY <1>15, <2>0 DEF bind_drop, StreamsOK
  <2>2. TasksOK'
    BY <1>15, <2>0, ReturnOK DEF bind_drop, Go, Pcs, TasksOK
  <2>3. LocalsOK'
    BY <1>15, <2>0, ReturnLocals DEF bind_drop, At, Go, TasksOK, LocalsOK, ArgPcs, OwnPcs, DstPcs, Pcs
  <2>4. HoldOK' /\ GcOK'
    BY <1>15, <2>0 DEF bind_drop, HoldOK, GcOK
  <2> QED BY <2>1, <2>2, <2>3, <2>4
<1>16. CASE bind_create(t)
  <2>1. StreamsOK'
    BY <1>16, CreatOK DEF bind_create, TasksOK, StreamsOK
  <2>2. TasksOK'
    BY <1>16, ReturnOK DEF bind_create, Go, Pcs, TasksOK
  <2>3. LocalsOK'
    BY <1>16, ReturnLocals DEF bind_create, At, Go, TasksOK, LocalsOK, ArgPcs, OwnPcs, DstPcs, Pcs
  <2>4. HoldOK' /\ GcOK'
    BY <1>16 DEF bind_create, HoldOK, GcOK
  <2> QED BY <2>1, <2>2, <2>3, <2>4
<1>17. CASE bind_new(t)
  <2>0. own[t] \in Streams /\ dst[t] \in Streams
    BY <1>17 DEF bind_new, At, LocalsOK, ArgPcs, OwnPcs, DstPcs, Pcs
  <2>1. StreamsOK'
    <3>1. s_list' \in [Streams -> [Streams -> Nat]]
      <4>1. CASE Link(own[t], dst[t])
        BY <2>0, <4>1 DEF StreamsOK, Link
      <4>2. CASE s_list' = s_list
        BY <4>2 DEF StreamsOK
      <4> QED BY <1>17, <4>1, <4>2 DEF bind_new
    <3>2. lost' \subseteq Streams
      BY <1>17, <2>0 DEF bind_new, StreamsOK
    <3> QED BY <1>17, <3>1, <3>2 DEF bind_new, StreamsOK
  <2>2. TasksOK'
    BY <1>17, <2>0, ReturnOK DEF bind_new, Go, Pcs, TasksOK
  <2>3. LocalsOK'
    BY <1>17, <2>0, ReturnLocals DEF bind_new, At, Go, TasksOK, LocalsOK, ArgPcs, OwnPcs, DstPcs, Pcs
  <2>4. HoldOK' /\ GcOK'
    BY <1>17, <2>0 DEF bind_new, HoldOK, GcOK
  <2> QED BY <2>1, <2>2, <2>3, <2>4
<1>18. CASE close_stream_load(t)
  <2>0. own[t] \in Streams
    BY <1>18 DEF close_stream_load, At, LocalsOK, ArgPcs, OwnPcs, DstPcs, Pcs
  <2>1. StreamsOK'
    BY <1>18, <2>0 DEF close_stream_load, StreamsOK
  <2>2. TasksOK'
    BY <1>18, <2>0 DEF close_stream_load, Go, Pcs, TasksOK, StreamsOK
  <2>3. LocalsOK'
    BY <1>18, <2>0 DEF close_stream_load, At, Go, TasksOK, LocalsOK, ArgPcs, OwnPcs, DstPcs, Pcs
  <2>4. HoldOK' /\ GcOK'
    BY <1>18, <2>0 DEF close_stream_load, HoldOK, GcOK
  <2> QED BY <2>1, <2>2, <2>3, <2>4
<1>19. CASE close_stream_store(t)
  <2>0. own[t] \in Streams
    BY <1>19 DEF close_stream_store, At, LocalsOK, ArgPcs, OwnPcs, DstPcs, Pcs
  <2>1. StreamsOK'
    BY <1>19, <2>0 DEF close_stream_store, StreamsOK, TasksOK
  <2>2. TasksOK'
    BY <1>19, <2>0 DEF close_stream_store, Go, Pcs, TasksOK
  <2>3. LocalsOK'
    BY <1>19, <2>0 DEF close_stream_store, At, Go, TasksOK, LocalsOK, ArgPcs, OwnPcs, DstPcs, Pcs
  <2>4. HoldOK' /\ GcOK'
    BY <1>19, <2>0 DEF close_stream_store, HoldOK, GcOK
  <2> QED BY <2>1, <2>2, <2>3, <2>4
<1>20. CASE close_stream_mark(t)
  <2>0. own[t] \in Streams
    BY <1>20 DEF close_stream_mark, At, LocalsOK, ArgPcs, OwnPcs, DstPcs, Pcs
  <2>1. StreamsOK'
    BY <1>20, <2>0 DEF close_stream_mark, StreamsOK, UsedStates, WAIT_GC_MARKER
  <2>2. TasksOK'
    BY <1>20, <2>0, ReturnOK DEF close_stream_mark, Go, Pcs, TasksOK
  <2>3. LocalsOK'
    BY <1>20, <2>0, ReturnLocals DEF close_stream_mark, At, Go, TasksOK, LocalsOK, ArgPcs, OwnPcs, DstPcs, Pcs
  <2>4. HoldOK' /\ GcOK'
    BY <1>20, <2>0 DEF close_stream_mark, HoldOK, GcOK
  <2> QED BY <2>1, <2>2, <2>3, <2>4
<1> QED
  BY <1>1, <1>2, <1>3, <1>4, <1>5, <1>6, <1>7, <1>8, <1>9, <1>10, <1>11, <1>12, <1>13, <1>14, <1>15, <1>16, <1>17, <1>18, <1>19, <1>20 DEF Inside

LEMMA TypeCall ==
  ASSUME TypeOK, NEW t \in Tasks, Call(t)
  PROVE  FieldsOK'
<1> USE DEF TypeOK, FieldsOK, registry, state, counts, task, gc, aside
<1>1. ASSUME NEW n \in Names, open_stream_find(t, n) PROVE FieldsOK'
  BY <1>1, TypeOpenFind
<1>2. ASSUME NEW n \in Dests, NEW s \in Streams, bind_find(t, s, n) PROVE FieldsOK'
  BY <1>2, TypeBindFind, NamesAssumption
<1>3. ASSUME NEW n \in Names, NEW p \in {"get_check", "avail_check"}, Lookup(t, n, p)
      PROVE FieldsOK'
  <2>1. StreamsOK'
    BY <1>3, FoundIsStream DEF Lookup, StreamsOK, Pin
  <2>2. TasksOK'
    BY <1>3, FoundIsStream DEF Lookup, Go, Pcs, TasksOK
  <2>3. LocalsOK'
    BY <1>3, FoundIsStream DEF Lookup, Go, Pcs, TasksOK, LocalsOK, ArgPcs, OwnPcs, DstPcs
  <2>4. HoldOK' /\ GcOK'
    BY <1>3 DEF Lookup, HoldOK, GcOK
  <2> QED BY <2>1, <2>2, <2>3, <2>4
<1>4. ASSUME NEW s \in Streams, open_stream_again(t, s) PROVE FieldsOK'
  <2>1. StreamsOK'
    BY <1>4 DEF open_stream_again, StreamsOK, Pin
  <2>2. TasksOK' /\ LocalsOK'
    BY <1>4 DEF open_stream_again, TasksOK, LocalsOK
  <2>3. HoldOK' /\ GcOK'
    BY <1>4 DEF open_stream_again, HoldOK, GcOK, Take
  <2> QED BY <2>1, <2>2, <2>3
<1>5. ASSUME NEW s \in Streams, close_stream_drop(t, s) PROVE FieldsOK'
  <2>1. StreamsOK'
    BY <1>5 DEF close_stream_drop, StreamsOK, Unpin, UsedStates, UNAVAILABLE
  <2>2. TasksOK'
    BY <1>5 DEF close_stream_drop, Go, Pcs, TasksOK
  <2>3. LocalsOK'
    BY <1>5 DEF close_stream_drop, At, Go, Pcs, TasksOK, LocalsOK, ArgPcs, OwnPcs, DstPcs
  <2>4. HoldOK' /\ GcOK'
    BY <1>5 DEF close_stream_drop, HoldOK, GcOK
  <2> QED BY <2>1, <2>2, <2>3, <2>4
<1>6. ASSUME NEW s \in Streams, send_frame(t, s) PROVE FieldsOK'
  BY <1>6 DEF send_frame, StreamsOK, TasksOK, LocalsOK, HoldOK, GcOK
<1> QED
  BY <1>1, <1>2, <1>3, <1>4, <1>5, <1>6
  DEF Call, get_stream_find, open_available_find

LEMMA TypeGc ==
  ASSUME TypeOK, GcStep \/ \E s \in Streams : free_frame(s)
  PROVE  FieldsOK'
<1> USE DEF TypeOK, FieldsOK, registry, state, counts, task, gc, aside
<1>1. TasksOK' /\ LocalsOK' /\ HoldOK'
  BY DEF GcStep, free_frame, mark_visit, mark_unbind, mark_lists, mark_ref,
     mark_again, mark_clean, clean_unlink, clean_free, TasksOK, LocalsOK, HoldOK
<1>2. GcOK'
  BY DEF GcStep, free_frame, mark_visit, mark_unbind, mark_lists, mark_ref,
     mark_again, mark_clean, clean_unlink, clean_free, GcOK, GcPcs
<1>3. ASSUME NEW s \in Streams, free_frame(s) \/ mark_visit(s) \/ clean_free(s)
      PROVE  StreamsOK'
  BY <1>3 DEF free_frame, mark_visit, clean_free, StreamsOK, UsedStates, AVAILABLE
<1>4. ASSUME mark_unbind PROVE StreamsOK'
  <2>1. PICK d \in Streams : /\ s_list[gs][d] > 0
                            /\ s_list' = [s_list EXCEPT ![gs][d] = @ - 1]
                            /\ ref' = [ref EXCEPT ![d] = @ - 1]
    BY <1>4 DEF mark_unbind
  <2>2. s_list' \in [Streams -> [Streams -> Nat]]
    <3>1. s_list \in [Streams -> [Streams -> Nat]]
      BY DEF StreamsOK
    <3>2. CASE gs \in Streams
      <4>1. s_list[gs] \in [Streams -> Nat]
        BY <3>1, <3>2
      <4>2. s_list[gs][d] - 1 \in Nat
        BY <2>1, <4>1
      <4>3. [s_list[gs] EXCEPT ![d] = @ - 1] \in [Streams -> Nat]
        BY <4>1, <4>2
      <4> QED BY <2>1, <3>1, <3>2, <4>3
    <3>3. CASE gs \notin Streams
      BY <2>1, <3>1, <3>3
    <3> QED BY <3>2, <3>3
  <2>3. ref' \in [Streams -> Int]
    BY <2>1 DEF StreamsOK
  <2> QED BY <1>4, <2>2, <2>3 DEF mark_unbind, StreamsOK
<1>5. ASSUME mark_lists PROVE StreamsOK'
  BY <1>5 DEF mark_lists, StreamsOK
<1>6. ASSUME mark_ref \/ mark_again PROVE StreamsOK'
  BY <1>6 DEF mark_ref, mark_again, StreamsOK, UsedStates, WAIT_GC_CLEAN, AVAILABLE_AGAIN
<1>7. ASSUME mark_clean PROVE StreamsOK'
  BY <1>7 DEF mark_clean, StreamsOK, UsedStates, WAIT_GC_CLEAN
<1>8. ASSUME clean_unlink PROVE StreamsOK'
  <2> DEFINE condemned == {s \in Streams : list[s] = "g_s" /\ used[s] = WAIT_GC_CLEAN}
  <2>1. list' \in [Streams -> {"g_s", "d_s", "heap"}]
    BY <1>8 DEF clean_unlink, StreamsOK
  <2>2. newer' \subseteq newer
    BY <1>8 DEF clean_unlink
  <2> QED BY <1>8, <2>1, <2>2 DEF clean_unlink, StreamsOK
<1> QED
  BY <1>1, <1>2, <1>3, <1>4, <1>5, <1>6, <1>7, <1>8 DEF GcStep

LEMMA RaceOK ==
  ASSUME raced \subseteq Races, NEW k \in Races, NEW b, Race(k, b)
  PROVE  raced \subseteq raced' /\ raced' \subseteq Races
  BY DEF Race

(* A race that has been met stays met.                                       *)
LEMMA AsideStep ==
  ASSUME TypeOK, [Next]_vars
  PROVE  crashed' \in BOOLEAN /\ raced \subseteq raced' /\ raced' \subseteq Races
<1> USE DEF aside
<1> DEFINE Kept == crashed' \in BOOLEAN /\ raced \subseteq raced' /\ raced' \subseteq Races
<1>0. crashed \in BOOLEAN /\ raced \subseteq Races /\ \A k \in Races : k \in Races
  BY DEF TypeOK
<1>a. {"torn", "freed", "early", "twin"} \subseteq Races
  BY DEF Races
<1>1. ASSUME NEW s, NEW n, creat_stream(s, n), UNCHANGED crashed PROVE Kept
  BY <1>0, <1>a, <1>1, RaceOK DEF creat_stream
<1>2. ASSUME NEW t, Inside(t) PROVE Kept
  <2>1. ASSUME NEW n, NEW s, open_stream_find(t, n) \/ bind_find(t, s, n) PROVE Kept
    BY <1>0, <2>1 DEF open_stream_find, bind_find
  <2>2. ASSUME open_stream_check(t) PROVE Kept
    BY <1>0, <1>a, <2>2, RaceOK DEF open_stream_check
  <2>3. ASSUME open_stream_create(t) \/ bind_create(t) PROVE Kept
    BY <1>0, <1>1, <2>3 DEF open_stream_create, bind_create
  <2>4. ASSUME open_stream_new_store(t) \/ close_stream_store(t) PROVE Kept
    BY <1>0, <1>a, <2>4, RaceOK DEF open_stream_new_store, close_stream_store
  <2>5. ASSUME \/ open_stream_new_load(t) \/ open_stream_new_issue(t) \/ open_stream_init(t)
               \/ get_stream_check(t) \/ open_available_check(t) \/ lookup_undo(t)
               \/ bind_check(t) \/ bind_link(t) \/ bind_undo(t) \/ bind_drop(t) \/ bind_new(t)
               \/ close_stream_load(t) \/ close_stream_mark(t)
        PROVE  Kept
    BY <1>0, <2>5 DEF open_stream_new_load, open_stream_new_issue, open_stream_init,
       get_stream_check, open_available_check, Check, lookup_undo, bind_check, bind_link,
       bind_undo, bind_drop, bind_new, close_stream_load, close_stream_mark
  <2>6. ASSUME NEW n, open_stream_find(t, n) PROVE Kept
    BY <1>0, <2>6 DEF open_stream_find
  <2> HIDE DEF Kept
  <2> QED BY <1>2, <2>1, <2>2, <2>3, <2>4, <2>5, <2>6 DEF Inside
<1>3. ASSUME NEW t, Call(t) PROVE Kept
  <2>1. UNCHANGED <<crashed, raced>>
    BY <1>3 DEF Call, open_stream_find, get_stream_find, open_available_find, Lookup,
       open_stream_again, close_stream_drop, send_frame, bind_find
  <2> QED BY <1>0, <2>1
<1>4. ASSUME NEW t, crash(t) PROVE Kept
  BY <1>0, <1>4 DEF crash
<1>9. ASSUME NEW s \in Streams, free_frame(s) PROVE Kept
  BY <1>0, <1>9 DEF free_frame
<1>5. ASSUME GcStep PROVE Kept
  <2>1. ASSUME clean_unlink PROVE Kept
    BY <1>0, <1>a, <2>1, RaceOK DEF clean_unlink
  <2>2. ASSUME ~clean_unlink PROVE UNCHANGED <<crashed, raced>>
    BY <1>5, <2>2 DEF GcStep, mark_visit, mark_unbind, mark_lists, mark_ref,
       mark_again, mark_clean, clean_free
  <2> QED BY <1>0, <2>1, <2>2
<1>6. ASSUME UNCHANGED vars PROVE Kept
  BY <1>0, <1>6 DEF vars
<1> HIDE DEF Kept
<1>7. ASSUME Next PROVE Kept
  BY <1>2, <1>3, <1>4, <1>5, <1>7, <1>9 DEF Next
<1>8. Kept
  BY <1>6, <1>7
<1> QED BY <1>8 DEF Kept

(* Every variable keeps its type, and a task in the middle of a call has the *)
(* stream and the name that the rest of the call works on.                   *)
THEOREM TypeCorrect == Spec => []TypeOK
<1>1. Init => TypeOK
  BY TypeInit
<1>2. TypeOK /\ [Next]_vars => TypeOK'
  <2> SUFFICES ASSUME TypeOK, [Next]_vars PROVE TypeOK'
    OBVIOUS
  <2>1. ASSUME NEW t \in Tasks, crash(t) PROVE FieldsOK'
    BY <2>1 DEF crash, registry, state, counts, task, gc, TypeOK, FieldsOK, StreamsOK,
       TasksOK, LocalsOK, HoldOK, GcOK
  <2>2. ASSUME UNCHANGED vars PROVE FieldsOK'
    BY <2>2 DEF vars, registry, state, counts, task, gc, aside, TypeOK, FieldsOK, StreamsOK,
       TasksOK, LocalsOK, HoldOK, GcOK
  <2>3. ASSUME Next PROVE FieldsOK'
    BY <2>1, <2>3, TypeInside, TypeCall, TypeGc DEF Next
  <2>4. FieldsOK'
    BY <2>2, <2>3
  <2> QED BY <2>4, AsideStep DEF TypeOK, FieldsOK
<1> QED BY <1>1, <1>2, PTL DEF Spec

-----------------------------------------------------------------------------
(* Counting.  Tokens(h, s) has one element for each unit of each h[x][s], so *)
(* when one x changes the cardinality changes by as much.                   *)
Counters(D) == [D -> [Streams -> Nat]]

LEMMA TokensFinite ==
  ASSUME NEW D, IsFiniteSet(D), NEW h \in Counters(D), NEW s \in Streams
  PROVE  IsFiniteSet(Tokens(h, s))
<1> DEFINE B(x) == {x} \X (1 .. h[x][s])
<1>1. \A x \in D : IsFiniteSet(B(x))
  <2> TAKE x \in D
  <2>1. IsFiniteSet({x})
    BY FS_Singleton
  <2>2. h[x][s] \in Int
    BY DEF Counters
  <2>3. IsFiniteSet(1 .. h[x][s])
    BY <2>2, FS_Interval
  <2> QED BY <2>1, <2>3, FS_Product
<1>2. IsFiniteSet({B(x) : x \in D})
  <2> DEFINE T == {B(x) : x \in D}
             f == [x \in D |-> B(x)]
  <2>1. f \in Surjection(D, T)
    BY DEF Surjection
  <2> QED BY <2>1, FS_Surjection
<1>3. \A T \in {B(x) : x \in D} : IsFiniteSet(T)
  BY <1>1
<1>4. IsFiniteSet(UNION {B(x) : x \in D})
  BY <1>2, <1>3, FS_UNION
<1> QED BY <1>4 DEF Tokens, Counters

LEMMA UpTo ==
  ASSUME NEW n \in Nat
  PROVE  IsFiniteSet(1 .. n) /\ Cardinality(1 .. n) = n
<1>1. /\ IsFiniteSet(1 .. n)
      /\ Cardinality(1 .. n) = IF 1 > n THEN 0 ELSE n - 1 + 1
  BY FS_Interval
<1> QED BY <1>1

(* What Tokens(h, s) has of x, and what it has of the others. *)
LEMMA TokensSplit ==
  ASSUME NEW D, IsFiniteSet(D), NEW h \in Counters(D),
         NEW x \in D, NEW s \in Streams,
         NEW Rest, Rest = UNION {{y} \X (1 .. h[y][s]) : y \in D \ {x}}
  PROVE  /\ IsFiniteSet(Rest) /\ Cardinality(Rest) \in Nat
         /\ Cardinality(Tokens(h, s)) = Cardinality(Rest) + h[x][s]
<1> DEFINE Mine == {x} \X (1 .. h[x][s])
<1>1. h[x][s] \in Nat
  BY DEF Counters
<1>2. IsFiniteSet(1 .. h[x][s]) /\ Cardinality(1 .. h[x][s]) = h[x][s]
  BY <1>1, UpTo
<1>3. IsFiniteSet({x}) /\ Cardinality({x}) = 1
  BY FS_Singleton
<1>4. IsFiniteSet(Mine) /\ Cardinality(Mine) = h[x][s]
  <2>1. /\ IsFiniteSet({x} \X (1 .. h[x][s]))
        /\ Cardinality({x} \X (1 .. h[x][s])) = Cardinality({x}) * Cardinality(1 .. h[x][s])
    <3> HIDE DEF Mine
    <3> QED BY <1>2, <1>3, FS_Product, Zenon
  <2>2. 1 * h[x][s] = h[x][s]
    BY <1>1
  <2> QED BY <2>1, <2>2, <1>2, <1>3
<1>5. Tokens(h, s) = Rest \cup Mine
  BY DEF Tokens, Counters
<1>6. Rest \in SUBSET Tokens(h, s)
  BY <1>5
<1>7. IsFiniteSet(Rest)
  BY <1>6, TokensFinite, FS_Subset
<1>8. Rest \cap Mine = {}
  OBVIOUS
<1>9. Cardinality(Rest \cap Mine) = 0
  BY <1>8, FS_EmptySet
<1>10. Cardinality(Rest) \in Nat /\ Cardinality(Mine) \in Nat
  BY <1>4, <1>7, FS_CardinalityType
<1>11. Cardinality(Rest \cup Mine) = Cardinality(Rest) + Cardinality(Mine) - Cardinality(Rest \cap Mine)
  BY <1>4, <1>7, FS_Union
<1> HIDE DEF Mine
<1>12. Cardinality(Rest \cup Mine) = Cardinality(Rest) + h[x][s]
  BY <1>11, <1>9, <1>10, <1>4, <1>1
<1> QED BY <1>7, <1>10, <1>5, <1>12

LEMMA TokensBound ==
  ASSUME NEW D, IsFiniteSet(D), NEW h \in Counters(D), NEW s \in Streams
  PROVE  /\ Cardinality(Tokens(h, s)) \in Nat
         /\ \A x \in D : Cardinality(Tokens(h, s)) >= h[x][s]
<1>1. Cardinality(Tokens(h, s)) \in Nat
  BY TokensFinite, FS_CardinalityType
<1>2. ASSUME NEW x \in D PROVE Cardinality(Tokens(h, s)) >= h[x][s]
  <2> DEFINE Rest == UNION {{y} \X (1 .. h[y][s]) : y \in D \ {x}}
  <2>1. Cardinality(Rest) \in Nat /\ Cardinality(Tokens(h, s)) = Cardinality(Rest) + h[x][s]
    BY TokensSplit
  <2>2. h[x][s] \in Nat
    BY DEF Counters
  <2> HIDE DEF Rest
  <2> QED BY <2>1, <2>2
<1> QED BY <1>1, <1>2

LEMMA TokensChange ==
  ASSUME NEW D, IsFiniteSet(D), NEW x \in D, NEW s \in Streams,
         NEW h \in Counters(D), NEW g \in Counters(D),
         \A y \in D \ {x} : g[y][s] = h[y][s]
  PROVE  Cardinality(Tokens(g, s)) = Cardinality(Tokens(h, s)) + g[x][s] - h[x][s]
<1> DEFINE Rest == UNION {{y} \X (1 .. h[y][s]) : y \in D \ {x}}
           Same == UNION {{y} \X (1 .. g[y][s]) : y \in D \ {x}}
<1>1. Same = Rest
  <2>1. ASSUME NEW e PROVE e \in Same <=> e \in Rest
    OBVIOUS
  <2> QED BY <2>1
<1>2. Cardinality(Rest) \in Nat /\ Cardinality(Tokens(h, s)) = Cardinality(Rest) + h[x][s]
  BY TokensSplit
<1>3. Cardinality(Tokens(g, s)) = Cardinality(Same) + g[x][s]
  BY TokensSplit
<1>4. h[x][s] \in Nat /\ g[x][s] \in Nat
  BY DEF Counters
<1> HIDE DEF Rest, Same
<1> QED BY <1>1, <1>2, <1>3, <1>4

(* Using(at, o, P, s) counts tasks, one for each that is in P with s. *)
Unit(b) == IF b THEN 1 ELSE 0

LEMMA UsingBound ==
  ASSUME NEW at, NEW o, NEW P, NEW s
  PROVE  /\ IsFiniteSet(Using(at, o, P, s))
         /\ Cardinality(Using(at, o, P, s)) \in Nat
         /\ \A t \in Tasks : o[t] = s /\ at[t] \in P => Cardinality(Using(at, o, P, s)) > 0
<1>1. Using(at, o, P, s) \in SUBSET Tasks
  BY DEF Using
<1>2. IsFiniteSet(Using(at, o, P, s))
  BY <1>1, StreamsAssumption, FS_Subset
<1>3. Cardinality(Using(at, o, P, s)) \in Nat
  BY <1>2, FS_CardinalityType
<1>4. Cardinality(Using(at, o, P, s)) = 0 => Using(at, o, P, s) = {}
  BY <1>2, FS_EmptySet
<1>5. ASSUME NEW t \in Tasks, o[t] = s, at[t] \in P
      PROVE  Cardinality(Using(at, o, P, s)) > 0
  <2>1. t \in Using(at, o, P, s)
    BY <1>5 DEF Using
  <2>2. Cardinality(Using(at, o, P, s)) # 0
    BY <2>1, <1>4
  <2> QED BY <2>2, <1>3
<1> QED BY <1>2, <1>3, <1>5

LEMMA UsingChange ==
  ASSUME NEW t \in Tasks, NEW at, NEW o, NEW to, NEW o2, NEW P, NEW s,
         \A u \in Tasks \ {t} : to[u] = at[u] /\ o2[u] = o[u]
  PROVE  Cardinality(Using(to, o2, P, s)) = Cardinality(Using(at, o, P, s))
           + Unit(o2[t] = s /\ to[t] \in P) - Unit(o[t] = s /\ at[t] \in P)
<1> DEFINE A == Using(at, o, P, s)
           B == Using(to, o2, P, s)
<1>1. A \ {t} = B \ {t}
  BY DEF Using
<1>2. IsFiniteSet(A) /\ IsFiniteSet(B) /\ Cardinality(A) \in Nat /\ Cardinality(B) \in Nat
  BY UsingBound
<1>3. Cardinality(A \ {t}) = IF t \in A THEN Cardinality(A) - 1 ELSE Cardinality(A)
  BY <1>2, FS_RemoveElement
<1>4. Cardinality(B \ {t}) = IF t \in B THEN Cardinality(B) - 1 ELSE Cardinality(B)
  BY <1>2, FS_RemoveElement
<1>5. t \in A <=> o[t] = s /\ at[t] \in P
  BY DEF Using
<1>6. t \in B <=> o2[t] = s /\ to[t] \in P
  BY DEF Using
<1> HIDE DEF A, B
<1>7. Cardinality(B) = Cardinality(A) + Unit(t \in B) - Unit(t \in A)
  BY <1>1, <1>2, <1>3, <1>4 DEF Unit
<1>8. Unit(t \in B) = Unit(o2[t] = s /\ to[t] \in P) /\ Unit(t \in A) = Unit(o[t] = s /\ at[t] \in P)
  BY <1>5, <1>6 DEF Unit
<1> QED BY <1>7, <1>8 DEF A, B

LEMMA LostCount ==
  ASSUME NEW L, NEW s
  PROVE  Cardinality(L \cap {s}) = Unit(s \in L)
<1>1. CASE s \in L
  <2>1. L \cap {s} = {s}
    BY <1>1
  <2> QED BY <1>1, <2>1, FS_Singleton DEF Unit
<1>2. CASE s \notin L
  <2>1. L \cap {s} = {}
    BY <1>2
  <2> QED BY <1>2, <2>1, FS_EmptySet DEF Unit
<1> QED BY <1>1, <1>2

-----------------------------------------------------------------------------
(* A stream with a handle, a binding, a call under way or a lost reference   *)
(* has a count above 0: in a state, and in the next one.                     *)

LEMMA Some ==
  ASSUME TypeOK, NEW s \in Streams
  PROVE  /\ Refs(s) \in Nat /\ Opens(s) \in Nat
         /\ \A t \in Tasks : hold[t][s] > 0 => Refs(s) > 0 /\ Opens(s) > 0
         /\ \A x \in Streams : s_list[x][s] > 0 => Refs(s) > 0
         /\ \A t \in Tasks : own[t] = s /\ pc[t] \in OwnRefPcs => Refs(s) > 0
         /\ \A t \in Tasks : dst[t] = s /\ pc[t] \in DstRefPcs => Refs(s) > 0
         /\ \A t \in Tasks : own[t] = s /\ pc[t] \in OwnPins => Opens(s) > 0
         /\ \A t \in Tasks : dst[t] = s /\ pc[t] \in DstOpenPcs => Opens(s) > 0
         /\ s \in lost => Refs(s) > 0
<1> DEFINE nH == Cardinality(Tokens(hold, s))
           nN == Cardinality(Tokens(s_list, s))
           nO == Cardinality(Using(pc, own, OwnRefPcs, s))
           nD == Cardinality(Using(pc, dst, DstRefPcs, s))
           nP == Cardinality(Using(pc, own, OwnPins, s))
           nQ == Cardinality(Using(pc, dst, DstOpenPcs, s))
           nL == Cardinality(lost \cap {s})
<1>1. nH \in Nat /\ \A t \in Tasks : nH >= hold[t][s]
  BY TokensBound, StreamsAssumption DEF Counters, TypeOK, HoldOK
<1>2. nN \in Nat /\ \A x \in Streams : nN >= s_list[x][s]
  BY TokensBound, StreamsAssumption DEF Counters, TypeOK, StreamsOK
<1>3. nO \in Nat /\ \A t \in Tasks : own[t] = s /\ pc[t] \in OwnRefPcs => nO > 0
  BY UsingBound
<1>4. nD \in Nat /\ \A t \in Tasks : dst[t] = s /\ pc[t] \in DstRefPcs => nD > 0
  BY UsingBound
<1>5. nP \in Nat /\ \A t \in Tasks : own[t] = s /\ pc[t] \in OwnPins => nP > 0
  BY UsingBound
<1>6. nQ \in Nat /\ \A t \in Tasks : dst[t] = s /\ pc[t] \in DstOpenPcs => nQ > 0
  BY UsingBound
<1>7. nL \in Nat /\ (s \in lost => nL > 0)
  BY LostCount DEF Unit
<1>8. Refs(s) = nH + nN + nO + nD + nL /\ Opens(s) = nH + nP + nQ
  BY DEF Refs, Opens
<1>9. /\ \A t \in Tasks : hold[t][s] \in Nat
      /\ \A x \in Streams : s_list[x][s] \in Nat
  BY DEF TypeOK, HoldOK, StreamsOK
<1> HIDE DEF nH, nN, nO, nD, nP, nQ, nL
<1> QED BY <1>1, <1>2, <1>3, <1>4, <1>5, <1>6, <1>7, <1>8, <1>9

LEMMA SomeNext ==
  ASSUME TypeOK', NEW s \in Streams
  PROVE  /\ Refs(s)' \in Nat /\ Opens(s)' \in Nat
         /\ \A t \in Tasks : hold'[t][s] > 0 => Refs(s)' > 0 /\ Opens(s)' > 0
         /\ \A x \in Streams : s_list'[x][s] > 0 => Refs(s)' > 0
         /\ \A t \in Tasks : own'[t] = s /\ pc'[t] \in OwnRefPcs => Refs(s)' > 0
         /\ \A t \in Tasks : dst'[t] = s /\ pc'[t] \in DstRefPcs => Refs(s)' > 0
         /\ \A t \in Tasks : own'[t] = s /\ pc'[t] \in OwnPins => Opens(s)' > 0
         /\ \A t \in Tasks : dst'[t] = s /\ pc'[t] \in DstOpenPcs => Opens(s)' > 0
         /\ s \in lost' => Refs(s)' > 0
<1> DEFINE nH == Cardinality(Tokens(hold, s))'
           nN == Cardinality(Tokens(s_list, s))'
           nO == Cardinality(Using(pc, own, OwnRefPcs, s))'
           nD == Cardinality(Using(pc, dst, DstRefPcs, s))'
           nP == Cardinality(Using(pc, own, OwnPins, s))'
           nQ == Cardinality(Using(pc, dst, DstOpenPcs, s))'
           nL == Cardinality(lost \cap {s})'
<1>1. nH \in Nat /\ \A t \in Tasks : nH >= hold'[t][s]
  BY TokensBound, StreamsAssumption DEF Counters, TypeOK, HoldOK
<1>2. nN \in Nat /\ \A x \in Streams : nN >= s_list'[x][s]
  BY TokensBound, StreamsAssumption DEF Counters, TypeOK, StreamsOK
<1>3. nO \in Nat /\ \A t \in Tasks : own'[t] = s /\ pc'[t] \in OwnRefPcs => nO > 0
  BY UsingBound
<1>4. nD \in Nat /\ \A t \in Tasks : dst'[t] = s /\ pc'[t] \in DstRefPcs => nD > 0
  BY UsingBound
<1>5. nP \in Nat /\ \A t \in Tasks : own'[t] = s /\ pc'[t] \in OwnPins => nP > 0
  BY UsingBound
<1>6. nQ \in Nat /\ \A t \in Tasks : dst'[t] = s /\ pc'[t] \in DstOpenPcs => nQ > 0
  BY UsingBound
<1>7. nL \in Nat /\ (s \in lost' => nL > 0)
  BY LostCount DEF Unit
<1>8. Refs(s)' = nH + nN + nO + nD + nL /\ Opens(s)' = nH + nP + nQ
  BY DEF Refs, Opens
<1>9. /\ \A t \in Tasks : hold'[t][s] \in Nat
      /\ \A x \in Streams : s_list'[x][s] \in Nat
  BY DEF TypeOK, HoldOK, StreamsOK
<1> HIDE DEF nH, nN, nO, nD, nP, nQ, nL
<1> QED BY <1>1, <1>2, <1>3, <1>4, <1>5, <1>6, <1>7, <1>8, <1>9

(* How a step changes the counts of s, seen from what it does to the handles *)
(* and the place of one task t, to the bindings of one source x and to lost. *)
OwnRef(t, s)  == Unit(own[t] = s /\ pc[t] \in OwnRefPcs)
DstRef(t, s)  == Unit(dst[t] = s /\ pc[t] \in DstRefPcs)
OwnOpen(t, s) == Unit(own[t] = s /\ pc[t] \in OwnPins)
DstOpen(t, s) == Unit(dst[t] = s /\ pc[t] \in DstOpenPcs)
Lost(s)       == Unit(s \in lost)

OnlyTask(t) == \A u \in Tasks \ {t} : /\ pc'[u] = pc[u] /\ own'[u] = own[u]
                                      /\ dst'[u] = dst[u] /\ hold'[u] = hold[u]
OnlySource(x) == \A y \in Streams \ {x} : s_list'[y] = s_list[y]

LEMMA TaskStep ==
  ASSUME TypeOK, TypeOK', NEW t \in Tasks, OnlyTask(t),
         NEW x \in Streams, OnlySource(x), NEW s \in Streams
  PROVE  /\ Refs(s)' = Refs(s) + (hold'[t][s] - hold[t][s]) + (s_list'[x][s] - s_list[x][s])
                      + (OwnRef(t, s)' - OwnRef(t, s)) + (DstRef(t, s)' - DstRef(t, s))
                      + (Lost(s)' - Lost(s))
         /\ Opens(s)' = Opens(s) + (hold'[t][s] - hold[t][s])
                       + (OwnOpen(t, s)' - OwnOpen(t, s)) + (DstOpen(t, s)' - DstOpen(t, s))
<1> DEFINE nH == Cardinality(Tokens(hold, s))
           nN == Cardinality(Tokens(s_list, s))
           nO == Cardinality(Using(pc, own, OwnRefPcs, s))
           nD == Cardinality(Using(pc, dst, DstRefPcs, s))
           nP == Cardinality(Using(pc, own, OwnPins, s))
           nQ == Cardinality(Using(pc, dst, DstOpenPcs, s))
           mH == Cardinality(Tokens(hold', s))
           mN == Cardinality(Tokens(s_list', s))
           mO == Cardinality(Using(pc', own', OwnRefPcs, s))
           mD == Cardinality(Using(pc', dst', DstRefPcs, s))
           mP == Cardinality(Using(pc', own', OwnPins, s))
           mQ == Cardinality(Using(pc', dst', DstOpenPcs, s))
<1>1. mH = nH + hold'[t][s] - hold[t][s]
  <2>1. hold \in Counters(Tasks) /\ hold' \in Counters(Tasks)
    BY DEF TypeOK, HoldOK, Counters
  <2>2. \A u \in Tasks \ {t} : hold'[u][s] = hold[u][s]
    BY DEF OnlyTask
  <2> QED BY <2>1, <2>2, TokensChange, StreamsAssumption
<1>2. mN = nN + s_list'[x][s] - s_list[x][s]
  <2>1. s_list \in Counters(Streams) /\ s_list' \in Counters(Streams)
    BY DEF TypeOK, StreamsOK, Counters
  <2>2. \A y \in Streams \ {x} : s_list'[y][s] = s_list[y][s]
    BY DEF OnlySource
  <2> QED BY <2>1, <2>2, TokensChange, StreamsAssumption
<1>3. \A u \in Tasks \ {t} : pc'[u] = pc[u] /\ own'[u] = own[u] /\ dst'[u] = dst[u]
  BY DEF OnlyTask
<1>4. mO = nO + OwnRef(t, s)' - OwnRef(t, s)
  BY <1>3, UsingChange DEF OwnRef
<1>5. mD = nD + DstRef(t, s)' - DstRef(t, s)
  BY <1>3, UsingChange DEF DstRef
<1>6. mP = nP + OwnOpen(t, s)' - OwnOpen(t, s)
  BY <1>3, UsingChange DEF OwnOpen
<1>7. mQ = nQ + DstOpen(t, s)' - DstOpen(t, s)
  BY <1>3, UsingChange DEF DstOpen
<1>8. Refs(s) = nH + nN + nO + nD + Lost(s) /\ Opens(s) = nH + nP + nQ
  BY LostCount DEF Refs, Opens, Lost
<1>9. Refs(s)' = mH + mN + mO + mD + Lost(s)' /\ Opens(s)' = mH + mP + mQ
  BY LostCount DEF Refs, Opens, Lost
<1>10. nH \in Nat /\ nN \in Nat
  <2>1. s_list \in Counters(Streams) /\ hold \in Counters(Tasks)
    BY DEF TypeOK, StreamsOK, HoldOK, Counters
  <2> QED BY <2>1, TokensBound, StreamsAssumption
<1>11. nO \in Nat /\ nD \in Nat /\ nP \in Nat /\ nQ \in Nat
  BY UsingBound
<1>12. /\ hold[t][s] \in Nat /\ hold'[t][s] \in Nat
       /\ s_list[x][s] \in Nat /\ s_list'[x][s] \in Nat
  BY DEF TypeOK, HoldOK, StreamsOK
<1>13. /\ OwnRef(t, s) \in Nat /\ DstRef(t, s) \in Nat /\ OwnOpen(t, s) \in Nat
       /\ DstOpen(t, s) \in Nat /\ Lost(s) \in Nat
       /\ OwnRef(t, s)' \in Nat /\ DstRef(t, s)' \in Nat /\ OwnOpen(t, s)' \in Nat
       /\ DstOpen(t, s)' \in Nat /\ Lost(s)' \in Nat
  BY DEF OwnRef, DstRef, OwnOpen, DstOpen, Lost, Unit
<1> HIDE DEF nH, nN, nO, nD, nP, nQ, mH, mN, mO, mD, mP, mQ
<1>14. Refs(s)' = nH + nN + nO + nD + Lost(s) + (hold'[t][s] - hold[t][s]) + (s_list'[x][s] - s_list[x][s])
                      + (OwnRef(t, s)' - OwnRef(t, s)) + (DstRef(t, s)' - DstRef(t, s))
                      + (Lost(s)' - Lost(s))
  BY <1>1, <1>2, <1>4, <1>5, <1>9, <1>10, <1>11, <1>12, <1>13
<1>15. Opens(s)' = nH + nP + nQ + (hold'[t][s] - hold[t][s])
                       + (OwnOpen(t, s)' - OwnOpen(t, s)) + (DstOpen(t, s)' - DstOpen(t, s))
  BY <1>1, <1>6, <1>7, <1>9, <1>10, <1>11, <1>12, <1>13
<1> QED BY <1>8, <1>14, <1>15

(* A step of the work queue moves no task. *)
LEMMA GcCounts ==
  ASSUME TypeOK, TypeOK', UNCHANGED <<hold, pc, own, dst, lost>>,
         NEW x \in Streams, OnlySource(x), NEW s \in Streams
  PROVE  /\ Refs(s)' = Refs(s) + (s_list'[x][s] - s_list[x][s])
         /\ Opens(s)' = Opens(s)
<1> DEFINE nN == Cardinality(Tokens(s_list, s))
           mN == Cardinality(Tokens(s_list', s))
           nR == Cardinality(Tokens(hold, s)) + Cardinality(Using(pc, own, OwnRefPcs, s))
                   + Cardinality(Using(pc, dst, DstRefPcs, s)) + Cardinality(lost \cap {s})
<1>1. mN = nN + s_list'[x][s] - s_list[x][s]
  <2>1. s_list \in Counters(Streams) /\ s_list' \in Counters(Streams)
    BY DEF TypeOK, StreamsOK, Counters
  <2>2. \A y \in Streams \ {x} : s_list'[y][s] = s_list[y][s]
    BY DEF OnlySource
  <2> QED BY <2>1, <2>2, TokensChange, StreamsAssumption
<1>2. Opens(s)' = Opens(s)
  BY DEF Opens
<1>3. /\ Cardinality(Tokens(hold, s)) \in Nat /\ nN \in Nat
      /\ Cardinality(lost \cap {s}) \in Nat
  <2>1. s_list \in Counters(Streams) /\ hold \in Counters(Tasks)
    BY DEF TypeOK, StreamsOK, HoldOK, Counters
  <2>2. Cardinality(Tokens(hold, s)) \in Nat /\ nN \in Nat
    BY <2>1, TokensBound, StreamsAssumption
  <2>3. Cardinality(lost \cap {s}) \in Nat
    BY LostCount DEF Unit
  <2> QED BY <2>2, <2>3
<1>4. /\ Cardinality(Using(pc, own, OwnRefPcs, s)) \in Nat
      /\ Cardinality(Using(pc, dst, DstRefPcs, s)) \in Nat
  BY UsingBound
<1>5. nR \in Nat /\ Refs(s) = nR + nN
  BY <1>3, <1>4 DEF Refs
<1>6. mN \in Int
  BY <1>1, <1>3 DEF TypeOK, StreamsOK
<1>7. Refs(s)' = nR + mN
  BY <1>3, <1>4, <1>6 DEF Refs
<1>8. s_list[x][s] \in Nat /\ s_list'[x][s] \in Nat
  BY DEF TypeOK, StreamsOK
<1> HIDE DEF nN, mN, nR
<1> QED BY <1>1, <1>2, <1>3, <1>5, <1>7, <1>8

LEMMA TaskCounts ==
  ASSUME TypeOK, TypeOK', NEW t \in Tasks, OnlyTask(t), UNCHANGED <<s_list, lost>>,
         NEW s \in Streams
  PROVE  /\ Refs(s)' = Refs(s) + (hold'[t][s] - hold[t][s])
                      + (OwnRef(t, s)' - OwnRef(t, s)) + (DstRef(t, s)' - DstRef(t, s))
         /\ Opens(s)' = Opens(s) + (hold'[t][s] - hold[t][s])
                       + (OwnOpen(t, s)' - OwnOpen(t, s)) + (DstOpen(t, s)' - DstOpen(t, s))
<1>1. OnlySource(s)
  BY DEF OnlySource
<1>2. s_list'[s][s] - s_list[s][s] = 0 /\ Lost(s)' - Lost(s) = 0
  BY DEF TypeOK, StreamsOK, Lost, Unit
<1>3. /\ Refs(s) \in Nat /\ Opens(s) \in Nat
      /\ hold[t][s] \in Nat /\ hold'[t][s] \in Nat
      /\ OwnRef(t, s) \in Nat /\ OwnRef(t, s)' \in Nat
      /\ DstRef(t, s) \in Nat /\ DstRef(t, s)' \in Nat
  BY Some DEF TypeOK, HoldOK, OwnRef, DstRef, Unit
<1>4. Refs(s)' = Refs(s) + (hold'[t][s] - hold[t][s]) + (s_list'[s][s] - s_list[s][s])
                      + (OwnRef(t, s)' - OwnRef(t, s)) + (DstRef(t, s)' - DstRef(t, s))
                      + (Lost(s)' - Lost(s))
  BY <1>1, TaskStep
<1>5. Opens(s)' = Opens(s) + (hold'[t][s] - hold[t][s])
                       + (OwnOpen(t, s)' - OwnOpen(t, s)) + (DstOpen(t, s)' - DstOpen(t, s))
  BY <1>1, TaskStep
<1> QED BY <1>2, <1>3, <1>4, <1>5

-----------------------------------------------------------------------------
(* The counts, without the way out that RefExact, OpenRefExact and           *)
(* NoDanglingReference leave after a race.                                   *)
RefsCount   == \A s \in Streams : ref[s] = Refs(s)
OpensCount  == \A s \in Streams : open_ref[s] = Opens(s)
FreedUnused == \A s \in Streams : list[s] # "g_s" => Refs(s) = 0

InBind  == {"bind_find", "bind_check", "bind_link", "bind_drop", "bind_undo",
            "bind_giveup", "bind_create", "bind_new"}
InClose == {"close_load", "close_store", "close_mark"}
InNew   == {"new_load", "new_store", "new_issue"}

(* What a task relies on while it is where it is.  At close_mark and at      *)
(* bind_giveup it has given its reference up: the marker may have condemned  *)
(* the stream by then, but the cleaner has not taken it.                     *)
TaskInv(t) ==
    /\ \A s \in Streams : hold[t][s] > 0 => used[s] = ISUED
    /\ pc[t] \in InBind => hold[t][own[t]] > 0
    /\ pc[t] = "open_init" => used[own[t]] = ISUED
    /\ pc[t] = "bind_drop" => s_list[own[t]][dst[t]] > 0
    /\ pc[t] \in InNew => used[own[t]] = AVAILABLE
    /\ pc[t] = "bind_new" => dst[t] \notin lost
    /\ pc[t] \in InClose => used[own[t]] \in {UNAVAILABLE, WAIT_GC_CLEAN} /\ list[own[t]] = "g_s"
    /\ pc[t] = "bind_giveup" => list[dst[t]] = "g_s"
Distinct(t, u) ==
    /\ pc[t] = "bind_new" /\ pc[u] = "bind_new" => dst[t] # dst[u]
    /\ pc[t] \in InClose /\ pc[u] \in InClose => own[t] # own[u]
    /\ pc[t] \in InNew /\ pc[u] \in InNew => own[t] # own[u]

(* What the marker relies on while it visits gs. *)
Marked ==
    gpc \in {"unbind", "ref", "again", "clean"} =>
        /\ gs \in Streams /\ list[gs] = "g_s"
        /\ used[gs] = WAIT_GC_MARKER \/ ref[gs] = 0
        /\ gpc \in {"ref", "clean"} => s_list[gs] = NoNodes
        /\ gpc = "again" => used[gs] = WAIT_GC_MARKER
        /\ gpc = "clean" => used[gs] \in {WAIT_GC_MARKER, WAIT_GC_CLEAN} /\ ref[gs] = 0

(* What is about to be unlinked, and what is unlinked, is not in use. *)
Condemned ==
    \A s \in Streams :
        /\ list[s] = "g_s" /\ used[s] = WAIT_GC_CLEAN => ref[s] = 0 /\ s_list[s] = NoNodes
        /\ list[s] # "g_s" => s_list[s] = NoNodes

IInv ==
    /\ TypeOK /\ RefsCount /\ OpensCount
    /\ \A t \in Tasks : TaskInv(t)
    /\ \A t, u \in Tasks : t # u => Distinct(t, u)
    /\ Marked /\ Condemned /\ FreedUnused

LEMMA InitIInv == Init => IInv
<1> SUFFICES ASSUME Init PROVE IInv
  OBVIOUS
<1>1. TypeOK
  BY TypeInit
<1>2. ASSUME NEW s \in Streams PROVE Refs(s) = 0 /\ Opens(s) = 0
  <2>1. Tokens(hold, s) = {} /\ Tokens(s_list, s) = {}
    BY DEF Init, Tokens, NoNodes
  <2>2. /\ Using(pc, own, OwnRefPcs, s) = {} /\ Using(pc, dst, DstRefPcs, s) = {}
        /\ Using(pc, own, OwnPins, s) = {} /\ Using(pc, dst, DstOpenPcs, s) = {}
    BY DEF Init, Using, OwnRefPcs, OwnPins, DstRefPcs, DstPins, DstOpenPcs
  <2>3. lost \cap {s} = {}
    BY DEF Init
  <2> QED BY <2>1, <2>2, <2>3, FS_EmptySet DEF Refs, Opens
<1>3. RefsCount /\ OpensCount /\ FreedUnused
  BY <1>2 DEF Init, RefsCount, OpensCount, FreedUnused
<1>4. \A t \in Tasks : TaskInv(t)
  BY DEF Init, TaskInv, InBind, InNew, InClose
<1>5. \A t, u \in Tasks : t # u => Distinct(t, u)
  BY DEF Init, Distinct, InClose, InNew
<1>6. Marked /\ Condemned
  BY DEF Init, Marked, Condemned
<1> QED BY <1>1, <1>3, <1>4, <1>5, <1>6 DEF IInv

(* Task t may change used of a stream only while no other task relies on it; *)
(* the mark of a close may go over that of the marker.                       *)
UsedMoves(t) ==
    \A s \in Streams : used'[s] # used[s] =>
        /\ used[s] # WAIT_GC_MARKER /\ used'[s] # WAIT_GC_CLEAN
        /\ used[s] = WAIT_GC_CLEAN => used'[s] = WAIT_GC_MARKER
        /\ \A u \in Tasks \ {t} :
             /\ hold[u][s] > 0 => used'[s] = ISUED
             /\ own[u] = s /\ pc[u] = "open_init" => used'[s] = ISUED
             /\ own[u] = s => pc[u] \notin InClose \cup InNew

(* A step of task t that leaves g_s alone: enough for it to preserve IInv.   *)
LEMMA Move ==
  ASSUME IInv, TypeOK', NEW t \in Tasks, OnlyTask(t),
         UNCHANGED <<list, gpc, gs>>, RefsCount', OpensCount',
         TaskInv(t)', \A u \in Tasks \ {t} : Distinct(t, u)',
         \A s \in Streams : ref[s] = 0 => ref'[s] = 0,
         \A x, d \in Streams : s_list'[x][d] >= s_list[x][d],
         \A x \in Streams : s_list'[x] # s_list[x] => hold[t][x] > 0,
         UsedMoves(t),
         \A u \in Tasks \ {t} : pc[u] = "bind_new" => dst[u] \notin lost'
  PROVE  IInv'
<1>2. \A u \in Tasks \ {t} : TaskInv(u)'
  <2> SUFFICES ASSUME NEW u \in Tasks \ {t} PROVE TaskInv(u)'
    OBVIOUS
  <2>0. /\ TaskInv(u) /\ pc'[u] = pc[u] /\ own'[u] = own[u] /\ dst'[u] = dst[u] /\ hold'[u] = hold[u]
    BY DEF IInv, OnlyTask
  <2>1. pc'[u] \in InNew => used'[own'[u]] = AVAILABLE
    <3>1. pc[u] \in InNew => own[u] \in Streams
      BY DEF IInv, TypeOK, LocalsOK, OwnPcs, Pcs, InNew
    <3> QED BY <2>0, <3>1 DEF TaskInv, UsedMoves
  <2>2. \A s \in Streams : hold'[u][s] > 0 => used'[s] = ISUED
    BY <2>0 DEF TaskInv, UsedMoves
  <2>3. pc'[u] \in InBind => hold'[u][own'[u]] > 0
    BY <2>0 DEF TaskInv
  <2>4. pc'[u] = "open_init" => used'[own'[u]] = ISUED
    <3>1. pc[u] = "open_init" => own[u] \in Streams
      BY DEF IInv, TypeOK, LocalsOK, OwnPcs, Pcs
    <3> QED BY <2>0, <3>1 DEF TaskInv, UsedMoves
  <2>5. pc'[u] = "bind_drop" => s_list'[own'[u]][dst'[u]] > 0
    <3>1. pc[u] = "bind_drop" => own[u] \in Streams /\ dst[u] \in Streams
      BY DEF IInv, TypeOK, LocalsOK, OwnPcs, DstPcs, Pcs
    <3>2. \A x, d \in Streams : s_list[x][d] \in Nat /\ s_list'[x][d] \in Nat
      BY DEF IInv, TypeOK, StreamsOK
    <3> QED BY <2>0, <3>1, <3>2 DEF TaskInv
  <2>6. pc'[u] = "bind_new" => dst'[u] \notin lost'
    BY <2>0
  <2>7. pc'[u] \in InClose => used'[own'[u]] \in {UNAVAILABLE, WAIT_GC_CLEAN} /\ list'[own'[u]] = "g_s"
    <3>1. pc[u] \in InClose => own[u] \in Streams
      BY DEF IInv, TypeOK, LocalsOK, OwnPcs, Pcs, InClose
    <3> QED BY <2>0, <3>1 DEF TaskInv, UsedMoves
  <2>8. pc'[u] = "bind_giveup" => list'[dst'[u]] = "g_s"
    BY <2>0 DEF TaskInv
  <2> QED BY <2>1, <2>2, <2>3, <2>4, <2>5, <2>6, <2>7, <2>8 DEF TaskInv
<1>3. \A u, v \in Tasks : u # v => Distinct(u, v)'
  <2> SUFFICES ASSUME NEW u \in Tasks, NEW v \in Tasks, u # v PROVE Distinct(u, v)'
    OBVIOUS
  <2>1. CASE u # t /\ v # t
    BY <2>1 DEF IInv, OnlyTask, Distinct
  <2>2. CASE u = t \/ v = t
    BY <2>2 DEF Distinct
  <2> QED BY <2>1, <2>2
<1>4. Marked'
  <2> SUFFICES ASSUME gpc \in {"unbind", "ref", "again", "clean"}
               PROVE  Marked'
    BY DEF Marked
  <2>1. Marked /\ gs \in Streams /\ list[gs] = "g_s"
    BY DEF IInv, Marked
  <2>2. /\ used[gs] = WAIT_GC_MARKER => used'[gs] = WAIT_GC_MARKER
        /\ used[gs] = WAIT_GC_CLEAN => used'[gs] \in {WAIT_GC_MARKER, WAIT_GC_CLEAN}
    BY <2>1 DEF UsedMoves
  <2>3. gpc \in {"ref", "clean"} => hold[t][gs] = 0
    <3>1. used[gs] # ISUED => ~ (hold[t][gs] > 0)
      BY <2>1 DEF IInv, TaskInv
    <3>2. ref[gs] = 0 => ~ (hold[t][gs] > 0)
      BY <2>1, Some DEF IInv, RefsCount
    <3>3. hold[t][gs] \in Nat
      BY <2>1 DEF IInv, TypeOK, HoldOK
    <3> QED BY <2>1, <3>1, <3>2, <3>3 DEF Marked, ISUED, WAIT_GC_MARKER
  <2>4. gpc \in {"ref", "clean"} => s_list'[gs] = NoNodes
    BY <2>1, <2>3 DEF Marked
  <2> QED BY <2>1, <2>2, <2>4 DEF Marked
<1>5. Condemned'
  <2> SUFFICES ASSUME NEW s \in Streams
               PROVE  /\ list[s] = "g_s" /\ used'[s] = WAIT_GC_CLEAN => ref'[s] = 0 /\ s_list'[s] = NoNodes
                      /\ list[s] # "g_s" => s_list'[s] = NoNodes
    BY DEF Condemned
  <2>1. hold[t][s] > 0 => used[s] # WAIT_GC_CLEAN /\ list[s] = "g_s"
    BY Some DEF IInv, TaskInv, FreedUnused, ISUED, WAIT_GC_CLEAN
  <2> QED BY <2>1 DEF IInv, Condemned, UsedMoves
<1>6. FreedUnused'
  BY DEF IInv, FreedUnused, RefsCount
<1> QED BY <1>2, <1>3, <1>4, <1>5, <1>6 DEF IInv

LEMMA Exact ==
  ASSUME IInv, NEW s \in Streams
  PROVE  /\ ref[s] = Refs(s) /\ Refs(s) \in Nat
         /\ open_ref[s] = Opens(s) /\ Opens(s) \in Nat
         /\ \A t \in Tasks : hold[t][s] \in Nat
  BY Some DEF IInv, RefsCount, OpensCount, TypeOK, HoldOK

(* The counts of s change by what task t gains or gives up. *)
Balance(t, s) ==
    /\ ref'[s] = ref[s] + (hold'[t][s] - hold[t][s])
                  + (OwnRef(t, s)' - OwnRef(t, s)) + (DstRef(t, s)' - DstRef(t, s))
    /\ open_ref'[s] = open_ref[s] + (hold'[t][s] - hold[t][s])
                  + (OwnOpen(t, s)' - OwnOpen(t, s)) + (DstOpen(t, s)' - DstOpen(t, s))

LEMMA Balanced ==
  ASSUME IInv, TypeOK', NEW t \in Tasks, OnlyTask(t), UNCHANGED <<s_list, lost>>,
         NEW s \in Streams, Balance(t, s)
  PROVE  ref'[s] = Refs(s)' /\ open_ref'[s] = Opens(s)'
  BY Exact, TaskCounts DEF Balance, IInv

(* A step of task t that leaves the bindings alone ...                       *)
LEMMA Turn ==
  ASSUME IInv, TypeOK', NEW t \in Tasks, OnlyTask(t),
         UNCHANGED <<list, s_list, lost, gpc, gs>>, UsedMoves(t),
         \A s \in Streams : Balance(t, s), TaskInv(t)', \A u \in Tasks \ {t} : Distinct(t, u)',
         \A s \in Streams : ref[s] = 0 => ref'[s] = 0
  PROVE  IInv'
<1>1. \A x, d \in Streams : s_list'[x][d] >= s_list[x][d]
  BY DEF IInv, TypeOK, StreamsOK
<1>2. \A u \in Tasks \ {t} : pc[u] = "bind_new" => dst[u] \notin lost'
  BY DEF IInv, TaskInv
<1>3. RefsCount' /\ OpensCount'
  BY Balanced DEF RefsCount, OpensCount
<1> QED BY <1>1, <1>2, <1>3, Move

(* ... and one that changes no more than counts, handles and its place.      *)
LEMMA Quiet ==
  ASSUME IInv, TypeOK', NEW t \in Tasks, OnlyTask(t),
         UNCHANGED <<list, used, s_list, lost, gpc, gs>>,
         \A s \in Streams : Balance(t, s), TaskInv(t)',
         pc'[t] # "bind_new", pc'[t] \in InClose => pc[t] \in InClose /\ own'[t] = own[t],
         pc'[t] \in InNew => pc[t] \in InNew /\ own'[t] = own[t],
         \A s \in Streams : ref[s] = 0 => ref'[s] = 0
  PROVE  IInv'
<1>1. \A u \in Tasks \ {t} : Distinct(t, u)'
  BY DEF IInv, Distinct, OnlyTask
<1>2. UsedMoves(t)
  BY DEF UsedMoves
<1> QED BY <1>1, <1>2, Turn

(* find_stream returns a stream that is referred to already. *)
LEMMA FoundIsLive ==
  ASSUME NEW n, NEW s \in Found(n)
  PROVE  s \in Streams /\ ref[s] # 0 /\ list[s] = "g_s" /\ name[s] = n
  BY DEF Found, First, Named


-----------------------------------------------------------------------------
(* The steps of a task, one lemma for each action.                           *)

LEMMA KeepOpenFind ==
  ASSUME IInv, TypeOK', NEW t \in Tasks, NEW n \in Names,
         open_stream_find(t, n)
  PROVE  IInv'
<1> USE DEF registry, state, counts, task, gc, aside
<1>1. CASE Missing(n) /\ Go(t, "open_create") /\ UNCHANGED <<counts, own>>
  <2>1. /\ pc[t] \in {"idle", "open_find"} /\ pc'[t] = "open_create"
        /\ ref' = ref
        /\ open_ref' = open_ref
        /\ hold' = hold
        /\ UNCHANGED <<list, used, s_list, lost, gpc, gs>>
    BY <1>1 DEF open_stream_find, At, Go, Return, IInv, TypeOK, TasksOK
  <2>2. OnlyTask(t)
    BY <1>1 DEF open_stream_find, OnlyTask, Go, Return, IInv, TypeOK, TasksOK,
       HoldOK
  <2>3. \A s \in Streams : Balance(t, s)
    BY <2>1 DEF Balance, OwnRef, DstRef, OwnOpen, DstOpen, Unit, OwnRefPcs,
       DstRefPcs, OwnPins, DstPins, DstOpenPcs, IInv, TypeOK, StreamsOK, HoldOK
  <2>4. TaskInv(t)'
    BY <2>1 DEF IInv, TaskInv, InBind, InNew, InClose
  <2>5. \A s \in Streams : ref[s] = 0 => ref'[s] = 0
    BY <2>1 DEF IInv, TypeOK, StreamsOK
  <2> QED BY <2>1, <2>2, <2>3, <2>4, <2>5, Quiet DEF InClose, InNew
<1>2. ASSUME NEW d \in Found(n), Pin(d), own' = [own EXCEPT ![t] = d], Go(t, "open_check") PROVE IInv'
  <2>0. d \in Streams
    BY <1>2, FoundIsLive DEF open_stream_find, Pin, At, IInv, TypeOK, LocalsOK,
       OwnPcs, DstPcs, Pcs
  <2>1. /\ pc[t] \in {"idle", "open_find"} /\ pc'[t] = "open_check"
        /\ ref' = [ref EXCEPT ![d] = @ + 1]
        /\ open_ref' = [open_ref EXCEPT ![d] = @ + 1]
        /\ hold' = hold
        /\ own'[t] = d
        /\ UNCHANGED <<list, used, s_list, lost, gpc, gs>>
    BY <1>2, <2>0, FoundIsLive DEF open_stream_find, Pin, At, Go, Return, IInv,
       TypeOK, TasksOK
  <2>2. OnlyTask(t)
    BY <1>2, <2>0, FoundIsLive DEF open_stream_find, Pin, OnlyTask, Go, Return,
       IInv, TypeOK, TasksOK, HoldOK
  <2>3. \A s \in Streams : Balance(t, s)
    BY <2>1, <2>0 DEF Balance, OwnRef, DstRef, OwnOpen, DstOpen, Unit, OwnRefPcs,
       DstRefPcs, OwnPins, DstPins, DstOpenPcs, IInv, TypeOK, StreamsOK, HoldOK
  <2>4. TaskInv(t)'
    BY <2>1, <2>0 DEF IInv, TaskInv, InBind, InNew, InClose
  <2>5. \A s \in Streams : ref[s] = 0 => ref'[s] = 0
    BY <2>1, <2>0, FoundIsLive DEF IInv, TypeOK, StreamsOK
  <2> QED BY <2>1, <2>2, <2>3, <2>4, <2>5, Quiet DEF InClose, InNew
<1> QED BY <1>1, <1>2 DEF open_stream_find

LEMMA KeepNewLoad ==
  ASSUME IInv, TypeOK', NEW t \in Tasks, open_stream_new_load(t)
  PROVE  IInv'
<1> USE DEF registry, state, counts, task, gc, aside
<1>0. own[t] \in Streams
  BY DEF open_stream_new_load, At, IInv, TypeOK, LocalsOK, OwnPcs, DstPcs, Pcs
<1>1. /\ pc[t] = "new_load" /\ pc'[t] = "new_store"
      /\ ref' = ref
      /\ open_ref' = open_ref
      /\ hold' = hold
      /\ own'[t] = own[t] /\ tmp'[t] = open_ref[own[t]]
      /\ UNCHANGED <<list, used, s_list, lost, gpc, gs>>
  BY <1>0 DEF open_stream_new_load, At, Go, Return, IInv, TypeOK, TasksOK
<1>2. OnlyTask(t)
  BY <1>0 DEF open_stream_new_load, OnlyTask, Go, Return, IInv, TypeOK, TasksOK,
     HoldOK
<1>3. \A s \in Streams : Balance(t, s)
  BY <1>1, <1>0 DEF Balance, OwnRef, DstRef, OwnOpen, DstOpen, Unit, OwnRefPcs,
     DstRefPcs, OwnPins, DstPins, DstOpenPcs, IInv, TypeOK, StreamsOK, HoldOK
<1>4. TaskInv(t)'
  BY <1>1, <1>0 DEF IInv, TaskInv, InBind, InNew, InClose
<1>5. \A s \in Streams : ref[s] = 0 => ref'[s] = 0
  BY <1>1, <1>0 DEF IInv, TypeOK, StreamsOK
<1> QED BY <1>1, <1>2, <1>3, <1>4, <1>5, Quiet DEF InClose, InNew

LEMMA KeepNewStore ==
  ASSUME IInv, TypeOK', ~Corrupted', NEW t \in Tasks, open_stream_new_store(t)
  PROVE  IInv'
<1> USE DEF registry, state, counts, task, gc, aside
<1>0. own[t] \in Streams
  BY DEF open_stream_new_store, At, IInv, TypeOK, LocalsOK, OwnPcs, DstPcs, Pcs
<1>1. /\ pc[t] = "new_store" /\ pc'[t] = "new_issue"
      /\ ref' = ref
      /\ open_ref' = [open_ref EXCEPT ![own[t]] = @ + 1]
      /\ hold' = hold
      /\ own'[t] = own[t]
      /\ UNCHANGED <<list, used, s_list, lost, gpc, gs>>
  BY <1>0 DEF open_stream_new_store, At, Go, Return, IInv, TypeOK, TasksOK,
     StreamsOK, Race, Corrupted, Met
<1>2. OnlyTask(t)
  BY <1>0 DEF open_stream_new_store, OnlyTask, Go, Return, IInv, TypeOK, TasksOK,
     HoldOK
<1>3. \A s \in Streams : Balance(t, s)
  BY <1>1, <1>0 DEF Balance, OwnRef, DstRef, OwnOpen, DstOpen, Unit, OwnRefPcs,
     DstRefPcs, OwnPins, DstPins, DstOpenPcs, IInv, TypeOK, StreamsOK, HoldOK
<1>4. TaskInv(t)'
  BY <1>1, <1>0 DEF IInv, TaskInv, InBind, InNew, InClose
<1>5. \A s \in Streams : ref[s] = 0 => ref'[s] = 0
  BY <1>1, <1>0 DEF IInv, TypeOK, StreamsOK
<1> QED BY <1>1, <1>2, <1>3, <1>4, <1>5, Quiet DEF InClose, InNew

LEMMA KeepOpenInit ==
  ASSUME IInv, TypeOK', NEW t \in Tasks, open_stream_init(t)
  PROVE  IInv'
<1> USE DEF registry, state, counts, task, gc, aside
<1>0. own[t] \in Streams
  BY DEF open_stream_init, Take, At, IInv, TypeOK, LocalsOK, OwnPcs, DstPcs, Pcs
<1>1. /\ pc[t] = "open_init" /\ pc'[t] = "bind_find"
      /\ ref' = ref
      /\ open_ref' = open_ref
      /\ hold' = [hold EXCEPT ![t][own[t]] = @ + 1]
      /\ own'[t] = own[t]
      /\ UNCHANGED <<list, used, s_list, lost, gpc, gs>>
  BY <1>0 DEF open_stream_init, Take, At, Go, Return, IInv, TypeOK, TasksOK
<1>2. OnlyTask(t)
  BY <1>0 DEF open_stream_init, Take, OnlyTask, Go, Return, IInv, TypeOK, TasksOK,
     HoldOK
<1>3. \A s \in Streams : Balance(t, s)
  BY <1>1, <1>0 DEF Balance, OwnRef, DstRef, OwnOpen, DstOpen, Unit, OwnRefPcs,
     DstRefPcs, OwnPins, DstPins, DstOpenPcs, IInv, TypeOK, StreamsOK, HoldOK
<1>4. TaskInv(t)'
  BY <1>1, <1>0 DEF IInv, TaskInv, InBind, InNew, InClose, TypeOK, HoldOK
<1>5. \A s \in Streams : ref[s] = 0 => ref'[s] = 0
  BY <1>1, <1>0 DEF IInv, TypeOK, StreamsOK
<1> QED BY <1>1, <1>2, <1>3, <1>4, <1>5, Quiet DEF InClose, InNew

LEMMA KeepLookup ==
  ASSUME IInv, TypeOK', NEW t \in Tasks, NEW n \in Names,
         NEW next \in {"get_check", "avail_check"}, Lookup(t, n, next)
  PROVE  IInv'
<1> USE DEF registry, state, counts, task, gc, aside
<1>1. ASSUME NEW d \in Found(n), Pin(d), own' = [own EXCEPT ![t] = d] PROVE IInv'
  <2>0. d \in Streams
    BY <1>1, FoundIsLive DEF Lookup, Pin, At, IInv, TypeOK, LocalsOK, OwnPcs,
       DstPcs, Pcs
  <2>1. /\ pc[t] = "idle" /\ pc'[t] \in {"get_check", "avail_check"}
        /\ ref' = [ref EXCEPT ![d] = @ + 1]
        /\ open_ref' = [open_ref EXCEPT ![d] = @ + 1]
        /\ hold' = hold
        /\ own'[t] = d
        /\ UNCHANGED <<list, used, s_list, lost, gpc, gs>>
    BY <1>1, <2>0, FoundIsLive DEF Lookup, Pin, At, Go, Return, IInv, TypeOK,
       TasksOK
  <2>2. OnlyTask(t)
    BY <1>1, <2>0, FoundIsLive DEF Lookup, Pin, OnlyTask, Go, Return, IInv, TypeOK,
       TasksOK, HoldOK
  <2>3. \A s \in Streams : Balance(t, s)
    BY <2>1, <2>0 DEF Balance, OwnRef, DstRef, OwnOpen, DstOpen, Unit, OwnRefPcs,
       DstRefPcs, OwnPins, DstPins, DstOpenPcs, IInv, TypeOK, StreamsOK, HoldOK
  <2>4. TaskInv(t)'
    BY <2>1, <2>0 DEF IInv, TaskInv, InBind, InNew, InClose
  <2>5. \A s \in Streams : ref[s] = 0 => ref'[s] = 0
    BY <2>1, <2>0, FoundIsLive DEF IInv, TypeOK, StreamsOK
  <2> QED BY <2>1, <2>2, <2>3, <2>4, <2>5, Quiet DEF InClose, InNew
<1> QED BY <1>1 DEF Lookup

LEMMA KeepCheck ==
  ASSUME IInv, TypeOK', NEW t \in Tasks, NEW here, NEW undo,
         <<here, undo>> \in {<<"get_check", "get_undo">>, <<"avail_check", "avail_undo">>},
         Check(t, here, undo)
  PROVE  IInv'
<1> USE DEF registry, state, counts, task, gc, aside
<1>1. CASE InUse(own[t])
  <2>0. own[t] \in Streams
    BY <1>1 DEF Check, Take, InUse, At, IInv, TypeOK, LocalsOK, OwnPcs, DstPcs, Pcs
  <2>1. /\ pc[t] \in {"get_check", "avail_check"} /\ pc'[t] = "idle"
        /\ ref' = ref
        /\ open_ref' = open_ref
        /\ hold' = [hold EXCEPT ![t][own[t]] = @ + 1]
        /\ used[own[t]] = ISUED
        /\ UNCHANGED <<list, used, s_list, lost, gpc, gs>>
    BY <1>1, <2>0 DEF Check, Take, InUse, At, Go, Return, IInv, TypeOK, TasksOK
  <2>2. OnlyTask(t)
    BY <1>1, <2>0 DEF Check, Take, InUse, OnlyTask, Go, Return, IInv, TypeOK,
       TasksOK, HoldOK
  <2>3. \A s \in Streams : Balance(t, s)
    BY <2>1, <2>0 DEF Balance, OwnRef, DstRef, OwnOpen, DstOpen, Unit, OwnRefPcs,
       DstRefPcs, OwnPins, DstPins, DstOpenPcs, IInv, TypeOK, StreamsOK, HoldOK
  <2>4. TaskInv(t)'
    BY <2>1, <2>0 DEF IInv, TaskInv, InBind, InNew, InClose, TypeOK, HoldOK
  <2>5. \A s \in Streams : ref[s] = 0 => ref'[s] = 0
    BY <2>1, <2>0 DEF IInv, TypeOK, StreamsOK
  <2> QED BY <2>1, <2>2, <2>3, <2>4, <2>5, Quiet DEF InClose, InNew
<1>2. CASE ~InUse(own[t])
  <2>0. own[t] \in Streams
    BY <1>2 DEF Check, InUse, At, IInv, TypeOK, LocalsOK, OwnPcs, DstPcs, Pcs
  <2>1. /\ pc[t] \in {"get_check", "avail_check"} /\ pc'[t] \in {"get_undo", "avail_undo"}
        /\ ref' = ref
        /\ open_ref' = open_ref
        /\ hold' = hold
        /\ own'[t] = own[t]
        /\ UNCHANGED <<list, used, s_list, lost, gpc, gs>>
    BY <1>2, <2>0 DEF Check, InUse, At, Go, Return, IInv, TypeOK, TasksOK
  <2>2. OnlyTask(t)
    BY <1>2, <2>0 DEF Check, InUse, OnlyTask, Go, Return, IInv, TypeOK, TasksOK,
       HoldOK
  <2>3. \A s \in Streams : Balance(t, s)
    <3> TAKE s \in Streams
    <3>1. OwnRef(t, s)' = OwnRef(t, s) /\ OwnOpen(t, s)' = OwnOpen(t, s)
      BY <2>1 DEF OwnRef, OwnOpen, OwnRefPcs, OwnPins
    <3>2. DstRef(t, s)' = DstRef(t, s) /\ DstOpen(t, s)' = DstOpen(t, s)
      BY <2>1 DEF DstRef, DstOpen, DstRefPcs, DstPins, DstOpenPcs, Unit
    <3>3. OwnRef(t, s) \in Nat /\ OwnOpen(t, s) \in Nat /\ DstRef(t, s) \in Nat /\ DstOpen(t, s) \in Nat
      BY DEF OwnRef, OwnOpen, DstRef, DstOpen, Unit
    <3> QED BY <2>1, <3>1, <3>2, <3>3 DEF Balance, IInv, TypeOK, StreamsOK, HoldOK
  <2>4. TaskInv(t)'
    BY <2>1, <2>0 DEF IInv, TaskInv, InBind, InNew, InClose
  <2>5. \A s \in Streams : ref[s] = 0 => ref'[s] = 0
    BY <2>1, <2>0 DEF IInv, TypeOK, StreamsOK
  <2> QED BY <2>1, <2>2, <2>3, <2>4, <2>5, Quiet DEF InClose, InNew
<1> QED BY <1>1, <1>2

LEMMA KeepLookupUndo ==
  ASSUME IInv, TypeOK', NEW t \in Tasks, lookup_undo(t)
  PROVE  IInv'
<1> USE DEF registry, state, counts, task, gc, aside
<1>0. own[t] \in Streams
  BY DEF lookup_undo, Unpin, At, IInv, TypeOK, LocalsOK, OwnPcs, DstPcs, Pcs
<1>1. /\ pc[t] \in {"get_undo", "avail_undo"} /\ pc'[t] \in {"idle", "open_find"}
      /\ ref' = [ref EXCEPT ![own[t]] = @ - 1]
      /\ open_ref' = [open_ref EXCEPT ![own[t]] = @ - 1]
      /\ hold' = hold
      /\ UNCHANGED <<list, used, s_list, lost, gpc, gs>>
  BY <1>0 DEF lookup_undo, Unpin, At, Go, Return, IInv, TypeOK, TasksOK
<1>2. OnlyTask(t)
  BY <1>0 DEF lookup_undo, Unpin, OnlyTask, Go, Return, IInv, TypeOK, TasksOK,
     HoldOK
<1>3. \A s \in Streams : Balance(t, s)
  BY <1>1, <1>0, SMTT(60) DEF Balance, OwnRef, DstRef, OwnOpen, DstOpen, Unit,
     OwnRefPcs, DstRefPcs, OwnPins, DstPins, DstOpenPcs, IInv, TypeOK, StreamsOK,
     HoldOK
<1>4. TaskInv(t)'
  BY <1>1, <1>0 DEF IInv, TaskInv, InBind, InNew, InClose
<1>5. \A s \in Streams : ref[s] = 0 => ref'[s] = 0
  BY <1>1, <1>0, Exact, Some DEF OwnRefPcs, OwnPins, IInv, TypeOK, StreamsOK
<1> QED BY <1>1, <1>2, <1>3, <1>4, <1>5, Quiet DEF InClose, InNew

LEMMA KeepAgain ==
  ASSUME IInv, TypeOK', NEW t \in Tasks, NEW d \in Streams,
         open_stream_again(t, d)
  PROVE  IInv'
<1> USE DEF registry, state, counts, task, gc, aside
<1>1. /\ pc[t] = "idle" /\ pc'[t] = "idle"
      /\ ref' = [ref EXCEPT ![d] = @ + 1]
      /\ open_ref' = [open_ref EXCEPT ![d] = @ + 1]
      /\ hold' = [hold EXCEPT ![t][d] = @ + 1]
      /\ used[d] = ISUED /\ \E u \in Tasks : hold[u][d] > 0
      /\ UNCHANGED <<list, used, s_list, lost, gpc, gs>>
  BY DEF open_stream_again, Pin, Take, At, Go, Return, IInv, TypeOK, TasksOK
<1>2. OnlyTask(t)
  BY DEF open_stream_again, Pin, Take, OnlyTask, Go, Return, IInv, TypeOK, TasksOK,
     HoldOK
<1>3. \A s \in Streams : Balance(t, s)
  BY <1>1 DEF Balance, OwnRef, DstRef, OwnOpen, DstOpen, Unit, OwnRefPcs, DstRefPcs,
     OwnPins, DstPins, DstOpenPcs, IInv, TypeOK, StreamsOK, HoldOK
<1>4. TaskInv(t)'
  BY <1>1 DEF IInv, TaskInv, InBind, InNew, InClose, TypeOK, HoldOK
<1>5. \A s \in Streams : ref[s] = 0 => ref'[s] = 0
  BY <1>1, Exact, Some DEF IInv, TypeOK, StreamsOK
<1> QED BY <1>1, <1>2, <1>3, <1>4, <1>5, Quiet DEF InClose, InNew

LEMMA KeepBindFind ==
  ASSUME IInv, TypeOK', NEW t \in Tasks, NEW x \in Streams, NEW n \in Names,
         bind_find(t, x, n)
  PROVE  IInv'
<1> USE DEF registry, state, counts, task, gc, aside
<1>1. CASE Missing(n) /\ Go(t, "bind_create") /\ UNCHANGED <<counts, dst>>
  <2>1. /\ pc[t] \in {"idle", "bind_find"} /\ pc'[t] = "bind_create"
        /\ ref' = ref
        /\ open_ref' = open_ref
        /\ hold' = hold
        /\ own'[t] = x /\ hold[t][x] > 0
        /\ UNCHANGED <<list, used, s_list, lost, gpc, gs>>
    BY <1>1 DEF bind_find, At, Go, Return, IInv, TypeOK, TasksOK, TaskInv, InBind
  <2>2. OnlyTask(t)
    BY <1>1 DEF bind_find, OnlyTask, Go, Return, IInv, TypeOK, TasksOK, HoldOK
  <2>3. \A s \in Streams : Balance(t, s)
    BY <2>1 DEF Balance, OwnRef, DstRef, OwnOpen, DstOpen, Unit, OwnRefPcs,
       DstRefPcs, OwnPins, DstPins, DstOpenPcs, IInv, TypeOK, StreamsOK, HoldOK
  <2>4. TaskInv(t)'
    BY <2>1 DEF IInv, TaskInv, InBind, InNew, InClose
  <2>5. \A s \in Streams : ref[s] = 0 => ref'[s] = 0
    BY <2>1 DEF IInv, TypeOK, StreamsOK
  <2> QED BY <2>1, <2>2, <2>3, <2>4, <2>5, Quiet DEF InClose, InNew
<1>2. ASSUME NEW d \in Found(n), Pin(d), dst' = [dst EXCEPT ![t] = d], Go(t, "bind_check") PROVE IInv'
  <2>0. d \in Streams
    BY <1>2, FoundIsLive DEF bind_find, Pin, At, IInv, TypeOK, LocalsOK, OwnPcs,
       DstPcs, Pcs
  <2>1. /\ pc[t] \in {"idle", "bind_find"} /\ pc'[t] = "bind_check"
        /\ ref' = [ref EXCEPT ![d] = @ + 1]
        /\ open_ref' = [open_ref EXCEPT ![d] = @ + 1]
        /\ hold' = hold
        /\ own'[t] = x /\ dst'[t] = d /\ hold[t][x] > 0
        /\ UNCHANGED <<list, used, s_list, lost, gpc, gs>>
    BY <1>2, <2>0, FoundIsLive DEF bind_find, Pin, At, Go, Return, IInv, TypeOK,
       TasksOK, TaskInv, InBind
  <2>2. OnlyTask(t)
    BY <1>2, <2>0, FoundIsLive DEF bind_find, Pin, OnlyTask, Go, Return, IInv,
       TypeOK, TasksOK, HoldOK
  <2>3. \A s \in Streams : Balance(t, s)
    BY <2>1, <2>0 DEF Balance, OwnRef, DstRef, OwnOpen, DstOpen, Unit, OwnRefPcs,
       DstRefPcs, OwnPins, DstPins, DstOpenPcs, IInv, TypeOK, StreamsOK, HoldOK
  <2>4. TaskInv(t)'
    BY <2>1, <2>0 DEF IInv, TaskInv, InBind, InNew, InClose
  <2>5. \A s \in Streams : ref[s] = 0 => ref'[s] = 0
    BY <2>1, <2>0, FoundIsLive DEF IInv, TypeOK, StreamsOK
  <2> QED BY <2>1, <2>2, <2>3, <2>4, <2>5, Quiet DEF InClose, InNew
<1> QED BY <1>1, <1>2 DEF bind_find

LEMMA KeepBindCheck ==
  ASSUME IInv, TypeOK', NEW t \in Tasks, bind_check(t)
  PROVE  IInv'
<1> USE DEF registry, state, counts, task, gc, aside
<1>1. CASE Bound(own[t], dst[t])
  <2>0. dst[t] \in Streams
    BY <1>1 DEF bind_check, Unpin, At, IInv, TypeOK, LocalsOK, OwnPcs, DstPcs, Pcs
  <2>1. /\ pc[t] = "bind_check" /\ pc'[t] = "idle"
        /\ ref' = [ref EXCEPT ![dst[t]] = @ - 1]
        /\ open_ref' = [open_ref EXCEPT ![dst[t]] = @ - 1]
        /\ hold' = hold
        /\ UNCHANGED <<list, used, s_list, lost, gpc, gs>>
    BY <1>1, <2>0 DEF bind_check, Unpin, At, Go, Return, IInv, TypeOK, TasksOK
  <2>2. OnlyTask(t)
    BY <1>1, <2>0 DEF bind_check, Unpin, OnlyTask, Go, Return, IInv, TypeOK,
       TasksOK, HoldOK
  <2>3. \A s \in Streams : Balance(t, s)
    BY <2>1, <2>0 DEF Balance, OwnRef, DstRef, OwnOpen, DstOpen, Unit, OwnRefPcs,
       DstRefPcs, OwnPins, DstPins, DstOpenPcs, IInv, TypeOK, StreamsOK, HoldOK
  <2>4. TaskInv(t)'
    BY <2>1, <2>0 DEF IInv, TaskInv, InBind, InNew, InClose
  <2>5. \A s \in Streams : ref[s] = 0 => ref'[s] = 0
    BY <2>1, <2>0, Exact, Some DEF DstRefPcs, DstPins, IInv, TypeOK, StreamsOK
  <2> QED BY <2>1, <2>2, <2>3, <2>4, <2>5, Quiet DEF InClose, InNew
<1>2. CASE ~Bound(own[t], dst[t])
  <2>1. /\ pc[t] = "bind_check" /\ pc'[t] \in {"bind_link", "bind_undo"}
        /\ ref' = ref
        /\ open_ref' = open_ref
        /\ hold' = hold
        /\ own'[t] = own[t] /\ dst'[t] = dst[t]
        /\ UNCHANGED <<list, used, s_list, lost, gpc, gs>>
    BY <1>2 DEF bind_check, At, Go, Return, IInv, TypeOK, TasksOK
  <2>2. OnlyTask(t)
    BY <1>2 DEF bind_check, OnlyTask, Go, Return, IInv, TypeOK, TasksOK, HoldOK
  <2>3. \A s \in Streams : Balance(t, s)
    BY <2>1 DEF Balance, OwnRef, DstRef, OwnOpen, DstOpen, Unit, OwnRefPcs,
       DstRefPcs, OwnPins, DstPins, DstOpenPcs, IInv, TypeOK, StreamsOK, HoldOK
  <2>4. TaskInv(t)'
    BY <2>1 DEF IInv, TaskInv, InBind, InNew, InClose
  <2>5. \A s \in Streams : ref[s] = 0 => ref'[s] = 0
    BY <2>1 DEF IInv, TypeOK, StreamsOK
  <2> QED BY <2>1, <2>2, <2>3, <2>4, <2>5, Quiet DEF InClose, InNew
<1> QED BY <1>1, <1>2

LEMMA KeepBindUndo ==
  ASSUME IInv, TypeOK', NEW t \in Tasks, bind_undo(t)
  PROVE  IInv'
<1> USE DEF registry, state, counts, task, gc, aside
<1>0. dst[t] \in Streams
  BY DEF bind_undo, At, IInv, TypeOK, LocalsOK, OwnPcs, DstPcs, Pcs
<1>1. /\ pc[t] = "bind_undo" /\ pc'[t] = "bind_giveup"
      /\ ref' = [ref EXCEPT ![dst[t]] = @ - 1]
      /\ open_ref' = open_ref
      /\ hold' = hold
      /\ own'[t] = own[t] /\ dst'[t] = dst[t]
      /\ UNCHANGED <<list, used, s_list, lost, gpc, gs>>
  BY <1>0 DEF bind_undo, At, Go, Return, IInv, TypeOK, TasksOK
<1>2. OnlyTask(t)
  BY <1>0 DEF bind_undo, OnlyTask, Go, Return, IInv, TypeOK, TasksOK, HoldOK
<1>3. \A s \in Streams : Balance(t, s)
  BY <1>1, <1>0 DEF Balance, OwnRef, DstRef, OwnOpen, DstOpen, Unit, OwnRefPcs,
     DstRefPcs, OwnPins, DstPins, DstOpenPcs, IInv, TypeOK, StreamsOK, HoldOK
<1>4. TaskInv(t)'
  <2>1. list[dst[t]] = "g_s"
    BY <1>1, <1>0, Exact, Some DEF IInv, FreedUnused, DstRefPcs, DstPins
  <2> QED BY <1>1, <1>0, <2>1 DEF IInv, TaskInv, InBind, InNew, InClose
<1>5. \A s \in Streams : ref[s] = 0 => ref'[s] = 0
  BY <1>1, <1>0, Exact, Some DEF DstRefPcs, DstPins, IInv, TypeOK, StreamsOK
<1> QED BY <1>1, <1>2, <1>3, <1>4, <1>5, Quiet DEF InClose, InNew

LEMMA KeepBindDrop ==
  ASSUME IInv, TypeOK', NEW t \in Tasks, bind_drop(t)
  PROVE  IInv'
<1> USE DEF registry, state, counts, task, gc, aside
<1>0. dst[t] \in Streams
  BY DEF bind_drop, At, IInv, TypeOK, LocalsOK, OwnPcs, DstPcs, Pcs
<1>1. /\ pc[t] \in {"bind_drop", "bind_giveup"} /\ pc'[t] = "idle"
      /\ ref' = ref
      /\ open_ref' = [open_ref EXCEPT ![dst[t]] = @ - 1]
      /\ hold' = hold
      /\ UNCHANGED <<list, used, s_list, lost, gpc, gs>>
  BY <1>0 DEF bind_drop, At, Go, Return, IInv, TypeOK, TasksOK
<1>2. OnlyTask(t)
  BY <1>0 DEF bind_drop, OnlyTask, Go, Return, IInv, TypeOK, TasksOK, HoldOK
<1>3. \A s \in Streams : Balance(t, s)
  BY <1>1, <1>0 DEF Balance, OwnRef, DstRef, OwnOpen, DstOpen, Unit, OwnRefPcs,
     DstRefPcs, OwnPins, DstPins, DstOpenPcs, IInv, TypeOK, StreamsOK, HoldOK
<1>4. TaskInv(t)'
  BY <1>1, <1>0 DEF IInv, TaskInv, InBind, InNew, InClose
<1>5. \A s \in Streams : ref[s] = 0 => ref'[s] = 0
  BY <1>1, <1>0 DEF IInv, TypeOK, StreamsOK
<1> QED BY <1>1, <1>2, <1>3, <1>4, <1>5, Quiet DEF InClose, InNew

LEMMA KeepCloseDropMore ==
  ASSUME IInv, TypeOK', NEW t \in Tasks, NEW x \in Streams,
         close_stream_drop(t, x), open_ref[x] # 1
  PROVE  IInv'
<1> USE DEF registry, state, counts, task, gc, aside
<1>1. /\ pc[t] = "idle" /\ pc'[t] = "idle"
      /\ ref' = [ref EXCEPT ![x] = @ - 1]
      /\ open_ref' = [open_ref EXCEPT ![x] = @ - 1]
      /\ hold' = [hold EXCEPT ![t][x] = @ - 1]
      /\ hold[t][x] > 0
      /\ UNCHANGED <<list, used, s_list, lost, gpc, gs>>
  BY DEF close_stream_drop, Unpin, At, Go, Return, IInv, TypeOK, TasksOK
<1>2. OnlyTask(t)
  BY DEF close_stream_drop, Unpin, OnlyTask, Go, Return, IInv, TypeOK, TasksOK,
     HoldOK
<1>3. \A s \in Streams : Balance(t, s)
  BY <1>1 DEF Balance, OwnRef, DstRef, OwnOpen, DstOpen, Unit, OwnRefPcs, DstRefPcs,
     OwnPins, DstPins, DstOpenPcs, IInv, TypeOK, StreamsOK, HoldOK
<1>4. TaskInv(t)'
  BY <1>1 DEF IInv, TaskInv, InBind, InNew, InClose, TypeOK, HoldOK
<1>5. \A s \in Streams : ref[s] = 0 => ref'[s] = 0
  BY <1>1, Exact, Some DEF IInv, TypeOK, StreamsOK
<1> QED BY <1>1, <1>2, <1>3, <1>4, <1>5, Quiet DEF InClose, InNew

LEMMA KeepCloseLoad ==
  ASSUME IInv, TypeOK', NEW t \in Tasks, close_stream_load(t)
  PROVE  IInv'
<1> USE DEF registry, state, counts, task, gc, aside
<1>0. own[t] \in Streams
  BY DEF close_stream_load, At, IInv, TypeOK, LocalsOK, OwnPcs, DstPcs, Pcs
<1>1. /\ pc[t] = "close_load" /\ pc'[t] = "close_store"
      /\ ref' = ref
      /\ open_ref' = open_ref
      /\ hold' = hold
      /\ own'[t] = own[t] /\ tmp'[t] = ref[own[t]]
      /\ UNCHANGED <<list, used, s_list, lost, gpc, gs>>
  BY <1>0 DEF close_stream_load, At, Go, Return, IInv, TypeOK, TasksOK
<1>2. OnlyTask(t)
  BY <1>0 DEF close_stream_load, OnlyTask, Go, Return, IInv, TypeOK, TasksOK, HoldOK
<1>3. \A s \in Streams : Balance(t, s)
  BY <1>1, <1>0 DEF Balance, OwnRef, DstRef, OwnOpen, DstOpen, Unit, OwnRefPcs,
     DstRefPcs, OwnPins, DstPins, DstOpenPcs, IInv, TypeOK, StreamsOK, HoldOK
<1>4. TaskInv(t)'
  BY <1>1, <1>0 DEF IInv, TaskInv, InBind, InNew, InClose
<1>5. \A s \in Streams : ref[s] = 0 => ref'[s] = 0
  BY <1>1, <1>0 DEF IInv, TypeOK, StreamsOK
<1> QED BY <1>1, <1>2, <1>3, <1>4, <1>5, Quiet DEF InClose, InNew

LEMMA KeepCloseStore ==
  ASSUME IInv, TypeOK', ~Corrupted', NEW t \in Tasks, close_stream_store(t)
  PROVE  IInv'
<1> USE DEF registry, state, counts, task, gc, aside
<1>0. own[t] \in Streams
  BY DEF close_stream_store, At, IInv, TypeOK, LocalsOK, OwnPcs, DstPcs, Pcs
<1>1. /\ pc[t] = "close_store" /\ pc'[t] = "close_mark"
      /\ ref' = [ref EXCEPT ![own[t]] = @ - 1]
      /\ open_ref' = open_ref
      /\ hold' = hold
      /\ own'[t] = own[t]
      /\ UNCHANGED <<list, used, s_list, lost, gpc, gs>>
  BY <1>0 DEF close_stream_store, At, Go, Return, IInv, TypeOK, TasksOK, StreamsOK,
     Race, Corrupted, Met
<1>2. OnlyTask(t)
  BY <1>0 DEF close_stream_store, OnlyTask, Go, Return, IInv, TypeOK, TasksOK,
     HoldOK
<1>3. \A s \in Streams : Balance(t, s)
  BY <1>1, <1>0 DEF Balance, OwnRef, DstRef, OwnOpen, DstOpen, Unit, OwnRefPcs,
     DstRefPcs, OwnPins, DstPins, DstOpenPcs, IInv, TypeOK, StreamsOK, HoldOK
<1>4. TaskInv(t)'
  BY <1>1, <1>0 DEF IInv, TaskInv, InBind, InNew, InClose
<1>5. \A s \in Streams : ref[s] = 0 => ref'[s] = 0
  BY <1>1, <1>0, Exact, Some DEF OwnRefPcs, OwnPins, IInv, TypeOK, StreamsOK
<1> QED BY <1>1, <1>2, <1>3, <1>4, <1>5, Quiet DEF InClose, InNew

-----------------------------------------------------------------------------
(* Steps that change used: by Turn.                                          *)

LEMMA KeepOpenCheck ==
  ASSUME IInv, TypeOK', ~Corrupted', NEW t \in Tasks, open_stream_check(t)
  PROVE  IInv'
<1> USE DEF registry, state, counts, task, gc, aside
<1>1. CASE used[own[t]] \notin Openable
  <2>0. own[t] \in Streams
    BY <1>1 DEF open_stream_check, Unpin, At, IInv, TypeOK, LocalsOK, OwnPcs,
       DstPcs, Pcs
  <2>1. /\ pc[t] = "open_check" /\ pc'[t] = "idle"
        /\ ref' = [ref EXCEPT ![own[t]] = @ - 1]
        /\ open_ref' = [open_ref EXCEPT ![own[t]] = @ - 1]
        /\ hold' = hold
        /\ UNCHANGED <<list, used, s_list, lost, gpc, gs>>
    BY <1>1, <2>0 DEF open_stream_check, Unpin, At, Go, Return, IInv, TypeOK,
       TasksOK
  <2>2. OnlyTask(t)
    BY <1>1, <2>0 DEF open_stream_check, Unpin, OnlyTask, Go, Return, IInv, TypeOK,
       TasksOK, HoldOK
  <2>3. \A s \in Streams : Balance(t, s)
    BY <2>1, <2>0 DEF Balance, OwnRef, DstRef, OwnOpen, DstOpen, Unit, OwnRefPcs,
       DstRefPcs, OwnPins, DstPins, DstOpenPcs, IInv, TypeOK, StreamsOK, HoldOK
  <2>4. TaskInv(t)'
    BY <2>1, <2>0 DEF IInv, TaskInv, InBind, InNew, InClose
  <2>5. \A s \in Streams : ref[s] = 0 => ref'[s] = 0
    BY <2>1, <2>0, Exact, Some DEF OwnRefPcs, OwnPins, IInv, TypeOK, StreamsOK
  <2> QED BY <2>1, <2>2, <2>3, <2>4, <2>5, Quiet DEF InClose, InNew
<1>2. CASE used[own[t]] \in Openable
  <2>0. own[t] \in Streams
    BY DEF open_stream_check, At, IInv, TypeOK, LocalsOK, OwnPcs, Pcs
  <2>1. /\ pc[t] = "open_check" /\ pc'[t] = "open_init" /\ own'[t] = own[t]
        /\ used[own[t]] \in Openable /\ used' = [used EXCEPT ![own[t]] = ISUED]
        /\ UNCHANGED <<ref, open_ref, hold, list, s_list, lost, gpc, gs>>
    BY <1>2 DEF open_stream_check, At, Go, IInv, TypeOK, TasksOK
  <2>2. OnlyTask(t)
    BY <1>2 DEF open_stream_check, OnlyTask, Go, IInv, TypeOK, TasksOK, HoldOK
  <2>3. \A s \in Streams : Balance(t, s)
    BY <2>1, <2>0 DEF Balance, OwnRef, DstRef, OwnOpen, DstOpen, Unit, OwnRefPcs,
       DstRefPcs, OwnPins, DstPins, DstOpenPcs, IInv, TypeOK, StreamsOK, HoldOK
  <2>4. TaskInv(t)'
    BY <2>1, <2>0 DEF IInv, TypeOK, StreamsOK, TaskInv, InBind, InNew, InClose
  <2>5. \A u \in Tasks \ {t} : Distinct(t, u)'
    BY <2>1 DEF Distinct, InClose, InNew
  <2>6. \A s \in Streams : ref[s] = 0 => ref'[s] = 0
    BY <2>1
  <2>8. \A u \in Tasks : own[u] = own[t] => pc[u] \notin InNew
    BY <1>2 DEF open_stream_check, Race, Corrupted, Met, Using, NewPcs, InNew
  <2>7. UsedMoves(t)
    BY <2>1, <2>0, <2>8 DEF UsedMoves, IInv, TypeOK, StreamsOK, TaskInv, InClose,
       Openable, ISUED, AVAILABLE, AVAILABLE_AGAIN, UNAVAILABLE, WAIT_GC_MARKER,
       WAIT_GC_CLEAN
  <2> QED BY <2>1, <2>2, <2>3, <2>4, <2>5, <2>6, <2>7, Turn
<1> QED BY <1>1, <1>2

LEMMA KeepNewIssue ==
  ASSUME IInv, TypeOK', NEW t \in Tasks, open_stream_new_issue(t)
  PROVE  IInv'
<1> USE DEF registry, state, counts, task, gc, aside
<1>0. own[t] \in Streams
  BY DEF open_stream_new_issue, At, IInv, TypeOK, LocalsOK, OwnPcs, Pcs
<1>1. /\ pc[t] = "new_issue" /\ pc'[t] = "open_init" /\ own'[t] = own[t]
      /\ used[own[t]] = AVAILABLE /\ used' = [used EXCEPT ![own[t]] = ISUED]
      /\ UNCHANGED <<ref, open_ref, hold, list, s_list, lost, gpc, gs>>
  BY DEF open_stream_new_issue, At, Go, IInv, TypeOK, TasksOK, TaskInv, InNew
<1>2. OnlyTask(t)
  BY DEF open_stream_new_issue, OnlyTask, Go, IInv, TypeOK, TasksOK, HoldOK
<1>3. \A s \in Streams : Balance(t, s)
  BY <1>1, <1>0 DEF Balance, OwnRef, DstRef, OwnOpen, DstOpen, Unit, OwnRefPcs,
     DstRefPcs, OwnPins, DstPins, DstOpenPcs, IInv, TypeOK, StreamsOK, HoldOK
<1>4. TaskInv(t)'
  BY <1>1, <1>0 DEF IInv, TypeOK, StreamsOK, TaskInv, InBind, InNew, InClose
<1>5. \A u \in Tasks \ {t} : Distinct(t, u)'
  BY <1>1 DEF Distinct, InClose, InNew
<1>6. \A s \in Streams : ref[s] = 0 => ref'[s] = 0
  BY <1>1
<1>7. UsedMoves(t)
  <2>1. \A s \in Streams : used'[s] # used[s] => s = own[t]
    BY <1>1 DEF IInv, TypeOK, StreamsOK
  <2>2. used'[own[t]] = ISUED
    BY <1>1, <1>0 DEF IInv, TypeOK, StreamsOK
  <2>3. \A u \in Tasks \ {t} : own[u] = own[t] => pc[u] \notin InClose
    BY <1>1 DEF IInv, TaskInv, AVAILABLE, UNAVAILABLE, WAIT_GC_CLEAN
  <2>4. \A u \in Tasks \ {t} : own[u] = own[t] => pc[u] \notin InNew
    BY <1>1 DEF IInv, Distinct, InNew
  <2> QED BY <1>1, <2>1, <2>2, <2>3, <2>4
          DEF UsedMoves, ISUED, AVAILABLE, WAIT_GC_MARKER, WAIT_GC_CLEAN
<1> QED BY <1>1, <1>2, <1>3, <1>4, <1>5, <1>6, <1>7, Turn

LEMMA KeepCloseMark ==
  ASSUME IInv, TypeOK', NEW t \in Tasks, close_stream_mark(t)
  PROVE  IInv'
<1> USE DEF registry, state, counts, task, gc, aside
<1>0. own[t] \in Streams
  BY DEF close_stream_mark, At, IInv, TypeOK, LocalsOK, OwnPcs, Pcs
<1>1. /\ pc[t] = "close_mark" /\ pc'[t] = "idle"
      /\ used[own[t]] \in {UNAVAILABLE, WAIT_GC_CLEAN}
      /\ used' = [used EXCEPT ![own[t]] = WAIT_GC_MARKER]
      /\ UNCHANGED <<ref, open_ref, hold, list, s_list, lost, gpc, gs>>
  BY DEF close_stream_mark, At, Go, Return, IInv, TypeOK, TasksOK, TaskInv, InClose
<1>2. OnlyTask(t)
  BY DEF close_stream_mark, OnlyTask, Go, Return, IInv, TypeOK, TasksOK, HoldOK
<1>3. \A s \in Streams : Balance(t, s)
  BY <1>1, <1>0 DEF Balance, OwnRef, DstRef, OwnOpen, DstOpen, Unit, OwnRefPcs,
     DstRefPcs, OwnPins, DstPins, DstOpenPcs, IInv, TypeOK, StreamsOK, HoldOK
<1>4. TaskInv(t)'
  BY <1>1, <1>0 DEF IInv, TypeOK, StreamsOK, TaskInv, InBind, InNew, InClose, ISUED,
     UNAVAILABLE, WAIT_GC_MARKER, WAIT_GC_CLEAN
<1>5. \A u \in Tasks \ {t} : Distinct(t, u)'
  BY <1>1 DEF Distinct, InClose, InNew
<1>6. \A s \in Streams : ref[s] = 0 => ref'[s] = 0
  BY <1>1
<1>7. UsedMoves(t)
  <2>1. \A s \in Streams : used'[s] # used[s] => s = own[t]
    BY <1>1 DEF IInv, TypeOK, StreamsOK
  <2>2. used'[own[t]] = WAIT_GC_MARKER
    BY <1>1, <1>0 DEF IInv, TypeOK, StreamsOK
  <2>3. ASSUME NEW u \in Tasks \ {t}
        PROVE  /\ ~ (hold[u][own[t]] > 0)
               /\ own[u] = own[t] => pc[u] # "open_init" /\ pc[u] \notin InNew
    BY <1>1, <1>0 DEF IInv, TaskInv, ISUED, AVAILABLE, UNAVAILABLE, WAIT_GC_CLEAN
  <2>4. \A u \in Tasks \ {t} : own[u] = own[t] => pc[u] \notin InClose
    BY <1>1 DEF IInv, Distinct, InClose
  <2> QED BY <1>1, <2>1, <2>2, <2>3, <2>4
          DEF UsedMoves, UNAVAILABLE, WAIT_GC_MARKER, WAIT_GC_CLEAN
<1> QED BY <1>1, <1>2, <1>3, <1>4, <1>5, <1>6, <1>7, Turn

LEMMA KeepCloseDropLast ==
  ASSUME IInv, TypeOK', NEW t \in Tasks, NEW x \in Streams,
         close_stream_drop(t, x), open_ref[x] = 1
  PROVE  IInv'
<1> USE DEF registry, state, counts, task, gc, aside
<1>1. /\ pc[t] = "idle" /\ pc'[t] = "close_load" /\ own'[t] = x
      /\ hold[t][x] > 0 /\ hold' = [hold EXCEPT ![t][x] = @ - 1]
      /\ open_ref[x] = 1 /\ open_ref' = [open_ref EXCEPT ![x] = @ - 1] /\ ref' = ref
      /\ used' = [used EXCEPT ![x] = UNAVAILABLE]
      /\ UNCHANGED <<list, s_list, lost, gpc, gs>>
  BY DEF close_stream_drop, At, Go, IInv, TypeOK, TasksOK, StreamsOK
<1>2. OnlyTask(t)
  BY DEF close_stream_drop, OnlyTask, Go, IInv, TypeOK, TasksOK, HoldOK
<1>3. \A s \in Streams : Balance(t, s)
  BY <1>1 DEF Balance, OwnRef, DstRef, OwnOpen, DstOpen, Unit, OwnRefPcs, DstRefPcs,
     OwnPins, DstPins, DstOpenPcs, IInv, TypeOK, StreamsOK, HoldOK
<1>4. TaskInv(t)'
  <2>0. Opens(x)' = 0
    BY <1>1, <1>2, <1>3, Balanced DEF IInv, TypeOK, StreamsOK
  <2>1. \A u \in Tasks : hold'[u][x] = 0 /\ (own'[u] = x => pc'[u] \notin OwnPins)
    BY <2>0, SomeNext DEF TypeOK, HoldOK
  <2>2. used[x] = ISUED /\ list[x] = "g_s"
    BY <1>1, Some DEF IInv, TaskInv, FreedUnused
  <2>3. \A s \in Streams \ {x} : hold'[t][s] = hold[t][s] /\ used'[s] = used[s]
    BY <1>1 DEF IInv, TypeOK, StreamsOK, HoldOK
  <2>4. \A s \in Streams : hold'[t][s] > 0 => used'[s] = ISUED
    BY <2>1, <2>3 DEF IInv, TaskInv
  <2> QED BY <1>1, <2>2, <2>4 DEF IInv, TypeOK, StreamsOK, TaskInv, InBind, InNew,
             InClose
<1>5. \A u \in Tasks \ {t} : Distinct(t, u)'
  <2>1. used[x] = ISUED
    BY <1>1 DEF IInv, TaskInv
  <2> QED BY <1>1, <1>2, <2>1 DEF Distinct, InClose, InNew, IInv, TaskInv, OnlyTask, ISUED,
             UNAVAILABLE, WAIT_GC_CLEAN
<1>6. \A s \in Streams : ref[s] = 0 => ref'[s] = 0
  BY <1>1
<1>7. UsedMoves(t)
  <2>0. Opens(x)' = 0
    BY <1>1, <1>2, <1>3, Balanced DEF IInv, TypeOK, StreamsOK
  <2>1. \A u \in Tasks \ {t} : hold[u][x] = 0 /\ (own[u] = x => pc[u] \notin OwnPins)
    BY <1>2, <2>0, SomeNext DEF TypeOK, HoldOK, OnlyTask
  <2>2. used[x] = ISUED
    BY <1>1 DEF IInv, TaskInv
  <2> QED BY <1>1, <2>1, <2>2 DEF UsedMoves, IInv, TypeOK, StreamsOK, TaskInv,
             InClose, InNew, OwnPins, ISUED, AVAILABLE, UNAVAILABLE, WAIT_GC_MARKER, WAIT_GC_CLEAN
<1> QED BY <1>1, <1>2, <1>3, <1>4, <1>5, <1>6, <1>7, Turn

-----------------------------------------------------------------------------
(* Steps that bind, and steps that create.                                  *)

(* The two ways a node enters s_list: onto a destination that was found ...  *)
LEMMA KeepBindLink ==
  ASSUME IInv, TypeOK', NEW t \in Tasks, bind_link(t)
  PROVE  IInv'
<1> USE DEF registry, state, counts, task, gc, aside
<1> DEFINE x == own[t]
           d == dst[t]
<1>1. x \in Streams /\ d \in Streams /\ OnlySource(x)
  BY DEF bind_link, Link, At, IInv, TypeOK, StreamsOK, LocalsOK, OwnPcs, DstPcs,
     Pcs, OnlySource
<1>2. /\ pc[t] = "bind_link" /\ pc'[t] = "bind_drop"
      /\ s_list' = [s_list EXCEPT ![x][d] = @ + 1] /\ hold[t][x] > 0
      /\ UNCHANGED <<list, used, ref, open_ref, own, dst, tmp, hold, lost, gpc, gs>>
  BY DEF bind_link, Link, At, Go, IInv, TypeOK, TasksOK, TaskInv, InBind
<1>3. OnlyTask(t)
  BY DEF bind_link, OnlyTask, Go, IInv, TypeOK, TasksOK
<1>4. RefsCount' /\ OpensCount'
  <2> SUFFICES ASSUME NEW s \in Streams PROVE ref'[s] = Refs(s)' /\ open_ref'[s] = Opens(s)'
    BY DEF RefsCount, OpensCount
  <2>1. /\ OwnRef(t, s) = 0 /\ OwnRef(t, s)' = 0 /\ OwnOpen(t, s) = 0 /\ OwnOpen(t, s)' = 0
        /\ DstRef(t, s) = Unit(d = s) /\ DstRef(t, s)' = 0
        /\ DstOpen(t, s) = Unit(d = s) /\ DstOpen(t, s)' = Unit(d = s)
    BY <1>2 DEF OwnRef, DstRef, OwnOpen, DstOpen, Unit, OwnRefPcs, DstRefPcs,
       OwnPins, DstPins, DstOpenPcs
  <2>2. s_list'[x][s] - s_list[x][s] = Unit(d = s) /\ hold'[t][s] - hold[t][s] = 0
        /\ Lost(s)' - Lost(s) = 0
    BY <1>1, <1>2 DEF Unit, Lost, IInv, TypeOK, StreamsOK, HoldOK
  <2>3. Refs(s)' = Refs(s) + (hold'[t][s] - hold[t][s]) + (s_list'[x][s] - s_list[x][s])
                      + (OwnRef(t, s)' - OwnRef(t, s)) + (DstRef(t, s)' - DstRef(t, s))
                      + (Lost(s)' - Lost(s))
    BY <1>1, <1>3, TaskStep DEF IInv
  <2>4. Opens(s)' = Opens(s) + (hold'[t][s] - hold[t][s])
                       + (OwnOpen(t, s)' - OwnOpen(t, s)) + (DstOpen(t, s)' - DstOpen(t, s))
    BY <1>1, <1>3, TaskStep DEF IInv
  <2>5. Refs(s)' = Refs(s) /\ Opens(s)' = Opens(s)
    BY <2>1, <2>2, <2>3, <2>4, Exact DEF Unit
  <2> QED BY <1>2, <2>5, Exact
<1>5. TaskInv(t)'
  BY <1>1, <1>2 DEF TaskInv, InBind, InNew, InClose, IInv, TypeOK, StreamsOK
<1>6. \A u \in Tasks \ {t} : Distinct(t, u)' /\ (pc[u] = "bind_new" => dst[u] \notin lost')
  BY <1>2 DEF Distinct, InClose, InNew, IInv, TaskInv
<1>7. \A y, s \in Streams : s_list'[y][s] >= s_list[y][s]
  BY <1>1, <1>2 DEF IInv, TypeOK, StreamsOK
<1>8. \A y \in Streams : s_list'[y] # s_list[y] => hold[t][y] > 0
  BY <1>2, <1>1 DEF OnlySource
<1>9. UsedMoves(t)
  BY <1>2 DEF UsedMoves
<1> QED BY <1>2, <1>3, <1>4, <1>5, <1>6, <1>7, <1>8, <1>9, Move

(* ... and onto one that was just created, or else its reference is lost.    *)
LEMMA KeepBindNew ==
  ASSUME IInv, TypeOK', NEW t \in Tasks, bind_new(t)
  PROVE  IInv'
<1> USE DEF registry, state, counts, task, gc, aside
<1> DEFINE x == own[t]
           d == dst[t]
<1>1. x \in Streams /\ d \in Streams /\ OnlySource(x)
  BY DEF bind_new, Link, At, IInv, TypeOK, StreamsOK, LocalsOK, OwnPcs, DstPcs, Pcs,
     OnlySource
<1>2. /\ pc[t] = "bind_new" /\ pc'[t] = "idle" /\ hold[t][x] > 0 /\ d \notin lost
      /\ \/ s_list' = [s_list EXCEPT ![x][d] = @ + 1] /\ lost' = lost
         \/ s_list' = s_list /\ lost' = lost \cup {d}
      /\ UNCHANGED <<list, used, ref, open_ref, hold, gpc, gs>>
  BY DEF bind_new, Link, At, Go, Return, IInv, TypeOK, TasksOK, TaskInv, InBind
<1>3. OnlyTask(t)
  BY DEF bind_new, OnlyTask, Go, Return, IInv, TypeOK, TasksOK
<1>4. RefsCount' /\ OpensCount'
  <2> SUFFICES ASSUME NEW s \in Streams PROVE ref'[s] = Refs(s)' /\ open_ref'[s] = Opens(s)'
    BY DEF RefsCount, OpensCount
  <2>1. /\ OwnRef(t, s) = 0 /\ OwnRef(t, s)' = 0 /\ OwnOpen(t, s) = 0 /\ OwnOpen(t, s)' = 0
        /\ DstRef(t, s) = Unit(d = s) /\ DstRef(t, s)' = 0
        /\ DstOpen(t, s) = 0 /\ DstOpen(t, s)' = 0
    BY <1>2 DEF OwnRef, DstRef, OwnOpen, DstOpen, Unit, OwnRefPcs, DstRefPcs,
       OwnPins, DstPins, DstOpenPcs
  <2>2. (s_list'[x][s] - s_list[x][s]) + (Lost(s)' - Lost(s)) = Unit(d = s)
        /\ hold'[t][s] - hold[t][s] = 0
    BY <1>1, <1>2 DEF Unit, Lost, IInv, TypeOK, StreamsOK, HoldOK
  <2>3. Refs(s)' = Refs(s) + (hold'[t][s] - hold[t][s]) + (s_list'[x][s] - s_list[x][s])
                      + (OwnRef(t, s)' - OwnRef(t, s)) + (DstRef(t, s)' - DstRef(t, s))
                      + (Lost(s)' - Lost(s))
    BY <1>1, <1>3, TaskStep DEF IInv
  <2>4. Opens(s)' = Opens(s) + (hold'[t][s] - hold[t][s])
                       + (OwnOpen(t, s)' - OwnOpen(t, s)) + (DstOpen(t, s)' - DstOpen(t, s))
    BY <1>1, <1>3, TaskStep DEF IInv
  <2>5. Lost(s)' \in Nat /\ Lost(s) \in Nat /\ s_list'[x][s] \in Nat /\ s_list[x][s] \in Nat
    BY <1>1 DEF Lost, Unit, IInv, TypeOK, StreamsOK
  <2>6. Refs(s)' = Refs(s) /\ Opens(s)' = Opens(s)
    BY <2>1, <2>2, <2>3, <2>4, <2>5, Exact DEF Unit
  <2> QED BY <1>2, <2>6, Exact
<1>5. TaskInv(t)'
  BY <1>1, <1>2 DEF TaskInv, InBind, InNew, InClose, IInv
<1>6. \A u \in Tasks \ {t} : Distinct(t, u)' /\ (pc[u] = "bind_new" => dst[u] \notin lost')
  BY <1>2 DEF Distinct, InClose, InNew, IInv, TaskInv
<1>7. \A y, s \in Streams : s_list'[y][s] >= s_list[y][s]
  <2>1. \A y, s \in Streams : s_list[y][s] \in Nat
    BY DEF IInv, TypeOK, StreamsOK
  <2>2. CASE s_list' = [s_list EXCEPT ![x][d] = @ + 1]
    BY <1>1, <2>1, <2>2 DEF IInv, TypeOK, StreamsOK
  <2>3. CASE s_list' = s_list
    BY <2>1, <2>3
  <2> QED BY <1>2, <2>2, <2>3
<1>8. \A y \in Streams : s_list'[y] # s_list[y] => hold[t][y] > 0
  <2>1. hold[t][x] > 0
    BY <1>2
  <2> QED BY <1>1, <2>1 DEF OnlySource
<1>9. UsedMoves(t)
  BY <1>2 DEF UsedMoves
<1> QED BY <1>2, <1>3, <1>4, <1>5, <1>6, <1>7, <1>8, <1>9, Move

(* A stream nobody refers to has no opens either. *)
LEMMA Unreached ==
  ASSUME IInv, NEW s \in Streams, ref[s] = 0, list[s] # "g_s"
  PROVE  Opens(s) = 0
<1>1. Refs(s) = 0 /\ TypeOK
  BY Exact DEF IInv
<1>2. Tokens(hold, s) = {}
  <2>1. \A u \in Tasks : hold[u][s] = 0
    BY <1>1, Some DEF TypeOK, HoldOK
  <2>2. DOMAIN hold = Tasks
    BY <1>1 DEF TypeOK, HoldOK
  <2> QED BY <2>1, <2>2 DEF Tokens
<1>3. Using(pc, own, OwnPins, s) = {}
  BY <1>1, Some DEF Using, OwnRefPcs
<1>4. Using(pc, dst, DstOpenPcs, s) = {}
  <2>1. ASSUME NEW u \in Tasks, dst[u] = s, pc[u] \in DstOpenPcs PROVE FALSE
    <3>1. pc[u] = "bind_drop"
      BY <1>1, <2>1, Some DEF DstOpenPcs, DstRefPcs, IInv, TaskInv
    <3>2. own[u] \in Streams /\ s_list[own[u]][s] > 0
      BY <2>1, <3>1 DEF IInv, TypeOK, LocalsOK, OwnPcs, Pcs, TaskInv
    <3> QED BY <1>1, <3>2, Some
  <2> QED BY <2>1 DEF Using
<1> QED BY <1>2, <1>3, <1>4, FS_EmptySet DEF Opens

(* creat_stream takes memory nobody refers to any more.                      *)
LEMMA Create ==
  ASSUME IInv, TypeOK', NEW t \in Tasks, OnlyTask(t),
         NEW d \in Streams, NEW n, creat_stream(d, n), UNCHANGED <<hold, gpc, gs>>,
         \/ pc[t] = "open_create" /\ pc'[t] = "new_load" /\ own'[t] = d
         \/ pc[t] = "bind_create" /\ pc'[t] = "bind_new" /\ dst'[t] = d /\ own'[t] = own[t]
  PROVE  IInv'
<1>1. ref[d] = 0 /\ Refs(d) = 0 /\ Opens(d) = 0 /\ s_list[d] = NoNodes /\ d \notin lost
  <2>1. ref[d] = 0 /\ Refs(d) = 0 /\ s_list[d] = NoNodes
    BY Exact DEF creat_stream, IInv, FreedUnused, Condemned
  <2>2. list[d] # "g_s"
    BY DEF creat_stream
  <2> QED BY <2>1, <2>2, Unreached, Some DEF IInv
<1>2. UNCHANGED <<s_list, lost>>
  BY <1>1 DEF creat_stream, IInv, TypeOK, StreamsOK
<1>3. /\ list' = [list EXCEPT ![d] = "g_s"] /\ list[d] = "heap"
      /\ used' = [used EXCEPT ![d] = AVAILABLE]
      /\ ref' = [ref EXCEPT ![d] = 1] /\ open_ref' = [open_ref EXCEPT ![d] = 0]
  BY DEF creat_stream
<1>4. \A u \in Tasks : /\ own[u] = d => pc[u] \notin InClose
                       /\ dst[u] = d => pc[u] # "bind_giveup"
  BY <1>3 DEF IInv, TaskInv
<1>5. \A u \in Tasks : /\ hold[u][d] = 0 /\ (own[u] = d => pc[u] \notin OwnRefPcs)
                       /\ (dst[u] = d => pc[u] \notin DstRefPcs)
  BY <1>1, Some DEF IInv, TypeOK, HoldOK
<1>6. RefsCount' /\ OpensCount'
  <2> SUFFICES ASSUME NEW s \in Streams PROVE ref'[s] = Refs(s)' /\ open_ref'[s] = Opens(s)'
    BY DEF RefsCount, OpensCount
  <2>1. /\ OwnRef(t, s) = 0 /\ DstRef(t, s) = 0 /\ OwnOpen(t, s) = 0 /\ DstOpen(t, s) = 0
        /\ OwnOpen(t, s)' = 0 /\ DstOpen(t, s)' = 0
        /\ OwnRef(t, s)' + DstRef(t, s)' = Unit(d = s)
        /\ OwnRef(t, s)' \in Nat /\ DstRef(t, s)' \in Nat
    BY DEF OwnRef, DstRef, OwnOpen, DstOpen, Unit, OwnRefPcs, DstRefPcs, OwnPins,
       DstPins, DstOpenPcs
  <2>2. hold'[t][s] - hold[t][s] = 0
    BY DEF IInv, TypeOK, HoldOK
  <2>3. Refs(s)' = Refs(s) + (hold'[t][s] - hold[t][s])
                      + (OwnRef(t, s)' - OwnRef(t, s)) + (DstRef(t, s)' - DstRef(t, s))
    BY <1>2, TaskCounts DEF IInv
  <2>4. Opens(s)' = Opens(s) + (hold'[t][s] - hold[t][s])
                       + (OwnOpen(t, s)' - OwnOpen(t, s)) + (DstOpen(t, s)' - DstOpen(t, s))
    BY <1>2, TaskCounts DEF IInv
  <2>5. Refs(s)' = Refs(s) + Unit(d = s) /\ Opens(s)' = Opens(s)
    <3>1. Refs(s) \in Nat /\ Opens(s) \in Nat
      BY Exact
    <3> QED BY <2>1, <2>2, <2>3, <2>4, <3>1
  <2>6. CASE s = d
    BY <1>1, <1>3, <2>5, <2>6 DEF Unit, IInv, TypeOK, StreamsOK
  <2>7. CASE s # d
    BY <1>3, <2>5, <2>7, Exact DEF Unit, IInv, TypeOK, StreamsOK
  <2> QED BY <2>6, <2>7
<1>7. \A u \in Tasks \ {t} : TaskInv(u)'
  <2> SUFFICES ASSUME NEW u \in Tasks \ {t} PROVE TaskInv(u)'
    OBVIOUS
  <2>1. /\ TaskInv(u) /\ pc'[u] = pc[u] /\ own'[u] = own[u] /\ dst'[u] = dst[u] /\ hold'[u] = hold[u]
    BY DEF IInv, OnlyTask
  <2>2. pc[u] \in OwnRefPcs => own[u] \in Streams /\ own[u] # d
    BY <1>5 DEF IInv, TypeOK, LocalsOK, OwnRefPcs, OwnPins, OwnPcs, Pcs
  <2>3. \A s \in Streams \ {d} : used'[s] = used[s] /\ list'[s] = list[s]
    BY <1>3 DEF IInv, TypeOK, StreamsOK
  <2>4. \A s \in Streams : hold'[u][s] > 0 => used'[s] = ISUED
    BY <2>1, <2>3, <1>5 DEF TaskInv
  <2>5. pc'[u] = "open_init" => used'[own'[u]] = ISUED
    BY <2>1, <2>2, <2>3 DEF TaskInv, OwnRefPcs, OwnPins
  <2>6. pc'[u] \in InClose => used'[own'[u]] \in {UNAVAILABLE, WAIT_GC_CLEAN} /\ list'[own'[u]] = "g_s"
    <3>1. pc[u] \in InClose => own[u] \in Streams /\ own[u] # d
      BY <1>4 DEF IInv, TypeOK, LocalsOK, InClose, OwnPcs, Pcs
    <3> QED BY <2>1, <2>3, <3>1 DEF TaskInv
  <2>7. pc'[u] \in InNew => used'[own'[u]] = AVAILABLE
    BY <2>1, <2>2, <2>3 DEF TaskInv, OwnRefPcs, OwnPins, InNew
  <2>8. pc'[u] = "bind_giveup" => list'[dst'[u]] = "g_s"
    <3>1. pc[u] = "bind_giveup" => dst[u] \in Streams /\ dst[u] # d
      BY <1>4 DEF IInv, TypeOK, LocalsOK, DstPcs
    <3> QED BY <2>1, <2>3, <3>1 DEF TaskInv
  <2> QED BY <1>2, <2>1, <2>4, <2>5, <2>6, <2>7, <2>8 DEF TaskInv
<1>8. TaskInv(t)'
  <2>1. \A s \in Streams : hold'[t][s] > 0 => used'[s] = ISUED
    BY <1>3, <1>5 DEF IInv, TypeOK, StreamsOK, TaskInv
  <2> QED BY <1>1, <1>2, <1>3, <2>1 DEF IInv, TypeOK, StreamsOK, TaskInv, InBind,
             InNew, InClose
<1>9. \A u, v \in Tasks : u # v => Distinct(u, v)'
  <2>1. \A u \in Tasks \ {t} : Distinct(t, u)' /\ Distinct(u, t)'
    BY <1>5 DEF OnlyTask, Distinct, InClose, InNew, DstRefPcs, OwnRefPcs, OwnPins
  <2> QED BY <2>1 DEF IInv, Distinct, OnlyTask
<1>10. Marked' /\ Condemned' /\ FreedUnused'
  <2>1. \A s \in Streams \ {d} : /\ used'[s] = used[s] /\ list'[s] = list[s] /\ ref'[s] = ref[s]
                                 /\ s_list'[s] = s_list[s]
    BY <1>2, <1>3 DEF IInv, TypeOK, StreamsOK
  <2>2. used'[d] # WAIT_GC_CLEAN /\ list'[d] = "g_s"
    BY <1>3 DEF IInv, TypeOK, StreamsOK, AVAILABLE, WAIT_GC_CLEAN
  <2>3. Marked'
    BY <1>3, <2>1 DEF IInv, Marked
  <2>4. Condemned'
    BY <2>1, <2>2 DEF IInv, Condemned
  <2>5. FreedUnused'
    BY <1>6, <2>1, <2>2 DEF IInv, FreedUnused, RefsCount
  <2> QED BY <2>3, <2>4, <2>5
<1> QED BY <1>6, <1>7, <1>8, <1>9, <1>10 DEF IInv

LEMMA KeepOpenCreate ==
  ASSUME IInv, TypeOK', NEW t \in Tasks, open_stream_create(t)
  PROVE  IInv'
<1> USE DEF registry, state, counts, task, gc, aside
<1>1. ASSUME NEW d \in Streams, creat_stream(d, arg[t]), own' = [own EXCEPT ![t] = d],
             Go(t, "new_load"), UNCHANGED dst
      PROVE  IInv'
  <2>1. OnlyTask(t) /\ UNCHANGED <<hold, gpc, gs>>
    BY <1>1 DEF open_stream_create, At, OnlyTask, Go, IInv, TypeOK, TasksOK
  <2>2. pc[t] = "open_create" /\ pc'[t] = "new_load" /\ own'[t] = d
    BY <1>1 DEF open_stream_create, At, Go, IInv, TypeOK, TasksOK
  <2> QED BY <1>1, <2>1, <2>2, Create
<1>2. CASE Return(t) /\ UNCHANGED <<registry, state, counts, s_list, lost>>
  <2>1. /\ pc[t] = "open_create" /\ pc'[t] = "idle"
        /\ ref' = ref
        /\ open_ref' = open_ref
        /\ hold' = hold
        /\ UNCHANGED <<list, used, s_list, lost, gpc, gs>>
    BY <1>2 DEF open_stream_create, At, Go, Return, IInv, TypeOK, TasksOK
  <2>2. OnlyTask(t)
    BY <1>2 DEF open_stream_create, OnlyTask, Go, Return, IInv, TypeOK, TasksOK,
       HoldOK
  <2>3. \A s \in Streams : Balance(t, s)
    BY <2>1 DEF Balance, OwnRef, DstRef, OwnOpen, DstOpen, Unit, OwnRefPcs,
       DstRefPcs, OwnPins, DstPins, DstOpenPcs, IInv, TypeOK, StreamsOK, HoldOK
  <2>4. TaskInv(t)'
    BY <2>1 DEF IInv, TaskInv, InBind, InNew, InClose
  <2>5. \A s \in Streams : ref[s] = 0 => ref'[s] = 0
    BY <2>1 DEF IInv, TypeOK, StreamsOK
  <2> QED BY <2>1, <2>2, <2>3, <2>4, <2>5, Quiet DEF InClose, InNew
<1> QED BY <1>1, <1>2 DEF open_stream_create

LEMMA KeepBindCreate ==
  ASSUME IInv, TypeOK', NEW t \in Tasks, bind_create(t)
  PROVE  IInv'
<1> USE DEF registry, state, counts, task, gc, aside
<1>1. ASSUME NEW d \in Streams, creat_stream(d, arg[t]), dst' = [dst EXCEPT ![t] = d],
             Go(t, "bind_new"), UNCHANGED own
      PROVE  IInv'
  <2>1. OnlyTask(t) /\ UNCHANGED <<hold, gpc, gs>>
    BY <1>1 DEF bind_create, At, OnlyTask, Go, IInv, TypeOK, TasksOK
  <2>2. pc[t] = "bind_create" /\ pc'[t] = "bind_new" /\ dst'[t] = d /\ own'[t] = own[t]
    BY <1>1 DEF bind_create, At, Go, IInv, TypeOK, TasksOK
  <2> QED BY <1>1, <2>1, <2>2, Create
<1>2. CASE Return(t) /\ UNCHANGED <<registry, state, counts, s_list, lost>>
  <2>1. /\ pc[t] = "bind_create" /\ pc'[t] = "idle"
        /\ ref' = ref
        /\ open_ref' = open_ref
        /\ hold' = hold
        /\ UNCHANGED <<list, used, s_list, lost, gpc, gs>>
    BY <1>2 DEF bind_create, At, Go, Return, IInv, TypeOK, TasksOK
  <2>2. OnlyTask(t)
    BY <1>2 DEF bind_create, OnlyTask, Go, Return, IInv, TypeOK, TasksOK, HoldOK
  <2>3. \A s \in Streams : Balance(t, s)
    BY <2>1 DEF Balance, OwnRef, DstRef, OwnOpen, DstOpen, Unit, OwnRefPcs,
       DstRefPcs, OwnPins, DstPins, DstOpenPcs, IInv, TypeOK, StreamsOK, HoldOK
  <2>4. TaskInv(t)'
    BY <2>1 DEF IInv, TaskInv, InBind, InNew, InClose
  <2>5. \A s \in Streams : ref[s] = 0 => ref'[s] = 0
    BY <2>1 DEF IInv, TypeOK, StreamsOK
  <2> QED BY <2>1, <2>2, <2>3, <2>4, <2>5, Quiet DEF InClose, InNew
<1> QED BY <1>1, <1>2 DEF bind_create

(* A step that nothing counted or relied on takes part in.                   *)
LEMMA Same ==
  ASSUME IInv, TypeOK',
         UNCHANGED <<list, used, ref, open_ref, s_list, hold, pc, own, dst, tmp, lost, gpc, gs>>
  PROVE  IInv'
<1>1. RefsCount' /\ OpensCount' /\ FreedUnused'
  BY DEF IInv, RefsCount, OpensCount, FreedUnused, Refs, Opens, Using,
     Tokens
<1>2. (\A t \in Tasks : TaskInv(t)') /\ (\A t, u \in Tasks : t # u => Distinct(t, u)')
  BY DEF IInv, TaskInv, Distinct
<1>3. Marked' /\ Condemned'
  BY DEF IInv, Marked, Condemned
<1> QED BY <1>1, <1>2, <1>3 DEF IInv

-----------------------------------------------------------------------------
(* The steps of the work queue.  It takes away only what is marked or has    *)
(* no references.                                                            *)
Free(s) == used[s] = WAIT_GC_MARKER \/ ref[s] = 0

LEMMA Collect ==
  ASSUME IInv, TypeOK', UNCHANGED <<hold, pc, own, dst, tmp, lost>>,
         NEW x \in Streams, OnlySource(x), s_list'[x] # s_list[x] => Free(x),
         \A s \in Streams : ref'[s] = ref[s] + (s_list'[x][s] - s_list[x][s]),
         open_ref' = open_ref,
         \A s \in Streams : used'[s] # used[s] =>
             \/ used[s] = WAIT_GC_MARKER
             \/ ref[s] = 0 /\ (used'[s] = WAIT_GC_CLEAN \/ list[s] # "g_s"),
         \A s \in Streams : list[s] = "g_s" /\ list'[s] # "g_s" =>
             /\ ref[s] = 0 /\ ref'[s] = 0
             /\ \A u \in Tasks : /\ own[u] = s => pc[u] # "close_mark"
                                 /\ dst[u] = s => pc[u] # "bind_giveup",
         \A s \in Streams : list[s] # "g_s" => list'[s] # "g_s" /\ ref'[s] = ref[s],
         Marked', Condemned'
  PROVE  IInv'
<1>2. RefsCount' /\ OpensCount'
  <2>1. \A s \in Streams : Refs(s)' = Refs(s) + (s_list'[x][s] - s_list[x][s]) /\ Opens(s)' = Opens(s)
    BY GcCounts DEF IInv
  <2> QED BY <2>1 DEF IInv, RefsCount, OpensCount
<1>3. \A u \in Tasks, s \in Streams :
         Free(s) => hold[u][s] = 0 /\ (own[u] = s => pc[u] # "open_init" /\ pc[u] \notin InNew)
  <2> SUFFICES ASSUME NEW u \in Tasks, NEW s \in Streams, Free(s)
               PROVE  hold[u][s] = 0 /\ (own[u] = s => pc[u] # "open_init" /\ pc[u] \notin InNew)
    OBVIOUS
  <2>1. CASE ref[s] = 0
    BY <2>1, Exact, Some DEF IInv, OwnRefPcs, OwnPins, InNew
  <2>2. CASE used[s] = WAIT_GC_MARKER
    BY <2>2, Exact DEF IInv, TaskInv, ISUED, AVAILABLE, WAIT_GC_MARKER
  <2> QED BY <2>1, <2>2 DEF Free
<1>4. ASSUME NEW u \in Tasks PROVE TaskInv(u)'
  <2>1. TaskInv(u) /\ pc'[u] = pc[u] /\ own'[u] = own[u] /\ dst'[u] = dst[u] /\ hold'[u] = hold[u]
    BY DEF IInv
  <2>2. \A s \in Streams : hold'[u][s] > 0 => used'[s] = ISUED
    BY <1>3, <2>1 DEF TaskInv, Free
  <2>3. pc[u] \in InClose \cup InBind \cup InNew \cup {"open_init"} => own[u] \in Streams
    BY DEF IInv, TypeOK, LocalsOK, OwnPcs, Pcs, InClose, InBind, InNew
  <2>4. /\ pc'[u] = "open_init" => used'[own'[u]] = ISUED
        /\ pc'[u] \in InNew => used'[own'[u]] = AVAILABLE
    BY <1>3, <2>1, <2>3 DEF TaskInv, Free
  <2>5. pc'[u] \in InClose => used'[own'[u]] \in {UNAVAILABLE, WAIT_GC_CLEAN} /\ list'[own'[u]] = "g_s"
    <3> SUFFICES ASSUME pc[u] \in InClose
                 PROVE  used'[own[u]] \in {UNAVAILABLE, WAIT_GC_CLEAN} /\ list'[own[u]] = "g_s"
      BY <2>1
    <3>1. own[u] \in Streams /\ used[own[u]] \in {UNAVAILABLE, WAIT_GC_CLEAN} /\ list[own[u]] = "g_s"
      BY <2>1, <2>3 DEF TaskInv
    <3>2. used'[own[u]] \in {UNAVAILABLE, WAIT_GC_CLEAN}
      BY <3>1 DEF UNAVAILABLE, WAIT_GC_CLEAN, WAIT_GC_MARKER
    <3>3. CASE pc[u] = "close_mark"
      BY <3>1, <3>2, <3>3
    <3>4. CASE pc[u] # "close_mark"
      <4>1. ref[own[u]] # 0
        BY <3>1, <3>4, Exact, Some DEF IInv, InClose, OwnRefPcs, OwnPins
      <4> QED BY <3>1, <3>2, <4>1
    <3> QED BY <3>3, <3>4
  <2>6. pc'[u] = "bind_drop" => s_list'[own'[u]][dst'[u]] > 0
    BY <1>3, <2>1, <2>3 DEF TaskInv, InBind, OnlySource
  <2>7. pc'[u] = "bind_giveup" => list'[dst'[u]] = "g_s"
    <3>1. pc[u] = "bind_giveup" => dst[u] \in Streams
      BY DEF IInv, TypeOK, LocalsOK, DstPcs
    <3> QED BY <2>1, <3>1 DEF TaskInv
  <2> QED BY <2>1, <2>2, <2>4, <2>5, <2>6, <2>7 DEF TaskInv
<1>5. \A t, u \in Tasks : t # u => Distinct(t, u)'
  BY DEF IInv, Distinct
<1>6. FreedUnused'
  BY <1>2 DEF IInv, FreedUnused, RefsCount
<1> QED BY <1>2, <1>4, <1>5, <1>6 DEF IInv

LEMMA KeepVisit ==
  ASSUME IInv, TypeOK', NEW s \in Streams, mark_visit(s)
  PROVE  IInv'
<1> USE DEF registry, state, counts, task, gc, aside
<1>1. UNCHANGED <<list, used, ref, open_ref, s_list, hold, pc, own, dst, tmp, lost>>
  BY DEF GcAt, mark_visit
<1>2. OnlySource(s) /\ s_list'[s] = s_list[s]
  BY <1>1 DEF OnlySource
<1>3. \A d \in Streams : ref'[d] = ref[d] + (s_list'[s][d] - s_list[s][d])
  BY <1>1 DEF IInv, TypeOK, StreamsOK
<1>4. Marked'
  BY DEF GcAt, mark_visit, Marked, Reclaimable
<1>5. Condemned'
  BY <1>1 DEF IInv, Condemned
<1> QED BY <1>1, <1>2, <1>3, <1>4, <1>5, Collect

LEMMA KeepUnbind ==
  ASSUME IInv, TypeOK', mark_unbind
  PROVE  IInv'
<1> USE DEF registry, state, counts, task, gc, aside
<1>1. PICK d \in Streams : /\ s_list[gs][d] > 0
                           /\ s_list' = [s_list EXCEPT ![gs][d] = @ - 1]
                           /\ ref' = [ref EXCEPT ![d] = @ - 1]
  BY DEF GcAt, mark_unbind
<1>2. /\ UNCHANGED <<list, used, open_ref, hold, pc, own, dst, tmp, lost, gpc, gs>>
      /\ gpc = "unbind" /\ gs \in Streams /\ list[gs] = "g_s" /\ Free(gs)
  BY DEF GcAt, mark_unbind, IInv, Marked, Free
<1>3. OnlySource(gs)
  BY <1>1 DEF IInv, TypeOK, StreamsOK, OnlySource
<1>4. \A s \in Streams : ref'[s] = ref[s] + (s_list'[gs][s] - s_list[gs][s])
  BY <1>1, <1>2 DEF IInv, TypeOK, StreamsOK
<1>5. ref[d] > 0 /\ list[d] = "g_s"
  BY <1>1, <1>2, Some, Exact DEF IInv, FreedUnused
<1>6. \A s \in Streams \ {d} : ref'[s] = ref[s]
  BY <1>1 DEF IInv, TypeOK, StreamsOK
<1>7. Marked'
  BY <1>2, <1>5, <1>6 DEF IInv, Marked
<1>8. Condemned'
  <2>1. \A s \in Streams \ {gs} : s_list'[s] = s_list[s]
    BY <1>3 DEF OnlySource
  <2>2. s_list[gs] # NoNodes
    BY <1>1 DEF NoNodes
  <2> QED BY <1>2, <1>5, <1>6, <2>1, <2>2 DEF IInv, Condemned
<1> QED BY <1>2, <1>3, <1>4, <1>5, <1>6, <1>7, <1>8, Collect

LEMMA KeepMark ==
  ASSUME IInv, TypeOK', mark_lists \/ mark_ref \/ mark_again \/ mark_clean
  PROVE  IInv'
<1> USE DEF registry, state, counts, task, gc, aside
<1>1. /\ UNCHANGED <<list, ref, open_ref, s_list, hold, pc, own, dst, tmp, lost>>
      /\ gs \in Streams /\ list[gs] = "g_s"
      /\ \A s \in Streams \ {gs} : used'[s] = used[s]
  BY DEF GcAt, mark_lists, mark_ref, mark_again, mark_clean, IInv, Marked, TypeOK,
     StreamsOK
<1>2. OnlySource(gs) /\ s_list'[gs] = s_list[gs]
  BY <1>1 DEF OnlySource
<1>3. \A d \in Streams : ref'[d] = ref[d] + (s_list'[gs][d] - s_list[gs][d])
  BY <1>1 DEF IInv, TypeOK, StreamsOK
<1>4. CASE mark_lists
  <2>1. Marked'
    BY <1>4 DEF GcAt, mark_lists, IInv, Marked
  <2>2. Condemned' /\ used' = used
    BY <1>1, <1>4 DEF GcAt, mark_lists, IInv, Condemned
  <2> QED BY <1>1, <1>2, <1>3, <2>1, <2>2, Collect
<1>5. CASE mark_ref
  <2>1. s_list[gs] = NoNodes /\ (used'[gs] # used[gs] => ref[gs] = 0 /\ used'[gs] = WAIT_GC_CLEAN)
    BY <1>1, <1>5 DEF GcAt, mark_ref, IInv, Marked, TypeOK, StreamsOK
  <2>2. Marked'
    BY <1>5 DEF GcAt, mark_ref, IInv, Marked, TypeOK, StreamsOK
  <2>3. Condemned'
    BY <1>1, <1>5, <2>1 DEF GcAt, mark_ref, IInv, Condemned
  <2> QED BY <1>1, <1>2, <1>3, <2>1, <2>2, <2>3, Collect
<1>6. CASE mark_again
  <2>1. used[gs] = WAIT_GC_MARKER /\ used'[gs] = AVAILABLE_AGAIN
    BY <1>1, <1>6 DEF GcAt, mark_again, IInv, Marked, TypeOK, StreamsOK
  <2>2. Marked'
    BY <1>6 DEF GcAt, mark_again, Marked
  <2>3. Condemned'
    BY <1>1, <2>1 DEF IInv, Condemned, AVAILABLE_AGAIN, WAIT_GC_CLEAN
  <2> QED BY <1>1, <1>2, <1>3, <2>1, <2>2, <2>3, Collect
<1>7. CASE mark_clean
  <2>1. ref[gs] = 0 /\ s_list[gs] = NoNodes /\ used'[gs] = WAIT_GC_CLEAN
    BY <1>1, <1>7 DEF GcAt, mark_clean, IInv, Marked, TypeOK, StreamsOK
  <2>2. Marked'
    BY <1>7 DEF GcAt, mark_clean, Marked
  <2>3. Condemned'
    BY <1>1, <2>1 DEF IInv, Condemned
  <2> QED BY <1>1, <1>2, <1>3, <2>1, <2>2, <2>3, Collect
<1> QED BY <1>4, <1>5, <1>6, <1>7

LEMMA KeepClean ==
  ASSUME IInv, TypeOK', ~Corrupted', clean_unlink \/ \E s \in Streams : clean_free(s)
  PROVE  IInv'
<1> USE DEF registry, state, counts, task, gc, aside
<1>1. /\ UNCHANGED <<ref, open_ref, s_list, hold, pc, own, dst, tmp, lost>>
      /\ gpc' \in {"reap", "idle"}
  BY DEF GcAt, clean_unlink, clean_free
<1>2. \A s \in Streams : OnlySource(s) /\ s_list'[s] = s_list[s]
  BY <1>1 DEF OnlySource
<1>3. \A s, d \in Streams : ref'[d] = ref[d] + (s_list'[s][d] - s_list[s][d])
  BY <1>1 DEF IInv, TypeOK, StreamsOK
<1>4. Marked'
  BY <1>1 DEF Marked
<1>5. CASE clean_unlink
  <2>1. \E s \in Streams : TRUE
    BY <1>5 DEF clean_unlink
  <2>2. \A s \in Streams : IF list[s] = "g_s" /\ used[s] = WAIT_GC_CLEAN
                           THEN list'[s] = "d_s" ELSE list'[s] = list[s]
    BY <1>5 DEF clean_unlink
  <2>3. \A s \in Streams : list[s] = "g_s" /\ used[s] = WAIT_GC_CLEAN => ref[s] = 0 /\ s_list[s] = NoNodes
    BY DEF IInv, Condemned
  <2>4. used' = used
    BY <1>5 DEF clean_unlink
  <2>5. Condemned'
    BY <1>1, <2>2, <2>3, <2>4 DEF IInv, Condemned
  <2>6. ASSUME NEW s \in Streams, list[s] = "g_s", list'[s] # "g_s", NEW u \in Tasks
        PROVE  (own[u] = s => pc[u] # "close_mark") /\ (dst[u] = s => pc[u] # "bind_giveup")
    BY <1>5, <2>2, <2>6 DEF clean_unlink, Race, Corrupted, Met, Using
  <2> QED BY <1>1, <1>2, <1>3, <1>4, <2>1, <2>2, <2>3, <2>4, <2>5, <2>6, Collect
<1>6. ASSUME NEW s \in Streams, clean_free(s) PROVE IInv'
  <2>1. list[s] = "d_s" /\ ref[s] = 0 /\ Free(s)
    BY <1>6, Exact DEF clean_free, IInv, FreedUnused, Free
  <2>2. /\ list'[s] = "heap"
        /\ \A d \in Streams \ {s} : list'[d] = list[d] /\ used'[d] = used[d]
    BY <1>6 DEF clean_free, IInv, TypeOK, StreamsOK
  <2>3. Condemned'
    BY <1>1, <2>1, <2>2 DEF IInv, Condemned
  <2> QED BY <1>1, <1>2, <1>3, <1>4, <2>1, <2>2, <2>3, Collect
<1> QED BY <1>5, <1>6

-----------------------------------------------------------------------------
LEMMA NextIInv ==
  ASSUME IInv, TypeOK', ~Corrupted', [Next]_vars
  PROVE  IInv'
<1> USE DEF registry, state, counts, task, gc, aside
<1>1. ASSUME NEW t \in Tasks, Inside(t) PROVE IInv'
  <2>1. ASSUME NEW n \in Names, NEW s \in Streams, open_stream_find(t, n) \/ bind_find(t, s, n)
        PROVE  IInv'
    BY <2>1, KeepOpenFind, KeepBindFind
  <2>2. ASSUME NEW n \in Names, open_stream_find(t, n) PROVE IInv'
    BY <2>2, KeepOpenFind
  <2>3. get_stream_check(t) \/ open_available_check(t) => IInv'
    BY KeepCheck DEF get_stream_check, open_available_check
  <2> QED BY <1>1, <2>1, <2>2, <2>3, KeepOpenCheck, KeepOpenCreate, KeepNewLoad,
             KeepNewStore,
             KeepNewIssue, KeepOpenInit, KeepLookupUndo, KeepBindCheck, KeepBindLink, KeepBindUndo,
             KeepBindDrop, KeepBindCreate, KeepBindNew, KeepCloseLoad, KeepCloseStore, KeepCloseMark
          DEF Inside
<1>2. ASSUME NEW t \in Tasks, Call(t) PROVE IInv'
  <2>1. ASSUME NEW n \in Names, get_stream_find(t, n) \/ open_available_find(t, n) PROVE IInv'
    BY <2>1, KeepLookup DEF get_stream_find, open_available_find
  <2>2. ASSUME NEW s \in Streams, close_stream_drop(t, s) PROVE IInv'
    BY <2>2, KeepCloseDropMore, KeepCloseDropLast
  <2>3. ASSUME NEW s \in Streams, send_frame(t, s) PROVE IInv'
    BY <2>3, Same DEF send_frame
  <2> QED BY <1>2, <2>1, <2>2, <2>3, KeepOpenFind, KeepAgain, KeepBindFind,
             NamesAssumption DEF Call
<1>3. ASSUME NEW s \in Streams, free_frame(s) PROVE IInv'
  BY <1>3, Same DEF free_frame
<1>4. CASE GcStep
  BY <1>4, KeepVisit, KeepUnbind, KeepMark, KeepClean DEF GcStep
<1>5. CASE UNCHANGED vars
  BY <1>5, Same DEF vars
<1>6. ASSUME NEW t \in Tasks, crash(t) PROVE IInv'
  BY <1>6, Same DEF crash
<1> QED BY <1>1, <1>2, <1>3, <1>4, <1>5, <1>6 DEF Next

(* The counts and what keeps them exact hold in every state that no torn     *)
(* count, no write to a freed stream and no early open came before.          *)
THEOREM CountsInvariance == Spec => [](Corrupted \/ IInv)
<1>1. Init => Corrupted \/ IInv
  BY InitIInv
<1>2. (Corrupted \/ IInv) /\ TypeOK /\ TypeOK' /\ [Next]_vars => (Corrupted \/ IInv)'
  <2>1. TypeOK /\ [Next]_vars /\ Corrupted => Corrupted'
    BY AsideStep DEF Corrupted, Met
  <2> QED BY <2>1, NextIInv
<1> QED BY <1>1, <1>2, TypeCorrect, PTL DEF Spec

(* ref of every stream counts exactly the handles, bindings, calls under way *)
(* and lost placeholders that refer to it, however tasks and the work queue  *)
(* interleave, until a store tears a count, a freed stream is to be written  *)
(* or a stream is opened from under its creator ...                          *)
THEOREM RefsAreExact == Spec => []RefExact
<1>1. Corrupted \/ IInv => RefExact
  BY DEF IInv, RefsCount, RefExact
<1> QED BY <1>1, CountsInvariance, PTL

(* ... and open_ref exactly its handles and the finds under way.             *)
THEOREM OpensAreExact == Spec => []OpenRefExact
<1>1. Corrupted \/ IInv => OpenRefExact
  BY DEF IInv, OpensCount, OpenRefExact
<1> QED BY <1>1, CountsInvariance, PTL

(* The cleaner unlinks and frees only streams that nobody refers to.         *)
THEOREM NothingDangles == Spec => []NoDanglingReference
<1>1. Corrupted \/ IInv => NoDanglingReference
  BY DEF IInv, FreedUnused, NoDanglingReference
<1> QED BY <1>1, CountsInvariance, PTL
=============================================================================
