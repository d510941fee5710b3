---- MODULE TcpUpdateProofs ----
(***************************************************************************)
(* Firmware updates, for every number of clients, sockets and bytes, and   *)
(* however the numbers of the sockets are reused: they run one at a time,  *)
(* and what is reported complete is whole, as long as no task has set the  *)
(* flag over a flag already up; and that race is over with its updates.    *)
(*                                                                         *)
(* That the bytes a finished task counts are its own (WholeUnlessRaced)    *)
(* needs more than the end of the update shows: already while it receives, *)
(* what lies below its offset is its own (Mine), and stays so because no   *)
(* other task is in an update (OneUpdate).  That the offset stays in the   *)
(* flash needs that the loop goes on only below the size (Short); that a   *)
(* new client's task disturbs nothing needs that it was not there (NotYet).*)
(***************************************************************************)
EXTENDS TcpUpdate, TLAPS

Mine ==
    ~raced =>
        \A t \in Tasks : pc[t] \in {"body", "reply"} =>
            \A b \in Bytes : b < offset[t] => flash[b] = t
Short == \A t \in Tasks : pc[t] = "body" => offset[t] < fileSize[t]
NotYet == \A t \in Tasks : t > accepted => pc[t] = "none"

IInv == TypeOK /\ OneUpdate /\ Mine /\ Short /\ NotYet

\* No client, no update.
LEMMA InitOK == Init => IInv
  <1> SUFFICES ASSUME Init PROVE IInv
    OBVIOUS
  <1> USE UpdateAssumption
  <1> DEFINE Offsets == 0 .. MaxSize + MaxChunk - 1
  <1>1. TypeOK
    <2>1. 0 \in Offsets /\ 0 \in 0 .. MaxClients /\ 0 \in Sizes
      OBVIOUS
    <2> HIDE DEF Offsets
    <2>2. /\ sock \in [Fds -> 0 .. MaxClients]
          /\ pc \in [Tasks -> Places]
          /\ fd \in [Tasks -> Fds \cup {NoFd}]
          /\ fileSize \in [Tasks -> Sizes]
          /\ offset \in [Tasks -> Offsets]
          /\ flash \in [Bytes -> 0 .. MaxClients]
      BY <2>1 DEF Init, Places
    <2>3. accepted \in 0 .. MaxClients /\ hung \subseteq 1 .. accepted
      BY <2>1 DEF Init
    <2>4. tcp_update_running \in BOOLEAN /\ raced \in BOOLEAN
      BY DEF Init
    <2> QED
      BY <2>2, <2>3, <2>4 DEF TypeOK, Offsets
  <1>2. OneUpdate
    BY DEF Init, OneUpdate, InUpdate
  <1>3. Mine /\ Short /\ NotYet
    BY DEF Init, Mine, Short, NotYet
  <1> QED
    BY <1>1, <1>2, <1>3 DEF IInv

\* A task goes from one place to another; the flag and the firmware stay.
LEMMA MoveKeeps ==
    ASSUME NEW t \in Tasks, NEW from \in Places, NEW to \in Places, IInv,
           pc[t] = from, Goto(t, to), from # "none",
           from \in InUpdate <=> to \in InUpdate,
           to \in {"body", "reply"} => from = "body", to # "body",
           UNCHANGED <<tcp_update_running, raced, accepted, fileSize, offset, flash>>
    PROVE  OneUpdate' /\ Mine' /\ Short' /\ NotYet' /\ pc' \in [Tasks -> Places]
  <1>1. /\ pc \in [Tasks -> Places]
        /\ pc' = [pc EXCEPT ![t] = to]
    BY DEF IInv, TypeOK, Goto
  <1>2. \A u \in Tasks : pc'[u] = IF u = t THEN to ELSE pc[u]
    BY <1>1
  <1>3. \A u \in Tasks : pc'[u] \in InUpdate <=> pc[u] \in InUpdate
    BY <1>2
  <1>4. OneUpdate'
    BY <1>3 DEF IInv, OneUpdate
  <1>5. Mine' /\ Short' /\ NotYet'
    BY <1>2 DEF IInv, Mine, Short, NotYet
  <1> QED
    BY <1>1, <1>4, <1>5

\* A chunk goes behind the last one: all below the new offset is the task's.
LEMMA WriteKeeps ==
    ASSUME NEW t \in Tasks, NEW n \in 1 .. MaxChunk, IInv, pc[t] = "body", Write(t, n)
    PROVE  /\ offset' \in [Tasks -> 0 .. MaxSize + MaxChunk - 1]
           /\ flash' \in [Bytes -> 0 .. MaxClients]
           /\ ~raced => \A b \in Bytes : b < offset'[t] => flash'[b] = t
           /\ \A u \in Tasks : u # t => offset'[u] = offset[u]
  <1> USE UpdateAssumption
  <1> DEFINE Offsets == 0 .. MaxSize + MaxChunk - 1
  <1>1. /\ fileSize[t] \in Sizes /\ offset[t] \in Offsets /\ offset[t] < fileSize[t]
        /\ offset \in [Tasks -> Offsets] /\ flash \in [Bytes -> 0 .. MaxClients]
    BY DEF IInv, TypeOK, Short
  <1>2. offset[t] + n \in Offsets
    <2>1. fileSize[t] \in 0 .. MaxSize
      BY <1>1
    <2>2. \A s \in 0 .. MaxSize, o \in Offsets : o < s => o + n \in Offsets
      OBVIOUS
    <2> QED
      BY <1>1, <2>1, <2>2
  <1>3. offset' = [offset EXCEPT ![t] = @ + n]
    BY DEF Write
  <1>4. t \in 0 .. MaxClients
    BY DEF Tasks, Clients
  <1> HIDE DEF Offsets
  <1>5. offset' \in [Tasks -> Offsets] /\ offset'[t] = offset[t] + n
    BY <1>1, <1>2, <1>3
  <1>6. \A b \in Bytes : flash'[b] = IF b \in offset[t] .. offset[t] + n - 1 THEN t ELSE flash[b]
    BY DEF Write
  <1>7. flash' \in [Bytes -> 0 .. MaxClients]
    BY <1>1, <1>4 DEF Write
  <1>8. ASSUME ~raced, NEW b \in Bytes, b < offset'[t] PROVE flash'[b] = t
    <2>1. CASE b < offset[t]
      BY <1>8, <2>1, <1>6 DEF IInv, Mine
    <2>2. CASE ~(b < offset[t])
      <3>1. b \in offset[t] .. offset[t] + n - 1
        BY <2>2, <1>8, <1>5, <1>1 DEF Bytes, Offsets
      <3> QED
        BY <3>1, <1>6
    <2> QED
      BY <2>1, <2>2
  <1> QED
    BY <1>3, <1>5, <1>7, <1>8, <1>1 DEF Offsets

\* What a task does besides going on: nothing, or it closes its socket.
Rest == <<fixed, fileSize, offset, flash>>

LEMMA CloseTyped ==
    ASSUME IInv, NEW t \in Tasks, Close(t) \/ UNCHANGED sock
    PROVE  sock' \in [Fds -> 0 .. MaxClients]
  <1> USE UpdateAssumption
  <1>1. sock \in [Fds -> 0 .. MaxClients] /\ 0 \in 0 .. MaxClients
    BY DEF IInv, TypeOK
  <1> QED
    BY <1>1 DEF Close

\* A step that moves a task within or outside of an update.
LEMMA MoveOK ==
    ASSUME NEW t \in Tasks, NEW from \in Places, NEW to \in Places, IInv,
           pc[t] = from, Goto(t, to), from # "none",
           from \in InUpdate <=> to \in InUpdate,
           to \in {"body", "reply"} => from = "body", to # "body",
           UNCHANGED Rest, UNCHANGED tcp_update_running,
           Close(t) \/ UNCHANGED sock
    PROVE  IInv'
  <1>1. UNCHANGED <<accepted, hung, fd, raced, fileSize, offset, flash>>
    BY DEF Rest, fixed
  <1>2. OneUpdate' /\ Mine' /\ Short' /\ NotYet' /\ pc' \in [Tasks -> Places]
    BY MoveKeeps, <1>1
  <1>3. sock' \in [Fds -> 0 .. MaxClients]
    BY CloseTyped
  <1>4. TypeOK'
    BY <1>1, <1>2, <1>3 DEF IInv, TypeOK
  <1> QED
    BY <1>2, <1>4 DEF IInv

\* The place a task is at after Goto.
LEMMA GotoOnly ==
    ASSUME IInv, NEW t \in Tasks, NEW to \in Places, Goto(t, to)
    PROVE  /\ pc' \in [Tasks -> Places]
           /\ \A u \in Tasks : pc'[u] = IF u = t THEN to ELSE pc[u]
  BY DEF IInv, TypeOK, Goto

\* The test of the flag changes nothing but the task's way.
LEMMA StartOK == ASSUME IInv, NEW t \in Tasks, Start(t) PROVE IInv'
  <1> DEFINE to == IF tcp_update_running THEN "close" ELSE "set"
  <1>1. /\ pc[t] = "start" /\ Goto(t, to)
        /\ UNCHANGED Rest /\ UNCHANGED tcp_update_running /\ UNCHANGED sock
    BY DEF Start, Rest
  <1>2. to \in {"close", "set"}
    OBVIOUS
  <1> HIDE DEF to
  <1> QED
    BY <1>1, <1>2, MoveOK DEF Places, InUpdate

\* The setting of the flag: down, no update runs unless one was raced; up,
\* this one is.
LEMMA SetRunningOK == ASSUME IInv, NEW t \in Tasks, SetRunning(t) PROVE IInv'
  <1>1. /\ pc[t] = "set" /\ Goto(t, "header") /\ tcp_update_running' = TRUE
        /\ raced' = (raced \/ tcp_update_running)
        /\ UNCHANGED <<accepted, hung, fd, sock, fileSize, offset, flash>>
    BY DEF SetRunning
  <1>2. /\ pc' \in [Tasks -> Places]
        /\ \A u \in Tasks : pc'[u] = IF u = t THEN "header" ELSE pc[u]
    BY <1>1, GotoOnly DEF Places, InUpdate
  <1>3. ~raced' => ~raced /\ \A u \in Tasks : pc[u] \notin InUpdate
    BY <1>1 DEF IInv, OneUpdate
  <1>4. OneUpdate'
    BY <1>1, <1>2, <1>3 DEF OneUpdate, InUpdate
  <1>5. Mine' /\ Short' /\ NotYet'
    BY <1>1, <1>2, <1>3 DEF IInv, Mine, Short, NotYet
  <1>6. TypeOK'
    BY <1>1, <1>2 DEF IInv, TypeOK
  <1> QED
    BY <1>4, <1>5, <1>6 DEF IInv

\* The size arrives, or counts 0: nothing is received yet.
LEMMA SizedOK ==
    ASSUME IInv, NEW t \in Tasks, NEW size \in Sizes, pc[t] = "info", Sized(t, size)
    PROVE  IInv'
  <1> USE UpdateAssumption
  <1> DEFINE to == IF Unfinished(0, size) THEN "body" ELSE "reply"
  <1>1. UNCHANGED <<tcp_update_running, raced, accepted, hung, fd, sock, flash>>
    BY DEF Sized, fixed
  <1>2. /\ fileSize' \in [Tasks -> Sizes]
        /\ \A u \in Tasks : fileSize'[u] = IF u = t THEN size ELSE fileSize[u]
    BY DEF Sized, IInv, TypeOK
  <1>3. /\ offset' \in [Tasks -> 0 .. MaxSize + MaxChunk - 1]
        /\ \A u \in Tasks : offset'[u] = IF u = t THEN 0 ELSE offset[u]
    <2>1. 0 \in 0 .. MaxSize + MaxChunk - 1
      OBVIOUS
    <2> DEFINE Offsets == 0 .. MaxSize + MaxChunk - 1
    <2>2. offset \in [Tasks -> Offsets] /\ offset' = [offset EXCEPT ![t] = 0]
      BY DEF Sized, IInv, TypeOK
    <2> HIDE DEF Offsets
    <2>3. 0 \in Offsets
      BY <2>1 DEF Offsets
    <2>4. offset' \in [Tasks -> Offsets]
      BY <2>2, <2>3
    <2> QED
      BY <2>2, <2>4 DEF Offsets
  <1>4. to \in InUpdate /\ to \in Places /\ (to = "body" => 0 < size)
    BY DEF Unfinished, InUpdate, Places
  <1>5. /\ pc' \in [Tasks -> Places]
        /\ \A u \in Tasks : pc'[u] = IF u = t THEN to ELSE pc[u]
    BY <1>4, GotoOnly DEF Sized
  <1> HIDE DEF to
  <1>6. \A u \in Tasks : pc'[u] \in InUpdate <=> pc[u] \in InUpdate
    BY <1>4, <1>5 DEF InUpdate
  <1>7. OneUpdate'
    BY <1>1, <1>6 DEF IInv, OneUpdate
  <1>8. Mine'
    BY <1>1, <1>3, <1>5 DEF IInv, Mine, Bytes
  <1>9. Short' /\ NotYet'
    BY <1>1, <1>2, <1>3, <1>4, <1>5 DEF IInv, Short, NotYet
  <1>10. TypeOK'
    BY <1>1, <1>2, <1>3, <1>5 DEF IInv, TypeOK
  <1> QED
    BY <1>7, <1>8, <1>9, <1>10 DEF IInv

\* A piece of the file: only the one task that is in an update writes.
LEMMA RecvBodyOK == ASSUME IInv, NEW t \in Tasks, RecvBody(t) PROVE IInv'
  <1>1. pc[t] = "body" /\ UNCHANGED <<tcp_update_running, raced, accepted, hung, fd, sock, fileSize>>
    BY DEF RecvBody, fixed
  <1> DEFINE to == IF Unfinished(offset'[t], fileSize[t]) THEN "body" ELSE "reply"
  <1>2. PICK n \in 1 .. MaxChunk : Write(t, n) /\ Goto(t, to)
    BY DEF RecvBody
  <1>3. /\ offset' \in [Tasks -> 0 .. MaxSize + MaxChunk - 1]
        /\ flash' \in [Bytes -> 0 .. MaxClients]
        /\ ~raced => \A b \in Bytes : b < offset'[t] => flash'[b] = t
        /\ \A u \in Tasks : u # t => offset'[u] = offset[u]
    BY <1>1, <1>2, WriteKeeps
  <1>4. to \in InUpdate /\ to \in Places /\ to # "none" /\ (to = "body" => offset'[t] < fileSize[t])
    BY DEF Unfinished, InUpdate, Places
  <1> HIDE DEF to
  <1>5. /\ pc' \in [Tasks -> Places]
        /\ \A u \in Tasks : pc'[u] = IF u = t THEN to ELSE pc[u]
    BY <1>2, <1>4, GotoOnly
  <1>6. \A u \in Tasks : pc'[u] \in InUpdate <=> pc[u] \in InUpdate
    BY <1>1, <1>4, <1>5 DEF InUpdate
  <1>7. OneUpdate'
    BY <1>1, <1>6 DEF IInv, OneUpdate
  <1>8. ~raced => \A u \in Tasks : u # t => pc'[u] \notin {"body", "reply"}
    BY <1>1, <1>5 DEF IInv, OneUpdate, InUpdate
  <1>9. Mine'
    BY <1>1, <1>3, <1>8 DEF Mine
  <1>10. Short'
    BY <1>1, <1>3, <1>4, <1>5 DEF IInv, Short
  <1>11. NotYet'
    BY <1>1, <1>5 DEF IInv, NotYet
  <1>12. TypeOK'
    BY <1>1, <1>3, <1>5 DEF IInv, TypeOK
  <1> QED
    BY <1>7, <1>9, <1>10, <1>11, <1>12 DEF IInv

\* The end of an update takes the flag down.  With no other one running a
\* race is over.
LEMMA ClearOK == ASSUME IInv, NEW t \in Tasks, Clear(t) PROVE IInv'
  <1>1. /\ pc[t] = "clear" /\ tcp_update_running' = FALSE
        /\ raced' = (raced /\ \E u \in Tasks \ {t} : pc[u] \in InUpdate)
        /\ UNCHANGED <<accepted, hung, fd, sock, fileSize, offset, flash>>
    BY DEF Clear
  <1>2. /\ pc' \in [Tasks -> Places]
        /\ \A u \in Tasks : pc'[u] = IF u = t THEN "close" ELSE pc[u]
    BY GotoOnly DEF Clear, Places
  <1>3. ~raced' => \A u \in Tasks : pc'[u] \notin InUpdate
    BY <1>1, <1>2 DEF IInv, OneUpdate, InUpdate
  <1>4. OneUpdate'
    BY <1>1, <1>3 DEF OneUpdate
  <1>5. Mine'
    BY <1>3 DEF Mine, InUpdate
  <1>6. Short' /\ NotYet'
    BY <1>1, <1>2 DEF IInv, Short, NotYet
  <1>7. TypeOK'
    BY <1>1, <1>2 DEF IInv, TypeOK
  <1> QED
    BY <1>4, <1>5, <1>6, <1>7 DEF IInv

\* A new client: its task was not there before.
LEMMA AcceptOK == ASSUME IInv, tcpServerAccept PROVE IInv'
  <1> USE UpdateAssumption
  <1> DEFINE c == accepted + 1
             free == {s \in Fds : sock[s] = 0}
             got == IF free = {} THEN {NoFd} ELSE {s \in free : \A u \in free : s <= u}
  <1>1. /\ c \in 1 .. MaxClients /\ accepted' = c
        /\ UNCHANGED <<tcp_update_running, raced, hung, fileSize, offset, flash>>
    BY DEF tcpServerAccept, IInv, TypeOK
  <1>2. c \in Tasks /\ pc[c] = "none"
    BY <1>1 DEF IInv, TypeOK, NotYet, Tasks, Clients
  <1>3. PICK first \in {"start", "done"} : Goto(c, first)
    BY DEF tcpServerAccept
  <1>4. PICK s \in got : /\ sock' = [u \in Fds |-> IF u = s THEN c ELSE sock[u]]
                         /\ fd' = [fd EXCEPT ![c] = s]
    BY DEF tcpServerAccept
  <1>5. s \in Fds \cup {NoFd}
    OBVIOUS
  <1> HIDE DEF c, free, got
  <1>6. /\ pc' \in [Tasks -> Places]
        /\ \A u \in Tasks : pc'[u] = IF u = c THEN first ELSE pc[u]
    BY <1>2, <1>3, GotoOnly DEF Places
  <1>7. fd' \in [Tasks -> Fds \cup {NoFd}]
    BY <1>2, <1>4, <1>5 DEF IInv, TypeOK
  <1>8. sock' \in [Fds -> 0 .. MaxClients]
    <2>1. sock \in [Fds -> 0 .. MaxClients] /\ c \in 0 .. MaxClients
      BY <1>1 DEF IInv, TypeOK
    <2> QED
      BY <2>1, <1>4
  <1>9. accepted' \in 0 .. MaxClients /\ hung' \subseteq 1 .. accepted'
    BY <1>1 DEF IInv, TypeOK, c
  <1>10. TypeOK'
    BY <1>1, <1>6, <1>7, <1>8, <1>9 DEF IInv, TypeOK
  <1>11. \A u \in Tasks : pc'[u] \in InUpdate <=> pc[u] \in InUpdate
    BY <1>2, <1>6 DEF InUpdate
  <1>12. OneUpdate'
    BY <1>1, <1>11 DEF IInv, OneUpdate
  <1>13. Mine' /\ Short'
    BY <1>1, <1>6 DEF IInv, Mine, Short
  <1>14. NotYet'
    BY <1>1, <1>6 DEF IInv, TypeOK, NotYet, Tasks, Clients, c
  <1> QED
    BY <1>10, <1>12, <1>13, <1>14 DEF IInv

LEMMA HangUpOK == ASSUME IInv, NEW c \in Clients, HangUp(c) PROVE IInv'
  <1>1. /\ c \in 1 .. accepted /\ hung' = hung \cup {c}
        /\ UNCHANGED <<tcp_update_running, sock, accepted, pc, fd, fileSize, offset, flash, raced>>
    BY DEF HangUp, Clients, IInv, TypeOK
  <1>2. TypeOK'
    BY <1>1 DEF IInv, TypeOK
  <1> QED
    BY <1>1, <1>2 DEF IInv, OneUpdate, Mine, Short, NotYet

\* Every step of a task.
LEMMA TaskOK ==
    ASSUME IInv, NEW t \in Tasks, Proceed(t) \/ Receive(t)
    PROVE  IInv'
  <1> USE DEF Places, InUpdate
  <1>1. CASE Start(t)
    BY <1>1, StartOK
  <1>2. CASE RecvHeader(t)
    <2>1. PICK next \in {"ack", "clear"} : Goto(t, next)
      BY <1>2 DEF RecvHeader
    <2> QED
      BY <1>2, <2>1, MoveOK DEF RecvHeader, Rest, fixed
  <1>3. CASE LoseHeader(t)
    BY <1>3, MoveOK DEF LoseHeader, Rest, fixed
  <1>4. CASE SendAck(t)
    BY <1>4, MoveOK DEF SendAck, Rest, fixed
  <1>5. CASE RecvInfo(t)
    BY <1>5, SizedOK DEF RecvInfo
  <1>6. CASE LoseInfo(t)
    BY <1>6, SizedOK, UpdateAssumption DEF LoseInfo
  <1>7. CASE RecvBody(t)
    BY <1>7, RecvBodyOK
  <1>8. CASE WriteFails(t)
    BY <1>8, MoveOK DEF WriteFails, Rest, fixed
  <1>9. CASE LoseBody(t)
    BY <1>9, MoveOK DEF LoseBody, Rest, fixed
  <1>10. CASE Reply(t)
    BY <1>10, MoveOK DEF Reply, Rest, fixed
  <1>11. CASE CloseInner(t)
    BY <1>11, MoveOK DEF CloseInner, Rest, fixed
  <1>12. CASE Clear(t)
    BY <1>12, ClearOK
  <1>13. CASE CloseOuter(t)
    BY <1>13, MoveOK DEF CloseOuter, Rest, fixed
  <1>14. CASE SetRunning(t)
    BY <1>14, SetRunningOK
  <1> QED
    BY <1>14, <1>1, <1>2, <1>3, <1>4, <1>5, <1>6, <1>7, <1>8, <1>9, <1>10, <1>11, <1>12, <1>13
       DEF Proceed, Receive

\* The invariant holds in every reachable state.
THEOREM Inductive == Spec => []IInv
  <1>1. Init => IInv
    BY InitOK
  <1>2. IInv /\ [Next]_vars => IInv'
    <2> SUFFICES ASSUME IInv, [Next]_vars PROVE IInv'
      OBVIOUS
    <2>1. CASE tcpServerAccept
      BY <2>1, AcceptOK
    <2>2. CASE \E c \in Clients : HangUp(c) \/ Proceed(c) \/ Receive(c)
      BY <2>2, HangUpOK, TaskOK DEF Tasks
    <2>3. CASE UNCHANGED vars
      BY <2>3 DEF vars, IInv, TypeOK, OneUpdate, Mine, Short, NotYet
    <2> QED
      BY <2>1, <2>2, <2>3 DEF Next
  <1> QED
    BY <1>1, <1>2, PTL DEF Spec

\* The types of the variables (ota.c): no write leaves the firmware's place.
THEOREM TypeCorrect == Spec => []TypeOK
  <1>1. IInv => TypeOK
    BY DEF IInv
  <1> QED
    BY <1>1, Inductive, PTL

\* No update runs beside another one unless a task set the flag over a flag
\* already up, and the flag is never up without one (ota.c, lines 279-283
\* and 314).
THEOREM UpdatesExclude == Spec => []OneUpdate
  <1>1. IInv => OneUpdate
    BY DEF IInv
  <1> QED
    BY <1>1, Inductive, PTL

\* A file counted complete was written by the task that counts it, every
\* byte, unless an update raced with another one that still runs (ota.c,
\* lines 87-108).
THEOREM CompleteIsOwn == Spec => []WholeUnlessRaced
  <1>1. IInv => WholeUnlessRaced
    <2> SUFFICES ASSUME IInv, ~raced, NEW t \in Tasks, pc[t] = "reply", Complete(t),
                        NEW b \in 0 .. fileSize[t] - 1
                 PROVE  flash[b] = t
      BY DEF WholeUnlessRaced, WholeBeforeOk
    <2>1. fileSize[t] \in 0 .. MaxSize /\ MaxChunk \in Nat \ {0} /\ MaxSize \in Nat
      BY UpdateAssumption DEF IInv, TypeOK
    <2>2. b \in Bytes /\ b < offset[t]
      BY <2>1 DEF Bytes, Complete
    <2> QED
      BY <2>2 DEF IInv, Mine
  <1> QED
    BY <1>1, Inductive, PTL
====
