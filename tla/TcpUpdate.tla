---- MODULE TcpUpdate ----
(***************************************************************************)
(* The update server (sdk/app/update/ota.c).  The event loop accepts a     *)
(* client and starts a task for it; the task that finds no update running  *)
(* receives the firmware and writes it, the others hang up.  The tasks     *)
(* interleave at every step: between the test of the flag and its setting  *)
(* nothing keeps another task from running (csi_kernel_task_new makes      *)
(* tasks with time slices, and a task woken meanwhile may come first), so  *)
(* two tasks can find no update running.  raced remembers that one of them *)
(* set a flag that was up by then.  A client hangs up at any time, or      *)
(* falls silent: nothing here makes it send.                               *)
(***************************************************************************)
EXTENDS Integers

CONSTANTS
    MaxClients,        \* bound: clients accepted
    Fds,               \* numbers of the sockets, from 0
    MaxSize,           \* bound: fileSize
    Sizes,             \* the sizes clients announce, 0 when none arrives
    MaxChunk           \* bound: most bytes of one recv (RECV_MAX_SIZE)

ASSUME UpdateAssumption ==
    /\ MaxClients \in Nat
    /\ Fds \subseteq Nat
    /\ MaxSize \in Nat
    /\ Sizes \subseteq 0 .. MaxSize /\ 0 \in Sizes
    /\ MaxChunk \in Nat \ {0}

VARIABLES
    tcp_update_running,
    sock,              \* the client behind each socket, 0 for a free one
    accepted,          \* clients accepted so far
    hung,              \* clients that hung up
    pc, fd,            \* of the task started for each client
    fileSize, offset,
    flash,             \* the task that wrote each byte of the firmware
    raced              \* an update that began under another one still runs

vars == <<tcp_update_running, sock, accepted, hung, pc, fd, fileSize, offset, flash, raced>>
fixed == <<accepted, hung, fd, raced>>

Clients == 1 .. MaxClients
Tasks == Clients
NoFd == -1
Bytes == 0 .. MaxSize + MaxChunk - 1
InUpdate == {"header", "ack", "info", "body", "reply", "inner", "clear"}
Places == InUpdate \cup {"none", "start", "set", "close", "done"}

Init ==
    /\ tcp_update_running = FALSE
    /\ sock = [s \in Fds |-> 0]
    /\ accepted = 0
    /\ hung = {}
    /\ pc = [t \in Tasks |-> "none"]
    /\ fd = [t \in Tasks |-> NoFd]
    /\ fileSize = [t \in Tasks |-> 0]
    /\ offset = [t \in Tasks |-> 0]
    /\ flash = [b \in Bytes |-> 0]
    /\ raced = FALSE

-----------------------------------------------------------------------------

\* The client at the other end of the task's socket, 0 when it is closed.
Peer(t) == IF fd[t] \in Fds THEN sock[fd[t]] ELSE 0

\* recv and send fail; recv brings something.
Broken(t) == Peer(t) = 0 \/ Peer(t) \in hung
Alive(t) == ~Broken(t)

Goto(t, place) == pc' = [pc EXCEPT ![t] = place]
Close(t) == sock' = IF fd[t] \in Fds THEN [sock EXCEPT ![fd[t]] = 0] ELSE sock

\* A client is accepted on the lowest free socket.  With none free accept
\* fails, and the task is started all the same; the start of a task can fail,
\* and the socket is open all the same.
tcpServerAccept ==
    LET c == accepted + 1
        free == {s \in Fds : sock[s] = 0}
        got == IF free = {} THEN {NoFd} ELSE {s \in free : \A u \in free : s <= u}
    IN /\ accepted < MaxClients
       /\ accepted' = c
       /\ \E s \in got :
             /\ sock' = [u \in Fds |-> IF u = s THEN c ELSE sock[u]]
             /\ fd' = [fd EXCEPT ![c] = s]
       /\ \E first \in {"start", "done"} : Goto(c, first)
       /\ UNCHANGED <<tcp_update_running, hung, fileSize, offset, flash, raced>>

HangUp(c) ==
    /\ c <= accepted /\ c \notin hung
    /\ hung' = hung \cup {c}
    /\ UNCHANGED <<tcp_update_running, sock, accepted, pc, fd, fileSize, offset, flash, raced>>

\* The test of the flag ...
Start(t) ==
    /\ pc[t] = "start"
    /\ Goto(t, IF tcp_update_running THEN "close" ELSE "set")
    /\ UNCHANGED <<fixed, tcp_update_running, sock, fileSize, offset, flash>>

\* ... and its setting, whatever it has become since.
SetRunning(t) ==
    /\ pc[t] = "set"
    /\ Goto(t, "header")
    /\ tcp_update_running' = TRUE
    /\ raced' = (raced \/ tcp_update_running)
    /\ UNCHANGED <<accepted, hung, fd, sock, fileSize, offset, flash>>

\* The header arrives: an update, or some other command.
RecvHeader(t) ==
    /\ pc[t] = "header" /\ Alive(t)
    /\ \E next \in {"ack", "clear"} : Goto(t, next)
    /\ UNCHANGED <<fixed, tcp_update_running, sock, fileSize, offset, flash>>

LeavesFlag(t) ==                                                      \* mutant
    /\ pc[t] = "header" /\ Broken(t)
    /\ Goto(t, "close")
    /\ UNCHANGED <<fixed, tcp_update_running, sock, fileSize, offset, flash>>
LoseHeader(t) ==
    /\ pc[t] = "header" /\ Broken(t)
    /\ Goto(t, "clear")
    /\ UNCHANGED <<fixed, tcp_update_running, sock, fileSize, offset, flash>>

SendAck(t) ==
    /\ pc[t] = "ack"
    /\ Goto(t, IF Alive(t) THEN "info" ELSE "inner")
    /\ UNCHANGED <<fixed, tcp_update_running, sock, fileSize, offset, flash>>

\* The loop over the file goes on.
OneMore(off, size) == off <= size                                     \* mutant
Unfinished(off, size) == off < size

\* The size of the file.  What recv returns is not looked at: when it fails,
\* the size is the 0 the record was cleared to.
Sized(t, size) ==
    /\ fileSize' = [fileSize EXCEPT ![t] = size]
    /\ offset' = [offset EXCEPT ![t] = 0]
    /\ Goto(t, IF Unfinished(0, size) THEN "body" ELSE "reply")
    /\ UNCHANGED <<fixed, tcp_update_running, sock, flash>>

RecvInfo(t) == pc[t] = "info" /\ Alive(t) /\ \E size \in Sizes : Sized(t, size)
LoseInfo(t) == pc[t] = "info" /\ Broken(t) /\ Sized(t, 0)

\* A piece of the file is written behind the last one.  The last piece may
\* run over the size.
WriteOn(t, n) ==                                                      \* mutant
    /\ flash' = [b \in Bytes |-> IF b \in offset[t] + 1 .. offset[t] + n THEN t ELSE flash[b]]
    /\ offset' = [offset EXCEPT ![t] = @ + n]
Write(t, n) ==
    /\ flash' = [b \in Bytes |-> IF b \in offset[t] .. offset[t] + n - 1 THEN t ELSE flash[b]]
    /\ offset' = [offset EXCEPT ![t] = @ + n]

RecvBody(t) ==
    /\ pc[t] = "body" /\ Alive(t)
    /\ \E n \in 1 .. MaxChunk :
          /\ Write(t, n)
          /\ Goto(t, IF Unfinished(offset'[t], fileSize[t]) THEN "body" ELSE "reply")
    /\ UNCHANGED <<fixed, tcp_update_running, sock, fileSize>>

\* The write fails, and the loop ends.
WriteFails(t) ==
    /\ pc[t] = "body" /\ Alive(t)
    /\ Goto(t, "reply")
    /\ UNCHANGED <<fixed, tcp_update_running, sock, fileSize, offset, flash>>

LoseBody(t) ==
    /\ pc[t] = "body" /\ Broken(t)
    /\ Goto(t, "reply")
    /\ UNCHANGED <<fixed, tcp_update_running, sock, fileSize, offset, flash>>

Complete(t) == offset[t] = fileSize[t]

\* "Upgrade_ok" when the file is complete, "Upgrade_err" otherwise.
Reply(t) ==
    /\ pc[t] = "reply"
    /\ Goto(t, "inner")
    /\ UNCHANGED <<fixed, tcp_update_running, sock, fileSize, offset, flash>>

\* tcpNetUpgrade closes the socket ...
CloseInner(t) ==
    /\ pc[t] = "inner"
    /\ Close(t)
    /\ Goto(t, "clear")
    /\ UNCHANGED <<fixed, tcp_update_running, fileSize, offset, flash>>

Clear(t) ==
    /\ pc[t] = "clear"
    /\ tcp_update_running' = FALSE
    /\ raced' = (raced /\ \E u \in Tasks \ {t} : pc[u] \in InUpdate)
    /\ Goto(t, "close")
    /\ UNCHANGED <<accepted, hung, fd, sock, fileSize, offset, flash>>

\* ... and tcp_update closes its number once more, whoever has it now.
ClearsToo(t) ==                                                       \* mutant
    /\ pc[t] = "close"
    /\ tcp_update_running' = FALSE
    /\ Close(t)
    /\ Goto(t, "done")
    /\ UNCHANGED <<fixed, fileSize, offset, flash>>
CloseOuter(t) ==
    /\ pc[t] = "close"
    /\ Close(t)
    /\ Goto(t, "done")
    /\ UNCHANGED <<fixed, tcp_update_running, fileSize, offset, flash>>

\* What a task does without the client sending anything.
Proceed(t) ==
    \/ Start(t) \/ SetRunning(t) \/ LoseHeader(t) \/ SendAck(t) \/ LoseInfo(t) \/ LoseBody(t)
    \/ Reply(t) \/ CloseInner(t) \/ Clear(t) \/ CloseOuter(t)

Receive(t) == RecvHeader(t) \/ RecvInfo(t) \/ RecvBody(t) \/ WriteFails(t)

Next ==
    \/ tcpServerAccept
    \/ \E c \in Clients : HangUp(c) \/ Proceed(c) \/ Receive(c)

\* The tasks are scheduled; the clients owe nothing.
Spec == Init /\ [][Next]_vars /\ \A t \in Tasks : WF_vars(Proceed(t))

-----------------------------------------------------------------------------

\* The type invariant.
TypeOK ==
    /\ tcp_update_running \in BOOLEAN
    /\ sock \in [Fds -> 0 .. MaxClients]
    /\ accepted \in 0 .. MaxClients
    /\ hung \subseteq 1 .. accepted
    /\ pc \in [Tasks -> Places]
    /\ fd \in [Tasks -> Fds \cup {NoFd}]
    /\ fileSize \in [Tasks -> Sizes]
    /\ offset \in [Tasks -> 0 .. MaxSize + MaxChunk - 1]
    /\ flash \in [Bytes -> 0 .. MaxClients]
    /\ raced \in BOOLEAN

\* Two updates run only when a task set the flag over a flag already up: it
\* had tested it before.  Short of that the flag keeps them apart, whatever
\* clients come, are turned away and hang up meanwhile; and even then no
\* client is turned away while no update runs (lines 279-283, 314).
OneUpdate ==
    /\ tcp_update_running => \E t \in Tasks : pc[t] \in InUpdate
    /\ ~raced =>
          /\ \A t, u \in Tasks : pc[t] \in InUpdate /\ pc[u] \in InUpdate => t = u
          /\ (\E t \in Tasks : pc[t] \in InUpdate) => tcp_update_running

\* The task that counts the file complete wrote every byte of it, and nobody
\* wrote over one since: what it reports as done is its own firmware, not a
\* mixture with that of a client that gave up (lines 87-108).
WholeBeforeOk ==
    \A t \in Tasks : pc[t] = "reply" /\ Complete(t) =>
        \A b \in 0 .. fileSize[t] - 1 : flash[b] = t

\* ... which the race of two updates alone can spoil, and only while one of
\* them still runs: the next update is whole again.
WholeUnlessRaced == raced \/ WholeBeforeOk

\* When every client that came has hung up, the flag comes down, unless
\* another one comes: no way out of the update leaves the flag up and the
\* firmware locked until a restart (lines 300-317).
FlagComesBack ==
    hung = 1 .. accepted ~> hung # 1 .. accepted \/ ~tcp_update_running
====
