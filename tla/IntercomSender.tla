---- MODULE IntercomSender ----
(***************************************************************************)
(* The talking end of the intercom (intercom_adpcm.c): the encoder task    *)
(* puts packets into a ring and sends them, the retransfer task sends      *)
(* again what the other end asks for.  Both hold send_mutex for all of an  *)
(* iteration, so an iteration is one step; the key changes the mode at any *)
(* time.                                                                   *)
(***************************************************************************)
EXTENDS IntercomNet

CONSTANTS Head0,      \* &ringbuf_manage_use, the list's own head
          NoNode,     \* NULL
          CntMod      \* cnt of retransfer_check is a uint8_t: 256 in the code

ASSUME SenderAssumption ==
    /\ Head0 \notin 1 .. ENCODED_BUF_NUM
    /\ NoNode \notin 1 .. ENCODED_BUF_NUM
    /\ Head0 # NoNode
    /\ CntMod \in Nat /\ CntMod > ENCODED_BUF_NUM

VARIABLES
    session,           \* g_s_identify_num, one number per start
    g_transfer_mode,
    g_send_sequence,
    sort,
    use,               \* ringbuf_manage_use, oldest first
    src,               \* ringbuf_manage_src
    buf_addr,          \* the slot each manage node points to
    ring,              \* what the slots hold
    front, rear,
    manage_cur_pop, manage_cur_push,
    send_start_flag,
    mute_sta, num_of_avaiable,
    cnt

senderVars == <<session, g_transfer_mode, g_send_sequence, sort, use, src, buf_addr, ring,
                front, rear, manage_cur_pop, manage_cur_push, send_start_flag, mute_sta,
                num_of_avaiable, cnt>>
listVars == <<session, use, src, buf_addr, ring, front, rear, g_send_sequence, sort,
              manage_cur_push>>

ManageNodes == 1 .. ENCODED_BUF_NUM
Slots == 0 .. ENCODED_BUF_NUM - 1
NextSlot(i) == (i + 1) % ENCODED_BUF_NUM

SenderInit ==
    /\ session = 1
    /\ g_transfer_mode = "recv"
    /\ g_send_sequence = 0
    /\ sort = 0
    /\ use = <<>>
    /\ src = [i \in ManageNodes |-> i]
    /\ buf_addr = [i \in ManageNodes |-> 0]
    /\ ring = [i \in Slots |-> {}]
    /\ front = 0
    /\ rear = 0
    /\ manage_cur_pop = Head0
    /\ manage_cur_push = NoNode
    /\ send_start_flag = 0
    /\ mute_sta = 0
    /\ num_of_avaiable = 0
    /\ cnt = 0

SenderTypeOK ==
    /\ session \in 1 .. MaxSession
    /\ g_transfer_mode \in {"send", "recv"}
    /\ g_send_sequence \in Seqs \cup {0}
    /\ sort \in 0 .. MaxSort
    /\ use \in Seq(ManageNodes) /\ src \in Seq(ManageNodes)
    /\ buf_addr \in [ManageNodes -> Slots]
    /\ ring \in [Slots -> SUBSET Packet]
    /\ front \in Slots /\ rear \in Slots
    /\ manage_cur_pop \in ManageNodes \cup {Head0}
    /\ manage_cur_push \in ManageNodes \cup {NoNode}
    /\ send_start_flag \in {0, 1} /\ mute_sta \in {0, 1}
    /\ num_of_avaiable \in 0 .. ENCODED_BUF_NUM
    /\ cnt \in 0 .. CntMod - 1

(***************************************************************************)
(* The list of packets in the ring is circular through its head.           *)
(***************************************************************************)
Place(list, n) == IF n = Head0 THEN 0 ELSE SelectInSeq(list, LAMBDA x : x = n)
NodeAfter(list, n) ==
    IF Place(list, n) = Len(list) THEN Head0 ELSE list[Place(list, n) + 1]

\* Steps from the last packet sent to the last one encoded; a push cursor
\* outside of the list is never met and counts 0.
get_ringbuf_manage_count(list, pop, push) ==
    IF push = NoNode THEN 0
    ELSE (Place(list, push) - Place(list, pop)) % (Len(list) + 1)

\* The packet that goes into the ring next.
NewPacket(status) ==
    [seq |-> NextSeq(g_send_sequence), status |-> status, sort |-> sort + 1, id |-> session]

\* Take the node of the oldest packet out of the list; the sending cursor
\* steps off it first.
Forget(s) ==
    [s EXCEPT !.use = Tail(@), !.front = NextSlot(@),
              !.pop = IF @ = Head(s.use) THEN NodeAfter(s.use, @) ELSE @]

\* get_ringbuf_manage: a node from src or, when there is none, that of the
\* oldest packet, joins the tail of the list.
Grab(s) ==
    LET from == IF s.src = <<>> THEN Forget(s) ELSE [s EXCEPT !.src = Tail(@)]
        node == IF s.src = <<>> THEN Head(s.use) ELSE Head(s.src)
    IN [from EXCEPT !.use = Append(@, node), !.push = node]

\* push_ringbuf after as many of the oldest packets were deleted as it takes.
NoRoomMade(s) == s                                                    \* mutant
MakeRoom(s) ==
    IF NextSlot(rear) = s.front
    THEN [Forget(s) EXCEPT !.src = Append(s.src, Head(s.use))]
    ELSE s

Placed ==
    MakeRoom(Grab([use |-> use, src |-> src, front |-> front,
                   pop |-> manage_cur_pop, push |-> manage_cur_push]))

\* intercom_send: the packet behind the sending cursor goes out when num are
\* waiting.
LateSend(num, list, pop, push, addr, slots) ==              \* mutant
    LET next == NodeAfter(list, pop)
    IN IF get_ringbuf_manage_count(list, pop, push) > num
       THEN /\ send_start_flag' = 1
            /\ manage_cur_pop' = next
            /\ net' = net \cup (IF next = Head0 THEN {} ELSE slots[addr[next]])
       ELSE UNCHANGED <<send_start_flag, manage_cur_pop, net>>
intercom_send(num, list, pop, push, addr, slots) ==
    LET next == NodeAfter(list, pop)
    IN IF get_ringbuf_manage_count(list, pop, push) >= num
       THEN /\ send_start_flag' = 1
            /\ manage_cur_pop' = next
            /\ net' = net \cup (IF next = Head0 THEN {} ELSE slots[addr[next]])
       ELSE UNCHANGED <<send_start_flag, manage_cur_pop, net>>

\* One packet into the ring, and out.
Enqueue(status) ==
    LET s == Placed
        p == NewPacket(status)
    IN /\ sort < MaxSort /\ (status = 0 => p.sort \in Empties)
       /\ \A q \in net : p.sort - q.sort <= MaxDelay
       /\ g_send_sequence' = p.seq
       /\ sort' = p.sort
       /\ use' = s.use
       /\ src' = s.src
       /\ front' = s.front
       /\ manage_cur_push' = s.push
       /\ buf_addr' = [buf_addr EXCEPT ![s.push] = rear]
       /\ ring' = [ring EXCEPT ![rear] = {p}]
       /\ rear' = NextSlot(rear)
       /\ intercom_send(1, use', s.pop, manage_cur_push', buf_addr', ring')
       /\ UNCHANGED session

\* What is waiting goes out, num_of_avaiable at a time.
SendWaiting(num) ==
    /\ intercom_send(num, use, manage_cur_pop, manage_cur_push, buf_addr, ring)
    /\ num_of_avaiable' = num - 1
    /\ UNCHANGED listVars

\* A frame of the microphone: encoded, or replaced by an empty packet while
\* this end is still playing what it heard.
EncodeFrame ==
    /\ g_transfer_mode = "send"
    /\ \E status \in {0, 1} :
          /\ Enqueue(status)
          /\ mute_sta' = IF status = 1 THEN 0 ELSE mute_sta
    /\ UNCHANGED <<g_transfer_mode, num_of_avaiable, cnt, asked>>

\* No frame: what is waiting goes out first, then empty packets.
EncodeSilence ==
    LET waiting == IF mute_sta = 0
                   THEN get_ringbuf_manage_count(use, manage_cur_pop, manage_cur_push)
                   ELSE num_of_avaiable
    IN /\ g_transfer_mode = "send"
       /\ send_start_flag = 1
       /\ mute_sta' = 1
       /\ IF waiting > 0
          THEN SendWaiting(waiting)
          ELSE Enqueue(0) /\ num_of_avaiable' = waiting
       /\ UNCHANGED <<g_transfer_mode, cnt, asked>>

\* The same wake-up while listening.  A key released to pressed between the
\* two looks at the mode leaves all of this alone (and the microphone's frame,
\* which is not of this module, unfreed).
EncodeNothing ==
    LET waiting == get_ringbuf_manage_count(use, manage_cur_pop, manage_cur_push)
    IN /\ g_transfer_mode = "recv"
       /\ IF waiting > 0
          THEN SendWaiting(waiting)
          ELSE num_of_avaiable' = waiting
               /\ UNCHANGED <<listVars, manage_cur_pop, send_start_flag, net>>
       /\ UNCHANGED <<g_transfer_mode, mute_sta, cnt, asked>>

\* The key is pressed or released.
PushKey ==
    /\ g_transfer_mode' = IF g_transfer_mode = "send" THEN "recv" ELSE "send"
    /\ UNCHANGED <<session, g_send_sequence, sort, use, src, buf_addr, ring, front, rear,
                   manage_cur_pop, manage_cur_push, send_start_flag, mute_sta,
                   num_of_avaiable, cnt, net, asked>>

\* How many nodes retransfer_check looks at before cnt stops it: cnt counts
\* over all requests and is never reset, only its 8 bits run over.
Looks ==
    IF cnt + 1 = CntMod THEN ENCODED_BUF_NUM + 1
    ELSE IF cnt + 1 >= ENCODED_BUF_NUM THEN 1
    ELSE ENCODED_BUF_NUM - cnt

\* A request arrives: dropped while listening, otherwise the packets in the
\* ring that it names are sent again, oldest first.
RetransferCheck ==
    LET seen == Min({Looks, Len(use)})
        held == UNION {ring[buf_addr[use[i]]] : i \in 1 .. seen}
    IN /\ asked # {}
       /\ asked' = {}
       /\ IF g_transfer_mode = "recv"
          THEN UNCHANGED <<net, cnt>>
          ELSE /\ net' = net \cup {p \in held : p.seq \in asked}
               /\ cnt' = (cnt + seen) % CntMod
       /\ UNCHANGED <<session, g_transfer_mode, g_send_sequence, sort, use, src, buf_addr, ring,
                      front, rear, manage_cur_pop, manage_cur_push, send_start_flag, mute_sta,
                      num_of_avaiable>>

\* The talking end is switched off and on: a new random identity, the rest
\* as at the start.  What it sent last has left the air by then.
Restart ==
    /\ session < MaxSession
    /\ net = {} /\ asked = {}
    /\ session' = session + 1
    /\ g_transfer_mode' = "recv"
    /\ g_send_sequence' = 0
    /\ sort' = 0
    /\ use' = <<>>
    /\ src' = [i \in ManageNodes |-> i]
    /\ buf_addr' = [i \in ManageNodes |-> 0]
    /\ ring' = [i \in Slots |-> {}]
    /\ front' = 0
    /\ rear' = 0
    /\ manage_cur_pop' = Head0
    /\ manage_cur_push' = NoNode
    /\ send_start_flag' = 0
    /\ mute_sta' = 0
    /\ num_of_avaiable' = 0
    /\ cnt' = 0
    /\ UNCHANGED <<net, asked>>

-----------------------------------------------------------------------------

\* What a node of the list holds.
Held(n) == ring[buf_addr[n]]

\* The ring keeps exactly the newest packets, oldest first, each in the slot
\* its node points to: a request for a packet that is still kept is answered
\* with that packet and no other (lines 1398-1427, 1442-1471, 1488-1517).
KeepsNewest ==
    /\ Len(use) = Min({sort, ENCODED_BUF_NUM - 1})
    /\ \A i \in 1 .. Len(use) :
          /\ buf_addr[use[i]] = (front + i - 1) % ENCODED_BUF_NUM
          /\ \E p \in Held(use[i]) : Held(use[i]) = {p} /\ p.sort = sort - Len(use) + i

\* Nothing waits between two iterations of the encoder, so intercom_send is
\* never asked for more than the one packet its buffer send_buf has room for
\* (lines 1142, 1484, 1528), and the sending cursor never points to a node
\* that went back to src (lines 1424, 1468, 1514).
NothingWaits ==
    /\ sort > 0 => /\ manage_cur_pop = manage_cur_push
                   /\ use # <<>> /\ manage_cur_pop = Last(use)
    /\ get_ringbuf_manage_count(use, manage_cur_pop, manage_cur_push) = 0
====
