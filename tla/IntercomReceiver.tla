---- MODULE IntercomReceiver ----
(***************************************************************************)
(* The listening end of the intercom (intercom_adpcm.c): intercom_recv     *)
(* sorts the packets into the play list and asks for the lost ones, the    *)
(* decoder plays the list.  intercom_recv has the higher priority and      *)
(* blocks only between packets, so a packet is one step; it comes between  *)
(* any two steps of the decoder.                                           *)
(***************************************************************************)
EXTENDS IntercomNet

CONSTANTS
    SUBLIST_NUM,       \* packets the play list has room for
    playofwait,        \* packets to wait for before playing starts
    SeqJump,           \* 8: a sequence number that far away is a new start
    OldRecv,           \* 10: how far back lose_packet_check looks
    OldPlay,           \* 20: how far back insert_into_useList looks
    SortJump,          \* 20: how far ahead the decoder waits for
    SortWrap,          \* 60000: a distance that means the number ran over
    PlcMax,            \* 20: frames made up before playing stops
    NearFull           \* 15: room left at which the decoder skips ahead

ASSUME ReceiverAssumption ==
    /\ SUBLIST_NUM \in Nat \ {0} /\ playofwait \in Nat
    /\ SeqJump \in Nat /\ OldRecv \in Nat /\ OldPlay \in Nat
    /\ SortJump \in Nat /\ SortWrap \in Nat /\ PlcMax \in Nat /\ NearFull \in Nat

VARIABLES
    useList,           \* useList_head
    r_identify_num,
    sequence, lose_packet, retrans_num, seq_sort,   \* statics of the loss check
    playing,           \* play_start_flag, bit 0
    g_current_sort, play_sort,
    numofwait, plc_cnt,
    g_numofcached,
    cached,            \* send_to_stream's own copy
    pc,                \* the decoder: "idle" at its semaphore, "play"
    own_mode,          \* g_transfer_mode of this end
    onDac,             \* now_dac_filter_type = SOUND_INTERCOM
    astray,            \* ghost: the list's own head was taken for an entry
    lastPlayed,        \* ghost: sort last decoded, 0 for none
    anew,              \* ghost: since then playing started again, or an empty
                       \* packet was taken from a nearly full list
    played             \* ghost: identity and sort of what was decoded

receiverVars == <<useList, r_identify_num, sequence, lose_packet, retrans_num, seq_sort, playing,
                  g_current_sort, play_sort, numofwait, plc_cnt, g_numofcached, cached, pc,
                  own_mode, onDac, astray, lastPlayed, anew, played>>
lossVars == <<sequence, lose_packet, retrans_num, seq_sort, r_identify_num>>
decoderVars == <<g_current_sort, play_sort, numofwait, plc_cnt, cached, pc, own_mode, onDac,
                 lastPlayed, anew, played>>

ReceiverInit ==
    /\ useList = <<>>
    /\ r_identify_num = 0
    /\ sequence = 0
    /\ lose_packet = {}
    /\ retrans_num = [s \in Seqs |-> 0]
    /\ seq_sort = [s \in Seqs |-> 0]
    /\ playing = FALSE
    /\ g_current_sort = 1 /\ play_sort = 0
    /\ numofwait = 0 /\ plc_cnt = 0
    /\ g_numofcached = 0 /\ cached = 0
    /\ pc = "idle"
    /\ own_mode = "recv"
    /\ onDac = TRUE
    /\ astray = FALSE
    /\ lastPlayed = 0
    /\ anew = FALSE
    /\ played = {}

ReceiverTypeOK ==
    /\ useList \in Seq(Packet)
    /\ r_identify_num \in 0 .. MaxSession
    /\ sequence \in Seqs \cup {0}
    /\ lose_packet \subseteq Seqs
    /\ retrans_num \in [Seqs -> {0, 1}]
    /\ seq_sort \in [Seqs -> 0 .. MaxSort]
    /\ playing \in BOOLEAN
    /\ g_current_sort \in Nat /\ play_sort \in Nat
    /\ numofwait \in 0 .. playofwait + 1
    /\ plc_cnt \in Nat
    /\ g_numofcached \in 0 .. SUBLIST_NUM /\ cached \in 0 .. SUBLIST_NUM
    /\ pc \in {"idle", "play"}
    /\ own_mode \in {"send", "recv"}
    /\ onDac \in BOOLEAN /\ astray \in BOOLEAN
    /\ lastPlayed \in 0 .. MaxSort /\ anew \in BOOLEAN
    /\ played \subseteq (1 .. MaxSession) \X (1 .. MaxSort)

-----------------------------------------------------------------------------

\* Where playing stands for a packet that arrives: -1 while it has not begun.
PrevSort(on) == IF on THEN play_sort ELSE -1

\* A number that belongs between two others, also where the numbers run over.
OnlyRunOver(before, s, next) ==                                       \* mutant
    before > SortWrap /\ before - s > SortWrap /\ s < next
Fits(before, s, next) ==
    \/ before < s /\ s < next /\ next - s < SortWrap
    \/ /\ before > SortWrap /\ before - s > SortWrap
       /\ s < next /\ before - next > SortWrap

(***************************************************************************)
(* insert_into_useList: the packet goes before the first entry it fits     *)
(* in front of, is dropped at an entry of its own number, and goes last    *)
(* otherwise.                                                              *)
(***************************************************************************)
insert_into_useList(p, list, prev) ==
    LET before(i) == IF i = 1 THEN prev ELSE list[i - 1].sort
        stops == {i \in DOMAIN list :
                     list[i].sort = p.sort \/ Fits(before(i), p.sort, list[i].sort)}
    IN IF prev >= p.sort /\ prev - p.sort <= OldPlay THEN list
       ELSE IF stops = {} THEN Append(list, p)
       ELSE IF list[Min(stops)].sort = p.sort THEN list
       ELSE InsertAt(list, Min(stops), p)

\* A lost packet is asked for by two checks, then given up.
GivenUp == {s \in lose_packet : retrans_num[s] = 1}
Aged == [s \in Seqs |-> IF s \in lose_packet THEN 1 - retrans_num[s] ELSE retrans_num[s]]
StillLost == lose_packet \ GivenUp

\* The sequence number expected next; one too far from it starts over.
Expected(p) ==
    LET temp == NextSeq(sequence)
        away == IF p.seq > temp THEN p.seq - temp ELSE temp - p.seq
    IN IF away >= SeqJump THEN p.seq ELSE temp

\* The numbers skipped from the expected one to that of the packet; one that
\* is smaller counts as the next round.
Skipped(p) ==
    LET temp == Expected(p)
    IN IF p.seq > temp THEN temp .. p.seq - 1
       ELSE (temp .. 2 * ENCODED_BUF_NUM) \cup (1 .. p.seq - 1)

\* What remains lost is asked for, while the intercom has the speaker.
Ask(lost) == asked' = IF lost # {} /\ onDac THEN lost ELSE asked

\* A packet of another identity: as many entries as the decoder last counted
\* are taken from the play list, and playing stops.
Changed(p) == p.id # r_identify_num
Kept(p) ==
    IF ~Changed(p) THEN useList
    ELSE SubSeq(useList, g_numofcached + 1, Len(useList))
StillPlaying(p) == playing /\ ~Changed(p)

\* What every arrival does before the packet itself is looked at.
Arrive(p) ==
    /\ Len(useList) < SUBLIST_NUM
    /\ r_identify_num' = p.id
    /\ playing' = StillPlaying(p)
    /\ g_numofcached' = IF Changed(p) THEN 0 ELSE g_numofcached
    /\ astray' = (astray \/ (Changed(p) /\ g_numofcached > Len(useList)))
    /\ UNCHANGED decoderVars

NeverRepeats(p) == FALSE                                              \* mutant
Repeats(p) == seq_sort[p.seq] = p.sort
IsLate(p) ==
    LET prev == PrevSort(StillPlaying(p)) IN p.sort <= prev /\ prev - p.sort < OldRecv

\* The packet came before: dropped.
RecvRepeat(p) ==
    /\ Arrive(p)
    /\ Repeats(p)
    /\ useList' = Kept(p)
    /\ lose_packet' = StillLost
    /\ retrans_num' = Aged
    /\ Ask(lose_packet')
    /\ UNCHANGED <<sequence, seq_sort>>

\* The packet comes after its turn: dropped, and no longer asked for.
RecvLate(p) ==
    /\ Arrive(p)
    /\ ~Repeats(p) /\ IsLate(p)
    /\ useList' = Kept(p)
    /\ seq_sort' = [seq_sort EXCEPT ![p.seq] = p.sort]
    /\ lose_packet' = StillLost \ {p.seq}
    /\ retrans_num' = [Aged EXCEPT ![p.seq] = 0]
    /\ Ask(lose_packet')
    /\ UNCHANGED sequence

\* The packet goes into the play list; the numbers it skips are lost.
RecvFresh(p) ==
    /\ Arrive(p)
    /\ ~Repeats(p) /\ ~IsLate(p)
    /\ useList' = insert_into_useList(p, Kept(p), PrevSort(StillPlaying(p)))
    /\ seq_sort' = [seq_sort EXCEPT ![p.seq] = p.sort]
    /\ IF p.seq \in StillLost
       THEN /\ lose_packet' = StillLost \ {p.seq}
            /\ retrans_num' = [Aged EXCEPT ![p.seq] = 0]
            /\ UNCHANGED sequence
       ELSE /\ lose_packet' = IF p.seq = Expected(p) THEN StillLost ELSE StillLost \cup Skipped(p)
            /\ retrans_num' = Aged
            /\ sequence' = p.seq
    /\ Ask(lose_packet')

\* No entry is free: the rest of the datagram is dropped.
RecvNoRoom(p) ==
    /\ Len(useList) = SUBLIST_NUM
    /\ UNCHANGED <<receiverVars, asked>>

\* A packet on the air arrives; sent again by the other end it arrives again.
Recv ==
    \E p \in net :
        /\ net' = net \ {p}
        /\ RecvRepeat(p) \/ RecvLate(p) \/ RecvFresh(p) \/ RecvNoRoom(p)

-----------------------------------------------------------------------------

\* The loss check, the lists and the ring of the other end are not the
\* decoder's.
DecoderOnly == UNCHANGED <<lossVars, own_mode, net, asked>>

\* The speaker plays something else and nothing is recorded: the play list
\* is emptied.
Flush ==
    /\ pc = "idle"
    /\ onDac' = FALSE
    /\ g_numofcached' = Len(useList)
    /\ useList' = <<>>
    /\ g_current_sort' = g_current_sort + Len(useList)
    /\ play_sort' = IF useList = <<>> THEN play_sort ELSE g_current_sort'
    /\ playing' = FALSE
    /\ numofwait' = 0
    /\ DecoderOnly
    /\ UNCHANGED <<plc_cnt, cached, pc, astray, lastPlayed, anew, played>>

\* What lies beside the list's own head, read as the number of an entry.
Beside == 0 .. MaxSort + 1

\* The decoder's period: count the play list and decide whether to play.  The
\* number of entries to skip first, del_node_num, is 0 whatever happens.
StartsNow(n) ==
    /\ ~playing
    /\ n > playofwait \/ numofwait > playofwait \/ (own_mode = "send" /\ n > 0)

\* How often playing was put off for want of packets.
WaitForgotten(n) == 0                                                 \* mutant
Waited(n) ==
    IF StartsNow(n) THEN 0
    ELSE IF ~playing /\ n > 0 THEN numofwait + 1 ELSE numofwait

Wake ==
    LET n == Len(useList)
    IN /\ pc = "idle"
       /\ onDac' \in BOOLEAN
       /\ g_numofcached' = n
       /\ cached' = n
       /\ playing' = (playing \/ StartsNow(n))
       /\ pc' = IF playing' THEN "play" ELSE "idle"
       /\ numofwait' = Waited(n)
       /\ g_current_sort' \in IF ~StartsNow(n) THEN {g_current_sort}
                             ELSE IF n = 0 THEN Beside
                             ELSE {useList[1].sort}
       /\ anew' = (anew \/ StartsNow(n))
       /\ DecoderOnly
       /\ UNCHANGED <<useList, play_sort, plc_cnt, astray, lastPlayed, played>>

\* The end of a period: with nothing counted and the key pressed, playing ends.
EndPeriod(on) ==
    /\ pc' = "idle"
    /\ playing' = (on /\ ~(g_numofcached = 0 /\ own_mode = "send"))
    /\ UNCHANGED cached

\* The speaker took the frame at once: another one in the same period.
Again(on) ==
    /\ onDac /\ cached >= 1
    /\ cached' = cached - 1
    /\ playing' = on
    /\ UNCHANGED pc

\* The position the next entry is played at: the decoder jumps to the entry
\* when that is too far ahead, or when the list is nearly full.
NearlyFull == SUBLIST_NUM - cached < NearFull
ToTheHead == useList[1].sort                                          \* mutant
Position ==
    LET next == useList[1].sort
    IN IF next - g_current_sort > SortJump \/ NearlyFull THEN next ELSE g_current_sort

PlayPacket ==
    /\ pc = "play"
    /\ useList # <<>>
    /\ useList[1].status = 1 /\ useList[1].sort = Position
    /\ useList' = Tail(useList)
    /\ play_sort' = g_current_sort
    /\ g_current_sort' = Position + 1
    /\ plc_cnt' = 0
    /\ lastPlayed' = useList[1].sort
    /\ anew' = FALSE
    /\ played' = played \cup {<<useList[1].id, useList[1].sort>>}
    /\ EndPeriod(playing) \/ Again(playing)
    /\ DecoderOnly
    /\ UNCHANGED <<numofwait, g_numofcached, onDac, astray>>

\* An empty packet ends the period without a frame; where the list is nearly
\* full the position goes to that packet's.
PlayEmpty ==
    /\ pc = "play"
    /\ useList # <<>>
    /\ useList[1].status = 0
    /\ useList' = Tail(useList)
    /\ play_sort' = g_current_sort
    /\ g_current_sort' = Position + 1
    /\ anew' = (anew \/ NearlyFull)
    /\ EndPeriod(playing)
    /\ DecoderOnly
    /\ UNCHANGED <<plc_cnt, numofwait, g_numofcached, onDac, astray, lastPlayed, played>>

\* The packet is missing: a frame is made up, and after PlcMax of them
\* playing stops.
Conceal ==
    LET pos == IF useList = <<>> THEN g_current_sort ELSE Position
        on == playing /\ plc_cnt < PlcMax
    IN /\ pc = "play"
       /\ IF useList = <<>> THEN TRUE
          ELSE useList[1].status = 1 /\ useList[1].sort # Position
       /\ play_sort' = g_current_sort
       /\ g_current_sort' = pos + 1
       /\ plc_cnt' = plc_cnt + 1
       /\ EndPeriod(on) \/ Again(on)
       /\ DecoderOnly
       /\ UNCHANGED <<useList, numofwait, g_numofcached, onDac, astray, lastPlayed, anew, played>>

\* The stream has no free frame.
NoFrame ==
    /\ pc = "play"
    /\ EndPeriod(playing)
    /\ DecoderOnly
    /\ UNCHANGED <<useList, g_current_sort, play_sort, plc_cnt, numofwait, g_numofcached, onDac,
                   astray, lastPlayed, anew, played>>

\* The key of this end.
OwnKey ==
    /\ own_mode' = IF own_mode = "send" THEN "recv" ELSE "send"
    /\ UNCHANGED <<useList, lossVars, playing, g_current_sort, play_sort, numofwait, plc_cnt,
                   g_numofcached, cached, pc, onDac, astray, lastPlayed, anew, played, net, asked>>

Decode == Flush \/ Wake \/ PlayPacket \/ PlayEmpty \/ Conceal \/ NoFrame
====
