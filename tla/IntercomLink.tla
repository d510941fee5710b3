---- MODULE IntercomLink ----
(***************************************************************************)
(* The intercom from the talking end to the listening one, over UDP.       *)
(***************************************************************************)
EXTENDS IntercomSender, IntercomReceiver

vars == <<net, asked, senderVars, receiverVars>>

Init ==
    /\ net = {} /\ asked = {}
    /\ SenderInit
    /\ ReceiverInit

Talk == (EncodeFrame \/ EncodeSilence \/ EncodeNothing \/ PushKey) /\ UNCHANGED receiverVars
Resend == RetransferCheck /\ UNCHANGED receiverVars

\* Once it took the head of the play list for an entry, and has it on the list
\* of free entries, the listening end can do anything: nothing is said of it.
Listen == Recv /\ ~astray /\ UNCHANGED senderVars
Play == (Decode \/ OwnKey) /\ ~astray /\ UNCHANGED senderVars

Air == (LosePacket \/ LoseRequest) /\ UNCHANGED <<senderVars, receiverVars>>

\* The listening end notices nothing of a start of the other one.
PowerCycle == Restart /\ UNCHANGED receiverVars

Next == Talk \/ Resend \/ Listen \/ Play \/ Air \/ PowerCycle

(***************************************************************************)
(* The decoder's timer wakes it every period, and now and then the stream  *)
(* has a free frame for it.                                                *)
(***************************************************************************)
Fairness ==
    /\ WF_vars((Flush \/ Wake) /\ ~astray /\ UNCHANGED senderVars)
    /\ SF_vars((PlayPacket \/ PlayEmpty \/ Conceal) /\ ~astray /\ UNCHANGED senderVars)

Spec == Init /\ [][Next]_vars /\ Fairness

-----------------------------------------------------------------------------

\* The type invariant of the two ends and of what is between them.
TypeOK == NetTypeOK /\ SenderTypeOK /\ ReceiverTypeOK

\* While it goes on, playing never goes back: a packet that comes after the
\* decoder jumped over its place is not played behind newer ones, whatever was
\* overtaken, lost and sent again.  It may go back in two cases only: where the
\* play list is nearly full the decoder plays the first entry wherever that
\* lies, and when playing stopped and starts again it starts with the first
\* entry, which can be older than what was played (lines 881-916, 1570-1594,
\* 1759-1761).
PlaysOn ==
    [][lastPlayed' # lastPlayed => lastPlayed' > lastPlayed \/ anew \/ NearlyFull]_vars

\* No packet of one identity is played twice, although a request that crosses
\* the packet it asks for brings it again, also after playing stopped and
\* forgot where it was (lines 939-950, 1010-1017).
PlayedOnce ==
    [][PlayPacket => <<useList[1].id, useList[1].sort>> \notin played]_vars

\* Every entry of the play list leaves it, played, skipped or flushed, however
\* the packets before it were lost or came late (lines 1554-1644, 1731-1761):
\* no entry waits for a position the decoder is already past.
Drains ==
    \A s \in 1 .. MaxSort :
        (\E i \in DOMAIN useList : useList[i].sort = s)
            ~> astray \/ (\A i \in DOMAIN useList : useList[i].sort # s)
====
