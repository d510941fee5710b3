---- MODULE RecordSession ----
(***************************************************************************)
(* Recording to the card: the recording thread and the files it makes      *)
(* (record/sd_save.c, media/media.c) and the commands that start and stop  *)
(* it (remoteControl/remote_control.c).  The commands come in between any  *)
(* two steps of the thread, which end where it sleeps, writes to the card  *)
(* or takes a lock; the card fails at any time, and the power too.         *)
(***************************************************************************)
EXTENDS Integers, FiniteSets, FiniteSetsExt

CONSTANTS
    MaxFile,           \* bound: number of the last file
    CardNames,         \* the numbers that may be on the card to begin with
    Limit,             \* 30 * settime: frames after which a file is full
    MaxInsert,         \* most repeats insert_frame makes of a late picture
    MaxTimeouts,       \* 1000: rounds without a picture that end a file
    Audio,             \* whether audio_frq asks for sound
    DirFails,          \* whether reading the directory can fail half way
    MaxPowerCuts       \* bound: how often the power fails

ASSUME RecordAssumption ==
    /\ MaxFile \in Nat /\ Limit \in Nat /\ MaxInsert \in Nat /\ MaxTimeouts \in Nat /\ MaxPowerCuts \in Nat
    /\ CardNames \subseteq 1 .. MaxFile
    /\ Audio \in BOOLEAN /\ DirFails \in BOOLEAN

VARIABLES
    record_thread_status,
    sd_save_flag,      \* also *exit_flag
    pc,                \* of the thread, "none" when there is none
    streams,           \* those the thread opened
    enabled,           \* they are enabled
    pavi,              \* number of the open file, 0 for none
    card,              \* the files on the card
    count, timeouts,
    audio_f,           \* a frame of sound is held
    err,
    cuts

vars == <<record_thread_status, sd_save_flag, pc, streams, enabled, pavi, card, count, timeouts,
          audio_f, err, cuts>>

\* A file: its number, whether it has pictures, whether its index was written,
\* and whether it was spoilt by a failing write or by the power.
Files == [no : 1 .. MaxFile, frames : BOOLEAN, indexed : BOOLEAN, spoilt : BOOLEAN]
Recording == {"loop", "call", "write", "rest"}
Errors == {"none", "failed", "no_file"}

Init ==
    /\ record_thread_status = 0
    /\ sd_save_flag = 0
    /\ pc = "none"
    /\ streams = {}
    /\ enabled = FALSE
    /\ pavi = 0
    /\ \E nos \in SUBSET CardNames :
          card = {[no |-> n, frames |-> TRUE, indexed |-> TRUE, spoilt |-> FALSE] : n \in nos}
    /\ count = 0 /\ timeouts = 0
    /\ audio_f = FALSE
    /\ err = "none"
    /\ cuts = 0

-----------------------------------------------------------------------------

\* record_control_event: a stop is passed on while the thread runs, a start
\* is taken while it does not.  Whether the thread could be made is not looked
\* at: when it could not, the status says for ever that it runs.
Stop ==
    /\ record_thread_status = 1
    /\ sd_save_flag' = 0
    /\ UNCHANGED <<record_thread_status, pc, streams, enabled, pavi, card, count, timeouts,
                   audio_f, err, cuts>>

Start ==
    /\ record_thread_status = 0
    /\ record_thread_status' = 1
    /\ pc' \in {"open", "none"}
    /\ err' = "none"
    /\ UNCHANGED <<sd_save_flag, streams, enabled, pavi, card, count, timeouts, audio_f, cuts>>

-----------------------------------------------------------------------------

\* The streams are opened, which enables them and of which either can fail,
\* and the flag is set.
Open ==
    /\ pc = "open"
    /\ streams' \in {{}, {"video"}} \cup (IF Audio THEN {{"video", "audio"}} ELSE {})
    /\ IF streams' = (IF Audio THEN {"video", "audio"} ELSE {"video"})
       THEN pc' = "loop" /\ sd_save_flag' = 1
       ELSE pc' = "close" /\ UNCHANGED sd_save_flag
    /\ enabled' = (streams' # {})
    /\ UNCHANGED <<record_thread_status, pavi, card, count, timeouts, audio_f, err, cuts>>

\* The loop of sd_save_thread around new_sd_save_avi2.
Always == TRUE                                                        \* mutant
GoesOn == sd_save_flag = 1
Loop ==
    /\ pc = "loop"
    /\ IF err # "no_file" /\ GoesOn
       THEN pc' = "call" /\ enabled' = TRUE
       ELSE pc' = "close" /\ UNCHANGED enabled
    /\ UNCHANGED <<record_thread_status, sd_save_flag, streams, pavi, card, count, timeouts,
                   audio_f, err, cuts>>

\* create_video_file: one more than the largest number read from the card.
\* A read that fails ends the search like the last entry.
Last(seen) == Max({f.no : f \in seen} \cup {0})                      \* mutant
NextNo(seen) == Max({f.no : f \in seen} \cup {0}) + 1
Readings == IF DirFails THEN SUBSET card ELSE {card}
NewFile(n) == [no |-> n, frames |-> FALSE, indexed |-> FALSE, spoilt |-> FALSE]

\* new_sd_save_avi2 returns at once, has no memory, or makes a file; when
\* that fails the thread is to end.
Refused ==
    /\ pc = "call"
    /\ \/ sd_save_flag = 0 /\ UNCHANGED enabled
       \/ sd_save_flag = 1 /\ enabled' = FALSE
    /\ err' = "failed"
    /\ pc' = "loop"
    /\ UNCHANGED <<record_thread_status, sd_save_flag, streams, pavi, card, count, timeouts,
                   audio_f, cuts>>

NoFile ==
    /\ pc = "call" /\ sd_save_flag = 1
    /\ err' = "no_file"
    /\ enabled' = FALSE
    /\ pc' = "loop"
    /\ UNCHANGED <<record_thread_status, sd_save_flag, streams, pavi, card, count, timeouts,
                   audio_f, cuts>>

MakeFile ==
    /\ pc = "call" /\ sd_save_flag = 1
    /\ pavi' \in {NextNo(seen) : seen \in Readings} \cap 1 .. MaxFile
    /\ card' = {f \in card : f.no # pavi'} \cup {NewFile(pavi')}
    /\ count' = 0 /\ timeouts' = 0
    /\ \/ pc' = "write" /\ err' = "none"
       \/ pc' = "end" /\ err' = "failed"
    /\ UNCHANGED <<record_thread_status, sd_save_flag, streams, enabled, audio_f, cuts>>

-----------------------------------------------------------------------------

\* What becomes of the open file.
Marked(f, how) == IF f.no # pavi THEN f
                  ELSE CASE how = "frame"  -> [f EXCEPT !.frames = TRUE]
                         [] how = "index"  -> [f EXCEPT !.indexed = TRUE]
                         [] how = "both"   -> [f EXCEPT !.frames = TRUE, !.indexed = TRUE]
                         [] how = "spoilt" -> [f EXCEPT !.spoilt = TRUE]
Mark(how) == card' = {Marked(f, how) : f \in card}

Same == UNCHANGED <<record_thread_status, sd_save_flag, streams, cuts>>

\* A round of the writing loop begins: what the streams have is taken.
NoPicture ==
    /\ pc = "write"
    /\ audio_f' \in {FALSE, Audio}
    /\ pc' = "rest"
    /\ UNCHANGED <<enabled, pavi, card, count, timeouts, err>> /\ Same

\* A picture is written, and repeated when it came late.  With the stop given
\* or the file full the index is written and the file closed.
NeverFull(n) == FALSE                                                 \* mutant
Full(n) == n > Limit
Picture ==
    /\ pc = "write"
    /\ audio_f' \in {FALSE, Audio}
    /\ \E insert \in 0 .. MaxInsert :
          /\ count' = count + 1 + insert
          /\ IF sd_save_flag = 0 \/ Full(count')
             THEN Mark("both") /\ pavi' = 0 /\ pc' = "end"
             ELSE Mark("frame") /\ UNCHANGED pavi /\ pc' = "rest"
    /\ timeouts' = 0
    /\ UNCHANGED <<enabled, err>> /\ Same

\* The card fails: the file is closed as it is.
PictureFails ==
    /\ pc = "write"
    /\ audio_f' \in {FALSE, Audio}
    /\ Mark("spoilt")
    /\ err' = "failed"
    /\ pc' = "end"
    /\ UNCHANGED <<enabled, pavi, count, timeouts>> /\ Same

\* The rest of the round: the sound is written and given back, the thread
\* sleeps, and ends the file when a stop was given or no picture has come for
\* long.  The index is written when there were pictures.
SeveralPictures == count > 1                                          \* mutant
HasPictures == count > 0
Tired == timeouts + 1 > MaxTimeouts
RestOfRound ==
    /\ pc = "rest"
    /\ audio_f' = FALSE
    /\ timeouts' = timeouts + 1
    /\ IF sd_save_flag = 0 \/ Tired
       THEN /\ pavi' = 0 /\ pc' = "end"
            /\ IF HasPictures THEN Mark("index") ELSE UNCHANGED card
       ELSE pc' = "write" /\ UNCHANGED <<pavi, card>>
    /\ UNCHANGED <<enabled, count, err>> /\ Same

\* The end of new_sd_save_avi2 closes the file if it is still open and gives
\* back what is held.
End ==
    /\ pc = "end"
    /\ pavi' = 0
    /\ audio_f' = FALSE
    /\ enabled' = FALSE
    /\ pc' = "loop"
    /\ UNCHANGED <<card, count, timeouts, err>> /\ Same

\* The end of the thread: the streams are closed one by one, and the last
\* thing is its status.
CloseStreams ==
    /\ pc = "close"
    /\ streams' = {} /\ enabled' = FALSE
    /\ pc' = "exit"
    /\ UNCHANGED <<record_thread_status, sd_save_flag, pavi, card, count, timeouts,
                   audio_f, err, cuts>>

LeavesFlag ==                                                         \* mutant
    /\ pc = "exit"
    /\ record_thread_status' = 0
    /\ pc' = "none"
    /\ UNCHANGED <<sd_save_flag, streams, enabled, pavi, card, count, timeouts, audio_f, err, cuts>>
Exit ==
    /\ pc = "exit"
    /\ sd_save_flag' = IF err = "no_file" THEN 0 ELSE sd_save_flag
    /\ record_thread_status' = 0
    /\ pc' = "none"
    /\ UNCHANGED <<streams, enabled, pavi, card, count, timeouts, audio_f, err, cuts>>

\* The power fails: the card keeps its files, the open one as it is.
PowerCut ==
    /\ cuts < MaxPowerCuts
    /\ cuts' = cuts + 1
    /\ card' = {Marked(f, "spoilt") : f \in card}
    /\ record_thread_status' = 0 /\ sd_save_flag' = 0
    /\ pc' = "none"
    /\ streams' = {} /\ enabled' = FALSE
    /\ pavi' = 0
    /\ count' = 0 /\ timeouts' = 0
    /\ audio_f' = FALSE
    /\ err' = "none"

Thread ==
    \/ Open \/ Loop \/ Refused \/ NoFile \/ MakeFile
    \/ NoPicture \/ Picture \/ PictureFails \/ RestOfRound \/ End
    \/ CloseStreams \/ Exit

Next == Stop \/ Start \/ Thread \/ PowerCut

\* The thread is scheduled.
Spec == Init /\ [][Next]_vars /\ WF_vars(Thread)

-----------------------------------------------------------------------------

\* The type invariant.
TypeOK ==
    /\ record_thread_status \in {0, 1} /\ sd_save_flag \in {0, 1}
    /\ pc \in Recording \cup {"none", "open", "end", "close", "exit"}
    /\ streams \subseteq {"video", "audio"}
    /\ enabled \in BOOLEAN
    /\ pavi \in 0 .. MaxFile
    /\ card \subseteq Files
    /\ count \in 0 .. Limit + 1 + MaxInsert /\ timeouts \in 0 .. MaxTimeouts + 1
    /\ audio_f \in BOOLEAN
    /\ err \in Errors
    /\ cuts \in 0 .. MaxPowerCuts

\* When a start is taken, nothing is left of the recording before, however it
\* ended: no stream, no open file, no frame, and the flag is down, so a thread
\* that fails early does not seem to record (sd_save.c, lines 311-328).
IdleIsClean ==
    record_thread_status = 0 =>
        /\ pc = "none" /\ streams = {} /\ pavi = 0
        /\ ~audio_f /\ sd_save_flag = 0

\* A closed file with pictures has its index, unless the card or the power
\* failed while it was written: whichever of the three ends a file comes
\* first, and with whatever is held (lines 465-520).
PicturesAreIndexed ==
    \A f \in card : f.frames /\ ~f.spoilt /\ f.no # pavi => f.indexed

\* No step touches a file that was closed: as long as the directory can be
\* read, a new recording never takes the name of an old one, also after gaps,
\* failures and power cuts (media.c, lines 195-227).
NoOverwrite == [][\A f \in card : f.no # pavi => f \in card']_vars

\* A stop given while the thread records ends the thread, whatever the card
\* and the streams do (sd_save.c, lines 288-309, 465, 502).
StopObeyed == sd_save_flag = 0 /\ pc \in Recording ~> record_thread_status = 0
====
