---- MODULE RecordSessionProofs ----
(***************************************************************************)
(* A recording leaves nothing behind, and a file that was closed in order  *)
(* has its index, for every limit, timeout and number of files.            *)
(*                                                                         *)
(* That the flag is down when the thread is gone follows from where it can *)
(* be up at all (Control): a thread leaves its loop with the flag up only  *)
(* when it could make no file, and then takes it down itself.  That every  *)
(* picture is indexed follows from what count says of the open file        *)
(* (Counted), and from how a file that is still open at the end got there  *)
(* (it has no picture, or is spoilt).                                      *)
(***************************************************************************)
EXTENDS RecordSession, WellFoundedInduction, TLAPS

\* Where the thread can be with a stream, a file, a frame or the flag.
Control ==
    /\ record_thread_status = 0 => pc = "none"
    /\ streams # {} => pc \in Recording \cup {"end", "close"}
    /\ pavi # 0 => pc \in {"write", "rest", "end"}
    /\ audio_f => pc \in {"rest", "end"}
    /\ sd_save_flag = 1 => \/ pc \in Recording \cup {"end"}
                           \/ pc \in {"close", "exit"} /\ err = "no_file"

\* What the counters say while a file is written.
Counted ==
    /\ pc \in {"write", "rest"} => count <= Limit /\ timeouts <= MaxTimeouts
    /\ \A f \in card : f.no = pavi /\ f.frames /\ ~f.spoilt =>
          \/ pc \in {"write", "rest"} /\ count > 0
          \/ f.indexed

IInv == TypeOK /\ Control /\ Counted /\ PicturesAreIndexed

\* No thread, and only complete files.
LEMMA InitOK == Init => IInv
  <1> SUFFICES ASSUME Init PROVE IInv
    OBVIOUS
  <1> USE RecordAssumption
  <1>1. \A f \in card : f \in Files /\ f.frames /\ f.indexed /\ ~f.spoilt /\ f.no \in 1 .. MaxFile
    <2>1. PICK nos \in SUBSET CardNames :
             card = {[no |-> n, frames |-> TRUE, indexed |-> TRUE, spoilt |-> FALSE] : n \in nos}
      BY DEF Init
    <2>2. nos \subseteq 1 .. MaxFile
      OBVIOUS
    <2> SUFFICES ASSUME NEW f \in card
                 PROVE f \in Files /\ f.frames /\ f.indexed /\ ~f.spoilt /\ f.no \in 1 .. MaxFile
      OBVIOUS
    <2>3. PICK n \in nos : f = [no |-> n, frames |-> TRUE, indexed |-> TRUE, spoilt |-> FALSE]
      BY <2>1
    <2> QED
      BY <2>2, <2>3 DEF Files
  <1>2. TypeOK
    <2>1. card \subseteq Files
      BY <1>1
    <2>2. /\ 0 \in 0 .. Limit + 1 + MaxInsert /\ 0 \in 0 .. MaxTimeouts + 1
          /\ 0 \in 0 .. MaxPowerCuts /\ 0 \in 0 .. MaxFile
      OBVIOUS
    <2> QED
      BY <2>1, <2>2 DEF Init, TypeOK, Errors
  <1>3. Control
    BY DEF Init, Control
  <1>4. Counted /\ PicturesAreIndexed
    BY <1>1 DEF Init, Counted, PicturesAreIndexed
  <1> QED
    BY <1>2, <1>3, <1>4 DEF IInv

\* A mark changes the open file and no other.
LEMMA MarkOnly ==
    ASSUME NEW f \in Files, NEW how \in {"frame", "index", "both", "spoilt"}
    PROVE  /\ Marked(f, how) \in Files
           /\ Marked(f, how).no = f.no
           /\ f.no # pavi => Marked(f, how) = f
           /\ f.no = pavi => 
                /\ Marked(f, how).frames = (f.frames \/ how \in {"frame", "both"})
                /\ Marked(f, how).indexed = (f.indexed \/ how \in {"index", "both"})
                /\ Marked(f, how).spoilt = (f.spoilt \/ how = "spoilt")
  <1>1. CASE f.no # pavi
    BY <1>1 DEF Marked, Files
  <1>2. CASE f.no = pavi /\ how = "frame"
    BY <1>2 DEF Marked, Files
  <1>3. CASE f.no = pavi /\ how = "index"
    BY <1>3 DEF Marked, Files
  <1>4. CASE f.no = pavi /\ how = "both"
    BY <1>4 DEF Marked, Files
  <1>5. CASE f.no = pavi /\ how = "spoilt"
    BY <1>5 DEF Marked, Files
  <1> QED
    BY <1>1, <1>2, <1>3, <1>4, <1>5

\* Steps that leave the card and the open file alone.
LEMMA CommandsOK == ASSUME IInv, Stop \/ Start PROVE IInv'
  <1> USE RecordAssumption DEF IInv
  <1>1. TypeOK'
    BY DEF TypeOK, Stop, Start, Errors
  <1>2. Control'
    BY DEF TypeOK, Control, Stop, Start, Recording
  <1>3. Counted' /\ PicturesAreIndexed'
    BY DEF TypeOK, Control, Counted, PicturesAreIndexed, Stop, Start
  <1> QED
    BY <1>1, <1>2, <1>3

LEMMA AroundOK ==
    ASSUME IInv, Open \/ Loop \/ Refused \/ NoFile \/ CloseStreams \/ Exit
    PROVE  IInv'
  <1> USE RecordAssumption DEF IInv
  <1>1. UNCHANGED <<pavi, card, count, timeouts, audio_f, cuts>>
    BY DEF Open, Loop, Refused, NoFile, CloseStreams, Exit
  <1>2. pc' \notin {"write", "rest"} /\ pc \notin {"write", "rest", "end"}
    BY DEF Open, Loop, Refused, NoFile, CloseStreams, Exit
  <1>3. TypeOK'
    BY <1>1 DEF TypeOK, Open, Loop, Refused, NoFile, CloseStreams, Exit, Errors, Recording
  <1>4. Control'
    BY <1>1 DEF TypeOK, Control, Open, Loop, Refused, NoFile, CloseStreams, Exit, Recording, GoesOn
  <1>5. Counted' /\ PicturesAreIndexed'
    BY <1>1, <1>2 DEF TypeOK, Control, Counted, PicturesAreIndexed
  <1> QED
    BY <1>3, <1>4, <1>5

\* A new file has no picture yet.
LEMMA MakeFileOK == ASSUME IInv, MakeFile PROVE IInv'
  <1> USE RecordAssumption DEF IInv
  <1> DEFINE new == NewFile(pavi')
  <1>1. /\ pc = "call" /\ pavi' \in 1 .. MaxFile /\ count' = 0 /\ timeouts' = 0
        /\ card' = {f \in card : f.no # pavi'} \cup {new}
        /\ UNCHANGED <<record_thread_status, sd_save_flag, streams, enabled, audio_f, cuts>>
        /\ \/ pc' = "write" /\ err' = "none"
           \/ pc' = "end" /\ err' = "failed"
    BY DEF MakeFile
  <1>2. new \in Files /\ ~new.frames /\ new.no = pavi'
    BY <1>1 DEF NewFile, Files
  <1> HIDE DEF new
  <1>3. TypeOK'
    <2>1. card' \subseteq Files
      BY <1>1, <1>2 DEF TypeOK
    <2>2. pavi' \in 0 .. MaxFile /\ count' \in 0 .. Limit + 1 + MaxInsert /\ timeouts' \in 0 .. MaxTimeouts + 1
      BY <1>1
    <2>3. pc' \in Recording \cup {"end"} /\ err' \in Errors
      BY <1>1 DEF Recording, Errors
    <2> QED
      BY <1>1, <2>1, <2>2, <2>3 DEF TypeOK
  <1>4. Control'
    BY <1>1 DEF Control, Recording
  <1>5. \A f \in card' : f.no = pavi' => f = new
    BY <1>1, <1>2
  <1>6. Counted'
    BY <1>1, <1>2, <1>5 DEF Counted
  <1>7. PicturesAreIndexed'
    <2>1. pavi = 0
      BY <1>1 DEF Control
    <2>2. \A f \in card : f.no # pavi
      BY <2>1 DEF TypeOK, Files
    <2>3. \A f \in card' : f.no # pavi' => f \in card
      BY <1>1, <1>2
    <2> QED
      BY <2>2, <2>3 DEF PicturesAreIndexed
  <1> QED
    BY <1>3, <1>4, <1>6, <1>7

\* The rounds of the writing loop.
LEMMA NoPictureOK == ASSUME IInv, NoPicture PROVE IInv'
  <1> USE RecordAssumption DEF IInv
  <1>1. TypeOK'
    BY DEF TypeOK, NoPicture, Same, Recording
  <1>2. Control'
    BY DEF TypeOK, Control, NoPicture, Same, Recording
  <1>3. Counted' /\ PicturesAreIndexed'
    BY DEF Counted, PicturesAreIndexed, NoPicture, Same
  <1> QED
    BY <1>1, <1>2, <1>3

\* What a mark does to the files.
LEMMA MarkCard ==
    ASSUME TypeOK, NEW how \in {"frame", "index", "both", "spoilt"}, Mark(how), NEW g \in card'
    PROVE  /\ g \in Files
           /\ g.no # pavi => g \in card
           /\ g.no = pavi => \E f \in card :
                 /\ f.no = pavi
                 /\ how = "frame" => g = [f EXCEPT !.frames = TRUE]
                 /\ how = "index" => g = [f EXCEPT !.indexed = TRUE]
                 /\ how = "both" => g = [f EXCEPT !.frames = TRUE, !.indexed = TRUE]
                 /\ how = "spoilt" => g = [f EXCEPT !.spoilt = TRUE]
  <1>1. PICK f \in card : g = Marked(f, how)
    BY DEF Mark
  <1>2. f \in Files
    BY DEF TypeOK
  <1>3. g \in Files /\ g.no = f.no
    BY <1>1, <1>2, MarkOnly
  <1>4. CASE f.no # pavi
    BY <1>1, <1>3, <1>4 DEF Marked
  <1>5. CASE f.no = pavi
    BY <1>1, <1>3, <1>5 DEF Marked
  <1> QED
    BY <1>4, <1>5

\* What the three marks of an unbroken recording leave, and the fourth.
LEMMA MarkFrame ==
    ASSUME TypeOK, Mark("frame"), NEW g \in card'
    PROVE  g \in Files /\ (g.no # pavi => g \in card)
  BY MarkCard

LEMMA MarkBoth ==
    ASSUME TypeOK, Mark("both"), NEW g \in card'
    PROVE  g \in Files /\ (g.no # pavi => g \in card) /\ (g.no = pavi => g.indexed)
  <1>1. g \in Files /\ (g.no # pavi => g \in card)
    BY MarkCard
  <1>2. ASSUME g.no = pavi PROVE g.indexed
    <2>1. PICK f \in card : g = [f EXCEPT !.frames = TRUE, !.indexed = TRUE]
      BY <1>2, MarkCard
    <2> QED
      BY <2>1 DEF TypeOK, Files
  <1> QED
    BY <1>1, <1>2

LEMMA MarkIndex ==
    ASSUME TypeOK, Mark("index"), NEW g \in card'
    PROVE  g \in Files /\ (g.no # pavi => g \in card) /\ (g.no = pavi => g.indexed)
  <1>1. g \in Files /\ (g.no # pavi => g \in card)
    BY MarkCard
  <1>2. ASSUME g.no = pavi PROVE g.indexed
    <2>1. PICK f \in card : g = [f EXCEPT !.indexed = TRUE]
      BY <1>2, MarkCard
    <2> QED
      BY <2>1 DEF TypeOK, Files
  <1> QED
    BY <1>1, <1>2

LEMMA MarkSpoilt ==
    ASSUME TypeOK, Mark("spoilt"), NEW g \in card'
    PROVE  g \in Files /\ (g.no # pavi => g \in card) /\ (g.no = pavi => g.spoilt)
  <1>1. g \in Files /\ (g.no # pavi => g \in card)
    BY MarkCard
  <1>2. ASSUME g.no = pavi PROVE g.spoilt
    <2>1. PICK f \in card : g = [f EXCEPT !.spoilt = TRUE]
      BY <1>2, MarkCard
    <2> QED
      BY <2>1 DEF TypeOK, Files
  <1> QED
    BY <1>1, <1>2

\* A picture: the file goes on, with a picture counted, or is closed, indexed.
LEMMA PictureOK == ASSUME IInv, Picture PROVE IInv'
  <1> USE RecordAssumption DEF IInv
  <1>1. PICK insert \in 0 .. MaxInsert :
          /\ count' = count + 1 + insert
          /\ IF sd_save_flag = 0 \/ Full(count')
             THEN Mark("both") /\ pavi' = 0 /\ pc' = "end"
             ELSE Mark("frame") /\ UNCHANGED pavi /\ pc' = "rest"
    BY DEF Picture
  <1>2. /\ pc = "write" /\ audio_f' \in BOOLEAN /\ timeouts' = 0
        /\ UNCHANGED <<record_thread_status, sd_save_flag, streams, enabled, err, cuts>>
    BY DEF Picture, Same
  <1>3. count \in 0 .. Limit /\ count' \in 1 .. Limit + 1 + MaxInsert
    BY <1>1, <1>2 DEF TypeOK, Counted
  <1>4. timeouts' \in 0 .. MaxTimeouts + 1 /\ count' \in 0 .. Limit + 1 + MaxInsert /\ timeouts' <= MaxTimeouts
    BY <1>2, <1>3
  <1>5. CASE sd_save_flag = 0 \/ Full(count')
    <2>1. Mark("both") /\ pavi' = 0 /\ pc' = "end"
      BY <1>1, <1>5
    <2>2. \A g \in card' : g \in Files /\ g.no # 0 /\ (g.no # pavi => g \in card)
                          /\ (g.no = pavi => g.indexed)
      BY <2>1, MarkBoth DEF Files
    <2>3. TypeOK'
      BY <1>2, <1>4, <2>1, <2>2 DEF TypeOK
    <2>4. Control'
      BY <1>2, <2>1 DEF TypeOK, Control, Recording
    <2>5. Counted' /\ PicturesAreIndexed'
      BY <2>1, <2>2 DEF Counted, PicturesAreIndexed
    <2> QED
      BY <2>3, <2>4, <2>5
  <1>6. CASE ~(sd_save_flag = 0 \/ Full(count'))
    <2>1. Mark("frame") /\ pavi' = pavi /\ pc' = "rest"
      BY <1>1, <1>6
    <2>2. \A g \in card' : g \in Files /\ (g.no # pavi => g \in card)
      BY <2>1, MarkFrame
    <2>3. TypeOK'
      BY <1>2, <1>4, <2>1, <2>2 DEF TypeOK, Recording
    <2>4. Control'
      BY <1>2, <2>1 DEF TypeOK, Control, Recording
    <2>5. count' > 0 /\ count' <= Limit
      BY <1>3, <1>6 DEF Full
    <2>6. Counted'
      BY <1>4, <2>1, <2>5 DEF Counted
    <2>7. PicturesAreIndexed'
      BY <2>1, <2>2 DEF PicturesAreIndexed
    <2> QED
      BY <2>3, <2>4, <2>6, <2>7
  <1> QED
    BY <1>5, <1>6

\* A file the card failed on counts as spoilt.
LEMMA PictureFailsOK == ASSUME IInv, PictureFails PROVE IInv'
  <1> USE RecordAssumption DEF IInv
  <1>1. /\ pc = "write" /\ pc' = "end" /\ audio_f' \in BOOLEAN /\ Mark("spoilt") /\ err' = "failed"
        /\ UNCHANGED <<record_thread_status, sd_save_flag, streams, enabled, pavi, count, timeouts, cuts>>
    BY DEF PictureFails, Same
  <1>2. \A g \in card' : g \in Files /\ (g.no # pavi => g \in card) /\ (g.no = pavi => g.spoilt)
    BY <1>1, MarkSpoilt
  <1>3. TypeOK'
    BY <1>1, <1>2 DEF TypeOK, Errors
  <1>4. Control'
    BY <1>1 DEF TypeOK, Control, Recording
  <1>5. Counted' /\ PicturesAreIndexed'
    BY <1>1, <1>2 DEF Counted, PicturesAreIndexed
  <1> QED
    BY <1>3, <1>4, <1>5

\* A file that ends without a picture needs no index: Counted says that it
\* has none when count is 0.
LEMMA RestOfRoundOK == ASSUME IInv, RestOfRound PROVE IInv'
  <1> USE RecordAssumption DEF IInv
  <1>1. /\ pc = "rest" /\ audio_f' = FALSE /\ timeouts' = timeouts + 1
        /\ UNCHANGED <<record_thread_status, sd_save_flag, streams, enabled, count, err, cuts>>
    BY DEF RestOfRound, Same
  <1>2. timeouts' \in 0 .. MaxTimeouts + 1 /\ count <= Limit /\ count \in 0 .. Limit + 1 + MaxInsert
    BY <1>1 DEF TypeOK, Counted
  <1>3. CASE sd_save_flag = 0 \/ Tired
    <2>1. /\ pavi' = 0 /\ pc' = "end"
          /\ IF HasPictures THEN Mark("index") ELSE UNCHANGED card
      BY <1>3 DEF RestOfRound
    <2>2. \A g \in card' : g \in Files /\ g.no # 0 /\ (g.no # pavi => g \in card)
                          /\ (g.no = pavi => g.indexed \/ ~g.frames \/ g.spoilt)
      <3>1. CASE HasPictures
        BY <2>1, <3>1, MarkIndex DEF Files
      <3>2. CASE ~HasPictures
        BY <1>1, <2>1, <3>2 DEF HasPictures, TypeOK, Counted, Files
      <3> QED
        BY <3>1, <3>2
    <2>3. TypeOK'
      <3>1. pavi' \in 0 .. MaxFile /\ card' \subseteq Files
        BY <2>1, <2>2
      <3> QED
        BY <1>1, <1>2, <2>1, <3>1 DEF TypeOK
    <2>4. Control'
      BY <1>1, <2>1 DEF TypeOK, Control, Recording
    <2>5. Counted' /\ PicturesAreIndexed'
      BY <2>1, <2>2 DEF Counted, PicturesAreIndexed
    <2> QED
      BY <2>3, <2>4, <2>5
  <1>4. CASE ~(sd_save_flag = 0 \/ Tired)
    <2>1. pc' = "write" /\ UNCHANGED <<pavi, card>>
      BY <1>4 DEF RestOfRound
    <2>2. timeouts' <= MaxTimeouts
      BY <1>1, <1>2, <1>4 DEF Tired, TypeOK
    <2>3. TypeOK'
      BY <1>1, <1>2, <2>1 DEF TypeOK, Recording
    <2>4. Control'
      BY <1>1, <2>1 DEF TypeOK, Control, Recording
    <2>5. Counted' /\ PicturesAreIndexed'
      BY <1>1, <1>2, <2>1, <2>2 DEF Counted, PicturesAreIndexed
    <2> QED
      BY <2>3, <2>4, <2>5
  <1> QED
    BY <1>3, <1>4

\* The end of a recording: a file still open has no picture or is spoilt.
LEMMA EndOK == ASSUME IInv, End PROVE IInv'
  <1> USE RecordAssumption DEF IInv
  <1>1. /\ pc = "end" /\ pavi' = 0 /\ audio_f' = FALSE /\ enabled' = FALSE /\ pc' = "loop"
        /\ UNCHANGED <<record_thread_status, sd_save_flag, streams, card, count, timeouts, err, cuts>>
    BY DEF End, Same
  <1>2. TypeOK'
    <2>1. pavi' \in 0 .. MaxFile
      BY <1>1
    <2> QED
      BY <1>1, <2>1 DEF TypeOK, Recording
  <1>3. Control'
    BY <1>1 DEF TypeOK, Control, Recording
  <1>4. \A f \in card : f.no # 0
    BY DEF TypeOK, Files
  <1>5. Counted' /\ PicturesAreIndexed'
    BY <1>1, <1>4 DEF Counted, PicturesAreIndexed
  <1> QED
    BY <1>2, <1>3, <1>5

\* The power fails: the open file counts as spoilt, and all else is gone.
LEMMA PowerCutOK == ASSUME IInv, PowerCut PROVE IInv'
  <1> USE RecordAssumption DEF IInv
  <1>1. Mark("spoilt")
    BY DEF PowerCut, Mark
  <1>2. \A g \in card' : g \in Files /\ g.no # 0 /\ (g.no # pavi => g \in card) /\ (g.no = pavi => g.spoilt)
    BY <1>1, MarkSpoilt DEF Files
  <1>3. TypeOK'
    <2>1. /\ pavi' \in 0 .. MaxFile /\ cuts' \in 0 .. MaxPowerCuts
          /\ count' \in 0 .. Limit + 1 + MaxInsert /\ timeouts' \in 0 .. MaxTimeouts + 1
      BY DEF PowerCut, TypeOK
    <2> QED
      BY <1>2, <2>1 DEF TypeOK, PowerCut, Errors
  <1>4. Control'
    BY DEF Control, PowerCut
  <1>5. pavi' = 0 /\ pc' = "none"
    BY DEF PowerCut
  <1>6. Counted' /\ PicturesAreIndexed'
    BY <1>2, <1>5 DEF Counted, PicturesAreIndexed
  <1> QED
    BY <1>3, <1>4, <1>6

LEMMA StutterOK == ASSUME IInv, UNCHANGED vars PROVE IInv'
  BY DEF IInv, vars, TypeOK, Control, Counted, PicturesAreIndexed

\* The invariant holds in every reachable state: what the thread can hold
\* where it is, and what the counters say of the file it writes.
THEOREM Inductive == Spec => []IInv
  <1>1. IInv /\ [Next]_vars => IInv'
    <2> SUFFICES ASSUME IInv, [Next]_vars PROVE IInv'
      OBVIOUS
    <2>1. CASE Stop \/ Start
      BY <2>1, CommandsOK
    <2>2. CASE Open \/ Loop \/ Refused \/ NoFile \/ CloseStreams \/ Exit
      BY <2>2, AroundOK
    <2>3. CASE MakeFile
      BY <2>3, MakeFileOK
    <2>4. CASE NoPicture
      BY <2>4, NoPictureOK
    <2>5. CASE Picture
      BY <2>5, PictureOK
    <2>6. CASE PictureFails
      BY <2>6, PictureFailsOK
    <2>7. CASE RestOfRound
      BY <2>7, RestOfRoundOK
    <2>8. CASE End
      BY <2>8, EndOK
    <2>9. CASE PowerCut
      BY <2>9, PowerCutOK
    <2>10. CASE UNCHANGED vars
      BY <2>10, StutterOK
    <2> QED
      BY <2>1, <2>2, <2>3, <2>4, <2>5, <2>6, <2>7, <2>8, <2>9, <2>10 DEF Next, Thread
  <1> QED
    BY InitOK, <1>1, PTL DEF Spec

\* Every variable keeps its type.
THEOREM TypeCorrect == Spec => []TypeOK
  <1>1. IInv => TypeOK
    BY DEF IInv
  <1> QED
    BY <1>1, Inductive, PTL

\* However a recording ends, nothing of it is left when the next may start.
THEOREM RecordingLeavesNothing == Spec => []IdleIsClean
  <1>1. IInv => IdleIsClean
    BY DEF IInv, TypeOK, Control, IdleIsClean, Recording
  <1> QED
    BY <1>1, Inductive, PTL

\* A file that was closed in order has the index of its pictures.
THEOREM FilesAreIndexed == Spec => []PicturesAreIndexed
  <1>1. IInv => PicturesAreIndexed
    BY DEF IInv
  <1> QED
    BY <1>1, Inductive, PTL

-----------------------------------------------------------------------------

\* Max of a set of numbers that has a bound is the largest of them: the least
\* of its bounds is one of them.
LEMMA Greatest ==
    ASSUME NEW n \in Nat, NEW S \in SUBSET (0 .. n), S # {}
    PROVE  Max(S) \in S /\ \A y \in S : y <= Max(S)
  <1> DEFINE R == OpToRel(<, Nat)
             Bounds == {b \in Nat : \A y \in S : y <= b}
  <1>1. R = {ss \in Nat \X Nat : ss[1] < ss[2]} /\ IsWellFoundedOn(R, Nat)
    BY NatLessThanWellFounded, Zenon DEF OpToRel
  <1>2. Bounds \in SUBSET Nat /\ n \in Bounds
    OBVIOUS
  <1> HIDE DEF R
  <1>3. PICK m \in Bounds : \A b \in Bounds : ~ (<<b, m>> \in R)
    <2>1. Bounds # {}
      BY <1>2
    <2> HIDE DEF Bounds
    <2> QED
      BY <1>1, <1>2, <2>1, WFMin
  <1>4. m \in Nat /\ \A b \in Bounds : ~ (b < m)
    <2>1. \A a, b \in Nat : a < b => <<a, b>> \in R
      BY <1>1
    <2> QED
      BY <1>2, <1>3, <2>1
  <1>5. m \in S
    <2> SUFFICES ASSUME m \notin S PROVE FALSE
      OBVIOUS
    <2>1. \A y \in S : y \in Nat /\ y < m
      BY <1>3, <1>4
    <2>2. m - 1 \in Nat
      <3>1. PICK y \in S : TRUE
        OBVIOUS
      <3> QED
        BY <1>4, <2>1, <3>1
    <2>3. m - 1 \in Bounds
      BY <1>4, <2>1, <2>2
    <2> QED
      BY <1>4, <2>2, <2>3
  <1>6. \A y \in S : m >= y /\ y \in Int
    BY <1>3, <1>4
  <1>7. \A x \in S : (\A y \in S : x >= y) => x = m
    BY <1>4, <1>5, <1>6
  <1> HIDE DEF Bounds
  <1>8. (CHOOSE x \in S : \A y \in S : x >= y) = m
    BY <1>5, <1>6, <1>7
  <1> QED
    BY <1>5, <1>6, <1>8 DEF Max

\* The number of a new file is that of no file that was read.
LEMMA NewNumber ==
    ASSUME NEW seen \in SUBSET Files, NEW f \in seen
    PROVE  f.no # NextNo(seen)
  <1> USE RecordAssumption
  <1> DEFINE S == {g.no : g \in seen} \cup {0}
  <1>1. S \in SUBSET (0 .. MaxFile) /\ f.no \in S
    BY DEF Files
  <1> HIDE DEF S
  <1>2. Max(S) \in S /\ f.no <= Max(S)
    BY <1>1, Greatest
  <1>3. ASSUME NEW m \in S, f.no <= m PROVE f.no # m + 1
    <2>1. m \in 0 .. MaxFile /\ f.no \in 0 .. MaxFile
      BY <1>1
    <2> QED
      BY <1>3, <2>1
  <1>4. f.no # Max(S) + 1
    BY <1>2, <1>3
  <1> QED
    BY <1>4 DEF NextNo, S

\* What a mark does to the card leaves every closed file on it.
LEMMA MarkKeeps ==
    ASSUME NEW how, card' = {Marked(f, how) : f \in card}, NEW g \in card, g.no # pavi
    PROVE  g \in card'
  <1>1. Marked(g, how) = g
    BY DEF Marked
  <1> QED
    BY <1>1

\* As long as the directory can be read, no step changes or replaces a file
\* that was closed, in whatever order the files before it came and went.
THEOREM OldFilesStay == ASSUME ~DirFails PROVE Spec => NoOverwrite
  <1>1. IInv /\ [Next]_vars => [\A f \in card : f.no # pavi => f \in card']_vars
    <2> SUFFICES ASSUME IInv, Next, NEW f \in card, f.no # pavi PROVE f \in card'
      OBVIOUS
    <2>1. CASE UNCHANGED card
      BY <2>1
    <2>2. CASE MakeFile
      <3>1. card \in SUBSET Files /\ Readings = {card}
        BY DEF IInv, TypeOK, Readings
      <3>2. pavi' = NextNo(card)
        BY <2>2, <3>1 DEF MakeFile
      <3>3. f.no # pavi'
        BY <3>1, <3>2, NewNumber
      <3> QED
        BY <2>2, <3>3 DEF MakeFile
    <2>3. CASE Picture \/ PictureFails \/ RestOfRound \/ PowerCut
      <3>1. UNCHANGED card \/ \E how : card' = {Marked(g, how) : g \in card}
        BY <2>3 DEF Picture, PictureFails, RestOfRound, PowerCut, Mark
      <3> QED
        BY <3>1, MarkKeeps
    <2>4. Next => MakeFile \/ Picture \/ PictureFails \/ RestOfRound \/ PowerCut \/ UNCHANGED card
      BY DEF Next, Thread, Stop, Start, Open, Loop, Refused, NoFile, NoPicture, End,
             CloseStreams, Exit
    <2> QED
      BY <2>1, <2>2, <2>3, <2>4
  <1> QED
    BY <1>1, Inductive, PTL DEF Spec, NoOverwrite
====
