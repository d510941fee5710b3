---- MODULE MCRecordSession ----
(* Four files, of which two may be there before, of two pictures each. *)
EXTENDS RecordSession
====
