---------------------------- MODULE ThumberPipe ----------------------------
(***************************************************************************)
(* One run of the GStreamer pipeline for one file: thumber_pipe_run in     *)
(* gst-thumb-pipe.c.  It blocks the process: it waits for the pipeline to  *)
(* be paused, then for a frame worth showing, ten seconds for each message *)
(* of the pipeline's bus, and makes the thumbnails in the sizes the        *)
(* options ask for.  A frame of too little variance is kept as a backup    *)
(* for the end of the stream.                                              *)
(*                                                                         *)
(* Abstracted: pictures (a frame is good or dull), elements, pads and      *)
(* caps; messages the waits do not look at.  Pictures are counted by the   *)
(* references the run holds.                                               *)
(***************************************************************************)
EXTENDS Integers, Sequences

CONSTANTS
  Sizes   \* the sizes asked for, in the order they are written

ASSUME SizesAssumption == Sizes \in Seq(STRING)

VARIABLES
  stage,   \* where the run is, see TypeOK
  backup,  \* is priv->backup_pixbuf set?
  pixbufs, \* references to frames that are held
  saved,   \* how many of Sizes this run has written
  result   \* what it returns: "none", "ready" or "error"

pipeVars == <<stage, backup, pixbufs, saved, result>>

PipeTypeOK ==
  /\ stage \in {"off", "paused", "playing", "cleanup", "done"}
  /\ backup \in BOOLEAN
  /\ pixbufs \in Nat
  /\ saved \in 0..Len(Sizes)
  /\ result \in {"none", "ready", "error"}

PipeInit ==
  /\ stage = "off"
  /\ backup = FALSE
  /\ pixbufs = 0
  /\ saved = 0
  /\ result = "none"

\* The call; initialize may fail, and nothing is taken down then.
Initialize ==
  /\ backup' = FALSE
  /\ saved' = 0
  /\ \/ stage' = "paused" /\ result' = "none"
     \/ stage' = "done" /\ result' = "error"
  /\ UNCHANGED pixbufs

Fails == result' = "error" /\ stage' = "cleanup"

\* wait_for_state_change, then the seek.
StateChanged ==
  /\ stage = "paused"
  /\ stage' = "playing"
  /\ UNCHANGED <<backup, pixbufs, saved, result>>

\* Time out, error or end of stream while waiting to be paused; time out,
\* error or a message without its frame while waiting for one.
WaitFails ==
  /\ stage \in {"paused", "playing"}
  /\ Fails
  /\ UNCHANGED <<backup, pixbufs, saved>>

\* create_thumbnails: the first n sizes are written, then one fails.
Complete(n) == n = Len(Sizes)
CreateThumbnails ==
  \E n \in 0..Len(Sizes) :
    /\ saved' = n
    /\ stage' = "cleanup"
    /\ result' = IF Complete(n) THEN "ready" ELSE "error"

GoodFrame ==
  /\ stage = "playing"
  /\ CreateThumbnails
  /\ UNCHANGED <<backup, pixbufs>>

\* The first dull frame is kept with the reference g_object_get gave.
KeptEach == pixbufs + 1
KeptOnce == IF backup THEN pixbufs ELSE pixbufs + 1
DullFrame ==
  /\ stage = "playing"
  /\ backup' = TRUE
  /\ pixbufs' = KeptOnce
  /\ UNCHANGED <<stage, saved, result>>

EndOfStream ==
  /\ stage = "playing"
  /\ IF backup
     THEN /\ CreateThumbnails
          /\ pixbufs' = pixbufs - 1
          /\ backup' = FALSE
     ELSE Fails /\ UNCHANGED <<saved, backup, pixbufs>>

Deinitialize ==
  /\ stage = "cleanup"
  /\ stage' = "done"
  /\ pixbufs' = IF backup THEN pixbufs - 1 ELSE pixbufs
  /\ backup' = FALSE
  /\ UNCHANGED <<saved, result>>

\* The caller has its answer.
Returned == stage' = "off" /\ saved' = 0 /\ result' = "none"

PipeWaits == StateChanged \/ WaitFails \/ GoodFrame \/ EndOfStream
PipeStep == PipeWaits \/ DullFrame \/ Deinitialize

-----------------------------------------------------------------------------
(* Properties.                                                               *)

\* A file is reported ready only if every size asked for has been written,
\* whichever frame it was made from (create_thumbnails).
ReadyMeansSaved == result = "ready" => saved = Len(Sizes)

\* Every frame taken from the sink is given back once by the time the run
\* returns, the backup too, whichever way the run ends (wait_for_image_buffer
\* and deinitialize).
FramesReleased ==
  /\ pixbufs = IF backup THEN 1 ELSE 0
  /\ stage \in {"off", "done"} => ~backup

\* However a run ends, with a frame, a time out, an error or the end of the
\* stream, it has kept its word and holds nothing (thumber_pipe_run).
RunEndsClean == ReadyMeansSaved /\ FramesReleased
=============================================================================
