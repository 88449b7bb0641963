----------------------------- MODULE ThumbStore -----------------------------
(***************************************************************************)
(* The thumbnail files: what the pool threads write with the jpeg output   *)
(* plugin, what they and the main loop take from the files' times, and     *)
(* what Move, Copy, Delete and Cleanup do to the files meanwhile.          *)
(*                                                                         *)
(* A thumbnail carries the time of its original as its own modification    *)
(* time; everybody judges it by that.  The file gets its final name before *)
(* it gets that time, and the main loop exits when a volume is about to be *)
(* unmounted, wherever the pool threads are.                               *)
(*                                                                         *)
(* The bytes of an original are identified by the time they were written;  *)
(* an original is never replaced by an older one, which no test of times   *)
(* could tell.  One size of thumbnail is built, the cropped one.           *)
(***************************************************************************)
EXTENDS Integers

CONSTANTS
  Worker,    \* the pool threads
  Uri,
  None,      \* no file, nobody
  Tolerance, \* two times that differ by less are equal: 2 in the code
  FailAge,   \* a time this old is old enough to be believed: 5 in the code
  MaxTime,   \* bound: the clock stops
  MaxTakes,  \* bound: urls the workers take up
  MaxCalls,  \* bound: calls and exits of the main loop
  Original   \* bound: the uris at which applications keep a file

ASSUME StoreAssumption ==
  /\ Original \subseteq Uri
  /\ Tolerance \in Nat \ {0} /\ FailAge \in Nat /\ MaxTime \in Nat
  /\ MaxTakes \in Nat /\ MaxCalls \in Nat
  /\ None \notin Worker \cup Uri \cup Nat

Time == 0..MaxTime

VARIABLES
  now,      \* the clock, in seconds
  orig,     \* [Uri -> Time \cup {None}]: the original's modification time
  thumb,    \* [Uri -> Thumbnail \cup {None}]: the file at the final name
  tmp,      \* [Uri -> Thumbnail \cup {None}]: the file with .tmp appended
  mark,     \* [Uri -> Time \cup {None}]: the time of the fail file
  rows,     \* [Uri -> SUBSET Time]: MTime of the path's rows in meta.db
  lock,     \* the mutex of hildon-thumbnail-plugin.c: a worker or None
  work,     \* [Worker -> Work]
  do_cropped, \* the gdk-pixbuf plugin's DoCropping: whether it makes anything
  copying,  \* the copy of a thumbnail the main loop is making, or None
  takes,    \* for the bounds: urls taken up
  calls     \* and calls and exits so far

vars == <<now, orig, thumb, tmp, mark, rows, lock, work, do_cropped, copying,
          takes, calls>>
bounds == <<takes, calls>>
files == <<thumb, tmp, mark, rows>>
main == <<copying, do_cropped>>

\* mtime: the file's; shows: when the bytes it shows were written.
\* Histories: torn, something came between the file and its time; here, a
\* worker made it for this very path.
Thumbnail == [mtime : Time, shows : Time, torn : BOOLEAN, here : BOOLEAN]

\* mtime: the original's, as last read; shows: the version opened, then the one
\* decoded. History disturbed: somebody else changed the thumbnail meanwhile.
\* At uncropped nothing was decoded, and Ready is emitted all the same.
At == {"idle", "check", "stat", "ask", "opened", "decode", "out", "saved", "renamed",
       "recorded", "failed", "mark", "marked", "ready", "uncropped", "error"}
Work == [at : At, uri : Uri \cup {None}, mtime : Time, shows : Time,
         disturbed : BOOLEAN]

ASSUME NoneAssumption ==
  None \notin Thumbnail \cup [to : Uri, mtime : Time]

NoWork == [at |-> "idle", uri |-> None, mtime |-> 0, shows |-> 0,
           disturbed |-> FALSE]

TypeOK ==
  /\ now \in Time
  /\ orig \in [Uri -> Time \cup {None}]
  /\ thumb \in [Uri -> Thumbnail \cup {None}]
  /\ tmp \in [Uri -> Thumbnail \cup {None}]
  /\ mark \in [Uri -> Time \cup {None}]
  /\ rows \in [Uri -> SUBSET Time]
  /\ lock \in Worker \cup {None}
  /\ work \in [Worker -> Work]
  /\ \A w \in Worker : work[w].at # "idle" => work[w].uri \in Uri
  /\ do_cropped \in BOOLEAN
  /\ copying \in [to : Uri, mtime : Time] \cup {None}
  /\ takes \in 0..MaxTakes
  /\ calls \in 0..MaxCalls

Init ==
  /\ now = 0
  /\ orig = [u \in Uri |-> IF u \in Original THEN 0 ELSE None]
  /\ thumb = [u \in Uri |-> None]
  /\ tmp = [u \in Uri |-> None]
  /\ mark = [u \in Uri |-> None]
  /\ rows = [u \in Uri |-> {}]
  /\ lock = None
  /\ work = [w \in Worker |-> NoWork]
  /\ do_cropped \in BOOLEAN
  /\ copying = None
  /\ takes = 0
  /\ calls = 0

-----------------------------------------------------------------------------
(* How times are judged.                                                     *)

Near(s, t) == s - t < Tolerance /\ t - s < Tolerance

\* thumb_check: the thumbnail is there and has the original's time.
Valid(u, mtime) == thumb[u] # None /\ Near(thumb[u].mtime, mtime)

Believed(t, mtime) == Near(t, mtime) /\ t + FailAge < now

\* A fail file hides the thumbnail.
NeedsOut(u, mtime) ==
  IF mark[u] # None THEN ~Believed(mark[u], mtime)
                    ELSE ~(thumb[u] # None /\ Believed(thumb[u].mtime, mtime))

\* Without need for a thumbnail: Ready, or "Had error before".
RefusedNever(u) == "ready"
Verdict(u) == IF mark[u] = None THEN "ready" ELSE "error"

-----------------------------------------------------------------------------
(* A pool thread makes the thumbnail of one url.                             *)

Goto(w, to) == work' = [work EXCEPT ![w].at = to]
Step(w, from, to) == work[w].at = from /\ Goto(w, to)

\* The other threads that are busy with a url of S have been interfered with.
DisturbAll(W, S) ==
  [x \in Worker |-> [W[x] EXCEPT !.disturbed = @ \/ W[x].uri \in S]]
DisturbOthers(w, W, S) == [DisturbAll(W, S) EXCEPT ![w] = W[w]]

\* The url's turn in do_the_work: its time is read.
Take(w, u) ==
  /\ work[w].at = "idle"
  /\ takes < MaxTakes
  /\ takes' = takes + 1
  /\ \/ /\ orig[u] = None
        /\ work' = [work EXCEPT ![w].at = "error", ![w].uri = u]
     \/ /\ orig[u] # None
        /\ work' = [work EXCEPT ![w].at = "check", ![w].uri = u,
                                ![w].mtime = orig[u]]
  /\ UNCHANGED <<now, orig, files, lock, main, calls>>

CheckThumb(w) ==
  /\ Step(w, "check",
          IF Valid(work[w].uri, work[w].mtime) THEN "ready" ELSE "stat")
  /\ UNCHANGED <<now, orig, files, lock, main, bounds>>

\* The plugin reads the original's time again, or cannot, or declines it
\* (moving pictures, files that are too large).
StatNow(w) == now
StatMtime(w) == orig[work[w].uri]

Stat(w) ==
  /\ work[w].at = "stat"
  /\ \/ Goto(w, "failed")
     \/ /\ orig[work[w].uri] # None
        /\ work' = [work EXCEPT ![w].at = "ask", ![w].mtime = StatMtime(w)]
  /\ UNCHANGED <<now, orig, files, lock, main, bounds>>

\* needs_out, then the original is opened.
Ask(w) ==
  LET u == work[w].uri IN
  /\ work[w].at = "ask"
  /\ lock = None
  /\ \/ ~NeedsOut(u, work[w].mtime) /\ Goto(w, Verdict(u))
     \/ NeedsOut(u, work[w].mtime) /\ orig[u] = None /\ Goto(w, "failed")
     \/ /\ NeedsOut(u, work[w].mtime) /\ orig[u] # None
        /\ work' = [work EXCEPT ![w].at = "opened", ![w].shows = orig[u]]
  /\ UNCHANGED <<now, orig, files, lock, main, bounds>>

\* Only the cropped size is built: without it nothing is left to be done.
Cropped(w) ==
  /\ Step(w, "opened", IF do_cropped THEN "decode" ELSE "uncropped")
  /\ UNCHANGED <<now, orig, files, lock, main, bounds>>

Bytes(w) == {work[w].shows, orig[work[w].uri]} \ {None}

\* needs_out again; then the bytes are read, those opened or, if the file has
\* been written to since, the present ones, and may make no picture.
Decode(w) ==
  LET u == work[w].uri IN
  /\ work[w].at = "decode"
  /\ lock = None
  /\ \/ ~NeedsOut(u, work[w].mtime) /\ Goto(w, Verdict(u))
     \/ /\ NeedsOut(u, work[w].mtime)
        /\ \/ Goto(w, "failed")
           \/ \E t \in Bytes(w) :
                work' = [work EXCEPT ![w].at = "out", ![w].shows = t]
  /\ UNCHANGED <<now, orig, files, lock, main, bounds>>

\* hildon_thumbnail_outplugins_do_out keeps the mutex from here to Utime.
LockFree == lock = None

Save(w) ==
  /\ LockFree
  /\ Step(w, "out", "saved")
  /\ lock' = w
  /\ tmp' = [tmp EXCEPT ![work[w].uri] =
               [mtime |-> now, shows |-> work[w].shows,
                torn |-> FALSE, here |-> TRUE]]
  /\ UNCHANGED <<now, orig, thumb, mark, rows, main, bounds>>

\* The picture cannot be saved: put_error with the time at hand.
SaveFails(w) ==
  /\ lock = None
  /\ Step(w, "out", "failed")
  /\ mark' = [mark EXCEPT ![work[w].uri] = work[w].mtime]
  /\ UNCHANGED <<now, orig, thumb, tmp, rows, lock, main, bounds>>

\* The file t under a name.
Placed(t, torn, here) ==
  [mtime |-> t.mtime, shows |-> t.shows, torn |-> torn, here |-> here]

\* A file that has gone in the meantime gets no time.
SetTime(u, t) ==
  \/ thumb[u] = None /\ UNCHANGED thumb
  \/ thumb[u] # None /\ thumb' = [thumb EXCEPT ![u].mtime = t]

Rename(w) ==
  LET u == work[w].uri IN
  /\ work[w].at = "saved"
  /\ work' = DisturbOthers(w, [work EXCEPT ![w].at = "renamed"], {u})
  /\ \/ tmp[u] = None /\ UNCHANGED thumb
     \/ /\ tmp[u] # None
        /\ thumb' = [thumb EXCEPT ![u] =
                       Placed(tmp[u], copying # None /\ copying.to = u, TRUE)]
  /\ tmp' = [tmp EXCEPT ![u] = None]
  /\ UNCHANGED <<now, orig, mark, rows, lock, main, bounds>>

\* The rows of the path are deleted and one is inserted.
KeepOldRow(old, t) == old \cup {t}
NewRow(old, t) == {t}

Record(w) ==
  /\ Step(w, "renamed", "recorded")
  /\ rows' = [rows EXCEPT ![work[w].uri] = NewRow(@, work[w].mtime)]
  /\ UNCHANGED <<now, orig, thumb, tmp, mark, lock, main, bounds>>

Utime(w) ==
  LET u == work[w].uri IN
  /\ work[w].at = "recorded"
  /\ work' = DisturbOthers(w, [work EXCEPT ![w].at = "ready"], {u})
  /\ SetTime(u, work[w].mtime)
  /\ lock' = None
  /\ UNCHANGED <<now, orig, tmp, mark, rows, main, bounds>>

\* nerror_handler: the time for the fail file is read anew.
FailStat(w) ==
  /\ work[w].at = "failed"
  /\ \/ orig[work[w].uri] = None /\ Goto(w, "error")
     \/ /\ orig[work[w].uri] # None
        /\ work' = [work EXCEPT ![w].at = "mark",
                                ![w].mtime = orig[work[w].uri]]
  /\ UNCHANGED <<now, orig, files, lock, main, bounds>>

\* put_error: the fail file is created, then it gets its time.
Mark(w) ==
  /\ lock = None
  /\ Step(w, "mark", "marked")
  /\ lock' = w
  /\ mark' = [mark EXCEPT ![work[w].uri] = now]
  /\ UNCHANGED <<now, orig, thumb, tmp, rows, main, bounds>>

MarkTime(w) ==
  /\ Step(w, "marked", "error")
  /\ lock' = None
  /\ mark' = [mark EXCEPT ![work[w].uri] = work[w].mtime]
  /\ UNCHANGED <<now, orig, thumb, tmp, rows, main, bounds>>

\* Ready or Error is emitted for the url.
Report(w) ==
  /\ work[w].at \in {"ready", "uncropped", "error"}
  /\ work' = [work EXCEPT ![w] = NoWork]
  /\ UNCHANGED <<now, orig, files, lock, main, bounds>>

-----------------------------------------------------------------------------
(* The main loop: D-Bus calls on the files, and its exit.                    *)

\* The main loop is free for another call.
Called == copying = None /\ calls < MaxCalls /\ calls' = calls + 1

\* Between its rename and its utime a thumbnail has the time of its making.
Window(u) == \E w \in Worker : /\ work[w].at \in {"renamed", "recorded"}
                               /\ work[w].uri = u

\* What is brought from u to v may not keep its time, or get another's.
Parted(u, v) == thumb[u].torn \/ Window(u) \/ Window(v)

Move(u, v) ==
  /\ Called
  /\ u # v /\ thumb[u] # None
  /\ thumb' = [thumb EXCEPT ![u] = None,
                 ![v] = Placed(thumb[u], Parted(u, v), FALSE)]
  /\ work' = DisturbAll(work, {u, v})
  /\ UNCHANGED <<now, orig, tmp, mark, rows, lock, main, takes>>

\* g_file_copy writes the bytes, then sets the time.
Copy(u, v) ==
  /\ Called
  /\ u # v /\ thumb[u] # None
  /\ thumb' = [thumb EXCEPT
                 ![v] = [Placed(thumb[u], Parted(u, v), FALSE)
                           EXCEPT !.mtime = now]]
  /\ copying' = [to |-> v, mtime |-> thumb[u].mtime]
  /\ work' = DisturbAll(work, {v})
  /\ UNCHANGED <<now, orig, tmp, mark, rows, lock, do_cropped, takes>>

CopyTime ==
  /\ copying # None
  /\ SetTime(copying.to, copying.mtime)
  /\ copying' = None
  /\ work' = DisturbAll(work, {copying.to})
  /\ UNCHANGED <<now, orig, tmp, mark, rows, lock, do_cropped, bounds>>

Delete(u) ==
  /\ Called
  /\ thumb[u] # None
  /\ thumb' = [thumb EXCEPT ![u] = None]
  /\ work' = DisturbAll(work, {u})
  /\ UNCHANGED <<now, orig, tmp, mark, rows, lock, main, takes>>

\* MTime <= '%u': the column has no type, MTime was inserted as a number and
\* since is a string, and SQLite orders every number before every string.
SqlAtMost(mtime, since) == TRUE

RowsKept(U, since) ==
  [u \in Uri |-> {t \in rows[u] : ~(u \in U /\ SqlAtMost(t, since))}]

\* U: the originals whose uri begins with the prefix. All fail files go, and
\* every file that has a row to delete.
Cleanup(U, since) ==
  /\ Called
  /\ lock = None
  /\ mark' = [u \in Uri |-> None]
  /\ rows' = RowsKept(U, since)
  /\ thumb' = [u \in Uri |-> IF RowsKept(U, since)[u] # rows[u] THEN None
                             ELSE thumb[u]]
  /\ work' = DisturbAll(work, {u \in Uri : thumb'[u] # thumb[u]})
  /\ UNCHANGED <<now, orig, tmp, lock, main, takes>>

\* reload_config, from on_file_changed in the main loop; a file without the key
\* leaves FALSE, for a moment, before it becomes TRUE.
ReloadConfig ==
  /\ Called
  /\ do_cropped' = ~do_cropped
  /\ UNCHANGED <<now, orig, files, lock, work, copying, takes>>

\* A volume is about to be unmounted: exit(0), and the next request starts a
\* new process, which reads the configuration as it then is.
Exit ==
  /\ Called
  /\ work' = [w \in Worker |-> NoWork]
  /\ lock' = None
  /\ thumb' = [u \in Uri |-> IF thumb[u] # None /\ Window(u)
                             THEN Placed(thumb[u], TRUE, thumb[u].here)
                             ELSE thumb[u]]
  /\ do_cropped' \in BOOLEAN
  /\ UNCHANGED <<now, orig, tmp, mark, rows, copying, takes>>

-----------------------------------------------------------------------------
(* Applications and the clock.                                               *)

Write(u) ==
  /\ orig[u] # now
  /\ orig' = [orig EXCEPT ![u] = now]
  /\ UNCHANGED <<now, files, lock, work, main, bounds>>

Remove(u) ==
  /\ orig[u] # None
  /\ orig' = [orig EXCEPT ![u] = None]
  /\ UNCHANGED <<now, files, lock, work, main, bounds>>

Tick ==
  /\ now < MaxTime
  /\ now' = now + 1
  /\ UNCHANGED <<orig, files, lock, work, main, bounds>>

WorkerStep(w) ==
  \/ \E u \in Uri : Take(w, u)
  \/ CheckThumb(w) \/ Stat(w) \/ Ask(w) \/ Cropped(w) \/ Decode(w)
  \/ Save(w) \/ SaveFails(w) \/ Rename(w) \/ Record(w) \/ Utime(w)
  \/ FailStat(w) \/ Mark(w) \/ MarkTime(w) \/ Report(w)

Call ==
  \/ \E u, v \in Uri : Move(u, v) \/ Copy(u, v)
  \/ CopyTime
  \/ \E u \in Uri : Delete(u)
  \/ \E U \in SUBSET Uri, since \in Time : Cleanup(U, since)
  \/ ReloadConfig

Environment ==
  \/ Exit
  \/ \E u \in Original : Write(u) \/ Remove(u)
  \/ Tick

Next == (\E w \in Worker : WorkerStep(w)) \/ Call \/ Environment

Spec == Init /\ [][Next]_vars

-----------------------------------------------------------------------------
(* Properties.                                                               *)

Settled(u) == ~Window(u) /\ (copying = None \/ copying.to # u)

\* A thumbnail that passes the test of times shows the original, or what it
\* was less than Tolerance earlier: the time a worker gives a thumbnail is read
\* before the bytes are (gdkpixbuf-plugin.c, hildon_thumbnail_plugin_create),
\* and only an exit, a Move or a Copy between the rename and the utime of
\* hildon_thumbnail_outplugin_out, or a worker that renames into a Copy, can
\* part a thumbnail from its time.
ValidIsFresh ==
  \A u \in Uri :
    (/\ orig[u] # None /\ Valid(u, orig[u])
     /\ Settled(u) /\ ~thumb[u].torn) =>
        thumb[u].shows > orig[u] - Tolerance

\* When Ready is emitted for a url and nobody else touched its thumbnail since
\* the thread took the url, there is a thumbnail and it shows what the
\* original was when its time was last read: neither a fail file nor a
\* failure on the way is ever reported as Ready (do_the_work and
\* hildon_thumbnail_plugin_create).  The one exception is a url that needs a
\* thumbnail, with an original that can be opened, while DoCropping is off: it is
\* reported Ready with none made ("uncropped").
ReadyIsFresh ==
  \A w \in Worker :
    (work[w].at = "ready" /\ ~work[w].disturbed) =>
      LET u == work[w].uri IN
      /\ thumb[u] # None
      /\ Settled(u) /\ ~thumb[u].torn =>
           thumb[u].shows > work[w].mtime - Tolerance

\* Cleanup can find what the workers made: a thumbnail made for its path has
\* exactly one row there, with its own time (the delete and the insert of
\* hildon_thumbnail_outplugin_out and the deletes of
\* hildon_thumbnail_outplugin_cleanup).
RowsMatchFiles ==
  \A u \in Uri :
    (thumb[u] # None /\ thumb[u].here /\ ~thumb[u].torn /\ Settled(u)) =>
        rows[u] = {thumb[u].mtime}

\* Cleanup removes old thumbnails: one that it removes is no younger than the
\* caller said (hildon_thumbnail_outplugin_cleanup).
CleanupSparesYounger ==
  [][\A since \in Time : (\E U \in SUBSET Uri : Cleanup(U, since)) =>
       \A u \in Uri : (thumb[u] # None /\ thumb[u].here /\ thumb'[u] = None)
                        => thumb[u].mtime <= since]_vars
=============================================================================
