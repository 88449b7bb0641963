------------------------------ MODULE Formats ------------------------------
(***************************************************************************)
(* Two output plugins, png and jpeg: a thumbnail may exist in two files.   *)
(*                                                                         *)
(* Who makes them: a pool thread with the gdk-pixbuf plugin, which goes    *)
(* through the list of output plugins (daemon/hildon-thumbnail-plugin.c)   *)
(* and skips those that are not active, while the main loop reads their    *)
(* configurations again.  Who looks at them: the thread before it calls a  *)
(* plugin, and the two kinds of requests of the client library, by tests   *)
(* that differ.  Who removes them: the client's clean_cache.               *)
(*                                                                         *)
(* Abstracted: one url and one size of thumbnail; a plugin's writing of a  *)
(* file is one step (ThumbStore takes it apart).  An original written in   *)
(* second t has time t, and is written once in a second.                   *)
(***************************************************************************)
EXTENDS Integers, Sequences, FiniteSets, SequencesExt

CONSTANTS
  None,
  Tolerance, \* two times that differ by less are equal: 2 in the code
  FailAge,   \* the age the jpeg plugin believes: 5 in the code
  MaxTime,   \* bound: the clock stops
  MaxAsks,   \* bound: requests of the application
  MaxTurns,  \* bound: configurations read again, or caches cleaned
  CleanArgs, \* bound: what clean_cache is called with, <<max_size, since>>
  Others,    \* bound: thumbnails of other urls, [mtime, size]
  SizeOf,    \* bound: [Format -> the size of its file]
  Width      \* bits of an int

Format == {"png", "jpeg"}
Time == 0..MaxTime

ASSUME FormatsAssumption ==
  /\ None \notin Nat /\ None \notin [mtime : Time, shows : Time]
  /\ Tolerance \in Nat \ {0} /\ FailAge \in Nat
  /\ MaxTime \in Nat /\ MaxAsks \in Nat /\ MaxTurns \in Nat
  /\ Width \in Nat \ {0}
  /\ SizeOf \in [Format -> Nat]
  /\ CleanArgs \subseteq Int \X Int
  /\ Others \subseteq [mtime : Time, size : Nat] /\ IsFiniteSet(Others)

VARIABLES
  now,     \* the clock, in seconds
  orig,    \* the time of the original, which identifies its bytes
  plugs,   \* outplugs: the formats in the order of the list
  active,  \* the formats whose is_active says so
  do_cropped, \* the gdk-pixbuf plugin's DoCropping: whether it makes anything
  thumb,   \* [Format -> the file or None]
  mark,    \* [Format -> the time of the fail file or None]
  others,  \* thumbnails of other urls
  work,    \* the pool thread
  client,  \* the application's request
  asks,    \* for the bounds: requests so far,
  turns    \* and the others' turns

vars == <<now, orig, plugs, active, do_cropped, thumb, mark, others, work, client,
          asks, turns>>
files == <<thumb, mark, others>>
clock == <<now, orig, plugs>>
world == <<clock, active, do_cropped, turns>>

\* mtime: the file's; shows: the bytes it was made from.
File == [mtime : Time, shows : Time]

\* The thread: where it is and at which plugin of the list, the original's time
\* as it read it, the bytes it decoded, what needs_out returned, *err_file and
\* whether nerror is set.
At == {"idle", "stat", "ask", "open", "again", "out", "failed", "put"}
Work == [at : At, pos : 1..3, mtime : Time, shows : Time \cup {None}, need : BOOLEAN,
         errFile : BOOLEAN, nerror : BOOLEAN]

NoWork == [at |-> "idle", pos |-> 1, mtime |-> 0, shows |-> None, need |-> FALSE,
           errFile |-> FALSE, nerror |-> FALSE]

\* The request: of which kind, the file it was made for if all is there, who
\* answered it and how ("uncropped": the plugin, without decoding what it had
\* opened), and what its callback was given.  Histories: since, the
\* original's time when it was made; mtime, as the thread read it; stable, no
\* configuration was read and no file removed since.
Client == [at : {"idle", "cached", "asked", "answered", "shown"},
           kind : {"load", "request"}, path : Format, answer : {"none", "ready", "error"},
           by : {"nobody", "gate", "plugin", "uncropped"}, shown : File \cup {None}, since : Time,
           mtime : Time, stable : BOOLEAN]

NoRequest == [at |-> "idle", kind |-> "load", path |-> "jpeg", answer |-> "none",
              by |-> "nobody", shown |-> None, since |-> 0, mtime |-> 0, stable |-> TRUE]

TypeOK ==
  /\ now \in Time
  /\ orig \in 0..now
  /\ plugs \in [1..2 -> Format] /\ IsInjective(plugs)
  /\ active \subseteq Format
  /\ do_cropped \in BOOLEAN
  /\ thumb \in [Format -> File \cup {None}]
  /\ mark \in [Format -> Time \cup {None}]
  /\ others \subseteq Others
  /\ work \in Work
  /\ client \in Client
  /\ asks \in 0..MaxAsks
  /\ turns \in 0..MaxTurns

Init ==
  /\ now = 0
  /\ orig = 0
  /\ plugs \in SetToSeqs(Format)
  /\ active \in SUBSET Format
  /\ do_cropped \in BOOLEAN
  /\ thumb = [f \in Format |-> None]
  /\ mark = [f \in Format |-> None]
  /\ others = Others
  /\ work = NoWork
  /\ client = NoRequest
  /\ asks = 0
  /\ turns = 0

-----------------------------------------------------------------------------
(* How files are judged.                                                     *)

Near(s, t) == s - t < Tolerance /\ t - s < Tolerance

\* new_enough of the client library: to the second.
NewEnough(f) == thumb[f] # None /\ thumb[f].mtime = orig

\* The fail file hides the thumbnail.
Judged(f) ==
  IF mark[f] # None THEN mark[f] ELSE IF thumb[f] # None THEN thumb[f].mtime ELSE None

\* The needs_out functions of the plugins: jpeg disregards what is young.
NeedsOut(f, mtime) ==
  ~ /\ Judged(f) # None
    /\ Near(Judged(f), mtime)
    /\ f = "jpeg" => Judged(f) + FailAge < now

-----------------------------------------------------------------------------
(* The application's requests: the older load, and the request objects.      *)

\* png is looked at first, then jpeg.
Cached == NewEnough("png") \/ NewEnough("jpeg")
CachedPath == IF NewEnough("png") THEN "png" ELSE "jpeg"

\* After the answer each kind opens the file it prefers, if it is there.
Preferred(kind) == IF kind = "load" THEN "jpeg" ELSE "png"
Other(f) == CHOOSE g \in Format : g # f
PathOf(kind) ==
  IF thumb[Preferred(kind)] # None THEN Preferred(kind) ELSE Other(Preferred(kind))

\* recreate: the flag of load, which unlinks the thumbnail it found, or jpeg.
Ask(kind, recreate) ==
  /\ client.at \in {"idle", "shown"}
  /\ work.at = "idle"
  /\ asks < MaxAsks
  /\ asks' = asks + 1
  /\ recreate => kind = "load"
  /\ client' = [NoRequest EXCEPT
       !.kind = kind, !.path = CachedPath, !.since = orig,
       !.at = IF Cached /\ ~recreate THEN "cached" ELSE "asked"]
  /\ thumb' = IF recreate THEN [thumb EXCEPT ![CachedPath] = None] ELSE thumb
  /\ UNCHANGED <<world, mark, others, work>>

\* The idle source: load opens the file it tested, the other kind looks for the
\* files again.
ShowCached ==
  /\ client.at = "cached"
  /\ client' = [client EXCEPT !.at = "shown",
       !.shown = thumb[IF client.kind = "load" THEN client.path
                                               ELSE PathOf(client.kind)]]
  /\ UNCHANGED <<world, files, work, asks>>

\* Finished has come.
ShowAnswered ==
  /\ client.at = "answered"
  /\ client' = [client EXCEPT !.at = "shown", !.shown = thumb[PathOf(client.kind)]]
  /\ UNCHANGED <<world, files, work, asks>>

-----------------------------------------------------------------------------
(* The pool thread.                                                          *)

Answered(answer, by, mtime) ==
  /\ client' = [client EXCEPT !.at = "answered", !.answer = answer, !.by = by,
                              !.mtime = mtime]
  /\ work' = NoWork

\* do_the_work tests the jpeg file, twice.
GateUntimed == thumb["jpeg"] # None
Gate == thumb["jpeg"] # None /\ Near(thumb["jpeg"].mtime, orig)

Take ==
  /\ client.at = "asked"
  /\ work.at = "idle"
  /\ IF Gate THEN Answered("ready", "gate", orig)
             ELSE work' = [work EXCEPT !.at = "stat"] /\ UNCHANGED client
  /\ UNCHANGED <<world, files, asks>>

\* The plugin reads the original's time, or gives the url up.
Stat ==
  /\ work.at = "stat"
  /\ \/ work' = [work EXCEPT !.at = "ask", !.mtime = orig]
     \/ work' = [work EXCEPT !.at = "failed", !.nerror = TRUE]
  /\ UNCHANGED <<world, files, client, asks>>

\* A loop over the list in state at: Visit for a plugin that is active.
InList == work.pos <= Len(plugs)
Plug == plugs[work.pos]
Skipped == [work EXCEPT !.pos = @ + 1]

\* hildon_thumbnail_outplugins_needs_out, at "ask" and at "again": the first
\* that says TRUE ends the loop.  *err_file stays set by one before it.
LastNeed(w, need) == [w EXCEPT !.pos = @ + 1, !.need = need]
Needed(w, need) == IF need THEN [w EXCEPT !.pos = 3, !.need = TRUE]
                           ELSE [w EXCEPT !.pos = @ + 1]

NeedsOutLoop ==
  /\ work.at \in {"ask", "again"}
  /\ InList
  /\ LET need == NeedsOut(Plug, work.mtime)
         hidden == ~need /\ mark[Plug] # None
     IN work' = IF Plug \in active
                THEN Needed([work EXCEPT !.errFile = @ \/ hidden], need)
                ELSE Skipped
  /\ UNCHANGED <<world, files, client, asks>>

\* No plugin needs the picture, which is said twice over: the url is done.
Verdict == IF work.errFile THEN "error" ELSE "ready"

NotNeeded ==
  /\ work.at \in {"ask", "again"}
  /\ ~InList
  /\ ~work.need
  /\ Answered(Verdict, "plugin", work.mtime)
  /\ UNCHANGED <<world, files, asks>>

\* It is opened, and asked again; then it is decoded.
Open ==
  /\ work.at = "ask"
  /\ ~InList
  /\ work.need
  /\ \/ do_cropped /\ work' = [work EXCEPT !.at = "again", !.pos = 1, !.need = FALSE]
     \/ work' = [work EXCEPT !.at = "failed", !.nerror = TRUE]
  /\ UNCHANGED <<world, files, client, asks>>

\* Without cropping, and with no other size built, the url is done as it is.
NotCropped ==
  /\ work.at = "ask"
  /\ ~InList
  /\ work.need
  /\ ~do_cropped
  /\ Answered(Verdict, "uncropped", work.mtime)
  /\ UNCHANGED <<world, files, asks>>

Decode ==
  /\ work.at = "again"
  /\ ~InList
  /\ work.need
  /\ \/ work' = [work EXCEPT !.at = "out", !.pos = 1, !.shows = orig]
     \/ work' = [work EXCEPT !.at = "failed", !.nerror = TRUE]
  /\ UNCHANGED <<world, files, client, asks>>

\* hildon_thumbnail_outplugins_do_out: all that are active, whatever fails.
Out(f) ==
  \/ /\ thumb' = [thumb EXCEPT ![f] = [mtime |-> work.mtime, shows |-> work.shows]]
     /\ work' = Skipped
     /\ UNCHANGED mark
  \/ /\ mark' = [mark EXCEPT ![f] = work.mtime]
     /\ work' = [Skipped EXCEPT !.nerror = TRUE]
     /\ UNCHANGED thumb

DoOutLoop ==
  /\ work.at = "out"
  /\ InList
  /\ IF Plug \in active THEN Out(Plug) ELSE work' = Skipped /\ UNCHANGED <<thumb, mark>>
  /\ UNCHANGED <<world, others, client, asks>>

DoneOut ==
  /\ work.at = "out"
  /\ ~InList
  /\ IF work.nerror THEN work' = [work EXCEPT !.at = "failed"] /\ UNCHANGED client
     ELSE Answered(Verdict, "plugin", work.mtime)
  /\ UNCHANGED <<world, files, asks>>

\* At nerror_handler with an error: put_error with the time of now, unless an
\* earlier error was found or the original is not there.
Failed ==
  /\ work.at = "failed"
  /\ \/ Answered("error", "plugin", work.mtime)
     \/ /\ ~work.errFile
        /\ work' = [work EXCEPT !.at = "put", !.pos = 1, !.mtime = orig]
        /\ UNCHANGED client
  /\ UNCHANGED <<world, files, asks>>

PutErrorLoop ==
  /\ work.at = "put"
  /\ InList
  /\ mark' = IF Plug \in active THEN [mark EXCEPT ![Plug] = work.mtime] ELSE mark
  /\ work' = Skipped
  /\ UNCHANGED <<world, thumb, others, client, asks>>

DonePut ==
  /\ work.at = "put"
  /\ ~InList
  /\ Answered("error", "plugin", work.mtime)
  /\ UNCHANGED <<world, files, asks>>

Thread ==
  \/ Take \/ Stat \/ NeedsOutLoop \/ NotNeeded \/ Open \/ NotCropped
  \/ Decode \/ DoOutLoop \/ DoneOut \/ Failed \/ PutErrorLoop \/ DonePut

-----------------------------------------------------------------------------
(* Everybody else.                                                           *)

\* reload_config of an output plugin, from on_file_changed in the main loop: a file
\* that cannot be read leaves jpeg active and png not.  The mutex of the list is
\* not taken.
ReloadConfig(f) ==
  /\ turns < MaxTurns
  /\ turns' = turns + 1
  /\ active' = IF f \in active THEN active \ {f} ELSE active \cup {f}
  /\ client' = [client EXCEPT !.stable = FALSE]
  /\ UNCHANGED <<clock, do_cropped, files, work, asks>>

\* That of the gdk-pixbuf plugin; a file without the key leaves FALSE, for a
\* moment, before it becomes TRUE.
ReloadCropping ==
  /\ turns < MaxTurns
  /\ turns' = turns + 1
  /\ do_cropped' = ~do_cropped
  /\ UNCHANGED <<clock, active, files, work, client, asks>>

Write ==
  /\ orig < now
  /\ orig' = now
  /\ UNCHANGED <<now, plugs, active, do_cropped, turns, files, work, client, asks>>

Tick ==
  /\ now < MaxTime
  /\ now' = now + 1
  /\ UNCHANGED <<orig, plugs, active, do_cropped, turns, files, work, client, asks>>

-----------------------------------------------------------------------------
(* hildon_thumbnail_factory_clean_cache.                                     *)

Half == 2 ^ (Width - 1)
Wrapped(n) == ((n + Half) % (2 * Half)) - Half

\* read_cache_dir: the thumbnails, not the fail files, which are one directory
\* further down.
CacheFiles ==
  {[name |-> f, mtime |-> thumb[f].mtime, size |-> SizeOf[f]] :
     f \in {g \in Format : thumb[g] # None}}
  \cup {[name |-> "other", mtime |-> o.mtime, size |-> o.size] : o \in others}

OldestFirst(a, b) == a.mtime <= b.mtime
NewestFirst(a, b) == a.mtime >= b.mtime

\* The sum of the sizes up to each file is an int.
Sums(s) ==
  LET sum[i \in 0..Len(s)] == IF i = 0 THEN 0 ELSE Wrapped(sum[i - 1] + s[i].size)
  IN sum

Unlinked(s, maxSize, minMtime) ==
  {s[i] : i \in {j \in DOMAIN s : \/ maxSize >= 0 /\ Sums(s)[j] >= maxSize
                                  \/ s[j].mtime < minMtime}}

Sorted(s) == \A i, j \in DOMAIN s : i < j => NewestFirst(s[i], s[j])

CleanCache(maxSize, minMtime) ==
  /\ turns < MaxTurns
  /\ turns' = turns + 1
  /\ \E s \in {u \in SetToSeqs(CacheFiles) : Sorted(u)} :
       LET gone == Unlinked(s, maxSize, minMtime) IN
       /\ thumb' = [f \in Format |->
            IF \E g \in gone : g.name = f THEN None ELSE thumb[f]]
       /\ others' = {o \in others :
            \A g \in gone : g # [name |-> "other", mtime |-> o.mtime, size |-> o.size]}
  /\ client' = [client EXCEPT !.stable = FALSE]
  /\ UNCHANGED <<clock, active, do_cropped, mark, work, asks>>

Next ==
  \/ \E kind \in {"load", "request"}, b \in BOOLEAN : Ask(kind, b)
  \/ ShowCached \/ ShowAnswered
  \/ Thread
  \/ \E f \in Format : ReloadConfig(f)
  \/ ReloadCropping
  \/ \E a \in CleanArgs : CleanCache(a[1], a[2])
  \/ Write \/ Tick

Spec == Init /\ [][Next]_vars

-----------------------------------------------------------------------------
(* Properties.                                                               *)

Fresh(file, t) == file # None /\ file.shows > t - Tolerance

\* A url that a plugin reports ready has a thumbnail of the original in each of
\* the active formats, in whatever order the plugins are asked, and whatever is
\* left of earlier successes and failures of each: the first plugin that needs
\* the picture decides, and all of them write it.  (And the state is well typed.)
\* It says nothing of what is reported ready without being decoded, DoCropping being
\* off, of which there may be no thumbnail at all.
ReadyMeansMade ==
  /\ TypeOK
  /\ client.at = "answered" /\ client.answer = "ready" /\ client.by = "plugin" /\ client.stable =>
       \A f \in active : Fresh(thumb[f], client.mtime) /\ Near(thumb[f].mtime, client.mtime)

\* An application is shown the original as it was when it asked, give or take what
\* the times tell.  What was tested and what is opened is not always the same file:
\* the leftover of the format the client prefers, which failed since or is no
\* longer made, is opened while it lies there; the file of the other format would
\* then have shown the original.  (Two kinds of answers of a plugin are left out: with no
\* format active every url is reported ready and none is made, and with DoCropping off
\* what needs a thumbnail is reported ready and not made.)
ShownIsFresh ==
  /\ client.at = "shown" /\ client.answer # "error" /\ client.stable
  /\ client.by # "uncropped"
  /\ client.by = "plugin" => active # {}
  =>
    \/ Fresh(client.shown, client.since)
    \/ LET f == Preferred(client.kind) IN
       /\ thumb[f] # None /\ client.shown = thumb[f]
       /\ Fresh(thumb[Other(f)], client.since)

\* hildon-thumbnail-factory.h: clean_cache "deletes oldest entries first" down to
\* "Maximum size of cache in bytes", if the files' sizes add up to an int.
Total(S) == FoldSet(LAMBDA x, n : x.size + n, 0, S)

CleanCacheKeepsNewest ==
  [][\A a \in CleanArgs : CleanCache(a[1], a[2]) /\ Total(CacheFiles) < Half =>
       /\ \A x \in CacheFiles \ CacheFiles', y \in CacheFiles' : x.mtime <= y.mtime
       /\ a[1] > 0 => Total(CacheFiles') < a[1]
       /\ a[1] = 0 => CacheFiles' = {}]_vars
=============================================================================
