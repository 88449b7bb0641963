------------------------------ MODULE Clients ------------------------------
(***************************************************************************)
(* The client libraries together: an application uses the requests of      *)
(* ThumbFactory, those of ArtRequests, or the older calls of one of the    *)
(* two libraries, Loads, and what must hold of a callback is stated for    *)
(* all of them.                                                            *)
(*                                                                         *)
(* Each behaviour is of one kind of client.  What has the same purpose in  *)
(* two modules is one variable here.                                       *)
(***************************************************************************)
EXTENDS ArtRequests

CONSTANT Kinds  \* the kinds of client looked at

ASSUME KindsAssumption == Kinds \subseteq {"loads", "art", "requests"}

VARIABLE client

clientVars == <<artSpecVars, client>>

Thumbs == INSTANCE ThumbFactory WITH
  key <- handleId,
  awaiting <- pending,
  refs <- realRefs

\* What ThumbFactory's steps have no part in.
notThumbs == <<lib, cancelling, freed, wait, cancelled, misread, madeVars,
               tableVars, info, outerRefs, artCalled>>

\* The hasty world is left to the loads: all but its joins is in the rough one.
ClientInit ==
  /\ Init
  /\ ArtInit
  /\ client \in Kinds
  /\ client # "loads" => lib = "thumbnail" /\ world # "hasty"

ClientNext ==
  /\ UNCHANGED client
  /\ \/ client = "loads" /\ Next /\ UNCHANGED artVars
     \/ client = "art" /\ ArtNext
     \/ client = "requests" /\ Thumbs!Next /\ UNCHANGED notThumbs

ClientSpec == ClientInit /\ [][ClientNext]_clientVars

-----------------------------------------------------------------------------
(* Properties.                                                               *)

\* A thumbnail request's reference count is the number of those who hold one:
\* the application, a call or idle source that will call back with it, the
\* table.  One unref too few and it is never finalized, one too many and a late
\* reply or Finished touches a finalized request.
RefsBalance == client = "requests" => Thumbs!RefsBalance

\* hildon-thumbnail-factory.h: "Waits until all queued requests in @self are
\* completed".  When the join of an application that waited for its replies
\* returns, each request was called back or unqueued.
JoinMeansCompleted == [][client = "requests" => Thumbs!JoinIsComplete]_clientVars

\* The same of album art: a request is then called back or unqueued, or is a
\* thumbnail request whose art has come and whose thumbnail is being loaded: for
\* that no join waits.
ArtJoinMeansCompleted == [][client = "art" => ArtJoinIsComplete]_clientVars
=============================================================================
