-------------------------- MODULE AnnouncePromise --------------------------
(***************************************************************************)
(* What the announcements promise a listener (announcer.h): they arrive in *)
(* the order in which they were made, each once at most and as it was      *)
(* made.  Any of them may be lost.  When a message was torn on its way,    *)
(* what comes behind it on the same connection may be anything.            *)
(***************************************************************************)
EXTENDS Integers, SequencesExt

VARIABLES
  made,          \* how many
  queue,         \* announced, and on its way
  received,
  torn           \* of the connection that there is

announcements == <<made, queue, received, torn>>

Start == made = 0 /\ queue = <<>> /\ received = <<>> /\ torn = FALSE

Announce == /\ made' = made + 1
            /\ queue' = queue \/ (queue' # <<>> /\ Front(queue') = queue)
            /\ UNCHANGED <<received, torn>>

\* Some of them are left, in the order they had.
Less ==
  /\ UNCHANGED made
  /\ \E at \in [DOMAIN queue' -> DOMAIN queue] :
       /\ \A j, k \in DOMAIN at : j < k => at[j] < at[k]
       /\ \A k \in DOMAIN at : queue'[k] = queue[at[k]]

Lose == Less /\ UNCHANGED <<received, torn>>

Take == /\ queue # <<>>
        /\ received' = Append(received, Head(queue)) /\ queue' = Tail(queue)
        /\ UNCHANGED <<made, torn>>

Tear == ~torn /\ torn' /\ Less /\ UNCHANGED received

Garbled == torn /\ torn' /\ Less /\ Front(received') = received

Renew == torn /\ ~torn' /\ Less /\ UNCHANGED received

AnnounceNext == Announce \/ Lose \/ Take \/ Tear \/ Garbled \/ Renew

AnnounceSpec == Start /\ [][AnnounceNext]_announcements

=============================================================================
