-------------------------------- MODULE Feed --------------------------------
(***************************************************************************)
(* What the cache, the dispatcher and the websocket handlers promise to    *)
(* the web clients: a client that joins is shown the cache as it is, and   *)
(* then every change of it, in the order in which they were made, none     *)
(* skipped and none twice, until it leaves or is dropped; a client that is *)
(* dropped is shown nothing that comes after a change it misses.           *)
(* Capacities, locks and the order in which goroutines run are not spoken  *)
(* of.                                                                     *)
(***************************************************************************)
EXTENDS Sequences, SequencesExt

CONSTANTS Keys, Values, Nothing, Clients

VARIABLES
  cache,      \* the data of each device
  recent,     \* changes that whoever joins now is shown once more
  followers,  \* clients that every change is promised to
  feed,       \* the changes each client is still to be shown, oldest first
  phase,      \* "away", "joined", or "watching" once it has been shown the cache
  shown       \* what a watching client was last shown of each device

vars == <<cache, recent, followers, feed, phase, shown>>

Blank == [k \in Keys |-> Nothing]

Init ==
  /\ cache = Blank
  /\ recent = <<>>
  /\ followers = {}
  /\ feed = [c \in Clients |-> <<>>]
  /\ phase = [c \in Clients |-> "away"]
  /\ shown = [c \in Clients |-> Blank]

\* A device's data changes, at once for everybody.
Change(k, v) ==
  /\ cache[k] # v
  /\ cache' = [cache EXCEPT ![k] = v]
  /\ LET e == [source |-> k, data |-> v] IN
       /\ recent' = Append(recent, e)
       /\ feed' = [c \in Clients |-> IF c \in followers THEN Append(feed[c], e) ELSE feed[c]]
  /\ UNCHANGED <<followers, phase, shown>>

\* A change is no longer recent; clients that are too slow are dropped, and
\* lose the end of their feed.
Pass(dropped) ==
  /\ recent # <<>>
  /\ recent' = Tail(recent)
  /\ dropped \subseteq followers
  /\ followers' = followers \ dropped
  /\ feed' = [c \in Clients |-> IF c \in dropped THEN feed'[c] ELSE feed[c]]
  /\ \A c \in dropped : IsPrefix(feed'[c], feed[c])
  /\ UNCHANGED <<cache, phase, shown>>

Join(c) ==
  /\ phase[c] = "away"
  /\ phase' = [phase EXCEPT ![c] = "joined"]
  /\ followers' = followers \union {c}
  /\ feed' = [feed EXCEPT ![c] = recent]
  /\ UNCHANGED <<cache, recent, shown>>

\* The whole cache is shown.
ShowAll(c) ==
  /\ phase[c] = "joined"
  /\ phase' = [phase EXCEPT ![c] = "watching"]
  /\ shown' = [shown EXCEPT ![c] = cache]
  /\ UNCHANGED <<cache, recent, followers, feed>>

\* The oldest change not yet shown, and no other.
ShowChange(c) ==
  /\ phase[c] = "watching"
  /\ feed[c] # <<>>
  /\ shown' = [shown EXCEPT ![c][Head(feed[c]).source] = Head(feed[c]).data]
  /\ feed' = [feed EXCEPT ![c] = Tail(@)]
  /\ UNCHANGED <<cache, recent, followers, phase>>

\* Of itself, or because it has been dropped.
Leave(c) ==
  /\ phase[c] = "watching"
  /\ phase' = [phase EXCEPT ![c] = "away"]
  /\ followers' = followers \ {c}
  /\ feed' = [feed EXCEPT ![c] = <<>>]
  /\ shown' = [shown EXCEPT ![c] = Blank]
  /\ UNCHANGED <<cache, recent>>

Next == \/ \E k \in Keys, v \in Values : Change(k, v)
        \/ \E dropped \in SUBSET Clients : Pass(dropped)
        \/ \E c \in Clients : Join(c) \/ ShowAll(c) \/ ShowChange(c) \/ Leave(c)

Spec == Init /\ [][Next]_vars
=============================================================================
