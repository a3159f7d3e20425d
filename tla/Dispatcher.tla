----------------------------- MODULE Dispatcher -----------------------------
(***************************************************************************)
(* internal/cache, internal/dispatcher and the websocket handler of        *)
(* webserver.go.  Cache.Update stores a device's data and, still holding   *)
(* the cache's lock, broadcasts it when it differs from what was stored.   *)
(* The dispatcher goroutine hands every event to every registered          *)
(* listener without ever waiting for one: a listener whose channel is full *)
(* is dropped and its channel closed.  Each websocket registers a          *)
(* listener, sends its client a dump of the cache, then forwards events.   *)
(***************************************************************************)
EXTENDS Naturals, Sequences, SequencesExt

CONSTANTS
  Keys,           \* the cache's keys, one per device
  Values,         \* what can be cached under a key
  Nothing,        \* a key never updated
  NoEvent,        \* no Update is waiting in BroadcastEvent
  Sockets,        \* websocket connections, each with its listener
  BroadcastCap,   \* capacity of Dispatcher.broadcast
  ListenerCap     \* capacity of Listener.ch

ASSUME DispatcherAssumption ==
  /\ Nothing \notin Values
  /\ BroadcastCap \in Nat \ {0}
  /\ ListenerCap \in Nat \ {0}

Events == [source : Keys, data : Values]

ASSUME NoEventAssumption == NoEvent \notin Events

VARIABLES
  cache,       \* Cache.data
  pending,     \* the event of the Update that holds the cache's lock
  broadcast,   \* Dispatcher.broadcast
  listeners,   \* Dispatcher.listeners
  running,     \* FALSE once run has returned
  ch,          \* each listener's channel
  closes,      \* how often it has been closed
  pc,          \* where each websocketListener is
  view         \* what its client was last sent of each key

vars == <<cache, pending, broadcast, listeners, running, ch, closes, pc, view>>

Contents == [Keys -> Values \union {Nothing}]

TypeOK ==
  /\ cache \in Contents
  /\ pending \in Events \union {NoEvent}
  /\ broadcast \in Seq(Events) /\ Len(broadcast) <= BroadcastCap
  /\ listeners \subseteq Sockets
  /\ running \in BOOLEAN
  /\ ch \in [Sockets -> Seq(Events)]
  /\ \A s \in Sockets : Len(ch[s]) <= ListenerCap
  /\ closes \in [Sockets -> Nat]
  /\ pc \in [Sockets -> {"idle", "registering", "dumping", "streaming", "closing"}]
  /\ view \in [Sockets -> Contents]

Init ==
  /\ cache = [k \in Keys |-> Nothing]
  /\ pending = NoEvent
  /\ broadcast = <<>>
  /\ listeners = {}
  /\ running = TRUE
  /\ ch = [s \in Sockets |-> <<>>]
  /\ closes = [s \in Sockets |-> 0]
  /\ pc = [s \in Sockets |-> "idle"]
  /\ view = [s \in Sockets |-> [k \in Keys |-> Nothing]]

-----------------------------------------------------------------------------
(* Cache.Update, from the poller and the snoops.  Equal data is not stored *)
(* again, which is no step of this model.                                  *)

Update(k, v) ==
  /\ pending = NoEvent
  /\ cache[k] # v
  /\ cache' = [cache EXCEPT ![k] = v]
  /\ pending' = [source |-> k, data |-> v]
  /\ UNCHANGED <<broadcast, listeners, running, ch, closes, pc, view>>

\* Mutant: drops the event rather than wait for room.
BroadcastOrDrop ==
  /\ pending # NoEvent
  /\ broadcast' = IF Len(broadcast) < BroadcastCap THEN Append(broadcast, pending) ELSE broadcast
  /\ pending' = NoEvent
  /\ UNCHANGED <<cache, listeners, running, ch, closes, pc, view>>

\* d.broadcast <- &Event{source, data}, and the lock is released.
BroadcastEvent ==
  /\ pending # NoEvent
  /\ Len(broadcast) < BroadcastCap
  /\ broadcast' = Append(broadcast, pending)
  /\ pending' = NoEvent
  /\ UNCHANGED <<cache, listeners, running, ch, closes, pc, view>>

-----------------------------------------------------------------------------
(* run: one iteration of the dispatcher goroutine's select per action.     *)

Register(s) ==
  /\ running
  /\ pc[s] = "registering"
  /\ listeners' = listeners \union {s}
  /\ pc' = [pc EXCEPT ![s] = "dumping"]
  /\ UNCHANGED <<cache, pending, broadcast, running, ch, closes, view>>

\* Mutant: closes the channel of a listener already dropped.
DeregisterUnchecked(s) ==
  /\ running
  /\ pc[s] = "closing"
  /\ listeners' = listeners \ {s}
  /\ closes' = [closes EXCEPT ![s] = @ + 1]
  /\ pc' = [pc EXCEPT ![s] = "idle"]
  /\ UNCHANGED <<cache, pending, broadcast, running, ch, view>>

\* The listener may have been dropped before its Close.
Deregister(s) ==
  /\ running
  /\ pc[s] = "closing"
  /\ listeners' = listeners \ {s}
  /\ closes' = IF s \in listeners THEN [closes EXCEPT ![s] = @ + 1] ELSE closes
  /\ pc' = [pc EXCEPT ![s] = "idle"]
  /\ UNCHANGED <<cache, pending, broadcast, running, ch, view>>

\* Mutant: off by one.
OverFull == {s \in listeners : Len(ch[s]) > ListenerCap}

\* Listeners whose channel has no room.
Full == {s \in listeners : Len(ch[s]) = ListenerCap}

\* Every listener but the full ones has the event put into its channel.
Distribute(event) ==
  ch' = [s \in Sockets |-> IF s \in listeners \ Full THEN Append(ch[s], event) ELSE ch[s]]

\* Mutant: waits for the slowest listener.
DeliverToAll ==
  /\ running
  /\ broadcast # <<>>
  /\ Full = {}
  /\ Distribute(Head(broadcast))
  /\ broadcast' = Tail(broadcast)
  /\ UNCHANGED <<cache, pending, listeners, running, closes, pc, view>>

\* Mutant: a full listener misses the event and stays.
DeliverOrSkip ==
  /\ running
  /\ broadcast # <<>>
  /\ Distribute(Head(broadcast))
  /\ broadcast' = Tail(broadcast)
  /\ UNCHANGED <<cache, pending, listeners, running, closes, pc, view>>

\* Mutant: a full listener is forgotten and its channel left open.
DeliverOrForget ==
  /\ running
  /\ broadcast # <<>>
  /\ Distribute(Head(broadcast))
  /\ listeners' = listeners \ Full
  /\ broadcast' = Tail(broadcast)
  /\ UNCHANGED <<cache, pending, running, closes, pc, view>>

Deliver ==
  /\ running
  /\ broadcast # <<>>
  /\ Distribute(Head(broadcast))
  /\ listeners' = listeners \ Full
  /\ closes' = [s \in Sockets |-> IF s \in Full THEN closes[s] + 1 ELSE closes[s]]
  /\ broadcast' = Tail(broadcast)
  /\ UNCHANGED <<cache, pending, running, pc, view>>

\* case <-d.ctx.Done()
Stop ==
  /\ running
  /\ running' = FALSE
  /\ UNCHANGED <<cache, pending, broadcast, listeners, ch, closes, pc, view>>

-----------------------------------------------------------------------------
(* websocketListener.                                                      *)

\* NewListener: a fresh channel, waiting in d.registerCh <- l.
Connect(s) ==
  /\ pc[s] = "idle"
  /\ ch' = [ch EXCEPT ![s] = <<>>]
  /\ closes' = [closes EXCEPT ![s] = 0]
  /\ view' = [view EXCEPT ![s] = [k \in Keys |-> Nothing]]
  /\ pc' = [pc EXCEPT ![s] = "registering"]
  /\ UNCHANGED <<cache, pending, broadcast, listeners, running>>

\* Cache.Dump, which waits for an Update that holds the lock, written out.
\* Errors are ignored here.
Dump(s) ==
  /\ pc[s] = "dumping"
  /\ pending = NoEvent
  /\ view' = [view EXCEPT ![s] = cache]
  /\ pc' = [pc EXCEPT ![s] = "streaming"]
  /\ UNCHANGED <<cache, pending, broadcast, listeners, running, ch, closes>>

\* The next event is written to the client, or the write fails.
Forward(s) ==
  /\ pc[s] = "streaming"
  /\ ch[s] # <<>>
  /\ LET e == Head(ch[s]) IN
       \/ /\ view' = [view EXCEPT ![s][e.source] = e.data]
          /\ UNCHANGED pc
       \/ /\ pc' = [pc EXCEPT ![s] = "closing"]
          /\ UNCHANGED view
  /\ ch' = [ch EXCEPT ![s] = Tail(@)]
  /\ UNCHANGED <<cache, pending, broadcast, listeners, running, closes>>

\* The closed channel is drained, and the range loop ends.
EndOfEvents(s) ==
  /\ pc[s] = "streaming"
  /\ ch[s] = <<>>
  /\ closes[s] > 0
  /\ pc' = [pc EXCEPT ![s] = "closing"]
  /\ UNCHANGED <<cache, pending, broadcast, listeners, running, ch, closes, view>>

Socket(s) == Dump(s) \/ Forward(s) \/ EndOfEvents(s)

-----------------------------------------------------------------------------
Next == \/ \E k \in Keys, v \in Values : Update(k, v)
        \/ BroadcastEvent
        \/ Deliver
        \/ Stop
        \/ \E s \in Sockets : Register(s) \/ Deregister(s) \/ Connect(s) \/ Socket(s)

Spec == Init /\ [][Next]_vars

(***************************************************************************)
(* The dispatcher goroutine runs, and Go's select picks at random among    *)
(* the ready cases.  Clients promise nothing.                              *)
(***************************************************************************)
Fairness == /\ WF_vars(BroadcastEvent)
            /\ SF_vars(Deliver)
            /\ \A s \in Sockets : SF_vars(Register(s)) /\ SF_vars(Deregister(s))

FairSpec == Spec /\ Fairness

\* What properties about clients suppose: they read what they are sent.
ClientsRead == \A s \in Sockets : SF_vars(Dump(s)) /\ WF_vars(Socket(s))

-----------------------------------------------------------------------------
(* Properties.                                                             *)

(***************************************************************************)
(* The dispatcher never panics, whether a listener is dropped for being    *)
(* slow, closes itself, or both at once: no channel is closed twice, and   *)
(* none that is closed is still sent to.                                   *)
(***************************************************************************)
NeverPanics == \A s \in Sockets : /\ closes[s] <= 1
                                  /\ s \in listeners => closes[s] = 0

\* Events not yet distributed, and those on their way to a socket's client,
\* oldest first.
Backlog == broadcast \o (IF pending = NoEvent THEN <<>> ELSE <<pending>>)
InFlight(s) == ch[s] \o Backlog

\* The events about a key, and what the last of them carries.
About(events, k) == {i \in DOMAIN events : events[i].source = k}
LastCarries(events, k, v) ==
  \A i \in About(events, k) : (\A j \in About(events, k) : j <= i) => events[i].data = v

(***************************************************************************)
(* A client that is not dropped ends up with what the cache holds: the     *)
(* last event in flight about a key carries the cached value, and without  *)
(* one the client has it already.  This is why websocketListener registers *)
(* before it dumps, and why the event is broadcast under the cache's lock. *)
(***************************************************************************)
LastEventIsCached ==
  \A s \in listeners, k \in Keys :
    pc[s] = "streaming" => /\ LastCarries(InFlight(s), k, cache[k])
                           /\ About(InFlight(s), k) = {} => view[s][k] = cache[k]

\* Where a socket stands as a client of Feed, from its registration until its
\* handler closes.
PhaseOf(s) == CASE pc[s] = "dumping" -> "joined"
                [] pc[s] = "streaming" -> "watching"
                [] OTHER -> "away"

\* What it is still to be sent; one that has been dropped, what is in its channel.
FeedOf(s) == IF PhaseOf(s) = "away" THEN <<>>
             ELSE IF s \in listeners THEN InFlight(s) ELSE ch[s]

ShownTo(s) == IF PhaseOf(s) = "watching" THEN view[s] ELSE [k \in Keys |-> Nothing]

Clients == INSTANCE Feed WITH
  Clients <- Sockets,
  recent <- Backlog,
  followers <- {s \in listeners : PhaseOf(s) # "away"},
  feed <- [s \in Sockets |-> FeedOf(s)],
  phase <- [s \in Sockets |-> PhaseOf(s)],
  shown <- [s \in Sockets |-> ShownTo(s)]

(***************************************************************************)
(* A client is shown every change in order, from the dump on, until it     *)
(* leaves or is dropped: the queue, the channels, the locks and the order  *)
(* in which a full listener is dropped implement Feed.                     *)
(***************************************************************************)
FeedsClients == Clients!Spec

\* However slow the websockets are, an Update gets rid of its event and gives
\* the cache's lock back, as long as the dispatcher runs.
UpdatesProceed == pending # NoEvent ~> (pending = NoEvent \/ ~running)

\* A dropped client is told, if it reads: its handler comes to an end rather
\* than wait on a channel nobody sends to.
DroppedSocketsEnd ==
  ClientsRead => \A s \in Sockets :
    (pc[s] = "streaming" /\ s \notin listeners) ~> (pc[s] # "streaming")

\* When the cached data stops changing, every connected client that reads has it.
ClientsConverge ==
  ClientsRead /\ <>[][UNCHANGED cache]_vars =>
    \A s \in Sockets : []<>(~running \/ pc[s] # "streaming" \/ view[s] = cache)
=============================================================================
