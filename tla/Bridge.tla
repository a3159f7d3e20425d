------------------------------- MODULE Bridge -------------------------------
(***************************************************************************)
(* mqtt/mqtt.go: what the bridge publishes, and its life from connecting   *)
(* to shutdown.  publish runs on the ticker's goroutine and, 1.5 s after   *)
(* every command, on a goroutine of its own; onConnect runs on yet another *)
(* one whenever the client (re)connects.  They share lastState,            *)
(* lastAvailability and discoveredUnit, each guarded by b.mu for as long   *)
(* as it is read or written, but not while the payload is handed over.     *)
(*                                                                         *)
(* The paho client and the broker are external: a publish reaches the      *)
(* retained topic, or is stored while the connection is down and sent when *)
(* it is back; the broker publishes the will of a session that ends        *)
(* without a Disconnect, at the latest when the client connects again; and *)
(* it may restart and forget what it retained.                             *)
(***************************************************************************)
EXTENDS Naturals, Sequences, SequencesExt

CONSTANTS
  Ticker,       \* the goroutine of Run
  Settle,       \* a goroutine of time.AfterFunc(commandSettle, b.publish)
  OnConnect,    \* the goroutine of onConnect
  Publishers,   \* those that run publish
  Topics,       \* the topics publish keeps, in the order it visits them
  Payloads,     \* what may be published on them
  Units,        \* temperature units
  None          \* nothing published, or never known

ASSUME BridgeAssumption ==
  /\ Ticker \in Publishers /\ Publishers \subseteq {Ticker, Settle}
  /\ OnConnect \notin Publishers
  /\ Topics \in Seq(ToSet(Topics)) /\ Topics # <<>> /\ IsInjective(Topics)
  /\ {"climate", "sensors", "availability"} \intersect ToSet(Topics) = {}
  /\ None \notin Payloads \union Units \union {"online", "offline"}

Threads == Publishers \union {OnConnect}
StateTopics == ToSet(Topics)
AllTopics == StateTopics \union {"climate", "sensors", "availability"}
Messages == Payloads \union Units \union {"online", "offline", None}

VARIABLES
  process,      \* "running", "stopping" once ctx is cancelled, "exited"
  source,       \* the payload of each topic if publish built it now
  unit,         \* tempUnitSymbol()
  last,         \* lastState and lastAvailability
  discovered,   \* discoveredUnit
  thread,       \* where each goroutine is, and its local variables
  link,         \* the client's connection: "down", "up", "closed"
  session,      \* the broker's view of it: "none", "up", "lost"
  retained,     \* the broker's retained messages
  outbox        \* messages stored while the link is down, the latest of each topic

vars == <<process, source, unit, last, discovered, thread, link, session, retained, outbox>>

PCs == {"idle", "readUnit", "setUnit", "sendClimate", "sendSensors", "build", "check",
        "send", "online", "clear", "disconnect", "done"}

Locals == [pc : PCs, unit : Units \union {None}, built : [StateTopics -> Payloads \union {None}],
           next : 1 .. Len(Topics)]

TypeOK ==
  /\ process \in {"running", "stopping", "exited"}
  /\ source \in [StateTopics -> Payloads \union {None}]
  /\ unit \in Units
  /\ last \in [StateTopics -> Payloads \union {None}]
  /\ discovered \in Units \union {None}
  /\ thread \in [Threads -> Locals]
  /\ link \in {"down", "up", "closed"}
  /\ session \in {"none", "up", "lost"}
  /\ retained \in [AllTopics -> Messages]
  /\ outbox \in [AllTopics -> Messages]

Nowhere == [pc |-> "idle", unit |-> None, built |-> [t \in StateTopics |-> None], next |-> 1]

Init ==
  /\ process = "running"
  /\ source = [t \in StateTopics |-> None]
  /\ unit \in Units
  /\ last = [t \in StateTopics |-> None]
  /\ discovered = None
  /\ thread = [th \in Threads |-> Nowhere]
  /\ link = "down"
  /\ session = "none"
  /\ retained = [t \in AllTopics |-> None]
  /\ outbox = [t \in AllTopics |-> None]

At(th, pc) == process # "exited" /\ thread[th].pc = pc
Goto(th, pc) == thread' = [thread EXCEPT ![th].pc = pc]

\* client.Publish, which is an error once the client has disconnected.
Publish(topic, payload) ==
  /\ retained' = IF link = "up" THEN [retained EXCEPT ![topic] = payload] ELSE retained
  /\ outbox' = IF link = "down" THEN [outbox EXCEPT ![topic] = payload] ELSE outbox

-----------------------------------------------------------------------------
(* publishDiscovery, by a publisher or by onConnect.                       *)

ReadUnit(th) ==
  /\ At(th, "readUnit")
  /\ thread' = [thread EXCEPT ![th].pc = "setUnit", ![th].unit = unit]
  /\ UNCHANGED <<process, source, unit, last, discovered, link, session, retained, outbox>>

SetUnit(th) ==
  /\ At(th, "setUnit")
  /\ discovered' = thread[th].unit
  /\ Goto(th, "sendClimate")
  /\ UNCHANGED <<process, source, unit, last, link, session, retained, outbox>>

\* climatePayload asks for the unit again.
SendClimate(th) ==
  /\ At(th, "sendClimate")
  /\ Publish("climate", unit)
  /\ Goto(th, "sendSensors")
  /\ UNCHANGED <<process, source, unit, last, discovered, link, session>>

SendSensors(th) ==
  /\ At(th, "sendSensors")
  /\ Publish("sensors", thread[th].unit)
  /\ Goto(th, IF th = OnConnect THEN "online" ELSE "build")
  /\ UNCHANGED <<process, source, unit, last, discovered, link, session>>

Discovery(th) == ReadUnit(th) \/ SetUnit(th) \/ SendClimate(th) \/ SendSensors(th)

-----------------------------------------------------------------------------
(* publish.                                                                *)

UnitChanged == discovered # None /\ discovered # unit

\* A tick, or the timer of a command.  IsConnected is true while paho retries.
StartPublish(th) ==
  /\ At(th, "idle")
  /\ link # "closed"
  /\ Goto(th, IF UnitChanged THEN "readUnit" ELSE "build")
  /\ UNCHANGED <<process, source, unit, last, discovered, link, session, retained, outbox>>

\* The payloads are built from the caches, or nothing has been polled yet.
Build(th) ==
  /\ At(th, "build")
  /\ IF \E t \in StateTopics : source[t] = None
       THEN Goto(th, "idle")
       ELSE thread' = [thread EXCEPT ![th].pc = "check", ![th].built = source, ![th].next = 1]
  /\ UNCHANGED <<process, source, unit, last, discovered, link, session, retained, outbox>>

\* Mutant: off by one.
ProceedPast(th) ==
  IF thread[th].next <= Len(Topics)
    THEN thread' = [thread EXCEPT ![th].pc = "check", ![th].next = @ + 1]
    ELSE thread' = [thread EXCEPT ![th] = Nowhere]

\* The thread goes on to the topic after its current one.
Proceed(th) ==
  IF thread[th].next < Len(Topics)
    THEN thread' = [thread EXCEPT ![th].pc = "check", ![th].next = @ + 1]
    ELSE thread' = [thread EXCEPT ![th] = Nowhere]

\* Under b.mu: compared with what was published last, and recorded.
Check(th) ==
  /\ At(th, "check")
  /\ LET t == Topics[thread[th].next]
         payload == thread[th].built[t]
     IN  IF last[t] = payload
           THEN Proceed(th) /\ UNCHANGED last
           ELSE Goto(th, "send") /\ last' = [last EXCEPT ![t] = payload]
  /\ UNCHANGED <<process, source, unit, discovered, link, session, retained, outbox>>

\* After b.mu: handed over to the client.
Send(th) ==
  /\ At(th, "send")
  /\ LET t == Topics[thread[th].next] IN Publish(t, thread[th].built[t])
  /\ Proceed(th)
  /\ UNCHANGED <<process, source, unit, last, discovered, link, session>>

Publishing(th) == StartPublish(th) \/ Discovery(th) \/ Build(th) \/ Check(th) \/ Send(th)

-----------------------------------------------------------------------------
(* onConnect.                                                              *)

\* Mutant: gives up when Subscribe fails.
SayOnlineIfSubscribed ==
  /\ At(OnConnect, "online")
  /\ \/ Publish("availability", "online")
     \/ UNCHANGED <<retained, outbox>>
  /\ Goto(OnConnect, "clear")
  /\ UNCHANGED <<process, source, unit, last, discovered, link, session>>

\* After publishDiscovery, and once Subscribe is answered.
SayOnline ==
  /\ At(OnConnect, "online")
  /\ Publish("availability", "online")
  /\ Goto(OnConnect, "clear")
  /\ UNCHANGED <<process, source, unit, last, discovered, link, session>>

\* Mutant: the next tick is not forced to publish.
ClearNothing ==
  /\ At(OnConnect, "clear")
  /\ thread' = [thread EXCEPT ![OnConnect] = Nowhere]
  /\ UNCHANGED <<process, source, unit, last, discovered, link, session, retained, outbox>>

\* Under b.mu: forces the next publish.
Clear ==
  /\ At(OnConnect, "clear")
  /\ last' = [t \in StateTopics |-> None]
  /\ thread' = [thread EXCEPT ![OnConnect] = Nowhere]
  /\ UNCHANGED <<process, source, unit, discovered, link, session, retained, outbox>>

Connecting == Discovery(OnConnect) \/ SayOnline \/ Clear

-----------------------------------------------------------------------------
(* The end: SIGTERM cancels ctx; Run calls shutdown; main returns when the *)
(* webserver has shut down, without waiting for Run.                       *)

Terminate ==
  /\ process = "running"
  /\ process' = "stopping"
  /\ UNCHANGED <<source, unit, last, discovered, thread, link, session, retained, outbox>>

\* shutdown: offline is published.
SayOffline ==
  /\ process = "stopping"
  /\ At(Ticker, "idle")
  /\ Publish("availability", "offline")
  /\ Goto(Ticker, "disconnect")
  /\ UNCHANGED <<process, source, unit, last, discovered, link, session>>

\* client.Disconnect: the broker forgets the will.
Disconnect ==
  /\ At(Ticker, "disconnect")
  /\ link' = "closed"
  /\ session' = IF link = "up" THEN "none" ELSE session
  /\ Goto(Ticker, "done")
  /\ UNCHANGED <<process, source, unit, last, discovered, retained, outbox>>

\* main returns, or the process is killed.
Exit ==
  /\ process # "exited"
  /\ process' = "exited"
  /\ link' = "closed"
  /\ session' = IF link = "up" THEN "lost" ELSE session
  /\ UNCHANGED <<source, unit, last, discovered, thread, retained, outbox>>

-----------------------------------------------------------------------------
(* The client, the broker and the thermostat (external).                   *)

Willed == IF session = "lost" THEN [retained EXCEPT !["availability"] = "offline"] ELSE retained

\* The client is back: what it stored is sent, or dropped as it is when it
\* connects for the first time, and onConnect is started.
Reconnect ==
  /\ process # "exited"
  /\ link = "down"
  /\ thread[OnConnect].pc = "idle"
  /\ link' = "up"
  /\ session' = "up"
  /\ \/ retained' = [t \in AllTopics |-> IF outbox[t] = None THEN Willed[t] ELSE outbox[t]]
     \/ retained' = Willed
  /\ outbox' = [t \in AllTopics |-> None]
  /\ Goto(OnConnect, "readUnit")
  /\ UNCHANGED <<process, source, unit, last, discovered>>

LoseLink ==
  /\ link = "up"
  /\ link' = "down"
  /\ session' = "lost"
  /\ UNCHANGED <<process, source, unit, last, discovered, thread, retained, outbox>>

\* The keepalive runs out, and the will is published.
PublishWill ==
  /\ session = "lost"
  /\ session' = "none"
  /\ retained' = Willed
  /\ UNCHANGED <<process, source, unit, last, discovered, thread, link, outbox>>

RestartBroker ==
  /\ session' = "none"
  /\ link' = IF link = "up" THEN "down" ELSE link
  /\ retained' = [t \in AllTopics |-> None]
  /\ UNCHANGED <<process, source, unit, last, discovered, thread, outbox>>

\* The poller and the snoops change what publish would build.
ChangeSource(t, p) ==
  /\ process # "exited"
  /\ source' = [source EXCEPT ![t] = p]
  /\ UNCHANGED <<process, unit, last, discovered, thread, link, session, retained, outbox>>

ChangeUnit(u) ==
  /\ process # "exited"
  /\ unit' = u
  /\ UNCHANGED <<process, source, last, discovered, thread, link, session, retained, outbox>>

-----------------------------------------------------------------------------
Next == \/ \E th \in Publishers : Publishing(th)
        \/ Connecting
        \/ Terminate \/ SayOffline \/ Disconnect \/ Exit
        \/ Reconnect \/ LoseLink \/ PublishWill \/ RestartBroker
        \/ \E t \in StateTopics, p \in Payloads : ChangeSource(t, p)
        \/ \E u \in Units : ChangeUnit(u)

Spec == Init /\ [][Next]_vars

\* The ticker ticks every two seconds and onConnect runs to its end.
FairSpec == Spec /\ WF_vars(Publishing(Ticker)) /\ WF_vars(Connecting)

-----------------------------------------------------------------------------
(* Properties.                                                             *)

Quiet == \A th \in Threads : thread[th].pc = "idle"

(***************************************************************************)
(* "lastState is the last state document published" (mqtt.go:117), and     *)
(* suppressing a publish is a no-op: whenever no goroutine is half way,    *)
(* what is recorded as published is what the broker retains, reconnects    *)
(* and broker restarts included.                                           *)
(***************************************************************************)
LastIsRetained ==
  Quiet /\ link = "up" =>
    \A t \in StateTopics : last[t] # None => retained[t] = last[t]

\* Connected and past onConnect, the entities are available: no will of an
\* earlier session and no stored message comes after "online".
OnlineWhenConnected ==
  link = "up" /\ process = "running" /\ thread[OnConnect].pc = "idle" =>
    retained["availability"] = "online"

\* "the MQTT entities are marked offline" (infinitive.go:76): once the process
\* is gone and the broker has dropped its session, they are not online.
OfflineWhenGone ==
  process = "exited" /\ session = "none" => retained["availability"] # "online"

(***************************************************************************)
(* Home Assistant ends up with what publish builds: a topic whose payload  *)
(* stops changing while the client is connected is retained with that      *)
(* payload, whatever reconnects and broker restarts came before.           *)
(***************************************************************************)
StateConverges ==
  \A t \in StateTopics, p \in Payloads :
    <>[](/\ source[t] = p /\ link = "up" /\ process = "running"
         /\ \A u \in StateTopics : source[u] # None)
      => <>[](retained[t] = p)
=============================================================================
