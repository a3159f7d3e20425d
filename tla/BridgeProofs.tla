---------------------------- MODULE BridgeProofs ----------------------------
(***************************************************************************)
(* Proofs about Bridge, for any topics, payloads, units and publishers:    *)
(* its types, that a connected bridge is online, and which races alone     *)
(* make what is recorded differ from what is retained, and a daemon that   *)
(* is gone stay online.                                                    *)
(***************************************************************************)
EXTENDS Bridge, SequenceTheorems, TLAPS

-----------------------------------------------------------------------------
(* Types.                                                                  *)

\* A topic visited is one of those publish keeps.
LEMMA TopicVisited ==
  ASSUME NEW i \in 1 .. Len(Topics)
  PROVE  Topics[i] \in StateTopics
  BY DEF StateTopics, ToSet

LEMMA PublishTypes ==
  ASSUME TypeOK, NEW topic \in AllTopics, NEW payload \in Messages, Publish(topic, payload)
  PROVE  retained' \in [AllTopics -> Messages] /\ outbox' \in [AllTopics -> Messages]
  BY DEF TypeOK, Publish

\* A goroutine goes to another place, with the local variables it has.
LEMMA GotoTypes ==
  ASSUME TypeOK, NEW th \in Threads, NEW pc \in PCs, Goto(th, pc)
  PROVE  /\ thread' \in [Threads -> Locals]
         /\ thread'[th] = [thread[th] EXCEPT !.pc = pc]
         /\ \A o \in Threads : o # th => thread'[o] = thread[o]
<1>1. thread[th] \in Locals /\ thread' = [thread EXCEPT ![th] = [thread[th] EXCEPT !.pc = pc]]
  BY DEF TypeOK, Goto
<1>2. [thread[th] EXCEPT !.pc = pc] \in Locals
  BY <1>1 DEF Locals
<1> QED
  BY <1>1, <1>2 DEF TypeOK

\* There is a topic to visit.
LEMMA TopicsInOrder ==
  Len(Topics) \in Nat \ {0} /\ DOMAIN Topics = 1 .. Len(Topics)
  BY BridgeAssumption, EmptySeq, LenProperties

LEMMA NowhereType == Nowhere \in Locals
  BY TopicsInOrder DEF Nowhere, Locals, PCs

\* A goroutine is done, or goes on to the next topic.
LEMMA ProceedTypes ==
  ASSUME TypeOK, NEW th \in Threads, Proceed(th)
  PROVE  /\ thread' \in [Threads -> Locals]
         /\ thread'[th].pc \in {"check", "idle"}
         /\ \A o \in Threads : o # th => thread'[o] = thread[o]
<1>1. thread[th] \in Locals
  BY DEF TypeOK
<1>2. CASE thread[th].next < Len(Topics)
  <2> DEFINE l == [thread[th] EXCEPT !.pc = "check", !.next = @ + 1]
  <2>1. thread' = [thread EXCEPT ![th] = l]
    BY <1>2 DEF Proceed
  <2>2. l \in Locals /\ l.pc = "check"
    <3>1. thread[th].next + 1 \in 1 .. Len(Topics)
      BY <1>1, <1>2, TopicsInOrder DEF Locals
    <3> QED
      BY <1>1, <3>1 DEF Locals, PCs
  <2> HIDE DEF l
  <2> QED
    BY <2>1, <2>2 DEF TypeOK
<1>3. CASE ~(thread[th].next < Len(Topics))
  <2>1. thread' = [thread EXCEPT ![th] = Nowhere] /\ Nowhere.pc = "idle"
    BY <1>3 DEF Proceed, Nowhere
  <2> QED
    BY <2>1, NowhereType DEF TypeOK
<1> QED
  BY <1>2, <1>3

LEMMA InitTypeOK == Init => TypeOK
  BY NowhereType DEF Init, TypeOK, Messages, AllTopics

\* The steps of a goroutine, between which TypeOK is kept.
LEMMA ThreadTypeOK ==
  ASSUME TypeOK, NEW th \in Threads, Discovery(th) \/ Build(th) \/ Check(th) \/ Send(th)
  PROVE  TypeOK'
<1>0. thread[th] \in Locals /\ {"climate", "sensors"} \subseteq AllTopics /\ unit \in Messages
  BY DEF TypeOK, AllTopics, Messages
<1>1. CASE ReadUnit(th)
  <2>1. [thread[th] EXCEPT !.pc = "setUnit", !.unit = unit] \in Locals
    BY <1>0 DEF TypeOK, Locals, PCs
  <2>2. thread' = [thread EXCEPT ![th] = [thread[th] EXCEPT !.pc = "setUnit", !.unit = unit]]
    BY <1>1 DEF ReadUnit
  <2> QED
    BY <1>1, <2>1, <2>2 DEF ReadUnit, TypeOK
<1>2. CASE SetUnit(th)
  <2>1. thread' \in [Threads -> Locals]
    BY <1>2, GotoTypes DEF SetUnit, PCs
  <2>2. discovered' \in Units \union {None}
    BY <1>0, <1>2 DEF SetUnit, Locals
  <2> QED
    BY <1>2, <2>1, <2>2 DEF SetUnit, TypeOK
<1>3. CASE SendClimate(th)
  <2>1. thread' \in [Threads -> Locals]
    BY <1>3, GotoTypes DEF SendClimate, PCs
  <2>2. retained' \in [AllTopics -> Messages] /\ outbox' \in [AllTopics -> Messages]
    BY <1>0, <1>3, PublishTypes DEF SendClimate
  <2> QED
    BY <1>3, <2>1, <2>2 DEF SendClimate, TypeOK
<1>4. CASE SendSensors(th)
  <2>1. thread' \in [Threads -> Locals]
    BY <1>4, GotoTypes DEF SendSensors, PCs
  <2>2. thread[th].unit \in Messages
    BY <1>0 DEF Locals, Messages
  <2>3. retained' \in [AllTopics -> Messages] /\ outbox' \in [AllTopics -> Messages]
    BY <1>0, <1>4, <2>2, PublishTypes DEF SendSensors
  <2> QED
    BY <1>4, <2>1, <2>3 DEF SendSensors, TypeOK
<1>5. CASE Build(th)
  <2>1. CASE \E t \in StateTopics : source[t] = None
    <3>1. thread' \in [Threads -> Locals]
      BY <1>5, <2>1, GotoTypes DEF Build, PCs
    <3> QED
      BY <1>5, <3>1 DEF Build, TypeOK
  <2>2. CASE ~\E t \in StateTopics : source[t] = None
    <3> DEFINE l == [thread[th] EXCEPT !.pc = "check", !.built = source, !.next = 1]
    <3>1. thread' = [thread EXCEPT ![th] = l]
      BY <1>5, <2>2 DEF Build
    <3>2. l \in Locals
      <4>1. source \in [StateTopics -> Payloads \union {None}] /\ 1 \in 1 .. Len(Topics)
        BY TopicsInOrder DEF TypeOK
      <4> QED
        BY <1>0, <4>1 DEF Locals, PCs
    <3> HIDE DEF l
    <3> QED
      BY <1>5, <3>1, <3>2 DEF Build, TypeOK
  <2> QED
    BY <2>1, <2>2
<1>6. CASE Check(th)
  <2> DEFINE t == Topics[thread[th].next]
  <2>1. t \in StateTopics /\ thread[th].built[t] \in Payloads \union {None}
    BY <1>0, TopicVisited DEF Locals
  <2>2. CASE last[t] = thread[th].built[t]
    <3>1. thread' \in [Threads -> Locals]
      BY <1>6, <2>2, ProceedTypes DEF Check
    <3> QED
      BY <1>6, <2>2, <3>1 DEF Check, TypeOK
  <2>3. CASE last[t] # thread[th].built[t]
    <3>1. thread' \in [Threads -> Locals]
      BY <1>6, <2>3, GotoTypes DEF Check, PCs
    <3>2. last' = [last EXCEPT ![t] = thread[th].built[t]]
      BY <1>6, <2>3 DEF Check
    <3> QED
      BY <1>6, <2>1, <3>1, <3>2 DEF Check, TypeOK
  <2> QED
    BY <2>2, <2>3
<1>7. CASE Send(th)
  <2> DEFINE t == Topics[thread[th].next]
  <2>1. t \in StateTopics /\ thread[th].built[t] \in Payloads \union {None}
    BY <1>0, TopicVisited DEF Locals
  <2>2. retained' \in [AllTopics -> Messages] /\ outbox' \in [AllTopics -> Messages]
    BY <1>7, <2>1, PublishTypes DEF Send, AllTopics, Messages
  <2>3. thread' \in [Threads -> Locals]
    BY <1>7, ProceedTypes DEF Send
  <2> QED
    BY <1>7, <2>2, <2>3 DEF Send, TypeOK
<1> QED
  BY <1>1, <1>2, <1>3, <1>4, <1>5, <1>6, <1>7 DEF Discovery

LEMMA NextTypeOK == TypeOK /\ [Next]_vars => TypeOK'
<1> SUFFICES ASSUME TypeOK, [Next]_vars PROVE TypeOK'
  OBVIOUS
<1>0. /\ Ticker \in Threads /\ OnConnect \in Threads /\ Publishers \subseteq Threads
      /\ "availability" \in AllTopics /\ {"online", "offline", None} \subseteq Messages
      /\ Willed \in [AllTopics -> Messages]
  BY BridgeAssumption DEF Threads, AllTopics, Messages, Willed, TypeOK
<1>1. ASSUME NEW th \in Publishers, Publishing(th) PROVE TypeOK'
  <2>1. CASE StartPublish(th)
    <3>1. thread' \in [Threads -> Locals]
      BY <1>0, <2>1, GotoTypes DEF StartPublish, PCs
    <3> QED
      BY <2>1, <3>1 DEF StartPublish, TypeOK
  <2> QED
    BY <1>0, <1>1, <2>1, ThreadTypeOK DEF Publishing
<1>2. CASE Connecting
  <2>1. CASE SayOnline
    <3>1. thread' \in [Threads -> Locals]
      BY <1>0, <2>1, GotoTypes DEF SayOnline, PCs
    <3>2. retained' \in [AllTopics -> Messages] /\ outbox' \in [AllTopics -> Messages]
      BY <1>0, <2>1, PublishTypes DEF SayOnline
    <3> QED
      BY <2>1, <3>1, <3>2 DEF SayOnline, TypeOK
  <2>2. CASE Clear
    BY <1>0, <2>2, NowhereType DEF Clear, TypeOK
  <2> QED
    BY <1>0, <1>2, <2>1, <2>2, ThreadTypeOK DEF Connecting
<1>3. CASE Terminate
  BY <1>3 DEF Terminate, TypeOK
<1>4. CASE SayOffline
  <2>1. thread' \in [Threads -> Locals]
    BY <1>0, <1>4, GotoTypes DEF SayOffline, PCs
  <2>2. retained' \in [AllTopics -> Messages] /\ outbox' \in [AllTopics -> Messages]
    BY <1>0, <1>4, PublishTypes DEF SayOffline
  <2> QED
    BY <1>4, <2>1, <2>2 DEF SayOffline, TypeOK
<1>5. CASE Disconnect
  <2>1. thread' \in [Threads -> Locals]
    BY <1>0, <1>5, GotoTypes DEF Disconnect, PCs
  <2> QED
    BY <1>5, <2>1 DEF Disconnect, TypeOK
<1>6. CASE Exit
  BY <1>6 DEF Exit, TypeOK
<1>7. CASE Reconnect
  <2>1. thread' \in [Threads -> Locals]
    BY <1>0, <1>7, GotoTypes DEF Reconnect, PCs
  <2>2. retained' \in [AllTopics -> Messages] /\ outbox' \in [AllTopics -> Messages]
    BY <1>0, <1>7 DEF Reconnect, TypeOK
  <2> QED
    BY <1>7, <2>1, <2>2 DEF Reconnect, TypeOK
<1>8. CASE LoseLink
  BY <1>8 DEF LoseLink, TypeOK
<1>9. CASE PublishWill
  BY <1>0, <1>9 DEF PublishWill, TypeOK
<1>10. CASE RestartBroker
  BY <1>0, <1>10 DEF RestartBroker, TypeOK
<1>11. ASSUME NEW t \in StateTopics, NEW p \in Payloads, ChangeSource(t, p) PROVE TypeOK'
  BY <1>11 DEF ChangeSource, TypeOK
<1>12. ASSUME NEW u \in Units, ChangeUnit(u) PROVE TypeOK'
  BY <1>12 DEF ChangeUnit, TypeOK
<1>13. CASE UNCHANGED vars
  BY <1>13 DEF vars, TypeOK
<1> QED
  BY <1>1, <1>2, <1>3, <1>4, <1>5, <1>6, <1>7, <1>8, <1>9, <1>10, <1>11, <1>12, <1>13 DEF Next

\* The bridge, its client and the broker keep their types; publish visits the
\* topics it keeps and no other.
THEOREM BridgeTypes == Spec => []TypeOK
<1>1. Init => TypeOK
  BY InitTypeOK
<1>2. TypeOK /\ [Next]_vars => TypeOK'
  BY NextTypeOK
<1> QED
  BY <1>1, <1>2, PTL DEF Spec

-----------------------------------------------------------------------------
(* A connected bridge is online.                                           *)

\* What a goroutine leaves alone on its way through publish.
LEMMA PublishingFrame ==
  ASSUME TypeOK, NEW th \in Threads,
         StartPublish(th) \/ Discovery(th) \/ Build(th) \/ Check(th) \/ Send(th)
  PROVE  /\ UNCHANGED <<process, link, session>>
         /\ \A o \in Threads : o # th => thread'[o] = thread[o]
         /\ retained'["availability"] = retained["availability"]
<1>0. /\ "climate" # "availability" /\ "sensors" # "availability"
      /\ "availability" \in AllTopics /\ \A t \in StateTopics : t # "availability"
  BY BridgeAssumption DEF AllTopics, StateTopics
<1>1. ASSUME NEW topic, NEW payload, topic # "availability", Publish(topic, payload)
      PROVE  retained'["availability"] = retained["availability"]
  BY <1>0, <1>1 DEF TypeOK, Publish
<1>2. CASE StartPublish(th)
  BY <1>2, GotoTypes DEF StartPublish, PCs
<1>3. CASE Discovery(th)
  <2>1. CASE ReadUnit(th)
    BY <2>1 DEF ReadUnit, TypeOK
  <2>2. CASE SetUnit(th)
    BY <2>2, GotoTypes DEF SetUnit, PCs
  <2>3. CASE SendClimate(th)
    BY <1>0, <1>1, <2>3, GotoTypes DEF SendClimate, PCs
  <2>4. CASE SendSensors(th)
    BY <1>0, <1>1, <2>4, GotoTypes DEF SendSensors, PCs
  <2> QED
    BY <1>3, <2>1, <2>2, <2>3, <2>4 DEF Discovery
<1>4. CASE Build(th)
  <2>1. \A o \in Threads : o # th => thread'[o] = thread[o]
    BY <1>4 DEF Build, Goto, TypeOK
  <2> QED
    BY <1>4, <2>1 DEF Build
<1>5. CASE Check(th)
  <2>1. \A o \in Threads : o # th => thread'[o] = thread[o]
    BY <1>5, ProceedTypes, GotoTypes DEF Check, PCs
  <2> QED
    BY <1>5, <2>1 DEF Check
<1>6. CASE Send(th)
  <2>1. Topics[thread[th].next] \in StateTopics
    BY TopicVisited DEF TypeOK, Locals
  <2> QED
    BY <1>0, <1>1, <1>6, <2>1, ProceedTypes DEF Send
<1> QED
  BY <1>2, <1>3, <1>4, <1>5, <1>6

\* A session the broker lost is not the client's, and from SayOnline on, until
\* the connection is lost, "online" is what is retained.
OnlineInv ==
  /\ TypeOK
  /\ link = "up" => session = "up"
  /\ link = "up" /\ process = "running" /\ thread[OnConnect].pc \in {"idle", "clear"} =>
       retained["availability"] = "online"

LEMMA NextOnline == OnlineInv /\ [Next]_vars => OnlineInv'
<1> SUFFICES ASSUME OnlineInv, [Next]_vars PROVE OnlineInv'
  OBVIOUS
<1>0. /\ TypeOK /\ TypeOK'
      /\ Ticker \in Threads /\ OnConnect \in Threads /\ OnConnect # Ticker
      /\ Publishers \subseteq Threads /\ OnConnect \notin Publishers
      /\ "availability" \in AllTopics
  BY NextTypeOK, BridgeAssumption DEF OnlineInv, Threads, AllTopics
<1>1. ASSUME NEW th \in Publishers, Publishing(th) PROVE OnlineInv'
  <2>1. /\ UNCHANGED <<process, link, session>>
        /\ thread'[OnConnect] = thread[OnConnect]
        /\ retained'["availability"] = retained["availability"]
    BY <1>0, <1>1, PublishingFrame DEF Publishing
  <2> QED
    BY <1>0, <2>1 DEF OnlineInv
<1>2. CASE Connecting
  <2>1. CASE Discovery(OnConnect)
    <3>1. thread'[OnConnect].pc \in {"setUnit", "sendClimate", "sendSensors", "online"}
      BY <1>0, <2>1, GotoTypes
      DEF Discovery, ReadUnit, SetUnit, SendClimate, SendSensors, TypeOK, Locals, Goto
    <3>2. UNCHANGED <<process, link, session>>
      BY <1>0, <2>1, PublishingFrame
    <3> QED
      BY <1>0, <3>1, <3>2 DEF OnlineInv
  <2>2. CASE SayOnline
    BY <1>0, <2>2 DEF SayOnline, Publish, OnlineInv, TypeOK
  <2>3. CASE Clear
    <3>1. thread[OnConnect].pc = "clear" /\ UNCHANGED <<process, link, session, retained>>
      BY <2>3 DEF Clear, At
    <3> QED
      BY <1>0, <3>1 DEF OnlineInv
  <2> QED
    BY <1>2, <2>1, <2>2, <2>3 DEF Connecting
<1>3. CASE Terminate
  BY <1>0, <1>3 DEF Terminate, OnlineInv
<1>4. CASE SayOffline
  BY <1>0, <1>4 DEF SayOffline, OnlineInv
<1>5. CASE Disconnect
  BY <1>0, <1>5 DEF Disconnect, OnlineInv
<1>6. CASE Exit
  BY <1>0, <1>6 DEF Exit, OnlineInv
<1>7. CASE Reconnect
  <2>1. thread'[OnConnect].pc = "readUnit"
    BY <1>0, <1>7 DEF Reconnect, Goto, TypeOK, Locals
  <2> QED
    BY <1>0, <1>7, <2>1 DEF Reconnect, OnlineInv
<1>8. CASE LoseLink
  BY <1>0, <1>8 DEF LoseLink, OnlineInv
<1>9. CASE PublishWill
  BY <1>0, <1>9 DEF PublishWill, OnlineInv
<1>10. CASE RestartBroker
  BY <1>0, <1>10 DEF RestartBroker, OnlineInv
<1>11. ASSUME NEW t \in StateTopics, NEW p \in Payloads, ChangeSource(t, p) PROVE OnlineInv'
  BY <1>0, <1>11 DEF ChangeSource, OnlineInv
<1>12. ASSUME NEW u \in Units, ChangeUnit(u) PROVE OnlineInv'
  BY <1>0, <1>12 DEF ChangeUnit, OnlineInv
<1>13. CASE UNCHANGED vars
  BY <1>0, <1>13 DEF vars, OnlineInv
<1> QED
  BY <1>1, <1>2, <1>3, <1>4, <1>5, <1>6, <1>7, <1>8, <1>9, <1>10, <1>11, <1>12, <1>13 DEF Next

\* Connected and past onConnect, a running daemon is retained as online: no will
\* and no stored message of an earlier session comes after it, however many
\* goroutines publish.
THEOREM ConnectedIsOnline == Spec => []OnlineWhenConnected
<1>1. Init => OnlineInv
  BY InitTypeOK DEF Init, OnlineInv
<1>2. OnlineInv /\ [Next]_vars => OnlineInv'
  BY NextOnline
<1>3. OnlineInv => OnlineWhenConnected
  BY DEF OnlineInv, OnlineWhenConnected
<1> QED
  BY <1>1, <1>2, <1>3, PTL DEF Spec

-----------------------------------------------------------------------------
(* What is recorded as published is retained, unless two publishers are    *)
(* between the record and the hand-over of the same topic at once.         *)

\* th has recorded the payload of topic t, and is about to hand it over.
InHand(th, t) == thread[th].pc = "send" /\ Topics[thread[th].next] = t

\* Nobody else is then about to hand over another: what b.mu would give if it were
\* kept until the client has the payload.
OneHandover ==
  \A t \in StateTopics, th, o \in Publishers : InHand(th, t) /\ InHand(o, t) => th = o

\* What is recorded is retained or about to be, until the next onConnect, which
\* forgets it; and what is about to be handed over is what was recorded.
RecordedOrInHand ==
  link = "up" /\ thread[OnConnect].pc = "idle" =>
    \A t \in StateTopics :
      last[t] # None => retained[t] = last[t] \/ \E th \in Publishers : InHand(th, t)

HandedOverIsRecorded ==
  \A th \in Publishers, t \in StateTopics :
    InHand(th, t) => last[t] \in {None, thread[th].built[t]}

LastInv == TypeOK /\ RecordedOrInHand /\ HandedOverIsRecorded

\* Discovery touches nothing of what publish keeps.
LEMMA DiscoveryFrame ==
  ASSUME TypeOK, NEW th \in Threads, Discovery(th)
  PROVE  /\ UNCHANGED last
         /\ thread[th].pc \in {"readUnit", "setUnit", "sendClimate", "sendSensors"}
         /\ thread'[th].pc \in {"setUnit", "sendClimate", "sendSensors", "online", "build"}
         /\ \A t \in StateTopics : retained'[t] = retained[t]
<1>0. /\ StateTopics \subseteq AllTopics
      /\ \A t \in StateTopics : t # "climate" /\ t # "sensors"
      /\ thread \in [Threads -> Locals]
  BY BridgeAssumption DEF AllTopics, StateTopics, TypeOK
<1>1. ASSUME NEW topic \in {"climate", "sensors"}, NEW payload, Publish(topic, payload)
      PROVE  \A t \in StateTopics : retained'[t] = retained[t]
  BY <1>0, <1>1 DEF TypeOK, Publish
<1>2. CASE ReadUnit(th)
  BY <1>0, <1>2 DEF ReadUnit, At, Locals
<1>3. CASE SetUnit(th)
  BY <1>0, <1>3 DEF SetUnit, At, Goto, Locals
<1>4. CASE SendClimate(th)
  BY <1>0, <1>1, <1>4 DEF SendClimate, At, Goto, Locals
<1>5. CASE SendSensors(th)
  BY <1>0, <1>1, <1>5 DEF SendSensors, At, Goto, Locals
<1> QED
  BY <1>2, <1>3, <1>4, <1>5 DEF Discovery

\* A step that changes neither what is recorded, nor what is retained, nor what
\* anyone has in hand.
LEMMA NothingInHandChanges ==
  ASSUME LastInv, UNCHANGED last, \A t \in StateTopics : retained'[t] = retained[t],
         link' = "up" => link = "up",
         thread'[OnConnect].pc = "idle" => thread[OnConnect].pc = "idle",
         \A th \in Publishers :
           \/ thread'[th] = thread[th]
           \/ thread[th].pc # "send" /\ thread'[th].pc # "send"
  PROVE  RecordedOrInHand' /\ HandedOverIsRecorded'
<1>1. \A th \in Publishers, t \in StateTopics :
        /\ InHand(th, t)' <=> InHand(th, t)
        /\ InHand(th, t) => thread'[th].built = thread[th].built
  BY DEF InHand
<1> QED
  BY <1>1 DEF LastInv, RecordedOrInHand, HandedOverIsRecorded

\* A step after which nothing need be retained.
LEMMA NothingToRetain ==
  ASSUME LastInv, UNCHANGED last, \A th \in Publishers : thread'[th] = thread[th],
         link' # "up" \/ thread'[OnConnect].pc # "idle"
  PROVE  RecordedOrInHand' /\ HandedOverIsRecorded'
<1>1. \A th \in Publishers, t \in StateTopics : InHand(th, t)' <=> InHand(th, t)
  BY DEF InHand
<1> QED
  BY <1>1 DEF LastInv, RecordedOrInHand, HandedOverIsRecorded

\* The goroutines of publish are not onConnect's.
LEMMA ThreadsApart ==
  ASSUME TypeOK
  PROVE  /\ Ticker \in Publishers /\ Publishers \subseteq Threads
         /\ OnConnect \in Threads /\ OnConnect \notin Publishers
         /\ StateTopics \subseteq AllTopics
         /\ \A t \in StateTopics : t # "availability"
         /\ thread \in [Threads -> Locals]
  BY BridgeAssumption DEF Threads, AllTopics, StateTopics, TypeOK

\* What publish records for a topic that has changed is what it has in hand then,
\* and nobody else has.
LEMMA CheckLast ==
  ASSUME LastInv, OneHandover', NEW th \in Publishers, Check(th)
  PROVE  RecordedOrInHand' /\ HandedOverIsRecorded'
<1> DEFINE t == Topics[thread[th].next]
<1>0. /\ TypeOK /\ thread[th].pc = "check" /\ thread[th] \in Locals /\ th \in Threads
      /\ UNCHANGED <<link, retained>> /\ \A o \in Threads : o # th => thread'[o] = thread[o]
      /\ th # OnConnect /\ OnConnect \in Threads /\ Publishers \subseteq Threads
  BY ThreadsApart, PublishingFrame DEF LastInv, Check, At
<1>1. t \in StateTopics
  BY <1>0, TopicVisited DEF Locals
<1>2. CASE last[t] = thread[th].built[t]
  <2>1. Proceed(th) /\ UNCHANGED last
    BY <1>2 DEF Check
  <2>2. thread'[th].pc # "send"
    BY <1>0, <2>1, ProceedTypes
  <2> QED
    BY <1>0, <2>1, <2>2, NothingInHandChanges
<1>3. CASE last[t] # thread[th].built[t]
  <2>1. /\ thread' = [thread EXCEPT ![th].pc = "send"]
        /\ last' = [last EXCEPT ![t] = thread[th].built[t]]
    BY <1>3 DEF Check, Goto
  <2>2. /\ thread'[th].pc = "send" /\ thread'[th].next = thread[th].next
        /\ thread'[th].built = thread[th].built
    BY <1>0, <2>1 DEF Locals, TypeOK
  <2>3. last'[t] = thread[th].built[t] /\ \A u \in StateTopics : u # t => last'[u] = last[u]
    BY <1>0, <1>1, <2>1 DEF TypeOK
  <2> HIDE DEF t
  <2>4. \A u \in StateTopics : InHand(th, u)' <=> u = t
    BY <2>2 DEF InHand, t
  <2>5. \A o \in Publishers, u \in StateTopics : o # th => (InHand(o, u)' <=> InHand(o, u))
    BY <1>0 DEF InHand
  <2>6. ASSUME NEW o \in Publishers, NEW u \in StateTopics, InHand(o, u)'
        PROVE  last'[u] \in {None, thread'[o].built[u]}
    <3>1. CASE o = th
      BY <2>2, <2>3, <2>4, <2>6, <3>1
    <3>2. CASE o # th
      <4>1. u # t
        BY <1>1, <2>4, <2>6, <3>2 DEF OneHandover
      <4>2. InHand(o, u) /\ thread'[o] = thread[o] /\ last'[u] = last[u]
        BY <1>0, <2>3, <2>5, <2>6, <3>2, <4>1
      <4> QED
        BY <4>2 DEF LastInv, HandedOverIsRecorded
    <3> QED
      BY <3>1, <3>2
  <2>7. HandedOverIsRecorded'
    BY <2>6 DEF HandedOverIsRecorded
  <2>8. ASSUME link = "up", thread[OnConnect].pc = "idle", NEW u \in StateTopics, last'[u] # None
        PROVE  retained'[u] = last'[u] \/ \E o \in Publishers : InHand(o, u)'
    <3>1. CASE u = t
      BY <2>4, <3>1
    <3>2. CASE u # t
      <4>1. retained[u] = last[u] \/ \E o \in Publishers : InHand(o, u)
        BY <2>3, <2>8, <3>2 DEF LastInv, RecordedOrInHand
      <4>2. ~InHand(th, u)
        BY <1>0 DEF InHand
      <4> QED
        BY <1>0, <2>3, <2>5, <3>2, <4>1, <4>2
    <3> QED
      BY <3>1, <3>2
  <2>9. RecordedOrInHand'
    BY <1>0, <2>8 DEF RecordedOrInHand
  <2> QED
    BY <2>7, <2>9
<1> QED
  BY <1>2, <1>3

\* What is handed over is what was recorded, and is retained if it reaches the
\* broker.
LEMMA SendLast ==
  ASSUME LastInv, NEW th \in Publishers, Send(th)
  PROVE  RecordedOrInHand' /\ HandedOverIsRecorded'
<1> DEFINE t == Topics[thread[th].next]
           payload == thread[th].built[t]
<1>0. /\ TypeOK /\ thread[th].pc = "send" /\ thread[th] \in Locals /\ th \in Threads
      /\ UNCHANGED <<link, last>> /\ \A o \in Threads : o # th => thread'[o] = thread[o]
      /\ th # OnConnect /\ OnConnect \in Threads /\ Publishers \subseteq Threads
      /\ StateTopics \subseteq AllTopics
  BY ThreadsApart, PublishingFrame DEF LastInv, Send, At
<1>1. t \in StateTopics /\ InHand(th, t) /\ thread'[th].pc # "send"
  <2>1. Proceed(th)
    BY DEF Send
  <2> QED
    BY <1>0, <2>1, TopicVisited, ProceedTypes DEF InHand, Locals
<1>2. last[t] \in {None, payload}
  BY <1>1 DEF LastInv, HandedOverIsRecorded
<1>3. link = "up" => retained' = [retained EXCEPT ![t] = payload]
  BY DEF Send, Publish
<1> HIDE DEF t, payload
<1>4. link = "up" =>
        retained'[t] = payload /\ \A u \in StateTopics : u # t => retained'[u] = retained[u]
  BY <1>0, <1>1, <1>3 DEF TypeOK
<1>5. \A o \in Publishers, u \in StateTopics :
        InHand(o, u)' => InHand(o, u) /\ thread'[o] = thread[o]
  BY <1>0, <1>1 DEF InHand
<1>6. HandedOverIsRecorded'
  BY <1>0, <1>5 DEF LastInv, HandedOverIsRecorded
<1>7. ASSUME link = "up", thread[OnConnect].pc = "idle", NEW u \in StateTopics, last[u] # None
      PROVE  retained'[u] = last[u] \/ \E o \in Publishers : InHand(o, u)'
  <2>1. CASE u = t
    BY <1>2, <1>4, <1>7, <2>1
  <2>2. CASE u # t
    <3>1. ~InHand(th, u)
      BY <1>1, <2>2 DEF InHand
    <3>2. \A o \in Publishers : o # th => (InHand(o, u)' <=> InHand(o, u))
      BY <1>0 DEF InHand
    <3>3. retained[u] = last[u] \/ \E o \in Publishers : InHand(o, u)
      BY <1>7 DEF LastInv, RecordedOrInHand
    <3> QED
      BY <1>4, <1>7, <2>2, <3>1, <3>2, <3>3
  <2> QED
    BY <2>1, <2>2
<1>8. RecordedOrInHand'
  BY <1>0, <1>7 DEF RecordedOrInHand
<1> QED
  BY <1>6, <1>8

LEMMA NextLast ==
  ASSUME LastInv, OneHandover', [Next]_vars
  PROVE  LastInv'
<1>0. /\ TypeOK /\ TypeOK'
      /\ Ticker \in Publishers /\ Publishers \subseteq Threads
      /\ OnConnect \in Threads /\ OnConnect \notin Publishers
      /\ StateTopics \subseteq AllTopics
      /\ \A t \in StateTopics : t # "availability"
      /\ thread \in [Threads -> Locals]
  BY NextTypeOK, ThreadsApart DEF LastInv
<1> SUFFICES RecordedOrInHand' /\ HandedOverIsRecorded'
  BY <1>0 DEF LastInv
<1>1. ASSUME NEW th \in Publishers, Publishing(th)
      PROVE  RecordedOrInHand' /\ HandedOverIsRecorded'
  <2>0. /\ UNCHANGED link /\ \A o \in Threads : o # th => thread'[o] = thread[o]
        /\ th \in Threads /\ thread[th] \in Locals
    BY <1>0, <1>1, PublishingFrame DEF Publishing
  <2>a. ASSUME UNCHANGED last, \A t \in StateTopics : retained'[t] = retained[t],
               thread[th].pc # "send", thread'[th].pc # "send"
        PROVE  RecordedOrInHand' /\ HandedOverIsRecorded'
    BY <1>0, <2>0, <2>a, NothingInHandChanges
  <2>1. CASE StartPublish(th)
    <3>1. thread[th].pc # "send" /\ thread'[th].pc # "send"
      BY <1>0, <2>0, <2>1 DEF StartPublish, At, Goto, Locals
    <3> QED
      BY <2>a, <2>1, <3>1 DEF StartPublish
  <2>2. CASE Discovery(th)
    BY <1>0, <2>0, <2>a, <2>2, DiscoveryFrame
  <2>3. CASE Build(th)
    <3>1. thread[th].pc # "send" /\ thread'[th].pc # "send"
      BY <1>0, <2>0, <2>3 DEF Build, At, Goto, Locals
    <3> QED
      BY <2>a, <2>3, <3>1 DEF Build
  <2> QED
    BY <1>1, <2>1, <2>2, <2>3, CheckLast, SendLast DEF Publishing
\* A step of another goroutine than publish's.
<1>a. ASSUME UNCHANGED last, \A t \in StateTopics : retained'[t] = retained[t],
             link' = "up" => link = "up", thread' = thread
      PROVE  RecordedOrInHand' /\ HandedOverIsRecorded'
  BY <1>a, NothingInHandChanges
<1>b. ASSUME UNCHANGED last, \A th \in Publishers : thread'[th] = thread[th],
             link' # "up" \/ thread'[OnConnect].pc # "idle"
      PROVE  RecordedOrInHand' /\ HandedOverIsRecorded'
  BY <1>b, NothingToRetain
<1>2. CASE Connecting
  <2>1. CASE Discovery(OnConnect)
    <3>1. /\ UNCHANGED last /\ thread'[OnConnect].pc # "idle"
          /\ \A th \in Publishers : thread'[th] = thread[th]
      BY <1>0, <2>1, DiscoveryFrame, PublishingFrame
    <3> QED
      BY <1>b, <3>1
  <2>2. CASE SayOnline
    <3>1. thread'[OnConnect].pc = "clear" /\ \A th \in Publishers : thread'[th] = thread[th]
      BY <1>0, <2>2 DEF SayOnline, Goto, Locals
    <3> QED
      BY <1>b, <2>2, <3>1 DEF SayOnline
  <2>3. CASE Clear
    <3>1. /\ \A th \in Publishers : thread'[th] = thread[th]
          /\ \A t \in StateTopics : last'[t] = None
      BY <1>0, <2>3 DEF Clear
    <3> QED
      BY <3>1 DEF RecordedOrInHand, HandedOverIsRecorded
  <2> QED
    BY <1>2, <2>1, <2>2, <2>3 DEF Connecting
<1>3. CASE Terminate
  BY <1>a, <1>3 DEF Terminate
<1>4. CASE SayOffline
  <2>1. thread[Ticker].pc = "idle" /\ Goto(Ticker, "disconnect") /\ UNCHANGED <<last, link>>
    BY <1>4 DEF SayOffline, At
  <2>2. /\ thread'[Ticker] = [thread[Ticker] EXCEPT !.pc = "disconnect"]
        /\ \A o \in Threads : o # Ticker => thread'[o] = thread[o]
    BY <1>0, <2>1, GotoTypes DEF PCs
  <2>3. \A t \in StateTopics : retained'[t] = retained[t]
    <3>1. /\ retained' = [retained EXCEPT !["availability"] = "offline"] \/ retained' = retained
          /\ DOMAIN retained = AllTopics
      BY <1>0, <1>4 DEF SayOffline, Publish, TypeOK
    <3> QED
      BY <1>0, <3>1
  <2>4. thread[Ticker].pc # "send" /\ thread'[Ticker].pc # "send" /\ thread'[OnConnect] = thread[OnConnect]
    BY <1>0, <2>1, <2>2 DEF Locals
  <2> QED
    BY <1>0, <2>1, <2>2, <2>3, <2>4, NothingInHandChanges
<1>5. CASE Disconnect
  <2>1. thread[Ticker].pc = "disconnect" /\ Goto(Ticker, "done") /\ link' = "closed" /\ UNCHANGED <<last, retained>>
    BY <1>5 DEF Disconnect, At
  <2>2. /\ thread'[Ticker] = [thread[Ticker] EXCEPT !.pc = "done"]
        /\ \A o \in Threads : o # Ticker => thread'[o] = thread[o]
    BY <1>0, <2>1, GotoTypes DEF PCs
  <2>3. thread[Ticker].pc # "send" /\ thread'[Ticker].pc # "send" /\ thread'[OnConnect] = thread[OnConnect]
    BY <1>0, <2>1, <2>2 DEF Locals
  <2> QED
    BY <1>0, <2>1, <2>2, <2>3, NothingInHandChanges
<1>6. CASE Exit
  BY <1>b, <1>6 DEF Exit
<1>7. CASE Reconnect
  <2>1. thread'[OnConnect].pc = "readUnit" /\ \A th \in Publishers : thread'[th] = thread[th]
    BY <1>0, <1>7 DEF Reconnect, Goto, Locals
  <2> QED
    BY <1>b, <1>7, <2>1 DEF Reconnect
<1>8. CASE LoseLink
  BY <1>b, <1>8 DEF LoseLink
<1>9. CASE PublishWill
  <2>1. \A t \in StateTopics : retained'[t] = retained[t]
    BY <1>0, <1>9 DEF PublishWill, Willed, TypeOK
  <2> QED
    BY <1>a, <1>9, <2>1 DEF PublishWill
<1>10. CASE RestartBroker
  BY <1>b, <1>10 DEF RestartBroker
<1>11. ASSUME NEW t \in StateTopics, NEW p \in Payloads, ChangeSource(t, p)
       PROVE  RecordedOrInHand' /\ HandedOverIsRecorded'
  BY <1>a, <1>11 DEF ChangeSource
<1>12. ASSUME NEW u \in Units, ChangeUnit(u)
       PROVE  RecordedOrInHand' /\ HandedOverIsRecorded'
  BY <1>a, <1>12 DEF ChangeUnit
<1>13. CASE UNCHANGED vars
  BY <1>a, <1>13 DEF vars
<1> QED
  BY <1>1, <1>2, <1>3, <1>4, <1>5, <1>6, <1>7, <1>8, <1>9, <1>10, <1>11, <1>12, <1>13 DEF Next

\* Whoever publishes, and whatever onConnect, reconnects, wills and broker restarts
\* do: as long as no two goroutines have a payload of the same topic in hand at
\* once, what publish would suppress as unchanged is what is retained.  That race
\* is the only thing that breaks lastState.
THEOREM RetainedButForRace == Spec /\ []OneHandover => []LastIsRetained
<1>1. Init => LastInv
  BY InitTypeOK DEF Init, LastInv, RecordedOrInHand, HandedOverIsRecorded, InHand, Threads, Nowhere
<1>2. LastInv /\ OneHandover' /\ [Next]_vars => LastInv'
  BY NextLast
<1>3. LastInv => LastIsRetained
  BY ThreadsApart DEF LastInv, RecordedOrInHand, InHand, LastIsRetained, Quiet
<1> QED
  BY <1>1, <1>2, <1>3, PTL DEF Spec

\* With the ticker as the only publisher, no two have: what is recorded as published
\* is what is retained.
THEOREM PublishedIsRetained ==
  ASSUME Publishers = {Ticker}
  PROVE  Spec => []LastIsRetained
<1>1. OneHandover
  BY DEF OneHandover
<1> QED
  BY <1>1, RetainedButForRace, PTL

-----------------------------------------------------------------------------
(* A bridge that is gone is offline, unless onConnect has the last word.   *)

\* Between shutdown's "offline" and its Disconnect, onConnect is not about to say
\* "online": what waiting for it in shutdown would give.  It may be anywhere else,
\* and the connection may come and go.
OfflineIsLast == ~(thread[Ticker].pc = "disconnect" /\ thread[OnConnect].pc = "online")

\* A session that has ended left no "online" behind: its will has been published,
\* its broker has forgotten everything, or "offline" came before the Disconnect;
\* and no "online" is stored that could be sent in between.
GoneInv ==
  /\ TypeOK
  /\ session = "up" <=> link = "up"
  /\ link = "up" => outbox["availability"] = None
  /\ session = "none" => retained["availability"] # "online"
  /\ thread[Ticker].pc = "disconnect" =>
       /\ link = "down" => outbox["availability"] # "online"
       /\ link = "up" => retained["availability"] # "online"

\* Publishing on another topic leaves what is stored for this one.
LEMMA OutboxFrame ==
  ASSUME TypeOK, NEW th \in Threads,
         StartPublish(th) \/ Discovery(th) \/ Build(th) \/ Check(th) \/ Send(th)
  PROVE  outbox'["availability"] = outbox["availability"]
<1>0. /\ "climate" # "availability" /\ "sensors" # "availability"
      /\ "availability" \in AllTopics /\ \A t \in StateTopics : t # "availability"
  BY BridgeAssumption DEF AllTopics, StateTopics
<1>1. ASSUME NEW topic, NEW payload, topic # "availability", Publish(topic, payload)
      PROVE  outbox'["availability"] = outbox["availability"]
  BY <1>0, <1>1 DEF TypeOK, Publish
<1>2. CASE Send(th)
  <2>1. Topics[thread[th].next] \in StateTopics
    BY TopicVisited DEF TypeOK, Locals
  <2> QED
    BY <1>0, <1>1, <1>2, <2>1 DEF Send
<1>3. CASE Discovery(th)
  BY <1>0, <1>1, <1>3 DEF Discovery, ReadUnit, SetUnit, SendClimate, SendSensors
<1> QED
  BY <1>2, <1>3 DEF StartPublish, Build, Check

\* And leads nowhere near Disconnect.
LEMMA NotDisconnecting ==
  ASSUME TypeOK, NEW th \in Threads,
         StartPublish(th) \/ Discovery(th) \/ Build(th) \/ Check(th) \/ Send(th)
  PROVE  thread'[th].pc # "disconnect"
<1>0. thread \in [Threads -> Locals]
  BY DEF TypeOK
<1>1. CASE StartPublish(th)
  BY <1>0, <1>1 DEF StartPublish, Goto, Locals
<1>2. CASE Discovery(th)
  BY <1>2, DiscoveryFrame
<1>3. CASE Build(th)
  BY <1>0, <1>3 DEF Build, Goto, Locals
<1>4. CASE Check(th)
  <2>1. CASE Proceed(th)
    BY <2>1, ProceedTypes
  <2>2. CASE Goto(th, "send")
    BY <1>0, <2>2 DEF Goto, Locals
  <2> QED
    BY <1>4, <2>1, <2>2 DEF Check
<1>5. CASE Send(th)
  BY <1>5, ProceedTypes DEF Send
<1> QED
  BY <1>1, <1>2, <1>3, <1>4, <1>5

LEMMA NextGone ==
  ASSUME GoneInv, OfflineIsLast, [Next]_vars
  PROVE  GoneInv'
<1>0. /\ TypeOK /\ TypeOK'
      /\ Ticker \in Threads /\ OnConnect \in Threads /\ OnConnect # Ticker
      /\ Publishers \subseteq Threads /\ "availability" \in AllTopics
      /\ None # "online" /\ None # "offline"
      /\ thread \in [Threads -> Locals]
      /\ retained \in [AllTopics -> Messages] /\ outbox \in [AllTopics -> Messages]
  BY NextTypeOK, BridgeAssumption DEF GoneInv, Threads, AllTopics, TypeOK
\* A step that has nothing to do with availability.
<1>a. ASSUME UNCHANGED <<link, session>>,
             outbox'["availability"] = outbox["availability"],
             retained'["availability"] = retained["availability"],
             thread'[Ticker].pc = "disconnect" => thread[Ticker].pc = "disconnect"
      PROVE  GoneInv'
  BY <1>0, <1>a DEF GoneInv
<1>1. ASSUME NEW th \in Threads,
             StartPublish(th) \/ Discovery(th) \/ Build(th) \/ Check(th) \/ Send(th)
      PROVE  GoneInv'
  <2>1. /\ UNCHANGED <<link, session>>
        /\ \A o \in Threads : o # th => thread'[o] = thread[o]
        /\ retained'["availability"] = retained["availability"]
    BY <1>0, <1>1, PublishingFrame
  <2>2. thread'[Ticker].pc = "disconnect" => thread[Ticker].pc = "disconnect"
    BY <1>0, <1>1, <2>1, NotDisconnecting
  <2>3. outbox'["availability"] = outbox["availability"]
    BY <1>0, <1>1, OutboxFrame
  <2> QED
    BY <1>a, <2>1, <2>2, <2>3
<1>2. CASE SayOnline
  <2>1. thread[OnConnect].pc = "online" /\ Goto(OnConnect, "clear") /\ UNCHANGED <<link, session>>
    BY <1>2 DEF SayOnline, At
  <2>2. thread'[Ticker] = thread[Ticker] /\ thread[Ticker].pc # "disconnect"
    BY <1>0, <2>1, GotoTypes DEF PCs, OfflineIsLast
  <2>3. /\ link # "up" => retained'["availability"] = retained["availability"]
        /\ link # "down" => outbox'["availability"] = outbox["availability"]
    BY <1>2 DEF SayOnline, Publish
  <2> QED
    BY <1>0, <2>1, <2>2, <2>3 DEF GoneInv
<1>3. CASE Clear
  <2>1. thread'[Ticker] = thread[Ticker] /\ UNCHANGED <<link, session, outbox, retained>>
    BY <1>0, <1>3 DEF Clear
  <2> QED
    BY <1>a, <2>1
<1>4. CASE SayOffline
  <2>1. /\ link = "up" => retained'["availability"] = "offline"
        /\ link # "up" => retained' = retained
        /\ link = "down" => outbox'["availability"] = "offline"
        /\ link # "down" => outbox' = outbox
        /\ UNCHANGED <<link, session>>
    BY <1>0, <1>4 DEF SayOffline, Publish
  <2> QED
    BY <1>0, <2>1 DEF GoneInv
<1>5. CASE Disconnect
  <2>1. thread[Ticker].pc = "disconnect" /\ link' = "closed" /\ UNCHANGED <<retained, outbox>>
        /\ session' = IF link = "up" THEN "none" ELSE session
    BY <1>5 DEF Disconnect, At
  <2> QED
    BY <1>0, <2>1 DEF GoneInv
<1>6. CASE Exit
  BY <1>0, <1>6 DEF Exit, GoneInv
<1>7. CASE Reconnect
  <2>1. /\ link = "down" /\ link' = "up" /\ session' = "up"
        /\ outbox'["availability"] = None
        /\ retained'["availability"] \in {outbox["availability"], Willed["availability"]}
        /\ outbox["availability"] = None => retained'["availability"] = Willed["availability"]
    BY <1>0, <1>7 DEF Reconnect
  <2>2. thread'[Ticker] = thread[Ticker]
    BY <1>0, <1>7 DEF Reconnect, Goto
  <2>3. Willed["availability"] # "online"
    BY <1>0, <2>1 DEF Willed, GoneInv, TypeOK
  <2> QED
    BY <1>0, <2>1, <2>2, <2>3 DEF GoneInv
<1>8. CASE LoseLink
  BY <1>0, <1>8 DEF LoseLink, GoneInv
<1>9. CASE PublishWill
  <2>1. retained'["availability"] = "offline"
    BY <1>0, <1>9 DEF PublishWill, Willed
  <2> QED
    BY <1>0, <1>9, <2>1 DEF PublishWill, GoneInv
<1>10. CASE RestartBroker
  <2>1. /\ retained'["availability"] = None /\ session' = "none" /\ link' # "up"
        /\ link' = "down" => link \in {"up", "down"}
        /\ UNCHANGED <<thread, outbox>>
    BY <1>0, <1>10 DEF RestartBroker, TypeOK
  <2> QED
    BY <1>0, <2>1 DEF GoneInv
<1>11. CASE Terminate \/ (\E t \in StateTopics, p \in Payloads : ChangeSource(t, p))
            \/ (\E u \in Units : ChangeUnit(u)) \/ UNCHANGED vars
  BY <1>a, <1>11 DEF Terminate, ChangeSource, ChangeUnit, vars
<1> QED
  BY <1>0, <1>1, <1>2, <1>3, <1>4, <1>5, <1>6, <1>7, <1>8, <1>9, <1>10, <1>11
  DEF Next, Publishing, Connecting

\* A daemon that is gone is not retained as online, however it went and however
\* many goroutines published, as long as onConnect does not say "online" between
\* shutdown's "offline" and its Disconnect: that is the only way it can happen.
THEOREM GoneButForRace == Spec /\ []OfflineIsLast => []OfflineWhenGone
<1>1. Init => GoneInv
  <2> SUFFICES ASSUME Init PROVE GoneInv
    OBVIOUS
  <2>1. /\ "availability" \in AllTopics /\ Ticker \in Threads /\ None # "online"
    BY BridgeAssumption DEF AllTopics, Threads
  <2> QED
    BY <2>1, InitTypeOK DEF Init, GoneInv, Nowhere
<1>2. GoneInv /\ OfflineIsLast /\ [Next]_vars => GoneInv'
  BY NextGone
<1>3. GoneInv => OfflineWhenGone
  BY DEF GoneInv, OfflineWhenGone
<1> QED
  BY <1>1, <1>2, <1>3, PTL DEF Spec
=============================================================================
