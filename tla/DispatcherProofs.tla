-------------------------- MODULE DispatcherProofs --------------------------
(***************************************************************************)
(* Proofs about Dispatcher, for any keys, values, sockets and capacities:  *)
(* its types, that the dispatcher never panics, that what is in flight to  *)
(* a client ends in what the cache holds, and that the clients are fed as  *)
(* Feed promises.                                                          *)
(***************************************************************************)
EXTENDS Dispatcher, SequenceTheorems, TLAPS

-----------------------------------------------------------------------------
(* Sequences of events.                                                    *)

\* The last event about a key after one more event is appended.
LEMMA AppendCarries ==
  ASSUME NEW q \in Seq(Events), NEW e \in Events, NEW k, NEW v,
         IF e.source = k THEN e.data = v ELSE LastCarries(q, k, v)
  PROVE  LastCarries(Append(q, e), k, v)
<1>1. /\ DOMAIN q = 1 .. Len(q) /\ Len(q) \in Nat
      /\ DOMAIN Append(q, e) = 1 .. Len(q) + 1
      /\ Append(q, e)[Len(q) + 1] = e
      /\ \A i \in DOMAIN q : Append(q, e)[i] = q[i]
  OBVIOUS
<1>2. SUFFICES ASSUME NEW i \in About(Append(q, e), k),
                      \A j \in About(Append(q, e), k) : j <= i
               PROVE  Append(q, e)[i].data = v
  BY DEF LastCarries
<1>3. CASE e.source = k
  <2>1. Len(q) + 1 \in About(Append(q, e), k)
    BY <1>1, <1>3 DEF About
  <2>2. i = Len(q) + 1
    BY <1>1, <1>2, <2>1 DEF About
  <2> QED
    BY <1>1, <1>3, <2>2
<1>4. CASE e.source # k
  <2>1. About(Append(q, e), k) = About(q, k)
    BY <1>1, <1>4 DEF About
  <2> QED
    BY <1>1, <1>2, <1>4, <2>1 DEF About, LastCarries
<1> QED
  BY <1>3, <1>4

\* And whether there is one at all.
LEMMA AppendAbout ==
  ASSUME NEW q \in Seq(Events), NEW e \in Events, NEW k
  PROVE  About(Append(q, e), k) = {} => e.source # k /\ About(q, k) = {}
<1>1. /\ DOMAIN q = 1 .. Len(q) /\ Len(q) \in Nat
      /\ DOMAIN Append(q, e) = 1 .. Len(q) + 1
      /\ Append(q, e)[Len(q) + 1] = e
      /\ \A i \in DOMAIN q : Append(q, e)[i] = q[i]
  OBVIOUS
<1> QED
  BY <1>1 DEF About

\* The first event leaves: the last about a key is still the last.
LEMMA TailCarries ==
  ASSUME NEW q \in Seq(Events), q # <<>>, NEW k, NEW v, LastCarries(q, k, v)
  PROVE  LastCarries(Tail(q), k, v)
<1>1. /\ DOMAIN q = 1 .. Len(q) /\ Len(q) \in Nat \ {0}
      /\ DOMAIN Tail(q) = 1 .. Len(q) - 1
      /\ \A i \in DOMAIN Tail(q) : i + 1 \in DOMAIN q /\ Tail(q)[i] = q[i + 1]
  OBVIOUS
<1>2. SUFFICES ASSUME NEW i \in About(Tail(q), k), \A j \in About(Tail(q), k) : j <= i
               PROVE  Tail(q)[i].data = v
  BY DEF LastCarries
<1>3. i + 1 \in About(q, k)
  BY <1>1 DEF About
<1>4. ASSUME NEW j \in About(q, k) PROVE j <= i + 1
  <2>1. CASE j = 1
    BY <1>1, <2>1 DEF About
  <2>2. CASE j # 1
    <3>1. j - 1 \in DOMAIN Tail(q) /\ j = (j - 1) + 1
      BY <1>1, <2>2 DEF About
    <3>2. j - 1 \in About(Tail(q), k)
      BY <1>1, <3>1 DEF About
    <3> QED
      BY <1>1, <1>2, <3>1, <3>2 DEF About
  <2> QED
    BY <2>1, <2>2
<1>5. q[i + 1].data = v
  BY <1>3, <1>4 DEF LastCarries
<1> QED
  BY <1>1, <1>5 DEF About

\* The first event leaves and no event about the key is left: either there was
\* none, or the first was the only one.
LEMMA TailAbout ==
  ASSUME NEW q \in Seq(Events), q # <<>>, NEW k, NEW v, LastCarries(q, k, v),
         About(Tail(q), k) = {}
  PROVE  IF Head(q).source = k THEN Head(q).data = v ELSE About(q, k) = {}
<1>1. /\ DOMAIN q = 1 .. Len(q) /\ Len(q) \in Nat \ {0}
      /\ DOMAIN Tail(q) = 1 .. Len(q) - 1
      /\ \A i \in DOMAIN Tail(q) : i + 1 \in DOMAIN q /\ Tail(q)[i] = q[i + 1]
      /\ Head(q) = q[1]
  OBVIOUS
<1>2. ASSUME NEW i \in About(q, k) PROVE i = 1
  <2>1. SUFFICES ASSUME i # 1 PROVE FALSE
    OBVIOUS
  <2>2. i - 1 \in DOMAIN Tail(q) /\ i = (i - 1) + 1
    BY <1>1, <2>1 DEF About
  <2>3. i - 1 \in About(Tail(q), k)
    BY <1>1, <2>2 DEF About
  <2> QED
    BY <2>3
<1>3. CASE Head(q).source = k
  <2>1. 1 \in About(q, k)
    BY <1>1, <1>3 DEF About
  <2> QED
    BY <1>1, <1>2, <1>3, <2>1 DEF LastCarries
<1>4. CASE Head(q).source # k
  <2>1. 1 \notin About(q, k)
    BY <1>1, <1>4 DEF About
  <2> QED
    BY <1>2, <1>4, <2>1
<1> QED
  BY <1>3, <1>4

\* An event is appended to a concatenation.
LEMMA AppendToConcat ==
  ASSUME NEW q \in Seq(Events), NEW r \in Seq(Events), NEW e \in Events
  PROVE  q \o Append(r, e) = Append(q \o r, e)
<1>1. /\ q \o Append(r, e) \in Seq(Events) /\ Append(q \o r, e) \in Seq(Events)
      /\ Len(q \o Append(r, e)) = Len(Append(q \o r, e))
  BY ConcatProperties, AppendProperties
<1>2. \A i \in 1 .. Len(q \o Append(r, e)) : (q \o Append(r, e))[i] = Append(q \o r, e)[i]
  OBVIOUS
<1> QED
  BY <1>1, <1>2, SeqEqual

\* The first element of a concatenation leaves.
LEMMA TailOfConcat ==
  ASSUME NEW q \in Seq(Events), q # <<>>, NEW r \in Seq(Events)
  PROVE  Tail(q \o r) = Tail(q) \o r
<1>1. /\ Tail(q) \in Seq(Events) /\ Len(q) \in Nat \ {0} /\ Len(r) \in Nat
      /\ Len(Tail(q)) = Len(q) - 1 /\ \A i \in 1 .. Len(q) - 1 : Tail(q)[i] = q[i + 1]
  OBVIOUS
<1>2. /\ q \o r \in Seq(Events) /\ Len(q \o r) = Len(q) + Len(r) /\ q \o r # <<>>
      /\ \A i \in 1 .. Len(q) + Len(r) : (q \o r)[i] = IF i <= Len(q) THEN q[i] ELSE r[i - Len(q)]
  BY <1>1, ConcatProperties, ConcatEqualIffEmpty, EmptySeq
<1> DEFINE s == Tail(q \o r)
           t == Tail(q) \o r
<1>3. /\ s \in Seq(Events) /\ Len(s) = Len(q) + Len(r) - 1
      /\ \A i \in 1 .. Len(s) : s[i] = (q \o r)[i + 1]
  BY <1>1, <1>2, HeadTailProperties
<1>4. /\ t \in Seq(Events) /\ Len(t) = Len(q) + Len(r) - 1
      /\ \A i \in 1 .. Len(t) :
           t[i] = IF i <= Len(q) - 1 THEN Tail(q)[i] ELSE r[i - (Len(q) - 1)]
  BY <1>1, ConcatProperties
<1> HIDE DEF s, t
<1>5. ASSUME NEW i \in 1 .. Len(s) PROVE s[i] = t[i]
  <2>1. CASE i <= Len(q) - 1
    BY <1>1, <1>2, <1>3, <1>4, <2>1
  <2>2. CASE i > Len(q) - 1
    <3>1. i + 1 > Len(q) /\ (i + 1) - Len(q) = i - (Len(q) - 1) /\ i + 1 \in 1 .. Len(q) + Len(r)
      BY <1>1, <1>3, <2>2
    <3> QED
      BY <1>1, <1>2, <1>3, <1>4, <2>2, <3>1
  <2> QED
    BY <1>1, <1>3, <2>1, <2>2
<1> QED
  BY <1>3, <1>4, <1>5, SeqEqual DEF s, t

\* Handing the head of a sequence over to the one before it changes nothing.
LEMMA HandOver ==
  ASSUME NEW q \in Seq(Events), NEW r \in Seq(Events), r # <<>>
  PROVE  Append(q, Head(r)) \o Tail(r) = q \o r
<1>1. /\ Head(r) \in Events /\ Tail(r) \in Seq(Events)
      /\ Len(Tail(r)) = Len(r) - 1 /\ Len(r) \in Nat \ {0} /\ Head(r) = r[1]
      /\ \A i \in 1 .. Len(r) - 1 : Tail(r)[i] = r[i + 1]
  OBVIOUS
<1>2. /\ Append(q, Head(r)) \in Seq(Events) /\ Len(q) \in Nat
      /\ Len(Append(q, Head(r))) = Len(q) + 1
      /\ Append(q, Head(r))[Len(q) + 1] = Head(r)
      /\ \A i \in 1 .. Len(q) : Append(q, Head(r))[i] = q[i]
  BY <1>1
<1> DEFINE s == Append(q, Head(r)) \o Tail(r)
           t == q \o r
<1>3. /\ s \in Seq(Events) /\ Len(s) = Len(q) + Len(r)
      /\ t \in Seq(Events) /\ Len(t) = Len(q) + Len(r)
  BY <1>1, <1>2, ConcatProperties
<1>4. ASSUME NEW i \in 1 .. Len(s) PROVE s[i] = t[i]
  <2>1. s[i] = IF i <= Len(q) + 1 THEN Append(q, Head(r))[i] ELSE Tail(r)[i - (Len(q) + 1)]
    BY <1>1, <1>2, <1>3, ConcatProperties
  <2>2. t[i] = IF i <= Len(q) THEN q[i] ELSE r[i - Len(q)]
    BY <1>1, <1>2, <1>3, ConcatProperties
  <2>3. CASE i <= Len(q)
    BY <1>2, <1>3, <2>1, <2>2, <2>3
  <2>4. CASE i = Len(q) + 1
    BY <1>1, <1>2, <2>1, <2>2, <2>4
  <2>5. CASE i > Len(q) + 1
    <3>1. i - (Len(q) + 1) \in 1 .. Len(r) - 1 /\ (i - (Len(q) + 1)) + 1 = i - Len(q)
      BY <1>1, <1>2, <1>3, <2>5
    <3> QED
      BY <1>1, <1>2, <2>1, <2>2, <2>5, <3>1
  <2> QED
    BY <1>2, <1>3, <2>3, <2>4, <2>5
<1> HIDE DEF s, t
<1> QED
  BY <1>3, <1>4, SeqEqual DEF s, t

-----------------------------------------------------------------------------
(* Types.                                                                  *)

LEMMA InitTypeOK == Init => TypeOK
  BY DispatcherAssumption DEF Init, TypeOK, Contents, Events

LEMMA NextTypeOK == TypeOK /\ [Next]_vars => TypeOK'
<1> SUFFICES ASSUME TypeOK, [Next]_vars PROVE TypeOK'
  OBVIOUS
<1> USE DispatcherAssumption
<1>1. ASSUME NEW k \in Keys, NEW v \in Values, Update(k, v) PROVE TypeOK'
  BY <1>1 DEF Update, TypeOK, Contents, Events
<1>2. CASE BroadcastEvent
  <2>1. pending \in Events
    BY <1>2 DEF BroadcastEvent, TypeOK
  <2>2. broadcast' \in Seq(Events) /\ Len(broadcast') = Len(broadcast) + 1
    BY <1>2, <2>1, AppendProperties DEF BroadcastEvent, TypeOK
  <2> QED
    BY <1>2, <2>1, <2>2 DEF BroadcastEvent, TypeOK
<1>3. CASE Deliver
  <2>1. Head(broadcast) \in Events /\ broadcast' \in Seq(Events)
        /\ Len(broadcast') = Len(broadcast) - 1
    BY <1>3, HeadTailProperties DEF Deliver, TypeOK
  <2>2. ASSUME NEW s \in Sockets
        PROVE  ch'[s] \in Seq(Events) /\ Len(ch'[s]) <= ListenerCap
    <3>1. ch'[s] = IF s \in listeners \ Full THEN Append(ch[s], Head(broadcast)) ELSE ch[s]
      BY <1>3 DEF Deliver, Distribute
    <3>2. /\ Append(ch[s], Head(broadcast)) \in Seq(Events)
          /\ Len(Append(ch[s], Head(broadcast))) = Len(ch[s]) + 1
      BY <2>1, AppendProperties DEF TypeOK
    <3> QED
      BY <3>1, <3>2 DEF TypeOK, Full
  <2>3. ch' \in [Sockets -> Seq(Events)]
    BY <1>3, <2>2 DEF Deliver, Distribute
  <2>4. closes' \in [Sockets -> Nat] /\ listeners' \subseteq Sockets
    BY <1>3 DEF Deliver, TypeOK
  <2> QED
    BY <1>3, <2>1, <2>2, <2>3, <2>4 DEF Deliver, TypeOK
<1>4. CASE Stop
  BY <1>4 DEF Stop, TypeOK
<1>5. ASSUME NEW s \in Sockets, Register(s) PROVE TypeOK'
  BY <1>5 DEF Register, TypeOK
<1>6. ASSUME NEW s \in Sockets, Deregister(s) PROVE TypeOK'
  BY <1>6 DEF Deregister, TypeOK
<1>7. ASSUME NEW s \in Sockets, Connect(s) PROVE TypeOK'
  BY <1>7 DEF Connect, TypeOK, Contents
<1>8. ASSUME NEW s \in Sockets, Dump(s) PROVE TypeOK'
  BY <1>8 DEF Dump, TypeOK
<1>9. ASSUME NEW s \in Sockets, Forward(s) PROVE TypeOK'
  <2>1. Head(ch[s]) \in Events /\ Tail(ch[s]) \in Seq(Events)
        /\ Len(Tail(ch[s])) = Len(ch[s]) - 1
    BY <1>9, HeadTailProperties DEF Forward, TypeOK
  <2>2. ch' \in [Sockets -> Seq(Events)] /\ \A r \in Sockets : Len(ch'[r]) <= ListenerCap
    BY <1>9, <2>1 DEF Forward, TypeOK
  <2>3. view' \in [Sockets -> Contents]
    <3>1. Head(ch[s]).source \in Keys /\ Head(ch[s]).data \in Values
      BY <2>1 DEF Events
    <3>2. [view[s] EXCEPT ![Head(ch[s]).source] = Head(ch[s]).data] \in Contents
      BY <3>1 DEF TypeOK, Contents
    <3>3. \/ view' = view
          \/ view' = [view EXCEPT ![s] = [view[s] EXCEPT ![Head(ch[s]).source] = Head(ch[s]).data]]
      BY <1>9 DEF Forward
    <3> QED
      BY <3>2, <3>3 DEF TypeOK
  <2> QED
    BY <1>9, <2>2, <2>3 DEF Forward, TypeOK
<1>10. ASSUME NEW s \in Sockets, EndOfEvents(s) PROVE TypeOK'
  BY <1>10 DEF EndOfEvents, TypeOK
<1>11. CASE UNCHANGED vars
  BY <1>11 DEF vars, TypeOK
<1> QED
  BY <1>1, <1>2, <1>3, <1>4, <1>5, <1>6, <1>7, <1>8, <1>9, <1>10, <1>11 DEF Next, Socket

\* The cache, the dispatcher and the websocket handlers keep their types, and
\* no channel holds more than its capacity.
THEOREM DispatcherTypes == Spec => []TypeOK
<1>1. Init => TypeOK
  BY InitTypeOK
<1>2. TypeOK /\ [Next]_vars => TypeOK'
  BY NextTypeOK
<1> QED
  BY <1>1, <1>2, PTL DEF Spec

-----------------------------------------------------------------------------
(* Channels are closed once, by whoever removes the listener.              *)

\* A listener is one whose NewListener returned; a channel not yet registered
\* is new.
Registered ==
  \A s \in Sockets :
    /\ s \in listeners => pc[s] \in {"dumping", "streaming", "closing"}
    /\ pc[s] = "registering" => ch[s] = <<>> /\ closes[s] = 0

ClosingInv == TypeOK /\ NeverPanics /\ Registered

LEMMA InitClosing == Init => ClosingInv
  BY InitTypeOK DEF ClosingInv, Init, NeverPanics, Registered

LEMMA NextClosing == ClosingInv /\ [Next]_vars => ClosingInv'
<1> SUFFICES ASSUME ClosingInv, [Next]_vars PROVE ClosingInv'
  OBVIOUS
<1>0. TypeOK' /\ TypeOK
  BY NextTypeOK DEF ClosingInv
<1>1. ASSUME NEW k \in Keys, NEW v \in Values, Update(k, v) PROVE ClosingInv'
  BY <1>0, <1>1 DEF ClosingInv, Update, NeverPanics, Registered
<1>2. CASE BroadcastEvent
  BY <1>0, <1>2 DEF ClosingInv, BroadcastEvent, NeverPanics, Registered
<1>3. CASE Deliver
  <2>1. NeverPanics'
    BY <1>0, <1>3 DEF ClosingInv, Deliver, Full, NeverPanics, TypeOK
  <2>2. Registered'
    BY <1>0, <1>3 DEF ClosingInv, Deliver, Distribute, Full, Registered, TypeOK
  <2> QED
    BY <1>0, <2>1, <2>2 DEF ClosingInv
<1>4. CASE Stop
  BY <1>0, <1>4 DEF ClosingInv, Stop, NeverPanics, Registered
<1>5. ASSUME NEW s \in Sockets, Register(s) PROVE ClosingInv'
  BY <1>0, <1>5 DEF ClosingInv, Register, NeverPanics, Registered, TypeOK
<1>6. ASSUME NEW s \in Sockets, Deregister(s) PROVE ClosingInv'
  BY <1>0, <1>6 DEF ClosingInv, Deregister, NeverPanics, Registered, TypeOK
<1>7. ASSUME NEW s \in Sockets, Connect(s) PROVE ClosingInv'
  BY <1>0, <1>7 DEF ClosingInv, Connect, NeverPanics, Registered, TypeOK
<1>8. ASSUME NEW s \in Sockets, Dump(s) PROVE ClosingInv'
  BY <1>0, <1>8 DEF ClosingInv, Dump, NeverPanics, Registered, TypeOK
<1>9. ASSUME NEW s \in Sockets, Forward(s) PROVE ClosingInv'
  BY <1>0, <1>9 DEF ClosingInv, Forward, NeverPanics, Registered, TypeOK
<1>10. ASSUME NEW s \in Sockets, EndOfEvents(s) PROVE ClosingInv'
  BY <1>0, <1>10 DEF ClosingInv, EndOfEvents, NeverPanics, Registered, TypeOK
<1>11. CASE UNCHANGED vars
  BY <1>0, <1>11 DEF ClosingInv, vars, NeverPanics, Registered
<1> QED
  BY <1>1, <1>2, <1>3, <1>4, <1>5, <1>6, <1>7, <1>8, <1>9, <1>10, <1>11 DEF Next, Socket

\* The dispatcher goroutine never closes a channel twice and never sends to a
\* closed one, in whatever order slow clients are dropped and handlers close.
THEOREM DispatcherNeverPanics == Spec => []NeverPanics
<1>1. Init => ClosingInv
  BY InitClosing
<1>2. ClosingInv /\ [Next]_vars => ClosingInv'
  BY NextClosing
<1>3. ClosingInv => NeverPanics
  BY DEF ClosingInv
<1> QED
  BY <1>1, <1>2, <1>3, PTL DEF Spec

-----------------------------------------------------------------------------
(* What is in flight ends in what the cache holds.                         *)

\* For whoever registers now, and for every listener.
BacklogIsCurrent == \A k \in Keys : LastCarries(Backlog, k, cache[k])
InFlightIsCurrent == \A s \in listeners, k \in Keys : LastCarries(InFlight(s), k, cache[k])

FlightInv == ClosingInv /\ BacklogIsCurrent /\ InFlightIsCurrent /\ LastEventIsCached

LEMMA InFlightTypes ==
  ASSUME TypeOK
  PROVE  /\ Backlog \in Seq(Events)
         /\ \A s \in Sockets : ch[s] \in Seq(Events) /\ InFlight(s) \in Seq(Events)
<1>1. (IF pending = NoEvent THEN <<>> ELSE <<pending>>) \in Seq(Events)
  BY DEF TypeOK
<1>2. Backlog \in Seq(Events)
  BY <1>1, ConcatProperties DEF TypeOK, Backlog
<1> QED
  BY <1>2, ConcatProperties DEF TypeOK, InFlight

\* An update appends its event to everything in flight.
LEMMA UpdateAppends ==
  ASSUME TypeOK, NEW k \in Keys, NEW v \in Values, Update(k, v)
  PROVE  LET e == [source |-> k, data |-> v]
         IN  /\ Backlog' = Append(Backlog, e)
             /\ \A s \in Sockets : InFlight(s)' = Append(InFlight(s), e)
<1> DEFINE e == [source |-> k, data |-> v]
<1>1. e \in Events /\ e # NoEvent
  BY NoEventAssumption DEF Events
<1>2. pending = NoEvent /\ pending' = e /\ UNCHANGED <<broadcast, ch>>
  BY DEF Update
<1> HIDE DEF e
<1>3. Backlog' = Append(Backlog, e)
  <2>1. Backlog = broadcast \o <<>> /\ Backlog' = broadcast \o <<e>>
    BY <1>1, <1>2 DEF Backlog
  <2> QED
    BY <1>1, <2>1, ConcatEmptySeq, AppendIsConcat DEF TypeOK
<1>4. ASSUME NEW s \in Sockets PROVE InFlight(s)' = Append(InFlight(s), e)
  BY <1>1, <1>2, <1>3, InFlightTypes, AppendToConcat DEF InFlight
<1> QED
  BY <1>3, <1>4 DEF e

\* The event goes from the Update that waits into the dispatcher's channel.
LEMMA BroadcastKeeps ==
  ASSUME TypeOK, BroadcastEvent
  PROVE  Backlog' = Backlog
<1>1. /\ broadcast \in Seq(Events) /\ pending \in Events /\ pending # NoEvent
      /\ pending' = NoEvent /\ broadcast' = Append(broadcast, pending)
  BY DEF BroadcastEvent, TypeOK
<1>2. Backlog = broadcast \o <<pending>> /\ Backlog' = Append(broadcast, pending) \o <<>>
  BY <1>1 DEF Backlog
<1> QED
  BY <1>1, <1>2, AppendIsConcat, AppendProperties, ConcatEmptySeq

\* Distributing an event takes nothing from what is in flight to a listener
\* that is kept.
LEMMA DeliverTakes ==
  ASSUME TypeOK, Deliver
  PROVE  /\ Backlog # <<>> /\ Head(Backlog) = Head(broadcast) /\ Backlog' = Tail(Backlog)
         /\ \A s \in listeners \ Full : InFlight(s)' = InFlight(s)
<1> DEFINE rest == IF pending = NoEvent THEN <<>> ELSE <<pending>>
<1>1. /\ broadcast # <<>> /\ broadcast \in Seq(Events) /\ listeners \subseteq Sockets
      /\ Backlog \in Seq(Events) /\ \A s \in Sockets : ch[s] \in Seq(Events)
  BY InFlightTypes DEF TypeOK, Deliver
<1>2. Backlog # <<>> /\ Head(Backlog) = Head(broadcast) /\ Backlog' = Tail(Backlog)
  <2>1. rest \in Seq(Events) /\ Tail(broadcast) \in Seq(Events)
    BY <1>1, HeadTailProperties DEF TypeOK
  <2>2. Backlog = broadcast \o rest /\ Backlog' = Tail(broadcast) \o rest
    BY DEF Deliver, Backlog
  <2> HIDE DEF rest
  <2>3. Len(broadcast) \in Nat \ {0} /\ Len(rest) \in Nat
    BY <1>1, <2>1, EmptySeq, LenProperties
  <2>4. Len(Backlog) = Len(broadcast) + Len(rest) /\ Backlog[1] = broadcast[1]
    BY <1>1, <2>1, <2>2, <2>3, ConcatProperties
  <2>5. Backlog # <<>> /\ Head(Backlog) = Head(broadcast)
    BY <1>1, <2>3, <2>4
  <2>6. Tail(broadcast \o rest) = Tail(broadcast) \o rest
    BY <1>1, <2>1, TailOfConcat
  <2> QED
    BY <2>2, <2>5, <2>6
<1>3. ASSUME NEW s \in listeners \ Full PROVE InFlight(s)' = InFlight(s)
  <2>1. ch'[s] = Append(ch[s], Head(Backlog))
    BY <1>1, <1>2 DEF Deliver, Distribute
  <2> QED
    BY <1>1, <1>2, <2>1, HandOver DEF InFlight
<1> QED
  BY <1>2, <1>3

\* The oldest event in flight to a client leaves its channel.
LEMMA ForwardTakes ==
  ASSUME TypeOK, NEW s \in Sockets, Forward(s)
  PROVE  InFlight(s) # <<>> /\ Head(InFlight(s)) = Head(ch[s]) /\ InFlight(s)' = Tail(InFlight(s))
<1>1. ch[s] # <<>> /\ ch[s] \in Seq(Events) /\ Backlog \in Seq(Events) /\ InFlight(s) \in Seq(Events)
  BY InFlightTypes DEF Forward
<1>2. ch'[s] = Tail(ch[s]) /\ Backlog' = Backlog
  BY DEF Forward, TypeOK, Backlog
<1>3. Len(ch[s]) \in Nat \ {0} /\ Len(Backlog) \in Nat
  BY <1>1, EmptySeq, LenProperties
<1>4. Len(InFlight(s)) = Len(ch[s]) + Len(Backlog) /\ InFlight(s)[1] = ch[s][1]
  BY <1>1, <1>3, ConcatProperties DEF InFlight
<1>5. InFlight(s) # <<>> /\ Head(InFlight(s)) = Head(ch[s])
  BY <1>1, <1>3, <1>4
<1> QED
  BY <1>1, <1>2, <1>5, TailOfConcat DEF InFlight

LEMMA InitFlight == Init => FlightInv
<1> SUFFICES ASSUME Init PROVE FlightInv
  OBVIOUS
<1>1. Backlog = <<>>
  BY DEF Init, Backlog
<1>2. BacklogIsCurrent
  BY <1>1 DEF BacklogIsCurrent, LastCarries, About
<1> QED
  BY <1>2, InitClosing DEF Init, FlightInv, InFlightIsCurrent, LastEventIsCached

LEMMA UpdateFlight ==
  ASSUME FlightInv, NEW k \in Keys, NEW v \in Values, Update(k, v)
  PROVE  BacklogIsCurrent' /\ InFlightIsCurrent' /\ LastEventIsCached'
<1> DEFINE e == [source |-> k, data |-> v]
<1>1. e \in Events /\ e # NoEvent
  BY NoEventAssumption DEF Events
<1>2. /\ TypeOK /\ Backlog \in Seq(Events) /\ listeners \subseteq Sockets
      /\ \A s \in Sockets : ch[s] \in Seq(Events) /\ InFlight(s) \in Seq(Events)
  BY InFlightTypes DEF FlightInv, ClosingInv, TypeOK
<1>3. /\ pending = NoEvent /\ pending' = e
      /\ UNCHANGED <<broadcast, listeners, ch, pc, view>>
  BY DEF Update
<1>4. \A j \in Keys : IF e.source = j THEN cache'[j] = e.data ELSE cache'[j] = cache[j]
  BY <1>2 DEF Update, TypeOK, Contents
<1> HIDE DEF e
<1>5. Backlog' = Append(Backlog, e)
  BY <1>2, UpdateAppends DEF e
<1>6. ASSUME NEW s \in Sockets PROVE InFlight(s)' = Append(InFlight(s), e)
  BY <1>2, UpdateAppends DEF e
<1>7. BacklogIsCurrent'
  BY <1>1, <1>2, <1>4, <1>5, AppendCarries DEF FlightInv, BacklogIsCurrent
<1>8. ASSUME NEW s \in listeners, NEW j \in Keys
      PROVE  /\ LastCarries(InFlight(s)', j, cache'[j])
             /\ About(InFlight(s)', j) = {} => About(InFlight(s), j) = {} /\ cache'[j] = cache[j]
  <2>1. s \in Sockets /\ InFlight(s) \in Seq(Events) /\ InFlight(s)' = Append(InFlight(s), e)
    BY <1>2, <1>6
  <2>2. LastCarries(InFlight(s), j, cache[j])
    BY DEF FlightInv, InFlightIsCurrent
  <2>3. IF e.source = j THEN e.data = cache'[j] ELSE LastCarries(InFlight(s), j, cache'[j])
    BY <1>4, <2>2
  <2> QED
    BY <1>1, <1>4, <2>1, <2>3, AppendCarries, AppendAbout
<1>9. InFlightIsCurrent'
  BY <1>3, <1>8 DEF InFlightIsCurrent
<1>10. LastEventIsCached'
  BY <1>3, <1>8 DEF FlightInv, LastEventIsCached
<1> QED
  BY <1>7, <1>9, <1>10

LEMMA DeliverFlight ==
  ASSUME FlightInv, Deliver
  PROVE  BacklogIsCurrent' /\ InFlightIsCurrent' /\ LastEventIsCached'
<1>1. /\ TypeOK /\ Backlog \in Seq(Events) /\ \A s \in Sockets : ch[s] \in Seq(Events)
  BY InFlightTypes DEF FlightInv, ClosingInv
<1>2. Backlog # <<>> /\ Head(Backlog) = Head(broadcast) /\ Backlog' = Tail(Backlog)
  BY <1>1, DeliverTakes
<1>3. ASSUME NEW s \in listeners' PROVE s \in listeners /\ s \in Sockets /\ InFlight(s)' = InFlight(s)
  <2>1. s \in listeners \ Full /\ s \in Sockets
    BY <1>1 DEF Deliver, TypeOK
  <2> QED
    BY <1>1, <2>1, DeliverTakes
<1>4. BacklogIsCurrent'
  BY <1>1, <1>2, TailCarries DEF FlightInv, BacklogIsCurrent, Deliver
<1>5. InFlightIsCurrent'
  BY <1>3 DEF FlightInv, InFlightIsCurrent, Deliver
<1>6. LastEventIsCached'
  BY <1>3 DEF FlightInv, LastEventIsCached, Deliver
<1> QED
  BY <1>4, <1>5, <1>6

\* The client is sent the first event in flight to it.
LEMMA ForwardFlight ==
  ASSUME FlightInv, NEW s \in Sockets, Forward(s)
  PROVE  BacklogIsCurrent' /\ InFlightIsCurrent' /\ LastEventIsCached'
<1>1. /\ TypeOK /\ ch[s] # <<>> /\ Backlog \in Seq(Events)
      /\ \A r \in Sockets : ch[r] \in Seq(Events) /\ InFlight(r) \in Seq(Events)
      /\ listeners \subseteq Sockets
  BY InFlightTypes DEF FlightInv, ClosingInv, TypeOK, Forward
<1>2. Backlog' = Backlog
  BY DEF Forward, Backlog
<1>3. InFlight(s) # <<>> /\ Head(InFlight(s)) = Head(ch[s]) /\ InFlight(s)' = Tail(InFlight(s))
  BY <1>1, ForwardTakes
<1>4. ASSUME NEW r \in Sockets, r # s
      PROVE  InFlight(r)' = InFlight(r) /\ view'[r] = view[r] /\ pc'[r] = pc[r]
  <2>1. ch'[r] = ch[r]
    BY <1>1, <1>4 DEF Forward, TypeOK
  <2>2. view'[r] = view[r] /\ pc'[r] = pc[r]
    BY <1>1, <1>4 DEF Forward, TypeOK
  <2>3. InFlight(r)' = ch'[r] \o Backlog'
    BY DEF InFlight
  <2>4. InFlight(r) = ch[r] \o Backlog
    BY DEF InFlight
  <2>5. InFlight(r)' = InFlight(r)
    BY <1>2, <2>1, <2>3, <2>4
  <2> QED
    BY <2>2, <2>5
<1>5. BacklogIsCurrent'
  BY <1>2 DEF FlightInv, BacklogIsCurrent, Forward
<1>6. InFlightIsCurrent'
  <2> SUFFICES ASSUME NEW r \in listeners, NEW k \in Keys
               PROVE  LastCarries(InFlight(r)', k, cache[k])
    BY DEF Forward, InFlightIsCurrent
  <2>1. LastCarries(InFlight(r), k, cache[k]) /\ InFlight(r) \in Seq(Events)
    BY <1>1 DEF FlightInv, InFlightIsCurrent
  <2>2. CASE r = s
    <3>1. LastCarries(Tail(InFlight(s)), k, cache[k])
      BY <1>3, <2>1, <2>2, TailCarries
    <3> QED
      BY <1>3, <2>2, <3>1
  <2>3. CASE r # s
    <3>1. InFlight(r)' = InFlight(r)
      BY <1>1, <1>4, <2>3
    <3> QED
      BY <2>1, <3>1
  <2> QED
    BY <2>2, <2>3
<1>7. ASSUME NEW k \in Keys, s \in listeners, pc'[s] = "streaming", About(InFlight(s)', k) = {}
      PROVE  view'[s][k] = cache[k]
  <2> DEFINE e == Head(ch[s])
  <2>1. e \in Events /\ view[s] \in Contents /\ pc[s] = "streaming"
    BY <1>1, HeadTailProperties DEF TypeOK, Forward
  <2>2. view' = [view EXCEPT ![s] = [view[s] EXCEPT ![e.source] = e.data]]
    BY <1>1, <1>7 DEF Forward, TypeOK
  <2>3. view'[s][k] = IF e.source = k THEN e.data ELSE view[s][k]
    BY <2>1, <2>2, <1>1 DEF TypeOK, Contents, Events
  <2>4. LastCarries(InFlight(s), k, cache[k])
    BY <1>7 DEF FlightInv, InFlightIsCurrent
  <2>5. IF e.source = k THEN e.data = cache[k] ELSE About(InFlight(s), k) = {}
    BY <1>1, <1>3, <1>7, <2>4, TailAbout
  <2> QED
    BY <1>7, <2>1, <2>3, <2>5 DEF FlightInv, LastEventIsCached
<1>8. LastEventIsCached'
  BY <1>1, <1>4, <1>6, <1>7 DEF FlightInv, InFlightIsCurrent, LastEventIsCached, Forward
<1> QED
  BY <1>5, <1>6, <1>8

LEMMA NextFlight == FlightInv /\ [Next]_vars => FlightInv'
<1> SUFFICES ASSUME FlightInv, [Next]_vars
             PROVE  BacklogIsCurrent' /\ InFlightIsCurrent' /\ LastEventIsCached'
  BY NextClosing DEF FlightInv
<1> USE DEF BacklogIsCurrent, InFlightIsCurrent, LastEventIsCached
<1>0. /\ TypeOK /\ Registered /\ listeners \subseteq Sockets
      /\ broadcast \in Seq(Events) /\ Backlog \in Seq(Events)
      /\ \A s \in Sockets : ch[s] \in Seq(Events)
  BY InFlightTypes DEF FlightInv, ClosingInv, TypeOK
<1>1. ASSUME NEW k \in Keys, NEW v \in Values, Update(k, v)
      PROVE  BacklogIsCurrent' /\ InFlightIsCurrent' /\ LastEventIsCached'
  BY <1>1, UpdateFlight
<1>2. CASE BroadcastEvent
  <2>1. Backlog' = Backlog
    BY <1>0, <1>2, BroadcastKeeps
  <2> QED
    BY <1>2, <2>1 DEF FlightInv, BroadcastEvent, InFlight
<1>3. CASE Deliver
  BY <1>3, DeliverFlight
<1>4. CASE Stop
  BY <1>4 DEF Stop, FlightInv, InFlight, Backlog
<1>5. ASSUME NEW s \in Sockets, Register(s)
      PROVE  BacklogIsCurrent' /\ InFlightIsCurrent' /\ LastEventIsCached'
  <2>1. Backlog' = Backlog /\ \A r \in Sockets : InFlight(r)' = InFlight(r)
    BY <1>5 DEF Register, InFlight, Backlog
  <2>2. InFlight(s) = Backlog
    BY <1>0, <1>5, ConcatEmptySeq DEF Register, Registered, InFlight
  <2>3. pc'[s] = "dumping" /\ \A r \in Sockets : r # s => pc'[r] = pc[r]
    BY <1>0, <1>5 DEF Register, TypeOK
  <2> QED
    BY <1>0, <1>5, <2>1, <2>2, <2>3 DEF FlightInv, Register
<1>6. ASSUME NEW s \in Sockets, Deregister(s)
      PROVE  BacklogIsCurrent' /\ InFlightIsCurrent' /\ LastEventIsCached'
  <2>1. listeners' = listeners \ {s} /\ \A r \in Sockets : r # s => pc'[r] = pc[r]
    BY <1>0, <1>6 DEF Deregister, TypeOK
  <2> QED
    BY <1>0, <1>6, <2>1 DEF FlightInv, Deregister, InFlight, Backlog
<1>7. ASSUME NEW s \in Sockets, Connect(s)
      PROVE  BacklogIsCurrent' /\ InFlightIsCurrent' /\ LastEventIsCached'
  <2>1. s \notin listeners /\ listeners' = listeners
    BY <1>0, <1>7 DEF Connect, Registered
  <2>2. Backlog' = Backlog /\ cache' = cache
    BY <1>7 DEF Connect, Backlog
  <2>3. \A r \in listeners : ch'[r] = ch[r] /\ pc'[r] = pc[r] /\ view'[r] = view[r]
    BY <1>0, <1>7, <2>1 DEF Connect, TypeOK
  <2> QED
    BY <2>1, <2>2, <2>3 DEF FlightInv, InFlight
<1>8. ASSUME NEW s \in Sockets, Dump(s)
      PROVE  BacklogIsCurrent' /\ InFlightIsCurrent' /\ LastEventIsCached'
  <2>1. \A r \in Sockets : r # s => pc'[r] = pc[r] /\ view'[r] = view[r]
    BY <1>0, <1>8 DEF Dump, TypeOK
  <2>2. view'[s] = cache
    BY <1>0, <1>8 DEF Dump, TypeOK
  <2> QED
    BY <1>0, <1>8, <2>1, <2>2 DEF FlightInv, Dump, InFlight, Backlog
<1>9. ASSUME NEW s \in Sockets, Forward(s)
      PROVE  BacklogIsCurrent' /\ InFlightIsCurrent' /\ LastEventIsCached'
  BY <1>9, ForwardFlight
<1>10. ASSUME NEW s \in Sockets, EndOfEvents(s)
       PROVE  BacklogIsCurrent' /\ InFlightIsCurrent' /\ LastEventIsCached'
  <2>1. pc'[s] = "closing" /\ \A r \in Sockets : r # s => pc'[r] = pc[r]
    BY <1>0, <1>10 DEF EndOfEvents, TypeOK
  <2> QED
    BY <1>0, <1>10, <2>1 DEF FlightInv, EndOfEvents, InFlight, Backlog
<1>11. CASE UNCHANGED vars
  BY <1>11 DEF FlightInv, vars, InFlight, Backlog
<1> QED
  BY <1>1, <1>2, <1>3, <1>4, <1>5, <1>6, <1>7, <1>8, <1>9, <1>10, <1>11 DEF Next, Socket

\* For every listener the dispatcher has, whatever else goes on: once its client
\* has the dump, the last event in flight to it about a device carries the
\* device's cached data, and without one the client has that data already.
THEOREM FlightEndsInCache == Spec => []LastEventIsCached
<1>1. Init => FlightInv
  BY InitFlight
<1>2. FlightInv /\ [Next]_vars => FlightInv'
  BY NextFlight
<1>3. FlightInv => LastEventIsCached
  BY DEF FlightInv
<1> QED
  BY <1>1, <1>2, <1>3, PTL DEF Spec

-----------------------------------------------------------------------------
(* The cache, the dispatcher and the handlers implement Feed.              *)

Following == {s \in listeners : PhaseOf(s) # "away"}

\* The step is none of the socket's client's concern.
Same(s) == PhaseOf(s)' = PhaseOf(s) /\ FeedOf(s)' = FeedOf(s) /\ ShownTo(s)' = ShownTo(s)

LEMMA SameSocket ==
  ASSUME NEW s \in Sockets, UNCHANGED <<Backlog, ch[s], pc[s], view[s]>>,
         s \in listeners' <=> s \in listeners
  PROVE  Same(s)
<1>1. PhaseOf(s)' = PhaseOf(s)
  BY DEF PhaseOf
<1>2. InFlight(s)' = InFlight(s)
  BY DEF InFlight
<1> QED
  BY <1>1, <1>2 DEF Same, FeedOf, ShownTo

LEMMA FeedStutters ==
  ASSUME UNCHANGED <<cache, Backlog, Following>>, \A s \in Sockets : Same(s)
  PROVE  UNCHANGED Clients!vars
<1>1. /\ [s \in Sockets |-> FeedOf(s)]' = [s \in Sockets |-> FeedOf(s)]
      /\ [s \in Sockets |-> PhaseOf(s)]' = [s \in Sockets |-> PhaseOf(s)]
      /\ [s \in Sockets |-> ShownTo(s)]' = [s \in Sockets |-> ShownTo(s)]
  BY DEF Same
<1> QED
  BY <1>1 DEF Clients!vars, Following

\* What is in a channel is a prefix of what is in flight.
LEMMA ChannelIsPrefix ==
  ASSUME NEW q \in Seq(Events), NEW r \in Seq(Events)
  PROVE  Clients!IsPrefix(q, q \o r)
<1>1. /\ Len(q) \in Nat /\ Len(r) \in Nat /\ Len(q \o r) = Len(q) + Len(r)
      /\ \A i \in 1 .. Len(q) : q[i] \in Events /\ (q \o r)[i] = q[i]
  OBVIOUS
<1> DEFINE a == SubSeq(q, 1, Len(q))
           b == SubSeq(q \o r, 1, Len(q))
<1>2. /\ a \in Seq(Events) /\ Len(a) = Len(q) /\ \A i \in 1 .. Len(q) : a[i] = q[i]
      /\ b \in Seq(Events) /\ Len(b) = Len(q) /\ \A i \in 1 .. Len(q) : b[i] = q[i]
  BY <1>1, SubSeqProperties
<1> HIDE DEF a, b
<1>3. a = b
  BY <1>1, <1>2, SeqEqual
<1> QED
  BY <1>1, <1>3 DEF Clients!IsPrefix, a, b

LEMMA UpdateIsChange ==
  ASSUME TypeOK, NEW k \in Keys, NEW v \in Values, Update(k, v)
  PROVE  Clients!Change(k, v)
<1> DEFINE e == [source |-> k, data |-> v]
<1>1. /\ cache[k] # v /\ cache' = [cache EXCEPT ![k] = v]
      /\ UNCHANGED <<listeners, ch, pc, view>>
  BY DEF Update
<1>2. Backlog' = Append(Backlog, e) /\ \A s \in Sockets : InFlight(s)' = Append(InFlight(s), e)
  BY UpdateAppends
<1> HIDE DEF e
<1>3. ASSUME NEW s \in Sockets
      PROVE  /\ PhaseOf(s)' = PhaseOf(s) /\ ShownTo(s)' = ShownTo(s)
             /\ FeedOf(s)' = IF s \in Following THEN Append(FeedOf(s), e) ELSE FeedOf(s)
  <2>1. PhaseOf(s)' = PhaseOf(s)
    BY <1>1 DEF PhaseOf
  <2> QED
    BY <1>1, <1>2, <2>1 DEF FeedOf, ShownTo, Following
<1>4. Following' = Following
  BY <1>1, <1>3 DEF Following, TypeOK
<1> QED
  BY <1>1, <1>2, <1>3, <1>4 DEF Clients!Change, Following, e

LEMMA DeliverIsPass ==
  ASSUME TypeOK, Deliver
  PROVE  Clients!Pass(Following \intersect Full)
<1> DEFINE dropped == Following \intersect Full
<1>1. /\ Backlog # <<>> /\ Backlog' = Tail(Backlog)
      /\ \A s \in listeners \ Full : InFlight(s)' = InFlight(s)
  BY DeliverTakes
<1>2. /\ listeners \subseteq Sockets /\ listeners' = listeners \ Full
      /\ \A s \in Sockets : s \notin listeners \ Full => ch'[s] = ch[s]
      /\ UNCHANGED <<cache, pc, view>>
  BY DEF Deliver, Distribute, TypeOK
<1>3. ASSUME NEW s \in Sockets
      PROVE  PhaseOf(s)' = PhaseOf(s) /\ ShownTo(s)' = ShownTo(s)
  BY <1>2 DEF PhaseOf, ShownTo
<1>4. ASSUME NEW s \in Sockets, s \notin dropped
      PROVE  FeedOf(s)' = FeedOf(s)
  <2>1. CASE PhaseOf(s) = "away"
    BY <1>3, <2>1 DEF FeedOf
  <2>2. CASE PhaseOf(s) # "away" /\ s \in listeners
    BY <1>1, <1>2, <1>3, <1>4, <2>2 DEF FeedOf, Following
  <2>3. CASE PhaseOf(s) # "away" /\ s \notin listeners
    BY <1>2, <1>3, <2>3 DEF FeedOf
  <2> QED
    BY <2>1, <2>2, <2>3
<1>5. ASSUME NEW s \in dropped
      PROVE  Clients!IsPrefix(FeedOf(s)', FeedOf(s))
  <2>1. s \in Sockets /\ s \in listeners /\ s \notin listeners' /\ PhaseOf(s)' # "away"
    BY <1>2, <1>3 DEF Following
  <2>2. FeedOf(s)' = ch[s] /\ FeedOf(s) = ch[s] \o Backlog
    BY <1>2, <1>3, <2>1 DEF FeedOf, InFlight
  <2> QED
    BY <2>1, <2>2, ChannelIsPrefix, InFlightTypes
<1>6. Following' = Following \ dropped /\ dropped \subseteq Following
  BY <1>2, <1>3 DEF Following
<1> HIDE DEF dropped
<1>7. /\ [s \in Sockets |-> PhaseOf(s)]' = [s \in Sockets |-> PhaseOf(s)]
      /\ [s \in Sockets |-> ShownTo(s)]' = [s \in Sockets |-> ShownTo(s)]
  BY <1>3
<1>8. /\ [s \in Sockets |-> FeedOf(s)]'
           = [s \in Sockets |-> IF s \in dropped THEN [r \in Sockets |-> FeedOf(r)]'[s]
                                ELSE [r \in Sockets |-> FeedOf(r)][s]]
      /\ \A s \in dropped : Clients!IsPrefix([r \in Sockets |-> FeedOf(r)]'[s],
                                            [r \in Sockets |-> FeedOf(r)][s])
  <2>1. dropped \subseteq Sockets
    BY <1>2, <1>6 DEF Following
  <2> QED
    BY <1>4, <1>5, <2>1
<1>9. Clients!Pass(dropped)
  BY <1>1, <1>2, <1>6, <1>7, <1>8 DEF Clients!Pass, Following
<1> QED
  BY <1>9 DEF dropped

LEMMA RegisterIsJoin ==
  ASSUME TypeOK, Registered, NEW s \in Sockets, Register(s)
  PROVE  Clients!Join(s)
<1>1. /\ pc[s] = "registering" /\ pc' = [pc EXCEPT ![s] = "dumping"]
      /\ listeners' = listeners \union {s} /\ ch[s] = <<>>
      /\ UNCHANGED <<cache, ch, view>> /\ Backlog' = Backlog
  BY DEF Register, Registered, Backlog
<1>2. /\ PhaseOf(s) = "away" /\ PhaseOf(s)' = "joined"
      /\ FeedOf(s)' = Backlog /\ ShownTo(s)' = ShownTo(s)
  <2>1. pc'[s] = "dumping"
    BY <1>1 DEF TypeOK
  <2>2. PhaseOf(s) = "away" /\ PhaseOf(s)' = "joined"
    BY <1>1, <2>1 DEF PhaseOf
  <2>3. InFlight(s)' = Backlog
    BY <1>1, InFlightTypes, ConcatEmptySeq DEF InFlight
  <2> QED
    BY <1>1, <2>2, <2>3 DEF FeedOf, ShownTo
<1>3. ASSUME NEW r \in Sockets, r # s PROVE Same(r)
  BY <1>1, <1>3, SameSocket DEF TypeOK
<1>4. Following' = Following \union {s}
  BY <1>1, <1>2, <1>3 DEF Following, Same, TypeOK
<1> QED
  BY <1>1, <1>2, <1>3, <1>4 DEF Clients!Join, Following, Same

LEMMA DumpIsShowAll ==
  ASSUME TypeOK, NEW s \in Sockets, Dump(s)
  PROVE  Clients!ShowAll(s)
<1>1. /\ pc[s] = "dumping" /\ pc' = [pc EXCEPT ![s] = "streaming"]
      /\ view' = [view EXCEPT ![s] = cache]
      /\ UNCHANGED <<cache, listeners, ch>> /\ Backlog' = Backlog
  BY DEF Dump, Backlog
<1>2. /\ PhaseOf(s) = "joined" /\ PhaseOf(s)' = "watching"
      /\ FeedOf(s)' = FeedOf(s) /\ ShownTo(s)' = cache
  <2>1. pc'[s] = "streaming" /\ view'[s] = cache
    BY <1>1 DEF TypeOK
  <2>2. PhaseOf(s) = "joined" /\ PhaseOf(s)' = "watching"
    BY <1>1, <2>1 DEF PhaseOf
  <2>3. InFlight(s)' = InFlight(s)
    BY <1>1 DEF InFlight
  <2> QED
    BY <1>1, <2>1, <2>2, <2>3 DEF FeedOf, ShownTo
<1>3. ASSUME NEW r \in Sockets, r # s PROVE Same(r)
  BY <1>1, <1>3, SameSocket DEF TypeOK
<1>4. Following' = Following
  BY <1>1, <1>2, <1>3 DEF Following, Same, TypeOK
<1> QED
  BY <1>1, <1>2, <1>3, <1>4 DEF Clients!ShowAll, Following, Same

\* A handler that ends: what it held back for its client is dropped with it.
LEMMA ClosingIsLeave ==
  ASSUME TypeOK, NEW s \in Sockets, pc[s] = "streaming", pc' = [pc EXCEPT ![s] = "closing"],
         \A r \in Sockets : r # s => ch'[r] = ch[r],
         UNCHANGED <<cache, listeners, view>>, Backlog' = Backlog
  PROVE  Clients!Leave(s)
<1>1. PhaseOf(s) = "watching" /\ PhaseOf(s)' = "away"
  BY DEF PhaseOf, TypeOK
<1>2. FeedOf(s)' = <<>> /\ ShownTo(s)' = [k \in Keys |-> Nothing]
  BY <1>1 DEF FeedOf, ShownTo
<1>3. ASSUME NEW r \in Sockets, r # s PROVE Same(r)
  BY <1>3, SameSocket DEF TypeOK
<1>4. Following' = Following \ {s}
  BY <1>1, <1>3 DEF Following, Same, TypeOK
<1> QED
  BY <1>1, <1>2, <1>3, <1>4 DEF Clients!Leave, Clients!Blank, Following, Same

LEMMA ForwardIsShow ==
  ASSUME TypeOK, NEW s \in Sockets, Forward(s)
  PROVE  Clients!ShowChange(s) \/ Clients!Leave(s)
<1> DEFINE e == Head(ch[s])
<1>1. /\ pc[s] = "streaming" /\ ch[s] # <<>> /\ ch' = [ch EXCEPT ![s] = Tail(@)]
      /\ UNCHANGED <<cache, listeners>> /\ Backlog' = Backlog
  BY DEF Forward, Backlog
<1>2. CASE view' = view /\ pc' = [pc EXCEPT ![s] = "closing"]
  <2>1. Clients!Leave(s)
    BY <1>1, <1>2, ClosingIsLeave DEF TypeOK
  <2> QED
    BY <2>1
<1>3. CASE view' = [view EXCEPT ![s][e.source] = e.data] /\ pc' = pc
  <2>1. PhaseOf(s) = "watching" /\ PhaseOf(s)' = "watching"
    BY <1>1, <1>3 DEF PhaseOf
  <2>2. view'[s] = [view[s] EXCEPT ![e.source] = e.data]
    BY <1>3 DEF TypeOK
  <2>3. ch'[s] = Tail(ch[s])
    BY <1>1 DEF TypeOK
  <2>4. FeedOf(s) # <<>> /\ Head(FeedOf(s)) = e /\ FeedOf(s)' = Tail(FeedOf(s))
    <3>1. InFlight(s) # <<>> /\ Head(InFlight(s)) = e /\ InFlight(s)' = Tail(InFlight(s))
      BY ForwardTakes
    <3> HIDE DEF e
    <3> QED
      BY <1>1, <2>1, <2>3, <3>1 DEF FeedOf, e
  <2>5. ShownTo(s)' = [ShownTo(s) EXCEPT ![e.source] = e.data]
    BY <2>1, <2>2 DEF ShownTo
  <2>6. ASSUME NEW r \in Sockets, r # s PROVE Same(r)
    BY <1>1, <1>3, <2>6, SameSocket DEF TypeOK
  <2>7. Following' = Following
    BY <1>1, <2>1, <2>6 DEF Following, Same, TypeOK
  <2> HIDE DEF e
  <2>8. Clients!ShowChange(s)
    BY <1>1, <2>1, <2>4, <2>5, <2>6, <2>7 DEF Clients!ShowChange, Following, Same
  <2> QED
    BY <2>8
<1> QED
  BY <1>2, <1>3 DEF Forward

LEMMA InitFeed == Init => Clients!Init
<1> SUFFICES ASSUME Init PROVE Clients!Init
  OBVIOUS
<1>1. Backlog = <<>>
  BY DEF Init, Backlog
<1>2. \A s \in Sockets : PhaseOf(s) = "away"
  BY DEF Init, PhaseOf
<1>3. \A s \in Sockets : FeedOf(s) = <<>> /\ ShownTo(s) = [k \in Keys |-> Nothing]
  BY <1>2 DEF FeedOf, ShownTo
<1> QED
  BY <1>1, <1>2, <1>3 DEF Init, Clients!Init, Clients!Blank

\* Every step is one of Feed's, or none of the clients' concern.
LEMMA NextFeed == ClosingInv /\ [Next]_vars => [Clients!Next]_(Clients!vars)
<1> SUFFICES ASSUME TypeOK, Registered, [Next]_vars PROVE [Clients!Next]_(Clients!vars)
  BY DEF ClosingInv
<1>0. listeners \subseteq Sockets
  BY DEF TypeOK
<1>1. ASSUME NEW k \in Keys, NEW v \in Values, Update(k, v) PROVE Clients!Next
  BY <1>1, UpdateIsChange DEF Clients!Next
<1>2. CASE Deliver
  <2>1. Following \intersect Full \in SUBSET Sockets
    BY <1>0 DEF Following
  <2> QED
    BY <1>2, <2>1, DeliverIsPass DEF Clients!Next
<1>3. ASSUME NEW s \in Sockets, Register(s) PROVE Clients!Next
  BY <1>3, RegisterIsJoin DEF Clients!Next
<1>4. ASSUME NEW s \in Sockets, Dump(s) PROVE Clients!Next
  BY <1>4, DumpIsShowAll DEF Clients!Next
<1>5. ASSUME NEW s \in Sockets, Forward(s) PROVE Clients!Next
  BY <1>5, ForwardIsShow DEF Clients!Next
<1>6. ASSUME NEW s \in Sockets, EndOfEvents(s) PROVE Clients!Next
  <2>1. Backlog' = Backlog
    BY <1>6 DEF EndOfEvents, Backlog
  <2>2. Clients!Leave(s)
    BY <1>6, <2>1, ClosingIsLeave DEF EndOfEvents
  <2> QED
    BY <2>2 DEF Clients!Next
<1>7. ASSUME UNCHANGED <<cache, listeners, ch, pc, view>>, Backlog' = Backlog
      PROVE  UNCHANGED Clients!vars
  <2>1. \A s \in Sockets : Same(s)
    BY <1>7, SameSocket
  <2>2. Following' = Following
    BY <1>0, <1>7, <2>1 DEF Following, Same
  <2> QED
    BY <1>7, <2>1, <2>2, FeedStutters
<1>8. CASE BroadcastEvent
  BY <1>7, <1>8, BroadcastKeeps DEF BroadcastEvent
<1>9. CASE Stop \/ UNCHANGED vars
  BY <1>7, <1>9 DEF Stop, vars, Backlog
<1>10. ASSUME NEW s \in Sockets, Connect(s) \/ Deregister(s)
       PROVE  UNCHANGED Clients!vars
  <2>1. UNCHANGED cache /\ Backlog' = Backlog
    BY <1>10 DEF Connect, Deregister, Backlog
  <2>2. PhaseOf(s) = "away" /\ PhaseOf(s)' = "away"
    BY <1>10 DEF Connect, Deregister, PhaseOf, TypeOK
  <2>3. Same(s)
    BY <2>2 DEF Same, FeedOf, ShownTo
  <2>4. ASSUME NEW r \in Sockets, r # s PROVE Same(r)
    BY <1>10, <2>1, <2>4, SameSocket DEF Connect, Deregister, TypeOK
  <2>5. Following' = Following
    BY <1>0, <1>10, <2>2, <2>4 DEF Connect, Deregister, Following, Same
  <2> QED
    BY <2>1, <2>3, <2>4, <2>5, FeedStutters
<1> QED
  BY <1>1, <1>2, <1>3, <1>4, <1>5, <1>6, <1>8, <1>9, <1>10 DEF Next, Socket

\* Whoever connects is shown the cache and then every change of it in order,
\* none skipped, until it leaves or is dropped, in whatever order the updates,
\* the dispatcher and the handlers run: they implement Feed.
THEOREM ClientsAreFed == Spec => FeedsClients
<1>1. Init => ClosingInv
  BY InitClosing
<1>2. ClosingInv /\ [Next]_vars => ClosingInv'
  BY NextClosing
<1>3. ClosingInv /\ [Next]_vars => [Clients!Next]_(Clients!vars)
  BY NextFeed
<1> QED
  BY <1>1, <1>2, <1>3, InitFeed, PTL DEF Spec, FeedsClients, Clients!Spec
=============================================================================
