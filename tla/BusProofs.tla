----------------------------- MODULE BusProofs -----------------------------
(***************************************************************************)
(* Proofs about Bus, for every set of callers, devices, tables and         *)
(* requests and every value of the bounds: its types, which answers can be *)
(* relied on, that only a leftover that is mistaken for an answer makes    *)
(* any other wrong, and that callers are served in order.                  *)
(***************************************************************************)
EXTENDS Bus, SequenceTheorems, TLAPS

(***************************************************************************)
(* Facts about the sequences frames travel in.                             *)
(***************************************************************************)

\* Taking the frame at the head leaves frames that were there, in their order.
LEMMA TailFrames ==
  ASSUME NEW S, NEW s \in Seq(S), s # <<>>
  PROVE  /\ Head(s) \in S
         /\ Head(s) = s[1]
         /\ 1 \in DOMAIN s
         /\ Tail(s) \in Seq(S)
         /\ Len(Tail(s)) = Len(s) - 1
         /\ \A i \in DOMAIN Tail(s) : i + 1 \in DOMAIN s /\ Tail(s)[i] = s[i + 1]
  OBVIOUS

\* Appending a frame keeps the others where they were.
LEMMA AppendFrames ==
  ASSUME NEW S, NEW s \in Seq(S), NEW f \in S
  PROVE  /\ Append(s, f) \in Seq(S)
         /\ Len(Append(s, f)) = Len(s) + 1
         /\ \A i \in DOMAIN Append(s, f) :
              \/ i \in DOMAIN s /\ Append(s, f)[i] = s[i]
              \/ i = Len(s) + 1 /\ Append(s, f)[i] = f
  OBVIOUS

\* Disown changes nothing but whose frames they are.
LEMMA DisownFrames ==
  ASSUME NEW s \in Seq(Received)
  PROVE  /\ Disown(s) \in Seq(Received)
         /\ Len(Disown(s)) = Len(s)
         /\ DOMAIN Disown(s) = DOMAIN s
         /\ \A i \in DOMAIN s : Disown(s)[i] = [s[i] EXCEPT !.own = FALSE]
<1>1. DOMAIN s = 1 .. Len(s) /\ Len(s) \in Nat
  OBVIOUS
<1>2. ASSUME NEW i \in DOMAIN s PROVE [s[i] EXCEPT !.own = FALSE] \in Received
  <2>1. s[i] \in Received
    OBVIOUS
  <2> QED
    BY <2>1 DEF Received
<1>3. Disown(s) \in [1 .. Len(s) -> Received]
  BY <1>1, <1>2 DEF Disown
<1>4. Disown(s) \in Seq(Received) /\ Len(Disown(s)) = Len(s)
  BY <1>1, <1>3
<1> QED
  BY <1>4 DEF Disown

LEMMA DisownRequests ==
  ASSUME NEW s \in Seq(Sent)
  PROVE  /\ Disown(s) \in Seq(Sent)
         /\ DOMAIN Disown(s) = DOMAIN s
         /\ \A i \in DOMAIN s : Disown(s)[i] = [s[i] EXCEPT !.own = FALSE]
<1>1. DOMAIN s = 1 .. Len(s) /\ Len(s) \in Nat
  OBVIOUS
<1>2. ASSUME NEW i \in DOMAIN s PROVE [s[i] EXCEPT !.own = FALSE] \in Sent
  <2>1. s[i] \in Sent
    OBVIOUS
  <2> QED
    BY <2>1 DEF Sent
<1>3. Disown(s) \in [1 .. Len(s) -> Sent]
  BY <1>1, <1>2 DEF Disown
<1>4. Disown(s) \in Seq(Sent)
  BY <1>1, <1>3
<1> QED
  BY <1>4 DEF Disown

\* sendFrame leaves well-formed frames behind, whether or not f is lost.
LEMMA TransmitType ==
  ASSUME NEW wire \in Seq(Sent), NEW f \in Sent, Transmit(wire, f)
  PROVE  toDevices' \in Seq(Sent)
  BY AppendFrames DEF Transmit

LEMMA ArriveType ==
  ASSUME NEW f \in Received, toDaemon \in Seq(Received), Arrive(f)
  PROVE  toDaemon' \in Seq(Received)
  BY AppendFrames DEF Arrive

-----------------------------------------------------------------------------
(* Type correctness.                                                       *)

LEMMA InitTypeOK == Init => TypeOK
<1> SUFFICES ASSUME Init PROVE TypeOK
  OBVIOUS
<1>1. 0 \in Versions
  BY BusAssumption DEF Versions
<1>2. NoResult \in Results
  BY DEF NoResult, Results
<1> QED
  BY <1>1, <1>2, BusAssumption DEF Init, TypeOK

LEMMA NextTypeOK == TypeOK /\ [Next]_vars => TypeOK'
<1> SUFFICES ASSUME TypeOK, [Next]_vars PROVE TypeOK'
  OBVIOUS
<1> USE DEF TypeOK
<1>0. /\ NoResult \in Results /\ Failed \in Results
      /\ Requests \subseteq [op : {"read", "write"}, dst : Devices, table : Tables]
      /\ 0 \in 0 .. ResponseRetries /\ 0 \in Versions
      /\ NoAction \notin Actions /\ DevTSTAT \in Devices
  <2>1. NoResult \in Results /\ Failed \in Results
    BY DEF NoResult, Failed, Results
  <2>2. 0 \in 0 .. ResponseRetries /\ 0 \in Versions
    BY BusAssumption DEF Versions
  <2> QED
    BY <2>1, <2>2, BusAssumption, NoActionAssumption
<1>1. ASSUME NEW c \in Callers, NEW r \in Requests, Call(c, r) PROVE TypeOK'
  <2>1. [caller |-> c, req |-> r] \in Calls
    BY DEF Calls
  <2> QED
    BY <1>0, <1>1, <2>1, AppendFrames DEF Call
<1>2. CASE TakeAction
  <2> DEFINE call == Head(actionCh)
  <2>1. call \in Calls /\ Tail(actionCh) \in Seq(Calls)
    BY <1>2, TailFrames DEF TakeAction
  <2>2. version[call.req.dst][call.req.table] \in Versions
    BY <1>0, <2>1 DEF Calls
  <2>3. cur' \in Actions
    BY <1>0, <1>2, <2>1, <2>2 DEF TakeAction, Calls, Actions, Leftover
  <2>4. toDevices' \in Seq(Sent)
    <3>1. [req |-> call.req, own |-> TRUE] \in Sent
      BY <2>1 DEF Calls, Sent
    <3> QED
      BY <1>2, <3>1, DisownRequests, TransmitType DEF TakeAction
  <2>5. responseCh' \in Seq(Received) /\ toDaemon' \in Seq(Received)
        /\ Len(responseCh') <= ResponseChCap
    BY <1>2, DisownFrames DEF TakeAction
  <2> QED
    BY <1>2, <2>1, <2>3, <2>4, <2>5 DEF TakeAction
<1>3. CASE Accept
  <2> DEFINE res == Head(responseCh)
  <2>1. res \in Received /\ Tail(responseCh) \in Seq(Received)
        /\ Len(Tail(responseCh)) <= ResponseChCap
    BY <1>3, TailFrames, BusAssumption DEF Accept
  <2>2. cur \in Actions
    BY <1>3 DEF Accept
  <2>3. [status |-> "ok", op |-> cur.req.op, clean |-> cur.clean, answers |-> res.own,
         current |-> cur.req.op = "read" => res.ver >= cur.start] \in Results
    <3>1. cur.req \in Requests /\ cur.clean \in BOOLEAN /\ res.own \in BOOLEAN
      BY <2>1, <2>2 DEF Actions, Received
    <3>2. cur.req.op \in {"read", "write"}
      BY <3>1, BusAssumption
    <3>3. (cur.req.op = "read" => res.ver >= cur.start) \in BOOLEAN
      OBVIOUS
    <3> QED
      BY <3>1, <3>2, <3>3 DEF Results
  <2>4. result' \in [Callers -> Results]
    BY <1>3, <2>3 DEF Accept
  <2>5. lastRead' \in [Devices -> [Tables -> Versions]]
    BY <1>3, <2>1 DEF Accept, Received
  <2> QED
    BY <1>3, <2>1, <2>4, <2>5 DEF Accept
<1>4. CASE Discard
  BY <1>4, TailFrames, BusAssumption DEF Discard
<1>5. CASE Retransmit
  <2>1. cur \in Actions /\ [req |-> cur.req, own |-> TRUE] \in Sent
    BY <1>5 DEF Retransmit, Actions, Sent
  <2>2. cur.tries + 1 \in 0 .. ResponseRetries
    BY <1>5, <2>1, BusAssumption DEF Retransmit, Actions
  <2>3. cur' \in Actions
    BY <1>5, <2>1, <2>2 DEF Retransmit, Actions
  <2> QED
    BY <1>5, <2>1, <2>3, TransmitType DEF Retransmit
<1>6. CASE GiveUp
  <2>1. cur \in Actions /\ [req |-> cur.req, own |-> TRUE] \in Sent
    BY <1>6 DEF GiveUp, Actions, Sent
  <2> QED
    BY <1>0, <1>6, <2>1, TransmitType DEF GiveUp
<1>7. CASE PassOn
  <2>1. Head(toDaemon) \in Received /\ Tail(toDaemon) \in Seq(Received)
    BY <1>7, TailFrames DEF PassOn
  <2>2. responseCh' \in Seq(Received) /\ Len(responseCh') = Len(responseCh) + 1
    BY <1>7, <2>1, AppendFrames DEF PassOn
  <2> QED
    BY <1>7, <2>1, <2>2, BusAssumption DEF PassOn
<1>8. CASE Overhear
  BY <1>8, TailFrames DEF Overhear
<1>9. CASE AckPush
  <2>1. [req |-> NoRequest, own |-> FALSE] \in Sent
    BY DEF Sent
  <2> QED
    BY <1>9, <2>1, TailFrames, TransmitType DEF AckPush
<1>10. CASE Serve
  <2> DEFINE f == Head(toDevices)
  <2>1. f \in Sent /\ f.req \in Requests /\ Tail(toDevices) \in Seq(Sent)
    <3>1. f \in Sent /\ f.req # NoRequest /\ Tail(toDevices) \in Seq(Sent)
      BY <1>10, TailFrames DEF Serve
    <3> QED
      BY <3>1 DEF Sent
  <2>2. PICK v \in NextVersions(version[f.req.dst][f.req.table], f.req.op) :
          /\ version' = [version EXCEPT ![f.req.dst][f.req.table] = v]
          /\ Arrive(ReplyTo(f, v))
    BY <1>10 DEF Serve
  <2>3. v \in Versions
    BY <1>0, <2>1, BusAssumption DEF NextVersions, Versions
  <2>4. ReplyTo(f, v) \in Received
    BY <1>0, <2>1, <2>3 DEF ReplyTo, Received, Sent
  <2>5. toDaemon' \in Seq(Received)
    BY <2>2, <2>4, ArriveType
  <2>6. version' \in [Devices -> [Tables -> Versions]]
    BY <2>2, <2>3
  <2> QED
    BY <1>10, <2>1, <2>5, <2>6 DEF Serve
<1>11. CASE TakeAck
  BY <1>11, TailFrames DEF TakeAck
<1>12. ASSUME NEW d \in Devices, NEW t \in Tables, WallChange(d, t) PROVE TypeOK'
  <2>1. version[d][t] + 1 \in Versions
    BY <1>12, BusAssumption DEF WallChange, Versions
  <2> QED
    BY <1>12, <2>1 DEF WallChange
<1>13. ASSUME NEW d \in Devices, NEW t \in Tables, Chatter(d, t) PROVE TypeOK'
  <2>1. [kind |-> "equip", src |-> d, table |-> t, ver |-> version[d][t],
         own |-> FALSE] \in Received
    BY DEF Received
  <2> QED
    BY <1>13, <2>1, AppendFrames DEF Chatter
<1>14. CASE Push
  <2>1. [kind |-> "push", src |-> DevTSTAT, table |-> NoTable, ver |-> 0,
         own |-> FALSE] \in Received
    BY <1>0 DEF Received
  <2> QED
    BY <1>14, <2>1, AppendFrames DEF Push
<1>15. CASE UNCHANGED vars
  BY <1>15 DEF vars
<1> QED
  BY <1>1, <1>2, <1>3, <1>4, <1>5, <1>6, <1>7, <1>8, <1>9, <1>10, <1>11, <1>12,
     <1>13, <1>14, <1>15 DEF Next, Broker, Receive, Reader, Environment

(***************************************************************************)
(* The channels, the wire and the results stay within their types; in      *)
(* particular responseCh never holds more than its capacity.               *)
(***************************************************************************)
THEOREM TypeCorrect == Spec => []TypeOK
  BY InitTypeOK, NextTypeOK, PTL DEF Spec

-----------------------------------------------------------------------------
(* Clean calls are sound.                                                  *)

\* After sendFrame the wire holds the frames it held and at most f besides.
LEMMA TransmitFrames ==
  ASSUME NEW wire \in Seq(Sent), NEW f \in Sent, Transmit(wire, f)
  PROVE  \A i \in DOMAIN toDevices' :
           toDevices'[i] = f \/ (i \in DOMAIN wire /\ toDevices'[i] = wire[i])
  BY AppendFrames DEF Transmit

LEMMA ArriveFrames ==
  ASSUME NEW f \in Received, toDaemon \in Seq(Received), Arrive(f)
  PROVE  \A i \in DOMAIN toDaemon' :
           toDaemon'[i] = f \/ (i \in DOMAIN toDaemon /\ toDaemon'[i] = toDaemon[i])
  BY AppendFrames DEF Arrive

\* A device's tables never go back to an older version.
LEMMA VersionsGrow ==
  ASSUME TypeOK, [Next]_vars
  PROVE  \A d \in Devices, t \in Tables : version[d][t] <= version'[d][t]
<1>0. \A d \in Devices, t \in Tables : version[d][t] \in Nat
  BY BusAssumption DEF TypeOK, Versions
<1>1. CASE version' = version
  BY <1>0, <1>1
<1>2. CASE Serve
  <2> DEFINE f == Head(toDevices)
  <2>1. f \in Sent /\ f.req # NoRequest
    BY <1>2, TailFrames DEF Serve, TypeOK
  <2>2. f.req.dst \in Devices /\ f.req.table \in Tables
    BY <2>1, BusAssumption DEF Sent
  <2>3. PICK v \in NextVersions(version[f.req.dst][f.req.table], f.req.op) :
          version' = [version EXCEPT ![f.req.dst][f.req.table] = v]
    BY <1>2 DEF Serve
  <2>4. v >= version[f.req.dst][f.req.table]
    BY <1>0, <2>2, <2>3 DEF NextVersions
  <2> QED
    BY <1>0, <2>2, <2>3, <2>4 DEF TypeOK
<1>3. ASSUME NEW d \in Devices, NEW t \in Tables, WallChange(d, t)
      PROVE  \A e \in Devices, u \in Tables : version[e][u] <= version'[e][u]
  BY <1>0, <1>3 DEF WallChange, TypeOK
<1> QED
  BY <1>1, <1>2, <1>3
     DEF Next, Broker, Receive, Reader, Environment, Call, TakeAction, Accept, Discard,
         Retransmit, GiveUp, PassOn, Overhear, AckPush, TakeAck, Chatter, Push, vars

\* What is preserved together.
CleanInv == TypeOK /\ OnlyOwnInFlight /\ StartIsPast /\ CleanCallIsSound

LEMMA InitClean == Init => OnlyOwnInFlight /\ StartIsPast /\ CleanCallIsSound
  BY DEF Init, OnlyOwnInFlight, StartIsPast, CleanCallIsSound, NoResult

\* The start of an action stays in the past, since versions only grow.
LEMMA NextStartIsPast == CleanInv /\ [Next]_vars => StartIsPast'
<1> SUFFICES ASSUME CleanInv, [Next]_vars, cur' # NoAction
             PROVE  cur'.start <= version'[cur'.req.dst][cur'.req.table]
  BY DEF StartIsPast
<1>0. TypeOK /\ TypeOK' /\ cur' \in Actions
  BY NextTypeOK DEF CleanInv, TypeOK
<1>1. cur'.req.dst \in Devices /\ cur'.req.table \in Tables
  BY <1>0, BusAssumption DEF Actions
<1>2. version[cur'.req.dst][cur'.req.table] <= version'[cur'.req.dst][cur'.req.table]
  BY <1>0, <1>1, VersionsGrow
<1>3. cur'.start <= version[cur'.req.dst][cur'.req.table]
  <2>1. CASE TakeAction
    <3>1. cur'.start = version[cur'.req.dst][cur'.req.table]
      BY <2>1 DEF TakeAction
    <3>2. cur'.start \in Nat
      BY <1>0, BusAssumption DEF Actions, Versions
    <3> QED
      BY <3>1, <3>2
  <2>2. CASE cur # NoAction /\ cur'.start = cur.start /\ cur'.req = cur.req
    BY <2>2 DEF CleanInv, StartIsPast
  <2>3. CASE Retransmit
    <3>1. cur \in Actions
      BY <1>0, <2>3 DEF Retransmit, TypeOK
    <3>2. cur'.start = cur.start /\ cur'.req = cur.req
      BY <2>3, <3>1 DEF Retransmit, Actions
    <3> QED
      BY <2>2, <2>3, <3>2 DEF Retransmit
  <2>4. ~Accept /\ ~GiveUp
    BY DEF Accept, GiveUp
  <2> QED
    BY <2>1, <2>2, <2>3, <2>4
       DEF Next, Broker, Receive, Reader, Environment, Call, Discard, PassOn, Overhear,
           AckPush, Serve, TakeAck, WallChange, Chatter, Push, vars
<1>4. /\ cur'.start \in Nat
      /\ version[cur'.req.dst][cur'.req.table] \in Nat
      /\ version'[cur'.req.dst][cur'.req.table] \in Nat
  <2>1. Versions \subseteq Nat
    BY BusAssumption DEF Versions
  <2>2. cur'.start \in Versions
    BY <1>0 DEF Actions
  <2> QED
    BY <1>0, <1>1, <2>1, <2>2 DEF TypeOK
<1> QED
  BY <1>2, <1>3, <1>4

\* While a clean action lasts, the broker, the reader and the devices put
\* nothing but its own requests and replies in flight.
LEMMA NextOnlyOwn == CleanInv /\ [Next]_vars => OnlyOwnInFlight'
<1> SUFFICES ASSUME CleanInv, [Next]_vars, cur' # NoAction, cur'.clean
             PROVE  OnlyOwnInFlight'
  BY DEF OnlyOwnInFlight
<1> DEFINE OwnReplies == /\ \A i \in DOMAIN responseCh : OwnReply(responseCh[i])
                         /\ \A i \in DOMAIN toDaemon :
                              toDaemon[i].kind = "reply" => OwnReply(toDaemon[i])
           OwnRequests == \A i \in DOMAIN toDevices :
                            toDevices[i].req # NoRequest =>
                              toDevices[i].req = cur.req /\ toDevices[i].own
<1>0. /\ TypeOK /\ TypeOK' /\ cur' \in Actions
      /\ NoRequest \notin Requests /\ Versions \subseteq Nat
  BY NextTypeOK, BusAssumption DEF CleanInv, TypeOK, Versions
<1>1. ASSUME cur # NoAction, cur.clean PROVE OwnReplies /\ OwnRequests
  BY <1>1 DEF CleanInv, OnlyOwnInFlight
<1>2. CASE TakeAction
  <2> DEFINE call == Head(actionCh)
  <2>1. ~Leftover
    BY <1>2 DEF TakeAction
  <2>2. OwnReplies'
    <3>1. responseCh' = <<>>
      BY <1>2, <2>1 DEF TakeAction, Leftover, Disown
    <3>2. ASSUME NEW i \in DOMAIN toDaemon' PROVE toDaemon'[i].kind # "reply"
      <4>1. i \in DOMAIN toDaemon /\ toDaemon'[i] = [toDaemon[i] EXCEPT !.own = FALSE]
        BY <1>0, <1>2, <3>2, DisownFrames DEF TakeAction, TypeOK
      <4>2. toDaemon[i] \in Received
        BY <1>0, <4>1 DEF TypeOK
      <4> QED
        BY <2>1, <4>1, <4>2 DEF Leftover, Received
    <3> QED
      BY <3>1, <3>2
  <2>3. OwnRequests'
    <3>1. call.req \in Requests
      <4>1. call \in Calls
        BY <1>0, <1>2, TailFrames DEF TakeAction, TypeOK
      <4> QED
        BY <4>1 DEF Calls
    <3>2. [req |-> call.req, own |-> TRUE] \in Sent
      BY <3>1 DEF Sent
    <3>3. \A i \in DOMAIN toDevices' :
            \/ toDevices'[i] = [req |-> call.req, own |-> TRUE]
            \/ i \in DOMAIN toDevices /\ toDevices'[i] = [toDevices[i] EXCEPT !.own = FALSE]
      <4>1. /\ Disown(toDevices) \in Seq(Sent)
            /\ DOMAIN Disown(toDevices) = DOMAIN toDevices
            /\ \A i \in DOMAIN toDevices :
                 Disown(toDevices)[i] = [toDevices[i] EXCEPT !.own = FALSE]
        BY <1>0, DisownRequests DEF TypeOK
      <4>2. Transmit(Disown(toDevices), [req |-> call.req, own |-> TRUE])
        BY <1>2 DEF TakeAction
      <4> HIDE DEF call
      <4> QED
        BY <3>2, <4>1, <4>2, TransmitFrames
    <3>4. \A i \in DOMAIN toDevices : [toDevices[i] EXCEPT !.own = FALSE].req = NoRequest
      <4> SUFFICES ASSUME NEW i \in DOMAIN toDevices
                   PROVE  [toDevices[i] EXCEPT !.own = FALSE].req = NoRequest
        OBVIOUS
      <4>1. toDevices[i] \in Sent
        BY <1>0 DEF TypeOK
      <4> QED
        BY <2>1, <4>1 DEF Leftover, Sent
    <3>5. cur'.req = call.req
      BY <1>2 DEF TakeAction
    <3> SUFFICES ASSUME NEW i \in DOMAIN toDevices', toDevices'[i].req # NoRequest
                 PROVE  toDevices'[i].req = cur'.req /\ toDevices'[i].own
      OBVIOUS
    <3>6. ASSUME i \in DOMAIN toDevices, toDevices'[i] = [toDevices[i] EXCEPT !.own = FALSE]
          PROVE  FALSE
      BY <3>4, <3>6
    <3> HIDE DEF call
    <3>7. toDevices'[i].req = call.req /\ toDevices'[i].own
      BY <3>3, <3>6
    <3> QED
      BY <3>5, <3>7
  <2> QED
    BY <2>2, <2>3 DEF OnlyOwnInFlight
<1>3. CASE Discard
  <2>1. cur # NoAction /\ cur' = cur /\ OwnReplies /\ OwnRequests
    BY <1>1, <1>3 DEF Discard
  <2>2. OwnReplies'
    BY <1>0, <1>3, <2>1, TailFrames DEF Discard, OwnReply, TypeOK
  <2> QED
    BY <1>3, <2>1, <2>2 DEF Discard, OnlyOwnInFlight
<1>4. CASE Retransmit
  <2>1. cur \in Actions /\ cur # NoAction
    BY <1>0, <1>4 DEF Retransmit, TypeOK
  <2>2. cur'.req = cur.req /\ cur'.start = cur.start /\ cur'.clean = cur.clean
    BY <1>4, <2>1 DEF Retransmit, Actions
  <2>3. OwnReplies /\ OwnRequests
    BY <1>1, <2>1, <2>2
  <2>4. OwnReplies'
    BY <1>4, <2>2, <2>3 DEF Retransmit, OwnReply
  <2>5. OwnRequests'
    <3>1. [req |-> cur.req, own |-> TRUE] \in Sent
      BY <2>1 DEF Actions, Sent
    <3>2. \A i \in DOMAIN toDevices' :
            \/ toDevices'[i] = [req |-> cur.req, own |-> TRUE]
            \/ i \in DOMAIN toDevices /\ toDevices'[i] = toDevices[i]
      BY <1>0, <1>4, <3>1, TransmitFrames DEF Retransmit, TypeOK
    <3> QED
      BY <2>2, <2>3, <3>2
  <2> QED
    BY <2>4, <2>5 DEF OnlyOwnInFlight
<1>5. CASE PassOn
  <2>1. cur # NoAction /\ cur' = cur /\ OwnReplies /\ OwnRequests
    BY <1>1, <1>5 DEF PassOn
  <2>2. OwnReplies'
    <3>1. /\ Head(toDaemon) \in Received /\ OwnReply(Head(toDaemon))
          /\ \A i \in DOMAIN toDaemon' : /\ i + 1 \in DOMAIN toDaemon
                                         /\ toDaemon'[i] = toDaemon[i + 1]
      BY <1>0, <1>5, <2>1, TailFrames DEF PassOn, TypeOK
    <3>2. \A i \in DOMAIN responseCh' : \/ /\ i \in DOMAIN responseCh
                                           /\ responseCh'[i] = responseCh[i]
                                        \/ responseCh'[i] = Head(toDaemon)
      BY <1>0, <1>5, <3>1, AppendFrames DEF PassOn, TypeOK
    <3> QED
      BY <2>1, <3>1, <3>2 DEF OwnReply
  <2> QED
    BY <1>5, <2>1, <2>2 DEF PassOn, OnlyOwnInFlight
<1>6. CASE Overhear
  <2>1. cur # NoAction /\ cur' = cur /\ OwnReplies /\ OwnRequests
    BY <1>1, <1>6 DEF Overhear
  <2>2. OwnReplies'
    BY <1>0, <1>6, <2>1, TailFrames DEF Overhear, OwnReply, TypeOK
  <2> QED
    BY <1>6, <2>1, <2>2 DEF Overhear, OnlyOwnInFlight
<1>7. CASE AckPush
  <2>1. cur # NoAction /\ cur' = cur /\ OwnReplies /\ OwnRequests
    BY <1>1, <1>7 DEF AckPush
  <2>2. OwnReplies'
    BY <1>0, <1>7, <2>1, TailFrames DEF AckPush, OwnReply, TypeOK
  <2>3. OwnRequests'
    <3>1. [req |-> NoRequest, own |-> FALSE] \in Sent
      BY DEF Sent
    <3>2. \A i \in DOMAIN toDevices' :
            \/ toDevices'[i] = [req |-> NoRequest, own |-> FALSE]
            \/ i \in DOMAIN toDevices /\ toDevices'[i] = toDevices[i]
      BY <1>0, <1>7, <3>1, TransmitFrames DEF AckPush, TypeOK
    <3> QED
      BY <2>1, <3>2
  <2> QED
    BY <2>2, <2>3 DEF OnlyOwnInFlight
<1>8. CASE Serve
  <2> DEFINE f == Head(toDevices)
  <2>1. cur # NoAction /\ cur' = cur /\ OwnReplies /\ OwnRequests
    BY <1>1, <1>8 DEF Serve
  <2>2. f \in Sent /\ f.req = cur.req /\ f.own /\ cur \in Actions
    BY <1>0, <1>8, <2>1, TailFrames DEF Serve, TypeOK
  <2>3. cur.req.dst \in Devices /\ cur.req.table \in Tables
    BY <2>2, BusAssumption DEF Actions
  <2>4. PICK v \in NextVersions(version[f.req.dst][f.req.table], f.req.op) :
          Arrive(ReplyTo(f, v))
    BY <1>8 DEF Serve
  <2>5. version[f.req.dst][f.req.table] \in Versions
    BY <1>0, <2>2, <2>3 DEF TypeOK
  <2>6. v \in Versions /\ v >= version[f.req.dst][f.req.table]
    <3> DEFINE w == version[f.req.dst][f.req.table]
    <3>1. w \in Nat /\ w <= MaxVersion /\ MaxVersion \in Nat
      BY <2>5, BusAssumption DEF Versions
    <3>2. v = w \/ (v = w + 1 /\ w < MaxVersion)
      BY <2>4 DEF NextVersions
    <3> HIDE DEF w
    <3>3. v \in Versions /\ v >= w
      BY <3>1, <3>2 DEF Versions
    <3> QED
      BY <3>3 DEF w
  <2>7. v >= cur.start
    <3>1. cur.start \in Nat /\ cur.start <= version[f.req.dst][f.req.table]
      BY <1>0, <2>1, <2>2 DEF CleanInv, StartIsPast, Actions
    <3>2. v \in Nat /\ version[f.req.dst][f.req.table] \in Nat
      BY <1>0, <2>5, <2>6
    <3> QED
      BY <2>6, <3>1, <3>2
  <2>8. ReplyTo(f, v) \in Received /\ OwnReply(ReplyTo(f, v))
    BY <2>2, <2>3, <2>6, <2>7 DEF ReplyTo, Received, OwnReply, Sent
  <2>9. OwnReplies'
    <3>1. \A i \in DOMAIN toDaemon' :
            \/ toDaemon'[i] = ReplyTo(f, v)
            \/ i \in DOMAIN toDaemon /\ toDaemon'[i] = toDaemon[i]
      BY <1>0, <2>4, <2>8, ArriveFrames DEF TypeOK
    <3> QED
      BY <1>8, <2>1, <2>8, <3>1 DEF Serve, OwnReply
  <2>10. OwnRequests'
    <3>1. \A i \in DOMAIN toDevices' : i + 1 \in DOMAIN toDevices /\ toDevices'[i] = toDevices[i + 1]
      <4>1. toDevices # <<>> /\ toDevices' = Tail(toDevices)
        BY <1>8 DEF Serve
      <4>2. toDevices \in Seq(Sent)
        BY <1>0 DEF TypeOK
      <4> QED
        BY <4>1, <4>2, TailFrames
    <3> QED
      BY <2>1, <3>1
  <2> QED
    BY <2>9, <2>10 DEF OnlyOwnInFlight
<1>9. CASE TakeAck
  <2>1. cur # NoAction /\ cur' = cur /\ OwnReplies /\ OwnRequests
    BY <1>1, <1>9 DEF TakeAck
  <2>2. OwnRequests'
    BY <1>0, <1>9, <2>1, TailFrames DEF TakeAck, TypeOK
  <2> QED
    BY <1>9, <2>1, <2>2 DEF TakeAck, OnlyOwnInFlight, OwnReply
<1>10. ASSUME NEW f \in Received, f.kind # "reply", toDaemon' = Append(toDaemon, f),
              UNCHANGED <<cur, responseCh, toDevices>>
       PROVE  OnlyOwnInFlight'
  <2>1. OwnReplies /\ OwnRequests
    BY <1>1, <1>10
  <2>2. OwnReplies'
    BY <1>0, <1>10, <2>1, AppendFrames DEF OwnReply, TypeOK
  <2> QED
    BY <1>10, <2>1, <2>2 DEF OnlyOwnInFlight
<1>11. CASE \E d \in Devices, t \in Tables : Chatter(d, t)
  <2>1. PICK d \in Devices, t \in Tables : Chatter(d, t)
    BY <1>11
  <2> DEFINE f == [kind |-> "equip", src |-> d, table |-> t, ver |-> version[d][t],
                   own |-> FALSE]
  <2>2. f \in Received
    BY <1>0 DEF Received, TypeOK
  <2> QED
    BY <1>10, <2>1, <2>2 DEF Chatter
<1>12. CASE Push
  <2> DEFINE f == [kind |-> "push", src |-> DevTSTAT, table |-> NoTable, ver |-> 0,
                   own |-> FALSE]
  <2>1. f \in Received
    BY BusAssumption DEF Received, Versions
  <2> QED
    BY <1>10, <1>12, <2>1 DEF Push
<1>13. CASE UNCHANGED <<cur, responseCh, toDevices, toDaemon>>
  BY <1>1, <1>13 DEF OnlyOwnInFlight, OwnReply
<1>14. ~Accept /\ ~GiveUp
  BY DEF Accept, GiveUp
<1> QED
  BY <1>2, <1>3, <1>4, <1>5, <1>6, <1>7, <1>8, <1>9, <1>11, <1>12, <1>13, <1>14
     DEF Next, Broker, Receive, Reader, Environment, Call, WallChange, vars

\* A call can only return true in Accept, where the response is the action's own.
LEMMA NextCleanCall == CleanInv /\ [Next]_vars => CleanCallIsSound'
<1> SUFFICES ASSUME CleanInv, [Next]_vars PROVE CleanCallIsSound'
  OBVIOUS
<1>0. TypeOK /\ CleanCallIsSound
  BY DEF CleanInv
<1>1. CASE Accept
  <2> DEFINE res == Head(responseCh)
  <2>1. ASSUME cur.clean PROVE OwnReply(res)
    BY <1>0, <1>1, <2>1, TailFrames DEF Accept, CleanInv, OnlyOwnInFlight, TypeOK
  <2>2. cur.caller \in Callers
    BY <1>0, <1>1 DEF Accept, TypeOK, Actions
  <2>3. ASSUME cur.clean
        PROVE  result'[cur.caller].answers /\ result'[cur.caller].current
    BY <1>0, <1>1, <2>1, <2>2, <2>3 DEF Accept, OwnReply, TypeOK
  <2>4. result'[cur.caller].clean = cur.clean
    BY <1>0, <1>1, <2>2 DEF Accept, TypeOK
  <2>5. \A c \in Callers : c # cur.caller => result'[c] = result[c]
    BY <1>0, <1>1 DEF Accept, TypeOK
  <2> QED
    BY <1>0, <2>3, <2>4, <2>5 DEF CleanCallIsSound
<1>2. ASSUME NEW c \in Callers, NEW r \in Requests, Call(c, r) PROVE CleanCallIsSound'
  BY <1>0, <1>2 DEF Call, CleanCallIsSound, NoResult, TypeOK
<1>3. CASE GiveUp
  BY <1>0, <1>3 DEF GiveUp, CleanCallIsSound, Failed, NoResult, TypeOK
<1>4. CASE UNCHANGED result
  BY <1>0, <1>4 DEF CleanCallIsSound
<1> QED
  BY <1>1, <1>2, <1>3, <1>4
     DEF Next, Broker, Receive, Reader, Environment, TakeAction, Discard, Retransmit, PassOn,
         Overhear, AckPush, Serve, TakeAck, WallChange, Chatter, Push, vars

(***************************************************************************)
(* If no reply to an earlier request is on its way when performAction      *)
(* starts, then true from send means that the device handled this request, *)
(* and a read returned what the table held during the call.                *)
(***************************************************************************)
THEOREM CleanCallsAreSound == Spec => []CleanCallIsSound
<1>1. Init => CleanInv
  BY InitTypeOK, InitClean DEF CleanInv
<1>2. CleanInv /\ [Next]_vars => CleanInv'
  BY NextTypeOK, NextOnlyOwn, NextStartIsPast, NextCleanCall DEF CleanInv
<1>3. CleanInv => CleanCallIsSound
  BY DEF CleanInv
<1> QED
  BY <1>1, <1>2, <1>3, PTL DEF Spec

-----------------------------------------------------------------------------
(* False acknowledgements.  A response is taken for the answer if its      *)
(* source and, for a read, its table are those of the request: what a      *)
(* request can be mistaken for is left over from an earlier one of the     *)
(* same device.                                                            *)

\* The reply to a request sent earlier would be taken for the answer to req.
LeadsTo(sent, req) ==
  /\ sent # NoRequest
  /\ sent.dst = req.dst
  /\ req.op = "read" => sent.op = "read" /\ sent.table = req.table

\* Such a reply, or such a request, is still on its way.
Mistakable(req) ==
  \/ \E i \in DOMAIN responseCh : Matches(req, responseCh[i])
  \/ \E i \in DOMAIN toDaemon : toDaemon[i].kind = "reply" /\ Matches(req, toDaemon[i])
  \/ \E i \in DOMAIN toDevices : LeadsTo(toDevices[i].req, req)

\* The broker takes no action while there is one: the leftovers of other devices,
\* and for a read of other tables, it may find.
NothingMistakable == [][TakeAction => ~Mistakable(Head(actionCh).req)]_vars

\* What can be taken for the answer to the action is one.
MatchingIsOwn ==
  cur # NoAction =>
    /\ \A i \in DOMAIN responseCh : Matches(cur.req, responseCh[i]) => responseCh[i].own
    /\ \A i \in DOMAIN toDaemon :
         toDaemon[i].kind = "reply" /\ Matches(cur.req, toDaemon[i]) => toDaemon[i].own
    /\ \A i \in DOMAIN toDevices : LeadsTo(toDevices[i].req, cur.req) => toDevices[i].own

\* Whose a frame is does not change what it can be taken for.
LEMMA DisownedMatches ==
  ASSUME NEW s \in Seq(Received), NEW req
  PROVE  \A i \in DOMAIN Disown(s) :
           /\ i \in DOMAIN s
           /\ Disown(s)[i].kind = s[i].kind
           /\ Matches(req, Disown(s)[i]) <=> Matches(req, s[i])
<1> SUFFICES ASSUME NEW i \in DOMAIN s
             PROVE  /\ Disown(s)[i].kind = s[i].kind
                    /\ Matches(req, Disown(s)[i]) <=> Matches(req, s[i])
  BY DisownFrames
<1>1. s[i] \in Received /\ Disown(s)[i] = [s[i] EXCEPT !.own = FALSE]
  BY DisownFrames
<1>2. /\ Disown(s)[i].kind = s[i].kind /\ Disown(s)[i].src = s[i].src
      /\ Disown(s)[i].table = s[i].table
  BY <1>1 DEF Received
<1> QED
  BY <1>2 DEF Matches

LEMMA TakeMatching ==
  ASSUME TypeOK, TakeAction, ~Mistakable(Head(actionCh).req)
  PROVE  MatchingIsOwn'
<1> DEFINE call == Head(actionCh)
           f == [req |-> call.req, own |-> TRUE]
<1>1. /\ responseCh \in Seq(Received) /\ toDaemon \in Seq(Received) /\ toDevices \in Seq(Sent)
      /\ call \in Calls
  BY TailFrames DEF TypeOK, TakeAction
<1>2. cur'.req = call.req
  BY DEF TakeAction
<1>3. /\ responseCh' = Disown(responseCh) /\ toDaemon' = Disown(toDaemon)
      /\ Transmit(Disown(toDevices), f)
  BY DEF TakeAction
<1>4. f \in Sent /\ f.own
  BY <1>1 DEF Calls, Sent
<1> HIDE DEF call, f
<1>5. \A i \in DOMAIN responseCh' : ~Matches(call.req, responseCh'[i])
  BY <1>1, <1>3, DisownedMatches DEF Mistakable, call
<1>6. \A i \in DOMAIN toDaemon' : toDaemon'[i].kind = "reply" => ~Matches(call.req, toDaemon'[i])
  BY <1>1, <1>3, DisownedMatches DEF Mistakable, call
<1>7. ASSUME NEW i \in DOMAIN toDevices', LeadsTo(toDevices'[i].req, call.req)
      PROVE  toDevices'[i].own
  <2>1. \/ toDevices'[i] = f
        \/ i \in DOMAIN toDevices /\ toDevices'[i] = [toDevices[i] EXCEPT !.own = FALSE]
    <3>1. /\ Disown(toDevices) \in Seq(Sent) /\ DOMAIN Disown(toDevices) = DOMAIN toDevices
          /\ \A j \in DOMAIN toDevices :
               Disown(toDevices)[j] = [toDevices[j] EXCEPT !.own = FALSE]
      BY <1>1, DisownRequests
    <3>2. \/ toDevices'[i] = f
          \/ i \in DOMAIN Disown(toDevices) /\ toDevices'[i] = Disown(toDevices)[i]
      BY <1>3, <1>4, <3>1, TransmitFrames
    <3> QED
      BY <3>1, <3>2
  <2>2. ASSUME i \in DOMAIN toDevices, toDevices'[i] = [toDevices[i] EXCEPT !.own = FALSE]
        PROVE  FALSE
    <3>1. toDevices[i] \in Sent
      BY <1>1, <2>2
    <3>2. toDevices'[i].req = toDevices[i].req
      BY <2>2, <3>1 DEF Sent
    <3>3. ~LeadsTo(toDevices[i].req, call.req)
      BY <2>2 DEF Mistakable, call
    <3> QED
      BY <1>7, <3>2, <3>3
  <2> QED
    BY <1>4, <2>1, <2>2 DEF f
<1> QED
  BY <1>2, <1>5, <1>6, <1>7 DEF MatchingIsOwn

LEMMA NextMatching ==
  ASSUME TypeOK, MatchingIsOwn, [Next]_vars,
         TakeAction => ~Mistakable(Head(actionCh).req)
  PROVE  MatchingIsOwn'
<1> DEFINE Replies(req) ==
             /\ \A i \in DOMAIN responseCh : Matches(req, responseCh[i]) => responseCh[i].own
             /\ \A i \in DOMAIN toDaemon :
                  toDaemon[i].kind = "reply" /\ Matches(req, toDaemon[i]) => toDaemon[i].own
           Sendings(req) == \A i \in DOMAIN toDevices :
                              LeadsTo(toDevices[i].req, req) => toDevices[i].own
<1>0. /\ responseCh \in Seq(Received) /\ toDaemon \in Seq(Received) /\ toDevices \in Seq(Sent)
      /\ cur \in Actions \union {NoAction}
  BY DEF TypeOK
<1>1. ASSUME cur # NoAction PROVE Replies(cur.req) /\ Sendings(cur.req)
  BY <1>1 DEF MatchingIsOwn
<1>2. ASSUME cur # NoAction => cur'.req = cur.req, cur' # NoAction => cur # NoAction,
             cur # NoAction => Replies(cur.req)' /\ Sendings(cur.req)'
      PROVE  MatchingIsOwn'
  BY <1>2 DEF MatchingIsOwn
<1>3. CASE Accept \/ GiveUp
  BY <1>3 DEF Accept, GiveUp, MatchingIsOwn
<1>4. CASE Discard
  <2>1. cur # NoAction /\ cur' = cur /\ Replies(cur.req) /\ Sendings(cur.req)
    BY <1>1, <1>4 DEF Discard
  <2>2. Replies(cur.req)'
    BY <1>0, <1>4, <2>1, TailFrames DEF Discard
  <2> QED
    BY <1>4, <2>1, <2>2 DEF Discard, MatchingIsOwn
<1>5. CASE Retransmit
  <2> DEFINE f == [req |-> cur.req, own |-> TRUE]
  <2>1. cur \in Actions /\ cur # NoAction /\ UNCHANGED <<responseCh, toDaemon>>
    BY <1>0, <1>5 DEF Retransmit
  <2>2. cur'.req = cur.req
    BY <1>5, <2>1 DEF Retransmit, Actions
  <2>3. f \in Sent /\ f.own
    BY <2>1 DEF Actions, Sent
  <2>4. Transmit(toDevices, f)
    BY <1>5 DEF Retransmit
  <2> HIDE DEF f
  <2>5. \A i \in DOMAIN toDevices' :
          toDevices'[i] = f \/ (i \in DOMAIN toDevices /\ toDevices'[i] = toDevices[i])
    BY <1>0, <2>3, <2>4, TransmitFrames
  <2> QED
    BY <1>1, <2>1, <2>2, <2>3, <2>5 DEF MatchingIsOwn
<1>6. CASE PassOn
  <2>1. UNCHANGED <<cur, toDevices>> /\ toDaemon # <<>> /\ Head(toDaemon).kind = "reply"
        /\ responseCh' = Append(responseCh, Head(toDaemon)) /\ toDaemon' = Tail(toDaemon)
    BY <1>6 DEF PassOn
  <2>2. /\ Head(toDaemon) \in Received /\ 1 \in DOMAIN toDaemon /\ Head(toDaemon) = toDaemon[1]
        /\ \A i \in DOMAIN toDaemon' : i + 1 \in DOMAIN toDaemon /\ toDaemon'[i] = toDaemon[i + 1]
    BY <1>0, <2>1, TailFrames
  <2>3. \A i \in DOMAIN responseCh' :
          \/ i \in DOMAIN responseCh /\ responseCh'[i] = responseCh[i]
          \/ responseCh'[i] = Head(toDaemon)
    BY <1>0, <2>1, <2>2, AppendFrames
  <2> QED
    BY <1>1, <2>1, <2>2, <2>3 DEF MatchingIsOwn
<1>7. CASE Overhear
  <2>1. UNCHANGED <<cur, toDevices, responseCh>> /\ toDaemon # <<>> /\ toDaemon' = Tail(toDaemon)
    BY <1>7 DEF Overhear
  <2>2. \A i \in DOMAIN toDaemon' : i + 1 \in DOMAIN toDaemon /\ toDaemon'[i] = toDaemon[i + 1]
    BY <1>0, <2>1, TailFrames
  <2> QED
    BY <1>1, <2>1, <2>2 DEF MatchingIsOwn
<1>8. CASE AckPush
  <2> DEFINE f == [req |-> NoRequest, own |-> FALSE]
  <2>1. UNCHANGED <<cur, responseCh>> /\ toDaemon # <<>> /\ toDaemon' = Tail(toDaemon)
        /\ Transmit(toDevices, f)
    BY <1>8 DEF AckPush
  <2>2. \A i \in DOMAIN toDaemon' : i + 1 \in DOMAIN toDaemon /\ toDaemon'[i] = toDaemon[i + 1]
    BY <1>0, <2>1, TailFrames
  <2>3. f \in Sent /\ f.req = NoRequest
    BY DEF Sent
  <2> HIDE DEF f
  <2>4. \A i \in DOMAIN toDevices' :
          toDevices'[i] = f \/ (i \in DOMAIN toDevices /\ toDevices'[i] = toDevices[i])
    BY <1>0, <2>1, <2>3, TransmitFrames
  <2>5. ASSUME cur # NoAction, NEW i \in DOMAIN toDevices', LeadsTo(toDevices'[i].req, cur.req)
        PROVE  toDevices'[i].own
    BY <1>1, <2>3, <2>4, <2>5 DEF LeadsTo
  <2> QED
    BY <1>1, <2>1, <2>2, <2>5 DEF MatchingIsOwn
<1>9. CASE Serve
  <2> DEFINE f == Head(toDevices)
  <2>1. /\ UNCHANGED <<cur, responseCh>> /\ toDevices # <<>> /\ toDevices' = Tail(toDevices)
        /\ f.req # NoRequest
    BY <1>9 DEF Serve
  <2>2. /\ f \in Sent /\ 1 \in DOMAIN toDevices /\ f = toDevices[1]
        /\ \A i \in DOMAIN toDevices' :
             i + 1 \in DOMAIN toDevices /\ toDevices'[i] = toDevices[i + 1]
    BY <1>0, <2>1, TailFrames
  <2>3. f.req \in Requests /\ f.req.dst \in Devices /\ f.req.table \in Tables
    <3>1. f.req \in Requests
      BY <2>1, <2>2 DEF Sent
    <3> QED
      BY <3>1, BusAssumption
  <2>4. PICK v \in NextVersions(version[f.req.dst][f.req.table], f.req.op) : Arrive(ReplyTo(f, v))
    BY <1>9 DEF Serve
  <2>5. v \in Versions
    <3>1. version[f.req.dst][f.req.table] \in Versions
      BY <2>3 DEF TypeOK
    <3> QED
      BY <2>4, <3>1, BusAssumption DEF NextVersions, Versions
  <2>6. ReplyTo(f, v) \in Received /\ ReplyTo(f, v).own = f.own
    BY <2>2, <2>3, <2>5 DEF ReplyTo, Received, Sent
  <2>7. \A i \in DOMAIN toDaemon' :
          toDaemon'[i] = ReplyTo(f, v) \/ (i \in DOMAIN toDaemon /\ toDaemon'[i] = toDaemon[i])
    BY <1>0, <2>4, <2>6, ArriveFrames
  <2>8. ASSUME cur # NoAction, Matches(cur.req, ReplyTo(f, v)) PROVE f.own
    <3>1. cur.req.table # NoTable /\ cur.req.op \in {"read", "write"}
      <4>1. cur.req \in Requests
        BY <1>0, <2>8 DEF Actions
      <4> QED
        BY <4>1, BusAssumption
    <3>2. /\ cur.req.dst = f.req.dst
          /\ cur.req.op = "read" => f.req.op = "read" /\ cur.req.table = f.req.table
      BY <2>8, <3>1 DEF Matches, ReplyTo
    <3>3. LeadsTo(f.req, cur.req)
      BY <2>1, <3>2 DEF LeadsTo
    <3> QED
      BY <1>1, <2>2, <2>8, <3>3
  <2> HIDE DEF f
  <2>9. ASSUME cur # NoAction PROVE Replies(cur.req)' /\ Sendings(cur.req)'
    BY <1>1, <2>1, <2>2, <2>6, <2>7, <2>8, <2>9
  <2> QED
    BY <2>1, <2>9 DEF MatchingIsOwn
<1>10. CASE TakeAck
  <2>1. UNCHANGED <<cur, responseCh, toDaemon>> /\ toDevices # <<>> /\ toDevices' = Tail(toDevices)
    BY <1>10 DEF TakeAck
  <2>2. \A i \in DOMAIN toDevices' : i + 1 \in DOMAIN toDevices /\ toDevices'[i] = toDevices[i + 1]
    BY <1>0, <2>1, TailFrames
  <2> QED
    BY <1>1, <2>1, <2>2 DEF MatchingIsOwn
<1>11. ASSUME NEW f \in Received, f.kind # "reply", toDaemon' = Append(toDaemon, f),
              UNCHANGED <<cur, responseCh, toDevices>>
       PROVE  MatchingIsOwn'
  <2>1. \A i \in DOMAIN toDaemon' :
          (i \in DOMAIN toDaemon /\ toDaemon'[i] = toDaemon[i]) \/ toDaemon'[i] = f
    BY <1>0, <1>11, AppendFrames
  <2> QED
    BY <1>1, <1>11, <2>1 DEF MatchingIsOwn
<1>12. CASE \E d \in Devices, t \in Tables : Chatter(d, t)
  <2>1. PICK d \in Devices, t \in Tables : Chatter(d, t)
    BY <1>12
  <2> DEFINE f == [kind |-> "equip", src |-> d, table |-> t, ver |-> version[d][t],
                   own |-> FALSE]
  <2>2. f \in Received
    BY DEF Received, TypeOK
  <2> QED
    BY <1>11, <2>1, <2>2 DEF Chatter
<1>13. CASE Push
  <2> DEFINE f == [kind |-> "push", src |-> DevTSTAT, table |-> NoTable, ver |-> 0,
                   own |-> FALSE]
  <2>1. f \in Received
    BY BusAssumption DEF Received, Versions
  <2> QED
    BY <1>11, <1>13, <2>1 DEF Push
<1>14. CASE TakeAction
  BY <1>14, TakeMatching
<1>15. CASE UNCHANGED <<cur, responseCh, toDevices, toDaemon>>
  BY <1>15 DEF MatchingIsOwn
<1> QED
  BY <1>3, <1>4, <1>5, <1>6, <1>7, <1>8, <1>9, <1>10, <1>12, <1>13, <1>14, <1>15
     DEF Next, Broker, Receive, Reader, Environment, Call, WallChange, vars

\* A read, too, that returns true was answered by the device.
EveryOkIsAnswered == \A c \in Callers : result[c].status = "ok" => result[c].answers

\* A call returns true only in Accept, with a response that matches.
LEMMA NextAnswered ==
  ASSUME TypeOK, MatchingIsOwn, EveryOkIsAnswered, [Next]_vars
  PROVE  EveryOkIsAnswered'
<1>1. CASE Accept
  <2> DEFINE res == Head(responseCh)
  <2>1. res.own /\ cur.caller \in Callers
    BY <1>1, TailFrames DEF Accept, MatchingIsOwn, TypeOK, Actions
  <2>2. /\ result'[cur.caller].answers = res.own
        /\ \A c \in Callers : c # cur.caller => result'[c] = result[c]
    BY <1>1, <2>1 DEF Accept, TypeOK
  <2> QED
    BY <2>1, <2>2 DEF EveryOkIsAnswered
<1>2. ASSUME NEW c \in Callers, NEW r \in Requests, Call(c, r) PROVE EveryOkIsAnswered'
  BY <1>2 DEF Call, EveryOkIsAnswered, NoResult, TypeOK
<1>3. CASE GiveUp
  BY <1>3 DEF GiveUp, EveryOkIsAnswered, Failed, NoResult, TypeOK
<1>4. CASE UNCHANGED result
  BY <1>4 DEF EveryOkIsAnswered
<1> QED
  BY <1>1, <1>2, <1>3, <1>4
     DEF Next, Broker, Receive, Reader, Environment, TakeAction, Discard, Retransmit, PassOn,
         Overhear, AckPush, Serve, TakeAck, WallChange, Chatter, Push, vars

\* What is the action's own is no older than the action.
OwnIsCurrent ==
  cur # NoAction =>
    /\ \A i \in DOMAIN responseCh : responseCh[i].own => responseCh[i].ver >= cur.start
    /\ \A i \in DOMAIN toDaemon : toDaemon[i].own => toDaemon[i].ver >= cur.start
    /\ \A i \in DOMAIN toDevices : toDevices[i].own => toDevices[i].req = cur.req

\* The own reply of a device to the request of the action that waits for it.
LEMMA ServeOwn ==
  ASSUME CleanInv, OwnIsCurrent, Serve
  PROVE  OwnIsCurrent'
<1> DEFINE f == Head(toDevices)
           r == f.req
<1>1. /\ UNCHANGED <<cur, responseCh>> /\ toDevices # <<>> /\ toDevices' = Tail(toDevices)
      /\ r # NoRequest
  BY DEF Serve
<1>2. /\ f \in Sent /\ 1 \in DOMAIN toDevices /\ f = toDevices[1]
      /\ \A i \in DOMAIN toDevices' : i + 1 \in DOMAIN toDevices /\ toDevices'[i] = toDevices[i + 1]
  BY <1>1, TailFrames DEF CleanInv, TypeOK
<1>3. r \in Requests /\ r.dst \in Devices /\ r.table \in Tables
  <2>1. r \in Requests
    BY <1>1, <1>2 DEF Sent
  <2> QED
    BY <2>1, BusAssumption
<1>4. PICK v \in NextVersions(version[r.dst][r.table], r.op) : Arrive(ReplyTo(f, v))
  BY DEF Serve
<1>5. /\ version[r.dst][r.table] \in Nat
      /\ v \in Versions /\ v \in Nat /\ v >= version[r.dst][r.table]
  <2>1. version[r.dst][r.table] \in Versions
    BY <1>3 DEF CleanInv, TypeOK
  <2> QED
    BY <1>4, <2>1, BusAssumption DEF NextVersions, Versions
<1>6. ReplyTo(f, v) \in Received /\ ReplyTo(f, v).own = f.own /\ ReplyTo(f, v).ver = v
  <2>1. f.own \in BOOLEAN
    BY <1>2 DEF Sent
  <2> HIDE DEF f, r
  <2>2. ReplyTo(f, v) \in Received
    BY <1>3, <1>5, <2>1 DEF ReplyTo, Received, r
  <2>3. ReplyTo(f, v).own = f.own /\ ReplyTo(f, v).ver = v
    BY DEF ReplyTo
  <2> QED
    BY <2>2, <2>3
<1>7. \A i \in DOMAIN toDaemon' :
        toDaemon'[i] = ReplyTo(f, v) \/ (i \in DOMAIN toDaemon /\ toDaemon'[i] = toDaemon[i])
  BY <1>4, <1>6, ArriveFrames DEF CleanInv, TypeOK
<1>8. ASSUME cur # NoAction, f.own PROVE v >= cur.start
  <2>1. r = cur.req /\ cur.start <= version[cur.req.dst][cur.req.table]
    BY <1>2, <1>8 DEF OwnIsCurrent, CleanInv, StartIsPast
  <2>2. cur.start \in Nat
    BY <1>8, BusAssumption DEF CleanInv, TypeOK, Actions, Versions
  <2> HIDE DEF r
  <2>3. cur.start <= version[r.dst][r.table]
    BY <2>1
  <2> QED
    BY <1>5, <2>2, <2>3
<1> HIDE DEF f, r
<1>9. ASSUME cur # NoAction
      PROVE  /\ \A i \in DOMAIN toDaemon' : toDaemon'[i].own => toDaemon'[i].ver >= cur.start
             /\ \A i \in DOMAIN toDevices' : toDevices'[i].own => toDevices'[i].req = cur.req
  <2>1. \A i \in DOMAIN toDaemon' : toDaemon'[i].own => toDaemon'[i].ver >= cur.start
    BY <1>6, <1>7, <1>8, <1>9 DEF OwnIsCurrent
  <2>2. \A i \in DOMAIN toDevices' : toDevices'[i].own => toDevices'[i].req = cur.req
    BY <1>2, <1>9 DEF OwnIsCurrent
  <2> QED
    BY <2>1, <2>2
<1> QED
  BY <1>1, <1>9 DEF OwnIsCurrent

\* At its start only its first transmission is its own.
LEMMA TakeOwn ==
  ASSUME TypeOK, TakeAction
  PROVE  OwnIsCurrent'
<1> DEFINE call == Head(actionCh)
           f == [req |-> call.req, own |-> TRUE]
<1>1. /\ responseCh \in Seq(Received) /\ toDaemon \in Seq(Received) /\ toDevices \in Seq(Sent)
      /\ call \in Calls
  BY TailFrames DEF TypeOK, TakeAction
<1>2. /\ responseCh' = Disown(responseCh) /\ toDaemon' = Disown(toDaemon)
      /\ Transmit(Disown(toDevices), f) /\ cur'.req = call.req
  BY DEF TakeAction
<1>3. f \in Sent /\ f.req = call.req
  BY <1>1 DEF Calls, Sent
<1> HIDE DEF call, f
<1>4. ASSUME NEW s \in Seq(Received), NEW i \in DOMAIN Disown(s)
      PROVE  ~Disown(s)[i].own
  <2>1. i \in DOMAIN s /\ Disown(s)[i] = [s[i] EXCEPT !.own = FALSE]
    BY DisownFrames
  <2>2. s[i] \in Received
    BY <2>1
  <2> QED
    BY <2>1, <2>2 DEF Received
<1>5. /\ Disown(toDevices) \in Seq(Sent)
      /\ \A i \in DOMAIN Disown(toDevices) : ~Disown(toDevices)[i].own
  <2>1. /\ Disown(toDevices) \in Seq(Sent)
        /\ DOMAIN Disown(toDevices) = DOMAIN toDevices
        /\ \A i \in DOMAIN toDevices :
              Disown(toDevices)[i] = [toDevices[i] EXCEPT !.own = FALSE]
    BY <1>1, DisownRequests
  <2>2. ASSUME NEW i \in DOMAIN toDevices PROVE ~[toDevices[i] EXCEPT !.own = FALSE].own
    <3>1. toDevices[i] \in Sent
      BY <1>1, <2>2
    <3> QED
      BY <3>1 DEF Sent
  <2> QED
    BY <2>1, <2>2
<1>6. \A i \in DOMAIN toDevices' :
        toDevices'[i] = f \/ (i \in DOMAIN Disown(toDevices) /\ toDevices'[i] = Disown(toDevices)[i])
  BY <1>2, <1>3, <1>5, TransmitFrames
<1>7. \A i \in DOMAIN toDevices' : toDevices'[i].own => toDevices'[i].req = cur'.req
  BY <1>2, <1>3, <1>5, <1>6
<1> QED
  BY <1>1, <1>2, <1>4, <1>7 DEF OwnIsCurrent

LEMMA NextOwn ==
  ASSUME CleanInv, OwnIsCurrent, [Next]_vars
  PROVE  OwnIsCurrent'
<1> DEFINE Replies(t) == /\ \A i \in DOMAIN responseCh : responseCh[i].own => responseCh[i].ver >= t
                         /\ \A i \in DOMAIN toDaemon : toDaemon[i].own => toDaemon[i].ver >= t
           Sendings(req) == \A i \in DOMAIN toDevices : toDevices[i].own => toDevices[i].req = req
<1>0. /\ responseCh \in Seq(Received) /\ toDaemon \in Seq(Received) /\ toDevices \in Seq(Sent)
      /\ cur \in Actions \union {NoAction}
  BY DEF CleanInv, TypeOK
<1>1. ASSUME cur # NoAction PROVE Replies(cur.start) /\ Sendings(cur.req)
  BY <1>1 DEF OwnIsCurrent
<1>2. CASE TakeAction
  BY <1>2, TakeOwn DEF CleanInv
<1>3. CASE Accept \/ GiveUp
  BY <1>3 DEF Accept, GiveUp, OwnIsCurrent
<1>4. CASE Discard
  <2>1. cur # NoAction /\ UNCHANGED <<cur, toDaemon, toDevices>> /\ responseCh' = Tail(responseCh)
        /\ responseCh # <<>>
    BY <1>4 DEF Discard
  <2>2. \A i \in DOMAIN responseCh' :
          i + 1 \in DOMAIN responseCh /\ responseCh'[i] = responseCh[i + 1]
    BY <1>0, <2>1, TailFrames
  <2> QED
    BY <1>1, <2>1, <2>2 DEF OwnIsCurrent
<1>5. CASE Retransmit
  <2> DEFINE f == [req |-> cur.req, own |-> TRUE]
  <2>1. cur \in Actions /\ cur # NoAction /\ UNCHANGED <<responseCh, toDaemon>>
    BY <1>0, <1>5 DEF Retransmit
  <2>2. cur'.req = cur.req /\ cur'.start = cur.start
    BY <1>5, <2>1 DEF Retransmit, Actions
  <2>3. f \in Sent /\ f.req = cur.req /\ Transmit(toDevices, f)
    BY <1>5, <2>1 DEF Actions, Sent, Retransmit
  <2> HIDE DEF f
  <2>4. \A i \in DOMAIN toDevices' :
          toDevices'[i] = f \/ (i \in DOMAIN toDevices /\ toDevices'[i] = toDevices[i])
    BY <1>0, <2>3, TransmitFrames
  <2> QED
    BY <1>1, <2>1, <2>2, <2>3, <2>4 DEF OwnIsCurrent
<1>6. CASE PassOn
  <2>1. UNCHANGED <<cur, toDevices>> /\ toDaemon # <<>>
        /\ responseCh' = Append(responseCh, Head(toDaemon)) /\ toDaemon' = Tail(toDaemon)
    BY <1>6 DEF PassOn
  <2>2. /\ Head(toDaemon) \in Received /\ 1 \in DOMAIN toDaemon /\ Head(toDaemon) = toDaemon[1]
        /\ \A i \in DOMAIN toDaemon' : i + 1 \in DOMAIN toDaemon /\ toDaemon'[i] = toDaemon[i + 1]
    BY <1>0, <2>1, TailFrames
  <2>3. \A i \in DOMAIN responseCh' :
          \/ i \in DOMAIN responseCh /\ responseCh'[i] = responseCh[i]
          \/ responseCh'[i] = Head(toDaemon)
    BY <1>0, <2>1, <2>2, AppendFrames
  <2> QED
    BY <1>1, <2>1, <2>2, <2>3 DEF OwnIsCurrent
<1>7. CASE Overhear
  <2>1. UNCHANGED <<cur, toDevices, responseCh>> /\ toDaemon # <<>> /\ toDaemon' = Tail(toDaemon)
    BY <1>7 DEF Overhear
  <2>2. \A i \in DOMAIN toDaemon' : i + 1 \in DOMAIN toDaemon /\ toDaemon'[i] = toDaemon[i + 1]
    BY <1>0, <2>1, TailFrames
  <2> QED
    BY <1>1, <2>1, <2>2 DEF OwnIsCurrent
<1>8. CASE AckPush
  <2> DEFINE f == [req |-> NoRequest, own |-> FALSE]
  <2>1. UNCHANGED <<cur, responseCh>> /\ toDaemon # <<>> /\ toDaemon' = Tail(toDaemon)
        /\ Transmit(toDevices, f)
    BY <1>8 DEF AckPush
  <2>2. \A i \in DOMAIN toDaemon' : i + 1 \in DOMAIN toDaemon /\ toDaemon'[i] = toDaemon[i + 1]
    BY <1>0, <2>1, TailFrames
  <2>3. f \in Sent /\ ~f.own
    BY DEF Sent
  <2> HIDE DEF f
  <2>4. \A i \in DOMAIN toDevices' :
          toDevices'[i] = f \/ (i \in DOMAIN toDevices /\ toDevices'[i] = toDevices[i])
    BY <1>0, <2>1, <2>3, TransmitFrames
  <2> QED
    BY <1>1, <2>1, <2>2, <2>3, <2>4 DEF OwnIsCurrent
<1>9. CASE Serve
  BY <1>9, ServeOwn
<1>10. CASE TakeAck
  <2>1. UNCHANGED <<cur, responseCh, toDaemon>> /\ toDevices # <<>> /\ toDevices' = Tail(toDevices)
    BY <1>10 DEF TakeAck
  <2>2. \A i \in DOMAIN toDevices' : i + 1 \in DOMAIN toDevices /\ toDevices'[i] = toDevices[i + 1]
    BY <1>0, <2>1, TailFrames
  <2> QED
    BY <1>1, <2>1, <2>2 DEF OwnIsCurrent
<1>11. ASSUME NEW f \in Received, ~f.own, toDaemon' = Append(toDaemon, f),
              UNCHANGED <<cur, responseCh, toDevices>>
       PROVE  OwnIsCurrent'
  <2>1. \A i \in DOMAIN toDaemon' :
          (i \in DOMAIN toDaemon /\ toDaemon'[i] = toDaemon[i]) \/ toDaemon'[i] = f
    BY <1>0, <1>11, AppendFrames
  <2> QED
    BY <1>1, <1>11, <2>1 DEF OwnIsCurrent
<1>12. CASE \E d \in Devices, t \in Tables : Chatter(d, t)
  <2>1. PICK d \in Devices, t \in Tables : Chatter(d, t)
    BY <1>12
  <2> DEFINE f == [kind |-> "equip", src |-> d, table |-> t, ver |-> version[d][t],
                   own |-> FALSE]
  <2>2. f \in Received
    BY DEF Received, CleanInv, TypeOK
  <2> QED
    BY <1>11, <2>1, <2>2 DEF Chatter
<1>13. CASE Push
  <2> DEFINE f == [kind |-> "push", src |-> DevTSTAT, table |-> NoTable, ver |-> 0,
                   own |-> FALSE]
  <2>1. f \in Received
    BY BusAssumption DEF Received, Versions
  <2> QED
    BY <1>11, <1>13, <2>1 DEF Push
<1>14. CASE UNCHANGED <<cur, responseCh, toDevices, toDaemon>>
  BY <1>14 DEF OwnIsCurrent
<1> QED
  BY <1>2, <1>3, <1>4, <1>5, <1>6, <1>7, <1>8, <1>9, <1>10, <1>12, <1>13, <1>14
     DEF Next, Broker, Receive, Reader, Environment, Call, WallChange, vars

\* A read that returned true returned what the table held during the call.
OkIsCurrent == \A c \in Callers : result[c].status = "ok" => result[c].current

\* The accepted response is the action's own, and so no older than the action.
LEMMA NextCurrent ==
  ASSUME TypeOK, MatchingIsOwn, OwnIsCurrent, OkIsCurrent, [Next]_vars
  PROVE  OkIsCurrent'
<1>1. CASE Accept
  <2> DEFINE res == Head(responseCh)
  <2>1. 1 \in DOMAIN responseCh /\ res = responseCh[1] /\ cur # NoAction /\ Matches(cur.req, res)
    BY <1>1, TailFrames DEF Accept, TypeOK
  <2>2. res.ver >= cur.start
    BY <2>1 DEF MatchingIsOwn, OwnIsCurrent
  <2>3. cur.caller \in Callers
    BY <2>1 DEF TypeOK, Actions
  <2>4. /\ result'[cur.caller].current = (cur.req.op = "read" => res.ver >= cur.start)
        /\ \A c \in Callers : c # cur.caller => result'[c] = result[c]
    BY <1>1, <2>3 DEF Accept, TypeOK
  <2> QED
    BY <2>2, <2>3, <2>4 DEF OkIsCurrent
<1>2. ASSUME NEW c \in Callers, NEW r \in Requests, Call(c, r) PROVE OkIsCurrent'
  BY <1>2 DEF Call, OkIsCurrent, NoResult, TypeOK
<1>3. CASE GiveUp
  BY <1>3 DEF GiveUp, OkIsCurrent, Failed, NoResult, TypeOK
<1>4. CASE UNCHANGED result
  BY <1>4 DEF OkIsCurrent
<1> QED
  BY <1>1, <1>2, <1>3, <1>4
     DEF Next, Broker, Receive, Reader, Environment, TakeAction, Discard, Retransmit, PassOn,
         Overhear, AckPush, Serve, TakeAck, WallChange, Chatter, Push, vars

AnswerInv == CleanInv /\ MatchingIsOwn /\ OwnIsCurrent /\ EveryOkIsAnswered /\ OkIsCurrent

(***************************************************************************)
(* Whatever is lost, delayed or retransmitted: send returns true for a     *)
(* request the device did not handle, or a read something older than the   *)
(* call, only if performAction began while a reply of that device (and for *)
(* a read, of that table) to an earlier request was still on its way.      *)
(***************************************************************************)
THEOREM AnsweredButForLeftover ==
  Spec /\ NothingMistakable => []OkIsAnswered /\ []EveryOkIsAnswered /\ []OkIsCurrent
<1>1. Init => AnswerInv
  BY InitTypeOK, InitClean
     DEF Init, AnswerInv, CleanInv, MatchingIsOwn, OwnIsCurrent, EveryOkIsAnswered, OkIsCurrent, NoResult
<1>2. AnswerInv /\ [Next]_vars /\ [TakeAction => ~Mistakable(Head(actionCh).req)]_vars => AnswerInv'
  <2> SUFFICES ASSUME AnswerInv, [Next]_vars,
                      [TakeAction => ~Mistakable(Head(actionCh).req)]_vars
               PROVE  AnswerInv'
    OBVIOUS
  <2>1. CleanInv'
    BY NextTypeOK, NextOnlyOwn, NextStartIsPast, NextCleanCall DEF AnswerInv, CleanInv
  <2>2. CASE TakeAction => ~Mistakable(Head(actionCh).req)
    <3>1. MatchingIsOwn' /\ EveryOkIsAnswered'
      BY <2>2, NextMatching, NextAnswered DEF AnswerInv, CleanInv
    <3>2. OwnIsCurrent' /\ OkIsCurrent'
      BY NextOwn, NextCurrent DEF AnswerInv, CleanInv
    <3> QED
      BY <2>1, <3>1, <3>2 DEF AnswerInv
  <2>3. CASE UNCHANGED vars
    BY <2>1, <2>3 DEF AnswerInv, vars, MatchingIsOwn, OwnIsCurrent, EveryOkIsAnswered, OkIsCurrent
  <2> QED
    BY <2>2, <2>3
<1>3. AnswerInv => OkIsAnswered /\ EveryOkIsAnswered /\ OkIsCurrent
  BY DEF AnswerInv, OkIsAnswered, EveryOkIsAnswered
<1> QED
  BY <1>1, <1>2, <1>3, PTL DEF Spec, NothingMistakable

-----------------------------------------------------------------------------
(* Reads never go back in time.                                            *)

LEMMA InitInOrder == Init => VersionsInOrder
  BY DEF Init, VersionsInOrder

\* Versions are numbers, in the tables and in every frame on its way to us.
LEMMA VersionsAreNat ==
  ASSUME TypeOK
  PROVE  /\ Versions \subseteq Nat
         /\ \A d \in Devices, t \in Tables : version[d][t] \in Nat /\ lastRead[d][t] \in Nat
         /\ \A i \in DOMAIN responseCh : responseCh[i].ver \in Nat /\ responseCh[i].src \in Devices
         /\ \A i \in DOMAIN toDaemon : toDaemon[i].ver \in Nat /\ toDaemon[i].src \in Devices
<1>1. Versions \subseteq Nat
  BY BusAssumption DEF Versions
<1>2. \A i \in DOMAIN responseCh : responseCh[i] \in Received
  BY DEF TypeOK
<1>3. \A i \in DOMAIN toDaemon : toDaemon[i] \in Received
  BY DEF TypeOK
<1>4. \A d \in Devices, t \in Tables : version[d][t] \in Versions /\ lastRead[d][t] \in Versions
  BY DEF TypeOK
<1>5. \A f \in Received : f.ver \in Nat /\ f.src \in Devices
  BY <1>1 DEF Received
<1> QED
  BY <1>1, <1>2, <1>3, <1>4, <1>5

\* A reply no older than its table may join the end of the wire.
LEMMA ArrivalInOrder ==
  ASSUME TypeOK, TypeOK', VersionsInOrder, NEW f \in Received, Arrive(f),
         f.table \in Tables => f.ver = version'[f.src][f.table],
         \A d \in Devices, t \in Tables : version[d][t] <= version'[d][t],
         UNCHANGED <<responseCh, lastRead>>
  PROVE  VersionsInOrder'
<1>1. \A i \in DOMAIN toDaemon' :
         \/ i \in DOMAIN toDaemon /\ toDaemon'[i] = toDaemon[i]
         \/ i = Len(toDaemon) + 1 /\ toDaemon'[i] = f
  <2>1. toDaemon \in Seq(Received)
    BY DEF TypeOK
  <2>2. CASE UNCHANGED toDaemon
    BY <2>2
  <2>3. CASE toDaemon' = Append(toDaemon, f)
    BY <2>1, <2>3, AppendFrames
  <2> QED
    BY <2>2, <2>3 DEF Arrive
<1>2. \A g \in Received : Between(g) => Between(g)' /\ NotNewer(g, f)
  <2> SUFFICES ASSUME NEW g \in Received, Between(g), g.table \in Tables
               PROVE  Between(g)' /\ NotNewer(g, f)
    BY DEF Between, NotNewer
  <2>1. /\ lastRead[g.src][g.table] <= g.ver /\ g.ver <= version[g.src][g.table]
        /\ g.src \in Devices
    BY DEF Between, Received
  <2>2. /\ g.ver \in Nat /\ version[g.src][g.table] \in Nat /\ version'[g.src][g.table] \in Nat
    BY <2>1, VersionsAreNat DEF TypeOK, Received
  <2>3. g.ver <= version'[g.src][g.table]
    BY <2>1, <2>2
  <2> QED
    BY <2>1, <2>3 DEF Between, NotNewer
<1>3. Between(f)'
  <2> SUFFICES ASSUME f.table \in Tables
               PROVE  lastRead'[f.src][f.table] <= f.ver /\ f.ver <= version'[f.src][f.table]
    BY DEF Between
  <2>1. f.src \in Devices /\ f.ver \in Nat
    BY VersionsAreNat DEF Received
  <2>2. lastRead[f.src][f.table] <= version[f.src][f.table]
    BY <2>1 DEF VersionsInOrder
  <2> QED
    BY <2>1, <2>2, VersionsAreNat
<1>4. NotNewer(f, f)
  BY VersionsAreNat DEF NotNewer, Received
<1>5. \A i \in DOMAIN responseCh : responseCh[i] \in Received /\ Between(responseCh[i])
  BY DEF VersionsInOrder, TypeOK
<1>6. \A i \in DOMAIN toDaemon : toDaemon[i] \in Received /\ Between(toDaemon[i])
  BY DEF VersionsInOrder, TypeOK
<1>7. \A d \in Devices, t \in Tables : lastRead'[d][t] <= version'[d][t]
  <2> SUFFICES ASSUME NEW d \in Devices, NEW t \in Tables
               PROVE  lastRead'[d][t] <= version'[d][t]
    OBVIOUS
  <2>1. lastRead[d][t] <= version[d][t] /\ version[d][t] <= version'[d][t]
    BY DEF VersionsInOrder
  <2>2. lastRead[d][t] \in Nat /\ version[d][t] \in Nat /\ version'[d][t] \in Nat
    BY VersionsAreNat DEF TypeOK
  <2> QED
    BY <2>1, <2>2
<1>8. \A i \in DOMAIN responseCh', j \in DOMAIN toDaemon' : NotNewer(responseCh'[i], toDaemon'[j])
  BY <1>1, <1>2, <1>5 DEF VersionsInOrder
<1>9. \A i, j \in DOMAIN toDaemon' : i <= j => NotNewer(toDaemon'[i], toDaemon'[j])
  <2> SUFFICES ASSUME NEW i \in DOMAIN toDaemon', NEW j \in DOMAIN toDaemon', i <= j
               PROVE  NotNewer(toDaemon'[i], toDaemon'[j])
    OBVIOUS
  <2>0. i \in Nat /\ j \in Nat
    BY DEF TypeOK
  <2>1. CASE j \in DOMAIN toDaemon /\ toDaemon'[j] = toDaemon[j]
    <3>1. i \in DOMAIN toDaemon /\ toDaemon'[i] = toDaemon[i]
      BY <1>1, <2>0, <2>1 DEF TypeOK
    <3> QED
      BY <2>1, <3>1 DEF VersionsInOrder
  <2>2. CASE toDaemon'[j] = f
    BY <1>1, <1>2, <1>4, <1>6, <2>2
  <2> QED
    BY <1>1, <2>1, <2>2
<1>10. \A i \in DOMAIN toDaemon' : Between(toDaemon[i])'
  <2> SUFFICES ASSUME NEW i \in DOMAIN toDaemon' PROVE Between(toDaemon[i])'
    OBVIOUS
  <2>1. CASE toDaemon'[i] = f
    BY <1>3, <2>1 DEF Between
  <2>2. CASE i \in DOMAIN toDaemon /\ toDaemon'[i] = toDaemon[i]
    BY <1>2, <1>6, <2>2 DEF Between
  <2> QED
    BY <1>1, <2>1, <2>2
<1>11. \A i \in DOMAIN responseCh' : Between(responseCh[i])'
  BY <1>2, <1>5 DEF Between
<1>12. \A i, j \in DOMAIN responseCh' : i <= j => NotNewer(responseCh'[i], responseCh'[j])
  BY DEF VersionsInOrder
<1> QED
  BY <1>7, <1>8, <1>9, <1>10, <1>11, <1>12 DEF VersionsInOrder, Between, NotNewer

\* Accept changes what was read last of the response's table alone.
LEMMA AcceptReads ==
  ASSUME TypeOK, Accept
  PROVE  \A d \in Devices, t \in Tables :
           \/ lastRead'[d][t] = lastRead[d][t]
           \/ /\ d = Head(responseCh).src
              /\ t = Head(responseCh).table
              /\ lastRead'[d][t] = Head(responseCh).ver
<1> DEFINE res == Head(responseCh)
<1>1. cur \in Actions /\ res \in Received
  BY TailFrames DEF Accept, TypeOK
<1>2. CASE cur.req.op = "read"
  <2>1. cur.req.dst = res.src /\ cur.req.table = res.table
    BY <1>2 DEF Accept, Matches
  <2>2. lastRead' = [lastRead EXCEPT ![res.src][res.table] = res.ver]
    BY <1>2, <2>1 DEF Accept
  <2> HIDE DEF res
  <2> QED
    BY <2>2 DEF TypeOK, res
<1>3. CASE cur.req.op # "read"
  BY <1>3 DEF Accept
<1> QED
  BY <1>2, <1>3

\* Frames only leave at the head, move from the wire to responseCh in their
\* order, or join the end of the wire.
LEMMA NextInOrder == TypeOK /\ VersionsInOrder /\ [Next]_vars => VersionsInOrder'
<1> SUFFICES ASSUME TypeOK, VersionsInOrder, [Next]_vars PROVE VersionsInOrder'
  OBVIOUS
<1>0. /\ TypeOK'
      /\ responseCh \in Seq(Received) /\ toDaemon \in Seq(Received)
      /\ \A d \in Devices, t \in Tables : version[d][t] <= version'[d][t]
      /\ \A d \in Devices, t \in Tables : version'[d][t] \in Versions
      /\ NoTable \notin Tables /\ DevTSTAT \in Devices
  BY NextTypeOK, VersionsGrow, BusAssumption DEF TypeOK
<1>1. CASE TakeAction
  <2>1. \A f \in Received : LET g == [f EXCEPT !.own = FALSE] IN
          g.src = f.src /\ g.table = f.table /\ g.ver = f.ver
    BY DEF Received
  <2>2. \A i \in DOMAIN responseCh' :
          /\ i \in DOMAIN responseCh
          /\ responseCh'[i].src = responseCh[i].src
          /\ responseCh'[i].table = responseCh[i].table
          /\ responseCh'[i].ver = responseCh[i].ver
    <3> SUFFICES ASSUME NEW i \in DOMAIN responseCh'
                 PROVE  /\ i \in DOMAIN responseCh
                        /\ responseCh'[i].src = responseCh[i].src
                        /\ responseCh'[i].table = responseCh[i].table
                        /\ responseCh'[i].ver = responseCh[i].ver
      OBVIOUS
    <3>1. i \in DOMAIN responseCh /\ responseCh'[i] = [responseCh[i] EXCEPT !.own = FALSE]
      BY <1>0, <1>1, DisownFrames DEF TakeAction
    <3>2. responseCh[i] \in Received
      BY <1>0, <3>1
    <3> QED
      BY <2>1, <3>1, <3>2
  <2>3. \A i \in DOMAIN toDaemon' :
          /\ i \in DOMAIN toDaemon
          /\ toDaemon'[i].src = toDaemon[i].src
          /\ toDaemon'[i].table = toDaemon[i].table
          /\ toDaemon'[i].ver = toDaemon[i].ver
    <3> SUFFICES ASSUME NEW i \in DOMAIN toDaemon'
                 PROVE  /\ i \in DOMAIN toDaemon
                        /\ toDaemon'[i].src = toDaemon[i].src
                        /\ toDaemon'[i].table = toDaemon[i].table
                        /\ toDaemon'[i].ver = toDaemon[i].ver
      OBVIOUS
    <3>1. i \in DOMAIN toDaemon /\ toDaemon'[i] = [toDaemon[i] EXCEPT !.own = FALSE]
      BY <1>0, <1>1, DisownFrames DEF TakeAction
    <3>2. toDaemon[i] \in Received
      BY <1>0, <3>1
    <3> QED
      BY <2>1, <3>1, <3>2
  <2>4. version' = version /\ lastRead' = lastRead
    BY <1>1 DEF TakeAction
  <2> QED
    BY <2>2, <2>3, <2>4 DEF VersionsInOrder, NotNewer, Between
<1>2. CASE Accept
  <2> DEFINE res == Head(responseCh)
  <2>1. /\ res \in Received /\ res = responseCh[1] /\ 1 \in DOMAIN responseCh
        /\ \A i \in DOMAIN responseCh' : /\ i + 1 \in DOMAIN responseCh
                                         /\ responseCh'[i] = responseCh[i + 1]
                                          /\ 1 <= i + 1
    BY <1>0, <1>2, TailFrames DEF Accept
  <2>2. toDaemon' = toDaemon /\ version' = version
    BY <1>2 DEF Accept
  <2>3. \A d \in Devices, t \in Tables :
          \/ lastRead'[d][t] = lastRead[d][t]
          \/ d = res.src /\ t = res.table /\ lastRead'[d][t] = res.ver
    BY <1>2, AcceptReads
  <2>4. \A i \in DOMAIN responseCh' : Between(responseCh[i])'
    <3> SUFFICES ASSUME NEW i \in DOMAIN responseCh', responseCh'[i].table \in Tables
                 PROVE  /\ lastRead'[responseCh'[i].src][responseCh'[i].table] <= responseCh'[i].ver
                        /\ responseCh'[i].ver <= version'[responseCh'[i].src][responseCh'[i].table]
      BY DEF Between
    <3>1. Between(responseCh'[i]) /\ NotNewer(res, responseCh'[i])
      BY <2>1 DEF VersionsInOrder
    <3>2. responseCh'[i].src \in Devices
      BY <2>1, VersionsAreNat
    <3> QED
      BY <2>2, <2>3, <3>1, <3>2 DEF Between, NotNewer
  <2>5. \A i \in DOMAIN toDaemon' : Between(toDaemon[i])'
    <3> SUFFICES ASSUME NEW i \in DOMAIN toDaemon, toDaemon[i].table \in Tables
                 PROVE  /\ lastRead'[toDaemon[i].src][toDaemon[i].table] <= toDaemon[i].ver
                        /\ toDaemon[i].ver <= version[toDaemon[i].src][toDaemon[i].table]
      BY <2>2 DEF Between
    <3>1. Between(toDaemon[i]) /\ NotNewer(res, toDaemon[i])
      BY <2>1 DEF VersionsInOrder
    <3>2. toDaemon[i].src \in Devices
      BY VersionsAreNat
    <3> QED
      BY <2>2, <2>3, <3>1, <3>2 DEF Between, NotNewer
  <2>6. \A d \in Devices, t \in Tables : lastRead'[d][t] <= version'[d][t]
    <3>1. Between(res)
      BY <2>1 DEF VersionsInOrder
    <3> QED
      BY <2>2, <2>3, <3>1 DEF VersionsInOrder, Between
  <2>7. \A i, j \in DOMAIN responseCh' : i <= j => NotNewer(responseCh'[i], responseCh'[j])
    <3>1. \A i \in DOMAIN responseCh' : i \in Nat
      BY <1>0 DEF TypeOK
    <3> QED
      BY <2>1, <3>1 DEF VersionsInOrder
  <2>8. \A i \in DOMAIN responseCh', j \in DOMAIN toDaemon' : NotNewer(responseCh'[i], toDaemon'[j])
    BY <2>1, <2>2 DEF VersionsInOrder
  <2> QED
    BY <2>2, <2>4, <2>5, <2>6, <2>7, <2>8 DEF VersionsInOrder, NotNewer
<1>3. CASE Discard
  <2>1. /\ \A i \in DOMAIN responseCh' : /\ i + 1 \in DOMAIN responseCh /\ i \in Nat
                                         /\ responseCh'[i] = responseCh[i + 1]
    BY <1>0, <1>3, TailFrames DEF Discard, TypeOK
  <2>2. UNCHANGED <<toDaemon, version, lastRead>>
    BY <1>3 DEF Discard
  <2> QED
    BY <2>1, <2>2 DEF VersionsInOrder, NotNewer, Between
<1>4. ASSUME toDaemon # <<>>, toDaemon' = Tail(toDaemon), UNCHANGED <<responseCh, version, lastRead>>
      PROVE  VersionsInOrder'
  <2>1. \A i \in DOMAIN toDaemon' : /\ i + 1 \in DOMAIN toDaemon /\ i \in Nat
                                    /\ toDaemon'[i] = toDaemon[i + 1]
    BY <1>0, <1>4, TailFrames DEF TypeOK
  <2> QED
    BY <1>4, <2>1 DEF VersionsInOrder, NotNewer, Between
<1>5. CASE PassOn
  <2>1. /\ 1 \in DOMAIN toDaemon
        /\ \A i \in DOMAIN toDaemon' : /\ i + 1 \in DOMAIN toDaemon /\ i \in Nat
                                       /\ toDaemon'[i] = toDaemon[i + 1]
    BY <1>0, <1>5, TailFrames DEF PassOn, TypeOK
  <2>2. \A i \in DOMAIN responseCh' :
          /\ i \in Nat
          /\ \/ i \in DOMAIN responseCh /\ responseCh'[i] = responseCh[i]
             \/ i = Len(responseCh) + 1 /\ responseCh'[i] = toDaemon[1]
    BY <1>0, <1>5, TailFrames, AppendFrames DEF PassOn, TypeOK
  <2>3. UNCHANGED <<version, lastRead>>
    BY <1>5 DEF PassOn
  <2>4. \A i, j \in DOMAIN responseCh' : i <= j => NotNewer(responseCh'[i], responseCh'[j])
    <3>1. \A i \in DOMAIN responseCh : i <= Len(responseCh)
      BY <1>0
    <3>2. \A i \in DOMAIN responseCh' : i = Len(responseCh) + 1 => i \notin DOMAIN responseCh
      BY <1>0
    <3>3. \A i, j \in DOMAIN responseCh' : i <= j /\ j \in DOMAIN responseCh => i \in DOMAIN responseCh
      BY <1>0, <2>2
    <3> QED
      BY <2>1, <2>2, <3>2, <3>3 DEF VersionsInOrder
  <2>5. \A i \in DOMAIN responseCh', j \in DOMAIN toDaemon' : NotNewer(responseCh'[i], toDaemon'[j])
    BY <2>1, <2>2 DEF VersionsInOrder
  <2>6. \A i, j \in DOMAIN toDaemon' : i <= j => NotNewer(toDaemon'[i], toDaemon'[j])
    BY <2>1 DEF VersionsInOrder
  <2>7. \A i \in DOMAIN responseCh' : Between(responseCh[i])'
    BY <2>1, <2>2, <2>3 DEF VersionsInOrder, Between
  <2>8. \A i \in DOMAIN toDaemon' : Between(toDaemon[i])'
    BY <2>1, <2>3 DEF VersionsInOrder, Between
  <2> QED
    BY <2>3, <2>4, <2>5, <2>6, <2>7, <2>8 DEF VersionsInOrder, NotNewer
<1>6. CASE Serve
  <2> DEFINE f == Head(toDevices)
  <2>1. f \in Sent /\ f.req \in Requests
    <3>1. f \in Sent /\ f.req # NoRequest
      BY <1>6, TailFrames DEF Serve, TypeOK
    <3> QED
      BY <3>1 DEF Sent
  <2>2. f.req.dst \in Devices /\ f.req.table \in Tables
    <3>1. Requests \subseteq [op : {"read", "write"}, dst : Devices, table : Tables]
      BY BusAssumption
    <3> HIDE DEF f
    <3> QED
      BY <2>1, <3>1
  <2>3. PICK v \in NextVersions(version[f.req.dst][f.req.table], f.req.op) :
          /\ version' = [version EXCEPT ![f.req.dst][f.req.table] = v]
          /\ Arrive(ReplyTo(f, v))
    BY <1>6 DEF Serve
  <2> DEFINE old == version[f.req.dst][f.req.table]
  <2>4. version'[f.req.dst][f.req.table] = v /\ v \in Versions
    <3>1. version \in [Devices -> [Tables -> Versions]]
      BY <1>0 DEF TypeOK
    <3> HIDE DEF f
    <3>2. old \in Versions /\ v \in NextVersions(old, f.req.op)
      BY <2>2, <2>3, <3>1
    <3>3. v \in Versions
      BY <3>2, BusAssumption DEF NextVersions, Versions
    <3> QED
      BY <2>2, <2>3, <3>1, <3>3
  <2>5. ReplyTo(f, v) \in Received
    BY <2>1, <2>2, <2>4 DEF ReplyTo, Received, Sent
  <2>6. ReplyTo(f, v).table \in Tables =>
          ReplyTo(f, v).ver = version'[ReplyTo(f, v).src][ReplyTo(f, v).table]
    BY <1>0, <2>4 DEF ReplyTo
  <2> QED
    BY <1>0, <1>6, <2>3, <2>5, <2>6, ArrivalInOrder DEF Serve
<1>7. CASE \E d \in Devices, t \in Tables : WallChange(d, t)
  <2> DEFINE f == [kind |-> "push", src |-> DevTSTAT, table |-> NoTable, ver |-> 0, own |-> FALSE]
  <2>1. f \in Received
    BY BusAssumption DEF Received, Versions
  <2>2. Arrive(f) /\ UNCHANGED <<responseCh, lastRead>>
    BY <1>7 DEF WallChange, Arrive
  <2> QED
    BY <1>0, <2>1, <2>2, ArrivalInOrder
<1>8. CASE \E d \in Devices, t \in Tables : Chatter(d, t)
  <2>1. PICK d \in Devices, t \in Tables : Chatter(d, t)
    BY <1>8
  <2> DEFINE f == [kind |-> "equip", src |-> d, table |-> t, ver |-> version[d][t], own |-> FALSE]
  <2>2. f \in Received
    BY DEF Received, TypeOK
  <2>3. Arrive(f) /\ UNCHANGED <<responseCh, version, lastRead>>
    BY <2>1 DEF Chatter, Arrive
  <2> QED
    BY <1>0, <2>2, <2>3, ArrivalInOrder
<1>9. CASE Push
  <2> DEFINE f == [kind |-> "push", src |-> DevTSTAT, table |-> NoTable, ver |-> 0, own |-> FALSE]
  <2>1. f \in Received
    BY BusAssumption DEF Received, Versions
  <2>2. Arrive(f) /\ UNCHANGED <<responseCh, lastRead>>
    BY <1>9 DEF Push, Arrive
  <2> QED
    BY <1>0, <2>1, <2>2, ArrivalInOrder
<1>10. CASE UNCHANGED <<responseCh, toDaemon, version, lastRead>>
  BY <1>10 DEF VersionsInOrder, NotNewer, Between
<1> QED
  BY <1>1, <1>2, <1>3, <1>4, <1>5, <1>6, <1>7, <1>8, <1>9, <1>10
     DEF Next, Broker, Receive, Reader, Environment, Call, Retransmit, GiveUp, Overhear,
         AckPush, TakeAck, vars

\* Only Accept returns a version, and none older than the latest read.
LEMMA NextMonotonic ==
  ASSUME TypeOK, VersionsInOrder, [Next]_vars
  PROVE  \A d \in Devices, t \in Tables : lastRead'[d][t] >= lastRead[d][t]
<1>1. CASE Accept
  <2> DEFINE res == Head(responseCh)
  <2>1. Between(res)
    BY <1>1, TailFrames DEF Accept, VersionsInOrder, TypeOK
  <2>2. \A d \in Devices, t \in Tables :
          \/ lastRead'[d][t] = lastRead[d][t]
          \/ d = res.src /\ t = res.table /\ lastRead'[d][t] = res.ver
    BY <1>1, AcceptReads
  <2>3. \A d \in Devices, t \in Tables : lastRead[d][t] \in Nat
    BY VersionsAreNat
  <2>4. res.ver \in Nat
    BY <1>1, TailFrames, VersionsAreNat DEF Accept, TypeOK
  <2> QED
    BY <2>1, <2>2, <2>3, <2>4 DEF Between
<1>2. CASE UNCHANGED lastRead
  BY <1>2, VersionsAreNat
<1> QED
  BY <1>1, <1>2
     DEF Next, Broker, Receive, Reader, Environment, Call, TakeAction, Discard, Retransmit,
         GiveUp, PassOn, Overhear, AckPush, Serve, TakeAck, WallChange, Chatter, Push, vars

(***************************************************************************)
(* What a read of a table returns is never older than what an earlier read *)
(* of it returned, whoever called and whatever was left in responseCh.     *)
(***************************************************************************)
THEOREM ReadsAreMonotonic == Spec => MonotonicReads
<1>1. Init => TypeOK /\ VersionsInOrder
  BY InitTypeOK, InitInOrder
<1>2. TypeOK /\ VersionsInOrder /\ [Next]_vars => (TypeOK /\ VersionsInOrder)'
  BY NextTypeOK, NextInOrder
<1>3. TypeOK /\ VersionsInOrder /\ [Next]_vars =>
        [\A d \in Devices, t \in Tables : lastRead'[d][t] >= lastRead[d][t]]_vars
  BY NextMonotonic
<1> QED
  BY <1>1, <1>2, <1>3, PTL DEF Spec, MonotonicReads

-----------------------------------------------------------------------------
(* Bus implements BusService, liveness apart.                              *)

\* The calls that wait on actionCh.
Waiting == [i \in DOMAIN actionCh |-> actionCh[i].caller]
Status == [c \in Callers |-> result[c].status]

LEMMA CallersInLine ==
  ASSUME NEW s \in Seq(Calls)
  PROVE  LET w == [i \in DOMAIN s |-> s[i].caller]
         IN  /\ w \in Seq(Callers) /\ Len(w) = Len(s) /\ DOMAIN w = DOMAIN s
             /\ \A i \in DOMAIN s : w[i] = s[i].caller
<1>1. DOMAIN s = 1 .. Len(s) /\ Len(s) \in Nat
  OBVIOUS
<1>2. \A i \in DOMAIN s : s[i].caller \in Callers
  <2>1. \A i \in DOMAIN s : s[i] \in Calls
    OBVIOUS
  <2> QED
    BY <2>1 DEF Calls
<1> QED
  BY <1>1, <1>2

LEMMA FirstAndRest ==
  ASSUME NEW c \in Callers, NEW w \in Seq(Callers)
  PROVE  /\ <<>> \o w = w
         /\ <<c>> \o w \in Seq(Callers) /\ <<c>> \o w # <<>>
         /\ Len(<<c>> \o w) = Len(w) + 1
         /\ \A i \in 1 .. Len(w) + 1 : (<<c>> \o w)[i] = IF i = 1 THEN c ELSE w[i - 1]
         /\ Head(<<c>> \o w) = c
         /\ Tail(<<c>> \o w) = w
  OBVIOUS

\* What is outstanding, by whether an action is being performed.
LEMMA OutstandingCalls ==
  ASSUME TypeOK
  PROVE  /\ Waiting \in Seq(Callers) /\ Outstanding \in Seq(Callers)
         /\ cur = NoAction => Outstanding = Waiting
         /\ cur # NoAction => Outstanding = <<cur.caller>> \o Waiting /\ cur.caller \in Callers
<1>1. Waiting \in Seq(Callers)
  BY CallersInLine DEF TypeOK, Waiting
<1>2. cur # NoAction => cur.caller \in Callers
  BY DEF TypeOK, Actions
<1>3. Outstanding = (IF cur = NoAction THEN <<>> ELSE <<cur.caller>>) \o Waiting
  BY DEF Outstanding, Waiting
<1> QED
  BY <1>1, <1>2, <1>3, FirstAndRest, BusAssumption

LEMMA NextOutstanding ==
  ASSUME TypeOK'
  PROVE  /\ Waiting' \in Seq(Callers)
         /\ cur' # NoAction => Outstanding' = <<cur'.caller>> \o Waiting' /\ cur'.caller \in Callers
<1>1. Waiting' \in Seq(Callers)
  BY CallersInLine DEF TypeOK, Waiting
<1>2. cur' # NoAction => cur'.caller \in Callers
  BY DEF TypeOK, Actions
<1> QED
  BY <1>1, <1>2 DEF Outstanding, Waiting

\* A step that neither makes a call nor answers one stutters.
LEMMA SameCalls ==
  ASSUME TypeOK, TypeOK', UNCHANGED <<actionCh, result>>,
         cur' = cur \/ (cur # NoAction /\ cur' # NoAction /\ cur'.caller = cur.caller)
  PROVE  UNCHANGED <<Outstanding, Status>>
<1>1. Waiting' = Waiting /\ Status' = Status
  BY DEF Waiting, Status
<1> QED
  BY <1>1, OutstandingCalls DEF Outstanding, Waiting

\* A call is behind all the others.
LEMMA CallIsRequest ==
  ASSUME TypeOK, TypeOK', NEW c \in Callers, NEW r \in Requests, Call(c, r)
  PROVE  Service!Request(c)
<1> DEFINE k == [caller |-> c, req |-> r]
<1>1. actionCh' = Append(actionCh, k) /\ k \in Calls /\ actionCh \in Seq(Calls) /\ cur' = cur
  BY DEF Call, Calls, TypeOK
<1>2. Waiting' = Append(Waiting, c)
  <2> DEFINE s == Append(actionCh, k)
  <2>1. s \in Seq(Calls) /\ Len(s) = Len(actionCh) + 1
        /\ \A i \in DOMAIN s : s[i] = IF i = Len(actionCh) + 1 THEN k ELSE actionCh[i]
    BY <1>1
  <2>2. DOMAIN actionCh = 1 .. Len(actionCh) /\ DOMAIN s = 1 .. Len(actionCh) + 1
    BY <1>1, <2>1
  <2>3. Waiting \in Seq(Callers) /\ Len(Waiting) = Len(actionCh)
        /\ \A i \in DOMAIN actionCh : Waiting[i] = actionCh[i].caller
    BY <1>1, CallersInLine DEF Waiting
  <2>4. Waiting' \in Seq(Callers) /\ Len(Waiting') = Len(s) /\ DOMAIN Waiting' = DOMAIN s
        /\ \A i \in DOMAIN s : Waiting'[i] = s[i].caller
    BY <1>1, <2>1, CallersInLine DEF Waiting
  <2> HIDE DEF s, k
  <2>5. \A i \in DOMAIN s : Waiting'[i] = Append(Waiting, c)[i]
    BY <2>1, <2>2, <2>3, <2>4 DEF k
  <2> QED
    BY <2>1, <2>2, <2>3, <2>4, <2>5
<1>3. Outstanding' = Append(Outstanding, c)
  BY <1>1, <1>2, OutstandingCalls DEF Outstanding, Waiting
<1>4. ~Contains(Outstanding, c)
  <2>1. DOMAIN Waiting = DOMAIN actionCh /\ \A i \in DOMAIN actionCh : Waiting[i] = actionCh[i].caller
    BY DEF Waiting
  <2>2. \A i \in DOMAIN Waiting : Waiting[i] # c
    BY <2>1 DEF Call, Busy
  <2>3. cur # NoAction => cur.caller # c
    BY DEF Call, Busy
  <2>4. Waiting \in Seq(Callers)
    BY OutstandingCalls
  <2>5. CASE cur = NoAction
    BY <2>2, <2>4, <2>5, OutstandingCalls DEF Contains
  <2>6. CASE cur # NoAction
    <3>1. \A i \in 1 .. Len(Waiting) + 1 : Outstanding[i] = IF i = 1 THEN cur.caller ELSE Waiting[i - 1]
      BY <2>4, <2>6, OutstandingCalls, FirstAndRest
    <3>2. Len(Outstanding) = Len(Waiting) + 1 /\ Len(Waiting) \in Nat /\ DOMAIN Waiting = 1 .. Len(Waiting)
      BY <2>4, <2>6, OutstandingCalls, FirstAndRest
    <3>3. \A i \in 1 .. Len(Outstanding) : Outstanding[i] # c
      BY <2>2, <2>3, <2>6, <3>1, <3>2
    <3> QED
      BY <3>3 DEF Contains
  <2> QED
    BY <2>5, <2>6
<1>5. Status' = [Status EXCEPT ![c] = "none"]
  BY DEF Call, Status, NoResult, TypeOK
<1> QED
  BY <1>3, <1>4, <1>5 DEF Service!Request, Service!Contains, Contains, Status

\* The broker's next action was the first to wait, and still comes first.
LEMMA TakenIsFirst ==
  ASSUME TypeOK, TypeOK', TakeAction
  PROVE  UNCHANGED <<Outstanding, Status>>
<1>1. /\ actionCh \in Seq(Calls) /\ actionCh # <<>> /\ actionCh' = Tail(actionCh)
      /\ cur = NoAction /\ cur'.caller = Head(actionCh).caller /\ result' = result
  BY DEF TakeAction, TypeOK
<1>2. cur' # NoAction
  <2>1. Head(actionCh) \in Calls
    BY <1>1, TailFrames
  <2>2. cur' \in Actions
    BY <2>1, BusAssumption DEF TakeAction, Actions, Calls, TypeOK
  <2> QED
    BY <2>2, NoActionAssumption
<1>3. /\ Outstanding = Waiting /\ Waiting \in Seq(Callers)
      /\ Outstanding' = <<cur'.caller>> \o Waiting' /\ Waiting' \in Seq(Callers)
      /\ cur'.caller \in Callers
  <2>1. TypeOK' => (cur' # NoAction => Outstanding' = <<cur'.caller>> \o Waiting' /\ cur'.caller \in Callers)
    BY NextOutstanding
  <2> QED
    BY <1>1, <1>2, <2>1, OutstandingCalls, NextOutstanding
<1>4. /\ Len(Waiting) = Len(actionCh) /\ Len(Waiting') = Len(actionCh) - 1
      /\ \A i \in 1 .. Len(actionCh) : Waiting[i] = actionCh[i].caller
      /\ \A i \in 1 .. Len(actionCh) - 1 : Waiting'[i] = actionCh[i + 1].caller
  <2>1. Waiting' = [i \in DOMAIN Tail(actionCh) |-> Tail(actionCh)[i].caller]
    BY <1>1 DEF Waiting
  <2> QED
    BY <1>1, <2>1, TailFrames, CallersInLine DEF Waiting
<1>5. Outstanding' = Outstanding
  <2>1. Outstanding' \in Seq(Callers) /\ Len(Outstanding') = Len(Outstanding)
    BY <1>1, <1>3, <1>4, FirstAndRest
  <2>2. ASSUME NEW i \in 1 .. Len(Outstanding) PROVE Outstanding'[i] = Outstanding[i]
    <3>1. \A j \in 1 .. Len(Waiting') + 1 :
            Outstanding'[j] = IF j = 1 THEN cur'.caller ELSE Waiting'[j - 1]
      BY <1>3, FirstAndRest
    <3>2. Outstanding[i] = actionCh[i].caller /\ i \in Nat /\ i >= 1 /\ i <= Len(actionCh)
      BY <1>1, <1>3, <1>4
    <3>3. CASE i = 1
      BY <1>1, <1>4, <3>1, <3>2, <3>3
    <3>4. CASE i # 1
      <4>1. i \in 1 .. Len(Waiting') + 1 /\ i - 1 \in 1 .. Len(actionCh) - 1 /\ (i - 1) + 1 = i
        BY <1>1, <1>4, <3>2, <3>4
      <4>2. Outstanding'[i] = Waiting'[i - 1]
        BY <3>1, <3>4, <4>1
      <4>3. Waiting'[i - 1] = actionCh[(i - 1) + 1].caller
        BY <1>4, <4>1
      <4> QED
        BY <3>2, <4>1, <4>2, <4>3
    <3> QED
      BY <3>3, <3>4
  <2>3. Outstanding \in Seq(Callers)
    <3>1. Outstanding = Waiting /\ Waiting \in Seq(Callers)
      BY <1>3
    <3> QED
      BY <3>1
  <2>4. \A s, u \in Seq(Callers) :
          Len(s) = Len(u) /\ (\A i \in 1 .. Len(u) : s[i] = u[i]) => s = u
    OBVIOUS
  <2> QED
    BY <2>1, <2>2, <2>3, <2>4
<1> QED
  BY <1>1, <1>5 DEF Status

\* Accept and GiveUp answer the call that came first.
LEMMA EndIsAnswer ==
  ASSUME TypeOK, TypeOK', Accept \/ GiveUp
  PROVE  Service!Answer
<1>1. /\ cur # NoAction /\ cur' = NoAction /\ actionCh' = actionCh
      /\ \E s \in {"ok", "failed"} : Status' = [Status EXCEPT ![cur.caller] = s]
  <2>1. \E r \in Results : r.status \in {"ok", "failed"} /\ result' = [result EXCEPT ![cur.caller] = r]
    <3>1. CASE Accept
      <4> DEFINE r == [status |-> "ok", op |-> cur.req.op, clean |-> cur.clean,
                       answers |-> Head(responseCh).own,
                       current |-> cur.req.op = "read" => Head(responseCh).ver >= cur.start]
      <4>1. result' = [result EXCEPT ![cur.caller] = r] /\ r.status = "ok"
        BY <3>1 DEF Accept
      <4>2. cur \in Actions /\ responseCh \in Seq(Received) /\ responseCh # <<>>
        BY <3>1 DEF Accept, TypeOK
      <4>3. cur.clean \in BOOLEAN /\ cur.req.op \in {"read", "write"}
        BY <4>2, BusAssumption DEF Actions
      <4>4. Head(responseCh).own \in BOOLEAN
        <5> HIDE DEF r
        <5>1. Head(responseCh) \in Received
          BY <4>2, TailFrames
        <5> QED
          BY <5>1 DEF Received
      <4>5. r \in Results
        BY <4>3, <4>4 DEF Results
      <4> QED
        BY <4>1, <4>5
    <3>2. CASE GiveUp
      BY <3>2 DEF GiveUp, Failed, NoResult, Results
    <3> QED
      BY <3>1, <3>2
  <2>2. cur.caller \in Callers /\ result \in [Callers -> Results]
    BY OutstandingCalls DEF Accept, GiveUp, TypeOK
  <2> QED
    BY <2>1, <2>2 DEF Accept, GiveUp, Status
<1>2. Outstanding = <<cur.caller>> \o Waiting /\ cur.caller \in Callers /\ Waiting \in Seq(Callers)
  BY <1>1, OutstandingCalls
<1>3. Outstanding' = Waiting
  BY <1>1, <1>2, FirstAndRest DEF Outstanding, Waiting
<1>4. Outstanding # <<>> /\ Head(Outstanding) = cur.caller /\ Tail(Outstanding) = Waiting
  BY <1>2, FirstAndRest
<1>5. {"ok", "failed"} \subseteq Service!Statuses \ {"none"}
  BY DEF Service!Statuses
<1> QED
  BY <1>1, <1>3, <1>4, <1>5 DEF Service!Answer, Status

LEMMA InitService == Init => Service!Init
<1> SUFFICES ASSUME Init PROVE Service!Init
  OBVIOUS
<1>1. Outstanding = <<>>
  BY DEF Init, Outstanding
<1> QED
  BY <1>1 DEF Init, Service!Init, NoResult

\* Every step makes a call, answers the first one, or is none of the callers' concern.
LEMMA NextService ==
  TypeOK /\ TypeOK' /\ [Next]_vars => [Service!Next]_(Service!vars)
<1> SUFFICES ASSUME TypeOK, TypeOK', [Next]_vars PROVE [Service!Next]_(Service!vars)
  OBVIOUS
<1>1. UNCHANGED <<Outstanding, Status>> => UNCHANGED Service!vars
  BY DEF Service!vars, Status
<1>2. ASSUME NEW c \in Callers, NEW r \in Requests, Call(c, r) PROVE Service!Next
  BY <1>2, CallIsRequest DEF Service!Next
<1>3. CASE TakeAction
  BY <1>1, <1>3, TakenIsFirst
<1>4. CASE Accept \/ GiveUp
  BY <1>4, EndIsAnswer DEF Service!Next
<1>5. CASE Discard \/ Reader \/ Environment \/ UNCHANGED vars
  <2>1. UNCHANGED <<actionCh, cur, result>>
    BY <1>5 DEF Discard, Reader, PassOn, Overhear, AckPush, Environment, Serve, TakeAck,
                WallChange, Chatter, Push, vars
  <2> QED
    BY <1>1, <2>1, SameCalls
<1>6. CASE Retransmit
  <2>1. UNCHANGED <<actionCh, result>> /\ cur # NoAction /\ cur \in Actions
    BY <1>6 DEF Retransmit, TypeOK
  <2>2. cur.tries + 1 \in 0 .. ResponseRetries
    BY <1>6, <2>1, BusAssumption DEF Retransmit, Actions
  <2>3. cur' \in Actions /\ cur'.caller = cur.caller
    BY <1>6, <2>1, <2>2 DEF Retransmit, Actions
  <2> QED
    BY <1>1, <2>1, <2>3, SameCalls, NoActionAssumption
<1> QED
  BY <1>2, <1>3, <1>4, <1>5, <1>6 DEF Next, Broker, Receive

\* The bus serves its callers one at a time, in the order of their calls, and
\* answers each call once: the safety part of ServesCallers.
THEOREM ServesInOrder == Spec => Service!Init /\ [][Service!Next]_(Service!vars)
<1>1. TypeOK /\ TypeOK' /\ [Next]_vars => [Service!Next]_(Service!vars)
  BY NextService
<1> QED
  BY <1>1, InitService, TypeCorrect, PTL DEF Spec
=============================================================================
