-------------------------------- MODULE Bus --------------------------------
(***************************************************************************)
(* The request path of infinity/bus.go.  Goroutines call ReadTable,        *)
(* WriteTable or Read, which all end in send: the call is handed to the    *)
(* broker over actionCh and waits.  The broker performs one action at a    *)
(* time: it transmits the request, retransmits it on every tick, and takes *)
(* frames from responseCh until one matches or the ticks run out.  The     *)
(* reader takes frames off the wire and puts those addressed to this       *)
(* daemon into responseCh, where it blocks while the channel is full.      *)
(*                                                                         *)
(* The wire and the devices are external: frames may be lost in either     *)
(* direction, a device answers late or never, and its tables change when   *)
(* somebody uses the wall unit.  A table's contents are abstracted to a    *)
(* version number.  The serial port itself is taken as open; a failed      *)
(* sendFrame, whose result performAction ignores, is a lost frame.         *)
(***************************************************************************)
EXTENDS Naturals, Sequences, SequencesExt

CONSTANTS
  Callers,          \* the goroutines that call send
  Poller,           \* the caller that never stops calling
  Devices,          \* addresses on the bus other than ours (DevSAM)
  DevTSTAT,         \* the thermostat's
  Tables,           \* table addresses
  NoTable,          \* what a bare ACK06 carries instead of a table address
  Requests,         \* the requests callers make
  Unsolicited,      \* the kinds of traffic nobody asked for
  NoRequest,        \* what a write acknowledgement of ours carries instead
  NoAction,         \* the broker is between actions
  ResponseRetries,  \* responseRetries
  ResponseChCap,    \* capacity of responseCh
  MaxWire,          \* bound: frames in flight in one direction
  MaxVersion        \* bound: changes of one table

ASSUME BusAssumption ==
  /\ Poller \in Callers
  /\ DevTSTAT \in Devices
  /\ NoTable \notin Tables
  /\ Requests \subseteq [op : {"read", "write"}, dst : Devices, table : Tables]
  /\ NoRequest \notin Requests
  /\ Unsolicited \subseteq {"equip", "push"}
  /\ ResponseRetries \in Nat \ {0}
  /\ ResponseChCap \in Nat \ {0}
  /\ MaxWire \in Nat \ {0}
  /\ MaxVersion \in Nat

Versions == 0 .. MaxVersion

(***************************************************************************)
(* A queued call; the action being performed; frames to and from the       *)
(* devices.  The fields clean and start of an action, own of a frame, and  *)
(* op, clean, answers and current of a result are history: they record     *)
(* which call a frame belongs to, which the protocol does not carry.       *)
(***************************************************************************)
Calls == [caller : Callers, req : Requests]

Actions == [caller : Callers, req : Requests, tries : 0 .. ResponseRetries,
            clean : BOOLEAN, start : Versions]

Sent == [req : Requests \union {NoRequest}, own : BOOLEAN]

Received == [kind : {"reply", "equip", "push"}, src : Devices,
             table : Tables \union {NoTable}, ver : Versions, own : BOOLEAN]

Results == [status : {"none", "ok", "failed"}, op : {"none", "read", "write"},
            clean : BOOLEAN, answers : BOOLEAN, current : BOOLEAN]

ASSUME NoActionAssumption == NoAction \notin Actions

VARIABLES
  actionCh,     \* calls blocked in b.actionCh <- act, oldest first
  cur,          \* the action in performAction, or NoAction
  responseCh,   \* replies the reader has passed on, oldest first
  toDevices,    \* frames written to the port and not yet handled
  toDaemon,     \* frames on their way to the reader
  version,      \* each device's tables
  result,       \* what each caller's latest call returned
  lastRead      \* the version the latest successful read of a table returned

vars == <<actionCh, cur, responseCh, toDevices, toDaemon, version, result, lastRead>>

NoResult == [status |-> "none", op |-> "none", clean |-> FALSE, answers |-> FALSE,
             current |-> FALSE]
Failed == [NoResult EXCEPT !.status = "failed"]

TypeOK ==
  /\ actionCh \in Seq(Calls)
  /\ cur \in Actions \union {NoAction}
  /\ responseCh \in Seq(Received)
  /\ Len(responseCh) <= ResponseChCap
  /\ toDevices \in Seq(Sent)
  /\ toDaemon \in Seq(Received)
  /\ version \in [Devices -> [Tables -> Versions]]
  /\ result \in [Callers -> Results]
  /\ lastRead \in [Devices -> [Tables -> Versions]]

Init ==
  /\ actionCh = <<>>
  /\ cur = NoAction
  /\ responseCh = <<>>
  /\ toDevices = <<>>
  /\ toDaemon = <<>>
  /\ version = [d \in Devices |-> [t \in Tables |-> 0]]
  /\ result = [c \in Callers |-> NoResult]
  /\ lastRead = [d \in Devices |-> [t \in Tables |-> 0]]

Disown(frames) == [i \in DOMAIN frames |-> [frames[i] EXCEPT !.own = FALSE]]

\* sendFrame puts f behind wire, or fails, or the frame is lost.
Transmit(wire, f) ==
  \/ toDevices' = wire
  \/ Len(wire) < MaxWire /\ toDevices' = Append(wire, f)

\* A frame reaches the daemon's end of the wire, or is lost.
Arrive(f) ==
  \/ UNCHANGED toDaemon
  \/ Len(toDaemon) < MaxWire /\ toDaemon' = Append(toDaemon, f)

-----------------------------------------------------------------------------
(* Callers.                                                                *)

Busy(c) == \/ \E i \in DOMAIN actionCh : actionCh[i].caller = c
           \/ cur # NoAction /\ cur.caller = c

\* send: the call joins the goroutines blocked on actionCh, then on act.ch.
Call(c, r) ==
  /\ ~Busy(c)
  /\ actionCh' = Append(actionCh, [caller |-> c, req |-> r])
  /\ result' = [result EXCEPT ![c] = NoResult]
  /\ UNCHANGED <<cur, responseCh, toDevices, toDaemon, version, lastRead>>

-----------------------------------------------------------------------------
(* The broker goroutine.                                                   *)

\* A frame that answers some earlier request, or may yet do so.
Leftover == \/ responseCh # <<>>
            \/ \E i \in DOMAIN toDaemon : toDaemon[i].kind = "reply"
            \/ \E i \in DOMAIN toDevices : toDevices[i].req # NoRequest

\* broker takes the next action; performAction transmits it for the first time.
TakeAction ==
  /\ cur = NoAction
  /\ actionCh # <<>>
  /\ LET call == Head(actionCh) IN
       /\ cur' = [caller |-> call.caller, req |-> call.req, tries |-> 0,
                  clean |-> ~Leftover,
                  start |-> version[call.req.dst][call.req.table]]
       /\ Transmit(Disown(toDevices), [req |-> call.req, own |-> TRUE])
  /\ actionCh' = Tail(actionCh)
  /\ responseCh' = Disown(responseCh)
  /\ toDaemon' = Disown(toDaemon)
  /\ UNCHANGED <<version, result, lastRead>>

\* Mutant: any reply of the right device will do.
MatchesSource(req, res) == res.src = req.dst

\* The test performAction puts a response to: the source for every request,
\* the table for reads alone.
Matches(req, res) == /\ res.src = req.dst
                     /\ req.op = "read" => res.table = req.table

\* case res := <-b.responseCh, and the response matches: the caller gets it.
Accept ==
  /\ cur # NoAction
  /\ responseCh # <<>>
  /\ LET res == Head(responseCh) IN
       /\ Matches(cur.req, res)
       /\ result' = [result EXCEPT ![cur.caller] =
                       [status |-> "ok", op |-> cur.req.op, clean |-> cur.clean,
                        answers |-> res.own,
                        current |-> cur.req.op = "read" => res.ver >= cur.start]]
       /\ lastRead' = IF cur.req.op = "read"
                        THEN [lastRead EXCEPT ![cur.req.dst][cur.req.table] = res.ver]
                        ELSE lastRead
  /\ responseCh' = Tail(responseCh)
  /\ cur' = NoAction
  /\ UNCHANGED <<actionCh, toDevices, toDaemon, version>>

\* Mutant: a response that does not match is kept for a later action.
DiscardToBack ==
  /\ cur # NoAction
  /\ responseCh # <<>>
  /\ ~Matches(cur.req, Head(responseCh))
  /\ responseCh' = Append(Tail(responseCh), Head(responseCh))
  /\ UNCHANGED <<actionCh, cur, toDevices, toDaemon, version, result, lastRead>>

\* case res := <-b.responseCh, and it does not match: dropped, tries unchanged.
Discard ==
  /\ cur # NoAction
  /\ responseCh # <<>>
  /\ ~Matches(cur.req, Head(responseCh))
  /\ responseCh' = Tail(responseCh)
  /\ UNCHANGED <<actionCh, cur, toDevices, toDaemon, version, result, lastRead>>

\* Mutant: retransmits without counting.
RetransmitForever ==
  /\ cur # NoAction
  /\ Transmit(toDevices, [req |-> cur.req, own |-> TRUE])
  /\ UNCHANGED <<actionCh, cur, responseCh, toDaemon, version, result, lastRead>>

\* case <-ticker.C: retransmit.
Retransmit ==
  /\ cur # NoAction
  /\ cur.tries + 1 < ResponseRetries
  /\ Transmit(toDevices, [req |-> cur.req, own |-> TRUE])
  /\ cur' = [cur EXCEPT !.tries = @ + 1]
  /\ UNCHANGED <<actionCh, responseCh, toDaemon, version, result, lastRead>>

\* Mutant: returns without action.ch <- false.
GiveUpSilently ==
  /\ cur # NoAction
  /\ cur.tries + 1 >= ResponseRetries
  /\ Transmit(toDevices, [req |-> cur.req, own |-> TRUE])
  /\ cur' = NoAction
  /\ UNCHANGED <<actionCh, responseCh, toDaemon, version, result, lastRead>>

\* The last tick retransmits once more and leaves the loop without waiting.
GiveUp ==
  /\ cur # NoAction
  /\ cur.tries + 1 >= ResponseRetries
  /\ Transmit(toDevices, [req |-> cur.req, own |-> TRUE])
  /\ result' = [result EXCEPT ![cur.caller] = Failed]
  /\ cur' = NoAction
  /\ UNCHANGED <<actionCh, responseCh, toDaemon, version, lastRead>>

Receive == Accept \/ Discard
Broker == TakeAction \/ Receive \/ Retransmit \/ GiveUp

-----------------------------------------------------------------------------
(* The reader goroutine: handleFrame on the next frame.                    *)

\* Mutant: responseCh grows instead of blocking the reader.
PassOnUnbounded ==
  /\ toDaemon # <<>>
  /\ Head(toDaemon).kind = "reply"
  /\ responseCh' = Append(responseCh, Head(toDaemon))
  /\ toDaemon' = Tail(toDaemon)
  /\ UNCHANGED <<actionCh, cur, toDevices, version, result, lastRead>>

\* Mutant: an ACK06 for anybody goes to responseCh.
PassOnAnyones ==
  /\ toDaemon # <<>>
  /\ Head(toDaemon).kind # "push"
  /\ Len(responseCh) < ResponseChCap
  /\ responseCh' = Append(responseCh, Head(toDaemon))
  /\ toDaemon' = Tail(toDaemon)
  /\ UNCHANGED <<actionCh, cur, toDevices, version, result, lastRead>>

\* An ACK06 for us goes to responseCh, and the reader blocks while it is full.
PassOn ==
  /\ toDaemon # <<>>
  /\ Head(toDaemon).kind = "reply"
  /\ Len(responseCh) < ResponseChCap
  /\ responseCh' = Append(responseCh, Head(toDaemon))
  /\ toDaemon' = Tail(toDaemon)
  /\ UNCHANGED <<actionCh, cur, toDevices, version, result, lastRead>>

\* Equipment traffic between other devices is only shown to the snoops.
Overhear ==
  /\ toDaemon # <<>>
  /\ Head(toDaemon).kind = "equip"
  /\ toDaemon' = Tail(toDaemon)
  /\ UNCHANGED <<actionCh, cur, responseCh, toDevices, version, result, lastRead>>

\* The thermostat wrote a table to us: the reader itself answers writeAck.
AckPush ==
  /\ toDaemon # <<>>
  /\ Head(toDaemon).kind = "push"
  /\ Transmit(toDevices, [req |-> NoRequest, own |-> FALSE])
  /\ toDaemon' = Tail(toDaemon)
  /\ UNCHANGED <<actionCh, cur, responseCh, version, result, lastRead>>

Reader == PassOn \/ Overhear \/ AckPush

-----------------------------------------------------------------------------
(* The devices (external).                                                 *)

\* A write bumps the table, or is acknowledged and ignored.
NextVersions(v, op) == IF op = "write" /\ v < MaxVersion THEN {v, v + 1} ELSE {v}

\* A read is answered with the table, a write with a bare ACK06.
ReplyTo(f, v) ==
  [kind |-> "reply", src |-> f.req.dst, ver |-> v, own |-> f.own,
   table |-> IF f.req.op = "read" THEN f.req.table ELSE NoTable]

Serve ==
  /\ toDevices # <<>>
  /\ Head(toDevices).req # NoRequest
  /\ LET f == Head(toDevices) IN
       \E v \in NextVersions(version[f.req.dst][f.req.table], f.req.op) :
         /\ version' = [version EXCEPT ![f.req.dst][f.req.table] = v]
         /\ Arrive(ReplyTo(f, v))
  /\ toDevices' = Tail(toDevices)
  /\ UNCHANGED <<actionCh, cur, responseCh, result, lastRead>>

TakeAck ==
  /\ toDevices # <<>>
  /\ Head(toDevices).req = NoRequest
  /\ toDevices' = Tail(toDevices)
  /\ UNCHANGED <<actionCh, cur, responseCh, toDaemon, version, result, lastRead>>

\* Somebody uses the wall unit, or the equipment changes what it reports.
WallChange(d, t) ==
  /\ version[d][t] < MaxVersion
  /\ version' = [version EXCEPT ![d][t] = @ + 1]
  /\ UNCHANGED <<actionCh, cur, responseCh, toDevices, toDaemon, result, lastRead>>

\* One device answers another that is not us.
Chatter(d, t) ==
  /\ "equip" \in Unsolicited
  /\ Len(toDaemon) < MaxWire
  /\ toDaemon' = Append(toDaemon, [kind |-> "equip", src |-> d, table |-> t,
                                   ver |-> version[d][t], own |-> FALSE])
  /\ UNCHANGED <<actionCh, cur, responseCh, toDevices, version, result, lastRead>>

\* The thermostat writes a table to us.
Push ==
  /\ "push" \in Unsolicited
  /\ Len(toDaemon) < MaxWire
  /\ toDaemon' = Append(toDaemon, [kind |-> "push", src |-> DevTSTAT, table |-> NoTable,
                                   ver |-> 0, own |-> FALSE])
  /\ UNCHANGED <<actionCh, cur, responseCh, toDevices, version, result, lastRead>>

Environment == \/ Serve
               \/ TakeAck
               \/ \E d \in Devices, t \in Tables : WallChange(d, t)
               \/ \E d \in Devices, t \in Tables : Chatter(d, t)
               \/ Push

-----------------------------------------------------------------------------
Next == \/ \E c \in Callers, r \in Requests : Call(c, r)
        \/ Broker
        \/ Reader
        \/ Environment

Spec == Init /\ [][Next]_vars

(***************************************************************************)
(* The broker and reader goroutines keep running, the poller calls every   *)
(* second for as long as the daemon is up, and Go's select, which picks at *)
(* random among ready cases, cannot prefer the ticker to a waiting         *)
(* response for ever.  Nothing is assumed of the devices.                  *)
(***************************************************************************)
Fairness ==
  /\ WF_vars(Broker)
  /\ SF_vars(Receive)
  /\ WF_vars(Reader)
  /\ WF_vars(\E r \in Requests : Call(Poller, r))

FairSpec == Spec /\ Fairness

-----------------------------------------------------------------------------
(* Properties.                                                             *)

(***************************************************************************)
(* A call that starts when no reply to an earlier request is still on its  *)
(* way is sound: if send returns true, the device handled this very        *)
(* request, and a read returned what the table held during the call.  The  *)
(* matching in performAction relies on exactly this absence of leftovers.  *)
(***************************************************************************)
CleanCallIsSound ==
  \A c \in Callers :
    result[c].status = "ok" /\ result[c].clean => result[c].answers /\ result[c].current

(***************************************************************************)
(* Reads never go back in time: even when performAction takes a leftover   *)
(* reply for the answer, what a read of a table returns is never older     *)
(* than what an earlier read of it returned, to any caller.                *)
(***************************************************************************)
MonotonicReads ==
  [][\A d \in Devices, t \in Tables : lastRead'[d][t] >= lastRead[d][t]]_vars

\* A write that returns true was answered by the device: its own "bare ACK06"
\* (PROTOCOL.md:99) and not the reply to an earlier request, a read's or another
\* write's, was taken for the acknowledgement.
OkIsAnswered ==
  \A c \in Callers : result[c].status = "ok" /\ result[c].op = "write" => result[c].answers

\* Every call is answered, whatever the devices do: the ticks run out.
EveryCallReturns == \A c \in Callers : Busy(c) ~> ~Busy(c)

\* The reader is never blocked on a full responseCh for good, so snooping and
\* write acknowledgements go on: the poller's next action drains the channel.
ReaderUnblocks == (Len(responseCh) = ResponseChCap) ~> (Len(responseCh) < ResponseChCap)

(***************************************************************************)
(* Why CleanCallIsSound holds.  While an action that started clean is      *)
(* performed, every request and every reply in flight is its own, and no   *)
(* reply is older than the action.                                         *)
(***************************************************************************)
OwnReply(f) == f.own /\ f.ver >= cur.start

OnlyOwnInFlight ==
  cur # NoAction /\ cur.clean =>
    /\ \A i \in DOMAIN responseCh : OwnReply(responseCh[i])
    /\ \A i \in DOMAIN toDaemon : toDaemon[i].kind = "reply" => OwnReply(toDaemon[i])
    /\ \A i \in DOMAIN toDevices :
          toDevices[i].req # NoRequest => toDevices[i].req = cur.req /\ toDevices[i].own

StartIsPast == cur # NoAction => cur.start <= version[cur.req.dst][cur.req.table]

(***************************************************************************)
(* Why MonotonicReads holds.  Replies reach the broker in the order in     *)
(* which they were sent, so that what a table held grows from the latest   *)
(* read, through responseCh and the wire, to the table.                    *)
(***************************************************************************)
NotNewer(f, g) == f.src = g.src /\ f.table = g.table /\ f.table \in Tables => f.ver <= g.ver

Between(f) == f.table \in Tables => /\ lastRead[f.src][f.table] <= f.ver
                                    /\ f.ver <= version[f.src][f.table]

VersionsInOrder ==
  /\ \A i, j \in DOMAIN responseCh : i <= j => NotNewer(responseCh[i], responseCh[j])
  /\ \A i \in DOMAIN responseCh, j \in DOMAIN toDaemon : NotNewer(responseCh[i], toDaemon[j])
  /\ \A i, j \in DOMAIN toDaemon : i <= j => NotNewer(toDaemon[i], toDaemon[j])
  /\ \A i \in DOMAIN responseCh : Between(responseCh[i])
  /\ \A i \in DOMAIN toDaemon : Between(toDaemon[i])
  /\ \A d \in Devices, t \in Tables : lastRead[d][t] <= version[d][t]

(***************************************************************************)
(* The goroutines' view: one call at a time, in order, each answered once. *)
(***************************************************************************)
Outstanding ==
  (IF cur = NoAction THEN <<>> ELSE <<cur.caller>>)
    \o [i \in DOMAIN actionCh |-> actionCh[i].caller]

Service == INSTANCE BusService
             WITH queue <- Outstanding,
                  status <- [c \in Callers |-> result[c].status]

ServesCallers == Service!Spec
=============================================================================
