---------------------------- MODULE SerialPort ----------------------------
(***************************************************************************)
(* The serial port of infinity/bus.go: the reader goroutine, which opens   *)
(* and closes b.port and cuts the bytes it reads into frames, and the      *)
(* senders, the broker and the reader itself, which share b.port with it   *)
(* and take no lock.                                                       *)
(*                                                                         *)
(* A byte is its position in the stream of all bytes that pass on the wire *)
(* from when the daemon starts.  What decode makes of the bytes at a       *)
(* position is part of the stream: how long a frame there claims to be     *)
(* (byte 4, and Overhead), whether its checksum holds, whether all its     *)
(* bytes are zero.  A checksum holds where a frame was sent and on zeros,  *)
(* never by chance.  msg holds the bytes dropped + 1 .. received.          *)
(*                                                                         *)
(* A call on b.port loads it, and runs on what it loaded.  Storing a       *)
(* handle in the interface stores its type first and its pointer second.   *)
(***************************************************************************)
EXTENDS Integers, Sequences

CONSTANTS
  Handles,        \* open serial ports
  NilInterface,   \* b.port is nil
  NilPointer,     \* b.port is not nil, and holds a nil *serial.Port
  Faults,         \* what may fail of itself: "open", "write"
  Overhead,       \* of a frame without data: 10 bytes
  MaxLength,      \* of a frame: 265 bytes
  Streams         \* the streams considered

Threads == {"reader", "broker"}

IsStream(s) ==
  /\ s.length \in Nat
  /\ s.claims \in [1 .. s.length -> Overhead .. MaxLength]
  /\ s.intact \subseteq 1 .. s.length
  /\ s.zeros \subseteq 1 .. s.length
  /\ s.pushes \subseteq s.intact \ s.zeros

\* Where the frames that were sent begin.
Frames(s) == s.intact \ s.zeros

\* Frames are sent one after the other, with noise between them.
Disjoint(s) == \A f, g \in Frames(s) : f < g => f + s.claims[f] <= g

ASSUME SerialAssumption ==
  /\ Overhead \in Nat \ {0}
  /\ MaxLength \in Nat
  /\ NilInterface \notin Handles \union {NilPointer} /\ NilPointer \notin Handles
  /\ Faults \subseteq {"open", "write"}
  /\ \A s \in Streams : IsStream(s) /\ Disjoint(s)

VARIABLES
  port,       \* b.port
  open,       \* handles that have not been closed
  using,      \* the handle each thread's call runs on
  pc,         \* where each thread is
  panicked,   \* the process is gone; finish stops the add-on
  stream,     \* what passes on the wire
  received,   \* how much of it has been read or has passed unread
  dropped,    \* how much of that is no longer in msg
  opened,     \* history: where in the stream this port's bytes begin
  handled     \* the frames given to handleFrame, oldest first

portVars == <<port, open, using, panicked>>
byteVars == <<received, dropped, opened, handled>>
vars == <<portVars, pc, stream, byteVars>>

ReaderPcs == {"top", "opening", "assign", "read", "reading", "failed", "close", "clear", "parse"}
SendPcs == {"check", "write", "writing", "shut", "unset"}

TypeOK ==
  /\ port \in Handles \union {NilInterface, NilPointer}
  /\ open \subseteq Handles
  /\ using \in [Threads -> Handles \union {NilInterface}]
  /\ pc \in [Threads -> ReaderPcs \union SendPcs \union {"idle"}]
  /\ pc["reader"] # "idle" /\ pc["broker"] \notin ReaderPcs
  /\ panicked \in BOOLEAN
  /\ stream \in Streams
  /\ received \in 0 .. stream.length
  /\ dropped \in 0 .. received
  /\ opened \in 0 .. received
  /\ handled \in Seq(1 .. stream.length)

\* NewBus has opened the port; if it cannot, main ends.
Init ==
  /\ port \in Handles
  /\ open = {port}
  /\ using = [t \in Threads |-> NilInterface]
  /\ pc = [t \in Threads |-> IF t = "reader" THEN "top" ELSE "idle"]
  /\ panicked = FALSE
  /\ stream \in Streams
  /\ received = 0 /\ dropped = 0 /\ opened = 0
  /\ handled = <<>>

Goto(t, from, to) == ~panicked /\ pc[t] = from /\ pc' = [pc EXCEPT ![t] = to]

-----------------------------------------------------------------------------
(* Calls on b.port.                                                        *)

\* On a nil interface, and, since serial.Port's methods use its file, on a nil
\* pointer: the goroutine panics, and with it the process.
NilCall(t) ==
  /\ ~panicked
  /\ pc[t] \in {"read", "write", "close", "shut"}
  /\ port \notin Handles
  /\ panicked' = TRUE
  /\ UNCHANGED <<port, open, using, pc, stream, byteVars>>

\* Read or Write: on a closed handle it fails at once.
StartCall(t, from, to, failed) ==
  /\ port \in Handles
  /\ Goto(t, from, IF port \in open THEN to ELSE failed)
  /\ using' = [using EXCEPT ![t] = IF port \in open THEN port ELSE NilInterface]
  /\ UNCHANGED <<port, open, panicked, stream, byteVars>>

\* b.port.Close()
Close(t, from, to) ==
  /\ port \in Handles
  /\ Goto(t, from, to)
  /\ open' = open \ {port}
  /\ UNCHANGED <<port, using, panicked, stream, byteVars>>

\* Mutant: b.port is left as it is.
LeaveClosed(t, from, to) ==
  /\ Goto(t, from, to)
  /\ UNCHANGED <<portVars, stream, byteVars>>

\* b.port = nil
Clear(t, from, to) ==
  /\ Goto(t, from, to)
  /\ port' = NilInterface
  /\ UNCHANGED <<open, using, panicked, stream, byteVars>>

-----------------------------------------------------------------------------
(* The reader: the port.                                                   *)

\* What passed while the port was closed is not read, and msg is emptied.
Miss(n) == received' = n /\ dropped' = n /\ opened' = n

\* The top of the loop: with a nil port msg is emptied.
Top ==
  /\ Goto("reader", "top", IF port = NilInterface THEN "opening" ELSE "read")
  /\ IF port = NilInterface THEN Miss(received) ELSE UNCHANGED <<received, dropped, opened>>
  /\ UNCHANGED <<portVars, stream, handled>>

\* openSerial, whose port is nil here, fails; the reader does not see it.
OpenFails ==
  /\ "open" \in Faults
  /\ Goto("reader", "opening", "read")
  /\ port' = NilPointer
  /\ UNCHANGED <<open, using, panicked, stream, byteVars>>

\* It succeeds, on a handle no call runs on.
Open(h, n) ==
  /\ Goto("reader", "opening", "assign")
  /\ \A t \in Threads : using[t] # h
  /\ open' = open \union {h}
  /\ using' = [using EXCEPT !["reader"] = h]
  /\ port' = NilPointer
  /\ Miss(n)
  /\ UNCHANGED <<panicked, stream, handled>>

\* The pointer is stored; the type may have been cleared in between.
Assign ==
  /\ Goto("reader", "assign", "read")
  /\ port' = IF port = NilPointer THEN using["reader"] ELSE port
  /\ using' = [using EXCEPT !["reader"] = NilInterface]
  /\ UNCHANGED <<open, panicked, stream, byteVars>>

\* Bytes up to n.
ReadBytes(n) ==
  /\ Goto("reader", "reading", "parse")
  /\ received' = n
  /\ using' = [using EXCEPT !["reader"] = NilInterface]
  /\ UNCHANGED <<port, open, panicked, stream, dropped, opened, handled>>

\* An error, or nothing for five seconds.
ReadFails ==
  /\ Goto("reader", "reading", "failed")
  /\ using' = [using EXCEPT !["reader"] = NilInterface]
  /\ UNCHANGED <<port, open, panicked, stream, byteVars>>

\* if b.port != nil
Failed ==
  /\ Goto("reader", "failed", IF port = NilInterface THEN "clear" ELSE "close")
  /\ UNCHANGED <<portVars, stream, byteVars>>

-----------------------------------------------------------------------------
(* The reader: the bytes.                                                  *)

First == dropped + 1

\* Mutant: the length in the header is not waited for.
HeaderIsThere == received - dropped >= Overhead

\* The loop goes on: the claimed length is there.
Complete == /\ received - dropped >= Overhead
            /\ received - dropped >= stream.claims[First]

\* Mutant: zeros are a frame.
ChecksumHolds(p) == p \in stream.intact

\* frame.decode: the checksum, and not all bytes zero.
Decodes(p) == p \in stream.intact /\ p \notin stream.zeros

\* handleFrame, and the frame leaves msg; a thermostat's write is acknowledged.
HandleFrame ==
  /\ Complete /\ Decodes(First)
  /\ Goto("reader", "parse", IF First \in stream.pushes THEN "check" ELSE "parse")
  /\ handled' = Append(handled, First)
  /\ dropped' = dropped + stream.claims[First]
  /\ UNCHANGED <<portVars, stream, received, opened>>

\* Mutant: as many bytes are skipped as the corrupt frame claims.
SkipFrame ==
  /\ Complete /\ ~Decodes(First)
  /\ Goto("reader", "parse", "parse")
  /\ dropped' = dropped + stream.claims[First]
  /\ UNCHANGED <<portVars, stream, received, opened, handled>>

\* Corrupt: one byte further.
SkipByte ==
  /\ Complete /\ ~Decodes(First)
  /\ Goto("reader", "parse", "parse")
  /\ dropped' = dropped + 1
  /\ UNCHANGED <<portVars, stream, received, opened, handled>>

AwaitMore ==
  /\ ~Complete
  /\ Goto("reader", "parse", "top")
  /\ UNCHANGED <<portVars, stream, byteVars>>

-----------------------------------------------------------------------------
(* sendFrame, in either thread.                                            *)

\* Where sendFrame returns to; performAction and the reader ignore its result.
Return(t) == IF t = "broker" THEN "idle" ELSE "parse"

\* performAction's transmissions and retransmissions.
StartSend ==
  /\ Goto("broker", "idle", "check")
  /\ UNCHANGED <<portVars, stream, byteVars>>

\* if b.port == nil
Check(t) ==
  /\ Goto(t, "check", IF port = NilInterface THEN Return(t) ELSE "write")
  /\ UNCHANGED <<portVars, stream, byteVars>>

\* The call of Write returns: with an error if the handle was closed meanwhile.
Written(t, failed) ==
  /\ failed => "write" \in Faults \/ using[t] \notin open
  /\ Goto(t, "writing", IF failed THEN "shut" ELSE Return(t))
  /\ using' = [using EXCEPT ![t] = NilInterface]
  /\ UNCHANGED <<port, open, panicked, stream, byteVars>>

Sending(t) ==
  \/ Check(t)
  \/ StartCall(t, "write", "writing", "shut")
  \/ \E failed \in BOOLEAN : Written(t, failed)
  \/ Close(t, "shut", "unset")
  \/ Clear(t, "unset", Return(t))

-----------------------------------------------------------------------------
Reading ==
  \/ Top
  \/ OpenFails
  \/ \E h \in Handles, n \in received .. stream.length : Open(h, n)
  \/ Assign
  \/ StartCall("reader", "read", "reading", "failed")
  \/ \E n \in received + 1 .. stream.length : ReadBytes(n)
  \/ ReadFails
  \/ Failed
  \/ Close("reader", "close", "clear")
  \/ Clear("reader", "clear", "top")
  \/ HandleFrame
  \/ SkipByte
  \/ AwaitMore

Reader == Reading \/ Sending("reader") \/ NilCall("reader")

Broker == Sending("broker") \/ NilCall("broker")

Next == Reader \/ StartSend \/ Broker

Spec == Init /\ [][Next]_vars

\* Goroutines run, and a call of Read or Write returns: Read after five seconds.
FairSpec == Spec /\ WF_vars(Reader) /\ WF_vars(Broker)

-----------------------------------------------------------------------------
(* Properties.                                                             *)

(***************************************************************************)
(* Whatever noise, chunks and reopenings do to the stream, what            *)
(* handleFrame is given are frames that were sent, each once, in order:    *)
(* no remainder of one is glued to another, and zeros are no frame.        *)
(***************************************************************************)
HandledInOrder ==
  /\ \A i \in DOMAIN handled : handled[i] \in Frames(stream)
  /\ \A i, j \in DOMAIN handled :
        i < j => handled[i] + stream.claims[handled[i]] <= handled[j]

(***************************************************************************)
(* Resynchronising loses nothing and waits for no more than one frame:     *)
(* whenever the reader waits for bytes, every frame that began after the   *)
(* port was opened and no later than MaxLength bytes ago has been handled, *)
(* however long the garbage before it claimed to be.                       *)
(***************************************************************************)
NothingHeldBack ==
  pc["reader"] = "reading" =>
    \A f \in Frames(stream) :
      opened < f /\ f + MaxLength <= received + 1 => \E i \in DOMAIN handled : handled[i] = f

Wire == INSTANCE FrameService WITH sent <- Frames(stream), delivered <- handled

(***************************************************************************)
(* While the port stays open no frame is passed over, whatever noise,      *)
(* false headers and partial reads come before it: the reader implements   *)
(* the frame service that the bus takes for granted.                       *)
(***************************************************************************)
DeliversFrames == Wire!Spec

(***************************************************************************)
(* Why they hold.  What is no longer in msg and came through this port has *)
(* been handled if it was a frame, what was handled is no longer in msg,   *)
(* and msg begins with an incomplete frame unless it is being parsed.      *)
(***************************************************************************)
HandledIsDropped ==
  \A i \in DOMAIN handled : handled[i] + stream.claims[handled[i]] <= dropped + 1

DroppedIsHandled ==
  /\ opened <= dropped
  /\ \A f \in Frames(stream) :
       opened < f /\ f <= dropped => \E i \in DOMAIN handled : handled[i] = f

ParsedWhenWaiting == pc["reader"] \in {"parse"} \union SendPcs \/ ~Complete

\* After a timeout or an error the reader waits for bytes again, on a new
\* handle, unless the process has panicked.
ReaderRecovers == pc["reader"] = "failed" ~> pc["reader"] = "reading" \/ panicked

\* "exiting InfinityProtocol reader, this should never happen" (bus.go:112),
\* nor the broker (bus.go:172).
NeverPanics == ~panicked
=============================================================================
