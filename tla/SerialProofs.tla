--------------------------- MODULE SerialProofs ---------------------------
(***************************************************************************)
(* Proofs about SerialPort, for any streams, handles and lengths: its      *)
(* types, what the reader makes of the bytes, that it implements           *)
(* FrameService, and that the goroutines panic for two reasons only.       *)
(***************************************************************************)
EXTENDS SerialPort, TLAPS

\* The steps that leave the bytes alone.
LeavesBytes ==
  \/ \E t \in Threads : NilCall(t)
  \/ StartSend
  \/ \E t \in Threads : Sending(t)
  \/ OpenFails
  \/ Assign
  \/ StartCall("reader", "read", "reading", "failed")
  \/ ReadFails
  \/ Failed
  \/ Close("reader", "close", "clear")
  \/ Clear("reader", "clear", "top")
  \/ AwaitMore

\* Every step is one of them, or one of the five that do not.
LEMMA StepKinds ==
  ASSUME Next
  PROVE  \/ LeavesBytes
         \/ Top
         \/ \E h \in Handles, n \in received .. stream.length : Open(h, n)
         \/ \E n \in received + 1 .. stream.length : ReadBytes(n)
         \/ HandleFrame
         \/ SkipByte
  BY DEF Next, Reader, Reading, Broker, LeavesBytes, Threads

\* What the assumption on streams gives for the one that passes.
LEMMA TheStream ==
  ASSUME stream \in Streams
  PROVE  /\ stream.length \in Nat
         /\ stream.claims \in [1 .. stream.length -> Overhead .. MaxLength]
         /\ Frames(stream) \subseteq 1 .. stream.length
         /\ \A f, g \in Frames(stream) : f < g => f + stream.claims[f] <= g
  BY SerialAssumption DEF IsStream, Disjoint, Frames

LEMMA Through ==
  ASSUME NEW a \in Nat, NEW c \in Nat, NEW f \in Nat, NEW d \in Nat, a + c <= f, f <= d + 1
  PROVE  a + c <= d + 1
  OBVIOUS

LEMMA Elements ==
  ASSUME NEW S, NEW s \in Seq(S)
  PROVE  DOMAIN s = 1 .. Len(s) /\ Len(s) \in Nat /\ \A i \in DOMAIN s : s[i] \in S
  OBVIOUS

-----------------------------------------------------------------------------
(* Types.                                                                  *)

LEMMA InitTypes == Init => TypeOK
  <1> SUFFICES ASSUME Init PROVE TypeOK
    OBVIOUS
  <1>1. stream.length \in Nat
    BY TheStream DEF Init
  <1>2. handled \in Seq(1 .. stream.length)
    BY DEF Init
  <1>3. /\ pc \in [Threads -> ReaderPcs \union SendPcs \union {"idle"}]
        /\ pc["reader"] # "idle" /\ pc["broker"] \notin ReaderPcs
    BY DEF Init, Threads, ReaderPcs, SendPcs
  <1>4. /\ received \in 0 .. stream.length
        /\ dropped \in 0 .. received /\ opened \in 0 .. received
    BY <1>1 DEF Init
  <1> QED
    BY <1>2, <1>3, <1>4 DEF Init, TypeOK

\* The bytes keep their types while others steps are taken; so does the rest.
LEMMA LeavesBytesTypes ==
  ASSUME TypeOK, LeavesBytes
  PROVE TypeOK'
  <1>0. UNCHANGED <<stream, byteVars>>
    BY DEF LeavesBytes, NilCall, StartSend, Sending, Check, StartCall, Written, Close, Clear,
           OpenFails, Assign, ReadFails, Failed, AwaitMore, portVars, byteVars, Goto
  <1>1. /\ port' \in Handles \union {NilInterface, NilPointer}
        /\ open' \subseteq Handles
        /\ using' \in [Threads -> Handles \union {NilInterface}]
        /\ panicked' \in BOOLEAN
        /\ pc' \in [Threads -> ReaderPcs \union SendPcs \union {"idle"}]
        /\ pc'["reader"] # "idle" /\ pc'["broker"] \notin ReaderPcs
    <2> USE DEF TypeOK, portVars, Goto, Threads, ReaderPcs, SendPcs
    <2>1. CASE \E t \in Threads : NilCall(t)
      BY <2>1 DEF NilCall
    <2>2. CASE StartSend
      BY <2>2 DEF StartSend
    <2>3. CASE \E t \in Threads : Sending(t)
      <3> PICK t \in Threads : Sending(t)
        BY <2>3
      <3>1. CASE Check(t)
        BY <3>1 DEF Check, Return
      <3>2. CASE StartCall(t, "write", "writing", "shut")
        BY <3>2 DEF StartCall
      <3>3. CASE \E failed \in BOOLEAN : Written(t, failed)
        BY <3>3 DEF Written, Return
      <3>4. CASE Close(t, "shut", "unset")
        BY <3>4 DEF Close
      <3>5. CASE Clear(t, "unset", Return(t))
        BY <3>5 DEF Clear, Return
      <3> QED
        BY <3>1, <3>2, <3>3, <3>4, <3>5 DEF Sending
    <2>4. CASE OpenFails \/ Assign \/ ReadFails
      BY <2>4 DEF OpenFails, Assign, ReadFails
    <2>5. CASE Failed \/ AwaitMore
      BY <2>5 DEF Failed, AwaitMore
    <2>6. CASE StartCall("reader", "read", "reading", "failed")
      BY <2>6 DEF StartCall
    <2>7. CASE Close("reader", "close", "clear") \/ Clear("reader", "clear", "top")
      BY <2>7 DEF Close, Clear
    <2> QED
      BY <2>1, <2>2, <2>3, <2>4, <2>5, <2>6, <2>7 DEF LeavesBytes
  <1> QED
    BY <1>0, <1>1 DEF TypeOK, byteVars

LEMMA StepTypes == TypeOK /\ [Next]_vars => TypeOK'
  <1> SUFFICES ASSUME TypeOK, [Next]_vars PROVE TypeOK'
    OBVIOUS
  <1>0. /\ stream.length \in Nat
        /\ stream.claims \in [1 .. stream.length -> Overhead .. MaxLength]
    BY TheStream DEF TypeOK
  <1>1. CASE LeavesBytes
    BY <1>1, LeavesBytesTypes
  <1>2. CASE Top
    BY <1>0, <1>2 DEF Top, Miss, Goto, TypeOK, portVars, Threads, ReaderPcs, SendPcs
  <1>3. CASE \E h \in Handles, n \in received .. stream.length : Open(h, n)
    BY <1>0, <1>3 DEF Open, Miss, Goto, TypeOK, Threads, ReaderPcs, SendPcs
  <1>4. CASE \E n \in received + 1 .. stream.length : ReadBytes(n)
    BY <1>0, <1>4 DEF ReadBytes, Goto, TypeOK, Threads, ReaderPcs, SendPcs
  <1>5. CASE HandleFrame
    <2>1. /\ First \in 1 .. stream.length
          /\ dropped' \in 0 .. received
      <3> DEFINE claimed == stream.claims[First]
      <3>1. /\ received \in 0 .. stream.length /\ dropped \in 0 .. received
            /\ received - dropped >= Overhead /\ received - dropped >= claimed
            /\ dropped' = dropped + claimed
        BY <1>5 DEF HandleFrame, Complete, TypeOK
      <3>2. First \in 1 .. stream.length
        BY <1>0, <3>1, SerialAssumption DEF First
      <3>3. claimed \in Nat
        BY <1>0, <3>2, SerialAssumption
      <3> HIDE DEF claimed
      <3> QED
        BY <1>0, <3>1, <3>2, <3>3
    <2>2. handled' \in Seq(1 .. stream.length)
      BY <1>5, <2>1 DEF HandleFrame, TypeOK
    <2>3. /\ pc' \in [Threads -> ReaderPcs \union SendPcs \union {"idle"}]
          /\ pc'["reader"] # "idle" /\ pc'["broker"] \notin ReaderPcs
      BY <1>5 DEF HandleFrame, Goto, TypeOK, Threads, ReaderPcs, SendPcs
    <2>4. UNCHANGED <<portVars, stream, received, opened>>
      BY <1>5 DEF HandleFrame
    <2> QED
      BY <2>1, <2>2, <2>3, <2>4 DEF TypeOK, portVars
  <1>6. CASE SkipByte
    <2>1. dropped' \in 0 .. received
      BY <1>0, <1>6, SerialAssumption DEF SkipByte, Complete, TypeOK
    <2>2. /\ pc' \in [Threads -> ReaderPcs \union SendPcs \union {"idle"}]
          /\ pc'["reader"] # "idle" /\ pc'["broker"] \notin ReaderPcs
      BY <1>6 DEF SkipByte, Goto, TypeOK, Threads, ReaderPcs, SendPcs
    <2>3. UNCHANGED <<portVars, stream, received, opened, handled>>
      BY <1>6 DEF SkipByte
    <2> QED
      BY <2>1, <2>2, <2>3 DEF TypeOK, portVars
  <1>7. CASE UNCHANGED vars
    BY <1>7 DEF TypeOK, vars, portVars, byteVars
  <1> QED
    BY <1>1, <1>2, <1>3, <1>4, <1>5, <1>6, <1>7, StepKinds

\* Reader, broker, port and bytes keep their types; in particular the parse
\* loop of reader never takes more bytes out of msg than there are.
THEOREM SerialTypes == Spec => []TypeOK
  BY InitTypes, StepTypes, PTL DEF Spec

-----------------------------------------------------------------------------
(* What is handled.                                                        *)

BytesInv == TypeOK /\ HandledInOrder /\ HandledIsDropped /\ DroppedIsHandled

LEMMA InitBytes == Init => BytesInv /\ ParsedWhenWaiting
  <1> SUFFICES ASSUME Init PROVE BytesInv /\ ParsedWhenWaiting
    OBVIOUS
  <1>1. DOMAIN handled = {}
    BY DEF Init
  <1>2. ParsedWhenWaiting
    BY SerialAssumption DEF Init, ParsedWhenWaiting, Complete
  <1>3. DroppedIsHandled
    BY TheStream DEF Init, DroppedIsHandled
  <1> QED
    BY <1>1, <1>2, <1>3, InitTypes DEF BytesInv, HandledInOrder, HandledIsDropped

\* As long as nothing is handled, dropping bytes is harmless when none of them
\* begins a frame, or when the port they came through is gone.
LEMMA DropBytes ==
  ASSUME BytesInv, TypeOK',
         stream' = stream, handled' = handled,
         dropped' >= dropped,
         \/ opened' = opened /\ \A f \in Frames(stream) : dropped < f => dropped' < f
         \/ opened' = dropped'
  PROVE  HandledInOrder' /\ HandledIsDropped' /\ DroppedIsHandled'
  <1>0. /\ stream.length \in Nat
        /\ stream.claims \in [1 .. stream.length -> Overhead .. MaxLength]
        /\ Frames(stream) \subseteq 1 .. stream.length
        /\ received \in Nat /\ dropped \in Nat /\ opened \in Nat
        /\ received' \in Nat /\ dropped' \in Nat /\ opened' \in Nat
        /\ Frames(stream') = Frames(stream)
    BY TheStream DEF BytesInv, TypeOK
  <1>1. HandledInOrder'
    BY DEF BytesInv, HandledInOrder
  <1>2. HandledIsDropped'
    <2> SUFFICES ASSUME NEW i \in DOMAIN handled
                 PROVE  handled[i] + stream.claims[handled[i]] <= dropped' + 1
      BY DEF HandledIsDropped
    <2>1. handled[i] \in 1 .. stream.length
      BY Elements DEF BytesInv, TypeOK
    <2>2. stream.claims[handled[i]] \in Nat
      BY <1>0, <2>1, SerialAssumption
    <2> QED
      BY <1>0, <2>1, <2>2 DEF BytesInv, HandledIsDropped
  <1>3. DroppedIsHandled'
    BY <1>0 DEF BytesInv, DroppedIsHandled
  <1> QED
    BY <1>1, <1>2, <1>3

\* Handling the frame msg begins with.
LEMMA HandleFirst ==
  ASSUME BytesInv, TypeOK', HandleFrame
  PROVE  HandledInOrder' /\ HandledIsDropped' /\ DroppedIsHandled'
  <1> DEFINE l == stream.claims[First]
             n == Len(handled)
  <1>1. /\ stream.length \in Nat
        /\ stream.claims \in [1 .. stream.length -> Overhead .. MaxLength]
        /\ Frames(stream) \subseteq 1 .. stream.length
        /\ \A f, g \in Frames(stream) : f < g => f + stream.claims[f] <= g
        /\ received \in Nat /\ dropped \in Nat /\ opened \in Nat
    BY TheStream DEF BytesInv, TypeOK
  <1>2. /\ First \in Frames(stream)
        /\ First \in 1 .. stream.length
        /\ First = dropped + 1
        /\ l \in Nat /\ l > 0
    BY <1>1, SerialAssumption DEF HandleFrame, Decodes, Frames, First
  <1>3. /\ handled \in Seq(1 .. stream.length)
        /\ handled' = Append(handled, First)
        /\ dropped' = dropped + l
        /\ opened' = opened /\ stream' = stream
    BY DEF HandleFrame, portVars, BytesInv, TypeOK
  <1>4. /\ n \in Nat
        /\ DOMAIN handled = 1 .. n /\ DOMAIN handled' = 1 .. n + 1
        /\ \A i \in 1 .. n : handled'[i] = handled[i] /\ handled[i] \in 1 .. stream.length
        /\ handled'[n + 1] = First
    <2>1. n \in Nat /\ DOMAIN handled = 1 .. n
      BY <1>3, Elements
    <2>2. \A i \in 1 .. n : handled[i] \in 1 .. stream.length
      BY <1>3, <2>1, Elements
    <2>3. DOMAIN handled' = 1 .. n + 1 /\ handled'[n + 1] = First
      BY <1>3, <2>1
    <2>4. \A i \in 1 .. n : handled'[i] = handled[i]
      BY <1>3, <2>1
    <2> QED
      BY <2>1, <2>2, <2>3, <2>4
  <1>5. \A i \in 1 .. n : handled[i] + stream.claims[handled[i]] <= First
    BY <1>2, <1>4 DEF BytesInv, HandledIsDropped
  <1>6. \A i \in 1 .. n : stream.claims[handled[i]] \in Nat
    BY <1>1, <1>4, SerialAssumption
  <1>7. HandledInOrder'
    <2>1. \A i \in 1 .. n + 1 : handled'[i] \in Frames(stream)
      BY <1>2, <1>4 DEF BytesInv, HandledInOrder
    <2>2. ASSUME NEW i \in 1 .. n + 1, NEW j \in 1 .. n + 1, i < j
          PROVE  handled'[i] + stream.claims[handled'[i]] <= handled'[j]
      <3>1. i \in 1 .. n /\ handled'[i] = handled[i]
        BY <1>4, <2>2
      <3>2. CASE j = n + 1
        BY <1>4, <1>5, <3>1, <3>2
      <3>3. CASE j \in 1 .. n
        BY <1>4, <2>2, <3>1, <3>3 DEF BytesInv, HandledInOrder
      <3> QED
        BY <1>4, <3>2, <3>3
    <2> QED
      BY <1>3, <1>4, <2>1, <2>2 DEF HandledInOrder, Frames
  <1>8. HandledIsDropped'
    <2> SUFFICES ASSUME NEW i \in 1 .. n + 1
                 PROVE  handled'[i] + stream.claims[handled'[i]] <= dropped' + 1
      BY <1>3, <1>4 DEF HandledIsDropped
    <2>1. CASE i = n + 1
      BY <1>1, <1>2, <1>3, <1>4, <2>1
    <2>2. CASE i \in 1 .. n
      <3> DEFINE a == handled[i]
                 c == stream.claims[a]
      <3>1. a \in Nat /\ c \in Nat /\ a + c <= First
        BY <1>1, <1>4, <1>5, <1>6, <2>2
      <3>2. First <= dropped' + 1 /\ First \in Nat /\ dropped' \in Nat
        BY <1>1, <1>2, <1>3
      <3>3. handled'[i] = a
        BY <1>4, <2>2
      <3>4. a + c <= dropped' + 1
        BY <3>1, <3>2, Through
      <3> QED
        BY <3>3, <3>4
    <2> QED
      BY <1>4, <2>1, <2>2
  <1>9. DroppedIsHandled'
    <2>1. ASSUME NEW f \in Frames(stream), opened < f, f <= dropped'
          PROVE  \E i \in 1 .. n + 1 : handled'[i] = f
      <3>1. CASE f <= dropped
        <4>1. PICK i \in DOMAIN handled : handled[i] = f
          BY <2>1, <3>1 DEF BytesInv, DroppedIsHandled
        <4> QED
          BY <1>4, <4>1
      <3>2. CASE f = First
        BY <1>4, <3>2
      <3>3. CASE f > First
        <4>1. First + l <= f
          BY <1>1, <1>2, <3>3
        <4> QED
          BY <1>1, <1>2, <1>3, <2>1, <4>1
      <3> QED
        BY <1>1, <1>2, <3>1, <3>2, <3>3
    <2>2. opened' <= dropped'
      BY <1>1, <1>2, <1>3 DEF DroppedIsHandled, BytesInv
    <2>3. Frames(stream') = Frames(stream) /\ DOMAIN handled' = 1 .. n + 1
      BY <1>3, <1>4
    <2> HIDE DEF n, l
    <2> QED
      BY <1>3, <2>1, <2>2, <2>3 DEF DroppedIsHandled
  <1> QED
    BY <1>7, <1>8, <1>9

LEMMA StepBytes == BytesInv /\ [Next]_vars => BytesInv'
  <1> SUFFICES ASSUME BytesInv, [Next]_vars PROVE BytesInv'
    OBVIOUS
  <1>0. TypeOK'
    BY StepTypes DEF BytesInv
  <1>1. /\ received \in Nat /\ dropped \in Nat /\ opened \in Nat
        /\ dropped <= received
        /\ stream.length \in Nat /\ Frames(stream) \subseteq 1 .. stream.length
    BY TheStream DEF BytesInv, TypeOK
  <1>2. CASE UNCHANGED <<stream, byteVars>>
    BY <1>0, <1>1, <1>2, DropBytes DEF BytesInv, byteVars
  <1>3. CASE Top
    BY <1>0, <1>1, <1>3, DropBytes DEF Top, Miss, BytesInv
  <1>4. CASE \E h \in Handles, n \in received .. stream.length : Open(h, n)
    BY <1>0, <1>1, <1>4, DropBytes DEF Open, Miss, BytesInv
  <1>5. CASE \E n \in received + 1 .. stream.length : ReadBytes(n)
    BY <1>0, <1>1, <1>5, DropBytes DEF ReadBytes, BytesInv
  <1>6. CASE HandleFrame
    BY <1>0, <1>6, HandleFirst DEF BytesInv
  <1>7. CASE SkipByte
    <2>1. First \notin Frames(stream)
      BY <1>7 DEF SkipByte, Decodes, Frames
    <2>2. \A f \in Frames(stream) : dropped < f => dropped + 1 < f
      BY <1>1, <2>1 DEF First
    <2> QED
      BY <1>0, <1>1, <1>7, <2>2, DropBytes DEF SkipByte, BytesInv
  <1>8. CASE LeavesBytes
    BY <1>2, <1>8 DEF LeavesBytes, NilCall, StartSend, Sending, Check, StartCall, Written, Close,
           Clear, OpenFails, Assign, ReadFails, Failed, AwaitMore, byteVars
  <1>9. CASE UNCHANGED vars
    BY <1>2, <1>9 DEF vars
  <1> QED
    BY <1>3, <1>4, <1>5, <1>6, <1>7, <1>8, <1>9, StepKinds

\* reader never hands a frame to handleFrame twice, out of order, or put
\* together from what was never sent as one.
THEOREM FramesInOrder == Spec => []HandledInOrder
  <1>1. BytesInv => HandledInOrder
    BY DEF BytesInv
  <1> QED
    BY <1>1, InitBytes, StepBytes, PTL DEF Spec

-----------------------------------------------------------------------------
(* What is waited for.                                                     *)

LEMMA StepWaiting == BytesInv /\ ParsedWhenWaiting /\ [Next]_vars => ParsedWhenWaiting'
  <1> SUFFICES ASSUME BytesInv, ParsedWhenWaiting, [Next]_vars,
                      pc'["reader"] \notin {"parse"} \union SendPcs
               PROVE  ~Complete'
    BY DEF ParsedWhenWaiting
  <1> USE DEF ParsedWhenWaiting
  <1>0. /\ pc \in [Threads -> ReaderPcs \union SendPcs \union {"idle"}]
        /\ received \in Nat /\ dropped \in Nat /\ stream.length \in Nat
    BY TheStream DEF BytesInv, TypeOK
  <1>1. ASSUME UNCHANGED <<stream, received, dropped>>, ~Complete
        PROVE  ~Complete'
    BY <1>1 DEF Complete, First
  <1>2. ASSUME received' = dropped', received' \in Nat
        PROVE  ~Complete'
    BY <1>2, SerialAssumption DEF Complete
  <1>3. CASE Top
    <2>1. ~Complete
      BY <1>3 DEF Top, Goto, SendPcs
    <2> QED
      BY <1>0, <1>1, <1>2, <1>3, <2>1 DEF Top, Miss
  <1>4. CASE \E h \in Handles, n \in received .. stream.length : Open(h, n)
    BY <1>0, <1>2, <1>4 DEF Open, Miss
  <1>5. CASE (\E n \in received + 1 .. stream.length : ReadBytes(n)) \/ SkipByte \/ HandleFrame
    BY <1>0, <1>5 DEF ReadBytes, SkipByte, HandleFrame, Goto, Threads, SendPcs
  <1>6. CASE LeavesBytes
    <2>1. UNCHANGED <<stream, received, dropped>>
      BY <1>6 DEF LeavesBytes, NilCall, StartSend, Sending, Check, StartCall, Written, Close,
             Clear, OpenFails, Assign, ReadFails, Failed, AwaitMore, byteVars
    <2>2. CASE AwaitMore
      BY <1>1, <2>1, <2>2 DEF AwaitMore
    <2>3. CASE ~AwaitMore
      <3>1. pc["reader"] \notin {"parse"} \union SendPcs
        BY <1>0, <1>6, <2>3 DEF LeavesBytes, NilCall, StartSend, Sending, Check, StartCall, Written,
             Close, Clear, OpenFails, Assign, ReadFails, Failed, Goto, Return, Threads, SendPcs
      <3> QED
        BY <1>1, <2>1, <3>1
    <2> QED
      BY <2>2, <2>3
  <1>7. CASE UNCHANGED vars
    BY <1>1, <1>7 DEF vars, byteVars
  <1> QED
    BY <1>3, <1>4, <1>5, <1>6, <1>7, StepKinds

LEMMA WaitingHoldsNothingBack == BytesInv /\ ParsedWhenWaiting => NothingHeldBack
  <1> SUFFICES ASSUME BytesInv, ParsedWhenWaiting, pc["reader"] = "reading",
                      NEW f \in Frames(stream), opened < f, f + MaxLength <= received + 1
               PROVE  \E i \in DOMAIN handled : handled[i] = f
    BY DEF NothingHeldBack
  <1>1. /\ stream.length \in Nat /\ f \in 1 .. stream.length
        /\ stream.claims \in [1 .. stream.length -> Overhead .. MaxLength]
        /\ received \in Nat /\ dropped \in Nat /\ received <= stream.length
    BY TheStream DEF BytesInv, TypeOK
  <1>2. ~Complete
    BY DEF ParsedWhenWaiting, SendPcs
  <1>3. received - dropped < MaxLength
    <2>1. Overhead <= MaxLength
      BY <1>1, SerialAssumption
    <2>2. CASE received - dropped < Overhead
      BY <1>1, <2>1, <2>2, SerialAssumption
    <2>3. CASE received - dropped >= Overhead
      <3>1. First \in 1 .. stream.length
        BY <1>1, <2>3, SerialAssumption DEF First
      <3> QED
        BY <1>1, <1>2, <2>3, <3>1, SerialAssumption DEF Complete
    <2> QED
      BY <1>1, <2>2, <2>3, SerialAssumption
  <1>4. f <= dropped
    BY <1>1, <1>3, SerialAssumption
  <1> QED
    BY <1>4 DEF BytesInv, DroppedIsHandled

\* However the stream is cut into chunks and whatever garbage claims, reader
\* never waits while a frame that began MaxLength bytes ago is unhandled.
THEOREM FramesAreFound == Spec => []NothingHeldBack
  BY InitBytes, StepBytes, StepWaiting, WaitingHoldsNothingBack, PTL DEF Spec

-----------------------------------------------------------------------------
(* The reader implements FrameService.                                     *)

\* handleFrame is given the first frame of this port it was not given before.
LEMMA HandleIsDeliver ==
  ASSUME BytesInv, HandleFrame
  PROVE  Wire!Deliver(First)
  <1>1. /\ stream.length \in Nat
        /\ stream.claims \in [1 .. stream.length -> Overhead .. MaxLength]
        /\ Frames(stream) \subseteq 1 .. stream.length
        /\ received \in Nat /\ dropped \in Nat /\ opened \in Nat
    BY TheStream DEF BytesInv, TypeOK
  <1>2. First = dropped + 1 /\ First \in Frames(stream) /\ opened < First
    BY <1>1 DEF HandleFrame, Decodes, Frames, First, BytesInv, DroppedIsHandled
  <1>3. ASSUME NEW i \in DOMAIN handled PROVE handled[i] < First
    <2>1. handled[i] \in 1 .. stream.length
      BY Elements DEF BytesInv, TypeOK
    <2>2. stream.claims[handled[i]] \in Nat \ {0}
      BY <1>1, <2>1, SerialAssumption
    <2> QED
      BY <1>1, <1>2, <2>1, <2>2 DEF BytesInv, HandledIsDropped
  <1>4. ASSUME NEW g \in Frames(stream), opened < g, g < First
        PROVE  \E i \in DOMAIN handled : handled[i] = g
    BY <1>1, <1>2, <1>4 DEF BytesInv, DroppedIsHandled
  <1>5. handled' = Append(handled, First) /\ opened' = opened /\ Frames(stream') = Frames(stream)
    BY DEF HandleFrame
  <1> QED
    BY <1>2, <1>3, <1>4, <1>5 DEF Wire!Deliver, Wire!Delivered

LEMMA StepDelivers == BytesInv /\ [Next]_vars => [Wire!Next]_(Wire!vars)
  <1> SUFFICES ASSUME BytesInv, [Next]_vars PROVE [Wire!Next]_(Wire!vars)
    OBVIOUS
  <1>1. opened \in Nat /\ received \in Nat /\ opened <= received /\ stream.length \in Nat
    BY TheStream DEF BytesInv, TypeOK
  <1>2. ASSUME UNCHANGED <<stream, handled>>, opened' \in Nat, opened' >= opened
        PROVE  [Wire!Next]_(Wire!vars)
    BY <1>1, <1>2 DEF Wire!Next, Wire!Reopen, Wire!vars, Frames
  <1>3. CASE Top
    BY <1>1, <1>2, <1>3 DEF Top, Miss
  <1>4. CASE \E h \in Handles, n \in received .. stream.length : Open(h, n)
    BY <1>1, <1>2, <1>4 DEF Open, Miss
  <1>5. CASE (\E n \in received + 1 .. stream.length : ReadBytes(n)) \/ SkipByte
    BY <1>1, <1>2, <1>5 DEF ReadBytes, SkipByte
  <1>6. CASE HandleFrame
    <2>1. Wire!Deliver(First) /\ First \in Frames(stream)
      BY <1>6, HandleIsDeliver DEF Wire!Deliver
    <2> QED
      BY <2>1 DEF Wire!Next
  <1>7. CASE LeavesBytes
    <2>1. UNCHANGED <<stream, opened, handled>>
      BY <1>7 DEF LeavesBytes, NilCall, StartSend, Sending, Check, StartCall, Written, Close,
             Clear, OpenFails, Assign, ReadFails, Failed, AwaitMore, byteVars
    <2> QED
      BY <1>1, <1>2, <2>1
  <1>8. CASE UNCHANGED vars
    BY <1>1, <1>2, <1>8 DEF vars, byteVars
  <1> QED
    BY <1>3, <1>4, <1>5, <1>6, <1>7, <1>8, StepKinds

\* While the port stays open reader passes no frame over, whatever noise and
\* false headers lie between frames and however the bytes come in: it implements
\* FrameService, which is what Bus supposes of the wire.
THEOREM FramesAreDelivered == Spec => DeliversFrames
  <1>1. Init => Wire!Init
    <2> SUFFICES ASSUME Init PROVE Wire!Init
      OBVIOUS
    <2>1. stream.length \in Nat /\ Frames(stream) \subseteq 1 .. stream.length
      BY TheStream DEF Init
    <2> QED
      BY <2>1 DEF Init, Wire!Init
  <1> QED
    BY <1>1, InitBytes, StepBytes, StepDelivers, PTL DEF Spec, DeliversFrames, Wire!Spec

-----------------------------------------------------------------------------
(* What makes the daemon panic.                                            *)

\* t has tested b.port, and has not made its last use of it that relies on that.
HoldsPort(t) ==
  pc[t] \in {"opening", "assign", "read", "close", "clear", "write", "writing", "shut", "unset"}

\* Reader and broker are not there together: what a lock would give.  The broker
\* may write while the reader waits for bytes or parses, and wait to test b.port
\* while the reader opens it.
PortIsLocked == ~(HoldsPort("reader") /\ HoldsPort("broker"))

\* A port is only half assigned while the reader assigns it, and is there for a
\* call that relies on it.
PortInv ==
  /\ ~panicked
  /\ port = NilPointer => pc["reader"] = "assign"
  /\ pc["reader"] = "assign" => port = NilPointer /\ using["reader"] \in Handles
  /\ \A t \in Threads : pc[t] \in {"read", "close", "write", "writing", "shut"} => port \in Handles

LEMMA NextPort ==
  ASSUME "open" \notin Faults, TypeOK, PortInv, PortIsLocked, PortIsLocked', [Next]_vars
  PROVE  PortInv'
  <1>0. /\ pc \in [Threads -> ReaderPcs \union SendPcs \union {"idle"}]
        /\ pc["broker"] \notin ReaderPcs /\ Threads = {"reader", "broker"}
        /\ port \in Handles \union {NilInterface, NilPointer}
        /\ using \in [Threads -> Handles \union {NilInterface}]
        /\ NilInterface \notin Handles /\ NilPointer \notin Handles /\ NilInterface # NilPointer
    BY SerialAssumption DEF TypeOK, Threads
  <1> USE <1>0 DEF PortInv, PortIsLocked, HoldsPort, ReaderPcs, SendPcs, Goto
  <1>1. ASSUME NEW t \in Threads, NilCall(t) PROVE FALSE
    BY <1>1 DEF NilCall
  <1>2. CASE StartSend
    BY <1>2 DEF StartSend, portVars
  <1>3. ASSUME NEW t \in Threads, Check(t) PROVE PortInv'
    BY <1>3 DEF Check, Return, portVars
  <1>4. ASSUME NEW t \in Threads, StartCall(t, "write", "writing", "shut") PROVE PortInv'
    BY <1>4 DEF StartCall
  <1>5. ASSUME NEW t \in Threads, NEW failed \in BOOLEAN, Written(t, failed) PROVE PortInv'
    BY <1>5 DEF Written, Return
  <1>6. ASSUME NEW t \in Threads, Close(t, "shut", "unset") PROVE PortInv'
    BY <1>6 DEF Close
  <1>7. ASSUME NEW t \in Threads, Clear(t, "unset", Return(t)) PROVE PortInv'
    BY <1>7 DEF Clear, Return
  <1>8. CASE Top
    BY <1>8 DEF Top, portVars
  <1>9. CASE OpenFails
    BY <1>9 DEF OpenFails
  <1>10. ASSUME NEW h \in Handles, NEW n, Open(h, n) PROVE PortInv'
    BY <1>10 DEF Open
  <1>11. CASE Assign
    BY <1>11 DEF Assign
  <1>12. CASE StartCall("reader", "read", "reading", "failed")
    BY <1>12 DEF StartCall
  <1>13. CASE (\E n \in received + 1 .. stream.length : ReadBytes(n)) \/ ReadFails
    BY <1>13 DEF ReadBytes, ReadFails
  <1>14. CASE Failed
    BY <1>14 DEF Failed, portVars
  <1>15. CASE Close("reader", "close", "clear")
    BY <1>15 DEF Close
  <1>16. CASE Clear("reader", "clear", "top")
    BY <1>16 DEF Clear
  <1>17. CASE HandleFrame \/ SkipByte \/ AwaitMore
    BY <1>17 DEF HandleFrame, SkipByte, AwaitMore, portVars
  <1>18. CASE UNCHANGED vars
    BY <1>18 DEF vars, portVars
  <1> QED
    BY <1>1, <1>2, <1>3, <1>4, <1>5, <1>6, <1>7, <1>8, <1>9, <1>10, <1>11, <1>12, <1>13, <1>14,
       <1>15, <1>16, <1>17, <1>18
    DEF Next, Reader, Reading, Broker, Sending

\* Neither goroutine panics, whatever reads and writes fail and whenever handles
\* are closed, as long as ports can be opened and reader and broker do not use
\* b.port between each other's test and use of it: these are the only two ways.
THEOREM PanicsButForRace ==
  ASSUME "open" \notin Faults
  PROVE  Spec /\ []PortIsLocked => []NeverPanics
  <1>1. Init => PortInv
    BY SerialAssumption DEF Init, PortInv, Threads
  <1>2. TypeOK /\ PortInv /\ PortIsLocked /\ PortIsLocked' /\ [Next]_vars => PortInv'
    BY NextPort
  <1>3. PortInv => NeverPanics
    BY DEF PortInv, NeverPanics
  <1> QED
    BY <1>1, <1>2, <1>3, SerialTypes, PTL DEF Spec
=============================================================================
