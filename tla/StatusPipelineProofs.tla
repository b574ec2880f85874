------------------------ MODULE StatusPipelineProofs ------------------------
(***************************************************************************)
(* Proofs about the status pipeline, for every set of operations, every    *)
(* length of the signal channel and any number of signals and restarts.    *)
(***************************************************************************)
EXTENDS StatusPipeline, SequenceTheorems, TLAPS

BusMessage == [kind : {"signal", "reply"}, op : Operation \cup {None}]

\* A signal names an operation; only an answer may be Status{}.
SignalsInv ==
    \A i \in 1 .. Len(bus) : bus[i].kind = "signal" => bus[i].op \in Operation

\* Until ReceiveStatuses reads the channel, every signal sent is in it or on
\* the bus.  Once GetStatus is answered, more signals may follow, but behind
\* the one answer; whoever has read it had room for the signals before it.
EarlyInv ==
    /\ receiver \in {"idle", "call"} =>
           /\ Len(ch) + Len(bus) = early
           /\ \A i \in 1 .. Len(bus) : bus[i].kind = "signal"
    /\ receiver = "await" =>
           \E i \in 1 .. Len(bus) :
               /\ Len(ch) + i - 1 = early
               /\ \A j \in 1 .. Len(bus) : bus[j].kind = "reply" <=> j = i
    /\ receiver \in {"send", "loop"} => early <= SignalBuffer

\* News of a needed reboot is nowhere before update_engine needs one.
NewsInv ==
    engine # NeedReboot =>
        /\ \A i \in 1 .. Len(bus) : bus[i].op # NeedReboot
        /\ \A i \in 1 .. Len(ch) : ch[i] # NeedReboot
        /\ \A i \in 1 .. Len(rcvr) : rcvr[i] # NeedReboot
        /\ NeedReboot \notin {pending, status}
        /\ ~rebootNeeded

\* The inductive invariant.
PipelineInv == TypeOK /\ SignalsInv /\ EarlyInv /\ NewsInv

-----------------------------------------------------------------------------
(* Channels: what is in one after something was put in or taken out.       *)

\* Append adds its element at the end and moves no other.
LEMMA Pushed ==
    ASSUME NEW S, NEW s \in Seq(S), NEW e \in S
    PROVE  /\ Append(s, e) \in Seq(S)
           /\ Len(s) \in Nat /\ Len(Append(s, e)) = Len(s) + 1
           /\ \A i \in 1 .. Len(Append(s, e)) :
                 \/ i \in 1 .. Len(s) /\ Append(s, e)[i] = s[i]
                 \/ i = Len(s) + 1 /\ Append(s, e)[i] = e
           /\ \A i \in 1 .. Len(s) :
                 i \in 1 .. Len(Append(s, e)) /\ Append(s, e)[i] = s[i]
  BY AppendProperties, LenProperties

\* Tail drops the head and moves every other element one place down.
LEMMA Popped ==
    ASSUME NEW S, NEW s \in Seq(S), s # <<>>
    PROVE  /\ Tail(s) \in Seq(S) /\ Head(s) \in S
           /\ Len(s) \in Nat \ {0} /\ Len(Tail(s)) = Len(s) - 1
           /\ 1 \in 1 .. Len(s) /\ Head(s) = s[1]
           /\ \A i \in 1 .. Len(Tail(s)) :
                 i + 1 \in 1 .. Len(s) /\ Tail(s)[i] = s[i + 1]
           /\ \A i \in 2 .. Len(s) :
                 i - 1 \in 1 .. Len(Tail(s)) /\ Tail(s)[i - 1] = s[i]
  <1>1. Len(s) \in Nat \ {0}
    BY EmptySeq
  <1>2. /\ Tail(s) \in Seq(S) /\ Head(s) \in S /\ Len(Tail(s)) = Len(s) - 1
        /\ \A i \in 1 .. Len(Tail(s)) : Tail(s)[i] = s[i + 1]
    BY HeadTailProperties
  <1>3. Head(s) = s[1]
    OBVIOUS
  <1> QED BY <1>1, <1>2, <1>3

\* The empty status is no operation; it does not ask for a reboot.
LEMMA NoReboot == None \notin Operation /\ None # NeedReboot
  BY OperationAssumption DEF None

\* Channels begin empty.
LEMMA EmptyChannels ==
    /\ Len(<<>>) = 0 /\ <<>> \in Seq(BusMessage)
    /\ <<>> \in Seq(Operation) /\ <<>> \in Seq(Operation \cup {None})
  BY EmptySeq

-----------------------------------------------------------------------------
LEMMA InitPipeline == Init => PipelineInv
  <1> SUFFICES ASSUME Init
               PROVE  PipelineInv
    OBVIOUS
  <1>1. bus = <<>> /\ ch = <<>> /\ rcvr = <<>> /\ Len(<<>>) = 0
    BY EmptyChannels DEF Init
  <1>2. TypeOK
    <2>1. /\ bus \in Seq(BusMessage) /\ ch \in Seq(Operation) /\ Len(ch) <= SignalBuffer
          /\ rcvr \in Seq(Operation \cup {None}) /\ Len(rcvr) <= 1
      BY <1>1, EmptyChannels, SignalAssumption
    <2>2. restarts \in 0 .. MaxRestarts /\ sent \in Nat /\ early \in Nat
      BY BoundAssumption DEF Init
    <2> QED BY <2>1, <2>2 DEF Init, TypeOK, Receiver, BusMessage
  <1>3. SignalsInv /\ EarlyInv /\ NewsInv
    BY <1>1, NoReboot, BoundAssumption DEF Init, SignalsInv, EarlyInv, NewsInv
  <1> QED BY <1>2, <1>3 DEF PipelineInv

\* A message put on the bus keeps the places of the others.
LEMMA BusPushed ==
    ASSUME TypeOK, NEW m \in BusMessage
    PROVE  /\ Append(bus, m) \in Seq(BusMessage)
           /\ Len(bus) \in Nat /\ Len(Append(bus, m)) = Len(bus) + 1
           /\ \A i \in 1 .. Len(Append(bus, m)) :
                 \/ i \in 1 .. Len(bus) /\ Append(bus, m)[i] = bus[i]
                 \/ i = Len(bus) + 1 /\ Append(bus, m)[i] = m
           /\ \A i \in 1 .. Len(bus) :
                 i \in 1 .. Len(Append(bus, m)) /\ Append(bus, m)[i] = bus[i]
  BY Pushed DEF TypeOK, BusMessage

\* update_engine emits a signal for an operation it is at: it is news of a
\* reboot only if one is needed, and it is early only while there is room.
LEMMA SignalKeeps ==
    ASSUME PipelineInv, NEW op \in Operation, Signal(op),
           engine' = op, engine # NeedReboot
    PROVE  PipelineInv'
  <1> DEFINE m == Message("signal", op)
  <1> USE DEF PipelineInv
  <1>1. m \in BusMessage /\ m.kind = "signal" /\ m.op = op
    BY DEF Message, BusMessage
  <1> HIDE DEF m
  <1>2. /\ bus' = Append(bus, m) /\ sent' = sent + 1
        /\ early' = IF Answered THEN early ELSE early + 1
        /\ UNCHANGED <<ch, agentState, nodeState, restarts, failing>>
    BY DEF Signal, m
  <1>3. /\ bus' \in Seq(BusMessage) /\ Len(bus) \in Nat /\ Len(bus') = Len(bus) + 1
        /\ \A i \in 1 .. Len(bus') :
              \/ i \in 1 .. Len(bus) /\ bus'[i] = bus[i]
              \/ i = Len(bus) + 1 /\ bus'[i] = m
        /\ \A i \in 1 .. Len(bus) : i \in 1 .. Len(bus') /\ bus'[i] = bus[i]
    BY <1>1, <1>2, BusPushed
  <1>4. TypeOK'
    BY <1>2, <1>3 DEF TypeOK, BusMessage, agentState, nodeState
  <1>5. SignalsInv'
    BY <1>1, <1>3 DEF SignalsInv
  <1>6. EarlyInv'
    <2>1. early \in Nat /\ Len(ch) \in Nat /\ ch' = ch /\ receiver' = receiver
      BY <1>2, LenProperties DEF TypeOK, agentState
    <2>2. CASE receiver \in {"idle", "call"}
      <3>1. Len(ch') + Len(bus') = early'
        BY <1>2, <1>3, <2>1, <2>2 DEF EarlyInv, Answered
      <3>2. \A i \in 1 .. Len(bus') : bus'[i].kind = "signal"
        BY <1>1, <1>3, <2>2 DEF EarlyInv
      <3> QED BY <2>1, <2>2, <3>1, <3>2 DEF EarlyInv
    <2>3. CASE receiver = "await"
      <3>1. PICK i \in 1 .. Len(bus) :
                  /\ Len(ch) + i - 1 = early
                  /\ \A j \in 1 .. Len(bus) : bus[j].kind = "reply" <=> j = i
        BY <2>3 DEF EarlyInv
      <3>2. i \in 1 .. Len(bus') /\ \A j \in 1 .. Len(bus') : bus'[j].kind = "reply" <=> j = i
        BY <1>1, <1>3, <3>1
      <3>3. early' = early
        BY <1>2, <2>3 DEF Answered
      <3> QED BY <2>1, <2>3, <3>1, <3>2, <3>3 DEF EarlyInv
    <2>4. CASE receiver \in {"send", "loop"}
      BY <1>2, <2>1, <2>4 DEF EarlyInv, Answered
    <2> QED BY <2>1, <2>2, <2>3, <2>4 DEF EarlyInv, TypeOK, Receiver
  <1>7. NewsInv'
    BY <1>1, <1>2, <1>3 DEF NewsInv, agentState, nodeState
  <1> QED BY <1>4, <1>5, <1>6, <1>7

\* update_engine answers GetStatus: the answer comes behind the signals sent
\* before it.
LEMMA EngineAnswersKeeps ==
    ASSUME PipelineInv, EngineAnswers
    PROVE  PipelineInv'
  <1> USE DEF PipelineInv
  <1>1. PICK op \in {engine} \cup IF failing THEN {None} ELSE {} :
              bus' = Append(bus, Message("reply", op))
    BY DEF EngineAnswers
  <1>2. op \in Operation \cup {None} /\ (engine # NeedReboot => op # NeedReboot)
    BY NoReboot DEF TypeOK
  <1> DEFINE m == Message("reply", op)
  <1>3. m \in BusMessage /\ m.kind = "reply" /\ m.op = op
    BY <1>2 DEF Message, BusMessage
  <1>4. bus' = Append(bus, m)
    BY <1>1
  <1> HIDE DEF m
  <1>5. /\ bus' \in Seq(BusMessage) /\ Len(bus) \in Nat /\ Len(bus') = Len(bus) + 1
        /\ \A i \in 1 .. Len(bus') :
              \/ i \in 1 .. Len(bus) /\ bus'[i] = bus[i]
              \/ i = Len(bus) + 1 /\ bus'[i] = m
    BY <1>3, <1>4, BusPushed
  <1>6. /\ receiver = "call" /\ receiver' = "await"
        /\ UNCHANGED <<engine, sent, ch, pending, rcvr, updating, status,
                       oldOperation, nodeState, restarts, failing, early>>
    BY DEF EngineAnswers
  <1>7. TypeOK'
    BY <1>5, <1>6 DEF TypeOK, BusMessage, nodeState, Receiver
  <1>8. SignalsInv'
    BY <1>3, <1>5 DEF SignalsInv
  <1>9. EarlyInv'
    <2>1. /\ early \in Nat /\ Len(ch) \in Nat /\ Len(ch) + Len(bus) = early
          /\ \A i \in 1 .. Len(bus) : bus[i].kind = "signal"
      BY <1>6, LenProperties DEF TypeOK, EarlyInv
    <2>2. /\ Len(bus') \in 1 .. Len(bus')
          /\ \A j \in 1 .. Len(bus') : bus'[j].kind = "reply" <=> j = Len(bus')
      BY <1>3, <1>5, <2>1
    <2>3. Len(ch') + Len(bus') - 1 = early'
      BY <1>5, <1>6, <2>1
    <2> QED BY <1>6, <2>2, <2>3 DEF EarlyInv
  <1>10. NewsInv'
    BY <1>2, <1>3, <1>5, <1>6 DEF NewsInv, nodeState
  <1> QED BY <1>7, <1>8, <1>9, <1>10

\* What the reader takes off the bus.
LEMMA BusPopped ==
    ASSUME TypeOK, bus # <<>>
    PROVE  /\ Tail(bus) \in Seq(BusMessage) /\ Head(bus) \in BusMessage
           /\ Len(bus) \in Nat \ {0} /\ Len(Tail(bus)) = Len(bus) - 1
           /\ 1 \in 1 .. Len(bus) /\ Head(bus) = bus[1]
           /\ \A i \in 1 .. Len(Tail(bus)) :
                 i + 1 \in 1 .. Len(bus) /\ Tail(bus)[i] = bus[i + 1]
           /\ \A i \in 2 .. Len(bus) :
                 i - 1 \in 1 .. Len(Tail(bus)) /\ Tail(bus)[i - 1] = bus[i]
  BY Popped DEF TypeOK, BusMessage

\* Taking a message off the bus keeps what holds of every message.
LEMMA TailKeeps ==
    ASSUME TypeOK, SignalsInv, bus # <<>>, bus' = Tail(bus)
    PROVE  /\ SignalsInv'
           /\ (\A i \in 1 .. Len(bus) : bus[i].op # NeedReboot)
                 => (\A i \in 1 .. Len(bus') : bus'[i].op # NeedReboot)
  BY BusPopped DEF SignalsInv

\* The connection's reader puts a signal into the channel.
LEMMA DispatchSignalKeeps ==
    ASSUME PipelineInv, DispatchSignal
    PROVE  PipelineInv'
  <1> USE DEF PipelineInv
  <1>1. /\ bus # <<>> /\ Head(bus).kind = "signal" /\ Len(ch) < SignalBuffer
        /\ bus' = Tail(bus) /\ ch' = Append(ch, Head(bus).op)
        /\ UNCHANGED <<engine, sent, agentState, nodeState, restarts, failing, early>>
    <2>1. Len(ch) \in Nat
      BY LenProperties DEF TypeOK
    <2> QED BY <2>1, SignalAssumption DEF DispatchSignal, ChannelFull
  <1>2. Head(bus).op \in Operation
    BY <1>1, BusPopped DEF SignalsInv
  <1>3. /\ ch' \in Seq(Operation) /\ Len(ch) \in Nat /\ Len(ch') = Len(ch) + 1
        /\ \A i \in 1 .. Len(ch') :
              \/ i \in 1 .. Len(ch) /\ ch'[i] = ch[i]
              \/ i = Len(ch) + 1 /\ ch'[i] = Head(bus).op
    BY <1>1, <1>2, Pushed DEF TypeOK
  <1>4. TypeOK'
    BY <1>1, <1>3, BusPopped, SignalAssumption DEF TypeOK, BusMessage, agentState, nodeState
  <1>5. SignalsInv'
    BY <1>1, TailKeeps
  <1>6. EarlyInv'
    <2>1. early \in Nat /\ early' = early /\ receiver' = receiver
      BY <1>1 DEF TypeOK, agentState
    <2>2. CASE receiver \in {"idle", "call"}
      <3>1. Len(ch') + Len(bus') = early'
        BY <1>1, <1>3, <2>1, <2>2, BusPopped DEF EarlyInv
      <3>2. \A i \in 1 .. Len(bus') : bus'[i].kind = "signal"
        BY <1>1, <2>2, BusPopped DEF EarlyInv
      <3> QED BY <2>1, <2>2, <3>1, <3>2 DEF EarlyInv
    <2>3. CASE receiver = "await"
      <3>1. PICK i \in 1 .. Len(bus) :
                  /\ Len(ch) + i - 1 = early
                  /\ \A j \in 1 .. Len(bus) : bus[j].kind = "reply" <=> j = i
        BY <2>3 DEF EarlyInv
      <3>2. i \in 2 .. Len(bus) /\ i \in Nat /\ Len(ch) \in Nat
        BY <1>1, <1>3, <3>1, BusPopped
      <3>3. /\ i - 1 \in 1 .. Len(bus')
            /\ \A j \in 1 .. Len(bus') : bus'[j].kind = "reply" <=> j = i - 1
        BY <1>1, <3>1, <3>2, BusPopped
      <3>4. Len(ch') + (i - 1) - 1 = early'
        <4>1. Len(ch') = Len(ch) + 1 /\ early' = early /\ Len(ch) + i - 1 = early
          BY <1>3, <2>1, <3>1
        <4> QED BY <2>1, <3>2, <4>1
      <3> QED BY <2>1, <2>3, <3>3, <3>4 DEF EarlyInv
    <2> QED BY <2>1, <2>2, <2>3 DEF EarlyInv
  <1>7. NewsInv'
    BY <1>1, <1>3, BusPopped, TailKeeps DEF NewsInv, agentState, nodeState
  <1> QED BY <1>4, <1>5, <1>6, <1>7

\* The connection's reader hands the answer of GetStatus over.
LEMMA DispatchReplyKeeps ==
    ASSUME PipelineInv, DispatchReply
    PROVE  PipelineInv'
  <1> USE DEF PipelineInv
  <1>1. /\ bus # <<>> /\ bus' = Tail(bus) /\ receiver' = "send"
        /\ Head(bus).kind = "reply" /\ pending' = Head(bus).op
        /\ UNCHANGED <<engine, sent, ch, rcvr, updating, status, oldOperation,
                       nodeState, restarts, failing, early>>
    BY DEF DispatchReply
  <1>2. Head(bus).op \in Operation \cup {None}
    BY <1>1, BusPopped DEF BusMessage
  <1>3. TypeOK'
    BY <1>1, <1>2, BusPopped DEF TypeOK, BusMessage, nodeState, Receiver
  <1>4. SignalsInv'
    BY <1>1, TailKeeps
  <1>5. EarlyInv'
    <2>1. early <= SignalBuffer
      <3>1. /\ early \in Nat /\ Len(ch) \in Nat /\ Len(ch) <= SignalBuffer
            /\ 1 \in 1 .. Len(bus) /\ bus[1].kind = "reply"
        BY <1>1, BusPopped, LenProperties DEF TypeOK
      <3> QED BY <3>1, SignalAssumption DEF EarlyInv, TypeOK, Receiver
    <2> QED BY <1>1, <2>1 DEF EarlyInv
  <1>6. NewsInv'
    BY <1>1, BusPopped, TailKeeps DEF NewsInv, nodeState
  <1> QED BY <1>3, <1>4, <1>5, <1>6

\* The agent's own steps do not touch the bus, and only read the channel once
\* GetStatus has been answered.
LEMMA AgentStepKeeps ==
    ASSUME PipelineInv, AgentStep
    PROVE  PipelineInv'
  <1> USE DEF PipelineInv, nodeState
  <1>1. CASE StartWatching
    BY <1>1 DEF StartWatching, TypeOK, Receiver, SignalsInv, EarlyInv, NewsInv
  <1>2. CASE SendStatus
    <2>1. /\ rcvr' = Append(rcvr, pending) /\ Len(rcvr) < 1
          /\ receiver = "send" /\ receiver' = "loop" /\ pending \in Operation \cup {None}
          /\ UNCHANGED <<engine, sent, bus, ch, pending, updating, status,
                         oldOperation, nodeState, restarts, failing, early>>
      BY <1>2 DEF SendStatus, TypeOK
    <2>2. /\ rcvr' \in Seq(Operation \cup {None})
          /\ Len(rcvr) \in Nat /\ Len(rcvr') = Len(rcvr) + 1
          /\ \A i \in 1 .. Len(rcvr') :
                \/ i \in 1 .. Len(rcvr) /\ rcvr'[i] = rcvr[i]
                \/ rcvr'[i] = pending
      BY <2>1, Pushed DEF TypeOK
    <2>3. TypeOK'
      BY <2>1, <2>2 DEF TypeOK, Receiver
    <2>4. SignalsInv' /\ EarlyInv'
      BY <2>1 DEF SignalsInv, EarlyInv
    <2>5. NewsInv'
      BY <2>1, <2>2 DEF NewsInv
    <2> QED BY <2>3, <2>4, <2>5
  <1>3. CASE ReceiveSignal
    <2>1. /\ ch # <<>> /\ ch' = Tail(ch) /\ pending' = Head(ch)
          /\ receiver = "loop" /\ receiver' = "send"
          /\ UNCHANGED <<engine, sent, bus, rcvr, updating, status, oldOperation,
                         nodeState, restarts, failing, early>>
      BY <1>3 DEF ReceiveSignal
    <2>2. /\ ch' \in Seq(Operation) /\ Head(ch) \in Operation
          /\ Len(ch) \in Nat \ {0} /\ Len(ch') = Len(ch) - 1
          /\ 1 \in 1 .. Len(ch) /\ Head(ch) = ch[1]
          /\ \A i \in 1 .. Len(ch') : i + 1 \in 1 .. Len(ch) /\ ch'[i] = ch[i + 1]
      BY <2>1, Popped DEF TypeOK
    <2>3. TypeOK'
      BY <2>1, <2>2, SignalAssumption DEF TypeOK, Receiver
    <2>4. SignalsInv' /\ EarlyInv'
      BY <2>1 DEF SignalsInv, EarlyInv
    <2>5. NewsInv'
      BY <2>1, <2>2 DEF NewsInv
    <2> QED BY <2>3, <2>4, <2>5
  <1>4. CASE WatchStatus
    <2>1. /\ rcvr # <<>> /\ rcvr' = Tail(rcvr) /\ status' = Head(rcvr)
          /\ updating' = changed(Head(rcvr))
          /\ UNCHANGED <<engine, sent, bus, ch, receiver, pending, oldOperation,
                         nodeState, restarts, failing, early>>
      BY <1>4 DEF WatchStatus
    <2>2. /\ rcvr' \in Seq(Operation \cup {None}) /\ Head(rcvr) \in Operation \cup {None}
          /\ Len(rcvr) \in Nat \ {0} /\ Len(rcvr') = Len(rcvr) - 1
          /\ 1 \in 1 .. Len(rcvr) /\ Head(rcvr) = rcvr[1]
          /\ \A i \in 1 .. Len(rcvr') : i + 1 \in 1 .. Len(rcvr) /\ rcvr'[i] = rcvr[i + 1]
      BY <2>1, Popped DEF TypeOK
    <2>3. TypeOK'
      BY <2>1, <2>2 DEF TypeOK, Receiver, changed
    <2>4. SignalsInv' /\ EarlyInv'
      BY <2>1 DEF SignalsInv, EarlyInv
    <2>5. NewsInv'
      BY <2>1, <2>2 DEF NewsInv
    <2> QED BY <2>3, <2>4, <2>5
  <1>5. CASE UpdateStatus
    <2>1. TypeOK'
      BY <1>5 DEF UpdateStatus, TypeOK, needsReboot
    <2>2. SignalsInv' /\ EarlyInv'
      BY <1>5 DEF UpdateStatus, SignalsInv, EarlyInv
    <2>3. NewsInv'
      BY <1>5 DEF UpdateStatus, NewsInv, needsReboot
    <2> QED BY <2>1, <2>2, <2>3
  <1> QED BY <1>1, <1>2, <1>3, <1>4, <1>5 DEF AgentStep

\* A new agent process begins with empty channels and without a request.
LEMMA RestartKeeps ==
    ASSUME PipelineInv, Restart
    PROVE  PipelineInv'
  <1> USE DEF PipelineInv
  <1>1. bus' = <<>> /\ ch' = <<>> /\ rcvr' = <<>> /\ Len(<<>>) = 0
    BY EmptyChannels DEF Restart
  <1>2. TypeOK'
    <2>1. /\ bus' \in Seq(BusMessage) /\ ch' \in Seq(Operation) /\ Len(ch') <= SignalBuffer
          /\ rcvr' \in Seq(Operation \cup {None}) /\ Len(rcvr') <= 1
      BY <1>1, EmptyChannels, SignalAssumption
    <2>2. restarts' \in 0 .. MaxRestarts /\ sent' \in Nat /\ early' \in Nat
      BY BoundAssumption DEF Restart, TypeOK
    <2> QED BY <2>1, <2>2 DEF Restart, TypeOK, Receiver, BusMessage
  <1>3. SignalsInv' /\ EarlyInv' /\ NewsInv'
    BY <1>1, NoReboot, BoundAssumption DEF Restart, SignalsInv, EarlyInv, NewsInv
  <1> QED BY <1>2, <1>3

\* Every step keeps the inductive invariant.
LEMMA NextPipeline == PipelineInv /\ [Next]_vars => PipelineInv'
  <1> SUFFICES ASSUME PipelineInv, [Next]_vars
               PROVE  PipelineInv'
    OBVIOUS
  <1>1. CASE EngineMoves
    BY <1>1, SignalKeeps DEF EngineMoves
  <1>2. CASE EngineProgresses
    BY <1>2, SignalKeeps DEF EngineProgresses, PipelineInv, TypeOK
  <1>3. CASE BusStep
    BY <1>3, EngineAnswersKeeps, DispatchSignalKeeps, DispatchReplyKeeps DEF BusStep
  <1>4. CASE UNCHANGED vars
    BY <1>4 DEF vars, agentState, nodeState, PipelineInv, TypeOK, SignalsInv,
                EarlyInv, NewsInv
  <1> QED BY <1>1, <1>2, <1>3, <1>4, AgentStepKeeps, RestartKeeps DEF Next

\* The inductive invariant holds of every behaviour.
THEOREM PipelineInvariantHolds == Spec => []PipelineInv
  BY InitPipeline, NextPipeline, PTL DEF Spec

\* Type correctness: the channels hold no more than they were made for.
THEOREM TypeCorrect == Spec => []TypeOK
  <1>1. PipelineInv => TypeOK
    BY DEF PipelineInv
  <1> QED BY <1>1, PipelineInvariantHolds, PTL

\* ReceiveStatuses and the connection's reader wait for each other only if more
\* signals arrive before GetStatus is answered than the channel takes.
THEOREM NoDeadlockHolds == Spec => []NoDeadlock
  <1>1. PipelineInv => NoDeadlock
    <2> SUFFICES ASSUME PipelineInv, receiver \in {"call", "await"}, bus # <<>>,
                        Head(bus).kind = "signal", ChannelFull
                 PROVE  Overrun
      BY DEF NoDeadlock
    <2>1. /\ Len(ch) \in Nat /\ Len(bus) \in Nat \ {0} /\ 1 \in 1 .. Len(bus)
          /\ bus[1].kind = "signal" /\ early \in Nat /\ Len(ch) >= SignalBuffer
      BY LenProperties, BusPopped DEF PipelineInv, TypeOK, ChannelFull
    <2>2. Len(ch) + 1 <= early
      BY <2>1 DEF PipelineInv, EarlyInv
    <2> QED BY <2>1, <2>2, SignalAssumption DEF Overrun
  <1> QED BY <1>1, PipelineInvariantHolds, PTL

\* Once the channel is overrun, the agent process never gets past GetStatus.
THEOREM DeafWhenOverrunHolds == Spec => []DeafWhenOverrun
  <1>1. PipelineInv => DeafWhenOverrun
    BY SignalAssumption DEF PipelineInv, TypeOK, Receiver, EarlyInv, DeafWhenOverrun, Overrun
  <1> QED BY <1>1, PipelineInvariantHolds, PTL

\* The agent asks for a reboot only if update_engine needs one, whatever
\* signals are replayed, lost by a restart or answered with an error.
THEOREM RequestJustifiedHolds == Spec => []RequestJustified
  <1>1. PipelineInv => RequestJustified
    BY DEF PipelineInv, NewsInv, RequestJustified
  <1> QED BY <1>1, PipelineInvariantHolds, PTL

=============================================================================
