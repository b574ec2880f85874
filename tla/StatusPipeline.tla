--------------------------- MODULE StatusPipeline ---------------------------
(***************************************************************************)
(* How the agent on one node learns the status of update_engine: D-Bus     *)
(* messages, read in order by the connection's one reader (inWorker), a    *)
(* buffered channel of signals, ReceiveStatuses, a channel of one status,  *)
(* watchUpdateStatus and its callback.                                     *)
(*                                                                         *)
(* The agent subscribes when it starts, but reads the channel only once    *)
(* reboot-ok is clear, a day later perhaps.  ReceiveStatuses first asks    *)
(* for the current status.  The answer and the signals come over the same  *)
(* connection, and the reader puts a signal into the channel with a send   *)
(* that waits for room: while it waits it reads nothing, answers included. *)
(***************************************************************************)
EXTENDS Naturals, Sequences

CONSTANTS
    Operation,       \* what update_engine can be doing
    NeedReboot,      \* UPDATE_STATUS_UPDATED_NEED_REBOOT
    SignalBuffer,    \* 32 in the code
    MaxEarly,        \* most signals sent before GetStatus is answered
    MaxSignals,      \* bound: signals sent to one agent process
    MaxRestarts      \* bound: restarts of the agent

ASSUME OperationAssumption == NeedReboot \in Operation /\ "none" \notin Operation
ASSUME SignalAssumption == SignalBuffer \in Nat
ASSUME BoundAssumption ==
    MaxEarly \in Nat /\ MaxSignals \in Nat /\ MaxRestarts \in Nat

VARIABLES
    engine,        \* update_engine's current operation
    sent,          \* signals sent to this agent process
    bus,           \* messages the connection's reader has not dispatched yet
    ch,            \* Client.ch
    receiver,      \* what ReceiveStatuses does next
    pending,       \* the status it holds
    rcvr,          \* the channel between it and watchUpdateStatus
    updating,      \* is the callback running?
    status,        \* the status it was called with
    oldOperation,  \* local variable of watchUpdateStatus
    published,     \* annotation status
    rebootNeeded,  \* is annotation reboot-needed "true"?
    restarts,      \* restarts so far
    failing,       \* does update_engine answer GetStatus with errors at times?
    early          \* history: signals sent before GetStatus was answered

agentState == <<receiver, pending, rcvr, updating, status, oldOperation>>
nodeState  == <<published, rebootNeeded>>
vars == <<engine, sent, bus, ch, agentState, nodeState, restarts, failing, early>>

\* The empty CurrentOperation of Status{}, and the first oldOperation.
None == "none"

Message(kind, op) == [kind |-> kind, op |-> op]
Receiver == {"idle", "call", "await", "send", "loop"}

Init ==
    /\ engine \in Operation
    /\ sent = 0 /\ bus = <<>> /\ ch = <<>>
    /\ receiver = "idle" /\ pending = None /\ rcvr = <<>>
    /\ updating = FALSE /\ status = None /\ oldOperation = None
    /\ published = None /\ rebootNeeded = FALSE
    /\ restarts = 0 /\ failing \in BOOLEAN /\ early = 0

-----------------------------------------------------------------------------
(* update_engine.  NEED_REBOOT lasts until the machine reboots.            *)

Answered == receiver \in {"await", "send", "loop"}

Signal(op) ==
    /\ sent < IF Answered THEN MaxSignals ELSE MaxEarly
    /\ sent' = sent + 1
    /\ early' = IF Answered THEN early ELSE early + 1
    /\ bus' = Append(bus, Message("signal", op))
    /\ UNCHANGED <<ch, agentState, nodeState, restarts, failing>>

EngineMoves ==
    /\ engine # NeedReboot
    /\ engine' \in Operation \ {engine}
    /\ Signal(engine')

\* A signal for every bit of progress of a download.
EngineProgresses ==
    /\ engine # NeedReboot
    /\ UNCHANGED engine
    /\ Signal(engine)

EngineAnswers ==
    /\ receiver = "call"
    /\ receiver' = "await"
    /\ \E op \in {engine} \cup IF failing THEN {None} ELSE {} :
          bus' = Append(bus, Message("reply", op))
    /\ UNCHANGED <<engine, sent, ch, pending, rcvr, updating, status,
                   oldOperation, nodeState, restarts, failing, early>>

-----------------------------------------------------------------------------
(* The connection's reader.                                                *)

\* Mutant: the channel is made one too small.
ChannelFull_OneLess == Len(ch) >= SignalBuffer - 1

ChannelFull == Len(ch) >= SignalBuffer

\* Mutant: a signal there is no room for is discarded.
DispatchSignal_Discards ==
    /\ bus # <<>>
    /\ Head(bus).kind = "signal"
    /\ bus' = Tail(bus)
    /\ ch' = IF ChannelFull THEN ch ELSE Append(ch, Head(bus).op)
    /\ UNCHANGED <<engine, sent, agentState, nodeState, restarts, failing, early>>

DispatchSignal ==
    /\ bus # <<>>
    /\ Head(bus).kind = "signal"
    /\ ~ChannelFull
    /\ bus' = Tail(bus)
    /\ ch' = Append(ch, Head(bus).op)
    /\ UNCHANGED <<engine, sent, agentState, nodeState, restarts, failing, early>>

\* The answer wakes GetStatus; of an error only Status{} is left.
DispatchReply ==
    /\ bus # <<>>
    /\ Head(bus).kind = "reply"
    /\ bus' = Tail(bus)
    /\ receiver' = "send"
    /\ pending' = Head(bus).op
    /\ UNCHANGED <<engine, sent, ch, rcvr, updating, status, oldOperation,
                   nodeState, restarts, failing, early>>

-----------------------------------------------------------------------------
(* ReceiveStatuses.                                                        *)

\* process reaches the line that starts watchUpdateStatus: call GetStatus.
StartWatching ==
    /\ receiver = "idle"
    /\ receiver' = "call"
    /\ UNCHANGED <<engine, sent, bus, ch, pending, rcvr, updating, status,
                   oldOperation, nodeState, restarts, failing, early>>

\* Mutant: the channel takes any number of statuses.
SendStatus_Unbounded ==
    /\ receiver = "send"
    /\ rcvr' = Append(rcvr, pending)
    /\ receiver' = "loop"
    /\ UNCHANGED <<engine, sent, bus, ch, pending, updating, status,
                   oldOperation, nodeState, restarts, failing, early>>

SendStatus ==
    /\ receiver = "send"
    /\ Len(rcvr) < 1
    /\ rcvr' = Append(rcvr, pending)
    /\ receiver' = "loop"
    /\ UNCHANGED <<engine, sent, bus, ch, pending, updating, status,
                   oldOperation, nodeState, restarts, failing, early>>

ReceiveSignal ==
    /\ receiver = "loop"
    /\ ch # <<>>
    /\ ch' = Tail(ch)
    /\ pending' = Head(ch)
    /\ receiver' = "send"
    /\ UNCHANGED <<engine, sent, bus, rcvr, updating, status, oldOperation,
                   nodeState, restarts, failing, early>>

-----------------------------------------------------------------------------
(* watchUpdateStatus and updateStatusCallback.                             *)

\* Mutants: the comparison is inverted; only NEED_REBOOT is passed on.
changed_Inverted(op)   == op = oldOperation
changed_RebootOnly(op) == op = NeedReboot

changed(op) == op # oldOperation

WatchStatus ==
    /\ ~updating
    /\ rcvr # <<>>
    /\ rcvr' = Tail(rcvr)
    /\ status' = Head(rcvr)
    /\ updating' = changed(Head(rcvr))
    /\ UNCHANGED <<engine, sent, bus, ch, receiver, pending, oldOperation,
                   nodeState, restarts, failing, early>>

\* Mutant: any news is taken for a needed reboot.
needsReboot_Any(op) == op # None

needsReboot(op) == op = NeedReboot

\* The callback polls until its update of the node succeeds.
UpdateStatus ==
    /\ updating
    /\ published' = status
    /\ rebootNeeded' = (rebootNeeded \/ needsReboot(status))
    /\ oldOperation' = status
    /\ updating' = FALSE
    /\ UNCHANGED <<engine, sent, bus, ch, receiver, pending, rcvr, status,
                   restarts, failing, early>>

\* A new agent process connects anew and clears reboot-needed.
Restart ==
    /\ restarts < MaxRestarts
    /\ restarts' = restarts + 1
    /\ sent' = 0 /\ bus' = <<>> /\ ch' = <<>>
    /\ receiver' = "idle" /\ pending' = None /\ rcvr' = <<>>
    /\ updating' = FALSE /\ status' = None /\ oldOperation' = None
    /\ rebootNeeded' = FALSE /\ early' = 0
    /\ UNCHANGED <<engine, published, failing>>

-----------------------------------------------------------------------------
AgentStep == \/ StartWatching \/ SendStatus \/ ReceiveSignal
             \/ WatchStatus \/ UpdateStatus

BusStep == EngineAnswers \/ DispatchSignal \/ DispatchReply

Next == EngineMoves \/ EngineProgresses \/ BusStep \/ AgentStep \/ Restart

Spec == Init /\ [][Next]_vars

\* update_engine answers, the connection's reader reads, every goroutine
\* that is not blocked goes on, and the API server is reached in the end.
Fairness ==
    /\ WF_vars(EngineAnswers) /\ WF_vars(DispatchSignal) /\ WF_vars(DispatchReply)
    /\ WF_vars(StartWatching) /\ WF_vars(SendStatus) /\ WF_vars(ReceiveSignal)
    /\ WF_vars(WatchStatus) /\ WF_vars(UpdateStatus)

FairSpec == Spec /\ Fairness

-----------------------------------------------------------------------------
\* Type invariant; the channels hold no more than they were made for.
TypeOK ==
    /\ engine \in Operation
    /\ sent \in Nat /\ early \in Nat
    /\ bus \in Seq([kind : {"signal", "reply"}, op : Operation \cup {None}])
    /\ ch \in Seq(Operation) /\ Len(ch) <= SignalBuffer
    /\ receiver \in Receiver
    /\ {pending, status, oldOperation, published} \subseteq Operation \cup {None}
    /\ rcvr \in Seq(Operation \cup {None}) /\ Len(rcvr) <= 1
    /\ updating \in BOOLEAN /\ rebootNeeded \in BOOLEAN
    /\ restarts \in 0 .. MaxRestarts /\ failing \in BOOLEAN

\* More signals came before the answer of GetStatus than the channel holds.
Overrun == early > SignalBuffer

\* The connection's reader and ReceiveStatuses wait for each other only when
\* the channel is overrun: up to then, while GetStatus waits for its answer,
\* no signal before it is held up by a full channel, which nobody would empty.
NoDeadlock ==
    receiver \in {"call", "await"} /\ bus # <<>> /\ Head(bus).kind = "signal"
        /\ ChannelFull => Overrun

\* The channel overrun, the agent process is deaf: it never reads the answer,
\* nor any status after it, though GetStatus was answered and signals come.
DeafWhenOverrun == Overrun => receiver \in {"idle", "call", "await"}

\* The agent asks for a reboot only if update_engine needs one: neither the
\* replay of old signals nor a failed GetStatus makes it up.
RequestJustified == rebootNeeded => engine = NeedReboot

\* An update that needs a reboot is announced, whatever update_engine did
\* while nobody was reading, and again after every restart of the agent,
\* unless the channel is overrun; where GetStatus may fail, a signal is needed.
RebootAnnounced ==
    engine = NeedReboot ~> rebootNeeded \/ Overrun \/ (failing /\ sent = 0)

\* The status annotation ends up at update_engine's status, although signals
\* older than the answer of GetStatus are replayed after it, unless the channel
\* is overrun; where that call may fail, a signal is needed.
StatusCaughtUp ==
    \A op \in Operation :
        <>[](engine = op /\ ~Overrun /\ (failing => sent > 0)) => <>[](published = op)

=============================================================================
