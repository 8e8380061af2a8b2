----------------------------- MODULE TcpclSession -----------------------------
(***************************************************************************)
(* A TCPCL session between two nodes that both run this code: at each end  *)
(* the loop of TCPCLSession around its StateMachine, the TCPCLSessionAgent *)
(* with the channels to and from it, and the TCP connection between them.  *)
(*                                                                         *)
(* One turn of the loop is one action: the branch of select! that is taken,*)
(* and the checks at the head of the loop before the next select!.  A      *)
(* branch that is taken cancels the others; the one that matters is the    *)
(* write of a message that waits for the socket (flushing), whose bytes    *)
(* stay in the buffer of the writer.                                       *)
(*                                                                         *)
(* TLS is left out.  Segments carry one unit of data each.                 *)
(***************************************************************************)
EXTENDS Integers, Sequences, FiniteSets

CONSTANTS Scenarios,        \* what the agents are asked for, see below
          TransferMru,      \* the largest transfer an end accepts
          SendCapacity,     \* room in the channel from the agent
          ReceiveCapacity,  \* room in the channel to the agent
          MaxBuffer,        \* messages the writer buffers before it must flush
          MaxNested         \* bound: keepalives that wait for each other

Ends == {"active", "passive"}
Peer(x) == IF x = "active" THEN "passive" ELSE "active"

(***************************************************************************)
(* bundles : the sizes of the bundles the agent of each end is to forward. *)
(* narrow : the ends one of whose segments fills the socket, and may wait  *)
(*     in the network for longer than a keepalive interval.  The messages  *)
(*     of other ends always find room and arrive within an interval.       *)
(* closing : the ends whose agent may ask to close.                        *)
(* lossy : the connection may break.                                       *)
(***************************************************************************)
ASSUME SessionAssumption ==
  /\ Scenarios \subseteq [bundles : [Ends -> Seq(Nat \ {0})], narrow : SUBSET Ends,
                          closing : SUBSET Ends, lossy : BOOLEAN]
  /\ TransferMru \in Nat /\ MaxBuffer \in Nat \ {0} /\ MaxNested \in Nat \ {0}
  /\ SendCapacity \in Nat \ {0} /\ ReceiveCapacity \in Nat \ {0}

VARIABLES
  scenario,
  session,      \* TCPCLSession with its StateMachine, per end
  agent,        \* TCPCLSessionAgent, per end
  send,         \* send_channel, per end
  receive,      \* receive_channel, per end
  wire,         \* messages under way from each end
  stored        \* history: the transfers the agent of each end has stored

vars == <<scenario, session, agent, send, receive, wire, stored>>

-------------------------------------------------------------------------------
(* The state machine *)

HandshakeStates ==
  {"ActiveSendContactHeader", "PassiveWaitContactHeader", "ActiveWaitContactHeader",
   "PassiveSendContactHeader", "ActiveSendSessInit", "PassiveWaitSessInit",
   "ActiveWaitSessInit", "PassiveSendSessInit"}

States == HandshakeStates \cup
  {"SessionEstablished", "SendXferAck", "SendXferSegments", "SendXferSegmentsAndAck",
   "SendSessTerm", "WaitSessTerm", "SendMsgReject", "ConnectionClose"}

\* No transfer, no acknowledgement.
Nothing == [id |-> -1]

(***************************************************************************)
(* nested counts the SendKeepalive states around the state; tracker and    *)
(* ack are the contents of the Send* states; request is the bundle whose   *)
(* result is awaited (transfer_result_sender), 0 for none; passing is the  *)
(* transfer that waits for room in receive_channel; outcome says how the   *)
(* loop ended.                                                             *)
(***************************************************************************)
NewSession(x) ==
  [state |-> IF x = "active" THEN "ActiveSendContactHeader"
             ELSE "PassiveWaitContactHeader",
   nested |-> 0, tracker |-> Nothing, ack |-> Nothing, terminating |-> FALSE,
   last_used_transfer_id |-> 0, buffer |-> <<>>, flushing |-> FALSE,
   receiving |-> Nothing, passing |-> Nothing, request |-> 0,
   established |-> FALSE, quiet |-> 0, outcome |-> "running",
   results |-> [n \in 1..Len(scenario.bundles[x]) |-> "none"]]

NewAgent(x) ==
  [todo |-> [n \in 1..Len(scenario.bundles[x]) |-> n], waiting |-> FALSE,
   close |-> FALSE, up |-> TRUE]

Init ==
  /\ scenario \in Scenarios
  /\ session = [x \in Ends |-> NewSession(x)]
  /\ agent = [x \in Ends |-> NewAgent(x)]
  /\ send = [x \in Ends |-> <<>>] /\ receive = [x \in Ends |-> <<>>]
  /\ wire = [x \in Ends |-> <<>>] /\ stored = [x \in Ends |-> <<>>]

Waits == {"PassiveWaitContactHeader", "ActiveWaitContactHeader", "ActiveWaitSessInit",
          "PassiveWaitSessInit", "SessionEstablished", "WaitSessTerm"}

AllSent(s) == s.tracker.pos = s.tracker.len

\* Mutant: nothing is read while a transfer is being sent.
ReadableInWaits(s) == s.nested = 0 /\ s.state \in Waits

\* get_interests
IsReadable(s) == s.nested = 0 /\ s.state \in Waits \cup {"SendXferSegments"}

IsWritable(s) ==
  \/ s.nested > 0
  \/ s.state \notin Waits \cup {"SendXferSegments", "ConnectionClose"}
  \/ s.state = "SendXferSegments" /\ ~AllSent(s)

is_established(s) == s.nested = 0 /\ s.state = "SessionEstablished"

\* The message send_message hands to the writer; acks go before segments.
MessageOf(s) ==
  CASE s.nested > 0 -> [type |-> "Keepalive"]
    [] s.nested = 0 /\ s.state \in {"ActiveSendContactHeader", "PassiveSendContactHeader"}
         -> [type |-> "ContactHeader"]
    [] s.nested = 0 /\ s.state \in {"ActiveSendSessInit", "PassiveSendSessInit"}
         -> [type |-> "SessInit"]
    [] s.nested = 0 /\ s.state \in {"SendXferAck", "SendXferSegmentsAndAck"}
         -> [type |-> "XferAck", id |-> s.ack.id, len |-> s.ack.len]
    [] s.nested = 0 /\ s.state = "SendSessTerm" -> [type |-> "SessTerm"]
    [] s.nested = 0 /\ s.state = "SendXferSegments"
         -> [type |-> "XferSegment", id |-> s.tracker.id,
             data |-> <<s.request, s.tracker.pos + 1>>,
             end |-> s.tracker.pos + 1 = s.tracker.len]
    [] s.nested = 0 /\ s.state = "SendMsgReject" -> [type |-> "MsgReject"]

\* Mutant: the position stays until the segment is acknowledged.
FedLate(s) == s

\* The position moves on as soon as the segment is in the buffer of the writer.
Fed(s) ==
  IF s.nested = 0 /\ s.state = "SendXferSegments"
  THEN [s EXCEPT !.tracker.pos = @ + 1] ELSE s

send_complete(s) ==
  CASE s.nested > 0 -> [s EXCEPT !.nested = @ - 1]
    [] s.nested = 0 /\ s.state = "ActiveSendContactHeader"
         -> [s EXCEPT !.state = "ActiveWaitContactHeader"]
    [] s.nested = 0 /\ s.state = "PassiveSendContactHeader"
         -> [s EXCEPT !.state = "PassiveWaitSessInit"]
    [] s.nested = 0 /\ s.state = "ActiveSendSessInit"
         -> [s EXCEPT !.state = "ActiveWaitSessInit"]
    [] s.nested = 0 /\ s.state = "PassiveSendSessInit"
         -> [s EXCEPT !.state = "SessionEstablished"]
    [] s.nested = 0 /\ s.state = "SendXferAck"
         -> [s EXCEPT !.state = "SessionEstablished", !.ack = Nothing]
    [] s.nested = 0 /\ s.state = "SendXferSegmentsAndAck"
         -> [s EXCEPT !.state = "SendXferSegments", !.ack = Nothing]
    [] s.nested = 0 /\ s.state = "SendXferSegments"
         -> IF AllSent(s) /\ s.tracker.acked = s.tracker.len
            THEN [s EXCEPT !.state = "SessionEstablished", !.tracker = Nothing] ELSE s
    [] s.nested = 0 /\ s.state = "SendSessTerm"
         -> [s EXCEPT !.state = IF s.terminating THEN "ConnectionClose" ELSE "WaitSessTerm",
                      !.terminating = TRUE]
    [] s.nested = 0 /\ s.state = "SendMsgReject"
         -> [s EXCEPT !.state = "ConnectionClose", !.terminating = TRUE]

\* Mutant: the transfer that is being sent is forgotten.
AckOnly(s, ack) == [s EXCEPT !.ack = ack, !.state = "SendXferAck"]

send_ack(s, ack) ==
  [s EXCEPT !.ack = ack,
            !.state = IF @ = "SendXferSegments" THEN "SendXferSegmentsAndAck"
                      ELSE "SendXferAck"]

Reject(s) == [s EXCEPT !.state = "SendMsgReject", !.tracker = Nothing]

-------------------------------------------------------------------------------
(* The loop *)

Running(x) == session[x].outcome = "running" /\ session[x].passing = Nothing

\* The head of the loop: the connection information is passed on once, the
\* result of a transfer when the session can take the next one, and the loop ends
\* in ConnectionClose (the shutdown of the socket succeeds).
LoopHead(s) ==
  [s EXCEPT
    !.established = @ \/ is_established(s),
    !.results = IF is_established(s) /\ s.request # 0 THEN [@ EXCEPT ![s.request] = "ok"]
                ELSE @,
    !.request = IF is_established(s) THEN 0 ELSE @,
    !.outcome = IF s.nested = 0 /\ s.state = "ConnectionClose" THEN "closed" ELSE @]

\* The next turn of end x starts from s; a write that was waiting is cancelled.
Turn(x, s) == session' = [session EXCEPT ![x] = LoopHead([s EXCEPT !.flushing = FALSE])]

Finish(x, outcome) == session' = [session EXCEPT ![x].outcome = outcome]

\* A segment of x fills the socket.
Congested(x) ==
  /\ x \in scenario.narrow
  /\ \E i \in 1..Len(wire[x]) : wire[x][i].type = "XferSegment"

\* send_message, when the socket takes everything at once.
WriteThrough(x) ==
  /\ Running(x) /\ IsWritable(session[x]) /\ ~session[x].flushing
  /\ session[x].buffer = <<>> /\ ~Congested(x)
  /\ wire' = [wire EXCEPT ![x] = Append(@, MessageOf(session[x]))]
  /\ Turn(x, send_complete(Fed(session[x])))
  /\ UNCHANGED <<scenario, agent, send, receive, stored>>

\* send_message puts the message into the buffer and waits for the socket.
WriteBlocks(x) ==
  /\ Running(x) /\ IsWritable(session[x]) /\ ~session[x].flushing
  /\ session[x].buffer # <<>> \/ Congested(x)
  /\ Len(session[x].buffer) < MaxBuffer
  /\ LET s == session[x]
     IN  session' = [session EXCEPT ![x] =
           [Fed(s) EXCEPT !.flushing = TRUE, !.buffer = Append(@, MessageOf(s))]]
  /\ UNCHANGED <<scenario, agent, send, receive, wire, stored>>

\* The socket takes a message of the buffer, for a write that waits or one that
\* may not add to the buffer yet.
Flush(x) ==
  /\ Running(x) /\ ~Congested(x) /\ session[x].buffer # <<>>
  /\ LET s == [session[x] EXCEPT !.buffer = Tail(@)]
     IN  /\ wire' = [wire EXCEPT ![x] = Append(@, Head(session[x].buffer))]
         /\ \/ s.flushing /\ s.buffer = <<>> /\ Turn(x, send_complete(s))
            \/ /\ \/ s.flushing /\ s.buffer # <<>>
                  \/ ~s.flushing /\ IsWritable(s) /\ Len(session[x].buffer) >= MaxBuffer
               /\ session' = [session EXCEPT ![x] = s]
  /\ UNCHANGED <<scenario, agent, send, receive, stored>>

\* The readable branch with a message of the given types; as both ends run this
\* code, only a contact header comes where one is waited for.
Reads(x, types) ==
  /\ Running(x) /\ IsReadable(session[x])
  /\ wire[Peer(x)] # <<>> /\ Head(wire[Peer(x)]).type \in types
  /\ wire' = [wire EXCEPT ![Peer(x)] = Tail(@)]
  /\ UNCHANGED <<scenario, agent, send, receive, stored>>

ReadHandshake(x) ==
  /\ Reads(x, {"ContactHeader", "SessInit"})
  /\ LET s == session[x]
     IN  CASE s.state = "PassiveWaitContactHeader"
                -> Turn(x, [s EXCEPT !.state = "PassiveSendContactHeader"])
           [] s.state = "ActiveWaitContactHeader"
                -> Turn(x, [s EXCEPT !.state = "ActiveSendSessInit"])
           [] s.state = "PassiveWaitSessInit"
                -> Turn(x, [s EXCEPT !.state = "PassiveSendSessInit"])
           [] s.state = "ActiveWaitSessInit"
                -> Turn(x, [s EXCEPT !.state = "SessionEstablished"])
           [] s.state \notin HandshakeStates -> Turn(x, Reject(s))

ReadKeepalive(x) ==
  /\ Reads(x, {"Keepalive"})
  /\ Turn(x, [session[x] EXCEPT !.quiet = 0])

\* Mutant: a SessTerm that crosses one's own is ignored.
TermIgnored(s) ==
  IF s.state \in {"SessionEstablished", "SendXferSegments"}
  THEN [s EXCEPT !.state = "SendSessTerm", !.terminating = TRUE, !.tracker = Nothing]
  ELSE s

\* SessTerm is answered or ends the session; a transfer that is being sent is
\* abandoned.
TakeTerm(s) ==
  CASE s.state = "WaitSessTerm" -> [s EXCEPT !.state = "ConnectionClose"]
    [] s.state \in {"SessionEstablished", "SendXferSegments"}
         -> [s EXCEPT !.state = "SendSessTerm", !.terminating = TRUE, !.tracker = Nothing]
    [] s.state \in HandshakeStates -> Reject(s)

\* SessTerm, or MsgReject, after which the connection is given up.
ReadTerm(x) ==
  /\ Reads(x, {"SessTerm", "MsgReject"})
  /\ IF Head(wire[Peer(x)]).type = "MsgReject" THEN Finish(x, "failed")
     ELSE Turn(x, TakeTerm(session[x]))

\* A segment is added to the transfer that is being received, or starts one; the
\* last one first passes the transfer to the agent.
ReadSegment(x) ==
  /\ Reads(x, {"XferSegment"})
  /\ LET s == session[x]
         m == Head(wire[Peer(x)])
         new == s.receiving = Nothing
         t == [id |-> IF new THEN m.id ELSE s.receiving.id,
               data |-> IF new THEN <<m.data>> ELSE Append(s.receiving.data, m.data)]
         ack == [id |-> m.id, len |-> Len(t.data)]
     IN  Turn(x, IF s.state \notin {"SessionEstablished", "SendXferSegments"} THEN Reject(s)
                 ELSE IF t.id # m.id THEN s
                 ELSE IF m.end THEN [s EXCEPT !.receiving = Nothing, !.ack = ack,
                                              !.passing = t]
                 ELSE send_ack([s EXCEPT !.receiving = t], ack))

\* receive_channel.send().await, in the middle of the branch.
PassUp(x) ==
  /\ session[x].outcome = "running" /\ session[x].passing # Nothing
  /\ Len(receive[x]) < ReceiveCapacity
  /\ receive' = [receive EXCEPT ![x] = Append(@, session[x].passing)]
  /\ Turn(x, send_ack([session[x] EXCEPT !.passing = Nothing], session[x].ack))
  /\ UNCHANGED <<scenario, agent, send, wire, stored>>

\* Mutant: any acknowledgement ends the transfer.
Acked(s, len) == [s EXCEPT !.state = "SessionEstablished", !.tracker = Nothing]

\* An acknowledgement for the transfer that is being sent.
TakeAck(s, len) ==
  IF len = s.tracker.len
  THEN [s EXCEPT !.state = "SessionEstablished", !.tracker = Nothing]
  ELSE [s EXCEPT !.tracker.acked = len]

ReadAck(x) ==
  /\ Reads(x, {"XferAck"})
  /\ LET s == session[x]
         m == Head(wire[Peer(x)])
     IN  IF s.state # "SendXferSegments" THEN Turn(x, Reject(s))
         ELSE IF s.tracker.id # m.id THEN Finish(x, "panicked")
         ELSE IF m.len > s.tracker.pos THEN Finish(x, "failed")
         ELSE Turn(x, TakeAck(s, m.len))

\* The peer has closed and everything it sent is read.
ReadEnd(x) ==
  /\ Running(x) /\ IsReadable(session[x])
  /\ session[Peer(x)].outcome # "running" /\ wire[Peer(x)] = <<>>
  /\ Finish(x, "closed")
  /\ UNCHANGED <<scenario, agent, send, receive, wire, stored>>

\* Reading or writing fails because the peer is gone or the connection broke.
LoseConnection(x) ==
  /\ Running(x)
  /\ scenario.lossy \/ session[Peer(x)].outcome # "running"
  /\ Finish(x, "failed")
  /\ UNCHANGED <<scenario, agent, send, receive, wire, stored>>

\* send_transfer for the next request; one that is too large is answered at once.
TakeTransfer(x) ==
  /\ Running(x) /\ is_established(session[x]) /\ send[x] # <<>>
  /\ send' = [send EXCEPT ![x] = Tail(@)]
  /\ LET s == session[x]
         n == Head(send[x])
         len == scenario.bundles[x][n]
     IN  IF len > TransferMru THEN Turn(x, [s EXCEPT !.results[n] = "too large"])
         ELSE Turn(x, [s EXCEPT
                !.state = "SendXferSegments", !.request = n,
                !.last_used_transfer_id = @ + 1,
                !.tracker = [id |-> s.last_used_transfer_id, len |-> len,
                             pos |-> 0, acked |-> 0]])
  /\ UNCHANGED <<scenario, agent, receive, wire, stored>>

\* No keepalive of x is under way.
Answered(x) ==
  /\ session[x].nested = 0
  /\ \A i \in 1..Len(session[x].buffer) : session[x].buffer[i].type # "Keepalive"
  /\ \A i \in 1..Len(wire[x]) : wire[x][i].type # "Keepalive"

\* The keepalive timer, once the session is established: a peer that was not
\* heard of for two intervals is left, and a keepalive is sent in any case.  The
\* intervals are counted where a message may wait for one.  (Before that a tick
\* does nothing: the messages of the handshake never wait for the socket.)
Tick(x) ==
  /\ Running(x) /\ session[x].established
  /\ Congested(x) \/ Answered(x)
  /\ session[x].nested < MaxNested
  /\ LET s == session[x]
         idle == is_established(s) /\ s.quiet = 2
     IN  Turn(x, [s EXCEPT
           !.state = IF idle THEN "SendSessTerm" ELSE @,
           !.quiet = IF scenario.narrow # {} /\ @ < 2 THEN @ + 1 ELSE @,
           !.nested = @ + 1])
  /\ UNCHANGED <<scenario, agent, send, receive, wire, stored>>

\* The agent has asked to close.
CloseConnection(x) ==
  /\ Running(x) /\ is_established(session[x]) /\ agent[x].close
  /\ Turn(x, [session[x] EXCEPT !.state = "SendSessTerm"])
  /\ UNCHANGED <<scenario, agent, send, receive, wire, stored>>

SessionStep(x) ==
  \/ WriteThrough(x) \/ WriteBlocks(x) \/ Flush(x)
  \/ ReadHandshake(x) \/ ReadKeepalive(x) \/ ReadTerm(x) \/ ReadSegment(x)
  \/ ReadAck(x) \/ ReadEnd(x) \/ PassUp(x)
  \/ TakeTransfer(x) \/ Tick(x) \/ CloseConnection(x)

-------------------------------------------------------------------------------
(* The agent *)

\* AgentForwardBundle: the request goes into the channel, or the agent does
\* nothing else until there is room for it.
AgentForward(x) ==
  /\ agent[x].up /\ agent[x].todo # <<>> /\ session[x].outcome = "running"
  /\ \/ /\ Len(send[x]) < SendCapacity
        /\ send' = [send EXCEPT ![x] = Append(@, Head(agent[x].todo))]
        /\ agent' = [agent EXCEPT ![x].todo = Tail(@), ![x].waiting = FALSE]
     \/ /\ Len(send[x]) = SendCapacity /\ ~agent[x].waiting
        /\ agent' = [agent EXCEPT ![x].waiting = TRUE]
        /\ UNCHANGED send
  /\ UNCHANGED <<scenario, session, receive, wire, stored>>

\* A received transfer is handed to the storage agent.
AgentReceive(x) ==
  /\ agent[x].up /\ ~agent[x].waiting /\ receive[x] # <<>>
  /\ stored' = [stored EXCEPT ![x] = Append(@, Head(receive[x]))]
  /\ receive' = [receive EXCEPT ![x] = Tail(@)]
  /\ UNCHANGED <<scenario, session, agent, send, wire>>

\* Shutdown, of a session that was established.
AgentClose(x) ==
  /\ agent[x].up /\ ~agent[x].waiting /\ ~agent[x].close /\ x \in scenario.closing
  /\ session[x].established /\ session[x].outcome = "running"
  /\ agent' = [agent EXCEPT ![x].close = TRUE]
  /\ UNCHANGED <<scenario, session, send, receive, wire, stored>>

\* The agent ends after its session: at once when that failed (ForceShutdown), a
\* bundle cannot be sent or it is asked to close, otherwise when the transfers
\* received are stored.
AgentStop(x) ==
  /\ agent[x].up /\ session[x].outcome # "running"
  /\ \/ session[x].outcome = "failed" \/ agent[x].waiting \/ agent[x].todo # <<>>
     \/ x \in scenario.closing /\ ~agent[x].close
     \/ receive[x] = <<>>
  /\ agent' = [agent EXCEPT ![x].up = FALSE]
  /\ UNCHANGED <<scenario, session, send, receive, wire, stored>>

AgentStep(x) == AgentForward(x) \/ AgentReceive(x) \/ AgentStop(x)

Next ==
  \E x \in Ends : SessionStep(x) \/ LoseConnection(x) \/ AgentStep(x) \/ AgentClose(x)

Spec == Init /\ [][Next]_vars

(***************************************************************************)
(* The loop gets its turn, and select! starts from a random branch, so     *)
(* that a branch that is possible again and again is taken: the ticks that *)
(* interrupt it are an interval apart.  The connection need not break and  *)
(* nobody has to ask to close; but an end learns of a peer that is gone.   *)
(***************************************************************************)
Fairness ==
  \A x \in Ends :
    /\ SF_vars(WriteThrough(x) /\ session[x].nested = 0) /\ WF_vars(WriteThrough(x))
    /\ WF_vars(WriteBlocks(x)) /\ SF_vars(Flush(x))
    /\ SF_vars(\/ ReadHandshake(x) \/ ReadKeepalive(x) \/ ReadTerm(x)
               \/ ReadSegment(x) \/ ReadAck(x) \/ ReadEnd(x))
    /\ WF_vars(session[Peer(x)].outcome # "running" /\ LoseConnection(x))
    /\ WF_vars(PassUp(x)) /\ WF_vars(Tick(x)) /\ WF_vars(AgentStep(x))
    /\ SF_vars(TakeTransfer(x)) /\ SF_vars(CloseConnection(x))

FairSpec == Spec /\ Fairness

-------------------------------------------------------------------------------
(* Properties *)

Transfers == [id : Nat, data : Seq(Nat \X Nat)]

TypeOK ==
  \A x \in Ends :
    LET s == session[x]
    IN  /\ s.state \in States /\ s.nested \in 0..MaxNested /\ s.terminating \in BOOLEAN
        /\ s.state \in {"SendXferSegments", "SendXferSegmentsAndAck"} <=> s.tracker # Nothing
        /\ s.state \in {"SendXferAck", "SendXferSegmentsAndAck"} \/ s.passing # Nothing
             <=> s.ack # Nothing
        /\ s.tracker # Nothing => 0 <= s.tracker.acked /\ s.tracker.acked <= s.tracker.pos
                                  /\ s.tracker.pos <= s.tracker.len
        /\ s.request # 0 => s.results[s.request] = "none"
        /\ s.receiving \in Transfers \cup {Nothing} /\ s.passing \in Transfers \cup {Nothing}
        /\ s.outcome \in {"running", "closed", "failed", "panicked"}
        /\ Len(s.buffer) <= MaxBuffer
        /\ Len(send[x]) <= SendCapacity /\ Len(receive[x]) <= ReceiveCapacity

\* An acknowledgement is for the transfer that is being sent: the assertion of
\* decode_message holds, and no other handler panics.
NoPanic == \A x \in Ends : session[x].outcome # "panicked"

\* Ends that follow the protocol reject each other's messages (MessageUnexpected)
\* only while terminating, when a segment crosses the SessTerm.
NoneRejected ==
  \A x \in Ends : session[x].state = "SendMsgReject" => session[x].terminating

\* The transfers that reached x, stored or in the channel.
Received(x) == stored[x] \o receive[x]

\* Each transfer arrives whole, once and in the order of the bundles, and a
\* bundle counts as sent only when its transfer has arrived.
ExactlyOnce ==
  \A x \in Ends :
    LET got == Received(Peer(x))
        Bundle(i) == got[i].data[1][1]
    IN  /\ \A i \in 1..Len(got) :
             got[i].data = [k \in 1..scenario.bundles[x][Bundle(i)] |-> <<Bundle(i), k>>]
        /\ \A i, j \in 1..Len(got) : i < j => Bundle(i) < Bundle(j)
        /\ \A n \in DOMAIN session[x].results :
             session[x].results[n] = "ok" => \E i \in 1..Len(got) : Bundle(i) = n

\* The bundles given to the agent are answered, unless the session ends.
TransfersFinish ==
  <>(\A x \in Ends :
       \/ session[x].outcome # "running"
       \/ \A n \in DOMAIN session[x].results : session[x].results[n] # "none")

\* A session that was asked to close ends, at both ends.
CloseEnds ==
  (\E x \in Ends : agent[x].close) ~> \A x \in Ends : session[x].outcome # "running"
===============================================================================
